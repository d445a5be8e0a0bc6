-------------------------- MODULE ParseValueProofs --------------------------
(***************************************************************************)
(* Theorems about ParseValue, for all constants: its types, that no pair   *)
(* of a document is overwritten by another one, that no alias of a         *)
(* document which the loader made is unresolved, that what parse_value     *)
(* returns is the value of its document, and that it fails for a reason.   *)
(*                                                                         *)
(* There are two inductive invariants.  Inv adds to the first three that   *)
(* no key is the mark for "no key".  ReadInv says, on top of it, what the  *)
(* calls in progress have read of the document.                            *)
(***************************************************************************)
EXTENDS ParseValue, FiniteSetTheorems, TLAPS

FrameOK(f) ==
  /\ IsFrame(f)
  /\ f.kind = "Mapping" =>
       /\ f.seen = Keys(f)
       /\ f.key \notin KeysOf(f.items)
       /\ NoKey \notin KeysOf(f.items)

StackOK(calls) ==
  /\ IsSequence(calls)
  /\ \A i \in 1 .. Len(calls) : FrameOK(calls[i])

Inv ==
  /\ ParseTypeOK
  /\ StackOK(stack)
  /\ AliasesResolve

-----------------------------------------------------------------------------
(* Sequences, values and frames.                                           *)

LEMMA SeqIsSequence ==
  ASSUME NEW S, NEW s \in Seq(S)
  PROVE  IsSequence(s)
<1>1. Len(s) \in Nat /\ DOMAIN s = 1 .. Len(s)
  OBVIOUS
<1> DEFINE T == { s[i] : i \in DOMAIN s }
<1>2. s \in [1 .. Len(s) -> T]
  BY <1>1
<1> QED BY <1>1, <1>2 DEF IsSequence

LEMMA AppendSequence ==
  ASSUME NEW s, IsSequence(s), NEW x
  PROVE  /\ IsSequence(Append(s, x))
         /\ Len(Append(s, x)) = Len(s) + 1
         /\ \A i \in 1 .. Len(s) : Append(s, x)[i] = s[i]
         /\ Append(s, x)[Len(s) + 1] = x
         /\ Len(s) \in Nat
<1> DEFINE S == { s[i] : i \in DOMAIN s } \cup {x}
<1>1. s \in Seq({ s[i] : i \in DOMAIN s })
  BY DEF IsSequence
<1>2. s \in Seq(S)
  BY <1>1
<1>3. x \in S
  OBVIOUS
<1> HIDE DEF S
<1>4. Append(s, x) \in Seq(S)
  BY <1>2, <1>3
<1>5. IsSequence(Append(s, x))
  BY <1>4, SeqIsSequence
<1> QED BY <1>2, <1>3, <1>5

LEMMA EmptySequence == IsSequence(<<>>)
<1>1. <<>> \in Seq({})
  OBVIOUS
<1> QED BY <1>1, SeqIsSequence

\* The keys of a list of entries to which one is appended.
LEMMA AppendKeys ==
  ASSUME NEW items, IsSequence(items), NEW key, NEW v
  PROVE  KeysOf(Append(items, Entry(key, v))) = KeysOf(items) \cup {key}
<1> DEFINE new == Append(items, Entry(key, v))
<1>1. /\ Len(new) = Len(items) + 1
      /\ \A i \in 1 .. Len(items) : new[i] = items[i]
      /\ new[Len(items) + 1] = Entry(key, v)
      /\ Len(items) \in Nat
  BY AppendSequence
<1> HIDE DEF new
<1>2. Entry(key, v).key = key
  BY DEF Entry
<1>3. 1 .. Len(new) = 1 .. Len(items) \cup {Len(items) + 1}
  BY <1>1
<1>4. KeysOf(new) = { new[i].key : i \in 1 .. Len(items) } \cup {key}
  BY <1>1, <1>2, <1>3 DEF KeysOf
<1>5. { new[i].key : i \in 1 .. Len(items) } = KeysOf(items)
  BY <1>1 DEF KeysOf
<1> QED BY <1>4, <1>5 DEF new

\* A node is not the mark for a key that is not there.
LEMMA NodeIsNoMark ==
  ASSUME NEW kind, kind # "NoKey", NEW text, NEW anchor, NEW items
  PROVE  Node(kind, text, anchor, items) # NoKey
<1>1. Node(kind, text, anchor, items).kind = kind
  BY DEF Node
<1>2. NoKey.kind = "NoKey"
  BY DEF NoKey, Node
<1> QED BY <1>1, <1>2

LEMMA NewFrame ==
  ASSUME NEW kind \in {"Sequence", "Mapping"}, NEW anchor \in Names \cup {Unanchored}
  PROVE  FrameOK(Frame(kind, anchor))
<1> DEFINE f == Frame(kind, anchor)
<1>1. /\ DOMAIN f = {"kind", "anchor", "items", "key", "seen"}
      /\ f.kind = kind /\ f.anchor = anchor /\ f.items = <<>> /\ f.key = NoKey /\ f.seen = {}
  BY DEF Frame
<1> HIDE DEF f
<1>2. IsFrame(f)
  BY <1>1, EmptySequence DEF IsFrame
<1>3. KeysOf(<<>>) = {}
  BY DEF KeysOf
<1>4. Keys(f) = {}
  BY <1>1, <1>3 DEF Keys
<1> QED BY <1>1, <1>2, <1>3, <1>4 DEF FrameOK, f

\* A node that is no duplicate key goes into a frame.
LEMMA WithNode ==
  ASSUME NEW f, FrameOK(f), NEW v, v # NoKey, ~IsDuplicate(f, v)
  PROVE  FrameOK(With(f, v))
<1> DEFINE w == With(f, v)
<1>1. /\ DOMAIN f = {"kind", "anchor", "items", "key", "seen"}
      /\ f.kind \in {"Sequence", "Mapping"}
      /\ f.anchor \in Names \cup {Unanchored}
      /\ IsSequence(f.items)
  BY DEF FrameOK, IsFrame
<1>2. CASE f.kind = "Sequence"
  <2>1. w = [f EXCEPT !.items = Append(f.items, Element(v))]
    BY <1>2 DEF With
  <2>2. /\ DOMAIN w = DOMAIN f /\ w.kind = f.kind /\ w.anchor = f.anchor /\ w.key = f.key
        /\ w.items = Append(f.items, Element(v))
    BY <1>1, <2>1
  <2>3. IsSequence(w.items)
    BY <1>1, <2>2, AppendSequence
  <2>4. f.key = NoKey
    BY <1>2 DEF FrameOK, IsFrame
  <2> HIDE DEF w
  <2> QED BY <1>1, <1>2, <2>2, <2>3, <2>4 DEF FrameOK, IsFrame, w
<1>3. CASE f.kind = "Mapping" /\ f.key = NoKey
  <2>1. w = [f EXCEPT !.key = v, !.seen = f.seen \cup {v}]
    BY <1>3 DEF With
  <2>2. /\ DOMAIN w = DOMAIN f /\ w.kind = f.kind /\ w.anchor = f.anchor /\ w.items = f.items
        /\ w.key = v /\ w.seen = f.seen \cup {v}
    BY <1>1, <2>1
  <2>3. v \notin f.seen
    BY <1>3 DEF IsDuplicate, AwaitsKey
  <2>4. f.seen = KeysOf(f.items) /\ NoKey \notin KeysOf(f.items)
    BY <1>3 DEF FrameOK, Keys
  <2> HIDE DEF w
  <2>5. Keys(w) = KeysOf(f.items) \cup {v}
    BY <2>2 DEF Keys
  <2> QED BY <1>1, <1>3, <2>2, <2>3, <2>4, <2>5 DEF FrameOK, IsFrame, w
<1>4. CASE f.kind = "Mapping" /\ f.key # NoKey
  <2>1. /\ f.seen = KeysOf(f.items) \cup {f.key}
        /\ f.key \notin KeysOf(f.items)
        /\ NoKey \notin KeysOf(f.items)
    BY <1>4 DEF FrameOK, Keys
  <2>2. w = [f EXCEPT !.items = Insert(f.items, f.key, v), !.key = NoKey]
    BY <1>4 DEF With
  <2>3. w = [f EXCEPT !.items = Append(f.items, Entry(f.key, v)), !.key = NoKey]
    BY <2>1, <2>2 DEF Insert
  <2>4. /\ DOMAIN w = DOMAIN f /\ w.kind = f.kind /\ w.anchor = f.anchor /\ w.seen = f.seen
        /\ w.items = Append(f.items, Entry(f.key, v)) /\ w.key = NoKey
    BY <1>1, <2>3
  <2>5. IsSequence(w.items)
    BY <1>1, <2>4, AppendSequence
  <2>6. KeysOf(w.items) = f.seen
    BY <1>1, <2>1, <2>4, AppendKeys
  <2> HIDE DEF w
  <2>7. Keys(w) = f.seen
    BY <2>4, <2>6 DEF Keys
  <2>8. NoKey \notin f.seen
    BY <1>4, <2>1
  <2> QED BY <1>1, <1>4, <2>4, <2>5, <2>6, <2>7, <2>8 DEF FrameOK, IsFrame, w
<1> QED BY <1>1, <1>2, <1>3, <1>4

-----------------------------------------------------------------------------
(* Stacks of calls.                                                        *)

LEMMA PushCall ==
  ASSUME NEW calls, StackOK(calls), NEW f, FrameOK(f)
  PROVE  StackOK(Append(calls, f))
<1>1. /\ IsSequence(Append(calls, f))
      /\ Len(Append(calls, f)) = Len(calls) + 1
      /\ \A i \in 1 .. Len(calls) : Append(calls, f)[i] = calls[i]
      /\ Append(calls, f)[Len(calls) + 1] = f
      /\ Len(calls) \in Nat
  BY AppendSequence DEF StackOK
<1>2. \A i \in 1 .. Len(calls) : FrameOK(calls[i])
  BY DEF StackOK
<1>3. ASSUME NEW i \in 1 .. Len(Append(calls, f)) PROVE FrameOK(Append(calls, f)[i])
  <2>1. i \in 1 .. Len(calls) \/ i = Len(calls) + 1
    BY <1>1
  <2> QED BY <1>1, <1>2, <2>1
<1> QED BY <1>1, <1>3 DEF StackOK

LEMMA NonEmptyCalls ==
  ASSUME NEW calls, StackOK(calls), calls # <<>>
  PROVE  Len(calls) \in 1 .. Len(calls) /\ Len(calls) \in Nat /\ FrameOK(calls[Len(calls)])
<1>1. calls \in Seq({ calls[i] : i \in DOMAIN calls })
  BY DEF StackOK, IsSequence
<1>2. Len(calls) \in Nat /\ Len(calls) # 0
  BY <1>1
<1> QED BY <1>2 DEF StackOK

LEMMA ReplaceTop ==
  ASSUME NEW calls, StackOK(calls), calls # <<>>, NEW f, FrameOK(f)
  PROVE  StackOK(OnTop(calls, f))
<1> DEFINE n == Len(calls)
           new == OnTop(calls, f)
<1>1. calls \in Seq({ calls[i] : i \in DOMAIN calls })
  BY DEF StackOK, IsSequence
<1>2. n \in Nat /\ DOMAIN calls = 1 .. n /\ n \in 1 .. n
  BY <1>1, NonEmptyCalls
<1>3. /\ DOMAIN new = 1 .. n
      /\ \A i \in 1 .. n : new[i] = IF i = n THEN f ELSE calls[i]
  BY <1>2 DEF OnTop
<1>4. \A i \in 1 .. n : FrameOK(calls[i])
  BY DEF StackOK
<1> DEFINE S == { calls[i] : i \in DOMAIN calls } \cup {f}
<1>5. new = [ i \in 1 .. n |-> new[i] ]
  BY <1>2 DEF OnTop
<1>6. \A i \in 1 .. n : new[i] \in S
  BY <1>2, <1>3
<1> HIDE DEF S, n, new
<1>7. new \in [1 .. n -> S]
  BY <1>5, <1>6
<1>8. new \in Seq(S) /\ Len(new) = n
  BY <1>2, <1>3, <1>7
<1>9. IsSequence(new)
  BY <1>8, SeqIsSequence
<1>10. \A i \in 1 .. n : FrameOK(new[i])
  BY <1>3, <1>4
<1> QED BY <1>8, <1>9, <1>10 DEF StackOK, new

LEMMA PopCall ==
  ASSUME StackOK(stack), stack # <<>>
  PROVE  StackOK(Below)
<1> DEFINE S == { stack[i] : i \in DOMAIN stack }
           n == Len(stack) - 1
<1>1. stack \in Seq(S)
  BY DEF StackOK, IsSequence
<1> HIDE DEF S
<1>2. Len(stack) \in Nat /\ n \in Nat /\ n <= Len(stack)
  BY <1>1
<1>3. \A i \in 1 .. n : stack[i] \in S
  BY <1>1, <1>2
<1>4. Below = [i \in 1 .. n |-> stack[i]]
  BY <1>1, <1>2 DEF Below
<1> HIDE DEF n
<1>5. Below \in Seq(S) /\ Len(Below) = n
  BY <1>2, <1>3, <1>4
<1>6. IsSequence(Below)
  BY <1>5, SeqIsSequence
<1>7. \A i \in 1 .. Len(stack) : FrameOK(stack[i])
  BY DEF StackOK
<1>8. \A i \in 1 .. Len(Below) : FrameOK(Below[i])
  BY <1>2, <1>4, <1>5, <1>7
<1> QED BY <1>6, <1>8 DEF StackOK

LEMMA NoCalls == StackOK(<<>>)
BY EmptySequence DEF StackOK

-----------------------------------------------------------------------------
(* Steps.                                                                  *)

\* What every error but UnresolvedAlias leaves.
LEMMA ErrorStep ==
  ASSUME Inv, NEW kind \in Answers, kind # "UnresolvedAlias", Error(kind),
         pos' \in 0 .. Len(document.events)
  PROVE  Inv'
<1>1. answer' = kind /\ stack' = <<>> /\ document' = document
  BY DEF Error
<1>2. StackOK(stack')
  BY <1>1, NoCalls
<1>3. IsSequence(stack') /\ \A i \in 1 .. Len(stack') : IsFrame(stack'[i])
  BY <1>2 DEF StackOK, FrameOK
<1> QED BY <1>1, <1>2, <1>3 DEF Inv, ParseTypeOK, AliasesResolve, StackOK, IsSequence, FrameOK, IsFrame

\* A node is returned to whoever asked for it.
LEMMA ReturnStep ==
  ASSUME Inv, NEW calls, StackOK(calls), NEW v, v # NoKey, Return(calls, v),
         pos' \in 0 .. Len(document.events)
  PROVE  Inv'
<1>1. CASE calls = <<>>
  <2>1. answer' \in {"Ok", "DocumentError"} /\ stack' = <<>> /\ document' = document
    BY <1>1 DEF Return
  <2>2. StackOK(stack')
    BY <2>1, NoCalls
  <2>3. IsSequence(stack') /\ \A i \in 1 .. Len(stack') : IsFrame(stack'[i])
    BY <2>2 DEF StackOK, FrameOK
  <2> QED BY <2>1, <2>2, <2>3 DEF Inv, ParseTypeOK, AliasesResolve, Answers
<1>2. CASE calls # <<>> /\ IsDuplicate(calls[Len(calls)], v)
  <2>1. Error("DuplicateKey")
    BY <1>2 DEF Return
  <2> QED BY <2>1, ErrorStep DEF Answers
<1>3. CASE calls # <<>> /\ ~IsDuplicate(calls[Len(calls)], v)
  <2>1. /\ stack' = OnTop(calls, With(calls[Len(calls)], v))
        /\ document' = document /\ answer' = answer
    BY <1>3 DEF Return
  <2>2. FrameOK(calls[Len(calls)])
    BY <1>3, NonEmptyCalls
  <2>3. FrameOK(With(calls[Len(calls)], v))
    BY <1>3, <2>2, WithNode
  <2>4. StackOK(stack')
    BY <1>3, <2>1, <2>3, ReplaceTop
  <2>5. IsSequence(stack') /\ \A i \in 1 .. Len(stack') : IsFrame(stack'[i])
    BY <2>4 DEF StackOK, FrameOK
  <2> QED BY <2>1, <2>4, <2>5 DEF Inv, ParseTypeOK, AliasesResolve
<1> QED BY <1>1, <1>2, <1>3

\* The event at hand, and that the position after it is one, too.
LEMMA EventAtHand ==
  ASSUME Inv, Running
  PROVE  /\ Event \in Events
         /\ pos + 1 \in 1 .. Len(document.events)
         /\ pos + 1 \in 0 .. Len(document.events)
<1>1. document.events \in Seq(Events) /\ pos \in 0 .. Len(document.events)
  BY DEF Inv, ParseTypeOK, IsDocument
<1>2. Len(document.events) \in Nat /\ pos < Len(document.events)
  BY <1>1 DEF Running
<1>3. pos + 1 \in 1 .. Len(document.events)
  BY <1>1, <1>2
<1>4. Event \in Events
  BY <1>1, <1>3 DEF Event
<1> QED BY <1>1, <1>2, <1>3, <1>4

LEMMA InitInv == ASSUME ParseInit PROVE Inv
<1>1. document \in Documents /\ pos = 0 /\ stack = <<>> /\ answer = "none"
  BY DEF ParseInit
<1>2. IsDocument(document)
  BY <1>1, ParseAssumption
<1>3. StackOK(stack)
  BY <1>1, NoCalls
<1>4. IsSequence(stack) /\ \A i \in 1 .. Len(stack) : IsFrame(stack[i])
  BY <1>3 DEF StackOK, FrameOK
<1>5. pos \in 0 .. Len(document.events)
  BY <1>1, <1>2 DEF IsDocument
<1> QED BY <1>1, <1>2, <1>3, <1>4, <1>5 DEF Inv, ParseTypeOK, AliasesResolve, Answers

\* What an alias is read as; its name is that of the node that it leads to.
Named(d, e) == Alias(d.events[d.aliases[e.id + 1] + 1].anchor)

LEMMA AliasReturns ==
  ASSUME Inv, ParseAlias
  PROVE  /\ Running /\ Event.type = "Alias" /\ pos' = pos + 1
         /\ Return(stack, Named(document, Event))
         /\ Named(document, Event) # NoKey
<1>1. Running /\ Event.type = "Alias" /\ pos' = pos + 1
  BY DEF ParseAlias
<1>2. Event \in Events /\ pos + 1 \in 1 .. Len(document.events)
  BY <1>1, EventAtHand
<1> DEFINE at == document.aliases[Event.id + 1]
           target == document.events[at + 1]
<1>3. IsDocument(document)
  BY DEF Inv, ParseTypeOK
<1>4. Event.id \in Nat /\ Event.id < Len(document.aliases)
  <2>1. document.events[pos + 1].type = "Alias"
    BY <1>1 DEF Event
  <2>2. Event.id \in Nat
    BY <1>2 DEF Events
  <2> QED BY <1>2, <1>3, <2>1, <2>2 DEF IsDocument, Event
<1>5. Event.id + 1 \in 1 .. Len(document.aliases)
  BY <1>3, <1>4 DEF IsDocument
<1>6. target.type \in NodeStarts /\ target.anchor \in Names
  BY <1>3, <1>5 DEF IsDocument
<1>7. target.anchor # Unanchored
  BY <1>6, ParseAssumption
<1>8. Return(stack, Alias(target.anchor))
  BY <1>4, <1>6, <1>7 DEF ParseAlias
<1>9. Alias(target.anchor) # NoKey
  BY NodeIsNoMark DEF Alias
<1> QED BY <1>1, <1>8, <1>9 DEF Named

LEMMA AliasStep == ASSUME Inv, ParseAlias PROVE Inv'
<1>1. /\ Running /\ pos' = pos + 1
      /\ Return(stack, Named(document, Event))
      /\ Named(document, Event) # NoKey
  BY AliasReturns
<1>2. pos' \in 0 .. Len(document.events)
  BY <1>1, EventAtHand
<1>3. StackOK(stack)
  BY DEF Inv
<1> QED BY <1>1, <1>2, <1>3, ReturnStep

LEMMA ScalarStep == ASSUME Inv, ParseScalar PROVE Inv'
<1>1. Running /\ Return(stack, ScalarValue(Event)) /\ pos' = pos + 1
  BY DEF ParseScalar
<1>2. pos' \in 0 .. Len(document.events)
  BY <1>1, EventAtHand
<1>3. ScalarValue(Event) # NoKey
  BY NodeIsNoMark DEF ScalarValue
<1>4. StackOK(stack)
  BY DEF Inv
<1> QED BY <1>1, <1>2, <1>3, <1>4, ReturnStep

LEMMA VoidStep == ASSUME Inv, ParseVoid PROVE Inv'
<1>1. Running /\ Return(stack, Null) /\ pos' = pos + 1
  BY DEF ParseVoid
<1>2. pos' \in 0 .. Len(document.events)
  BY <1>1, EventAtHand
<1>3. Null # NoKey
  BY NodeIsNoMark DEF Null
<1>4. StackOK(stack)
  BY DEF Inv
<1> QED BY <1>1, <1>2, <1>3, <1>4, ReturnStep

LEMMA OpenStep == ASSUME Inv, OpenCollection PROVE Inv'
<1>1. /\ Running
      /\ stack' = Append(stack, Frame(CollectionKind(Event.type), Event.anchor))
      /\ pos' = pos + 1 /\ document' = document /\ answer' = answer
  BY DEF OpenCollection
<1>2. Event \in Events /\ pos' \in 0 .. Len(document.events)
  BY <1>1, EventAtHand
<1>3. Event.anchor \in Names \cup {Unanchored}
  BY <1>2 DEF Events
<1>4. FrameOK(Frame(CollectionKind(Event.type), Event.anchor))
  BY <1>3, NewFrame DEF CollectionKind
<1>5. StackOK(stack')
  BY <1>1, <1>4, PushCall DEF Inv
<1>6. IsSequence(stack') /\ \A i \in 1 .. Len(stack') : IsFrame(stack'[i])
  BY <1>5 DEF StackOK, FrameOK
<1> QED BY <1>1, <1>2, <1>5, <1>6 DEF Inv, ParseTypeOK, AliasesResolve

LEMMA CloseStep == ASSUME Inv, CloseCollection PROVE Inv'
<1>1. /\ Running /\ stack # <<>> /\ pos' = pos + 1
      /\ Return(Below, Node(Top.kind, "", Top.anchor, Top.items))
  BY DEF CloseCollection
<1>2. pos' \in 0 .. Len(document.events)
  BY <1>1, EventAtHand
<1>3. StackOK(stack)
  BY DEF Inv
<1>4. FrameOK(Top)
  BY <1>1, <1>3, NonEmptyCalls DEF Top
<1>5. Top.kind # "NoKey"
  BY <1>4 DEF FrameOK, IsFrame
<1>6. Node(Top.kind, "", Top.anchor, Top.items) # NoKey
  BY <1>5, NodeIsNoMark
<1>7. StackOK(Below)
  BY <1>1, <1>3, PopCall
<1> QED BY <1>1, <1>2, <1>6, <1>7, ReturnStep

LEMMA UnexpectedEndStep == ASSUME Inv, UnexpectedEnd PROVE Inv'
<1>1. Running /\ Error("UnexpectedEnd") /\ pos' = pos + 1
  BY DEF UnexpectedEnd
<1>2. pos' \in 0 .. Len(document.events)
  BY <1>1, EventAtHand
<1> QED BY <1>1, <1>2, ErrorStep DEF Answers

LEMMA OutOfEventsStep == ASSUME Inv, OutOfEvents PROVE Inv'
<1>1. /\ Error(IF document.error THEN "DocumentError" ELSE "EndOfStream")
      /\ pos' = pos
  BY DEF OutOfEvents
<1>2. pos' \in 0 .. Len(document.events)
  BY <1>1 DEF Inv, ParseTypeOK
<1>3. CASE document.error
  BY <1>1, <1>2, <1>3, ErrorStep DEF Answers
<1>4. CASE ~document.error
  BY <1>1, <1>2, <1>4, ErrorStep DEF Answers
<1> QED BY <1>3, <1>4

LEMMA StutterStep == ASSUME Inv, UNCHANGED parseVars PROVE Inv'
<1>1. document' = document /\ pos' = pos /\ stack' = stack /\ answer' = answer
  BY DEF parseVars
<1> QED BY <1>1 DEF Inv, ParseTypeOK, StackOK, AliasesResolve

LEMMA NextInv == ASSUME Inv, [ParseNext]_parseVars PROVE Inv'
BY AliasStep, ScalarStep, VoidStep, OpenStep, CloseStep, UnexpectedEndStep,
   OutOfEventsStep, StutterStep DEF ParseNext

LEMMA InvImplied == ASSUME Inv PROVE ParseTypeOK /\ NothingOverwritten /\ AliasesResolve
BY DEF Inv, StackOK, FrameOK, NothingOverwritten

LEMMA AlwaysInv == ParseSpec => []Inv
BY InitInv, NextInv, PTL DEF ParseSpec

-----------------------------------------------------------------------------
(* The depth of events, and the nodes directly in a collection.            *)

Delta(e) == IF IsStart(e) THEN 1 ELSE IF IsEnd(e) THEN -1 ELSE 0

LEMMA DepthType ==
  ASSUME NEW d, NEW k \in Nat
  PROVE  Depth(d, k) \in Int
<1> DEFINE S == { i \in 1 .. k : IsStart(d.events[i]) }
           E == { i \in 1 .. k : IsEnd(d.events[i]) }
<1>1. IsFiniteSet(1 .. k)
  BY FS_Interval
<1>2. IsFiniteSet(S) /\ IsFiniteSet(E)
  BY <1>1, FS_Subset
<1>3. Cardinality(S) \in Nat /\ Cardinality(E) \in Nat
  BY <1>2, FS_CardinalityType
<1> QED BY <1>3 DEF Depth

LEMMA DepthStart == \A d : Depth(d, 0) = 0
<1> SUFFICES ASSUME NEW d PROVE Depth(d, 0) = 0
  OBVIOUS
<1>1. 1 .. 0 = {}
  OBVIOUS
<1>2. { i \in 1 .. 0 : IsStart(d.events[i]) } = {} /\ { i \in 1 .. 0 : IsEnd(d.events[i]) } = {}
  BY <1>1
<1>3. Cardinality({}) = 0
  BY FS_EmptySet
<1>4. Depth(d, 0) = Cardinality({}) - Cardinality({})
  BY <1>2 DEF Depth
<1> QED BY <1>3, <1>4

LEMMA DepthStep ==
  ASSUME NEW d, NEW k \in Nat
  PROVE  Depth(d, k + 1) = Depth(d, k) + Delta(d.events[k + 1])
<1> DEFINE S(n) == { i \in 1 .. n : IsStart(d.events[i]) }
           E(n) == { i \in 1 .. n : IsEnd(d.events[i]) }
<1>1. IsFiniteSet(1 .. k)
  BY FS_Interval
<1>2. IsFiniteSet(S(k)) /\ IsFiniteSet(E(k))
  BY <1>1, FS_Subset
<1>3. Cardinality(S(k)) \in Nat /\ Cardinality(E(k)) \in Nat
  BY <1>2, FS_CardinalityType
<1>4. k + 1 \notin S(k) /\ k + 1 \notin E(k)
  OBVIOUS
<1>5. 1 .. k + 1 = 1 .. k \cup {k + 1}
  OBVIOUS
<1>6. S(k + 1) = IF IsStart(d.events[k + 1]) THEN S(k) \cup {k + 1} ELSE S(k)
  BY <1>5
<1>7. E(k + 1) = IF IsEnd(d.events[k + 1]) THEN E(k) \cup {k + 1} ELSE E(k)
  BY <1>5
<1>8. ~(IsStart(d.events[k + 1]) /\ IsEnd(d.events[k + 1]))
  BY DEF IsStart, IsEnd
<1>9. Depth(d, k) = Cardinality(S(k)) - Cardinality(E(k))
  BY DEF Depth
<1>10. Depth(d, k + 1) = Cardinality(S(k + 1)) - Cardinality(E(k + 1))
  BY DEF Depth
<1> HIDE DEF S, E
<1>11. /\ Cardinality(S(k) \cup {k + 1}) = Cardinality(S(k)) + 1
       /\ Cardinality(E(k) \cup {k + 1}) = Cardinality(E(k)) + 1
  BY <1>2, <1>4, FS_AddElement
<1> QED BY <1>3, <1>6, <1>7, <1>8, <1>9, <1>10, <1>11 DEF Delta

\* Up to n the events since s are inside the collection that begins there, and
\* n is directly in it.
Inside(d, s, n) ==
  /\ s \in Nat \ {0} /\ n \in Nat /\ s < n
  /\ \A r \in s .. n - 1 : Depth(d, r) >= Depth(d, s)
  /\ Depth(d, n - 1) = Depth(d, s)

LEMMA ChildrenFinite ==
  ASSUME NEW d, NEW s \in Nat, NEW n \in Nat
  PROVE  /\ IsFiniteSet(Children(d, s, n))
         /\ Cardinality(Children(d, s, n)) \in Nat
         /\ Children(d, s, n) \subseteq s + 1 .. n - 1
<1>1. Children(d, s, n) \subseteq s + 1 .. n - 1
  BY DEF Children
<1>2. IsFiniteSet(s + 1 .. n - 1)
  BY FS_Interval
<1>3. IsFiniteSet(Children(d, s, n))
  BY <1>1, <1>2, FS_Subset
<1> QED BY <1>1, <1>3, FS_CardinalityType

\* A node that begins directly in a collection is one more of its children.
LEMMA ChildAdded ==
  ASSUME NEW d, NEW s, NEW n, Inside(d, s, n), NEW j \in Nat, n <= j, OneNode(d, n, j)
  PROVE  /\ Inside(d, s, j + 1)
         /\ n \in Children(d, s, n + 1)
         /\ Cardinality(Children(d, s, j + 1)) = Cardinality(Children(d, s, n)) + 1
<1>1. /\ s \in Nat \ {0} /\ n \in Nat /\ s < n
      /\ \A r \in s .. n - 1 : Depth(d, r) >= Depth(d, s)
      /\ Depth(d, n - 1) = Depth(d, s)
  BY DEF Inside
<1>2. /\ ~IsEnd(d.events[n])
      /\ Depth(d, j) = Depth(d, n - 1)
      /\ \A q \in n .. j - 1 : Depth(d, q) > Depth(d, n - 1)
  BY DEF OneNode
<1>3. \A r \in Nat : Depth(d, r) \in Int
  BY DepthType
<1>4. ASSUME NEW r \in s .. j PROVE Depth(d, r) >= Depth(d, s)
  <2>1. r \in s .. n - 1 \/ r \in n .. j - 1 \/ r = j
    BY <1>1
  <2>2. r \in Nat /\ Depth(d, r) \in Int /\ Depth(d, s) \in Int
    BY <1>1, <1>3
  <2>3. CASE r \in s .. n - 1
    BY <2>3, <1>1
  <2>4. CASE r \in n .. j - 1
    BY ONLY <2>2, <2>4, <1>1, <1>2
  <2>5. CASE r = j
    BY ONLY <2>2, <2>5, <1>1, <1>2
  <2> QED BY <2>1, <2>3, <2>4, <2>5
<1>5. Inside(d, s, j + 1)
  BY <1>1, <1>2, <1>4 DEF Inside
<1>6. n \in Children(d, s, n + 1)
  BY <1>1, <1>2 DEF Children
<1>7. Children(d, s, j + 1) = Children(d, s, n) \cup {n}
  <2>1. ASSUME NEW p \in Children(d, s, j + 1) PROVE p \in Children(d, s, n) \cup {n}
    <3>1. /\ p \in s + 1 .. j
          /\ ~IsEnd(d.events[p])
          /\ Depth(d, p - 1) = Depth(d, s)
          /\ \A r \in s .. p - 1 : Depth(d, r) >= Depth(d, s)
      BY <2>1 DEF Children
    <3>2. p <= n
      <4> SUFFICES ASSUME ~(p <= n) PROVE FALSE
        OBVIOUS
      <4>1. p - 1 \in n .. j - 1
        BY <1>1, <3>1
      <4>2. Depth(d, p - 1) > Depth(d, n - 1)
        BY <1>2, <4>1
      <4>3. Depth(d, s) \in Int
        BY <1>1, <1>3
      <4> QED BY ONLY <4>2, <4>3, <3>1, <1>1
    <3>3. CASE p = n
      BY <3>3
    <3>4. CASE p < n
      <4>1. p \in s + 1 .. n - 1
        BY <1>1, <3>1, <3>4
      <4> QED BY <4>1, <3>1 DEF Children
    <3> QED BY <1>1, <3>1, <3>2, <3>3, <3>4
  <2>2. ASSUME NEW p \in Children(d, s, n) PROVE p \in Children(d, s, j + 1)
    BY <1>1, <2>2 DEF Children
  <2>3. n \in Children(d, s, j + 1)
    BY <1>1, <1>2 DEF Children
  <2> QED BY <2>1, <2>2, <2>3
<1>8. n \notin Children(d, s, n) /\ IsFiniteSet(Children(d, s, n))
  BY <1>1, ChildrenFinite
<1>9. Cardinality(Children(d, s, n) \cup {n}) = Cardinality(Children(d, s, n)) + 1
  BY <1>8, FS_AddElement
<1> QED BY <1>5, <1>6, <1>7, <1>9

-----------------------------------------------------------------------------
(* Readings.                                                               *)

Closed(d, R) == \A r \in R : IsReading(d, R, r)

LEMMA ReadingIs ==
  ASSUME NEW d, NEW R, NEW v, NEW i, NEW j
  PROVE  IsReading(d, R, Reading(v, i, j)) <=> NodeRead(d, R, v, i, j)
BY DEF Reading, IsReading

LEMMA ReadingClosed ==
  ASSUME NEW d, NEW R, Closed(d, R), NEW v, NEW i, NEW j, Reading(v, i, j) \in R
  PROVE  NodeRead(d, R, v, i, j)
BY ReadingIs DEF Closed

LEMMA MoreElements ==
  ASSUME NEW R, NEW Q, R \subseteq Q, NEW items, NEW i, NEW j, ElementsRead(R, items, i, j)
  PROVE  ElementsRead(Q, items, i, j)
BY DEF ElementsRead

LEMMA MorePairs ==
  ASSUME NEW R, NEW Q, R \subseteq Q, NEW items, NEW i, NEW j, PairsRead(R, items, i, j)
  PROVE  PairsRead(Q, items, i, j)
BY DEF PairsRead

LEMMA MoreReadings ==
  ASSUME NEW d, NEW R, NEW Q, R \subseteq Q, NEW r, IsReading(d, R, r)
  PROVE  IsReading(d, Q, r)
<1>1. /\ ElementsRead(R, r.value.items, r.from + 1, r.to)
           => ElementsRead(Q, r.value.items, r.from + 1, r.to)
      /\ PairsRead(R, r.value.items, r.from + 1, r.to)
           => PairsRead(Q, r.value.items, r.from + 1, r.to)
  BY MoreElements, MorePairs
<1> QED BY <1>1 DEF IsReading, NodeRead

LEMMA OneMoreReading ==
  ASSUME NEW d, NEW R, Closed(d, R), NEW r, IsReading(d, R, r)
  PROVE  Closed(d, R \cup {r})
<1>1. ASSUME NEW q \in R \cup {r} PROVE IsReading(d, R, q)
  BY DEF Closed
<1>2. ASSUME NEW q \in R \cup {r} PROVE IsReading(d, R \cup {r}, q)
  BY <1>1, <1>2, MoreReadings
<1> QED BY <1>2 DEF Closed

LEMMA NoElements ==
  ASSUME NEW R, NEW i \in Nat
  PROVE  ElementsRead(R, <<>>, i, i) /\ PairsRead(R, <<>>, i, i)
<1> DEFINE at == [k \in 1 .. 1 |-> i]
<1>1. Len(<<>>) = 0
  OBVIOUS
<1>2. at \in [1 .. Len(<<>>) + 1 -> Nat] /\ at[1] = i /\ at[Len(<<>>) + 1] = i
  BY <1>1
<1> HIDE DEF at
<1>3. 1 .. Len(<<>>) = {}
  BY <1>1
<1> QED BY <1>2, <1>3 DEF ElementsRead, PairsRead

LEMMA ElementAdded ==
  ASSUME NEW R, NEW items, IsSequence(items), NEW i, NEW n \in Nat, NEW j \in Nat, NEW v,
         ElementsRead(R, items, i, n), Reading(v, n, j) \in R
  PROVE  ElementsRead(R, Append(items, Element(v)), i, j + 1)
<1> DEFINE m == Len(items)
           more == Append(items, Element(v))
<1>1. /\ Len(more) = m + 1 /\ m \in Nat
      /\ \A k \in 1 .. m : more[k] = items[k]
      /\ more[m + 1] = Element(v)
  BY AppendSequence
<1>2. Element(v).key = NoKey /\ Element(v).value = v
  BY DEF Element, Entry
<1> HIDE DEF m, more
<1> PICK at \in [1 .. m + 1 -> Nat] :
      /\ at[1] = i
      /\ at[m + 1] = n
      /\ \A k \in 1 .. m : /\ items[k].key = NoKey
                           /\ Reading(items[k].value, at[k], at[k + 1] - 1) \in R
  BY DEF ElementsRead, m
<1> DEFINE to == [k \in 1 .. m + 2 |-> IF k = m + 2 THEN j + 1 ELSE at[k]]
<1>3. to \in [1 .. m + 2 -> Nat]
  BY <1>1
<1>4. to[m + 2] = j + 1 /\ \A k \in 1 .. m + 1 : to[k] = at[k]
  BY <1>1
<1> HIDE DEF to
<1>5. to[1] = i /\ to[m + 1] = n
  BY <1>1, <1>4
<1>6. ASSUME NEW k \in 1 .. m + 1
      PROVE  more[k].key = NoKey /\ Reading(more[k].value, to[k], to[k + 1] - 1) \in R
  <2>1. CASE k \in 1 .. m
    <3>1. to[k] = at[k] /\ to[k + 1] = at[k + 1]
      BY <1>1, <1>4, <2>1
    <3> QED BY <1>1, <2>1, <3>1
  <2>2. CASE k = m + 1
    <3>1. k + 1 = m + 2 /\ j + 1 - 1 = j
      BY <1>1, <2>2
    <3>2. to[k] = n /\ to[k + 1] = j + 1
      BY ONLY <1>4, <1>5, <2>2, <3>1
    <3>3. to[k + 1] - 1 = j
      BY ONLY <3>1, <3>2
    <3> QED BY <1>1, <1>2, <2>2, <3>2, <3>3
  <2> QED BY <1>1, <2>1, <2>2
<1>7. Len(more) + 1 = m + 2
  BY <1>1
<1>8. ElementsRead(R, more, i, j + 1)
  BY <1>1, <1>3, <1>4, <1>5, <1>6, <1>7 DEF ElementsRead
<1> QED BY <1>8 DEF more

LEMMA PairAdded ==
  ASSUME NEW R, NEW items, IsSequence(items), NEW i, NEW n \in Nat, NEW h \in Nat, NEW j \in Nat,
         NEW key, key \notin KeysOf(items), NEW v, PairsRead(R, items, i, h),
         Reading(key, h, n - 1) \in R, Reading(v, n, j) \in R
  PROVE  PairsRead(R, Append(items, Entry(key, v)), i, j + 1)
<1> DEFINE m == Len(items)
           more == Append(items, Entry(key, v))
<1>1. /\ Len(more) = m + 1 /\ m \in Nat
      /\ \A k \in 1 .. m : more[k] = items[k]
      /\ more[m + 1] = Entry(key, v)
  BY AppendSequence
<1>2. Entry(key, v).key = key /\ Entry(key, v).value = v
  BY DEF Entry
<1>3. \A k \in 1 .. m : items[k].key # key
  BY DEF KeysOf
<1> HIDE DEF m, more
<1>4. \A k, l \in 1 .. m : items[k].key = items[l].key => k = l
  BY DEF PairsRead, m
<1> PICK at \in [1 .. m + 1 -> Nat], mid \in [1 .. m + 1 -> Nat] :
      /\ at[1] = i
      /\ at[m + 1] = h
      /\ \A k \in 1 .. m : /\ Reading(items[k].key, at[k], mid[k] - 1) \in R
                           /\ Reading(items[k].value, mid[k], at[k + 1] - 1) \in R
  BY DEF PairsRead, m
<1> DEFINE to == [k \in 1 .. m + 2 |-> IF k = m + 2 THEN j + 1 ELSE at[k]]
           half == [k \in 1 .. m + 2 |-> IF k \in 1 .. m THEN mid[k] ELSE n]
<1>5. to \in [1 .. m + 2 -> Nat] /\ half \in [1 .. m + 2 -> Nat]
  BY <1>1
<1>6. to[m + 2] = j + 1 /\ \A k \in 1 .. m + 1 : to[k] = at[k]
  BY <1>1
<1>7. half[m + 1] = n /\ \A k \in 1 .. m : half[k] = mid[k]
  BY <1>1
<1> HIDE DEF to, half
<1>8. to[1] = i /\ to[m + 1] = h
  BY <1>1, <1>6
<1>9. ASSUME NEW k \in 1 .. m + 1
      PROVE  /\ Reading(more[k].key, to[k], half[k] - 1) \in R
             /\ Reading(more[k].value, half[k], to[k + 1] - 1) \in R
  <2>1. CASE k \in 1 .. m
    <3>1. k \in 1 .. m + 1 /\ k + 1 \in 1 .. m + 1
      BY <1>1, <2>1
    <3>2. to[k] = at[k] /\ to[k + 1] = at[k + 1]
      BY ONLY <1>6, <3>1
    <3>3. half[k] = mid[k]
      BY ONLY <1>7, <2>1
    <3> QED BY <1>1, <2>1, <3>2, <3>3
  <2>2. CASE k = m + 1
    <3>1. k + 1 = m + 2 /\ j + 1 - 1 = j
      BY <1>1, <2>2
    <3>2. to[k] = h /\ half[k] = n /\ to[k + 1] = j + 1
      BY ONLY <1>6, <1>7, <1>8, <2>2, <3>1
    <3>3. to[k + 1] - 1 = j
      BY ONLY <3>1, <3>2
    <3> QED BY <1>1, <1>2, <2>2, <3>2, <3>3
  <2> QED BY <1>1, <2>1, <2>2
<1>10. ASSUME NEW k \in 1 .. m + 1, NEW l \in 1 .. m + 1, more[k].key = more[l].key
       PROVE  k = l
  <2>1. (k \in 1 .. m \/ k = m + 1) /\ (l \in 1 .. m \/ l = m + 1)
    BY <1>1
  <2> QED BY <1>1, <1>2, <1>3, <1>4, <1>10, <2>1
<1>11. Len(more) + 1 = m + 2
  BY <1>1
<1>12. PairsRead(R, more, i, j + 1)
  BY <1>1, <1>5, <1>6, <1>8, <1>9, <1>10, <1>11 DEF PairsRead
<1> QED BY <1>12 DEF more

-----------------------------------------------------------------------------
(* What the calls in progress have read.                                   *)

StartOf(kind) == IF kind = "Sequence" THEN "SequenceStart" ELSE "MappingStart"

\* The call f on the collection that begins at s has read what comes before n.
\* Where a key waits for its value it was the last.
FrameReads(d, R, f, s, n) ==
  /\ s \in 1 .. Len(d.events)
  /\ d.events[s].type = StartOf(f.kind)
  /\ d.events[s].anchor = f.anchor
  /\ Inside(d, s, n)
  /\ f.kind = "Sequence" => ElementsRead(R, f.items, s + 1, n)
  /\ f.kind = "Mapping" =>
       /\ IF f.key = NoKey THEN PairsRead(R, f.items, s + 1, n)
          ELSE \E h \in Nat : PairsRead(R, f.items, s + 1, h) /\ Reading(f.key, h, n - 1) \in R
       /\ (f.key = NoKey) <=> (Cardinality(Children(d, s, n)) % 2 = 0)
       /\ \A v \in f.seen : \E p \in s + 1 .. n - 1, q \in Nat :
            IsKey(d, s, p) /\ Reading(v, p, q) \in R

\* The k-th call began at at[k], k collections deep, and the next node of the
\* innermost one is at n.
CallsRead(d, R, calls, at, n) ==
  /\ Closed(d, R)
  /\ at \in [1 .. Len(calls) + 1 -> Nat]
  /\ at[1] = 1
  /\ at[Len(calls) + 1] = n
  /\ \A k \in 1 .. Len(calls) :
       /\ FrameReads(d, R, calls[k], at[k], at[k + 1])
       /\ Depth(d, at[k] - 1) = k - 1
       /\ Depth(d, at[k]) = k

ReadInv ==
  /\ WellNested(document)
  /\ Whole(document)
  /\ answer = "none" => \E R, at : CallsRead(document, R, stack, at, pos + 1)
  /\ ReadsItsDocument
  /\ FailsForAReason

LEMMA MoreInFrame ==
  ASSUME NEW d, NEW R, NEW Q, R \subseteq Q, NEW f, NEW s, NEW n, FrameReads(d, R, f, s, n)
  PROVE  FrameReads(d, Q, f, s, n)
<1>1. ElementsRead(R, f.items, s + 1, n) => ElementsRead(Q, f.items, s + 1, n)
  BY MoreElements
<1>2. \A h : PairsRead(R, f.items, s + 1, h) => PairsRead(Q, f.items, s + 1, h)
  BY MorePairs
<1>3. /\ s \in 1 .. Len(d.events)
      /\ d.events[s].type = StartOf(f.kind)
      /\ d.events[s].anchor = f.anchor
      /\ Inside(d, s, n)
  BY DEF FrameReads
<1>4. f.kind = "Sequence" => ElementsRead(Q, f.items, s + 1, n)
  BY <1>1 DEF FrameReads
<1>5. ASSUME f.kind = "Mapping"
      PROVE  /\ IF f.key = NoKey THEN PairsRead(Q, f.items, s + 1, n)
                ELSE \E h \in Nat : PairsRead(Q, f.items, s + 1, h) /\ Reading(f.key, h, n - 1) \in Q
             /\ (f.key = NoKey) <=> (Cardinality(Children(d, s, n)) % 2 = 0)
             /\ \A v \in f.seen : \E p \in s + 1 .. n - 1, q \in Nat :
                  IsKey(d, s, p) /\ Reading(v, p, q) \in Q
  <2>1. IF f.key = NoKey THEN PairsRead(Q, f.items, s + 1, n)
        ELSE \E h \in Nat : PairsRead(Q, f.items, s + 1, h) /\ Reading(f.key, h, n - 1) \in Q
    BY <1>2, <1>5 DEF FrameReads
  <2>2. (f.key = NoKey) <=> (Cardinality(Children(d, s, n)) % 2 = 0)
    BY <1>5 DEF FrameReads
  <2>3. \A v \in f.seen : \E p \in s + 1 .. n - 1, q \in Nat :
          IsKey(d, s, p) /\ Reading(v, p, q) \in Q
    BY <1>5 DEF FrameReads
  <2> QED BY <2>1, <2>2, <2>3
<1> QED BY <1>3, <1>4, <1>5 DEF FrameReads

\* A node that begins where a mapping expects a key is one.
LEMMA KeyHere ==
  ASSUME NEW d, NEW R, NEW f, f.kind = "Mapping", f.key = NoKey, NEW s, NEW n,
         FrameReads(d, R, f, s, n), NEW j \in Nat, n <= j, OneNode(d, n, j)
  PROVE  IsKey(d, s, n)
<1>1. /\ d.events[s].type = "MappingStart"
      /\ Inside(d, s, n)
      /\ Cardinality(Children(d, s, n)) % 2 = 0
  BY DEF FrameReads, StartOf
<1>2. n \in Children(d, s, n + 1)
  BY <1>1, ChildAdded
<1> QED BY <1>1, <1>2 DEF IsKey

\* A node in a frame, its reading included.
LEMMA NodeInFrame ==
  ASSUME NEW d, NEW R, NEW f, FrameOK(f), NEW s, NEW n, FrameReads(d, R, f, s, n),
         NEW j \in Nat, n <= j, OneNode(d, n, j), NEW v, v # NoKey, ~IsDuplicate(f, v),
         Reading(v, n, j) \in R
  PROVE  FrameReads(d, R, With(f, v), s, j + 1)
<1>1. /\ s \in 1 .. Len(d.events)
      /\ d.events[s].type = StartOf(f.kind)
      /\ d.events[s].anchor = f.anchor
      /\ Inside(d, s, n)
  BY DEF FrameReads
<1>2. s \in Nat /\ n \in Nat /\ s < n
  BY <1>1 DEF Inside
<1>3. /\ Inside(d, s, j + 1)
      /\ Cardinality(Children(d, s, j + 1)) = Cardinality(Children(d, s, n)) + 1
  BY <1>1, ChildAdded
<1>4. Cardinality(Children(d, s, n)) \in Nat
  BY <1>2, ChildrenFinite
<1>5. (Cardinality(Children(d, s, j + 1)) % 2 = 0) <=> ~(Cardinality(Children(d, s, n)) % 2 = 0)
  BY <1>3, <1>4
<1>6. /\ DOMAIN f = {"kind", "anchor", "items", "key", "seen"}
      /\ f.kind \in {"Sequence", "Mapping"}
      /\ IsSequence(f.items)
  BY DEF FrameOK, IsFrame
<1> PICK w : w = With(f, v)
  OBVIOUS
<1>7. CASE f.kind = "Sequence"
  <2>1. w = [f EXCEPT !.items = Append(f.items, Element(v))]
    BY <1>7 DEF With
  <2>2. w.kind = f.kind /\ w.anchor = f.anchor /\ w.items = Append(f.items, Element(v))
    BY <1>6, <2>1
  <2>3. ElementsRead(R, f.items, s + 1, n)
    BY <1>7 DEF FrameReads
  <2>4. ElementsRead(R, w.items, s + 1, j + 1)
    BY <1>2, <1>6, <2>2, <2>3, ElementAdded
  <2>5. FrameReads(d, R, w, s, j + 1)
    BY <1>1, <1>3, <1>7, <2>2, <2>4 DEF FrameReads
  <2> QED BY <2>5
<1>8. CASE f.kind = "Mapping" /\ f.key = NoKey
  <2>1. w = [f EXCEPT !.key = v, !.seen = f.seen \cup {v}]
    BY <1>8 DEF With
  <2>2. /\ w.kind = f.kind /\ w.anchor = f.anchor /\ w.items = f.items
        /\ w.key = v /\ w.seen = f.seen \cup {v}
    BY <1>6, <2>1
  <2>3. /\ PairsRead(R, f.items, s + 1, n)
        /\ Cardinality(Children(d, s, n)) % 2 = 0
        /\ \A u \in f.seen : \E p \in s + 1 .. n - 1, q \in Nat :
             IsKey(d, s, p) /\ Reading(u, p, q) \in R
    BY <1>8 DEF FrameReads
  <2>4. IsKey(d, s, n)
    BY <1>8, KeyHere
  <2>5. j + 1 - 1 = j /\ n \in s + 1 .. j
    BY <1>2
  <2>6. \E h \in Nat : PairsRead(R, w.items, s + 1, h) /\ Reading(w.key, h, j + 1 - 1) \in R
    BY <1>2, <2>2, <2>3, <2>5
  <2>7. ASSUME NEW u \in w.seen
        PROVE  \E p \in s + 1 .. j + 1 - 1, q \in Nat : IsKey(d, s, p) /\ Reading(u, p, q) \in R
    <3>1. CASE u \in f.seen
      <4>1. PICK p \in s + 1 .. n - 1, q \in Nat : IsKey(d, s, p) /\ Reading(u, p, q) \in R
        BY <2>3, <3>1
      <4>2. p \in s + 1 .. j + 1 - 1
        BY <1>2
      <4> QED BY <4>1, <4>2
    <3>2. CASE u = v
      <4>1. n \in s + 1 .. j + 1 - 1
        BY <2>5
      <4> QED BY <2>4, <3>2, <4>1
    <3> QED BY <2>2, <3>1, <3>2
  <2>8. FrameReads(d, R, w, s, j + 1)
    <3>1. /\ d.events[s].type = StartOf(w.kind)
          /\ d.events[s].anchor = w.anchor
      BY <1>1, <2>2
    <3>2. (w.key = NoKey) <=> (Cardinality(Children(d, s, j + 1)) % 2 = 0)
      BY <1>5, <2>2, <2>3
    <3>3. ~(w.kind = "Sequence") /\ w.key # NoKey
      BY <1>8, <2>2
    <3> QED BY ONLY <1>1, <1>3, <2>6, <2>7, <3>1, <3>2, <3>3 DEF FrameReads
  <2> QED BY <2>8
<1>9. CASE f.kind = "Mapping" /\ f.key # NoKey
  <2>1. /\ f.key \notin KeysOf(f.items)
        /\ f.seen = Keys(f)
    BY <1>9 DEF FrameOK
  <2>2. w = [f EXCEPT !.items = Append(f.items, Entry(f.key, v)), !.key = NoKey]
    BY <1>9, <2>1 DEF With, Insert
  <2>3. /\ w.kind = f.kind /\ w.anchor = f.anchor /\ w.seen = f.seen
        /\ w.items = Append(f.items, Entry(f.key, v)) /\ w.key = NoKey
    BY <1>6, <2>2
  <2>4. /\ \E h \in Nat : PairsRead(R, f.items, s + 1, h) /\ Reading(f.key, h, n - 1) \in R
        /\ ~(Cardinality(Children(d, s, n)) % 2 = 0)
        /\ \A u \in f.seen : \E p \in s + 1 .. n - 1, q \in Nat :
             IsKey(d, s, p) /\ Reading(u, p, q) \in R
    BY <1>9 DEF FrameReads
  <2>5. PICK h \in Nat : PairsRead(R, f.items, s + 1, h) /\ Reading(f.key, h, n - 1) \in R
    BY <2>4
  <2>6. PairsRead(R, w.items, s + 1, j + 1)
    BY <1>2, <1>6, <2>1, <2>3, <2>5, PairAdded
  <2>7. ASSUME NEW u \in w.seen
        PROVE  \E p \in s + 1 .. j + 1 - 1, q \in Nat : IsKey(d, s, p) /\ Reading(u, p, q) \in R
    <3>1. PICK p \in s + 1 .. n - 1, q \in Nat : IsKey(d, s, p) /\ Reading(u, p, q) \in R
      BY <2>3, <2>4
    <3>2. p \in s + 1 .. j + 1 - 1
      BY <1>2
    <3> QED BY <3>1, <3>2
  <2>8. FrameReads(d, R, w, s, j + 1)
    <3>1. /\ d.events[s].type = StartOf(w.kind)
          /\ d.events[s].anchor = w.anchor
      BY <1>1, <2>3
    <3>2. (w.key = NoKey) <=> (Cardinality(Children(d, s, j + 1)) % 2 = 0)
      BY <1>5, <2>3, <2>4
    <3>3. ~(w.kind = "Sequence") /\ w.key = NoKey
      BY <1>9, <2>3
    <3> QED BY ONLY <1>1, <1>3, <2>6, <2>7, <3>1, <3>2, <3>3 DEF FrameReads
  <2> QED BY <2>8
<1> QED BY <1>6, <1>7, <1>8, <1>9

-----------------------------------------------------------------------------
(* The document, step by step.                                             *)

\* What is known where parse_value goes on.
LEMMA AtHand ==
  ASSUME Inv, ReadInv, Running
  PROVE  /\ IsDocument(document) /\ WellNested(document) /\ Whole(document)
         /\ Len(document.events) \in Nat /\ pos \in Nat
         /\ pos + 1 \in 1 .. Len(document.events)
         /\ Event = document.events[pos + 1] /\ Event \in Events
         /\ answer = "none" /\ StackOK(stack)
         /\ \E R, at : CallsRead(document, R, stack, at, pos + 1)
<1>1. IsDocument(document) /\ pos \in 0 .. Len(document.events) /\ StackOK(stack)
  BY DEF Inv, ParseTypeOK
<1>2. Len(document.events) \in Nat /\ pos \in Nat
  BY <1>1 DEF IsDocument
<1>3. Event \in Events /\ pos + 1 \in 1 .. Len(document.events)
  BY EventAtHand
<1> QED BY <1>1, <1>2, <1>3 DEF ReadInv, Running, Event

\* The depth where a node begins is the number of calls.
LEMMA DepthOfCalls ==
  ASSUME NEW d, NEW R, NEW calls, NEW at, NEW n, CallsRead(d, R, calls, at, n),
         Len(calls) \in Nat
  PROVE  n \in Nat \ {0} /\ Depth(d, n - 1) = Len(calls)
<1>1. /\ at \in [1 .. Len(calls) + 1 -> Nat]
      /\ at[1] = 1
      /\ at[Len(calls) + 1] = n
      /\ \A k \in 1 .. Len(calls) : /\ FrameReads(d, R, calls[k], at[k], at[k + 1])
                                    /\ Depth(d, at[k]) = k
  BY DEF CallsRead
<1>2. CASE Len(calls) = 0
  <2>1. n = 1
    BY <1>1, <1>2
  <2> QED BY <1>2, <2>1, DepthStart
<1>3. CASE Len(calls) # 0
  <2>1. Len(calls) \in 1 .. Len(calls)
    BY <1>3
  <2>2. Inside(d, at[Len(calls)], n) /\ Depth(d, at[Len(calls)]) = Len(calls)
    BY <1>1, <2>1 DEF FrameReads
  <2> QED BY <2>2 DEF Inside
<1> QED BY <1>2, <1>3

\* One scalar, alias or Void is a node.
LEMMA LeafIsNode ==
  ASSUME NEW d, NEW k \in Nat, d.events[k + 1].type \in {"Scalar", "Alias", "Void"}
  PROVE  OneNode(d, k + 1, k + 1)
<1>1. ~IsStart(d.events[k + 1]) /\ ~IsEnd(d.events[k + 1])
  BY DEF IsStart, IsEnd
<1>2. Depth(d, k + 1) = Depth(d, k)
  BY <1>1, DepthStep, DepthType DEF Delta
<1>3. k + 1 - 1 = k /\ k + 1 .. k + 1 - 1 = {}
  BY SMT
<1> QED BY <1>1, <1>2, <1>3 DEF OneNode

\* Two keys of a mapping that are the same value: if one is a scalar, so is the
\* other.
LEMMA SameValueSameScalar ==
  ASSUME NEW d, IsDocument(d), WellNested(d), NEW R, Closed(d, R), NEW v, NEW i, NEW j, NEW p,
         NEW q, Reading(v, i, j) \in R, Reading(v, p, q) \in R, Len(d.events) # 1,
         d.events[i].type = "Scalar"
  PROVE  SameScalar(d, i, p)
<1>1. NodeRead(d, R, v, i, j) /\ NodeRead(d, R, v, p, q)
  BY ReadingClosed
<1>2. i \in 1 .. Len(d.events) /\ p \in 1 .. Len(d.events)
  BY <1>1 DEF NodeRead
<1>3. v = ScalarValue(d.events[i])
  BY <1>1 DEF NodeRead
<1>4. /\ v.kind = IF d.events[i].text \in NonStrings /\ ~d.events[i].quoted THEN "NonString"
                  ELSE "String"
      /\ v.text = d.events[i].text
  BY <1>3 DEF ScalarValue, Node
<1>5. d.events[p].type # "Void"
  BY <1>2 DEF WellNested
<1>6. v.kind \notin {"Alias", "Sequence", "Mapping"}
  BY <1>4
<1>7. \A name : Alias(name).kind = "Alias"
  BY DEF Alias, Node
<1>8. \A kind, anchor, items : Node(kind, "", anchor, items).kind = kind
  BY DEF Node
<1>9. d.events[p].type = "Scalar" /\ v = ScalarValue(d.events[p])
  <2>1. \/ d.events[p].type = "Scalar" /\ v = ScalarValue(d.events[p])
        \/ v = Alias(d.events[d.aliases[d.events[p].id + 1] + 1].anchor)
        \/ v = Node("Sequence", "", d.events[p].anchor, v.items)
        \/ v = Node("Mapping", "", d.events[p].anchor, v.items)
    BY <1>1, <1>5 DEF NodeRead
  <2>2. v # Alias(d.events[d.aliases[d.events[p].id + 1] + 1].anchor)
    BY <1>6, <1>7
  <2>3. v # Node("Sequence", "", d.events[p].anchor, v.items)
    <3>1. Node("Sequence", "", d.events[p].anchor, v.items).kind = "Sequence"
      BY ONLY <1>8
    <3>2. v.kind # "Sequence"
      BY ONLY <1>6
    <3> QED BY ONLY <3>1, <3>2
  <2>4. v # Node("Mapping", "", d.events[p].anchor, v.items)
    <3>1. Node("Mapping", "", d.events[p].anchor, v.items).kind = "Mapping"
      BY ONLY <1>8
    <3>2. v.kind # "Mapping"
      BY ONLY <1>6
    <3> QED BY ONLY <3>1, <3>2
  <2> QED BY ONLY <2>1, <2>2, <2>3, <2>4
<1>10. /\ v.kind = IF d.events[p].text \in NonStrings /\ ~d.events[p].quoted THEN "NonString"
                   ELSE "String"
       /\ v.text = d.events[p].text
  BY <1>9 DEF ScalarValue, Node
<1>11. d.events[i] \in Events /\ d.events[p] \in Events
  BY <1>2 DEF IsDocument
<1>12. d.events[i].quoted \in BOOLEAN /\ d.events[p].quoted \in BOOLEAN
  BY <1>11 DEF Events
<1>13. d.events[i].text = d.events[p].text
  BY <1>4, <1>10
<1>14. d.events[i].text \in NonStrings => d.events[i].quoted = d.events[p].quoted
  BY <1>4, <1>10, <1>12, <1>13
<1> QED BY <1>9, <1>13, <1>14 DEF SameScalar, Target

\* A duplicate has been read before as a key of the same mapping.
LEMMA DuplicateFound ==
  ASSUME NEW d, IsDocument(d), WellNested(d), NEW R, Closed(d, R), NEW f, FrameOK(f),
         NEW s, NEW n, FrameReads(d, R, f, s, n), NEW j \in Nat, n <= j, OneNode(d, n, j),
         NEW v, IsDuplicate(f, v), Reading(v, n, j) \in R
  PROVE  \E t \in 1 .. j : \E p, q \in t + 1 .. j :
           /\ p < q
           /\ IsKey(d, t, p)
           /\ IsKey(d, t, q)
           /\ d.events[p].type = "Scalar" => SameScalar(d, p, q)
<1>1. f.kind = "Mapping" /\ f.key = NoKey /\ v \in f.seen
  BY DEF IsDuplicate, AwaitsKey
<1>2. PICK p \in s + 1 .. n - 1, q \in Nat : IsKey(d, s, p) /\ Reading(v, p, q) \in R
  BY <1>1 DEF FrameReads
<1>3. IsKey(d, s, n)
  BY <1>1, KeyHere
<1>4. s \in Nat \ {0} /\ n \in Nat /\ s < n
  BY DEF FrameReads, Inside
<1>5. s \in 1 .. j /\ p \in s + 1 .. j /\ n \in s + 1 .. j /\ p < n
  BY <1>4
<1>6. Len(d.events) # 1
  <2>1. n \in 1 .. Len(d.events)
    BY ReadingClosed DEF NodeRead
  <2>2. ASSUME Len(d.events) = 1 PROVE FALSE
    BY ONLY <1>4, <2>1, <2>2
  <2> QED BY <2>2
<1>7. d.events[p].type = "Scalar" => SameScalar(d, p, n)
  BY <1>2, <1>6, SameValueSameScalar
<1> QED BY <1>2, <1>3, <1>5, <1>7

\* A node is returned to whoever asked for it.
LEMMA ReturnReads ==
  ASSUME Inv, ReadInv, Running, NEW calls, StackOK(calls), NEW R, NEW at, NEW n,
         CallsRead(document, R, calls, at, n), NEW v, v # NoKey, n <= pos + 1,
         NodeRead(document, R, v, n, pos + 1), Return(calls, v), pos' = pos + 1
  PROVE  ReadInv'
<1> PICK d : d = document
  OBVIOUS
<1> PICK j : j = pos + 1
  OBVIOUS
<1> PICK r : r = Reading(v, n, j)
  OBVIOUS
<1> PICK Q : Q = R \cup {r}
  OBVIOUS
<1>1. /\ IsDocument(d) /\ WellNested(d) /\ Whole(d)
      /\ Len(d.events) \in Nat /\ pos \in Nat /\ j \in Nat
      /\ j \in 1 .. Len(d.events)
  BY AtHand
<1>2. Len(calls) \in Nat
  BY DEF StackOK, IsSequence
<1>3. CallsRead(d, R, calls, at, n)
  OBVIOUS
<1>4. n \in Nat \ {0} /\ Depth(d, n - 1) = Len(calls)
  BY <1>2, <1>3, DepthOfCalls
<1>5. Closed(d, R) /\ IsReading(d, R, r)
  BY <1>3, ReadingIs DEF CallsRead
<1>6. Closed(d, Q) /\ R \subseteq Q /\ r \in Q
  BY <1>5, OneMoreReading
<1>7. OneNode(d, n, j)
  BY DEF NodeRead
<1>8. CASE calls = <<>>
  <2>1. n = 1
    <3>1. Len(calls) = 0
      BY <1>8
    <3> QED BY <1>3, <3>1 DEF CallsRead
  <2>2. /\ answer' = IF d.error THEN "DocumentError" ELSE "Ok"
        /\ value' = IF d.error THEN NoKey ELSE v
        /\ document' = d
    BY <1>8 DEF Return
  <2>3. CASE d.error
    BY <1>1, <2>2, <2>3 DEF ReadInv, ReadsItsDocument, FailsForAReason
  <2>4. CASE ~d.error
    <3>1. OneNode(d, 1, Len(d.events))
      BY <1>1, <2>4 DEF Whole
    <3>2. j = Len(d.events)
      <4>1. ASSUME j # Len(d.events) PROVE FALSE
        <5>1. j \in 1 .. Len(d.events) - 1
          BY <1>1, <4>1
        <5>2. Depth(d, j) > Depth(d, 1 - 1)
          BY <3>1, <5>1 DEF OneNode
        <5>3. Depth(d, j) = Depth(d, 1 - 1)
          BY <1>7, <2>1 DEF OneNode
        <5>4. Depth(d, j) \in Int
          BY <1>1, DepthType
        <5> QED BY ONLY <5>2, <5>3, <5>4
      <4> QED BY <4>1
    <3>3. Reading(v, 1, Len(d.events)) \in Q
      BY <1>6, <2>1, <3>2
    <3>4. IsValueOf(v, d)
      BY <1>6, <3>3 DEF IsValueOf, Closed
    <3>5. answer' = "Ok" /\ value' = v
      BY <2>2, <2>4
    <3>6. ReadsItsDocument'
      BY <2>2, <3>4, <3>5 DEF ReadsItsDocument
    <3>7. FailsForAReason'
      BY <3>5 DEF FailsForAReason
    <3> QED BY <1>1, <2>2, <3>5, <3>6, <3>7 DEF ReadInv
  <2> QED BY <2>3, <2>4
<1>9. CASE calls # <<>>
  <2>1. Len(calls) \in 1 .. Len(calls) /\ FrameOK(calls[Len(calls)])
    BY <1>9, NonEmptyCalls
  <2> PICK k : k = Len(calls)
    OBVIOUS
  <2> PICK f : f = calls[k]
    OBVIOUS
  <2>2. /\ at \in [1 .. k + 1 -> Nat]
        /\ at[1] = 1
        /\ at[k + 1] = n
        /\ \A i \in 1 .. k : /\ FrameReads(d, R, calls[i], at[i], at[i + 1])
                             /\ Depth(d, at[i] - 1) = i - 1
                             /\ Depth(d, at[i]) = i
    BY <1>3 DEF CallsRead
  <2>3. k \in Nat /\ k \in 1 .. k /\ FrameOK(f)
    BY <1>2, <2>1
  <2>4. FrameReads(d, R, f, at[k], n)
    BY <2>2, <2>3
  <2>5. FrameReads(d, Q, f, at[k], n)
    BY <1>6, <2>4, MoreInFrame
  <2>6. n <= j
    OBVIOUS
  <2>7. CASE IsDuplicate(f, v)
    <3>1. answer' = "DuplicateKey" /\ document' = d
      BY <1>9, <2>7 DEF Return, Error
    <3>2. \E t \in 1 .. j : \E p, q \in t + 1 .. j :
            /\ p < q
            /\ IsKey(d, t, p)
            /\ IsKey(d, t, q)
            /\ d.events[p].type = "Scalar" => SameScalar(d, p, q)
      <4>1. Reading(v, n, j) \in Q
        BY <1>6
      <4>2. j \in Nat /\ IsDocument(d) /\ WellNested(d) /\ Closed(d, Q)
        BY <1>1, <1>6
      <4> QED BY ONLY <1>7, <2>3, <2>5, <2>6, <2>7, <4>1, <4>2, DuplicateFound
    <3>3. FailsForAReason'
      BY <3>1, <3>2 DEF FailsForAReason
    <3>4. ReadsItsDocument'
      BY <3>1 DEF ReadsItsDocument
    <3> QED BY <1>1, <3>1, <3>3, <3>4 DEF ReadInv
  <2>8. CASE ~IsDuplicate(f, v)
    <3> PICK w : w = With(f, v)
      OBVIOUS
    <3>1. stack' = OnTop(calls, w) /\ document' = d /\ answer' = answer /\ value' = value
      BY <1>9, <2>8 DEF Return
    <3>2. FrameReads(d, Q, w, at[k], j + 1)
      <4>1. Reading(v, n, j) \in Q /\ j \in Nat
        BY <1>1, <1>6
      <4>2. FrameReads(d, Q, With(f, v), at[k], j + 1)
        BY ONLY <1>7, <2>3, <2>5, <2>6, <2>8, <4>1, v # NoKey, NodeInFrame
      <4> QED BY <4>2
    <3>3. /\ Len(stack') = k
          /\ stack'[k] = w
          /\ \A i \in 1 .. k - 1 : stack'[i] = calls[i]
      <4>1. calls \in Seq({ calls[i] : i \in DOMAIN calls })
        BY DEF StackOK, IsSequence
      <4> QED BY <2>3, <3>1, <4>1 DEF OnTop
    <3> PICK to : to = [at EXCEPT ![k + 1] = j + 1]
      OBVIOUS
    <3>4. /\ to \in [1 .. k + 1 -> Nat]
          /\ to[k + 1] = j + 1
          /\ \A i \in 1 .. k : to[i] = at[i]
      BY <1>1, <2>2, <2>3
    <3>5. ASSUME NEW i \in 1 .. k
          PROVE  /\ FrameReads(d, Q, stack'[i], to[i], to[i + 1])
                 /\ Depth(d, to[i] - 1) = i - 1
                 /\ Depth(d, to[i]) = i
      <4>1. Depth(d, to[i] - 1) = i - 1 /\ Depth(d, to[i]) = i
        BY <2>2, <3>4
      <4>2. CASE i = k
        BY <2>3, <3>2, <3>3, <3>4, <4>1, <4>2
      <4>3. CASE i # k
        <5>1. i \in 1 .. k - 1 /\ i + 1 \in 1 .. k
          BY <2>3, <4>3
        <5>2. to[i] = at[i] /\ to[i + 1] = at[i + 1] /\ stack'[i] = calls[i]
          BY ONLY <3>3, <3>4, <5>1, i \in 1 .. k
        <5>3. FrameReads(d, R, calls[i], at[i], at[i + 1])
          BY <2>2
        <5> QED BY <1>6, <4>1, <5>2, <5>3, MoreInFrame
      <4> QED BY <4>2, <4>3
    <3>6. to[1] = 1 /\ 1 \in 1 .. k
      BY <2>2, <2>3, <3>4
    <3>7. CallsRead(d, Q, stack', to, j + 1)
      BY <1>6, <3>3, <3>4, <3>5, <3>6 DEF CallsRead
    <3>8. (\E S, to1 : CallsRead(document, S, stack, to1, pos + 1))'
      BY <3>1, <3>7
    <3>9. answer' = "none"
      BY <3>1 DEF Running
    <3>10. ReadsItsDocument' /\ FailsForAReason'
      BY <3>9 DEF ReadsItsDocument, FailsForAReason
    <3> QED BY <1>1, <3>1, <3>8, <3>10 DEF ReadInv
  <2> QED BY <2>7, <2>8
<1> QED BY <1>8, <1>9

\* A scalar, an alias or a Void is returned to the innermost call.
LEMMA LeafReads ==
  ASSUME Inv, ReadInv, Running, Event.type \in {"Scalar", "Alias", "Void"}, NEW v, v # NoKey,
         \/ Event.type = "Alias" /\ v = Named(document, Event)
         \/ Event.type = "Scalar" /\ v = ScalarValue(Event)
         \/ Event.type = "Void" /\ v = Null,
         Return(stack, v), pos' = pos + 1
  PROVE  ReadInv'
<1>1. /\ Len(document.events) \in Nat /\ pos \in Nat
      /\ pos + 1 \in 1 .. Len(document.events)
      /\ Event = document.events[pos + 1]
      /\ StackOK(stack)
  BY AtHand
<1>2. PICK R, at : CallsRead(document, R, stack, at, pos + 1)
  BY AtHand
<1>3. OneNode(document, pos + 1, pos + 1)
  BY <1>1, LeafIsNode
<1>4. pos + 1 \in pos + 1 .. Len(document.events) /\ pos + 1 <= pos + 1
  BY <1>1
<1>5. NodeRead(document, R, v, pos + 1, pos + 1)
  BY <1>1, <1>3, <1>4 DEF NodeRead, Named
<1> QED BY <1>1, <1>2, <1>4, <1>5, ReturnReads

LEMMA AliasReads == ASSUME Inv, ReadInv, ParseAlias PROVE ReadInv'
BY AliasReturns, LeafReads

LEMMA ScalarReads == ASSUME Inv, ReadInv, ParseScalar PROVE ReadInv'
<1>1. ScalarValue(Event) # NoKey
  BY NodeIsNoMark DEF ScalarValue
<1> QED BY <1>1, LeafReads DEF ParseScalar

LEMMA VoidReads == ASSUME Inv, ReadInv, ParseVoid PROVE ReadInv'
<1>1. Null # NoKey
  BY NodeIsNoMark DEF Null
<1> QED BY <1>1, LeafReads DEF ParseVoid

\* A collection begins; none of its nodes have been read.
LEMMA FrameBegins ==
  ASSUME NEW d, NEW R, NEW s, s \in 1 .. Len(d.events), NEW kind \in {"Sequence", "Mapping"},
         d.events[s].type = StartOf(kind)
  PROVE  FrameReads(d, R, Frame(kind, d.events[s].anchor), s, s + 1)
<1> PICK f : f = Frame(kind, d.events[s].anchor)
  OBVIOUS
<1>1. /\ f.kind = kind /\ f.anchor = d.events[s].anchor /\ f.items = <<>> /\ f.key = NoKey
      /\ f.seen = {}
  BY DEF Frame
<1>2. s \in Nat \ {0} /\ s + 1 \in Nat /\ s < s + 1 /\ s + 1 - 1 = s
  OBVIOUS
<1>3. Inside(d, s, s + 1)
  <2>1. \A r \in s .. s + 1 - 1 : r = s
    BY <1>2
  <2>2. Depth(d, s) \in Int
    BY <1>2, DepthType
  <2>3. \A r \in s .. s + 1 - 1 : Depth(d, r) >= Depth(d, s)
    BY <2>1, <2>2
  <2> QED BY <1>2, <2>3 DEF Inside
<1>4. ElementsRead(R, f.items, s + 1, s + 1) /\ PairsRead(R, f.items, s + 1, s + 1)
  BY <1>1, <1>2, NoElements
<1>5. Cardinality(Children(d, s, s + 1)) % 2 = 0
  <2>1. Children(d, s, s + 1) = {}
    BY <1>2, ChildrenFinite
  <2>2. Cardinality(Children(d, s, s + 1)) = 0
    BY <2>1, FS_EmptySet
  <2> QED BY <2>2
<1>6. FrameReads(d, R, f, s, s + 1)
  BY <1>1, <1>3, <1>4, <1>5 DEF FrameReads
<1> QED BY <1>6

LEMMA OpenReads == ASSUME Inv, ReadInv, OpenCollection PROVE ReadInv'
<1>1. /\ Running
      /\ Event.type \in {"SequenceStart", "MappingStart"}
      /\ stack' = Append(stack, Frame(CollectionKind(Event.type), Event.anchor))
      /\ pos' = pos + 1 /\ document' = document /\ answer' = answer /\ value' = value
  BY DEF OpenCollection
<1> PICK d : d = document
  OBVIOUS
<1> PICK s : s = pos + 1
  OBVIOUS
<1> PICK k : k = Len(stack)
  OBVIOUS
<1>2. /\ WellNested(d) /\ Whole(d)
      /\ pos \in Nat /\ s \in 1 .. Len(d.events)
      /\ Event = d.events[s] /\ StackOK(stack) /\ answer = "none"
  BY <1>1, AtHand
<1>3. PICK R, at : CallsRead(d, R, stack, at, s)
  BY <1>1, AtHand
<1>4. k \in Nat
  BY <1>2 DEF StackOK, IsSequence
<1>5. Depth(d, pos) = k
  <2>1. Depth(d, s - 1) = k
    BY <1>3, <1>4, DepthOfCalls
  <2>2. s - 1 = pos
    BY <1>2
  <2> QED BY <2>1, <2>2
<1>6. Depth(d, s) = k + 1
  <2>1. Delta(d.events[s]) = 1
    BY <1>1, <1>2 DEF Delta, IsStart
  <2> QED BY <1>2, <1>5, <2>1, DepthStep
<1> PICK f : f = Frame(CollectionKind(Event.type), Event.anchor)
  OBVIOUS
<1>7. FrameReads(d, R, f, s, s + 1)
  <2>1. /\ CollectionKind(Event.type) \in {"Sequence", "Mapping"}
        /\ d.events[s].type = StartOf(CollectionKind(Event.type))
    BY <1>1, <1>2 DEF CollectionKind, StartOf
  <2> QED BY <1>2, <2>1, FrameBegins
<1>8. /\ Len(stack') = k + 1
      /\ \A i \in 1 .. k : stack'[i] = stack[i]
      /\ stack'[k + 1] = f
  BY <1>1, <1>2, AppendSequence DEF StackOK
<1>9. /\ Closed(d, R)
      /\ at \in [1 .. k + 1 -> Nat]
      /\ at[1] = 1
      /\ at[k + 1] = s
      /\ \A i \in 1 .. k : /\ FrameReads(d, R, stack[i], at[i], at[i + 1])
                           /\ Depth(d, at[i] - 1) = i - 1
                           /\ Depth(d, at[i]) = i
  BY <1>3 DEF CallsRead
<1> PICK to : to = [i \in 1 .. k + 2 |-> IF i = k + 2 THEN s + 1 ELSE at[i]]
  OBVIOUS
<1>10. /\ to \in [1 .. k + 2 -> Nat]
       /\ to[k + 2] = s + 1
       /\ \A i \in 1 .. k + 1 : to[i] = at[i]
  BY <1>2, <1>4, <1>9
<1>11. ASSUME NEW i \in 1 .. k + 1
       PROVE  /\ FrameReads(d, R, stack'[i], to[i], to[i + 1])
              /\ Depth(d, to[i] - 1) = i - 1
              /\ Depth(d, to[i]) = i
  <2>1. CASE i \in 1 .. k
    <3>1. i \in 1 .. k + 1 /\ i + 1 \in 1 .. k + 1
      BY <1>4, <2>1
    <3>2. to[i] = at[i] /\ to[i + 1] = at[i + 1] /\ stack'[i] = stack[i]
      BY ONLY <1>8, <1>10, <2>1, <3>1
    <3> QED BY ONLY <1>9, <2>1, <3>2
  <2>2. CASE i = k + 1
    <3>1. k + 1 + 1 = k + 2 /\ k + 1 - 1 = k /\ k + 1 \in 1 .. k + 1 /\ s - 1 = pos
      BY <1>2, <1>4
    <3>2. to[k + 1] = s
      BY <1>9, <1>10, <3>1
    <3>3. stack'[k + 1] = f /\ to[k + 1 + 1] = s + 1
      BY ONLY <1>8, <1>10, <3>1
    <3>4. FrameReads(d, R, stack'[k + 1], to[k + 1], to[k + 1 + 1])
      BY ONLY <1>7, <3>2, <3>3
    <3>5. FrameReads(d, R, stack'[i], to[i], to[i + 1])
      BY ONLY <2>2, <3>4
    <3>6. to[i] = s /\ s - 1 = pos
      BY ONLY <2>2, <3>1, <3>2
    <3>7. i - 1 = k
      BY ONLY <1>4, <2>2
    <3>8. Depth(d, to[i] - 1) = i - 1
      BY ONLY <1>5, <3>6, <3>7
    <3>9. Depth(d, to[i]) = i
      BY ONLY <1>6, <2>2, <3>6
    <3> QED BY ONLY <3>5, <3>8, <3>9
  <2> QED BY <1>4, <2>1, <2>2
<1>12. Len(stack') + 1 = k + 2 /\ to[1] = 1
  BY <1>4, <1>8, <1>9, <1>10
<1>13. CallsRead(d, R, stack', to, s + 1)
  BY <1>8, <1>9, <1>10, <1>11, <1>12 DEF CallsRead
<1>14. (\E S, to1 : CallsRead(document, S, stack, to1, pos + 1))'
  BY <1>1, <1>13
<1>15. ReadsItsDocument' /\ FailsForAReason'
  BY <1>1, <1>2 DEF ReadsItsDocument, FailsForAReason
<1> QED BY <1>1, <1>2, <1>14, <1>15 DEF ReadInv

\* An end is that of the innermost call's collection, which it completes.
LEMMA EndIsAwaited ==
  ASSUME Inv, ReadInv, Running, Event.type \in Ends, NEW R, NEW at,
         CallsRead(document, R, stack, at, pos + 1)
  PROVE  /\ stack # <<>>
         /\ Closes(Top)
         /\ OneNode(document, at[Len(stack)], pos + 1)
<1> PICK d : d = document
  OBVIOUS
<1> PICK j : j = pos + 1
  OBVIOUS
<1> PICK k : k = Len(stack)
  OBVIOUS
<1>1. /\ WellNested(d) /\ IsDocument(d)
      /\ pos \in Nat /\ j \in 1 .. Len(d.events) /\ j - 1 = pos
      /\ Event = d.events[j] /\ StackOK(stack)
  BY AtHand
<1>2. k \in Nat
  BY <1>1 DEF StackOK, IsSequence
<1>3. Depth(d, pos) = k
  <2>1. CallsRead(d, R, stack, at, j) /\ Len(stack) \in Nat
    BY <1>2
  <2>2. Depth(d, j - 1) = Len(stack)
    BY ONLY <2>1, DepthOfCalls
  <2> QED BY <1>1, <2>2
<1>4. Depth(d, j) = k - 1
  <2>1. Delta(d.events[j]) = -1
    BY <1>1 DEF Delta, IsStart, IsEnd, Ends
  <2> QED BY <1>1, <1>2, <1>3, <2>1, DepthStep
<1>5. k # 0
  <2>1. Depth(d, j) >= 0
    BY <1>1 DEF WellNested
  <2> QED BY <1>2, <1>4, <2>1
<1>6. k \in 1 .. k /\ stack # <<>>
  BY <1>2, <1>5
<1> PICK f : f = Top
  OBVIOUS
<1> PICK s : s = at[k]
  OBVIOUS
<1>7. FrameReads(d, R, f, s, j) /\ Depth(d, s - 1) = k - 1 /\ Depth(d, s) = k
  <2>1. at[k + 1] = j
    BY DEF CallsRead
  <2> QED BY <1>6, <2>1 DEF CallsRead, Top
<1>8. FrameOK(f)
  BY <1>1, <1>6, NonEmptyCalls DEF Top
<1>9. /\ s \in 1 .. Len(d.events)
      /\ d.events[s].type = StartOf(f.kind)
      /\ s \in Nat \ {0} /\ s < j
      /\ \A r \in s .. j - 1 : Depth(d, r) >= k
  BY <1>7 DEF FrameReads, Inside
<1>10. f.kind \in {"Sequence", "Mapping"}
  BY <1>8 DEF FrameOK, IsFrame
<1>11. IsStart(d.events[s]) /\ ~IsEnd(d.events[s])
  BY <1>9 DEF StartOf, IsStart, IsEnd
<1>12. OneNode(d, s, j)
  <2>1. \A r \in s .. j - 1 : Depth(d, r) > Depth(d, s - 1)
    <3>1. ASSUME NEW r \in s .. j - 1 PROVE Depth(d, r) > k - 1
      <4>1. r \in Nat
        BY <1>9
      <4>2. Depth(d, r) \in Int /\ Depth(d, r) >= k
        BY <1>9, <4>1, DepthType
      <4> QED BY ONLY <1>2, <4>2
    <3> QED BY <1>7, <3>1
  <2> QED BY <1>4, <1>7, <1>11, <2>1 DEF OneNode
<1>13. IF d.events[s].type = "SequenceStart" THEN d.events[j].type = "SequenceEnd"
       ELSE /\ d.events[j].type = "MappingEnd"
            /\ Cardinality(Children(d, s, j)) % 2 = 0
  BY <1>1, <1>9, <1>11, <1>12 DEF WellNested
<1>14. Closes(f)
  <2>1. CASE f.kind = "Sequence"
    <3>1. Event.type = "SequenceEnd"
      BY <1>1, <1>9, <1>13, <2>1 DEF StartOf
    <3>2. f.key = NoKey
      BY <1>8, <2>1 DEF FrameOK, IsFrame
    <3> QED BY <2>1, <3>1, <3>2 DEF Closes, CollectionKind
  <2>2. CASE f.kind = "Mapping"
    <3>1. d.events[s].type = "MappingStart"
      BY <1>9, <2>2 DEF StartOf
    <3>2. Event.type = "MappingEnd" /\ Cardinality(Children(d, s, j)) % 2 = 0
      BY <1>1, <1>13, <3>1
    <3>3. f.key = NoKey
      BY <1>7, <2>2, <3>2 DEF FrameReads
    <3> QED BY <2>2, <3>2, <3>3 DEF Closes, CollectionKind
  <2> QED BY <1>10, <2>1, <2>2
<1> QED BY <1>6, <1>12, <1>14

LEMMA CloseReads == ASSUME Inv, ReadInv, CloseCollection PROVE ReadInv'
<1>1. /\ Running /\ stack # <<>> /\ pos' = pos + 1 /\ Event.type \in Ends
      /\ Return(Below, Node(Top.kind, "", Top.anchor, Top.items))
  BY DEF CloseCollection
<1> PICK d : d = document
  OBVIOUS
<1> PICK j : j = pos + 1
  OBVIOUS
<1> PICK k : k = Len(stack)
  OBVIOUS
<1> PICK f : f = Top
  OBVIOUS
<1>2. /\ pos \in Nat /\ j \in 1 .. Len(d.events) /\ StackOK(stack)
  BY <1>1, AtHand
<1>3. PICK R, at : CallsRead(d, R, stack, at, j)
  BY <1>1, AtHand
<1> PICK s : s = at[k]
  OBVIOUS
<1>4. Closes(f) /\ OneNode(d, s, j)
  BY <1>1, <1>3, EndIsAwaited
<1>5. k \in Nat /\ k \in 1 .. k /\ FrameOK(f)
  BY <1>1, <1>2, NonEmptyCalls DEF Top
<1>6. /\ Closed(d, R)
      /\ at \in [1 .. k + 1 -> Nat]
      /\ at[1] = 1
      /\ at[k + 1] = j
      /\ \A i \in 1 .. k : /\ FrameReads(d, R, stack[i], at[i], at[i + 1])
                           /\ Depth(d, at[i] - 1) = i - 1
                           /\ Depth(d, at[i]) = i
  BY <1>3 DEF CallsRead
<1>7. FrameReads(d, R, f, s, j)
  BY <1>5, <1>6 DEF Top
<1>8. CallsRead(d, R, Below, [i \in 1 .. k |-> at[i]], s)
  <2> PICK to : to = [i \in 1 .. k |-> at[i]]
    OBVIOUS
  <2>1. to \in [1 .. k -> Nat] /\ \A i \in 1 .. k : to[i] = at[i]
    BY <1>5, <1>6
  <2>2. Len(Below) = k - 1 /\ \A i \in 1 .. k - 1 : Below[i] = stack[i]
    <3>1. stack \in Seq({ stack[i] : i \in DOMAIN stack })
      BY <1>2 DEF StackOK, IsSequence
    <3> QED BY <1>5, <3>1 DEF Below
  <2>3. k - 1 + 1 = k /\ 1 \in 1 .. k
    BY <1>5
  <2>4. to[1] = 1 /\ to[k] = s
    BY <1>5, <1>6, <2>1, <2>3
  <2>5. ASSUME NEW i \in 1 .. k - 1
        PROVE  /\ FrameReads(d, R, Below[i], to[i], to[i + 1])
               /\ Depth(d, to[i] - 1) = i - 1
               /\ Depth(d, to[i]) = i
    <3>1. i \in 1 .. k /\ i + 1 \in 1 .. k
      BY <1>5
    <3>2. to[i] = at[i] /\ to[i + 1] = at[i + 1] /\ Below[i] = stack[i]
      BY ONLY <2>1, <2>2, <3>1, i \in 1 .. k - 1
    <3> QED BY ONLY <1>6, <3>1, <3>2
  <2>6. CallsRead(d, R, Below, to, s)
    BY <1>6, <2>1, <2>2, <2>3, <2>4, <2>5 DEF CallsRead
  <2> QED BY <2>6
<1> PICK v : v = Node(f.kind, "", f.anchor, f.items)
  OBVIOUS
<1>9. v.items = f.items /\ v = Node(f.kind, "", f.anchor, v.items)
  BY DEF Node
<1>10. /\ s \in 1 .. Len(d.events)
       /\ d.events[s].type = StartOf(f.kind)
       /\ d.events[s].anchor = f.anchor
       /\ s \in Nat /\ s < j
  BY <1>7 DEF FrameReads, Inside
<1>11. f.kind \in {"Sequence", "Mapping"} /\ IsSequence(f.items) /\ f.key = NoKey
  BY <1>4, <1>5 DEF FrameOK, IsFrame, Closes
<1>12. j \in s .. Len(d.events) /\ s <= j
  <2>1. document.events \in Seq(Events)
    BY DEF Inv, ParseTypeOK, IsDocument
  <2>2. d.events \in Seq(Events)
    BY ONLY <2>1, d = document
  <2>3. Len(d.events) \in Nat
    BY ONLY <2>2
  <2>4. j \in 1 .. Len(d.events)
    BY ONLY <1>2
  <2>5. j \in Nat /\ j <= Len(d.events)
    BY ONLY <2>3, <2>4
  <2> QED BY ONLY <1>10, <2>3, <2>5
<1>13. NodeRead(d, R, v, s, j)
  <2>1. CASE f.kind = "Sequence"
    <3>1. ElementsRead(R, v.items, s + 1, j)
      BY <1>7, <1>9, <2>1 DEF FrameReads
    <3>2. v = Node("Sequence", "", d.events[s].anchor, v.items) /\ IsSequence(v.items)
      BY <1>9, <1>10, <1>11, <2>1
    <3>3. d.events[s].type = "SequenceStart"
      BY <1>10, <2>1 DEF StartOf
    <3> QED BY ONLY <1>4, <1>10, <1>12, <3>1, <3>2, <3>3 DEF NodeRead
  <2>2. CASE f.kind = "Mapping"
    <3>1. PairsRead(R, v.items, s + 1, j)
      BY <1>7, <1>9, <1>11, <2>2 DEF FrameReads
    <3>2. v = Node("Mapping", "", d.events[s].anchor, v.items) /\ IsSequence(v.items)
      BY <1>9, <1>10, <1>11, <2>2
    <3>3. d.events[s].type = "MappingStart"
      BY <1>10, <2>2 DEF StartOf
    <3> QED BY ONLY <1>4, <1>10, <1>12, <3>1, <3>2, <3>3 DEF NodeRead
  <2> QED BY <1>11, <2>1, <2>2
<1>14. v # NoKey
  BY <1>11, NodeIsNoMark
<1>15. StackOK(Below)
  BY <1>1, <1>2, PopCall
<1> PICK to : to = [i \in 1 .. k |-> at[i]]
  OBVIOUS
<1>16. /\ CallsRead(document, R, Below, to, s) /\ s <= pos + 1
       /\ NodeRead(document, R, v, s, pos + 1) /\ Return(Below, v)
  BY <1>1, <1>8, <1>12, <1>13
<1> QED BY ONLY Inv, ReadInv, <1>1, <1>14, <1>15, <1>16, ReturnReads

LEMMA UnexpectedEndReads == ASSUME Inv, ReadInv, UnexpectedEnd PROVE FALSE
<1>1. Running /\ Event.type \in Ends /\ (stack = <<>> \/ ~Closes(Top))
  BY DEF UnexpectedEnd
<1>2. PICK R, at : CallsRead(document, R, stack, at, pos + 1)
  BY <1>1, AtHand
<1> QED BY <1>1, <1>2, EndIsAwaited

\* The events end early only where the loader met an error.
LEMMA OutOfEventsReads == ASSUME Inv, ReadInv, OutOfEvents PROVE ReadInv'
<1>1. /\ answer = "none" /\ pos = Len(document.events) /\ pos' = pos
      /\ Error(IF document.error THEN "DocumentError" ELSE "EndOfStream")
  BY DEF OutOfEvents
<1>2. document.error
  <2> SUFFICES ASSUME ~document.error PROVE FALSE
    OBVIOUS
  <2>1. document.events # <<>> /\ OneNode(document, 1, pos)
    BY <1>1 DEF ReadInv, Whole
  <2>2. document.events \in Seq(Events)
    BY DEF Inv, ParseTypeOK, IsDocument
  <2>3. pos \in Nat /\ pos # 0
    BY <1>1, <2>1, <2>2
  <2>4. Len(stack) \in Nat
    BY DEF Inv, StackOK, IsSequence
  <2>5. PICK R, at : CallsRead(document, R, stack, at, pos + 1)
    BY <1>1 DEF ReadInv
  <2>6. Depth(document, pos) = Len(stack)
    <3> PICK n : n = pos + 1
      OBVIOUS
    <3>1. CallsRead(document, R, stack, at, n)
      BY ONLY <2>5, n = pos + 1
    <3>2. Depth(document, n - 1) = Len(stack)
      BY ONLY <2>4, <3>1, DepthOfCalls
    <3>3. n - 1 = pos
      BY ONLY <2>3, n = pos + 1
    <3> QED BY ONLY <3>2, <3>3
  <2>7. Depth(document, pos) = 0
    <3>1. 1 - 1 = 0
      OBVIOUS
    <3> QED BY <2>1, <3>1, DepthStart DEF OneNode
  <2>8. pos + 1 = 1
    <3>1. Len(stack) = 0
      BY <2>6, <2>7
    <3> QED BY <2>5, <3>1 DEF CallsRead
  <2> QED BY <2>3, <2>8
<1>3. answer' = "DocumentError" /\ document' = document
  BY <1>1, <1>2 DEF Error
<1> QED BY <1>2, <1>3 DEF ReadInv, ReadsItsDocument, FailsForAReason

LEMMA StutterReads == ASSUME ReadInv, UNCHANGED parseVars PROVE ReadInv'
BY DEF parseVars, ReadInv, ReadsItsDocument, FailsForAReason

LEMMA InitReads == ASSUME ParseInit PROVE ReadInv
<1>1. document \in Documents /\ pos = 0 /\ stack = <<>> /\ answer = "none"
  BY DEF ParseInit
<1>2. WellNested(document) /\ Whole(document)
  BY <1>1, ParseAssumption
<1> PICK at : at = [i \in 1 .. 1 |-> 1]
  OBVIOUS
<1>3. Len(stack) = 0 /\ pos + 1 = 1
  BY <1>1
<1>4. at \in [1 .. Len(stack) + 1 -> Nat] /\ at[1] = 1 /\ at[Len(stack) + 1] = pos + 1
  BY <1>3
<1>5. Closed(document, {}) /\ 1 .. Len(stack) = {}
  BY <1>3 DEF Closed
<1>6. CallsRead(document, {}, stack, at, pos + 1)
  BY <1>4, <1>5 DEF CallsRead
<1> QED BY <1>1, <1>2, <1>6 DEF ReadInv, ReadsItsDocument, FailsForAReason

LEMMA AlwaysReads == ParseSpec => []ReadInv
<1>1. ASSUME Inv, ReadInv, [ParseNext]_parseVars PROVE ReadInv'
  BY <1>1, AliasReads, ScalarReads, VoidReads, OpenReads, CloseReads, UnexpectedEndReads,
     OutOfEventsReads, StutterReads DEF ParseNext
<1> QED BY <1>1, InitReads, AlwaysInv, PTL DEF ParseSpec

-----------------------------------------------------------------------------

\* parse_value keeps its types for documents of any size.
THEOREM ParseTypes == ParseSpec => []ParseTypeOK
BY AlwaysInv, InvImplied, PTL

\* No pair of a mapping is overwritten by another one of the same document: a
\* key that waits for its value is not in the mapping, whatever kind of node it
\* is.
THEOREM NoPairIsLost == ParseSpec => []NothingOverwritten
BY AlwaysInv, InvImplied, PTL

\* The arm of parse_value that fails with UnresolvedAlias is never taken, given
\* the loader's alias ids.
THEOREM AliasesAlwaysResolve == ParseSpec => []AliasesResolve
BY AlwaysInv, InvImplied, PTL

\* What parse_value returns is the value of its document: it has read every event
\* of it, each as what it is and where it is, with its anchor, and no mapping has
\* a key twice.
THEOREM ValuesAreTheirDocuments == ParseSpec => []ReadsItsDocument
<1>1. ReadInv => ReadsItsDocument
  BY DEF ReadInv
<1> QED BY <1>1, AlwaysReads, PTL

\* parse_value fails only where its document was cut off by an error of the loader,
\* or has two keys in one mapping that are the same value: neither the end of the
\* events nor an end of a collection comes when it is not expected.
THEOREM FailuresHaveReasons == ParseSpec => []FailsForAReason
<1>1. ReadInv => FailsForAReason
  BY DEF ReadInv
<1> QED BY <1>1, AlwaysReads, PTL
=============================================================================
