----------------------------- MODULE ParseValue -----------------------------
(***************************************************************************)
(* parse_value of src/de.rs, which from_str_value_preserve calls on the    *)
(* first document of a text: it makes a Value of the document's events and *)
(* leaves anchors and aliases where they are.  The function is recursive;  *)
(* here its calls in progress are frames on a stack.  There is no limit to *)
(* them: recursion_check is not called.                                    *)
(*                                                                         *)
(* Its only caller uses the default options, so that the strategy for      *)
(* duplicate keys is Error; the arms of the other two are never taken.     *)
(***************************************************************************)
EXTENDS Value, EventTree

CONSTANTS
  Documents,  \* the documents, as the loader makes them
  Names,      \* the anchor names in them
  NonStrings  \* the texts that are no strings unless they are quoted

NodeStarts == {"Scalar", "SequenceStart", "MappingStart"}
Ends == {"SequenceEnd", "MappingEnd"}

Events ==
  [type : NodeStarts \cup Ends \cup {"Alias", "Void"}, text : STRING, quoted : BOOLEAN,
   anchor : Names \cup {Unanchored}, tag : STRING, id : Nat]

\* Alias ids index the alias map, which leads to the start of an anchored node
\* (the theorem AliasesStayInBounds about the loader).
IsDocument(d) ==
  /\ d.events \in Seq(Events)
  /\ d.aliases \in Seq(Nat)
  /\ d.error \in BOOLEAN
  /\ \A i \in 1 .. Len(d.aliases) :
       /\ d.aliases[i] < Len(d.events)
       /\ d.events[d.aliases[i] + 1].type \in NodeStarts
       /\ d.events[d.aliases[i] + 1].anchor \in Names
  /\ \A k \in 1 .. Len(d.events) :
       d.events[k].type = "Alias" => d.events[k].id < Len(d.aliases)

ASSUME ParseAssumption ==
  /\ Unanchored \notin Names
  /\ \A d \in Documents : IsDocument(d) /\ WellNested(d) /\ Whole(d)

VARIABLES
  document,
  pos,      \* the events read so far
  stack,    \* the calls that wait for a node inside their collection
  answer,   \* "none" while the function runs, then "Ok" or an error
  value     \* what it returns

parseVars == <<document, pos, stack, answer, value>>

\* The call on a collection: its entries so far, the key that waits for its
\* value, and the keys of first_marks.
Frame(kind, anchor) ==
  [kind |-> kind, anchor |-> anchor, items |-> <<>>, key |-> NoKey, seen |-> {}]

Top == stack[Len(stack)]
Below == SubSeq(stack, 1, Len(stack) - 1)
OnTop(calls, frame) == [calls EXCEPT ![Len(calls)] = frame]

ParseInit ==
  /\ document \in Documents
  /\ pos = 0
  /\ stack = <<>>
  /\ answer = "none"
  /\ value = NoKey

Running == answer = "none" /\ pos < Len(document.events)
Event == document.events[pos + 1]

\* The call fails, and with it all calls around it.
Error(kind) ==
  /\ answer' = kind
  /\ stack' = <<>>
  /\ UNCHANGED <<document, value>>

AwaitsKey(frame) == frame.kind = "Mapping" /\ frame.key = NoKey

\* Two mutants of IsDuplicate: no key is looked up; values are looked up, too.
IsDuplicateNever(frame, v) == FALSE
IsDuplicateAnywhere(frame, v) == v \in frame.seen

\* first_marks has the key already.
IsDuplicate(frame, v) == AwaitsKey(frame) /\ v \in frame.seen

\* A mutant of With: what kind of call it is is not looked at.
WithKeyFirst(frame, v) ==
  IF frame.key = NoKey THEN [frame EXCEPT !.key = v, !.seen = @ \cup {v}]
  ELSE [frame EXCEPT !.items = Insert(@, frame.key, v), !.key = NoKey]

\* The frame once a node in it is complete: an element, a key, or the value of
\* a key.
With(frame, v) ==
  IF frame.kind = "Sequence" THEN [frame EXCEPT !.items = Append(@, Element(v))]
  ELSE IF frame.key = NoKey  THEN [frame EXCEPT !.key = v, !.seen = @ \cup {v}]
  ELSE [frame EXCEPT !.items = Insert(@, frame.key, v), !.key = NoKey]

\* parse_value returns v to the call on top of calls, or to de, which fails
\* if the document carries an error.
Return(calls, v) ==
  IF calls = <<>>
    THEN /\ answer' = IF document.error THEN "DocumentError" ELSE "Ok"
         /\ stack' = <<>>
         /\ value' = IF document.error THEN NoKey ELSE v
         /\ UNCHANGED document
    ELSE IF IsDuplicate(calls[Len(calls)], v)
           THEN Error("DuplicateKey")
           ELSE /\ stack' = OnTop(calls, With(calls[Len(calls)], v))
                /\ UNCHANGED <<document, answer, value>>

\* The name of an alias is taken from the node that its id leads to.
ParseAlias ==
  /\ Running
  /\ Event.type = "Alias"
  /\ IF Event.id < Len(document.aliases)
       THEN LET target == document.events[document.aliases[Event.id + 1] + 1]
            IN  IF target.type \in NodeStarts /\ target.anchor # Unanchored
                  THEN Return(stack, Alias(target.anchor))
                  ELSE Error("UnresolvedAlias")
       ELSE Error("UnresolvedAlias")
  /\ pos' = pos + 1

\* A mutant of ScalarValue: the anchor is dropped, as Value::deserialize does.
ScalarValueBare(e) ==
  Node(IF e.text \in NonStrings /\ ~e.quoted THEN "NonString" ELSE "String",
       e.text, Unanchored, <<>>)

\* parse_scalar_value: the tag is not looked at.
ScalarValue(e) ==
  Node(IF e.text \in NonStrings /\ ~e.quoted THEN "NonString" ELSE "String",
       e.text, e.anchor, <<>>)

ParseScalar ==
  /\ Running
  /\ Event.type = "Scalar"
  /\ Return(stack, ScalarValue(Event))
  /\ pos' = pos + 1

\* The only event of a stream without documents.
ParseVoid ==
  /\ Running
  /\ Event.type = "Void"
  /\ Return(stack, Null)
  /\ pos' = pos + 1

CollectionKind(type) ==
  IF type \in {"SequenceStart", "SequenceEnd"} THEN "Sequence" ELSE "Mapping"

OpenCollection ==
  /\ Running
  /\ Event.type \in {"SequenceStart", "MappingStart"}
  /\ stack' = Append(stack, Frame(CollectionKind(Event.type), Event.anchor))
  /\ pos' = pos + 1
  /\ UNCHANGED <<document, answer, value>>

\* The end that the loop of the call on top waits for.
Closes(frame) ==
  /\ frame.kind = CollectionKind(Event.type)
  /\ frame.key = NoKey

CloseCollection ==
  /\ Running
  /\ Event.type \in Ends
  /\ stack # <<>>
  /\ Closes(Top)
  /\ Return(Below, Node(Top.kind, "", Top.anchor, Top.items))
  /\ pos' = pos + 1

\* Any other end is read by parse_value itself.
UnexpectedEnd ==
  /\ Running
  /\ Event.type \in Ends
  /\ stack = <<>> \/ ~Closes(Top)
  /\ Error("UnexpectedEnd")
  /\ pos' = pos + 1

\* The events end before the node does: the document's error, or EndOfStream.
OutOfEvents ==
  /\ answer = "none"
  /\ pos = Len(document.events)
  /\ Error(IF document.error THEN "DocumentError" ELSE "EndOfStream")
  /\ UNCHANGED pos

ParseNext ==
  \/ ParseAlias
  \/ ParseScalar
  \/ ParseVoid
  \/ OpenCollection
  \/ CloseCollection
  \/ UnexpectedEnd
  \/ OutOfEvents

ParseSpec == ParseInit /\ [][ParseNext]_parseVars

-----------------------------------------------------------------------------
(* What is checked.                                                        *)

Answers ==
  {"none", "Ok", "DuplicateKey", "DocumentError", "EndOfStream", "UnexpectedEnd",
   "UnresolvedAlias"}

IsFrame(f) ==
  /\ DOMAIN f = {"kind", "anchor", "items", "key", "seen"}
  /\ f.kind \in {"Sequence", "Mapping"}
  /\ f.anchor \in Names \cup {Unanchored}
  /\ IsSequence(f.items)
  /\ f.kind = "Sequence" => f.key = NoKey

\* The type invariant of parse_value.
ParseTypeOK ==
  /\ IsDocument(document)
  /\ pos \in 0 .. Len(document.events)
  /\ IsSequence(stack)
  /\ \A i \in 1 .. Len(stack) : IsFrame(stack[i])
  /\ answer \in Answers

\* The keys of a frame whose pair is complete or begun.
Keys(frame) ==
  KeysOf(frame.items) \cup (IF frame.key = NoKey THEN {} ELSE {frame.key})

\* first_marks and the mapping under construction agree in every call, and the
\* key that waits for its value is not in the mapping yet: no pair of a
\* document overwrites another one.
NothingOverwritten ==
  \A i \in 1 .. Len(stack) : stack[i].kind = "Mapping" =>
    /\ stack[i].seen = Keys(stack[i])
    /\ stack[i].key \notin KeysOf(stack[i].items)

\* Every alias of a document that the loader made gets the name of its node.
AliasesResolve == answer # "UnresolvedAlias"

-----------------------------------------------------------------------------

\* What a key is, if it is a scalar or an alias of one.
Target(d, p) ==
  IF d.events[p].type = "Alias" THEN d.aliases[d.events[p].id + 1] + 1 ELSE p
SameScalar(d, p, q) ==
  LET e == d.events[Target(d, p)]
      f == d.events[Target(d, q)]
  IN  /\ e.type = "Scalar"
      /\ f.type = "Scalar"
      /\ e.text = f.text
      /\ e.text \in NonStrings => e.quoted = f.quoted

\* parse_value fails for a reason: the document was cut off, or a mapping of it
\* has a key twice.
FailsForAReason ==
  /\ answer \in {"none", "Ok", "DocumentError", "DuplicateKey"}
  /\ answer = "DocumentError" => document.error
  /\ answer = "DuplicateKey" =>
       \E s \in 1 .. pos : \E p, q \in s + 1 .. pos :
         /\ p < q
         /\ IsKey(document, s, p)
         /\ IsKey(document, s, q)
         /\ document.events[p].type = "Scalar" => SameScalar(document, p, q)

-----------------------------------------------------------------------------
(* Which value a document is.  A reading says that the events from .. to   *)
(* are the value.                                                          *)

Reading(v, from, to) == [value |-> v, from |-> from, to |-> to]

\* The events from .. to - 1 are the elements: at[k] is where the k-th begins.
ElementsRead(readings, items, from, to) ==
  \E at \in [1 .. Len(items) + 1 -> Nat] :
    /\ at[1] = from
    /\ at[Len(items) + 1] = to
    /\ \A k \in 1 .. Len(items) :
         /\ items[k].key = NoKey
         /\ Reading(items[k].value, at[k], at[k + 1] - 1) \in readings

\* The events from .. to - 1 are the pairs, in their order, and none of their
\* keys is twice among them.
PairsRead(readings, items, from, to) ==
  /\ \A j, k \in 1 .. Len(items) : items[j].key = items[k].key => j = k
  /\ \E at, mid \in [1 .. Len(items) + 1 -> Nat] :
       /\ at[1] = from
       /\ at[Len(items) + 1] = to
       /\ \A k \in 1 .. Len(items) :
            /\ Reading(items[k].key, at[k], mid[k] - 1) \in readings
            /\ Reading(items[k].value, mid[k], at[k + 1] - 1) \in readings

\* The events i .. j are one node, with its anchor; an alias has the name of the
\* node that it leads to.
NodeRead(d, readings, v, i, j) ==
  LET e == d.events[i]
  IN  /\ i \in 1 .. Len(d.events)
      /\ j \in i .. Len(d.events)
      /\ OneNode(d, i, j)
      /\ \/ e.type = "Alias" /\ v = Alias(d.events[d.aliases[e.id + 1] + 1].anchor)
         \/ e.type = "Scalar" /\ v = ScalarValue(e)
         \/ e.type = "Void" /\ v = Null
         \/ /\ e.type = "SequenceStart"
            /\ v = Node("Sequence", "", e.anchor, v.items)
            /\ IsSequence(v.items)
            /\ ElementsRead(readings, v.items, i + 1, j)
         \/ /\ e.type = "MappingStart"
            /\ v = Node("Mapping", "", e.anchor, v.items)
            /\ IsSequence(v.items)
            /\ PairsRead(readings, v.items, i + 1, j)
IsReading(d, readings, r) == NodeRead(d, readings, r.value, r.from, r.to)

\* A value is that of a document: there are readings of its nodes, each made of
\* readings of shorter parts, of which one is of the value and the whole document.
IsValueOf(v, d) ==
  \E readings :
    /\ Reading(v, 1, Len(d.events)) \in readings
    /\ \A r \in readings : IsReading(d, readings, r)

\* What parse_value returns is the value of its document: every event of it is
\* read once and in its place, anchors and aliases included, and no mapping has
\* a key twice.
ReadsItsDocument == answer = "Ok" => IsValueOf(value, document)
=============================================================================
