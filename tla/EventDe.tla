------------------------------- MODULE EventDe -------------------------------
(***************************************************************************)
(* The event deserializer, DeserializerFromEvents of src/de.rs: serde's    *)
(* calls read the events of one document, which the loader has cut.        *)
(*                                                                         *)
(* The program is a recursion of deserialize_* methods, visitors and       *)
(* access objects; here it is a machine with an explicit stack.  A frame   *)
(* is one call on one node.  Of what type that node is asked to be is up   *)
(* to the user's visitors, and so are the nodes they ask for next: `wants` *)
(* is any of Requests.  A visitor may fail at any moment.                  *)
(*                                                                         *)
(* Every call works on a DeserializerFromEvents, and some work on the same *)
(* one: `remaining` holds the remaining_depth of those in existence, a     *)
(* frame's `de` says which is its own.                                     *)
(***************************************************************************)
EXTENDS Integers, Sequences, FiniteSets

CONSTANTS
  Documents,   \* the documents read, well-nested or cut off by an error
  Texts,       \* the texts of scalars; "" stands for a plain null as well
  Visitors,    \* the visitors in use, each as the set of what it asks of nodes
  Strategies,  \* the strategies for duplicate keys in use
  DepthLimits, \* values of DeserializerOptions::recursion_limit
  AliasLimits, \* values of DeserializerOptions::alias_limit
  AutoFactor,  \* alias expansions allowed per event by default (the code's 100)
  MaxEnums     \* bound: the nesting of enums that are read from tags

NodeStarts == {"Scalar", "SequenceStart", "MappingStart"}
Starts == {"SequenceStart", "MappingStart"}
Ends == {"SequenceEnd", "MappingEnd"}

\* An event as far as it steers the calls: whether it carries a local tag
\* (!name), the text of a scalar, the id of an alias.
Events ==
  [type : NodeStarts \cup Ends \cup {"Alias", "Void"}, tagged : BOOLEAN,
   text : Texts, id : Nat]

AllRequests ==
  {"any", "scalar", "bytes", "option", "unit", "newtype", "seq", "map", "enum", "ignored"}

\* What the loader promises of a document (LoaderProofs): an alias id
\* leads to the start of a node.  Positions count from 0.
IsDocument(d) ==
  /\ d.events \in Seq(Events)
  /\ d.aliases \in Seq(Nat)
  /\ \A i \in 1 .. Len(d.events) :
       d.events[i].type = "Alias" => d.events[i].id < Len(d.aliases)
  /\ \A i \in 1 .. Len(d.aliases) :
       /\ d.aliases[i] < Len(d.events)
       /\ d.events[d.aliases[i] + 1].type \in NodeStarts

\* What libyaml promises of the events (the open collections of Loader's source):
\* every end is of the kind of the collection that it ends.
EndsMatch(d) ==
  LET level(s, e) == Cardinality({ i \in s .. e : d.events[i].type \in Starts })
                       - Cardinality({ i \in s .. e : d.events[i].type \in Ends })
  IN  \A s, e \in 1 .. Len(d.events) :
        /\ s < e
        /\ d.events[s].type \in Starts
        /\ level(s, e) = 0
        /\ \A q \in s .. e - 1 : level(s, q) > 0
        => d.events[e].type = IF d.events[s].type = "MappingStart" THEN "MappingEnd"
                                                                   ELSE "SequenceEnd"

ASSUME EventDeAssumption ==
  /\ \A d \in Documents : IsDocument(d) /\ EndsMatch(d)
  /\ "" \in Texts
  /\ Visitors \subseteq SUBSET AllRequests
  /\ Strategies \subseteq {"FirstWins", "LastWins", "Error"}
  /\ DepthLimits \subseteq 0 .. 255
  /\ AliasLimits \subseteq Nat
  /\ AutoFactor \in Nat
  /\ MaxEnums \in Nat

VARIABLES
  document, options,
  pos,        \* the position of the innermost DeserializerFromEvents
  remaining,  \* remaining_depth of each DeserializerFromEvents in existence
  stack,      \* the calls in progress, the innermost last
  jumpcount,
  enumDepth,  \* enum_depth, which all of them share
  outcome,    \* "running", "ok", or the error that ends it all
  reads       \* history: the events read so far

vars == <<document, options, pos, remaining, stack, jumpcount, enumDepth, outcome, reads>>
fixed == <<document, options>>

\* The options of the Deserializer, and the visitors that the user calls it with.
Options ==
  [depthLimit : DepthLimits, aliasLimit : AliasLimits, duplicates : Strategies,
   requests : Visitors]

\* What these visitors ask a node to be.
Requests == options.requests

\* A call in progress.  A "node" is about to be read.  A "seq", a mapping that
\* expects a "key" or a "value", a "variant" (an enum written as a mapping) and
\* a "jump" have begun.  saved: the position after an alias.  keys: the texts in
\* MapAccess::seen.  History: start, the position of the node; depth, the checks
\* of the recursion limit passed so far; enums, the EnumAccesses handed out;
\* given, the positions of the keys that the visitor got.
Frames ==
  [kind : {"node", "seq", "key", "value", "variant", "jump"}, wants : AllRequests,
   de : Nat, start : Nat, saved : Nat, keys : SUBSET Texts, depth : Nat,
   enums : Nat, given : SUBSET Nat]

Node(request, de, start, depth) ==
  [kind |-> "node", wants |-> request, de |-> de, start |-> start, saved |-> 0,
   keys |-> {}, depth |-> depth, enums |-> 0, given |-> {}]

Top == stack[Len(stack)]
Below == SubSeq(stack, 1, Len(stack) - 1)

AtEnd == pos >= Len(document.events)
Ev == document.events[pos + 1]

-----------------------------------------------------------------------------
(* Helpers that the methods share.                                         *)

AliasLimit ==
  IF options.aliasLimit = 0 THEN AutoFactor * Len(document.events) ELSE options.aliasLimit

\* tagged_already is false: the tag of the next event has not been used yet.
SeesTag == Ev.tagged /\ enumDepth = 0

\* A mutant of EnumDepthAfter: only collections close an enum.
EnumDepthOfEnds(n) == IF enumDepth > n /\ Ev.type # "Scalar" THEN enumDepth - n ELSE enumDepth

\* enum_depth once n scalars and ends have been read.
EnumDepthAfter(n) == IF enumDepth > n THEN enumDepth - n ELSE 0

\* The positions at which a node that starts at p may be over.
NodeEnds(p) ==
  { q \in p + 1 .. Len(document.events) :
      /\ document.events[p + 1].type \notin Ends
      /\ Cardinality({ i \in p + 1 .. q : document.events[i].type \in Starts })
           = Cardinality({ i \in p + 1 .. q : document.events[i].type \in Ends }) }
Whole(p) == NodeEnds(p) # {}
After(p) == CHOOSE q \in NodeEnds(p) : \A r \in NodeEnds(p) : q <= r

\* Scalars and ends from position p up to position q.
Leaves(p, q) ==
  Cardinality({ i \in p + 1 .. q : document.events[i].type \in {"Scalar"} \cup Ends })

\* A mutant of Return: the caller's DeserializerFromEvents goes, too.
ReturnDropsCaller(p) ==
  /\ pos' = p
  /\ stack' = Below
  /\ IF Below = <<>>
       THEN /\ outcome' = "ok"
            /\ UNCHANGED remaining
       ELSE /\ remaining' = SubSeq(remaining, 1, Top.de - 1)
            /\ UNCHANGED outcome

\* The call of the innermost frame returns and has left its position at p.
Return(p) ==
  /\ pos' = p
  /\ stack' = Below
  /\ IF Below = <<>>
       THEN /\ outcome' = "ok"
            /\ UNCHANGED remaining
       ELSE /\ remaining' = SubSeq(remaining, 1, Below[Len(Below)].de)
            /\ UNCHANGED outcome

\* An error ends all calls in progress.
Fail(error) ==
  /\ outcome' = error
  /\ UNCHANGED <<fixed, pos, remaining, stack, jumpcount, enumDepth, reads>>

\* n events are read, m of them scalars or ends.
Read(n, m) ==
  /\ reads' = reads + n
  /\ enumDepth' = EnumDepthAfter(m)

\* The innermost frame becomes f and calls for a node on a new
\* DeserializerFromEvents that starts with the depth of f's.
CallFresh(f, start) ==
  /\ remaining' = Append(remaining, remaining[f.de])
  /\ \E r \in Requests :
       stack' = Append(Append(Below, f), Node(r, Len(remaining) + 1, start, f.depth))

\* The innermost call is at an event of one of these types.
Reading(types) ==
  /\ outcome = "running"
  /\ Top.kind = "node"
  /\ ~AtEnd
  /\ Ev.type \in types

-----------------------------------------------------------------------------
(* The calls on a node.                                                    *)

Init ==
  /\ document \in Documents
  /\ options \in Options
  /\ pos = 0
  /\ remaining = <<options.depthLimit>>
  /\ \E r \in Requests : stack = <<Node(r, 1, 0, 0)>>
  /\ jumpcount = 0
  /\ enumDepth = 0
  /\ outcome = "running"
  /\ reads = 0

\* A mutant of FollowAlias: the jump is not counted.
FollowAliasUncounted ==
  /\ Reading({"Alias"})
  /\ Top.wants \notin {"newtype", "ignored"}
  /\ IF jumpcount + 1 > AliasLimit
       THEN Fail("RepetitionLimitExceeded")
       ELSE /\ UNCHANGED jumpcount
            /\ pos' = document.aliases[Ev.id + 1]
            /\ remaining' = Append(remaining, remaining[Top.de])
            /\ stack' = Append(Append(Below, [Top EXCEPT !.kind = "jump", !.saved = pos + 1]),
                               Node(Top.wants, Len(remaining) + 1, pos', Top.depth))
            /\ Read(1, 0)
            /\ UNCHANGED <<fixed, outcome>>

\* An alias: the same method reads the node the alias leads to, on a new
\* DeserializerFromEvents with a position of its own.
FollowAlias ==
  /\ Reading({"Alias"})
  /\ Top.wants \notin {"newtype", "ignored"}
  /\ IF jumpcount + 1 > AliasLimit
       THEN Fail("RepetitionLimitExceeded")
       ELSE /\ jumpcount' = jumpcount + 1
            /\ pos' = document.aliases[Ev.id + 1]
            /\ remaining' = Append(remaining, remaining[Top.de])
            /\ stack' = Append(Append(Below, [Top EXCEPT !.kind = "jump", !.saved = pos + 1]),
                               Node(Top.wants, Len(remaining) + 1, pos', Top.depth))
            /\ Read(1, 0)
            /\ UNCHANGED <<fixed, outcome>>

\* The target of an alias has been read: the outer position goes on after the
\* alias.
JumpBack ==
  /\ outcome = "running"
  /\ Top.kind = "jump"
  /\ Return(Top.saved)
  /\ UNCHANGED <<fixed, jumpcount, enumDepth, reads>>

\* A null that is not hidden behind a tag of its own.
IsNull == Ev.text = "" /\ ~SeesTag

\* A scalar is all there is to read: for the scalar methods, for the empty
\* collections of a null, and for an enum without content.
ReadScalar ==
  /\ Reading({"Scalar"})
  /\ \/ Top.wants \in {"scalar", "bytes"}
     \/ Top.wants = "any" /\ ~SeesTag
     \/ Top.wants \in {"option", "unit"} /\ IsNull
     \/ Top.wants \in {"seq", "map"} /\ Ev.text = ""
     \/ Top.wants = "enum" /\ ~Ev.tagged
  /\ Read(1, 1)
  /\ Return(pos + 1)
  /\ UNCHANGED <<fixed, jumpcount>>

\* The single event of a stream without a document.
ReadVoid ==
  /\ Reading({"Void"})
  /\ Top.wants \in {"any", "option", "unit", "seq", "map", "ignored"}
  /\ Read(1, 0)
  /\ Return(pos + 1)
  /\ UNCHANGED <<fixed, jumpcount>>

\* deserialize_option finds a value, which the visitor reads through the same
\* DeserializerFromEvents.
ReadSome ==
  /\ Reading(NodeStarts)
  /\ Top.wants = "option"
  /\ ~(Ev.type = "Scalar" /\ IsNull)
  /\ \E r \in Requests : stack' = Append(Below, [Top EXCEPT !.wants = r])
  /\ UNCHANGED <<fixed, pos, remaining, jumpcount, enumDepth, outcome, reads>>

\* A mutant of Exhausted: off by one.
ExhaustedEarly == options.depthLimit > 0 /\ remaining[Top.de] <= 1

\* recursion_check on the innermost DeserializerFromEvents.
Exhausted == options.depthLimit > 0 /\ remaining[Top.de] = 0

\* A mutant of Descended: each nested call starts with the whole depth.
DescendedFresh == [remaining EXCEPT ![Top.de] = options.depthLimit]

Descended ==
  IF options.depthLimit = 0 THEN remaining ELSE [remaining EXCEPT ![Top.de] = @ - 1]

\* deserialize_newtype_struct: one level deeper, at the same event.
ReadNewtype ==
  /\ Reading(NodeStarts \cup Ends \cup {"Alias", "Void"})
  /\ Top.wants = "newtype"
  /\ IF Exhausted
       THEN Fail("RecursionLimitExceeded")
       ELSE /\ remaining' = Descended
            /\ \E r \in Requests :
                 stack' = Append(Below, [Top EXCEPT !.wants = r, !.depth = @ + 1])
            /\ UNCHANGED <<fixed, pos, jumpcount, enumDepth, outcome, reads>>

\* A collection begins: visit_sequence and visit_mapping.
Open(kind) ==
  IF Exhausted
    THEN Fail("RecursionLimitExceeded")
    ELSE /\ remaining' = Descended
         /\ stack' = Append(Below, [Top EXCEPT !.kind = kind, !.depth = @ + 1])
         /\ pos' = pos + 1
         /\ Read(1, 0)
         /\ UNCHANGED <<fixed, jumpcount, outcome>>

ReadSequence ==
  /\ Reading({"SequenceStart"})
  /\ Top.wants \in {"any", "seq", "bytes"}
  /\ Top.wants = "any" => ~SeesTag
  /\ Open("seq")

ReadMapping ==
  /\ Reading({"MappingStart"})
  /\ Top.wants \in {"any", "map"}
  /\ Top.wants = "any" => ~SeesTag
  /\ Open("key")

\* A mutant of ReadTag: enum_depth is not counted up.
ReadTagUncounted ==
  /\ Reading(NodeStarts)
  /\ \/ Top.wants = "any" /\ SeesTag
     \/ Top.wants = "enum" /\ Ev.tagged
  /\ Top.enums < MaxEnums
  /\ remaining' = Append(remaining, remaining[Top.de])
  /\ \E r \in Requests :
       stack' = Append(Below, [Top EXCEPT !.wants = r, !.de = Len(remaining) + 1,
                                          !.enums = @ + 1])
  /\ UNCHANGED <<fixed, pos, jumpcount, enumDepth, outcome, reads>>

\* The tag names the variant of an enum, and the same event is its content:
\* EnumAccess, with enum_depth counted up so that deserialize_any will not see
\* the tag again.
ReadTag ==
  /\ Reading(NodeStarts)
  /\ \/ Top.wants = "any" /\ SeesTag
     \/ Top.wants = "enum" /\ Ev.tagged
  /\ Top.enums < MaxEnums
  /\ enumDepth' = enumDepth + 1
  /\ remaining' = Append(remaining, remaining[Top.de])
  /\ \E r \in Requests :
       stack' = Append(Below, [Top EXCEPT !.wants = r, !.de = Len(remaining) + 1,
                                          !.enums = @ + 1])
  /\ UNCHANGED <<fixed, pos, jumpcount, outcome, reads>>

\* An enum as a mapping whose key names the variant and whose value is the
\* content.
OpenVariant ==
  /\ Reading({"MappingStart"})
  /\ Top.wants = "enum"
  /\ ~Ev.tagged
  /\ pos + 1 < Len(document.events)
  /\ document.events[pos + 2].type = "Scalar"
  /\ pos' = pos + 2
  /\ enumDepth' = EnumDepthAfter(1) + 1
  /\ reads' = reads + 2
  /\ CallFresh([Top EXCEPT !.kind = "variant", !.enums = @ + 1], pos')
  /\ UNCHANGED <<fixed, jumpcount, outcome>>

\* end_mapping(1): nothing but the end may follow the content.
EndVariant ==
  /\ outcome = "running"
  /\ Top.kind = "variant"
  /\ ~AtEnd
  /\ Ev.type = "MappingEnd"
  /\ Read(1, 1)
  /\ Return(pos + 1)
  /\ UNCHANGED <<fixed, jumpcount>>

\* A mutant of Ignore: of a collection, only the start is passed over.
IgnoreStart ==
  /\ Reading(NodeStarts \cup {"Alias"})
  /\ Top.wants = "ignored"
  /\ Read(1, 0)
  /\ Return(pos + 1)
  /\ UNCHANGED <<fixed, jumpcount>>

\* ignore_any: the whole node is passed over, aliases unread.
Ignore ==
  /\ Reading(NodeStarts \cup {"Alias"})
  /\ Top.wants = "ignored"
  /\ Whole(pos)
  /\ Read(After(pos) - pos, Leaves(pos, After(pos)))
  /\ Return(After(pos))
  /\ UNCHANGED <<fixed, jumpcount>>

-----------------------------------------------------------------------------
(* The collections.                                                        *)

\* SeqAccess::next_element_seed.
NextElement ==
  /\ outcome = "running"
  /\ Top.kind = "seq"
  /\ ~AtEnd
  /\ Ev.type # "SequenceEnd"
  /\ CallFresh(Top, pos)
  /\ UNCHANGED <<fixed, pos, jumpcount, enumDepth, outcome, reads>>

\* The end of a collection: the visitor gets None and returns, end_sequence and
\* end_mapping find nothing left.
EndCollection ==
  /\ outcome = "running"
  /\ \/ Top.kind = "seq" /\ ~AtEnd /\ Ev.type = "SequenceEnd"
     \/ Top.kind = "key" /\ ~AtEnd /\ Ev.type = "MappingEnd"
  /\ Read(1, 1)
  /\ Return(pos + 1)
  /\ UNCHANGED <<fixed, jumpcount>>

\* The key at hand is a scalar that MapAccess has seen.
IsDuplicate ==
  /\ options.duplicates # "LastWins"
  /\ Ev.type = "Scalar"
  /\ Ev.text \in Top.keys

\* What MapAccess remembers of the key at hand.
Remembered ==
  IF Ev.type = "Scalar" /\ options.duplicates # "LastWins" THEN {Ev.text} ELSE {}

AtKey ==
  /\ outcome = "running"
  /\ Top.kind = "key"
  /\ ~AtEnd
  /\ Ev.type # "MappingEnd"

\* MapAccess::next_key_seed: the visitor reads the key through the mapping's
\* own DeserializerFromEvents.
NextKey ==
  /\ AtKey
  /\ ~IsDuplicate
  /\ \E r \in Requests :
       stack' = Append(Append(Below,
                         [Top EXCEPT !.kind = "value",
                                     !.keys = @ \cup Remembered,
                                     !.given = @ \cup {pos}]),
                       Node(r, Top.de, pos, Top.depth))
  /\ UNCHANGED <<fixed, pos, remaining, jumpcount, enumDepth, outcome, reads>>

DuplicateIsError ==
  /\ AtKey
  /\ IsDuplicate
  /\ options.duplicates = "Error"
  /\ Fail("DuplicateKey")

\* A mutant of SkipPair: only the key is skipped.
SkipKey ==
  /\ AtKey
  /\ IsDuplicate
  /\ options.duplicates = "FirstWins"
  /\ Read(1, 1)
  /\ pos' = pos + 1
  /\ UNCHANGED <<fixed, remaining, stack, jumpcount, outcome>>

\* FirstWins: the key and its value are ignored, and the next key is looked at.
SkipPair ==
  /\ AtKey
  /\ IsDuplicate
  /\ options.duplicates = "FirstWins"
  /\ pos + 1 < Len(document.events)
  /\ Whole(pos + 1)
  /\ pos' = After(pos + 1)
  /\ Read(pos' - pos, Leaves(pos, pos'))
  /\ UNCHANGED <<fixed, remaining, stack, jumpcount, outcome>>

\* MapAccess::next_value_seed, which visitors call after every key.
NextValue ==
  /\ outcome = "running"
  /\ Top.kind = "value"
  /\ CallFresh([Top EXCEPT !.kind = "key"], pos)
  /\ UNCHANGED <<fixed, pos, jumpcount, enumDepth, outcome, reads>>

\* Everything else that fails: a visitor, an event of a type that the method
\* cannot read, a collection that the visitor leaves before its end, the end of
\* the events.
Refuse ==
  /\ outcome = "running"
  /\ Fail("Refused")

Next ==
  \/ FollowAlias \/ JumpBack
  \/ ReadScalar \/ ReadVoid \/ ReadSome \/ ReadNewtype
  \/ ReadSequence \/ ReadMapping
  \/ ReadTag \/ OpenVariant \/ EndVariant
  \/ Ignore
  \/ NextElement \/ EndCollection
  \/ NextKey \/ DuplicateIsError \/ SkipPair \/ NextValue
  \/ Refuse

Spec == Init /\ [][Next]_vars

-----------------------------------------------------------------------------
(* What is checked.                                                        *)

Outcomes ==
  {"running", "ok", "Refused", "DuplicateKey", "RecursionLimitExceeded",
   "RepetitionLimitExceeded"}

\* The type invariant of the machine: every frame has a DeserializerFromEvents,
\* and no frame below another has a newer one.
EventDeTypeOK ==
  /\ IsDocument(document)
  /\ options \in Options
  /\ pos \in Nat
  /\ remaining \in Seq(0 .. 255)
  /\ stack \in Seq(Frames)
  /\ \A i \in 1 .. Len(stack) : stack[i].de \in 1 .. Len(remaining)
  /\ \A i, j \in 1 .. Len(stack) : i <= j => stack[i].de <= stack[j].de
  /\ jumpcount \in Nat
  /\ enumDepth \in Nat
  /\ outcome \in Outcomes
  /\ outcome = "running" => stack # <<>>
  /\ reads \in Nat

\* The sequences and mappings among the first i calls in progress that
\* visit_sequence and visit_mapping have opened.
OpenCollections(i) ==
  Cardinality({ j \in 1 .. i : stack[j].kind \in {"seq", "key", "value"} })

\* The calls that check recursion_limit are nested no deeper than it, the targets
\* of aliases included: sequences and mappings that are read as such, and the
\* newtypes around them.  What is left to a DeserializerFromEvents covers no more
\* than the rest.  An enum that is written as a mapping makes no check.
CheckedDepthBounded ==
  options.depthLimit > 0 =>
    \A i \in 1 .. Len(stack) :
      /\ OpenCollections(i) <= stack[i].depth
      /\ stack[i].depth + remaining[stack[i].de] <= options.depthLimit

\* recursion_limit is the "Maximum depth allowed during deserialization": the
\* mappings of enums would count.
NestingWithinLimit ==
  options.depthLimit > 0 =>
    Cardinality({ j \in 1 .. Len(stack) : stack[j].kind \in {"seq", "key", "value", "variant"} })
      <= options.depthLimit

\* However often aliases repeat the document, the events read are at most those
\* of one document per jump, and the jumps are limited.
WorkBounded ==
  /\ reads <= (jumpcount + 1) * Len(document.events)
  /\ jumpcount <= AliasLimit

\* Whatever a visitor asks of a node, a call that succeeds has read exactly that
\* node: the position is after it, and the next call starts where it should.
OneNodeRead ==
  [][Len(stack') < Len(stack) => Whole(Top.start) /\ pos' = After(Top.start)]_vars

\* If visitors leave tags to deserialize_any and do not ask for enums themselves,
\* an enum that has been read leaves no trace in enum_depth: the tags that follow
\* it are seen.
EnumsClosed ==
  "enum" \notin Requests =>
    enumDepth <= Cardinality({ i \in 1 .. Len(stack) : stack[i].enums > 0 })

\* In the same way deserialize_any uses a node's tag once, and reads the content under it
\* without finding the tag again.
TagUsedOnce ==
  "enum" \notin Requests => \A i \in 1 .. Len(stack) : stack[i].enums <= 1

\* The children of the collection at position s, and the keys of a mapping.
Children(s) ==
  LET ends == NodeEnds(s)
  IN  { p \in s + 1 .. Len(document.events) - 1 :
          /\ document.events[p + 1].type \notin Ends
          /\ Cardinality({ i \in s + 1 .. p : document.events[i].type \in Starts })
               = 1 + Cardinality({ i \in s + 1 .. p : document.events[i].type \in Ends })
          /\ \A q \in ends : p < q }
Keys(s) ==
  LET children == Children(s)
  IN  { p \in children : Cardinality({ c \in children : c < p }) % 2 = 0 }

SameText(p, q) ==
  /\ document.events[p + 1].type = "Scalar"
  /\ document.events[q + 1].type = "Scalar"
  /\ document.events[p + 1].text = document.events[q + 1].text

\* The keys a visitor should get: all, or those whose text did not occur before.
Wanted(s) ==
  LET keys == Keys(s)
  IN  { p \in keys :
          options.duplicates # "LastWins" => \A q \in keys : q < p => ~SameText(p, q) }

Mappings == { i \in 1 .. Len(stack) : stack[i].kind \in {"key", "value"} }

\* The visitor of a mapping gets the keys that the strategy leaves over, and no
\* value in the place of a key, whatever was skipped in between.
KeysGiven ==
  \A i \in Mappings :
    stack[i].given =
      { p \in Wanted(stack[i].start) : \E q \in stack[i].given : p <= q }

\* No key of the document is a collection.
PlainKeys ==
  \A s \in 0 .. Len(document.events) - 1 :
    document.events[s + 1].type = "MappingStart" =>
      \A p \in Keys(s) : document.events[p + 1].type \in {"Scalar", "Alias"}

\* The recursion limit is reported at the depth it says, where neither a key nor
\* a newtype has used up levels that are not given back.
RecursionErrorIsDeep ==
  outcome = "RecursionLimitExceeded" /\ PlainKeys /\ "newtype" \notin Requests =>
    Top.depth = options.depthLimit

\* deserialize_any sees the tag of every node, unless the tag has just been used
\* for that node ("A representation of YAML's `!Tag` syntax, used for enums").
TagsAreSeen ==
  outcome = "running" /\ Top.kind = "node" /\ Top.wants = "any" /\ ~AtEnd /\ Ev.tagged
    => SeesTag \/ Top.enums > 0
=============================================================================
