----------------------------- MODULE Serializer -----------------------------
(***************************************************************************)
(* The serializer (src/ser.rs): serde calls of the user's values, turned   *)
(* into events for libyaml's emitter.  The calls that are in progress are  *)
(* an explicit stack, as the calls of EventDe are; what a value serializes *)
(* itself as is chosen among `Methods`.  One serializer is used, value     *)
(* after value, by a caller who goes on after an error.                    *)
(*                                                                         *)
(* The bytes, the styles of scalars and the texts of scalars are left out. *)
(* A tag is known by the TaggedValue that has it, an anchor by its name.   *)
(***************************************************************************)
EXTENDS Integers, FiniteSets, Sequences

CONSTANTS
  Anchors,     \* the names given by values that carry their own anchor
  Pointers,    \* the addresses of Rc and Arc values
  AnchorName,  \* anchor_name_fn, counted from 1
  NoAnchor,
  Tags,        \* the tags of values, without TagText and NoTag
  TagText,     \* the tag that a text beginning with ! is taken for
  NoTag,
  Methods,     \* bound: what values serialize themselves as
  Checks,      \* the values of check_unresolved_anchors
  MaxCalls     \* bound: the nodes and entries that are serialized

AllMethods ==
  {"scalar", "collect", "seq", "map", "map1", "struct", "newtypeVariant", "tupleVariant",
   "structVariant", "anchor", "alias", "rc", "flowSeq", "flowMap", "tagged"}

Names == Anchors \cup { AnchorName[i] : i \in DOMAIN AnchorName }

ASSUME SerializerAssumption ==
  /\ AnchorName \in Seq(Names)
  /\ NoAnchor \notin Names
  /\ NoTag \notin Tags \cup {TagText}
  /\ Methods \subseteq AllMethods
  /\ Checks \subseteq BOOLEAN
  /\ MaxCalls \in Nat

VARIABLES
  ser,     \* the Serializer, the registry of the thread, and the emitter
  stack,   \* the calls in progress, the innermost last
  errors,  \* history: the kinds of errors met so far
  left,    \* bound: the nodes and entries left
  twisted, \* history: a CheckForTag or CheckForDuplicateTag was answered by
           \* a map that took the place of the key
  covered  \* history: a pending anchor was overwritten by another one

vars == <<ser, stack, errors, left, twisted, covered>>

States ==
  {"NothingInParticular", "CheckForTag", "CheckForDuplicateTag", "FoundTag", "AlreadyTagged"}

\* An event as far as the properties tell: node is "Scalar", "Alias", a start or
\* an end; anchor is that of the node, or the name in an alias.
Events ==
  [type : {"Scalar", "Alias", "SequenceStart", "MappingStart", "SequenceEnd", "MappingEnd"},
   anchor : Names \cup {NoAnchor}, tag : Tags \cup {TagText, NoTag}]

Event(type) == [type |-> type, anchor |-> NoAnchor, tag |-> NoTag]

\* What the emitter expects: nothing but a document; its root; an item; a key
\* or the end of the mapping; a value; nothing but the end of the document.
Expectations == {"root", "item", "key", "value", "done"}

-----------------------------------------------------------------------------
(* libyaml's emitter (external): it takes well-nested events, and reports  *)
(* others, at the latest three events later.  `open` is what it expects at *)
(* each level, `out` the nodes of the document that it was given.          *)

LastOf(s) == s[Len(s)]
ButLast(s) == SubSeq(s, 1, Len(s) - 1)

\* What is expected after a node.
AfterNode(open) ==
  [open EXCEPT ![Len(open)] =
     CASE @ = "root" -> "done" [] @ = "key" -> "value" [] @ = "value" -> "key" [] OTHER -> @]

Expecting(s, expectations) == s.open # <<>> /\ LastOf(s.open) \in expectations

Given(s, open, e) == [s EXCEPT !.open = open, !.out = Append(@, e)]
Refused(s) == [s EXCEPT !.failed = TRUE]

EmitDocumentStart(s) ==
  IF s.failed \/ s.open # <<>> THEN Refused(s)
  ELSE [s EXCEPT !.open = <<"root">>, !.out = <<>>]

EmitDocumentEnd(s) ==
  IF s.failed \/ ~Expecting(s, {"done"}) THEN Refused(s) ELSE [s EXCEPT !.open = <<>>]

\* A scalar or an alias.
EmitLeaf(s, e) ==
  IF s.failed \/ ~Expecting(s, {"root", "item", "key", "value"}) THEN Refused(s)
  ELSE Given(s, AfterNode(s.open), e)

EmitStart(s, e) ==
  IF s.failed \/ ~Expecting(s, {"root", "item", "key", "value"}) THEN Refused(s)
  ELSE Given(s, Append(AfterNode(s.open), IF e.type = "SequenceStart" THEN "item" ELSE "key"), e)

EmitEnd(s, e) ==
  IF s.failed \/ ~Expecting(s, IF e.type = "SequenceEnd" THEN {"item"} ELSE {"key"})
    THEN Refused(s)
  ELSE Given(s, ButLast(s.open), e)

-----------------------------------------------------------------------------
(* What the methods of the serializer do to it.                            *)

\* A mutant of ValueStart: the root of a document is not counted.
ValueStartUncounted(s) ==
  IF s.failed THEN s
  ELSE IF s.depth = 0 THEN EmitDocumentStart(s) ELSE [s EXCEPT !.depth = @ + 1]

ValueStart(s) ==
  IF s.failed THEN s
  ELSE [(IF s.depth = 0 THEN EmitDocumentStart(s) ELSE s) EXCEPT !.depth = @ + 1]

\* Mutants of Reset: only the serializer, or only the registry, is reset.
NoNames == [p \in {} |-> NoAnchor]
ResetSerializer(s) == [s EXCEPT !.anchors = {}]
ResetRegistry(s) == [s EXCEPT !.names = NoNames, !.counter = 0]

\* The end of the document resets the anchors, here and in the registry.
Reset(s) == [s EXCEPT !.anchors = {}, !.names = NoNames, !.counter = 0]

ValueEnd(s) ==
  LET t == [s EXCEPT !.depth = @ - 1]
      u == EmitDocumentEnd(t)
  IN  IF s.failed THEN s
      ELSE IF t.depth # 0 THEN t
      ELSE IF u.failed THEN u ELSE Reset(u)

\* The event of a node, with the tag that was found and the anchor that is
\* pending.  take_tag forgets the state, whatever it was.
NodeEvent(s, type) ==
  [type |-> type, anchor |-> s.pending, tag |-> IF s.state = "FoundTag" THEN s.tag ELSE NoTag]

Taken(s) ==
  [s EXCEPT !.state = "NothingInParticular", !.tag = NoTag, !.pending = NoAnchor,
            !.anchors = @ \cup ({s.pending} \ {NoAnchor})]

MappingStart(s) ==
  [Taken(EmitStart(ValueStart(s), NodeEvent(s, "MappingStart"))) EXCEPT !.flowMap = FALSE]

\* A mapping whose start was put off until it was known not to be a tag.
FlushMappingStart(s) ==
  CASE s.state = "CheckForTag"          -> MappingStart([s EXCEPT !.state = "NothingInParticular"])
    [] s.state = "CheckForDuplicateTag" -> [s EXCEPT !.state = "NothingInParticular"]
    [] OTHER                            -> s

EmitMappingStart(s) == MappingStart(FlushMappingStart(s))

\* A mutant of EmitMappingEnd: the depth stays.
EmitMappingEndUncounted(s) == EmitEnd(s, Event("MappingEnd"))

EmitMappingEnd(s) == ValueEnd(EmitEnd(s, Event("MappingEnd")))

\* A mutant of EmitSequenceStart: the anchor is left to the first element.
EmitSequenceStartBare(s) ==
  LET t == FlushMappingStart(s)
  IN  [EmitStart(ValueStart(t), Event("SequenceStart")) EXCEPT !.flowSeq = FALSE]

EmitSequenceStart(s) ==
  LET t == FlushMappingStart(s)
  IN  [Taken(EmitStart(ValueStart(t), NodeEvent(t, "SequenceStart"))) EXCEPT !.flowSeq = FALSE]

EmitSequenceEnd(s) == ValueEnd(EmitEnd(s, Event("SequenceEnd")))

EmitScalar(s) ==
  LET t == FlushMappingStart(s)
  IN  ValueEnd(Taken(EmitLeaf(ValueStart(t), NodeEvent(t, "Scalar"))))

\* An alias takes neither the tag nor the pending anchor.
EmitAlias(s, name) ==
  ValueEnd(EmitLeaf(ValueStart(FlushMappingStart(s)), [Event("Alias") EXCEPT !.anchor = name]))

-----------------------------------------------------------------------------
(* The calls in progress.  A "node" is a value that is about to serialize  *)
(* itself.  The others wait for a value in it (step "key" or "value"), or  *)
(* for the next call on them.                                              *)

Frame(kind) ==
  [kind |-> kind, step |-> "open", ends |-> 1, one |-> FALSE, entry |-> FALSE,
   tagged |-> FALSE, tag |-> NoTag, begun |-> FALSE, name |-> NoAnchor,
   floor |-> ser.depth, start |-> IF ser.depth = 0 THEN 0 ELSE Len(ser.out), late |-> FALSE]

Top == LastOf(stack)
In(kind, step) == stack # <<>> /\ Top.kind = kind /\ Top.step = step
Asked(method) == In("node", "open") /\ method \in Methods

\* What a call waits for after the value in it.
Advanced(f) ==
  [f EXCEPT !.step = IF f.kind = "map" THEN (IF @ = "key" THEN "keyed" ELSE "valued")
                     ELSE IF f.kind \in {"seq", "struct"} THEN "open" ELSE "done"]

\* The stack after the return of the innermost call.
Returned ==
  LET rest == ButLast(stack)
  IN  IF rest = <<>> THEN <<>> ELSE [rest EXCEPT ![Len(rest)] = Advanced(@)]

\* The stack with another innermost call.
Instead(f) == Append(ButLast(stack), f)

\* The stack in which the innermost call f serializes a value.
Inside(f) == Append(Instead(f), Frame("node"))

\* The method has done s to the serializer: it returns, unless the emitter failed.
Do(s, calls) ==
  /\ ser' = s
  /\ stack' = IF s.failed THEN <<>> ELSE calls
  /\ errors' = IF s.failed THEN errors \cup {"emitter"} ELSE errors

\* An error leaves all calls.  Those of FlowSeq and FlowMap take their style back.
Abort(kind) ==
  /\ ser' = [ser EXCEPT !.flowSeq = FALSE, !.flowMap = FALSE]
  /\ stack' = <<>>
  /\ errors' = errors \cup {kind}

Spent == left > 0 /\ left' = left - 1
Unspent == UNCHANGED left
Straight == UNCHANGED <<twisted, covered>>

NewSerializer(check) ==
  [depth |-> 0, state |-> "NothingInParticular", tag |-> NoTag, pending |-> NoAnchor,
   anchors |-> {}, flowSeq |-> FALSE, flowMap |-> FALSE, check |-> check,
   names |-> NoNames, counter |-> 0, open |-> <<>>, out |-> <<>>, failed |-> FALSE]

Init ==
  /\ \E check \in Checks : ser = NewSerializer(check)
  /\ stack = <<>>
  /\ errors = {}
  /\ left = MaxCalls
  /\ twisted = FALSE
  /\ covered = FALSE

\* The caller serializes one more value, whatever became of the others.
SerializeValue ==
  /\ stack = <<>>
  /\ ~ser.failed
  /\ Spent
  /\ stack' = <<Frame("node")>>
  /\ UNCHANGED <<ser, errors>>
  /\ Straight

-----------------------------------------------------------------------------
(* The methods of ser::Serializer.                                         *)

\* Numbers, strings, bytes, units and unit variants.
SerializeScalar ==
  /\ Asked("scalar")
  /\ Do(EmitScalar(ser), Returned)
  /\ Unspent
  /\ Straight

\* A text that looks like a tag: it is one where a tag is looked for.
LooksForTag == ser.state \in {"CheckForTag", "CheckForDuplicateTag"}

FoundTag(tag) == [ser EXCEPT !.state = "FoundTag", !.tag = tag]

CollectStr ==
  /\ Asked("collect")
  /\ Do(IF LooksForTag THEN FoundTag(TagText) ELSE EmitScalar(ser), Returned)
  /\ twisted' = (twisted \/ ser.state = "CheckForDuplicateTag")
  /\ Unspent
  /\ UNCHANGED covered

\* Sequences, tuples and tuple structs.
SerializeSeq ==
  /\ Asked("seq")
  /\ Do(EmitSequenceStart(ser), Instead(Frame("seq")))
  /\ Unspent
  /\ Straight

\* A mutant of MapBegun: a tag that was found is forgotten.
MapBegunUntagged(one) ==
  IF one THEN [ser EXCEPT !.state = "CheckForTag"] ELSE EmitMappingStart(ser)

\* serialize_map.  A mapping of one entry may turn out to be a tag.
MapBegun(one) ==
  IF ~one THEN EmitMappingStart(ser)
  ELSE IF ser.state = "FoundTag"
    THEN [EmitMappingStart(ser) EXCEPT !.state = "CheckForDuplicateTag"]
  ELSE [ser EXCEPT !.state = "CheckForTag"]

\* Maps of one entry, and others.
SerializeMap ==
  \E one \in BOOLEAN :
    /\ Asked(IF one THEN "map1" ELSE "map")
    /\ Do(MapBegun(one), Instead([Frame("map") EXCEPT !.one = one]))
    /\ twisted' = (twisted \/ (one /\ ser.state = "CheckForTag"))
    /\ Unspent
    /\ UNCHANGED covered

\* TaggedValue::serialize: a map of one entry, the key of which is its tag.
SerializeTagged ==
  \E tag \in Tags :
    /\ Asked("tagged")
    /\ Do(MapBegun(TRUE), Instead([Frame("map") EXCEPT !.one = TRUE, !.tag = tag]))
    /\ twisted' = (twisted \/ ser.state = "CheckForTag")
    /\ Unspent
    /\ UNCHANGED covered

SerializeStruct ==
  /\ Asked("struct")
  /\ Do(EmitMappingStart(ser), Instead(Frame("struct")))
  /\ Unspent
  /\ Straight

SerializeNewtypeVariant ==
  /\ Asked("newtypeVariant")
  /\ Do(EmitScalar(EmitMappingStart(ser)), Inside([Frame("variant") EXCEPT !.step = "value"]))
  /\ Spent
  /\ Straight

SerializeTupleVariant ==
  /\ Asked("tupleVariant")
  /\ Do(EmitSequenceStart(EmitScalar(EmitMappingStart(ser))),
        Instead([Frame("seq") EXCEPT !.ends = 2]))
  /\ Unspent
  /\ Straight

SerializeStructVariant ==
  /\ Asked("structVariant")
  /\ Do(EmitMappingStart(EmitScalar(EmitMappingStart(ser))),
        Instead([Frame("struct") EXCEPT !.ends = 2]))
  /\ Unspent
  /\ Straight

\* A value under the newtype of anchors: its name is pending until a node takes
\* it.
Anchored(s, name) ==
  /\ Do([s EXCEPT !.pending = name],
        Inside([Frame("anchor") EXCEPT !.step = "value", !.name = name,
                                       !.late = ser.state = "CheckForTag"]))
  /\ covered' = (covered \/ ser.pending # NoAnchor)
  /\ Spent
  /\ UNCHANGED twisted

\* emit_alias, which an unknown anchor leaves before it does anything.
Aliased(name) ==
  /\ IF ser.check /\ name \notin ser.anchors THEN Abort("anchor")
                                             ELSE Do(EmitAlias(ser, name), Returned)
  /\ Unspent
  /\ Straight

\* Values that carry an anchor, and aliases.
SerializeAnchor == Asked("anchor") /\ \E name \in Anchors : Anchored(ser, name)
SerializeAlias == Asked("alias") /\ \E name \in Anchors : Aliased(name)

\* RcAnchor, ArcAnchor and the weak ones that are alive: the first time a
\* pointer is seen in a document it defines an anchor.
SerializeRc ==
  /\ Asked("rc")
  /\ \E p \in Pointers :
       IF p \in DOMAIN ser.names
         THEN Aliased(ser.names[p])
         ELSE /\ ser.counter < Len(AnchorName)
              /\ LET name == AnchorName[ser.counter + 1]
                 IN  Anchored([ser EXCEPT !.counter = @ + 1,
                                          !.names = [q \in DOMAIN @ \cup {p} |->
                                                       IF q = p THEN name ELSE @[q]]],
                              name)

\* FlowSeq and FlowMap.
SerializeFlow ==
  \E kind \in {"flowSeq", "flowMap"} :
    /\ Asked(kind)
    /\ Do(IF kind = "flowSeq" THEN [ser EXCEPT !.flowSeq = TRUE] ELSE [ser EXCEPT !.flowMap = TRUE],
          Inside([Frame(kind) EXCEPT !.step = "value"]))
    /\ Spent
    /\ Straight

\* The Serialize of a value fails.
Fail ==
  /\ In("node", "open")
  /\ Abort("serialize")
  /\ Unspent
  /\ Straight

-----------------------------------------------------------------------------
(* The methods of the compound serializers.                                *)

NextElement ==
  /\ In("seq", "open")
  /\ Do(ser, Inside([Top EXCEPT !.step = "value"]))
  /\ Spent
  /\ Straight

\* A struct's field: its name, then its value.
NextField ==
  /\ In("struct", "open")
  /\ Do(EmitScalar(ser), Inside([Top EXCEPT !.step = "value"]))
  /\ Spent
  /\ Straight

\* The key of the next entry: serialize_entry serializes it at once,
\* serialize_key flushes the start of the mapping first.
NextKey ==
  \E entry \in BOOLEAN :
    /\ In("map", "open")
    /\ Top.tag = NoTag
    /\ Top.one => ~Top.begun
    /\ Do(IF entry THEN ser ELSE FlushMappingStart(ser),
          Inside([Top EXCEPT !.step = "key", !.entry = entry]))
    /\ Spent
    /\ Straight

\* The key of a TaggedValue.
TagKey ==
  /\ In("map", "open")
  /\ Top.tag # NoTag
  /\ ~Top.begun
  /\ LooksForTag
  /\ Do(FoundTag(Top.tag), Instead([Top EXCEPT !.step = "keyed", !.entry = TRUE]))
  /\ twisted' = (twisted \/ ser.state = "CheckForDuplicateTag")
  /\ Unspent
  /\ UNCHANGED covered

NextValue ==
  /\ In("map", "keyed")
  /\ Do(ser, Inside([Top EXCEPT !.step = "value",
                                !.tagged = Top.entry /\ ser.state = "FoundTag"]))
  /\ Spent
  /\ Straight

EndEntry ==
  /\ In("map", "valued")
  /\ Do(IF Top.tagged THEN [ser EXCEPT !.state = "AlreadyTagged"] ELSE ser,
        Instead([Top EXCEPT !.step = "open", !.begun = TRUE]))
  /\ Unspent
  /\ Straight

\* A mutant of EndSeq: the mapping of a tuple variant is left open.
EndSeqOnce ==
  /\ In("seq", "open")
  /\ Do(EmitSequenceEnd(ser), Returned)
  /\ Unspent
  /\ Straight

EndSeq ==
  /\ In("seq", "open")
  /\ Do(IF Top.ends = 2 THEN EmitMappingEnd(EmitSequenceEnd(ser)) ELSE EmitSequenceEnd(ser),
        Returned)
  /\ Unspent
  /\ Straight

EndStruct ==
  /\ In("struct", "open")
  /\ Do(IF Top.ends = 2 THEN EmitMappingEnd(EmitMappingEnd(ser)) ELSE EmitMappingEnd(ser),
        Returned)
  /\ Unspent
  /\ Straight

\* A mutant of MapEnded: a tag has a mapping to end.
MapEndedAlways ==
  LET s == IF ser.state = "CheckForTag" THEN EmitMappingStart(ser) ELSE ser
  IN  [EmitMappingEnd(s) EXCEPT !.state = "NothingInParticular"]

\* SerializeMap::end.  A tag has no mapping to end.
MapEnded ==
  LET s == IF ser.state = "CheckForTag" THEN EmitMappingStart(ser) ELSE ser
      t == IF s.state = "AlreadyTagged" THEN s ELSE EmitMappingEnd(s)
  IN  [t EXCEPT !.state = "NothingInParticular"]

EndMap ==
  /\ In("map", "open")
  /\ Top.one => Top.begun
  /\ Do(MapEnded, Returned)
  /\ Unspent
  /\ Straight

EndVariant ==
  /\ In("variant", "done")
  /\ Do(EmitMappingEnd(ser), Returned)
  /\ Unspent
  /\ Straight

EndAnchor ==
  /\ In("anchor", "done")
  /\ Do(ser, Returned)
  /\ Unspent
  /\ Straight

\* A style that was not taken is an error.
EndFlow ==
  /\ In("flowSeq", "done") \/ In("flowMap", "done")
  /\ IF (Top.kind = "flowSeq" /\ ser.flowSeq) \/ (Top.kind = "flowMap" /\ ser.flowMap)
       THEN Abort("flow")
       ELSE Do(ser, Returned)
  /\ Unspent
  /\ Straight

Next ==
  \/ SerializeValue \/ SerializeScalar \/ CollectStr \/ SerializeSeq \/ SerializeMap
  \/ SerializeTagged \/ SerializeStruct \/ SerializeNewtypeVariant
  \/ SerializeTupleVariant \/ SerializeStructVariant \/ SerializeAnchor
  \/ SerializeAlias \/ SerializeRc \/ SerializeFlow \/ Fail
  \/ NextElement \/ NextField \/ NextKey \/ TagKey \/ NextValue \/ EndEntry
  \/ EndSeq \/ EndStruct \/ EndMap \/ EndVariant \/ EndAnchor \/ EndFlow

Spec == Init /\ [][Next]_vars

-----------------------------------------------------------------------------
(* What is checked.                                                        *)

Serializers ==
  [depth : Nat, state : States, tag : Tags \cup {TagText, NoTag},
   pending : Names \cup {NoAnchor}, anchors : SUBSET Names,
   flowSeq : BOOLEAN, flowMap : BOOLEAN, check : BOOLEAN,
   names : UNION { [P -> Names] : P \in SUBSET Pointers }, counter : Nat,
   open : Seq(Expectations), out : Seq(Events), failed : BOOLEAN]

Frames ==
  [kind : {"node", "seq", "map", "struct", "variant", "anchor", "flowSeq", "flowMap"},
   step : {"open", "key", "keyed", "value", "valued", "done"}, ends : {1, 2},
   one : BOOLEAN, entry : BOOLEAN, tagged : BOOLEAN, tag : Tags \cup {NoTag},
   begun : BOOLEAN, name : Names \cup {NoAnchor}, floor : Nat, start : Nat,
   late : BOOLEAN]

\* The type invariant.  The depth of a serializer that goes on is never less
\* than nothing: it is a usize that value_end decrements.
SerializerTypeOK ==
  /\ ser \in Serializers
  /\ stack \in Seq(Frames)
  /\ errors \subseteq {"serialize", "anchor", "flow", "emitter"}
  /\ left \in Nat
  /\ twisted \in BOOLEAN
  /\ covered \in BOOLEAN

\* However calls are nested and wherever they are abandoned, depth counts what
\* is open in the emitter, and is 0 only between documents: value_start and
\* value_end begin and end the document at its root.
DepthIsNesting ==
  ~ser.failed => /\ ser.depth = 0 <=> ser.open = <<>>
                 /\ ser.open # <<>> => ser.depth = Len(ser.open) - 1

\* Nothing but an entry's key that takes the state of its mapping makes the
\* emitter refuse an event, not even values that were abandoned.
EmitterContent == ~twisted => ~ser.failed

\* A value that was serialized is a document: it is closed, and nothing of it is
\* left for the next one but the anchor of an alias.
ValuesAreDocuments ==
  stack = <<>> /\ errors = {} /\ ~twisted =>
    /\ ser.open = <<>>
    /\ ser.state = "NothingInParticular"
    /\ ~ser.flowSeq /\ ~ser.flowMap
    /\ ser.names = NoNames

\* Checked aliases come after their anchor, in the same document, after errors
\* too.
AliasesFollowAnchors ==
  ser.check =>
    \A i \in 1 .. Len(ser.out) :
      ser.out[i].type = "Alias" => \E j \in 1 .. i - 1 :
        ser.out[j].type # "Alias" /\ ser.out[j].anchor = ser.out[i].anchor

\* The registry knows the names of anchors that are, or will be, in the document,
\* unless a value under an anchor had one of its own.
RegistryAgrees ==
  ~covered => \A p \in DOMAIN ser.names : ser.names[p] \in ser.anchors \cup {ser.pending}

\* The nodes that the events i .. k open and do not close.
IsStart(e) == e.type \in {"SequenceStart", "MappingStart"}
IsEnd(e) == e.type \in {"SequenceEnd", "MappingEnd"}
StartsOf(out, i, k) == { j \in i .. k : IsStart(out[j]) }
EndsOf(out, i, k) == { j \in i .. k : IsEnd(out[j]) }
Level(out, i, k) == Cardinality(StartsOf(out, i, k)) - Cardinality(EndsOf(out, i, k))

\* The events from i on are one whole node.
WholeNode(out, i) ==
  /\ ~IsEnd(out[i])
  /\ \A k \in i .. Len(out) : Level(out, i, k) = 0 <=> k = Len(out)

\* What the innermost call serialized is one node, with that property, and the
\* serializer is back at the depth where it began.
OneNodeWith(Has(_)) ==
  LET i == Top.start + 1
  IN  /\ ser.depth = Top.floor
      /\ i <= Len(ser.out)
      /\ Has(ser.out[i])
      /\ WholeNode(ser.out, i)

\* The anchor of a value goes to the node of that value, unless that is an alias
\* or an anchor of its own, or the key of a mapping whose start was put off.
AnchorsOnTheirNodes ==
  In("anchor", "done") /\ ~twisted /\ ~Top.late =>
    OneNodeWith(LAMBDA e : e.anchor = Top.name \/ e.type = "Alias" \/ covered)

\* The tag of a value goes to the node of that value, unless that is an alias.
TagsOnTheirNodes ==
  In("map", "valued") /\ Top.tag # NoTag /\ ~twisted =>
    OneNodeWith(LAMBDA e : e.tag = Top.tag \/ e.type = "Alias")

\* A clone of an Rc or Arc never names an unknown anchor ("associates an anchor
\* with the first serialized occurrence of an Rc and emits aliases for
\* subsequent clones").
ClonesAreAliases == \A p \in DOMAIN ser.names : ser.names[p] \in ser.anchors \cup {ser.pending}
=============================================================================
