------------------------------- MODULE Loader -------------------------------
(***************************************************************************)
(* The document loader (src/loader.rs): it pulls libyaml's events one at a *)
(* time and cuts them into documents, replacing anchor names by alias ids. *)
(*                                                                         *)
(* libyaml itself is external.  It is modelled as a generator of every     *)
(* well-nested event stream, which may also fail before any event: with a  *)
(* scanner or reader error, which libyaml repeats for ever, or with an     *)
(* error of convert_event (src/libyaml/parser.rs), which it does not: the  *)
(* event is consumed and the next call goes on after it.                   *)
(*                                                                         *)
(* One action per outcome of one iteration of the loop of next_document,   *)
(* plus one for the call itself.  Whoever holds the loader may call        *)
(* next_document again whatever it returned.                               *)
(***************************************************************************)
EXTENDS Naturals, Sequences, FiniteSets

CONSTANTS
  Anchors,    \* anchor names
  NoAnchor,   \* stands for None where an anchor is optional
  Kinds,      \* bound: the node types that occur in the stream
  MaxNodes,   \* bound: node and alias events libyaml produces in the stream
  MaxDocs     \* bound: documents in the stream

ASSUME ConstantsAssumption ==
  /\ Kinds \subseteq {"Scalar", "SequenceStart", "MappingStart"}
  /\ NoAnchor \notin Anchors
  /\ MaxNodes \in Nat
  /\ MaxDocs \in Nat

VARIABLES
  \* libyaml's parser
  source,
  \* the Loader
  parser, documentCount,
  \* the locals of the call to next_document in progress
  call, first, seen, anchors, document,
  \* what the last call returned: "none", or "some" for Some(document)
  returned,
  \* history: whether the last call began between two documents of libyaml's
  whole

locals == <<first, seen, anchors, document>>
vars == <<source, parser, documentCount, call, locals, returned, whole>>

OptAnchor == Anchors \cup {NoAnchor}

-----------------------------------------------------------------------------
(* libyaml, external.                                                      *)

NodeTypes == {"Scalar", "SequenceStart", "MappingStart"}

\* The events of libyaml.  In an Alias, `anchor` is the name it refers to.
YamlEvents ==
  [type : {"StreamStart", "StreamEnd", "DocumentStart", "DocumentEnd",
           "SequenceEnd", "MappingEnd"}, anchor : {NoAnchor}]
    \cup [type : NodeTypes, anchor : OptAnchor]
    \cup [type : {"Alias"}, anchor : Anchors]

Phases == {"new", "stream", "root", "close", "ended"}

\* libyaml's error flag: no error, or the error it met first.
Failures == {"no", "scan", "read"}

\* phase: before StreamStart, between documents, inside a document whose root
\* is incomplete, after the root, after StreamEnd.  open: the collections
\* being read, "key" or "value" being what a mapping expects next.
Source ==
  [phase : Phases, open : Seq({"seq", "key", "value"}),
   failed : Failures, nodes : Nat, docs : Nat]

Top(stack) == IF stack = <<>> THEN "root" ELSE stack[Len(stack)]

Offered ==
  { e \in YamlEvents :
      \/ e.type = "StreamStart" /\ source.phase = "new"
      \/ e.type = "StreamEnd" /\ source.phase = "stream"
      \/ /\ e.type = "DocumentStart"
         /\ source.phase = "stream"
         /\ source.docs < MaxDocs
         /\ source.nodes < MaxNodes
      \/ e.type = "DocumentEnd" /\ source.phase = "close"
      \/ /\ e.type \in Kinds \cup {"Alias"}
         /\ source.phase = "root"
         \* Within the bound.  A value and a root are not optional, so what
         \* they need is never refused.
         /\ \/ source.nodes < MaxNodes
            \/ e.type \in {"Scalar", "Alias"} /\ Top(source.open) \in {"root", "value"}
      \/ e.type = "SequenceEnd" /\ source.phase = "root" /\ Top(source.open) = "seq"
      \/ e.type = "MappingEnd" /\ source.phase = "root" /\ Top(source.open) = "key" }

\* The stack once the node on top of it is complete: a mapping that has read
\* a key expects its value.
Completed(stack) ==
  IF stack = <<>> THEN stack
  ELSE [stack EXCEPT ![Len(stack)] =
          CASE @ = "key" -> "value" [] @ = "value" -> "key" [] OTHER -> @]

Close(stack) ==
  [source EXCEPT !.open = Completed(stack),
                 !.phase = IF stack = <<>> THEN "close" ELSE "root",
                 !.nodes = IF source.nodes < MaxNodes THEN @ + 1 ELSE @]

\* libyaml's state once it has produced e.
SourceAfter(e) ==
  CASE e.type = "StreamStart"   -> [source EXCEPT !.phase = "stream"]
    [] e.type = "StreamEnd"     -> [source EXCEPT !.phase = "ended"]
    [] e.type = "DocumentStart" -> [source EXCEPT !.phase = "root", !.docs = @ + 1]
    [] e.type = "DocumentEnd"   -> [source EXCEPT !.phase = "stream"]
    [] e.type = "SequenceStart" -> [source EXCEPT !.open = Append(@, "seq"),
                                                  !.nodes = @ + 1]
    [] e.type = "MappingStart"  -> [source EXCEPT !.open = Append(@, "key"),
                                                  !.nodes = @ + 1]
    [] e.type \in {"SequenceEnd", "MappingEnd"} ->
         [Close(SubSeq(source.open, 1, Len(source.open) - 1))
            EXCEPT !.nodes = source.nodes]
    [] OTHER                    -> Close(source.open)

-----------------------------------------------------------------------------
(* The loader.                                                             *)

NodeEvents == NodeTypes \cup {"Alias", "SequenceEnd", "MappingEnd", "Void"}

\* An event of a document.  `id` is the alias id of an Alias and 0 elsewhere;
\* the `anchor` of an Alias is history: the code keeps only the id.
Events == [type : NodeEvents, anchor : OptAnchor, id : Nat]

\* Events and aliases hold positions counted from 0, as the code's vectors do.
Document ==
  [events : Seq(Events), aliases : Seq(Nat),
   error : {"none", "UnknownAnchor", "Parse", "Convert"}, endMark : BOOLEAN]

EmptyDocument ==
  [events |-> <<>>, aliases |-> <<>>, error |-> "none", endMark |-> FALSE]

NoNames == [a \in {} |-> 0]

Event(e, id) == [type |-> e.type, anchor |-> e.anchor, id |-> id]

\* A mutant of Insert: HashMap::entry(a).or_insert(id).
InsertIfAbsent(map, a, id) ==
  IF a \in DOMAIN map THEN map ELSE [n \in DOMAIN map \cup {a} |-> IF n = a THEN id ELSE map[n]]

\* HashMap::insert: an existing name keeps its place, so only a new name makes
\* the map longer.
Insert(map, a, id) == [n \in DOMAIN map \cup {a} |-> IF n = a THEN id ELSE map[n]]

\* The id a node's anchor gets: the number of names known so far.
AliasId == Cardinality(DOMAIN anchors)

Init ==
  /\ source = [phase |-> "new", open |-> <<>>, failed |-> "no",
               nodes |-> 0, docs |-> 0]
  /\ parser = "open"
  /\ documentCount = 0
  /\ call = "idle"
  /\ first = TRUE
  /\ seen = FALSE
  /\ anchors = NoNames
  /\ document = EmptyDocument
  /\ returned = "nothing"
  /\ whole = TRUE

\* next_document is called and the parser is gone already.
CallExhausted ==
  /\ call = "idle"
  /\ parser = "none"
  /\ returned' = "none"
  /\ document' = EmptyDocument
  /\ UNCHANGED <<source, parser, documentCount, call, first, seen, anchors, whole>>

\* next_document is called: fresh locals.  The count is only ever compared
\* with zero, so that it is bounded by one here.
CallNextDocument ==
  /\ call = "idle"
  /\ parser = "open"
  /\ call' = "loading"
  /\ first' = (documentCount = 0)
  /\ documentCount' = 1
  /\ seen' = FALSE
  /\ anchors' = NoNames
  /\ document' = EmptyDocument
  /\ whole' = (source.phase \in {"new", "stream"})
  /\ UNCHANGED <<source, parser, returned>>

\* The call ends with None.
ReturnNone ==
  /\ call' = "idle"
  /\ parser' = "none"
  /\ returned' = "none"

\* The call ends with Some(document).
ReturnDocument ==
  /\ call' = "idle"
  /\ returned' = "some"

\* A mutant of ErrorArm: no error is ever swallowed.
ErrorArmKeepsParser(kind) ==
  /\ ReturnDocument
  /\ document' = [document EXCEPT !.error = kind]
  /\ UNCHANGED <<parser, documentCount, first, seen, anchors, whole>>

\* An error of the parser: swallowed, together with the rest of the stream,
\* when it is the first thing the call gets; else the document carries it.
ErrorArm(kind) ==
  /\ IF seen
       THEN /\ ReturnDocument
            /\ document' = [document EXCEPT !.error = kind]
            /\ UNCHANGED parser
       ELSE /\ ReturnNone
            /\ UNCHANGED document
  /\ UNCHANGED <<documentCount, first, seen, anchors, whole>>

\* Parser::next fails in libyaml, which cannot scan or parse the text or whose
\* read handler failed: libyaml answers every later call with an error too.
ParseError(failure) ==
  /\ call = "loading"
  /\ source' = [source EXCEPT !.failed = IF @ = "no" THEN failure ELSE @]
  /\ ErrorArm("Parse")

\* Parser::next fails in convert_event (an anchor that is too long, a tag or
\* an anchor that is not text): libyaml has moved past the event.
ConvertError(e) ==
  /\ call = "loading"
  /\ source.failed = "no"
  /\ e.type \in NodeTypes \cup {"Alias"}
  /\ source' = SourceAfter(e)
  /\ ErrorArm("Convert")

\* The common part of the arms that get an event.
Take(e) ==
  /\ call = "loading"
  /\ source.failed = "no"
  /\ source' = SourceAfter(e)
  /\ seen' = TRUE
  /\ UNCHANGED <<documentCount, first, whole>>

\* Nothing to do but to read on.
Skip(e) ==
  /\ e.type \in {"StreamStart", "DocumentStart"}
  /\ Take(e)
  /\ UNCHANGED <<parser, call, anchors, document, returned>>

\* The end of the stream is a document only if nothing came before it.
EndStream(e) ==
  /\ e.type = "StreamEnd"
  /\ Take(e)
  /\ IF first
       THEN /\ parser' = "none"
            /\ ReturnDocument
            /\ document' = IF document.events = <<>>
                             THEN [document EXCEPT !.events =
                                     <<[type |-> "Void", anchor |-> NoAnchor, id |-> 0]>>]
                             ELSE document
       ELSE /\ ReturnNone
            /\ UNCHANGED document
  /\ UNCHANGED anchors

EndDocument(e) ==
  /\ e.type = "DocumentEnd"
  /\ Take(e)
  /\ ReturnDocument
  /\ document' = [document EXCEPT !.endMark = TRUE]
  /\ UNCHANGED <<parser, anchors>>

\* An alias to a name of this document.
LoadAlias(e) ==
  /\ e.type = "Alias"
  /\ e.anchor \in DOMAIN anchors
  /\ Take(e)
  /\ document' = [document EXCEPT !.events = Append(@, Event(e, anchors[e.anchor]))]
  /\ UNCHANGED <<parser, call, anchors, returned>>

\* A mutant of UnknownAlias: the error is not recorded.
UnknownAliasUnreported(e) ==
  /\ e.type = "Alias"
  /\ e.anchor \notin DOMAIN anchors
  /\ Take(e)
  /\ ReturnDocument
  /\ UNCHANGED <<parser, anchors, document>>

\* An alias to a name that is not known: the call returns in the middle of
\* libyaml's document.
UnknownAlias(e) ==
  /\ e.type = "Alias"
  /\ e.anchor \notin DOMAIN anchors
  /\ Take(e)
  /\ document' = [document EXCEPT !.error = "UnknownAnchor"]
  /\ ReturnDocument
  /\ UNCHANGED <<parser, anchors>>

\* A mutant of LoadNode: a node without an anchor is registered, too.
LoadNodeAnonymous(e) ==
  /\ e.type \in NodeTypes
  /\ Take(e)
  /\ anchors' = Insert(anchors, e.anchor, AliasId)
  /\ document' = [document EXCEPT !.aliases = Append(@, Len(document.events)),
                                  !.events = Append(@, Event(e, 0))]
  /\ UNCHANGED <<parser, call, returned>>

\* A scalar, or the start of a collection, with or without an anchor.
LoadNode(e) ==
  /\ e.type \in NodeTypes
  /\ Take(e)
  /\ IF e.anchor = NoAnchor
       THEN /\ document' = [document EXCEPT !.events = Append(@, Event(e, 0))]
            /\ UNCHANGED anchors
       ELSE /\ anchors' = Insert(anchors, e.anchor, AliasId)
            /\ document' = [document EXCEPT !.aliases = Append(@, Len(document.events)),
                                            !.events = Append(@, Event(e, 0))]
  /\ UNCHANGED <<parser, call, returned>>

\* A mutant of LoadEnd: the end of a mapping is not pushed.
LoadSequenceEnd(e) ==
  /\ e.type \in {"SequenceEnd", "MappingEnd"}
  /\ Take(e)
  /\ document' = IF e.type = "MappingEnd" THEN document
                 ELSE [document EXCEPT !.events = Append(@, Event(e, 0))]
  /\ UNCHANGED <<parser, call, anchors, returned>>

LoadEnd(e) ==
  /\ e.type \in {"SequenceEnd", "MappingEnd"}
  /\ Take(e)
  /\ document' = [document EXCEPT !.events = Append(@, Event(e, 0))]
  /\ UNCHANGED <<parser, call, anchors, returned>>

\* One iteration of the loop of next_document.
Load ==
  \/ \E failure \in {"scan", "read"} : ParseError(failure)
  \/ \E e \in Offered :
       \/ ConvertError(e)
       \/ Skip(e)
       \/ EndStream(e)
       \/ EndDocument(e)
       \/ LoadAlias(e)
       \/ UnknownAlias(e)
       \/ LoadNode(e)
       \/ LoadEnd(e)

Next ==
  \/ CallExhausted
  \/ CallNextDocument
  \/ Load

Spec == Init /\ [][Next]_vars

-----------------------------------------------------------------------------
(* What is checked.                                                        *)

\* The type invariant of the loader and of the parser it reads from.
TypeOK ==
  /\ source \in Source
  /\ parser \in {"open", "none"}
  /\ documentCount \in Nat
  /\ call \in {"idle", "loading"}
  /\ first \in BOOLEAN
  /\ seen \in BOOLEAN
  /\ DOMAIN anchors \subseteq Anchors
  /\ anchors \in [DOMAIN anchors -> Nat]
  /\ document \in Document
  /\ returned \in {"nothing", "none", "some"}
  /\ whole \in BOOLEAN

Positions == 1 .. Len(document.events)

IsAlias(k) == document.events[k].type = "Alias"

\* The event at position k is a node that defines the name a.
Defines(k, a) ==
  /\ document.events[k].type \in NodeTypes
  /\ document.events[k].anchor = a

\* The position an alias id leads to (DeserializerFromEvents::jump).
Target(id) == document.aliases[id + 1] + 1
TargetOf(k) == Target(document.events[k].id)

\* Every alias id indexes the alias map, and leads to an anchored node that
\* starts before the alias: jump never finds a hole in `aliases` nor a
\* position that is not the start of a node.
AliasesInBounds ==
  \A k \in Positions : IsAlias(k) =>
    /\ document.events[k].id < Len(document.aliases)
    /\ TargetOf(k) < k
    /\ \E a \in Anchors : Defines(TargetOf(k), a)

\* j is the last node before the alias k to define the name k refers to.
LatestDefinition(j, k) ==
  /\ j < k
  /\ Defines(j, document.events[k].anchor)
  /\ \A i \in j + 1 .. k - 1 : ~Defines(i, document.events[k].anchor)

\* Some name is defined twice before position j.
OverriddenBefore(j) ==
  \E a \in Anchors : \E i, i2 \in 1 .. j - 1 :
    i # i2 /\ Defines(i, a) /\ Defines(i2, a)

\* An alias leads to the last definition of its name, as long as no name had
\* been defined twice before that definition: a first override is harmless.
AliasFindsDefinition ==
  \A k \in Positions : IsAlias(k) =>
    \A j \in Positions :
      LatestDefinition(j, k) /\ ~OverriddenBefore(j)
        => TargetOf(k) = j

\* The inductive invariant behind the two.  While a call runs, the names known
\* are those defined so far, and every id is an index of `aliases`...
NamesInBounds ==
  call = "loading" =>
    /\ \A a \in Anchors : a \in DOMAIN anchors <=> \E k \in Positions : Defines(k, a)
    /\ \A a \in DOMAIN anchors : anchors[a] < Len(document.aliases)
    /\ Cardinality(DOMAIN anchors) <= Len(document.aliases)

\* ... which leads to the start of an anchored node.
AliasMapSound ==
  \A i \in 1 .. Len(document.aliases) :
    /\ document.aliases[i] < Len(document.events)
    /\ \E a \in Anchors : Defines(document.aliases[i] + 1, a)

\* As long as no name is defined twice, names and definitions are equally many.
CountsAgree ==
  call = "loading" /\ ~OverriddenBefore(Len(document.events) + 1)
    => Cardinality(DOMAIN anchors) = Len(document.aliases)

\* j is the last definition so far of the name a.
LastSoFar(j, a) ==
  Defines(j, a) /\ \A i \in j + 1 .. Len(document.events) : ~Defines(i, a)

\* The id of a name leads to its last definition, if that was made while no
\* name had been defined twice.
IdsFindDefinition ==
  call = "loading" =>
    \A a \in DOMAIN anchors : \A j \in Positions :
      LastSoFar(j, a) /\ ~OverriddenBefore(j) => Target(anchors[a]) = j

AliasInv ==
  /\ NamesInBounds
  /\ AliasMapSound
  /\ AliasesInBounds
  /\ CountsAgree
  /\ IdsFindDefinition
  /\ AliasFindsDefinition

Starts(k) ==
  { i \in 1 .. k : document.events[i].type \in {"SequenceStart", "MappingStart"} }
Ends(k) ==
  { i \in 1 .. k : document.events[i].type \in {"SequenceEnd", "MappingEnd"} }

\* The events of the document are those of one node, no more and no less.
OneNode ==
  /\ document.events # <<>>
  /\ Cardinality(Starts(Len(document.events))) = Cardinality(Ends(Len(document.events)))
  /\ \A k \in 1 .. Len(document.events) - 1 :
       Cardinality(Ends(k)) < Cardinality(Starts(k))

Returned == call = "idle" /\ returned = "some"

\* A document that a call returns without an error, having begun between two
\* documents, holds exactly one complete node and its end mark; or the single
\* Void of a stream that has no document.
WholeDocuments ==
  Returned /\ document.error = "none" /\ whole
    => \/ OneNode /\ document.endMark
       \/ Len(document.events) = 1 /\ document.events[1].type = "Void" /\ source.docs = 0

\* A call returns in the middle of a YAML document only with an error: after a
\* document without one, the next call starts at a document's beginning.
ErrorFreeEndsAtBoundary ==
  Returned /\ document.error = "none" => source.phase \in {"stream", "ended"}

\* The inductive invariant behind the two.  Nothing is known of the stream
\* before its first event; a running call has neither failed nor ended...
CallFresh ==
  /\ source.phase # "root" => source.open = <<>>
  /\ source.phase = "new" => source.docs = 0
  /\ documentCount = 0 => source.phase = "new" /\ call = "idle"
  /\ call = "loading" /\ first /\ source.phase \in {"new", "stream"}
       => source.docs = 0
  /\ call = "loading" => document.error = "none"

\* ... and, having begun between two documents, has collected what libyaml's
\* stack says: nothing before the root, as many starts without an end as there
\* are open collections within it, and one node after it.
EventsFollowStack ==
  call = "loading" /\ whole =>
    /\ source.phase \in {"new", "stream"} => document.events = <<>>
    /\ source.phase = "root" =>
         /\ Cardinality(Starts(Len(document.events)))
              = Cardinality(Ends(Len(document.events))) + Len(source.open)
         /\ source.open = <<>> => document.events = <<>>
         /\ \A k \in Positions : Cardinality(Ends(k)) < Cardinality(Starts(k))
    /\ source.phase = "close" => OneNode

DocumentInv ==
  /\ CallFresh
  /\ EventsFollowStack
  /\ WholeDocuments
  /\ ErrorFreeEndsAtBoundary
=============================================================================
