---------------------------- MODULE LoaderProofs ----------------------------
(***************************************************************************)
(* Proofs about Loader, for every set of anchor names and every length of  *)
(* stream: its types, its alias map, and the documents it cuts the stream  *)
(* into.                                                                   *)
(***************************************************************************)
EXTENDS Loader, FiniteSetTheorems, TLAPS

-----------------------------------------------------------------------------
(* Type correctness.                                                       *)

\* libyaml's stack keeps its type when the node on top of it is completed.
LEMMA CompletedType ==
  ASSUME NEW stack \in Seq({"seq", "key", "value"})
  PROVE  Completed(stack) \in Seq({"seq", "key", "value"})
BY DEF Completed

\* Popping a nonempty stack leaves a stack.
LEMMA PopType ==
  ASSUME NEW stack \in Seq({"seq", "key", "value"}), stack # <<>>
  PROVE  SubSeq(stack, 1, Len(stack) - 1) \in Seq({"seq", "key", "value"})
OBVIOUS

\* Reading an event that is on offer leaves libyaml in one of its states.
LEMMA SourceAfterType ==
  ASSUME source \in Source, NEW e \in Offered
  PROVE  SourceAfter(e) \in Source
<1>1. e \in YamlEvents
  BY DEF Offered
<1>2. ASSUME NEW stack \in Seq({"seq", "key", "value"})
      PROVE  Close(stack) \in Source
  <2>1. Completed(stack) \in Seq({"seq", "key", "value"})
    BY CompletedType
  <2>2. (IF source.nodes < MaxNodes THEN source.nodes + 1 ELSE source.nodes) \in Nat
    BY DEF Source
  <2> QED
    BY <2>1, <2>2 DEF Close, Source, Phases
<1>3. CASE e.type \in {"SequenceEnd", "MappingEnd"}
  <2>1. Top(source.open) \in {"seq", "key"}
    BY <1>3, ConstantsAssumption DEF Offered
  <2>2. source.open # <<>>
    BY <2>1 DEF Top
  <2>3. SubSeq(source.open, 1, Len(source.open) - 1) \in Seq({"seq", "key", "value"})
    BY <2>2, PopType DEF Source
  <2>4. Close(SubSeq(source.open, 1, Len(source.open) - 1)) \in Source
    BY <1>2, <2>3
  <2>5. SourceAfter(e) = [Close(SubSeq(source.open, 1, Len(source.open) - 1))
                            EXCEPT !.nodes = source.nodes]
    BY <1>3 DEF SourceAfter
  <2> QED
    BY <2>4, <2>5 DEF Source
<1>4. CASE e.type \in {"StreamStart", "StreamEnd", "DocumentEnd"}
  BY <1>4 DEF SourceAfter, Source, Phases
<1>5. CASE e.type = "DocumentStart"
  <2>1. SourceAfter(e) = [source EXCEPT !.phase = "root", !.docs = @ + 1]
    BY <1>5 DEF SourceAfter
  <2>2. source.docs + 1 \in Nat
    BY DEF Source
  <2> QED
    BY <2>1, <2>2 DEF Source, Phases
<1>6. CASE e.type \in {"SequenceStart", "MappingStart"}
  <2>1. PICK top \in {"seq", "key"} :
          SourceAfter(e) = [source EXCEPT !.open = Append(@, top), !.nodes = @ + 1]
    BY <1>6 DEF SourceAfter
  <2>2. Append(source.open, top) \in Seq({"seq", "key", "value"})
    BY DEF Source
  <2>3. source.nodes + 1 \in Nat
    BY DEF Source
  <2> QED
    BY <2>1, <2>2, <2>3 DEF Source
<1>7. CASE e.type \in {"Scalar", "Alias"}
  <2>1. SourceAfter(e) = Close(source.open)
    BY <1>7 DEF SourceAfter
  <2> QED
    BY <1>2, <2>1 DEF Source
<1> QED
  BY <1>1, <1>3, <1>4, <1>5, <1>6, <1>7 DEF YamlEvents, NodeTypes

\* TypeOK with the fact that makes the ids numbers: the map of names is finite.
TypeInv == TypeOK /\ IsFiniteSet(DOMAIN anchors)

\* An event of libyaml becomes an event of the document.
LEMMA EventType ==
  ASSUME NEW e \in YamlEvents, NEW id \in Nat,
         e.type \in NodeTypes \cup {"Alias", "SequenceEnd", "MappingEnd"}
  PROVE  Event(e, id) \in Events
BY DEF Event, Events, YamlEvents, NodeEvents, NodeTypes, OptAnchor

\* Cardinality of the map of names: a number, and one more exactly for a new
\* name.
LEMMA NamesGrow ==
  ASSUME NEW map, NEW a, IsFiniteSet(DOMAIN map)
  PROVE  /\ Cardinality(DOMAIN map) \in Nat
         /\ Cardinality(DOMAIN map \cup {a}) =
              IF a \in DOMAIN map THEN Cardinality(DOMAIN map)
                                  ELSE Cardinality(DOMAIN map) + 1
BY FS_CardinalityType, FS_AddElement

\* A node with an anchor, spelled out.
LEMMA LoadAnchored ==
  ASSUME TypeInv, NEW e \in Offered, LoadNode(e), e.anchor # NoAnchor
  PROVE  /\ e.anchor \in Anchors
         /\ AliasId \in Nat
         /\ Event(e, 0) \in Events
         /\ document' = [document EXCEPT
                           !.aliases = Append(document.aliases, Len(document.events)),
                           !.events = Append(document.events, Event(e, 0))]
         /\ anchors' = Insert(anchors, e.anchor, AliasId)
         /\ DOMAIN anchors' = DOMAIN anchors \cup {e.anchor}
         /\ anchors'[e.anchor] = AliasId
         /\ \A n \in DOMAIN anchors \ {e.anchor} : anchors'[n] = anchors[n]
         /\ anchors' \in [DOMAIN anchors' -> Nat]
         /\ IsFiniteSet(DOMAIN anchors')
<1>1. e \in YamlEvents /\ e.type \in NodeTypes
  BY DEF Offered, LoadNode
<1>2. e.anchor \in Anchors
  BY <1>1 DEF YamlEvents, OptAnchor, NodeTypes
<1>3. AliasId \in Nat
  BY NamesGrow DEF AliasId, TypeInv
<1>4. Event(e, 0) \in Events
  BY <1>1, EventType
<1>5. anchors' = Insert(anchors, e.anchor, AliasId)
  BY DEF LoadNode
<1>6. document' = [document EXCEPT
                     !.aliases = Append(document.aliases, Len(document.events)),
                     !.events = Append(document.events, Event(e, 0))]
  BY DEF LoadNode
<1>7. /\ DOMAIN Insert(anchors, e.anchor, AliasId) = DOMAIN anchors \cup {e.anchor}
      /\ Insert(anchors, e.anchor, AliasId) \in [DOMAIN anchors \cup {e.anchor} -> Nat]
      /\ Insert(anchors, e.anchor, AliasId)[e.anchor] = AliasId
      /\ \A n \in DOMAIN anchors \ {e.anchor} :
           Insert(anchors, e.anchor, AliasId)[n] = anchors[n]
      /\ IsFiniteSet(DOMAIN anchors \cup {e.anchor})
  <2>1. IsFiniteSet(DOMAIN anchors) /\ anchors \in [DOMAIN anchors -> Nat]
    BY DEF TypeInv, TypeOK
  <2>2. IsFiniteSet(DOMAIN anchors \cup {e.anchor})
    BY <2>1, FS_AddElement
  <2> QED
    BY ONLY <1>3, <2>1, <2>2 DEF Insert
<1> QED
  BY <1>2, <1>3, <1>4, <1>5, <1>6, <1>7

LEMMA TypeInit == Init => TypeInv
<1> SUFFICES ASSUME Init PROVE TypeInv
  OBVIOUS
<1>1. source \in Source
  BY DEF Init, Source, Phases, Failures
<1>2. document \in Document
  BY DEF Init, Document, EmptyDocument
<1>3. DOMAIN anchors = {} /\ IsFiniteSet({})
  BY FS_EmptySet DEF Init, NoNames
<1>4. anchors \in [DOMAIN anchors -> Nat]
  BY DEF Init, NoNames
<1> QED
  BY <1>1, <1>2, <1>3, <1>4 DEF Init, TypeInv, TypeOK

LEMMA TypeStep == TypeInv /\ [Next]_vars => TypeInv'
<1> SUFFICES ASSUME TypeInv, [Next]_vars PROVE TypeInv'
  OBVIOUS
<1> USE DEF TypeInv, TypeOK
<1>0. EmptyDocument \in Document
  BY DEF EmptyDocument, Document
<1>1. CASE CallExhausted
  BY <1>0, <1>1 DEF CallExhausted
<1>2. CASE CallNextDocument
  <2>1. DOMAIN NoNames = {} /\ NoNames \in [DOMAIN NoNames -> Nat] /\ IsFiniteSet({})
    BY FS_EmptySet DEF NoNames
  <2> QED
    <3>1. anchors' = NoNames /\ document' = EmptyDocument
      BY <1>2 DEF CallNextDocument
    <3>4. DOMAIN anchors' = {}
      BY <2>1, <3>1
    <3>5. anchors' \in [DOMAIN anchors' -> Nat]
      BY <2>1, <3>1, Zenon
    <3>6. IsFiniteSet(DOMAIN anchors')
      BY <2>1, <3>4, Zenon
    <3>2. /\ DOMAIN anchors' \subseteq Anchors
          /\ anchors' \in [DOMAIN anchors' -> Nat]
          /\ IsFiniteSet(DOMAIN anchors')
      BY <3>4, <3>5, <3>6
    <3>3. first' \in BOOLEAN
      <4>1. first' = (documentCount = 0)
        BY <1>2 DEF CallNextDocument
      <4> QED
        BY <4>1, Zenon
    <3>7. whole' \in BOOLEAN
      <4>1. whole' = (source.phase \in {"new", "stream"})
        BY <1>2, Zenon DEF CallNextDocument
      <4> DEFINE between == source.phase \in {"new", "stream"}
      <4>3. between \in BOOLEAN
        OBVIOUS
      <4> HIDE DEF between
      <4>4. whole' = between
        BY <4>1 DEF between
      <4> QED
        BY <4>3, <4>4
    <3>8. documentCount' \in Nat /\ seen' \in BOOLEAN /\ call' \in {"idle", "loading"}
      <4>1. documentCount' = 1
        BY <1>2, Zenon DEF CallNextDocument
      <4>2. documentCount' \in Nat
        BY <4>1
      <4>3. seen' \in BOOLEAN /\ call' \in {"idle", "loading"}
        BY <1>2, Zenon DEF CallNextDocument
      <4> QED
        BY <4>2, <4>3
    <3>9. UNCHANGED <<source, parser, returned>>
      BY <1>2 DEF CallNextDocument
    <3> QED
      BY <1>0, <3>1, <3>2, <3>3, <3>7, <3>8, <3>9
<1>3. ASSUME NEW kind \in {"Parse", "Convert"}, ErrorArm(kind), source' \in Source
      PROVE  TypeInv'
  <2>1. [document EXCEPT !.error = kind] \in Document
    BY DEF Document
  <2> QED
    BY <1>3, <2>1 DEF ErrorArm, ReturnDocument, ReturnNone
<1>4. ASSUME NEW failure \in {"scan", "read"}, ParseError(failure)
      PROVE  TypeInv'
  <2>1. source' \in Source
    BY <1>4 DEF ParseError, Source, Failures
  <2> QED
    BY <1>3, <1>4, <2>1 DEF ParseError
<1>5. ASSUME NEW e \in Offered, ConvertError(e)
      PROVE  TypeInv'
  <2>1. source' \in Source
    BY <1>5, SourceAfterType DEF ConvertError
  <2> QED
    BY <1>3, <1>5, <2>1 DEF ConvertError
<1>6. ASSUME NEW e \in Offered, Take(e)
      PROVE  /\ e \in YamlEvents
             /\ source' \in Source
             /\ seen' \in BOOLEAN
             /\ UNCHANGED <<documentCount, first, whole>>
  BY <1>6, SourceAfterType DEF Take, Offered
<1>7. ASSUME NEW e \in Offered, Skip(e)
      PROVE  TypeInv'
  BY <1>6, <1>7 DEF Skip
<1>8. ASSUME NEW e \in Offered, EndStream(e)
      PROVE  TypeInv'
  <2>1. [type |-> "Void", anchor |-> NoAnchor, id |-> 0] \in Events
    BY DEF Events, NodeEvents, OptAnchor
  <2> DEFINE void == [type |-> "Void", anchor |-> NoAnchor, id |-> 0]
  <2>6. <<void>> \in Seq(Events)
    BY <2>1
  <2>2. [document EXCEPT !.events = <<[type |-> "Void", anchor |-> NoAnchor, id |-> 0]>>]
          \in Document
    BY <2>6 DEF Document
  <2>3. document' \in Document
    BY <1>8, <2>2 DEF EndStream
  <2>4. parser' \in {"open", "none"} /\ call' = "idle" /\ returned' \in {"some", "none"}
    BY <1>8 DEF EndStream, ReturnDocument, ReturnNone
  <2> QED
    BY <1>6, <1>8, <2>3, <2>4 DEF EndStream
<1>9. ASSUME NEW e \in Offered, EndDocument(e)
      PROVE  TypeInv'
  <2>1. [document EXCEPT !.endMark = TRUE] \in Document
    BY DEF Document
  <2> QED
    BY <1>6, <1>9, <2>1 DEF EndDocument, ReturnDocument
<1>10. ASSUME NEW ev \in Events
       PROVE  [document EXCEPT !.events = Append(document.events, ev)] \in Document
  <2>1. document.events \in Seq(Events)
    BY DEF Document
  <2>2. Append(document.events, ev) \in Seq(Events)
    BY <2>1
  <2> QED
    BY <2>2 DEF Document
<1>11. ASSUME NEW e \in Offered, LoadAlias(e)
       PROVE  TypeInv'
  <2>1. e \in YamlEvents /\ e.type = "Alias" /\ anchors[e.anchor] \in Nat
    BY <1>11 DEF LoadAlias, Offered
  <2>2. Event(e, anchors[e.anchor]) \in Events
    BY <2>1, EventType
  <2> QED
    BY <1>6, <1>10, <1>11, <2>2 DEF LoadAlias
<1>12. ASSUME NEW e \in Offered, UnknownAlias(e)
       PROVE  TypeInv'
  <2>1. [document EXCEPT !.error = "UnknownAnchor"] \in Document
    BY DEF Document
  <2> QED
    BY <1>6, <1>12, <2>1 DEF UnknownAlias, ReturnDocument
<1>13. ASSUME NEW e \in Offered, LoadNode(e)
       PROVE  TypeInv'
  <2>1. CASE e.anchor = NoAnchor
    <3>1. e \in YamlEvents /\ e.type \in NodeTypes
      BY <1>13 DEF LoadNode, Offered
    <3>2. Event(e, 0) \in Events
      BY <3>1, EventType
    <3> QED
      BY <1>6, <1>10, <1>13, <2>1, <3>2 DEF LoadNode
  <2>2. CASE e.anchor # NoAnchor
    <3>1. document' \in Document
      <4>0. document.aliases \in Seq(Nat) /\ document.events \in Seq(Events)
        BY DEF Document
      <4>1. Append(document.aliases, Len(document.events)) \in Seq(Nat)
        BY <4>0
      <4>4. Event(e, 0) \in Events
        BY <1>13, <2>2, LoadAnchored
      <4>2. Append(document.events, Event(e, 0)) \in Seq(Events)
        BY <4>0, <4>4
      <4>3. document' = [document EXCEPT
                           !.aliases = Append(document.aliases, Len(document.events)),
                           !.events = Append(document.events, Event(e, 0))]
        BY <1>13, <2>2, LoadAnchored
      <4> QED
        BY <4>1, <4>2, <4>3 DEF Document
    <3>2. /\ DOMAIN anchors' \subseteq Anchors
          /\ anchors' \in [DOMAIN anchors' -> Nat]
          /\ IsFiniteSet(DOMAIN anchors')
      BY <1>13, <2>2, LoadAnchored
    <3> QED
      BY <1>6, <1>13, <3>1, <3>2 DEF LoadNode
  <2> QED
    BY <2>1, <2>2
<1>14. ASSUME NEW e \in Offered, LoadEnd(e)
       PROVE  TypeInv'
  <2>1. e \in YamlEvents /\ e.type \in {"SequenceEnd", "MappingEnd"}
    BY <1>14 DEF LoadEnd, Offered
  <2>2. Event(e, 0) \in Events
    BY <2>1, EventType
  <2> QED
    BY <1>6, <1>10, <1>14, <2>2 DEF LoadEnd
<1>15. CASE UNCHANGED vars
  BY <1>15 DEF vars, locals
<1> QED
  BY <1>1, <1>2, <1>4, <1>5, <1>7, <1>8, <1>9, <1>11, <1>12, <1>13, <1>14, <1>15
     DEF Next, Load

\* The loader and the parser it reads from keep their types (src/loader.rs).
THEOREM TypeCorrect == Spec => []TypeOK
<1>1. Init => TypeInv
  BY TypeInit
<1>2. TypeInv /\ [Next]_vars => TypeInv'
  BY TypeStep
<1>3. TypeInv => TypeOK
  BY DEF TypeInv
<1> QED
  BY <1>1, <1>2, <1>3, PTL DEF Spec

-----------------------------------------------------------------------------
(* The alias map: every alias id leads to an anchored node before the      *)
(* alias, and to the right one as long as at most one override of a name   *)
(* has happened.  A step changes the document in one of four ways, with    *)
(* one lemma each; the theorem puts them together.                         *)

\* The types the arguments below need.
LEMMA DocumentTypes ==
  ASSUME TypeInv
  PROVE  /\ document.events \in Seq(Events)
         /\ document.aliases \in Seq(Nat)
         /\ Len(document.events) \in Nat
         /\ Len(document.aliases) \in Nat
         /\ \A k \in Positions : document.events[k] \in Events
         /\ \A i \in 1 .. Len(document.aliases) : document.aliases[i] \in Nat
BY DEF TypeInv, TypeOK, Document, Positions

\* Nothing that AliasInv speaks of has changed, but perhaps the call is over.
LEMMA SameDocument ==
  ASSUME AliasInv,
         document'.events = document.events,
         document'.aliases = document.aliases,
         anchors' = anchors,
         call' = call \/ call' = "idle"
  PROVE  AliasInv'
<1>1. Positions' = Positions
  BY DEF Positions
<1>2. \A k, a : Defines(k, a)' <=> Defines(k, a)
  BY DEF Defines
<1>3. \A j : OverriddenBefore(j)' <=> OverriddenBefore(j)
  BY <1>2 DEF OverriddenBefore
<1>4. \A j, a : LastSoFar(j, a)' <=> LastSoFar(j, a)
  BY <1>2 DEF LastSoFar
<1>5. \A j, k : LatestDefinition(j, k)' <=> LatestDefinition(j, k)
  BY <1>2 DEF LatestDefinition
<1>6. /\ \A id : Target(id)' = Target(id)
      /\ \A k : TargetOf(k)' = TargetOf(k)
  BY DEF Target, TargetOf
<1>7. \A k : IsAlias(k)' <=> IsAlias(k)
  BY DEF IsAlias
<1>8. NamesInBounds'
  BY <1>1, <1>2 DEF AliasInv, NamesInBounds
<1>9. AliasMapSound'
  BY <1>2 DEF AliasInv, AliasMapSound
<1>10. AliasesInBounds'
  BY <1>1, <1>2, <1>6, <1>7 DEF AliasInv, AliasesInBounds
<1>11. CountsAgree'
  BY <1>3 DEF AliasInv, CountsAgree
<1>12. IdsFindDefinition'
  BY <1>1, <1>3, <1>4, <1>6 DEF AliasInv, IdsFindDefinition
<1>13. AliasFindsDefinition'
  BY <1>1, <1>3, <1>5, <1>6, <1>7 DEF AliasInv, AliasFindsDefinition
<1> QED
  BY <1>8, <1>9, <1>10, <1>11, <1>12, <1>13 DEF AliasInv

\* The document is empty, and no name is known or no call is running.
LEMMA FreshDocument ==
  document = EmptyDocument /\ (call = "idle" \/ anchors = NoNames) => AliasInv
<1> SUFFICES ASSUME document = EmptyDocument, call = "idle" \/ anchors = NoNames
             PROVE  AliasInv
  OBVIOUS
<1>1. Positions = {} /\ Len(document.events) = 0 /\ Len(document.aliases) = 0
  BY DEF Positions, EmptyDocument
<1>2. DOMAIN NoNames = {} /\ Cardinality({}) = 0
  BY FS_EmptySet DEF NoNames
<1>3. AliasMapSound
  BY <1>1 DEF AliasMapSound
<1>4. AliasesInBounds /\ AliasFindsDefinition
  BY <1>1 DEF AliasesInBounds, AliasFindsDefinition
<1>5. NamesInBounds
  BY <1>1, <1>2 DEF NamesInBounds
<1>6. CountsAgree
  BY <1>1, <1>2 DEF CountsAgree
<1>7. IdsFindDefinition
  BY <1>1, <1>2 DEF IdsFindDefinition
<1> QED
  BY <1>3, <1>4, <1>5, <1>6, <1>7 DEF AliasInv

\* An event is appended: what was said of the earlier ones still holds.
LEMMA Appended ==
  ASSUME TypeInv, NEW ev \in Events, NEW n, n = Len(document.events),
         document'.events = Append(document.events, ev)
  PROVE  /\ n \in Nat
         /\ Len(document'.events) = n + 1
         /\ Positions = 1 .. n
         /\ Positions' = 1 .. n + 1
         /\ document'.events[n + 1] = ev
         /\ \A k \in 1 .. n : document'.events[k] = document.events[k]
         /\ \A k \in 1 .. n : \A a : Defines(k, a)' <=> Defines(k, a)
         /\ \A a : Defines(n + 1, a)' <=> ev.type \in NodeTypes /\ ev.anchor = a
         /\ \A j \in 1 .. n + 1 : OverriddenBefore(j)' <=> OverriddenBefore(j)
         /\ \A j \in Positions : \A k \in Positions :
              LatestDefinition(j, k)' <=> LatestDefinition(j, k)
<1>1. n \in Nat /\ document.events \in Seq(Events)
  BY DocumentTypes
<1>2. /\ Len(document'.events) = n + 1
      /\ document'.events[n + 1] = ev
      /\ \A k \in 1 .. n : document'.events[k] = document.events[k]
  BY <1>1
<1>3. Positions = 1 .. n /\ Positions' = 1 .. n + 1
  BY <1>2 DEF Positions
<1>4. \A k \in 1 .. n : \A a : Defines(k, a)' <=> Defines(k, a)
  BY <1>2 DEF Defines
<1>5. \A a : Defines(n + 1, a)' <=> ev.type \in NodeTypes /\ ev.anchor = a
  BY <1>2 DEF Defines
<1>6. ASSUME NEW j \in 1 .. n + 1
      PROVE  OverriddenBefore(j)' <=> OverriddenBefore(j)
  <2>1. 1 .. j - 1 \subseteq 1 .. n
    BY <1>1
  <2> QED
    BY <1>4, <2>1 DEF OverriddenBefore
<1>7. ASSUME NEW j \in Positions, NEW k \in Positions
      PROVE  LatestDefinition(j, k)' <=> LatestDefinition(j, k)
  <2>1. j + 1 .. k - 1 \subseteq 1 .. n
    BY <1>1, <1>3
  <2>2. document'.events[k] = document.events[k] /\ j \in 1 .. n
    BY <1>2, <1>3
  <2> QED
    BY <1>4, <2>1, <2>2 DEF LatestDefinition
<1> QED
  BY <1>1, <1>2, <1>3, <1>4, <1>5, <1>6, <1>7

\* An event that defines no name is appended; an alias leads where AliasInv
\* says.
LEMMA AppendedPlain ==
  ASSUME TypeInv, AliasInv, NEW ev \in Events,
         NEW n, n = Len(document.events), NEW m, m = Len(document.aliases),
         document'.events = Append(document.events, ev),
         document'.aliases = document.aliases,
         anchors' = anchors,
         call' = call \/ call' = "idle",
         ev.type \notin NodeTypes \/ ev.anchor \notin Anchors,
         ev.type = "Alias" =>
           /\ call = "loading"
           /\ ev.anchor \in DOMAIN anchors
           /\ ev.id = anchors[ev.anchor]
  PROVE  AliasInv'
<1>1. /\ n \in Nat
      /\ Len(document'.events) = n + 1
      /\ Positions = 1 .. n
      /\ Positions' = 1 .. n + 1
      /\ document'.events[n + 1] = ev
      /\ \A k \in 1 .. n : document'.events[k] = document.events[k]
      /\ \A k \in 1 .. n : \A a : Defines(k, a)' <=> Defines(k, a)
      /\ \A a : Defines(n + 1, a)' <=> ev.type \in NodeTypes /\ ev.anchor = a
      /\ \A j \in 1 .. n + 1 : OverriddenBefore(j)' <=> OverriddenBefore(j)
      /\ \A j \in Positions : \A k \in Positions :
           LatestDefinition(j, k)' <=> LatestDefinition(j, k)
  BY Appended
<1>2. \A a \in Anchors : ~Defines(n + 1, a)'
  BY <1>1
<1>3. /\ \A id : Target(id)' = Target(id)
      /\ \A k \in 1 .. n : TargetOf(k)' = TargetOf(k)
      /\ TargetOf(n + 1)' = Target(ev.id)
  BY <1>1 DEF Target, TargetOf
<1>4. /\ m \in Nat
      /\ \A i \in 1 .. m : document.aliases[i] \in Nat /\ document.aliases[i] + 1 \in 1 .. n
      /\ \A i \in 1 .. m : \E a \in Anchors : Defines(document.aliases[i] + 1, a)
  <2>1. m \in Nat /\ \A i \in 1 .. m : document.aliases[i] \in Nat
    BY DocumentTypes
  <2>2. AliasMapSound
    BY DEF AliasInv
  <2>3. \A i \in 1 .. m : document.aliases[i] < n
    BY <2>2 DEF AliasMapSound
  <2> QED
    BY <1>1, <2>1, <2>2, <2>3 DEF AliasMapSound
<1>5. DOMAIN anchors \subseteq Anchors /\ anchors \in [DOMAIN anchors -> Nat]
  BY DEF TypeInv, TypeOK
<1>6. NamesInBounds'
  <2>1. \A a \in Anchors : (\E k \in Positions : Defines(k, a))'
                             <=> \E k \in Positions : Defines(k, a)
    BY <1>1, <1>2
  <2> QED
    BY <2>1 DEF AliasInv, NamesInBounds
<1>7. AliasMapSound'
  BY <1>1, <1>4 DEF AliasMapSound
<1>8. AliasesInBounds'
  <2>1. ASSUME NEW k \in 1 .. n, IsAlias(k)'
        PROVE  /\ document'.events[k].id < m
               /\ TargetOf(k)' < k
               /\ \E a \in Anchors : Defines(TargetOf(k), a)'
    <3>1. IsAlias(k) /\ k \in Positions
      BY <1>1, <2>1 DEF IsAlias
    <3>2. /\ document.events[k].id < m
          /\ TargetOf(k) < k
          /\ \E a \in Anchors : Defines(TargetOf(k), a)
      BY <3>1 DEF AliasInv, AliasesInBounds
    <3>3. document.events[k].id + 1 \in 1 .. m
      <4>1. document.events[k] \in Events
        BY <3>1, DocumentTypes
      <4>2. document.events[k].id \in Nat
        BY <4>1 DEF Events
      <4> QED
        BY <1>4, <3>2, <4>2
    <3>4. TargetOf(k) \in 1 .. n
      BY <1>4, <3>3 DEF Target, TargetOf
    <3> QED
      BY <1>1, <1>3, <3>2, <3>4 DEF Defines
  <2>2. ASSUME IsAlias(n + 1)'
        PROVE  /\ document'.events[n + 1].id < m
               /\ TargetOf(n + 1)' < n + 1
               /\ \E a \in Anchors : Defines(TargetOf(n + 1), a)'
    <3>1. ev.type = "Alias"
      BY <1>1, <2>2 DEF IsAlias
    <3>2. ev.id \in Nat /\ ev.id < m
      BY <1>5, <3>1 DEF AliasInv, NamesInBounds
    <3>3. ev.id + 1 \in 1 .. m
      BY <1>4, <3>2
    <3>4. Target(ev.id) \in 1 .. n /\ \E a \in Anchors : Defines(Target(ev.id), a)
      BY <1>4, <3>3 DEF Target
    <3> QED
      BY <1>1, <1>3, <3>2, <3>4 DEF Defines
  <2> QED
    BY <1>1, <2>1, <2>2 DEF AliasesInBounds
<1>9. CountsAgree'
  <2>1. OverriddenBefore(n + 1) => OverriddenBefore(n + 2)'
    BY <1>1 DEF OverriddenBefore
  <2> QED
    BY <1>1, <2>1 DEF AliasInv, CountsAgree
<1>10. IdsFindDefinition'
  <2>1. ASSUME NEW a \in DOMAIN anchors, NEW j \in 1 .. n + 1, LastSoFar(j, a)'
        PROVE  j \in 1 .. n /\ LastSoFar(j, a)
    <3>1. j # n + 1
      BY <1>2, <1>5, <2>1 DEF LastSoFar
    <3> QED
      BY <1>1, <2>1, <3>1 DEF LastSoFar
  <2> QED
    BY <1>1, <1>3, <2>1 DEF AliasInv, IdsFindDefinition
<1>11. AliasFindsDefinition'
  <2>1. ASSUME NEW k \in 1 .. n, IsAlias(k)', NEW j \in 1 .. n + 1,
               LatestDefinition(j, k)', ~OverriddenBefore(j)'
        PROVE  TargetOf(k)' = j
    <3>1. j \in 1 .. n /\ k \in Positions /\ IsAlias(k)
      BY <1>1, <2>1 DEF IsAlias, LatestDefinition
    <3> QED
      BY <1>1, <1>3, <2>1, <3>1 DEF AliasInv, AliasFindsDefinition
  <2>2. ASSUME IsAlias(n + 1)', NEW j \in 1 .. n + 1,
               LatestDefinition(j, n + 1)', ~OverriddenBefore(j)'
        PROVE  TargetOf(n + 1)' = j
    <3>1. /\ ev.type = "Alias"
          /\ call = "loading"
          /\ ev.anchor \in DOMAIN anchors
          /\ ev.id = anchors[ev.anchor]
      BY <1>1, <2>2 DEF IsAlias
    <3>2. j \in 1 .. n /\ LastSoFar(j, ev.anchor)
      BY <1>1, <2>2 DEF LatestDefinition, LastSoFar
    <3>3. Target(anchors[ev.anchor]) = j
      BY <1>1, <2>2, <3>1, <3>2 DEF AliasInv, IdsFindDefinition
    <3> QED
      BY <1>1, <1>3, <3>1, <3>3
  <2> QED
    BY <1>1, <2>1, <2>2 DEF AliasFindsDefinition
<1> QED
  BY <1>6, <1>7, <1>8, <1>9, <1>10, <1>11 DEF AliasInv

\* A node with an anchor is appended: its name gets the number of names as id,
\* which is the node's index among the definitions as long as names and
\* definitions are equally many.
LEMMA AppendedAnchored ==
  ASSUME TypeInv, AliasInv, NEW e \in Offered, LoadNode(e), e.anchor # NoAnchor,
         NEW n, n = Len(document.events), NEW m, m = Len(document.aliases)
  PROVE  AliasInv'
<1> DEFINE ev == Event(e, 0)
<1> DEFINE c == Cardinality(DOMAIN anchors)
<1>1. /\ e.anchor \in Anchors
      /\ ev \in Events
      /\ document' = [document EXCEPT !.aliases = Append(document.aliases, n),
                                      !.events = Append(document.events, ev)]
      /\ DOMAIN anchors' = DOMAIN anchors \cup {e.anchor}
      /\ anchors'[e.anchor] = c
      /\ \A a \in DOMAIN anchors \ {e.anchor} : anchors'[a] = anchors[a]
      /\ c \in Nat
  BY LoadAnchored DEF AliasId
<1>2. call = "loading" /\ call' = "loading" /\ e.type \in NodeTypes
  BY DEF LoadNode, Take
<1>3. ev.type \in NodeTypes /\ ev.anchor = e.anchor /\ ev.type # "Alias"
  BY <1>2 DEF Event, NodeTypes
<1>4. /\ document \in Document
      /\ document'.events = Append(document.events, ev)
      /\ document'.aliases = Append(document.aliases, n)
  BY <1>1 DEF TypeInv, TypeOK, Document
<1> HIDE DEF ev
<1>5. /\ n \in Nat
      /\ Len(document'.events) = n + 1
      /\ Positions = 1 .. n
      /\ Positions' = 1 .. n + 1
      /\ document'.events[n + 1] = ev
      /\ \A k \in 1 .. n : document'.events[k] = document.events[k]
      /\ \A k \in 1 .. n : \A a : Defines(k, a)' <=> Defines(k, a)
      /\ \A a : Defines(n + 1, a)' <=> ev.type \in NodeTypes /\ ev.anchor = a
      /\ \A j \in 1 .. n + 1 : OverriddenBefore(j)' <=> OverriddenBefore(j)
      /\ \A j \in Positions : \A k \in Positions :
           LatestDefinition(j, k)' <=> LatestDefinition(j, k)
  BY <1>1, <1>4, Appended
<1>6. \A a : Defines(n + 1, a)' <=> e.anchor = a
  BY <1>3, <1>5
<1>7. /\ m \in Nat
      /\ Len(document'.aliases) = m + 1
      /\ \A i \in 1 .. m : document'.aliases[i] = document.aliases[i]
      /\ document'.aliases[m + 1] = n
      /\ \A i \in 1 .. m : document.aliases[i] \in Nat
  BY <1>4, <1>5, DocumentTypes
<1>8. AliasMapSound
  BY DEF AliasInv
<1>9. /\ \A i \in 1 .. m : document.aliases[i] + 1 \in 1 .. n
      /\ \A i \in 1 .. m : \E a \in Anchors : Defines(document.aliases[i] + 1, a)
  BY <1>5, <1>7, <1>8 DEF AliasMapSound
<1>10. IsFiniteSet(DOMAIN anchors) /\ DOMAIN anchors \subseteq Anchors
       /\ anchors \in [DOMAIN anchors -> Nat]
  BY DEF TypeInv, TypeOK
<1>11. Cardinality(DOMAIN anchors') = IF e.anchor \in DOMAIN anchors THEN c ELSE c + 1
  BY <1>1, <1>10, NamesGrow
<1> HIDE DEF c
<1>12. /\ \A a \in Anchors : a \in DOMAIN anchors <=> \E k \in Positions : Defines(k, a)
       /\ \A a \in DOMAIN anchors : anchors[a] < m
       /\ c <= m
  BY <1>2 DEF AliasInv, NamesInBounds, c
<1>13. \A id \in 0 .. m - 1 : Target(id)' = Target(id) /\ Target(id) \in 1 .. n
  BY <1>5, <1>7, <1>9 DEF Target
<1>14. ~OverriddenBefore(n + 1) => c = m
  BY <1>2 DEF AliasInv, CountsAgree, c
<1>15. ASSUME NEW k \in Positions', IsAlias(k)'
       PROVE  /\ k \in Positions
              /\ IsAlias(k)
              /\ document'.events[k] = document.events[k]
              /\ document.events[k].id \in 0 .. m - 1
              /\ TargetOf(k)' = TargetOf(k)
              /\ TargetOf(k) \in 1 .. n
  <2>1. k # n + 1
    BY <1>3, <1>5, <1>15 DEF IsAlias
  <2>2. k \in Positions /\ IsAlias(k) /\ document'.events[k] = document.events[k]
    BY <1>5, <1>15, <2>1 DEF IsAlias
  <2>3. document.events[k].id < m /\ document.events[k].id \in Nat
    BY <2>2, DocumentTypes DEF AliasInv, AliasesInBounds, Events
  <2>4. document.events[k].id \in 0 .. m - 1 /\ document.events[k].id + 1 \in 1 .. m
    BY <1>7, <2>3
  <2>5. TargetOf(k)' = TargetOf(k)
    BY <1>13, <2>2, <2>4 DEF TargetOf
  <2>6. TargetOf(k) \in 1 .. n
    BY <1>13, <2>4 DEF TargetOf
  <2> QED
    BY <2>2, <2>4, <2>5, <2>6
<1>16. NamesInBounds'
  <2>1. \A a \in Anchors : a \in DOMAIN anchors' <=> (\E k \in Positions : Defines(k, a))'
    BY <1>1, <1>5, <1>6, <1>12
  <2>2. \A a \in DOMAIN anchors' : anchors'[a] < m + 1
    BY <1>1, <1>7, <1>10, <1>12
  <2>3. Cardinality(DOMAIN anchors') <= m + 1
    BY <1>1, <1>7, <1>11, <1>12
  <2> QED
    BY <1>7, <2>1, <2>2, <2>3 DEF NamesInBounds
<1>17. AliasMapSound'
  <2>1. ASSUME NEW i \in 1 .. m + 1
        PROVE  /\ document'.aliases[i] < n + 1
               /\ \E a \in Anchors : (document'.aliases[i] + 1 = n + 1 /\ e.anchor = a)
                    \/ (document'.aliases[i] + 1 \in 1 .. n
                          /\ Defines(document.aliases[i] + 1, a))
    <3>1. CASE i = m + 1
      BY <1>1, <1>5, <1>7, <3>1
    <3>2. CASE i \in 1 .. m
      <4>1. document'.aliases[i] = document.aliases[i] /\ document.aliases[i] \in Nat
        BY <1>7, <3>2
      <4>2. document.aliases[i] + 1 \in 1 .. n
        BY <1>9, <3>2
      <4>3. \E a \in Anchors : Defines(document.aliases[i] + 1, a)
        BY <1>9, <3>2
      <4>4. document'.aliases[i] < n + 1
        BY <1>5, <4>1, <4>2
      <4> QED
        BY <4>1, <4>2, <4>3, <4>4
    <3> QED
      BY <1>7, <3>1, <3>2
  <2>2. ASSUME NEW i \in 1 .. m
        PROVE  \E a \in Anchors : Defines(document.aliases[i] + 1, a)'
    <3>1. document'.aliases[i] = document.aliases[i] /\ document.aliases[i] + 1 \in 1 .. n
      BY <1>7, <1>9
    <3>2. PICK a \in Anchors : Defines(document.aliases[i] + 1, a)
      BY <1>9
    <3> QED
      BY <1>5, <3>1, <3>2, SMTT(30) DEF Defines
  <2>3. \E a \in Anchors : Defines(document.aliases[m + 1] + 1, a)'
    BY <1>1, <1>6, <1>7 DEF Defines
  <2> QED
    BY <1>5, <1>7, <2>1, <2>2, <2>3, SMTT(30) DEF AliasMapSound
<1>18. AliasesInBounds'
  <2>1. ASSUME NEW k \in Positions', IsAlias(k)'
        PROVE  /\ document'.events[k].id < m + 1
               /\ TargetOf(k)' < k
               /\ \E a \in Anchors : Defines(TargetOf(k), a)'
    <3>1. TargetOf(k) < k /\ \E a \in Anchors : Defines(TargetOf(k), a)
      BY <1>15, <2>1 DEF AliasInv, AliasesInBounds
    <3>2. PICK a \in Anchors : Defines(TargetOf(k), a)
      BY <3>1
    <3>3. TargetOf(k)' = TargetOf(k) /\ TargetOf(k) \in 1 .. n
      BY <1>15, <2>1
    <3>4. document'.events[TargetOf(k)] = document.events[TargetOf(k)]
      BY <1>5, <3>3
    <3>5. Defines(TargetOf(k), a)'
      BY <3>2, <3>3, <3>4 DEF Defines
    <3>6. document'.events[k].id < m + 1
      <4>1. /\ document'.events[k] = document.events[k]
            /\ document.events[k].id \in 0 .. m - 1
        BY <1>15, <2>1
      <4> QED
        BY <1>7, <4>1
    <3> QED
      BY <3>1, <3>3, <3>5, <3>6
  <2> QED
    BY <1>7, <2>1 DEF AliasesInBounds
<1>19. CountsAgree'
  <2>1. SUFFICES ASSUME ~OverriddenBefore(n + 2)'
                 PROVE  Cardinality(DOMAIN anchors') = m + 1
    BY <1>5, <1>7 DEF CountsAgree
  <2>2. ~OverriddenBefore(n + 1)
    <3>1. OverriddenBefore(n + 1) => OverriddenBefore(n + 2)'
      BY <1>5 DEF OverriddenBefore
    <3> QED
      BY <2>1, <3>1
  <2>3. \A k \in 1 .. n : ~Defines(k, e.anchor)
    BY <1>1, <1>5, <1>6, <2>1 DEF OverriddenBefore
  <2>4. e.anchor \notin DOMAIN anchors
    BY <1>1, <1>5, <1>12, <2>3
  <2> QED
    BY <1>11, <1>14, <2>2, <2>4
<1>20. IdsFindDefinition'
  <2>1. SUFFICES ASSUME NEW a \in DOMAIN anchors', NEW j \in 1 .. n + 1,
                        LastSoFar(j, a)', ~OverriddenBefore(j)'
                 PROVE  document'.aliases[anchors'[a] + 1] + 1 = j
    BY <1>5 DEF IdsFindDefinition, Target
  <2>2. CASE a = e.anchor
    <3>1. j = n + 1
      BY <1>5, <1>6, <2>1, <2>2 DEF LastSoFar
    <3>2. ~OverriddenBefore(n + 1)
      BY <1>5, <2>1, <3>1
    <3> QED
      BY <1>1, <1>5, <1>7, <1>14, <2>2, <3>1, <3>2
  <2>3. CASE a # e.anchor
    <3>1. j \in 1 .. n
      BY <1>5, <1>6, <2>1, <2>3 DEF LastSoFar
    <3>2. LastSoFar(j, a) /\ ~OverriddenBefore(j)
      BY <1>5, <2>1, <3>1 DEF LastSoFar
    <3>3. a \in DOMAIN anchors /\ anchors'[a] = anchors[a] /\ anchors[a] \in 0 .. m - 1
      BY <1>1, <1>7, <1>10, <1>12, <2>1, <2>3
    <3>4. Target(anchors[a]) = j
      BY <1>2, <1>5, <3>1, <3>2, <3>3 DEF AliasInv, IdsFindDefinition
    <3>5. anchors[a] + 1 \in 1 .. m
      BY <1>7, <3>3
    <3> QED
      BY <1>7, <3>3, <3>4, <3>5 DEF Target
  <2> QED
    BY <2>2, <2>3
<1>21. AliasFindsDefinition'
  <2>1. ASSUME NEW k \in Positions', IsAlias(k)', NEW j \in Positions',
               LatestDefinition(j, k)', ~OverriddenBefore(j)'
        PROVE  TargetOf(k)' = j
    <3>1. k \in Positions /\ IsAlias(k) /\ TargetOf(k)' = TargetOf(k)
      BY <1>15, <2>1
    <3>2. j \in Positions
      BY <1>5, <2>1, <3>1 DEF LatestDefinition
    <3>3. LatestDefinition(j, k) /\ ~OverriddenBefore(j)
      BY <1>5, <2>1, <3>1, <3>2
    <3> QED
      BY <3>1, <3>2, <3>3 DEF AliasInv, AliasFindsDefinition
  <2> QED
    BY <2>1 DEF AliasFindsDefinition
<1> QED
  BY <1>16, <1>17, <1>18, <1>19, <1>20, <1>21 DEF AliasInv

LEMMA AliasInvInit == Init => AliasInv
BY FreshDocument DEF Init

LEMMA AliasInvStep == TypeInv /\ AliasInv /\ [Next]_vars => AliasInv'
<1> SUFFICES ASSUME TypeInv, AliasInv, [Next]_vars PROVE AliasInv'
  OBVIOUS
<1>1. CASE CallExhausted
  <2>1. document' = EmptyDocument /\ call' = "idle"
    BY <1>1 DEF CallExhausted
  <2>2. (document = EmptyDocument /\ (call = "idle" \/ anchors = NoNames))'
    BY <2>1
  <2> QED
    BY <2>2, FreshDocument, PTL
<1>2. CASE CallNextDocument
  <2>1. document' = EmptyDocument /\ anchors' = NoNames
    BY <1>2, Zenon DEF CallNextDocument
  <2>2. (document = EmptyDocument /\ (call = "idle" \/ anchors = NoNames))'
    BY <2>1
  <2> QED
    BY <2>2, FreshDocument, PTL
<1>3. ASSUME NEW kind, ErrorArm(kind), call = "loading"
      PROVE  AliasInv'
  <2>1. document \in Document
    BY DEF TypeInv, TypeOK
  <2>2. document' = document \/ document' = [document EXCEPT !.error = kind]
    BY <1>3 DEF ErrorArm
  <2>3. document'.events = document.events /\ document'.aliases = document.aliases
    BY <2>1, <2>2 DEF Document
  <2>4. anchors' = anchors /\ call' = "idle"
    BY <1>3 DEF ErrorArm, ReturnDocument, ReturnNone
  <2> QED
    BY <2>3, <2>4, SameDocument
<1>4. ASSUME NEW failure, ParseError(failure)
      PROVE  AliasInv'
  BY <1>3, <1>4 DEF ParseError
<1>5. ASSUME NEW e \in Offered, ConvertError(e)
      PROVE  AliasInv'
  BY <1>3, <1>5 DEF ConvertError
<1>6. ASSUME NEW e \in Offered, Skip(e)
      PROVE  AliasInv'
  BY <1>6, SameDocument DEF Skip
<1>7. ASSUME NEW e \in Offered, EndStream(e)
      PROVE  AliasInv'
  <2> DEFINE void == [type |-> "Void", anchor |-> NoAnchor, id |-> 0]
  <2>1. anchors' = anchors /\ call' = "idle"
    BY <1>7 DEF EndStream, ReturnDocument, ReturnNone
  <2>2. CASE document' = document
    BY <2>1, <2>2, SameDocument
  <2>3. CASE /\ document.events = <<>>
             /\ document' = [document EXCEPT !.events = <<void>>]
    <3>1. void \in Events /\ void.type = "Void"
      BY DEF Events, NodeEvents, OptAnchor
    <3>2. document \in Document
      BY DEF TypeInv, TypeOK
    <3>3. Append(document.events, void) = <<void>>
      BY <2>3
    <3>4. /\ document'.events = Append(document.events, void)
          /\ document'.aliases = document.aliases
      BY <2>3, <3>2, <3>3 DEF Document
    <3>5. void.type \notin NodeTypes /\ void.type # "Alias"
      BY <3>1 DEF NodeTypes
    <3> HIDE DEF void
    <3> QED
      BY <2>1, <3>1, <3>4, <3>5, AppendedPlain
  <2> QED
    BY <1>7, <2>2, <2>3 DEF EndStream
<1>8. ASSUME NEW e \in Offered, EndDocument(e) \/ UnknownAlias(e)
      PROVE  AliasInv'
  <2>1. document \in Document
    BY DEF TypeInv, TypeOK
  <2>2. document'.events = document.events /\ document'.aliases = document.aliases
    BY <1>8, <2>1 DEF EndDocument, UnknownAlias, Document
  <2>3. anchors' = anchors /\ call' = "idle"
    BY <1>8 DEF EndDocument, UnknownAlias, ReturnDocument
  <2> QED
    BY <2>2, <2>3, SameDocument
<1>9. ASSUME NEW e \in YamlEvents, NEW id \in Nat,
             document' = [document EXCEPT !.events = Append(@, Event(e, id))],
             UNCHANGED <<anchors, call>>,
             e.type \in NodeTypes \cup {"Alias", "SequenceEnd", "MappingEnd"},
             e.type \in NodeTypes => e.anchor = NoAnchor,
             e.type = "Alias" =>
               call = "loading" /\ e.anchor \in DOMAIN anchors /\ id = anchors[e.anchor]
      PROVE  AliasInv'
  <2> DEFINE ev == Event(e, id)
  <2>1. ev \in Events /\ ev.type = e.type /\ ev.anchor = e.anchor /\ ev.id = id
    BY <1>9, EventType DEF Event
  <2>2. document \in Document
    BY DEF TypeInv, TypeOK
  <2>3. /\ document'.events = Append(document.events, ev)
        /\ document'.aliases = document.aliases
    BY <1>9, <2>2 DEF Document
  <2>4. ev.type \notin NodeTypes \/ ev.anchor \notin Anchors
    BY <1>9, <2>1, ConstantsAssumption
  <2> HIDE DEF ev
  <2> QED
    BY <1>9, <2>1, <2>3, <2>4, AppendedPlain
<1>10. ASSUME NEW e \in Offered
       PROVE  e \in YamlEvents
  BY DEF Offered
<1>11. ASSUME NEW e \in Offered, LoadAlias(e)
       PROVE  AliasInv'
  <2>1. anchors[e.anchor] \in Nat
    BY <1>11 DEF LoadAlias, TypeInv, TypeOK
  <2> QED
    BY <1>9, <1>10, <1>11, <2>1 DEF LoadAlias, Take, NodeTypes
<1>12. ASSUME NEW e \in Offered, LoadNode(e)
       PROVE  AliasInv'
  <2>1. CASE e.anchor = NoAnchor
    BY <1>9, <1>10, <1>12, <2>1 DEF LoadNode, NodeTypes
  <2>2. CASE e.anchor # NoAnchor
    BY <1>12, <2>2, AppendedAnchored
  <2> QED
    BY <2>1, <2>2
<1>13. ASSUME NEW e \in Offered, LoadEnd(e)
       PROVE  AliasInv'
  BY <1>9, <1>10, <1>13 DEF LoadEnd, NodeTypes
<1>14. CASE UNCHANGED vars
  BY <1>14, SameDocument DEF vars, locals
<1> QED
  BY <1>1, <1>2, <1>4, <1>5, <1>6, <1>7, <1>8, <1>11, <1>12, <1>13, <1>14 DEF Next, Load

LEMMA AliasInvariant == Spec => []AliasInv
<1>1. Init => TypeInv /\ AliasInv
  BY TypeInit, AliasInvInit
<1>2. (TypeInv /\ AliasInv) /\ [Next]_vars => (TypeInv /\ AliasInv)'
  BY TypeStep, AliasInvStep
<1> QED
  BY <1>1, <1>2, PTL DEF Spec

\* Following an alias event never finds a hole: its id indexes the alias map,
\* which leads to an anchored node before the alias (Loader::next_document,
\* read by DeserializerFromEvents::jump).
THEOREM AliasesStayInBounds == Spec => []AliasesInBounds
<1>1. AliasInv => AliasesInBounds
  BY DEF AliasInv
<1> QED
  BY <1>1, AliasInvariant, PTL

\* An alias leads to the last definition of its name, provided that definition
\* was made while no name had been defined twice.
THEOREM AliasesFindDefinitions == Spec => []AliasFindsDefinition
<1>1. AliasInv => AliasFindsDefinition
  BY DEF AliasInv
<1> QED
  BY <1>1, AliasInvariant, PTL

-----------------------------------------------------------------------------
(* The documents: the events a call has collected follow libyaml's stack,  *)
(* so that they are one node when the document ends.                       *)

\* What completing a node does to libyaml's stack and phase.
LEMMA CloseShape ==
  ASSUME source \in Source, NEW stack \in Seq({"seq", "key", "value"})
  PROVE  /\ Len(Close(stack).open) = Len(stack)
         /\ Close(stack).phase = IF stack = <<>> THEN "close" ELSE "root"
         /\ Close(stack).docs = source.docs
<1>1. Len(Completed(stack)) = Len(stack)
  BY DEF Completed
<1>2. Close(stack).open = Completed(stack)
  BY DEF Close, Source
<1>3. /\ Close(stack).phase = IF stack = <<>> THEN "close" ELSE "root"
      /\ Close(stack).docs = source.docs
  BY DEF Close, Source
<1> QED
  BY <1>1, <1>2, <1>3

\* An event of a node comes while the root is being read: a start deepens the
\* stack by one, an end is that of a collection on it, and the document's node
\* is complete when the stack is empty.
LEMMA NodeShape ==
  ASSUME source \in Source, NEW e \in Offered,
         e.type \in NodeTypes \cup {"Alias", "SequenceEnd", "MappingEnd"},
         NEW d, d = Len(source.open),
         NEW d1, d1 = Len(SourceAfter(e).open)
  PROVE  /\ source.phase = "root"
         /\ SourceAfter(e).docs = source.docs
         /\ d \in Nat
         /\ d1 \in Nat
         /\ e.type \in {"SequenceStart", "MappingStart"} => d1 = d + 1
         /\ e.type \in {"Scalar", "Alias"} => d1 = d
         /\ e.type \in {"SequenceEnd", "MappingEnd"} => d = d1 + 1
         /\ SourceAfter(e).phase = IF d1 = 0 THEN "close" ELSE "root"
<1>1. source.phase = "root"
  BY ConstantsAssumption DEF Offered, NodeTypes
<1>2. source.open \in Seq({"seq", "key", "value"}) /\ d \in Nat
  BY DEF Source
<1>3. CASE e.type \in {"SequenceStart", "MappingStart"}
  <2>1. PICK top \in {"seq", "key"} :
          SourceAfter(e) = [source EXCEPT !.open = Append(@, top), !.nodes = @ + 1]
    BY <1>3 DEF SourceAfter
  <2>2. /\ SourceAfter(e).docs = source.docs
        /\ SourceAfter(e).phase = source.phase
        /\ SourceAfter(e).open = Append(source.open, top)
    BY <2>1 DEF Source
  <2>3. d1 = d + 1
    BY <1>2, <2>2
  <2>4. d1 \in Nat /\ d1 # 0
    BY <1>2, <2>3
  <2> QED
    BY <1>1, <1>2, <1>3, <2>2, <2>3, <2>4
<1>4. CASE e.type \in {"Scalar", "Alias"}
  <2>1. SourceAfter(e) = Close(source.open)
    BY <1>4 DEF SourceAfter
  <2>2. source.open = <<>> <=> d = 0
    BY <1>2
  <2>3. d1 = d
    BY <1>2, <2>1, CloseShape
  <2> QED
    BY <1>1, <1>2, <1>4, <2>1, <2>2, <2>3, CloseShape
<1>5. CASE e.type \in {"SequenceEnd", "MappingEnd"}
  <2> DEFINE rest == SubSeq(source.open, 1, Len(source.open) - 1)
  <2>1. Top(source.open) \in {"seq", "key"}
    BY <1>5, ConstantsAssumption DEF Offered
  <2>2. source.open # <<>>
    BY <2>1 DEF Top
  <2>3. rest \in Seq({"seq", "key", "value"})
    BY <1>2, <2>2, PopType
  <2>4. Len(rest) \in Nat /\ d = Len(rest) + 1
    BY <1>2, <2>2
  <2> HIDE DEF rest
  <2>5. rest = <<>> <=> Len(rest) = 0
    BY <2>3
  <2>6. SourceAfter(e) = [Close(rest) EXCEPT !.nodes = source.nodes]
    BY <1>5 DEF SourceAfter, rest
  <2>7. /\ SourceAfter(e).open = Close(rest).open
        /\ SourceAfter(e).phase = Close(rest).phase
        /\ SourceAfter(e).docs = Close(rest).docs
    BY <2>6 DEF Close, Source
  <2>8. d1 = Len(rest)
    BY <2>3, <2>7, CloseShape
  <2> QED
    BY <1>1, <1>2, <1>5, <2>3, <2>4, <2>5, <2>7, <2>8, CloseShape
<1> QED
  BY <1>3, <1>4, <1>5 DEF NodeTypes

\* The other events leave the stack alone.
LEMMA FrameShape ==
  ASSUME source \in Source, NEW e \in Offered
  PROVE  /\ e.type \in {"StreamStart", "StreamEnd", "DocumentStart", "DocumentEnd"} =>
              SourceAfter(e).open = source.open
         /\ e.type = "StreamStart" =>
              /\ source.phase = "new"
              /\ SourceAfter(e).phase = "stream"
              /\ SourceAfter(e).docs = source.docs
         /\ e.type = "StreamEnd" =>
              /\ source.phase = "stream"
              /\ SourceAfter(e).phase = "ended"
              /\ SourceAfter(e).docs = source.docs
         /\ e.type = "DocumentStart" =>
              /\ source.phase = "stream"
              /\ SourceAfter(e).phase = "root"
              /\ SourceAfter(e).docs = source.docs + 1
         /\ e.type = "DocumentEnd" =>
              /\ source.phase = "close"
              /\ SourceAfter(e).phase = "stream"
              /\ SourceAfter(e).docs = source.docs
<1>1. CASE e.type = "StreamStart"
  <2>1. source.phase = "new"
    BY <1>1, ConstantsAssumption DEF Offered
  <2> QED
    BY <1>1, <2>1 DEF SourceAfter, Source
<1>2. CASE e.type = "StreamEnd"
  <2>1. source.phase = "stream"
    BY <1>2, ConstantsAssumption DEF Offered
  <2> QED
    BY <1>2, <2>1 DEF SourceAfter, Source
<1>3. CASE e.type = "DocumentStart"
  <2>1. source.phase = "stream"
    BY <1>3, ConstantsAssumption DEF Offered
  <2> QED
    BY <1>3, <2>1 DEF SourceAfter, Source
<1>4. CASE e.type = "DocumentEnd"
  <2>1. source.phase = "close"
    BY <1>4, ConstantsAssumption DEF Offered
  <2> QED
    BY <1>4, <2>1 DEF SourceAfter, Source
<1> QED
  BY <1>1, <1>2, <1>3, <1>4

\* The starts and ends of collections can be counted.
LEMMA StartsEndsCount ==
  ASSUME NEW k \in Nat
  PROVE  /\ IsFiniteSet(Starts(k)) /\ Cardinality(Starts(k)) \in Nat
         /\ IsFiniteSet(Ends(k)) /\ Cardinality(Ends(k)) \in Nat
<1>1. IsFiniteSet(1 .. k)
  BY FS_Interval
<1>2. Starts(k) \subseteq 1 .. k /\ Ends(k) \subseteq 1 .. k
  BY DEF Starts, Ends
<1> QED
  BY <1>1, <1>2, FS_Subset, FS_CardinalityType

\* Appending an event leaves the counts before it alone and adds one to those
\* of its own kind.
LEMMA CountsAppended ==
  ASSUME TypeInv, NEW ev \in Events, NEW n, n = Len(document.events),
         document'.events = Append(document.events, ev)
  PROVE  /\ \A k \in 0 .. n : Starts(k)' = Starts(k) /\ Ends(k)' = Ends(k)
         /\ Cardinality(Starts(n + 1)') = Cardinality(Starts(n))
              + (IF ev.type \in {"SequenceStart", "MappingStart"} THEN 1 ELSE 0)
         /\ Cardinality(Ends(n + 1)') = Cardinality(Ends(n))
              + (IF ev.type \in {"SequenceEnd", "MappingEnd"} THEN 1 ELSE 0)
<1>1. /\ n \in Nat
      /\ document'.events[n + 1] = ev
      /\ \A k \in 1 .. n : document'.events[k] = document.events[k]
  BY DocumentTypes
<1>2. ASSUME NEW k \in 0 .. n
      PROVE  Starts(k)' = Starts(k) /\ Ends(k)' = Ends(k)
  <2>1. 1 .. k \subseteq 1 .. n
    BY <1>1
  <2> QED
    BY <1>1, <2>1 DEF Starts, Ends
<1>3. n + 1 \notin Starts(n) /\ n + 1 \notin Ends(n)
  BY <1>1 DEF Starts, Ends
<1>4. 1 .. n + 1 = 1 .. n \cup {n + 1}
  BY <1>1
<1>5. Starts(n + 1)' = IF ev.type \in {"SequenceStart", "MappingStart"}
                         THEN Starts(n) \cup {n + 1} ELSE Starts(n)
  BY <1>1, <1>4 DEF Starts
<1>6. Ends(n + 1)' = IF ev.type \in {"SequenceEnd", "MappingEnd"}
                       THEN Ends(n) \cup {n + 1} ELSE Ends(n)
  BY <1>1, <1>4 DEF Ends
<1>7. /\ IsFiniteSet(Starts(n)) /\ Cardinality(Starts(n)) \in Nat
      /\ IsFiniteSet(Ends(n)) /\ Cardinality(Ends(n)) \in Nat
  BY <1>1, StartsEndsCount
<1>8. /\ Cardinality(Starts(n) \cup {n + 1}) = Cardinality(Starts(n)) + 1
      /\ Cardinality(Ends(n) \cup {n + 1}) = Cardinality(Ends(n)) + 1
  BY <1>3, <1>7, FS_AddElement
<1>9. Cardinality(Starts(n + 1)') = Cardinality(Starts(n))
        + (IF ev.type \in {"SequenceStart", "MappingStart"} THEN 1 ELSE 0)
  BY <1>5, <1>7, <1>8
<1>10. Cardinality(Ends(n + 1)') = Cardinality(Ends(n))
         + (IF ev.type \in {"SequenceEnd", "MappingEnd"} THEN 1 ELSE 0)
  BY <1>6, <1>7, <1>8
<1> QED
  BY <1>2, <1>9, <1>10

\* Reading any event on offer keeps what is known of libyaml itself.
LEMMA SourceFresh ==
  ASSUME source \in Source, source.phase # "root" => source.open = <<>>,
         NEW e \in Offered
  PROVE  /\ SourceAfter(e).phase # "root" => SourceAfter(e).open = <<>>
         /\ SourceAfter(e).phase # "new"
<1>1. e.type \in NodeTypes \cup {"Alias", "SequenceEnd", "MappingEnd"}
        \/ e.type \in {"StreamStart", "StreamEnd", "DocumentStart", "DocumentEnd"}
  BY DEF Offered, YamlEvents
<1>2. CASE e.type \in NodeTypes \cup {"Alias", "SequenceEnd", "MappingEnd"}
  <2>1. SourceAfter(e) \in Source
    BY SourceAfterType
  <2>2. SourceAfter(e).open = <<>> <=> Len(SourceAfter(e).open) = 0
    BY <2>1 DEF Source
  <2> QED
    BY <1>2, <2>2, NodeShape
<1>3. CASE e.type \in {"StreamStart", "StreamEnd", "DocumentStart", "DocumentEnd"}
  BY <1>3, FrameShape
<1> QED
  BY <1>1, <1>2, <1>3

\* A call that returns leaves CallFresh and EventsFollowStack to the next one.
LEMMA ReturnFresh ==
  ASSUME TypeInv, DocumentInv, call = "loading", call' = "idle",
         documentCount' = documentCount,
         \/ UNCHANGED <<source.phase, source.open, source.docs>>
         \/ \E e \in Offered : source' = SourceAfter(e)
  PROVE  CallFresh' /\ EventsFollowStack'
<1>1. source \in Source /\ (source.phase # "root" => source.open = <<>>)
  BY DEF TypeInv, TypeOK, DocumentInv, CallFresh
<1>2. /\ source'.phase # "root" => source'.open = <<>>
      /\ source'.phase = "new" => source'.docs = 0
  BY <1>1, SourceFresh DEF DocumentInv, CallFresh
<1>3. documentCount' # 0
  BY DEF DocumentInv, CallFresh
<1> QED
  BY <1>2, <1>3 DEF CallFresh, EventsFollowStack

LEMMA Shifted == \A s, t, d \in Nat : s = t + (d + 1) => s = (t + 1) + d
OBVIOUS

\* An event of a node is collected.
LEMMA EventFollowed ==
  ASSUME TypeInv, DocumentInv, NEW e \in Offered,
         e.type \in NodeTypes \cup {"Alias", "SequenceEnd", "MappingEnd"},
         NEW ev \in Events, ev.type = e.type,
         call = "loading",
         source' = SourceAfter(e),
         UNCHANGED <<documentCount, call, first, whole>>,
         document'.events = Append(document.events, ev),
         document'.error = document.error,
         NEW n, n = Len(document.events)
  PROVE  DocumentInv'
<1> DEFINE starts(k) == Cardinality(Starts(k))
<1> DEFINE ends(k) == Cardinality(Ends(k))
<1>1. /\ source \in Source
      /\ source.phase # "root" => source.open = <<>>
      /\ documentCount # 0
      /\ first /\ source.phase \in {"new", "stream"} => source.docs = 0
      /\ document.error = "none"
  BY DEF TypeInv, TypeOK, DocumentInv, CallFresh
<1>2. /\ source.phase = "root"
      /\ source'.docs = source.docs
      /\ source'.phase \in {"root", "close"}
      /\ source'.phase # "root" => source'.open = <<>>
  BY <1>1, NodeShape, SourceFresh DEF NodeTypes
<1>3. CallFresh'
  BY <1>1, <1>2 DEF CallFresh
<1>4. ASSUME whole PROVE EventsFollowStack'
  <2>1. /\ starts(n) = ends(n) + Len(source.open)
        /\ source.open = <<>> => document.events = <<>>
        /\ \A k \in 1 .. n : ends(k) < starts(k)
    BY <1>2, <1>4 DEF DocumentInv, EventsFollowStack, Positions
  <2>2. /\ n \in Nat
        /\ Len(document'.events) = n + 1
        /\ Positions' = 1 .. n + 1
        /\ document'.events # <<>>
    BY DocumentTypes DEF Positions
  <2>3. \A k \in 0 .. n : starts(k) \in Nat /\ ends(k) \in Nat
    BY <2>2, StartsEndsCount
  <2>4. /\ \A k \in 0 .. n : Starts(k)' = Starts(k) /\ Ends(k)' = Ends(k)
        /\ Cardinality(Starts(n + 1)') = starts(n)
              + (IF ev.type \in {"SequenceStart", "MappingStart"} THEN 1 ELSE 0)
        /\ Cardinality(Ends(n + 1)') = ends(n)
              + (IF ev.type \in {"SequenceEnd", "MappingEnd"} THEN 1 ELSE 0)
    BY CountsAppended
  <2>5. Len(source.open) \in Nat /\ (source.open = <<>> <=> Len(source.open) = 0)
    BY <1>1 DEF Source
  <2>6. source'.open = <<>> <=> Len(source'.open) = 0
    <3>1. source' \in Source
      BY <1>1, SourceAfterType
    <3> QED
      BY <3>1 DEF Source
  <2>7. n = 0 <=> document.events = <<>>
    BY DocumentTypes
  <2>8. \A k \in 1 .. n : Cardinality(Ends(k)') < Cardinality(Starts(k)')
    BY <2>1, <2>2, <2>4
  <2>9. PICK starts1, ends1, depth1 :
          /\ starts1 = Cardinality(Starts(n + 1)')
          /\ ends1 = Cardinality(Ends(n + 1)')
          /\ depth1 = Len(source'.open)
    OBVIOUS
  <2>10. /\ starts1 \in Nat
         /\ ends1 \in Nat
         /\ depth1 \in Nat
         /\ starts1 = ends1 + depth1
         /\ source'.phase = IF depth1 = 0 THEN "close" ELSE "root"
    <3> HIDE DEF starts, ends
    <3>1. starts(n) \in Nat /\ ends(n) \in Nat
      <4>1. n \in 0 .. n
        BY <2>2
      <4> QED
        BY <2>3, <4>1
    <3>2. PICK depth : depth = Len(source.open)
      OBVIOUS
    <3>3. /\ depth \in Nat
          /\ depth1 \in Nat
          /\ e.type \in {"SequenceStart", "MappingStart"} => depth1 = depth + 1
          /\ e.type \in {"Scalar", "Alias"} => depth1 = depth
          /\ e.type \in {"SequenceEnd", "MappingEnd"} => depth = depth1 + 1
          /\ source'.phase = IF depth1 = 0 THEN "close" ELSE "root"
      BY <1>1, <2>9, <3>2, NodeShape
    <3>4. starts(n) = ends(n) + depth
      BY <2>1, <3>2
    <3>5. CASE e.type \in {"SequenceStart", "MappingStart"}
      <4>1. starts1 = starts(n) + 1 /\ ends1 = ends(n)
        BY <2>4, <2>9, <3>1, <3>5
      <4> QED
        BY <3>1, <3>3, <3>4, <3>5, <4>1
    <3>6. CASE e.type \in {"Scalar", "Alias"}
      <4>1. starts1 = starts(n) /\ ends1 = ends(n)
        BY <2>4, <2>9, <3>1, <3>6
      <4> QED
        BY <3>1, <3>3, <3>4, <3>6, <4>1
    <3>7. CASE e.type \in {"SequenceEnd", "MappingEnd"}
      <4>1. starts1 = starts(n) /\ ends1 = ends(n) + 1
        BY <2>4, <2>9, <3>1, <3>7
      <4>2. depth = depth1 + 1
        BY <3>3, <3>7
      <4>3. starts1 \in Nat /\ ends1 \in Nat /\ starts1 = ends1 + depth1
        BY ONLY <3>1, <3>3, <3>4, <4>1, <4>2, Shifted
      <4> QED
        BY <3>3, <4>3
    <3> QED
      BY <3>5, <3>6, <3>7 DEF NodeTypes
  <2> HIDE DEF starts, ends
  <2>11. source'.phase = "root" => ends1 < starts1
    BY <2>10
  <2>12. source'.phase = "root" =>
           \A k \in 1 .. n + 1 : Cardinality(Ends(k)') < Cardinality(Starts(k)')
    BY <2>2, <2>8, <2>9, <2>11
  <2>13. CASE source'.phase = "root"
    BY <2>2, <2>6, <2>9, <2>10, <2>12, <2>13 DEF EventsFollowStack
  <2>14. CASE source'.phase = "close"
    <3>1. starts1 = ends1
      BY <2>10, <2>14
    <3>2. Len(document'.events) - 1 = n
      BY <2>2
    <3>3. /\ Cardinality(Starts(Len(document.events)))' = starts1
          /\ Cardinality(Ends(Len(document.events)))' = ends1
      BY <2>2, <2>9 DEF Starts, Ends
    <3>4. OneNode'
      BY <2>2, <2>8, <3>1, <3>2, <3>3 DEF OneNode
    <3> QED
      BY <2>14, <3>4 DEF EventsFollowStack
  <2> QED
    BY <1>2, <2>13, <2>14
<1>5. EventsFollowStack'
  BY <1>4 DEF EventsFollowStack
<1> QED
  BY <1>3, <1>5 DEF DocumentInv, WholeDocuments, ErrorFreeEndsAtBoundary, Returned

LEMMA DocumentInvInit == Init => DocumentInv
BY DEF Init, DocumentInv, CallFresh, EventsFollowStack, WholeDocuments,
       ErrorFreeEndsAtBoundary, Returned

\* A call that returns with an error, or with nothing, promises no document.
LEMMA ReturnUnpromised ==
  ASSUME TypeInv, DocumentInv, call = "loading", call' = "idle",
         documentCount' = documentCount,
         \/ UNCHANGED <<source.phase, source.open, source.docs>>
         \/ \E e \in Offered : source' = SourceAfter(e),
         returned' # "some" \/ document'.error # "none"
  PROVE  DocumentInv'
<1>1. CallFresh' /\ EventsFollowStack'
  BY ReturnFresh
<1> QED
  BY <1>1 DEF DocumentInv, WholeDocuments, ErrorFreeEndsAtBoundary, Returned

LEMMA DocumentInvStep == TypeInv /\ DocumentInv /\ [Next]_vars => DocumentInv'
<1> SUFFICES ASSUME TypeInv, DocumentInv, [Next]_vars PROVE DocumentInv'
  OBVIOUS
<1>0. /\ source \in Source
      /\ document \in Document
      /\ CallFresh
      /\ EventsFollowStack
      /\ documentCount = 0 => source.phase = "new" /\ call = "idle"
  BY DEF TypeInv, TypeOK, DocumentInv, CallFresh
<1>1. CASE CallExhausted
  <2>1. /\ returned' = "none"
        /\ call' = "idle"
        /\ UNCHANGED <<source, documentCount, first>>
    BY <1>1 DEF CallExhausted
  <2> QED
    BY <1>0, <2>1 DEF DocumentInv, CallFresh, EventsFollowStack, WholeDocuments,
         ErrorFreeEndsAtBoundary, Returned
<1>2. CASE CallNextDocument
  <2>1. /\ call' = "loading"
        /\ documentCount' = 1
        /\ document' = EmptyDocument
        /\ source' = source
    BY <1>2, Zenon DEF CallNextDocument
  <2>2. first' => documentCount = 0
    BY <1>2, Zenon DEF CallNextDocument
  <2>3. whole' => source.phase \in {"new", "stream"}
    BY <1>2, Zenon DEF CallNextDocument
  <2>4. document'.events = <<>> /\ document'.error = "none"
    BY <2>1 DEF EmptyDocument
  <2>5. CallFresh'
    BY <1>0, <2>1, <2>2, <2>4 DEF CallFresh
  <2>6. EventsFollowStack'
    BY <2>1, <2>3, <2>4 DEF EventsFollowStack
  <2> QED
    BY <2>1, <2>5, <2>6 DEF DocumentInv, WholeDocuments, ErrorFreeEndsAtBoundary, Returned
<1>3. ASSUME NEW kind \in {"Parse", "Convert"}, ErrorArm(kind), call = "loading",
             \/ UNCHANGED <<source.phase, source.open, source.docs>>
             \/ \E e \in Offered : source' = SourceAfter(e)
      PROVE  DocumentInv'
  <2>1. returned' # "some" \/ document'.error # "none"
    BY <1>0, <1>3 DEF ErrorArm, ReturnNone, Document
  <2>2. call' = "idle" /\ documentCount' = documentCount
    BY <1>3 DEF ErrorArm, ReturnNone, ReturnDocument
  <2> QED
    BY <1>3, <2>1, <2>2, ReturnUnpromised
<1>4. ASSUME NEW failure \in {"scan", "read"}, ParseError(failure)
      PROVE  DocumentInv'
  <2>1. UNCHANGED <<source.phase, source.open, source.docs>>
    BY <1>0, <1>4 DEF ParseError, Source
  <2> QED
    BY <1>3, <1>4, <2>1 DEF ParseError
<1>5. ASSUME NEW e \in Offered, ConvertError(e)
      PROVE  DocumentInv'
  BY <1>3, <1>5 DEF ConvertError
<1>6. ASSUME NEW e \in Offered, Skip(e)
      PROVE  DocumentInv'
  <2>1. /\ call = "loading"
        /\ source' = SourceAfter(e)
        /\ UNCHANGED <<documentCount, first, whole, call, document>>
        /\ e.type \in {"StreamStart", "DocumentStart"}
    BY <1>6 DEF Skip, Take
  <2>2. /\ source.phase \in {"new", "stream"}
        /\ source'.phase \in {"stream", "root"}
        /\ source'.phase = "stream" => source.phase = "new" /\ source'.docs = source.docs
        /\ source'.open = source.open
    BY <1>0, <2>1, FrameShape
  <2>3. source.open = <<>> /\ documentCount # 0
    BY <1>0, <2>1, <2>2 DEF CallFresh
  <2>4. CallFresh'
    BY <1>0, <2>1, <2>2, <2>3 DEF CallFresh
  <2>5. whole => document.events = <<>>
    BY <1>0, <2>1, <2>2 DEF EventsFollowStack
  <2>6. ASSUME whole
        PROVE  /\ Len(document'.events) = 0
               /\ Positions' = {}
               /\ Len(source'.open) = 0
               /\ Cardinality(Starts(Len(document.events)))' = 0
               /\ Cardinality(Ends(Len(document.events)))' = 0
    <3>1. Len(document'.events) = 0 /\ Len(source'.open) = 0
      BY <2>1, <2>2, <2>3, <2>5, <2>6
    <3>2. 1 .. Len(document'.events) = {}
      BY <3>1
    <3>3. Starts(Len(document.events))' = {} /\ Ends(Len(document.events))' = {}
      BY <3>2 DEF Starts, Ends
    <3> QED
      BY <3>1, <3>2, <3>3, FS_EmptySet DEF Positions
  <2>8. EventsFollowStack'
    BY <2>1, <2>2, <2>5, <2>6 DEF EventsFollowStack
  <2> QED
    BY <2>1, <2>4, <2>8 DEF DocumentInv, WholeDocuments, ErrorFreeEndsAtBoundary, Returned
<1>7. ASSUME NEW e \in Offered, EndStream(e)
      PROVE  DocumentInv'
  <2>1. /\ call = "loading" /\ call' = "idle"
        /\ source' = SourceAfter(e)
        /\ e.type = "StreamEnd"
        /\ UNCHANGED <<documentCount, whole>>
    BY <1>7 DEF EndStream, Take, ReturnNone, ReturnDocument
  <2>2. CallFresh' /\ EventsFollowStack'
    BY <2>1, ReturnFresh
  <2>3. /\ source.phase = "stream"
        /\ source'.phase = "ended"
        /\ source'.docs = source.docs
    BY <1>0, <2>1, FrameShape
  <2>4. CASE first
    <3>1. source.docs = 0
      BY <1>0, <2>1, <2>3, <2>4 DEF CallFresh
    <3>2. whole => document.events = <<>>
      BY <1>0, <2>1, <2>3 DEF EventsFollowStack
    <3> DEFINE void == [type |-> "Void", anchor |-> NoAnchor, id |-> 0]
    <3>3. whole => document'.events = <<void>>
      BY <1>0, <1>7, <2>4, <3>2 DEF EndStream, Document
    <3>4. WholeDocuments'
      BY <2>1, <2>3, <3>1, <3>3 DEF WholeDocuments
    <3> QED
      BY <2>2, <2>3, <3>4 DEF DocumentInv, ErrorFreeEndsAtBoundary
  <2>5. CASE ~first
    <3>1. returned' = "none"
      BY <1>7, <2>5 DEF EndStream, ReturnNone
    <3> QED
      BY <2>2, <3>1 DEF DocumentInv, WholeDocuments, ErrorFreeEndsAtBoundary, Returned
  <2> QED
    BY <2>4, <2>5
<1>8. ASSUME NEW e \in Offered, EndDocument(e)
      PROVE  DocumentInv'
  <2>1. /\ call = "loading" /\ call' = "idle"
        /\ source' = SourceAfter(e)
        /\ e.type = "DocumentEnd"
        /\ UNCHANGED <<documentCount, whole>>
        /\ document'.endMark
        /\ document'.events = document.events
    BY <1>0, <1>8 DEF EndDocument, Take, ReturnDocument, Document
  <2>2. CallFresh' /\ EventsFollowStack'
    BY <2>1, ReturnFresh
  <2>3. source.phase = "close" /\ source'.phase = "stream"
    BY <1>0, <2>1, FrameShape
  <2>4. whole => OneNode
    BY <1>0, <2>1, <2>3 DEF EventsFollowStack
  <2>5. OneNode => OneNode'
    BY <2>1 DEF OneNode, Starts, Ends
  <2>6. WholeDocuments' /\ ErrorFreeEndsAtBoundary'
    BY <2>1, <2>3, <2>4, <2>5 DEF WholeDocuments, ErrorFreeEndsAtBoundary
  <2> QED
    BY <2>2, <2>6 DEF DocumentInv
<1>9. ASSUME NEW e \in Offered, UnknownAlias(e)
      PROVE  DocumentInv'
  <2>1. /\ call = "loading" /\ call' = "idle"
        /\ source' = SourceAfter(e)
        /\ documentCount' = documentCount
        /\ document'.error # "none"
    BY <1>0, <1>9 DEF UnknownAlias, Take, ReturnDocument, Document
  <2> QED
    BY <2>1, ReturnUnpromised
<1>10. ASSUME NEW e \in Offered, Take(e), call' = call, NEW id \in Nat,
              e.type \in NodeTypes \cup {"Alias", "SequenceEnd", "MappingEnd"},
              document'.events = Append(document.events, Event(e, id)),
              document'.error = document.error
       PROVE  DocumentInv'
  <2>1. Event(e, id) \in Events /\ Event(e, id).type = e.type
    <3>1. e \in YamlEvents
      BY DEF Offered
    <3> QED
      BY <1>10, <3>1, EventType DEF Event
  <2> QED
    BY <1>10, <2>1, EventFollowed DEF Take
<1>11. ASSUME NEW e \in Offered, LoadAlias(e)
       PROVE  DocumentInv'
  <2>1. anchors[e.anchor] \in Nat
    BY <1>11 DEF LoadAlias, TypeInv, TypeOK
  <2>2. /\ document'.events = Append(document.events, Event(e, anchors[e.anchor]))
        /\ document'.error = document.error
    BY <1>0, <1>11 DEF LoadAlias, Document
  <2> QED
    BY <1>10, <1>11, <2>1, <2>2 DEF LoadAlias
<1>12. ASSUME NEW e \in Offered, LoadNode(e)
       PROVE  DocumentInv'
  <2>1. /\ document'.events = Append(document.events, Event(e, 0))
        /\ document'.error = document.error
    BY <1>0, <1>12 DEF LoadNode, Document
  <2> QED
    BY <1>10, <1>12, <2>1 DEF LoadNode
<1>13. ASSUME NEW e \in Offered, LoadEnd(e)
       PROVE  DocumentInv'
  <2>1. /\ document'.events = Append(document.events, Event(e, 0))
        /\ document'.error = document.error
    BY <1>0, <1>13 DEF LoadEnd, Document
  <2> QED
    BY <1>10, <1>13, <2>1 DEF LoadEnd
<1>14. CASE UNCHANGED vars
  BY <1>14 DEF vars, locals, DocumentInv, CallFresh, EventsFollowStack, WholeDocuments,
       ErrorFreeEndsAtBoundary, Returned, OneNode, Positions, Starts, Ends
<1> QED
  BY <1>1, <1>2, <1>4, <1>5, <1>6, <1>7, <1>8, <1>9, <1>11, <1>12, <1>13, <1>14
     DEF Next, Load

LEMMA DocumentInvariant == Spec => []DocumentInv
<1>1. Init => TypeInv /\ DocumentInv
  BY TypeInit, DocumentInvInit
<1>2. (TypeInv /\ DocumentInv) /\ [Next]_vars => (TypeInv /\ DocumentInv)'
  BY TypeStep, DocumentInvStep
<1> QED
  BY <1>1, <1>2, PTL DEF Spec

\* A document that next_document returns without an error, when the call began
\* between two documents of libyaml's, is one complete node with its end mark,
\* or the single Void of a stream without documents (src/loader.rs).
THEOREM DocumentsAreWhole == Spec => []WholeDocuments
<1>1. DocumentInv => WholeDocuments
  BY DEF DocumentInv
<1> QED
  BY <1>1, DocumentInvariant, PTL

\* After a document without an error libyaml is between two documents, so that
\* the next call of next_document starts at the beginning of one.
THEOREM DocumentsEndAtBoundaries == Spec => []ErrorFreeEndsAtBoundary
<1>1. DocumentInv => ErrorFreeEndsAtBoundary
  BY DEF DocumentInv
<1> QED
  BY <1>1, DocumentInvariant, PTL
=============================================================================
