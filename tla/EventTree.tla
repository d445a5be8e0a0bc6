----------------------------- MODULE EventTree ------------------------------
(***************************************************************************)
(* The tree that the events of a document are: which of them are one node, *)
(* and which nodes are directly in a collection.  Positions count from 1.  *)
(***************************************************************************)
EXTENDS Integers, Sequences, FiniteSets

IsStart(e) == e.type \in {"SequenceStart", "MappingStart"}
IsEnd(e) == e.type \in {"SequenceEnd", "MappingEnd"}

\* The collections that are open after the first k events.
Depth(d, k) ==
  Cardinality({ i \in 1 .. k : IsStart(d.events[i]) })
    - Cardinality({ i \in 1 .. k : IsEnd(d.events[i]) })

\* The events i .. j are one whole node.
OneNode(d, i, j) ==
  /\ ~IsEnd(d.events[i])
  /\ Depth(d, j) = Depth(d, i - 1)
  /\ \A q \in i .. j - 1 : Depth(d, q) > Depth(d, i - 1)

\* The nodes directly in the collection that starts at s, as far as they begin
\* before q.
Children(d, s, q) ==
  { p \in s + 1 .. q - 1 :
      /\ ~IsEnd(d.events[p])
      /\ Depth(d, p - 1) = Depth(d, s)
      /\ \A r \in s .. p - 1 : Depth(d, r) >= Depth(d, s) }

\* In a mapping keys and values take turns.
IsKey(d, s, p) ==
  /\ d.events[s].type = "MappingStart"
  /\ p \in Children(d, s, p + 1)
  /\ Cardinality(Children(d, s, p)) % 2 = 0

\* libyaml's events are well-nested (the source of Loader): a collection that is
\* complete ends as it began, and mappings are made of pairs.  Void stands for a
\* stream without documents.
WellNested(d) ==
  /\ \A k \in 1 .. Len(d.events) :
       /\ Depth(d, k) >= 0
       /\ d.events[k].type = "Void" => Len(d.events) = 1
  /\ \A s, e \in 1 .. Len(d.events) :
       IsStart(d.events[s]) /\ s < e /\ OneNode(d, s, e) =>
         IF d.events[s].type = "SequenceStart" THEN d.events[e].type = "SequenceEnd"
         ELSE /\ d.events[e].type = "MappingEnd"
              /\ Cardinality(Children(d, s, e)) % 2 = 0

\* A document without an error is one node (the theorem DocumentsAreWhole about
\* the loader).
Whole(d) == d.error \/ (d.events # <<>> /\ OneNode(d, 1, Len(d.events)))
=============================================================================
