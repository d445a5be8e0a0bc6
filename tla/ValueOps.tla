------------------------------ MODULE ValueOps ------------------------------
(***************************************************************************)
(* The operations on a Value: resolve_aliases (src/value/                  *)
(* resolve_aliases.rs) and apply_merge (src/value/mod.rs).  They change a  *)
(* value in place and may fail on the way: both return the value as it     *)
(* then is, and the error or "none".                                       *)
(*                                                                         *)
(* Mappings have an identity, of which apply_merge keeps a set.  The code  *)
(* takes a fresh one from a counter wherever it makes or clones a Mapping; *)
(* here it is the place where it was made or cloned: a path in the tree.   *)
(* Keys keep the empty one, as no operation looks at it.                   *)
(***************************************************************************)
EXTENDS Value, EventTree, SequencesExt, FiniteSetsExt

Done(v) == [value |-> v, error |-> "none"]
Failed(v, error) == [value |-> v, error |-> error]

Tagged(tag, v) == Node("Tagged", tag, Unanchored, <<Element(v)>>)

Positions(v) == 1 .. Len(v.items)

\* The node at the end of a path, and a value with another node there.
At(v, path) == FoldLeft(LAMBDA u, i : u.items[i].value, v, path)

RECURSIVE Put(_, _, _)
Put(v, path, node) ==
  IF path = <<>> THEN node
  ELSE [v EXCEPT !.items[Head(path)].value = Put(@, Tail(path), node)]

\* A value whose mappings were made at a place (Mapping::new).
RECURSIVE Identified(_, _)
Identified(v, place) ==
  [v EXCEPT !.items = [i \in Positions(v) |->
                         Entry(v.items[i].key, Identified(v.items[i].value, Append(place, i)))],
            !.id = IF v.kind = "Mapping" THEN place ELSE <<>>]

-----------------------------------------------------------------------------
(* resolve_aliases                                                         *)

\* collect_anchors: the anchored nodes in the order of the tree, keys included.
RECURSIVE Anchored(_)
Anchored(v) ==
  (IF v.anchor = Unanchored THEN <<>> ELSE <<v>>)
    \o FlattenSeq([i \in Positions(v) |->
                     Anchored(v.items[i].key) \o Anchored(v.items[i].value)])

NamesOf(anchored) == { anchored[i].anchor : i \in 1 .. Len(anchored) }

\* What the map of anchors holds for a name: the last insertion.
Definition(name, anchored) ==
  anchored[CHOOSE i \in 1 .. Len(anchored) :
             /\ anchored[i].anchor = name
             /\ \A j \in i + 1 .. Len(anchored) : anchored[j].anchor # name]

\* A mutant of Cloned: Mapping's Clone is derived and copies the identity.
ClonedWithId(v, place) == v

\* A clone: all its mappings have new identities.
Cloned(v, place) == Identified(v, Append(place, 0))

\* A mutant of Stripped: strip_anchors does not go into collections.
StrippedAtRoot(v) == [v EXCEPT !.anchor = Unanchored]

\* strip_anchors: keys keep theirs.
RECURSIVE Stripped(_)
Stripped(v) ==
  [v EXCEPT !.anchor = Unanchored,
            !.items = [i \in Positions(v) |->
                         Entry(v.items[i].key, Stripped(v.items[i].value))]]

RECURSIVE Resolve(_, _, _, _)

\* The elements or values of a collection, up to the first error.
ResolveItems(v, anchored, visiting, place) ==
  FoldLeft(LAMBDA done, i :
             IF done.error # "none" THEN done
             ELSE LET r == Resolve(done.value.items[i].value, anchored, visiting,
                                   Append(place, i))
                  IN  [value |-> [done.value EXCEPT !.items[i].value = r.value],
                       error |-> r.error],
           Done(v), [i \in Positions(v) |-> i])

\* resolve: an alias is replaced once its copy is resolved.
Resolve(v, anchored, visiting, place) ==
  IF v.kind # "Alias"                     THEN ResolveItems(v, anchored, visiting, place)
  ELSE IF v.text \in visiting             THEN Failed(v, "MergeRecursion")
  ELSE IF v.text \notin NamesOf(anchored) THEN Failed(v, "UnresolvedAlias")
  ELSE LET r == Resolve(Cloned(Definition(v.text, anchored), place),
                        anchored, visiting \cup {v.text}, place)
       IN  IF r.error = "none" THEN Done(Stripped(r.value)) ELSE Failed(v, r.error)

ResolveAliases(v, place) == Resolve(v, Anchored(v), {}, place)

-----------------------------------------------------------------------------
(* apply_merge                                                             *)

IsMergeKey(key) == key.kind = "String" /\ key.text = "<<"

\* Mapping::remove: the last entry takes the place of the one that is removed.
SwapRemove(items, i) ==
  LET moved == [items EXCEPT ![i] = Last(items)] IN Front(moved)

\* mapping.entry(key).or_insert(value)
OrInsert(items, entry) ==
  IF entry.key \in KeysOf(items) THEN items ELSE Append(items, entry)

\* The entries of a mapping with those of a source that it lacks.
Extended(items, source) == FoldLeft(OrInsert, items, source.items)

ElementError(v) ==
  IF v.kind = "Sequence"    THEN "SequenceInMergeElement"
  ELSE IF v.kind = "Tagged" THEN "TaggedInMerge"
  ELSE "ScalarInMergeElement"

\* A mutant of MergeOrder: a sequence is taken in its order.
MergeForward(elements) == elements

\* The last mapping of a sequence goes first.
MergeOrder(elements) == Reverse(elements)

\* One element of a sequence under a merge key, unless one failed before it.
MergeElement(merged, element) ==
  IF merged.error # "none" THEN merged
  ELSE IF element.value.kind = "Mapping"
         THEN [merged EXCEPT !.items = Extended(@, element.value)]
         ELSE [merged EXCEPT !.error = ElementError(element.value)]

\* The entries of a mapping with the value of its merge key merged in.
Merged(items, v) ==
  IF v.kind = "Mapping" THEN [items |-> Extended(items, v), error |-> "none"]
  ELSE IF v.kind = "Sequence"
    THEN FoldLeft(MergeElement, [items |-> items, error |-> "none"], MergeOrder(v.items))
  ELSE [items |-> items, error |-> IF v.kind = "Tagged" THEN "TaggedInMerge" ELSE "ScalarInMerge"]

\* The merge key is removed before its value is looked at.
ExpandMergeKey(v) ==
  LET keys == { i \in Positions(v) : v.kind = "Mapping" /\ IsMergeKey(v.items[i].key) }
  IN  IF keys = {} THEN Done(v)
      ELSE LET i == CHOOSE i \in keys : TRUE
               m == Merged(SwapRemove(v.items, i), v.items[i].value)
           IN  [value |-> [v EXCEPT !.items = m.items], error |-> m.error]

\* The loop of apply_merge: todo is the stack of nodes, visited the identities
\* of the mappings it went through.
RECURSIVE MergeLoop(_, _, _)
MergeLoop(v, todo, visited) ==
  IF todo = <<>> THEN Done(v)
  ELSE LET path == Last(todo)
           node == At(v, path)
       IN  IF node.kind = "Mapping" /\ node.id \in visited THEN Failed(v, "MergeRecursion")
           ELSE LET m == ExpandMergeKey(node)
                    after == Put(v, path, m.value)
                IN  IF m.error # "none" THEN Failed(after, m.error)
                    ELSE MergeLoop(after,
                                   Front(todo) \o [i \in Positions(m.value) |-> Append(path, i)],
                                   visited \cup (IF node.kind = "Mapping" THEN {node.id} ELSE {}))

ApplyMerge(v) == MergeLoop(v, <<<<>>>>, {})

-----------------------------------------------------------------------------
(* Value::deserialize on the events of a document, as from_str and its     *)
(* siblings call it: aliases are read through, anchors are dropped, and    *)
(* Mapping's own visitor refuses a key that is there already.              *)

Got(v, next) == [value |-> v, next |-> next, error |-> "none"]
Broken(error) == [value |-> NoKey, next |-> 0, error |-> error]

\* The starts less the ends among the events from p on, up to q exclusive.
OpenBetween(d, p, q) ==
  Cardinality({ i \in p .. q - 1 : IsStart(d.events[i]) })
    - Cardinality({ i \in p .. q - 1 : IsEnd(d.events[i]) })

\* The position after the node at p (ignore_any): past the end, if it is cut off.
After(d, p) ==
  LET ends == { q \in p + 1 .. Len(d.events) + 1 : OpenBetween(d, p, q) = 0 }
  IN  IF ends = {} THEN Len(d.events) + 1 ELSE Min(ends)

\* What deserialize_any makes of a scalar: a plain one that is empty is a null.
VisitScalar(e, nonStrings) ==
  IF e.text = "" /\ ~e.quoted THEN Null
  ELSE Node(IF e.text \in nonStrings /\ ~e.quoted THEN "NonString" ELSE "String",
            e.text, Unanchored, <<>>)

\* A mutant of Occupied: an entry is inserted without a look.
OccupiedNever(items, key) == FALSE

\* mapping.entry(key) is occupied.
Occupied(items, key) == key \in KeysOf(items)

\* What is read of a node with a tag is under that tag.
Enclosed(e, read) ==
  IF e.tag = "" \/ read.error # "none" THEN read
  ELSE Got(Tagged(e.tag, read.value), read.next)

\* options: the strategy for duplicate keys and the texts that are no strings.
\* open: the nodes being read; an alias to one of them is followed until a
\* limit is reached.
RECURSIVE ReadNode(_, _, _, _)
RECURSIVE ReadElements(_, _, _, _, _)
RECURSIVE ReadPairs(_, _, _, _, _, _)

\* visit_seq
ReadElements(d, p, open, options, items) ==
  IF p > Len(d.events)        THEN Broken("EndOfStream")
  ELSE IF IsEnd(d.events[p])  THEN Got(Node("Sequence", "", Unanchored, items), p + 1)
  ELSE LET r == ReadNode(d, p, open, options)
       IN  IF r.error # "none" THEN r
           ELSE ReadElements(d, r.next, open, options, Append(items, Element(r.value)))

\* MapAccess, which compares the texts of scalars, under Mapping's visitor,
\* which compares keys; `seen` is MapAccess::seen.
ReadPairs(d, p, open, options, items, seen) ==
  IF p > Len(d.events)       THEN Broken("EndOfStream")
  ELSE IF IsEnd(d.events[p]) THEN Got(Node("Mapping", "", Unanchored, items), p + 1)
  ELSE LET e == d.events[p]
           marked == e.type = "Scalar" /\ options.strategy # "LastWins"
       IN  IF marked /\ e.text \in seen
             THEN IF options.strategy = "Error" THEN Broken("DuplicateKey")
                  ELSE ReadPairs(d, After(d, After(d, p)), open, options, items, seen)
             ELSE LET k == ReadNode(d, p, open, options)
                  IN  IF k.error # "none" THEN k
                      ELSE IF Occupied(items, k.value) THEN Broken("DuplicateKey")
                      ELSE LET v == ReadNode(d, k.next, open, options)
                           IN  IF v.error # "none" THEN v
                               ELSE ReadPairs(d, v.next, open, options,
                                              Append(items, Entry(k.value, v.value)),
                                              IF marked THEN seen \cup {e.text} ELSE seen)

\* deserialize_any of ValueVisitor.  A tag makes an enum of the node.
ReadNode(d, p, open, options) ==
  IF p > Len(d.events) THEN Broken("EndOfStream")
  ELSE
    LET e == d.events[p]
        inside == open \cup {p}
    IN  Enclosed(e,
          CASE e.type = "Scalar"        -> Got(VisitScalar(e, options.nonStrings), p + 1)
            [] e.type = "Void"          -> Got(Null, p + 1)
            [] e.type = "SequenceStart" -> ReadElements(d, p + 1, inside, options, <<>>)
            [] e.type = "MappingStart"  -> ReadPairs(d, p + 1, inside, options, <<>>, {})
            [] e.type = "Alias"         ->
                 LET target == d.aliases[e.id + 1] + 1
                 IN  IF target \in open THEN Broken("RepetitionLimitExceeded")
                     ELSE [ReadNode(d, target, open, options) EXCEPT !.next = p + 1]
            [] OTHER                    -> Broken("UnexpectedEnd"))

\* A value that was read is merged; what from_value makes of it is the same
\* value once more.
Finished(read) ==
  IF read.error = "none" THEN Done(Identified(read.value, <<0>>)) ELSE read
MergedIfRead(read) == IF read.error = "none" THEN ApplyMerge(read.value) ELSE read

\* Deserializer::de around the nodes.
Deserialized(d, read) ==
  IF read.error # "none" THEN Failed(NoKey, read.error)
  ELSE IF d.error        THEN Failed(NoKey, "DocumentError")
  ELSE Done(Identified(read.value, <<0>>))

FromEvents(d, options) == Deserialized(d, ReadNode(d, 1, {}, options))

\* from_str, where T is Value.
FromStr(d, options) == Finished(MergedIfRead(FromEvents(d, options)))
=============================================================================
