-------------------------------- MODULE Value --------------------------------
(***************************************************************************)
(* The values of src/value/mod.rs, as trees.  A scalar is a String or some *)
(* other scalar (numbers, booleans and nulls are not told apart but by     *)
(* their text).  Collections and tagged values hold entries: the pairs of  *)
(* a mapping, in the order of its IndexMap, and the elements of a sequence *)
(* or the value under a tag with NoKey in the place of a key.              *)
(***************************************************************************)
EXTENDS Naturals, Sequences

ScalarKinds == {"String", "NonString"}

\* The place of an anchor that is None.
Unanchored == ""

Node(kind, text, anchor, items) ==
  [kind |-> kind, text |-> text, anchor |-> anchor, items |-> items, id |-> <<>>]

\* Null(None), as an empty document is read.
Null == Node("NonString", "~", Unanchored, <<>>)

\* A value that is not one: where there is no key, or nothing was read.
NoKey == Node("NoKey", "", Unanchored, <<>>)

Alias(name) == Node("Alias", name, Unanchored, <<>>)

Entry(key, value) == [key |-> key, value |-> value]
Element(value) == Entry(NoKey, value)

\* A sequence, of whatever.
IsSequence(s) == s \in Seq({ s[i] : i \in DOMAIN s })

KeysOf(items) == { items[i].key : i \in 1 .. Len(items) }

\* IndexMap::insert: an existing key keeps its place and gets the value.
Insert(items, key, value) ==
  IF key \in KeysOf(items)
    THEN [i \in 1 .. Len(items) |-> IF items[i].key = key THEN Entry(key, value) ELSE items[i]]
    ELSE Append(items, Entry(key, value))
=============================================================================
