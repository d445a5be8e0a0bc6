------------------------------ MODULE ValueMap ------------------------------
(***************************************************************************)
(* SerializeMap of src/value/ser.rs, which makes a Value of a map that is  *)
(* given to it key by key and value by value.  A map that is announced     *)
(* with one entry may be a tagged value: TaggedValue serializes itself as  *)
(* one, with a key whose text starts with a bang.                          *)
(*                                                                         *)
(* A key is what to_value makes of it, and its tag if it is serialized by  *)
(* collect_str and shown as one.  What fails to serialize is a NoKey.      *)
(***************************************************************************)
EXTENDS Value

\* Tag's Display.
Shown(tag) == Node("String", "!" \o tag, Unanchored, <<>>)

Tagged(tag, v) == Node("Tagged", tag, Unanchored, <<Element(v)>>)
Mapping(items) == Node("Mapping", "", Unanchored, items)

NoTag == ""
Key(v) == [value |-> v, tag |-> NoTag]
TagKey(tag) == [value |-> Shown(tag), tag |-> tag]

Fails(v) == v = NoKey

Untagged(items, next) ==
  [state |-> "Untagged", tag |-> NoTag, value |-> NoKey, items |-> items, next |-> next]
AsTagged(tag, v) ==
  [state |-> "Tagged", tag |-> tag, value |-> v, items |-> <<>>, next |-> NoKey]
CheckForTag ==
  [state |-> "CheckForTag", tag |-> NoTag, value |-> NoKey, items |-> <<>>, next |-> NoKey]

\* serialize_map; a length that is not known is not one.
StartMap(len) == IF len = 1 THEN CheckForTag ELSE Untagged(<<>>, NoKey)

Accept(map) == [map |-> map, error |-> "none"]
Reject(map, error) == [map |-> map, error |-> error]

\* The pair of a tagged value, once it turns out to be a mapping's.
TagPair(map) == <<Entry(Shown(map.tag), map.value)>>

\* serialize_key
PutKey(map, key) ==
  IF Fails(key.value)                THEN Reject(map, "Fails")
  ELSE IF map.state = "CheckForTag"  THEN Accept(Untagged(<<>>, key.value))
  ELSE IF map.state = "Tagged"       THEN Accept(Untagged(TagPair(map), key.value))
  ELSE Accept(Untagged(map.items, key.value))

\* serialize_value: the key is taken, whether the value can be serialized or
\* not.
PutValue(map, v) ==
  IF map.state # "Untagged" \/ map.next = NoKey
    THEN Reject(map, "SerializedValueBeforeSerializeKey")
  ELSE IF Fails(v)
    THEN Reject(Untagged(map.items, NoKey), "Fails")
  ELSE Accept(Untagged(Insert(map.items, map.next, v), NoKey))

\* serialize_entry of a tagged value takes its value before it serializes the
\* second pair.
SecondEntry(map, key, v) ==
  IF Fails(key.value) \/ Fails(v)
    THEN Reject(AsTagged(map.tag, Null), "Fails")
    ELSE Accept(Untagged(Insert(TagPair(map), key.value, v), NoKey))

\* A mutant of PutEntry: the pair of the tagged value is forgotten.
PutEntryForgetting(map, key, v) ==
  IF map.state = "Tagged" /\ ~Fails(key.value) /\ ~Fails(v)
    THEN Accept(Untagged(<<Entry(key.value, v)>>, NoKey))
  ELSE IF Fails(key.value) \/ Fails(v) THEN Reject(map, "Fails")
  ELSE IF map.state = "CheckForTag" /\ key.tag # NoTag THEN Accept(AsTagged(key.tag, v))
  ELSE Accept(Untagged(Insert(map.items, key.value, v), map.next))

\* A mutant of PutEntry: a map of any length may be a tagged value.
PutEntryTagging(map, key, v) ==
  IF map.state = "Tagged"              THEN SecondEntry(map, key, v)
  ELSE IF Fails(key.value) \/ Fails(v) THEN Reject(map, "Fails")
  ELSE IF map.items = <<>> /\ key.tag # NoTag THEN Accept(AsTagged(key.tag, v))
  ELSE Accept(Untagged(Insert(map.items, key.value, v), map.next))

\* serialize_entry
PutEntry(map, key, v) ==
  IF map.state = "Tagged"              THEN SecondEntry(map, key, v)
  ELSE IF Fails(key.value) \/ Fails(v) THEN Reject(map, "Fails")
  ELSE IF map.state = "CheckForTag" /\ key.tag # NoTag THEN Accept(AsTagged(key.tag, v))
  ELSE Accept(Untagged(Insert(map.items, key.value, v), map.next))

\* end
EndMap(map) ==
  IF map.state = "Tagged" THEN Tagged(map.tag, map.value) ELSE Mapping(map.items)
=============================================================================
