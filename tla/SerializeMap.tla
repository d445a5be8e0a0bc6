---------------------------- MODULE SerializeMap ----------------------------
(***************************************************************************)
(* Whoever serializes a map into a Value: it calls serialize_key,          *)
(* serialize_value and serialize_entry in any order, goes on after an      *)
(* error if it likes, and calls end.                                       *)
(***************************************************************************)
EXTENDS ValueMap

CONSTANTS
  MapKeys,    \* what is given as a key, a failing one included
  MapValues,  \* the values, a failing one included
  MaxCalls    \* bound: calls before end

ASSUME MapAssumption ==
  /\ \A key \in MapKeys : key.tag # NoTag => key.value = Shown(key.tag)
  /\ MaxCalls \in Nat

VARIABLES
  map,     \* the SerializeMap
  length,  \* the announced length; 0 stands for all others than one
  result,  \* what end returned, or NoKey
  calls,   \* history: the number of calls
  given,   \* history: the pairs that were accepted
  lost     \* history: whether serialize_entry failed on a tagged value

mapVars == <<map, length, result, calls, given, lost>>

MapInit ==
  /\ length \in {0, 1}
  /\ map = StartMap(length)
  /\ result = NoKey
  /\ calls = 0
  /\ given = <<>>
  /\ lost = FALSE

\* A call, after which these are the pairs if it is accepted.
Call(done, pairs) ==
  /\ result = NoKey
  /\ calls < MaxCalls
  /\ map' = done.map
  /\ calls' = calls + 1
  /\ given' = IF done.error = "none" THEN pairs ELSE given
  /\ UNCHANGED <<length, result>>

SerializeKey ==
  \E key \in MapKeys :
    /\ Call(PutKey(map, key), given)
    /\ UNCHANGED lost

SerializeValue ==
  \E v \in MapValues :
    /\ Call(PutValue(map, v), Append(given, Entry(map.next, v)))
    /\ UNCHANGED lost

SerializeEntry ==
  \E key \in MapKeys, v \in MapValues :
    /\ Call(PutEntry(map, key, v), Append(given, Entry(key.value, v)))
    /\ lost' = (lost \/ (map.state = "Tagged" /\ PutEntry(map, key, v).error # "none"))

End ==
  /\ result = NoKey
  /\ result' = EndMap(map)
  /\ UNCHANGED <<map, length, calls, given, lost>>

MapNext ==
  \/ SerializeKey
  \/ SerializeValue
  \/ SerializeEntry
  \/ End

MapSpec == MapInit /\ [][MapNext]_mapVars

-----------------------------------------------------------------------------
(* What is checked.                                                        *)

\* The pairs of a map: a tagged value stands for one, whose key shows the tag.
PairsOf(v) == IF v.kind = "Tagged" THEN <<Entry(Shown(v.text), v.items[1].value)>> ELSE v.items

\* The pairs are those that were given, each key with its last value.
AreThose(pairs, those) ==
  /\ KeysOf(pairs) = KeysOf(those)
  /\ \A i, j \in 1 .. Len(pairs) : pairs[i].key = pairs[j].key => i = j
  /\ \A i \in 1 .. Len(those) :
       (\A j \in i + 1 .. Len(those) : those[j].key # those[i].key)
         => \E k \in 1 .. Len(pairs) : pairs[k] = those[i]

\* However the calls are mixed and whichever of them fail, no pair that was
\* accepted is lost, unless the second pair of a tagged value fails; the map may
\* be a tagged value in between.
MapKeepsPairs ==
  ~lost => AreThose(PairsOf(IF result = NoKey THEN EndMap(map) ELSE result), given)

\* Only a map that was announced with one entry and got one becomes a tagged
\* value.
TagsStandAlone ==
  result.kind = "Tagged" => length = 1 /\ Len(given) = 1
=============================================================================
