------------------------- MODULE SerializeMapProofs -------------------------
(***************************************************************************)
(* Theorems about SerializeMap, for all keys, values and numbers of calls: *)
(* what is accepted is kept, and a tagged value stands for one pair.       *)
(***************************************************************************)
EXTENDS SerializeMap, TLAPS

\* The three states of a SerializeMap, and what is known of the pairs in each.
StateOK ==
  /\ map.state \in {"CheckForTag", "Tagged", "Untagged"}
  /\ map.state # "Tagged" => IsSequence(map.items)
  /\ map.state = "CheckForTag" => map.items = <<>> /\ given = <<>> /\ length = 1
  /\ map.state = "Tagged" => length = 1 /\ Len(given) = 1

PairsOK == ~lost => AreThose(PairsOf(EndMap(map)), given)

Inv ==
  /\ StateOK
  /\ IsSequence(given)
  /\ PairsOK
  /\ lost \in BOOLEAN
  /\ result = NoKey \/ result = EndMap(map)

-----------------------------------------------------------------------------
(* Sequences of pairs.                                                     *)

LEMMA SeqIsSequence ==
  ASSUME NEW S, NEW s \in Seq(S)
  PROVE  IsSequence(s)
<1>1. Len(s) \in Nat /\ DOMAIN s = 1 .. Len(s)
  OBVIOUS
<1> DEFINE T == { s[i] : i \in DOMAIN s }
<1>2. s \in [1 .. Len(s) -> T]
  BY <1>1
<1> QED BY <1>1, <1>2 DEF IsSequence

LEMMA EmptySequence == IsSequence(<<>>)
<1>1. <<>> \in Seq({})
  OBVIOUS
<1> QED BY <1>1, SeqIsSequence

LEMMA AppendSequence ==
  ASSUME NEW s, IsSequence(s), NEW x
  PROVE  /\ IsSequence(Append(s, x))
         /\ Len(Append(s, x)) = Len(s) + 1
         /\ \A i \in 1 .. Len(s) : Append(s, x)[i] = s[i]
         /\ Append(s, x)[Len(s) + 1] = x
         /\ Len(s) \in Nat
<1> DEFINE S == { s[i] : i \in DOMAIN s } \cup {x}
<1>1. s \in Seq({ s[i] : i \in DOMAIN s })
  BY DEF IsSequence
<1>2. s \in Seq(S)
  BY <1>1
<1>3. x \in S
  OBVIOUS
<1> HIDE DEF S
<1>4. Append(s, x) \in Seq(S)
  BY <1>2, <1>3
<1>5. IsSequence(Append(s, x))
  BY <1>4, SeqIsSequence
<1> QED BY <1>2, <1>3, <1>5

LEMMA AppendKeys ==
  ASSUME NEW items, IsSequence(items), NEW e
  PROVE  KeysOf(Append(items, e)) = KeysOf(items) \cup {e.key}
<1> DEFINE new == Append(items, e)
<1>1. /\ Len(new) = Len(items) + 1
      /\ \A i \in 1 .. Len(items) : new[i] = items[i]
      /\ new[Len(items) + 1] = e
      /\ Len(items) \in Nat
  BY AppendSequence
<1> HIDE DEF new
<1>2. 1 .. Len(new) = 1 .. Len(items) \cup {Len(items) + 1}
  BY <1>1
<1>3. KeysOf(new) = { new[i].key : i \in 1 .. Len(items) } \cup {e.key}
  BY <1>1, <1>2 DEF KeysOf
<1>4. { new[i].key : i \in 1 .. Len(items) } = KeysOf(items)
  BY <1>1 DEF KeysOf
<1> QED BY <1>3, <1>4 DEF new

\* Insert, by its two cases.
LEMMA InsertedPairs ==
  ASSUME NEW items, IsSequence(items), NEW key, NEW v,
         NEW new, new = Insert(items, key, v)
  PROVE  /\ IsSequence(new)
         /\ KeysOf(new) = KeysOf(items) \cup {key}
         /\ Len(items) \in Nat
         /\ key \in KeysOf(items) =>
              /\ Len(new) = Len(items)
              /\ \A i \in 1 .. Len(items) :
                   new[i] = IF items[i].key = key THEN Entry(key, v) ELSE items[i]
         /\ key \notin KeysOf(items) =>
              /\ Len(new) = Len(items) + 1
              /\ \A i \in 1 .. Len(items) : new[i] = items[i]
              /\ new[Len(items) + 1] = Entry(key, v)
<1>1. Entry(key, v).key = key
  BY DEF Entry
<1>2. items \in Seq({ items[i] : i \in DOMAIN items })
  BY DEF IsSequence
<1>3. Len(items) \in Nat /\ DOMAIN items = 1 .. Len(items)
  BY <1>2
<1>4. CASE key \notin KeysOf(items)
  <2>1. new = Append(items, Entry(key, v))
    BY <1>4 DEF Insert
  <2>2. KeysOf(new) = KeysOf(items) \cup {key}
    BY <1>1, <2>1, AppendKeys
  <2>3. /\ IsSequence(new)
        /\ Len(new) = Len(items) + 1
        /\ \A i \in 1 .. Len(items) : new[i] = items[i]
        /\ new[Len(items) + 1] = Entry(key, v)
    BY <2>1, AppendSequence
  <2> QED BY <1>3, <1>4, <2>2, <2>3
<1>5. CASE key \in KeysOf(items)
  <2> DEFINE at(i) == IF items[i].key = key THEN Entry(key, v) ELSE items[i]
             S == { at(i) : i \in 1 .. Len(items) }
  <2>1. new = [i \in 1 .. Len(items) |-> at(i)]
    BY <1>5 DEF Insert
  <2>2. \A i \in 1 .. Len(items) : new[i] = at(i)
    BY <2>1
  <2>3. new \in [1 .. Len(items) -> S]
    BY <2>1
  <2>4. \A i \in 1 .. Len(items) : at(i).key = items[i].key
    BY <1>1
  <2> HIDE DEF at, S
  <2>5. new \in Seq(S) /\ Len(new) = Len(items)
    BY <1>3, <2>3
  <2>6. IsSequence(new)
    BY <2>5, SeqIsSequence
  <2>7. \A i \in 1 .. Len(items) : new[i].key = items[i].key
    BY <2>2, <2>4
  <2>8. KeysOf(new) = KeysOf(items)
    BY <2>5, <2>7 DEF KeysOf
  <2> QED BY <1>3, <1>5, <2>2, <2>5, <2>6, <2>8 DEF at
<1> QED BY <1>4, <1>5

\* A pair that is given once more.
LEMMA OneMore ==
  ASSUME NEW pairs, IsSequence(pairs), NEW those, IsSequence(those),
         AreThose(pairs, those), NEW key, NEW v
  PROVE  AreThose(Insert(pairs, key, v), Append(those, Entry(key, v)))
<1> DEFINE new == Insert(pairs, key, v)
           e == Entry(key, v)
           all == Append(those, e)
<1>1. e.key = key
  BY DEF Entry
<1>2. /\ Len(all) = Len(those) + 1
      /\ \A i \in 1 .. Len(those) : all[i] = those[i]
      /\ all[Len(those) + 1] = e
      /\ Len(those) \in Nat
  BY AppendSequence
<1>3. /\ KeysOf(new) = KeysOf(pairs) \cup {key}
      /\ Len(pairs) \in Nat
      /\ key \in KeysOf(pairs) =>
           /\ Len(new) = Len(pairs)
           /\ \A i \in 1 .. Len(pairs) : new[i] = IF pairs[i].key = key THEN e ELSE pairs[i]
      /\ key \notin KeysOf(pairs) =>
           /\ Len(new) = Len(pairs) + 1
           /\ \A i \in 1 .. Len(pairs) : new[i] = pairs[i]
           /\ new[Len(pairs) + 1] = e
  BY InsertedPairs
<1>4. /\ KeysOf(pairs) = KeysOf(those)
      /\ \A i, j \in 1 .. Len(pairs) : pairs[i].key = pairs[j].key => i = j
      /\ \A i \in 1 .. Len(those) :
           (\A j \in i + 1 .. Len(those) : those[j].key # those[i].key)
             => \E k \in 1 .. Len(pairs) : pairs[k] = those[i]
  BY DEF AreThose
<1>5. KeysOf(all) = KeysOf(those) \cup {key}
  BY <1>1, AppendKeys
<1>6. \A i \in 1 .. Len(pairs) : pairs[i].key \in KeysOf(pairs)
  BY DEF KeysOf
<1>7. key \in KeysOf(pairs) => \E k \in 1 .. Len(pairs) : pairs[k].key = key
  BY DEF KeysOf
<1> HIDE DEF new, e, all
<1>8. ASSUME NEW i \in 1 .. Len(new), NEW j \in 1 .. Len(new), new[i].key = new[j].key
      PROVE  i = j
  <2>1. CASE key \in KeysOf(pairs)
    <3>1. \A k \in 1 .. Len(pairs) : new[k].key = pairs[k].key
      BY <1>1, <1>3, <2>1
    <3> QED BY <1>3, <1>4, <1>8, <2>1, <3>1
  <2>2. CASE key \notin KeysOf(pairs)
    <3>1. \A k \in 1 .. Len(pairs) : new[k] = pairs[k] /\ new[k].key # key
      BY <1>3, <1>6, <2>2
    <3>2. new[Len(pairs) + 1].key = key
      BY <1>1, <1>3, <2>2
    <3>3. i \in 1 .. Len(pairs) \/ i = Len(pairs) + 1
      BY <1>3, <2>2
    <3>4. j \in 1 .. Len(pairs) \/ j = Len(pairs) + 1
      BY <1>3, <2>2
    <3> QED BY <1>4, <1>8, <3>1, <3>2, <3>3, <3>4
  <2> QED BY <2>1, <2>2
<1>9. ASSUME NEW i \in 1 .. Len(all),
             \A j \in i + 1 .. Len(all) : all[j].key # all[i].key
      PROVE  \E k \in 1 .. Len(new) : new[k] = all[i]
  <2>1. CASE i = Len(those) + 1
    <3>1. all[i] = e
      BY <1>2, <2>1
    <3>2. CASE key \in KeysOf(pairs)
      BY <1>3, <1>7, <3>1, <3>2
    <3>3. CASE key \notin KeysOf(pairs)
      BY <1>3, <3>1, <3>3
    <3> QED BY <3>2, <3>3
  <2>2. CASE i # Len(those) + 1
    <3>1. i \in 1 .. Len(those) /\ all[i] = those[i]
      BY <1>2, <2>2
    <3>2. Len(those) + 1 \in i + 1 .. Len(all)
      BY <1>2, <3>1
    <3>3. those[i].key # key
      BY <1>1, <1>2, <1>9, <3>1, <3>2
    <3>4. \A j \in i + 1 .. Len(those) : those[j].key # those[i].key
      BY <1>2, <1>9, <3>1
    <3>5. PICK k \in 1 .. Len(pairs) : pairs[k] = those[i]
      BY <1>4, <3>1, <3>4
    <3>6. k \in 1 .. Len(new) /\ new[k] = pairs[k]
      BY <1>3, <3>3, <3>5
    <3> QED BY <3>1, <3>5, <3>6
  <2> QED BY <2>1, <2>2
<1>10. KeysOf(new) = KeysOf(all)
  BY <1>3, <1>4, <1>5
<1> QED BY <1>8, <1>9, <1>10 DEF AreThose, new, all, e
-----------------------------------------------------------------------------
(* The calls.                                                              *)

\* A map that is one of the three states: what its pairs are.
LEMMA PairsOfUntagged ==
  ASSUME NEW items, NEW next
  PROVE  PairsOf(EndMap(Untagged(items, next))) = items
BY DEF EndMap, Untagged, PairsOf, Mapping, Node

LEMMA PairsOfTagged ==
  ASSUME NEW tag, NEW v
  PROVE  PairsOf(EndMap(AsTagged(tag, v))) = <<Entry(Shown(tag), v)>>
BY DEF EndMap, AsTagged, PairsOf, Tagged, Node, Element, Entry

\* An Untagged map with pairs that are those given.
LEMMA UntaggedOK ==
  ASSUME NEW items, IsSequence(items), NEW next,
         map' = Untagged(items, next), IsSequence(given'),
         ~lost' => AreThose(items, given')
  PROVE  StateOK' /\ PairsOK'
<1>1. /\ map'.state = "Untagged" /\ map'.items = items
  BY DEF Untagged
<1>2. PairsOf(EndMap(map')) = items
  BY PairsOfUntagged
<1>3. StateOK'
  BY <1>1 DEF StateOK
<1>4. PairsOK'
  BY <1>2 DEF PairsOK
<1> QED BY <1>3, <1>4

\* One pair is the pair that was given.
LEMMA OnePair ==
  ASSUME NEW e
  PROVE  AreThose(<<e>>, <<e>>) /\ IsSequence(<<e>>) /\ AreThose(<<>>, <<>>)
<1>1. IsSequence(<<e>>)
  <2>1. <<e>> \in Seq({e})
    OBVIOUS
  <2> QED BY <2>1, SeqIsSequence
<1>2. Len(<<e>>) = 1 /\ <<e>>[1] = e /\ 1 .. 1 = {1} /\ 1 .. 0 = {} /\ Len(<<>>) = 0
  OBVIOUS
<1>3. AreThose(<<e>>, <<e>>)
  BY <1>2 DEF AreThose
<1>4. AreThose(<<>>, <<>>)
  BY <1>2 DEF AreThose, KeysOf
<1> QED BY <1>1, <1>3, <1>4

\* The pairs of a map that may get more of them.
LEMMA OldPairs ==
  ASSUME Inv, ~lost
  PROVE  /\ map.state = "Tagged" => AreThose(TagPair(map), given)
         /\ map.state # "Tagged" => AreThose(map.items, given)
<1>1. AreThose(PairsOf(EndMap(map)), given)
  BY DEF Inv, PairsOK
<1>2. CASE map.state = "Tagged"
  <2>1. PairsOf(EndMap(map)) = TagPair(map)
    BY <1>2 DEF EndMap, PairsOf, Tagged, Node, Element, Entry, TagPair
  <2> QED BY <1>1, <1>2, <2>1
<1>3. CASE map.state # "Tagged"
  <2>1. PairsOf(EndMap(map)) = map.items
    BY <1>3 DEF EndMap, PairsOf, Mapping, Node
  <2> QED BY <1>1, <1>3, <2>1
<1> QED BY <1>2, <1>3

LEMMA InitInv == ASSUME MapInit PROVE Inv
<1>1. /\ length \in {0, 1} /\ map = StartMap(length) /\ result = NoKey /\ given = <<>>
      /\ lost \in BOOLEAN
  BY DEF MapInit
<1>2. map.state = "CheckForTag" \/ map.state = "Untagged"
  BY <1>1 DEF StartMap, CheckForTag, Untagged
<1>3. map.items = <<>> /\ (map.state = "CheckForTag" => length = 1)
  BY <1>1 DEF StartMap, CheckForTag, Untagged
<1>4. StateOK
  BY <1>1, <1>2, <1>3, EmptySequence DEF StateOK
<1>5. PairsOf(EndMap(map)) = <<>>
  BY <1>2, <1>3 DEF EndMap, PairsOf, Mapping, Node
<1>6. PairsOK
  BY <1>1, <1>5, OnePair DEF PairsOK
<1> QED BY <1>1, <1>4, <1>6, EmptySequence DEF Inv

\* A call that leaves map and pairs alone.
LEMMA SameMap ==
  ASSUME Inv, map' = map, given' = given, length' = length, result' = result, lost' = lost
  PROVE  Inv'
BY DEF Inv, StateOK, PairsOK

LEMMA KeyStep == ASSUME Inv, SerializeKey PROVE Inv'
<1>1. PICK key \in MapKeys : /\ Call(PutKey(map, key), given)
                          /\ UNCHANGED lost
  BY DEF SerializeKey
<1>2. /\ map' = PutKey(map, key).map /\ given' = given /\ length' = length
      /\ result = NoKey /\ result' = result /\ lost' = lost
  BY <1>1 DEF Call
<1>3. IsSequence(given')
  BY <1>2 DEF Inv
<1>4. CASE Fails(key.value)
  <2>1. map' = map
    BY <1>2, <1>4 DEF PutKey, Reject
  <2> QED BY <1>2, <2>1, SameMap
<1>5. CASE ~Fails(key.value) /\ map.state = "Tagged"
  <2>1. map' = Untagged(TagPair(map), key.value)
    BY <1>2, <1>5 DEF PutKey, Accept
  <2>2. IsSequence(TagPair(map))
    BY OnePair DEF TagPair
  <2>3. ~lost' => AreThose(TagPair(map), given')
    BY <1>2, <1>5, OldPairs
  <2>4. StateOK' /\ PairsOK'
    BY <1>3, <2>1, <2>2, <2>3, UntaggedOK
  <2> QED BY <1>2, <1>3, <2>4 DEF Inv
<1>6. CASE ~Fails(key.value) /\ map.state # "Tagged"
  <2>1. map' = Untagged(map.items, key.value)
    BY <1>2, <1>6 DEF PutKey, Accept, Inv, StateOK
  <2>2. IsSequence(map.items)
    BY <1>6 DEF Inv, StateOK
  <2>3. ~lost' => AreThose(map.items, given')
    BY <1>2, <1>6, OldPairs
  <2>4. StateOK' /\ PairsOK'
    BY <1>3, <2>1, <2>2, <2>3, UntaggedOK
  <2> QED BY <1>2, <1>3, <2>4 DEF Inv
<1> QED BY <1>4, <1>5, <1>6

LEMMA ValueStep == ASSUME Inv, SerializeValue PROVE Inv'
<1>1. PICK v \in MapValues : /\ Call(PutValue(map, v), Append(given, Entry(map.next, v)))
                          /\ UNCHANGED lost
  BY DEF SerializeValue
<1> DEFINE done == PutValue(map, v)
<1>2. /\ map' = done.map /\ length' = length
      /\ given' = IF done.error = "none" THEN Append(given, Entry(map.next, v)) ELSE given
      /\ result = NoKey /\ result' = result /\ lost' = lost
  BY <1>1 DEF Call
<1>3. IsSequence(given)
  BY DEF Inv
<1>4. CASE map.state # "Untagged" \/ map.next = NoKey
  <2>1. done.map = map /\ done.error # "none"
    BY <1>4 DEF PutValue, Reject
  <2> QED BY <1>2, <2>1, SameMap
<1>5. CASE map.state = "Untagged" /\ map.next # NoKey /\ Fails(v)
  <2>1. done.map = Untagged(map.items, NoKey) /\ done.error # "none"
    BY <1>5 DEF PutValue, Reject
  <2>2. IsSequence(map.items)
    BY <1>5 DEF Inv, StateOK
  <2>3. ~lost' => AreThose(map.items, given')
    BY <1>2, <1>5, <2>1, OldPairs
  <2>4. StateOK' /\ PairsOK'
    BY <1>2, <1>3, <2>1, <2>2, <2>3, UntaggedOK
  <2> QED BY <1>2, <1>3, <2>1, <2>4 DEF Inv
<1>6. CASE map.state = "Untagged" /\ map.next # NoKey /\ ~Fails(v)
  <2>1. done.map = Untagged(Insert(map.items, map.next, v), NoKey) /\ done.error = "none"
    BY <1>6 DEF PutValue, Accept
  <2>2. IsSequence(map.items)
    BY <1>6 DEF Inv, StateOK
  <2>3. IsSequence(Insert(map.items, map.next, v))
    BY <2>2, InsertedPairs
  <2>4. given' = Append(given, Entry(map.next, v)) /\ IsSequence(given')
    BY <1>2, <1>3, <2>1, AppendSequence
  <2>5. ~lost' => AreThose(Insert(map.items, map.next, v), given')
    BY <1>2, <1>3, <1>6, <2>2, <2>4, OldPairs, OneMore
  <2>6. StateOK' /\ PairsOK'
    BY <1>2, <2>1, <2>3, <2>4, <2>5, UntaggedOK
  <2> QED BY <1>2, <2>4, <2>6 DEF Inv
<1> QED BY <1>4, <1>5, <1>6

LEMMA EntryStep == ASSUME Inv, SerializeEntry PROVE Inv'
<1>1. PICK key \in MapKeys, v \in MapValues :
        /\ Call(PutEntry(map, key, v), Append(given, Entry(key.value, v)))
        /\ lost' = (lost \/ (map.state = "Tagged" /\ PutEntry(map, key, v).error # "none"))
  BY DEF SerializeEntry
<1> DEFINE done == PutEntry(map, key, v)
<1>2. /\ map' = done.map /\ length' = length
      /\ given' = IF done.error = "none" THEN Append(given, Entry(key.value, v)) ELSE given
      /\ result = NoKey /\ result' = result
  BY <1>1 DEF Call
<1>3. IsSequence(given) /\ lost \in BOOLEAN
  BY DEF Inv
<1>9. lost' \in BOOLEAN
  BY <1>1
<1>4. CASE map.state = "Tagged" /\ (Fails(key.value) \/ Fails(v))
  <2>1. done.map = AsTagged(map.tag, Null) /\ done.error # "none"
    BY <1>4 DEF PutEntry, SecondEntry, Reject
  <2>2. lost' /\ given' = given
    BY <1>1, <1>2, <1>4, <2>1
  <2>3. map'.state = "Tagged"
    BY <1>2, <2>1 DEF AsTagged
  <2>4. StateOK' /\ PairsOK'
    BY <1>2, <1>4, <2>2, <2>3 DEF Inv, StateOK, PairsOK
  <2> QED BY <1>2, <1>3, <2>2, <2>4, <1>9 DEF Inv
<1>5. CASE map.state = "Tagged" /\ ~Fails(key.value) /\ ~Fails(v)
  <2>1. done.map = Untagged(Insert(TagPair(map), key.value, v), NoKey) /\ done.error = "none"
    BY <1>5 DEF PutEntry, SecondEntry, Accept
  <2>2. lost' = lost
    BY <1>1, <1>3, <2>1
  <2>3. IsSequence(TagPair(map))
    BY OnePair DEF TagPair
  <2>4. IsSequence(Insert(TagPair(map), key.value, v))
    BY <2>3, InsertedPairs
  <2>5. given' = Append(given, Entry(key.value, v)) /\ IsSequence(given')
    BY <1>2, <1>3, <2>1, AppendSequence
  <2>6. ~lost' => AreThose(Insert(TagPair(map), key.value, v), given')
    BY <1>3, <1>5, <2>2, <2>3, <2>5, OldPairs, OneMore
  <2>7. StateOK' /\ PairsOK'
    BY <1>2, <2>1, <2>4, <2>5, <2>6, UntaggedOK
  <2> QED BY <1>2, <2>5, <2>7, <1>9 DEF Inv
<1>6. CASE map.state # "Tagged" /\ (Fails(key.value) \/ Fails(v))
  <2>1. done.map = map /\ done.error # "none"
    BY <1>6 DEF PutEntry, Reject
  <2>2. lost' = lost
    BY <1>1, <1>3, <1>6
  <2> QED BY <1>2, <2>1, <2>2, SameMap
<1>7. CASE map.state = "CheckForTag" /\ key.tag # NoTag /\ ~Fails(key.value) /\ ~Fails(v)
  <2>1. done.map = AsTagged(key.tag, v) /\ done.error = "none"
    BY <1>7 DEF PutEntry, Accept
  <2>2. key.value = Shown(key.tag)
    BY <1>7, MapAssumption
  <2>3. given = <<>> /\ length = 1
    BY <1>7 DEF Inv, StateOK
  <2>4. given' = <<Entry(Shown(key.tag), v)>>
    BY <1>2, <2>1, <2>2, <2>3
  <2>5. PairsOf(EndMap(map')) = given'
    BY <1>2, <2>1, <2>4, PairsOfTagged
  <2>6. PairsOK'
    BY <2>4, <2>5, OnePair DEF PairsOK
  <2>7. map'.state = "Tagged"
    BY <1>2, <2>1 DEF AsTagged
  <2>8. StateOK'
    BY <1>2, <2>3, <2>4, <2>7 DEF StateOK
  <2> QED BY <1>2, <2>4, <2>6, <2>8, <1>9, OnePair DEF Inv
<1>8. CASE /\ map.state # "Tagged" /\ ~Fails(key.value) /\ ~Fails(v)
           /\ ~(map.state = "CheckForTag" /\ key.tag # NoTag)
  <2>1. done.map = Untagged(Insert(map.items, key.value, v), map.next) /\ done.error = "none"
    BY <1>8 DEF PutEntry, Accept
  <2>2. lost' = lost
    BY <1>1, <1>3, <1>8
  <2>3. IsSequence(map.items)
    BY <1>8 DEF Inv, StateOK
  <2>4. IsSequence(Insert(map.items, key.value, v))
    BY <2>3, InsertedPairs
  <2>5. given' = Append(given, Entry(key.value, v)) /\ IsSequence(given')
    BY <1>2, <1>3, <2>1, AppendSequence
  <2>6. ~lost' => AreThose(Insert(map.items, key.value, v), given')
    BY <1>3, <1>8, <2>2, <2>3, <2>5, OldPairs, OneMore
  <2>7. StateOK' /\ PairsOK'
    BY <1>2, <2>1, <2>4, <2>5, <2>6, UntaggedOK
  <2> QED BY <1>2, <2>5, <2>7, <1>9 DEF Inv
<1> QED BY <1>4, <1>5, <1>6, <1>7, <1>8

LEMMA EndStep == ASSUME Inv, End PROVE Inv'
<1>1. /\ result' = EndMap(map) /\ map' = map /\ length' = length /\ given' = given
      /\ lost' = lost
  BY DEF End
<1>2. result' = EndMap(map')
  BY <1>1
<1> QED BY <1>1, <1>2 DEF Inv, StateOK, PairsOK

LEMMA StutterStep == ASSUME Inv, UNCHANGED mapVars PROVE Inv'
<1>1. /\ map' = map /\ length' = length /\ result' = result /\ given' = given /\ lost' = lost
  BY DEF mapVars
<1> QED BY <1>1 DEF Inv, StateOK, PairsOK

LEMMA NextInv == ASSUME Inv, [MapNext]_mapVars PROVE Inv'
BY KeyStep, ValueStep, EntryStep, EndStep, StutterStep DEF MapNext

LEMMA InvImplied == ASSUME Inv PROVE MapKeepsPairs /\ TagsStandAlone
<1>1. MapKeepsPairs
  BY DEF Inv, PairsOK, MapKeepsPairs
<1>2. NoKey.kind # "Tagged"
  BY DEF NoKey, Node
<1>3. EndMap(map).kind = "Tagged" => map.state = "Tagged"
  BY DEF EndMap, Mapping, Node
<1>4. TagsStandAlone
  BY <1>2, <1>3 DEF Inv, StateOK, TagsStandAlone
<1> QED BY <1>1, <1>4

LEMMA AlwaysInv == MapSpec => []Inv
BY InitInv, NextInv, PTL DEF MapSpec

-----------------------------------------------------------------------------

\* A map of any size that is serialized into a Value has the pairs that were
\* accepted, each key with its last value, whichever way they were given and
\* whether or not it was a tagged value for a while.
THEOREM PairsAreKept == MapSpec => []MapKeepsPairs
BY AlwaysInv, InvImplied, PTL

\* A tagged value is never made of a map of several pairs.
THEOREM TaggedAlone == MapSpec => []TagsStandAlone
BY AlwaysInv, InvImplied, PTL
=============================================================================
