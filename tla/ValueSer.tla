------------------------------ MODULE ValueSer ------------------------------
(***************************************************************************)
(* to_value: value::Serializer (src/value/ser.rs), given data of a Rust    *)
(* type.  A type says which methods its Serialize and Deserialize call; a  *)
(* datum is a tree of the same shape as a value.  Strings that matter are  *)
(* those that start with a bang, numbers those that 64 bits cannot hold.   *)
(***************************************************************************)
EXTENDS ValueMap, SequencesExt

CONSTANTS
  Names,  \* the texts that may follow a bang
  Wide    \* the numbers beyond 64 bits, as i128 prints them

\* A type: the kind, the names of its fields or variants, and the types of its
\* parts.  A variant is a type too.
Type(kind, names, parts) == [kind |-> kind, names |-> names, parts |-> parts]

Datum(kind, text, items) == Node(kind, text, Unanchored, items)
Plain(text) == Datum("Plain", text, <<>>)

String(text) == Node("String", text, Unanchored, <<>>)

-----------------------------------------------------------------------------
(* Tags.                                                                   *)

IsBanged(text) == \E name \in Names : text = "!" \o name

\* strip_prefix('!'), unless nothing is left.
NoBang(text) ==
  IF IsBanged(text) THEN CHOOSE name \in Names : text = "!" \o name ELSE text

\* CheckForTag's collect_str, with check_for_tag.
CollectStr(text) ==
  IF IsBanged(text) THEN TagKey(NoBang(text)) ELSE Key(String(text))

-----------------------------------------------------------------------------
(* The values of scalars.                                                  *)

Number(text) == Node("NonString", text, Unanchored, <<>>)
Sequence(values) ==
  Node("Sequence", "", Unanchored, [i \in DOMAIN values |-> Element(values[i])])

\* serialize_i128 and serialize_u128
WideInteger(text) == IF text \in Wide THEN String(text) ELSE Number(text)

\* A variant's content under its name.
UnderTag(variant, v) == IF variant = "" \/ Fails(v) THEN NoKey ELSE Tagged(variant, v)

\* Elements are pushed until one fails.
Pushed(values) ==
  IF \E i \in DOMAIN values : Fails(values[i]) THEN NoKey ELSE Sequence(values)

\* Fields are inserted by name until one fails.
Fields(names, values) ==
  IF \E i \in DOMAIN values : Fails(values[i]) THEN NoKey
  ELSE Mapping([i \in DOMAIN values |-> Entry(String(names[i]), values[i])])

\* What serialize_entry leaves, or NoKey for a map that failed.
PutPair(map, pair) ==
  IF map = NoKey THEN NoKey
  ELSE LET put == PutEntry(map, pair.key, pair.value)
       IN  IF put.error = "none" THEN put.map ELSE NoKey

\* A map that is serialized pair by pair, its length announced.
Collected(pairs) ==
  LET map == FoldLeft(PutPair, StartMap(Len(pairs)), pairs)
  IN  IF map = NoKey THEN NoKey ELSE EndMap(map)

-----------------------------------------------------------------------------
(* Serialization.                                                          *)

RECURSIVE ToValue(_, _)
RECURSIVE OfValue(_)

\* Serialize for Value without its anchor, when it is a value::Serializer that
\* is given it.  A tagged value is a map of one pair.
OfBareValue(v) ==
  IF v.kind = "Alias"         THEN String(v.text)
  ELSE IF v.kind = "Sequence" THEN Pushed([i \in DOMAIN v.items |-> OfValue(v.items[i].value)])
  ELSE IF v.kind = "Mapping"
    THEN Collected([i \in DOMAIN v.items |->
                      Entry(Key(OfValue(v.items[i].key)), OfValue(v.items[i].value))])
  ELSE IF v.kind = "Tagged"
    THEN Collected(<<Entry(CollectStr("!" \o NoBang(v.text)), OfValue(v.items[1].value))>>)
  ELSE v

\* value::Serializer does not know the newtype of an anchor: it is a pair.
OfValue(v) ==
  IF v.anchor = Unanchored THEN OfBareValue(v)
  ELSE Pushed(<<String(v.anchor), OfBareValue([v EXCEPT !.anchor = Unanchored])>>)

\* The parts of a datum, each as its type has it.
PartsToValues(types, d) == [i \in DOMAIN d.items |-> ToValue(types[i], d.items[i].value)]

\* A variant of an enum.
VariantToValue(variant, d) ==
  LET values == PartsToValues(variant.parts, d)
  IN  CASE variant.kind = "unit variant"    -> String(d.text)
        [] variant.kind = "newtype variant" -> UnderTag(d.text, values[1])
        [] variant.kind = "tuple variant"   -> UnderTag(d.text, Pushed(values))
        [] variant.kind = "struct variant"  -> UnderTag(d.text, Fields(variant.names, values))

VariantOf(type, name) == type.parts[CHOOSE i \in DOMAIN type.names : type.names[i] = name]

\* A key of a map; only a type that is shown as a tag itself can make one.
ToKey(type, d) == IF type.kind = "Display" THEN CollectStr(d.text) ELSE Key(ToValue(type, d))

ToValue(type, d) ==
  CASE type.kind = "unit"                        -> Null
    [] type.kind \in {"bool", "i64"}             -> Number(d.text)
    [] type.kind = "i128"                        -> WideInteger(d.text)
    [] type.kind \in {"String", "&str", "Display"} -> String(d.text)
    [] type.kind = "byte_buf"                    ->
         Pushed([i \in DOMAIN d.items |-> Number(d.items[i].value.text)])
    [] type.kind = "option"                      ->
         IF d.kind = "None" THEN Null ELSE ToValue(type.parts[1], d.items[1].value)
    [] type.kind = "newtype"                     -> ToValue(type.parts[1], d.items[1].value)
    [] type.kind = "seq"                         ->
         Pushed([i \in DOMAIN d.items |-> ToValue(type.parts[1], d.items[i].value)])
    [] type.kind = "tuple"                       -> Pushed(PartsToValues(type.parts, d))
    [] type.kind = "map"                         ->
         Collected([i \in DOMAIN d.items |->
                      Entry(ToKey(type.parts[1], d.items[i].key),
                            ToValue(type.parts[2], d.items[i].value))])
    [] type.kind = "struct"                      -> Fields(type.names, PartsToValues(type.parts, d))
    [] type.kind = "enum"                        -> VariantToValue(VariantOf(type, d.text), d)
    [] type.kind \in {"Value", "TaggedValue"}    -> OfValue(d)
=============================================================================
