------------------------------ MODULE ValueDe ------------------------------
(***************************************************************************)
(* Deserializer for Value (src/value/de.rs): from_value, which takes the   *)
(* value apart.  Each method of serde's Deserializer makes a call of the   *)
(* visitor it is given, or refuses the value.                              *)
(***************************************************************************)
EXTENDS ValueSer

CONSTANTS Base64  \* the texts that decode

\* A call of a visitor.
Visit(how, text, items) == [how |-> how, text |-> text, items |-> items]
Refuse == Visit("refuse", "", <<>>)

IsNull(v) == v.kind = "NonString" /\ v.text = "~"
IsBool(v) == v.kind = "NonString" /\ v.text \in {"true", "false"}
IsNumber(v) == v.kind = "NonString" /\ ~IsNull(v) /\ ~IsBool(v)

\* untag: all tags are taken off.
RECURSIVE Untag(_)
Untag(v) == IF v.kind = "Tagged" THEN Untag(v.items[1].value) ELSE v

BINARY == "tag:yaml.org,2002:binary"

\* The variant's name and, if there is one, its value.
Variant(name, content) == Visit("enum", name, content)

-----------------------------------------------------------------------------

DeserializeAny(v) ==
  IF IsNull(v)                THEN Visit("unit", "", <<>>)
  ELSE IF IsBool(v)           THEN Visit("bool", v.text, <<>>)
  ELSE IF IsNumber(v)         THEN Visit("number", v.text, <<>>)
  ELSE IF v.kind = "String"   THEN Visit("string", v.text, <<>>)
  ELSE IF v.kind = "Sequence" THEN Visit("seq", "", v.items)
  ELSE IF v.kind = "Mapping"  THEN Visit("map", "", v.items)
  ELSE IF v.kind = "Alias"    THEN Visit("str", v.text, <<>>)
  ELSE Variant(NoBang(v.text), v.items)

DeserializeBool(v) ==
  LET u == Untag(v) IN IF IsBool(u) THEN Visit("bool", u.text, <<>>) ELSE Refuse

\* deserialize_i8 to deserialize_f64
DeserializeNumber(v) ==
  LET u == Untag(v) IN IF IsNumber(u) THEN Visit("number", u.text, <<>>) ELSE Refuse

\* deserialize_str, deserialize_char and deserialize_identifier too
DeserializeString(v) ==
  LET u == Untag(v) IN IF u.kind = "String" THEN Visit("string", u.text, <<>>) ELSE Refuse

\* The content of a value tagged as binary is decoded.
DeserializeByteBuf(v) ==
  IF v.kind = "Tagged" /\ NoBang(v.text) = BINARY
    THEN LET content == v.items[1].value
         IN  IF content.kind = "String" /\ content.text \in Base64
               THEN Visit("byte_buf", content.text, <<>>) ELSE Refuse
  ELSE LET u == Untag(v)
       IN  IF u.kind = "String"        THEN Visit("string", u.text, <<>>)
           ELSE IF u.kind = "Sequence" THEN Visit("seq", "", u.items)
           ELSE Refuse

DeserializeOption(v) ==
  IF IsNull(v) THEN Visit("none", "", <<>>) ELSE Visit("some", "", <<Element(v)>>)

DeserializeUnit(v) == IF IsNull(v) THEN Visit("unit", "", <<>>) ELSE Refuse

DeserializeNewtype(v) == Visit("newtype", "", <<Element(v)>>)

\* A null is an empty sequence.
DeserializeSeq(v) ==
  LET u == Untag(v)
  IN  IF u.kind = "Sequence" THEN Visit("seq", "", u.items)
      ELSE IF IsNull(u)      THEN Visit("seq", "", <<>>)
      ELSE Refuse

\* ... or mapping.
DeserializeMap(v) ==
  LET u == Untag(v)
  IN  IF u.kind = "Mapping" THEN Visit("map", "", u.items)
      ELSE IF IsNull(u)     THEN Visit("map", "", <<>>)
      ELSE Refuse

\* A mutant of DeserializeEnum: the bang of a unit variant goes too.
DeserializeEnumNoBang(v) ==
  IF v.kind = "Tagged"      THEN Variant(NoBang(v.text), v.items)
  ELSE IF v.kind = "String" THEN Variant(NoBang(v.text), <<>>)
  ELSE IF v.kind = "Mapping" /\ Len(v.items) = 1 /\ v.items[1].key.kind = "String"
    THEN Variant(v.items[1].key.text, <<Element(v.items[1].value)>>)
  ELSE Refuse

\* A tag names a variant, less its bang, and so does a string, or the key of a
\* mapping of one entry.
DeserializeEnum(v) ==
  IF v.kind = "Tagged"      THEN Variant(NoBang(v.text), v.items)
  ELSE IF v.kind = "String" THEN Variant(v.text, <<>>)
  ELSE IF v.kind = "Mapping" /\ Len(v.items) = 1 /\ v.items[1].key.kind = "String"
    THEN Variant(v.items[1].key.text, <<Element(v.items[1].value)>>)
  ELSE Refuse

\* SeqDeserializer: an empty one is a unit.
VisitSeqDeserializer(items) ==
  IF items = <<>> THEN Visit("unit", "", <<>>) ELSE Visit("seq", "", items)

\* MapDeserializer
VisitMapDeserializer(items) == Visit("map", "", items)

\* VariantAccess for Value.
VariantOfValue(shape, v) ==
  CASE shape = "unit variant"    -> DeserializeUnit(v)
    [] shape = "newtype variant" -> Visit("newtype", "", <<Element(v)>>)
    [] shape = "tuple variant"   ->
         IF v.kind = "Sequence" THEN VisitSeqDeserializer(v.items) ELSE Refuse
    [] shape = "struct variant"  ->
         IF v.kind = "Mapping" THEN VisitMapDeserializer(v.items) ELSE Refuse

\* VariantDeserializer: only a unit variant can do without a value.
DeserializeVariant(shape, content) ==
  IF content # <<>>              THEN VariantOfValue(shape, content[1].value)
  ELSE IF shape = "unit variant" THEN Visit("unit", "", <<>>)
  ELSE Refuse

\* The method that the Deserialize of a type calls.
Deserialize(type, v) ==
  CASE type.kind = "unit"                          -> DeserializeUnit(v)
    [] type.kind = "bool"                          -> DeserializeBool(v)
    [] type.kind \in {"i64", "i128"}               -> DeserializeNumber(v)
    [] type.kind \in {"String", "&str", "Display"} -> DeserializeString(v)
    [] type.kind = "byte_buf"                      -> DeserializeByteBuf(v)
    [] type.kind = "option"                        -> DeserializeOption(v)
    [] type.kind = "newtype"                       -> DeserializeNewtype(v)
    [] type.kind \in {"seq", "tuple"}              -> DeserializeSeq(v)
    [] type.kind \in {"map", "struct"}             -> DeserializeMap(v)
    [] type.kind = "enum"                          -> DeserializeEnum(v)
    [] type.kind \in {"Value", "TaggedValue"}      -> DeserializeAny(v)
=============================================================================
