----------------------------- MODULE ValueRefDe -----------------------------
(***************************************************************************)
(* Deserializer for &Value (src/value/de.rs), the twin of the one for      *)
(* Value: T::deserialize(&value), which leaves the value alone and lends   *)
(* its strings to the visitor.                                             *)
(***************************************************************************)
EXTENDS ValueDe

DeserializeRefAny(v) ==
  IF IsNull(v)                THEN Visit("unit", "", <<>>)
  ELSE IF IsBool(v)           THEN Visit("bool", v.text, <<>>)
  ELSE IF IsNumber(v)         THEN Visit("number", v.text, <<>>)
  ELSE IF v.kind \in {"String", "Alias"} THEN Visit("borrowed_str", v.text, <<>>)
  ELSE IF v.kind = "Sequence" THEN Visit("seq", "", v.items)
  ELSE IF v.kind = "Mapping"  THEN Visit("map", "", v.items)
  ELSE Variant(NoBang(v.text), v.items)

DeserializeRefBool(v) ==
  LET u == Untag(v) IN IF IsBool(u) THEN Visit("bool", u.text, <<>>) ELSE Refuse

DeserializeRefNumber(v) ==
  LET u == Untag(v) IN IF IsNumber(u) THEN Visit("number", u.text, <<>>) ELSE Refuse

\* deserialize_string, deserialize_char and deserialize_identifier too
DeserializeRefStr(v) ==
  LET u == Untag(v) IN IF u.kind = "String" THEN Visit("borrowed_str", u.text, <<>>) ELSE Refuse

DeserializeRefBytes(v) ==
  IF v.kind = "Tagged" /\ NoBang(v.text) = BINARY
    THEN LET content == v.items[1].value
         IN  IF content.kind = "String" /\ content.text \in Base64
               THEN Visit("byte_buf", content.text, <<>>) ELSE Refuse
  ELSE LET u == Untag(v)
       IN  IF u.kind = "String"        THEN Visit("borrowed_str", u.text, <<>>)
           ELSE IF u.kind = "Sequence" THEN Visit("seq", "", u.items)
           ELSE Refuse

DeserializeRefOption(v) ==
  IF IsNull(v) THEN Visit("none", "", <<>>) ELSE Visit("some", "", <<Element(v)>>)

DeserializeRefUnit(v) == IF IsNull(v) THEN Visit("unit", "", <<>>) ELSE Refuse

DeserializeRefNewtype(v) == Visit("newtype", "", <<Element(v)>>)

DeserializeRefSeq(v) ==
  LET u == Untag(v)
  IN  IF u.kind = "Sequence" THEN Visit("seq", "", u.items)
      ELSE IF IsNull(u)      THEN Visit("seq", "", <<>>)
      ELSE Refuse

\* A mutant of DeserializeRefMap: a null is no empty mapping.
DeserializeRefMapNotNull(v) ==
  LET u == Untag(v) IN IF u.kind = "Mapping" THEN Visit("map", "", u.items) ELSE Refuse

\* For a null a MapRefDeserializer without a mapping is visited.
DeserializeRefMap(v) ==
  LET u == Untag(v)
  IN  IF u.kind = "Mapping" THEN Visit("map", "", u.items)
      ELSE IF IsNull(u)     THEN Visit("map", "", <<>>)
      ELSE Refuse

DeserializeRefEnum(v) ==
  IF v.kind = "Tagged"      THEN Variant(NoBang(v.text), v.items)
  ELSE IF v.kind = "String" THEN Variant(v.text, <<>>)
  ELSE IF v.kind = "Mapping" /\ Len(v.items) = 1 /\ v.items[1].key.kind = "String"
    THEN Variant(v.items[1].key.text, <<Element(v.items[1].value)>>)
  ELSE Refuse

\* SeqRefDeserializer
VisitSeqRefDeserializer(items) ==
  IF items = <<>> THEN Visit("unit", "", <<>>) ELSE Visit("seq", "", items)

\* MapRefDeserializer
VisitMapRefDeserializer(items) == Visit("map", "", items)

\* VariantAccess for &Value.
VariantOfRef(shape, v) ==
  CASE shape = "unit variant"    -> DeserializeRefUnit(v)
    [] shape = "newtype variant" -> Visit("newtype", "", <<Element(v)>>)
    [] shape = "tuple variant"   ->
         IF v.kind = "Sequence" THEN VisitSeqRefDeserializer(v.items) ELSE Refuse
    [] shape = "struct variant"  ->
         IF v.kind = "Mapping" THEN VisitMapRefDeserializer(v.items) ELSE Refuse

\* VariantRefDeserializer
DeserializeRefVariant(shape, content) ==
  IF content # <<>>              THEN VariantOfRef(shape, content[1].value)
  ELSE IF shape = "unit variant" THEN Visit("unit", "", <<>>)
  ELSE Refuse

\* The method that the Deserialize of a type calls.
DeserializeRef(type, v) ==
  CASE type.kind = "unit"                          -> DeserializeRefUnit(v)
    [] type.kind = "bool"                          -> DeserializeRefBool(v)
    [] type.kind \in {"i64", "i128"}               -> DeserializeRefNumber(v)
    [] type.kind \in {"String", "&str", "Display"} -> DeserializeRefStr(v)
    [] type.kind = "byte_buf"                      -> DeserializeRefBytes(v)
    [] type.kind = "option"                        -> DeserializeRefOption(v)
    [] type.kind = "newtype"                       -> DeserializeRefNewtype(v)
    [] type.kind \in {"seq", "tuple"}              -> DeserializeRefSeq(v)
    [] type.kind \in {"map", "struct"}             -> DeserializeRefMap(v)
    [] type.kind = "enum"                          -> DeserializeRefEnum(v)
    [] type.kind \in {"Value", "TaggedValue"}      -> DeserializeRefAny(v)
=============================================================================
