----------------------------- MODULE ValueSerde -----------------------------
(***************************************************************************)
(* A datum is made a Value by to_value and read back, by reference and by  *)
(* from_value; and any Value is read as any type.  The visitors are those  *)
(* of serde, of its derived Deserialize, and of Value itself.              *)
(***************************************************************************)
EXTENDS ValueRefDe, Integers, FiniteSets

CONSTANTS
  Data,    \* what is serialized: [type |-> ..., datum |-> ...]
  Types,   \* what values are read as
  Values   \* the values that are read as they are

VARIABLES
  type,
  datum,     \* what is serialized, or NoKey
  value,     \* what to_value made of it, or the value that is given
  borrowed,  \* what T::deserialize(&value) returned
  owned      \* what from_value returned, after which the value is gone

serdeVars == <<type, datum, value, borrowed, owned>>

\* A result before the call; NoKey is an error.
Pending == Node("Pending", "", Unanchored, <<>>)

-----------------------------------------------------------------------------
(* The visitors.                                                           *)

\* A datum of its parts, unless one could not be read.
Wrapped(kind, parts) ==
  IF \E i \in DOMAIN parts : Fails(parts[i]) THEN NoKey
  ELSE Datum(kind, "", [i \in DOMAIN parts |-> Element(parts[i])])

IsText(call) == call.how \in {"str", "string", "borrowed_str"}

RECURSIVE Read(_, _, _)
RECURSIVE Visited(_, _, _)

ReadElements(types, items, by) == [i \in DOMAIN items |-> Read(types[i], items[i].value, by)]

Repeated(T, n) == [i \in 1 .. n |-> T]

\* A tuple takes as many elements as it has; that none is left is seen to by
\* the deserializer.
VisitTuple(kind, types, items, by) ==
  IF Len(items) # Len(types) THEN NoKey
  ELSE Wrapped(kind, ReadElements(types, items, by))

\* A map inserts: a later value replaces an earlier one.
VisitPairs(T, items, by) ==
  LET pairs == [i \in DOMAIN items |-> Entry(Read(T.parts[1], items[i].key, by),
                                             Read(T.parts[2], items[i].value, by))]
  IN  IF \E i \in DOMAIN items : Fails(pairs[i].key) \/ Fails(pairs[i].value) THEN NoKey
      ELSE Datum("Map", "", FoldLeft(LAMBDA m, p : Insert(m, p.key, p.value), <<>>, pairs))

\* A struct takes its fields by name, each once, and ignores others.  A field
\* that is missing is None, if it can be.
VisitFields(kind, T, items, by) ==
  LET name(i) == Read(Type("String", <<>>, <<>>), items[i].key, by)
      given(n) == { i \in DOMAIN items : name(i).text = T.names[n] }
      field(n) == IF given(n) # {}
                    THEN Read(T.parts[n], items[CHOOSE i \in given(n) : TRUE].value, by)
                  ELSE IF T.parts[n].kind = "option" THEN Datum("None", "", <<>>)
                  ELSE NoKey
  IN  IF \/ \E i \in DOMAIN items : Fails(name(i))
         \/ \E n \in DOMAIN T.names : Cardinality(given(n)) > 1
        THEN NoKey
        ELSE Wrapped(kind, [n \in DOMAIN T.names |-> field(n)])

VisitVariant(variant, call, by) ==
  CASE call = Refuse                       -> NoKey
    [] variant.kind = "unit variant"       -> Wrapped("Variant", <<>>)
    [] variant.kind = "newtype variant"    ->
         Wrapped("Variant", <<Read(variant.parts[1], call.items[1].value, by)>>)
    [] variant.kind = "tuple variant"      ->
         IF call.how = "seq" THEN VisitTuple("Variant", variant.parts, call.items, by) ELSE NoKey
    [] variant.kind = "struct variant"     ->
         VisitFields("Variant", variant, call.items, by)

VisitEnum(T, call, by) ==
  IF ~\E i \in DOMAIN T.names : T.names[i] = call.text THEN NoKey
  ELSE LET variant == VariantOf(T, call.text)
           access == IF by = "value" THEN DeserializeVariant(variant.kind, call.items)
                                     ELSE DeserializeRefVariant(variant.kind, call.items)
           d == VisitVariant(variant, access, by)
       IN  IF Fails(d) THEN NoKey ELSE [d EXCEPT !.text = call.text]

\* Value's visitor: a mapping must not have a key twice.
VisitValue(call, by) ==
  LET read(v) == Read(Type("Value", <<>>, <<>>), v, by)
      pairs == [i \in DOMAIN call.items |-> Entry(read(call.items[i].key), read(call.items[i].value))]
  IN  CASE call.how = "unit"               -> Null
        [] call.how \in {"bool", "number"} -> Number(call.text)
        [] IsText(call)                    -> String(call.text)
        [] call.how = "seq"                ->
             Pushed([i \in DOMAIN call.items |-> read(call.items[i].value)])
        [] call.how = "map"                ->
             IF \E i, j \in DOMAIN pairs : \/ i # j /\ pairs[i].key = pairs[j].key
                                           \/ Fails(pairs[i].key) \/ Fails(pairs[i].value)
               THEN NoKey ELSE Mapping(pairs)
        [] call.how = "enum"               ->
             UnderTag(call.text, read(call.items[1].value))

Visited(T, call, by) ==
  CASE T.kind = "unit"                          -> IF call.how = "unit" THEN Plain("()") ELSE NoKey
    [] T.kind = "bool"                          -> IF call.how = "bool" THEN Plain(call.text) ELSE NoKey
    [] T.kind \in {"i64", "i128"}               -> IF call.how = "number" THEN Plain(call.text) ELSE NoKey
    [] T.kind \in {"String", "Display"}         -> IF IsText(call) THEN Plain(call.text) ELSE NoKey
    [] T.kind = "&str"                          ->
         IF call.how = "borrowed_str" THEN Plain(call.text) ELSE NoKey
    [] T.kind = "byte_buf"                      ->
         IF IsText(call) \/ call.how = "byte_buf" THEN Datum("Bytes", call.text, <<>>)
         ELSE Wrapped("Bytes", ReadElements(Repeated(Type("i64", <<>>, <<>>), Len(call.items)),
                                                call.items, by))
    [] T.kind = "option"                        ->
         IF call.how = "none" THEN Datum("None", "", <<>>)
         ELSE Wrapped("Some", ReadElements(T.parts, call.items, by))
    [] T.kind = "newtype"                       -> Wrapped("Newtype", ReadElements(T.parts, call.items, by))
    [] T.kind = "seq"                           ->
         Wrapped("Seq", ReadElements(Repeated(T.parts[1], Len(call.items)), call.items, by))
    [] T.kind = "tuple"                         -> VisitTuple("Tuple", T.parts, call.items, by)
    [] T.kind = "map"                           -> VisitPairs(T, call.items, by)
    [] T.kind = "struct"                        -> VisitFields("Struct", T, call.items, by)
    [] T.kind = "enum"                          -> VisitEnum(T, call, by)
    [] T.kind = "Value"                         -> VisitValue(call, by)
    [] T.kind = "TaggedValue"                   ->
         IF call.how = "enum" THEN VisitValue(call, by) ELSE NoKey

Read(T, v, by) ==
  LET call == IF by = "value" THEN Deserialize(T, v) ELSE DeserializeRef(T, v)
  IN  IF call = Refuse THEN NoKey ELSE Visited(T, call, by)

-----------------------------------------------------------------------------

SerdeInit ==
  /\ \/ /\ \E given \in Data : type = given.type /\ datum = given.datum
        /\ value = Pending
     \/ /\ type \in Types
        /\ datum = NoKey
        /\ value \in Values
  /\ borrowed = Pending
  /\ owned = Pending

to_value ==
  /\ value = Pending
  /\ datum # NoKey
  /\ value' = ToValue(type, datum)
  /\ UNCHANGED <<type, datum, borrowed, owned>>

Readable == value \notin {Pending, NoKey} /\ owned = Pending

deserialize ==
  /\ Readable
  /\ borrowed = Pending
  /\ borrowed' = Read(type, value, "reference")
  /\ UNCHANGED <<type, datum, value, owned>>

from_value ==
  /\ Readable
  /\ owned' = Read(type, value, "value")
  /\ UNCHANGED <<type, datum, value, borrowed>>

SerdeNext == to_value \/ deserialize \/ from_value

SerdeSpec == SerdeInit /\ [][SerdeNext]_serdeVars

-----------------------------------------------------------------------------
(* What is checked.                                                        *)

RECURSIVE HoldsAnchors(_)
HoldsAnchors(v) ==
  \/ v.anchor # Unanchored \/ v.kind = "Alias"
  \/ \E i \in DOMAIN v.items : HoldsAnchors(v.items[i].key) \/ HoldsAnchors(v.items[i].value)

RECURSIVE Borrows(_)
Borrows(T) == T.kind = "&str" \/ \E i \in DOMAIN T.parts : Borrows(T.parts[i])

\* A name of a variant that holds something is read back less its bang.
IsTagName(name) == name # "" /\ ~IsBanged(name)

\* What has no form but a null's.
RECURSIVE BecomesNull(_, _)
BecomesNull(T, d) ==
  \/ T.kind = "unit"
  \/ T.kind = "option" /\ d.kind = "None"
  \/ T.kind = "Value" /\ IsNull(d)
  \/ T.kind \in {"option", "newtype"} /\ d.kind # "None"
       /\ BecomesNull(T.parts[1], d.items[1].value)

\* The data that a Value can hold, by type; nothing here is said of how.
RECURSIVE Survives(_, _, _)
Survives(T, d, by) ==
  LET part(i) == Survives(T.parts[i], d.items[i].value, by)
      all == \A i \in DOMAIN d.items : part(i)
      each == \A i \in DOMAIN d.items : Survives(T.parts[1], d.items[i].value, by)
  IN  CASE T.kind \in {"unit", "bool", "i64", "String", "Display", "byte_buf"} -> TRUE
        [] T.kind = "&str"                   -> by = "reference"
        [] T.kind = "i128"                   -> d.text \notin Wide
        \* Some of what is a null is a None.
        [] T.kind = "option"                 ->
             d.kind = "None" \/ (part(1) /\ ~BecomesNull(T.parts[1], d.items[1].value))
        [] T.kind = "seq"                    -> each
        [] T.kind \in {"newtype", "tuple", "struct"} -> all
        \* A map of one pair with a key that is shown as a tag is a tagged value.
        [] T.kind = "map"                    ->
             /\ \A i \in DOMAIN d.items : Survives(T.parts[1], d.items[i].key, by)
                                          /\ Survives(T.parts[2], d.items[i].value, by)
             /\ ~(Len(d.items) = 1 /\ T.parts[1].kind = "Display" /\ IsBanged(d.items[1].key.text))
        \* An empty tuple variant is read as a unit, which is no tuple.
        [] T.kind = "enum"                   ->
             LET variant == VariantOf(T, d.text)
             IN  \/ variant.kind = "unit variant"
                 \/ /\ IsTagName(d.text)
                    /\ variant.kind = "tuple variant" => d.items # <<>>
                    /\ \A i \in DOMAIN d.items : Survives(variant.parts[i], d.items[i].value, by)
        [] T.kind \in {"Value", "TaggedValue"} -> ~HoldsAnchors(d)

\* What to_value made of a datum is read back as that datum, whichever way it
\* is read, exactly if it is one that a Value can hold; what cannot be made a
\* Value is none of these.
RoundTrip ==
  datum # NoKey =>
    /\ owned # Pending => (owned = datum <=> Survives(type, datum, "value"))
    /\ borrowed # Pending => (borrowed = datum <=> Survives(type, datum, "reference"))
    /\ value = NoKey => ~Survives(type, datum, "reference")

\* The two deserializers, written twice over, read every value as the same
\* datum or refuse it both; what borrows its strings can be read by reference
\* only.
OwnedAndBorrowedAgree ==
  owned # Pending /\ borrowed # Pending =>
    owned = borrowed \/ (owned = NoKey /\ Borrows(type))
=============================================================================
