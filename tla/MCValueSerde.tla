---------------------------- MODULE MCValueSerde ----------------------------
(***************************************************************************)
(* An instance of ValueUse: scalars and values of every kind, and what can *)
(* be built of them in one and in two steps; and maps filled by hand with  *)
(* three keys, of which two are shown as tags, two values, and one key and *)
(* value that fail.                                                        *)
(***************************************************************************)
EXTENDS ValueUse

MCNames == {"a", "b", "f", "!", BINARY}
MCWide == {"18446744073709551616"}
MCBase64 == {"YQ=="}

Given(T, d) == [type |-> T, datum |-> d]
Scalar(kind) == Type(kind, <<>>, <<>>)
ScalarData(kind, texts) == { Given(Scalar(kind), Plain(t)) : t \in texts }
Items(data) == [i \in DOMAIN data |-> Element(data[i])]

One == Number("1")
Texts == {"a", "!a", ""}
MCValues ==
  LET simple == {Null, Number("true"), One, String("a"), String("!a"), Alias("x"),
                 [One EXCEPT !.anchor = "x"], [Null EXCEPT !.anchor = "x"]}
      pairs(k, v) == Mapping(<<Entry(k, v)>>)
      tagged == { Tagged(t, v) : t \in {"a", "b", "f", "!"}, v \in simple }
      one == { Sequence(<<v>>) : v \in simple } \cup { pairs(k, v) : k, v \in simple }
      more == {Sequence(<<>>), Mapping(<<>>), Sequence(<<One, One>>),
               [Sequence(<<One>>) EXCEPT !.anchor = "x"],
               [pairs(String("f"), One) EXCEPT !.anchor = "x"],
               Mapping(<<Entry(String("f"), One), Entry(String("g"), One)>>),
               Mapping(<<Entry(String("f"), One), Entry([String("f") EXCEPT !.anchor = "x"], One)>>),
               Tagged(BINARY, String("YQ==")), Tagged(BINARY, String("a")), Tagged(BINARY, One)}
      deep == { Tagged(t, v) : t \in {"a", "b"}, v \in tagged \cup one \cup more }
  IN  simple \cup tagged \cup one \cup more \cup deep
        \cup { pairs(k, v) : k \in {String("a"), String("f"), Tagged("a", One)}, v \in one \cup more \cup tagged }

\* A tag is binary with or without a bang.
MCGiven ==
  MCValues \cup { Tagged("!" \o BINARY, v) : v \in {String("YQ=="), String("a"), One} }

MCMapKeys == {Key(String("k")), TagKey("a"), TagKey("b"), Key(NoKey)}
MCMapValues == {One, Number("2"), NoKey}

ByteData == { Given(Scalar("byte_buf"), Datum("Bytes", "", Items(d)))
              : d \in {<<>>, <<Plain("1")>>} }
ScalarsData ==
  ScalarData("unit", {"()"}) \cup ScalarData("bool", {"true"}) \cup ScalarData("i64", {"1"})
    \cup ScalarData("i128", {"1"} \cup MCWide) \cup ScalarData("String", Texts)
    \cup ScalarData("&str", Texts) \cup ScalarData("Display", {"a", "!a"}) \cup ByteData

Keys == ScalarData("String", {"a", "!a"}) \cup ScalarData("Display", {"a", "!a"})
          \cup ScalarData("i128", MCWide) \cup ScalarData("unit", {"()"})

\* What is built of one part.
Around(S) ==
  { Given(Type("option", <<>>, <<x.type>>), Datum("Some", "", Items(<<x.datum>>))) : x \in S }
    \cup { Given(Type("option", <<>>, <<x.type>>), Datum("None", "", <<>>)) : x \in S }
    \cup { Given(Type("newtype", <<>>, <<x.type>>), Datum("Newtype", "", Items(<<x.datum>>))) : x \in S }
    \cup { Given(Type("seq", <<>>, <<x.type>>), Datum("Seq", "", Items(<<x.datum>>))) : x \in S }
    \cup { Given(Type("seq", <<>>, <<x.type>>), Datum("Seq", "", <<>>)) : x \in S }
    \cup { Given(Type("struct", <<"f">>, <<x.type>>), Datum("Struct", "", Items(<<x.datum>>))) : x \in S }
    \cup { Given(Type("map", <<>>, <<k.type, x.type>>),
                 Datum("Map", "", <<Entry(k.datum, x.datum)>>)) : k \in Keys, x \in S }
    \cup { Given(Type("enum", <<n, "u">>, <<Type("newtype variant", <<>>, <<x.type>>),
                                          Type("unit variant", <<>>, <<>>)>>),
                 Datum("Variant", n, Items(<<x.datum>>))) : n \in Texts, x \in S }

\* What is built of two parts.
Of(S) ==
  { Given(Type("tuple", <<>>, <<x.type, y.type>>),
          Datum("Tuple", "", Items(<<x.datum, y.datum>>))) : x, y \in S }
    \cup UNION { { Given(Type("map", <<>>, <<x.type, x.type>>),
                      Datum("Map", "", <<Entry(x.datum, x.datum), Entry(y.datum, x.datum)>>))
                  : y \in { y \in Keys : y.type = x.type /\ y # x } } : x \in Keys }
    \cup { Given(Type("enum", <<n, "u">>, <<Type("tuple variant", <<>>, <<x.type, y.type>>),
                                          Type("unit variant", <<>>, <<>>)>>),
                 Datum("Variant", n, Items(<<x.datum, y.datum>>))) : n \in Texts, x, y \in S }
    \cup { Given(Type("enum", <<n>>, <<Type("struct variant", <<"f", "g">>, <<x.type, y.type>>)>>),
                 Datum("Variant", n, Items(<<x.datum, y.datum>>))) : n \in Texts, x, y \in S }

Lone ==
  { Given(Type("enum", <<n>>, <<Type("unit variant", <<>>, <<>>)>>), Datum("Variant", n, <<>>)) : n \in Texts }
    \cup { Given(Type("enum", <<n>>, <<Type("tuple variant", <<>>, <<>>)>>), Datum("Variant", n, <<>>)) : n \in Texts }
    \cup { Given(Type("enum", <<n>>, <<Type("struct variant", <<>>, <<>>)>>), Datum("Variant", n, <<>>)) : n \in Texts }
    \cup {Given(Type("map", <<>>, <<Scalar("Display"), Scalar("i64")>>),
                Datum("Map", "", <<Entry(Plain("a"), Plain("1")), Entry(Plain("!a"), Plain("1"))>>)),
          Given(Type("map", <<>>, <<Scalar("String"), Scalar("i64")>>), Datum("Map", "", <<>>))}

ValueData == { Given(Scalar("Value"), v) : v \in MCValues }
               \cup { Given(Scalar("TaggedValue"), v) : v \in { v \in MCValues : v.kind = "Tagged" } }

Once == Around(ScalarsData) \cup Of(ScalarsData) \cup Lone
MCData == ScalarsData \cup ValueData \cup Once \cup Around(Around(ScalarsData) \cup Lone)
            \cup Around({ x \in ValueData : x.datum.kind \in {"NonString", "Alias", "Tagged"} })

Variants == Type("enum", <<"a", "b", "f">>,
                 <<Type("unit variant", <<>>, <<>>), Type("newtype variant", <<>>, <<Scalar("i64")>>),
                   Type("struct variant", <<"f">>, <<Scalar("i64")>>)>>)
MCTypes ==
  { Scalar(k) : k \in {"unit", "bool", "i64", "String", "&str", "byte_buf", "Value", "TaggedValue"} }
    \cup { Type(k, <<>>, <<Scalar(p)>>) : k \in {"option", "seq"}, p \in {"unit", "i64", "&str", "Value"} }
    \cup {Type("tuple", <<>>, <<Scalar("i64"), Scalar("i64")>>), Variants,
          Type("enum", <<"a", "b">>, <<Type("tuple variant", <<>>, <<>>),
                                       Type("tuple variant", <<>>, <<Scalar("i64"), Scalar("i64")>>)>>),
          Type("map", <<>>, <<Scalar("String"), Scalar("Value")>>),
          Type("map", <<>>, <<Scalar("Value"), Variants>>),
          Type("struct", <<"f">>, <<Scalar("i64")>>),
          Type("struct", <<"f", "g">>, <<Scalar("Value"), Type("option", <<>>, <<Scalar("i64")>>)>>)}
=============================================================================
