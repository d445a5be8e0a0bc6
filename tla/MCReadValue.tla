----------------------------- MODULE MCReadValue -----------------------------
(***************************************************************************)
(* ReadValue on small instances: its documents are written as YAML is and  *)
(* then loaded, with alias ids given as the loader gives them.             *)
(***************************************************************************)
EXTENDS ReadValue

MCNames == {"x", "y"}
MCNonStrings == {"1", "2"}

Ev(type) ==
  [type |-> type, text |-> "", quoted |-> FALSE, anchor |-> Unanchored, tag |-> "", id |-> 0]

Plain(text) == <<[Ev("Scalar") EXCEPT !.text = text]>>
Quoted(text) == <<[Ev("Scalar") EXCEPT !.text = text, !.quoted = TRUE]>>
Star(name) == <<[Ev("Alias") EXCEPT !.text = name]>>
List(nodes) == <<Ev("SequenceStart")>> \o FlattenSeq(nodes) \o <<Ev("SequenceEnd")>>
Map(nodes) == <<Ev("MappingStart")>> \o FlattenSeq(nodes) \o <<Ev("MappingEnd")>>
And(name, node) == [node EXCEPT ![1].anchor = name]
Bang(node) == [node EXCEPT ![1].tag = "t"]

A == Plain("a")
B == Plain("b")
One == Plain("1")
Two == Plain("2")
LL == Plain("<<")

\* What the loader makes of a stream's events: an alias of no node ends it.
Empty == [events |-> <<>>, aliases |-> <<>>, error |-> FALSE, names |-> <<>>]

Loading(d, e) ==
  IF d.error THEN d
  ELSE IF e.type = "Alias"
    THEN IF e.text \in DOMAIN d.names
           THEN [d EXCEPT !.events = Append(@, [e EXCEPT !.text = "", !.id = d.names[e.text]])]
           ELSE [d EXCEPT !.error = TRUE]
  ELSE IF e.anchor = Unanchored THEN [d EXCEPT !.events = Append(@, e)]
  ELSE [d EXCEPT !.events = Append(@, e),
                 !.aliases = Append(@, Len(d.events)),
                 !.names = (e.anchor :> Cardinality(DOMAIN @)) @@ @]

Loaded(raw, broken) ==
  LET d == FoldLeft(Loading, Empty, raw)
  IN  [events |-> d.events, aliases |-> d.aliases, error |-> d.error \/ broken]

Small == {
  A, B, One, And("x", A), And("y", One), And("x", B), Star("x"), Star("y"),
  And("x", List(<<Star("x")>>)), And("x", Map(<<A, Star("x")>>)) }

Large == Small \cup {
  Plain(""), Bang(A), Bang(Map(<<A, Star("x")>>)), Bang(List(<<And("y", A)>>)),
  List(<<>>), List(<<Star("x"), And("x", B)>>), And("y", List(<<And("x", A), Star("x")>>)),
  And("y", Map(<<A, And("x", B), B, Star("x")>>)), And("x", Map(<<A, List(<<And("y", B)>>)>>)),
  Map(<<Star("x"), B>>), Map(<<And("x", A), B>>), Map(<<And("x", A), B, A, One>>),
  Map(<<A, One, A, B>>), Map(<<A, One, Quoted("a"), B>>), Map(<<One, A, Quoted("1"), B>>),
  Map(<<A, One, Star("x"), B>>), Map(<<Star("x"), One, A, B>>),
  Map(<<Star("x"), A, Star("x"), B>>), Map(<<A, B, B, A>>),
  Map(<<List(<<A>>), A, List(<<A>>), B>>), Map(<<Map(<<A, B>>), A, B, A>>) }

MergeValues == {
  Star("x"), Star("y"), List(<<Star("x"), Star("y")>>), List(<<Star("y"), Star("x")>>),
  Map(<<A, Two>>), List(<<Map(<<A, Two, B, Two>>), Star("x")>>), Map(<<LL, Star("x"), B, Two>>),
  A, List(<<Star("x"), A>>), List(<<List(<<>>)>>), Bang(Map(<<A, B>>)),
  List(<<Bang(Map(<<A, B>>)), Star("x")>>) }

Merging == UNION { { Map(<<LL, v>>), Map(<<A, B, LL, v>>), Map(<<LL, v, B, A>>),
                     Map(<<A, Map(<<LL, v>>), LL, v, One, A>>) } : v \in MergeValues }

MergeSources == {
  Map(<<A, One>>), Map(<<B, One, A, A>>), Map(<<A, And("y", B)>>), List(<<A>>),
  Map(<<B, List(<<A>>)>>), Map(<<LL, Map(<<B, Two>>), One, B>>) }

Raw ==
  {<<Ev("Void")>>} \cup Large
    \cup { List(<<a, b>>) : a \in Large, b \in Large }
    \cup { List(<<a, b, c>>) : a \in Small, b \in Small, c \in Small }
    \cup { List(<<And("x", s), And("y", t), m>>) :
             s \in MergeSources, t \in MergeSources, m \in Merging }

\* Streams that break off, if only in the middle of a document.
BrokenOff == UNION { { SubSeq(r, 1, n) : n \in 0 .. Len(r) } : r \in Large }

MCDocuments ==
  { Loaded(r.events, r.broken) :
      r \in [events : Raw, broken : {FALSE}] \cup [events : BrokenOff, broken : {TRUE}] }
==============================================================================
