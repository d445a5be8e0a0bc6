------------------------------ MODULE MCEventDe ------------------------------
(***************************************************************************)
(* EventDe on small instances: its documents are generated.  A family has  *)
(* every well-nested sequence of up to `size` events made of the given     *)
(* leaves and collections, with every choice of the node that its aliases  *)
(* lead to, and the same documents cut off by an error.                    *)
(*                                                                         *)
(* There are two families, each with the visitors and options that suit    *)
(* it: collections in each other, and tags and keys.                       *)
(***************************************************************************)
EXTENDS EventDe, SequencesExt

Plain(type) == [type |-> type, tagged |-> FALSE, text |-> "", id |-> 0]
Tagged(type) == [Plain(type) EXCEPT !.tagged = TRUE]
Scalar(text) == [Plain("Scalar") EXCEPT !.text = text]

EndOf(start) ==
  Plain(IF start.type = "SequenceStart" THEN "SequenceEnd" ELSE "MappingEnd")

Concatenations(A, B) == { a \o b : a \in A, b \in B }

\* The nodes, and the contents of sequences and of mappings, of no event.
Nothing == [node |-> {}, seq |-> {<<>>}, map |-> {<<>>}]

\* The nodes of n events, from the tables for fewer events.
NodesOf(table, n, leaves, starts) ==
  (IF n = 1 THEN { <<l>> : l \in leaves } ELSE {})
    \cup UNION { { <<s>> \o c \o <<EndOf(s)>> :
                     c \in IF n < 2 THEN {}
                           ELSE IF s.type = "SequenceStart" THEN table[n - 1].seq
                                                            ELSE table[n - 1].map } : s \in starts }

\* A table of one more event: table[n + 1] is that of n events.
Grown(table, leaves, starts) ==
  LET n     == Len(table)
      nodes == NodesOf(table, n, leaves, starts)
      node(k) == IF k = n THEN nodes ELSE table[k + 1].node
      pair(k) == UNION { Concatenations(node(j), node(k - j)) : j \in 1 .. k - 1 }
  IN  Append(table,
        [node |-> nodes,
         seq  |-> UNION { Concatenations(node(k), table[n - k + 1].seq) : k \in 1 .. n },
         map  |-> UNION { Concatenations(pair(k), table[n - k + 1].map) : k \in 2 .. n }])

Forest(leaves, starts, size) ==
  LET table == FoldLeft(LAMBDA t, n : Grown(t, leaves, starts), <<Nothing>>,
                        [n \in 1 .. size |-> n])
  IN  UNION { table[n + 1].node : n \in 1 .. size }

\* The nodes that an alias of these events may lead to: all that start before
\* the last alias.
Targets(events) ==
  { p \in 0 .. Len(events) - 1 :
      /\ events[p + 1].type \in NodeStarts
      /\ \E k \in p + 2 .. Len(events) : events[k].type = "Alias" }

WithAliases(events) ==
  IF \E k \in 1 .. Len(events) : events[k].type = "Alias"
    THEN { [events |-> events, aliases |-> <<p>>] : p \in Targets(events) }
    ELSE {[events |-> events, aliases |-> <<>>]}

Family(leaves, starts, size) ==
  UNION { WithAliases(e) : e \in Forest(leaves, starts, size) }

CutOff(family) ==
  UNION { { [d EXCEPT !.events = SubSeq(@, 1, k)] : k \in 1 .. Len(d.events) } : d \in family }

\* The alias, if it was not cut off, comes after the start of the node that it
\* leads to: the loader makes no other documents.
Sound(d) ==
  /\ \A i \in 1 .. Len(d.aliases) : d.aliases[i] < Len(d.events)
  /\ \A k \in 1 .. Len(d.events) : d.events[k].type = "Alias" => d.aliases[1] + 1 < k

Loaded(family) == { d \in family : Sound(d) }
-----------------------------------------------------------------------------
(* Scalars, collections and aliases, cyclic ones included.                 *)

Void == [events |-> <<Plain("Void")>>, aliases |-> <<>>]

NestDocuments ==
  Loaded({Void} \cup CutOff(Family({Scalar("k"), Plain("Alias")},
                                   {Plain("SequenceStart"), Plain("MappingStart")}, 6)))

NestOptions ==
  [depthLimit : {1, 2}, aliasLimit : {0, 2}, duplicates : {"LastWins"},
   requests : {{"any", "newtype", "enum", "ignored"}}]

-----------------------------------------------------------------------------
(* Tags and nulls; and mappings with two or three keys of two texts,       *)
(* duplicates included, of which one has a collection for its value.       *)

TagFamily ==
  Family({Scalar(""), Tagged("Scalar"), Plain("Alias")},
         {Tagged("SequenceStart"), Plain("SequenceStart"), Plain("MappingStart")}, 5)

Inner == <<Plain("MappingStart"), Scalar("k"), Scalar("l"), Plain("MappingEnd")>>
SomeKeys == {<<Scalar("k")>>, <<Scalar("l")>>, <<Plain("Alias")>>}
Mapping(pairs) == <<Plain("MappingStart")>> \o pairs \o <<Plain("MappingEnd")>>
PairsOf(value) == Concatenations(SomeKeys, {value})
Pairs == PairsOf(<<Scalar("k")>>)

KeyFamily ==
  UNION { WithAliases(Mapping(p)) :
    p \in Concatenations(Pairs, Pairs)
            \cup Concatenations(Pairs, Concatenations(PairsOf(Inner), Pairs)) }

TagKeyDocuments == Loaded(TagFamily \cup KeyFamily)

TagKeyOptions ==
  [depthLimit : {0, 2}, aliasLimit : {1}, duplicates : Strategies,
   requests : {{"any", "scalar", "option", "unit", "seq", "map", "bytes", "ignored"}}]

-----------------------------------------------------------------------------

MCDocuments == NestDocuments \cup TagKeyDocuments
MCVisitors == { o.requests : o \in NestOptions \cup TagKeyOptions }

MCInit ==
  /\ \/ document \in NestDocuments /\ options \in NestOptions
     \/ document \in TagKeyDocuments /\ options \in TagKeyOptions
  /\ Init

MCSpec == MCInit /\ [][Next]_vars

\* Visitors for the runs of one family.
AnyOnly == {{"any"}}
AnyOrEnum == {{"any", "enum"}}
==============================================================================
