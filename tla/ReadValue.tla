------------------------------ MODULE ReadValue ------------------------------
(***************************************************************************)
(* A Value on its way from the text to the user: by from_str and its       *)
(* siblings (route "text"), or by from_str_value_preserve (route           *)
(* "preserve"), after which the user may call resolve_aliases and          *)
(* apply_merge in any order, again after an error too.  from_str_value is  *)
(* the second way with one call of each.                                   *)
(***************************************************************************)
EXTENDS ParseValue, ValueOps

CONSTANTS
  Strategies,  \* the strategies for duplicate keys of the first route
  MaxCalls     \* bound: calls of the user

ASSUME ReadAssumption ==
  /\ Strategies \subseteq {"Error", "FirstWins", "LastWins"}
  /\ MaxCalls \in Nat

VARIABLES
  route,
  returned,  \* "none" while reading goes on, then "Ok" or an error
  strategy,  \* DeserializerOptions::duplicate_key, of the first route
  held,      \* the user's value
  calls,     \* history: the calls on it, with the error of each
  before     \* history: the value before the last of them

readVars == <<parseVars, route, returned, strategy, held, calls, before>>

ReadInit ==
  /\ ParseInit
  /\ \/ route = "preserve" /\ strategy = "Error"
     \/ route = "text" /\ strategy \in Strategies
  /\ returned = "none"
  /\ held = NoKey
  /\ calls = <<>>
  /\ before = NoKey

\* from_str_value_preserve runs.  What it returns is new.
Parse ==
  /\ route = "preserve"
  /\ ParseNext
  /\ returned' = answer'
  /\ held' = IF answer' = "Ok" THEN Identified(value', <<0>>) ELSE NoKey
  /\ UNCHANGED <<route, strategy, calls, before>>

Options == [strategy |-> strategy, nonStrings |-> NonStrings]

\* from_str, or StreamDeserializer with options: Value::deserialize and, if it
\* succeeds, apply_merge and from_value.  What is left of a value that
\* apply_merge gives up is dropped.
Merges(read, result) ==
  /\ returned' = IF result.error = "none" THEN "Ok" ELSE result.error
  /\ held' = IF result.error = "none" THEN result.value ELSE NoKey
  /\ before' = read.value
  /\ calls' = IF read.error = "none" THEN <<[op |-> "merge", error |-> result.error]>>
                                     ELSE <<>>

Read ==
  /\ route = "text"
  /\ returned = "none"
  /\ Merges(FromEvents(document, Options), FromStr(document, Options))
  /\ UNCHANGED <<parseVars, route, strategy>>

Call(op, result) ==
  /\ returned = "Ok"
  /\ Len(calls) < MaxCalls
  /\ held' = result.value
  /\ before' = held
  /\ calls' = Append(calls, [op |-> op, error |-> result.error])
  /\ UNCHANGED <<parseVars, route, returned, strategy>>

CallResolve == Call("resolve", ResolveAliases(held, <<Len(calls) + 1>>))
CallMerge == Call("merge", ApplyMerge(held))

ReadNext ==
  \/ Parse
  \/ Read
  \/ CallResolve
  \/ CallMerge

ReadSpec == ReadInit /\ [][ReadNext]_readVars

-----------------------------------------------------------------------------
(* What is checked.                                                        *)

\* The events of a value, as far as they can be told from it: an alias by its
\* name, and no tags.
Mark(type, text, anchor) == [type |-> type, text |-> text, anchor |-> anchor]

RECURSIVE EventsOf(_)
EventsOf(v) ==
  LET items == FlattenSeq([i \in Positions(v) |->
                 (IF v.items[i].key = NoKey THEN <<>> ELSE EventsOf(v.items[i].key))
                   \o EventsOf(v.items[i].value)])
  IN  CASE v.kind = "Alias"    -> <<Mark("Alias", v.text, Unanchored)>>
        [] v.kind \in ScalarKinds -> <<Mark("Scalar", v.text, v.anchor)>>
        [] v.kind = "Sequence" -> <<Mark("SequenceStart", "", v.anchor)>> \o items
                                    \o <<Mark("SequenceEnd", "", Unanchored)>>
        [] v.kind = "Mapping"  -> <<Mark("MappingStart", "", v.anchor)>> \o items
                                    \o <<Mark("MappingEnd", "", Unanchored)>>

MarkOf(e) ==
  IF e.type = "Alias"
    THEN Mark("Alias", document.events[document.aliases[e.id + 1] + 1].anchor, Unanchored)
    ELSE Mark(e.type, e.text, e.anchor)

\* A value that from_str_value_preserve returns is the document: no node is
\* lost, moved or read twice, and every anchor and alias is where it was.
ValueIsDocument ==
  route = "preserve" /\ returned = "Ok" /\ document.events[1].type # "Void"
    => EventsOf(value) = [k \in 1 .. Len(document.events) |-> MarkOf(document.events[k])]

\* The keys of a document's mappings, each with the start of its mapping: the
\* nodes directly in a mapping with an even number of nodes before them.
KeyPlaces(d) ==
  LET counted(open) == IF open = <<>> THEN open ELSE [open EXCEPT ![Len(open)].nodes = @ + 1]
      isKey(open) == open # <<>> /\ Last(open).mapping /\ Last(open).nodes % 2 = 0
      read(done, p) ==
        LET e == d.events[p]
        IN  IF IsEnd(e) THEN [done EXCEPT !.open = Front(@)]
            ELSE [open |-> counted(done.open)
                             \o IF IsStart(e)
                                  THEN <<[start |-> p, mapping |-> e.type = "MappingStart",
                                          nodes |-> 0]>>
                                  ELSE <<>>,
                  keys |-> done.keys \cup IF isKey(done.open)
                                            THEN {[of |-> Last(done.open).start, at |-> p]}
                                            ELSE {}]
  IN  FoldLeft(read, [open |-> <<>>, keys |-> {}], [p \in 1 .. Len(d.events) |-> p]).keys

-----------------------------------------------------------------------------

LastCall == calls[Len(calls)]
Succeeded(op) == calls # <<>> /\ LastCall.op = op /\ LastCall.error = "none"

\* The paths to the nodes of a value, the insides of keys aside.
RECURSIVE Paths(_)
Paths(v) ==
  {<<>>} \cup UNION { { <<i>> \o p : p \in Paths(v.items[i].value) } : i \in Positions(v) }

\* The nodes outside of keys that define a name, if nothing else does.
SoleDefinitions(v, name) ==
  IF Len(SelectSeq(Anchored(v), LAMBDA n : n.anchor = name)) = 1
    THEN { p \in Paths(v) : At(v, p).anchor = name }
    ELSE {}

\* A value with neither anchors nor identities.
RECURSIVE Bare(_)
Bare(v) ==
  [v EXCEPT !.anchor = Unanchored, !.id = <<>>,
            !.items = [i \in Positions(v) |->
                         Entry(IF v.items[i].key = NoKey THEN NoKey ELSE Bare(v.items[i].key),
                               Bare(v.items[i].value))]]

\* The pairs that FirstWins leaves out: those whose key is a scalar of a text
\* that a key of the mapping has had before.
LaterPairs(d) ==
  LET keys == { p \in KeyPlaces(d) : d.events[p.at].type = "Scalar" }
  IN  { p.at : p \in { p \in keys : \E q \in keys : /\ q.of = p.of
                                                   /\ q.at < p.at
                                                   /\ d.events[q.at].text = d.events[p.at].text } }

\* A document without these pairs.
Without(d, keys) ==
  LET gone == UNION { p .. After(d, After(d, p)) - 1 : p \in keys }
      left == SelectSeq([i \in 1 .. Len(d.events) |-> i], LAMBDA i : i \notin gone)
  IN  [d EXCEPT !.events = [k \in 1 .. Len(left) |-> d.events[left[k]]]]

HasAliases(d) == \E i \in 1 .. Len(d.events) : d.events[i].type = "Alias"

\* What was returned is this result.
Returned(result) ==
  IF returned = "Ok" THEN result.error = "none" /\ Bare(held) = Bare(result.value)
                     ELSE result.error = returned

\* Under Error, from_str and StreamDeserializer return no value with a scalar key
\* twice, even if MapAccess, which does not look through aliases, misses it and
\* Mapping's visitor has to find it.  Under FirstWins a document without aliases
\* is read as if the later pairs of a text were not there, at every level.
DuplicatesByStrategy ==
  route = "text" /\ returned # "none" =>
    /\ strategy = "Error" /\ returned = "Ok" =>
         \A p, q \in KeyPlaces(document) :
           p.of = q.of /\ p.at < q.at => ~SameScalar(document, p.at, q.at)
    /\ strategy = "FirstWins" /\ ~document.error /\ ~HasAliases(document) =>
         Returned(FromStr(Without(document, LaterPairs(document)),
                          [Options EXCEPT !.strategy = "Error"]))

\* Under LastWins a key that a document has twice is no error ("Replace the
\* previous value with the last occurrence of the key").
LastOccurrenceWins ==
  route = "text" /\ strategy = "LastWins" /\ ~document.error => returned # "DuplicateKey"

\* After resolve_aliases there is, in the place of every alias outside of keys,
\* a copy of the node it names as that is now, without aliases or anchors.
AliasesAreCopies ==
  Succeeded("resolve") =>
    \A p \in Paths(before) : At(before, p).kind = "Alias" =>
      /\ \A q \in Paths(At(held, p)) :
           At(held, p \o q).kind # "Alias" /\ At(held, p \o q).anchor = Unanchored
      /\ \A q \in SoleDefinitions(before, At(before, p).text) :
           Bare(At(held, p)) = Bare(At(held, q))

-----------------------------------------------------------------------------

\* What a value is, whatever the order of its mappings: its children by key or
\* by position.
Child(key, at, tree) == [key |-> key, at |-> at, tree |-> tree]
Shape(v, children) == [kind |-> v.kind, text |-> v.text, children |-> children]

RECURSIVE Tree(_)
Tree(v) ==
  Shape(v, { Child(v.items[i].key, IF v.kind = "Mapping" THEN 0 ELSE i, Tree(v.items[i].value)) :
               i \in Positions(v) })

\* The value of a key, in a mapping that has it.
ValueOf(v, key) == v.items[CHOOSE i \in Positions(v) : v.items[i].key = key].value

\* The mappings under the merge key, the one that counts first in front.
Sources(v) ==
  LET keys == { i \in Positions(v) : IsMergeKey(v.items[i].key) }
      m == v.items[CHOOSE i \in keys : TRUE].value
  IN  IF keys = {} THEN <<>>
      ELSE IF m.kind = "Mapping" THEN <<m>>
      ELSE [i \in Positions(m) |-> m.items[Len(m.items) + 1 - i].value]

\* The tree of a value after the merge: a mapping's own pairs, and of those of
\* its sources the ones that no source before has.
RECURSIVE MergedTree(_)
MergedTree(v) ==
  IF v.kind # "Mapping"
    THEN Shape(v, { Child(NoKey, i, MergedTree(v.items[i].value)) : i \in Positions(v) })
    ELSE LET layers == <<v>> \o Sources(v)
             keys(i) == { k \in KeysOf(layers[i].items) : i = 1 => ~IsMergeKey(k) }
             first(k) == CHOOSE i \in DOMAIN layers :
                           k \in keys(i) /\ \A j \in 1 .. i - 1 : k \notin keys(j)
         IN  Shape(v, { Child(k, 0, MergedTree(ValueOf(layers[first(k)], k))) :
                          k \in UNION { keys(i) : i \in DOMAIN layers } })

\* apply_merge gives every mapping its own pairs and those of its sources, own
\* pairs first and later elements of a sequence before earlier ones, and never
\* takes a mapping for one that it has seen.
MergeByPrecedence ==
  /\ Succeeded("merge") => Tree(held) = MergedTree(before)
  /\ calls # <<>> /\ LastCall.op = "merge" => LastCall.error # "MergeRecursion"

-----------------------------------------------------------------------------

\* What the two ways to a Value are known to disagree about: a name that is
\* defined twice (the last definition counts for all aliases in one of them), a
\* key with an anchor or written as an alias, tags, empty scalars, and keys that
\* differ by quotes only.
Comparable(d) ==
  /\ \A p, q \in 1 .. Len(d.events) :
       /\ p # q /\ d.events[p].anchor # Unanchored => d.events[p].anchor # d.events[q].anchor
       /\ d.events[p].text = d.events[q].text => d.events[p].quoted = d.events[q].quoted
  /\ \A p \in 1 .. Len(d.events) :
       /\ d.events[p].tag = ""
       /\ d.events[p].type = "Scalar" => d.events[p].text # ""
  /\ \A p \in KeyPlaces(d) :
       d.events[p.at].anchor = Unanchored /\ d.events[p.at].type # "Alias"

\* The calls so far are those of from_str_value, which returns now.
IsFromStrValue ==
  /\ route = "preserve"
  /\ returned # "none"
  /\ CASE calls = <<>>     -> returned # "Ok"
       [] Len(calls) = 1   -> calls[1].op = "resolve" /\ calls[1].error # "none"
       [] Len(calls) = 2   -> /\ calls[1] = [op |-> "resolve", error |-> "none"]
                              /\ calls[2].op = "merge"
       [] OTHER            -> FALSE

\* from_str and from_str_value make the same value of a document, or both fail,
\* but for the disagreements above.
PathsAgree ==
  IsFromStrValue /\ Comparable(document) =>
    LET other == FromStr(document, Options)
    IN  IF returned = "Ok" /\ LastCall.error = "none"
          THEN other.error = "none" /\ Bare(held) = Bare(other.value)
          ELSE other.error # "none"
=============================================================================
