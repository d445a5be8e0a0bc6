------------------------------- MODULE Budget -------------------------------
(***************************************************************************)
(* The budget pre-scan, check_yaml_budget of src/budget.rs: a pass over    *)
(* the events of a second parser (saphyr, external) that counts them and   *)
(* stops at the first count above its limit.                               *)
(*                                                                         *)
(* An event is counted by one action.  Each arm of the code's match checks *)
(* some counters in a fixed order and returns at the first excess, so that *)
(* later counters of that arm are not updated: Checks gives the order.     *)
(*                                                                         *)
(* The scan relies on nothing that saphyr delivers, so that saphyr is      *)
(* modelled as any sequence of events, with a failure after any of them.   *)
(***************************************************************************)
EXTENDS Integers, Sequences, FiniteSets

CONSTANTS
  Budgets,    \* the budgets in use
  AnchorIds,  \* the anchor ids saphyr hands out
  Lengths,    \* the lengths of scalars, in bytes
  MaxUsize,   \* usize::MAX
  MaxEvents   \* bound: events in the stream

Limits == {"events", "documents", "aliases", "nodes", "bytes", "maxDepth", "anchors"}

\* The fields of Budget; `limit` gathers its max_* fields.
BudgetType ==
  [limit : [Limits -> 0 .. MaxUsize], enforceRatio : BOOLEAN,
   minAliases : 0 .. MaxUsize, multiplier : 0 .. MaxUsize]

ASSUME BudgetAssumption ==
  /\ MaxUsize \in Nat
  /\ MaxEvents \in Nat
  /\ Lengths \subseteq Nat
  /\ AnchorIds \subseteq Nat \ {0}
  /\ Budgets \subseteq BudgetType

VARIABLES
  budget,
  log,       \* history: the events so far
  phase,     \* "scanning", "reported" (Ok) or "failed" (ScanError)
  count,     \* the counters of the report, and defined_anchors.len()
  depth,     \* the nesting depth at this point
  anchors,   \* report.anchors, which is set after the loop only
  defined,   \* defined_anchors
  breached   \* report.breached: "none", a limit, or one of two other kinds

vars == <<budget, log, phase, count, depth, anchors, defined, breached>>

\* SequenceStart and MappingStart are treated alike, and so are their ends;
\* "Other" stands for the four events that are only counted as events.
Types == {"DocumentStart", "Alias", "Scalar", "Start", "End", "Other"}

\* `anchor` is 0 for a node without one; `total`, history, is the exact sum of
\* the scalars' lengths so far.
Events ==
  [type : Types, anchor : AnchorIds \cup {0}, length : Nat, total : Nat]

Sum == IF log = <<>> THEN 0 ELSE log[Len(log)].total

Happen(types, k) == { i \in 1 .. k : log[i].type \in types }

\* The nesting depth after k events.
Nest(k) == Cardinality(Happen({"Start"}, k)) - Cardinality(Happen({"End"}, k))

\* The events saphyr may deliver.
Offered ==
  { e \in [type : Types, anchor : AnchorIds \cup {0}, length : Lengths \cup {0}] :
      /\ e.anchor # 0 => e.type \in {"Scalar", "Start"}
      /\ IF e.type = "Scalar" THEN e.length \in Lengths ELSE e.length = 0 }

-----------------------------------------------------------------------------

Init ==
  /\ budget \in Budgets
  /\ log = <<>>
  /\ phase = "scanning"
  /\ count = [l \in Limits |-> 0]
  /\ depth = 0
  /\ anchors = 0
  /\ defined = {}
  /\ breached = "none"

\* usize::saturating_add.
SaturatingAdd(a, b) == IF a + b > MaxUsize THEN MaxUsize ELSE a + b

\* A mutant of Checks: the anchors of collections are not checked.
ChecksOfScalarAnchors(type) ==
  CASE type = "DocumentStart" -> <<"events", "documents">>
    [] type = "Alias"         -> <<"events", "aliases">>
    [] type = "Scalar"        -> <<"events", "nodes", "bytes", "anchors">>
    [] type = "Start"         -> <<"events", "nodes", "maxDepth">>
    [] type \in {"End", "Other"} -> <<"events">>

\* The counters an event is checked against, in the order of its match arm.
Checks(type) ==
  CASE type = "DocumentStart" -> <<"events", "documents">>
    [] type = "Alias"         -> <<"events", "aliases">>
    [] type = "Scalar"        -> <<"events", "nodes", "bytes", "anchors">>
    [] type = "Start"         -> <<"events", "nodes", "maxDepth", "anchors">>
    [] type \in {"End", "Other"} -> <<"events">>

NewAnchor(e) == e.anchor # 0 /\ e.anchor \notin defined

\* The counters once all of e is counted.
Counted(e) ==
  [l \in Limits |->
     CASE l = "events"    -> count[l] + 1
       [] l = "documents" -> IF e.type = "DocumentStart" THEN count[l] + 1 ELSE count[l]
       [] l = "aliases"   -> IF e.type = "Alias" THEN count[l] + 1 ELSE count[l]
       [] l = "nodes"     -> IF e.type \in {"Scalar", "Start"} THEN count[l] + 1 ELSE count[l]
       [] l = "bytes"     -> SaturatingAdd(count[l], e.length)
       [] l = "maxDepth"  -> IF e.type = "Start" /\ depth + 1 > count[l]
                               THEN depth + 1 ELSE count[l]
       [] l = "anchors"   -> IF NewAnchor(e) THEN count[l] + 1 ELSE count[l]]

\* A mutant of Excess: a limit that is reached counts as exceeded.
ExcessInclusive(e) ==
  { i \in 1 .. Len(Checks(e.type)) :
      Counted(e)[Checks(e.type)[i]] >= budget.limit[Checks(e.type)[i]] }

\* The check of e's arm that fails first, as a position in Checks.
Excess(e) ==
  { i \in 1 .. Len(Checks(e.type)) :
      Counted(e)[Checks(e.type)[i]] > budget.limit[Checks(e.type)[i]] }
FirstExcess(e) == CHOOSE i \in Excess(e) : \A j \in Excess(e) : i <= j

Log(e) ==
  log' = Append(log, [type |-> e.type, anchor |-> e.anchor, length |-> e.length,
                      total |-> Sum + e.length])

\* A mutant of Count: depth is decremented without a check.
CountUnbalanced(e) ==
  /\ phase = "scanning"
  /\ Excess(e) = {}
  /\ Log(e)
  /\ count' = Counted(e)
  /\ depth' = CASE e.type = "Start" -> depth + 1
                [] e.type = "End"   -> depth - 1
                [] OTHER            -> depth
  /\ defined' = IF e.anchor = 0 THEN defined ELSE defined \cup {e.anchor}
  /\ UNCHANGED <<budget, phase, anchors, breached>>

\* All checks of e's arm pass.
Count(e) ==
  /\ phase = "scanning"
  /\ Excess(e) = {}
  /\ ~(e.type = "End" /\ depth = 0)
  /\ Log(e)
  /\ count' = Counted(e)
  /\ depth' = CASE e.type = "Start" -> depth + 1
                [] e.type = "End"   -> depth - 1
                [] OTHER            -> depth
  /\ defined' = IF e.anchor = 0 THEN defined ELSE defined \cup {e.anchor}
  /\ UNCHANGED <<budget, phase, anchors, breached>>

\* A check of e's arm fails: what the arm does after it is left undone.
Breach(e) ==
  /\ phase = "scanning"
  /\ Excess(e) # {}
  /\ Log(e)
  /\ LET checks == Checks(e.type)
         done   == { checks[i] : i \in 1 .. FirstExcess(e) }
     IN  /\ breached' = checks[FirstExcess(e)]
         /\ count' = [l \in Limits |-> IF l \in done THEN Counted(e)[l] ELSE count[l]]
         /\ depth' = IF "maxDepth" \in done THEN depth + 1 ELSE depth
         /\ defined' = IF "anchors" \in done THEN defined \cup ({e.anchor} \ {0})
                                            ELSE defined
  /\ phase' = "reported"
  /\ UNCHANGED <<budget, anchors>>

\* An end without a start: depth.checked_sub(1) fails.
Unbalanced(e) ==
  /\ phase = "scanning"
  /\ Excess(e) = {}
  /\ e.type = "End"
  /\ depth = 0
  /\ Log(e)
  /\ count' = Counted(e)
  /\ breached' = "SequenceUnbalanced"
  /\ phase' = "reported"
  /\ UNCHANGED <<budget, depth, anchors, defined>>

\* alias_anchor_ratio_multiplier * anchors in usize, which wraps in a build
\* without overflow checks.
Product == (budget.multiplier * Cardinality(defined)) % (MaxUsize + 1)

\* A mutant of RatioExcess: the ratio is judged one alias late.
RatioExcessLate ==
  /\ budget.enforceRatio
  /\ count["aliases"] > budget.minAliases
  /\ Cardinality(defined) = 0 \/ count["aliases"] > Product

RatioExcess ==
  /\ budget.enforceRatio
  /\ count["aliases"] >= budget.minAliases
  /\ Cardinality(defined) = 0 \/ count["aliases"] > Product

\* The events are over: the anchors enter the report and the ratio is checked.
Finish ==
  /\ phase = "scanning"
  /\ phase' = "reported"
  /\ anchors' = Cardinality(defined)
  /\ breached' = IF RatioExcess THEN "AliasAnchorRatio" ELSE "none"
  /\ UNCHANGED <<budget, log, count, depth, defined>>

\* saphyr cannot scan the rest of the text.
ScanFails ==
  /\ phase = "scanning"
  /\ phase' = "failed"
  /\ UNCHANGED <<budget, log, count, depth, anchors, defined, breached>>

Scan(e) == Count(e) \/ Breach(e) \/ Unbalanced(e)

Next ==
  \/ Len(log) < MaxEvents /\ \E e \in Offered : Scan(e)
  \/ Finish
  \/ ScanFails

Spec == Init /\ [][Next]_vars

-----------------------------------------------------------------------------
(* What is checked.  The amounts below are computed from the history, and  *)
(* with the exact arithmetic of the numbers, not from the counters.        *)

Kinds == Limits \cup {"none", "AliasAnchorRatio", "SequenceUnbalanced"}

\* The type invariant of the scan.
BudgetTypeOK ==
  /\ budget \in Budgets
  /\ log \in Seq(Events)
  /\ phase \in {"scanning", "reported", "failed"}
  /\ count \in [Limits -> Nat]
  /\ depth \in Nat
  /\ anchors \in Nat
  /\ defined \subseteq AnchorIds
  /\ breached \in Kinds

Defined(k) == { log[i].anchor : i \in 1 .. k } \ {0}

Total(k) == IF k = 0 THEN 0 ELSE log[k].total

\* What max_depth bounds needs no maximum: a depth was above it at some point.
Above(l, k) ==
  CASE l = "events"    -> k > budget.limit[l]
    [] l = "documents" -> Cardinality(Happen({"DocumentStart"}, k)) > budget.limit[l]
    [] l = "aliases"   -> Cardinality(Happen({"Alias"}, k)) > budget.limit[l]
    [] l = "nodes"     -> Cardinality(Happen({"Scalar", "Start"}, k)) > budget.limit[l]
    [] l = "bytes"     -> SaturatingAdd(0, Total(k)) > budget.limit[l]
    [] l = "maxDepth"  -> \E i \in 0 .. k : Nest(i) > budget.limit[l]
    [] l = "anchors"   -> Cardinality(Defined(k)) > budget.limit[l]

Accepted == phase = "reported" /\ breached = "none"

\* A stream whose report has no breach respects every limit, and nowhere does
\* a collection end that did not start.
WithinBudget ==
  Accepted =>
    /\ \A l \in Limits : ~Above(l, Len(log))
    /\ \A k \in 0 .. Len(log) : Nest(k) >= 0

\* A reported limit is exceeded, and was not one event earlier: nor was any
\* other.  The report holds the amount that exceeds it, whatever the arm left
\* undone.
BreachIsFirst ==
  phase = "reported" /\ breached \in Limits =>
    /\ Above(breached, Len(log))
    /\ \A l \in Limits : ~Above(l, Len(log) - 1)
    /\ count[breached] > budget.limit[breached]

\* An accepted stream that has the aliases to be judged by their ratio to the
\* anchors respects the ratio, with the product computed without a bound.
RatioRespected ==
  Accepted /\ budget.enforceRatio /\ count["aliases"] >= budget.minAliases =>
    Cardinality(Happen({"Alias"}, Len(log)))
      <= budget.multiplier * Cardinality(Defined(Len(log)))
=============================================================================
