---------------------------- MODULE BudgetProofs ----------------------------
(***************************************************************************)
(* Proofs about the budget pre-scan: its types, that an accepted stream    *)
(* respects every limit and the ratio, and that the breach it reports is   *)
(* the first one.                                                          *)
(***************************************************************************)
EXTENDS Budget, FiniteSetTheorems, TLAPS

\* What a scan without a breach has counted is what happened.
CountsExact ==
  breached = "none" =>
    /\ count["events"] = Len(log)
    /\ count["documents"] = Cardinality(Happen({"DocumentStart"}, Len(log)))
    /\ count["aliases"] = Cardinality(Happen({"Alias"}, Len(log)))
    /\ count["nodes"] = Cardinality(Happen({"Scalar", "Start"}, Len(log)))
    /\ count["bytes"] = SaturatingAdd(0, Total(Len(log)))
    /\ defined = Defined(Len(log))
    /\ count["anchors"] = Cardinality(defined)

\* ... also of the depth, at this point and up to it.
DepthExact ==
  breached = "none" =>
    /\ depth = Nest(Len(log))
    /\ \A k \in 0 .. Len(log) : Nest(k) >= 0 /\ Nest(k) <= count["maxDepth"]

NoExcess ==
  breached = "none" => \A l \in Limits : count[l] <= budget.limit[l]

ScanningUnbreached == phase = "scanning" => breached = "none"

FiniteTypes == BudgetTypeOK /\ IsFiniteSet(defined)

\* The ratio was checked before the report was accepted.
RatioChecked == Accepted => ~RatioExcess

BudgetInv ==
  /\ FiniteTypes
  /\ CountsExact
  /\ DepthExact
  /\ NoExcess
  /\ ScanningUnbreached
  /\ RatioChecked

-----------------------------------------------------------------------------

LEMMA OfferedTypes ==
  ASSUME NEW e \in Offered
  PROVE  e.type \in Types /\ e.anchor \in AnchorIds \cup {0} /\ e.length \in Nat
<1>1. e \in [type : Types, anchor : AnchorIds \cup {0}, length : Lengths \cup {0}]
  BY DEF Offered
<1>2. e.type \in Types /\ e.anchor \in AnchorIds \cup {0} /\ e.length \in Lengths \cup {0}
  BY <1>1
<1>3. Lengths \subseteq Nat
  BY BudgetAssumption
<1>4. \A x \in Lengths \cup {0} : x \in Nat
  BY <1>3
<1>5. e.length \in Nat
  BY <1>2, <1>4
<1> QED BY <1>2, <1>5

\* An offered event is logged as an event.
LEMMA LogTypes ==
  ASSUME BudgetTypeOK, NEW e \in Offered, Log(e)
  PROVE  /\ log' = Append(log, [type |-> e.type, anchor |-> e.anchor,
                                length |-> e.length, total |-> Sum + e.length])
         /\ [type |-> e.type, anchor |-> e.anchor,
             length |-> e.length, total |-> Sum + e.length] \in Events
         /\ log' \in Seq(Events)
         /\ Sum \in Nat
         /\ Sum = Total(Len(log))
         /\ e.type \in Types
         /\ e.anchor \in AnchorIds \cup {0}
         /\ e.length \in Nat
<1>1. e.type \in Types /\ e.anchor \in AnchorIds \cup {0} /\ e.length \in Nat
  BY OfferedTypes
<1>2. log \in Seq(Events)
  BY DEF BudgetTypeOK
<1>3. Sum \in Nat /\ Sum = Total(Len(log))
  <2>1. CASE log = <<>>
    BY <2>1 DEF Sum, Total
  <2>2. CASE log # <<>>
    <3>1. Len(log) \in 1 .. Len(log) /\ Len(log) # 0
      BY <1>2, <2>2
    <3>2. log[Len(log)] \in Events
      BY <1>2, <3>1
    <3> QED BY <2>2, <3>1, <3>2 DEF Sum, Total, Events
  <2> QED BY <2>1, <2>2
<1>4. [type |-> e.type, anchor |-> e.anchor,
       length |-> e.length, total |-> Sum + e.length] \in Events
  BY <1>1, <1>3 DEF Events
<1> QED BY <1>1, <1>2, <1>3, <1>4 DEF Log

\* The counters after an event are numbers.
LEMMA CountedTypes ==
  ASSUME BudgetTypeOK, NEW e \in Offered
  PROVE  Counted(e) \in [Limits -> Nat]
<1>1. e.length \in Nat
  BY OfferedTypes
<1>2. MaxUsize \in Nat
  BY BudgetAssumption
<1>3. count \in [Limits -> Nat] /\ depth \in Nat
  BY DEF BudgetTypeOK
<1>4. SaturatingAdd(count["bytes"], e.length) \in Nat
  BY <1>1, <1>2, <1>3 DEF SaturatingAdd, Limits
<1>5. ASSUME NEW l \in Limits PROVE Counted(e)[l] \in Nat
  <2>1. count[l] \in Nat
    BY <1>3, <1>5
  <2> QED BY <1>3, <1>4, <2>1 DEF Counted, Limits
<1>6. DOMAIN Counted(e) = Limits
  BY DEF Counted
<1> QED BY <1>5, <1>6 DEF Counted

\* The first check that fails is one of the checks.
LEMMA FirstExcessChecked ==
  ASSUME NEW e \in Offered, Excess(e) # {}
  PROVE  /\ FirstExcess(e) \in Excess(e)
         /\ Checks(e.type)[FirstExcess(e)] \in Limits
<1>1. e.type \in Types
  BY OfferedTypes
<1>2. Len(Checks(e.type)) \in 1 .. 4
  BY <1>1 DEF Checks, Types
<1>3. \A i \in 1 .. Len(Checks(e.type)) : Checks(e.type)[i] \in Limits
  BY <1>1 DEF Checks, Types, Limits
<1>4. Excess(e) \subseteq 1 .. Len(Checks(e.type))
  BY DEF Excess
<1>5. Excess(e) \subseteq 1 .. 4
  <2> DEFINE n == Len(Checks(e.type))
  <2>1. n \in 1 .. 4 /\ Excess(e) \subseteq 1 .. n
    BY <1>2, <1>4
  <2> HIDE DEF n
  <2> QED BY <2>1
<1>6. \E i \in Excess(e) : \A j \in Excess(e) : i <= j
  <2>1. CASE 1 \in Excess(e) BY <1>5, <2>1
  <2>2. CASE 1 \notin Excess(e) /\ 2 \in Excess(e) BY <1>5, <2>2
  <2>3. CASE 1 \notin Excess(e) /\ 2 \notin Excess(e) /\ 3 \in Excess(e) BY <1>5, <2>3
  <2>4. CASE 1 \notin Excess(e) /\ 2 \notin Excess(e) /\ 3 \notin Excess(e)
    <3>1. \A i \in Excess(e) : i = 4
      BY <1>5, <2>4
    <3> QED BY <3>1
  <2> QED BY <2>1, <2>2, <2>3, <2>4
<1>7. FirstExcess(e) \in Excess(e)
  BY <1>6 DEF FirstExcess
<1> QED BY <1>3, <1>4, <1>7

\* What happened up to a point of the log does not change, and a new event
\* happens or not.
LEMMA Counting ==
  ASSUME log \in Seq(Events), NEW r \in Events, log' = Append(log, r),
         NEW n, n = Len(log), NEW T
  PROVE  /\ n \in Nat
         /\ Len(log') = n + 1
         /\ \A k \in 0 .. n : Happen(T, k)' = Happen(T, k)
         /\ Cardinality(Happen(T, n)) \in Nat
         /\ Cardinality(Happen(T, n + 1))'
              = Cardinality(Happen(T, n)) + (IF r.type \in T THEN 1 ELSE 0)
<1>1. n \in Nat /\ Len(log') = n + 1
  BY DEF Events
<1>2. \A i \in 1 .. n : log'[i] = log[i]
  BY <1>1
<1>3. log'[n + 1] = r
  BY <1>1
<1>4. \A k \in 0 .. n : Happen(T, k)' = Happen(T, k)
  BY <1>1, <1>2 DEF Happen
<1>5. IsFiniteSet(Happen(T, n)) /\ Cardinality(Happen(T, n)) \in Nat
  <2>1. IsFiniteSet(1 .. n)
    BY <1>1, FS_Interval
  <2>2. Happen(T, n) \subseteq 1 .. n
    BY DEF Happen
  <2> QED BY <2>1, <2>2, FS_Subset, FS_CardinalityType
<1>6. CASE r.type \in T
  <2>1. Happen(T, n + 1)' = Happen(T, n) \cup {n + 1}
    BY <1>1, <1>2, <1>3, <1>6 DEF Happen
  <2>2. n + 1 \notin Happen(T, n)
    BY <1>1 DEF Happen
  <2>3. Cardinality(Happen(T, n) \cup {n + 1}) = Cardinality(Happen(T, n)) + 1
    BY <1>5, <2>2, FS_AddElement
  <2> QED BY <1>1, <1>4, <1>5, <1>6, <2>1, <2>3
<1>7. CASE r.type \notin T
  <2>1. Happen(T, n + 1)' = Happen(T, n)
    BY <1>1, <1>2, <1>3, <1>7 DEF Happen
  <2> QED BY <1>1, <1>4, <1>5, <1>7, <2>1
<1> QED BY <1>6, <1>7

\* Every definition of the budget's module that a step of it changes.
LEMMA TypesStep ==
  ASSUME FiniteTypes, [Next]_vars
  PROVE  FiniteTypes'
<1> USE DEF FiniteTypes
<1>1. ASSUME NEW e \in Offered, Count(e)
      PROVE  FiniteTypes'
  <2>1. log' \in Seq(Events) /\ e.type \in Types /\ e.anchor \in AnchorIds \cup {0}
    BY <1>1, LogTypes DEF Count
  <2>2. count' \in [Limits -> Nat]
    BY <1>1, CountedTypes DEF Count
  <2>3. depth' \in Nat
    <3>1. depth \in Nat /\ ~(e.type = "End" /\ depth = 0)
      BY <1>1 DEF BudgetTypeOK, Count
    <3>2. depth' = CASE e.type = "Start" -> depth + 1
                     [] e.type = "End"   -> depth - 1
                     [] OTHER            -> depth
      BY <1>1 DEF Count
    <3>3. CASE e.type = "Start" BY <3>1, <3>2, <3>3
    <3>4. CASE e.type = "End" BY <3>1, <3>2, <3>4
    <3>5. CASE e.type \notin {"Start", "End"} BY <3>1, <3>2, <3>5
    <3> QED BY <3>3, <3>4, <3>5
  <2>4. defined' \subseteq AnchorIds /\ IsFiniteSet(defined')
    <3>1. CASE e.anchor = 0 BY <1>1, <3>1 DEF Count, BudgetTypeOK
    <3>2. CASE e.anchor # 0
      <4>1. defined' = defined \cup {e.anchor}
        BY <1>1, <3>2 DEF Count
      <4>2. IsFiniteSet(defined \cup {e.anchor})
        BY FS_AddElement
      <4> QED BY <2>1, <3>2, <4>1, <4>2 DEF BudgetTypeOK
    <3> QED BY <3>1, <3>2
  <2> QED BY <1>1, <2>1, <2>2, <2>3, <2>4 DEF Count, BudgetTypeOK
<1>2. ASSUME NEW e \in Offered, Breach(e)
      PROVE  FiniteTypes'
  <2> DEFINE checks == Checks(e.type)
  <2> DEFINE done == { checks[i] : i \in 1 .. FirstExcess(e) }
  <2>1. log' \in Seq(Events) /\ e.anchor \in AnchorIds \cup {0}
    BY <1>2, LogTypes DEF Breach
  <2>2. /\ breached' = checks[FirstExcess(e)]
        /\ count' = [l \in Limits |-> IF l \in done THEN Counted(e)[l] ELSE count[l]]
        /\ depth' = IF "maxDepth" \in done THEN depth + 1 ELSE depth
        /\ defined' = IF "anchors" \in done THEN defined \cup ({e.anchor} \ {0})
                                            ELSE defined
    BY <1>2 DEF Breach
  <2>3. breached' \in Kinds
    BY <1>2, <2>2, FirstExcessChecked DEF Breach, Kinds
  <2>4. count' \in [Limits -> Nat]
    <3>1. Counted(e) \in [Limits -> Nat] /\ count \in [Limits -> Nat]
      BY CountedTypes DEF BudgetTypeOK
    <3> HIDE DEF done
    <3> QED BY <2>2, <3>1
  <2>5. depth' \in Nat
    <3> HIDE DEF done
    <3> QED BY <2>2 DEF BudgetTypeOK
  <2>6. defined' \subseteq AnchorIds /\ IsFiniteSet(defined')
    <3> HIDE DEF done
    <3>1. IsFiniteSet(defined \cup {e.anchor})
      BY FS_AddElement
    <3>2. IsFiniteSet(defined \cup ({e.anchor} \ {0}))
      BY <3>1, FS_Subset
    <3> QED BY <2>1, <2>2, <3>2 DEF BudgetTypeOK
  <2> HIDE DEF done, checks
  <2> QED BY <1>2, <2>1, <2>3, <2>4, <2>5, <2>6 DEF Breach, BudgetTypeOK
<1>3. ASSUME NEW e \in Offered, Unbalanced(e)
      PROVE  FiniteTypes'
  <2>1. log' \in Seq(Events)
    BY <1>3, LogTypes DEF Unbalanced
  <2>2. count' \in [Limits -> Nat]
    BY <1>3, CountedTypes DEF Unbalanced
  <2> QED BY <1>3, <2>1, <2>2 DEF Unbalanced, BudgetTypeOK, Kinds
<1>4. CASE Finish
  <2>1. anchors' \in Nat
    BY <1>4, FS_CardinalityType DEF Finish
  <2>2. breached' \in Kinds
    BY <1>4 DEF Finish, Kinds
  <2> QED BY <1>4, <2>1, <2>2 DEF Finish, BudgetTypeOK
<1>5. CASE ScanFails
  BY <1>5 DEF ScanFails, BudgetTypeOK
<1>6. CASE UNCHANGED vars
  BY <1>6 DEF vars, BudgetTypeOK
<1> QED BY <1>1, <1>2, <1>3, <1>4, <1>5, <1>6 DEF Next, Scan

LEMMA TypesInit == Init => FiniteTypes
<1> SUFFICES ASSUME Init PROVE FiniteTypes
  OBVIOUS
<1>1. log \in Seq(Events) /\ count \in [Limits -> Nat]
  BY DEF Init
<1> QED BY <1>1, FS_EmptySet DEF Init, BudgetTypeOK, FiniteTypes, Kinds

\* The counters keep their types, whatever is scanned (check_yaml_budget): no
\* count and no depth ever drops below zero.
THEOREM BudgetTypeCorrect == Spec => []BudgetTypeOK
<1>1. FiniteTypes => BudgetTypeOK
  BY DEF FiniteTypes
<1> QED BY TypesInit, TypesStep, <1>1, PTL DEF Spec

-----------------------------------------------------------------------------

\* The counters after an event, one by one.
LEMMA CountedIs ==
  ASSUME NEW e
  PROVE  /\ Counted(e)["events"] = count["events"] + 1
         /\ Counted(e)["documents"] =
              IF e.type = "DocumentStart" THEN count["documents"] + 1 ELSE count["documents"]
         /\ Counted(e)["aliases"] =
              IF e.type = "Alias" THEN count["aliases"] + 1 ELSE count["aliases"]
         /\ Counted(e)["nodes"] =
              IF e.type \in {"Scalar", "Start"} THEN count["nodes"] + 1 ELSE count["nodes"]
         /\ Counted(e)["bytes"] = SaturatingAdd(count["bytes"], e.length)
         /\ Counted(e)["maxDepth"] =
              IF e.type = "Start" /\ depth + 1 > count["maxDepth"]
                THEN depth + 1 ELSE count["maxDepth"]
         /\ Counted(e)["anchors"] =
              IF NewAnchor(e) THEN count["anchors"] + 1 ELSE count["anchors"]
BY DEF Counted, Limits

\* The counters once all of an event is counted are exact of the log with it,
\* whether they are all kept or one of them breaches.
LEMMA CountedExact ==
  ASSUME FiniteTypes, CountsExact, breached = "none", NEW e \in Offered, Log(e),
         NEW n, n = Len(log)
  PROVE  /\ n \in Nat
         /\ Len(log') = n + 1
         /\ Counted(e)["events"] = n + 1
         /\ Counted(e)["documents"] = Cardinality(Happen({"DocumentStart"}, n + 1))'
         /\ Counted(e)["aliases"] = Cardinality(Happen({"Alias"}, n + 1))'
         /\ Counted(e)["nodes"] = Cardinality(Happen({"Scalar", "Start"}, n + 1))'
         /\ Counted(e)["bytes"] = SaturatingAdd(0, Total(n + 1)')
         /\ Defined(n + 1)' = defined \cup ({e.anchor} \ {0})
         /\ Counted(e)["anchors"] = Cardinality(Defined(n + 1)')
<1> DEFINE r == [type |-> e.type, anchor |-> e.anchor,
                 length |-> e.length, total |-> Sum + e.length]
<1>1. /\ log \in Seq(Events) /\ r \in Events /\ log' = Append(log, r)
      /\ Sum \in Nat /\ Sum = Total(n) /\ e.length \in Nat
      /\ e.anchor \in AnchorIds \cup {0}
  BY LogTypes DEF FiniteTypes, BudgetTypeOK
<1>2. r.type = e.type /\ r.anchor = e.anchor /\ r.total = Sum + e.length
  OBVIOUS
<1>3. n \in Nat /\ Len(log') = n + 1
  BY <1>1
<1> HIDE DEF r
<1>5. /\ count["events"] = n
      /\ count["documents"] = Cardinality(Happen({"DocumentStart"}, n))
      /\ count["aliases"] = Cardinality(Happen({"Alias"}, n))
      /\ count["nodes"] = Cardinality(Happen({"Scalar", "Start"}, n))
      /\ count["bytes"] = SaturatingAdd(0, Total(n))
      /\ defined = Defined(n)
      /\ count["anchors"] = Cardinality(defined)
  BY DEF CountsExact
<1>6. Counted(e)["documents"] = Cardinality(Happen({"DocumentStart"}, n + 1))'
  <2>1. Counted(e)["documents"] = IF e.type = "DocumentStart" THEN count["documents"] + 1 ELSE count["documents"]
    BY CountedIs
  <2>2. Cardinality(Happen({"DocumentStart"}, n + 1))' =
          Cardinality(Happen({"DocumentStart"}, n)) + (IF r.type \in {"DocumentStart"} THEN 1 ELSE 0)
    BY <1>1, Counting
  <2>3. Cardinality(Happen({"DocumentStart"}, n)) \in Nat
    BY <1>1, Counting
  <2> QED BY <1>2, <1>5, <2>1, <2>2, <2>3
<1>7. Counted(e)["aliases"] = Cardinality(Happen({"Alias"}, n + 1))'
  <2>1. Counted(e)["aliases"] = IF e.type = "Alias" THEN count["aliases"] + 1 ELSE count["aliases"]
    BY CountedIs
  <2>2. Cardinality(Happen({"Alias"}, n + 1))' =
          Cardinality(Happen({"Alias"}, n)) + (IF r.type \in {"Alias"} THEN 1 ELSE 0)
    BY <1>1, Counting
  <2>3. Cardinality(Happen({"Alias"}, n)) \in Nat
    BY <1>1, Counting
  <2> QED BY <1>2, <1>5, <2>1, <2>2, <2>3
<1>8. Counted(e)["nodes"] = Cardinality(Happen({"Scalar", "Start"}, n + 1))'
  <2>1. Counted(e)["nodes"] = IF e.type \in {"Scalar", "Start"} THEN count["nodes"] + 1 ELSE count["nodes"]
    BY CountedIs
  <2>2. Cardinality(Happen({"Scalar", "Start"}, n + 1))' =
          Cardinality(Happen({"Scalar", "Start"}, n)) + (IF r.type \in {"Scalar", "Start"} THEN 1 ELSE 0)
    BY <1>1, Counting
  <2>3. Cardinality(Happen({"Scalar", "Start"}, n)) \in Nat
    BY <1>1, Counting
  <2> QED BY <1>2, <1>5, <2>1, <2>2, <2>3
<1>9. Counted(e)["bytes"] = SaturatingAdd(0, Total(n + 1)')
  <2>1. log'[n + 1] = r
    BY <1>1, <1>3
  <2>2. Total(n + 1)' = Sum + e.length
    BY <1>2, <1>3, <2>1 DEF Total
  <2>3. MaxUsize \in Nat
    BY BudgetAssumption
  <2>4. SaturatingAdd(SaturatingAdd(0, Sum), e.length) = SaturatingAdd(0, Sum + e.length)
    BY <1>1, <2>3 DEF SaturatingAdd
  <2> QED BY <1>1, <1>5, <2>2, <2>4, CountedIs
<1>10. Defined(n + 1)' = defined \cup ({e.anchor} \ {0})
  <2>1. log'[n + 1] = r /\ \A i \in 1 .. n : log'[i] = log[i]
    BY <1>1, <1>3
  <2>2. Defined(n + 1)' = Defined(n) \cup ({e.anchor} \ {0})
    BY <1>2, <1>3, <2>1 DEF Defined
  <2> QED BY <1>5, <2>2
<1>11. Counted(e)["anchors"] = Cardinality(Defined(n + 1)')
  <2>1. IsFiniteSet(defined)
    BY DEF FiniteTypes
  <2>2. CASE NewAnchor(e)
    <3>1. Defined(n + 1)' = defined \cup {e.anchor} /\ e.anchor \notin defined
      BY <1>10, <2>2 DEF NewAnchor
    <3>2. Cardinality(Defined(n + 1)') = Cardinality(defined) + 1
      BY <2>1, <3>1, FS_AddElement
    <3> QED BY <1>5, <2>2, <3>2, CountedIs
  <2>3. CASE ~NewAnchor(e)
    <3>1. Defined(n + 1)' = defined
      BY <1>10, <2>3 DEF NewAnchor
    <3> QED BY <1>5, <2>3, <3>1, CountedIs
  <2> QED BY <2>2, <2>3
<1>12. Counted(e)["events"] = n + 1
  BY <1>5, CountedIs
<1> QED BY <1>3, <1>6, <1>7, <1>8, <1>9, <1>10, <1>11, <1>12

\* An event that is counted keeps the counters exact.
LEMMA CountsStep ==
  ASSUME FiniteTypes, CountsExact, ScanningUnbreached, NEW e \in Offered, Count(e)
  PROVE  CountsExact'
<1> PICK n : n = Len(log)
  OBVIOUS
<1>1. /\ count' = Counted(e) /\ breached = "none" /\ Log(e)
      /\ defined' = IF e.anchor = 0 THEN defined ELSE defined \cup {e.anchor}
  BY DEF Count, ScanningUnbreached
<1>2. /\ Len(log') = n + 1
      /\ count'["events"] = n + 1
      /\ count'["documents"] = Cardinality(Happen({"DocumentStart"}, n + 1))'
      /\ count'["aliases"] = Cardinality(Happen({"Alias"}, n + 1))'
      /\ count'["nodes"] = Cardinality(Happen({"Scalar", "Start"}, n + 1))'
      /\ count'["bytes"] = SaturatingAdd(0, Total(n + 1)')
      /\ Defined(n + 1)' = defined \cup ({e.anchor} \ {0})
      /\ count'["anchors"] = Cardinality(Defined(n + 1)')
  BY <1>1, CountedExact
<1>3. defined' = Defined(n + 1)'
  BY <1>1, <1>2
<1>4. /\ Happen({"DocumentStart"}, n + 1)' = Happen({"DocumentStart"}, Len(log))'
      /\ Happen({"Alias"}, n + 1)' = Happen({"Alias"}, Len(log))'
      /\ Happen({"Scalar", "Start"}, n + 1)' = Happen({"Scalar", "Start"}, Len(log))'
      /\ Total(n + 1)' = Total(Len(log))'
      /\ Defined(n + 1)' = Defined(Len(log))'
  BY <1>2
<1> QED BY <1>2, <1>3, <1>4 DEF CountsExact, SaturatingAdd

\* ... and the depth.
LEMMA DepthStep ==
  ASSUME FiniteTypes, DepthExact, ScanningUnbreached, NEW e \in Offered, Count(e)
  PROVE  DepthExact'
<1> DEFINE r == [type |-> e.type, anchor |-> e.anchor,
                 length |-> e.length, total |-> Sum + e.length]
<1> PICK n : n = Len(log)
  OBVIOUS
<1>1. log \in Seq(Events) /\ r \in Events /\ log' = Append(log, r)
  BY LogTypes DEF Count, FiniteTypes, BudgetTypeOK
<1>2. r.type = e.type
  OBVIOUS
<1>3. n \in Nat /\ Len(log') = n + 1
  BY <1>1
<1> HIDE DEF r
<1>4. /\ count' = Counted(e) /\ breached = "none"
      /\ ~(e.type = "End" /\ depth = 0)
      /\ depth' = CASE e.type = "Start" -> depth + 1
                    [] e.type = "End"   -> depth - 1
                    [] OTHER            -> depth
  BY DEF Count, ScanningUnbreached
<1>5. /\ depth \in Nat /\ count["maxDepth"] \in Nat
      /\ depth = Nest(n)
      /\ \A k \in 0 .. n : Nest(k) >= 0 /\ Nest(k) <= count["maxDepth"]
  BY <1>4 DEF DepthExact, FiniteTypes, BudgetTypeOK, Limits
<1>6. /\ \A k \in 0 .. n : Happen({"Start"}, k)' = Happen({"Start"}, k)
      /\ Cardinality(Happen({"Start"}, n)) \in Nat
      /\ Cardinality(Happen({"Start"}, n + 1))'
           = Cardinality(Happen({"Start"}, n)) + (IF e.type = "Start" THEN 1 ELSE 0)
  BY <1>1, <1>2, Counting
<1>7. /\ \A k \in 0 .. n : Happen({"End"}, k)' = Happen({"End"}, k)
      /\ Cardinality(Happen({"End"}, n)) \in Nat
      /\ Cardinality(Happen({"End"}, n + 1))'
           = Cardinality(Happen({"End"}, n)) + (IF e.type = "End" THEN 1 ELSE 0)
  BY <1>1, <1>2, Counting
<1>8. \A k \in 0 .. n : Nest(k)' = Nest(k)
  BY <1>6, <1>7 DEF Nest
<1>9. Nest(n + 1)' = depth'
  <2>1. CASE e.type = "Start" BY <1>4, <1>5, <1>6, <1>7, <2>1 DEF Nest
  <2>2. CASE e.type = "End" BY <1>4, <1>5, <1>6, <1>7, <2>2 DEF Nest
  <2>3. CASE e.type \notin {"Start", "End"} BY <1>4, <1>5, <1>6, <1>7, <2>3 DEF Nest
  <2> QED BY <2>1, <2>2, <2>3
<1>10. /\ depth' >= 0 /\ depth' <= count'["maxDepth"]
       /\ count["maxDepth"] <= count'["maxDepth"] /\ count'["maxDepth"] \in Nat
  <2>1. count'["maxDepth"] = IF e.type = "Start" /\ depth + 1 > count["maxDepth"]
                               THEN depth + 1 ELSE count["maxDepth"]
    BY <1>4, CountedIs
  <2>2. depth <= count["maxDepth"]
    BY <1>3, <1>5
  <2>3. CASE e.type = "Start" BY <1>4, <1>5, <2>1, <2>2, <2>3
  <2>4. CASE e.type = "End" BY <1>4, <1>5, <2>1, <2>2, <2>4
  <2>5. CASE e.type \notin {"Start", "End"} BY <1>4, <1>5, <2>1, <2>2, <2>5
  <2> QED BY <2>3, <2>4, <2>5
<1>11. ASSUME NEW k \in 0 .. n + 1
       PROVE  Nest(k)' >= 0 /\ Nest(k)' <= count'["maxDepth"]
  <2>1. CASE k \in 0 .. n
    <3>1. Nest(k) \in Int /\ Nest(k)' = Nest(k)
           /\ Nest(k) >= 0 /\ Nest(k) <= count["maxDepth"]
      <4>1. Cardinality(Happen({"Start"}, k)) \in Nat /\ Cardinality(Happen({"End"}, k)) \in Nat
        <5>1. IsFiniteSet(1 .. k)
          BY <1>3, FS_Interval
        <5>2. Happen({"Start"}, k) \subseteq 1 .. k /\ Happen({"End"}, k) \subseteq 1 .. k
          BY DEF Happen
        <5> QED BY <5>1, <5>2, FS_Subset, FS_CardinalityType
      <4> QED BY <1>5, <1>8, <2>1, <4>1 DEF Nest
    <3> QED BY <1>5, <1>10, <3>1
  <2>2. CASE k = n + 1
    BY <1>9, <1>10, <2>2
  <2> QED BY <1>3, <2>1, <2>2
<1>12. Nest(n + 1)' = Nest(Len(log))'
  BY <1>3
<1> QED BY <1>3, <1>9, <1>11, <1>12 DEF DepthExact

\* An event that is counted exceeds no limit, not even one that its arm does
\* not check: that counter stays as it was.
LEMMA NoExcessStep ==
  ASSUME FiniteTypes, NoExcess, ScanningUnbreached, NEW e \in Offered, Count(e)
  PROVE  NoExcess'
<1>1. /\ count' = Counted(e) /\ breached = "none" /\ budget' = budget
      /\ Excess(e) = {}
  BY DEF Count, ScanningUnbreached
<1>2. \A l \in Limits : count[l] \in Nat /\ count[l] <= budget.limit[l]
  BY <1>1 DEF NoExcess, FiniteTypes, BudgetTypeOK
<1>3. \A l \in Limits : Counted(e)[l] \in Nat /\ budget.limit[l] \in Nat
  <2>1. budget \in BudgetType
    BY BudgetAssumption DEF FiniteTypes, BudgetTypeOK
  <2>2. budget.limit \in [Limits -> 0 .. MaxUsize]
    BY <2>1 DEF BudgetType
  <2>3. MaxUsize \in Nat
    BY BudgetAssumption
  <2>4. Counted(e) \in [Limits -> Nat]
    BY CountedTypes DEF FiniteTypes
  <2> QED BY <2>2, <2>3, <2>4
<1>4. e.type \in Types
  BY OfferedTypes
<1>5. (e.anchor # 0 => e.type \in {"Scalar", "Start"}) /\ (e.type # "Scalar" => e.length = 0)
  BY DEF Offered
<1>6. \A i \in 1 .. Len(Checks(e.type)) :
        Counted(e)[Checks(e.type)[i]] <= budget.limit[Checks(e.type)[i]]
  <2> TAKE i \in 1 .. Len(Checks(e.type))
  <2>1. Checks(e.type)[i] \in Limits
    BY <1>4 DEF Checks, Types, Limits
  <2>2. ~(Counted(e)[Checks(e.type)[i]] > budget.limit[Checks(e.type)[i]])
    BY <1>1 DEF Excess
  <2> QED BY <1>3, <2>1, <2>2
<1>7. count["bytes"] <= MaxUsize /\ MaxUsize \in Nat
  <2>1. budget \in BudgetType /\ MaxUsize \in Nat
    BY BudgetAssumption DEF FiniteTypes, BudgetTypeOK
  <2>2. budget.limit \in [Limits -> 0 .. MaxUsize]
    BY <2>1 DEF BudgetType
  <2>3. budget.limit["bytes"] \in 0 .. MaxUsize
    BY <2>2 DEF Limits
  <2>4. count["bytes"] \in Nat /\ count["bytes"] <= budget.limit["bytes"]
    BY <1>2 DEF Limits
  <2> QED BY <2>1, <2>3, <2>4
<1>8. Counted(e)["events"] <= budget.limit["events"]
  <2>1. 1 \in 1 .. Len(Checks(e.type)) /\ Checks(e.type)[1] = "events"
    BY <1>4 DEF Checks, Types
  <2> QED BY <1>6, <2>1
<1>9. Counted(e)["documents"] <= budget.limit["documents"]
  <2>1. CASE e.type = "DocumentStart"
    <3>1. 2 \in 1 .. Len(Checks(e.type)) /\ Checks(e.type)[2] = "documents"
      BY <2>1 DEF Checks
    <3> QED BY <1>6, <3>1
  <2>2. CASE e.type # "DocumentStart" BY <1>2, <2>2, CountedIs DEF Limits
  <2> QED BY <2>1, <2>2
<1>10. Counted(e)["aliases"] <= budget.limit["aliases"]
  <2>1. CASE e.type = "Alias"
    <3>1. 2 \in 1 .. Len(Checks(e.type)) /\ Checks(e.type)[2] = "aliases"
      BY <2>1 DEF Checks
    <3> QED BY <1>6, <3>1
  <2>2. CASE e.type # "Alias" BY <1>2, <2>2, CountedIs DEF Limits
  <2> QED BY <2>1, <2>2
<1>11. Counted(e)["nodes"] <= budget.limit["nodes"]
  <2>1. CASE e.type \in {"Scalar", "Start"}
    <3>1. 2 \in 1 .. Len(Checks(e.type)) /\ Checks(e.type)[2] = "nodes"
      BY <2>1 DEF Checks
    <3> QED BY <1>6, <3>1
  <2>2. CASE e.type \notin {"Scalar", "Start"} BY <1>2, <2>2, CountedIs DEF Limits
  <2> QED BY <2>1, <2>2
<1>12. Counted(e)["bytes"] <= budget.limit["bytes"]
  <2>1. CASE e.type = "Scalar"
    <3>1. 3 \in 1 .. Len(Checks(e.type)) /\ Checks(e.type)[3] = "bytes"
      BY <2>1 DEF Checks
    <3> QED BY <1>6, <3>1
  <2>2. CASE e.type # "Scalar"
    <3>1. Counted(e)["bytes"] = SaturatingAdd(count["bytes"], 0)
      BY <1>5, <2>2, CountedIs
    <3>2. SaturatingAdd(count["bytes"], 0) = count["bytes"]
      BY <1>2, <1>7 DEF SaturatingAdd, Limits
    <3> QED BY <1>2, <3>1, <3>2 DEF Limits
  <2> QED BY <2>1, <2>2
<1>13. Counted(e)["maxDepth"] <= budget.limit["maxDepth"]
  <2>1. CASE e.type = "Start"
    <3>1. 3 \in 1 .. Len(Checks(e.type)) /\ Checks(e.type)[3] = "maxDepth"
      BY <2>1 DEF Checks
    <3> QED BY <1>6, <3>1
  <2>2. CASE e.type # "Start" BY <1>2, <2>2, CountedIs DEF Limits
  <2> QED BY <2>1, <2>2
<1>14. Counted(e)["anchors"] <= budget.limit["anchors"]
  <2>1. CASE e.type \in {"Scalar", "Start"}
    <3>1. 4 \in 1 .. Len(Checks(e.type)) /\ Checks(e.type)[4] = "anchors"
      BY <2>1 DEF Checks
    <3> QED BY <1>6, <3>1
  <2>2. CASE e.type \notin {"Scalar", "Start"}
    <3>1. ~NewAnchor(e)
      BY <1>5, <2>2 DEF NewAnchor
    <3> QED BY <1>2, <3>1, CountedIs DEF Limits
  <2> QED BY <2>1, <2>2
<1>15. \A l \in Limits : Counted(e)[l] <= budget.limit[l]
  BY <1>8, <1>9, <1>10, <1>11, <1>12, <1>13, <1>14 DEF Limits
<1> QED BY <1>1, <1>15 DEF NoExcess

\* Every step keeps the invariant.  A step that reports a breach leaves it
\* nothing to say.
LEMMA BudgetInvStep ==
  ASSUME BudgetInv, [Next]_vars
  PROVE  BudgetInv'
<1> USE DEF BudgetInv
<1>1. FiniteTypes'
  BY TypesStep
<1>2. ASSUME NEW e \in Offered, Count(e)
      PROVE  BudgetInv'
  <2>1. ScanningUnbreached' /\ RatioChecked'
    BY <1>2 DEF Count, ScanningUnbreached, RatioChecked, Accepted
  <2> QED BY <1>1, <1>2, <2>1, CountsStep, DepthStep, NoExcessStep
<1>3. ASSUME NEW e \in Offered, Breach(e)
      PROVE  BudgetInv'
  <2>1. breached' \in Limits /\ phase' = "reported"
    BY <1>3, FirstExcessChecked DEF Breach
  <2>2. breached' # "none"
    BY <2>1 DEF Limits
  <2> QED BY <1>1, <2>1, <2>2
    DEF CountsExact, DepthExact, NoExcess, ScanningUnbreached, RatioChecked, Accepted
<1>4. ASSUME NEW e \in Offered, Unbalanced(e)
      PROVE  BudgetInv'
  <2>1. breached' # "none" /\ phase' = "reported"
    BY <1>4 DEF Unbalanced
  <2> QED BY <1>1, <2>1
    DEF CountsExact, DepthExact, NoExcess, ScanningUnbreached, RatioChecked, Accepted
<1>5. CASE Finish
  <2>1. /\ UNCHANGED <<budget, log, count, depth, defined>>
        /\ breached = "none" /\ phase' = "reported"
        /\ breached' = IF RatioExcess THEN "AliasAnchorRatio" ELSE "none"
    BY <1>5 DEF Finish, ScanningUnbreached
  <2>2. CountsExact'
    BY <2>1 DEF CountsExact, Happen, Total, Defined
  <2>3. DepthExact'
    BY <2>1 DEF DepthExact, Nest, Happen
  <2>4. NoExcess' /\ ScanningUnbreached'
    BY <2>1 DEF NoExcess, ScanningUnbreached
  <2>5. RatioChecked'
    <3>1. RatioExcess' = RatioExcess
      BY <2>1 DEF RatioExcess, Product
    <3>2. RatioExcess => breached' # "none"
      BY <2>1
    <3> QED BY <3>1, <3>2 DEF RatioChecked, Accepted
  <2> QED BY <1>1, <2>2, <2>3, <2>4, <2>5
<1>6. CASE ScanFails \/ UNCHANGED vars
  <2>1. /\ UNCHANGED <<budget, log, count, depth, defined, breached>>
        /\ phase' = "failed" \/ phase' = phase
    BY <1>6 DEF ScanFails, vars
  <2>2. CountsExact' /\ DepthExact'
    BY <2>1 DEF CountsExact, DepthExact, Nest, Happen, Total, Defined
  <2>3. NoExcess' /\ ScanningUnbreached'
    BY <2>1 DEF NoExcess, ScanningUnbreached
  <2>4. RatioChecked'
    <3>1. RatioExcess' = RatioExcess /\ (Accepted' => Accepted)
      BY <2>1 DEF RatioExcess, Product, Accepted
    <3> QED BY <3>1 DEF RatioChecked
  <2> QED BY <1>1, <2>2, <2>3, <2>4
<1> QED BY <1>2, <1>3, <1>4, <1>5, <1>6 DEF Next, Scan

LEMMA BudgetInvInit == Init => BudgetInv
<1> SUFFICES ASSUME Init PROVE BudgetInv
  OBVIOUS
<1>1. log = <<>> /\ Len(log) = 0 /\ defined = {} /\ depth = 0 /\ phase = "scanning"
  BY DEF Init
<1>2. \A l \in Limits : count[l] = 0
  BY DEF Init
<1>3. \A T : Happen(T, 0) = {}
  BY DEF Happen
<1>4. Cardinality({}) = 0
  BY FS_EmptySet
<1>5. CountsExact
  <2>1. Defined(0) = {} /\ Total(0) = 0
    BY DEF Defined, Total
  <2>2. SaturatingAdd(0, 0) = 0
    BY BudgetAssumption DEF SaturatingAdd
  <2> QED BY <1>1, <1>2, <1>3, <1>4, <2>1, <2>2 DEF CountsExact, Limits
<1>6. DepthExact
  <2>1. Nest(0) = 0
    BY <1>3, <1>4 DEF Nest
  <2> QED BY <1>1, <1>2, <2>1 DEF DepthExact, Limits
<1>7. NoExcess
  <2>1. budget \in BudgetType
    BY BudgetAssumption DEF Init
  <2>2. budget.limit \in [Limits -> 0 .. MaxUsize] /\ MaxUsize \in Nat
    BY <2>1, BudgetAssumption DEF BudgetType
  <2> QED BY <1>2, <2>2 DEF NoExcess
<1>8. ScanningUnbreached /\ RatioChecked
  BY <1>1 DEF ScanningUnbreached, RatioChecked, Accepted, Init
<1> QED BY <1>5, <1>6, <1>7, <1>8, TypesInit DEF BudgetInv

LEMMA BudgetInvariant == Spec => []BudgetInv
<1> QED BY BudgetInvInit, BudgetInvStep, PTL DEF Spec

\* Before a breach every limit is respected, by the log itself.
LEMMA NotAbove ==
  ASSUME BudgetInv, breached = "none"
  PROVE  /\ \A l \in Limits : ~Above(l, Len(log))
         /\ \A k \in 0 .. Len(log) : Nest(k) >= 0
<1> PICK n : n = Len(log)
  OBVIOUS
<1>2. \A l \in Limits : count[l] \in Nat /\ count[l] <= budget.limit[l]
  BY DEF BudgetInv, NoExcess, FiniteTypes, BudgetTypeOK
<1>3. /\ n = count["events"]
      /\ Cardinality(Happen({"DocumentStart"}, n)) = count["documents"]
      /\ Cardinality(Happen({"Alias"}, n)) = count["aliases"]
      /\ Cardinality(Happen({"Scalar", "Start"}, n)) = count["nodes"]
      /\ SaturatingAdd(0, Total(n)) = count["bytes"]
      /\ Cardinality(Defined(n)) = count["anchors"]
  BY DEF BudgetInv, CountsExact
<1>4. \A k \in 0 .. n : Nest(k) >= 0 /\ Nest(k) <= count["maxDepth"]
  BY DEF BudgetInv, DepthExact
<1>5. \A l \in Limits : budget.limit[l] \in Nat
  <2>1. budget \in BudgetType /\ MaxUsize \in Nat
    BY BudgetAssumption DEF BudgetInv, FiniteTypes, BudgetTypeOK
  <2>2. budget.limit \in [Limits -> 0 .. MaxUsize]
    BY <2>1 DEF BudgetType
  <2> QED BY <2>1, <2>2
<1>6. \A k \in 0 .. n : Nest(k) \in Int
  <2> TAKE k \in 0 .. n
  <2>1. IsFiniteSet(1 .. k)
    <3>1. n \in Nat
      BY <1>2, <1>3 DEF Limits
    <3> QED BY <3>1, FS_Interval
  <2>2. Happen({"Start"}, k) \subseteq 1 .. k /\ Happen({"End"}, k) \subseteq 1 .. k
    BY DEF Happen
  <2>3. Cardinality(Happen({"Start"}, k)) \in Nat /\ Cardinality(Happen({"End"}, k)) \in Nat
    BY <2>1, <2>2, FS_Subset, FS_CardinalityType
  <2> QED BY <2>3 DEF Nest
<1>7. ~ \E k \in 0 .. n : Nest(k) > budget.limit["maxDepth"]
  <2> SUFFICES ASSUME NEW k \in 0 .. n PROVE ~(Nest(k) > budget.limit["maxDepth"])
    OBVIOUS
  <2>1. count["maxDepth"] \in Nat /\ count["maxDepth"] <= budget.limit["maxDepth"]
    BY <1>2 DEF Limits
  <2>2. budget.limit["maxDepth"] \in Nat
    BY <1>5 DEF Limits
  <2> QED BY <1>4, <1>6, <2>1, <2>2
<1>8. ASSUME NEW l \in Limits PROVE ~Above(l, n)
  <2>1. count[l] \in Nat /\ count[l] <= budget.limit[l] /\ budget.limit[l] \in Nat
    BY <1>2, <1>5
  <2>2. ~(count[l] > budget.limit[l])
    BY <2>1
  <2>3. CASE l = "maxDepth" BY <1>7, <2>3 DEF Above
  <2>4. CASE l # "maxDepth" BY <1>3, <2>2, <2>4 DEF Above, Limits
  <2> QED BY <2>3, <2>4
<1> QED BY <1>4, <1>8

\* For every budget and every stream: check_yaml_budget reports no breach only
\* of a stream that respects every limit, by amounts computed from the events
\* themselves, saturation and depth included.
THEOREM AcceptedWithinBudget == Spec => []WithinBudget
<1>1. BudgetInv => WithinBudget
  BY NotAbove DEF WithinBudget, Accepted
<1> QED BY <1>1, BudgetInvariant, PTL

\* An amount of the past stays what it was.
LEMMA AboveKept ==
  ASSUME FiniteTypes, NEW e \in Offered, Log(e), budget' = budget,
         NEW n, n = Len(log), NEW l \in Limits
  PROVE  Above(l, n)' <=> Above(l, n)
<1> DEFINE r == [type |-> e.type, anchor |-> e.anchor,
                 length |-> e.length, total |-> Sum + e.length]
<1>1. log \in Seq(Events) /\ r \in Events /\ log' = Append(log, r)
  BY LogTypes DEF FiniteTypes, BudgetTypeOK
<1> HIDE DEF r
<1>2. n \in Nat /\ \A i \in 1 .. n : log'[i] = log[i]
  BY <1>1
<1>3. \A T : \A k \in 0 .. n : Happen(T, k)' = Happen(T, k)
  BY <1>2 DEF Happen
<1>4. \A k \in 0 .. n : Nest(k)' = Nest(k)
  BY <1>3 DEF Nest
<1>5. Total(n)' = Total(n)
  BY <1>2 DEF Total
<1>6. Defined(n)' = Defined(n)
  BY <1>2 DEF Defined
<1>7. n \in 0 .. n
  BY <1>2
<1>8. /\ Happen({"DocumentStart"}, n)' = Happen({"DocumentStart"}, n)
      /\ Happen({"Alias"}, n)' = Happen({"Alias"}, n)
      /\ Happen({"Scalar", "Start"}, n)' = Happen({"Scalar", "Start"}, n)
  BY <1>3, <1>7
<1> QED BY <1>4, <1>5, <1>6, <1>8 DEF Above, Limits, SaturatingAdd

\* The check that fails first fails for the log with its event in it.
LEMMA BreachAbove ==
  ASSUME BudgetInv, NEW e \in Offered, Breach(e),
         NEW n, n = Len(log), NEW b, b = breached'
  PROVE  /\ b \in Limits
         /\ Above(b, n + 1)'
         /\ count'[b] > budget'.limit[b]
<1> DEFINE checks == Checks(e.type)
<1> DEFINE first == FirstExcess(e)
<1>1. /\ breached = "none" /\ Excess(e) # {} /\ Log(e) /\ budget' = budget
      /\ b = checks[first]
      /\ count' = [l \in Limits |->
                     IF l \in { checks[i] : i \in 1 .. first } THEN Counted(e)[l] ELSE count[l]]
  BY DEF Breach, BudgetInv, ScanningUnbreached
<1>2. b \in Limits /\ first \in Excess(e)
  BY <1>1, FirstExcessChecked
<1>3. first \in 1 .. Len(checks) /\ Counted(e)[b] > budget.limit[b]
  BY <1>1, <1>2 DEF Excess
<1>4. first \in 1 .. first
  <2>1. e.type \in Types
    BY OfferedTypes
  <2>2. Len(checks) \in Nat
    BY <2>1 DEF Checks, Types
  <2> HIDE DEF checks, first
  <2> QED BY <1>3, <2>2
<1>5. count'[b] = Counted(e)[b]
  <2>1. b \in { checks[i] : i \in 1 .. first }
    BY <1>1, <1>4
  <2> HIDE DEF checks, first
  <2> QED BY <1>1, <1>2, <2>1
<1>6. FiniteTypes /\ CountsExact /\ DepthExact
  BY DEF BudgetInv
<1>7. /\ n \in Nat
      /\ Counted(e)["events"] = n + 1
      /\ Counted(e)["documents"] = Cardinality(Happen({"DocumentStart"}, n + 1))'
      /\ Counted(e)["aliases"] = Cardinality(Happen({"Alias"}, n + 1))'
      /\ Counted(e)["nodes"] = Cardinality(Happen({"Scalar", "Start"}, n + 1))'
      /\ Counted(e)["bytes"] = SaturatingAdd(0, Total(n + 1)')
      /\ Counted(e)["anchors"] = Cardinality(Defined(n + 1)')
  BY <1>1, <1>6, CountedExact
<1> HIDE DEF checks, first
<1>8. CASE b # "maxDepth"
  BY <1>1, <1>2, <1>3, <1>5, <1>7, <1>8 DEF Above, Limits, SaturatingAdd
<1>9. CASE b = "maxDepth"
  <2>1. count["maxDepth"] \in Nat /\ depth \in Nat
    BY <1>6 DEF FiniteTypes, BudgetTypeOK, Limits
  <2>2. budget.limit["maxDepth"] \in Nat
    <3>1. budget \in BudgetType /\ MaxUsize \in Nat
      BY <1>6, BudgetAssumption DEF FiniteTypes, BudgetTypeOK
    <3>2. budget.limit \in [Limits -> 0 .. MaxUsize]
      BY <3>1 DEF BudgetType
    <3> QED BY <3>1, <3>2 DEF Limits
  <2>3. count["maxDepth"] <= budget.limit["maxDepth"]
    BY <1>1 DEF BudgetInv, NoExcess, Limits
  <2>4. Counted(e)["maxDepth"] > budget.limit["maxDepth"]
    BY <1>3, <1>9
  <2>5. e.type = "Start" /\ depth + 1 > budget.limit["maxDepth"]
    BY <2>1, <2>2, <2>3, <2>4, CountedIs
  <2> DEFINE r == [type |-> e.type, anchor |-> e.anchor,
                   length |-> e.length, total |-> Sum + e.length]
  <2>6. log \in Seq(Events) /\ r \in Events /\ log' = Append(log, r) /\ r.type = "Start"
    BY <1>1, <1>6, <2>5, LogTypes DEF FiniteTypes, BudgetTypeOK
  <2> HIDE DEF r
  <2>7. /\ Cardinality(Happen({"Start"}, n)) \in Nat
        /\ Cardinality(Happen({"Start"}, n + 1))' = Cardinality(Happen({"Start"}, n)) + 1
    BY <2>6, Counting
  <2>8. /\ Cardinality(Happen({"End"}, n)) \in Nat
        /\ Cardinality(Happen({"End"}, n + 1))' = Cardinality(Happen({"End"}, n)) + 0
    BY <2>6, Counting
  <2>9. depth = Nest(n)
    BY <1>1, <1>6 DEF DepthExact
  <2>10. Nest(n + 1)' = depth + 1
    BY <2>1, <2>7, <2>8, <2>9 DEF Nest
  <2>11. n + 1 \in 0 .. n + 1
    BY <1>7
  <2>12. Above("maxDepth", n + 1)'
    BY <1>1, <2>5, <2>10, <2>11 DEF Above
  <2> QED BY <1>1, <1>2, <1>3, <1>5, <1>9, <2>12
<1> QED BY <1>8, <1>9

LEMMA BreachIsFirstStep ==
  ASSUME BudgetInv, BreachIsFirst, [Next]_vars
  PROVE  BreachIsFirst'
<1>1. ASSUME NEW e \in Offered, Breach(e)
      PROVE  BreachIsFirst'
  <2> PICK n, b : n = Len(log) /\ b = breached'
    OBVIOUS
  <2>1. breached = "none" /\ Log(e) /\ budget' = budget /\ FiniteTypes
    BY <1>1 DEF Breach, BudgetInv, ScanningUnbreached
  <2>2. n \in Nat /\ Len(log') = n + 1
    BY <2>1, CountedExact DEF BudgetInv
  <2>3. /\ b \in Limits
        /\ Above(b, n + 1)'
        /\ count'[b] > budget'.limit[b]
    BY <1>1, BreachAbove
  <2>4. \A l \in Limits : ~Above(l, n)'
    BY <2>1, AboveKept, NotAbove
  <2>5. Above(breached, Len(log))'
    BY <2>2, <2>3 DEF Above, Happen, Nest, Total, Defined
  <2>6. \A l \in Limits : ~Above(l, Len(log) - 1)'
    <3>1. Len(log') - 1 = n
      BY <2>2
    <3> QED BY <2>4, <3>1 DEF Above, Happen, Nest, Total, Defined
  <2> QED BY <2>3, <2>5, <2>6 DEF BreachIsFirst
<1>2. ASSUME NEW e \in Offered, Count(e) \/ Unbalanced(e)
      PROVE  BreachIsFirst'
  BY <1>2 DEF Count, Unbalanced, BudgetInv, ScanningUnbreached, BreachIsFirst, Limits
<1>3. CASE Finish
  BY <1>3 DEF Finish, BreachIsFirst, Limits
<1>4. CASE ScanFails
  BY <1>4 DEF ScanFails, BreachIsFirst
<1>5. CASE UNCHANGED vars
  BY <1>5 DEF vars, BreachIsFirst, Above, Happen, Nest, Total, Defined
<1> QED BY <1>1, <1>2, <1>3, <1>4, <1>5 DEF Next, Scan

\* For every budget and every stream: the limit that check_yaml_budget reports
\* is exceeded by the events it has read, no limit was by one event less, and
\* the report holds the amount that exceeds it.
THEOREM ReportsFirstBreach == Spec => []BreachIsFirst
<1>1. Init => BudgetInv /\ BreachIsFirst
  BY BudgetInvInit DEF Init, BreachIsFirst
<1>2. (BudgetInv /\ BreachIsFirst) /\ [Next]_vars => (BudgetInv /\ BreachIsFirst)'
  BY BudgetInvStep, BreachIsFirstStep
<1> QED BY <1>1, <1>2, PTL DEF Spec

\* Wrapping makes a product no larger.
LEMMA WrapShrinks ==
  ASSUME NEW x \in Nat, NEW m \in Nat \ {0}
  PROVE  x % m \in Nat /\ x % m <= x
<1>1. x % m \in 0 .. m - 1
  OBVIOUS
<1>2. CASE x < m
  <2>1. x % m = x
    BY <1>2
  <2> QED BY <2>1
<1>3. CASE x >= m BY <1>1, <1>3
<1> QED BY <1>2, <1>3

\* For every budget and every stream: an accepted stream respects the ratio of
\* aliases to anchors, even where the product of the check wraps.
THEOREM AcceptedRespectsRatio == Spec => []RatioRespected
<1>1. BudgetInv => RatioRespected
  <2> SUFFICES ASSUME BudgetInv, Accepted, budget.enforceRatio,
                      count["aliases"] >= budget.minAliases
               PROVE  Cardinality(Happen({"Alias"}, Len(log)))
                        <= budget.multiplier * Cardinality(Defined(Len(log)))
    BY DEF RatioRespected
  <2>1. /\ breached = "none"
        /\ ~RatioExcess
    BY DEF BudgetInv, RatioChecked, Accepted
  <2>2. /\ Cardinality(Happen({"Alias"}, Len(log))) = count["aliases"]
        /\ defined = Defined(Len(log))
    BY <2>1 DEF BudgetInv, CountsExact
  <2> DEFINE exact == budget.multiplier * Cardinality(defined)
  <2>3. exact \in Nat
    <3>1. budget \in BudgetType /\ MaxUsize \in Nat
      BY BudgetAssumption DEF BudgetInv, FiniteTypes, BudgetTypeOK
    <3>2. budget.multiplier \in Nat
      BY <3>1 DEF BudgetType
    <3>3. Cardinality(defined) \in Nat
      BY FS_CardinalityType DEF BudgetInv, FiniteTypes
    <3> QED BY <3>2, <3>3
  <2>4. Product = exact % (MaxUsize + 1)
    BY DEF Product
  <2>5. count["aliases"] \in Nat /\ MaxUsize + 1 \in Nat \ {0}
    BY BudgetAssumption DEF BudgetInv, FiniteTypes, BudgetTypeOK, Limits
  <2>6. ~(count["aliases"] > Product)
    BY <2>1 DEF RatioExcess
  <2> HIDE DEF exact
  <2>7. Product \in Nat /\ Product <= exact
    BY <2>3, <2>4, <2>5, WrapShrinks
  <2>8. count["aliases"] <= exact
    BY <2>3, <2>5, <2>6, <2>7
  <2> QED BY <2>2, <2>8 DEF exact
<1> QED BY <1>1, BudgetInvariant, PTL
=============================================================================
