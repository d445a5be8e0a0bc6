------------------------------ MODULE MCBudget ------------------------------
(* Budget on small instances. *)
EXTENDS Budget

\* A budget that never breaches but for the fields given.
Lax == [l \in Limits |-> MaxUsize]

Tight(limit) ==
  [limit |-> limit, enforceRatio |-> FALSE, minAliases |-> 0, multiplier |-> 0]

\* One budget tight in several limits at once, so that one event may exceed
\* two of them; one that allows the largest total of bytes; one by the ratio,
\* with a product that wraps at two anchors.
MCBudgets ==
  { Tight([Lax EXCEPT !["events"] = 4, !["documents"] = 1, !["nodes"] = 2,
                      !["bytes"] = 5, !["anchors"] = 1]),
    Tight([Lax EXCEPT !["maxDepth"] = 1, !["anchors"] = 1, !["aliases"] = 1]),
    Tight([Lax EXCEPT !["bytes"] = MaxUsize - 1]),
    [limit |-> Lax, enforceRatio |-> TRUE, minAliases |-> 2, multiplier |-> 1],
    [limit |-> Lax, enforceRatio |-> TRUE, minAliases |-> 1, multiplier |-> 4] }
=============================================================================
