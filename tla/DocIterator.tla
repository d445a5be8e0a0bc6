----------------------------- MODULE DocIterator -----------------------------
(***************************************************************************)
(* What StreamDeserializer (src/de.rs) promises to the code that iterates  *)
(* over it, with no loader and no parser in sight: the items are values    *)
(* and errors; once there is no more item there never is one again; a      *)
(* stream that could not be opened yields its error for ever, and nothing  *)
(* else; and a caller that goes on asking gets to one of these two ends.   *)
(***************************************************************************)

VARIABLES
  stage,  \* "fresh", "open", "exhausted" or "failed"
  item    \* the answer to the last call: "nothing" before the first one

vars == <<stage, item>>

Init == stage = "fresh" /\ item = "nothing"

\* The stream is opened and yields a value, or an error in its place.
Yield ==
  /\ stage \in {"fresh", "open"}
  /\ stage' = "open"
  /\ item' \in {"Ok", "Err"}

\* The stream cannot be opened.
Refuse ==
  /\ stage \in {"fresh", "failed"}
  /\ stage' = "failed"
  /\ item' = "Err"

Exhaust ==
  /\ stage' = "exhausted"
  /\ item' = "None"
  /\ stage \in {"fresh", "open", "exhausted"}

Next == Yield \/ Refuse \/ Exhaust

\* What never happens: the safety part of the specification.
Safety == Init /\ [][Next]_vars

\* The caller goes on asking, and the stream is finite.
Spec ==
  /\ Safety
  /\ <>(stage \in {"exhausted", "failed"})
=============================================================================
