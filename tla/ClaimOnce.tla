----------------------------- MODULE ClaimOnce -----------------------------
(***************************************************************************)
(* What the watcher promises about one pay-in, whatever it polls, persists *)
(* or restarts: its fate is decided once.  It is either retired (it was    *)
(* already in the history when its app was seeded, so it is never claimed) *)
(* or a single claim is sent to qrisgate, which accepts it or does not.    *)
(* No fate is ever revised: a retired pay-in is not claimed later, and a   *)
(* claim is neither repeated nor retried.                                  *)
(***************************************************************************)
CONSTANT PayIns

VARIABLE fate

Fates == {"open", "retired", "claimed", "failed"}

Init == fate = [k \in PayIns |-> "open"]

Retire(S) ==
  /\ \A k \in S : fate[k] = "open"
  /\ fate' = [k \in PayIns |-> IF k \in S THEN "retired" ELSE fate[k]]

\* One listing may have several pay-ins to claim.
Decide(S, outcome) ==
  /\ \A k \in S : fate[k] = "open"
  /\ fate' = [k \in PayIns |-> IF k \in S THEN outcome ELSE fate[k]]

Next ==
  \E S \in SUBSET PayIns :
    \/ Retire(S)
    \/ \E outcome \in {"claimed", "failed"} : Decide(S, outcome)

Spec == Init /\ [][Next]_fate
=============================================================================
