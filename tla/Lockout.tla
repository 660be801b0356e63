------------------------------ MODULE Lockout ------------------------------
(***************************************************************************)
(* What domain/tenant.go promises with ErrAuthFatal, "stop polling this    *)
(* tenant to avoid further bans": a poll that fails for good locks its app,*)
(* and a locked app is not polled until it is reopened, by an admin who    *)
(* unblocks it or because the process starts anew.  One app is polled at a *)
(* time.                                                                   *)
(***************************************************************************)
CONSTANT Apps

VARIABLE door

Doors == {"open", "polled", "locked"}

Init == door = [a \in Apps |-> "open"]

Poll(a) ==
  /\ \A b \in Apps : door[b] # "polled"
  /\ door[a] = "open"
  /\ door' = [door EXCEPT ![a] = "polled"]

Finish(a, d) ==
  /\ door[a] = "polled" /\ d \in {"open", "locked"}
  /\ door' = [door EXCEPT ![a] = d]

\* A restart interrupts the poll in progress, too.
Reopen(S) == door' = [a \in Apps |-> IF a \in S THEN "open" ELSE door[a]]

Next ==
  \/ \E S \in SUBSET Apps : Reopen(S)
  \/ \E a \in Apps : Poll(a) \/ \E d \in Doors : Finish(a, d)

Spec == Init /\ [][Next]_door
=============================================================================
