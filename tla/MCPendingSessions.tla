------------------------- MODULE MCPendingSessions -------------------------
(* Constants for model checking PendingSessions. *)
EXTENDS PendingSessions, TLC

CONSTANTS e1, e2, e3, p1, p2, c1, c2, a1, a2

\* Two spellings of one account, and an account with the same password.
MCEmails == {e1, e2, e3}
MCNorm == (e1 :> e1) @@ (e2 :> e1) @@ (e3 :> e3)
MCRight == (e1 :> p1) @@ (e3 :> p1)

Symmetry == Permutations({c1, c2}) \cup Permutations({a1, a2})
=============================================================================
