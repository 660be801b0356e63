----------------------------- MODULE MCWatcher -----------------------------
(* Two apps, three pay-ins: two of the first app, one of the second. *)
EXTENDS Watcher

CONSTANTS a1, a2, p1, p2, p3

MCApps == {a1, a2}
MCPayIns == {p1, p2, p3}
MCAppOf == [k \in MCPayIns |-> IF k = p3 THEN a2 ELSE a1]

\* Two pay-ins of one app.
OneApp == {a1}
TwoPayIns == {p1, p2}
OneAppOf == [k \in TwoPayIns |-> a1]

\* Three of one app: a seed and two that are settled in one tick.
AllOfOneApp == [k \in MCPayIns |-> a1]
=============================================================================
