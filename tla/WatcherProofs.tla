--------------------------- MODULE WatcherProofs ---------------------------
(***************************************************************************)
(* What holds of the watcher for every set of apps and pay-ins, every size *)
(* of the state file and any number of stops, proved with TLAPS.           *)
(***************************************************************************)
EXTENDS Watcher, FiniteSetTheorems, TLAPS

\* What each step does to the variables, for the leaves that only need one
\* of them unfolded.
LEMMA ListedType ==
  ASSUME NEW a
  PROVE  Listed(a) \subseteq PayIns
BY DEF Listed

\* The variables of the state stay in their sets, whatever the watcher and
\* its environment do.
THEOREM TypeCorrect == Spec => []TypeOK
<1>1. Init => TypeOK
  <2> SUFFICES ASSUME Init PROVE TypeOK
    OBVIOUS
  <2>1. stops \in 0..MaxStops
    BY BoundsAssumption DEF Init
  <2>2. listing \in [PayIns -> {"unpaid", "listed", "aged"}]
    BY DEF Init
  <2>3. calls \in [PayIns -> Nat]
    BY DEF Init
  <2>4. QED
    BY <2>1, <2>2, <2>3 DEF Init, TypeOK
<1>2. TypeOK /\ [Next]_vars => TypeOK'
  <2> SUFFICES ASSUME TypeOK, [Next]_vars PROVE TypeOK'
    OBVIOUS
  <2> USE BoundsAssumption, AppOfAssumption, ModesAssumption DEF TypeOK
  <2>1. ASSUME NEW S \in SUBSET Apps, StartTick(S) PROVE TypeOK'
    BY <2>1 DEF StartTick, process, memory, disk, ledger, history, gaps
  <2>2. ASSUME NEW a \in Apps, PollSeeded(a) PROVE TypeOK'
    BY <2>2, ListedType DEF PollSeeded, process, disk, ledger, gaps
  <2>3. ASSUME NEW a \in Apps, PollUnseeded(a) PROVE TypeOK'
    BY <2>3, ListedType DEF PollUnseeded, process, disk, ledger, gaps
  <2>4. ASSUME NEW a \in Apps, PollFails(a) PROVE TypeOK'
    BY <2>4 DEF PollFails, process, memory, disk, ledger, history, gaps
  <2>5. CASE EndTick
    BY <2>5 DEF EndTick, process, memory, disk, ledger, history, gaps
  <2>6. CASE OpenFails
    BY <2>6 DEF OpenFails, AfterSave, process, memory, disk, ledger, history, gaps
  <2>7. CASE Truncate
    BY <2>7 DEF Truncate, process, memory, ledger, history
  <2>8. CASE Write
    <3>1. diskIds' \subseteq seen
      BY <2>8 DEF Write, Kept, kSubset
    <3>2. QED
      BY <2>8, <3>1 DEF Write, AfterSave, process, memory, ledger, history
  <2>9. CASE WriteFails
    BY <2>9 DEF WriteFails, AfterSave, process, memory, disk, ledger, history, gaps
  <2>10. ASSUME NEW k \in PayIns, Settle(k) PROVE TypeOK'
    <3>1. SettleOne(k) /\ paid' \subseteq PayIns
      BY <2>10 DEF Settle, SettleAccepted, SettleNotAccepted
    <3>2. calls' \in [PayIns -> Nat]
      BY <3>1 DEF SettleOne
    <3>3. QED
      BY <3>1, <3>2 DEF SettleOne, process, disk, history, gaps
  <2>11. CASE FinalSave
    BY <2>11 DEF FinalSave, process, memory, disk, ledger, history, gaps
  <2>12. CASE Exit
    BY <2>12 DEF Exit, Halt, disk, ledger, gaps
  <2>13. CASE Restart
    BY <2>13 DEF Restart, Remember, Missed, Retired, disk, ledger, history
  <2>14. ASSUME NEW k \in PayIns, Arrive(k) PROVE TypeOK'
    BY <2>14 DEF Arrive, process, memory, disk, ledger, gaps
  <2>15. ASSUME NEW k \in PayIns, AgeOut(k) PROVE TypeOK'
    BY <2>15 DEF AgeOut, process, memory, disk, ledger, history, gaps
  <2>16. CASE Sigterm
    BY <2>16 DEF Sigterm, memory, disk, ledger, history, gaps
  <2>17. CASE Crash
    <3>1. stops' \in 0..MaxStops
      BY <2>17 DEF Crash
    <3>2. QED
      BY <2>17, <3>1 DEF Crash, Halt, disk, ledger, gaps
  <2>18. CASE Redeploy
    BY <2>18 DEF Redeploy, process, memory, ledger, history
  <2>19. CASE UNCHANGED vars
    BY <2>19 DEF vars, process, memory, disk, ledger, history, gaps
  <2>20. QED
    BY <2>1, <2>2, <2>3, <2>4, <2>5, <2>6, <2>7, <2>8, <2>9, <2>10, <2>11,
       <2>12, <2>13, <2>14, <2>15, <2>16, <2>17, <2>18, <2>19
       DEF Next, Step, Environment, Poll, Save
<1>3. QED
  BY <1>1, <1>2, PTL DEF Spec
-----------------------------------------------------------------------------
\* What the file misses of what is decided is what memory misses, where the
\* file is what memory was when it was written.
LEMMA SeenStep == TypeOK /\ SeenInv /\ [Next]_vars => SeenInv'
<1> SUFFICES ASSUME TypeOK, SeenInv, [Next]_vars PROVE SeenInv'
  OBVIOUS
\* Most steps leave the maps, the file and the ledger alone, or shrink newOnes.
<1> USE AppOfAssumption DEF TypeOK, SeenInv, AppsInv, NewInv, GuardInv, Missed,
      Retired
<1>1. ASSUME NEW S \in SUBSET Apps, StartTick(S) PROVE SeenInv'
  BY <1>1 DEF StartTick, memory, disk, ledger, history, gaps
<1>2. ASSUME NEW a \in Apps, PollSeeded(a) PROVE SeenInv'
  <2>1. AppsInv'
    BY <1>2 DEF PollSeeded, disk
  <2>2. NewInv'
    BY <1>2 DEF PollSeeded, Listed, ledger
  <2>3. newOnes' \cap Retired' \subseteq forgotten'
    BY <1>2 DEF PollSeeded, Listed, ledger, gaps
  <2>4. GuardInv'
    BY <1>2, <2>3 DEF PollSeeded, disk, ledger, gaps
  <2>5. QED
    BY <2>1, <2>2, <2>4
<1>3. ASSUME NEW a \in Apps, PollUnseeded(a) PROVE SeenInv'
  <2>1. AppsInv' /\ NewInv'
    BY <1>3 DEF PollUnseeded, Listed, disk, ledger
  <2>2. Retired' = Retired \cup Listed(a)
    BY <1>3 DEF PollUnseeded, ledger
  <2>3. Missed(seededApps, seen)' \subseteq forgotten'
    BY <1>3, <2>2 DEF PollUnseeded, Listed, gaps
  <2>4. behind' \/ Missed(diskApps, diskIds)' \subseteq forgotten'
    BY <1>3, <2>2 DEF PollUnseeded, Listed, disk, gaps
  <2>5. GuardInv'
    BY <1>3, <2>3, <2>4 DEF PollUnseeded
  <2>6. QED
    BY <2>1, <2>5
<1>4. ASSUME NEW a \in Apps, PollFails(a) PROVE SeenInv'
  BY <1>4 DEF PollFails, memory, disk, ledger, history, gaps
<1>5. CASE EndTick
  BY <1>5 DEF EndTick, memory, disk, ledger, history, gaps
<1>6. CASE OpenFails
  BY <1>6 DEF OpenFails, AfterSave, memory, disk, ledger, history
<1>7. CASE Truncate
  BY <1>7 DEF Truncate, memory, ledger, history
<1>8. CASE Write
  <2>1. AppsInv' /\ NewInv'
    BY <1>8 DEF Write, AfterSave, memory, ledger, history
  <2>2. ~behind' => diskIds' = seen
    BY <1>8 DEF Write
  <2>3. GuardInv'
    BY <1>8, <2>2 DEF Write, AfterSave, memory, ledger, history
  <2>4. QED
    BY <2>1, <2>3
<1>9. CASE WriteFails
  BY <1>9 DEF WriteFails, AfterSave, memory, disk, ledger, history, gaps
<1>10. ASSUME NEW k \in PayIns, Settle(k) PROVE SeenInv'
  <2>1. SettleOne(k)
    BY <1>10 DEF Settle, SettleAccepted, SettleNotAccepted
  <2>2. Retired' = Retired \cup {k} /\ newOnes' = newOnes \ {k}
    BY <2>1 DEF SettleOne, history
  <2>3. AppsInv' /\ NewInv'
    BY <2>1, <2>2 DEF SettleOne, disk
  <2>4. GuardInv'
    BY <2>1, <2>2 DEF SettleOne, disk, gaps
  <2>5. QED
    BY <2>3, <2>4
<1>11. CASE FinalSave
  BY <1>11 DEF FinalSave, memory, disk, ledger, history, gaps
<1>12. CASE Exit
  BY <1>12 DEF Exit, Halt, disk, ledger, gaps
<1>13. CASE Restart
  BY <1>13 DEF Restart, Remember, disk, ledger, history
<1>14. ASSUME NEW k \in PayIns, Arrive(k) PROVE SeenInv'
  BY <1>14 DEF Arrive, memory, disk, ledger, gaps
<1>15. ASSUME NEW k \in PayIns, AgeOut(k) PROVE SeenInv'
  BY <1>15 DEF AgeOut, memory, disk, ledger, history, gaps
<1>16. CASE Sigterm
  BY <1>16 DEF Sigterm, memory, disk, ledger, history, gaps
<1>17. CASE Crash
  BY <1>17 DEF Crash, Halt, disk, ledger, gaps
<1>18. CASE Redeploy
  BY <1>18 DEF Redeploy, memory, ledger, history
<1>19. CASE UNCHANGED vars
  BY <1>19 DEF vars, memory, disk, ledger, history, gaps
<1>20. QED
  BY <1>1, <1>2, <1>3, <1>4, <1>5, <1>6, <1>7, <1>8, <1>9, <1>10, <1>11,
     <1>12, <1>13, <1>14, <1>15, <1>16, <1>17, <1>18, <1>19
     DEF Next, Step, Environment, Poll, Save

LEMMA SeenInit == Init => SeenInv
BY DEF Init, SeenInv, AppsInv, NewInv, GuardInv, Missed, Retired

\* SeenInv holds in every reachable state (watcher.go 58-87, 130-166).
THEOREM SeenInvariant == Spec => []SeenInv
<1>1. TypeOK /\ SeenInv /\ [Next]_vars => SeenInv'
  BY SeenStep
<1>2. QED
  BY <1>1, SeenInit, TypeCorrect, PTL DEF Spec

-----------------------------------------------------------------------------
\* Only settling changes the number of calls and what qrisgate accepted.
LEMMA LedgerStep ==
  ASSUME [Next]_vars
  PROVE  \/ UNCHANGED <<calls, paid>>
         \/ \E k \in PayIns : Settle(k)
BY DEF Next, Step, Environment, Poll, Save, vars, ledger, StartTick,
  PollSeeded, PollUnseeded, PollFails, EndTick, OpenFails, Truncate, Write,
  WriteFails, FinalSave, Exit, Crash, Halt, Restart, Arrive, AgeOut, Sigterm,
  Redeploy

\* Only a start forgets, and what it forgets stays forgotten.
LEMMA ForgottenStep ==
  ASSUME [Next]_vars
  PROVE  UNCHANGED forgotten \/ Restart
BY DEF Next, Step, Environment, Poll, Save, Settle, SettleAccepted,
  SettleNotAccepted, SettleOne, vars, gaps, StartTick, PollSeeded,
  PollUnseeded, PollFails, EndTick, OpenFails, Truncate, Write, WriteFails,
  FinalSave, Exit, Crash, Halt, Arrive, AgeOut, Sigterm, Redeploy

LEMMA ForgottenStays ==
  ASSUME [Next]_vars
  PROVE  forgotten \subseteq forgotten'
BY ForgottenStep DEF Restart, Remember

\* A pay-in that is settled was undecided, unless it was forgotten, and is in
\* the file unless its app is not or the save for it fell short.
LEMMA SettledIsUndecided ==
  ASSUME TypeOK, SeenInv, NEW k \in PayIns, SettleOne(k)
  PROVE  /\ k \in forgotten \/ (calls[k] = 0 /\ k \notin swallowed)
         /\ behind \/ k \in diskIds \/ AppOf[k] \notin diskApps
BY DEF SettleOne, TypeOK, SeenInv, GuardInv, Retired

\* The dedupe key works: no pay-in is claimed twice, across any number of
\* crashes, restarts and redeploys, but those that a process did not find in
\* the file it started from.
THEOREM ClaimedAtMostOnce == Spec => []AtMostOnce
<1>1. Init => AtMostOnce
  BY DEF Init, AtMostOnce
<1>2. TypeOK /\ SeenInv /\ AtMostOnce /\ [Next]_vars => AtMostOnce'
  <2> SUFFICES ASSUME TypeOK, SeenInv, AtMostOnce, [Next]_vars,
                      NEW j \in PayIns, j \notin forgotten'
               PROVE  calls'[j] <= 1
    BY DEF AtMostOnce
  <2>1. j \notin forgotten
    BY ForgottenStays
  <2>2. CASE UNCHANGED <<calls, paid>>
    BY <2>1, <2>2 DEF AtMostOnce
  <2>3. ASSUME NEW k \in PayIns, Settle(k) PROVE calls'[j] <= 1
    <3>1. SettleOne(k)
      BY <2>3 DEF Settle, SettleAccepted, SettleNotAccepted
    <3>2. CASE k = j
      <4>1. calls[j] = 0
        BY <2>1, <3>1, <3>2, SettledIsUndecided
      <4>2. QED
        BY <3>1, <3>2, <4>1 DEF SettleOne, TypeOK
    <3>3. CASE k # j
      BY <2>1, <3>1, <3>3 DEF SettleOne, AtMostOnce, TypeOK
    <3>4. QED
      BY <3>2, <3>3
  <2>4. QED
    BY <2>2, <2>3, LedgerStep
<1>3. QED
  BY <1>1, <1>2, TypeCorrect, SeenInvariant, PTL DEF Spec

\* A pay-in taken as seed is not settled, by this process or a later one, but
\* for the forgotten ones.
THEOREM SeedsStayUnsettled == Spec => SeedNeverSettles
<1>1. TypeOK /\ SeenInv /\ [Next]_vars =>
        [\A k \in swallowed \ forgotten : calls'[k] = calls[k]]_vars
  <2> SUFFICES ASSUME TypeOK, SeenInv, [Next]_vars,
                      NEW j \in swallowed, j \notin forgotten
               PROVE  calls'[j] = calls[j]
    OBVIOUS
  <2>1. ASSUME NEW k \in PayIns, Settle(k) PROVE calls'[j] = calls[j]
    <3>1. SettleOne(k)
      BY <2>1 DEF Settle, SettleAccepted, SettleNotAccepted
    <3>2. k # j
      BY <3>1, SettledIsUndecided
    <3>3. QED
      BY <3>1, <3>2 DEF SettleOne, TypeOK
  <2>2. QED
    BY <2>1, LedgerStep
<1>2. QED
  BY <1>1, TypeCorrect, SeenInvariant, PTL DEF Spec, SeedNeverSettles

\* Every claim is sent after the pay-in is in the state file, or the file
\* holds nothing of its app, unless the save for it fell short.
THEOREM SavedBeforeSettled == Spec => WriteAhead
<1>1. TypeOK /\ SeenInv /\ [Next]_vars =>
        [\A k \in PayIns : calls'[k] # calls[k] =>
           behind \/ k \in diskIds \/ AppOf[k] \notin diskApps]_vars
  <2> SUFFICES ASSUME TypeOK, SeenInv, [Next]_vars,
                      NEW j \in PayIns, calls'[j] # calls[j]
               PROVE  behind \/ j \in diskIds \/ AppOf[j] \notin diskApps
    OBVIOUS
  <2>1. PICK k \in PayIns : Settle(k)
    BY LedgerStep
  <2>2. SettleOne(k)
    BY <2>1 DEF Settle, SettleAccepted, SettleNotAccepted
  <2>3. k = j
    BY <2>2 DEF SettleOne, TypeOK
  <2>4. QED
    BY <2>2, <2>3, SettledIsUndecided
<1>2. QED
  BY <1>1, TypeCorrect, SeenInvariant, PTL DEF Spec, WriteAhead

\* A start forgets only what the last save before it left out, wherever in
\* persistLocked (watcher.go 74-87) or in the settle loop the process ended.
THEOREM OnlyShortSavesForget == Spec => ForgetsOnlyIfBehind
<1>1. SeenInv /\ [Next]_vars => [forgotten' # forgotten => behind]_vars
  <2> SUFFICES ASSUME SeenInv, [Next]_vars, forgotten' # forgotten, ~behind
               PROVE  FALSE
    OBVIOUS
  <2>1. forgotten' = forgotten \cup Missed(diskApps, diskIds)
    BY ForgottenStep DEF Restart, Remember
  <2>2. QED
    BY <2>1 DEF SeenInv, GuardInv
<1>2. QED
  BY <1>1, SeenInvariant, PTL DEF Spec, ForgetsOnlyIfBehind

-----------------------------------------------------------------------------
\* Only a poll of an unseeded app adds to what was taken as seed.
LEMMA SeedStep ==
  ASSUME [Next]_vars
  PROVE  UNCHANGED swallowed \/ \E a \in Apps : PollUnseeded(a)
BY DEF Next, Step, Environment, Poll, Save, Settle, SettleAccepted,
  SettleNotAccepted, SettleOne, vars, history, StartTick, PollSeeded, PollFails,
  EndTick, OpenFails, Truncate, Write, WriteFails, FinalSave, Exit, Crash,
  Halt, Restart, Arrive, AgeOut, Sigterm, Redeploy

\* An app in the state file is not seeded again (watcher.go 58-72, 137-157).
THEOREM SeededOnce == Spec => NotSeededAgain
<1>1. TypeOK /\ SeenInv /\ [Next]_vars =>
        [\A k \in swallowed' \ swallowed : AppOf[k] \notin diskApps]_vars
  <2> SUFFICES ASSUME TypeOK, SeenInv, [Next]_vars,
                      NEW k \in swallowed', k \notin swallowed
               PROVE  AppOf[k] \notin diskApps
    OBVIOUS
  <2>1. PICK a \in Apps : PollUnseeded(a)
    BY SeedStep
  <2>2. k \in Listed(a)
    BY <2>1 DEF PollUnseeded
  <2>3. AppOf[k] = a
    BY <2>2 DEF Listed
  <2>4. a \notin seededApps /\ pc # "down"
    BY <2>1 DEF PollUnseeded
  <2>5. QED
    BY <2>3, <2>4 DEF SeenInv, AppsInv
<1>2. QED
  BY <1>1, TypeCorrect, SeenInvariant, PTL DEF Spec, NotSeededAgain

\* Nothing is marked seen and then forgotten about: it is seeded, claimed,
\* waiting for its claim, or was on disk and unsettled when the process ended
\* (watcher.go 143-166).
THEOREM SeenIsAccountedFor == Spec => []NothingDropped
<1>1. Init => NothingDropped
  BY DEF Init, NothingDropped
<1>2. TypeOK /\ SeenInv /\ NothingDropped /\ [Next]_vars => NothingDropped'
  <2> SUFFICES ASSUME TypeOK, SeenInv, NothingDropped, [Next]_vars
               PROVE  NothingDropped'
    OBVIOUS
  <2> USE DEF TypeOK, NothingDropped, Retired
  <2>1. ASSUME NEW a \in Apps, PollSeeded(a) PROVE NothingDropped'
    BY <2>1 DEF PollSeeded, disk, ledger, SeenInv, NewInv
  <2>2. ASSUME NEW a \in Apps, PollUnseeded(a) PROVE NothingDropped'
    BY <2>2 DEF PollUnseeded, disk, ledger, SeenInv, NewInv
  <2>3. CASE OpenFails
    BY <2>3 DEF OpenFails, memory, disk, ledger, history
  <2>4. CASE Truncate
    BY <2>4 DEF Truncate, memory, ledger, history
  <2>5. CASE Write
    <3>1. diskIds' \subseteq seen
      BY <2>5 DEF Write, Kept, kSubset
    <3>2. QED
      BY <2>5, <3>1 DEF Write, memory, ledger, history
  <2>6. ASSUME NEW k \in PayIns, Settle(k) PROVE NothingDropped'
    <3>1. SettleOne(k)
      BY <2>6 DEF Settle, SettleAccepted, SettleNotAccepted
    <3>2. Retired' = Retired \cup {k} /\ newOnes' = newOnes \ {k}
      BY <3>1 DEF SettleOne, history
    <3>3. UNCHANGED <<seen, diskIds, lost>>
      BY <3>1 DEF SettleOne, disk, history
    <3>4. QED
      BY <3>2, <3>3
  <2>7. CASE Exit \/ Crash
    BY <2>7 DEF Exit, Crash, Halt, disk, ledger
  <2>8. CASE Redeploy
    BY <2>8 DEF Redeploy, memory, ledger, history
  <2>9. CASE Restart
    BY <2>9 DEF Restart, disk, ledger, history
  <2>10. ASSUME NEW S \in SUBSET Apps, StartTick(S) PROVE NothingDropped'
    BY <2>10 DEF StartTick, memory, disk, ledger, history
  <2>11. ASSUME NEW a \in Apps, PollFails(a) PROVE NothingDropped'
    BY <2>11 DEF PollFails, memory, disk, ledger, history
  <2>12. CASE EndTick \/ FinalSave \/ WriteFails
    BY <2>12 DEF EndTick, FinalSave, WriteFails, memory, disk, ledger, history
  <2>13. ASSUME NEW k \in PayIns, Arrive(k) \/ AgeOut(k) PROVE NothingDropped'
    BY <2>13 DEF Arrive, AgeOut, memory, disk, ledger, history
  <2>14. CASE Sigterm \/ UNCHANGED vars
    BY <2>14 DEF Sigterm, vars, memory, disk, ledger, history
  <2>15. QED
    BY <2>1, <2>2, <2>3, <2>4, <2>5, <2>6, <2>7, <2>8, <2>9, <2>10, <2>11,
       <2>12, <2>13, <2>14 DEF Next, Step, Environment, Poll, Save
<1>3. QED
  BY <1>1, <1>2, TypeCorrect, SeenInvariant, PTL DEF Spec
-----------------------------------------------------------------------------
(***************************************************************************)
(* The abstract specification.                                             *)
(***************************************************************************)

\* What qrisgate accepted was called for.
PaidInv == \A k \in paid : calls[k] > 0

LEMMA PaidIsCalled == Spec => []PaidInv
<1>1. Init => PaidInv
  BY DEF Init, PaidInv
<1>2. TypeOK /\ PaidInv /\ [Next]_vars => PaidInv'
  <2> SUFFICES ASSUME TypeOK, PaidInv, [Next]_vars PROVE PaidInv'
    OBVIOUS
  <2>1. CASE UNCHANGED <<calls, paid>>
    BY <2>1 DEF PaidInv
  <2>2. ASSUME NEW k \in PayIns, Settle(k) PROVE PaidInv'
    BY <2>2 DEF Settle, SettleAccepted, SettleNotAccepted, SettleOne, PaidInv,
      TypeOK
  <2>3. QED
    BY <2>1, <2>2, LedgerStep
<1>3. QED
  BY <1>1, <1>2, TypeCorrect, PTL DEF Spec

\* Only seeding and settling change a fate.
LEMMA FateStep ==
  ASSUME [Next]_vars
  PROVE  \/ UNCHANGED <<calls, paid, swallowed>>
         \/ \E a \in Apps : PollUnseeded(a)
         \/ \E k \in PayIns : Settle(k)
BY DEF Next, Step, Environment, Poll, Save, vars, ledger, history, StartTick,
  PollSeeded, PollFails, EndTick, OpenFails, Truncate, Write, WriteFails,
  FinalSave, Exit, Crash, Halt, Restart, Arrive, AgeOut, Sigterm, Redeploy

\* A watcher that never starts from a file that misses what was decided
\* implements ClaimOnce, whatever else fails (watcher.go 114-166): a pay-in is
\* retired, or claimed once, and never reconsidered.
THEOREM RememberingImplementsClaimOnce ==
  Spec /\ [](forgotten = {}) => ImplementsClaimOnce
<1>1. Init => Abstract!Init
  BY DEF Init, Abstract!Init, Fate
<1>2. TypeOK /\ SeenInv /\ PaidInv /\ forgotten = {} /\ [Next]_vars =>
        [Abstract!Next]_Fate
  <2> SUFFICES ASSUME TypeOK, SeenInv, PaidInv, forgotten = {}, [Next]_vars
               PROVE  [Abstract!Next]_Fate
    OBVIOUS
  <2>1. CASE UNCHANGED <<calls, paid, swallowed>>
    BY <2>1 DEF Fate
  <2>2. ASSUME NEW a \in Apps, PollUnseeded(a) PROVE Abstract!Next
    <3> DEFINE S == {k \in Listed(a) : Fate[k] = "open"}
    <3>1. S \in SUBSET PayIns
      BY ListedType
    <3>2. Fate' = [k \in PayIns |-> IF k \in S THEN "retired" ELSE Fate[k]]
      BY <2>2 DEF PollUnseeded, Fate, ledger, TypeOK, Listed
    <3>3. Abstract!Retire(S)
      BY <3>2 DEF Abstract!Retire
    <3>4. QED
      BY <3>1, <3>3 DEF Abstract!Next
  <2>3. ASSUME NEW k \in PayIns, Settle(k) PROVE Abstract!Next
    <3>1. SettleOne(k)
      BY <2>3 DEF Settle, SettleAccepted, SettleNotAccepted
    <3>2. calls[k] = 0 /\ k \notin swallowed /\ k \notin paid
      BY <3>1, SettledIsUndecided DEF PaidInv
    <3>3. swallowed' = swallowed /\ calls' = [calls EXCEPT ![k] = 1]
      BY <3>1, <3>2 DEF SettleOne, history, TypeOK
    <3>4. Fate[k] = "open"
      BY <3>2 DEF Fate, TypeOK
    <3>5. CASE paid' = paid \cup {k}
      <4>1. Fate' = [j \in PayIns |-> IF j \in {k} THEN "claimed" ELSE Fate[j]]
        BY <3>2, <3>3, <3>5 DEF Fate, TypeOK
      <4>2. QED
        BY <3>4, <4>1, {k} \in SUBSET PayIns DEF Abstract!Next, Abstract!Decide
    <3>6. CASE paid' = paid
      <4>1. Fate' = [j \in PayIns |-> IF j \in {k} THEN "failed" ELSE Fate[j]]
        <5>1. calls'[k] = 1 /\ k \notin paid'
          BY <3>2, <3>3, <3>6 DEF TypeOK
        <5>2. \A j \in PayIns \ {k} : calls'[j] = calls[j]
          BY <3>3 DEF TypeOK
        <5>3. Fate'[k] = "failed" /\ \A j \in PayIns \ {k} : Fate'[j] = Fate[j]
          BY <3>3, <3>6, <5>1, <5>2 DEF Fate
        <5>4. QED
          BY <5>3 DEF Fate
      <4>2. QED
        BY <3>4, <4>1, {k} \in SUBSET PayIns DEF Abstract!Next, Abstract!Decide
    <3>7. QED
      BY <2>3, <3>5, <3>6 DEF Settle, SettleAccepted, SettleNotAccepted
  <2>4. QED
    BY <2>1, <2>2, <2>3, FateStep
<1>3. QED
  BY <1>1, <1>2, TypeCorrect, SeenInvariant, PaidIsCalled, PTL
     DEF Spec, ImplementsClaimOnce, Abstract!Spec

-----------------------------------------------------------------------------
\* The state file always takes every id: it is writable, and there are no
\* more pay-ins than it keeps.
NeverFull == ~SaveMayFail /\ Cardinality(PayIns) <= MaxSeen

\* Then nothing is truncated.
LEMMA NothingTruncated ==
  ASSUME NeverFull, TypeOK
  PROVE  Kept = {seen}
<1>1. seen \in SUBSET PayIns
  BY DEF TypeOK
<1>2. IsFiniteSet(seen) /\ Cardinality(seen) <= Cardinality(PayIns)
  BY <1>1, PayInsAssumption, FS_Subset
<1>3. Cardinality(seen) \in Nat /\ Cardinality(PayIns) \in Nat
  BY <1>2, PayInsAssumption, FS_CardinalityType
<1>4. ~(Cardinality(seen) > MaxSeen)
  BY <1>2, <1>3, BoundsAssumption DEF NeverFull
<1>5. QED
  BY <1>4 DEF Kept

\* No save leaves the file behind, and so no start forgets.
FileWhole == ~behind /\ forgotten = {}

LEMMA FileStaysWhole ==
  ASSUME NeverFull
  PROVE  Spec => []FileWhole
<1>1. Init => FileWhole
  BY DEF Init, FileWhole
<1>2. TypeOK /\ SeenInv /\ FileWhole /\ [Next]_vars => FileWhole'
  <2> SUFFICES ASSUME TypeOK, SeenInv, FileWhole, [Next]_vars PROVE FileWhole'
    OBVIOUS
  <2>1. ~behind'
    <3>1. CASE Write
      BY <3>1, NothingTruncated DEF Write
    <3>2. CASE ~Write
      BY <3>2 DEF FileWhole, NeverFull, Next, Step, Environment, Poll, Save,
        Settle, SettleAccepted, SettleNotAccepted, SettleOne, vars, gaps,
        StartTick, PollSeeded, PollUnseeded, PollFails, EndTick, OpenFails,
        Truncate, WriteFails, FinalSave, Exit, Crash, Halt, Restart, Remember,
        Arrive, AgeOut, Sigterm, Redeploy
    <3>3. QED
      BY <3>1, <3>2
  <2>2. forgotten' = {}
    BY ForgottenStep DEF FileWhole, SeenInv, GuardInv, Restart, Remember
  <2>3. QED
    BY <2>1, <2>2 DEF FileWhole
<1>3. QED
  BY <1>1, <1>2, TypeCorrect, SeenInvariant, PTL DEF Spec

\* While the state file is writable and not full, the watcher implements
\* ClaimOnce, over any number of stops and redeploys.
THEOREM WatcherImplementsClaimOnce ==
  ASSUME NeverFull
  PROVE  Spec => ImplementsClaimOnce
<1>1. FileWhole => forgotten = {}
  BY DEF FileWhole
<1>2. QED
  BY <1>1, FileStaysWhole, RememberingImplementsClaimOnce, PTL
=============================================================================
