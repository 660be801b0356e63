------------------------------ MODULE Watcher ------------------------------
(***************************************************************************)
(* internal/watcher: the goroutine that polls the history of every app,    *)
(* seeds an app on its first non-empty listing, remembers the pay-ins it   *)
(* has seen in memory and in a JSON state file, and sends one claim to     *)
(* qrisgate for every pay-in it sees for the first time.                   *)
(*                                                                         *)
(* The environment: pay-ins appear in an app's GoBiz history and later     *)
(* leave the window the poll asks for (one day, thirty rows).  The process *)
(* may crash at any step, may be stopped with SIGTERM, and is restarted by *)
(* docker; a redeploy recreates the container, and with it /tmp, where the *)
(* state file lives.                                                       *)
(***************************************************************************)
EXTENDS Naturals, FiniteSets, FiniteSetsExt

CONSTANTS
  Apps,         \* app ids (one enabled tenant each)
  PayIns,       \* the pay-ins, standing for key(p) = app:provider:external id
  AppOf,        \* the app a pay-in belongs to
  MaxSeen,      \* how many ids the state file keeps (2000 in the code)
  SaveMayFail,  \* whether writing the state file can fail
  DryRunModes,  \* the values DRY_RUN may have when the process starts
  MaxStops      \* bound: how often the process crashes or is stopped

ASSUME PayInsAssumption == IsFiniteSet(PayIns)
ASSUME AppOfAssumption == AppOf \in [PayIns -> Apps]
ASSUME BoundsAssumption == MaxSeen \in Nat /\ MaxStops \in Nat
ASSUME ModesAssumption ==
  SaveMayFail \in BOOLEAN /\ DryRunModes \subseteq BOOLEAN

VARIABLES
  \* the GoBiz history of each pay-in
  listing,
  \* the goroutine: where it is, where it goes on after handle, the
  \* providers the tick still has to poll
  pc, ret, todo,
  \* the process: its context is cancelled; DRY_RUN
  stopping, dry,
  \* the watcher's maps, and the pay-ins handle has still to settle
  seen, seededApps, newOnes,
  \* what load would read from the state file
  diskApps, diskIds,
  \* calls of Settle, and the pay-ins qrisgate accepted
  calls, paid,
  \* history, for the properties only: pay-ins taken as seed, apps polled
  \* successfully, pay-ins that appeared after such a poll, pay-ins a stop
  \* left on disk as seen but unsettled; whether the last save left the state
  \* file behind the map, and the decided pay-ins that a process did not find
  \* in the file it started from; stops so far
  swallowed, polled, fresh, lost, behind, forgotten, stops

process == <<stopping, dry>>
memory == <<seen, seededApps, newOnes>>
disk == <<diskApps, diskIds>>
ledger == <<calls, paid>>
history == <<swallowed, polled, fresh, lost>>
gaps == <<behind, forgotten>>
vars == <<listing, pc, ret, todo, process, memory, disk, ledger, history,
          gaps, stops>>

TypeOK ==
  /\ listing \in [PayIns -> {"unpaid", "listed", "aged"}]
  /\ pc \in {"down", "idle", "tick", "saving", "writing", "settling", "done"}
  /\ ret \in {"tick", "done"}
  /\ todo \subseteq Apps
  /\ stopping \in BOOLEAN /\ dry \in BOOLEAN
  /\ seen \subseteq PayIns /\ seededApps \subseteq Apps
  /\ newOnes \subseteq PayIns
  /\ diskApps \subseteq Apps /\ diskIds \subseteq PayIns
  /\ calls \in [PayIns -> Nat] /\ paid \subseteq PayIns
  /\ swallowed \subseteq PayIns /\ polled \subseteq Apps
  /\ fresh \subseteq PayIns /\ lost \subseteq PayIns
  /\ behind \in BOOLEAN /\ forgotten \subseteq PayIns /\ stops \in 0..MaxStops

Init ==
  /\ listing = [k \in PayIns |-> "unpaid"]
  /\ pc = "down" /\ ret = "tick" /\ todo = {}
  /\ stopping = FALSE /\ dry = FALSE
  /\ seen = {} /\ seededApps = {} /\ newOnes = {}
  /\ diskApps = {} /\ diskIds = {}
  /\ calls = [k \in PayIns |-> 0] /\ paid = {}
  /\ swallowed = {} /\ polled = {} /\ fresh = {} /\ lost = {}
  /\ behind = FALSE /\ forgotten = {} /\ stops = 0

\* Pay-ins whose fate is decided: taken as seed, or a claim was sent.
Retired == swallowed \cup {k \in PayIns : calls[k] > 0}

\* Decided pay-ins that a watcher with these apps and ids would take for new.
Missed(apps, ids) ==
  {k \in Retired : AppOf[k] \in apps /\ listing[k] # "aged" /\ k \notin ids}

-----------------------------------------------------------------------------
\* The GoBiz side.

\* A customer pays: the pay-in appears in its app's history.
Arrive(k) ==
  /\ listing[k] = "unpaid"
  /\ listing' = [listing EXCEPT ![k] = "listed"]
  /\ fresh' = IF AppOf[k] \in polled THEN fresh \cup {k} ELSE fresh
  /\ UNCHANGED <<pc, ret, todo, process, memory, disk, ledger, swallowed,
                 polled, lost, gaps, stops>>

\* The pay-in leaves the window of the history query: it is older than
\* HistoryDays, or HistorySize newer ones push it off the page.
AgeOut(k) ==
  /\ listing[k] = "listed"
  /\ listing' = [listing EXCEPT ![k] = "aged"]
  /\ UNCHANGED <<pc, ret, todo, process, memory, disk, ledger, history,
                 gaps, stops>>

Listed(a) == {k \in PayIns : AppOf[k] = a /\ listing[k] = "listed"}

-----------------------------------------------------------------------------
\* One tick: list the providers, then poll and handle them one by one.

\* Run calls tick; ListEnabled returned the apps in S.  With a cancelled
\* context the query fails and the tick is over before it began, and so it
\* is when the query fails: neither changes anything.
StartTick(S) ==
  /\ pc = "idle" /\ ~stopping
  /\ pc' = "tick" /\ todo' = S
  /\ UNCHANGED <<listing, ret, process, memory, disk, ledger, history,
                 gaps, stops>>

\* Poll returned an error: go on with the next provider.
PollFails(a) ==
  /\ pc = "tick" /\ a \in todo
  /\ todo' = todo \ {a}
  /\ UNCHANGED <<listing, pc, ret, process, memory, disk, ledger, history,
                 gaps, stops>>

\* A bug, for the mutation runs: settle first and persist afterwards.
PollSeededSettlesFirst(a) ==
  /\ pc = "tick" /\ a \in todo /\ ~stopping
  /\ a \in seededApps
  /\ newOnes' = Listed(a) \ seen
  /\ seen' = seen \cup Listed(a)
  /\ pc' = (IF newOnes' = {} THEN "saving" ELSE "settling") /\ ret' = "tick"
  /\ todo' = todo \ {a}
  /\ polled' = polled \cup {a}
  /\ UNCHANGED <<listing, process, seededApps, disk, ledger, swallowed,
                 fresh, lost, gaps, stops>>

\* handle, up to persistLocked, for an app that is already seeded: what is
\* not in seen is new and is marked seen.  A cancelled context fails the
\* poll's requests, so no listing arrives once the process is stopping.
PollSeeded(a) ==
  /\ pc = "tick" /\ a \in todo /\ ~stopping
  /\ a \in seededApps
  /\ newOnes' = Listed(a) \ seen
  /\ seen' = seen \cup Listed(a)
  /\ pc' = "saving" /\ ret' = "tick"
  /\ todo' = todo \ {a}
  /\ polled' = polled \cup {a}
  /\ UNCHANGED <<listing, process, seededApps, disk, ledger, swallowed,
                 fresh, lost, gaps, stops>>

\* A bug: the app is seeded, its pay-ins are not marked seen.
PollUnseededForgets(a) ==
  /\ pc = "tick" /\ a \in todo /\ ~stopping
  /\ a \notin seededApps
  /\ newOnes' = {}
  /\ seededApps' = seededApps \cup {a}
  /\ swallowed' = swallowed \cup Listed(a)
  /\ pc' = "saving" /\ ret' = "tick"
  /\ todo' = todo \ {a}
  /\ polled' = polled \cup {a}
  /\ UNCHANGED <<listing, process, seen, disk, ledger, fresh, lost, gaps,
                 stops>>

\* handle for an app that is not seeded: all it lists becomes known and
\* nothing is settled.  An empty listing leaves the app unseeded.
PollUnseeded(a) ==
  /\ pc = "tick" /\ a \in todo /\ ~stopping
  /\ a \notin seededApps
  /\ newOnes' = {}
  /\ seen' = seen \cup Listed(a)
  /\ seededApps' = IF Listed(a) = {} THEN seededApps ELSE seededApps \cup {a}
  /\ swallowed' = swallowed \cup Listed(a)
  /\ pc' = "saving" /\ ret' = "tick"
  /\ todo' = todo \ {a}
  /\ polled' = polled \cup {a}
  /\ UNCHANGED <<listing, process, disk, ledger, fresh, lost, gaps, stops>>

EndTick ==
  /\ pc = "tick" /\ todo = {}
  /\ pc' = "idle"
  /\ UNCHANGED <<listing, ret, todo, process, memory, disk, ledger, history,
                 gaps, stops>>

-----------------------------------------------------------------------------
\* persistLocked: os.WriteFile truncates the file, then writes it.  A file
\* that is missing, empty or cut short loads as no state at all, because
\* json.Unmarshal rejects it before it assigns anything.

AfterSave == IF newOnes # {} THEN "settling" ELSE ret

\* A bug: give the new pay-ins up when the file cannot be written.
OpenFailsReturns ==
  /\ SaveMayFail
  /\ pc = "saving" /\ pc' = ret
  /\ newOnes' = {}
  /\ behind' = TRUE
  /\ UNCHANGED <<listing, ret, todo, process, seen, seededApps, disk, ledger,
                 history, forgotten, stops>>

\* The file could not be opened: it keeps its old contents, and the error
\* is dropped.
OpenFails ==
  /\ SaveMayFail
  /\ pc = "saving" /\ pc' = AfterSave
  /\ behind' = TRUE
  /\ UNCHANGED <<listing, ret, todo, process, memory, disk, ledger, history,
                 forgotten, stops>>

Truncate ==
  /\ pc = "saving" /\ pc' = "writing"
  /\ diskApps' = {} /\ diskIds' = {} /\ behind' = FALSE
  /\ UNCHANGED <<listing, ret, todo, process, memory, ledger, history,
                 forgotten, stops>>

\* A bug: off by one at the limit.
KeptOneShort ==
  IF Cardinality(seen) >= MaxSeen THEN kSubset(MaxSeen - 1, seen) ELSE {seen}

\* The ids written: all of seen or, when there are too many, some MaxSeen
\* of them, in the order a Go map happens to yield.
Kept == IF Cardinality(seen) > MaxSeen THEN kSubset(MaxSeen, seen) ELSE {seen}

\* A bug: ids and apps change places.
WriteSwapped ==
  /\ pc = "writing" /\ pc' = AfterSave
  /\ diskApps' = seen /\ diskIds' = seededApps
  /\ UNCHANGED <<listing, ret, todo, process, memory, ledger, history,
                 gaps, stops>>

\* A bug: the ids are missing from what is written.
WriteWithoutIds ==
  /\ pc = "writing" /\ pc' = AfterSave
  /\ diskApps' = seededApps
  /\ \E ids \in Kept :
       /\ diskIds' = {}
       /\ behind' = (ids # seen)
  /\ UNCHANGED <<listing, ret, todo, process, memory, ledger, history,
                 forgotten, stops>>

Write ==
  /\ pc = "writing" /\ pc' = AfterSave
  /\ diskApps' = seededApps
  /\ \E ids \in Kept :
       /\ diskIds' = ids
       /\ behind' = (ids # seen)
  /\ UNCHANGED <<listing, ret, todo, process, memory, ledger, history,
                 forgotten, stops>>

\* The disk is full: what was written does not parse.
WriteFails ==
  /\ SaveMayFail
  /\ pc = "writing" /\ pc' = AfterSave
  /\ UNCHANGED <<listing, ret, todo, process, memory, disk, ledger, history,
                 gaps, stops>>

-----------------------------------------------------------------------------
\* The end of handle: settle the new pay-ins one by one, ignoring failures.

SettleOne(k) ==
  /\ pc = "settling" /\ k \in newOnes
  /\ calls' = [calls EXCEPT ![k] = @ + 1]
  /\ newOnes' = newOnes \ {k}
  /\ pc' = IF newOnes = {k} THEN "tick" ELSE "settling"
  /\ UNCHANGED <<listing, ret, todo, process, seen, seededApps, disk, history,
                 gaps, stops>>

\* qrisgate matched the claim with a pending payment; whether its answer
\* reaches the client makes no difference to the watcher.
SettleAccepted(k) ==
  /\ ~dry /\ ~stopping
  /\ SettleOne(k)
  /\ paid' = paid \cup {k}

\* A bug: the loop ends at the first claim that fails.
SettleNotAcceptedStops(k) ==
  /\ pc = "settling" /\ k \in newOnes
  /\ calls' = [calls EXCEPT ![k] = @ + 1]
  /\ newOnes' = {} /\ pc' = "tick"
  /\ UNCHANGED <<listing, ret, todo, process, seen, seededApps, disk, history,
                 paid, gaps, stops>>

\* No pending payment, an error status, a timeout, a cancelled context, or
\* a dry run: the pay-in stays seen and is not retried.
SettleNotAccepted(k) ==
  /\ SettleOne(k)
  /\ paid' = paid

-----------------------------------------------------------------------------
\* The process.

\* SIGINT or SIGTERM cancels the context of Run.
Sigterm ==
  /\ pc # "down" /\ ~stopping
  /\ stops < MaxStops
  /\ stopping' = TRUE
  /\ stops' = stops + 1
  /\ UNCHANGED <<listing, pc, ret, todo, dry, memory, disk, ledger, history,
                 gaps>>

\* Run saw the cancelled context and persists once more before returning.
FinalSave ==
  /\ pc = "idle" /\ stopping
  /\ pc' = "saving" /\ ret' = "done"
  /\ UNCHANGED <<listing, todo, process, memory, disk, ledger, history,
                 gaps, stops>>

\* The process ends and its memory is gone.  What is on disk as seen but
\* not yet settled will not be settled.
Halt ==
  /\ pc # "down"
  /\ pc' = "down" /\ ret' = "tick" /\ todo' = {} /\ stopping' = FALSE
  /\ seen' = {} /\ seededApps' = {} /\ newOnes' = {}
  /\ lost' = lost \cup (newOnes \cap diskIds)
  /\ UNCHANGED <<listing, dry, disk, ledger, swallowed, polled, fresh,
                 gaps>>

Crash ==
  /\ ~stopping /\ stops < MaxStops
  /\ stops' = stops + 1
  /\ Halt

\* main waits for the HTTP server only: it may return at any step of Run.
Exit ==
  /\ stopping
  /\ stops' = stops
  /\ Halt

\* A new container has an empty /tmp, and so no state file.
Redeploy ==
  /\ pc = "down"
  /\ diskApps' = {} /\ diskIds' = {} /\ behind' = FALSE
  /\ UNCHANGED <<listing, pc, ret, todo, process, memory, ledger, history,
                 forgotten, stops>>

\* The file is all that the new process knows: what an earlier one decided
\* and the file misses is forgotten.
Remember ==
  /\ behind' = FALSE
  /\ forgotten' = forgotten \cup Missed(diskApps, diskIds)

\* A bug: load restores the seeded apps but not the ids.
RestartWithoutIds ==
  /\ pc = "down"
  /\ pc' = "idle"
  /\ seededApps' = diskApps
  /\ dry' \in DryRunModes
  /\ Remember
  /\ UNCHANGED <<listing, ret, todo, stopping, seen, newOnes, disk, ledger,
                 history, stops>>

\* A bug: load restores the ids but not the seeded apps.
RestartWithoutApps ==
  /\ pc = "down"
  /\ pc' = "idle"
  /\ seen' = diskIds
  /\ dry' \in DryRunModes
  /\ Remember
  /\ UNCHANGED <<listing, ret, todo, stopping, seededApps, newOnes, disk,
                 ledger, history, stops>>

\* New loads the state file and Run starts.
Restart ==
  /\ pc = "down"
  /\ pc' = "idle"
  /\ seen' = diskIds /\ seededApps' = diskApps
  /\ dry' \in DryRunModes
  /\ Remember
  /\ UNCHANGED <<listing, ret, todo, stopping, newOnes, disk, ledger, history,
                 stops>>

-----------------------------------------------------------------------------
Poll(a) == PollSeeded(a) \/ PollUnseeded(a)

Save == OpenFails \/ Truncate \/ Write \/ WriteFails

Settle(k) == SettleAccepted(k) \/ SettleNotAccepted(k)

\* The steps the process takes by itself.
Step ==
  \/ \E S \in SUBSET Apps : StartTick(S)
  \/ \E a \in Apps : Poll(a) \/ PollFails(a)
  \/ EndTick
  \/ Save
  \/ \E k \in PayIns : Settle(k)
  \/ FinalSave
  \/ Exit
  \/ Restart

Environment ==
  \/ \E k \in PayIns : Arrive(k) \/ AgeOut(k)
  \/ Sigterm
  \/ Crash
  \/ Redeploy

Next == Step \/ Environment

Spec == Init /\ [][Next]_vars

\* The goroutine runs, main returns once stopped, docker restarts it; a
\* tenant that is enabled is in some later tick again and again, and GoBiz
\* does not fail its polls forever.
Fairness ==
  /\ WF_vars(Step)
  /\ \A a \in Apps :
       /\ SF_vars(\E S \in SUBSET Apps : a \in S /\ StartTick(S))
       /\ SF_vars(Poll(a))

FairSpec == Spec /\ Fairness
-----------------------------------------------------------------------------
(***************************************************************************)
(* Properties                                                              *)
(***************************************************************************)

\* The seeded apps of the file are seeded in memory; the file is empty
\* while it is being written.
AppsInv ==
  /\ pc # "down" => diskApps \subseteq seededApps
  /\ pc = "writing" => diskApps = {}

\* What handle has found new is marked seen, is still to be settled before
\* the next poll, and was listed, as is whatever has been decided.
NewInv ==
  /\ newOnes # {} => pc \in {"saving", "writing", "settling"} /\ ret = "tick"
  /\ newOnes \subseteq seen
  /\ \A k \in Retired \cup newOnes : listing[k] # "unpaid"

\* The memory misses no decided pay-in but those forgotten at a start, nor
\* does the file, unless the last save left it behind; what is about to be
\* settled is undecided and, once settling, in such a file.
GuardInv ==
  /\ pc # "down" => Missed(seededApps, seen) \subseteq forgotten
  /\ behind \/ Missed(diskApps, diskIds) \subseteq forgotten
  /\ newOnes \cap Retired \subseteq forgotten
  /\ pc = "settling" /\ ~behind =>
       \A k \in newOnes : AppOf[k] \in diskApps => k \in diskIds

\* The inductive invariant behind AtMostOnce (watcher.go 130-166).
SeenInv == AppsInv /\ NewInv /\ GuardInv

\* domain/event.go: the external id is the dedupe key.  Over crashes,
\* restarts, redeploys and saves cut short, no pay-in is claimed twice but
\* those that some process did not find in the file it started from.
AtMostOnce == \A k \in PayIns \ forgotten : calls[k] <= 1

\* watcher.go 151-157: a pay-in taken as seed is never settled later, not
\* even by a later process, with the same exception.
SeedNeverSettles ==
  [][\A k \in swallowed \ forgotten : calls'[k] = calls[k]]_vars

\* persistLocked (watcher.go 74-87): a start forgets a pay-in only if the
\* last save before it left ids out or could not open the file.  A crash in
\* the middle of a save, a full disk and a redeploy forget none.
ForgetsOnlyIfBehind == [][forgotten' # forgotten => behind]_vars

\* handle persists before it settles (watcher.go 158-166): when a claim is
\* sent, a restart from the file of that moment would not send it again,
\* unless the save for it fell short.
WriteAhead ==
  [][\A k \in PayIns : calls'[k] # calls[k] =>
       behind \/ k \in diskIds \/ AppOf[k] \notin diskApps]_vars

\* The counterpart of AtMostOnce: whatever is marked seen, in memory or in
\* the file, was taken as seed, is claimed or about to be (watcher.go
\* 143-166), or was caught by a stop between the save and its claim.
NothingDropped == seen \cup diskIds \subseteq Retired \cup newOnes \cup lost

\* watcher.go 23 and 58-72: an app that is in the state file is not seeded
\* again, by this process or by one that starts from the file.
NotSeededAgain ==
  [][\A k \in swallowed' \ swallowed : AppOf[k] \notin diskApps]_vars

\* The unconditional reading of event.go 12 and 25, "dedupe key" and "Watcher
\* handles seed/dedupe": it does not hold once the state file is full.
SettleAtMostOnce == \A k \in PayIns : calls[k] <= 1

\* watcher.go 23, "seeds per-app, then settles new pay-ins": a pay-in that
\* appears after its app was polled successfully is not taken as seed.  It
\* does not hold: an empty listing does not seed the app.
OnlyOldPayInsSeeded == swallowed \cap fresh = {}

\* Every pay-in the watcher could see is dealt with: settled (perhaps in
\* vain), taken as seed, gone from the history first, or caught between the
\* save and the settle by a stop (watcher.go 158-166).
Accounted ==
  \A k \in PayIns :
    listing[k] = "listed" ~>
      calls[k] > 0 \/ k \in swallowed \cup lost \/ listing[k] = "aged"

\* The fate of each pay-in as ClaimOnce sees it.
Fate ==
  [k \in PayIns |->
     IF k \in paid THEN "claimed"
     ELSE IF calls[k] > 0 THEN "failed"
     ELSE IF k \in swallowed THEN "retired"
     ELSE "open"]

Abstract == INSTANCE ClaimOnce WITH fate <- Fate

\* With a writable state file that is not full, the watcher implements
\* ClaimOnce: fates are decided once, and for good.
ImplementsClaimOnce == Abstract!Spec
=============================================================================
