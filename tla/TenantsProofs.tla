--------------------------- MODULE TenantsProofs ---------------------------
(***************************************************************************)
(* What holds of the tenants, the poller and the gate for every set of     *)
(* apps and of concurrent admin requests, and any number of tokens,        *)
(* tenants and restarts, proved with TLAPS.                                *)
(***************************************************************************)
EXTENDS Tenants, TLAPS

-----------------------------------------------------------------------------
\* Rows and requests, so that the proofs below need not open the records.

LEMMA NoSessionType == NoSession \in Session
BY BoundsAssumption DEF NoSession, Session

LEMMA NoRowType == NoRow \in Row
BY BoundsAssumption, NoSessionType DEF NoRow, Row

LEMMA OverType ==
  ASSUME NEW s \in Session, NEW t \in Session
  PROVE  Over(s, t) \in Session
BY DEF Over, Session

LEMMA RowType ==
  ASSUME NEW r \in Row
  PROVE  /\ r.id \in 0..MaxRows /\ r.enabled \in BOOLEAN
         /\ r.session \in Session
         /\ \A t \in Session : [r EXCEPT !.session = t] \in Row
         /\ \A b \in BOOLEAN : [r EXCEPT !.enabled = b] \in Row
BY DEF Row

LEMMA PatchedType ==
  ASSUME NEW r \in Row, NEW e \in {"keep", "on", "off"}, NEW k \in BOOLEAN
  PROVE  Patched(r, e, k) \in Row
BY RowType DEF Patched

LEMMA RequestType ==
  ASSUME NEW q \in Request, q.at # "idle"
  PROVE  /\ q.app \in Apps /\ q.snap \in Row
         /\ q.enabled \in {"keep", "on", "off"} /\ q.creds \in BOOLEAN
         /\ q.snap.session \in Session
BY RowType DEF Request, Idle

\* A request moves on, perhaps with another session in its row.
LEMMA RequestStepType ==
  ASSUME NEW q \in Request, q.at # "idle",
         NEW l \in {"login", "update", "unblock", "verify", "vsave"},
         NEW t \in Session
  PROVE  [q EXCEPT !.at = l, !.snap.session = t] \in Request
<1>1. [q.snap EXCEPT !.session = t] \in Row
  BY RequestType, RowType
<1>2. q \in [at : {"login", "update", "unblock", "verify", "vsave"}, app : Apps,
            enabled : {"keep", "on", "off"}, creds : BOOLEAN, snap : Row]
  BY DEF Request, Idle
<1>3. QED
  BY <1>1, <1>2 DEF Request

\* ...or with the one it has.
LEMMA RequestAtType ==
  ASSUME NEW q \in Request, q.at # "idle",
         NEW l \in {"login", "update", "unblock", "verify", "vsave"}
  PROVE  [q EXCEPT !.at = l] \in Request
BY DEF Request, Idle

\* It stays the same request otherwise.
Moved(q, l, t) == [q EXCEPT !.at = l, !.snap.session = t]

LEMMA RequestKept ==
  ASSUME NEW q \in Request, q.at # "idle", NEW l, NEW t
  PROVE  LET p == Moved(q, l, t)
         IN  /\ p.at = l /\ p.app = q.app /\ p.enabled = q.enabled
             /\ p.snap.id = q.snap.id /\ p.snap.enabled = q.snap.enabled
<1>1. q \in [at : {"login", "update", "unblock", "verify", "vsave"}, app : Apps,
            enabled : {"keep", "on", "off"}, creds : BOOLEAN, snap : Row]
  BY DEF Request, Idle
<1>2. /\ [q.snap EXCEPT !.session = t].id = q.snap.id
      /\ [q.snap EXCEPT !.session = t].enabled = q.snap.enabled
  BY <1>1 DEF Row
<1>3. QED
  BY <1>1, <1>2 DEF Moved

LEMMA IdleType ==
  /\ Idle \in Request
  /\ \A a \in Apps, r \in Row :
       [Idle EXCEPT !.at = "verify", !.app = a, !.snap = r] \in Request
BY DEF Idle, Request

\* Writing a row back keeps the table a table, and every id in its place.
LEMMA StoredType ==
  ASSUME NEW a, NEW t \in Row, row \in [Apps -> Row]
  PROVE  /\ Stored(a, t) \in [Apps -> Row]
         /\ \A b \in Apps : Stored(a, t)[b].id = row[b].id
BY DEF Stored, Row

\* What GoBiz issues and exchanges, and the sessions that come of it.
GobizType ==
  /\ issued' = issued + 1 /\ issued' \in 0..MaxTokens
  /\ valid' \subseteq 1..issued' /\ live' \subseteq 1..issued'
  /\ used \in [Apps -> SUBSET (1..issued')]

LEMMA IssueType == ASSUME TypeOK, Issue PROVE GobizType
BY BoundsAssumption DEF Issue, TypeOK, GobizType

LEMMA ExchangeType ==
  ASSUME TypeOK, NEW t, NEW rotates \in BOOLEAN, Exchange(t, rotates)
  PROVE  GobizType /\ t \in 1..issued
<1>1. /\ issued' = issued + 1 /\ issued \in Nat /\ issued' \in 0..MaxTokens
      /\ t \in 1..issued
  BY BoundsAssumption DEF Exchange, TypeOK
<1>2. 1..issued \subseteq 1..issued' /\ issued + 1 \in 1..issued'
  BY <1>1
<1>3. valid' \subseteq 1..issued'
  BY <1>2 DEF Exchange, TypeOK
<1>4. live' \subseteq 1..issued'
  <2>1. live' \subseteq live \cup {issued + 1}
    BY DEF Exchange
  <2>2. QED
    BY <1>2, <2>1 DEF TypeOK
<1>5. used \in [Apps -> SUBSET (1..issued')]
  BY <1>2 DEF TypeOK
<1>6. QED
  BY <1>1, <1>3, <1>4, <1>5 DEF GobizType

LEMMA GrantedType ==
  ASSUME NEW n \in 1..MaxTokens, NEW s \in Granted(n)
  PROVE  s \in Session
BY BoundsAssumption DEF Granted, Session

LEMMA ExchangedType ==
  ASSUME TypeOK, GobizType, NEW s \in Session, NEW rotates \in BOOLEAN
  PROVE  Exchanged(s, rotates) \in Session
BY DEF Exchanged, Session, GobizType

LEMMA LoadedType ==
  ASSUME TypeOK, NEW a \in Apps, NEW s \in Session
  PROVE  Loaded(s, a) \in Session
BY OverType DEF Loaded, TypeOK

\* The end of a poll leaves the poller between two polls.
LEMMA EndPollType ==
  ASSUME TypeOK, EndPoll
  PROVE  /\ at' = "next" /\ app' = NoApp /\ client' \in Session
         /\ todo' \subseteq Apps /\ built' \in [Apps -> Session]
         /\ snap' \in Row /\ retried' \in BOOLEAN
BY NoSessionType, NoRowType DEF EndPoll, TypeOK

-----------------------------------------------------------------------------
LEMMA TypeStep == TypeOK /\ [Next]_vars => TypeOK'
<1> SUFFICES ASSUME TypeOK, [Next]_vars PROVE TypeOK'
  OBVIOUS
<1> USE DEF TypeOK, asked, files
<1>1. CASE ListEnabled
  BY <1>1, RowType, NoSessionType
     DEF ListEnabled, table, gobiz, poller
<1>2. CASE SkipBlocked
  BY <1>2
     DEF SkipBlocked, table, gobiz, poller
<1>3. CASE EndTick
  BY <1>3, NoSessionType
     DEF EndTick, table, gobiz, poller
<1>4. ASSUME NEW a \in Apps, StartPoll(a)
     PROVE  TypeOK'
  BY <1>4, NoSessionType, LoadedType
     DEF StartPoll, table, gobiz, poller
<1>5. CASE SessionValid
  BY <1>5
     DEF SessionValid, Goto, table, gobiz, poller
<1>6. ASSUME NEW rotates \in BOOLEAN, Refresh(rotates)
     PROVE  TypeOK'
  <2>1. GobizType /\ client.refresh \in 1..issued
    BY <1>6, ExchangeType DEF Refresh
  <2>2. client' \in Session
    BY <1>6, <2>1, ExchangedType DEF Refresh
  <2>3. used' \in [Apps -> SUBSET (1..issued')]
    BY <1>6, <2>1 DEF Refresh, GobizType
  <2>4. QED
    BY <1>6, <2>1, <2>2, <2>3 DEF Refresh, GobizType, table
<1>7. CASE RefreshLost
  BY <1>7, EndPollType
     DEF RefreshLost, table, gobiz, poller
<1>8. CASE SessionError
  BY <1>8, EndPollType
     DEF SessionError, table, gobiz, poller
<1>9. CASE Strike
  BY <1>9
     DEF Strike, Goto, table, gobiz, poller
<1>10. CASE SaveCache
  BY <1>10, NoSessionType
     DEF SaveCache, Goto, table, gobiz, poller
<1>11. CASE SessionGet
  BY <1>11, RowType, OverType
     DEF SessionGet, table, gobiz, poller
<1>12. CASE SessionSave
  BY <1>12, StoredType
     DEF SessionSave, Goto, table, gobiz, poller
<1>13. CASE SessionNotSaved
  BY <1>13
     DEF SessionNotSaved, Goto, table, gobiz, poller
<1>14. CASE HistoryReturns
  BY <1>14, EndPollType
     DEF HistoryReturns, table, gobiz, poller
<1>15. CASE HistoryUnauthorized
  <2>1. [client EXCEPT !.access = 0] \in Session
    BY BoundsAssumption DEF Session
  <2>2. client' \in Session
    BY <1>15, <2>1, LoadedType DEF HistoryUnauthorized
  <2>3. QED
    BY <1>15, <2>2 DEF HistoryUnauthorized, table, gobiz
<1>16. CASE Block
  BY <1>16
     DEF Block, Goto, table, gobiz, poller
<1>17. CASE BlockGet
  BY <1>17, RowType
     DEF BlockGet, table, gobiz, poller
<1>18. CASE BlockSave
  BY <1>18, StoredType, EndPollType
     DEF BlockSave, table, gobiz, poller
<1>19. CASE BlockNotSaved
  BY <1>19, EndPollType
     DEF BlockNotSaved, table, gobiz, poller
<1>20. ASSUME NEW c \in Admins, PatchLogin(c)
     PROVE  TypeOK'
  <2>1. GobizType
    BY <1>20, IssueType DEF PatchLogin
  <2>2. PICK t \in Granted(issued + 1) :
          req' = [req EXCEPT ![c].at = "update", ![c].snap.session = t]
    BY <1>20 DEF PatchLogin
  <2>3. t \in Session
    BY <2>1, GrantedType DEF GobizType
  <2>4. req' \in [Admins -> Request]
    BY <1>20, <2>2, <2>3, RequestStepType DEF PatchLogin
  <2>5. QED
    BY <1>20, <2>1, <2>4 DEF PatchLogin, GobizType, table, poller
<1>21. ASSUME NEW c \in Admins, PatchUpdate(c)
     PROVE  TypeOK'
  <2>1. req[c] \in Request /\ req[c].at # "idle"
    BY <1>21 DEF PatchUpdate
  <2>2. req[c].app \in Apps /\ req[c].snap \in Row
    BY <2>1, RequestType
  <2>3. req' \in [Admins -> Request]
    BY <1>21, <2>1, RequestAtType, IdleType DEF PatchUpdate
  <2>4. row' \in [Apps -> Row]
    BY <1>21, <2>2, StoredType DEF PatchUpdate
  <2>5. awaiting' \subseteq Apps /\ wanted' \subseteq Apps
    BY <1>21, <2>2 DEF PatchUpdate
  <2>6. QED
    BY <1>21, <2>3, <2>4, <2>5 DEF PatchUpdate, gobiz, poller
<1>22. ASSUME NEW c \in Admins, Unblock(c)
     PROVE  TypeOK'
  BY <1>22, IdleType, RequestType
     DEF Unblock, table, gobiz, poller
<1>23. ASSUME NEW c \in Admins, NEW t \in Tokens, PatchToken(c, t)
     PROVE  TypeOK'
  <2>1. req[c] \in Request /\ req[c].at # "idle"
    BY <1>23 DEF PatchToken
  <2>2. PICK g \in Granted(t) \cup {NoSession} :
          req' = [req EXCEPT ![c].at = "update", ![c].snap.session = Over(g, @)]
    BY <1>23 DEF PatchToken
  <2>3. Over(g, req[c].snap.session) \in Session
    BY <2>1, GrantedType, NoSessionType, RequestType, OverType DEF Tokens
  <2>4. req' \in [Admins -> Request]
    BY <2>1, <2>2, <2>3, RequestStepType
  <2>5. QED
    BY <1>23, <2>4 DEF PatchToken, table, gobiz, poller
<1>24. ASSUME NEW c \in Admins, NEW rotates \in BOOLEAN,
             VerifyRefresh(c, rotates)
     PROVE  TypeOK'
  <2>1. req[c] \in Request /\ req[c].at # "idle"
    BY <1>24 DEF VerifyRefresh
  <2>2. GobizType
    BY <1>24, ExchangeType DEF VerifyRefresh
  <2>3. Exchanged(req[c].snap.session, rotates) \in Session
    BY <2>1, <2>2, RequestType, ExchangedType
  <2>4. req' \in [Admins -> Request]
    BY <1>24, <2>1, <2>3, RequestStepType DEF VerifyRefresh
  <2>5. QED
    BY <1>24, <2>2, <2>4 DEF VerifyRefresh, GobizType, table, poller
<1>25. ASSUME NEW c \in Admins, VerifySave(c)
     PROVE  TypeOK'
  BY <1>25, StoredType, RequestType, IdleType
     DEF VerifySave, table, gobiz, poller
<1>26. ASSUME NEW c \in Admins, VerifyLost(c)
     PROVE  TypeOK'
  BY <1>26, IdleType
     DEF VerifyLost, table, gobiz, poller
<1>27. ASSUME NEW c \in Admins, GiveUp(c)
     PROVE  TypeOK'
  BY <1>27, IdleType
     DEF GiveUp, table, gobiz, poller
<1>28. ASSUME NEW a \in Apps, NEW e \in BOOLEAN, Create(a, e)
     PROVE  TypeOK'
  <2>1. lastId + 1 \in 0..MaxRows
    BY <1>28, BoundsAssumption DEF Create
  <2>2. PICK t \in Session :
          /\ Issue \/ UNCHANGED gobiz
          /\ row' = [row EXCEPT ![a] = [id |-> lastId + 1, enabled |-> e,
                                       session |-> t]]
    BY <1>28 DEF Create
  <2>3. [id |-> lastId + 1, enabled |-> e, session |-> t] \in Row
    BY <2>1 DEF Row
  <2>4. row' \in [Apps -> Row]
    BY <2>2, <2>3
  <2>5. GobizType \/ UNCHANGED gobiz
    BY <2>2, IssueType
  <2>6. QED
    BY <1>28, <2>1, <2>4, <2>5 DEF Create, GobizType, gobiz, poller
<1>29. ASSUME NEW a \in Apps, Delete(a)
     PROVE  TypeOK'
  BY <1>29, NoRowType
     DEF Delete, table, gobiz, poller
<1>30. ASSUME NEW c \in Admins, NEW a \in Apps,
            NEW e \in {"keep", "on", "off"}, NEW k \in BOOLEAN,
             PatchGet(c, a, e, k)
     PROVE  TypeOK'
  <2> DEFINE q == [at |-> IF k THEN "login" ELSE "update", app |-> a,
                   enabled |-> e, creds |-> k, snap |-> Patched(row[a], e, k)]
  <2>1. q \in Request
    BY PatchedType DEF Request
  <2>2. req' = [req EXCEPT ![c] = q]
    BY <1>30 DEF PatchGet
  <2> HIDE DEF q
  <2>3. QED
    BY <1>30, <2>1, <2>2 DEF PatchGet, table, gobiz, poller
<1>31. ASSUME NEW c \in Admins, NEW a \in Apps, VerifyGet(c, a)
     PROVE  TypeOK'
  BY <1>31, IdleType
     DEF VerifyGet, table, gobiz, poller
<1>32. ASSUME NEW t \in Tokens, Expire(t) \/ Revoke(t)
     PROVE  TypeOK'
  BY <1>32 DEF Expire, Revoke, table, poller
<1>33. CASE Restart
  <2>1. crashes' \in 0..MaxCrashes
    BY <1>33, BoundsAssumption DEF Restart
  <2>2. cache' \in [Apps -> Session] /\ used' \in [Apps -> SUBSET (1..issued)]
    BY <1>33, NoSessionType DEF Restart
  <2>3. req' \in [Admins -> Request]
    BY <1>33, IdleType DEF Restart
  <2>4. QED
    BY <1>33, <2>1, <2>2, <2>3, NoSessionType, NoRowType
       DEF Restart, table, gobiz
<1>34. CASE UNCHANGED vars
  BY <1>34 DEF vars, table, gobiz, poller
<1>35. QED
  BY <1>1, <1>2, <1>3, <1>4, <1>5, <1>6, <1>7, <1>8, <1>9, <1>10,
     <1>11, <1>12, <1>13, <1>14, <1>15, <1>16, <1>17, <1>18,
     <1>19, <1>20, <1>21, <1>22, <1>23, <1>24, <1>25, <1>26,
     <1>27, <1>28, <1>29, <1>30, <1>31, <1>32, <1>33, <1>34
     DEF Next, Poller, RefreshRefused, RefreshMissing, Serve, Submit

\* Every variable stays in its set.
THEOREM TypeCorrect == Spec => []TypeOK
<1>1. Init => TypeOK
  <2> SUFFICES ASSUME Init PROVE TypeOK
    OBVIOUS
  <2>1. lastId \in 0..MaxRows /\ issued \in 0..MaxTokens
        /\ client \in Session /\ crashes \in 0..MaxCrashes
    BY BoundsAssumption, NoSessionType DEF Init
  <2>2. row \in [Apps -> Row] /\ snap \in Row /\ req \in [Admins -> Request]
    BY NoRowType, IdleType DEF Init
  <2>3. /\ valid \subseteq 1..issued /\ live \subseteq 1..issued
        /\ used \in [Apps -> SUBSET (1..issued)]
    BY DEF Init
  <2>4. cache \in [Apps -> Session] /\ built \in [Apps -> Session]
    BY NoSessionType DEF Init
  <2>5. strikes \in [Apps -> Nat]
    BY DEF Init
  <2>6. QED
    BY <2>1, <2>2, <2>3, <2>4, <2>5 DEF Init, TypeOK
<1>2. QED
  BY <1>1, TypeStep, PTL DEF Spec

-----------------------------------------------------------------------------
(***************************************************************************)
(* The gate.                                                               *)
(***************************************************************************)

\* What requests and GoBiz do, but for Unblock, is nothing to the gate.
LEMMA GateFrame ==
  ASSUME [Next]_vars
  PROVE  \/ UNCHANGED <<at, todo, app, gate, strikes>>
         \/ Poller \/ Restart \/ \E c \in Admins : Unblock(c)
<1> USE DEF table, gobiz, poller
<1>1. ASSUME NEW c \in Admins, Serve(c), ~Unblock(c)
      PROVE  UNCHANGED <<at, todo, app, gate, strikes>>
  BY <1>1 DEF Serve, PatchLogin, PatchUpdate, PatchToken, VerifyRefresh,
     VerifySave, VerifyLost, GiveUp
<1>2. CASE Submit
  BY <1>2 DEF Submit, Create, Delete, PatchGet, VerifyGet
<1>3. CASE \E t \in Tokens : Expire(t) \/ Revoke(t)
  BY <1>3 DEF Expire, Revoke
<1>4. QED
  BY <1>1, <1>2, <1>3 DEF Next, vars

LEMMA GateStep == TypeOK /\ GateInv /\ [Next]_vars => GateInv'
<1> SUFFICES ASSUME TypeOK, GateInv, [Next]_vars PROVE GateInv'
  OBVIOUS
<1> USE NoAppAssumption DEF TypeOK, GateInv, Due
<1>1. CASE UNCHANGED <<at, todo, app, gate, strikes>>
  BY <1>1
<1>2. CASE Restart
  BY <1>2 DEF Restart
<1>3. ASSUME NEW c \in Admins, Unblock(c) PROVE GateInv'
  BY <1>3 DEF Unblock, poller
<1>4. CASE ListEnabled
  BY <1>4 DEF ListEnabled
<1>5. CASE SkipBlocked
  BY <1>5 DEF SkipBlocked
<1>6. CASE EndTick
  BY <1>6 DEF EndTick
<1>7. ASSUME NEW a \in Apps, StartPoll(a) PROVE GateInv'
  BY <1>7 DEF StartPoll
<1>8. CASE SessionValid
  BY <1>8 DEF SessionValid, Goto
<1>9. ASSUME NEW rotates \in BOOLEAN, Refresh(rotates) PROVE GateInv'
  BY <1>9 DEF Refresh
<1>10. CASE RefreshLost
  BY <1>10 DEF RefreshLost, EndPoll
<1>11. CASE SessionError
  BY <1>11 DEF SessionError, EndPoll
<1>12. CASE Strike
  BY <1>12 DEF Strike, Goto
<1>13. CASE SaveCache
  BY <1>13 DEF SaveCache, Goto
<1>14. CASE SessionGet
  BY <1>14 DEF SessionGet
<1>15. CASE SessionSave
  BY <1>15 DEF SessionSave, Goto
<1>16. CASE SessionNotSaved
  BY <1>16 DEF SessionNotSaved, Goto
<1>17. CASE HistoryReturns
  BY <1>17 DEF HistoryReturns, EndPoll
<1>18. CASE HistoryUnauthorized
  BY <1>18 DEF HistoryUnauthorized
<1>19. CASE Block
  BY <1>19 DEF Block, Goto
<1>20. CASE BlockGet
  BY <1>20 DEF BlockGet
<1>21. CASE BlockSave
  BY <1>21 DEF BlockSave, EndPoll
<1>22. CASE BlockNotSaved
  BY <1>22 DEF BlockNotSaved, EndPoll
<1>23. QED
  BY GateFrame, <1>1, <1>2, <1>3, <1>4, <1>5, <1>6, <1>7, <1>8, <1>9,
     <1>10, <1>11, <1>12, <1>13, <1>14, <1>15, <1>16, <1>17,
     <1>18, <1>19, <1>20, <1>21, <1>22
     DEF Poller, RefreshRefused, RefreshMissing

\* GateInv holds in every reachable state: the tick never has a blocked app
\* still to poll (source.go 55-78, 122-157).
THEOREM GateInvariant == Spec => []GateInv
<1>1. Init => GateInv
  BY NoAppAssumption DEF Init, GateInv, Due
<1>2. QED
  BY <1>1, GateStep, TypeCorrect, PTL DEF Spec

\* Between two Unblocks the poller runs into at most one fatal auth failure
\* per app, whatever the requests running beside it write to the table.
THEOREM AtMostOneStrike == Spec => []OneStrike
<1>1. Init => OneStrike
  <2> SUFFICES ASSUME Init, NEW a \in Apps PROVE strikes[a] <= 1
    BY DEF OneStrike
  <2>1. strikes[a] = 0
    BY DEF Init
  <2>2. QED
    BY <2>1
<1>2. TypeOK /\ GateInv /\ OneStrike /\ [Next]_vars => OneStrike'
  <2> SUFFICES ASSUME TypeOK, GateInv, OneStrike, [Next]_vars PROVE OneStrike'
    OBVIOUS
  <2>1. CASE UNCHANGED strikes
    BY <2>1 DEF OneStrike
  <2>2. CASE Strike
    <3>1. app \in Apps /\ app \notin gate
      BY <2>2, NoAppAssumption DEF Strike, TypeOK, GateInv, Due
    <3>2. strikes[app] = 0
      BY <2>2, <3>1 DEF Strike, GateInv
    <3>3. QED
      BY <2>2, <3>1, <3>2 DEF Strike, OneStrike, TypeOK
  <2>3. CASE Restart
    BY <2>3 DEF Restart, OneStrike
  <2>4. ASSUME NEW c \in Admins, Unblock(c) PROVE OneStrike'
    BY <2>4 DEF Unblock, OneStrike, TypeOK
  <2>5. ASSUME Poller, ~Strike PROVE UNCHANGED strikes
    BY <2>5 DEF Poller, ListEnabled, SkipBlocked, EndTick, StartPoll,
       SessionValid, Refresh, RefreshLost, SessionError, RefreshRefused,
       RefreshMissing, SaveCache, SessionGet, SessionSave, SessionNotSaved,
       HistoryReturns, HistoryUnauthorized, Block, BlockGet, BlockSave,
       BlockNotSaved
  <2>6. QED
    BY <2>1, <2>2, <2>3, <2>4, <2>5, GateFrame
<1>3. QED
  BY <1>1, <1>2, TypeCorrect, GateInvariant, PTL DEF Spec

-----------------------------------------------------------------------------
(***************************************************************************)
(* The table.                                                              *)
(***************************************************************************)

\* The steps that write the table.
LEMMA RowWriters ==
  ASSUME [Next]_vars
  PROVE  \/ UNCHANGED row
         \/ SessionSave \/ BlockSave
         \/ \E c \in Admins : PatchUpdate(c) \/ VerifySave(c)
         \/ \E a \in Apps, e \in BOOLEAN : Create(a, e)
         \/ \E a \in Apps : Delete(a)
<1> USE DEF table
<1>1. ASSUME Poller, ~SessionSave, ~BlockSave PROVE UNCHANGED row
  BY <1>1 DEF Poller, ListEnabled, SkipBlocked, EndTick, StartPoll,
     SessionValid, Refresh, RefreshLost, SessionError, RefreshRefused,
     RefreshMissing, Strike, SaveCache, SessionGet, SessionNotSaved, HistoryReturns,
     HistoryUnauthorized, Block, BlockGet, BlockNotSaved
<1>2. ASSUME NEW c \in Admins, Serve(c), ~PatchUpdate(c), ~VerifySave(c)
      PROVE  UNCHANGED row
  BY <1>2 DEF Serve, PatchLogin, PatchToken, Unblock, VerifyRefresh,
     VerifyLost, GiveUp
<1>3. ASSUME NEW c \in Admins, NEW a \in Apps,
             NEW e \in {"keep", "on", "off"}, NEW k \in BOOLEAN,
             PatchGet(c, a, e, k) \/ VerifyGet(c, a)
      PROVE  UNCHANGED row
  BY <1>3 DEF PatchGet, VerifyGet
<1>4. QED
  BY <1>1, <1>2, <1>3 DEF Next, Submit, Expire, Revoke, Restart, vars

\* What they write: a row that someone read, or that Create made.
LEMMA TableFrame ==
  ASSUME TypeOK, [Next]_vars
  PROVE  \/ UNCHANGED row
         \/ \E a \in Apps, t \in Row : row' = Stored(a, t)
         \/ \E a \in Apps, e \in BOOLEAN : Create(a, e)
         \/ \E a \in Apps : Delete(a)
<1>1. CASE SessionSave \/ BlockSave
  BY <1>1 DEF SessionSave, BlockSave, TypeOK
<1>2. ASSUME NEW c \in Admins, PatchUpdate(c) \/ VerifySave(c)
      PROVE  \E a \in Apps, t \in Row : row' = Stored(a, t)
  <2>1. req[c] \in Request /\ req[c].at # "idle"
    BY <1>2 DEF PatchUpdate, VerifySave, TypeOK
  <2>2. req[c].app \in Apps /\ req[c].snap \in Row
    BY <2>1, RequestType
  <2>3. QED
    BY <1>2, <2>2 DEF PatchUpdate, VerifySave
<1>3. QED
  BY <1>1, <1>2, RowWriters

\* A stale row in anybody's hands neither brings a deleted tenant back nor
\* replaces a later one.
THEOREM StaleWritesAreHarmless == Spec => NoResurrection
<1>1. TypeOK /\ [Next]_vars =>
        [\A a \in Apps :
           row'[a].id \notin {0, row[a].id} => row'[a].id = lastId + 1]_vars
  <2> SUFFICES ASSUME TypeOK, [Next]_vars, NEW a \in Apps,
                      row'[a].id \notin {0, row[a].id}
               PROVE  row'[a].id = lastId + 1
    OBVIOUS
  <2>1. ASSUME NEW b \in Apps, NEW t \in Row, row' = Stored(b, t)
        PROVE  row'[a].id = row[a].id
    BY <2>1, StoredType DEF TypeOK
  <2>2. ASSUME NEW b \in Apps, NEW e \in BOOLEAN, Create(b, e)
        PROVE  row'[a].id = lastId + 1
    BY <2>2 DEF Create, TypeOK
  <2>3. ASSUME NEW b \in Apps, Delete(b)
        PROVE  row'[a].id \in {0, row[a].id}
    BY <2>3 DEF Delete, TypeOK, NoRow
  <2>4. QED
    BY <2>1, <2>2, <2>3, TableFrame
<1>2. QED
  BY <1>1, TypeCorrect, PTL DEF Spec, NoResurrection

-----------------------------------------------------------------------------
(***************************************************************************)
(* No refresh token is presented again once it was exchanged.  The file is *)
(* written as soon as GoBiz has answered, so that between two polls it has *)
(* the newest token; and where it has one, the row is not looked at.       *)
(***************************************************************************)

\* Where the poller has a session in hand that it may yet present or save.
Holding == {"session", "cache", "get", "save", "history"}

LEMMA UsedFrame ==
  ASSUME UsedInv, UNCHANGED files, at = "cache" => UNCHANGED <<at, app>>,
         at' \in Holding => at \in Holding /\ UNCHANGED <<app, client>>
  PROVE  UsedInv'
BY DEF UsedInv, Clear, files, Holding

LEMMA OverRefresh ==
  ASSUME NEW s \in Session, NEW t \in Session
  PROVE  Over(s, t).refresh = IF s.refresh # 0 THEN s.refresh ELSE t.refresh
BY DEF Over

\* Whatever the row has: a session that clears still does when it is completed.
LEMMA ClearOver ==
  ASSUME TypeOK, NEW a \in Apps, NEW s \in Session, NEW t \in Session,
         Clear(s, a)
  PROVE  Clear(Over(s, t), a)
BY OverRefresh DEF Clear

LEMMA UsedRefresh ==
  ASSUME TypeOK, UsedInv, NEW rotates \in BOOLEAN, Refresh(rotates)
  PROVE  UsedInv'
<1>1. /\ at = "session" /\ at' = "cache" /\ app' = app /\ cache' = cache
      /\ app \in Apps /\ client \in Session
      /\ used \in [Apps -> SUBSET (1..issued)] /\ issued \in Nat
      /\ client' = Exchanged(client, rotates)
  BY DEF Refresh, TypeOK
<1>2. client.refresh \in 1..issued
  BY ExchangeType DEF Refresh
<1>3. \A a \in Apps : a # app => Clear(cache[a], a)'
  BY <1>1 DEF UsedInv, Clear, Refresh
<1>4. Clear(client, app)'
  <2>1. CASE rotates
    <3>1. used'[app'] = used[app] \cup {client.refresh}
      BY <1>1, <2>1 DEF Refresh
    <3>2. client'.refresh = issued + 1
      BY <1>1, <2>1 DEF Exchanged
    <3>3. used[app] \subseteq 1..issued
      BY <1>1
    <3>4. QED
      BY <1>1, <1>2, <3>1, <3>2, <3>3 DEF Clear
  <2>2. CASE ~rotates
    <3>1. used' = used
      BY <2>2 DEF Refresh
    <3>2. client'.refresh = client.refresh
      BY <1>1, <2>2 DEF Exchanged
    <3>3. QED
      BY <1>1, <3>1, <3>2 DEF Clear, UsedInv
  <2>3. QED
    BY <2>1, <2>2
<1>5. QED
  BY <1>1, <1>3, <1>4 DEF UsedInv

LEMMA UsedStep == TypeOK /\ UsedInv /\ [Next]_vars => UsedInv'
<1> SUFFICES ASSUME TypeOK, UsedInv, [Next]_vars PROVE UsedInv'
  OBVIOUS
<1>1. CASE Poller
  <2>1. CASE \E a \in Apps : StartPoll(a)
    <3>1. PICK a \in Apps : StartPoll(a)
      BY <2>1
    <3>2. Clear(cache[a], a) /\ cache[a] \in Session /\ built[a] \in Session
      BY <3>1 DEF UsedInv, StartPoll, TypeOK
    <3>3. Over(cache[a], built[a]) \in Session /\ Clear(Over(cache[a], built[a]), a)
      BY <3>2, ClearOver, OverType
    <3>4. Clear(Loaded(NoSession, a), a)
      BY <3>3, NoSessionType, OverRefresh DEF Loaded, Clear, NoSession
    <3>5. QED
      BY <3>1, <3>4 DEF UsedInv, StartPoll, Clear, files
  <2>2. CASE \E rotates \in BOOLEAN : Refresh(rotates)
    BY <2>2, UsedRefresh
  <2>3. CASE SaveCache
    <3>1. Clear(client, app) /\ app \in Apps /\ app' = app /\ client' = client
      BY <2>3 DEF UsedInv, SaveCache, Goto, TypeOK
    <3>2. CASE cache' = [cache EXCEPT ![app] = client] /\ used' = used
      BY <2>3, <3>1, <3>2 DEF UsedInv, SaveCache, Goto, Clear, TypeOK
    <3>3. CASE /\ cache' \in {cache, [cache EXCEPT ![app] = NoSession]}
               /\ used' = [used EXCEPT ![app] = {}]
      BY <2>3, <3>1, <3>3 DEF UsedInv, SaveCache, Goto, Clear, TypeOK
    <3>4. QED
      BY <2>3, <3>2, <3>3 DEF SaveCache
  <2>4. CASE HistoryUnauthorized
    <3> DEFINE s == [client EXCEPT !.access = 0]
    <3>1. /\ Clear(client, app) /\ app \in Apps /\ client \in Session
          /\ cache[app] \in Session /\ built[app] \in Session
      BY <2>4 DEF UsedInv, HistoryUnauthorized, TypeOK
    <3>2. s \in Session /\ s.refresh = client.refresh
      BY <3>1, BoundsAssumption DEF Session
    <3>3. Clear(s, app)
      BY <3>1, <3>2 DEF Clear
    <3>4. Clear(Loaded(s, app), app)
      BY <3>1, <3>2, <3>3, ClearOver, OverType DEF Loaded
    <3>5. client' = Loaded(s, app) /\ app' = app /\ at = "history"
          /\ UNCHANGED files
      BY <2>4 DEF HistoryUnauthorized
    <3> HIDE DEF s
    <3>6. QED
      BY <3>4, <3>5 DEF UsedInv, Clear, files
  <2>5. CASE SessionValid \/ SessionGet \/ SessionSave \/ SessionNotSaved
    BY <2>5, UsedFrame DEF SessionValid, SessionGet, SessionSave,
       SessionNotSaved, Goto, Holding
  <2>6. CASE RefreshLost \/ SessionError \/ HistoryReturns \/ BlockSave
             \/ BlockNotSaved
    BY <2>6, UsedFrame DEF RefreshLost, SessionError, HistoryReturns, BlockSave,
       BlockNotSaved, EndPoll, Holding
  <2>7. CASE RefreshRefused \/ RefreshMissing \/ Block \/ BlockGet
    BY <2>7, UsedFrame DEF RefreshRefused, RefreshMissing, Strike, Block,
       BlockGet, Goto, Holding
  <2>8. CASE ListEnabled \/ SkipBlocked \/ EndTick
    BY <2>8, UsedFrame DEF ListEnabled, SkipBlocked, EndTick, Holding
  <2>9. QED
    BY <1>1, <2>1, <2>2, <2>3, <2>4, <2>5, <2>6, <2>7, <2>8 DEF Poller
<1>2. CASE \E c \in Admins : Serve(c)
  <2>1. UNCHANGED <<files, poller>>
    BY <1>2 DEF Serve, PatchLogin, PatchToken, PatchUpdate, Unblock,
       VerifyRefresh, VerifySave, VerifyLost, GiveUp
  <2>2. QED
    BY <2>1, UsedFrame DEF poller
<1>3. CASE Submit \/ \E t \in Tokens : Expire(t) \/ Revoke(t)
  <2>1. UNCHANGED <<files, poller>>
    BY <1>3 DEF Submit, Create, Delete, PatchGet, VerifyGet, Expire, Revoke
  <2>2. QED
    BY <2>1, UsedFrame DEF poller
<1>4. CASE Restart
  <2>1. CASE at = "cache"
    BY <1>4, <2>1 DEF UsedInv, Restart, Clear, TypeOK
  <2>2. CASE at # "cache"
    BY <1>4, <2>2, UsedFrame DEF Restart, Holding
  <2>3. QED
    BY <2>1, <2>2
<1>5. CASE UNCHANGED vars
  BY <1>5, UsedFrame DEF vars, poller
<1>6. QED
  BY <1>1, <1>2, <1>3, <1>4, <1>5 DEF Next

\* The polls of an app never present a refresh token that one of them exchanged
\* for another, whichever rows are written back meanwhile, unless a write of the
\* token file failed or was cut short since.
THEOREM UsedTokensStayUsed == Spec => []NeverPresentsUsed
<1>1. Init => UsedInv
  BY DEF Init, UsedInv, Clear
<1>2. UsedInv => NeverPresentsUsed
  BY DEF UsedInv, NeverPresentsUsed, Clear
<1>3. QED
  BY <1>1, <1>2, UsedStep, TypeCorrect, PTL DEF Spec

-----------------------------------------------------------------------------
(***************************************************************************)
(* The gate and the poller implement Lockout.                              *)
(***************************************************************************)

\* Steps that change neither who is polled nor who had a fatal failure.
LEMMA DoorStays ==
  ASSUME UNCHANGED <<app, strikes>>,
         \/ at' = at \/ app = NoApp
         \/ {at, at'} \cap {"block", "blockget", "blocksave"} = {}
         \/ {at, at'} \subseteq {"block", "blockget", "blocksave"}
  PROVE  UNCHANGED Door
BY NoAppAssumption DEF Door

\* A poll that ends before the session failed for good reopens the door; the
\* one that ends after it was locked, or unblocked, long before.
LEMMA DoorAtEnd ==
  ASSUME TypeOK, EndPoll, UNCHANGED strikes, app \in Apps
  PROVE  \/ Abstract!Finish(app, "open") \/ Abstract!Finish(app, "locked")
         \/ UNCHANGED Door
<1>1. app' = NoApp /\ strikes' = strikes
  BY DEF EndPoll
<1>2. CASE at \in {"block", "blockget", "blocksave"}
  BY <1>1, <1>2, NoAppAssumption DEF Door
<1>3. CASE at \notin {"block", "blockget", "blocksave"}
  <2>1. Door[app] = "polled"
    BY <1>3 DEF Door
  <2>2. Door' = [Door EXCEPT ![app] = IF strikes[app] # 0 THEN "locked"
                                                          ELSE "open"]
    BY <1>1, <1>3, NoAppAssumption DEF Door
  <2>3. QED
    BY <2>1, <2>2 DEF Abstract!Finish
<1>4. QED
  BY <1>2, <1>3

LEMMA DoorStep ==
  TypeOK /\ GateInv /\ [Next]_vars => [Abstract!Next]_Door
<1> SUFFICES ASSUME TypeOK, GateInv, [Next]_vars, ~ UNCHANGED Door
             PROVE  Abstract!Next
  OBVIOUS
<1>1. ~ UNCHANGED <<at, app, strikes>>
  BY DoorStays
<1>2. CASE Restart
  <2>1. Door' = [a \in Apps |-> "open"]
    BY <1>2, NoAppAssumption DEF Restart, Door
  <2>2. Abstract!Reopen(Apps)
    BY <2>1 DEF Abstract!Reopen
  <2>3. QED
    BY <2>2 DEF Abstract!Next
<1>3. ASSUME NEW c \in Admins, Unblock(c) PROVE Abstract!Next
  <2> DEFINE a == req[c].app
  <2>1. a \in Apps
    BY <1>3, RequestType DEF Unblock, TypeOK
  <2>2. UNCHANGED <<at, app>> /\ strikes' = [strikes EXCEPT ![a] = 0]
    BY <1>3 DEF Unblock, poller
  <2> HIDE DEF a
  <2>3. \A b \in Apps : strikes'[b] = IF b = a THEN 0 ELSE strikes[b]
    BY <2>2 DEF TypeOK
  <2>4. app # a \/ at \in {"block", "blockget", "blocksave"}
    <3> SUFFICES ASSUME app = a, at \notin {"block", "blockget", "blocksave"}
                 PROVE  UNCHANGED Door
      OBVIOUS
    <3>1. QED
      BY <2>2, <2>3 DEF Door
  <2>5. Door' = [b \in Apps |-> IF b \in {a} THEN "open" ELSE Door[b]]
    BY <2>1, <2>2, <2>3, <2>4 DEF Door
  <2>6. Abstract!Reopen({a})
    BY <2>5 DEF Abstract!Reopen
  <2>7. QED
    BY <2>1, <2>6 DEF Abstract!Next
<1>4. ASSUME NEW a \in Apps, StartPoll(a) PROVE Abstract!Next
  <2>1. app = NoApp /\ a \notin gate /\ at = "next"
    BY <1>4 DEF StartPoll, TypeOK, GateInv, Due
  <2>2. strikes[a] = 0
    BY <2>1 DEF GateInv
  <2>3. Door = [b \in Apps |-> IF strikes[b] # 0 THEN "locked" ELSE "open"]
    BY <2>1, NoAppAssumption DEF Door
  <2>4. app' = a /\ at' = "session" /\ strikes' = strikes
    BY <1>4 DEF StartPoll
  <2>5. Door' = [Door EXCEPT ![a] = "polled"]
    BY <2>3, <2>4 DEF Door
  <2>6. Abstract!Poll(a)
    BY <2>2, <2>3, <2>5 DEF Abstract!Poll
  <2>7. QED
    BY <2>6 DEF Abstract!Next
<1>5. CASE Strike
  <2>1. app \in Apps /\ at = "session"
    BY <1>5 DEF Strike, TypeOK
  <2>2. app' = app /\ at' = "block" /\ strikes' = [strikes EXCEPT ![app] = @ + 1]
    BY <1>5 DEF Strike, Goto
  <2>3. Door[app] = "polled"
    BY <2>1 DEF Door
  <2>4. Door' = [Door EXCEPT ![app] = "locked"]
    <3>1. strikes'[app] = strikes[app] + 1 /\ strikes[app] \in Nat
      BY <2>1, <2>2 DEF TypeOK
    <3>2. \A a \in Apps : a # app => strikes'[a] = strikes[a]
      BY <2>2 DEF TypeOK
    <3>3. strikes'[app] # 0
      BY <3>1
    <3>4. Door = [a \in Apps |-> IF a = app THEN "polled" ELSE
                                IF strikes[a] # 0 THEN "locked" ELSE "open"]
      BY <2>1 DEF Door
    <3>5. Door' = [a \in Apps |-> IF strikes'[a] # 0 THEN "locked" ELSE "open"]
      BY <2>2 DEF Door
    <3>6. QED
      BY <3>2, <3>3, <3>4, <3>5
  <2>5. Abstract!Finish(app, "locked")
    BY <2>3, <2>4 DEF Abstract!Finish
  <2>6. QED
    BY <2>1, <2>5 DEF Abstract!Next, Abstract!Doors
<1>6. ASSUME EndPoll, UNCHANGED strikes, at \notin {"idle", "listed", "next"}
      PROVE  Abstract!Next
  <2>1. app \in Apps
    BY <1>6 DEF TypeOK
  <2>2. Abstract!Finish(app, "open") \/ Abstract!Finish(app, "locked")
    BY <1>6, <2>1, DoorAtEnd
  <2>3. QED
    BY <2>1, <2>2 DEF Abstract!Next, Abstract!Doors
<1>7. ASSUME RefreshLost \/ SessionError \/ HistoryReturns \/ BlockSave
             \/ BlockNotSaved
      PROVE  Abstract!Next
  BY <1>6, <1>7 DEF RefreshLost, SessionError, HistoryReturns, BlockSave,
     BlockNotSaved
<1>8. ~ (ListEnabled \/ SkipBlocked \/ EndTick)
  BY DoorStays DEF ListEnabled, SkipBlocked, EndTick, TypeOK
<1>9. ~ (SessionValid \/ (\E b \in BOOLEAN : Refresh(b)) \/ SaveCache \/ SessionGet \/ SessionSave
         \/ SessionNotSaved \/ HistoryUnauthorized)
  BY DoorStays DEF SessionValid, Refresh, SaveCache, SessionGet, SessionSave,
     SessionNotSaved, HistoryUnauthorized, Goto
<1>10. ~ (Block \/ BlockGet)
  BY DoorStays DEF Block, BlockGet, Goto
<1>11. QED
  BY <1>1, <1>2, <1>3, <1>4, <1>5, <1>7, <1>8, <1>9, <1>10, GateFrame
     DEF Poller, RefreshRefused, RefreshMissing

\* The poller, the gate and the requests beside them implement Lockout: from a
\* fatal failure on (source.go 148-156) no poll of the app begins before
\* Unblock (service.go 223-227) or a restart, however the row is written.
THEOREM TenantsImplementLockout == Spec => ImplementsLockout
<1>1. Init => Abstract!Init
  BY NoAppAssumption DEF Init, Abstract!Init, Door
<1>2. QED
  BY <1>1, DoorStep, TypeCorrect, GateInvariant, PTL
     DEF Spec, ImplementsLockout, Abstract!Spec

-----------------------------------------------------------------------------
(***************************************************************************)
(* Tenants are enabled on request only.                                    *)
(***************************************************************************)

\* To write t back enables the tenant of a only if a request asked for it.  (A
\* tenant created since the row was read has a greater id: no effect.)
Harmless(a, t) ==
  /\ t.id <= lastId
  /\ t.enabled /\ t.id # 0 /\ t.id = row[a].id => a \in wanted

\* The inductive invariant behind EnabledOnRequest: the table, the row in the
\* poller's hands, and those in the requests', but for the ones that enable.
WantedInv ==
  /\ EnabledOnRequest
  /\ \A a \in Apps : row[a].id <= lastId
  /\ IF app = NoApp THEN snap = NoRow ELSE Harmless(app, snap)
  /\ \A c \in Admins : req[c].at # "idle" =>
       /\ req[c].snap.id <= lastId
       /\ req[c].enabled = "on" => req[c].at \notin {"verify", "vsave"}
       /\ req[c].enabled # "on" => Harmless(req[c].app, req[c].snap)

\* A write leaves every tenant its id; only Create and Delete do not, and
\* nothing but Delete forgets what was asked.
LEMMA IdFrame ==
  ASSUME TypeOK, [Next]_vars
  PROVE  \/ \E a \in Apps, e \in BOOLEAN : Create(a, e)
         \/ \E a \in Apps : Delete(a)
         \/ /\ lastId' = lastId /\ wanted \subseteq wanted'
            /\ \A a \in Apps : row'[a].id = row[a].id
<1> USE DEF table, asked
<1>1. Poller => UNCHANGED <<lastId, wanted>>
  BY DEF Poller, ListEnabled, SkipBlocked, EndTick, StartPoll, SessionValid,
     Refresh, RefreshLost, SessionError, RefreshRefused, RefreshMissing, Strike,
     SaveCache, SessionGet,
     SessionSave, SessionNotSaved, HistoryReturns, HistoryUnauthorized, Block,
     BlockGet, BlockSave, BlockNotSaved
<1>2. ASSUME NEW c \in Admins, Serve(c)
      PROVE  lastId' = lastId /\ wanted \subseteq wanted'
  BY <1>2 DEF Serve, PatchLogin, PatchUpdate, Unblock, PatchToken,
     VerifyRefresh, VerifySave, VerifyLost, GiveUp
<1>3. ASSUME NEW c \in Admins, NEW a \in Apps,
             NEW e \in {"keep", "on", "off"}, NEW k \in BOOLEAN,
             PatchGet(c, a, e, k) \/ VerifyGet(c, a)
      PROVE  UNCHANGED <<lastId, wanted>>
  BY <1>3 DEF PatchGet, VerifyGet
<1>4. \/ \E a \in Apps, e \in BOOLEAN : Create(a, e)
      \/ \E a \in Apps : Delete(a)
      \/ lastId' = lastId /\ wanted \subseteq wanted'
  BY <1>1, <1>2, <1>3 DEF Next, Submit, Expire, Revoke, Restart, vars
<1>5. ASSUME NEW a \in Apps, NEW t \in Row, row' = Stored(a, t)
      PROVE  \A b \in Apps : row'[b].id = row[b].id
  BY <1>5, StoredType DEF TypeOK
<1>6. QED
  BY <1>4, <1>5, TableFrame

\* What is harmless to write stays so: ids only grow.
LEMMA HarmlessStays ==
  ASSUME TypeOK, [Next]_vars, \A a \in Apps : row[a].id <= lastId,
         NEW a \in Apps, NEW t \in Row
  PROVE  /\ t.id <= lastId => t.id <= lastId'
         /\ Harmless(a, t) => /\ t.id <= lastId'
                              /\ t.enabled /\ t.id # 0 /\ t.id = row'[a].id
                                   => a \in wanted'
<1> USE DEF TypeOK, Harmless
<1>1. t.id \in Nat /\ lastId \in Nat
  BY RowType, BoundsAssumption
<1>2. ASSUME NEW b \in Apps, NEW e \in BOOLEAN, Create(b, e)
      PROVE  /\ lastId' = lastId + 1 /\ wanted \subseteq wanted'
             /\ row'[a].id = IF a = b THEN lastId + 1 ELSE row[a].id
  BY <1>2 DEF Create
<1>3. ASSUME NEW b \in Apps, Delete(b)
      PROVE  /\ lastId' = lastId /\ wanted' = wanted \ {b}
             /\ row'[a].id = IF a = b THEN 0 ELSE row[a].id
  BY <1>3 DEF Delete, NoRow
<1>4. QED
  BY <1>1, <1>2, <1>3, IdFrame

LEMMA WantedRows ==
  TypeOK /\ WantedInv /\ [Next]_vars =>
    /\ EnabledOnRequest'
    /\ (\A a \in Apps : row[a].id <= lastId)'
<1> SUFFICES ASSUME TypeOK, WantedInv, [Next]_vars, NEW a \in Apps
             PROVE  (row'[a].enabled => a \in wanted') /\ row'[a].id <= lastId'
  BY DEF EnabledOnRequest
<1>1. /\ row[a].id <= lastId /\ (row[a].enabled => a \in wanted)
      /\ lastId \in Nat /\ row \in [Apps -> Row]
  BY BoundsAssumption DEF WantedInv, EnabledOnRequest, TypeOK
<1>2. ASSUME NEW b \in Apps, NEW e \in BOOLEAN, Create(b, e)
      PROVE  (row'[a].enabled => a \in wanted') /\ row'[a].id <= lastId'
  <2>1. lastId' = lastId + 1 /\ wanted \subseteq wanted' /\ (e => b \in wanted')
    BY <1>2 DEF Create
  <2>2. a # b => row'[a] = row[a]
    BY <1>1, <1>2 DEF Create
  <2>3. a = b => row'[a].id = lastId + 1 /\ row'[a].enabled = e
    BY <1>1, <1>2 DEF Create
  <2>4. CASE a = b
    BY <2>1, <2>3, <2>4, <1>1
  <2>5. CASE a # b
    <3>1. row[a].id \in Nat
      BY RowType, BoundsAssumption DEF TypeOK
    <3>2. QED
      BY <2>1, <2>2, <2>5, <3>1, <1>1
  <2>6. QED
    BY <2>4, <2>5
<1>3. ASSUME NEW b \in Apps, Delete(b)
      PROVE  (row'[a].enabled => a \in wanted') /\ row'[a].id <= lastId'
  BY <1>1, <1>3 DEF Delete, NoRow
<1>4. ASSUME NEW b \in Apps, NEW t \in Row, row' = Stored(b, t), row'[a] # row[a]
      PROVE  row'[a] = t /\ a = b /\ t.id # 0 /\ t.id = row[a].id
  BY <1>1, <1>4 DEF Stored
<1>5. CASE SessionSave \/ BlockSave
  <2>1. /\ app \in Apps /\ app # NoApp /\ snap \in Row /\ row' = Stored(app, snap)
        /\ lastId' = lastId /\ wanted' = wanted
    BY <1>5, NoAppAssumption DEF SessionSave, BlockSave, TypeOK, asked
  <2>2. Harmless(app, snap)
    BY <2>1 DEF WantedInv
  <2>3. row'[a] # row[a] => /\ row'[a] = snap /\ a = app /\ snap.id # 0
                            /\ snap.id = row[a].id
    BY <1>4, <2>1
  <2>4. QED
    BY <1>1, <2>1, <2>2, <2>3 DEF Harmless
<1>6. ASSUME NEW c \in Admins, PatchUpdate(c) \/ VerifySave(c)
      PROVE  (row'[a].enabled => a \in wanted') /\ row'[a].id <= lastId'
  <2> DEFINE r == req[c]
  <2>1. r \in Request /\ r.at \in {"update", "vsave"}
    BY <1>6 DEF PatchUpdate, VerifySave, TypeOK
  <2>2. r.app \in Apps /\ r.snap \in Row
    BY <2>1, RequestType
  <2>3. /\ row' = Stored(r.app, r.snap) /\ lastId' = lastId
        /\ wanted \subseteq wanted'
        /\ r.at = "update" /\ r.enabled = "on" /\ row[r.app].id = r.snap.id
             => r.app \in wanted'
    BY <1>6 DEF PatchUpdate, VerifySave, asked
  <2>4. /\ r.enabled = "on" => r.at = "update"
        /\ r.enabled # "on" => Harmless(r.app, r.snap)
    BY <2>1 DEF WantedInv
  <2> HIDE DEF r
  <2>5. row'[a] # row[a] => /\ row'[a] = r.snap /\ a = r.app /\ r.snap.id # 0
                            /\ r.snap.id = row[a].id
    BY <1>4, <2>2, <2>3
  <2>6. CASE r.enabled = "on"
    BY <1>1, <2>3, <2>4, <2>5, <2>6
  <2>7. CASE r.enabled # "on"
    BY <1>1, <2>3, <2>4, <2>5, <2>7 DEF Harmless
  <2>8. QED
    BY <2>6, <2>7
<1>7. CASE UNCHANGED row
  BY <1>1, <1>2, <1>3, <1>7, IdFrame
<1>8. QED
  BY <1>2, <1>3, <1>5, <1>6, <1>7, RowWriters

LEMMA WantedPoller ==
  TypeOK /\ WantedInv /\ [Next]_vars =>
    (IF app = NoApp THEN snap = NoRow ELSE Harmless(app, snap))'
<1> DEFINE Held == IF app = NoApp THEN snap = NoRow ELSE Harmless(app, snap)
<1> SUFFICES ASSUME TypeOK, WantedInv, [Next]_vars PROVE Held'
  OBVIOUS
<1>1. /\ Held /\ lastId \in Nat /\ snap \in Row
      /\ app = NoApp \/ app \in Apps
      /\ \A a \in Apps : /\ row[a] \in Row /\ row[a].id <= lastId
                         /\ row[a].enabled => a \in wanted
  BY BoundsAssumption DEF WantedInv, EnabledOnRequest, TypeOK
<1>2. CASE UNCHANGED <<app, snap>>
  <2>1. CASE app = NoApp
    BY <1>1, <1>2, <2>1
  <2>2. CASE app # NoApp
    <3>1. Harmless(app, snap) /\ app \in Apps
      BY <1>1, <2>2
    <3>2. /\ snap.id <= lastId'
          /\ snap.enabled /\ snap.id # 0 /\ snap.id = row'[app].id
               => app \in wanted'
      BY <1>1, <3>1, HarmlessStays
    <3>3. QED
      BY <1>2, <2>2, <3>2 DEF Harmless
  <2>3. QED
    BY <2>1, <2>2
<1>3. CASE EndPoll \/ Restart
  BY <1>3 DEF EndPoll, Restart
<1>4. ASSUME NEW a \in Apps, StartPoll(a) PROVE Held'
  <2>1. app = NoApp /\ app' = a /\ snap' = snap /\ lastId' = lastId
    BY <1>4 DEF StartPoll, TypeOK, table
  <2>2. snap = NoRow
    BY <1>1, <2>1
  <2>3. QED
    BY <1>1, <2>1, <2>2, NoAppAssumption DEF Harmless, NoRow
<1>5. CASE SessionGet \/ BlockGet
  <2>1. /\ app \in Apps /\ app' = app /\ UNCHANGED <<row, lastId, wanted>>
        /\ \/ snap' = [row[app] EXCEPT !.session = Over(client, @)]
           \/ snap' = [row[app] EXCEPT !.enabled = FALSE]
    BY <1>5 DEF SessionGet, BlockGet, TypeOK, table, asked
  <2>2. snap'.id = row[app].id /\ (snap'.enabled => row[app].enabled)
    BY <1>1, <2>1 DEF Row
  <2>3. QED
    BY <1>1, <2>1, <2>2, NoAppAssumption DEF Harmless
<1>6. ASSUME Poller, ~SessionGet, ~BlockGet, \A a \in Apps : ~StartPoll(a)
      PROVE  EndPoll \/ UNCHANGED <<app, snap>>
  BY <1>6 DEF Poller, ListEnabled, SkipBlocked, EndTick, SessionValid, Refresh,
     RefreshLost, SessionError, RefreshRefused, RefreshMissing, Strike,
     SaveCache, SessionSave,
     SessionNotSaved, HistoryReturns, HistoryUnauthorized, Block, BlockSave,
     BlockNotSaved, Goto
<1>7. ASSUME NEW c \in Admins, Serve(c) PROVE UNCHANGED <<app, snap>>
  BY <1>7 DEF Serve, PatchLogin, PatchUpdate, Unblock, PatchToken,
     VerifyRefresh, VerifySave, VerifyLost, GiveUp, poller
<1>8. Submit => UNCHANGED <<app, snap>>
  BY DEF Submit, Create, Delete, PatchGet, VerifyGet, poller
<1>9. QED
  BY <1>2, <1>3, <1>4, <1>5, <1>6, <1>7, <1>8 DEF Next, Expire, Revoke, vars, poller

\* A request that serves c leaves the others alone.
LEMMA RequestFrame ==
  ASSUME TypeOK, [Next]_vars, NEW c \in Admins, req'[c] # req[c],
         req'[c].at # "idle"
  PROVE  \/ PatchLogin(c) \/ PatchUpdate(c)
         \/ \E b \in BOOLEAN : VerifyRefresh(c, b)
         \/ \E t \in Tokens : PatchToken(c, t)
         \/ \E a \in Apps, e \in {"keep", "on", "off"}, k \in BOOLEAN :
              PatchGet(c, a, e, k)
         \/ \E a \in Apps : VerifyGet(c, a)
<1> USE DEF TypeOK
<1>1. ASSUME NEW d \in Admins, Serve(d), d # c PROVE req'[c] = req[c]
  BY <1>1 DEF Serve, PatchLogin, PatchUpdate, Unblock, PatchToken,
     VerifyRefresh, VerifySave, VerifyLost, GiveUp
<1>2. Serve(c) => PatchLogin(c) \/ PatchUpdate(c)
                  \/ \E b \in BOOLEAN : VerifyRefresh(c, b)
                  \/ \E t \in Tokens : PatchToken(c, t)
  BY DEF Serve, Unblock, VerifySave, VerifyLost, GiveUp, Idle
<1>3. ASSUME NEW d \in Admins, NEW a \in Apps,
             NEW e \in {"keep", "on", "off"}, NEW k \in BOOLEAN,
             PatchGet(d, a, e, k) \/ VerifyGet(d, a), d # c
      PROVE  req'[c] = req[c]
  BY <1>3 DEF PatchGet, VerifyGet
<1>4. ASSUME NEW a \in Apps, NEW e \in BOOLEAN, Create(a, e) \/ Delete(a)
      PROVE  req' = req
  BY <1>4 DEF Create, Delete
<1>5. Poller => req' = req
  BY DEF Poller, ListEnabled, SkipBlocked, EndTick, StartPoll, SessionValid,
     Refresh, RefreshLost, SessionError, RefreshRefused, RefreshMissing, Strike,
     SaveCache, SessionGet,
     SessionSave, SessionNotSaved, HistoryReturns, HistoryUnauthorized, Block,
     BlockGet, BlockSave, BlockNotSaved
<1>6. ~Restart /\ \A t \in Tokens : ~Expire(t) /\ ~Revoke(t)
  BY DEF Restart, Expire, Revoke, Idle
<1>7. QED
  BY <1>1, <1>2, <1>3, <1>4, <1>5, <1>6 DEF Next, Submit, vars

\* A request gets to the row it will write in one of two ways: it keeps the one
\* it has, but for the session, or it reads one, and does not enable it.
LEMMA RequestRows ==
  ASSUME TypeOK, WantedInv, [Next]_vars, NEW c \in Admins,
         req'[c].at # "idle"
  PROVE  /\ req'[c].enabled = "on" => req'[c].at \notin {"verify", "vsave"}
         /\ \/ /\ req[c].at # "idle"
               /\ req'[c].app = req[c].app /\ req'[c].enabled = req[c].enabled
               /\ req'[c].snap.id = req[c].snap.id
               /\ req'[c].snap.enabled = req[c].snap.enabled
            \/ /\ UNCHANGED <<row, lastId, wanted>>
               /\ req'[c].app \in Apps
               /\ req'[c].snap.id = row[req'[c].app].id
               /\ req'[c].enabled # "on" /\ req'[c].snap.enabled
                    => row[req'[c].app].enabled
<1> USE DEF table, asked
<1>1. CASE req'[c] = req[c]
  BY <1>1 DEF WantedInv
<1>2. req[c] \in Request
  BY DEF TypeOK
<1>3. ASSUME PatchLogin(c) \/ \E t \in Tokens : PatchToken(c, t)
      PROVE  /\ req[c].at # "idle"
             /\ \E t : req'[c] = Moved(req[c], "update", t)
  BY <1>3 DEF TypeOK, PatchLogin, PatchToken, Moved
<1>4. ASSUME PatchUpdate(c)
      PROVE  /\ req[c].at # "idle"
             /\ req'[c].at = "unblock" /\ req'[c].snap = req[c].snap
             /\ req'[c].app = req[c].app /\ req'[c].enabled = req[c].enabled
  <2>1. req[c].at # "idle" /\ req'[c] = [req[c] EXCEPT !.at = "unblock"]
    BY <1>4 DEF TypeOK, PatchUpdate, Idle
  <2>2. req[c] \in [at : {"login", "update", "unblock", "verify", "vsave"},
                    app : Apps, enabled : {"keep", "on", "off"},
                    creds : BOOLEAN, snap : Row]
    BY <2>1, <1>2 DEF Request, Idle
  <2>3. QED
    BY <2>1, <2>2
<1>5. ASSUME NEW b \in BOOLEAN, VerifyRefresh(c, b)
      PROVE  /\ req[c].at = "verify"
             /\ \E t : req'[c] = Moved(req[c], "vsave", t)
  BY <1>5 DEF TypeOK, VerifyRefresh, Moved
<1>6. ASSUME NEW a \in Apps, NEW e \in {"keep", "on", "off"}, NEW k \in BOOLEAN,
             PatchGet(c, a, e, k)
      PROVE  /\ UNCHANGED <<row, lastId, wanted>>
             /\ req'[c].at \in {"login", "update"}
             /\ req'[c].app = a /\ req'[c].enabled = e
             /\ req'[c].snap.id = row[a].id
             /\ e # "on" /\ req'[c].snap.enabled => row[a].enabled
  <2>1. /\ UNCHANGED <<row, lastId, wanted>>
        /\ req'[c] = [at |-> IF k THEN "login" ELSE "update", app |-> a,
                      enabled |-> e, creds |-> k, snap |-> Patched(row[a], e, k)]
    BY <1>6 DEF TypeOK, PatchGet
  <2>2. /\ Patched(row[a], e, k).id = row[a].id
        /\ e # "on" /\ Patched(row[a], e, k).enabled => row[a].enabled
    <3>1. row[a] \in Row
      BY DEF TypeOK
    <3>2. QED
      BY <3>1 DEF Patched, Row
  <2>3. QED
    BY <2>1, <2>2
<1>7. ASSUME NEW a \in Apps, VerifyGet(c, a)
      PROVE  /\ UNCHANGED <<row, lastId, wanted>>
             /\ req'[c].app = a /\ req'[c].enabled # "on"
             /\ req'[c].snap = row[a]
  BY <1>7 DEF TypeOK, VerifyGet, Idle
<1>8. CASE req'[c] # req[c]
  <2>1. CASE PatchLogin(c) \/ \E t \in Tokens : PatchToken(c, t)
    <3>1. PICK t : req'[c] = Moved(req[c], "update", t)
      BY <2>1, <1>3
    <3>2. /\ req[c].at # "idle" /\ req'[c].at = "update"
          /\ req'[c].app = req[c].app /\ req'[c].enabled = req[c].enabled
          /\ req'[c].snap.id = req[c].snap.id
          /\ req'[c].snap.enabled = req[c].snap.enabled
      BY <2>1, <3>1, <1>2, <1>3, RequestKept
    <3>3. QED
      BY <3>2
  <2>2. CASE PatchUpdate(c)
    BY <2>2, <1>4
  <2>3. CASE \E b \in BOOLEAN : VerifyRefresh(c, b)
    <3>1. PICK t : req'[c] = Moved(req[c], "vsave", t)
      BY <2>3, <1>5
    <3>2. req[c].enabled # "on"
      BY <2>3, <1>5 DEF WantedInv
    <3>3. /\ req[c].at # "idle" /\ req'[c].at = "vsave"
          /\ req'[c].app = req[c].app /\ req'[c].enabled = req[c].enabled
          /\ req'[c].snap.id = req[c].snap.id
          /\ req'[c].snap.enabled = req[c].snap.enabled
      BY <2>3, <3>1, <1>2, <1>5, RequestKept
    <3>4. QED
      BY <3>2, <3>3
  <2>4. CASE \E a \in Apps, e \in {"keep", "on", "off"}, k \in BOOLEAN :
               PatchGet(c, a, e, k)
    BY <2>4, <1>6
  <2>5. CASE \E a \in Apps : VerifyGet(c, a)
    BY <2>5, <1>7
  <2>6. QED
    BY <1>8, <2>1, <2>2, <2>3, <2>4, <2>5, RequestFrame
<1>9. QED
  BY <1>1, <1>8

LEMMA WantedStep == TypeOK /\ WantedInv /\ [Next]_vars => WantedInv'
<1> SUFFICES ASSUME TypeOK, WantedInv, [Next]_vars, TypeOK' PROVE WantedInv'
  BY TypeStep
<1>1. ASSUME NEW c \in Admins, req'[c].at # "idle"
      PROVE  /\ req'[c].snap.id <= lastId'
             /\ req'[c].enabled = "on" => req'[c].at \notin {"verify", "vsave"}
             /\ req'[c].enabled # "on" => Harmless(req[c].app, req[c].snap)'
  <2>1. /\ req'[c].enabled = "on" => req'[c].at \notin {"verify", "vsave"}
    BY <1>1, RequestRows
  <2>2. ASSUME req[c].at # "idle",
               req'[c].app = req[c].app, req'[c].enabled = req[c].enabled,
               req'[c].snap.id = req[c].snap.id,
               req'[c].snap.enabled = req[c].snap.enabled
        PROVE  /\ req'[c].snap.id <= lastId'
               /\ req'[c].enabled # "on" => Harmless(req[c].app, req[c].snap)'
    <3> DEFINE a == req[c].app
               t == req[c].snap
    <3>1. a \in Apps /\ t \in Row
      BY <2>2, RequestType DEF TypeOK
    <3>2. /\ t.id <= lastId /\ (req[c].enabled # "on" => Harmless(a, t))
          /\ \A b \in Apps : row[b].id <= lastId
      BY <2>2 DEF WantedInv
    <3> HIDE DEF a, t
    <3>3. /\ t.id <= lastId'
          /\ req[c].enabled # "on" /\ t.enabled /\ t.id # 0 /\ t.id = row'[a].id
               => a \in wanted'
      BY <3>1, <3>2, HarmlessStays
    <3>4. QED
      BY <2>2, <3>3 DEF Harmless, a, t
  <2>3. ASSUME UNCHANGED <<row, lastId, wanted>>, req'[c].app \in Apps,
               req'[c].snap.id = row[req'[c].app].id,
               req'[c].enabled # "on" /\ req'[c].snap.enabled
                 => row[req'[c].app].enabled
        PROVE  /\ req'[c].snap.id <= lastId'
               /\ req'[c].enabled # "on" => Harmless(req[c].app, req[c].snap)'
    BY <2>3 DEF WantedInv, EnabledOnRequest, Harmless
  <2>4. QED
    BY <1>1, <2>1, <2>2, <2>3, RequestRows
<1>2. QED
  BY <1>1, WantedRows, WantedPoller DEF WantedInv

\* A tenant is enabled only if a request asked for it since it was created,
\* whatever rows the poller and the requests hold and write back.
THEOREM EnabledOnlyOnRequest == Spec => []EnabledOnRequest
<1>1. Init => WantedInv
  BY DEF Init, WantedInv, EnabledOnRequest, NoRow, Idle
<1>2. WantedInv => EnabledOnRequest
  BY DEF WantedInv
<1>3. QED
  BY <1>1, <1>2, WantedStep, TypeCorrect, PTL DEF Spec
=============================================================================
