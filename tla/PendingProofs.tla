---------------------------- MODULE PendingProofs ----------------------------
(***************************************************************************)
(* Proofs about PendingSessions, for any sets of clients, emails,          *)
(* passwords and apps, any Minute and any bounds.                          *)
(***************************************************************************)
EXTENDS PendingSessions, TLAPS

USE DEF Keys, Sessions, ghosts

-----------------------------------------------------------------------------
(***************************************************************************)
(* The inductive invariant                                                 *)
(***************************************************************************)

\* What a save must bring to be given session s.
Credentials(s) == <<owner[s], Right[owner[s]]>>

\* A request under way has its inputs, and a session it holds is one that
\* these inputs are good for.
Handed ==
  \A c \in Clients :
    /\ req[c].pc # "idle" => req[c].email \in Emails /\ req[c].password \in Passwords
    /\ req[c].pc \in {"login", "clear", "store"} => req[c].app \in Apps
    /\ Holds(c) => req[c].sess \in 1..issued /\ KeyOf(c) = Credentials(req[c].sess)

\* An entry is under the credentials of its session, for a minute.
Kept ==
  \A k \in Keys : pending[k].sess # 0 =>
    /\ pending[k].sess \in 1..issued /\ k = Credentials(pending[k].sess)
    /\ pending[k].expires = putAt[pending[k].sess] + Minute

RowOwned ==
  \A a \in Apps : row[a] # NoRow =>
    row[a].sess \in 1..issued /\ Norm[row[a].email] = owner[row[a].sess]

PromisedKey ==
  \A k \in Keys : promised[k] # 0 =>
    promised[k] \in 1..issued /\ k = Credentials(promised[k])

Unissued == \A s \in Sessions : s > issued => saves[s] = 0

Basic == TypeOK /\ Handed /\ Kept /\ RowOwned /\ PromisedKey /\ Unissued

\* Who is about to clear a key has taken what was promised there, or lost a
\* race.
Taken ==
  \A c \in Clients :
    req[c].pc = "clear" /\ KeyOf(c) \notin raced => promised[KeyOf(c)] = 0

\* Session s is pending (and at most one request is about to clear it), in one
\* request's hands, or in one row.
InOneHand(s) ==
  /\ \A c, d \in Clients :
       Holds(c) /\ Holds(d) /\ req[c].sess = s /\ req[d].sess = s => c = d
  /\ saves[s] <= 1
  /\ saves[s] = 1 => /\ \A c \in Clients : Holds(c) => req[c].sess # s
                     /\ \A k \in Keys : pending[k].sess # s
  /\ \A c \in Clients : req[c].pc \in {"put", "store"} /\ req[c].sess = s
       => \A k \in Keys : pending[k].sess # s

Sole == \A s \in 1..issued : Credentials(s) \notin raced => InOneHand(s)

IInv == Basic /\ WindowKept /\ Taken /\ Sole

-----------------------------------------------------------------------------
(***************************************************************************)
(* Lemmas                                                                  *)
(***************************************************************************)

\* pendingKey makes a key of the store.
LEMMA KeyInKeys ==
  ASSUME NEW e \in Emails, NEW p \in Passwords
  PROVE  Key(e, p) \in Keys /\ Norm[e] \in Accounts
  BY AccountsAssumption DEF Key, Accounts

\* gcLocked leaves what has not expired and deletes the rest.
LEMMA GcEntry ==
  ASSUME TypeOK
  PROVE  /\ Gc \in [Keys -> Entries]
         /\ \A k \in Keys :
              /\ Gc[k].sess # 0 => Gc[k] = pending[k] /\ now <= pending[k].expires
              /\ now <= pending[k].expires => Gc[k] = pending[k]
  BY BoundsAssumption DEF TypeOK, Entries, Gc, NoEntry

\* A held session was issued, and to the account of the request's inputs.
LEMMA Holding ==
  ASSUME Basic, NEW c \in Clients, Holds(c)
  PROVE  /\ req[c].sess \in 1..issued /\ req[c].sess \in Sessions
         /\ KeyOf(c) \in Keys /\ KeyOf(c) = Credentials(req[c].sess)
         /\ req[c].email \in Emails
<1>1. req[c].email \in Emails /\ req[c].password \in Passwords
  BY DEF Basic, Handed, Holds
<1>2. req[c].sess \in 1..issued /\ KeyOf(c) = Credentials(req[c].sess)
  BY DEF Basic, Handed
<1> QED
  BY <1>1, <1>2, KeyInKeys, BoundsAssumption DEF Basic, TypeOK, KeyOf

-----------------------------------------------------------------------------
\* The store of a new process is empty, and GoBiz has issued nothing.
LEMMA BasicInitially == Init => Basic
<1> SUFFICES ASSUME Init PROVE Basic
  OBVIOUS
<1>1. (CHOOSE a \in Accounts : TRUE) \in Accounts
  BY AccountsAssumption DEF Accounts
<1>2. TypeOK
  BY <1>1, BoundsAssumption DEF Init, TypeOK, Requests, Entries, Idle, NoEntry
<1> QED
  BY <1>2 DEF Init, Basic, Handed, Kept, RowOwned, PromisedKey, Unissued,
     Holds, Idle, NoEntry

\* Sessions stay with the account they were issued to, whatever a step of the
\* store (pending.go) or of a request (service.go 272-344) does.
LEMMA BasicKept == Basic /\ [Next]_vars => Basic'
<1> SUFFICES ASSUME Basic, [Next]_vars PROVE Basic'
  OBVIOUS
<1>1. ASSUME NEW c \in Clients, NEW e \in Emails, NEW p \in Passwords, Verify(c, e, p)
     PROVE  Basic'
  <2>0. TypeOK
    BY DEF Basic
  <2>1. TypeOK'
    <3>1. issued + 1 \in Sessions /\ issued + 1 \in 0..MaxSessions
      BY <1>1, <2>0, BoundsAssumption DEF Verify, TypeOK
    <3>2. req' \in [Clients -> Requests]
      BY <1>1, <2>0, <3>1 DEF Verify, TypeOK, Requests, Idle
    <3>3. Norm[e] \in Accounts
      BY KeyInKeys
    <3> QED
      BY <1>1, <2>0, <3>1, <3>2, <3>3 DEF Verify, TypeOK
  <2>2. Handed'
    BY <1>1, <2>0, BoundsAssumption DEF Verify, Basic, TypeOK, Handed,
       Holds, KeyOf, Key, Credentials
  <2>3. Kept'
    BY <1>1, <2>0 DEF Verify, Basic, TypeOK, Kept, Handed, Credentials, RaceOn
  <2>4. RowOwned'
    BY <1>1, <2>0 DEF Verify, Basic, TypeOK, RowOwned
  <2>5. PromisedKey'
    BY <1>1, <2>0 DEF Verify, Basic, TypeOK, PromisedKey, Credentials
  <2>6. Unissued'
    BY <1>1, <2>0 DEF Verify, Basic, TypeOK, Unissued
  <2> QED
    BY <2>1, <2>2, <2>3, <2>4, <2>5, <2>6 DEF Basic
<1>2. ASSUME NEW c \in Clients, Put(c)
     PROVE  Basic'
  <2>0. TypeOK
    BY DEF Basic
  <2>h. Holds(c)
    BY <1>2 DEF Put, Holds
  <2>g. /\ req[c].sess \in 1..issued /\ req[c].sess \in Sessions
        /\ KeyOf(c) \in Keys /\ KeyOf(c) = Credentials(req[c].sess)
    BY <2>h, Holding
  <2>1. TypeOK'
    <3>1. req' \in [Clients -> Requests]
      BY <1>2, <2>0, BoundsAssumption DEF Put, TypeOK, Requests, Idle, Sessions
    <3>2. [sess |-> req[c].sess, expires |-> now + Minute] \in Entries
      BY <2>0, <2>g, BoundsAssumption DEF TypeOK, Entries
    <3>3. pending' \in [Keys -> Entries]
      BY <1>2, <2>0, <2>g, <3>2, GcEntry DEF Put
    <3> QED
      BY <1>2, <2>0, <2>g, <3>1, <3>3 DEF Put, TypeOK, RaceOn
  <2>2. Handed'
    BY <1>2, <2>0 DEF Put, Basic, Handed, Holds, KeyOf, Credentials, Idle
  <2>3. Kept'
    <3> SUFFICES ASSUME NEW k \in Keys, pending'[k].sess # 0
                 PROVE  /\ pending'[k].sess \in 1..issued
                        /\ k = Credentials(pending'[k].sess)
                        /\ pending'[k].expires = putAt'[pending'[k].sess] + Minute
      BY <1>2 DEF Put, Kept, Credentials
    <3>1. CASE k = KeyOf(c)
      BY <1>2, <2>0, <2>g, <3>1, GcEntry DEF Put, TypeOK
    <3>2. CASE k # KeyOf(c)
      <4>1. pending'[k] = Gc[k]
        BY <1>2, <2>0, <2>g, <3>2 DEF Put
      <4>2. pending'[k] = pending[k]
        BY <2>0, <4>1, GcEntry
      <4>3. pending[k].sess # req[c].sess
        BY <2>g, <3>2, <4>2 DEF Basic, Kept
      <4> QED
        BY <1>2, <2>0, <2>g, <4>2, <4>3 DEF Put, Basic, Kept
    <3> QED
      BY <3>1, <3>2
  <2>4. RowOwned'
    BY <1>2, <2>0 DEF Put, Basic, RowOwned
  <2>5. PromisedKey'
    BY <1>2, <2>0 DEF Put, Basic, PromisedKey, Handed, Holds, Credentials
  <2>6. Unissued'
    BY <1>2, <2>0 DEF Put, Basic, Unissued
  <2> QED
    BY <2>1, <2>2, <2>3, <2>4, <2>5, <2>6 DEF Basic
<1>3. ASSUME NEW c \in Clients, NEW a \in Apps, NEW e \in Emails,
            NEW p \in Passwords, SaveHit(c, a, e, p)
     PROVE  Basic'
  <2>0. TypeOK
    BY DEF Basic
  <2>1. TypeOK'
    <3>0. Key(e, p) \in Keys
      BY KeyInKeys
    <3>1. req' \in [Clients -> Requests]
      <4>1. Gc[Key(e, p)].sess \in 0..MaxSessions
        BY <2>0, <3>0, GcEntry DEF Entries
      <4>2. Saving("clear", a, e, p, Gc[Key(e, p)].sess) \in Requests
        BY <4>1 DEF Saving, Requests
      <4> QED
        BY <1>3, <2>0, <4>2 DEF SaveHit, TypeOK
    <3>2. pending' \in [Keys -> Entries]
      BY <1>3, <2>0, GcEntry DEF SaveHit
    <3>3. promised' \in [Keys -> 0..MaxSessions]
      <4>1. 0 \in 0..MaxSessions
        BY BoundsAssumption
      <4>2. promised' = [promised EXCEPT ![Key(e, p)] = 0]
        BY <1>3 DEF SaveHit
      <4>3. promised \in [Keys -> 0..MaxSessions]
        BY <2>0 DEF TypeOK
      <4> HIDE DEF Keys
      <4> QED
        BY <4>1, <4>2, <4>3
    <3>4. raced' \subseteq Keys
      BY <1>3, <2>0, <3>0 DEF SaveHit, TypeOK, RaceOn
    <3> QED
      BY <1>3, <2>0, <3>1, <3>2, <3>3, <3>4 DEF SaveHit, TypeOK
  <2>2. Handed'
    <3>1. Key(e, p) \in Keys
      BY KeyInKeys
    <3>2. Gc[Key(e, p)].sess \in 1..issued /\ Key(e, p) = Credentials(Gc[Key(e, p)].sess)
      BY <1>3, <2>0, <3>1, GcEntry DEF SaveHit, Basic, Kept
    <3>3. req' = [req EXCEPT ![c] = Saving("clear", a, e, p, Gc[Key(e, p)].sess)]
      BY <1>3 DEF SaveHit
    <3> QED
      BY <1>3, <2>0, <3>2, <3>3 DEF SaveHit, Basic, Handed, Holds,
         KeyOf, Credentials, Saving
  <2>3. Kept'
    BY <1>3, <2>0, GcEntry DEF SaveHit, Basic, Kept, Credentials
  <2>4. RowOwned'
    BY <1>3, <2>0 DEF SaveHit, Basic, RowOwned
  <2>5. PromisedKey'
    BY <1>3, <2>0 DEF SaveHit, Basic, PromisedKey, Credentials
  <2>6. Unissued'
    BY <1>3, <2>0 DEF SaveHit, Basic, Unissued
  <2> QED
    BY <2>1, <2>2, <2>3, <2>4, <2>5, <2>6 DEF Basic
<1>4. ASSUME NEW c \in Clients, NEW a \in Apps, NEW e \in Emails,
            NEW p \in Passwords, SaveMiss(c, a, e, p)
     PROVE  Basic'
  <2>0. TypeOK
    BY DEF Basic
  <2>1. TypeOK'
    <3>1. req' \in [Clients -> Requests]
      BY <1>4, <2>0 DEF SaveMiss, TypeOK, Requests, Saving, Idle, Sessions
    <3>2. pending' \in [Keys -> Entries]
      BY <1>4, <2>0, GcEntry DEF SaveMiss, Basic
    <3> QED
      BY <1>4, <2>0, <3>1, <3>2 DEF SaveMiss, Basic, TypeOK, RaceOn
  <2>2. Handed'
    BY <1>4, <2>0 DEF SaveMiss, Basic, Handed, Holds, KeyOf, Credentials,
       RaceOn, Saving
  <2>3. Kept'
    BY <1>4, <2>0, GcEntry DEF SaveMiss, Basic, Kept, Credentials
  <2>4. RowOwned'
    BY <1>4, <2>0 DEF SaveMiss, Basic, RowOwned
  <2>5. PromisedKey'
    BY <1>4, <2>0 DEF SaveMiss, Basic, PromisedKey, Credentials
  <2>6. Unissued'
    BY <1>4, <2>0 DEF SaveMiss, Basic, Unissued
  <2> QED
    BY <2>1, <2>2, <2>3, <2>4, <2>5, <2>6 DEF Basic
<1>5. ASSUME NEW c \in Clients, Clear(c)
     PROVE  Basic'
  <2>0. TypeOK
    BY DEF Basic
  <2>1. TypeOK'
    <3>1. req' \in [Clients -> Requests]
      <4>0. req[c] \in Requests
        BY <2>0 DEF TypeOK
      <4>1. [req[c] EXCEPT !.pc = "store"] \in Requests
        BY <4>0 DEF Requests
      <4>2. req' = [req EXCEPT ![c] = [req[c] EXCEPT !.pc = "store"]]
        BY <1>5 DEF Clear
      <4> QED
        BY <2>0, <4>1, <4>2 DEF TypeOK
    <3>0. NoEntry \in Entries
      BY BoundsAssumption DEF Entries, NoEntry
    <3>2. pending' \in [Keys -> Entries]
      BY <1>5, <2>0, <3>0 DEF Clear, TypeOK
    <3> QED
      BY <1>5, <2>0, <3>1, <3>2 DEF Clear, Basic, TypeOK, RaceOn
  <2>2. Handed'
    BY <1>5, <2>0 DEF Clear, Basic, Handed, Holds, KeyOf, Credentials
  <2>3. Kept'
    BY <1>5, <2>0 DEF Clear, Basic, Kept, Credentials, RaceOn, NoEntry
  <2>4. RowOwned'
    BY <1>5, <2>0 DEF Clear, Basic, RowOwned
  <2>5. PromisedKey'
    BY <1>5 DEF Clear, Basic, PromisedKey, Credentials
  <2>6. Unissued'
    BY <1>5, <2>0 DEF Clear, Basic, Unissued
  <2> QED
    BY <2>1, <2>2, <2>3, <2>4, <2>5, <2>6 DEF Basic
<1>6. ASSUME NEW c \in Clients, Login(c)
     PROVE  Basic'
  <2>0. TypeOK
    BY DEF Basic
  <2>1. TypeOK'
    <3>1. issued + 1 \in Sessions /\ issued + 1 \in 0..MaxSessions
      BY <1>6, <2>0, BoundsAssumption DEF Login, TypeOK
    <3>2. req' \in [Clients -> Requests]
      <4>1. req[c] \in Requests
        BY <2>0 DEF TypeOK
      <4>2. [req[c] EXCEPT !.pc = "store", !.sess = issued + 1] \in Requests
        BY <3>1, <4>1 DEF Requests
      <4> QED
        BY <1>6, <2>0, <4>2 DEF Login, TypeOK
    <3>3. Norm[req[c].email] \in Accounts
      BY <1>6, KeyInKeys DEF Login, Basic, Handed
    <3> QED
      BY <1>6, <2>0, <3>1, <3>2, <3>3 DEF Login, TypeOK
  <2>2. Handed'
    BY <1>6, <2>0, BoundsAssumption, KeyInKeys DEF Login, Basic, TypeOK,
       Handed, Holds, KeyOf, Key, Credentials
  <2>3. Kept'
    BY <1>6, <2>0 DEF Login, Basic, TypeOK, Kept, Handed, Credentials
  <2>4. RowOwned'
    BY <1>6, <2>0 DEF Login, Basic, TypeOK, RowOwned
  <2>5. PromisedKey'
    BY <1>6, <2>0 DEF Login, Basic, TypeOK, PromisedKey, Credentials
  <2>6. Unissued'
    BY <1>6, <2>0 DEF Login, Basic, TypeOK, Unissued
  <2> QED
    BY <2>1, <2>2, <2>3, <2>4, <2>5, <2>6 DEF Basic
<1>7. ASSUME NEW c \in Clients, LoginFails(c)
     PROVE  Basic'
  <2>0. TypeOK
    BY DEF Basic
  <2>1. TypeOK'
    <3>1. req' \in [Clients -> Requests]
      BY <1>7, <2>0, BoundsAssumption DEF LoginFails, TypeOK, Requests,
         Idle, Sessions
    <3> QED
      BY <1>7, <2>0, <3>1 DEF LoginFails, Basic, TypeOK, RaceOn
  <2>2. Handed'
    BY <1>7, <2>0 DEF LoginFails, Basic, Handed, Holds, KeyOf,
       Credentials, RaceOn, Idle
  <2>3. Kept'
    BY <1>7, <2>0 DEF LoginFails, Basic, Kept, Credentials
  <2>4. RowOwned'
    BY <1>7, <2>0 DEF LoginFails, Basic, RowOwned
  <2>5. PromisedKey'
    BY <1>7, <2>0 DEF LoginFails, Basic, PromisedKey, Credentials
  <2>6. Unissued'
    BY <1>7, <2>0 DEF LoginFails, Basic, Unissued
  <2> QED
    BY <2>1, <2>2, <2>3, <2>4, <2>5, <2>6 DEF Basic
<1>8. ASSUME NEW c \in Clients, Store(c)
     PROVE  Basic'
  <2>0. TypeOK
    BY DEF Basic
  <2>g. req[c].sess \in 1..issued /\ req[c].sess \in Sessions /\ req[c].email \in Emails
    BY <1>8, Holding DEF Store, Holds
  <2>1. TypeOK'
    <3>1. req' \in [Clients -> Requests]
      BY <1>8, <2>0, BoundsAssumption DEF Store, TypeOK, Requests,
         Idle, Sessions
    <3> QED
      <4>1. [sess |-> req[c].sess, email |-> req[c].email] \in
              {NoRow} \cup [sess : Sessions, email : Emails]
        BY <2>g
      <4>2. row' \in [Apps -> {NoRow} \cup [sess : Sessions, email : Emails]]
        BY <1>8, <2>0, <4>1 DEF Store, TypeOK
      <4>3. saves' \in [Sessions -> Nat]
        BY <1>8, <2>0, <2>g DEF Store, TypeOK
      <4> QED
        BY <1>8, <2>0, <3>1, <4>2, <4>3 DEF Store, TypeOK
  <2>2. Handed'
    BY <1>8, <2>0 DEF Store, TypeOK, Basic, Handed, Holds, KeyOf, Key,
       Credentials, Idle
  <2>3. Kept'
    BY <1>8 DEF Store, Basic, Kept, Credentials
  <2>4. RowOwned'
    BY <1>8, <2>0 DEF Store, Basic, RowOwned, Handed, Holds, KeyOf, Key,
       Credentials
  <2>5. PromisedKey'
    BY <1>8, <2>0 DEF Store, Basic, PromisedKey, Credentials
  <2>6. Unissued'
    BY <1>8, <2>0, <2>g DEF Store, TypeOK, Basic, Unissued
  <2> QED
    BY <2>1, <2>2, <2>3, <2>4, <2>5, <2>6 DEF Basic
<1>9. ASSUME NEW c \in Clients, StoreFails(c)
     PROVE  Basic'
  <2>0. TypeOK
    BY DEF Basic
  <2>1. TypeOK'
    <3>1. req' \in [Clients -> Requests]
      BY <1>9, <2>0, BoundsAssumption DEF StoreFails, TypeOK, Requests,
         Idle, Sessions
    <3> QED
      BY <1>9, <2>0, <3>1 DEF StoreFails, Basic, TypeOK, RaceOn
  <2>2. Handed'
    BY <1>9, <2>0 DEF StoreFails, Basic, Handed, Holds, KeyOf,
       Credentials, RaceOn, Idle
  <2>3. Kept'
    BY <1>9, <2>0 DEF StoreFails, Basic, Kept, Credentials
  <2>4. RowOwned'
    BY <1>9, <2>0 DEF StoreFails, Basic, RowOwned
  <2>5. PromisedKey'
    BY <1>9, <2>0 DEF StoreFails, Basic, PromisedKey, Credentials
  <2>6. Unissued'
    BY <1>9, <2>0 DEF StoreFails, Basic, Unissued
  <2> QED
    BY <2>1, <2>2, <2>3, <2>4, <2>5, <2>6 DEF Basic
<1>10. ASSUME Tick
     PROVE  Basic'
  <2>0. TypeOK
    BY DEF Basic
  <2>1. TypeOK'
    BY <1>10, <2>0 DEF Tick, TypeOK
  <2>2. Handed'
    BY <1>10, <2>0 DEF Tick, Basic, Handed, Holds, KeyOf, Credentials
  <2>3. Kept'
    BY <1>10, <2>0 DEF Tick, Basic, Kept, Credentials
  <2>4. RowOwned'
    BY <1>10, <2>0 DEF Tick, Basic, RowOwned
  <2>5. PromisedKey'
    BY <1>10, <2>0 DEF Tick, Basic, PromisedKey, Credentials
  <2>6. Unissued'
    BY <1>10, <2>0 DEF Tick, Basic, Unissued
  <2> QED
    BY <2>1, <2>2, <2>3, <2>4, <2>5, <2>6 DEF Basic
<1>11. ASSUME Restart
     PROVE  Basic'
  <2>0. TypeOK
    BY DEF Basic
  <2>1. TypeOK'
    <3>1. req' \in [Clients -> Requests]
      BY <1>11, <2>0, BoundsAssumption DEF Restart, Requests, Idle, Sessions
    <3>2. pending' \in [Keys -> Entries]
      BY <1>11, <2>0, BoundsAssumption DEF Restart, Basic, Entries, NoEntry
    <3> QED
      BY <1>11, <2>0, <3>1, <3>2, BoundsAssumption DEF Restart, Basic,
         TypeOK, RaceOn
  <2>2. Handed'
    BY <1>11, <2>0 DEF Restart, Basic, Handed, Holds, RaceOn, Idle
  <2>3. Kept'
    BY <1>11, <2>0 DEF Restart, Basic, Kept, RaceOn, NoEntry
  <2>4. RowOwned'
    BY <1>11, <2>0 DEF Restart, Basic, RowOwned
  <2>5. PromisedKey'
    BY <1>11, <2>0 DEF Restart, Basic, PromisedKey
  <2>6. Unissued'
    BY <1>11, <2>0 DEF Restart, Basic, Unissued
  <2> QED
    BY <2>1, <2>2, <2>3, <2>4, <2>5, <2>6 DEF Basic
<1>12. CASE UNCHANGED vars
  BY <1>12 DEF vars, Basic, TypeOK, Handed, Kept, RowOwned, PromisedKey,
     Unissued, Holds, KeyOf, Credentials
<1> QED
  BY <1>1, <1>2, <1>3, <1>4, <1>5, <1>6, <1>7, <1>8, <1>9, <1>10, <1>11,
     <1>12 DEF Next

-----------------------------------------------------------------------------
(***************************************************************************)
(* The window                                                              *)
(***************************************************************************)

\* What is promised under a key and has not expired is not collected.
LEMMA PromiseSurvivesGc ==
  ASSUME Basic, WindowKept, NEW k \in Keys \ raced,
         promised[k] # 0, now <= putAt[promised[k]] + Minute
  PROVE  Gc[k] = pending[k] /\ pending[k].sess = promised[k]
<1>1. pending[k].sess = promised[k]
  BY DEF WindowKept
<1>2. now <= pending[k].expires
  BY <1>1 DEF Basic, Kept
<1> QED
  BY <1>1, <1>2, GcEntry DEF Basic

\* No step takes a promised session away before its time.
LEMMA WindowStep ==
  Basic /\ Basic' /\ WindowKept /\ Taken /\ [Next]_vars => WindowKept' /\ Taken'
<1> SUFFICES ASSUME Basic, Basic', WindowKept, Taken, [Next]_vars
             PROVE  WindowKept' /\ Taken'
  OBVIOUS
<1>0. TypeOK
  BY DEF Basic
<1>1. ASSUME NEW c \in Clients, NEW e \in Emails, NEW p \in Passwords, Verify(c, e, p)
     PROVE  WindowKept' /\ Taken'
  BY <1>0, <1>1, BoundsAssumption DEF Verify, TypeOK, Idle, WindowKept,
     Taken, KeyOf, Key
<1>2. ASSUME NEW c \in Clients, Put(c)
     PROVE  WindowKept' /\ Taken'
  <2>0. Holds(c)
    BY <1>2 DEF Put, Holds
  <2>1. /\ req[c].sess \in Sessions /\ KeyOf(c) \in Keys
        /\ KeyOf(c) = Credentials(req[c].sess)
    BY <2>0, Holding
  <2>2. WindowKept'
    <3> SUFFICES ASSUME NEW k \in Keys, k \notin raced', promised'[k] # 0,
                        now <= putAt'[promised'[k]] + Minute
                 PROVE  pending'[k].sess = promised'[k]
      BY <1>2 DEF Put, WindowKept
    <3>1. CASE k = KeyOf(c)
      BY <1>0, <1>2, <2>1, <3>1, GcEntry DEF Put, TypeOK
    <3>2. CASE k # KeyOf(c)
      <4>1. promised'[k] = promised[k] /\ k \notin raced /\ pending'[k] = Gc[k]
        BY <1>0, <1>2, <2>1, <3>2, GcEntry DEF Put, TypeOK, RaceOn
      <4>2. promised[k] # req[c].sess
        BY <2>1, <3>2, <4>1 DEF Basic, PromisedKey
      <4>3. promised[k] \in Sessions
        BY <1>0, <4>1, BoundsAssumption DEF TypeOK
      <4>4. putAt'[promised[k]] = putAt[promised[k]]
        BY <1>0, <1>2, <2>1, <4>2, <4>3 DEF Put, TypeOK
      <4> QED
        BY <4>1, <4>4, PromiseSurvivesGc
    <3> QED
      BY <3>1, <3>2
  <2>3. Taken'
    <3> SUFFICES ASSUME NEW d \in Clients, req'[d].pc = "clear", KeyOf(d)' \notin raced'
                 PROVE  promised'[KeyOf(d)'] = 0
      BY DEF Taken
    <3>1. d # c /\ req'[d] = req[d]
      BY <1>0, <1>2 DEF Put, TypeOK, Idle
    <3>2. KeyOf(d)' = KeyOf(d)
      BY <3>1 DEF KeyOf, Key
    <3>3. KeyOf(d) # KeyOf(c) /\ KeyOf(d) \notin raced
      BY <1>2, <3>1, <3>2 DEF Put, RaceOn, Between
    <3> QED
      BY <1>0, <1>2, <2>1, <3>1, <3>2, <3>3 DEF Put, TypeOK, Taken
  <2> QED
    BY <2>2, <2>3
<1>3. ASSUME NEW c \in Clients, NEW a \in Apps, NEW e \in Emails,
            NEW p \in Passwords, SaveHit(c, a, e, p)
     PROVE  WindowKept' /\ Taken'
  <2>1. Key(e, p) \in Keys
    BY KeyInKeys
  <2>2. WindowKept'
    <3> SUFFICES ASSUME NEW k \in Keys, k \notin raced', promised'[k] # 0,
                        now <= putAt[promised'[k]] + Minute
                 PROVE  pending'[k].sess = promised'[k]
      BY <1>3 DEF SaveHit, WindowKept
    <3>1. k # Key(e, p) /\ promised'[k] = promised[k] /\ k \notin raced
      BY <1>0, <1>3, <2>1 DEF SaveHit, TypeOK, RaceOn
    <3> QED
      BY <1>3, <3>1, PromiseSurvivesGc DEF SaveHit
  <2>3. Taken'
    <3> SUFFICES ASSUME NEW d \in Clients, req'[d].pc = "clear", KeyOf(d)' \notin raced'
                 PROVE  promised'[KeyOf(d)'] = 0
      BY DEF Taken
    <3>1. CASE d = c
      <4>1. KeyOf(d)' = Key(e, p)
        BY <1>0, <1>3, <3>1 DEF SaveHit, TypeOK, Saving, KeyOf, Key
      <4> QED
        BY <1>0, <1>3, <2>1, <4>1 DEF SaveHit, TypeOK
    <3>2. CASE d # c
      <4>1. req'[d] = req[d]
        BY <1>0, <1>3, <3>2 DEF SaveHit, TypeOK
      <4>2. KeyOf(d)' = KeyOf(d)
        BY <4>1 DEF KeyOf, Key
      <4>3. KeyOf(d) # Key(e, p) /\ KeyOf(d) \notin raced
        BY <1>3, <3>2, <4>1, <4>2 DEF SaveHit, RaceOn, Between
      <4> QED
        BY <1>0, <1>3, <2>1, <4>1, <4>2, <4>3 DEF SaveHit, TypeOK, Taken
    <3> QED
      BY <3>1, <3>2
  <2> QED
    BY <2>2, <2>3
<1>4. ASSUME NEW c \in Clients, NEW a \in Apps, NEW e \in Emails,
            NEW p \in Passwords, SaveMiss(c, a, e, p)
     PROVE  WindowKept' /\ Taken'
  <2>1. WindowKept'
    <3> SUFFICES ASSUME NEW k \in Keys, k \notin raced, promised[k] # 0,
                        now <= putAt[promised[k]] + Minute
                 PROVE  pending'[k].sess = promised[k]
      BY <1>4 DEF SaveMiss, ghosts, WindowKept
    <3> QED
      BY <1>4, PromiseSurvivesGc DEF SaveMiss
  <2>2. Taken'
    BY <1>0, <1>4 DEF SaveMiss, TypeOK, Saving, Taken, KeyOf, Key
  <2> QED
    BY <2>1, <2>2
<1>5. ASSUME NEW c \in Clients, Clear(c)
     PROVE  WindowKept' /\ Taken'
  <2>0. Holds(c)
    BY <1>5 DEF Clear, Holds
  <2>1. KeyOf(c) \in Keys
    BY <2>0, Holding
  <2>2. WindowKept'
    <3> SUFFICES ASSUME NEW k \in Keys, k \notin raced, promised[k] # 0,
                        now <= putAt[promised[k]] + Minute
                 PROVE  pending'[k].sess = promised[k]
      BY <1>5 DEF Clear, ghosts, WindowKept
    <3>1. k # KeyOf(c)
      BY <1>5 DEF Clear, Taken
    <3> QED
      BY <1>0, <1>5, <2>1, <3>1 DEF Clear, TypeOK, WindowKept
  <2>3. Taken'
    BY <1>0, <1>5 DEF Clear, TypeOK, Taken, KeyOf, Key
  <2> QED
    BY <2>2, <2>3
<1>6. ASSUME NEW c \in Clients, Login(c)
     PROVE  WindowKept' /\ Taken'
  BY <1>0, <1>6, BoundsAssumption DEF Login, TypeOK, Idle, WindowKept,
     Taken, KeyOf, Key
<1>7. ASSUME NEW c \in Clients, LoginFails(c)
     PROVE  WindowKept' /\ Taken'
  BY <1>0, <1>7 DEF LoginFails, TypeOK, Idle, WindowKept, Taken, KeyOf
<1>8. ASSUME NEW c \in Clients, Store(c)
     PROVE  WindowKept' /\ Taken'
  BY <1>0, <1>8 DEF Store, TypeOK, Idle, WindowKept, Taken, KeyOf
<1>9. ASSUME NEW c \in Clients, StoreFails(c)
     PROVE  WindowKept' /\ Taken'
  BY <1>0, <1>9 DEF StoreFails, TypeOK, Idle, WindowKept, Taken, KeyOf
<1>10. ASSUME Tick
     PROVE  WindowKept' /\ Taken'
  <2>1. WindowKept'
    <3> SUFFICES ASSUME NEW k \in Keys, k \notin raced, promised[k] # 0,
                        now + 1 <= putAt[promised[k]] + Minute
                 PROVE  pending[k].sess = promised[k]
      BY <1>10 DEF Tick, ghosts, WindowKept
    <3>1. putAt[promised[k]] \in Nat
      BY <1>0, BoundsAssumption DEF TypeOK
    <3>2. now <= putAt[promised[k]] + Minute
      BY <1>0, <3>1, BoundsAssumption DEF TypeOK
    <3> QED
      BY <3>2 DEF WindowKept
  <2>2. Taken'
    BY <1>10 DEF Tick, ghosts, Taken, KeyOf
  <2> QED
    BY <2>1, <2>2
<1>11. ASSUME Restart
     PROVE  WindowKept' /\ Taken'
  BY <1>0, <1>11 DEF Restart, WindowKept, Taken, Idle
<1>12. CASE UNCHANGED vars
  BY <1>12 DEF vars, WindowKept, Taken, KeyOf, Key
<1> QED
  BY <1>1, <1>2, <1>3, <1>4, <1>5, <1>6, <1>7, <1>8, <1>9, <1>10, <1>11,
     <1>12 DEF Next

-----------------------------------------------------------------------------
(***************************************************************************)
(* One tenant per session                                                  *)
(***************************************************************************)

\* Nobody raced for s before, if nobody has raced for it after the step.
LEMMA NotRacedBefore ==
  ASSUME Basic, [Next]_vars, NEW s \in 1..issued, Credentials(s)' \notin raced'
  PROVE  Credentials(s) \notin raced
<1>0. TypeOK /\ s \in Sessions /\ s # issued + 1
  BY BoundsAssumption DEF Basic, TypeOK
<1> SUFFICES owner'[s] = owner[s] /\ raced \subseteq raced'
  BY DEF Credentials
<1>1. ASSUME NEW c \in Clients, NEW e \in Emails, NEW p \in Passwords, Verify(c, e, p)
      PROVE  owner'[s] = owner[s] /\ raced \subseteq raced'
  BY <1>0, <1>1 DEF Verify, TypeOK
<1>2. ASSUME NEW c \in Clients, NEW a \in Apps, NEW e \in Emails, NEW p \in Passwords,
             SaveHit(c, a, e, p) \/ SaveMiss(c, a, e, p)
      PROVE  owner'[s] = owner[s] /\ raced \subseteq raced'
  BY <1>2 DEF SaveHit, SaveMiss, RaceOn
<1>3. ASSUME NEW c \in Clients, Login(c)
      PROVE  owner'[s] = owner[s] /\ raced \subseteq raced'
  BY <1>0, <1>3 DEF Login, TypeOK
<1>4. ASSUME NEW c \in Clients,
             Put(c) \/ Clear(c) \/ LoginFails(c) \/ Store(c) \/ StoreFails(c)
      PROVE  owner'[s] = owner[s] /\ raced \subseteq raced'
  BY <1>4 DEF Put, Clear, LoginFails, Store, StoreFails, RaceOn
<1>5. Tick \/ Restart \/ UNCHANGED vars
        => owner'[s] = owner[s] /\ raced \subseteq raced'
  BY DEF Tick, Restart, vars
<1> QED
  BY <1>1, <1>2, <1>3, <1>4, <1>5 DEF Next

\* A session does not get into two hands unless two saves race for it.
LEMMA SoleStep == Basic /\ Basic' /\ Sole /\ [Next]_vars => Sole'
<1> SUFFICES ASSUME Basic, Basic', Sole, [Next]_vars,
                    NEW s \in 1..issued', Credentials(s)' \notin raced'
             PROVE  InOneHand(s)'
  BY DEF Sole
<1>t. issued' \in 0..MaxSessions
  BY DEF Basic, TypeOK
<1>0. TypeOK /\ s \in Sessions /\ s # 0
  BY <1>t, BoundsAssumption DEF Basic
<1>old. s \in 1..issued => InOneHand(s)
  BY NotRacedBefore DEF Sole
<1>1. ASSUME NEW c \in Clients, NEW e \in Emails, NEW p \in Passwords, Verify(c, e, p)
     PROVE  InOneHand(s)'
  <2>0. /\ pending' = pending /\ saves' = saves /\ issued' = issued + 1
        /\ req'[c].sess = issued + 1
        /\ \A d \in Clients : d # c => req'[d] = req[d]
    BY <1>0, <1>1 DEF Verify, TypeOK, Idle
  <2>1. CASE s \in 1..issued
    <3>1. req'[c].sess # s
      BY <1>0, <2>0, <2>1 DEF TypeOK
    <3> QED
      BY <1>old, <2>0, <2>1, <3>1 DEF InOneHand, Holds
  <2>2. CASE s = issued + 1
    <3>1. \A d \in Clients : Holds(d) => req[d].sess # s
      BY <1>0, <2>2 DEF Basic, Handed, TypeOK
    <3>2. \A k \in Keys : pending[k].sess # s
      <4>1. s \notin 1..issued
        BY <1>0, <2>2 DEF TypeOK
      <4> QED
        BY <1>0, <4>1 DEF Basic, Kept
    <3>3. saves[s] = 0
      BY <1>0, <2>2 DEF Basic, Unissued, TypeOK
    <3> QED
      BY <2>0, <2>2, <3>1, <3>2, <3>3 DEF InOneHand, Holds
  <2> QED
    BY <1>0, <2>0, <2>1, <2>2 DEF TypeOK
<1>2. ASSUME NEW c \in Clients, Put(c)
     PROVE  InOneHand(s)'
  <2>h. Holds(c)
    BY <1>2 DEF Put, Holds
  <2>k. KeyOf(c) \in Keys
    BY <2>h, Holding
  <2>r. /\ saves' = saves /\ ~Holds(c)' /\ \A d \in Clients : d # c => req'[d] = req[d]
        /\ InOneHand(s)
    BY <1>0, <1>old, <1>2 DEF Put, TypeOK, Idle, Holds
  <2>p. \A k \in Keys : pending'[k].sess = s
          => (k = KeyOf(c) /\ req[c].sess = s) \/ pending[k].sess = s
    BY <1>0, <1>2, <2>k, GcEntry DEF Put, TypeOK
  <2>1. \A d, f \in Clients :
          Holds(d)' /\ Holds(f)' /\ req'[d].sess = s /\ req'[f].sess = s => d = f
    BY <2>r DEF InOneHand, Holds
  <2>2. saves'[s] <= 1
    BY <2>r DEF InOneHand
  <2>3. saves'[s] = 1 => /\ \A d \in Clients : Holds(d)' => req'[d].sess # s
                         /\ \A k \in Keys : pending'[k].sess # s
    BY <2>h, <2>r, <2>p DEF InOneHand, Holds
  <2>4. \A d \in Clients : req'[d].pc \in {"put", "store"} /\ req'[d].sess = s
          => \A k \in Keys : pending'[k].sess # s
    BY <2>h, <2>r, <2>p DEF InOneHand, Holds
  <2> QED
    BY <2>1, <2>2, <2>3, <2>4 DEF InOneHand
<1>3. ASSUME NEW c \in Clients, NEW a \in Apps, NEW e \in Emails,
            NEW p \in Passwords, SaveHit(c, a, e, p)
     PROVE  InOneHand(s)'
  <2>k. Key(e, p) \in Keys
    BY KeyInKeys
  <2>r. /\ saves' = saves /\ \A d \in Clients : d # c => req'[d] = req[d]
        /\ req'[c].pc = "clear" /\ req'[c].sess = pending[Key(e, p)].sess
        /\ InOneHand(s)
    BY <1>0, <1>old, <1>3, <2>k, GcEntry DEF SaveHit, TypeOK, Saving
  <2>p. \A k \in Keys : pending'[k].sess = s => pending[k].sess = s
    BY <1>0, <1>3, GcEntry DEF SaveHit
  <2>1. \A d, f \in Clients :
          Holds(d)' /\ Holds(f)' /\ req'[d].sess = s /\ req'[f].sess = s => d = f
    <3>1. ASSUME req'[c].sess = s, NEW d \in Clients, d # c, Holds(d)', req'[d].sess = s
          PROVE  FALSE
      <4>1. Holds(d) /\ req[d].sess = s /\ pending[Key(e, p)].sess = s
        BY <2>r, <3>1 DEF Holds
      <4>2. req[d].pc = "clear"
        BY <2>k, <2>r, <4>1 DEF InOneHand, Holds
      <4>3. KeyOf(d) = Credentials(s) /\ Key(e, p) = Credentials(s)
        BY <1>0, <2>k, <4>1 DEF Basic, Handed, Kept
      <4>4. Key(e, p) \in raced'
        BY <1>3, <3>1, <4>2, <4>3 DEF SaveHit, RaceOn, Between
      <4>5. Credentials(s)' = Credentials(s)
        BY <1>3 DEF SaveHit, Credentials
      <4> QED
        BY <4>3, <4>4, <4>5
    <3> QED
      BY <2>r, <3>1 DEF InOneHand, Holds
  <2>2. saves'[s] <= 1
    BY <2>r DEF InOneHand
  <2>3. saves'[s] = 1 => /\ \A d \in Clients : Holds(d)' => req'[d].sess # s
                         /\ \A k \in Keys : pending'[k].sess # s
    BY <2>k, <2>r, <2>p DEF InOneHand, Holds
  <2>4. \A d \in Clients : req'[d].pc \in {"put", "store"} /\ req'[d].sess = s
          => \A k \in Keys : pending'[k].sess # s
    BY <2>r, <2>p DEF InOneHand
  <2> QED
    BY <2>1, <2>2, <2>3, <2>4 DEF InOneHand
<1>4. ASSUME NEW c \in Clients, NEW a \in Apps, NEW e \in Emails,
            NEW p \in Passwords, SaveMiss(c, a, e, p)
     PROVE  InOneHand(s)'
  <2>r. /\ saves' = saves /\ ~Holds(c)' /\ \A d \in Clients : d # c => req'[d] = req[d]
        /\ InOneHand(s)
    BY <1>0, <1>old, <1>4 DEF SaveMiss, TypeOK, Saving, Holds
  <2>p. \A k \in Keys : pending'[k].sess = s => pending[k].sess = s
    BY <1>0, <1>4, GcEntry DEF SaveMiss
  <2> QED
    BY <2>r, <2>p DEF InOneHand, Holds
<1>5. ASSUME NEW c \in Clients, Clear(c)
     PROVE  InOneHand(s)'
  <2>h. Holds(c)
    BY <1>5 DEF Clear, Holds
  <2>k. KeyOf(c) \in Keys /\ KeyOf(c) = Credentials(req[c].sess)
    BY <2>h, Holding
  <2>r. /\ saves' = saves /\ \A d \in Clients : d # c => req'[d] = req[d]
        /\ req'[c].sess = req[c].sess /\ InOneHand(s)
    BY <1>0, <1>old, <1>5 DEF Clear, TypeOK
  <2>p. \A k \in Keys : pending'[k].sess = s => k # KeyOf(c) /\ pending[k].sess = s
    BY <1>0, <1>5, <2>k DEF Clear, TypeOK, NoEntry
  <2>1. \A d, f \in Clients :
          Holds(d)' /\ Holds(f)' /\ req'[d].sess = s /\ req'[f].sess = s => d = f
    BY <2>h, <2>r DEF InOneHand, Holds
  <2>2. saves'[s] <= 1
    BY <2>r DEF InOneHand
  <2>3. saves'[s] = 1 => /\ \A d \in Clients : Holds(d)' => req'[d].sess # s
                         /\ \A k \in Keys : pending'[k].sess # s
    BY <2>h, <2>r, <2>p DEF InOneHand, Holds
  <2>4. \A d \in Clients : req'[d].pc \in {"put", "store"} /\ req'[d].sess = s
          => \A k \in Keys : pending'[k].sess # s
    <3>1. req[c].sess = s => \A k \in Keys : pending'[k].sess # s
      BY <1>0, <2>k, <2>p DEF Basic, Kept
    <3> QED
      BY <2>r, <2>p, <3>1 DEF InOneHand
  <2> QED
    BY <2>1, <2>2, <2>3, <2>4 DEF InOneHand
<1>6. ASSUME NEW c \in Clients, Login(c)
     PROVE  InOneHand(s)'
  <2>0. /\ pending' = pending /\ saves' = saves /\ issued' = issued + 1
        /\ req'[c].sess = issued + 1
        /\ \A d \in Clients : d # c => req'[d] = req[d]
    BY <1>0, <1>6 DEF Login, TypeOK, Idle
  <2>1. CASE s \in 1..issued
    <3>1. req'[c].sess # s
      BY <1>0, <2>0, <2>1 DEF TypeOK
    <3> QED
      BY <1>old, <2>0, <2>1, <3>1 DEF InOneHand, Holds
  <2>2. CASE s = issued + 1
    <3>1. \A d \in Clients : Holds(d) => req[d].sess # s
      BY <1>0, <2>2 DEF Basic, Handed, TypeOK
    <3>2. \A k \in Keys : pending[k].sess # s
      <4>1. s \notin 1..issued
        BY <1>0, <2>2 DEF TypeOK
      <4> QED
        BY <1>0, <4>1 DEF Basic, Kept
    <3>3. saves[s] = 0
      BY <1>0, <2>2 DEF Basic, Unissued, TypeOK
    <3> QED
      BY <2>0, <2>2, <3>1, <3>2, <3>3 DEF InOneHand, Holds
  <2> QED
    BY <1>0, <2>0, <2>1, <2>2 DEF TypeOK
<1>7. ASSUME NEW c \in Clients, LoginFails(c)
     PROVE  InOneHand(s)'
  BY <1>0, <1>old, <1>7 DEF LoginFails, TypeOK, Idle, Holds, InOneHand
<1>8. ASSUME NEW c \in Clients, Store(c)
     PROVE  InOneHand(s)'
  <2>h. Holds(c)
    BY <1>8 DEF Store, Holds
  <2>g. req[c].sess \in Sessions
    BY <2>h, Holding
  <2>r. /\ pending' = pending /\ ~Holds(c)'
        /\ \A d \in Clients : d # c => req'[d] = req[d]
        /\ InOneHand(s)
    BY <1>0, <1>old, <1>8 DEF Store, TypeOK, Idle, Holds
  <2>s. saves'[s] = IF req[c].sess = s THEN saves[s] + 1 ELSE saves[s]
    BY <1>0, <1>8, <2>g DEF Store, TypeOK
  <2>n. saves[s] \in Nat
    BY <1>0 DEF TypeOK
  <2>1. \A d, f \in Clients :
          Holds(d)' /\ Holds(f)' /\ req'[d].sess = s /\ req'[f].sess = s => d = f
    BY <2>r DEF InOneHand, Holds
  <2>2. saves'[s] <= 1
    BY <2>h, <2>r, <2>s, <2>n DEF InOneHand
  <2>3. saves'[s] = 1 => /\ \A d \in Clients : Holds(d)' => req'[d].sess # s
                         /\ \A k \in Keys : pending'[k].sess # s
    <3>1. CASE req[c].sess = s
      <4>1. \A d \in Clients : Holds(d)' => req'[d].sess # s
        BY <2>h, <2>r, <3>1 DEF InOneHand, Holds
      <4>2. \A k \in Keys : pending'[k].sess # s
        BY <1>8, <2>r, <3>1 DEF Store, InOneHand
      <4> QED
        BY <4>1, <4>2
    <3>2. CASE req[c].sess # s
      BY <2>r, <2>s, <3>2 DEF InOneHand, Holds
    <3> QED
      BY <3>1, <3>2
  <2>4. \A d \in Clients : req'[d].pc \in {"put", "store"} /\ req'[d].sess = s
          => \A k \in Keys : pending'[k].sess # s
    BY <2>r DEF InOneHand, Holds
  <2> QED
    BY <2>1, <2>2, <2>3, <2>4 DEF InOneHand
<1>9. ASSUME NEW c \in Clients, StoreFails(c)
     PROVE  InOneHand(s)'
  BY <1>0, <1>old, <1>9 DEF StoreFails, TypeOK, Idle, Holds, InOneHand
<1>10. ASSUME Tick
     PROVE  InOneHand(s)'
  BY <1>0, <1>old, <1>10 DEF Tick, TypeOK, Idle, Holds, InOneHand
<1>11. ASSUME Restart
     PROVE  InOneHand(s)'
  BY <1>0, <1>old, <1>11, BoundsAssumption, GcEntry DEF Restart, TypeOK,
     Basic, Handed, Kept, Unissued, Idle, Saving, NoEntry, Holds, InOneHand
<1>12. CASE UNCHANGED vars
  BY <1>old, <1>12 DEF vars, InOneHand, Holds
<1> QED
  BY <1>1, <1>2, <1>3, <1>4, <1>5, <1>6, <1>7, <1>8, <1>9, <1>10, <1>11,
     <1>12 DEF Next

-----------------------------------------------------------------------------
(***************************************************************************)
(* The properties                                                          *)
(***************************************************************************)

\* IInv, the inductive invariant, holds in every reachable state of the store
\* and of the requests that meet in it.
THEOREM PendingInvariant == Spec => []IInv
<1>1. Init => IInv
  <2> SUFFICES ASSUME Init PROVE IInv
    OBVIOUS
  <2>1. Basic
    BY BasicInitially
  <2>2. WindowKept /\ Taken /\ Sole
    BY BoundsAssumption DEF Init, WindowKept, Taken, Sole, Idle
  <2> QED
    BY <2>1, <2>2 DEF IInv
<1>2. IInv /\ [Next]_vars => IInv'
  BY BasicKept, WindowStep, SoleStep DEF IInv
<1> QED
  BY <1>1, <1>2, PTL DEF Spec

\* Every reachable state is well typed: what Put, Get, Clear and the queries
\* (pending.go 34-71) pass on is always a session GoBiz can have issued.
THEOREM TypeCorrect == Spec => []TypeOK
<1>1. IInv => TypeOK
  BY DEF IInv, Basic
<1> QED
  BY <1>1, PendingInvariant, PTL

\* pending.go 29-32: a hit needs the password GoBiz would have asked for.
THEOREM NoSessionWithoutPassword == Spec => []PasswordChecked
<1>1. IInv => PasswordChecked
  <2> SUFFICES ASSUME IInv PROVE PasswordChecked
    OBVIOUS
  <2>1. ASSUME NEW c \in Clients, Holds(c)
        PROVE  /\ Norm[req[c].email] = owner[req[c].sess]
               /\ req[c].password = Right[owner[req[c].sess]]
    BY <2>1 DEF IInv, Basic, Handed, KeyOf, Key, Credentials
  <2> QED
    BY <2>1 DEF IInv, Basic, RowOwned, PasswordChecked
<1> QED
  BY <1>1, PendingInvariant, PTL

\* README 82: what was put last is there for the next save for a minute.
THEOREM WindowIsKept == Spec => []WindowKept
<1>1. IInv => WindowKept
  BY DEF IInv
<1> QED
  BY <1>1, PendingInvariant, PTL

\* service.go 330-338: one session, one row, unless two saves read it before
\* either cleared it.
THEOREM OneTenantPerSession == Spec => []OneTenant
<1>1. IInv => OneTenant
  <2> SUFFICES ASSUME IInv, NEW s \in Sessions, Credentials(s) \notin raced
               PROVE  saves[s] <= 1 /\ (saves[s] = 1 => \A k \in Keys : pending[k].sess # s)
    BY DEF OneTenant, Credentials
  <2>0. TypeOK
    BY DEF IInv, Basic
  <2>1. CASE s <= issued
    <3>1. s \in 1..issued
      BY <2>0, <2>1, BoundsAssumption DEF TypeOK
    <3> QED
      BY <3>1 DEF IInv, Sole, InOneHand
  <2>2. CASE s > issued
    BY <2>2 DEF IInv, Basic, Unissued
  <2> QED
    BY <2>0, <2>1, <2>2, BoundsAssumption DEF TypeOK
<1> QED
  BY <1>1, PendingInvariant, PTL

\* README 82: after the window a save logs in afresh.
THEOREM NothingAfterTheWindow == Spec => InWindow
<1> DEFINE Hit == \A c \in Clients : req[c] = Idle /\ req'[c].pc = "clear"
                    => now <= putAt[req'[c].sess] + Minute
<1>1. IInv /\ [Next]_vars => [Hit]_vars
  <2> SUFFICES ASSUME IInv, Next, NEW c \in Clients, req[c] = Idle, req'[c].pc = "clear"
               PROVE  now <= putAt[req'[c].sess] + Minute
    OBVIOUS
  <2>0. TypeOK
    BY DEF IInv, Basic
  <2>1. PICK a \in Apps, e \in Emails, p \in Passwords : SaveHit(c, a, e, p)
    <3>0. req[c].pc = "idle" /\ Idle.pc = "idle"
      BY DEF Idle
    <3>1. \A d \in Clients : ~Put(d) /\ ~LoginFails(d) /\ ~Store(d) /\ ~StoreFails(d)
      BY <2>0, <3>0 DEF TypeOK, Put, LoginFails, Store, StoreFails
    <3>2. \A d \in Clients : ~Clear(d)
      BY <2>0, <3>0 DEF TypeOK, Clear
    <3>6. \A d \in Clients : ~Login(d)
      BY <2>0, <3>0 DEF TypeOK, Login
    <3>7. \A d \in Clients, e \in Emails, p \in Passwords : ~Verify(d, e, p)
      <4> SUFFICES ASSUME NEW d \in Clients, NEW e \in Emails, NEW p \in Passwords,
                          Verify(d, e, p)
                   PROVE  FALSE
        OBVIOUS
      <4>1. req'[d].pc = "put" /\ (c # d => req'[c] = req[c])
        BY <2>0 DEF TypeOK, Idle, Verify
      <4> QED
        BY <4>1 DEF Idle
    <3>3. \A d \in Clients, a \in Apps, e \in Emails, p \in Passwords :
            ~SaveMiss(d, a, e, p)
      <4> SUFFICES ASSUME NEW d \in Clients, NEW a \in Apps, NEW e \in Emails,
                          NEW p \in Passwords, SaveMiss(d, a, e, p)
                   PROVE  FALSE
        OBVIOUS
      <4>1. req' = [req EXCEPT ![d] = Saving("login", a, e, p, 0)]
        BY DEF SaveMiss
      <4>2. Saving("login", a, e, p, 0).pc = "login"
        BY DEF Saving
      <4>3. req'[d].pc = "login" /\ (c # d => req'[c] = req[c])
        BY <2>0, <4>1, <4>2 DEF TypeOK
      <4> QED
        BY <3>0, <4>3
    <3>4. \A d \in Clients, a \in Apps, e \in Emails, p \in Passwords :
            SaveHit(d, a, e, p) => d = c
      <4> SUFFICES ASSUME NEW d \in Clients, NEW a \in Apps, NEW e \in Emails,
                          NEW p \in Passwords, SaveHit(d, a, e, p), d # c
                   PROVE  FALSE
        OBVIOUS
      <4>1. req' = [req EXCEPT ![d] = Saving("clear", a, e, p, Gc[Key(e, p)].sess)]
        BY DEF SaveHit
      <4>2. req'[c] = req[c]
        BY <2>0, <4>1 DEF TypeOK
      <4> QED
        BY <3>0, <4>2
    <3>5. ~Tick /\ ~Restart
      BY <3>0 DEF Tick, Restart
    <3> QED
      BY <3>1, <3>2, <3>3, <3>4, <3>5, <3>6, <3>7 DEF Next
  <2>2. Key(e, p) \in Keys
    BY KeyInKeys
  <2>3. req'[c].sess = Gc[Key(e, p)].sess
    BY <2>0, <2>1 DEF SaveHit, TypeOK, Saving
  <2>4. /\ Gc[Key(e, p)] = pending[Key(e, p)] /\ pending[Key(e, p)].sess # 0
        /\ now <= pending[Key(e, p)].expires
    BY <2>0, <2>1, <2>2, GcEntry DEF SaveHit
  <2> QED
    BY <2>2, <2>3, <2>4 DEF IInv, Basic, Kept
<1> QED
  BY <1>1, PendingInvariant, PTL DEF Spec, InWindow
=============================================================================
