-------------------------- MODULE PendingSessions --------------------------
(***************************************************************************)
(* The minute between verify and save: internal/admin/pending.go and the   *)
(* admin requests that meet in it (verifyGobizSession, applyGobizSession   *)
(* with a password, Create and Update).  A verify logs in at GoBiz and     *)
(* leaves the session for a save with the same email and password, which   *)
(* then does not log in a second time.                                     *)
(*                                                                         *)
(* Every lock of the store, every login and every query is a step of its   *)
(* own.  Tenants has the rows, the gate and the poller in detail.          *)
(***************************************************************************)
EXTENDS Integers

CONSTANTS
  Clients,      \* requests of the admin API that may be under way at a time
  Emails, Passwords, Apps,
  Norm,         \* strings.ToLower(strings.TrimSpace(email))
  Right,        \* GoBiz: the password of an account
  Minute,       \* pendingSessionTTL, in ticks
  MaxSessions,  \* bound: sessions GoBiz issues
  MaxNow,       \* bound: ticks
  NoEmail, NoPassword, NoApp

Accounts == {Norm[e] : e \in Emails}
Sessions == 1..MaxSessions

\* Spellings of an email that differ in case or in blanks around it are the
\* same account for GoBiz, and so they have one password.
ASSUME AccountsAssumption ==
  /\ Emails # {} /\ DOMAIN Norm = Emails
  /\ Right \in [Accounts -> Passwords]
ASSUME BoundsAssumption ==
  MaxSessions \in Nat \ {0} /\ MaxNow \in Nat /\ Minute \in Nat
ASSUME NamesAssumption ==
  NoEmail \notin Emails /\ NoPassword \notin Passwords /\ NoApp \notin Apps

VARIABLES
  now,
  pending,   \* pendingSessions.byKey
  req,       \* what each client's request is at
  row,       \* the tenants table
  issued,    \* GoBiz: the last session it issued
  \* history, for the properties: the account of each session, when it was
  \* put, how many rows it was stored in; the session that a key may count on
  \* until somebody takes it; the keys whose entry was taken or replaced
  \* between another request's Get and Clear
  owner, putAt, saves, promised, raced

ghosts == <<owner, putAt, saves, promised, raced>>
vars == <<now, pending, req, row, issued, ghosts>>

Keys == Accounts \X Passwords
NoEntry == [sess |-> 0, expires |-> 0]
NoRow == [sess |-> 0, email |-> NoEmail]
Idle == [pc |-> "idle", email |-> NoEmail, password |-> NoPassword,
         app |-> NoApp, create |-> FALSE, sess |-> 0]

Entries == [sess : 0..MaxSessions, expires : Nat]
Requests == [pc : {"idle", "put", "login", "clear", "store"},
             email : Emails \cup {NoEmail}, password : Passwords \cup {NoPassword},
             app : Apps \cup {NoApp}, create : BOOLEAN, sess : 0..MaxSessions]

TypeOK ==
  /\ now \in Nat
  /\ pending \in [Keys -> Entries]
  /\ req \in [Clients -> Requests]
  /\ row \in [Apps -> {NoRow} \cup [sess : Sessions, email : Emails]]
  /\ issued \in 0..MaxSessions
  /\ owner \in [Sessions -> Accounts]
  /\ putAt \in [Sessions -> Nat] /\ saves \in [Sessions -> Nat]
  /\ promised \in [Keys -> 0..MaxSessions]
  /\ raced \subseteq Keys

Init ==
  /\ now = 0 /\ issued = 0
  /\ pending = [k \in Keys |-> NoEntry]
  /\ req = [c \in Clients |-> Idle]
  /\ row = [a \in Apps |-> NoRow]
  /\ owner = [s \in Sessions |-> CHOOSE a \in Accounts : TRUE]
  /\ putAt = [s \in Sessions |-> 0] /\ saves = [s \in Sessions |-> 0]
  /\ promised = [k \in Keys |-> 0] /\ raced = {}

-----------------------------------------------------------------------------
(***************************************************************************)
(* The store of pending sessions                                           *)
(***************************************************************************)

\* A bug, for the mutation runs: the key leaves the password out.
KeyIgnoresPassword(e, p) == <<Norm[e], CHOOSE q \in Passwords : TRUE>>

\* pendingKey; the hash is taken to be injective.
Key(e, p) == <<Norm[e], p>>

KeyOf(c) == Key(req[c].email, req[c].password)

\* A bug, for the mutation runs: an entry expires on its last tick.
GcTooEarly ==
  [k \in Keys |-> IF now >= pending[k].expires THEN NoEntry ELSE pending[k]]

\* gcLocked
Gc == [k \in Keys |-> IF now > pending[k].expires THEN NoEntry ELSE pending[k]]

\* Another request is between its Get and its Clear of this key.
Between(c, k) == \E d \in Clients \ {c} : req[d].pc = "clear" /\ KeyOf(d) = k

RaceOn(c, k) == raced' = IF Between(c, k) THEN raced \cup {k} ELSE raced

-----------------------------------------------------------------------------
(***************************************************************************)
(* POST /tenants/verify with email and password                            *)
(***************************************************************************)

\* liveVerifyPassword; a failure changes nothing.
Verify(c, e, p) ==
  /\ req[c] = Idle
  /\ p = Right[Norm[e]] /\ issued < MaxSessions
  /\ issued' = issued + 1
  /\ req' = [req EXCEPT ![c] =
               [Idle EXCEPT !.pc = "put", !.email = e, !.password = p,
                            !.sess = issued + 1]]
  /\ owner' = [owner EXCEPT ![issued + 1] = Norm[e]]
  /\ UNCHANGED <<now, pending, row, putAt, saves, promised, raced>>

\* A bug, for the mutation runs: the session is kept for two minutes.
PutLasting(c) ==
  /\ req[c].pc = "put"
  /\ pending' = [Gc EXCEPT ![KeyOf(c)] =
                   [sess |-> req[c].sess, expires |-> now + 2 * Minute]]
  /\ putAt' = [putAt EXCEPT ![req[c].sess] = now]
  /\ promised' = [promised EXCEPT ![KeyOf(c)] = req[c].sess]
  /\ RaceOn(c, KeyOf(c))
  /\ req' = [req EXCEPT ![c] = Idle]
  /\ UNCHANGED <<now, row, issued, owner, saves>>

\* Put replaces what the key has.
Put(c) ==
  /\ req[c].pc = "put"
  /\ pending' = [Gc EXCEPT ![KeyOf(c)] =
                   [sess |-> req[c].sess, expires |-> now + Minute]]
  /\ putAt' = [putAt EXCEPT ![req[c].sess] = now]
  /\ promised' = [promised EXCEPT ![KeyOf(c)] = req[c].sess]
  /\ RaceOn(c, KeyOf(c))
  /\ req' = [req EXCEPT ![c] = Idle]
  /\ UNCHANGED <<now, row, issued, owner, saves>>

-----------------------------------------------------------------------------
(***************************************************************************)
(* POST /tenants and PATCH /tenants/:id with email and password            *)
(***************************************************************************)

\* An update has found its tenant, a create the app_id free: one for a taken
\* app_id ends in StoreFails like an update whose query fails.
Saving(pc, a, e, p, s) ==
  [pc |-> pc, email |-> e, password |-> p, app |-> a,
   create |-> row[a] = NoRow, sess |-> s]

\* Get finds a session that has not expired.
SaveHit(c, a, e, p) ==
  LET k == Key(e, p) IN
  /\ req[c] = Idle
  /\ Gc[k].sess # 0
  /\ pending' = Gc
  /\ req' = [req EXCEPT ![c] = Saving("clear", a, e, p, Gc[k].sess)]
  /\ promised' = [promised EXCEPT ![k] = 0]
  /\ RaceOn(c, k)
  /\ UNCHANGED <<now, row, issued, owner, putAt, saves>>

\* A bug, for the mutation runs: what Get says is not looked at.
SaveMissStores(c, a, e, p) ==
  /\ req[c] = Idle
  /\ Gc[Key(e, p)].sess = 0
  /\ pending' = Gc
  /\ req' = [req EXCEPT ![c] = Saving("store", a, e, p, 0)]
  /\ UNCHANGED <<now, row, issued, ghosts>>

\* Get finds none: log in.
SaveMiss(c, a, e, p) ==
  /\ req[c] = Idle
  /\ Gc[Key(e, p)].sess = 0
  /\ pending' = Gc
  /\ req' = [req EXCEPT ![c] = Saving("login", a, e, p, 0)]
  /\ UNCHANGED <<now, row, issued, ghosts>>

\* A bug, for the mutation runs: the session stays where it was.
ClearNothing(c) ==
  /\ req[c].pc = "clear"
  /\ req' = [req EXCEPT ![c].pc = "store"]
  /\ UNCHANGED <<now, pending, row, issued, ghosts>>

\* Clear deletes what the key has by now, be it another session.
Clear(c) ==
  /\ req[c].pc = "clear"
  /\ pending' = [pending EXCEPT ![KeyOf(c)] = NoEntry]
  /\ req' = [req EXCEPT ![c].pc = "store"]
  /\ UNCHANGED <<now, row, issued, ghosts>>

Login(c) ==
  /\ req[c].pc = "login"
  /\ req[c].password = Right[Norm[req[c].email]] /\ issued < MaxSessions
  /\ issued' = issued + 1
  /\ req' = [req EXCEPT ![c] = [@ EXCEPT !.pc = "store", !.sess = issued + 1]]
  /\ owner' = [owner EXCEPT ![issued + 1] = Norm[req[c].email]]
  /\ UNCHANGED <<now, pending, row, putAt, saves, promised, raced>>

\* A wrong password, or GoBiz is out of order.
LoginFails(c) ==
  /\ req[c].pc = "login"
  /\ req' = [req EXCEPT ![c] = Idle]
  /\ UNCHANGED <<now, pending, row, issued, ghosts>>

Store(c) ==
  /\ req[c].pc = "store"
  /\ req[c].create => row[req[c].app] = NoRow
  /\ row' = [row EXCEPT ![req[c].app] =
               [sess |-> req[c].sess, email |-> req[c].email]]
  /\ saves' = [saves EXCEPT ![req[c].sess] = @ + 1]
  /\ req' = [req EXCEPT ![c] = Idle]
  /\ UNCHANGED <<now, pending, issued, owner, putAt, promised, raced>>

\* The app_id is taken, or the query fails: the session is gone.
StoreFails(c) ==
  /\ req[c].pc = "store"
  /\ req' = [req EXCEPT ![c] = Idle]
  /\ UNCHANGED <<now, pending, row, issued, ghosts>>

-----------------------------------------------------------------------------
Tick ==
  /\ now < MaxNow /\ now' = now + 1
  /\ UNCHANGED <<pending, req, row, issued, ghosts>>

\* The process stops and starts again: the store is in memory.
Restart ==
  /\ pending' = [k \in Keys |-> NoEntry]
  /\ req' = [c \in Clients |-> Idle]
  /\ promised' = [k \in Keys |-> 0]
  /\ UNCHANGED <<now, row, issued, owner, putAt, saves, raced>>

Next ==
  \/ \E c \in Clients :
       \/ \E e \in Emails, p \in Passwords :
            \/ Verify(c, e, p)
            \/ \E a \in Apps : SaveHit(c, a, e, p) \/ SaveMiss(c, a, e, p)
       \/ Put(c) \/ Clear(c)
       \/ Login(c) \/ LoginFails(c)
       \/ Store(c) \/ StoreFails(c)
  \/ Tick
  \/ Restart

Spec == Init /\ [][Next]_vars
-----------------------------------------------------------------------------
(***************************************************************************)
(* Properties                                                              *)
(***************************************************************************)

Holds(c) == req[c].pc \in {"put", "clear", "store"}

\* pending.go 29-32: a session gets to a request, and to a row, only with the
\* right password of the account it is for, although a hit skips GoBiz, who
\* would check it.
PasswordChecked ==
  /\ \A c \in Clients : Holds(c) =>
       /\ Norm[req[c].email] = owner[req[c].sess]
       /\ req[c].password = Right[owner[req[c].sess]]
  /\ \A a \in Apps : row[a] # NoRow => Norm[row[a].email] = owner[row[a].sess]

\* README 82, "After that window, save performs a fresh GoBiz login": a save
\* takes a session that was put at most a minute ago.
InWindow ==
  [][\A c \in Clients :
       req[c] = Idle /\ req'[c].pc = "clear"
         => now <= putAt[req'[c].sess] + Minute]_vars

\* README 82, "complete create/update with the same password within 60s of
\* verify": what was put last is there for the next save until its minute is
\* over, whatever other requests do -- unless one of them had read an older
\* entry of the same key and not yet cleared it.
WindowKept ==
  \A k \in Keys \ raced :
    promised[k] # 0 /\ now <= putAt[promised[k]] + Minute
      => pending[k].sess = promised[k]

\* service.go 330-338: two tenants do not share a session, whose refresh token
\* GoBiz may accept only once; unless two saves read it before either of them
\* cleared it.
OneTenant ==
  \A s \in Sessions :
    <<owner[s], Right[owner[s]]>> \notin raced =>
      /\ saves[s] <= 1
      /\ saves[s] = 1 => \A k \in Keys : pending[k].sess # s
=============================================================================
