------------------------------ MODULE Tenants ------------------------------
(***************************************************************************)
(* The tenants and their GoBiz sessions: the table the admin API edits     *)
(* (internal/admin, internal/repository/postgres), the poller that works   *)
(* from it (internal/tenant/source.go with internal/provider/gobiz), the   *)
(* gate that stops the polling of a tenant after a fatal auth error        *)
(* (internal/tenant/authgate.go), and the token file of each app.          *)
(*                                                                         *)
(* Poller and admin requests share the table without transactions: each    *)
(* reads a whole row, changes some of it, and writes the whole row back.   *)
(*                                                                         *)
(* Tokens are numbered as GoBiz issues them: an access token is good while *)
(* it is in "valid", a refresh token while it is in "live".  A row, a      *)
(* token file and a client hold one of each, or 0 for none: validateGobiz  *)
(* asks only for the access token.                                         *)
(***************************************************************************)
EXTENDS Naturals

CONSTANTS
  Apps, NoApp,    \* app ids, and a value that is none
  Admins,         \* admin requests in progress at the same time
  MaxTokens,      \* bound: times GoBiz issues tokens
  MaxRows,        \* bound: tenants created
  MaxCrashes,     \* bound: restarts of the process
  AccessOnly,     \* whether a session may come without a refresh token
  CacheSaves,     \* whether writing a token file may succeed, may fail
  ServerErrors,   \* whether GoBiz answers a live token with a 5xx
  DbErrors        \* whether a query may fail

ASSUME NoAppAssumption == NoApp \notin Apps
ASSUME BoundsAssumption ==
  MaxTokens \in Nat /\ MaxRows \in Nat /\ MaxCrashes \in Nat
ASSUME ModesAssumption ==
  /\ CacheSaves \subseteq BOOLEAN
  /\ AccessOnly \in BOOLEAN /\ ServerErrors \in BOOLEAN /\ DbErrors \in BOOLEAN

VARIABLES
  row, lastId,      \* the table, by app (app_id is UNIQUE); last id issued
  \* GoBiz: the access tokens that are good, the refresh tokens that are,
  \* and how many there have been
  valid, live, issued,
  cache,            \* the token file of each app
  gate,             \* AuthGate.byApp
  \* the poller: where it is, apps still to poll with the session of the row
  \* they were built from, the app in hand and its client's session, the row
  \* it read, and whether the poll is the retry
  at, todo, built, app, client, snap, retried,
  req,              \* the admin requests
  \* history: fatal auth failures since Unblock; apps whose tenant is new, or
  \* has new credentials, and was not enabled since; apps whose tenant a
  \* request asked to enable; refresh tokens the polls of each app exchanged
  \* for another, since they last failed to write its file; restarts
  strikes, awaiting, wanted, used, crashes

table == <<row, lastId>>
gobiz == <<valid, live, issued>>
files == <<cache, used>>
asked == <<awaiting, wanted>>
poller == <<at, todo, built, app, client, snap, retried>>
vars == <<table, gobiz, files, gate, poller, req, strikes, asked, crashes>>

Tokens == 1..MaxTokens
Session == [access : 0..MaxTokens, refresh : 0..MaxTokens]
NoSession == [access |-> 0, refresh |-> 0]
Row == [id : 0..MaxRows, enabled : BOOLEAN, session : Session]
NoRow == [id |-> 0, enabled |-> FALSE, session |-> NoSession]
Exists(a) == row[a].id # 0

\* An admin request: what PATCH asks of "enabled", whether it carries
\* credentials, and the row it read.
Idle == [at |-> "idle", app |-> NoApp, enabled |-> "keep", creds |-> FALSE,
         snap |-> NoRow]
Request ==
  {Idle} \cup
  [at : {"login", "update", "unblock", "verify", "vsave"},
   app : Apps, enabled : {"keep", "on", "off"}, creds : BOOLEAN, snap : Row]

TypeOK ==
  /\ row \in [Apps -> Row] /\ lastId \in 0..MaxRows
  /\ issued \in 0..MaxTokens
  /\ valid \subseteq 1..issued /\ live \subseteq 1..issued
  /\ cache \in [Apps -> Session]
  /\ used \in [Apps -> SUBSET (1..issued)]
  /\ gate \subseteq Apps
  /\ at \in {"idle", "listed", "next", "session", "cache", "get", "save",
             "history", "block", "blockget", "blocksave"}
  /\ todo \subseteq Apps /\ built \in [Apps -> Session]
  /\ app \in IF at \in {"idle", "listed", "next"} THEN {NoApp} ELSE Apps
  /\ client \in Session /\ snap \in Row /\ retried \in BOOLEAN
  /\ req \in [Admins -> Request]
  /\ strikes \in [Apps -> Nat] /\ awaiting \subseteq Apps
  /\ wanted \subseteq Apps
  /\ crashes \in 0..MaxCrashes

Init ==
  /\ row = [a \in Apps |-> NoRow] /\ lastId = 0
  /\ valid = {} /\ live = {} /\ issued = 0
  /\ cache = [a \in Apps |-> NoSession] /\ used = [a \in Apps |-> {}]
  /\ gate = {}
  /\ at = "idle" /\ todo = {} /\ built = [a \in Apps |-> NoSession]
  /\ app = NoApp /\ client = NoSession /\ snap = NoRow /\ retried = FALSE
  /\ req = [c \in Admins |-> Idle]
  /\ strikes = [a \in Apps |-> 0] /\ crashes = 0
  /\ awaiting = {} /\ wanted = {}

-----------------------------------------------------------------------------
\* GoBiz and the table, as the rest of the code sees them.

\* The fields of s and, where it has none, those of t.
Over(s, t) ==
  [access |-> IF s.access # 0 THEN s.access ELSE t.access,
   refresh |-> IF s.refresh # 0 THEN s.refresh ELSE t.refresh]

\* GoBiz issues the next access and refresh token...
Issue ==
  /\ issued < MaxTokens
  /\ issued' = issued + 1
  /\ valid' = valid \cup {issued + 1} /\ live' = live \cup {issued + 1}

\* ...and the session an admin may have of the n-th of them.
Granted(n) ==
  {[access |-> n, refresh |-> n]} \cup
  IF AccessOnly THEN {[access |-> n, refresh |-> 0]} ELSE {}

\* It exchanges refresh token t for the next access token and, if it rotates,
\* the next refresh token, which may or may not be the end of t.
Exchange(t, rotates) ==
  /\ t \in live /\ issued < MaxTokens
  /\ issued' = issued + 1 /\ valid' = valid \cup {issued + 1}
  /\ IF rotates
     THEN \E gone \in {{}, {t}} : live' = (live \ gone) \cup {issued + 1}
     ELSE live' = live

\* The session that exchange leaves in place of s.
Exchanged(s, rotates) ==
  [access |-> issued + 1,
   refresh |-> IF rotates THEN issued + 1 ELSE s.refresh]

\* An access token expires.
Expire(t) ==
  /\ t \in valid
  /\ valid' = valid \ {t}
  /\ UNCHANGED <<table, live, issued, files, gate, poller, req, strikes, asked,
                 crashes>>

\* A refresh token is revoked, or its account locked.
Revoke(t) ==
  /\ t \in live
  /\ live' = live \ {t}
  /\ UNCHANGED <<table, valid, issued, files, gate, poller, req, strikes, asked,
                 crashes>>

\* A bug, for the mutation runs: insert the row if there is none of that id.
Upserted(a, t) == IF t.id # 0 THEN [row EXCEPT ![a] = t] ELSE row

\* UPDATE tenants SET all columns WHERE id: no row of that id, no effect.
Stored(a, t) ==
  IF t.id # 0 /\ row[a].id = t.id THEN [row EXCEPT ![a] = t] ELSE row

-----------------------------------------------------------------------------
\* The poller: one tick over the enabled tenants.

\* Providers begins: the rows that are enabled now, and their tokens.
ListEnabled ==
  /\ at = "idle"
  /\ at' = "listed"
  /\ todo' = {a \in Apps : Exists(a) /\ row[a].enabled}
  /\ built' = [a \in Apps |-> IF a \in todo' THEN row[a].session
                                              ELSE NoSession]
  /\ UNCHANGED <<table, gobiz, files, gate, app, client, snap, retried, req,
                 strikes, asked, crashes>>

\* A bug: the blocked tenants are polled, too.
SkipNone ==
  /\ at = "listed"
  /\ at' = "next"
  /\ UNCHANGED <<table, gobiz, files, gate, todo, built, app, client, snap,
                 retried, req, strikes, asked, crashes>>

\* A bug: the condition is inverted.
SkipUnblocked ==
  /\ at = "listed"
  /\ at' = "next"
  /\ todo' = todo \cap gate
  /\ UNCHANGED <<table, gobiz, files, gate, built, app, client, snap, retried,
                 req, strikes, asked, crashes>>

\* Providers goes on: a provider for each of them that is not blocked.
SkipBlocked ==
  /\ at = "listed"
  /\ at' = "next"
  /\ todo' = todo \ gate
  /\ UNCHANGED <<table, gobiz, files, gate, built, app, client, snap, retried,
                 req, strikes, asked, crashes>>

\* What ensureSession has the client use of what it has, the token file and
\* the row: each token from the first that has one.
Loaded(c, a) == Over(c, Over(cache[a], built[a]))

\* A bug: the row goes before the file.
StartPollPrefersRow(a) ==
  /\ at = "next" /\ a \in todo
  /\ at' = "session" /\ todo' = todo \ {a} /\ app' = a
  /\ client' = Over(built[a], cache[a])
  /\ UNCHANGED <<table, gobiz, files, gate, built, snap, retried, req, strikes,
                 asked, crashes>>

\* Poll begins, with a new client.
StartPoll(a) ==
  /\ at = "next" /\ a \in todo
  /\ at' = "session" /\ todo' = todo \ {a} /\ app' = a
  /\ client' = Loaded(NoSession, a)
  /\ UNCHANGED <<table, gobiz, files, gate, built, snap, retried, req, strikes,
                 asked, crashes>>

\* The poller moves on within the poll, or ends it.
Goto(l) ==
  /\ at' = l
  /\ UNCHANGED <<todo, built, app, client, snap, retried>>
EndPoll ==
  /\ at' = "next" /\ app' = NoApp /\ client' = NoSession /\ snap' = NoRow
  /\ retried' = FALSE
  /\ UNCHANGED <<todo, built>>

EndTick ==
  /\ at = "next" /\ todo = {}
  /\ at' = "idle"
  /\ built' = [a \in Apps |-> NoSession]
  /\ UNCHANGED <<table, gobiz, files, gate, todo, app, client, snap, retried,
                 req, strikes, asked, crashes>>

\* TokenValid: every answer but 401 counts as valid.
SessionValid ==
  /\ at = "session"
  /\ client.access \in valid \/ ServerErrors
  /\ Goto("cache")
  /\ UNCHANGED <<table, gobiz, files, gate, req, strikes, asked, crashes>>

\* The access token was refused, or the check got no answer: refresh.
Refresh(rotates) ==
  /\ at = "session"
  /\ Exchange(client.refresh, rotates)
  /\ client' = Exchanged(client, rotates) /\ at' = "cache"
  /\ used' = IF rotates THEN [used EXCEPT ![app] = @ \cup {client.refresh}]
             ELSE used
  /\ UNCHANGED <<table, cache, gate, todo, built, app, snap, retried, req,
                 strikes, asked, crashes>>

\* The refresh succeeds and its result is lost: the answer does not arrive,
\* or looking the merchant up fails before anything is persisted.
RefreshLost ==
  /\ at = "session" /\ client.refresh \in live
  /\ live' = live \ {client.refresh}
  /\ EndPoll
  /\ UNCHANGED <<table, valid, issued, files, gate, req, strikes, asked,
                 crashes>>

\* The poll fails and nothing else happens: the refresh gets no answer, or
\* the merchant cannot be looked up.
SessionError ==
  /\ at = "session"
  /\ client.refresh # 0 \/ client.access \in valid \/ ServerErrors
  /\ EndPoll
  /\ UNCHANGED <<table, gobiz, files, gate, req, strikes, asked, crashes>>

\* ErrAuthFatal: the poll is a strike.
Strike ==
  /\ at = "session"
  /\ Goto("block")
  /\ strikes' = [strikes EXCEPT ![app] = @ + 1]
  /\ UNCHANGED <<table, gobiz, files, gate, req, asked, crashes>>

\* The refresh is refused with any status >= 400.
RefreshRefused ==
  /\ client.refresh # 0 /\ (client.refresh \notin live \/ ServerErrors)
  /\ Strike

\* There is no refresh token.  The access token was refused or, as TokenValid
\* takes any error for an invalid token, the check got no answer.
RefreshMissing == client.refresh = 0 /\ Strike

\* A bug: the file keeps the refresh token it has.
SaveCacheKeepsRefresh ==
  /\ at = "cache"
  /\ cache' = [cache EXCEPT ![app] = [access |-> client.access,
                                    refresh |-> Over(@, client).refresh]]
  /\ Goto("get")
  /\ UNCHANGED <<table, gobiz, used, gate, req, strikes, asked, crashes>>

\* persistLocked: the token file.  Its error is ignored; a write cut short
\* leaves a file that does not parse, and is read as none.
SaveCache ==
  /\ at = "cache"
  /\ \E ok \in CacheSaves :
       IF ok THEN cache' = [cache EXCEPT ![app] = client] /\ used' = used
       ELSE /\ cache' \in {cache, [cache EXCEPT ![app] = NoSession]}
            /\ used' = [used EXCEPT ![app] = {}]
  /\ Goto("get")
  /\ UNCHANGED <<table, gobiz, gate, req, strikes, asked, crashes>>

\* saveSession reads the row of the app, whichever tenant that is by now; a
\* session without a refresh token leaves the row its own...
SessionGet ==
  /\ at = "get" /\ Exists(app)
  /\ snap' = [row[app] EXCEPT !.session = Over(client, @)]
  /\ at' = "save"
  /\ UNCHANGED <<table, gobiz, files, gate, todo, built, app, client, retried,
                 req, strikes, asked, crashes>>

\* ...and writes it back whole.
SessionSave ==
  /\ at = "save"
  /\ row' = Stored(app, snap)
  /\ Goto("history")
  /\ UNCHANGED <<lastId, gobiz, files, gate, req, strikes, asked, crashes>>

\* The row is gone or the query fails: only logged.
SessionNotSaved ==
  /\ \/ at = "get" /\ (~Exists(app) \/ DbErrors)
     \/ at = "save" /\ DbErrors
  /\ Goto("history")
  /\ UNCHANGED <<table, gobiz, files, gate, req, strikes, asked, crashes>>

\* History returned, with the listing or with an error.
HistoryReturns ==
  /\ at = "history"
  /\ EndPoll
  /\ UNCHANGED <<table, gobiz, files, gate, req, strikes, asked, crashes>>

\* Analytics was empty and the journal answered 401: Poll drops the access
\* token and goes through ensureSession once more.
HistoryUnauthorized ==
  /\ at = "history" /\ ~retried
  /\ client.access \notin valid
  /\ at' = "session" /\ retried' = TRUE
  /\ client' = Loaded([client EXCEPT !.access = 0], app)
  /\ UNCHANGED <<table, gobiz, files, gate, todo, built, app, snap, req,
                 strikes, asked, crashes>>

\* A bug: the gate is keyed by the credentials, not by the app.
BlockByToken ==
  /\ at = "block"
  /\ gate' = gate \cup {client.access}
  /\ Goto("blockget")
  /\ UNCHANGED <<table, gobiz, files, req, strikes, asked, crashes>>

\* A bug: rely on the table alone.
BlockInTableOnly ==
  /\ at = "block"
  /\ Goto("blockget")
  /\ UNCHANGED <<table, gobiz, files, gate, req, strikes, asked, crashes>>

\* blockAuth: the gate first...
Block ==
  /\ at = "block"
  /\ gate' = gate \cup {app}
  /\ Goto("blockget")
  /\ UNCHANGED <<table, gobiz, files, req, strikes, asked, crashes>>

\* A bug: the row is written back as it was read.
BlockGetKeepsEnabled ==
  /\ at = "blockget" /\ Exists(app) /\ row[app].enabled
  /\ snap' = row[app]
  /\ at' = "blocksave"
  /\ UNCHANGED <<table, gobiz, files, gate, todo, built, app, client, retried,
                 req, strikes, asked, crashes>>

\* ...then read the row and, if it is enabled...
BlockGet ==
  /\ at = "blockget" /\ Exists(app) /\ row[app].enabled
  /\ snap' = [row[app] EXCEPT !.enabled = FALSE]
  /\ at' = "blocksave"
  /\ UNCHANGED <<table, gobiz, files, gate, todo, built, app, client, retried,
                 req, strikes, asked, crashes>>

\* ...write it back disabled.
BlockSave ==
  /\ at = "blocksave"
  /\ row' = Stored(app, snap)
  /\ EndPoll
  /\ UNCHANGED <<lastId, gobiz, files, gate, req, strikes, asked, crashes>>

\* There is no row, it is disabled already, or the query fails.
BlockNotSaved ==
  /\ \/ at = "blockget" /\ (~Exists(app) \/ ~row[app].enabled \/ DbErrors)
     \/ at = "blocksave" /\ DbErrors
  /\ EndPoll
  /\ UNCHANGED <<table, gobiz, files, gate, req, strikes, asked, crashes>>

-----------------------------------------------------------------------------
\* The admin API.

\* POST /v1/tenants, with a password, which is exchanged for a new session, or
\* with tokens, which are taken unseen; a taken app_id is a conflict.  Neither
\* the gate nor the token file is touched.
Create(a, enabled) ==
  /\ ~Exists(a) /\ lastId < MaxRows
  /\ lastId' = lastId + 1
  /\ \E s \in Session :
       /\ \/ Issue /\ s \in Granted(issued + 1)
          \/ UNCHANGED gobiz /\ \E t \in 1..issued : s \in Granted(t)
       /\ row' = [row EXCEPT ![a] =
                    [id |-> lastId + 1, enabled |-> enabled, session |-> s]]
  /\ awaiting' = IF enabled THEN awaiting ELSE awaiting \cup {a}
  /\ wanted' = IF enabled THEN wanted \cup {a} ELSE wanted
  /\ UNCHANGED <<files, gate, poller, req, strikes, crashes>>

\* DELETE /v1/tenants/:id removes the row and nothing else.
Delete(a) ==
  /\ Exists(a)
  /\ row' = [row EXCEPT ![a] = NoRow]
  /\ awaiting' = awaiting \ {a} /\ wanted' = wanted \ {a}
  /\ UNCHANGED <<lastId, gobiz, files, gate, poller, req, strikes, crashes>>

\* A bug: a request that does not say enables.
PatchedOmittedEnables(t, enabled, creds) ==
  [t EXCEPT !.enabled = enabled # "off"]

\* New credentials disable a tenant, unless the request says otherwise.
Patched(t, enabled, creds) ==
  [t EXCEPT !.enabled = CASE enabled = "on" -> TRUE
                          [] enabled = "off" -> FALSE
                          [] enabled = "keep" -> t.enabled /\ ~creds]

\* PATCH /v1/tenants/:id reads the row, and sets what it can at once.
PatchGet(c, a, enabled, creds) ==
  /\ req[c].at = "idle" /\ Exists(a)
  /\ req' = [req EXCEPT ![c] =
       [at |-> IF creds THEN "login" ELSE "update",
        app |-> a, enabled |-> enabled, creds |-> creds,
        snap |-> Patched(row[a], enabled, creds)]]
  /\ UNCHANGED <<table, gobiz, files, gate, poller, strikes, asked,
                 crashes>>

\* The password was exchanged for a new session, which replaces the row's.
PatchLogin(c) ==
  /\ req[c].at = "login"
  /\ Issue
  /\ \E s \in Granted(issued + 1) :
       req' = [req EXCEPT ![c].at = "update", ![c].snap.session = s]
  /\ UNCHANGED <<table, files, gate, poller, strikes, asked, crashes>>

\* The request carries tokens: they are taken unseen.  An access token alone
\* leaves the row its refresh token, and no access token leaves it both.
PatchToken(c, t) ==
  /\ req[c].at = "login" /\ t \in 1..issued
  /\ \E s \in Granted(t) \cup {NoSession} :
       req' = [req EXCEPT ![c].at = "update", ![c].snap.session = Over(s, @)]
  /\ UNCHANGED <<table, gobiz, files, gate, poller, strikes, asked, crashes>>

\* The whole row is written; only a request that enables goes on to Unblock.
PatchUpdate(c) ==
  LET r == req[c]
      found == row[r.app].id = r.snap.id
      unblocks == found /\ r.snap.enabled /\ (r.enabled # "keep" \/ r.creds)
  IN /\ r.at = "update"
     /\ row' = Stored(r.app, r.snap)
     /\ req' = [req EXCEPT ![c] = IF unblocks THEN [r EXCEPT !.at = "unblock"]
                                              ELSE Idle]
     /\ awaiting' = IF found /\ r.enabled = "on" THEN awaiting \ {r.app}
                    ELSE IF found /\ r.creds THEN awaiting \cup {r.app}
                    ELSE awaiting
     /\ wanted' = IF found /\ r.enabled = "on" THEN wanted \cup {r.app}
                  ELSE wanted
     /\ UNCHANGED <<lastId, gobiz, files, gate, poller, strikes, crashes>>

Unblock(c) ==
  /\ req[c].at = "unblock"
  /\ gate' = gate \ {req[c].app}
  /\ strikes' = [strikes EXCEPT ![req[c].app] = 0]
  /\ req' = [req EXCEPT ![c] = Idle]
  /\ UNCHANGED <<table, gobiz, files, poller, asked, crashes>>

\* POST /v1/tenants/:id/verify reads the row...
VerifyGet(c, a) ==
  /\ req[c].at = "idle" /\ Exists(a)
  /\ req' = [req EXCEPT ![c] = [Idle EXCEPT !.at = "verify", !.app = a,
                                            !.snap = row[a]]]
  /\ UNCHANGED <<table, gobiz, files, gate, poller, strikes, asked,
                 crashes>>

\* ...refreshes its session if GoBiz refuses the access token...
VerifyRefresh(c, rotates) ==
  /\ req[c].at = "verify"
  /\ Exchange(req[c].snap.session.refresh, rotates)
  /\ req' = [req EXCEPT ![c].at = "vsave",
                         ![c].snap.session = Exchanged(@, rotates)]
  /\ UNCHANGED <<table, files, gate, poller, strikes, asked, crashes>>

\* ...and writes the whole row back, ignoring errors.
VerifySave(c) ==
  /\ req[c].at = "vsave"
  /\ row' = Stored(req[c].app, req[c].snap)
  /\ req' = [req EXCEPT ![c] = Idle]
  /\ UNCHANGED <<lastId, gobiz, files, gate, poller, strikes, asked,
                 crashes>>

\* The access token is valid, or the request fails, at the latest in its UPDATE:
\* nothing is stored.
GiveUp(c) ==
  /\ \/ req[c].at \in {"login", "verify"}
     \/ req[c].at \in {"update", "vsave"} /\ DbErrors
  /\ req' = [req EXCEPT ![c] = Idle]
  /\ UNCHANGED <<table, gobiz, files, gate, poller, strikes, asked,
                 crashes>>

\* ...or it failed after GoBiz made the exchange: the refresh token is gone.
VerifyLost(c) ==
  /\ req[c].at = "verify" /\ req[c].snap.session.refresh \in live
  /\ live' = live \ {req[c].snap.session.refresh}
  /\ req' = [req EXCEPT ![c] = Idle]
  /\ UNCHANGED <<table, valid, issued, files, gate, poller, strikes, asked,
                 crashes>>

-----------------------------------------------------------------------------
\* The process restarts: the gate is in memory, the table and the token
\* files are not.  A file being written may be cut short.
Restart ==
  /\ crashes < MaxCrashes
  /\ crashes' = crashes + 1
  /\ gate' = {} /\ req' = [c \in Admins |-> Idle]
  /\ at' = "idle" /\ todo' = {} /\ built' = [a \in Apps |-> NoSession]
  /\ app' = NoApp /\ client' = NoSession /\ snap' = NoRow /\ retried' = FALSE
  /\ IF at = "cache"
     THEN /\ cache' \in {cache, [cache EXCEPT ![app] = NoSession]}
          /\ used' = [used EXCEPT ![app] = {}]
     ELSE UNCHANGED files
  /\ strikes' = [a \in Apps |-> 0]
  /\ UNCHANGED <<table, gobiz, asked>>

Poller ==
  \/ ListEnabled \/ SkipBlocked \/ EndTick
  \/ \E a \in Apps : StartPoll(a)
  \/ \E rotates \in BOOLEAN : Refresh(rotates)
  \/ SessionValid \/ RefreshLost \/ SessionError
  \/ RefreshRefused \/ RefreshMissing
  \/ SaveCache \/ SessionGet \/ SessionSave \/ SessionNotSaved
  \/ HistoryReturns \/ HistoryUnauthorized
  \/ Block \/ BlockGet \/ BlockSave \/ BlockNotSaved

Serve(c) ==
  \/ PatchLogin(c) \/ PatchUpdate(c) \/ Unblock(c)
  \/ \E t \in Tokens : PatchToken(c, t)
  \/ \E rotates \in BOOLEAN : VerifyRefresh(c, rotates)
  \/ VerifySave(c) \/ VerifyLost(c) \/ GiveUp(c)

Submit ==
  \/ \E a \in Apps, enabled \in BOOLEAN : Create(a, enabled)
  \/ \E a \in Apps : Delete(a)
  \/ \E c \in Admins, a \in Apps :
       \/ \E enabled \in {"keep", "on", "off"}, creds \in BOOLEAN :
            PatchGet(c, a, enabled, creds)
       \/ VerifyGet(c, a)

Next ==
  \/ Poller
  \/ \E c \in Admins : Serve(c)
  \/ Submit
  \/ \E t \in Tokens : Expire(t) \/ Revoke(t)
  \/ Restart

Spec == Init /\ [][Next]_vars

\* The watcher goroutine keeps running, and requests are served.
Fairness == WF_vars(Poller) /\ \A c \in Admins : WF_vars(Serve(c))

FairSpec == Spec /\ Fairness
-----------------------------------------------------------------------------
(***************************************************************************)
(* Properties                                                              *)
(***************************************************************************)

\* The apps the poller may still present tokens of in this tick.
Due == todo \cup (IF app # NoApp /\ at \notin {"blockget", "blocksave"}
                 THEN {app} ELSE {})

\* The inductive invariant behind OneStrike: only the poll in hand has a
\* strike that is not yet in the gate, and what the tick has still to poll
\* is neither blocked nor the app in hand.
GateInv ==
  /\ \A a \in Apps : strikes[a] # 0 => a \in gate \/ (at = "block" /\ app = a)
  /\ at \notin {"idle", "listed"} => Due \cap gate = {}
  /\ app \notin todo
  /\ at = "idle" => todo = {}

\* domain/tenant.go 12, "stop polling this tenant to avoid further bans":
\* between two Unblocks, within one process, the poller runs into at most
\* one fatal auth failure per app, whatever happens to its row meanwhile
\* (a racing write may well enable it again).
OneStrike == \A a \in Apps : strikes[a] <= 1

\* Each app as Lockout sees it.
Door ==
  [a \in Apps |->
     IF app = a /\ at \notin {"block", "blockget", "blocksave"} THEN "polled"
     ELSE IF strikes[a] # 0 THEN "locked" ELSE "open"]

Abstract == INSTANCE Lockout WITH door <- Door

\* domain/tenant.go 12, "stop polling this tenant": between the failure and
\* Unblock no poll of the app begins, though its row may be read as enabled,
\* be written back as enabled, or be replaced by another tenant's.
ImplementsLockout == Abstract!Spec

\* README 80, "New tenants ... stay disabled until you set enabled: true": no
\* stale row in anybody's hands enables a tenant that no request asked to
\* enable (service.go 137-160, 172-229; source.go 102-141).
EnabledOnRequest ==
  \A a \in Apps : row[a].enabled => a \in wanted

\* UPDATE ... WHERE id (tenants.go 90-108): a stale row in the hands of the
\* poller or of a request never brings a deleted tenant back, nor replaces
\* the tenant created in its place: ids only grow, one Create at a time.
NoResurrection ==
  [][\A a \in Apps :
       row'[a].id \notin {0, row[a].id} => row'[a].id = lastId + 1]_vars

\* Whether to poll a with the tokens of s, and with those of its row only where
\* s has none, is to present none that its polls used up.
Clear(s, a) == s.refresh \notin used[a] /\ (used[a] # {} => s.refresh # 0)

\* The inductive invariant behind NeverPresentsUsed: the token file of an app,
\* but while it is being written, and the client of its poll.
UsedInv ==
  /\ \A a \in Apps : (at = "cache" /\ app = a) \/ Clear(cache[a], a)
  /\ at \in {"session", "cache", "get", "save", "history"} => Clear(client, app)

\* A refresh token that a poll exchanged for another is not presented again by
\* the polls of that app, though the row may hold it: PATCH, verify and
\* saveSession write back whole rows they read earlier (source.go 102-120,
\* service.go 172-229), a query may fail, the tenant may be created anew.  The
\* token file goes before the row (provider.go 86-102) and is written first
\* (142-157), so it takes a write of it that fails, or a stop before it.
NeverPresentsUsed == at = "session" => client.refresh \notin used[app]

\* Whether GoBiz will have no more of a session.
Spent(s) == IF s.refresh = 0 THEN s.access \notin valid
                             ELSE s.refresh \notin live

\* tenant.go 12, "ErrAuthFatal means credentials/lockout", and README 18,
\* "Re-verify with password, then PATCH enabled: true": a first attempt that
\* ends in a fatal error shows that the session of the row it was built from
\* is spent, at least if GoBiz issued no tokens since.  It does not hold: the
\* token file may be older than the row, and without a refresh token a network
\* error will do (provider.go 86-137).
FatalMeansLockedOut ==
  at = "block" /\ ~retried /\ built[app].access = issued => Spent(built[app])

\* README 80, "New tenants and credential updates stay disabled until you
\* set enabled: true".  It does not hold: saveSession (source.go 102-120) and
\* the PATCH and verify handlers write back a whole row they read earlier.
StaysDisabled ==
  \A a \in awaiting : ~row[a].enabled

\* README 80, "Enabled tenants are picked up on the next poll cycle", of those
\* that are not blocked (source.go 55-78).  One created anew for an app that
\* was blocked is not picked up.
UnblockedPickedUp ==
  \A a \in Apps :
    Exists(a) /\ row[a].enabled /\ a \notin gate
      ~> app = a \/ a \in gate \/ ~(Exists(a) /\ row[a].enabled)

\* blockAuth (source.go 122-141) does disable the row of a tenant that ran
\* into a fatal error, if only for a moment, unless the process goes down or
\* a query fails.
FatalDisables ==
  \A a \in Apps :
    at = "block" /\ app = a ~>
      ~Exists(a) \/ ~row[a].enabled \/ (at = "idle" /\ strikes[a] = 0)
=============================================================================
