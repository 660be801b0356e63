# PayWatch in TLA+

Specifications of PayWatch: what its watcher promises about every pay-in, and
what its admin API, its table of tenants and its poller promise about the
GoBiz sessions they share. Line numbers refer to the Go sources in `src/`.

## 1. The system

PayWatch is one Go process. A *watcher* goroutine wakes every
`POLL_INTERVAL_MS`, asks the *tenant source* for one provider per enabled
tenant, polls the GoBiz history of each, and sends a claim to qrisgate for
every pay-in it has not seen before. An *admin HTTP API* edits the tenants in
Postgres at the same time. `main` starts both and ends when a signal arrives.

    admin API --> tenants (Postgres) <--> tenant source --> GoBiz provider --> GoBiz
         \                                 ^   |   ^            |
          `--> auth gate (memory) ---------'   |   |            `--> token file per app
                                               v   |
                       state file <--> watcher ----'--> settler --> qrisgate

### Components

| component (source) | state | operations | talks to |
|---|---|---|---|
| watcher (`internal/watcher/watcher.go`) | `seen`, `seededApps`; the state file | `Run`, `tick`, `handle`, `persistLocked`, `load` | source (calls), settler (calls), file store |
| settler, qrisgate client (`internal/settle`, `internal/qrisgate`) | none | `Settle`, `Claim` | qrisgate over HTTP, 15 s timeout |
| file store (`internal/cache/file.go`) | one JSON file | `Load`, `Save` | file system, not atomically |
| tenant source (`internal/tenant/source.go`) | none of its own | `Providers`, `saveSession`, `blockAuth`, `guardedProvider.Poll` | table, gate, provider (callback `SaveSession`) |
| auth gate (`internal/tenant/authgate.go`) | `byApp`, in memory | `Block`, `Unblock`, `Blocked` | shared by poller and admin service, mutex |
| GoBiz provider (`internal/provider/gobiz/provider.go`) | client tokens during one poll; the token file | `Poll`, `ensureSession`, `refresh`, `persistLocked` | GoBiz client, token file, `SaveSession` |
| GoBiz client (`internal/provider/gobiz/{auth,history,client}.go`) | access token, refresh token, merchant | `RefreshAccessToken`, `TokenValid`, `LoginPassword`, `ResolveMerchantID`, `History` | GoBiz over HTTPS |
| admin service (`internal/admin/service.go`) | none of its own | `Create`, `Update`, `Delete`, `Verify`, `VerifyTenant` | table, gate, pending sessions, GoBiz client |
| pending sessions (`internal/admin/pending.go`) | sessions by hash of email and password, 60 s | `Put`, `Get`, `Clear` | admin service |
| tenant repository (`internal/repository/postgres`) | the table `tenants`, `app_id` UNIQUE | `Create`, `GetByID`, `GetByAppID`, `ListEnabled`, `Update`, `Delete` | Postgres, one statement each, no transactions |
| HTTP layer, rate limit, configuration, `main` | the limiter's buckets | routing, shutdown | everything |

### What is hard

* **Crashes and restarts.** `handle` marks, persists, then settles; the
  process may stop between any two of these. `os.WriteFile` truncates first.
  `main` does not wait for the watcher. The state file is in `/tmp`, outside
  the volume, so a redeploy loses it (`docker/docker-compose.yml` 29, 33).
* **Bounds.** The state file keeps 2000 ids, an arbitrary 2000 when there are
  more. One poll reads a page of thirty pay-ins of one day.
* **Unserialised read-modify-write.** `saveSession`, `blockAuth`, `PATCH` and
  `verify` each read a tenant, hold it over network calls, and write every
  column back.
* **State in two places.** Tokens live in the row and in the token file, and
  "do not poll" is in the row and in the gate.
* **One-time refresh tokens.** The exchange may succeed and its answer be lost.
* **Time.** The 60 s window between verify and save; the rate limit.

### What makes each component correct

* watcher: no pay-in is claimed twice; a pay-in that was there when the app
  was seeded is never claimed; what is claimed is on disk first; every other
  pay-in it can see is claimed, unless a stop falls into one known gap.
* file store: a file that was cut short loads as no state, never as half of it.
* source, gate: a fatal auth failure stops the polling of that app at once,
  whatever other writers do to its row; an enabled app that is not blocked is
  polled; the failure disables the row.
* provider: a refresh token that was exchanged is not presented again; a poll
  makes few requests, whatever fails; a rotated refresh token is not lost. (That
  a fatal failure is evidence against the tenant's credentials would be part of
  this, and does not hold.)
* GoBiz client, history: a transaction with one `transaction_id` is delivered
  under it, whichever source answers, and none that a page can show is passed
  over.
* admin service, repository: a tenant is enabled only when somebody asked for
  it; a deleted tenant does not come back.
* pending sessions: a session goes to a save that knows the password, within
  the window, and to one save only.

## 2. The modules

| module | what it is |
|---|---|
| `ClaimOnce` | abstract: the fate of a pay-in is decided once; `Watcher` and `GobizPoll` implement it |
| `Watcher` | the watcher with its state file, the process around it, settling |
| `WatcherProofs` | theorems about `Watcher`, refinement of `ClaimOnce` included |
| `MCWatcher` | constants for TLC |
| `Lockout` | abstract: a poll that fails for good locks its app until it is reopened; `Tenants` implements it |
| `Tenants` | table, gate, poller sessions and token files, admin requests |
| `TenantsProofs` | theorems about `Tenants`, refinement of `Lockout` included |
| `GobizHistory` | the data of `history.go`: ids and page |
| `GobizPoll` | the polls of one tenant, a step per request and per write, with the tokens they leave and what the watcher makes of the listings; extends `GobizHistory` |
| `GobizPollProofs` | theorems about both, refinement of `ClaimOnce` included |
| `PendingSessions` | the store of pending sessions and the requests that meet in it |
| `PendingProofs` | theorems about `PendingSessions` |
| `MCTenants`, `MCGobizPoll`, `MCPendingSessions` | constants for TLC |

`PROJECT.json` maps every definition to its lines. Operators whose comment
begins "A bug" are variants of the definition below them that are not part of
the specification; `PROJECT.json` says which property each of them breaks.

### Watcher

`seen`, `seededApps` are the two maps, `diskApps`, `diskIds` are what `load`
would read, `newOnes` is the slice that `handle` settles after it released the
lock. `pc` is the position of the goroutine, with `ret` telling whether a save
belongs to `handle` or to the end of `Run`. `listing` says of each pay-in
whether GoBiz would return it. `stopping` is the cancelled context.

| code | actions |
|---|---|
| `tick` 114-128 | `StartTick(S)`, `PollFails(a)`, `EndTick` |
| `handle` 130-158 | `PollSeeded(a)`, `PollUnseeded(a)` |
| `persistLocked` 74-87 with `FileStore.Save` | `Truncate`, `Write`; failures `OpenFails`, `WriteFails` |
| `handle` 161-166, `Settle`, `Claim` | `SettleAccepted(k)`, `SettleNotAccepted(k)` |
| `Run` 101-105 | `FinalSave` |
| `New`, `load` | `Restart` |
| `main`, docker | `Sigterm`, `Exit`, `Crash`, `Redeploy` |

`handle` up to the save is one action: it holds the mutex, and nothing that it
computes is visible before the file is written. The save is two actions,
because a crash between them is what leaves the file empty. A listing is the
set of pay-ins of the app in the window. Order does not matter to `handle`
except for the order of the claims, which the model leaves open.
Pay-ins whose external id is empty are skipped by the code and left out here.

History variables record what happened for the properties; no guard reads
them. `swallowed`, `polled`, `fresh` and `lost` are about pay-ins and apps.
`behind` tells that the last save left ids of the map out of the file, or could
not open it; `forgotten` has the decided pay-ins of seeded apps that some
process did not find in the file it started from (`Remember`, part of
`Restart`).

### Tenants

Tokens are numbered as GoBiz issues them, at a login or a refresh: access token
*n* works while it is in `valid`, refresh token *n* while it is in `live`. A
*session* is what a row, a token file or a client has, one of each or 0 for
none. `validateGobiz` asks for the access token only (`service.go` 345-349,
359-366), so a row may have no refresh token (`AccessOnly`). `row` is the table
by app id with the id of the row, its enabled flag and its session; `cache` is
the token file of each app; `gate` is the auth gate. The poller has one position
`at`, because the watcher polls one tenant after the other; `built` has the
sessions the providers of this tick were built from, `client` that of the poll in
hand, and `snap` the row it read and will write back. An admin request is a
record in `req`; up to `Cardinality(Admins)` are in progress together. `strikes`,
`awaiting` and `wanted` are history: fatal failures since `Unblock`, apps whose
tenant is new or has new credentials and was not enabled since, apps whose
tenant some request asked to enable. So is `used`: the refresh tokens that the
polls of an app exchanged for another since a write of its file last failed.

`Lockout` knows of each app only whether its door is open, being polled or
locked. `Door` maps the states to it: the app in the poller's hands is being
polled until its failure is final, and an app with a strike is locked.

| code | actions |
|---|---|
| `ListEnabled`, `Providers` | `ListEnabled`, `SkipBlocked` (the gate is read after the query) |
| `ensureSession` 79-117 | `StartPoll(a)`, `SessionValid`, `Refresh(rotates)`, `RefreshRefused`, `RefreshMissing`, `RefreshLost`, `SessionError` |
| `persistLocked` 145-159, `saveSession` | `SaveCache`, `SessionGet`, `SessionSave`, `SessionNotSaved` |
| `Poll` 65-76 | `HistoryReturns`, `HistoryUnauthorized` |
| `blockAuth` | `Block`, `BlockGet`, `BlockSave`, `BlockNotSaved` |
| `Service.Create`, `Delete` | `Create(a, enabled)`, `Delete(a)` |
| `Service.Update`, `applyGobizSession` | `PatchGet`, `PatchLogin` or `PatchToken`, `PatchUpdate`, `Unblock` |
| `Service.VerifyTenant` | `VerifyGet`, `VerifyRefresh`, `VerifySave`, `VerifyLost` |
| errors of either | `GiveUp` |
| `main` | `Restart` |

Every statement on the table is one action, as it is in Postgres, and every
GoBiz request is one, so an admin request may fall between any two of the
poller's steps. `Create` is one action: nothing it reads before the INSERT is
shared, and its login only issues tokens.

`RefreshMissing` needs no refusal by GoBiz: `TokenValid` takes any error for an
invalid token, and without a refresh token that is an `ErrAuthFatal`
(`provider.go` 112-137). A poll that fails without it (`SessionError`) has a
refresh token, or got past `TokenValid`.

Abstractions: the merchant id is not part of a session, so `ResolveMerchantID`
matters only as a way to fail or to lose a refresh; the two forms of the refresh
request are one; and no 5xx comes after an exchange that was made. `GobizPoll`
has all three. GoBiz may let several access tokens be valid at once. Names,
emails and other columns are left out.

### GobizPoll

One tenant whose polls follow one another; a blocked tenant is passed over
until a `PATCH`. Tokens are numbered as in `Tenants`. `row` and `file`
are what persists, `cfg` and `client` belong to the provider of the poll at
hand, and `Ends` throws them away, because `Source.build` makes new ones each
cycle. `failed` is the local `err` of `History`, `retried` tells that `Poll`
is past its comparison with `errUnauthorized`. `posts` and `asks` count the
requests of a poll. Transactions are numbered as they were paid; a source
shows a prefix of them, so a lagging one is a shorter prefix. What ids a
transaction has in the answers of the two sources (`AnalyticsIds`,
`JournalIds`) is a constant, so that the fallbacks of `mapAnalytics` and
`mapJournal` give it two keys where they do in the code.

| code | actions |
|---|---|
| `Poll`, `ensureSession` 79-117 | `StartPoll`, `CheckValid`, `CheckInvalid` |
| `refresh`, `RefreshAccessToken` | `RefreshMissing`, `Refresh(rotates)`, `RefreshError`, `RefreshRefused` (the second form follows), `RefreshFatal` |
| `ResolveMerchantID` | `MerchantKnown`, `MerchantFails` |
| `persistLocked` | `SaveFile`, `SaveFileFails`, `SaveRow`, `SaveRowFails` |
| `historyAnalytics` | `AnalyticsLists(m)`, `AnalyticsEmpty(m)`, `AnalyticsFails` |
| `historyJournal`, retry of `Poll` | `JournalLists(m)`, `JournalUnauthorized`, `JournalFails` |
| `handle` | `Deliver`, part of the two listing actions |
| GoBiz, the admin, the process | `Pay`, `Expire`, `Patch(complete)`, `Crash` |

The watcher's state is in memory only and survives `Crash`, because its file is
the subject of `Watcher`; a failing claim is a claim here, for the same reason.
`Patch` stores new tokens in one step, and `SaveRow` is one step, because
`Tenants` has the races between them. An admin may also paste old or wrong
tokens; these behave like tokens GoBiz revoked later, which the model has.

### PendingSessions

`pending` is the map by key, a key being an account and a password (the hash
is taken to be injective, and `Norm` maps each spelling of an email to its
account). `req` says where each client's request is; `row` keeps of a tenant
its session and email. Time is a counter of ticks, `Minute` of them being the
lifetime.

| code | actions |
|---|---|
| `verifyGobizSession` with a password | `Verify` (the login), `Put` |
| `applyGobizSession` with a password | `SaveHit` or `SaveMiss` (`Get`), then `Clear` or `Login`, `LoginFails` |
| `Service.Create`, `Update`, their query | `Store`, `StoreFails` |
| `gcLocked` | `Gc`, part of `Put`, `SaveHit`, `SaveMiss` |
| `main` | `Restart` |

Each is one critical section of the store's mutex, one login or one query, so
everything may happen between any two of them.

## 3. The runs

| run | bounds | shows |
|---|---|---|
| `watcher_safety` | 2 apps, 3 pay-ins, file of 2 ids, failing saves, 2 stops | `SeenInv`, `AtMostOnce`, `SeedNeverSettles`, `ForgetsOnlyIfBehind`, `WriteAhead`, `NotSeededAgain` |
| `watcher_refines` | 1 app, 3 pay-ins, file of 3 ids, no failing saves, 2 stops, with and without dry run | `NothingDropped`, and that `Watcher` implements `ClaimOnce` |
| `watcher_accounted` | 2 apps, 2 pay-ins of one of them, file of 1 id, failing saves, 1 stop, fairness | `Accounted` |
| `watcher_full_file` | 1 app, 2 pay-ins, file of 1 id, 1 stop | `SettleAtMostOnce` is violated |
| `watcher_late_seed` | 1 app, 2 pay-ins, no stop | `OnlyOldPayInsSeeded` is violated |
| `tenants_safety` | 1 app, 1 admin request at a time, 2 generations of tokens, 1 row, 1 restart, failing queries | `GateInv`, `OneStrike`, `EnabledOnRequest`, `NoResurrection`, `UsedInv`, `NeverPresentsUsed`, and that `Tenants` implements `Lockout` |
| `tenants_liveness` | 1 app, 1 admin request, sessions with and without a refresh token, tokens issued once, 2 rows, an unwritable token file, errors of GoBiz, fairness | `UnblockedPickedUp`, `FatalDisables`, and again `EnabledOnRequest`, `NoResurrection`, and that `Tenants` implements `Lockout` |
| `tenants_stale_tokens` | 1 app, 1 admin request, 2 generations, 1 row, token files | `FatalMeansLockedOut` is violated |
| `tenants_reenabled` | 1 app, 1 admin request, 2 generations, 1 row | `StaysDisabled` is violated |
| `gobiz_poll` | 2 transactions, a page of 2, no lag, 2 tokens, every request and write failing, crashes, fairness | `RequestBudget`, `RotationKept`, `Listed` |
| `gobiz_listings` | 4 transactions, a page of 2, answers that lag by up to 2, 1 token, the same faults | `NoGaps`, `OldStaysUnclaimed`, and that `GobizPoll` implements `ClaimOnce` |
| `pending_sessions` | 2 clients, 2 tenants, 3 emails of 2 accounts, 2 passwords, 2 sessions, 3 ticks, restarts | `PasswordChecked`, `WindowKept`, `OneTenant`, `InWindow` |

**Why the bounds are enough.** `watcher_safety`: a double claim takes one
pay-in decided, a file that forgets it, and a restart; two pay-ins of one app
compete for the file, the third makes the other app's seeding interleave, and
the second stop lets a run recover from a recovery. Redeploys are not
bounded. `MaxSeen` is 2 there so that the limit is met. `watcher_refines`
has all three of one app, a seed and two that are settled in one tick, which a
stop may come between. It takes `MaxSeen` = 3, exactly full and never over; with
`MaxSeen` = 2 it fails, which is `watcher_full_file`. `Tenants`: the properties speak of one app, and
apps interact only by the poller being busy. Two questions ask for two runs.
What a poll presents depends on generations of tokens: `tenants_safety` has the
one before and the one after a refresh, a single row that both are written
back to, and complete sessions (an access token alone has nothing to use
up). What becomes of gate and rows depends on how polls end and on tenants
coming and going, not on which generation a poll presents: `tenants_liveness`
has a tenant and its successor (2 rows), sessions without a refresh token, and a
GoBiz that may be out of order, but issues tokens only once, so that no request
there gets new ones. A token file that cannot be written is in
`tenants_liveness`; in `tenants_safety` a write of the file fails by the restart
cutting it short. (With failing writes, or with two rows, the properties
hold as well; the runs take longer.) One admin slot is
enough to race with the poller at every step; the theorems below cover any
number of apps, slots, rows and tokens at once.
`gobiz_poll`: two tokens are the one before and the one after a rotation, and an
access token may expire again right after a refresh, so that the retry runs to
its end: all of the four requests to the token endpoint that `RequestBudget`
allows are made. `gobiz_listings`: a gap needs a seeding, something passed over
and something newer. Once the app is seeded by the first transaction, a burst
needs more than a page beyond it, the fourth; and a lag of two makes the
sources disagree about a whole page. Tokens matter to a listing only
in whether there is one, hence one of them. The transactions differ in their
ids: the first has none in analytics, the second has an `id` but no
`transaction_id` there, unlike in the journal, the others agree.
`gobiz_poll` has neither lag nor a burst, so that the exception does not weaken
`Listed` in it; its first transaction is one that only the journal delivers.
At the bound the last token is issued again, so that refreshing never stops.
`pending_sessions`: a race for a key takes two requests, a replaced session a
second one; two spellings of one account and an account with the same password
would share an entry if the key were wrong; a minute of two ticks out of three
lets a session expire and be replaced.

`AtMostOnce` and `SeedNeverSettles` except the pay-ins that are `forgotten`, and
`ForgetsOnlyIfBehind` says what it takes to forget one: a save that left ids
out, or could not open the file, as the last thing that happened to the file.
A later save that fits repairs it. A crash in the middle of a save, a write that
fails after the truncation and a redeploy forget nothing, since an empty file
seeds anew. `WriteAhead` excepts a save that fell short in the same way.

The listing properties have exceptions. `NoGaps` and `Listed` except a `burst`,
more than a page of transactions between two listings (it occurs in
`gobiz_listings`), and speak of the transactions that both sources deliver
(`InBoth`): analytics drops those without any id from a page that has others
(`history.go` 154). `OldStaysUnclaimed` excepts runs in which a source showed
less than an earlier listing did (`lagged`), for what such a listing seeds, and
what it misses, is older than what is seeded; and it and `ImplementsClaimOnce`
speak of the transactions that are `Agreeing`, those with the same
`transaction_id` in both sources or with ids in one of them only. This is a
condition on the answers, not on the keys made of them; the others may be
claimed twice, as the second transaction of `gobiz_listings` is.
`NeverPresentsUsed` speaks of the tokens that were used up with their successor
safe in the token file: a failing write of the file, or a stop before it, leaves
the used one there or in the row, and the next poll presents it. `RotationKept` has `rotated` reset by
the faults that really lose a token: an answer of GoBiz that does not arrive, a
failing merchant lookup after a refresh, a write of the token file that leaves
an older session in it, both writes failing, a stop before the first of them.
`WindowKept` and `OneTenant` leave out keys that two requests raced for
(`raced`), where the code does hand a session to two saves, or clear a newer
one than it read.

Deadlock is checked in every run: the watcher can always restart or tick, and
the poller can always tick.

### The violated statements

Each is something a comment or the README says and the code does not do.

1. `SettleAtMostOnce` (`domain/event.go` 12, 25: dedupe key). Beyond 2000 ids
   the file keeps an arbitrary 2000; after a restart a pay-in that is still in
   the history may be claimed again.
2. `OnlyOldPayInsSeeded` (`watcher.go` 23: seeds per-app, then settles new
   pay-ins). Seeding needs a non-empty listing, so the first pay-in of
   an app that had none in its first polls is swallowed.
3. `FatalMeansLockedOut` (`domain/tenant.go` 12: `ErrAuthFatal` means
   credentials or lockout; README 18: the remedy). The token file wins over the
   row and nobody updates it when the row gets other tokens. In the run of
   `tenants_stale_tokens` a poll saves the file, POST verify exchanges the refresh
   token and stores the new one in the row, and the next poll presents the
   one of the file, is refused and blocks a tenant whose row is good. New
   credentials by PATCH, the remedy, leave the file behind in the same way.
4. `StaysDisabled` (README 80). `saveSession` writes the enabled flag back
   that it read before the update.
Three more things the models do, without a run of their own:

* `RefreshMissing`: `TokenValid` returns false on a transport error (`auth.go`
  165), and with no refresh token in row or file that is fatal (`provider.go`
  135-137). `validateGobiz` admits a tenant with an access token alone, so a
  failing network blocks it at its first poll, though its token is good. This
  violates `FatalMeansLockedOut`, too.
* `Create` does not unblock an app that is in the gate. A tenant that is blocked,
  deleted and created anew as enabled is listed and skipped in every cycle, until a
  PATCH or a restart (README 80 says enabled tenants are picked up on the next
  cycle); `UnblockedPickedUp` leaves it out.
* `mapAnalytics` falls back to `id` and `order_id` when `transaction_id` is empty
  (`history.go` 153), and `mapJournal` over its own fields (181): a transaction
  that has a `transaction_id` in the journal only has two keys, and is claimed
  under both when analytics and journal take turns. `ImplementsClaimOnce` leaves it
  out.

### Fairness

`Watcher`: `WF(Step)`, since the goroutine runs, `main` returns after a signal, and
docker restarts the container (`restart: unless-stopped`). Strong fairness of
the tick that includes an app and of its successful poll: an enabled tenant
is in every tick that its list query succeeds in, the loop goes over all of
them, and GoBiz does not fail the poll of an app forever. Nothing is assumed of arrivals,
signals, crashes, redeploys or of which outcome a save or claim has.
`Tenants`: weak fairness of the poller, which is one goroutine, and of each
admin request in progress, which the HTTP server runs. The outcome of no
GoBiz request is assumed.
`GobizPoll`: weak fairness of the poll, since the watcher ticks again and
again, and `<>[][Healthy]_vars`: the faults have an end, from some time on
GoBiz answers as the tokens deserve, writes are stored and the process stays
up, and an access token expires between polls rather than during one, for it
outlasts a poll by far. Customers may pay and admins may patch even then. Without
it `Listed` is false, for nothing can be listed while GoBiz is down.
`PendingSessions` has safety properties only.

## 4. The proofs

Checked by TLAPS for every value of the constants under their assumptions:
`Watcher` assumes finitely many pay-ins, each of one app; `Tenants` assumes
that `NoApp` is not an app and that the bounds are naturals. `GobizHistory`
assumes that different transactions share no ids (`IdsAssumption`), and nothing
of the ids that one transaction has in the two sources. `PendingSessions`
assumes that each account has one password at GoBiz.

`WatcherProofs`

* `TypeCorrect`: `Spec => []TypeOK`.
* `SeenInvariant`: `Spec => []SeenInv`. `AtMostOnce` is not inductive: it says
  nothing of what memory or file know. `SeenInv` adds that both are states the
  watcher may work from: the decided pay-ins that a watcher with these apps and
  ids would take for new (`Missed`) are among the forgotten ones, for the memory
  always, for the file unless the last save fell short. It also says that what is
  about to be settled is undecided and, in the settle loop, in such a file, and
  where in the code `newOnes` is not empty. A restart turns the condition on the
  file into the one on memory, a write that one into the first, and a truncated
  file fulfils it trivially because it has no seeded app. The proof has a step
  per action (`SeenStep`).
* `ClaimedAtMostOnce`: `AtMostOnce`, from `newOnes` meeting the decided pay-ins
  in forgotten ones only.
* `SeedsStayUnsettled`, `SavedBeforeSettled`, `OnlyShortSavesForget`,
  `SeededOnce`: the action properties, from the same invariant.
* `SeenIsAccountedFor`: `NothingDropped`, which is inductive beside `SeenInv`.
* `RememberingImplementsClaimOnce`: `Spec /\ [](forgotten = {})` implements
  `ClaimOnce`. Every step is a `Retire`, a `Decide` or a stutter as long as
  nothing is forgotten, which only a start can change (`ForgottenStays`); a
  failing save or a full file matters only if it makes one forget.
  `WatcherImplementsClaimOnce` follows: if saves do not fail and the file holds
  as many ids as there are pay-ins, no save leaves the file behind
  (`FileStaysWhole`), so nothing is ever forgotten.

`TenantsProofs`

* `TypeCorrect`: `Spec => []TypeOK`.
* `GateInvariant`: `Spec => []GateInv`. `OneStrike` is not inductive, because
  a second strike is excluded only by the app having been struck from the
  tick. `GateInv` says that an app with a strike is in the gate or is the one
  about to enter it, and that nothing the tick may still poll is in the gate.
  `GateFrame` shows once that steps which leave gate, strikes and poller alone
  preserve it.
* `AtMostOneStrike`: `OneStrike`, for any number of apps and requests.
* `StaleWritesAreHarmless`: `NoResurrection`; `TableFrame` does the actions
  that do not write the table, and `Stored` by id does the rest.
* `TenantsImplementLockout`: `ImplementsLockout`. A poll begins with an open
  door because `GateInv` has no struck app among those the tick still polls; a
  poll that ends reopens the door unless it was refused, and `Unblock` and
  `Restart` are `Reopen` (`DoorStep`, a step per action that moves a door).
* `EnabledOnlyOnRequest`: `EnabledOnRequest`. The invariant `WantedInv` says of
  the rows in the poller's and the requests' hands that writing them back is
  `Harmless`: they enable only a tenant that somebody asked to enable, or their id
  is no longer that of a row. Ids only grow, so what is harmless stays so
  (`HarmlessStays`, with `IdFrame`); `RequestRows` shows how a request gets to
  its row.
* `UsedTokensStayUsed`: `NeverPresentsUsed`. It says nothing of the file, so the
  invariant is `UsedInv`: the file, but while it is being written, and the client of
  a poll that goes on are `Clear` of used tokens and, once any token was used,
  not empty, so that `ensureSession` never falls back on the row, whose tokens
  anybody may have written back. `UsedStep` has a step per action; it rests on
  the file being written before the row and on a token being used only when
  its successor is in that file.

`GobizPollProofs`

* `TypeCorrect`, `BoundedRequests`, `RefreshTokenKept`, `NothingPassedOver`,
  `OldNeverClaimed`, `PollsImplementClaimOnce`. The requests of a poll are
  bounded because `posts` and `asks` are tied to `pc` and `retried`. The token
  invariant says in which of client, file and row the rotated token is at each
  `pc`. The rest is about listings. The ids under which the sources deliver a
  transaction (`OwnKeys`) are its own, by `IdsAssumption`, and only one if it is
  `Agreeing` (`OneKey`), so `known` determines which of these were delivered
  (`WatcherInvariant`); the others may have two, and may be claimed twice. A
  page from a source that knows *m* contains everything from *m* down to the last
  listing or leaves a burst, whatever the ids. `OldNeverClaimed` and
  `PollsImplementClaimOnce` are about the `Agreeing` transactions, the first as
  long as nothing `lagged`.

`PendingProofs`

* `TypeCorrect`, `NoSessionWithoutPassword`, `NothingAfterTheWindow` from
  `Basic`: whatever holds a session -- entry, request, row, promise -- is for the
  account the session was issued to, and an entry expires a minute after its
  session was put.
* `WindowIsKept` from `Taken`: a request about to clear a key has taken what was
  promised there, or the key was raced for.
* `OneTenantPerSession` from `Sole`: unless it was raced for, a session is in one
  place only: pending (with at most one request about to clear it), in one
  request's hands, or in one row.

**Only model-checked.** `Accounted`, `UnblockedPickedUp`, `FatalDisables` and
`Listed`: liveness is out of the prover's reach. All safety properties of the
passing runs are proved.

## 5. Not modelled

* The statuses and the time window of the history requests as data. The
  analytics request asks for `REFUND` and `PARTIAL_REFUND`, too, and nothing
  sets these apart from pay-ins afterwards (`history.go` 59, 150-166); what
  GoBiz answers for them is not known from the repository.
* Accounts in `Tenants`. `saveSession` looks the tenant up by app id, so the poll
  of a deleted tenant may store its session in the tenant created in its
  place; `SessionGet` does so, but no property speaks of it, because a session does
  not record which account it belongs to.
* Amounts. Both mappings divide a JSON number, a float64, by 100 and truncate it
  to whole rupiahs (`history.go` 161 and 190); floating-point numbers are beyond
  TLA+ and its tools, and no control depends on the result.
* A composition of `Watcher`, `Tenants` and `GobizPoll`. They share actions
  rather than state: `Watcher` takes a poll as one step that fails or lists,
  `GobizPoll` the watcher's bookkeeping without its file, `Tenants` the poll
  without its listing. The product is beyond TLC, and what crosses the borders
  (a poll may fail at any time, the app may drop out of a tick, tokens may be
  changed by somebody else) is free in each of them.
* OTP login and `MarkPaid`, which have no callers.
* HTTP binding, status codes, JSON views, the admin token, the rate limiter
  (echo's token bucket), configuration, migrations, logging: no state of their
  own beyond a library's, or none that changes.
* More than one replica: the README requires one.
* The order of tenants in a tick and the time a slow provider costs the others.

## 6. Order of work

The modules were written in this order, each with its run before its proofs:
`ClaimOnce` and `Watcher`, for what is claimed is what matters most;
`Tenants`, the interleavings; `GobizHistory` and `GobizPoll`, the requests that
both of them take as one step; `PendingSessions`, the only state left. Next
would be accounts in `Tenants`, so that a session and the tenant it is stored
in can disagree, and, if the repository ever says what the refund statuses
return, amounts and statuses as data of a transaction in `GobizHistory`.
