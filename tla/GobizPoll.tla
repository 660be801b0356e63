----------------------------- MODULE GobizPoll -----------------------------
(***************************************************************************)
(* One tenant as the poller sees it, poll after poll, request by request:  *)
(* internal/provider/gobiz (provider.go, auth.go, history.go), the tokens  *)
(* it keeps in a file and in the tenant's row, and what the watcher makes  *)
(* of the listings.  Tenants has the same polls in less detail, among many *)
(* tenants and admin requests; Watcher has the crashes of the watcher.     *)
(*                                                                         *)
(* A poll is made by a new provider with a new client.  Access and refresh *)
(* tokens are told apart here: token n is the access or the refresh token  *)
(* of the nth answer of GoBiz's token endpoint, 0 is the empty string.     *)
(***************************************************************************)
EXTENDS GobizHistory, FiniteSets

CONSTANTS
  MaxTokens,   \* bound: answers of the token endpoint, logins included
  MaxLag       \* how many transactions a listing may be behind

ASSUME BoundsAssumption == MaxTokens \in Nat \ {0} /\ MaxLag \in Nat

VARIABLES
  paid,                 \* GoBiz: the transactions made so far
  valid, live, issued,  \* access and refresh tokens it accepts; the last one
  row, file,            \* the tokens of the tenant's row and of its file
  pc,                   \* where the poll is
  cfg, client,          \* the provider's Config, and its client
  failed, retried,      \* analytics gave an error; Poll is in its retry
  posts, asks,          \* requests of this poll: /goid/token, history
  seeded, known,        \* the watcher: the app is seeded; ids it has seen
  claims,               \* calls of Settle
  \* history, for the properties: the transactions taken as seed, the newest
  \* one of the seeding and of all listings, listings that missed something
  \* or showed less than an earlier one; the refresh token a poll received
  \* last, until a fault loses it or an admin stores another
  seeds, seedTop, top, burst, lagged, rotated

tokens == <<valid, live, issued>>
stored == <<row, file>>
progress == <<pc, cfg, client, failed, retried>>
counters == <<posts, asks>>
watcher == <<seeded, known, claims, seeds, seedTop, top, burst, lagged>>
vars == <<paid, tokens, stored, progress, counters, watcher, rotated>>

Tokens == 1..MaxTokens
Session == [access : 0..MaxTokens, refresh : 0..MaxTokens, merchant : BOOLEAN]
NoSession == [access |-> 0, refresh |-> 0, merchant |-> FALSE]
Keys == ({AnalyticsKey(t) : t \in Txs} \cup {JournalKey(t) : t \in Txs}) \ {NoId}

TypeOK ==
  /\ paid \in 0..MaxTxs
  /\ valid \subseteq Tokens /\ live \subseteq Tokens
  /\ issued \in Tokens
  /\ row \in Session /\ file \in Session
  /\ pc \in {"idle", "check", "refresh", "refreshFlat", "merchant", "file",
             "row", "analytics", "journal", "blocked"}
  /\ cfg \in Session /\ client \in Session
  /\ failed \in BOOLEAN /\ retried \in BOOLEAN
  /\ posts \in Nat /\ asks \in Nat
  /\ seeded \in BOOLEAN /\ known \subseteq Keys
  /\ claims \in [Txs -> Nat]
  /\ seeds \subseteq Txs /\ seedTop \in 0..MaxTxs /\ top \in 0..MaxTxs
  /\ burst \in BOOLEAN /\ lagged \in BOOLEAN
  /\ rotated \in 0..MaxTokens

\* An enabled tenant was created: with a password, which gives a complete
\* session, or from tokens that somebody pasted.
Init ==
  /\ paid = 0
  /\ valid = {1} /\ live = {1} /\ issued = 1
  /\ row \in [access : {1}, refresh : {0, 1}, merchant : BOOLEAN]
  /\ file = NoSession
  /\ pc = "idle" /\ cfg = NoSession /\ client = NoSession
  /\ failed = FALSE /\ retried = FALSE
  /\ posts = 0 /\ asks = 0
  /\ seeded = FALSE /\ known = {} /\ claims = [t \in Txs |-> 0]
  /\ seeds = {} /\ seedTop = 0 /\ top = 0 /\ burst = FALSE /\ lagged = FALSE
  /\ rotated = 0

-----------------------------------------------------------------------------
\* GoBiz, its customers, and the admin.

Pay ==
  /\ paid < MaxTxs /\ paid' = paid + 1
  /\ UNCHANGED <<tokens, stored, progress, counters, watcher, rotated>>

\* An access token expires, at any time.
Expire(t) ==
  /\ t \in valid
  /\ valid' = valid \ {t}
  /\ UNCHANGED <<paid, live, issued, stored, progress, counters, watcher,
                 rotated>>

\* PATCH stores tokens just issued, complete or the access token alone, and
\* enables the tenant (Tenants has it step by step).
Patch(complete) ==
  /\ issued < MaxTokens
  /\ issued' = issued + 1
  /\ valid' = valid \cup {issued + 1} /\ live' = live \cup {issued + 1}
  /\ row' = [row EXCEPT !.access = issued + 1,
                        !.refresh = IF complete THEN issued + 1 ELSE @]
  /\ pc' = IF pc = "blocked" THEN "idle" ELSE pc
  /\ rotated' = 0
  /\ UNCHANGED <<paid, file, cfg, client, failed, retried, counters,
                 watcher>>

-----------------------------------------------------------------------------
\* How a poll goes on, and how it ends.

Goto(l) ==
  /\ pc' = l
  /\ UNCHANGED <<cfg, client, failed, retried>>

Ends(l) ==
  /\ pc' = l
  /\ cfg' = NoSession /\ client' = NoSession
  /\ failed' = FALSE /\ retried' = FALSE /\ posts' = 0 /\ asks' = 0

\* A fault loses the refresh token a poll received.
LostIf(fault) == rotated' = IF fault THEN 0 ELSE rotated

\* ensureSession, first part: what the client lacks comes from the token
\* file, or else from the row; the merchant the other way round.
Loaded(c, g) ==
  [access |-> IF c.access # 0 THEN c.access
              ELSE IF file.access # 0 THEN file.access ELSE g.access,
   refresh |-> IF c.refresh # 0 THEN c.refresh
               ELSE IF file.refresh # 0 THEN file.refresh ELSE g.refresh,
   merchant |-> c.merchant \/ g.merchant \/ file.merchant]

StartPoll ==
  /\ pc = "idle"
  /\ pc' = "check"
  /\ cfg' = row /\ client' = Loaded(NoSession, row)
  /\ UNCHANGED <<paid, tokens, stored, failed, retried, counters, watcher,
                 rotated>>

\* Providers passes a blocked tenant over.
SkipBlocked ==
  /\ pc = "blocked"
  /\ UNCHANGED vars

\* TokenValid: any answer that parses and is not 401 counts as valid, a 5xx
\* to an expired token, too.
CheckValid ==
  /\ pc = "check"
  /\ Goto("merchant")
  /\ UNCHANGED <<paid, tokens, stored, counters, watcher, rotated>>

\* 401, no answer, or one that does not parse.
CheckInvalid ==
  /\ pc = "check"
  /\ Goto("refresh")
  /\ UNCHANGED <<paid, tokens, stored, counters, watcher, rotated>>

\* refresh: without a refresh token the failure is fatal.
RefreshMissing ==
  /\ pc = "refresh" /\ client.refresh = 0
  /\ Ends("blocked")
  /\ UNCHANGED <<paid, tokens, stored, watcher, rotated>>

\* A refresh token was presented, in the first form or in the second.
Presented == pc \in {"refresh", "refreshFlat"} /\ client.refresh # 0

\* GoBiz exchanges it, and may go on accepting it or not.  The answer has a
\* new refresh token, or none, and then the old one is kept.  At the bound it
\* has the last tokens once more.
Refresh(rotates) ==
  /\ Presented /\ client.refresh \in live
  /\ issued' = IF issued < MaxTokens THEN issued + 1 ELSE issued
  /\ valid' = valid \cup {issued'}
  /\ IF rotates
     THEN \E used \in {{}, {client.refresh}} :
            /\ live' = (live \ used) \cup {issued'}
            /\ rotated' = issued'
     ELSE UNCHANGED <<live, rotated>>
  /\ client' = [client EXCEPT !.access = issued',
                              !.refresh = IF rotates THEN issued' ELSE @]
  /\ pc' = "merchant" /\ posts' = posts + 1
  /\ UNCHANGED <<paid, stored, cfg, failed, retried, asks, watcher>>

\* No answer, or one that does not parse: the poll fails, and not fatally.
\* GoBiz may have made the exchange.
RefreshError ==
  /\ Presented
  /\ live' \in {live, live \ {client.refresh}}
  /\ Ends("idle")
  /\ LostIf(live' # live)
  /\ UNCHANGED <<paid, valid, issued, stored, watcher>>

\* Refused, with any status of 400 or more: the same again with the token at
\* the top level of the body.  The session was revoked, or used before, or GoBiz
\* is out of order, and then a 5xx may come after the exchange.
Refused ==
  /\ live' \in {live, live \ {client.refresh}}
  /\ LostIf(live' # live)

RefreshRefused ==
  /\ Presented /\ pc = "refresh"
  /\ Refused
  /\ Goto("refreshFlat") /\ posts' = posts + 1
  /\ UNCHANGED <<paid, valid, issued, stored, asks, watcher>>

\* A bug, for the mutation runs: the second refusal is not an ErrAuthFatal.
RefreshNotFatal ==
  /\ Presented /\ pc = "refreshFlat"
  /\ Refused
  /\ Ends("idle")
  /\ UNCHANGED <<paid, valid, issued, stored, watcher>>

\* Refused again: ErrAuthFatal, and the tenant is blocked.
RefreshFatal ==
  /\ Presented /\ pc = "refreshFlat"
  /\ Refused
  /\ Ends("blocked")
  /\ UNCHANGED <<paid, valid, issued, stored, watcher>>

\* ensureSession, last part: the merchant is known, or looked up.
MerchantKnown ==
  /\ pc = "merchant"
  /\ client.merchant \/ client.access \in valid
  /\ pc' = "file" /\ client' = [client EXCEPT !.merchant = TRUE]
  /\ UNCHANGED <<paid, tokens, stored, cfg, failed, retried, counters,
                 watcher, rotated>>

\* The lookup fails: the poll is over, and nothing is persisted.
MerchantFails ==
  /\ pc = "merchant" /\ ~client.merchant
  /\ Ends("idle")
  /\ LostIf(posts # 0)
  /\ UNCHANGED <<paid, tokens, stored, watcher>>

-----------------------------------------------------------------------------
\* persistLocked: the token file, then the row.

\* A bug, for the mutation runs: the file keeps the refresh token it had.
SaveFileKeepsRefresh ==
  /\ pc = "file"
  /\ file' = [client EXCEPT !.refresh = IF file.refresh # 0 THEN file.refresh
                                                           ELSE @]
  /\ Goto("row")
  /\ UNCHANGED <<paid, tokens, row, counters, watcher, rotated>>

SaveFile ==
  /\ pc = "file"
  /\ file' = client
  /\ Goto("row")
  /\ UNCHANGED <<paid, tokens, row, counters, watcher, rotated>>

\* The error of the write is dropped.  The file may be cut short, and then
\* it loads as nothing; or it keeps an older session, which the next poll
\* will prefer to the row.
SaveFileFails ==
  /\ pc = "file"
  /\ file' \in {file, NoSession}
  /\ Goto("row")
  /\ LostIf(file'.refresh \notin {0, client.refresh})
  /\ UNCHANGED <<paid, tokens, row, counters, watcher>>

\* saveSession, in one step here: an empty refresh token leaves the row's.
SaveRow ==
  /\ pc = "row"
  /\ row' = [access |-> client.access,
             refresh |-> IF client.refresh # 0 THEN client.refresh
                                               ELSE row.refresh,
             merchant |-> TRUE]
  /\ Goto("analytics")
  /\ UNCHANGED <<paid, tokens, file, counters, watcher, rotated>>

\* The query failed: only logged.
SaveRowFails ==
  /\ pc = "row"
  /\ Goto("analytics")
  /\ LostIf(file.refresh = 0 /\ row.refresh # client.refresh)
  /\ UNCHANGED <<paid, tokens, stored, counters, watcher>>

-----------------------------------------------------------------------------
\* History, and handle on its result.

\* A bug, for the mutation runs: what is not known is claimed, seeded or not.
ClaimedUnseeded(S, keys) == {t \in S : keys[t] \notin known}

\* handle: the transactions of a seeded app whose ids it has not seen.
New(S, keys) == IF seeded THEN {t \in S : keys[t] \notin known} ELSE {}

\* The watcher gets the transactions S, under the given ids, of a source
\* that knew the first m.
Deliver(S, keys, m) ==
  /\ claims' = [t \in Txs |-> claims[t] + IF t \in New(S, keys) THEN 1 ELSE 0]
  /\ known' = known \cup {keys[t] : t \in S}
  /\ seeded' = (seeded \/ S # {})
  /\ seeds' = IF seeded THEN seeds ELSE S
  /\ seedTop' = IF ~seeded /\ S # {} THEN m ELSE seedTop
  /\ top' = IF S # {} /\ m > top THEN m ELSE top
  /\ burst' = (burst \/ (seeded /\ m > top + PageSize))
  /\ lagged' = (lagged \/ m < top)

\* What a source may know at the moment: all, or all but the last few.
Known(m) == m \in 0..paid /\ paid <= m + MaxLag

AnalyticsLists(m) ==
  /\ pc = "analytics" /\ client.access \in valid
  /\ Known(m) /\ AnalyticsList(m) # {}
  /\ Deliver(AnalyticsList(m), [t \in Txs |-> AnalyticsKey(t)], m)
  /\ Ends("idle")
  /\ UNCHANGED <<paid, tokens, stored, rotated>>

\* Nothing, or nothing with an id: ask the journal.
AnalyticsEmpty(m) ==
  /\ pc = "analytics" /\ client.access \in valid
  /\ Known(m) /\ AnalyticsList(m) = {}
  /\ Goto("journal") /\ asks' = asks + 1
  /\ UNCHANGED <<paid, tokens, stored, posts, watcher, rotated>>

\* 401 or any other error: ask the journal, but remember it.
AnalyticsFails ==
  /\ pc = "analytics"
  /\ pc' = "journal" /\ failed' = TRUE /\ asks' = asks + 1
  /\ UNCHANGED <<paid, tokens, stored, cfg, client, retried, posts, watcher,
                 rotated>>

JournalLists(m) ==
  /\ pc = "journal" /\ client.access \in valid
  /\ Known(m)
  /\ Deliver(JournalList(m), [t \in Txs |-> JournalKey(t)], m)
  /\ Ends("idle")
  /\ UNCHANGED <<paid, tokens, stored, rotated>>

\* A bug, for the mutation runs: every 401 of the journal is retried.
JournalRetriesAlways ==
  /\ pc = "journal" /\ client.access \notin valid
  /\ client' = Loaded([client EXCEPT !.access = 0], cfg)
  /\ pc' = "check" /\ failed' = FALSE /\ retried' = TRUE /\ asks' = asks + 1
  /\ UNCHANGED <<paid, tokens, stored, cfg, posts, watcher, rotated>>

\* 401 after an analytics answer without error: History returns
\* errUnauthorized itself, and Poll starts over with the access token unset.
JournalUnauthorized ==
  /\ pc = "journal" /\ client.access \notin valid
  /\ ~failed /\ ~retried
  /\ client' = Loaded([client EXCEPT !.access = 0], cfg)
  /\ pc' = "check" /\ failed' = FALSE /\ retried' = TRUE /\ asks' = asks + 1
  /\ UNCHANGED <<paid, tokens, stored, cfg, posts, watcher, rotated>>

\* Any other error, or a 401 that is wrapped because analytics failed, too:
\* the poll fails.  So does the retry on a 401.
JournalFails ==
  /\ pc = "journal"
  /\ Ends("idle")
  /\ UNCHANGED <<paid, tokens, stored, watcher, rotated>>

\* The process goes down; a token file being written may be cut short.  (The
\* watcher's own state is the business of Watcher.)
Crash ==
  /\ pc \notin {"idle", "blocked"}
  /\ Ends("idle")
  /\ file' \in {file} \cup (IF pc = "file" THEN {NoSession} ELSE {})
  /\ LostIf(\/ posts # 0 /\ pc \in {"merchant", "file"}
            \/ /\ pc \in {"file", "row"} /\ file'.refresh = 0
               /\ row.refresh # client.refresh)
  /\ UNCHANGED <<paid, tokens, row, watcher>>

-----------------------------------------------------------------------------
Poll ==
  \/ StartPoll \/ SkipBlocked
  \/ CheckValid \/ CheckInvalid
  \/ RefreshMissing \/ RefreshError \/ RefreshRefused \/ RefreshFatal
  \/ \E rotates \in BOOLEAN : Refresh(rotates)
  \/ MerchantKnown \/ MerchantFails
  \/ SaveFile \/ SaveFileFails \/ SaveRow \/ SaveRowFails
  \/ \E m \in 0..MaxTxs : AnalyticsLists(m) \/ AnalyticsEmpty(m)
                                          \/ JournalLists(m)
  \/ AnalyticsFails \/ JournalUnauthorized \/ JournalFails

Environment ==
  \/ Pay
  \/ \E t \in Tokens : Expire(t)
  \/ \E complete \in BOOLEAN : Patch(complete)
  \/ Crash

Next == Poll \/ Environment

Spec == Init /\ [][Next]_vars

\* A step with which nothing goes wrong: GoBiz answers as the tokens deserve
\* and shows what there is, what is written is stored, the process is up, and
\* an access token that is good when a poll begins outlasts it.
Healthy ==
  \/ StartPoll \/ SkipBlocked
  \/ client.access \in valid /\ CheckValid
  \/ RefreshMissing
  \/ \E rotates \in BOOLEAN : Refresh(rotates)
  \/ client.refresh \notin live /\ (RefreshRefused \/ RefreshFatal)
  \/ MerchantKnown \/ SaveFile \/ SaveRow
  \/ AnalyticsLists(paid) \/ AnalyticsEmpty(paid) \/ JournalLists(paid)
  \/ /\ client.access \notin valid
     /\ CheckInvalid \/ MerchantFails \/ AnalyticsFails \/ JournalUnauthorized
                     \/ JournalFails
  \/ Pay
  \/ pc \in {"idle", "blocked"} /\ \E t \in Tokens : Expire(t)
  \/ \E complete \in BOOLEAN : Patch(complete)

\* The watcher polls again and again, and the faults have an end.
FairSpec == Spec /\ WF_vars(Poll) /\ <>[][Healthy]_vars
-----------------------------------------------------------------------------
(***************************************************************************)
(* Properties                                                              *)
(***************************************************************************)

\* README 17, "Aggressive polling can get accounts banned": one poll makes at
\* most four requests to the token endpoint and four for the history, whatever
\* GoBiz answers (provider.go 61-77, auth.go 112-149, history.go 26-46).
RequestBudget ==
  /\ pc \in {"refresh", "refreshFlat"} => posts < 4
  /\ pc \in {"analytics", "journal"} => asks < 4

\* provider.go 145-160: the refresh token a poll received last is in the
\* client, in the token file or, when that loads as nothing, in the row --
\* where the next poll finds it -- unless a fault in a handful of places
\* lost it, or an admin stored another.
RotationKept ==
  rotated # 0 =>
    \/ client.refresh = rotated
    \/ file.refresh = rotated
    \/ file.refresh = 0 /\ row.refresh = rotated

\* The transactions the watcher saw, from whichever source.
Delivered(t) == AnalyticsKey(t) \in known \/ JournalKey(t) \in known

\* history.go 26-46 and 148-195: no transaction that both sources deliver is
\* passed over.  Whatever fails in between, and from whichever source a listing
\* comes, the transactions since the seeding are known up to the newest one a
\* listing could show, unless more than a page of them came between two
\* listings.
NoGaps ==
  burst \/ \A t \in seedTop + 1..top : InBoth(t) => Delivered(t)

\* watcher.go 151-157: transactions older than the seeding are not claimed,
\* unless a source later shows less than an earlier listing did, or does not
\* show them at all, or has another transaction_id for them.
OldStaysUnclaimed ==
  lagged \/ \A t \in 1..seedTop : t \in Agreeing /\ InBoth(t) => claims[t] = 0

\* The fate of a transaction as ClaimOnce sees it.  Whether qrisgate accepts a
\* claim is for Watcher; a second claim is a fate that comes too late.
Fate ==
  [t \in Agreeing |-> IF claims[t] = 1 THEN "claimed"
                      ELSE IF claims[t] > 1 THEN "failed"
                      ELSE IF t \in seeds THEN "retired"
                      ELSE "open"]

Abstract == INSTANCE ClaimOnce WITH PayIns <- Agreeing, fate <- Fate

\* domain/event.go 12, "dedupe key": over retries, faults and lagging answers
\* of two sources, whatever further ids they have, the fate of a transaction
\* is decided once, if it has one transaction_id (history.go 153 and 181).
ImplementsClaimOnce == Abstract!Spec

\* README 20, "expired access tokens are refreshed automatically": again and
\* again, whatever expired tokens and faults the polls met before, all paid
\* transactions that both sources deliver were listed, or are older than the
\* seeding, or the page was too small, or the tenant is blocked.
Listed ==
  []<>(\A t \in 1..paid :
         \/ ~InBoth(t) \/ Delivered(t)
         \/ seeded /\ t <= seedTop
         \/ burst \/ pc = "blocked")
=============================================================================
