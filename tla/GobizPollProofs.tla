-------------------------- MODULE GobizPollProofs --------------------------
(***************************************************************************)
(* Theorems about GobizPoll and GobizHistory: type correctness; the bound  *)
(* on the requests of a poll; where the refresh token is; that nothing     *)
(* listed is passed over; and that the polls implement ClaimOnce for the   *)
(* transactions that have one id.                                          *)
(***************************************************************************)
EXTENDS GobizPoll, TLAPS

-----------------------------------------------------------------------------
(***************************************************************************)
(* Pages and ids                                                           *)
(***************************************************************************)

LEMMA PageSizeType == PageSize \in Nat \ {0}
BY HistoryAssumption DEF PageSize

\* The ids under which a transaction may be delivered.
OwnKeys(t) == {AnalyticsKey(t), JournalKey(t)} \ {NoId}

LEMMA AgreeingTxs == Agreeing \subseteq Txs
BY DEF Agreeing

\* A transaction with one id to go by is delivered under one id.
LEMMA OneKey ==
  ASSUME NEW t \in Agreeing, NEW k \in OwnKeys(t)
  PROVE  OwnKeys(t) = {k}
<1>1. CASE AnalyticsIds[t][1] # NoId /\ AnalyticsIds[t][1] = JournalIds[t][1]
  BY <1>1 DEF OwnKeys, AnalyticsKey, JournalKey, First3
<1>2. CASE \A i \in 1..3 : AnalyticsIds[t][i] = NoId
  BY <1>2 DEF OwnKeys, AnalyticsKey, First3
<1>3. CASE \A i \in 1..4 : JournalIds[t][i] = NoId
  BY <1>3 DEF OwnKeys, JournalKey, First3
<1>4. QED
  BY <1>1, <1>2, <1>3 DEF Agreeing

-----------------------------------------------------------------------------
(***************************************************************************)
(* Type correctness                                                        *)
(***************************************************************************)

LEMMA LoadedType ==
  ASSUME TypeOK, NEW c \in Session, NEW g \in Session
  PROVE  Loaded(c, g) \in Session
BY DEF TypeOK, Session, Loaded

LEMMA NoSessionType == NoSession \in Session
BY BoundsAssumption DEF NoSession, Session

\* What the watcher makes of a listing.
Listing(S, keys, m) ==
  /\ m \in 0..MaxTxs
  /\ S \subseteq Page(m)
  /\ \A t \in S : keys[t] \in OwnKeys(t)
  /\ \A t \in Page(m) : InBoth(t) => t \in S

LEMMA ListingsAreListings ==
  ASSUME NEW m \in 0..MaxTxs
  PROVE  /\ Listing(AnalyticsList(m), [t \in Txs |-> AnalyticsKey(t)], m)
         /\ Listing(JournalList(m), [t \in Txs |-> JournalKey(t)], m)
<1>1. Page(m) \subseteq Txs
  BY DEF Page
<1>2. QED
  BY <1>1 DEF Listing, AnalyticsList, JournalList, OwnKeys, InBoth

WatcherType ==
  /\ seeded \in BOOLEAN /\ known \subseteq Keys
  /\ claims \in [Txs -> Nat]
  /\ seeds \subseteq Txs /\ seedTop \in 0..MaxTxs /\ top \in 0..MaxTxs
  /\ burst \in BOOLEAN /\ lagged \in BOOLEAN

LEMMA DeliverType ==
  ASSUME WatcherType, NEW S, NEW keys, NEW m, Listing(S, keys, m),
         Deliver(S, keys, m)
  PROVE  WatcherType'
<1>1. S \subseteq Txs
  BY DEF Listing, Page
<1>2. known' \subseteq Keys
  BY <1>1 DEF WatcherType, Deliver, Listing, Keys, OwnKeys
<1>3. claims' \in [Txs -> Nat]
  BY DEF WatcherType, Deliver
<1>4. seeded' \in BOOLEAN /\ burst' \in BOOLEAN /\ lagged' \in BOOLEAN
  BY DEF WatcherType, Deliver
<1>5. seeds' \subseteq Txs /\ seedTop' \in 0..MaxTxs /\ top' \in 0..MaxTxs
  BY <1>1 DEF WatcherType, Deliver, Listing
<1>6. QED
  BY <1>2, <1>3, <1>4, <1>5 DEF WatcherType

\* Only a listing changes what the watcher knows.
LEMMA WatcherStep ==
  ASSUME TypeOK, [Next]_vars
  PROVE  \/ UNCHANGED watcher
         \/ \E S, keys, m : Listing(S, keys, m) /\ Deliver(S, keys, m)
<1> SUFFICES ASSUME ~UNCHANGED watcher
             PROVE \E S, keys, m : Listing(S, keys, m) /\ Deliver(S, keys, m)
  OBVIOUS
<1>1. \E m \in 0..MaxTxs : AnalyticsLists(m) \/ JournalLists(m)
  BY DEF Next, Poll, Environment, vars, StartPoll, SkipBlocked, CheckValid,
    CheckInvalid, RefreshMissing, Refresh, RefreshError, RefreshRefused,
    RefreshFatal, MerchantKnown, MerchantFails, SaveFile, SaveFileFails,
    SaveRow, SaveRowFails, AnalyticsEmpty, AnalyticsFails,
    JournalUnauthorized, JournalFails, Crash, Pay, Expire, Patch
<1>2. QED
  BY <1>1, ListingsAreListings DEF AnalyticsLists, JournalLists

TokensType ==
  /\ paid \in 0..MaxTxs
  /\ valid \subseteq Tokens /\ live \subseteq Tokens
  /\ issued \in Tokens
  /\ row \in Session /\ file \in Session
  /\ pc \in {"idle", "check", "refresh", "refreshFlat", "merchant", "file",
             "row", "analytics", "journal", "blocked"}
  /\ cfg \in Session /\ client \in Session
  /\ failed \in BOOLEAN /\ retried \in BOOLEAN
  /\ posts \in Nat /\ asks \in Nat
  /\ rotated \in 0..MaxTokens

LEMMA EndsType ==
  ASSUME NEW l \in {"idle", "blocked"}, Ends(l)
  PROVE  /\ pc' = l /\ cfg' \in Session /\ client' \in Session
         /\ failed' \in BOOLEAN /\ retried' \in BOOLEAN
         /\ posts' \in Nat /\ asks' \in Nat
BY NoSessionType DEF Ends

LEMMA RefreshType ==
  ASSUME TypeOK, NEW rotates \in BOOLEAN, Refresh(rotates)
  PROVE  TokensType'
<1>1. issued' \in Tokens
  BY BoundsAssumption DEF TypeOK, Refresh, Tokens
<1>2. client' \in Session
  <2>1. issued' \in 0..MaxTokens
    BY <1>1, BoundsAssumption DEF Tokens
  <2>2. QED
    BY <2>1 DEF TypeOK, Refresh, Session
<1>3. valid' \subseteq Tokens /\ live' \subseteq Tokens
  BY <1>1 DEF TypeOK, Refresh
<1>4. rotated' \in 0..MaxTokens
  BY <1>1, BoundsAssumption DEF TypeOK, Refresh, Tokens
<1>5. pc' = "merchant" /\ posts' \in Nat
  BY DEF TypeOK, Refresh
<1>6. QED
  BY <1>1, <1>2, <1>3, <1>4, <1>5 DEF TypeOK, TokensType, Refresh, stored

LEMMA PatchType ==
  ASSUME TypeOK, NEW complete \in BOOLEAN, Patch(complete)
  PROVE  TokensType'
<1>1. issued' \in Tokens /\ issued' = issued + 1
  BY BoundsAssumption DEF TypeOK, Patch, Tokens
<1>2. row' \in Session
  <2>1. issued + 1 \in 0..MaxTokens
    BY <1>1, BoundsAssumption DEF Tokens
  <2>2. QED
    BY <2>1 DEF TypeOK, Patch, Session
<1>3. valid' \subseteq Tokens /\ live' \subseteq Tokens
  BY <1>1 DEF TypeOK, Patch
<1>4. rotated' \in 0..MaxTokens
  BY BoundsAssumption DEF Patch
<1>5. QED
  BY <1>1, <1>2, <1>3, <1>4 DEF TypeOK, TokensType, Patch, counters

\* Every other step of a poll.
LEMMA PollType ==
  ASSUME TypeOK, Poll, ~ \E rotates \in BOOLEAN : Refresh(rotates)
  PROVE  TokensType'
<1> USE DEF TokensType, stored, tokens, counters
<1>1. CASE StartPoll
  BY <1>1, LoadedType, NoSessionType DEF TypeOK, StartPoll
<1>2. CASE SkipBlocked \/ CheckValid \/ CheckInvalid \/ AnalyticsFails
  <2>1. CASE SkipBlocked
    BY <2>1 DEF TypeOK, SkipBlocked, vars, progress
  <2>2. CASE CheckValid \/ CheckInvalid
    BY <2>2 DEF TypeOK, CheckValid, CheckInvalid, Goto
  <2>3. CASE AnalyticsFails
    BY <2>3 DEF TypeOK, AnalyticsFails
  <2>4. QED
    BY <1>2, <2>1, <2>2, <2>3
<1>3. CASE RefreshMissing \/ RefreshError \/ RefreshFatal \/ RefreshRefused
  BY <1>3, EndsType, BoundsAssumption
  DEF TypeOK, RefreshMissing, RefreshError, RefreshFatal, RefreshRefused,
    Refused, LostIf, Goto
<1>4. CASE MerchantKnown \/ MerchantFails
  <2>1. CASE MerchantKnown
    <3>1. [client EXCEPT !.merchant = TRUE] \in Session
      BY DEF TypeOK, Session
    <3>2. QED
      BY <2>1, <3>1 DEF TypeOK, MerchantKnown
  <2>2. CASE MerchantFails
    BY <2>2, EndsType, BoundsAssumption DEF TypeOK, MerchantFails, LostIf
  <2>3. QED
    BY <1>4, <2>1, <2>2
<1>5. CASE SaveFile \/ SaveFileFails \/ SaveRow \/ SaveRowFails
  <2>1. CASE SaveFile \/ SaveFileFails
    BY <1>5, <2>1, NoSessionType, BoundsAssumption
    DEF TypeOK, SaveFile, SaveFileFails, LostIf, Goto
  <2>2. CASE SaveRow
    BY <2>2 DEF TypeOK, SaveRow, Goto, Session
  <2>3. CASE SaveRowFails
    BY <2>3, BoundsAssumption DEF TypeOK, SaveRowFails, LostIf, Goto
  <2>4. QED
    BY <1>5, <2>1, <2>2, <2>3
<1>6. ASSUME NEW m \in 0..MaxTxs,
             AnalyticsLists(m) \/ AnalyticsEmpty(m) \/ JournalLists(m)
      PROVE  TokensType'
  BY <1>6, EndsType
  DEF TypeOK, AnalyticsLists, AnalyticsEmpty, JournalLists, Goto
<1>7. CASE JournalUnauthorized \/ JournalFails
  <2>1. [client EXCEPT !.access = 0] \in Session
    BY BoundsAssumption DEF TypeOK, Session
  <2>2. CASE JournalUnauthorized
    <3>1. Loaded([client EXCEPT !.access = 0], cfg) \in Session
      BY <2>1, LoadedType DEF TypeOK
    <3>2. client' \in Session
      BY <2>2, <3>1 DEF JournalUnauthorized
    <3>3. pc' = "check" /\ asks' \in Nat /\ failed' = FALSE /\ retried' = TRUE
      BY <2>2 DEF TypeOK, JournalUnauthorized
    <3>4. UNCHANGED <<paid, tokens, stored, cfg, posts, rotated>>
      BY <2>2 DEF JournalUnauthorized
    <3>5. QED
      BY <3>2, <3>3, <3>4 DEF TypeOK
  <2>3. CASE JournalFails
    BY <2>3, EndsType DEF TypeOK, JournalFails
  <2>4. QED
    BY <1>7, <2>2, <2>3
<1>8. QED
  BY <1>1, <1>2, <1>3, <1>4, <1>5, <1>6, <1>7 DEF Poll

\* Types hold in every reachable state, for any number of transactions and
\* tokens, any page size and any lag.
THEOREM TypeCorrect == Spec => []TypeOK
<1>1. Init => TypeOK
  <2> SUFFICES ASSUME Init PROVE TypeOK
    OBVIOUS
  <2>1. 0 \in 0..MaxTokens /\ 1 \in 1..MaxTokens /\ 1 \in 0..MaxTokens
    BY BoundsAssumption
  <2>2. row \in Session
    BY <2>1 DEF Init, Session
  <2>3. 0 \in 0..MaxTxs
    BY HistoryAssumption
  <2>4. seeds \subseteq Txs /\ known \subseteq Keys /\ claims \in [Txs -> Nat]
    BY DEF Init
  <2>5. QED
    BY <2>1, <2>2, <2>3, <2>4, NoSessionType DEF Init, TypeOK, Tokens
<1>2. TypeOK /\ [Next]_vars => TypeOK'
  <2> SUFFICES ASSUME TypeOK, [Next]_vars PROVE TypeOK'
    OBVIOUS
  <2>1. WatcherType'
    <3>1. WatcherType
      BY DEF TypeOK, WatcherType
    <3>2. CASE UNCHANGED watcher
      BY <3>1, <3>2 DEF WatcherType, watcher
    <3>3. QED
      BY <3>1, <3>2, WatcherStep, DeliverType
  <2>2. TokensType'
    <3>1. CASE UNCHANGED vars
      BY <3>1 DEF TypeOK, TokensType, vars, tokens, stored, progress, counters
    <3>2. CASE Poll
      BY <3>2, PollType, RefreshType
    <3>3. CASE Pay
      BY <3>3, HistoryAssumption
      DEF TypeOK, TokensType, Pay, tokens, stored, progress, counters
    <3>4. ASSUME NEW t \in Tokens, Expire(t) PROVE TokensType'
      BY <3>4 DEF TypeOK, TokensType, Expire, stored, progress, counters
    <3>5. CASE Crash
      BY <3>5, EndsType, NoSessionType, BoundsAssumption
      DEF TypeOK, TokensType, Crash, LostIf, tokens
    <3>6. QED
      BY <3>1, <3>2, <3>3, <3>4, <3>5, PatchType DEF Next, Environment
  <2>3. QED
    BY <2>1, <2>2 DEF TypeOK, TokensType, WatcherType
<1>3. QED
  BY <1>1, <1>2, PTL DEF Spec

-----------------------------------------------------------------------------
(***************************************************************************)
(* The requests of a poll                                                  *)
(***************************************************************************)

\* What the first round of a poll may have used up when it is retried.
Before == IF retried THEN 2 ELSE 0

BudgetInv ==
  /\ pc \in {"idle", "blocked"} => posts = 0 /\ asks = 0 /\ retried = FALSE
  /\ pc \in {"check", "refresh"} => posts <= Before
  /\ pc = "refreshFlat" => posts <= Before + 1
  /\ posts <= Before + 2
  /\ pc = "journal" => asks = Before + 1
  /\ pc \notin {"idle", "blocked", "journal"} => asks = Before

LEMMA BudgetStep ==
  ASSUME TypeOK, BudgetInv, [Next]_vars
  PROVE  BudgetInv'
<1> USE DEF TypeOK, BudgetInv, Before
<1>1. CASE UNCHANGED vars
  BY <1>1 DEF vars, progress, counters
<1>2. CASE StartPoll \/ SkipBlocked \/ CheckValid \/ CheckInvalid
  BY <1>2 DEF StartPoll, SkipBlocked, CheckValid, CheckInvalid, Goto, vars,
    progress, counters
<1>3. CASE RefreshMissing \/ RefreshError \/ RefreshFatal
  BY <1>3 DEF RefreshMissing, RefreshError, RefreshFatal, Ends
<1>4. CASE RefreshRefused
  BY <1>4 DEF RefreshRefused, Goto
<1>5. ASSUME NEW rotates \in BOOLEAN, Refresh(rotates) PROVE BudgetInv'
  BY <1>5 DEF Refresh, Presented
<1>6. CASE MerchantKnown \/ SaveFile \/ SaveFileFails \/ SaveRow \/ SaveRowFails
  BY <1>6 DEF MerchantKnown, SaveFile, SaveFileFails, SaveRow, SaveRowFails,
    Goto, counters
<1>7. CASE MerchantFails \/ JournalFails \/ Crash
  <2>1. Ends("idle")
    BY <1>7 DEF MerchantFails, JournalFails, Crash
  <2>2. QED
    BY <2>1 DEF Ends
<1>8. ASSUME NEW m \in 0..MaxTxs,
             AnalyticsLists(m) \/ AnalyticsEmpty(m) \/ JournalLists(m)
      PROVE  BudgetInv'
  BY <1>8 DEF AnalyticsLists, AnalyticsEmpty, JournalLists, Ends, Goto
<1>9. CASE AnalyticsFails
  BY <1>9 DEF AnalyticsFails
<1>10. CASE JournalUnauthorized
  BY <1>10 DEF JournalUnauthorized
<1>11. CASE Pay \/ (\E t \in Tokens : Expire(t))
  BY <1>11 DEF Pay, Expire, progress, counters
<1>12. ASSUME NEW complete \in BOOLEAN, Patch(complete) PROVE BudgetInv'
  BY <1>12 DEF Patch, counters
<1>13. QED
  BY <1>1, <1>2, <1>3, <1>4, <1>5, <1>6, <1>7, <1>8, <1>9, <1>10, <1>11, <1>12
  DEF Next, Poll, Environment

\* provider.go 61-77 with auth.go 112-149 and history.go 26-46: whatever GoBiz
\* answers, a poll makes at most four requests to the token endpoint and four
\* for the history.
THEOREM BoundedRequests == Spec => []RequestBudget
<1>1. Init => BudgetInv
  BY DEF Init, BudgetInv, Before
<1>2. TypeOK /\ BudgetInv => RequestBudget
  BY DEF TypeOK, BudgetInv, Before, RequestBudget
<1>3. QED
  BY <1>1, <1>2, BudgetStep, TypeCorrect, PTL DEF Spec

-----------------------------------------------------------------------------
(***************************************************************************)
(* Where the refresh token is                                              *)
(***************************************************************************)

\* Where the next poll finds it.
Found(r) == file.refresh = r \/ (file.refresh = 0 /\ row.refresh = r)

\* A poll has it in its client, and only between the answer and the write of
\* the row the next one might not find it.
RotationInv ==
  rotated # 0 =>
    /\ pc \notin {"idle", "blocked"} => client.refresh = rotated
    /\ pc = "row" => file.refresh \in {0, rotated}
    /\ \/ Found(rotated) \/ pc = "row"
       \/ pc \in {"merchant", "file"} /\ posts # 0

LEMMA RotationStep ==
  ASSUME TypeOK, BudgetInv, RotationInv, [Next]_vars
  PROVE  RotationInv'
<1> USE DEF RotationInv, Found
<1> SUFFICES ASSUME rotated' # 0 PROVE RotationInv'
  OBVIOUS
<1>1. CASE UNCHANGED vars
  BY <1>1 DEF vars, stored, progress, counters
<1>2. CASE StartPoll
  BY <1>2 DEF StartPoll, Loaded, NoSession, stored
<1>3. CASE SkipBlocked \/ CheckInvalid \/ AnalyticsFails
  BY <1>3 DEF SkipBlocked, CheckInvalid, AnalyticsFails, Goto, vars, stored,
    progress, counters
<1>4. CASE CheckValid
  BY <1>4 DEF CheckValid, Goto, stored
<1>5. CASE RefreshMissing \/ RefreshError \/ RefreshFatal
  BY <1>5 DEF RefreshMissing, RefreshError, RefreshFatal, Refused, LostIf,
    Ends, stored, Presented
<1>6. CASE RefreshRefused
  BY <1>6 DEF RefreshRefused, Refused, LostIf, Goto, stored
<1>7. ASSUME NEW rotates \in BOOLEAN, Refresh(rotates) PROVE RotationInv'
  <2>1. pc' = "merchant" /\ posts' # 0
    BY <1>7 DEF TypeOK, Refresh
  <2>2. client'.refresh = rotated'
    BY <1>7 DEF TypeOK, Session, Refresh, Presented
  <2>3. QED
    BY <2>1, <2>2
<1>8. CASE MerchantKnown
  BY <1>8 DEF TypeOK, Session, MerchantKnown, stored, counters
<1>9. CASE MerchantFails
  BY <1>9 DEF MerchantFails, LostIf, Ends, stored
<1>10. CASE SaveFile
  BY <1>10 DEF SaveFile, Goto
<1>11. CASE SaveFileFails
  BY <1>11 DEF SaveFileFails, LostIf, Goto
<1>12. CASE SaveRow
  BY <1>12 DEF TypeOK, Session, SaveRow, Goto
<1>13. CASE SaveRowFails
  BY <1>13 DEF SaveRowFails, LostIf, Goto, stored
<1>14. ASSUME NEW m \in 0..MaxTxs,
              AnalyticsLists(m) \/ AnalyticsEmpty(m) \/ JournalLists(m)
       PROVE  RotationInv'
  BY <1>14 DEF AnalyticsLists, AnalyticsEmpty, JournalLists, Ends, Goto, stored
<1>15. CASE JournalUnauthorized
  BY <1>15 DEF TypeOK, Session, JournalUnauthorized, Loaded, stored
<1>16. CASE JournalFails
  BY <1>16 DEF JournalFails, Ends, stored
<1>17. CASE Crash
  <2>1. rotated' = rotated /\ pc' = "idle" /\ row' = row
    BY <1>17 DEF Crash, LostIf, Ends
  <2>2. CASE pc = "row"
    BY <1>17, <2>1, <2>2 DEF Crash, LostIf
  <2>3. CASE pc = "file"
    BY <1>17, <2>1, <2>3 DEF Crash, LostIf, NoSession
  <2>4. CASE pc \notin {"row", "file"}
    BY <1>17, <2>1, <2>4 DEF Crash, LostIf
  <2>5. QED
    BY <2>2, <2>3, <2>4
<1>18. CASE Pay \/ (\E t \in Tokens : Expire(t))
  BY <1>18 DEF Pay, Expire, stored, progress, counters
<1>19. CASE \E complete \in BOOLEAN : Patch(complete)
  BY <1>19 DEF Patch
<1>20. QED
  BY <1>1, <1>2, <1>3, <1>4, <1>5, <1>6, <1>7, <1>8, <1>9, <1>10, <1>11,
     <1>12, <1>13, <1>14, <1>15, <1>16, <1>17, <1>18, <1>19
  DEF Next, Poll, Environment

\* provider.go 145-160: a refresh token GoBiz gave a poll is not lost, unless
\* by one of the faults LostIf names.
THEOREM RefreshTokenKept == Spec => []RotationKept
<1>1. Init => BudgetInv /\ RotationInv
  BY DEF Init, BudgetInv, Before, RotationInv
<1>2. RotationInv => RotationKept
  BY DEF RotationInv, RotationKept, Found
<1>3. QED
  BY <1>1, <1>2, BudgetStep, RotationStep, TypeCorrect, PTL DEF Spec

-----------------------------------------------------------------------------
(***************************************************************************)
(* What the watcher makes of the listings                                  *)
(***************************************************************************)

\* The watcher knows the id of a transaction it decided on.
Decided(t) == claims[t] > 0 \/ t \in seeds

WatcherInv ==
  /\ ~seeded => /\ seeds = {} /\ \A t \in Txs : claims[t] = 0
                /\ seedTop = 0 /\ top = 0
  /\ \A t \in Agreeing : Decided(t) => OwnKeys(t) \subseteq known
  /\ \A t \in Agreeing : claims[t] <= 1 /\ (t \in seeds => claims[t] = 0)
  /\ seedTop <= top
  /\ seeded => \A t \in Page(seedTop) : InBoth(t) => t \in seeds

\* What is claimed was open, and nothing else changes.
LEMMA ClaimedWasOpen ==
  ASSUME TypeOK, WatcherInv, NEW S, NEW keys, NEW m, Listing(S, keys, m)
  PROVE  \A t \in New(S, keys) \cap Agreeing :
           t \in S /\ t \in Txs /\ seeded /\ claims[t] = 0 /\ t \notin seeds
<1> SUFFICES ASSUME NEW t \in New(S, keys) \cap Agreeing
             PROVE  t \in S /\ t \in Txs /\ seeded /\ claims[t] = 0 /\ t \notin seeds
  OBVIOUS
<1>1. t \in S /\ t \in Txs /\ seeded /\ keys[t] \notin known
  BY DEF New, Listing, Page
<1>2. keys[t] \in OwnKeys(t)
  BY <1>1 DEF Listing
<1>3. ~Decided(t)
  BY <1>1, <1>2 DEF WatcherInv
<1>4. QED
  BY <1>1, <1>3 DEF Decided, TypeOK

LEMMA DeliverInv ==
  ASSUME TypeOK, WatcherInv, NEW S, NEW keys, NEW m, Listing(S, keys, m),
         Deliver(S, keys, m)
  PROVE  WatcherInv'
<1>1. S \subseteq Txs /\ m \in 0..MaxTxs
  BY DEF Listing, Page
<1>2. \A t \in Txs : claims'[t] = claims[t] + IF t \in New(S, keys) THEN 1 ELSE 0
  BY DEF Deliver
<1>3. ~seeded' => /\ seeds' = {} /\ \A t \in Txs : claims'[t] = 0
                  /\ seedTop' = 0 /\ top' = 0
  <2> SUFFICES ASSUME ~seeded'
               PROVE  /\ seeds' = {} /\ \A t \in Txs : claims'[t] = 0
                      /\ seedTop' = 0 /\ top' = 0
    OBVIOUS
  <2>1. ~seeded /\ S = {}
    BY DEF Deliver
  <2>2. New(S, keys) = {} /\ seeds' = {} /\ seedTop' = seedTop /\ top' = top
    BY <2>1 DEF Deliver, New
  <2>3. \A t \in Txs : claims'[t] = claims[t]
    BY <1>2, <2>2 DEF TypeOK
  <2>4. QED
    BY <2>1, <2>2, <2>3 DEF WatcherInv
<1>4. ASSUME NEW t \in Agreeing, Decided(t)'
      PROVE  OwnKeys(t) \subseteq known'
  <2>1. CASE Decided(t)
    BY <2>1 DEF WatcherInv, Deliver
  <2>2. CASE ~Decided(t)
    <3>1. t \in S
      BY <1>2, <1>4, <2>2, AgreeingTxs DEF TypeOK, Decided, Deliver, New
    <3>2. keys[t] \in OwnKeys(t) /\ keys[t] \in known'
      BY <3>1 DEF Listing, Deliver
    <3>3. QED
      BY <3>2, OneKey
  <2>3. QED
    BY <2>1, <2>2
<1>5. ASSUME NEW t \in Agreeing
      PROVE  claims'[t] <= 1 /\ (t \in seeds' => claims'[t] = 0)
  <2>1. t \in Txs
    BY AgreeingTxs
  <2>2. CASE t \in New(S, keys)
    BY <1>2, <2>1, <2>2, ClaimedWasOpen DEF Deliver
  <2>3. CASE t \notin New(S, keys)
    BY <1>2, <2>1, <2>3 DEF TypeOK, WatcherInv, Deliver
  <2>4. QED
    BY <2>2, <2>3
<1>6. seedTop' <= top'
  BY <1>1 DEF TypeOK, WatcherInv, Deliver
<1>7. ASSUME seeded', NEW t \in Page(seedTop'), InBoth(t)
      PROVE  t \in seeds'
  BY <1>7 DEF WatcherInv, Deliver, Listing
<1>8. QED
  BY <1>3, <1>4, <1>5, <1>6, <1>7 DEF WatcherInv

LEMMA WatcherInvariant == Spec => []WatcherInv
<1>1. Init => WatcherInv
  BY AgreeingTxs DEF Init, WatcherInv, Decided
<1>2. TypeOK /\ WatcherInv /\ [Next]_vars => WatcherInv'
  <2> SUFFICES ASSUME TypeOK, WatcherInv, [Next]_vars PROVE WatcherInv'
    OBVIOUS
  <2>1. CASE UNCHANGED watcher
    BY <2>1 DEF watcher, WatcherInv, Decided
  <2>2. QED
    BY <2>1, WatcherStep, DeliverInv
<1>3. QED
  BY <1>1, <1>2, TypeCorrect, PTL DEF Spec

\* history.go 26-46: nothing that both sources deliver is passed over between
\* two listings at most a page apart, whichever of the sources they are from
\* and whatever ids these give it.
THEOREM NothingPassedOver == Spec => []NoGaps
<1>1. Init => NoGaps
  BY DEF Init, NoGaps
<1>2. TypeOK /\ WatcherInv /\ NoGaps /\ [Next]_vars => NoGaps'
  <2> SUFFICES ASSUME TypeOK, WatcherInv, NoGaps, [Next]_vars PROVE NoGaps'
    OBVIOUS
  <2>1. CASE UNCHANGED watcher
    BY <2>1 DEF watcher, NoGaps, Delivered
  <2>2. ASSUME NEW S, NEW keys, NEW m, Listing(S, keys, m), Deliver(S, keys, m)
        PROVE  NoGaps'
    <3> SUFFICES ASSUME ~burst', NEW t \in seedTop' + 1..top', InBoth(t)
                 PROVE  Delivered(t)'
      BY DEF NoGaps
    <3>1. m \in 0..MaxTxs
      BY <2>2 DEF Listing
    <3>2. ~burst /\ known \subseteq known' /\ (seeded => m <= top + PageSize)
      BY <2>2, <3>1, PageSizeType DEF TypeOK, Deliver
    <3>3. CASE t \in seedTop + 1..top
      BY <3>2, <3>3 DEF NoGaps, Delivered
    <3>4. CASE t \notin seedTop + 1..top
      <4>1. seeded /\ S # {} /\ t \in top + 1..m
        BY <2>2, <3>1, <3>4 DEF TypeOK, WatcherInv, Deliver
      <4>2. t \in Page(m)
        BY <3>1, <3>2, <4>1, PageSizeType, HistoryAssumption
        DEF TypeOK, Page, Txs
      <4>3. t \in S /\ t \in Txs
        BY <2>2, <4>2 DEF Listing, Page
      <4>4. QED
        BY <2>2, <4>3 DEF Listing, Deliver, OwnKeys, Delivered
    <3>5. QED
      BY <3>3, <3>4
  <2>3. QED
    BY <2>1, <2>2, WatcherStep
<1>3. QED
  BY <1>1, <1>2, TypeCorrect, WatcherInvariant, PTL DEF Spec

\* watcher.go 151-157: of the transactions older than the seeding, those that
\* both sources deliver under one transaction_id are never claimed, as long as
\* no listing shows less than an earlier one did.
THEOREM OldNeverClaimed == Spec => []OldStaysUnclaimed
<1>1. Init => OldStaysUnclaimed
  BY DEF Init, OldStaysUnclaimed
<1>2. TypeOK /\ WatcherInv /\ OldStaysUnclaimed /\ [Next]_vars
        => OldStaysUnclaimed'
  <2> SUFFICES ASSUME TypeOK, WatcherInv, OldStaysUnclaimed, [Next]_vars
               PROVE  OldStaysUnclaimed'
    OBVIOUS
  <2>1. CASE UNCHANGED watcher
    BY <2>1 DEF watcher, OldStaysUnclaimed
  <2>2. ASSUME NEW S, NEW keys, NEW m, Listing(S, keys, m), Deliver(S, keys, m)
        PROVE  OldStaysUnclaimed'
    <3> SUFFICES ASSUME ~lagged', NEW t \in 1..seedTop',
                        t \in Agreeing, InBoth(t)
                 PROVE  claims'[t] = 0
      BY DEF OldStaysUnclaimed
    <3>1. m \in 0..MaxTxs /\ ~lagged /\ top <= m
      <4>1. m \in 0..MaxTxs
        BY <2>2 DEF Listing
      <4>2. ~lagged /\ ~(m < top)
        BY <2>2 DEF Deliver
      <4>3. QED
        BY <4>1, <4>2, HistoryAssumption DEF TypeOK
    <3>2. t \in Txs
      BY <2>2, <3>1, HistoryAssumption DEF TypeOK, Deliver, Txs
    <3>3. CASE ~seeded
      BY <2>2, <3>2, <3>3 DEF TypeOK, WatcherInv, Deliver, New
    <3>4. CASE seeded
      <4>1. t \in 1..seedTop /\ claims[t] = 0
        BY <2>2, <3>1, <3>4 DEF OldStaysUnclaimed, Deliver
      <4>2. t \notin New(S, keys)
        <5>1. SUFFICES ASSUME t \in New(S, keys) PROVE FALSE
          OBVIOUS
        <5>2. t \in Page(m)
          BY <2>2, <5>1 DEF New, Listing
        <5>3. t \in Page(seedTop)
          BY <3>1, <4>1, <5>2, PageSizeType, HistoryAssumption
          DEF TypeOK, WatcherInv, Page, Txs
        <5>4. t \in seeds
          BY <3>4, <5>3 DEF WatcherInv
        <5>5. QED
          BY <2>2, <5>1, <5>4, ClaimedWasOpen
      <4>3. QED
        BY <2>2, <3>2, <4>1, <4>2 DEF Deliver
    <3>5. QED
      BY <3>3, <3>4
  <2>3. QED
    BY <2>1, <2>2, WatcherStep
<1>3. QED
  BY <1>1, <1>2, TypeCorrect, WatcherInvariant, PTL DEF Spec

\* domain/event.go 12: for the transactions that have one transaction_id, or
\* ids in one source only, the polls implement ClaimOnce, over retries, faults
\* and listings that lag, and whatever ids the other transactions have.
THEOREM PollsImplementClaimOnce == Spec => ImplementsClaimOnce
<1>1. Init => Abstract!Init
  BY AgreeingTxs DEF Init, Abstract!Init, Fate
<1>2. TypeOK /\ WatcherInv /\ [Next]_vars => [Abstract!Next]_Fate
  <2> SUFFICES ASSUME TypeOK, WatcherInv, [Next]_vars
               PROVE  [Abstract!Next]_Fate
    OBVIOUS
  <2>1. CASE UNCHANGED watcher
    BY <2>1 DEF watcher, Fate
  <2>2. ASSUME NEW S, NEW keys, NEW m, Listing(S, keys, m), Deliver(S, keys, m)
        PROVE  Abstract!Next
    <3>1. Agreeing \subseteq Txs
      BY AgreeingTxs
    <3>2. CASE seeded
      <4> DEFINE N == New(S, keys) \cap Agreeing
      <4>1. N \in SUBSET Agreeing /\ \A t \in N : Fate[t] = "open"
        BY <2>2, ClaimedWasOpen DEF Fate
      <4>2. Fate' = [t \in Agreeing |-> IF t \in N THEN "claimed" ELSE Fate[t]]
        <5>1. seeds' = seeds
          BY <2>2, <3>2 DEF Deliver
        <5>2. \A t \in Agreeing : claims'[t] = IF t \in N THEN 1 ELSE claims[t]
          BY <2>2, <3>1, ClaimedWasOpen DEF TypeOK, Deliver
        <5>3. QED
          BY <5>1, <5>2 DEF Fate
      <4>3. QED
        BY <4>1, <4>2 DEF Abstract!Next, Abstract!Decide
    <3>3. CASE ~seeded
      <4> DEFINE N == S \cap Agreeing
      <4>1. \A t \in Agreeing : claims'[t] = 0 /\ Fate[t] = "open"
        BY <2>2, <3>1, <3>3 DEF TypeOK, WatcherInv, Deliver, New, Fate
      <4>2. Fate' = [t \in Agreeing |-> IF t \in N THEN "retired" ELSE Fate[t]]
        BY <2>2, <3>3, <4>1 DEF Deliver, Fate
      <4>3. QED
        BY <4>1, <4>2 DEF Abstract!Next, Abstract!Retire
    <3>4. QED
      BY <3>2, <3>3
  <2>3. QED
    BY <2>1, <2>2, WatcherStep
<1>3. QED
  BY <1>1, <1>2, TypeCorrect, WatcherInvariant, PTL
     DEF Spec, ImplementsClaimOnce, Abstract!Spec
=============================================================================
