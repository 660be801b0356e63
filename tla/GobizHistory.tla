---------------------------- MODULE GobizHistory ----------------------------
(***************************************************************************)
(* The data of internal/provider/gobiz/history.go: the page of             *)
(* transactions a history request asks for, and the id under which each of *)
(* the two sources delivers a transaction.                                 *)
(*                                                                         *)
(* Transactions are numbered in the order in which they were paid.  A      *)
(* field of an answer holds an id, or NoId when it is absent or empty.     *)
(***************************************************************************)
EXTENDS Integers

CONSTANTS
  MaxTxs,        \* bound: transactions
  HistorySize,   \* GOBIZ_HISTORY_SIZE
  NoId,
  AnalyticsIds,  \* transaction_id, id, order_id of each transaction
  JournalIds     \* the same and the id of the journal entry

Txs == 1..MaxTxs

\* The id fields of one answer.
Fields(t) ==
  {AnalyticsIds[t][i] : i \in DOMAIN AnalyticsIds[t]} \cup
  {JournalIds[t][i] : i \in DOMAIN JournalIds[t]}

ASSUME HistoryAssumption ==
  /\ MaxTxs \in Nat /\ HistorySize \in Int
  /\ \A t \in Txs : DOMAIN AnalyticsIds[t] = 1..3 /\ DOMAIN JournalIds[t] = 1..4

\* Different transactions share no ids.  What ids one transaction has, in one
\* source and in the other, is left open.
ASSUME IdsAssumption ==
  \A t, u \in Txs : t # u => Fields(t) \cap Fields(u) \subseteq {NoId}

\* The transactions that have one id to go by: the same transaction_id in both
\* sources, or ids in one of them only.
Agreeing ==
  {t \in Txs :
     \/ AnalyticsIds[t][1] # NoId /\ AnalyticsIds[t][1] = JournalIds[t][1]
     \/ \A i \in 1..3 : AnalyticsIds[t][i] = NoId
     \/ \A i \in 1..4 : JournalIds[t][i] = NoId}

-----------------------------------------------------------------------------
\* firstNonEmpty
First3(s) ==
  IF s[1] # NoId THEN s[1] ELSE IF s[2] # NoId THEN s[2] ELSE s[3]

\* The id under which each source delivers a transaction, or NoId for one
\* that the mapping skips.
AnalyticsKey(t) == First3(AnalyticsIds[t])

\* A bug, for the mutation runs: prefer the id of the journal entry.
JournalEntryKey(t) ==
  IF JournalIds[t][4] # NoId THEN JournalIds[t][4] ELSE First3(JournalIds[t])

JournalKey(t) ==
  IF First3(JournalIds[t]) # NoId THEN First3(JournalIds[t])
                                  ELSE JournalIds[t][4]

\* Both sources deliver it.
InBoth(t) == AnalyticsKey(t) # NoId /\ JournalKey(t) # NoId

\* "size" of the requests: less than one means thirty.
PageSize == IF HistorySize < 1 THEN 30 ELSE HistorySize

\* A bug, for the mutation runs: a page is one short.
PageOneShort(m) == {t \in Txs : t <= m /\ m + 1 < t + PageSize}

\* One page, newest first, of a source that knows the first m transactions.
\* (The window of HistoryDays cuts it off at the same end.)
Page(m) == {t \in Txs : t <= m /\ m < t + PageSize}

\* A bug, for the mutation runs: entries without an id are kept.
AnalyticsListUnfiltered(m) == Page(m)

AnalyticsList(m) == {t \in Page(m) : AnalyticsKey(t) # NoId}

JournalList(m) == {t \in Page(m) : JournalKey(t) # NoId}
=============================================================================
