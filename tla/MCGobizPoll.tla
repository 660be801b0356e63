---------------------------- MODULE MCGobizPoll ----------------------------
(* Constants for model checking GobizPoll. *)
EXTENDS GobizPoll

\* Analytics has no id of the first transaction, and of the second no
\* transaction_id but an id, so that the journal has another key for it.  The
\* rest have one transaction_id, and further ids that differ.
MCAnalyticsIds ==
  [t \in Txs |-> CASE t = 1 -> <<NoId, NoId, NoId>>
                   [] t = 2 -> <<NoId, 10 + t, NoId>>
                   [] OTHER -> <<t, 10 + t, NoId>>]
MCJournalIds ==
  [t \in Txs |-> IF t = 1 THEN <<NoId, NoId, NoId, 20 + t>>
                          ELSE <<t, NoId, 30 + t, 20 + t>>]
=============================================================================
