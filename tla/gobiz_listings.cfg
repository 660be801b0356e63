SPECIFICATION Spec
CONSTANTS
  NoId = 0
  MaxTxs = 4
  HistorySize = 2
  AnalyticsIds <- MCAnalyticsIds
  JournalIds <- MCJournalIds
  MaxTokens = 1
  MaxLag = 2
INVARIANTS NoGaps OldStaysUnclaimed
PROPERTY ImplementsClaimOnce
