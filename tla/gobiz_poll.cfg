SPECIFICATION FairSpec
CONSTANTS
  NoId = 0
  MaxTxs = 2
  HistorySize = 2
  AnalyticsIds <- MCAnalyticsIds
  JournalIds <- MCJournalIds
  MaxTokens = 2
  MaxLag = 0
INVARIANTS TypeOK RequestBudget RotationKept
PROPERTY Listed
