SPECIFICATION FairSpec
CONSTANTS
  a1 = a1
  c1 = c1
  NoApp = NoApp
  Apps = {a1}
  Admins = {c1}
  MaxTokens = 1
  MaxRows = 2
  MaxCrashes = 0
  AccessOnly = TRUE
  CacheSaves = {FALSE}
  ServerErrors = TRUE
  DbErrors = FALSE
INVARIANT EnabledOnRequest
PROPERTIES NoResurrection ImplementsLockout UnblockedPickedUp FatalDisables
