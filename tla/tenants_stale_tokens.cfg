SPECIFICATION Spec
CONSTANTS
  a1 = a1
  c1 = c1
  NoApp = NoApp
  Apps = {a1}
  Admins = {c1}
  MaxTokens = 2
  MaxRows = 1
  MaxCrashes = 0
  AccessOnly = FALSE
  CacheSaves = {TRUE}
  ServerErrors = FALSE
  DbErrors = FALSE
INVARIANT FatalMeansLockedOut
