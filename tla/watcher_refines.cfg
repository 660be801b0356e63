SPECIFICATION Spec
CONSTANTS
  a1 = a1
  a2 = a2
  p1 = p1
  p2 = p2
  p3 = p3
  Apps <- OneApp
  PayIns <- MCPayIns
  AppOf <- AllOfOneApp
  MaxSeen = 3
  SaveMayFail = FALSE
  DryRunModes = {TRUE, FALSE}
  MaxStops = 2
INVARIANT NothingDropped
PROPERTY ImplementsClaimOnce
