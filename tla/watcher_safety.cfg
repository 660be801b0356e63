SPECIFICATION Spec
CONSTANTS
  a1 = a1
  a2 = a2
  p1 = p1
  p2 = p2
  p3 = p3
  Apps <- MCApps
  PayIns <- MCPayIns
  AppOf <- MCAppOf
  MaxSeen = 2
  SaveMayFail = TRUE
  DryRunModes = {FALSE}
  MaxStops = 2
INVARIANTS TypeOK SeenInv AtMostOnce
PROPERTIES SeedNeverSettles ForgetsOnlyIfBehind WriteAhead NotSeededAgain
