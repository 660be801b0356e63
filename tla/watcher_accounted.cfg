SPECIFICATION FairSpec
CONSTANTS
  a1 = a1
  a2 = a2
  p1 = p1
  p2 = p2
  p3 = p3
  Apps <- MCApps
  PayIns <- TwoPayIns
  AppOf <- OneAppOf
  MaxSeen = 1
  SaveMayFail = TRUE
  DryRunModes = {FALSE}
  MaxStops = 1
PROPERTY Accounted
