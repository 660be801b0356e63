SPECIFICATION Spec
CONSTANTS
  a1 = a1
  a2 = a2
  p1 = p1
  p2 = p2
  p3 = p3
  Apps <- OneApp
  PayIns <- TwoPayIns
  AppOf <- OneAppOf
  MaxSeen = 2
  SaveMayFail = FALSE
  DryRunModes = {FALSE}
  MaxStops = 0
INVARIANT OnlyOldPayInsSeeded
