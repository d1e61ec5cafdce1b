CONSTANTS
  Target = {t1}
  Foreign = Foreign
  Disabled = Disabled
  Nothing = Nothing
  Guard = {g1}
  NoGuard = NoGuard
  Darwin = FALSE
  LeaseTime = 2
  RetryTime = 1
  MaxRequests = 2
  MaxGen = 2
  MaxEdits = 1
  MaxSwitches = 0
  MaxFaults = 1
  MaxCrashes = 1
  Ops <- MCAllOps
  Rare <- MCNoRare
SPECIFICATION FairSpec
CHECK_DEADLOCK FALSE
PROPERTIES LeaseEnds RecordedProxyRecovered
