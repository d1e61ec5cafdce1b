CONSTANTS
  Order <- MCOrder
  Legacy = {}
  empty = empty
  direct = direct
  proxy = proxy
  Ruleset = {empty, direct, proxy}
  Enabled = {direct, proxy}
  Proxied = {proxy}
  Empty = empty
  None = None
  Left <- MCLeft
  Rare = {}
  MaxRequests = 2
  MaxFaults = 1
  MaxEvents = 1
  MaxCrashes = 1
SPECIFICATION FairSpec
CHECK_DEADLOCK FALSE
INVARIANTS RouterSound
PROPERTIES StopLeavesNothing Settles
