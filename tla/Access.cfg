CONSTANTS
  Key = {k1, k2}
  Principal = {u1, u2}
  Absent = Absent
  Torn = Torn
  Rare = {}
  MaxInits = 2
  MaxBootstraps = 1
  MaxKeyFaults = 2
  Message <- MCMessage
  Registered = {"k1"}
  Allowed = "owner"
  Handler = {1, 2}
  NoMessage = NoMessage
  Drift = 1
  MaxClock = 3
  MaxRestarts = 1
  Op = {1, 2}
  NoOp = 0
  MaxDeadlines = 2
  MaxCalls = 2
  Acceptor = {a1, a2}
  Stopper = {s1, s2}
  Nobody = Nobody
  Lost = FALSE
  MaxAccepts = 3
SPECIFICATION MCSpec
CHECK_DEADLOCK FALSE
INVARIANTS KeysSound NoncesSound FileSound
PROPERTIES BootstrapOnlyOnce FileOpsEnd ListenerSound
