CONSTANTS
  Caller = {c1, c2}
  Nobody = Nobody
  JobController = FALSE
  MaxSession = 3
  MaxPid = 4
  MaxExits = 1
  MaxStopCalls = 1
  MaxFailures = 1
  TakeoverTries = 1
  NotifyBuffer = 1
SPECIFICATION Spec
CHECK_DEADLOCK FALSE
PROPERTIES StopStopsCore
