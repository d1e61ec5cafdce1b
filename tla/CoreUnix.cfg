CONSTANTS
  Caller = {c1, c2}
  Nobody = Nobody
  JobController = FALSE
  MaxSession = 2
  MaxPid = 4
  MaxExits = 2
  MaxStopCalls = 1
  MaxFailures = 1
  TakeoverTries = 1
  NotifyBuffer = 1
  Client = {c1}
  Buffer = 2
  EventKind = {"state", "log"}
  Bursts = FALSE
  MaxPublished = 3
  MaxStalls = 1
SPECIFICATION MCSpec
CHECK_DEADLOCK FALSE
INVARIANTS EventsDelivered
PROPERTIES CallsReturn DeadCoreNoticed GoroutinesEnd StreamsEnd LearnsState PublishersGoOn
