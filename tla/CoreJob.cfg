CONSTANTS
  Caller = {c1, c2}
  Nobody = Nobody
  JobController = TRUE
  MaxSession = 2
  MaxPid = 4
  MaxExits = 2
  MaxStopCalls = 1
  MaxFailures = 1
  TakeoverTries = 1
  NotifyBuffer = 1
  Stream = {"out", "err"}
  Piece <- MCPiece
  Texts <- MCTexts
  FatalMarker <- MCFatal
  EventMarkers <- MCEvents
  LineLimit = 2
  MaxCut = 3
  Launch = {1, 2}
  LogPath = {p1, p2}
  LogLimit = {4, 6}
  LineLength = 3
  LeftOver = 5
  MaxChunk = 2
  MaxLogBytes = 8
  MaxUpdates = 1
  MaxLogFaults = 2
SPECIFICATION MCSpec
CHECK_DEADLOCK FALSE
SYMMETRY CallerSymmetry
INVARIANTS ManagerSound NothingLeftBehind OutputHeard StartedMeansNoFatal LogFileKept
PROPERTIES StopStopsCore NoEventAfterStop
