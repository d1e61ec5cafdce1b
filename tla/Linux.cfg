CONSTANTS
  Path <- MCPath
  NameOf <- MCNameOf
  Protected = {"core"}
  MaxRules = 3
  Rejected = Rejected
  Pid = {1, 2}
  h1 = h1
  h2 = h2
  Home = {h1, h2}
  Root = Root
  None = None
  Running <- MCRunning
  Where <- MCWhere
  Lists <- MCLists
  Rare = {}
  Char = {"a", "b", "*"}
  Patterns <- MCPatterns
  NameSets <- MCNameSets
  Requests <- MCRequests
  Earlier <- MCLists
  NoFile = NoFile
  MaxReplaces = 1
  MaxSaves = 1
  MaxRestarts = 1
  MaxSends = 2
  MaxFaults = 1
  MaxEvents = 2
  MaxCrashes = 1
SPECIFICATION MCSpec
CHECK_DEADLOCK FALSE
INVARIANTS RoutingSound RulesCorrect
PROPERTIES ProcessesRouted
