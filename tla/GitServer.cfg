SPECIFICATION Spec
CONSTANTS
  r1 = r1
  r2 = r2
  w1 = w1
  w2 = w2
  Requests = {r1, r2}
  Workers = {w1, w2}
  QCap = 1
  Repos = {"p", "q"}
  Format <- MCFormat
  Graph <- MCGraph
  Reparsed <- MCReparsed
  Listed <- MCListed
  Scenarios <- MCScenarios
  InitDisk <- MCDisk
  MaxSets = 1
INVARIANTS KindSafe RefsClosed CloneComplete
PROPERTIES SessionEnds
CHECK_DEADLOCK FALSE
