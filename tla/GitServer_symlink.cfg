SPECIFICATION Spec
CONSTANTS
  r1 = r1
  r2 = r2
  w1 = w1
  w2 = w2
  Requests = {r1, r2}
  Workers = {w1, w2}
  QCap = 1
  Repos = {"p", "q"}
  Format <- MCFormat
  Graph <- LinkGraph
  Reparsed <- MCReparsed
  Listed <- MCListed
  Scenarios <- LinkScenarios
  InitDisk <- LinkDisk
  MaxSets = 0
INVARIANT CloneComplete
CHECK_DEADLOCK FALSE
