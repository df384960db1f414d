\* Pack::decode with a memory limit: deltas that wait fill the budget.
SPECIFICATION FairSpec
CONSTANTS
  MaxObjects = 4
  Workers = {w1, w2}
  w1 = w1
  w2 = w2
  Main = main
  MaxQueued = 2
  Calls <- BackpressureCalls
PROPERTY Termination
