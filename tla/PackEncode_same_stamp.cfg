SPECIFICATION Spec
CONSTANTS
  s1 = s1
  s2 = s2
  Sessions = {s1, s2}
  Calls <- PairCalls
  Stamps = {1}
  Lens = {1}
  ChanCap = 1
  Batch = 2
  Window = 2
  MaxChain = 2
  Threads = 2
  PerThread = 1
  MinChunk = 1
  HeaderLen = 2
  Buckets = 3
  Spread = 2
  MaxSmall = 4
INVARIANT MatchingPair
CHECK_DEADLOCK FALSE
