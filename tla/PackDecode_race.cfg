\* Pack::decode_file, two workers, a delta that is the base of two others.
SPECIFICATION Spec
CONSTANTS
  MaxObjects = 4
  Workers = {w1, w2}
  w1 = w1
  w2 = w2
  Main = main
  MaxQueued = 2
  Calls <- RaceCalls
INVARIANT NoLostWaiter
