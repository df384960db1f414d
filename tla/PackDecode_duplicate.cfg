\* Pack::decode_file of a pack that stores one object twice, one worker.
SPECIFICATION Spec
CONSTANTS
  MaxObjects = 4
  Workers = {w1, w2}
  w1 = w1
  w2 = w2
  Main = main
  MaxQueued = 2
  Calls <- DuplicateCalls
INVARIANT NoLostWaiter
