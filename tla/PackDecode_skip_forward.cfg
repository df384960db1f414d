\* decode_file_without_callback with an idx, a delta stored before its base.
SPECIFICATION Spec
CONSTANTS
  MaxObjects = 4
  Workers = {w1, w2}
  w1 = w1
  w2 = w2
  Main = main
  MaxQueued = 2
  Calls <- SkipForwardCalls
INVARIANT SkippedUnneeded
