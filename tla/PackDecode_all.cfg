\* Every entry point of Pack, packs of up to four entries.
SPECIFICATION FairSpec
CONSTANTS
  MaxObjects = 4
  Workers = {w1, w2}
  w1 = w1
  w2 = w2
  Main = main
  MaxQueued = 1
  Calls <- DecodeCalls
INVARIANTS
  TypeOK NoLostWaiter EmittedOnce BaseBeforeDelta VerdictOfPack CountersExact SkippedUnneeded
PROPERTIES
  QuietAfterReturn Termination ImplementsContract
