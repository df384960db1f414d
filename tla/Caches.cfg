\* Two decode workers, one I/O worker, room for one small object.
SPECIFICATION FairSpec
CONSTANTS
  Clients = {t1, t2}
  IoWorkers = {io}
  None = None
  h1 = h1
  h2 = h2
  h3 = h3
  Hashes = {h1, h2, h3}
  Offsets <- MCOffsets
  HashAt <- MCHashAt
  Size <- MCSize
  MaxSize = 1
  MaxSpill = 0
  Disks = {"good", "bad"}
  MaxGets = 2
  MaxDecodes = 2
INVARIANTS
  TypeOK Retrievable LookupFinds ResidentAgrees WithinLimits TmpDirGone
PROPERTIES
  FallbackReturns ShutdownEnds
