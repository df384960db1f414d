\* A Pack used for two decodes.
SPECIFICATION Spec
CONSTANTS
  Clients = {t1, t2}
  IoWorkers = {io}
  None = None
  h1 = h1
  h2 = h2
  h3 = h3
  Hashes = {h1, h2, h3}
  Offsets <- MCOffsets
  HashAt <- MCHashAt
  Size <- MCSize
  MaxSize = 1
  MaxSpill = 0
  Disks = {"good"}
  MaxGets = 2
  MaxDecodes = 2
INVARIANT
  FileComing
