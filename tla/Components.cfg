SPECIFICATION Spec
CONSTANTS
  Sessions = {"s1", "s2"}
  IndexScenarios <- MCPlans
  Names <- MCNames
  NameLen <- MCNameLen
  Below <- MCBelow
  ContentSize <- MCContentSize
  InitWork <- MCWork
  Contents = {"x", "y"}
  StreamScenarios <- MCStreams
  TrailerSize = 2
  DeltaJobs <- MCJobs
  Radix = 2
  RabinWindow = 2
  DataInsLen = 3
  MinMatch = 2
  GoodMatch = 3
  HashLimit = 1
  HashValues = 3
  NoLimit = NoLimit
  AgentTypes <- MCAgentTypes
  AgentCalls = 3
  MaxPlans = 3
  IdBytes <- MCIds
  GitScenarios <- MCGit
  DiffCases <- MCDiffs
  Under <- MCUnder
  Context = 1
  MaxEdits = 8
  MaxDiffLines = 13
  TransferCases <- MCTransfers
  Low = 2
  IdLen = 2
  Payload <- MCPayload
  Packed <- MCPacked
  Inflated <- MCInflated
  IdxCases <- MCIdxCases
  PrefixLen = 2
  WindowLen = 4
INVARIANTS
  LoadsWhole
  RefreshHonest
  StreamDecoded
  DeltaRebuilds
  AgentHistory
  ObjectsKept
  DiffApplies
  TransferSound
  IndexVerified
PROPERTIES
  StreamEnds
CHECK_DEADLOCK FALSE
