SPECIFICATION Spec
CONSTANTS
  ApiKeys = {k1}
  McpTokens = {t1}
  MaxRestarts = 1
  MaxAdmin = 1
  Callers = {c1, c2}
  MaxAuthFaults = 1
  Requests = {r1}
  Pair = {g1, g2}
  OperationsOf <- MCOperationsOf
  MaxFaults = 2
  MaxCancels = 1
  SpoolQuota = 1
  SettlementAttempts = 2
  MaxWrites = 1
  MaxCrashes = 1
  Plugins = {p1, p2}
  Components = {d1, d2, d3}
  WeightOf <- MCWeightOf
  CacheMax = 2
  Builders = {b1}
  MaxCatalog = 2
  Stages = 2
  DeploymentLimits <- MCLimits
  RequestedLimits <- MCRequestedLimits
  GuestFuel = 4
  CallFuel = 2
  RecordSizes = {1, 2}
  Schemas <- MCSchemas
  Values <- MCValues
  TargetLists <- MCTargetLists
  ClaimSets <- MCClaimSets
  MaxDepth = 4
  MaxClaims = 3
  MaxNodes = 14
  MaxRecords = 2
  Chunkings <- MCChunkings
  FrameSizes = {1, 5, 100}
  MaxChunks = 4
  SourceTexts <- MCSourceTexts
  MaxRecordBytes = 3
  MaxCsvFields = 2
  MaxFrameBytes = 4
  ObjectKeys <- MCObjectKeys
  ListPrefixes <- MCPrefixes
  Delimiters <- MCDelimiters
  PageSizes = {0, 1, 2}
  MaxListWrites = 2
  Retries = {q1, q2}
  MaxCompletions = 3
  MaxBillingFaults = 2
  Writes = {o1}
  Versions = {x1, x2}
  MaxSwitches = 2
  MaxTokens = 2
  Sessions = {s1, s2}
  Workers = {w1}
  QueueCapacity = 1
  Budget = 2
  NeedsOf <- MCNeedsOf
SYMMETRY Symmetry
INVARIANTS
  RevokedRefused SettledAsServed LeftOnlyWithCause ServedAsPreflighted CacheKeepsCatalog FuelExact
  MemoryAccounted ConvertedAsPlanned AcceptedAsSent RecordsAsWhole ListedOnce ChargedForCommitted
  WrittenWhereAdmitted
CHECK_DEADLOCK FALSE
