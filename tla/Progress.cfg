SPECIFICATION Spec
CONSTANTS
  small = s1
  Sessions = {s1, s2}
  Workers = {w1}
  QueueCapacity = 1
  Budget = 2
  NeedsOf <- MCNeedsOf
  Requests = {r1}
  OperationsOf <- MCOperationsOf
  MaxFaults = 2
  MaxCancels = 1
  SpoolQuota = 1
  SettlementAttempts = 2
  MaxWrites = 1
  MaxCrashes = 1
PROPERTIES MemoryComesBack RequestsEnd
CHECK_DEADLOCK FALSE
