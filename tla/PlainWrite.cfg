SPECIFICATION Spec
CONSTANTS
  NoOwner = NoOwner
  Sink = sink
  Request = request
  Periodic = {r1}
  Separation = 1
  JournalLease = 1
  Window = 2
  FlightTime = 1
  Stall = 0
  RouteLease = 3
  Exact = FALSE
  KeyOccupied = TRUE
  AbortIdempotent = FALSE
  UploadsExpire = TRUE
  LateDeletes = TRUE
  Pauses = TRUE
  MaxAttempts = 2
  MaxVersions = 3
  MaxFaults = 0
INVARIANT CommittedVersionSurvives
PROPERTY ImplementsAtomicWrite
