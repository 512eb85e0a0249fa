SPECIFICATION FairSpec
CONSTANTS
  NoOwner = NoOwner
  Sink = sink
  Request = request
  Periodic = {r1}
  Separation = 1
  JournalLease = 1
  Window = 2
  FlightTime = 1
  Stall = 0
  RouteLease = 3
  Exact = TRUE
  KeyOccupied = FALSE
  AbortIdempotent = TRUE
  UploadsExpire = TRUE
  LateDeletes = FALSE
  Pauses = FALSE
  MaxAttempts = 1
  MaxVersions = 4
  MaxFaults = 1
INVARIANT CommittedVersionSurvives
PROPERTY EventuallySettled
