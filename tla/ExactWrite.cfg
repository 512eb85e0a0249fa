SPECIFICATION Spec
CONSTANTS
  NoOwner = NoOwner
  Sink = sink
  Request = request
  Periodic = {r1}
  Separation = 1
  JournalLease = 1
  Window = 3
  FlightTime = 1
  Stall = 1
  RouteLease = 4
  Exact = TRUE
  KeyOccupied = FALSE
  AbortIdempotent = TRUE
  UploadsExpire = TRUE
  LateDeletes = TRUE
  Pauses = TRUE
  MaxAttempts = 2
  MaxVersions = 3
  MaxFaults = 0
INVARIANT AbortedMeansAbsent
INVARIANT AnswersAgree
INVARIANT IInv
