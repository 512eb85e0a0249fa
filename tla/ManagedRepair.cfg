SPECIFICATION ManagedFairSpec
CONSTANTS
  Ops = {o1}
  b1 = b1
  b2 = b2
  Backends = {b1, b2}
  Nil = Nil
  Keys = {k1}
  Sizes = {1}
  Placements <- Unmirror
  VisibleLimit = 2
  Headroom = 2
  MaxProcessed = 1
  MaxVersions = 1
  MaxRouting = 1
  MaxDeletes = 0
  Workers = {w1, w2}
  MaxRepairAttempts = 2
  MaxFaults = 1
  Purges = {}
  Drivers = {}
  Uploads = {}
  MaxDrives = 0
INVARIANT LedgerCovers ReadyCopiesPresent
PROPERTY PlacementForward RepairsDrain IntentsSettle ImplementsContract
CHECK_DEADLOCK FALSE
