SPECIFICATION ManagedSpec
CONSTANTS
  Ops = {o1}
  b1 = b1
  b2 = b2
  Backends = {b1, b2}
  Nil = Nil
  Keys = {k1}
  Sizes = {1}
  Placements <- Mirror
  VisibleLimit = 2
  Headroom = 2
  MaxProcessed = 1
  MaxVersions = 1
  MaxRouting = 1
  MaxDeletes = 0
  Workers = {w1}
  MaxRepairAttempts = 2
  MaxFaults = 1
  Purges = {p1}
  Drivers = {d1}
  Uploads = {}
  MaxDrives = 2
INVARIANT PurgeErases
CHECK_DEADLOCK FALSE
