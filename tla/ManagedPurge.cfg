SPECIFICATION ManagedSpec
CONSTANTS
  Ops = {o1, o2}
  b1 = b1
  b2 = b2
  Backends = {b1, b2}
  Nil = Nil
  Keys = {k1}
  Sizes = {1}
  Placements <- Stay
  VisibleLimit = 2
  Headroom = 0
  MaxProcessed = 1
  MaxVersions = 1
  MaxRouting = 1
  MaxDeletes = 0
  Workers = {}
  MaxRepairAttempts = 2
  MaxFaults = 1
  Purges = {p1}
  Drivers = {d1}
  Uploads = {u1}
  MaxDrives = 2
INVARIANT UsageExact QuotaCovers PurgeErases OpenUploadKept
CHECK_DEADLOCK FALSE
