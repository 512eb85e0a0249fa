SPECIFICATION Spec
CONSTANTS
  Uploads = {u1}
  Tenants = {t1}
  TenantOf <- MCTenantOf
  Parts = {p1, p2}
  Keys = {k1, k2}
  Etags = {e1}
  None = None
  Global = Global
  GlobalLimit = 2
  TenantLimit = 2
  UploadLimit = 2
  Sizes = {0, 1, 2}
  MaxActive = 1
  Workers = {}
  MaxToken = 0
SYMMETRY Symmetry
INVARIANT WithinLimits AccountingExact AcknowledgedPartKept
CHECK_DEADLOCK FALSE
