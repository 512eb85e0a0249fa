SPECIFICATION Spec
CONSTANTS
  Uploads = {u1}
  Tenants = {t1}
  TenantOf <- MCTenantOf
  Parts = {p1}
  Keys = {k1}
  Etags = {e1, e2}
  None = None
  Global = Global
  GlobalLimit = 1
  TenantLimit = 1
  UploadLimit = 1
  Sizes = {1}
  MaxActive = 1
  Workers = {w1, w2}
  MaxToken = 3
SYMMETRY Symmetry
INVARIANT ResultIsObject AbandonedNotWritten ObjectMatchesRequest
CHECK_DEADLOCK FALSE
