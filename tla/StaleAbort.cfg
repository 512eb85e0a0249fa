SPECIFICATION Spec
CONSTANTS
  Uploads = {u1}
  Tenants = {t1}
  TenantOf <- MCTenantOf
  Parts = {p1}
  Keys = {k1}
  Etags = {e1}
  None = None
  Global = Global
  GlobalLimit = 1
  TenantLimit = 1
  UploadLimit = 1
  Sizes = {1}
  MaxActive = 1
  Workers = {w1, w2}
  MaxToken = 2
PROPERTY StaleWorkerNeverAborts
CHECK_DEADLOCK FALSE
