\* Two organizations, a product without an inventory row, the integer limit.
CONSTANTS
  a = a
  b = b
  o1 = o1
  o2 = o2
  k1 = k1
  k2 = k2
  noOrder = noOrder
  noOrg = noOrg
  NoOrder = noOrder
  NoOrg = noOrg
  t1 = t1
  t2 = t2
  t3 = t3
  NoRequest = NoRequest
  NoOutcome = NoOutcome
  Keys = {k1, k2}
  Orgs = {a, b}
  Products = {1, 2}
  ProductOrg <- TenantsOwner
  OrderIds = {o1, o2}
  Int4Max = 2
  Opening <- TenantsOpening
  Requests <- TenantsRequests
  Procs = {t1, t2}
SPECIFICATION Spec
PROPERTY TenantIsolation
PROPERTY ImplementsContract
SYMMETRY Symmetry2
