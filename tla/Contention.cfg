\* Three attempts at reservations over two products.
CONSTANTS
  a = a
  b = b
  o1 = o1
  o2 = o2
  k1 = k1
  k2 = k2
  noOrder = noOrder
  noOrg = noOrg
  NoOrder = noOrder
  NoOrg = noOrg
  t1 = t1
  t2 = t2
  t3 = t3
  NoRequest = NoRequest
  NoOutcome = NoOutcome
  Keys = {k1, k2}
  Orgs = {a}
  Products = {1, 2}
  ProductOrg <- ContentionOwner
  OrderIds = {o1, o2}
  Int4Max = 3
  Opening <- ContentionOpening
  Requests <- ContentionRequests
  Procs = {t1, t2, t3}
SPECIFICATION FairSpec
INVARIANT ReservedIsHeld
INVARIANT LedgerExplainsStock
INVARIANT NoWaitCycle
PROPERTY EveryRequestEnds
