\* Cancel, fulfil and retries of two orders of one product.
CONSTANTS
  a = a
  b = b
  o1 = o1
  o2 = o2
  k1 = k1
  k2 = k2
  noOrder = noOrder
  noOrg = noOrg
  NoOrder = noOrder
  NoOrg = noOrg
  t1 = t1
  t2 = t2
  t3 = t3
  NoRequest = NoRequest
  NoOutcome = NoOutcome
  Keys = {k1, k2}
  Orgs = {a}
  Products = {1}
  ProductOrg <- LifecycleOwner
  OrderIds = {o1, o2}
  Int4Max = 2
  Opening <- LifecycleOpening
  Requests <- LifecycleRequests
  Procs = {t1, t2, t3}
SPECIFICATION Spec
SYMMETRY Symmetry
INVARIANT TypeOK
INVARIANT NoOversell
INVARIANT OneTransitionPerOrder
INVARIANT NeverBroken
INVARIANT RefusalNamesTheWinner
INVARIANT OneOutcomePerKey
INVARIANT AnswersAreRecorded
INVARIANT ClaimLoserFindsWinner
PROPERTY HistoryIsFinal
