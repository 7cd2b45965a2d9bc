\* Two creates, a seed that is stopped twice and run again.
CONSTANTS
  s1 = s1
  s2 = s2
  n1 = n1
  n2 = n2
  stove = stove
  Stove = Stove
  pack = pack
  t1 = t1
  t2 = t2
  Attempts = {t1, t2}
  d1 = d1
  Seeds = {d1}
  Creates <- MCCreates
  Normalized <- MCNormalized
  SEED_ORGANIZATION_ID = "acme"
  SEED_PRODUCTS <- MCSeedProducts
  FreshIds = {n1, n2}
  MaxStock = 1
  MaxStops = 2
SPECIFICATION Spec
INVARIANT AnswersAreTrue
INVARIANT ProductsHaveInventory
INVARIANT MovementsExplainStock
PROPERTY OnlyStockOperationsChangeStock
PROPERTY SeedCompletes
