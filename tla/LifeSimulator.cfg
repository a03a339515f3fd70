SPECIFICATION FairSpec
CONSTANTS
  N_STORAGES = 2
  Buyers = {b1, b2}
  Providers = {p1}
  NoThread = NoThread
  START_DEMAND = 3
  START_AMOUNT = 1
  PROV_AMOUNT = 2
  BUY_RESTRICT = 2
  MaxStock = 3
INVARIANTS
  StocksSafe
PROPERTIES
  ImplementsWarehouse
  LockReleased
  SatisfiedBuyerStops
