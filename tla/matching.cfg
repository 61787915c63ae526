SPECIFICATION Spec
CONSTANTS
  PriceScale = 2
  Traders = {1, 2}
  N = 2
  MaxOrders = 3
  Limits = {1, 2, 4}
  Sizes = {1, 2}
  Refs = {0, 2}
  MaxDeviationBps = 5000
INVARIANTS
  MaximisesVolume
  ArrivalOrderImmaterial
  DustBounded
  BaseConserved
  WithinLimits
  PricePriority
CHECK_DEADLOCK FALSE
