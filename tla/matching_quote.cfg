SPECIFICATION Spec
CONSTANTS
  PriceScale = 2
  Traders = {1, 2}
  N = 2
  MaxOrders = 3
  Limits = {2, 3}
  Sizes = {1, 2}
  Refs = {0}
  MaxDeviationBps = 0
INVARIANTS
  QuoteConserved
CHECK_DEADLOCK FALSE
