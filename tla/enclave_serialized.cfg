SPECIFICATION Spec
CONSTANTS
  PriceScale = 1
  Traders = {1, 2}
  Machines = {10}
  MaxBatchId = 2
  Sealed <- MCSealed
  Garbled = Garbled
  Requests <- MCOverlap
  MaxSent = 3
  Faults = {}
INVARIANTS
  RunSeesWholeBook
CHECK_DEADLOCK FALSE
