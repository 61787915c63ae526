SPECIFICATION Spec
CONSTANTS
  PriceScale = 1
  Traders = {1, 2, 3}
  Machines = {m1, m2}
  MaxBatchId = 2
  Sealed <- MCSealed
  Garbled = Garbled
  Requests <- MCRequests
  MaxSent = 4
  Faults = {"decrypt", "sign", "restart"}
SYMMETRY MachineSymmetry
INVARIANTS
  TypeOK
  FillsComeFromOrders
  SameOrdersSameSettlement
CHECK_DEADLOCK FALSE
