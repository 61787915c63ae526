SPECIFICATION SystemSpec
CONSTANTS
  N = 2
  Owner = 2
  Machines = {10, 20}
  Compromised = {20}
  Strangers = {}
  Settlements <- MCForgeries
  WalletBase <- MCBase
  WalletQuote <- MCQuote
  DepositAmounts <- MCBaseOnly
  Prices = {2000}
  Bands = {}
  Fees = {}
  MaxBatchId = 3
  MaxOrderId = 4
  MaxInstructions = 4
  MaxSigned = 5
  MaxSignatures = 2
  PriceScale = 1
  Sealed <- MCSealedAtOnePrice
  Garbled = Garbled
  Faults = {"sign", "restart"}
INVARIANTS
  FillsAreLocked
  FeesAccounted
  BatchesInOrder
  LocksOpenBatchOnly
  ClosedBatchTakesNoOrders
PROPERTIES
  ImplementsVenue
  ImplementsCustody
  ConsentedTrades
  OutcomesFinal
