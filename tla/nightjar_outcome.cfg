SPECIFICATION SystemSpec
CONSTANTS
  N = 2
  Owner = 2
  Machines = {10}
  Compromised = {}
  Strangers = {}
  Settlements <- MCTrades
  WalletBase <- MCBase
  WalletQuote <- MCQuote
  DepositAmounts <- MCNothing
  Prices = {2000, 3000}
  Bands = {}
  Fees = {}
  MaxBatchId = 3
  MaxOrderId = 4
  MaxInstructions = 4
  MaxSigned = 4
  MaxSignatures = 1
  PriceScale = 1
  Sealed <- MCSealed
  Garbled = Garbled
  Faults = {}
INVARIANTS
  OneOutcome
