SPECIFICATION SystemSpec
CONSTANTS
  N = 2
  Owner = 2
  Machines = {10, 20}
  Compromised = {}
  Strangers = {}
  Settlements <- MCTrades
  WalletBase <- MCBase
  WalletQuote <- MCQuote
  DepositAmounts <- MCNothing
  Prices = {2000}
  Bands = {}
  Fees = {}
  MaxBatchId = 3
  MaxOrderId = 4
  MaxInstructions = 3
  MaxSigned = 4
  MaxSignatures = 2
  PriceScale = 1
  Sealed <- MCSealed
  Garbled = Garbled
  Faults = {}
INVARIANTS
  BooksAgree
