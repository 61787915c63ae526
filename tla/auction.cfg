SPECIFICATION Spec
CONSTANTS
  N = 2
  Owner = 2
  Machines = {10, 20}
  Compromised = {20}
  Strangers = {30}
  Settlements <- MCPayloads
  WalletBase <- MCWalletBase
  WalletQuote <- MCWalletQuote
  DepositAmounts <- MCAmounts
  Prices = {2000}
  Bands = {100}
  Fees = {30, 40}
  MaxBatchId = 2
  MaxOrderId = 2
  MaxInstructions = 2
  MaxSigned = 2
  MaxSignatures = 2
INVARIANTS
  TypeOK
  Solvent
PROPERTIES
  QuorumBacked
