SPECIFICATION RelaySpec
CONSTANTS
  P = 2
  N = 1
  Callers = {1}
  Deployer = 1
  Desk = Desk
  Ledger <- MCLedger
  Responses <- MCResponses
  LowPrice = 2
  HighPrice = 3
  Prices = {2, 3}
  PriceScale = 2
  Amounts = {4}
  MaxFloat = 4
  Pages = {page}
  Tools = {tool}
  PagePolls = 1
  ToolPolls = 2
  MaxRound = 2
  MaxAttempts <- MCMaxAttempts
INVARIANTS
  TypeOK
  CreditsBacked
  CapacityHonoured
  DoneMeansCredited
PROPERTIES
  ClaimsEnd
