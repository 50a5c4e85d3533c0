SPECIFICATION Spec
CONSTANTS
  Wallets <- MCWallets
  Requests = {0, 100, 500, 1000}
  FeeRates = {0, 10, 25}
  RateScale = 10
  BaseWeight = 212
  MarkerWeight = 2
  InputWeight = 230
  OutputWeight = 172
  P2trDustAmt = 330
  UtxoAmounts = {60, 200, 331, 600}
  MaxSize = 4
  Undecodable = 3
CHECK_DEADLOCK FALSE
INVARIANTS NoDuplicateInputs
