SPECIFICATION Spec
CONSTANTS
  Prime = 11
  Scalar <- MCScalar
  Point <- MCScalar
  Add <- MCAdd
  Minus <- MCMinus
  AddPoint <- MCAdd
  MinusPoint <- MCMinus
  Pub <- MCPub
  EvenY <- MCEvenY
  Digest <- MCDigest
  NoScriptRoot = 0
  Sha256 <- MCSha256
  TapLeafHash <- MCTapLeafHash
  TapTweak <- MCTapTweak
  Timelock = 7
  HardenedKeyStart = 64
  NoSecret = NoSecret
  ChildTweak <- MCChildTweak
  HardenedTweak <- MCHardenedTweak
  BadChild <- MCBadChild
  Seeds <- MCSeeds
  Starts <- MCStarts
  Nums <- MCNums
  MaxUint8 = 4
  Malformed = Malformed
  NoAddress = NoAddress
CHECK_DEADLOCK FALSE
INVARIANTS TypeOK KeysInStep AddressesAgree Spendable
PROPERTIES Returns
