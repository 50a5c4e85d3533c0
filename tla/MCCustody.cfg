SPECIFICATION Spec
CONSTANTS
  Wallets = {w1, w2}
  NoWallet = NoWallet
  Passwords = {secret}
  NoPassword = NoPassword
  MaxWrites = 6
SYMMETRY Symmetry
CHECK_DEADLOCK FALSE
INVARIANTS TypeOK OneWallet KnownWalletStarts WrittenBehind
PROPERTIES KeepsPromise
