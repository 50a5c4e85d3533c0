SPECIFICATION Spec
CONSTANTS
  Owners = {0, 99, 100, 699, 700, 999, Foreign}
  InputLists <- MCInputLists
  Foreign = Foreign
  HardenedKeyStart = 1024
  Batches = 10
  BatchSize = 100
  ByteSize = 256
  Timelock = 52560
  FinalSequence = Final
CHECK_DEADLOCK FALSE
INVARIANTS TypeOK ConsecutiveKeys OutcomeIsReach WitnessesValid
PROPERTIES Returns
