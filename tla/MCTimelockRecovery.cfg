SPECIFICATION Spec
CONSTANTS
  Outputs <- MCOutputs
  Addresses = {home}
  Levels <- MCLevels
  Affordable <- MCAffordable
  slow = slow
  fast = fast
  Timelock = 2
  Opened = 2
  None = None
  MaxTip = 4
  MaxCalls = 2
  MaxFailures = 1
CHECK_DEADLOCK FALSE
INVARIANTS TypeOK OnlyMature OneAtATime
PROPERTIES ButtonComesBack
