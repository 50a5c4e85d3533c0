SPECIFICATION Spec
CONSTANTS
  Addresses = {a1, a2}
  Amounts = {zero, every, big}
  Zero = zero
  Everything = every
  every = every
  big = big
  Costly <- MCCostly
  All = all_of_it
  Rates = {1, 2}
  None = None
  MaxCalls = 2
  MaxFailures = 1
CHECK_DEADLOCK FALSE
INVARIANTS TypeOK ReadyMatchesPage OneAtATime
PROPERTIES ButtonComesBack
