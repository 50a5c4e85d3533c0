SPECIFICATION Spec
CONSTANTS
  LoadAmount = 3
  StopAmount = 2
  Receivable = {0, 1, 2, 3, 4}
  MaxPending = 2
  MaxFailures = 0
PROPERTIES PagesUntilEnoughFound
CHECK_DEADLOCK FALSE
