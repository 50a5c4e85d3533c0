SPECIFICATION Spec
CONSTANTS
  LoadAmount = 2
  StopAmount = 2
  Receivable = {0, 1, 2}
  MaxPending = 2
  MaxFailures = 1
INVARIANTS TypeOK NeverAhead InOrderUnlessOverlapped PageCountsOnce StuckNeedsFailure
PROPERTIES PagingStops PageCatchesUp
CHECK_DEADLOCK FALSE
