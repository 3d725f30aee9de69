SPECIFICATION Spec
CONSTANTS
  e1 = e1
  e2 = e2
  e3 = e3
  Entries <- Requests
  MaxNesting = 2
  MaxCalls = 1
INVARIANT SuccessMeansSuccess
CHECK_DEADLOCK FALSE
