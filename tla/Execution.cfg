SPECIFICATION Spec
CONSTANTS
  e1 = e1
  e2 = e2
  e3 = e3
  Entries <- Requests
  MaxNesting = 4
  MaxCalls = 6
SYMMETRY Symmetry
INVARIANTS
  TypeOK
  DepthCountsFrames
  OnlyTheOutermostIsRoot
PROPERTY OutcomesReachTheirCaller
CHECK_DEADLOCK FALSE
