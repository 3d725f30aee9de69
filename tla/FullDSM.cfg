SPECIFICATION Spec
CONSTANTS
  Scenarios <- FullDSM
  Plans <- FullDSMPlan
INVARIANTS
  DepositsAreServed
CHECK_DEADLOCK FALSE
