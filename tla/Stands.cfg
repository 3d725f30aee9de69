SPECIFICATION Spec
CONSTANTS
  Scenarios <- EveryStand
  Plans <- EveryPlan
INVARIANTS
  TypeOK
  OrderIsRight
  OnlyHalfDoneIsLost
  OneOperatorPerKey
  ReadyMeansValidating
  DepositsAreServed
CHECK_DEADLOCK FALSE
