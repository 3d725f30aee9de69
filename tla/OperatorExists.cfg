SPECIFICATION Spec
CONSTANTS
  Scenarios <- AnOperator
  Plans <- OperatorPlan
INVARIANTS
  ExistingOperatorsExist
CHECK_DEADLOCK FALSE
