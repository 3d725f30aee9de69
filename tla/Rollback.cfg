SPECIFICATION Spec
CONSTANTS
  Up <- UpTable
  Build <- BuildTable
  Down <- DownTable
  Rebuildable <- RebuildTable
  StopLists <- StopTable
  p1 = p1
  p2 = p2
  Invocations <- Two
  Workloads <- CouncilTwice
  MaxCommands = 2
PROPERTY RollbackUndoesOnlyItsOwn
CHECK_DEADLOCK FALSE
