SPECIFICATION Spec
CONSTANTS
  Up <- UpTable
  Build <- BuildTable
  Down <- DownTable
  Rebuildable <- RebuildTable
  StopLists <- StopTable
  p1 = p1
  p2 = p2
  Invocations <- One
  Workloads <- KapiAlone
  MaxCommands = 3
INVARIANT PodsCanPull
CHECK_DEADLOCK FALSE
