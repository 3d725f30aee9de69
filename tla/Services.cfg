SPECIFICATION FairSpec
CONSTANTS
  Up <- UpTable
  Build <- BuildTable
  Down <- DownTable
  Rebuildable <- RebuildTable
  StopLists <- StopTable
  p1 = p1
  p2 = p2
  Invocations <- One
  Workloads <- EveryWorkload
  MaxCommands = 3
INVARIANTS
  TypeOK
  RebuiltAsAsked
  ForcedStopClears
  StaleOnlyIfInterrupted
PROPERTIES
  RecordedOnlyWhenDeployed
  ForgottenOnlyWhenGone
  DbSurvivesRebuild
  EveryCommandEnds
CHECK_DEADLOCK FALSE
