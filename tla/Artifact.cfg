SPECIFICATION FairSpec
CONSTANTS
  o1 = o1
  o2 = o2
  c1 = c1
  c2 = c2
  c3 = c3
  Objects <- TwoObjects
  Callers <- ThreeCallers
  Home <- Homes
  HasRepository = TRUE
  HasWorkspace = TRUE
  HasInstallHook = TRUE
  MaxFaults = 3
INVARIANTS
  TypeOK
  AwaitedPassIsRunning
  HookNeverAwaitsItself
  ReturnedMeansWhole
PROPERTIES
  EnsuredNeverRefetches
  HookAgainOnlyForFailures
  EveryPassSettles
  EventuallyWhole
  ImplementsOnceInit
