SPECIFICATION MCSpec
CONSTANTS
  c1 = c1
  deployer = deployer
  oracle = oracle
  probe = probe
  Probe = probe
  Clients <- OneClient
  Addresses <- TwoAddresses
  Jobs <- AllJobs
  MaxVotes = 2
  MaxFaults = 3
INVARIANTS
  TypeOK
  AgainOnlyIfLost
  ReportsAreTrue
PROPERTIES
  VotersEnd
  OthersEnd
CHECK_DEADLOCK FALSE
