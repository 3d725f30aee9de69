------------------------------ MODULE MCFullDSM ------------------------------
\* glamsterdam-full with --dsm, for TLC: on what the stand asks for, uninterrupted.
EXTENDS Stands, StandCatalog

FullDSM ==
    {[stand |-> "glamsterdam-full", options |-> {"dsm"},
      given |-> {"dockerRegistry", "chain", "genesis", "deployInfo", "blockscout"}, faults |-> 0]}

FullDSMPlan ==
    LET plan[sc \in FullDSM] == CommandsOf(sc.stand, sc.options)
    IN plan
=============================================================================
