--------------------------- MODULE MCChainClients ---------------------------
\* ChainClients for TLC: one client of each kind; what other clients do to it is
\* among what the chain does (they support, start and execute votes).
EXTENDS ChainClients

CONSTANTS c1, deployer, oracle, probe

OneClient == {c1}
TwoAddresses == {deployer, oracle}

VoterJobs == {[op |-> op] : op \in Voters}
OtherJobs == {[op |-> op] : op \in Waits}
             \cup {[op |-> "fund", to |-> <<deployer, oracle>>, funder |-> deployer],
                   [op |-> "fund", to |-> <<deployer, oracle>>, funder |-> oracle],
                   [op |-> "transfer", to |-> <<oracle>>]}
AllJobs == VoterJobs \cup OtherJobs

\* Voters meet a synced chain under way; payers and waits do not look at votes.
OneSubject == \/ job \in [Clients -> VoterJobs] /\ node = "synced" /\ past20 /\ finalized
              \/ job \in [Clients -> OtherJobs]

\* Voters meet one fault, and the others no votes, which they do not look at.
Scope == IF \E i \in Clients : job[i].op \in Voters THEN faults' <= 1 ELSE UNCHANGED contract

MCInit == Init /\ OneSubject

MCSpec == MCInit /\ [][Next /\ Scope]_vars /\ Fairness
=============================================================================
