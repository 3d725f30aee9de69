------------------------------ MODULE MCStands ------------------------------
\* The stands for TLC.
EXTENDS StandOrder, StandCatalog

Scenario(stand, options, given, n) ==
    [stand |-> stand, options |-> options, given |-> given, faults |-> n]

Flags == {"verify", "evm", "ehw", "grafana"}
Registry == {"dockerRegistry"}

\* A chain somebody else runs, or an earlier command brought up: with its genesis, and
\* with the endpoint of a validator client or without.
Attached == Registry \cup {"chain", "genesis"}
Validating == Attached \cup {"vcApi", "blockscout"}
SelfHosted == Attached \cup {"deployInfo", "blockscout"}

KurtosisStands ==
    {"pectra", "pectra-tw", "fusaka", "csm-v2", "srv3-cmv2-devnet", "srv3-cmv2-easytrack",
     "glamsterdam-kurtosis"}
SmallStands == {"pectra-only-chain", "pectra-only-contracts", "fusaka-zk-test"}

\* Every stand with the DSM and without, with all other flags and none; without a docker
\* registry; and the ones on a chain of their own on what they ask for, on less, and on a
\* chain that has its validator client already.  (glamsterdam-full with --dsm is in
\* MCFullDSM.)
EveryStand ==
    {Scenario(s, o, Registry, 1) : s \in KurtosisStands, o \in {{}, {"dsm"}, Flags, Flags \cup {"dsm"}}}
        \cup {Scenario(s, {}, {}, 1) : s \in KurtosisStands}
        \cup {Scenario(s, {"dsm"}, Registry, 2) : s \in {"pectra", "srv3-cmv2-easytrack", "glamsterdam-kurtosis"}}
        \cup {Scenario(s, o, {}, 2) : s \in SmallStands, o \in {{}, {"verify"}}}
        \cup {Scenario("glamsterdam-full", o, g, 1) :
                o \in {{}, {"verify"}}, g \in {SelfHosted, SelfHosted \ {"blockscout"}, Attached}}
        \cup {Scenario("epbs", o \cup {"skipChain"}, g, 1) :
                o \in {{}, Flags, {"verify", "verifierUrl"}}, g \in {Validating, Attached, {}}}
        \cup {Scenario("epbs", o, g, 1) :
                o \in {{}, Flags}, g \in {Registry, Registry \cup {"blockscout"}, Validating}}
        \cup {Scenario("glamsterdam", o, g, 1) : o \in {{}, {"skipChain"}}, g \in {{}, {"chain"}}}
        \cup {Scenario("hoodi-self-hosted", {}, g, 1) : g \in {{}, Registry, Registry \cup {"lido"}}}

\* add-new-operator on the stand that calls it first.
AnOperator == {Scenario("srv3-cmv2-devnet", {}, Registry, 1)}

\* (The LET keeps the plans from being expanded wherever the constant is used.)
EveryPlan ==
    LET plan[sc \in EveryStand] == CommandsOf(sc.stand, sc.options)
    IN plan

OperatorPlan ==
    LET plan[sc \in AnOperator] == CommandsOf(sc.stand, sc.options)
    IN plan
=============================================================================
