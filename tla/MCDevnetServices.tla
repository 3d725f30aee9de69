-------------------------- MODULE MCDevnetServices --------------------------
\* Workloads of DevnetServices for TLC.
EXTENDS DevnetServices, ServiceCatalog

CONSTANTS p1, p2

One == {p1}
Two == {p1, p2}
WithoutCMv2 == Components \ {"cmv2"}

CommandsFor(s) ==
    {UpCommand(s), DownCommand(s, {}), DownCommand(s, {"force"})}
        \cup (IF s \in DOMAIN Build THEN {BuildCommand(s)} ELSE {})
        \cup (IF s \in Rebuildable THEN {RebuildCommand(s), Command("rebuild", s, {"skipDeploy"}, Asked)}
              ELSE {})

\* Each service on its own, with what it needs and with a prerequisite missing.
Needed(s) == Up[s].uses \cup (IF s = "onchainMon" THEN {"kapi"} ELSE {})
EachService ==
    UNION {{[commands |-> CommandsFor(s), up |-> Needed(s), deployed |-> Components,
             registry |-> "external", faults |-> 2],
            [commands |-> {UpCommand(s)}, up |-> {}, deployed |-> {"chain"},
             registry |-> "external", faults |-> 2]}
              : s \in Services \ {"oracle", "dockerRegistry"}}

\* The registry, beside a service whose image it holds.
LocalRegistry == {[commands |-> CommandsFor("dockerRegistry")
                                   \cup {Command("up", "dockerRegistry", {"force"}, "none"),
                                         UpCommand("ehw"), RebuildCommand("ehw")},
                   up |-> {"kapi"} \cup up, deployed |-> Components, registry |-> "local",
                   faults |-> 1] : up \in {{}, {"dockerRegistry"}}}

\* `down` and `down-offchain` over services that are up.
WholeStand(up) == [commands |-> {StopCommand({"force"}), StopCommand({}),
                                 StopCommand({"silent"}), StopOffchainCommand({}),
                                 UpCommand("kapi"), UpCommand("noWidget")},
                   up |-> up, deployed |-> Components, registry |-> "external", faults |-> 1]

\* The oracles, with the performance database and without.
Oracles == {[commands |-> CommandsFor("oracle")
                             \cup {DownCommand("oracle", {"keepDb"}),
                                   Command("up", "oracle", {"build"}, "none")},
             up |-> {"kapi"}, deployed |-> d, registry |-> "external", faults |-> 1] : d \in {Components, WithoutCMv2}}

WholeStands == Oracles
    \cup {WholeStand(up) : up \in {{"kapi", "noWidgetBackend"},
                                   {"kapi", "blockscout", "council"}}}

EveryWorkload == EachService \cup LocalRegistry \cup WholeStands

\* The workloads of the three refuted statements.
RebuildOfSynced == {[commands |-> {RebuildCommand(s)}, up |-> Up[s].uses \cup Up[s].starts,
                     deployed |-> Components, registry |-> "external", faults |-> 0] : s \in {"ehw", "onchainMon"}}
KapiAlone == {[commands |-> {UpCommand("kapi"), DownCommand("kapi", {})}, up |-> {},
               deployed |-> Components, registry |-> "external", faults |-> 0]}
CouncilTwice == {[commands |-> {UpCommand("council")}, up |-> {"kapi"},
                  deployed |-> Components, registry |-> "external", faults |-> 0]}
=============================================================================
