--------------------------- MODULE ServiceCatalog ---------------------------
(***************************************************************************)
(* What the up, build and down commands of each service do, as data: their *)
(* handlers in src/commands/<service>/ follow one scheme, which            *)
(* DevnetServices executes, and differ in the points recorded here.        *)
(***************************************************************************)

EXTENDS Sequences

(***************************************************************************)
(* A helm release: how up deals with it, whether it has a Deployment (and  *)
(* so is seen by getNamespacedDeployedHelmReleases), whether it runs the   *)
(* image built for the service, and what must be deployed for it to be     *)
(* part of the service.  The rules are                                     *)
(*   install   helm install                                                *)
(*   ensure    helm upgrade --install                                      *)
(*   within    the same, without --create-namespace                        *)
(*   missing   skipped when listed; installed otherwise, and uninstalled   *)
(*             again, with no complaint, when the installation fails       *)
(*   refresh   as missing, but upgraded when listed                        *)
(*   kubo      upgraded when recorded as running or listed, or installed   *)
(*   prover    upgraded when recorded as running, or installed             *)
(***************************************************************************)
App(name, rule) ==
    [name |-> name, rule |-> rule, listed |-> TRUE, image |-> TRUE, when |-> {}]

Infra(name, rule) ==
    [name |-> name, rule |-> rule, listed |-> TRUE, image |-> FALSE, when |-> {}]

StatefulInfra(name, rule) == [Infra(name, rule) EXCEPT !.listed = FALSE]

OnlyWithCMv2(r) == [r EXCEPT !.when = {"cmv2"}]

(***************************************************************************)
(* up: whether a service recorded as running is left alone; what must be   *)
(* deployed; which services must be recorded as running; which service it  *)
(* brings up first, and whether it does so even when that one is running;  *)
(* whether it builds its image; when it creates the namespace, other than  *)
(* in a loop over releases; its releases in order.                         *)
(***************************************************************************)
Plain(needs, uses, plan) ==
    [skip |-> TRUE, needs |-> needs, uses |-> uses, starts |-> {}, restarts |-> FALSE,
     builds |-> TRUE, namespace |-> "release", plan |-> plan]

Chain == {"chain"}
Lido == {"chain", "lido"}
CSM == {"chain", "lido", "csm"}
CMv2 == {"chain", "lido", "cmv2"}
Guardian == CSM \cup {"dataBus"}   \* getDataBus() throws; it is read after the build

KapiK8sUp == Plain(Lido, {}, <<App("lido-kapi-1", "install")>>)

KuboK8sUp == [Plain({}, {}, <<App("lido-kubo-1", "kubo")>>) EXCEPT !.skip = FALSE]

CouncilK8sUp ==
    [Plain(Guardian, {"kapi"}, <<App("lido-council-1", "missing"),
                                 App("lido-council-2", "missing")>>) EXCEPT !.skip = FALSE]

DSMBotsK8sUp ==
    [Plain(Guardian, {"kapi"}, <<App("depositor-bot", "missing"),
                                 App("pause-bot", "missing"),
                                 App("unvetter-bot", "missing")>>) EXCEPT !.skip = FALSE]

\* performance_collector and performance_web_server come with CMv2, the
\* database they share before everything else.
OracleReleases ==
    <<OnlyWithCMv2(StatefulInfra("oracle-performance-db", "within")),
      OnlyWithCMv2(App("oracle-performance-collector", "refresh")),
      OnlyWithCMv2(App("oracle-performance-web", "refresh")),
      App("oracle-accounting-1", "missing"), App("oracle-accounting-2", "missing"),
      App("oracle-ejector-1", "missing"), App("oracle-ejector-2", "missing"),
      App("oracle-csm-1", "missing"), App("oracle-csm-2", "missing"),
      OnlyWithCMv2(App("oracle-cm-1", "missing")),
      OnlyWithCMv2(App("oracle-cm-2", "missing"))>>

OracleK8sUp ==
    [Plain(CSM, {"kapi"}, OracleReleases)
        EXCEPT !.skip = FALSE, !.starts = {"kubo"}, !.restarts = TRUE, !.builds = FALSE,
               !.namespace = "started"]

EhwUp == Plain(Lido, {"kapi"}, <<App("lido-ehw", "install")>>)

EvmUp ==
    Plain(Chain, {"kapi"},
          <<Infra("evm-clickhouse", "ensure"), Infra("evm-prometheus", "ensure"),
            Infra("evm-alertmanager", "ensure"), App("lido-evm-1", "install")>>)

VroomOnchainMonK8sUp ==
    Plain(CSM, {"kapi"}, <<App("lido-vroom-onchain-mon", "install")>>)

OnchainMonK8sUp ==
    [Plain(Chain, {}, <<App("lido-onchain-mon", "install")>>)
        EXCEPT !.starts = {"vroomOnchainMon"}]

NoWidgetBackendUp ==
    Plain(CSM, {"kapi"}, <<App("lido-no-widget-backend-1", "install")>>)

NoWidgetUp ==
    Plain(CSM, {"kapi", "noWidgetBackend"}, <<App("lido-no-widget-1", "install")>>)

LateProverBotK8sUp == Plain(Lido, {}, <<App("lido-late-prover-bot", "install")>>)

MevMonitoringK8sUp ==
    Plain(Chain, {"kapi"},
          <<StatefulInfra("mev-mon-postgresql", "ensure"), StatefulInfra("mev-mon-redis", "ensure"),
            App("mev-monitoring", "install")>>)

DashboardUp == Plain(Chain, {}, <<App("lido-dashboard-1", "install")>>)

CSMProverToolK8sUp ==
    [Plain(CSM, {"kapi"}, <<App("lido-csm-prover-tool", "prover")>>) EXCEPT !.skip = FALSE]

CMv2ProverToolK8sUp ==
    [Plain(CMv2, {"kapi"}, <<App("lido-cmv2-prover-tool", "prover")>>) EXCEPT !.skip = FALSE]

GrafanaUp ==
    [Plain({}, {}, <<Infra("lido-grafana-1", "install")>>) EXCEPT !.builds = FALSE]

LoggingUp ==
    [Plain({}, {}, <<Infra("loki", "ensure"), StatefulInfra("promtail", "ensure")>>)
        EXCEPT !.builds = FALSE]

BlockscoutUp ==
    [Plain(Chain, {}, <<StatefulInfra("blockscout-postgresql", "install"),
                        Infra("blockscout-verification", "install"),
                        Infra("blockscout-stack", "install")>>)
        EXCEPT !.builds = FALSE, !.namespace = "none"]

\* Other services push their images to it; see DevnetServices for its record.
DockerRegistryUp ==
    [Plain({}, {}, <<Infra("lido-docker-registry", "install")>>) EXCEPT !.builds = FALSE]

UpTable ==
      [kapi |-> KapiK8sUp, kubo |-> KuboK8sUp, council |-> CouncilK8sUp,
       dsmBots |-> DSMBotsK8sUp, oracle |-> OracleK8sUp, ehw |-> EhwUp, evm |-> EvmUp,
       vroomOnchainMon |-> VroomOnchainMonK8sUp, onchainMon |-> OnchainMonK8sUp,
       noWidgetBackend |-> NoWidgetBackendUp, noWidget |-> NoWidgetUp,
       lateProverBot |-> LateProverBotK8sUp, mevMonitoring |-> MevMonitoringK8sUp,
       dashboard |-> DashboardUp, csmProver |-> CSMProverToolK8sUp,
       cmv2Prover |-> CMv2ProverToolK8sUp, grafana |-> GrafanaUp,
       logging |-> LoggingUp, blockscout |-> BlockscoutUp,
       dockerRegistry |-> DockerRegistryUp]

-----------------------------------------------------------------------------
(***************************************************************************)
(* build: what must be deployed; the working copy whose code goes into the *)
(* image, and the ref the build itself checks out there first ("kept": it  *)
(* takes the tree as it is); the services whose image record it updates.   *)
(* Every build asks the state for the docker registry.                     *)
(***************************************************************************)
BuildOf(s) == [needs |-> {}, from |-> s, checkout |-> "kept", images |-> {s}]

KapiK8sBuild == BuildOf("kapi")
KuboK8sBuild == [BuildOf("kubo") EXCEPT !.from = "oracle"]
CouncilK8sBuild == [BuildOf("council") EXCEPT !.checkout = "hardcoded"]
DSMBotsK8sBuild == [BuildOf("dsmBots") EXCEPT !.checkout = "hardcoded"]
OracleK8sBuild == BuildOf("oracle")
EhwBuild == [BuildOf("ehw") EXCEPT !.checkout = "config"]
EvmBuild == BuildOf("evm")
VroomOnchainMonK8sBuild ==
    [BuildOf("vroomOnchainMon") EXCEPT !.needs = CSM]
OnchainMonK8sBuild == [BuildOf("onchainMon") EXCEPT !.checkout = "config"]
NoWidgetBackendBuild == BuildOf("noWidgetBackend")
NoWidgetBuild == BuildOf("noWidget")
LateProverBotK8sBuild == BuildOf("lateProverBot")
MevMonitoringK8sBuild == BuildOf("mevMonitoring")
DashboardBuild == BuildOf("dashboard")
\* One image for both provers.
CSMProverToolK8sBuild == [BuildOf("csmProver") EXCEPT !.images = {"csmProver", "cmv2Prover"}]

BuildTable ==
         [kapi |-> KapiK8sBuild, kubo |-> KuboK8sBuild, council |-> CouncilK8sBuild,
          dsmBots |-> DSMBotsK8sBuild, oracle |-> OracleK8sBuild, ehw |-> EhwBuild,
          evm |-> EvmBuild, vroomOnchainMon |-> VroomOnchainMonK8sBuild,
          onchainMon |-> OnchainMonK8sBuild, noWidgetBackend |-> NoWidgetBackendBuild,
          noWidget |-> NoWidgetBuild, lateProverBot |-> LateProverBotK8sBuild,
          mevMonitoring |-> MevMonitoringK8sBuild, dashboard |-> DashboardBuild,
          csmProver |-> CSMProverToolK8sBuild, cmv2Prover |-> CSMProverToolK8sBuild]

-----------------------------------------------------------------------------
(***************************************************************************)
(* down: whether it looks at the record (unless forced); which releases it *)
(* uninstalls ("first" or "all" of those listed, or the "fixed" ones), and *)
(* whether in the reverse order; whether it gives up when none is listed;  *)
(* whether it goes on when an uninstallation fails; whether it deletes the *)
(* namespace; the service it takes down afterwards.                        *)
(***************************************************************************)
DownOf(picks) ==
    [checks |-> TRUE, picks |-> picks, reversed |-> FALSE, emptyStops |-> TRUE,
     tolerant |-> FALSE, namespace |-> TRUE, then |-> {}]

KapiK8sDown == DownOf("first")
KuboK8sDown == DownOf("first")
CouncilK8sDown == DownOf("all")
DSMBotsK8sDown == DownOf("all")
OracleK8sDown == [DownOf("all") EXCEPT !.then = {"kubo"}]
EhwDown == DownOf("first")
EvmDown == [DownOf("all") EXCEPT !.reversed = TRUE]
VroomOnchainMonK8sDown == DownOf("first")
OnchainMonK8sDown == DownOf("first")
NoWidgetBackendDown == DownOf("first")
NoWidgetDown == DownOf("first")
LateProverBotK8sDown == DownOf("first")
MevMonitoringK8sDown ==
    [DownOf("fixed") EXCEPT !.checks = FALSE, !.reversed = TRUE, !.namespace = FALSE]
DashboardDown == DownOf("first")
CSMProverToolK8sDown == DownOf("first")
CMv2ProverToolK8sDown == DownOf("first")
GrafanaDown == [DownOf("all") EXCEPT !.emptyStops = FALSE]
LoggingDown == [DownOf("fixed") EXCEPT !.reversed = TRUE, !.tolerant = TRUE]
BlockscoutDown == [DownOf("fixed") EXCEPT !.namespace = FALSE]
DockerRegistryDown == [DownOf("fixed") EXCEPT !.checks = FALSE]

DownTable ==
        [kapi |-> KapiK8sDown, kubo |-> KuboK8sDown, council |-> CouncilK8sDown,
         dsmBots |-> DSMBotsK8sDown, oracle |-> OracleK8sDown, ehw |-> EhwDown,
         evm |-> EvmDown, vroomOnchainMon |-> VroomOnchainMonK8sDown,
         onchainMon |-> OnchainMonK8sDown, noWidgetBackend |-> NoWidgetBackendDown,
         noWidget |-> NoWidgetDown, lateProverBot |-> LateProverBotK8sDown,
         mevMonitoring |-> MevMonitoringK8sDown, dashboard |-> DashboardDown,
         csmProver |-> CSMProverToolK8sDown, cmv2Prover |-> CMv2ProverToolK8sDown,
         grafana |-> GrafanaDown, logging |-> LoggingDown, blockscout |-> BlockscoutDown,
         dockerRegistry |-> DockerRegistryDown]

-----------------------------------------------------------------------------
\* The services `service rebuild` can roll to a git ref: those whose config has
\* both a k8sTopic and a repository.
RebuildTable == {"kapi", "council", "dsmBots", "oracle", "ehw", "evm", "onchainMon",
                "lateProverBot", "csmProver"}

\* `down`, and the part of it that is `down-offchain`.
OffchainDownList == <<"kapi", "onchainMon", "oracle", "vroomOnchainMon", "ehw",
                      "council", "dsmBots">>
DownList == <<"noWidgetBackend", "noWidget">> \o OffchainDownList

\* `down` goes on with the chain.
StopTable == [stop |-> Append(DownList, "chain"), stopOffchain |-> OffchainDownList]
=============================================================================
