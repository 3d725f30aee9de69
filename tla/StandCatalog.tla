---------------------------- MODULE StandCatalog ----------------------------
(***************************************************************************)
(* The stands, as data: what each command of src/commands that a stand     *)
(* calls reads, writes and asks of the outside world, in order, and the    *)
(* order in which each stand calls them.  Stands executes them.            *)
(*                                                                         *)
(* A command is a sequence of moves.  A move needs facts, and gives or     *)
(* takes others.  A fact is a record of state.json ("lido"), a file on     *)
(* disk ("cliLido", the network configuration of lido-cli), something in   *)
(* the cluster or on the chain ("enclave", "csmContracts", "norOperator"), *)
(* or a service that is up ("kapi").                                       *)
(***************************************************************************)
EXTENDS Naturals, Sequences, ServiceCatalog

(***************************************************************************)
(* The fields of a move: the command goes on `over` moves further on when  *)
(* `skip` is there already; `outside` marks a call to another program or   *)
(* to the network; `quiet` a failure that is logged and passed over; `op`  *)
(* is what it does to the validator keys, if anything.                     *)
(***************************************************************************)
Move(needs, gives) ==
    [skip |-> {}, over |-> 0, needs |-> needs, takes |-> {}, gives |-> gives,
     outside |-> FALSE, quiet |-> FALSE, op |-> "none", name |-> "none", wc |-> "none"]

Check(facts) == Move(facts, {})
Write(facts) == Move({}, facts)
Call(needs, gives) == [Move(needs, gives) EXCEPT !.outside = TRUE]
Erase(facts) == [Move({}, {}) EXCEPT !.takes = facts]
Quietly(move) == [move EXCEPT !.quiet = TRUE]
Keys(op, name, wc, needs) ==
    [Move(needs, {}) EXCEPT !.op = op, !.name = name, !.wc = wc]

\* The handler returns early, or leaves a part out, when the facts are there.
Unless(facts, moves) == <<[Move({}, {}) EXCEPT !.skip = facts, !.over = Len(moves)]>> \o moves

If(condition, sequence) == IF condition THEN sequence ELSE <<>>

-----------------------------------------------------------------------------
(***************************************************************************)
(* The chain.                                                              *)
(***************************************************************************)
GitCheckout == <<Call({}, {})>>

KurtosisRunPackage == Unless({"kurtosis"}, <<Call({}, {"enclave"}), Write({"kurtosis"})>>)
ChainSyncNodesStateFromK8s == <<Call({"enclave"}, {}), Write({"nodes"})>>
KurtosisK8sNodesIngressUp == <<Check({"nodes"}), Call({}, {}), Write({"nodesIngress"})>>
ChainSyncState == <<Check({"nodes", "nodesIngress"}), Write({"chain", "vcApi"})>>

\* The genesis is also where the address of the deposit contract is read.
KurtosisDownloadArtifacts == <<Erase({"genesis"}), Call({"enclave"}, {"genesis"})>>
KurtosisDoraK8sIngressUp == <<Call({}, {}), Write({"dora"})>>

(***************************************************************************)
(* `service up`, from the catalog: a build asks for the docker registry; a *)
(* service that starts another one does so first.                          *)
(***************************************************************************)
UpAlone(s) ==
    LET up == UpTable[s]
        moves == <<Check(up.needs \cup up.uses \cup (IF up.builds THEN {"dockerRegistry"} ELSE {})),
                   Call({}, {}), Write({s})>>
    IN IF up.skip THEN Unless({s}, moves) ELSE moves

ServiceUp(s) ==
    If(UpTable[s].starts # {}, UpAlone(CHOOSE t \in UpTable[s].starts : TRUE)) \o UpAlone(s)

OracleUp(build) == If(build, <<Check({"dockerRegistry"})>>) \o ServiceUp("oracle")
OracleK8sBuildMulti == <<Check({"dockerRegistry"}), Call({}, {"oracleImages"})>>

ChainKurtosisUp ==
    <<Call({}, {})>> \o KurtosisRunPackage \o ChainSyncNodesStateFromK8s
        \o KurtosisK8sNodesIngressUp \o ChainSyncState \o KurtosisDownloadArtifacts
        \o KurtosisDoraK8sIngressUp \o ServiceUp("blockscout") \o <<Write({"kurtosisMode"})>>

\* Failed downloads are only warned of.
ChainFetchNetworkConfig == <<Quietly(Call({}, {"genesis"}))>>

\* saveDeployState() writes a chain record without the endpoint of the validator
\* client over the one that may have it.
SaveDeployState == <<[Write({"chain"}) EXCEPT !.takes = {"vcApi"}], Write({"deployInfo"})>>
ChainSelfHostedUp(custom) ==
    If(custom, <<Check({"genesis"})>>) \o <<Call({}, {}), Call({}, {"elNode"}), Call({}, {"clNode"})>>
        \o SaveDeployState

\* The placeholder keys with which the validator client starts.
ChainGenerateValidatorKeys ==
    <<Check({"chain"}), Write({"keystores"}), Call({}, {}), Keys("generate", "none", "own", {})>>

\* It rewrites the deploy info that it has read.
ChainValidatorUp ==
    <<Check({"deployInfo", "keystores"}), Call({}, {}), Check({"chain"}), Write({"vcApi"})>>

ChainGetInfo == <<Check({"chain"})>>
Synced == <<Call({"chain"}, {})>>
Finalized == <<Call({"chain"}, {})>>

-----------------------------------------------------------------------------
(***************************************************************************)
(* Lido and its modules.  What a deployment wrote is read back into        *)
(* state.json and then written to the configuration of lido-cli; the one   *)
(* of Lido starts the configuration of the modules afresh.                 *)
(***************************************************************************)
LidoCoreUpdateState ==
    <<Check({"chain"}), Write({"lido"}),
      [Call({}, {"cliLido"}) EXCEPT !.takes = {"cliCSM", "cliCMv2"}]>>

LidoCoreVerify == <<Check({"chain", "blockscout"}), Call({}, {})>>
PrepareLidoCore == <<Write({"lidoConfig"})>>

DeployLidoContracts(verify) ==
    Unless({"lido"},
           <<Check({"chain"})>> \o PrepareLidoCore
               \o <<Check({"genesis"}), Call({"lidoConfig"}, {"lidoContracts"})>>
               \o LidoCoreUpdateState \o If(verify, LidoCoreVerify))

DeployTWContracts ==
    <<Check({"chain", "blockscout"}), Check({"genesis"})>> \o PrepareLidoCore
        \o <<Call({"lidoConfig", "lidoContracts"}, {})>> \o LidoCoreUpdateState

CSMUpdateState == <<Check({"csmContracts"}), Write({"csm"}), Write({"cliCSM"})>>

DeployCSMContracts(verify) ==
    Unless({"csm"},
           <<Check({"lido", "chain"})>> \o If(verify, <<Check({"blockscout"})>>)
               \o <<Call({}, {}), Call({"lidoContracts"}, {"csmContracts"})>> \o CSMUpdateState)

CMv2UpdateState == <<Check({"cmv2Contracts"}), Write({"cmv2"}), Write({"cliCMv2"})>>

DeployCMv2Contracts ==
    Unless({"cmv2"},
           <<Check({"lido", "chain", "blockscout"}), Call({}, {}),
             Call({"lidoContracts"}, {"cmv2Contracts"})>> \o CMv2UpdateState)

LidoCLIInstall == <<Call({}, {})>>

ActivateLidoProtocol ==
    Unless({"lidoActive"}, <<Check({"chain"}), Call({"cliLido"}, {"lidoSetUp"}), Write({"lidoActive"})>>)

ActivateCSM ==
    <<Check({"chain", "csm", "lido"})>>
        \o Unless({"csmActive"}, <<Call({"cliLido", "lidoSetUp"}, {"csmModule"}), Write({"csmActive"})>>)

ActivateCMv2 ==
    <<Check({"chain", "cmv2", "lido"})>>
        \o Unless({"cmv2Active"}, <<Call({"cliLido", "lidoSetUp"}, {"cmv2Module"}),
                                    Quietly(Call({"cliCMv2"}, {})), Write({"cmv2Active"})>>)

ReplaceDSM == <<Call({"cliLido", "lidoSetUp"}, {"eoa"})>>

-----------------------------------------------------------------------------
(***************************************************************************)
(* Keys and operators.                                                     *)
(***************************************************************************)
GenerateLidoDevNetKeys(wc) == <<Check({"lido", "chain"}), Keys("generate", "none", wc, {})>>

UseLidoDevNetKeys(name, wc) ==
    <<Check({"lido"}), Keys("write", name, wc, {}), Keys("mark", name, wc, {})>>

NewKeys(name, wc) == <<GenerateLidoDevNetKeys(wc), UseLidoDevNetKeys(name, wc)>>

LidoAddOperator == <<Call({"cliLido", "lidoSetUp"}, {"norOperator"})>>
LidoAddKeys(name) ==
    <<[Keys("addKeys", name, "none", {"cliLido", "norOperator"}) EXCEPT !.outside = TRUE]>>
LidoSetStakingLimit == <<Call({"cliLido", "norOperator"}, {"stakingLimit"})>>

\* Without the bots the deposit is made here, by the account that stands for them.
LidoDeposit(dsm) ==
    <<Call({"cliLido", "lidoSetUp"}, {"ether"})>> \o If(~dsm, <<Call({"eoa"}, {"deposited"})>>)

LidoAddCSMOperatorWithKeys(name) ==
    <<[Keys("newOperator", name, "none", {"cliCSM", "csmModule"}) EXCEPT !.outside = TRUE]>>

LidoAddCMv2OperatorWithKeys(name) ==
    <<[Keys("newOperator", name, "none", {"cliCMv2", "cmv2Module", "proofs", "gateTree"})
          EXCEPT !.outside = TRUE]>>

ValidatorAdd == <<Check({"vcApi"}), [Quietly(Keys("import", "none", "none", {})) EXCEPT !.outside = TRUE]>>

\* The keys file is looked for first, before this command writes it.
AddNewOperator(name, dsm) ==
    <<Keys("look", name, "none", {})>> \o GenerateLidoDevNetKeys("0x01")
        \o UseLidoDevNetKeys(name, "0x01") \o Unless({"operatorExists"}, LidoAddOperator)
        \o LidoAddKeys(name) \o LidoSetStakingLimit \o LidoDeposit(dsm) \o ValidatorAdd

CMv2BuildAllowlist == <<Write({"allowlist"})>>
GrantSetTreeRole == <<Call({"cliCMv2", "cmv2Module"}, {"treeRole"})>>
CMv2SetGateTree ==
    <<Check({"allowlist"}), Write({"proofs"}), Check({"cmv2"}), Call({"treeRole"}, {"gateTree"})>>

-----------------------------------------------------------------------------
(***************************************************************************)
(* Easy Track, the data bus, the digest.                                   *)
(***************************************************************************)
EasyTrackPrepare == <<Move({}, {})>>
EasyTrackInstall == <<Check({"chain"}), Call({}, {"easyTrackTools"})>>
EasyTrackDeploy ==
    Unless({"easyTrack"}, <<Check({"lido", "chain"}), Call({"easyTrackTools"}, {"easyTrackContracts"}),
                            Quietly(Call({"easyTrackContracts"}, {"easyTrack"}))>>)
EasyTrackGrantPermissions == <<Check({"easyTrack", "lido", "chain"}), Call({"easyTrackTools"}, {})>>
DataBusDeploy == <<Check({"chain"}), Call({}, {}), Call({}, {"dataBusContract"}), Write({"dataBus"})>>
ChainPublishDigestToSlack == <<Call({"dashboard"}, {})>>

GuardianServices == <<DataBusDeploy, ServiceUp("council"), ServiceUp("dsmBots")>>
GuardianServicesFromSource ==
    <<DataBusDeploy, GitCheckout, ServiceUp("council"), GitCheckout, ServiceUp("dsmBots")>>

-----------------------------------------------------------------------------
(***************************************************************************)
(* The stands.  `o` is the set of flags given.                             *)
(***************************************************************************)
DSM(o) == "dsm" \in o
Verify(o) == "verify" \in o

PectraUp(o) ==
    <<GitCheckout, GitCheckout, ChainKurtosisUp, DeployLidoContracts(Verify(o)),
      DeployCSMContracts(Verify(o)), ActivateLidoProtocol, ActivateCSM>>
        \o If(~DSM(o), <<ReplaceDSM>>)

NorAndCSMOperators ==
    NewKeys("nor_1", "0x01") \o NewKeys("csm_1", "0x01")
        \o <<LidoAddOperator, LidoAddKeys("nor_1"), LidoSetStakingLimit,
             LidoAddCSMOperatorWithKeys("csm_1")>>

PectraServices(o) ==
    <<ServiceUp("kapi"), OracleUp(TRUE)>> \o If("evm" \in o, <<ServiceUp("evm")>>)
        \o If("grafana" \in o, <<ServiceUp("grafana")>>) \o If(DSM(o), GuardianServices)

DepositsToBoth(dsm) == <<LidoDeposit(dsm), LidoDeposit(dsm), ValidatorAdd>>

Pectra(o) ==
    PectraUp(o) \o NorAndCSMOperators \o PectraServices(o) \o DepositsToBoth(DSM(o)) \o <<ChainGetInfo>>

PectraTW(o) == Pectra(o) \o <<GitCheckout, DeployTWContracts>>

PectraOnlyChain == <<GitCheckout, ChainKurtosisUp>>
PectraOnlyContracts(o) ==
    <<GitCheckout, ChainKurtosisUp, DeployLidoContracts(Verify(o)), DeployCSMContracts(Verify(o))>>
FusakaZkTest == <<GitCheckout, GitCheckout, ChainKurtosisUp>>

FusakaUp(o) ==
    <<GitCheckout, GitCheckout, GitCheckout, ChainKurtosisUp, DeployLidoContracts(FALSE),
      DeployCSMContracts(FALSE), Finalized, ActivateLidoProtocol, ActivateCSM>>
        \o If(~DSM(o), <<ReplaceDSM>>)

Fusaka(o) ==
    FusakaUp(o) \o NorAndCSMOperators \o <<ServiceUp("kapi"), OracleUp(FALSE)>>
        \o If(DSM(o), GuardianServices) \o DepositsToBoth(DSM(o))
        \o <<ServiceUp("noWidgetBackend"), ServiceUp("noWidget"), ServiceUp("csmProver"),
             ChainGetInfo>>

CSMV2Operators ==
    NewKeys("csm_0", "0x01") \o NewKeys("csm_1", "0x01") \o NewKeys("csm_2", "0x01")
        \o NewKeys("csm_3", "0x01")
        \o <<LidoAddCSMOperatorWithKeys("csm_0"), LidoAddCSMOperatorWithKeys("csm_1"),
             LidoAddCSMOperatorWithKeys("csm_2"), LidoAddCSMOperatorWithKeys("csm_3")>>

CSMV2(o) ==
    <<GitCheckout, GitCheckout, GitCheckout, GitCheckout, ChainKurtosisUp,
      DeployLidoContracts(Verify(o)), DeployCSMContracts(Verify(o)), CSMUpdateState,
      ActivateLidoProtocol, ActivateCSM>> \o If(~DSM(o), <<ReplaceDSM>>)
        \o CSMV2Operators \o <<ServiceUp("kapi"), OracleUp(FALSE)>>
        \o If(DSM(o), GuardianServices) \o <<LidoDeposit(DSM(o)), ValidatorAdd, ChainGetInfo>>

\* Three stands deploy all three modules; they differ in the chain they need.
ThreeModules(o) ==
    <<DeployLidoContracts(Verify(o)), DeployCSMContracts(Verify(o)), DeployCMv2Contracts,
      GitCheckout, LidoCLIInstall, ActivateLidoProtocol, ActivateCSM, ActivateCMv2>>
        \o If(~DSM(o), <<ReplaceDSM>>) \o <<AddNewOperator("nor_0", DSM(o))>>

TwoCSMOperators ==
    NewKeys("csm_0", "0x01") \o NewKeys("csm_1", "0x01")
        \o <<LidoAddCSMOperatorWithKeys("csm_0"), LidoAddCSMOperatorWithKeys("csm_1")>>

TwoCMv2Operators ==
    NewKeys("cmv2_0", "0x02") \o NewKeys("cmv2_1", "0x02")
        \o <<CMv2BuildAllowlist, GrantSetTreeRole, CMv2SetGateTree,
             LidoAddCMv2OperatorWithKeys("cmv2_0"), LidoAddCMv2OperatorWithKeys("cmv2_1")>>

SRv3CMv2Devnet(o) ==
    <<GitCheckout, GitCheckout, GitCheckout, ChainKurtosisUp>> \o ThreeModules(o)
        \o TwoCSMOperators \o TwoCMv2Operators \o <<ValidatorAdd, GitCheckout, ServiceUp("kapi")>>
        \o If("ehw" \in o, <<ServiceUp("ehw")>>)
        \o If(DSM(o), GuardianServicesFromSource) \o <<ChainGetInfo>>

GlamsterdamKurtosis(o) ==
    <<GitCheckout, GitCheckout, GitCheckout, ChainKurtosisUp>> \o ThreeModules(o)
        \o TwoCSMOperators \o TwoCMv2Operators \o <<ValidatorAdd, GitCheckout, ServiceUp("kapi")>>
        \o If(DSM(o), GuardianServicesFromSource) \o <<ChainGetInfo>>

\* The validator client first: AddNewOperator imports keys into it.  `dsm` has no
\* block of its own here.
GlamsterdamFull(o) ==
    <<GitCheckout, GitCheckout, GitCheckout, ChainGenerateValidatorKeys, ChainValidatorUp>>
        \o ThreeModules(o) \o TwoCSMOperators \o TwoCMv2Operators
        \o <<ValidatorAdd, GitCheckout, ServiceUp("kapi"), ChainGetInfo>>

EasyTrackContracts(o) ==
    <<GitCheckout, GitCheckout, GitCheckout, ChainKurtosisUp, DeployLidoContracts(Verify(o)),
      DeployCSMContracts(Verify(o)), GitCheckout, LidoCLIInstall, ActivateLidoProtocol, ActivateCSM>>
        \o If(~DSM(o), <<ReplaceDSM>>) \o <<AddNewOperator("nor_0", DSM(o))>> \o TwoCSMOperators
        \o <<ValidatorAdd, GitCheckout, EasyTrackPrepare, EasyTrackInstall, EasyTrackDeploy>>

EasyTrackGuardians ==
    <<DataBusDeploy, EasyTrackGrantPermissions, GitCheckout, ServiceUp("council"), GitCheckout,
      ServiceUp("dsmBots")>>

SRv3CMv2EasyTrack(o) ==
    EasyTrackContracts(o)
        \o <<GitCheckout, ServiceUp("kapi"), OracleK8sBuildMulti, OracleUp(FALSE)>>
        \o If(DSM(o), EasyTrackGuardians)
        \o <<ServiceUp("dashboard"), ServiceUp("logging"), GitCheckout, ServiceUp("vroomOnchainMon"),
             ServiceUp("onchainMon"), ChainPublishDigestToSlack, ChainGetInfo>>

\* The contracts of csm are verified at the url that is given, or at blockscout's.
EPBSChain(o) ==
    <<GitCheckout, GitCheckout>>
        \o If("skipChain" \notin o, <<ChainFetchNetworkConfig, ChainSelfHostedUp(TRUE)>>)
        \o <<Synced, DeployLidoContracts(Verify(o)),
             DeployCSMContracts(Verify(o) /\ "verifierUrl" \notin o), Synced,
             ActivateLidoProtocol, ActivateCSM>>

\* The DSM is always the full one.
EPBS(o) ==
    EPBSChain(o) \o NorAndCSMOperators \o <<ServiceUp("kapi"), OracleUp(FALSE)>>
        \o GuardianServices \o DepositsToBoth(TRUE)
        \o If("evm" \in o, <<ServiceUp("evm")>>) \o If("ehw" \in o, <<ServiceUp("ehw")>>)
        \o <<ServiceUp("csmProver"), ServiceUp("lateProverBot"), ServiceUp("noWidgetBackend"),
             ServiceUp("noWidget"), ChainGetInfo>>

Glamsterdam(o) ==
    If("skipChain" \notin o, <<ChainFetchNetworkConfig, ChainSelfHostedUp(TRUE)>>)
        \o <<Synced, Synced, ChainGetInfo>>

HoodiSelfHosted == <<ChainSelfHostedUp(FALSE), ServiceUp("kapi"), ChainGetInfo>>

CommandsOf(stand, o) ==
    CASE stand = "pectra" -> Pectra(o)
      [] stand = "pectra-tw" -> PectraTW(o)
      [] stand = "pectra-only-chain" -> PectraOnlyChain
      [] stand = "pectra-only-contracts" -> PectraOnlyContracts(o)
      [] stand = "fusaka-zk-test" -> FusakaZkTest
      [] stand = "fusaka" -> Fusaka(o)
      [] stand = "csm-v2" -> CSMV2(o)
      [] stand = "srv3-cmv2-devnet" -> SRv3CMv2Devnet(o)
      [] stand = "srv3-cmv2-easytrack" -> SRv3CMv2EasyTrack(o)
      [] stand = "glamsterdam-kurtosis" -> GlamsterdamKurtosis(o)
      [] stand = "glamsterdam-full" -> GlamsterdamFull(o)
      [] stand = "epbs" -> EPBS(o)
      [] stand = "glamsterdam" -> Glamsterdam(o)
      [] stand = "hoodi-self-hosted" -> HoodiSelfHosted

StandNames ==
    {"pectra", "pectra-tw", "pectra-only-chain", "pectra-only-contracts", "fusaka-zk-test",
     "fusaka", "csm-v2", "srv3-cmv2-devnet", "srv3-cmv2-easytrack", "glamsterdam-kurtosis",
     "glamsterdam-full", "epbs", "glamsterdam", "hoodi-self-hosted"}
=============================================================================
