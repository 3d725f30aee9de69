# TLA+ verification of lido-local-devnet

`lido-local-devnet` is a CLI (and, with `system server`, an RPC server) that
brings up Ethereum devnets with the Lido protocol and some twenty off-chain
services in Kubernetes, rolls those services to new code, and takes it all down
again. Its core logic is not computation but *sequences of effects*: handlers
that read `state.json`, call git, docker, helm and the k8s API, and write
`state.json` back, each of which may fail, be killed, or run beside another.

This directory models that core, checks it with TLC on small instances and
proves a part of it with TLAPS.

| Module | What it is |
| --- | --- |
| `OnceInit` | abstract: an initialisation shared by concurrent callers |
| `ServiceArtifact` | detailed: `DevnetServiceArtifact`, the working copy of a service |
| `MCServiceArtifact` | its TLC instances |
| `ServiceArtifactProofs` | its theorems and their proofs |
| `ServiceCatalog` | what `up`, `build` and `down` of each of the 19 services, and of the docker registry, do, as a table |
| `DevnetServices` | the commands executing that table against state, registry and cluster |
| `MCDevnetServices` | its TLC workloads |
| `DevnetServicesProofs` | facts about its operators and steps, and its types, for any number of invocations |
| `DevnetServicesSoloProofs` | its safety properties, for commands one at a time |
| `CommandExecution` | nested commands and requests sharing the counter `depth` |
| `MCCommandExecution` | its TLC instance |
| `CommandExecutionProofs` | its theorems and their proofs |
| `StandCatalog` | what each command that a stand calls asks for, records and skips on, and the 14 stands, as data |
| `Stands` | a stand running through its commands, interrupted and continued, and the validator keys it handles |
| `StandOrder` | when a list of commands is in order, and delivers who deposits: criteria on the list alone |
| `MCStands` | its TLC scenarios |
| `MCFullDSM` | the one scenario left out there: a stand that is ready without anybody to deposit |
| `StandsProofs` | types and one operator per key, proved |
| `StandsReadyProofs` | what holds of a stand that is ready, and of one that is refused, proved |
| `StoreContents` | what the files of a network hold and what the commands make of it |
| `SerialStore` | abstract: each command takes effect on them at one moment |
| `StateStore` | detailed: the same commands, file operation by file operation |
| `MCStateStore` | its TLC instance |
| `StateStoreProofs` | its theorems and their proofs |
| `ChainClients` | auto-vote, payments and waits against the nodes of a running chain |
| `MCChainClients` | its TLC instance |
| `ChainClientsProofs` | its theorems and their proofs |

Which module uses which: `DevnetServices` and `Stands` execute the tables of
`ServiceCatalog` and `StandCatalog`, and the latter takes its services from the
former; `StandOrder` extends `Stands`; `StateStore` and `SerialStore` share `StoreContents`; an `MC` module
extends the module it instantiates, a `...Proofs` module the one it is about
(`DevnetServicesSoloProofs` by way of `DevnetServicesProofs`, `StandsReadyProofs` by way
of `StandsProofs`, and with `StandOrder`). `DevnetServices` has
the tables as constants, which the configurations take from `ServiceCatalog`.
`ServiceArtifact` implements `OnceInit`, `StateStore` implements `SerialStore`.

Run one with `tlc -config Services.cfg MCDevnetServices.tla`, the proofs of one
with `tlapm StateStoreProofs.tla` (those of `DevnetServicesSoloProofs` take about
six minutes, the others one or two).

## 1. Inventory of the system

| Component | State | Operations | Hard behaviour | What makes it correct |
| --- | --- | --- | --- | --- |
| Service working copies, `packages/services/src/devnet-service-artifact.ts` | directory `artifacts/<network>/<service>`; `ensured`, `ensurePromise`, `emittedCommands` | `ensure`, `clean`, `applyWorkspace` | concurrent callers, the install hook re-entering `ensure`, failed clones, two processes on one directory | callers share one attempt and all get its outcome; no self-wait; "ensured" means whole |
| Service registry and shell wrapper, `packages/services/src` | cache of services, cloned per command | get a service; `sh` after `ensure` | two clones make two objects for one directory | the same, per object |
| Off-chain services, `src/commands/<service>/{up,build,down}.ts` | `<service>.running`, `.image` in `state.json`; releases, namespace, pull secret in k8s; images in the registry | `up`, `build`, `build-multi`, `down` | partial installation, kill between two effects, namespaces deleted in the background, two invocations at once | the record agrees with the cluster |
| Orchestration, `src/commands/service/rebuild.ts`, `down.ts`, `down-offchain.ts` | none of its own | sequences of the above | errors caught, ignored or not; data to be kept | rebuild rolls the pods and keeps the database; down clears |
| Command execution, `packages/command/src/command.ts`, `runtime-env.ts`, `rpc.ts` | the process-wide `depth`; registries | `runCommand`, `runCommandByName`, hooks, RPC requests | one counter, many concurrent calls | errors of nested commands reach their caller |
| State store, `packages/state/src` | `state.json`, `validators.json`, `wallets.yml`, the config map with a copy of the first | `getProperties`, `updateProperties`, `updateValidatorsData`, `wallet create`, the config map's save and restore | read-modify-write with no lock, non-atomic writes | commands that do not meet on a file take effect as a whole, one after the other |
| Chain, `src/commands/chain`, `kurtosis` | `chain`, `kurtosis`, `nodes` in `state.json`; enclave, releases, secrets | up, down, validator-up, syncs | long sequences that record late | the chain recorded is the one running |
| Validator keys, `src/commands/chain/generate-validator-keys.ts`, `lido-core/keys`, `validator` | `validators.json`, k8s secret, dumps | generate, use, add, exit | several batches; a crash between secret and state | no key is deposited twice or lost |
| Docker registry, `src/commands/docker-registry` | `dockerRegistry` in `state.json`; releases; pull secrets | up, down, push-pull-secret-to-k8s | failures taken for "already exists" | who runs a private image can pull it |
| Protocol deployment, `src/commands/lido-core`, `csm`, `cmv2`, `easy-track`, `data-bus` | `lido`, `csm`, `cmv2` ... in `state.json`; contracts | deploy, activate, add-operator ... | scripts of foreign tools | prerequisites hold |
| Stands, `src/commands/stands`, `stand/run.ts` | none | fixed sequences of commands | a failure in the middle, repetition | the order meets the prerequisites; what is ready works |
| Voting, wallets, `src/commands/voting`, `wallet` | contracts, wallet file | auto-vote, the enact commands, fund, transfer | polling, retries of transactions, lost receipts | nothing is done twice; reports are true; ends |
| Waits for the nodes, `packages/command/src/network`, `packages/cl-client/src` | none | `waitEL`, `waitCL`, `waitELSync`, `waitCLSync`, `waitCLFinalizedEpoch` | nodes that are down, syncing or flapping | ends |
| Git, artifact, ssh, cli-pod, config | files, pods | checkout, pull, dump, restore ... | - | - |
| Helm charts and workspaces, `helm`, `workspaces` | - | `make install`, `upgrade`, `uninstall` | - | - |

How they interact: a command's handler receives a runtime environment (`dre`)
with the state, the services and `runCommand`. Nested commands run in the same
process, on a clone of the registry; an error unwinds through them unless a
handler catches it. Handlers share `state.json`, the directories under
`artifacts/<network>`, the registry and the cluster with every other invocation,
with no lock anywhere. A service's shell call goes through `ensure()`, which may
run a further command, the install hook, on the same service.

## 2. ServiceArtifact: the working copy

**Correspondence.** `root` is the directory (does it exist; how far the clone and
the overlay have come; has the install hook been through it). `ensured`,
`promise` and `emitted` are the fields of the object; `step` is where its
`runEnsure()` stands, one position per `await` that can be interleaved or can
fail; `call` is what each caller has. `Ensure` is `ensure()`, `Materialize` to
`FilesCopied` are `materialize()` with `gitInit()` and `copyFilesFrom()`,
`MarkEnsured`, `HookEnsures`, `HookDone` the rest of `runEnsure()`, the first
shell call of a hook included. `Settle` is its `finally`. `MkdirFails` ...
`HookFails` are what each step leaves behind when it fails: git empties but does
not remove a directory it was given, a failed copy removes nothing. `Clean` is
`clean()` by anyone, at any moment, and `Crash` the death of the process.
An object stands for one artifact object; several objects on the one directory
are two processes, or two clones of the registry that met the service separately.

**Refinement.** `OnceInit` says what a caller may rely on with no file system in
sight. `ServiceArtifact` implements it with `phase` = "done" when `ensured`,
"running" when there is a promise, "none" otherwise (`ImplementsOnceInit`).
The abstract `Complete` happens at `MarkEnsured`, *before* the hooks: a call that
arrives during the hook returns at once.

**Runs.**

* `Artifact`: two objects and three callers, two of them on one object, with three
  faults. Two callers of one object give one that starts an attempt and one that
  joins it or comes after; the third races with them on the directory from another
  process; three faults allow a failure, a removal and a second failure or crash in
  the retry. `ReturnedMeansWhole` is claimed only for an object nobody else has come
  to the directory by, because with a second one it is false: it takes the directory
  the first has just made for a finished one. What does hold then is that the tree
  becomes whole unless something fails (`EventuallyWhole`). `HookAgainOnlyForFailures`
  is about the queue of hooks: an attempt that fails after the hook was queued leaves it
  there, the next attempt queues it once more, and then the second command of the queue
  runs the hook over a tree that has been through the first. That does happen (one
  failed `mkdir` and a retry); the property bounds it by the failures and allows it
  nowhere else.

**Fairness.** Weak fairness of each object's `runEnsure()`: the event loop, git
and the file system come back with an answer. No fairness of calls or faults.

**Proofs** (`ServiceArtifactProofs`), for any objects, callers, config and bound
on faults: `Inductive` (the invariant `IInv`), `TypeCorrect`, `NobodyLeftBehind`,
`NoSelfWait`, `NoRefetch`, `Refinement`. `AwaitedPassIsRunning` is not inductive
together with `TypeOK` alone when it comes to `NoSelfWait` and `NoRefetch`: that
`HookEnsures` never takes the `selfwait` branch needs to know that whoever is in
a hook has been marked, and that `hooks` does not go below zero needs a positive
count there. `PassShape` says both, by position: an attempt still fetching is
not ensured, one in its hooks is ensured and has a hook left. `StepTypeOK` is
split into the directory and the fields of the objects, `SettleTypes` is the
lemma shared by all ways to end. The refinement maps every step to one of
`Begin`, `Join`, `Return`, `Complete`, `FollowUp`, `Fail`, `Crash` or a stutter;
`Fail` needs `~ensured` while fetching, again from `PassShape`.

`WholeWhenReturned` (`ReturnedMeansWhole`) and `HookAgainForFailures`
(`HookAgainOnlyForFailures`) relate the object to the directory, and both speak of an
object *alone* on it. `Owned` makes that usable: whoever does anything has been
called, so the other objects are at rest. `Progress` then says, position by position
of the attempt, how far the tree has come while nothing has failed, and `Queued`
that while hooks are queued (`emitted`, which is emptied before they run) the tree has
not been through one. `Counted` keeps
the books of the queue: between attempts `emitted` is no more than the failures so far,
one more on the way from `materialize()` to the hook (`OnItsWay`), and the hooks left
to run after the first are again no more than the failures; it needs that a directory
that is not there holds nothing (`Bare`), so that git does not refuse the clone and an
attempt that has just queued a hook ends early only by a failure that is counted.
`WholeWhenReturned` assumes that the
service has a repository or a workspace: one made of nothing has no directory, and
every service in packages/services/src/embedded has one of the two. Otherwise the
proofs use the named assumptions on the constants and nothing else.

## 3. DevnetServices: up, build, down, rebuild, stop

**Correspondence.** A command is a stack of frames, one per nested `runCommand`,
so that `Throw` can unwind to the handler that catches (`Catches`), as
`executeCommandWithLogging` does under the CLI. A step is what a handler does
between two awaits that matter. The 19 services' handlers follow one scheme;
`ServiceCatalog` records for each what it needs, whom it starts, its releases in
order, how each is installed (`rule`), what its build checks out, what its down
picks. `DevnetServices` executes the scheme for any such tables (`Up`, `Build`,
`Down`, `Rebuildable`, `StopLists` are constants); a loop over a list is the set of
places in it still to come to (`todo`), taken in order. The docker registry, which the others
push to and pull from, is one more row: with an external one
(`DOCKER_REGISTRY_TYPE`) it is always there, a local one while it is recorded
(`RegistryAvailable`). `state.json` is `running`, `image`,
`multi` and `deployed` (chain and protocol); the code flows from `source` (working copies) through
`pushed` (registry) to `release` (cluster), as one of a few refs. `ns` and
`secret` are the namespace and its pull secret.

| Actions | Code |
| --- | --- |
| `UpStart` ... `UpImage` | the head of an `up`: skip, prerequisites, nested ups, build, image check |
| `UpRelease`, `PushPullSecret`, `HelmInstall`, `HelmRefused`, `HelmFails` | its loop over releases; the registry's own password secret is handled like a pull secret |
| `UpRecord` | `update<Service>Running` |
| `BuildStart`, `BuildPush`, `BuildMark`, `BuildMulti` | `build`, oracle's `build-multi` |
| `DownStart` ... `DownEnd` | `down`, with `--force` and `--keepDb` |
| `RebuildCheckout` ... `RebuildEnd` | `service rebuild`, with `--skipDeploy` |
| `StopStart`, `StopNext`, `StopOffchainEnd`, `Clean`, `ChainDownStart`, `RemoveChain` | `down`, `down-offchain`, `chain down` as part of it |
| `Terminated` | k8s finishing a background deletion, whenever it likes |
| `PushPullSecretFails`, `HelmFails`, `CallFails`, `Crash` | a call fails; the process is killed |
| `Deploy` | external: the chain and the protocol are deployed again |

Three things about helm and k8s that the model takes from the commands' flags:
`helm install` needs a free name and `helm upgrade` a taken one; `make uninstall`
ignores a release that is not there (`--ignore-not-found` in every Makefile); a
release without a Deployment is not seen by `getNamespacedDeployedHelmReleases`.
A failed installation may or may not leave the release behind.

**Runs.**

* `Services`, over workloads of three commands each:
  every service but oracle, alone with what it uses, out of its up, build, down
  (forced or not), rebuild (with or without deployment), with two faults, and each
  up with prerequisites missing; a local registry beside a service whose image it
  holds, down or up at the start, with one fault; `down` in its four ways over two
  stands, and the oracles with and without CMv2, with one fault. Commands of
  different services interact only by the records they ask for, so a service and its
  dependencies is a complete instance; three commands are the shortest history in
  which one command meets what a second left of the work of a first, two faults
  allow the second to be interrupted too.
* `RebuildRef`, `PullSecret`, `Rollback`: each refutes one statement
  of the repository, see below.

Deadlock is not checked: after `MaxCommands` commands nothing has to happen.

**Properties.** `RecordedOnlyWhenDeployed` and `ForgottenOnlyWhenGone` tie the
record to the cluster in both directions, across failures, kills and namespaces
that go away late. The first excludes council, dsm-bots and oracle, whose up
swallows failed installations on purpose (`Strict`), the second the wipe of the
whole network. `StaleOnlyIfInterrupted` is the converse over time: a record that has
outlived its releases (which up takes for a running service, and down, finding no
release, does not clear) comes about only by a failure or a kill, whatever commands
are run in whatever order. `RebuiltAsAsked` follows a ref from checkout to pods;
`DbSurvivesRebuild`, `ForcedStopClears` and `EveryCommandEnds` are what the
orchestrating commands are for. `EveryCommandEnds` assumes weak fairness of the
running command: its calls return.

**Where code and text disagree.**

1. `service rebuild` of ehw and onchain-mon deploys the config branch: their
   build resets the working copy that rebuild has just checked out
   (`RebuildRef`). council and dsm-bots reset to a branch fixed in the code.
2. A pull secret that cannot be created because the namespace is terminating
   passes for one that is already there (`PullSecret`).
3. The "rollback" of council and dsm-bots can uninstall what a concurrent up has
   installed (`Rollback`).

What the model shows besides, without a run of its own: `down` ("Stop full DevNet",
docs/commands/down.md:4) leaves the services outside its list running (evm, the provers,
late-prover-bot, mev-monitoring, dashboard, grafana, logging) and deletes the state that
knows of them, as its list says. After `down` the release of a local docker registry
stays while its record is wiped, and `docker-registry up` fails (helm: the name is
taken) until `docker-registry down`.

**Abstractions.** One update of a group in `state.json` is atomic here; section 6 is
about what it is made of.
Values inside records, hostnames, ports, ingress and helm values are left out.
EVM's Alertmanager is always part of EVM (in the code it depends on a webhook
being configured). The namespace of a local registry is shared by all networks of a
cluster; the model has one network. Oracle's `releaseSuffix` and per-role tags given by hand are
left out; the per-role tags of `rebuild` are one ref.

**Proofs** (`DevnetServicesProofs`, `DevnetServicesSoloProofs`), for any tables, any
workloads, any number of commands and of failures. They assume of the tables:
`TablesAssumption`, that they are tables; and `HandlersAssumption`, what the handlers
of different services have in common: no release is twice in a plan; a down that
leaves the namespace in place uninstalls a fixed list; a service that fails loudly has
releases, always the same; oracle's down picks among all its releases, of which its
database is one, up never removes the database, and down sees the others; all that `down` takes down has a namespace of its own; and a service
whose rebuild is followed to its pods (`Rolled`) is built from its own working copy and
starts and takes down no other service. TLC evaluates both for the tables of the
code in every run.

`TypeCorrect` holds for any number of invocations. `TypeOK` has a part about control:
every frame is `WellFormed`, it stands at a position of its command and holds what the
command's loop needs there. A step of a handler replaces its frame, adds one for a
nested command, or cuts the stack (`Moves`), so that this part is proved once for
these three and each action has only to show which one it is.

The six safety properties are proved for commands that are run one at a time (`Solo`:
there is one invocation). This is not for want of a better proof: nothing in the code
keeps two invocations apart, and with two of them TLC finds a counterexample to each of
the six, some as short as a `down` that comes between another's last `helm install` and
its record. What is proved is about what one command finds of what others have left.

| Theorem | states | by the invariant |
| --- | --- | --- |
| `RecordedWhenDeployed` | `RecordedOnlyWhenDeployed` | `Installing`: the releases an up has been through are there, in an active namespace |
| `ForgottenWhenGone` | `ForgottenOnlyWhenGone` | `Removing`: the releases a down has been through are not there; at its record all are gone or going |
| `StaleIfInterrupted` | `StaleOnlyIfInterrupted` | `Fresh`: what is recorded is whole, or a down is at work on it |
| `DbSurvives` | `DbSurvivesRebuild` | `Nested`: what may run inside a rebuild of oracle is up, build and the down that keeps the database |
| `ForcedStopClearsAll` | `ForcedStopClears` | `Stopping`: what `down` has come past is gone, or is the one it is taking down |
| `RebuiltToTheRef` | `RebuiltAsAsked` | `Rolling`: how far a rebuild has come: checked out, pushed, forgotten, installed |

None of the six is inductive, because none says where a command stands. All need
`Paired` (a frame that is not the top is waiting where it has called the one above
it) and `ImagesPushed` (an image on record is in the registry, so that what an up
installs is something).
`Installing` is inductive only because the namespace of a service that comes up is not
going away behind its back: an up that finds it terminating fails, and nobody else is
there. `Removing` distinguishes downs that go through a fixed list or keep the database
(`Thorough`) from those that delete the namespace, which need not have uninstalled
anything. `Fresh` needs `Installing` at the moment the record is written and
`Removing` at the moment it is dropped. `Stopping` counts failures from the command's
own start (`mark`), so that a caught one is not mistaken for success, and needs that no
command was issued later than now (`MarksPast`). `Rolling` has a part per position of the
rebuild and of the command it has called (`BuildRolls`, `DownRolls`, `UpRolls`), needs
`Fresh` to know that the namespace of what it has just installed is not going, and takes the lemma of each of them
through the nested command to its return. `Terminated` and `Deploy` may come between any
two steps: `OthersKeep...` are the lemmas for these.

## 4. CommandExecution: nested commands and the RPC server

**Correspondence.** A process runs one command line (`mode` = "cli") or serves
any number of requests ("rpc"). An entry has a stack of frames `<<entry, i>>`: a
frame is one invocation of a handler, "enter" while `getNotificationEvent` is
awaited, in its "body", or "ending" while its notification is sent. `root` is
its `isRoot`, `failed` says that its `lastError` is set, `told` what its handler
got from the last nested command. The server calls the handler of a request
itself, so the first frame of a request is not `Wrapped`: it neither raises
`depth` nor ends through the `finally` block. `system server` overrides `run()`
and is not wrapped either; a server therefore starts at depth 0. An await is the
only place where another request can come in, so a step runs from one await to
the next.

| Actions | Code |
| --- | --- |
| `Start` | `DevNetCommand.run`, a POST to `/rpc/...` |
| `Call`, `Catch` | `runCommand`, `runCommandByName`, hooks; a handler's `.catch` |
| `Begin` | the notification event is known, `depth += 1` |
| `Finish`, `Throw` | the handler returns or throws: the catch block, or the reply |
| `End` | the rest of `finally`: `depth -= 1`, and the outcome |

All requests share one `dre`, hence one registry and one artifact object per
service (a nested command clones it, and the services it has met are kept): these
are the callers of `ServiceArtifact`.

**Runs.** `Execution`: three requests (or one command line), four frames deep,
six nested commands in all. The counter matters at 0, at 1 and above, for a
frame and its caller and for another request beside them; three requests with
two frames each give every such combination, four levels let a wrapped command
have a wrapped caller and one above it. The requests are symmetric. `RpcReply`:
one nested command suffices.

**Properties.** `DepthCountsFrames` says the counter never drifts.
`OnlyTheOutermostIsRoot` and `OutcomesReachTheirCaller` hold for commands called
by a *wrapped* command, whatever the other requests do. For a command called by
the handler of a request they do not: its error is dropped when no other request
keeps `depth` up, and the server then answers "Command executed successfully"
(`SuccessMeansSuccess`, refuted by `RpcReply`, the fourth disagreement between
code and text). In `DevnetServices` errors unwind as under the CLI.
No liveness is stated: a command ends when its handler does, which is
`EveryCommandEnds`.

**Proofs** (`CommandExecutionProofs`), for any finite set of requests and any
bounds: `Inductive`, `TypeCorrect`, `DepthIsExact`, `OneRoot`,
`OutcomesAreHandedOn`. Not even `depth \in Nat` is inductive by itself: `End`
lowers the counter, and only `DepthCountsFrames` shows that there was something
to lower. That in turn needs `Stacked`: every frame under the top of its entry
is in its body, nothing is above the top, and a frame that is not wrapped is
never entering or ending. With it, `Begin` adds exactly the top frame to
`Counted` and `End` takes exactly it away, and the cardinalities of the library
do the rest. A caller in its body is counted, so the counter is not 0 for the
commands it calls (`HandlerRaisesDepth`); that is both `OneRoot` and
`OutcomesAreHandedOn`.

## 5. Stands: bringing up a network

**Correspondence.** A stand is a list of commands that its handler (or `stand
run`, from a YAML file) calls in order. `StandCatalog` writes each command as a
sequence of moves, one per await that can fail or be the last thing done: what it
*needs* (a getter of the state that throws, an assertion, a file, what a foreign
script relies on), what it *gives* and *takes*, whether it is a call *outside* and
whether its failure is only logged (*quiet*). `Unless` is a part that is skipped
when something is recorded already. The 14 stands are the sequences of
`stands/*.ts`, with the flags that change what is called; services come from
`ServiceCatalog`. `Stands` executes any such list (`Plans` is a constant):

| Actions | Code |
| --- | --- |
| `Begin`, `Ready` | `dre.runCommand` of the next command; the end of the handler |
| `Step`, `Skip` | a move of the handler; an early return or a part left out |
| `Refuse`, `RefuseQuietly` | something is missing: the command throws, or warns |
| `Interrupt`, `FailAfterEffect`, `FailQuietly` | the process dies or a call fails, before its effect or after; a failure passed over |
| `Resume` | the failed command is run again, then the rest, as docs/developer/devnet-management.md:85 advises |

Keys are followed by batch: `batches` is validators.json (`depositData` with its
`used`), `files` the `generated-keys/<name>.json` of lido-cli, `submitted` what the
contracts got, `vc` what the validator client got.

**Runs.**

* `Stands`: 72 scenarios. Every stand without flags, with the DSM and with the
  other flags, on what it needs and on less, epbs with and without `--skipChain` also
  on a chain that has its validator client already, with one fault at any move; a few
  with two, so that the repetition is interrupted as well. A command is repeated
  from its beginning, so what a fault leaves is seen by the one repetition, and a
  second fault by the next.
* `OperatorExists`: the failed `add-new-operator` run again.
* `FullDSM`: glamsterdam-full with `--dsm`, which `Stands` leaves out.

**Properties.** `OrderIsRight`: no stand stops for something one of its own
commands makes, or that it found at the start, taken away since or not. One exception
is part of the statement, because the code has it (`Overwritten`): `chain
self-hosted-up` writes the chain record anew (chain/self-hosted-up.ts:267), so that epbs
without `--skipChain` loses the validator client's endpoint it has found and stops at
`validator add`. TLC does come upon it; anything else that a stand took away from itself
would be reported. `OnlyHalfDoneIsLost` names all that an interruption
can put out of reach: lido-cli's configuration (written after the record that makes
deploy a no-op) and the operator of add-new-operator. The stand can be saved there
by `lido-core update-state` and `lido-core add-operator` by hand. A swallowed
failure is excluded: what was to be made was never made. `OneOperatorPerKey`,
`ReadyMeansValidating` and `DepositsAreServed` follow the keys from generation to
validation. What `DepositsAreServed` asks for is somebody who deposits: council and
bots, which serve every module, or the account that took the DSM's place and has made a
deposit. That is one deposit, to the curated module or CSM; the stands with three
modules leave the deposits of the others to whoever runs the stand, and do not claim
otherwise. A submission whose answer is lost is excluded from the first: repeated,
it makes a second operator with the same keys ("TODO check if operator already
exists", src/src/commands/csm/add-operator.ts). No liveness is stated: a stand that is not
interrupted has nothing to wait for but its calls.

**Where code and text disagree.** `add-new-operator` takes the keys file that it
has itself written for the operator's existence (`OperatorExists`, the fifth
disagreement). glamsterdam-full takes `--dsm` ("Use full DSM setup (Council +
DSM-bots)", stands/glamsterdam-full.ts:35), leaves out the replacement of the DSM and
its deposit, and starts neither council nor bots: it is ready with keys that nobody
deposits for (`FullDSM`, the sixth). What the model shows besides, without a run of its
own:

* epbs gets past `validator add` only on a chain whose validator client was brought
  up before and with `--skipChain`: its own self-hosted chain has none, and
  self-hosted-up erases the endpoint of an earlier one (the exception in
  `OrderIsRight`). docs/commands/epbs-devnet.md:8-9 calls `stands epbs` without the flag
  the "full deployment including nodes".
* pectra-tw's DeployTW starts lido-cli's extra configuration afresh and drops the
  CSM addresses that were in it.
* srv3-cmv2-devnet's oracles are commented out, the developer guide lists them.

**Abstractions.** What a foreign script does on chain is one fact ("lidoContracts",
"gateTree"). GitCheckout is a call that changes no fact: `git clean` in lido-cli's
working copy, where its configuration lies, is not modelled. `validator add` with
an answer without `data` is one of its swallowed failures; a partial import is too.
One command runs at a time.

**Bounds.** `faults` of a scenario; nothing else is bounded, the lists are finite.

**Proofs** (`StandsProofs`, `StandsReadyProofs`), for any lists of commands and scenarios that keep to
`PlansAssumption`, and any number of faults: `Inductive`, `TypeCorrect`, `OneOwner`
(`OneOperatorPerKey`). The assumption says what every command of the catalogue that
hands out keys does, and TLC evaluates it for the 14 stands: it writes the file and
marks the keys in the next move, with nothing in between that gives up or jumps
(`UsesKeysInOrder`, lido-core/keys/use.ts:46-49), and operators are created by the
last move of one command per name (`OperatorPerName`).

The property says nothing of files and marks, so the invariant adds five things.
`InPlace`: what is left of a command is the end of its list, which ties the moves
still to come to the assumption. `InFiles`: a key is in one file, and a key that is
in a file and not marked is there because of a write whose mark is the next move of
the running command, or the failed one, which writes and marks the same file anew
when it is run again. `Handed`: submitted keys are marked, and each submission is
*accounted* for: its answer was lost, or it went to an existing operator of that
name, or its operator was created by a command that has ended and will not run
again. `EffectKeeps` has one case per kind of move; `Growing` says that files and
submissions only grow otherwise.

`StandsReadyProofs` proves what holds of a stand that is ready: `ReadyValidates`
(`ReadyMeansValidating`) and `DepositsServed` (`DepositsAreServed`). They use one more
part of the assumption and a further one, which TLC evaluates for the 14 stands. `KeysReachTheClient`:
keys generated for Lido are written to a file later in the plan, a file is written once
and handed out later, an import comes after that; only an import may be passed over.
`DepositAssumption` (in `StandOrder`): a plan that submits keys *delivers* the
depositing account and its deposit, or council and bots (`SomebodyDeposits`, with no
exception: glamsterdam-full with `--dsm` does not satisfy it); a plan delivers a fact when one of its moves gives it,
that move is not quiet and skipped only by a part that finds the fact there, and none
takes it (`Delivers`). That a list has these things is not enough: commands are cut
short, run again from their start, and leave parts out. So the invariant says of
everything that is not yet where it belongs that a move which takes it there is still
*to come* (`ToCome`, `Ahead`), where a failed command counts from its start. Submitted
keys are imported or an import is to come (`AwaitsImport`). Without a fault each batch
is submitted; or in a file that is to be handed out and not to be written over; or
unused, with a `keys use` to come that is not the one which has just written its file
(`AllOnTheirWay`). A fact that is delivered is there or its move is ahead (`Arrives`).
The steps come down to how each moves the place in the plan (`Moving`), from which
`StillAhead`, `StillComing` and `NothingNew` follow. When the stand is ready nothing is
to come (`NothingToCome`). `DeliveredWhenReady` is the general statement for any fact.

The same module proves what holds of a stand that is *refused*: `OrderRight`
(`OrderIsRight`) and `HalfDoneLost` (`OnlyHalfDoneIsLost`). Whether the moves of a list
come in the right order is a matter of the list, and faults, skips and second runs are
a matter of its execution; the two are kept apart. `InOrder` (`StandOrder`) is a
criterion on the list alone: everything a move asks for is either nothing of the stand's
own; or *sure* (`Sure`): found at the start, or made by an earlier move, with nothing
that takes it again later, and left out only by a part whose skip implies that it is
there, because it is the record or is tied to it (`Tied`: whoever writes "lido" has found
or made the contracts before); or one of the four half-done facts, and sure where
nothing is interrupted (`SureAtOnce`); or the one fact a stand has found and writes over
(`Overwritten`), asked for by a move that throws when it is not there. A `keys use` has keys generated for it
(`HasKeys`), a submission its file (`HasFile`). `OrderAssumption` says so of every
scenario; TLC evaluates it for the 72 scenarios of `Stands` on that run, so that a list
out of order stops the run there, and the theorems hold for any list that is in order
and any number of faults. The third case is open to the four half-done facts only,
which an interruption can put out of reach; for anything else it takes `Sure`.

The invariant (`Ordered`) says of every place that is behind what it has left: the facts
it makes for good (`MadeLasts`), what goes with a record (`RecordsLast`), what was found
at the start (`FoundLasts`), its file (`FilesLast`), unused keys for a `keys use` still
ahead (`KeysLast`); the first two until a failure is passed over. Where nothing is
interrupted, besides: no failure is passed over (`Undisturbed`, which needs the order
itself: a quiet move finds everything), facts stay until a place that takes them is
behind (`MadeAtOnce`), and no fact and no file is there before the place that makes it
(`NothingEarly`), so that nothing is skipped which is not there. `NowPast` is the step
all these come down to: a place comes to be behind when its move is made, passed over
quietly, or skipped. `KeysLast` is why a second run does no harm: a command that gives
keys away ends with the mark, or has generated them itself. `AllFound` draws the
conclusion for the move whose turn it is.

## 6. StateStore: state.json, validators.json, wallets.yml

**Correspondence.** An invocation is one command that writes one of these files:
`update` of a group (any `update<Service>...`), `generate` (`validator keys
generate`), `use` (`lido-core keys use`), `chainKeys` (`chain
generate-validator-keys`), `create` (`wallet create`), `save` and `restore` (the two
config map syncs). `pc` is the next step, from one await to the next:

| Step | Code |
| --- | --- |
| `Look` | `getDepositData()` at the start: how many keys there are, which are unused |
| `Hand` | `keys use` writes the operator's file |
| `Upload` | the k8s secret is replaced, before the state is written |
| `Read`, `Reread` | `JsonDb.read()`, by the command and once more by `update()` |
| `Check` | `readWalletFile()`, for which a broken file is no file |
| `Rename` | `restore` moves `state.json` away |
| `Open`, `Write` | `writeFile()` empties the file, and then writes it |
| `Push` | `save` replaces the config map |
| `Kill` | the process is killed, or a call throws |

`form` is what a reader would find in a file, `data` what it holds. `base` and
`looked` are what an invocation has in memory. A file is *disturbed* when somebody
opens it who has read what has changed since (`stale`), or while another is writing,
or when somebody dies between opening and writing it. These are the accidents the
code does not guard against: there is no lock and no rename of a finished file. They
are what the properties exclude, and nothing else is: readers that meet a half-written
file and give up, kills before the file is opened, and any interleaving of commands on
different files or of the reads of one with the end of another are included.

**Refinement.** `SerialStore` is what a reader of the commands expects: each takes
effect as a whole, at one moment, on what is there. `SerialUnlessDisturbed` says that
every step of `StateStore` up to the first accident is a step of it, or none; the
moment is the `Write` (or `Push`).

**Run.** `StateStore`: four invocations, alike (`Symmetry`), two groups, one kill.
Three do any jobs on the state, or on the keys, or on the wallets, and the fourth makes
a wallet, which shares no file with the first two kinds; or all four make and hand out keys, with one
mnemonic given twice. Two invocations can overtake each other, the third comes upon what
they have left, and two generations of the same keys with a `keys use` after each take
four; a second kill finds nothing the first has not. The run ends when all have (`AllEnded`), so deadlock is
checked: a command always gets to an end by itself.

**Properties.** Besides the refinement: `AtRestWhole`, no file is left that every
later command stops at; `EachKeyOnce`, the index of the first new key, read at the
start, is still right at the end, and deposit data and keystores stay in step;
`KeysGoToOneOperator`: what is handed out is marked. Both are about keys that are
derived once. `chain generate-validator-keys` takes a `--mnemonic` and begins at index 0
unless told otherwise (chain/generate-validator-keys.ts:15-19, `Mnemonic`), so two
commands can be *told* to derive the same keys, by the same phrase, or by the one built into
`validator keys generate`; nothing looks whether they are there, so they are recorded
twice, and with a `keys use` after each they go to two operators, with nothing
disturbed. TLC comes upon both, and no text promises otherwise. `AskedTwice` is exactly
that case, said of the commands' arguments and not of what they did; for all other keys
the properties hold. `ServedKeysAreRecorded`, what the cluster validates with is
known. All under `~disturbed`; the counterexamples without it are the hazards of
packages/state/src/json-db/index.ts:41 and :47. No liveness: nothing is waited for.

What the model shows besides: a second `chain generate-validator-keys` replaces the
secret with its own keystores only, so the validator client loses the first batch
(chain/generate-validator-keys.ts:169); `save` copies a file another command is
writing, as it is, and says it was saved.

**Proofs** (`StateStoreProofs`), for any invocations, groups, jobs and kills:
`TypeCorrect`, `FilesWhole`, `Serializable`, `KeysOnce`, `OneOwner`,
`ServedRecorded`. The heart is `Accounts`, about the time before the first accident:
a file has one writer (`OneWriter`); a file that is not whole is in the hands of one
(`FormsAccounted`); a writer has not been overtaken (`WritersAccounted`); and whoever
is not stale has in memory what the file holds, unless its writer is at work, who
will make it stale (`Grounded`). `Grounded` alone is not inductive: that the writer's
`Write` makes all other readers stale needs `OneWriter`, and that an `Open` by one
who is not stale finds no other writer needs the definition of an accident. From
`Accounts`, a `Write` puts down `Result` of the content of that moment, which is the
`Effect` of `SerialStore` (`WriteIsSerial`). The three properties about keys are then
proved of `SerialStore`'s effects (`KeysInv`: distinct, in step, those given away
marked, each but for those that `DerivedTwice` says two commands have derived, whose
`Derivers` only grow in number) and carried over, which is shorter than proving them of the steps; `UseInHand`
says that what `keys use` put into its file is what it then marks.

## 7. ChainClients: voting, payments and waits

**Correspondence.** A client is an invocation of auto-vote, of an enact command
(which prepares, runs the script that starts a vote, and ends in auto-vote), of
`wallet fund` or `transfer`, or one of the five waits. What all do is ask a node until
it says what they want; some send a transaction, which is *pending* until the chain
mines it, in the order of its sender, as "ok" or "reverted". Between sending and
receipt the connection may break: the client thinks that it failed, the transaction
lives on (`lost`).

| Actions | Code |
| --- | --- |
| `Prepare`, `RunScript` | the head of `voting enact-*` |
| `RoundBegins`, `AskVote`, `AskExecute`, `RoundEnds` | `processVotes()` and the loop around it |
| `BeginPaying`, `PayNext`, `AllPaid` | `wallet fund`, which asks the node for balances first, `wallet transfer`, which does not |
| `AskBlock`, `CheckDeadline`, `Answered`, `TimePasses` | `waitEL`; the four other waits |
| `Send`, `Receipt` | `sendTransaction()`, `tx.wait()` |
| `Success`, `Failure` | what each command makes of it: `sendFundingTransaction()` tries three times, `waitEL` for ever, auto-vote goes on to the next vote |
| `Refused`, `ReceiptLost`, `Unreachable`, `Stop` | the faults |
| `Mine`, `VoteStarts`, `Supports`, `Executes`, `Closes`, `Ages` | external: the chain, the contract, other voters |
| `Outage`, `Progress`, `Grows` | external: the nodes |

**Run.** `ChainClients`: one client of each kind, two votes. Clients share nothing
but the chain, and whatever another client could do to it (start, support, execute)
others may do at any time, so one client is a complete instance; two votes allow the
ballot to be cast in one and the execution in the other. Up to three faults for
payers and waits, enough to use up the retries of a payment by lost receipts, one for
voters (`Scope`). Deadlock is not checked: a wait may wait for a node that never comes.

**Fairness.** Weak fairness of each client's steps (the event loop, a node that is up
answers), of mining, of the closing of votes (they have a duration), of the passing of
a deadline. None of faults, of nodes coming back, of other voters. A call of a node
that is down may fail or wait (`Unreachable` is not fair).

**Properties.** `AgainOnlyIfLost`: nothing is sent twice for one purpose, unless the
first came to nothing or its answer was lost. `ReportsAreTrue`. `VotersEnd` says what
auto-vote needs to end: a vote that stays open until it has cast its ballot, stays
within the last 1000 blocks and is executed by nobody else, no lost receipt, and nodes
that stay. Each condition is needed: the loop knows only what this process has done
itself (voting/auto-vote.ts:88), so that it polls for ever when somebody else executes
the vote, when the vote closes before its ballot or ages out, or when the receipt of
its ballot is lost. `OthersEnd`: the beacon node's sync wait ends by its deadline at
the latest, the execution node's and payments unless the node stays away, waits
without a deadline when what they wait for comes.

What the model shows besides: auto-vote may end having voted in one vote and executed
another; `wallet fund` ends well even if no transfer came about (its report says so).

**Proofs** (`ChainClientsProofs`), for any clients, jobs, addresses, votes and faults:
`TypeCorrect`, `NothingTwice`, `TruthfulReports`. What is sent next is decided by the
client's flags and lists, what was sent is in `txs`; the invariant ties the two.
`StillWants`: of what a client still wants, no transaction of its stands (is neither
reverted nor lost), but the one it awaits. That needs to know which call belongs to
which position (`OnItsWay`, `Calling`), that the awaited transaction is the last and
the only one pending (`Awaiting`), and that its list names everybody once, and nobody
reported on (`OnItsList`). With it, `Send` keeps `Again`, and `Receipt` and `Failure`
keep `Reported`. `HasEnacted` is for the execution: the contract refuses a second.

## 8. What is proved, what is checked, what is left

| | Proved for every instance | Only model-checked |
| --- | --- | --- |
| `ServiceArtifact` | types, `AwaitedPassIsRunning`, `HookNeverAwaitsItself`, `EnsuredNeverRefetches`, `HookAgainOnlyForFailures`, `ReturnedMeansWhole` (a service with a repository or a workspace), refinement of `OnceInit` | `EveryPassSettles`, `EventuallyWhole` |
| `DevnetServices` | types; one command at a time: `RecordedOnlyWhenDeployed`, `ForgottenOnlyWhenGone`, `StaleOnlyIfInterrupted`, `DbSurvivesRebuild`, `ForcedStopClears`, `RebuiltAsAsked` | `EveryCommandEnds` |
| `CommandExecution` | types, `DepthCountsFrames`, `OnlyTheOutermostIsRoot`, `OutcomesReachTheirCaller` | - |
| `Stands` | types, `OneOperatorPerKey`, `ReadyMeansValidating`, `DepositsAreServed`, `OrderIsRight`, `OnlyHalfDoneIsLost` | - |
| `StateStore` | types, `AtRestWhole`, `EachKeyOnce`, `KeysGoToOneOperator`, `ServedKeysAreRecorded`, refinement of `SerialStore` | - |
| `ChainClients` | types, `AgainOnlyIfLost`, `ReportsAreTrue` | `VotersEnd`, `OthersEnd` |

Every safety property that a run checks is proved, those of `DevnetServices` as far as
the table says; liveness under fairness is beyond the
prover and stays with TLC. That the 14 lists of the catalogue satisfy `PlansAssumption`,
`OrderAssumption` and `DepositAssumption` is TLC's to say too: it evaluates them, for each scenario, on the
run `Stands`. The refuted statements (six runs that expect a violation) are TLC's.

What is recursive is out of the prover's reach as well; there is none in the modules
that are proved about. What a further step could take on: the composition with
`ServiceArtifact` for `kubo build`, which reads oracle's working copy by its path,
without `ensure()`.

**Not modelled**, and why:

* What foreign scripts, contracts, images and charts do: only which fact a call makes
  true, and that it may fail before or after that.
* `down --silent`: that it is described as "Do not stop on errors" and does the
  opposite is in the model; how the difference is worded is not a property.
* `git checkout` for a service without a repository, whose working copy lies in the
  devnet's own repository; `git clean` in lido-cli's working copy.
* The place of the files: `validators.json` lies in kurtosis' working copy
  (packages/state/src/base-state.ts:24), so that `clean()` of the service takes it
  away, and writing it makes a directory which `materialize()` takes for a finished one.
  `StateStore` has files and `ServiceArtifact` directories, and no paths.
* The config map of the wallets, which is saved and restored much like that of the
  state (without the backup); `prepare-pectra`; `validator list`, `remove`,
  `remove-batch`, `voluntary-exit`, `restart`: calls that write no state.
* `chain external-up` and `fork`, Kurtosis' own down, cli-pod, assertoor, dora's down: commands
  no stand calls, at most a record written after one call.
* `sendTransactionWithRetry` in packages/command/src/network/utils.ts: nobody calls it.
* Dump and restore, ssh tunnel, logging, notifications, UI: input and output.
* Several networks in one cluster, which share the namespace of a local docker registry.
