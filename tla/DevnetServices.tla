--------------------------- MODULE DevnetServices ---------------------------
(***************************************************************************)
(* The life cycle of the off-chain services: the commands that build,      *)
(* deploy, remove and rebuild them, run by one or several invocations of   *)
(* the CLI (or requests of its RPC server) against the shared state file,  *)
(* the docker registry and the k8s cluster.                                *)
(*                                                                         *)
(* A command is a stack of frames, one per nested runCommand().  A step is *)
(* what a handler does between two awaits that matter: it reads the state, *)
(* or makes one call to git, the registry, helm or k8s.                    *)
(***************************************************************************)
EXTENDS Naturals, Sequences, FiniteSets

CONSTANTS Up, Build, Down,   \* what these commands do for each service: see ServiceCatalog
          Rebuildable,       \* the services that `service rebuild` can roll to a git ref
          StopLists          \* what `down` and `down-offchain` take down, in order

CONSTANTS Invocations,   \* processes (or requests) that run commands
          Workloads,     \* what may be asked of them, from which start, with which docker
                         \* registry ("local", to be brought up, or "external"), and how
                         \* many failed steps and killed processes they are to meet
          MaxCommands    \* bound on the commands issued

VARIABLES running,    \* state.json: the service's `running` record is there
          image,      \* state.json: its `image` record is there
          multi,      \* state.json: the ref in oracle's buildMultiImage
          deployed,   \* state.json: chain, lido, csm, cmv2, dataBus
          source,     \* the ref checked out in the service's working copy
          pushed,     \* the code in the registry under the network's tag
          release,    \* the code each helm release runs, or "none"
          ns,         \* the service's k8s namespace
          secret,     \* the registry pull secret is in the namespace
          stack,      \* the frames of each invocation, innermost last
          outcome,    \* how its last command ended
          workload,   \* the workload chosen
          commands, faults,
          mark        \* the value of faults when the command was issued

state == <<running, image, multi, deployed>>
code == <<source, pushed>>
cluster == <<release, ns, secret>>
control == <<stack, outcome>>
history == <<workload, commands, faults, mark>>
vars == <<state, code, cluster, control, history>>

Asked == "asked"                     \* the ref given to `service rebuild`
Contents == {Asked, "config", "hardcoded", "published"}

Services == DOMAIN Up
Slots(s) == DOMAIN Up[s].plan        \* the places of its releases in the plan of up
ReleasesOf == [s \in Services |-> {Up[s].plan[i] : i \in Slots(s)}]
NamesOf == [s \in Services |-> {r.name : r \in ReleasesOf[s]}]
NoReleases(s) == [n \in NamesOf[s] |-> "none"]
Components == {"chain", "lido", "csm", "cmv2", "dataBus"}
Performance == "oracle-performance-db"

\* Services whose up throws when a release cannot be installed.
Strict == {s \in Services : \A r \in ReleasesOf[s] : r.rule \notin {"missing", "refresh"}}

\* Those that `service rebuild` builds from the very ref it has checked out.
Rolled == {s \in Rebuildable \cap Strict : Build[s].checkout = "kept"}

Releases ==
    [name : STRING, rule : {"install", "ensure", "within", "missing", "refresh", "kubo", "prover"},
     listed : BOOLEAN, image : BOOLEAN, when : SUBSET Components]

(***************************************************************************)
(* The tables: what kind of values they hold; ...                          *)
(***************************************************************************)
ASSUME TablesAssumption ==
    /\ {"oracle", "dockerRegistry", "blockscout"} \subseteq Services
    /\ "chain" \notin Services /\ "none" \notin Services
    /\ DOMAIN Down = Services /\ DOMAIN Build \subseteq Services \ {"dockerRegistry"}
    /\ Rebuildable \subseteq DOMAIN Build
    /\ \A s \in Services :
          /\ Up[s].plan \in Seq(Releases)
          /\ Up[s].starts \subseteq Services
          /\ Up[s].builds => s \in DOMAIN Build
          /\ Down[s].then \subseteq Services
    /\ \A s \in DOMAIN Build : /\ Build[s].checkout \in {"kept", "config", "hardcoded"}
                               /\ Build[s].from \in Services
                               /\ Build[s].images \subseteq Services
    /\ StopLists \in [{"stop", "stopOffchain"} -> Seq(Services \cup {"chain"})]

(***************************************************************************)
(* ... and what the commands of different services have in common.  A down *)
(* that leaves the namespace in place uninstalls a fixed list of releases; *)
(* a service that fails loudly has releases, always the same ones; only    *)
(* oracle has a database to keep, which its down can see and its up never  *)
(* takes away; all that `down` takes down has a namespace of its own.      *)
(***************************************************************************)
ASSUME HandlersAssumption ==
    /\ \A s \in Services :
          /\ \A i, j \in Slots(s) : Up[s].plan[i].name = Up[s].plan[j].name => i = j
          /\ ~Down[s].namespace => Down[s].picks = "fixed" /\ ~Down[s].tolerant
    /\ \A s \in Strict : /\ Slots(s) # {}
                         /\ \A r \in ReleasesOf[s] : r.when = {}
    /\ Down["oracle"].picks = "all" /\ ~Down["oracle"].tolerant
    /\ Performance \in NamesOf["oracle"]
    /\ \A r \in ReleasesOf["oracle"] :
          IF r.name = Performance THEN r.rule \notin {"missing", "refresh"} ELSE r.listed
    /\ \A i \in DOMAIN StopLists["stop"] :
          LET s == StopLists["stop"][i] IN s # "chain" => Down[s].namespace
    /\ "oracle" \notin Strict
    /\ \A s \in Rolled :
          /\ Build[s].from = s /\ s \in Build[s].images /\ Up[s].builds
          /\ Up[s].starts = {} /\ Down[s].then = {}
          /\ \E r \in ReleasesOf[s] : r.listed

-----------------------------------------------------------------------------
(***************************************************************************)
(* Commands.  at is where the handler is; todo the places in the plan, or  *)
(* in the list of services, that its loop has not come to; was what it     *)
(* last read about the release it is working on.                           *)
(***************************************************************************)
Command(cmd, s, opts, ref) ==
    [cmd |-> cmd, svc |-> s, opts |-> opts, ref |-> ref,
     at |-> "start", todo |-> {}, was |-> FALSE]

UpCommand(s) == Command("up", s, {}, "none")
BuildCommand(s) == Command("build", s, {}, "none")
DownCommand(s, opts) == Command("down", s, opts, "none")
RebuildCommand(s) == Command("rebuild", s, {}, Asked)
StopCommand(opts) == Command("stop", "devnet", opts, "none")
StopOffchainCommand(opts) == Command("stopOffchain", "devnet", opts, "none")

\* What the options of a command may be.
Requested(c) ==
    \E s \in Services, opts \in SUBSET {"force", "build", "keepDb", "skipDeploy", "silent"} :
       \/ /\ c = Command("up", s, opts, "none") /\ opts \subseteq {"force", "build"}
          /\ "build" \in opts => s \in DOMAIN Build
       \/ c = BuildCommand(s) /\ s \in DOMAIN Build
       \/ /\ c = DownCommand(s, opts) /\ opts \subseteq {"force", "keepDb"}
          /\ "keepDb" \in opts => s = "oracle"
       \/ /\ c = Command("rebuild", s, opts, Asked) /\ opts \subseteq {"skipDeploy"}
          /\ s \in Rebuildable
       \/ /\ c \in {StopCommand(opts), StopOffchainCommand(opts)} /\ opts \subseteq {"force", "silent"}

ASSUME WorkloadsAssumption ==
    /\ MaxCommands \in Nat
    /\ \A w \in Workloads : /\ \A c \in w.commands : Requested(c)
                            /\ w.up \subseteq Services
                            /\ w.deployed \subseteq Components
                            /\ w.faults \in Nat

Top(p) == stack[p][Len(stack[p])]
Busy(p) == stack[p] # <<>>
In(p, cmd, at) == Busy(p) /\ Top(p).cmd = cmd /\ Top(p).at = at

With(p, frame) == [stack[p] EXCEPT ![Len(stack[p])] = frame]
Become(p, frame) == /\ stack' = [stack EXCEPT ![p] = With(p, frame)]
                    /\ UNCHANGED outcome
GoTo(p, at) == Become(p, [Top(p) EXCEPT !.at = at])

\* dre.runCommand(): the frame goes on at `at` when the nested command returns.
Call(p, frame, command) == /\ stack' = [stack EXCEPT ![p] = Append(With(p, frame), command)]
                           /\ UNCHANGED outcome

Return(p) == /\ stack' = [stack EXCEPT ![p] = SubSeq(@, 1, Len(@) - 1)]
             /\ outcome' = [outcome EXCEPT ![p] = IF Len(stack[p]) = 1 THEN "done" ELSE @]

\* Where the loop of a handler is, and what it has left after that.
First(S) == CHOOSE i \in S : \A j \in S : i <= j
Last(S) == CHOOSE i \in S : \A j \in S : j <= i
Place(frame) == IF frame.cmd = "down" /\ Down[frame.svc].reversed
                THEN Last(frame.todo) ELSE First(frame.todo)
Rest(p) == [Top(p) EXCEPT !.todo = @ \ {Place(Top(p))}]

(***************************************************************************)
(* An error unwinds to the first handler that catches it: the one around   *)
(* the down of a rebuild, or around each down of `down`, which `--silent`  *)
(* takes away.                                                             *)
(***************************************************************************)
Catches(frame) ==
    \/ frame.cmd = "rebuild" /\ frame.at = "up"
    \/ frame.cmd \in {"stop", "stopOffchain"} /\ frame.at = "next" /\ "silent" \notin frame.opts

Throw(p) ==
    \E n \in 0 .. Len(stack[p]) - 1 :
       /\ n > 0 => Catches(stack[p][n])
       /\ \A i \in n + 1 .. Len(stack[p]) - 1 : ~Catches(stack[p][i])
       /\ stack' = [stack EXCEPT ![p] = SubSeq(@, 1, n)]
       /\ outcome' = [outcome EXCEPT ![p] = IF n = 0 THEN "failed" ELSE @]

-----------------------------------------------------------------------------
Init ==
    /\ workload \in Workloads
    /\ deployed = workload.deployed
    /\ running = [s \in Services |-> s \in workload.up]
    /\ image = [s \in Services |-> s \in workload.up /\ Up[s].builds]
    /\ multi = "none"
    /\ source = [s \in Services |-> "config"]
    /\ pushed = [s \in Services |-> IF s \in workload.up /\ Up[s].builds
                                    THEN "config" ELSE "none"]
    /\ release = [s \in Services |->
                    [n \in NamesOf[s] |-> IF s \in workload.up THEN "config" ELSE "none"]]
    /\ ns = [s \in Services |-> IF s \in workload.up THEN "active" ELSE "absent"]
    /\ secret = [s \in Services |-> s \in workload.up]
    /\ stack = [p \in Invocations |-> <<>>]
    /\ outcome = [p \in Invocations |-> "none"]
    /\ commands = 0 /\ faults = 0
    /\ mark = [p \in Invocations |-> 0]

Issue(p) ==
    /\ ~Busy(p)
    /\ commands < MaxCommands
    /\ \E c \in workload.commands : stack' = [stack EXCEPT ![p] = <<c>>]
    /\ outcome' = [outcome EXCEPT ![p] = "none"]
    /\ commands' = commands + 1
    /\ mark' = [mark EXCEPT ![p] = faults]
    /\ UNCHANGED <<state, code, cluster, workload, faults>>

-----------------------------------------------------------------------------
(***************************************************************************)
(* up                                                                      *)
(***************************************************************************)
\* isDockerRegistryAvailable(): an external one is known from the environment.
RegistryAvailable == workload.registry = "external" \/ running["dockerRegistry"]

AlreadyUp(frame) ==
    /\ Up[frame.svc].skip /\ "force" \notin frame.opts
    /\ IF frame.svc = "dockerRegistry" THEN RegistryAvailable ELSE running[frame.svc]

Satisfied(s) == /\ Up[s].needs \subseteq deployed
                /\ \A d \in Up[s].uses : running[d]

Selected(s) == {i \in Slots(s) : Up[s].plan[i].when \subseteq deployed}

UpStart(p) ==
    LET s == Top(p).svc IN
    /\ In(p, "up", "start")
    /\ \/ /\ AlreadyUp(Top(p))
          /\ Return(p)
       \/ /\ ~AlreadyUp(Top(p))
          /\ IF Satisfied(s)
               THEN Become(p, [Top(p) EXCEPT !.at = "starts", !.was = running[s]])
               ELSE Throw(p)
    /\ UNCHANGED <<state, code, cluster, history>>

UpStarts(p) ==
    LET s == Top(p).svc
        first == [Top(p) EXCEPT !.at = "started"]
    IN
    /\ In(p, "up", "starts")
    /\ \/ \E d \in Up[s].starts : /\ Up[s].restarts \/ ~running[d]
                                  /\ Call(p, first, UpCommand(d))
       \/ /\ \A d \in Up[s].starts : ~Up[s].restarts /\ running[d]
          /\ Become(p, first)
    /\ UNCHANGED <<state, code, cluster, history>>

(***************************************************************************)
(* createNamespaceIfNotExists() swallows every error, the refusal to       *)
(* create a namespace that is still terminating included.                  *)
(***************************************************************************)
Created(s) == IF ns[s] = "absent" THEN [ns EXCEPT ![s] = "active"] ELSE ns

Builds(frame) == Up[frame.svc].builds \/ "build" \in frame.opts

UpStarted(p) ==
    LET s == Top(p).svc
        built == [Top(p) EXCEPT !.at = "image"]
    IN
    /\ In(p, "up", "started")
    /\ IF \E d \in Up[s].starts : ~running[d] THEN Throw(p)
       ELSE IF Builds(Top(p)) THEN Call(p, built, BuildCommand(s))
       ELSE Become(p, built)
    /\ ns' = IF Up[s].namespace = "started" THEN Created(s) ELSE ns
    /\ UNCHANGED <<state, code, release, secret, history>>

UpImage(p) ==
    LET s == Top(p).svc IN
    /\ In(p, "up", "image")
    /\ IF Builds(Top(p)) /\ ~image[s]
         THEN Throw(p)
         ELSE Become(p, [Top(p) EXCEPT !.at = "release", !.todo = Selected(s)])
    /\ UNCHANGED <<state, code, cluster, history>>

NextRelease(frame) == Up[frame.svc].plan[Place(frame)]

UpRelease(p) ==
    LET frame == Top(p)
        s == frame.svc
        r == NextRelease(frame)
        listed == release[s][r.name] # "none" /\ r.listed
        creates == \/ r.rule \in {"missing", "refresh"}
                   \/ /\ Up[s].namespace = "release"
                      /\ \A i \in Selected(s) : Place(frame) <= i
    IN
    /\ In(p, "up", "release")
    /\ frame.todo # {}
    /\ IF r.rule = "missing" /\ listed
         THEN Become(p, Rest(p)) /\ UNCHANGED ns
         ELSE /\ ns' = IF creates THEN Created(s) ELSE ns
              /\ Become(p, [frame EXCEPT
                    !.at = IF s = "dockerRegistry" \/ (r.image /\ RegistryAvailable)
                           THEN "secret" ELSE "helm",
                    !.was = IF r.rule \in {"missing", "refresh"} THEN listed
                            ELSE @ \/ (r.rule = "kubo" /\ listed)])
    /\ UNCHANGED <<state, code, release, secret, history>>

\* DockerRegistryPushPullSecretToK8s: whatever goes wrong, it goes on.  docker-registry
\* up does the same with the secret that holds the password of the registry.
PushPullSecret(p) ==
    LET s == Top(p).svc IN
    /\ In(p, "up", "secret")
    /\ secret' = [secret EXCEPT ![s] = @ \/ ns[s] = "active"]
    /\ GoTo(p, "helm")
    /\ UNCHANGED <<state, code, release, ns, history>>

\* The code behind the image and tag that up passes to the release.
Image(frame) ==
    LET s == frame.svc IN
    IF frame.ref # "none" THEN frame.ref
    ELSE IF s = "oracle" /\ "build" \notin frame.opts /\ multi # "none" THEN multi
    ELSE IF image[s] THEN pushed[s]
    ELSE "published"

Upgrades(frame) == NextRelease(frame).rule \in {"kubo", "prover", "refresh"} /\ frame.was

(***************************************************************************)
(* helm: nothing can be created in a namespace that is terminating; an     *)
(* installation needs the name to be free, an upgrade that it is not.      *)
(***************************************************************************)
Accepted(frame) ==
    LET s == frame.svc
        r == NextRelease(frame)
        there == release[s][r.name] # "none"
    IN /\ ns[s] # "terminating"
       /\ Upgrades(frame) => there /\ ns[s] = "active"
       /\ ~Upgrades(frame) => \/ r.rule = "ensure"
                              \/ r.rule = "within" /\ ns[s] = "active"
                              \/ ~there

SetRelease(s, r, content) == release' = [release EXCEPT ![s][r.name] = content]

\* Mutation: the loop does not come back to its head.
HelmInstallOnce(p) ==
    LET frame == Top(p)
        r == NextRelease(frame)
    IN
    /\ In(p, "up", "helm")
    /\ Accepted(frame)
    /\ SetRelease(frame.svc, r, IF r.image THEN Image(frame) ELSE "published")
    /\ ns' = Created(frame.svc)
    /\ Become(p, Rest(p))
    /\ UNCHANGED <<state, code, secret, history>>

HelmInstall(p) ==
    LET frame == Top(p)
        r == NextRelease(frame)
    IN
    /\ In(p, "up", "helm")
    /\ Accepted(frame)
    /\ SetRelease(frame.svc, r, IF r.image THEN Image(frame) ELSE "published")
    /\ ns' = Created(frame.svc)
    /\ Become(p, [Rest(p) EXCEPT !.at = "release"])
    /\ UNCHANGED <<state, code, secret, history>>

\* Mutation: every up goes on after a failed installation.
HelmFailedQuietly(p) ==
    LET frame == Top(p) IN
    /\ SetRelease(frame.svc, NextRelease(frame), "none")
    /\ Become(p, [Rest(p) EXCEPT !.at = "release"])

(***************************************************************************)
(* helm refuses, or fails half-way and leaves the release behind.  The     *)
(* loops over several releases then uninstall it and go on.                *)
(***************************************************************************)
HelmFailed(p) ==
    LET frame == Top(p)
        s == frame.svc
        r == NextRelease(frame)
    IN
    IF r.rule \in {"missing", "refresh"}
      THEN /\ SetRelease(s, r, "none")
           /\ Become(p, [Rest(p) EXCEPT !.at = "release"])
      ELSE /\ \/ UNCHANGED release
              \/ /\ Accepted(frame)
                 /\ SetRelease(s, r, IF r.image THEN Image(frame) ELSE "published")
           /\ Throw(p)

HelmRefused(p) ==
    /\ In(p, "up", "helm")
    /\ ~Accepted(Top(p))
    /\ HelmFailed(p)
    /\ UNCHANGED <<state, code, ns, secret, history>>

UpRecord(p) ==
    /\ In(p, "up", "release")
    /\ Top(p).todo = {}
    /\ running' = [running EXCEPT ![Top(p).svc] = TRUE]
    /\ Return(p)
    /\ UNCHANGED <<image, multi, deployed, code, cluster, history>>

-----------------------------------------------------------------------------
(***************************************************************************)
(* build, and oracle's build-multi, which builds a ref from worktrees of   *)
(* its own and tags the images with it.                                    *)
(***************************************************************************)
BuildStart(p) ==
    LET build == Build[Top(p).svc] IN
    /\ In(p, "build", "start")
    /\ IF ~(build.needs \subseteq deployed /\ RegistryAvailable)
         THEN Throw(p) /\ UNCHANGED source
         ELSE /\ source' = IF build.checkout = "kept" THEN source
                           ELSE [source EXCEPT ![build.from] = build.checkout]
              /\ GoTo(p, "push")
    /\ UNCHANGED <<state, pushed, cluster, history>>

BuildPush(p) ==
    LET build == Build[Top(p).svc] IN
    /\ In(p, "build", "push")
    /\ pushed' = [s \in Services |-> IF s \in build.images THEN source[build.from]
                                     ELSE pushed[s]]
    /\ GoTo(p, "mark")
    /\ UNCHANGED <<state, source, cluster, history>>

BuildMark(p) ==
    /\ In(p, "build", "mark")
    /\ image' = [s \in Services |-> image[s] \/ s \in Build[Top(p).svc].images]
    /\ Return(p)
    /\ UNCHANGED <<running, multi, deployed, code, cluster, history>>

BuildMulti(p) ==
    /\ In(p, "buildMulti", "start")
    /\ IF RegistryAvailable
         THEN multi' = Top(p).ref /\ Return(p)
         ELSE Throw(p) /\ UNCHANGED multi
    /\ UNCHANGED <<running, image, deployed, code, cluster, history>>

-----------------------------------------------------------------------------
(***************************************************************************)
(* down                                                                    *)
(***************************************************************************)
KeepDb(frame) == "keepDb" \in frame.opts

Listed(s) == {i \in Slots(s) : /\ Up[s].plan[i].listed
                               /\ release[s][Up[s].plan[i].name] # "none"}

\* The releases to uninstall; with keepDb, not the database.
Picked(frame) ==
    LET s == frame.svc IN
    {i \in Slots(s) :
       \/ Down[s].picks = "fixed"
       \/ Down[s].picks = "first" /\ i \in Listed(s) /\ \A j \in Listed(s) : i <= j
       \/ /\ Down[s].picks = "all" /\ i \in Listed(s)
          /\ ~(KeepDb(frame) /\ Up[s].plan[i].name = Performance)}

DownStart(p) ==
    LET frame == Top(p) IN
    /\ In(p, "down", "start")
    /\ IF Down[frame.svc].checks /\ ~running[frame.svc] /\ "force" \notin frame.opts
         THEN Return(p)
         ELSE GoTo(p, "list")
    /\ UNCHANGED <<state, code, cluster, history>>

DownListing(p) ==
    LET frame == Top(p)
        s == frame.svc
    IN
    /\ In(p, "down", "list")
    /\ IF Down[s].picks # "fixed" /\ Down[s].emptyStops /\ Listed(s) = {}
         THEN Return(p)
         ELSE Become(p, [frame EXCEPT !.at = "uninstall", !.todo = Picked(frame)])
    /\ UNCHANGED <<state, code, cluster, history>>

HelmUninstall(p) ==
    LET frame == Top(p) IN
    /\ In(p, "down", "uninstall")
    /\ frame.todo # {}
    /\ SetRelease(frame.svc, NextRelease(frame), "none")
    /\ Become(p, Rest(p))
    /\ UNCHANGED <<state, code, ns, secret, history>>

(***************************************************************************)
(* After the loop, the namespace is deleted in the background and then the *)
(* record; with keepDb only the running marker goes.                       *)
(***************************************************************************)
DeleteNamespace(p) ==
    LET frame == Top(p)
        s == frame.svc
    IN
    /\ In(p, "down", "uninstall")
    /\ frame.todo = {}
    /\ ~KeepDb(frame)
    /\ ns' = IF Down[s].namespace /\ ns[s] = "active"
             THEN [ns EXCEPT ![s] = "terminating"] ELSE ns
    /\ GoTo(p, "forget")
    /\ UNCHANGED <<state, code, release, secret, history>>

\* Mutation: the image goes, the running record stays.
ForgetImage(p) ==
    LET s == Top(p).svc IN
    /\ In(p, "down", "forget")
    /\ image' = [image EXCEPT ![s] = FALSE]
    /\ multi' = IF s = "oracle" THEN "none" ELSE multi
    /\ GoTo(p, "then")
    /\ UNCHANGED <<running, deployed, code, cluster, history>>

Forget(p) ==
    LET s == Top(p).svc IN
    /\ In(p, "down", "forget")
    /\ running' = [running EXCEPT ![s] = FALSE]
    /\ image' = [image EXCEPT ![s] = FALSE]
    /\ multi' = IF s = "oracle" THEN "none" ELSE multi
    /\ GoTo(p, "then")
    /\ UNCHANGED <<deployed, code, cluster, history>>

DownKeepingDb(p) ==
    LET frame == Top(p) IN
    /\ In(p, "down", "uninstall")
    /\ frame.todo = {}
    /\ KeepDb(frame)
    /\ running' = [running EXCEPT ![frame.svc] = FALSE]
    /\ Return(p)
    /\ UNCHANGED <<image, multi, deployed, code, cluster, history>>

DownThen(p) ==
    LET last == [Top(p) EXCEPT !.at = "end"] IN
    /\ In(p, "down", "then")
    /\ \/ \E d \in Down[Top(p).svc].then : Call(p, last, DownCommand(d, {}))
       \/ Down[Top(p).svc].then = {} /\ Become(p, last)
    /\ UNCHANGED <<state, code, cluster, history>>

DownEnd(p) ==
    /\ In(p, "down", "end")
    /\ Return(p)
    /\ UNCHANGED <<state, code, cluster, history>>

\* The background deletion of a namespace takes everything in it away.
Terminated(s) ==
    /\ ns[s] = "terminating"
    /\ ns' = [ns EXCEPT ![s] = "absent"]
    /\ release' = [release EXCEPT ![s] = NoReleases(s)]
    /\ secret' = [secret EXCEPT ![s] = FALSE]
    /\ UNCHANGED <<state, code, control, history>>

-----------------------------------------------------------------------------
(***************************************************************************)
(* service rebuild: git checkout, build, down, up.  For oracle, build-multi*)
(* and a down that keeps the performance database.                         *)
(***************************************************************************)
RebuildCheckout(p) ==
    LET frame == Top(p) IN
    /\ In(p, "rebuild", "start")
    /\ source' = [source EXCEPT ![frame.svc] = frame.ref]
    /\ GoTo(p, "build")
    /\ UNCHANGED <<state, pushed, cluster, history>>

\* The dependencies are installed; with --skipDeploy that is all.
RebuildBuild(p) ==
    LET frame == Top(p)
        next == [frame EXCEPT !.at = "down"]
    IN
    /\ In(p, "rebuild", "build")
    /\ IF "skipDeploy" \in frame.opts THEN Return(p)
       ELSE IF frame.svc = "oracle"
         THEN Call(p, next, Command("buildMulti", "oracle", {}, frame.ref))
       ELSE Call(p, next, BuildCommand(frame.svc))
    /\ UNCHANGED <<state, code, cluster, history>>

\* Mutations: the old deployment is left alone; the database is not kept.
RebuildWithoutDown(p) ==
    /\ In(p, "rebuild", "down")
    /\ GoTo(p, "up")
    /\ UNCHANGED <<state, code, cluster, history>>

RebuildDownAll(p) ==
    LET frame == Top(p) IN
    /\ In(p, "rebuild", "down")
    /\ Call(p, [frame EXCEPT !.at = "up"], DownCommand(frame.svc, {"force"}))
    /\ UNCHANGED <<state, code, cluster, history>>

RebuildDown(p) ==
    LET frame == Top(p) IN
    /\ In(p, "rebuild", "down")
    /\ Call(p, [frame EXCEPT !.at = "up"],
            DownCommand(frame.svc, IF frame.svc = "oracle" THEN {"force", "keepDb"} ELSE {}))
    /\ UNCHANGED <<state, code, cluster, history>>

RebuildUp(p) ==
    LET frame == Top(p) IN
    /\ In(p, "rebuild", "up")
    /\ Call(p, [frame EXCEPT !.at = "end"],
            Command("up", frame.svc, {}, IF frame.svc = "oracle" THEN frame.ref ELSE "none"))
    /\ UNCHANGED <<state, code, cluster, history>>

RebuildEnd(p) ==
    /\ In(p, "rebuild", "end")
    /\ Return(p)
    /\ UNCHANGED <<state, code, cluster, history>>

-----------------------------------------------------------------------------
(***************************************************************************)
(* down-offchain, and down: the services of a list one after the other,    *)
(* then the chain, then everything under artifacts/<network>, state.json   *)
(* included.                                                               *)
(***************************************************************************)
StopStart(p) ==
    LET frame == Top(p) IN
    /\ Busy(p) /\ frame.cmd \in {"stop", "stopOffchain"} /\ frame.at = "start"
    /\ Become(p, [frame EXCEPT !.at = "next", !.todo = DOMAIN StopLists[frame.cmd]])
    /\ UNCHANGED <<state, code, cluster, history>>

\* Mutations: --force is not handed on; the list is not shortened.
StopNextUnforced(p) ==
    LET frame == Top(p)
        s == StopLists[frame.cmd][Place(frame)]
    IN
    /\ Busy(p) /\ frame.cmd \in {"stop", "stopOffchain"} /\ frame.at = "next"
    /\ frame.todo # {}
    /\ Call(p, Rest(p), IF s = "chain" THEN Command("chainDown", "chain", {}, "none")
                        ELSE DownCommand(s, {}))
    /\ UNCHANGED <<state, code, cluster, history>>

StopNextForever(p) ==
    LET frame == Top(p)
        s == StopLists[frame.cmd][Place(frame)]
    IN
    /\ Busy(p) /\ frame.cmd \in {"stop", "stopOffchain"} /\ frame.at = "next"
    /\ frame.todo # {}
    /\ Call(p, frame, IF s = "chain" THEN Command("chainDown", "chain", {}, "none")
                      ELSE DownCommand(s, frame.opts \cap {"force"}))
    /\ UNCHANGED <<state, code, cluster, history>>

StopNext(p) ==
    LET frame == Top(p)
        s == StopLists[frame.cmd][Place(frame)]
    IN
    /\ Busy(p) /\ frame.cmd \in {"stop", "stopOffchain"} /\ frame.at = "next"
    /\ frame.todo # {}
    /\ Call(p, Rest(p), IF s = "chain" THEN Command("chainDown", "chain", {}, "none")
                         ELSE DownCommand(s, frame.opts \cap {"force"}))
    /\ UNCHANGED <<state, code, cluster, history>>

StopOffchainEnd(p) ==
    /\ In(p, "stopOffchain", "next")
    /\ Top(p).todo = {}
    /\ Return(p)
    /\ UNCHANGED <<state, code, cluster, history>>

\* dre.clean().  The working copies will be cloned afresh.
Clean(p) ==
    /\ In(p, "stop", "next")
    /\ Top(p).todo = {}
    /\ running' = [s \in Services |-> FALSE]
    /\ image' = [s \in Services |-> FALSE]
    /\ multi' = "none"
    /\ deployed' = {}
    /\ source' = [s \in Services |-> "config"]
    /\ Return(p)
    /\ UNCHANGED <<pushed, cluster, history>>

\* chain down takes Blockscout down with it, unforced.
ChainDownStart(p) ==
    /\ In(p, "chainDown", "start")
    /\ Call(p, [Top(p) EXCEPT !.at = "remove"], DownCommand("blockscout", {}))
    /\ UNCHANGED <<state, code, cluster, history>>

RemoveChain(p) ==
    /\ In(p, "chainDown", "remove")
    /\ deployed' = deployed \ {"chain"}
    /\ Return(p)
    /\ UNCHANGED <<running, image, multi, code, cluster, history>>

\* chain up, lido-core deploy ...: not modelled here.
Deploy ==
    /\ \A p \in Invocations : ~Busy(p)
    /\ deployed # workload.deployed
    /\ commands < MaxCommands
    /\ deployed' = workload.deployed
    /\ commands' = commands + 1
    /\ UNCHANGED <<running, image, multi, code, cluster, control, workload, faults, mark>>

-----------------------------------------------------------------------------
Fault == /\ faults < workload.faults
         /\ faults' = faults + 1
         /\ UNCHANGED <<workload, commands, mark>>

\* The API server refuses the pull secret, and nobody notices.
PushPullSecretFails(p) ==
    /\ In(p, "up", "secret")
    /\ Fault
    /\ GoTo(p, "helm")
    /\ UNCHANGED <<state, code, cluster>>

\* helm fails in a namespace that would have taken the release.
HelmFails(p) ==
    /\ In(p, "up", "helm")
    /\ Accepted(Top(p))
    /\ Fault
    /\ HelmFailed(p)
    /\ UNCHANGED <<state, code, ns, secret>>

(***************************************************************************)
(* A call to git, docker, helm or k8s fails; nothing has been done.        *)
(***************************************************************************)
Calls == {<<"up", "release">>, <<"build", "start">>, <<"build", "push">>,
          <<"buildMulti", "start">>, <<"down", "list">>, <<"down", "uninstall">>,
          <<"rebuild", "start">>, <<"rebuild", "build">>, <<"stop", "start">>,
          <<"stopOffchain", "start">>, <<"chainDown", "remove">>}

\* Mutation: every down goes on.
CallFailsUnseen(p) ==
    LET frame == Top(p) IN
    /\ Busy(p) /\ <<frame.cmd, frame.at>> \in Calls
    /\ Fault
    /\ IF frame.cmd = "down" /\ frame.todo # {} THEN Become(p, Rest(p)) ELSE Throw(p)
    /\ UNCHANGED <<state, code, cluster>>

CallFails(p) ==
    LET frame == Top(p) IN
    /\ Busy(p) /\ <<frame.cmd, frame.at>> \in Calls
    /\ Fault
    /\ IF frame.cmd = "down" /\ Down[frame.svc].tolerant /\ frame.todo # {}
         THEN Become(p, Rest(p))
         ELSE Throw(p)
    /\ UNCHANGED <<state, code, cluster>>

Crash(p) ==
    /\ Busy(p)
    /\ Fault
    /\ stack' = [stack EXCEPT ![p] = <<>>]
    /\ outcome' = [outcome EXCEPT ![p] = "crashed"]
    /\ UNCHANGED <<state, code, cluster>>

-----------------------------------------------------------------------------
Advance(p) ==
    \/ UpStart(p) \/ UpStarts(p) \/ UpStarted(p) \/ UpImage(p) \/ UpRelease(p)
    \/ PushPullSecret(p) \/ HelmInstall(p) \/ HelmRefused(p) \/ UpRecord(p)
    \/ BuildStart(p) \/ BuildPush(p) \/ BuildMark(p) \/ BuildMulti(p)
    \/ DownStart(p) \/ DownListing(p) \/ HelmUninstall(p) \/ DeleteNamespace(p)
    \/ Forget(p) \/ DownKeepingDb(p) \/ DownThen(p) \/ DownEnd(p)
    \/ RebuildCheckout(p) \/ RebuildBuild(p) \/ RebuildDown(p) \/ RebuildUp(p)
    \/ RebuildEnd(p)
    \/ StopStart(p) \/ StopNext(p) \/ StopOffchainEnd(p) \/ Clean(p)
    \/ ChainDownStart(p) \/ RemoveChain(p)

Failure(p) == PushPullSecretFails(p) \/ HelmFails(p) \/ CallFails(p) \/ Crash(p)

Next == \/ \E p \in Invocations : Issue(p) \/ Advance(p) \/ Failure(p)
        \/ \E s \in Services : Terminated(s)
        \/ Deploy

Spec == Init /\ [][Next]_vars

\* A command that is running gets on with it; nothing else has to happen.
FairSpec == Spec /\ \A p \in Invocations : WF_vars(Advance(p))
-----------------------------------------------------------------------------
Positions ==
    [up |-> {"start", "starts", "started", "image", "release", "secret", "helm"},
     build |-> {"start", "push", "mark"},
     buildMulti |-> {"start"},
     down |-> {"start", "list", "uninstall", "forget", "then", "end"},
     rebuild |-> {"start", "build", "down", "up", "end"},
     stop |-> {"start", "next"},
     stopOffchain |-> {"start", "next"},
     chainDown |-> {"start", "remove"}]

Frames ==
    [cmd : DOMAIN Positions, svc : Services \cup {"devnet", "chain"},
     opts : SUBSET {"force", "build", "keepDb", "skipDeploy", "silent"},
     ref : {"none", Asked}, at : UNION {Positions[c] : c \in DOMAIN Positions},
     todo : SUBSET Nat, was : BOOLEAN]

WellFormed(frame) ==
    /\ frame.at \in Positions[frame.cmd]
    /\ frame.cmd \in {"up", "down"} => /\ frame.svc \in Services
                                       /\ frame.todo \subseteq Slots(frame.svc)
    /\ frame.at \in {"secret", "helm"} => frame.todo # {}
    /\ frame.cmd = "build" \/ "build" \in frame.opts => frame.svc \in DOMAIN Build
    /\ frame.cmd = "rebuild" => frame.svc \in Rebuildable
    /\ frame.cmd \in {"rebuild", "buildMulti"} => frame.ref = Asked
    /\ frame.cmd \in {"stop", "stopOffchain"} => frame.todo \subseteq DOMAIN StopLists[frame.cmd]
    /\ "keepDb" \in frame.opts =>
          /\ frame.cmd = "down" /\ frame.svc = "oracle"
          /\ frame.at \in {"start", "list", "uninstall"}
          /\ \A i \in frame.todo : Up["oracle"].plan[i].name # Performance

TypeOK ==
    /\ running \in [Services -> BOOLEAN]
    /\ image \in [Services -> BOOLEAN]
    /\ multi \in {"none", Asked}
    /\ deployed \subseteq Components
    /\ source \in [Services -> {Asked, "config", "hardcoded"}]
    /\ pushed \in [Services -> {"none", Asked, "config", "hardcoded"}]
    /\ DOMAIN release = Services
    /\ \A s \in Services : release[s] \in [NamesOf[s] -> Contents \cup {"none"}]
    /\ ns \in [Services -> {"absent", "active", "terminating"}]
    /\ secret \in [Services -> BOOLEAN]
    /\ stack \in [Invocations -> Seq(Frames)]
    /\ \A p \in Invocations : \A i \in DOMAIN stack[p] : WellFormed(stack[p][i])
    /\ outcome \in [Invocations -> {"none", "done", "failed", "crashed"}]
    /\ commands \in 0 .. MaxCommands
    /\ faults \in 0 .. workload.faults
    /\ mark \in [Invocations -> 0 .. workload.faults]

Deployed(s) == \A r \in ReleasesOf[s] :
                  r.when \subseteq deployed => release[s][r.name] # "none"

(***************************************************************************)
(* The `running` record of a service that fails loudly is written only     *)
(* when all its releases are in the cluster, whatever was left there by    *)
(* failed or killed commands and however slowly an earlier namespace goes  *)
(* away (kapi-k8s/up.ts:22-107 and its like).                              *)
(***************************************************************************)
RecordedOnlyWhenDeployed ==
    [][\A s \in Services : s \in Strict /\ ~running[s] /\ running'[s]
          => Deployed(s) /\ ns[s] = "active"]_vars

Gone(s, releases) == \/ ns[s] # "active"
                     \/ \A r \in releases : release[s][r.name] = "none"

Cleaning(p) == In(p, "stop", "next") /\ Top(p).todo = {}

(***************************************************************************)
(* Short of wiping the whole network, a `running` record is dropped only   *)
(* when the releases it stands for are gone or going: no down, failed or   *)
(* killed at any point, leaves a service running that the state has        *)
(* forgotten (kapi-k8s/down.ts:20-57 and its like).                        *)
(***************************************************************************)
ForgottenOnlyWhenGone ==
    [][\A s \in Services : running[s] /\ ~running'[s]
          => \/ Gone(s, {r \in ReleasesOf[s] : r.name # Performance})
             \/ \E p \in Invocations : Cleaning(p)]_vars

GoingDown(s) == \E p \in Invocations : \E i \in DOMAIN stack[p] :
                   stack[p][i].cmd = "down" /\ stack[p][i].svc = s

(***************************************************************************)
(* A record that has outlived its releases is hard to get rid of: down     *)
(* finds no release and returns before it comes to the record (kapi-k8s/   *)
(* down.ts:30), and every up skips.  It takes a failure or a kill to get   *)
(* there: until one happens, what is recorded is all there, or is just     *)
(* being taken down, whatever commands were run in whatever order.         *)
(***************************************************************************)
StaleOnlyIfInterrupted ==
    faults = 0 => \A s \in Services :
        s \in Strict /\ running[s] => (Deployed(s) /\ ns[s] = "active") \/ GoingDown(s)

(***************************************************************************)
(* "route through build-multi + down --keepDb so the DB survives the       *)
(* redeploy" (service/rebuild.ts:64-66): while oracle is being rebuilt,    *)
(* nothing takes the database away or asks for its namespace to go.        *)
(***************************************************************************)
Rebuilding(s) == \E p \in Invocations : \E i \in DOMAIN stack[p] :
                    stack[p][i].cmd = "rebuild" /\ stack[p][i].svc = s

DbSurvivesRebuild ==
    [][Rebuilding("oracle") /\ ns["oracle"] = "active"
          => /\ ns'["oracle"] = "active"
             /\ release["oracle"][Performance] # "none"
                   => release'["oracle"][Performance] # "none"]_vars

\* p's command is about to end without an error; nothing failed meanwhile.
Ending(p, cmd) == In(p, cmd, "end") /\ Len(stack[p]) = 1

Runs(s, content) == \A r \in ReleasesOf[s] : r.image => release[s][r.name] = content

(***************************************************************************)
(* As long as nothing has ever failed, a rebuild that ends well leaves the *)
(* service recorded and every one of its pods on the ref asked for: the    *)
(* old release was really taken down, up did not stop at "already          *)
(* running", and what was pushed is what was checked out (service/         *)
(* rebuild.ts:111-127).  For services whose build keeps the tree and whose *)
(* up fails loudly; of the others see RebuildRollsToTheRef.                *)
(***************************************************************************)
RebuiltAsAsked ==
    \A p \in Invocations :
        Ending(p, "rebuild") /\ faults = 0
            => LET s == Top(p).svc IN
               s \in Rolled => running[s] /\ Runs(s, Top(p).ref)

(***************************************************************************)
(* `down --force` that meets no failure itself clears the cluster of every *)
(* service on its list, as far as down can see its releases, whatever      *)
(* earlier commands left behind without a record (down.ts:34-51).          *)
(***************************************************************************)
ForcedStopClears ==
    \A p \in Invocations :
        Cleaning(p) /\ mark[p] = faults /\ "force" \in Top(p).opts
            => \A i \in DOMAIN StopLists["stop"] :
                 LET s == StopLists["stop"][i] IN
                 s # "chain" => Gone(s, {r \in ReleasesOf[s] : r.listed})

(***************************************************************************)
(* Every command ends: no step waits for a state that does not come, and   *)
(* nested commands do not call each other in circles.                      *)
(***************************************************************************)
EveryCommandEnds == \A p \in Invocations : Busy(p) ~> ~Busy(p)

-----------------------------------------------------------------------------
(***************************************************************************)
(* Four statements of the repository that the code does not keep.          *)
(***************************************************************************)

(***************************************************************************)
(* "Rebuild a service end-to-end: checkout the requested ref ... Used to   *)
(* roll a service to a new branch or commit" (docs/commands/service.md:    *)
(* 29-31): a rebuild that ends well, with nothing failing, leaves pods on  *)
(* that ref.                                                               *)
(***************************************************************************)
RebuildRollsToTheRef ==
    \A p \in Invocations :
        Ending(p, "rebuild") /\ faults = 0 => Runs(Top(p).svc, Top(p).ref)

(***************************************************************************)
(* "Pull secret ... already exists in namespace ... Skipping creation"     *)
(* (docker-registry/push-pull-secret-to-k8s.ts:36-37): when creating it    *)
(* fails, the secret is there.  With nothing failing, then, a service that *)
(* runs an image of the private registry has the secret to pull it with.   *)
(***************************************************************************)
PodsCanPull ==
    \A s \in Services :
        running[s] /\ ns[s] = "active" /\ Up[s].builds /\ faults = 0 => secret[s]

(***************************************************************************)
(* "rollback changes" (council-k8s/up.ts:117): the uninstallation after a  *)
(* failed installation undoes what that up did, and takes no release away  *)
(* that was there before.                                                  *)
(***************************************************************************)
RollbackUndoesOnlyItsOwn ==
    [][\A p \in Invocations :
          In(p, "up", "helm") /\ stack'[p] # stack[p] /\ faults' = faults
             => LET s == Top(p).svc IN
                \A n \in NamesOf[s] :
                   release[s][n] # "none" => release'[s][n] # "none"]_vars
=============================================================================
