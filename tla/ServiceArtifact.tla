-------------------------- MODULE ServiceArtifact --------------------------
(***************************************************************************)
(* DevnetServiceArtifact: the working copy of one service under            *)
(* artifacts/<network>/<service>.  ensure() materializes it on first use   *)
(* (git clone, then a copy of the workspace overlay) and then runs the     *)
(* service's install hook; concurrent calls share one attempt.             *)
(*                                                                         *)
(* An artifact object memoizes that work for one process.  Several objects *)
(* may stand for the same directory: two devnet processes, or two clones   *)
(* of the registry that both met the service for the first time.           *)
(***************************************************************************)
EXTENDS Naturals, FiniteSets

CONSTANTS Objects,         \* the artifact objects of the one directory
          Callers,         \* the asynchronous calls of ensure()
          Home,            \* the object a caller holds
          HasRepository,   \* the service's config names a repository
          HasWorkspace,    \* ... a workspace overlay
          HasInstallHook,  \* ... hooks.install
          MaxFaults        \* bound on failures, crashes and removals

ASSUME HomeAssumption == Home \in [Callers -> Objects]
ASSUME ConfigAssumption == /\ HasRepository \in BOOLEAN
                           /\ HasWorkspace \in BOOLEAN
                           /\ HasInstallHook \in BOOLEAN
ASSUME FaultsAssumption == MaxFaults \in Nat

VARIABLES root,      \* the directory on disk
          ensured,   \* the field of that name
          promise,   \* ensurePromise is not null
          emitted,   \* the length of emittedCommands
          hooks,     \* commands the hook runner still has to run
          step,      \* where runEnsure() of the object is
          call,      \* what became of each caller's last ensure()
          faults     \* failures, crashes and removals so far

vars == <<root, ensured, promise, emitted, hooks, step, call, faults>>

Contents == {"none", "partial", "whole"}
Absent == [exists |-> FALSE, repository |-> "none", workspace |-> "none",
           installed |-> FALSE]

Steps == {"idle", "access", "mkdir", "clone", "cloning", "copy", "copying",
          "ready", "hook", "selfwait", "hooked"}

Init == /\ root = Absent
        /\ ensured = [o \in Objects |-> FALSE]
        /\ promise = [o \in Objects |-> FALSE]
        /\ emitted = [o \in Objects |-> 0]
        /\ hooks = [o \in Objects |-> 0]
        /\ step = [o \in Objects |-> "idle"]
        /\ call = [c \in Callers |-> "idle"]
        /\ faults = 0

-----------------------------------------------------------------------------
At(o, s) == step[o] = s

GoTo(o, s) == step' = [step EXCEPT ![o] = s]

\* Mutation: ensurePromise is not cleared.
SettleKeepingPromise(o, outcome) ==
    /\ GoTo(o, "idle")
    /\ UNCHANGED promise
    /\ call' = [c \in Callers |-> IF Home[c] = o /\ call[c] = "awaiting"
                                  THEN outcome ELSE call[c]]

(***************************************************************************)
(* runEnsure() ends: finally clears ensurePromise, and everyone awaiting   *)
(* the promise gets its outcome.                                           *)
(***************************************************************************)
Settle(o, outcome) ==
    /\ GoTo(o, "idle")
    /\ promise' = [promise EXCEPT ![o] = FALSE]
    /\ call' = [c \in Callers |-> IF Home[c] = o /\ call[c] = "awaiting"
                                  THEN outcome ELSE call[c]]

Fault == faults < MaxFaults /\ faults' = faults + 1

\* Mutation: the ensured flag is not looked at.
EnsureAgain(c) ==
    LET o == Home[c] IN
    /\ call[c] # "awaiting"
    /\ \/ /\ promise[o]
          /\ call' = [call EXCEPT ![c] = "awaiting"]
          /\ UNCHANGED <<promise, step>>
       \/ /\ ~promise[o]
          /\ promise' = [promise EXCEPT ![o] = TRUE]
          /\ call' = [call EXCEPT ![c] = "awaiting"]
          /\ GoTo(o, "access")
    /\ UNCHANGED <<root, ensured, emitted, hooks, faults>>

(***************************************************************************)
(* ensure(): done already; or join the attempt under way; or start one.    *)
(***************************************************************************)
Ensure(c) ==
    LET o == Home[c] IN
    /\ call[c] # "awaiting"
    /\ \/ /\ ensured[o]
          /\ call' = [call EXCEPT ![c] = "returned"]
          /\ UNCHANGED <<promise, step>>
       \/ /\ ~ensured[o] /\ promise[o]
          /\ call' = [call EXCEPT ![c] = "awaiting"]
          /\ UNCHANGED <<promise, step>>
       \/ /\ ~ensured[o] /\ ~promise[o]
          /\ promise' = [promise EXCEPT ![o] = TRUE]
          /\ call' = [call EXCEPT ![c] = "awaiting"]
          /\ GoTo(o, "access")
    /\ UNCHANGED <<root, ensured, emitted, hooks, faults>>

(***************************************************************************)
(* materialize(): an existing directory is taken as it is; for a missing   *)
(* one the install hook is queued before anything is fetched.              *)
(***************************************************************************)
\* Mutation: no overlay.
NothingAfterClone == "ready"

AfterClone == IF HasWorkspace THEN "copy" ELSE "ready"

\* Mutation: the install hook is queued whether or not the directory is there.
MaterializeWithHook(o) ==
    /\ At(o, "access")
    /\ emitted' = [emitted EXCEPT ![o] = @ + (IF HasInstallHook THEN 1 ELSE 0)]
    /\ GoTo(o, IF root.exists THEN "ready"
               ELSE IF HasRepository THEN "mkdir" ELSE AfterClone)
    /\ UNCHANGED <<root, ensured, promise, hooks, call, faults>>

Materialize(o) ==
    /\ At(o, "access")
    /\ \/ /\ root.exists
          /\ GoTo(o, "ready")
          /\ UNCHANGED emitted
       \/ /\ ~root.exists
          /\ emitted' = [emitted EXCEPT ![o] = @ + (IF HasInstallHook THEN 1 ELSE 0)]
          /\ GoTo(o, IF HasRepository THEN "mkdir" ELSE AfterClone)
    /\ UNCHANGED <<root, ensured, promise, hooks, call, faults>>

\* gitInit() first makes the directory ...
GitInitMkdir(o) ==
    /\ At(o, "mkdir")
    /\ root' = [root EXCEPT !.exists = TRUE]
    /\ GoTo(o, "clone")
    /\ UNCHANGED <<ensured, promise, emitted, hooks, call, faults>>

\* ... in which git only clones while it is empty.
Empty == root.exists /\ root.repository = "none" /\ root.workspace = "none"

GitClone(o) ==
    /\ At(o, "clone")
    /\ Empty
    /\ root' = [root EXCEPT !.repository = "partial"]
    /\ GoTo(o, "cloning")
    /\ UNCHANGED <<ensured, promise, emitted, hooks, call, faults>>

GitCloneRefused(o) ==
    /\ At(o, "clone")
    /\ ~Empty
    /\ Settle(o, "rejected")
    /\ UNCHANGED <<root, ensured, emitted, hooks, faults>>

GitCloned(o) ==
    /\ At(o, "cloning")
    /\ \/ /\ root.repository = "partial"
          /\ root' = [root EXCEPT !.repository = "whole"]
          /\ GoTo(o, AfterClone)
          /\ UNCHANGED <<promise, call>>
       \/ /\ root.repository # "partial"      \* removed under its feet
          /\ Settle(o, "rejected")
          /\ UNCHANGED root
    /\ UNCHANGED <<ensured, emitted, hooks, faults>>

(***************************************************************************)
(* copyFilesFrom(): makes the directory if need be and writes the overlay  *)
(* over whatever is there.                                                 *)
(***************************************************************************)
CopyFiles(o) ==
    /\ At(o, "copy")
    /\ root' = [root EXCEPT !.exists = TRUE, !.workspace = "partial"]
    /\ GoTo(o, "copying")
    /\ UNCHANGED <<ensured, promise, emitted, hooks, call, faults>>

FilesCopied(o) ==
    /\ At(o, "copying")
    /\ \/ /\ root.workspace # "none"
          /\ root' = [root EXCEPT !.workspace = "whole"]
          /\ GoTo(o, "ready")
          /\ UNCHANGED <<promise, call>>
       \/ /\ root.workspace = "none"          \* removed under its feet
          /\ root' \in {root, [root EXCEPT !.exists = TRUE, !.workspace = "partial"]}
          /\ Settle(o, "rejected")
    /\ UNCHANGED <<ensured, emitted, hooks, faults>>

\* Mutation: ensured is set after the hooks, not before them.
MarkEnsuredLate(o) ==
    /\ At(o, "ready")
    /\ ensured' = [ensured EXCEPT ![o] = emitted[o] = 0]
    /\ hooks' = [hooks EXCEPT ![o] = emitted[o]]
    /\ emitted' = [emitted EXCEPT ![o] = 0]
    /\ IF emitted[o] = 0
         THEN Settle(o, "returned")
         ELSE GoTo(o, "hook") /\ UNCHANGED <<promise, call>>
    /\ UNCHANGED <<root, faults>>

(***************************************************************************)
(* runEnsure() past materialize(): the object is ensured from here on, and *)
(* only then are the queued commands taken and handed to the hook runner.  *)
(***************************************************************************)
MarkEnsured(o) ==
    /\ At(o, "ready")
    /\ ensured' = [ensured EXCEPT ![o] = TRUE]
    /\ hooks' = [hooks EXCEPT ![o] = emitted[o]]
    /\ emitted' = [emitted EXCEPT ![o] = 0]
    /\ IF emitted[o] = 0
         THEN Settle(o, "returned")
         ELSE GoTo(o, "hook") /\ UNCHANGED <<promise, call>>
    /\ UNCHANGED <<root, faults>>

(***************************************************************************)
(* A hook is a devnet command on the same service: its first shell call    *)
(* goes through ensure() of the very object that is running it.            *)
(***************************************************************************)
HookEnsures(o) ==
    /\ At(o, "hook")
    /\ GoTo(o, IF ensured[o] THEN "hooked" ELSE "selfwait")
    /\ UNCHANGED <<root, ensured, promise, emitted, hooks, call, faults>>

\* Mutation: the runner counts one command too many.
HookDoneOffByOne(o) ==
    /\ At(o, "hooked")
    /\ \/ /\ root.exists
          /\ root' = [root EXCEPT !.installed = TRUE]
          /\ hooks' = [hooks EXCEPT ![o] = @ - 1]
          /\ IF hooks[o] = 0
               THEN Settle(o, "returned")
               ELSE GoTo(o, "hook") /\ UNCHANGED <<promise, call>>
       \/ /\ ~root.exists
          /\ hooks' = [hooks EXCEPT ![o] = 0]
          /\ Settle(o, "rejected")
          /\ UNCHANGED root
    /\ UNCHANGED <<ensured, emitted, faults>>

HookDone(o) ==
    /\ At(o, "hooked")
    /\ \/ /\ root.exists
          /\ root' = [root EXCEPT !.installed = TRUE]
          /\ hooks' = [hooks EXCEPT ![o] = @ - 1]
          /\ IF hooks[o] = 1
               THEN Settle(o, "returned")
               ELSE GoTo(o, "hook") /\ UNCHANGED <<promise, call>>
       \/ /\ ~root.exists                     \* removed under its feet
          /\ hooks' = [hooks EXCEPT ![o] = 0]
          /\ Settle(o, "rejected")
          /\ UNCHANGED root
    /\ UNCHANGED <<ensured, emitted, faults>>

-----------------------------------------------------------------------------
(***************************************************************************)
(* Failures.  git removes what it wrote but not the directory it was given;*)
(* a failed copy leaves what it has written.  Neither ensured nor          *)
(* emittedCommands is put back.                                            *)
(***************************************************************************)
MkdirFails(o) ==
    /\ At(o, "mkdir")
    /\ Fault
    /\ Settle(o, "rejected")
    /\ UNCHANGED <<root, ensured, emitted, hooks>>

CloneFails(o) ==
    /\ step[o] \in {"clone", "cloning"}
    /\ Fault
    /\ root' = IF At(o, "cloning") /\ root.repository = "partial"
               THEN [root EXCEPT !.repository = "none"] ELSE root
    /\ Settle(o, "rejected")
    /\ UNCHANGED <<ensured, emitted, hooks>>

CopyFails(o) ==
    /\ step[o] \in {"copy", "copying"}
    /\ Fault
    /\ Settle(o, "rejected")
    /\ UNCHANGED <<root, ensured, emitted, hooks>>

HookFails(o) ==
    /\ At(o, "hooked")
    /\ Fault
    /\ hooks' = [hooks EXCEPT ![o] = 0]
    /\ Settle(o, "rejected")
    /\ UNCHANGED <<root, ensured, emitted>>

(***************************************************************************)
(* clean(), of the artifact or of the whole network directory: the files   *)
(* go, the objects do not hear of it.                                      *)
(***************************************************************************)
Clean ==
    /\ root.exists
    /\ Fault
    /\ root' = Absent
    /\ UNCHANGED <<ensured, promise, emitted, hooks, step, call>>

\* The process holding o is killed; the directory stays as it was.
Crash(o) ==
    /\ Fault
    /\ ensured' = [ensured EXCEPT ![o] = FALSE]
    /\ promise' = [promise EXCEPT ![o] = FALSE]
    /\ emitted' = [emitted EXCEPT ![o] = 0]
    /\ hooks' = [hooks EXCEPT ![o] = 0]
    /\ GoTo(o, "idle")
    /\ call' = [c \in Callers |-> IF Home[c] = o THEN "killed" ELSE call[c]]
    /\ UNCHANGED root

-----------------------------------------------------------------------------
RunEnsure(o) == \/ Materialize(o) \/ GitInitMkdir(o)
                \/ GitClone(o) \/ GitCloneRefused(o) \/ GitCloned(o)
                \/ CopyFiles(o) \/ FilesCopied(o)
                \/ MarkEnsured(o) \/ HookEnsures(o) \/ HookDone(o)

Failure(o) == \/ MkdirFails(o) \/ CloneFails(o) \/ CopyFails(o)
              \/ HookFails(o) \/ Crash(o)

Next == \/ \E c \in Callers : Ensure(c)
        \/ \E o \in Objects : RunEnsure(o) \/ Failure(o)
        \/ Clean

Spec == Init /\ [][Next]_vars

(***************************************************************************)
(* The event loop, git, the file system and the hook's command get on with *)
(* their work; nobody is obliged to call ensure(), or to fail.             *)
(***************************************************************************)
FairSpec == Spec /\ \A o \in Objects : WF_vars(RunEnsure(o))

-----------------------------------------------------------------------------
TypeOK ==
    /\ root \in [exists : BOOLEAN, repository : Contents, workspace : Contents,
                 installed : BOOLEAN]
    /\ ensured \in [Objects -> BOOLEAN]
    /\ promise \in [Objects -> BOOLEAN]
    /\ emitted \in [Objects -> Nat]
    /\ hooks \in [Objects -> Nat]
    /\ step \in [Objects -> Steps]
    /\ call \in [Callers -> {"idle", "awaiting", "returned", "rejected", "killed"}]
    /\ faults \in 0 .. MaxFaults

Whole == /\ root.exists
         /\ HasRepository => root.repository = "whole"
         /\ HasWorkspace => root.workspace = "whole"

(***************************************************************************)
(* No caller is left behind: whoever awaits ensurePromise has an attempt   *)
(* under way that will settle it, and the field is set for exactly as long *)
(* as an attempt is under way (devnet-service-artifact.ts:92-98, 168-170). *)
(***************************************************************************)
AwaitedPassIsRunning ==
    /\ \A o \in Objects : promise[o] <=> step[o] # "idle"
    /\ \A c \in Callers : call[c] = "awaiting" => promise[Home[c]]

(***************************************************************************)
(* "Mark ensured before firing hooks so recursive ensure() calls (e.g.     *)
(* from inside the install hook) short-circuit immediately": an attempt    *)
(* never waits for itself (devnet-service-artifact.ts:155-157).            *)
(***************************************************************************)
HookNeverAwaitsItself == \A o \in Objects : step[o] # "selfwait"

\* Nobody has ever come to the directory by another object.
Alone(o) == \A c \in Callers : Home[c] # o => call[c] = "idle"

(***************************************************************************)
(* While nothing has failed and no one else works on the directory, a      *)
(* call that returned leaves its caller with the whole working copy, even  *)
(* one that returned early because the install hook is still running.      *)
(* (With a second object this does not hold: see EventuallyWhole.)         *)
(***************************************************************************)
ReturnedMeansWhole ==
    \A c \in Callers : faults = 0 /\ Alone(Home[c]) /\ call[c] = "returned" => Whole

(***************************************************************************)
(* An object that has been ensured never fetches anything again while its  *)
(* process lives, whatever failed in its install hook and whether or not   *)
(* the directory is still there.                                           *)
(***************************************************************************)
EnsuredNeverRefetches ==
    [][\A o \in Objects :
          ensured[o] => step'[o] \notin {"access", "mkdir", "clone", "cloning",
                                         "copy", "copying"}]_vars

StartsHook(o) == step'[o] = "hook" /\ step[o] \in {"ready", "hooked"}

(***************************************************************************)
(* An attempt that fails after the install hook was queued leaves it in    *)
(* emittedCommands, and the next attempt queues it again (lines 126-128),  *)
(* so the hook is run twice over one tree (159-166).  With the directory   *)
(* to itself an object starts the hook over a tree that has been through   *)
(* it for no other reason: never first thing after materialize(), whatever *)
(* crashed or was removed before, and the commands still to run are then   *)
(* no more than the failures so far.  Where nothing failed it never does.  *)
(***************************************************************************)
HookAgainOnlyForFailures ==
    [][\A o \in Objects :
          Alone(o) /\ StartsHook(o) /\ root'.installed
             => step[o] = "hooked" /\ hooks'[o] <= faults]_vars

\* Every attempt settles its promise, so no caller hangs in ensure() forever.
EveryPassSettles == \A o \in Objects : promise[o] ~> ~promise[o]

(***************************************************************************)
(* Two processes racing on the directory: one may be told "ensured" while  *)
(* the other is still cloning, but unless something fails the tree it was  *)
(* promised does become whole.                                             *)
(***************************************************************************)
EventuallyWhole ==
    \A o \in Objects : ensured[o] /\ faults = 0 ~> Whole \/ faults > 0

(***************************************************************************)
(* The refinement of OnceInit: an object is being initialised while it has *)
(* a promise and is not ensured.                                           *)
(***************************************************************************)
phase == [o \in Objects |-> IF ensured[o] THEN "done"
                            ELSE IF promise[o] THEN "running" ELSE "none"]

Once == INSTANCE OnceInit WITH phase <- phase

\* ensure() keeps the promise of OnceInit.
ImplementsOnceInit == Once!Spec
=============================================================================
