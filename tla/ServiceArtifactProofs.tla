----------------------- MODULE ServiceArtifactProofs -----------------------
(***************************************************************************)
(* What TLAPS proves of ServiceArtifact, for any number of objects and     *)
(* callers, any configuration of the service and any bound on faults.      *)
(***************************************************************************)
EXTENDS ServiceArtifact, TLAPS

Fetching == {"access", "mkdir", "clone", "cloning", "copy", "copying", "ready"}
Hooking == {"hook", "hooked"}

(***************************************************************************)
(* The strengthening that makes the properties inductive: the place an     *)
(* attempt has reached says whether the object is ensured, and while hooks *)
(* run there is at least one command left.                                 *)
(***************************************************************************)
PassShape ==
    \A o \in Objects : /\ step[o] \in {"idle"} \cup Fetching \cup Hooking
                       /\ step[o] \in Fetching => ~ensured[o]
                       /\ step[o] \in Hooking => ensured[o] /\ hooks[o] > 0

\* TypeOK in two parts: the directory, and everything else.
Directory == [exists : BOOLEAN, repository : Contents, workspace : Contents,
              installed : BOOLEAN]

Fields == /\ ensured \in [Objects -> BOOLEAN]
          /\ promise \in [Objects -> BOOLEAN]
          /\ emitted \in [Objects -> Nat]
          /\ hooks \in [Objects -> Nat]
          /\ step \in [Objects -> Steps]
          /\ call \in [Callers -> {"idle", "awaiting", "returned", "rejected", "killed"}]
          /\ faults \in 0 .. MaxFaults

IInv == TypeOK /\ AwaitedPassIsRunning /\ PassShape

-----------------------------------------------------------------------------
\* ServiceArtifact starts in a state of the inductive invariant.
LEMMA InitIInv == Init => IInv
BY HomeAssumption, FaultsAssumption
   DEF Init, IInv, TypeOK, AwaitedPassIsRunning, PassShape, Absent, Contents,
       Steps, Fetching, Hooking

\* The directory keeps its type.
LEMMA StepRoot == TypeOK /\ [Next]_vars => root' \in Directory
<1> SUFFICES ASSUME TypeOK, [Next]_vars PROVE root' \in Directory
  OBVIOUS
<1>1. root \in Directory
  BY DEF TypeOK, Directory
<1>2. ASSUME NEW o \in Objects, GitInitMkdir(o) PROVE root' \in Directory
  BY <1>1, <1>2 DEF GitInitMkdir, Directory
<1>3. ASSUME NEW o \in Objects, GitClone(o) PROVE root' \in Directory
  BY <1>1, <1>3 DEF GitClone, Directory, Contents
<1>4. ASSUME NEW o \in Objects, GitCloned(o) PROVE root' \in Directory
  BY <1>1, <1>4 DEF GitCloned, Directory, Contents
<1>5. ASSUME NEW o \in Objects, CopyFiles(o) PROVE root' \in Directory
  BY <1>1, <1>5 DEF CopyFiles, Directory, Contents
<1>6. ASSUME NEW o \in Objects, FilesCopied(o) PROVE root' \in Directory
  BY <1>1, <1>6 DEF FilesCopied, Directory, Contents
<1>7. ASSUME NEW o \in Objects, HookDone(o) PROVE root' \in Directory
  BY <1>1, <1>7 DEF HookDone, Directory
<1>8. ASSUME NEW o \in Objects, CloneFails(o) PROVE root' \in Directory
  BY <1>1, <1>8 DEF CloneFails, Directory, Contents
<1>9. CASE Clean
  BY <1>9 DEF Clean, Absent, Directory, Contents
<1>10. CASE UNCHANGED root
  BY <1>1, <1>10
<1> QED
  BY <1>2, <1>3, <1>4, <1>5, <1>6, <1>7, <1>8, <1>9, <1>10
     DEF Next, RunEnsure, Failure, Ensure, Materialize, GitCloneRefused,
         MarkEnsured, HookEnsures, MkdirFails, CopyFails, HookFails, Crash, vars

\* Settling an attempt keeps the types of what it changes.
LEMMA SettleTypes ==
  ASSUME Fields, NEW o \in Objects, NEW outcome \in {"returned", "rejected"},
         Settle(o, outcome)
  PROVE  /\ step' \in [Objects -> Steps]
         /\ promise' \in [Objects -> BOOLEAN]
         /\ call' \in [Callers -> {"idle", "awaiting", "returned", "rejected", "killed"}]
BY HomeAssumption DEF Fields, Settle, GoTo, Steps

\* What an object and its callers remember, and the count of faults, keep
\* their types.
LEMMA StepFields == IInv /\ [Next]_vars => Fields'
<1> SUFFICES ASSUME IInv, [Next]_vars PROVE Fields'
  OBVIOUS
<1> USE HomeAssumption, FaultsAssumption, ConfigAssumption
<1>0. Fields /\ PassShape 
  BY DEF IInv, TypeOK, Fields
<1> USE <1>0
<1> USE DEF Fields, PassShape, Steps, GoTo, At, Settle, Fault, AfterClone,
        Fetching, Hooking
<1>1. ASSUME NEW c \in Callers, Ensure(c) PROVE Fields'
  BY <1>1 DEF Ensure
<1>2. ASSUME NEW o \in Objects, Materialize(o) PROVE Fields'
  BY <1>2 DEF Materialize
<1>3. ASSUME NEW o \in Objects, GitInitMkdir(o) PROVE Fields'
  <2>1. GoTo(o, "clone") /\ UNCHANGED <<ensured, promise, emitted, hooks, call, faults>>
    BY <1>3 DEF GitInitMkdir
  <2> QED
    BY <2>1
<1>4. ASSUME NEW o \in Objects, GitClone(o) PROVE Fields'
  <2>1. GoTo(o, "cloning") /\ UNCHANGED <<ensured, promise, emitted, hooks, call, faults>>
    BY <1>4 DEF GitClone
  <2> QED
    BY <2>1
<1>5. ASSUME NEW o \in Objects, GitCloneRefused(o) PROVE Fields'
  BY <1>5 DEF GitCloneRefused
<1>6. ASSUME NEW o \in Objects, GitCloned(o) PROVE Fields'
  <2>1. /\ \/ GoTo(o, AfterClone) /\ UNCHANGED <<promise, call>>
           \/ Settle(o, "rejected")
        /\ UNCHANGED <<ensured, emitted, hooks, faults>>
    BY <1>6 DEF GitCloned
  <2>2. CASE Settle(o, "rejected")
    BY ONLY <1>0, <2>1, <2>2, SettleTypes DEF Fields
  <2>3. CASE GoTo(o, AfterClone) /\ UNCHANGED <<promise, call>>
    BY <2>1, <2>3
  <2> QED
    BY ONLY <2>1, <2>2, <2>3
<1>7. ASSUME NEW o \in Objects, CopyFiles(o) PROVE Fields'
  <2>1. GoTo(o, "copying") /\ UNCHANGED <<ensured, promise, emitted, hooks, call, faults>>
    BY <1>7 DEF CopyFiles
  <2> QED
    BY <2>1
<1>8. ASSUME NEW o \in Objects, FilesCopied(o) PROVE Fields'
  <2>1. /\ \/ GoTo(o, "ready") /\ UNCHANGED <<promise, call>>
           \/ Settle(o, "rejected")
        /\ UNCHANGED <<ensured, emitted, hooks, faults>>
    BY <1>8 DEF FilesCopied
  <2>2. CASE Settle(o, "rejected")
    BY ONLY <1>0, <2>1, <2>2, SettleTypes DEF Fields
  <2>3. CASE GoTo(o, "ready") /\ UNCHANGED <<promise, call>>
    BY <2>1, <2>3
  <2> QED
    BY ONLY <2>1, <2>2, <2>3
<1>9. ASSUME NEW o \in Objects, MarkEnsured(o) PROVE Fields'
  <2>1. CASE emitted[o] = 0
    <3>1. Settle(o, "returned")
      BY ONLY <1>9, <2>1 DEF MarkEnsured
    <3> QED
      BY ONLY <1>0, <1>9, <3>1, SettleTypes DEF MarkEnsured, Fields
  <2>2. CASE emitted[o] # 0
    BY <1>9, <2>2 DEF MarkEnsured
  <2> QED
    BY <2>1, <2>2
<1>10. ASSUME NEW o \in Objects, HookEnsures(o) PROVE Fields'
  BY <1>10 DEF HookEnsures
<1>11. ASSUME NEW o \in Objects, HookDone(o) PROVE Fields'
  <2>1. /\ hooks' \in [Objects -> Nat]
        /\ UNCHANGED <<ensured, emitted, faults>>
    BY <1>11 DEF HookDone
  <2>2. \/ \E outcome \in {"returned", "rejected"} : Settle(o, outcome)
        \/ GoTo(o, "hook") /\ UNCHANGED <<promise, call>>
    BY ONLY <1>11 DEF HookDone
  <2>3. CASE GoTo(o, "hook") /\ UNCHANGED <<promise, call>>
    BY <2>1, <2>3
  <2> QED
    BY ONLY <1>0, <2>1, <2>2, <2>3, SettleTypes DEF Fields
<1>12. ASSUME NEW o \in Objects, Failure(o) PROVE Fields'
  <2>1. CASE MkdirFails(o) \/ CloneFails(o) \/ CopyFails(o)
    <3>1. /\ Settle(o, "rejected") /\ Fault
          /\ UNCHANGED <<ensured, emitted, hooks>>
      BY ONLY <2>1 DEF MkdirFails, CloneFails, CopyFails
    <3> QED
      BY ONLY <1>0, <3>1, SettleTypes, FaultsAssumption DEF Fields, Fault
  <2>2. CASE HookFails(o)
    <3>1. hooks' \in [Objects -> Nat] /\ faults' \in 0 .. MaxFaults
      BY <2>2 DEF HookFails
    <3>2. Settle(o, "rejected") /\ UNCHANGED <<ensured, emitted>>
      BY ONLY <2>2 DEF HookFails
    <3> QED
      BY ONLY <1>0, <3>1, <3>2, SettleTypes DEF Fields
  <2>3. CASE Crash(o)
    BY <2>3 DEF Crash
  <2> QED
    BY <1>12, <2>1, <2>2, <2>3 DEF Failure
<1>13. CASE Clean
  BY <1>13 DEF Clean
<1>14. CASE UNCHANGED vars
  BY <1>14 DEF vars
<1> QED
  BY <1>1, <1>2, <1>3, <1>4, <1>5, <1>6, <1>7, <1>8, <1>9, <1>10, <1>11,
     <1>12, <1>13, <1>14 DEF Next, RunEnsure

\* Every step keeps the types.
LEMMA StepTypeOK == IInv /\ [Next]_vars => TypeOK'
BY StepRoot, StepFields DEF IInv, TypeOK, Directory, Fields

\* Every step keeps promise and attempt together, and nobody awaits a
\* promise that is gone.
LEMMA StepAwaited == IInv /\ [Next]_vars => AwaitedPassIsRunning'
<1> SUFFICES ASSUME IInv, [Next]_vars PROVE AwaitedPassIsRunning'
  OBVIOUS
<1> USE HomeAssumption
<1> USE DEF IInv, TypeOK, AwaitedPassIsRunning, GoTo, At, Settle, AfterClone
<1>1. ASSUME NEW c \in Callers, Ensure(c) PROVE AwaitedPassIsRunning'
  BY <1>1 DEF Ensure
<1>2. ASSUME NEW o \in Objects, Materialize(o) PROVE AwaitedPassIsRunning'
  BY <1>2 DEF Materialize
<1>3. ASSUME NEW o \in Objects, GitInitMkdir(o) PROVE AwaitedPassIsRunning'
  BY <1>3 DEF GitInitMkdir
<1>4. ASSUME NEW o \in Objects, GitClone(o) PROVE AwaitedPassIsRunning'
  BY <1>4 DEF GitClone
<1>5. ASSUME NEW o \in Objects, GitCloneRefused(o) PROVE AwaitedPassIsRunning'
  BY <1>5 DEF GitCloneRefused
<1>6. ASSUME NEW o \in Objects, GitCloned(o) PROVE AwaitedPassIsRunning'
  BY <1>6 DEF GitCloned
<1>7. ASSUME NEW o \in Objects, CopyFiles(o) PROVE AwaitedPassIsRunning'
  BY <1>7 DEF CopyFiles
<1>8. ASSUME NEW o \in Objects, FilesCopied(o) PROVE AwaitedPassIsRunning'
  BY <1>8 DEF FilesCopied
<1>9. ASSUME NEW o \in Objects, MarkEnsured(o) PROVE AwaitedPassIsRunning'
  BY <1>9 DEF MarkEnsured
<1>10. ASSUME NEW o \in Objects, HookEnsures(o) PROVE AwaitedPassIsRunning'
  BY <1>10 DEF HookEnsures
<1>11. ASSUME NEW o \in Objects, HookDone(o) PROVE AwaitedPassIsRunning'
  BY <1>11 DEF HookDone
<1>12. ASSUME NEW o \in Objects, Failure(o) PROVE AwaitedPassIsRunning'
  BY <1>12 DEF Failure, MkdirFails, CloneFails, CopyFails, HookFails, Crash
<1>13. CASE Clean
  BY <1>13 DEF Clean
<1>14. CASE UNCHANGED vars
  BY <1>14 DEF vars
<1> QED
  BY <1>1, <1>2, <1>3, <1>4, <1>5, <1>6, <1>7, <1>8, <1>9, <1>10, <1>11,
     <1>12, <1>13, <1>14 DEF Next, RunEnsure

\* Every step keeps the shape of the attempts.
LEMMA StepPassShape == IInv /\ [Next]_vars => PassShape'
<1> SUFFICES ASSUME IInv, [Next]_vars PROVE PassShape'
  OBVIOUS
<1> USE HomeAssumption, ConfigAssumption
<1> USE DEF IInv, TypeOK, AwaitedPassIsRunning, PassShape, GoTo, At, Settle,
        AfterClone, Fetching, Hooking
<1>1. ASSUME NEW c \in Callers, Ensure(c) PROVE PassShape'
  BY <1>1 DEF Ensure
<1>2. ASSUME NEW o \in Objects, Materialize(o) PROVE PassShape'
  BY <1>2 DEF Materialize
<1>3. ASSUME NEW o \in Objects, GitInitMkdir(o) PROVE PassShape'
  BY <1>3 DEF GitInitMkdir
<1>4. ASSUME NEW o \in Objects, GitClone(o) PROVE PassShape'
  BY <1>4 DEF GitClone
<1>5. ASSUME NEW o \in Objects, GitCloneRefused(o) PROVE PassShape'
  BY <1>5 DEF GitCloneRefused
<1>6. ASSUME NEW o \in Objects, GitCloned(o) PROVE PassShape'
  BY <1>6 DEF GitCloned
<1>7. ASSUME NEW o \in Objects, CopyFiles(o) PROVE PassShape'
  BY <1>7 DEF CopyFiles
<1>8. ASSUME NEW o \in Objects, FilesCopied(o) PROVE PassShape'
  BY <1>8 DEF FilesCopied
<1>9. ASSUME NEW o \in Objects, MarkEnsured(o) PROVE PassShape'
  BY <1>9 DEF MarkEnsured
<1>10. ASSUME NEW o \in Objects, HookEnsures(o) PROVE PassShape'
  BY <1>10 DEF HookEnsures
<1>11. ASSUME NEW o \in Objects, HookDone(o) PROVE PassShape'
  BY <1>11 DEF HookDone
<1>12. ASSUME NEW o \in Objects, Failure(o) PROVE PassShape'
  BY <1>12 DEF Failure, MkdirFails, CloneFails, CopyFails, HookFails, Crash
<1>13. CASE Clean
  BY <1>13 DEF Clean
<1>14. CASE UNCHANGED vars
  BY <1>14 DEF vars
<1> QED
  BY <1>1, <1>2, <1>3, <1>4, <1>5, <1>6, <1>7, <1>8, <1>9, <1>10, <1>11,
     <1>12, <1>13, <1>14 DEF Next, RunEnsure

\* The inductive invariant holds in every reachable state.
THEOREM Inductive == Spec => []IInv
<1>1. IInv /\ [Next]_vars => IInv'
  BY StepTypeOK, StepAwaited, StepPassShape DEF IInv
<1> QED
  BY InitIInv, <1>1, PTL DEF Spec

-----------------------------------------------------------------------------
\* The fields, the directory and the attempts keep their types.
THEOREM TypeCorrect == Spec => []TypeOK
<1>1. IInv => TypeOK
  BY DEF IInv
<1> QED
  BY Inductive, <1>1, PTL

\* Nobody awaits a promise that no attempt will settle (ensure(), runEnsure()).
THEOREM NobodyLeftBehind == Spec => []AwaitedPassIsRunning
<1>1. IInv => AwaitedPassIsRunning
  BY DEF IInv
<1> QED
  BY Inductive, <1>1, PTL

\* An install hook that uses its own service never waits for the attempt
\* that is running it.
THEOREM NoSelfWait == Spec => []HookNeverAwaitsItself
<1>1. IInv => HookNeverAwaitsItself
  BY DEF IInv, PassShape, HookNeverAwaitsItself, Fetching, Hooking
<1> QED
  BY Inductive, <1>1, PTL

-----------------------------------------------------------------------------
\* Once ensured, an object does not clone or copy again in the life of its
\* process, whatever its hook or the directory went through.
THEOREM NoRefetch == Spec => EnsuredNeverRefetches
<1>1. IInv /\ [Next]_vars =>
        [\A o \in Objects :
            ensured[o] => step'[o] \notin {"access", "mkdir", "clone", "cloning",
                                           "copy", "copying"}]_vars
  <2> SUFFICES ASSUME IInv, Next, NEW o \in Objects, ensured[o]
               PROVE  step'[o] \notin {"access", "mkdir", "clone", "cloning",
                                       "copy", "copying"}
    OBVIOUS
  <2>0. step \in [Objects -> Steps] /\ step[o] \in {"idle"} \cup Hooking
    BY DEF IInv, TypeOK, PassShape, Fetching
  <2> USE <2>0 DEF GoTo, Settle, At, Hooking
  <2>1. ASSUME NEW c \in Callers, Ensure(c)
        PROVE  step'[o] = step[o]
    BY <2>1, HomeAssumption DEF Ensure
  <2>2. ASSUME NEW q \in Objects, RunEnsure(q), q # o PROVE step'[o] = step[o]
    BY <2>2 DEF RunEnsure, Materialize, GitInitMkdir, GitClone,
       GitCloneRefused, GitCloned, CopyFiles, FilesCopied, MarkEnsured,
       HookEnsures, HookDone
  <2>3. CASE RunEnsure(o)
    BY <2>3 DEF RunEnsure, Materialize, GitInitMkdir, GitClone,
       GitCloneRefused, GitCloned, CopyFiles, FilesCopied, MarkEnsured,
       HookEnsures, HookDone
  <2>4. ASSUME NEW q \in Objects, Failure(q) PROVE step'[o] \in {step[o], "idle"}
    BY <2>4 DEF Failure, MkdirFails, CloneFails, CopyFails, HookFails, Crash
  <2>5. CASE Clean
    BY <2>5 DEF Clean
  <2> QED
    BY <2>1, <2>2, <2>3, <2>4, <2>5 DEF Next
<1> QED
  BY Inductive, <1>1, PTL DEF Spec, EnsuredNeverRefetches

-----------------------------------------------------------------------------
(***************************************************************************)
(* An object that does, or has done, anything has been called.             *)
(***************************************************************************)
Owned == \A o \in Objects :
            step[o] # "idle" \/ ensured[o] => \E c \in Callers : Home[c] = o /\ call[c] # "idle"

(***************************************************************************)
(* How far the directory has come with the only object that uses it, as    *)
(* long as nothing has failed.                                             *)
(***************************************************************************)
Fetched == HasRepository => root.exists /\ root.repository = "whole"

Stage(o) ==
    /\ step[o] = "idle" /\ ~ensured[o] => root = Absent
    /\ step[o] = "access" => root = Absent
    /\ step[o] = "mkdir" => root = Absent /\ HasRepository
    /\ step[o] = "clone" => Empty /\ HasRepository
    /\ step[o] = "cloning" => /\ HasRepository /\ root.exists
                              /\ root.repository = "partial" /\ root.workspace = "none"
    /\ step[o] = "copy" => HasWorkspace /\ Fetched
    /\ step[o] = "copying" => HasWorkspace /\ Fetched /\ root.exists /\ root.workspace = "partial"
    /\ step[o] = "ready" \/ ensured[o] => Whole

Progress == faults = 0 => /\ \A o \in Objects : Alone(o) => Stage(o)
                          /\ \A c \in Callers : call[c] = "returned" => ensured[Home[c]]

(***************************************************************************)
(* The install hook is queued while the tree has not been through it: it   *)
(* is queued for a directory that is missing, and a queue that is kept     *)
(* through failures is emptied before the hook runs.                       *)
(***************************************************************************)
Queued ==
    /\ ~root.exists => ~root.installed
    /\ \A o \in Objects : /\ ensured[o] => emitted[o] = 0
                          /\ Alone(o) /\ emitted[o] > 0 => ~root.installed

(***************************************************************************)
(* An attempt is on its way while nothing is in the way of its success but *)
(* a failure that has yet to happen.                                       *)
(***************************************************************************)
Bare == root.repository = "none" /\ root.workspace = "none"

OnItsWay(o) ==
    /\ step[o] \in {"mkdir", "clone", "cloning", "copy", "copying", "ready"}
    /\ step[o] = "mkdir" => Bare
    /\ step[o] = "clone" => Empty
    /\ step[o] = "cloning" => root.repository = "partial"
    /\ step[o] = "copying" => root.workspace # "none"

(***************************************************************************)
(* Every install hook that is queued or still to run was left by a failure,*)
(* except the one of the attempt on its way.                               *)
(***************************************************************************)
Counted ==
    /\ ~root.exists => Bare
    /\ \A o \in Objects :
          Alone(o) => /\ emitted[o] <= faults + 1
                      /\ ~OnItsWay(o) => emitted[o] <= faults
                      /\ step[o] = "mkdir" => Bare
                      /\ hooks[o] <= faults + 1

\* A caller that has called stays one that has.
LEMMA CallersStay ==
  ASSUME IInv, [Next]_vars, NEW c \in Callers, call[c] # "idle"
  PROVE  call'[c] # "idle"
<1>0. call \in [Callers -> {"idle", "awaiting", "returned", "rejected", "killed"}]
  BY DEF IInv, TypeOK
<1>1. ASSUME NEW d \in Callers, Ensure(d) PROVE call'[c] # "idle"
  BY <1>0, <1>1 DEF Ensure
<1>2. ASSUME NEW o \in Objects, RunEnsure(o) \/ Failure(o) PROVE call'[c] # "idle"
  <2>1. \/ UNCHANGED call
        \/ \E outcome \in {"returned", "rejected"} : Settle(o, outcome)
        \/ Crash(o)
    BY <1>2 DEF RunEnsure, Failure, Materialize, GitInitMkdir, GitClone, GitCloneRefused, GitCloned,
       CopyFiles, FilesCopied, MarkEnsured, HookEnsures, HookDone, MkdirFails, CloneFails, CopyFails,
       HookFails
  <2> QED
    BY <1>0, <2>1 DEF Settle, Crash
<1>3. CASE Clean \/ UNCHANGED vars
  BY <1>3 DEF Clean, vars
<1> QED
  BY <1>1, <1>2, <1>3 DEF Next

\* Who has the directory to itself had it before.
LEMMA AloneBefore ==
  ASSUME IInv, [Next]_vars, NEW o \in Objects, Alone(o)'
  PROVE  Alone(o)
BY CallersStay DEF Alone

\* The other objects are at rest then.
LEMMA OthersRest ==
  ASSUME Owned, NEW o \in Objects, Alone(o), NEW q \in Objects, q # o
  PROVE  step[q] = "idle" /\ ~ensured[q]
BY DEF Owned, Alone

\* What an attempt or a failure of o leaves alone.
LEMMA OwnFields ==
  ASSUME IInv, NEW o \in Objects, RunEnsure(o) \/ Failure(o), NEW q \in Objects, q # o
  PROVE  /\ step'[q] = step[q] /\ ensured'[q] = ensured[q] /\ emitted'[q] = emitted[q]
         /\ \A c \in Callers : Home[c] = q => call'[c] = call[c]
<1>0. /\ step \in [Objects -> Steps] /\ ensured \in [Objects -> BOOLEAN]
      /\ emitted \in [Objects -> Nat]
      /\ call \in [Callers -> {"idle", "awaiting", "returned", "rejected", "killed"}]
  BY DEF IInv, TypeOK
<1>1. /\ step'[q] = step[q]
  BY <1>0 DEF RunEnsure, Failure, Materialize, GitInitMkdir, GitClone, GitCloneRefused, GitCloned,
     CopyFiles, FilesCopied, MarkEnsured, HookEnsures, HookDone, MkdirFails, CloneFails, CopyFails,
     HookFails, Crash, GoTo, Settle
<1>2. ensured'[q] = ensured[q] /\ emitted'[q] = emitted[q]
  BY <1>0 DEF RunEnsure, Failure, Materialize, GitInitMkdir, GitClone, GitCloneRefused, GitCloned,
     CopyFiles, FilesCopied, MarkEnsured, HookEnsures, HookDone, MkdirFails, CloneFails, CopyFails,
     HookFails, Crash
<1>3. ASSUME NEW c \in Callers, Home[c] = q PROVE call'[c] = call[c]
  <2>1. \/ UNCHANGED call
        \/ \E outcome \in {"returned", "rejected"} : Settle(o, outcome)
        \/ Crash(o)
    BY DEF RunEnsure, Failure, Materialize, GitInitMkdir, GitClone, GitCloneRefused, GitCloned,
       CopyFiles, FilesCopied, MarkEnsured, HookEnsures, HookDone, MkdirFails, CloneFails, CopyFails,
       HookFails
  <2> QED
    BY <1>0, <1>3, <2>1 DEF Settle, Crash
<1> QED
  BY <1>1, <1>2, <1>3

\* Whoever starts an attempt stays the caller of its object.
LEMMA StepOwned == IInv /\ Owned /\ [Next]_vars => Owned'
<1> SUFFICES ASSUME IInv, Owned, [Next]_vars, NEW q \in Objects, step'[q] # "idle" \/ ensured'[q]
             PROVE  \E c \in Callers : Home[c] = q /\ call'[c] # "idle"
  BY DEF Owned
<1>0. /\ step \in [Objects -> Steps] /\ ensured \in [Objects -> BOOLEAN]
      /\ call \in [Callers -> {"idle", "awaiting", "returned", "rejected", "killed"}]
  BY DEF IInv, TypeOK
<1>1. CASE step[q] # "idle" \/ ensured[q]
  BY <1>1, CallersStay DEF Owned
<1>2. CASE step[q] = "idle" /\ ~ensured[q]
  <2>1. ASSUME NEW c \in Callers, Ensure(c)
        PROVE  Home[c] = q /\ call'[c] # "idle"
    BY <1>0, <1>2, <2>1, HomeAssumption DEF Ensure, GoTo
  <2>2. ASSUME NEW o \in Objects, RunEnsure(o) \/ Failure(o) PROVE o # q
    <3>1. ~RunEnsure(q)
      BY <1>2 DEF RunEnsure, At, Materialize, GitInitMkdir, GitClone, GitCloneRefused, GitCloned,
         CopyFiles, FilesCopied, MarkEnsured, HookEnsures, HookDone
    <3>2. ~Failure(q)
      BY <1>0, <1>2 DEF Failure, At, MkdirFails, CloneFails, CopyFails, HookFails, Crash, GoTo
    <3> QED
      BY <2>2, <3>1, <3>2
  <2>3. ASSUME NEW o \in Objects, RunEnsure(o) \/ Failure(o) PROVE FALSE
    BY <1>2, <2>2, <2>3, OwnFields
  <2>4. ~Clean /\ ~UNCHANGED vars
    BY <1>2 DEF Clean, vars
  <2> QED
    BY <2>1, <2>3, <2>4 DEF Next
<1> QED
  BY <1>0, <1>1, <1>2

\* Every step keeps the stages.
LEMMA StepProgress ==
  ASSUME HasRepository \/ HasWorkspace, IInv, Owned, Progress, [Next]_vars
  PROVE  Progress'
<1> SUFFICES ASSUME faults' = 0 PROVE Progress'
  BY DEF Progress
<1>0. /\ step \in [Objects -> Steps] /\ ensured \in [Objects -> BOOLEAN] /\ faults \in Nat
      /\ hooks \in [Objects -> Nat] /\ emitted \in [Objects -> Nat]
      /\ root \in [exists : BOOLEAN, repository : Contents, workspace : Contents,
                   installed : BOOLEAN]
      /\ call \in [Callers -> {"idle", "awaiting", "returned", "rejected", "killed"}]
      /\ PassShape
  BY FaultsAssumption DEF IInv, TypeOK
<1>1. /\ faults = 0 /\ ~Fault /\ ~Clean /\ \A o \in Objects : ~Failure(o)
  <2>1. \A o \in Objects : ~Failure(o) \/ Fault
    BY DEF Failure, MkdirFails, CloneFails, CopyFails, HookFails, Crash
  <2>2. ~Fault
    BY <1>0 DEF Fault
  <2>3. ~Clean
    BY <2>2 DEF Clean
  <2>4. ASSUME NEW o \in Objects, RunEnsure(o) PROVE faults' = faults
    BY <2>4 DEF RunEnsure, Materialize, GitInitMkdir, GitClone, GitCloneRefused, GitCloned,
       CopyFiles, FilesCopied, MarkEnsured, HookEnsures, HookDone
  <2>5. ASSUME NEW c \in Callers, Ensure(c) PROVE faults' = faults
    BY <2>5 DEF Ensure
  <2> QED
    BY <2>1, <2>2, <2>3, <2>4, <2>5 DEF Next, vars
<1>2. ASSUME NEW o \in Objects, Alone(o)' PROVE Stage(o)'
  <2>1. Alone(o) /\ Stage(o)
    BY <1>1, <1>2, AloneBefore DEF Progress
  <2>2. ASSUME NEW c \in Callers, Ensure(c) PROVE Stage(o)'
    <3>1. Home[c] = o
      BY <1>0, <1>2, <2>2 DEF Ensure, Alone
    <3>2. /\ UNCHANGED <<root, ensured>>
          /\ step' = step \/ (step[o] = "idle" /\ ~ensured[o] /\ step'[o] = "access")
      BY <1>0, <2>2, <3>1 DEF Ensure, GoTo, IInv, AwaitedPassIsRunning
    <3> QED
      BY <2>1, <3>2 DEF Stage, Whole, Empty, Fetched
  <2>3. ASSUME RunEnsure(o) PROVE Stage(o)'
    <3> USE <1>0, <2>1, ConfigAssumption DEF Stage, At, GoTo, Whole, Empty, Fetched, Absent,
            PassShape, Fetching, Hooking, Settle, AfterClone, Contents
    <3>1. CASE Materialize(o)
      <4>1. root = Absent /\ ~ensured[o] /\ UNCHANGED <<root, ensured>>
        BY <3>1 DEF Materialize
      <4>2. step'[o] = IF HasRepository THEN "mkdir" ELSE AfterClone
        BY <3>1, <4>1 DEF Materialize
      <4>3. CASE HasRepository
        BY <4>1, <4>2, <4>3
      <4>4. CASE ~HasRepository
        BY <4>1, <4>2, <4>4
      <4> QED
        BY <4>3, <4>4
    <3>2. CASE GitInitMkdir(o)
      BY <3>2 DEF GitInitMkdir
    <3>3. CASE GitClone(o)
      BY <3>3 DEF GitClone
    <3>4. CASE GitCloneRefused(o)
      BY <3>4 DEF GitCloneRefused
    <3>5. CASE GitCloned(o)
      BY <3>5 DEF GitCloned
    <3>6. CASE CopyFiles(o)
      BY <3>6 DEF CopyFiles
    <3>7. CASE FilesCopied(o)
      BY <3>7 DEF FilesCopied
    <3>8. CASE MarkEnsured(o)
      BY <3>8 DEF MarkEnsured
    <3>9. CASE HookEnsures(o)
      BY <3>9 DEF HookEnsures
    <3>10. CASE HookDone(o)
      BY <3>10 DEF HookDone
    <3> QED
      BY <2>3, <3>1, <3>2, <3>3, <3>4, <3>5, <3>6, <3>7, <3>8, <3>9, <3>10 DEF RunEnsure
  <2>4. ASSUME NEW q \in Objects, q # o PROVE ~RunEnsure(q)
    <3>1. step[q] = "idle"
      BY <2>1, <2>4, OthersRest
    <3> QED
      BY <3>1 DEF RunEnsure, At, Materialize, GitInitMkdir, GitClone, GitCloneRefused, GitCloned,
         CopyFiles, FilesCopied, MarkEnsured, HookEnsures, HookDone
  <2>5. CASE UNCHANGED vars
    BY <2>1, <2>5 DEF vars, Stage, Whole, Empty, Fetched
  <2> QED
    BY <1>1, <2>2, <2>3, <2>4, <2>5 DEF Next
<1>3. ASSUME NEW c \in Callers, call'[c] = "returned" PROVE ensured'[Home[c]]
  <2>0. Home[c] \in Objects
    BY HomeAssumption
  <2>1. ASSUME NEW d \in Callers, Ensure(d) PROVE ensured'[Home[c]]
    BY <1>0, <1>1, <1>3, <2>1 DEF Ensure, Progress
  <2>2. ASSUME NEW o \in Objects, RunEnsure(o) PROVE ensured'[Home[c]]
    <3>1. CASE call'[c] = call[c]
      <4>1. ensured[Home[c]]
        BY <1>1, <1>3, <3>1 DEF Progress
      <4> QED
        BY <1>0, <2>0, <2>2, <4>1 DEF RunEnsure, Materialize, GitInitMkdir, GitClone, GitCloneRefused,
           GitCloned, CopyFiles, FilesCopied, MarkEnsured, HookEnsures, HookDone
    <3>2. CASE call'[c] # call[c]
      <4>1. Home[c] = o /\ (MarkEnsured(o) \/ HookDone(o))
        BY <1>0, <1>3, <2>2, <3>2 DEF RunEnsure, Materialize, GitInitMkdir, GitClone, GitCloneRefused,
           GitCloned, CopyFiles, FilesCopied, MarkEnsured, HookEnsures, HookDone, Settle
      <4> QED
        BY <1>0, <4>1 DEF MarkEnsured, HookDone, PassShape, At, Hooking
    <3> QED
      BY <3>1, <3>2
  <2>3. CASE UNCHANGED vars
    BY <1>1, <1>3, <2>3 DEF vars, Progress
  <2> QED
    BY <1>1, <2>1, <2>2, <2>3 DEF Next
<1> QED
  BY <1>2, <1>3 DEF Progress

\* Every step keeps the queue ahead of the installation.
LEMMA StepQueued == IInv /\ Owned /\ Queued /\ [Next]_vars => Queued'
<1> SUFFICES ASSUME IInv, Owned, Queued, [Next]_vars PROVE Queued'
  OBVIOUS
<1>0. /\ step \in [Objects -> Steps] /\ ensured \in [Objects -> BOOLEAN]
      /\ hooks \in [Objects -> Nat] /\ emitted \in [Objects -> Nat]
      /\ root \in [exists : BOOLEAN, repository : Contents, workspace : Contents,
                   installed : BOOLEAN]
      /\ PassShape
  BY DEF IInv, TypeOK
<1>1. /\ root'.installed => root.installed \/ \E o \in Objects : HookDone(o)
      /\ ~root'.exists => ~root'.installed
  <2>1. ASSUME NEW o \in Objects, RunEnsure(o)
        PROVE  /\ root'.installed => root.installed \/ HookDone(o)
               /\ ~root'.exists => ~root'.installed
    <3>1. CASE GitInitMkdir(o)
      BY <1>0, <3>1 DEF GitInitMkdir
    <3>2. CASE GitClone(o)
      BY <1>0, <3>2 DEF GitClone, Empty
    <3>3. CASE GitCloned(o)
      BY <1>0, <3>3 DEF GitCloned, Queued
    <3>4. CASE CopyFiles(o)
      BY <1>0, <3>4 DEF CopyFiles
    <3>5. CASE FilesCopied(o)
      BY <1>0, <3>5 DEF FilesCopied, Queued
    <3>6. CASE HookDone(o)
      BY <1>0, <3>6 DEF HookDone, Queued
    <3>7. CASE UNCHANGED root
      BY <3>7 DEF Queued
    <3> QED
      BY <2>1, <3>1, <3>2, <3>3, <3>4, <3>5, <3>6, <3>7 DEF RunEnsure, Materialize, GitCloneRefused,
         MarkEnsured, HookEnsures
  <2>2. ASSUME NEW o \in Objects, Failure(o)
        PROVE  /\ root'.installed => root.installed
               /\ ~root'.exists => ~root'.installed
    BY <1>0, <2>2 DEF Failure, MkdirFails, CloneFails, CopyFails, HookFails, Crash, Queued
  <2>3. CASE Clean
    BY <2>3 DEF Clean, Absent
  <2>4. CASE UNCHANGED root
    BY <2>4 DEF Queued
  <2> QED
    BY <2>1, <2>2, <2>3, <2>4 DEF Next, Ensure, vars
<1>2. ASSUME NEW o \in Objects, ensured'[o] PROVE emitted'[o] = 0
  <2>1. CASE RunEnsure(o)
    BY <1>0, <1>2, <2>1 DEF RunEnsure, Materialize, GitInitMkdir, GitClone, GitCloneRefused,
       GitCloned, CopyFiles, FilesCopied, MarkEnsured, HookEnsures, HookDone, Queued, PassShape, At,
       Fetching
  <2>2. CASE Failure(o)
    BY <1>0, <1>2, <2>2 DEF Failure, MkdirFails, CloneFails, CopyFails, HookFails, Crash, Queued
  <2>3. CASE ensured'[o] = ensured[o] /\ emitted'[o] = emitted[o]
    BY <1>2, <2>3 DEF Queued
  <2>4. ASSUME NEW q \in Objects, q # o, RunEnsure(q) \/ Failure(q)
        PROVE  ensured'[o] = ensured[o] /\ emitted'[o] = emitted[o]
    BY <2>4, OwnFields
  <2>5. ASSUME (\E c \in Callers : Ensure(c)) \/ Clean \/ UNCHANGED vars
        PROVE  ensured'[o] = ensured[o] /\ emitted'[o] = emitted[o]
    BY <2>5 DEF Ensure, Clean, vars
  <2> QED
    BY <2>1, <2>2, <2>3, <2>4, <2>5 DEF Next
<1>3. ASSUME NEW o \in Objects, Alone(o)', emitted'[o] > 0 PROVE ~root'.installed
  <2>1. Alone(o)
    BY <1>3, AloneBefore
  <2>2. emitted[o] > 0 => ~root.installed
    BY <2>1 DEF Queued
  <2>3. ASSUME NEW q \in Objects, HookDone(q) PROVE FALSE
    <3>1. step[q] = "hooked"
      BY <2>3 DEF HookDone, At
    <3>2. q = o
      BY <2>1, <3>1, OthersRest
    <3>3. emitted[o] = 0 /\ emitted' = emitted
      BY <1>0, <2>3, <3>1, <3>2 DEF PassShape, Hooking, Queued, HookDone
    <3> QED
      BY <1>3, <3>3
  <2>4. CASE emitted[o] > 0
    BY <1>1, <2>2, <2>3, <2>4
  <2>5. CASE ~(emitted[o] > 0)
    <3>1. Materialize(o) /\ ~root.exists
      <4>1. CASE RunEnsure(o)
        BY <1>0, <1>3, <2>5, <4>1 DEF RunEnsure, Materialize, GitInitMkdir, GitClone, GitCloneRefused,
           GitCloned, CopyFiles, FilesCopied, MarkEnsured, HookEnsures, HookDone
      <4>2. CASE Failure(o)
        BY <1>0, <1>3, <2>5, <4>2 DEF Failure, MkdirFails, CloneFails, CopyFails, HookFails, Crash
      <4>3. ASSUME NEW q \in Objects, q # o, RunEnsure(q) \/ Failure(q)
            PROVE  emitted'[o] = emitted[o]
        BY <4>3, OwnFields
      <4>4. ASSUME (\E c \in Callers : Ensure(c)) \/ Clean \/ UNCHANGED vars
            PROVE  emitted'[o] = emitted[o]
        BY <4>4 DEF Ensure, Clean, vars
      <4> QED
        BY <1>3, <2>5, <4>1, <4>2, <4>3, <4>4 DEF Next
    <3> QED
      BY <3>1 DEF Materialize, Queued
  <2> QED
    BY <2>4, <2>5
<1> QED
  BY <1>1, <1>2, <1>3 DEF Queued

\* Every step keeps the queue within what has failed.
LEMMA StepCounted == IInv /\ Owned /\ Counted /\ [Next]_vars => Counted'
<1> SUFFICES ASSUME IInv, Owned, Counted, [Next]_vars PROVE Counted'
  OBVIOUS
<1>0. /\ step \in [Objects -> Steps] /\ faults \in Nat
      /\ hooks \in [Objects -> Nat] /\ emitted \in [Objects -> Nat]
      /\ root \in Directory
  BY FaultsAssumption DEF IInv, TypeOK, Directory
<1>1. ~root'.exists => Bare'
  <2>1. ASSUME NEW o \in Objects, RunEnsure(o) PROVE ~root'.exists => Bare'
    <3>1. CASE GitInitMkdir(o)
      BY <1>0, <3>1 DEF GitInitMkdir, Directory
    <3>2. CASE GitClone(o)
      BY <1>0, <3>2 DEF GitClone, Empty, Directory
    <3>3. CASE GitCloned(o)
      BY <1>0, <3>3 DEF GitCloned, Counted, Bare, Directory
    <3>4. CASE CopyFiles(o)
      BY <1>0, <3>4 DEF CopyFiles, Directory
    <3>5. CASE FilesCopied(o)
      BY <1>0, <3>5 DEF FilesCopied, Counted, Bare, Directory
    <3>6. CASE HookDone(o)
      BY <1>0, <3>6 DEF HookDone, Counted, Bare, Directory
    <3>7. CASE UNCHANGED root
      BY <3>7 DEF Counted, Bare
    <3> QED
      BY <2>1, <3>1, <3>2, <3>3, <3>4, <3>5, <3>6, <3>7 DEF RunEnsure, Materialize, GitCloneRefused,
         MarkEnsured, HookEnsures
  <2>2. ASSUME NEW o \in Objects, Failure(o) PROVE ~root'.exists => Bare'
    BY <1>0, <2>2 DEF Failure, MkdirFails, CloneFails, CopyFails, HookFails, Crash, Counted, Bare,
       Directory
  <2>3. CASE Clean
    BY <2>3 DEF Clean, Absent, Bare
  <2>4. CASE UNCHANGED root
    BY <2>4 DEF Counted, Bare
  <2> QED
    BY <2>1, <2>2, <2>3, <2>4 DEF Next, Ensure, vars
<1>2. ASSUME NEW o \in Objects, Alone(o)'
      PROVE  /\ emitted'[o] <= faults' + 1
             /\ ~OnItsWay(o)' => emitted'[o] <= faults'
             /\ step'[o] = "mkdir" => Bare'
             /\ hooks'[o] <= faults' + 1
  <2> DEFINE Within == /\ emitted[o] <= faults + 1
                       /\ ~OnItsWay(o) => emitted[o] <= faults
                       /\ step[o] = "mkdir" => Bare
                       /\ hooks[o] <= faults + 1
  <2> SUFFICES Within'
    OBVIOUS
  <2>1. Alone(o)
    BY <1>2, AloneBefore
  <2>2. /\ emitted[o] <= faults + 1
        /\ ~OnItsWay(o) => emitted[o] <= faults
        /\ step[o] = "mkdir" => Bare
        /\ hooks[o] <= faults + 1
    BY <2>1 DEF Counted
  <2>3. ASSUME NEW c \in Callers, Ensure(c) PROVE Within'
    <3>1. /\ UNCHANGED <<root, emitted, hooks, faults>>
          /\ step'[o] \in {step[o], "access"}
          /\ step'[o] # step[o] => ~promise[o]
      BY <1>0, <2>3 DEF Ensure, GoTo
    <3>2. step'[o] # step[o] => step[o] = "idle"
      BY <3>1 DEF IInv, AwaitedPassIsRunning
    <3> QED
      BY <1>0, <2>2, <3>1, <3>2 DEF OnItsWay, Bare, Empty
  <2>4. CASE Materialize(o)
    BY <1>0, <2>2, <2>4 DEF Materialize, OnItsWay, Counted, Bare, Empty, GoTo, At, AfterClone
  <2>5. CASE GitInitMkdir(o)
    BY <1>0, <2>2, <2>5 DEF GitInitMkdir, OnItsWay, Bare, Empty, GoTo, At, Directory
  <2>6. CASE GitClone(o)
    BY <1>0, <2>2, <2>6 DEF GitClone, OnItsWay, GoTo, At, Directory
  <2>7. CASE GitCloneRefused(o)
    BY <1>0, <2>2, <2>7 DEF GitCloneRefused, OnItsWay, Settle, GoTo, At
  <2>8. CASE GitCloned(o)
    BY <1>0, <2>2, <2>8 DEF GitCloned, OnItsWay, Settle, GoTo, At, AfterClone
  <2>9. CASE CopyFiles(o)
    BY <1>0, <2>2, <2>9 DEF CopyFiles, OnItsWay, GoTo, At, Directory
  <2>10. CASE FilesCopied(o)
    BY <1>0, <2>2, <2>10 DEF FilesCopied, OnItsWay, Settle, GoTo, At
  <2>11. CASE MarkEnsured(o)
    BY <1>0, <2>2, <2>11 DEF MarkEnsured, OnItsWay, Settle, GoTo, At
  <2>12. CASE HookEnsures(o)
    BY <1>0, <2>2, <2>12 DEF HookEnsures, OnItsWay, GoTo, At
  <2>13. CASE HookDone(o)
    BY <1>0, <2>2, <2>13 DEF HookDone, OnItsWay, Settle, GoTo, At
  <2>14. ASSUME Failure(o) PROVE Within'
    <3>1. faults' = faults + 1
      BY <2>14 DEF Failure, MkdirFails, CloneFails, CopyFails, HookFails, Crash, Fault
    <3>2. emitted'[o] <= emitted[o] /\ hooks'[o] <= hooks[o] /\ step'[o] = "idle"
      BY <1>0, <2>14 DEF Failure, MkdirFails, CloneFails, CopyFails, HookFails, Crash, Settle, GoTo
    <3>3. emitted'[o] \in Nat /\ hooks'[o] \in Nat
      BY <1>0, <2>14 DEF Failure, MkdirFails, CloneFails, CopyFails, HookFails, Crash
    <3> QED
      BY <1>0, <2>2, <3>1, <3>2, <3>3
  <2>15. ASSUME NEW q \in Objects, q # o, RunEnsure(q) \/ Failure(q) PROVE Within'
    <3>1. step[q] = "idle"
      BY <2>1, <2>15, OthersRest
    <3>2. Crash(q)
      BY <2>15, <3>1 DEF RunEnsure, Failure, At, Materialize, GitInitMkdir, GitClone,
         GitCloneRefused, GitCloned, CopyFiles, FilesCopied, MarkEnsured, HookEnsures, HookDone,
         MkdirFails, CloneFails, CopyFails, HookFails
    <3>3. /\ emitted'[o] = emitted[o] /\ hooks'[o] = hooks[o] /\ step'[o] = step[o]
          /\ root' = root /\ faults' = faults + 1
      BY <1>0, <2>15, <3>2 DEF Crash, Fault, GoTo
    <3> QED
      BY <1>0, <2>2, <3>3 DEF OnItsWay, Bare, Empty
  <2>16. CASE Clean
    <3>1. /\ UNCHANGED <<emitted, hooks, step>> /\ faults' = faults + 1 /\ Bare'
      BY <2>16 DEF Clean, Fault, Absent, Bare
    <3> QED
      BY <1>0, <2>2, <3>1
  <2>17. CASE UNCHANGED vars
    BY <2>2, <2>17 DEF vars, OnItsWay, Bare, Empty
  <2> QED
    BY <2>3, <2>4, <2>5, <2>6, <2>7, <2>8, <2>9, <2>10, <2>11, <2>12, <2>13, <2>14, <2>15, <2>16,
       <2>17 DEF Next, RunEnsure
<1> QED
  BY <1>1, <1>2 DEF Counted

\* They hold in every reachable state ...
LEMMA UsedInOrder == Spec => []Owned /\ []Queued
<1>1. Init => Owned /\ Queued
  BY DEF Init, Owned, Queued, Absent
<1>2. IInv /\ Owned /\ Queued /\ [Next]_vars => Owned' /\ Queued'
  BY StepOwned, StepQueued
<1> QED
  BY Inductive, <1>1, <1>2, PTL DEF Spec

\* ... as does the count of what failures left in the queue ...
LEMMA QueueCounted == Spec => []Counted
<1>1. Init => Counted
  BY FaultsAssumption DEF Init, Counted, OnItsWay, Absent, Bare
<1> QED
  BY Inductive, UsedInOrder, StepCounted, <1>1, PTL DEF Spec

\* ... and so do the stages, of a service that is made of something.
LEMMA FetchedInStages ==
  ASSUME HasRepository \/ HasWorkspace
  PROVE  Spec => []Progress
<1>1. Init => Progress
  BY HomeAssumption DEF Init, Progress, Stage
<1>2. IInv /\ Owned /\ Progress /\ [Next]_vars => Progress'
  BY StepProgress
<1> QED
  BY Inductive, UsedInOrder, <1>1, <1>2, PTL DEF Spec

(***************************************************************************)
(* A call that returns, with nothing failed and nobody else at work on the *)
(* directory, leaves its caller with the whole working copy.  A service    *)
(* that is made of nothing has no directory to be whole: each one in       *)
(* packages/services/src/embedded has a repository or a workspace.         *)
(***************************************************************************)
THEOREM WholeWhenReturned ==
  ASSUME HasRepository \/ HasWorkspace
  PROVE  Spec => []ReturnedMeansWhole
<1>1. Progress => ReturnedMeansWhole
  BY HomeAssumption DEF Progress, Stage, ReturnedMeansWhole
<1> QED
  BY FetchedInStages, <1>1, PTL

(***************************************************************************)
(* The hook runs over a tree that has been through it only for commands    *)
(* that failed attempts left behind: the queue is ahead of the             *)
(* installation when an attempt takes it, and as many commands as it holds *)
(* beyond the first, as many failures there were.                          *)
(***************************************************************************)
THEOREM HookAgainForFailures == Spec => HookAgainOnlyForFailures
<1>1. IInv /\ Queued /\ Counted /\ [Next]_vars =>
        [\A o \in Objects :
            Alone(o) /\ StartsHook(o) /\ root'.installed
               => step[o] = "hooked" /\ hooks'[o] <= faults]_vars
  <2> SUFFICES ASSUME IInv, Queued, Counted, Next, NEW o \in Objects, Alone(o),
                      StartsHook(o), root'.installed
               PROVE  step[o] = "hooked" /\ hooks'[o] <= faults
    OBVIOUS
  <2>0. /\ step \in [Objects -> Steps] /\ emitted \in [Objects -> Nat]
        /\ hooks \in [Objects -> Nat] /\ faults \in Nat
    BY FaultsAssumption DEF IInv, TypeOK
  <2>1. step'[o] = "hook" /\ step[o] \in {"ready", "hooked"}
    BY DEF StartsHook
  <2>2. MarkEnsured(o) \/ HookDone(o)
    <3>1. ASSUME NEW q \in Objects, q # o, RunEnsure(q) \/ Failure(q) PROVE FALSE
      BY <2>1, <3>1, OwnFields
    <3>2. ~Failure(o)
      BY <2>0, <2>1 DEF Failure, MkdirFails, CloneFails, CopyFails, HookFails, Crash, At, GoTo,
         Settle
    <3>3. ~Clean
      BY <2>1 DEF Clean
    <3>4. ASSUME NEW c \in Callers, Ensure(c) PROVE FALSE
      BY <2>0, <2>1, <3>4 DEF Ensure, GoTo
    <3>5. CASE RunEnsure(o)
      BY <2>0, <2>1, <3>5 DEF RunEnsure, Materialize, GitInitMkdir, GitClone, GitCloneRefused,
         GitCloned, CopyFiles, FilesCopied, HookEnsures, At, GoTo, Settle
    <3> QED
      BY <3>1, <3>2, <3>3, <3>4, <3>5 DEF Next
  <2>3. ~MarkEnsured(o)
    <3> SUFFICES ASSUME MarkEnsured(o) PROVE FALSE
      OBVIOUS
    <3>1. emitted[o] # 0 /\ root' = root
      BY <2>0, <2>1 DEF MarkEnsured, GoTo, Settle
    <3> QED
      BY <2>0, <3>1 DEF Queued
  <2>4. step[o] = "hooked" /\ hooks'[o] = hooks[o] - 1
    <3>1. root.exists
      BY <2>0, <2>1, <2>2, <2>3 DEF HookDone, GoTo, Settle
    <3> QED
      BY <2>0, <2>2, <2>3, <3>1 DEF HookDone, At
  <2>5. hooks[o] <= faults + 1
    BY DEF Counted
  <2> QED
    BY <2>0, <2>4, <2>5
<1> QED
  BY Inductive, UsedInOrder, QueueCounted, <1>1, PTL DEF Spec, HookAgainOnlyForFailures

-----------------------------------------------------------------------------
\* The initial states are initial states of OnceInit.
LEMMA InitRefines == Init => Once!Init
BY DEF Init, Once!Init, phase

\* Every step of ServiceArtifact is a step of OnceInit or leaves it alone.
LEMMA StepRefines == IInv /\ [Next]_vars => [Once!Next]_Once!vars
<1> SUFFICES ASSUME IInv, [Next]_vars PROVE [Once!Next]_Once!vars
  OBVIOUS
<1>0. /\ ensured \in [Objects -> BOOLEAN]
      /\ promise \in [Objects -> BOOLEAN]
  BY DEF IInv, TypeOK
<1>f. ASSUME NEW o \in Objects, step[o] \in Fetching
      PROVE  ~ensured[o] /\ promise[o]
  BY <1>f DEF IInv, AwaitedPassIsRunning, PassShape, Fetching
<1>h. ASSUME NEW o \in Objects, step[o] \in Hooking PROVE ensured[o]
  BY <1>h DEF IInv, PassShape
<1>1. ASSUME NEW o \in Objects, Settle(o, "rejected"), UNCHANGED ensured,
             step[o] \in Fetching
      PROVE  Once!Fail(o)
  <2>1. ~ensured[o] /\ promise[o]
    BY <1>f, <1>1
  <2>2. phase[o] = "running" /\ phase' = [phase EXCEPT ![o] = "none"]
    BY <1>0, <1>1, <2>1 DEF Settle, phase
  <2>3. call' = Once!Settled(o, "rejected")
    BY <1>1 DEF Settle, Once!Settled
  <2> QED
    BY <2>2, <2>3 DEF Once!Fail
<1>2. ASSUME NEW o \in Objects, NEW outcome \in {"returned", "rejected"},
             Settle(o, outcome), UNCHANGED ensured, step[o] \in Hooking
      PROVE  Once!FollowUp(o)
  <2>1. ensured[o]
    BY <1>h, <1>2
  <2>2. phase[o] = "done" /\ phase' = phase
    BY <1>0, <1>2, <2>1 DEF Settle, phase
  <2>3. call' = Once!Settled(o, outcome)
    BY <1>2 DEF Settle, Once!Settled
  <2> QED
    BY <2>2, <2>3 DEF Once!FollowUp, Once!Outcomes
<1>3. ASSUME UNCHANGED <<ensured, promise, call>> PROVE UNCHANGED Once!vars
  BY <1>3 DEF Once!vars, phase
<1>4. ASSUME NEW c \in Callers, Ensure(c) PROVE [Once!Next]_Once!vars
  <2>1. CASE ensured[Home[c]]
    BY <1>0, <1>4, <2>1, HomeAssumption
       DEF Ensure, Once!Next, Once!Return, phase
  <2>2. CASE ~ensured[Home[c]] /\ promise[Home[c]]
    BY <1>0, <1>4, <2>2, HomeAssumption
       DEF Ensure, Once!Next, Once!Join, phase
  <2>3. CASE ~ensured[Home[c]] /\ ~promise[Home[c]]
    <3>1. phase' = [phase EXCEPT ![Home[c]] = "running"]
      BY <1>0, <1>4, <2>3, HomeAssumption DEF Ensure, phase
    <3> QED
      BY <1>4, <2>3, <3>1, HomeAssumption DEF Ensure, Once!Next, Once!Begin, phase
  <2> QED
    BY <2>1, <2>2, <2>3
<1>5. ASSUME NEW o \in Objects, RunEnsure(o) PROVE [Once!Next]_Once!vars
  <2>1. CASE Materialize(o) \/ GitInitMkdir(o) \/ GitClone(o) \/ CopyFiles(o)
             \/ HookEnsures(o)
    BY <1>3, <2>1 DEF Materialize, GitInitMkdir, GitClone, CopyFiles, HookEnsures
  <2>2. CASE GitCloneRefused(o)
    <3>1. Settle(o, "rejected") /\ UNCHANGED ensured /\ step[o] \in Fetching
      BY <2>2 DEF GitCloneRefused, At, Fetching
    <3> QED
      BY <1>1, <3>1 DEF Once!Next
  <2>3. CASE GitCloned(o)
    <3>1. \/ UNCHANGED <<ensured, promise, call>>
          \/ Settle(o, "rejected") /\ UNCHANGED ensured /\ step[o] \in Fetching
      BY <2>3 DEF GitCloned, At, Fetching
    <3> QED
      BY <1>1, <1>3, <3>1 DEF Once!Next
  <2>4. CASE FilesCopied(o)
    <3>1. \/ UNCHANGED <<ensured, promise, call>>
          \/ Settle(o, "rejected") /\ UNCHANGED ensured /\ step[o] \in Fetching
      BY <2>4 DEF FilesCopied, At, Fetching
    <3> QED
      BY <1>1, <1>3, <3>1 DEF Once!Next
  <2>5. CASE MarkEnsured(o)
    <3>0. step[o] = "ready"
      BY ONLY <2>5 DEF MarkEnsured, At
    <3>1. ~ensured[o] /\ promise[o]
      BY <1>f, <3>0 DEF Fetching
    <3>2. phase[o] = "running" /\ phase' = [phase EXCEPT ![o] = "done"]
      BY <1>0, <2>5, <3>1 DEF MarkEnsured, Settle, phase
    <3>3. call' \in {call, Once!Settled(o, "returned")}
      BY <2>5 DEF MarkEnsured, Settle, Once!Settled
    <3> QED
      BY <3>2, <3>3 DEF Once!Next, Once!Complete
  <2>6. CASE HookDone(o)
    <3>1. /\ UNCHANGED ensured /\ step[o] \in Hooking
          /\ \/ UNCHANGED <<promise, call>>
             \/ \E outcome \in {"returned", "rejected"} : Settle(o, outcome)
      BY <2>6 DEF HookDone, At, Hooking
    <3> QED
      BY <1>2, <1>3, <3>1 DEF Once!Next
  <2> QED
    BY <1>5, <2>1, <2>2, <2>3, <2>4, <2>5, <2>6 DEF RunEnsure
<1>6. ASSUME NEW o \in Objects, Failure(o) PROVE [Once!Next]_Once!vars
  <2>1. CASE MkdirFails(o) \/ CloneFails(o) \/ CopyFails(o)
    <3>1. Settle(o, "rejected") /\ UNCHANGED ensured /\ step[o] \in Fetching
      BY <2>1 DEF MkdirFails, CloneFails, CopyFails, At, Fetching
    <3> QED
      BY <1>1, <3>1 DEF Once!Next
  <2>2. CASE HookFails(o)
    <3>1. Settle(o, "rejected") /\ UNCHANGED ensured /\ step[o] \in Hooking
      BY <2>2 DEF HookFails, At, Hooking
    <3> QED
      BY <1>2, <3>1 DEF Once!Next
  <2>3. CASE Crash(o)
    <3>1. phase' = [phase EXCEPT ![o] = "none"]
      BY <1>0, <2>3 DEF Crash, phase
    <3> QED
      BY <2>3, <3>1 DEF Crash, Once!Next, Once!Crash
  <2> QED
    BY <1>6, <2>1, <2>2, <2>3 DEF Failure
<1>7. CASE Clean
  BY <1>3, <1>7 DEF Clean
<1>8. CASE UNCHANGED vars
  BY <1>3, <1>8 DEF vars
<1> QED
  BY <1>4, <1>5, <1>6, <1>7, <1>8 DEF Next

\* ensure() implements the once-only initialisation OnceInit describes.
THEOREM Refinement == Spec => ImplementsOnceInit
BY Inductive, InitRefines, StepRefines, PTL DEF Spec, ImplementsOnceInit, Once!Spec
=============================================================================
