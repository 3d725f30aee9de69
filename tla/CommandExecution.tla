-------------------------- MODULE CommandExecution --------------------------
(***************************************************************************)
(* How one process runs nested commands.  The CLI enters a command through *)
(* executeCommandWithLogging(), and so does runCommand(); the RPC server   *)
(* calls the handler of a request itself, and its requests interleave at   *)
(* every await.  Whether a command is the outermost one, and whether its   *)
(* error or result is handed to its caller, is decided by one counter of   *)
(* the process, `depth`.                                                   *)
(***************************************************************************)
EXTENDS Naturals, FiniteSets

CONSTANTS Entries,     \* the CLI's command line, or the requests of the server
          MaxNesting,  \* bound on the nesting of commands
          MaxCalls     \* bound on the nested commands run altogether

ASSUME EntriesAssumption == IsFiniteSet(Entries)
ASSUME BoundsAssumption == MaxNesting \in Nat \ {0} /\ MaxCalls \in Nat

Levels == 1 .. MaxNesting
Frames == Entries \X Levels

VARIABLES mode,       \* "cli" or "rpc": what the process is
          depth,      \* the counter
          level,      \* how many frames each entry has
          at,         \* where each frame is
          root,       \* its isRoot
          failed,     \* its lastError is not null
          told,       \* what its handler heard of the last nested command
          answer,     \* what became of each entry
          swallowed,  \* the error of a nested command was dropped
          calls

vars == <<mode, depth, level, at, root, failed, told, answer, swallowed, calls>>

\* Is the frame at that level run by executeCommandWithLogging()?
Wrapped(i) == mode = "cli" \/ i > 1

Init == /\ mode \in {"cli", "rpc"}
        /\ depth = 0
        /\ level = [e \in Entries |-> 0]
        /\ at = [f \in Frames |-> "none"]
        /\ root = [f \in Frames |-> FALSE]
        /\ failed = [f \in Frames |-> FALSE]
        /\ told = [f \in Frames |-> "nothing"]
        /\ answer = [e \in Entries |-> "none"]
        /\ swallowed = [e \in Entries |-> FALSE]
        /\ calls = 0

Top(e) == <<e, level[e]>>
In(e, place) == level[e] > 0 /\ at[Top(e)] = place

\* Mutation: isRoot is taken from the counter after it has been raised.
PushLate(e) ==
    LET f == <<e, level[e] + 1>> IN
    /\ level' = [level EXCEPT ![e] = @ + 1]
    /\ at' = [at EXCEPT ![f] = IF Wrapped(f[2]) THEN "enter" ELSE "body"]
    /\ root' = [root EXCEPT ![f] = Wrapped(f[2]) /\ depth <= 1]

(***************************************************************************)
(* A command is called: isRoot is read, then getNotificationEvent() is     *)
(* awaited.                                                                *)
(***************************************************************************)
Push(e) ==
    LET f == <<e, level[e] + 1>> IN
    /\ level' = [level EXCEPT ![e] = @ + 1]
    /\ at' = [at EXCEPT ![f] = IF Wrapped(f[2]) THEN "enter" ELSE "body"]
    /\ root' = [root EXCEPT ![f] = Wrapped(f[2]) /\ depth = 0]

\* The frame on top goes.
Pop(e) ==
    /\ level' = [level EXCEPT ![e] = @ - 1]
    /\ at' = [at EXCEPT ![Top(e)] = "none"]
    /\ root' = [root EXCEPT ![Top(e)] = FALSE]
    /\ failed' = [failed EXCEPT ![Top(e)] = FALSE]

-----------------------------------------------------------------------------
\* A process of the CLI runs one command line; the server any requests.
Start(e) ==
    /\ level[e] = 0 /\ answer[e] = "none"
    /\ mode = "cli" => \A d \in Entries : level[d] = 0 /\ answer[d] = "none"
    /\ Push(e)
    /\ UNCHANGED <<mode, depth, failed, told, answer, swallowed, calls>>

\* Mutation: nothing raises the counter.
BeginUncounted(e) ==
    /\ In(e, "enter")
    /\ at' = [at EXCEPT ![Top(e)] = "body"]
    /\ UNCHANGED <<mode, depth, level, root, failed, told, answer, swallowed, calls>>

Begin(e) ==
    /\ In(e, "enter")
    /\ depth' = depth + 1
    /\ at' = [at EXCEPT ![Top(e)] = "body"]
    /\ UNCHANGED <<mode, level, root, failed, told, answer, swallowed, calls>>

\* dre.runCommand(), runCommandByName(), or a hook of a service.
Call(e) ==
    /\ In(e, "body") /\ told[Top(e)] # "error"
    /\ level[e] < MaxNesting /\ calls < MaxCalls
    /\ Push(e)
    /\ calls' = calls + 1
    /\ UNCHANGED <<mode, depth, failed, told, answer, swallowed>>

\* A handler that catches the error of a nested command goes on.
Catch(e) ==
    /\ In(e, "body") /\ told[Top(e)] = "error"
    /\ told' = [told EXCEPT ![Top(e)] = "nothing"]
    /\ UNCHANGED <<mode, depth, level, at, root, failed, answer, swallowed, calls>>

Leave(e, error) ==
    /\ at' = [at EXCEPT ![Top(e)] = "ending"]
    /\ failed' = [failed EXCEPT ![Top(e)] = error]
    /\ UNCHANGED <<level, root, answer>>

Reply(e, text) == Pop(e) /\ answer' = [answer EXCEPT ![e] = text]

(***************************************************************************)
(* The handler returns, or throws: an error of its own, or the one it was  *)
(* told.  A request is answered then; a wrapped command first sends its    *)
(* notification.                                                           *)
(***************************************************************************)
Finish(e) ==
    /\ In(e, "body") /\ told[Top(e)] # "error"
    /\ IF Wrapped(level[e]) THEN Leave(e, FALSE) ELSE Reply(e, "success")
    /\ told' = [told EXCEPT ![Top(e)] = "nothing"]
    /\ UNCHANGED <<mode, depth, swallowed, calls>>

Throw(e) ==
    /\ In(e, "body")
    /\ IF Wrapped(level[e]) THEN Leave(e, TRUE) ELSE Reply(e, "error")
    /\ told' = [told EXCEPT ![Top(e)] = "nothing"]
    /\ UNCHANGED <<mode, depth, swallowed, calls>>

\* Mutation: the comparison is off by one.
OutcomeAtOne(f) == IF depth' <= 1 THEN "undefined"
                   ELSE IF failed[f] THEN "error" ELSE "result"

Outcome(f) == IF depth' = 0 THEN "undefined"
              ELSE IF failed[f] THEN "error" ELSE "result"

\* Mutation: an error by-passes the lowering of the counter.
EndOnSuccess(e) ==
    LET caller == <<e, level[e] - 1>> IN
    /\ In(e, "ending")
    /\ depth' = IF failed[Top(e)] THEN depth ELSE depth - 1
    /\ Pop(e)
    /\ IF level[e] = 1
         THEN /\ answer' = [answer EXCEPT ![e] = "exit"]
              /\ UNCHANGED <<told, swallowed>>
         ELSE /\ told' = [told EXCEPT ![caller] = Outcome(Top(e))]
              /\ swallowed' = [swallowed EXCEPT ![e] = @ \/ (failed[Top(e)] /\ depth' = 0)]
              /\ UNCHANGED answer
    /\ UNCHANGED <<mode, calls>>

(***************************************************************************)
(* The finally block: the counter is lowered, and at 0 nothing is handed   *)
(* on, neither error nor result.                                           *)
(***************************************************************************)
End(e) ==
    LET caller == <<e, level[e] - 1>> IN
    /\ In(e, "ending")
    /\ depth' = depth - 1
    /\ Pop(e)
    /\ IF level[e] = 1
         THEN /\ answer' = [answer EXCEPT ![e] = "exit"]
              /\ UNCHANGED <<told, swallowed>>
         ELSE /\ told' = [told EXCEPT ![caller] = Outcome(Top(e))]
              /\ swallowed' = [swallowed EXCEPT ![e] = @ \/ (failed[Top(e)] /\ depth' = 0)]
              /\ UNCHANGED answer
    /\ UNCHANGED <<mode, calls>>

-----------------------------------------------------------------------------
Next == \E e \in Entries : \/ Start(e) \/ Begin(e) \/ Call(e) \/ Catch(e)
                           \/ Finish(e) \/ Throw(e) \/ End(e)

Spec == Init /\ [][Next]_vars

-----------------------------------------------------------------------------
TypeOK == /\ mode \in {"cli", "rpc"}
          /\ depth \in Nat
          /\ level \in [Entries -> 0 .. MaxNesting]
          /\ at \in [Frames -> {"none", "enter", "body", "ending"}]
          /\ root \in [Frames -> BOOLEAN]
          /\ failed \in [Frames -> BOOLEAN]
          /\ told \in [Frames -> {"nothing", "result", "undefined", "error"}]
          /\ answer \in [Entries -> {"none", "success", "error", "exit"}]
          /\ swallowed \in [Entries -> BOOLEAN]
          /\ calls \in 0 .. MaxCalls

(***************************************************************************)
(* Whatever requests are in flight and however their commands end, the     *)
(* counter is the number of wrapped commands that have begun and not ended *)
(* (command.ts:149, 202): no path through errors, notifications or the     *)
(* awaits of others makes it drift.                                        *)
(***************************************************************************)
Counted == {f \in Frames : Wrapped(f[2]) /\ at[f] \in {"body", "ending"}}

DepthCountsFrames == depth = Cardinality(Counted)

(***************************************************************************)
(* A command called by a wrapped command hands its outcome on: an error is *)
(* thrown to the caller, a result returned (command.ts:149-206).  Under    *)
(* the CLI that is every nested command.                                   *)
(***************************************************************************)
OutcomesReachTheirCaller ==
    [][\A e \in Entries : \A i \in Levels :
          i > 1 /\ Wrapped(i - 1) /\ at[<<e, i>>] = "ending" /\ at'[<<e, i>>] # "ending"
              => told'[<<e, i - 1>>] = IF failed[<<e, i>>] THEN "error" ELSE "result"]_vars

(***************************************************************************)
(* A command called by a wrapped command never takes itself for the root,  *)
(* so a stand that runs `chain up` is announced as one deployment          *)
(* (command.ts:79-86, 131-132), although isRoot is read one await before   *)
(* the counter is raised.                                                  *)
(***************************************************************************)
OnlyTheOutermostIsRoot ==
    \A e \in Entries : \A i \in Levels :
        root[<<e, i>>] => \A j \in Levels : j < i => ~Wrapped(j)

(***************************************************************************)
(* "Command executed successfully" (rpc.ts:127): a request answered so has *)
(* met no error that its handler did not deal with.  The server does not   *)
(* keep this.                                                              *)
(***************************************************************************)
SuccessMeansSuccess ==
    \A e \in Entries : answer[e] = "success" => ~swallowed[e]
=============================================================================
