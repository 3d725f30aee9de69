------------------------------ MODULE OnceInit ------------------------------
(***************************************************************************)
(* What DevnetServiceArtifact.ensure() promises its callers, with no       *)
(* directory, git or hook in sight: in the life of a process an object is  *)
(* initialised at most once, calls made while that is going on share one   *)
(* attempt and its outcome, a failed attempt may be tried again, and no    *)
(* call returns before an attempt has come through.                        *)
(***************************************************************************)
EXTENDS Naturals

CONSTANTS Objects,   \* the artifact objects, each memoizes one initialisation
          Callers,   \* the asynchronous calls that use them
          Home       \* the object a caller uses, in [Callers -> Objects]

VARIABLES phase,     \* "none", "running" or "done", for each object
          call       \* what became of each caller's last ensure()

vars == <<phase, call>>

Outcomes == {"returned", "rejected"}

(***************************************************************************)
(* The calls of o that are waiting get one and the same outcome.           *)
(***************************************************************************)
Settled(o, outcome) ==
    [c \in Callers |-> IF Home[c] = o /\ call[c] = "awaiting" THEN outcome ELSE call[c]]

Init == /\ phase = [o \in Objects |-> "none"]
        /\ call = [c \in Callers |-> "idle"]

Begin(c) == /\ call[c] # "awaiting"
            /\ phase[Home[c]] = "none"
            /\ phase' = [phase EXCEPT ![Home[c]] = "running"]
            /\ call' = [call EXCEPT ![c] = "awaiting"]

Join(c) == /\ call[c] # "awaiting"
           /\ phase[Home[c]] = "running"
           /\ call' = [call EXCEPT ![c] = "awaiting"]
           /\ UNCHANGED phase

Return(c) == /\ call[c] # "awaiting"
             /\ phase[Home[c]] = "done"
             /\ call' = [call EXCEPT ![c] = "returned"]
             /\ UNCHANGED phase

\* The attempt comes through; its follow-up work may keep the waiters waiting.
Complete(o) == /\ phase[o] = "running"
               /\ phase' = [phase EXCEPT ![o] = "done"]
               /\ call' \in {call, Settled(o, "returned")}

\* The follow-up work ends, well or badly; the initialisation stays done.
FollowUp(o) == /\ phase[o] = "done"
               /\ \E outcome \in Outcomes : call' = Settled(o, outcome)
               /\ UNCHANGED phase

Fail(o) == /\ phase[o] = "running"
           /\ phase' = [phase EXCEPT ![o] = "none"]
           /\ call' = Settled(o, "rejected")

\* The process of o is gone, and what it remembered with it.
Crash(o) == /\ phase' = [phase EXCEPT ![o] = "none"]
            /\ call' = [c \in Callers |-> IF Home[c] = o THEN "killed" ELSE call[c]]

Next == \/ \E c \in Callers : Begin(c) \/ Join(c) \/ Return(c)
        \/ \E o \in Objects : Complete(o) \/ FollowUp(o) \/ Fail(o) \/ Crash(o)

Spec == Init /\ [][Next]_vars
=============================================================================
