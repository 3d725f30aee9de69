---------------------------- MODULE SerialStore ----------------------------
(***************************************************************************)
(* What the state store promises to commands that do not meet on a file:   *)
(* each takes effect as a whole, at one moment, on what the files hold at  *)
(* that moment.                                                            *)
(***************************************************************************)
EXTENDS StoreContents

VARIABLES data,    \* what each file holds
          given,   \* the keys lido-core keys use has put in each invocation's file
          ended    \* the invocations that have taken effect

vars == <<data, given, ended>>

Init == /\ data = Blank
        /\ given = [i \in Invocations |-> {}]
        /\ ended = {}

\* update<Group>(): the other groups of state.json stay as they are.
Update(i, j) == /\ j.op = "update"
                /\ data' = [data EXCEPT !.state = [@ EXCEPT ![j.group] = i]]
                /\ UNCHANGED given

\* Key generation: new keys go behind those recorded, keystores in step.
Generate(i, j) ==
    /\ j.op \in {"generate", "chainKeys"}
    /\ data' = [data EXCEPT
                    !.validators = Extended(@, NewKeys(i, j, Len(@.deposits)))]
    /\ UNCHANGED given

\* lido-core keys use: every unused Lido key goes to i and is marked.
Use(i, j) == /\ j.op = "use"
             /\ Unused(data.validators.deposits) # {}
             /\ given' = [given EXCEPT ![i] = Unused(data.validators.deposits)]
             /\ data' = [data EXCEPT !.validators.deposits = MarkedUsed(@)]

\* wallet create: an existing wallet is replaced only by force.
Create(i, j) == /\ j.op = "create"
                /\ j.force \/ data.wallets = Nobody
                /\ data' = [data EXCEPT !.wallets = i]
                /\ UNCHANGED given

Save(j) == /\ j.op = "save"
           /\ data' = [data EXCEPT !.configMap = data.state]
           /\ UNCHANGED given

Restore(j) == /\ j.op = "restore"
              /\ data' = [data EXCEPT !.state = data.configMap]
              /\ UNCHANGED given

Effect(i, j) == \/ Update(i, j) \/ Generate(i, j) \/ Use(i, j)
                \/ Create(i, j) \/ Save(j) \/ Restore(j)

Next == \E i \in Invocations \ ended, j \in Jobs :
            Effect(i, j) /\ ended' = ended \cup {i}

Spec == Init /\ [][Next]_vars
=============================================================================
