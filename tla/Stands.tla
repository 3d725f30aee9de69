------------------------------- MODULE Stands -------------------------------
(***************************************************************************)
(* `stand run`: the commands of a stand one after the other, each as a     *)
(* sequence of moves (StandCatalog).  A move may find something missing,   *)
(* fail, or be cut short by the death of the process; the operator then    *)
(* runs the failed command again and the ones after it, one by one, as     *)
(* docs/developer/devnet-management.md asks.                               *)
(*                                                                         *)
(* Validator keys are followed batch by batch: generated, handed to an     *)
(* operator under a name, submitted on chain, imported into the validator  *)
(* client.                                                                 *)
(***************************************************************************)
EXTENDS Naturals, Sequences, FiniteSets

\* A scenario is a stand, its flags, what earlier commands left behind, and how
\* many faults it is to meet.  Plans gives the commands of each.
CONSTANTS Scenarios, Plans

ASSUME ScenariosAssumption ==
    /\ \A sc \in Scenarios : /\ DOMAIN sc = {"stand", "options", "given", "faults"}
                             /\ sc.faults \in Nat
    /\ DOMAIN Plans = Scenarios

(***************************************************************************)
(* What all stands have in common.  A move is a record of these fields,    *)
(* see StandCatalog.                                                       *)
(***************************************************************************)
Credentials == {"own", "0x01", "0x02"}
Moves == [skip : SUBSET STRING, over : Nat, needs : SUBSET STRING, takes : SUBSET STRING,
          gives : SUBSET STRING, outside : BOOLEAN, quiet : BOOLEAN, name : STRING,
          wc : Credentials \cup {"none"},
          op : {"none", "look", "generate", "write", "mark", "addKeys", "newOperator", "import"}]

\* `keys use` marks the keys right after it has written their file, a command uses keys
\* once and hands them out afterwards, and nothing in it skips its `keys use`.  What asks
\* for the file asks for one that was written.
UsesKeysInOrder(moves) ==
    \A j \in DOMAIN moves :
        /\ "keysFile" \notin moves[j].gives
        /\ moves[j].op = "generate" => moves[j].wc \in Credentials
        /\ moves[j].op = "write" =>
              /\ j + 1 \in DOMAIN moves
              /\ moves[j + 1].op = "mark" /\ moves[j + 1].wc = moves[j].wc /\ ~moves[j + 1].quiet
              /\ \A k \in DOMAIN moves :
                    /\ moves[k].op = "write" => k = j
                    /\ moves[k].op \in {"addKeys", "newOperator"} => k > j
                    /\ moves[k].skip # {} /\ k <= j + 1 => k + moves[k].over < j

\* A command that creates an operator with the keys of a name ends with that, and the
\* name is used for no other operator.
OperatorPerName(plan) ==
    \A c, d \in DOMAIN plan : \A j \in DOMAIN plan[c], k \in DOMAIN plan[d] :
        plan[c][j].op = "newOperator" =>
            /\ j = Len(plan[c])
            /\ plan[d][k].name = plan[c][j].name =>
                  /\ plan[d][k].op = "newOperator" => d = c
                  /\ plan[d][k].op # "addKeys"

\* What comes after the j-th move of the c-th command.
Coming(plan, c, j) ==
    UNION {{plan[d][k] : k \in {i \in DOMAIN plan[d] : d > c \/ i > j}}
              : d \in {e \in DOMAIN plan : e >= c}}

Submissions == {"addKeys", "newOperator"}

\* Keys generated for Lido are written to a file later on; a file is written once, and
\* its keys are submitted later on; an import comes after that.  `keys use` marks what it
\* has just written.  None of these is passed over but an import.
KeysReachTheClient(plan) ==
    \A c \in DOMAIN plan : \A j \in DOMAIN plan[c] :
        /\ plan[c][j].op = "generate" /\ plan[c][j].wc # "own" =>
              \E m \in Coming(plan, c, j) : m.op = "write" /\ m.wc = plan[c][j].wc
        /\ plan[c][j].op = "write" =>
              /\ ~plan[c][j].quiet
              /\ \E m \in Coming(plan, c, j) : m.op \in Submissions /\ m.name = plan[c][j].name
              /\ \A m \in Coming(plan, c, j) : ~(m.op = "write" /\ m.name = plan[c][j].name)
        /\ plan[c][j].op \in Submissions =>
              ~plan[c][j].quiet /\ \E m \in Coming(plan, c, j) : m.op = "import"
        /\ plan[c][j].op = "mark" =>
              j > 1 /\ plan[c][j - 1].op = "write" /\ plan[c][j - 1].wc = plan[c][j].wc
        /\ plan[c][j].skip # {} =>
              \A k \in DOMAIN plan[c] :
                 j <= k /\ k <= j + plan[c][j].over =>
                    plan[c][k].op \notin Submissions \cup {"write", "import"}

ASSUME PlansAssumption ==
    \A sc \in Scenarios :
        /\ "keysFile" \notin sc.given
        /\ Plans[sc] \in Seq(Seq(Moves))
        /\ \A c \in DOMAIN Plans[sc] : UsesKeysInOrder(Plans[sc][c])
        /\ OperatorPerName(Plans[sc])
        /\ KeysReachTheClient(Plans[sc])

VARIABLES
    scenario,
    command,    \* the number of the command that runs, or ran last
    left,       \* the moves it has left
    done,       \* the facts there are
    batches,    \* depositData and keystores in validators.json, a record per batch
    files,      \* generated-keys/<name>.json: name -> batches in it
    submitted,  \* operators on chain and the batches submitted for them
    vc,         \* the batches in the validator client
    status,     \* "running", "failed", "refused" or "ready"
    cause,      \* what was missing when the stand was refused
    faults,     \* faults so far
    swallowed,  \* whether a failure was passed over
    unanswered  \* the batches whose submission failed after it had taken effect

vars == <<scenario, command, left, done, batches, files, submitted, vc, status, cause, faults, swallowed,
          unanswered>>
keyVars == <<batches, files, submitted, vc>>

Plan == Plans[scenario]
Current == Head(left)

Init ==
    /\ scenario \in Scenarios
    /\ command = 0 /\ left = <<>>
    /\ done = scenario.given
    /\ batches = <<>> /\ files = <<>> /\ submitted = {} /\ vc = {}
    /\ status = "running" /\ cause = {}
    /\ faults = 0 /\ swallowed = FALSE /\ unanswered = {}

-----------------------------------------------------------------------------
\* Mutation: whether they were given already is not asked.
UnusedOrNot(wc) == {b \in DOMAIN batches : batches[b].wc = wc}

\* The batches with these withdrawal credentials that no operator was given yet.
Unused(wc) == {b \in DOMAIN batches : batches[b].wc = wc /\ ~batches[b].used}

Needs(move) ==
    move.needs \cup (IF move.op = "write" THEN {"unusedKeys"} ELSE {})
               \cup (IF move.op \in {"addKeys", "newOperator"} THEN {"keysFile"} ELSE {})
Found(move) ==
    done \cup (IF Unused(move.wc) # {} THEN {"unusedKeys"} ELSE {})
         \cup (IF move.name \in DOMAIN files THEN {"keysFile"} ELSE {})
Missing == Needs(Current) \ Found(Current)

Skips == Current.skip # {} /\ Current.skip \subseteq done

AtMove == status = "running" /\ left # <<>>
Able == AtMove /\ ~Skips /\ Missing = {}

-----------------------------------------------------------------------------
(***************************************************************************)
(* What a move does to the keys.  The names say which command it is of.    *)
(***************************************************************************)
\* GenerateDevNetKeys: updateValidatorsData() appends.
GenerateKeys ==
    /\ batches' = Append(batches, [wc |-> Current.wc, used |-> FALSE])
    /\ UNCHANGED <<files, submitted, vc>>

\* Mutation: one file, for the operator that comes last.
WriteTheKeysFile ==
    /\ files' = [n \in {Current.name} |-> Unused(Current.wc)]
    /\ UNCHANGED <<batches, submitted, vc>>

\* Mutation: the keys are marked while they are written.
WriteAndMarkKeys ==
    /\ files' = [n \in DOMAIN files \cup {Current.name} |->
                    IF n = Current.name THEN Unused(Current.wc) ELSE files[n]]
    /\ batches' = [b \in DOMAIN batches |->
                      [batches[b] EXCEPT !.used = @ \/ batches[b].wc = Current.wc]]
    /\ UNCHANGED <<submitted, vc>>

\* UseLidoDevNetKeys: the unused keys go to the file, and then ...
WriteKeysFile ==
    /\ files' = [n \in DOMAIN files \cup {Current.name} |->
                    IF n = Current.name THEN Unused(Current.wc) ELSE files[n]]
    /\ UNCHANGED <<batches, submitted, vc>>

\* ... all with these credentials are marked.
MarkKeys ==
    /\ batches' = [b \in DOMAIN batches |->
                      [batches[b] EXCEPT !.used = @ \/ batches[b].wc = Current.wc]]
    /\ UNCHANGED <<files, submitted, vc>>

Submit(operator) ==
    /\ submitted' = submitted \cup {[operator |-> operator, batch |-> b] : b \in files[Current.name]}
    /\ UNCHANGED <<batches, files, vc>>

\* Mutation: the operators of a name are counted from 0.
AddOperatorWithKeysFromZero ==
    LET mine == {x.operator : x \in {y \in submitted : y.operator[1] = Current.name}}
    IN Submit(<<Current.name, Cardinality(mine)>>)

\* LidoAddKeys goes to the operator of the given id, the others create an operator.
AddKeys == Submit(<<"nor", 1>>)
AddOperatorWithKeys ==
    LET mine == {x.operator : x \in {y \in submitted : y.operator[1] = Current.name}}
    IN Submit(<<Current.name, Cardinality(mine) + 1>>)

\* Mutation: only the newest keys.
ImportNewestKeys ==
    /\ vc' = IF batches = <<>> THEN vc ELSE vc \cup {Len(batches)}
    /\ UNCHANGED <<batches, files, submitted>>

\* ValidatorAdd: every keystore that the client has not got.
ImportKeys ==
    /\ vc' = DOMAIN batches
    /\ UNCHANGED <<batches, files, submitted>>

KeysEffect ==
    CASE Current.op = "generate" -> GenerateKeys
      [] Current.op = "write" -> WriteKeysFile
      [] Current.op = "mark" -> MarkKeys
      [] Current.op = "addKeys" -> AddKeys
      [] Current.op = "newOperator" -> AddOperatorWithKeys
      [] Current.op = "import" -> ImportKeys
      [] Current.op \in {"none", "look"} -> UNCHANGED keyVars

Effect ==
    /\ done' = (done \ Current.takes) \cup Current.gives
                 \cup (IF Current.op = "look" /\ Current.name \in DOMAIN files
                       THEN {"operatorExists"} ELSE {})
    /\ KeysEffect

-----------------------------------------------------------------------------
\* dre.runCommand() of the next command.
Begin ==
    /\ status = "running" /\ left = <<>> /\ command < Len(Plan)
    /\ command' = command + 1
    /\ left' = Plan[command']
    /\ UNCHANGED <<scenario, done, keyVars, status, cause, faults, swallowed, unanswered>>

Skip ==
    /\ AtMove /\ Skips
    /\ left' = SubSeq(left, Current.over + 2, Len(left))
    /\ UNCHANGED <<scenario, command, done, keyVars, status, cause, faults, swallowed, unanswered>>

Step ==
    /\ Able
    /\ Effect
    /\ left' = Tail(left)
    /\ UNCHANGED <<scenario, command, status, cause, faults, swallowed, unanswered>>

\* An assertion, a getter of the state or a foreign tool stops the command.
Refuse ==
    /\ AtMove /\ ~Skips /\ Missing # {} /\ ~Current.quiet
    /\ status' = "refused" /\ cause' = Missing
    /\ UNCHANGED <<scenario, command, left, done, keyVars, faults, swallowed, unanswered>>

\* The same where the handler only warns of it.
RefuseQuietly ==
    /\ AtMove /\ ~Skips /\ Missing # {} /\ Current.quiet
    /\ left' = Tail(left) /\ swallowed' = TRUE
    /\ UNCHANGED <<scenario, command, done, keyVars, status, cause, faults, unanswered>>

Faulty == faults < scenario.faults /\ faults' = faults + 1

\* The process dies, or the call a move consists of fails, before it has an effect.
Interrupt ==
    /\ AtMove /\ Faulty
    /\ status' = "failed"
    /\ UNCHANGED <<scenario, command, left, done, keyVars, cause, swallowed, unanswered>>

\* A call outside fails, or the process dies, after it has taken effect there.
FailAfterEffect ==
    /\ Able /\ Current.outside /\ ~Current.quiet /\ Faulty
    /\ Effect
    /\ status' = "failed"
    /\ unanswered' = unanswered \cup {x.batch : x \in submitted' \ submitted}
    /\ UNCHANGED <<scenario, command, left, cause, swallowed>>

FailQuietly ==
    /\ Able /\ Current.quiet /\ Faulty
    /\ left' = Tail(left) /\ swallowed' = TRUE
    /\ UNCHANGED <<scenario, command, done, keyVars, status, cause, unanswered>>

\* Mutation: the operator goes on with the command after the one that failed.
ResumeWithTheNext ==
    /\ status = "failed"
    /\ status' = "running"
    /\ left' = <<>>
    /\ UNCHANGED <<scenario, command, done, keyVars, cause, faults, swallowed, unanswered>>

\* The operator runs the failed command again, then the remaining ones.
Resume ==
    /\ status = "failed"
    /\ status' = "running"
    /\ left' = Plan[command]
    /\ UNCHANGED <<scenario, command, done, keyVars, cause, faults, swallowed, unanswered>>

Ready ==
    /\ status = "running" /\ left = <<>> /\ command = Len(Plan)
    /\ status' = "ready"
    /\ UNCHANGED <<scenario, command, left, done, keyVars, cause, faults, swallowed, unanswered>>

Next ==
    \/ Begin \/ Skip \/ Step \/ Refuse \/ RefuseQuietly \/ Ready
    \/ Interrupt \/ FailAfterEffect \/ FailQuietly \/ Resume

Spec == Init /\ [][Next]_vars

-----------------------------------------------------------------------------
MovesOf(plan) == UNION {{plan[i][j] : j \in DOMAIN plan[i]} : i \in DOMAIN plan}

\* What a stand finds at its start and what its commands make, in whatever order.
ProvidedBy(sc) ==
    sc.given
        \cup UNION {move.gives \cup (IF move.op = "generate" THEN {"unusedKeys"} ELSE {})
                               \cup (IF move.op = "write" THEN {"keysFile"} ELSE {})
                      : move \in MovesOf(Plans[sc])}
Provided == ProvidedBy(scenario)

\* Of what was missing, that which the stand was meant to have.
Stranded == cause \cap Provided

\* What the commands speak of.
Facts ==
    scenario.given \cup {"operatorExists"}
        \cup UNION {Needs(move) \cup move.gives : move \in MovesOf(Plan)}

\* The variables hold what their comments say.
TypeOK ==
    /\ scenario \in Scenarios
    /\ command \in 0..Len(Plan)
    /\ done \subseteq Facts
    /\ \A b \in DOMAIN batches : batches[b].wc \in Credentials /\ batches[b].used \in BOOLEAN
    /\ \A n \in DOMAIN files : files[n] \subseteq DOMAIN batches
    /\ \A x \in submitted : x.operator[2] \in Nat \ {0} /\ x.batch \in DOMAIN batches
    /\ vc \subseteq DOMAIN batches
    /\ status \in {"running", "failed", "refused", "ready"}
    /\ cause \subseteq Facts
    /\ faults \in 0..scenario.faults
    /\ swallowed \in BOOLEAN
    /\ unanswered \subseteq DOMAIN batches

\* No command of the stand takes the fact away.
NeverTaken(plan, fact) == \A c \in DOMAIN plan : \A j \in DOMAIN plan[c] : fact \notin plan[c][j].takes

\* What a stand found at the start and a command of its own writes over: the endpoint of
\* the validator client, in the chain record that `chain self-hosted-up` writes anew.
Overwritten(sc) == {fact \in {"vcApi"} \cap sc.given : ~NeverTaken(Plans[sc], fact)}

\* The order of every stand is right: one that nothing interrupts never stops for want
\* of something that one of its own commands makes, or that it found at the start, taken
\* away since or not.  The one exception is the endpoint of the validator client: epbs
\* without --skipChain replaces the chain record it found, and stops at `validator add`.
OrderIsRight == status = "refused" /\ faults = 0 => Stranded \subseteq Overwritten(scenario)

\* What is written, or looked for, after the record by which the rest is skipped.
HalfDone == {"cliLido", "cliCSM", "cliCMv2", "norOperator"}

\* Commands record before they are finished.  What an interruption can put out of reach
\* of the failed command run again, and of the ones after it, is the configuration of
\* lido-cli, written after the record by which a deployment is skipped (update-state of
\* lido-core, csm and cmv2), and the operator of add-new-operator; nothing else, but for
\* the endpoint that is overwritten without any interruption.
OnlyHalfDoneIsLost ==
    status = "refused" /\ ~swallowed => Stranded \subseteq HalfDone \cup Overwritten(scenario)

\* No validator key is submitted for two operators, however often a command is
\* interrupted and run again, unless the answer to a submission was lost: `keys use`
\* gives away what is unused, marks it afterwards, and keys stay in their file.
OneOperatorPerKey ==
    \A x, y \in submitted :
        x.batch = y.batch /\ x.batch \notin unanswered => x.operator = y.operator

\* A stand that is ready validates with what it submitted: every key on chain is in the
\* validator client, unless an import failed, which is passed over.  Without
\* interruption no key generated for Lido is left unsubmitted either.
ReadyMeansValidating ==
    status = "ready" =>
        /\ ~swallowed => {x.batch : x \in submitted} \subseteq vc
        /\ faults = 0 => {b \in DOMAIN batches : batches[b].wc # "own"} \subseteq {x.batch : x \in submitted}

\* Who makes deposits: the account that replaced the DSM, or council and bots.
Depositors == {{"eoa", "deposited"}, {"council", "dsmBots"}}

\* A stand that is ready and has submitted keys has somebody who deposits, whatever was
\* interrupted and run again: either the bots and the council are up, which serve every
\* module, or the account has the DSM's place and has made a deposit (one: the stands
\* with three modules leave those of csm and cmv2 to whoever runs the stand).  Refuted
\* for glamsterdam-full, whose --dsm ("Use full DSM setup (Council + DSM-bots)",
\* stands/glamsterdam-full.ts:35) keeps the DSM and starts neither.
DepositsAreServed ==
    status = "ready" /\ submitted # {} => \E facts \in Depositors : facts \subseteq done

\* Refuted.  add-new-operator skips the creation of an operator that "already exists":
\* then there is one on chain.
ExistingOperatorsExist == "operatorExists" \in done => "norOperator" \in done
=============================================================================
