---------------------------- MODULE ChainClients ----------------------------
(***************************************************************************)
(* The commands that ask the nodes of a running chain until they get what  *)
(* they want: voting auto-vote and the enact commands that end in it,      *)
(* wallet fund and transfer, and the waits of the other commands.  A       *)
(* transaction is sent, mined, and its receipt awaited; the connection may *)
(* break in between, and the sender may then send another.                 *)
(***************************************************************************)
EXTENDS Naturals, Sequences, FiniteSets

CONSTANTS Clients,    \* invocations of these commands
          Jobs,       \* what an invocation may be: records with an `op`
          Addresses,  \* who may be paid
          Probe,      \* the address waitEL sends its transaction to
          MaxVotes,   \* bound: votes ever started
          MaxFaults   \* bound: refused transactions, lost receipts, outages, kills

Voters == {"autoVote", "enact"}
Payers == {"fund", "transfer"}
Waits == {"waitEL", "waitCL", "waitELSync", "waitCLSync", "waitEpoch"}

ASSUME ChainClientsAssumption ==
    /\ MaxVotes \in Nat
    /\ MaxFaults \in Nat
    /\ Probe \notin Addresses
    /\ \A j \in Jobs :
          /\ j.op \in Voters \cup Payers \cup Waits
          /\ j.op \in Payers =>
                 /\ j.to \in Seq(Addresses)
                 /\ \A p, q \in DOMAIN j.to : p # q => j.to[p] # j.to[q]
          /\ j.op = "transfer" => Len(j.to) = 1
          /\ j.op = "fund" => j.funder \in Addresses

VARIABLES
    job,        \* what each client does
    pc,         \* where it is, or how it has ended
    left,       \* the votes its round has still to look at
    todo,       \* the addresses it has still to pay
    attempt,    \* of the payment under way
    call,       \* the transaction it is about to send, or awaits
    voted,      \* auto-vote's two flags
    executed,
    report,     \* what fund and transfer say of each address
    late,       \* the deadline of a sync wait has passed
    \* the chain
    txs,        \* the transactions of each client, in the order it sent them
    phase,      \* of each vote: "none", "open" or "closed"
    supported,  \* the votes that pass
    enacted,    \* the votes that have been executed
    recent,     \* the votes started within the last 1000 blocks
    node,       \* "down", "syncing" or "synced"
    past20,     \* the chain has more than 20 blocks
    finalized,  \* so has its epoch of interest
    faults

client == <<job, left, todo, attempt, call, voted, executed, report, late>>
contract == <<phase, supported, enacted, recent>>
chain == <<contract, node, past20, finalized>>
vars == <<pc, client, txs, chain, faults>>

Votes == 1..MaxVotes
Calls == [kind : {"vote", "execute"}, to : Votes]
         \cup [kind : {"pay"}, to : Addresses \cup {Probe}]
NoCall == [kind |-> "none", to |-> Probe]

Endings == {"done", "failed"}

Start == [op \in Voters \cup Payers \cup Waits |->
             CASE op = "enact" -> "prepare"
               [] op = "autoVote" -> "poll"
               [] op \in Payers -> "start"
               [] op = "waitEL" -> "block"
               [] OTHER -> "check"]

-----------------------------------------------------------------------------
Init == /\ job \in [Clients -> Jobs]
        /\ pc = [i \in Clients |-> Start[job[i].op]]
        /\ left = [i \in Clients |-> {}]
        /\ todo = [i \in Clients |-> <<>>]
        /\ attempt = [i \in Clients |-> 0]
        /\ call = [i \in Clients |-> NoCall]
        /\ voted = [i \in Clients |-> FALSE]
        /\ executed = [i \in Clients |-> FALSE]
        /\ report = [i \in Clients |-> [a \in Addresses |-> "none"]]
        /\ late = [i \in Clients |-> FALSE]
        /\ txs = [i \in Clients |-> <<>>]
        /\ phase = [v \in Votes |-> "none"]
        /\ supported = {}
        /\ enacted = {}
        /\ recent = {}
        /\ node \in {"down", "syncing", "synced"}
        /\ past20 \in BOOLEAN
        /\ finalized \in BOOLEAN
        /\ faults = 0

Up == node # "down"

GoesTo(i, step) == pc' = [pc EXCEPT ![i] = step]

Fault == faults < MaxFaults /\ faults' = faults + 1

First(votes) == CHOOSE v \in votes : \A w \in votes : v <= w

Started == {v \in Votes : phase[v] # "none"}

\* The contract: canVote(), canExecute(), and the next vote.
CanVote(v) == phase[v] = "open"
CanExecute(v) == phase[v] = "closed" /\ v \in supported /\ v \notin enacted

NewVote == /\ Started # Votes
           /\ LET v == First(Votes \ Started) IN
                  /\ phase' = [phase EXCEPT ![v] = "open"]
                  /\ recent' = recent \cup {v}
           /\ UNCHANGED <<supported, enacted>>

-----------------------------------------------------------------------------
(***************************************************************************)
(* What follows a call that has succeeded, or thrown.                      *)
(***************************************************************************)
Votee(i) == First(left[i])

SetAside(i) == /\ left' = [left EXCEPT ![i] = @ \ {Votee(i)}]
               /\ GoesTo(i, "next")

NextAddress(i, said) == /\ report' = [report EXCEPT ![i][Head(todo[i])] = said]
                        /\ todo' = [todo EXCEPT ![i] = Tail(@)]
                        /\ GoesTo(i, "pay")

\* fund reports and goes on, transfer ends.
Settled(i, said) ==
    IF job[i].op = "fund"
       THEN NextAddress(i, said)
       ELSE /\ report' = [report EXCEPT ![i][Head(todo[i])] = said]
            /\ GoesTo(i, IF said = "funded" THEN "done" ELSE "failed")
            /\ UNCHANGED todo

VoteCast(i) == /\ voted' = [voted EXCEPT ![i] = TRUE]
               /\ GoesTo(i, "decide")
               /\ UNCHANGED <<left, todo, executed, report>>

VoteEnacted(i) == /\ executed' = [executed EXCEPT ![i] = TRUE]
                  /\ SetAside(i)
                  /\ UNCHANGED <<todo, voted, report>>

Success(i) ==
    /\ \/ job[i].op \in Voters /\ call[i].kind = "vote" /\ VoteCast(i)
       \/ job[i].op \in Voters /\ call[i].kind = "execute" /\ VoteEnacted(i)
       \/ job[i].op \in Payers /\ Settled(i, "funded") /\ UNCHANGED <<left, voted, executed>>
       \/ /\ job[i].op = "waitEL"
          /\ GoesTo(i, "done")
          /\ UNCHANGED <<left, todo, voted, executed, report>>
    /\ UNCHANGED <<job, attempt, call, late>>

\* sendFundingTransaction() tries three times, waitEL for ever; auto-vote goes on
\* to the next vote.
Retries == 3

\* Mutation: the retries are counted off by one.
FailureLate(i) ==
    /\ \/ job[i].op \in Voters /\ SetAside(i) /\ UNCHANGED <<todo, attempt, report>>
       \/ /\ job[i].op \in Payers
          /\ attempt[i] <= Retries
          /\ attempt' = [attempt EXCEPT ![i] = @ + 1]
          /\ GoesTo(i, "send")
          /\ UNCHANGED <<left, todo, report>>
       \/ /\ job[i].op \in Payers
          /\ attempt[i] > Retries
          /\ Settled(i, "failed")
          /\ UNCHANGED <<left, attempt>>
       \/ /\ job[i].op = "waitEL"
          /\ GoesTo(i, "send")
          /\ UNCHANGED <<left, todo, attempt, report>>
    /\ UNCHANGED <<job, call, voted, executed, late>>

Failure(i) ==
    /\ \/ job[i].op \in Voters /\ SetAside(i) /\ UNCHANGED <<todo, attempt, report>>
       \/ /\ job[i].op \in Payers
          /\ attempt[i] < Retries
          /\ attempt' = [attempt EXCEPT ![i] = @ + 1]
          /\ GoesTo(i, "send")
          /\ UNCHANGED <<left, todo, report>>
       \/ /\ job[i].op \in Payers
          /\ attempt[i] >= Retries
          /\ Settled(i, "failed")
          /\ UNCHANGED <<left, attempt>>
       \/ /\ job[i].op = "waitEL"
          /\ GoesTo(i, "send")
          /\ UNCHANGED <<left, todo, attempt, report>>
    /\ UNCHANGED <<job, call, voted, executed, late>>

-----------------------------------------------------------------------------
(***************************************************************************)
(* The enact commands: check out, install and configure the voting         *)
(* scripts, run the one that starts the vote, then auto-vote.              *)
(***************************************************************************)
Prepare(i) == /\ pc[i] = "prepare"
              /\ GoesTo(i, "script")
              /\ UNCHANGED <<client, txs, chain, faults>>

RunScript(i) == /\ pc[i] = "script"
                /\ NewVote
                /\ GoesTo(i, "poll")
                /\ UNCHANGED <<client, txs, node, past20, finalized, faults>>

\* processVotes(): the StartVote events of the last 1000 blocks, ...
RoundBegins(i) == /\ pc[i] = "poll"
                  /\ Up
                  /\ left' = [left EXCEPT ![i] = Started \cap recent]
                  /\ GoesTo(i, "next")
                  /\ UNCHANGED <<job, todo, attempt, call, voted, executed, report, late,
                                 txs, chain, faults>>

\* Mutation: that a ballot has been cast is not handed to the next vote.
AskVoteAgain(i) ==
    /\ pc[i] = "next"
    /\ left[i] # {}
    /\ Up
    /\ IF CanVote(Votee(i))
          THEN /\ call' = [call EXCEPT ![i] = [kind |-> "vote", to |-> Votee(i)]]
               /\ GoesTo(i, "send")
          ELSE GoesTo(i, "decide") /\ UNCHANGED call
    /\ UNCHANGED <<job, left, todo, attempt, voted, executed, report, late, txs, chain, faults>>

\* Mutation: a vote that cannot be voted on is passed over.
AskVoteOrPass(i) ==
    /\ pc[i] = "next"
    /\ left[i] # {}
    /\ Up
    /\ IF CanVote(Votee(i)) /\ ~voted[i]
          THEN /\ call' = [call EXCEPT ![i] = [kind |-> "vote", to |-> Votee(i)]]
               /\ GoesTo(i, "send")
               /\ UNCHANGED left
          ELSE SetAside(i) /\ UNCHANGED call
    /\ UNCHANGED <<job, todo, attempt, voted, executed, report, late, txs, chain, faults>>

\* ... vote by vote: cast a ballot if none was cast before, ...
AskVote(i) ==
    /\ pc[i] = "next"
    /\ left[i] # {}
    /\ Up
    /\ IF CanVote(Votee(i)) /\ ~voted[i]
          THEN /\ call' = [call EXCEPT ![i] = [kind |-> "vote", to |-> Votee(i)]]
               /\ GoesTo(i, "send")
          ELSE GoesTo(i, "decide") /\ UNCHANGED call
    /\ UNCHANGED <<job, left, todo, attempt, voted, executed, report, late, txs, chain, faults>>

\* ... and execute what can be executed.
AskExecute(i) ==
    /\ pc[i] = "decide"
    /\ Up
    /\ IF CanExecute(Votee(i))
          THEN /\ call' = [call EXCEPT ![i] = [kind |-> "execute", to |-> Votee(i)]]
               /\ GoesTo(i, "send")
               /\ UNCHANGED left
          ELSE SetAside(i) /\ UNCHANGED call
    /\ UNCHANGED <<job, todo, attempt, voted, executed, report, late, txs, chain, faults>>

\* Mutation: the loop ends when either is done.
RoundEndsEarly(i) ==
    /\ pc[i] = "next"
    /\ left[i] = {}
    /\ GoesTo(i, IF voted[i] \/ executed[i] THEN "done" ELSE "poll")
    /\ UNCHANGED <<client, txs, chain, faults>>

\* The loop of auto-vote: until it has both voted and executed.
RoundEnds(i) == /\ pc[i] = "next"
                /\ left[i] = {}
                /\ GoesTo(i, IF voted[i] /\ executed[i] THEN "done" ELSE "poll")
                /\ UNCHANGED <<client, txs, chain, faults>>

-----------------------------------------------------------------------------
\* wallet fund asks for the balance of the sender first, transfer pays at once.
BeginPaying(i) == /\ pc[i] = "start"
                  /\ job[i].op = "fund" => Up
                  /\ todo' = [todo EXCEPT ![i] = job[i].to]
                  /\ GoesTo(i, "pay")
                  /\ UNCHANGED <<job, left, attempt, call, voted, executed, report, late,
                                 txs, chain, faults>>

PayNext(i) ==
    /\ pc[i] = "pay"
    /\ todo[i] # <<>>
    /\ IF job[i].op = "fund" /\ Head(todo[i]) = job[i].funder
          THEN NextAddress(i, "skipped") /\ UNCHANGED <<attempt, call>>
          ELSE /\ call' = [call EXCEPT ![i] = [kind |-> "pay", to |-> Head(todo[i])]]
               /\ attempt' = [attempt EXCEPT ![i] = 1]
               /\ GoesTo(i, "send")
               /\ UNCHANGED <<todo, report>>
    /\ UNCHANGED <<job, left, voted, executed, late, txs, chain, faults>>

AllPaid(i) == /\ pc[i] = "pay"
              /\ todo[i] = <<>>
              /\ GoesTo(i, "done")
              /\ UNCHANGED <<client, txs, chain, faults>>

-----------------------------------------------------------------------------
\* waitEL sends a transaction, on a chain of more than 20 blocks it does not.
AskBlock(i) ==
    /\ pc[i] = "block"
    /\ Up
    /\ IF past20
          THEN GoesTo(i, "done") /\ UNCHANGED call
          ELSE /\ call' = [call EXCEPT ![i] = [kind |-> "pay", to |-> Probe]]
               /\ GoesTo(i, "send")
    /\ UNCHANGED <<job, left, todo, attempt, voted, executed, report, late, txs, chain, faults>>

\* Mutation: the clock is looked at once a request has failed, not after others.
CheckDeadlineWhenDown(i) ==
    /\ pc[i] = "check"
    /\ GoesTo(i, IF late[i] /\ ~Up THEN "failed" ELSE "asked")
    /\ UNCHANGED <<client, txs, chain, faults>>

\* The sync waits look at the clock before each request, the others do not.
CheckDeadline(i) ==
    /\ pc[i] = "check"
    /\ GoesTo(i, IF late[i] THEN "failed" ELSE "asked")
    /\ UNCHANGED <<client, txs, chain, faults>>

WaitedFor(i) == CASE job[i].op = "waitCL" -> TRUE
                  [] job[i].op = "waitEpoch" -> finalized
                  [] OTHER -> node = "synced"

\* A beacon node that is down is an error at once.
Answered(i) ==
    /\ pc[i] = "asked"
    /\ Up \/ job[i].op # "waitELSync"
    /\ GoesTo(i, IF Up /\ WaitedFor(i) THEN "done" ELSE "check")
    /\ UNCHANGED <<client, txs, chain, faults>>

TimePasses(i) == /\ job[i].op \in {"waitELSync", "waitCLSync"}
                 /\ ~late[i]
                 /\ late' = [late EXCEPT ![i] = TRUE]
                 /\ UNCHANGED <<pc, job, left, todo, attempt, call, voted, executed, report,
                                txs, chain, faults>>

-----------------------------------------------------------------------------
(***************************************************************************)
(* A transaction: sent, mined, its receipt awaited.                        *)
(***************************************************************************)
Send(i) == /\ pc[i] = "send"
           /\ Up
           /\ txs' = [txs EXCEPT ![i] =
                          Append(@, [call |-> call[i], state |-> "pending", lost |-> FALSE])]
           /\ GoesTo(i, "await")
           /\ UNCHANGED <<client, chain, faults>>

Awaited(i) == txs[i][Len(txs[i])]

Receipt(i) == /\ pc[i] = "await"
              /\ Up
              /\ \/ Awaited(i).state = "ok" /\ Success(i)
                 \/ Awaited(i).state = "reverted" /\ Failure(i)
              /\ UNCHANGED <<txs, chain, faults>>

\* Gas, nonce or balance are not what the node wants.
Refused(i) == /\ pc[i] = "send"
              /\ Fault
              /\ Failure(i)
              /\ UNCHANGED <<txs, chain>>

\* The connection breaks while the receipt is awaited; the transaction lives on.
ReceiptLost(i) == /\ pc[i] = "await"
                  /\ Fault
                  /\ txs' = [txs EXCEPT ![i][Len(txs[i])].lost = TRUE]
                  /\ Failure(i)
                  /\ UNCHANGED chain

\* What a call of a node that is down comes to, if it comes to anything: outside
\* a `try` the command fails.  (A provider that has yet to find its network may
\* wait for it as long as it takes.)
Unreachable(i) ==
    /\ ~Up
    /\ \/ /\ pc[i] \in {"poll", "start", "block"}
          /\ pc[i] = "start" => job[i].op = "fund"
          /\ GoesTo(i, "failed")
          /\ UNCHANGED client
       \/ /\ pc[i] \in {"next", "decide"}
          /\ left[i] # {}
          /\ SetAside(i)
          /\ UNCHANGED <<job, todo, attempt, call, voted, executed, report, late>>
       \/ pc[i] = "send" /\ Failure(i)
       \/ pc[i] = "asked" /\ GoesTo(i, "check") /\ UNCHANGED client
    /\ UNCHANGED <<txs, chain, faults>>

\* Interrupted, or thrown out by the scripts.
Stop(i) == /\ pc[i] \notin Endings
           /\ Fault
           /\ GoesTo(i, "failed")
           /\ UNCHANGED <<client, txs, chain>>

Step(i) == \/ Prepare(i) \/ RunScript(i)
           \/ RoundBegins(i) \/ AskVote(i) \/ AskExecute(i) \/ RoundEnds(i)
           \/ BeginPaying(i) \/ PayNext(i) \/ AllPaid(i)
           \/ AskBlock(i) \/ CheckDeadline(i) \/ Answered(i)
           \/ Send(i) \/ Receipt(i)

-----------------------------------------------------------------------------
(***************************************************************************)
(* The chain.                                                              *)
(***************************************************************************)
Accepted(c) == CASE c.kind = "vote" -> CanVote(c.to)
                 [] c.kind = "execute" -> CanExecute(c.to)
                 [] OTHER -> TRUE

Pending(i) == {k \in DOMAIN txs[i] : txs[i][k].state = "pending"}

\* The transactions of one sender are mined in their order.
Mine(i) ==
    /\ Pending(i) # {}
    /\ LET k == First(Pending(i))
           c == txs[i][k].call
       IN /\ txs' = [txs EXCEPT ![i][k].state = IF Accepted(c) THEN "ok" ELSE "reverted"]
          /\ supported' = IF c.kind = "vote" /\ Accepted(c) THEN supported \cup {c.to}
                                                             ELSE supported
          /\ enacted' = IF c.kind = "execute" /\ Accepted(c) THEN enacted \cup {c.to}
                                                             ELSE enacted
    /\ UNCHANGED <<pc, client, phase, recent, node, past20, finalized, faults>>

VoteStarts == NewVote /\ UNCHANGED <<pc, client, txs, node, past20, finalized, faults>>

\* By other accounts.
Supports(v) == /\ CanVote(v)
               /\ supported' = supported \cup {v}
               /\ UNCHANGED <<pc, client, txs, phase, enacted, recent, node, past20,
                              finalized, faults>>

Executes(v) == /\ CanExecute(v)
               /\ enacted' = enacted \cup {v}
               /\ UNCHANGED <<pc, client, txs, phase, supported, recent, node, past20,
                              finalized, faults>>

Closes(v) == /\ phase[v] = "open"
             /\ phase' = [phase EXCEPT ![v] = "closed"]
             /\ UNCHANGED <<pc, client, txs, supported, enacted, recent, node, past20,
                            finalized, faults>>

Ages(v) == /\ v \in recent
           /\ recent' = recent \ {v}
           /\ UNCHANGED <<pc, client, txs, phase, supported, enacted, node, past20,
                          finalized, faults>>

Outage == /\ Up
          /\ Fault
          /\ node' = "down"
          /\ UNCHANGED <<pc, client, txs, contract, past20, finalized>>

Progress == /\ \/ node = "down" /\ node' \in {"syncing", "synced"}
               \/ node = "syncing" /\ node' = "synced"
            /\ UNCHANGED <<pc, client, txs, contract, past20, finalized, faults>>

Grows == /\ \/ ~past20 /\ past20' = TRUE /\ UNCHANGED finalized
            \/ ~finalized /\ finalized' = TRUE /\ UNCHANGED past20
         /\ UNCHANGED <<pc, client, txs, contract, node, faults>>

Environment == \/ \E i \in Clients : Mine(i) \/ TimePasses(i)
               \/ VoteStarts
               \/ \E v \in Votes : Supports(v) \/ Executes(v) \/ Closes(v) \/ Ages(v)
               \/ Outage \/ Progress \/ Grows

Next == \/ \E i \in Clients : \/ Step(i)
                              \/ Refused(i) \/ ReceiptLost(i) \/ Unreachable(i) \/ Stop(i)
        \/ Environment

\* The event loop runs, a chain that runs mines what it has taken, votes are for a
\* limited time, and so is the wait for a deadline.
Fairness == /\ \A i \in Clients : WF_vars(Step(i)) /\ WF_vars(Mine(i)) /\ WF_vars(TimePasses(i))
            /\ \A v \in Votes : WF_vars(Closes(v))

Spec == Init /\ [][Next]_vars /\ Fairness


-----------------------------------------------------------------------------
Reports == {"none", "funded", "failed", "skipped"}
Steps == {"prepare", "script", "poll", "next", "decide", "start", "pay", "block", "check",
          "asked", "send", "await"}
Txs == [call : Calls, state : {"pending", "ok", "reverted"}, lost : BOOLEAN]

\* Everybody is at a step, and no payment is tried more than three times.
TypeOK == /\ job \in [Clients -> Jobs]
          /\ pc \in [Clients -> Steps \cup Endings]
          /\ left \in [Clients -> SUBSET Votes]
          /\ todo \in [Clients -> Seq(Addresses)]
          /\ attempt \in [Clients -> 0..Retries]
          /\ call \in [Clients -> Calls \cup {NoCall}]
          /\ voted \in [Clients -> BOOLEAN]
          /\ executed \in [Clients -> BOOLEAN]
          /\ report \in [Clients -> [Addresses -> Reports]]
          /\ late \in [Clients -> BOOLEAN]
          /\ txs \in [Clients -> Seq(Txs)]
          /\ phase \in [Votes -> {"none", "open", "closed"}]
          /\ supported \subseteq Votes
          /\ enacted \subseteq Votes
          /\ recent \subseteq Votes
          /\ node \in {"down", "syncing", "synced"}
          /\ past20 \in BOOLEAN
          /\ finalized \in BOOLEAN
          /\ faults \in 0..MaxFaults

\* Transactions that must not both be wanted: two ballots of one auto-vote, on
\* whatever votes, two payments to one address, two executions of one vote.
SamePurpose(c, d) == c.kind = d.kind /\ (c.kind = "vote" \/ c.to = d.to)

\* The retries of payments and the rounds of auto-vote do a thing again only when
\* the first attempt has come to nothing or its answer has been lost: without a
\* lost answer nobody is paid twice and no second ballot is cast.
AgainOnlyIfLost ==
    \A i \in Clients : \A k, l \in DOMAIN txs[i] :
        k < l /\ SamePurpose(txs[i][k].call, txs[i][l].call) =>
            txs[i][k].state = "reverted" \/ txs[i][k].lost

Mined(i, kind) == {k \in DOMAIN txs[i] : txs[i][k].call.kind = kind /\ txs[i][k].state = "ok"}
MinedTo(i, a) == {k \in Mined(i, "pay") : txs[i][k].call.to = a}

\* fund and transfer call an address funded when a payment of theirs to it has been
\* mined, and call it failed when none has, but for lost answers; auto-vote ends
\* well only after a ballot and an execution of its own; waitEL, only on a chain
\* that has taken a transaction or is past its beginning.
ReportsAreTrue ==
    \A i \in Clients :
        /\ \A a \in Addresses :
              /\ report[i][a] = "funded" => MinedTo(i, a) # {}
              /\ report[i][a] = "failed" => \A k \in MinedTo(i, a) : txs[i][k].lost
        /\ job[i].op \in Voters /\ pc[i] = "done" =>
              Mined(i, "vote") # {} /\ Mined(i, "execute") # {}
        /\ job[i].op = "waitEL" /\ pc[i] = "done" =>
              past20 \/ MinedTo(i, Probe) # {}

Ended(i) == pc[i] \in Endings
LosesAnAnswer(i) == \E k \in DOMAIN txs[i] : txs[i][k].lost
Casts(i, v) == \E k \in Mined(i, "vote") : txs[i][k].call.to = v
Enacts(i, v) == \E k \in Mined(i, "execute") : txs[i][k].call.to = v

\* Nobody else gets in the way of vote v: it stays open until i has cast its ballot,
\* stays among the recent ones, and is not executed by others.
LeftTo(i, v) == /\ phase[v] = "closed" => Casts(i, v)
                /\ phase[v] # "none" => v \in recent
                /\ v \in enacted => Enacts(i, v)

\* An auto-vote that is left a vote, on nodes that answer, ends.  Each of the
\* conditions is needed: the loop of auto-vote knows only what it has done itself.
VotersEnd ==
    \A i \in Clients, v \in Votes :
        /\ job[i].op \in Voters
        /\ <>(phase[v] = "open")
        /\ [](LeftTo(i, v) /\ ~LosesAnAnswer(i))
        /\ <>[]Up
        => <>Ended(i)

\* The beacon node's sync wait ends whatever happens, by its deadline at the latest;
\* the execution node's, and payments, unless the node stays away for ever; waitEL
\* and waitCL once it stays; a wait for an epoch, once that is final too.
OthersEnd ==
    \A i \in Clients :
        /\ job[i].op = "waitCLSync" => <>Ended(i)
        /\ job[i].op \in Payers \cup {"waitELSync"} => <>Ended(i) \/ <>[]~Up
        /\ job[i].op \in {"waitEL", "waitCL"} => (<>[]Up => <>Ended(i))
        /\ job[i].op = "waitEpoch" => (<>[]Up /\ <>finalized => <>Ended(i))
=============================================================================
