------------------------- MODULE ChainClientsProofs -------------------------
(***************************************************************************)
(* What TLAPS proves of ChainClients, for any number of clients, jobs,     *)
(* addresses, votes and faults: type correctness, that nothing is done     *)
(* again unless its answer was lost, and that what is reported is true.    *)
(***************************************************************************)
EXTENDS ChainClients, SequenceTheorems, WellFoundedInduction, TLAPS

\* A transaction that may have done, or may still do, what its sender counts on.
Standing(x) == x.state # "reverted" /\ ~x.lost

\* All of i's transactions of this kind but the one it awaits have come to nothing.
NoneStands(i, c) ==
    \A k \in DOMAIN txs[i] :
        SamePurpose(txs[i][k].call, c) /\ Standing(txs[i][k]) =>
            pc[i] = "await" /\ k = Len(txs[i])

(***************************************************************************)
(* The strengthening, for one client.  Each job has its own steps and      *)
(* calls; ...                                                              *)
(***************************************************************************)
OnItsWay(i) ==
    /\ job[i].op \in Voters => pc[i] \in {"prepare", "script", "poll", "next", "decide",
                                          "send", "await"} \cup Endings
    /\ job[i].op \in Payers => pc[i] \in {"start", "pay", "send", "await"} \cup Endings
    /\ job[i].op = "waitEL" => pc[i] \in {"block", "send", "await"} \cup Endings
    /\ job[i].op \notin Voters \cup Payers \cup {"waitEL"} =>
          pc[i] \in {"check", "asked"} \cup Endings

Calling(i) ==
    /\ pc[i] = "decide" => left[i] # {}
    /\ pc[i] \in {"send", "await"} =>
          /\ job[i].op \in Voters => /\ left[i] # {}
                                     /\ call[i].kind \in {"vote", "execute"}
                                     /\ call[i].kind = "vote" => ~voted[i]
          /\ job[i].op \in Payers => /\ todo[i] # <<>>
                                     /\ call[i] = [kind |-> "pay", to |-> Head(todo[i])]
          /\ job[i].op = "waitEL" => call[i] = [kind |-> "pay", to |-> Probe]

(***************************************************************************)
(* ... what it awaits is the last it has sent, and nothing else of it is   *)
(* pending, but for lost answers, while it runs; ...                       *)
(***************************************************************************)
Awaiting(i) ==
    /\ pc[i] = "await" => /\ txs[i] # <<>>
                          /\ Awaited(i).call = call[i]
                          /\ ~Awaited(i).lost
    /\ \A k \in DOMAIN txs[i] :
          txs[i][k].state = "pending" /\ ~txs[i][k].lost /\ pc[i] # "failed" =>
              pc[i] = "await" /\ k = Len(txs[i])

(***************************************************************************)
(* ... and what it still wants it has not got: a ballot, an execution, a   *)
(* payment to an address on its list, a first transaction; ...             *)
(***************************************************************************)
WantsBallot(i) ==
    job[i].op \in Voters /\ ~voted[i] /\ pc[i] # "failed" =>
        \A v \in Votes : NoneStands(i, [kind |-> "vote", to |-> v])

WantsToSend(i) == pc[i] = "send" => NoneStands(i, call[i])

WantsPayments(i) ==
    job[i].op \in Payers /\ pc[i] \notin Endings =>
        \A p \in DOMAIN todo[i] : NoneStands(i, [kind |-> "pay", to |-> todo[i][p]])

WantsProbe(i) ==
    job[i].op = "waitEL" /\ pc[i] \notin Endings => NoneStands(i, [kind |-> "pay", to |-> Probe])

HasEnacted(i) == \A k \in Mined(i, "execute") : txs[i][k].call.to \in enacted

StillWants(i) == /\ WantsBallot(i) /\ WantsToSend(i) /\ WantsPayments(i) /\ WantsProbe(i)
                 /\ HasEnacted(i)

(***************************************************************************)
(* ... its list names everybody once, and nobody it has reported on.       *)
(***************************************************************************)
OnItsList(i) ==
    /\ pc[i] = "start" => /\ txs[i] = <<>>
                          /\ \A a \in Addresses : report[i][a] = "none"
    /\ job[i].op \in Payers =>
          /\ \A p, q \in DOMAIN todo[i] : p # q => todo[i][p] # todo[i][q]
          /\ pc[i] \notin Endings => \A p \in DOMAIN todo[i] : report[i][todo[i][p]] = "none"
    /\ job[i].op \notin Payers => \A a \in Addresses : report[i][a] = "none"

Reported(i) ==
    /\ \A a \in Addresses :
          /\ report[i][a] = "funded" => MinedTo(i, a) # {}
          /\ report[i][a] = "failed" =>
                \A k \in DOMAIN txs[i] :
                    txs[i][k].call = [kind |-> "pay", to |-> a] => ~Standing(txs[i][k])
    /\ voted[i] => Mined(i, "vote") # {}
    /\ executed[i] => Mined(i, "execute") # {}
    /\ job[i].op \in Voters /\ pc[i] = "done" => voted[i] /\ executed[i]
    /\ job[i].op = "waitEL" /\ pc[i] = "done" => past20 \/ MinedTo(i, Probe) # {}

Again(i) == \A k, l \in DOMAIN txs[i] :
                k < l /\ SamePurpose(txs[i][k].call, txs[i][l].call) => ~Standing(txs[i][k])

ClientInv(i) == /\ OnItsWay(i) /\ Calling(i) /\ Awaiting(i) /\ StillWants(i)
                /\ OnItsList(i) /\ Reported(i) /\ Again(i)

IInv == TypeOK /\ \A i \in Clients : ClientInv(i)

-----------------------------------------------------------------------------
Less == {p \in Nat \X Nat : p[1] < p[2]}

LEMMA LessIsWellFounded == IsWellFoundedOn(Less, Nat)
BY NatLessThanWellFounded DEF OpToRel, Less

\* A non-empty set of numbers has a first.
LEMMA FirstIsIn ==
  ASSUME NEW S \in SUBSET Nat, S # {}
  PROVE  First(S) \in S /\ \A w \in S : First(S) <= w
<1>1. PICK x \in S : \A y \in S : ~ (<<y, x>> \in Less)
  BY LessIsWellFounded, WFMin
<1>2. ASSUME NEW y \in S PROVE x <= y
  <2>1. <<y, x>> \in Nat \X Nat /\ ~ (<<y, x>> \in Less)
    BY <1>1
  <2>2. ~ (y < x)
    BY <2>1 DEF Less
  <2> QED
    BY <2>2
<1> QED
  BY <1>2 DEF First

\* The vote a round is at is one of the votes.
LEMMA VoteeIsAVote ==
  ASSUME TypeOK, NEW i \in Clients, left[i] # {}
  PROVE  Votee(i) \in left[i] /\ Votee(i) \in Votes
<1>1. left[i] \in SUBSET Nat
  BY ChainClientsAssumption DEF TypeOK, Votes
<1>2. Votee(i) \in left[i]
  BY <1>1, FirstIsIn DEF Votee
<1> QED
  BY <1>2 DEF TypeOK

-----------------------------------------------------------------------------
\* All that belongs to client j is as it was.
Same(j) == /\ job'[j] = job[j] /\ pc'[j] = pc[j] /\ left'[j] = left[j] /\ todo'[j] = todo[j]
           /\ attempt'[j] = attempt[j] /\ call'[j] = call[j] /\ voted'[j] = voted[j]
           /\ executed'[j] = executed[j] /\ report'[j] = report[j] /\ txs'[j] = txs[j]

\* What is enacted and the 20 blocks stay.
Onwards == enacted \subseteq enacted' /\ (past20 => past20')

\* A client that does nothing, and whose transactions are not mined, stays in ClientInv.
LEMMA OthersStay ==
  ASSUME NEW j \in Clients, ClientInv(j), Same(j), Onwards
  PROVE  ClientInv(j)'
<1>1. OnItsWay(j)'
  BY DEF ClientInv, OnItsWay, Same
<1>2. Calling(j)'
  BY DEF ClientInv, Calling, Same
<1>3. Awaiting(j)'
  BY DEF ClientInv, Awaiting, Awaited, Same
<1>4. StillWants(j)'
  <2>1. WantsBallot(j)'
    BY DEF ClientInv, StillWants, WantsBallot, NoneStands, Same
  <2>2. WantsToSend(j)'
    BY DEF ClientInv, StillWants, WantsToSend, NoneStands, Same
  <2>3. WantsPayments(j)'
    <3> SUFFICES ASSUME job'[j].op \in Payers, pc'[j] \notin Endings, NEW p \in DOMAIN todo'[j],
                        NEW k \in DOMAIN txs'[j],
                        SamePurpose(txs'[j][k].call, [kind |-> "pay", to |-> todo'[j][p]]),
                        Standing(txs'[j][k])
                 PROVE  pc'[j] = "await" /\ k = Len(txs'[j])
      BY DEF WantsPayments, NoneStands
    <3>1. NoneStands(j, [kind |-> "pay", to |-> todo[j][p]])
      BY DEF ClientInv, StillWants, WantsPayments, Same
    <3> QED
      BY <3>1 DEF NoneStands, Same
  <2>4. WantsProbe(j)'
    BY DEF ClientInv, StillWants, WantsProbe, NoneStands, Same
  <2>5. HasEnacted(j)'
    BY DEF ClientInv, StillWants, HasEnacted, Mined, Same, Onwards
  <2> QED
    BY <2>1, <2>2, <2>3, <2>4, <2>5 DEF StillWants
<1>5. OnItsList(j)'
  BY DEF ClientInv, OnItsList, Same
<1>6. Reported(j)'
  BY DEF ClientInv, Reported, Mined, MinedTo, Same, Onwards
<1>7. Again(j)'
  BY DEF ClientInv, Again, Same
<1> QED
  BY <1>1, <1>2, <1>3, <1>4, <1>5, <1>6, <1>7 DEF ClientInv

-----------------------------------------------------------------------------
\* ChainClients starts in a state of the inductive invariant.
LEMMA InitIInv == Init => IInv
<1> SUFFICES ASSUME Init PROVE IInv
  OBVIOUS
<1>1. TypeOK
  <2>1. \A j \in Jobs : Start[j.op] \in Steps
    BY ChainClientsAssumption DEF Start, Steps, Voters, Payers, Waits
  <2>2. pc \in [Clients -> Steps \cup Endings]
    BY <2>1 DEF Init
  <2>3. todo \in [Clients -> Seq(Addresses)] /\ txs \in [Clients -> Seq(Txs)]
    BY DEF Init
  <2> QED
    BY <2>2, <2>3, ChainClientsAssumption DEF Init, TypeOK, Reports, Votes, Retries
<1>2. ASSUME NEW i \in Clients PROVE ClientInv(i)
  <2> USE <1>2
  <2>0. txs[i] = <<>> /\ todo[i] = <<>> /\ DOMAIN txs[i] = {} /\ DOMAIN todo[i] = {}
    BY DEF Init
  <2>1. job[i].op \in Voters \cup Payers \cup Waits /\ pc[i] = Start[job[i].op]
    BY ChainClientsAssumption DEF Init
  <2>2. OnItsWay(i)
    BY <2>1 DEF OnItsWay, Start, Voters, Payers, Waits
  <2>3. pc[i] \notin {"decide", "send", "await", "failed", "done"}
    BY <2>1 DEF Start, Voters, Payers, Waits
  <2>4. Calling(i) /\ Awaiting(i)
    BY <2>0, <2>3 DEF Calling, Awaiting
  <2>5. \A c : NoneStands(i, c)
    BY <2>0 DEF NoneStands
  <2>6. StillWants(i)
    BY <2>0, <2>5 DEF StillWants, WantsBallot, WantsToSend, WantsPayments, WantsProbe,
                      HasEnacted, Mined
  <2>7. OnItsList(i)
    BY <2>0 DEF Init, OnItsList
  <2>8. Reported(i)
    BY <2>3 DEF Init, Reported
  <2>9. Again(i)
    BY <2>0 DEF Again
  <2> QED
    BY <2>2, <2>4, <2>6, <2>7, <2>8, <2>9 DEF ClientInv
<1> QED
  BY <1>1, <1>2 DEF IInv

-----------------------------------------------------------------------------
\* The transactions of a client are a sequence, whose elements are transactions.
LEMMA TxsOf ==
  ASSUME TypeOK, NEW i \in Clients
  PROVE  /\ txs[i] \in Seq(Txs)
         /\ Len(txs[i]) \in Nat
         /\ DOMAIN txs[i] = 1..Len(txs[i])
         /\ \A k \in DOMAIN txs[i] : txs[i][k] \in Txs
<1>1. txs[i] \in Seq(Txs)
  BY DEF TypeOK
<1> QED
  BY <1>1, LenProperties, ElementOfSeq

\* Marking one of them leaves the others, and what was sent.
LEMMA Marked ==
  ASSUME TypeOK, NEW i \in Clients, NEW k \in DOMAIN txs[i], NEW x \in Txs,
         txs' = [txs EXCEPT ![i] = [txs[i] EXCEPT ![k] = x]]
  PROVE  /\ txs' \in [Clients -> Seq(Txs)]
         /\ DOMAIN txs'[i] = DOMAIN txs[i]
         /\ Len(txs'[i]) = Len(txs[i])
         /\ \A l \in DOMAIN txs[i] : txs'[i][l] = IF l = k THEN x ELSE txs[i][l]
         /\ \A j \in Clients : j # i => txs'[j] = txs[j]
<1>1. txs[i] \in Seq(Txs) /\ k \in 1..Len(txs[i]) /\ DOMAIN txs[i] = 1..Len(txs[i])
  BY TxsOf
<1>2. txs'[i] = [txs[i] EXCEPT ![k] = x]
  BY DEF TypeOK
<1>3. /\ [txs[i] EXCEPT ![k] = x] \in Seq(Txs)
      /\ Len([txs[i] EXCEPT ![k] = x]) = Len(txs[i])
      /\ \A l \in 1..Len(txs[i]) : [txs[i] EXCEPT ![k] = x][l] = IF l = k THEN x ELSE txs[i][l]
  BY <1>1, ExceptSeq
<1>4. txs' \in [Clients -> Seq(Txs)]
  BY <1>2, <1>3 DEF TypeOK
<1> QED
  BY <1>1, <1>2, <1>3, <1>4, LenProperties DEF TypeOK

\* What is marked stays a transaction.
LEMMA MarkedLost ==
  ASSUME NEW y \in Txs
  PROVE  [y EXCEPT !.lost = TRUE] \in Txs
BY DEF Txs

LEMMA MarkedMined ==
  ASSUME NEW y \in Txs, NEW outcome \in {"ok", "reverted"}
  PROVE  [y EXCEPT !.state = outcome] \in Txs
BY DEF Txs

\* Sending adds one at the end.
LEMMA Sent ==
  ASSUME TypeOK, NEW i \in Clients, NEW x \in Txs,
         txs' = [txs EXCEPT ![i] = Append(txs[i], x)]
  PROVE  /\ txs' \in [Clients -> Seq(Txs)]
         /\ Len(txs'[i]) = Len(txs[i]) + 1
         /\ DOMAIN txs'[i] = DOMAIN txs[i] \cup {Len(txs[i]) + 1}
         /\ Len(txs[i]) + 1 \notin DOMAIN txs[i]
         /\ \A l \in DOMAIN txs[i] : txs'[i][l] = txs[i][l]
         /\ txs'[i][Len(txs[i]) + 1] = x
         /\ \A j \in Clients : j # i => txs'[j] = txs[j]
<1>1. /\ txs[i] \in Seq(Txs) /\ Len(txs[i]) \in Nat
      /\ DOMAIN txs[i] = 1..Len(txs[i])
  BY TxsOf
<1>2. txs'[i] = Append(txs[i], x)
  BY DEF TypeOK
<1>3. /\ Append(txs[i], x) \in Seq(Txs)
      /\ Len(Append(txs[i], x)) = Len(txs[i]) + 1
      /\ \A l \in 1..Len(txs[i]) : Append(txs[i], x)[l] = txs[i][l]
      /\ Append(txs[i], x)[Len(txs[i]) + 1] = x
  BY <1>1, AppendProperties
<1>4. DOMAIN Append(txs[i], x) = 1..(Len(txs[i]) + 1)
  BY <1>3, LenProperties
<1>5. txs' \in [Clients -> Seq(Txs)]
  BY <1>2, <1>3 DEF TypeOK
<1> QED
  BY <1>1, <1>2, <1>3, <1>4, <1>5 DEF TypeOK

-----------------------------------------------------------------------------
\* Type correctness, in two halves.
ClientTypes == /\ job \in [Clients -> Jobs]
               /\ pc \in [Clients -> Steps \cup Endings]
               /\ left \in [Clients -> SUBSET Votes]
               /\ todo \in [Clients -> Seq(Addresses)]
               /\ attempt \in [Clients -> 0..Retries]
               /\ call \in [Clients -> Calls \cup {NoCall}]
               /\ voted \in [Clients -> BOOLEAN]
               /\ executed \in [Clients -> BOOLEAN]
               /\ report \in [Clients -> [Addresses -> Reports]]
               /\ late \in [Clients -> BOOLEAN]

ChainTypes == /\ phase \in [Votes -> {"none", "open", "closed"}]
              /\ supported \subseteq Votes
              /\ enacted \subseteq Votes
              /\ recent \subseteq Votes
              /\ node \in {"down", "syncing", "synced"}
              /\ past20 \in BOOLEAN
              /\ finalized \in BOOLEAN
              /\ faults \in 0..MaxFaults

LEMMA Halves == TypeOK <=> ClientTypes /\ txs \in [Clients -> Seq(Txs)] /\ ChainTypes
BY DEF TypeOK, ClientTypes, ChainTypes

LEMMA HalvesNext == TypeOK' <=> ClientTypes' /\ txs' \in [Clients -> Seq(Txs)] /\ ChainTypes'
BY DEF TypeOK, ClientTypes, ChainTypes

\* Nothing else of the clients changes but what is i's.
OnlyOf(i) == \A j \in Clients :
    j # i => /\ job'[j] = job[j] /\ pc'[j] = pc[j] /\ left'[j] = left[j] /\ todo'[j] = todo[j]
             /\ attempt'[j] = attempt[j] /\ call'[j] = call[j] /\ voted'[j] = voted[j]
             /\ executed'[j] = executed[j] /\ report'[j] = report[j]

LEMMA HeadOfList ==
  ASSUME TypeOK, NEW i \in Clients, todo[i] # <<>>
  PROVE  Head(todo[i]) \in Addresses /\ Tail(todo[i]) \in Seq(Addresses)
<1>1. todo[i] \in Seq(Addresses)
  BY DEF TypeOK
<1> QED
  BY <1>1, HeadTailProperties

\* The address at the head of the list is reported on and taken off.
LEMMA NextAddressTypes ==
  ASSUME TypeOK, NEW i \in Clients, NEW said \in Reports, todo[i] # <<>>, NextAddress(i, said)
  PROVE  /\ report' \in [Clients -> [Addresses -> Reports]]
         /\ todo' \in [Clients -> Seq(Addresses)]
         /\ pc' = [pc EXCEPT ![i] = "pay"]
         /\ report'[i] = [report[i] EXCEPT ![Head(todo[i])] = said]
         /\ todo'[i] = Tail(todo[i])
         /\ \A j \in Clients : j # i => report'[j] = report[j] /\ todo'[j] = todo[j]
<1>1. Head(todo[i]) \in Addresses /\ Tail(todo[i]) \in Seq(Addresses)
  BY HeadOfList
<1>2. /\ report' = [report EXCEPT ![i][Head(todo[i])] = said]
      /\ todo' = [todo EXCEPT ![i] = Tail(@)]
      /\ pc' = [pc EXCEPT ![i] = "pay"]
  BY DEF NextAddress, GoesTo
<1> QED
  BY <1>1, <1>2 DEF TypeOK

\* So it is by transfer, which keeps its list.
LEMMA SettledTypes ==
  ASSUME TypeOK, NEW i \in Clients, NEW said \in {"funded", "failed"}, todo[i] # <<>>,
         Settled(i, said)
  PROVE  /\ report' \in [Clients -> [Addresses -> Reports]]
         /\ todo' \in [Clients -> Seq(Addresses)]
         /\ report'[i] = [report[i] EXCEPT ![Head(todo[i])] = said]
         /\ \/ pc' = [pc EXCEPT ![i] = "pay"] /\ todo'[i] = Tail(todo[i])
            \/ \E e \in Endings : pc' = [pc EXCEPT ![i] = e] /\ todo'[i] = todo[i]
         /\ \A j \in Clients : j # i => report'[j] = report[j] /\ todo'[j] = todo[j]
<1>0. said \in Reports
  BY DEF Reports
<1>1. CASE job[i].op = "fund"
  <2>1. NextAddress(i, said)
    BY <1>1 DEF Settled
  <2> QED
    BY <1>0, <2>1, NextAddressTypes
<1>2. CASE job[i].op # "fund"
  <2>1. /\ report' = [report EXCEPT ![i][Head(todo[i])] = said]
        /\ todo' = todo
        /\ pc' = [pc EXCEPT ![i] = IF said = "funded" THEN "done" ELSE "failed"]
    BY <1>2 DEF Settled, GoesTo
  <2>2. Head(todo[i]) \in Addresses
    BY HeadOfList
  <2>3. \E e \in Endings : pc' = [pc EXCEPT ![i] = e]
    BY <2>1 DEF Endings
  <2> QED
    BY <1>0, <2>1, <2>2, <2>3 DEF TypeOK
<1> QED
  BY <1>1, <1>2

\* A call that succeeds.
LEMMA SuccessTypes ==
  ASSUME TypeOK, NEW i \in Clients, ClientInv(i), pc[i] = "await", Success(i)
  PROVE  ClientTypes' /\ OnlyOf(i)
<1>1. /\ job' = job /\ attempt' = attempt /\ call' = call /\ late' = late
  BY DEF Success
<1>2. CASE job[i].op \in Voters
  <2>1. CASE call[i].kind = "vote"
    <3>1. VoteCast(i)
      BY <1>2, <2>1 DEF Success, Voters, Payers
    <3> QED
      BY <1>1, <3>1 DEF VoteCast, GoesTo, TypeOK, ClientTypes, OnlyOf, Steps
  <2>2. CASE call[i].kind = "execute"
    <3>1. VoteEnacted(i)
      BY <1>2, <2>2 DEF Success, Voters, Payers
    <3> QED
      BY <1>1, <3>1 DEF VoteEnacted, SetAside, GoesTo, TypeOK, ClientTypes, OnlyOf, Steps
  <2> QED
    BY <1>2, <2>1, <2>2 DEF ClientInv, Calling
<1>3. CASE job[i].op \in Payers
  <2>1. Settled(i, "funded") /\ left' = left /\ voted' = voted /\ executed' = executed
    BY <1>3 DEF Success, Voters, Payers
  <2>2. todo[i] # <<>>
    BY <1>3 DEF ClientInv, Calling
  <2>3. /\ report' \in [Clients -> [Addresses -> Reports]]
        /\ todo' \in [Clients -> Seq(Addresses)]
        /\ \E e \in Endings \cup {"pay"} : pc' = [pc EXCEPT ![i] = e]
        /\ \A j \in Clients : j # i => report'[j] = report[j] /\ todo'[j] = todo[j]
    BY <2>1, <2>2, SettledTypes
  <2> QED
    BY <1>1, <2>1, <2>3 DEF TypeOK, ClientTypes, OnlyOf, Steps
<1>4. CASE job[i].op = "waitEL"
  <2>1. GoesTo(i, "done") /\ UNCHANGED <<left, todo, voted, executed, report>>
    BY <1>4 DEF Success, Voters, Payers
  <2> QED
    BY <1>1, <2>1 DEF GoesTo, TypeOK, ClientTypes, OnlyOf, Endings
<1> QED
  BY <1>2, <1>3, <1>4 DEF Success

\* A call that throws.
LEMMA FailureTypes ==
  ASSUME TypeOK, NEW i \in Clients, ClientInv(i), pc[i] \in {"send", "await"}, Failure(i)
  PROVE  ClientTypes' /\ OnlyOf(i)
<1>1. job' = job /\ call' = call /\ voted' = voted /\ executed' = executed /\ late' = late
  BY DEF Failure
<1>0. attempt[i] \in 0..Retries
  BY DEF TypeOK
<1>2. CASE job[i].op \in Voters
  <2>1. SetAside(i) /\ UNCHANGED <<todo, attempt, report>>
    BY <1>2 DEF Failure, Voters, Payers
  <2> QED
    BY <1>1, <2>1 DEF SetAside, GoesTo, TypeOK, ClientTypes, OnlyOf, Steps
<1>3. CASE job[i].op \in Payers /\ attempt[i] < Retries
  <2>1. /\ attempt' = [attempt EXCEPT ![i] = @ + 1]
        /\ GoesTo(i, "send")
        /\ UNCHANGED <<left, todo, report>>
    BY <1>3, <1>0 DEF Failure, Voters, Payers, Retries
  <2>2. attempt[i] + 1 \in 0..Retries
    BY <1>0, <1>3 DEF Retries
  <2> QED
    BY <1>1, <2>1, <2>2 DEF GoesTo, TypeOK, ClientTypes, OnlyOf, Steps
<1>4. CASE job[i].op \in Payers /\ attempt[i] >= Retries
  <2>1. Settled(i, "failed") /\ left' = left /\ attempt' = attempt
    BY <1>4, <1>0 DEF Failure, Voters, Payers, Retries
  <2>2. todo[i] # <<>>
    BY <1>4 DEF ClientInv, Calling
  <2>3. /\ report' \in [Clients -> [Addresses -> Reports]]
        /\ todo' \in [Clients -> Seq(Addresses)]
        /\ \E e \in Endings \cup {"pay"} : pc' = [pc EXCEPT ![i] = e]
        /\ \A j \in Clients : j # i => report'[j] = report[j] /\ todo'[j] = todo[j]
    BY <2>1, <2>2, SettledTypes
  <2> QED
    BY <1>1, <2>1, <2>3 DEF TypeOK, ClientTypes, OnlyOf, Steps
<1>5. CASE job[i].op = "waitEL"
  <2>1. GoesTo(i, "send") /\ UNCHANGED <<left, todo, attempt, report>>
    BY <1>5 DEF Failure, Voters, Payers
  <2> QED
    BY <1>1, <2>1 DEF GoesTo, TypeOK, ClientTypes, OnlyOf, Steps
<1> QED
  BY <1>2, <1>3, <1>4, <1>5 DEF Failure

\* What the assumption on the jobs says of a client's.
LEMMA JobFacts ==
  ASSUME TypeOK, NEW i \in Clients
  PROVE  /\ job[i].op \in Voters \cup Payers \cup Waits
         /\ job[i].op \in Payers =>
               /\ job[i].to \in Seq(Addresses)
               /\ \A p, q \in DOMAIN job[i].to : p # q => job[i].to[p] # job[i].to[q]
<1>1. job[i] \in Jobs
  BY DEF TypeOK
<1> QED
  BY <1>1, ChainClientsAssumption

\* What a step of client i, or of the chain on its behalf, leaves: everything has its
\* type, and all that belongs to the others is as it was.
Keeps(i) == TypeOK' /\ (\A j \in Clients : j # i => Same(j)) /\ Onwards

\* A step of a client that leaves the transactions and the chain.
LEMMA KeepsAlone ==
  ASSUME TypeOK, NEW i \in Clients, ClientTypes', OnlyOf(i), UNCHANGED txs, ChainTypes', Onwards
  PROVE  Keeps(i)
<1>1. TypeOK'
  BY HalvesNext DEF TypeOK
<1> QED
  BY <1>1 DEF Keeps, OnlyOf, Same

LEMMA ChainStays ==
  ASSUME TypeOK, UNCHANGED chain, faults' \in 0..MaxFaults
  PROVE  ChainTypes' /\ Onwards
BY DEF TypeOK, chain, contract, ChainTypes, Onwards

LEMMA FaultCounts ==
  ASSUME TypeOK, Fault
  PROVE  faults' \in 0..MaxFaults
BY ChainClientsAssumption DEF TypeOK, Fault

LEMMA NewVoteTypes ==
  ASSUME TypeOK, NewVote, UNCHANGED <<node, past20, finalized, faults>>
  PROVE  ChainTypes' /\ Onwards
<1>1. Votes \ Started # {} /\ Votes \ Started \in SUBSET Nat
  BY ChainClientsAssumption DEF NewVote, Started, Votes
<1>2. First(Votes \ Started) \in Votes
  BY <1>1, FirstIsIn
<1> DEFINE v == First(Votes \ Started)
<1>3. /\ phase' = [phase EXCEPT ![v] = "open"]
      /\ recent' = recent \cup {v}
      /\ supported' = supported /\ enacted' = enacted
  BY DEF NewVote
<1> QED
  BY <1>2, <1>3 DEF TypeOK, ChainTypes, Onwards

\* The steps that do no more than go somewhere.
LEMMA GoesToTypes ==
  ASSUME TypeOK, NEW i \in Clients, NEW step \in Steps \cup Endings, GoesTo(i, step),
         UNCHANGED client
  PROVE  ClientTypes' /\ OnlyOf(i)
BY DEF TypeOK, GoesTo, client, ClientTypes, OnlyOf

\* A step of the client itself that sends nothing.
Local(i) == \/ Prepare(i) \/ RunScript(i)
            \/ RoundBegins(i) \/ AskVote(i) \/ AskExecute(i) \/ RoundEnds(i)
            \/ BeginPaying(i) \/ PayNext(i) \/ AllPaid(i)
            \/ AskBlock(i) \/ CheckDeadline(i) \/ Answered(i)

LEMMA LocalKeeps ==
  ASSUME TypeOK, NEW i \in Clients, ClientInv(i), Local(i)
  PROVE  Keeps(i)
<1>0. faults \in 0..MaxFaults
  BY DEF TypeOK
<1> USE DEF TypeOK, ClientTypes, OnlyOf
<1>1. CASE Prepare(i)
  <2>1. ClientTypes' /\ OnlyOf(i)
    BY <1>1, GoesToTypes DEF Prepare, Steps
  <2> QED
    BY <1>0, <1>1, <2>1, ChainStays, KeepsAlone DEF Prepare
<1>2. CASE RunScript(i)
  <2>1. ClientTypes' /\ OnlyOf(i)
    BY <1>2, GoesToTypes DEF RunScript, Steps
  <2> QED
    BY <1>2, <2>1, NewVoteTypes, KeepsAlone DEF RunScript
<1>3. CASE RoundBegins(i)
  <2>1. Started \cap recent \in SUBSET Votes
    BY DEF Started
  <2>2. ClientTypes' /\ OnlyOf(i)
    BY <1>3, <2>1 DEF RoundBegins, GoesTo, Steps
  <2> QED
    BY <1>0, <1>3, <2>2, ChainStays, KeepsAlone DEF RoundBegins
<1>4. CASE AskVote(i)
  <2>1. Votee(i) \in Votes
    BY <1>4, VoteeIsAVote DEF AskVote
  <2>2. [kind |-> "vote", to |-> Votee(i)] \in Calls
    BY <2>1 DEF Calls
  <2>3. ClientTypes' /\ OnlyOf(i)
    <3>1. CASE CanVote(Votee(i)) /\ ~voted[i]
      BY <1>4, <2>2, <3>1 DEF AskVote, GoesTo, Steps
    <3>2. CASE ~ (CanVote(Votee(i)) /\ ~voted[i])
      BY <1>4, <3>2 DEF AskVote, GoesTo, Steps
    <3> QED
      BY <3>1, <3>2
  <2> QED
    BY <1>0, <1>4, <2>3, ChainStays, KeepsAlone DEF AskVote
<1>5. CASE AskExecute(i)
  <2>0. left[i] # {}
    BY <1>5 DEF AskExecute, ClientInv, Calling
  <2>1. Votee(i) \in Votes
    BY <2>0, VoteeIsAVote
  <2>2. [kind |-> "execute", to |-> Votee(i)] \in Calls
    BY <2>1 DEF Calls
  <2>3. ClientTypes' /\ OnlyOf(i)
    <3>1. CASE CanExecute(Votee(i))
      BY <1>5, <2>2, <3>1 DEF AskExecute, GoesTo, Steps
    <3>2. CASE ~ CanExecute(Votee(i))
      <4>1. SetAside(i) /\ UNCHANGED <<job, todo, attempt, call, voted, executed, report, late>>
        BY <1>5, <3>2 DEF AskExecute
      <4>2. /\ left' = [left EXCEPT ![i] = left[i] \ {Votee(i)}]
            /\ pc' = [pc EXCEPT ![i] = "next"]
        BY <4>1 DEF SetAside, GoesTo
      <4> QED
        BY <4>1, <4>2 DEF Steps
    <3> QED
      BY <3>1, <3>2
  <2> QED
    BY <1>0, <1>5, <2>3, ChainStays, KeepsAlone DEF AskExecute
<1>6. CASE RoundEnds(i)
  <2>1. ClientTypes' /\ OnlyOf(i)
    BY <1>6, GoesToTypes DEF RoundEnds, Steps, Endings
  <2> QED
    BY <1>0, <1>6, <2>1, ChainStays, KeepsAlone DEF RoundEnds
<1>7. CASE BeginPaying(i)
  <2>1. job[i].to \in Seq(Addresses)
    <3>1. pc[i] = "start"
      BY <1>7 DEF BeginPaying
    <3>2. job[i].op \in Payers
      BY <3>1, JobFacts DEF ClientInv, OnItsWay, Endings, Waits
    <3> QED
      BY <3>2, JobFacts
  <2>2. ClientTypes' /\ OnlyOf(i)
    BY <1>7, <2>1 DEF BeginPaying, GoesTo, Steps
  <2> QED
    BY <1>0, <1>7, <2>2, ChainStays, KeepsAlone DEF BeginPaying
<1>8. CASE PayNext(i)
  <2>1. todo[i] # <<>> /\ Head(todo[i]) \in Addresses
    BY <1>8, HeadOfList DEF PayNext
  <2>2. CASE job[i].op = "fund" /\ Head(todo[i]) = job[i].funder
    <3>1. NextAddress(i, "skipped") /\ "skipped" \in Reports
      BY <1>8, <2>2 DEF PayNext, Reports
    <3>2. /\ report' \in [Clients -> [Addresses -> Reports]]
          /\ todo' \in [Clients -> Seq(Addresses)]
          /\ pc' = [pc EXCEPT ![i] = "pay"]
          /\ \A j \in Clients : j # i => report'[j] = report[j] /\ todo'[j] = todo[j]
      BY <2>1, <3>1, NextAddressTypes
    <3>3. UNCHANGED <<job, left, attempt, call, voted, executed, late>>
      BY <1>8, <2>2 DEF PayNext
    <3>4. ClientTypes' /\ OnlyOf(i)
      BY <1>0, <1>8, <3>2, <3>3 DEF Steps
    <3>5. UNCHANGED <<chain, faults, txs>>
      BY <1>8 DEF PayNext
    <3> QED
      BY <1>0, <3>4, <3>5, ChainStays, KeepsAlone
  <2>3. CASE ~ (job[i].op = "fund" /\ Head(todo[i]) = job[i].funder)
    <3>1. [kind |-> "pay", to |-> Head(todo[i])] \in Calls
      BY <2>1 DEF Calls
    <3>2. ClientTypes' /\ OnlyOf(i)
      <4>1. /\ call' = [call EXCEPT ![i] = [kind |-> "pay", to |-> Head(todo[i])]]
            /\ attempt' = [attempt EXCEPT ![i] = 1]
            /\ pc' = [pc EXCEPT ![i] = "send"]
            /\ UNCHANGED <<job, left, todo, voted, executed, report, late>>
        BY <1>8, <2>3 DEF PayNext, GoesTo
      <4> QED
        BY <3>1, <4>1 DEF Steps, Retries
    <3> QED
      BY <1>0, <1>8, <3>2, ChainStays, KeepsAlone DEF PayNext
  <2> QED
    BY <2>2, <2>3
<1>9. CASE AllPaid(i)
  <2>1. ClientTypes' /\ OnlyOf(i)
    BY <1>9, GoesToTypes DEF AllPaid, Endings
  <2> QED
    BY <1>0, <1>9, <2>1, ChainStays, KeepsAlone DEF AllPaid
<1>10. CASE AskBlock(i)
  <2>1. [kind |-> "pay", to |-> Probe] \in Calls
    BY DEF Calls
  <2>2. ClientTypes' /\ OnlyOf(i)
    <3>1. CASE past20
      BY <1>10, <3>1 DEF AskBlock, GoesTo, Endings
    <3>2. CASE ~past20
      BY <1>10, <2>1, <3>2 DEF AskBlock, GoesTo, Steps
    <3> QED
      BY <3>1, <3>2
  <2> QED
    BY <1>0, <1>10, <2>2, ChainStays, KeepsAlone DEF AskBlock
<1>11. CASE CheckDeadline(i)
  <2>1. ClientTypes' /\ OnlyOf(i)
    BY <1>11, GoesToTypes DEF CheckDeadline, Steps, Endings
  <2> QED
    BY <1>0, <1>11, <2>1, ChainStays, KeepsAlone DEF CheckDeadline
<1>12. CASE Answered(i)
  <2>1. ClientTypes' /\ OnlyOf(i)
    BY <1>12, GoesToTypes DEF Answered, Steps, Endings
  <2> QED
    BY <1>0, <1>12, <2>1, ChainStays, KeepsAlone DEF Answered
<1> QED
  BY <1>1, <1>2, <1>3, <1>4, <1>5, <1>6, <1>7, <1>8, <1>9, <1>10, <1>11, <1>12 DEF Local

\* The same of a step that leaves the chain and marks what was sent.
LEMMA KeepsMarking ==
  ASSUME TypeOK, NEW i \in Clients, ClientTypes', OnlyOf(i), txs' \in [Clients -> Seq(Txs)],
         \A j \in Clients : j # i => txs'[j] = txs[j], ChainTypes', Onwards
  PROVE  Keeps(i)
<1>1. TypeOK'
  BY HalvesNext
<1> QED
  BY <1>1 DEF Keeps, OnlyOf, Same

LEMMA SendKeeps ==
  ASSUME TypeOK, NEW i \in Clients, ClientInv(i), Send(i)
  PROVE  Keeps(i) /\ txs' = [txs EXCEPT ![i] = Append(txs[i], [call |-> call[i],
                                                state |-> "pending", lost |-> FALSE])]
<1> DEFINE x == [call |-> call[i], state |-> "pending", lost |-> FALSE]
<1>1. call[i] \in Calls
  <2>1. call[i].kind # "none"
    <3>1. job[i].op \in Voters \cup Payers \cup {"waitEL"}
      BY JobFacts DEF Send, ClientInv, OnItsWay, Endings
    <3> QED
      BY <3>1 DEF Send, ClientInv, Calling
  <2>2. call[i] \in Calls \cup {NoCall}
    BY DEF TypeOK
  <2> QED
    BY <2>1, <2>2 DEF NoCall
<1>2. x \in Txs
  BY <1>1 DEF Txs
<1>3. txs' = [txs EXCEPT ![i] = Append(txs[i], x)]
  BY DEF Send, TypeOK
<1>4. txs' \in [Clients -> Seq(Txs)] /\ \A j \in Clients : j # i => txs'[j] = txs[j]
  <2> HIDE DEF x
  <2> QED
    BY <1>2, <1>3, Sent
<1>5. ClientTypes' /\ OnlyOf(i)
  BY GoesToTypes DEF Send, Steps
<1>6. faults' \in 0..MaxFaults
  BY DEF Send, TypeOK
<1> QED
  BY <1>3, <1>4, <1>5, <1>6, ChainStays, KeepsMarking DEF Send

LEMMA ReceiptKeeps ==
  ASSUME TypeOK, NEW i \in Clients, ClientInv(i), Receipt(i)
  PROVE  Keeps(i)
<1>1. ClientTypes' /\ OnlyOf(i)
  BY SuccessTypes, FailureTypes DEF Receipt
<1>2. faults' \in 0..MaxFaults
  BY DEF Receipt, TypeOK
<1> QED
  BY <1>1, <1>2, ChainStays, KeepsAlone DEF Receipt

LEMMA RefusedKeeps ==
  ASSUME TypeOK, NEW i \in Clients, ClientInv(i), Refused(i)
  PROVE  Keeps(i)
<1>1. ClientTypes' /\ OnlyOf(i)
  BY FailureTypes DEF Refused
<1>2. faults' \in 0..MaxFaults
  BY FaultCounts DEF Refused
<1> QED
  BY <1>1, <1>2, ChainStays, KeepsAlone DEF Refused

LEMMA ReceiptLostKeeps ==
  ASSUME TypeOK, NEW i \in Clients, ClientInv(i), ReceiptLost(i)
  PROVE  /\ Keeps(i)
         /\ DOMAIN txs'[i] = DOMAIN txs[i]
         /\ Len(txs'[i]) = Len(txs[i])
         /\ Len(txs[i]) \in DOMAIN txs[i]
         /\ \A l \in DOMAIN txs[i] :
               txs'[i][l] = IF l = Len(txs[i]) THEN [txs[i][l] EXCEPT !.lost = TRUE]
                                               ELSE txs[i][l]
<1> DEFINE n == Len(txs[i])
           x == [txs[i][n] EXCEPT !.lost = TRUE]
<1>1. n \in DOMAIN txs[i]
  <2>1. txs[i] # <<>>
    BY DEF ReceiptLost, ClientInv, Awaiting
  <2>2. txs[i] \in Seq(Txs)
    BY TxsOf
  <2>3. n # 0
    BY <2>1, <2>2, EmptySeq
  <2> QED
    BY <2>3, TxsOf
<1>2. x \in Txs
  <2>1. txs[i][n] \in Txs
    BY <1>1, TxsOf
  <2> QED
    BY <2>1, MarkedLost
<1>3. txs' = [txs EXCEPT ![i] = [txs[i] EXCEPT ![n] = x]]
  BY <1>1 DEF ReceiptLost, TypeOK
<1>4. /\ txs' \in [Clients -> Seq(Txs)]
      /\ DOMAIN txs'[i] = DOMAIN txs[i]
      /\ Len(txs'[i]) = n
      /\ \A l \in DOMAIN txs[i] : txs'[i][l] = IF l = n THEN x ELSE txs[i][l]
      /\ \A j \in Clients : j # i => txs'[j] = txs[j]
  <2> HIDE DEF x
  <2> QED
    BY <1>1, <1>2, <1>3, Marked
<1>5. ClientTypes' /\ OnlyOf(i)
  BY FailureTypes DEF ReceiptLost
<1>6. faults' \in 0..MaxFaults
  BY FaultCounts DEF ReceiptLost
<1>7. Keeps(i)
  BY <1>4, <1>5, <1>6, ChainStays, KeepsMarking DEF ReceiptLost
<1> QED
  BY <1>1, <1>4, <1>7

LEMMA UnreachableKeeps ==
  ASSUME TypeOK, NEW i \in Clients, ClientInv(i), Unreachable(i)
  PROVE  Keeps(i)
<1>1. ClientTypes' /\ OnlyOf(i)
  <2>1. CASE pc[i] \in {"poll", "start", "block"}
    <3>1. GoesTo(i, "failed") /\ UNCHANGED client
      BY <2>1 DEF Unreachable
    <3> QED
      BY <3>1, GoesToTypes DEF Endings
  <2>2. CASE pc[i] \in {"next", "decide"}
    <3>1. SetAside(i) /\ UNCHANGED <<job, todo, attempt, call, voted, executed, report, late>>
      BY <2>2 DEF Unreachable
    <3>2. /\ left' = [left EXCEPT ![i] = left[i] \ {Votee(i)}]
          /\ pc' = [pc EXCEPT ![i] = "next"]
      BY <3>1 DEF SetAside, GoesTo
    <3> QED
      BY <3>1, <3>2 DEF Steps, TypeOK, ClientTypes, OnlyOf
  <2>3. CASE pc[i] = "send"
    BY <2>3, FailureTypes DEF Unreachable
  <2>4. CASE pc[i] = "asked"
    <3>1. GoesTo(i, "check") /\ UNCHANGED client
      BY <2>4 DEF Unreachable
    <3> QED
      BY <3>1, GoesToTypes DEF Steps
  <2> QED
    BY <2>1, <2>2, <2>3, <2>4 DEF Unreachable
<1>2. faults' \in 0..MaxFaults
  BY DEF Unreachable, TypeOK
<1> QED
  BY <1>1, <1>2, ChainStays, KeepsAlone DEF Unreachable

LEMMA StopKeeps ==
  ASSUME TypeOK, NEW i \in Clients, Stop(i)
  PROVE  Keeps(i)
<1>1. ClientTypes' /\ OnlyOf(i)
  BY GoesToTypes DEF Stop, Endings
<1>2. faults' \in 0..MaxFaults
  BY FaultCounts DEF Stop
<1> QED
  BY <1>1, <1>2, ChainStays, KeepsAlone DEF Stop

\* The first that is pending is mined: accepted or reverted.
LEMMA MineKeeps ==
  ASSUME TypeOK, NEW i \in Clients, Mine(i)
  PROVE  /\ Keeps(i)
         /\ UNCHANGED <<pc, client>>
         /\ DOMAIN txs'[i] = DOMAIN txs[i]
         /\ Len(txs'[i]) = Len(txs[i])
         /\ \E k \in DOMAIN txs[i], outcome \in {"ok", "reverted"} :
               /\ txs[i][k].state = "pending"
               /\ \A l \in DOMAIN txs[i] :
                     txs'[i][l] = IF l = k THEN [txs[i][l] EXCEPT !.state = outcome]
                                           ELSE txs[i][l]
               /\ outcome = "ok" /\ txs[i][k].call.kind = "execute" =>
                     txs[i][k].call.to \in enacted'
<1> DEFINE k == First(Pending(i))
           c == txs[i][k].call
           outcome == IF Accepted(c) THEN "ok" ELSE "reverted"
           x == [txs[i][k] EXCEPT !.state = outcome]
<1>1. k \in DOMAIN txs[i] /\ txs[i][k].state = "pending"
  <2>1. Pending(i) # {} /\ Pending(i) \in SUBSET Nat
    <3>1. DOMAIN txs[i] \subseteq Nat
      BY TxsOf
    <3> QED
      BY <3>1 DEF Mine, Pending
  <2>2. k \in Pending(i)
    BY <2>1, FirstIsIn
  <2> QED
    BY <2>2 DEF Pending
<1>2. txs[i][k] \in Txs /\ x \in Txs
  <2>1. txs[i][k] \in Txs
    BY <1>1, TxsOf
  <2>2. outcome \in {"ok", "reverted"}
    OBVIOUS
  <2> QED
    BY <2>1, <2>2, MarkedMined
<1>3. /\ txs' = [txs EXCEPT ![i] = [txs[i] EXCEPT ![k] = x]]
      /\ supported' = IF c.kind = "vote" /\ Accepted(c) THEN supported \cup {c.to} ELSE supported
      /\ enacted' = IF c.kind = "execute" /\ Accepted(c) THEN enacted \cup {c.to} ELSE enacted
  BY <1>1 DEF Mine, TypeOK
<1>4. UNCHANGED <<pc, client, phase, recent, node, past20, finalized, faults>>
  BY DEF Mine
<1>5. c.kind \in {"vote", "execute"} => c.to \in Votes
  BY <1>2 DEF Txs, Calls
<1>6. ChainTypes' /\ Onwards
  <2>1. supported' \subseteq Votes
    BY <1>3, <1>5 DEF TypeOK
  <2>2. enacted' \subseteq Votes /\ enacted \subseteq enacted'
    BY <1>3, <1>5 DEF TypeOK
  <2> QED
    BY <1>4, <2>1, <2>2 DEF TypeOK, ChainTypes, Onwards
<1>7. /\ txs' \in [Clients -> Seq(Txs)]
      /\ DOMAIN txs'[i] = DOMAIN txs[i]
      /\ Len(txs'[i]) = Len(txs[i])
      /\ \A l \in DOMAIN txs[i] : txs'[i][l] = IF l = k THEN x ELSE txs[i][l]
      /\ \A j \in Clients : j # i => txs'[j] = txs[j]
  <2> HIDE DEF x, k
  <2> QED
    BY <1>1, <1>2, <1>3, Marked
<1>8. ClientTypes' /\ OnlyOf(i)
  BY <1>4 DEF client, TypeOK, ClientTypes, OnlyOf
<1>9. Keeps(i)
  BY <1>6, <1>7, <1>8, KeepsMarking
<1>10. outcome = "ok" /\ c.kind = "execute" => c.to \in enacted'
  BY <1>3
<1>11. outcome \in {"ok", "reverted"}
  OBVIOUS
<1> HIDE DEF outcome, k
<1> QED
  BY <1>1, <1>4, <1>7, <1>9, <1>10, <1>11

-----------------------------------------------------------------------------
(***************************************************************************)
(* The invariant of the client that acts.                                  *)
(***************************************************************************)
Unsent(i) == /\ job'[i] = job[i] /\ voted'[i] = voted[i] /\ executed'[i] = executed[i]
             /\ todo'[i] = todo[i] /\ report'[i] = report[i] /\ txs'[i] = txs[i]

LEMMA NoneStandsStays ==
  ASSUME NEW i \in Clients, txs'[i] = txs[i], pc[i] # "await", NEW c, NoneStands(i, c)
  PROVE  NoneStands(i, c)'
BY DEF NoneStands

\* What it has reported, enacted and sent is as it was.
LEMMA RecordStays ==
  ASSUME NEW i \in Clients, ClientInv(i), Unsent(i), Onwards, pc[i] \notin Endings,
         job[i].op \in Voters /\ pc'[i] = "done" => voted[i] /\ executed[i],
         job[i].op = "waitEL" /\ pc'[i] = "done" => past20
  PROVE  HasEnacted(i)' /\ Reported(i)' /\ Again(i)'
<1>1. HasEnacted(i)'
  BY DEF ClientInv, StillWants, HasEnacted, Mined, Unsent, Onwards
<1>2. Reported(i)'
  BY DEF ClientInv, Reported, Mined, MinedTo, Unsent, Onwards
<1>3. Again(i)'
  BY DEF ClientInv, Again, Unsent
<1> QED
  BY <1>1, <1>2, <1>3

\* A client that goes somewhere else, or stops, without having sent anything.
LEMMA Moves ==
  ASSUME NEW i \in Clients, ClientInv(i), Unsent(i), Onwards, pc[i] \notin Endings,
         pc[i] # "await" \/ pc'[i] = "failed",
         pc'[i] \notin {"start", "send", "await"},
         pc'[i] = "decide" => left'[i] # {},
         OnItsWay(i)',
         job[i].op \in Voters /\ pc'[i] = "done" => voted[i] /\ executed[i],
         job[i].op = "waitEL" /\ pc'[i] = "done" => past20
  PROVE  ClientInv(i)'
<1>1. HasEnacted(i)' /\ Reported(i)' /\ Again(i)'
  BY RecordStays
<1>2. Calling(i)'
  BY DEF Calling
<1>3. Awaiting(i)'
  BY DEF ClientInv, Awaiting, Unsent, Endings
<1>4. WantsBallot(i)'
  <2> SUFFICES ASSUME job[i].op \in Voters, ~voted[i], pc'[i] # "failed", NEW v \in Votes
               PROVE  NoneStands(i, [kind |-> "vote", to |-> v])'
    BY DEF WantsBallot, Unsent
  <2>1. NoneStands(i, [kind |-> "vote", to |-> v])
    BY DEF ClientInv, StillWants, WantsBallot, Endings
  <2> QED
    BY <2>1, NoneStandsStays DEF Unsent
<1>5. WantsPayments(i)'
  <2> SUFFICES ASSUME job[i].op \in Payers, pc'[i] \notin Endings, NEW p \in DOMAIN todo[i],
                      NEW k \in DOMAIN txs[i],
                      SamePurpose(txs[i][k].call, [kind |-> "pay", to |-> todo[i][p]]),
                      Standing(txs[i][k])
               PROVE  FALSE
    BY DEF WantsPayments, NoneStands, Unsent
  <2>1. NoneStands(i, [kind |-> "pay", to |-> todo[i][p]])
    BY DEF ClientInv, StillWants, WantsPayments
  <2> QED
    BY <2>1 DEF NoneStands, Endings
<1>6. WantsProbe(i)'
  BY DEF ClientInv, StillWants, WantsProbe, NoneStands, Unsent, Endings
<1>7. WantsToSend(i)'
  BY DEF WantsToSend
<1>8. OnItsList(i)'
  BY DEF ClientInv, OnItsList, Unsent
<1> QED
  BY <1>1, <1>2, <1>3, <1>4, <1>5, <1>6, <1>7, <1>8 DEF ClientInv, StillWants

\* A client that has made up its mind what to send next.
LEMMA SetsOut ==
  ASSUME NEW i \in Clients, ClientInv(i), Unsent(i), Onwards,
         pc[i] \notin Endings \cup {"await"}, pc'[i] = "send",
         Calling(i)', OnItsWay(i)', NoneStands(i, call'[i])
  PROVE  ClientInv(i)'
<1>0. pc[i] # "await" /\ pc[i] \notin Endings
  OBVIOUS
<1>1. HasEnacted(i)' /\ Reported(i)' /\ Again(i)'
  BY <1>0, RecordStays
<1>3. Awaiting(i)'
  BY <1>0 DEF ClientInv, Awaiting, Unsent, Endings
<1>4. WantsBallot(i)'
  <2> SUFFICES ASSUME job[i].op \in Voters, ~voted[i], NEW v \in Votes
               PROVE  NoneStands(i, [kind |-> "vote", to |-> v])'
    BY DEF WantsBallot, Unsent
  <2>1. NoneStands(i, [kind |-> "vote", to |-> v])
    BY DEF ClientInv, StillWants, WantsBallot, Endings
  <2> QED
    BY <1>0, <2>1, NoneStandsStays DEF Unsent
<1>5. WantsPayments(i)'
  <2> SUFFICES ASSUME job[i].op \in Payers, NEW p \in DOMAIN todo[i], NEW k \in DOMAIN txs[i],
                      SamePurpose(txs[i][k].call, [kind |-> "pay", to |-> todo[i][p]]),
                      Standing(txs[i][k])
               PROVE  FALSE
    BY DEF WantsPayments, NoneStands, Unsent
  <2>1. NoneStands(i, [kind |-> "pay", to |-> todo[i][p]])
    BY <1>0 DEF ClientInv, StillWants, WantsPayments
  <2> QED
    BY <1>0, <2>1 DEF NoneStands
<1>6. WantsProbe(i)'
  BY <1>0 DEF ClientInv, StillWants, WantsProbe, NoneStands, Unsent, Endings
<1>7. WantsToSend(i)'
  BY <1>0 DEF WantsToSend, NoneStands, Unsent
<1>8. OnItsList(i)'
  BY <1>0 DEF ClientInv, OnItsList, Unsent, Endings
<1> QED
  BY <1>1, <1>3, <1>4, <1>5, <1>6, <1>7, <1>8 DEF ClientInv, StillWants

\* Nothing of a kind and purpose stands: what a client that awaits nothing needs to know
\* before it executes a vote.
LEMMA NotEnactedYet ==
  ASSUME TypeOK, NEW i \in Clients, ClientInv(i), pc[i] = "decide", NEW v, v \notin enacted
  PROVE  NoneStands(i, [kind |-> "execute", to |-> v])
<1> SUFFICES ASSUME NEW k \in DOMAIN txs[i], txs[i][k].call.kind = "execute",
                    txs[i][k].call.to = v, Standing(txs[i][k])
             PROVE  FALSE
  BY DEF NoneStands, SamePurpose
<1>1. txs[i][k].state \in {"pending", "ok", "reverted"}
  BY TxsOf DEF Txs
<1>2. CASE txs[i][k].state = "pending"
  BY <1>2 DEF ClientInv, Awaiting, Standing
<1>3. CASE txs[i][k].state = "ok"
  BY <1>3 DEF ClientInv, StillWants, HasEnacted, Mined
<1> QED
  BY <1>1, <1>2, <1>3 DEF Standing

\* An address is reported on and taken off the list.
LEMMA ListGoesOn ==
  ASSUME TypeOK, NEW i \in Clients, ClientInv(i), job[i].op \in Payers,
         todo[i] # <<>>, pc[i] \notin Endings,
         NEW said, report'[i] = [report[i] EXCEPT ![Head(todo[i])] = said],
         todo'[i] = Tail(todo[i])
  PROVE  /\ \A p, q \in DOMAIN todo'[i] : p # q => todo'[i][p] # todo'[i][q]
         /\ \A p \in DOMAIN todo'[i] : report'[i][todo'[i][p]] = "none"
         /\ \A p \in DOMAIN todo'[i] : /\ p + 1 \in DOMAIN todo[i]
                                       /\ todo'[i][p] = todo[i][p + 1]
                                       /\ todo'[i][p] # Head(todo[i])
<1>1. todo[i] \in Seq(Addresses)
  BY DEF TypeOK
<1>2. /\ Tail(todo[i]) \in Seq(Addresses)
      /\ Len(Tail(todo[i])) = Len(todo[i]) - 1
      /\ \A p \in 1..Len(Tail(todo[i])) : Tail(todo[i])[p] = todo[i][p + 1]
      /\ Head(todo[i]) = todo[i][1]
      /\ Len(todo[i]) \in Nat \ {0}
      /\ DOMAIN todo[i] = 1..Len(todo[i])
      /\ DOMAIN Tail(todo[i]) = 1..(Len(todo[i]) - 1)
  BY <1>1, HeadTailProperties, LenProperties, EmptySeq
<1>3. ASSUME NEW p \in DOMAIN todo'[i]
      PROVE  p \in Nat /\ p + 1 \in DOMAIN todo[i] /\ p + 1 # 1 /\ todo'[i][p] = todo[i][p + 1]
  BY <1>2
<1>4. /\ \A p, q \in DOMAIN todo[i] : p # q => todo[i][p] # todo[i][q]
      /\ \A p \in DOMAIN todo[i] : report[i][todo[i][p]] = "none"
  BY DEF ClientInv, OnItsList
<1>5. 1 \in DOMAIN todo[i]
  BY <1>2
<1>6. ASSUME NEW p \in DOMAIN todo'[i] PROVE todo'[i][p] # Head(todo[i])
  BY <1>2, <1>3, <1>4, <1>5
<1>7. ASSUME NEW p \in DOMAIN todo'[i] PROVE report'[i][todo'[i][p]] = "none"
  <2>1. report[i][todo'[i][p]] = "none"
    BY <1>3, <1>4
  <2>2. todo'[i][p] \in Addresses
    BY <1>1, <1>3, ElementOfSeq, <1>2
  <2>3. report[i] \in [Addresses -> Reports]
    BY DEF TypeOK
  <2> QED
    BY <1>6, <2>1, <2>2, <2>3
<1>8. ASSUME NEW p \in DOMAIN todo'[i], NEW q \in DOMAIN todo'[i], p # q
      PROVE  todo'[i][p] # todo'[i][q]
  <2>0. p \in Nat /\ q \in Nat
    BY <1>3
  <2>1. p + 1 # q + 1
    BY <1>8, <2>0
  <2> QED
    BY <1>3, <1>4, <2>1
<1> QED
  BY <1>3, <1>6, <1>7, <1>8

LEMMA LocalInv ==
  ASSUME TypeOK, NEW i \in Clients, ClientInv(i), Local(i), Keeps(i)
  PROVE  ClientInv(i)'
<1>0. Onwards /\ TypeOK'
  BY DEF Keeps
<1>j. job[i].op \in Voters \cup Payers \cup Waits
  BY JobFacts
<1>w. OnItsWay(i)
  BY DEF ClientInv
<1>p. pc \in [Clients -> Steps \cup Endings] /\ left \in [Clients -> SUBSET Votes]
      /\ call \in [Clients -> Calls \cup {NoCall}]
  BY DEF TypeOK
<1>1. CASE Prepare(i)
  <2>1. pc[i] = "prepare" /\ pc'[i] = "script" /\ Unsent(i)
    BY <1>1, <1>p DEF Prepare, GoesTo, Unsent, client
  <2>2. OnItsWay(i)'
    BY <2>1, <1>w DEF OnItsWay, Unsent, Endings
  <2> QED
    BY <2>1, <2>2, <1>0, Moves DEF Endings
<1>2. CASE RunScript(i)
  <2>1. pc[i] = "script" /\ pc'[i] = "poll" /\ Unsent(i)
    BY <1>2, <1>p DEF RunScript, GoesTo, Unsent, client
  <2>2. OnItsWay(i)'
    BY <2>1, <1>w DEF OnItsWay, Unsent, Endings
  <2> QED
    BY <2>1, <2>2, <1>0, Moves DEF Endings
<1>3. CASE RoundBegins(i)
  <2>1. pc[i] = "poll" /\ pc'[i] = "next" /\ Unsent(i)
    BY <1>3, <1>p DEF RoundBegins, GoesTo, Unsent
  <2>2. OnItsWay(i)'
    BY <2>1, <1>w DEF OnItsWay, Unsent, Endings
  <2> QED
    BY <2>1, <2>2, <1>0, Moves DEF Endings
<1>4. CASE AskVote(i)
  <2>1. pc[i] = "next" /\ Unsent(i) /\ left'[i] = left[i] /\ left[i] # {}
    BY <1>4, <1>p DEF AskVote, Unsent
  <2>2. job[i].op \in Voters /\ job[i].op \notin Payers \cup {"waitEL"}
    BY <2>1, <1>j, <1>w DEF OnItsWay, Endings, Voters, Payers, Waits
  <2>3. CASE CanVote(Votee(i)) /\ ~voted[i]
    <3>1. pc'[i] = "send" /\ call'[i] = [kind |-> "vote", to |-> Votee(i)]
      BY <1>4, <2>3, <1>p DEF AskVote, GoesTo
    <3>2. OnItsWay(i)'
      BY <2>1, <2>2, <3>1 DEF OnItsWay, Unsent
    <3>3. Calling(i)'
      BY <2>1, <2>2, <2>3, <3>1 DEF Calling, Unsent
    <3>4. Votee(i) \in Votes
      BY <2>1, VoteeIsAVote
    <3>5. NoneStands(i, call'[i])
      BY <2>1, <2>2, <2>3, <3>1, <3>4 DEF ClientInv, StillWants, WantsBallot
    <3> QED
      BY <2>1, <3>1, <3>2, <3>3, <3>5, <1>0, SetsOut DEF Endings
  <2>4. CASE ~ (CanVote(Votee(i)) /\ ~voted[i])
    <3>1. pc'[i] = "decide"
      BY <1>4, <2>4, <1>p DEF AskVote, GoesTo
    <3>2. OnItsWay(i)'
      BY <2>1, <2>2, <3>1, <1>j DEF OnItsWay, Unsent
    <3> QED
      BY <2>1, <3>1, <3>2, <1>0, Moves DEF Endings
  <2> QED
    BY <2>3, <2>4
<1>5. CASE AskExecute(i)
  <2>1. pc[i] = "decide" /\ Unsent(i) /\ left[i] # {}
    BY <1>5, <1>p DEF AskExecute, Unsent, ClientInv, Calling
  <2>2. job[i].op \in Voters /\ job[i].op \notin Payers \cup {"waitEL"}
    BY <2>1, <1>j, <1>w DEF OnItsWay, Endings, Voters, Payers, Waits
  <2>3. CASE CanExecute(Votee(i))
    <3>1. pc'[i] = "send" /\ call'[i] = [kind |-> "execute", to |-> Votee(i)] /\ left'[i] = left[i]
      BY <1>5, <2>3, <1>p DEF AskExecute, GoesTo
    <3>2. OnItsWay(i)'
      BY <2>1, <2>2, <3>1 DEF OnItsWay, Unsent
    <3>3. Calling(i)'
      BY <2>1, <2>2, <3>1 DEF Calling, Unsent
    <3>5. NoneStands(i, call'[i])
      BY <2>1, <2>3, <3>1, NotEnactedYet DEF CanExecute
    <3> QED
      BY <2>1, <3>1, <3>2, <3>3, <3>5, <1>0, SetsOut DEF Endings
  <2>4. CASE ~ CanExecute(Votee(i))
    <3>1. pc'[i] = "next"
      BY <1>5, <2>4, <1>p DEF AskExecute, SetAside, GoesTo
    <3>2. OnItsWay(i)'
      BY <2>1, <2>2, <3>1, <1>j DEF OnItsWay, Unsent
    <3> QED
      BY <2>1, <3>1, <3>2, <1>0, Moves DEF Endings
  <2> QED
    BY <2>3, <2>4
<1>6. CASE RoundEnds(i)
  <2>1. /\ pc[i] = "next" /\ Unsent(i)
        /\ pc'[i] = IF voted[i] /\ executed[i] THEN "done" ELSE "poll"
    BY <1>6, <1>p DEF RoundEnds, GoesTo, Unsent, client
  <2>2. job[i].op \in Voters /\ job[i].op \notin Payers \cup {"waitEL"}
    BY <2>1, <1>j, <1>w DEF OnItsWay, Endings, Voters, Payers, Waits
  <2>3. OnItsWay(i)'
    BY <2>1, <2>2 DEF OnItsWay, Unsent, Endings
  <2> QED
    BY <2>1, <2>2, <2>3, <1>0, Moves DEF Endings
<1>7. CASE BeginPaying(i)
  <2>1. /\ pc[i] = "start" /\ pc'[i] = "pay" /\ job'[i] = job[i] /\ todo'[i] = job[i].to
        /\ voted'[i] = voted[i] /\ executed'[i] = executed[i] /\ report'[i] = report[i]
        /\ txs'[i] = txs[i]
    <3>1. todo \in [Clients -> Seq(Addresses)]
      BY DEF TypeOK
    <3> QED
      BY <1>7, <1>p, <3>1 DEF BeginPaying, GoesTo
  <2>2. job[i].op \in Payers /\ job[i].op \notin Voters \cup {"waitEL"}
    BY <2>1, <1>j, <1>w DEF OnItsWay, Endings, Voters, Payers, Waits
  <2>3. /\ txs[i] = <<>> /\ DOMAIN txs[i] = {}
        /\ \A a \in Addresses : report[i][a] = "none"
    BY <2>1 DEF ClientInv, OnItsList
  <2>4. OnItsWay(i)' /\ Calling(i)' /\ Awaiting(i)'
    BY <2>1, <2>2, <2>3 DEF OnItsWay, Calling, Awaiting
  <2>5. StillWants(i)'
    BY <2>1, <2>2, <2>3 DEF StillWants, WantsBallot, WantsToSend, WantsPayments, WantsProbe,
                            HasEnacted, NoneStands, Mined
  <2>6. OnItsList(i)'
    <3>1. /\ job[i].to \in Seq(Addresses)
          /\ \A p, q \in DOMAIN job[i].to : p # q => job[i].to[p] # job[i].to[q]
      BY <2>2, JobFacts
    <3>2. \A p \in DOMAIN job[i].to : job[i].to[p] \in Addresses
      BY <3>1, ElementOfSeq, LenProperties
    <3> QED
      BY <2>1, <2>2, <2>3, <3>1, <3>2 DEF OnItsList
  <2>7. Reported(i)' /\ Again(i)'
    BY <2>1, <2>2, <2>3 DEF ClientInv, Reported, Again, Mined, MinedTo
  <2> QED
    BY <2>4, <2>5, <2>6, <2>7 DEF ClientInv
<1>8. CASE PayNext(i)
  <2>1. /\ pc[i] = "pay" /\ job'[i] = job[i] /\ todo[i] # <<>> /\ txs'[i] = txs[i]
        /\ voted'[i] = voted[i] /\ executed'[i] = executed[i]
    BY <1>8 DEF PayNext
  <2>2. job[i].op \in Payers /\ job[i].op \notin Voters \cup {"waitEL"}
    BY <2>1, <1>j, <1>w DEF OnItsWay, Endings, Voters, Payers, Waits
  <2>h. /\ Head(todo[i]) \in Addresses /\ Head(todo[i]) = todo[i][1] /\ 1 \in DOMAIN todo[i]
    <3>1. todo[i] \in Seq(Addresses)
      BY DEF TypeOK
    <3> QED
      BY <2>1, <3>1, HeadTailProperties, LenProperties, EmptySeq
  <2>3. CASE job[i].op = "fund" /\ Head(todo[i]) = job[i].funder
    <3>1. NextAddress(i, "skipped") /\ "skipped" \in Reports
      BY <1>8, <2>3 DEF PayNext, Reports
    <3>2. /\ pc'[i] = "pay"
          /\ report'[i] = [report[i] EXCEPT ![Head(todo[i])] = "skipped"]
          /\ todo'[i] = Tail(todo[i])
      BY <2>1, <3>1, <1>p, NextAddressTypes
    <3>3. /\ \A p, q \in DOMAIN todo'[i] : p # q => todo'[i][p] # todo'[i][q]
          /\ \A p \in DOMAIN todo'[i] : report'[i][todo'[i][p]] = "none"
          /\ \A p \in DOMAIN todo'[i] : /\ p + 1 \in DOMAIN todo[i]
                                        /\ todo'[i][p] = todo[i][p + 1]
      <4>1. pc[i] \notin Endings
        BY <2>1 DEF Endings
      <4> QED
        BY <2>1, <2>2, <3>2, <4>1, ListGoesOn
    <3>4. OnItsWay(i)' /\ Calling(i)'
      BY <2>1, <2>2, <3>2 DEF OnItsWay, Calling
    <3>5. Awaiting(i)'
      BY <2>1, <2>2, <3>2 DEF ClientInv, Awaiting
    <3>6. StillWants(i)'
      <4>1. WantsPayments(i)'
        <5> SUFFICES ASSUME NEW p \in DOMAIN todo'[i], NEW k \in DOMAIN txs[i],
                            SamePurpose(txs[i][k].call, [kind |-> "pay", to |-> todo'[i][p]]),
                            Standing(txs[i][k])
                     PROVE  FALSE
          BY <2>1 DEF WantsPayments, NoneStands
        <5>1. NoneStands(i, [kind |-> "pay", to |-> todo[i][p + 1]])
          BY <2>1, <2>2, <3>3 DEF ClientInv, StillWants, WantsPayments, Endings
        <5> QED
          BY <2>1, <3>3, <5>1 DEF NoneStands
      <4>2. HasEnacted(i)'
        BY <1>0, <2>1 DEF ClientInv, StillWants, HasEnacted, Mined, Onwards
      <4> QED
        BY <2>1, <2>2, <3>2, <4>1, <4>2 DEF StillWants, WantsBallot, WantsToSend, WantsProbe
    <3>7. OnItsList(i)'
      BY <2>1, <2>2, <3>2, <3>3 DEF OnItsList
    <3>8. Reported(i)'
      <4>1. report[i] \in [Addresses -> Reports]
        BY DEF TypeOK
      <4> QED
        BY <2>1, <2>2, <3>2, <4>1 DEF ClientInv, Reported, Mined, MinedTo
    <3>9. Again(i)'
      BY <2>1 DEF ClientInv, Again
    <3> QED
      BY <3>4, <3>5, <3>6, <3>7, <3>8, <3>9 DEF ClientInv
  <2>4. CASE ~ (job[i].op = "fund" /\ Head(todo[i]) = job[i].funder)
    <3>1. /\ pc'[i] = "send" /\ call'[i] = [kind |-> "pay", to |-> Head(todo[i])]
          /\ Unsent(i)
      BY <1>8, <2>1, <2>4, <1>p DEF PayNext, GoesTo, Unsent
    <3>2. OnItsWay(i)'
      BY <2>1, <2>2, <3>1, <1>j DEF OnItsWay, Waits, Unsent
    <3>3. Calling(i)'
      BY <2>1, <2>2, <3>1 DEF Calling, Unsent
    <3>5. NoneStands(i, call'[i])
      BY <2>1, <2>2, <2>h, <3>1 DEF ClientInv, StillWants, WantsPayments, Endings
    <3> QED
      BY <2>1, <3>1, <3>2, <3>3, <3>5, <1>0, SetsOut DEF Endings
  <2> QED
    BY <2>3, <2>4
<1>9. CASE AllPaid(i)
  <2>1. pc[i] = "pay" /\ pc'[i] = "done" /\ Unsent(i)
    BY <1>9, <1>p DEF AllPaid, GoesTo, Unsent, client
  <2>2. job[i].op \in Payers /\ job[i].op \notin Voters \cup {"waitEL"}
    BY <2>1, <1>j, <1>w DEF OnItsWay, Endings, Voters, Payers, Waits
  <2>3. OnItsWay(i)'
    BY <2>1, <2>2 DEF OnItsWay, Unsent, Endings
  <2> QED
    BY <2>1, <2>2, <2>3, <1>0, Moves DEF Endings
<1>10. CASE AskBlock(i)
  <2>1. pc[i] = "block" /\ Unsent(i)
    BY <1>10 DEF AskBlock, Unsent
  <2>2. job[i].op = "waitEL" /\ job[i].op \notin Voters \cup Payers
    BY <2>1, <1>j, <1>w DEF OnItsWay, Endings, Voters, Payers, Waits
  <2>3. CASE past20
    <3>1. pc'[i] = "done"
      BY <1>10, <2>3, <1>p DEF AskBlock, GoesTo
    <3>2. OnItsWay(i)'
      BY <2>1, <2>2, <3>1 DEF OnItsWay, Unsent, Endings
    <3> QED
      BY <2>1, <2>2, <2>3, <3>1, <3>2, <1>0, Moves DEF Endings
  <2>4. CASE ~past20
    <3>1. pc'[i] = "send" /\ call'[i] = [kind |-> "pay", to |-> Probe]
      BY <1>10, <2>4, <1>p DEF AskBlock, GoesTo
    <3>2. OnItsWay(i)'
      BY <2>1, <2>2, <3>1 DEF OnItsWay, Unsent
    <3>3. Calling(i)'
      BY <2>1, <2>2, <3>1 DEF Calling, Unsent
    <3>5. NoneStands(i, call'[i])
      BY <2>1, <2>2, <3>1 DEF ClientInv, StillWants, WantsProbe, Endings
    <3> QED
      BY <2>1, <3>1, <3>2, <3>3, <3>5, <1>0, SetsOut DEF Endings
  <2> QED
    BY <2>3, <2>4
<1>11. CASE CheckDeadline(i)
  <2>1. pc[i] = "check" /\ pc'[i] \in {"failed", "asked"} /\ Unsent(i)
    BY <1>11, <1>p DEF CheckDeadline, GoesTo, Unsent, client
  <2>2. job[i].op \notin Voters \cup Payers \cup {"waitEL"}
    BY <2>1, <1>w DEF OnItsWay, Endings
  <2>3. OnItsWay(i)'
    BY <2>1, <2>2 DEF OnItsWay, Unsent, Endings
  <2> QED
    BY <2>1, <2>2, <2>3, <1>0, Moves DEF Endings
<1>12. CASE Answered(i)
  <2>1. pc[i] = "asked" /\ pc'[i] \in {"done", "check"} /\ Unsent(i)
    BY <1>12, <1>p DEF Answered, GoesTo, Unsent, client
  <2>2. job[i].op \notin Voters \cup Payers \cup {"waitEL"}
    BY <2>1, <1>w DEF OnItsWay, Endings
  <2>3. OnItsWay(i)'
    BY <2>1, <2>2 DEF OnItsWay, Unsent, Endings
  <2> QED
    BY <2>1, <2>2, <2>3, <1>0, Moves DEF Endings
<1> QED
  BY <1>1, <1>2, <1>3, <1>4, <1>5, <1>6, <1>7, <1>8, <1>9, <1>10, <1>11, <1>12 DEF Local

\* What is sent is the only one of its purpose that stands.
LEMMA SendInv ==
  ASSUME TypeOK, NEW i \in Clients, ClientInv(i), Send(i)
  PROVE  ClientInv(i)'
<1> DEFINE x == [call |-> call[i], state |-> "pending", lost |-> FALSE]
           n == Len(txs[i])
<1>0. Keeps(i) /\ Onwards
  BY SendKeeps DEF Keeps
<1>1. /\ pc[i] = "send" /\ pc'[i] = "await" /\ job'[i] = job[i] /\ todo'[i] = todo[i]
      /\ left'[i] = left[i] /\ call'[i] = call[i]
      /\ voted'[i] = voted[i] /\ executed'[i] = executed[i] /\ report'[i] = report[i]
  BY DEF Send, GoesTo, client, TypeOK
<1>2. x \in Txs
  <2>1. txs'[i] \in Seq(Txs) /\ txs'[i] = Append(txs[i], x)
    BY <1>0, SendKeeps DEF Keeps, TypeOK
  <2>2. call[i] \in Calls \cup {NoCall} /\ job[i].op \in Voters \cup Payers \cup {"waitEL"}
    BY <1>1, JobFacts DEF TypeOK, ClientInv, OnItsWay, Endings
  <2>3. call[i].kind # "none"
    BY <1>1, <2>2 DEF ClientInv, Calling
  <2> QED
    BY <2>2, <2>3 DEF NoCall, Txs
<1>3. /\ Len(txs'[i]) = n + 1
      /\ DOMAIN txs'[i] = DOMAIN txs[i] \cup {n + 1}
      /\ n + 1 \notin DOMAIN txs[i]
      /\ \A l \in DOMAIN txs[i] : txs'[i][l] = txs[i][l]
      /\ txs'[i][n + 1] = x
  <2>1. txs' = [txs EXCEPT ![i] = Append(txs[i], x)]
    BY SendKeeps
  <2> HIDE DEF x
  <2> QED
    BY <1>2, <2>1, Sent
<1>4. /\ x.call = call[i] /\ x.state = "pending" /\ ~x.lost
  OBVIOUS
<1>n. n \in Nat /\ DOMAIN txs[i] = 1..n
  BY TxsOf
<1>o. job[i].op \in Voters \cup Payers \cup {"waitEL"} /\ pc[i] # "await" /\ pc[i] \notin Endings
  BY <1>1, JobFacts DEF ClientInv, OnItsWay, Endings
<1> HIDE DEF x, n
\* Of those sent before, none is pending and no one stands that it would stand beside.
<1>5. \A k \in DOMAIN txs[i] : txs[i][k].state = "pending" => txs[i][k].lost
  BY <1>1 DEF ClientInv, Awaiting
<1>6. \A k \in DOMAIN txs[i] : SamePurpose(txs[i][k].call, call[i]) => ~Standing(txs[i][k])
  BY <1>1 DEF ClientInv, StillWants, WantsToSend, NoneStands
<1>7. OnItsWay(i)' /\ Calling(i)'
  BY <1>1, <1>o DEF ClientInv, OnItsWay, Calling
<1>8. Awaiting(i)'
  <2>1. txs'[i] # <<>>
    <3>1. n + 1 \in DOMAIN txs'[i]
      BY <1>3
    <3> QED
      BY <3>1
  <2>2. Awaited(i)' = x
    BY <1>3 DEF Awaited
  <2>3. ASSUME NEW k \in DOMAIN txs'[i], txs'[i][k].state = "pending", ~txs'[i][k].lost
        PROVE  k = n + 1
    BY <1>3, <1>5, <2>3
  <2> QED
    BY <1>1, <1>3, <1>4, <2>1, <2>2, <2>3 DEF Awaiting
\* So whatever has not stood does not but what it awaits.
<1>9. ASSUME NEW c, \A k \in DOMAIN txs[i] : SamePurpose(txs[i][k].call, c) => ~Standing(txs[i][k]),
             NEW k \in DOMAIN txs'[i], SamePurpose(txs'[i][k].call, c), Standing(txs'[i][k])
      PROVE  pc'[i] = "await" /\ k = Len(txs'[i])
  BY <1>1, <1>3, <1>9
<1>10. StillWants(i)'
  <2>1. WantsBallot(i)'
    <3> SUFFICES ASSUME job[i].op \in Voters, ~voted[i], NEW v \in Votes,
                        NEW k \in DOMAIN txs'[i],
                        SamePurpose(txs'[i][k].call, [kind |-> "vote", to |-> v]),
                        Standing(txs'[i][k])
                 PROVE  pc'[i] = "await" /\ k = Len(txs'[i])
      BY <1>1 DEF WantsBallot, NoneStands
    <3>1. NoneStands(i, [kind |-> "vote", to |-> v])
      BY <1>1 DEF ClientInv, StillWants, WantsBallot
    <3> QED
      BY <1>9, <1>o, <3>1 DEF NoneStands
  <2>2. WantsPayments(i)'
    <3> SUFFICES ASSUME job[i].op \in Payers, NEW p \in DOMAIN todo[i],
                        NEW k \in DOMAIN txs'[i],
                        SamePurpose(txs'[i][k].call, [kind |-> "pay", to |-> todo[i][p]]),
                        Standing(txs'[i][k])
                 PROVE  pc'[i] = "await" /\ k = Len(txs'[i])
      BY <1>1 DEF WantsPayments, NoneStands
    <3>1. NoneStands(i, [kind |-> "pay", to |-> todo[i][p]])
      BY <1>o DEF ClientInv, StillWants, WantsPayments
    <3> QED
      BY <1>9, <1>o, <3>1 DEF NoneStands
  <2>3. WantsProbe(i)'
    <3> SUFFICES ASSUME job[i].op = "waitEL", NEW k \in DOMAIN txs'[i],
                        SamePurpose(txs'[i][k].call, [kind |-> "pay", to |-> Probe]),
                        Standing(txs'[i][k])
                 PROVE  pc'[i] = "await" /\ k = Len(txs'[i])
      BY <1>1 DEF WantsProbe, NoneStands
    <3>1. NoneStands(i, [kind |-> "pay", to |-> Probe])
      BY <1>o DEF ClientInv, StillWants, WantsProbe
    <3> QED
      BY <1>9, <1>o, <3>1 DEF NoneStands
  <2>4. HasEnacted(i)'
    BY <1>0, <1>3, <1>4 DEF ClientInv, StillWants, HasEnacted, Mined, Onwards
  <2>5. WantsToSend(i)'
    BY <1>1 DEF WantsToSend
  <2> QED
    BY <2>1, <2>2, <2>3, <2>4, <2>5 DEF StillWants
<1>11. OnItsList(i)'
  BY <1>1, <1>o DEF ClientInv, OnItsList, Endings
<1>12. Reported(i)'
  <2>1. \A kind : Mined(i, kind) \subseteq Mined(i, kind)'
    BY <1>3 DEF Mined
  <2>2. \A a : MinedTo(i, a) \subseteq MinedTo(i, a)'
    BY <1>3 DEF Mined, MinedTo
  <2>3. ASSUME NEW a \in Addresses, report'[i][a] = "failed", NEW k \in DOMAIN txs'[i],
               txs'[i][k].call = [kind |-> "pay", to |-> a]
        PROVE  ~Standing(txs'[i][k])
    <3>1. CASE k \in DOMAIN txs[i]
      BY <1>1, <1>3, <2>3, <3>1 DEF ClientInv, Reported
    <3>2. CASE k = n + 1
      <4>1. call[i] = [kind |-> "pay", to |-> a]
        BY <1>3, <1>4, <2>3, <3>2
      <4>2. job[i].op \in Payers
        BY <1>1, <1>o, <4>1, <2>3, ChainClientsAssumption DEF ClientInv, Calling
      <4>3. Head(todo[i]) = a /\ todo[i] # <<>>
        BY <1>1, <4>1, <4>2 DEF ClientInv, Calling
      <4>4. Head(todo[i]) = todo[i][1] /\ 1 \in DOMAIN todo[i]
        <5>1. todo[i] \in Seq(Addresses)
          BY DEF TypeOK
        <5> QED
          BY <4>3, <5>1, HeadTailProperties, LenProperties, EmptySeq
      <4>5. report[i][a] = "none"
        BY <1>o, <4>2, <4>3, <4>4 DEF ClientInv, OnItsList
      <4> QED
        BY <1>1, <2>3, <4>5
    <3> QED
      BY <1>3, <3>1, <3>2
  <2>4. /\ \A a \in Addresses : report'[i][a] = "funded" => MinedTo(i, a)' # {}
        /\ voted'[i] => Mined(i, "vote")' # {}
        /\ executed'[i] => Mined(i, "execute")' # {}
    BY <1>1, <2>1, <2>2 DEF ClientInv, Reported
  <2> QED
    BY <1>1, <2>3, <2>4 DEF Reported
<1>13. Again(i)'
  <2> SUFFICES ASSUME NEW k \in DOMAIN txs'[i], NEW l \in DOMAIN txs'[i], k < l,
                      SamePurpose(txs'[i][k].call, txs'[i][l].call)
               PROVE  ~Standing(txs'[i][k])
    BY DEF Again
  <2>1. k \in DOMAIN txs[i]
    BY <1>3, <1>n
  <2>2. CASE l \in DOMAIN txs[i]
    BY <1>3, <2>1, <2>2 DEF ClientInv, Again
  <2>3. CASE l = n + 1
    BY <1>3, <1>4, <1>6, <2>1, <2>3
  <2> QED
    BY <1>3, <2>2, <2>3
<1> QED
  BY <1>7, <1>8, <1>10, <1>11, <1>12, <1>13 DEF ClientInv

\* A transaction of i's is mined, which one may have been waiting for.
LEMMA MineInv ==
  ASSUME TypeOK, NEW i \in Clients, ClientInv(i), Mine(i)
  PROVE  ClientInv(i)'
<1>1. Keeps(i) /\ Onwards
  BY MineKeeps DEF Keeps
<1>2. /\ DOMAIN txs'[i] = DOMAIN txs[i]
      /\ Len(txs'[i]) = Len(txs[i])
      /\ UNCHANGED <<pc, client, past20>>
  BY MineKeeps DEF Mine
<1>3. PICK k \in DOMAIN txs[i], outcome \in {"ok", "reverted"} :
          /\ txs[i][k].state = "pending"
          /\ \A l \in DOMAIN txs[i] :
                txs'[i][l] = IF l = k THEN [txs[i][l] EXCEPT !.state = outcome]
                                      ELSE txs[i][l]
          /\ outcome = "ok" /\ txs[i][k].call.kind = "execute" =>
                txs[i][k].call.to \in enacted'
  BY MineKeeps
<1>4. txs[i][k] \in Txs
  BY TxsOf
<1>5. \A l \in DOMAIN txs[i] :
          /\ txs'[i][l].call = txs[i][l].call
          /\ txs'[i][l].lost = txs[i][l].lost
          /\ txs'[i][l].state = IF l = k THEN outcome ELSE txs[i][l].state
  BY <1>3, <1>4 DEF Txs
<1>6. \A l \in DOMAIN txs[i] : Standing(txs'[i][l]) => Standing(txs[i][l])
  BY <1>3, <1>5 DEF Standing
<1>7. \A l \in DOMAIN txs[i] : txs'[i][l].state = "pending" => txs[i][l].state = "pending"
  BY <1>3, <1>5
<1>8. \A l \in DOMAIN txs[i] : txs[i][l].state = "ok" => txs'[i][l].state = "ok"
  BY <1>3, <1>5
<1>9. OnItsWay(i)' /\ Calling(i)' /\ OnItsList(i)'
  <2>1. pc[i] = "start" => txs'[i] = <<>>
    BY <1>3 DEF ClientInv, OnItsList
  <2> QED
    BY <1>2, <2>1 DEF ClientInv, OnItsWay, Calling, OnItsList, client
<1>10. Awaiting(i)'
  <2>1. ASSUME pc[i] = "await"
        PROVE  txs'[i] # <<>> /\ Awaited(i)'.call = call[i] /\ ~Awaited(i)'.lost
    <3>1. Len(txs[i]) \in DOMAIN txs[i]
      <4>1. txs[i] # <<>>
        BY <2>1 DEF ClientInv, Awaiting
      <4>2. txs[i] \in Seq(Txs)
        BY TxsOf
      <4>3. Len(txs[i]) # 0
        BY <4>1, <4>2, EmptySeq
      <4> QED
        BY <4>3, TxsOf
    <3>2. txs'[i] # <<>>
      BY <1>2, <3>1
    <3> QED
      BY <1>2, <1>5, <2>1, <3>1, <3>2 DEF ClientInv, Awaiting, Awaited
  <2>2. ASSUME NEW l \in DOMAIN txs'[i], txs'[i][l].state = "pending", ~txs'[i][l].lost,
               pc[i] # "failed"
        PROVE  pc[i] = "await" /\ l = Len(txs'[i])
    BY <1>2, <1>5, <1>7, <2>2 DEF ClientInv, Awaiting
  <2> QED
    BY <1>2, <2>1, <2>2 DEF Awaiting, client
<1>11. StillWants(i)'
  <2>1. ASSUME NEW c, NoneStands(i, c), NEW l \in DOMAIN txs'[i],
               SamePurpose(txs'[i][l].call, c), Standing(txs'[i][l])
        PROVE  pc'[i] = "await" /\ l = Len(txs'[i])
    BY <1>2, <1>5, <1>6, <2>1 DEF NoneStands
  <2>2. WantsBallot(i)'
    BY <1>2, <2>1 DEF ClientInv, StillWants, WantsBallot, NoneStands, client
  <2>3. WantsToSend(i)'
    BY <1>2, <2>1 DEF ClientInv, StillWants, WantsToSend, NoneStands, client
  <2>4. WantsPayments(i)'
    <3> SUFFICES ASSUME job[i].op \in Payers, pc[i] \notin Endings, NEW p \in DOMAIN todo[i],
                        NEW l \in DOMAIN txs'[i],
                        SamePurpose(txs'[i][l].call, [kind |-> "pay", to |-> todo[i][p]]),
                        Standing(txs'[i][l])
                 PROVE  pc'[i] = "await" /\ l = Len(txs'[i])
      BY <1>2 DEF WantsPayments, NoneStands, client
    <3>1. NoneStands(i, [kind |-> "pay", to |-> todo[i][p]])
      BY DEF ClientInv, StillWants, WantsPayments
    <3> QED
      BY <2>1, <3>1
  <2>5. WantsProbe(i)'
    BY <1>2, <2>1 DEF ClientInv, StillWants, WantsProbe, NoneStands, client
  <2>6. HasEnacted(i)'
    <3> SUFFICES ASSUME NEW l \in DOMAIN txs[i], txs[i][l].call.kind = "execute",
                        txs'[i][l].state = "ok"
                 PROVE  txs[i][l].call.to \in enacted'
      BY <1>2, <1>5 DEF HasEnacted, Mined
    <3>1. CASE l = k
      BY <1>3, <1>5, <3>1
    <3>2. CASE l # k
      BY <1>1, <1>5, <3>2 DEF ClientInv, StillWants, HasEnacted, Mined, Onwards
    <3> QED
      BY <3>1, <3>2
  <2> QED
    BY <2>2, <2>3, <2>4, <2>5, <2>6 DEF StillWants
<1>12. Reported(i)'
  <2>1. /\ \A kind : Mined(i, kind) \subseteq Mined(i, kind)'
        /\ \A a : MinedTo(i, a) \subseteq MinedTo(i, a)'
    BY <1>2, <1>5, <1>8 DEF Mined, MinedTo
  <2>2. ASSUME NEW a \in Addresses, report[i][a] = "failed", NEW l \in DOMAIN txs'[i],
               txs'[i][l].call = [kind |-> "pay", to |-> a]
        PROVE  ~Standing(txs'[i][l])
    BY <1>2, <1>5, <1>6, <2>2 DEF ClientInv, Reported
  <2> QED
    BY <1>2, <2>1, <2>2 DEF ClientInv, Reported, client
<1>13. Again(i)'
  BY <1>2, <1>5, <1>6 DEF ClientInv, Again
<1> QED
  BY <1>9, <1>10, <1>11, <1>12, <1>13 DEF ClientInv

\* An address is settled: the list goes on, or the transfer ends.
SettledInv(i, said) ==
    /\ pc'[i] \in {"pay"} \cup Endings
    /\ report'[i] = [report[i] EXCEPT ![Head(todo[i])] = said]
    /\ \A p, q \in DOMAIN todo'[i] : p # q => todo'[i][p] # todo'[i][q]
    /\ pc'[i] \notin Endings =>
          \A p \in DOMAIN todo'[i] : /\ report'[i][todo'[i][p]] = "none"
                                     /\ p + 1 \in DOMAIN todo[i]
                                     /\ todo'[i][p] = todo[i][p + 1]
                                     /\ todo'[i][p] # Head(todo[i])

LEMMA SettledFacts ==
  ASSUME TypeOK, NEW i \in Clients, ClientInv(i), job[i].op \in Payers, pc[i] \notin Endings,
         todo[i] # <<>>, NEW said \in {"funded", "failed"}, Settled(i, said)
  PROVE  SettledInv(i, said)
<1>1. /\ report'[i] = [report[i] EXCEPT ![Head(todo[i])] = said]
      /\ \/ pc' = [pc EXCEPT ![i] = "pay"] /\ todo'[i] = Tail(todo[i])
         \/ \E e \in Endings : pc' = [pc EXCEPT ![i] = e] /\ todo'[i] = todo[i]
  BY SettledTypes
<1>2. pc \in [Clients -> Steps \cup Endings]
  BY DEF TypeOK
<1>3. CASE pc' = [pc EXCEPT ![i] = "pay"] /\ todo'[i] = Tail(todo[i])
  <2>1. pc'[i] = "pay"
    BY <1>2, <1>3
  <2> QED
    BY <1>1, <1>3, <2>1, ListGoesOn DEF SettledInv
<1>4. CASE \E e \in Endings : pc' = [pc EXCEPT ![i] = e] /\ todo'[i] = todo[i]
  <2>1. pc'[i] \in Endings /\ todo'[i] = todo[i]
    BY <1>2, <1>4
  <2> QED
    BY <1>1, <2>1 DEF SettledInv, ClientInv, OnItsList
<1> QED
  BY <1>1, <1>3, <1>4

\* A call has succeeded: the transaction it awaited has been mined.
LEMMA SuccessInv ==
  ASSUME TypeOK, NEW i \in Clients, ClientInv(i), Keeps(i), txs'[i] = txs[i], past20' = past20,
         pc[i] = "await", Awaited(i).state = "ok", Success(i)
  PROVE  ClientInv(i)'
<1> DEFINE n == Len(txs[i])
<1>0. Onwards
  BY DEF Keeps
<1>1. /\ n \in DOMAIN txs[i] /\ n \in Nat /\ DOMAIN txs[i] = 1..n
      /\ txs[i][n].state = "ok" /\ txs[i][n].call = call[i] /\ ~txs[i][n].lost
  <2>1. txs[i] # <<>>
    BY DEF ClientInv, Awaiting
  <2>2. txs[i] \in Seq(Txs)
    BY TxsOf
  <2>3. n # 0
    BY <2>1, <2>2, EmptySeq
  <2> QED
    BY <2>3, TxsOf DEF ClientInv, Awaiting, Awaited
<1>2. job'[i] = job[i] /\ attempt'[i] = attempt[i] /\ call'[i] = call[i]
  BY DEF Success
<1>o. job[i].op \in Voters \cup Payers \cup {"waitEL"}
  BY JobFacts DEF ClientInv, OnItsWay, Endings
<1>p. /\ pc \in [Clients -> Steps \cup Endings] /\ voted \in [Clients -> BOOLEAN]
      /\ executed \in [Clients -> BOOLEAN] /\ left \in [Clients -> SUBSET Votes]
  BY DEF TypeOK
\* What it awaited is the only one of its transactions that may still be pending, ...
<1>3. \A k \in DOMAIN txs[i] : txs[i][k].state = "pending" => txs[i][k].lost
  BY <1>1 DEF ClientInv, Awaiting
<1>4. HasEnacted(i)' /\ Again(i)'
  BY <1>0 DEF ClientInv, StillWants, HasEnacted, Again, Mined, Onwards
\* ... and what is of another purpose than that does not stand.
<1>5. ASSUME NEW c, NoneStands(i, c), ~SamePurpose(call[i], c), NEW k \in DOMAIN txs[i],
             SamePurpose(txs[i][k].call, c)
      PROVE  ~Standing(txs[i][k])
  BY <1>1, <1>5 DEF NoneStands
<1>6. Awaiting(i)' \/ pc'[i] = "await"
  BY <1>3 DEF Awaiting
<1>7. CASE job[i].op \in Voters
  <2>0. job[i].op \notin Payers \cup {"waitEL"}
    BY <1>7 DEF Voters, Payers
  <2>1. CASE call[i].kind = "vote"
    <3>1. VoteCast(i)
      BY <1>7, <2>1 DEF Success, Voters, Payers
    <3>2. /\ pc'[i] = "decide" /\ voted'[i] /\ left'[i] = left[i] /\ todo'[i] = todo[i]
          /\ executed'[i] = executed[i] /\ report'[i] = report[i]
      BY <3>1, <1>p DEF VoteCast, GoesTo
    <3>3. OnItsWay(i)' /\ Calling(i)' /\ Awaiting(i)'
      BY <1>2, <1>6, <1>7, <2>0, <3>2 DEF ClientInv, OnItsWay, Calling
    <3>4. StillWants(i)'
      BY <1>2, <1>4, <2>0, <3>2 DEF StillWants, WantsBallot, WantsToSend, WantsPayments, WantsProbe
    <3>5. OnItsList(i)'
      BY <1>2, <2>0, <3>2 DEF ClientInv, OnItsList
    <3>6. Reported(i)'
      <4>1. Mined(i, "vote") # {}
        BY <1>1, <2>1 DEF Mined
      <4> QED
        BY <1>2, <2>0, <3>2, <4>1 DEF ClientInv, Reported, Mined, MinedTo
    <3> QED
      BY <1>4, <3>3, <3>4, <3>5, <3>6 DEF ClientInv
  <2>2. CASE call[i].kind = "execute"
    <3>1. VoteEnacted(i)
      BY <1>7, <2>2 DEF Success, Voters, Payers
    <3>2. /\ pc'[i] = "next" /\ executed'[i] /\ todo'[i] = todo[i]
          /\ voted'[i] = voted[i] /\ report'[i] = report[i]
      BY <3>1, <1>p DEF VoteEnacted, SetAside, GoesTo
    <3>3. OnItsWay(i)' /\ Calling(i)' /\ Awaiting(i)'
      BY <1>2, <1>6, <1>7, <2>0, <3>2 DEF ClientInv, OnItsWay, Calling
    <3>4. StillWants(i)'
      <4>1. WantsBallot(i)'
        <5> SUFFICES ASSUME ~voted[i], NEW v \in Votes, NEW k \in DOMAIN txs[i],
                            SamePurpose(txs[i][k].call, [kind |-> "vote", to |-> v])
                     PROVE  ~Standing(txs[i][k])
          BY <3>2 DEF WantsBallot, NoneStands
        <5>1. NoneStands(i, [kind |-> "vote", to |-> v])
          BY <1>7 DEF ClientInv, StillWants, WantsBallot
        <5>2. ~SamePurpose(call[i], [kind |-> "vote", to |-> v])
          BY <2>2 DEF SamePurpose
        <5> QED
          BY <1>5, <5>1, <5>2
      <4> QED
        BY <1>2, <1>4, <2>0, <3>2, <4>1 DEF StillWants, WantsToSend, WantsPayments, WantsProbe
    <3>5. OnItsList(i)'
      BY <1>2, <2>0, <3>2 DEF ClientInv, OnItsList
    <3>6. Reported(i)'
      <4>1. Mined(i, "execute") # {}
        BY <1>1, <2>2 DEF Mined
      <4> QED
        BY <1>2, <2>0, <3>2, <4>1 DEF ClientInv, Reported, Mined, MinedTo
    <3> QED
      BY <1>4, <3>3, <3>4, <3>5, <3>6 DEF ClientInv
  <2> QED
    BY <1>7, <2>1, <2>2 DEF ClientInv, Calling
<1>8. CASE job[i].op \in Payers
  <2>0. job[i].op \notin Voters \cup {"waitEL"}
    BY <1>8 DEF Voters, Payers
  <2>1. Settled(i, "funded") /\ left'[i] = left[i] /\ voted'[i] = voted[i]
        /\ executed'[i] = executed[i]
    BY <1>8 DEF Success, Voters, Payers
  <2>2. todo[i] # <<>> /\ call[i] = [kind |-> "pay", to |-> Head(todo[i])]
    BY <1>8 DEF ClientInv, Calling
  <2>3. SettledInv(i, "funded")
    BY <2>1, <2>2, <1>8, SettledFacts DEF Endings
  <2>4. OnItsWay(i)' /\ Calling(i)' /\ Awaiting(i)'
    BY <1>2, <1>6, <1>8, <2>0, <2>3 DEF SettledInv, OnItsWay, Calling, Endings
  <2>5. StillWants(i)'
    <3>1. WantsPayments(i)'
      <4> SUFFICES ASSUME pc'[i] = "pay", NEW p \in DOMAIN todo'[i], NEW k \in DOMAIN txs[i],
                          SamePurpose(txs[i][k].call, [kind |-> "pay", to |-> todo'[i][p]])
                   PROVE  ~Standing(txs[i][k])
        BY <2>3 DEF WantsPayments, NoneStands, SettledInv
      <4>1. /\ p + 1 \in DOMAIN todo[i] /\ todo'[i][p] = todo[i][p + 1]
            /\ todo'[i][p] # Head(todo[i])
        BY <2>3 DEF SettledInv, Endings
      <4>2. NoneStands(i, [kind |-> "pay", to |-> todo[i][p + 1]])
        BY <1>8, <4>1 DEF ClientInv, StillWants, WantsPayments, Endings
      <4>3. ~SamePurpose(call[i], [kind |-> "pay", to |-> todo[i][p + 1]])
        BY <2>2, <4>1 DEF SamePurpose
      <4> QED
        BY <1>5, <4>1, <4>2, <4>3
    <3>2. pc'[i] \in {"pay"} \cup Endings
      BY <2>3 DEF SettledInv
    <3> QED
      BY <1>2, <1>4, <2>0, <3>1, <3>2 DEF StillWants, WantsBallot, WantsToSend, WantsProbe, Endings
  <2>6. OnItsList(i)'
    BY <1>2, <1>8, <2>3 DEF SettledInv, OnItsList, Endings
  <2>7. Reported(i)'
    <3>1. MinedTo(i, Head(todo[i])) # {}
      BY <1>1, <2>2 DEF MinedTo, Mined
    <3>2. /\ report[i] \in [Addresses -> Reports]
          /\ report'[i] = [report[i] EXCEPT ![Head(todo[i])] = "funded"]
      BY <2>3 DEF SettledInv, TypeOK
    <3> QED
      BY <1>2, <2>0, <2>1, <3>1, <3>2 DEF ClientInv, Reported, Mined, MinedTo
  <2> QED
    BY <1>4, <2>4, <2>5, <2>6, <2>7 DEF ClientInv
<1>9. CASE job[i].op = "waitEL"
  <2>0. job[i].op \notin Voters \cup Payers
    BY <1>9 DEF Voters, Payers
  <2>1. pc'[i] = "done" /\ left'[i] = left[i] /\ todo'[i] = todo[i] /\ voted'[i] = voted[i]
        /\ executed'[i] = executed[i] /\ report'[i] = report[i]
    BY <1>9, <2>0, <1>p DEF Success, GoesTo
  <2>2. OnItsWay(i)' /\ Calling(i)' /\ Awaiting(i)' /\ StillWants(i)'
    BY <1>2, <1>4, <1>6, <1>9, <2>0, <2>1
       DEF OnItsWay, Calling, StillWants, WantsBallot, WantsToSend, WantsPayments, WantsProbe,
           Endings
  <2>3. OnItsList(i)'
    BY <1>2, <2>0, <2>1 DEF ClientInv, OnItsList
  <2>4. Reported(i)'
    <3>1. MinedTo(i, Probe) # {}
      BY <1>1, <1>9 DEF ClientInv, Calling, MinedTo, Mined
    <3> QED
      BY <1>2, <2>0, <2>1, <3>1 DEF ClientInv, Reported, Mined, MinedTo
  <2> QED
    BY <1>4, <2>2, <2>3, <2>4 DEF ClientInv
<1> QED
  BY <1>o, <1>7, <1>8, <1>9

\* What was to be sent, or has been sent, has come to nothing or lost its answer.
CameToNothing(i) ==
    /\ DOMAIN txs'[i] = DOMAIN txs[i]
    /\ \A k \in DOMAIN txs[i] : /\ txs'[i][k].call = txs[i][k].call
                                /\ txs'[i][k].state = txs[i][k].state
                                /\ txs[i][k].lost => txs'[i][k].lost
    /\ pc[i] = "await" => ~Standing(txs'[i][Len(txs[i])])

\* A call has thrown.
LEMMA FailureInv ==
  ASSUME TypeOK, NEW i \in Clients, ClientInv(i), Keeps(i), past20' = past20,
         pc[i] \in {"send", "await"}, CameToNothing(i), Failure(i)
  PROVE  ClientInv(i)'
<1>0. Onwards
  BY DEF Keeps
<1>1. /\ job'[i] = job[i] /\ call'[i] = call[i] /\ voted'[i] = voted[i]
      /\ executed'[i] = executed[i]
  BY DEF Failure
<1>o. job[i].op \in Voters \cup Payers \cup {"waitEL"} /\ pc[i] \notin Endings
  BY JobFacts DEF ClientInv, OnItsWay, Endings
<1>p. /\ pc \in [Clients -> Steps \cup Endings] /\ left \in [Clients -> SUBSET Votes]
      /\ attempt[i] \in 0..Retries
  BY DEF TypeOK
<1>c. /\ DOMAIN txs'[i] = DOMAIN txs[i]
      /\ \A k \in DOMAIN txs[i] : /\ txs'[i][k].call = txs[i][k].call
                                  /\ txs'[i][k].state = txs[i][k].state
                                  /\ Standing(txs'[i][k]) => Standing(txs[i][k])
  BY DEF CameToNothing, Standing
\* What did not stand but for the one awaited does not stand any more at all, ...
<1>2. ASSUME NEW c, NoneStands(i, c), NEW k \in DOMAIN txs[i], SamePurpose(txs[i][k].call, c)
      PROVE  ~Standing(txs'[i][k])
  BY <1>2, <1>c DEF NoneStands, CameToNothing
\* ... and nothing is awaited.
<1>3. \A k \in DOMAIN txs'[i] : txs'[i][k].state = "pending" => txs'[i][k].lost
  <2> SUFFICES ASSUME NEW k \in DOMAIN txs[i], txs[i][k].state = "pending", ~txs'[i][k].lost
               PROVE  FALSE
    BY <1>c
  <2>1. ~txs[i][k].lost
    BY DEF CameToNothing
  <2>2. pc[i] = "await" /\ k = Len(txs[i])
    BY <2>1, <1>o DEF ClientInv, Awaiting, Endings
  <2>3. Standing(txs'[i][k])
    BY <1>c DEF Standing
  <2> QED
    BY <2>2, <2>3 DEF CameToNothing
<1>4. Awaiting(i)' \/ pc'[i] = "await"
  BY <1>3 DEF Awaiting
<1>5. HasEnacted(i)'
  BY <1>0, <1>c DEF ClientInv, StillWants, HasEnacted, Mined, Onwards
<1>6. Again(i)'
  BY <1>c DEF ClientInv, Again
<1>7. /\ \A kind : Mined(i, kind)' = Mined(i, kind)
      /\ \A a : MinedTo(i, a)' = MinedTo(i, a)
  BY <1>c DEF Mined, MinedTo
<1>8. WantsBallot(i)'
  <2> SUFFICES ASSUME job[i].op \in Voters, ~voted[i], NEW v \in Votes, NEW k \in DOMAIN txs[i],
                      SamePurpose(txs[i][k].call, [kind |-> "vote", to |-> v])
               PROVE  ~Standing(txs'[i][k])
    BY <1>1, <1>c DEF WantsBallot, NoneStands
  <2>1. NoneStands(i, [kind |-> "vote", to |-> v])
    BY <1>o DEF ClientInv, StillWants, WantsBallot, Endings
  <2> QED
    BY <1>2, <2>1
<1>9. CASE job[i].op \in Voters
  <2>0. job[i].op \notin Payers \cup {"waitEL"}
    BY <1>9 DEF Voters, Payers
  <2>1. /\ pc'[i] = "next" /\ todo'[i] = todo[i] /\ report'[i] = report[i]
    BY <1>9, <2>0, <1>p DEF Failure, SetAside, GoesTo
  <2>2. OnItsWay(i)' /\ Calling(i)' /\ Awaiting(i)'
    BY <1>1, <1>4, <1>9, <2>0, <2>1 DEF OnItsWay, Calling
  <2>3. StillWants(i)'
    BY <1>1, <1>5, <1>8, <2>0, <2>1 DEF StillWants, WantsToSend, WantsPayments, WantsProbe
  <2>4. OnItsList(i)'
    BY <1>1, <2>0, <2>1 DEF ClientInv, OnItsList
  <2>5. Reported(i)'
    BY <1>1, <1>7, <1>c, <2>0, <2>1 DEF ClientInv, Reported
  <2> QED
    BY <1>6, <2>2, <2>3, <2>4, <2>5 DEF ClientInv
<1>10. CASE job[i].op \in Payers
  <2>0. job[i].op \notin Voters \cup {"waitEL"}
    BY <1>10 DEF Voters, Payers
  <2>1. todo[i] # <<>> /\ call[i] = [kind |-> "pay", to |-> Head(todo[i])]
    BY <1>10 DEF ClientInv, Calling
  <2>h. Head(todo[i]) = todo[i][1] /\ 1 \in DOMAIN todo[i]
    <3>1. todo[i] \in Seq(Addresses)
      BY DEF TypeOK
    <3> QED
      BY <2>1, <3>1, HeadTailProperties, LenProperties, EmptySeq
  <2>2. NoneStands(i, call[i])
    BY <1>10, <1>o, <2>1, <2>h DEF ClientInv, StillWants, WantsPayments
  <2>3. CASE attempt[i] < Retries
    <3>1. pc'[i] = "send" /\ todo'[i] = todo[i] /\ report'[i] = report[i]
      BY <1>10, <2>0, <2>3, <1>p DEF Failure, GoesTo, Retries
    <3>2. OnItsWay(i)' /\ Calling(i)' /\ Awaiting(i)'
      BY <1>1, <1>4, <1>10, <2>0, <2>1, <3>1 DEF OnItsWay, Calling
    <3>3. WantsToSend(i)'
      <4> SUFFICES ASSUME NEW k \in DOMAIN txs[i], SamePurpose(txs[i][k].call, call[i])
                   PROVE  ~Standing(txs'[i][k])
        BY <1>1, <1>c DEF WantsToSend, NoneStands
      <4> QED
        BY <1>2, <2>2
    <3>4. WantsPayments(i)'
      <4> SUFFICES ASSUME NEW p \in DOMAIN todo[i], NEW k \in DOMAIN txs[i],
                          SamePurpose(txs[i][k].call, [kind |-> "pay", to |-> todo[i][p]])
                   PROVE  ~Standing(txs'[i][k])
        BY <1>c, <3>1 DEF WantsPayments, NoneStands
      <4>1. NoneStands(i, [kind |-> "pay", to |-> todo[i][p]])
        BY <1>10, <1>o DEF ClientInv, StillWants, WantsPayments
      <4> QED
        BY <1>2, <4>1
    <3>5. StillWants(i)'
      BY <1>1, <1>5, <1>8, <2>0, <3>3, <3>4 DEF StillWants, WantsProbe
    <3>6. OnItsList(i)'
      BY <1>1, <1>10, <1>o, <3>1 DEF ClientInv, OnItsList, Endings
    <3>7. Reported(i)'
      BY <1>1, <1>7, <1>c, <2>0, <3>1 DEF ClientInv, Reported
    <3> QED
      BY <1>6, <3>2, <3>5, <3>6, <3>7 DEF ClientInv
  <2>4. CASE attempt[i] >= Retries
    <3>1. Settled(i, "failed")
      BY <1>10, <2>0, <2>4, <1>p DEF Failure, Retries
    <3>2. SettledInv(i, "failed")
      BY <1>10, <1>o, <2>1, <3>1, SettledFacts
    <3>3. OnItsWay(i)' /\ Calling(i)' /\ Awaiting(i)'
      BY <1>1, <1>4, <1>10, <2>0, <3>2 DEF SettledInv, OnItsWay, Calling, Endings
    <3>4. StillWants(i)'
      <4>1. WantsPayments(i)'
        <5> SUFFICES ASSUME pc'[i] \notin Endings, NEW p \in DOMAIN todo'[i],
                            NEW k \in DOMAIN txs[i],
                            SamePurpose(txs[i][k].call, [kind |-> "pay", to |-> todo'[i][p]])
                     PROVE  ~Standing(txs'[i][k])
          BY <1>c DEF WantsPayments, NoneStands
        <5>1. p + 1 \in DOMAIN todo[i] /\ todo'[i][p] = todo[i][p + 1]
          BY <3>2 DEF SettledInv
        <5>2. NoneStands(i, [kind |-> "pay", to |-> todo[i][p + 1]])
          BY <1>10, <1>o, <5>1 DEF ClientInv, StillWants, WantsPayments
        <5> QED
          BY <1>2, <5>1, <5>2
      <4>2. pc'[i] \in {"pay"} \cup Endings
        BY <3>2 DEF SettledInv
      <4> QED
        BY <1>1, <1>5, <1>8, <2>0, <4>1, <4>2 DEF StillWants, WantsToSend, WantsProbe, Endings
    <3>5. OnItsList(i)'
      BY <1>1, <1>10, <3>2 DEF SettledInv, OnItsList, Endings
    <3>6. Reported(i)'
      <4>1. /\ report[i] \in [Addresses -> Reports]
            /\ report'[i] = [report[i] EXCEPT ![Head(todo[i])] = "failed"]
        BY <3>2 DEF SettledInv, TypeOK
      <4>2. ASSUME NEW a \in Addresses, report'[i][a] = "failed", NEW k \in DOMAIN txs'[i],
                   txs'[i][k].call = [kind |-> "pay", to |-> a]
            PROVE  ~Standing(txs'[i][k])
        <5>1. CASE a = Head(todo[i])
          <6>1. SamePurpose(txs[i][k].call, call[i])
            BY <1>c, <2>1, <4>2, <5>1 DEF SamePurpose
          <6> QED
            BY <1>2, <1>c, <2>2, <4>2, <6>1
        <5>2. CASE a # Head(todo[i])
          BY <1>c, <4>1, <4>2, <5>2 DEF ClientInv, Reported
        <5> QED
          BY <5>1, <5>2
      <4>3. \A a \in Addresses : report'[i][a] = "funded" => MinedTo(i, a)' # {}
        BY <1>7, <4>1 DEF ClientInv, Reported
      <4> QED
        BY <1>1, <1>7, <2>0, <4>2, <4>3 DEF ClientInv, Reported
    <3> QED
      BY <1>6, <3>3, <3>4, <3>5, <3>6 DEF ClientInv
  <2> QED
    BY <2>3, <2>4, <1>p DEF Retries
<1>11. CASE job[i].op = "waitEL"
  <2>0. job[i].op \notin Voters \cup Payers
    BY <1>11 DEF Voters, Payers
  <2>1. pc'[i] = "send" /\ todo'[i] = todo[i] /\ report'[i] = report[i]
    BY <1>11, <2>0, <1>p DEF Failure, GoesTo
  <2>2. OnItsWay(i)' /\ Calling(i)' /\ Awaiting(i)'
    BY <1>1, <1>4, <1>11, <2>0, <2>1 DEF ClientInv, OnItsWay, Calling
  <2>3. \A k \in DOMAIN txs[i] :
            SamePurpose(txs[i][k].call, [kind |-> "pay", to |-> Probe]) => ~Standing(txs'[i][k])
    BY <1>2, <1>11, <1>o DEF ClientInv, StillWants, WantsProbe
  <2>4. call[i] = [kind |-> "pay", to |-> Probe]
    BY <1>11 DEF ClientInv, Calling
  <2>5. WantsToSend(i)' /\ WantsProbe(i)'
    BY <1>1, <1>c, <2>3, <2>4 DEF WantsToSend, WantsProbe, NoneStands
  <2>6. StillWants(i)'
    BY <1>1, <1>5, <1>8, <2>0, <2>5 DEF StillWants, WantsPayments
  <2>7. OnItsList(i)'
    BY <1>1, <2>0, <2>1 DEF ClientInv, OnItsList
  <2>8. Reported(i)'
    BY <1>1, <1>7, <1>c, <2>0, <2>1 DEF ClientInv, Reported
  <2> QED
    BY <1>6, <2>2, <2>6, <2>7, <2>8 DEF ClientInv
<1> QED
  BY <1>o, <1>9, <1>10, <1>11

\* The ways in which a call comes to its end.
LEMMA ReceiptInv ==
  ASSUME TypeOK, NEW i \in Clients, ClientInv(i), Receipt(i)
  PROVE  ClientInv(i)'
<1>1. Keeps(i) /\ txs'[i] = txs[i] /\ past20' = past20 /\ pc[i] = "await"
  BY ReceiptKeeps DEF Receipt, chain
<1>2. CASE Awaited(i).state = "ok" /\ Success(i)
  BY <1>1, <1>2, SuccessInv
<1>3. CASE Awaited(i).state = "reverted" /\ Failure(i)
  <2>1. CameToNothing(i)
    BY <1>1, <1>3 DEF CameToNothing, Standing, Awaited
  <2> QED
    BY <1>1, <1>3, <2>1, FailureInv
<1> QED
  BY <1>2, <1>3 DEF Receipt

LEMMA RefusedInv ==
  ASSUME TypeOK, NEW i \in Clients, ClientInv(i), Refused(i)
  PROVE  ClientInv(i)'
<1>1. Keeps(i) /\ txs'[i] = txs[i] /\ past20' = past20 /\ pc[i] = "send" /\ Failure(i)
  BY RefusedKeeps DEF Refused, chain
<1>2. CameToNothing(i)
  BY <1>1 DEF CameToNothing
<1> QED
  BY <1>1, <1>2, FailureInv

LEMMA ReceiptLostInv ==
  ASSUME TypeOK, NEW i \in Clients, ClientInv(i), ReceiptLost(i)
  PROVE  ClientInv(i)'
<1>1. Keeps(i) /\ past20' = past20 /\ pc[i] = "await" /\ Failure(i)
  BY ReceiptLostKeeps DEF ReceiptLost, chain
<1>2. /\ DOMAIN txs'[i] = DOMAIN txs[i]
      /\ Len(txs[i]) \in DOMAIN txs[i]
      /\ \A l \in DOMAIN txs[i] :
            txs'[i][l] = IF l = Len(txs[i]) THEN [txs[i][l] EXCEPT !.lost = TRUE]
                                            ELSE txs[i][l]
  BY ReceiptLostKeeps
<1>3. CameToNothing(i)
  <2>1. ASSUME NEW k \in DOMAIN txs[i]
        PROVE  /\ txs'[i][k].call = txs[i][k].call
               /\ txs'[i][k].state = txs[i][k].state
               /\ txs[i][k].lost => txs'[i][k].lost
               /\ k = Len(txs[i]) => txs'[i][k].lost
    <3>1. txs[i][k] \in Txs
      BY TxsOf
    <3>2. CASE k = Len(txs[i])
      <4>1. txs'[i][k] = [txs[i][k] EXCEPT !.lost = TRUE]
        BY <1>2, <3>2
      <4> QED
        BY <3>1, <4>1 DEF Txs
    <3>3. CASE k # Len(txs[i])
      BY <1>2, <3>3
    <3> QED
      BY <3>2, <3>3
  <2> QED
    BY <1>2, <2>1 DEF CameToNothing, Standing
<1> QED
  BY <1>1, <1>3, FailureInv

LEMMA UnreachableInv ==
  ASSUME TypeOK, NEW i \in Clients, ClientInv(i), Unreachable(i)
  PROVE  ClientInv(i)'
<1>1. Keeps(i) /\ Onwards /\ txs'[i] = txs[i] /\ past20' = past20
  BY UnreachableKeeps DEF Unreachable, chain, Keeps
<1>w. OnItsWay(i) /\ job[i].op \in Voters \cup Payers \cup Waits
  BY JobFacts DEF ClientInv
<1>p. pc \in [Clients -> Steps \cup Endings]
  BY DEF TypeOK
<1>2. CASE pc[i] \in {"poll", "start", "block"}
  <2>1. pc'[i] = "failed" /\ Unsent(i)
    BY <1>2, <1>p DEF Unreachable, GoesTo, Unsent, client
  <2>2. OnItsWay(i)'
    BY <1>w, <2>1 DEF OnItsWay, Unsent, Endings
  <2> QED
    BY <1>1, <1>2, <2>1, <2>2, Moves DEF Endings
<1>3. CASE pc[i] \in {"next", "decide"}
  <2>1. pc'[i] = "next" /\ Unsent(i)
    BY <1>3, <1>p, <1>1 DEF Unreachable, SetAside, GoesTo, Unsent
  <2>2. OnItsWay(i)'
    BY <1>3, <1>w, <2>1 DEF OnItsWay, Unsent, Endings
  <2> QED
    BY <1>1, <1>3, <2>1, <2>2, Moves DEF Endings
<1>4. CASE pc[i] = "send"
  <2>1. Failure(i)
    BY <1>4 DEF Unreachable
  <2>2. CameToNothing(i)
    BY <1>1, <1>4 DEF CameToNothing
  <2> QED
    BY <1>1, <1>4, <2>1, <2>2, FailureInv
<1>5. CASE pc[i] = "asked"
  <2>1. pc'[i] = "check" /\ Unsent(i)
    BY <1>5, <1>p, <1>1 DEF Unreachable, GoesTo, Unsent, client
  <2>2. OnItsWay(i)'
    BY <1>5, <1>w, <2>1 DEF OnItsWay, Unsent, Endings
  <2> QED
    BY <1>1, <1>5, <2>1, <2>2, Moves DEF Endings
<1> QED
  BY <1>2, <1>3, <1>4, <1>5 DEF Unreachable

LEMMA StopInv ==
  ASSUME TypeOK, NEW i \in Clients, ClientInv(i), Stop(i)
  PROVE  ClientInv(i)'
<1>1. pc[i] \notin Endings /\ pc'[i] = "failed" /\ Unsent(i) /\ Onwards
  BY StopKeeps DEF Stop, GoesTo, Unsent, client, TypeOK, Keeps
<1>2. OnItsWay(i)'
  BY <1>1 DEF ClientInv, OnItsWay, Unsent, Endings
<1> QED
  BY <1>1, <1>2, Moves DEF Endings

-----------------------------------------------------------------------------
\* What the chain does by itself leaves the clients alone.
LEMMA ChainStep ==
  ASSUME TypeOK,
         \/ VoteStarts \/ Outage \/ Progress \/ Grows
         \/ \E v \in Votes : Supports(v) \/ Executes(v) \/ Closes(v) \/ Ages(v)
  PROVE  TypeOK' /\ Onwards /\ UNCHANGED <<pc, client, txs>>
<1>1. UNCHANGED <<pc, client, txs>>
  BY DEF VoteStarts, Outage, Progress, Grows, Supports, Executes, Closes, Ages
<1>2. ChainTypes' /\ Onwards
  <2>1. CASE VoteStarts
    BY <2>1, NewVoteTypes DEF VoteStarts
  <2>2. CASE Outage
    BY <2>2, FaultCounts DEF Outage, contract, TypeOK, ChainTypes, Onwards
  <2>3. CASE Progress
    BY <2>3 DEF Progress, contract, TypeOK, ChainTypes, Onwards
  <2>4. CASE Grows
    BY <2>4 DEF Grows, contract, TypeOK, ChainTypes, Onwards
  <2>5. ASSUME NEW v \in Votes, Supports(v) \/ Executes(v) \/ Closes(v) \/ Ages(v)
        PROVE  ChainTypes' /\ Onwards
    BY <2>5 DEF Supports, Executes, Closes, Ages, TypeOK, ChainTypes, Onwards
  <2> QED
    BY <2>1, <2>2, <2>3, <2>4, <2>5
<1>3. ClientTypes' /\ txs' \in [Clients -> Seq(Txs)]
  BY <1>1 DEF client, TypeOK, ClientTypes
<1> QED
  BY <1>1, <1>2, <1>3, HalvesNext

\* ClientInv of a client whose step this is, and so of all.
LEMMA OneActs ==
  ASSUME IInv, NEW i \in Clients, Keeps(i), ClientInv(i)'
  PROVE  IInv'
<1>1. ASSUME NEW j \in Clients PROVE ClientInv(j)'
  <2>1. CASE j = i
    BY <2>1
  <2>2. CASE j # i
    BY <2>2, OthersStay DEF Keeps, IInv
  <2> QED
    BY <2>1, <2>2
<1> QED
  BY <1>1 DEF Keeps, IInv

LEMMA NobodyActs ==
  ASSUME IInv, TypeOK', Onwards,
         UNCHANGED <<pc, job, left, todo, attempt, call, voted, executed, report, txs>>
  PROVE  IInv'
<1>1. ASSUME NEW j \in Clients PROVE ClientInv(j)'
  <2>1. Same(j)
    BY DEF Same
  <2> QED
    BY <2>1, OthersStay DEF IInv
<1> QED
  BY <1>1 DEF IInv

\* Every step preserves the inductive invariant.
LEMMA Inductive == IInv /\ [Next]_vars => IInv'
<1> SUFFICES ASSUME IInv, [Next]_vars PROVE IInv'
  OBVIOUS
<1>0. TypeOK /\ \A i \in Clients : ClientInv(i)
  BY DEF IInv
<1>1. ASSUME NEW i \in Clients, Local(i) PROVE IInv'
  BY <1>0, <1>1, LocalKeeps, LocalInv, OneActs
<1>2. ASSUME NEW i \in Clients, Send(i) PROVE IInv'
  BY <1>0, <1>2, SendKeeps, SendInv, OneActs
<1>3. ASSUME NEW i \in Clients, Receipt(i) PROVE IInv'
  BY <1>0, <1>3, ReceiptKeeps, ReceiptInv, OneActs
<1>4. ASSUME NEW i \in Clients, Refused(i) PROVE IInv'
  BY <1>0, <1>4, RefusedKeeps, RefusedInv, OneActs
<1>5. ASSUME NEW i \in Clients, ReceiptLost(i) PROVE IInv'
  BY <1>0, <1>5, ReceiptLostKeeps, ReceiptLostInv, OneActs
<1>6. ASSUME NEW i \in Clients, Unreachable(i) PROVE IInv'
  BY <1>0, <1>6, UnreachableKeeps, UnreachableInv, OneActs
<1>7. ASSUME NEW i \in Clients, Stop(i) PROVE IInv'
  BY <1>0, <1>7, StopKeeps, StopInv, OneActs
<1>8. ASSUME NEW i \in Clients, Mine(i) PROVE IInv'
  BY <1>0, <1>8, MineKeeps, MineInv, OneActs
<1>9. ASSUME NEW i \in Clients, TimePasses(i) PROVE IInv'
  <2>1. TypeOK' /\ Onwards
    BY <1>0, <1>9 DEF TimePasses, chain, contract, TypeOK, Onwards
  <2> QED
    BY <1>9, <2>1, NobodyActs DEF TimePasses
<1>10. CASE VoteStarts \/ Outage \/ Progress \/ Grows
            \/ \E v \in Votes : Supports(v) \/ Executes(v) \/ Closes(v) \/ Ages(v)
  BY <1>0, <1>10, ChainStep, NobodyActs DEF client
<1>11. CASE UNCHANGED vars
  <2>1. TypeOK' /\ Onwards
    BY <1>0, <1>11 DEF vars, client, chain, contract, TypeOK, Onwards
  <2> QED
    BY <1>11, <2>1, NobodyActs DEF vars, client
<1>12. ASSUME NEW i \in Clients, Step(i) PROVE IInv'
  BY <1>1, <1>2, <1>3, <1>12 DEF Step, Local
<1>13. CASE Environment
  BY <1>8, <1>9, <1>10, <1>13 DEF Environment
<1> QED
  BY <1>4, <1>5, <1>6, <1>7, <1>11, <1>12, <1>13 DEF Next

LEMMA Invariance == Spec => []IInv
<1>1. Init => IInv
  BY InitIInv
<1>2. IInv /\ [Next]_vars => IInv'
  BY Inductive
<1> QED
  BY <1>1, <1>2, PTL DEF Spec

-----------------------------------------------------------------------------
\* Everybody is at a step, and no payment is tried more than three times, whatever the
\* jobs, the votes and the faults.
THEOREM TypeCorrect == Spec => []TypeOK
<1>1. IInv => TypeOK
  BY DEF IInv
<1> QED
  BY <1>1, Invariance, PTL

\* No client pays, votes or executes again unless the attempt before it has come to
\* nothing or its answer has been lost.
THEOREM NothingTwice == Spec => []AgainOnlyIfLost
<1>1. IInv => AgainOnlyIfLost
  <2> SUFFICES ASSUME IInv, NEW i \in Clients, NEW k \in DOMAIN txs[i], NEW l \in DOMAIN txs[i],
                      k < l, SamePurpose(txs[i][k].call, txs[i][l].call)
               PROVE  txs[i][k].state = "reverted" \/ txs[i][k].lost
    BY DEF AgainOnlyIfLost
  <2>1. Again(i)
    BY DEF IInv, ClientInv
  <2> QED
    BY <2>1 DEF Again, Standing
<1> QED
  BY <1>1, Invariance, PTL

\* What fund and transfer report of each address, and the good end of auto-vote and of
\* waitEL, is what the chain has.
THEOREM TruthfulReports == Spec => []ReportsAreTrue
<1>1. IInv => ReportsAreTrue
  <2> SUFFICES ASSUME IInv, NEW i \in Clients
               PROVE  /\ \A a \in Addresses :
                            /\ report[i][a] = "funded" => MinedTo(i, a) # {}
                            /\ report[i][a] = "failed" => \A k \in MinedTo(i, a) : txs[i][k].lost
                      /\ job[i].op \in Voters /\ pc[i] = "done" =>
                            Mined(i, "vote") # {} /\ Mined(i, "execute") # {}
                      /\ job[i].op = "waitEL" /\ pc[i] = "done" =>
                            past20 \/ MinedTo(i, Probe) # {}
    BY DEF ReportsAreTrue
  <2>1. Reported(i)
    BY DEF IInv, ClientInv
  <2>2. ASSUME NEW a \in Addresses, report[i][a] = "failed", NEW k \in MinedTo(i, a)
        PROVE  txs[i][k].lost
    <3>1. /\ k \in DOMAIN txs[i] /\ txs[i][k].call.kind = "pay" /\ txs[i][k].state = "ok"
          /\ txs[i][k].call.to = a
      BY <2>2 DEF MinedTo, Mined
    <3>2. txs[i][k] \in Txs
      BY <3>1, TxsOf DEF IInv
    <3>3. txs[i][k].call \in Calls
      BY <3>2 DEF Txs
    <3>4. txs[i][k].call = [kind |-> "pay", to |-> a]
      BY <3>1, <3>3 DEF Calls
    <3> QED
      BY <2>1, <2>2, <3>1, <3>4 DEF Reported, Standing
  <2> QED
    BY <2>1, <2>2 DEF Reported
<1> QED
  BY <1>1, Invariance, PTL
=============================================================================
