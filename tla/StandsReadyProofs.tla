-------------------------- MODULE StandsReadyProofs --------------------------
(***************************************************************************)
(* A stand that is ready validates with what it submitted: the proof, for  *)
(* every list of commands that keeps to PlansAssumption, any scenarios and *)
(* any number of faults.  What is not where it belongs yet waits for a     *)
(* move that is to come, and when the stand is ready none is.  And, for    *)
(* every list that is in order (OrderAssumption), that a stand wants for   *)
(* nothing of its own but what an interruption has left half done.         *)
(***************************************************************************)
EXTENDS StandsProofs, StandOrder

\* The place from which a command goes on: a failed one is run again from its start.
From == IF status = "failed" THEN 0 ELSE Passed
ToCome == Coming(Plan, command, From)

\* The moves that keys wait for.
Awaited == Submissions \cup {"write", "import"}

-----------------------------------------------------------------------------
(***************************************************************************)
(* The invariant.  Until an import fails, what was submitted is in the     *)
(* validator client, or an import is to come; ...                          *)
(***************************************************************************)
AwaitsImport ==
    ~swallowed => \/ {x.batch : x \in submitted} \subseteq vc
                  \/ \E m \in ToCome : m.op = "import"

(***************************************************************************)
(* ... without a fault, keys are submitted, or in a file that is handed    *)
(* out later and not written over, or unused, and a `keys use` comes that  *)
(* takes them: it is not the one that has written its file and not marked  *)
(* them yet; ...                                                           *)
(***************************************************************************)
JustWritten(wc) ==
    command > 0 /\ From \in DOMAIN Here /\ Here[From].op = "write" /\ Here[From].wc = wc

HandedOutLater(name) ==
    /\ \E m \in ToCome : m.op \in Submissions /\ m.name = name
    /\ \A m \in ToCome : ~(m.op = "write" /\ m.name = name)
InItsFile(b) == \E n \in DOMAIN files : b \in files[n] /\ HandedOutLater(n)

TakenLater(b) ==
    /\ ~batches[b].used /\ ~JustWritten(batches[b].wc)
    /\ \E m \in ToCome : m.op = "write" /\ m.wc = batches[b].wc

OnItsWay(b) ==
    \/ batches[b].wc = "own"
    \/ \E x \in submitted : x.batch = b
    \/ InItsFile(b)
    \/ TakenLater(b)

AllOnTheirWay == faults = 0 => status # "failed" /\ \A b \in DOMAIN batches : OnItsWay(b)

\* ... and a stand is ready when its commands are through.
Through == status = "ready" => left = <<>> /\ command = Len(Plan)

Reaching == AwaitsImport /\ AllOnTheirWay /\ Through

-----------------------------------------------------------------------------
\* What is to come, place by place.
LEMMA InComing ==
  ASSUME scenario \in Scenarios, NEW c \in Nat, NEW j, NEW m
  PROVE  m \in Coming(Plan, c, j) <=>
            \E d \in DOMAIN Plan : \E k \in DOMAIN Plan[d] :
               m = Plan[d][k] /\ (d > c \/ (d = c /\ k > j))
<1>1. DOMAIN Plan \subseteq Nat
  BY PlanFacts
<1>2. ASSUME NEW d \in DOMAIN Plan, NEW k \in DOMAIN Plan[d], d > c \/ (d = c /\ k > j)
      PROVE  Plan[d][k] \in Coming(Plan, c, j)
  <2>1. d \in {e \in DOMAIN Plan : e >= c}
    BY <1>1, <1>2
  <2>2. k \in {i \in DOMAIN Plan[d] : d > c \/ i > j}
    BY <1>2
  <2> QED
    BY <2>1, <2>2 DEF Coming
<1>3. ASSUME m \in Coming(Plan, c, j)
      PROVE  \E d \in DOMAIN Plan : \E k \in DOMAIN Plan[d] :
                m = Plan[d][k] /\ (d > c \/ (d = c /\ k > j))
  <2>1. PICK d \in {e \in DOMAIN Plan : e >= c} :
           m \in {Plan[d][k] : k \in {i \in DOMAIN Plan[d] : d > c \/ i > j}}
    BY <1>3 DEF Coming
  <2>2. PICK k \in {i \in DOMAIN Plan[d] : d > c \/ i > j} : m = Plan[d][k]
    BY <2>1
  <2>3. d \in Nat /\ d >= c /\ k \in DOMAIN Plan[d] /\ (d > c \/ k > j)
    BY <1>1, <2>1, <2>2
  <2> QED
    BY <2>1, <2>2, <2>3
<1> QED
  BY <1>2, <1>3

\* What a move that keys wait for can count on.
LEMMA CurrentReaches ==
  ASSUME Types, InPlace, AtMove
  PROVE  /\ From = Passed /\ From \in Nat /\ command \in DOMAIN Plan /\ command \in Nat
         /\ From + 1 \in DOMAIN Here /\ Current = Here[From + 1]
         /\ Current.op = "generate" /\ Current.wc # "own" =>
               \E m \in Coming(Plan, command, From + 1) : m.op = "write" /\ m.wc = Current.wc
         /\ Current.op = "write" =>
               /\ \E m \in Coming(Plan, command, From + 1) :
                     m.op \in Submissions /\ m.name = Current.name
               /\ \A m \in Coming(Plan, command, From + 1) :
                     ~(m.op = "write" /\ m.name = Current.name)
         /\ Current.op \in Submissions =>
               \E m \in Coming(Plan, command, From + 1) : m.op = "import"
         /\ Current.op \in Submissions \cup {"write"} => ~Current.quiet
         /\ Current.op = "mark" => JustWritten(Current.wc)
         /\ Current.skip # {} =>
               \A k \in DOMAIN Here :
                  From + 1 <= k /\ k <= From + 1 + Current.over => Here[k].op \notin Awaited
<1>1. /\ command \in DOMAIN Plan /\ command \in Nat /\ command > 0
      /\ From = Passed /\ From \in Nat /\ From + 1 \in DOMAIN Here /\ Current = Here[From + 1]
      /\ Here = Plan[command] /\ DOMAIN Here = 1..Len(Here) /\ Len(Here) \in Nat
  BY AtCurrent, PlanFacts DEF Types, From, AtMove, Here
<1>2. KeysReachTheClient(Plan)
  BY PlansAssumption DEF Types, Plan
<1> DEFINE j == From + 1
<1>3. j \in DOMAIN Plan[command] /\ Current = Plan[command][j]
  BY <1>1
<1>4. Current.op = "mark" => /\ j > 1 /\ Here[j - 1].op = "write"
                             /\ Here[j - 1].wc = Current.wc
  BY <1>1, <1>2, <1>3 DEF KeysReachTheClient
<1>5. Current.op = "mark" => JustWritten(Current.wc)
  BY <1>1, <1>4 DEF JustWritten
<1>6. Current.skip # {} =>
         \A k \in DOMAIN Here : j <= k /\ k <= j + Current.over => Here[k].op \notin Awaited
  BY <1>1, <1>2, <1>3 DEF KeysReachTheClient, Awaited
<1>7. Current.op \in Submissions \cup {"write"} => ~Current.quiet
  BY <1>1, <1>2, <1>3 DEF KeysReachTheClient
<1>8. Current.op \in Submissions => \E m \in Coming(Plan, command, j) : m.op = "import"
  BY <1>1, <1>2, <1>3 DEF KeysReachTheClient
<1>9. Current.op = "write" =>
         /\ \E m \in Coming(Plan, command, j) : m.op \in Submissions /\ m.name = Current.name
         /\ \A m \in Coming(Plan, command, j) : ~(m.op = "write" /\ m.name = Current.name)
  BY <1>1, <1>2, <1>3 DEF KeysReachTheClient
<1>10. Current.op = "generate" /\ Current.wc # "own" =>
          \E m \in Coming(Plan, command, j) : m.op = "write" /\ m.wc = Current.wc
  BY <1>1, <1>2, <1>3 DEF KeysReachTheClient
<1> QED
  BY <1>1, <1>5, <1>6, <1>7, <1>8, <1>9, <1>10

(***************************************************************************)
(* How a step moves the place: to the start of a command; by one move,     *)
(* made or passed over quietly; by a jump over moves no key waits for;     *)
(* back to the start, when the command fails or is run again; or not.      *)
(***************************************************************************)
Starts == /\ command' = command + 1 /\ From' = 0
          /\ command > 0 => From = Len(Here)
Advances == /\ AtMove /\ command' = command /\ From' = From + 1
            /\ Step \/ (Current.quiet /\ UNCHANGED keyVars /\ swallowed')
Jumps == /\ AtMove /\ Skips /\ command' = command /\ From' >= From /\ From' \in Nat
         /\ From' <= From + 1 + Current.over
         /\ UNCHANGED <<done, keyVars>>
Restarts == /\ command > 0 /\ command' = command /\ From' = 0
            /\ status = "failed" \/ status' = "failed"
Stays == command' = command /\ From' = From

LEMMA Moving ==
  ASSUME IInv, [Next]_vars
  PROVE  /\ UNCHANGED scenario
         /\ Starts \/ Advances \/ Jumps \/ Restarts \/ Stays
<1> USE DEF IInv
<1>0. command \in Nat /\ Len(Plan) \in Nat /\ scenario \in Scenarios
  BY PlanFacts DEF Types
<1>1. CASE Begin
  <2>1. /\ status = "running" /\ left = <<>> /\ command < Len(Plan) /\ command' = command + 1
        /\ left' = Plan[command'] /\ status' = "running" /\ scenario' = scenario
    BY <1>1 DEF Begin
  <2>2. Passed' = 0
    BY <1>0, <2>1, Begins
  <2>3. command > 0 => Passed = Len(Here)
    <3>1. command > 0 => Len(Here) \in Nat
      BY <1>0, PlanFacts DEF Types, Here
    <3> QED
      BY <2>1, <3>1 DEF Passed
  <2> QED
    BY <2>1, <2>2, <2>3 DEF Starts, From
<1>2. CASE Skip
  <2>1. /\ AtMove /\ status = "running"
        /\ left' = SubSeq(left, Current.over + 2, Len(left))
        /\ UNCHANGED <<scenario, command, status>>
    BY <1>2 DEF Skip, Skips, AtMove
  <2>2. \/ Passed' = Passed + 1 + Current.over
        \/ Passed' = Len(Here) /\ Len(Here) <= Passed + 1 + Current.over
    BY <2>1, JumpsOn
  <2>3. From' = Passed' /\ From = Passed
    BY <2>1 DEF From
  <2>4. /\ Passed \in Nat /\ Current.over \in Nat /\ Len(Here) \in Nat
        /\ DOMAIN Here = 1..Len(Here) /\ Passed + 1 \in 1..Len(Here)
    BY <2>1, AtCurrent, MoveFacts
  <2>5. From' \in Nat /\ From' >= From /\ From' <= From + 1 + Current.over
    BY <2>2, <2>3, <2>4
  <2> QED
    BY <1>2, <2>1, <2>3, <2>5 DEF Jumps, Skip
<1>3. CASE Step
  <2>1. AtMove /\ left' = Tail(left) /\ UNCHANGED <<scenario, command, status>>
    BY <1>3 DEF Step, Able
  <2>2. Passed' = Passed + 1 /\ status = "running"
    BY <2>1, GoesOn DEF AtMove
  <2> QED
    BY <1>3, <2>1, <2>2 DEF Advances, From
<1>4. CASE RefuseQuietly \/ FailQuietly
  <2>1. /\ AtMove /\ left' = Tail(left) /\ UNCHANGED <<scenario, command, status, keyVars>>
        /\ Current.quiet /\ swallowed'
    BY <1>4 DEF RefuseQuietly, FailQuietly, Able
  <2>2. Passed' = Passed + 1 /\ status = "running"
    BY <2>1, GoesOn DEF AtMove
  <2> QED
    BY <2>1, <2>2 DEF Advances, From
<1>5. CASE Refuse \/ Ready \/ UNCHANGED vars
  <2>1. /\ UNCHANGED <<scenario, command, left>>
        /\ status' = status \/ (status' # "failed" /\ status # "failed")
    BY <1>5 DEF Refuse, Ready, vars, AtMove
  <2>2. Passed' = Passed
    BY <2>1 DEF Passed, Here, Plan
  <2> QED
    BY <2>1, <2>2 DEF Stays, From
<1>6. CASE Interrupt \/ FailAfterEffect
  <2>1. AtMove /\ status' = "failed" /\ UNCHANGED <<scenario, command>>
    BY <1>6 DEF Interrupt, FailAfterEffect, Able
  <2>2. command > 0
    BY <1>0, <2>1 DEF InPlace, AtMove
  <2> QED
    BY <2>1, <2>2 DEF Restarts, From
<1>7. CASE Resume
  <2>1. /\ status = "failed" /\ status' = "running" /\ left' = Plan[command]
        /\ UNCHANGED <<scenario, command>>
    BY <1>7 DEF Resume
  <2>2. command > 0 /\ command' \in 1..Len(Plan) /\ left' = Plan[command']
    BY <1>0, <2>1 DEF InPlace, Types
  <2>3. Passed' = 0
    BY <2>1, <2>2, Begins
  <2> QED
    BY <2>1, <2>2, <2>3 DEF Restarts, From
<1> QED
  BY <1>1, <1>2, <1>3, <1>4, <1>5, <1>6, <1>7 DEF Next

\* A place ahead stays ahead until its move is made, passed over quietly or jumped over.
Ahead(c, j) == c > command \/ (c = command /\ j > From)

LEMMA StillAhead ==
  ASSUME IInv, [Next]_vars, NEW c \in DOMAIN Plan, NEW j \in DOMAIN Plan[c], Ahead(c, j)
  PROVE  \/ Ahead(c, j)'
         \/ c = command /\ j = From + 1 /\ Current = Plan[c][j] /\ Advances
         \/ c = command /\ From < j /\ j <= From' /\ Jumps
<1>1. UNCHANGED scenario /\ (Starts \/ Advances \/ Jumps \/ Restarts \/ Stays)
  BY Moving
<1>2. scenario \in Scenarios /\ command \in Nat
  BY PlanFacts DEF IInv, Types
<1>3. c \in Nat /\ c > 0 /\ j \in Nat /\ j > 0 /\ DOMAIN Plan[c] = 1..Len(Plan[c])
      /\ Len(Plan[c]) \in Nat
  BY <1>2, PlanFacts
<1>4. c > command \/ (c = command /\ j > From)
  BY DEF Ahead
<1>5. CASE Starts
  <2>1. command' = command + 1 /\ From' = 0 /\ (command > 0 => From = Len(Here))
    BY <1>5 DEF Starts
  <2>2. c # command
    BY <1>3, <1>4, <2>1 DEF Here
  <2> QED
    BY <1>2, <1>3, <1>4, <2>1, <2>2 DEF Ahead
<1>6. CASE Advances
  <2>1. AtMove /\ command' = command /\ From' = From + 1
    BY <1>6 DEF Advances
  <2>2. From \in Nat /\ Current = Plan[command][From + 1]
    BY <2>1, CurrentReaches DEF IInv, Here
  <2>3. (c = command /\ j = From + 1) \/ c > command' \/ (c = command' /\ j > From')
    BY <1>3, <1>4, <2>1, <2>2
  <2> QED
    BY <1>6, <2>2, <2>3 DEF Ahead
<1>7. CASE Jumps
  <2>1. AtMove /\ command' = command /\ From' \in Nat
    BY <1>7 DEF Jumps
  <2>2. From \in Nat
    BY <2>1, CurrentReaches DEF IInv
  <2> QED
    BY <1>3, <1>4, <1>7, <2>1, <2>2 DEF Ahead
<1>8. CASE Restarts
  BY <1>3, <1>4, <1>8 DEF Restarts, Ahead
<1>9. CASE Stays
  BY <1>4, <1>9 DEF Stays, Ahead
<1> QED
  BY <1>1, <1>5, <1>6, <1>7, <1>8, <1>9

\* A move that keys wait for stays to come until it is made, or passed over quietly.
LEMMA StillComing ==
  ASSUME IInv, [Next]_vars, NEW m \in ToCome, m.op \in Awaited
  PROVE  m \in ToCome' \/ (m = Current /\ Advances)
<1>1. /\ Plan' = Plan /\ Here = Plan[command] /\ scenario \in Scenarios
      /\ command \in Nat /\ command' \in Nat
  <2>1. UNCHANGED scenario /\ (Starts \/ Advances \/ Jumps \/ Restarts \/ Stays)
    BY Moving
  <2> QED
    BY <2>1, PlanFacts DEF Plan, Here, IInv, Types, Starts, Advances, Jumps, Restarts, Stays
<1>2. PICK d \in DOMAIN Plan : \E k \in DOMAIN Plan[d] : m = Plan[d][k] /\ Ahead(d, k)
  BY <1>1, InComing DEF ToCome, Ahead
<1>3. PICK k \in DOMAIN Plan[d] : m = Plan[d][k] /\ Ahead(d, k)
  BY <1>2
<1>4. CASE Ahead(d, k)'
  <2>1. d > command' \/ (d = command' /\ k > From')
    BY <1>4 DEF Ahead
  <2>2. m \in Coming(Plan, command', From')
    BY <1>1, <1>3, <2>1, InComing
  <2> QED
    BY <1>1, <2>2 DEF ToCome
<1>5. CASE d = command /\ From < k /\ k <= From' /\ Jumps
  <2>1. /\ AtMove /\ Current.skip # {} /\ From' \in Nat
        /\ From' <= From + 1 + Current.over
    BY <1>5 DEF Jumps, Skips
  <2>2. From \in Nat /\ k \in Nat /\ Current.over \in Nat
    <3>1. From \in Nat /\ Current \in Moves
      BY <2>1, CurrentReaches, AtCurrent DEF IInv
    <3>2. Current.over \in Nat
      BY <3>1, MoveFacts
    <3>3. k \in Nat
      BY <1>1, <1>3, PlanFacts
    <3> QED
      BY <3>1, <3>2, <3>3
  <2>3. k \in DOMAIN Here /\ From + 1 <= k /\ k <= From + 1 + Current.over
    BY <1>1, <1>5, <2>1, <2>2
  <2>4. Here[k].op \notin Awaited
    BY <2>1, <2>3, CurrentReaches DEF IInv
  <2> QED
    BY <1>1, <1>3, <1>5, <2>4
<1> QED
  BY <1>3, <1>4, <1>5, StillAhead

\* Without a failure nothing comes again.
LEMMA NothingNew ==
  ASSUME IInv, [Next]_vars, status # "failed", status' # "failed", NEW m \in ToCome'
  PROVE  m \in ToCome
<1>1. UNCHANGED scenario /\ (Starts \/ Advances \/ Jumps \/ Stays)
  BY Moving DEF Restarts
<1>2. Plan' = Plan /\ scenario \in Scenarios /\ command \in Nat
  BY <1>1, PlanFacts DEF Plan, IInv, Types
<1>3. command' \in Nat
  BY <1>1, <1>2 DEF Starts, Advances, Jumps, Stays
<1>4. m \in Coming(Plan, command', From')
  BY <1>2 DEF ToCome
<1>5. PICK d \in DOMAIN Plan : \E k \in DOMAIN Plan[d] :
         m = Plan[d][k] /\ (d > command' \/ (d = command' /\ k > From'))
  BY <1>2, <1>3, <1>4, InComing
<1>6. PICK k \in DOMAIN Plan[d] : m = Plan[d][k] /\ (d > command' \/ (d = command' /\ k > From'))
  BY <1>5
<1>7. d \in Nat /\ k \in Nat
  BY <1>2, PlanFacts
<1>8. d > command \/ (d = command /\ k > From)
  <2>1. CASE Starts
    BY <1>2, <1>6, <1>7, <2>1 DEF Starts
  <2>2. CASE Advances \/ Jumps
    <3>1. AtMove /\ command' = command /\ From' \in Nat /\ From' >= From /\ From \in Nat
      BY <2>2, CurrentReaches DEF Advances, Jumps, IInv
    <3> QED
      BY <1>6, <1>7, <3>1
  <2>3. CASE Stays
    BY <1>6, <2>3 DEF Stays
  <2> QED
    BY <1>1, <2>1, <2>2, <2>3
<1> QED
  BY <1>2, <1>6, <1>8, InComing DEF ToCome

-----------------------------------------------------------------------------
(***************************************************************************)
(* What was submitted and not imported.                                    *)
(***************************************************************************)
LEMMA FrameOfKeys ==
  ASSUME IInv, [Next]_vars, ~Step, ~FailAfterEffect
  PROVE  UNCHANGED keyVars
BY DEF Next, Begin, Skip, Refuse, RefuseQuietly, Interrupt, FailQuietly, Resume, Ready, vars, keyVars

LEMMA KeepsAwaitsImport ==
  ASSUME IInv, IInv', [Next]_vars, AwaitsImport
  PROVE  AwaitsImport'
<1> SUFFICES ASSUME ~swallowed'
             PROVE  \/ {x.batch : x \in submitted'} \subseteq vc'
                    \/ \E m \in ToCome' : m.op = "import"
  BY DEF AwaitsImport
<1>1. ~swallowed
  BY DEF Next, Begin, Skip, Step, Refuse, RefuseQuietly, Interrupt, FailAfterEffect, FailQuietly, Resume,
         Ready, vars
<1>2. {x.batch : x \in submitted} \subseteq vc \/ \E m \in ToCome : m.op = "import"
  BY <1>1 DEF AwaitsImport
<1>3. ASSUME NEW m \in ToCome, m.op = "import", ~(Step /\ Current.op = "import")
      PROVE  m \in ToCome'
  <2>1. m.op \in Awaited
    BY <1>3 DEF Awaited
  <2>2. ~(m = Current /\ Advances)
    BY <1>3 DEF Advances
  <2> QED
    BY <2>1, <2>2, StillComing
<1>4. CASE ~Step /\ ~FailAfterEffect
  <2>1. UNCHANGED <<submitted, vc>>
    BY <1>4, FrameOfKeys DEF keyVars
  <2> QED
    BY <1>2, <1>3, <1>4, <2>1
<1>5. CASE Step \/ FailAfterEffect
  <2>1. AtMove /\ KeysEffect
    <3>1. Able /\ Effect
      BY <1>5 DEF Step, FailAfterEffect
    <3> QED
      BY <3>1, Zenon DEF Able, Effect
  <2>2. CASE Current.op = "import"
    <3>1. vc' = DOMAIN batches /\ submitted' = submitted
      BY <2>1, <2>2 DEF KeysEffect, ImportKeys
    <3>2. \A x \in submitted : x.batch \in DOMAIN batches
      BY DEF IInv, Types, KeyTypes
    <3> QED
      BY <3>1, <3>2
  <2>3. CASE Current.op \in Submissions
    <3>1. /\ command \in Nat /\ From \in Nat
          /\ \E m \in Coming(Plan, command, From + 1) : m.op = "import"
      BY <2>1, <2>3, CurrentReaches DEF IInv
    <3>2. command' = command /\ Plan' = Plan /\ scenario \in Scenarios
      BY <1>5 DEF Step, FailAfterEffect, Plan, IInv, Types
    <3>3. From' \in {0, From + 1}
      <4>1. CASE Step
        <5>1. left' = Tail(left) /\ UNCHANGED <<scenario, command, status>> /\ status = "running"
          BY <2>1, <4>1 DEF Step, AtMove
        <5>2. Passed' = Passed + 1
          BY <2>1, <5>1, GoesOn DEF IInv
        <5> QED
          BY <5>1, <5>2 DEF From
      <4>2. CASE FailAfterEffect
        BY <4>2 DEF FailAfterEffect, From
      <4> QED
        BY <1>5, <4>1, <4>2
    <3>4. PICK m \in Coming(Plan, command, From + 1) : m.op = "import"
      BY <3>1
    <3>5. PICK d \in DOMAIN Plan : \E k \in DOMAIN Plan[d] :
             m = Plan[d][k] /\ (d > command \/ (d = command /\ k > From + 1))
      BY <3>1, <3>2, <3>4, InComing
    <3>6. PICK k \in DOMAIN Plan[d] :
             m = Plan[d][k] /\ (d > command \/ (d = command /\ k > From + 1))
      BY <3>5
    <3>7. k \in Nat
      BY <3>2, PlanFacts
    <3>8. d > command \/ (d = command /\ k > From')
      BY <3>1, <3>3, <3>6, <3>7
    <3>9. m \in Coming(Plan, command, From')
      BY <3>1, <3>2, <3>6, <3>8, InComing
    <3> QED
      BY <3>2, <3>4, <3>9 DEF ToCome
  <2>4. CASE Current.op \notin Submissions \cup {"import"}
    <3>1. UNCHANGED <<submitted, vc>>
      <4>1. Current.op \in {"none", "look", "generate", "write", "mark"}
        BY <2>1, <2>4, AtCurrent, MoveFacts DEF Submissions, IInv
      <4> QED
        BY <2>1, <4>1 DEF KeysEffect, GenerateKeys, WriteKeysFile, MarkKeys, keyVars
    <3> QED
      BY <1>2, <1>3, <2>4, <3>1
  <2> QED
    BY <2>2, <2>3, <2>4
<1> QED
  BY <1>4, <1>5

-----------------------------------------------------------------------------
(***************************************************************************)
(* What was generated and not submitted.                                   *)
(***************************************************************************)
LEMMA NotJustWrittenYet ==
  ASSUME IInv, [Next]_vars, status # "failed", status' # "failed",
         NEW wc, ~JustWritten(wc), ~(Step /\ Current.op = "write" /\ Current.wc = wc)
  PROVE  ~JustWritten(wc)'
<1>1. UNCHANGED scenario /\ (Starts \/ Advances \/ Jumps \/ Stays)
  BY Moving DEF Restarts
<1>2. Plan' = Plan /\ scenario \in Scenarios /\ command \in Nat
  BY <1>1, PlanFacts DEF Plan, IInv, Types
<1>3. SUFFICES ASSUME JustWritten(wc)'
               PROVE  FALSE
  OBVIOUS
<1>4. /\ command' > 0 /\ From' \in DOMAIN Plan[command']
      /\ Plan[command'][From'].op = "write" /\ Plan[command'][From'].wc = wc
  BY <1>2, <1>3 DEF JustWritten, Here
<1>5. CASE Starts
  <2>1. command' \in Nat /\ command' \in DOMAIN Plan
    <3>1. command' \in 0..Len(Plan')
      BY NextIInv DEF IInv, Types
    <3> QED
      BY <1>2, <1>4, <3>1, PlanFacts
  <2> QED
    BY <1>2, <1>4, <1>5, <2>1, PlanFacts DEF Starts
<1>6. CASE Advances
  <2>1. /\ AtMove /\ command' = command /\ From' = From + 1
        /\ Step \/ Current.quiet
    BY <1>6 DEF Advances
  <2>2. Current = Plan[command'][From'] /\ (Current.op = "write" => ~Current.quiet)
    BY <2>1, CurrentReaches DEF IInv, Here
  <2> QED
    BY <1>4, <2>1, <2>2
<1>7. CASE Jumps
  <2>1. /\ AtMove /\ Current.skip # {} /\ command' = command
        /\ From' >= From /\ From' \in Nat /\ From' <= From + 1 + Current.over
    BY <1>7 DEF Jumps, Skips
  <2>2. From \in Nat /\ Current.over \in Nat
    BY <2>1, CurrentReaches, AtCurrent, MoveFacts DEF IInv
  <2>3. From' # From
    BY <1>2, <1>4, <2>1 DEF JustWritten, Here
  <2>4. From' \in DOMAIN Here /\ From + 1 <= From' /\ Here[From'].op = "write"
    BY <1>4, <2>1, <2>2, <2>3 DEF Here
  <2> QED
    BY <2>1, <2>4, CurrentReaches DEF IInv, Awaited
<1>8. CASE Stays
  BY <1>2, <1>4, <1>8 DEF Stays, JustWritten, Here
<1> QED
  BY <1>1, <1>5, <1>6, <1>7, <1>8

\* The file stays to be handed out, until it is, ...
LEMMA StillHandedOut ==
  ASSUME IInv, [Next]_vars, status # "failed", status' # "failed",
         NEW name, HandedOutLater(name),
         ~(Step /\ Current.op \in Submissions /\ Current.name = name)
  PROVE  HandedOutLater(name)'
<1>1. PICK m \in ToCome : m.op \in Submissions /\ m.name = name
  BY DEF HandedOutLater
<1>2. ~(m = Current /\ Advances)
  <2>1. SUFFICES ASSUME m = Current, Advances
                 PROVE  FALSE
    OBVIOUS
  <2>2. AtMove /\ (Step \/ Current.quiet)
    BY <2>1 DEF Advances
  <2>3. ~Current.quiet
    BY <1>1, <2>1, <2>2, CurrentReaches DEF IInv
  <2> QED
    BY <1>1, <2>1, <2>2, <2>3
<1>3. m \in ToCome'
  BY <1>1, <1>2, StillComing DEF Awaited
<1>4. \A w \in ToCome' : ~(w.op = "write" /\ w.name = name)
  BY NothingNew DEF HandedOutLater
<1> QED
  BY <1>1, <1>3, <1>4 DEF HandedOutLater

\* ... and the keys stay to be taken, until they are.
LEMMA StillTaken ==
  ASSUME IInv, [Next]_vars, status # "failed", status' # "failed",
         NEW b, TakenLater(b), batches'[b].wc = batches[b].wc, ~batches'[b].used,
         ~(Step /\ Current.op = "write" /\ Current.wc = batches[b].wc)
  PROVE  TakenLater(b)'
<1>1. PICK m \in ToCome : m.op = "write" /\ m.wc = batches[b].wc
  BY DEF TakenLater
<1>2. ~(m = Current /\ Advances)
  <2>1. SUFFICES ASSUME m = Current, Advances
                 PROVE  FALSE
    OBVIOUS
  <2>2. AtMove /\ (Step \/ Current.quiet)
    BY <2>1 DEF Advances
  <2>3. ~Current.quiet
    BY <1>1, <2>1, <2>2, CurrentReaches DEF IInv
  <2> QED
    BY <1>1, <2>1, <2>2, <2>3
<1>3. m \in ToCome'
  BY <1>1, <1>2, StillComing DEF Awaited
<1>4. PICK wc : wc = batches[b].wc
  OBVIOUS
<1>5. ~JustWritten(wc)'
  BY <1>4, NotJustWrittenYet DEF TakenLater
<1> QED
  BY <1>1, <1>3, <1>4, <1>5 DEF TakenLater, JustWritten

LEMMA StaysOnItsWay ==
  ASSUME IInv, [Next]_vars, status # "failed", status' # "failed",
         NEW b, OnItsWay(b), batches'[b].wc = batches[b].wc, submitted \subseteq submitted',
         TakenLater(b) => /\ ~batches'[b].used
                          /\ ~(Step /\ Current.op = "write" /\ Current.wc = batches[b].wc),
         \A n \in DOMAIN files : b \in files[n] /\ HandedOutLater(n) =>
            /\ n \in DOMAIN files' /\ b \in files'[n]
            /\ ~(Step /\ Current.op \in Submissions /\ Current.name = n)
  PROVE  OnItsWay(b)'
<1>1. CASE batches[b].wc = "own" \/ \E x \in submitted : x.batch = b
  BY <1>1 DEF OnItsWay
<1>2. CASE InItsFile(b)
  <2>1. PICK n \in DOMAIN files : b \in files[n] /\ HandedOutLater(n)
    BY <1>2 DEF InItsFile
  <2>2. HandedOutLater(n)'
    BY <2>1, StillHandedOut
  <2> QED
    BY <2>1, <2>2 DEF OnItsWay, InItsFile
<1>3. CASE TakenLater(b)
  BY <1>3, StillTaken DEF OnItsWay
<1> QED
  BY <1>1, <1>2, <1>3 DEF OnItsWay

\* Where a command stands that has made a move.
LEMMA AfterStep ==
  ASSUME IInv, Step
  PROVE  /\ AtMove /\ Able /\ KeysEffect
         /\ Current \in ToCome
         /\ ToCome' = Coming(Plan, command, From + 1)
         /\ \A wc : JustWritten(wc)' <=> (Current.op = "write" /\ Current.wc = wc)
<1>1. /\ AtMove /\ Able /\ Effect /\ left' = Tail(left) /\ status = "running"
      /\ UNCHANGED <<scenario, command, status>>
  BY DEF Step, Able, AtMove
<1>2. KeysEffect
  BY <1>1, Zenon DEF Effect
<1>3. From' = From + 1 /\ Plan' = Plan /\ Here' = Here
  BY <1>1, GoesOn DEF From, Plan, Here, IInv
<1>4. /\ From \in Nat /\ command \in DOMAIN Plan /\ command \in Nat /\ scenario \in Scenarios
      /\ From + 1 \in DOMAIN Here /\ Current = Here[From + 1] /\ command > 0
  BY <1>1, CurrentReaches, AtCurrent DEF IInv, Types
<1>5. Current \in ToCome
  <2>1. Here = Plan[command] /\ From + 1 > From
    BY <1>4 DEF Here
  <2> QED
    BY <1>4, <2>1, InComing DEF ToCome
<1>6. \A wc : JustWritten(wc)' <=> (Current.op = "write" /\ Current.wc = wc)
  BY <1>1, <1>3, <1>4 DEF JustWritten
<1> QED
  BY <1>1, <1>2, <1>3, <1>5, <1>6 DEF ToCome

LEMMA StepOnTheirWay ==
  ASSUME IInv, Step, status # "failed", \A b \in DOMAIN batches : OnItsWay(b),
         NEW b \in DOMAIN batches'
  PROVE  OnItsWay(b)'
<1>1. /\ AtMove /\ Able /\ KeysEffect /\ KeyTypes /\ Current \in ToCome
      /\ ToCome' = Coming(Plan, command, From + 1)
      /\ \A wc : JustWritten(wc)' <=> (Current.op = "write" /\ Current.wc = wc)
  BY AfterStep DEF IInv, Types
<1>2. [Next]_vars /\ status' # "failed"
  BY DEF Next, Step
<1>3. CASE Current.op = "generate"
  <2>1. GenerateKeys
    BY <1>1, <1>3 DEF KeysEffect
  <2> DEFINE new == [wc |-> Current.wc, used |-> FALSE]
  <2>2. batches' = Append(batches, new) /\ UNCHANGED <<files, submitted, vc>>
    BY <2>1 DEF GenerateKeys
  <2>3. CASE b \in DOMAIN batches
    <3>1. batches'[b] = batches[b]
      <4>1. Current.wc \in Credentials
        BY <1>1, <1>3, SpeaksOfFacts DEF IInv
      <4> QED
        BY <1>1, <2>1, <2>3, <4>1, Generated
    <3>2. TakenLater(b) => ~batches'[b].used
      BY <3>1 DEF TakenLater
    <3> QED
      BY <1>2, <1>3, <2>2, <2>3, <3>1, <3>2, StaysOnItsWay DEF Submissions
  <2>4. CASE b \notin DOMAIN batches
    <3>1. batches'[b] = new
      <4>1. /\ batches \in Seq(Batches) /\ Len(batches) \in Nat
            /\ DOMAIN batches = 1..Len(batches)
        BY <1>1, BatchFacts DEF KeyTypes
      <4>2. new \in Batches
        BY <1>1, <1>3, SpeaksOfFacts DEF IInv, Batches
      <4> HIDE DEF new
      <4>3. /\ batches' \in Seq(Batches) /\ Len(batches') = Len(batches) + 1
            /\ batches'[Len(batches) + 1] = new
        BY <2>2, <4>1, <4>2, AppendProperties
      <4>4. b \in 1..(Len(batches) + 1)
        BY <4>3, LenProperties
      <4>5. b = Len(batches) + 1
        BY <2>4, <4>1, <4>4
      <4> QED
        BY <4>3, <4>5
    <3>2. batches'[b].wc = Current.wc /\ ~batches'[b].used
      BY <3>1
    <3>3. CASE Current.wc = "own"
      BY <3>2, <3>3 DEF OnItsWay
    <3>4. CASE Current.wc # "own"
      <4>1. PICK m \in ToCome' : m.op = "write" /\ m.wc = Current.wc
        BY <1>1, <1>3, <3>4, CurrentReaches DEF IInv
      <4>2. \A wc : ~JustWritten(wc)'
        BY <1>1, <1>3
      <4>3. TakenLater(b)'
        BY <3>2, <4>1, <4>2 DEF TakenLater, JustWritten
      <4> QED
        BY <4>3 DEF OnItsWay
    <3> QED
      BY <3>3, <3>4
  <2> QED
    BY <2>3, <2>4
<1>4. CASE Current.op = "write"
  <2>0. PICK name : name = Current.name
    OBVIOUS
  <2>1. WriteKeysFile
    BY <1>1, <1>4 DEF KeysEffect
  <2>2. /\ UNCHANGED <<batches, submitted>>
        /\ DOMAIN files' = DOMAIN files \cup {name}
        /\ files'[name] = Unused(Current.wc)
        /\ \A n \in DOMAIN files : n # name => files'[n] = files[n]
    BY <1>1, <2>0, <2>1, Written
  <2>3. CASE b \in Unused(Current.wc)
    <3>1. HandedOutLater(name)'
      BY <1>1, <1>4, <2>0, CurrentReaches DEF HandedOutLater, IInv
    <3> QED
      BY <2>2, <2>3, <3>1 DEF OnItsWay, InItsFile
  <2>4. CASE b \notin Unused(Current.wc)
    <3>1. TakenLater(b) => ~batches'[b].used /\ Current.wc # batches[b].wc
      BY <2>2, <2>4 DEF TakenLater, Unused
    <3>2. ~HandedOutLater(name)
      BY <1>1, <1>4, <2>0 DEF HandedOutLater
    <3>3. ASSUME NEW n \in DOMAIN files, b \in files[n], HandedOutLater(n)
          PROVE  n \in DOMAIN files' /\ b \in files'[n] /\ Current.op \notin Submissions
      BY <1>4, <2>2, <3>2, <3>3 DEF Submissions
    <3>4. b \in DOMAIN batches /\ batches'[b].wc = batches[b].wc /\ submitted \subseteq submitted'
      BY <2>2
    <3> QED
      BY <1>2, <3>1, <3>3, <3>4, StaysOnItsWay
  <2> QED
    BY <2>3, <2>4
<1>5. CASE Current.op = "mark"
  <2>1. MarkKeys
    BY <1>1, <1>5 DEF KeysEffect
  <2>2. /\ b \in DOMAIN batches /\ batches'[b].wc = batches[b].wc
        /\ batches'[b].used <=> (batches[b].used \/ batches[b].wc = Current.wc)
        /\ UNCHANGED <<files, submitted>>
    BY <1>1, <2>1, Marked DEF MarkKeys
  <2>3. JustWritten(Current.wc)
    BY <1>1, <1>5, CurrentReaches DEF IInv
  <2>4. TakenLater(b) => ~batches'[b].used
    BY <2>2, <2>3 DEF TakenLater
  <2> QED
    BY <1>2, <1>5, <2>2, <2>4, StaysOnItsWay DEF Submissions
<1>6. CASE Current.op \in Submissions
  <2>1. PICK operator : Submit(operator)
    BY <1>1, <1>6 DEF KeysEffect, AddKeys, AddOperatorWithKeys, Submissions
  <2>2. /\ submitted' = submitted \cup {[operator |-> operator, batch |-> i] : i \in files[Current.name]}
        /\ UNCHANGED <<batches, files>>
    BY <2>1 DEF Submit
  <2>3. CASE b \in files[Current.name]
    <3>1. PICK x \in submitted' : x = [operator |-> operator, batch |-> b]
      BY <2>2, <2>3
    <3>2. x.batch = b
      BY <3>1
    <3> QED
      BY <3>1, <3>2 DEF OnItsWay
  <2>4. CASE b \notin files[Current.name]
    <3>1. TakenLater(b) => ~batches'[b].used
      BY <2>2 DEF TakenLater
    <3>2. Current.op # "write"
      BY <1>6 DEF Submissions
    <3>3. b \in DOMAIN batches /\ batches'[b].wc = batches[b].wc /\ submitted \subseteq submitted'
      BY <2>2
    <3>4. \A n \in DOMAIN files : b \in files[n] =>
             n \in DOMAIN files' /\ b \in files'[n] /\ Current.name # n
      BY <2>2, <2>4
    <3> QED
      BY <1>2, <3>1, <3>2, <3>3, <3>4, StaysOnItsWay
  <2> QED
    BY <2>3, <2>4
<1>7. CASE Current.op \in {"none", "look", "import"}
  <2>1. UNCHANGED <<batches, files, submitted>>
    BY <1>1, <1>7 DEF KeysEffect, keyVars, ImportKeys
  <2>2. TakenLater(b) => ~batches'[b].used
    BY <2>1 DEF TakenLater
  <2> QED
    BY <1>2, <1>7, <2>1, <2>2, StaysOnItsWay DEF Submissions
<1>8. Current \in Moves
  BY <1>1, AtCurrent DEF IInv
<1> QED
  BY <1>3, <1>4, <1>5, <1>6, <1>7, <1>8, MoveFacts DEF Submissions

LEMMA KeepsOnTheirWay ==
  ASSUME IInv, IInv', [Next]_vars, AllOnTheirWay
  PROVE  AllOnTheirWay'
<1> SUFFICES ASSUME faults' = 0
             PROVE  status' # "failed" /\ \A b \in DOMAIN batches' : OnItsWay(b)'
  BY DEF AllOnTheirWay
<1>1. faults \in Nat
  BY ScenariosAssumption DEF IInv, Types
<1>2. faults = 0 /\ ~Interrupt /\ ~FailAfterEffect /\ ~FailQuietly
  <2>1. ~Faulty
    BY <1>1 DEF Faulty
  <2>2. ~Interrupt /\ ~FailAfterEffect /\ ~FailQuietly
    BY <2>1 DEF Interrupt, FailAfterEffect, FailQuietly
  <2> QED
    BY <2>2 DEF Next, Begin, Skip, Step, Refuse, RefuseQuietly, Resume, Ready, vars
<1>3. status # "failed" /\ \A b \in DOMAIN batches : OnItsWay(b)
  BY <1>2 DEF AllOnTheirWay
<1>4. status' # "failed"
  BY <1>2, <1>3 DEF Next, Begin, Skip, Step, Refuse, RefuseQuietly, Resume, Ready, vars
<1>5. CASE Step
  BY <1>3, <1>4, <1>5, StepOnTheirWay
<1>6. CASE ~Step
  <2>1. UNCHANGED <<batches, files, submitted>>
    BY <1>2, <1>6, FrameOfKeys DEF keyVars
  <2>2. ASSUME NEW b \in DOMAIN batches
        PROVE  OnItsWay(b)'
    <3>1. TakenLater(b) => ~batches'[b].used
      BY <2>1 DEF TakenLater
    <3> QED
      BY <1>3, <1>4, <1>6, <2>1, <3>1, StaysOnItsWay
  <2> QED
    BY <1>4, <2>1, <2>2
<1> QED
  BY <1>5, <1>6

-----------------------------------------------------------------------------
LEMMA InitReaching == Init => Reaching
BY DEF Init, Reaching, AwaitsImport, AllOnTheirWay, Through

LEMMA NextReaching ==
  ASSUME IInv, IInv', [Next]_vars, Reaching
  PROVE  Reaching'
<1>1. AwaitsImport' /\ AllOnTheirWay'
  BY KeepsAwaitsImport, KeepsOnTheirWay DEF Reaching
<1>2. Through'
  <2>1. CASE status = "ready"
    BY <2>1 DEF Reaching, Through, Next, Begin, Skip, Step, Refuse, RefuseQuietly, Interrupt,
                FailAfterEffect, FailQuietly, Resume, Ready, AtMove, Able, vars, Plan
  <2>2. CASE status # "ready"
    BY <2>2 DEF Through, Next, Begin, Skip, Step, Refuse, RefuseQuietly, Interrupt,
                FailAfterEffect, FailQuietly, Resume, Ready, AtMove, Able, vars, Plan
  <2> QED
    BY <2>1, <2>2
<1> QED
  BY <1>1, <1>2 DEF Reaching

\* When the commands are through, nothing is to come.
LEMMA NothingToCome ==
  ASSUME IInv, status # "failed", left = <<>>, command = Len(Plan), NEW m \in ToCome
  PROVE  FALSE
<1>1. command \in Nat /\ scenario \in Scenarios /\ DOMAIN Plan = 1..Len(Plan)
  BY PlanFacts DEF IInv, Types
<1>2. PICK d \in DOMAIN Plan : \E k \in DOMAIN Plan[d] :
         m = Plan[d][k] /\ (d > command \/ (d = command /\ k > From))
  BY <1>1, InComing DEF ToCome
<1>3. PICK k \in DOMAIN Plan[d] : d > command \/ (d = command /\ k > From)
  BY <1>2
<1>4. d = command /\ k > From
  BY <1>1, <1>3
<1>5. Len(Here) \in Nat /\ k \in 1..Len(Here)
  BY <1>1, <1>3, <1>4, PlanFacts DEF Here
<1>6. From = Len(Here)
  BY <1>5 DEF From, Passed
<1> QED
  BY <1>4, <1>5, <1>6

\* A stand that is ready validates with what it submitted, unless an import failed and was
\* passed over; and where nothing failed it submitted every key it had generated for Lido.
THEOREM ReadyValidates == Spec => []ReadyMeansValidating
<1>1. IInv /\ Reaching => ReadyMeansValidating
  <2> SUFFICES ASSUME IInv, Reaching, status = "ready"
               PROVE  /\ ~swallowed => {x.batch : x \in submitted} \subseteq vc
                      /\ faults = 0 => {b \in DOMAIN batches : batches[b].wc # "own"}
                                          \subseteq {x.batch : x \in submitted}
    BY DEF ReadyMeansValidating
  <2>1. \A m \in ToCome : FALSE
    BY NothingToCome DEF Reaching, Through
  <2>2. \A b : ~InItsFile(b) /\ ~TakenLater(b)
    BY <2>1 DEF InItsFile, TakenLater, HandedOutLater
  <2>3. ~swallowed => {x.batch : x \in submitted} \subseteq vc
    BY <2>1 DEF Reaching, AwaitsImport
  <2>4. ASSUME faults = 0, NEW b \in DOMAIN batches, batches[b].wc # "own"
        PROVE  b \in {x.batch : x \in submitted}
    BY <2>2, <2>4 DEF Reaching, AllOnTheirWay, OnItsWay
  <2> QED
    BY <2>3, <2>4
<1>2. IInv /\ IInv' /\ [Next]_vars /\ Reaching => Reaching'
  BY NextReaching
<1> QED
  BY Inductive, InitReaching, <1>1, <1>2, PTL DEF Spec

-----------------------------------------------------------------------------
(***************************************************************************)
(* What a plan delivers is there when the stand is ready, whatever was     *)
(* interrupted, run again or skipped: until it is there, a move that gives *)
(* it is ahead.                                                            *)
(***************************************************************************)
Gives(c, j, fact) ==
    /\ fact \in Plan[c][j].gives /\ ~Plan[c][j].quiet
    /\ \A i \in DOMAIN Plan[c] :
          Plan[c][i].skip # {} /\ i <= j /\ j <= i + Plan[c][i].over => fact \in Plan[c][i].skip

Arrives(fact) ==
    Delivers(Plan, fact) =>
        \/ fact \in done
        \/ \E c \in DOMAIN Plan : \E j \in DOMAIN Plan[c] : Gives(c, j, fact) /\ Ahead(c, j)

LEMMA InitArrives ==
  ASSUME NEW fact, Init
  PROVE  Arrives(fact)
<1>1. SUFFICES ASSUME Delivers(Plan, fact)
               PROVE  \E c \in DOMAIN Plan : \E j \in DOMAIN Plan[c] : Gives(c, j, fact) /\ Ahead(c, j)
  BY DEF Arrives
<1>2. PICK c \in DOMAIN Plan : \E j \in DOMAIN Plan[c] : Gives(c, j, fact)
  BY <1>1 DEF Delivers, Gives
<1>3. c > command
  BY <1>2, PlanFacts DEF Init
<1> QED
  BY <1>2, <1>3 DEF Ahead

LEMMA NextArrives ==
  ASSUME NEW fact, IInv, [Next]_vars, Arrives(fact)
  PROVE  Arrives(fact)'
<1>1. Plan' = Plan
  BY Moving DEF Plan
<1>2. SUFFICES ASSUME Delivers(Plan, fact)
               PROVE  \/ fact \in done'
                      \/ \E c \in DOMAIN Plan : \E j \in DOMAIN Plan[c] :
                            Gives(c, j, fact) /\ Ahead(c, j)'
  BY <1>1 DEF Arrives, Gives
<1>3. (Step \/ FailAfterEffect) /\ fact \in done \cup Current.gives => fact \in done'
  <2>1. SUFFICES ASSUME Step \/ FailAfterEffect, fact \in done \cup Current.gives
                 PROVE  fact \in done'
    OBVIOUS
  <2>2. AtMove /\ Effect
    BY <2>1 DEF Step, FailAfterEffect, Able
  <2>3. /\ command \in DOMAIN Plan /\ From + 1 \in DOMAIN Plan[command]
        /\ Current = Plan[command][From + 1]
    BY <2>2, CurrentReaches DEF IInv, Here
  <2>4. fact \notin Current.takes
    BY <1>2, <2>3 DEF Delivers
  <2>5. (done \ Current.takes) \cup Current.gives \subseteq done'
    BY <2>2, Zenon DEF Effect
  <2> QED
    BY <2>1, <2>4, <2>5
<1>4. CASE fact \in done
  <2>1. ~Step /\ ~FailAfterEffect => done' = done
    BY DEF Next, Begin, Skip, Refuse, RefuseQuietly, Interrupt, FailQuietly, Resume, Ready, vars
  <2> QED
    BY <1>3, <1>4, <2>1
<1>5. CASE fact \notin done
  <2>1. PICK c \in DOMAIN Plan : \E j \in DOMAIN Plan[c] : Gives(c, j, fact) /\ Ahead(c, j)
    BY <1>2, <1>5 DEF Arrives
  <2>2. PICK j \in DOMAIN Plan[c] : Gives(c, j, fact) /\ Ahead(c, j)
    BY <2>1
  <2>3. CASE Ahead(c, j)'
    BY <2>2, <2>3
  <2>4. CASE Current = Plan[c][j] /\ Advances
    <3>1. Step /\ fact \in Current.gives
      BY <2>2, <2>4 DEF Gives, Advances
    <3> QED
      BY <1>3, <3>1
  <2>5. CASE c = command /\ From < j /\ j <= From' /\ Jumps
    <3>1. /\ AtMove /\ Current.skip # {} /\ Current.skip \subseteq done /\ From' \in Nat
          /\ From' <= From + 1 + Current.over
      BY <2>5 DEF Jumps, Skips
    <3>2. /\ From \in Nat /\ From + 1 \in DOMAIN Plan[c] /\ Current = Plan[c][From + 1]
          /\ Current.over \in Nat /\ j \in Nat
      <4>1. /\ From \in Nat /\ From + 1 \in DOMAIN Here /\ Current = Here[From + 1]
            /\ Current \in Moves
        BY <3>1, CurrentReaches, AtCurrent DEF IInv
      <4>2. Current.over \in Nat
        BY <4>1, MoveFacts
      <4>3. j \in Nat
        BY PlanFacts DEF IInv, Types
      <4> QED
        BY <2>5, <4>1, <4>2, <4>3 DEF Here
    <3>3. From + 1 <= j /\ j <= From + 1 + Current.over
      BY <2>5, <3>1, <3>2
    <3>4. fact \in Current.skip
      BY <2>2, <3>1, <3>2, <3>3 DEF Gives
    <3> QED
      BY <1>5, <3>1, <3>4
  <2> QED
    BY <2>2, <2>3, <2>4, <2>5, StillAhead
<1> QED
  BY <1>4, <1>5

\* When the commands are through, no place is ahead.
LEMMA NothingAhead ==
  ASSUME IInv, Through, status = "ready", NEW c \in DOMAIN Plan, NEW j \in DOMAIN Plan[c]
  PROVE  ~Ahead(c, j)
<1>1. scenario \in Scenarios /\ command \in Nat
  BY PlanFacts DEF IInv, Types
<1>2. Ahead(c, j) => Plan[c][j] \in ToCome
  BY <1>1, InComing DEF ToCome, Ahead
<1> QED
  BY <1>2, NothingToCome DEF Through

\* Whatever a plan delivers is there when the stand is ready.
AllThere == status = "ready" => \A fact : Delivers(Plan, fact) => fact \in done

THEOREM DeliveredWhenReady == Spec => []AllThere
<1> DEFINE AllArrive == \A fact : Arrives(fact)
<1>1. IInv /\ Reaching /\ AllArrive => AllThere
  BY NothingAhead DEF Arrives, Reaching, AllThere
<1>2. Init => AllArrive
  BY InitArrives
<1>3. IInv /\ AllArrive /\ [Next]_vars => AllArrive'
  <2> SUFFICES ASSUME IInv, AllArrive, [Next]_vars
               PROVE  \A fact : Arrives(fact)'
    OBVIOUS
  <2> QED
    BY NextArrives
<1>4. IInv /\ IInv' /\ [Next]_vars /\ Reaching => Reaching'
  BY NextReaching
<1> HIDE DEF AllArrive
<1> QED
  BY Inductive, InitReaching, <1>1, <1>2, <1>3, <1>4, PTL DEF Spec

\* What is submitted, a command of the stand submits.
SubmittedByPlan ==
    submitted # {} => \E c \in DOMAIN Plan : \E j \in DOMAIN Plan[c] : Plan[c][j].op \in Submissions

LEMMA NextSubmittedByPlan ==
  ASSUME IInv, [Next]_vars, SubmittedByPlan
  PROVE  SubmittedByPlan'
<1>1. Plan' = Plan
  BY Moving DEF Plan
<1>2. CASE UNCHANGED submitted
  BY <1>1, <1>2 DEF SubmittedByPlan
<1>3. CASE submitted' # submitted
  <2>1. Step \/ FailAfterEffect
    BY <1>3, FrameOfKeys DEF keyVars
  <2>2. Able /\ Effect
    BY <2>1 DEF Step, FailAfterEffect
  <2>3. AtMove /\ KeysEffect
    BY <2>2, Zenon DEF Able, Effect
  <2>4. Current.op \in Submissions
    <3>1. Current \in Moves
      BY <2>3, AtCurrent DEF IInv
    <3> QED
      BY <1>3, <2>3, <3>1, MoveFacts
         DEF KeysEffect, GenerateKeys, WriteKeysFile, MarkKeys, ImportKeys, keyVars, Submissions
  <2>5. /\ command \in DOMAIN Plan /\ From + 1 \in DOMAIN Plan[command]
        /\ Current = Plan[command][From + 1]
    BY <2>3, CurrentReaches DEF IInv, Here
  <2> QED
    BY <1>1, <2>4, <2>5 DEF SubmittedByPlan
<1> QED
  BY <1>2, <1>3

\* On a stand that is ready and has submitted keys the account that replaced the DSM has
\* deposited, or council and bots are up, for every list that delivers the one or the
\* other (DepositAssumption).
THEOREM DepositsServed == Spec => []DepositsAreServed
<1>1. IInv /\ AllThere /\ SubmittedByPlan => DepositsAreServed
  <2> SUFFICES ASSUME IInv, AllThere, SubmittedByPlan, status = "ready", submitted # {}
               PROVE  \E facts \in Depositors : facts \subseteq done
    BY DEF DepositsAreServed
  <2>1. SomebodyDeposits(scenario)
    BY DepositAssumption DEF IInv, Types
  <2>2. \E facts \in Depositors : \A fact \in facts : Delivers(Plan, fact)
    BY <2>1 DEF SomebodyDeposits, SubmittedByPlan, Plan
  <2> QED
    BY <2>2 DEF AllThere
<1>2. Init => SubmittedByPlan
  BY DEF Init, SubmittedByPlan
<1>3. IInv /\ SubmittedByPlan /\ [Next]_vars => SubmittedByPlan'
  BY NextSubmittedByPlan
<1> QED
  BY Inductive, DeliveredWhenReady, <1>1, <1>2, <1>3, PTL DEF Spec

-----------------------------------------------------------------------------
(***************************************************************************)
(* The order of a stand is right: what a command asks for and the stand    *)
(* makes is there when its turn comes, whatever failed before and was run  *)
(* again, but for what is half done (StandOrder).                          *)
(*                                                                         *)
(* The invariant says of each place that is behind what it has left for    *)
(* good: until a failure is passed over, the facts that its move makes,    *)
(* and with a record what it is tied to; the files written; for a          *)
(* `keys use` that is ahead, the keys generated; ...                       *)
(***************************************************************************)
Past(c, j) == ~Ahead(c, j)

RecordsLast ==
    ~swallowed => \A record, fact : Tied(scenario, record, fact) /\ record \in done => fact \in done

MadeLasts ==
    ~swallowed => \A d \in DOMAIN Plan : \A k \in DOMAIN Plan[d] : \A fact :
                     Makes(scenario, d, k, fact) /\ Past(d, k) => fact \in done

FoundLasts == \A fact \in scenario.given : NeverTaken(Plan, fact) => fact \in done

FilesLast ==
    \A d \in DOMAIN Plan : \A k \in DOMAIN Plan[d] :
       Plan[d][k].op = "write" /\ Past(d, k) => Plan[d][k].name \in DOMAIN files

KeysLast ==
    \A c \in DOMAIN Plan : \A j \in DOMAIN Plan[c] : \A d \in DOMAIN Plan : \A i \in DOMAIN Plan[d] :
       /\ Plan[c][j].op = "write" /\ GeneratesFor(Plan, d, i, c, j)
       /\ Past(d, i) /\ Ahead(c, j + 1)
       => Unused(Plan[c][j].wc) # {}

(***************************************************************************)
(* ... and, where nothing is interrupted, no failure is passed over, what  *)
(* a place has made is there until another takes it, and nothing is there  *)
(* before its place.                                                       *)
(***************************************************************************)
Undisturbed == faults = 0 => ~swallowed /\ status # "failed"

MadeAtOnce ==
    faults = 0 =>
       \A d \in DOMAIN Plan : \A k \in DOMAIN Plan[d] : \A fact :
          /\ MakesAtOnce(scenario, d, k, fact) /\ Past(d, k)
          /\ \A e \in DOMAIN Plan : \A l \in DOMAIN Plan[e] :
                Earlier(d, k, e, l) /\ fact \in Plan[e][l].takes => Ahead(e, l)
          => fact \in done

WrittenBefore(name, c, j) ==
    \E d \in DOMAIN Plan : \E k \in DOMAIN Plan[d] :
       Plan[d][k].op = "write" /\ Plan[d][k].name = name /\ Earlier(d, k, c, j)

NothingEarly ==
    faults = 0 =>
       /\ \A fact \in done \ scenario.given :
             \E d \in DOMAIN Plan : \E k \in DOMAIN Plan[d] :
                /\ Past(d, k)
                /\ \/ fact \in Plan[d][k].gives
                   \/ /\ fact = "operatorExists" /\ Plan[d][k].op = "look"
                      /\ WrittenBefore(Plan[d][k].name, d, k)
       /\ \A name \in DOMAIN files :
             \E d \in DOMAIN Plan : \E k \in DOMAIN Plan[d] :
                Past(d, k) /\ Plan[d][k].op = "write" /\ Plan[d][k].name = name

Ordered ==
    /\ RecordsLast /\ MadeLasts /\ FoundLasts /\ FilesLast /\ KeysLast
    /\ Undisturbed /\ MadeAtOnce /\ NothingEarly

-----------------------------------------------------------------------------
\* Where a command stands that has a move to make.
LEMMA AtPlace ==
  ASSUME IInv, AtMove
  PROVE  /\ command \in DOMAIN Plan /\ From + 1 \in DOMAIN Plan[command]
         /\ Current = Plan[command][From + 1] /\ Current \in Moves
         /\ command \in Nat /\ From \in Nat /\ Here = Plan[command] /\ scenario \in Scenarios
         /\ status = "running"
BY CurrentReaches, AtCurrent DEF IInv, Here, Types, AtMove

LEMMA PlacesAreNumbers ==
  ASSUME IInv
  PROVE  /\ DOMAIN Plan \subseteq Nat /\ \A d \in DOMAIN Plan : DOMAIN Plan[d] \subseteq Nat
         /\ command \in Nat /\ scenario \in Scenarios
BY PlanFacts DEF IInv, Types

\* What is behind it is earlier.
LEMMA PastIsEarlier ==
  ASSUME IInv, AtMove, NEW d \in DOMAIN Plan, NEW k \in DOMAIN Plan[d]
  PROVE  Past(d, k) <=> Earlier(d, k, command, From + 1)
<1>1. d \in Nat /\ k \in Nat /\ command \in Nat
  BY PlacesAreNumbers
<1>2. From \in Nat
  BY AtPlace
<1> QED
  BY <1>1, <1>2 DEF Past, Ahead, Earlier

\* A place comes to be behind when its move is made, or passed over: quietly, or by a skip.
LEMMA NowPast ==
  ASSUME IInv, [Next]_vars, NEW c \in DOMAIN Plan, NEW j \in DOMAIN Plan[c],
         Ahead(c, j), Past(c, j)'
  PROVE  /\ AtMove
         /\ \/ /\ c = command /\ j = From + 1 /\ Current = Plan[c][j]
               /\ Step \/ (Current.quiet /\ UNCHANGED keyVars /\ swallowed')
            \/ /\ c = command /\ From + 1 \in DOMAIN Plan[c]
               /\ Covers(Plan[c], From + 1, j) /\ Plan[c][From + 1].skip \subseteq done
               /\ UNCHANGED <<done, keyVars>>
<1>1. \/ c = command /\ j = From + 1 /\ Current = Plan[c][j] /\ Advances
      \/ c = command /\ From < j /\ j <= From' /\ Jumps
  BY StillAhead DEF Past
<1>2. CASE c = command /\ j = From + 1 /\ Current = Plan[c][j] /\ Advances
  BY <1>2 DEF Advances
<1>3. CASE c = command /\ From < j /\ j <= From' /\ Jumps
  <2>1. /\ AtMove /\ Current.skip # {} /\ Current.skip \subseteq done /\ From' \in Nat
        /\ From' <= From + 1 + Current.over /\ UNCHANGED <<done, keyVars>>
    BY <1>3 DEF Jumps, Skips
  <2>2. /\ From \in Nat /\ From + 1 \in DOMAIN Plan[c] /\ Current = Plan[c][From + 1]
        /\ Current \in Moves
    BY <1>3, <2>1, AtPlace
  <2>3. Current.over \in Nat /\ j \in Nat
    BY <2>2, MoveFacts, PlacesAreNumbers
  <2>4. From + 1 <= j /\ j <= From + 1 + Current.over
    BY <1>3, <2>1, <2>2, <2>3
  <2> QED
    BY <1>3, <2>1, <2>2, <2>4 DEF Covers
<1> QED
  BY <1>1, <1>2, <1>3

\* A move made is behind, ...
LEMMA StepPasses ==
  ASSUME IInv, Step, NEW c, NEW j, c = command, j = From + 1
  PROVE  Past(c, j)'
<1>1. AtMove /\ status = "running" /\ left' = Tail(left) /\ UNCHANGED <<scenario, command, status>>
  BY DEF Step, Able, AtMove
<1>2. Passed' = Passed + 1
  BY <1>1, GoesOn DEF IInv
<1>3. From' = j /\ command' = c
  BY <1>1, <1>2 DEF From
<1>4. c \in Nat /\ j \in Nat
  BY <1>1, AtPlace
<1> QED
  BY <1>3, <1>4 DEF Past, Ahead

\* ... and where nothing fails, what is behind stays behind.
LEMMA NeverBack ==
  ASSUME IInv, [Next]_vars, status # "failed", status' # "failed",
         NEW c \in DOMAIN Plan, NEW j \in DOMAIN Plan[c], Past(c, j)
  PROVE  Past(c, j)'
<1>1. Starts \/ Advances \/ Jumps \/ Stays
  BY Moving DEF Restarts
<1>2. c \in Nat /\ j \in Nat /\ command \in Nat
  BY PlacesAreNumbers
<1>3. CASE Starts
  BY <1>2, <1>3 DEF Starts, Past, Ahead
<1>4. CASE Advances \/ Jumps
  <2>1. AtMove /\ command' = command /\ From' \in Nat /\ From' >= From /\ From \in Nat
    BY <1>4, AtPlace DEF Advances, Jumps
  <2> QED
    BY <1>2, <2>1 DEF Past, Ahead
<1>5. CASE Stays
  BY <1>5 DEF Stays, Past, Ahead
<1> QED
  BY <1>1, <1>3, <1>4, <1>5

\* How facts come and go.
LEMMA Lost ==
  ASSUME [Next]_vars, NEW fact \in done, fact \notin done'
  PROVE  (Step \/ FailAfterEffect) /\ AtMove /\ fact \in Current.takes /\ fact \notin Current.gives
<1>1. Step \/ FailAfterEffect
  BY DEF Next, Begin, Skip, Refuse, RefuseQuietly, Interrupt, FailQuietly, Resume, Ready, vars
<1>2. AtMove /\ Effect
  BY <1>1 DEF Step, FailAfterEffect, Able
<1>3. (done \ Current.takes) \cup Current.gives \subseteq done'
  BY <1>2, Zenon DEF Effect
<1> QED
  BY <1>1, <1>2, <1>3

LEMMA Gained ==
  ASSUME [Next]_vars, NEW fact \in done', fact \notin done
  PROVE  /\ Step \/ FailAfterEffect
         /\ AtMove
         /\ \/ fact \in Current.gives
            \/ fact = "operatorExists" /\ Current.op = "look" /\ Current.name \in DOMAIN files
<1>1. Step \/ FailAfterEffect
  BY DEF Next, Begin, Skip, Refuse, RefuseQuietly, Interrupt, FailQuietly, Resume, Ready, vars
<1>2. AtMove /\ Effect
  BY <1>1 DEF Step, FailAfterEffect, Able
<1>3. done' = (done \ Current.takes) \cup Current.gives
                \cup (IF Current.op = "look" /\ Current.name \in DOMAIN files
                      THEN {"operatorExists"} ELSE {})
  BY <1>2, Zenon DEF Effect
<1> QED
  BY <1>1, <1>2, <1>3

\* A move shows what it gives, and what it asked for.
LEMMA Shown ==
  ASSUME Step, NEW fact, Shows(Current, fact)
  PROVE  fact \in done'
<1>1. AtMove /\ Effect /\ Missing = {}
  BY DEF Step, Able
<1>2. (done \ Current.takes) \cup Current.gives \subseteq done'
  BY <1>1, Zenon DEF Effect
<1>3. CASE fact \in Current.gives
  BY <1>2, <1>3
<1>4. CASE fact \in Current.needs \ (Current.takes \cup {"unusedKeys", "keysFile"})
  <2>1. fact \in Found(Current)
    BY <1>1, <1>4 DEF Missing, Needs
  <2>2. fact \in done
    BY <1>4, <2>1 DEF Found
  <2> QED
    BY <1>2, <1>4, <2>2
<1> QED
  BY <1>3, <1>4 DEF Shows

LEMMA StaysDone ==
  ASSUME IInv, [Next]_vars, NEW fact \in done, NeverTaken(Plan, fact)
  PROVE  fact \in done'
<1> SUFFICES ASSUME fact \notin done'
             PROVE  FALSE
  OBVIOUS
<1>1. AtMove /\ fact \in Current.takes
  BY Lost
<1> QED
  BY <1>1, AtPlace DEF NeverTaken

-----------------------------------------------------------------------------
(***************************************************************************)
(* A move finds what it asks for.                                          *)
(***************************************************************************)
LEMMA SureFound ==
  ASSUME IInv, Ordered, AtMove, ~swallowed, NEW fact, Sure(scenario, command, From + 1, fact)
  PROVE  fact \in done
<1>1. CASE fact \in scenario.given /\ NeverTaken(Plan, fact)
  BY <1>1 DEF Ordered, FoundLasts
<1>2. ASSUME NEW d \in DOMAIN Plan, NEW k \in DOMAIN Plan[d],
             Earlier(d, k, command, From + 1), Makes(scenario, d, k, fact)
      PROVE  fact \in done
  <2>1. Past(d, k)
    BY <1>2, PastIsEarlier
  <2> QED
    BY <1>2, <2>1 DEF Ordered, MadeLasts
<1> QED
  BY <1>1, <1>2 DEF Sure, Plan

LEMMA SureAtOnceFound ==
  ASSUME IInv, Ordered, AtMove, faults = 0, NEW fact, SureAtOnce(scenario, command, From + 1, fact)
  PROVE  fact \in done
<1>1. PICK d \in DOMAIN Plan : \E k \in DOMAIN Plan[d] :
         /\ Earlier(d, k, command, From + 1) /\ MakesAtOnce(scenario, d, k, fact)
         /\ \A e \in DOMAIN Plan : \A l \in DOMAIN Plan[e] :
               Earlier(d, k, e, l) /\ Earlier(e, l, command, From + 1) => fact \notin Plan[e][l].takes
  BY DEF SureAtOnce, Plan
<1>2. PICK k \in DOMAIN Plan[d] :
         /\ Earlier(d, k, command, From + 1) /\ MakesAtOnce(scenario, d, k, fact)
         /\ \A e \in DOMAIN Plan : \A l \in DOMAIN Plan[e] :
               Earlier(d, k, e, l) /\ Earlier(e, l, command, From + 1) => fact \notin Plan[e][l].takes
  BY <1>1
<1>3. Past(d, k)
  BY <1>1, <1>2, PastIsEarlier
<1>4. ASSUME NEW e \in DOMAIN Plan, NEW l \in DOMAIN Plan[e],
             Earlier(d, k, e, l), fact \in Plan[e][l].takes
      PROVE  Ahead(e, l)
  <2>1. ~Earlier(e, l, command, From + 1)
    BY <1>2, <1>4
  <2> QED
    BY <2>1, PastIsEarlier DEF Past
<1> QED
  BY <1>1, <1>2, <1>3, <1>4 DEF Ordered, MadeAtOnce

LEMMA KeysFound ==
  ASSUME IInv, Ordered, AtMove, Current.op = "write", HasKeys(Plan, command, From + 1)
  PROVE  Unused(Current.wc) # {}
<1>1. /\ command \in DOMAIN Plan /\ From + 1 \in DOMAIN Plan[command]
      /\ Current = Plan[command][From + 1] /\ From \in Nat
  BY AtPlace
<1>2. PICK d \in DOMAIN Plan : \E i \in DOMAIN Plan[d] : GeneratesFor(Plan, d, i, command, From + 1)
  BY DEF HasKeys
<1>3. PICK i \in DOMAIN Plan[d] : GeneratesFor(Plan, d, i, command, From + 1)
  BY <1>2
<1>4. Past(d, i)
  BY <1>2, <1>3, PastIsEarlier DEF GeneratesFor
<1>5. Ahead(command, From + 1 + 1)
  BY <1>1 DEF Ahead
<1> QED
  BY <1>1, <1>2, <1>3, <1>4, <1>5 DEF Ordered, KeysLast

LEMMA FileFound ==
  ASSUME IInv, Ordered, AtMove, HasFile(Plan, command, From + 1)
  PROVE  Current.name \in DOMAIN files
<1>1. Current = Plan[command][From + 1]
  BY AtPlace
<1>2. PICK d \in DOMAIN Plan : \E k \in DOMAIN Plan[d] :
         /\ Earlier(d, k, command, From + 1)
         /\ Plan[d][k].op = "write" /\ Plan[d][k].name = Current.name
  BY <1>1 DEF HasFile
<1>3. PICK k \in DOMAIN Plan[d] :
         /\ Earlier(d, k, command, From + 1)
         /\ Plan[d][k].op = "write" /\ Plan[d][k].name = Current.name
  BY <1>2
<1>4. Past(d, k)
  BY <1>2, <1>3, PastIsEarlier
<1> QED
  BY <1>2, <1>3, <1>4 DEF Ordered, FilesLast

\* What the order of the lists says of the move whose turn it is.
LEMMA CurrentInOrder ==
  ASSUME IInv, AtMove
  PROVE  /\ \A fact \in Current.needs :
               \/ fact \notin Provided /\ ~Current.quiet
               \/ Sure(scenario, command, From + 1, fact)
               \/ fact \in HalfDone /\ SureAtOnce(scenario, command, From + 1, fact)
               \/ fact \in Overwritten(scenario) /\ ~Current.quiet
         /\ Current.op = "write" => HasKeys(Plan, command, From + 1)
         /\ Current.op \in Submissions => HasFile(Plan, command, From + 1)
<1>1. /\ command \in DOMAIN Plan /\ From + 1 \in DOMAIN Plan[command]
      /\ Current = Plan[command][From + 1] /\ scenario \in Scenarios
  BY AtPlace
<1>2. InOrder(scenario)
  BY <1>1, OrderAssumption
<1> DEFINE c == command
           j == From + 1
<1>3. c \in DOMAIN Plan /\ j \in DOMAIN Plan[c] /\ Current = Plan[c][j]
  BY <1>1
<1> HIDE DEF c, j
<1>4. /\ \A fact \in Plan[c][j].needs :
            \/ fact \notin Provided /\ ~Plan[c][j].quiet
            \/ Sure(scenario, c, j, fact)
            \/ fact \in HalfDone /\ SureAtOnce(scenario, c, j, fact)
            \/ fact \in Overwritten(scenario) /\ ~Plan[c][j].quiet
      /\ Plan[c][j].op = "write" => HasKeys(Plan, c, j)
      /\ Plan[c][j].op \in Submissions => HasFile(Plan, c, j)
  BY <1>2, <1>3, Zenon DEF InOrder, Plan, Provided
<1> QED
  BY <1>3, <1>4 DEF c, j

LEMMA AllFound ==
  ASSUME IInv, Ordered, AtMove, ~swallowed, NEW fact \in Missing
  PROVE  \/ fact \notin Provided /\ ~Current.quiet
         \/ fact \in HalfDone /\ faults # 0
         \/ fact \in Overwritten(scenario) /\ ~Current.quiet
<1>1. fact \in Needs(Current) /\ fact \notin Found(Current)
  BY DEF Missing
<1>2. fact \notin done
  BY <1>1 DEF Found
<1>3. CASE fact \in Current.needs
  BY <1>2, <1>3, CurrentInOrder, SureFound, SureAtOnceFound
<1>4. CASE Current.op = "write" /\ fact = "unusedKeys"
  <2>1. Unused(Current.wc) # {}
    BY <1>4, CurrentInOrder, KeysFound
  <2> QED
    BY <1>1, <1>4, <2>1 DEF Found
<1>5. CASE Current.op \in Submissions /\ fact = "keysFile"
  <2>1. Current.name \in DOMAIN files
    BY <1>5, CurrentInOrder, FileFound
  <2> QED
    BY <1>1, <1>5, <2>1 DEF Found
<1> QED
  BY <1>1, <1>3, <1>4, <1>5 DEF Needs, Submissions

-----------------------------------------------------------------------------
(***************************************************************************)
(* The invariant is kept, part by part.                                    *)
(***************************************************************************)
LEMMA NothingUnswallowed ==
  ASSUME [Next]_vars, ~swallowed'
  PROVE  ~swallowed
BY DEF Next, Begin, Skip, Step, Refuse, RefuseQuietly, Interrupt, FailAfterEffect, FailQuietly, Resume,
       Ready, vars

LEMMA KeepsRecordsLast ==
  ASSUME IInv, [Next]_vars, Ordered
  PROVE  RecordsLast'
<1>1. UNCHANGED scenario /\ Plan' = Plan
  BY Moving DEF Plan
<1> SUFFICES ASSUME ~swallowed', NEW record, NEW fact, Tied(scenario, record, fact), record \in done'
             PROVE  fact \in done'
  BY <1>1 DEF RecordsLast
<1>2. ~swallowed /\ NeverTaken(Plan, fact) /\ record # "operatorExists"
  BY NothingUnswallowed DEF Tied, Plan
<1>3. CASE record \in done
  <2>1. fact \in done
    BY <1>2, <1>3 DEF Ordered, RecordsLast
  <2> QED
    BY <1>2, <2>1, StaysDone
<1>4. CASE record \notin done
  <2>1. AtMove /\ record \in Current.gives
    BY <1>2, <1>4, Gained
  <2>2. /\ command \in DOMAIN Plan /\ From + 1 \in DOMAIN Plan[command]
        /\ Current = Plan[command][From + 1]
    BY <2>1, AtPlace
  <2>3. PICK k \in DOMAIN Plan[command] :
           /\ k < From + 1 /\ Shows(Plan[command][k], fact)
           /\ \A i \in DOMAIN Plan[command] :
                 Covers(Plan[command], i, k) =>
                    fact \in Plan[command][i].skip \/ record \in Plan[command][i].skip
    BY <2>1, <2>2 DEF Tied, Plan
  <2>4. Makes(scenario, command, k, fact)
    BY <1>2, <2>2, <2>3 DEF Makes, NeverTaken, Plan
  <2>5. Past(command, k)
    BY <2>1, <2>2, <2>3, PastIsEarlier DEF Earlier
  <2>6. fact \in done
    BY <1>2, <2>2, <2>3, <2>4, <2>5 DEF Ordered, MadeLasts
  <2> QED
    BY <1>2, <2>6, StaysDone
<1> QED
  BY <1>3, <1>4

LEMMA KeepsMadeLasts ==
  ASSUME IInv, [Next]_vars, Ordered
  PROVE  MadeLasts'
<1>1. UNCHANGED scenario /\ Plan' = Plan
  BY Moving DEF Plan
<1> SUFFICES ASSUME ~swallowed', NEW d \in DOMAIN Plan, NEW k \in DOMAIN Plan[d], NEW fact,
                    Makes(scenario, d, k, fact), Past(d, k)'
             PROVE  fact \in done'
  BY <1>1 DEF MadeLasts
<1>2. ~swallowed
  BY NothingUnswallowed
<1>3. CASE Past(d, k)
  <2>1. fact \in done
    BY <1>2, <1>3 DEF Ordered, MadeLasts
  <2>2. ASSUME fact \notin done'
        PROVE  FALSE
    <3>1. AtMove /\ fact \in Current.takes
      BY <2>1, <2>2, Lost
    <3>2. /\ command \in DOMAIN Plan /\ From + 1 \in DOMAIN Plan[command]
          /\ Current = Plan[command][From + 1]
      BY <3>1, AtPlace
    <3>3. Earlier(d, k, command, From + 1)
      BY <1>3, <3>1, PastIsEarlier
    <3> QED
      BY <3>1, <3>2, <3>3 DEF Makes, Plan
  <2> QED
    BY <2>2
<1>4. CASE Ahead(d, k)
  <2>1. CASE Current = Plan[d][k] /\ Step
    BY <2>1, Shown DEF Makes, Plan
  <2>2. CASE /\ d = command /\ From + 1 \in DOMAIN Plan[d]
             /\ Covers(Plan[d], From + 1, k) /\ Plan[d][From + 1].skip \subseteq done
             /\ UNCHANGED <<done, keyVars>>
    <3>1. CASE fact \in Plan[d][From + 1].skip
      BY <2>2, <3>1
    <3>2. ASSUME NEW record \in Plan[d][From + 1].skip, Tied(scenario, record, fact)
          PROVE  fact \in done'
      BY <1>2, <2>2, <3>2 DEF Ordered, RecordsLast
    <3> QED
      BY <2>2, <3>1, <3>2 DEF Makes, Plan
  <2> QED
    BY <1>4, <2>1, <2>2, NowPast
<1> QED
  BY <1>3, <1>4 DEF Past

LEMMA KeepsFoundLasts ==
  ASSUME IInv, [Next]_vars, Ordered
  PROVE  FoundLasts'
<1>1. UNCHANGED scenario /\ Plan' = Plan
  BY Moving DEF Plan
<1> SUFFICES ASSUME NEW fact \in scenario.given, NeverTaken(Plan, fact)
             PROVE  fact \in done'
  BY <1>1 DEF FoundLasts
<1>2. fact \in done
  BY DEF Ordered, FoundLasts
<1> QED
  BY <1>2, StaysDone

-----------------------------------------------------------------------------
\* How files come, and unused keys go.
LEMMA FilesGrow ==
  ASSUME IInv, [Next]_vars
  PROVE  /\ DOMAIN files \subseteq DOMAIN files'
         /\ \A name \in DOMAIN files' \ DOMAIN files :
               /\ Step \/ FailAfterEffect
               /\ AtMove /\ Current.op = "write" /\ Current.name = name
         /\ Step /\ Current.op = "write" => Current.name \in DOMAIN files'
<1>1. CASE ~Step /\ ~FailAfterEffect
  BY <1>1, FrameOfKeys DEF keyVars
<1>2. CASE Step \/ FailAfterEffect
  <2>1. Able /\ Effect
    BY <1>2 DEF Step, FailAfterEffect
  <2>2. AtMove /\ KeysEffect
    BY <2>1, Zenon DEF Able, Effect
  <2>3. CASE Current.op = "write"
    <3>1. WriteKeysFile
      BY <2>2, <2>3 DEF KeysEffect
    <3>2. DOMAIN files' = DOMAIN files \cup {Current.name}
      BY <3>1 DEF WriteKeysFile
    <3> QED
      BY <1>2, <2>2, <2>3, <3>2
  <2>4. CASE Current.op # "write"
    <3>1. files' = files
      <4>1. Current \in Moves
        BY <2>2, AtCurrent DEF IInv
      <4>2. Current.op \in {"none", "look", "generate", "mark", "addKeys", "newOperator", "import"}
        BY <2>4, <4>1, MoveFacts
      <4> QED
        BY <2>2, <4>2 DEF KeysEffect, GenerateKeys, MarkKeys, AddKeys, AddOperatorWithKeys, Submit,
                          ImportKeys, keyVars
    <3> QED
      BY <2>4, <3>1
  <2> QED
    BY <2>3, <2>4
<1> QED
  BY <1>1, <1>2

LEMMA KeepsFilesLast ==
  ASSUME IInv, [Next]_vars, Ordered
  PROVE  FilesLast'
<1>1. UNCHANGED scenario /\ Plan' = Plan
  BY Moving DEF Plan
<1> SUFFICES ASSUME NEW d \in DOMAIN Plan, NEW k \in DOMAIN Plan[d], Plan[d][k].op = "write", Past(d, k)'
             PROVE  Plan[d][k].name \in DOMAIN files'
  BY <1>1 DEF FilesLast
<1>2. CASE Past(d, k)
  BY <1>2, FilesGrow DEF Ordered, FilesLast
<1>3. CASE Ahead(d, k)
  <2>1. AtMove
    BY <1>3, NowPast
  <2>2. CASE Current = Plan[d][k] /\ Step
    BY <2>2, FilesGrow
  <2>3. ~(Current = Plan[d][k] /\ Current.quiet)
    BY <2>1, CurrentReaches DEF IInv
  <2>4. ~(d = command /\ From + 1 \in DOMAIN Plan[d] /\ Covers(Plan[d], From + 1, k))
    <3>1. SUFFICES ASSUME d = command, Covers(Plan[d], From + 1, k)
                   PROVE  FALSE
      OBVIOUS
    <3>2. Current = Plan[command][From + 1] /\ Here = Plan[command]
      BY <2>1, AtPlace
    <3>3. Current.skip # {} /\ From + 1 <= k /\ k <= From + 1 + Current.over /\ k \in DOMAIN Here
      BY <3>1, <3>2 DEF Covers
    <3>4. Here[k].op \notin Awaited
      BY <2>1, <3>3, CurrentReaches DEF IInv
    <3> QED
      BY <3>1, <3>2, <3>4 DEF Awaited
  <2> QED
    BY <1>3, <2>2, <2>3, <2>4, NowPast
<1> QED
  BY <1>2, <1>3 DEF Past

\* Unused keys are used up by the mark alone.
LEMMA UsedUp ==
  ASSUME IInv, [Next]_vars, NEW wc, Unused(wc) # {}, ~(Unused(wc)' # {})
  PROVE  /\ Step \/ FailAfterEffect
         /\ AtMove /\ Current.op = "mark" /\ Current.wc = wc
<1>1. PICK b \in DOMAIN batches : batches[b].wc = wc /\ ~batches[b].used
  BY DEF Unused
<1>2. ~(b \in DOMAIN batches' /\ batches'[b].wc = wc /\ ~batches'[b].used)
  BY DEF Unused
<1>3. batches' # batches
  BY <1>1, <1>2
<1>4. Step \/ FailAfterEffect
  BY <1>3, FrameOfKeys DEF keyVars
<1>5. Able /\ Effect
  BY <1>4 DEF Step, FailAfterEffect
<1>6. AtMove /\ KeysEffect
  BY <1>5, Zenon DEF Able, Effect
<1>7. Current \in Moves /\ KeyTypes /\ (Current.op = "generate" => Current.wc \in Credentials)
  BY <1>6, AtCurrent, SpeaksOfFacts DEF IInv, Types
<1>8. Current.op \in {"generate", "mark"}
  <2>1. SUFFICES ASSUME Current.op \in {"none", "look", "write", "addKeys", "newOperator", "import"}
                 PROVE  batches' = batches
    BY <1>3, <1>7, MoveFacts
  <2> QED
    BY <1>6, <2>1 DEF KeysEffect, WriteKeysFile, AddKeys, AddOperatorWithKeys, Submit, ImportKeys, keyVars
<1>9. Current.op # "generate"
  BY <1>1, <1>2, <1>6, <1>7, Generated DEF KeysEffect
<1>10. Current.op = "mark" /\ Current.wc = wc
  <2>1. Current.op = "mark" /\ MarkKeys
    BY <1>6, <1>8, <1>9 DEF KeysEffect
  <2>2. /\ b \in DOMAIN batches' /\ batches'[b].wc = wc
        /\ batches'[b].used <=> (batches[b].used \/ batches[b].wc = Current.wc)
    BY <1>1, <1>7, <2>1, Marked
  <2> QED
    BY <1>1, <1>2, <2>1, <2>2
<1> QED
  BY <1>4, <1>6, <1>10

\* Keys just generated are unused.
LEMMA UnusedAfterwards ==
  ASSUME IInv, Step, Current.op = "generate", NEW wc, wc = Current.wc
  PROVE  Unused(wc)' # {}
<1>1. Able /\ Effect
  BY DEF Step
<1>2. AtMove /\ KeysEffect
  BY <1>1, Zenon DEF Able, Effect
<1>3. batches' = Append(batches, [wc |-> wc, used |-> FALSE])
  BY <1>2 DEF KeysEffect, GenerateKeys
<1>4. batches \in Seq(Batches) /\ [wc |-> wc, used |-> FALSE] \in Batches
  BY <1>2, SpeaksOfFacts DEF IInv, Types, KeyTypes, Batches
<1> DEFINE new == [wc |-> wc, used |-> FALSE]
<1>5. new.wc = wc /\ ~new.used
  OBVIOUS
<1> HIDE DEF new
<1>6. /\ batches' \in Seq(Batches) /\ Len(batches') = Len(batches) + 1
      /\ batches'[Len(batches) + 1] = new
  BY <1>3, <1>4, AppendProperties DEF new
<1>7. Len(batches) + 1 \in DOMAIN batches'
  BY <1>4, <1>6, LenProperties
<1>8. Len(batches) + 1 \in Unused(wc)'
  BY <1>5, <1>6, <1>7 DEF Unused
<1> QED
  BY <1>8

\* A command that is to be run again was not through.
LEMMA RunAgain ==
  ASSUME IInv, [Next]_vars, Restarts, ~Stays
  PROVE  From < Len(Plan[command])
<1>1. AtMove
  <2>1. CASE status # "failed"
    <3>1. status' = "failed"
      BY <2>1 DEF Restarts
    <3> QED
      BY <2>1, <3>1 DEF Next, Begin, Skip, Step, Refuse, RefuseQuietly, Interrupt, FailAfterEffect,
                        FailQuietly, Resume, Ready, Able, AtMove, vars
  <2>2. CASE status = "failed"
    BY <2>2 DEF Restarts, Stays, From
  <2> QED
    BY <2>1, <2>2
<1>2. From + 1 \in DOMAIN Plan[command] /\ From \in Nat /\ command \in DOMAIN Plan
  BY <1>1, AtPlace
<1>3. DOMAIN Plan[command] = 1..Len(Plan[command]) /\ Len(Plan[command]) \in Nat
  BY <1>2, PlanFacts, PlacesAreNumbers
<1> QED
  BY <1>2, <1>3

LEMMA KeepsKeysLast ==
  ASSUME IInv, [Next]_vars, Ordered
  PROVE  KeysLast'
<1>1. UNCHANGED scenario /\ Plan' = Plan
  BY Moving DEF Plan
<1> SUFFICES ASSUME NEW c \in DOMAIN Plan, NEW j \in DOMAIN Plan[c],
                    NEW d \in DOMAIN Plan, NEW i \in DOMAIN Plan[d],
                    Plan[c][j].op = "write", GeneratesFor(Plan, d, i, c, j),
                    Past(d, i)', Ahead(c, j + 1)', NEW wc, wc = Plan[c][j].wc
             PROVE  Unused(wc)' # {}
  BY <1>1 DEF KeysLast, Unused
<1>2. /\ c \in Nat /\ j \in Nat /\ d \in Nat /\ i \in Nat /\ i > 0 /\ command \in Nat
      /\ DOMAIN Plan[c] = 1..Len(Plan[c]) /\ Len(Plan[c]) \in Nat
  BY PlanFacts, PlacesAreNumbers
<1>3. /\ Earlier(d, i, c, j)
      /\ Plan[d][i].op = "generate" /\ Plan[d][i].wc = wc /\ ~Plan[d][i].quiet
      /\ \A k \in DOMAIN Plan[d] : ~Covers(Plan[d], k, i)
      /\ d # c => j + 1 = Len(Plan[c]) /\ ~Plan[c][j + 1].outside
  BY DEF GeneratesFor
<1>4. CASE Ahead(d, i)
  <2>1. Current = Plan[d][i] /\ Step
    BY <1>3, <1>4, NowPast
  <2> QED
    BY <1>3, <2>1, UnusedAfterwards
<1>5. CASE Past(d, i)
  \* A second run of the command does not bring `keys use` back before the keys.
  <2>1. Ahead(c, j + 1)
    <3>1. CASE command' = command /\ From' = From
      BY <3>1 DEF Ahead
    <3>2. CASE Restarts /\ ~Stays
      <4>1. command' = command /\ From' = 0
        BY <3>2 DEF Restarts
      <4>2. d # command
        BY <1>2, <4>1 DEF Past, Ahead
      <4>3. c # d \/ c # command
        BY <4>2
      <4>4. CASE c # command
        BY <4>1, <4>4 DEF Ahead
      <4>5. CASE c = command
        <5>1. j + 1 = Len(Plan[c])
          BY <1>3, <4>2, <4>5
        <5>2. From < Len(Plan[c])
          BY <3>2, <4>5, RunAgain
        <5> QED
          BY <4>5, <5>1, <5>2 DEF Ahead
      <4> QED
        BY <4>4, <4>5
    <3>3. CASE Starts
      BY <1>2, <3>3 DEF Starts, Ahead
    <3>4. CASE Advances \/ Jumps
      <4>1. AtMove /\ command' = command /\ From' \in Nat /\ From' >= From /\ From \in Nat
        BY <3>4, AtPlace DEF Advances, Jumps
      <4> QED
        BY <1>2, <4>1 DEF Ahead
    <3> QED
      BY <3>1, <3>2, <3>3, <3>4, Moving DEF Stays
  <2>2. Unused(wc) # {}
    BY <1>5, <2>1 DEF Ordered, KeysLast
  <2>3. ASSUME ~(Unused(wc)' # {})
        PROVE  FALSE
    <3>1. (Step \/ FailAfterEffect) /\ AtMove /\ Current.op = "mark" /\ Current.wc = wc
      BY <2>2, <2>3, UsedUp
    <3>2. /\ command \in DOMAIN Plan /\ From + 1 \in DOMAIN Plan[command] /\ From \in Nat
          /\ Current = Plan[command][From + 1]
      BY <3>1, AtPlace
    <3>3. Earlier(d, i, command, From + 1)
      BY <1>5, <3>1, PastIsEarlier
    <3>4. ~Earlier(command, From + 1, c, j)
      BY <3>1, <3>2, <3>3 DEF GeneratesFor
    <3>5. c = command /\ From + 1 \in {j, j + 1}
      BY <1>2, <2>1, <3>2, <3>4 DEF Ahead, Earlier
    <3>6. From + 1 = j + 1
      BY <3>1, <3>2, <3>5
    <3>7. CASE Step
      BY <1>2, <3>5, <3>6, <3>7, StepPasses DEF Past
    <3>8. CASE FailAfterEffect
      <4>1. command' = command /\ From' = 0 /\ Current.outside
        BY <3>8 DEF FailAfterEffect, From
      <4>2. d # c
        BY <1>2, <3>5, <4>1 DEF Past, Ahead
      <4> QED
        BY <1>3, <3>2, <3>5, <3>6, <4>1, <4>2
    <3> QED
      BY <3>1, <3>7, <3>8
  <2> QED
    BY <2>3
<1> QED
  BY <1>4, <1>5 DEF Past

-----------------------------------------------------------------------------
(***************************************************************************)
(* Where nothing is interrupted.                                           *)
(***************************************************************************)
\* Faults are counted.
LEMMA NoFault ==
  ASSUME IInv, [Next]_vars, faults' = 0
  PROVE  faults = 0 /\ ~Interrupt /\ ~FailAfterEffect /\ ~FailQuietly
<1>1. faults \in Nat
  <2>1. faults \in 0..scenario.faults /\ scenario.faults \in Nat
    BY ScenariosAssumption DEF IInv, Types
  <2> QED
    BY <2>1
<1>2. ~Interrupt /\ ~FailAfterEffect /\ ~FailQuietly
  BY <1>1 DEF Interrupt, FailAfterEffect, FailQuietly, Faulty
<1>3. faults = 0
  BY <1>2 DEF Next, Begin, Skip, Step, Refuse, RefuseQuietly, Resume, Ready, vars
<1> QED
  BY <1>2, <1>3

LEMMA KeepsUndisturbed ==
  ASSUME IInv, [Next]_vars, Ordered
  PROVE  Undisturbed'
<1> SUFFICES ASSUME faults' = 0
             PROVE  ~swallowed' /\ status' # "failed"
  BY DEF Undisturbed
<1>1. faults = 0 /\ ~Interrupt /\ ~FailAfterEffect /\ ~FailQuietly
  BY NoFault
<1>2. ~swallowed /\ status # "failed"
  BY <1>1 DEF Ordered, Undisturbed
<1>3. ~RefuseQuietly
  <2>1. SUFFICES ASSUME AtMove, Missing # {}, Current.quiet
                 PROVE  FALSE
    BY DEF RefuseQuietly
  <2>2. PICK fact \in Missing : TRUE
    BY <2>1
  <2> QED
    BY <1>1, <1>2, <2>1, <2>2, AllFound
<1> QED
  BY <1>1, <1>2, <1>3 DEF Next, Begin, Skip, Step, Refuse, Resume, Ready, AtMove, Able, vars

LEMMA NothingFails ==
  ASSUME IInv, [Next]_vars, Ordered, faults' = 0
  PROVE  /\ faults = 0 /\ ~swallowed /\ status # "failed"
         /\ ~swallowed' /\ status' # "failed" /\ ~FailAfterEffect
BY NoFault, KeepsUndisturbed DEF Ordered, Undisturbed

LEMMA KeepsMadeAtOnce ==
  ASSUME IInv, [Next]_vars, Ordered
  PROVE  MadeAtOnce'
<1>1. UNCHANGED scenario /\ Plan' = Plan
  BY Moving DEF Plan
<1> SUFFICES ASSUME faults' = 0, NEW d \in DOMAIN Plan, NEW k \in DOMAIN Plan[d], NEW fact,
                    MakesAtOnce(scenario, d, k, fact), Past(d, k)',
                    \A e \in DOMAIN Plan : \A l \in DOMAIN Plan[e] :
                       Earlier(d, k, e, l) /\ fact \in Plan[e][l].takes => Ahead(e, l)'
             PROVE  fact \in done'
  BY <1>1 DEF MadeAtOnce
<1>2. /\ faults = 0 /\ ~swallowed /\ status # "failed"
      /\ ~swallowed' /\ status' # "failed" /\ ~FailAfterEffect
  BY NothingFails
<1>3. CASE Past(d, k)
  <2>1. ASSUME NEW e \in DOMAIN Plan, NEW l \in DOMAIN Plan[e],
               Earlier(d, k, e, l), fact \in Plan[e][l].takes
        PROVE  Ahead(e, l)
    <3>1. Ahead(e, l)'
      BY <2>1
    <3>2. Past(e, l) => Past(e, l)'
      BY <1>2, <2>1, NeverBack
    <3> QED
      BY <3>1, <3>2 DEF Past
  <2>2. fact \in done
    BY <1>2, <1>3, <2>1 DEF Ordered, MadeAtOnce
  <2>3. ASSUME fact \notin done'
        PROVE  FALSE
    <3>1. Step /\ AtMove /\ fact \in Current.takes
      BY <1>2, <2>2, <2>3, Lost
    <3>2. /\ command \in DOMAIN Plan /\ From + 1 \in DOMAIN Plan[command]
          /\ Current = Plan[command][From + 1]
      BY <3>1, AtPlace
    <3>3. PICK c, j : c = command /\ j = From + 1
      OBVIOUS
    <3>4. Earlier(d, k, c, j)
      BY <1>3, <3>1, <3>3, PastIsEarlier
    <3>5. Ahead(c, j)'
      BY <3>1, <3>2, <3>3, <3>4
    <3>6. Past(c, j)'
      BY <3>1, <3>3, StepPasses
    <3> QED
      BY <3>5, <3>6 DEF Past
  <2> QED
    BY <2>3
<1>4. CASE Ahead(d, k)
  <2>1. CASE Current = Plan[d][k] /\ Step
    <3>1. Shows(Current, fact)
      BY <2>1 DEF MakesAtOnce, Shows, Plan
    <3> QED
      BY <2>1, <3>1, Shown
  <2>2. CASE /\ AtMove /\ d = command /\ From + 1 \in DOMAIN Plan[d]
             /\ Covers(Plan[d], From + 1, k) /\ Plan[d][From + 1].skip \subseteq done
             /\ UNCHANGED <<done, keyVars>>
    <3>1. CASE fact \in Plan[d][From + 1].skip
      BY <2>2, <3>1
    <3>2. ASSUME NEW record \in Plan[d][From + 1].skip, NotYet(scenario, d, From + 1, record)
          PROVE  FALSE
      <4>1. record \in done \ scenario.given
        BY <2>2, <3>2 DEF NotYet
      <4>2. PICK e \in DOMAIN Plan : \E l \in DOMAIN Plan[e] :
               /\ Past(e, l)
               /\ \/ record \in Plan[e][l].gives
                  \/ /\ record = "operatorExists" /\ Plan[e][l].op = "look"
                     /\ WrittenBefore(Plan[e][l].name, e, l)
        BY <1>2, <4>1 DEF Ordered, NothingEarly
      <4>3. PICK l \in DOMAIN Plan[e] :
               /\ Past(e, l)
               /\ \/ record \in Plan[e][l].gives
                  \/ /\ record = "operatorExists" /\ Plan[e][l].op = "look"
                     /\ WrittenBefore(Plan[e][l].name, e, l)
        BY <4>2
      <4>4. Earlier(e, l, d, From + 1)
        BY <2>2, <4>3, PastIsEarlier
      <4>5. record \notin Plan[e][l].gives
        BY <3>2, <4>4 DEF NotYet, Plan
      <4>6. /\ record = "operatorExists" /\ Plan[e][l].op = "look"
            /\ WrittenBefore(Plan[e][l].name, e, l)
        BY <4>3, <4>5
      <4>7. \A a \in DOMAIN Plan : \A b \in DOMAIN Plan[a] :
               Plan[a][b].op = "write" /\ Plan[a][b].name = Plan[e][l].name => ~Earlier(a, b, e, l)
        BY <3>2, <4>4, <4>6 DEF NotYet, Plan
      <4> QED
        BY <4>6, <4>7 DEF WrittenBefore
    <3> QED
      BY <2>2, <3>1, <3>2 DEF MakesAtOnce, Plan
  <2> QED
    BY <1>2, <1>4, <2>1, <2>2, NowPast
<1> QED
  BY <1>3, <1>4 DEF Past

LEMMA KeepsNothingEarly ==
  ASSUME IInv, [Next]_vars, Ordered
  PROVE  NothingEarly'
<1>1. UNCHANGED scenario /\ Plan' = Plan
  BY Moving DEF Plan
<1> SUFFICES ASSUME faults' = 0
             PROVE  /\ \A fact \in done' \ scenario.given :
                          \E d \in DOMAIN Plan : \E k \in DOMAIN Plan[d] :
                             /\ Past(d, k)'
                             /\ \/ fact \in Plan[d][k].gives
                                \/ /\ fact = "operatorExists" /\ Plan[d][k].op = "look"
                                   /\ WrittenBefore(Plan[d][k].name, d, k)
                    /\ \A name \in DOMAIN files' :
                          \E d \in DOMAIN Plan : \E k \in DOMAIN Plan[d] :
                             Past(d, k)' /\ Plan[d][k].op = "write" /\ Plan[d][k].name = name
  BY <1>1 DEF NothingEarly, WrittenBefore
<1>2. /\ faults = 0 /\ ~swallowed /\ status # "failed"
      /\ ~swallowed' /\ status' # "failed" /\ ~FailAfterEffect
  BY NothingFails
<1>3. \A d \in DOMAIN Plan : \A k \in DOMAIN Plan[d] : Past(d, k) => Past(d, k)'
  BY <1>2, NeverBack
<1>4. ASSUME NEW fact \in done', fact \notin scenario.given
      PROVE  \E d \in DOMAIN Plan : \E k \in DOMAIN Plan[d] :
                /\ Past(d, k)'
                /\ \/ fact \in Plan[d][k].gives
                   \/ /\ fact = "operatorExists" /\ Plan[d][k].op = "look"
                      /\ WrittenBefore(Plan[d][k].name, d, k)
  <2>1. CASE fact \in done
    BY <1>2, <1>3, <1>4, <2>1 DEF Ordered, NothingEarly
  <2>2. CASE fact \notin done
    <3>1. /\ Step /\ AtMove
          /\ \/ fact \in Current.gives
             \/ fact = "operatorExists" /\ Current.op = "look" /\ Current.name \in DOMAIN files
      BY <1>2, <2>2, Gained
    <3>2. PICK c, j : c = command /\ j = From + 1
      OBVIOUS
    <3>3. c \in DOMAIN Plan /\ j \in DOMAIN Plan[c] /\ Current = Plan[c][j]
      BY <3>1, <3>2, AtPlace
    <3>4. Past(c, j)'
      BY <3>1, <3>2, StepPasses
    <3>5. Current.name \in DOMAIN files => WrittenBefore(Current.name, c, j)
      <4>1. SUFFICES ASSUME Current.name \in DOMAIN files
                     PROVE  WrittenBefore(Current.name, c, j)
        OBVIOUS
      <4>2. PICK d \in DOMAIN Plan : \E k \in DOMAIN Plan[d] :
               Past(d, k) /\ Plan[d][k].op = "write" /\ Plan[d][k].name = Current.name
        BY <1>2, <4>1 DEF Ordered, NothingEarly
      <4>3. PICK k \in DOMAIN Plan[d] :
               Past(d, k) /\ Plan[d][k].op = "write" /\ Plan[d][k].name = Current.name
        BY <4>2
      <4>4. Earlier(d, k, c, j)
        BY <3>1, <3>2, <4>3, PastIsEarlier
      <4> QED
        BY <4>3, <4>4 DEF WrittenBefore
    <3> QED
      BY <3>1, <3>3, <3>4, <3>5
  <2> QED
    BY <2>1, <2>2
<1>5. ASSUME NEW name \in DOMAIN files'
      PROVE  \E d \in DOMAIN Plan : \E k \in DOMAIN Plan[d] :
                Past(d, k)' /\ Plan[d][k].op = "write" /\ Plan[d][k].name = name
  <2>1. CASE name \in DOMAIN files
    BY <1>2, <1>3, <2>1 DEF Ordered, NothingEarly
  <2>2. CASE name \notin DOMAIN files
    <3>1. Step /\ AtMove /\ Current.op = "write" /\ Current.name = name
      BY <1>2, <2>2, FilesGrow
    <3>2. PICK c, j : c = command /\ j = From + 1
      OBVIOUS
    <3>3. c \in DOMAIN Plan /\ j \in DOMAIN Plan[c] /\ Current = Plan[c][j]
      BY <3>1, <3>2, AtPlace
    <3>4. Past(c, j)'
      BY <3>1, <3>2, StepPasses
    <3> QED
      BY <3>1, <3>3, <3>4
  <2> QED
    BY <2>1, <2>2
<1> QED
  BY <1>4, <1>5

-----------------------------------------------------------------------------
LEMMA InitOrdered == Init => Ordered
<1> SUFFICES ASSUME Init
             PROVE  Ordered
  OBVIOUS
<1>1. /\ scenario \in Scenarios /\ command = 0 /\ done = scenario.given /\ files = <<>>
      /\ faults = 0 /\ status = "running" /\ ~swallowed
  BY DEF Init
<1>2. \A d \in DOMAIN Plan : \A k : ~Past(d, k)
  BY <1>1, PlanFacts DEF Past, Ahead
<1>3. RecordsLast
  BY <1>1 DEF RecordsLast, Tied
<1>4. MadeLasts /\ FilesLast /\ KeysLast /\ MadeAtOnce
  BY <1>2 DEF MadeLasts, FilesLast, KeysLast, MadeAtOnce
<1>5. FoundLasts /\ Undisturbed
  BY <1>1 DEF FoundLasts, Undisturbed
<1>6. NothingEarly
  BY <1>1 DEF NothingEarly
<1> QED
  BY <1>3, <1>4, <1>5, <1>6 DEF Ordered

LEMMA NextOrdered ==
  ASSUME IInv, [Next]_vars, Ordered
  PROVE  Ordered'
BY KeepsRecordsLast, KeepsMadeLasts, KeepsFoundLasts, KeepsFilesLast, KeepsKeysLast,
   KeepsUndisturbed, KeepsMadeAtOnce, KeepsNothingEarly DEF Ordered

\* A stand is refused by a move that finds something missing.
LEMMA NowRefused ==
  ASSUME [Next]_vars, status' = "refused"
  PROVE  \/ Refuse
         \/ status = "refused" /\ UNCHANGED <<scenario, cause, faults, swallowed>>
BY DEF Next, Begin, Skip, Step, RefuseQuietly, Interrupt, FailAfterEffect, FailQuietly, Resume,
       Ready, Able, AtMove, vars

LEMMA NextOrderIsRight ==
  ASSUME IInv, [Next]_vars, Ordered, OrderIsRight
  PROVE  OrderIsRight'
<1> SUFFICES ASSUME status' = "refused", faults' = 0
             PROVE  Stranded' \subseteq Overwritten(scenario')
  BY DEF OrderIsRight
<1>1. CASE Refuse
  <2>1. AtMove /\ cause' = Missing /\ faults = 0 /\ scenario' = scenario
    BY <1>1 DEF Refuse
  <2>2. ~swallowed
    BY <2>1 DEF Ordered, Undisturbed
  <2>3. \A fact \in Missing : fact \notin Provided \/ fact \in Overwritten(scenario)
    BY <2>1, <2>2, AllFound
  <2>4. Stranded' = Missing \cap Provided
    BY <2>1 DEF Stranded, Provided
  <2> QED
    BY <2>1, <2>3, <2>4
<1>2. CASE status = "refused" /\ UNCHANGED <<scenario, cause, faults, swallowed>>
  BY <1>2 DEF OrderIsRight, Stranded, Provided
<1> QED
  BY <1>1, <1>2, NowRefused

LEMMA NextOnlyHalfDone ==
  ASSUME IInv, [Next]_vars, Ordered, OnlyHalfDoneIsLost
  PROVE  OnlyHalfDoneIsLost'
<1> SUFFICES ASSUME status' = "refused", ~swallowed'
             PROVE  Stranded' \subseteq HalfDone \cup Overwritten(scenario')
  BY DEF OnlyHalfDoneIsLost
<1>1. CASE Refuse
  <2>1. AtMove /\ cause' = Missing /\ ~swallowed /\ scenario' = scenario
    BY <1>1 DEF Refuse
  <2>2. \A fact \in Missing :
           fact \notin Provided \/ fact \in HalfDone \/ fact \in Overwritten(scenario)
    BY <2>1, AllFound
  <2>3. Stranded' = Missing \cap Provided
    BY <2>1 DEF Stranded, Provided
  <2> QED
    BY <2>1, <2>2, <2>3
<1>2. CASE status = "refused" /\ UNCHANGED <<scenario, cause, faults, swallowed>>
  BY <1>2 DEF OnlyHalfDoneIsLost, Stranded, Provided
<1> QED
  BY <1>1, <1>2, NowRefused

\* A stand whose lists are in order, and that nothing interrupts, never stops for want of
\* something that one of its own commands makes, or that it found at the start, but for
\* the endpoint of the validator client in a chain record that it writes anew.
THEOREM OrderRight == Spec => []OrderIsRight
<1>1. Init => OrderIsRight
  BY DEF Init, OrderIsRight
<1>2. IInv /\ [Next]_vars /\ Ordered => Ordered'
  BY NextOrdered
<1>3. IInv /\ [Next]_vars /\ Ordered /\ OrderIsRight => OrderIsRight'
  BY NextOrderIsRight
<1> QED
  BY Inductive, InitOrdered, <1>1, <1>2, <1>3, PTL DEF Spec

\* Whatever fails, or is interrupted, and is run again, such a stand wants for nothing of
\* its own but what is half done by then and that endpoint, unless a failure was passed
\* over.
THEOREM HalfDoneLost == Spec => []OnlyHalfDoneIsLost
<1>1. Init => OnlyHalfDoneIsLost
  BY DEF Init, OnlyHalfDoneIsLost
<1>2. IInv /\ [Next]_vars /\ Ordered => Ordered'
  BY NextOrdered
<1>3. IInv /\ [Next]_vars /\ Ordered /\ OnlyHalfDoneIsLost => OnlyHalfDoneIsLost'
  BY NextOnlyHalfDone
<1> QED
  BY Inductive, InitOrdered, <1>1, <1>2, <1>3, PTL DEF Spec
=============================================================================
