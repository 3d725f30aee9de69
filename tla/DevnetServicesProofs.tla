------------------------ MODULE DevnetServicesProofs ------------------------
(***************************************************************************)
(* What TLAPS proves of DevnetServices, for every table that keeps to      *)
(* TablesAssumption and HandlersAssumption and all workloads: type         *)
(* correctness, for any number of invocations, and the safety properties   *)
(* of commands that are run one at a time.                                 *)
(***************************************************************************)
EXTENDS DevnetServices, SequenceTheorems, NaturalsInduction, WellFoundedInduction, TLAPS

-----------------------------------------------------------------------------
(***************************************************************************)
(* The parameters.                                                         *)
(***************************************************************************)
LEMMA TableFacts ==
  /\ "oracle" \in Services /\ "dockerRegistry" \in Services /\ "blockscout" \in Services
  /\ "chain" \notin Services
  /\ DOMAIN Build \subseteq Services \ {"dockerRegistry"} /\ Rebuildable \subseteq DOMAIN Build
  /\ \A s \in DOMAIN Build : /\ Build[s].checkout \in {"kept", "config", "hardcoded"}
                             /\ Build[s].from \in Services
                             /\ Build[s].images \subseteq Services
  /\ \A s \in Services : /\ Up[s].starts \subseteq Services
                         /\ Up[s].builds => s \in DOMAIN Build
                         /\ Down[s].then \subseteq Services
BY TablesAssumption

\* The places of a plan, and what is there.
LEMMA PlanFacts ==
  ASSUME NEW s \in Services
  PROVE  /\ Slots(s) \subseteq Nat
         /\ \A i \in Slots(s) : /\ Up[s].plan[i] \in Releases
                                /\ Up[s].plan[i] \in ReleasesOf[s]
                                /\ Up[s].plan[i].name \in NamesOf[s]
<1>1. Up[s].plan \in Seq(Releases)
  BY TablesAssumption
<1>2. Slots(s) = 1 .. Len(Up[s].plan) /\ Len(Up[s].plan) \in Nat
  BY <1>1, LenProperties DEF Slots
<1>3. \A i \in Slots(s) : Up[s].plan[i] \in Releases
  BY <1>1, <1>2, ElementOfSeq
<1>4. ReleasesOf[s] = {Up[s].plan[i] : i \in Slots(s)}
  BY DEF ReleasesOf
<1>5. NamesOf[s] = {r.name : r \in ReleasesOf[s]}
  BY DEF NamesOf
<1> QED
  BY <1>2, <1>3, <1>4, <1>5

\* The list of services that a stop takes down.
LEMMA StopFacts ==
  ASSUME NEW c \in {"stop", "stopOffchain"}
  PROVE  /\ DOMAIN StopLists[c] \subseteq Nat
         /\ \A i \in DOMAIN StopLists[c] : StopLists[c][i] \in Services \cup {"chain"}
<1>1. StopLists[c] \in Seq(Services \cup {"chain"})
  BY TablesAssumption
<1>2. DOMAIN StopLists[c] = 1 .. Len(StopLists[c]) /\ Len(StopLists[c]) \in Nat
  BY <1>1, LenProperties
<1> QED
  BY <1>1, <1>2, ElementOfSeq

-----------------------------------------------------------------------------
(***************************************************************************)
(* The next place of a loop is one of those it has left.                   *)
(***************************************************************************)
Less == {pair \in Nat \X Nat : pair[1] < pair[2]}

\* The order on places has least elements.
LEMMA LessIsWellFounded == IsWellFoundedOn(Less, Nat)
BY NatLessThanWellFounded DEF OpToRel, Less

\* The first of a set of places is one of them.
LEMMA FirstIsIn ==
  ASSUME NEW S \in SUBSET Nat, S # {}
  PROVE  First(S) \in S
<1>1. PICK x \in S : \A y \in S : ~ (<<y, x>> \in Less)
  BY LessIsWellFounded, WFMin
<1>2. ASSUME NEW y \in S PROVE x <= y
  <2>1. <<y, x>> \in Nat \X Nat /\ ~ (<<y, x>> \in Less)
    BY <1>1
  <2>2. ~ (y < x)
    BY <2>1 DEF Less
  <2> QED
    BY <2>2
<1> QED
  BY <1>2 DEF First

\* What is n - i for the first is i for the last.
LEMMA LastIsIn ==
  ASSUME NEW n \in Nat, NEW S \in SUBSET (1 .. n), S # {}
  PROVE  Last(S) \in S
<1> DEFINE T == {n - i : i \in S}
<1>1. T \in SUBSET Nat /\ T # {}
  <2>1. \A i \in S : n - i \in Nat
    OBVIOUS
  <2> QED
    BY <2>1
<1> HIDE DEF T
<1>2. PICK x \in T : \A y \in T : ~ (<<y, x>> \in Less)
  BY <1>1, LessIsWellFounded, WFMin
<1>3. PICK i \in S : x = n - i
  BY <1>2 DEF T
<1>4. ASSUME NEW j \in S PROVE j <= i
  <2>1. n - j \in T /\ n - j \in Nat /\ x \in Nat
    BY <1>1 DEF T
  <2>2. ~ (<<n - j, x>> \in Less)
    BY <1>2, <2>1
  <2>3. ~ (n - j < x)
    BY <2>1, <2>2 DEF Less
  <2> QED
    BY <1>3, <2>3, <2>1
<1> QED
  BY <1>4 DEF Last

\* The place a loop is at is one it has not come to.
LEMMA PlaceIsLeft ==
  ASSUME NEW frame \in Frames, WellFormed(frame), frame.todo # {},
         frame.cmd \in {"up", "down", "stop", "stopOffchain"}
  PROVE  Place(frame) \in frame.todo
<1>1. frame.todo \in SUBSET Nat
  BY DEF Frames
<1>2. CASE frame.cmd = "down" /\ Down[frame.svc].reversed
  <2>1. frame.svc \in Services /\ frame.todo \subseteq Slots(frame.svc)
    BY <1>2 DEF WellFormed
  <2>2. Up[frame.svc].plan \in Seq(Releases)
    BY <2>1, TablesAssumption
  <2>3. PICK n \in Nat : Slots(frame.svc) = 1 .. n
    BY <2>2, LenProperties DEF Slots
  <2>4. Last(frame.todo) \in frame.todo
    BY <2>1, <2>3, LastIsIn
  <2> QED
    BY <1>2, <2>4 DEF Place
<1>3. CASE ~(frame.cmd = "down" /\ Down[frame.svc].reversed)
  BY <1>1, <1>3, FirstIsIn DEF Place
<1> QED
  BY <1>2, <1>3

\* The release a loop is at is one of the service's.
LEMMA NextReleaseIsOne ==
  ASSUME NEW frame \in Frames, WellFormed(frame), frame.todo # {}, frame.cmd \in {"up", "down"}
  PROVE  /\ Place(frame) \in frame.todo /\ Place(frame) \in Slots(frame.svc)
         /\ NextRelease(frame) = Up[frame.svc].plan[Place(frame)]
         /\ NextRelease(frame) \in Releases
         /\ NextRelease(frame) \in ReleasesOf[frame.svc]
         /\ NextRelease(frame).name \in NamesOf[frame.svc]
<1>1. Place(frame) \in frame.todo
  BY PlaceIsLeft
<1>2. frame.svc \in Services /\ Place(frame) \in Slots(frame.svc)
  BY <1>1 DEF WellFormed
<1> QED
  BY <1>1, <1>2, PlanFacts DEF NextRelease

\* Where a handler of each command may be.
LEMMA PositionFacts ==
  ASSUME NEW f, WellFormed(f)
  PROVE  /\ f.cmd = "up" =>
              f.at \in {"start", "starts", "started", "image", "release", "secret", "helm"}
         /\ f.cmd = "build" => f.at \in {"start", "push", "mark"}
         /\ f.cmd = "buildMulti" => f.at = "start"
         /\ f.cmd = "down" => f.at \in {"start", "list", "uninstall", "forget", "then", "end"}
         /\ f.cmd = "rebuild" => f.at \in {"start", "build", "down", "up", "end"}
         /\ f.cmd \in {"stop", "stopOffchain"} => f.at \in {"start", "next"}
         /\ f.cmd = "chainDown" => f.at \in {"start", "remove"}
BY DEF WellFormed, Positions

-----------------------------------------------------------------------------
(***************************************************************************)
(* The operations on the stack, frame by frame.                            *)
(***************************************************************************)
Outcomes == {"none", "done", "failed", "crashed"}

StackOK == /\ stack \in [Invocations -> Seq(Frames)]
           /\ outcome \in [Invocations -> Outcomes]
           /\ \A p \in Invocations : \A i \in DOMAIN stack[p] : WellFormed(stack[p][i])

\* All but what is above place n of p's stack stays.
Keeps(p, n) == /\ stack' \in [Invocations -> Seq(Frames)]
               /\ \A i \in 1 .. n : stack'[p][i] = stack[p][i]
               /\ \A q \in Invocations : q # p => stack'[q] = stack[q]

Replaces(p, f) == /\ Keeps(p, Len(stack[p]) - 1)
                  /\ Len(stack'[p]) = Len(stack[p])
                  /\ stack'[p][Len(stack[p])] = f

Adds(p, f, c) == /\ Keeps(p, Len(stack[p]) - 1)
                 /\ Len(stack'[p]) = Len(stack[p]) + 1
                 /\ stack'[p][Len(stack[p])] = f
                 /\ stack'[p][Len(stack[p]) + 1] = c

Cuts(p, n) == Keeps(p, n) /\ Len(stack'[p]) = n /\ n \in 0 .. Len(stack[p]) - 1

\* What the type of the stack says of one invocation.
LEMMA StackFacts ==
  ASSUME StackOK, NEW p \in Invocations
  PROVE  /\ stack[p] \in Seq(Frames) /\ Len(stack[p]) \in Nat
         /\ DOMAIN stack[p] = 1 .. Len(stack[p])
         /\ \A i \in 1 .. Len(stack[p]) : stack[p][i] \in Frames /\ WellFormed(stack[p][i])
         /\ Busy(p) <=> Len(stack[p]) > 0
<1>1. stack[p] \in Seq(Frames)
  BY DEF StackOK
<1>2. Len(stack[p]) \in Nat /\ DOMAIN stack[p] = 1 .. Len(stack[p])
  BY <1>1, LenProperties
<1>3. \A i \in 1 .. Len(stack[p]) : stack[p][i] \in Frames /\ WellFormed(stack[p][i])
  BY <1>1, <1>2, ElementOfSeq DEF StackOK
<1>4. stack[p] = <<>> <=> Len(stack[p]) = 0
  BY <1>1, EmptySeq
<1> QED
  BY <1>1, <1>2, <1>3, <1>4 DEF Busy

\* The top frame of a busy invocation.
LEMMA TopFacts ==
  ASSUME StackOK, NEW p \in Invocations, Busy(p)
  PROVE  /\ Len(stack[p]) \in Nat /\ Len(stack[p]) > 0
         /\ Top(p) = stack[p][Len(stack[p])]
         /\ Top(p) \in Frames /\ WellFormed(Top(p))
BY StackFacts DEF Top

\* The stack with another top frame.
LEMMA WithFacts ==
  ASSUME StackOK, NEW p \in Invocations, Busy(p), NEW f \in Frames
  PROVE  /\ With(p, f) \in Seq(Frames) /\ Len(With(p, f)) = Len(stack[p])
         /\ \A i \in 1 .. Len(stack[p]) :
               With(p, f)[i] = IF i = Len(stack[p]) THEN f ELSE stack[p][i]
<1>1. stack[p] \in Seq(Frames) /\ Len(stack[p]) \in 1 .. Len(stack[p])
  BY StackFacts, TopFacts
<1> QED
  BY <1>1, ExceptSeq DEF With

\* Become replaces the top ...
LEMMA Becomes ==
  ASSUME StackOK, NEW p \in Invocations, Busy(p), NEW f \in Frames, Become(p, f)
  PROVE  Replaces(p, f) /\ outcome' = outcome
<1>1. Len(stack[p]) \in Nat /\ Len(stack[p]) > 0
  BY TopFacts
<1>2. stack' = [stack EXCEPT ![p] = With(p, f)] /\ outcome' = outcome
  BY DEF Become
<1>3. stack \in [Invocations -> Seq(Frames)]
  BY DEF StackOK
<1>4. stack'[p] = With(p, f) /\ \A q \in Invocations : q # p => stack'[q] = stack[q]
  BY <1>2, <1>3
<1> QED
  BY <1>1, <1>2, <1>3, <1>4, WithFacts DEF Replaces, Keeps

\* ... Call puts a command on it ...
LEMMA Called ==
  ASSUME StackOK, NEW p \in Invocations, Busy(p), NEW f \in Frames, NEW c \in Frames, Call(p, f, c)
  PROVE  Adds(p, f, c) /\ outcome' = outcome
<1>1. Len(stack[p]) \in Nat /\ Len(stack[p]) > 0
  BY TopFacts
<1>2. stack' = [stack EXCEPT ![p] = Append(With(p, f), c)] /\ outcome' = outcome
  BY DEF Call
<1>3. stack \in [Invocations -> Seq(Frames)]
  BY DEF StackOK
<1>4. stack'[p] = Append(With(p, f), c) /\ \A q \in Invocations : q # p => stack'[q] = stack[q]
  BY <1>2, <1>3
<1>5. /\ Append(With(p, f), c) \in Seq(Frames)
      /\ Len(Append(With(p, f), c)) = Len(With(p, f)) + 1
      /\ \A i \in 1 .. Len(With(p, f)) : Append(With(p, f), c)[i] = With(p, f)[i]
      /\ Append(With(p, f), c)[Len(With(p, f)) + 1] = c
  BY WithFacts, AppendProperties
<1> QED
  BY <1>1, <1>2, <1>3, <1>4, <1>5, WithFacts DEF Adds, Keeps

\* ... and a stack that is cut keeps what is below.
LEMMA CutFacts ==
  ASSUME StackOK, NEW p \in Invocations, Busy(p), NEW n \in 0 .. Len(stack[p]) - 1,
         stack' = [stack EXCEPT ![p] = SubSeq(stack[p], 1, n)]
  PROVE  Cuts(p, n)
<1>1. Len(stack[p]) \in Nat /\ Len(stack[p]) > 0
  BY TopFacts
<1>2. stack \in [Invocations -> Seq(Frames)]
  BY DEF StackOK
<1>3. stack'[p] = SubSeq(stack[p], 1, n) /\ \A q \in Invocations : q # p => stack'[q] = stack[q]
  BY <1>2
<1>4. \A i \in 1 .. n : stack[p][i] \in Frames
  BY <1>1, StackFacts
<1>5. /\ SubSeq(stack[p], 1, n) \in Seq(Frames)
      /\ Len(SubSeq(stack[p], 1, n)) = IF 1 <= n THEN n - 1 + 1 ELSE 0
      /\ \A i \in 1 .. n - 1 + 1 : SubSeq(stack[p], 1, n)[i] = stack[p][1 + i - 1]
  BY <1>1, <1>4, SubSeqProperties
<1> QED
  BY <1>1, <1>2, <1>3, <1>5 DEF Cuts, Keeps

\* Return takes the top frame away ...
LEMMA Returns ==
  ASSUME StackOK, NEW p \in Invocations, Busy(p), Return(p)
  PROVE  Cuts(p, Len(stack[p]) - 1)
<1>1. Len(stack[p]) \in Nat /\ Len(stack[p]) > 0
  BY TopFacts
<1>2. stack' = [stack EXCEPT ![p] = SubSeq(stack[p], 1, Len(stack[p]) - 1)]
  BY DEF Return
<1>3. Len(stack[p]) - 1 \in 0 .. Len(stack[p]) - 1
  BY <1>1
<1> QED
  BY <1>2, <1>3, CutFacts

\* ... and an error all frames above the one that catches it.
LEMMA Throws ==
  ASSUME StackOK, NEW p \in Invocations, Busy(p), Throw(p)
  PROVE  \E n \in 0 .. Len(stack[p]) - 1 : Cuts(p, n) /\ (n > 0 => Catches(stack[p][n]))
<1>1. PICK n \in 0 .. Len(stack[p]) - 1 :
         /\ n > 0 => Catches(stack[p][n])
         /\ stack' = [stack EXCEPT ![p] = SubSeq(stack[p], 1, n)]
  BY DEF Throw
<1> QED
  BY <1>1, CutFacts

-----------------------------------------------------------------------------
(***************************************************************************)
(* A step of p's command replaces the top frame by one of the same call,   *)
(* calls another command, or cuts the stack.                               *)
(***************************************************************************)
SameCall(f, g) == g.cmd = f.cmd /\ g.svc = f.svc /\ g.opts = f.opts /\ g.ref = f.ref

\* Which command a handler calls, and where it then goes on.
CalledBy(f, c) ==
    \/ f.cmd = "up" /\ f.at = "started" /\ SameCall(UpCommand(c.svc), c)
    \/ f.cmd = "up" /\ f.at = "image" /\ SameCall(BuildCommand(f.svc), c)
    \/ f.cmd = "down" /\ f.at = "end" /\ SameCall(DownCommand(c.svc, {}), c)
    \/ /\ f.cmd = "rebuild" /\ f.at = "down"
       /\ SameCall(IF f.svc = "oracle" THEN Command("buildMulti", "oracle", {}, f.ref)
                                       ELSE BuildCommand(f.svc), c)
    \/ /\ f.cmd = "rebuild" /\ f.at = "up"
       /\ SameCall(DownCommand(f.svc, IF f.svc = "oracle" THEN {"force", "keepDb"} ELSE {}), c)
    \/ /\ f.cmd = "rebuild" /\ f.at = "end"
       /\ SameCall(Command("up", f.svc, {}, IF f.svc = "oracle" THEN f.ref ELSE "none"), c)
    \/ /\ f.cmd \in {"stop", "stopOffchain"} /\ f.at = "next"
       /\ \/ SameCall(Command("chainDown", "chain", {}, "none"), c)
          \/ SameCall(DownCommand(c.svc, f.opts \cap {"force"}), c)
    \/ f.cmd = "chainDown" /\ f.at = "remove" /\ SameCall(DownCommand("blockscout", {}), c)

Moves(p) ==
    /\ \/ \E f \in Frames : Replaces(p, f) /\ WellFormed(f) /\ SameCall(Top(p), f)
       \/ \E f, c \in Frames : /\ Adds(p, f, c)
                               /\ WellFormed(f) /\ SameCall(Top(p), f)
                               /\ WellFormed(c) /\ CalledBy(f, c) /\ c.at = "start"
       \/ \E n \in 0 .. Len(stack[p]) - 1 : Cuts(p, n)
    /\ outcome' \in [Invocations -> Outcomes]

Ats == {"start", "starts", "started", "image", "release", "secret", "helm", "push", "mark", "list",
        "uninstall", "forget", "then", "end", "build", "down", "up", "next", "remove"}
Cmds == {"up", "build", "buildMulti", "down", "rebuild", "stop", "stopOffchain", "chainDown"}
Options == {"force", "build", "keepDb", "skipDeploy", "silent"}

\* The fields of a frame.
LEMMA FrameFacts ==
  Frames = [cmd : Cmds, svc : Services \cup {"devnet", "chain"}, opts : SUBSET Options,
            ref : {"none", Asked}, at : Ats, todo : SUBSET Nat, was : BOOLEAN]
<1>1. DOMAIN Positions = Cmds
  BY DEF Positions, Cmds
<1>2. UNION {Positions[c] : c \in DOMAIN Positions} = Ats
  <2>1. \A c \in Cmds : Positions[c] \subseteq Ats
    BY DEF Positions, Cmds, Ats
  <2>2. \A a \in Ats : \E c \in Cmds : a \in Positions[c]
    BY DEF Positions, Cmds, Ats
  <2> QED
    BY <1>1, <2>1, <2>2
<1> QED
  BY <1>1, <1>2 DEF Frames, Options

\* Some of a frame is changed: the rest of it stays.
LEMMA FrameAt ==
  ASSUME NEW f \in Frames, NEW a \in Ats
  PROVE  LET g == [f EXCEPT !.at = a] IN
         g \in Frames /\ SameCall(f, g) /\ g.at = a /\ g.todo = f.todo /\ g.was = f.was
BY FrameFacts DEF SameCall

\* A frame with other places left to do.
LEMMA FrameTodo ==
  ASSUME NEW f \in Frames, NEW t \in SUBSET Nat
  PROVE  LET g == [f EXCEPT !.todo = t] IN
         g \in Frames /\ SameCall(f, g) /\ g.at = f.at /\ g.todo = t /\ g.was = f.was
BY FrameFacts DEF SameCall

\* A command is a frame at its start.
LEMMA CommandIsFrame ==
  ASSUME NEW cmd \in Cmds, NEW s \in Services \cup {"devnet", "chain"}, NEW opts \in SUBSET Options,
         NEW ref \in {"none", Asked}
  PROVE  /\ Command(cmd, s, opts, ref) \in Frames
         /\ Command(cmd, s, opts, ref).cmd = cmd /\ Command(cmd, s, opts, ref).svc = s
         /\ Command(cmd, s, opts, ref).opts = opts /\ Command(cmd, s, opts, ref).ref = ref
         /\ Command(cmd, s, opts, ref).at = "start" /\ Command(cmd, s, opts, ref).todo = {}
<1>1. "start" \in Ats /\ {} \in SUBSET Nat
  BY DEF Ats
<1> QED
  BY <1>1, FrameFacts DEF Command

\* The three ways a step of a handler ends are moves.
LEMMA BecomeMoves ==
  ASSUME StackOK, NEW p \in Invocations, Busy(p), NEW f \in Frames, Become(p, f),
         WellFormed(f), SameCall(Top(p), f)
  PROVE  Moves(p)
BY Becomes DEF Moves, StackOK

\* A call, from a frame that waits for it.
LEMMA CallMoves ==
  ASSUME StackOK, NEW p \in Invocations, Busy(p), NEW f \in Frames, NEW c \in Frames, Call(p, f, c),
         WellFormed(f), SameCall(Top(p), f), WellFormed(c), CalledBy(f, c), c.at = "start"
  PROVE  Moves(p)
BY Called DEF Moves, StackOK

\* A return, or an error.
LEMMA ReturnMoves ==
  ASSUME StackOK, NEW p \in Invocations, Busy(p), Return(p) \/ Throw(p)
  PROVE  Moves(p)
<1>1. Len(stack[p]) \in Nat /\ Len(stack[p]) > 0
  BY TopFacts
<1>2. Len(stack[p]) - 1 \in 0 .. Len(stack[p]) - 1
  BY <1>1
<1>3. outcome' \in [Invocations -> Outcomes]
  BY DEF Return, Throw, StackOK, Outcomes
<1>4. CASE Return(p)
  BY <1>2, <1>3, <1>4, Returns DEF Moves
<1>5. CASE Throw(p)
  BY <1>3, <1>5, Throws DEF Moves
<1> QED
  BY <1>4, <1>5

-----------------------------------------------------------------------------
\* Moves keep the stacks well-formed.
LEMMA MovesKeepStack ==
  ASSUME StackOK, NEW p \in Invocations, Busy(p), Moves(p)
  PROVE  StackOK'
<1>1. /\ Len(stack[p]) \in Nat /\ Len(stack[p]) > 0
      /\ \A i \in 1 .. Len(stack[p]) : WellFormed(stack[p][i])
  BY TopFacts, StackFacts
<1>2. /\ stack' \in [Invocations -> Seq(Frames)] /\ outcome' \in [Invocations -> Outcomes]
      /\ \A q \in Invocations : q # p => stack'[q] = stack[q]
  BY DEF Moves, Replaces, Adds, Cuts, Keeps
<1>5. DOMAIN (stack'[p]) = 1 .. Len(stack'[p]) /\ Len(stack'[p]) \in Nat
  BY <1>2, LenProperties
<1>6. ASSUME NEW i \in 1 .. Len(stack'[p]) PROVE WellFormed(stack'[p][i])
  <2>1. CASE \E f \in Frames : Replaces(p, f) /\ WellFormed(f)
    BY <1>1, <1>6, <2>1 DEF Replaces, Keeps
  <2>2. CASE \E f, c \in Frames : Adds(p, f, c) /\ WellFormed(f) /\ WellFormed(c)
    BY <1>1, <1>6, <2>2 DEF Adds, Keeps
  <2>3. CASE \E n \in 0 .. Len(stack[p]) - 1 : Cuts(p, n)
    BY <1>1, <1>6, <2>3 DEF Cuts, Keeps
  <2> QED
    BY <2>1, <2>2, <2>3 DEF Moves
<1>7. \A q \in Invocations : \A i \in DOMAIN (stack'[q]) : WellFormed(stack'[q][i])
  BY <1>2, <1>5, <1>6 DEF StackOK
<1> QED
  BY <1>2, <1>7 DEF StackOK

\* What is left of a loop.
LEMMA RestFacts ==
  ASSUME StackOK, NEW p \in Invocations, Busy(p)
  PROVE  /\ Rest(p) \in Frames /\ SameCall(Top(p), Rest(p)) /\ Rest(p).at = Top(p).at
         /\ Rest(p).todo = Top(p).todo \ {Place(Top(p))} /\ Rest(p).was = Top(p).was
<1>1. Top(p) \in Frames
  BY TopFacts
<1> DEFINE t == Top(p).todo \ {Place(Top(p))}
<1>2. t \in SUBSET Nat
  BY <1>1 DEF Frames
<1>3. Rest(p) = [Top(p) EXCEPT !.todo = t]
  BY DEF Rest
<1> HIDE DEF t
<1>4. /\ Rest(p) \in Frames /\ SameCall(Top(p), Rest(p)) /\ Rest(p).at = Top(p).at
      /\ Rest(p).todo = t /\ Rest(p).was = Top(p).was
  BY <1>1, <1>2, <1>3, FrameTodo
<1> QED
  BY <1>4 DEF t

\* A frame that goes on: what to see to.
LEMMA GoesOn ==
  ASSUME NEW f \in Frames, WellFormed(f), NEW g \in Frames, SameCall(f, g),
         g.at \in Positions[f.cmd],
         g.at \in {"secret", "helm"} => g.todo # {},
         g.todo \subseteq f.todo,
         "keepDb" \in f.opts => g.at \in {"start", "list", "uninstall"}
  PROVE  WellFormed(g)
BY DEF WellFormed, SameCall

\* A handler that goes on to its next position.
LEMMA GoToMoves ==
  ASSUME StackOK, NEW p \in Invocations, Busy(p), NEW a \in Ats, GoTo(p, a),
         a \in Positions[Top(p).cmd],
         a \in {"secret", "helm"} => Top(p).todo # {},
         "keepDb" \in Top(p).opts => a \in {"start", "list", "uninstall"}
  PROVE  Moves(p)
<1> DEFINE g == [Top(p) EXCEPT !.at = a]
<1>1. Top(p) \in Frames /\ WellFormed(Top(p))
  BY TopFacts
<1>2. g \in Frames /\ SameCall(Top(p), g) /\ g.at = a /\ g.todo = Top(p).todo
  BY <1>1, FrameAt
<1>3. Become(p, g)
  BY DEF GoTo
<1> HIDE DEF g
<1>4. WellFormed(g)
  BY <1>1, <1>2, GoesOn
<1> QED
  BY <1>2, <1>3, <1>4, BecomeMoves

\* The commands that handlers call are well-formed.
LEMMA UpIsWellFormed ==
  ASSUME NEW s \in Services, NEW ref \in {"none", Asked}
  PROVE  LET c == Command("up", s, {}, ref) IN c \in Frames /\ WellFormed(c) /\ c.at = "start"
<1> DEFINE c == Command("up", s, {}, ref)
<1>1. /\ c \in Frames /\ c.cmd = "up" /\ c.svc = s /\ c.opts = {} /\ c.at = "start" /\ c.todo = {}
  BY CommandIsFrame DEF Cmds
<1> QED
  BY <1>1 DEF WellFormed, Positions

\* build, as rebuild and up call it.
LEMMA BuildIsWellFormed ==
  ASSUME NEW s \in DOMAIN Build
  PROVE  BuildCommand(s) \in Frames /\ WellFormed(BuildCommand(s)) /\ BuildCommand(s).at = "start"
<1> DEFINE c == Command("build", s, {}, "none")
<1>1. s \in Services
  BY TableFacts
<1>2. /\ c \in Frames /\ c.cmd = "build" /\ c.svc = s /\ c.opts = {} /\ c.at = "start" /\ c.todo = {}
  BY <1>1, CommandIsFrame DEF Cmds
<1>3. WellFormed(c)
  BY <1>2 DEF WellFormed, Positions
<1> QED
  BY <1>2, <1>3 DEF BuildCommand

\* build-multi, as the rebuild of oracle calls it.
LEMMA BuildMultiIsWellFormed ==
  LET c == Command("buildMulti", "oracle", {}, Asked) IN c \in Frames /\ WellFormed(c) /\ c.at = "start"
<1> DEFINE c == Command("buildMulti", "oracle", {}, Asked)
<1>1. /\ c \in Frames /\ c.cmd = "buildMulti" /\ c.opts = {} /\ c.at = "start" /\ c.ref = Asked
  BY TableFacts, CommandIsFrame DEF Cmds
<1> QED
  BY <1>1 DEF WellFormed, Positions

\* down, as rebuild, down and the stops call it.
LEMMA DownIsWellFormed ==
  ASSUME NEW s \in Services, NEW opts \in SUBSET {"force", "keepDb"}, "keepDb" \in opts => s = "oracle"
  PROVE  /\ DownCommand(s, opts) \in Frames /\ WellFormed(DownCommand(s, opts))
         /\ DownCommand(s, opts).at = "start"
<1> DEFINE c == Command("down", s, opts, "none")
<1>1. /\ c \in Frames /\ c.cmd = "down" /\ c.svc = s /\ c.opts = opts /\ c.at = "start" /\ c.todo = {}
  BY CommandIsFrame DEF Cmds, Options
<1>2. WellFormed(c)
  BY <1>1 DEF WellFormed, Positions
<1> QED
  BY <1>1, <1>2 DEF DownCommand

\* chain down, as the stops call it.
LEMMA ChainDownIsWellFormed ==
  LET c == Command("chainDown", "chain", {}, "none") IN c \in Frames /\ WellFormed(c) /\ c.at = "start"
<1> DEFINE c == Command("chainDown", "chain", {}, "none")
<1> DEFINE s == "chain"
           ref == "none"
<1>0. /\ "chainDown" \in Cmds /\ s \in Services \cup {"devnet", "chain"} /\ {} \in SUBSET Options
      /\ ref \in {"none", Asked}
  BY DEF Cmds
<1>1. /\ c \in Frames /\ c.cmd = "chainDown" /\ c.opts = {} /\ c.at = "start"
  <2> HIDE DEF s, ref
  <2>1. /\ Command("chainDown", s, {}, ref) \in Frames
        /\ Command("chainDown", s, {}, ref).cmd = "chainDown"
        /\ Command("chainDown", s, {}, ref).opts = {} /\ Command("chainDown", s, {}, ref).at = "start"
    BY <1>0, CommandIsFrame
  <2> QED
    BY <2>1 DEF s, ref
<1> QED
  BY <1>1 DEF WellFormed, Positions

-----------------------------------------------------------------------------
(***************************************************************************)
(* The moves of up.                                                        *)
(***************************************************************************)
LEMMA InFacts ==
  ASSUME StackOK, NEW p \in Invocations, NEW cmd, NEW at, In(p, cmd, at)
  PROVE  /\ Busy(p) /\ Top(p).cmd = cmd /\ Top(p).at = at
         /\ Top(p) \in Frames /\ WellFormed(Top(p))
BY TopFacts DEF In

\* The steps of up, one after the other.
LEMMA UpStartMoves ==
  ASSUME StackOK, running \in [Services -> BOOLEAN], NEW p \in Invocations, UpStart(p)
  PROVE  Moves(p)
<1> DEFINE s == Top(p).svc
           g == [Top(p) EXCEPT !.at = "starts", !.was = running[s]]
<1>1. Busy(p) /\ Top(p).cmd = "up" /\ Top(p) \in Frames /\ WellFormed(Top(p))
  BY InFacts DEF UpStart
<1>2. running[s] \in BOOLEAN /\ "keepDb" \notin Top(p).opts
  BY <1>1 DEF WellFormed
<1>3. CASE Become(p, g)
  <2>1. g \in Frames /\ SameCall(Top(p), g) /\ g.at = "starts" /\ g.todo = Top(p).todo
    BY <1>1, <1>2, FrameFacts DEF SameCall, Ats
  <2> HIDE DEF g
  <2>2. WellFormed(g)
    BY <1>1, <1>2, <2>1, GoesOn DEF Positions
  <2> QED
    BY <1>1, <1>3, <2>1, <2>2, BecomeMoves
<1>4. CASE Return(p) \/ Throw(p)
  BY <1>1, <1>4, ReturnMoves
<1> QED
  BY <1>3, <1>4 DEF UpStart

\* up calls the services it starts.
LEMMA UpStartsMoves ==
  ASSUME StackOK, NEW p \in Invocations, UpStarts(p)
  PROVE  Moves(p)
<1> DEFINE s == Top(p).svc
           g == [Top(p) EXCEPT !.at = "started"]
<1>1. Busy(p) /\ Top(p).cmd = "up" /\ Top(p) \in Frames /\ WellFormed(Top(p))
  BY InFacts DEF UpStarts
<1>2. s \in Services /\ "keepDb" \notin Top(p).opts
  BY <1>1 DEF WellFormed
<1>3. g \in Frames /\ SameCall(Top(p), g) /\ g.at = "started" /\ g.todo = Top(p).todo
  <2>1. "started" \in Ats
    BY DEF Ats
  <2> QED
    BY <1>1, <2>1, FrameAt
<1>4. (\E d \in Up[s].starts : Call(p, g, UpCommand(d))) \/ Become(p, g)
  BY DEF UpStarts
<1> HIDE DEF g
<1>5. WellFormed(g)
  BY <1>1, <1>2, <1>3, GoesOn DEF Positions
<1>6. CASE \E d \in Up[s].starts : Call(p, g, UpCommand(d))
  <2>1. PICK d \in Services : Call(p, g, UpCommand(d))
    BY <1>2, <1>6, TableFacts
  <2>2. UpCommand(d) \in Frames /\ WellFormed(UpCommand(d)) /\ UpCommand(d).at = "start"
    BY UpIsWellFormed DEF UpCommand
  <2>3. UpCommand(d).svc = d
    BY DEF UpCommand, Command
  <2>4. CalledBy(g, UpCommand(d))
    BY <1>1, <1>3, <2>3 DEF CalledBy, SameCall
  <2> QED
    BY <1>1, <1>3, <1>5, <2>1, <2>2, <2>4, CallMoves
<1>7. CASE Become(p, g)
  BY <1>1, <1>3, <1>5, <1>7, BecomeMoves
<1> QED
  BY <1>4, <1>6, <1>7

\* up calls build.
LEMMA UpStartedMoves ==
  ASSUME StackOK, NEW p \in Invocations, UpStarted(p)
  PROVE  Moves(p)
<1> DEFINE s == Top(p).svc
           g == [Top(p) EXCEPT !.at = "image"]
<1>1. Busy(p) /\ Top(p).cmd = "up" /\ Top(p) \in Frames /\ WellFormed(Top(p))
  BY InFacts DEF UpStarted
<1>2. s \in Services /\ "keepDb" \notin Top(p).opts
  BY <1>1 DEF WellFormed
<1>3. g \in Frames /\ SameCall(Top(p), g) /\ g.at = "image" /\ g.todo = Top(p).todo
  <2>1. "image" \in Ats
    BY DEF Ats
  <2> QED
    BY <1>1, <2>1, FrameAt
<1>4. Throw(p) \/ (Builds(Top(p)) /\ Call(p, g, BuildCommand(s))) \/ Become(p, g)
  BY DEF UpStarted
<1> HIDE DEF g
<1>5. WellFormed(g)
  BY <1>1, <1>2, <1>3, GoesOn DEF Positions
<1>6. CASE Builds(Top(p)) /\ Call(p, g, BuildCommand(s))
  <2>1. s \in DOMAIN Build
    BY <1>1, <1>2, <1>6, TableFacts DEF Builds, WellFormed
  <2>2. BuildCommand(s) \in Frames /\ WellFormed(BuildCommand(s)) /\ BuildCommand(s).at = "start"
    BY <2>1, BuildIsWellFormed
  <2>3. CalledBy(g, BuildCommand(s))
    BY <1>1, <1>3 DEF CalledBy, SameCall
  <2> QED
    BY <1>1, <1>3, <1>5, <1>6, <2>2, <2>3, CallMoves
<1>7. CASE Become(p, g)
  BY <1>1, <1>3, <1>5, <1>7, BecomeMoves
<1>8. CASE Throw(p)
  BY <1>1, <1>8, ReturnMoves
<1> QED
  BY <1>4, <1>6, <1>7, <1>8

\* up comes to its loop over the releases.
LEMMA UpImageMoves ==
  ASSUME StackOK, NEW p \in Invocations, UpImage(p)
  PROVE  Moves(p)
<1> DEFINE s == Top(p).svc
           g == [Top(p) EXCEPT !.at = "release", !.todo = Selected(s)]
<1>1. Busy(p) /\ Top(p).cmd = "up" /\ Top(p) \in Frames /\ WellFormed(Top(p))
  BY InFacts DEF UpImage
<1>2. s \in Services /\ "keepDb" \notin Top(p).opts
  BY <1>1 DEF WellFormed
<1>3. Selected(s) \subseteq Slots(s) /\ Selected(s) \in SUBSET Nat
  BY <1>2, PlanFacts DEF Selected
<1>4. Throw(p) \/ Become(p, g)
  BY DEF UpImage
<1>5. g \in Frames /\ SameCall(Top(p), g) /\ g.at = "release" /\ g.todo = Selected(s)
  BY <1>1, <1>3, FrameFacts DEF SameCall, Ats
<1> HIDE DEF g
<1>6. WellFormed(g)
  BY <1>1, <1>2, <1>3, <1>5 DEF WellFormed, SameCall, Positions
<1> QED
  BY <1>1, <1>4, <1>5, <1>6, BecomeMoves, ReturnMoves

\* up looks at the next release.
LEMMA UpReleaseMoves ==
  ASSUME StackOK, NEW p \in Invocations, UpRelease(p)
  PROVE  Moves(p)
<1> DEFINE s == Top(p).svc
           r == NextRelease(Top(p))
           listed == release[s][r.name] # "none" /\ r.listed
           at == IF s = "dockerRegistry" \/ (r.image /\ RegistryAvailable) THEN "secret" ELSE "helm"
           was == IF r.rule \in {"missing", "refresh"} THEN listed
                  ELSE Top(p).was \/ (r.rule = "kubo" /\ listed)
           g == [Top(p) EXCEPT !.at = at, !.was = was]
<1>1. /\ Busy(p) /\ Top(p).cmd = "up" /\ Top(p).at = "release"
      /\ Top(p) \in Frames /\ WellFormed(Top(p)) /\ Top(p).todo # {}
  BY InFacts DEF UpRelease
<1>2. "keepDb" \notin Top(p).opts
  BY <1>1 DEF WellFormed
<1>3. Become(p, Rest(p)) \/ Become(p, g)
  BY Zenon DEF UpRelease
<1>4. at \in {"secret", "helm"} /\ was \in BOOLEAN
  OBVIOUS
<1> HIDE DEF at, was
<1>5. g \in Frames /\ SameCall(Top(p), g) /\ g.at = at /\ g.todo = Top(p).todo
  BY <1>1, <1>4, FrameFacts DEF SameCall, Ats
<1> HIDE DEF g
<1>6. WellFormed(g)
  BY <1>1, <1>2, <1>4, <1>5, GoesOn DEF Positions
<1>7. WellFormed(Rest(p))
  BY <1>1, <1>2, RestFacts, GoesOn DEF Positions
<1> QED
  BY <1>1, <1>3, <1>5, <1>6, <1>7, RestFacts, BecomeMoves

\* up has pushed the secret, or failed to.
LEMMA PushPullSecretMoves ==
  ASSUME StackOK, NEW p \in Invocations, In(p, "up", "secret"), GoTo(p, "helm")
  PROVE  Moves(p)
<1>1. Busy(p) /\ Top(p).cmd = "up" /\ Top(p).at = "secret" /\ WellFormed(Top(p))
  BY InFacts
<1> QED
  BY <1>1, GoToMoves DEF WellFormed, Positions, Ats

\* On to the next release, after an installation or an uninstallation.
LEMMA NextMoves ==
  ASSUME StackOK, NEW p \in Invocations, In(p, "up", "helm"),
         Become(p, [Rest(p) EXCEPT !.at = "release"])
  PROVE  Moves(p)
<1> DEFINE g == [Rest(p) EXCEPT !.at = "release"]
<1>1. Busy(p) /\ Top(p).cmd = "up" /\ Top(p) \in Frames /\ WellFormed(Top(p))
  BY InFacts
<1>2. /\ Rest(p) \in Frames /\ SameCall(Top(p), Rest(p)) /\ Rest(p).todo \subseteq Top(p).todo
  BY <1>1, RestFacts
<1>3. g \in Frames /\ SameCall(Rest(p), g) /\ g.at = "release" /\ g.todo = Rest(p).todo
  <2>1. "release" \in Ats
    BY DEF Ats
  <2> QED
    BY <1>2, <2>1, FrameAt
<1> HIDE DEF g
<1>4. SameCall(Top(p), g)
  BY <1>2, <1>3 DEF SameCall
<1>5. WellFormed(g)
  BY <1>1, <1>2, <1>3, <1>4, GoesOn DEF Positions, WellFormed
<1> QED
  BY <1>1, <1>3, <1>4, <1>5, BecomeMoves DEF g

\* helm installs, or fails.
LEMMA HelmMoves ==
  ASSUME StackOK, NEW p \in Invocations,
         HelmInstall(p) \/ HelmRefused(p) \/ HelmFails(p)
  PROVE  Moves(p)
<1>1. In(p, "up", "helm") /\ Busy(p)
  BY DEF HelmInstall, HelmRefused, HelmFails, In
<1>2. Become(p, [Rest(p) EXCEPT !.at = "release"]) \/ Throw(p)
  BY DEF HelmInstall, HelmRefused, HelmFails, HelmFailed
<1> QED
  BY <1>1, <1>2, NextMoves, ReturnMoves

-----------------------------------------------------------------------------
(***************************************************************************)
(* The moves of build and of down.                                         *)
(***************************************************************************)
LEMMA BuildMoves ==
  ASSUME StackOK, NEW p \in Invocations,
         BuildStart(p) \/ BuildPush(p) \/ BuildMark(p) \/ BuildMulti(p)
  PROVE  Moves(p)
<1>1. CASE BuildStart(p)
  <2>1. Busy(p) /\ Top(p).cmd = "build" /\ Top(p).at = "start" /\ WellFormed(Top(p))
    BY <1>1, InFacts DEF BuildStart
  <2>2. Throw(p) \/ GoTo(p, "push")
    BY <1>1 DEF BuildStart
  <2> QED
    BY <2>1, <2>2, GoToMoves, ReturnMoves DEF WellFormed, Positions, Ats
<1>2. CASE BuildPush(p)
  <2>1. Busy(p) /\ Top(p).cmd = "build" /\ Top(p).at = "push" /\ WellFormed(Top(p))
    BY <1>2, InFacts DEF BuildPush
  <2>2. GoTo(p, "mark")
    BY <1>2 DEF BuildPush
  <2> QED
    BY <2>1, <2>2, GoToMoves DEF WellFormed, Positions, Ats
<1>3. CASE BuildMark(p)
  BY <1>3, InFacts, ReturnMoves DEF BuildMark
<1>4. CASE BuildMulti(p)
  BY <1>4, InFacts, ReturnMoves DEF BuildMulti
<1> QED
  BY <1>1, <1>2, <1>3, <1>4

\* down goes on, or has nothing to do.
LEMMA DownStartMoves ==
  ASSUME StackOK, NEW p \in Invocations, DownStart(p)
  PROVE  Moves(p)
<1>1. Busy(p) /\ Top(p).cmd = "down" /\ Top(p).at = "start" /\ WellFormed(Top(p))
  BY InFacts DEF DownStart
<1>2. Return(p) \/ GoTo(p, "list")
  BY DEF DownStart
<1> QED
  BY <1>1, <1>2, GoToMoves, ReturnMoves DEF WellFormed, Positions, Ats

\* down has listed the releases.
LEMMA DownListingMoves ==
  ASSUME StackOK, NEW p \in Invocations, DownListing(p)
  PROVE  Moves(p)
<1> DEFINE s == Top(p).svc
           g == [Top(p) EXCEPT !.at = "uninstall", !.todo = Picked(Top(p))]
<1>1. Busy(p) /\ Top(p).cmd = "down" /\ Top(p) \in Frames /\ WellFormed(Top(p))
  BY InFacts DEF DownListing
<1>2. s \in Services
  BY <1>1 DEF WellFormed
<1>3. Picked(Top(p)) \subseteq Slots(s) /\ Picked(Top(p)) \in SUBSET Nat
  BY <1>2, PlanFacts DEF Picked
<1>4. Return(p) \/ Become(p, g)
  BY DEF DownListing
<1>5. g \in Frames /\ SameCall(Top(p), g) /\ g.at = "uninstall" /\ g.todo = Picked(Top(p))
  BY <1>1, <1>3, FrameFacts DEF SameCall, Ats
<1>6. ASSUME "keepDb" \in Top(p).opts, NEW i \in Picked(Top(p))
      PROVE  Up["oracle"].plan[i].name # Performance
  BY <1>1, <1>6, HandlersAssumption DEF WellFormed, Picked, KeepDb
<1> HIDE DEF g
<1>7. WellFormed(g)
  BY <1>1, <1>2, <1>3, <1>5, <1>6 DEF WellFormed, SameCall, Positions
<1> QED
  BY <1>1, <1>4, <1>5, <1>7, BecomeMoves, ReturnMoves

\* An uninstallation, or one that failed and is passed over.
LEMMA UninstallMoves ==
  ASSUME StackOK, NEW p \in Invocations, Busy(p), Top(p).cmd = "down", Become(p, Rest(p))
  PROVE  Moves(p)
<1>1. Top(p) \in Frames /\ WellFormed(Top(p))
  BY TopFacts
<1>2. WellFormed(Rest(p))
  BY <1>1, RestFacts, GoesOn DEF WellFormed, Positions
<1> QED
  BY <1>2, RestFacts, BecomeMoves

\* down is through with its releases.
LEMMA DownEndMoves ==
  ASSUME StackOK, NEW p \in Invocations,
         DeleteNamespace(p) \/ Forget(p) \/ DownKeepingDb(p) \/ DownEnd(p)
  PROVE  Moves(p)
<1>1. CASE DeleteNamespace(p)
  <2>1. Busy(p) /\ Top(p).cmd = "down" /\ Top(p).at = "uninstall" /\ WellFormed(Top(p))
    BY <1>1, InFacts DEF DeleteNamespace
  <2>2. GoTo(p, "forget") /\ "keepDb" \notin Top(p).opts
    BY <1>1 DEF DeleteNamespace, KeepDb
  <2> QED
    BY <2>1, <2>2, GoToMoves DEF Positions, Ats
<1>2. CASE Forget(p)
  <2>1. Busy(p) /\ Top(p).cmd = "down" /\ Top(p).at = "forget" /\ WellFormed(Top(p))
    BY <1>2, InFacts DEF Forget
  <2>2. GoTo(p, "then") /\ "keepDb" \notin Top(p).opts
    BY <1>2, <2>1 DEF Forget, WellFormed
  <2> QED
    BY <2>1, <2>2, GoToMoves DEF Positions, Ats
<1>3. CASE DownKeepingDb(p)
  BY <1>3, InFacts, ReturnMoves DEF DownKeepingDb
<1>4. CASE DownEnd(p)
  BY <1>4, InFacts, ReturnMoves DEF DownEnd
<1> QED
  BY <1>1, <1>2, <1>3, <1>4

\* down calls the down of what depends on the service.
LEMMA DownThenMoves ==
  ASSUME StackOK, NEW p \in Invocations, DownThen(p)
  PROVE  Moves(p)
<1> DEFINE s == Top(p).svc
           g == [Top(p) EXCEPT !.at = "end"]
<1>1. /\ Busy(p) /\ Top(p).cmd = "down" /\ Top(p).at = "then"
      /\ Top(p) \in Frames /\ WellFormed(Top(p))
  BY InFacts DEF DownThen
<1>2. s \in Services /\ "keepDb" \notin Top(p).opts
  BY <1>1 DEF WellFormed
<1>3. g \in Frames /\ SameCall(Top(p), g) /\ g.at = "end" /\ g.todo = Top(p).todo
  <2>1. "end" \in Ats
    BY DEF Ats
  <2> QED
    BY <1>1, <2>1, FrameAt
<1>4. (\E d \in Down[s].then : Call(p, g, DownCommand(d, {}))) \/ Become(p, g)
  BY DEF DownThen
<1> HIDE DEF g
<1>5. WellFormed(g)
  BY <1>1, <1>2, <1>3, GoesOn DEF Positions
<1>6. CASE \E d \in Down[s].then : Call(p, g, DownCommand(d, {}))
  <2>1. PICK d \in Services : Call(p, g, DownCommand(d, {}))
    BY <1>2, <1>6, TableFacts
  <2>2. /\ DownCommand(d, {}) \in Frames /\ WellFormed(DownCommand(d, {}))
        /\ DownCommand(d, {}).at = "start"
    BY DownIsWellFormed
  <2>3. DownCommand(d, {}).svc = d
    BY DEF DownCommand, Command
  <2>4. CalledBy(g, DownCommand(d, {}))
    BY <1>1, <1>3, <2>3 DEF CalledBy, SameCall
  <2> QED
    BY <1>1, <1>3, <1>5, <2>1, <2>2, <2>4, CallMoves
<1>7. CASE Become(p, g)
  BY <1>1, <1>3, <1>5, <1>7, BecomeMoves
<1> QED
  BY <1>4, <1>6, <1>7

-----------------------------------------------------------------------------
(***************************************************************************)
(* The moves of rebuild and of the two stops.                              *)
(***************************************************************************)
LEMMA RebuildStartMoves ==
  ASSUME StackOK, NEW p \in Invocations, RebuildCheckout(p) \/ RebuildEnd(p)
  PROVE  Moves(p)
<1>1. CASE RebuildCheckout(p)
  <2>1. Busy(p) /\ Top(p).cmd = "rebuild" /\ WellFormed(Top(p)) /\ GoTo(p, "build")
    BY <1>1, InFacts DEF RebuildCheckout
  <2>2. "keepDb" \notin Top(p).opts
    BY <2>1 DEF WellFormed
  <2> QED
    BY <2>1, <2>2, GoToMoves DEF Positions, Ats
<1>2. CASE RebuildEnd(p)
  BY <1>2, InFacts, ReturnMoves DEF RebuildEnd
<1> QED
  BY <1>1, <1>2

\* A rebuild calls a command and goes on at `at`.
LEMMA RebuildCalls ==
  ASSUME StackOK, NEW p \in Invocations, Busy(p), Top(p).cmd = "rebuild",
         NEW at \in {"down", "up", "end"}, NEW c \in Frames, WellFormed(c), c.at = "start",
         Call(p, [Top(p) EXCEPT !.at = at], c),
         \A f : SameCall(Top(p), f) /\ f.at = at => CalledBy(f, c)
  PROVE  Moves(p)
<1> DEFINE g == [Top(p) EXCEPT !.at = at]
<1>1. Top(p) \in Frames /\ WellFormed(Top(p))
  BY TopFacts
<1>2. g \in Frames /\ SameCall(Top(p), g) /\ g.at = at /\ g.todo = Top(p).todo
  <2>1. at \in Ats
    BY DEF Ats
  <2> QED
    BY <1>1, <2>1, FrameAt
<1>3. Call(p, g, c)
  OBVIOUS
<1> HIDE DEF g
<1>4. WellFormed(g)
  BY <1>1, <1>2, GoesOn DEF WellFormed, Positions
<1> QED
  BY <1>2, <1>3, <1>4, CallMoves

\* A rebuild is of a service that has a build, to the ref asked for.
LEMMA RebuildFacts ==
  ASSUME StackOK, NEW p \in Invocations, Busy(p), Top(p).cmd = "rebuild"
  PROVE  /\ Top(p).svc \in DOMAIN Build /\ Top(p).svc \in Services /\ Top(p).ref = Asked
         /\ Top(p) \in Frames /\ WellFormed(Top(p))
BY TopFacts, TableFacts DEF WellFormed

\* rebuild calls build ...
LEMMA RebuildBuildMoves ==
  ASSUME StackOK, NEW p \in Invocations, RebuildBuild(p)
  PROVE  Moves(p)
<1>1. Busy(p) /\ Top(p).cmd = "rebuild"
  BY DEF RebuildBuild, In
<1>2. CASE Return(p)
  BY <1>1, <1>2, ReturnMoves
<1>3. CASE /\ Top(p).svc = "oracle"
           /\ Call(p, [Top(p) EXCEPT !.at = "down"], Command("buildMulti", "oracle", {}, Top(p).ref))
  BY <1>1, <1>3, RebuildFacts, BuildMultiIsWellFormed, RebuildCalls DEF CalledBy, SameCall
<1>4. CASE /\ Top(p).svc # "oracle"
           /\ Call(p, [Top(p) EXCEPT !.at = "down"], BuildCommand(Top(p).svc))
  BY <1>1, <1>4, RebuildFacts, BuildIsWellFormed, RebuildCalls DEF CalledBy, SameCall
<1> QED
  BY <1>2, <1>3, <1>4 DEF RebuildBuild

\* ... then down ...
LEMMA RebuildDownMoves ==
  ASSUME StackOK, NEW p \in Invocations, RebuildDown(p)
  PROVE  Moves(p)
<1> DEFINE opts == IF Top(p).svc = "oracle" THEN {"force", "keepDb"} ELSE {}
           c == DownCommand(Top(p).svc, opts)
<1>1. /\ Busy(p) /\ Top(p).cmd = "rebuild"
      /\ Call(p, [Top(p) EXCEPT !.at = "up"], c)
  BY DEF RebuildDown, In
<1>2. opts \in SUBSET {"force", "keepDb"} /\ ("keepDb" \in opts => Top(p).svc = "oracle")
  OBVIOUS
<1>3. \A f : SameCall(Top(p), f) /\ f.at = "up" => CalledBy(f, c)
  BY <1>1 DEF CalledBy, SameCall
<1> HIDE DEF opts
<1>4. c \in Frames /\ WellFormed(c) /\ c.at = "start"
  BY <1>1, <1>2, RebuildFacts, DownIsWellFormed
<1> HIDE DEF c
<1> QED
  BY <1>1, <1>3, <1>4, RebuildCalls

\* ... then up.
LEMMA RebuildUpMoves ==
  ASSUME StackOK, NEW p \in Invocations, RebuildUp(p)
  PROVE  Moves(p)
<1> DEFINE ref == IF Top(p).svc = "oracle" THEN Top(p).ref ELSE "none"
           c == Command("up", Top(p).svc, {}, ref)
<1>1. /\ Busy(p) /\ Top(p).cmd = "rebuild"
      /\ Call(p, [Top(p) EXCEPT !.at = "end"], c)
  BY DEF RebuildUp, In
<1>2. ref \in {"none", Asked}
  BY <1>1, RebuildFacts
<1>3. \A f : SameCall(Top(p), f) /\ f.at = "end" => CalledBy(f, c)
  BY <1>1 DEF CalledBy, SameCall
<1> HIDE DEF ref
<1>4. c \in Frames /\ WellFormed(c) /\ c.at = "start"
  BY <1>1, <1>2, RebuildFacts, UpIsWellFormed
<1> HIDE DEF c
<1> QED
  BY <1>1, <1>3, <1>4, RebuildCalls

\* A stop comes to its list ...
LEMMA StopStartMoves ==
  ASSUME StackOK, NEW p \in Invocations, StopStart(p)
  PROVE  Moves(p)
<1> DEFINE t == DOMAIN StopLists[Top(p).cmd]
           g == [Top(p) EXCEPT !.at = "next", !.todo = t]
<1>1. /\ Busy(p) /\ Top(p).cmd \in {"stop", "stopOffchain"} /\ Become(p, g)
  BY DEF StopStart
<1>2. Top(p) \in Frames /\ WellFormed(Top(p))
  BY <1>1, TopFacts
<1>3. t \in SUBSET Nat /\ "keepDb" \notin Top(p).opts
  BY <1>1, <1>2, StopFacts DEF WellFormed
<1>4. g \in Frames /\ SameCall(Top(p), g) /\ g.at = "next" /\ g.todo = t
  BY <1>2, <1>3, FrameFacts DEF SameCall, Ats
<1> HIDE DEF g
<1>5. WellFormed(g)
  BY <1>1, <1>2, <1>3, <1>4 DEF WellFormed, SameCall, Positions
<1> QED
  BY <1>1, <1>4, <1>5, BecomeMoves

\* ... and takes down the next on it.
LEMMA StopNextMoves ==
  ASSUME StackOK, NEW p \in Invocations, StopNext(p)
  PROVE  Moves(p)
<1> DEFINE s == StopLists[Top(p).cmd][Place(Top(p))]
           opts == Top(p).opts \cap {"force"}
<1>1. /\ Busy(p) /\ Top(p).cmd \in {"stop", "stopOffchain"} /\ Top(p).at = "next"
      /\ Top(p).todo # {}
      /\ Call(p, Rest(p), IF s = "chain" THEN Command("chainDown", "chain", {}, "none")
                          ELSE DownCommand(s, opts))
  BY DEF StopNext
<1>2. Top(p) \in Frames /\ WellFormed(Top(p))
  BY <1>1, TopFacts
<1>3. Place(Top(p)) \in DOMAIN StopLists[Top(p).cmd]
  BY <1>1, <1>2, PlaceIsLeft DEF WellFormed
<1>4. s \in Services \cup {"chain"}
  BY <1>1, <1>3, StopFacts
<1>5. opts \in SUBSET {"force", "keepDb"} /\ "keepDb" \notin opts /\ "keepDb" \notin Top(p).opts
  BY <1>1, <1>2 DEF WellFormed
<1>6. WellFormed(Rest(p))
  BY <1>1, <1>2, <1>5, RestFacts, GoesOn DEF Positions
<1>7. CASE s = "chain"
  <2>1. CalledBy(Rest(p), Command("chainDown", "chain", {}, "none"))
    BY <1>1, RestFacts DEF CalledBy, SameCall
  <2> QED
    BY <1>1, <1>6, <1>7, <2>1, RestFacts, ChainDownIsWellFormed, CallMoves
<1>8. CASE s # "chain"
  <2>1. s \in Services
    BY <1>4, <1>8
  <2> HIDE DEF s
  <2>2. DownCommand(s, opts).svc = s
    BY DEF DownCommand, Command
  <2>3. CalledBy(Rest(p), DownCommand(s, opts))
    BY <1>1, <2>2, RestFacts DEF CalledBy, SameCall
  <2> HIDE DEF opts
  <2>4. /\ DownCommand(s, opts) \in Frames /\ WellFormed(DownCommand(s, opts))
        /\ DownCommand(s, opts).at = "start"
    BY <1>5, <2>1, DownIsWellFormed
  <2> QED
    BY <1>1, <1>6, <1>8, <2>3, <2>4, RestFacts, CallMoves
<1> QED
  BY <1>7, <1>8

\* chain down calls the down of blockscout.
LEMMA ChainDownStartMoves ==
  ASSUME StackOK, NEW p \in Invocations, ChainDownStart(p)
  PROVE  Moves(p)
<1> DEFINE g == [Top(p) EXCEPT !.at = "remove"]
           c == DownCommand("blockscout", {})
<1>1. /\ Busy(p) /\ Top(p).cmd = "chainDown" /\ Top(p) \in Frames /\ WellFormed(Top(p))
      /\ Call(p, g, c)
  BY InFacts DEF ChainDownStart
<1>2. g \in Frames /\ SameCall(Top(p), g) /\ g.at = "remove" /\ g.todo = Top(p).todo
  <2>1. "remove" \in Ats
    BY DEF Ats
  <2> QED
    BY <1>1, <2>1, FrameAt
<1> HIDE DEF g
<1>3. WellFormed(g)
  BY <1>1, <1>2, GoesOn DEF WellFormed, Positions
<1>4. CalledBy(g, c)
  BY <1>1, <1>2 DEF CalledBy, SameCall
<1>5. c \in Frames /\ WellFormed(c) /\ c.at = "start"
  BY TableFacts, DownIsWellFormed
<1> HIDE DEF c
<1> QED
  BY <1>1, <1>2, <1>3, <1>4, <1>5, CallMoves

\* The stops and chain down end.
LEMMA StopEndMoves ==
  ASSUME StackOK, NEW p \in Invocations, StopOffchainEnd(p) \/ Clean(p) \/ RemoveChain(p)
  PROVE  Moves(p)
BY InFacts, ReturnMoves DEF StopOffchainEnd, Clean, RemoveChain

\* A call that fails, and a killed process.
LEMMA FailureMoves ==
  ASSUME StackOK, NEW p \in Invocations, CallFails(p) \/ Crash(p)
  PROVE  Moves(p)
<1>1. CASE CallFails(p)
  <2>1. Busy(p) /\ ((Top(p).cmd = "down" /\ Become(p, Rest(p))) \/ Throw(p))
    BY <1>1 DEF CallFails
  <2> QED
    BY <2>1, UninstallMoves, ReturnMoves
<1>2. CASE Crash(p)
  <2>1. Busy(p) /\ stack' = [stack EXCEPT ![p] = <<>>]
    BY <1>2 DEF Crash
  <2>2. SubSeq(stack[p], 1, 0) = <<>> /\ 0 \in 0 .. Len(stack[p]) - 1
    BY <2>1, TopFacts, SubSeqEmpty
  <2>3. Cuts(p, 0)
    BY <2>1, <2>2, CutFacts
  <2>4. outcome' \in [Invocations -> Outcomes]
    BY <1>2 DEF Crash, StackOK, Outcomes
  <2> QED
    BY <2>2, <2>3, <2>4 DEF Moves
<1> QED
  BY <1>1, <1>2

\* All steps of a command, then.
LEMMA StepsMove ==
  ASSUME StackOK, running \in [Services -> BOOLEAN], NEW p \in Invocations, Advance(p) \/ Failure(p)
  PROVE  Busy(p) /\ Moves(p)
<1>1. CASE UpStart(p) \/ UpStarts(p) \/ UpStarted(p) \/ UpImage(p) \/ UpRelease(p) \/ UpRecord(p)
  BY <1>1, UpStartMoves, UpStartsMoves, UpStartedMoves, UpImageMoves, UpReleaseMoves, ReturnMoves
     DEF UpStart, UpStarts, UpStarted, UpImage, UpRelease, UpRecord, In
<1>2. CASE PushPullSecret(p) \/ PushPullSecretFails(p)
  BY <1>2, PushPullSecretMoves DEF PushPullSecret, PushPullSecretFails, In
<1>3. CASE HelmInstall(p) \/ HelmRefused(p) \/ HelmFails(p)
  BY <1>3, HelmMoves DEF HelmInstall, HelmRefused, HelmFails, In
<1>4. CASE BuildStart(p) \/ BuildPush(p) \/ BuildMark(p) \/ BuildMulti(p)
  BY <1>4, BuildMoves DEF BuildStart, BuildPush, BuildMark, BuildMulti, In
<1>5. CASE DownStart(p) \/ DownListing(p) \/ HelmUninstall(p) \/ DownThen(p)
  BY <1>5, DownStartMoves, DownListingMoves, UninstallMoves, DownThenMoves
     DEF DownStart, DownListing, HelmUninstall, DownThen, In
<1>6. CASE DeleteNamespace(p) \/ Forget(p) \/ DownKeepingDb(p) \/ DownEnd(p)
  BY <1>6, DownEndMoves DEF DeleteNamespace, Forget, DownKeepingDb, DownEnd, In
<1>7. CASE RebuildCheckout(p) \/ RebuildBuild(p) \/ RebuildDown(p) \/ RebuildUp(p) \/ RebuildEnd(p)
  BY <1>7, RebuildStartMoves, RebuildBuildMoves, RebuildDownMoves, RebuildUpMoves
     DEF RebuildCheckout, RebuildBuild, RebuildDown, RebuildUp, RebuildEnd, In
<1>8. CASE StopStart(p) \/ StopNext(p) \/ StopOffchainEnd(p) \/ Clean(p) \/ ChainDownStart(p)
             \/ RemoveChain(p)
  BY <1>8, StopStartMoves, StopNextMoves, StopEndMoves, ChainDownStartMoves
     DEF StopStart, StopNext, StopOffchainEnd, Clean, ChainDownStart, RemoveChain, In
<1>9. CASE CallFails(p) \/ Crash(p)
  BY <1>9, FailureMoves DEF CallFails, Crash
<1> QED
  BY <1>1, <1>2, <1>3, <1>4, <1>5, <1>6, <1>7, <1>8, <1>9 DEF Advance, Failure

-----------------------------------------------------------------------------
(***************************************************************************)
(* Type correctness: the variables other than the stacks.                  *)
(***************************************************************************)
ReleaseOK == /\ DOMAIN release = Services
             /\ \A s \in Services : release[s] \in [NamesOf[s] -> Contents \cup {"none"}]

DataOK ==
    /\ running \in [Services -> BOOLEAN] /\ image \in [Services -> BOOLEAN]
    /\ multi \in {"none", Asked}
    /\ deployed \subseteq Components
    /\ source \in [Services -> {Asked, "config", "hardcoded"}]
    /\ pushed \in [Services -> {"none", Asked, "config", "hardcoded"}]
    /\ ReleaseOK
    /\ ns \in [Services -> {"absent", "active", "terminating"}]
    /\ secret \in [Services -> BOOLEAN]

HistoryOK ==
    /\ workload \in Workloads
    /\ commands \in 0 .. MaxCommands
    /\ faults \in 0 .. workload.faults
    /\ mark \in [Invocations -> 0 .. workload.faults]

Types == StackOK /\ DataOK /\ HistoryOK

\* The parts make up the type invariant.
LEMMA TypesSuffice == Types => TypeOK
BY DEF Types, TypeOK, StackOK, DataOK, HistoryOK, ReleaseOK, Outcomes

\* An image and a release hold code.
LEMMA ImageHasContent ==
  ASSUME DataOK, NEW f \in Frames, f.svc \in Services
  PROVE  Image(f) \in Contents \cup {"none"}
BY DEF Image, DataOK, Frames, Contents, Asked

\* What creating a namespace changes.
LEMMA CreatedFacts ==
  ASSUME DataOK, NEW s \in Services
  PROVE  /\ Created(s) \in [Services -> {"absent", "active", "terminating"}]
         /\ Created(s)[s] = "active" \/ (ns[s] = "terminating" /\ Created(s)[s] = "terminating")
         /\ \A t \in Services : t # s => Created(s)[t] = ns[t]
         /\ \A t \in Services : ns[t] = "active" => Created(s)[t] = "active"
BY DEF Created, DataOK

\* What setting one release changes.
LEMMA SetReleaseFacts ==
  ASSUME ReleaseOK, NEW s \in Services, NEW r, r.name \in NamesOf[s],
         NEW content \in Contents \cup {"none"}, SetRelease(s, r, content)
  PROVE  /\ ReleaseOK'
         /\ \A t \in Services : t # s => release'[t] = release[t]
         /\ \A n \in NamesOf[s] : release'[s][n] = IF n = r.name THEN content ELSE release[s][n]
<1>1. release' = [release EXCEPT ![s] = [release[s] EXCEPT ![r.name] = content]]
  BY DEF SetRelease
<1>2. DOMAIN release = Services
  BY DEF ReleaseOK
<1>3. release[s] \in [NamesOf[s] -> Contents \cup {"none"}]
  BY DEF ReleaseOK
<1>4. /\ DOMAIN release' = Services
      /\ release'[s] = [release[s] EXCEPT ![r.name] = content]
      /\ \A t \in Services : t # s => release'[t] = release[t]
  BY <1>1, <1>2
<1>5. release'[s] \in [NamesOf[s] -> Contents \cup {"none"}]
  BY <1>3, <1>4
<1> QED
  BY <1>3, <1>4, <1>5 DEF ReleaseOK

Unchanged == UNCHANGED <<state, code, cluster>>

\* A step that changes nothing of the data.
LEMMA UnchangedData ==
  ASSUME DataOK, Unchanged
  PROVE  DataOK'
BY DEF Unchanged, DataOK, ReleaseOK, state, code, cluster

\* A helm call that has content to install, or nothing.
LEMMA HelmData ==
  ASSUME Types, NEW p \in Invocations,
         HelmInstall(p) \/ HelmRefused(p) \/ HelmFails(p) \/ HelmUninstall(p)
  PROVE  ReleaseOK'
<1> DEFINE f == Top(p)
           r == NextRelease(f)
           content == IF r.image THEN Image(f) ELSE "published"
<1>1. CASE ~HelmUninstall(p)
  <2>1. /\ f \in Frames /\ WellFormed(f) /\ f.cmd = "up" /\ f.todo # {}
        /\ f.svc \in Services /\ r.name \in NamesOf[f.svc]
    BY <1>1, InFacts, NextReleaseIsOne DEF Types, HelmInstall, HelmRefused, HelmFails, WellFormed
  <2>2. content \in Contents \cup {"none"}
    BY <2>1, ImageHasContent DEF Types, Contents
  <2> HIDE DEF content
  <2>3. \/ SetRelease(f.svc, r, content) \/ SetRelease(f.svc, r, "none") \/ UNCHANGED release
    BY <1>1 DEF HelmInstall, HelmRefused, HelmFails, HelmFailed, content
  <2> HIDE DEF f, r
  <2> QED
    BY <2>1, <2>2, <2>3, SetReleaseFacts DEF Types, DataOK, ReleaseOK
<1>2. CASE HelmUninstall(p)
  <2>1. /\ f \in Frames /\ WellFormed(f) /\ f.cmd = "down" /\ f.todo # {}
        /\ f.svc \in Services /\ r.name \in NamesOf[f.svc]
    BY <1>2, InFacts, NextReleaseIsOne DEF Types, HelmUninstall, WellFormed
  <2>2. SetRelease(f.svc, r, "none")
    BY <1>2 DEF HelmUninstall
  <2> HIDE DEF f, r
  <2> QED
    BY <2>1, <2>2, SetReleaseFacts DEF Types, DataOK
<1> QED
  BY <1>1, <1>2

\* Where a step of up or down finds its service.
LEMMA ServiceFacts ==
  ASSUME StackOK, NEW p \in Invocations, Busy(p), Top(p).cmd \in {"up", "down", "build"}
  PROVE  Top(p).svc \in Services /\ (Top(p).cmd = "build" => Top(p).svc \in DOMAIN Build)
BY TopFacts, TableFacts DEF WellFormed

\* The data keeps its type ...
LEMMA StepsKeepData ==
  ASSUME Types, NEW p \in Invocations, Advance(p) \/ Failure(p)
  PROVE  DataOK'
<1> USE DEF Types
<1>1. CASE UpStart(p) \/ UpStarts(p) \/ UpImage(p) \/ DownStart(p) \/ DownListing(p) \/ DownThen(p)
             \/ DownEnd(p)
  BY <1>1, UnchangedData DEF UpStart, UpStarts, UpImage, DownStart, DownListing, DownThen, DownEnd,
     Unchanged
<1>2. CASE RebuildBuild(p) \/ RebuildDown(p) \/ RebuildUp(p) \/ RebuildEnd(p) \/ StopStart(p)
             \/ StopNext(p) \/ StopOffchainEnd(p) \/ ChainDownStart(p)
  BY <1>2, UnchangedData DEF RebuildBuild, RebuildDown, RebuildUp, RebuildEnd, StopStart, StopNext,
     StopOffchainEnd, ChainDownStart, Unchanged
<1>3. CASE PushPullSecretFails(p) \/ CallFails(p) \/ Crash(p)
  BY <1>3, UnchangedData DEF PushPullSecretFails, CallFails, Crash, Unchanged
<1>4. CASE UpStarted(p) \/ UpRelease(p)
  <2>1. Top(p).svc \in Services
    BY <1>4, ServiceFacts DEF UpStarted, UpRelease, In
  <2>2. ns' = Created(Top(p).svc) \/ ns' = ns
    BY <1>4 DEF UpStarted, UpRelease
  <2>3. UNCHANGED <<state, code, release, secret>>
    BY <1>4 DEF UpStarted, UpRelease
  <2> QED
    BY <2>1, <2>2, <2>3, CreatedFacts DEF DataOK, ReleaseOK, state, code
<1>5. CASE PushPullSecret(p)
  BY <1>5 DEF PushPullSecret, DataOK, ReleaseOK, state, code, In
<1>6. CASE HelmInstall(p)
  <2>1. Top(p).svc \in Services
    BY <1>6, ServiceFacts DEF HelmInstall, In
  <2>2. ns' = Created(Top(p).svc) /\ UNCHANGED <<state, code, secret>>
    BY <1>6 DEF HelmInstall
  <2>3. ReleaseOK'
    BY <1>6, HelmData
  <2> QED
    BY <2>1, <2>2, <2>3, CreatedFacts DEF DataOK, state, code
<1>7. CASE HelmRefused(p) \/ HelmFails(p) \/ HelmUninstall(p)
  <2>1. UNCHANGED <<state, code, ns, secret>>
    BY <1>7 DEF HelmRefused, HelmFails, HelmUninstall
  <2>2. ReleaseOK'
    BY <1>7, HelmData
  <2> QED
    BY <2>1, <2>2 DEF DataOK, state, code
<1>8. CASE UpRecord(p) \/ Forget(p) \/ DownKeepingDb(p)
  BY <1>8 DEF UpRecord, Forget, DownKeepingDb, DataOK, ReleaseOK, code, cluster
<1>9. CASE BuildStart(p)
  <2>1. Top(p).svc \in DOMAIN Build
    BY <1>9, ServiceFacts DEF BuildStart, In
  <2> QED
    BY <1>9, <2>1, TableFacts DEF BuildStart, DataOK, ReleaseOK, state, cluster
<1>10. CASE BuildPush(p)
  <2>1. Top(p).svc \in DOMAIN Build
    BY <1>10, ServiceFacts DEF BuildPush, In
  <2> QED
    BY <1>10, <2>1, TableFacts DEF BuildPush, DataOK, ReleaseOK, state, cluster
<1>11. CASE BuildMark(p)
  BY <1>11 DEF BuildMark, DataOK, ReleaseOK, code, cluster
<1>12. CASE BuildMulti(p)
  <2>1. Top(p).ref \in {"none", Asked}
    BY <1>12, InFacts DEF BuildMulti, Frames
  <2> QED
    BY <1>12, <2>1 DEF BuildMulti, DataOK, ReleaseOK, code, cluster
<1>13. CASE DeleteNamespace(p)
  BY <1>13 DEF DeleteNamespace, DataOK, ReleaseOK, state, code
<1>14. CASE RebuildCheckout(p)
  <2>1. Top(p).ref = Asked
    BY <1>14, RebuildFacts DEF RebuildCheckout, In
  <2> QED
    BY <1>14, <2>1 DEF RebuildCheckout, DataOK, ReleaseOK, state, cluster
<1>15. CASE Clean(p)
  BY <1>15 DEF Clean, DataOK, ReleaseOK, cluster
<1>16. CASE RemoveChain(p)
  BY <1>16 DEF RemoveChain, DataOK, ReleaseOK, code, cluster
<1> QED
  BY <1>1, <1>2, <1>3, <1>4, <1>5, <1>6, <1>7, <1>8, <1>9, <1>10, <1>11, <1>12, <1>13, <1>14,
     <1>15, <1>16 DEF Advance, Failure

\* A step counts a failure or none.
LEMMA HistoryMoves ==
  ASSUME NEW p \in Invocations, Advance(p) \/ Failure(p)
  PROVE  /\ UNCHANGED <<workload, commands, mark>>
         /\ Advance(p) => faults' = faults
         /\ Failure(p) => faults < workload.faults /\ faults' = faults + 1
<1>1. ASSUME Failure(p) PROVE Fault
  BY <1>1 DEF Failure, PushPullSecretFails, HelmFails, CallFails, Crash
<1>2. ASSUME UpStart(p) \/ UpStarts(p) \/ UpStarted(p) \/ UpImage(p) \/ UpRelease(p)
             \/ PushPullSecret(p) \/ HelmInstall(p) \/ HelmRefused(p) \/ UpRecord(p)
      PROVE  UNCHANGED history
  BY <1>2 DEF UpStart, UpStarts, UpStarted, UpImage, UpRelease, PushPullSecret, HelmInstall,
     HelmRefused, UpRecord
<1>3. ASSUME BuildStart(p) \/ BuildPush(p) \/ BuildMark(p) \/ BuildMulti(p) \/ DownStart(p)
             \/ DownListing(p) \/ HelmUninstall(p) \/ DeleteNamespace(p) \/ Forget(p)
             \/ DownKeepingDb(p) \/ DownThen(p) \/ DownEnd(p)
      PROVE  UNCHANGED history
  BY <1>3 DEF BuildStart, BuildPush, BuildMark, BuildMulti, DownStart, DownListing, HelmUninstall,
     DeleteNamespace, Forget, DownKeepingDb, DownThen, DownEnd
<1>4. ASSUME RebuildCheckout(p) \/ RebuildBuild(p) \/ RebuildDown(p) \/ RebuildUp(p) \/ RebuildEnd(p)
             \/ StopStart(p) \/ StopNext(p) \/ StopOffchainEnd(p) \/ Clean(p) \/ ChainDownStart(p)
             \/ RemoveChain(p)
      PROVE  UNCHANGED history
  BY <1>4 DEF RebuildCheckout, RebuildBuild, RebuildDown, RebuildUp, RebuildEnd, StopStart, StopNext,
     StopOffchainEnd, Clean, ChainDownStart, RemoveChain
<1> QED
  BY <1>1, <1>2, <1>3, <1>4 DEF Advance, Fault, history

\* ... and so do the counters.
LEMMA StepsKeepHistory ==
  ASSUME HistoryOK, NEW p \in Invocations, Advance(p) \/ Failure(p)
  PROVE  HistoryOK'
<1>1. workload.faults \in Nat
  BY WorkloadsAssumption DEF HistoryOK
<1>2. /\ UNCHANGED <<workload, commands, mark>>
      /\ faults' = faults \/ (faults < workload.faults /\ faults' = faults + 1)
  BY HistoryMoves
<1> QED
  BY <1>1, <1>2 DEF HistoryOK

(***************************************************************************)
(* What may be asked for is well-formed.                                   *)
(***************************************************************************)
LEMMA RequestIsWellFormed ==
  ASSUME NEW c, Requested(c)
  PROVE  c \in Frames /\ WellFormed(c) /\ c.at = "start"
<1>1. PICK s \in Services, opts \in SUBSET Options :
         \/ /\ c = Command("up", s, opts, "none") /\ opts \subseteq {"force", "build"}
            /\ "build" \in opts => s \in DOMAIN Build
         \/ c = BuildCommand(s) /\ s \in DOMAIN Build
         \/ /\ c = DownCommand(s, opts) /\ opts \subseteq {"force", "keepDb"}
            /\ "keepDb" \in opts => s = "oracle"
         \/ /\ c = Command("rebuild", s, opts, Asked) /\ opts \subseteq {"skipDeploy"}
            /\ s \in Rebuildable
         \/ /\ c \in {StopCommand(opts), StopOffchainCommand(opts)} /\ opts \subseteq {"force", "silent"}
  BY DEF Requested, Options
<1>2. CASE c = Command("up", s, opts, "none") /\ opts \subseteq {"force", "build"}
           /\ ("build" \in opts => s \in DOMAIN Build)
  <2>1. "up" \in Cmds /\ "none" \in {"none", Asked} /\ s \in Services \cup {"devnet", "chain"}
    BY DEF Cmds
  <2>2. c \in Frames /\ c.cmd = "up" /\ c.svc = s /\ c.opts = opts /\ c.at = "start" /\ c.todo = {}
    BY <1>1, <1>2, <2>1, CommandIsFrame
  <2> QED
    BY <1>2, <2>2 DEF WellFormed, Positions
<1>3. CASE c = BuildCommand(s) /\ s \in DOMAIN Build
  BY <1>3, BuildIsWellFormed DEF BuildCommand, Command
<1>4. CASE c = DownCommand(s, opts) /\ opts \subseteq {"force", "keepDb"}
           /\ ("keepDb" \in opts => s = "oracle")
  BY <1>4, DownIsWellFormed DEF DownCommand, Command
<1>5. CASE c = Command("rebuild", s, opts, Asked) /\ opts \subseteq {"skipDeploy"} /\ s \in Rebuildable
  <2>1. /\ c \in Frames /\ c.cmd = "rebuild" /\ c.svc = s /\ c.opts = opts /\ c.at = "start"
        /\ c.ref = Asked
    BY <1>5, CommandIsFrame DEF Cmds
  <2> QED
    BY <1>5, <2>1 DEF WellFormed, Positions
<1>6. CASE /\ c = StopCommand(opts) \/ c = StopOffchainCommand(opts)
           /\ opts \subseteq {"force", "silent"}
  <2>1. PICK cmd \in {"stop", "stopOffchain"} : c = Command(cmd, "devnet", opts, "none")
    BY <1>6 DEF StopCommand, StopOffchainCommand
  <2>2. cmd \in Cmds /\ "devnet" \in Services \cup {"devnet", "chain"} /\ "none" \in {"none", Asked}
    BY DEF Cmds
  <2>3. /\ c \in Frames /\ c.cmd = cmd /\ c.opts = opts /\ c.at = "start" /\ c.todo = {}
    BY <2>1, <2>2, CommandIsFrame
  <2> QED
    BY <1>6, <2>1, <2>3 DEF WellFormed, Positions
<1> QED
  BY <1>1, <1>2, <1>3, <1>4, <1>5, <1>6

\* The stack of a command that has been issued.
Issued(p, c) == /\ stack' \in [Invocations -> Seq(Frames)]
                /\ \A q \in Invocations : q # p => stack'[q] = stack[q]
                /\ Len(stack'[p]) = 1 /\ stack'[p][1] = c

\* A command is issued on an empty stack.
LEMMA Issues ==
  ASSUME Types, NEW p \in Invocations, Issue(p)
  PROVE  /\ \E c \in workload.commands :
               /\ Requested(c) /\ c \in Frames /\ WellFormed(c) /\ c.at = "start"
               /\ Issued(p, c)
         /\ StackOK'
<1>1. PICK c \in workload.commands : stack' = [stack EXCEPT ![p] = <<c>>]
  BY DEF Issue
<1>2. Requested(c)
  BY WorkloadsAssumption DEF Types, HistoryOK
<1>3. c \in Frames /\ WellFormed(c) /\ c.at = "start"
  BY <1>2, RequestIsWellFormed
<1>4. stack \in [Invocations -> Seq(Frames)]
  BY DEF Types, StackOK
<1>5. <<c>> \in Seq(Frames) /\ Len(<<c>>) = 1 /\ <<c>>[1] = c
  BY <1>3
<1>6. stack'[p] = <<c>> /\ \A q \in Invocations : q # p => stack'[q] = stack[q]
  BY <1>1, <1>4
<1>7. stack' \in [Invocations -> Seq(Frames)]
  BY <1>1, <1>4, <1>5
<1>8. \A q \in Invocations : \A i \in DOMAIN (stack'[q]) : WellFormed(stack'[q][i])
  <2>1. DOMAIN (stack'[p]) = {1}
    BY <1>5, <1>6
  <2> QED
    BY <1>3, <1>5, <1>6, <2>1 DEF Types, StackOK
<1>9. outcome' \in [Invocations -> Outcomes]
  BY DEF Issue, Types, StackOK, Outcomes
<1> QED
  BY <1>2, <1>3, <1>5, <1>6, <1>7, <1>8, <1>9 DEF Issued, StackOK

\* Nothing runs when a terminated namespace goes, or the components are deployed.
LEMMA OthersKeepTypes ==
  ASSUME Types, (\E s \in Services : Terminated(s)) \/ Deploy \/ UNCHANGED vars
  PROVE  Types'
<1>1. CASE \E s \in Services : Terminated(s)
  <2>1. PICK s \in Services : Terminated(s)
    BY <1>1
  <2>2. /\ ns' = [ns EXCEPT ![s] = "absent"] /\ secret' = [secret EXCEPT ![s] = FALSE]
        /\ release' = [release EXCEPT ![s] = NoReleases(s)]
        /\ UNCHANGED <<state, code, control, history>>
    BY <2>1 DEF Terminated
  <2>3. NoReleases(s) \in [NamesOf[s] -> Contents \cup {"none"}]
    BY DEF NoReleases
  <2>4. ReleaseOK'
    BY <2>2, <2>3 DEF Types, DataOK, ReleaseOK
  <2>5. DataOK'
    BY <2>2, <2>4 DEF Types, DataOK, state, code
  <2>6. StackOK' /\ HistoryOK'
    BY <2>2 DEF Types, StackOK, HistoryOK, control, history
  <2> QED
    BY <2>5, <2>6 DEF Types
<1>2. CASE Deploy
  <2>1. deployed' = workload.deployed /\ commands < MaxCommands /\ commands' = commands + 1
        /\ UNCHANGED <<running, image, multi, code, cluster, control, workload, faults, mark>>
    BY <1>2 DEF Deploy
  <2>2. workload.deployed \subseteq Components
    BY WorkloadsAssumption DEF Types, HistoryOK
  <2>3. DataOK'
    BY <2>1, <2>2 DEF Types, DataOK, ReleaseOK, code, cluster
  <2>4. StackOK'
    BY <2>1 DEF Types, StackOK, control
  <2>5. HistoryOK'
    BY <2>1, WorkloadsAssumption DEF Types, HistoryOK
  <2> QED
    BY <2>3, <2>4, <2>5 DEF Types
<1>3. CASE UNCHANGED vars
  <2>1. UNCHANGED <<state, code, cluster, control, history>>
    BY <1>3 DEF vars
  <2>2. DataOK'
    BY <2>1, UnchangedData DEF Types, Unchanged
  <2>3. StackOK' /\ HistoryOK'
    BY <2>1 DEF Types, StackOK, HistoryOK, control, history
  <2> QED
    BY <2>2, <2>3 DEF Types
<1> QED
  BY <1>1, <1>2, <1>3

\* The type invariant holds at the start ...
LEMMA TypesInit == Init => Types
<1> SUFFICES ASSUME Init PROVE Types
  OBVIOUS
<1>1. workload \in Workloads /\ workload.deployed \subseteq Components /\ workload.faults \in Nat
  BY WorkloadsAssumption DEF Init
<1>2. ReleaseOK
  BY DEF Init, ReleaseOK, Contents
<1>3. DataOK
  BY <1>1, <1>2 DEF Init, DataOK
<1>4. HistoryOK
  BY <1>1, WorkloadsAssumption DEF Init, HistoryOK
<1>5. StackOK
  BY DEF Init, StackOK, Outcomes
<1> QED
  BY <1>3, <1>4, <1>5 DEF Types

\* ... and is kept by every step.
LEMMA TypesNext == Types /\ [Next]_vars => Types'
<1> SUFFICES ASSUME Types, [Next]_vars PROVE Types'
  OBVIOUS
<1>1. ASSUME NEW p \in Invocations, Issue(p) PROVE Types'
  <2>1. StackOK'
    BY <1>1, Issues
  <2>2. DataOK'
    BY <1>1, UnchangedData DEF Issue, Types, Unchanged
  <2>3. HistoryOK'
    BY <1>1, WorkloadsAssumption DEF Issue, Types, HistoryOK
  <2> QED
    BY <2>1, <2>2, <2>3 DEF Types
<1>2. ASSUME NEW p \in Invocations, Advance(p) \/ Failure(p) PROVE Types'
  <2>1. StackOK'
    BY <1>2, StepsMove, MovesKeepStack DEF Types, DataOK
  <2>2. DataOK' /\ HistoryOK'
    BY <1>2, StepsKeepData, StepsKeepHistory DEF Types
  <2> QED
    BY <2>1, <2>2 DEF Types
<1> QED
  BY <1>1, <1>2, OthersKeepTypes DEF Next

(***************************************************************************)
(* The state file, the registry, the cluster and the stacks of commands    *)
(* hold what the handlers expect of them, however many invocations run.    *)
(***************************************************************************)
THEOREM TypeCorrect == Spec => []TypeOK
<1>1. Spec => []Types
  BY TypesInit, TypesNext, PTL DEF Spec
<1> QED
  BY <1>1, TypesSuffice, PTL

=============================================================================
