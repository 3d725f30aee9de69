---------------------- MODULE DevnetServicesSoloProofs ----------------------
(***************************************************************************)
(* What TLAPS proves of commands that are run one at a time (Solo): the    *)
(* safety properties of DevnetServices, for every table that keeps to its  *)
(* assumptions, every workload and any number of commands and failures.    *)
(* Nothing keeps two invocations apart, and with two none of the six       *)
(* holds: one takes down what the other has just installed or recorded.    *)
(***************************************************************************)
EXTENDS DevnetServicesProofs

Solo == \A p, q \in Invocations : p = q

-----------------------------------------------------------------------------
(***************************************************************************)
(* A frame that is not the top has called the one above it.                *)
(***************************************************************************)
Paired == \A p \in Invocations :
             \A i \in 1 .. Len(stack[p]) - 1 : CalledBy(stack[p][i], stack[p][i + 1])

\* A frame that has gone on is still what its caller called.
LEMMA SameCallIsCalled ==
  ASSUME NEW f, NEW c, NEW d, CalledBy(f, c), SameCall(c, d)
  PROVE  CalledBy(f, d)
BY DEF CalledBy, SameCall, UpCommand, BuildCommand, DownCommand, Command

\* Moves keep callers and called together.
LEMMA MovesKeepPairs ==
  ASSUME StackOK, Paired, NEW p \in Invocations, Busy(p), Moves(p)
  PROVE  Paired'
<1>1. Len(stack[p]) \in Nat /\ Len(stack[p]) > 0 /\ Top(p) = stack[p][Len(stack[p])]
  BY TopFacts
<1>2. \A q \in Invocations : q # p => stack'[q] = stack[q]
  BY DEF Moves, Replaces, Adds, Cuts, Keeps
<1>3. ASSUME NEW i \in 1 .. Len(stack'[p]) - 1 PROVE CalledBy(stack'[p][i], stack'[p][i + 1])
  <2>1. CASE \E f \in Frames : Replaces(p, f) /\ SameCall(Top(p), f)
    <3>1. PICK f \in Frames : Replaces(p, f) /\ SameCall(Top(p), f)
      BY <2>1
    <3>2. /\ \A j \in 1 .. Len(stack[p]) - 1 : stack'[p][j] = stack[p][j]
          /\ Len(stack'[p]) = Len(stack[p]) /\ stack'[p][Len(stack[p])] = f
      BY <3>1 DEF Replaces, Keeps
    <3>3. CalledBy(stack[p][i], stack[p][i + 1])
      BY <1>1, <3>2 DEF Paired
    <3>4. CASE i + 1 = Len(stack[p])
      BY <1>1, <3>1, <3>2, <3>3, <3>4, SameCallIsCalled
    <3>5. CASE i + 1 # Len(stack[p])
      BY <1>1, <3>2, <3>3, <3>5
    <3> QED
      BY <3>4, <3>5
  <2>2. CASE \E f, c \in Frames : Adds(p, f, c) /\ SameCall(Top(p), f) /\ CalledBy(f, c)
    <3>1. PICK f \in Frames, c \in Frames :
             Adds(p, f, c) /\ SameCall(Top(p), f) /\ CalledBy(f, c)
      BY <2>2
    <3>2. /\ \A j \in 1 .. Len(stack[p]) - 1 : stack'[p][j] = stack[p][j]
          /\ Len(stack'[p]) = Len(stack[p]) + 1 /\ stack'[p][Len(stack[p])] = f
          /\ stack'[p][Len(stack[p]) + 1] = c
      BY <3>1 DEF Adds, Keeps
    <3>3. CASE i = Len(stack[p])
      BY <3>1, <3>2, <3>3
    <3>4. CASE i # Len(stack[p])
      <4>1. i \in 1 .. Len(stack[p]) - 1
        BY <1>1, <3>2, <3>4
      <4>2. CalledBy(stack[p][i], stack[p][i + 1])
        BY <4>1 DEF Paired
      <4>3. CASE i + 1 = Len(stack[p])
        BY <1>1, <3>1, <3>2, <4>1, <4>2, <4>3, SameCallIsCalled
      <4>4. CASE i + 1 # Len(stack[p])
        <5>1. i + 1 \in 1 .. Len(stack[p]) - 1
          BY <1>1, <4>1, <4>4
        <5>2. stack'[p][i] = stack[p][i] /\ stack'[p][i + 1] = stack[p][i + 1]
          BY <3>2, <4>1, <5>1
        <5> QED
          BY <4>2, <5>2
      <4> QED
        BY <4>3, <4>4
    <3> QED
      BY <3>3, <3>4
  <2>3. CASE \E n \in 0 .. Len(stack[p]) - 1 : Cuts(p, n)
    BY <1>1, <2>3 DEF Cuts, Keeps, Paired
  <2> QED
    BY <2>1, <2>2, <2>3 DEF Moves
<1> QED
  BY <1>2, <1>3 DEF Paired

\* Where a handler waits for the command it has called.
Waits == {"started", "image", "end", "down", "up", "next", "remove"}

\* A frame that is not the top waits, and is no build.
LEMMA CallersWait ==
  ASSUME StackOK, Paired, NEW p \in Invocations, NEW i \in 1 .. Len(stack[p]) - 1
  PROVE  stack[p][i].at \in Waits /\ stack[p][i].cmd \notin {"build", "buildMulti"}
<1>1. CalledBy(stack[p][i], stack[p][i + 1])
  BY DEF Paired
<1> QED
  BY <1>1 DEF CalledBy, Waits

-----------------------------------------------------------------------------
(***************************************************************************)
(* What is on top after a step.                                            *)
(***************************************************************************)
LEMMA NewTop ==
  ASSUME StackOK, NEW p \in Invocations, Busy(p), NEW f, Become(p, f)
  PROVE  /\ Busy(p)' /\ (Top(p))' = f
         /\ Len(stack'[p]) = Len(stack[p])
         /\ \A i \in 1 .. Len(stack[p]) - 1 : stack'[p][i] = stack[p][i]
         /\ stack'[p][Len(stack[p])] = f
<1> DEFINE S == Frames \cup {f}
           n == Len(stack[p])
<1>1. stack[p] \in Seq(Frames) /\ n \in Nat /\ n > 0
  BY StackFacts, TopFacts
<1>2. stack[p] \in Seq(S)
  BY <1>1
<1>3. stack' = [stack EXCEPT ![p] = With(p, f)] /\ stack \in [Invocations -> Seq(Frames)]
  BY DEF Become, StackOK
<1>4. stack'[p] = [stack[p] EXCEPT ![n] = f]
  BY <1>3 DEF With
<1>5. f \in S /\ n \in 1 .. n
  BY <1>1
<1> HIDE DEF S
<1>6. /\ [stack[p] EXCEPT ![n] = f] \in Seq(S) /\ Len([stack[p] EXCEPT ![n] = f]) = n
      /\ \A i \in 1 .. n : [stack[p] EXCEPT ![n] = f][i] = IF i = n THEN f ELSE stack[p][i]
  BY <1>2, <1>5, ExceptSeq
<1>7. stack'[p] # <<>>
  BY <1>1, <1>4, <1>6, EmptySeq
<1> QED
  BY <1>1, <1>4, <1>6, <1>7 DEF Busy, Top

\* A command is called: it is on top, its caller below it.
LEMMA NewCall ==
  ASSUME StackOK, NEW p \in Invocations, Busy(p), NEW f, NEW c, Call(p, f, c)
  PROVE  /\ Busy(p)' /\ (Top(p))' = c
         /\ Len(stack'[p]) = Len(stack[p]) + 1
         /\ \A i \in 1 .. Len(stack[p]) - 1 : stack'[p][i] = stack[p][i]
         /\ stack'[p][Len(stack[p])] = f
         /\ stack'[p][Len(stack[p]) + 1] = c
<1> DEFINE S == Frames \cup {f, c}
           n == Len(stack[p])
           w == [stack[p] EXCEPT ![n] = f]
<1>1. stack[p] \in Seq(Frames) /\ n \in Nat /\ n > 0
  BY StackFacts, TopFacts
<1>2. stack[p] \in Seq(S)
  BY <1>1
<1>3. stack' = [stack EXCEPT ![p] = Append(With(p, f), c)] /\ stack \in [Invocations -> Seq(Frames)]
  BY DEF Call, StackOK
<1>4. stack'[p] = Append(w, c)
  BY <1>3 DEF With
<1>5. f \in S /\ n \in 1 .. n /\ c \in S
  BY <1>1
<1> HIDE DEF S
<1>6. w \in Seq(S) /\ Len(w) = n /\ \A i \in 1 .. n : w[i] = IF i = n THEN f ELSE stack[p][i]
  BY <1>2, <1>5, ExceptSeq
<1> HIDE DEF w
<1>7. /\ Append(w, c) \in Seq(S) /\ Len(Append(w, c)) = n + 1
      /\ \A i \in 1 .. n : Append(w, c)[i] = w[i]
      /\ Append(w, c)[n + 1] = c
  BY <1>5, <1>6, AppendProperties
<1>8. stack'[p] # <<>>
  BY <1>1, <1>4, <1>7, EmptySeq
<1> QED
  BY <1>1, <1>4, <1>6, <1>7, <1>8 DEF Busy, Top

\* The stack is cut: a frame that waited is on top, or nothing is left.
LEMMA NewCut ==
  ASSUME StackOK, Paired, NEW p \in Invocations, NEW n \in 0 .. Len(stack[p]) - 1, Cuts(p, n)
  PROVE  /\ Len(stack'[p]) = n /\ \A i \in 1 .. n : stack'[p][i] = stack[p][i]
         /\ Busy(p)' <=> n > 0
         /\ Busy(p)' => /\ (Top(p))' = stack[p][n]
                        /\ (Top(p))'.at \in Waits /\ (Top(p))'.cmd \notin {"build", "buildMulti"}
<1>1. stack[p] \in Seq(Frames) /\ Len(stack[p]) \in Nat
  BY StackFacts
<1>2. stack'[p] \in Seq(Frames) /\ Len(stack'[p]) = n /\ \A i \in 1 .. n : stack'[p][i] = stack[p][i]
  BY DEF Cuts, Keeps
<1>3. stack'[p] = <<>> <=> n = 0
  BY <1>2, EmptySeq
<1>4. n > 0 => n \in 1 .. Len(stack[p]) - 1
  BY <1>1
<1> QED
  BY <1>2, <1>3, <1>4, CallersWait DEF Busy, Top

\* Whoever gets control back was waiting.
LEMMA NewReturn ==
  ASSUME StackOK, Paired, NEW p \in Invocations, Busy(p), Return(p) \/ Throw(p) \/ stack'[p] = <<>>
  PROVE  Busy(p)' => (Top(p))'.at \in Waits /\ (Top(p))'.cmd \notin {"build", "buildMulti"}
<1>1. CASE Return(p)
  <2>1. Len(stack[p]) - 1 \in 0 .. Len(stack[p]) - 1
    BY TopFacts
  <2> QED
    BY <1>1, <2>1, Returns, NewCut
<1>2. CASE Throw(p)
  BY <1>2, Throws, NewCut
<1>3. CASE stack'[p] = <<>>
  BY <1>3 DEF Busy
<1> QED
  BY <1>1, <1>2, <1>3

-----------------------------------------------------------------------------
(***************************************************************************)
(* Where a step does something to the cluster or the registry that another *)
(* step relies on.                                                         *)
(***************************************************************************)
Hot == {"release", "secret", "helm", "mark", "uninstall", "forget"}

Cools(p) == Busy(p)' => (Top(p))'.at \notin Hot

\* No step leaves such a place on top but those StepTops lists: not a call, ...
LEMMA CallCools ==
  ASSUME StackOK, NEW p \in Invocations, Busy(p), NEW f, NEW c, Call(p, f, c), c.at = "start"
  PROVE  Cools(p)
<1>1. (Top(p))' = c
  BY NewCall
<1> QED
  BY <1>1 DEF Cools, Hot

\* ... nor a frame that goes on elsewhere, ...
LEMMA BecomeCools ==
  ASSUME StackOK, NEW p \in Invocations, Busy(p), NEW f, Become(p, f), f.at \notin Hot
  PROVE  Cools(p)
<1>1. (Top(p))' = f
  BY NewTop
<1> QED
  BY <1>1 DEF Cools

\* ... (or, in short, with GoTo) ...
LEMMA GoToCools ==
  ASSUME StackOK, NEW p \in Invocations, Busy(p), NEW a, GoTo(p, a), a \notin Hot
  PROVE  Cools(p)
<1>1. Top(p) \in Frames /\ Become(p, [Top(p) EXCEPT !.at = a])
  BY TopFacts DEF GoTo
<1>2. [Top(p) EXCEPT !.at = a].at = a
  BY <1>1, FrameFacts
<1> QED
  BY <1>1, <1>2, BecomeCools

\* ... nor a return or an error; ...
LEMMA ReturnCools ==
  ASSUME StackOK, Paired, NEW p \in Invocations, Busy(p), Return(p) \/ Throw(p) \/ stack'[p] = <<>>
  PROVE  Cools(p)
BY NewReturn DEF Cools, Hot, Waits

\* ... so none of these steps of up, ...
LEMMA UpCools ==
  ASSUME StackOK, Paired, NEW p \in Invocations,
         UpStart(p) \/ UpStarts(p) \/ UpStarted(p) \/ UpRecord(p)
  PROVE  Cools(p)
<1>1. Busy(p) /\ Top(p) \in Frames
  BY InFacts DEF UpStart, UpStarts, UpStarted, UpRecord
<1>2. CASE UpStart(p)
  <2>1. [Top(p) EXCEPT !.at = "starts", !.was = running[Top(p).svc]].at = "starts"
    BY <1>1, FrameFacts
  <2> QED
    BY <1>1, <1>2, <2>1, BecomeCools, ReturnCools DEF UpStart, Hot
<1>3. CASE UpStarts(p)
  <2>1. [Top(p) EXCEPT !.at = "started"].at = "started"
    BY <1>1, FrameFacts
  <2>2. \A d : UpCommand(d).at = "start"
    BY DEF UpCommand, Command
  <2> QED
    BY <1>1, <1>3, <2>1, <2>2, BecomeCools, CallCools DEF UpStarts, Hot
<1>4. CASE UpStarted(p)
  <2>1. [Top(p) EXCEPT !.at = "image"].at = "image"
    BY <1>1, FrameFacts
  <2>2. \A d : BuildCommand(d).at = "start"
    BY DEF BuildCommand, Command
  <2>3. \/ Throw(p) \/ Call(p, [Top(p) EXCEPT !.at = "image"], BuildCommand(Top(p).svc))
        \/ Become(p, [Top(p) EXCEPT !.at = "image"])
    BY <1>4 DEF UpStarted
  <2> QED
    BY <1>1, <2>1, <2>2, <2>3, BecomeCools, CallCools, ReturnCools DEF Hot
<1>5. CASE UpRecord(p)
  BY <1>1, <1>5, ReturnCools DEF UpRecord
<1> QED
  BY <1>2, <1>3, <1>4, <1>5

\* ... of build, ...
LEMMA BuildCools ==
  ASSUME StackOK, Paired, NEW p \in Invocations, BuildStart(p) \/ BuildMark(p) \/ BuildMulti(p)
  PROVE  Cools(p)
<1>1. Busy(p)
  BY DEF BuildStart, BuildMark, BuildMulti, In
<1>2. GoTo(p, "push") \/ Return(p) \/ Throw(p)
  BY DEF BuildStart, BuildMark, BuildMulti
<1> QED
  BY <1>1, <1>2, GoToCools, ReturnCools DEF Hot

\* ... of down, ...
LEMMA DownCools ==
  ASSUME StackOK, Paired, NEW p \in Invocations,
         DownStart(p) \/ Forget(p) \/ DownKeepingDb(p) \/ DownThen(p) \/ DownEnd(p)
  PROVE  Cools(p)
<1>1. Busy(p) /\ Top(p) \in Frames
  BY InFacts DEF DownStart, Forget, DownKeepingDb, DownThen, DownEnd
<1>2. CASE DownThen(p)
  <2>1. [Top(p) EXCEPT !.at = "end"].at = "end"
    BY <1>1, FrameFacts
  <2>2. \A d, opts : DownCommand(d, opts).at = "start"
    BY DEF DownCommand, Command
  <2> QED
    BY <1>1, <1>2, <2>1, <2>2, BecomeCools, CallCools DEF DownThen, Hot
<1>3. CASE ~DownThen(p)
  <2>1. GoTo(p, "list") \/ GoTo(p, "then") \/ Return(p)
    BY <1>3 DEF DownStart, Forget, DownKeepingDb, DownEnd
  <2> QED
    BY <1>1, <2>1, GoToCools, ReturnCools DEF Hot
<1> QED
  BY <1>2, <1>3

\* ... of rebuild ...
LEMMA RebuildCools ==
  ASSUME StackOK, Paired, NEW p \in Invocations,
         RebuildCheckout(p) \/ RebuildBuild(p) \/ RebuildDown(p) \/ RebuildUp(p) \/ RebuildEnd(p)
  PROVE  Cools(p)
<1>1. Busy(p)
  BY DEF RebuildCheckout, RebuildBuild, RebuildDown, RebuildUp, RebuildEnd, In
<1>2. GoTo(p, "build") \/ Return(p) \/ (\E f, c : Call(p, f, c) /\ c.at = "start")
  BY DEF RebuildCheckout, RebuildBuild, RebuildDown, RebuildUp, RebuildEnd, BuildCommand, DownCommand,
     Command
<1> QED
  BY <1>1, <1>2, GoToCools, ReturnCools, CallCools DEF Hot

\* ... or of the stops and of chain down.
LEMMA StopCools ==
  ASSUME StackOK, Paired, NEW p \in Invocations,
         StopStart(p) \/ StopNext(p) \/ StopOffchainEnd(p) \/ Clean(p) \/ ChainDownStart(p)
           \/ RemoveChain(p)
  PROVE  Cools(p)
<1>1. Busy(p) /\ Top(p) \in Frames
  BY TopFacts DEF StopStart, StopNext, StopOffchainEnd, Clean, ChainDownStart, RemoveChain, In
<1>2. CASE StopStart(p)
  <2>1. [Top(p) EXCEPT !.at = "next", !.todo = DOMAIN StopLists[Top(p).cmd]].at = "next"
    BY <1>1, FrameFacts
  <2> QED
    BY <1>1, <1>2, <2>1, BecomeCools DEF StopStart, Hot
<1>3. CASE ~StopStart(p)
  <2>1. Return(p) \/ (\E f, c : Call(p, f, c) /\ c.at = "start")
    BY <1>3 DEF StopNext, StopOffchainEnd, Clean, ChainDownStart, RemoveChain, DownCommand, Command
  <2> QED
    BY <1>1, <2>1, ReturnCools, CallCools
<1> QED
  BY <1>2, <1>3

\* p's command goes on: the top frame is at `at` now, with these places left.
Goes(p, at, todo) ==
    /\ Busy(p)' /\ Len(stack'[p]) = Len(stack[p])
    /\ \A i \in 1 .. Len(stack[p]) - 1 : stack'[p][i] = stack[p][i]
    /\ SameCall(Top(p), (Top(p))') /\ (Top(p))'.at = at /\ (Top(p))'.todo = todo

\* How the handlers go on, in terms of Goes.
LEMMA BecomeGoes ==
  ASSUME StackOK, NEW p \in Invocations, Busy(p), NEW f, Become(p, f), SameCall(Top(p), f),
         NEW at, f.at = at, NEW todo, f.todo = todo
  PROVE  Goes(p, at, todo)
BY NewTop DEF Goes

\* To another position.
LEMMA GoToGoes ==
  ASSUME StackOK, NEW p \in Invocations, Busy(p), NEW at \in Ats, GoTo(p, at)
  PROVE  Goes(p, at, Top(p).todo)
<1>1. Top(p) \in Frames /\ Become(p, [Top(p) EXCEPT !.at = at])
  BY TopFacts DEF GoTo
<1> DEFINE f == [Top(p) EXCEPT !.at = at]
<1>2. SameCall(Top(p), f) /\ f.at = at /\ f.todo = Top(p).todo
  BY <1>1, FrameAt
<1> HIDE DEF f
<1> QED
  BY <1>1, <1>2, BecomeGoes DEF f

\* Past a place of the loop.
LEMMA RestGoes ==
  ASSUME StackOK, NEW p \in Invocations, Busy(p), Become(p, Rest(p))
  PROVE  Goes(p, Top(p).at, Top(p).todo \ {Place(Top(p))})
BY RestFacts, BecomeGoes

\* Past a release of up, back to the head of the loop.
LEMMA NextGoes ==
  ASSUME StackOK, NEW p \in Invocations, Busy(p), Become(p, [Rest(p) EXCEPT !.at = "release"])
  PROVE  Goes(p, "release", Top(p).todo \ {Place(Top(p))})
<1> DEFINE f == [Rest(p) EXCEPT !.at = "release"]
<1>1. /\ Rest(p) \in Frames /\ SameCall(Top(p), Rest(p))
      /\ Rest(p).todo = Top(p).todo \ {Place(Top(p))}
  BY RestFacts
<1>2. SameCall(Rest(p), f) /\ f.at = "release" /\ f.todo = Rest(p).todo
  <2>1. "release" \in Ats
    BY DEF Ats
  <2> QED
    BY <1>1, <2>1, FrameAt
<1>3. SameCall(Top(p), f)
  BY <1>1, <1>2 DEF SameCall
<1> HIDE DEF f
<1> QED
  BY <1>1, <1>2, <1>3, BecomeGoes DEF f

\* up comes to its loop, with all selected releases to do, or throws.
LEMMA UpImageGoes ==
  ASSUME StackOK, NEW p \in Invocations, UpImage(p)
  PROVE  Throw(p) \/ Goes(p, "release", Selected(Top(p).svc))
<1> DEFINE todo == Selected(Top(p).svc)
           f == [Top(p) EXCEPT !.at = "release", !.todo = todo]
<1>1. Busy(p) /\ Top(p) \in Frames
  BY InFacts DEF UpImage
<1>2. Throw(p) \/ Become(p, f)
  BY DEF UpImage
<1>3. SameCall(Top(p), f) /\ f.at = "release" /\ f.todo = todo
  BY <1>1, FrameFacts DEF SameCall
<1> HIDE DEF f, todo
<1>4. Throw(p) \/ Goes(p, "release", todo)
  BY <1>1, <1>2, <1>3, BecomeGoes
<1> QED
  BY <1>4 DEF todo

\* up passes over a release that is there, or goes on to install it.
LEMMA UpReleaseGoes ==
  ASSUME StackOK, NEW p \in Invocations, UpRelease(p)
  PROVE  \/ /\ NextRelease(Top(p)).rule = "missing" /\ UNCHANGED ns
            /\ Goes(p, "release", Top(p).todo \ {Place(Top(p))})
         \/ /\ ns' = ns \/ ns' = Created(Top(p).svc)
            /\ Goes(p, "secret", Top(p).todo) \/ Goes(p, "helm", Top(p).todo)
<1> DEFINE s == Top(p).svc
           r == NextRelease(Top(p))
           listed == release[s][r.name] # "none" /\ r.listed
           at == IF s = "dockerRegistry" \/ (r.image /\ RegistryAvailable) THEN "secret" ELSE "helm"
           was == IF r.rule \in {"missing", "refresh"} THEN listed
                  ELSE Top(p).was \/ (r.rule = "kubo" /\ listed)
           f == [Top(p) EXCEPT !.at = at, !.was = was]
<1>1. Busy(p) /\ Top(p) \in Frames /\ Top(p).at = "release"
  BY InFacts DEF UpRelease
<1>2. \/ r.rule = "missing" /\ Become(p, Rest(p)) /\ UNCHANGED ns
      \/ Become(p, f) /\ (ns' = ns \/ ns' = Created(s))
  BY Zenon DEF UpRelease
<1>3. at \in {"secret", "helm"}
  OBVIOUS
<1> HIDE DEF at, was
<1>4. SameCall(Top(p), f) /\ f.at = at /\ f.todo = Top(p).todo
  BY <1>1, FrameFacts DEF SameCall
<1> HIDE DEF f, r
<1>5. CASE r.rule = "missing" /\ Become(p, Rest(p)) /\ UNCHANGED ns
  BY <1>1, <1>5, RestGoes DEF r
<1>6. CASE Become(p, f) /\ (ns' = ns \/ ns' = Created(s))
  <2>1. Goes(p, at, Top(p).todo)
    BY <1>1, <1>4, <1>6, BecomeGoes
  <2> QED
    BY <1>3, <1>6, <2>1
<1> QED
  BY <1>2, <1>5, <1>6

\* down stops at an empty list, or goes on to uninstall what it picked.
LEMMA DownListingGoes ==
  ASSUME StackOK, NEW p \in Invocations, DownListing(p)
  PROVE  \/ Return(p) /\ Listed(Top(p).svc) = {}
         \/ Goes(p, "uninstall", Picked(Top(p)))
<1> DEFINE todo == Picked(Top(p))
           f == [Top(p) EXCEPT !.at = "uninstall", !.todo = todo]
<1>1. Busy(p) /\ Top(p) \in Frames
  BY InFacts DEF DownListing
<1>2. (Return(p) /\ Listed(Top(p).svc) = {}) \/ Become(p, f)
  BY DEF DownListing
<1>3. SameCall(Top(p), f) /\ f.at = "uninstall" /\ f.todo = todo
  BY <1>1, FrameFacts DEF SameCall
<1> HIDE DEF f, todo
<1>4. (Return(p) /\ Listed(Top(p).svc) = {}) \/ Goes(p, "uninstall", todo)
  BY <1>1, <1>2, <1>3, BecomeGoes
<1> QED
  BY <1>4 DEF todo

\* A failed call throws, unless a tolerant down passes over it.
LEMMA CallFailsGoes ==
  ASSUME StackOK, NEW p \in Invocations, CallFails(p)
  PROVE  \/ Throw(p)
         \/ /\ Top(p).cmd = "down" /\ Down[Top(p).svc].tolerant /\ Top(p).todo # {}
            /\ Goes(p, Top(p).at, Top(p).todo \ {Place(Top(p))})
<1>1. Busy(p)
  BY DEF CallFails
<1> QED
  BY <1>1, RestGoes DEF CallFails


-----------------------------------------------------------------------------
(***************************************************************************)
(* Which steps leave the frame at a place where others rely on it, and     *)
(* which change what.                                                      *)
(***************************************************************************)
LEMMA HelmGoes ==
  ASSUME StackOK, NEW p \in Invocations, HelmInstall(p) \/ HelmRefused(p) \/ HelmFails(p)
  PROVE  \/ Throw(p)
         \/ Goes(p, "release", Top(p).todo \ {Place(Top(p))})
<1>1. Busy(p)
  BY DEF HelmInstall, HelmRefused, HelmFails, In
<1>2. Become(p, [Rest(p) EXCEPT !.at = "release"]) \/ Throw(p)
  BY DEF HelmInstall, HelmRefused, HelmFails, HelmFailed
<1> QED
  BY <1>1, <1>2, NextGoes

\* After which steps a frame is at one of the places others rely on.
LEMMA StepTops ==
  ASSUME StackOK, Paired, NEW p \in Invocations, Advance(p) \/ Failure(p)
  PROVE  \/ Cools(p)
         \/ /\ Busy(p) /\ Top(p).cmd = "up" /\ SameCall(Top(p), (Top(p))')
            /\ \/ UpImage(p) \/ UpRelease(p) \/ PushPullSecret(p) \/ PushPullSecretFails(p)
               \/ HelmInstall(p) \/ HelmRefused(p) \/ HelmFails(p)
         \/ /\ Busy(p) /\ Top(p).cmd = "down" /\ SameCall(Top(p), (Top(p))')
            /\ DownListing(p) \/ HelmUninstall(p) \/ DeleteNamespace(p) \/ CallFails(p)
         \/ /\ Busy(p) /\ Top(p).cmd = "build" /\ SameCall(Top(p), (Top(p))')
            /\ BuildPush(p)
<1>1. CASE UpImage(p) \/ UpRelease(p)
  BY <1>1, UpImageGoes, UpReleaseGoes, ReturnCools DEF UpImage, UpRelease, In, Goes
<1>2. CASE PushPullSecret(p) \/ PushPullSecretFails(p)
  BY <1>2, GoToGoes DEF PushPullSecret, PushPullSecretFails, In, Goes, Ats
<1>3. CASE HelmInstall(p) \/ HelmRefused(p) \/ HelmFails(p)
  BY <1>3, HelmGoes, ReturnCools DEF HelmInstall, HelmRefused, HelmFails, In, Goes
<1>4. CASE DownListing(p)
  BY <1>4, DownListingGoes, ReturnCools DEF DownListing, In, Goes
<1>5. CASE HelmUninstall(p)
  BY <1>5, RestGoes DEF HelmUninstall, In, Goes
<1>6. CASE DeleteNamespace(p)
  BY <1>6, GoToGoes DEF DeleteNamespace, In, Goes, Ats
<1>7. CASE CallFails(p)
  BY <1>7, CallFailsGoes, ReturnCools DEF CallFails, Goes
<1>8. CASE BuildPush(p)
  BY <1>8, GoToGoes DEF BuildPush, In, Goes, Ats
<1>9. CASE Crash(p)
  <2>1. Busy(p) /\ stack'[p] = <<>>
    BY <1>9 DEF Crash, StackOK
  <2> QED
    BY <2>1, ReturnCools
<1>10. CASE UpStart(p) \/ UpStarts(p) \/ UpStarted(p) \/ UpRecord(p) \/ BuildStart(p) \/ BuildMark(p)
              \/ BuildMulti(p) \/ DownStart(p) \/ Forget(p) \/ DownKeepingDb(p) \/ DownThen(p)
              \/ DownEnd(p)
  BY <1>10, UpCools, BuildCools, DownCools
<1>11. CASE RebuildCheckout(p) \/ RebuildBuild(p) \/ RebuildDown(p) \/ RebuildUp(p) \/ RebuildEnd(p)
              \/ StopStart(p) \/ StopNext(p) \/ StopOffchainEnd(p) \/ Clean(p) \/ ChainDownStart(p)
              \/ RemoveChain(p)
  BY <1>11, RebuildCools, StopCools
<1> QED
  BY <1>1, <1>2, <1>3, <1>4, <1>5, <1>6, <1>7, <1>8, <1>9, <1>10, <1>11 DEF Advance, Failure

\* Which steps change which part of the state.
LEMMA StepEffects ==
  ASSUME NEW p \in Invocations, Advance(p) \/ Failure(p)
  PROVE  /\ release' = release \/ HelmInstall(p) \/ HelmRefused(p) \/ HelmFails(p) \/ HelmUninstall(p)
         /\ ns' = ns \/ UpStarted(p) \/ UpRelease(p) \/ HelmInstall(p) \/ DeleteNamespace(p)
         /\ running' = running \/ UpRecord(p) \/ Forget(p) \/ DownKeepingDb(p) \/ Clean(p)
         /\ image' = image \/ BuildMark(p) \/ Forget(p) \/ Clean(p)
         /\ pushed' = pushed \/ BuildPush(p)
         /\ source' = source \/ BuildStart(p) \/ RebuildCheckout(p) \/ Clean(p)
<1> USE DEF state, code, cluster
<1>1. CASE UpStart(p) \/ UpStarts(p) \/ UpStarted(p) \/ UpImage(p) \/ UpRelease(p) \/ PushPullSecret(p)
             \/ HelmInstall(p) \/ HelmRefused(p) \/ UpRecord(p)
  BY <1>1, Zenon DEF UpStart, UpStarts, UpStarted, UpImage, UpRelease, PushPullSecret, HelmInstall,
     HelmRefused, UpRecord
<1>2. CASE BuildStart(p) \/ BuildPush(p) \/ BuildMark(p) \/ BuildMulti(p) \/ DownStart(p)
             \/ DownListing(p) \/ HelmUninstall(p)
  BY <1>2 DEF BuildStart, BuildPush, BuildMark, BuildMulti, DownStart, DownListing, HelmUninstall
<1>3. CASE DeleteNamespace(p) \/ Forget(p) \/ DownKeepingDb(p) \/ DownThen(p) \/ DownEnd(p)
             \/ RebuildCheckout(p) \/ RebuildBuild(p)
  BY <1>3 DEF DeleteNamespace, Forget, DownKeepingDb, DownThen, DownEnd, RebuildCheckout,
     RebuildBuild
<1>4. CASE RebuildDown(p) \/ RebuildUp(p) \/ RebuildEnd(p) \/ StopStart(p) \/ StopNext(p)
             \/ StopOffchainEnd(p) \/ Clean(p) \/ ChainDownStart(p) \/ RemoveChain(p)
  BY <1>4 DEF RebuildDown, RebuildUp, RebuildEnd, StopStart, StopNext, StopOffchainEnd, Clean,
     ChainDownStart, RemoveChain
<1>5. CASE PushPullSecretFails(p) \/ HelmFails(p) \/ CallFails(p) \/ Crash(p)
  BY <1>5 DEF PushPullSecretFails, HelmFails, CallFails, Crash
<1> QED
  BY <1>1, <1>2, <1>3, <1>4, <1>5 DEF Advance, Failure

\* What the other steps change; a command that is issued is at its start.
LEMMA OtherEffects ==
  ASSUME Types,
         \/ \E p \in Invocations : Issue(p)
         \/ \E s \in Services : Terminated(s)
         \/ Deploy \/ UNCHANGED vars
  PROVE  /\ UNCHANGED <<running, image, pushed, source, faults, workload>>
         /\ \/ UNCHANGED <<release, ns>>
            \/ \E s \in Services :
                  /\ ns[s] = "terminating" /\ ns' = [ns EXCEPT ![s] = "absent"]
                  /\ release' = [release EXCEPT ![s] = NoReleases(s)]
         /\ \A p \in Invocations :
               \/ stack'[p] = stack[p] /\ mark'[p] = mark[p]
               \/ /\ ~Busy(p) /\ Busy(p)' /\ Len(stack'[p]) = 1 /\ (Top(p))' = stack'[p][1]
                  /\ stack'[p][1].at = "start" /\ mark'[p] = faults
<1>1. CASE \E p \in Invocations : Issue(p)
  <2>1. PICK p \in Invocations : Issue(p)
    BY <1>1
  <2>2. PICK c \in workload.commands : c.at = "start" /\ Issued(p, c)
    BY <2>1, Issues
  <2>3. /\ Len(stack'[p]) = 1 /\ stack'[p][1] = c /\ stack'[p] \in Seq(Frames)
        /\ \A q \in Invocations : q # p => stack'[q] = stack[q]
    BY <2>2 DEF Issued
  <2>4. stack'[p] # <<>>
    BY <2>3, EmptySeq
  <2>5. /\ ~Busy(p) /\ UNCHANGED <<state, code, cluster, workload, faults>>
        /\ mark' = [mark EXCEPT ![p] = faults]
    BY <2>1 DEF Issue
  <2>6. mark'[p] = faults /\ \A q \in Invocations : q # p => mark'[q] = mark[q]
    BY <2>5 DEF Types, HistoryOK
  <2>7. Busy(p)' /\ (Top(p))' = stack'[p][1]
    BY <2>3, <2>4 DEF Busy, Top
  <2> QED
    BY <2>2, <2>3, <2>5, <2>6, <2>7 DEF state, code, cluster
<1>2. CASE \E s \in Services : Terminated(s)
  BY <1>2 DEF Terminated, state, code, control, history
<1>3. CASE Deploy
  BY <1>3 DEF Deploy, code, cluster, control
<1>4. CASE UNCHANGED vars
  BY <1>4 DEF vars, state, code, cluster, control, history
<1> QED
  BY <1>1, <1>2, <1>3, <1>4

-----------------------------------------------------------------------------
(***************************************************************************)
(* An image that is recorded has been pushed.                              *)
(***************************************************************************)
At(p, cmd, ats) == Busy(p) /\ Top(p).cmd = cmd /\ Top(p).at \in ats

ImagesPushed ==
    /\ \A s \in Services : image[s] => pushed[s] # "none"
    /\ \A p \in Invocations :
          At(p, "build", {"mark"}) => \A s \in Build[Top(p).svc].images : pushed[s] # "none"

\* Every step keeps it: the mark follows the push.
LEMMA ImagesPushedStep ==
  ASSUME Types, Paired, ImagesPushed, Solo, NEW p \in Invocations, Advance(p) \/ Failure(p)
  PROVE  ImagesPushed'
<1>0. StackOK /\ DataOK
  BY DEF Types
<1>1. CASE BuildPush(p)
  <2> DEFINE build == Build[Top(p).svc]
  <2>1. /\ Busy(p) /\ Top(p).cmd = "build" /\ GoTo(p, "mark") /\ UNCHANGED image
        /\ pushed' = [s \in Services |-> IF s \in build.images THEN source[build.from] ELSE pushed[s]]
    BY <1>1 DEF BuildPush, In, state
  <2>2. Top(p).svc \in DOMAIN Build
    BY <1>0, <2>1, ServiceFacts
  <2>3. source[build.from] # "none" /\ build.images \subseteq Services
    BY <1>0, <2>2, TableFacts DEF DataOK, Asked
  <2>4. (Top(p))'.svc = Top(p).svc
    BY <1>0, <2>1, GoToGoes DEF Goes, SameCall, Ats
  <2>5. \A s \in Services : pushed[s] # "none" \/ s \in build.images => pushed'[s] # "none"
    BY <2>1, <2>3
  <2>6. \A s \in Services : image'[s] => pushed'[s] # "none"
    BY <2>1, <2>5 DEF ImagesPushed
  <2>7. \A q \in Invocations : (Top(q))'.svc = Top(p).svc
    BY <2>4 DEF Solo
  <2>8. \A s \in build.images : pushed'[s] # "none"
    BY <2>3, <2>5
  <2> QED
    BY <2>6, <2>7, <2>8 DEF ImagesPushed
<1>2. CASE ~BuildPush(p)
  <2>1. pushed' = pushed
    BY <1>2, StepEffects
  <2>2. \A q \in Invocations : ~At(q, "build", {"mark"})'
    <3>1. ~At(p, "build", {"mark"})'
      BY <1>0, <1>2, StepTops DEF Cools, Hot, At, SameCall
    <3> QED
      BY <3>1 DEF Solo
  <2>3. \A s \in Services : image'[s] => pushed'[s] # "none"
    <3>1. CASE image' = image
      BY <2>1, <3>1 DEF ImagesPushed
    <3>2. CASE BuildMark(p)
      BY <1>0, <2>1, <3>2 DEF BuildMark, In, At, ImagesPushed
    <3>3. CASE Forget(p)
      BY <1>0, <2>1, <3>3 DEF Forget, ImagesPushed, DataOK
    <3>4. CASE Clean(p)
      BY <3>4 DEF Clean
    <3> QED
      BY <3>1, <3>2, <3>3, <3>4, StepEffects
  <2> QED
    BY <2>2, <2>3 DEF ImagesPushed
<1> QED
  BY <1>1, <1>2

-----------------------------------------------------------------------------
(***************************************************************************)
(* While a service that fails loudly comes up, the releases up has been    *)
(* through are there, in a namespace that is not going away.               *)
(***************************************************************************)
Installing ==
    \A p \in Invocations :
        LET s == Top(p).svc IN
        At(p, "up", {"release", "secret", "helm"}) /\ s \in Strict =>
            \A i \in Slots(s) \ Top(p).todo :
                release[s][Up[s].plan[i].name] # "none" /\ ns[s] = "active"

\* A service whose up fails loudly.
LEMMA StrictFacts ==
  ASSUME NEW s \in Strict
  PROVE  /\ s \in Services /\ Slots(s) # {}
         /\ \A i \in Slots(s) : Up[s].plan[i].rule \notin {"missing", "refresh"}
         /\ Selected(s) = Slots(s)
         /\ \A i, j \in Slots(s) : Up[s].plan[i].name = Up[s].plan[j].name => i = j
<1>1. s \in Services /\ \A r \in ReleasesOf[s] : r.rule \notin {"missing", "refresh"}
  BY DEF Strict
<1>2. \A i \in Slots(s) : Up[s].plan[i] \in ReleasesOf[s]
  BY <1>1, PlanFacts
<1>3. \A i \in Slots(s) : Up[s].plan[i].when = {}
  BY <1>2, HandlersAssumption
<1> QED
  BY <1>1, <1>2, <1>3, HandlersAssumption DEF Selected

\* A successful installation.
LEMMA InstallFacts ==
  ASSUME Types, ImagesPushed, NEW p \in Invocations, HelmInstall(p)
  PROVE  LET s == Top(p).svc
             r == NextRelease(Top(p))
             content == IF r.image THEN Image(Top(p)) ELSE "published"
         IN  /\ s \in Services /\ r = Up[s].plan[Place(Top(p))]
             /\ Place(Top(p)) \in Top(p).todo /\ Place(Top(p)) \in Slots(s)
             /\ Goes(p, "release", Top(p).todo \ {Place(Top(p))})
             /\ ns' = Created(s) /\ ns'[s] = "active"
             /\ content # "none"
             /\ \A t \in Services : t # s => release'[t] = release[t]
             /\ \A n \in NamesOf[s] : release'[s][n] = IF n = r.name THEN content ELSE release[s][n]
<1> DEFINE s == Top(p).svc
           r == NextRelease(Top(p))
           content == IF r.image THEN Image(Top(p)) ELSE "published"
<1>1. /\ Busy(p) /\ Top(p).cmd = "up" /\ Top(p).at = "helm" /\ Top(p) \in Frames /\ WellFormed(Top(p))
  BY InFacts DEF HelmInstall, Types
<1>2. s \in Services /\ Top(p).todo # {}
  BY <1>1 DEF WellFormed
<1>3. /\ Place(Top(p)) \in Top(p).todo /\ Place(Top(p)) \in Slots(s)
      /\ r = Up[s].plan[Place(Top(p))] /\ r.name \in NamesOf[s]
  BY <1>1, <1>2, NextReleaseIsOne
<1>4. /\ Accepted(Top(p)) /\ SetRelease(s, r, content) /\ ns' = Created(s)
      /\ Become(p, [Rest(p) EXCEPT !.at = "release"])
  BY DEF HelmInstall
<1>5. Goes(p, "release", Top(p).todo \ {Place(Top(p))})
  BY <1>1, <1>4, NextGoes DEF Types
<1>6. ns'[s] = "active"
  BY <1>2, <1>4, CreatedFacts DEF Accepted, Types
<1>7. content \in Contents \cup {"none"} /\ content # "none"
  <2>1. Image(Top(p)) \in Contents \cup {"none"}
    BY <1>1, <1>2, ImageHasContent DEF Types
  <2>2. Image(Top(p)) # "none"
    BY <1>2 DEF Image, ImagesPushed
  <2> QED
    BY <2>1, <2>2 DEF Contents
<1> HIDE DEF content, s, r
<1>8. /\ \A t \in Services : t # s => release'[t] = release[t]
      /\ \A n \in NamesOf[s] : release'[s][n] = IF n = r.name THEN content ELSE release[s][n]
  BY <1>2, <1>3, <1>4, <1>7, SetReleaseFacts DEF Types, DataOK
<1> QED
  BY <1>2, <1>3, <1>4, <1>5, <1>6, <1>7, <1>8 DEF content, s, r

\* Every step of a command keeps it.
LEMMA InstallingStep ==
  ASSUME Types, Paired, ImagesPushed, Installing, Solo, NEW p \in Invocations, Advance(p) \/ Failure(p)
  PROVE  Installing'
<1> DEFINE s == Top(p).svc
           Done(todo) == \A i \in Slots(s) \ todo :
                            release'[s][Up[s].plan[i].name] # "none" /\ ns'[s] = "active"
<1>0. StackOK /\ DataOK
  BY DEF Types
<1>1. SUFFICES ASSUME At(p, "up", {"release", "secret", "helm"})', (Top(p))'.svc \in Strict
               PROVE  /\ (Top(p))'.svc = s
                      /\ Done((Top(p))'.todo)
  BY DEF Installing, Solo
<1>2. ~Cools(p)
  BY <1>1 DEF Cools, At, Hot
<1>3. /\ Busy(p) /\ Top(p).cmd = "up" /\ SameCall(Top(p), (Top(p))')
      /\ \/ UpImage(p) \/ UpRelease(p) \/ PushPullSecret(p) \/ PushPullSecretFails(p)
         \/ HelmInstall(p) \/ HelmRefused(p) \/ HelmFails(p)
  BY <1>0, <1>1, <1>2, StepTops DEF At, SameCall
<1>4. (Top(p))'.svc = s /\ s \in Strict /\ s \in Services
  BY <1>1, <1>3, StrictFacts DEF SameCall
<1>5. ~Throw(p)
  BY <1>0, <1>2, <1>3, ReturnCools
<1>6. ASSUME Top(p).at \in {"release", "secret", "helm"}
      PROVE  \A i \in Slots(s) \ Top(p).todo :
                 release[s][Up[s].plan[i].name] # "none" /\ ns[s] = "active"
  BY <1>3, <1>4, <1>6 DEF Installing, At
<1>7. CASE UpImage(p)
  <2>1. (Top(p))'.todo = Slots(s)
    BY <1>0, <1>4, <1>5, <1>7, UpImageGoes, StrictFacts DEF Goes
  <2> QED
    BY <1>4, <2>1
<1>8. CASE UpRelease(p)
  <2>1. Top(p).at = "release" /\ Top(p).todo # {} /\ release' = release
    BY <1>8 DEF UpRelease, In
  <2>2. NextRelease(Top(p)).rule # "missing"
    <3>1. Top(p) \in Frames /\ WellFormed(Top(p))
      BY <1>0, <1>3, TopFacts
    <3> QED
      BY <1>3, <1>4, <2>1, <3>1, NextReleaseIsOne, StrictFacts
  <2>3. (Top(p))'.todo = Top(p).todo /\ (ns' = ns \/ ns' = Created(s))
    BY <1>0, <1>8, <2>2, UpReleaseGoes DEF Goes
  <2>4. ns[s] = "active" => ns'[s] = "active"
    BY <1>0, <1>4, <2>3, CreatedFacts
  <2> QED
    BY <1>4, <1>6, <2>1, <2>3, <2>4
<1>9. CASE PushPullSecret(p) \/ PushPullSecretFails(p)
  <2>1. Top(p).at = "secret" /\ GoTo(p, "helm") /\ release' = release /\ ns' = ns
    BY <1>9 DEF PushPullSecret, PushPullSecretFails, In, cluster
  <2>2. (Top(p))'.todo = Top(p).todo
    BY <1>0, <1>3, <2>1, GoToGoes DEF Goes, Ats
  <2> QED
    BY <1>4, <1>6, <2>1, <2>2
<1>10. CASE HelmInstall(p)
  <2> DEFINE j == Place(Top(p))
  <2>1. /\ (Top(p))'.todo = Top(p).todo \ {j} /\ j \in Slots(s) /\ ns'[s] = "active"
        /\ NextRelease(Top(p)) = Up[s].plan[j]
        /\ \A n \in NamesOf[s] : n = Up[s].plan[j].name \/ release[s][n] # "none"
              => release'[s][n] # "none"
    BY <1>10, InstallFacts DEF Goes
  <2>2. Top(p).at = "helm"
    BY <1>10 DEF HelmInstall, In
  <2> HIDE DEF j
  <2>3. ASSUME NEW i \in Slots(s) \ (Top(p))'.todo PROVE release'[s][Up[s].plan[i].name] # "none"
    <3>1. Up[s].plan[i].name \in NamesOf[s]
      BY <1>4, <2>3, PlanFacts
    <3>2. i = j \/ i \in Slots(s) \ Top(p).todo
      BY <2>1, <2>3
    <3> QED
      BY <1>6, <2>1, <2>2, <3>1, <3>2
  <2> QED
    BY <1>4, <2>1, <2>3
<1>11. CASE HelmRefused(p) \/ HelmFails(p)
  <2>1. Top(p) \in Frames /\ WellFormed(Top(p)) /\ Top(p).at = "helm" /\ HelmFailed(p)
    BY <1>0, <1>3, <1>11, TopFacts DEF HelmRefused, HelmFails, In
  <2>2. Top(p).todo # {}
    BY <2>1 DEF WellFormed
  <2>3. NextRelease(Top(p)).rule \notin {"missing", "refresh"}
    BY <1>3, <1>4, <2>1, <2>2, NextReleaseIsOne, StrictFacts
  <2>4. Throw(p)
    BY <2>1, <2>3 DEF HelmFailed
  <2> QED
    BY <1>5, <2>4
<1> QED
  BY <1>3, <1>7, <1>8, <1>9, <1>10, <1>11

\* Steps of others: only a namespace that is terminating goes away.
LEMMA OthersKeepInstalling ==
  ASSUME Types, Paired, ImagesPushed, Installing,
         \/ \E p \in Invocations : Issue(p)
         \/ \E s \in Services : Terminated(s)
         \/ Deploy \/ UNCHANGED vars
  PROVE  Paired' /\ ImagesPushed' /\ Installing'
<1>1. /\ UNCHANGED <<image, pushed>>
      /\ \/ UNCHANGED <<release, ns>>
         \/ \E s \in Services : /\ ns[s] = "terminating" /\ ns' = [ns EXCEPT ![s] = "absent"]
                                /\ release' = [release EXCEPT ![s] = NoReleases(s)]
  BY OtherEffects
<1>2. ASSUME NEW p \in Invocations
      PROVE  \/ stack'[p] = stack[p] \/ (Len(stack'[p]) = 1 /\ (Top(p))'.at = "start")
  BY OtherEffects
<1>3. Paired'
  <2>1. ASSUME NEW p \in Invocations, NEW i \in 1 .. Len(stack'[p]) - 1
        PROVE  CalledBy(stack'[p][i], stack'[p][i + 1])
    <3>1. Len(stack'[p]) # 1
      <4>1. ASSUME NEW n, n = 1, i \in 1 .. n - 1 PROVE FALSE
        BY <4>1
      <4> QED
        BY <2>1, <4>1
    <3>2. stack'[p] = stack[p]
      BY <1>2, <3>1
    <3> QED
      BY <2>1, <3>2 DEF Paired
  <2> QED
    BY <2>1 DEF Paired
<1>4. ImagesPushed'
  BY <1>1, <1>2 DEF ImagesPushed, At, Busy, Top
<1>5. ASSUME NEW p \in Invocations, At(p, "up", {"release", "secret", "helm"})', (Top(p))'.svc \in Strict
      PROVE  \A i \in Slots((Top(p))'.svc) \ (Top(p))'.todo :
                /\ release'[(Top(p))'.svc][Up[(Top(p))'.svc].plan[i].name] # "none"
                /\ ns'[(Top(p))'.svc] = "active"
  <2>1. stack'[p] = stack[p]
    BY <1>2, <1>5 DEF At
  <2>2. /\ At(p, "up", {"release", "secret", "helm"}) /\ (Top(p))' = Top(p)
        /\ Top(p).svc \in Strict /\ Top(p).svc \in Services
    BY <1>5, <2>1, StrictFacts DEF At, Busy, Top
  <2>3. \A i \in Slots(Top(p).svc) \ Top(p).todo :
           release[Top(p).svc][Up[Top(p).svc].plan[i].name] # "none" /\ ns[Top(p).svc] = "active"
    BY <2>2 DEF Installing
  <2>4. ns[Top(p).svc] = "active" =>
            ns'[Top(p).svc] = "active" /\ release'[Top(p).svc] = release[Top(p).svc]
    BY <1>1, <2>2 DEF Types, DataOK, ReleaseOK
  <2> QED
    BY <2>2, <2>3, <2>4
<1> QED
  BY <1>3, <1>4, <1>5 DEF Installing

\* The invariants so far; those that follow build on them.
Base == Types /\ Paired /\ ImagesPushed /\ Installing

\* They hold, commands being run one at a time.
LEMMA BaseHolds ==
  ASSUME Solo
  PROVE  Spec => []Base
<1>1. Init => Base
  <2> SUFFICES ASSUME Init PROVE Base
    OBVIOUS
  <2>1. Types
    BY TypesInit
  <2>2. \A p \in Invocations : stack[p] = <<>>
    BY DEF Init
  <2>3. Paired
    BY <2>2 DEF Paired
  <2>4. Installing
    BY <2>2 DEF Installing, At, Busy
  <2>5. ImagesPushed
    BY <2>2 DEF Init, ImagesPushed, At, Busy
  <2> QED
    BY <2>1, <2>3, <2>4, <2>5 DEF Base
<1>2. Base /\ [Next]_vars => Base'
  <2> SUFFICES ASSUME Base, [Next]_vars PROVE Base'
    OBVIOUS
  <2>1. Types'
    BY TypesNext DEF Base
  <2>2. CASE \E p \in Invocations : Advance(p) \/ Failure(p)
    <3>1. PICK p \in Invocations : Advance(p) \/ Failure(p)
      BY <2>2
    <3>2. Paired'
      BY <3>1, StepsMove, MovesKeepPairs DEF Base, Types, DataOK
    <3> QED
      BY <2>1, <3>1, <3>2, ImagesPushedStep, InstallingStep DEF Base
  <2>3. CASE \/ \E p \in Invocations : Issue(p)
             \/ \E s \in Services : Terminated(s)
             \/ Deploy \/ UNCHANGED vars
    BY <2>1, <2>3, OthersKeepInstalling DEF Base
  <2> QED
    BY <2>2, <2>3 DEF Next
<1> QED
  BY <1>1, <1>2, PTL DEF Spec

-----------------------------------------------------------------------------
\* All the releases of a service are in the cluster, in a namespace that stays.
Whole(s) == ns[s] = "active" /\ \A n \in NamesOf[s] : release[s][n] # "none"

\* In terms of the properties.
LEMMA WholeIsDeployed ==
  ASSUME NEW s \in Services, Whole(s)
  PROVE  Deployed(s) /\ ns[s] = "active"
BY DEF Whole, Deployed, NamesOf

\* The releases of a service are those at the places of its plan.
LEMMA NamesInPlan ==
  ASSUME NEW s \in Services, NEW n \in NamesOf[s]
  PROVE  \E i \in Slots(s) : Up[s].plan[i].name = n
BY DEF NamesOf, ReleasesOf

\* What up has been through is all there when nothing is left.
LEMMA AllInstalled ==
  ASSUME Base, NEW p \in Invocations, UpRecord(p), Top(p).svc \in Strict
  PROVE  Whole(Top(p).svc)
<1> DEFINE s == Top(p).svc
<1>1. At(p, "up", {"release", "secret", "helm"}) /\ Top(p).todo = {}
  BY DEF UpRecord, In, At
<1>2. s \in Services /\ Slots(s) # {}
  BY StrictFacts
<1>3. \A i \in Slots(s) : release[s][Up[s].plan[i].name] # "none" /\ ns[s] = "active"
  BY <1>1 DEF Base, Installing
<1> QED
  BY <1>2, <1>3, NamesInPlan DEF Whole

(***************************************************************************)
(* Commands run one at a time: a service that fails loudly is recorded as  *)
(* running only when all its releases are in the cluster.                  *)
(***************************************************************************)
THEOREM RecordedWhenDeployed ==
  ASSUME Solo
  PROVE  Spec => RecordedOnlyWhenDeployed
<1> DEFINE Recorded == \A s \in Services : s \in Strict /\ ~running[s] /\ running'[s]
                                              => Deployed(s) /\ ns[s] = "active"
<1>1. Base /\ [Next]_vars => [Recorded]_vars
  <2> SUFFICES ASSUME Base, [Next]_vars, NEW s \in Services, s \in Strict, ~running[s], running'[s]
               PROVE  Deployed(s) /\ ns[s] = "active"
    OBVIOUS
  <2>1. running' # running
    OBVIOUS
  <2>2. PICK p \in Invocations : UpRecord(p) \/ Forget(p) \/ DownKeepingDb(p) \/ Clean(p)
    BY <2>1, StepEffects, OtherEffects DEF Next, Base
  <2>3. UpRecord(p) /\ s = Top(p).svc
    BY <2>2 DEF UpRecord, Forget, DownKeepingDb, Clean, Base, Types, DataOK
  <2> QED
    BY <2>3, AllInstalled, WholeIsDeployed
<1>2. Spec => []Base
  BY BaseHolds
<1> HIDE DEF Recorded
<1>3. Spec => [][Recorded]_vars
  BY <1>1, <1>2, PTL DEF Spec
<1> QED
  BY <1>3 DEF Recorded, RecordedOnlyWhenDeployed

-----------------------------------------------------------------------------
(***************************************************************************)
(* While a service goes down, what its down has been through is gone, but  *)
(* for a down that passes over what it cannot uninstall; when it comes to  *)
(* the record, all of the service is gone or going.                        *)
(***************************************************************************)
Thorough(frame) == (Down[frame.svc].picks = "fixed" /\ ~Down[frame.svc].tolerant) \/ KeepDb(frame)

Uninstalled(s, places) ==
    \A i \in places : Up[s].plan[i].name # Performance => release[s][Up[s].plan[i].name] = "none"

Remains(s) == {r \in ReleasesOf[s] : r.name # Performance}

Removing ==
    \A p \in Invocations :
        /\ At(p, "down", {"uninstall"}) /\ Thorough(Top(p))
              => Uninstalled(Top(p).svc, Slots(Top(p).svc) \ Top(p).todo)
        /\ At(p, "down", {"forget"}) => Gone(Top(p).svc, Remains(Top(p).svc))

\* A down that keeps the database is one of oracle.
LEMMA KeepDbFacts ==
  ASSUME NEW f, WellFormed(f), KeepDb(f)
  PROVE  /\ f.cmd = "down" /\ f.svc = "oracle" /\ f.at \in {"start", "list", "uninstall"}
         /\ Down[f.svc].picks = "all" /\ ~Down[f.svc].tolerant
         /\ \A i \in f.todo : Up["oracle"].plan[i].name # Performance
BY HandlersAssumption DEF WellFormed, KeepDb

\* Nothing left to uninstall: nothing left of the service.
LEMMA AllUninstalled ==
  ASSUME NEW s \in Services, Uninstalled(s, Slots(s))
  PROVE  Gone(s, Remains(s))
<1>1. ReleasesOf[s] = {Up[s].plan[i] : i \in Slots(s)}
  BY DEF ReleasesOf
<1> QED
  BY <1>1 DEF Gone, Remains, Uninstalled

\* A successful uninstallation.
LEMMA UninstallFacts ==
  ASSUME Types, NEW p \in Invocations, HelmUninstall(p)
  PROVE  LET s == Top(p).svc
             j == Place(Top(p))
         IN  /\ s \in Services /\ j \in Slots(s) /\ j \in Top(p).todo /\ ns' = ns
             /\ NextRelease(Top(p)) = Up[s].plan[j]
             /\ Goes(p, "uninstall", Top(p).todo \ {j})
             /\ \A t \in Services : t # s => release'[t] = release[t]
             /\ \A n \in NamesOf[s] : release'[s][n] = IF n = Up[s].plan[j].name
                                                       THEN "none" ELSE release[s][n]
<1> DEFINE s == Top(p).svc
           j == Place(Top(p))
           r == NextRelease(Top(p))
<1>1. /\ Busy(p) /\ Top(p).cmd = "down" /\ Top(p).at = "uninstall" /\ Top(p).todo # {}
      /\ Top(p) \in Frames /\ WellFormed(Top(p))
  BY InFacts DEF HelmUninstall, Types
<1>2. s \in Services
  BY <1>1 DEF WellFormed
<1>3. j \in Top(p).todo /\ j \in Slots(s) /\ r = Up[s].plan[j] /\ r.name \in NamesOf[s]
  BY <1>1, NextReleaseIsOne
<1>4. SetRelease(s, r, "none") /\ Become(p, Rest(p)) /\ ns' = ns
  BY DEF HelmUninstall
<1>5. Goes(p, "uninstall", Top(p).todo \ {j})
  BY <1>1, <1>4, RestGoes DEF Types
<1> HIDE DEF s, r, j
<1>6. /\ \A t \in Services : t # s => release'[t] = release[t]
      /\ \A n \in NamesOf[s] : release'[s][n] = IF n = r.name THEN "none" ELSE release[s][n]
  BY <1>2, <1>3, <1>4, SetReleaseFacts DEF Types, DataOK
<1> QED
  BY <1>2, <1>3, <1>4, <1>5, <1>6 DEF s, r, j

\* Every step of a command keeps it.
LEMMA RemovingStep ==
  ASSUME Base, Removing, Solo, NEW p \in Invocations, Advance(p) \/ Failure(p)
  PROVE  Removing'
<1> DEFINE s == Top(p).svc
<1>0. StackOK /\ DataOK /\ Paired
  BY DEF Base, Types
<1>1. SUFFICES ASSUME At(p, "down", {"uninstall", "forget"})'
               PROVE  /\ (Top(p))'.at = "uninstall" /\ Thorough((Top(p))')
                            => Uninstalled(Top(p).svc, Slots(Top(p).svc) \ Top(p).todo)'
                      /\ (Top(p))'.at = "forget" => Gone(Top(p).svc, Remains(Top(p).svc))'
  BY DEF Removing, Solo, At
<1>2. ~Cools(p)
  BY <1>1 DEF Cools, At, Hot
<1>3. /\ Busy(p) /\ Top(p).cmd = "down" /\ SameCall(Top(p), (Top(p))')
      /\ DownListing(p) \/ HelmUninstall(p) \/ DeleteNamespace(p) \/ CallFails(p)
  BY <1>0, <1>1, <1>2, StepTops DEF At, SameCall
<1>4. /\ Top(p) \in Frames /\ WellFormed(Top(p)) /\ s \in Services
      /\ (Top(p))'.svc = s /\ (Thorough((Top(p))') <=> Thorough(Top(p)))
  BY <1>0, <1>3, TopFacts DEF WellFormed, SameCall, Thorough, KeepDb
<1>5. ~Throw(p) /\ ~Return(p)
  BY <1>0, <1>2, <1>3, ReturnCools
<1>6. CASE DownListing(p)
  <2>1. (Top(p))'.at = "uninstall" /\ (Top(p))'.todo = Picked(Top(p)) /\ release' = release
    BY <1>0, <1>5, <1>6, DownListingGoes DEF Goes, DownListing, cluster
  <2>2. ASSUME Thorough(Top(p)), NEW i \in Slots(s) \ Picked(Top(p)), Up[s].plan[i].name # Performance
        PROVE  release[s][Up[s].plan[i].name] = "none"
    <3>1. KeepDb(Top(p))
      BY <2>2 DEF Thorough, Picked
    <3>2. s = "oracle" /\ Down[s].picks = "all"
      BY <1>4, <3>1, KeepDbFacts
    <3>3. Up[s].plan[i].listed
      BY <1>4, <2>2, <3>2, PlanFacts, HandlersAssumption
    <3> QED
      BY <2>2, <3>2, <3>3 DEF Picked, Listed
  <2> QED
    BY <1>4, <2>1, <2>2 DEF Uninstalled
<1>7. CASE HelmUninstall(p)
  <2> DEFINE j == Place(Top(p))
  <2>1. /\ j \in Slots(s) /\ (Top(p))'.at = "uninstall" /\ (Top(p))'.todo = Top(p).todo \ {j}
        /\ \A n \in NamesOf[s] : n = Up[s].plan[j].name \/ release[s][n] = "none"
              => release'[s][n] = "none"
    BY <1>7, UninstallFacts DEF Base, Goes
  <2>2. Top(p).at = "uninstall"
    BY <1>7 DEF HelmUninstall, In
  <2> HIDE DEF j
  <2>3. ASSUME Thorough(Top(p)), NEW i \in Slots(s) \ (Top(p))'.todo, Up[s].plan[i].name # Performance
        PROVE  release'[s][Up[s].plan[i].name] = "none"
    <3>1. Up[s].plan[i].name \in NamesOf[s]
      BY <1>4, <2>3, PlanFacts
    <3>2. CASE i = j
      BY <2>1, <3>1, <3>2
    <3>3. CASE i # j
      <4>1. i \in Slots(s) \ Top(p).todo
        BY <2>1, <2>3, <3>3
      <4>2. release[s][Up[s].plan[i].name] = "none"
        BY <1>3, <2>2, <2>3, <4>1 DEF Removing, At, Uninstalled
      <4> QED
        BY <2>1, <3>1, <4>2
    <3> QED
      BY <3>2, <3>3
  <2> QED
    BY <1>4, <2>1, <2>3 DEF Uninstalled
<1>8. CASE DeleteNamespace(p)
  <2>1. /\ Top(p).at = "uninstall" /\ Top(p).todo = {} /\ release' = release
        /\ GoTo(p, "forget")
        /\ ns' = IF Down[s].namespace /\ ns[s] = "active"
                 THEN [ns EXCEPT ![s] = "terminating"] ELSE ns
    BY <1>8 DEF DeleteNamespace, In
  <2>2. (Top(p))'.at = "forget"
    BY <1>0, <1>3, <2>1, GoToGoes DEF Goes, Ats
  <2>3. CASE Down[s].namespace
    <3>1. ns'[s] # "active"
      BY <1>0, <1>4, <2>1, <2>3 DEF DataOK
    <3> QED
      BY <1>4, <2>2, <3>1 DEF Gone
  <2>4. CASE ~Down[s].namespace
    <3>1. Thorough(Top(p))
      BY <1>4, <2>4, HandlersAssumption DEF Thorough
    <3>2. Uninstalled(s, Slots(s))
      BY <1>3, <2>1, <3>1 DEF Removing, At
    <3>3. Gone(s, Remains(s))
      BY <1>4, <3>2, AllUninstalled
    <3> QED
      BY <1>4, <2>1, <2>2, <2>4, <3>3 DEF Gone, Remains
  <2> QED
    BY <2>3, <2>4
<1>9. CASE CallFails(p)
  <2>1. /\ Down[s].tolerant /\ (Top(p))'.at = Top(p).at
        /\ <<Top(p).cmd, Top(p).at>> \in Calls
    BY <1>0, <1>5, <1>9, CallFailsGoes DEF Goes, CallFails
  <2>2. (Top(p))'.at # "forget"
    BY <2>1 DEF Calls
  <2>3. ~Thorough(Top(p))
    BY <1>4, <2>1, KeepDbFacts DEF Thorough
  <2> QED
    BY <1>4, <2>2, <2>3
<1> QED
  BY <1>3, <1>6, <1>7, <1>8, <1>9

\* A terminated namespace has taken its releases with it.
LEMMA OthersKeepGone ==
  ASSUME Types,
         \/ UNCHANGED <<release, ns>>
         \/ \E s \in Services : /\ ns[s] = "terminating" /\ ns' = [ns EXCEPT ![s] = "absent"]
                                /\ release' = [release EXCEPT ![s] = NoReleases(s)]
  PROVE  \A s \in Services :
            /\ ns[s] # "active" => ns'[s] # "active"
            /\ ns[s] = "active" => ns'[s] = "active" /\ release'[s] = release[s]
            /\ \A n \in NamesOf[s] : release[s][n] = "none" => release'[s][n] = "none"
<1>1. CASE UNCHANGED <<release, ns>>
  BY <1>1
<1>2. CASE ~UNCHANGED <<release, ns>>
  <2>1. PICK t \in Services : /\ ns[t] = "terminating" /\ ns' = [ns EXCEPT ![t] = "absent"]
                              /\ release' = [release EXCEPT ![t] = NoReleases(t)]
    BY <1>2
  <2>2. \A n \in NamesOf[t] : NoReleases(t)[n] = "none"
    BY DEF NoReleases
  <2>3. ns \in [Services -> {"absent", "active", "terminating"}] /\ DOMAIN release = Services
    BY DEF Types, DataOK, ReleaseOK
  <2> QED
    BY <2>1, <2>2, <2>3
<1> QED
  BY <1>1, <1>2

\* A release of a service has one of its names.
LEMMA ReleaseIsNamed ==
  ASSUME NEW s \in Services, NEW r \in ReleasesOf[s]
  PROVE  r.name \in NamesOf[s]
BY DEF NamesOf

\* So do the steps outside commands.
LEMMA OthersKeepRemoving ==
  ASSUME Types, Removing,
         \/ \E p \in Invocations : Issue(p)
         \/ \E s \in Services : Terminated(s)
         \/ Deploy \/ UNCHANGED vars
  PROVE  Removing'
<1>1. \A s \in Services :
         /\ ns[s] # "active" => ns'[s] # "active"
         /\ ns[s] = "active" => ns'[s] = "active" /\ release'[s] = release[s]
         /\ \A n \in NamesOf[s] : release[s][n] = "none" => release'[s][n] = "none"
  BY OtherEffects, OthersKeepGone
<1>2. SUFFICES ASSUME NEW p \in Invocations, At(p, "down", {"uninstall", "forget"})'
               PROVE  /\ (Top(p))'.at = "uninstall" /\ Thorough((Top(p))')
                            => Uninstalled(Top(p).svc, Slots(Top(p).svc) \ Top(p).todo)'
                      /\ (Top(p))'.at = "forget" => Gone(Top(p).svc, Remains(Top(p).svc))'
  BY DEF Removing, At
<1>3. stack'[p] = stack[p]
  BY <1>2, OtherEffects DEF At
<1>4. At(p, "down", {"uninstall", "forget"}) /\ (Top(p))' = Top(p)
  BY <1>2, <1>3 DEF At, Busy, Top
<1>5. Top(p).svc \in Services
  BY <1>4, ServiceFacts DEF At, Types
<1>6. CASE Top(p).at = "uninstall"
  BY <1>1, <1>4, <1>5, <1>6, PlanFacts DEF Removing, At, Uninstalled
<1>7. CASE Top(p).at = "forget"
  <2>1. Gone(Top(p).svc, Remains(Top(p).svc))
    BY <1>4, <1>7 DEF Removing, At
  <2>2. \A r \in Remains(Top(p).svc) : r.name \in NamesOf[Top(p).svc]
    BY <1>5, ReleaseIsNamed DEF Remains
  <2>3. Gone(Top(p).svc, Remains(Top(p).svc))'
    BY <1>1, <1>4, <1>5, <2>1, <2>2 DEF Gone, Remains
  <2> QED
    BY <1>4, <1>7, <2>3
<1> QED
  BY <1>4, <1>6, <1>7 DEF At

\* It holds, commands being run one at a time.
LEMMA RemovingHolds ==
  ASSUME Solo
  PROVE  Spec => []Removing
<1>1. Init => Removing
  BY DEF Init, Removing, At, Busy
<1>2. Base /\ Removing /\ [Next]_vars => Removing'
  BY RemovingStep, OthersKeepRemoving DEF Next, Base
<1>3. Spec => []Base
  BY BaseHolds
<1> QED
  BY <1>1, <1>2, <1>3, PTL DEF Spec

(***************************************************************************)
(* Commands run one at a time: short of wiping the whole network, a record *)
(* is dropped only when the releases it stands for are gone or going,      *)
(* however downs have failed or been killed before.                        *)
(***************************************************************************)
THEOREM ForgottenWhenGone ==
  ASSUME Solo
  PROVE  Spec => ForgottenOnlyWhenGone
<1> DEFINE Forgotten == \A s \in Services : running[s] /\ ~running'[s]
                           => \/ Gone(s, {r \in ReleasesOf[s] : r.name # Performance})
                              \/ \E p \in Invocations : Cleaning(p)
<1>1. Base /\ Removing /\ [Next]_vars => [Forgotten]_vars
  <2> SUFFICES ASSUME Base, Removing, [Next]_vars, NEW s \in Services, running[s], ~running'[s]
               PROVE  Gone(s, Remains(s)) \/ \E p \in Invocations : Cleaning(p)
    BY DEF Remains
  <2>1. running' # running
    OBVIOUS
  <2>2. PICK p \in Invocations : UpRecord(p) \/ Forget(p) \/ DownKeepingDb(p) \/ Clean(p)
    BY <2>1, StepEffects, OtherEffects DEF Next, Base
  <2>3. CASE UpRecord(p)
    BY <2>3 DEF UpRecord, Base, Types, DataOK
  <2>4. CASE Forget(p)
    <3>1. At(p, "down", {"forget"}) /\ s = Top(p).svc
      BY <2>4 DEF Forget, In, At, Base, Types, DataOK
    <3> QED
      BY <3>1 DEF Removing
  <2>5. CASE DownKeepingDb(p)
    <3>1. /\ At(p, "down", {"uninstall"}) /\ s = Top(p).svc /\ Thorough(Top(p))
          /\ Top(p).todo = {}
      BY <2>5 DEF DownKeepingDb, In, At, Thorough, Base, Types, DataOK
    <3>2. Uninstalled(s, Slots(s))
      BY <3>1 DEF Removing
    <3> QED
      BY <3>2, AllUninstalled
  <2>6. CASE Clean(p)
    BY <2>6 DEF Clean, Cleaning
  <2> QED
    BY <2>2, <2>3, <2>4, <2>5, <2>6
<1>2. Spec => []Base /\ []Removing
  BY BaseHolds, RemovingHolds
<1> HIDE DEF Forgotten
<1>3. Spec => [][Forgotten]_vars
  BY <1>1, <1>2, PTL DEF Spec
<1> QED
  BY <1>3 DEF Forgotten, ForgottenOnlyWhenGone

-----------------------------------------------------------------------------
(***************************************************************************)
(* Until something fails, what is recorded is all there, or its down is at *)
(* work on it.                                                             *)
(***************************************************************************)
Leaving(s) == \E p \in Invocations : At(p, "down", {"uninstall", "forget"}) /\ Top(p).svc = s

Fresh == faults = 0 => \A s \in Strict : running[s] => Whole(s) \/ Leaving(s)

\* Each command has its own steps.
LEMMA Handlers ==
  ASSUME NEW p \in Invocations, Advance(p)
  PROVE  /\ Busy(p)
         /\ \/ /\ Top(p).cmd = "up"
               /\ \/ UpStart(p) \/ UpStarts(p) \/ UpStarted(p) \/ UpImage(p) \/ UpRelease(p)
                  \/ PushPullSecret(p) \/ HelmInstall(p) \/ HelmRefused(p) \/ UpRecord(p)
            \/ Top(p).cmd = "build" /\ (BuildStart(p) \/ BuildPush(p) \/ BuildMark(p))
            \/ Top(p).cmd = "buildMulti" /\ BuildMulti(p)
            \/ /\ Top(p).cmd = "down"
               /\ \/ DownStart(p) \/ DownListing(p) \/ HelmUninstall(p) \/ DeleteNamespace(p)
                  \/ Forget(p) \/ DownKeepingDb(p) \/ DownThen(p) \/ DownEnd(p)
            \/ /\ Top(p).cmd = "rebuild"
               /\ \/ RebuildCheckout(p) \/ RebuildBuild(p) \/ RebuildDown(p) \/ RebuildUp(p)
                  \/ RebuildEnd(p)
            \/ /\ Top(p).cmd \in {"stop", "stopOffchain"}
               /\ StopStart(p) \/ StopNext(p) \/ StopOffchainEnd(p) \/ Clean(p)
            \/ Top(p).cmd = "chainDown" /\ (ChainDownStart(p) \/ RemoveChain(p))
<1>1. CASE UpStart(p) \/ UpStarts(p) \/ UpStarted(p) \/ UpImage(p) \/ UpRelease(p)
             \/ PushPullSecret(p) \/ HelmInstall(p) \/ HelmRefused(p) \/ UpRecord(p)
  BY <1>1 DEF UpStart, UpStarts, UpStarted, UpImage, UpRelease, PushPullSecret, HelmInstall,
     HelmRefused, UpRecord, In
<1>2. CASE BuildStart(p) \/ BuildPush(p) \/ BuildMark(p) \/ BuildMulti(p)
  BY <1>2 DEF BuildStart, BuildPush, BuildMark, BuildMulti, In
<1>3. CASE DownStart(p) \/ DownListing(p) \/ HelmUninstall(p) \/ DeleteNamespace(p)
             \/ Forget(p) \/ DownKeepingDb(p) \/ DownThen(p) \/ DownEnd(p)
  BY <1>3 DEF DownStart, DownListing, HelmUninstall, DeleteNamespace, Forget, DownKeepingDb,
     DownThen, DownEnd, In
<1>4. CASE RebuildCheckout(p) \/ RebuildBuild(p) \/ RebuildDown(p) \/ RebuildUp(p) \/ RebuildEnd(p)
  BY <1>4 DEF RebuildCheckout, RebuildBuild, RebuildDown, RebuildUp, RebuildEnd, In
<1>5. CASE StopStart(p) \/ StopNext(p) \/ StopOffchainEnd(p) \/ Clean(p) \/ ChainDownStart(p)
             \/ RemoveChain(p)
  BY <1>5 DEF StopStart, StopNext, StopOffchainEnd, Clean, ChainDownStart, RemoveChain, In
<1> QED
  BY <1>1, <1>2, <1>3, <1>4, <1>5 DEF Advance

\* What an up that fails loudly does not undo.
LEMMA RefusedKeeps ==
  ASSUME Types, NEW p \in Invocations, HelmRefused(p), NEW s \in Strict
  PROVE  release'[s] = release[s]
<1>1. /\ Top(p).cmd = "up" /\ Top(p).at = "helm" /\ Busy(p) /\ Top(p) \in Frames /\ WellFormed(Top(p))
  BY InFacts DEF HelmRefused, Types
<1>2. /\ Top(p).svc \in Services /\ Top(p).todo # {}
  BY <1>1 DEF WellFormed
<1>3. NextRelease(Top(p)) \in ReleasesOf[Top(p).svc] /\ NextRelease(Top(p)).name \in NamesOf[Top(p).svc]
  BY <1>1, <1>2, NextReleaseIsOne
<1>4. ~Accepted(Top(p)) /\ HelmFailed(p)
  BY DEF HelmRefused
<1>5. UNCHANGED release \/ SetRelease(Top(p).svc, NextRelease(Top(p)), "none")
  BY <1>4 DEF HelmFailed
<1>6. CASE Top(p).svc = s
  BY <1>3, <1>4, <1>6 DEF HelmFailed, Strict
<1>7. CASE Top(p).svc # s
  <2>1. s \in Services
    BY StrictFacts
  <2> QED
    BY <1>2, <1>3, <1>5, <1>7, <2>1, SetReleaseFacts DEF Types, DataOK
<1> QED
  BY <1>6, <1>7

\* What is whole stays whole, but for the down of the service.
LEMMA WholeStep ==
  ASSUME Base, NEW p \in Invocations, Advance(p), NEW s \in Strict, Whole(s),
         ~(At(p, "down", {"uninstall", "forget"}) /\ Top(p).svc = s)
  PROVE  Whole(s)'
<1>0. /\ StackOK /\ DataOK /\ Paired /\ s \in Services /\ ns[s] = "active"
      /\ \A n \in NamesOf[s] : release[s][n] # "none"
  BY StrictFacts DEF Base, Types, Whole
<1>1. ns'[s] = "active"
  <2>1. CASE ns' = ns
    BY <1>0, <2>1
  <2>2. CASE UpStarted(p) \/ UpRelease(p)
    <3>1. Top(p).svc \in Services
      BY <1>0, <2>2, InFacts, ServiceFacts DEF UpStarted, UpRelease
    <3>2. ns' = ns \/ ns' = Created(Top(p).svc)
      BY <1>0, <2>2, UpReleaseGoes DEF UpStarted
    <3> QED
      BY <1>0, <3>1, <3>2, CreatedFacts
  <2>3. CASE HelmInstall(p)
    <3>1. ns' = Created(Top(p).svc) /\ Top(p).svc \in Services
      BY <2>3, InstallFacts DEF Base
    <3> QED
      BY <1>0, <3>1, CreatedFacts
  <2>4. CASE DeleteNamespace(p)
    <3>1. Top(p).svc # s
      BY <2>4 DEF DeleteNamespace, In, At
    <3> QED
      BY <1>0, <2>4, <3>1 DEF DeleteNamespace, DataOK
  <2> QED
    BY <2>1, <2>2, <2>3, <2>4, StepEffects
<1>2. \A n \in NamesOf[s] : release'[s][n] # "none"
  <2>1. CASE release' = release
    BY <1>0, <2>1
  <2>2. CASE HelmInstall(p)
    <3> DEFINE t == Top(p).svc
               r == NextRelease(Top(p))
               content == IF r.image THEN Image(Top(p)) ELSE "published"
    <3>1. /\ content # "none"
          /\ \A u \in Services : u # t => release'[u] = release[u]
          /\ \A n \in NamesOf[t] : release'[t][n] = IF n = r.name THEN content ELSE release[t][n]
      BY <2>2, InstallFacts DEF Base
    <3> HIDE DEF t, r, content
    <3>2. CASE t = s
      BY <1>0, <3>1, <3>2
    <3>3. CASE t # s
      BY <1>0, <3>1, <3>3
    <3> QED
      BY <3>2, <3>3
  <2>3. CASE HelmRefused(p)
    BY <1>0, <2>3, RefusedKeeps DEF Base
  <2>4. CASE HelmUninstall(p)
    <3>1. Top(p).svc # s
      BY <2>4 DEF HelmUninstall, In, At
    <3> QED
      BY <1>0, <2>4, <3>1, UninstallFacts DEF Base
  <2>5. ~HelmFails(p)
    BY HistoryMoves DEF HelmFails, Fault, Base, Types, HistoryOK
  <2> QED
    BY <2>1, <2>2, <2>3, <2>4, <2>5, StepEffects
<1> QED
  BY <1>1, <1>2 DEF Whole

\* Every step of a command keeps it.
LEMMA FreshStep ==
  ASSUME Base, Fresh, Solo, NEW p \in Invocations, Advance(p) \/ Failure(p)
  PROVE  Fresh'
<1> SUFFICES ASSUME faults' = 0, NEW s \in Strict, running'[s]
             PROVE  (Whole(s) \/ Leaving(s))'
  BY DEF Fresh
<1>0. StackOK /\ DataOK /\ Paired /\ faults \in Nat /\ s \in Services
  BY StrictFacts DEF Base, Types, HistoryOK
<1>1. Advance(p) /\ faults = 0
  BY <1>0, HistoryMoves
<1>2. CASE Leaving(s)
  <2>1. Busy(p) /\ Top(p).cmd = "down" /\ Top(p).at \in {"uninstall", "forget"} /\ Top(p).svc = s
    BY <1>2 DEF Leaving, Solo, At
  <2>2. HelmUninstall(p) \/ DeleteNamespace(p) \/ Forget(p) \/ DownKeepingDb(p)
    BY <1>1, <2>1, Handlers DEF DownStart, DownListing, DownThen, DownEnd, In
  <2>3. ~Forget(p) /\ ~DownKeepingDb(p)
    BY <1>0, <2>1 DEF Forget, DownKeepingDb, DataOK
  <2>4. CASE HelmUninstall(p)
    <3>1. Goes(p, "uninstall", (Top(p))'.todo)
      BY <2>4, UninstallFacts DEF Base, Goes
    <3> QED
      BY <2>1, <3>1 DEF Leaving, At, Goes, SameCall
  <2>5. CASE DeleteNamespace(p)
    <3>1. Goes(p, "forget", Top(p).todo)
      BY <1>0, <2>1, <2>5, GoToGoes DEF DeleteNamespace, Ats
    <3> QED
      BY <2>1, <3>1 DEF Leaving, At, Goes, SameCall
  <2> QED
    BY <2>2, <2>3, <2>4, <2>5
<1>3. CASE ~Leaving(s) /\ running[s]
  <2>1. Whole(s)
    BY <1>1, <1>3 DEF Fresh
  <2> QED
    BY <1>1, <1>3, <2>1, WholeStep DEF Leaving
<1>4. CASE ~Leaving(s) /\ ~running[s]
  <2>1. UpRecord(p) /\ s = Top(p).svc
    BY <1>0, <1>4, StepEffects DEF UpRecord, Forget, DownKeepingDb, Clean, DataOK
  <2>2. Whole(s)
    BY <2>1, AllInstalled
  <2> QED
    BY <2>1, <2>2 DEF Whole, UpRecord, cluster
<1> QED
  BY <1>2, <1>3, <1>4

\* So do the steps outside commands.
LEMMA OthersKeepFresh ==
  ASSUME Types, Fresh,
         \/ \E p \in Invocations : Issue(p)
         \/ \E s \in Services : Terminated(s)
         \/ Deploy \/ UNCHANGED vars
  PROVE  Fresh'
<1>1. /\ UNCHANGED <<running, faults>>
      /\ \A p \in Invocations : stack'[p] = stack[p] \/ ~Busy(p)
  BY OtherEffects
<1>2. \A s \in Services :
         ns[s] = "active" => ns'[s] = "active" /\ release'[s] = release[s]
  BY OtherEffects, OthersKeepGone
<1>3. ASSUME NEW s \in Strict, Whole(s) PROVE Whole(s)'
  BY <1>2, <1>3, StrictFacts DEF Whole
<1>4. ASSUME NEW s \in Strict, Leaving(s) PROVE Leaving(s)'
  BY <1>1, <1>4 DEF Leaving, At, Busy, Top
<1> QED
  BY <1>1, <1>3, <1>4 DEF Fresh

\* It holds, commands being run one at a time.
LEMMA FreshHolds ==
  ASSUME Solo
  PROVE  Spec => []Fresh
<1>1. Init => Fresh
  <2> SUFFICES ASSUME Init, NEW s \in Strict, running[s] PROVE Whole(s)
    BY DEF Fresh
  <2>1. s \in Services /\ s \in workload.up
    BY StrictFacts DEF Init
  <2>2. release[s] = [n \in NamesOf[s] |-> "config"] /\ ns[s] = "active"
    BY <2>1 DEF Init
  <2> QED
    BY <2>2 DEF Whole
<1>2. Base /\ Fresh /\ [Next]_vars => Fresh'
  BY FreshStep, OthersKeepFresh DEF Next, Base
<1> QED
  BY <1>1, <1>2, BaseHolds, PTL DEF Spec

(***************************************************************************)
(* Commands run one at a time: until a step fails or a process is killed,  *)
(* a service that fails loudly is recorded only while all its releases     *)
(* are there, or a down of it is under way.                                *)
(***************************************************************************)
THEOREM StaleIfInterrupted ==
  ASSUME Solo
  PROVE  Spec => []StaleOnlyIfInterrupted
<1>1. Types /\ Fresh => StaleOnlyIfInterrupted
  <2> SUFFICES ASSUME Types, Fresh, faults = 0, NEW s \in Strict, running[s], ~Whole(s)
               PROVE  GoingDown(s)
    BY StrictFacts, WholeIsDeployed DEF StaleOnlyIfInterrupted
  <2>1. PICK p \in Invocations : At(p, "down", {"uninstall", "forget"}) /\ Top(p).svc = s
    BY DEF Fresh, Leaving
  <2>2. Top(p) = stack[p][Len(stack[p])] /\ Len(stack[p]) \in DOMAIN stack[p]
    BY <2>1, TopFacts, StackFacts DEF At, Types
  <2> QED
    BY <2>1, <2>2 DEF GoingDown, At
<1>2. Spec => []Types
  BY TypesInit, TypesNext, PTL DEF Spec
<1> QED
  BY <1>1, <1>2, FreshHolds, PTL

-----------------------------------------------------------------------------
(***************************************************************************)
(* What a command may find itself nested in.  A rebuild, `down` and        *)
(* `down-offchain` never are; the rebuild of oracle reaches no down but    *)
(* the one that keeps the database; `down` takes down, and that is all.    *)
(***************************************************************************)
Inside(f, c) ==
    /\ c.cmd \notin {"rebuild", "stop", "stopOffchain"}
    /\ f.cmd = "rebuild" /\ f.svc = "oracle" =>
          c.cmd \in {"up", "build", "buildMulti"} \/ (c.cmd = "down" /\ KeepDb(c))
    /\ f.cmd = "stop" => c.cmd \in {"down", "chainDown"}

Nested == \A p \in Invocations : \A i \in 2 .. Len(stack[p]) : Inside(stack[p][1], stack[p][i])

\* What a command calls is nested in it ...
LEMMA CalledIsInside ==
  ASSUME NEW f, NEW c, CalledBy(f, c)
  PROVE  Inside(f, c)
BY DEF CalledBy, Inside, SameCall, KeepDb, UpCommand, BuildCommand, DownCommand, Command

\* ... and so is what a nested command calls ...
LEMMA CalledStaysInside ==
  ASSUME NEW e, NEW f, NEW c, Inside(e, f), WellFormed(f), CalledBy(f, c)
  PROVE  Inside(e, c)
<1>1. f.cmd = "down" /\ KeepDb(f) => f.at # "end"
  BY KeepDbFacts
<1> QED
  BY <1>1 DEF CalledBy, Inside, SameCall, KeepDb, UpCommand, BuildCommand, DownCommand, Command

\* ... however far both have come.
LEMMA SameCallStaysInside ==
  ASSUME NEW e, NEW f, NEW g, NEW h, Inside(e, f), SameCall(e, g), SameCall(f, h)
  PROVE  Inside(g, h)
BY DEF Inside, SameCall, KeepDb

\* The first and the last frame of a stack that has several.
LEMMA LastOfMany ==
  ASSUME NEW n \in Nat, n > 0, n # 1
  PROVE  n \in 2 .. n /\ 1 \in 1 .. n - 1
OBVIOUS

\* Moves keep commands nested so.
LEMMA MovesKeepNested ==
  ASSUME StackOK, Nested, NEW p \in Invocations, Busy(p), Moves(p)
  PROVE  Nested'
<1> DEFINE n == Len(stack[p])
<1>1. /\ n \in Nat /\ n > 0
      /\ \A i \in 1 .. n : SameCall(stack[p][i], stack[p][i])
  BY TopFacts DEF SameCall
<1>2. \A q \in Invocations : q # p => stack'[q] = stack[q]
  BY DEF Moves, Replaces, Adds, Cuts, Keeps
<1>3. StackOK'
  BY MovesKeepStack
<1>4. ASSUME NEW i \in 2 .. Len(stack'[p]) PROVE Inside(stack'[p][1], stack'[p][i])
  <2>1. CASE \E f \in Frames : Replaces(p, f) /\ SameCall(Top(p), f)
    <3>1. PICK f \in Frames : Replaces(p, f) /\ SameCall(Top(p), f)
      BY <2>1
    <3>2. /\ \A j \in 1 .. n - 1 : stack'[p][j] = stack[p][j]
          /\ Len(stack'[p]) = n /\ stack'[p][n] = f /\ Top(p) = stack[p][n]
      BY <3>1 DEF Replaces, Keeps, Top
    <3>3. i \in 2 .. n /\ Inside(stack[p][1], stack[p][i])
      BY <3>2 DEF Nested
    <3>4. SameCall(stack[p][i], stack'[p][i]) /\ SameCall(stack[p][1], stack'[p][1])
      BY <1>1, <3>1, <3>2, <3>3
    <3> QED
      BY <3>3, <3>4, SameCallStaysInside
  <2>2. CASE \E f, c \in Frames : Adds(p, f, c) /\ SameCall(Top(p), f) /\ CalledBy(f, c)
    <3>1. PICK f \in Frames, c \in Frames :
             Adds(p, f, c) /\ SameCall(Top(p), f) /\ CalledBy(f, c)
      BY <2>2
    <3>2. /\ \A j \in 1 .. n - 1 : stack'[p][j] = stack[p][j]
          /\ Len(stack'[p]) = n + 1 /\ stack'[p][n] = f
          /\ stack'[p][n + 1] = c /\ Top(p) = stack[p][n]
      BY <3>1 DEF Adds, Keeps, Top
    <3>3. ASSUME NEW j \in 2 .. n PROVE Inside(stack'[p][1], stack'[p][j])
      <4>1. Inside(stack[p][1], stack[p][j])
        BY DEF Nested
      <4>2. SameCall(stack[p][j], stack'[p][j]) /\ SameCall(stack[p][1], stack'[p][1])
        BY <1>1, <3>1, <3>2, <3>3
      <4> QED
        BY <4>1, <4>2, SameCallStaysInside
    <3>4. CASE i = n + 1 /\ n = 1
      BY <3>1, <3>2, <3>4, CalledIsInside
    <3>5. CASE i = n + 1 /\ n # 1
      <4>0. n \in 2 .. n
        BY <1>1, <3>5, LastOfMany
      <4>1. Inside(stack'[p][1], f)
        BY <3>2, <3>3, <4>0
      <4>2. WellFormed(f)
        BY <1>1, <1>3, <3>2, StackFacts DEF StackOK
      <4> QED
        BY <3>1, <3>2, <3>5, <4>1, <4>2, CalledStaysInside
    <3> QED
      BY <1>1, <3>2, <3>3, <3>4, <3>5
  <2>3. CASE \E m \in 0 .. n - 1 : Cuts(p, m)
    BY <1>1, <2>3 DEF Cuts, Keeps, Nested
  <2> QED
    BY <2>1, <2>2, <2>3 DEF Moves
<1> QED
  BY <1>2, <1>4 DEF Nested

\* It holds, with any number of invocations.
LEMMA NestedHolds == Spec => []Nested
<1>1. Init => Nested
  BY DEF Init, Nested
<1>2. Types /\ Nested /\ [Next]_vars => Nested'
  <2> SUFFICES ASSUME Types, Nested, [Next]_vars PROVE Nested'
    OBVIOUS
  <2>1. CASE \E p \in Invocations : Advance(p) \/ Failure(p)
    BY <2>1, StepsMove, MovesKeepNested DEF Types, DataOK
  <2>2. CASE \/ \E p \in Invocations : Issue(p)
             \/ \E s \in Services : Terminated(s)
             \/ Deploy \/ UNCHANGED vars
    <3>1. \A p \in Invocations : stack'[p] = stack[p] \/ Len(stack'[p]) = 1
      BY <2>2, OtherEffects
    <3>2. ASSUME NEW p \in Invocations, NEW i \in 2 .. Len(stack'[p])
          PROVE  Inside(stack'[p][1], stack'[p][i])
      BY <3>1, <3>2 DEF Nested
    <3> QED
      BY <3>2 DEF Nested
  <2> QED
    BY <2>1, <2>2 DEF Next
<1>3. Spec => []Types
  BY TypesInit, TypesNext, PTL DEF Spec
<1> QED
  BY <1>1, <1>2, <1>3, PTL DEF Spec

\* What an installation that goes through, is refused or fails leaves behind.
LEMMA HelmWrites ==
  ASSUME Types, ImagesPushed, NEW p \in Invocations, HelmInstall(p) \/ HelmRefused(p) \/ HelmFails(p)
  PROVE  /\ Top(p).cmd = "up" /\ Top(p).svc \in Services
         /\ NextRelease(Top(p)) \in ReleasesOf[Top(p).svc]
         /\ \/ release' = release
            \/ /\ \A t \in Services : t # Top(p).svc => release'[t] = release[t]
               /\ \A n \in NamesOf[Top(p).svc] :
                     IF n # NextRelease(Top(p)).name THEN release'[Top(p).svc][n] = release[Top(p).svc][n]
                     ELSE release'[Top(p).svc][n] # "none"
                             \/ NextRelease(Top(p)).rule \in {"missing", "refresh"}
<1> DEFINE s == Top(p).svc
           r == NextRelease(Top(p))
           content == IF r.image THEN Image(Top(p)) ELSE "published"
<1>1. /\ Busy(p) /\ Top(p).cmd = "up" /\ Top(p).at = "helm" /\ Top(p) \in Frames /\ WellFormed(Top(p))
  BY InFacts DEF HelmInstall, HelmRefused, HelmFails, Types
<1>2. s \in Services /\ Top(p).todo # {}
  BY <1>1 DEF WellFormed
<1>3. r \in ReleasesOf[s] /\ r.name \in NamesOf[s]
  BY <1>1, <1>2, NextReleaseIsOne
<1>4. \/ release' = release
      \/ SetRelease(s, r, "none") /\ r.rule \in {"missing", "refresh"}
      \/ SetRelease(s, r, content) /\ Accepted(Top(p))
  BY DEF HelmInstall, HelmRefused, HelmFails, HelmFailed
<1>5. content \in Contents \cup {"none"} /\ content # "none"
  <2>1. Image(Top(p)) \in Contents \cup {"none"}
    BY <1>1, <1>2, ImageHasContent DEF Types
  <2>2. Image(Top(p)) # "none"
    BY <1>2 DEF Image, ImagesPushed
  <2> QED
    BY <2>1, <2>2 DEF Contents
<1> HIDE DEF content, s, r
<1>6. ASSUME NEW c \in Contents \cup {"none"}, SetRelease(s, r, c)
      PROVE  /\ \A t \in Services : t # s => release'[t] = release[t]
             /\ \A n \in NamesOf[s] : release'[s][n] = IF n = r.name THEN c ELSE release[s][n]
  BY <1>2, <1>3, <1>6, SetReleaseFacts DEF Types, DataOK
<1>7. CASE SetRelease(s, r, "none") /\ r.rule \in {"missing", "refresh"}
  BY <1>1, <1>2, <1>3, <1>6, <1>7 DEF s, r
<1>8. CASE SetRelease(s, r, content)
  BY <1>1, <1>2, <1>3, <1>5, <1>6, <1>8 DEF s, r
<1> QED
  BY <1>1, <1>2, <1>3, <1>4, <1>7, <1>8 DEF s, r

(***************************************************************************)
(* Commands run one at a time: while oracle is rebuilt, nothing takes its  *)
(* database away or asks for its namespace to go.                          *)
(***************************************************************************)
THEOREM DbSurvives ==
  ASSUME Solo
  PROVE  Spec => DbSurvivesRebuild
<1> DEFINE Kept == /\ ns'["oracle"] = "active"
                   /\ release["oracle"][Performance] # "none"
                         => release'["oracle"][Performance] # "none"
           Survives == Rebuilding("oracle") /\ ns["oracle"] = "active" => Kept
<1>1. Base /\ Nested /\ [Next]_vars => Survives
  <2> SUFFICES ASSUME Base, Nested, [Next]_vars, Rebuilding("oracle"), ns["oracle"] = "active"
               PROVE  Kept
    OBVIOUS
  <2>0. /\ StackOK /\ DataOK /\ Paired /\ "oracle" \in Services /\ Performance \in NamesOf["oracle"]
        /\ \A r \in ReleasesOf["oracle"] : r.name = Performance => r.rule \notin {"missing", "refresh"}
    BY HandlersAssumption, TableFacts DEF Base, Types
  <2>1. PICK p \in Invocations : \E i \in DOMAIN stack[p] :
               stack[p][i].cmd = "rebuild" /\ stack[p][i].svc = "oracle"
    BY DEF Rebuilding
  <2>2. /\ Busy(p)
        /\ \/ Top(p).cmd \in {"rebuild", "up", "build", "buildMulti"}
           \/ Top(p).cmd = "down" /\ KeepDb(Top(p))
    <3>1. PICK i \in 1 .. Len(stack[p]) : stack[p][i].cmd = "rebuild" /\ stack[p][i].svc = "oracle"
      BY <2>0, <2>1, StackFacts
    <3>2. Busy(p) /\ Len(stack[p]) \in Nat /\ Len(stack[p]) > 0 /\ Top(p) = stack[p][Len(stack[p])]
      BY <2>0, <3>1, StackFacts, TopFacts
    <3>3. stack[p][1].cmd = "rebuild" /\ stack[p][1].svc = "oracle"
      <4>1. i \notin 2 .. Len(stack[p])
        BY <3>1 DEF Nested, Inside
      <4>2. i = 1
        BY <3>2, <4>1
      <4> QED
        BY <3>1, <4>2
    <3>4. CASE Len(stack[p]) = 1
      BY <3>2, <3>3, <3>4
    <3>5. CASE Len(stack[p]) # 1
      <4>1. Len(stack[p]) \in 2 .. Len(stack[p])
        BY <3>2, <3>5, LastOfMany
      <4> QED
        BY <3>2, <3>3, <4>1 DEF Nested, Inside
    <3> QED
      BY <3>4, <3>5
  <2>3. CASE \E q \in Invocations : Advance(q) \/ Failure(q)
    <3>1. Advance(p) \/ Failure(p)
      BY <2>3 DEF Solo
    <3>2. ns'["oracle"] = "active"
      <4>1. CASE UpStarted(p) \/ UpRelease(p)
        <5>1. Top(p).svc \in Services
          BY <2>0, <4>1, InFacts, ServiceFacts DEF UpStarted, UpRelease
        <5>2. ns' = ns \/ ns' = Created(Top(p).svc)
          BY <2>0, <4>1, UpReleaseGoes DEF UpStarted
        <5> QED
          BY <2>0, <5>1, <5>2, CreatedFacts
      <4>2. CASE HelmInstall(p)
        <5>1. ns' = Created(Top(p).svc) /\ Top(p).svc \in Services
          BY <4>2, InstallFacts DEF Base
        <5> QED
          BY <2>0, <5>1, CreatedFacts
      <4>3. ~DeleteNamespace(p)
        BY <2>2 DEF DeleteNamespace, In
      <4> QED
        BY <3>1, <4>1, <4>2, <4>3, StepEffects
    <3>3. CASE HelmInstall(p) \/ HelmRefused(p) \/ HelmFails(p)
      BY <2>0, <3>2, <3>3, HelmWrites DEF Base
    <3>4. CASE HelmUninstall(p)
      <4>1. /\ Top(p).cmd = "down" /\ KeepDb(Top(p)) /\ WellFormed(Top(p))
        BY <2>0, <2>2, <3>4, InFacts DEF HelmUninstall
      <4>2. Top(p).svc = "oracle" /\ \A i \in Top(p).todo : Up["oracle"].plan[i].name # Performance
        BY <4>1, KeepDbFacts
      <4> DEFINE t == Top(p).svc
                 j == Place(Top(p))
      <4>3. /\ j \in Top(p).todo
            /\ \A n \in NamesOf[t] : release'[t][n] =
                  IF n = Up[t].plan[j].name THEN "none" ELSE release[t][n]
        BY <3>4, UninstallFacts DEF Base
      <4>4. /\ j \in Top(p).todo
            /\ \A n \in NamesOf["oracle"] : release'["oracle"][n] =
                  IF n = Up["oracle"].plan[j].name THEN "none" ELSE release["oracle"][n]
        BY <4>2, <4>3
      <4>5. Up["oracle"].plan[j].name # Performance
        BY <4>2, <4>4
      <4> HIDE DEF j
      <4> QED
        BY <2>0, <3>2, <4>4, <4>5
    <3> QED
      BY <3>1, <3>2, <3>3, <3>4, StepEffects
  <2>4. CASE \/ \E q \in Invocations : Issue(q)
             \/ \E s \in Services : Terminated(s)
             \/ Deploy \/ UNCHANGED vars
    BY <2>0, <2>4, OtherEffects, OthersKeepGone DEF Base
  <2> QED
    BY <2>3, <2>4 DEF Next
<1> HIDE DEF Survives
<1>2. Spec => [][Survives]_vars
  BY <1>1, BaseHolds, NestedHolds, PTL DEF Spec
<1> QED
  BY <1>2 DEF Survives, DbSurvivesRebuild

-----------------------------------------------------------------------------
(***************************************************************************)
(* While `down --force` works through its list and nothing fails, what it  *)
(* has come past is gone, or is what it is taking down.                    *)
(***************************************************************************)
ListedOf(s) == {r \in ReleasesOf[s] : r.listed}

TakingDown(p, s) == /\ Len(stack[p]) = 2
                    /\ SameCall(DownCommand(s, {"force"}), stack[p][2])
                    /\ stack[p][2].at \in {"start", "list", "uninstall"}

Stopping ==
    \A p \in Invocations :
        LET f == stack[p][1] IN
        Busy(p) /\ f.cmd = "stop" /\ f.at = "next" /\ "force" \in f.opts /\ mark[p] = faults =>
            \A j \in DOMAIN StopLists["stop"] \ f.todo :
                LET s == StopLists["stop"][j] IN
                s # "chain" => Gone(s, ListedOf(s)) \/ TakingDown(p, s)

MarksPast == \A p \in Invocations : mark[p] <= faults

\* No command was issued after failures still to come.
LEMMA MarksPastHolds == Spec => []MarksPast
<1>1. Init => MarksPast
  BY DEF Init, MarksPast
<1>2. Types /\ MarksPast /\ [Next]_vars => MarksPast'
  <2> SUFFICES ASSUME Types, MarksPast, [Next]_vars, NEW p \in Invocations
               PROVE  mark'[p] <= faults'
    BY DEF MarksPast
  <2>1. mark[p] <= faults /\ mark[p] \in Nat /\ faults \in Nat
    BY WorkloadsAssumption DEF MarksPast, Types, HistoryOK
  <2>2. CASE \E q \in Invocations : Advance(q) \/ Failure(q)
    BY <2>1, <2>2, HistoryMoves
  <2>3. CASE \/ \E q \in Invocations : Issue(q)
             \/ \E s \in Services : Terminated(s)
             \/ Deploy \/ UNCHANGED vars
    BY <2>1, <2>3, OtherEffects
  <2> QED
    BY <2>2, <2>3 DEF Next
<1>3. Spec => []Types
  BY TypesInit, TypesNext, PTL DEF Spec
<1> QED
  BY <1>1, <1>2, <1>3, PTL DEF Spec

\* Nothing that takes down brings a service back.
LEMMA DownKeepsGone ==
  ASSUME Types, NEW p \in Invocations, Advance(p), Top(p).cmd \notin {"up"},
         NEW s \in Services, NEW R \in SUBSET ReleasesOf[s], Gone(s, R)
  PROVE  Gone(s, R)'
<1>1. DataOK /\ StackOK /\ \A r \in R : r.name \in NamesOf[s]
  BY ReleaseIsNamed DEF Types
<1>2. ns[s] # "active" => ns'[s] # "active"
  <2>1. ns' = ns \/ DeleteNamespace(p)
    BY StepEffects DEF UpStarted, UpRelease, HelmInstall, In
  <2> QED
    BY <1>1, <2>1 DEF DeleteNamespace, DataOK
<1>3. \A n \in NamesOf[s] : release[s][n] = "none" => release'[s][n] = "none"
  <2>1. release' = release \/ HelmUninstall(p)
    BY StepEffects DEF HelmInstall, HelmRefused, HelmFails, In
  <2>2. CASE HelmUninstall(p)
    BY <2>2, UninstallFacts
  <2> QED
    BY <2>1, <2>2
<1> QED
  BY <1>1, <1>2, <1>3 DEF Gone

\* What the service it is taking down comes to.
LEMMA TakingDownStep ==
  ASSUME Types, Paired, NEW p \in Invocations, Advance(p), Busy(p),
         NEW s \in Services, TakingDown(p, s), Down[s].namespace
  PROVE  Gone(s, ListedOf(s))' \/ TakingDown(p, s)'
<1>0. StackOK /\ DataOK
  BY DEF Types
<1>1. /\ Top(p) = stack[p][2] /\ Top(p).cmd = "down" /\ Top(p).svc = s /\ Top(p).opts = {"force"}
      /\ Top(p).at \in {"start", "list", "uninstall"} /\ ~KeepDb(Top(p))
  BY DEF Top, TakingDown, SameCall, DownCommand, Command, KeepDb
<1>2. ASSUME NEW at \in {"list", "uninstall"}, NEW todo, Goes(p, at, todo)
      PROVE  TakingDown(p, s)'
  <2>1. Len(stack'[p]) = 2 /\ (Top(p))' = stack'[p][2]
    BY <1>2 DEF Goes, TakingDown, Top
  <2> QED
    BY <1>1, <1>2, <2>1 DEF Goes, TakingDown, SameCall
<1>3. DownStart(p) \/ DownListing(p) \/ HelmUninstall(p) \/ DeleteNamespace(p)
  BY <1>1, Handlers DEF Forget, DownKeepingDb, DownThen, DownEnd, In
<1>4. CASE DownStart(p)
  <2>1. GoTo(p, "list")
    BY <1>1, <1>4 DEF DownStart
  <2>2. Goes(p, "list", Top(p).todo)
    BY <1>0, <2>1, GoToGoes DEF Ats
  <2> QED
    BY <1>2, <2>2
<1>5. CASE DownListing(p)
  <2>1. CASE Goes(p, "uninstall", Picked(Top(p)))
    BY <1>2, <2>1
  <2>2. CASE Listed(s) = {}
    <3>1. \A r \in ListedOf(s) : release[s][r.name] = "none"
      BY <2>2 DEF ListedOf, Listed, ReleasesOf
    <3> QED
      BY <1>5, <3>1 DEF Gone, ListedOf, DownListing, cluster
  <2> QED
    BY <1>0, <1>1, <1>5, <2>1, <2>2, DownListingGoes
<1>6. CASE HelmUninstall(p)
  BY <1>2, <1>6, UninstallFacts
<1>7. CASE DeleteNamespace(p)
  BY <1>0, <1>1, <1>7 DEF DeleteNamespace, Gone, DataOK
<1> QED
  BY <1>3, <1>4, <1>5, <1>6, <1>7

\* The command that was issued stays what it is until it ends.
LEMMA FirstFrame ==
  ASSUME StackOK, NEW p \in Invocations, Busy(p), Moves(p), Busy(p)'
  PROVE  /\ SameCall(stack[p][1], stack'[p][1])
         /\ Len(stack[p]) # 1 => stack'[p][1] = stack[p][1]
<1> DEFINE n == Len(stack[p])
<1>1. n \in Nat /\ n > 0 /\ Top(p) = stack[p][n] /\ SameCall(stack[p][1], stack[p][1])
  BY TopFacts DEF SameCall
<1>2. ASSUME NEW f, SameCall(Top(p), f), stack'[p][n] = f,
             \A i \in 1 .. n - 1 : stack'[p][i] = stack[p][i]
      PROVE  /\ SameCall(stack[p][1], stack'[p][1])
             /\ n # 1 => stack'[p][1] = stack[p][1]
  <2>1. CASE n = 1
    BY <1>1, <1>2, <2>1
  <2>2. CASE n # 1
    <3>1. 1 \in 1 .. n - 1
      BY <1>1, <2>2, LastOfMany
    <3> QED
      BY <1>1, <1>2, <3>1
  <2> QED
    BY <2>1, <2>2
<1>3. CASE \E f, c \in Frames : SameCall(Top(p), f) /\ (Replaces(p, f) \/ Adds(p, f, c))
  <2>1. PICK f \in Frames, c \in Frames : SameCall(Top(p), f) /\ (Replaces(p, f) \/ Adds(p, f, c))
    BY <1>3
  <2>2. stack'[p][n] = f /\ \A i \in 1 .. n - 1 : stack'[p][i] = stack[p][i]
    BY <2>1 DEF Replaces, Adds, Keeps
  <2> QED
    BY <1>2, <2>1, <2>2
<1>4. CASE \E m \in 0 .. n - 1 : Cuts(p, m)
  <2>1. PICK m \in 0 .. n - 1 : Cuts(p, m)
    BY <1>4
  <2>2. stack'[p] \in Seq(Frames) /\ Len(stack'[p]) = m /\ \A i \in 1 .. m : stack'[p][i] = stack[p][i]
    BY <2>1 DEF Cuts, Keeps
  <2>3. m # 0
    BY <2>2, EmptySeq DEF Busy
  <2> QED
    BY <1>1, <2>2, <2>3
<1> QED
  BY <1>3, <1>4 DEF Moves

\* Every step of a command keeps it.
LEMMA StoppingStep ==
  ASSUME Types, Paired, Nested, MarksPast, Stopping, Solo, NEW p \in Invocations,
         Advance(p) \/ Failure(p)
  PROVE  Stopping'
<1> DEFINE f == stack[p][1]
           g == stack'[p][1]
<1> SUFFICES ASSUME Busy(p)', g.cmd = "stop", g.at = "next", "force" \in g.opts, mark'[p] = faults',
                    NEW j \in DOMAIN StopLists["stop"] \ g.todo, StopLists["stop"][j] # "chain"
             PROVE  (Gone(StopLists["stop"][j], ListedOf(StopLists["stop"][j]))
                       \/ TakingDown(p, StopLists["stop"][j]))'
  BY DEF Stopping, Solo
<1> DEFINE s == StopLists["stop"][j]
<1>0. StackOK /\ DataOK /\ Busy(p) /\ Moves(p)
  BY StepsMove DEF Types, DataOK
<1>1. Advance(p) /\ mark[p] = faults
  <2>1. mark[p] \in Nat /\ faults \in Nat /\ mark[p] <= faults
    BY WorkloadsAssumption DEF MarksPast, Types, HistoryOK
  <2> QED
    BY <2>1, HistoryMoves
<1>2. s \in Services /\ Down[s].namespace /\ ListedOf(s) \in SUBSET ReleasesOf[s]
  BY StopFacts, HandlersAssumption DEF ListedOf
<1>3. SameCall(f, g) /\ (Len(stack[p]) # 1 => g = f)
  BY <1>0, FirstFrame
<1>4. f.cmd = "stop" /\ "force" \in f.opts
  BY <1>3 DEF SameCall
<1>5. ASSUME f.at = "next", j \notin f.todo
      PROVE  Gone(s, ListedOf(s)) \/ TakingDown(p, s)
  BY <1>0, <1>1, <1>4, <1>5 DEF Stopping
<1>6. CASE Len(stack[p]) # 1
  <2>1. Len(stack[p]) \in 2 .. Len(stack[p]) /\ Top(p) = stack[p][Len(stack[p])]
    BY <1>0, <1>6, TopFacts, LastOfMany
  <2>2. Top(p).cmd \in {"down", "chainDown"}
    BY <1>4, <2>1 DEF Nested, Inside
  <2>3. Gone(s, ListedOf(s)) \/ TakingDown(p, s)
    BY <1>3, <1>5, <1>6
  <2> QED
    BY <1>0, <1>1, <1>2, <2>2, <2>3, DownKeepsGone, TakingDownStep
<1>7. CASE Len(stack[p]) = 1
  <2>1. Top(p) = f /\ Top(p) \in Frames /\ WellFormed(Top(p))
    BY <1>0, <1>7, TopFacts
  <2>2. StopStart(p) \/ StopNext(p) \/ StopOffchainEnd(p) \/ Clean(p)
    BY <1>1, <1>4, <2>1, Handlers
  <2>3. ~StopOffchainEnd(p) /\ ~Clean(p)
    <3>1. ~Return(p)
      <4> SUFFICES ASSUME Return(p) PROVE FALSE
        OBVIOUS
      <4>1. Cuts(p, Len(stack[p]) - 1)
        BY <1>0, Returns
      <4>2. stack'[p] \in Seq(Frames) /\ Len(stack'[p]) = 0
        BY <1>7, <4>1 DEF Cuts, Keeps
      <4> QED
        BY <4>2, EmptySeq DEF Busy
    <3> QED
      BY <3>1 DEF StopOffchainEnd, Clean
  <2>4. CASE StopStart(p)
    <3> DEFINE h == [Top(p) EXCEPT !.at = "next", !.todo = DOMAIN StopLists[Top(p).cmd]]
    <3>1. Become(p, h) /\ h.todo = DOMAIN StopLists["stop"]
      BY <1>4, <2>1, <2>4, FrameFacts DEF StopStart
    <3> HIDE DEF h
    <3>2. stack'[p][1] = h
      BY <1>0, <1>7, <3>1, NewTop
    <3> QED
      BY <3>1, <3>2
  <2>5. CASE StopNext(p)
    <3> DEFINE i == Place(Top(p))
               t == StopLists["stop"][i]
               c == IF t = "chain" THEN Command("chainDown", "chain", {}, "none")
                    ELSE DownCommand(t, Top(p).opts \cap {"force"})
    <3>1. Call(p, Rest(p), c) /\ Top(p).at = "next" /\ UNCHANGED <<release, ns>>
      BY <1>4, <2>1, <2>5 DEF StopNext, cluster
    <3>2. Rest(p).todo = Top(p).todo \ {i}
      BY <1>0, RestFacts
    <3> HIDE DEF c, i
    <3>3. g = Rest(p) /\ Len(stack'[p]) = 2 /\ stack'[p][2] = c
      <4>1. /\ Len(stack'[p]) = Len(stack[p]) + 1 /\ stack'[p][Len(stack[p])] = Rest(p)
            /\ stack'[p][Len(stack[p]) + 1] = c
        BY <1>0, <3>1, NewCall
      <4> QED
        BY <1>7, <4>1
    <3>4. CASE j = i
      <4>1. c = DownCommand(s, {"force"})
        BY <1>4, <2>1, <3>4 DEF c
      <4>2. SameCall(DownCommand(s, {"force"}), c) /\ c.at = "start"
        BY <4>1 DEF SameCall, DownCommand, Command
      <4> QED
        BY <3>3, <4>2 DEF TakingDown
    <3>5. CASE j # i
      <4>1. Gone(s, ListedOf(s))
        BY <1>5, <1>7, <2>1, <3>1, <3>2, <3>3, <3>5 DEF TakingDown
      <4> QED
        BY <3>1, <4>1 DEF Gone, ListedOf
    <3> QED
      BY <3>4, <3>5
  <2> QED
    BY <2>2, <2>3, <2>4, <2>5
<1> QED
  BY <1>6, <1>7

\* So do the steps outside commands.
LEMMA OthersKeepStopping ==
  ASSUME Types, Stopping,
         \/ \E p \in Invocations : Issue(p)
         \/ \E s \in Services : Terminated(s)
         \/ Deploy \/ UNCHANGED vars
  PROVE  Stopping'
<1> SUFFICES ASSUME NEW p \in Invocations, Busy(p)', stack'[p][1].cmd = "stop", stack'[p][1].at = "next",
                    "force" \in stack'[p][1].opts, mark'[p] = faults',
                    NEW j \in DOMAIN StopLists["stop"] \ stack'[p][1].todo,
                    StopLists["stop"][j] # "chain"
             PROVE  (Gone(StopLists["stop"][j], ListedOf(StopLists["stop"][j]))
                       \/ TakingDown(p, StopLists["stop"][j]))'
  BY DEF Stopping
<1> DEFINE s == StopLists["stop"][j]
<1>1. stack'[p] = stack[p] /\ mark'[p] = mark[p] /\ faults' = faults
  BY OtherEffects
<1>2. s \in Services /\ \A r \in ListedOf(s) : r.name \in NamesOf[s]
  BY StopFacts, ReleaseIsNamed DEF ListedOf
<1>3. Gone(s, ListedOf(s)) \/ TakingDown(p, s)
  BY <1>1 DEF Stopping, Busy
<1>4. /\ ns[s] # "active" => ns'[s] # "active"
      /\ \A n \in NamesOf[s] : release[s][n] = "none" => release'[s][n] = "none"
  BY <1>2, OtherEffects, OthersKeepGone
<1>5. CASE Gone(s, ListedOf(s))
  BY <1>2, <1>4, <1>5 DEF Gone, ListedOf
<1>6. CASE TakingDown(p, s)
  BY <1>1, <1>6 DEF TakingDown
<1> QED
  BY <1>3, <1>5, <1>6

(***************************************************************************)
(* Commands run one at a time: when a forced `down` that met no failure    *)
(* comes to wiping the state, every service on its list is gone from the   *)
(* cluster, or its namespace is going, as far as down can see its          *)
(* releases, whatever was there before.                                    *)
(***************************************************************************)
THEOREM ForcedStopClearsAll ==
  ASSUME Solo
  PROVE  Spec => []ForcedStopClears
<1>1. Init => Stopping
  BY DEF Init, Stopping, Busy
<1>2. Base /\ Nested /\ MarksPast /\ Stopping /\ [Next]_vars => Stopping'
  BY StoppingStep, OthersKeepStopping DEF Next, Base
<1>3. Types /\ Nested /\ Stopping => ForcedStopClears
  <2> SUFFICES ASSUME Types, Nested, Stopping, NEW p \in Invocations, Cleaning(p), mark[p] = faults,
                      "force" \in Top(p).opts, NEW j \in DOMAIN StopLists["stop"],
                      StopLists["stop"][j] # "chain"
               PROVE  Gone(StopLists["stop"][j], ListedOf(StopLists["stop"][j]))
    BY DEF ForcedStopClears, ListedOf
  <2>1. /\ Busy(p) /\ Top(p).cmd = "stop" /\ Top(p).at = "next" /\ Top(p).todo = {}
        /\ Top(p) = stack[p][Len(stack[p])] /\ Len(stack[p]) \in Nat /\ Len(stack[p]) > 0
    BY TopFacts DEF Cleaning, In, Types
  <2>2. Len(stack[p]) = 1
    <3>1. Len(stack[p]) \notin 2 .. Len(stack[p])
      BY <2>1 DEF Nested, Inside
    <3> QED
      BY <2>1, <3>1, LastOfMany
  <2> QED
    BY <2>1, <2>2 DEF Stopping, TakingDown
<1>4. Spec => []Base /\ []Nested /\ []MarksPast
  BY BaseHolds, NestedHolds, MarksPastHolds
<1>5. Base => Types
  BY DEF Base
<1> QED
  BY <1>1, <1>2, <1>3, <1>4, <1>5, PTL DEF Spec

-----------------------------------------------------------------------------
(***************************************************************************)
(* How far a rebuild has come, as long as nothing has failed: what is      *)
(* checked out, then what has been pushed, then that the record is gone    *)
(* when up starts, then what up has installed.                             *)
(***************************************************************************)
Rolls(p) == Busy(p) /\ stack[p][1].cmd = "rebuild" /\ stack[p][1].svc \in Rolled

BuildRolls(p) ==
    LET s == stack[p][1].svc IN
    \/ Len(stack[p]) = 1 /\ pushed[s] = Asked
    \/ Len(stack[p]) = 2 /\ (stack[p][2].at = "mark" => pushed[s] = Asked)

DownRolls(p) ==
    LET s == stack[p][1].svc IN
    /\ pushed[s] = Asked
    /\ \/ Len(stack[p]) = 1 /\ ~running[s]
       \/ Len(stack[p]) = 2 /\ (stack[p][2].at \in {"then", "end"} => ~running[s])

RunsAt(s, places, content) ==
    \A i \in places : Up[s].plan[i].image => release[s][Up[s].plan[i].name] = content

UpRolls(p) ==
    LET s == stack[p][1].svc
        g == stack[p][2]
    IN
    /\ pushed[s] = Asked
    /\ \/ Len(stack[p]) = 1 /\ running[s] /\ RunsAt(s, Slots(s), Asked)
       \/ /\ Len(stack[p]) = 2
          /\ g.at = "start" => ~running[s]
          /\ g.at \in {"release", "secret", "helm"} =>
                image[s] /\ RunsAt(s, Slots(s) \ g.todo, Asked)
       \/ Len(stack[p]) = 3 /\ stack[p][3].cmd = "build"

RollOK(p) ==
    LET f == stack[p][1] IN
    /\ f.at # "start" => source[f.svc] = Asked
    /\ f.at \in {"start", "build"} => Len(stack[p]) = 1
    /\ f.at = "down" => BuildRolls(p)
    /\ f.at = "up" => DownRolls(p)
    /\ f.at = "end" => UpRolls(p)

Rolling == faults = 0 => \A p \in Invocations : Rolls(p) => RollOK(p)

\* A service whose rebuild is followed to the end.
LEMMA RolledFacts ==
  ASSUME NEW s \in Rolled
  PROVE  /\ s \in Strict /\ s \in Services /\ s \in DOMAIN Build
         /\ s # "oracle" /\ s # "dockerRegistry"
         /\ Build[s].checkout = "kept" /\ Build[s].from = s /\ s \in Build[s].images
         /\ Up[s].builds /\ Up[s].starts = {} /\ Down[s].then = {}
         /\ \E i \in Slots(s) : Up[s].plan[i].listed
<1>1. s \in Strict /\ s \in Rebuildable /\ Build[s].checkout = "kept"
  BY DEF Rolled
<1>2. s \in Services /\ s \in DOMAIN Build /\ s # "dockerRegistry"
  BY <1>1, TableFacts, StrictFacts
<1>3. /\ "oracle" \notin Strict
      /\ Build[s].from = s /\ s \in Build[s].images /\ Up[s].builds
      /\ Up[s].starts = {} /\ Down[s].then = {}
      /\ \E r \in ReleasesOf[s] : r.listed
  BY HandlersAssumption
<1> QED
  BY <1>1, <1>2, <1>3 DEF ReleasesOf

\* Whoever returns leaves the frames below as they are.
LEMMA ReturnLeaves ==
  ASSUME StackOK, NEW p \in Invocations, Busy(p), Return(p)
  PROVE  /\ Len(stack'[p]) = Len(stack[p]) - 1
         /\ \A i \in 1 .. Len(stack[p]) - 1 : stack'[p][i] = stack[p][i]
         /\ IF Len(stack[p]) = 1 THEN ~Busy(p)' ELSE stack'[p][1] = stack[p][1]
<1>1. Cuts(p, Len(stack[p]) - 1)
  BY Returns
<1>2. /\ stack'[p] \in Seq(Frames) /\ Len(stack'[p]) = Len(stack[p]) - 1
      /\ \A i \in 1 .. Len(stack[p]) - 1 : stack'[p][i] = stack[p][i]
  BY <1>1 DEF Cuts, Keeps
<1>3. CASE Len(stack[p]) = 1
  <2>1. Len(stack'[p]) = 0
    BY <1>2, <1>3
  <2> QED
    BY <1>2, <1>3, <2>1, EmptySeq DEF Busy
<1>4. CASE Len(stack[p]) # 1
  <2>1. Len(stack[p]) \in Nat /\ Len(stack[p]) > 0
    BY TopFacts
  <2>2. 1 \in 1 .. Len(stack[p]) - 1
    BY <1>4, <2>1, LastOfMany
  <2> QED
    BY <1>2, <1>4, <2>2
<1> QED
  BY <1>3, <1>4

\* An error that no frame catches ends the command.
LEMMA UncaughtEnds ==
  ASSUME StackOK, NEW p \in Invocations, Busy(p), Throw(p),
         \A i \in 1 .. Len(stack[p]) - 1 : ~Catches(stack[p][i])
  PROVE  ~Busy(p)'
<1>1. PICK n \in 0 .. Len(stack[p]) - 1 : Cuts(p, n) /\ (n > 0 => Catches(stack[p][n]))
  BY Throws
<1>2. Len(stack[p]) \in Nat
  BY TopFacts
<1>3. n = 0
  BY <1>1, <1>2
<1>4. stack'[p] \in Seq(Frames) /\ Len(stack'[p]) = 0
  BY <1>1, <1>3 DEF Cuts, Keeps
<1> QED
  BY <1>4, EmptySeq DEF Busy

\* The frames of such a rebuild.
LEMMA RollFrames ==
  ASSUME Types, Paired, NEW p \in Invocations, Rolls(p), Len(stack[p]) # 1
  PROVE  LET f == stack[p][1]
             g == stack[p][2]
         IN  \/ f.at = "down" /\ g.cmd = "build" /\ g.svc = f.svc
             \/ f.at = "up" /\ g.cmd = "down" /\ g.svc = f.svc /\ g.opts = {}
             \/ f.at = "end" /\ g.cmd = "up" /\ g.svc = f.svc /\ g.opts = {} /\ g.ref = "none"
<1>1. Len(stack[p]) \in Nat /\ Len(stack[p]) > 0
  BY TopFacts DEF Types, Rolls
<1>2. CalledBy(stack[p][1], stack[p][2])
  <2>1. 1 \in 1 .. Len(stack[p]) - 1
    BY <1>1, LastOfMany
  <2> QED
    BY <2>1 DEF Paired
<1>3. stack[p][1].cmd = "rebuild" /\ stack[p][1].svc # "oracle"
  BY RolledFacts DEF Rolls
<1> QED
  BY <1>2, <1>3 DEF CalledBy, SameCall, BuildCommand, DownCommand, Command

\* The build: what is checked out is what is pushed.
LEMMA BuildRollsStep ==
  ASSUME Base, NEW p \in Invocations, Advance(p), Rolls(p), Len(stack[p]) = 2,
         stack[p][1].at = "down", source[stack[p][1].svc] = Asked, BuildRolls(p), Busy(p)'
  PROVE  /\ stack'[p][1] = stack[p][1] /\ source'[stack[p][1].svc] = Asked
         /\ BuildRolls(p)'
<1> DEFINE s == stack[p][1].svc
<1>0. /\ StackOK /\ DataOK /\ Paired /\ Busy(p) /\ Top(p) = stack[p][2]
      /\ Top(p).cmd = "build" /\ Top(p).svc = s
  BY RollFrames DEF Base, Types, Rolls, Top
<1>1. /\ s \in Services /\ Build[s].checkout = "kept" /\ Build[s].from = s /\ s \in Build[s].images
  BY RolledFacts DEF Rolls
<1>2. ~Throw(p)
  <2>1. \A i \in 1 .. Len(stack[p]) - 1 : i = 1
    OBVIOUS
  <2>2. ~Catches(stack[p][1])
    BY DEF Rolls, Catches
  <2> QED
    BY <1>0, <2>1, <2>2, UncaughtEnds
<1>3. ASSUME NEW at, NEW todo, Goes(p, at, todo)
      PROVE  Len(stack'[p]) = 2 /\ stack'[p][1] = stack[p][1] /\ stack'[p][2].at = at
  BY <1>0, <1>3 DEF Goes, Top
<1>4. CASE BuildStart(p)
  <2>1. source' = source /\ pushed' = pushed /\ GoTo(p, "push")
    BY <1>0, <1>1, <1>2, <1>4 DEF BuildStart
  <2>2. Goes(p, "push", Top(p).todo)
    BY <1>0, <2>1, GoToGoes DEF Ats
  <2> QED
    BY <1>3, <2>1, <2>2 DEF BuildRolls
<1>5. CASE BuildPush(p)
  <2>1. source' = source /\ pushed'[s] = Asked /\ GoTo(p, "mark")
    BY <1>0, <1>1, <1>5 DEF BuildPush
  <2>2. Goes(p, "mark", Top(p).todo)
    BY <1>0, <2>1, GoToGoes DEF Ats
  <2> QED
    BY <1>3, <2>1, <2>2 DEF BuildRolls
<1>6. CASE BuildMark(p)
  <2>1. UNCHANGED <<source, pushed>> /\ Return(p) /\ Top(p).at = "mark"
    BY <1>6 DEF BuildMark, In, code
  <2>2. Len(stack'[p]) = 1 /\ stack'[p][1] = stack[p][1]
    <3>1. /\ Len(stack'[p]) = Len(stack[p]) - 1
          /\ Len(stack[p]) # 1 => stack'[p][1] = stack[p][1]
      BY <1>0, <2>1, ReturnLeaves
    <3> QED
      BY <3>1
  <2> QED
    BY <1>0, <2>1, <2>2 DEF BuildRolls
<1> QED
  BY <1>0, <1>4, <1>5, <1>6, Handlers

\* The down: it comes back when the record is gone, or finds that it was.
LEMMA DownRollsStep ==
  ASSUME Base, Fresh, Solo, faults = 0, NEW p \in Invocations, Advance(p), Rolls(p),
         Len(stack[p]) = 2, stack[p][1].at = "up", DownRolls(p)
  PROVE  /\ stack'[p][1] = stack[p][1] /\ source' = source
         /\ DownRolls(p)'
<1> DEFINE s == stack[p][1].svc
<1>0. /\ StackOK /\ DataOK /\ Paired /\ Busy(p) /\ Top(p) = stack[p][2] /\ ~KeepDb(Top(p))
      /\ Top(p).cmd = "down" /\ Top(p).svc = s
  BY RollFrames DEF Base, Types, Rolls, Top, KeepDb
<1>1. s \in Services /\ s \in Strict /\ Down[s].then = {} /\ \E i \in Slots(s) : Up[s].plan[i].listed
  BY RolledFacts DEF Rolls
<1>2. pushed' = pushed /\ source' = source
  BY <1>0, Handlers DEF DownStart, DownListing, HelmUninstall, DeleteNamespace, Forget, DownKeepingDb,
     DownThen, DownEnd, code
<1>3. ASSUME NEW at, NEW todo, Goes(p, at, todo)
      PROVE  Len(stack'[p]) = 2 /\ stack'[p][1] = stack[p][1] /\ stack'[p][2].at = at
  BY <1>0, <1>3 DEF Goes, Top
<1>4. ASSUME Return(p), ~running'[s]
      PROVE  stack'[p][1] = stack[p][1] /\ DownRolls(p)'
  <2>1. Len(stack'[p]) = 1 /\ stack'[p][1] = stack[p][1]
    <3>1. /\ Len(stack'[p]) = Len(stack[p]) - 1
          /\ Len(stack[p]) # 1 => stack'[p][1] = stack[p][1]
      BY <1>0, <1>4, ReturnLeaves
    <3> QED
      BY <3>1
  <2> QED
    BY <1>2, <1>4, <2>1 DEF DownRolls
<1>5. ASSUME NEW at, at \notin {"then", "end"}, NEW todo, Goes(p, at, todo)
      PROVE  stack'[p][1] = stack[p][1] /\ DownRolls(p)'
  BY <1>2, <1>3, <1>5 DEF DownRolls
<1>6. CASE DownStart(p)
  <2>1. CASE Return(p) /\ ~running[s]
    BY <1>2, <1>4, <1>6, <2>1 DEF DownStart, state
  <2>2. CASE GoTo(p, "list")
    BY <1>0, <1>2, <1>5, <2>2, GoToGoes DEF Ats
  <2> QED
    BY <1>0, <1>6, <2>1, <2>2 DEF DownStart
<1>7. CASE DownListing(p)
  <2>1. CASE Listed(s) = {} /\ Return(p)
    <3>1. Top(p).at = "list"
      BY <1>7 DEF DownListing, In
    <3>2. ~Leaving(s)
      BY <3>1 DEF Leaving, Solo, At
    <3>3. ~Whole(s)
      BY <1>1, <2>1, PlanFacts DEF Listed, Whole
    <3>4. ~running[s]
      BY <1>1, <3>2, <3>3 DEF Fresh
    <3> QED
      BY <1>2, <1>4, <1>7, <2>1, <3>4 DEF DownListing, state
  <2>2. CASE Goes(p, "uninstall", Picked(Top(p)))
    BY <1>2, <1>5, <2>2
  <2> QED
    BY <1>0, <1>7, <2>1, <2>2, DownListingGoes
<1>8. CASE HelmUninstall(p)
  BY <1>2, <1>5, <1>8, UninstallFacts DEF Base
<1>9. CASE DeleteNamespace(p)
  BY <1>0, <1>2, <1>5, <1>9, GoToGoes DEF DeleteNamespace, Ats
<1>10. CASE Forget(p)
  <2>1. ~running'[s] /\ GoTo(p, "then")
    BY <1>0, <1>1, <1>10 DEF Forget, DataOK
  <2>2. Goes(p, "then", Top(p).todo)
    BY <1>0, <2>1, GoToGoes DEF Ats
  <2> QED
    BY <1>2, <1>3, <2>1, <2>2 DEF DownRolls
<1>11. CASE DownThen(p)
  <2>1. running' = running /\ Become(p, [Top(p) EXCEPT !.at = "end"]) /\ Top(p).at = "then"
    BY <1>0, <1>1, <1>11 DEF DownThen, In, state
  <2>2. Goes(p, "end", Top(p).todo)
    BY <1>0, <2>1, GoToGoes DEF GoTo, Ats
  <2> QED
    BY <1>0, <1>2, <1>3, <2>1, <2>2 DEF DownRolls
<1>12. CASE DownEnd(p)
  <2>1. running' = running /\ Return(p) /\ Top(p).at = "end"
    BY <1>12 DEF DownEnd, In, state
  <2>2. ~running[s]
    BY <1>0, <2>1 DEF DownRolls
  <2> QED
    BY <1>2, <1>4, <2>1, <2>2
<1> QED
  BY <1>0, <1>6, <1>7, <1>8, <1>9, <1>10, <1>11, <1>12, Handlers DEF DownKeepingDb

\* The build that up calls pushes the same again.
LEMMA UpBuildRollsStep ==
  ASSUME Base, NEW p \in Invocations, Advance(p), Rolls(p), Len(stack[p]) = 3,
         stack[p][1].at = "end", source[stack[p][1].svc] = Asked, UpRolls(p), Busy(p)'
  PROVE  /\ stack'[p][1] = stack[p][1] /\ source'[stack[p][1].svc] = Asked
         /\ UpRolls(p)'
<1> DEFINE s == stack[p][1].svc
<1>0. /\ StackOK /\ DataOK /\ Paired /\ Busy(p) /\ Top(p) = stack[p][3]
      /\ Top(p).cmd = "build" /\ pushed[s] = Asked
      /\ stack[p][2].cmd = "up" /\ stack[p][2].svc = s
  BY RollFrames DEF Base, Types, Rolls, Top, UpRolls
<1>1. /\ s \in Services /\ Build[s].checkout = "kept" /\ Build[s].from = s /\ s \in Build[s].images
  BY RolledFacts DEF Rolls
<1>2. stack[p][2].at = "image" /\ Top(p).svc = s
  <2>1. 2 \in 1 .. Len(stack[p]) - 1 /\ 2 + 1 = 3
    OBVIOUS
  <2>2. CalledBy(stack[p][2], stack[p][3])
    BY <1>0, <2>1 DEF Paired
  <2> QED
    BY <1>0, <2>2 DEF CalledBy, SameCall, UpCommand, BuildCommand, Command
<1>3. ~Throw(p)
  <2>1. \A i \in 1 .. Len(stack[p]) - 1 : i = 1 \/ i = 2
    OBVIOUS
  <2>2. ~Catches(stack[p][1]) /\ ~Catches(stack[p][2])
    BY <1>0 DEF Rolls, Catches
  <2> QED
    BY <1>0, <2>1, <2>2, UncaughtEnds
<1>4. ASSUME NEW at, NEW todo, Goes(p, at, todo)
      PROVE  Len(stack'[p]) = 3 /\ stack'[p][1] = stack[p][1] /\ stack'[p][3].cmd = "build"
  BY <1>0, <1>4 DEF Goes, Top, SameCall
<1>5. CASE BuildStart(p)
  <2>1. source' = source /\ pushed' = pushed /\ GoTo(p, "push")
    BY <1>0, <1>1, <1>2, <1>3, <1>5 DEF BuildStart
  <2>2. Goes(p, "push", Top(p).todo)
    BY <1>0, <2>1, GoToGoes DEF Ats
  <2> QED
    BY <1>0, <1>4, <2>1, <2>2 DEF UpRolls
<1>6. CASE BuildPush(p)
  <2>1. source' = source /\ pushed'[s] = Asked /\ GoTo(p, "mark")
    BY <1>1, <1>2, <1>6 DEF BuildPush
  <2>2. Goes(p, "mark", Top(p).todo)
    BY <1>0, <2>1, GoToGoes DEF Ats
  <2> QED
    BY <1>4, <2>1, <2>2 DEF UpRolls
<1>7. CASE BuildMark(p)
  <2>1. UNCHANGED <<source, pushed>> /\ Return(p)
    BY <1>7 DEF BuildMark, code
  <2>2. /\ Len(stack'[p]) = Len(stack[p]) - 1
        /\ \A i \in 1 .. Len(stack[p]) - 1 : stack'[p][i] = stack[p][i]
    BY <1>0, <2>1, ReturnLeaves
  <2>3. Len(stack'[p]) = 2 /\ stack'[p][1] = stack[p][1] /\ stack'[p][2] = stack[p][2]
    BY <2>2
  <2> QED
    BY <1>0, <1>2, <2>1, <2>3 DEF UpRolls
<1> QED
  BY <1>0, <1>5, <1>6, <1>7, Handlers

\* A command called from the first frame is the second, ...
LEMMA CallOverOne ==
  ASSUME StackOK, NEW p \in Invocations, Busy(p), NEW f, NEW c, Call(p, f, c)
  PROVE  Len(stack[p]) = 1 => Len(stack'[p]) = 2 /\ stack'[p][1] = f /\ stack'[p][2] = c
<1>1. /\ Len(stack'[p]) = Len(stack[p]) + 1
      /\ stack'[p][Len(stack[p])] = f
      /\ stack'[p][Len(stack[p]) + 1] = c
  BY NewCall
<1> QED
  BY <1>1

\* ... and one called from the second is the third.
LEMMA CallOverTwo ==
  ASSUME StackOK, NEW p \in Invocations, Busy(p), NEW f, NEW c, Call(p, f, c)
  PROVE  Len(stack[p]) = 2
            => Len(stack'[p]) = 3 /\ stack'[p][1] = stack[p][1] /\ stack'[p][3] = c
<1>1. /\ Len(stack'[p]) = Len(stack[p]) + 1
      /\ \A i \in 1 .. Len(stack[p]) - 1 : stack'[p][i] = stack[p][i]
      /\ stack'[p][Len(stack[p]) + 1] = c
  BY NewCall
<1> QED
  BY <1>1

\* A frame that goes on does so in its place, under the same callers.
LEMMA GoesOverOne ==
  ASSUME NEW p \in Invocations, NEW at, NEW todo, Goes(p, at, todo)
  PROVE  Len(stack[p]) = 2 => /\ Len(stack'[p]) = 2 /\ stack'[p][1] = stack[p][1]
                              /\ stack'[p][2].at = at /\ stack'[p][2].todo = todo
<1>1. /\ Len(stack'[p]) = Len(stack[p])
      /\ \A i \in 1 .. Len(stack[p]) - 1 : stack'[p][i] = stack[p][i]
      /\ stack'[p][Len(stack'[p])].at = at /\ stack'[p][Len(stack'[p])].todo = todo
  BY DEF Goes, Top
<1> QED
  BY <1>1

\* The up: it is not skipped, and what it installs is what was pushed.
LEMMA UpRollsStep ==
  ASSUME Base, NEW p \in Invocations, Advance(p), Rolls(p), Len(stack[p]) = 2,
         stack[p][1].at = "end", UpRolls(p), Busy(p)'
  PROVE  /\ stack'[p][1] = stack[p][1] /\ source' = source
         /\ UpRolls(p)'
<1> DEFINE s == stack[p][1].svc
           g == stack[p][2]
           Now(places) == \A i \in places : Up[s].plan[i].image
                             => release'[s][Up[s].plan[i].name] = Asked
<1>0. /\ StackOK /\ DataOK /\ Paired /\ Busy(p) /\ Top(p) = g /\ Top(p) \in Frames
      /\ WellFormed(Top(p)) /\ Top(p).cmd = "up" /\ Top(p).svc = s /\ Top(p).opts = {}
      /\ Top(p).ref = "none" /\ pushed[s] = Asked
      /\ g.at = "start" => ~running[s]
      /\ g.at \in {"release", "secret", "helm"} => image[s] /\ RunsAt(s, Slots(s) \ g.todo, Asked)
  BY RollFrames, TopFacts DEF Base, Types, Rolls, Top, UpRolls
<1>1. /\ s \in Services /\ s \in Strict /\ Up[s].starts = {} /\ Up[s].builds
      /\ s # "dockerRegistry" /\ s # "oracle"
  BY RolledFacts DEF Rolls
<1>2. pushed' = pushed /\ source' = source /\ image' = image
  BY <1>0, Handlers DEF UpStart, UpStarts, UpStarted, UpImage, UpRelease, PushPullSecret, HelmInstall,
     HelmRefused, UpRecord, code, state
<1>3. ~Throw(p)
  <2>1. \A i \in 1 .. Len(stack[p]) - 1 : i = 1
    OBVIOUS
  <2>2. ~Catches(stack[p][1])
    BY DEF Rolls, Catches
  <2> QED
    BY <1>0, <2>1, <2>2, UncaughtEnds
<1>4. ASSUME NEW at, NEW todo, Goes(p, at, todo), at # "start",
             at \in {"release", "secret", "helm"} => image[s] /\ Now(Slots(s) \ todo)
      PROVE  stack'[p][1] = stack[p][1] /\ UpRolls(p)'
  <2>1. /\ Len(stack'[p]) = 2 /\ stack'[p][1] = stack[p][1]
        /\ stack'[p][2].at = at /\ stack'[p][2].todo = todo
    BY <1>4, GoesOverOne
  <2>2. pushed'[s] = Asked /\ (at \in {"release", "secret", "helm"} => image'[s])
    BY <1>0, <1>2, <1>4
  <2>3. at \in {"release", "secret", "helm"} => RunsAt(s, Slots(s) \ g.todo, Asked)'
    BY <1>4, <2>1 DEF RunsAt
  <2> QED
    BY <1>4, <2>1, <2>2, <2>3 DEF UpRolls
<1>5. CASE UpStart(p)
  <2>1. ~AlreadyUp(Top(p))
    BY <1>0, <1>1, <1>5 DEF AlreadyUp, UpStart, In
  <2> DEFINE h == [Top(p) EXCEPT !.at = "starts", !.was = running[s]]
  <2>2. Become(p, h)
    BY <1>0, <1>3, <1>5, <2>1 DEF UpStart
  <2>3. SameCall(Top(p), h) /\ h.at = "starts" /\ h.todo = h.todo
    BY <1>0, FrameFacts DEF SameCall
  <2> HIDE DEF h
  <2>4. Goes(p, "starts", h.todo)
    BY <1>0, <2>2, <2>3, BecomeGoes
  <2> QED
    BY <1>2, <1>4, <2>4
<1>6. CASE UpStarts(p)
  <2>1. GoTo(p, "started")
    BY <1>0, <1>1, <1>6 DEF UpStarts, GoTo
  <2>2. Goes(p, "started", Top(p).todo)
    BY <1>0, <2>1, GoToGoes DEF Ats
  <2> QED
    BY <1>2, <1>4, <2>2
<1>7. CASE UpStarted(p)
  <2> DEFINE h == [Top(p) EXCEPT !.at = "image"]
             c == BuildCommand(s)
  <2>1. Call(p, h, c)
    BY <1>0, <1>1, <1>7 DEF UpStarted, Builds
  <2> HIDE DEF h, c
  <2>2. Len(stack'[p]) = 3 /\ stack'[p][1] = stack[p][1] /\ stack'[p][3] = c
    BY <1>0, <2>1, CallOverTwo
  <2> QED
    BY <1>0, <1>2, <2>2 DEF UpRolls, c, BuildCommand, Command
<1>8. CASE UpImage(p)
  <2>1. Goes(p, "release", Slots(s))
    BY <1>0, <1>1, <1>3, <1>8, UpImageGoes, StrictFacts
  <2>2. image[s]
    BY <1>0, <1>1, <1>3, <1>8 DEF UpImage, Builds
  <2>3. Now(Slots(s) \ Slots(s))
    OBVIOUS
  <2> QED
    BY <1>2, <1>4, <2>1, <2>2, <2>3
<1>9. CASE UpRelease(p)
  <2>1. Top(p).at = "release" /\ Top(p).todo # {} /\ release' = release
    BY <1>9 DEF UpRelease, In
  <2>2. NextRelease(Top(p)).rule # "missing"
    BY <1>0, <1>1, <2>1, NextReleaseIsOne, StrictFacts
  <2>3. Goes(p, "secret", Top(p).todo) \/ Goes(p, "helm", Top(p).todo)
    BY <1>0, <1>9, <2>2, UpReleaseGoes
  <2>4. Now(Slots(s) \ Top(p).todo)
    BY <1>0, <2>1 DEF RunsAt
  <2> QED
    BY <1>0, <1>2, <1>4, <2>1, <2>3, <2>4
<1>10. CASE PushPullSecret(p)
  <2>1. Top(p).at = "secret" /\ GoTo(p, "helm") /\ release' = release
    BY <1>10 DEF PushPullSecret, In
  <2>2. Goes(p, "helm", Top(p).todo)
    BY <1>0, <2>1, GoToGoes DEF Ats
  <2>3. Now(Slots(s) \ Top(p).todo)
    BY <1>0, <2>1 DEF RunsAt
  <2> QED
    BY <1>0, <1>2, <1>4, <2>1, <2>2, <2>3
<1>11. CASE HelmInstall(p)
  <2> DEFINE j == Place(Top(p))
             left == Top(p).todo \ {j}
  <2>1. /\ j \in Slots(s) /\ NextRelease(Top(p)) = Up[s].plan[j] /\ Top(p).at = "helm"
        /\ Goes(p, "release", left)
        /\ \A n \in NamesOf[s] :
              release'[s][n] = IF n = Up[s].plan[j].name
                               THEN IF Up[s].plan[j].image THEN Image(Top(p)) ELSE "published"
                               ELSE release[s][n]
    <3>1. Top(p).at = "helm"
      BY <1>11 DEF HelmInstall, In
    <3>2. /\ j \in Slots(Top(p).svc) /\ NextRelease(Top(p)) = Up[Top(p).svc].plan[j]
          /\ Goes(p, "release", left)
          /\ \A n \in NamesOf[Top(p).svc] :
                release'[Top(p).svc][n] =
                   IF n = NextRelease(Top(p)).name
                   THEN IF NextRelease(Top(p)).image THEN Image(Top(p)) ELSE "published"
                   ELSE release[Top(p).svc][n]
      BY <1>11, InstallFacts DEF Base
    <3>3. Top(p).svc = s
      BY <1>0
    <3> HIDE DEF s, j, left
    <3> QED
      BY <3>1, <3>2, <3>3
  <2>2. Image(Top(p)) = Asked
    BY <1>0, <1>1, <2>1 DEF Image
  <2> HIDE DEF j
  <2>3. ASSUME NEW i \in Slots(s) \ left, Up[s].plan[i].image
        PROVE  release'[s][Up[s].plan[i].name] = Asked
    <3>1. Up[s].plan[i].name \in NamesOf[s]
      BY <1>1, <2>3, PlanFacts
    <3>2. CASE i = j
      BY <2>1, <2>2, <2>3, <3>1, <3>2
    <3>3. CASE i # j
      <4>1. Up[s].plan[i].name # Up[s].plan[j].name
        BY <1>1, <2>1, <2>3, <3>3, StrictFacts
      <4>2. release[s][Up[s].plan[i].name] = Asked
        BY <1>0, <2>1, <2>3, <3>3 DEF RunsAt
      <4> QED
        BY <2>1, <3>1, <4>1, <4>2
    <3> QED
      BY <3>2, <3>3
  <2>4. Now(Slots(s) \ left)
    BY <2>3
  <2> QED
    BY <1>0, <1>2, <1>4, <2>1, <2>4
<1>12. ~HelmRefused(p)
  <2> SUFFICES ASSUME HelmRefused(p) PROVE FALSE
    OBVIOUS
  <2>1. Top(p).at = "helm" /\ HelmFailed(p)
    BY DEF HelmRefused, In
  <2>2. Top(p).todo # {}
    BY <1>0, <2>1 DEF WellFormed
  <2>3. NextRelease(Top(p)).rule \notin {"missing", "refresh"}
    BY <1>0, <1>1, <2>2, NextReleaseIsOne, StrictFacts
  <2> QED
    BY <1>3, <2>1, <2>3 DEF HelmFailed
<1>13. CASE UpRecord(p)
  <2>1. /\ Top(p).at = "release" /\ Top(p).todo = {} /\ Return(p) /\ release' = release
        /\ running'[s]
    BY <1>0, <1>1, <1>13 DEF UpRecord, In, DataOK, cluster
  <2>2. Len(stack'[p]) = 1 /\ stack'[p][1] = stack[p][1]
    <3>1. /\ Len(stack'[p]) = Len(stack[p]) - 1
          /\ Len(stack[p]) # 1 => stack'[p][1] = stack[p][1]
      BY <1>0, <2>1, ReturnLeaves
    <3> QED
      BY <3>1
  <2>3. Now(Slots(s))
    BY <1>0, <2>1 DEF RunsAt
  <2>4. RunsAt(s, Slots(s), Asked)'
    BY <2>2, <2>3 DEF RunsAt
  <2>5. pushed'[s] = Asked
    BY <1>0, <1>2
  <2> QED
    BY <1>2, <2>1, <2>2, <2>4, <2>5 DEF UpRolls
<1> QED
  BY <1>0, <1>2, <1>5, <1>6, <1>7, <1>8, <1>9, <1>10, <1>11, <1>12, <1>13, Handlers

\* The rebuild itself: each of its commands starts where the one before left off.
LEMMA RootRollsStep ==
  ASSUME Base, NEW p \in Invocations, Advance(p), Rolls(p), Len(stack[p]) = 1, RollOK(p), Busy(p)'
  PROVE  RollOK(p)'
<1> DEFINE f == stack[p][1]
           s == f.svc
<1>0. /\ StackOK /\ DataOK /\ Paired /\ Busy(p) /\ Top(p) = f /\ Top(p).cmd = "rebuild"
      /\ Top(p) \in Frames /\ Top(p).ref = Asked /\ s \in Services /\ s # "oracle"
  BY TopFacts, RebuildFacts, RolledFacts DEF Base, Types, Rolls, Top
<1>1. UNCHANGED <<running, pushed>>
  BY <1>0, Handlers DEF RebuildCheckout, RebuildBuild, RebuildDown, RebuildUp, RebuildEnd, state,
     code
<1>2. ~Return(p)
  BY <1>0, ReturnLeaves
<1>3. CASE RebuildCheckout(p)
  <2>1. source'[s] = Asked /\ GoTo(p, "build")
    BY <1>0, <1>3 DEF RebuildCheckout, DataOK
  <2>2. Goes(p, "build", Top(p).todo)
    BY <1>0, <2>1, GoToGoes DEF Ats
  <2>3. Len(stack'[p]) = 1 /\ stack'[p][1].at = "build" /\ stack'[p][1].svc = s
    BY <1>0, <2>2 DEF Goes, SameCall, Top
  <2> QED
    BY <2>1, <2>3 DEF RollOK
<1>4. ASSUME NEW at \in Ats, NEW c, Call(p, [Top(p) EXCEPT !.at = at], c), c.at = "start"
      PROVE  /\ Len(stack'[p]) = 2 /\ stack'[p][1].at = at /\ stack'[p][1].svc = s
             /\ stack'[p][2].at = "start"
  <2> DEFINE h == [Top(p) EXCEPT !.at = at]
  <2>1. h.at = at /\ h.svc = s
    BY <1>0, FrameAt DEF SameCall
  <2>2. Call(p, h, c)
    BY <1>4
  <2> HIDE DEF h
  <2>3. Len(stack'[p]) = 2 /\ stack'[p][1] = h /\ stack'[p][2] = c
    BY <1>0, <2>2, CallOverOne
  <2> QED
    BY <1>4, <2>1, <2>3
<1>5. CASE RebuildBuild(p)
  <2>1. /\ f.at = "build" /\ source' = source
        /\ Call(p, [Top(p) EXCEPT !.at = "down"], BuildCommand(s))
    BY <1>0, <1>2, <1>5 DEF RebuildBuild, In, code
  <2>2. BuildCommand(s).at = "start" /\ source'[s] = Asked /\ "down" \in Ats
    BY <2>1 DEF BuildCommand, Command, RollOK, Ats
  <2> QED
    BY <1>4, <2>1, <2>2 DEF RollOK, BuildRolls
<1>6. CASE RebuildDown(p)
  <2>1. /\ f.at = "down" /\ source' = source
        /\ Call(p, [Top(p) EXCEPT !.at = "up"], DownCommand(s, {}))
    BY <1>0, <1>6 DEF RebuildDown, In, code
  <2>2. /\ DownCommand(s, {}).at = "start" /\ source'[s] = Asked /\ pushed[s] = Asked /\ "up" \in Ats
    BY <2>1 DEF DownCommand, Command, RollOK, BuildRolls, Ats
  <2> QED
    BY <1>1, <1>4, <2>1, <2>2 DEF RollOK, DownRolls
<1>7. CASE RebuildUp(p)
  <2>1. /\ f.at = "up" /\ source' = source
        /\ Call(p, [Top(p) EXCEPT !.at = "end"], Command("up", s, {}, "none"))
    BY <1>0, <1>7 DEF RebuildUp, In, code
  <2>2. /\ Command("up", s, {}, "none").at = "start" /\ source'[s] = Asked /\ pushed[s] = Asked
        /\ ~running[s] /\ "end" \in Ats
    BY <2>1 DEF Command, RollOK, DownRolls, Ats
  <2> QED
    BY <1>1, <1>4, <2>1, <2>2 DEF RollOK, UpRolls
<1> QED
  BY <1>0, <1>2, <1>3, <1>5, <1>6, <1>7, Handlers DEF RebuildEnd

\* Every step of a command keeps it.
LEMMA RollingStep ==
  ASSUME Base, Fresh, Rolling, Solo, NEW p \in Invocations, Advance(p) \/ Failure(p)
  PROVE  Rolling'
<1> SUFFICES ASSUME faults' = 0, Rolls(p)' PROVE RollOK(p)'
  BY DEF Rolling, Solo
<1>0. StackOK /\ DataOK /\ Busy(p) /\ Moves(p) /\ faults \in Nat /\ Busy(p)'
  BY StepsMove DEF Base, Types, DataOK, HistoryOK, Rolls
<1>1. Advance(p) /\ faults = 0
  BY <1>0, HistoryMoves
<1>2. Rolls(p)
  BY <1>0, FirstFrame DEF Rolls, SameCall
<1>3. RollOK(p)
  BY <1>1, <1>2 DEF Rolling
<1>4. CASE Len(stack[p]) = 1
  BY <1>0, <1>1, <1>2, <1>3, <1>4, RootRollsStep
<1>5. CASE Len(stack[p]) # 1
  <2>1. stack[p][1].at \in {"down", "up", "end"} /\ source[stack[p][1].svc] = Asked
    BY <1>2, <1>3, <1>5, RollFrames DEF Base, RollOK
  <2>2. CASE stack[p][1].at = "down"
    <3>1. BuildRolls(p) /\ Len(stack[p]) = 2
      BY <1>3, <1>5, <2>2 DEF RollOK, BuildRolls
    <3>2. /\ stack'[p][1] = stack[p][1] /\ source'[stack[p][1].svc] = Asked
          /\ BuildRolls(p)'
      BY <1>0, <1>1, <1>2, <2>1, <2>2, <3>1, BuildRollsStep
    <3> QED
      BY <2>2, <3>2 DEF RollOK
  <2>3. CASE stack[p][1].at = "up"
    <3>1. DownRolls(p) /\ Len(stack[p]) = 2
      BY <1>3, <1>5, <2>3 DEF RollOK, DownRolls
    <3>2. stack'[p][1] = stack[p][1] /\ source' = source /\ DownRolls(p)'
      BY <1>1, <1>2, <2>3, <3>1, DownRollsStep
    <3> QED
      BY <2>1, <2>3, <3>2 DEF RollOK
  <2>4. CASE stack[p][1].at = "end"
    <3>1. UpRolls(p) /\ (Len(stack[p]) = 2 \/ Len(stack[p]) = 3)
      BY <1>3, <1>5, <2>4 DEF RollOK, UpRolls
    <3>2. /\ stack'[p][1] = stack[p][1] /\ source'[stack[p][1].svc] = Asked
          /\ UpRolls(p)'
      <4>1. CASE Len(stack[p]) = 2
        BY <1>0, <1>1, <1>2, <2>1, <2>4, <3>1, <4>1, UpRollsStep
      <4>2. CASE Len(stack[p]) = 3
        BY <1>0, <1>1, <1>2, <2>1, <2>4, <3>1, <4>2, UpBuildRollsStep
      <4> QED
        BY <3>1, <4>1, <4>2
    <3> QED
      BY <2>4, <3>2 DEF RollOK
  <2> QED
    BY <2>1, <2>2, <2>3, <2>4
<1> QED
  BY <1>4, <1>5

\* So do the steps outside commands.
LEMMA OthersKeepRolling ==
  ASSUME Base, Fresh, Rolling, Solo,
         \/ \E p \in Invocations : Issue(p)
         \/ \E s \in Services : Terminated(s)
         \/ Deploy \/ UNCHANGED vars
  PROVE  Rolling'
<1> SUFFICES ASSUME faults' = 0, NEW p \in Invocations, Rolls(p)' PROVE RollOK(p)'
  BY DEF Rolling
<1>1. /\ UNCHANGED <<running, image, pushed, source, faults>>
      /\ stack'[p] = stack[p] \/ (Len(stack'[p]) = 1 /\ stack'[p][1].at = "start")
  BY OtherEffects DEF Base
<1>2. CASE Len(stack'[p]) = 1 /\ stack'[p][1].at = "start"
  BY <1>2 DEF RollOK
<1>3. CASE stack'[p] = stack[p]
  <2> DEFINE s == stack[p][1].svc
  <2>1. Rolls(p) /\ RollOK(p) /\ s \in Strict /\ s \in Services
    BY <1>1, <1>3, RolledFacts DEF Rolls, Rolling, Busy
  <2>2. ns[s] = "active" => release'[s] = release[s]
    BY <2>1, OtherEffects, OthersKeepGone DEF Base
  <2>3. ASSUME stack[p][1].at = "end" PROVE UpRolls(p)'
    <3>1. UpRolls(p)
      BY <2>1, <2>3 DEF RollOK
    <3>2. CASE Len(stack[p]) = 1
      <4>1. ~Leaving(s)
        <5>1. ~At(p, "down", {"uninstall", "forget"})
          BY <2>1, <3>2 DEF At, Top, Rolls
        <5> QED
          BY <5>1 DEF Leaving, Solo
      <4>2. ns[s] = "active"
        BY <1>1, <2>1, <3>1, <3>2, <4>1 DEF UpRolls, Fresh, Whole
      <4>3. /\ pushed'[s] = Asked /\ running'[s]
            /\ \A i \in Slots(s) : Up[s].plan[i].image => release'[s][Up[s].plan[i].name] = Asked
        <5>1. pushed[s] = Asked /\ running[s] /\ RunsAt(s, Slots(s), Asked)
          BY <3>1, <3>2 DEF UpRolls
        <5> HIDE DEF s
        <5>2. release'[s] = release[s]
          BY <2>2, <4>2
        <5> QED
          BY <1>1, <5>1, <5>2 DEF RunsAt
      <4> QED
        BY <1>3, <3>2, <4>3 DEF UpRolls, RunsAt
    <3>3. CASE Len(stack[p]) = 2
      <4>1. /\ Busy(p) /\ Top(p) = stack[p][2] /\ Top(p).cmd = "up" /\ Top(p).svc = s
        BY <2>1, <2>3, <3>3, RollFrames DEF Base, Top, Rolls
      <4>2. ASSUME Top(p).at \in {"release", "secret", "helm"}
            PROVE  \A i \in Slots(s) \ Top(p).todo : ns[s] = "active"
        BY <2>1, <4>1, <4>2 DEF Base, Installing, At
      <4>3. stack[p][2].at = "start" => ~running'[s]
        BY <1>1, <3>1, <3>3 DEF UpRolls
      <4>4. ASSUME stack[p][2].at \in {"release", "secret", "helm"}
            PROVE  /\ image'[s]
                   /\ \A i \in Slots(s) \ stack[p][2].todo :
                         Up[s].plan[i].image => release'[s][Up[s].plan[i].name] = Asked
        <5>1. image[s] /\ RunsAt(s, Slots(s) \ stack[p][2].todo, Asked)
          BY <3>1, <3>3, <4>4 DEF UpRolls
        <5>2. \A i \in Slots(s) \ stack[p][2].todo : ns[s] = "active"
          BY <4>1, <4>2, <4>4
        <5> HIDE DEF s
        <5> QED
          BY <1>1, <2>2, <5>1, <5>2 DEF RunsAt
      <4>5. pushed'[s] = Asked
        BY <1>1, <3>1 DEF UpRolls
      <4>6. stack'[p][2] = stack[p][2] /\ Len(stack'[p]) = 2 /\ stack'[p][1].svc = s
        BY <1>3, <3>3
      <4> QED
        BY <4>3, <4>4, <4>5, <4>6 DEF UpRolls, RunsAt
    <3>4. CASE Len(stack[p]) = 3
      BY <1>1, <1>3, <3>1, <3>4 DEF UpRolls
    <3> QED
      BY <3>1, <3>2, <3>3, <3>4 DEF UpRolls
  <2> QED
    BY <1>1, <1>3, <2>1, <2>3 DEF RollOK, BuildRolls, DownRolls
<1> QED
  BY <1>1, <1>2, <1>3

(***************************************************************************)
(* Commands run one at a time, and nothing has failed: a rebuild that ends *)
(* leaves the service recorded, and every pod that runs an image of its    *)
(* own on the ref asked for.                                               *)
(***************************************************************************)
THEOREM RebuiltToTheRef ==
  ASSUME Solo
  PROVE  Spec => []RebuiltAsAsked
<1>1. Init => Rolling
  BY DEF Init, Rolling, Rolls, Busy
<1>2. Base /\ Fresh /\ Rolling /\ [Next]_vars => Rolling'
  BY RollingStep, OthersKeepRolling DEF Next
<1>3. Base /\ Rolling => RebuiltAsAsked
  <2> SUFFICES ASSUME Base, Rolling, NEW p \in Invocations, Ending(p, "rebuild"), faults = 0,
                      Top(p).svc \in Rolled
               PROVE  running[Top(p).svc] /\ Runs(Top(p).svc, Top(p).ref)
    BY DEF RebuiltAsAsked
  <2> DEFINE s == Top(p).svc
  <2>1. /\ Busy(p) /\ Top(p) = stack[p][1] /\ Top(p).cmd = "rebuild" /\ Top(p).at = "end"
        /\ Len(stack[p]) = 1
    BY DEF Ending, In, Top
  <2>2. Top(p).ref = Asked
    BY <2>1, RebuildFacts DEF Base, Types
  <2>3. UpRolls(p)
    BY <2>1 DEF Rolling, Rolls, RollOK
  <2>4. running[s] /\ RunsAt(s, Slots(s), Asked)
    BY <2>1, <2>3 DEF UpRolls
  <2>5. Runs(s, Asked)
    <3>1. s \in Services
      BY RolledFacts
    <3> QED
      BY <2>4, <3>1 DEF Runs, RunsAt, ReleasesOf
  <2> QED
    BY <2>2, <2>4, <2>5
<1> QED
  BY <1>1, <1>2, <1>3, BaseHolds, FreshHolds, PTL DEF Spec

=============================================================================
