----------------------- MODULE CommandExecutionProofs -----------------------
(***************************************************************************)
(* What TLAPS proves of CommandExecution, for any number of requests, any  *)
(* nesting and any number of nested commands.                              *)
(***************************************************************************)
EXTENDS CommandExecution, FiniteSetTheorems, TLAPS

(***************************************************************************)
(* The strengthening: every frame below the top of its entry is in its     *)
(* handler, waiting for the one above it, and there is none above the top. *)
(***************************************************************************)
Stacked ==
    \A e \in Entries : \A i \in Levels :
        /\ i < level[e] => at[<<e, i>>] = "body"
        /\ i = level[e] => /\ at[<<e, i>>] # "none"
                           /\ ~Wrapped(i) => at[<<e, i>>] = "body"
        /\ i > level[e] => at[<<e, i>>] = "none"

IInv == TypeOK /\ Stacked /\ DepthCountsFrames /\ OnlyTheOutermostIsRoot

-----------------------------------------------------------------------------
\* There are finitely many frames, so the ones that are counted have a number.
LEMMA CountedFinite == IsFiniteSet(Counted)
<1>1. IsFiniteSet(Levels)
  BY BoundsAssumption, FS_Interval DEF Levels
<1>2. IsFiniteSet(Frames)
  BY <1>1, EntriesAssumption, FS_Product DEF Frames
<1> QED
  BY <1>2, FS_Subset DEF Counted

\* CommandExecution starts in a state of the inductive invariant.
LEMMA InitIInv == Init => IInv
<1> SUFFICES ASSUME Init PROVE IInv
  OBVIOUS
<1>1. TypeOK
  BY BoundsAssumption DEF Init, TypeOK, Frames
<1>2. Stacked
  BY BoundsAssumption DEF Init, Stacked, Frames, Levels
<1>3. Counted = {}
  BY DEF Init, Counted
<1>4. DepthCountsFrames
  BY <1>3, FS_EmptySet DEF Init, DepthCountsFrames
<1>5. OnlyTheOutermostIsRoot
  BY DEF Init, OnlyTheOutermostIsRoot, Frames
<1> QED
  BY <1>1, <1>2, <1>4, <1>5 DEF IInv

-----------------------------------------------------------------------------
\* The top of an entry that is somewhere is a frame.
LEMMA TopIsFrame ==
  ASSUME TypeOK, NEW e \in Entries, level[e] > 0
  PROVE  /\ Top(e) \in Frames
         /\ level[e] \in Levels
BY BoundsAssumption DEF TypeOK, Top, Frames, Levels

\* Everything keeps its type, once the counter is known to.
LEMMA StepTypeOK == IInv /\ [Next]_vars /\ depth' \in Nat => TypeOK'
<1> SUFFICES ASSUME IInv, [Next]_vars, depth' \in Nat PROVE TypeOK'
  OBVIOUS
<1> USE BoundsAssumption
<1>0. TypeOK
  BY DEF IInv
<1>1. ASSUME NEW e \in Entries, Start(e) PROVE TypeOK'
  BY <1>0, <1>1 DEF Start, Push, TypeOK, Frames, Levels
<1>2. ASSUME NEW e \in Entries, Begin(e) PROVE TypeOK'
  BY <1>0, <1>2 DEF Begin, TypeOK
<1>3. ASSUME NEW e \in Entries, Call(e) PROVE TypeOK'
  BY <1>0, <1>3 DEF Call, Push, TypeOK, Frames, Levels
<1>4. ASSUME NEW e \in Entries, Catch(e) PROVE TypeOK'
  BY <1>0, <1>4 DEF Catch, TypeOK
<1>5. ASSUME NEW e \in Entries, Finish(e) \/ Throw(e) PROVE TypeOK'
  <2>1. /\ told' = [told EXCEPT ![Top(e)] = "nothing"]
        /\ UNCHANGED <<mode, depth, swallowed, calls>>
    BY ONLY <1>5 DEF Finish, Throw
  <2>2. /\ told' \in [Frames -> {"nothing", "result", "undefined", "error"}]
        /\ mode' \in {"cli", "rpc"} /\ calls' \in 0 .. MaxCalls
        /\ swallowed' \in [Entries -> BOOLEAN]
    BY ONLY <1>0, <2>1 DEF TypeOK
  <2>3. CASE Wrapped(level[e])
    <3>1. PICK error \in BOOLEAN : Leave(e, error)
      BY ONLY <1>5, <2>3 DEF Finish, Throw
    <3>2. /\ at' \in [Frames -> {"none", "enter", "body", "ending"}]
          /\ failed' \in [Frames -> BOOLEAN]
          /\ level' = level /\ root' = root /\ answer' = answer
      BY ONLY <1>0, <3>1 DEF Leave, TypeOK
    <3> QED
      BY ONLY <1>0, <2>2, <3>2, depth' \in Nat DEF TypeOK
  <2>4. CASE ~Wrapped(level[e])
    <3>1. PICK text \in {"success", "error"} : Reply(e, text)
      BY ONLY <1>5, <2>4 DEF Finish, Throw
    <3>2. level[e] > 0
      BY ONLY <1>5 DEF Finish, Throw, In
    <3>3. level' \in [Entries -> 0 .. MaxNesting]
      BY ONLY <1>0, <3>1, <3>2, BoundsAssumption DEF Reply, Pop, TypeOK
    <3>4. /\ at' \in [Frames -> {"none", "enter", "body", "ending"}]
          /\ root' \in [Frames -> BOOLEAN]
          /\ failed' \in [Frames -> BOOLEAN]
          /\ answer' \in [Entries -> {"none", "success", "error", "exit"}]
      BY ONLY <1>0, <3>1 DEF Reply, Pop, TypeOK
    <3> QED
      BY ONLY <2>2, <3>3, <3>4, depth' \in Nat DEF TypeOK
  <2> QED
    BY <2>3, <2>4
<1>6. ASSUME NEW e \in Entries, End(e) PROVE TypeOK'
  <2>1. level' \in [Entries -> 0 .. MaxNesting]
    BY <1>0, <1>6 DEF End, Pop, In, TypeOK
  <2>2. /\ at' \in [Frames -> {"none", "enter", "body", "ending"}]
        /\ root' \in [Frames -> BOOLEAN]
        /\ failed' \in [Frames -> BOOLEAN]
    BY ONLY <1>0, <1>6 DEF End, Pop, TypeOK
  <2>3. answer' \in [Entries -> {"none", "success", "error", "exit"}]
    BY ONLY <1>0, <1>6 DEF End, TypeOK
  <2>4. told' \in [Frames -> {"nothing", "result", "undefined", "error"}]
    <3>1. Outcome(Top(e)) \in {"result", "undefined", "error"}
      BY DEF Outcome
    <3> QED
      BY ONLY <1>0, <1>6, <3>1 DEF End, TypeOK
  <2>5. swallowed' \in [Entries -> BOOLEAN]
    <3> DEFINE lost == swallowed[e] \/ (failed[Top(e)] /\ depth' = 0)
    <3>1. lost \in BOOLEAN
      OBVIOUS
    <3>2. \/ UNCHANGED swallowed
          \/ swallowed' = [swallowed EXCEPT ![e] = lost]
      BY ONLY <1>6 DEF End
    <3> HIDE DEF lost
    <3> QED
      BY ONLY <1>0, <3>1, <3>2 DEF TypeOK
  <2>6. mode' \in {"cli", "rpc"} /\ calls' \in 0 .. MaxCalls
    BY ONLY <1>0, <1>6 DEF End, TypeOK
  <2> QED
    BY ONLY <2>1, <2>2, <2>3, <2>4, <2>5, <2>6, depth' \in Nat DEF TypeOK
<1>7. CASE UNCHANGED vars
  BY <1>0, <1>7 DEF vars, TypeOK
<1> QED
  BY <1>1, <1>2, <1>3, <1>4, <1>5, <1>6, <1>7 DEF Next

(***************************************************************************)
(* Frames come and go at the top; only a frame in its handler gets one     *)
(* above it; the frame at the top moves.                                   *)
(***************************************************************************)
Fields == /\ level \in [Entries -> 0 .. MaxNesting]
          /\ at \in [Frames -> {"none", "enter", "body", "ending"}]

LEMMA PushStacks ==
  ASSUME Fields, Stacked, NEW e \in Entries, level[e] < MaxNesting,
         level[e] > 0 => at[Top(e)] = "body", Push(e), mode' = mode
  PROVE  Stacked'
<1> USE BoundsAssumption
<1> DEFINE place == IF Wrapped(level[e] + 1) THEN "enter" ELSE "body"
<1>1. /\ level' = [level EXCEPT ![e] = level[e] + 1]
      /\ at' = [at EXCEPT ![<<e, level[e] + 1>>] = place]
  BY DEF Push
<1>2. SUFFICES ASSUME NEW d \in Entries, NEW i \in Levels
               PROVE  /\ i < level'[d] => at'[<<d, i>>] = "body"
                      /\ i = level'[d] => /\ at'[<<d, i>>] # "none"
                                          /\ ~Wrapped(i)' => at'[<<d, i>>] = "body"
                      /\ i > level'[d] => at'[<<d, i>>] = "none"
  BY DEF Stacked, Wrapped
<1>3. level[e] \in 0 .. MaxNesting /\ level[d] \in 0 .. MaxNesting
  BY DEF Fields
<1>4. /\ level'[d] = IF d = e THEN level[e] + 1 ELSE level[d]
      /\ at'[<<d, i>>] = IF d = e /\ i = level[e] + 1 THEN place ELSE at[<<d, i>>]
  BY ONLY <1>1, Fields, BoundsAssumption DEF Fields, Frames
<1>5. /\ i < level[d] => at[<<d, i>>] = "body"
      /\ i = level[d] => /\ at[<<d, i>>] # "none"
                         /\ ~Wrapped(i) => at[<<d, i>>] = "body"
      /\ i > level[d] => at[<<d, i>>] = "none"
  BY DEF Stacked
<1>6. d = e /\ i = level[e] => at[<<d, i>>] = "body"
  BY <1>3 DEF Top, Levels
<1>7. Wrapped(i)' = Wrapped(i)
  BY DEF Wrapped
<1> QED
  BY ONLY <1>3, <1>4, <1>5, <1>6, <1>7, BoundsAssumption DEF Levels

LEMMA PopStacks ==
  ASSUME Fields, Stacked, NEW e \in Entries, level[e] > 0, Pop(e), mode' = mode
  PROVE  Stacked'
<1> USE BoundsAssumption
<1>1. /\ level' = [level EXCEPT ![e] = level[e] - 1]
      /\ at' = [at EXCEPT ![<<e, level[e]>>] = "none"]
  BY DEF Pop, Top
<1>2. SUFFICES ASSUME NEW d \in Entries, NEW i \in Levels
               PROVE  /\ i < level'[d] => at'[<<d, i>>] = "body"
                      /\ i = level'[d] => /\ at'[<<d, i>>] # "none"
                                          /\ ~Wrapped(i)' => at'[<<d, i>>] = "body"
                      /\ i > level'[d] => at'[<<d, i>>] = "none"
  BY DEF Stacked, Wrapped
<1>3. level[e] \in 0 .. MaxNesting /\ level[d] \in 0 .. MaxNesting
  BY DEF Fields
<1>4. /\ level'[d] = IF d = e THEN level[e] - 1 ELSE level[d]
      /\ at'[<<d, i>>] = IF d = e /\ i = level[e] THEN "none" ELSE at[<<d, i>>]
  BY ONLY <1>1, Fields, BoundsAssumption DEF Fields, Frames
<1>5. /\ i < level[d] => at[<<d, i>>] = "body"
      /\ i = level[d] => /\ at[<<d, i>>] # "none"
                         /\ ~Wrapped(i) => at[<<d, i>>] = "body"
      /\ i > level[d] => at[<<d, i>>] = "none"
  BY DEF Stacked
<1>6. Wrapped(i)' = Wrapped(i)
  BY DEF Wrapped
<1> QED
  BY ONLY <1>3, <1>4, <1>5, <1>6, BoundsAssumption DEF Levels

LEMMA MoveStacks ==
  ASSUME Fields, Stacked, NEW e \in Entries, NEW place,
         place # "none", place = "body" \/ Wrapped(level[e]),
         at' = [at EXCEPT ![Top(e)] = place], UNCHANGED <<mode, level>>
  PROVE  Stacked'
<1> USE BoundsAssumption
<1>1. SUFFICES ASSUME NEW d \in Entries, NEW i \in Levels
               PROVE  /\ i < level'[d] => at'[<<d, i>>] = "body"
                      /\ i = level'[d] => /\ at'[<<d, i>>] # "none"
                                          /\ ~Wrapped(i)' => at'[<<d, i>>] = "body"
                      /\ i > level'[d] => at'[<<d, i>>] = "none"
  BY DEF Stacked, Wrapped
<1>2. level[e] \in 0 .. MaxNesting /\ level[d] \in 0 .. MaxNesting
  BY DEF Fields
<1>3. /\ level'[d] = level[d]
      /\ at'[<<d, i>>] = IF d = e /\ i = level[e] THEN place ELSE at[<<d, i>>]
  BY DEF Fields, Frames, Top
<1>4. /\ i < level[d] => at[<<d, i>>] = "body"
      /\ i = level[d] => /\ at[<<d, i>>] # "none"
                         /\ ~Wrapped(i) => at[<<d, i>>] = "body"
      /\ i > level[d] => at[<<d, i>>] = "none"
  BY DEF Stacked
<1>5. Wrapped(i)' = Wrapped(i)
  BY DEF Wrapped
<1> QED
  BY ONLY <1>2, <1>3, <1>4, <1>5, place # "none", place = "body" \/ Wrapped(level[e])
     DEF Levels

LEMMA StepStacked == IInv /\ [Next]_vars => Stacked'
<1> SUFFICES ASSUME IInv, [Next]_vars PROVE Stacked'
  OBVIOUS
<1>0. Fields /\ Stacked
  BY DEF IInv, TypeOK, Fields
<1>1. ASSUME NEW e \in Entries, Start(e) PROVE Stacked'
  BY ONLY <1>0, <1>1, PushStacks, BoundsAssumption DEF Start
<1>2. ASSUME NEW e \in Entries, Begin(e) PROVE Stacked'
  BY ONLY <1>0, <1>2, MoveStacks DEF Begin
<1>3. ASSUME NEW e \in Entries, Call(e) PROVE Stacked'
  BY ONLY <1>0, <1>3, PushStacks DEF Call, In
<1>4. ASSUME NEW e \in Entries, Catch(e) PROVE Stacked'
  BY <1>0, <1>4 DEF Catch, Stacked, Wrapped
<1>5. ASSUME NEW e \in Entries, Finish(e) \/ Throw(e) PROVE Stacked'
  <2>1. CASE Wrapped(level[e])
    BY ONLY <1>0, <1>5, <2>1, MoveStacks DEF Finish, Throw, Leave
  <2>2. CASE ~Wrapped(level[e])
    BY ONLY <1>0, <1>5, <2>2, PopStacks DEF Finish, Throw, Reply, In
  <2> QED
    BY <2>1, <2>2
<1>6. ASSUME NEW e \in Entries, End(e) PROVE Stacked'
  BY ONLY <1>0, <1>6, PopStacks DEF End, In
<1>7. CASE UNCHANGED vars
  BY <1>0, <1>7 DEF vars, Stacked, Wrapped
<1> QED
  BY <1>1, <1>2, <1>3, <1>4, <1>5, <1>6, <1>7 DEF Next

-----------------------------------------------------------------------------
(***************************************************************************)
(* A step counts the frame that begins, no longer counts the one that      *)
(* ends, and leaves the others alone.                                      *)
(***************************************************************************)
LEMMA BeginCounts ==
  ASSUME IInv, NEW e \in Entries, Begin(e)
  PROVE  /\ Counted' = Counted \cup {Top(e)}
         /\ Top(e) \notin Counted
<1> USE BoundsAssumption
<1>1. TypeOK /\ Stacked
  BY DEF IInv
<1>2. Top(e) \in Frames /\ level[e] \in Levels /\ at[Top(e)] = "enter"
  BY <1>1, TopIsFrame DEF Begin, In
<1>3. Wrapped(level[e])
  BY <1>1, <1>2 DEF Stacked, Top
<1>4. Top(e)[2] = level[e]
  BY DEF Top
<1>5. mode' = mode /\ at' = [at EXCEPT ![Top(e)] = "body"]
  BY DEF Begin
<1>6. at \in [Frames -> {"none", "enter", "body", "ending"}]
  BY <1>1 DEF TypeOK
<1> QED
  BY ONLY <1>2, <1>3, <1>4, <1>5, <1>6 DEF Counted, Wrapped

LEMMA EndCounts ==
  ASSUME IInv, NEW e \in Entries, End(e)
  PROVE  /\ Counted' = Counted \ {Top(e)}
         /\ Top(e) \in Counted
<1> USE BoundsAssumption
<1>1. TypeOK /\ Stacked
  BY DEF IInv
<1>2. Top(e) \in Frames /\ level[e] \in Levels /\ at[Top(e)] = "ending"
  BY <1>1, TopIsFrame DEF End, In
<1>3. Wrapped(level[e])
  BY <1>1, <1>2 DEF Stacked, Top
<1>4. Top(e)[2] = level[e]
  BY DEF Top
<1>5. mode' = mode /\ at' = [at EXCEPT ![Top(e)] = "none"]
  BY DEF End, Pop
<1>6. at \in [Frames -> {"none", "enter", "body", "ending"}]
  BY <1>1 DEF TypeOK
<1> QED
  BY ONLY <1>2, <1>3, <1>4, <1>5, <1>6 DEF Counted, Wrapped

LEMMA OthersDoNotCount ==
  ASSUME IInv, NEW e \in Entries, Start(e) \/ Call(e) \/ Catch(e) \/ Finish(e) \/ Throw(e)
  PROVE  Counted' = Counted
<1> USE BoundsAssumption
<1>1. TypeOK /\ Stacked
  BY DEF IInv
<1>2. at \in [Frames -> {"none", "enter", "body", "ending"}] /\ mode' = mode
  BY <1>1 DEF TypeOK, Start, Call, Catch, Finish, Throw
<1>3. CASE Start(e) \/ Call(e)
  <2> DEFINE f == <<e, level[e] + 1>>
  <2>0. level[e] + 1 \in Levels /\ level[e] + 1 > level[e]
    BY ONLY <1>1, <1>3, BoundsAssumption DEF Start, Call, TypeOK, Levels
  <2>1. f \in Frames /\ at[f] = "none"
    BY ONLY <1>1, <2>0 DEF Stacked, Frames
  <2>2. at' = [at EXCEPT ![f] = IF Wrapped(f[2]) THEN "enter" ELSE "body"]
    BY <1>3 DEF Start, Call, Push
  <2> HIDE DEF f
  <2> QED
    BY ONLY <1>2, <2>1, <2>2 DEF Counted, Wrapped
<1>4. CASE Catch(e)
  BY <1>4 DEF Catch, Counted, Wrapped
<1>5. CASE Finish(e) \/ Throw(e)
  <2>1. Top(e) \in Frames /\ Top(e)[2] = level[e] /\ at[Top(e)] = "body"
    BY <1>1, <1>5, TopIsFrame DEF Finish, Throw, In, Top
  <2>2. at' = [at EXCEPT ![Top(e)] = IF Wrapped(level[e]) THEN "ending" ELSE "none"]
    BY <1>5 DEF Finish, Throw, Leave, Reply, Pop
  <2> QED
    BY ONLY <1>2, <2>1, <2>2 DEF Counted, Wrapped
<1> QED
  BY <1>3, <1>4, <1>5

\* The counter stays the number of the counted frames.
LEMMA StepCounts == IInv /\ [Next]_vars => DepthCountsFrames' /\ depth' \in Nat
<1> SUFFICES ASSUME IInv, [Next]_vars PROVE DepthCountsFrames' /\ depth' \in Nat
  OBVIOUS
<1>0. depth = Cardinality(Counted) /\ depth \in Nat
  BY DEF IInv, DepthCountsFrames, TypeOK
<1>1. ASSUME NEW e \in Entries, Begin(e) PROVE DepthCountsFrames' /\ depth' \in Nat
  <2>1. Cardinality(Counted') = Cardinality(Counted) + 1
    BY ONLY <1>1, IInv, BeginCounts, CountedFinite, FS_AddElement
  <2> QED
    BY <1>0, <1>1, <2>1 DEF Begin, DepthCountsFrames
<1>2. ASSUME NEW e \in Entries, End(e) PROVE DepthCountsFrames' /\ depth' \in Nat
  <2>1. Cardinality(Counted') = Cardinality(Counted) - 1
    BY ONLY <1>2, IInv, EndCounts, CountedFinite, FS_RemoveElement
  <2>2. IsFiniteSet(Counted')
    BY ONLY <1>2, IInv, EndCounts, CountedFinite, FS_RemoveElement
  <2>3. Cardinality(Counted') \in Nat
    BY ONLY <2>2, FS_CardinalityType
  <2> QED
    BY <1>0, <1>2, <2>1, <2>3 DEF End, DepthCountsFrames
<1>3. ASSUME NEW e \in Entries, Start(e) \/ Call(e) \/ Catch(e) \/ Finish(e) \/ Throw(e)
      PROVE  DepthCountsFrames' /\ depth' \in Nat
  <2>1. depth' = depth
    BY <1>3 DEF Start, Call, Catch, Finish, Throw
  <2>2. Counted' = Counted
    BY ONLY <1>3, IInv, OthersDoNotCount
  <2> QED
    BY <1>0, <2>1, <2>2 DEF DepthCountsFrames
<1>4. CASE UNCHANGED vars
  BY <1>0, <1>4 DEF vars, DepthCountsFrames, Counted, Wrapped
<1> QED
  BY <1>1, <1>2, <1>3, <1>4 DEF Next

-----------------------------------------------------------------------------
\* While a wrapped command is in its handler, the counter is not 0.
LEMMA HandlerRaisesDepth ==
  ASSUME IInv, NEW f \in Frames, Wrapped(f[2]), at[f] = "body"
  PROVE  depth > 0
<1>1. f \in Counted
  BY DEF Counted
<1>2. Cardinality(Counted) # 0
  BY <1>1, CountedFinite, FS_EmptySet
<1> QED
  BY <1>2 DEF IInv, TypeOK, DepthCountsFrames

\* Whoever finds the counter at 0 has no wrapped command below it.
LEMMA StepOutermost == IInv /\ [Next]_vars => OnlyTheOutermostIsRoot'
<1> SUFFICES ASSUME IInv, [Next]_vars PROVE OnlyTheOutermostIsRoot'
  OBVIOUS
<1> USE BoundsAssumption
<1>0. TypeOK /\ Stacked /\ OnlyTheOutermostIsRoot
  BY DEF IInv
<1>1. UNCHANGED mode
  BY DEF Next, Start, Begin, Call, Catch, Finish, Throw, End, vars
<1>2. ASSUME NEW e \in Entries, Start(e) \/ Call(e) PROVE OnlyTheOutermostIsRoot'
  <2> DEFINE f == <<e, level[e] + 1>>
  <2>1. root' = [root EXCEPT ![f] = Wrapped(f[2]) /\ depth = 0]
    BY <1>2 DEF Start, Call, Push
  <2>2. ASSUME NEW j \in Levels, j < level[e] + 1, Wrapped(j) PROVE depth # 0
    <3>1. level[e] \in Nat /\ j \in Nat /\ j > 0
      BY ONLY <1>0, <2>2, BoundsAssumption DEF TypeOK, Levels
    <3>2. j < level[e] \/ (j = level[e] /\ at[<<e, level[e]>>] = "body")
      BY ONLY <1>2, <2>2, <3>1 DEF Start, Call, In, Top
    <3>3. <<e, j>> \in Frames /\ at[<<e, j>>] = "body"
      BY ONLY <1>0, <2>2, <3>2 DEF Stacked, Frames
    <3> QED
      BY ONLY IInv, <2>2, <3>1, <3>3, HandlerRaisesDepth
  <2>3. ASSUME NEW d \in Entries, NEW i \in Levels, root'[<<d, i>>],
               NEW j \in Levels, j < i
        PROVE  ~Wrapped(j)
    <3>1. CASE <<d, i>> = f
      BY <1>0, <2>1, <2>2, <2>3, <3>1 DEF TypeOK, Frames
    <3>2. CASE <<d, i>> # f
      <4>1. root[<<d, i>>]
        BY <1>0, <2>1, <2>3, <3>2 DEF TypeOK, Frames
      <4> QED
        BY <1>0, <2>3, <4>1 DEF OnlyTheOutermostIsRoot
    <3> QED
      BY <3>1, <3>2
  <2> QED
    BY <1>1, <2>3 DEF OnlyTheOutermostIsRoot, Wrapped
<1>3. CASE \A f \in Frames : root'[f] => root[f]
  BY <1>0, <1>1, <1>3 DEF OnlyTheOutermostIsRoot, Wrapped, Frames
<1>4. ASSUME NEW e \in Entries, Begin(e) \/ Catch(e) \/ Finish(e) \/ Throw(e) \/ End(e)
      PROVE  OnlyTheOutermostIsRoot'
  <2>1. root' \in {root, [root EXCEPT ![Top(e)] = FALSE]}
    BY <1>4 DEF Begin, Catch, Finish, Throw, End, Leave, Reply, Pop
  <2> QED
    BY <1>0, <1>3, <2>1 DEF TypeOK
<1>5. CASE UNCHANGED vars
  BY <1>3, <1>5 DEF vars
<1> QED
  BY <1>2, <1>4, <1>5 DEF Next

-----------------------------------------------------------------------------
(***************************************************************************)
(* IInv holds in every reachable state.                                    *)
(***************************************************************************)
THEOREM Inductive == Spec => []IInv
<1>1. IInv /\ [Next]_vars => IInv'
  BY StepCounts, StepTypeOK, StepStacked, StepOutermost DEF IInv
<1> QED
  BY InitIInv, <1>1, PTL DEF Spec

\* Type correctness, the counter never falling below 0 included.
THEOREM TypeCorrect == Spec => []TypeOK
<1>1. IInv => TypeOK
  BY DEF IInv
<1> QED
  BY Inductive, <1>1, PTL

\* The counter is the number of wrapped commands under way (command.ts:149, 202).
THEOREM DepthIsExact == Spec => []DepthCountsFrames
<1>1. IInv => DepthCountsFrames
  BY DEF IInv
<1> QED
  BY Inductive, <1>1, PTL

\* Nested commands of the CLI never take themselves for the root (command.ts:131).
THEOREM OneRoot == Spec => []OnlyTheOutermostIsRoot
<1>1. IInv => OnlyTheOutermostIsRoot
  BY DEF IInv
<1> QED
  BY Inductive, <1>1, PTL

(***************************************************************************)
(* A nested command called by a wrapped one hands its error or its result  *)
(* on: two frames are counted before it ends, so the counter does not      *)
(* come down to 0 (command.ts:202-206).                                    *)
(***************************************************************************)
THEOREM OutcomesAreHandedOn == Spec => OutcomesReachTheirCaller
<1> DEFINE Handed(e, i) ==
      i > 1 /\ Wrapped(i - 1) /\ at[<<e, i>>] = "ending" /\ at'[<<e, i>>] # "ending"
         => told'[<<e, i - 1>>] = IF failed[<<e, i>>] THEN "error" ELSE "result"
<1>1. ASSUME IInv, [Next]_vars, NEW e \in Entries, NEW i \in Levels,
             i > 1, Wrapped(i - 1), at[<<e, i>>] = "ending", at'[<<e, i>>] # "ending"
      PROVE  told'[<<e, i - 1>>] = IF failed[<<e, i>>] THEN "error" ELSE "result"
  <2> USE BoundsAssumption
  <2>0. TypeOK /\ Stacked
    BY <1>1 DEF IInv
  <2>1. i = level[e]
    BY <1>1, <2>0 DEF Stacked, TypeOK, Levels
  <2>2. End(e)
    <3>1. ASSUME NEW d \in Entries, d # e,
                 \/ Start(d) \/ Begin(d) \/ Call(d) \/ Catch(d)
                 \/ Finish(d) \/ Throw(d) \/ End(d)
          PROVE  FALSE
      BY <1>1, <2>0, <3>1
         DEF Start, Begin, Call, Catch, Finish, Throw, End, Push, Pop, Leave, Reply, Top,
             TypeOK, Frames
    <3>2. ~Begin(e) /\ ~Call(e) /\ ~Catch(e) /\ ~Finish(e) /\ ~Throw(e)
      BY <1>1, <2>1 DEF Begin, Call, Catch, Finish, Throw, In, Top
    <3>3. ~Start(e) /\ ~UNCHANGED vars
      BY <1>1, <2>1 DEF Start, vars, Levels
    <3> QED
      BY <1>1, <3>1, <3>2, <3>3 DEF Next
  <2>3. <<e, i - 1>> \in Frames /\ at[<<e, i - 1>>] = "body"
    BY <1>1, <2>0, <2>1 DEF Stacked, Frames, Levels
  <2>4. depth' # 0
    <3>1. <<e, i - 1>> \in Counted /\ <<e, i - 1>> # Top(e)
      BY <1>1, <2>1, <2>3 DEF Counted, Top
    <3>2. <<e, i - 1>> \in Counted'
      BY <1>1, <2>2, <3>1, EndCounts
    <3>3. depth' = Cardinality(Counted') /\ IsFiniteSet(Counted')
      BY <1>1, <2>2, StepCounts, EndCounts, CountedFinite, FS_RemoveElement
         DEF DepthCountsFrames
    <3> QED
      BY ONLY <3>2, <3>3, FS_EmptySet
  <2>5. told' = [told EXCEPT ![<<e, i - 1>>] = Outcome(Top(e))]
    BY <1>1, <2>1, <2>2 DEF End
  <2>6. Outcome(Top(e)) = IF failed[<<e, i>>] THEN "error" ELSE "result"
    BY <2>1, <2>4 DEF Outcome, Top
  <2> QED
    BY <2>0, <2>3, <2>5, <2>6 DEF TypeOK
<1>2. IInv /\ [Next]_vars
        => [\A e \in Entries : \A i \in Levels : Handed(e, i)]_vars
  BY <1>1
<1> QED
  BY Inductive, <1>2, PTL DEF Spec, OutcomesReachTheirCaller
=============================================================================
