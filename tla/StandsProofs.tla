---------------------------- MODULE StandsProofs ----------------------------
(***************************************************************************)
(* What TLAPS proves of Stands, for every list of commands that keeps to   *)
(* PlansAssumption, any scenarios and any number of faults: type           *)
(* correctness, and that no key is submitted for two operators.            *)
(***************************************************************************)
EXTENDS Stands, FiniteSetTheorems, SequenceTheorems, TLAPS

Here == Plan[command]                 \* the command that runs
Passed == Len(Here) - Len(left)       \* how many of its moves it has behind it
Batches == [wc : Credentials, used : BOOLEAN]

-----------------------------------------------------------------------------
(***************************************************************************)
(* The inductive invariant.  TypeOK, strengthened: batches are a sequence  *)
(* of records, and what was submitted can be counted; ...                  *)
(***************************************************************************)
KeyTypes ==
    /\ batches \in Seq(Batches)
    /\ \A n \in DOMAIN files : files[n] \subseteq DOMAIN batches
    /\ IsFiniteSet(submitted)
    /\ \A x \in submitted : x.operator[2] \in Nat \ {0} /\ x.batch \in DOMAIN batches
    /\ vc \subseteq DOMAIN batches

Types ==
    /\ KeyTypes
    /\ scenario \in Scenarios
    /\ command \in 0..Len(Plan)
    /\ left \in Seq(Moves)
    /\ done \subseteq Facts /\ "keysFile" \notin done
    /\ status \in {"running", "failed", "refused", "ready"}
    /\ cause \subseteq Facts
    /\ faults \in 0..scenario.faults
    /\ swallowed \in BOOLEAN
    /\ unanswered \subseteq DOMAIN batches

\* ... what is left of a command is the end of it; ...
InPlace ==
    /\ command = 0 => left = <<>>
    /\ status = "failed" => command > 0 /\ left # <<>>
    /\ command > 0 => /\ Len(left) <= Len(Here)
                      /\ \A q \in 1..Len(left) : left[q] = Here[Passed + q]

-----------------------------------------------------------------------------
\* The parameters.
LEMMA PlanFacts ==
  ASSUME scenario \in Scenarios
  PROVE  /\ Plan \in Seq(Seq(Moves)) /\ Len(Plan) \in Nat /\ DOMAIN Plan = 1..Len(Plan)
         /\ \A c \in 1..Len(Plan) : /\ Plan[c] \in Seq(Moves)
                                    /\ Len(Plan[c]) \in Nat
                                    /\ DOMAIN Plan[c] = 1..Len(Plan[c])
                                    /\ \A j \in 1..Len(Plan[c]) : Plan[c][j] \in Moves
                                    /\ UsesKeysInOrder(Plan[c])
         /\ OperatorPerName(Plan)
<1>1. Plan \in Seq(Seq(Moves))
  BY PlansAssumption DEF Plan
<1>2. Len(Plan) \in Nat /\ DOMAIN Plan = 1..Len(Plan)
  BY <1>1, LenProperties
<1>3. \A c \in 1..Len(Plan) : UsesKeysInOrder(Plan[c])
  BY <1>2, PlansAssumption DEF Plan
<1>4. \A c \in 1..Len(Plan) : Plan[c] \in Seq(Moves)
  BY <1>1, ElementOfSeq
<1>5. ASSUME NEW c \in 1..Len(Plan)
      PROVE  /\ Len(Plan[c]) \in Nat
             /\ DOMAIN Plan[c] = 1..Len(Plan[c])
             /\ \A j \in 1..Len(Plan[c]) : Plan[c][j] \in Moves
  BY <1>4, LenProperties, ElementOfSeq
<1>6. OperatorPerName(Plan)
  BY PlansAssumption DEF Plan
<1> QED
  BY <1>1, <1>2, <1>3, <1>4, <1>5, <1>6

LEMMA MoveFacts ==
  ASSUME NEW move \in Moves
  PROVE  /\ move.skip \in SUBSET STRING /\ move.over \in Nat /\ move.needs \in SUBSET STRING
         /\ move.takes \in SUBSET STRING /\ move.gives \in SUBSET STRING
         /\ move.outside \in BOOLEAN /\ move.quiet \in BOOLEAN /\ move.name \in STRING
         /\ move.wc \in Credentials \cup {"none"}
         /\ move.op \in {"none", "look", "generate", "write", "mark", "addKeys",
                         "newOperator", "import"}
  BY DEF Moves

\* Where a command stands that has a move to make.
LEMMA AtCurrent ==
  ASSUME Types, InPlace, AtMove
  PROVE  /\ command \in 1..Len(Plan)
         /\ Here \in Seq(Moves) /\ Len(Here) \in Nat /\ DOMAIN Here = 1..Len(Here)
         /\ Len(left) \in Nat \ {0} /\ Passed \in Nat
         /\ Passed + 1 \in 1..Len(Here)
         /\ Current = Here[Passed + 1]
         /\ Current \in Moves
         /\ UsesKeysInOrder(Here)
<1>1. Len(left) \in Nat \ {0} /\ Head(left) = left[1]
  <2>1. left \in Seq(Moves) /\ left # <<>>
    BY DEF Types, AtMove
  <2> QED
    BY <2>1, EmptySeq
<1>2. command \in 1..Len(Plan)
  <2>1. command # 0
    BY DEF InPlace, AtMove
  <2>2. Len(Plan) \in Nat
    BY PlanFacts DEF Types
  <2> QED
    BY <2>1, <2>2 DEF Types
<1>3. /\ Here \in Seq(Moves) /\ Len(Here) \in Nat /\ DOMAIN Here = 1..Len(Here)
      /\ \A j \in 1..Len(Here) : Here[j] \in Moves
      /\ UsesKeysInOrder(Here)
  BY <1>2, PlanFacts DEF Types, Here
<1>4. Len(left) <= Len(Here) /\ left[1] = Here[Passed + 1]
  BY <1>1, <1>2 DEF InPlace
<1>5. Passed \in Nat /\ Passed + 1 \in 1..Len(Here)
  BY <1>1, <1>3, <1>4 DEF Passed
<1> QED
  BY <1>1, <1>2, <1>3, <1>4, <1>5 DEF Current

\* The command goes on to its next move, ...
LEMMA GoesOn ==
  ASSUME Types, InPlace, AtMove, left' = Tail(left), UNCHANGED <<scenario, command, status>>
  PROVE  left' \in Seq(Moves) /\ InPlace' /\ Passed' = Passed + 1
<1>1. left \in Seq(Moves) /\ left # <<>>
  BY DEF Types, AtMove
<1>2. /\ Tail(left) \in Seq(Moves) /\ Len(Tail(left)) = Len(left) - 1
      /\ \A q \in 1..Len(Tail(left)) : Tail(left)[q] = left[q + 1]
  BY <1>1, HeadTailProperties
<1>3. Here' = Here
  BY DEF Here, Plan
<1>4. Passed' = Passed + 1
  BY <1>2, <1>3, AtCurrent DEF Passed
<1>5. \A q \in 1..Len(left') : left'[q] = Here[Passed + 1 + q]
  <2> TAKE q \in 1..Len(left')
  <2>1. Len(left') = Len(left) - 1 /\ Len(left) \in Nat
    BY <1>2, AtCurrent
  <2>2. q \in Nat /\ q + 1 \in 1..Len(left)
    BY <2>1
  <2>3. left'[q] = left[q + 1]
    BY <1>2
  <2>4. left[q + 1] = Here[Passed + (q + 1)]
    BY <2>2, AtCurrent DEF InPlace
  <2>5. Passed + (q + 1) = Passed + 1 + q
    BY <2>2, AtCurrent
  <2> QED
    BY <2>3, <2>4, <2>5
<1>6. command' > 0 /\ Len(left') <= Len(Here')
  BY <1>2, <1>3, AtCurrent DEF InPlace
<1>7. status' # "failed"
  BY DEF AtMove
<1> QED
  BY <1>2, <1>3, <1>4, <1>5, <1>6, <1>7, AtCurrent DEF InPlace

\* ... or to one further on.
LeftOf(n, over) == IF over + 2 <= n THEN n - (over + 2) + 1 ELSE 0

Lands(n, over, h, l) ==
    /\ l \in Nat /\ l <= h
    /\ \/ h - l = (h - n) + 1 + over
       \/ h - l = h /\ h <= (h - n) + 1 + over
    /\ \A q \in 1..l : /\ q \in 1..(n - (over + 2) + 1)
                       /\ (over + 2) + q - 1 \in 1..n
                       /\ (h - l) + q = (h - n) + ((over + 2) + q - 1)

LEMMA Jumped ==
  \A over \in Nat, n \in Nat \ {0}, h \in Nat : \A l :
      n <= h /\ l = LeftOf(n, over) => Lands(n, over, h, l)
<1> TAKE over \in Nat, n \in Nat \ {0}, h \in Nat
<1> TAKE l
<1> HAVE n <= h /\ l = LeftOf(n, over)
<1>1. CASE over + 2 <= n
  <2>1. l = n - over - 1
    BY <1>1 DEF LeftOf
  <2> QED
    BY <1>1, <2>1 DEF Lands
<1>2. CASE ~(over + 2 <= n)
  <2>1. l = 0
    BY <1>2 DEF LeftOf
  <2> QED
    BY <1>2, <2>1 DEF Lands
<1> QED
  BY <1>1, <1>2

LEMMA JumpsOn ==
  ASSUME Types, InPlace, AtMove, UNCHANGED <<scenario, command, status>>,
         left' = SubSeq(left, Current.over + 2, Len(left))
  PROVE  /\ left' \in Seq(Moves) /\ InPlace'
         /\ \/ Passed' = Passed + 1 + Current.over
            \/ Passed' = Len(Here) /\ Len(Here) <= Passed + 1 + Current.over
<1>1. Len(left) \in Nat /\ left \in Seq(Moves) /\ Current.over \in Nat
  BY AtCurrent, MoveFacts DEF Types
<1>2. \A q \in (Current.over + 2)..Len(left) : left[q] \in Moves
  BY <1>1, ElementOfSeq
<1>3. /\ left' \in Seq(Moves)
      /\ Len(left') = IF Current.over + 2 <= Len(left) THEN Len(left) - (Current.over + 2) + 1 ELSE 0
      /\ \A q \in 1..(Len(left) - (Current.over + 2) + 1) : left'[q] = left[(Current.over + 2) + q - 1]
  <2> DEFINE m == Current.over + 2
             n == Len(left)
  <2>1. m \in Int /\ n \in Int /\ left' = SubSeq(left, m, n)
    BY <1>1
  <2>2. \A q \in m..n : left[q] \in Moves
    BY <1>2
  <2> HIDE DEF m, n
  <2>3. /\ SubSeq(left, m, n) \in Seq(Moves)
        /\ Len(SubSeq(left, m, n)) = IF m <= n THEN n - m + 1 ELSE 0
        /\ \A q \in 1..(n - m + 1) : SubSeq(left, m, n)[q] = left[m + q - 1]
    <3>1. m \in Int /\ n \in Int
      BY <2>1
    <3>2. SubSeq(left, m, n) \in Seq(Moves)
      BY <2>2, <3>1, SubSeqProperties
    <3>3. Len(SubSeq(left, m, n)) = IF m <= n THEN n - m + 1 ELSE 0
      BY <2>2, <3>1, SubSeqProperties
    <3>4. \A q \in 1..(n - m + 1) : SubSeq(left, m, n)[q] = left[m + q - 1]
      BY <2>2, <3>1, SubSeqProperties
    <3> QED
      BY <3>2, <3>3, <3>4
  <2> QED
    BY <2>1, <2>3 DEF m, n
<1>4. Here' = Here
  BY DEF Here, Plan
<1>5. /\ Len(left) \in Nat \ {0} /\ Len(Here) \in Nat /\ Len(left) <= Len(Here)
      /\ Passed = Len(Here) - Len(left)
      /\ Passed' = Len(Here) - Len(left')
  BY <1>4, AtCurrent DEF Passed, InPlace
<1>6. /\ Len(left') \in Nat /\ Len(left') <= Len(Here)
      /\ \/ Passed' = Passed + 1 + Current.over
         \/ Passed' = Len(Here) /\ Len(Here) <= Passed + 1 + Current.over
      /\ \A q \in 1..Len(left') :
            /\ q \in 1..(Len(left) - (Current.over + 2) + 1)
            /\ (Current.over + 2) + q - 1 \in 1..Len(left)
            /\ Passed' + q = Passed + ((Current.over + 2) + q - 1)
  <2> DEFINE n == Len(left)
             h == Len(Here)
             l == Len(left')
             over == Current.over
  <2>3. over \in Nat /\ n \in Nat \ {0} /\ h \in Nat /\ n <= h
        /\ l = LeftOf(n, over)
    BY <1>1, <1>3, <1>5 DEF LeftOf
  <2>4. Passed = h - n /\ Passed' = h - l
    BY <1>5
  <2> HIDE DEF n, h, l, over
  <2>5. Lands(n, over, h, l)
    BY <2>3, Jumped
  <2>6. /\ l \in Nat /\ l <= h
        /\ Passed' = Passed + 1 + over \/ (Passed' = h /\ h <= Passed + 1 + over)
        /\ \A q \in 1..l : /\ q \in 1..(n - (over + 2) + 1)
                           /\ (over + 2) + q - 1 \in 1..n
                           /\ Passed' + q = Passed + ((over + 2) + q - 1)
    BY <2>4, <2>5 DEF Lands
  <2> QED
    BY <2>6 DEF n, h, l, over
<1>7. ASSUME NEW q \in 1..Len(left')
      PROVE  left'[q] = Here[Passed' + q]
  <2>1. left'[q] = left[(Current.over + 2) + q - 1]
    BY <1>3, <1>6
  <2>2. left[(Current.over + 2) + q - 1] = Here[Passed + ((Current.over + 2) + q - 1)]
    <3>1. \A k \in 1..Len(left) : left[k] = Here[Passed + k]
      BY AtCurrent DEF InPlace
    <3> QED
      BY <1>6, <3>1, Zenon
  <2> QED
    BY <1>6, <2>1, <2>2
<1>8. status' # "failed"
  BY DEF AtMove
<1> QED
  BY <1>3, <1>4, <1>6, <1>7, <1>8, AtCurrent DEF InPlace

\* A command begins, or is run again.
LEMMA Begins ==
  ASSUME Types, command' \in 1..Len(Plan), left' = Plan[command'], status' = "running",
         UNCHANGED scenario
  PROVE  left' \in Seq(Moves) /\ InPlace' /\ Passed' = 0
<1>1. Here' = Plan[command'] /\ Here' \in Seq(Moves)
  BY PlanFacts DEF Types, Here, Plan
<1>2. Len(left') = Len(Here') /\ Len(Here') \in Nat
  BY <1>1, LenProperties
<1>3. Passed' = 0
  BY <1>2 DEF Passed
<1>4. \A q \in 1..Len(left') : left'[q] = Here'[Passed' + q]
  BY <1>1, <1>2, <1>3
<1> QED
  BY <1>1, <1>2, <1>3, <1>4, PlanFacts DEF InPlace, Types

LEMMA StaysInPlace ==
  ASSUME InPlace, UNCHANGED <<scenario, command, left>>,
         status' = "failed" => command > 0 /\ left # <<>>
  PROVE  InPlace'
<1>1. Here' = Here /\ Passed' = Passed
  BY DEF Here, Plan, Passed
<1> QED
  BY <1>1 DEF InPlace
-----------------------------------------------------------------------------
(***************************************************************************)
(* What a move does to the keys.                                           *)
(***************************************************************************)
LEMMA BatchFacts ==
  ASSUME KeyTypes
  PROVE  /\ Len(batches) \in Nat /\ DOMAIN batches = 1..Len(batches)
         /\ \A b \in DOMAIN batches : /\ batches[b] \in Batches
                                      /\ batches[b].wc \in Credentials
                                      /\ batches[b].used \in BOOLEAN
<1>1. batches \in Seq(Batches)
  BY DEF KeyTypes
<1>2. Len(batches) \in Nat /\ DOMAIN batches = 1..Len(batches)
  BY <1>1, LenProperties
<1>3. \A b \in 1..Len(batches) : batches[b] \in Batches
  BY <1>1, ElementOfSeq
<1> QED
  BY <1>2, <1>3 DEF Batches

LEMMA Generated ==
  ASSUME KeyTypes, Current.wc \in Credentials, GenerateKeys
  PROVE  /\ KeyTypes'
         /\ \A b \in DOMAIN batches : b \in DOMAIN batches' /\ batches'[b] = batches[b]
<1> DEFINE new == [wc |-> Current.wc, used |-> FALSE]
<1>1. new \in Batches /\ batches \in Seq(Batches)
  BY DEF Batches, KeyTypes
<1>2. batches' = Append(batches, new)
  BY DEF GenerateKeys
<1> HIDE DEF new
<1>3. /\ batches' \in Seq(Batches)
      /\ Len(batches') = Len(batches) + 1
      /\ \A b \in 1..Len(batches) : batches'[b] = batches[b]
  BY <1>1, <1>2, AppendProperties
<1>4. DOMAIN batches' = 1..Len(batches')
  BY <1>3, LenProperties
<1>5. \A b \in DOMAIN batches : b \in DOMAIN batches' /\ batches'[b] = batches[b]
  BY <1>3, <1>4, BatchFacts
<1>6. UNCHANGED <<files, submitted, vc>>
  BY DEF GenerateKeys
<1> QED
  BY <1>3, <1>5, <1>6 DEF KeyTypes

LEMMA Marked ==
  ASSUME KeyTypes, MarkKeys
  PROVE  /\ KeyTypes'
         /\ DOMAIN batches' = DOMAIN batches
         /\ \A b \in DOMAIN batches : /\ batches'[b].wc = batches[b].wc
                                      /\ batches'[b].used <=> \/ batches[b].used
                                                              \/ batches[b].wc = Current.wc
<1>1. /\ DOMAIN batches' = DOMAIN batches
      /\ \A b \in DOMAIN batches :
            batches'[b] = [batches[b] EXCEPT !.used = @ \/ batches[b].wc = Current.wc]
  BY DEF MarkKeys
<1>2. ASSUME NEW b \in DOMAIN batches
      PROVE  /\ batches'[b] \in Batches
             /\ batches'[b].wc = batches[b].wc
             /\ batches'[b].used <=> (batches[b].used \/ batches[b].wc = Current.wc)
  <2> DEFINE now == batches[b].used \/ batches[b].wc = Current.wc
  <2>1. batches'[b] = [batches[b] EXCEPT !.used = now] /\ now \in BOOLEAN
    BY <1>1
  <2>2. now <=> (batches[b].used \/ batches[b].wc = Current.wc)
    OBVIOUS
  <2> HIDE DEF now
  <2>3. batches[b] \in [wc : Credentials, used : BOOLEAN]
    BY BatchFacts DEF Batches
  <2>4. batches'[b] \in [wc : Credentials, used : BOOLEAN]
        /\ batches'[b].wc = batches[b].wc /\ batches'[b].used = now
    BY <2>1, <2>3
  <2> QED
    BY <2>2, <2>4 DEF Batches
<1>3. batches' = [b \in 1..Len(batches) |-> batches'[b]]
  BY <1>1, BatchFacts DEF MarkKeys
<1>4. batches' \in [1..Len(batches) -> Batches]
  BY <1>2, <1>3, BatchFacts
<1>5. batches' \in Seq(Batches)
  BY <1>4, BatchFacts, SeqDef
<1>6. UNCHANGED <<files, submitted, vc>>
  BY DEF MarkKeys
<1> QED
  BY <1>1, <1>2, <1>5, <1>6 DEF KeyTypes

LEMMA Written ==
  ASSUME KeyTypes, WriteKeysFile
  PROVE  /\ KeyTypes'
         /\ UNCHANGED <<batches, submitted>>
         /\ DOMAIN files' = DOMAIN files \cup {Current.name}
         /\ files'[Current.name] = Unused(Current.wc)
         /\ \A n \in DOMAIN files : n # Current.name => files'[n] = files[n]
<1>1. /\ UNCHANGED <<batches, submitted, vc>>
      /\ DOMAIN files' = DOMAIN files \cup {Current.name}
      /\ \A n \in DOMAIN files' :
            files'[n] = IF n = Current.name THEN Unused(Current.wc) ELSE files[n]
  BY DEF WriteKeysFile
<1>2. Unused(Current.wc) \subseteq DOMAIN batches
  BY DEF Unused
<1>3. \A n \in DOMAIN files' : files'[n] \subseteq DOMAIN batches'
  BY <1>1, <1>2 DEF KeyTypes
<1> QED
  BY <1>1, <1>3 DEF KeyTypes

\* There are finitely many operators.
LEMMA FiniteImage ==
  ASSUME NEW S, IsFiniteSet(S), NEW f, f = [x \in S |-> f[x]]
  PROVE  IsFiniteSet({f[x] : x \in S})
<1> DEFINE T == {f[x] : x \in S}
<1>1. f \in [S -> T]
  OBVIOUS
<1>2. \A t \in T : \E x \in S : f[x] = t
  OBVIOUS
<1>3. f \in Surjection(S, T)
  BY <1>1, <1>2 DEF Surjection
<1> QED
  BY <1>3, FS_Surjection

LEMMA Submitted ==
  ASSUME KeyTypes, Current.name \in DOMAIN files,
         NEW operator, operator[2] \in Nat \ {0}, Submit(operator)
  PROVE  KeyTypes'
<1> DEFINE new == {[operator |-> operator, batch |-> b] : b \in files[Current.name]}
<1>1. files[Current.name] \subseteq 1..Len(batches) /\ Len(batches) \in Nat
  BY BatchFacts DEF KeyTypes
<1>2. IsFiniteSet(files[Current.name])
  <2>1. IsFiniteSet(1..Len(batches))
    BY <1>1, FS_Interval
  <2> QED
    BY <1>1, <2>1, FS_Subset
<1>3. IsFiniteSet(new)
  <2> DEFINE f == [b \in files[Current.name] |-> [operator |-> operator, batch |-> b]]
  <2>1. f = [b \in files[Current.name] |-> f[b]]
    OBVIOUS
  <2>2. new = {f[b] : b \in files[Current.name]}
    OBVIOUS
  <2> HIDE DEF f, new
  <2> QED
    BY <1>2, <2>1, <2>2, FiniteImage
<1>4. submitted' = submitted \cup new /\ UNCHANGED <<batches, files, vc>>
  BY DEF Submit
<1>5. IsFiniteSet(submitted')
  BY <1>3, <1>4, FS_Union DEF KeyTypes
<1>6. \A x \in new : x.operator[2] \in Nat \ {0} /\ x.batch \in DOMAIN batches
  BY <1>1, BatchFacts
<1> HIDE DEF new
<1> QED
  BY <1>4, <1>5, <1>6 DEF KeyTypes

LEMMA NextOperator ==
  ASSUME KeyTypes, AddOperatorWithKeys
  PROVE  \E k \in Nat \ {0} : Submit(<<Current.name, k>>)
<1> DEFINE own == {y \in submitted : y.operator[1] = Current.name}
           mine == {x.operator : x \in own}
           f == [x \in own |-> x.operator]
<1>1. IsFiniteSet(own)
  BY FS_Subset DEF KeyTypes
<1>2. mine = {f[x] : x \in own} /\ f = [x \in own |-> f[x]]
  OBVIOUS
<1>3. Submit(<<Current.name, Cardinality(mine) + 1>>)
  BY DEF AddOperatorWithKeys
<1> HIDE DEF own, mine, f
<1>4. IsFiniteSet(mine)
  BY <1>1, <1>2, FiniteImage
<1>5. Cardinality(mine) \in Nat
  BY <1>4, FS_CardinalityType
<1> QED
  BY <1>3, <1>5

\* What hands out the keys of a file finds it.
LEMMA FileThere ==
  ASSUME "keysFile" \notin done, Able, Current.op \in {"addKeys", "newOperator"}
  PROVE  Current.name \in DOMAIN files
<1>1. "keysFile" \in Needs(Current)
  BY DEF Needs
<1>2. "keysFile" \in Found(Current)
  BY <1>1 DEF Able, Missing
<1> QED
  BY <1>2 DEF Found

LEMMA DoneTypes ==
  ASSUME NEW F, "operatorExists" \in F, Current.gives \subseteq F, done \subseteq F,
         "keysFile" \notin done, "keysFile" \notin Current.gives, Effect
  PROVE  done' \subseteq F /\ "keysFile" \notin done'
<1> DEFINE found == IF Current.op = "look" /\ Current.name \in DOMAIN files
                    THEN {"operatorExists"} ELSE {}
<1>1. done' = (done \ Current.takes) \cup Current.gives \cup found
  BY Zenon DEF Effect
<1>2. found \subseteq {"operatorExists"}
  BY Zenon
<1> HIDE DEF found
<1>3. "keysFile" # "operatorExists"
  OBVIOUS
<1> QED
  BY <1>1, <1>2, <1>3

\* The command that runs speaks of facts.
LEMMA SpeaksOfFacts ==
  ASSUME Types, InPlace, AtMove
  PROVE  /\ Needs(Current) \subseteq Facts
         /\ Current.gives \subseteq Facts
         /\ "operatorExists" \in Facts
         /\ "keysFile" \notin Current.gives
         /\ Current.op = "generate" => Current.wc \in Credentials
<1>1. /\ command \in DOMAIN Plan /\ Passed + 1 \in DOMAIN Plan[command]
      /\ Current = Plan[command][Passed + 1]
      /\ UsesKeysInOrder(Here)
  BY AtCurrent, PlanFacts DEF Types, Here
<1>2. Current \in MovesOf(Plan)
  BY <1>1 DEF MovesOf
<1>3. Needs(Current) \subseteq Facts /\ Current.gives \subseteq Facts
  BY <1>2 DEF Facts
<1>4. "operatorExists" \in Facts
  BY DEF Facts
<1> QED
  BY <1>1, <1>3, <1>4 DEF UsesKeysInOrder, Here

LEMMA EffectTypes ==
  ASSUME KeyTypes, "keysFile" \notin done, Current \in Moves, Able, Effect,
         Current.op = "generate" => Current.wc \in Credentials
  PROVE  /\ KeyTypes'
         /\ DOMAIN batches \subseteq DOMAIN batches'
<1>2. KeysEffect
  BY Zenon DEF Effect
<1>3. CASE Current.op = "generate"
  <2>1. GenerateKeys
    BY <1>2, <1>3 DEF KeysEffect
  <2> QED
    BY <1>3, <2>1, Generated
<1>4. CASE Current.op = "write"
  <2>1. WriteKeysFile
    BY <1>2, <1>4 DEF KeysEffect
  <2> QED
    BY <2>1, Written
<1>5. CASE Current.op = "mark"
  <2>1. MarkKeys
    BY <1>2, <1>5 DEF KeysEffect
  <2> QED
    BY <2>1, Marked
<1>6. CASE Current.op = "addKeys"
  <2>1. Current.name \in DOMAIN files
    BY <1>6, FileThere
  <2>2. Submit(<<"nor", 1>>)
    BY <1>2, <1>6 DEF KeysEffect, AddKeys
  <2>3. <<"nor", 1>>[2] \in Nat \ {0}
    OBVIOUS
  <2> QED
    BY <2>1, <2>2, <2>3, Submitted DEF Submit
<1>7. CASE Current.op = "newOperator"
  <2>1. Current.name \in DOMAIN files
    BY <1>7, FileThere
  <2>2. AddOperatorWithKeys
    BY <1>2, <1>7 DEF KeysEffect
  <2>3. PICK k \in Nat \ {0} : Submit(<<Current.name, k>>)
    BY <2>2, NextOperator
  <2>4. <<Current.name, k>>[2] \in Nat \ {0}
    OBVIOUS
  <2> QED
    BY <2>1, <2>3, <2>4, Submitted DEF Submit
<1>8. CASE Current.op = "import"
  <2>1. ImportKeys
    BY <1>2, <1>8 DEF KeysEffect
  <2> QED
    BY <2>1 DEF ImportKeys, KeyTypes
<1>9. CASE Current.op \in {"none", "look"}
  <2>1. UNCHANGED <<batches, files, submitted, vc>>
    BY <1>2, <1>9 DEF KeysEffect, keyVars
  <2> QED
    BY <2>1 DEF KeyTypes
<1> QED
  BY <1>3, <1>4, <1>5, <1>6, <1>7, <1>8, <1>9, MoveFacts

-----------------------------------------------------------------------------
(***************************************************************************)
(* ... keys that are in a file and not marked are those of a `keys use`    *)
(* that the command which runs has before it, or has just behind it; keys  *)
(* are in one file; ...                                                    *)
(***************************************************************************)
Uses(name, wc) ==
    \E j \in DOMAIN Here : /\ Here[j].op = "write" /\ Here[j].name = name /\ Here[j].wc = wc
                            /\ Passed <= j
HalfUsed(name, b) == command > 0 /\ Uses(name, batches[b].wc)

InFiles ==
    \A n \in DOMAIN files : \A b \in files[n] :
        /\ ~batches[b].used => HalfUsed(n, b)
        /\ \A m \in DOMAIN files : b \in files[m] => m = n

(***************************************************************************)
(* ... and what was submitted had been marked before, for the operator of  *)
(* its file: for the one that the file's keys are added to, or the one     *)
(* that a command created and ended with.                                  *)
(***************************************************************************)
Creates(c, name) == \E j \in DOMAIN Plan[c] : /\ Plan[c][j].op = "newOperator"
                                              /\ Plan[c][j].name = name
Ended(c) == c < command \/ (c = command /\ left = <<>>)

Accounted(x, name) ==
    \/ x.batch \in unanswered
    \/ x.operator = <<"nor", 1>> /\ \A c \in DOMAIN Plan : ~Creates(c, name)
    \/ \E c \in DOMAIN Plan : Creates(c, name) /\ Ended(c)

Handed ==
    \A x \in submitted : /\ batches[x.batch].used
                          /\ \A n \in DOMAIN files : x.batch \in files[n] => Accounted(x, n)

IInv == Types /\ InPlace /\ InFiles /\ Handed /\ OneOperatorPerKey

-----------------------------------------------------------------------------
\* Where a command stands that has a `keys use` before it.
LEMMA WriteAhead ==
  ASSUME Types, InPlace, AtMove,
         NEW j \in DOMAIN Here, Here[j].op = "write", Passed <= j
  PROVE  /\ Passed + 1 <= j \/ (/\ Passed = j /\ Current.op = "mark"
                                /\ Current.wc = Here[j].wc /\ ~Current.quiet)
         /\ Current.skip # {} => /\ Passed + 1 + Current.over <= j
                                 /\ ~(Len(Here) <= Passed + 1 + Current.over)
         /\ Current.op \notin {"addKeys", "newOperator"}
         /\ Current.op = "write" => j = Passed + 1
<1> DEFINE k == Passed + 1
<1>1. /\ k \in DOMAIN Here /\ Current = Here[k] /\ Passed \in Nat /\ j \in Nat
      /\ j <= Len(Here) /\ Len(Here) \in Nat /\ Current.over \in Nat
  BY AtCurrent, MoveFacts
<1>2. /\ Here[j + 1].op = "mark" /\ Here[j + 1].wc = Here[j].wc /\ ~Here[j + 1].quiet
      /\ Here[k].op = "write" => k = j
      /\ Here[k].op \in {"addKeys", "newOperator"} => k > j
      /\ Here[k].skip # {} /\ k <= j + 1 => k + Here[k].over < j
  BY <1>1, AtCurrent DEF UsesKeysInOrder
<1>3. k <= j \/ k = j + 1
  BY <1>1
<1>4. CASE k <= j
  BY <1>1, <1>2, <1>4
<1>5. CASE k = j + 1
  BY <1>1, <1>2, <1>5
<1> QED
  BY <1>3, <1>4, <1>5

\* What keeps the files, and goes past no `keys use` but by marking its keys, keeps them
\* in order.
LEMMA KeepsFiles ==
  ASSUME KeyTypes, InFiles, UNCHANGED <<scenario, command, files>>,
         \A b \in DOMAIN batches : /\ batches'[b].wc = batches[b].wc
                                   /\ batches[b].used => batches'[b].used,
         \A j \in DOMAIN Here : \A b \in DOMAIN batches :
            Here[j].op = "write" /\ Passed <= j /\ Here[j].wc = batches[b].wc
                => Passed' <= j \/ batches'[b].used
  PROVE  InFiles'
<1>1. Here' = Here
  BY DEF Here, Plan
<1>2. ASSUME NEW n, NEW b \in DOMAIN batches, HalfUsed(n, b), ~batches'[b].used
      PROVE  HalfUsed(n, b)'
  <2>1. PICK j \in DOMAIN Here : /\ Here[j].op = "write" /\ Here[j].name = n
                                 /\ Here[j].wc = batches[b].wc /\ Passed <= j
    BY <1>2 DEF HalfUsed, Uses
  <2>2. Passed' <= j /\ Here'[j].wc = batches'[b].wc
    BY <1>1, <1>2, <2>1
  <2>3. command' > 0
    BY <1>2 DEF HalfUsed
  <2> QED
    BY <1>1, <2>1, <2>2, <2>3 DEF HalfUsed, Uses
<1>3. ASSUME NEW n \in DOMAIN files, NEW b \in files[n]
      PROVE  /\ ~batches'[b].used => HalfUsed(n, b)'
             /\ \A m \in DOMAIN files : b \in files[m] => m = n
  <2>1. b \in DOMAIN batches
    BY DEF KeyTypes
  <2> QED
    BY <1>2, <2>1 DEF InFiles
<1> QED
  BY <1>3 DEF InFiles

LEMMA Growing ==
  ASSUME NEW x, NEW name, Accounted(x, name), UNCHANGED <<scenario, command>>,
         unanswered \subseteq unanswered', left = <<>> => left' = <<>>
  PROVE  Accounted(x, name)'
<1>1. Plan' = Plan
  BY DEF Plan
<1>2. \A c : Creates(c, name)' <=> Creates(c, name)
  BY <1>1 DEF Creates
<1>3. \A c : Ended(c) => Ended(c)'
  BY DEF Ended
<1> QED
  BY <1>1, <1>2, <1>3 DEF Accounted

\* What submits nothing, and puts no submitted key into another file, keeps the account.
LEMMA KeepsHanded ==
  ASSUME KeyTypes, Handed, UNCHANGED <<scenario, command, submitted>>,
         \A b \in DOMAIN batches : batches[b].used => batches'[b].used,
         unanswered \subseteq unanswered', left = <<>> => left' = <<>>,
         \A n \in DOMAIN files' : \A x \in submitted :
            x.batch \in files'[n] => n \in DOMAIN files /\ x.batch \in files[n]
  PROVE  Handed'
<1>1. ASSUME NEW x \in submitted
      PROVE  batches'[x.batch].used
  BY DEF Handed, KeyTypes
<1>2. ASSUME NEW x \in submitted, NEW n \in DOMAIN files', x.batch \in files'[n]
      PROVE  Accounted(x, n)'
  <2>1. Accounted(x, n)
    BY <1>2 DEF Handed
  <2> QED
    BY <2>1, Growing
<1> QED
  BY <1>1, <1>2 DEF Handed

LEMMA KeepsOne ==
  ASSUME OneOperatorPerKey, UNCHANGED submitted, unanswered \subseteq unanswered'
  PROVE  OneOperatorPerKey'
BY DEF OneOperatorPerKey

\* A call on chain.  Its answer is lost, or the command is through with an operator that
\* it has created.
LEMMA KeepsSubmitted ==
  ASSUME IInv, Able, UNCHANGED <<scenario, command>>, unanswered \subseteq unanswered',
         NEW operator, Submit(operator),
         Current.op \in {"addKeys", "newOperator"},
         Current.op = "addKeys" => operator = <<"nor", 1>>,
         Passed' \in {Passed, Passed + 1},
         \/ \A x \in submitted' \ submitted : x.batch \in unanswered'
         \/ Passed + 1 = Len(Here) => left' = <<>>
  PROVE  InFiles' /\ Handed' /\ OneOperatorPerKey'
<1>0. PICK name : name = Current.name
  OBVIOUS
<1> DEFINE k == Passed + 1
           new == {[operator |-> operator, batch |-> b] : b \in files[name]}
<1> USE DEF IInv
<1>1. /\ name \in DOMAIN files
      /\ submitted' = submitted \cup new /\ UNCHANGED <<batches, files>>
      /\ AtMove
  BY <1>0, FileThere DEF Submit, Types, Able
<1>2. /\ command \in DOMAIN Plan /\ k \in DOMAIN Plan[command]
      /\ Current = Plan[command][k] /\ Here = Plan[command] /\ k \in Nat
      /\ left # <<>>
  BY <1>1, AtCurrent, PlanFacts DEF Types, Here, AtMove
<1>3. \A j \in DOMAIN Here : Here[j].op = "write" => ~(Passed <= j)
  BY <1>1, WriteAhead
<1>4. \A b \in files[name] : batches[b].used
  BY <1>1, <1>3 DEF InFiles, HalfUsed, Uses
<1>5. InFiles'
  BY <1>1, <1>3, KeepsFiles DEF Types
<1>6. ASSUME NEW x \in submitted
      PROVE  batches'[x.batch].used /\ \A n \in DOMAIN files' : x.batch \in files'[n] => Accounted(x, n)'
  <2>1. batches[x.batch].used /\ \A n \in DOMAIN files : x.batch \in files[n] => Accounted(x, n)
    BY DEF Handed
  <2>2. \A n : Accounted(x, n) => Accounted(x, n)'
    BY <1>2, Growing
  <2> QED
    BY <1>1, <2>1, <2>2
<1>7. /\ Current.op = "addKeys" => \A c \in DOMAIN Plan : ~Creates(c, name)
      /\ Current.op = "newOperator" => Creates(command, name) /\ k = Len(Here)
      /\ \A c \in DOMAIN Plan : Creates(c, name) => c = command
  BY <1>0, <1>2, PlanFacts DEF OperatorPerName, Creates, Types
<1>8. ASSUME NEW x \in new, x \notin submitted
      PROVE  Accounted(x, name)'
  <2>1. x \in submitted' \ submitted /\ x.operator = operator
    BY <1>1, <1>8
  <2>2. CASE \A y \in submitted' \ submitted : y.batch \in unanswered'
    BY <2>1, <2>2 DEF Accounted
  <2>3. Plan' = Plan /\ \A c : Creates(c, name)' <=> Creates(c, name)
    BY <1>1 DEF Plan, Creates
  <2>4. CASE Current.op = "addKeys"
    BY <1>7, <2>1, <2>3, <2>4 DEF Accounted
  <2>5. CASE Current.op = "newOperator" /\ (Passed + 1 = Len(Here) => left' = <<>>)
    <3>1. Creates(command, name) /\ Ended(command)'
      BY <1>7, <2>5 DEF Ended
    <3> QED
      BY <1>2, <2>3, <3>1 DEF Accounted
  <2> QED
    BY <2>2, <2>4, <2>5
<1>9. ASSUME NEW x \in new
      PROVE  batches'[x.batch].used /\ \A n \in DOMAIN files' : x.batch \in files'[n] => Accounted(x, n)'
  <2>1. x.batch \in files[name]
    OBVIOUS
  <2>2. \A n \in DOMAIN files : x.batch \in files[n] => n = name
    BY <1>1, <2>1 DEF InFiles
  <2>3. Accounted(x, name)'
    BY <1>1, <1>6, <1>8, <2>1
  <2> QED
    BY <1>1, <1>4, <2>1, <2>2, <2>3
<1>10. Handed'
  <2> HIDE DEF new
  <2> QED
    BY <1>1, <1>6, <1>9 DEF Handed
<1>11. ASSUME NEW x \in new, NEW y \in submitted, x.batch = y.batch, x.batch \notin unanswered'
       PROVE  y.operator = operator
  <2>1. Accounted(y, name)
    BY <1>1, <1>11 DEF Handed
  <2>2. y.batch \notin unanswered
    BY <1>11
  <2>3. ASSUME NEW c \in DOMAIN Plan, Creates(c, name), Ended(c) PROVE FALSE
    <3>1. c = command /\ command \in Nat /\ left # <<>>
      BY <1>2, <1>7, <2>3 DEF Types
    <3> QED
      BY <2>3, <3>1 DEF Ended
  <2>4. y.operator = <<"nor", 1>> /\ \A c \in DOMAIN Plan : ~Creates(c, name)
    BY <2>1, <2>2, <2>3 DEF Accounted
  <2> QED
    BY <1>2, <1>7, <2>4
<1>12. OneOperatorPerKey'
  <2>1. \A x \in new : x.operator = operator
    OBVIOUS
  <2> HIDE DEF new
  <2> SUFFICES ASSUME NEW x \in submitted', NEW y \in submitted',
                      x.batch = y.batch, x.batch \notin unanswered'
               PROVE  x.operator = y.operator
    BY DEF OneOperatorPerKey
  <2>2. CASE x \in submitted /\ y \in submitted
    BY <2>2 DEF OneOperatorPerKey
  <2>3. CASE x \in new \/ y \in new
    BY <1>1, <1>11, <2>1, <2>3
  <2> QED
    BY <1>1, <2>2, <2>3
<1> QED
  BY <1>5, <1>10, <1>12

\* A move that takes effect.
LEMMA EffectKeeps ==
  ASSUME IInv, Able, Effect, UNCHANGED <<scenario, command>>, unanswered \subseteq unanswered',
         Passed' \in {Passed, Passed + 1},
         \/ \A x \in submitted' \ submitted : x.batch \in unanswered'
         \/ Passed + 1 = Len(Here) => left' = <<>>
  PROVE  InFiles' /\ Handed' /\ OneOperatorPerKey'
<1> USE DEF IInv, Types
<1>1. /\ KeysEffect /\ AtMove /\ left # <<>> /\ Current \in Moves
      /\ Passed \in Nat /\ DOMAIN Here \subseteq Nat
      /\ Current.op = "generate" => Current.wc \in Credentials
  <2>1. KeysEffect
    BY Zenon DEF Effect
  <2>2. AtMove
    BY DEF Able
  <2> QED
    BY <2>1, <2>2, AtCurrent, SpeaksOfFacts DEF AtMove
<1>2. ASSUME NEW j \in DOMAIN Here, Here[j].op = "write", Passed <= j
      PROVE  Passed' <= j \/ (Current.op = "mark" /\ Current.wc = Here[j].wc)
  BY <1>1, <1>2, WriteAhead
<1>3. CASE Current.op = "generate"
  <2>1. GenerateKeys
    BY <1>1, <1>3 DEF KeysEffect
  <2>2. \A b \in DOMAIN batches : batches'[b] = batches[b]
    BY <1>1, <1>3, <2>1, Generated
  <2>3. UNCHANGED <<files, submitted, vc>>
    BY <2>1 DEF GenerateKeys
  <2>4. InFiles'
    BY <1>2, <1>3, <2>2, <2>3, KeepsFiles
  <2>5. Handed'
    BY <1>1, <2>2, <2>3, KeepsHanded
  <2> QED
    BY <2>3, <2>4, <2>5, KeepsOne
<1>4. CASE Current.op = "write"
  <2>1. WriteKeysFile
    BY <1>1, <1>4 DEF KeysEffect
  <2>0. PICK name, wc : name = Current.name /\ wc = Current.wc
    OBVIOUS
  <2>2. /\ UNCHANGED <<batches, submitted>>
        /\ DOMAIN files' = DOMAIN files \cup {name}
        /\ files'[name] = Unused(wc)
        /\ \A n \in DOMAIN files : n # name => files'[n] = files[n]
    BY <2>0, <2>1, Written
  <2>3. Here' = Here /\ command > 0 /\ Current = Here[Passed + 1] /\ Passed + 1 \in DOMAIN Here
    BY <1>1, AtCurrent DEF Here, Plan
  <2>4. ASSUME NEW n, NEW b, HalfUsed(n, b)
        PROVE  HalfUsed(n, b)' /\ n = name
    <3>1. PICK j \in DOMAIN Here : /\ Here[j].op = "write" /\ Here[j].name = n
                                   /\ Here[j].wc = batches[b].wc /\ Passed <= j
      BY <2>4 DEF HalfUsed, Uses
    <3>2. j = Passed + 1 /\ Passed' <= j
      BY <1>1, <1>2, <1>4, <3>1, WriteAhead
    <3>3. n = name
      BY <2>0, <2>3, <3>1, <3>2
    <3> QED
      BY <2>2, <2>3, <3>1, <3>2, <3>3 DEF HalfUsed, Uses
  <2>5. ASSUME NEW b \in Unused(wc)
        PROVE  HalfUsed(name, b)' /\ ~batches[b].used
    <3>1. batches[b].wc = wc /\ ~batches[b].used
      BY DEF Unused
    <3>2. Passed' <= Passed + 1
      BY <1>1
    <3> QED
      BY <1>4, <2>0, <2>2, <2>3, <3>1, <3>2 DEF HalfUsed, Uses
  <2>6. ASSUME NEW n \in DOMAIN files', NEW b \in files'[n]
        PROVE  /\ ~batches'[b].used => HalfUsed(n, b)'
               /\ \A m \in DOMAIN files' : b \in files'[m] => m = n
    <3>1. CASE b \in Unused(wc)
      <4>1. ~batches[b].used
        BY <2>5, <3>1
      <4>2. ASSUME NEW m \in DOMAIN files', b \in files'[m]
            PROVE  m = name
        <5>1. CASE m # name
          BY <2>2, <2>4, <4>1, <4>2, <5>1 DEF InFiles
        <5> QED
          BY <5>1
      <4> QED
        BY <2>5, <3>1, <4>2
    <3>2. CASE b \notin Unused(wc)
      <4>1. n # name /\ \A m \in DOMAIN files' : b \in files'[m] => m # name
        BY <2>2, <3>2
      <4> QED
        BY <2>2, <2>4, <4>1 DEF InFiles
    <3> QED
      BY <3>1, <3>2
  <2>7. InFiles'
    BY <2>6 DEF InFiles
  <2>8. ASSUME NEW n \in DOMAIN files', NEW x \in submitted, x.batch \in files'[n]
        PROVE  n \in DOMAIN files /\ x.batch \in files[n]
    <3>1. x.batch \notin Unused(wc)
      BY DEF Handed, Unused
    <3> QED
      BY <2>2, <2>8, <3>1
  <2>9. Handed'
    BY <1>1, <2>2, <2>8, KeepsHanded
  <2> QED
    BY <2>2, <2>7, <2>9, KeepsOne
<1>5. CASE Current.op = "mark"
  <2>1. MarkKeys
    BY <1>1, <1>5 DEF KeysEffect
  <2>2. \A b \in DOMAIN batches : /\ batches'[b].wc = batches[b].wc
                                  /\ batches[b].used => batches'[b].used
                                  /\ batches[b].wc = Current.wc => batches'[b].used
    BY <2>1, Marked
  <2>3. UNCHANGED <<files, submitted, vc>>
    BY <2>1 DEF MarkKeys
  <2>4. InFiles'
    BY <1>2, <2>2, <2>3, KeepsFiles
  <2>5. Handed'
    BY <1>1, <2>2, <2>3, KeepsHanded
  <2> QED
    BY <2>3, <2>4, <2>5, KeepsOne
<1>6. CASE Current.op = "addKeys"
  <2>1. Submit(<<"nor", 1>>)
    BY <1>1, <1>6 DEF KeysEffect, AddKeys
  <2> QED
    BY <1>6, <2>1, KeepsSubmitted
<1>7. CASE Current.op = "newOperator"
  <2>1. AddOperatorWithKeys
    BY <1>1, <1>7 DEF KeysEffect
  <2>2. PICK k \in Nat \ {0} : Submit(<<Current.name, k>>)
    BY <2>1, NextOperator
  <2> QED
    BY <1>7, <2>2, KeepsSubmitted
<1>8. CASE Current.op \in {"none", "look", "import"}
  <2>1. UNCHANGED <<batches, files, submitted>>
    BY <1>1, <1>8 DEF KeysEffect, keyVars, ImportKeys
  <2>2. InFiles'
    BY <1>2, <1>8, <2>1, KeepsFiles
  <2>3. Handed'
    BY <1>1, <2>1, KeepsHanded
  <2> QED
    BY <2>1, <2>2, <2>3, KeepsOne
<1> QED
  BY <1>1, <1>3, <1>4, <1>5, <1>6, <1>7, <1>8, MoveFacts

\* A step that leaves the keys alone and goes past no `keys use`.
LEMMA RestKeeps ==
  ASSUME IInv, UNCHANGED <<scenario, command, batches, files, submitted, unanswered>>,
         left = <<>> => left' = <<>>,
         \A j \in DOMAIN Here : Here[j].op = "write" /\ Passed <= j => Passed' <= j
  PROVE  InFiles' /\ Handed' /\ OneOperatorPerKey'
BY KeepsFiles, KeepsHanded, KeepsOne DEF IInv, Types

-----------------------------------------------------------------------------
LEMMA InitIInv == Init => IInv
<1> SUFFICES ASSUME Init
             PROVE  IInv
  OBVIOUS
<1>1. Plan \in Seq(Seq(Moves)) /\ Len(Plan) \in Nat /\ scenario \in Scenarios
  BY PlanFacts DEF Init
<1>2. KeyTypes
  <2>1. IsFiniteSet({})
    BY FS_EmptySet
  <2>2. << >> \in Seq(Batches)
    OBVIOUS
  <2> QED
    BY <2>1, <2>2 DEF KeyTypes, Init
<1>3. left \in Seq(Moves)
  BY DEF Init
<1>4. done \subseteq Facts /\ "keysFile" \notin done
  BY <1>1, PlansAssumption DEF Init, Facts
<1>5. command \in 0..Len(Plan) /\ faults \in 0..scenario.faults
  BY <1>1, ScenariosAssumption DEF Init
<1>6. Types
  BY <1>1, <1>2, <1>3, <1>4, <1>5 DEF Types, Init
<1>7. InPlace
  BY DEF InPlace, Init
<1>8. InFiles /\ Handed /\ OneOperatorPerKey
  BY DEF InFiles, Handed, OneOperatorPerKey, Init
<1> QED
  BY <1>6, <1>7, <1>8 DEF IInv

LEMMA NextIInv == IInv /\ [Next]_vars => IInv'
<1> SUFFICES ASSUME IInv, [Next]_vars
             PROVE  IInv'
  OBVIOUS
<1> USE DEF IInv
<1>0. /\ command \in Nat /\ Len(Plan) \in Nat /\ command <= Len(Plan) /\ DOMAIN Plan = 1..Len(Plan)
      /\ faults \in Nat /\ scenario.faults \in Nat
  BY PlanFacts, ScenariosAssumption DEF Types
<1>1. CASE Begin
  <2>1. /\ status = "running" /\ left = <<>> /\ command < Len(Plan) /\ command' = command + 1
        /\ left' = Plan[command']
        /\ UNCHANGED <<scenario, done, batches, files, submitted, vc, status, cause, faults, swallowed,
                       unanswered>>
    BY <1>1 DEF Begin, keyVars
  <2>2. command' \in 1..Len(Plan)
    BY <1>0, <2>1
  <2>3. left' \in Seq(Moves) /\ InPlace' /\ Passed' = 0
    BY <2>1, <2>2, Begins
  <2>4. UNCHANGED <<Plan, Facts>>
    BY <2>1 DEF Plan, Facts, MovesOf, Needs
  <2>5. Types'
    BY <1>0, <2>1, <2>2, <2>3, <2>4 DEF Types, KeyTypes
  <2>6. ASSUME NEW n, NEW b
        PROVE  ~HalfUsed(n, b)
    <3>1. SUFFICES ASSUME command > 0, NEW j \in DOMAIN Here, Here[j].op = "write", Passed <= j
                   PROVE  FALSE
      BY DEF HalfUsed, Uses
    <3>2. /\ Len(Here) \in Nat /\ DOMAIN Here = 1..Len(Here) /\ UsesKeysInOrder(Here)
      <4>1. command \in 1..Len(Plan)
        BY <1>0, <3>1
      <4> QED
        BY <4>1, PlanFacts DEF Types, Here
    <3>3. j + 1 \in DOMAIN Here
      BY <3>1, <3>2 DEF UsesKeysInOrder
    <3>4. Passed = Len(Here)
      BY <2>1, <3>2 DEF Passed
    <3> QED
      BY <3>1, <3>2, <3>3, <3>4
  <2>7. InFiles'
    BY <2>1, <2>6 DEF InFiles
  <2>8. ASSUME NEW x, NEW n, Accounted(x, n)
        PROVE  Accounted(x, n)'
    <3>1. \A c : Creates(c, n)' <=> Creates(c, n)
      BY <2>4 DEF Creates
    <3>2. \A c \in DOMAIN Plan : Ended(c) => Ended(c)'
      BY <1>0, <2>1 DEF Ended
    <3> QED
      BY <2>1, <2>4, <2>8, <3>1, <3>2 DEF Accounted
  <2>9. Handed'
    BY <2>1, <2>8 DEF Handed
  <2> QED
    BY <2>1, <2>3, <2>5, <2>7, <2>9 DEF OneOperatorPerKey
<1>2. CASE Skip
  <2>1. /\ AtMove /\ Current.skip # {}
        /\ left' = SubSeq(left, Current.over + 2, Len(left))
        /\ UNCHANGED <<scenario, command, done, batches, files, submitted, vc, status, cause, faults,
                       swallowed, unanswered>>
    BY <1>2 DEF Skip, Skips, keyVars
  <2>2. /\ left' \in Seq(Moves) /\ InPlace'
        /\ \/ Passed' = Passed + 1 + Current.over
           \/ Passed' = Len(Here) /\ Len(Here) <= Passed + 1 + Current.over
    BY <2>1, JumpsOn
  <2>3. UNCHANGED <<Plan, Facts>>
    BY <2>1 DEF Plan, Facts, MovesOf, Needs
  <2>4. Types'
    BY <2>1, <2>2, <2>3 DEF Types, KeyTypes
  <2>5. ASSUME NEW j \in DOMAIN Here, Here[j].op = "write", Passed <= j
        PROVE  Passed' <= j
    BY <2>1, <2>2, <2>5, WriteAhead
  <2>6. left # <<>>
    BY <2>1 DEF AtMove
  <2> QED
    BY <2>1, <2>2, <2>4, <2>5, <2>6, RestKeeps
<1>3. CASE Step
  <2>1. /\ Able /\ AtMove /\ Effect /\ left' = Tail(left)
        /\ UNCHANGED <<scenario, command, status, cause, faults, swallowed, unanswered>>
    BY <1>3 DEF Step, Able
  <2>2. left' \in Seq(Moves) /\ InPlace' /\ Passed' = Passed + 1
    BY <2>1, GoesOn
  <2>3. UNCHANGED <<Plan, Facts>>
    BY <2>1 DEF Plan, Facts, MovesOf, Needs
  <2>4. /\ KeyTypes' /\ DOMAIN batches \subseteq DOMAIN batches'
        /\ done' \subseteq Facts /\ "keysFile" \notin done'
    BY <2>1, AtCurrent, SpeaksOfFacts, EffectTypes, DoneTypes DEF Types
  <2>5. Types'
    BY <2>1, <2>2, <2>3, <2>4 DEF Types
  <2>6. Passed + 1 = Len(Here) => left' = <<>>
    <3>1. Len(Tail(left)) = Len(left) - 1 /\ left \in Seq(Moves)
      BY <2>1, HeadTailProperties DEF Types, AtMove
    <3>2. Passed = Len(Here) - Len(left) /\ Len(Here) \in Nat /\ Len(left) \in Nat
      BY <2>1, AtCurrent DEF Passed
    <3>3. Len(left') = Len(left) - 1
      BY <2>1, <3>1
    <3>4. ASSUME Passed + 1 = Len(Here)
          PROVE  Len(left) = 1
      <4>1. \A h \in Nat, l \in Nat : (h - l) + 1 = h => l = 1
        OBVIOUS
      <4> QED
        BY <3>2, <3>4, <4>1
    <3> QED
      BY <2>2, <3>2, <3>3, <3>4, EmptySeq
  <2> QED
    BY <2>1, <2>2, <2>5, <2>6, EffectKeeps
<1>4. CASE Refuse
  <2>1. /\ AtMove /\ status' = "refused" /\ cause' = Missing
        /\ UNCHANGED <<scenario, command, left, done, batches, files, submitted, vc, faults, swallowed,
                       unanswered>>
    BY <1>4 DEF Refuse, keyVars
  <2>2. UNCHANGED <<Plan, Facts, Passed>>
    BY <2>1 DEF Plan, Facts, MovesOf, Needs, Passed, Here
  <2>3. cause' \subseteq Facts
    BY <2>1, SpeaksOfFacts DEF Missing
  <2>4. Types'
    BY <2>1, <2>2, <2>3 DEF Types, KeyTypes
  <2> QED
    BY <2>1, <2>2, <2>4, StaysInPlace, RestKeeps
<1>5. CASE RefuseQuietly
  <2>1. /\ AtMove /\ Current.quiet /\ left' = Tail(left) /\ swallowed' = TRUE
        /\ UNCHANGED <<scenario, command, done, batches, files, submitted, vc, status, cause, faults,
                       unanswered>>
    BY <1>5 DEF RefuseQuietly, keyVars
  <2>2. left' \in Seq(Moves) /\ InPlace' /\ Passed' = Passed + 1
    BY <2>1, GoesOn
  <2>3. UNCHANGED <<Plan, Facts>>
    BY <2>1 DEF Plan, Facts, MovesOf, Needs
  <2>4. Types'
    BY <2>1, <2>2, <2>3 DEF Types, KeyTypes
  <2>5. \A j \in DOMAIN Here : Here[j].op = "write" /\ Passed <= j => Passed' <= j
    BY <2>1, <2>2, WriteAhead
  <2>6. left # <<>>
    BY <2>1 DEF AtMove
  <2> QED
    BY <2>1, <2>2, <2>4, <2>5, <2>6, RestKeeps
<1>6. CASE FailQuietly
  <2>1. /\ AtMove /\ Current.quiet /\ left' = Tail(left) /\ swallowed' = TRUE
        /\ faults < scenario.faults /\ faults' = faults + 1
        /\ UNCHANGED <<scenario, command, done, batches, files, submitted, vc, status, cause,
                       unanswered>>
    BY <1>6 DEF FailQuietly, Able, Faulty, keyVars
  <2>2. left' \in Seq(Moves) /\ InPlace' /\ Passed' = Passed + 1
    BY <2>1, GoesOn
  <2>3. UNCHANGED <<Plan, Facts>> /\ faults' \in 0..scenario.faults
    BY <1>0, <2>1 DEF Plan, Facts, MovesOf, Needs
  <2>4. Types'
    BY <2>1, <2>2, <2>3 DEF Types, KeyTypes
  <2>5. \A j \in DOMAIN Here : Here[j].op = "write" /\ Passed <= j => Passed' <= j
    BY <2>1, <2>2, WriteAhead
  <2>6. left # <<>>
    BY <2>1 DEF AtMove
  <2> QED
    BY <2>1, <2>2, <2>4, <2>5, <2>6, RestKeeps
<1>7. CASE Interrupt
  <2>1. /\ AtMove /\ faults < scenario.faults /\ faults' = faults + 1 /\ status' = "failed"
        /\ UNCHANGED <<scenario, command, left, done, batches, files, submitted, vc, cause, swallowed,
                       unanswered>>
    BY <1>7 DEF Interrupt, Faulty, keyVars
  <2>2. UNCHANGED <<Plan, Facts, Passed>> /\ faults' \in 0..scenario.faults
    BY <1>0, <2>1 DEF Plan, Facts, MovesOf, Needs, Passed, Here
  <2>3. Types'
    BY <2>1, <2>2 DEF Types, KeyTypes
  <2>4. command > 0 /\ left # <<>>
    BY <2>1, AtCurrent DEF AtMove
  <2> QED
    BY <2>1, <2>2, <2>3, <2>4, StaysInPlace, RestKeeps
<1>8. CASE FailAfterEffect
  <2>1. /\ Able /\ AtMove /\ Effect /\ status' = "failed"
        /\ faults < scenario.faults /\ faults' = faults + 1
        /\ unanswered' = unanswered \cup {x.batch : x \in submitted' \ submitted}
        /\ UNCHANGED <<scenario, command, left, cause, swallowed>>
    BY <1>8 DEF FailAfterEffect, Able, Faulty
  <2>2. UNCHANGED <<Plan, Facts, Passed>> /\ faults' \in 0..scenario.faults
    BY <1>0, <2>1 DEF Plan, Facts, MovesOf, Needs, Passed, Here
  <2>3. /\ KeyTypes' /\ DOMAIN batches \subseteq DOMAIN batches'
        /\ done' \subseteq Facts /\ "keysFile" \notin done'
    BY <2>1, AtCurrent, SpeaksOfFacts, EffectTypes, DoneTypes DEF Types
  <2>4. unanswered' \subseteq DOMAIN batches'
    BY <2>1, <2>3 DEF Types, KeyTypes
  <2>5. Types'
    BY <2>1, <2>2, <2>3, <2>4 DEF Types
  <2>6. command > 0 /\ left # <<>>
    BY <2>1, AtCurrent DEF AtMove
  <2>7. InPlace'
    BY <2>1, <2>6, StaysInPlace
  <2> QED
    BY <2>1, <2>2, <2>5, <2>7, EffectKeeps
<1>9. CASE Resume
  <2>1. /\ status = "failed" /\ status' = "running" /\ left' = Plan[command]
        /\ UNCHANGED <<scenario, command, done, batches, files, submitted, vc, cause, faults, swallowed,
                       unanswered>>
    BY <1>9 DEF Resume, keyVars
  <2>2. command > 0 /\ left # <<>>
    BY <2>1 DEF InPlace
  <2>3. left' \in Seq(Moves) /\ InPlace' /\ Passed' = 0
    BY <1>0, <2>1, <2>2, Begins
  <2>4. UNCHANGED <<Plan, Facts>>
    BY <2>1 DEF Plan, Facts, MovesOf, Needs
  <2>5. Types'
    BY <2>1, <2>3, <2>4 DEF Types, KeyTypes
  <2>6. \A j \in DOMAIN Here : Passed' <= j
    <3>1. DOMAIN Here \subseteq Nat
      BY <1>0, <2>2, PlanFacts DEF Types, Here
    <3> QED
      BY <2>3, <3>1
  <2> QED
    BY <2>1, <2>2, <2>3, <2>5, <2>6, RestKeeps
<1>10. CASE Ready
  <2>1. /\ status' = "ready"
        /\ UNCHANGED <<scenario, command, left, done, batches, files, submitted, vc, cause, faults,
                       swallowed, unanswered>>
    BY <1>10 DEF Ready, keyVars
  <2>2. UNCHANGED <<Plan, Facts, Passed>>
    BY <2>1 DEF Plan, Facts, MovesOf, Needs, Passed, Here
  <2>3. Types'
    BY <2>1, <2>2 DEF Types, KeyTypes
  <2> QED
    BY <2>1, <2>2, <2>3, StaysInPlace, RestKeeps
<1>11. CASE UNCHANGED vars
  <2>1. UNCHANGED <<scenario, command, left, done, batches, files, submitted, vc, status, cause, faults,
                    swallowed, unanswered>>
    BY <1>11 DEF vars
  <2>2. UNCHANGED <<Plan, Facts, Passed>>
    BY <2>1 DEF Plan, Facts, MovesOf, Needs, Passed, Here
  <2>3. Types'
    BY <2>1, <2>2 DEF Types, KeyTypes
  <2>4. InPlace'
    BY <2>1, StaysInPlace DEF InPlace
  <2> QED
    BY <2>1, <2>2, <2>3, <2>4, RestKeeps
<1> QED
  BY <1>1, <1>2, <1>3, <1>4, <1>5, <1>6, <1>7, <1>8, <1>9, <1>10, <1>11 DEF Next

\* The strengthened invariant is one.
THEOREM Inductive == Spec => []IInv
<1>1. Init => IInv
  BY InitIInv
<1>2. IInv /\ [Next]_vars => IInv'
  BY NextIInv
<1> QED
  BY <1>1, <1>2, PTL DEF Spec

\* Type correctness, for every list of commands.
THEOREM TypeCorrect == Spec => []TypeOK
<1>1. IInv => TypeOK
  <2> SUFFICES ASSUME IInv
               PROVE  TypeOK
    OBVIOUS
  <2>1. KeyTypes /\ Types
    BY DEF IInv, Types
  <2> QED
    BY <2>1, BatchFacts DEF TypeOK, Types, KeyTypes
<1> QED
  BY <1>1, Inductive, PTL

\* However often the commands of a stand are interrupted and run again, no validator key
\* is submitted for two operators but by a submission whose answer was lost.
THEOREM OneOwner == Spec => []OneOperatorPerKey
<1>1. IInv => OneOperatorPerKey
  BY DEF IInv
<1> QED
  BY <1>1, Inductive, PTL
=============================================================================
