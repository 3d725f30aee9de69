----------------------------- MODULE StandOrder -----------------------------
(***************************************************************************)
(* The order of the moves of a stand, as a property of its lists of        *)
(* commands alone: whatever a move asks for that the stand is to make or   *)
(* has found, a move before it has made, and no skip, quiet failure or     *)
(* second run of a command takes it away again.  For the four facts that   *)
(* an interruption puts out of reach (HalfDone) this is so where nothing   *)
(* is interrupted; the one that a stand overwrites (Overwritten) may be    *)
(* missing.  And: who makes the deposits for the keys that are submitted.  *)
(*                                                                         *)
(* The order is read off the lists of src/commands/stands/*.ts; the        *)
(* theorems about it hold for every list that has it.                      *)
(***************************************************************************)
EXTENDS Stands

\* The k-th move of the d-th command comes before the j-th of the c-th.
Earlier(d, k, c, j) == d < c \/ (d = c /\ k < j)

\* The i-th move of a command may pass over the k-th.
Covers(moves, i, k) == moves[i].skip # {} /\ i <= k /\ k <= i + moves[i].over

\* Whoever has made the move has found the fact, or made it.
Shows(move, fact) ==
    \/ fact \in move.gives
    \/ fact \in move.needs \ (move.takes \cup {"unusedKeys", "keysFile"})

(***************************************************************************)
(* A record by which a part of a command is skipped, and a fact that is    *)
(* made, or asked for, before the record is written: one is not there      *)
(* without the other, as "lido" is not without the contracts.              *)
(***************************************************************************)
Tied(sc, record, fact) ==
    LET plan == Plans[sc] IN
    /\ record # "operatorExists" /\ NeverTaken(plan, fact)
    /\ record \in sc.given => fact \in sc.given
    /\ \A c \in DOMAIN plan : \A j \in DOMAIN plan[c] :
          record \in plan[c][j].gives =>
              \E k \in DOMAIN plan[c] :
                 /\ k < j /\ Shows(plan[c][k], fact)
                 /\ \A i \in DOMAIN plan[c] :
                       Covers(plan[c], i, k) => fact \in plan[c][i].skip \/ record \in plan[c][i].skip

\* After the move the fact is there for good: where it is skipped the fact is there, and
\* nothing that comes later takes it.
Makes(sc, d, k, fact) ==
    LET plan == Plans[sc] IN
    /\ Shows(plan[d][k], fact)
    /\ \A i \in DOMAIN plan[d] :
          Covers(plan[d], i, k) => \/ fact \in plan[d][i].skip
                                   \/ \E record \in plan[d][i].skip : Tied(sc, record, fact)
    /\ \A e \in DOMAIN plan : \A l \in DOMAIN plan[e] :
          Earlier(d, k, e, l) => fact \notin plan[e][l].takes

Sure(sc, c, j, fact) ==
    LET plan == Plans[sc] IN
    \/ fact \in sc.given /\ NeverTaken(plan, fact)
    \/ \E d \in DOMAIN plan : \E k \in DOMAIN plan[d] : Earlier(d, k, c, j) /\ Makes(sc, d, k, fact)

(***************************************************************************)
(* Where nothing is interrupted.                                           *)
(***************************************************************************)
\* The record cannot be there yet at the j-th move of the c-th command.
NotYet(sc, c, j, record) ==
    LET plan == Plans[sc] IN
    /\ record \notin sc.given
    /\ \A d \in DOMAIN plan : \A k \in DOMAIN plan[d] :
          Earlier(d, k, c, j) =>
              /\ record \notin plan[d][k].gives
              /\ record = "operatorExists" /\ plan[d][k].op = "look" =>
                    \A e \in DOMAIN plan : \A l \in DOMAIN plan[e] :
                       plan[e][l].op = "write" /\ plan[e][l].name = plan[d][k].name
                          => ~Earlier(e, l, d, k)

\* The move makes the fact where nothing is interrupted: it is not skipped then.
MakesAtOnce(sc, d, k, fact) ==
    LET plan == Plans[sc] IN
    /\ fact \in plan[d][k].gives
    /\ \A i \in DOMAIN plan[d] :
          Covers(plan[d], i, k) => \/ fact \in plan[d][i].skip
                                   \/ \E record \in plan[d][i].skip : NotYet(sc, d, i, record)

SureAtOnce(sc, c, j, fact) ==
    LET plan == Plans[sc] IN
    \E d \in DOMAIN plan : \E k \in DOMAIN plan[d] :
       /\ Earlier(d, k, c, j) /\ MakesAtOnce(sc, d, k, fact)
       /\ \A e \in DOMAIN plan : \A l \in DOMAIN plan[e] :
             Earlier(d, k, e, l) /\ Earlier(e, l, c, j) => fact \notin plan[e][l].takes

(***************************************************************************)
(* The keys.  What `keys use` takes, a move before it has generated, that  *)
(* is neither skipped nor passed over; no other use of such keys comes     *)
(* between, and unless they come from the same command, the use is over    *)
(* with the mark.                                                          *)
(***************************************************************************)
GeneratesFor(plan, d, i, c, j) ==
    /\ Earlier(d, i, c, j)
    /\ plan[d][i].op = "generate" /\ plan[d][i].wc = plan[c][j].wc /\ ~plan[d][i].quiet
    /\ \A k \in DOMAIN plan[d] : ~Covers(plan[d], k, i)
    /\ \A e \in DOMAIN plan : \A l \in DOMAIN plan[e] :
          Earlier(d, i, e, l) /\ Earlier(e, l, c, j) =>
              ~(plan[e][l].op = "mark" /\ plan[e][l].wc = plan[c][j].wc)
    /\ d # c => j + 1 = Len(plan[c]) /\ ~plan[c][j + 1].outside

HasKeys(plan, c, j) == \E d \in DOMAIN plan : \E i \in DOMAIN plan[d] : GeneratesFor(plan, d, i, c, j)

\* The file that a submission reads is written before.
HasFile(plan, c, j) ==
    \E d \in DOMAIN plan : \E k \in DOMAIN plan[d] :
       Earlier(d, k, c, j) /\ plan[d][k].op = "write" /\ plan[d][k].name = plan[c][j].name

\* A move that only warns of what is missing finds all of it.
InOrder(sc) ==
    LET plan == Plans[sc]
        provided == ProvidedBy(sc)
    IN  \A c \in DOMAIN plan : \A j \in DOMAIN plan[c] :
           /\ \A fact \in plan[c][j].needs :
                 \/ fact \notin provided /\ ~plan[c][j].quiet
                 \/ Sure(sc, c, j, fact)
                 \/ fact \in HalfDone /\ SureAtOnce(sc, c, j, fact)
                 \/ fact \in Overwritten(sc) /\ ~plan[c][j].quiet
           /\ plan[c][j].op = "write" => HasKeys(plan, c, j)
           /\ plan[c][j].op \in Submissions => HasFile(plan, c, j)

-----------------------------------------------------------------------------
(***************************************************************************)
(* Who makes the deposits.                                                 *)
(***************************************************************************)
\* A fact that is there once the plan is through: a move that is not passed over gives it,
\* what skips that move finds the fact there, and no move takes it away.
Delivers(plan, fact) ==
    /\ \A c \in DOMAIN plan : \A j \in DOMAIN plan[c] : fact \notin plan[c][j].takes
    /\ \E c \in DOMAIN plan : \E j \in DOMAIN plan[c] :
          /\ fact \in plan[c][j].gives /\ ~plan[c][j].quiet
          /\ \A i \in DOMAIN plan[c] :
                plan[c][i].skip # {} /\ i <= j /\ j <= i + plan[c][i].over => fact \in plan[c][i].skip

SomebodyDeposits(sc) ==
    \/ \A c \in DOMAIN Plans[sc] : \A j \in DOMAIN Plans[sc][c] :
          Plans[sc][c][j].op \notin Submissions
    \/ \E facts \in Depositors : \A fact \in facts : Delivers(Plans[sc], fact)

ASSUME DepositAssumption == \A sc \in Scenarios : SomebodyDeposits(sc)

ASSUME OrderAssumption == \A sc \in Scenarios : InOrder(sc)
=============================================================================
