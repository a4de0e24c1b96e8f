------------------------------ MODULE GR1Lifting ------------------------------
(****************************************************************************)
(* The abstract lifting algorithm (Definition "Rank lifting algorithm" of   *)
(* doc/definitions/clts_gr1.tex): while some rank differs from its update,  *)
(* replace it, and replace all ranks of a state by infinity when one of     *)
(* them gets there.  No worklist: any pair may be lifted next.              *)
(****************************************************************************)
EXTENDS GR1Game

VARIABLES game, rank

vars == <<game, rank>>

Init ==
  /\ game \in Game
  /\ rank = [j \in Goal |-> [s \in State |->
               IF IsDeadlock(game, s) THEN Infinite ELSE InitialRank]]

CanLift(s, j) ==
  /\ ~IsDeadlock(game, s)
  /\ RankingGt(Increment(game, s, j, BestSuccessor(game, rank, s, j)), rank[j][s])

LiftRank(s, j) ==
  /\ CanLift(s, j)
  /\ LET new == Update(game, rank, s, j)
     IN  rank' = [i \in Goal |->
                    [rank[i] EXCEPT ![s] = IF IsInfinite(new) THEN Infinite
                                           ELSE IF i = j THEN new ELSE @]]
  /\ UNCHANGED game

Next == \E s \in State, j \in Goal : LiftRank(s, j)

Spec == Init /\ [][Next]_vars

=============================================================================
