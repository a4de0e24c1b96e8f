------------------------------ MODULE GR1Ranking ------------------------------
(****************************************************************************)
(* The stabilisation loop of automaton_get_gr1_strategy: lift the rankings  *)
(* of pending (state, goal) pairs until none is pending.  The order in      *)
(* which pairs are taken is left open here; GR1Worklist has the heap.       *)
(*                                                                          *)
(* The game is a variable that never changes, so that one run of the model  *)
(* checker covers many games and one theorem covers all of them.            *)
(****************************************************************************)
EXTENDS GR1Winning

CONSTANT Games     \* the games the loop may be started on
ASSUME GamesAssumption == Games \subseteq Game

VARIABLES
  game,     \* game_automaton, with its assumptions and guarantees
  rank,     \* ranking_list: goal -> state -> rank
  pending   \* the (state, goal) pairs in pending_list

vars == <<game, rank, pending>>

TypeOK ==
  /\ game \in Game
  /\ IsRanking(game, rank)
  /\ pending \subseteq State \X Goal

\* Mutant: goals are added by their index among all the fluents.
PredecessorPairsByFluent(g, s, J) ==
  Predecessors(g, s) \X {AssumptionsCount + j : j \in J}

\* The pairs that automaton_add_unstable_predecessors adds for state s and goals J.
PredecessorPairs(g, s, J) == Predecessors(g, s) \X J

InitialRanking(g) ==
  [j \in Goal |-> [s \in State |->
     IF IsDeadlock(g, s) THEN Infinite ELSE InitialRank]]

\* Mutant: the predecessors of deadlocks are not added.
InitialPendingWithoutDeadlocks(g) ==
  {p \in State \X Goal :
     /\ ~IsDeadlock(g, p[1])
     /\ SatisfiesAssumption(g, p[1], FirstAssumption)
     /\ \E l \in Goal : ~SatisfiesGuarantee(g, p[1], l)}

InitialPending(g) ==
  {p \in State \X Goal :
     /\ ~IsDeadlock(g, p[1])
     /\ SatisfiesAssumption(g, p[1], FirstAssumption)
     /\ \E l \in Goal : ~SatisfiesGuarantee(g, p[1], l)}
  \cup UNION {PredecessorPairs(g, s, Goal) : s \in {t \in State : IsDeadlock(g, t)}}

Init ==
  /\ game \in Games
  /\ rank = InitialRanking(game)
  /\ pending = InitialPending(game)

\* The popped pair already lost.
SkipInfinite(s, j) ==
  /\ <<s, j>> \in pending
  /\ IsInfinite(rank[j][s])
  /\ pending' = pending \ {<<s, j>>}
  /\ UNCHANGED <<game, rank>>

\* The popped pair needs no lift.
SkipStable(s, j) ==
  /\ <<s, j>> \in pending
  /\ ~IsInfinite(rank[j][s])
  /\ IsStable(game, rank, s, j)
  /\ pending' = pending \ {<<s, j>>}
  /\ UNCHANGED <<game, rank>>

\* The popped pair is lifted to a finite rank.
Lift(s, j) ==
  /\ <<s, j>> \in pending
  /\ ~IsInfinite(rank[j][s])
  /\ ~IsStable(game, rank, s, j)
  /\ LET new == Update(game, rank, s, j)
     IN  /\ ~IsInfinite(new)
         /\ rank' = [rank EXCEPT ![j][s] = new]
  /\ pending' = (pending \ {<<s, j>>}) \cup PredecessorPairs(game, s, {j})
  /\ UNCHANGED game

\* Mutant: the state loses for the goal lifted alone.
LiftOneToInfinity(s, j) ==
  /\ <<s, j>> \in pending
  /\ ~IsInfinite(rank[j][s])
  /\ ~IsStable(game, rank, s, j)
  /\ IsInfinite(Update(game, rank, s, j))
  /\ rank' = [rank EXCEPT ![j][s] = Infinite]
  /\ pending' = (pending \ {<<s, j>>}) \cup PredecessorPairs(game, s, {j})
  /\ UNCHANGED game

\* The popped pair is lifted to infinity: its state loses for every goal.
LiftToInfinity(s, j) ==
  /\ <<s, j>> \in pending
  /\ ~IsInfinite(rank[j][s])
  /\ ~IsStable(game, rank, s, j)
  /\ IsInfinite(Update(game, rank, s, j))
  /\ rank' = [i \in Goal |-> [rank[i] EXCEPT ![s] = Infinite]]
  /\ pending' = (pending \ {<<s, j>>}) \cup PredecessorPairs(game, s, Goal)
  /\ UNCHANGED game

Process(s, j) ==
  \/ SkipInfinite(s, j)
  \/ SkipStable(s, j)
  \/ Lift(s, j)
  \/ LiftToInfinity(s, j)

Next == \E s \in State, j \in Goal : Process(s, j)

\* The loop body runs as long as a pair is pending.
Spec == Init /\ [][Next]_vars /\ WF_vars(Next)

\* automaton_get_gr1_strategy answers for the initial state alone, once stabilised.
IsWinning(s) == \A j \in Goal : ~IsInfinite(rank[j][s])

-----------------------------------------------------------------------------
(****************************************************************************)
(* Properties.                                                              *)
(****************************************************************************)

\* The worklist never forgets a pair whose rank still has to grow, although
\* predecessors are only added for the goal just lifted.
UnstableIsPending ==
  \A s \in State, j \in Goal : IsStable(game, rank, s, j) \/ <<s, j>> \in pending

\* A state loses for one goal exactly when it loses for all of them.
LosesForAllGoals ==
  \A s \in State, i, j \in Goal : IsInfinite(rank[i][s]) <=> IsInfinite(rank[j][s])

\* A finite rank of a state that satisfies the goal is never lifted.
GoalKeepsInitialRank ==
  \A s \in State, j \in Goal :
    SatisfiesGuarantee(game, s, j) /\ ~IsInfinite(rank[j][s]) => rank[j][s] = InitialRank

\* No step lowers a rank, and a step that changes no rank shrinks the worklist:
\* the two halves of the termination argument.
Progress ==
  /\ \A s \in State, j \in Goal : RankingGeq(rank'[j][s], rank[j][s])
  /\ rank' = rank => Cardinality(pending') < Cardinality(pending)
EveryStepProgresses == [][Progress]_vars

\* The loop ends, on every game and in every order of the worklist.
Termination == <>(pending = {})

(****************************************************************************)
(* Closed rankings: those no lift can raise, that agree on which states     *)
(* lose, and in which deadlocks lose.  The loop computes the least one.     *)
(****************************************************************************)
Ranking(g) ==
  {R \in [Goal -> [State -> UNION {RankOf(g, j) : j \in Goal}]] :
     \A j \in Goal, s \in State : R[j][s] \in RankOf(g, j)}

IsClosed(g, R) ==
  /\ \A s \in State, i, j \in Goal : IsInfinite(R[i][s]) <=> IsInfinite(R[j][s])
  /\ \A s \in State, j \in Goal :
       IF IsDeadlock(g, s) THEN IsInfinite(R[j][s])
       ELSE RankingGeq(R[j][s], Increment(g, s, j, BestSuccessor(g, R, s, j)))

Below(R, T) == \A j \in Goal, s \in State : RankingGeq(T[j][s], R[j][s])

\* At the end the ranking is closed: it witnesses the controller's strategy.
StabilizedIsClosed == pending = {} => IsClosed(game, rank)

\* At the end, and before it, the ranks are nowhere above those of a closed ranking.
BelowEveryClosedRanking ==
  \A R \in Ranking(game) : Below(rank, R) \/ ~IsClosed(game, R)

\* The two together: the loop computes the least closed ranking.
ComputesLeastRanking ==
  pending = {} => IsClosed(game, rank) /\ BelowEveryClosedRanking

(****************************************************************************)
(* What the ranks are for: once the loop ends, the states with finite ranks *)
(* are those from which the controller wins.                                *)
(****************************************************************************)
Winners == {s \in State : IsWinning(s)}

\* No state is called winning that is not: automaton_get_gr1_strategy finds no strategy
\* where there is none.
WinnersCanWin == pending = {} => Winners \subseteq WinningRegion(game)

\* And no winning state is given up.
ComputesWinningRegion == pending = {} => Winners = WinningRegion(game)

\* The loop is an implementation of the abstract lifting algorithm.
Lifting == INSTANCE GR1Lifting
ImplementsLifting == Lifting!Spec

=============================================================================
