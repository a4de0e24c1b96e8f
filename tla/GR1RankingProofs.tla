--------------------------- MODULE GR1RankingProofs ---------------------------
(****************************************************************************)
(* What the stabilisation loop of automaton_get_gr1_strategy guarantees, on *)
(* every game, of any size, and in every order of the worklist.             *)
(*                                                                          *)
(* The argument.  That nothing unstable is missing from the worklist is not *)
(* inductive by itself: a lift for goal j adds predecessors for goal j only *)
(* although a predecessor in another goal k may look its successors up in   *)
(* goal j.  Such a predecessor satisfies k, its rank for k is the initial   *)
(* one (GoalKeepsInitialRank) and only the loss of a successor could make   *)
(* it unstable, which is recorded for all goals at once (LosesForAllGoals). *)
(****************************************************************************)
EXTENDS GR1Ranking, GR1GameLemmas

DeadlocksLose == \A s \in State, j \in Goal : IsDeadlock(game, s) => IsInfinite(rank[j][s])

\* The inductive invariant.
IInv ==
  /\ TypeOK
  /\ LosesForAllGoals
  /\ GoalKeepsInitialRank
  /\ DeadlocksLose
  /\ UnstableIsPending

-----------------------------------------------------------------------------
\* The parts of TypeOK that the step lemmas use.
LEMMA TypeFacts ==
  ASSUME TypeOK
  PROVE  /\ game \in Game /\ IsRanking(game, rank) /\ pending \subseteq State \X Goal
         /\ rank \in [Goal -> [State -> Rank]]
         /\ \A j \in Goal, s \in State : rank[j][s] \in RankOf(game, j) /\ rank[j][s] \in Rank
BY DEF TypeOK, IsRanking

\* The initial rank is one of those the algorithm may give.
LEMMA InitialRankType ==
  ASSUME NEW g \in Game, NEW j \in Goal
  PROVE  InitialRank \in RankOf(g, j) /\ InitialRank \in Rank /\ ~IsInfinite(InitialRank)
<1>1. MaxDelta(g, j) \in Nat /\ LastAssumption \in Nat
  BY MaxDeltaType, CountAssumption DEF LastAssumption
<1>2. InitialRank \in RankOf(g, j)
  BY <1>1 DEF RankOf, InitialRank, FirstAssumption
<1> QED
  BY <1>2, RankOfIsRank DEF InitialRank, IsInfinite, RANKING_INFINITY

\* No rank is below the initial one.
LEMMA InitialRankIsLowest ==
  \A r \in Rank : RankingGeq(r, InitialRank)
BY DEF RankingGeq, RankingGt, Rank, FiniteRank, Infinite, InitialRank, IsInfinite,
       RANKING_INFINITY, FirstAssumption

\* automaton_ranking_update on an unstable pair raises its rank to the increment.
LEMMA UnstableRises ==
  ASSUME TypeOK, GoalKeepsInitialRank, NEW s \in State, NEW j \in Goal,
         ~IsStable(game, rank, s, j)
  PROVE  LET new == Update(game, rank, s, j)
         IN  /\ ~IsDeadlock(game, s) /\ ~IsInfinite(rank[j][s])
             /\ new = Increment(game, s, j, BestSuccessor(game, rank, s, j))
             /\ new \in RankOf(game, j) /\ new \in Rank
             /\ RankingGt(new, rank[j][s]) /\ new # rank[j][s]
<1> DEFINE incr == Increment(game, s, j, BestSuccessor(game, rank, s, j))
<1>1. ~IsDeadlock(game, s) /\ ~IsInfinite(rank[j][s])
  BY DEF IsStable
<1>2. ~RankingGeq(rank[j][s], incr)
  <2>1. SatisfiesGuarantee(game, s, j) /\ ~IsInfinite(rank[j][s]) => rank[j][s] = InitialRank
    BY DEF GoalKeepsInitialRank
  <2> QED
    BY <1>1, <2>1, TypeFacts, StabilityTest
<1>3. RankingGt(incr, rank[j][s])
  BY <1>2 DEF RankingGeq
<1>4. Update(game, rank, s, j) = incr
  BY <1>3 DEF Update
<1>5. BestSuccessor(game, rank, s, j) \in RankOf(game, TargetGoal(game, s, j))
  BY <1>1, TypeFacts, BestSuccessorValue
<1>6. incr \in RankOf(game, j) /\ incr \in Rank
  BY <1>5, TypeFacts, IncrementType, RankOfIsRank
<1>7. incr # rank[j][s]
  BY <1>2, <1>6, RankOrder
<1> QED
  BY <1>1, <1>3, <1>4, <1>6, <1>7

-----------------------------------------------------------------------------
\* The rankings that the loop starts from.
LEMMA InitialRankingType ==
  ASSUME NEW g \in Game
  PROVE  /\ IsRanking(g, InitialRanking(g))
         /\ \A j \in Goal, s \in State :
              InitialRanking(g)[j][s] = IF IsDeadlock(g, s) THEN Infinite ELSE InitialRank
BY InitialRankType, RankOfIsRank DEF IsRanking, InitialRanking

\* The loop starts with every unstable pair in the worklist.
LEMMA InitialPendingIsEnough ==
  ASSUME NEW g \in Game, NEW s \in State, NEW j \in Goal, <<s, j>> \notin InitialPending(g)
  PROVE  IsStable(g, InitialRanking(g), s, j)
<1> DEFINE R == InitialRanking(g)
           i == TargetGoal(g, s, j)
           best == BestSuccessor(g, R, s, j)
<1>0. IsRanking(g, R) /\ i \in Goal
  BY InitialRankingType, TargetGoalType
<1>1. CASE IsDeadlock(g, s)
  BY <1>1 DEF IsStable
<1>2. CASE ~IsDeadlock(g, s)
  <2>1. ASSUME NEW o \in g.moves[s], NEW t \in o PROVE R[i][t] = InitialRank
    <3>1. t \in State /\ s \in Predecessors(g, t)
      BY MovesType DEF Predecessors
    <3>2. ~IsDeadlock(g, t)
      BY <3>1 DEF InitialPending, PredecessorPairs
    <3> QED
      BY <1>0, <3>1, <3>2, InitialRankingType
  <2> HIDE DEF R
  <2>2. best = InitialRank
    <3>1. best \in Rank
      BY <1>0, <1>2, BestSuccessorValue, RankOfIsRank
    <3>2. PICK o \in g.moves[s] : TRUE
      BY <1>2, MovesType
    <3>3. PICK t \in o : RankingGeq(best, R[i][t])
      BY <1>0, <1>2, BestSuccessorValue
    <3>4. PICK p \in g.moves[s] : \A u \in p : RankingGeq(R[i][u], best)
      BY <1>0, <1>2, BestSuccessorValue
    <3>5. PICK u \in p : TRUE
      BY MovesType
    <3>6. RankingGeq(best, InitialRank) /\ RankingGeq(InitialRank, best)
      BY <2>1, <3>3, <3>4, <3>5
    <3> QED
      BY <3>1, <3>6, InitialRankType, RankOrder
  <2>3. R[j][s] = InitialRank
    BY <1>2, InitialRankingType DEF R
  <2>4. ~SatisfiesGuarantee(g, s, j) => ~SatisfiesAssumption(g, s, FirstAssumption)
    BY <1>2 DEF InitialPending
  <2>5. ~IsInfinite(InitialRank) /\ RankingGeq(InitialRank, InitialRank)
    BY InitialRankType, RankOrder
  <2>6. InitialRank.assumption = FirstAssumption
    BY DEF InitialRank
  <2> QED
    BY <1>2, <2>2, <2>3, <2>4, <2>5, <2>6 DEF IsStable, R
<1> QED
  BY <1>1, <1>2

\* Before the first iteration.
LEMMA InitInvariant == Init => IInv
<1> SUFFICES ASSUME Init PROVE IInv
  OBVIOUS
<1>1. game \in Game /\ rank = InitialRanking(game) /\ pending = InitialPending(game)
  BY GamesAssumption DEF Init
<1>2. TypeOK
  BY <1>1, InitialRankingType DEF TypeOK, InitialPending, PredecessorPairs, Predecessors
<1>3. LosesForAllGoals /\ DeadlocksLose /\ GoalKeepsInitialRank
  <2>1. \A j \in Goal, s \in State :
          rank[j][s] = IF IsDeadlock(game, s) THEN Infinite ELSE InitialRank
    BY <1>1, InitialRankingType
  <2> QED
    BY <1>1, <2>1, InfiniteIsTop DEF LosesForAllGoals, DeadlocksLose, GoalKeepsInitialRank
<1>4. UnstableIsPending
  BY <1>1, InitialPendingIsEnough DEF UnstableIsPending
<1> QED
  BY <1>2, <1>3, <1>4 DEF IInv

-----------------------------------------------------------------------------
\* Popping a pair that has already lost, or that needs no lift.
LEMMA SkipPreservesInvariant ==
  ASSUME IInv, NEW s \in State, NEW j \in Goal, SkipInfinite(s, j) \/ SkipStable(s, j)
  PROVE  IInv'
<1>1. /\ game' = game /\ rank' = rank /\ pending' = pending \ {<<s, j>>}
      /\ IsStable(game, rank, s, j)
  BY DEF SkipInfinite, SkipStable, IsStable
<1>2. TypeOK'
  BY <1>1 DEF IInv, TypeOK
<1>3. LosesForAllGoals' /\ DeadlocksLose' /\ GoalKeepsInitialRank'
  BY <1>1 DEF IInv, LosesForAllGoals, DeadlocksLose, GoalKeepsInitialRank
<1>4. UnstableIsPending'
  BY <1>1 DEF IInv, UnstableIsPending
<1> QED
  BY <1>2, <1>3, <1>4 DEF IInv

\* What lifting a pair to a finite rank does to the rankings.
LEMMA LiftEffect ==
  ASSUME TypeOK, GoalKeepsInitialRank, NEW s \in State, NEW j \in Goal, Lift(s, j)
  PROVE  LET new == Update(game, rank, s, j)
         IN  /\ game' = game
             /\ new \in RankOf(game, j) /\ new \in Rank /\ ~IsInfinite(new)
             /\ \A i \in Goal, t \in State :
                  rank'[i][t] = IF i = j /\ t = s THEN new ELSE rank[i][t]
             /\ IsRanking(game, rank')
<1> DEFINE new == Update(game, rank, s, j)
<1>1. /\ game' = game /\ ~IsInfinite(new) /\ rank' = [rank EXCEPT ![j][s] = new]
      /\ ~IsStable(game, rank, s, j)
  BY DEF Lift
<1>2. new \in RankOf(game, j) /\ new \in Rank
  BY <1>1, UnstableRises
<1> HIDE DEF new
<1>3. \A i \in Goal, t \in State :
        rank'[i][t] = IF i = j /\ t = s THEN new ELSE rank[i][t]
  BY <1>1, TypeFacts
<1>4. rank' \in [Goal -> [State -> Rank]]
  BY <1>1, <1>2, TypeFacts
<1>5. IsRanking(game, rank')
  BY <1>2, <1>3, <1>4, TypeFacts DEF IsRanking
<1> QED
  BY <1>1, <1>2, <1>3, <1>5 DEF new

\* What lifting a pair to infinity does to the rankings.
LEMMA LiftToInfinityEffect ==
  ASSUME TypeOK, NEW s \in State, NEW j \in Goal, LiftToInfinity(s, j)
  PROVE  /\ game' = game
         /\ \A i \in Goal, t \in State : rank'[i][t] = IF t = s THEN Infinite ELSE rank[i][t]
         /\ IsRanking(game, rank')
<1>1. game' = game /\ rank' = [i \in Goal |-> [rank[i] EXCEPT ![s] = Infinite]]
  BY DEF LiftToInfinity
<1>2. \A i \in Goal, t \in State : rank'[i][t] = IF t = s THEN Infinite ELSE rank[i][t]
  BY <1>1, TypeFacts
<1>3. \A i \in Goal : [rank[i] EXCEPT ![s] = Infinite] \in [State -> Rank]
  BY TypeFacts, InfiniteIsTop
<1>4. rank' \in [Goal -> [State -> Rank]]
  BY <1>1, <1>3
<1>5. IsRanking(game, rank')
  BY <1>2, <1>4, TypeFacts, RankOfIsRank DEF IsRanking
<1> QED
  BY <1>1, <1>2, <1>5

\* Lifting a pair to a finite rank.
LEMMA LiftPreservesInvariant ==
  ASSUME IInv, NEW s \in State, NEW j \in Goal, Lift(s, j)
  PROVE  IInv'
<1> DEFINE new == Update(game, rank, s, j)
<1>1. /\ TypeOK /\ LosesForAllGoals /\ GoalKeepsInitialRank /\ DeadlocksLose
      /\ UnstableIsPending
  BY DEF IInv
<1>2. /\ game' = game
      /\ new \in RankOf(game, j) /\ new \in Rank /\ ~IsInfinite(new)
      /\ \A i \in Goal, t \in State : rank'[i][t] = IF i = j /\ t = s THEN new ELSE rank[i][t]
      /\ IsRanking(game, rank')
  BY <1>1, LiftEffect
<1>3. /\ ~IsInfinite(rank[j][s]) /\ ~IsStable(game, rank, s, j)
      /\ pending' = (pending \ {<<s, j>>}) \cup (Predecessors(game, s) \X {j})
  BY DEF Lift, PredecessorPairs
<1>4. /\ ~IsDeadlock(game, s)
      /\ new = Increment(game, s, j, BestSuccessor(game, rank, s, j))
  BY <1>1, <1>3, UnstableRises
<1> HIDE DEF new
<1>5. TypeOK'
  BY <1>1, <1>2, <1>3, TypeFacts DEF TypeOK, Predecessors
<1>6. LosesForAllGoals'
  <2> SUFFICES ASSUME NEW t \in State, NEW i \in Goal, NEW k \in Goal
               PROVE  IsInfinite(rank'[i][t]) <=> IsInfinite(rank'[k][t])
    BY DEF LosesForAllGoals
  <2>1. IsInfinite(rank'[i][t]) <=> IsInfinite(rank[i][t])
    BY <1>2, <1>3
  <2>2. IsInfinite(rank'[k][t]) <=> IsInfinite(rank[k][t])
    BY <1>2, <1>3
  <2> QED
    BY <1>1, <2>1, <2>2 DEF LosesForAllGoals
<1>7. SatisfiesGuarantee(game, s, j) => new = InitialRank
  <2>1. ~IsInfinite(BestSuccessor(game, rank, s, j)) \/ new = Infinite
    BY <1>4 DEF Increment
  <2> QED
    BY <1>2, <1>4, <2>1, InfiniteIsTop DEF Increment
<1>8. GoalKeepsInitialRank'
  BY <1>1, <1>2, <1>7 DEF GoalKeepsInitialRank
<1>9. DeadlocksLose'
  BY <1>1, <1>2, <1>4 DEF DeadlocksLose
<1>10. UnstableIsPending'
  <2> SUFFICES ASSUME NEW u \in State, NEW k \in Goal, <<u, k>> \notin pending'
               PROVE  IsStable(game, rank', u, k)
    BY <1>2 DEF UnstableIsPending
  <2> DEFINE i == TargetGoal(game, u, k)
  <2>0. i \in Goal
    BY TargetGoalType
  <2>1. SatisfiesGuarantee(game, u, k) /\ ~IsInfinite(rank'[k][u]) => rank'[k][u] = InitialRank
    BY <1>2, <1>8 DEF GoalKeepsInitialRank
  <2>2. CASE ~(i = j /\ u \in Predecessors(game, s))
    <3>1. \A o \in game.moves[u] : \A t \in o : rank'[i][t] = rank[i][t]
      BY <1>2, <2>0, <2>2, MovesType, TypeFacts, <1>1 DEF Predecessors
    <3>2. CASE u = s /\ k = j
      <4>1. BestSuccessor(game, rank', s, j) = BestSuccessor(game, rank, s, j)
        BY <1>1, <1>2, <1>4, <3>1, <3>2, TypeFacts, BestSuccessorLocal
      <4>2. RankingGeq(rank'[j][s], new)
        BY <1>2, RankOrder
      <4> QED
        BY <1>1, <1>2, <1>4, <2>1, <3>2, <4>1, <4>2, TypeFacts, StabilityTest
    <3>3. CASE ~(u = s /\ k = j)
      <4>1. IsStable(game, rank, u, k)
        BY <1>1, <1>3, <3>3 DEF UnstableIsPending
      <4>2. rank'[k][u] = rank[k][u]
        BY <1>2, <3>3
      <4> QED
        BY <1>1, <1>2, <3>1, <4>1, <4>2, TypeFacts, StabilityLocal
    <3> QED
      BY <3>2, <3>3
  <2>3. CASE i = j /\ u \in Predecessors(game, s)
    <3>1. k # j
      BY <1>3, <2>3
    <3>2. SatisfiesGuarantee(game, u, k)
      BY <2>3, <3>1 DEF TargetGoal
    <3>3. rank'[k][u] = rank[k][u] /\ IsStable(game, rank, u, k)
      BY <1>1, <1>2, <1>3, <3>1 DEF UnstableIsPending
    <3>4. CASE IsInfinite(rank'[k][u]) \/ IsDeadlock(game, u)
      BY <3>4 DEF IsStable
    <3>5. CASE ~IsInfinite(rank'[k][u]) /\ ~IsDeadlock(game, u)
      <4>1. ~IsInfinite(BestSuccessor(game, rank, u, k))
        BY <3>2, <3>3, <3>5 DEF IsStable
      <4>2. \A o \in game.moves[u] : \A t \in o :
              IsInfinite(rank'[i][t]) => IsInfinite(rank[i][t])
        BY <1>1, <1>2, <2>0, MovesType, TypeFacts
      <4>3. ~IsInfinite(BestSuccessor(game, rank', u, k))
        BY <1>1, <1>2, <3>5, <4>1, <4>2, TypeFacts, BestSuccessorFinite
      <4> QED
        BY <2>1, <3>2, <3>5, <4>3 DEF IsStable
    <3> QED
      BY <3>4, <3>5
  <2> QED
    BY <2>2, <2>3
<1> QED
  BY <1>5, <1>6, <1>8, <1>9, <1>10 DEF IInv

\* Lifting a pair to infinity.
LEMMA LiftToInfinityPreservesInvariant ==
  ASSUME IInv, NEW s \in State, NEW j \in Goal, LiftToInfinity(s, j)
  PROVE  IInv'
<1>1. /\ TypeOK /\ LosesForAllGoals /\ GoalKeepsInitialRank /\ DeadlocksLose
      /\ UnstableIsPending
  BY DEF IInv
<1>2. /\ game' = game
      /\ \A i \in Goal, t \in State : rank'[i][t] = IF t = s THEN Infinite ELSE rank[i][t]
      /\ IsRanking(game, rank')
  BY <1>1, LiftToInfinityEffect
<1>3. pending' = (pending \ {<<s, j>>}) \cup (Predecessors(game, s) \X Goal)
  BY DEF LiftToInfinity, PredecessorPairs
<1>4. TypeOK'
  BY <1>1, <1>2, <1>3, TypeFacts DEF TypeOK, Predecessors
<1>5. LosesForAllGoals' /\ DeadlocksLose' /\ GoalKeepsInitialRank'
  BY <1>1, <1>2, InfiniteIsTop DEF LosesForAllGoals, DeadlocksLose, GoalKeepsInitialRank
<1>6. UnstableIsPending'
  <2> SUFFICES ASSUME NEW u \in State, NEW k \in Goal, <<u, k>> \notin pending'
               PROVE  IsStable(game, rank', u, k)
    BY <1>2 DEF UnstableIsPending
  <2>1. CASE u = s
    BY <1>2, <2>1, InfiniteIsTop DEF IsStable
  <2>2. CASE u # s
    <3>1. u \notin Predecessors(game, s)
      BY <1>3
    <3>2. \A o \in game.moves[u] : \A t \in o :
            rank'[TargetGoal(game, u, k)][t] = rank[TargetGoal(game, u, k)][t]
      BY <1>1, <1>2, <3>1, MovesType, TargetGoalType, TypeFacts DEF Predecessors
    <3>3. IsStable(game, rank, u, k) /\ rank'[k][u] = rank[k][u]
      BY <1>1, <1>2, <1>3, <2>2 DEF UnstableIsPending
    <3> QED
      BY <1>1, <1>2, <3>2, <3>3, TypeFacts, StabilityLocal
  <2> QED
    BY <2>1, <2>2
<1> QED
  BY <1>4, <1>5, <1>6 DEF IInv

-----------------------------------------------------------------------------
\* Every step of the loop keeps the invariant.
LEMMA NextInvariant == IInv /\ [Next]_vars => IInv'
<1> SUFFICES ASSUME IInv, [Next]_vars PROVE IInv'
  OBVIOUS
<1>1. CASE Next
  <2>1. PICK s \in State, j \in Goal : Process(s, j)
    BY <1>1 DEF Next
  <2>2. CASE SkipInfinite(s, j) \/ SkipStable(s, j)
    BY <2>2, SkipPreservesInvariant
  <2>3. CASE Lift(s, j)
    BY <2>3, LiftPreservesInvariant
  <2>4. CASE LiftToInfinity(s, j)
    BY <2>4, LiftToInfinityPreservesInvariant
  <2> QED
    BY <2>1, <2>2, <2>3, <2>4 DEF Process
<1>2. CASE UNCHANGED vars
  BY <1>2 DEF vars, IInv, TypeOK, LosesForAllGoals, DeadlocksLose, GoalKeepsInitialRank,
              UnstableIsPending
<1> QED
  BY <1>1, <1>2

\* Every behaviour of the loop keeps the invariant.
THEOREM Invariant == Spec => []IInv
BY InitInvariant, NextInvariant, PTL DEF Spec

\* The rankings keep their type, within the range that max_delta bounds.
THEOREM TypeCorrect == Spec => []TypeOK
<1>1. IInv => TypeOK
  BY DEF IInv
<1> QED
  BY <1>1, Invariant, PTL

\* No pair whose rank still has to grow is ever missing from the worklist.
THEOREM NothingForgotten == Spec => []UnstableIsPending
<1>1. IInv => UnstableIsPending
  BY DEF IInv
<1> QED
  BY <1>1, Invariant, PTL

\* The rankings of the goals agree on which states lose.
THEOREM GoalsAgree == Spec => []LosesForAllGoals
<1>1. IInv => LosesForAllGoals
  BY DEF IInv
<1> QED
  BY <1>1, Invariant, PTL

-----------------------------------------------------------------------------
\* In a state of the invariant, a pair is stable exactly when its rank is closed.
LEMMA StableIsClosed ==
  ASSUME IInv, NEW s \in State, NEW j \in Goal, IsStable(game, rank, s, j)
  PROVE  IF IsDeadlock(game, s) THEN IsInfinite(rank[j][s])
         ELSE RankingGeq(rank[j][s], Increment(game, s, j, BestSuccessor(game, rank, s, j)))
<1>1. CASE IsDeadlock(game, s)
  BY <1>1 DEF IInv, DeadlocksLose
<1>2. CASE ~IsDeadlock(game, s)
  <2>1. SatisfiesGuarantee(game, s, j) /\ ~IsInfinite(rank[j][s]) => rank[j][s] = InitialRank
    BY DEF IInv, GoalKeepsInitialRank
  <2> QED
    BY <1>2, <2>1, TypeFacts, StabilityTest DEF IInv
<1> QED
  BY <1>1, <1>2

\* When the worklist is empty, the invariant makes the ranking closed.
LEMMA EmptyWorklistIsClosed == IInv => StabilizedIsClosed
<1> SUFFICES ASSUME IInv, pending = {} PROVE IsClosed(game, rank)
  BY DEF StabilizedIsClosed
<1>1. \A s \in State, j \in Goal : IsStable(game, rank, s, j)
  BY DEF IInv, UnstableIsPending
<1>2. \A s \in State, i, j \in Goal : IsInfinite(rank[i][s]) <=> IsInfinite(rank[j][s])
  BY DEF IInv, LosesForAllGoals
<1> QED
  BY <1>1, <1>2, StableIsClosed DEF IsClosed

(****************************************************************************)
(* When the loop ends its rankings witness a strategy: from every state of  *)
(* finite rank the controller can answer every option without losing rank.  *)
(****************************************************************************)
THEOREM StabilizedRanking == Spec => []StabilizedIsClosed
BY EmptyWorklistIsClosed, Invariant, PTL

-----------------------------------------------------------------------------
\* No lift raises a rank above that of a closed ranking.
LEMMA LiftStaysBelow ==
  ASSUME TypeOK, GoalKeepsInitialRank, NEW s \in State, NEW j \in Goal,
         ~IsStable(game, rank, s, j),
         NEW T, IsRanking(game, T), IsClosed(game, T), Below(rank, T)
  PROVE  RankingGeq(T[j][s], Update(game, rank, s, j))
<1> DEFINE best == BestSuccessor(game, rank, s, j)
           bestT == BestSuccessor(game, T, s, j)
           i == TargetGoal(game, s, j)
<1>1. /\ ~IsDeadlock(game, s)
      /\ Update(game, rank, s, j) = Increment(game, s, j, best)
      /\ Update(game, rank, s, j) \in Rank
  BY UnstableRises
<1>2. \A o \in game.moves[s] : \A t \in o : RankingGeq(T[i][t], rank[i][t])
  BY MovesType, TargetGoalType, TypeFacts DEF Below
<1>3. RankingGeq(bestT, best)
  BY <1>1, <1>2, TypeFacts, BestSuccessorMonotone
<1>4. best \in RankOf(game, i) /\ bestT \in RankOf(game, i)
  BY <1>1, TypeFacts, BestSuccessorValue
<1>5. RankingGeq(Increment(game, s, j, bestT), Increment(game, s, j, best))
  BY <1>3, <1>4, TypeFacts, IncrementMonotone
<1>6. RankingGeq(T[j][s], Increment(game, s, j, bestT))
  BY <1>1 DEF IsClosed
<1>7. T[j][s] \in Rank /\ Increment(game, s, j, bestT) \in Rank
  BY <1>4, TypeFacts, IncrementType, RankOfIsRank DEF IsRanking
<1> QED
  BY <1>1, <1>5, <1>6, <1>7, RankOrder

\* The functions that BelowEveryClosedRanking ranges over.
LEMMA RankingIsRanking ==
  ASSUME NEW g \in Game, NEW T \in Ranking(g)
  PROVE  IsRanking(g, T)
<1>1. /\ T \in [Goal -> [State -> UNION {RankOf(g, j) : j \in Goal}]]
      /\ \A j \in Goal, s \in State : T[j][s] \in RankOf(g, j)
  BY DEF Ranking
<1>2. UNION {RankOf(g, j) : j \in Goal} \subseteq Rank
  BY RankOfIsRank
<1>3. T \in [Goal -> [State -> Rank]]
  <2>1. \A j \in Goal : T[j] \in [State -> Rank]
    BY <1>1, <1>2
  <2> QED
    BY <1>1, <2>1
<1> QED
  BY <1>1, <1>3 DEF IsRanking

\* The first rankings are below every closed one.
LEMMA InitBelow == Init => BelowEveryClosedRanking
<1> SUFFICES ASSUME Init, NEW T \in Ranking(game), IsClosed(game, T),
                    NEW j \in Goal, NEW s \in State
             PROVE  RankingGeq(T[j][s], rank[j][s])
  BY DEF BelowEveryClosedRanking, Below
<1>1. game \in Game /\ rank = InitialRanking(game)
  BY GamesAssumption DEF Init
<1>2. T[j][s] \in Rank
  BY <1>1, RankingIsRanking DEF IsRanking
<1>3. rank[j][s] = IF IsDeadlock(game, s) THEN Infinite ELSE InitialRank
  BY <1>1, InitialRankingType
<1>4. CASE IsDeadlock(game, s)
  BY <1>2, <1>3, <1>4, InfiniteIsTop DEF IsClosed
<1>5. CASE ~IsDeadlock(game, s)
  BY <1>2, <1>3, <1>5, InitialRankIsLowest
<1> QED
  BY <1>4, <1>5

\* Every step stays below every closed ranking.
LEMMA NextBelow ==
  ASSUME IInv, BelowEveryClosedRanking, [Next]_vars
  PROVE  BelowEveryClosedRanking'
<1>0. TypeOK /\ GoalKeepsInitialRank
  BY DEF IInv
<1>1. CASE UNCHANGED vars \/ \E s \in State, j \in Goal : SkipInfinite(s, j) \/ SkipStable(s, j)
  <2>1. game' = game /\ rank' = rank
    BY <1>1 DEF vars, SkipInfinite, SkipStable
  <2> QED
    BY <2>1 DEF BelowEveryClosedRanking
<1>2. ASSUME NEW s \in State, NEW j \in Goal, Lift(s, j)
      PROVE  BelowEveryClosedRanking'
  <2>1. /\ game' = game /\ ~IsStable(game, rank, s, j)
        /\ \A i \in Goal, t \in State :
             rank'[i][t] = IF i = j /\ t = s THEN Update(game, rank, s, j) ELSE rank[i][t]
    BY <1>0, <1>2, LiftEffect DEF Lift
  <2>2. ASSUME NEW T \in Ranking(game), IsClosed(game, T) PROVE Below(rank', T)
    <3>1. Below(rank, T) /\ IsRanking(game, T)
      BY <1>0, <2>2, TypeFacts, RankingIsRanking DEF BelowEveryClosedRanking
    <3>2. RankingGeq(T[j][s], Update(game, rank, s, j))
      BY <1>0, <2>1, <2>2, <3>1, LiftStaysBelow
    <3> QED
      BY <2>1, <3>1, <3>2 DEF Below
  <2> QED
    BY <2>1, <2>2 DEF BelowEveryClosedRanking
<1>3. ASSUME NEW s \in State, NEW j \in Goal, LiftToInfinity(s, j)
      PROVE  BelowEveryClosedRanking'
  <2>1. /\ game' = game /\ ~IsStable(game, rank, s, j)
        /\ IsInfinite(Update(game, rank, s, j))
        /\ \A i \in Goal, t \in State : rank'[i][t] = IF t = s THEN Infinite ELSE rank[i][t]
    BY <1>0, <1>3, LiftToInfinityEffect DEF LiftToInfinity
  <2>2. ASSUME NEW T \in Ranking(game), IsClosed(game, T) PROVE Below(rank', T)
    <3>1. Below(rank, T) /\ IsRanking(game, T)
      BY <1>0, <2>2, TypeFacts, RankingIsRanking DEF BelowEveryClosedRanking
    <3>2. \A i \in Goal : T[i][s] \in Rank
      BY <3>1 DEF IsRanking
    <3>3. RankingGeq(T[j][s], Update(game, rank, s, j)) /\ Update(game, rank, s, j) \in Rank
      BY <1>0, <2>1, <2>2, <3>1, LiftStaysBelow, UnstableRises
    <3>4. \A i \in Goal : T[i][s] = Infinite
      BY <2>1, <2>2, <3>2, <3>3, InfiniteIsTop DEF IsClosed
    <3> QED
      BY <2>1, <3>1, <3>2, <3>4, InfiniteIsTop DEF Below
  <2> QED
    BY <2>1, <2>2 DEF BelowEveryClosedRanking
<1> QED
  BY <1>1, <1>2, <1>3 DEF Next, Process

(****************************************************************************)
(* Whatever the order in which the worklist is taken, the loop computes the *)
(* least closed ranking: the heap decides how fast, never what.             *)
(****************************************************************************)
THEOREM LeastRanking == Spec => []ComputesLeastRanking
<1>1. Spec => []BelowEveryClosedRanking
  BY InitBelow, NextBelow, Invariant, PTL DEF Spec
<1>2. StabilizedIsClosed /\ BelowEveryClosedRanking => ComputesLeastRanking
  BY DEF StabilizedIsClosed, ComputesLeastRanking
<1> QED
  BY <1>1, <1>2, StabilizedRanking, PTL

-----------------------------------------------------------------------------
\* Removing a pair shrinks the worklist.
LEMMA PopShrinks ==
  ASSUME TypeOK, NEW p \in pending
  PROVE  Cardinality(pending \ {p}) < Cardinality(pending)
<1>1. IsFiniteSet(Goal)
  BY CountAssumption, FS_Interval DEF Goal
<1>2. IsFiniteSet(State \X Goal)
  BY <1>1, StateAssumption, FS_Product
<1>3. IsFiniteSet(pending)
  BY <1>2, TypeFacts, FS_Subset
<1>4. /\ Cardinality(pending) \in Nat
      /\ Cardinality(pending \ {p}) = Cardinality(pending) - 1
  BY <1>3, FS_CardinalityType, FS_RemoveElement
<1> QED
  BY <1>4

\* One step of the termination argument.
LEMMA StepProgresses ==
  ASSUME IInv, NEW s \in State, NEW j \in Goal, Process(s, j)
  PROVE  Progress
<1>0. TypeOK /\ GoalKeepsInitialRank
  BY DEF IInv
<1>1. CASE SkipInfinite(s, j) \/ SkipStable(s, j)
  <2>1. /\ rank' = rank /\ pending' = pending \ {<<s, j>>} /\ <<s, j>> \in pending
    BY <1>1 DEF SkipInfinite, SkipStable
  <2>2. Cardinality(pending') < Cardinality(pending)
    BY <1>0, <2>1, PopShrinks
  <2> QED
    BY <1>0, <2>1, <2>2, TypeFacts, RankOrder DEF Progress
<1>2. ASSUME Lift(s, j) PROVE Progress
  <2>1. /\ ~IsStable(game, rank, s, j)
        /\ \A i \in Goal, t \in State :
             rank'[i][t] = IF i = j /\ t = s THEN Update(game, rank, s, j) ELSE rank[i][t]
    BY <1>0, <1>2, LiftEffect DEF Lift
  <2>2. /\ RankingGt(Update(game, rank, s, j), rank[j][s])
        /\ Update(game, rank, s, j) # rank[j][s]
        /\ Update(game, rank, s, j) \in Rank
    BY <1>0, <2>1, UnstableRises
  <2>3. RankingGeq(Update(game, rank, s, j), rank[j][s])
    BY <1>0, <2>2, TypeFacts, RankOrder DEF RankingGeq
  <2>4. \A t \in State, i \in Goal : RankingGeq(rank'[i][t], rank[i][t])
    BY <1>0, <2>1, <2>3, TypeFacts, RankOrder
  <2>5. rank' # rank
    BY <2>1, <2>2
  <2> QED
    BY <2>4, <2>5 DEF Progress
<1>3. ASSUME LiftToInfinity(s, j) PROVE Progress
  <2>1. /\ ~IsInfinite(rank[j][s])
        /\ \A i \in Goal, t \in State : rank'[i][t] = IF t = s THEN Infinite ELSE rank[i][t]
    BY <1>0, <1>3, LiftToInfinityEffect DEF LiftToInfinity
  <2>2. \A t \in State, i \in Goal : RankingGeq(rank'[i][t], rank[i][t])
    BY <1>0, <2>1, TypeFacts, RankOrder, InfiniteIsTop
  <2>3. rank' # rank
    BY <2>1, InfiniteIsTop
  <2> QED
    BY <2>2, <2>3 DEF Progress
<1> QED
  BY <1>1, <1>2, <1>3 DEF Process

(****************************************************************************)
(* Ranks only grow, and a step that changes none of them shrinks the        *)
(* worklist: ranks and worklist being finite, the loop ends.                *)
(****************************************************************************)
THEOREM LoopProgresses == Spec => EveryStepProgresses
<1>1. IInv /\ [Next]_vars => [Progress]_vars
  BY StepProgresses DEF Next
<1> QED
  BY <1>1, Invariant, PTL DEF Spec, EveryStepProgresses

-----------------------------------------------------------------------------
\* The abstract specification has its own copy of GR1Game: the two are the same.
LEMMA SameGame ==
  /\ Lifting!Game = Game /\ Lifting!Goal = Goal
  /\ Lifting!Infinite = Infinite /\ Lifting!InitialRank = InitialRank
  /\ \A r : Lifting!IsInfinite(r) <=> IsInfinite(r)
  /\ \A r, q : Lifting!RankingGt(r, q) <=> RankingGt(r, q)
  /\ \A g, s : Lifting!IsDeadlock(g, s) <=> IsDeadlock(g, s)
  /\ \A g, R, s, j : Lifting!BestSuccessor(g, R, s, j) = BestSuccessor(g, R, s, j)
  /\ \A g, s, j, r : Lifting!Increment(g, s, j, r) = Increment(g, s, j, r)
  /\ \A g, R, s, j : Lifting!Update(g, R, s, j) = Update(g, R, s, j)
<1>1. /\ Lifting!Goal = Goal /\ Lifting!AssumptionIndex = AssumptionIndex
      /\ Lifting!Option = Option
      /\ Lifting!Infinite = Infinite /\ Lifting!InitialRank = InitialRank
      /\ Lifting!FirstAssumption = FirstAssumption
  BY DEF Lifting!Goal, Goal, Lifting!AssumptionIndex, AssumptionIndex, Lifting!Option, Option,
         Lifting!Infinite, Infinite, Lifting!RANKING_INFINITY, RANKING_INFINITY,
         Lifting!InitialRank, InitialRank, Lifting!FirstAssumption, FirstAssumption
<1>2. Lifting!Game = Game
  BY <1>1 DEF Lifting!Game, Game
<1>3. \A r : Lifting!IsInfinite(r) <=> IsInfinite(r)
  BY DEF Lifting!IsInfinite, IsInfinite, Lifting!RANKING_INFINITY, RANKING_INFINITY
<1>4. \A r, q : Lifting!RankingGt(r, q) <=> RankingGt(r, q)
  BY <1>3 DEF Lifting!RankingGt, RankingGt
<1>5. \A R : Lifting!Lowest(R) = Lowest(R) /\ Lifting!Highest(R) = Highest(R)
  BY DEF Lifting!Lowest, Lowest, Lifting!Highest, Highest, Lifting!RankingGeq, RankingGeq,
         Lifting!RankingGt, RankingGt, Lifting!IsInfinite, IsInfinite,
         Lifting!RANKING_INFINITY, RANKING_INFINITY
<1>6. /\ \A g, s : Lifting!IsDeadlock(g, s) <=> IsDeadlock(g, s)
      /\ \A g, s, j : Lifting!SatisfiesGuarantee(g, s, j) <=> SatisfiesGuarantee(g, s, j)
      /\ \A g, s, a : Lifting!SatisfiesAssumption(g, s, a) <=> SatisfiesAssumption(g, s, a)
  BY DEF Lifting!IsDeadlock, IsDeadlock, Lifting!SatisfiesGuarantee, SatisfiesGuarantee,
         Lifting!SatisfiesAssumption, SatisfiesAssumption
<1>7. \A g, s, j : Lifting!TargetGoal(g, s, j) = TargetGoal(g, s, j)
  BY <1>6 DEF Lifting!TargetGoal, TargetGoal
<1>8. \A g, R, s, j : Lifting!BestSuccessor(g, R, s, j) = BestSuccessor(g, R, s, j)
  BY <1>5, <1>7 DEF Lifting!BestSuccessor, BestSuccessor
<1>9. \A g, j : Lifting!MaxDelta(g, j) = MaxDelta(g, j)
  BY DEF Lifting!MaxDelta, MaxDelta, Lifting!Delta, Delta, Lifting!Listed, Listed,
         Lifting!AssumptionIndex, AssumptionIndex, Lifting!Cardinality, Cardinality
<1>10. \A g, s, j, r : Lifting!Increment(g, s, j, r) = Increment(g, s, j, r)
  BY <1>1, <1>3, <1>6, <1>9 DEF Lifting!Increment, Increment
<1>11. \A g, R, s, j : Lifting!Update(g, R, s, j) = Update(g, R, s, j)
  BY <1>4, <1>8, <1>10 DEF Lifting!Update, Update
<1> QED
  BY <1>1, <1>2, <1>3, <1>4, <1>6, <1>8, <1>10, <1>11

\* Every step of the loop lifts one rank as the abstract algorithm may, or none.
LEMMA StepLifts ==
  ASSUME IInv, NEW s \in State, NEW j \in Goal, Process(s, j)
  PROVE  [Lifting!Next]_(Lifting!vars)
<1>0. TypeOK /\ GoalKeepsInitialRank
  BY DEF IInv
<1> DEFINE new == Update(game, rank, s, j)
<1>1. CASE SkipInfinite(s, j) \/ SkipStable(s, j)
  BY <1>1 DEF SkipInfinite, SkipStable, Lifting!vars
<1>2. ASSUME ~IsStable(game, rank, s, j) PROVE Lifting!CanLift(s, j)
  BY <1>0, <1>2, UnstableRises, SameGame DEF Lifting!CanLift
<1>3. ASSUME Lift(s, j) PROVE Lifting!LiftRank(s, j)
  <2>1. /\ ~IsStable(game, rank, s, j) /\ ~IsInfinite(new) /\ game' = game
        /\ rank' = [rank EXCEPT ![j][s] = new]
    BY <1>3 DEF Lift
  <2> HIDE DEF new
  <2>2. rank' = [i \in Goal |-> [rank[i] EXCEPT ![s] = IF IsInfinite(new) THEN Infinite
                                                       ELSE IF i = j THEN new ELSE @]]
    BY <1>0, <2>1, TypeFacts
  <2> QED
    BY <1>2, <2>1, <2>2, SameGame DEF Lifting!LiftRank, new
<1>4. ASSUME LiftToInfinity(s, j) PROVE Lifting!LiftRank(s, j)
  <2>1. /\ ~IsStable(game, rank, s, j) /\ IsInfinite(new) /\ game' = game
        /\ rank' = [i \in Goal |-> [rank[i] EXCEPT ![s] = Infinite]]
    BY <1>4 DEF LiftToInfinity
  <2> HIDE DEF new
  <2>2. rank' = [i \in Goal |-> [rank[i] EXCEPT ![s] = IF IsInfinite(new) THEN Infinite
                                                       ELSE IF i = j THEN new ELSE @]]
    BY <2>1
  <2> QED
    BY <1>2, <2>1, <2>2, SameGame DEF Lifting!LiftRank, new
<1> QED
  BY <1>1, <1>3, <1>4, SameGame DEF Process, Lifting!Next

(****************************************************************************)
(* The worklist loop implements the rank lifting algorithm of the           *)
(* definitions document: each lift of the loop is one the document allows,  *)
(* in spite of the different stability test.                                *)
(****************************************************************************)
THEOREM LoopImplementsLifting == Spec => ImplementsLifting
<1>1. Init => Lifting!Init
  BY GamesAssumption, SameGame DEF Init, Lifting!Init, InitialRanking
<1>2. IInv /\ [Next]_vars => [Lifting!Next]_(Lifting!vars)
  <2>1. CASE UNCHANGED vars
    BY <2>1 DEF vars, Lifting!vars
  <2> QED
    BY <2>1, StepLifts DEF Next
<1> QED
  BY <1>1, <1>2, Invariant, PTL DEF Spec, ImplementsLifting, Lifting!Spec

-----------------------------------------------------------------------------
(****************************************************************************)
(* The answer.  Why the ranks that the loop ends with solve the game: the   *)
(* states whose ranks are finite are in the winning region, and the other   *)
(* way round when max_delta leaves room for enough ranks.                   *)
(*                                                                          *)
(* The winning region.  Its fixpoints are iterated |State| times from State *)
(* or from the empty set; what is needed of them is that they are fixpoints *)
(* and, of the greatest ones, that they contain every set that their        *)
(* operator does not shrink.                                                *)
(****************************************************************************)
Wait(g, Z, j, Y, P, X) == Leaving(g, Z, j, Y) \cup (ControllablePre(g, X) \ P)

WaitTurn(c, X, n) == Wait(c.game, c.stay, c.goal, c.near, c.assumed, X)
NearerTurn(c, Y, n) == Nearer(c.game, c.stay, c.goal, Y)
KeepTurn(c, Z, n) == Keep(c.game, Z)
Between(c, n, X) == X \in SUBSET State /\ c.lower \subseteq X /\ X \subseteq c.upper

Waits == INSTANCE Iteration WITH Op <- WaitTurn, Inv <- Between
Nears == INSTANCE Iteration WITH Op <- NearerTurn, Inv <- Between
Keeps == INSTANCE Iteration WITH Op <- KeepTurn, Inv <- Between

\* The size of a set of states, and of all of them.
SizeOfStates == [X \in SUBSET State |-> Cardinality(X)]

LEMMA StatesHaveSize ==
  /\ Cardinality(State) \in Nat /\ SizeOfStates \in [SUBSET State -> 0 .. Cardinality(State)]
  /\ \A X, Y \in SUBSET State : X \subseteq Y /\ X # Y => SizeOfStates[X] < SizeOfStates[Y]
<1>1. /\ Cardinality(State) \in Nat
      /\ \A X \in SUBSET State : /\ IsFiniteSet(X) /\ Cardinality(X) \in Nat
                                /\ Cardinality(X) <= Cardinality(State)
  BY StateAssumption, FS_Subset, FS_CardinalityType
<1>2. ASSUME NEW X \in SUBSET State, NEW Y \in SUBSET State, X \subseteq Y, X # Y
      PROVE  Cardinality(X) < Cardinality(Y)
  <2>1. Cardinality(X) <= Cardinality(Y) /\ (Cardinality(Y) = Cardinality(X) => Y = X)
    <3>1. X \in SUBSET Y /\ IsFiniteSet(Y)
      BY <1>1, <1>2
    <3> QED
      BY <3>1, FS_Subset, Zenon
  <2> QED
    BY <1>1, <1>2, <2>1
<1> QED
  BY <1>1, <1>2 DEF SizeOfStates

LEMMA PreGrows ==
  ASSUME NEW g, NEW X, NEW Y, X \subseteq Y
  PROVE  /\ ControllablePre(g, X) \in SUBSET State
         /\ ControllablePre(g, X) \subseteq ControllablePre(g, Y)
BY DEF ControllablePre

LEMMA WaitGrows ==
  ASSUME NEW g, NEW Z, NEW j, NEW Y, NEW P, NEW X, NEW W, X \subseteq W
  PROVE  /\ Wait(g, Z, j, Y, P, X) \in SUBSET State
         /\ Wait(g, Z, j, Y, P, X) \subseteq Wait(g, Z, j, Y, P, W)
<1>1. /\ ControllablePre(g, Z) \in SUBSET State /\ ControllablePre(g, Y) \in SUBSET State
      /\ ControllablePre(g, X) \in SUBSET State
      /\ ControllablePre(g, X) \subseteq ControllablePre(g, W)
  BY PreGrows DEF ControllablePre
<1> QED
  BY <1>1 DEF Wait, Leaving

LEMMA WaitingIsFixpoint ==
  ASSUME NEW g, NEW Z, NEW j, NEW Y, NEW P
  PROVE  /\ Waiting(g, Z, j, Y, P) \in SUBSET State
         /\ Wait(g, Z, j, Y, P, Waiting(g, Z, j, Y, P)) = Waiting(g, Z, j, Y, P)
<1> DEFINE c == [game |-> g, stay |-> Z, goal |-> j, near |-> Y, assumed |-> P]
           f == CHOOSE h : Waits!IsIteration(h, c, State)
<1>1. Waits!IsIteration(f, c, State)
  BY Waits!IterationExists
<1>2. c.game = g /\ c.stay = Z /\ c.goal = j /\ c.near = Y /\ c.assumed = P
  OBVIOUS
<1> HIDE DEF c
<1>3. Waiting(g, Z, j, Y, P) = f[Cardinality(State)]
  BY <1>2, Zenon DEF Waiting, Wait, GreatestFixpoint, Iterate, Waits!IsIteration, WaitTurn
<1>4. \A X, n : WaitTurn(c, X, n) = Wait(g, Z, j, Y, P, X)
  BY <1>2, Zenon DEF WaitTurn
<1>5. Waits!IsMonotone(c, State)
  BY <1>4, WaitGrows DEF Waits!IsMonotone
<1> HIDE DEF f
<1>6. f[Cardinality(State)] \in SUBSET State /\ WaitTurn(c, f[Cardinality(State)], 0) = f[Cardinality(State)]
  <2>1. Waits!IsSize(SizeOfStates, State, Cardinality(State))
    BY StatesHaveSize DEF Waits!IsSize
  <2> QED
    BY <1>1, <1>5, <2>1, Waits!GreatestIsFixpoint
<1> QED
  BY <1>3, <1>4, <1>6

LEMMA WaitingContains ==
  ASSUME NEW g, NEW Z, NEW j, NEW Y, NEW P,
         NEW A \in SUBSET State, A \subseteq Wait(g, Z, j, Y, P, A)
  PROVE  A \subseteq Waiting(g, Z, j, Y, P)
<1> DEFINE c == [game |-> g, stay |-> Z, goal |-> j, near |-> Y, assumed |-> P, lower |-> A, upper |-> State]
           f == CHOOSE h : Waits!IsIteration(h, c, State)
<1>1. Waits!IsIteration(f, c, State)
  BY Waits!IterationExists
<1>2. c.game = g /\ c.stay = Z /\ c.goal = j /\ c.near = Y /\ c.assumed = P /\ c.lower = A /\ c.upper = State
  OBVIOUS
<1> HIDE DEF c
<1>3. Waiting(g, Z, j, Y, P) = f[Cardinality(State)]
  BY <1>2, Zenon DEF Waiting, Wait, GreatestFixpoint, Iterate, Waits!IsIteration, WaitTurn
<1> HIDE DEF f
<1>4. Between(c, 0, State)
  BY <1>2 DEF Between
<1>5. ASSUME NEW k \in Nat, NEW X, Between(c, k, X)
      PROVE  Between(c, k + 1, WaitTurn(c, X, k + 1))
  <2>1. A \subseteq X
    BY <1>2, <1>5 DEF Between
  <2>2. /\ Wait(g, Z, j, Y, P, X) \in SUBSET State
        /\ Wait(g, Z, j, Y, P, A) \subseteq Wait(g, Z, j, Y, P, X)
    BY <2>1, WaitGrows
  <2>3. WaitTurn(c, X, k + 1) = Wait(g, Z, j, Y, P, X)
    BY <1>2, Zenon DEF WaitTurn
  <2> QED
    BY <1>2, <2>2, <2>3 DEF Between
<1>6. \A n \in Nat : Between(c, n, f[n])
  BY <1>1, <1>4, <1>5, Waits!IterationInvariant, Zenon
<1>7. Cardinality(State) \in Nat
  BY StateAssumption, FS_CardinalityType
<1> QED
  BY <1>2, <1>3, <1>6, <1>7 DEF Between

LEMMA NearerGrows ==
  ASSUME NEW g, NEW Z, NEW j, NEW Y, NEW W, Y \subseteq W
  PROVE  /\ Nearer(g, Z, j, Y) \in SUBSET State
         /\ Nearer(g, Z, j, Y) \subseteq Nearer(g, Z, j, W)
<1>1. ASSUME NEW P
      PROVE  Waiting(g, Z, j, Y, P) \in SUBSET State /\ Waiting(g, Z, j, Y, P) \subseteq Waiting(g, Z, j, W, P)
  <2> DEFINE A == Waiting(g, Z, j, Y, P)
  <2>1. A \in SUBSET State /\ Wait(g, Z, j, Y, P, A) = A
    BY WaitingIsFixpoint
  <2> HIDE DEF A
  <2>2. Wait(g, Z, j, Y, P, A) \subseteq Wait(g, Z, j, W, P, A)
    BY PreGrows DEF Wait, Leaving
  <2>3. A \subseteq Waiting(g, Z, j, W, P)
    BY <2>1, <2>2, WaitingContains
  <2> QED
    BY <2>1, <2>3 DEF A
<1> QED
  BY <1>1 DEF Nearer

LEMMA ReachIsFixpoint ==
  ASSUME NEW g, NEW Z, NEW j
  PROVE  Reach(g, Z, j) \in SUBSET State /\ Nearer(g, Z, j, Reach(g, Z, j)) = Reach(g, Z, j)
<1> DEFINE c == [game |-> g, stay |-> Z, goal |-> j]
           f == CHOOSE h : Nears!IsIteration(h, c, {})
<1>1. Nears!IsIteration(f, c, {})
  BY Nears!IterationExists
<1>2. c.game = g /\ c.stay = Z /\ c.goal = j
  OBVIOUS
<1> HIDE DEF c
<1>3. Reach(g, Z, j) = f[Cardinality(State)]
  BY <1>2, Zenon DEF Reach, LeastFixpoint, Iterate, Nears!IsIteration, NearerTurn
<1>4. \A Y, n : NearerTurn(c, Y, n) = Nearer(g, Z, j, Y)
  BY <1>2, Zenon DEF NearerTurn
<1>5. Nears!IsMonotone(c, State)
  BY <1>4, NearerGrows DEF Nears!IsMonotone
<1> HIDE DEF f
<1>6. f[Cardinality(State)] \in SUBSET State /\ NearerTurn(c, f[Cardinality(State)], 0) = f[Cardinality(State)]
  <2>1. Nears!IsSize(SizeOfStates, State, Cardinality(State))
    BY StatesHaveSize DEF Nears!IsSize
  <2> QED
    BY <1>1, <1>5, <2>1, Nears!LeastIsFixpoint
<1> QED
  BY <1>3, <1>4, <1>6

LEMMA WinningContains ==
  ASSUME NEW g, NEW A \in SUBSET State,
         \A Z \in SUBSET State : A \subseteq Z => \A j \in Goal : A \subseteq Reach(g, Z, j)
  PROVE  A \subseteq WinningRegion(g)
<1> DEFINE c == [game |-> g, lower |-> A, upper |-> State]
           f == CHOOSE h : Keeps!IsIteration(h, c, State)
<1>1. Keeps!IsIteration(f, c, State)
  BY Keeps!IterationExists
<1>2. c.game = g /\ c.lower = A /\ c.upper = State
  OBVIOUS
<1> HIDE DEF c
<1>3. WinningRegion(g) = f[Cardinality(State)]
  BY <1>2, Zenon DEF WinningRegion, GreatestFixpoint, Iterate, Keeps!IsIteration, KeepTurn
<1> HIDE DEF f
<1>4. Between(c, 0, State)
  BY <1>2 DEF Between
<1>5. ASSUME NEW k \in Nat, NEW Z, Between(c, k, Z)
      PROVE  Between(c, k + 1, KeepTurn(c, Z, k + 1))
  <2>1. Z \in SUBSET State /\ A \subseteq Z
    BY <1>2, <1>5 DEF Between
  <2>2. Keep(g, Z) \in SUBSET State /\ A \subseteq Keep(g, Z)
    BY <2>1 DEF Keep
  <2>3. KeepTurn(c, Z, k + 1) = Keep(g, Z)
    BY <1>2, Zenon DEF KeepTurn
  <2> QED
    BY <1>2, <2>2, <2>3 DEF Between
<1>6. \A n \in Nat : Between(c, n, f[n])
  BY <1>1, <1>4, <1>5, Keeps!IterationInvariant, Zenon
<1>7. Cardinality(State) \in Nat
  BY StateAssumption, FS_CardinalityType
<1> QED
  BY <1>2, <1>3, <1>6, <1>7 DEF Between

-----------------------------------------------------------------------------
\* What the best successor is worth to a state that has not lost.
LEMMA BestIsFinite ==
  ASSUME TypeOK, NEW s \in State, NEW j \in Goal,
         ~IsDeadlock(game, s), ~IsInfinite(rank[j][s]), IsStable(game, rank, s, j)
  PROVE  /\ BestSuccessor(game, rank, s, j) \in Rank
         /\ ~IsInfinite(BestSuccessor(game, rank, s, j))
<1> DEFINE best == BestSuccessor(game, rank, s, j)
<1>1. best \in Rank /\ rank[j][s] \in Rank
  BY TypeFacts, BestSuccessorValue, RankOfIsRank, TargetGoalType
<1>2. CASE SatisfiesGuarantee(game, s, j)
  BY <1>1, <1>2 DEF IsStable
<1>3. CASE ~SatisfiesGuarantee(game, s, j)
  <2>1. RankingGt(rank[j][s], best) \/ RankingGeq(rank[j][s], best)
    BY <1>3 DEF IsStable
  <2> QED
    BY <1>1, <2>1, InfiniteIsTop DEF RankingGt
<1> QED
  BY <1>1, <1>2, <1>3

\* In a state of Waiting the goal is met, or nearer, whatever the assumption.
LEMMA ReachedMeansNearer ==
  ASSUME NEW g, NEW Z, NEW j, NEW s \in Reach(g, Z, j)
  PROVE  s \in (g.guarantee[j] \cap ControllablePre(g, Z)) \cup ControllablePre(g, Reach(g, Z, j))
<1> DEFINE R == Reach(g, Z, j)
<1>1. R \in SUBSET State /\ Nearer(g, Z, j, R) = R
  BY ReachIsFixpoint
<1> HIDE DEF R
<1>2. PICK P \in AssumptionSets(g) : s \in Waiting(g, Z, j, R, P)
  BY <1>1 DEF Nearer, R
<1> DEFINE A == Waiting(g, Z, j, R, P)
<1>3. A \subseteq R
  BY <1>1 DEF Nearer
<1>4. s \in Wait(g, Z, j, R, P, A)
  BY <1>2, WaitingIsFixpoint
<1> HIDE DEF A
<1>5. ControllablePre(g, A) \subseteq ControllablePre(g, R)
  BY <1>3, PreGrows
<1> QED
  BY <1>4, <1>5 DEF Wait, Leaving, R

\* The state with the lowest rank among those that would not be reached is reached after
\* all: its successors are reached, or wait for the same assumption as it does.
LEMMA WinnersReach ==
  ASSUME IInv, pending = {}, NEW Z \in SUBSET State, Winners \subseteq Z, NEW j \in Goal
  PROVE  Winners \subseteq Reach(game, Z, j)
<1> DEFINE R == Reach(game, Z, j)
           B == Winners \ R
           ranks == {rank[j][s] : s \in B}
           low == Lowest(ranks)
           X == {s \in Winners : rank[j][s] = low}
           P == IF AssumptionsCount = 0 THEN State ELSE game.assumption[low.assumption]
<1>1. TypeOK /\ LosesForAllGoals /\ DeadlocksLose /\ \A s \in State, i \in Goal : IsStable(game, rank, s, i)
  BY DEF IInv, UnstableIsPending
<1>2. SUFFICES ASSUME B # {} PROVE FALSE
  OBVIOUS
<1>3. R \in SUBSET State /\ Nearer(game, Z, j, R) = R
  BY ReachIsFixpoint
<1>4. \A s \in State : rank[j][s] \in Rank /\ rank[j][s] \in RankOf(game, j)
  BY <1>1, TypeFacts
<1>5. low \in ranks /\ \A r \in ranks : RankingGeq(r, low)
  <2>1. ranks \in SUBSET Rank /\ ranks # {}
    BY <1>2, <1>4 DEF Winners
  <2> HIDE DEF ranks
  <2> QED
    BY <2>1, LowestExists
<1>6. \A s \in Winners : s \in State /\ ~IsInfinite(rank[j][s]) /\ ~IsDeadlock(game, s)
  BY <1>1 DEF Winners, IsWinning, DeadlocksLose
<1>7. PICK b \in B : rank[j][b] = low
  BY <1>5
<1>8. low \in Rank /\ ~IsInfinite(low) /\ low \in RankOf(game, j)
  BY <1>4, <1>6, <1>7
<1>9. \A s \in Winners : RankingGt(low, rank[j][s]) => s \in R
  BY <1>5 DEF RankingGeq
<1> HIDE DEF low, R
<1>10. P \in AssumptionSets(game)
  <2>1. CASE AssumptionsCount = 0
    BY <2>1 DEF AssumptionSets
  <2>2. CASE AssumptionsCount # 0
    <3>1. low.assumption \in 0 .. LastAssumption
      BY <1>8, InfiniteIsTop DEF RankOf
    <3>2. low.assumption \in AssumptionIndex
      BY <2>2, <3>1, CountAssumption DEF LastAssumption, AssumptionIndex
    <3> QED
      BY <2>2, <3>2 DEF AssumptionSets
  <2> QED
    BY <2>1, <2>2
<1>11. \A s \in State : s \in P <=> SatisfiesAssumption(game, s, low.assumption)
  BY DEF SatisfiesAssumption
<1> HIDE DEF P
<1>12. ASSUME NEW s \in X
       PROVE  s \in Wait(game, Z, j, R, P, X \cup R)
  <2> DEFINE i == TargetGoal(game, s, j)
             best == BestSuccessor(game, rank, s, j)
  <2>1. /\ s \in Winners /\ s \in State /\ rank[j][s] = low /\ ~IsDeadlock(game, s)
        /\ ~IsInfinite(rank[j][s]) /\ IsStable(game, rank, s, j)
    BY <1>1, <1>6
  <2>2. best \in Rank /\ ~IsInfinite(best) /\ i \in Goal
    BY <1>1, <2>1, BestIsFinite, TargetGoalType
  <2>3. \A o \in game.moves[s] : \E t \in o : RankingGeq(best, rank[i][t])
    BY <1>1, <2>1, TypeFacts, BestSuccessorValue
  <2>4. \A o \in game.moves[s] : \A t \in o : t \in State /\ rank[i][t] \in Rank
    BY <1>1, <2>1, <2>2, TypeFacts, MovesType
  <2> HIDE DEF best, i
  <2>5. \A o \in game.moves[s] : \E t \in o : t \in Winners /\ RankingGeq(best, rank[i][t])
    <3> SUFFICES ASSUME NEW o \in game.moves[s]
                 PROVE  \E t \in o : t \in Winners /\ RankingGeq(best, rank[i][t])
      OBVIOUS
    <3>1. PICK t \in o : RankingGeq(best, rank[i][t])
      BY <2>3
    <3>2. t \in State /\ ~IsInfinite(rank[i][t])
      BY <2>2, <2>4, <3>1, InfiniteIsTop
    <3>3. t \in Winners
      BY <1>1, <2>2, <3>2 DEF Winners, IsWinning, LosesForAllGoals
    <3> QED
      BY <3>1, <3>3
  <2>6. CASE SatisfiesGuarantee(game, s, j)
    <3>1. s \in ControllablePre(game, Z)
      BY <2>1, <2>5 DEF ControllablePre
    <3> QED
      BY <2>6, <3>1 DEF Wait, Leaving, SatisfiesGuarantee
  <2>7. CASE ~SatisfiesGuarantee(game, s, j)
    <3>1. i = j
      BY <2>7 DEF TargetGoal, i
    <3>2. IF s \in P THEN RankingGt(low, best) ELSE RankingGeq(low, best)
      BY <1>11, <2>1, <2>7 DEF IsStable, best
    <3>3. CASE s \in P
      <4>1. \A o \in game.moves[s] : \E t \in o : t \in R
        <5> SUFFICES ASSUME NEW o \in game.moves[s] PROVE \E t \in o : t \in R
          OBVIOUS
        <5>1. PICK t \in o : t \in Winners /\ RankingGeq(best, rank[j][t])
          BY <2>5, <3>1
        <5>2. rank[j][t] \in Rank /\ RankingGt(low, best)
          BY <2>4, <3>1, <3>2, <3>3
        <5>3. RankingGt(low, rank[j][t])
          BY <1>8, <2>2, <5>1, <5>2, RankOrder DEF RankingGeq
        <5> QED
          BY <1>9, <5>1, <5>3
      <4>2. s \in ControllablePre(game, R)
        BY <2>1, <4>1 DEF ControllablePre
      <4> QED
        BY <4>2 DEF Wait, Leaving
    <3>4. CASE s \notin P
      <4>1. \A o \in game.moves[s] : \E t \in o : t \in X \cup R
        <5> SUFFICES ASSUME NEW o \in game.moves[s] PROVE \E t \in o : t \in X \cup R
          OBVIOUS
        <5>1. PICK t \in o : t \in Winners /\ RankingGeq(best, rank[j][t])
          BY <2>5, <3>1
        <5>2. rank[j][t] \in Rank /\ RankingGeq(low, best)
          BY <2>4, <3>1, <3>2, <3>4
        <5>3. RankingGeq(low, rank[j][t])
          BY <1>8, <2>2, <5>1, <5>2, RankOrder
        <5>4. RankingGt(low, rank[j][t]) \/ rank[j][t] = low
          BY <1>8, <5>2, <5>3, RankOrder DEF RankingGeq
        <5> QED
          BY <1>9, <5>1, <5>4
      <4>2. s \in ControllablePre(game, X \cup R)
        BY <2>1, <4>1 DEF ControllablePre
      <4> QED
        BY <3>4, <4>2 DEF Wait, Leaving
    <3> QED
      BY <3>3, <3>4
  <2> QED
    BY <2>6, <2>7
<1>13. R \subseteq Wait(game, Z, j, R, P, X \cup R)
  BY ReachedMeansNearer DEF R, Wait, Leaving
<1>14. X \cup R \subseteq Waiting(game, Z, j, R, P)
  <2>1. X \cup R \in SUBSET State
    BY <1>3 DEF Winners
  <2> HIDE DEF X
  <2> QED
    BY <1>12, <1>13, <2>1, WaitingContains
<1>15. X \subseteq R
  BY <1>3, <1>10, <1>14 DEF Nearer
<1> QED
  BY <1>7, <1>15

\* When the worklist is empty, the states with finite ranks are in the winning region.
LEMMA ClosedIsSound == IInv => WinnersCanWin
<1> SUFFICES ASSUME IInv, pending = {} PROVE Winners \subseteq WinningRegion(game)
  BY DEF WinnersCanWin
<1>1. Winners \in SUBSET State
  BY DEF Winners
<1>2. \A Z \in SUBSET State : Winners \subseteq Z => \A j \in Goal : Winners \subseteq Reach(game, Z, j)
  BY WinnersReach
<1> QED
  BY <1>1, <1>2, WinningContains

\* In every game, whatever the sets and their lists, the states whose ranks are finite once
\* the loop ends are in the winning region: automaton_get_gr1_strategy is sound.
THEOREM SolverIsSound == Spec => []WinnersCanWin
BY ClosedIsSound, Invariant, PTL

-----------------------------------------------------------------------------
(****************************************************************************)
(* The other direction.  First, more about the fixpoints: the winning       *)
(* region keeps itself, and reaching a goal without leaving it is possible  *)
(* from the winning region and from nowhere else.                           *)
(****************************************************************************)
LEMMA ReachIsLeast ==
  ASSUME NEW g, NEW Z, NEW j, NEW A \in SUBSET State, Nearer(g, Z, j, A) \subseteq A
  PROVE  Reach(g, Z, j) \subseteq A
<1> DEFINE c == [game |-> g, stay |-> Z, goal |-> j, lower |-> {}, upper |-> A]
           f == CHOOSE h : Nears!IsIteration(h, c, {})
<1>1. Nears!IsIteration(f, c, {})
  BY Nears!IterationExists
<1>2. c.game = g /\ c.stay = Z /\ c.goal = j /\ c.lower = {} /\ c.upper = A
  OBVIOUS
<1> HIDE DEF c
<1>3. Reach(g, Z, j) = f[Cardinality(State)]
  BY <1>2, Zenon DEF Reach, LeastFixpoint, Iterate, Nears!IsIteration, NearerTurn
<1> HIDE DEF f
<1>4. Between(c, 0, {})
  BY <1>2 DEF Between
<1>5. ASSUME NEW k \in Nat, NEW Y, Between(c, k, Y)
      PROVE  Between(c, k + 1, NearerTurn(c, Y, k + 1))
  <2>1. Y \subseteq A
    BY <1>2, <1>5 DEF Between
  <2>2. Nearer(g, Z, j, Y) \in SUBSET State /\ Nearer(g, Z, j, Y) \subseteq Nearer(g, Z, j, A)
    BY <2>1, NearerGrows
  <2>3. NearerTurn(c, Y, k + 1) = Nearer(g, Z, j, Y)
    BY <1>2, Zenon DEF NearerTurn
  <2> QED
    BY <1>2, <2>2, <2>3 DEF Between
<1>6. \A n \in Nat : Between(c, n, f[n])
  BY <1>1, <1>4, <1>5, Nears!IterationInvariant, Zenon
<1>7. Cardinality(State) \in Nat
  BY StateAssumption, FS_CardinalityType
<1> QED
  BY <1>2, <1>3, <1>6, <1>7 DEF Between

\* The more states one may stay in, the more states a goal is reached from.
LEMMA ReachGrows ==
  ASSUME NEW g, NEW j, NEW Z, NEW V, Z \subseteq V
  PROVE  Reach(g, Z, j) \subseteq Reach(g, V, j)
<1> DEFINE R == Reach(g, V, j)
<1>1. R \in SUBSET State /\ Nearer(g, V, j, R) = R
  BY ReachIsFixpoint
<1> HIDE DEF R
<1>2. ASSUME NEW P PROVE Waiting(g, Z, j, R, P) \subseteq Waiting(g, V, j, R, P)
  <2> DEFINE A == Waiting(g, Z, j, R, P)
  <2>1. A \in SUBSET State /\ Wait(g, Z, j, R, P, A) = A
    BY WaitingIsFixpoint
  <2> HIDE DEF A
  <2>2. Wait(g, Z, j, R, P, A) \subseteq Wait(g, V, j, R, P, A)
    BY PreGrows DEF Wait, Leaving
  <2>3. A \subseteq Waiting(g, V, j, R, P)
    BY <2>1, <2>2, WaitingContains
  <2> QED
    BY <2>3 DEF A
<1>3. Nearer(g, Z, j, R) \subseteq R
  BY <1>1, <1>2 DEF Nearer
<1> QED
  BY <1>1, <1>3, ReachIsLeast DEF R

LEMMA WinningIsFixpoint ==
  ASSUME NEW g
  PROVE  WinningRegion(g) \in SUBSET State /\ Keep(g, WinningRegion(g)) = WinningRegion(g)
<1> DEFINE c == [game |-> g]
           f == CHOOSE h : Keeps!IsIteration(h, c, State)
<1>1. Keeps!IsIteration(f, c, State)
  BY Keeps!IterationExists
<1>2. c.game = g
  OBVIOUS
<1> HIDE DEF c
<1>3. WinningRegion(g) = f[Cardinality(State)]
  BY <1>2, Zenon DEF WinningRegion, GreatestFixpoint, Iterate, Keeps!IsIteration, KeepTurn
<1>4. \A Z, n : KeepTurn(c, Z, n) = Keep(g, Z)
  BY <1>2, Zenon DEF KeepTurn
<1>5. \A Z, V : Z \subseteq V => Keep(g, Z) \in SUBSET State /\ Keep(g, Z) \subseteq Keep(g, V)
  BY ReachGrows DEF Keep
<1>6. Keeps!IsMonotone(c, State)
  BY <1>4, <1>5 DEF Keeps!IsMonotone
<1> HIDE DEF f
<1>7. f[Cardinality(State)] \in SUBSET State /\ KeepTurn(c, f[Cardinality(State)], 0) = f[Cardinality(State)]
  <2>1. Keeps!IsSize(SizeOfStates, State, Cardinality(State))
    BY StatesHaveSize DEF Keeps!IsSize
  <2> QED
    BY <1>1, <1>6, <2>1, Keeps!GreatestIsFixpoint
<1> QED
  BY <1>3, <1>4, <1>7

\* Where a goal can be reached with the winning region to stay in, the controller wins.
LEMMA ReachIsWinning ==
  ASSUME NEW g, NEW j \in Goal
  PROVE  Reach(g, WinningRegion(g), j) = WinningRegion(g)
<1> DEFINE W == WinningRegion(g)
           V == Reach(g, W, j)
<1>1. W \in SUBSET State /\ Keep(g, W) = W
  BY WinningIsFixpoint
<1>2. V \in SUBSET State
  BY ReachIsFixpoint
<1> HIDE DEF W
<1>3. W \subseteq V
  BY <1>1 DEF Keep
<1>4. ASSUME NEW Z \in SUBSET State, V \subseteq Z, NEW i \in Goal
      PROVE  V \subseteq Reach(g, Z, i)
  <2> DEFINE Q == Reach(g, Z, i)
  <2>1. Q \in SUBSET State /\ Nearer(g, Z, i, Q) = Q
    BY ReachIsFixpoint
  <2>2. W \subseteq Q
    <3>1. W \subseteq Reach(g, W, i)
      BY <1>1 DEF Keep
    <3>2. Reach(g, W, i) \subseteq Q
      BY <1>3, <1>4, ReachGrows
    <3> QED
      BY <3>1, <3>2
  <2> HIDE DEF Q
  <2>3. ASSUME NEW P PROVE Waiting(g, W, j, Q, P) \subseteq Waiting(g, Z, i, Q, P)
    <3> DEFINE A == Waiting(g, W, j, Q, P)
    <3>1. A \in SUBSET State /\ Wait(g, W, j, Q, P, A) = A
      BY WaitingIsFixpoint
    <3> HIDE DEF A
    <3>2. ControllablePre(g, W) \subseteq ControllablePre(g, Q)
      BY <2>2, PreGrows
    <3>3. Wait(g, W, j, Q, P, A) \subseteq Wait(g, Z, i, Q, P, A)
      BY <3>2 DEF Wait, Leaving
    <3>4. A \subseteq Waiting(g, Z, i, Q, P)
      BY <3>1, <3>3, WaitingContains
    <3> QED
      BY <3>4 DEF A
  <2>4. Nearer(g, W, j, Q) \subseteq Q
    BY <2>1, <2>3 DEF Nearer
  <2> QED
    BY <2>1, <2>4, ReachIsLeast DEF Q
<1>5. V \subseteq W
  <2> HIDE DEF V
  <2> QED
    BY <1>2, <1>4, WinningContains DEF W
<1> QED
  BY <1>3, <1>5 DEF W

\* In the winning region the controller can stay there for ever.
LEMMA WinningStays ==
  ASSUME NEW g, NEW s \in WinningRegion(g)
  PROVE  s \in ControllablePre(g, WinningRegion(g))
<1>1. 0 \in Goal
  BY CountAssumption DEF Goal
<1>2. Reach(g, WinningRegion(g), 0) = WinningRegion(g)
  BY <1>1, ReachIsWinning
<1> QED
  BY <1>2, ReachedMeansNearer

-----------------------------------------------------------------------------
(****************************************************************************)
(* The levels of the way to goal j from the winning region: level <<v, a>>  *)
(* holds the states of rank below <<v, a>>.  From the states that level     *)
(* <<v, a + 1>> adds the controller meets the goal, or gets to level        *)
(* <<v, a>>, or assumption a is never met again.                            *)
(****************************************************************************)
Assumed(g, a) == IF AssumptionsCount = 0 THEN State ELSE g.assumption[a]

StageTurn(c, Y, n) == Waiting(c.game, WinningRegion(c.game), c.goal, Y, Assumed(c.game, n - 1))
Stages == INSTANCE Iteration WITH Op <- StageTurn, Inv <- Between
RoundTurn(c, Y, n) == (CHOOSE h : Stages!IsIteration(h, c, Y))[LastAssumption + 1]
Rounds == INSTANCE Iteration WITH Op <- RoundTurn, Inv <- Between

AreLevels(g, j, L) ==
  /\ L[0][0] = {}
  /\ \A v \in Nat : L[v + 1][0] = L[v][LastAssumption + 1]
  /\ \A v, a \in Nat : L[v][a + 1] = Waiting(g, WinningRegion(g), j, L[v][a], Assumed(g, a))

LEMMA LevelsExist ==
  ASSUME NEW g, NEW j
  PROVE  \E L : AreLevels(g, j, L)
<1> DEFINE c == [game |-> g, goal |-> j]
           f == CHOOSE h : Rounds!IsIteration(h, c, {})
           stages(Y) == CHOOSE h : Stages!IsIteration(h, c, Y)
           L == [v \in Nat |-> [a \in Nat |-> stages(f[v])[a]]]
<1>1. Rounds!IsIteration(f, c, {})
  BY Rounds!IterationExists
<1>2. \A Y : Stages!IsIteration(stages(Y), c, Y)
  BY Stages!IterationExists
<1>3. c.game = g /\ c.goal = j
  OBVIOUS
<1>4. \A Y, n : RoundTurn(c, Y, n) = stages(Y)[LastAssumption + 1]
  BY Zenon DEF RoundTurn
<1> HIDE DEF c, f, stages
<1>5. \A Y, n : StageTurn(c, Y, n) = Waiting(g, WinningRegion(g), j, Y, Assumed(g, n - 1))
  BY <1>3, Zenon DEF StageTurn
<1>6. \A n \in Nat : f[n] = IF n = 0 THEN {} ELSE RoundTurn(c, f[n - 1], n)
  BY <1>1, Zenon DEF Rounds!IsIteration
<1>7. \A Y : \A n \in Nat : stages(Y)[n] = IF n = 0 THEN Y ELSE StageTurn(c, stages(Y)[n - 1], n)
  BY <1>2, Zenon DEF Stages!IsIteration
<1>8. f[0] = {} /\ \A v \in Nat : f[v + 1] = stages(f[v])[LastAssumption + 1]
  <2>1. \A v \in Nat : v + 1 \in Nat /\ v + 1 # 0 /\ (v + 1) - 1 = v
    OBVIOUS
  <2> QED
    BY <1>4, <1>6, <2>1
<1>9. \A Y : stages(Y)[0] = Y
  BY <1>7
<1>10. \A Y : \A a \in Nat :
         stages(Y)[a + 1] = Waiting(g, WinningRegion(g), j, stages(Y)[a], Assumed(g, a))
  <2>1. \A v \in Nat : v + 1 \in Nat /\ v + 1 # 0 /\ (v + 1) - 1 = v
    OBVIOUS
  <2> QED
    BY <1>5, <1>7, <2>1
<1>11. \A v, a \in Nat : L[v][a] = stages(f[v])[a]
  OBVIOUS
<1> HIDE DEF L
<1>12. LastAssumption + 1 \in Nat /\ 0 \in Nat /\ \A n \in Nat : n + 1 \in Nat
  BY CountAssumption DEF LastAssumption
<1>13. L[0][0] = {}
  BY <1>8, <1>9, <1>11, <1>12
<1>14. \A v \in Nat : L[v + 1][0] = L[v][LastAssumption + 1]
  BY <1>8, <1>9, <1>11, <1>12
<1>15. \A v, a \in Nat : L[v][a + 1] = Waiting(g, WinningRegion(g), j, L[v][a], Assumed(g, a))
  BY <1>10, <1>11, <1>12
<1> QED
  BY <1>13, <1>14, <1>15 DEF AreLevels

\* From every state of X the controller meets the goal or stays in X.
Supported(g, j, X) ==
  X \subseteq (g.guarantee[j] \cap ControllablePre(g, WinningRegion(g))) \cup ControllablePre(g, X)

LEMMA WaitingSupported ==
  ASSUME NEW g, NEW j, NEW Y \in SUBSET State, Supported(g, j, Y), NEW P
  PROVE  LET X == Waiting(g, WinningRegion(g), j, Y, P)
         IN  X \in SUBSET State /\ Y \subseteq X /\ Supported(g, j, X)
<1> DEFINE W == WinningRegion(g)
           X == Waiting(g, W, j, Y, P)
<1>1. X \in SUBSET State /\ Wait(g, W, j, Y, P, X) = X
  BY WaitingIsFixpoint
<1>2. Y \subseteq X
  <2>1. Y \subseteq Wait(g, W, j, Y, P, Y)
    BY DEF Supported, Wait, Leaving
  <2> HIDE DEF W
  <2> QED
    BY <2>1, WaitingContains
<1> HIDE DEF X, W
<1>3. ControllablePre(g, Y) \subseteq ControllablePre(g, X)
  BY <1>2, PreGrows
<1>4. X \subseteq (g.guarantee[j] \cap ControllablePre(g, W)) \cup ControllablePre(g, X)
  BY <1>1, <1>3 DEF Wait, Leaving
<1> QED
  BY <1>1, <1>2, <1>4 DEF Supported, X, W

\* The levels grow from turn to turn and from round to round.
LEMMA LevelsGrow ==
  ASSUME NEW g, NEW j, NEW L, AreLevels(g, j, L)
  PROVE  /\ \A v, a \in Nat : L[v][a] \in SUBSET State /\ L[v][a] \subseteq L[v][a + 1]
         /\ \A v, a, b \in Nat : a <= b => L[v][a] \subseteq L[v][b]
<1> DEFINE Good(X) == X \in SUBSET State /\ Supported(g, j, X)
<1>1. ASSUME NEW v \in Nat, NEW a \in Nat, Good(L[v][a])
      PROVE  Good(L[v][a + 1]) /\ L[v][a] \subseteq L[v][a + 1]
  BY <1>1, WaitingSupported DEF AreLevels
<1>2. ASSUME NEW v \in Nat, Good(L[v][0])
      PROVE  \A a \in Nat : Good(L[v][a])
  <2> DEFINE T == {a \in Nat : Good(L[v][a])}
  <2>1. 0 \in T /\ \A a \in Nat : a \in T => a + 1 \in T
    BY <1>1, <1>2
  <2>2. \A a \in Nat : a \in T
    <3> HIDE DEF T
    <3> QED
      BY <2>1, Waits!SetInduction
  <2> QED
    BY <2>2
<1>3. \A v \in Nat : Good(L[v][0])
  <2> DEFINE T == {v \in Nat : Good(L[v][0])}
  <2>1. 0 \in T
    BY DEF AreLevels, Supported
  <2>2. ASSUME NEW v \in Nat, v \in T PROVE v + 1 \in T
    <3>1. LastAssumption + 1 \in Nat
      BY CountAssumption DEF LastAssumption
    <3>2. Good(L[v][LastAssumption + 1])
      BY <1>2, <2>2, <3>1
    <3> QED
      BY <3>2 DEF AreLevels
  <2>3. \A v \in Nat : v \in T
    <3> HIDE DEF T
    <3> QED
      BY <2>1, <2>2, Waits!SetInduction
  <2> QED
    BY <2>3
<1>4. \A v, a \in Nat : Good(L[v][a]) /\ L[v][a] \subseteq L[v][a + 1]
  BY <1>1, <1>2, <1>3
<1> HIDE DEF Good
<1>5. ASSUME NEW v \in Nat, NEW a \in Nat PROVE \A b \in Nat : a <= b => L[v][a] \subseteq L[v][b]
  <2> DEFINE T == {b \in Nat : a <= b => L[v][a] \subseteq L[v][b]}
  <2>1. 0 \in T
    OBVIOUS
  <2>2. ASSUME NEW b \in Nat, b \in T PROVE b + 1 \in T
    <3>1. L[v][b] \subseteq L[v][b + 1] /\ b + 1 \in Nat
      BY <1>4
    <3>2. CASE a <= b
      BY <2>2, <3>1, <3>2
    <3>3. CASE ~(a <= b)
      <4>1. a <= b + 1 => a = b + 1
        BY <3>3
      <4> QED
        BY <3>1, <4>1
    <3> QED
      BY <3>2, <3>3
  <2>3. \A b \in Nat : b \in T
    <3> HIDE DEF T
    <3> QED
      BY <2>1, <2>2, Waits!SetInduction
  <2> QED
    BY <2>3
<1> QED
  BY <1>4, <1>5 DEF Good

\* The levels lie in the winning region.
LEMMA LevelsWin ==
  ASSUME NEW g, NEW j \in Goal, NEW L, AreLevels(g, j, L)
  PROVE  \A v, a \in Nat : a <= LastAssumption + 1 => L[v][a] \subseteq WinningRegion(g)
<1> DEFINE W == WinningRegion(g)
<1>0. LastAssumption \in Nat /\ LastAssumption + 1 \in Nat
  BY CountAssumption DEF LastAssumption
<1>1. Nearer(g, W, j, W) = W
  BY ReachIsWinning, ReachIsFixpoint
<1> HIDE DEF W
<1>2. ASSUME NEW a \in Nat, a <= LastAssumption PROVE Assumed(g, a) \in AssumptionSets(g)
  BY <1>2, CountAssumption DEF Assumed, AssumptionSets, AssumptionIndex, LastAssumption
<1>3. ASSUME NEW v \in Nat, NEW a \in Nat, a <= LastAssumption, L[v][a] \subseteq W
      PROVE  L[v][a + 1] \subseteq W
  <2>1. L[v][a + 1] = Waiting(g, W, j, L[v][a], Assumed(g, a))
    BY DEF AreLevels, W
  <2>2. L[v][a + 1] \subseteq Nearer(g, W, j, L[v][a])
    BY <1>2, <1>3, <2>1 DEF Nearer
  <2>3. Nearer(g, W, j, L[v][a]) \subseteq Nearer(g, W, j, W)
    BY <1>3, NearerGrows
  <2> QED
    BY <1>1, <2>2, <2>3
<1>4. ASSUME NEW v \in Nat, L[v][0] \subseteq W
      PROVE  \A a \in Nat : a <= LastAssumption + 1 => L[v][a] \subseteq W
  <2> DEFINE T == {a \in Nat : a <= LastAssumption + 1 => L[v][a] \subseteq W}
  <2>1. 0 \in T
    BY <1>4
  <2>2. ASSUME NEW a \in Nat, a \in T PROVE a + 1 \in T
    <3>1. a + 1 <= LastAssumption + 1 => a <= LastAssumption /\ a <= LastAssumption + 1
      BY <1>0
    <3> QED
      BY <1>3, <2>2, <3>1
  <2>3. \A a \in Nat : a \in T
    <3> HIDE DEF T
    <3> QED
      BY <2>1, <2>2, Waits!SetInduction
  <2> QED
    BY <2>3
<1>5. \A v \in Nat : L[v][0] \subseteq W
  <2> DEFINE T == {v \in Nat : L[v][0] \subseteq W}
  <2>1. 0 \in T
    BY DEF AreLevels
  <2>2. ASSUME NEW v \in Nat, v \in T PROVE v + 1 \in T
    <3>1. L[v][LastAssumption + 1] \subseteq W
      BY <1>0, <1>4, <2>2
    <3> QED
      BY <3>1 DEF AreLevels
  <2>3. \A v \in Nat : v \in T
    <3> HIDE DEF T
    <3> QED
      BY <2>1, <2>2, Waits!SetInduction
  <2> QED
    BY <2>3
<1> QED
  BY <1>4, <1>5 DEF W

\* A round whose first turn adds no state that meets the first assumption but not the goal
\* is the last one.
LEMMA LevelsStall ==
  ASSUME NEW g \in Game, NEW j \in Goal, NEW L, AreLevels(g, j, L), NEW v \in Nat,
         L[v + 1][1] \cap (Assumed(g, 0) \ g.guarantee[j]) \subseteq L[v][1]
  PROVE  WinningRegion(g) \subseteq L[v][1]
<1> DEFINE W == WinningRegion(g)
           X == L[v][1]
           A == L[v + 1][1]
           K == LastAssumption + 1
<1>0. K \in Nat /\ 1 <= K /\ 0 \in Nat /\ 1 \in Nat /\ v + 1 \in Nat /\ 0 + 1 = 1
  BY CountAssumption DEF LastAssumption
<1>1. /\ L[v][0] \in SUBSET State /\ X \in SUBSET State /\ A \in SUBSET State
      /\ L[v][0] \subseteq X /\ L[v + 1][0] \subseteq A
      /\ \A a \in Nat : 1 <= a => X \subseteq L[v][a]
      /\ \A a \in Nat : a <= K => L[v][a] \subseteq L[v][K]
  BY <1>0, LevelsGrow
<1>2. /\ L[v + 1][0] = L[v][K]
      /\ X = Waiting(g, W, j, L[v][0], Assumed(g, 0))
      /\ A = Waiting(g, W, j, L[v + 1][0], Assumed(g, 0))
  BY <1>0 DEF AreLevels
<1>3. X \subseteq L[v + 1][0]
  BY <1>0, <1>1, <1>2
<1>4. Wait(g, W, j, L[v][0], Assumed(g, 0), X) = X
  BY <1>2, WaitingIsFixpoint
<1>5. Wait(g, W, j, L[v + 1][0], Assumed(g, 0), A) = A
  BY <1>2, WaitingIsFixpoint
<1>6. A \subseteq W
  BY <1>0, LevelsWin
<1> HIDE DEF A, X, W, K
<1>7. A \subseteq X
  <2>1. ControllablePre(g, L[v + 1][0]) \subseteq ControllablePre(g, A)
    BY <1>1, PreGrows
  <2>2. ControllablePre(g, X) \subseteq ControllablePre(g, A)
    BY <1>1, <1>3, PreGrows
  <2>3. Wait(g, W, j, L[v][0], Assumed(g, 0), X) \subseteq Wait(g, W, j, L[v][0], Assumed(g, 0), A)
    BY <2>2 DEF Wait, Leaving
  <2>4. ASSUME NEW s \in A PROVE s \in Wait(g, W, j, L[v][0], Assumed(g, 0), A)
    <3>1. CASE s \in X
      BY <1>4, <2>3, <3>1
    <3>2. CASE s \notin X
      <4>1. s \notin Assumed(g, 0) \/ s \in g.guarantee[j]
        BY <3>2 DEF A, X
      <4>2. s \in ControllablePre(g, W)
        BY <2>4, <1>6, WinningStays DEF W
      <4> QED
        BY <1>5, <2>1, <2>4, <4>1, <4>2 DEF Wait, Leaving
    <3> QED
      BY <3>1, <3>2
  <2>5. A \subseteq Waiting(g, W, j, L[v][0], Assumed(g, 0))
    BY <1>1, <2>4, WaitingContains
  <2> QED
    BY <1>2, <2>5
<1>8. L[v + 1][0] = X /\ A = X
  BY <1>1, <1>3, <1>7
<1>9. ASSUME NEW P \in AssumptionSets(g) PROVE Waiting(g, W, j, X, P) \subseteq X
  <2>1. CASE P = Assumed(g, 0)
    BY <1>2, <1>8, <2>1
  <2>2. CASE P # Assumed(g, 0)
    <3>1. PICK a \in 1 .. LastAssumption : P = Assumed(g, a)
      BY <2>2, CountAssumption DEF AssumptionSets, Assumed, AssumptionIndex, LastAssumption
    <3>2. a \in Nat /\ 1 <= a /\ a + 1 \in Nat /\ 1 <= a + 1 /\ a <= K /\ a + 1 <= K
      BY <3>1, CountAssumption DEF LastAssumption, K
    <3>3. L[v][a] = X /\ L[v][a + 1] = X
      BY <1>1, <1>2, <1>8, <3>2
    <3> QED
      BY <3>1, <3>2, <3>3 DEF AreLevels, W
  <2> QED
    BY <2>1, <2>2
<1>10. Nearer(g, W, j, X) \subseteq X
  BY <1>9 DEF Nearer
<1>11. Reach(g, W, j) \subseteq X
  BY <1>1, <1>10, ReachIsLeast
<1> QED
  BY <1>11, ReachIsWinning DEF W, X

\* There are no more rounds with something to add than states that meet the first assumption
\* but not the goal.
LEMMA LevelsEnd ==
  ASSUME NEW g \in Game, NEW j \in Goal, NEW L, AreLevels(g, j, L)
  PROVE  WinningRegion(g) \subseteq L[Cardinality(Assumed(g, 0) \ g.guarantee[j])][1]
<1> DEFINE W == WinningRegion(g)
           S == Assumed(g, 0) \ g.guarantee[j]
           D == Cardinality(S)
           found(v) == L[v][1] \cap S
<1>1. IsFiniteSet(S) /\ D \in Nat
  <2>1. Assumed(g, 0) \in SUBSET State
    BY CountAssumption DEF Assumed, Game, AssumptionIndex
  <2>2. S \in SUBSET State
    BY <2>1
  <2> HIDE DEF S
  <2> QED
    BY <2>2, StateAssumption, FS_Subset, FS_CardinalityType
<1>2. \A v \in Nat : L[v][1] \subseteq L[v + 1][1]
  <2> TAKE v \in Nat
  <2>1. LastAssumption + 1 \in Nat /\ 1 <= LastAssumption + 1 /\ 0 + 1 = 1 /\ v + 1 \in Nat
    BY CountAssumption DEF LastAssumption
  <2>2. L[v][1] \subseteq L[v][LastAssumption + 1]
    BY <2>1, LevelsGrow
  <2>3. L[v + 1][0] \subseteq L[v + 1][1]
    BY <2>1, LevelsGrow
  <2> QED
    BY <2>2, <2>3 DEF AreLevels
<1>3. \A v \in Nat : found(v + 1) \subseteq L[v][1] => W \subseteq L[v][1]
  <2> TAKE v \in Nat
  <2> QED
    BY LevelsStall
<1> HIDE DEF W, S
<1>4. \A v \in Nat : found(v) \subseteq S /\ IsFiniteSet(found(v)) /\ Cardinality(found(v)) \in Nat
  <2> TAKE v \in Nat
  <2>1. found(v) \in SUBSET S
    OBVIOUS
  <2> HIDE DEF found
  <2> QED
    BY <1>1, <2>1, FS_Subset, FS_CardinalityType
<1> DEFINE T == {v \in Nat : W \subseteq L[v][1] \/ Cardinality(found(v)) >= v}
<1>5. 0 \in T
  BY <1>4
<1>6. ASSUME NEW v \in Nat, v \in T PROVE v + 1 \in T
  <2>1. CASE W \subseteq L[v][1]
    BY <1>2, <2>1
  <2>2. CASE ~(W \subseteq L[v][1])
    <3>1. Cardinality(found(v)) >= v
      BY <1>6, <2>2
    <3>2. found(v) \subseteq found(v + 1) /\ found(v) # found(v + 1)
      BY <1>2, <1>3, <2>2
    <3>3. Cardinality(found(v)) < Cardinality(found(v + 1))
      <4>0. v + 1 \in Nat
        OBVIOUS
      <4>1. /\ IsFiniteSet(found(v + 1)) /\ Cardinality(found(v + 1)) \in Nat
            /\ Cardinality(found(v)) \in Nat /\ found(v) \in SUBSET found(v + 1)
        <5> HIDE DEF found, T
        <5> QED
          BY <1>4, <3>2, <4>0
      <4> HIDE DEF found
      <4>2. /\ Cardinality(found(v)) <= Cardinality(found(v + 1))
            /\ Cardinality(found(v + 1)) = Cardinality(found(v)) => found(v + 1) = found(v)
        BY <4>1, FS_Subset, Zenon
      <4> QED
        BY <3>2, <4>1, <4>2
    <3>4. Cardinality(found(v + 1)) \in Nat /\ Cardinality(found(v)) \in Nat
      BY <1>4
    <3> HIDE DEF found
    <3> QED
      BY <3>1, <3>3, <3>4
  <2> QED
    BY <2>1, <2>2
<1>7. \A v \in Nat : v \in T
  <2> HIDE DEF T
  <2> QED
    BY <1>5, <1>6, Waits!SetInduction
<1>8. CASE W \subseteq L[D][1]
  BY <1>8 DEF W, S
<1>9. CASE Cardinality(found(D)) >= D
  <2>1. found(D) = S
    <3>1. found(D) \in SUBSET S /\ Cardinality(found(D)) \in Nat
      BY <1>1, <1>4
    <3> HIDE DEF found
    <3>2. Cardinality(found(D)) <= D /\ (D = Cardinality(found(D)) => S = found(D))
      BY <1>1, <3>1, FS_Subset, Zenon
    <3> QED
      BY <1>1, <1>9, <3>1, <3>2
  <2>2. found(D + 1) \subseteq L[D][1]
    BY <2>1
  <2> QED
    BY <1>1, <1>3, <2>2 DEF W, S
<1> QED
  BY <1>1, <1>7, <1>8, <1>9

-----------------------------------------------------------------------------
(****************************************************************************)
(* The ranks of goal j that the levels give the winning states: the rank of *)
(* a state is the first level that it is not below.                         *)
(****************************************************************************)
RanksReach(g, j, r) ==
  \A s \in WinningRegion(g) :
    s \in Wait(g, WinningRegion(g), j,
               {t \in WinningRegion(g) : RankingGt(r[s], r[t])},
               Assumed(g, r[s].assumption),
               {t \in WinningRegion(g) : RankingGeq(r[s], r[t])})

\* Every state that meets assumptions without meeting goal j can have a value of its own.
EnoughRanks(g) ==
  \A j \in Goal : Cardinality(Assumed(g, FirstAssumption) \ g.guarantee[j]) <= MaxDelta(g, j)

LEMMA LevelRanks ==
  ASSUME NEW g \in Game, NEW j \in Goal,
         Cardinality(Assumed(g, FirstAssumption) \ g.guarantee[j]) <= MaxDelta(g, j)
  PROVE  \E r \in [WinningRegion(g) -> [value : 0 .. MaxDelta(g, j), assumption : 0 .. LastAssumption]] :
            RanksReach(g, j, r)
<1> DEFINE W == WinningRegion(g)
           K == LastAssumption + 1
           D == Cardinality(Assumed(g, 0) \ g.guarantee[j])
<1>1. PICK L : AreLevels(g, j, L)
  BY LevelsExist
<1>2. LastAssumption \in Nat /\ K \in Nat /\ 1 <= K /\ D <= MaxDelta(g, j) /\ MaxDelta(g, j) \in Nat
  BY CountAssumption, MaxDeltaType DEF LastAssumption, FirstAssumption
<1>3. D \in Nat
  <2> DEFINE S == Assumed(g, 0) \ g.guarantee[j]
  <2>1. Assumed(g, 0) \in SUBSET State
    BY CountAssumption DEF Assumed, Game, AssumptionIndex
  <2>2. S \in SUBSET State
    BY <2>1
  <2> HIDE DEF S
  <2>3. Cardinality(S) \in Nat
    BY <2>2, StateAssumption, FS_Subset, FS_CardinalityType
  <2> QED
    BY <2>3 DEF S
<1>4. W \subseteq L[D][K]
  <2>1. W \subseteq L[D][1]
    BY <1>1, LevelsEnd
  <2> HIDE DEF D, K
  <2>2. L[D][1] \subseteq L[D][K]
    BY <1>1, <1>2, <1>3, LevelsGrow
  <2> QED
    BY <2>1, <2>2
<1> HIDE DEF W, D
<1> DEFINE round(s) == CHOOSE v \in Nat : s \in L[v][K] /\ \A w \in Nat : s \in L[w][K] => v <= w
           turn(s) == CHOOSE a \in Nat : s \in L[round(s)][a + 1] /\
                                         \A b \in Nat : s \in L[round(s)][b + 1] => a <= b
<1>5. ASSUME NEW s \in W
      PROVE  round(s) \in 0 .. D /\ s \in L[round(s)][K] /\ \A w \in Nat : s \in L[w][K] => round(s) <= w
  <2> DEFINE V == {v \in Nat : s \in L[v][K]}
  <2>1. V \in SUBSET Nat /\ V # {} /\ D \in V
    BY <1>3, <1>4
  <2>2. \E v \in V : \A w \in V : v <= w
    <3> HIDE DEF V
    <3> QED
      BY <2>1, NatLeast
  <2>3. \E v \in Nat : s \in L[v][K] /\ \A w \in Nat : s \in L[w][K] => v <= w
    BY <2>2
  <2> HIDE DEF K
  <2>4. round(s) \in Nat /\ s \in L[round(s)][K] /\ \A w \in Nat : s \in L[w][K] => round(s) <= w
    BY <2>3, Zenon
  <2> HIDE DEF round
  <2>5. round(s) <= D
    BY <2>1, <2>4
  <2> QED
    BY <1>3, <2>4, <2>5
<1> HIDE DEF round
<1>6. ASSUME NEW s \in W
      PROVE  /\ turn(s) \in 0 .. LastAssumption /\ s \in L[round(s)][turn(s) + 1]
             /\ \A b \in Nat : s \in L[round(s)][b + 1] => turn(s) <= b
  <2> DEFINE V == {a \in Nat : s \in L[round(s)][a + 1]}
  <2>1. V \in SUBSET Nat /\ V # {} /\ LastAssumption \in V
    BY <1>2, <1>5
  <2>2. \E v \in V : \A w \in V : v <= w
    <3> HIDE DEF V
    <3> QED
      BY <2>1, NatLeast
  <2>3. \E a \in Nat : s \in L[round(s)][a + 1] /\ \A b \in Nat : s \in L[round(s)][b + 1] => a <= b
    BY <2>2
  <2>4. turn(s) \in Nat /\ s \in L[round(s)][turn(s) + 1] /\ \A b \in Nat : s \in L[round(s)][b + 1] => turn(s) <= b
    BY <2>3, Zenon
  <2> HIDE DEF turn
  <2>5. turn(s) <= LastAssumption
    BY <2>1, <2>4
  <2> QED
    BY <1>2, <2>4, <2>5
<1> HIDE DEF turn
<1> DEFINE r == [s \in W |-> [value |-> round(s), assumption |-> turn(s)]]
<1>7. r \in [W -> [value : 0 .. MaxDelta(g, j), assumption : 0 .. LastAssumption]]
  <2>1. \A s \in W : round(s) \in 0 .. MaxDelta(g, j) /\ turn(s) \in 0 .. LastAssumption
    BY <1>2, <1>3, <1>5, <1>6
  <2> QED
    BY <2>1
<1>8. \A s \in W : /\ r[s].value = round(s) /\ r[s].assumption = turn(s)
                   /\ round(s) \in Nat /\ turn(s) \in Nat
  BY <1>5, <1>6
<1> HIDE DEF r
<1>9. ASSUME NEW s \in W, NEW t \in W,
             round(t) < round(s) \/ (round(t) = round(s) /\ turn(t) < turn(s))
      PROVE  RankingGt(r[s], r[t])
  BY <1>8, <1>9 DEF RankingGt, IsInfinite, RANKING_INFINITY
<1>10. ASSUME NEW s \in W, NEW t \in W,
              round(t) < round(s) \/ (round(t) = round(s) /\ turn(t) <= turn(s))
       PROVE  RankingGeq(r[s], r[t])
  BY <1>8, <1>10 DEF RankingGeq, RankingGt, IsInfinite, RANKING_INFINITY
<1>11. ASSUME NEW s \in W PROVE L[round(s)][turn(s)] \subseteq {t \in W : RankingGt(r[s], r[t])}
  <2> SUFFICES ASSUME NEW t \in L[round(s)][turn(s)] PROVE t \in W /\ RankingGt(r[s], r[t])
    OBVIOUS
  <2>0. round(s) \in Nat /\ turn(s) \in Nat /\ turn(s) <= K
    BY <1>2, <1>6, <1>8
  <2>1. t \in W
    <3> HIDE DEF K
    <3> QED
      BY <1>1, <2>0, LevelsWin DEF W, K
  <2>2. CASE turn(s) = 0
    <3>1. round(s) # 0
      BY <1>1, <2>2 DEF AreLevels
    <3>2. round(s) - 1 \in Nat /\ (round(s) - 1) + 1 = round(s)
      BY <2>0, <3>1
    <3>3. t \in L[round(s) - 1][K]
      BY <1>1, <2>2, <3>2 DEF AreLevels
    <3>4. round(t) <= round(s) - 1
      BY <1>5, <2>1, <3>2, <3>3
    <3>5. round(t) < round(s)
      BY <1>8, <2>0, <2>1, <3>4
    <3> QED
      BY <1>9, <2>1, <3>5
  <2>3. CASE turn(s) # 0
    <3>1. turn(s) - 1 \in Nat /\ (turn(s) - 1) + 1 = turn(s)
      BY <2>0, <2>3
    <3>2. t \in L[round(s)][K]
      <4>1. L[round(s)][turn(s)] \subseteq L[round(s)][K]
        BY <1>1, <1>2, <2>0, LevelsGrow
      <4> QED
        BY <4>1
    <3>3. round(t) <= round(s)
      BY <1>5, <2>0, <2>1, <3>2
    <3>4. round(t) = round(s) => turn(t) <= turn(s) - 1
      <4>1. t \in L[round(s)][(turn(s) - 1) + 1]
        BY <3>1
      <4> QED
        BY <1>6, <2>1, <3>1, <4>1
    <3>5. round(t) < round(s) \/ (round(t) = round(s) /\ turn(t) < turn(s))
      BY <1>8, <2>0, <2>1, <3>3, <3>4
    <3> QED
      BY <1>9, <2>1, <3>5
  <2> QED
    BY <2>2, <2>3
<1>12. ASSUME NEW s \in W PROVE L[round(s)][turn(s) + 1] \subseteq {t \in W : RankingGeq(r[s], r[t])}
  <2> SUFFICES ASSUME NEW t \in L[round(s)][turn(s) + 1] PROVE t \in W /\ RankingGeq(r[s], r[t])
    OBVIOUS
  <2>0. round(s) \in Nat /\ turn(s) \in Nat /\ turn(s) + 1 <= K /\ turn(s) + 1 \in Nat
    BY <1>2, <1>6, <1>8
  <2>1. t \in W
    <3> HIDE DEF K
    <3> QED
      BY <1>1, <2>0, LevelsWin DEF W, K
  <2>2. t \in L[round(s)][K]
    <3>1. L[round(s)][turn(s) + 1] \subseteq L[round(s)][K]
      BY <1>1, <1>2, <2>0, LevelsGrow
    <3> QED
      BY <3>1
  <2>3. round(t) <= round(s)
    BY <1>5, <2>0, <2>1, <2>2
  <2>4. round(t) = round(s) => turn(t) <= turn(s)
    BY <1>6, <2>0, <2>1
  <2>5. round(t) < round(s) \/ (round(t) = round(s) /\ turn(t) <= turn(s))
    BY <1>8, <2>0, <2>1, <2>3, <2>4
  <2> QED
    BY <1>10, <2>1, <2>5
<1>13. RanksReach(g, j, r)
  <2> SUFFICES ASSUME NEW s \in W
               PROVE  s \in Wait(g, W, j, {t \in W : RankingGt(r[s], r[t])}, Assumed(g, r[s].assumption),
                                 {t \in W : RankingGeq(r[s], r[t])})
    BY DEF RanksReach, W
  <2> DEFINE Y == L[round(s)][turn(s)]
             X == L[round(s)][turn(s) + 1]
             P == Assumed(g, turn(s))
             Lower == {t \in W : RankingGt(r[s], r[t])}
             NoHigher == {t \in W : RankingGeq(r[s], r[t])}
  <2>1. X = Waiting(g, W, j, Y, P)
    BY <1>1, <1>8 DEF AreLevels, W
  <2>2. s \in X /\ Wait(g, W, j, Y, P, X) = X
    BY <1>6, <2>1, WaitingIsFixpoint
  <2>3. Y \subseteq Lower /\ X \subseteq NoHigher
    BY <1>11, <1>12
  <2> HIDE DEF Y, X, P, Lower, NoHigher
  <2>4. ControllablePre(g, Y) \subseteq ControllablePre(g, Lower) /\ ControllablePre(g, X) \subseteq ControllablePre(g, NoHigher)
    BY <2>3, PreGrows
  <2>5. s \in Wait(g, W, j, Lower, P, NoHigher)
    BY <2>2, <2>4 DEF Wait, Leaving
  <2> QED
    BY <1>8, <2>5 DEF Lower, NoHigher, P
<1> QED
  BY <1>7, <1>13 DEF W

\* The ranks of the levels, taken for all goals, are a closed ranking.
LEMMA ClosedOnWinning ==
  ASSUME NEW g \in Game, EnoughRanks(g)
  PROVE  \E T \in Ranking(g) :
            IsClosed(g, T) /\ \A j \in Goal, s \in WinningRegion(g) : ~IsInfinite(T[j][s])
<1> DEFINE W == WinningRegion(g)
           Ranks(j) == [W -> [value : 0 .. MaxDelta(g, j), assumption : 0 .. LastAssumption]]
           r(j) == CHOOSE q \in Ranks(j) : RanksReach(g, j, q)
           T == [j \in Goal |-> [s \in State |-> IF s \in W THEN r(j)[s] ELSE Infinite]]
<1>1. W \in SUBSET State
  BY WinningIsFixpoint
<1>2. ASSUME NEW j \in Goal PROVE r(j) \in Ranks(j) /\ RanksReach(g, j, r(j))
  <2>1. \E q \in Ranks(j) : RanksReach(g, j, q)
    BY LevelRanks DEF EnoughRanks
  <2> HIDE DEF W
  <2> QED
    BY <2>1
<1>3. ASSUME NEW s \in W PROVE ~IsDeadlock(g, s) /\ \A o \in g.moves[s] : o \cap W # {}
  BY WinningStays DEF ControllablePre
<1> HIDE DEF W, r
<1>4. ASSUME NEW j \in Goal, NEW s \in State
      PROVE  /\ T[j][s] = (IF s \in W THEN r(j)[s] ELSE Infinite)
             /\ T[j][s] \in RankOf(g, j)
             /\ IsInfinite(T[j][s]) <=> s \notin W
  <2>1. T[j][s] = (IF s \in W THEN r(j)[s] ELSE Infinite)
    OBVIOUS
  <2> HIDE DEF T
  <2>2. CASE s \in W
    <3>1. r(j)[s] \in [value : 0 .. MaxDelta(g, j), assumption : 0 .. LastAssumption]
      BY <1>2, <2>2
    <3>2. r(j)[s].value # RANKING_INFINITY
      BY <3>1, MaxDeltaType DEF RANKING_INFINITY
    <3> QED
      BY <2>1, <2>2, <3>1, <3>2 DEF RankOf, IsInfinite
  <2>3. CASE s \notin W
    BY <2>1, <2>3, RankOfIsRank, InfiniteIsTop
  <2> QED
    BY <2>2, <2>3
<1>5. T \in Ranking(g)
  <2>1. T \in [Goal -> [State -> UNION {RankOf(g, j) : j \in Goal}]]
    <3>1. \A j \in Goal, s \in State : T[j][s] \in UNION {RankOf(g, i) : i \in Goal}
      BY <1>4
    <3>2. T = [j \in Goal |-> [s \in State |-> T[j][s]]]
      OBVIOUS
    <3> HIDE DEF T
    <3> QED
      BY <3>1, <3>2
  <2> HIDE DEF T
  <2> QED
    BY <1>4, <2>1 DEF Ranking
<1>6. IsRanking(g, T)
  BY <1>5, RankingIsRanking
<1> HIDE DEF T
<1>7. ASSUME NEW j \in Goal, NEW s \in W
      PROVE  RankingGeq(T[j][s], Increment(g, s, j, BestSuccessor(g, T, s, j)))
  <2> DEFINE i == TargetGoal(g, s, j)
             best == BestSuccessor(g, T, s, j)
             incr == Increment(g, s, j, best)
             Lower == {t \in W : RankingGt(r(j)[s], r(j)[t])}
             NoHigher == {t \in W : RankingGeq(r(j)[s], r(j)[t])}
             P == Assumed(g, r(j)[s].assumption)
  <2>1. s \in State /\ i \in Goal /\ ~IsDeadlock(g, s)
    BY <1>1, <1>3, TargetGoalType
  <2>2. best \in RankOf(g, i) /\ incr \in RankOf(g, j)
    BY <1>6, <2>1, BestSuccessorValue, IncrementType
  <2>3. PICK o \in g.moves[s] : \A t \in o : RankingGeq(T[i][t], best)
    BY <1>6, <2>1, BestSuccessorValue
  <2>4. /\ T[j][s] \in Rank /\ best \in Rank /\ incr \in Rank /\ ~IsInfinite(T[j][s])
        /\ T[j][s] = r(j)[s] /\ T[j][s] \in RankOf(g, j)
        /\ \A t \in o : t \in State /\ T[i][t] \in Rank
    BY <1>4, <2>1, <2>2, <2>3, RankOfIsRank, MovesType
  <2>5. PICK u \in o : u \in W
    BY <1>3
  <2>6. ~IsInfinite(best)
    BY <1>4, <2>1, <2>3, <2>4, <2>5, InfiniteIsTop
  <2>7. CASE SatisfiesGuarantee(g, s, j)
    <3>1. incr = InitialRank
      BY <2>6, <2>7 DEF Increment
    <3> QED
      BY <2>4, <3>1, InitialRankIsLowest
  <2>8. CASE ~SatisfiesGuarantee(g, s, j)
    <3>1. i = j /\ best \in RankOf(g, j)
      BY <2>2, <2>8 DEF TargetGoal
    <3>2. s \in Wait(g, W, j, Lower, P, NoHigher)
      BY <1>2 DEF RanksReach, W
    <3>3. \A t \in W : t \in State => r(j)[t] = T[j][t]
      BY <1>4
    <3>4. RankingGeq(T[j][s], best) /\ (RankingGt(T[j][s], best) \/ s \notin P)
      <4>1. CASE s \in ControllablePre(g, Lower)
        <5>1. PICK t \in o : t \in Lower
          BY <4>1 DEF ControllablePre
        <5>2. RankingGt(T[j][s], T[j][t]) /\ RankingGeq(T[j][t], best) /\ T[j][t] \in Rank
          BY <2>3, <2>4, <3>1, <3>3, <5>1
        <5> QED
          BY <2>4, <5>2, RankOrder DEF RankingGeq
      <4>2. CASE s \in ControllablePre(g, NoHigher) /\ s \notin P
        <5>1. PICK t \in o : t \in NoHigher
          BY <4>2 DEF ControllablePre
        <5>2. RankingGeq(T[j][s], T[j][t]) /\ RankingGeq(T[j][t], best) /\ T[j][t] \in Rank
          BY <2>3, <2>4, <3>1, <3>3, <5>1
        <5> QED
          BY <2>4, <4>2, <5>2, RankOrder
      <4> QED
        BY <2>8, <3>2, <4>1, <4>2 DEF Wait, Leaving, SatisfiesGuarantee
    <3>5. CASE RankingGt(T[j][s], best)
      <4>1. incr = best \/ \A q \in RankOf(g, j) : RankingGt(q, best) => RankingGeq(q, incr)
        BY <2>1, <2>6, <2>8, <3>1, IncrementIsNext
      <4> QED
        BY <2>4, <3>4, <3>5, <4>1
    <3>6. CASE ~RankingGt(T[j][s], best) /\ s \notin P
      <4>1. T[j][s] = best
        BY <2>4, <3>4, <3>6, RankOrder DEF RankingGeq
      <4>2. ~SatisfiesAssumption(g, s, best.assumption)
        BY <2>1, <2>4, <3>6, <4>1 DEF SatisfiesAssumption, Assumed
      <4>3. incr = best
        BY <2>1, <2>6, <2>8, <3>1, <4>2, IncrementIsNext
      <4> QED
        BY <3>4, <4>3
    <3> QED
      BY <3>4, <3>5, <3>6
  <2> QED
    BY <2>7, <2>8
<1>8. IsClosed(g, T)
  <2>1. \A s \in State, i, j \in Goal : IsInfinite(T[i][s]) <=> IsInfinite(T[j][s])
    BY <1>4
  <2>2. ASSUME NEW s \in State, NEW j \in Goal
        PROVE  IF IsDeadlock(g, s) THEN IsInfinite(T[j][s])
               ELSE RankingGeq(T[j][s], Increment(g, s, j, BestSuccessor(g, T, s, j)))
    <3>1. CASE s \in W
      BY <1>3, <1>7, <3>1
    <3>2. CASE s \notin W /\ IsDeadlock(g, s)
      BY <1>4, <3>2
    <3>3. CASE s \notin W /\ ~IsDeadlock(g, s)
      <4>1. T[j][s] = Infinite
        BY <1>4, <3>3
      <4>2. Increment(g, s, j, BestSuccessor(g, T, s, j)) \in Rank
        BY <1>6, <3>3, BestSuccessorValue, IncrementType, RankOfIsRank, TargetGoalType
      <4> QED
        BY <3>3, <4>1, <4>2, InfiniteIsTop
    <3> QED
      BY <3>1, <3>2, <3>3
  <2> QED
    BY <2>1, <2>2 DEF IsClosed
<1> QED
  BY <1>1, <1>4, <1>5, <1>8 DEF W

\* With Unlisted empty and an assumption, max_delta is never too low.
LEMMA ListedIsEnough ==
  ASSUME Unlisted = {}, AssumptionsCount # 0, NEW g \in Game
  PROVE  EnoughRanks(g)
<1> SUFFICES ASSUME NEW j \in Goal
             PROVE  Cardinality(Assumed(g, FirstAssumption) \ g.guarantee[j]) <= MaxDelta(g, j)
  BY DEF EnoughRanks
<1> DEFINE P == g.assumption[0]
           G == g.guarantee[j]
<1>1. 0 \in AssumptionIndex /\ Assumed(g, FirstAssumption) = P
  BY CountAssumption DEF AssumptionIndex, Assumed, FirstAssumption
<1>2. P \in SUBSET State /\ G \in SUBSET State
  BY <1>1 DEF Game
<1>3. Listed(P) = P /\ Listed(G) = G
  BY DEF Listed
<1>4. Delta(g, j, 0) <= MaxDelta(g, j)
  <2> DEFINE deltas == {Delta(g, j, k) : k \in AssumptionIndex}
  <2>1. \E d \in deltas : \A k \in AssumptionIndex : Delta(g, j, k) <= d
    <3>1. /\ Cardinality(State) \in Nat
          /\ \A S \in SUBSET State : Cardinality(S) \in Nat /\ Cardinality(S) <= Cardinality(State)
      BY StateAssumption, FS_Subset, FS_CardinalityType
    <3>2. \A k \in AssumptionIndex : Delta(g, j, k) \in Nat /\ Delta(g, j, k) <= Cardinality(State)
      <4> TAKE k \in AssumptionIndex
      <4>1. /\ Listed(g.assumption[k]) \ Listed(G) \in SUBSET State
            /\ Listed(G) \ Listed(g.assumption[k]) \in SUBSET State
        BY <1>2 DEF Game, Listed
      <4> QED
        BY <3>1, <4>1 DEF Delta
    <3>3. deltas \in SUBSET Nat /\ (\A d \in deltas : d <= Cardinality(State)) /\ deltas # {}
      BY <1>1, <3>2
    <3>4. \E d \in deltas : \A e \in deltas : e <= d
      <4> HIDE DEF deltas
      <4> QED
        BY <3>1, <3>3, NatGreatest
    <3> QED
      BY <3>4
  <2>2. \A k \in AssumptionIndex : Delta(g, j, k) <= MaxDelta(g, j)
    <3> HIDE DEF P, G
    <3> QED
      BY <2>1 DEF MaxDelta
  <2> QED
    BY <1>1, <2>2
<1>5. IsFiniteSet(P) /\ IsFiniteSet(G)
  BY <1>2, StateAssumption, FS_Subset
<1> HIDE DEF P, G
<1>6. Cardinality(P \ G) <= Delta(g, j, 0)
  <2>1. CASE Cardinality(P) > Cardinality(G)
    <3>1. Delta(g, j, 0) = Cardinality(P \ G)
      BY <1>3, <2>1 DEF Delta, P, G
    <3>2. Cardinality(P \ G) \in Nat
      <4>1. IsFiniteSet(P \ G)
        BY <1>5, FS_Difference
      <4> QED
        BY <4>1, FS_CardinalityType
    <3> QED
      BY <3>1, <3>2
  <2>2. CASE ~(Cardinality(P) > Cardinality(G))
    <3>1. Delta(g, j, 0) = Cardinality(G \ P)
      BY <1>3, <2>2 DEF Delta, P, G
    <3>2. Cardinality(P \ G) = Cardinality(P) - Cardinality(P \cap G)
      BY <1>5, FS_Difference
    <3>3. Cardinality(G \ P) = Cardinality(G) - Cardinality(P \cap G)
      <4>1. Cardinality(G \ P) = Cardinality(G) - Cardinality(G \cap P)
        BY <1>5, FS_Difference
      <4>2. P \cap G = G \cap P
        OBVIOUS
      <4> QED
        BY <4>1, <4>2, Zenon
    <3>4. Cardinality(P) \in Nat /\ Cardinality(G) \in Nat /\ Cardinality(P \cap G) \in Nat
      <4>1. IsFiniteSet(P \cap G)
        BY <1>5, FS_Intersection
      <4> QED
        BY <1>5, <4>1, FS_CardinalityType
    <3>5. Cardinality(P \ G) <= Cardinality(G \ P)
      BY <2>2, <3>2, <3>3, <3>4
    <3> QED
      BY <3>1, <3>5
  <2> QED
    BY <2>1, <2>2
<1>7. Cardinality(P \ G) \in Nat /\ Delta(g, j, 0) \in Int /\ MaxDelta(g, j) \in Int
  <2>1. IsFiniteSet(P \ G) /\ IsFiniteSet(G \ P)
    BY <1>5, FS_Difference
  <2>2. Cardinality(P \ G) \in Nat /\ Cardinality(G \ P) \in Nat
    BY <2>1, FS_CardinalityType
  <2> QED
    BY <1>3, <2>2, MaxDeltaType DEF Delta, P, G
<1> QED
  BY <1>1, <1>4, <1>6, <1>7 DEF P, G

\* The loop never passes the ranks of the levels, so no winning state loses.
LEMMA EnoughIsExact ==
  ASSUME IInv, BelowEveryClosedRanking, EnoughRanks(game)
  PROVE  ComputesWinningRegion
<1>1. TypeOK /\ game \in Game
  BY TypeFacts DEF IInv
<1>2. PICK T \in Ranking(game) :
         IsClosed(game, T) /\ \A j \in Goal, s \in WinningRegion(game) : ~IsInfinite(T[j][s])
  BY <1>1, ClosedOnWinning
<1>3. Below(rank, T)
  BY <1>2 DEF BelowEveryClosedRanking
<1>4. \A j \in Goal, s \in State : rank[j][s] \in Rank /\ T[j][s] \in Rank
  BY <1>1, TypeFacts, RankingIsRanking DEF IsRanking
<1>5. WinningRegion(game) \subseteq Winners
  <2> SUFFICES ASSUME NEW s \in WinningRegion(game) PROVE s \in Winners
    OBVIOUS
  <2>1. s \in State
    BY WinningIsFixpoint
  <2>2. \A j \in Goal : ~IsInfinite(rank[j][s])
    BY <1>2, <1>3, <1>4, <2>1, InfiniteIsTop DEF Below
  <2> QED
    BY <2>1, <2>2 DEF Winners, IsWinning
<1> QED
  BY <1>5, ClosedIsSound DEF WinnersCanWin, ComputesWinningRegion

(****************************************************************************)
(* Where max_delta leaves every state that meets the first assumption but   *)
(* not the goal a value of its own, the loop finds the winning region, in   *)
(* every order of the worklist: the only way for automaton_get_gr1_strategy *)
(* to give up a winning state is a max_delta that is too low.               *)
(****************************************************************************)
THEOREM RangeDecides == Spec => [](EnoughRanks(game) => ComputesWinningRegion)
<1>1. Spec => []BelowEveryClosedRanking
  BY InitBelow, NextBelow, Invariant, PTL DEF Spec
<1>2. IInv /\ BelowEveryClosedRanking => (EnoughRanks(game) => ComputesWinningRegion)
  BY EnoughIsExact
<1> QED
  BY <1>1, <1>2, Invariant, PTL

\* And it is never too low when there is an assumption and every state is listed: the
\* solver decides realizability.
THEOREM SolverIsExact ==
  ASSUME Unlisted = {}, AssumptionsCount # 0
  PROVE  Spec => []ComputesWinningRegion
<1>1. IInv => EnoughRanks(game)
  BY ListedIsEnough, TypeFacts DEF IInv
<1> QED
  BY <1>1, RangeDecides, Invariant, PTL

=============================================================================
