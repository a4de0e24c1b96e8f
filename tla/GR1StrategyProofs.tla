-------------------------- MODULE GR1StrategyProofs --------------------------
(****************************************************************************)
(* Why the strategies are right: the rankings they follow are stable, so    *)
(* every option of the environment has an answer that keeps the promise of  *)
(* the current rank.                                                        *)
(****************************************************************************)
EXTENDS GR1Strategy, GR1RankingProofs

\* The inductive invariant of a play: it only starts when the rankings are stable.
SInv ==
  /\ IInv
  /\ StrategyTypeOK
  /\ Started => pending = {}
  /\ StaysWinning

-----------------------------------------------------------------------------
\* A step of the loop that is not a step of the play.
LEMMA StabilisePreserves ==
  ASSUME SInv, Stabilise
  PROVE  SInv'
<1>1. IInv'
  BY NextInvariant DEF SInv, Stabilise
<1>2. pending # {}
  BY DEF Stabilise, Next, Process, SkipInfinite, SkipStable, Lift, LiftToInfinity
<1>3. ~Started /\ ~Started'
  BY <1>2 DEF SInv, Stabilise, Started
<1>4. StrategyTypeOK'
  BY <1>1 DEF SInv, StrategyTypeOK, IInv, Stabilise
<1> QED
  BY <1>1, <1>3, <1>4 DEF SInv, StaysWinning

\* A strategy starts in a state whose ranks are all finite.
LEMMA StartPreserves ==
  ASSUME SInv, NEW s \in State, Start(s)
  PROVE  SInv'
<1>1. IInv' /\ pending' = {} /\ TypeOK'
  <2>1. UNCHANGED vars /\ pending' = {}
    BY DEF Start, vars
  <2>2. IInv'
    BY <2>1, NextInvariant DEF SInv
  <2> QED
    BY <2>1, <2>2 DEF IInv
<1>2. 0 \in Goal
  BY CountAssumption DEF Goal
<1>3. play' = <<s, 0>> /\ game' = game /\ rank' = rank
  BY DEF Start, vars
<1>4. ~IsInfinite(rank[0][s])
  BY <1>2 DEF Start, IsWinning
<1>5. ~IsDeadlock(game, s)
  BY <1>2, <1>4 DEF SInv, IInv, DeadlocksLose
<1>6. StrategyTypeOK'
  <2>1. turn' \in BOOLEAN
    BY DEF SInv, StrategyTypeOK, Start
  <2>2. play' \in StrategyState
    BY <1>2, <1>3 DEF StrategyState
  <2> QED
    BY <1>1, <2>1, <2>2 DEF StrategyTypeOK
<1>7. StaysWinning'
  BY <1>3, <1>4, <1>5 DEF StaysWinning, CurrentState, CurrentGoal
<1> QED
  BY <1>1, <1>6, <1>7 DEF SInv

\* The goal after a move is that of the rankings, unless the state satisfies its goal unlisted.
LEMMA NextGoalFacts ==
  ASSUME TypeOK, NEW s \in State, NEW j \in Goal
  PROVE  /\ NextGoal(s, j) \in Goal
         /\ NextGoal(s, j) = TargetGoal(game, s, j) \/ SatisfiesGuarantee(game, s, j)
<1>1. TargetGoal(game, s, j) \in Goal
  BY TargetGoalType
<1>2. NextGoal(s, j) = TargetGoal(game, s, j) \/ (NextGoal(s, j) = j /\ SatisfiesGuarantee(game, s, j))
  BY DEF NextGoal, TargetGoal, SatisfiesGuarantee, Listed
<1> QED
  BY <1>1, <1>2

\* What the strategy's answer is worth: no more than the best successor, and never lost.
LEMMA AnswerIsBest ==
  ASSUME SInv, NEW o \in Option, Answer(o)
  PROVE  LET s == CurrentState
             j == CurrentGoal
             i == NextGoal(s, j)
         IN  /\ s \in State /\ j \in Goal /\ i \in Goal
             /\ ~IsDeadlock(game, s) /\ ~IsInfinite(rank[j][s]) /\ IsStable(game, rank, s, j)
             /\ \E t \in State :
                  /\ play' = <<t, i>>
                  /\ ~IsInfinite(rank[i][t])
                  /\ \/ RankingGeq(BestSuccessor(game, rank, s, j), rank[i][t])
                     \/ SatisfiesGuarantee(game, s, j)
<1> DEFINE s == CurrentState
           j == CurrentGoal
           i == NextGoal(s, j)
           target == TargetGoal(game, s, j)
           best == BestSuccessor(game, rank, s, j)
<1>1. Started /\ o \in game.moves[s] /\ TypeOK /\ LosesForAllGoals
  BY DEF Answer, SInv, IInv
<1>2. s \in State /\ j \in Goal
  BY <1>1 DEF SInv, StrategyTypeOK, StrategyState, Started, CurrentState, CurrentGoal
<1>3. i \in Goal /\ target \in Goal /\ (i = target \/ SatisfiesGuarantee(game, s, j))
  BY <1>1, <1>2, NextGoalFacts, TargetGoalType
<1>4. ~IsDeadlock(game, s) /\ ~IsInfinite(rank[j][s])
  BY <1>1 DEF SInv, StaysWinning
<1>5. IsStable(game, rank, s, j)
  BY <1>1, <1>2 DEF SInv, IInv, UnstableIsPending, Answer
<1>6. best \in Rank /\ ~IsInfinite(best)
  BY <1>1, <1>2, <1>4, <1>5, BestIsFinite
<1>7. PICK t \in o : KeepsTarget(s, j, o, t) /\ play' = <<t, i>>
  BY DEF Answer
<1>8. PICK u \in o : RankingGeq(best, rank[target][u])
  BY <1>1, <1>2, <1>4, TypeFacts, BestSuccessorValue
<1>9. t \in State /\ u \in State
  BY <1>1, <1>2, TypeFacts, MovesType
<1>10. rank[target][u] \in Rank /\ rank[i][t] \in Rank /\ rank[i][u] \in Rank
  BY <1>1, <1>3, <1>9, TypeFacts, RankOfIsRank
<1>11. ~IsInfinite(rank[i][u])
  <2>1. ~IsInfinite(rank[target][u])
    BY <1>6, <1>8, <1>10, InfiniteIsTop
  <2> QED
    BY <1>1, <1>3, <1>9, <2>1 DEF LosesForAllGoals
<1>12. RankingGeq(rank[i][u], rank[i][t])
  BY <1>7 DEF KeepsTarget
<1>13. ~IsInfinite(rank[i][t])
  BY <1>10, <1>11, <1>12, InfiniteIsTop
<1>14. i = target => RankingGeq(best, rank[i][t])
  BY <1>6, <1>8, <1>10, <1>12, RankOrder
<1> QED
  BY <1>2, <1>3, <1>4, <1>5, <1>7, <1>9, <1>13, <1>14

\* An answer leads to a state that is still winning.
LEMMA AnswerPreserves ==
  ASSUME SInv, NEW o \in Option, Answer(o)
  PROVE  SInv'
<1> DEFINE s == CurrentState
           j == CurrentGoal
           i == NextGoal(s, j)
<1>1. IInv' /\ TypeOK /\ TypeOK' /\ pending' = {}
  BY NextInvariant DEF SInv, Answer, IInv, vars
<1>2. game' = game /\ rank' = rank
  BY DEF Answer, vars
<1>3. i \in Goal
  BY AnswerIsBest
<1>4. PICK t \in State : play' = <<t, i>> /\ ~IsInfinite(rank[i][t])
  BY AnswerIsBest
<1>5. ~IsDeadlock(game, t)
  BY <1>3, <1>4 DEF SInv, IInv, DeadlocksLose
<1>6. turn' \in BOOLEAN
  BY DEF Answer
<1>7. StrategyTypeOK'
  BY <1>1, <1>3, <1>4, <1>6 DEF StrategyTypeOK, StrategyState
<1>8. StaysWinning'
  BY <1>2, <1>4, <1>5 DEF StaysWinning, CurrentState, CurrentGoal
<1> QED
  BY <1>1, <1>7, <1>8 DEF SInv

\* Every behaviour of loop and play keeps the invariant.
THEOREM PlayInvariant == StrategySpec => []SInv
<1>1. StrategyInit => SInv
  BY InitInvariant DEF StrategyInit, SInv, StrategyTypeOK, StaysWinning, Started, IInv
<1>2. SInv /\ [StrategyNext]_strategyVars => SInv'
  <2> SUFFICES ASSUME SInv, [StrategyNext]_strategyVars PROVE SInv'
    OBVIOUS
  <2>1. CASE UNCHANGED strategyVars
    <3>1. UNCHANGED vars
      BY <2>1 DEF strategyVars, vars
    <3>2. IInv'
      BY <3>1, NextInvariant DEF SInv
    <3> QED
      BY <2>1, <3>2 DEF SInv, strategyVars, StrategyTypeOK, StaysWinning, Started, CurrentState,
                        CurrentGoal, IInv
  <2> QED
    BY <2>1, StabilisePreserves, StartPreserves, AnswerPreserves DEF StrategyNext, Play
<1> QED
  BY <1>1, <1>2, PTL DEF StrategySpec

\* The variables keep their type.
THEOREM StrategyTypeCorrect == StrategySpec => []StrategyTypeOK
<1>1. SInv => StrategyTypeOK
  BY DEF SInv
<1> QED
  BY <1>1, PlayInvariant, PTL

\* A play of the strategy never gets to a losing state nor gets stuck.
THEOREM StrategyIsSafe == StrategySpec => []StaysWinning
<1>1. SInv => StaysWinning
  BY DEF SInv
<1> QED
  BY <1>1, PlayInvariant, PTL

(****************************************************************************)
(* Until a play reaches its goal its rank never rises, and falls whenever   *)
(* the assumption it waits for is met.                                      *)
(****************************************************************************)
THEOREM StrategyDescends == StrategySpec => RankDescends
<1>1. ASSUME SInv, NEW o \in Option, Answer(o) PROVE RankFalls
  <2> DEFINE s == CurrentState
             j == CurrentGoal
             i == NextGoal(s, j)
             best == BestSuccessor(game, rank, s, j)
  <2> SUFFICES ASSUME ~SatisfiesGuarantee(game, s, j)
               PROVE  /\ CurrentGoal' = j
                      /\ RankingGeq(rank[j][s], rank[j][CurrentState'])
                      /\ SatisfiesAssumption(game, s, rank[j][s].assumption) =>
                           RankingGt(rank[j][s], rank[j][CurrentState'])
    BY DEF RankFalls
  <2>1. /\ s \in State /\ j \in Goal
        /\ ~IsDeadlock(game, s) /\ ~IsInfinite(rank[j][s]) /\ IsStable(game, rank, s, j)
    BY <1>1, AnswerIsBest
  <2>2. i = j
    BY DEF NextGoal, SatisfiesGuarantee, Listed
  <2>3. PICK t \in State : play' = <<t, j>> /\ RankingGeq(best, rank[j][t])
    BY <1>1, <2>2, AnswerIsBest
  <2>4. CurrentState' = t /\ CurrentGoal' = j
    BY <2>3 DEF CurrentState, CurrentGoal
  <2>5. best \in Rank /\ rank[j][t] \in Rank /\ rank[j][s] \in Rank
    BY <1>1, <2>1, <2>3, TypeFacts, BestIsFinite, RankOfIsRank DEF SInv, IInv
  <2>6. IF SatisfiesAssumption(game, s, rank[j][s].assumption)
        THEN RankingGt(rank[j][s], best) ELSE RankingGeq(rank[j][s], best)
    BY <2>1 DEF IsStable
  <2>7. RankingGeq(rank[j][s], best)
    BY <2>5, <2>6, RankOrder DEF RankingGeq
  <2>8. RankingGeq(rank[j][s], rank[j][t])
    BY <2>3, <2>5, <2>7, RankOrder
  <2>9. RankingGt(rank[j][s], best) => RankingGt(rank[j][s], rank[j][t])
    BY <2>3, <2>5, RankOrder DEF RankingGeq
  <2> QED
    BY <2>4, <2>6, <2>8, <2>9
<1>2. ASSUME SInv, NEW s \in State, Start(s) PROVE RankFalls
  BY <1>2 DEF Start, RankFalls
<1>3. SInv /\ [StrategyNext]_strategyVars => [RankFalls]_<<play, turn>>
  BY <1>1, <1>2 DEF StrategyNext, Play, Stabilise, strategyVars
<1> QED
  BY <1>3, PlayInvariant, PTL DEF StrategySpec, RankDescends

-----------------------------------------------------------------------------
\* The states that a play of the strategy passes are in the winning region.
THEOREM PlaysWin == StrategySpec => [](Started => CurrentState \in WinningRegion(game))
<1>1. SInv => (Started => CurrentState \in WinningRegion(game))
  <2> SUFFICES ASSUME SInv, Started PROVE CurrentState \in WinningRegion(game)
    OBVIOUS
  <2>1. IInv /\ pending = {} /\ ~IsInfinite(rank[CurrentGoal][CurrentState])
    BY DEF SInv, StaysWinning
  <2>2. CurrentState \in State /\ CurrentGoal \in Goal
    BY DEF SInv, StrategyTypeOK, StrategyState, Started, CurrentState, CurrentGoal
  <2>3. CurrentState \in Winners
    BY <2>1, <2>2 DEF Winners, IsWinning, IInv, LosesForAllGoals
  <2> QED
    BY <2>1, <2>3, ClosedIsSound DEF WinnersCanWin
<1> QED
  BY <1>1, PlayInvariant, PTL

=============================================================================
