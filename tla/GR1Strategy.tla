----------------------------- MODULE GR1Strategy -----------------------------
(****************************************************************************)
(* The strategy that automaton_get_gr1_strategy builds out of the           *)
(* stabilised rankings, played against every environment.  A state of the   *)
(* strategy automaton is a game state together with the goal it is trying   *)
(* to satisfy (strategy_maps); for every option of the environment it keeps *)
(* one transition, to a target of lowest rank.                              *)
(*                                                                          *)
(* The C code keeps the first such target in the order of transitions; here *)
(* a play may take any of them, every time it passes.                       *)
(****************************************************************************)
EXTENDS GR1Ranking

VARIABLES
  play,   \* the strategy state a play is in, <<>> before it starts
  turn    \* alternates with every move, so that a move along a self-loop is a step

strategyVars == <<game, rank, pending, play, turn>>

NotStarted == <<>>
StrategyState == State \X Goal
Started == play # NotStarted
CurrentState == play[1]
CurrentGoal == play[2]

StrategyInit == Init /\ play = NotStarted /\ turn = FALSE

Stabilise == Next /\ UNCHANGED <<play, turn>>

\* Mutant: the strategy starts after the last goal.
StartPastGoals(s) ==
  /\ pending = {}
  /\ ~Started
  /\ IsWinning(s)
  /\ play' = <<s, GuaranteesCount>>
  /\ UNCHANGED <<vars, turn>>

\* The stabilised loop finds the initial state s winning: strategies start at goal 0.
Start(s) ==
  /\ pending = {}
  /\ ~Started
  /\ IsWinning(s)
  /\ play' = <<s, 0>>
  /\ UNCHANGED <<vars, turn>>

\* The goal after a move from s.  The strategy looks s up in the guarantee's list, where
\* the rankings look at the valuations: an initial state that is not listed keeps its goal.
NextGoal(s, j) == IF s \in Listed(game.guarantee[j]) THEN (j + 1) % GuaranteesCount ELSE j

\* Mutants: any target, and any target of finite rank.
KeepsAnyTarget(s, j, o, t) == t \in o
KeepsAnyWinningTarget(s, j, o, t) ==
  t \in o /\ ~IsInfinite(rank[NextGoal(s, j)][t])

\* The target the strategy keeps for an option of state s, when after goal j.
KeepsTarget(s, j, o, t) ==
  LET ranking == rank[NextGoal(s, j)]
  IN  t \in o /\ \A u \in o : RankingGeq(ranking[u], ranking[t])

\* Mutant: the strategy goes on after the same goal.
AnswerWithSameGoal(o) ==
  /\ Started
  /\ o \in game.moves[CurrentState]
  /\ \E t \in o :
       /\ KeepsTarget(CurrentState, CurrentGoal, o, t)
       /\ play' = <<t, CurrentGoal>>
  /\ turn' = ~turn
  /\ UNCHANGED vars

\* The environment picks option o and the strategy answers.
Answer(o) ==
  /\ Started
  /\ o \in game.moves[CurrentState]
  /\ \E t \in o :
       /\ KeepsTarget(CurrentState, CurrentGoal, o, t)
       /\ play' = <<t, NextGoal(CurrentState, CurrentGoal)>>
  /\ turn' = ~turn
  /\ UNCHANGED vars

Play == \E o \in Option : Answer(o)

StrategyNext == Stabilise \/ (\E s \in State : Start(s)) \/ Play

\* A play goes on as long as it can.
StrategySpec == StrategyInit /\ [][StrategyNext]_strategyVars /\ WF_strategyVars(StrategyNext)

-----------------------------------------------------------------------------
\* The loop's variables keep their type and a play is in a state of the strategy.
StrategyTypeOK ==
  TypeOK /\ play \in StrategyState \cup {NotStarted} /\ turn \in BOOLEAN

\* A play never gets to a state that the rankings gave up, so it never gets stuck.
StaysWinning ==
  Started => ~IsInfinite(rank[CurrentGoal][CurrentState]) /\ ~IsDeadlock(game, CurrentState)

(****************************************************************************)
(* While a play is after goal j its rank never rises, and it falls whenever *)
(* the play passes a state that satisfies the assumption its rank waits for:*)
(* the goal is reached or some assumption is met finitely often.            *)
(****************************************************************************)
RankFalls ==
  LET s == CurrentState
      j == CurrentGoal
      before == rank[j][s]
      after == rank[j][CurrentState']
  IN  Started /\ ~SatisfiesGuarantee(game, s, j) =>
        /\ CurrentGoal' = j
        /\ RankingGeq(before, after)
        /\ SatisfiesAssumption(game, s, before.assumption) => RankingGt(before, after)
RankDescends == [][RankFalls]_<<play, turn>>

Meets(S) == Started /\ CurrentState \in S

\* Every play of the strategy satisfies the GR(1) specification.
RealisesSpecification ==
  (<>Started /\ \A a \in AssumptionIndex : []<>Meets(game.assumption[a]))
    => \A j \in Goal : []<>Meets(game.guarantee[j])

=============================================================================
