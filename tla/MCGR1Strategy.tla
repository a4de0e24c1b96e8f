---------------------------- MODULE MCGR1Strategy ----------------------------
(****************************************************************************)
(* The strategy on small games.  The rankings do not depend on the order of *)
(* the worklist (theorem LeastRanking), so the loop takes one order here.   *)
(* An initial state that satisfies the first guarantee and that nothing     *)
(* enters leads into every game of two states: no list has it.              *)
(****************************************************************************)
EXTENDS GR1Strategy, GR1SmallGames

InnerMenu == {menu \in Menu : \A o \in menu : 0 \notin o}
InitialMoves == {{{1}}, {{1, 2}}, {{1}, {2}}}
InitialProfile == {2 ^ AssumptionsCount, 2 ^ (AssumptionsCount + 1) - 1}

MCGamesFrom0 ==
  GamesOver({f \in [State -> InnerMenu] : f[0] \in InitialMoves},
            {f \in [State -> Profile] : f[0] \in InitialProfile /\ f[1] <= f[2]})

StabiliseInOrder ==
  /\ pending # {}
  /\ LET p == CHOOSE q \in pending : TRUE
     IN  Process(p[1], p[2])
  /\ UNCHANGED <<play, turn>>

MCNext == StabiliseInOrder \/ (\E s \in State : Start(s)) \/ Play

MCSpec == StrategyInit /\ [][MCNext]_strategyVars /\ WF_strategyVars(MCNext)

=============================================================================
