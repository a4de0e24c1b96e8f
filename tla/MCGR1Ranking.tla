----------------------------- MODULE MCGR1Ranking -----------------------------
(****************************************************************************)
(* The ranking loop on small games, its answer compared with the winning    *)
(* region.                                                                  *)
(****************************************************************************)
EXTENDS GR1Ranking, GR1SmallGames

MCGames ==
  GamesOver([State -> Menu], {f \in [State -> Profile] : \A s, t \in State : s < t => f[s] <= f[t]})

\* Games no transition of which enters the initial state 0.
MCGamesNotEntering0 == {g \in MCGames : \A s \in State : \A o \in g.moves[s] : 0 \notin o}

=============================================================================
