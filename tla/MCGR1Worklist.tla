---------------------------- MODULE MCGR1Worklist ----------------------------
(* The worklist loop on small games. *)
EXTENDS GR1Worklist, GR1SmallGames

MCGames ==
  GamesOver([State -> Menu], {f \in [State -> Profile] : \A s, t \in State : s < t => f[s] <= f[t]})

=============================================================================
