----------------------------- MODULE Minimisation -----------------------------
(****************************************************************************)
(* What the diagnosis promises about an unrealizable game: a part of the    *)
(* game that is still unrealizable and loses that as soon as one more       *)
(* option of the environment is taken away.  Options go until none can.     *)
(****************************************************************************)
EXTENDS GR1Game

CONSTANTS
  InitialState,      \* initial_states[0]
  RealizableGames    \* the games, and parts of games, the solver finds realizable

VARIABLES
  game,     \* the game the diagnosis starts from
  moves,    \* the options that are left, by state
  ended

vars == <<game, moves, ended>>

\* A game whose initial state has no transition left does not count as unrealizable.
Realizable(g, m) ==
  m[InitialState] = {} \/ [g EXCEPT !.moves = m] \in RealizableGames

\* The part of the game that the initial state leads to.
Reached(m) ==
  LET Closed(X) == \A s \in X : UNION m[s] \subseteq X
      closed == {X \in SUBSET State : InitialState \in X /\ Closed(X)}
  IN  {s \in State : \A X \in closed : s \in X}
CleanUp(m) == [s \in State |-> IF s \in Reached(m) THEN m[s] ELSE {}]

Without(m, s, o) == CleanUp([m EXCEPT ![s] = @ \ {o}])

\* No option can go but the last one of a state.
IsMinimal(g, m) ==
  \A s \in State, o \in Option :
    o \in m[s] /\ m[s] # {o} => Realizable(g, Without(m, s, o))

Init ==
  /\ game \in Game
  /\ moves = CleanUp(game.moves)
  /\ ~Realizable(game, moves)
  /\ ended = FALSE

Reduce ==
  /\ ~ended
  /\ moves' # moves
  /\ \A s \in State : moves'[s] \subseteq moves[s]
  /\ \A s \in Reached(moves') : moves[s] # {} => moves'[s] # {}
  /\ ~Realizable(game, moves')
  /\ UNCHANGED <<game, ended>>

Finish ==
  /\ ~ended
  /\ IsMinimal(game, moves)
  /\ ended' = TRUE
  /\ UNCHANGED <<game, moves>>

Next == Reduce \/ Finish

Spec == Init /\ [][Next]_vars

=============================================================================
