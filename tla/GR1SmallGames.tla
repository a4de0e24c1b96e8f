---------------------------- MODULE GR1SmallGames ----------------------------
(****************************************************************************)
(* The games the model checker runs the algorithms on: every game over a    *)
(* few states whose moves come from a menu, one game per class of games     *)
(* that differ only in the names of the states.                             *)
(****************************************************************************)
EXTENDS GR1Game

CONSTANT Size        \* the number of states
CONSTANT MaxChoice   \* the largest number of targets the controller chooses from

MCState == 0 .. Size - 1

\* A deadlock, a choice of the controller, or a choice of the environment.
Menu ==
  {{}} \cup {{o} : o \in {p \in Option : Cardinality(p) <= MaxChoice}}
       \cup {{{a}, {b}} : a \in State, b \in State}

\* Which sets a state belongs to, as the bits of a number.
Profile == 0 .. 2 ^ (AssumptionsCount + GuaranteesCount) - 1
Bit(n, k) == (n \div 2 ^ k) % 2 = 1

\* The games with moves in M and profiles in P.
GamesOver(M, P) ==
  {[moves      |-> m,
    assumption |-> [k \in AssumptionIndex |-> {s \in State : Bit(p[s], k)}],
    guarantee  |-> [j \in Goal |-> {s \in State : Bit(p[s], AssumptionsCount + j)}]] :
     m \in M, p \in P}

=============================================================================
