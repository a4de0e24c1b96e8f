----------------------------- MODULE MCDiagnosis -----------------------------
(****************************************************************************)
(* Games of four states with up to nine option groups: a centre and a ring. *)
(* The guarantee is never satisfied, so the environment wins where it gets  *)
(* three assumptions met for ever, which may take several options of one    *)
(* state in turn: minimal games keep more than one.                         *)
(****************************************************************************)
EXTENDS Diagnosis, GR1Winning

MCState == 0 .. 3
Following(s) == (s % 3) + 1

Menu(s) ==
  IF s = 0
  THEN {{{a} : a \in T} : T \in SUBSET (1 .. 3)} \cup {{{1, 2}, {3}}, {{1}, {2, 3}}}
  ELSE {{{0}}, {{0}, {Following(s)}}, {{Following(s)}, {0, Following(s)}}}
       \cup (IF s = 3 THEN {{}} ELSE {})

GamesOver(Moves(_)) ==
  {[moves      |-> [s \in State |-> m[s + 1]],
    assumption |-> [k \in AssumptionIndex |-> {k + 1}],
    guarantee  |-> [j \in Goal |-> {}]] :
     m \in Moves(0) \X Moves(1) \X Moves(2) \X Moves(3)}

AllGames == GamesOver(Menu)
MCGames == AllGames

\* The searches only ask about parts of these games.
MenuOfParts(s) == UNION {SUBSET m : m \in Menu(s)}
Solved ==
  UNION {IF InitialState \in WinningRegion(g) THEN {g} ELSE {} : g \in GamesOver(MenuOfParts)}
MCRealizableGames == Solved

=============================================================================
