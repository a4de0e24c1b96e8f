------------------------------ MODULE GR1Winning ------------------------------
(****************************************************************************)
(* What the ranking algorithm is for, stated without rankings: the winning  *)
(* region of a GR(1) game as nested fixpoints (Theorem "Stability solves    *)
(* realizability" of doc/definitions/clts_gr1.tex).  Fixpoints of monotone  *)
(* operators on the subsets of State are reached in |State| steps.          *)
(****************************************************************************)
EXTENDS GR1Game

Iterate(F(_), start) ==
  LET after[n \in Nat] == IF n = 0 THEN start ELSE F(after[n - 1])
  IN  after[Cardinality(State)]
GreatestFixpoint(F(_)) == Iterate(F, State)
LeastFixpoint(F(_)) == Iterate(F, {})

\* The states from which the controller can force the next state into X.
ControllablePre(g, X) ==
  {s \in State : ~IsDeadlock(g, s) /\ \A o \in g.moves[s] : o \cap X # {}}

\* Without assumptions the environment owes nothing: one assumption, always true.
AssumptionSets(g) ==
  IF AssumptionsCount = 0 THEN {State} ELSE {g.assumption[k] : k \in AssumptionIndex}

(****************************************************************************)
(* From Reach the controller either meets guarantee j and stays in Z, or    *)
(* gets nearer to it (to Y), or the assumption P is never met again.        *)
(****************************************************************************)
Leaving(g, Z, j, Y) == (g.guarantee[j] \cap ControllablePre(g, Z)) \cup ControllablePre(g, Y)
Waiting(g, Z, j, Y, P) ==
  LET leaving == Leaving(g, Z, j, Y)
  IN  GreatestFixpoint(LAMBDA X : leaving \cup (ControllablePre(g, X) \ P))

Nearer(g, Z, j, Y) == UNION {Waiting(g, Z, j, Y, P) : P \in AssumptionSets(g)}
Reach(g, Z, j) == LeastFixpoint(LAMBDA Y : Nearer(g, Z, j, Y))

Keep(g, Z) == State \ UNION {State \ Reach(g, Z, j) : j \in Goal}
WinningRegion(g) == GreatestFixpoint(LAMBDA Z : Keep(g, Z))

=============================================================================
