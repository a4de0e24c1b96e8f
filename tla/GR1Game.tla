------------------------------- MODULE GR1Game -------------------------------
(****************************************************************************)
(* The two-player game that automaton_gr1.c solves, and the arithmetic of   *)
(* the rankings (progress measures) it computes.                            *)
(*                                                                          *)
(* A game automaton offers, in every state, one option per valuation of the *)
(* monitored signals; the environment picks the option and the controller   *)
(* picks one of the transitions that carry it.  Transitions are abstracted  *)
(* to their target states, so an option is a non-empty set of states and a  *)
(* state with no option is a deadlock.  That the transitions of one option  *)
(* are contiguous in the C array is what                                    *)
(* automaton_automaton_monitored_order_transitions is for.                  *)
(*                                                                          *)
(* The liveness specification is                                            *)
(*     (every assumption infinitely often) => (every guarantee infinitely   *)
(*     often)                                                               *)
(* over the sets of states that satisfy the named fluents.                  *)
(****************************************************************************)
EXTENDS Integers, FiniteSets

CONSTANTS
  State,            \* the states of the game automaton
  GuaranteesCount,  \* guarantees_count
  AssumptionsCount, \* assumptions_count
  Unlisted          \* states missing from inverted_valuations: the composition lists a
                    \* state when a transition enters it, the initial state only then

ASSUME StateAssumption == IsFiniteSet(State) /\ State # {}
ASSUME CountAssumption ==
  /\ GuaranteesCount \in Nat \ {0}
  /\ AssumptionsCount \in Nat

ASSUME UnlistedAssumption == Unlisted \subseteq State

Goal == 0 .. GuaranteesCount - 1
AssumptionIndex == 0 .. AssumptionsCount - 1

Option == (SUBSET State) \ {{}}

Game == [moves      : [State -> SUBSET Option],
         assumption : [AssumptionIndex -> SUBSET State],
         guarantee  : [Goal -> SUBSET State]]

IsDeadlock(g, s) == g.moves[s] = {}
\* Mutant: self-loops are skipped.
PredecessorsButSelf(g, s) == {u \in State \ {s} : \E o \in g.moves[u] : s \in o}
Predecessors(g, s) == {u \in State : \E o \in g.moves[u] : s \in o}

SatisfiesGuarantee(g, s, j) == s \in g.guarantee[j]

\* With no assumptions at all every state counts as satisfying "the" assumption.
SatisfiesAssumption(g, s, a) == AssumptionsCount = 0 \/ s \in g.assumption[a]

\* The goal whose ranking the successors of s are looked up in.
TargetGoal(g, s, j) ==
  IF SatisfiesGuarantee(g, s, j) THEN (j + 1) % GuaranteesCount ELSE j

-----------------------------------------------------------------------------
(****************************************************************************)
(* Rankings.  A rank is a pair (value, assumption to satisfy), ordered      *)
(* lexicographically, below an infinite rank that marks a losing state.     *)
(* The C code leaves the assumption of an infinite rank arbitrary and never *)
(* reads it: here there is one infinite rank.                               *)
(****************************************************************************)
RANKING_INFINITY == -1
FirstAssumption == 0
LastAssumption == IF AssumptionsCount = 0 THEN 0 ELSE AssumptionsCount - 1

FiniteRank == [value : Nat, assumption : Nat]
Infinite == [value |-> RANKING_INFINITY, assumption |-> FirstAssumption]
Rank == FiniteRank \cup {Infinite}
InitialRank == [value |-> 0, assumption |-> FirstAssumption]

IsInfinite(r) == r.value = RANKING_INFINITY

RankingGt(left, right) ==
  \/ IsInfinite(left) /\ ~IsInfinite(right)
  \/ /\ ~IsInfinite(left)
     /\ ~IsInfinite(right)
     /\ \/ left.value > right.value
        \/ left.value = right.value /\ left.assumption > right.assumption

RankingGeq(left, right) == ~RankingGt(right, left)

Lowest(R) == CHOOSE r \in R : \A q \in R : RankingGeq(q, r)
Highest(R) == CHOOSE r \in R : \A q \in R : RankingGeq(r, q)

(****************************************************************************)
(* max_delta: the number of times a play can satisfy an assumption without  *)
(* satisfying guarantee j.  The code subtracts the smaller of the two sets  *)
(* from the bigger one, the guarantee's set counting as the bigger on ties; *)
(* it reads the lists of states, where the ranks read the valuations.       *)
(****************************************************************************)
Listed(S) == S \ Unlisted

\* Mutant: always subtracts the assumption's set.
DeltaOneWay(g, j, k) == Cardinality(Listed(g.guarantee[j]) \ Listed(g.assumption[k]))
Delta(g, j, k) ==
  LET fulfilled == Listed(g.guarantee[j])
      assumed == Listed(g.assumption[k])
  IN  IF Cardinality(assumed) > Cardinality(fulfilled)
      THEN Cardinality(assumed \ fulfilled)
      ELSE Cardinality(fulfilled \ assumed)

MaxDelta(g, j) ==
  IF AssumptionsCount = 0 THEN 0
  ELSE CHOOSE d \in {Delta(g, j, k) : k \in AssumptionIndex} :
         \A k \in AssumptionIndex : Delta(g, j, k) <= d

\* The ranks the algorithm may give a state for goal j.
RankOf(g, j) ==
  {Infinite} \cup [value : 0 .. MaxDelta(g, j), assumption : 0 .. LastAssumption]

IsRanking(g, R) ==
  /\ R \in [Goal -> [State -> Rank]]
  /\ \A j \in Goal, s \in State : R[j][s] \in RankOf(g, j)

-----------------------------------------------------------------------------
(****************************************************************************)
(* best_j(s): against every option the controller answers with the lowest   *)
(* ranked target; the environment picks the option with the highest answer. *)
(* Only asked of states that are not deadlocks.                             *)
(****************************************************************************)
BestSuccessor(g, rank, s, j) ==
  LET ranking == rank[TargetGoal(g, s, j)]
  IN  Highest({Lowest({ranking[t] : t \in o}) : o \in g.moves[s]})

\* Mutant: the value goes one past max_delta.
IncrementPastDelta(g, s, j, r) ==
  IF IsInfinite(r) THEN Infinite
  ELSE IF SatisfiesGuarantee(g, s, j) THEN InitialRank
  ELSE IF ~SatisfiesAssumption(g, s, r.assumption) THEN r
  ELSE IF r.assumption < AssumptionsCount - 1
       THEN [value |-> r.value, assumption |-> r.assumption + 1]
  ELSE IF r.value <= MaxDelta(g, j)
       THEN [value |-> r.value + 1, assumption |-> FirstAssumption]
  ELSE Infinite

\* automaton_ranking_increment: the rank s needs when its best successor has r.
Increment(g, s, j, r) ==
  IF IsInfinite(r) THEN Infinite
  ELSE IF SatisfiesGuarantee(g, s, j) THEN InitialRank
  ELSE IF ~SatisfiesAssumption(g, s, r.assumption) THEN r
  ELSE IF r.assumption < AssumptionsCount - 1
       THEN [value |-> r.value, assumption |-> r.assumption + 1]
  ELSE IF r.value < MaxDelta(g, j)
       THEN [value |-> r.value + 1, assumption |-> FirstAssumption]
  ELSE Infinite

\* Mutant: increments the current rank instead of the best successor's.
UpdateFromCurrent(g, rank, s, j) ==
  LET incr == Increment(g, s, j, rank[j][s])
  IN  IF RankingGt(incr, rank[j][s]) THEN incr ELSE rank[j][s]

\* automaton_ranking_update: ranks never decrease.
Update(g, rank, s, j) ==
  LET incr == Increment(g, s, j, BestSuccessor(g, rank, s, j))
  IN  IF RankingGt(incr, rank[j][s]) THEN incr ELSE rank[j][s]

(****************************************************************************)
(* automaton_state_is_stable reads the assumption of the current rank of s, *)
(* where Increment reads that of the best successor's.                      *)
(****************************************************************************)
\* Mutant: a state that satisfies no assumption must rank above its successor too.
StableIfAbove(g, rank, s, j) ==
  LET best == BestSuccessor(g, rank, s, j)
  IN  \/ IsInfinite(rank[j][s])
      \/ IsDeadlock(g, s)
      \/ /\ ~IsDeadlock(g, s)
         /\ IF SatisfiesGuarantee(g, s, j)
            THEN ~IsInfinite(best) /\ rank[j][s] = InitialRank
            ELSE RankingGt(rank[j][s], best)

IsStable(g, rank, s, j) ==
  LET current == rank[j][s]
      best == BestSuccessor(g, rank, s, j)
  IN  \/ IsInfinite(current)
      \/ IsDeadlock(g, s)
      \/ /\ ~IsDeadlock(g, s)
         /\ IF SatisfiesGuarantee(g, s, j)
            THEN ~IsInfinite(best) /\ current = InitialRank
            ELSE IF SatisfiesAssumption(g, s, current.assumption)
            THEN RankingGt(current, best)
            ELSE RankingGeq(current, best)

=============================================================================
