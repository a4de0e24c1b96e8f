----------------------------- MODULE GR1GameLemmas -----------------------------
(****************************************************************************)
(* Facts about the operators of GR1Game, for every game: the order on ranks *)
(* is total, the minimum over targets and the maximum over options that     *)
(* best_j takes exist, best_j is monotone in the ranking, and the stability *)
(* test agrees with the increment although they look at the assumption of   *)
(* different ranks.                                                         *)
(****************************************************************************)
EXTENDS GR1Game, FiniteSetTheorems, TLAPS

\* The order of the natural numbers as a relation.
NatLess == {p \in Nat \X Nat : p[1] < p[2]}

\* Every non-empty set of natural numbers has a least element.
LEMMA NatLeast ==
  ASSUME NEW T \in SUBSET Nat, T # {}
  PROVE  \E x \in T : \A y \in T : x <= y
<1>1. IsWellFoundedOn(NatLess, Nat)
  BY NatLessThanWellFounded DEF OpToRel, NatLess
<1>2. PICK x \in T : \A y \in T : ~ (<<y, x>> \in NatLess)
  BY <1>1, WFMin
<1>3. \A y \in T : ~ (y < x)
  BY <1>2 DEF NatLess
<1>4. \A y \in T : x <= y
  BY <1>3
<1> QED
  BY <1>4

\* Every non-empty bounded set of natural numbers has a greatest element.
LEMMA NatGreatest ==
  ASSUME NEW T \in SUBSET Nat, T # {}, NEW b \in Nat, \A y \in T : y <= b
  PROVE  \E x \in T : \A y \in T : y <= x
<1> DEFINE U == {n \in Nat : \E y \in T : n = b - y}
<1>1. \A y \in T : b - y \in U
  <2> TAKE y \in T
  <2>1. y \in Nat /\ y <= b
    OBVIOUS
  <2>2. b - y \in Nat
    BY <2>1
  <2> QED
    BY <2>2
<1>2. PICK m \in U : \A u \in U : m <= u
  <2>1. U \in SUBSET Nat /\ U # {}
    BY <1>1
  <2> HIDE DEF U
  <2> QED
    BY <2>1, NatLeast
<1>3. PICK x \in T : m = b - x
  BY <1>2
<1>4. ASSUME NEW y \in T PROVE y <= x
  <2>1. b - x <= b - y
    BY <1>1, <1>2, <1>3
  <2>2. x \in Nat /\ y \in Nat
    OBVIOUS
  <2> QED
    BY <2>1, <2>2
<1> QED
  BY <1>4

-----------------------------------------------------------------------------
\* RankingGeq (automaton_ranking_gt and _eq) is a total preorder on ranks.
LEMMA RankOrder ==
  /\ \A r \in Rank : RankingGeq(r, r)
  /\ \A r, q \in Rank : RankingGeq(r, q) \/ RankingGeq(q, r)
  /\ \A r, q, t \in Rank : RankingGeq(r, q) /\ RankingGeq(q, t) => RankingGeq(r, t)
  /\ \A r, q \in Rank : RankingGeq(r, q) /\ RankingGeq(q, r) => r = q
BY DEF RankingGeq, RankingGt, Rank, FiniteRank, Infinite, IsInfinite,
       RANKING_INFINITY, FirstAssumption

\* Every rank is at most the infinite one, and only it is above it.
LEMMA InfiniteIsTop ==
  /\ Infinite \in Rank /\ IsInfinite(Infinite)
  /\ \A r \in Rank : RankingGeq(Infinite, r)
  /\ \A r, q \in Rank : RankingGeq(r, q) /\ IsInfinite(q) => IsInfinite(r)
  /\ \A r \in Rank : IsInfinite(r) <=> r = Infinite
BY DEF RankingGeq, RankingGt, Rank, FiniteRank, Infinite, IsInfinite,
       RANKING_INFINITY, FirstAssumption

\* The minimum that best_j takes over the targets of an option exists.
LEMMA LowestExists ==
  ASSUME NEW R \in SUBSET Rank, R # {}
  PROVE  Lowest(R) \in R /\ \A q \in R : RankingGeq(q, Lowest(R))
<1>1. \E r \in R : \A q \in R : RankingGeq(q, r)
  <2>1. CASE R \cap FiniteRank = {}
    BY <2>1, RankOrder DEF Rank
  <2>2. CASE R \cap FiniteRank # {}
    <3> DEFINE V == {r.value : r \in R \cap FiniteRank}
    <3>1. V \in SUBSET Nat /\ V # {}
      BY <2>2 DEF FiniteRank
    <3>2. PICK v \in V : \A w \in V : v <= w
      BY <3>1, NatLeast
    <3> DEFINE A == {r.assumption : r \in {t \in R \cap FiniteRank : t.value = v}}
    <3>3. A \in SUBSET Nat /\ A # {}
      BY <3>2 DEF FiniteRank
    <3>4. PICK a \in A : \A c \in A : a <= c
      BY <3>3, NatLeast
    <3>5. PICK r \in R \cap FiniteRank : r.value = v /\ r.assumption = a
      BY <3>4
    <3>6. ASSUME NEW q \in R PROVE RankingGeq(q, r)
      <4>1. CASE q = Infinite
        BY <4>1, InfiniteIsTop DEF Rank
      <4>2. CASE q \in FiniteRank
        <5>1. v <= q.value /\ (q.value = v => a <= q.assumption)
          BY <4>2, <3>2, <3>4
        <5> QED
          BY <5>1, <3>5, <4>2
             DEF RankingGeq, RankingGt, FiniteRank, IsInfinite, RANKING_INFINITY
      <4> QED
        BY <4>1, <4>2 DEF Rank
    <3> QED
      BY <3>5, <3>6
  <2> QED
    BY <2>1, <2>2
<1> QED
  BY <1>1 DEF Lowest

-----------------------------------------------------------------------------
\* max_delta is a natural number.
LEMMA MaxDeltaType ==
  ASSUME NEW g \in Game, NEW j \in Goal
  PROVE  MaxDelta(g, j) \in Nat
<1>1. CASE AssumptionsCount = 0
  BY <1>1 DEF MaxDelta
<1>2. CASE AssumptionsCount # 0
  <2> DEFINE D == {Delta(g, j, k) : k \in AssumptionIndex}
  <2>1. /\ Cardinality(State) \in Nat
        /\ \A S \in SUBSET State : Cardinality(S) \in Nat /\ Cardinality(S) <= Cardinality(State)
    BY StateAssumption, FS_Subset, FS_CardinalityType
  <2>2. \A k \in AssumptionIndex :
          Delta(g, j, k) \in Nat /\ Delta(g, j, k) <= Cardinality(State)
    <3> TAKE k \in AssumptionIndex
    <3>1. /\ Listed(g.assumption[k]) \in SUBSET State
          /\ Listed(g.guarantee[j]) \in SUBSET State
      BY DEF Game, Listed
    <3>2. /\ Listed(g.assumption[k]) \ Listed(g.guarantee[j]) \in SUBSET State
          /\ Listed(g.guarantee[j]) \ Listed(g.assumption[k]) \in SUBSET State
      BY <3>1
    <3> QED
      BY <2>1, <3>2 DEF Delta
  <2>3. D \in SUBSET Nat /\ (\A d \in D : d <= Cardinality(State)) /\ D # {}
    <3>1. 0 \in AssumptionIndex
      BY <1>2, CountAssumption DEF AssumptionIndex
    <3> QED
      BY <2>2, <3>1
  <2>4. PICK d \in D : \A e \in D : e <= d
    <3> HIDE DEF D
    <3> QED
      BY <2>1, <2>3, NatGreatest
  <2>5. \A k \in AssumptionIndex : Delta(g, j, k) <= d
    BY <2>4
  <2>6. MaxDelta(g, j) \in D
    BY <1>2, <2>4, <2>5 DEF MaxDelta
  <2> QED
    BY <2>3, <2>6
<1> QED
  BY <1>1, <1>2

\* The ranks the algorithm gives are ranks.
LEMMA RankOfIsRank ==
  ASSUME NEW g \in Game, NEW j \in Goal
  PROVE  RankOf(g, j) \subseteq Rank /\ Infinite \in RankOf(g, j)
<1>1. MaxDelta(g, j) \in Nat
  BY MaxDeltaType
<1>2. LastAssumption \in Nat
  BY CountAssumption DEF LastAssumption
<1> QED
  BY <1>1, <1>2 DEF RankOf, Rank, FiniteRank

\* The maximum that best_j takes over the options of a state exists.
LEMMA HighestExists ==
  ASSUME NEW g \in Game, NEW j \in Goal, NEW R \in SUBSET RankOf(g, j), R # {}
  PROVE  Highest(R) \in R /\ \A q \in R : RankingGeq(Highest(R), q)
<1> DEFINE D == MaxDelta(g, j)
<1>0. D \in Nat /\ LastAssumption \in Nat
  BY MaxDeltaType, CountAssumption DEF LastAssumption
<1>1. \A q \in R : q = Infinite \/ /\ q \in FiniteRank
                                   /\ q.value <= D /\ q.assumption <= LastAssumption
  BY <1>0 DEF RankOf, FiniteRank
<1>2. \E r \in R : \A q \in R : RankingGeq(r, q)
  <2>1. CASE Infinite \in R
    BY <2>1, <1>1, InfiniteIsTop DEF Rank
  <2>2. CASE Infinite \notin R
    <3>0. \A q \in R : q \in FiniteRank /\ q.value \in Nat /\ q.assumption \in Nat
      BY <2>2, <1>1 DEF FiniteRank
    <3> DEFINE V == {r.value : r \in R}
    <3>1. V \in SUBSET Nat /\ V # {} /\ \A w \in V : w <= D
      BY <3>0, <2>2, <1>1
    <3>2. PICK v \in V : \A w \in V : w <= v
      <4> HIDE DEF V, D
      <4> QED
        BY <1>0, <3>1, NatGreatest
    <3> DEFINE A == {r.assumption : r \in {t \in R : t.value = v}}
    <3>3. A \in SUBSET Nat /\ A # {} /\ \A c \in A : c <= LastAssumption
      BY <3>0, <3>2, <2>2, <1>1
    <3>4. PICK a \in A : \A c \in A : c <= a
      <4> HIDE DEF A
      <4> QED
        BY <1>0, <3>3, NatGreatest
    <3>5. PICK r \in R : r.value = v /\ r.assumption = a
      BY <3>4
    <3>6. ASSUME NEW q \in R PROVE RankingGeq(r, q)
      <4>1. q.value <= v /\ (q.value = v => q.assumption <= a)
        BY <3>2, <3>4
      <4>2. q \in FiniteRank /\ r \in FiniteRank
        BY <3>0
      <4> QED
        BY <4>1, <4>2, <3>5
           DEF RankingGeq, RankingGt, FiniteRank, IsInfinite, RANKING_INFINITY
    <3> QED
      BY <3>5, <3>6
  <2> QED
    BY <2>1, <2>2
<1> QED
  BY <1>2 DEF Highest

-----------------------------------------------------------------------------
\* Options are non-empty and lead to states; a state that is no deadlock has one.
LEMMA MovesType ==
  ASSUME NEW g \in Game, NEW s \in State
  PROVE  /\ \A o \in g.moves[s] : o \in SUBSET State /\ o # {}
         /\ ~IsDeadlock(g, s) => \E o \in g.moves[s] : TRUE
BY DEF Game, Option, IsDeadlock

\* The goal that the successors are looked up in is a goal.
LEMMA TargetGoalType ==
  ASSUME NEW g, NEW s, NEW j \in Goal
  PROVE  TargetGoal(g, s, j) \in Goal
<1>1. GuaranteesCount \in Nat \ {0} /\ j \in Nat /\ j < GuaranteesCount
  BY CountAssumption DEF Goal
<1>2. (j + 1) % GuaranteesCount \in 0 .. GuaranteesCount - 1
  BY <1>1
<1> QED
  BY <1>2 DEF TargetGoal, Goal

(****************************************************************************)
(* best_j(s) is the value of the one-step game: no option forces more than  *)
(* it and one option forces as much.                                        *)
(****************************************************************************)
LEMMA BestSuccessorValue ==
  ASSUME NEW g \in Game, NEW R, IsRanking(g, R),
         NEW s \in State, ~IsDeadlock(g, s), NEW j \in Goal
  PROVE  LET best == BestSuccessor(g, R, s, j)
             ranking == R[TargetGoal(g, s, j)]
         IN  /\ best \in RankOf(g, TargetGoal(g, s, j))
             /\ \A o \in g.moves[s] : \E t \in o : RankingGeq(best, ranking[t])
             /\ \E o \in g.moves[s] : \A t \in o : RankingGeq(ranking[t], best)
<1> DEFINE i == TargetGoal(g, s, j)
           best == BestSuccessor(g, R, s, j)
           answer(o) == Lowest({R[i][t] : t \in o})
           answers == {answer(o) : o \in g.moves[s]}
<1>1. i \in Goal
  BY TargetGoalType
<1>2. \A t \in State : R[i][t] \in RankOf(g, i) /\ R[i][t] \in Rank
  BY <1>1 DEF IsRanking
<1>3. ASSUME NEW o \in g.moves[s]
      PROVE  /\ \E t \in o : answer(o) = R[i][t]
             /\ \A t \in o : RankingGeq(R[i][t], answer(o))
             /\ answer(o) \in RankOf(g, i)
  <2>1. o \in SUBSET State /\ o # {}
    BY MovesType
  <2>2. {R[i][t] : t \in o} \in SUBSET Rank /\ {R[i][t] : t \in o} # {}
    BY <2>1, <1>2
  <2>3. answer(o) \in {R[i][t] : t \in o} /\ \A q \in {R[i][t] : t \in o} : RankingGeq(q, answer(o))
    BY <2>2, LowestExists
  <2> QED
    BY <2>1, <2>3, <1>2
<1>4. answers \in SUBSET RankOf(g, i) /\ answers # {}
  BY <1>3, MovesType
<1>5. best = Highest(answers)
  BY DEF BestSuccessor
<1>6. best \in answers /\ \A q \in answers : RankingGeq(best, q)
  <2> HIDE DEF answers, best, i
  <2> QED
    BY <1>1, <1>4, <1>5, HighestExists
<1>7. best \in RankOf(g, i)
  BY <1>4, <1>6
<1>8. \A o \in g.moves[s] : \E t \in o : RankingGeq(best, R[i][t])
  <2> TAKE o \in g.moves[s]
  <2>1. RankingGeq(best, answer(o))
    BY <1>6
  <2> QED
    BY <2>1, <1>3
<1>9. \E o \in g.moves[s] : \A t \in o : RankingGeq(R[i][t], best)
  <2>1. PICK o \in g.moves[s] : best = answer(o)
    BY <1>6
  <2> QED
    BY <2>1, <1>3
<1> QED
  BY <1>7, <1>8, <1>9

\* Raising the ranks of the successors of s does not lower best_j(s).
LEMMA BestSuccessorMonotone ==
  ASSUME NEW g \in Game, NEW R, IsRanking(g, R), NEW T, IsRanking(g, T),
         NEW s \in State, ~IsDeadlock(g, s), NEW j \in Goal,
         \A o \in g.moves[s] : \A t \in o :
           RankingGeq(T[TargetGoal(g, s, j)][t], R[TargetGoal(g, s, j)][t])
  PROVE  RankingGeq(BestSuccessor(g, T, s, j), BestSuccessor(g, R, s, j))
<1> DEFINE i == TargetGoal(g, s, j)
<1>1. i \in Goal
  BY TargetGoalType
<1>2. \A t \in State : R[i][t] \in Rank /\ T[i][t] \in Rank
  BY <1>1 DEF IsRanking
<1>3. BestSuccessor(g, R, s, j) \in Rank /\ BestSuccessor(g, T, s, j) \in Rank
  BY <1>1, BestSuccessorValue, RankOfIsRank
<1>4. PICK o \in g.moves[s] : \A t \in o : RankingGeq(R[i][t], BestSuccessor(g, R, s, j))
  BY BestSuccessorValue
<1>5. PICK t \in o : RankingGeq(BestSuccessor(g, T, s, j), T[i][t])
  BY BestSuccessorValue
<1>6. t \in State
  BY MovesType
<1>7. RankingGeq(BestSuccessor(g, T, s, j), R[i][t])
  BY <1>2, <1>3, <1>5, <1>6, RankOrder
<1> QED
  BY <1>2, <1>3, <1>4, <1>6, <1>7, RankOrder

\* Ranks of states that are no successors of s do not matter to best_j(s).
LEMMA BestSuccessorLocal ==
  ASSUME NEW g \in Game, NEW R, IsRanking(g, R), NEW T, IsRanking(g, T),
         NEW s \in State, ~IsDeadlock(g, s), NEW j \in Goal,
         \A o \in g.moves[s] : \A t \in o :
           T[TargetGoal(g, s, j)][t] = R[TargetGoal(g, s, j)][t]
  PROVE  BestSuccessor(g, T, s, j) = BestSuccessor(g, R, s, j)
<1> DEFINE i == TargetGoal(g, s, j)
<1>1. i \in Goal
  BY TargetGoalType
<1>2. \A o \in g.moves[s] : \A t \in o : T[i][t] \in Rank /\ R[i][t] \in Rank
  BY <1>1, MovesType DEF IsRanking
<1>3. \A o \in g.moves[s] : \A t \in o :
        RankingGeq(T[i][t], R[i][t]) /\ RankingGeq(R[i][t], T[i][t])
  BY <1>2, RankOrder
<1>4. BestSuccessor(g, R, s, j) \in Rank /\ BestSuccessor(g, T, s, j) \in Rank
  BY <1>1, BestSuccessorValue, RankOfIsRank
<1>5. /\ RankingGeq(BestSuccessor(g, T, s, j), BestSuccessor(g, R, s, j))
      /\ RankingGeq(BestSuccessor(g, R, s, j), BestSuccessor(g, T, s, j))
  BY <1>3, BestSuccessorMonotone
<1> QED
  BY <1>4, <1>5, RankOrder

\* best_j(s) only becomes infinite when the rank of a successor does.
LEMMA BestSuccessorFinite ==
  ASSUME NEW g \in Game, NEW R, IsRanking(g, R), NEW T, IsRanking(g, T),
         NEW s \in State, ~IsDeadlock(g, s), NEW j \in Goal,
         \A o \in g.moves[s] : \A t \in o :
           IsInfinite(T[TargetGoal(g, s, j)][t]) => IsInfinite(R[TargetGoal(g, s, j)][t]),
         IsInfinite(BestSuccessor(g, T, s, j))
  PROVE  IsInfinite(BestSuccessor(g, R, s, j))
<1> DEFINE i == TargetGoal(g, s, j)
<1>1. i \in Goal
  BY TargetGoalType
<1>2. \A t \in State : R[i][t] \in Rank /\ T[i][t] \in Rank
  BY <1>1 DEF IsRanking
<1>3. BestSuccessor(g, R, s, j) \in Rank /\ BestSuccessor(g, T, s, j) \in Rank
  BY <1>1, BestSuccessorValue, RankOfIsRank
<1>4. PICK o \in g.moves[s] : \A t \in o : RankingGeq(T[i][t], BestSuccessor(g, T, s, j))
  BY BestSuccessorValue
<1>5. PICK t \in o : RankingGeq(BestSuccessor(g, R, s, j), R[i][t])
  BY BestSuccessorValue
<1>6. t \in State
  BY MovesType
<1>7. IsInfinite(T[i][t])
  BY <1>2, <1>3, <1>4, <1>6, InfiniteIsTop
<1> QED
  BY <1>2, <1>3, <1>5, <1>6, <1>7, InfiniteIsTop

-----------------------------------------------------------------------------
\* Increment turns a rank for the goal of the successors into one for j.
LEMMA IncrementType ==
  ASSUME NEW g \in Game, NEW s \in State, NEW j \in Goal,
         NEW r \in RankOf(g, TargetGoal(g, s, j))
  PROVE  Increment(g, s, j, r) \in RankOf(g, j)
<1>1. MaxDelta(g, j) \in Nat /\ LastAssumption \in Nat
  BY MaxDeltaType, CountAssumption DEF LastAssumption
<1>2. CASE IsInfinite(r)
  BY <1>2 DEF Increment, RankOf
<1>3. CASE ~IsInfinite(r) /\ SatisfiesGuarantee(g, s, j)
  BY <1>1, <1>3 DEF Increment, RankOf, InitialRank, FirstAssumption
<1>4. CASE ~IsInfinite(r) /\ ~SatisfiesGuarantee(g, s, j)
  <2>1. r \in [value : 0 .. MaxDelta(g, j), assumption : 0 .. LastAssumption]
    BY <1>4, InfiniteIsTop DEF RankOf, TargetGoal
  <2>2. r.assumption < AssumptionsCount - 1 => r.assumption + 1 \in 0 .. LastAssumption
    BY <2>1, <1>1, CountAssumption DEF LastAssumption
  <2>3. r.value < MaxDelta(g, j) => r.value + 1 \in 0 .. MaxDelta(g, j)
    BY <2>1, <1>1
  <2>4. FirstAssumption \in 0 .. LastAssumption
    BY <1>1 DEF FirstAssumption
  <2> QED
    BY <1>4, <2>1, <2>2, <2>3, <2>4 DEF Increment, RankOf
<1> QED
  BY <1>2, <1>3, <1>4

\* Where s does not satisfy the goal, Increment keeps a rank or takes the next one.
LEMMA IncrementIsNext ==
  ASSUME NEW g \in Game, NEW s \in State, NEW j \in Goal, ~SatisfiesGuarantee(g, s, j),
         NEW r \in RankOf(g, j)
  PROVE  LET incr == Increment(g, s, j, r)
         IN  /\ RankingGeq(incr, r)
             /\ ~IsInfinite(r) /\ ~SatisfiesAssumption(g, s, r.assumption) => incr = r
             /\ ~IsInfinite(r) /\ SatisfiesAssumption(g, s, r.assumption) =>
                  /\ RankingGt(incr, r)
                  /\ \A q \in RankOf(g, j) : RankingGt(q, r) => RankingGeq(q, incr)
<1> DEFINE D == MaxDelta(g, j)
<1>1. D \in Nat /\ LastAssumption \in Nat
  BY MaxDeltaType, CountAssumption DEF LastAssumption
<1>2. \A q \in RankOf(g, j) : q = Infinite \/ q \in [value : 0 .. D, assumption : 0 .. LastAssumption]
  BY DEF RankOf
<1>3. CASE IsInfinite(r)
  BY <1>3, InfiniteIsTop, RankOfIsRank DEF Increment
<1>4. CASE ~IsInfinite(r) /\ ~SatisfiesAssumption(g, s, r.assumption)
  BY <1>4, RankOrder, RankOfIsRank DEF Increment
<1>5. CASE ~IsInfinite(r) /\ SatisfiesAssumption(g, s, r.assumption)
  <2>1. r \in [value : 0 .. D, assumption : 0 .. LastAssumption]
    BY <1>2, <1>5, InfiniteIsTop
  <2> HIDE DEF D
  <2>2. CASE r.assumption < AssumptionsCount - 1
    <3>1. Increment(g, s, j, r) = [value |-> r.value, assumption |-> r.assumption + 1]
      BY <1>5, <2>2 DEF Increment
    <3> QED
      BY <1>1, <1>2, <1>5, <2>1, <3>1
         DEF RankingGeq, RankingGt, IsInfinite, Infinite, RANKING_INFINITY
  <2>3. CASE ~(r.assumption < AssumptionsCount - 1) /\ r.value < D
    <3>1. Increment(g, s, j, r) = [value |-> r.value + 1, assumption |-> FirstAssumption]
      BY <1>5, <2>3 DEF Increment, D
    <3>2. r.assumption = LastAssumption
      BY <2>1, <2>3, CountAssumption DEF LastAssumption
    <3> QED
      BY <1>1, <1>2, <1>5, <2>1, <2>3, <3>1, <3>2
         DEF RankingGeq, RankingGt, IsInfinite, Infinite, RANKING_INFINITY, FirstAssumption
  <2>4. CASE ~(r.assumption < AssumptionsCount - 1) /\ ~(r.value < D)
    <3>1. Increment(g, s, j, r) = Infinite
      BY <1>5, <2>4 DEF Increment, D
    <3>2. r.assumption = LastAssumption /\ r.value = D
      BY <1>1, <2>1, <2>4, CountAssumption DEF LastAssumption
    <3> QED
      BY <1>1, <1>2, <1>5, <2>1, <3>1, <3>2
         DEF RankingGeq, RankingGt, IsInfinite, Infinite, RANKING_INFINITY
  <2> QED
    BY <1>5, <2>2, <2>3, <2>4
<1> QED
  BY <1>3, <1>4, <1>5

\* A higher best successor asks for a rank that is no lower.
LEMMA IncrementMonotone ==
  ASSUME NEW g \in Game, NEW s \in State, NEW j \in Goal,
         NEW r \in RankOf(g, TargetGoal(g, s, j)), NEW q \in RankOf(g, TargetGoal(g, s, j)),
         RankingGeq(q, r)
  PROVE  RankingGeq(Increment(g, s, j, q), Increment(g, s, j, r))
<1>1. /\ r \in Rank /\ q \in Rank
      /\ Increment(g, s, j, r) \in Rank /\ Increment(g, s, j, q) \in Rank
  BY IncrementType, RankOfIsRank, TargetGoalType
<1>2. CASE IsInfinite(q)
  BY <1>1, <1>2, InfiniteIsTop DEF Increment
<1>3. CASE ~IsInfinite(q) /\ SatisfiesGuarantee(g, s, j)
  <2>1. ~IsInfinite(r)
    BY <1>1, <1>3, InfiniteIsTop
  <2> QED
    BY <1>1, <1>3, <2>1, RankOrder DEF Increment
<1>4. CASE ~IsInfinite(q) /\ ~SatisfiesGuarantee(g, s, j)
  <2>1. q \in RankOf(g, j) /\ r \in RankOf(g, j) /\ ~IsInfinite(r)
    BY <1>1, <1>4, InfiniteIsTop DEF TargetGoal
  <2>2. RankingGeq(Increment(g, s, j, q), q)
    BY <1>4, <2>1, IncrementIsNext
  <2>3. CASE r = q
    BY <1>1, <2>3, RankOrder
  <2>4. CASE ~SatisfiesAssumption(g, s, r.assumption)
    BY <1>1, <1>4, <2>1, <2>2, <2>4, IncrementIsNext, RankOrder
  <2>5. CASE r # q /\ SatisfiesAssumption(g, s, r.assumption)
    <3>1. RankingGt(q, r)
      BY <1>1, <2>5, RankOrder DEF RankingGeq
    <3>2. RankingGeq(q, Increment(g, s, j, r))
      BY <1>4, <2>1, <2>5, <3>1, IncrementIsNext
    <3> QED
      BY <1>1, <2>2, <3>2, RankOrder
  <2> QED
    BY <2>3, <2>4, <2>5
<1> QED
  BY <1>2, <1>3, <1>4

(****************************************************************************)
(* automaton_state_is_stable decides whether the current rank is at least   *)
(* the increment of the best successor's, although it looks at the current  *)
(* rank's assumption where the increment looks at the best successor's.     *)
(****************************************************************************)
LEMMA StabilityTest ==
  ASSUME NEW g \in Game, NEW R, IsRanking(g, R),
         NEW s \in State, ~IsDeadlock(g, s), NEW j \in Goal,
         SatisfiesGuarantee(g, s, j) /\ ~IsInfinite(R[j][s]) => R[j][s] = InitialRank
  PROVE  IsStable(g, R, s, j) <=>
           RankingGeq(R[j][s], Increment(g, s, j, BestSuccessor(g, R, s, j)))
<1> DEFINE current == R[j][s]
           best == BestSuccessor(g, R, s, j)
           incr == Increment(g, s, j, best)
<1>1. /\ current \in RankOf(g, j) /\ current \in Rank
      /\ best \in RankOf(g, TargetGoal(g, s, j)) /\ best \in Rank
      /\ incr \in RankOf(g, j) /\ incr \in Rank
  BY BestSuccessorValue, IncrementType, RankOfIsRank, TargetGoalType DEF IsRanking
<1>2. IsStable(g, R, s, j) <=>
        \/ IsInfinite(current)
        \/ IF SatisfiesGuarantee(g, s, j) THEN ~IsInfinite(best) /\ current = InitialRank
           ELSE IF SatisfiesAssumption(g, s, current.assumption) THEN RankingGt(current, best)
           ELSE RankingGeq(current, best)
  BY DEF IsStable
<1> SUFFICES IsStable(g, R, s, j) <=> RankingGeq(current, incr)
  OBVIOUS
<1> HIDE DEF best, current
<1>3. CASE IsInfinite(current)
  BY <1>1, <1>2, <1>3, InfiniteIsTop
<1>4. CASE ~IsInfinite(current) /\ SatisfiesGuarantee(g, s, j)
  <2>1. current = InitialRank
    BY <1>4 DEF current
  <2>2. IsInfinite(best) => ~RankingGeq(current, incr)
    BY <1>1, <1>4, InfiniteIsTop DEF Increment
  <2>3. ~IsInfinite(best) => RankingGeq(current, incr)
    BY <1>1, <1>4, <2>1, RankOrder DEF Increment
  <2> QED
    BY <1>2, <1>4, <2>1, <2>2, <2>3
<1>5. CASE ~IsInfinite(current) /\ ~SatisfiesGuarantee(g, s, j)
  <2>1. best \in RankOf(g, j)
    BY <1>1, <1>5 DEF TargetGoal
  <2>2. RankingGeq(incr, best)
    BY <1>5, <2>1, IncrementIsNext
  <2>3. CASE IsInfinite(best)
    <3>1. ~RankingGeq(current, best) /\ ~RankingGt(current, best) /\ incr = Infinite
      BY <1>1, <1>5, <2>3, InfiniteIsTop DEF Increment, RankingGt
    <3> QED
      BY <1>1, <1>2, <1>5, <3>1, InfiniteIsTop
  <2>4. CASE ~IsInfinite(best) /\ current = best
    <3>1. ~RankingGt(current, best) /\ RankingGeq(current, best)
      BY <1>1, <2>4, RankOrder DEF RankingGeq
    <3>2. SatisfiesAssumption(g, s, current.assumption) => ~RankingGeq(current, incr)
      BY <1>5, <2>1, <2>4, IncrementIsNext DEF RankingGeq
    <3>3. ~SatisfiesAssumption(g, s, current.assumption) => RankingGeq(current, incr)
      BY <1>5, <2>1, <2>4, <3>1, IncrementIsNext
    <3> QED
      BY <1>2, <1>5, <3>1, <3>2, <3>3
  <2>5. CASE ~IsInfinite(best) /\ RankingGt(current, best)
    <3>1. RankingGeq(current, best)
      BY <1>1, <2>5, RankOrder DEF RankingGeq
    <3>2. RankingGeq(current, incr)
      BY <1>1, <1>5, <2>1, <2>5, <3>1, IncrementIsNext
    <3> QED
      BY <1>2, <1>5, <2>5, <3>1, <3>2
  <2>6. CASE ~IsInfinite(best) /\ current # best /\ ~RankingGt(current, best)
    <3>1. ~RankingGeq(current, best)
      BY <1>1, <2>6, RankOrder DEF RankingGeq
    <3>2. ~RankingGeq(current, incr)
      BY <1>1, <2>2, <3>1, RankOrder
    <3> QED
      BY <1>2, <1>5, <2>6, <3>1, <3>2
  <2> QED
    BY <2>3, <2>4, <2>5, <2>6
<1> QED
  BY <1>3, <1>4, <1>5

\* Stability only depends on the rank of s and on the ranks of its successors.
LEMMA StabilityLocal ==
  ASSUME NEW g \in Game, NEW R, IsRanking(g, R), NEW T, IsRanking(g, T),
         NEW s \in State, NEW j \in Goal, IsStable(g, R, s, j), T[j][s] = R[j][s],
         \A o \in g.moves[s] : \A t \in o :
           T[TargetGoal(g, s, j)][t] = R[TargetGoal(g, s, j)][t]
  PROVE  IsStable(g, T, s, j)
<1>1. CASE IsDeadlock(g, s)
  BY <1>1 DEF IsStable
<1>2. CASE ~IsDeadlock(g, s)
  <2>1. BestSuccessor(g, T, s, j) = BestSuccessor(g, R, s, j)
    BY <1>2, BestSuccessorLocal
  <2> QED
    BY <2>1 DEF IsStable
<1> QED
  BY <1>1, <1>2

=============================================================================
