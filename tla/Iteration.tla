------------------------------ MODULE Iteration ------------------------------
(****************************************************************************)
(* What the loops of the models compute.  A C loop is a fold over a         *)
(* sequence (FoldLeft) or a recursive function on the natural numbers; its  *)
(* body is Op and Inv is what holds of the value after k turns.  A module   *)
(* that proves something about a loop instantiates this one with the body   *)
(* and the loop invariant; c holds the loop's parameters.                   *)
(****************************************************************************)
EXTENDS Integers, WellFoundedInduction, TLAPS

CONSTANTS
  Op(_, _, _),    \* the body: the parameters, the value so far and the next item
  Inv(_, _, _)    \* the loop invariant: the parameters, the turns made and the value

\* The order of the natural numbers as a relation.
Before == {p \in Nat \X Nat : p[1] < p[2]}

\* A set that contains 0 and the successor of each of its members is everything.
THEOREM SetInduction ==
  \A S : 0 \in S /\ (\A n \in Nat : n \in S => n + 1 \in S) => \A n \in Nat : n \in S
<1> SUFFICES ASSUME NEW S, 0 \in S, \A n \in Nat : n \in S => n + 1 \in S,
                    NEW m \in Nat, m \notin S
             PROVE  FALSE
  OBVIOUS
<1> DEFINE T == {n \in Nat : n \notin S}
<1>1. IsWellFoundedOn(Before, Nat)
  BY NatLessThanWellFounded DEF OpToRel, Before
<1>2. T \subseteq Nat /\ T # {}
  OBVIOUS
<1>3. PICK x \in T : \A y \in T : ~ (<<y, x>> \in Before)
  <2> HIDE DEF T
  <2> QED
    BY <1>1, <1>2, WFMin
<1>4. x \in Nat /\ x # 0
  OBVIOUS
<1>6. x - 1 \in Nat /\ (x - 1) + 1 = x /\ x - 1 < x
  BY <1>4
<1>7. x - 1 \notin T
  BY <1>3, <1>4, <1>6 DEF Before
<1>5. x \in S
  BY <1>6, <1>7
<1> QED
  BY <1>5

-----------------------------------------------------------------------------
(****************************************************************************)
(* Folds: iter is the function that FoldLeft(LAMBDA a, x : Op(c, a, x),     *)
(* base, list) is the value of, here with the positions it may be asked of. *)
(****************************************************************************)
IsFold(iter, c, base, list, positions) ==
  iter = [s \in SUBSET positions |->
            IF s = {} THEN base
            ELSE LET x == CHOOSE m \in s : \A y \in s : m >= y
                 IN  Op(c, iter[s \ {x}], list[x])]

\* The greatest element of a set of positions that has one.
LEMMA GreatestPosition ==
  \A k \in Nat : \A s : k \in s /\ s \subseteq 1 .. k =>
    (CHOOSE m \in s : \A y \in s : m >= y) = k
<1> SUFFICES ASSUME NEW k \in Nat, NEW s, k \in s, s \subseteq 1 .. k
             PROVE  (CHOOSE m \in s : \A y \in s : m >= y) = k
  OBVIOUS
<1>1. \A y \in s : y \in Int /\ k >= y
  OBVIOUS
<1>2. \A m \in s : (\A y \in s : m >= y) => m = k
  BY <1>1
<1> QED
  BY <1>1, <1>2

\* The function of a fold exists.
THEOREM FoldExists ==
  \A c, base, list : \A n \in Nat : \E iter : IsFold(iter, c, base, list, 1 .. n)
<1> SUFFICES ASSUME NEW c, NEW base, NEW list
             PROVE  \A n \in Nat : \E iter : IsFold(iter, c, base, list, 1 .. n)
  OBVIOUS
<1> DEFINE S == {n \in Nat : \E iter : IsFold(iter, c, base, list, 1 .. n)}
<1>1. 0 \in S
  <2> DEFINE it == [s \in SUBSET (1 .. 0) |-> base]
  <2>1. 1 .. 0 = {}
    OBVIOUS
  <2>2. IsFold(it, c, base, list, 1 .. 0)
    BY <2>1 DEF IsFold
  <2> QED
    BY <2>2
<1>2. ASSUME NEW n \in Nat, n \in S PROVE n + 1 \in S
  <2>1. PICK it : IsFold(it, c, base, list, 1 .. n)
    BY <1>2
  <2> DEFINE top == n + 1
             next == [s \in SUBSET (1 .. top) |->
                        IF top \in s THEN Op(c, it[s \ {top}], list[top]) ELSE it[s]]
  <2>2. ASSUME NEW s \in SUBSET (1 .. top)
        PROVE  next[s] = IF s = {} THEN base
                         ELSE LET x == CHOOSE m \in s : \A y \in s : m >= y
                              IN  Op(c, next[s \ {x}], list[x])
    <3>1. CASE top \in s
      <4>1. (CHOOSE m \in s : \A y \in s : m >= y) = top
        <5>1. top \in Nat /\ s \subseteq 1 .. top
          OBVIOUS
        <5> HIDE DEF top
        <5> QED
          BY <3>1, <5>1, GreatestPosition, Zenon
      <4>2. s \ {top} \in SUBSET (1 .. top) /\ top \notin s \ {top}
        OBVIOUS
      <4>3. next[s \ {top}] = it[s \ {top}]
        BY <4>2
      <4>4. next[s] = Op(c, it[s \ {top}], list[top])
        BY <3>1
      <4> HIDE DEF top, next
      <4> QED
        BY <3>1, <4>1, <4>3, <4>4, Zenon
    <3>2. CASE top \notin s
      <4> DEFINE x == CHOOSE m \in s : \A y \in s : m >= y
      <4>1. s \in SUBSET (1 .. n) /\ s \ {x} \in SUBSET (1 .. n)
        <5>1. \A e \in s : e \in 1 .. top /\ e # top
          BY <3>2
        <5>2. \A e \in s : e \in 1 .. n
          BY <5>1
        <5> HIDE DEF x
        <5> QED
          BY <5>2
      <4>2. next[s] = it[s]
        BY <3>2
      <4>3. s \ {x} \in SUBSET (1 .. top) /\ top \notin s \ {x}
        BY <3>2
      <4>4. next[s \ {x}] = it[s \ {x}]
        BY <4>3
      <4>5. it[s] = IF s = {} THEN base ELSE Op(c, it[s \ {x}], list[x])
        BY <2>1, <4>1, Zenon DEF IsFold
      <4> QED
        BY <4>2, <4>4, <4>5
    <3> QED
      BY <3>1, <3>2
  <2>3. IsFold(next, c, base, list, 1 .. top)
    <3>1. next = [s \in SUBSET (1 .. top) |-> next[s]]
      OBVIOUS
    <3> HIDE DEF next, top
    <3> QED
      BY <2>2, <3>1, Zenon DEF IsFold
  <2> HIDE DEF next
  <2> QED
    BY <2>3
<1>3. \A n \in Nat : n \in S
  <2> HIDE DEF S
  <2> QED
    BY <1>1, <1>2, SetInduction
<1> QED
  BY <1>3

\* What the loop invariant says of a fold: it holds of the base and each turn keeps it.
THEOREM FoldInvariant ==
  \A c, base, list, iter : \A n \in Nat :
    /\ IsFold(iter, c, base, list, 1 .. n)
    /\ Inv(c, 0, base)
    /\ \A k \in 0 .. n - 1 : \A a : Inv(c, k, a) => Inv(c, k + 1, Op(c, a, list[k + 1]))
    => Inv(c, n, iter[1 .. n])
<1> SUFFICES ASSUME NEW c, NEW base, NEW list, NEW iter, NEW n \in Nat,
                    IsFold(iter, c, base, list, 1 .. n),
                    Inv(c, 0, base),
                    \A k \in 0 .. n - 1 : \A a : Inv(c, k, a) => Inv(c, k + 1, Op(c, a, list[k + 1]))
             PROVE  Inv(c, n, iter[1 .. n])
  OBVIOUS
<1> DEFINE S == {k \in Nat : k <= n => Inv(c, k, iter[1 .. k])}
<1>1. 0 \in S
  <2>1. 1 .. 0 = {} /\ {} \in SUBSET (1 .. n)
    OBVIOUS
  <2>2. iter[{}] = base
    BY <2>1, Zenon DEF IsFold
  <2> QED
    BY <2>1, <2>2
<1>2. ASSUME NEW k \in Nat, k \in S, k + 1 <= n PROVE Inv(c, k + 1, iter[1 .. k + 1])
  <2> DEFINE top == k + 1
             x == CHOOSE m \in 1 .. top : \A y \in 1 .. top : m >= y
  <2>1. 1 .. top \in SUBSET (1 .. n) /\ 1 .. top # {}
    <3>1. \A e \in 1 .. top : e \in 1 .. n
      BY <1>2
    <3>2. top \in 1 .. top
      OBVIOUS
    <3> HIDE DEF top
    <3> QED
      BY <3>1, <3>2
  <2>2. x = top
    BY GreatestPosition
  <2>3. (1 .. top) \ {top} = 1 .. k
    OBVIOUS
  <2>4. iter[1 .. top] = Op(c, iter[(1 .. top) \ {x}], list[x])
    <3> HIDE DEF top
    <3> QED
      BY <2>1, Zenon DEF IsFold
  <2>5. iter[1 .. top] = Op(c, iter[1 .. k], list[top])
    BY <2>2, <2>3, <2>4
  <2>6. k \in 0 .. n - 1 /\ Inv(c, k, iter[1 .. k])
    BY <1>2
  <2> QED
    BY <2>5, <2>6
<1>3. \A k \in Nat : k \in S
  <2>1. \A k \in Nat : k \in S => k + 1 \in S
    BY <1>2
  <2> HIDE DEF S
  <2> QED
    BY <1>1, <2>1, SetInduction
<1> QED
  BY <1>3

-----------------------------------------------------------------------------
(****************************************************************************)
(* Recursion on the natural numbers: f[n] is the value after n turns.       *)
(****************************************************************************)
IsIteration(f, c, base) ==
  f = [n \in Nat |-> IF n = 0 THEN base ELSE Op(c, f[n - 1], n)]

IsIterationTo(f, c, base, m) ==
  f = [n \in 0 .. m |-> IF n = 0 THEN base ELSE Op(c, f[n - 1], n)]

\* The function of an iteration exists.
THEOREM IterationExists == \A c, base : \E f : IsIteration(f, c, base)
<1> SUFFICES ASSUME NEW c, NEW base PROVE \E f : IsIteration(f, c, base)
  OBVIOUS
<1> DEFINE S == {m \in Nat : \E f : IsIterationTo(f, c, base, m)}
<1>1. 0 \in S
  <2>1. IsIterationTo([n \in 0 .. 0 |-> base], c, base, 0)
    BY DEF IsIterationTo
  <2> QED
    BY <2>1
<1>2. ASSUME NEW m \in Nat, m \in S PROVE m + 1 \in S
  <2>1. PICK f : IsIterationTo(f, c, base, m)
    BY <1>2
  <2> DEFINE h == [n \in 0 .. m + 1 |-> IF n = m + 1 THEN Op(c, f[m], m + 1) ELSE f[n]]
  <2>2. ASSUME NEW n \in 0 .. m + 1
        PROVE  h[n] = IF n = 0 THEN base ELSE Op(c, h[n - 1], n)
    <3>1. CASE n = m + 1
      <4>1. n # 0 /\ n - 1 = m /\ m \in 0 .. m + 1 /\ m # m + 1
        BY <3>1
      <4> QED
        BY <3>1, <4>1
    <3>2. CASE n # m + 1
      <4>1. n \in 0 .. m /\ (n # 0 => n - 1 \in 0 .. m + 1 /\ n - 1 # m + 1)
        BY <3>2
      <4>2. f[n] = IF n = 0 THEN base ELSE Op(c, f[n - 1], n)
        BY <2>1, <4>1 DEF IsIterationTo
      <4> QED
        BY <3>2, <4>1, <4>2
    <3> QED
      BY <3>1, <3>2
  <2>3. IsIterationTo(h, c, base, m + 1)
    <3>1. h = [n \in 0 .. m + 1 |-> h[n]]
      OBVIOUS
    <3> HIDE DEF h
    <3> QED
      BY <2>2, <3>1 DEF IsIterationTo
  <2> QED
    BY <2>3
<1>3. \A m \in Nat : \E f : IsIterationTo(f, c, base, m)
  <2>1. \A m \in Nat : m \in S
    <3> HIDE DEF S
    <3> QED
      BY <1>1, <1>2, SetInduction
  <2> QED
    BY <2>1
<1> DEFINE at == [m \in Nat |-> CHOOSE f : IsIterationTo(f, c, base, m)]
           full == [n \in Nat |-> at[n][n]]
<1>4. \A m \in Nat : IsIterationTo(at[m], c, base, m)
  BY <1>3
<1> HIDE DEF at
<1>5. \A m \in Nat : \A n \in 0 .. m :
        at[m][n] = IF n = 0 THEN base ELSE Op(c, at[m][n - 1], n)
  BY <1>4, Zenon DEF IsIterationTo
<1>6. \A n \in Nat : \A m \in Nat : n <= m => at[m][n] = at[n][n]
  <2> DEFINE T == {n \in Nat : \A m \in Nat : n <= m => at[m][n] = at[n][n]}
  <2>1. 0 \in T
    <3>1. \A m \in Nat : at[m][0] = base
      BY <1>5
    <3> QED
      BY <3>1
  <2>2. ASSUME NEW n \in Nat, n \in T PROVE n + 1 \in T
    <3>1. ASSUME NEW m \in Nat, n + 1 <= m PROVE at[m][n + 1] = Op(c, at[n][n], n + 1)
      <4>1. n + 1 \in 0 .. m /\ n + 1 # 0 /\ (n + 1) - 1 = n /\ n <= m
        BY <3>1
      <4>2. at[m][n + 1] = Op(c, at[m][n], n + 1)
        BY <1>5, <4>1
      <4> QED
        BY <2>2, <4>1, <4>2
    <3>2. n + 1 \in Nat /\ n + 1 <= n + 1
      OBVIOUS
    <3> QED
      BY <3>1, <3>2
  <2> HIDE DEF T
  <2>3. \A n \in Nat : n \in T
    BY <2>1, <2>2, SetInduction
  <2> QED
    BY <2>3 DEF T
<1>7. ASSUME NEW n \in Nat
      PROVE  full[n] = IF n = 0 THEN base ELSE Op(c, full[n - 1], n)
  <2>1. CASE n = 0
    BY <1>5, <2>1
  <2>2. CASE n # 0
    <3>1. n - 1 \in Nat /\ n - 1 <= n /\ n \in 0 .. n
      BY <2>2
    <3>2. full[n] = Op(c, at[n][n - 1], n)
      BY <1>5, <2>2, <3>1
    <3> QED
      BY <1>6, <2>2, <3>1, <3>2
  <2> QED
    BY <2>1, <2>2
<1>8. IsIteration(full, c, base)
  <2>1. full = [n \in Nat |-> full[n]]
    OBVIOUS
  <2> HIDE DEF full
  <2> QED
    BY <1>7, <2>1 DEF IsIteration
<1> QED
  BY <1>8

\* What the loop invariant says of an iteration.
THEOREM IterationInvariant ==
  \A c, base, f :
    /\ IsIteration(f, c, base)
    /\ Inv(c, 0, base)
    /\ \A k \in Nat : \A a : Inv(c, k, a) => Inv(c, k + 1, Op(c, a, k + 1))
    => \A n \in Nat : Inv(c, n, f[n])
<1> SUFFICES ASSUME NEW c, NEW base, NEW f, IsIteration(f, c, base), Inv(c, 0, base),
                    \A k \in Nat : \A a : Inv(c, k, a) => Inv(c, k + 1, Op(c, a, k + 1))
             PROVE  \A n \in Nat : Inv(c, n, f[n])
  OBVIOUS
<1> DEFINE S == {n \in Nat : Inv(c, n, f[n])}
<1>0. \A n \in Nat : f[n] = IF n = 0 THEN base ELSE Op(c, f[n - 1], n)
  BY Zenon DEF IsIteration
<1>1. 0 \in S
  BY <1>0
<1>2. ASSUME NEW n \in Nat, n \in S PROVE n + 1 \in S
  <2>1. n + 1 \in Nat /\ n + 1 # 0 /\ (n + 1) - 1 = n
    OBVIOUS
  <2>2. f[n + 1] = Op(c, f[n], n + 1)
    BY <1>0, <2>1
  <2> QED
    BY <1>2, <2>1, <2>2
<1> HIDE DEF S
<1>3. \A n \in Nat : n \in S
  BY <1>1, <1>2, SetInduction
<1> QED
  BY <1>3 DEF S

-----------------------------------------------------------------------------
(****************************************************************************)
(* Fixpoints.  Iterating a monotone operator on the subsets of a set S      *)
(* reaches a fixpoint within N turns, from {} and from S, if the subsets    *)
(* have sizes up to N that grow with them.                                  *)
(****************************************************************************)
IsSize(size, S, N) ==
  /\ N \in Nat /\ size \in [SUBSET S -> 0 .. N]
  /\ \A X, Y \in SUBSET S : X \subseteq Y /\ X # Y => size[X] < size[Y]

IsMonotone(c, S) ==
  /\ \A n \in Nat, X \in SUBSET S : Op(c, X, n) = Op(c, X, 0)
  /\ \A X \in SUBSET S : Op(c, X, 0) \in SUBSET S
  /\ \A X, Y \in SUBSET S : X \subseteq Y => Op(c, X, 0) \subseteq Op(c, Y, 0)

LEMMA IterationOfMonotone ==
  \A c, S, base, f :
    IsMonotone(c, S) /\ base \in SUBSET S /\ IsIteration(f, c, base)
    => f[0] = base /\ \A n \in Nat : f[n] \in SUBSET S /\ f[n + 1] = Op(c, f[n], 0)
<1> SUFFICES ASSUME NEW c, NEW S, NEW base, NEW f, IsMonotone(c, S), base \in SUBSET S, IsIteration(f, c, base)
             PROVE  f[0] = base /\ \A n \in Nat : f[n] \in SUBSET S /\ f[n + 1] = Op(c, f[n], 0)
  OBVIOUS
<1>1. \A n \in Nat : f[n] = IF n = 0 THEN base ELSE Op(c, f[n - 1], n)
  BY Zenon DEF IsIteration
<1>2. f[0] = base
  BY <1>1
<1>3. \A n \in Nat : f[n + 1] = Op(c, f[n], n + 1)
  <2>1. ASSUME NEW n \in Nat PROVE f[n + 1] = Op(c, f[n], n + 1)
    <3>1. n + 1 \in Nat /\ n + 1 # 0 /\ (n + 1) - 1 = n
      OBVIOUS
    <3> QED
      BY <1>1, <3>1
  <2> QED
    BY <2>1
<1>4. \A n \in Nat, X \in SUBSET S : Op(c, X, n + 1) = Op(c, X, 0) /\ Op(c, X, 0) \in SUBSET S
  BY DEF IsMonotone
<1>5. ASSUME NEW n \in Nat, f[n] \in SUBSET S
      PROVE  f[n + 1] = Op(c, f[n], 0) /\ f[n + 1] \in SUBSET S
  <2>1. f[n + 1] = Op(c, f[n], n + 1)
    BY <1>3
  <2>2. Op(c, f[n], n + 1) = Op(c, f[n], 0) /\ Op(c, f[n], 0) \in SUBSET S
    BY <1>4, <1>5
  <2> QED
    BY <2>1, <2>2
<1> DEFINE T == {n \in Nat : f[n] \in SUBSET S}
<1>6. \A n \in Nat : n \in T
  <2>1. 0 \in T
    BY <1>2
  <2>2. \A n \in Nat : n \in T => n + 1 \in T
    BY <1>5
  <2> HIDE DEF T
  <2> QED
    BY <2>1, <2>2, SetInduction
<1> QED
  BY <1>2, <1>5, <1>6

\* The iteration from the empty set climbs to a fixpoint.
THEOREM LeastIsFixpoint ==
  \A c, S, size, N, f :
    IsSize(size, S, N) /\ IsMonotone(c, S) /\ IsIteration(f, c, {})
    => f[N] \in SUBSET S /\ Op(c, f[N], 0) = f[N]
<1> SUFFICES ASSUME NEW c, NEW S, NEW size, NEW N, IsSize(size, S, N), IsMonotone(c, S),
                    NEW f, IsIteration(f, c, {})
             PROVE  f[N] \in SUBSET S /\ Op(c, f[N], 0) = f[N]
  OBVIOUS
<1>1. f[0] = {} /\ \A n \in Nat : f[n] \in SUBSET S /\ f[n + 1] = Op(c, f[n], 0)
  <2> DEFINE base == {}
  <2>1. base \in SUBSET S /\ IsIteration(f, c, base)
    OBVIOUS
  <2> HIDE DEF base
  <2>2. f[0] = base /\ \A n \in Nat : f[n] \in SUBSET S /\ f[n + 1] = Op(c, f[n], 0)
    BY <2>1, IterationOfMonotone
  <2> QED
    BY <2>2 DEF base
<1>2. N \in Nat /\ \A n \in Nat : size[f[n]] \in Nat /\ size[f[n]] <= N
  <2>1. \A X \in SUBSET S : size[X] \in 0 .. N
    BY DEF IsSize
  <2> QED
    BY <1>1, <2>1 DEF IsSize
<1> DEFINE T == {n \in Nat : f[n] \subseteq f[n + 1] /\ (f[n + 1] = f[n] \/ size[f[n]] >= n)}
<1>3. 0 \in T
  <2>1. f[0] \subseteq f[0 + 1]
    BY <1>1
  <2> QED
    BY <1>2, <2>1
<1>4. ASSUME NEW n \in Nat, n \in T PROVE n + 1 \in T
  <2>1. f[n] \subseteq f[n + 1] /\ f[n] \in SUBSET S /\ f[n + 1] \in SUBSET S
    BY <1>1, <1>4
  <2>2. f[n + 1] = Op(c, f[n], 0) /\ f[(n + 1) + 1] = Op(c, f[n + 1], 0)
    BY <1>1
  <2>3. f[n + 1] \subseteq f[(n + 1) + 1]
    BY <2>1, <2>2 DEF IsMonotone
  <2>4. CASE f[n + 1] = f[n]
    BY <2>2, <2>3, <2>4
  <2>5. CASE f[n + 1] # f[n]
    <3>1. size[f[n]] >= n
      BY <1>4, <2>5
    <3>2. size[f[n]] < size[f[n + 1]]
      BY <2>1, <2>5 DEF IsSize
    <3>3. size[f[n]] \in Nat /\ size[f[n + 1]] \in Nat
      BY <1>2
    <3>4. size[f[n + 1]] >= n + 1
      BY <3>1, <3>2, <3>3
    <3> QED
      BY <2>3, <3>4
  <2> QED
    BY <2>4, <2>5
<1>5. \A n \in Nat : n \in T
  <2> HIDE DEF T
  <2> QED
    BY <1>3, <1>4, SetInduction
<1>6. f[N + 1] = f[N]
  <2>1. f[N] \subseteq f[N + 1] /\ (f[N + 1] = f[N] \/ size[f[N]] >= N)
    BY <1>2, <1>5
  <2>2. f[N] # f[N + 1] => size[f[N]] < size[f[N + 1]]
    <3>1. f[N] \in SUBSET S /\ f[N + 1] \in SUBSET S
      BY <1>1, <1>2
    <3> QED
      BY <2>1, <3>1 DEF IsSize
  <2>3. size[f[N]] \in Nat /\ size[f[N + 1]] \in Nat /\ size[f[N + 1]] <= N
    BY <1>2
  <2> QED
    BY <1>2, <2>1, <2>2, <2>3
<1> QED
  BY <1>1, <1>2, <1>6

\* The iteration from the whole set sinks to a fixpoint.
THEOREM GreatestIsFixpoint ==
  \A c, S, size, N, f :
    IsSize(size, S, N) /\ IsMonotone(c, S) /\ IsIteration(f, c, S)
    => f[N] \in SUBSET S /\ Op(c, f[N], 0) = f[N]
<1> SUFFICES ASSUME NEW c, NEW S, NEW size, NEW N, IsSize(size, S, N), IsMonotone(c, S),
                    NEW f, IsIteration(f, c, S)
             PROVE  f[N] \in SUBSET S /\ Op(c, f[N], 0) = f[N]
  OBVIOUS
<1>1. f[0] = S /\ \A n \in Nat : f[n] \in SUBSET S /\ f[n + 1] = Op(c, f[n], 0)
  <2> DEFINE base == S
  <2>1. base \in SUBSET S /\ IsIteration(f, c, base)
    OBVIOUS
  <2> HIDE DEF base
  <2>2. f[0] = base /\ \A n \in Nat : f[n] \in SUBSET S /\ f[n + 1] = Op(c, f[n], 0)
    BY <2>1, IterationOfMonotone
  <2> QED
    BY <2>2 DEF base
<1>2. N \in Nat /\ \A n \in Nat : size[f[n]] \in Nat /\ size[f[n]] <= N
  <2>1. \A X \in SUBSET S : size[X] \in 0 .. N
    BY DEF IsSize
  <2> QED
    BY <1>1, <2>1 DEF IsSize
<1> DEFINE T == {n \in Nat : f[n + 1] \subseteq f[n] /\ (f[n + 1] = f[n] \/ size[f[n]] + n <= N)}
<1>3. 0 \in T
  <2>1. f[0 + 1] \subseteq f[0] /\ size[f[0]] <= N
    BY <1>1, <1>2
  <2> QED
    BY <1>2, <2>1
<1>4. ASSUME NEW n \in Nat, n \in T PROVE n + 1 \in T
  <2>1. f[n + 1] \subseteq f[n] /\ f[n] \in SUBSET S /\ f[n + 1] \in SUBSET S
    BY <1>1, <1>4
  <2>2. f[n + 1] = Op(c, f[n], 0) /\ f[(n + 1) + 1] = Op(c, f[n + 1], 0)
    <3>1. n + 1 \in Nat
      OBVIOUS
    <3> QED
      BY <1>1, <3>1, Zenon
  <2>3. f[(n + 1) + 1] \subseteq f[n + 1]
    BY <2>1, <2>2 DEF IsMonotone
  <2>4. CASE f[n + 1] = f[n]
    BY <2>2, <2>3, <2>4
  <2>5. CASE f[n + 1] # f[n]
    <3>1. size[f[n]] + n <= N
      BY <1>4, <2>5
    <3>2. size[f[n + 1]] < size[f[n]]
      BY <2>1, <2>5 DEF IsSize
    <3>3. size[f[n]] \in Nat /\ size[f[n + 1]] \in Nat /\ N \in Nat
      BY <1>2
    <3>4. size[f[n + 1]] + (n + 1) <= N
      BY <3>1, <3>2, <3>3
    <3> QED
      BY <2>3, <3>4
  <2> QED
    BY <2>4, <2>5
<1>5. \A n \in Nat : n \in T
  <2> HIDE DEF T
  <2> QED
    BY <1>3, <1>4, SetInduction
<1>6. f[N + 1] = f[N]
  <2>1. f[N + 1] \subseteq f[N] /\ (f[N + 1] = f[N] \/ size[f[N]] + N <= N)
    BY <1>2, <1>5
  <2>2. f[N + 1] # f[N] => size[f[N + 1]] < size[f[N]]
    <3>1. f[N] \in SUBSET S /\ f[N + 1] \in SUBSET S
      BY <1>1, <1>2
    <3> QED
      BY <2>1, <3>1 DEF IsSize
  <2>3. size[f[N]] \in Nat /\ size[f[N + 1]] \in Nat
    BY <1>2
  <2> QED
    BY <1>2, <2>1, <2>2, <2>3
<1> QED
  BY <1>1, <1>2, <1>6

=============================================================================
