-------------------------- MODULE CompositionProofs --------------------------
(****************************************************************************)
(* Proofs about the composition, from the inside out: the key of a tuple    *)
(* does not depend on the order the table holds; the table is a set of      *)
(* tuples with their numbers, through every split; the odometer tries the   *)
(* combinations of a tuple one after another; the alphabet and the labels   *)
(* are what their folds compute; then the invariant of the exploration      *)
(* (NumbersInv, FrontierInv, ArcsInv), of the valuations (MarksInv) and of  *)
(* the product (ProductInv), and last that the arcs of the result are those *)
(* of the product.                                                          *)
(****************************************************************************)
EXTENDS Composition, FiniteSetTheorems, SequenceTheorems, TLAPS

-----------------------------------------------------------------------------
(****************************************************************************)
(* The key of a composite state.  The order that the table keeps is that of *)
(* the last state it was computed for; OrderIsKept tells whether the next   *)
(* state has the same one, and so each state has one key.                   *)
(****************************************************************************)
PlacesBefore(states) == {p \in Place \X Place : Before(states, p[1], p[2])}
Vector == [Place -> Nat]

NumeralTurn(c, key, i) == key * 2 ^ Length(c[i]) + c[i]
OrderTurn(c, key, i) ==
  key + (c[i] - 1) * Factorial[IF i = 1 THEN ComponentsCount ELSE ComponentsCount + 1 - i]
FlagTurn(c, key, i) == key * 2 + (IF c[i] THEN 1 ELSE 0)
SumTurn(c, sum, state) == sum + state
Natural(c, k, a) == a \in Nat
FactorialTurn(c, a, n) == n * a

Numerals == INSTANCE Iteration WITH Op <- NumeralTurn, Inv <- Natural
Orders == INSTANCE Iteration WITH Op <- OrderTurn, Inv <- Natural
Flags == INSTANCE Iteration WITH Op <- FlagTurn, Inv <- Natural
Sums == INSTANCE Iteration WITH Op <- SumTurn, Inv <- Natural
Factorials == INSTANCE Iteration WITH Op <- FactorialTurn, Inv <- Natural

LEMMA PlaceFacts ==
  /\ ComponentsCount \in Nat \ {0} /\ IsFiniteSet(Place) /\ Cardinality(Place) = ComponentsCount
  /\ Place = 1 .. ComponentsCount
BY CompositeTableAssumption, FS_Interval DEF Place

-----------------------------------------------------------------------------
(****************************************************************************)
(* Sorting.  The members of a finite set with a strict total order R can be *)
(* listed in that order, and in one way only: the place of a member is told *)
(* by how many are below it.                                                *)
(****************************************************************************)
IsOrder(S, R) ==
  /\ \A x \in S : <<x, x>> \notin R
  /\ \A x, y \in S : x # y => <<x, y>> \in R \/ <<y, x>> \in R
  /\ \A x, y, z \in S : <<x, y>> \in R /\ <<y, z>> \in R => <<x, z>> \in R

BelowIn(S, R, x) == {y \in S : <<y, x>> \in R}

InOrder(S, R, f) ==
  /\ f \in [1 .. Cardinality(S) -> S]
  /\ \A x \in S : \E i \in 1 .. Cardinality(S) : f[i] = x
  /\ \A i, k \in 1 .. Cardinality(S) : i < k => <<f[i], f[k]>> \in R

LEMMA BelowCounts ==
  ASSUME NEW S, IsFiniteSet(S), NEW R, IsOrder(S, R)
  PROVE  /\ \A x \in S : Cardinality(BelowIn(S, R, x)) \in 0 .. Cardinality(S) - 1
         /\ \A x, y \in S : <<x, y>> \in R
              => Cardinality(BelowIn(S, R, x)) < Cardinality(BelowIn(S, R, y))
<1> DEFINE n == Cardinality(S)
           B(x) == BelowIn(S, R, x)
<1>1. n \in Nat
  BY FS_CardinalityType
<1>2. \A x \in S : IsFiniteSet(B(x)) /\ Cardinality(B(x)) \in Nat
  <2>1. \A x \in S : B(x) \in SUBSET S
    BY DEF BelowIn
  <2> QED
    BY <2>1, FS_Subset, FS_CardinalityType
<1>3. ASSUME NEW x \in S PROVE Cardinality(B(x)) \in 0 .. n - 1
  <2>1. B(x) \in SUBSET (S \ {x})
    BY DEF BelowIn, IsOrder
  <2>2. IsFiniteSet(S \ {x}) /\ Cardinality(S \ {x}) = n - 1
    BY FS_RemoveElement
  <2>3. Cardinality(B(x)) <= n - 1
    <3> HIDE DEF B, n
    <3> QED
      BY <2>1, <2>2, FS_Subset
  <2> HIDE DEF n, B
  <2> QED
    BY <1>1, <1>2, <2>3
<1>4. ASSUME NEW x \in S, NEW y \in S, <<x, y>> \in R
      PROVE  Cardinality(B(x)) < Cardinality(B(y))
  <2>1. B(x) \in SUBSET B(y) /\ x \in B(y) /\ x \notin B(x)
    BY <1>4 DEF BelowIn, IsOrder
  <2>2. B(x) # B(y)
    BY <2>1
  <2>3. Cardinality(B(x)) <= Cardinality(B(y)) /\ Cardinality(B(x)) # Cardinality(B(y))
    <3> HIDE DEF B
    <3> QED
      BY <1>2, <2>1, <2>2, FS_Subset
  <2> HIDE DEF B
  <2> QED
    BY <1>2, <2>3
<1> QED
  BY <1>3, <1>4

LEMMA SortedExists ==
  ASSUME NEW S, IsFiniteSet(S), NEW R, IsOrder(S, R)
  PROVE  \E f : InOrder(S, R, f)
<1> DEFINE n == Cardinality(S)
           rank == [x \in S |-> Cardinality(BelowIn(S, R, x)) + 1]
           f == [i \in 1 .. n |-> CHOOSE x \in S : rank[x] = i]
<1>1. n \in Nat
  BY FS_CardinalityType
<1>2. \A x \in S : rank[x] \in 1 .. n
  <2>1. \A x \in S : Cardinality(BelowIn(S, R, x)) \in 0 .. n - 1
    BY BelowCounts
  <2> HIDE DEF n
  <2> QED
    BY <1>1, <2>1
<1>3. \A x, y \in S : <<x, y>> \in R => rank[x] < rank[y]
  <2>1. \A x \in S : Cardinality(BelowIn(S, R, x)) \in 0 .. n - 1
    BY BelowCounts
  <2>2. \A x, y \in S : <<x, y>> \in R
          => Cardinality(BelowIn(S, R, x)) < Cardinality(BelowIn(S, R, y))
    BY BelowCounts
  <2> HIDE DEF n
  <2> QED
    BY <1>1, <2>1, <2>2
<1>4. rank \in [S -> 1 .. n]
  <2>1. rank = [x \in S |-> rank[x]]
    OBVIOUS
  <2> HIDE DEF rank
  <2> QED
    BY <1>2, <2>1
<1> HIDE DEF rank
<1>5. ASSUME NEW x \in S, NEW y \in S, rank[x] = rank[y] PROVE x = y
  <2>1. ~ (rank[x] < rank[y]) /\ ~ (rank[y] < rank[x])
    BY <1>1, <1>2, <1>5
  <2>2. <<x, y>> \notin R /\ <<y, x>> \notin R
    BY <1>3, <2>1
  <2> QED
    BY <2>2 DEF IsOrder
<1>6. rank \in Surjection(S, 1 .. n)
  <2>1. rank \in Injection(S, 1 .. n)
    BY <1>4, <1>5 DEF Injection, IsInjective
  <2>2. IsFiniteSet(1 .. n) /\ Cardinality(1 .. n) = n
    BY <1>1, FS_Interval
  <2> QED
    BY <2>1, <2>2, FS_Injection
<1>7. \A i \in 1 .. n : f[i] \in S /\ rank[f[i]] = i
  BY <1>6 DEF Surjection
<1>8. f \in [1 .. n -> S]
  <2>1. f = [i \in 1 .. n |-> f[i]]
    OBVIOUS
  <2> HIDE DEF f
  <2> QED
    BY <1>7, <2>1
<1> HIDE DEF f
<1>9. ASSUME NEW x \in S PROVE \E i \in 1 .. n : f[i] = x
  BY <1>2, <1>5, <1>7
<1>10. ASSUME NEW i \in 1 .. n, NEW k \in 1 .. n, i < k PROVE <<f[i], f[k]>> \in R
  <2>1. f[i] # f[k] /\ ~ (rank[f[k]] < rank[f[i]])
    BY <1>1, <1>7, <1>10
  <2> QED
    BY <1>3, <1>7, <2>1 DEF IsOrder
<1> QED
  BY <1>8, <1>9, <1>10 DEF InOrder

\* In a sorted list the item i has i - 1 members below it.
LEMMA SortedRank ==
  ASSUME NEW S, IsFiniteSet(S), NEW R, IsOrder(S, R), NEW f, InOrder(S, R, f),
         NEW i \in 1 .. Cardinality(S)
  PROVE  Cardinality(BelowIn(S, R, f[i])) = i - 1
<1> DEFINE n == Cardinality(S)
           g == [k \in 1 .. i - 1 |-> f[k]]
           B == BelowIn(S, R, f[i])
<1>1. n \in Nat /\ i \in 1 .. n
  BY FS_CardinalityType
<1>2. /\ \A k \in 1 .. n : f[k] \in S
      /\ \A k, m \in 1 .. n : k < m => <<f[k], f[m]>> \in R
      /\ \A x \in S : \E k \in 1 .. n : f[k] = x
  BY DEF InOrder
<1> HIDE DEF n
<1>3. \A k \in 1 .. i - 1 : k \in 1 .. n /\ k < i
  BY <1>1
<1>4. g \in [1 .. i - 1 -> B]
  BY <1>1, <1>2, <1>3 DEF BelowIn
<1>5. \A k, m \in 1 .. i - 1 : g[k] = g[m] => k = m
  <2>1. ASSUME NEW k \in 1 .. i - 1, NEW m \in 1 .. i - 1, g[k] = g[m], k # m PROVE FALSE
    <3>1. k < m \/ m < k
      BY <1>1, <2>1
    <3>2. k \in 1 .. n /\ m \in 1 .. n /\ f[k] = f[m]
      BY <1>3, <2>1
    <3> QED
      BY <1>2, <3>1, <3>2 DEF IsOrder
  <2> QED
    BY <2>1
<1>6. ASSUME NEW x \in B PROVE \E k \in 1 .. i - 1 : g[k] = x
  <2>1. x \in S /\ <<x, f[i]>> \in R
    BY <1>6 DEF BelowIn
  <2>2. PICK k \in 1 .. n : f[k] = x
    BY <1>2, <2>1
  <2>3. k < i
    <3>1. CASE i < k
      <4>1. <<f[i], f[k]>> \in R /\ <<f[k], f[i]>> \in R /\ f[i] \in S /\ f[k] \in S
        BY <1>1, <1>2, <2>1, <2>2, <3>1
      <4> QED
        BY <4>1 DEF IsOrder
    <3>2. CASE i = k
      BY <1>1, <1>2, <2>1, <2>2, <3>2 DEF IsOrder
    <3> QED
      BY <1>1, <3>1, <3>2
  <2>4. k \in 1 .. i - 1
    BY <1>1, <2>3
  <2> QED
    BY <2>2, <2>4
<1>7. ExistsBijection(1 .. i - 1, B)
  <2> HIDE DEF B, g
  <2>1. g \in Bijection(1 .. i - 1, B)
    BY <1>4, <1>5, <1>6 DEF Bijection, Injection, Surjection, IsInjective
  <2> QED
    BY <2>1 DEF ExistsBijection
<1>8. i - 1 \in Nat
  BY <1>1
<1> HIDE DEF B
<1>9. Cardinality(B) = i - 1
  BY <1>7, <1>8, FS_CountingElements
<1> QED
  BY <1>9 DEF B

LEMMA SortedIsUnique ==
  ASSUME NEW S, IsFiniteSet(S), NEW R, IsOrder(S, R),
         NEW f, InOrder(S, R, f), NEW g, InOrder(S, R, g)
  PROVE  f = g
<1> DEFINE n == Cardinality(S)
<1>1. n \in Nat
  BY FS_CardinalityType
<1>2. ASSUME NEW i \in 1 .. n PROVE f[i] = g[i]
  <2>1. Cardinality(BelowIn(S, R, f[i])) = i - 1 /\ Cardinality(BelowIn(S, R, g[i])) = i - 1
    BY SortedRank
  <2>2. f[i] \in S /\ g[i] \in S
    BY DEF InOrder
  <2>3. ~ (i - 1 < i - 1)
    BY <1>1
  <2>4. <<f[i], g[i]>> \notin R /\ <<g[i], f[i]>> \notin R
    BY <2>1, <2>2, <2>3, BelowCounts
  <2> QED
    BY <2>2, <2>4 DEF IsOrder
<1>3. f \in [1 .. n -> S] /\ g \in [1 .. n -> S]
  BY DEF InOrder
<1> HIDE DEF n
<1>4. f = [i \in 1 .. n |-> f[i]] /\ g = [i \in 1 .. n |-> g[i]]
  BY <1>3
<1>5. [i \in 1 .. n |-> f[i]] = [i \in 1 .. n |-> g[i]]
  BY <1>2
<1> QED
  BY <1>4, <1>5

LEMMA BeforeIsOrder ==
  ASSUME NEW states \in Vector
  PROVE  IsOrder(Place, PlacesBefore(states))
<1>1. \A i \in Place : i \in Nat /\ states[i] \in Nat
  BY PlaceFacts DEF Vector
<1>2. \A i, k \in Place : <<i, k>> \in PlacesBefore(states) <=>
        states[i] > states[k] \/ (states[i] = states[k] /\ i > k)
  BY DEF PlacesBefore, Before
<1> QED
  BY <1>1, <1>2 DEF IsOrder

\* To compare neighbours is enough.
LEMMA SortedByNeighbours ==
  ASSUME NEW states \in Vector, NEW order \in PlaceOrders,
         \A i \in 2 .. ComponentsCount : Before(states, order[i - 1], order[i])
  PROVE  InOrder(Place, PlacesBefore(states), order)
<1> DEFINE n == ComponentsCount
           R == PlacesBefore(states)
           T == {d \in Nat : \A i \in 1 .. n : i + d + 1 <= n => <<order[i], order[i + d + 1]>> \in R}
<1>1. n \in Nat \ {0} /\ Place = 1 .. n /\ Cardinality(Place) = n /\ IsFiniteSet(Place)
  BY PlaceFacts
<1>2. order \in [Place -> Place] /\ \A i, k \in Place : order[i] = order[k] => i = k
  BY DEF PlaceOrders, IsInjective
<1>3. \A i \in 2 .. n : <<order[i - 1], order[i]>> \in R
  BY <1>1, <1>2 DEF PlacesBefore
<1>4. \A x, y, z \in Place : <<x, y>> \in R /\ <<y, z>> \in R => <<x, z>> \in R
  BY BeforeIsOrder DEF IsOrder
<1> HIDE DEF R, n
<1>5. 0 \in T
  <2>1. ASSUME NEW i \in 1 .. n, i + 0 + 1 <= n PROVE <<order[i], order[i + 0 + 1]>> \in R
    <3>1. i + 1 \in 2 .. n /\ (i + 1) - 1 = i /\ i + 0 + 1 = i + 1
      BY <1>1, <2>1
    <3> QED
      BY <1>3, <3>1
  <2> QED
    BY <2>1
<1>6. ASSUME NEW d \in Nat, d \in T PROVE d + 1 \in T
  <2>1. ASSUME NEW i \in 1 .. n, i + (d + 1) + 1 <= n PROVE <<order[i], order[i + (d + 1) + 1]>> \in R
    <3> DEFINE k == i + d + 1
    <3>1. k \in Place /\ i \in Place /\ k + 1 \in 2 .. n /\ (k + 1) - 1 = k /\ k + 1 = i + (d + 1) + 1
          /\ k <= n /\ k + 1 \in Place
      BY <1>1, <2>1
    <3>2. <<order[i], order[k]>> \in R
      BY <1>6, <3>1
    <3> HIDE DEF k
    <3>3. <<order[k], order[k + 1]>> \in R
      BY <1>3, <3>1
    <3>4. order[i] \in Place /\ order[k] \in Place /\ order[k + 1] \in Place
      BY <1>2, <3>1
    <3> QED
      BY <1>4, <3>1, <3>2, <3>3, <3>4
  <2> QED
    BY <2>1
<1>7. \A d \in Nat : d \in T
  <2> HIDE DEF T
  <2> QED
    BY <1>5, <1>6, Orders!SetInduction
<1>8. ASSUME NEW i \in 1 .. n, NEW k \in 1 .. n, i < k PROVE <<order[i], order[k]>> \in R
  <2> DEFINE d == k - i - 1
  <2>1. d \in Nat /\ i + d + 1 = k /\ k <= n
    BY <1>1, <1>8
  <2> QED
    BY <1>7, <2>1
<1>9. ASSUME NEW x \in Place PROVE \E i \in 1 .. n : order[i] = x
  <2>1. order \in Injection(Place, Place)
    BY <1>2 DEF Injection, IsInjective
  <2>2. order \in Surjection(Place, Place)
    BY <1>1, <2>1, FS_Injection
  <2> QED
    BY <1>1, <2>2 DEF Surjection
<1> QED
  BY <1>1, <1>2, <1>8, <1>9 DEF InOrder, n, R

LEMMA ValueOrderIsSorted ==
  ASSUME NEW states \in Vector
  PROVE  /\ ValueOrder(states) \in PlaceOrders
         /\ \A i \in 2 .. ComponentsCount : Before(states, ValueOrder(states)[i - 1], ValueOrder(states)[i])
         /\ \A order \in PlaceOrders :
              (\A i \in 2 .. ComponentsCount : Before(states, order[i - 1], order[i]))
              => order = ValueOrder(states)
<1> DEFINE n == ComponentsCount
           R == PlacesBefore(states)
           IsIt(order) == \A i \in 2 .. n : Before(states, order[i - 1], order[i])
<1>1. n \in Nat \ {0} /\ Place = 1 .. n /\ Cardinality(Place) = n /\ IsFiniteSet(Place)
  BY PlaceFacts
<1>2. IsOrder(Place, R)
  BY BeforeIsOrder
<1>3. PICK f : InOrder(Place, R, f)
  BY <1>1, <1>2, SortedExists
<1>4. f \in PlaceOrders /\ IsIt(f)
  <2>1. /\ f \in [Place -> Place]
        /\ \A i, k \in 1 .. n : i < k => <<f[i], f[k]>> \in R
    BY <1>1, <1>3 DEF InOrder
  <2>2. ASSUME NEW i \in Place, NEW k \in Place, f[i] = f[k] PROVE i = k
    <3>1. f[i] \in Place /\ <<f[i], f[i]>> \notin R
      BY <1>2, <2>1 DEF IsOrder
    <3>2. ~ (i < k) /\ ~ (k < i)
      BY <1>1, <2>1, <2>2, <3>1
    <3> QED
      BY <1>1, <3>2
  <2>3. f \in PlaceOrders
    BY <2>1, <2>2 DEF PlaceOrders, IsInjective
  <2>4. ASSUME NEW i \in 2 .. n PROVE Before(states, f[i - 1], f[i])
    <3>1. i - 1 \in 1 .. n /\ i \in 1 .. n /\ i - 1 < i
      BY <1>1
    <3>2. <<f[i - 1], f[i]>> \in R
      BY <2>1, <3>1
    <3> QED
      BY <3>2 DEF PlacesBefore
  <2> QED
    BY <2>3, <2>4
<1>5. ValueOrder(states) = CHOOSE order \in PlaceOrders : IsIt(order)
  BY DEF ValueOrder
<1> HIDE DEF IsIt
<1>6. ValueOrder(states) \in PlaceOrders /\ IsIt(ValueOrder(states))
  BY <1>4, <1>5
<1>7. ASSUME NEW order \in PlaceOrders, IsIt(order) PROVE order = ValueOrder(states)
  <2>1. InOrder(Place, R, order) /\ InOrder(Place, R, ValueOrder(states))
    BY <1>6, <1>7, SortedByNeighbours DEF IsIt
  <2> HIDE DEF R
  <2> QED
    BY <1>1, <1>2, <2>1, SortedIsUnique
<1> QED
  BY <1>6, <1>7 DEF IsIt

-----------------------------------------------------------------------------
(****************************************************************************)
(* Numbers: powers of 2, slots and keys.                                    *)
(****************************************************************************)
Pow(b) == 2 ^ b
Digits == 0 .. 30
Hashes == 0 .. Pow(16) - 1

LEMMA PowerOf == \A b : 2 ^ b = Pow(b)
BY DEF Pow

LEMMA PowerFacts ==
  /\ Pow(0) = 1 /\ Pow(16) = 65536 /\ 2 ^ 16 = 65536
  /\ \A b \in Digits : Pow(b) \in Nat /\ Pow(b) # 0
  /\ \A b \in Digits : b # 30 => Pow(b + 1) = 2 * Pow(b)
<1>1. Pow(0) = 1 /\ Pow(16) = 65536 /\ 2 ^ 16 = 65536
  BY DEF Pow
<1>2. \A b \in 0 .. 29 : Pow(b) \in Nat \ {0} /\ Pow(b + 1) = 2 * Pow(b)
  BY PowersAssumption DEF Pow
<1>3. ASSUME NEW b \in Digits PROVE Pow(b) \in Nat \ {0}
  <2>1. CASE b \in 0 .. 29
    BY <1>2, <2>1
  <2>2. CASE b = 30
    <3>1. 29 \in 0 .. 29 /\ 29 + 1 = 30
      OBVIOUS
    <3>2. Pow(29 + 1) = 2 * Pow(29) /\ Pow(29) \in Nat \ {0}
      BY <1>2, <3>1
    <3> QED
      BY <2>2, <3>1, <3>2
  <2> QED
    BY <2>1, <2>2 DEF Digits
<1>4. \A b \in Digits : b # 30 => b \in 0 .. 29
  BY DEF Digits
<1> QED
  BY <1>1, <1>2, <1>3, <1>4

LEMMA PowersMultiply == \A b \in 0 .. 16 : Pow(16 - b) * Pow(b) = 65536
<1> DEFINE S == {b \in Nat : b <= 16 => Pow(16 - b) * Pow(b) = 65536}
<1>1. 0 \in S
  <2>1. 16 - 0 = 16
    OBVIOUS
  <2> QED
    BY <2>1, PowerFacts
<1>2. ASSUME NEW b \in Nat, b \in S PROVE b + 1 \in S
  <2> SUFFICES ASSUME b + 1 <= 16 PROVE Pow(16 - (b + 1)) * Pow(b + 1) = 65536
    OBVIOUS
  <2> DEFINE d == 16 - (b + 1)
  <2>1. d \in Digits /\ d # 30 /\ d + 1 = 16 - b /\ b \in Digits /\ b # 30
    BY DEF Digits
  <2>2. Pow(d + 1) * Pow(b) = 65536
    BY <1>2, <2>1
  <2> HIDE DEF d
  <2>3. Pow(d + 1) = 2 * Pow(d) /\ Pow(b + 1) = 2 * Pow(b) /\ Pow(d) \in Nat /\ Pow(b) \in Nat
    BY <2>1, PowerFacts
  <2>4. \A x, y \in Nat : (2 * x) * y = x * (2 * y)
    OBVIOUS
  <2>5. (2 * Pow(d)) * Pow(b) = Pow(d) * (2 * Pow(b))
    BY <2>3, <2>4
  <2>6. Pow(d) * Pow(b + 1) = 65536
    BY <2>2, <2>3, <2>5
  <2> QED
    BY <2>6 DEF d
<1>3. \A b \in Nat : b \in S
  <2> HIDE DEF S
  <2> QED
    BY <1>1, <1>2, Orders!SetInduction
<1> QED
  BY <1>3

LEMMA Quotients ==
  /\ \A a, x, y \in Nat : x # 0 /\ a < x * y => a \div x \in 0 .. y - 1
  /\ \A a, x \in Nat : x # 0 => (a \div x) \div 2 = a \div (2 * x)
<1>1. ASSUME NEW a \in Nat, NEW x \in Nat, NEW y \in Nat, x # 0, a < x * y
      PROVE  a \div x \in 0 .. y - 1
  <2> DEFINE q == a \div x
  <2>1. q \in Nat
    BY <1>1
  <2>2. x * q <= a
    BY <1>1
  <2> HIDE DEF q
  <2>3. ASSUME q >= y PROVE FALSE
    <3>1. x * q >= x * y
      <4>1. \A u, v, w \in Nat : u >= v => w * u >= w * v
        OBVIOUS
      <4> QED
        BY <2>1, <2>3, <4>1
    <3>2. x * q \in Nat /\ x * y \in Nat
      BY <2>1
    <3> QED
      BY <1>1, <2>2, <3>1, <3>2
  <2>4. q \in 0 .. y - 1
    BY <2>1, <2>3
  <2> QED
    BY <2>4 DEF q
<1>2. ASSUME NEW a \in Nat, NEW x \in Nat, x # 0 PROVE (a \div x) \div 2 = a \div (2 * x)
  BY <1>2
<1> QED
  BY <1>1, <1>2

LEMMA SlotFacts ==
  ASSUME NEW key \in Hashes, NEW l \in 0 .. 16
  PROVE  /\ Slot(key, l) \in 0 .. Pow(l) - 1
         /\ l < 16 => Slot(key, l + 1) \div 2 = Slot(key, l)
<1> DEFINE m == Pow(16 - l)
<1>1. 16 - l \in Digits /\ l \in Digits
  BY DEF Digits
<1>2. m \in Nat /\ m # 0 /\ Pow(l) \in Nat /\ m * Pow(l) = 65536
  BY <1>1, PowerFacts, PowersMultiply
<1>4. key \in Nat
  BY PowerFacts DEF Hashes
<1>7. key < 65536
  BY PowerFacts DEF Hashes
<1>3. Slot(key, l) = key \div m
  BY DEF Slot, Pow
<1>5. Slot(key, l) \in 0 .. Pow(l) - 1
  <2> HIDE DEF m
  <2>1. key \in Nat /\ key < m * Pow(l)
    BY <1>2, <1>4, <1>7
  <2>2. m \in Nat /\ m # 0 /\ Pow(l) \in Nat
    BY <1>2
  <2>3. key \div m \in 0 .. Pow(l) - 1
    BY <2>2, <2>1, Quotients, Zenon
  <2> QED
    BY <1>3, <2>3
<1>6. ASSUME l < 16 PROVE Slot(key, l + 1) \div 2 = Slot(key, l)
  <2> DEFINE h == Pow(16 - (l + 1))
  <2>1. 16 - (l + 1) \in Digits /\ 16 - (l + 1) # 30 /\ (16 - (l + 1)) + 1 = 16 - l
    BY <1>6 DEF Digits
  <2>2. Pow((16 - (l + 1)) + 1) = 2 * h /\ h \in Nat /\ h # 0
    BY <2>1, PowerFacts
  <2>3. m = 2 * h
    BY <2>1, <2>2
  <2>4. Slot(key, l + 1) = key \div h
    BY DEF Slot, Pow
  <2> HIDE DEF m, h
  <2>5. (key \div h) \div 2 = key \div (2 * h)
    BY <1>4, <2>2, Quotients, Zenon
  <2> QED
    BY <1>3, <2>3, <2>4, <2>5
<1> QED
  BY <1>5, <1>6

LEMMA DigitsOfNumbers ==
  \A n : Log(n) \in Digits /\ Length(n) \in Digits
<1>2. ASSUME NEW T \in SUBSET (0 .. 29) PROVE Cardinality(T) \in Digits
  <2>1. T \in SUBSET Nat /\ 29 \in Nat /\ \A b \in T : b <= 29
    OBVIOUS
  <2>2. IsFiniteSet(T) /\ Cardinality(T) <= 29 + 1
    BY <2>1, FS_BoundedSetOfNaturals
  <2>3. Cardinality(T) \in Nat
    BY <2>2, FS_CardinalityType
  <2> QED
    BY <2>2, <2>3 DEF Digits
<1> QED
  BY <1>2 DEF Log, Length

LEMMA FactorialIsNatural == \A n \in Nat : Factorial[n] \in Nat
<1> DEFINE c == <<>>
           f == CHOOSE g : Factorials!IsIteration(g, c, 1)
<1>1. Factorials!IsIteration(f, c, 1)
  BY Factorials!IterationExists, Zenon
<1>2. Factorial = f
  BY Zenon DEF Factorial, Factorials!IsIteration, FactorialTurn
<1> HIDE DEF f
<1>3. \A n \in Nat : f[n] = IF n = 0 THEN 1 ELSE n * f[n - 1]
  BY <1>1, Zenon DEF Factorials!IsIteration, FactorialTurn
<1>4. f[0] \in Nat
  BY <1>3
<1>5. ASSUME NEW n \in Nat, f[n] \in Nat PROVE f[n + 1] \in Nat
  <2>1. n + 1 \in Nat /\ n + 1 # 0 /\ (n + 1) - 1 = n
    OBVIOUS
  <2>2. f[n + 1] = (n + 1) * f[n]
    BY <1>3, <2>1
  <2> QED
    BY <1>5, <2>1, <2>2
<1> DEFINE S == {n \in Nat : f[n] \in Nat}
<1>6. \A n \in Nat : n \in S
  <2>1. 0 \in S /\ \A n \in Nat : n \in S => n + 1 \in S
    BY <1>4, <1>5
  <2> HIDE DEF S
  <2> QED
    BY <2>1, Factorials!SetInduction
<1> QED
  BY <1>2, <1>6

\* The parts of a key.
NumeralKey(states) ==
  FoldLeft(LAMBDA key, i : key * 2 ^ Length(states[i]) + states[i],
           states[1], [i \in 1 .. ComponentsCount - 1 |-> i + 1])
FlagKey(equality, base) ==
  FoldLeft(LAMBDA key, i : key * 2 + (IF equality[i] THEN 1 ELSE 0),
           base, [i \in 1 .. ComponentsCount - 1 |-> i + 1])

\* The folds of the key are of numbers, as long as a turn gives one.
LEMMA OrderKeyIsNatural ==
  ASSUME NEW order \in PlaceOrders
  PROVE  OrderKey(order) \in Nat
<1> DEFINE n == ComponentsCount
           list == [i \in Place |-> i]
           iter == CHOOSE it : Orders!IsFold(it, order, 0, list, DOMAIN list)
<1>1. n \in Nat /\ DOMAIN list = 1 .. n /\ \A k \in 0 .. n - 1 : list[k + 1] \in 1 .. n
  BY PlaceFacts
<1> HIDE DEF list
<1>2. FoldLeft(LAMBDA key, i : key + (order[i] - 1) * Factorial[IF i = 1 THEN ComponentsCount ELSE ComponentsCount + 1 - i],
               0, list) = iter[DOMAIN list]
  BY Zenon DEF FoldLeft, MapThenFoldSet, Max, Orders!IsFold, OrderTurn
<1>3. Orders!IsFold(iter, order, 0, list, 1 .. n)
  <2>1. \E it : Orders!IsFold(it, order, 0, list, 1 .. n)
    BY <1>1, Orders!FoldExists, Zenon
  <2> QED
    BY <1>1, <2>1, Zenon
<1> HIDE DEF iter
<1>4. ASSUME NEW k \in 0 .. n - 1, NEW a, Natural(order, k, a)
      PROVE  Natural(order, k + 1, OrderTurn(order, a, list[k + 1]))
  <2> DEFINE i == list[k + 1]
             m == IF i = 1 THEN ComponentsCount ELSE ComponentsCount + 1 - i
  <2>1. i \in 1 .. n /\ a \in Nat
    BY <1>1, <1>4 DEF Natural
  <2>2. order[i] \in 1 .. n
    BY <2>1, PlaceFacts DEF PlaceOrders
  <2>3. m \in Nat
    BY <2>1, PlaceFacts
  <2>4. Factorial[m] \in Nat
    BY <2>3, FactorialIsNatural
  <2>5. OrderTurn(order, a, i) = a + (order[i] - 1) * Factorial[m]
    BY DEF OrderTurn
  <2> HIDE DEF m, i
  <2>6. order[i] - 1 \in Nat
    BY <2>2
  <2>7. (order[i] - 1) * Factorial[m] \in Nat
    BY <2>4, <2>6
  <2> QED
    BY <2>1, <2>5, <2>7 DEF Natural, i
<1>5. Natural(order, 0, 0)
  BY DEF Natural
<1>6. Natural(order, n, iter[1 .. n])
  <2> HIDE DEF n
  <2> QED
    BY <1>1, <1>3, <1>4, <1>5, Orders!FoldInvariant, Zenon
<1>7. Natural(order, n, OrderKey(order))
  BY <1>1, <1>2, <1>6, Zenon DEF OrderKey, list
<1> QED
  BY <1>7 DEF Natural

LEMMA NumeralsAreNatural ==
  ASSUME NEW states \in Vector
  PROVE  NumeralKey(states) \in Nat
<1> DEFINE n == ComponentsCount - 1
           list == [i \in 1 .. ComponentsCount - 1 |-> i + 1]
           base == states[1]
           iter == CHOOSE it : Numerals!IsFold(it, states, base, list, DOMAIN list)
<1>1. n \in Nat /\ DOMAIN list = 1 .. n /\ \A k \in 0 .. n - 1 : list[k + 1] \in Place
  BY PlaceFacts
<1>2. base \in Nat
  BY PlaceFacts DEF Vector
<1> HIDE DEF list, base
<1>3. FoldLeft(LAMBDA key, i : key * 2 ^ Length(states[i]) + states[i], base, list) = iter[DOMAIN list]
  BY Zenon DEF FoldLeft, MapThenFoldSet, Max, Numerals!IsFold, NumeralTurn
<1>4. Numerals!IsFold(iter, states, base, list, 1 .. n)
  <2>1. \E it : Numerals!IsFold(it, states, base, list, 1 .. n)
    BY <1>1, Numerals!FoldExists, Zenon
  <2> QED
    BY <1>1, <2>1, Zenon
<1> HIDE DEF iter
<1>5. ASSUME NEW k \in 0 .. n - 1, NEW a, Natural(states, k, a)
      PROVE  Natural(states, k + 1, NumeralTurn(states, a, list[k + 1]))
  <2>1. list[k + 1] \in Place /\ a \in Nat
    BY <1>1, <1>5 DEF Natural
  <2>2. states[list[k + 1]] \in Nat
    BY <2>1 DEF Vector
  <2> DEFINE p == Pow(Length(states[list[k + 1]]))
  <2>3. p \in Nat
    BY DigitsOfNumbers, PowerFacts
  <2>4. NumeralTurn(states, a, list[k + 1]) = a * p + states[list[k + 1]]
    BY DEF NumeralTurn, Pow
  <2> HIDE DEF p
  <2>5. a * p \in Nat
    BY <2>1, <2>3
  <2> QED
    BY <2>2, <2>4, <2>5 DEF Natural
<1>6. Natural(states, 0, base)
  BY <1>2 DEF Natural
<1>7. Natural(states, n, iter[1 .. n])
  <2> HIDE DEF n
  <2> QED
    BY <1>1, <1>4, <1>5, <1>6, Numerals!FoldInvariant, Zenon
<1> QED
  BY <1>1, <1>3, <1>7, Zenon DEF Natural, NumeralKey, list, base

LEMMA FlagsAreNatural ==
  ASSUME NEW equality, NEW base \in Nat
  PROVE  FlagKey(equality, base) \in Nat
<1> DEFINE n == ComponentsCount - 1
           list == [i \in 1 .. ComponentsCount - 1 |-> i + 1]
           iter == CHOOSE it : Flags!IsFold(it, equality, base, list, DOMAIN list)
<1>1. n \in Nat /\ DOMAIN list = 1 .. n
  BY PlaceFacts
<1> HIDE DEF list
<1>3. FoldLeft(LAMBDA key, i : key * 2 + (IF equality[i] THEN 1 ELSE 0), base, list) = iter[DOMAIN list]
  BY Zenon DEF FoldLeft, MapThenFoldSet, Max, Flags!IsFold, FlagTurn
<1>4. Flags!IsFold(iter, equality, base, list, 1 .. n)
  <2>1. \E it : Flags!IsFold(it, equality, base, list, 1 .. n)
    BY <1>1, Flags!FoldExists, Zenon
  <2> QED
    BY <1>1, <2>1, Zenon
<1> HIDE DEF iter
<1>5. ASSUME NEW k \in 0 .. n - 1, NEW a, Natural(equality, k, a)
      PROVE  Natural(equality, k + 1, FlagTurn(equality, a, list[k + 1]))
  BY <1>5 DEF Natural, FlagTurn
<1>6. Natural(equality, 0, base)
  BY DEF Natural
<1>7. Natural(equality, n, iter[1 .. n])
  <2> HIDE DEF n
  <2> QED
    BY <1>1, <1>4, <1>5, <1>6, Flags!FoldInvariant, Zenon
<1> QED
  BY <1>1, <1>3, <1>7, Zenon DEF Natural, FlagKey, list

LEMMA HashIsNatural ==
  ASSUME NEW states \in Vector
  PROVE  OriginalKey(states) \in Hashes
<1> DEFINE n == ComponentsCount
           iter == CHOOSE it : Sums!IsFold(it, <<>>, 0, states, DOMAIN states)
           sum == FoldLeft(+, 0, states)
<1>1. n \in Nat /\ DOMAIN states = 1 .. n
  BY PlaceFacts DEF Vector
<1>3. sum = iter[DOMAIN states]
  BY Zenon DEF FoldLeft, MapThenFoldSet, Max, Sums!IsFold, SumTurn
<1>4. Sums!IsFold(iter, <<>>, 0, states, 1 .. n)
  <2>1. \E it : Sums!IsFold(it, <<>>, 0, states, 1 .. n)
    BY <1>1, Sums!FoldExists, Zenon
  <2> QED
    BY <1>1, <2>1, Zenon
<1> HIDE DEF iter
<1>5. ASSUME NEW k \in 0 .. n - 1, NEW a, Natural(<<>>, k, a)
      PROVE  Natural(<<>>, k + 1, SumTurn(<<>>, a, states[k + 1]))
  <2>1. states[k + 1] \in Nat
    BY PlaceFacts DEF Vector
  <2> QED
    BY <1>5, <2>1 DEF Natural, SumTurn
<1>6. Natural(<<>>, 0, 0)
  BY DEF Natural
<1>7. Natural(<<>>, n, iter[1 .. n])
  <2> HIDE DEF n
  <2> QED
    BY <1>1, <1>4, <1>5, <1>6, Sums!FoldInvariant, Zenon
<1>8. sum \in Nat
  BY <1>1, <1>3, <1>7 DEF Natural
<1> DEFINE all == sum * 192 + (sum * 5) \div 2 ^ 16
<1>9. OriginalKey(states) = all % Pow(16)
  BY DEF OriginalKey, Pow
<1> HIDE DEF sum
<1>10. all \in Nat
  BY <1>8
<1> HIDE DEF all
<1>11. \A a, m \in Nat : m # 0 => a % m \in Nat /\ a % m < m
  OBVIOUS
<1>12. Pow(16) \in Nat /\ Pow(16) # 0
  BY PowerFacts
<1>13. all % Pow(16) \in Nat /\ all % Pow(16) < Pow(16)
  BY <1>10, <1>11, <1>12
<1> QED
  BY <1>9, <1>12, <1>13 DEF Hashes

LEMMA KeyIsNatural ==
  ASSUME NEW states \in Vector
  PROVE  Key(states) \in Nat
<1> DEFINE table == [previous_order |-> ValueOrder(states),
                     previous_equality |-> Equalities(states, ValueOrder(states))]
           ordered == NumeralKey(states) * 2 ^ OrderBits + OrderKey(table.previous_order)
<1>1. table.previous_order \in PlaceOrders
  BY ValueOrderIsSorted
<1>2. Key(states) = CompoundKey(table, states)
  BY Zenon DEF Key
<1> HIDE DEF table
<1>3. CompoundKey(table, states) = FlagKey(table.previous_equality, ordered)
  BY Zenon DEF CompoundKey, FlagKey, NumeralKey
<1>4. ordered \in Nat
  <2>1. NumeralKey(states) \in Nat /\ OrderKey(table.previous_order) \in Nat
    BY <1>1, NumeralsAreNatural, OrderKeyIsNatural
  <2>2. Pow(OrderBits) \in Nat
    BY DigitsOfNumbers, PowerFacts DEF OrderBits
  <2>3. ordered = NumeralKey(states) * Pow(OrderBits) + OrderKey(table.previous_order)
    BY DEF Pow
  <2> HIDE DEF ordered
  <2>4. NumeralKey(states) * Pow(OrderBits) \in Nat
    BY <2>1, <2>2
  <2> QED
    BY <2>1, <2>3, <2>4
<1> HIDE DEF ordered
<1> QED
  BY <1>2, <1>3, <1>4, FlagsAreNatural

-----------------------------------------------------------------------------
(****************************************************************************)
(* The table, as the set of the tuples it has given a number to.            *)
(****************************************************************************)
Ordered(table) ==
  \/ table.previous_order = <<>>
  \/ \E x \in Vector : /\ table.previous_order = ValueOrder(x)
                       /\ table.previous_equality = Equalities(x, ValueOrder(x))

LEMMA KeyParts ==
  ASSUME NEW table, NEW states
  PROVE  CompoundKey(table, states)
           = FlagKey(table.previous_equality,
                     NumeralKey(states) * 2 ^ OrderBits + OrderKey(table.previous_order))
BY Zenon DEF CompoundKey, FlagKey, NumeralKey

\* Where the order is kept it is that of the next state as well.
LEMMA KeptOrder ==
  ASSUME NEW table, NEW states \in Vector, Ordered(table), OrderIsKept(table, states)
  PROVE  /\ table.previous_order = ValueOrder(states)
         /\ table.previous_equality = Equalities(states, ValueOrder(states))
<1> DEFINE n == ComponentsCount
           order == table.previous_order
<1>1. n \in Nat \ {0} /\ Place = 1 .. n
  BY PlaceFacts
<1>2. PICK x \in Vector : order = ValueOrder(x) /\ table.previous_equality = Equalities(x, ValueOrder(x))
  BY DEF Ordered, OrderIsKept
<1>3. order \in PlaceOrders /\ \A i \in 2 .. n : Before(x, order[i - 1], order[i])
  BY <1>2, ValueOrderIsSorted
<1>4. \A i \in Place : order[i] \in Place /\ states[order[i]] \in Nat /\ x[order[i]] \in Nat
  BY <1>3 DEF PlaceOrders, Vector
<1>5. \A i \in 2 .. n : table.previous_equality[i] <=> x[order[i]] = x[order[i - 1]]
  <2>1. \A i \in 2 .. n : i \in Place /\ i > 1
    BY <1>1
  <2> QED
    BY <1>2, <2>1 DEF Equalities
<1>6. \A i \in 2 .. n : /\ states[order[i]] <= states[order[i - 1]]
                        /\ states[order[i]] = states[order[i - 1]] <=> x[order[i]] = x[order[i - 1]]
  BY <1>5 DEF OrderIsKept
<1>7. ASSUME NEW i \in 2 .. n PROVE Before(states, order[i - 1], order[i])
  <2>1. i \in Place /\ i - 1 \in Place
    BY <1>1
  <2> QED
    BY <1>3, <1>4, <1>6, <2>1 DEF Before
<1>8. order = ValueOrder(states)
  BY <1>3, <1>7, ValueOrderIsSorted
<1>9. \A i \in Place : (i > 1 /\ x[order[i]] = x[order[i - 1]]) <=> (i > 1 /\ states[order[i]] = states[order[i - 1]])
  <2>1. \A i \in Place : i > 1 => i \in 2 .. n
    BY <1>1
  <2> QED
    BY <1>6, <2>1
<1>10. Equalities(x, order) = Equalities(states, order)
  BY <1>9 DEF Equalities
<1> QED
  BY <1>2, <1>8, <1>10

LEMMA UpdatedOrder ==
  ASSUME NEW table, NEW states \in Vector, Ordered(table),
         table = [log_slots |-> table.log_slots, levels |-> table.levels, max_value |-> table.max_value,
                  previous_order |-> table.previous_order, previous_equality |-> table.previous_equality]
  PROVE  /\ UpdateOrder(table, states)
              = [log_slots |-> table.log_slots, levels |-> table.levels, max_value |-> table.max_value,
                 previous_order |-> ValueOrder(states),
                 previous_equality |-> Equalities(states, ValueOrder(states))]
         /\ Ordered(UpdateOrder(table, states))
         /\ CompoundKey(UpdateOrder(table, states), states) = Key(states)
<1> DEFINE u == UpdateOrder(table, states)
<1>1. u = [log_slots |-> table.log_slots, levels |-> table.levels, max_value |-> table.max_value,
           previous_order |-> ValueOrder(states),
           previous_equality |-> Equalities(states, ValueOrder(states))]
  <2>1. CASE OrderIsKept(table, states)
    BY <2>1, KeptOrder DEF UpdateOrder
  <2>2. CASE ~ OrderIsKept(table, states)
    BY <2>2 DEF UpdateOrder
  <2> QED
    BY <2>1, <2>2
<1> HIDE DEF u
<1>2. u.previous_order = ValueOrder(states) /\ u.previous_equality = Equalities(states, ValueOrder(states))
  BY <1>1
<1>3. Ordered(u)
  BY <1>2 DEF Ordered
<1> DEFINE own == [previous_order |-> ValueOrder(states),
                   previous_equality |-> Equalities(states, ValueOrder(states))]
<1>4. Key(states) = CompoundKey(own, states)
  BY Zenon DEF Key
<1>5. own.previous_order = u.previous_order /\ own.previous_equality = u.previous_equality
  BY <1>2
<1> HIDE DEF own
<1>6. CompoundKey(u, states) = CompoundKey(own, states)
  BY <1>5, KeyParts, Zenon
<1> QED
  BY <1>1, <1>3, <1>4, <1>6 DEF u

Entry == [original_key : Hashes, key : Nat, state : Nat]

\* A slot that has the entries E, with the keys rising.
SlotHas(list, E) ==
  /\ list \in Seq(Entry) /\ ToSet(list) = E
  /\ \A i, k \in 1 .. Len(list) : i < k => list[i].key < list[k].key

LEMMA SlotIsList ==
  ASSUME NEW list, NEW E, SlotHas(list, E)
  PROVE  /\ Len(list) \in Nat /\ DOMAIN list = 1 .. Len(list) /\ E \subseteq Entry
         /\ \A i \in 1 .. Len(list) : list[i] \in E /\ list[i] \in Entry /\ list[i].key \in Nat
         /\ \A e \in E : \E i \in 1 .. Len(list) : list[i] = e
<1>1. Len(list) \in Nat /\ DOMAIN list = 1 .. Len(list) /\ \A i \in 1 .. Len(list) : list[i] \in Entry
  BY LenProperties DEF SlotHas
<1> QED
  BY <1>1 DEF SlotHas, ToSet, Entry

\* A list without entries.
LEMMA EmptySlot == SlotHas(<<>>, {})
<1>1. <<>> \in Seq(Entry) /\ Len(<<>>) = 0 /\ DOMAIN <<>> = {}
  BY EmptySeq, LenProperties
<1> QED
  BY <1>1 DEF SlotHas, ToSet

LEMMA SlotAppend ==
  ASSUME NEW list, NEW E, SlotHas(list, E), NEW e \in Entry, \A d \in E : d.key < e.key
  PROVE  SlotHas(Append(list, e), E \cup {e})
<1> DEFINE new == Append(list, e)
           n == Len(list)
<1>1. /\ n \in Nat /\ \A i \in 1 .. n : list[i] \in E /\ list[i].key \in Nat
      /\ \A d \in E : \E i \in 1 .. n : list[i] = d
  BY SlotIsList
<1>2. new \in Seq(Entry) /\ Len(new) = n + 1 /\ \A i \in 1 .. n + 1 : new[i] = IF i = n + 1 THEN e ELSE list[i]
  BY <1>1, AppendProperties DEF SlotHas
<1>3. DOMAIN new = 1 .. n + 1
  BY <1>2, LenProperties
<1> HIDE DEF new, n
<1>4. ToSet(new) = E \cup {e}
  <2>1. ASSUME NEW d \in ToSet(new) PROVE d \in E \cup {e}
    <3>1. PICK i \in 1 .. n + 1 : new[i] = d
      BY <1>3 DEF ToSet
    <3>2. i # n + 1 => i \in 1 .. n
      BY <1>1
    <3> QED
      BY <1>1, <1>2, <3>1, <3>2
  <2>2. e \in ToSet(new)
    <3>1. n + 1 \in 1 .. n + 1
      BY <1>1
    <3> QED
      BY <1>2, <1>3, <3>1 DEF ToSet
  <2>3. ASSUME NEW d \in E PROVE d \in ToSet(new)
    <3>1. PICK i \in 1 .. n : list[i] = d
      BY <1>1
    <3>2. i \in 1 .. n + 1 /\ i # n + 1
      BY <1>1
    <3> QED
      BY <1>2, <1>3, <3>1, <3>2 DEF ToSet
  <2> QED
    BY <2>1, <2>2, <2>3
<1>5. ASSUME NEW i \in 1 .. n + 1, NEW k \in 1 .. n + 1, i < k PROVE new[i].key < new[k].key
  <2>1. i \in 1 .. n /\ (k # n + 1 => k \in 1 .. n) /\ i # n + 1
    BY <1>1, <1>5
  <2>2. CASE k = n + 1
    BY <1>1, <1>2, <2>1, <2>2
  <2>3. CASE k # n + 1
    <3>1. list[i].key < list[k].key
      BY <1>5, <2>1, <2>3 DEF SlotHas, n
    <3> QED
      BY <1>2, <2>1, <2>3, <3>1
  <2> QED
    BY <2>2, <2>3
<1> QED
  BY <1>2, <1>4, <1>5 DEF SlotHas, new

LEMMA StopFinds ==
  ASSUME NEW list, NEW E, SlotHas(list, E), NEW key \in Nat
  PROVE  LET stop == Stop(list, key)
         IN  /\ stop \in 0 .. Len(list)
             /\ \A i \in 1 .. Len(list) : list[i].key < key <=> (stop = 0 \/ i < stop)
             /\ stop # 0 => list[stop] \in E /\ list[stop].key >= key
             /\ \A e \in E : e.key = key => stop # 0 /\ list[stop] = e
<1> DEFINE n == Len(list)
           I == {i \in 1 .. n : list[i].key >= key}
           stop == Stop(list, key)
<1>1. /\ n \in Nat /\ \A i \in 1 .. n : list[i] \in E /\ list[i].key \in Nat
      /\ \A d \in E : \E i \in 1 .. n : list[i] = d
  BY SlotIsList
<1>2. \A i, k \in 1 .. n : i < k => list[i].key < list[k].key
  BY DEF SlotHas
<1>3. stop = IF I # {} THEN CHOOSE x \in I : \A y \in I : x <= y ELSE 0
  BY DEF Stop, SelectInSeq, Min
<1> HIDE DEF n
<1>4. I # {} => \E x \in I : \A y \in I : x <= y
  <2>1. SUFFICES ASSUME I # {} PROVE \E x \in I : \A y \in I : x <= y
    OBVIOUS
  <2> DEFINE T == {m \in Nat : \A i \in I : i > m}
  <2>2. 0 \in T
    OBVIOUS
  <2>3. ~ \A m \in Nat : m \in T
    BY <2>1
  <2>4. PICK m \in Nat : m \in T /\ m + 1 \notin T
    <3> HIDE DEF T
    <3> QED
      BY <2>2, <2>3, Orders!SetInduction
  <2>5. m + 1 \in I /\ \A y \in I : m + 1 <= y
    BY <2>4
  <2> QED
    BY <2>5
<1>5. I # {} => stop \in I /\ \A y \in I : stop <= y
  <2> HIDE DEF stop, I
  <2> QED
    BY <1>3, <1>4
<1> HIDE DEF stop
<1>6. CASE I = {}
  <2>1. stop = 0
    BY <1>3, <1>6
  <2>2. \A i \in 1 .. n : list[i].key < key
    BY <1>1, <1>6
  <2> QED
    BY <1>1, <2>1, <2>2 DEF n, stop
<1>7. CASE I # {}
  <2>1. stop \in 1 .. n /\ stop # 0 /\ list[stop].key >= key
    BY <1>5, <1>7
  <2>2. ASSUME NEW i \in 1 .. n PROVE list[i].key < key <=> i < stop
    <3>1. i < stop => list[i].key < key
      BY <1>1, <1>5, <1>7, <2>1
    <3>2. stop <= i => list[i].key >= key
      <4>1. stop < i => list[stop].key < list[i].key
        BY <1>2, <2>1
      <4>2. CASE stop = i
        BY <2>1, <4>2
      <4>3. CASE stop < i
        BY <1>1, <2>1, <4>1, <4>3
      <4> QED
        BY <2>1, <4>2, <4>3
    <3> QED
      BY <1>1, <2>1, <3>1, <3>2
  <2>3. ASSUME NEW e \in E, e.key = key PROVE list[stop] = e
    <3>1. PICK i \in 1 .. n : list[i] = e
      BY <1>1
    <3>2. stop <= i
      BY <1>1, <2>1, <2>2, <2>3, <3>1
    <3>3. ~ (stop < i)
      <4> SUFFICES ASSUME stop < i PROVE FALSE
        OBVIOUS
      <4>1. list[stop].key < list[i].key
        BY <1>2, <2>1
      <4> QED
        BY <1>1, <2>1, <2>3, <3>1, <4>1
    <3>4. stop = i
      BY <2>1, <3>2, <3>3
    <3> QED
      BY <3>1, <3>4
  <2>4. stop \in 0 .. n /\ list[stop] \in E
    BY <1>1, <2>1
  <2> QED
    BY <2>1, <2>2, <2>3, <2>4 DEF n, stop
<1> QED
  BY <1>6, <1>7

\* A sequence with one more member at a place.
LEMMA Inserted ==
  ASSUME NEW S, NEW list \in Seq(S), NEW e \in S, NEW k \in 1 .. Len(list)
  PROVE  /\ InsertAt(list, k, e) \in Seq(S)
         /\ Len(InsertAt(list, k, e)) = Len(list) + 1
         /\ DOMAIN InsertAt(list, k, e) = 1 .. Len(list) + 1
         /\ \A i \in 1 .. Len(list) + 1 :
              InsertAt(list, k, e)[i] = IF i < k THEN list[i] ELSE IF i = k THEN e ELSE list[i - 1]
<1> DEFINE n == Len(list)
           first == SubSeq(list, 1, k - 1)
           rest == SubSeq(list, k, n)
           start == first \o <<e>>
<1>1. n \in Nat /\ k \in 1 .. n /\ \A i \in 1 .. n : list[i] \in S
  BY LenProperties
<1>2. first \in Seq(S) /\ Len(first) = k - 1 /\ \A i \in 1 .. k - 1 : first[i] = list[i]
  <2>1. \A i \in 1 .. k - 1 : list[i] \in S
    BY <1>1
  <2>2. first \in Seq(S) /\ Len(first) = (IF 1 <= k - 1 THEN (k - 1) - 1 + 1 ELSE 0)
        /\ \A i \in 1 .. (k - 1) - 1 + 1 : first[i] = list[1 + i - 1]
    BY <1>1, <2>1, SubSeqProperties
  <2> HIDE DEF first, n
  <2> QED
    BY <1>1, <2>2
<1>3. rest \in Seq(S) /\ Len(rest) = n - k + 1 /\ \A i \in 1 .. n - k + 1 : rest[i] = list[k + i - 1]
  <2>1. \A i \in k .. n : list[i] \in S
    BY <1>1
  <2>2. rest \in Seq(S) /\ Len(rest) = (IF k <= n THEN n - k + 1 ELSE 0)
        /\ \A i \in 1 .. n - k + 1 : rest[i] = list[k + i - 1]
    BY <1>1, <2>1, SubSeqProperties
  <2> HIDE DEF rest, n
  <2> QED
    BY <1>1, <2>2
<1>4. <<e>> \in Seq(S) /\ Len(<<e>>) = 1 /\ <<e>>[1] = e
  OBVIOUS
<1> HIDE DEF first, rest, n
<1>5. start \in Seq(S) /\ Len(start) = k /\ \A i \in 1 .. k : start[i] = IF i < k THEN list[i] ELSE e
  <2>1. start \in Seq(S) /\ Len(start) = Len(first) + 1
        /\ \A i \in 1 .. Len(first) + 1 : start[i] = IF i <= Len(first) THEN first[i] ELSE <<e>>[i - Len(first)]
    BY <1>2, <1>4, ConcatProperties
  <2>2. \A i \in 1 .. k : start[i] = IF i <= k - 1 THEN first[i] ELSE <<e>>[i - (k - 1)]
    BY <1>1, <1>2, <2>1
  <2>3. \A i \in 1 .. k : (i <= k - 1 <=> i < k) /\ (~ (i < k) => i - (k - 1) = 1) /\ (i < k => i \in 1 .. k - 1)
    BY <1>1
  <2>4. Len(start) = k
    BY <1>1, <1>2, <2>1
  <2> HIDE DEF start
  <2> QED
    BY <1>2, <1>4, <2>1, <2>2, <2>3, <2>4
<1>6. InsertAt(list, k, e) = start \o rest
  BY DEF InsertAt, first, rest, n
<1> HIDE DEF start
<1>7. /\ start \o rest \in Seq(S) /\ Len(start \o rest) = k + (n - k + 1)
      /\ \A i \in 1 .. k + (n - k + 1) : (start \o rest)[i] = IF i <= k THEN start[i] ELSE rest[i - k]
  <2>1. /\ start \o rest \in Seq(S) /\ Len(start \o rest) = Len(start) + Len(rest)
        /\ \A i \in 1 .. Len(start) + Len(rest) :
             (start \o rest)[i] = IF i <= Len(start) THEN start[i] ELSE rest[i - Len(start)]
    BY <1>3, <1>5, ConcatProperties, Zenon
  <2>2. Len(start) = k /\ Len(rest) = n - k + 1
    BY <1>3, <1>5
  <2> QED
    BY <2>1, <2>2, Zenon
<1>8. ASSUME NEW i \in 1 .. n + 1
      PROVE  (start \o rest)[i] = IF i < k THEN list[i] ELSE IF i = k THEN e ELSE list[i - 1]
  <2>1. k + (n - k + 1) = n + 1
    BY <1>1
  <2>2. CASE i <= k
    <3>1. i \in 1 .. k
      BY <1>1, <2>2
    <3> QED
      BY <1>1, <1>5, <1>7, <2>1, <2>2, <3>1
  <2>3. CASE ~ (i <= k)
    <3>1. i - k \in 1 .. n - k + 1 /\ k + (i - k) - 1 = i - 1 /\ ~ (i < k) /\ i # k
      BY <1>1, <2>3
    <3> QED
      BY <1>3, <1>7, <2>1, <2>3, <3>1
  <2> QED
    BY <2>2, <2>3
<1>9. k + (n - k + 1) = n + 1
  BY <1>1
<1>10. DOMAIN (start \o rest) = 1 .. n + 1
  BY <1>7, <1>9, LenProperties
<1> QED
  BY <1>6, <1>7, <1>8, <1>9, <1>10 DEF n

\* What stays of a list that is longer by one member.
LEMMA InsertedMembers ==
  ASSUME NEW S, NEW list \in Seq(S), NEW e \in S, NEW k \in 1 .. Len(list)
  PROVE  ToSet(InsertAt(list, k, e)) = ToSet(list) \cup {e}
<1> DEFINE n == Len(list)
           new == InsertAt(list, k, e)
<1>1. n \in Nat /\ k \in 1 .. n /\ DOMAIN list = 1 .. n
  BY LenProperties
<1>2. DOMAIN new = 1 .. n + 1
      /\ \A i \in 1 .. n + 1 : new[i] = IF i < k THEN list[i] ELSE IF i = k THEN e ELSE list[i - 1]
  <2>1. DOMAIN new = 1 .. n + 1
    BY Inserted
  <2>2. ASSUME NEW i \in 1 .. n + 1
        PROVE  new[i] = IF i < k THEN list[i] ELSE IF i = k THEN e ELSE list[i - 1]
    BY Inserted
  <2> QED
    BY <2>1, <2>2
<1> HIDE DEF n, new
<1>3. ASSUME NEW i \in 1 .. n + 1 PROVE new[i] \in ToSet(list) \cup {e}
  <2>1. i < k => i \in 1 .. n
    BY <1>1
  <2>2. ~ (i < k) /\ i # k => i - 1 \in 1 .. n
    BY <1>1
  <2> QED
    BY <1>1, <1>2, <2>1, <2>2 DEF ToSet
<1>4. ASSUME NEW i \in 1 .. n PROVE \E m \in 1 .. n + 1 : new[m] = list[i]
  <2>1. i < k => i \in 1 .. n + 1
    BY <1>1
  <2>2. ~ (i < k) => i + 1 \in 1 .. n + 1 /\ ~ (i + 1 < k) /\ i + 1 # k /\ (i + 1) - 1 = i
    BY <1>1
  <2> QED
    BY <1>2, <2>1, <2>2
<1>5. k \in 1 .. n + 1 /\ new[k] = e
  <2>1. k \in 1 .. n + 1 /\ ~ (k < k)
    BY <1>1
  <2> QED
    BY <1>2, <2>1
<1>6. ToSet(new) = {new[i] : i \in 1 .. n + 1} /\ ToSet(list) = {list[i] : i \in 1 .. n}
  BY <1>1, <1>2 DEF ToSet
<1>7. ToSet(new) = ToSet(list) \cup {e}
  BY <1>3, <1>4, <1>5, <1>6
<1> QED
  BY <1>7 DEF new

LEMMA SlotInsert ==
  ASSUME NEW list, NEW E, SlotHas(list, E), NEW e \in Entry, NEW k \in 1 .. Len(list),
         \A d \in E : d.key # e.key,
         \A i \in 1 .. Len(list) : list[i].key < e.key <=> i < k
  PROVE  SlotHas(InsertAt(list, k, e), E \cup {e})
<1> DEFINE new == InsertAt(list, k, e)
           n == Len(list)
<1>1. /\ n \in Nat /\ k \in 1 .. n /\ e.key \in Nat
      /\ \A i \in 1 .. n : list[i] \in E /\ list[i].key \in Nat
  BY SlotIsList DEF Entry
<1>2. new \in Seq(Entry) /\ Len(new) = n + 1
      /\ \A i \in 1 .. n + 1 : new[i] = IF i < k THEN list[i] ELSE IF i = k THEN e ELSE list[i - 1]
  BY Inserted DEF SlotHas
<1>3. ToSet(new) = E \cup {e}
  BY InsertedMembers DEF SlotHas
<1>4. \A i, m \in 1 .. n : i < m => list[i].key < list[m].key
  BY DEF SlotHas
<1>5. \A i \in 1 .. n : list[i].key < e.key <=> i < k
  OBVIOUS
<1> HIDE DEF n, new
<1>6. \A i \in 1 .. n : ~ (i < k) => e.key < list[i].key
  BY <1>1, <1>5
<1>7. ASSUME NEW i \in 1 .. n + 1, NEW m \in 1 .. n + 1, i < m PROVE new[i].key < new[m].key
  <2>1. CASE m < k
    <3>1. i \in 1 .. n /\ m \in 1 .. n /\ i < k
      BY <1>1, <1>7, <2>1
    <3> QED
      BY <1>2, <1>4, <1>7, <2>1, <3>1
  <2>2. CASE m = k
    <3>1. i \in 1 .. n /\ i < k /\ ~ (m < k)
      BY <1>1, <1>7, <2>2
    <3> QED
      BY <1>2, <1>5, <2>2, <3>1
  <2>3. CASE ~ (m < k) /\ m # k
    <3>1. m - 1 \in 1 .. n /\ ~ (m - 1 < k)
      BY <1>1, <2>3
    <3>2. new[m] = list[m - 1]
      BY <1>2, <2>3
    <3>3. CASE i < k
      <4>1. i \in 1 .. n /\ i < m - 1
        BY <1>1, <2>3, <3>3
      <4> QED
        BY <1>2, <1>4, <3>1, <3>2, <3>3, <4>1
    <3>4. CASE i = k
      BY <1>2, <1>6, <3>1, <3>2, <3>4
    <3>5. CASE ~ (i < k) /\ i # k
      <4>1. i - 1 \in 1 .. n /\ i - 1 < m - 1
        BY <1>1, <1>7, <3>5
      <4> QED
        BY <1>2, <1>4, <3>1, <3>2, <3>5, <4>1
    <3> QED
      BY <3>3, <3>4, <3>5
  <2> QED
    BY <2>1, <2>2, <2>3
<1> QED
  BY <1>2, <1>3, <1>7 DEF SlotHas, new

\* What a slot's list gives to the half p, after k of its entries.
InHalf(e, log_slots, p) == Slot(e.original_key, log_slots) % 2 = p % 2
HalfTurn(c, half, e) ==
  IF Slot(e.original_key, c.log_slots) % 2 = c.half % 2 THEN Append(half, e) ELSE half
HalfOf(c, k, half) ==
  SlotHas(half, {e \in {c.list[i] : i \in 1 .. k} : InHalf(e, c.log_slots, c.half)})
Halves == INSTANCE Iteration WITH Op <- HalfTurn, Inv <- HalfOf

LEMMA HalfEffect ==
  ASSUME NEW list, NEW E, SlotHas(list, E), NEW l, NEW p
  PROVE  SlotHas(Half(list, l, p), {e \in E : InHalf(e, l, p)})
<1> DEFINE c == [list |-> list, log_slots |-> l, half |-> p]
           n == Len(list)
           iter == CHOOSE it : Halves!IsFold(it, c, <<>>, list, DOMAIN list)
<1>1. /\ n \in Nat /\ DOMAIN list = 1 .. n
      /\ \A i \in 1 .. n : list[i] \in Entry /\ list[i].key \in Nat
      /\ \A i, k \in 1 .. n : i < k => list[i].key < list[k].key
      /\ E = {list[i] : i \in 1 .. n}
  <2>1. n \in Nat /\ DOMAIN list = 1 .. n /\ \A i \in 1 .. n : list[i] \in Entry /\ list[i].key \in Nat
    BY SlotIsList
  <2> QED
    BY <2>1 DEF SlotHas, ToSet
<1>2. c.list = list /\ c.log_slots = l /\ c.half = p
  OBVIOUS
<1> HIDE DEF c, n
<1>3. Half(list, l, p) = Half(list, c.log_slots, c.half)
  BY <1>2
<1>4. Half(list, c.log_slots, c.half) = iter[DOMAIN list]
  BY Zenon DEF Half, FoldLeft, MapThenFoldSet, Max, Halves!IsFold, HalfTurn
<1>5. Halves!IsFold(iter, c, <<>>, list, 1 .. n)
  <2>1. \E it : Halves!IsFold(it, c, <<>>, list, 1 .. n)
    BY <1>1, Halves!FoldExists, Zenon
  <2> QED
    BY <1>1, <2>1, Zenon
<1> HIDE DEF iter
<1>6. HalfOf(c, 0, <<>>)
  <2>1. {e \in {c.list[i] : i \in 1 .. 0} : InHalf(e, c.log_slots, c.half)} = {}
    OBVIOUS
  <2> QED
    BY <2>1, EmptySlot DEF HalfOf
<1>7. ASSUME NEW k \in 0 .. n - 1, NEW half, HalfOf(c, k, half)
      PROVE  HalfOf(c, k + 1, HalfTurn(c, half, list[k + 1]))
  <2> DEFINE e == list[k + 1]
             B == {d \in {list[i] : i \in 1 .. k} : InHalf(d, l, p)}
             A == {d \in {list[i] : i \in 1 .. k + 1} : InHalf(d, l, p)}
  <2>1. SlotHas(half, B)
    BY <1>2, <1>7 DEF HalfOf
  <2>2. k + 1 \in 1 .. n /\ \A i \in 1 .. k : i \in 1 .. n /\ i < k + 1
    BY <1>1
  <2>3. e \in Entry /\ \A d \in B : d.key < e.key
    BY <1>1, <2>2
  <2>4. \A i : i \in 1 .. k + 1 <=> i \in 1 .. k \/ i = k + 1
    BY <1>1
  <2>5. A = IF InHalf(e, l, p) THEN B \cup {e} ELSE B
    BY <2>4
  <2>6. HalfTurn(c, half, e) = IF InHalf(e, l, p) THEN Append(half, e) ELSE half
    BY <1>2 DEF HalfTurn, InHalf
  <2> HIDE DEF e, B, A
  <2>7. SlotHas(HalfTurn(c, half, e), A)
    <3>1. CASE InHalf(e, l, p)
      BY <2>1, <2>3, <2>5, <2>6, <3>1, SlotAppend
    <3>2. CASE ~ InHalf(e, l, p)
      BY <2>1, <2>5, <2>6, <3>2
    <3> QED
      BY <3>1, <3>2
  <2> QED
    BY <1>2, <2>7 DEF HalfOf, A, e
<1>8. HalfOf(c, n, iter[1 .. n])
  BY <1>1, <1>5, <1>6, <1>7, Halves!FoldInvariant, Zenon
<1> QED
  BY <1>1, <1>2, <1>3, <1>4, <1>8 DEF HalfOf

EntryOf(q) == [original_key |-> OriginalKey(q[1]), key |-> Key(q[1]), state |-> q[2]]
InSlot(N, l, p) == {EntryOf(q) : q \in {r \in N : Slot(OriginalKey(r[1]), l) = p}}

LevelsHave(levels, l, N) ==
  /\ levels \in [0 .. Pow(l) - 1 -> Seq(Entry)]
  /\ \A p \in 0 .. Pow(l) - 1 : SlotHas(levels[p], InSlot(N, l, p))

\* The tuples of N have their numbers, below max_value, and nothing else has.
TableOf(table, N) ==
  /\ table = [log_slots |-> table.log_slots, levels |-> table.levels, max_value |-> table.max_value,
              previous_order |-> table.previous_order, previous_equality |-> table.previous_equality]
  /\ table.log_slots \in 0 .. 16
  /\ Ordered(table)
  /\ LevelsHave(table.levels, table.log_slots, N)
  /\ table.max_value \in Nat
  /\ \A q \in N : q[2] \in 0 .. table.max_value - 1
  /\ \A n \in 0 .. table.max_value - 1 : \E q \in N : q[2] = n
  /\ \A p, q \in N : p[1] = q[1] <=> p[2] = q[2]

LEMMA ResizeEffect ==
  ASSUME NEW N \in SUBSET (Vector \X Nat), NEW table, TableOf(table, N), table.log_slots < 16
  PROVE  TableOf(Resize(table), N) /\ Resize(table).max_value = table.max_value
<1> DEFINE l == table.log_slots
           new == [p \in 0 .. 2 ^ (l + 1) - 1 |-> Half(table.levels[p \div 2], l + 1, p)]
           table1 == Resize(table)
<1>1. l \in 0 .. 15 /\ l \in 0 .. 16 /\ l + 1 \in 0 .. 16 /\ l \in Digits /\ l # 30 /\ l + 1 \in Digits
  BY DEF TableOf, Digits
<1>2. Pow(l + 1) = 2 * Pow(l) /\ Pow(l) \in Nat
  BY <1>1, PowerFacts
<1>3. new = [p \in 0 .. Pow(l + 1) - 1 |-> Half(table.levels[p \div 2], l + 1, p)]
  BY DEF Pow
<1>4. table1 = [log_slots |-> l + 1, levels |-> new, max_value |-> table.max_value,
                previous_order |-> table.previous_order, previous_equality |-> table.previous_equality]
  <2>1. table = [log_slots |-> table.log_slots, levels |-> table.levels, max_value |-> table.max_value,
                 previous_order |-> table.previous_order, previous_equality |-> table.previous_equality]
    BY DEF TableOf
  <2>2. table1 = [table EXCEPT !.log_slots = l + 1, !.levels = new]
    BY DEF Resize
  <2> HIDE DEF new, table1
  <2> QED
    BY <2>1, <2>2
<1> HIDE DEF new, table1
<1>5. \A p \in 0 .. Pow(l) - 1 : SlotHas(table.levels[p], InSlot(N, l, p))
  BY DEF TableOf, LevelsHave
<1>6. \A q \in N : OriginalKey(q[1]) \in Hashes
  BY HashIsNatural
<1>7. ASSUME NEW p \in 0 .. Pow(l + 1) - 1 PROVE SlotHas(new[p], InSlot(N, l + 1, p))
  <2>1. p \div 2 \in 0 .. Pow(l) - 1 /\ p \in Nat
    BY <1>2
  <2>2. SlotHas(new[p], {e \in InSlot(N, l, p \div 2) : InHalf(e, l + 1, p)})
    BY <1>3, <1>5, <2>1, HalfEffect
  <2>3. ASSUME NEW q \in N
        PROVE  Slot(OriginalKey(q[1]), l + 1) = p
                 <=> /\ Slot(OriginalKey(q[1]), l) = p \div 2
                     /\ Slot(OriginalKey(q[1]), l + 1) % 2 = p % 2
    <3> DEFINE s == Slot(OriginalKey(q[1]), l + 1)
    <3>1. s \div 2 = Slot(OriginalKey(q[1]), l)
      BY <1>1, <1>6, SlotFacts
    <3>2. s \in 0 .. Pow(l + 1) - 1
      BY <1>1, <1>6, SlotFacts
    <3>3. s \in Nat
      BY <3>2
    <3> HIDE DEF s
    <3>4. s = p <=> s \div 2 = p \div 2 /\ s % 2 = p % 2
      <4>1. \A a \in Nat : a = 2 * (a \div 2) + (a % 2)
        OBVIOUS
      <4> QED
        BY <2>1, <3>3, <4>1
    <3> QED
      BY <3>1, <3>4 DEF s
  <2>4. \A q \in N : InHalf(EntryOf(q), l + 1, p) <=> Slot(OriginalKey(q[1]), l + 1) % 2 = p % 2
    BY DEF InHalf, EntryOf
  <2>5. {e \in InSlot(N, l, p \div 2) : InHalf(e, l + 1, p)} = InSlot(N, l + 1, p)
    BY <2>3, <2>4 DEF InSlot
  <2> QED
    BY <2>2, <2>5
<1>8. new \in [0 .. Pow(l + 1) - 1 -> Seq(Entry)]
  BY <1>3, <1>7 DEF SlotHas
<1>9. LevelsHave(table1.levels, table1.log_slots, N)
  BY <1>4, <1>7, <1>8 DEF LevelsHave
<1>10. Ordered(table1)
  <2>1. Ordered(table)
    BY DEF TableOf
  <2> QED
    BY <1>4, <2>1 DEF Ordered
<1> QED
  BY <1>1, <1>4, <1>9, <1>10 DEF TableOf, table1

\* The tuples that get numbers: no more than the bound, and no two with the same key.
TuplesOK(T) ==
  /\ T \in SUBSET Vector /\ IsFiniteSet(T) /\ Cardinality(T) <= MaxStates
  /\ \A x, y \in T : Key(x) = Key(y) => x = y

LEMMA NumbersAreBounded ==
  ASSUME NEW T, TuplesOK(T), NEW N \in SUBSET (T \X Nat), NEW table, TableOf(table, N)
  PROVE  table.max_value <= MaxStates /\ (\A x \in T : (\A q \in N : q[1] # x) => table.max_value < MaxStates)
<1> DEFINE m == table.max_value
           owner == [n \in 0 .. m - 1 |-> (CHOOSE q \in N : q[2] = n)[1]]
<1>1. m \in Nat /\ IsFiniteSet(T) /\ Cardinality(T) \in Nat /\ Cardinality(T) <= MaxStates /\ MaxStates \in Nat
  BY FS_CardinalityType, CompositionAssumption DEF TableOf, TuplesOK
<1>2. ASSUME NEW n \in 0 .. m - 1 PROVE \E q \in N : q[1] = owner[n] /\ q[2] = n
  BY DEF TableOf
<1>3. ASSUME NEW n \in 0 .. m - 1, NEW k \in 0 .. m - 1, owner[n] = owner[k] PROVE n = k
  <2>1. PICK p \in N : p[1] = owner[n] /\ p[2] = n
    BY <1>2
  <2>2. PICK q \in N : q[1] = owner[k] /\ q[2] = k
    BY <1>2
  <2>3. p[1] = q[1]
    BY <1>3, <2>1, <2>2
  <2> QED
    BY <2>1, <2>2, <2>3 DEF TableOf
<1> HIDE DEF owner
<1>4. DOMAIN owner = 0 .. m - 1 /\ owner = [n \in 0 .. m - 1 |-> owner[n]]
  BY DEF owner
<1>5. IsFiniteSet(0 .. m - 1) /\ Cardinality(0 .. m - 1) = m
  <2>1. 0 \in Int /\ m - 1 \in Int
    BY <1>1
  <2>2. IsFiniteSet(0 .. m - 1) /\ Cardinality(0 .. m - 1) = IF 0 > m - 1 THEN 0 ELSE (m - 1) - 0 + 1
    BY <2>1, FS_Interval
  <2> QED
    BY <1>1, <2>2
<1>6. ASSUME NEW S \in SUBSET T, \A n \in 0 .. m - 1 : owner[n] \in S PROVE m <= Cardinality(S)
  <2>1. IsFiniteSet(S)
    BY <1>1, FS_Subset
  <2>2. owner \in Injection(0 .. m - 1, S)
    BY <1>3, <1>4, <1>6 DEF Injection, IsInjective
  <2> QED
    BY <1>5, <2>1, <2>2, FS_Injection
<1>7. \A n \in 0 .. m - 1 : owner[n] \in T
  BY <1>2
<1>8. m <= MaxStates
  BY <1>1, <1>6, <1>7
<1>9. ASSUME NEW x \in T, \A q \in N : q[1] # x PROVE m < MaxStates
  <2>1. \A n \in 0 .. m - 1 : owner[n] \in T \ {x}
    BY <1>2, <1>7, <1>9
  <2>2. m <= Cardinality(T \ {x})
    BY <1>6, <2>1
  <2>3. Cardinality(T \ {x}) = Cardinality(T) - 1
    BY <1>1, FS_RemoveElement
  <2> QED
    BY <1>1, <2>2, <2>3
<1> QED
  BY <1>8, <1>9

LEMMA InSlotMore ==
  ASSUME NEW N, NEW x, NEW n, NEW l, NEW p
  PROVE  InSlot(N \cup {<<x, n>>}, l, p)
           = IF Slot(OriginalKey(x), l) = p THEN InSlot(N, l, p) \cup {EntryOf(<<x, n>>)} ELSE InSlot(N, l, p)
<1>1. <<x, n>>[1] = x
  OBVIOUS
<1> QED
  BY <1>1 DEF InSlot

\* What a search finds is the number of the tuple; what it does not find gets the next one.
IsGot(got, table, N, x) ==
  /\ TableOf(got.table, N \cup {<<x, got.state>>})
  /\ got.state \in 0 .. MaxStates - 1
  /\ got.table.max_value >= table.max_value
  /\ \/ <<x, got.state>> \in N
     \/ got.state = table.max_value /\ \A q \in N : q[1] # x /\ q[2] # got.state

LEMMA GetStateEffect ==
  ASSUME NEW T, TuplesOK(T), NEW N \in SUBSET (T \X Nat), NEW table, TableOf(table, N), NEW x \in T
  PROVE  IsGot(GetState(table, x), table, N, x)
<1> DEFINE l == table.log_slots
           ordered == UpdateOrder(table, x)
           key == CompoundKey(ordered, x)
           original_key == OriginalKey(x)
           slot == Slot(original_key, l)
           list == table.levels[slot]
           stop == Stop(list, key)
           entry == [original_key |-> original_key, key |-> key, state |-> table.max_value]
           longer == IF stop = 0 THEN Append(list, entry) ELSE InsertAt(list, stop, entry)
           added == [log_slots |-> l, levels |-> [table.levels EXCEPT ![slot] = longer],
                     max_value |-> table.max_value + 1,
                     previous_order |-> ordered.previous_order,
                     previous_equality |-> ordered.previous_equality]
           got == GetState(table, x)
           n == table.max_value
<1>1. x \in Vector /\ N \in SUBSET (Vector \X Nat)
  BY DEF TuplesOK
<1>2. l \in 0 .. 16 /\ Ordered(table) /\ n \in Nat
  BY DEF TableOf
<1>3. /\ ordered = [log_slots |-> l, levels |-> table.levels, max_value |-> n,
                    previous_order |-> ordered.previous_order,
                    previous_equality |-> ordered.previous_equality]
      /\ Ordered(ordered) /\ key = Key(x)
  BY <1>1, <1>2, UpdatedOrder DEF TableOf
<1>4. key \in Nat /\ original_key \in Hashes
  BY <1>1, <1>3, KeyIsNatural, HashIsNatural
<1>5. slot \in 0 .. Pow(l) - 1
  BY <1>2, <1>4, SlotFacts
<1>6. /\ table.levels \in [0 .. Pow(l) - 1 -> Seq(Entry)]
      /\ \A p \in 0 .. Pow(l) - 1 : SlotHas(table.levels[p], InSlot(N, l, p))
  BY DEF TableOf, LevelsHave
<1>7. SlotHas(list, InSlot(N, l, slot))
  BY <1>5, <1>6
<1>8. got = IF stop # 0 /\ list[stop].key = key
            THEN [table |-> ordered, state |-> list[stop].state]
            ELSE [table |-> IF IsFull(added) THEN Resize(added) ELSE added, state |-> n]
  <2>1. ordered.levels = table.levels /\ ordered.max_value = n
    BY <1>3
  <2>2. [ordered EXCEPT !.levels[slot] = IF stop = 0 THEN Append(@, entry) ELSE InsertAt(@, stop, entry),
                        !.max_value = @ + 1] = added
    <3> DEFINE o == ordered
    <3>1. longer = IF stop = 0 THEN Append(o.levels[slot], entry) ELSE InsertAt(o.levels[slot], stop, entry)
      BY <2>1
    <3> DEFINE order == ordered.previous_order
               equality == ordered.previous_equality
               levels == [o.levels EXCEPT ![slot] = longer]
               next == o.max_value + 1
    <3> HIDE DEF o, ordered, slot, stop, entry, longer
    <3>2. o = [log_slots |-> l, levels |-> table.levels, max_value |-> n,
               previous_order |-> order, previous_equality |-> equality]
      BY <1>3 DEF o
    <3>3. levels = [table.levels EXCEPT ![slot] = longer] /\ next = n + 1
      BY <3>2
    <3> HIDE DEF order, equality, levels, next
    <3>4. [o EXCEPT !.levels = levels, !.max_value = next]
            = [log_slots |-> l, levels |-> levels, max_value |-> next,
               previous_order |-> order, previous_equality |-> equality]
      <4>1. o = [log_slots |-> o.log_slots, levels |-> o.levels, max_value |-> o.max_value,
                 previous_order |-> o.previous_order, previous_equality |-> o.previous_equality]
        BY <3>2
      <4>2. [o EXCEPT !.levels = levels, !.max_value = next]
              = [log_slots |-> o.log_slots, levels |-> levels, max_value |-> next,
                 previous_order |-> o.previous_order, previous_equality |-> o.previous_equality]
        <5> DEFINE o1 == [o EXCEPT !.levels = levels]
        <5>1. o1 = [log_slots |-> o.log_slots, levels |-> levels, max_value |-> o.max_value,
                    previous_order |-> o.previous_order, previous_equality |-> o.previous_equality]
          BY <4>1
        <5> HIDE DEF o1
        <5>2. o1 = [log_slots |-> o1.log_slots, levels |-> o1.levels, max_value |-> o1.max_value,
                    previous_order |-> o1.previous_order, previous_equality |-> o1.previous_equality]
          BY <5>1
        <5>3. [o1 EXCEPT !.max_value = next]
                = [log_slots |-> o1.log_slots, levels |-> o1.levels, max_value |-> next,
                   previous_order |-> o1.previous_order, previous_equality |-> o1.previous_equality]
          BY <5>2
        <5>4. [o1 EXCEPT !.max_value = next]
                = [log_slots |-> o.log_slots, levels |-> levels, max_value |-> next,
                   previous_order |-> o.previous_order, previous_equality |-> o.previous_equality]
          BY <5>1, <5>3
        <5> QED
          BY <5>4, Zenon DEF o1
      <4> QED
        BY <3>2, <4>2
    <3>5. [o EXCEPT !.levels[slot] = longer, !.max_value = o.max_value + 1] = added
      BY <3>3, <3>4, Zenon DEF order, equality, levels, next
    <3> QED
      BY <3>1, <3>5, Zenon DEF o
  <2> HIDE DEF added
  <2> QED
    BY <2>2, Zenon DEF GetState
<1> HIDE DEF got, ordered, key, slot, list, stop
<1>9. /\ stop \in 0 .. Len(list)
      /\ \A i \in 1 .. Len(list) : list[i].key < key <=> (stop = 0 \/ i < stop)
      /\ stop # 0 => list[stop] \in InSlot(N, l, slot) /\ list[stop].key >= key
      /\ \A e \in InSlot(N, l, slot) : e.key = key => stop # 0 /\ list[stop] = e
  BY <1>4, <1>7, StopFinds DEF stop
<1>10. CASE stop # 0 /\ list[stop].key = key
  <2>1. PICK q \in N : list[stop] = EntryOf(q)
    BY <1>9, <1>10 DEF InSlot
  <2>2. Key(q[1]) = Key(x) /\ q[2] = list[stop].state /\ q[1] \in T
    BY <1>3, <1>10, <2>1 DEF EntryOf
  <2>3. q[1] = x /\ q = <<q[1], q[2]>>
    BY <2>2 DEF TuplesOK
  <2>4. got = [table |-> ordered, state |-> q[2]]
    BY <1>8, <1>10, <2>2
  <2>5. <<x, q[2]>> \in N /\ N \cup {<<x, q[2]>>} = N
    BY <2>3
  <2>6. TableOf(ordered, N)
    <3>1. /\ ordered.log_slots = l /\ ordered.levels = table.levels /\ ordered.max_value = n
      BY <1>3
    <3> QED
      BY <1>3, <3>1 DEF TableOf
  <2>7. q[2] \in 0 .. MaxStates - 1 /\ ordered.max_value = n
    <3>1. q[2] \in 0 .. n - 1 /\ n \in Nat
      BY DEF TableOf
    <3>2. n <= MaxStates /\ MaxStates \in Nat
      BY NumbersAreBounded, CompositionAssumption
    <3> QED
      BY <1>3, <3>1, <3>2
  <2>8. got.table = ordered /\ got.state = q[2]
    BY <2>4
  <2>9. ordered.max_value >= table.max_value
    BY <1>2, <2>7
  <2> QED
    BY <2>5, <2>6, <2>7, <2>8, <2>9 DEF got, IsGot
<1>11. CASE ~ (stop # 0 /\ list[stop].key = key)
  <2>1. ASSUME NEW q \in N PROVE q[1] # x
    <3> SUFFICES ASSUME q[1] = x PROVE FALSE
      OBVIOUS
    <3>1. EntryOf(q) \in InSlot(N, l, slot) /\ EntryOf(q).key = key
      BY <1>3 DEF InSlot, EntryOf, slot
    <3> QED
      BY <1>9, <1>11, <3>1
  <2>2. n < MaxStates
    BY <2>1, NumbersAreBounded
  <2>3. entry \in Entry /\ entry = EntryOf(<<x, n>>)
    BY <1>2, <1>3, <1>4 DEF Entry, EntryOf
  <2>4. SlotHas(longer, InSlot(N, l, slot) \cup {entry})
    <3>1. \A d \in InSlot(N, l, slot) : d.key # entry.key
      BY <1>9, <1>11
    <3>2. CASE stop = 0
      <4>1. \A d \in InSlot(N, l, slot) : \E i \in 1 .. Len(list) : list[i] = d
        BY <1>7, SlotIsList
      <4>2. \A d \in InSlot(N, l, slot) : d.key < entry.key
        BY <1>9, <3>2, <4>1
      <4> HIDE DEF entry
      <4> QED
        BY <1>7, <2>3, <3>2, <4>2, SlotAppend
    <3>3. CASE stop # 0
      <4>1. stop \in 1 .. Len(list)
        BY <1>7, <1>9, <3>3, SlotIsList
      <4>2. \A i \in 1 .. Len(list) : list[i].key < entry.key <=> i < stop
        BY <1>9, <3>3
      <4> HIDE DEF entry
      <4>3. SlotHas(InsertAt(list, stop, entry), InSlot(N, l, slot) \cup {entry})
        BY <1>7, <2>3, <3>1, <4>1, <4>2, SlotInsert
      <4> QED
        BY <3>3, <4>3
    <3> QED
      BY <3>2, <3>3
  <2> DEFINE M == N \cup {<<x, n>>}
  <2>5. TableOf(added, M) /\ added.max_value = n + 1
    <3> DEFINE levels == [table.levels EXCEPT ![slot] = longer]
    <3> HIDE DEF longer
    <3>1. longer \in Seq(Entry)
      BY <2>4 DEF SlotHas
    <3>2. levels \in [0 .. Pow(l) - 1 -> Seq(Entry)]
      BY <1>5, <1>6, <3>1
    <3>12. \A p : InSlot(M, l, p) = IF slot = p THEN InSlot(N, l, p) \cup {EntryOf(<<x, n>>)} ELSE InSlot(N, l, p)
      <4>1. slot = Slot(OriginalKey(x), l)
        BY DEF slot
      <4> SUFFICES ASSUME NEW p
                   PROVE  InSlot(M, l, p) = IF slot = p THEN InSlot(N, l, p) \cup {EntryOf(<<x, n>>)}
                                            ELSE InSlot(N, l, p)
        OBVIOUS
      <4> HIDE DEF n, l
      <4> QED
        BY <4>1, InSlotMore
    <3>3. ASSUME NEW p \in 0 .. Pow(l) - 1 PROVE SlotHas(levels[p], InSlot(M, l, p))
      <4>1. CASE p = slot
        <5>1. levels[p] = longer
          BY <1>5, <1>6, <4>1
        <5>2. InSlot(M, l, p) = InSlot(N, l, slot) \cup {entry}
          BY <2>3, <3>12, <4>1
        <5> QED
          BY <2>4, <5>1, <5>2
      <4>2. CASE p # slot
        <5>1. levels[p] = table.levels[p]
          BY <1>6, <4>2
        <5>2. InSlot(M, l, p) = InSlot(N, l, p)
          BY <3>12, <4>2
        <5> QED
          BY <1>6, <5>1, <5>2
      <4> QED
        BY <4>1, <4>2
    <3> HIDE DEF levels
    <3>4. LevelsHave(levels, l, M)
      BY <3>2, <3>3 DEF LevelsHave
    <3>5. \A q \in M : q[2] \in 0 .. (n + 1) - 1
      BY <1>2 DEF TableOf
    <3>6. \A k \in 0 .. (n + 1) - 1 : \E q \in M : q[2] = k
      <4>1. ASSUME NEW k \in 0 .. (n + 1) - 1 PROVE \E q \in M : q[2] = k
        <5>1. k = n \/ k \in 0 .. n - 1
          BY <1>2
        <5>2. CASE k = n
          <6>1. <<x, n>> \in M /\ <<x, n>>[2] = n
            OBVIOUS
          <6> QED
            BY <5>2, <6>1
        <5>3. CASE k \in 0 .. n - 1
          BY <5>3 DEF TableOf
        <5> QED
          BY <5>1, <5>2, <5>3
      <4> QED
        BY <4>1
    <3>7. \A p, q \in M : p[1] = q[1] <=> p[2] = q[2]
      <4>1. \A q \in N : q[1] # x /\ q[2] # n
        BY <1>2, <2>1 DEF TableOf
      <4>2. \A p, q \in N : p[1] = q[1] <=> p[2] = q[2]
        BY DEF TableOf
      <4> QED
        BY <4>1, <4>2
    <3>8. Ordered(added)
      BY <1>3 DEF Ordered
    <3>9. added = [log_slots |-> l, levels |-> levels, max_value |-> n + 1,
                   previous_order |-> ordered.previous_order,
                   previous_equality |-> ordered.previous_equality]
      BY DEF levels
    <3> HIDE DEF added
    <3>10. added.max_value = n + 1 /\ added.log_slots = l /\ added.levels = levels
           /\ added.previous_order = ordered.previous_order
           /\ added.previous_equality = ordered.previous_equality
      BY <3>9
    <3>11. n + 1 \in Nat
      BY <1>2
    <3> HIDE DEF M, n
    <3> QED
      BY <1>2, <3>4, <3>5, <3>6, <3>7, <3>8, <3>9, <3>10, <3>11 DEF TableOf
  <2> HIDE DEF added
  <2>6. M \in SUBSET (Vector \X Nat) /\ M \in SUBSET (T \X Nat)
    BY <1>1, <1>2
  <2>7. added.log_slots < 16 \/ ~ IsFull(added)
    <3>1. added.log_slots \in 0 .. 16 /\ added.max_value \in Nat
      BY <2>5 DEF TableOf
    <3>2. ASSUME added.log_slots = 16 PROVE ~ IsFull(added)
      <4>1. added.max_value <= MaxStates
        BY <2>5, <2>6, NumbersAreBounded
      <4>2. MaxStates <= Pow(16) * COMPOSITE_TABLE_MAX_DENSITY /\ MaxStates \in Nat
        BY BoundsAssumption, CompositionAssumption DEF Pow
      <4>3. IsFull(added) <=> added.max_value > Pow(16) * COMPOSITE_TABLE_MAX_DENSITY
        BY <3>2 DEF IsFull, Pow
      <4>4. Pow(16) * COMPOSITE_TABLE_MAX_DENSITY \in Nat
        BY PowerFacts, CompositeTableAssumption
      <4> QED
        BY <3>1, <4>1, <4>2, <4>3, <4>4
    <3> QED
      BY <3>1, <3>2
  <2> DEFINE table1 == IF IsFull(added) THEN Resize(added) ELSE added
  <2>8. TableOf(table1, M) /\ table1.max_value = n + 1
    BY <2>5, <2>6, <2>7, ResizeEffect
  <2>9. got = [table |-> table1, state |-> n]
    BY <1>8, <1>11
  <2> HIDE DEF table1
  <2>10. got.table = table1 /\ got.state = n
    BY <2>9
  <2>11. \A q \in N : q[1] # x /\ q[2] # n
    BY <1>2, <2>1 DEF TableOf
  <2>12. n \in 0 .. MaxStates - 1
    BY <1>2, <2>2, CompositionAssumption
  <2> QED
    BY <1>2, <2>8, <2>10, <2>11, <2>12 DEF got, IsGot
<1> QED
  BY <1>10, <1>11

LEMMA EmptyTableHasNothing == TableOf(EmptyTable, {}) /\ EmptyTable.max_value = 0
<1> DEFINE n == IF COMPOSITE_TABLE_SLOTS > 8 THEN COMPOSITE_TABLE_SLOTS ELSE 8
           l == Log(n)
           levels == [p \in 0 .. 2 ^ l - 1 |-> <<>>]
<1>1. n \in Nat /\ n <= Pow(16)
  BY CompositeTableAssumption, PowerFacts DEF Pow
<1>2. ASSUME NEW d \in 0 .. 13 PROVE Pow(16 + d) >= Pow(16)
  <2> DEFINE S == {k \in Nat : k <= 13 => Pow(16 + k) >= Pow(16) /\ Pow(16 + k) \in Nat}
  <2>1. 0 \in S
    BY PowerFacts
  <2>2. ASSUME NEW k \in Nat, k \in S PROVE k + 1 \in S
    <3> SUFFICES ASSUME k + 1 <= 13 PROVE Pow(16 + (k + 1)) >= Pow(16) /\ Pow(16 + (k + 1)) \in Nat
      OBVIOUS
    <3>1. 16 + k \in Digits /\ 16 + k # 30 /\ (16 + k) + 1 = 16 + (k + 1)
      BY DEF Digits
    <3>2. Pow((16 + k) + 1) = 2 * Pow(16 + k) /\ Pow(16 + k) >= Pow(16) /\ Pow(16 + k) \in Nat
      BY <2>2, <3>1, PowerFacts
    <3>3. Pow(16) \in Nat
      BY PowerFacts
    <3> QED
      BY <3>1, <3>2, <3>3
  <2>3. d \in S
    <3> HIDE DEF S
    <3> QED
      BY <2>1, <2>2, Orders!SetInduction
  <2> QED
    BY <2>3
<1>3. \A b \in 0 .. 29 : Pow(b) < n => b < 16
  <2> SUFFICES ASSUME NEW b \in 0 .. 29, b >= 16 PROVE ~ (Pow(b) < n)
    OBVIOUS
  <2>1. b - 16 \in 0 .. 13 /\ 16 + (b - 16) = b /\ b \in Digits
    BY DEF Digits
  <2>2. Pow(b) >= Pow(16) /\ Pow(b) \in Nat /\ Pow(16) \in Nat
    BY <1>2, <2>1, PowerFacts
  <2> QED
    BY <1>1, <2>2
<1>4. l \in 0 .. 16
  <2> DEFINE B == {b \in 0 .. 29 : Pow(b) < n}
  <2>1. l = Cardinality(B)
    BY DEF Log, Pow
  <2>2. B \in SUBSET Nat /\ 15 \in Nat /\ \A b \in B : b <= 15
    BY <1>3
  <2> HIDE DEF B, l
  <2>3. IsFiniteSet(B) /\ Cardinality(B) <= 15 + 1
    BY <2>2, FS_BoundedSetOfNaturals
  <2>4. Cardinality(B) \in Nat
    BY <2>3, FS_CardinalityType
  <2> QED
    BY <2>1, <2>3, <2>4
<1>5. EmptyTable = [log_slots |-> l, levels |-> levels, max_value |-> 0,
                    previous_order |-> <<>>, previous_equality |-> <<>>]
  BY DEF EmptyTable
<1>6. levels = [p \in 0 .. Pow(l) - 1 |-> <<>>]
  BY DEF Pow
<1> HIDE DEF l, levels
<1>7. LevelsHave(levels, l, {})
  <2>1. \A p : InSlot({}, l, p) = {}
    BY DEF InSlot
  <2>2. levels \in [0 .. Pow(l) - 1 -> Seq(Entry)]
    BY <1>6, EmptySeq
  <2> QED
    BY <1>6, <2>1, <2>2, EmptySlot DEF LevelsHave
<1>8. Ordered(EmptyTable)
  BY <1>5 DEF Ordered
<1>9. EmptyTable.max_value = 0
  BY <1>5
<1> QED
  BY <1>4, <1>5, <1>7, <1>8, <1>9 DEF TableOf

(****************************************************************************)
(* Lists that have each member of a set once.                               *)
(****************************************************************************)
OnceIn(list, T) ==
  /\ list \in Seq(Nat)
  /\ ToSet(list) = T
  /\ IsInjective(list)

\* shorter is list without its entry k.
Shortened(list, k, shorter) ==
  /\ shorter \in Seq(Nat) /\ Len(shorter) = Len(list) - 1
  /\ \A i \in 1 .. Len(list) - 1 : shorter[i] = IF i < k THEN list[i] ELSE list[i + 1]

LEMMA BucketFacts ==
  ASSUME NEW list, NEW T, OnceIn(list, T)
  PROVE  /\ Len(list) \in Nat /\ DOMAIN list = 1 .. Len(list)
         /\ \A i \in 1 .. Len(list) : list[i] \in Nat /\ list[i] \in T
         /\ \A t \in T : \E i \in 1 .. Len(list) : list[i] = t
         /\ \A i, k \in 1 .. Len(list) : list[i] = list[k] => i = k
         /\ T \subseteq Nat
<1>1. Len(list) \in Nat /\ DOMAIN list = 1 .. Len(list) /\ \A i \in 1 .. Len(list) : list[i] \in Nat
  BY LenProperties DEF OnceIn
<1> QED
  BY <1>1 DEF OnceIn, ToSet, IsInjective

LEMMA EmptyBucket == OnceIn(<<>>, {}) /\ \A T : OnceIn(<<>>, T) => T = {}
<1>1. <<>> \in Seq(Nat) /\ Len(<<>>) = 0 /\ DOMAIN <<>> = {}
  BY EmptySeq, LenProperties
<1> QED
  BY <1>1 DEF OnceIn, ToSet, IsInjective

LEMMA AppendToBucket ==
  ASSUME NEW list, NEW T, OnceIn(list, T), NEW t \in Nat, t \notin T
  PROVE  OnceIn(Append(list, t), T \cup {t}) /\ Len(Append(list, t)) = Len(list) + 1
<1> DEFINE n == Len(list)
           more == Append(list, t)
<1>1. /\ n \in Nat /\ \A i \in 1 .. n : list[i] \in T
      /\ \A u \in T : \E i \in 1 .. n : list[i] = u
      /\ \A i, k \in 1 .. n : list[i] = list[k] => i = k
  BY BucketFacts
<1>2. /\ more \in Seq(Nat) /\ Len(more) = n + 1
      /\ \A i \in 1 .. n : more[i] = list[i]
      /\ more[n + 1] = t
  BY AppendProperties DEF OnceIn
<1> HIDE DEF more, n
<1>3. DOMAIN more = 1 .. n + 1
  BY <1>2, LenProperties
<1>4. \A i \in 1 .. n + 1 : i \in 1 .. n \/ i = n + 1
  BY <1>1
<1>5. /\ \A i \in 1 .. n : i \in 1 .. n + 1
      /\ n + 1 \in 1 .. n + 1
  BY <1>1
<1>6. ToSet(more) = T \cup {t}
  BY <1>1, <1>2, <1>3, <1>4, <1>5 DEF ToSet
<1>7. IsInjective(more)
  BY <1>1, <1>2, <1>3, <1>4 DEF IsInjective
<1> QED
  BY <1>2, <1>6, <1>7 DEF OnceIn, more, n

LEMMA ShortenedBucket ==
  ASSUME NEW list, NEW T, OnceIn(list, T), NEW k \in 1 .. Len(list),
         NEW shorter, Shortened(list, k, shorter)
  PROVE  OnceIn(shorter, T \ {list[k]})
<1> DEFINE n == Len(list)
<1>1. /\ n \in Nat /\ k \in 1 .. n /\ \A i \in 1 .. n : list[i] \in T
      /\ \A u \in T : \E i \in 1 .. n : list[i] = u
      /\ \A i, j \in 1 .. n : list[i] = list[j] => i = j
  BY BucketFacts
<1>2. shorter \in Seq(Nat) /\ DOMAIN shorter = 1 .. n - 1
  BY LenProperties DEF Shortened
<1>3. \A i \in 1 .. n - 1 : shorter[i] = IF i < k THEN list[i] ELSE list[i + 1]
  BY DEF Shortened
<1> HIDE DEF n
<1>4. \A i \in 1 .. n - 1 : i \in 1 .. n /\ i + 1 \in 1 .. n /\ (~ (i < k) => i + 1 # k)
  BY <1>1
<1>5. ASSUME NEW i \in 1 .. n - 1 PROVE shorter[i] \in T \ {list[k]}
  <2>1. CASE i < k
    <3>1. i \in 1 .. n /\ i # k /\ shorter[i] = list[i]
      BY <1>1, <1>3, <1>4, <2>1
    <3> QED
      BY <1>1, <3>1
  <2>2. CASE ~ (i < k)
    <3>1. i + 1 \in 1 .. n /\ i + 1 # k /\ shorter[i] = list[i + 1]
      BY <1>3, <1>4, <2>2
    <3> QED
      BY <1>1, <3>1
  <2> QED
    BY <2>1, <2>2
<1>6. ASSUME NEW u \in T \ {list[k]} PROVE \E i \in 1 .. n - 1 : shorter[i] = u
  <2>1. PICK i \in 1 .. n : list[i] = u
    BY <1>1
  <2>2. CASE i < k
    <3>1. i \in 1 .. n - 1
      BY <1>1, <2>2
    <3> QED
      BY <1>3, <2>1, <2>2, <3>1
  <2>3. CASE ~ (i < k)
    <3>1. i # k
      BY <2>1
    <3>2. i - 1 \in 1 .. n - 1 /\ ~ (i - 1 < k) /\ (i - 1) + 1 = i
      BY <1>1, <2>3, <3>1
    <3> QED
      BY <1>3, <2>1, <3>2
  <2> QED
    BY <2>2, <2>3
<1>7. ToSet(shorter) = T \ {list[k]}
  BY <1>2, <1>5, <1>6 DEF ToSet
<1>8. ASSUME NEW i \in 1 .. n - 1, NEW j \in 1 .. n - 1, shorter[i] = shorter[j] PROVE i = j
  <2> DEFINE At(e) == IF e < k THEN e ELSE e + 1
  <2>1. shorter[i] = list[At(i)] /\ shorter[j] = list[At(j)]
    BY <1>3
  <2>2. At(i) \in 1 .. n /\ At(j) \in 1 .. n
    BY <1>4
  <2>3. At(i) = At(j)
    <3> HIDE DEF At
    <3> QED
      BY <1>1, <1>8, <2>1, <2>2
  <2> QED
    BY <1>1, <2>3
<1>9. IsInjective(shorter)
  BY <1>2, <1>8 DEF IsInjective
<1> QED
  BY <1>2, <1>7, <1>9 DEF OnceIn

\* The entry that is removed first is the only one.
LEMMA RemoveFirstShortens ==
  ASSUME NEW list, NEW T, OnceIn(list, T), NEW k \in 1 .. Len(list)
  PROVE  Shortened(list, k, RemoveFirst(list, list[k]))
<1> DEFINE n == Len(list)
           e == list[k]
           I == {i \in 1 .. n : list[i] = e}
           front == SubSeq(list, 1, k - 1)
           back == SubSeq(list, k + 1, n)
<1>1. /\ n \in Nat /\ k \in 1 .. n
      /\ \A i \in 1 .. n : list[i] \in Nat
      /\ \A i, j \in 1 .. n : list[i] = list[j] => i = j
  BY BucketFacts
<1>2. I = {k}
  BY <1>1
<1>3. Min({k}) = k
  BY <1>1 DEF Min
<1>4. SelectInSeq(list, LAMBDA v : v = e) = k
  <2>1. SelectInSeq(list, LAMBDA v : v = e) = IF I # {} THEN Min(I) ELSE 0
    BY DEF SelectInSeq
  <2> HIDE DEF I
  <2> QED
    BY <1>2, <1>3, <2>1
<1>5. RemoveFirst(list, e) = front \o back
  BY <1>4 DEF RemoveFirst, RemoveAt
<1>6. /\ front \in Seq(Nat) /\ Len(front) = k - 1
      /\ \A i \in 1 .. k - 1 : front[i] = list[i]
  <2>1. \A i \in 1 .. k - 1 : list[i] \in Nat
    BY <1>1
  <2>2. /\ front \in Seq(Nat)
        /\ Len(front) = (IF 1 <= k - 1 THEN (k - 1) - 1 + 1 ELSE 0)
        /\ \A i \in 1 .. (k - 1) - 1 + 1 : front[i] = list[1 + i - 1]
    BY <1>1, <2>1, SubSeqProperties
  <2>3. \A i \in 1 .. k - 1 : i \in 1 .. (k - 1) - 1 + 1 /\ 1 + i - 1 = i
    BY <1>1
  <2> HIDE DEF front
  <2> QED
    BY <1>1, <2>2, <2>3
<1>7. /\ back \in Seq(Nat) /\ Len(back) = n - k
      /\ \A i \in 1 .. n - k : back[i] = list[k + i]
  <2>1. \A i \in k + 1 .. n : list[i] \in Nat
    BY <1>1
  <2>2. /\ back \in Seq(Nat)
        /\ Len(back) = (IF k + 1 <= n THEN n - (k + 1) + 1 ELSE 0)
        /\ \A i \in 1 .. n - (k + 1) + 1 : back[i] = list[(k + 1) + i - 1]
    BY <1>1, <2>1, SubSeqProperties
  <2>3. \A i \in 1 .. n - k : i \in 1 .. n - (k + 1) + 1 /\ (k + 1) + i - 1 = k + i
    BY <1>1
  <2> HIDE DEF back
  <2> QED
    BY <1>1, <2>2, <2>3
<1> DEFINE both == front \o back
<1> HIDE DEF front, back
<1>8. /\ both \in Seq(Nat) /\ Len(both) = (k - 1) + (n - k)
      /\ \A i \in 1 .. (k - 1) + (n - k) : both[i] = IF i <= k - 1 THEN front[i] ELSE back[i - (k - 1)]
  BY <1>6, <1>7, ConcatProperties
<1> HIDE DEF both, n
<1>9. ASSUME NEW i \in 1 .. n - 1 PROVE both[i] = IF i < k THEN list[i] ELSE list[i + 1]
  <2>1. i \in 1 .. (k - 1) + (n - k)
    BY <1>1
  <2>2. CASE i < k
    <3>1. i \in 1 .. k - 1 /\ i <= k - 1
      BY <1>1, <2>2
    <3> QED
      BY <1>6, <1>8, <2>1, <2>2, <3>1
  <2>3. CASE ~ (i < k)
    <3>1. i - (k - 1) \in 1 .. n - k /\ ~ (i <= k - 1) /\ k + (i - (k - 1)) = i + 1
      BY <1>1, <2>3
    <3> QED
      BY <1>7, <1>8, <2>1, <2>3, <3>1
  <2> QED
    BY <2>2, <2>3
<1>10. (k - 1) + (n - k) = n - 1
  BY <1>1
<1>11. Shortened(list, k, both)
  BY <1>8, <1>9, <1>10 DEF Shortened, n
<1> QED
  BY <1>5, <1>11 DEF both, e

LEMMA RemoveFromBucket ==
  ASSUME NEW list, NEW T, OnceIn(list, T), NEW t \in T
  PROVE  /\ Contains(list, t)
         /\ OnceIn(RemoveFirst(list, t), T \ {t})
         /\ Len(RemoveFirst(list, t)) = Len(list) - 1
<1>1. PICK k \in 1 .. Len(list) : list[k] = t
  BY BucketFacts
<1>2. Shortened(list, k, RemoveFirst(list, t))
  BY <1>1, RemoveFirstShortens
<1>3. OnceIn(RemoveFirst(list, t), T \ {t})
  BY <1>1, <1>2, ShortenedBucket
<1> QED
  BY <1>1, <1>2, <1>3 DEF Contains, Shortened

LEMMA BucketContains ==
  ASSUME NEW list, NEW T, OnceIn(list, T), NEW t
  PROVE  Contains(list, t) <=> t \in T
BY BucketFacts DEF Contains

\* A list is as long as its set is large.
LEMMA BucketLength ==
  ASSUME NEW list, NEW T, OnceIn(list, T)
  PROVE  IsFiniteSet(T) /\ Cardinality(T) = Len(list)
<1> DEFINE n == Len(list)
<1>1. n \in Nat /\ DOMAIN list = 1 .. n /\ list \in [1 .. n -> Nat]
  BY LenProperties DEF OnceIn
<1>2. list \in Bijection(1 .. n, T)
  <2>1. list \in [1 .. n -> T]
    BY <1>1, BucketFacts
  <2>2. \A t \in T : \E i \in 1 .. n : list[i] = t
    BY BucketFacts
  <2>3. \A i, k \in 1 .. n : list[i] = list[k] => i = k
    BY BucketFacts
  <2> HIDE DEF n
  <2> QED
    BY <2>1, <2>2, <2>3 DEF Bijection, Injection, Surjection, IsInjective
<1>3. IsFiniteSet(1 .. n) /\ Cardinality(1 .. n) = n
  <2>1. 1 \in Int /\ n \in Int
    BY <1>1
  <2>2. IsFiniteSet(1 .. n) /\ Cardinality(1 .. n) = IF 1 > n THEN 0 ELSE n - 1 + 1
    BY <2>1, FS_Interval
  <2> QED
    BY <1>1, <2>2
<1>4. IsFiniteSet(T) /\ Cardinality(T) = Cardinality(1 .. n)
  <2>1. ExistsBijection(1 .. n, T)
    BY <1>2 DEF ExistsBijection
  <2> QED
    BY <1>2, <1>3, <2>1, FS_Bijection
<1> QED
  BY <1>3, <1>4

\* A bucket list of n buckets that has the numbers E.
Rest(E, n, i) == {e \in E : e % n = i}
Buckets(list, n, E) ==
  /\ n \in Nat \ {0} /\ E \in SUBSET Nat /\ IsFiniteSet(E)
  /\ list = [composite_count |-> Cardinality(E), buckets |-> list.buckets]
  /\ list.buckets \in [0 .. n - 1 -> Seq(Nat)]
  /\ \A i \in 0 .. n - 1 : OnceIn(list.buckets[i], Rest(E, n, i))

LEMMA BothUpdated ==
  ASSUME NEW o, NEW count, NEW b, o = [composite_count |-> count, buckets |-> b], NEW count1, NEW b1
  PROVE  [o EXCEPT !.composite_count = count1, !.buckets = b1] = [composite_count |-> count1, buckets |-> b1]
<1> DEFINE o1 == [o EXCEPT !.composite_count = count1]
<1>1. o1 = [composite_count |-> count1, buckets |-> b]
  OBVIOUS
<1> HIDE DEF o1
<1>2. [o1 EXCEPT !.buckets = b1] = [composite_count |-> count1, buckets |-> b1]
  BY <1>1
<1> QED
  BY <1>2, Zenon DEF o1

LEMMA BucketOf ==
  ASSUME NEW n \in Nat \ {0}, NEW E, NEW list, Buckets(list, n, E), NEW e \in Nat
  PROVE  Index(list, e) = e % n /\ e % n \in 0 .. n - 1
<1>1. DOMAIN list.buckets = 0 .. n - 1
  BY DEF Buckets
<1>2. Cardinality(0 .. n - 1) = n
  <2>1. 0 \in Int /\ n - 1 \in Int
    OBVIOUS
  <2>2. Cardinality(0 .. n - 1) = IF 0 > n - 1 THEN 0 ELSE (n - 1) - 0 + 1
    BY <2>1, FS_Interval
  <2> QED
    BY <2>2
<1>3. e % n \in 0 .. n - 1
  OBVIOUS
<1> QED
  BY <1>1, <1>2, <1>3 DEF Index

\* What is found in a bucket list is what it has.
LEMMA HasEntryMeans ==
  ASSUME NEW n \in Nat \ {0}, NEW E, NEW list, Buckets(list, n, E), NEW e \in Nat
  PROVE  HasEntry(list, e) <=> e \in E
<1>1. Index(list, e) = e % n /\ e % n \in 0 .. n - 1
  BY BucketOf
<1>2. OnceIn(list.buckets[e % n], Rest(E, n, e % n))
  BY <1>1 DEF Buckets
<1>3. Contains(list.buckets[e % n], e) <=> e \in Rest(E, n, e % n)
  BY <1>2, BucketContains
<1> QED
  BY <1>1, <1>3 DEF HasEntry, Rest

LEMMA EntriesMean ==
  ASSUME NEW n \in Nat \ {0}, NEW E, NEW list, Buckets(list, n, E)
  PROVE  Entries(list) = E /\ list.composite_count = Cardinality(E)
<1>1. DOMAIN list.buckets = 0 .. n - 1 /\ \A i \in 0 .. n - 1 : ToSet(list.buckets[i]) = Rest(E, n, i)
  BY DEF Buckets, OnceIn
<1>2. \A e \in E : e % n \in 0 .. n - 1 /\ e \in Rest(E, n, e % n)
  BY DEF Buckets, Rest
<1>3. \A i : \A e \in Rest(E, n, i) : e \in E
  BY DEF Rest
<1>4. Entries(list) = E
  BY <1>1, <1>2, <1>3 DEF Entries
<1>5. list.composite_count = Cardinality(E)
  <2> DEFINE b == list.buckets
  <2>1. list = [composite_count |-> Cardinality(E), buckets |-> b]
    BY DEF Buckets
  <2> HIDE DEF b
  <2> QED
    BY <2>1
<1> QED
  BY <1>4, <1>5

LEMMA EmptyHasNothing ==
  ASSUME NEW n \in Nat \ {0}
  PROVE  Buckets(EmptyList(n), n, {})
<1>1. EmptyList(n).buckets = [index \in 0 .. n - 1 |-> <<>>]
      /\ EmptyList(n) = [composite_count |-> 0, buckets |-> EmptyList(n).buckets]
  BY DEF EmptyList
<1>2. \A i : Rest({}, n, i) = {}
  BY DEF Rest
<1>3. IsFiniteSet({}) /\ Cardinality({}) = 0
  BY FS_EmptySet
<1>4. \A i \in 0 .. n - 1 : OnceIn(<<>>, Rest({}, n, i))
  BY <1>2, EmptyBucket
<1>5. EmptyList(n).buckets \in [0 .. n - 1 -> Seq(Nat)]
  BY <1>1, EmptySeq
<1> HIDE DEF EmptyList
<1> QED
  BY <1>1, <1>3, <1>4, <1>5 DEF Buckets

LEMMA AddEntryAdds ==
  ASSUME NEW n \in Nat \ {0}, NEW E, NEW list, Buckets(list, n, E), NEW e \in Nat
  PROVE  Buckets(AddEntry(list, e), n, E \cup {e})
<1>1. CASE e \in E
  <2>1. AddEntry(list, e) = list /\ E \cup {e} = E
    BY <1>1, HasEntryMeans DEF AddEntry
  <2> QED
    BY <2>1
<1>2. CASE e \notin E
  <2> DEFINE i == e % n
             more == [list.buckets EXCEPT ![i] = Append(list.buckets[i], e)]
             F == E \cup {e}
  <2>1. i \in 0 .. n - 1 /\ Index(list, e) = i /\ ~HasEntry(list, e)
    BY <1>2, BucketOf, HasEntryMeans
  <2>2. list.composite_count = Cardinality(E)
    BY EntriesMean
  <2>3. IsFiniteSet(F) /\ Cardinality(F) = Cardinality(E) + 1 /\ F \in SUBSET Nat
    BY <1>2, FS_AddElement DEF Buckets
  <2>4. AddEntry(list, e) = [composite_count |-> Cardinality(E) + 1, buckets |-> more]
    <3> DEFINE b == list.buckets
               count == list.composite_count
    <3>1. list = [composite_count |-> count, buckets |-> b]
      BY <2>2 DEF Buckets
    <3>2. AddEntry(list, e) = [list EXCEPT !.composite_count = @ + 1, !.buckets[i] = Append(@, e)]
      BY <2>1 DEF AddEntry
    <3>3. [list EXCEPT !.composite_count = @ + 1, !.buckets[i] = Append(@, e)]
            = [list EXCEPT !.composite_count = count + 1, !.buckets = more]
      OBVIOUS
    <3> HIDE DEF b, count, i, more
    <3>4. [list EXCEPT !.composite_count = count + 1, !.buckets = more]
            = [composite_count |-> count + 1, buckets |-> more]
      BY <3>1, BothUpdated, Zenon
    <3> QED
      BY <2>2, <3>2, <3>3, <3>4 DEF count
  <2>5. \A k \in 0 .. n - 1 : OnceIn(list.buckets[k], Rest(E, n, k))
        /\ list.buckets[k] \in Seq(Nat)
    BY DEF Buckets
  <2>6. OnceIn(Append(list.buckets[i], e), Rest(E, n, i) \cup {e})
    <3>1. e \notin Rest(E, n, i)
      BY <1>2 DEF Rest
    <3> QED
      BY <2>1, <2>5, <3>1, AppendToBucket
  <2>7. \A k \in 0 .. n - 1 : Rest(F, n, k) = IF k = i THEN Rest(E, n, i) \cup {e} ELSE Rest(E, n, k)
    BY DEF Rest
  <2>8. more \in [0 .. n - 1 -> Seq(Nat)]
        /\ \A k \in 0 .. n - 1 : more[k] = IF k = i THEN Append(list.buckets[i], e) ELSE list.buckets[k]
    <3>1. list.buckets \in [0 .. n - 1 -> Seq(Nat)] /\ Append(list.buckets[i], e) \in Seq(Nat)
      BY <2>6 DEF Buckets, OnceIn
    <3> HIDE DEF i
    <3> QED
      BY <2>1, <3>1
  <2> HIDE DEF i, more
  <2>9. \A k \in 0 .. n - 1 : OnceIn(more[k], Rest(F, n, k))
    BY <2>5, <2>6, <2>7, <2>8
  <2>10. AddEntry(list, e).buckets = more
         /\ AddEntry(list, e) = [composite_count |-> Cardinality(F), buckets |-> more]
    BY <2>3, <2>4
  <2> QED
    BY <2>3, <2>8, <2>9, <2>10 DEF Buckets
<1> QED
  BY <1>1, <1>2

LEMMA RemoveEntryRemoves ==
  ASSUME NEW n \in Nat \ {0}, NEW E, NEW list, Buckets(list, n, E), NEW e \in E
  PROVE  Buckets(RemoveEntry(list, e), n, E \ {e})
<1> DEFINE i == e % n
           less == [list.buckets EXCEPT ![i] = RemoveFirst(list.buckets[i], e)]
           F == E \ {e}
<1>0. e \in Nat
  BY DEF Buckets
<1>1. i \in 0 .. n - 1 /\ Index(list, e) = i /\ HasEntry(list, e)
  BY <1>0, BucketOf, HasEntryMeans
<1>2. list.composite_count = Cardinality(E)
  BY EntriesMean
<1>3. IsFiniteSet(F) /\ Cardinality(F) = Cardinality(E) - 1 /\ F \in SUBSET Nat
  BY FS_RemoveElement DEF Buckets
<1>4. RemoveEntry(list, e) = [composite_count |-> Cardinality(E) - 1, buckets |-> less]
  <2> DEFINE b == list.buckets
             count == list.composite_count
  <2>1. list = [composite_count |-> count, buckets |-> b]
    BY <1>2 DEF Buckets
  <2>2. RemoveEntry(list, e) = [list EXCEPT !.composite_count = @ - 1, !.buckets[i] = RemoveFirst(@, e)]
    BY <1>1 DEF RemoveEntry
  <2>3. [list EXCEPT !.composite_count = @ - 1, !.buckets[i] = RemoveFirst(@, e)]
          = [list EXCEPT !.composite_count = count - 1, !.buckets = less]
    BY Zenon
  <2> HIDE DEF b, count, i, less
  <2>4. [list EXCEPT !.composite_count = count - 1, !.buckets = less]
          = [composite_count |-> count - 1, buckets |-> less]
    BY <2>1, BothUpdated, Zenon
  <2> QED
    BY <1>2, <2>2, <2>3, <2>4 DEF count
<1>5. \A k \in 0 .. n - 1 : OnceIn(list.buckets[k], Rest(E, n, k))
      /\ list.buckets[k] \in Seq(Nat)
  BY DEF Buckets
<1>6. OnceIn(RemoveFirst(list.buckets[i], e), Rest(E, n, i) \ {e})
  <2>1. e \in Rest(E, n, i)
    BY DEF Rest
  <2> QED
    BY <1>1, <1>5, <2>1, RemoveFromBucket
<1>7. \A k \in 0 .. n - 1 : Rest(F, n, k) = IF k = i THEN Rest(E, n, i) \ {e} ELSE Rest(E, n, k)
  BY DEF Rest
<1>8. less \in [0 .. n - 1 -> Seq(Nat)]
      /\ \A k \in 0 .. n - 1 : less[k] = IF k = i THEN RemoveFirst(list.buckets[i], e) ELSE list.buckets[k]
  <2> DEFINE first == RemoveFirst(list.buckets[i], e)
  <2>1. list.buckets \in [0 .. n - 1 -> Seq(Nat)] /\ first \in Seq(Nat)
    BY <1>6 DEF Buckets, OnceIn
  <2> HIDE DEF i, first
  <2>2. [list.buckets EXCEPT ![i] = first] \in [0 .. n - 1 -> Seq(Nat)]
        /\ \A k \in 0 .. n - 1 : [list.buckets EXCEPT ![i] = first][k] = IF k = i THEN first ELSE list.buckets[k]
    BY <1>1, <2>1
  <2> QED
    BY <2>2 DEF first
<1> HIDE DEF i, less
<1>9. \A k \in 0 .. n - 1 : OnceIn(less[k], Rest(F, n, k))
  BY <1>5, <1>6, <1>7, <1>8
<1>10. RemoveEntry(list, e).buckets = less
       /\ RemoveEntry(list, e) = [composite_count |-> Cardinality(F), buckets |-> less]
  BY <1>3, <1>4
<1> QED
  BY <1>3, <1>8, <1>9, <1>10 DEF Buckets

-----------------------------------------------------------------------------
(****************************************************************************)
(* Systems: their tuples of states and their combinations of transitions.   *)
(****************************************************************************)
LEMMA SystemFacts ==
  ASSUME NEW sys \in Systems
  PROVE  /\ Len(sys.automata) \in 1 .. ComponentsCount /\ ComponentsCount \in Nat \ {0}
         /\ DOMAIN sys.automata = 1 .. Len(sys.automata)
         /\ \A i \in DOMAIN sys.automata : i \in Place /\ i \in Nat /\ IsAutomaton(sys.automata[i])
         /\ DOMAIN sys.fluents = 1 .. ComponentsCount - Len(sys.automata)
         /\ \A f \in DOMAIN sys.fluents : sys.fluents[f].initial_valuation \in {0, 1}
         /\ \A i \in Place : /\ i \in Nat
                             /\ i \notin DOMAIN sys.automata => i - Len(sys.automata) \in DOMAIN sys.fluents
         /\ sys.is_game \in BOOLEAN /\ sys.no_mixed_states \in BOOLEAN
         /\ sys.is_game \/ Len(sys.automata) = ComponentsCount
         /\ Len(sys.fluents) = ComponentsCount - Len(sys.automata) /\ Len(sys.fluents) \in Nat
         /\ Len(sys.liveness) \in Nat /\ DOMAIN sys.liveness = 1 .. Len(sys.liveness)
         /\ Len(sys.vstates) \in Nat /\ DOMAIN sys.vstates = 1 .. Len(sys.vstates)
<1>1. IsSystem(sys)
  BY CompositionAssumption
<1>2. ComponentsCount \in Nat \ {0}
  BY CompositeTableAssumption
<1>3. Len(sys.automata) \in 1 .. ComponentsCount
      /\ DOMAIN sys.automata = 1 .. Len(sys.automata)
      /\ Len(sys.fluents) = ComponentsCount - Len(sys.automata) /\ Len(sys.fluents) \in Nat
      /\ DOMAIN sys.fluents = 1 .. ComponentsCount - Len(sys.automata)
      /\ \A f \in DOMAIN sys.fluents : sys.fluents[f].initial_valuation \in {0, 1}
  <2> DEFINE F == [initial_valuation : {0, 1}, starting_signals : SUBSET SUBSET Signal,
                   ending_signals : SUBSET SUBSET Signal]
  <2>1. sys.fluents \in Seq(F) /\ Len(sys.automata) + Len(sys.fluents) = ComponentsCount
        /\ Len(sys.automata) \in 1 .. ComponentsCount /\ DOMAIN sys.automata = 1 .. Len(sys.automata)
    BY <1>1 DEF IsSystem
  <2> HIDE DEF F
  <2>2. /\ Len(sys.fluents) \in Nat /\ DOMAIN sys.fluents = 1 .. Len(sys.fluents)
        /\ \A f \in DOMAIN sys.fluents : sys.fluents[f] \in F
    BY <2>1
  <2>3. Len(sys.fluents) = ComponentsCount - Len(sys.automata)
    <3>1. \A m, n, c \in Nat : m + n = c => n = c - m
      OBVIOUS
    <3>2. Len(sys.automata) \in Nat /\ Len(sys.fluents) \in Nat /\ ComponentsCount \in Nat
          /\ Len(sys.automata) + Len(sys.fluents) = ComponentsCount
      <4>1. \A m : m \in 1 .. ComponentsCount => m \in Nat
        BY <1>2
      <4>2. Len(sys.automata) \in Nat
        BY <2>1, <4>1, Zenon
      <4>3. Len(sys.fluents) \in Nat /\ ComponentsCount \in Nat
        BY <1>2, <2>2
      <4> QED
        BY <2>1, <4>2, <4>3, Zenon
    <3> QED
      BY <3>1, <3>2
  <2> QED
    BY <2>1, <2>2, <2>3 DEF F
<1>6. /\ Len(sys.liveness) \in Nat /\ DOMAIN sys.liveness = 1 .. Len(sys.liveness)
      /\ Len(sys.vstates) \in Nat /\ DOMAIN sys.vstates = 1 .. Len(sys.vstates)
  BY <1>1 DEF IsSystem
<1>4. ASSUME NEW i \in Place
      PROVE  i \in Nat /\ (i \notin DOMAIN sys.automata => i - Len(sys.automata) \in DOMAIN sys.fluents)
  BY <1>2, <1>3 DEF Place
<1>5. \A i \in DOMAIN sys.automata : i \in Place /\ i \in Nat
  BY <1>2, <1>3 DEF Place
<1> QED
  BY <1>1, <1>2, <1>3, <1>4, <1>5, <1>6 DEF IsSystem

LEMMA AutomatonFacts ==
  ASSUME NEW sys \in Systems, NEW i \in DOMAIN sys.automata, NEW s \in States(sys, i)
  PROVE  /\ sys.automata[i].alphabet \subseteq Signal \ {InputBit}
         /\ sys.automata[i].transitions[s] \in Seq([signals : SUBSET (sys.automata[i].alphabet \cup {InputBit}),
                                                    state_to : States(sys, i)])
         /\ Degree(sys, i, s) \in Nat
         /\ DOMAIN sys.automata[i].transitions[s] = 1 .. Degree(sys, i, s)
         /\ \A j \in 1 .. Degree(sys, i, s) :
              LET t == sys.automata[i].transitions[s][j]
              IN  t.signals \subseteq sys.automata[i].alphabet \cup {InputBit} /\ t.state_to \in States(sys, i)
<1> DEFINE aut == sys.automata[i]
           S == [signals : SUBSET (aut.alphabet \cup {InputBit}), state_to : DOMAIN aut.transitions]
<1>1. IsAutomaton(aut) /\ States(sys, i) = DOMAIN aut.transitions
  BY SystemFacts DEF States
<1>2. aut.alphabet \subseteq Signal \ {InputBit} /\ aut.transitions[s] \in Seq(S)
  BY <1>1 DEF IsAutomaton
<1>3. Len(aut.transitions[s]) \in Nat /\ DOMAIN aut.transitions[s] = 1 .. Len(aut.transitions[s])
      /\ \A j \in 1 .. Len(aut.transitions[s]) : aut.transitions[s][j] \in S
  <2> DEFINE list == aut.transitions[s]
  <2>1. list \in Seq(S)
    BY <1>2
  <2> HIDE DEF list, S
  <2>2. Len(list) \in Nat /\ DOMAIN list = 1 .. Len(list) /\ \A j \in 1 .. Len(list) : list[j] \in S
    BY <2>1, LenProperties
  <2> QED
    BY <2>2 DEF list
<1>4. \A t \in S : t.signals \subseteq aut.alphabet \cup {InputBit} /\ t.state_to \in DOMAIN aut.transitions
  OBVIOUS
<1> HIDE DEF aut, S
<1>5. \A j \in 1 .. Len(aut.transitions[s]) : LET t == aut.transitions[s][j]
          IN  t.signals \subseteq aut.alphabet \cup {InputBit} /\ t.state_to \in DOMAIN aut.transitions
  BY <1>3, <1>4
<1> QED
  BY <1>1, <1>2, <1>3, <1>5 DEF aut, S, Degree

LEMMA StatesAreNatural ==
  ASSUME NEW sys \in Systems, NEW i \in Place
  PROVE  States(sys, i) \subseteq Nat
<1>1. CASE i \in DOMAIN sys.automata
  BY <1>1, SystemFacts DEF States, IsAutomaton
<1>2. CASE i \notin DOMAIN sys.automata
  BY <1>2 DEF States
<1> QED
  BY <1>1, <1>2

LEMMA TupleMeans ==
  ASSUME NEW sys \in Systems, NEW of
  PROVE  of \in Tuples(sys) <=> /\ of = [i \in Place |-> of[i]]
                                /\ \A i \in Place : of[i] \in States(sys, i)
BY DEF Tuples

LEMMA TuplesAreOK ==
  ASSUME KeysDistinct, NEW sys \in Systems
  PROVE  TuplesOK(Tuples(sys))
<1>1. ASSUME NEW of \in Tuples(sys) PROVE of \in Vector
  <2>1. of = [i \in Place |-> of[i]] /\ \A i \in Place : of[i] \in Nat
    BY TupleMeans, StatesAreNatural
  <2> QED
    BY <2>1 DEF Vector
<1>2. IsFiniteSet(Tuples(sys)) /\ Cardinality(Tuples(sys)) <= MaxStates
  BY BoundsAssumption
<1>3. \A x, y \in Tuples(sys) : Key(x) = Key(y) => x = y
  BY DEF KeysDistinct
<1> QED
  BY <1>1, <1>2, <1>3 DEF TuplesOK

LEMMA InitialTupleIsTuple ==
  ASSUME NEW sys \in Systems
  PROVE  InitialTuple(sys) \in Tuples(sys)
<1> DEFINE m == Len(sys.automata)
           n == ComponentsCount
           f == [i \in DOMAIN sys.automata |-> sys.automata[i].initial_state]
           g == IF sys.is_game THEN [k \in DOMAIN sys.fluents |-> sys.fluents[k].initial_valuation] ELSE <<>>
           of == InitialTuple(sys)
<1>1. /\ m \in 1 .. n /\ n \in Nat /\ DOMAIN sys.automata = 1 .. m /\ DOMAIN sys.fluents = 1 .. n - m
      /\ sys.is_game \/ m = n
  BY SystemFacts
<1>2. ASSUME NEW i \in 1 .. m PROVE f[i] \in States(sys, i) /\ f[i] \in Nat
  <2>1. i \in Place /\ IsAutomaton(sys.automata[i])
    BY <1>1, SystemFacts
  <2>2. sys.automata[i].initial_state \in States(sys, i)
    BY <1>1, <2>1 DEF States, IsAutomaton
  <2> QED
    BY <1>1, <2>1, <2>2, StatesAreNatural
<1>3. f \in Seq(Nat) /\ Len(f) = m
  <2>1. f = [i \in 1 .. m |-> f[i]] /\ m \in Nat
    BY <1>1
  <2> HIDE DEF f
  <2> QED
    BY <1>2, <2>1
<1>4. g \in Seq(Nat) /\ Len(g) = n - m /\ \A k \in 1 .. n - m : g[k] \in {0, 1}
  <2>1. CASE sys.is_game
    <3>1. g = [k \in 1 .. n - m |-> sys.fluents[k].initial_valuation] /\ n - m \in Nat
      BY <1>1, <2>1
    <3>2. \A k \in 1 .. n - m : g[k] \in {0, 1}
      BY <1>1, <3>1, SystemFacts
    <3> DEFINE d == n - m
    <3>3. g = [k \in 1 .. d |-> g[k]] /\ d \in Nat
      BY <3>1
    <3> HIDE DEF g, d
    <3>4. \A k \in 1 .. d : g[k] \in Nat
      BY <3>2 DEF d
    <3>5. g \in Seq(Nat) /\ Len(g) = d
      BY <3>3, <3>4
    <3> QED
      BY <3>2, <3>5 DEF d
  <2>2. CASE ~ sys.is_game
    <3>1. g = <<>> /\ n - m = 0
      BY <1>1, <2>2
    <3> HIDE DEF g
    <3> QED
      BY <3>1, EmptySeq
  <2> QED
    BY <2>1, <2>2
<1>5. of = f \o g
  BY DEF InitialTuple
<1> HIDE DEF f, g, m, of
<1>6. of \in Seq(Nat) /\ Len(of) = n /\ \A i \in 1 .. n : of[i] = IF i <= m THEN f[i] ELSE g[i - m]
  <2>1. /\ of \in Seq(Nat) /\ Len(of) = Len(f) + Len(g)
        /\ \A i \in 1 .. Len(f) + Len(g) : of[i] = IF i <= Len(f) THEN f[i] ELSE g[i - Len(f)]
    BY <1>3, <1>4, <1>5, ConcatProperties, Zenon
  <2>2. m + (n - m) = n
    BY <1>1
  <2> QED
    BY <1>3, <1>4, <2>1, <2>2
<1>7. ASSUME NEW i \in Place PROVE of[i] \in States(sys, i)
  <2>1. i \in 1 .. n
    BY DEF Place
  <2>2. CASE i <= m
    <3>1. i \in 1 .. m
      BY <1>1, <2>1, <2>2
    <3> QED
      BY <1>2, <1>6, <2>1, <2>2, <3>1
  <2>3. CASE ~ (i <= m)
    <3>1. i - m \in 1 .. n - m /\ i \notin DOMAIN sys.automata
      BY <1>1, <2>1, <2>3
    <3> QED
      BY <1>4, <1>6, <2>1, <2>3, <3>1 DEF States
  <2> QED
    BY <2>2, <2>3
<1>8. of = [i \in Place |-> of[i]]
  <2>1. DOMAIN of = 1 .. n /\ of \in [1 .. n -> Nat]
    BY <1>6, LenProperties
  <2> QED
    BY <2>1 DEF Place
<1> QED
  BY <1>7, <1>8, TupleMeans DEF of

LEMMA FluentIsBit == \A fluent, value, label : FluentAfter(fluent, value, label) \in {0, 1}
BY DEF FluentAfter

\* The index that comes next is a combination again, and NoIdxs is none.
LEMMA CombinationMeans ==
  ASSUME NEW sys \in Systems, NEW of \in Tuples(sys), NEW c
  PROVE  c \in CombinationsOf(sys, of)
           <=> /\ c = [i \in DOMAIN sys.automata |-> c[i]]
               /\ \A i \in DOMAIN sys.automata : c[i] \in 0 .. Degree(sys, i, of[i])
               /\ \E i \in DOMAIN sys.automata : c[i] # 0
<1>1. \A i \in DOMAIN sys.automata : of[i] \in States(sys, i)
  BY SystemFacts, TupleMeans
<1>2. \A i \in DOMAIN sys.automata : Degree(sys, i, of[i]) \in Nat
  BY <1>1, AutomatonFacts
<1> QED
  BY <1>2 DEF CombinationsOf

LEMMA MinFacts ==
  ASSUME NEW S \in SUBSET Nat, S # {}
  PROVE  Min(S) \in S /\ \A y \in S : Min(S) <= y
<1> DEFINE T == {m \in Nat : \A i \in S : i >= m}
<1>1. 0 \in T
  OBVIOUS
<1>2. ~ \A m \in Nat : m \in T
  <2>1. PICK x \in S : TRUE
    OBVIOUS
  <2>2. x + 1 \in Nat /\ ~ (x >= x + 1)
    OBVIOUS
  <2> QED
    BY <2>2
<1>3. PICK m \in Nat : m \in T /\ m + 1 \notin T
  <2> HIDE DEF T
  <2> QED
    BY <1>1, <1>2, Orders!SetInduction
<1>4. m \in S /\ \A y \in S : m <= y
  <2>1. PICK i \in S : ~ (i >= m + 1)
    BY <1>3
  <2>2. i >= m
    BY <1>3
  <2>3. i = m
    BY <2>1, <2>2
  <2> QED
    BY <1>3, <2>3
<1>5. \E x \in S : \A y \in S : x <= y
  BY <1>4
<1> QED
  BY <1>5 DEF Min

LEMMA MaxFacts ==
  ASSUME NEW S \in SUBSET Nat, S # {}, NEW n \in Nat, \A y \in S : y <= n
  PROVE  Max(S) \in S /\ \A y \in S : y <= Max(S)
<1> DEFINE R == {n - y : y \in S}
<1>1. R \in SUBSET Nat /\ R # {}
  <2>1. \A y \in S : n - y \in Nat
    OBVIOUS
  <2> QED
    BY <2>1
<1>2. PICK y \in S : Min(R) = n - y
  BY <1>1, MinFacts
<1>3. \A z \in S : n - y <= n - z
  BY <1>1, <1>2, MinFacts
<1>4. \A z \in S : z <= y
  BY <1>3
<1>5. \E x \in S : \A z \in S : x >= z
  BY <1>4
<1>6. Max(S) \in S /\ \A z \in S : Max(S) >= z
  BY <1>5 DEF Max
<1> QED
  BY <1>6

-----------------------------------------------------------------------------
(****************************************************************************)
(* The odometer goes through the combinations in the order of their first   *)
(* difference, and only leaves out some with a transition that is skipped.  *)
(****************************************************************************)
IdxsOK(of, d) ==
  /\ d = [i \in Component |-> d[i]]
  /\ \A i \in Component : d[i] \in 0 .. Degree(system, i, of[i])
Unskipped(of, c) == \A i \in Component : c[i] = 0 \/ c[i] \notin Skipped(i, of)
Precedes(c, d) == \E i \in Component : c[i] < d[i] /\ \A k \in Component : k < i => c[k] = d[k]

LEMMA DegreeFacts ==
  ASSUME system \in Systems, NEW of \in Tuples(system), NEW i \in Component
  PROVE  /\ Degree(system, i, of[i]) \in Nat
         /\ DOMAIN Transitions(i, of[i]) = 1 .. Degree(system, i, of[i])
         /\ of[i] \in States(system, i)
<1>1. i \in DOMAIN system.automata /\ i \in Place
  BY SystemFacts DEF Component
<1>2. of[i] \in States(system, i)
  BY <1>1, TupleMeans
<1> QED
  BY <1>1, <1>2, AutomatonFacts DEF Transitions

LEMMA FirstDifference ==
  ASSUME system \in Systems, NEW of \in Tuples(system), NEW c, NEW d, IdxsOK(of, c), IdxsOK(of, d), c # d
  PROVE  Precedes(c, d) \/ Precedes(d, c)
<1> DEFINE D == {i \in Component : c[i] # d[i]}
<1>1. D \in SUBSET Nat
  BY SystemFacts DEF Component
<1>2. D # {}
  BY DEF IdxsOK
<1> DEFINE m == Min(D)
<1>3. m \in D /\ \A y \in D : m <= y
  BY <1>1, <1>2, MinFacts
<1> HIDE DEF m
<1>4. ASSUME NEW k \in Component, k < m PROVE c[k] = d[k]
  <2>1. k \notin D
    BY <1>1, <1>3, <1>4
  <2> QED
    BY <2>1
<1>5. c[m] \in Nat /\ d[m] \in Nat /\ c[m] # d[m] /\ m \in Component
  BY <1>3, DegreeFacts DEF IdxsOK
<1> QED
  BY <1>4, <1>5 DEF Precedes

LEMMA PrecedesIsOrder ==
  ASSUME system \in Systems, NEW of \in Tuples(system), NEW c, NEW d, IdxsOK(of, c), IdxsOK(of, d),
         Precedes(c, d)
  PROVE  c # d /\ ~ Precedes(d, c)
<1>1. \A i \in Component : i \in Nat /\ c[i] \in Nat /\ d[i] \in Nat
  <2>1. \A i \in Component : i \in Nat
    BY SystemFacts DEF Component
  <2> QED
    BY <2>1, DegreeFacts DEF IdxsOK
<1>2. PICK i \in Component : c[i] < d[i] /\ \A k \in Component : k < i => c[k] = d[k]
  BY DEF Precedes
<1>3. ASSUME NEW j \in Component, d[j] < c[j], \A k \in Component : k < j => d[k] = c[k] PROVE FALSE
  <2>1. ~ (i < j) /\ ~ (j < i) /\ i # j
    BY <1>1, <1>2, <1>3
  <2> QED
    BY <1>1, <2>1
<1> QED
  BY <1>1, <1>2, <1>3 DEF Precedes

\* Nothing that is not skipped is between two values of the odometer, or after the last one.
LEMMA IncrementEffect ==
  ASSUME system \in Systems, NEW of \in Tuples(system), NEW d, IdxsOK(of, d), Unskipped(of, d)
  PROVE  LET e == IncrementIdxs(of, d)
         IN  /\ IdxsOK(of, e) /\ Unskipped(of, e)
             /\ e = NoIdxs \/ Precedes(d, e)
             /\ \A c : IdxsOK(of, c) /\ Unskipped(of, c) /\ (e = NoIdxs \/ Precedes(c, e))
                         => c = d \/ Precedes(c, d)
<1> DEFINE e == IncrementIdxs(of, d)
           H(i) == Higher(i, of, d)
           D == {i \in Component : H(i) # {}}
<1>1. /\ \A i \in Component : i \in Nat /\ i <= ComponentsCount /\ d[i] \in Nat
      /\ ComponentsCount \in Nat
  <2>1. \A i \in Component : i \in Nat /\ i <= ComponentsCount
    BY SystemFacts DEF Component, Place
  <2> QED
    BY <2>1, SystemFacts, DegreeFacts DEF IdxsOK
<1>2. ASSUME NEW i \in Component
      PROVE  /\ H(i) \in SUBSET Nat
             /\ \A j : j \in H(i) <=> j \in 1 .. Degree(system, i, of[i]) /\ j > d[i] /\ j \notin Skipped(i, of)
  BY DegreeFacts DEF Higher
<1>3. e = [i \in Component |-> IF D = {} \/ i > Max(D) THEN 0 ELSE IF i = Max(D) THEN Min(H(i)) ELSE d[i]]
  BY DEF IncrementIdxs
<1>4. ASSUME NEW c, IdxsOK(of, c), Unskipped(of, c), Precedes(d, c)
      PROVE  \E i \in D : c[i] \in H(i) /\ \A k \in Component : k < i => d[k] = c[k]
  <2>1. PICK i \in Component : d[i] < c[i] /\ \A k \in Component : k < i => d[k] = c[k]
    BY <1>4 DEF Precedes
  <2>2. c[i] \in 0 .. Degree(system, i, of[i]) /\ Degree(system, i, of[i]) \in Nat
    BY <1>4, DegreeFacts DEF IdxsOK
  <2>3. c[i] # 0 /\ c[i] \notin Skipped(i, of)
    BY <1>1, <1>4, <2>1, <2>2 DEF Unskipped
  <2>4. c[i] \in H(i)
    <3>1. c[i] \in 1 .. Degree(system, i, of[i]) /\ c[i] > d[i]
      BY <1>1, <2>1, <2>2, <2>3
    <3> HIDE DEF H
    <3> QED
      BY <1>2, <2>3, <3>1
  <2> QED
    BY <2>1, <2>4
<1> HIDE DEF H, e
<1>5. CASE D = {}
  <2>1. e = NoIdxs
    BY <1>3, <1>5 DEF NoIdxs
  <2>2. IdxsOK(of, e) /\ Unskipped(of, e)
    BY <2>1, DegreeFacts DEF NoIdxs, IdxsOK, Unskipped
  <2>3. ASSUME NEW c, IdxsOK(of, c), Unskipped(of, c) PROVE c = d \/ Precedes(c, d)
    BY <1>4, <1>5, <2>3, FirstDifference
  <2> QED
    BY <2>1, <2>2, <2>3 DEF e
<1>6. CASE D # {}
  <2> DEFINE m == Max(D)
  <2>1. D \in SUBSET Nat /\ \A y \in D : y <= ComponentsCount
    BY <1>1
  <2>2. m \in D /\ \A y \in D : y <= m
    <3> HIDE DEF D
    <3> QED
      BY <1>1, <1>6, <2>1, MaxFacts
  <2>3. Min(H(m)) \in H(m) /\ \A y \in H(m) : Min(H(m)) <= y
    BY <1>2, <2>2, MinFacts
  <2> DEFINE h == Min(H(m))
  <2>4. h \in 1 .. Degree(system, m, of[m]) /\ h > d[m] /\ h \notin Skipped(m, of) /\ h \in Nat
        /\ Degree(system, m, of[m]) \in Nat
    BY <1>2, <2>2, <2>3, DegreeFacts
  <2>5. e = [i \in Component |-> IF i > m THEN 0 ELSE IF i = m THEN h ELSE d[i]]
    BY <1>3, <1>6
  <2> HIDE DEF m, h
  <2>6. \A i \in Component : e[i] = IF i > m THEN 0 ELSE IF i = m THEN h ELSE d[i]
    BY <2>5
  <2>7. m \in Component /\ m \in Nat
    BY <1>1, <2>2
  <2>8. ASSUME NEW i \in Component
        PROVE  e[i] \in 0 .. Degree(system, i, of[i]) /\ (e[i] = 0 \/ e[i] \notin Skipped(i, of))
    <3>1. CASE i > m
      BY <2>6, <3>1, DegreeFacts
    <3>2. CASE i = m
      <4>1. e[i] = h
        BY <2>6, <2>7, <3>2
      <4> QED
        BY <2>4, <3>2, <4>1
    <3>3. CASE ~ (i > m) /\ i # m
      <4>1. e[i] = d[i]
        BY <2>6, <3>3
      <4> QED
        BY <4>1 DEF IdxsOK, Unskipped
    <3> QED
      BY <3>1, <3>2, <3>3
  <2>9. IdxsOK(of, e) /\ Unskipped(of, e)
    BY <2>5, <2>8 DEF IdxsOK, Unskipped
  <2>10. Precedes(d, e)
    <3>1. e[m] = h /\ \A k \in Component : k < m => d[k] = e[k]
      BY <1>1, <2>6, <2>7
    <3> QED
      BY <2>4, <2>7, <3>1 DEF Precedes
  <2>11. e # NoIdxs
    <3>1. e[m] # 0
      BY <2>4, <2>6, <2>7
    <3> QED
      BY <2>7, <3>1 DEF NoIdxs
  <2>12. ASSUME NEW c, IdxsOK(of, c), Unskipped(of, c), Precedes(c, e) PROVE c = d \/ Precedes(c, d)
    <3> SUFFICES ASSUME Precedes(d, c) PROVE FALSE
      BY <2>12, FirstDifference
    <3>1. PICK i \in D : c[i] \in H(i) /\ \A k \in Component : k < i => d[k] = c[k]
      BY <1>4, <2>12
    <3>2. i \in Component /\ i \in Nat /\ i <= m /\ c[i] > d[i] /\ c[i] \in Nat
      BY <1>1, <1>2, <2>2, <3>1
    <3>3. CASE i < m
      <4>1. e[i] = d[i] /\ \A k \in Component : k < i => e[k] = c[k]
        BY <1>1, <2>6, <2>7, <3>1, <3>2, <3>3
      <4>2. Precedes(e, c)
        BY <1>1, <3>2, <4>1 DEF Precedes
      <4> QED
        BY <2>9, <2>12, <4>2, PrecedesIsOrder
    <3>4. CASE i = m
      <4>1. e[m] = h /\ h <= c[m] /\ c[m] \in Nat /\ \A k \in Component : k < m => e[k] = c[k]
        BY <1>1, <2>3, <2>6, <2>7, <3>1, <3>2, <3>4 DEF h
      <4>2. PICK j \in Component : c[j] < e[j] /\ \A k \in Component : k < j => c[k] = e[k]
        BY <2>12 DEF Precedes
      <4>7. c[j] \in Nat
        BY <2>12, DegreeFacts DEF IdxsOK
      <4>3. ~ (j < m)
        BY <4>1, <4>2, <4>7
      <4>4. j # m
        BY <2>4, <4>1, <4>2
      <4>5. j > m
        BY <1>1, <2>7, <4>3, <4>4
      <4>6. e[j] = 0
        BY <2>6, <4>5
      <4> QED
        BY <4>2, <4>6, <4>7
    <3> QED
      BY <2>7, <3>2, <3>3, <3>4
  <2> QED
    BY <2>9, <2>10, <2>11, <2>12 DEF e
<1> QED
  BY <1>5, <1>6

LEMMA NoIdxsIsFirst ==
  ASSUME system \in Systems, NEW of \in Tuples(system)
  PROVE  /\ IdxsOK(of, NoIdxs) /\ Unskipped(of, NoIdxs)
         /\ \A c : IdxsOK(of, c) => ~ Precedes(c, NoIdxs)
<1>1. \A i \in Component : NoIdxs[i] = 0 /\ NoIdxs = [k \in Component |-> NoIdxs[k]]
      /\ Degree(system, i, of[i]) \in Nat
  BY DegreeFacts DEF NoIdxs
<1>2. IdxsOK(of, NoIdxs)
  <2>1. NoIdxs = [k \in Component |-> NoIdxs[k]]
    BY DEF NoIdxs
  <2> QED
    BY <1>1, <2>1 DEF IdxsOK
<1>3. ASSUME NEW c, IdxsOK(of, c), Precedes(c, NoIdxs) PROVE FALSE
  <2>1. PICK i \in Component : c[i] < NoIdxs[i]
    BY <1>3 DEF Precedes
  <2> QED
    BY <1>1, <1>3, <2>1 DEF IdxsOK
<1> QED
  BY <1>1, <1>2, <1>3 DEF Unskipped

-----------------------------------------------------------------------------
(****************************************************************************)
(* The alphabet of the composition.                                         *)
(****************************************************************************)
\* The numbers E in their order.
Rising(list, E) ==
  /\ list \in Seq(Nat) /\ ToSet(list) = E
  /\ \A i, k \in 1 .. Len(list) : i < k => list[i] < list[k]

LEMMA RisingFacts ==
  ASSUME NEW list, NEW E, Rising(list, E)
  PROVE  /\ Len(list) \in Nat /\ DOMAIN list = 1 .. Len(list) /\ E \subseteq Nat
         /\ \A i \in 1 .. Len(list) : list[i] \in E /\ list[i] \in Nat
         /\ \A e \in E : \E i \in 1 .. Len(list) : list[i] = e
<1>1. Len(list) \in Nat /\ DOMAIN list = 1 .. Len(list) /\ \A i \in 1 .. Len(list) : list[i] \in Nat
  BY LenProperties DEF Rising
<1> QED
  BY <1>1 DEF Rising, ToSet

\* A list without entries.
LEMMA EmptyRises == Rising(<<>>, {})
<1>1. <<>> \in Seq(Nat) /\ Len(<<>>) = 0 /\ DOMAIN <<>> = {}
  BY EmptySeq, LenProperties
<1> QED
  BY <1>1 DEF Rising, ToSet

LEMMA RisingAppend ==
  ASSUME NEW list, NEW E, Rising(list, E), NEW e \in Nat, \A d \in E : d < e
  PROVE  Rising(Append(list, e), E \cup {e})
<1> DEFINE new == Append(list, e)
           n == Len(list)
<1>1. /\ n \in Nat /\ \A i \in 1 .. n : list[i] \in E /\ list[i] \in Nat
      /\ \A d \in E : \E i \in 1 .. n : list[i] = d
  BY RisingFacts
<1>2. new \in Seq(Nat) /\ Len(new) = n + 1 /\ \A i \in 1 .. n + 1 : new[i] = IF i = n + 1 THEN e ELSE list[i]
  BY <1>1, AppendProperties DEF Rising
<1>3. DOMAIN new = 1 .. n + 1
  BY <1>2, LenProperties
<1> HIDE DEF new, n
<1>4. ToSet(new) = E \cup {e}
  <2>1. ASSUME NEW d \in ToSet(new) PROVE d \in E \cup {e}
    <3>1. PICK i \in 1 .. n + 1 : new[i] = d
      BY <1>3 DEF ToSet
    <3>2. i # n + 1 => i \in 1 .. n
      BY <1>1
    <3> QED
      BY <1>1, <1>2, <3>1, <3>2
  <2>2. e \in ToSet(new)
    <3>1. n + 1 \in 1 .. n + 1
      BY <1>1
    <3> QED
      BY <1>2, <1>3, <3>1 DEF ToSet
  <2>3. ASSUME NEW d \in E PROVE d \in ToSet(new)
    <3>1. PICK i \in 1 .. n : list[i] = d
      BY <1>1
    <3>2. i \in 1 .. n + 1 /\ i # n + 1
      BY <1>1
    <3> QED
      BY <1>2, <1>3, <3>1, <3>2 DEF ToSet
  <2> QED
    BY <2>1, <2>2, <2>3
<1>5. ASSUME NEW i \in 1 .. n + 1, NEW k \in 1 .. n + 1, i < k PROVE new[i] < new[k]
  <2>1. i \in 1 .. n /\ (k # n + 1 => k \in 1 .. n) /\ i # n + 1
    BY <1>1, <1>5
  <2>2. CASE k = n + 1
    BY <1>1, <1>2, <2>1, <2>2
  <2>3. CASE k # n + 1
    <3>1. list[i] < list[k]
      BY <1>5, <2>1, <2>3 DEF Rising, n
    <3> QED
      BY <1>2, <2>1, <2>3, <3>1
  <2> QED
    BY <2>2, <2>3
<1> QED
  BY <1>2, <1>4, <1>5 DEF Rising, new

LEMMA RisingInsert ==
  ASSUME NEW list, NEW E, Rising(list, E), NEW e \in Nat, NEW k \in 1 .. Len(list),
         \A d \in E : d # e,
         \A i \in 1 .. Len(list) : list[i] < e <=> i < k
  PROVE  Rising(InsertAt(list, k, e), E \cup {e})
<1> DEFINE new == InsertAt(list, k, e)
           n == Len(list)
<1>1. /\ n \in Nat /\ k \in 1 .. n /\ e \in Nat
      /\ \A i \in 1 .. n : list[i] \in E /\ list[i] \in Nat
  BY RisingFacts
<1>2. new \in Seq(Nat) /\ Len(new) = n + 1
      /\ \A i \in 1 .. n + 1 : new[i] = IF i < k THEN list[i] ELSE IF i = k THEN e ELSE list[i - 1]
  <2> DEFINE S == Nat
  <2>1. list \in Seq(S) /\ e \in S
    BY DEF Rising
  <2> HIDE DEF S, new
  <2>2. /\ InsertAt(list, k, e) \in Seq(S)
        /\ Len(InsertAt(list, k, e)) = Len(list) + 1
        /\ \A i \in 1 .. Len(list) + 1 :
              InsertAt(list, k, e)[i] = IF i < k THEN list[i] ELSE IF i = k THEN e ELSE list[i - 1]
    BY <2>1, Inserted
  <2> QED
    BY <2>2 DEF S, new
<1>3. ToSet(new) = E \cup {e}
  BY InsertedMembers DEF Rising
<1>4. \A i, m \in 1 .. n : i < m => list[i] < list[m]
  BY DEF Rising
<1>5. \A i \in 1 .. n : list[i] < e <=> i < k
  OBVIOUS
<1> HIDE DEF n, new
<1>6. \A i \in 1 .. n : ~ (i < k) => e < list[i]
  BY <1>1, <1>5
<1>7. ASSUME NEW i \in 1 .. n + 1, NEW m \in 1 .. n + 1, i < m PROVE new[i] < new[m]
  <2>1. CASE m < k
    <3>1. i \in 1 .. n /\ m \in 1 .. n /\ i < k
      BY <1>1, <1>7, <2>1
    <3> QED
      BY <1>2, <1>4, <1>7, <2>1, <3>1
  <2>2. CASE m = k
    <3>1. i \in 1 .. n /\ i < k /\ ~ (m < k)
      BY <1>1, <1>7, <2>2
    <3> QED
      BY <1>2, <1>5, <2>2, <3>1
  <2>3. CASE ~ (m < k) /\ m # k
    <3>1. m - 1 \in 1 .. n /\ ~ (m - 1 < k)
      BY <1>1, <2>3
    <3>2. new[m] = list[m - 1]
      BY <1>2, <2>3
    <3>3. CASE i < k
      <4>1. i \in 1 .. n /\ i < m - 1
        BY <1>1, <2>3, <3>3
      <4> QED
        BY <1>2, <1>4, <3>1, <3>2, <3>3, <4>1
    <3>4. CASE i = k
      BY <1>2, <1>6, <3>1, <3>2, <3>4
    <3>5. CASE ~ (i < k) /\ i # k
      <4>1. i - 1 \in 1 .. n /\ i - 1 < m - 1
        BY <1>1, <1>7, <3>5
      <4> QED
        BY <1>2, <1>4, <3>1, <3>2, <3>5, <4>1
    <3> QED
      BY <3>3, <3>4, <3>5
  <2> QED
    BY <2>1, <2>2, <2>3
<1> QED
  BY <1>2, <1>3, <1>7 DEF Rising, new

LEMMA InsertSignalEffect ==
  ASSUME NEW list, NEW E, Rising(list, E), NEW e \in Nat
  PROVE  Rising(InsertSignal(e, list), E \cup {e})
<1> DEFINE n == Len(list)
           I == {i \in 1 .. n : list[i] > e}
           greater == SelectInSeq(list, LAMBDA x : x > e)
<1>1. /\ n \in Nat /\ \A i \in 1 .. n : list[i] \in E /\ list[i] \in Nat
      /\ \A d \in E : \E i \in 1 .. n : list[i] = d
  BY RisingFacts
<1>2. \A i, k \in 1 .. n : i < k => list[i] < list[k]
  BY DEF Rising
<1>3. greater = IF I # {} THEN Min(I) ELSE 0
  BY DEF SelectInSeq
<1>4. Contains(list, e) <=> e \in E
  <2>1. Contains(list, e) <=> \E i \in 1 .. n : list[i] = e
    BY DEF Contains
  <2> QED
    BY <1>1, <2>1
<1>5. InsertSignal(e, list) = IF Contains(list, e) THEN list
                              ELSE IF greater = 0 THEN Append(list, e) ELSE InsertAt(list, greater, e)
  BY DEF InsertSignal
<1> HIDE DEF greater
<1>6. CASE e \in E
  <2>1. E \cup {e} = E
    BY <1>6
  <2> QED
    BY <1>4, <1>5, <1>6, <2>1
<1>7. CASE e \notin E
  <2>1. \A i \in 1 .. n : list[i] # e
    BY <1>1, <1>7
  <2>2. CASE I = {}
    <3>1. \A d \in E : d < e
      BY <1>1, <2>1, <2>2
    <3>2. greater = 0
      BY <1>3, <2>2
    <3> QED
      BY <1>4, <1>5, <1>7, <3>1, <3>2, RisingAppend
  <2>3. CASE I # {}
    <3>1. I \in SUBSET Nat
      OBVIOUS
    <3>2. greater \in I /\ \A i \in I : greater <= i
      <4> HIDE DEF I
      <4> QED
        BY <1>3, <2>3, <3>1, MinFacts
    <3>3. greater \in 1 .. n /\ greater # 0
      BY <1>1, <3>2
    <3>4. ASSUME NEW i \in 1 .. n PROVE list[i] < e <=> i < greater
      <4>1. CASE i < greater
        <5>1. i \notin I
          BY <1>1, <3>2, <3>3, <4>1
        <5> QED
          BY <1>1, <2>1, <4>1, <5>1
      <4>2. CASE i = greater
        BY <1>1, <3>2, <4>2
      <4>3. CASE greater < i
        <5>1. list[greater] < list[i] /\ list[greater] > e
          BY <1>2, <3>2, <3>3, <4>3
        <5> QED
          BY <1>1, <3>3, <4>3, <5>1
      <4> QED
        BY <1>1, <3>3, <4>1, <4>2, <4>3
    <3>5. \A d \in E : d # e
      BY <1>7
    <3>6. Rising(InsertAt(list, greater, e), E \cup {e})
      BY <3>3, <3>4, <3>5, RisingInsert
    <3> QED
      BY <1>4, <1>5, <1>7, <3>3, <3>6
  <2> QED
    BY <2>2, <2>3
<1> QED
  BY <1>6, <1>7

InsertTurn(c, list, signal) == InsertSignal(signal, list)
InsertedOf(c, S, list) == Rising(list, c \cup S)

-----------------------------------------------------------------------------
(****************************************************************************)
(* Folds over a set, one member after another as CHOOSE takes them.         *)
(****************************************************************************)
SomeOf(s) == CHOOSE x \in s : TRUE

IsSetFold(iter, c, base, S) ==
  iter = [s \in SUBSET S |-> IF s = {} THEN base ELSE InsertTurn(c, iter[s \ {SomeOf(s)}], SomeOf(s))]

\* What the fold does to the sets of at most n members.
IsSetFoldTo(iter, c, base, S, n) ==
  /\ iter = [s \in SUBSET S |-> iter[s]]
  /\ \A s \in SUBSET S : Cardinality(s) <= n =>
       iter[s] = IF s = {} THEN base ELSE InsertTurn(c, iter[s \ {SomeOf(s)}], SomeOf(s))

LEMMA SmallerWithoutOne ==
  ASSUME NEW S, IsFiniteSet(S), NEW s \in SUBSET S, s # {}
  PROVE  /\ SomeOf(s) \in s /\ s \ {SomeOf(s)} \in SUBSET S
         /\ Cardinality(s) \in Nat /\ Cardinality(s \ {SomeOf(s)}) = Cardinality(s) - 1
<1>1. SomeOf(s) \in s
  BY DEF SomeOf
<1>2. IsFiniteSet(s)
  BY FS_Subset
<1> QED
  BY <1>1, <1>2, FS_RemoveElement, FS_CardinalityType

LEMMA SetFoldExists ==
  \A c, base, S : IsFiniteSet(S) => \E iter : IsSetFold(iter, c, base, S)
<1> SUFFICES ASSUME NEW c, NEW base, NEW S, IsFiniteSet(S)
             PROVE  \E iter : IsSetFold(iter, c, base, S)
  OBVIOUS
<1> DEFINE T == {n \in Nat : \E iter : IsSetFoldTo(iter, c, base, S, n)}
<1>1. \A s \in SUBSET S : Cardinality(s) \in Nat /\ Cardinality(s) <= Cardinality(S)
  BY FS_Subset, FS_CardinalityType
<1>2. 0 \in T
  <2> DEFINE it == [s \in SUBSET S |-> base]
  <2>1. \A s \in SUBSET S : Cardinality(s) <= 0 => s = {}
    BY <1>1, FS_Subset, FS_EmptySet
  <2>2. IsSetFoldTo(it, c, base, S, 0)
    BY <2>1 DEF IsSetFoldTo
  <2> QED
    BY <2>2
<1>3. ASSUME NEW n \in Nat, n \in T PROVE n + 1 \in T
  <2>1. PICK it : IsSetFoldTo(it, c, base, S, n)
    BY <1>3
  <2> DEFINE next == [s \in SUBSET S |-> IF Cardinality(s) <= n THEN it[s]
                                        ELSE InsertTurn(c, it[s \ {SomeOf(s)}], SomeOf(s))]
  <2>2. ASSUME NEW s \in SUBSET S, Cardinality(s) <= n + 1
        PROVE  next[s] = IF s = {} THEN base ELSE InsertTurn(c, next[s \ {SomeOf(s)}], SomeOf(s))
    <3>1. CASE s = {}
      <4>1. Cardinality(s) = 0 /\ 0 <= n
        BY <3>1, FS_EmptySet
      <4>2. it[s] = base
        BY <2>1, <3>1, <4>1 DEF IsSetFoldTo
      <4> QED
        BY <3>1, <4>1, <4>2
    <3>2. CASE s # {}
      <4> DEFINE r == s \ {SomeOf(s)}
      <4>1. r \in SUBSET S /\ Cardinality(r) <= n
        BY <1>1, <2>2, <3>2, SmallerWithoutOne
      <4>2. next[r] = it[r]
        <5> HIDE DEF r
        <5> QED
          BY <4>1
      <4>3. Cardinality(s) <= n => it[s] = InsertTurn(c, it[r], SomeOf(s))
        BY <2>1, <3>2 DEF IsSetFoldTo
      <4>4. next[s] = IF Cardinality(s) <= n THEN it[s] ELSE InsertTurn(c, it[r], SomeOf(s))
        OBVIOUS
      <4> HIDE DEF r, next
      <4>5. next[s] = InsertTurn(c, next[r], SomeOf(s))
        BY <4>2, <4>3, <4>4
      <4> QED
        BY <3>2, <4>5 DEF r
    <3> QED
      BY <3>1, <3>2
  <2>3. next = [s \in SUBSET S |-> next[s]]
    OBVIOUS
  <2> HIDE DEF next
  <2>4. IsSetFoldTo(next, c, base, S, n + 1)
    BY <2>2, <2>3 DEF IsSetFoldTo
  <2> QED
    BY <2>4
<1>4. \A n \in Nat : n \in T
  <2> HIDE DEF T
  <2> QED
    BY <1>2, <1>3, Orders!SetInduction
<1>5. Cardinality(S) \in Nat
  BY FS_CardinalityType
<1>6. PICK it : IsSetFoldTo(it, c, base, S, Cardinality(S))
  BY <1>4, <1>5
<1>7. IsSetFold(it, c, base, S)
  BY <1>1, <1>6, Zenon DEF IsSetFold, IsSetFoldTo
<1> QED
  BY <1>7

\* The invariant of a fold over a set: it tells the members that were taken.
LEMMA SetFoldInvariant ==
  \A c, base, S, iter :
    /\ IsFiniteSet(S) /\ IsSetFold(iter, c, base, S)
    /\ InsertedOf(c, {}, base)
    /\ \A s \in SUBSET S, x \in S : \A a :
         x \notin s /\ InsertedOf(c, s, a) => InsertedOf(c, s \cup {x}, InsertTurn(c, a, x))
    => InsertedOf(c, S, iter[S])
<1> SUFFICES ASSUME NEW c, NEW base, NEW S, NEW iter, IsFiniteSet(S), IsSetFold(iter, c, base, S),
                    InsertedOf(c, {}, base),
                    \A s \in SUBSET S, x \in S : \A a :
                      x \notin s /\ InsertedOf(c, s, a) => InsertedOf(c, s \cup {x}, InsertTurn(c, a, x))
             PROVE  InsertedOf(c, S, iter[S])
  OBVIOUS
<1> DEFINE T == {n \in Nat : \A s \in SUBSET S : Cardinality(s) = n => InsertedOf(c, s, iter[s])}
<1>1. \A s \in SUBSET S :
        iter[s] = IF s = {} THEN base ELSE InsertTurn(c, iter[s \ {SomeOf(s)}], SomeOf(s))
  BY Zenon DEF IsSetFold
<1>2. 0 \in T
  <2>1. \A s \in SUBSET S : Cardinality(s) = 0 => s = {}
    BY FS_Subset, FS_EmptySet
  <2> QED
    BY <1>1, <2>1
<1>3. ASSUME NEW n \in Nat, n \in T PROVE n + 1 \in T
  <2>1. ASSUME NEW s \in SUBSET S, Cardinality(s) = n + 1 PROVE InsertedOf(c, s, iter[s])
    <3> DEFINE x == SomeOf(s)
               r == s \ {x}
    <3>1. s # {}
      BY <2>1, FS_EmptySet
    <3>2. x \in s /\ r \in SUBSET S /\ Cardinality(r) = n
      BY <2>1, <3>1, SmallerWithoutOne
    <3>3. InsertedOf(c, r, iter[r])
      BY <1>3, <3>2
    <3>4. iter[s] = InsertTurn(c, iter[r], x)
      BY <1>1, <3>1
    <3>5. s = r \cup {x} /\ x \notin r /\ x \in S
      BY <3>2
    <3> HIDE DEF r, x
    <3> QED
      BY <3>2, <3>3, <3>4, <3>5
  <2> QED
    BY <2>1
<1>4. \A n \in Nat : n \in T
  <2> HIDE DEF T
  <2> QED
    BY <1>2, <1>3, Orders!SetInduction
<1>5. Cardinality(S) \in Nat /\ S \in SUBSET S
  BY FS_CardinalityType
<1> QED
  BY <1>4, <1>5

LEMMA WithSignalsEffect ==
  ASSUME NEW list, NEW E, Rising(list, E), NEW S \in SUBSET Nat, IsFiniteSet(S)
  PROVE  Rising(WithSignals(list, S), E \cup S)
<1> DEFINE iter == CHOOSE it : IsSetFold(it, E, list, S)
<1>1. WithSignals(list, S) = iter[S]
  BY Zenon DEF WithSignals, MapThenFoldSet, IsSetFold, SomeOf, InsertTurn
<1>3. IsSetFold(iter, E, list, S)
  BY SetFoldExists, Zenon
<1> HIDE DEF iter
<1>4. InsertedOf(E, {}, list)
  <2>1. E \cup {} = E
    OBVIOUS
  <2> QED
    BY <2>1 DEF InsertedOf
<1>5. ASSUME NEW s \in SUBSET S, NEW x \in S, NEW a, x \notin s, InsertedOf(E, s, a)
      PROVE  InsertedOf(E, s \cup {x}, InsertTurn(E, a, x))
  <2>1. Rising(InsertSignal(x, a), (E \cup s) \cup {x})
    BY <1>5, InsertSignalEffect DEF InsertedOf
  <2>2. (E \cup s) \cup {x} = E \cup (s \cup {x})
    OBVIOUS
  <2> QED
    BY <2>1, <2>2 DEF InsertedOf, InsertTurn
<1>6. InsertedOf(E, S, iter[S])
  BY <1>3, <1>4, <1>5, SetFoldInvariant, Zenon
<1> QED
  BY <1>1, <1>6 DEF InsertedOf

UnionTurn(automata, list, i) == WithSignals(list, automata[i].alphabet)
UnionOf(automata, k, list) == Rising(list, UNION {automata[i].alphabet : i \in 1 .. k})
Uniting == INSTANCE Iteration WITH Op <- UnionTurn, Inv <- UnionOf

LEMMA UnionAlphabetEffect ==
  ASSUME NEW sys \in Systems
  PROVE  Rising(UnionAlphabet(sys.automata), UNION {sys.automata[i].alphabet : i \in DOMAIN sys.automata})
<1> DEFINE automata == sys.automata
           m == Len(automata)
           list == [i \in DOMAIN automata |-> i]
           iter == CHOOSE it : Uniting!IsFold(it, automata, <<>>, list, DOMAIN list)
<1>1. /\ m \in Nat /\ DOMAIN automata = 1 .. m
      /\ \A i \in 1 .. m : automata[i].alphabet \in SUBSET Nat /\ IsFiniteSet(automata[i].alphabet)
  <2>1. m \in Nat /\ DOMAIN automata = 1 .. m
    BY SystemFacts
  <2>2. ASSUME NEW i \in 1 .. m PROVE automata[i].alphabet \in SUBSET Nat /\ IsFiniteSet(automata[i].alphabet)
    <3>1. automata[i].alphabet \subseteq Signal
      BY <2>1, SystemFacts DEF IsAutomaton
    <3>2. Signal \subseteq Nat /\ IsFiniteSet(Signal)
      BY CompositionAssumption
    <3> HIDE DEF automata
    <3> QED
      BY <3>1, <3>2, FS_Subset
  <2> QED
    BY <2>1, <2>2
<1>2. UnionAlphabet(automata) = iter[DOMAIN list]
  BY Zenon DEF UnionAlphabet, FoldLeft, MapThenFoldSet, Max, Uniting!IsFold, UnionTurn
<1> HIDE DEF automata, m
<1>3. DOMAIN list = 1 .. m /\ \A k \in 0 .. m - 1 : list[k + 1] = k + 1 /\ k + 1 \in 1 .. m
  BY <1>1
<1> HIDE DEF list
<1>4. Uniting!IsFold(iter, automata, <<>>, list, 1 .. m)
  <2>1. \E it : Uniting!IsFold(it, automata, <<>>, list, 1 .. m)
    BY <1>1, Uniting!FoldExists, Zenon
  <2> QED
    BY <1>3, <2>1, Zenon
<1> HIDE DEF iter
<1>5. UnionOf(automata, 0, <<>>)
  <2>1. UNION {automata[i].alphabet : i \in 1 .. 0} = {}
    OBVIOUS
  <2> QED
    BY <2>1, EmptyRises DEF UnionOf
<1>6. ASSUME NEW k \in 0 .. m - 1, NEW a, UnionOf(automata, k, a)
      PROVE  UnionOf(automata, k + 1, UnionTurn(automata, a, list[k + 1]))
  <2> DEFINE A == UNION {automata[i].alphabet : i \in 1 .. k}
             B == UNION {automata[i].alphabet : i \in 1 .. k + 1}
  <2>1. \A i : i \in 1 .. k + 1 <=> i \in 1 .. k \/ i = k + 1
    BY <1>1
  <2>2. B = A \cup automata[k + 1].alphabet
    BY <2>1
  <2> HIDE DEF A, B
  <2>3. Rising(a, A)
    BY <1>6 DEF UnionOf, A
  <2>4. Rising(WithSignals(a, automata[k + 1].alphabet), A \cup automata[k + 1].alphabet)
    BY <1>1, <1>3, <2>3, WithSignalsEffect
  <2> QED
    BY <1>3, <2>2, <2>4 DEF UnionOf, UnionTurn, B
<1>7. UnionOf(automata, m, iter[1 .. m])
  BY <1>1, <1>4, <1>5, <1>6, Uniting!FoldInvariant, Zenon
<1>8. Rising(UnionAlphabet(automata), UNION {automata[i].alphabet : i \in DOMAIN automata})
  BY <1>1, <1>2, <1>3, <1>7 DEF UnionOf
<1> QED
  BY <1>8 DEF automata

-----------------------------------------------------------------------------
(****************************************************************************)
(* A combination is compared from left to right, each component with the    *)
(* union of those before it.  That is as good as to compare any two.        *)
(****************************************************************************)
Earlier(D, i) == {k \in D : k < i}
AgreesBefore(D, A, S, i) ==
  A[i] \cap UNION {S[k] : k \in Earlier(D, i)} = S[i] \cap UNION {A[k] : k \in Earlier(D, i)}

LEMMA AgreesBeforeMeans ==
  ASSUME NEW D, NEW A, NEW S, NEW i
  PROVE  AgreesBefore(D, A, S, i)
           <=> \A x : (x \in A[i] /\ \E k \in Earlier(D, i) : x \in S[k])
                        <=> (x \in S[i] /\ \E k \in Earlier(D, i) : x \in A[k])
<1> DEFINE U == UNION {S[k] : k \in Earlier(D, i)}
           V == UNION {A[k] : k \in Earlier(D, i)}
<1>1. \A x : (x \in U <=> \E k \in Earlier(D, i) : x \in S[k]) /\ (x \in V <=> \E k \in Earlier(D, i) : x \in A[k])
  OBVIOUS
<1>2. AgreesBefore(D, A, S, i) <=> A[i] \cap U = S[i] \cap V
  BY DEF AgreesBefore
<1> HIDE DEF U, V
<1>3. A[i] \cap U = S[i] \cap V <=> \A x : (x \in U /\ x \in A[i]) <=> (x \in S[i] /\ x \in V)
  OBVIOUS
<1> QED
  BY <1>1, <1>2, <1>3

LEMMA PrefixAgreement ==
  ASSUME NEW D \in SUBSET Nat, NEW A, NEW S, \A i \in D : S[i] \subseteq A[i]
  PROVE  (\A i \in D : AgreesBefore(D, A, S, i)) <=> (\A i, k \in D : S[i] \cap A[k] = S[k] \cap A[i])
<1> DEFINE Agree(i, k) == S[i] \cap A[k] = S[k] \cap A[i]
<1>1. ASSUME \A i \in D : AgreesBefore(D, A, S, i) PROVE \A i, k \in D : Agree(i, k)
  <2> DEFINE B == {i \in D : \E k \in D : k < i /\ ~ Agree(i, k)}
  <2>1. SUFFICES ASSUME B # {} PROVE FALSE
    <3>1. ASSUME NEW i \in D, NEW k \in D, ~ Agree(i, k) PROVE B # {}
      <4>1. ~ Agree(k, i) /\ i # k
        BY <3>1
      <4>2. i < k \/ k < i
        <5> HIDE DEF Agree, B
        <5>1. i \in Nat /\ k \in Nat /\ i # k
          BY <4>1
        <5> QED
          BY <5>1
      <4> HIDE DEF Agree
      <4> QED
        BY <3>1, <4>1, <4>2
    <3> QED
      BY <3>1
  <2> DEFINE i == Min(B)
  <2>2. i \in B /\ \A j \in B : i <= j
    <3>1. B \in SUBSET Nat
      OBVIOUS
    <3> HIDE DEF B
    <3> QED
      BY <2>1, <3>1, MinFacts
  <2> HIDE DEF i
  <2>3. PICK k \in D : k < i /\ ~ Agree(i, k)
    BY <2>2
  <2>4. i \in D /\ i \in Nat
    BY <2>2
  <2>5. \A j, l \in D : j < i /\ l < i => Agree(j, l)
    <3>1. ASSUME NEW j \in D, NEW l \in D, j < i, l < i PROVE Agree(j, l)
      <4>1. j \notin B /\ l \notin B
        BY <2>2, <2>4, <3>1
      <4>2. l < j => Agree(j, l)
        BY <4>1
      <4>3. j < l => Agree(l, j)
        BY <4>1
      <4>4. j = l \/ j < l \/ l < j
        OBVIOUS
      <4> QED
        BY <4>2, <4>3, <4>4
    <3> QED
      BY <3>1
  <2>6. AgreesBefore(D, A, S, i)
    BY <1>1, <2>4
  <2>7. ASSUME NEW x \in S[k] \cap A[i] PROVE x \in S[i] \cap A[k]
    <3>1. k \in Earlier(D, i)
      BY <2>3 DEF Earlier
    <3>2. x \in S[i]
      BY <2>6, <3>1, AgreesBeforeMeans
    <3> QED
      BY <3>2
  <2>8. ASSUME NEW x \in S[i] \cap A[k] PROVE x \in S[k] \cap A[i]
    <3>1. k \in Earlier(D, i) /\ x \in A[i]
      BY <2>3, <2>4 DEF Earlier
    <3>2. PICK j \in Earlier(D, i) : x \in S[j]
      BY <2>6, <3>1, AgreesBeforeMeans
    <3>3. Agree(j, k) /\ j \in D
      BY <2>3, <2>5, <3>2 DEF Earlier
    <3>4. x \in S[k]
      BY <3>2, <3>3
    <3> QED
      BY <3>1, <3>4
  <2> QED
    BY <2>3, <2>7, <2>8
<1>2. ASSUME \A i, k \in D : Agree(i, k), NEW i \in D PROVE AgreesBefore(D, A, S, i)
  <2>1. \A k \in Earlier(D, i) : S[i] \cap A[k] = S[k] \cap A[i]
    BY <1>2 DEF Earlier
  <2> QED
    BY <2>1, AgreesBeforeMeans
<1> QED
  BY <1>1, <1>2

-----------------------------------------------------------------------------
LEMMA LabelFacts ==
  ASSUME system \in Systems, NEW of \in Tuples(system), NEW c, IdxsOK(of, c), NEW i \in Component
  PROVE  /\ Alphabet(i) \subseteq Signal \ {InputBit}
         /\ Offered(i, of) \subseteq Alphabet(i) \cup {InputBit}
         /\ c[i] # 0 => /\ c[i] \in DOMAIN Transitions(i, of[i])
                        /\ Transitions(i, of[i])[c[i]].signals \subseteq Alphabet(i) \cup {InputBit}
                        /\ Transitions(i, of[i])[c[i]].signals \subseteq Offered(i, of)
                        /\ Transitions(i, of[i])[c[i]].state_to \in States(system, i)
<1> DEFINE d == Degree(system, i, of[i])
           list == Transitions(i, of[i])
<1>1. i \in DOMAIN system.automata /\ of[i] \in States(system, i) /\ d \in Nat /\ DOMAIN list = 1 .. d
  BY DegreeFacts DEF Component
<1>2. /\ Alphabet(i) \subseteq Signal \ {InputBit}
      /\ \A j \in 1 .. d : list[j].signals \subseteq Alphabet(i) \cup {InputBit} /\ list[j].state_to \in States(system, i)
  BY <1>1, AutomatonFacts DEF Alphabet, Transitions
<1>3. Offered(i, of) = UNION {list[j].signals : j \in 1 .. d}
  BY <1>1 DEF Offered, ToSet
<1>4. c[i] \in 0 .. d
  BY DEF IdxsOK
<1> HIDE DEF d, list
<1>5. c[i] # 0 => c[i] \in 1 .. d
  BY <1>1, <1>4
<1>6. c[i] # 0 => list[c[i]].signals \subseteq Offered(i, of)
  BY <1>3, <1>5
<1> QED
  BY <1>1, <1>2, <1>3, <1>5, <1>6 DEF list

\* What takes part in a step is never skipped: whoever knows one of its signals offers it.
LEMMA StepIsUnskipped ==
  ASSUME system \in Systems, NEW of \in Tuples(system), NEW c, IdxsOK(of, c), IsStep(of, c)
  PROVE  Unskipped(of, c)
<1> DEFINE Sig(i) == Transitions(i, of[i])[c[i]].signals \ {InputBit}
<1>1. SUFFICES ASSUME NEW i \in Component, c[i] # 0, NEW k \in Component \ {i}
               PROVE  Sig(i) \cap Alphabet(k) = Sig(i) \cap Offered(k, of)
  BY DEF Unskipped, Skipped
<1>2. Offered(k, of) \subseteq Alphabet(k) \cup {InputBit}
  BY LabelFacts
<1>3. CASE c[k] # 0
  <2>1. Sig(i) \cap Alphabet(k) = Sig(k) \cap Alphabet(i)
    BY <1>1, <1>3 DEF IsStep
  <2>2. Transitions(k, of[k])[c[k]].signals \subseteq Offered(k, of)
    BY <1>3, LabelFacts
  <2> HIDE DEF Offered, Transitions, Alphabet
  <2> QED
    BY <1>2, <2>1, <2>2
<1>4. CASE c[k] = 0
  <2>1. Sig(i) \cap Alphabet(k) = {}
    BY <1>1, <1>4 DEF IsStep
  <2> QED
    BY <1>2, <2>1
<1> QED
  BY <1>3, <1>4

\* The parts of a label, of the combination that is tried.
LEMMA ViableLabels ==
  ASSUME system \in Systems, current.of \in Tuples(system), IdxsOK(current.of, idxs)
  PROVE  /\ \A i \in Component : /\ i \in Nat \ {0} /\ LabelOf(i) \subseteq Alphabet(i) \cup {InputBit}
                                 /\ InputBit \notin Alphabet(i) /\ Considered(i) <=> idxs[i] # 0
                                 /\ Considered(i) => LabelOf(i) = Transitions(i, current.of[i])[idxs[i]].signals
                                 /\ ~Considered(i) => LabelOf(i) = {}
                                 /\ \A x : x \in LabelBefore(i) <=> \E k \in Component : k < i /\ x \in LabelOf(k)
                                 /\ \A x : x \in Overlap(i) <=> x \in Alphabet(i) /\ \E k \in Component : k < i /\ x \in Alphabet(k)
                                 /\ AccumSet(i) <=> \E k \in Component : k < i /\ Considered(k)
         /\ 1 \in Component
<1>1. /\ Len(system.automata) \in Nat \ {0} /\ Component = 1 .. Len(system.automata)
  BY SystemFacts DEF Component
<1>2. ASSUME NEW i \in Component PROVE \A k : k \in 1 .. i - 1 <=> k \in Component /\ k < i
  BY <1>1
<1>3. ASSUME NEW i \in Component
      PROVE  /\ Considered(i) => LabelOf(i) = Transitions(i, current.of[i])[idxs[i]].signals
             /\ ~Considered(i) => LabelOf(i) = {}
             /\ LabelOf(i) \subseteq Alphabet(i) \cup {InputBit} /\ InputBit \notin Alphabet(i)
  <2>1. Alphabet(i) \subseteq Signal \ {InputBit}
        /\ (idxs[i] # 0 => Transitions(i, current.of[i])[idxs[i]].signals \subseteq Alphabet(i) \cup {InputBit})
    BY LabelFacts
  <2> QED
    BY <2>1 DEF Considered, LabelOf, Taken
<1>4. ASSUME NEW i \in Component
      PROVE  /\ \A x : x \in LabelBefore(i) <=> \E k \in Component : k < i /\ x \in LabelOf(k)
             /\ \A x : x \in Overlap(i) <=> x \in Alphabet(i) /\ \E k \in Component : k < i /\ x \in Alphabet(k)
             /\ AccumSet(i) <=> \E k \in Component : k < i /\ Considered(k)
  BY <1>2 DEF LabelBefore, Overlap, AccumSet
<1> QED
  BY <1>1, <1>3, <1>4 DEF Considered

LEMMA LabelParts ==
  ASSUME system \in Systems, current.of \in Tuples(system), IdxsOK(current.of, idxs), NEW i \in Component
  PROVE  /\ i \in Nat \ {0} /\ i >= 1
         /\ LabelOf(i) \subseteq Alphabet(i) \cup {InputBit}
         /\ InputBit \notin Alphabet(i)
         /\ idxs[i] # 0 <=> Considered(i)
         /\ idxs[i] = 0 => LabelOf(i) = {}
<1>1. i \in Nat \ {0} /\ i >= 1
  BY SystemFacts DEF Component
<1>2. Alphabet(i) \subseteq Signal \ {InputBit}
      /\ (idxs[i] # 0 => Transitions(i, current.of[i])[idxs[i]].signals \subseteq Alphabet(i) \cup {InputBit})
  BY LabelFacts
<1>3. idxs[i] # 0 <=> Considered(i)
  BY DEF Considered
<1>4. LabelOf(i) = IF idxs[i] # 0 THEN Transitions(i, current.of[i])[idxs[i]].signals ELSE {}
  BY DEF LabelOf, Considered, Taken
<1> QED
  BY <1>1, <1>2, <1>3, <1>4

\* Signals that are compared from left to right are compared between any two.
LEMMA OverlapsAgree ==
  ASSUME system \in Systems, current.of \in Tuples(system), IdxsOK(current.of, idxs)
  PROVE  (\A i \in Component \ {1} : LabelBefore(i) \cap Overlap(i) = LabelOf(i) \cap Overlap(i))
           <=> \A i, k \in Component : (LabelOf(i) \ {InputBit}) \cap Alphabet(k)
                                         = (LabelOf(k) \ {InputBit}) \cap Alphabet(i)
<1> DEFINE D == Component
           A == [i \in Component |-> Alphabet(i)]
           S == [i \in Component |-> LabelOf(i) \ {InputBit}]
<1>1. D \in SUBSET Nat /\ \A i \in D : S[i] \subseteq A[i]
  BY LabelParts
<1>2. ASSUME NEW i \in D
      PROVE  AgreesBefore(D, A, S, i) <=> LabelBefore(i) \cap Overlap(i) = LabelOf(i) \cap Overlap(i)
  <2>1. AgreesBefore(D, A, S, i)
          <=> \A x : (x \in A[i] /\ \E k \in Earlier(D, i) : x \in S[k])
                       <=> (x \in S[i] /\ \E k \in Earlier(D, i) : x \in A[k])
    BY AgreesBeforeMeans
  <2>2. \A x : x \in A[i] <=> x \in Alphabet(i)
    OBVIOUS
  <2>3. \A x : (x \in A[i] /\ \E k \in Earlier(D, i) : x \in S[k])
                 <=> x \in LabelBefore(i) /\ x \in Overlap(i)
    <3>1. ASSUME NEW x PROVE (x \in A[i] /\ \E k \in Earlier(D, i) : x \in S[k])
                               <=> x \in LabelBefore(i) /\ x \in Overlap(i)
      <4>1. (\E k \in Earlier(D, i) : x \in S[k])
              <=> \E k \in Component : k < i /\ x \in LabelOf(k) /\ x # InputBit
        BY DEF Earlier
      <4>2. x \in LabelBefore(i) <=> \E k \in Component : k < i /\ x \in LabelOf(k)
        BY ViableLabels
      <4>3. x \in Overlap(i) <=> x \in Alphabet(i) /\ \E k \in Component : k < i /\ x \in Alphabet(k)
        BY ViableLabels
      <4>4. x \in Alphabet(i) => x # InputBit
        BY LabelParts
      <4>5. \A k \in Component : x \in LabelOf(k) /\ x # InputBit => x \in Alphabet(k)
        BY LabelParts
      <4> QED
        BY <2>2, <4>1, <4>2, <4>3, <4>4, <4>5
    <3> QED
      BY <3>1
  <2>4. \A x : (x \in S[i] /\ \E k \in Earlier(D, i) : x \in A[k])
                 <=> x \in LabelOf(i) /\ x \in Overlap(i)
    <3>1. ASSUME NEW x PROVE (x \in S[i] /\ \E k \in Earlier(D, i) : x \in A[k])
                               <=> x \in LabelOf(i) /\ x \in Overlap(i)
      <4>1. (\E k \in Earlier(D, i) : x \in A[k]) <=> \E k \in Component : k < i /\ x \in Alphabet(k)
        BY DEF Earlier
      <4>2. x \in Overlap(i) <=> x \in Alphabet(i) /\ \E k \in Component : k < i /\ x \in Alphabet(k)
        BY ViableLabels
      <4>3. x \in S[i] <=> x \in LabelOf(i) /\ x # InputBit
        OBVIOUS
      <4>4. x \in LabelOf(i) /\ x # InputBit <=> x \in LabelOf(i) /\ x \in Alphabet(i)
        BY LabelParts
      <4> QED
        BY <4>1, <4>2, <4>3, <4>4
    <3> QED
      BY <3>1
  <2> HIDE DEF D, A, S
  <2>5. LabelBefore(i) \cap Overlap(i) = LabelOf(i) \cap Overlap(i)
          <=> \A x : (x \in LabelBefore(i) /\ x \in Overlap(i)) <=> (x \in LabelOf(i) /\ x \in Overlap(i))
    OBVIOUS
  <2> QED
    BY <2>1, <2>3, <2>4, <2>5
<1>3. LabelBefore(1) \cap Overlap(1) = LabelOf(1) \cap Overlap(1)
  <2>1. 1 \in Component /\ \A k \in Component : ~ (k < 1)
    <3>1. \A k \in Component : k \in Nat \ {0}
      BY LabelParts
    <3> QED
      BY <3>1, ViableLabels
  <2>2. \A x : x \notin Overlap(1)
    BY <2>1, ViableLabels
  <2> QED
    BY <2>2
<1>4. (\A i \in D : AgreesBefore(D, A, S, i)) <=> \A i, k \in D : S[i] \cap A[k] = S[k] \cap A[i]
  <2> HIDE DEF D, A, S
  <2> QED
    BY <1>1, PrefixAgreement
<1> QED
  BY <1>1, <1>2, <1>3, <1>4

\* A combination of transitions synchronises exactly when it is a step.
LEMMA ViableIsStep ==
  ASSUME system \in Systems, current.of \in Tuples(system), IdxsOK(current.of, idxs)
  PROVE  Viable <=> IsStep(current.of, idxs)
<1> DEFINE C == Component
           part == {i \in C : idxs[i] # 0}
           label(i) == LabelOf(i)
           signals(i) == label(i) \ {InputBit}
           before(i) == {k \in part : k < i}
           leading == {i \in C : \A k \in part : k <= i => label(k) = {}}
           Pairs == \A i, k \in C : signals(i) \cap Alphabet(k) = signals(k) \cap Alphabet(i)
           V1(i) == ~(Considered(i) /\ label(i) = {} /\ ~AccumSet(i))
           V2(i) == ~(~Considered(i) /\ AccumSet(i) /\ LabelBefore(i) = {})
           V3(i) == LabelBefore(i) \cap Overlap(i) = label(i) \cap Overlap(i)
           V4(i) == system.synch_type[i] = "ASYNCHRONOUS" =>
                      ~(CheckOverlap(LabelBefore(i), label(i), Overlap(i)) = "empty" /\ Considered(i) /\ AccumSet(i))
           V5(i) == system.synch_type[i] = "SYNCHRONOUS" => Considered(i) /\ AccumSet(i)
           S1 == leading \cap part \in {{}, leading}
           S2(i) == system.synch_type[i] = "SYNCHRONOUS" => i \in part /\ before(i) # {}
           S3(i) == system.synch_type[i] = "ASYNCHRONOUS" /\ i \in part /\ before(i) # {} =>
                      \/ \E k \in before(i) : signals(i) \cap signals(k) # {}
                      \/ \A k \in before(i) \cup {i} : label(k) = {}
<1>1. \A i \in C : /\ i \in Nat \ {0} /\ label(i) \subseteq Alphabet(i) \cup {InputBit}
                   /\ InputBit \notin Alphabet(i) /\ (i \in part <=> Considered(i))
                   /\ (i \notin part => label(i) = {})
                   /\ (AccumSet(i) <=> before(i) # {})
                   /\ (LabelBefore(i) = {} <=> \A k \in before(i) : label(k) = {})
  <2>1. ASSUME NEW i \in C
        PROVE  /\ i \in Nat \ {0} /\ label(i) \subseteq Alphabet(i) \cup {InputBit}
               /\ InputBit \notin Alphabet(i) /\ (i \in part <=> Considered(i))
               /\ (i \notin part => label(i) = {})
    BY LabelParts
  <2>2. ASSUME NEW i \in C PROVE AccumSet(i) <=> before(i) # {}
    <3>1. AccumSet(i) <=> \E k \in C : k < i /\ Considered(k)
      BY ViableLabels
    <3> QED
      BY <2>1, <3>1
  <2>3. ASSUME NEW i \in C PROVE LabelBefore(i) = {} <=> \A k \in before(i) : label(k) = {}
    <3>1. LabelBefore(i) = {} <=> \A k \in C : k < i => label(k) = {}
      <4>1. \A x : x \in LabelBefore(i) <=> \E k \in C : k < i /\ x \in label(k)
        BY ViableLabels
      <4> HIDE DEF C, label
      <4> QED
        BY <4>1
    <3> QED
      BY <2>1, <3>1
  <2> QED
    BY <2>1, <2>2, <2>3
<1>2. 1 \in C
  BY ViableLabels
<1>3. Viable <=> \A i \in C \ {1} : V1(i) /\ V2(i) /\ V3(i) /\ V4(i) /\ V5(i)
  <2>1. \A i : CheckOverlap(LabelBefore(i), LabelOf(i), Overlap(i)) # "partial" <=> V3(i)
    BY DEF CheckOverlap
  <2> QED
    BY <2>1 DEF Viable, Synchronises
<1>4. IsStep(current.of, idxs) <=> Pairs /\ S1 /\ \A i \in C \ {1} : S2(i) /\ S3(i)
  <2> DEFINE lab(i) == Transitions(i, current.of[i])[idxs[i]].signals
  <2>1. \A i \in part : label(i) = lab(i)
    BY ViableLabels
  <2>2. IsStep(current.of, idxs)
          <=> LET sig(i) == lab(i) \ {InputBit}
                  bef(i) == {k \in part : k < i}
                  lead == {i \in C : \A k \in part : k <= i => lab(k) = {}}
              IN  /\ \A i, k \in part : sig(i) \cap Alphabet(k) = sig(k) \cap Alphabet(i)
                  /\ \A i \in part, k \in C \ part : sig(i) \cap Alphabet(k) = {}
                  /\ lead \cap part \in {{}, lead}
                  /\ \A i \in C \ {1} :
                       /\ system.synch_type[i] = "SYNCHRONOUS" => i \in part /\ bef(i) # {}
                       /\ system.synch_type[i] = "ASYNCHRONOUS" /\ i \in part /\ bef(i) # {} =>
                            \/ \E k \in bef(i) : sig(i) \cap sig(k) # {}
                            \/ \A k \in bef(i) \cup {i} : lab(k) = {}
    BY DEF IsStep
  <2>3. Pairs <=> /\ \A i, k \in part : (lab(i) \ {InputBit}) \cap Alphabet(k) = (lab(k) \ {InputBit}) \cap Alphabet(i)
                  /\ \A i \in part, k \in C \ part : (lab(i) \ {InputBit}) \cap Alphabet(k) = {}
    <3>1. ASSUME Pairs PROVE \A i \in part, k \in C \ part : (lab(i) \ {InputBit}) \cap Alphabet(k) = {}
      BY <1>1, <2>1, <3>1
    <3>2. ASSUME Pairs PROVE \A i, k \in part : (lab(i) \ {InputBit}) \cap Alphabet(k) = (lab(k) \ {InputBit}) \cap Alphabet(i)
      BY <2>1, <3>2
    <3>3. ASSUME \A i, k \in part : (lab(i) \ {InputBit}) \cap Alphabet(k) = (lab(k) \ {InputBit}) \cap Alphabet(i),
                 \A i \in part, k \in C \ part : (lab(i) \ {InputBit}) \cap Alphabet(k) = {},
                 NEW i \in C, NEW k \in C
          PROVE  signals(i) \cap Alphabet(k) = signals(k) \cap Alphabet(i)
      <4>1. CASE i \in part /\ k \in part
        BY <2>1, <3>3, <4>1
      <4>2. CASE i \in part /\ k \notin part
        BY <1>1, <2>1, <3>3, <4>2
      <4>3. CASE i \notin part /\ k \in part
        BY <1>1, <2>1, <3>3, <4>3
      <4>4. CASE i \notin part /\ k \notin part
        BY <1>1, <4>4
      <4> QED
        BY <4>1, <4>2, <4>3, <4>4
    <3> QED
      BY <3>1, <3>2, <3>3
  <2>4. leading = {i \in C : \A k \in part : k <= i => lab(k) = {}}
    BY <2>1
  <2>5. \A i \in C : S3(i) <=>
          (system.synch_type[i] = "ASYNCHRONOUS" /\ i \in part /\ before(i) # {} =>
             \/ \E k \in before(i) : (lab(i) \ {InputBit}) \cap (lab(k) \ {InputBit}) # {}
             \/ \A k \in before(i) \cup {i} : lab(k) = {})
    BY <2>1
  <2> HIDE DEF part, lab, label
  <2> QED
    BY <2>2, <2>3, <2>4, <2>5
<1>5. (\A i \in C \ {1} : V3(i)) <=> Pairs
  BY OverlapsAgree
<1>6. \A i \in C : V5(i) <=> S2(i)
  BY <1>1
<1>7. (\A i \in C \ {1} : V1(i) /\ V2(i)) <=> S1
  <2>1. ASSUME S1, NEW i \in C \ {1} PROVE V1(i) /\ V2(i)
    <3>1. ASSUME i \in part, label(i) = {}, before(i) = {} PROVE FALSE
      <4>1. i \in leading \cap part
        BY <1>1, <3>1
      <4>2. 1 \in leading
        BY <1>1, <1>2, <3>1
      <4>3. 1 \in part
        BY <2>1, <4>1, <4>2
      <4> QED
        BY <1>1, <2>1, <3>1, <4>3
    <3>2. ASSUME i \notin part, before(i) # {}, \A k \in before(i) : label(k) = {} PROVE FALSE
      <4>1. i \in leading
        BY <1>1, <3>2
      <4>2. PICK k \in before(i) : TRUE
        BY <3>2
      <4>3. k \in leading \cap part
        BY <1>1, <3>2, <4>2
      <4> QED
        BY <2>1, <3>2, <4>1, <4>3
    <3> HIDE DEF part, before, leading, label
    <3> QED
      BY <1>1, <3>1, <3>2
  <2>2. ASSUME \A i \in C \ {1} : V1(i) /\ V2(i), NEW i \in leading \cap part, NEW j \in leading \ part
        PROVE  FALSE
    <3> DEFINE p == Min(part)
    <3>1. part \in SUBSET Nat /\ part # {}
      BY <1>1, <2>2
    <3>2. p \in part /\ \A k \in part : p <= k
      <4> HIDE DEF part
      <4> QED
        BY <3>1, MinFacts
    <3> HIDE DEF p
    <3>3. label(p) = {} /\ before(p) = {}
      BY <1>1, <2>2, <3>2
    <3>4. p = 1
      <4>1. p \in C /\ (p \in part <=> Considered(p)) /\ (AccumSet(p) <=> before(p) # {})
        BY <1>1, <3>2
      <4> HIDE DEF part, before, leading, label
      <4> QED
        BY <2>2, <3>2, <3>3, <4>1
    <3>5. j \in C /\ j # 1 /\ 1 \in before(j)
      BY <1>1, <2>2, <3>2, <3>4
    <3>6. \A k \in before(j) : label(k) = {}
      BY <1>1, <2>2
    <3> HIDE DEF part, before, leading, label
    <3> QED
      BY <1>1, <2>2, <3>5, <3>6
  <2>3. ASSUME \A i \in C \ {1} : V1(i) /\ V2(i) PROVE S1
    <3> HIDE DEF V1, V2, part, leading
    <3> QED
      BY <2>2, <2>3
  <2> HIDE DEF V1, V2, S1
  <2> QED
    BY <2>1, <2>3
<1>8. ASSUME Pairs, NEW i \in C, V3(i) PROVE V4(i) <=> S3(i)
  <2>1. SUFFICES ASSUME i \in part, before(i) # {}
                 PROVE  CheckOverlap(LabelBefore(i), label(i), Overlap(i)) # "empty"
                          <=> \/ \E k \in before(i) : signals(i) \cap signals(k) # {}
                              \/ \A k \in before(i) \cup {i} : label(k) = {}
    <3> HIDE DEF part, before, label, signals
    <3> QED
      BY <1>1
  <2>2. CheckOverlap(LabelBefore(i), label(i), Overlap(i)) # "empty"
          <=> (LabelBefore(i) = {} /\ label(i) = {}) \/ label(i) \cap Overlap(i) # {}
    BY <1>8 DEF CheckOverlap
  <2>3. LabelBefore(i) = {} /\ label(i) = {} <=> \A k \in before(i) \cup {i} : label(k) = {}
    <3> HIDE DEF part, before, label
    <3> QED
      BY <1>1
  <2>4. label(i) \cap Overlap(i) # {} <=> \E k \in before(i) : signals(i) \cap signals(k) # {}
    <3>1. ASSUME NEW x \in label(i) \cap Overlap(i) PROVE \E k \in before(i) : x \in signals(i) /\ x \in signals(k)
      <4>1. PICK k \in C : k < i /\ x \in Alphabet(k)
        BY <3>1, ViableLabels
      <4>2. x # InputBit /\ x \in signals(i)
        BY <1>1, <3>1, <4>1
      <4>3. x \in signals(k)
        BY <1>8, <4>1, <4>2
      <4>4. k \in part
        <5>1. label(k) # {}
          BY <4>3
        <5> QED
          BY <1>1, <5>1
      <4> QED
        BY <4>1, <4>2, <4>3, <4>4
    <3>2. ASSUME NEW k \in before(i), NEW x \in signals(i) \cap signals(k) PROVE x \in label(i) \cap Overlap(i)
      <4>1. k \in C /\ k < i /\ x \in Alphabet(k) /\ x \in Alphabet(i) /\ x \in label(i)
        BY <1>1, <3>2
      <4>2. x \in Overlap(i)
        BY <4>1, ViableLabels
      <4> QED
        BY <4>1, <4>2
    <3> HIDE DEF signals, before, part
    <3> QED
      BY <3>1, <3>2
  <2> HIDE DEF part, before, label, signals
  <2> QED
    BY <2>2, <2>3, <2>4
<1> HIDE DEF V1, V2, V3, V4, V5, S1, S2, S3, Pairs, C
<1> QED
  BY <1>3, <1>4, <1>5, <1>6, <1>7, <1>8

-----------------------------------------------------------------------------
(****************************************************************************)
(* What a combination stands for, and its target.                           *)
(****************************************************************************)
LEMMA StepMeans ==
  ASSUME system \in Systems, NEW of \in Tuples(system), NEW c, IdxsOK(of, c)
  PROVE  /\ StepOf(of, c).state_from = of
         /\ StepOf(of, c).state_to \in Tuples(system)
         /\ StepOf(of, c).signals \in SUBSET Signal
<1> DEFINE to == StepOf(of, c).state_to
<1>1. of = [i \in Place |-> of[i]] /\ \A i \in Place : of[i] \in States(system, i)
  BY TupleMeans
<1>2. /\ \A i \in Component : i \in Place
      /\ \A i \in Place : i \notin Component => States(system, i) = {0, 1}
  BY SystemFacts DEF Component, States
<1>3. DOMAIN of = Place
  BY <1>1, Zenon
<1>4. ASSUME NEW i \in Component
      PROVE  c[i] # 0 => /\ Transitions(i, of[i])[c[i]].state_to \in States(system, i)
                         /\ Transitions(i, of[i])[c[i]].signals \subseteq Signal
  <2>1. /\ Alphabet(i) \subseteq Signal \ {InputBit}
        /\ c[i] # 0 => /\ Transitions(i, of[i])[c[i]].state_to \in States(system, i)
                       /\ Transitions(i, of[i])[c[i]].signals \subseteq Alphabet(i) \cup {InputBit}
    BY LabelFacts
  <2>2. InputBit \in Signal
    BY CompositionAssumption
  <2> QED
    BY <2>1, <2>2
<1> DEFINE label == UNION {Transitions(i, of[i])[c[i]].signals : i \in {k \in Component : c[k] # 0}}
           value(i) == IF i \notin Component
                       THEN FluentAfter(system.fluents[i - Len(system.automata)], of[i], label)
                       ELSE IF c[i] = 0 THEN of[i] ELSE Transitions(i, of[i])[c[i]].state_to
<1>5. StepOf(of, c) = [state_from |-> of, state_to |-> [i \in DOMAIN of |-> value(i)], signals |-> label]
  BY DEF StepOf
<1>6. to = [i \in Place |-> value(i)]
  BY <1>3, <1>5
<1>7. ASSUME NEW i \in Place PROVE value(i) \in States(system, i)
  <2>1. FluentAfter(system.fluents[i - Len(system.automata)], of[i], label) \in {0, 1}
    BY FluentIsBit
  <2> QED
    BY <1>1, <1>2, <1>4, <2>1
<1>8. label \subseteq Signal
  BY <1>4
<1> HIDE DEF label, value
<1>9. to = [i \in Place |-> to[i]] /\ \A i \in Place : to[i] \in States(system, i)
  BY <1>6, <1>7
<1>10. to \in Tuples(system)
  <2> HIDE DEF to
  <2> QED
    BY <1>9, TupleMeans
<1> QED
  BY <1>5, <1>8, <1>10

\* The step of the combination that is tried, as the code puts it together.
LEMMA ComposedStep ==
  ASSUME system \in Systems, current.of \in Tuples(system), IdxsOK(current.of, idxs)
  PROVE  LET label == LabelBefore(Len(system.automata) + 1)
         IN  StepOf(current.of, idxs) = [state_from |-> current.of, state_to |-> TargetOf(label), signals |-> label]
<1> DEFINE m == Len(system.automata)
           of == current.of
           label == LabelBefore(m + 1)
           part == UNION {Transitions(i, of[i])[idxs[i]].signals : i \in {k \in Component : idxs[k] # 0}}
<1>1. m \in Nat /\ Component = 1 .. m
  BY SystemFacts DEF Component
<1>2. 1 .. (m + 1) - 1 = Component
  BY <1>1
<1>3. label = UNION {LabelOf(k) : k \in Component}
  BY <1>2 DEF LabelBefore
<1>4. \A k \in Component : LabelOf(k) = IF idxs[k] # 0 THEN Transitions(k, of[k])[idxs[k]].signals ELSE {}
  BY DEF LabelOf, Considered, Taken
<1>5. label = part
  BY <1>3, <1>4
<1> HIDE DEF label, part
<1>6. TargetOf(label) =
        [i \in DOMAIN of |->
           IF i \notin Component THEN FluentAfter(system.fluents[i - m], of[i], label)
           ELSE IF idxs[i] = 0 THEN of[i] ELSE Transitions(i, of[i])[idxs[i]].state_to]
  BY DEF TargetOf, Considered, Taken
<1> QED
  BY <1>5, <1>6 DEF StepOf, label, part

LEMMA CombinationIsIdxs ==
  ASSUME system \in Systems, NEW of \in Tuples(system), NEW c
  PROVE  c \in Combinations(of) <=> IdxsOK(of, c) /\ c # NoIdxs
<1>1. c \in Combinations(of)
        <=> /\ c = [i \in Component |-> c[i]]
            /\ \A i \in Component : c[i] \in 0 .. Degree(system, i, of[i])
            /\ \E i \in Component : c[i] # 0
  BY CombinationMeans DEF Combinations, Component
<1>2. c = [i \in Component |-> c[i]] => (c # NoIdxs <=> \E i \in Component : c[i] # 0)
  BY DEF NoIdxs
<1> QED
  BY <1>1, <1>2 DEF IdxsOK

-----------------------------------------------------------------------------
(****************************************************************************)
(* The state of the exploration.                                            *)
(****************************************************************************)
Arc == [state_from : 0 .. MaxStates - 1, state_to : 0 .. MaxStates - 1, signals : SUBSET Signal]

Pending == {frontier[k].state : k \in 1 .. Len(frontier)}
Processed == Entries(processed_list)

NumbersInv ==
  /\ system \in Systems
  /\ Rising(alphabet, UNION {system.automata[i].alphabet : i \in DOMAIN system.automata})
  /\ numbered \in SUBSET (Tuples(system) \X Nat)
  /\ TableOf(tree, numbered)
  /\ \A p \in numbered : p[2] \in 0 .. MaxStates - 1
  /\ <<InitialTuple(system), 0>> \in numbered

FrontierInv ==
  /\ frontier \in Seq([state : Nat, of : Tuples(system)])
  /\ current \in [state : Nat, of : Tuples(system)]
  /\ \A k \in 1 .. Len(frontier) : <<frontier[k].of, frontier[k].state>> \in numbered
  /\ \A k, l \in 1 .. Len(frontier) : frontier[k].state = frontier[l].state => k = l
  /\ <<current.of, current.state>> \in numbered
  /\ Buckets(bucket_list, BUCKET_SIZE, Pending)
  /\ Buckets(processed_list, BUCKET_SIZE, Processed)
  /\ \A p \in numbered : p[2] \in Pending <=> p[2] \notin Processed
  /\ \A n \in Processed : \E p \in numbered : p[2] = n
  /\ idxs # NoIdxs => current.state \in Processed
  /\ IdxsOK(current.of, idxs) /\ Unskipped(current.of, idxs)
  /\ finished => frontier = <<>> /\ idxs = NoIdxs

\* An arc of the composition, and the combination it comes from.
ComesFrom(t, of, c) ==
  /\ <<of, t.state_from>> \in numbered
  /\ c \in Combinations(of) /\ IsStep(of, c)
  /\ <<StepOf(of, c).state_to, t.state_to>> \in numbered
  /\ t.signals = StepOf(of, c).signals
  /\ IsConsistent(of) /\ IsConsistent(StepOf(of, c).state_to)
Comes(t) == \E of \in Tuples(system) : \E c \in Combinations(of) : ComesFrom(t, of, c)

Arcs == UNION {ToSet(composition.transitions[s]) : s \in 0 .. MaxStates - 1}
ArcsInv == \A t \in Arcs : t.state_from \in Processed /\ Comes(t)

\* What Automaton keeps of the composition (see IsHeld below).
ArcsHeld ==
  /\ Arcs \subseteq Arc /\ IsFiniteSet(Arcs)
  /\ composition.composite_count = Cardinality(Arcs)
  /\ \A s \in 0 .. MaxStates - 1 :
       /\ composition.transitions[s] \in Seq(Arc)
       /\ composition.transitions[s] # <<>> => \E t \in Arcs : t.state_from = s
       /\ composition.inverted_transitions[s] # <<>> => \E t \in Arcs : t.state_to = s

\* The step of the combination that is tried, with the numbers of its ends.
TriedStep == StepOf(current.of, idxs)
TriedIsAdded == IsConsistent(current.of) /\ IsConsistent(TriedStep.state_to)
TriedArc(n) == [state_from |-> current.state, state_to |-> n, signals |-> TriedStep.signals]

IsComposed(n) ==
  /\ n \in 0 .. MaxStates - 1 /\ TriedStep.state_to \in Tuples(system) /\ TriedArc(n) \in Arc
  /\ idxs \in Combinations(current.of) /\ IsStep(current.of, idxs)
  /\ idxs' = IncrementIdxs(current.of, idxs)
  /\ TableOf(tree', numbered')
  /\ numbered' = numbered \cup {<<TriedStep.state_to, n>>}
  /\ <<TriedStep.state_to, n>> \in numbered \/ \A q \in numbered : q[1] # TriedStep.state_to /\ q[2] # n
  /\ composition' = IF TriedIsAdded THEN Aut!AddTransition(composition, TriedArc(n)) ELSE composition
  /\ marks' = IF TriedIsAdded /\ system.is_game THEN Marked(n, TriedStep.state_to) ELSE marks
  /\ n \notin Pending /\ n \notin Processed =>
       /\ bucket_list' = AddEntry(bucket_list, n)
       /\ frontier' = Append(frontier, [state |-> n, of |-> TriedStep.state_to])
  /\ n \in Pending \/ n \in Processed => UNCHANGED <<bucket_list, frontier>>
  /\ UNCHANGED <<system, alphabet, saved, processed_list, current, finished>>

LEMMA FrontierFacts ==
  ASSUME NumbersInv, FrontierInv
  PROVE  /\ current.of \in Tuples(system) /\ current.state \in 0 .. MaxStates - 1 /\ current.state \in Nat
         /\ Len(frontier) \in Nat
         /\ \A k \in 1 .. Len(frontier) : /\ frontier[k].state \in 0 .. MaxStates - 1
                                          /\ frontier[k].of \in Tuples(system)
                                          /\ frontier[k] = [state |-> frontier[k].state, of |-> frontier[k].of]
         /\ Pending \subseteq Nat
         /\ BUCKET_SIZE \in Nat \ {0} /\ MaxStates \in Nat
<1>1. current \in [state : Nat, of : Tuples(system)] /\ <<current.of, current.state>> \in numbered
  BY DEF FrontierInv
<1>2. current.state \in 0 .. MaxStates - 1
  <2> DEFINE p == <<current.of, current.state>>
  <2>1. p[2] = current.state
    OBVIOUS
  <2>2. p \in numbered
    BY <1>1
  <2> HIDE DEF p
  <2> QED
    BY <2>1, <2>2 DEF NumbersInv
<1>3. frontier \in Seq([state : Nat, of : Tuples(system)])
  BY DEF FrontierInv
<1>4. Len(frontier) \in Nat /\ \A k \in 1 .. Len(frontier) : frontier[k] \in [state : Nat, of : Tuples(system)]
  <2> DEFINE S == [state : Nat, of : Tuples(system)]
  <2> HIDE DEF S
  <2>1. frontier \in Seq(S)
    BY <1>3 DEF S
  <2>2. Len(frontier) \in Nat /\ \A k \in 1 .. Len(frontier) : frontier[k] \in S
    BY <2>1
  <2> QED
    BY <2>2 DEF S
<1>5. ASSUME NEW k \in 1 .. Len(frontier) PROVE frontier[k].state \in 0 .. MaxStates - 1
  <2> DEFINE p == <<frontier[k].of, frontier[k].state>>
  <2>1. p[2] = frontier[k].state
    OBVIOUS
  <2>2. p \in numbered
    BY DEF FrontierInv
  <2> HIDE DEF p
  <2> QED
    BY <2>1, <2>2 DEF NumbersInv
<1>6. BUCKET_SIZE \in Nat \ {0} /\ MaxStates \in Nat
  BY CompositionAssumption
<1>7. Pending \subseteq Nat
  BY <1>4 DEF Pending
<1> QED
  BY <1>1, <1>2, <1>4, <1>5, <1>6, <1>7

LEMMA ComposeEffect ==
  ASSUME KeysDistinct, NumbersInv, FrontierInv, Compose
  PROVE  \E n : IsComposed(n)
<1> DEFINE label == LabelBefore(Len(system.automata) + 1)
           to == TargetOf(label)
           got == GetState(tree, to)
           n == got.state
<1>1. system \in Systems /\ current.of \in Tuples(system) /\ IdxsOK(current.of, idxs)
      /\ current.state \in 0 .. MaxStates - 1
  BY FrontierFacts DEF NumbersInv, FrontierInv
<1>2. TriedStep = [state_from |-> current.of, state_to |-> to, signals |-> label]
  BY <1>1, ComposedStep DEF TriedStep
<1>3. TriedStep.state_to \in Tuples(system) /\ TriedStep.signals \in SUBSET Signal
  BY <1>1, StepMeans DEF TriedStep
<1>4. to = TriedStep.state_to /\ label = TriedStep.signals
  BY <1>2
<1>5. idxs \in Combinations(current.of) /\ IsStep(current.of, idxs) /\ idxs' = IncrementIdxs(current.of, idxs)
  BY <1>1, CombinationIsIdxs, ViableIsStep DEF Compose, Advance
<1> HIDE DEF label, to
<1>6. /\ TableOf(got.table, numbered \cup {<<to, n>>})
      /\ n \in 0 .. MaxStates - 1
      /\ <<to, n>> \in numbered \/ \A q \in numbered : q[1] # to /\ q[2] # n
  <2>1. TuplesOK(Tuples(system))
    BY <1>1, TuplesAreOK
  <2>2. numbered \in SUBSET (Tuples(system) \X Nat) /\ TableOf(tree, numbered) /\ to \in Tuples(system)
    BY <1>3, <1>4 DEF NumbersInv
  <2> DEFINE TT == Tuples(system)
  <2> HIDE DEF TT
  <2>3. TuplesOK(TT) /\ numbered \in SUBSET (TT \X Nat) /\ TableOf(tree, numbered) /\ to \in TT
    BY <2>1, <2>2 DEF TT
  <2>4. IsGot(got, tree, numbered, to)
    BY <2>3, GetStateEffect
  <2> HIDE DEF got
  <2> QED
    BY <2>4 DEF IsGot
<1>7. n \in Nat
  BY <1>6, FrontierFacts
<1>8. Enters(n) <=> n \notin Pending /\ n \notin Processed
  <2>1. Buckets(bucket_list, BUCKET_SIZE, Pending) /\ Buckets(processed_list, BUCKET_SIZE, Processed)
    BY DEF FrontierInv
  <2>2. BUCKET_SIZE \in Nat \ {0}
    BY FrontierFacts
  <2> DEFINE P == Pending
             Q == Processed
  <2>3. Buckets(bucket_list, BUCKET_SIZE, P) /\ Buckets(processed_list, BUCKET_SIZE, Q)
    BY <2>1
  <2> HIDE DEF P, Q, n
  <2>4. HasEntry(bucket_list, n) <=> n \in P
    BY <1>7, <2>2, <2>3, HasEntryMeans
  <2>5. HasEntry(processed_list, n) <=> n \in Q
    BY <1>7, <2>2, <2>3, HasEntryMeans
  <2> QED
    BY <2>4, <2>5 DEF Enters, P, Q
<1>9. /\ tree' = got.table
      /\ numbered' = numbered \cup {<<to, n>>}
      /\ composition' = IF IsConsistent(current.of) /\ IsConsistent(to)
                        THEN Aut!AddTransition(composition, [state_from |-> current.state, state_to |-> n, signals |-> label])
                        ELSE composition
      /\ IF (IsConsistent(current.of) /\ IsConsistent(to)) /\ system.is_game
         THEN marks' = Marked(n, to)
         ELSE marks' = marks
      /\ IF Enters(n)
         THEN /\ bucket_list' = AddEntry(bucket_list, n)
              /\ frontier' = Append(frontier, [state |-> n, of |-> to])
         ELSE UNCHANGED <<bucket_list, frontier>>
      /\ UNCHANGED <<system, alphabet, saved, processed_list, current, finished>>
  BY DEF Compose, label, to
<1>10. TriedArc(n) \in Arc
  BY <1>1, <1>3, <1>6 DEF TriedArc, Arc
<1> HIDE DEF got, n
<1>11. IsComposed(n)
  BY <1>3, <1>4, <1>5, <1>6, <1>8, <1>9, <1>10 DEF IsComposed, TriedIsAdded, TriedArc
<1> QED
  BY <1>11

LEMMA EmptyHasNoArcs ==
  ASSUME Init
  PROVE  Arcs = {}
<1>1. \A s \in 0 .. MaxStates - 1 : composition.transitions[s] = <<>>
  BY DEF Init
<1>2. ToSet(<<>>) = {}
  BY DEF ToSet
<1> QED
  BY <1>1, <1>2 DEF Arcs

LEMMA InitExplores ==
  ASSUME KeysDistinct, Init
  PROVE  NumbersInv /\ FrontierInv /\ ArcsInv
<1> DEFINE of == InitialTuple(system)
           got == GetState(EmptyTable, of)
           n == got.state
           TT == Tuples(system)
<1>1. system \in Systems
  BY DEF Init
<1>2. of \in TT /\ TuplesOK(TT) /\ TT \subseteq Tuples(system)
  BY <1>1, InitialTupleIsTuple, TuplesAreOK
<1>3. TableOf(EmptyTable, {}) /\ EmptyTable.max_value = 0
  BY EmptyTableHasNothing
<1>4. BUCKET_SIZE \in Nat \ {0} /\ MaxStates \in Nat
  BY CompositionAssumption
<1>5. IsGot(got, EmptyTable, {}, of)
  <2> HIDE DEF TT, of
  <2>1. {} \in SUBSET (TT \X Nat)
    OBVIOUS
  <2> QED
    BY <1>2, <1>3, <2>1, GetStateEffect
<1>6. /\ tree = got.table
      /\ frontier = <<[state |-> n, of |-> of]>>
      /\ bucket_list = AddEntry(EmptyList(BUCKET_SIZE), n)
      /\ current = [state |-> n, of |-> of]
      /\ numbered = {<<of, n>>}
      /\ processed_list = EmptyList(BUCKET_SIZE)
      /\ idxs = NoIdxs /\ finished = FALSE
      /\ alphabet = UnionAlphabet(system.automata)
  BY DEF Init
<1> HIDE DEF got, n, of
<1>7. /\ n = 0 /\ n \in 0 .. MaxStates - 1 /\ TableOf(tree, {<<of, n>>})
  <2> HIDE DEF TT
  <2>1. TableOf(got.table, {} \cup {<<of, n>>}) /\ n \in 0 .. MaxStates - 1
        /\ (<<of, n>> \in {} \/ n = EmptyTable.max_value)
    BY <1>5 DEF IsGot, n
  <2>2. {} \cup {<<of, n>>} = {<<of, n>>}
    OBVIOUS
  <2> QED
    BY <1>3, <1>6, <2>1, <2>2
<1>8. NumbersInv
  <2>1. Rising(alphabet, UNION {system.automata[i].alphabet : i \in DOMAIN system.automata})
    BY <1>1, <1>6, UnionAlphabetEffect
  <2>2. numbered \in SUBSET (Tuples(system) \X Nat)
    BY <1>2, <1>6, <1>7
  <2>3. \A p \in numbered : p[2] \in 0 .. MaxStates - 1
    BY <1>6, <1>7
  <2> QED
    BY <1>1, <1>6, <1>7, <2>1, <2>2, <2>3 DEF NumbersInv, of
<1>9. Pending = {n} /\ Len(frontier) = 1 /\ frontier[1] = [state |-> n, of |-> of]
  BY <1>6 DEF Pending
<1>10. Processed = {} /\ Buckets(processed_list, BUCKET_SIZE, {})
  BY <1>4, <1>6, EmptyHasNothing, EntriesMean DEF Processed
<1>11. Buckets(bucket_list, BUCKET_SIZE, {n})
  <2>1. Buckets(EmptyList(BUCKET_SIZE), BUCKET_SIZE, {})
    BY <1>4, EmptyHasNothing
  <2>2. n \in Nat
    BY <1>7
  <2>3. Buckets(AddEntry(EmptyList(BUCKET_SIZE), n), BUCKET_SIZE, {} \cup {n})
    BY <1>4, <2>1, <2>2, AddEntryAdds
  <2> QED
    BY <1>6, <2>3
<1>12. FrontierInv
  <2>1. IdxsOK(current.of, idxs) /\ Unskipped(current.of, idxs)
    <3>1. current.of = of /\ of \in Tuples(system)
      BY <1>2, <1>6
    <3> QED
      BY <1>1, <1>6, <3>1, NoIdxsIsFirst
  <2> DEFINE S == [state : Nat, of : TT]
  <2>2. [state |-> n, of |-> of] \in S
    <3>1. n \in Nat /\ of \in TT
      BY <1>2, <1>7
    <3> QED
      BY <3>1
  <2>3. frontier \in Seq(S)
    <3> HIDE DEF S
    <3> QED
      BY <1>6, <2>2
  <2>4. <<current.of, current.state>> \in numbered
    BY <1>6
  <2>5. \A k \in 1 .. Len(frontier) : k = 1
    BY <1>9
  <2>6. \A k \in 1 .. Len(frontier) : <<frontier[k].of, frontier[k].state>> \in numbered
    BY <1>6, <1>9, <2>5
  <2>7. Buckets(bucket_list, BUCKET_SIZE, Pending) /\ Buckets(processed_list, BUCKET_SIZE, Processed)
    BY <1>9, <1>10, <1>11
  <2>8. \A p \in numbered : p[2] \in Pending <=> p[2] \notin Processed
    BY <1>6, <1>9, <1>10
  <2>9. \A i, k \in 1 .. Len(frontier) : i = k
    BY <2>5
  <2> HIDE DEF TT
  <2> QED
    BY <1>6, <1>10, <2>1, <2>2, <2>3, <2>4, <2>6, <2>7, <2>8, <2>9 DEF FrontierInv, TT
<1>13. ArcsInv
  BY EmptyHasNoArcs DEF ArcsInv
<1> QED
  BY <1>8, <1>12, <1>13

LEMMA ProcessedHaveArcs ==
  ASSUME ArcsHeld, ArcsInv, NEW n \in 0 .. MaxStates - 1, n \notin Processed
  PROVE  Aut!Out(composition, n) = <<>>
BY DEF ArcsInv, ArcsHeld, Aut!Out

LEMMA AdvanceFacts ==
  ASSUME NumbersInv, FrontierInv, idxs' = IncrementIdxs(current.of, idxs)
  PROVE  /\ IdxsOK(current.of, idxs') /\ Unskipped(current.of, idxs')
         /\ \A c : IdxsOK(current.of, c) /\ Unskipped(current.of, c) /\ (idxs' = NoIdxs \/ Precedes(c, idxs'))
                     => c = idxs \/ Precedes(c, idxs)
BY FrontierFacts, IncrementEffect DEF NumbersInv, FrontierInv

\* What a state that is taken from the stack changes.
LEMMA PopEffect ==
  ASSUME NumbersInv, FrontierInv, ArcsInv, ArcsHeld, Pop
  PROVE  LET top == frontier[Len(frontier)]
         IN  /\ Len(frontier) >= 1 /\ top.state \in Pending /\ top.state \notin Processed
             /\ top.of \in Tuples(system) /\ <<top.of, top.state>> \in numbered
             /\ Pending' = Pending \ {top.state} /\ Processed' = Processed \cup {top.state}
             /\ current' = top /\ idxs' = IncrementIdxs(top.of, NoIdxs) /\ idxs = NoIdxs
             /\ FrontierInv'
<1> DEFINE n == Len(frontier)
           top == frontier[n]
           S == [state : Nat, of : Tuples(system)]
<1>1. idxs = NoIdxs /\ frontier # <<>> /\ frontier \in Seq(S)
  BY DEF Pop, FrontierInv
<1>2. n \in Nat \ {0} /\ n \in 1 .. n
  <2> HIDE DEF S
  <2> QED
    BY <1>1
<1>3. top.state \in 0 .. MaxStates - 1 /\ top.of \in Tuples(system)
      /\ top = [state |-> top.state, of |-> top.of] /\ top.state \in Nat
  BY <1>2, FrontierFacts
<1>4. top \in S
  <2> HIDE DEF top
  <2> QED
    BY <1>3
<1>5. <<top.of, top.state>> \in numbered
  BY <1>2 DEF FrontierInv
<1>6. top.state \in Pending
  BY <1>2 DEF Pending
<1>7. top.state \notin Processed
  <2> DEFINE p == <<top.of, top.state>>
  <2>1. p[2] = top.state /\ p \in numbered
    BY <1>5
  <2> HIDE DEF p
  <2> QED
    BY <1>6, <2>1 DEF FrontierInv
<1>8. Last(frontier) = top
  BY DEF Last
<1>9. Aut!Out(composition, top.state) = <<>>
  BY <1>3, <1>7, ProcessedHaveArcs
<1>10. /\ frontier' = Front(frontier)
       /\ bucket_list' = RemoveEntry(bucket_list, top.state)
       /\ processed_list' = AddEntry(processed_list, top.state)
       /\ current' = top /\ idxs' = IncrementIdxs(top.of, NoIdxs)
       /\ UNCHANGED <<system, tree, composition, alphabet, marks, saved, finished, numbered>>
  BY <1>8, <1>9 DEF Pop
<1> HIDE DEF top, n
<1>11. /\ frontier' \in Seq(S) /\ Len(frontier') = n - 1
       /\ \A k \in 1 .. n - 1 : frontier'[k] = frontier[k]
  <2> HIDE DEF S
  <2>1. frontier' = SubSeq(frontier, 1, n - 1)
    BY <1>10 DEF Front, n
  <2>2. frontier \in Seq(S) /\ 1 \in 1 .. Len(frontier) + 1 /\ n - 1 \in 1 - 1 .. Len(frontier)
    BY <1>1, <1>2 DEF n
  <2>3. /\ SubSeq(frontier, 1, n - 1) \in Seq(S)
        /\ Len(SubSeq(frontier, 1, n - 1)) = IF n - 1 < 1 THEN 0 ELSE (n - 1) - 1 + 1
        /\ \A i \in 1 .. (n - 1) - 1 + 1 : SubSeq(frontier, 1, n - 1)[i] = frontier[1 + i - 1]
    BY <2>2, SubSeqProperties
  <2>4. Len(SubSeq(frontier, 1, n - 1)) = n - 1 /\ (n - 1) - 1 + 1 = n - 1
    BY <1>2, <2>3
  <2>5. \A i \in 1 .. n - 1 : 1 + i - 1 = i
    BY <1>2
  <2> QED
    BY <2>1, <2>3, <2>4, <2>5
<1>12. /\ \A k \in 1 .. n : <<frontier[k].of, frontier[k].state>> \in numbered
       /\ \A k, l \in 1 .. n : frontier[k].state = frontier[l].state => k = l
  BY DEF FrontierInv, n
<1>13. \A k \in 1 .. n - 1 : k \in 1 .. n /\ k # n
  BY <1>2
<1>14. Pending' = Pending \ {top.state}
  <2>1. Pending' = {frontier[k].state : k \in 1 .. n - 1}
    BY <1>11 DEF Pending
  <2>2. Pending = {frontier[k].state : k \in 1 .. n}
    BY DEF Pending, n
  <2>3. \A k \in 1 .. n : k # n => k \in 1 .. n - 1
    BY <1>2
  <2>4. ASSUME NEW k \in 1 .. n, frontier[k].state # top.state PROVE k # n
    BY <2>4 DEF top
  <2>5. ASSUME NEW k \in 1 .. n - 1 PROVE frontier[k].state # top.state /\ k \in 1 .. n
    BY <1>2, <1>12, <1>13 DEF top
  <2> QED
    BY <2>1, <2>2, <2>3, <2>4, <2>5
<1> DEFINE B == BUCKET_SIZE
           P == Pending
           Q == Processed
           s == top.state
<1>15. B \in Nat \ {0} /\ s \in Nat /\ s \in P /\ Buckets(bucket_list, B, P) /\ Buckets(processed_list, B, Q)
  BY <1>3, <1>6, FrontierFacts DEF FrontierInv
<1> HIDE DEF B, P, Q, s
<1>16. Buckets(bucket_list', B, P \ {s})
  <2>1. bucket_list' = RemoveEntry(bucket_list, s)
    BY <1>10 DEF s
  <2> QED
    BY <1>15, <2>1, RemoveEntryRemoves
<1>17. Buckets(processed_list', B, Q \cup {s}) /\ Processed' = Q \cup {s}
  <2>1. processed_list' = AddEntry(processed_list, s)
    BY <1>10 DEF s
  <2>2. Buckets(processed_list', B, Q \cup {s})
    BY <1>15, <2>1, AddEntryAdds
  <2> QED
    BY <1>15, <2>2, EntriesMean DEF Processed
<1>18. IdxsOK(top.of, idxs') /\ Unskipped(top.of, idxs')
  <2>1. system \in Systems
    BY DEF NumbersInv
  <2>2. IdxsOK(top.of, NoIdxs) /\ Unskipped(top.of, NoIdxs)
    BY <1>3, <2>1, NoIdxsIsFirst
  <2> QED
    BY <1>3, <1>10, <2>1, <2>2, IncrementEffect
<1>19. IdxsOK(current.of, idxs)' /\ Unskipped(current.of, idxs)'
  <2>1. Component' = Component /\ current' = top /\ system' = system
    BY <1>10 DEF Component
  <2> QED
    BY <1>18, <2>1 DEF IdxsOK, Unskipped, Skipped, Offered, Transitions, Alphabet, Degree
<1>20. /\ \A k \in 1 .. Len(frontier') : <<frontier'[k].of, frontier'[k].state>> \in numbered'
       /\ \A k, l \in 1 .. Len(frontier') : frontier'[k].state = frontier'[l].state => k = l
  BY <1>10, <1>11, <1>12, <1>13
<1>21. \A p \in numbered : p[2] \in Pending' <=> p[2] \notin Processed'
  <2>1. \A p \in numbered : p[2] \in P <=> p[2] \notin Q
    BY DEF FrontierInv, P, Q
  <2> QED
    BY <1>7, <1>14, <1>17, <2>1 DEF P, Q, s
<1>22. \A m \in Processed' : \E p \in numbered : p[2] = m
  <2>1. \A m \in Q : \E p \in numbered : p[2] = m
    BY DEF FrontierInv, Q
  <2> DEFINE p == <<top.of, s>>
  <2>2. p \in numbered /\ p[2] = s
    BY <1>5 DEF s
  <2> HIDE DEF p
  <2> QED
    BY <1>17, <2>1, <2>2
<1>24. ~ finished
  BY <1>1 DEF FrontierInv
<1>25. Buckets(bucket_list', BUCKET_SIZE, Pending') /\ Buckets(processed_list', BUCKET_SIZE, Processed')
  BY <1>14, <1>16, <1>17 DEF B, P, s
<1>26. FrontierInv'
  <2>1. frontier' \in Seq([state : Nat, of : Tuples(system')]) /\ current' \in [state : Nat, of : Tuples(system')]
    BY <1>4, <1>10, <1>11
  <2>2. <<current'.of, current'.state>> \in numbered' /\ current'.state \in Processed'
    BY <1>5, <1>10, <1>17 DEF s
  <2>3. numbered' = numbered /\ finished' = finished
    BY <1>10
  <2>4. IdxsOK(current.of, idxs)' /\ Unskipped(current.of, idxs)'
    BY <1>19
  <2> QED
    BY <1>20, <1>21, <1>22, <1>24, <1>25, <2>1, <2>2, <2>3, <2>4 DEF FrontierInv
<1> QED
  BY <1>1, <1>2, <1>3, <1>5, <1>6, <1>7, <1>10, <1>14, <1>17, <1>26 DEF n, top, s, Q

\* What depends on the system alone stays.
LEMMA StepsStay ==
  ASSUME system' = system
  PROVE  /\ \A of, c : IsStep(of, c)' <=> IsStep(of, c)
         /\ \A of, c : StepOf(of, c)' = StepOf(of, c)
         /\ \A of : IsConsistent(of)' <=> IsConsistent(of)
         /\ \A of : Combinations(of)' = Combinations(of)
         /\ Tuples(system)' = Tuples(system)
         /\ \A of, c : IdxsOK(of, c)' <=> IdxsOK(of, c)
         /\ \A of, c : Unskipped(of, c)' <=> Unskipped(of, c)
         /\ \A c, d : Precedes(c, d)' <=> Precedes(c, d)
         /\ NoIdxs' = NoIdxs /\ Component' = Component
<1>1. \A of, c : IsStep(of, c)' <=> IsStep(of, c)
  BY DEF IsStep, Component, Transitions, Alphabet
<1>2. \A of, c : StepOf(of, c)' = StepOf(of, c)
  BY DEF StepOf, Component, Transitions
<1>3. \A of : IsConsistent(of)' <=> IsConsistent(of)
  BY DEF IsConsistent, Declaring, Agrees, StateValuation, Word, Component
<1>4. \A of : Combinations(of)' = Combinations(of)
  BY DEF Combinations
<1>5. \A of, c : IdxsOK(of, c)' <=> IdxsOK(of, c)
  BY DEF IdxsOK, Component
<1>6. \A of, c : Unskipped(of, c)' <=> Unskipped(of, c)
  BY DEF Unskipped, Skipped, Offered, Transitions, Alphabet, Component
<1>7. \A c, d : Precedes(c, d)' <=> Precedes(c, d)
  BY DEF Precedes, Component
<1>8. NoIdxs' = NoIdxs /\ Component' = Component
  BY DEF NoIdxs, Component
<1> QED
  BY <1>1, <1>2, <1>3, <1>4, <1>5, <1>6, <1>7, <1>8

LEMMA OdometerStays ==
  ASSUME system' = system, current' = current, IdxsOK(current.of, idxs'), Unskipped(current.of, idxs')
  PROVE  IdxsOK(current.of, idxs)' /\ Unskipped(current.of, idxs)'
<1>1. IdxsOK(current.of, idxs)'
  BY DEF IdxsOK, Component
<1>2. Unskipped(current.of, idxs)'
  BY DEF Unskipped, Skipped, Offered, Transitions, Alphabet, Component
<1> QED
  BY <1>1, <1>2

LEMMA ComesStays ==
  ASSUME system' = system, numbered \subseteq numbered', NEW t, Comes(t)
  PROVE  Comes(t)'
<1>1. PICK of \in Tuples(system) : \E c \in Combinations(of) : ComesFrom(t, of, c)
  BY DEF Comes
<1>2. PICK c \in Combinations(of) : ComesFrom(t, of, c)
  BY <1>1
<1>3. of \in Tuples(system)' /\ c \in Combinations(of)' /\ ComesFrom(t, of, c)'
  BY <1>2, StepsStay DEF ComesFrom
<1> QED
  BY <1>3 DEF Comes

LEMMA PopExplores ==
  ASSUME NumbersInv, FrontierInv, ArcsInv, ArcsHeld, Pop
  PROVE  NumbersInv' /\ FrontierInv' /\ ArcsInv'
<1>1. UNCHANGED <<system, tree, composition, alphabet, marks, saved, finished, numbered>>
  BY DEF Pop
<1>2. NumbersInv'
  BY <1>1 DEF NumbersInv
<1>3. FrontierInv' /\ Processed' = Processed \cup {frontier[Len(frontier)].state}
  BY PopEffect
<1>4. \A t : Comes(t) => Comes(t)'
  BY <1>1, ComesStays
<1>5. ArcsInv'
  BY <1>1, <1>3, <1>4 DEF ArcsInv, Arcs
<1> QED
  BY <1>2, <1>3, <1>5

LEMMA BlockExplores ==
  ASSUME NumbersInv, FrontierInv, ArcsInv, Block
  PROVE  NumbersInv' /\ FrontierInv' /\ ArcsInv'
<1>1. /\ UNCHANGED <<system, tree, composition, alphabet, frontier, bucket_list, processed_list, current,
                     finished, numbered>>
      /\ idxs # NoIdxs /\ idxs' = IncrementIdxs(current.of, idxs)
  BY DEF Block, Advance
<1>2. NumbersInv'
  BY <1>1 DEF NumbersInv
<1>3. IdxsOK(current.of, idxs') /\ Unskipped(current.of, idxs')
  BY <1>1, AdvanceFacts
<1>4. IdxsOK(current.of, idxs)' /\ Unskipped(current.of, idxs)'
  BY <1>1, <1>3, OdometerStays
<1>5. Pending' = Pending /\ Processed' = Processed
  BY <1>1 DEF Pending, Processed
<1>6. ~finished
  BY <1>1 DEF FrontierInv
<1>7. current.state \in Processed
  BY <1>1 DEF FrontierInv
<1>8. FrontierInv'
  BY <1>1, <1>4, <1>5, <1>6, <1>7 DEF FrontierInv
<1>9. \A t : Comes(t) => Comes(t)'
  BY <1>1, ComesStays
<1>10. ArcsInv'
  BY <1>1, <1>5, <1>9 DEF ArcsInv, Arcs
<1> QED
  BY <1>2, <1>8, <1>10

LEMMA ComposeNumbers ==
  ASSUME KeysDistinct, NumbersInv, FrontierInv, ArcsInv, NEW n, IsComposed(n)
  PROVE  NumbersInv' /\ numbered \subseteq numbered'
<1>1. numbered' \in SUBSET (Tuples(system) \X Nat)
  <2>1. n \in Nat
    BY FrontierFacts DEF IsComposed
  <2> QED
    BY <2>1 DEF IsComposed, NumbersInv
<1>2. \A p \in numbered' : p[2] \in 0 .. MaxStates - 1
  BY DEF IsComposed, NumbersInv
<1>3. system' = system /\ alphabet' = alphabet /\ TableOf(tree', numbered') /\ numbered \subseteq numbered'
  BY DEF IsComposed
<1> QED
  BY <1>1, <1>2, <1>3 DEF NumbersInv

LEMMA ComposeArcs ==
  ASSUME NumbersInv, FrontierInv, ArcsInv, idxs # NoIdxs, NEW n, IsComposed(n),
         Arcs' = Arcs \cup (IF TriedIsAdded THEN {TriedArc(n)} ELSE {})
  PROVE  ArcsInv'
<1>1. /\ system' = system /\ processed_list' = processed_list /\ numbered \subseteq numbered'
      /\ <<TriedStep.state_to, n>> \in numbered' /\ TriedArc(n) \in Arc
      /\ composition' = IF TriedIsAdded THEN Aut!AddTransition(composition, TriedArc(n)) ELSE composition
  BY DEF IsComposed
<1>2. Processed' = Processed
  BY <1>1 DEF Processed
<1>3. \A t : Comes(t) => Comes(t)'
  BY <1>1, ComesStays
<1>4. CASE ~TriedIsAdded
  BY <1>1, <1>2, <1>3, <1>4 DEF ArcsInv
<1>5. CASE TriedIsAdded
  <2>0. PICK t : t = TriedArc(n)
    OBVIOUS
  <2>4. t.state_from = current.state /\ t.state_to = n /\ t.signals = TriedStep.signals
    BY <2>0 DEF TriedArc
  <2>5. t.state_from \in Processed
    BY <2>4 DEF FrontierInv
  <2>6. Comes(t)'
    <3>1. PICK of : of = current.of
      OBVIOUS
    <3>2. PICK c : c = idxs
      OBVIOUS
    <3>3. of \in Tuples(system) /\ c \in Combinations(of)
      BY <3>1, <3>2, FrontierFacts DEF IsComposed
    <3>4. <<of, t.state_from>> \in numbered'
      BY <1>1, <2>4, <3>1 DEF FrontierInv
    <3>5. IsStep(of, c) /\ TriedStep = StepOf(of, c)
      BY <3>1, <3>2 DEF IsComposed, TriedStep
    <3>6. /\ <<StepOf(of, c).state_to, t.state_to>> \in numbered' /\ t.signals = StepOf(of, c).signals
          /\ IsConsistent(of) /\ IsConsistent(StepOf(of, c).state_to)
      BY <1>1, <1>5, <2>4, <3>1, <3>5 DEF TriedIsAdded
    <3>7. of \in Tuples(system)' /\ c \in Combinations(of)' /\ ComesFrom(t, of, c)'
      BY <1>1, <3>3, <3>4, <3>5, <3>6, StepsStay DEF ComesFrom
    <3> QED
      BY <3>7 DEF Comes
  <2>7. ArcsInv'
    BY <1>2, <1>3, <1>5, <2>0, <2>5, <2>6 DEF ArcsInv
  <2> QED
    BY <2>7
<1> QED
  BY <1>4, <1>5

LEMMA ComposeFrontier ==
  ASSUME KeysDistinct, NumbersInv, FrontierInv, idxs # NoIdxs, NEW n, IsComposed(n)
  PROVE  /\ FrontierInv' /\ Processed' = Processed /\ n \in Pending' \cup Processed
         /\ Pending' = IF n \in Processed THEN Pending ELSE Pending \cup {n}
<1> DEFINE to == TriedStep.state_to
           S == [state : Nat, of : Tuples(system)]
           e == [state |-> n, of |-> to]
           m == Len(frontier)
           enters == n \notin Pending /\ n \notin Processed
           P == Pending
           Q == Processed
           B == BUCKET_SIZE
<1>1. /\ system' = system /\ current' = current /\ finished' = finished /\ processed_list' = processed_list
      /\ numbered' = numbered \cup {<<to, n>>} /\ to \in Tuples(system)
      /\ <<to, n>> \in numbered \/ \A q \in numbered : q[1] # to /\ q[2] # n
      /\ idxs' = IncrementIdxs(current.of, idxs)
      /\ enters => bucket_list' = AddEntry(bucket_list, n) /\ frontier' = Append(frontier, e)
      /\ ~enters => bucket_list' = bucket_list /\ frontier' = frontier
  BY DEF IsComposed
<1>2. n \in Nat /\ B \in Nat \ {0} /\ m \in Nat
  BY FrontierFacts DEF IsComposed
<1>3. /\ frontier \in Seq(S) /\ current \in S /\ <<current.of, current.state>> \in numbered
      /\ \A k \in 1 .. m : <<frontier[k].of, frontier[k].state>> \in numbered
      /\ \A k, l \in 1 .. m : frontier[k].state = frontier[l].state => k = l
      /\ Buckets(bucket_list, B, P) /\ Buckets(processed_list, B, Q)
      /\ \A p \in numbered : p[2] \in P <=> p[2] \notin Q
      /\ \A i \in Q : \E p \in numbered : p[2] = i
      /\ current.state \in Q /\ ~finished
  BY DEF FrontierInv
<1>4. P = {frontier[k].state : k \in 1 .. m}
  BY DEF Pending
<1>5. e \in S /\ e.state = n /\ e.of = to
  BY <1>1, <1>2
<1>6. enters => \A q \in numbered : q[1] # to /\ q[2] # n
  <2> DEFINE q == <<to, n>>
  <2>1. q[2] = n
    OBVIOUS
  <2> HIDE DEF q
  <2>2. q \in numbered => (q[2] \in P <=> q[2] \notin Q)
    BY <1>3
  <2> QED
    BY <1>1, <2>1, <2>2 DEF q
<1>7. Processed' = Q
  BY <1>1 DEF Processed
<1>8. IdxsOK(current.of, idxs)' /\ Unskipped(current.of, idxs)'
  BY <1>1, AdvanceFacts, OdometerStays
<1>9. /\ frontier' \in Seq(S) /\ Len(frontier') \in Nat
      /\ \A k \in 1 .. Len(frontier') : <<frontier'[k].of, frontier'[k].state>> \in numbered'
      /\ \A k, l \in 1 .. Len(frontier') : frontier'[k].state = frontier'[l].state => k = l
      /\ Pending' = IF enters THEN P \cup {n} ELSE P
  <2>1. CASE ~enters
    <3>1. Pending' = P
      BY <1>1, <2>1 DEF Pending
    <3> QED
      BY <1>1, <1>2, <1>3, <2>1, <3>1
  <2>2. CASE enters
    <3> HIDE DEF S, e, P, Q
    <3>1. /\ frontier' \in Seq(S) /\ Len(frontier') = m + 1
          /\ \A k \in 1 .. m : frontier'[k] = frontier[k]
          /\ frontier'[m + 1] = e
      <4>1. frontier' = Append(frontier, e) /\ frontier \in Seq(S) /\ e \in S
        BY <1>1, <1>3, <1>5, <2>2
      <4> HIDE DEF enters
      <4>2. /\ Append(frontier, e) \in Seq(S) /\ Len(Append(frontier, e)) = Len(frontier) + 1
            /\ \A k \in 1 .. Len(frontier) : Append(frontier, e)[k] = frontier[k]
            /\ Append(frontier, e)[Len(frontier) + 1] = e
        <5> DEFINE list == frontier
        <5>1. list \in Seq(S) /\ e \in S
          BY <4>1
        <5> HIDE DEF list
        <5> QED
          BY <5>1 DEF list
      <4> QED
        BY <4>1, <4>2
    <3>2. \A k \in 1 .. m + 1 : k \in 1 .. m \/ k = m + 1
      BY <1>2
    <3>3. \A k \in 1 .. m : frontier[k].state # n
      <4>1. ASSUME NEW k \in 1 .. m PROVE frontier[k].state # n
        <5> DEFINE q == <<frontier[k].of, frontier[k].state>>
        <5>1. q \in numbered /\ q[2] = frontier[k].state
          BY <1>3
        <5> HIDE DEF q
        <5> QED
          BY <1>6, <2>2, <5>1
      <4> QED
        BY <4>1
    <3>4. \A k \in 1 .. m + 1 : <<frontier'[k].of, frontier'[k].state>> \in numbered'
      BY <1>1, <1>3, <1>5, <3>1, <3>2
    <3>5. \A k, l \in 1 .. m + 1 : frontier'[k].state = frontier'[l].state => k = l
      BY <1>3, <1>5, <3>1, <3>2, <3>3
    <3>6. Pending' = P \cup {n}
      <4>1. Pending' = {frontier'[k].state : k \in 1 .. m + 1}
        BY <3>1 DEF Pending
      <4>2. m + 1 \in 1 .. m + 1 /\ \A k \in 1 .. m : k \in 1 .. m + 1
        BY <1>2
      <4> QED
        BY <1>4, <1>5, <3>1, <3>2, <4>1, <4>2
    <3> QED
      BY <1>2, <2>2, <3>1, <3>4, <3>5, <3>6
  <2> QED
    BY <2>1, <2>2
<1>10. Buckets(bucket_list', B, Pending') /\ Buckets(processed_list', B, Processed')
  <2> HIDE DEF P, Q, B
  <2>1. enters => Buckets(bucket_list', B, P \cup {n})
    BY <1>1, <1>2, <1>3, AddEntryAdds
  <2>2. ~enters => Buckets(bucket_list', B, P)
    BY <1>1, <1>3
  <2>3. Buckets(processed_list', B, Q)
    BY <1>1, <1>3
  <2> QED
    BY <1>7, <1>9, <2>1, <2>2, <2>3
<1>11. n \in P \/ n \in Q \/ enters
  OBVIOUS
<1>12. \A p \in numbered' : p[2] \in Pending' <=> p[2] \notin Processed'
  <2>1. ASSUME NEW p \in numbered PROVE p[2] \in Pending' <=> p[2] \notin Processed'
    BY <1>3, <1>6, <1>7, <1>9, <2>1
  <2>2. n \in Pending' <=> n \notin Processed'
    <3>1. CASE enters
      BY <1>7, <1>9, <3>1
    <3>2. CASE ~enters
      <4>1. \E q \in numbered : q[2] = n
        <5>1. n \in P => \E k \in 1 .. m : frontier[k].state = n
          BY <1>4
        <5>2. ASSUME NEW k \in 1 .. m, frontier[k].state = n PROVE \E q \in numbered : q[2] = n
          <6> DEFINE q == <<frontier[k].of, frontier[k].state>>
          <6>1. q \in numbered /\ q[2] = n
            BY <1>3, <5>2
          <6> HIDE DEF q
          <6> QED
            BY <6>1
        <5>3. n \in Q => \E q \in numbered : q[2] = n
          BY <1>3
        <5> HIDE DEF P, Q
        <5> QED
          BY <1>11, <3>2, <5>1, <5>2, <5>3
      <4> HIDE DEF P, Q
      <4> QED
        BY <1>3, <1>7, <1>9, <3>2, <4>1
    <3> QED
      BY <3>1, <3>2
  <2>3. \A p \in numbered' : p \in numbered \/ p[2] = n
    BY <1>1
  <2> QED
    BY <2>1, <2>2, <2>3
<1>13. FrontierInv'
  <2>1. frontier' \in Seq([state : Nat, of : Tuples(system')]) /\ current' \in [state : Nat, of : Tuples(system')]
    BY <1>1, <1>3, <1>9
  <2>2. <<current'.of, current'.state>> \in numbered' /\ current'.state \in Processed' /\ ~finished'
    BY <1>1, <1>3, <1>7
  <2>3. \A i \in Processed' : \E p \in numbered' : p[2] = i
    BY <1>1, <1>3, <1>7
  <2> QED
    BY <1>8, <1>9, <1>10, <1>12, <2>1, <2>2, <2>3 DEF FrontierInv
<1>14. n \in Pending' \cup Processed
  BY <1>9
<1>15. Pending' = IF n \in Processed THEN Pending ELSE Pending \cup {n}
  BY <1>9
<1> QED
  BY <1>7, <1>13, <1>14, <1>15

-----------------------------------------------------------------------------
(****************************************************************************)
(* The end, and the syntheses that follow.                                  *)
(****************************************************************************)
LEMMA FinishExplores ==
  ASSUME NumbersInv, FrontierInv, ArcsInv, Finish, Arcs' \subseteq Arcs
  PROVE  NumbersInv' /\ FrontierInv' /\ ArcsInv'
<1>1. /\ UNCHANGED <<system, tree, alphabet, frontier, bucket_list, processed_list, current, idxs, numbered>>
      /\ frontier = <<>> /\ idxs = NoIdxs
  BY DEF Finish
<1>2. NumbersInv'
  BY <1>1 DEF NumbersInv
<1>3. Pending' = Pending /\ Processed' = Processed /\ NoIdxs' = NoIdxs
  BY <1>1 DEF Pending, Processed, NoIdxs, Component
<1>4. IdxsOK(current.of, idxs)' /\ Unskipped(current.of, idxs)'
  BY <1>1, OdometerStays DEF FrontierInv
<1>5. FrontierInv'
  BY <1>1, <1>3, <1>4 DEF FrontierInv
<1>6. \A t : Comes(t) => Comes(t)'
  BY <1>1, ComesStays
<1>7. ArcsInv'
  BY <1>3, <1>6 DEF ArcsInv
<1> QED
  BY <1>2, <1>5, <1>7

ExploreInv == NumbersInv /\ FrontierInv /\ ArcsInv

LEMMA OtherStepExplores ==
  ASSUME ExploreInv, UNCHANGED <<system, tree, composition, alphabet, frontier, bucket_list, processed_list, current,
                                 idxs, finished, numbered>>
  PROVE  ExploreInv'
<1>1. NumbersInv'
  BY DEF NumbersInv, ExploreInv
<1>2. Pending' = Pending /\ Processed' = Processed /\ NoIdxs' = NoIdxs
  BY DEF Pending, Processed, NoIdxs, Component
<1>3. IdxsOK(current.of, idxs)' /\ Unskipped(current.of, idxs)'
  BY OdometerStays DEF FrontierInv, ExploreInv
<1>4. FrontierInv'
  BY <1>2, <1>3 DEF FrontierInv, ExploreInv
<1>5. \A t : Comes(t) => Comes(t)'
  BY ComesStays
<1>6. ArcsInv'
  BY <1>2, <1>5 DEF ArcsInv, ExploreInv, Arcs
<1> QED
  BY <1>1, <1>4, <1>6 DEF ExploreInv

-----------------------------------------------------------------------------
(****************************************************************************)
(* Every arc has a combination of its own, so there are no more than those. *)
(****************************************************************************)
Combined == UNION {{of} \X CombinationsOf(system, of) : of \in Tuples(system)}

LEMMA NumbersAreUnique ==
  ASSUME NumbersInv, NEW x, NEW y, NEW m, NEW n, <<x, m>> \in numbered, <<y, n>> \in numbered
  PROVE  x = y <=> m = n
<1>1. \A p, q \in numbered : p[1] = q[1] <=> p[2] = q[2]
  BY DEF NumbersInv, TableOf
<1>2. <<x, m>>[1] = <<y, n>>[1] <=> <<x, m>>[2] = <<y, n>>[2]
  BY <1>1
<1> QED
  BY <1>2

LEMMA ArcsAreFew ==
  ASSUME NumbersInv, ArcsInv, ArcsHeld
  PROVE  composition.composite_count \in Nat /\ composition.composite_count <= MaxTransitions
<1> DEFINE T == Arcs
           own == [t \in T |-> CHOOSE p \in Combined : ComesFrom(t, p[1], p[2])]
<1>1. /\ T \subseteq Arc /\ IsFiniteSet(T) /\ composition.composite_count = Cardinality(T)
      /\ \A t \in T : Comes(t)
  BY DEF ArcsInv, ArcsHeld
<1>2. /\ IsFiniteSet(Combined) /\ Cardinality(Combined) <= MaxTransitions /\ MaxTransitions \in Nat
  BY BoundsAssumption, CompositionAssumption DEF Combined, NumbersInv
<1>3. ASSUME NEW t \in T PROVE own[t] \in Combined /\ ComesFrom(t, own[t][1], own[t][2])
  <2>1. PICK of \in Tuples(system) : \E c \in Combinations(of) : ComesFrom(t, of, c)
    BY <1>1 DEF Comes
  <2>2. PICK c \in Combinations(of) : ComesFrom(t, of, c)
    BY <2>1
  <2> DEFINE p == <<of, c>>
  <2>3. p \in Combined
    BY <2>1, <2>2 DEF Combined, Combinations
  <2>4. p[1] = of /\ p[2] = c
    OBVIOUS
  <2> HIDE DEF p
  <2>5. ComesFrom(t, p[1], p[2])
    BY <2>2, <2>4
  <2> QED
    BY <2>3, <2>5
<1>4. ASSUME NEW t \in T, NEW u \in T, own[t] = own[u] PROVE t = u
  <2> DEFINE of == own[t][1]
             c == own[t][2]
  <2> HIDE DEF T
  <2>1. ComesFrom(t, of, c) /\ ComesFrom(u, of, c)
    BY <1>3, <1>4
  <2> HIDE DEF of, c
  <2>2. t.state_from = u.state_from /\ t.state_to = u.state_to
    BY <2>1, NumbersAreUnique DEF ComesFrom
  <2>3. t.signals = u.signals
    BY <2>1 DEF ComesFrom
  <2>4. t \in Arc /\ u \in Arc
    BY <1>1
  <2> QED
    BY <2>2, <2>3, <2>4 DEF Arc
<1>5. own \in [T -> Combined]
  BY <1>3
<1> HIDE DEF T, own
<1>6. own \in Injection(T, Combined)
  BY <1>4, <1>5 DEF Injection, IsInjective
<1>7. Cardinality(T) <= Cardinality(Combined)
  BY <1>2, <1>6, FS_Injection
<1>8. Cardinality(T) \in Nat /\ Cardinality(Combined) \in Nat
  BY <1>1, <1>2, FS_CardinalityType
<1> QED
  BY <1>1, <1>2, <1>7, <1>8

LEMMA TypeIsCorrect ==
  ASSUME ExploreInv, ArcsHeld
  PROVE  CompositionTypeOK
<1> USE DEF ExploreInv
<1> DEFINE E == UNION {system.automata[i].alphabet : i \in DOMAIN system.automata}
<1>1. Rising(alphabet, E) /\ E = UNION {Alphabet(i) : i \in Component}
  BY DEF NumbersInv, Alphabet, Component
<1> HIDE DEF E
<1>2. ToSet(alphabet) = UNION {Alphabet(i) : i \in Component}
  BY <1>1 DEF Rising
<1>3. \A k \in 1 .. Len(alphabet) - 1 : alphabet[k] < alphabet[k + 1]
  <2>1. Len(alphabet) \in Nat /\ \A i, k \in 1 .. Len(alphabet) : i < k => alphabet[i] < alphabet[k]
    BY <1>1, RisingFacts DEF Rising
  <2> QED
    BY <2>1
<1>4. \A i \in Component : idxs[i] \in 0 .. Len(Transitions(i, current.of[i]))
  BY DEF FrontierInv, IdxsOK, Degree, Transitions
<1>5. ASSUME NEW e, <<e.of, e.state>> \in numbered
      PROVE  \A i \in Component : e.of[i] \in DOMAIN system.automata[i].transitions
  <2>1. e.of \in Tuples(system) /\ system \in Systems
    BY <1>5 DEF NumbersInv
  <2> QED
    BY <2>1, DegreeFacts DEF States, Component
<1>6. ToSet(frontier) = {frontier[k] : k \in 1 .. Len(frontier)}
  BY DEF FrontierInv, ToSet
<1>7. \A e \in ToSet(frontier) \cup {current} : <<e.of, e.state>> \in numbered
  BY <1>6 DEF FrontierInv
<1>8. \A e \in ToSet(frontier) \cup {current} :
        /\ <<e.of, e.state>> \in numbered
        /\ \A i \in Component : e.of[i] \in DOMAIN system.automata[i].transitions
  BY <1>5, <1>7
<1>9. Entries(bucket_list) = {e.state : e \in ToSet(frontier)}
  <2>1. Buckets(bucket_list, BUCKET_SIZE, Pending) /\ BUCKET_SIZE \in Nat \ {0}
    BY CompositionAssumption DEF FrontierInv
  <2>2. Entries(bucket_list) = Pending
    <3> DEFINE P == Pending
    <3> HIDE DEF P
    <3>1. Buckets(bucket_list, BUCKET_SIZE, P)
      BY <2>1 DEF P
    <3> QED
      BY <2>1, <3>1, EntriesMean DEF P
  <2> QED
    BY <1>6, <2>2 DEF Pending
<1>10. Entries(bucket_list) \cap Processed = {} /\ Processed \subseteq 0 .. tree.max_value - 1
  <2>1. ASSUME NEW n \in Processed PROVE n \notin Pending /\ n \in 0 .. tree.max_value - 1
    <3>1. PICK p \in numbered : p[2] = n
      BY DEF FrontierInv
    <3> QED
      BY <3>1 DEF FrontierInv, NumbersInv, TableOf
  <2>2. Entries(bucket_list) = Pending
    BY <1>6, <1>9 DEF Pending
  <2> QED
    BY <2>1, <2>2
<1>11. composition.composite_count <= MaxTransitions
  BY ArcsAreFew
<1> QED
  BY <1>2, <1>3, <1>4, <1>8, <1>9, <1>10, <1>11 DEF CompositionTypeOK, Processed

LEMMA NumbersStayDistinct ==
  ASSUME KeysDistinct, ExploreInv
  PROVE  NumbersAreDistinct
<1> USE DEF ExploreInv
<1>1. \A p, q \in numbered : p[1] = q[1] <=> p[2] = q[2]
  BY DEF NumbersInv, TableOf
<1>2. ASSUME NEW p \in numbered PROVE GetState(tree, p[1]).state = p[2]
  <2> DEFINE TT == Tuples(system)
             x == p[1]
             n == GetState(tree, x).state
             q == <<x, n>>
  <2>1. TuplesOK(TT) /\ numbered \in SUBSET (TT \X Nat) /\ TableOf(tree, numbered)
    BY TuplesAreOK DEF NumbersInv
  <2> HIDE DEF TT
  <2>2. x \in TT
    BY <2>1
  <2> HIDE DEF x
  <2>3. IsGot(GetState(tree, x), tree, numbered, x)
    BY <2>1, <2>2, GetStateEffect
  <2>4. q \in numbered \/ \A r \in numbered : r[1] # x
    BY <2>3 DEF IsGot
  <2>5. q[1] = x /\ q[2] = n
    OBVIOUS
  <2> HIDE DEF q, n
  <2>6. q \in numbered
    BY <2>4 DEF x
  <2> QED
    BY <1>1, <2>5, <2>6 DEF x, n
<1> QED
  BY <1>1, <1>2 DEF NumbersAreDistinct

-----------------------------------------------------------------------------
(****************************************************************************)
(* The valuations.  M are the numbers that a transition entered, in a game: *)
(* those whose bits were set and that were put in the lists.                *)
(****************************************************************************)
Kinds == {"fluent", "liveness", "state"}
FB == FLUENT_BUCKET_SIZE

\* The numbers of M that have the valuation k.
Having(M, bits, k) == {s \in M : k \in bits[s]}

IsMarked(M, m, N) ==
  /\ M \in SUBSET (0 .. MaxStates - 1) /\ \A s \in M : \E p \in N : p[2] = s
  /\ DOMAIN m = Kinds
  /\ \A kind \in Kinds :
       /\ m[kind].bits \in [0 .. MaxStates - 1 -> SUBSET DOMAIN Named(system)[kind]]
       /\ m[kind].lists = [k \in DOMAIN Named(system)[kind] |-> m[kind].lists[k]]
       /\ \A k \in DOMAIN Named(system)[kind] :
            Buckets(m[kind].lists[k], FB, Having(M, m[kind].bits, k))
  /\ \A p \in N : p[2] \in M => \A kind \in Kinds : m[kind].bits[p[2]] = Valuations(p[1])[kind]

LEMMA NamedFacts ==
  ASSUME NumbersInv
  PROVE  /\ DOMAIN Named(system) = Kinds
         /\ \A kind \in Kinds : DOMAIN Named(system)[kind] = 1 .. Len(Named(system)[kind])
                                /\ Len(Named(system)[kind]) \in Nat
         /\ system.is_game => /\ Named(system)["fluent"] = system.fluents
                              /\ Named(system)["liveness"] = system.liveness
                              /\ Named(system)["state"] = system.vstates
         /\ ~system.is_game => \A kind \in Kinds : Named(system)[kind] = <<>>
<1>1. system \in Systems
  BY DEF NumbersInv
<1>2. DOMAIN Named(system) = Kinds
  BY DEF Named, Kinds
<1>3. /\ system.is_game => /\ Named(system)["fluent"] = system.fluents
                           /\ Named(system)["liveness"] = system.liveness
                           /\ Named(system)["state"] = system.vstates
      /\ ~system.is_game => \A kind \in Kinds : Named(system)[kind] = <<>>
  BY DEF Named, Kinds
<1>4. /\ Len(system.fluents) \in Nat /\ DOMAIN system.fluents = 1 .. Len(system.fluents)
      /\ Len(system.liveness) \in Nat /\ DOMAIN system.liveness = 1 .. Len(system.liveness)
      /\ Len(system.vstates) \in Nat /\ DOMAIN system.vstates = 1 .. Len(system.vstates)
  BY <1>1, SystemFacts
<1>5. DOMAIN <<>> = 1 .. Len(<<>>) /\ Len(<<>>) \in Nat
  OBVIOUS
<1>6. ASSUME NEW kind \in Kinds
      PROVE  DOMAIN Named(system)[kind] = 1 .. Len(Named(system)[kind]) /\ Len(Named(system)[kind]) \in Nat
  BY <1>3, <1>4, <1>5 DEF Kinds
<1> QED
  BY <1>2, <1>3, <1>6

LEMMA ValuationsAreNamed ==
  ASSUME NumbersInv, system.is_game, NEW of, NEW kind \in Kinds
  PROVE  Valuations(of)[kind] \subseteq DOMAIN Named(system)[kind]
BY NamedFacts DEF Valuations, Kinds

LEMMA ListedEffect ==
  ASSUME NEW M \in SUBSET Nat, NEW N, NEW bits \in [N -> SUBSET Nat], M \subseteq N, NEW set, NEW to \in N, to \in Nat,
         to \in M => bits[to] = set, NEW lists, NEW k \in DOMAIN lists,
         Buckets(lists[k], FB, Having(M, bits, k))
  PROVE  Buckets(Listed(lists, set, to)[k], FB, Having(M \cup {to}, [bits EXCEPT ![to] = set], k))
<1> DEFINE E == Having(M, bits, k)
           F == Having(M \cup {to}, [bits EXCEPT ![to] = set], k)
<1>1. FB \in Nat \ {0}
  BY CompositionAssumption DEF FB
<1>2. Listed(lists, set, to)[k] = IF k \in set THEN AddEntry(lists[k], to) ELSE lists[k]
  BY DEF Listed
<1>3. CASE k \in set
  <2>1. F = E \cup {to}
    BY <1>3 DEF Having
  <2> HIDE DEF E, F
  <2>2. Buckets(lists[k], FB, E)
    BY DEF E
  <2> DEFINE list == lists[k]
             n == FB
  <2> HIDE DEF list, n
  <2>3. Buckets(AddEntry(list, to), n, E \cup {to})
    BY <1>1, <2>2, AddEntryAdds DEF list, n
  <2> QED
    BY <1>2, <1>3, <2>1, <2>3 DEF list, n, F
<1>4. CASE k \notin set
  <2>1. F = E
    BY <1>4 DEF Having
  <2> HIDE DEF E, F
  <2> QED
    BY <1>2, <1>4, <2>1 DEF E, F
<1> QED
  BY <1>3, <1>4

LEMMA MarksStay ==
  ASSUME system' = system
  PROVE  /\ \A M, m, N : IsMarked(M, m, N)' <=> IsMarked(M, m, N)
         /\ \A of : Valuations(of)' = Valuations(of)
<1>1. \A of : Valuations(of)' = Valuations(of)
  BY DEF Valuations, FromLTL, Declaring, Word, Component
<1>2. \A M, m, N : IsMarked(M, m, N)' <=> IsMarked(M, m, N)
  BY <1>1 DEF IsMarked
<1> QED
  BY <1>1, <1>2

LEMMA MarkedEffect ==
  ASSUME NumbersInv, system.is_game, NEW M, NEW N, IsMarked(M, marks, N), NEW n \in 0 .. MaxStates - 1, NEW of,
         \A p, q \in N : p[2] = q[2] => p[1] = q[1],
         <<of, n>> \in N \/ \A q \in N : q[2] # n
  PROVE  IsMarked(M \cup {n}, Marked(n, of), N \cup {<<of, n>>})
<1> DEFINE new == Marked(n, of)
           m == marks
           V(kind) == Valuations(of)[kind]
           K(kind) == DOMAIN Named(system)[kind]
           States0 == 0 .. MaxStates - 1
<1>1. /\ M \in SUBSET States0 /\ (\A s \in M : \E p \in N : p[2] = s)
      /\ DOMAIN m = Kinds
      /\ \A p \in N : p[2] \in M => \A kind \in Kinds : m[kind].bits[p[2]] = Valuations(p[1])[kind]
  BY DEF IsMarked
<1>2. ASSUME NEW kind \in Kinds
      PROVE  /\ m[kind].bits \in [States0 -> SUBSET K(kind)]
             /\ m[kind].lists = [k \in K(kind) |-> m[kind].lists[k]]
             /\ \A k \in K(kind) : Buckets(m[kind].lists[k], FB, Having(M, m[kind].bits, k))
  BY DEF IsMarked
<1>3. MaxStates \in Nat
  BY CompositionAssumption
<1>4. ASSUME NEW kind \in Kinds PROVE n \in M => m[kind].bits[n] = V(kind)
  <2> DEFINE p == <<of, n>>
  <2>1. p[1] = of /\ p[2] = n
    OBVIOUS
  <2> HIDE DEF p
  <2>2. n \in M => p \in N
    BY <1>1 DEF p
  <2> QED
    BY <1>1, <2>1, <2>2
<1>5. DOMAIN new = Kinds /\ \A kind \in Kinds :
        new[kind] = [bits |-> [m[kind].bits EXCEPT ![n] = V(kind)], lists |-> Listed(m[kind].lists, V(kind), n)]
  BY <1>1 DEF Marked
<1>6. \A kind \in Kinds : V(kind) \subseteq K(kind) /\ K(kind) \subseteq Nat
  BY ValuationsAreNamed, NamedFacts
<1> HIDE DEF new, m, V, K
<1>7. ASSUME NEW kind \in Kinds
      PROVE  /\ new[kind].bits \in [States0 -> SUBSET K(kind)]
             /\ new[kind].bits = [m[kind].bits EXCEPT ![n] = V(kind)]
             /\ new[kind].lists = [k \in K(kind) |-> new[kind].lists[k]]
             /\ \A k \in K(kind) : Buckets(new[kind].lists[k], FB, Having(M \cup {n}, new[kind].bits, k))
  <2> DEFINE bits == m[kind].bits
             lists == m[kind].lists
             set == V(kind)
             D == K(kind)
  <2>1. bits \in [States0 -> SUBSET D] /\ lists = [k \in D |-> lists[k]] /\ D \subseteq Nat /\ set \subseteq D
        /\ \A k \in D : Buckets(lists[k], FB, Having(M, bits, k))
    BY <1>2, <1>6 DEF m, K
  <2>2. new[kind].bits = [bits EXCEPT ![n] = set] /\ new[kind].lists = Listed(lists, set, n)
    BY <1>5
  <2>3. n \in M => bits[n] = set
    BY <1>4 DEF m, V
  <2> HIDE DEF bits, lists, set, D
  <2>4. DOMAIN lists = D
    BY <2>1
  <2>5. DOMAIN Listed(lists, set, n) = D
    BY <2>4 DEF Listed
  <2>6. Listed(lists, set, n) = [k \in D |-> Listed(lists, set, n)[k]]
    BY <2>4 DEF Listed
  <2>7. ASSUME NEW k \in D
        PROVE  Buckets(Listed(lists, set, n)[k], FB, Having(M \cup {n}, [bits EXCEPT ![n] = set], k))
    <3>1. M \in SUBSET Nat /\ bits \in [States0 -> SUBSET Nat] /\ M \subseteq States0 /\ n \in States0 /\ n \in Nat
      BY <1>1, <1>3, <2>1
    <3>2. k \in DOMAIN lists /\ Buckets(lists[k], FB, Having(M, bits, k))
      BY <2>1, <2>4
    <3> HIDE DEF States0
    <3> QED
      BY <2>3, <3>1, <3>2, ListedEffect
  <2>8. [bits EXCEPT ![n] = set] \in [States0 -> SUBSET D]
    BY <2>1
  <2> QED
    BY <2>2, <2>6, <2>7, <2>8 DEF bits, set, D
<1>8. M \cup {n} \in SUBSET States0 /\ \A s \in M \cup {n} : \E p \in N \cup {<<of, n>>} : p[2] = s
  BY <1>1
<1>9. ASSUME NEW p \in N \cup {<<of, n>>}, p[2] \in M \cup {n}, NEW kind \in Kinds
      PROVE  new[kind].bits[p[2]] = Valuations(p[1])[kind]
  <2>1. m[kind].bits \in [States0 -> SUBSET K(kind)] /\ new[kind].bits = [m[kind].bits EXCEPT ![n] = V(kind)]
    BY <1>2, <1>7 DEF m, K
  <2>2. CASE p[2] = n
    <3>1. p[1] = of
      <4> DEFINE q == <<of, n>>
      <4>1. q[1] = of /\ q[2] = n
        OBVIOUS
      <4> HIDE DEF q
      <4> QED
        BY <1>9, <2>2, <4>1 DEF q
    <3> QED
      BY <2>1, <2>2, <3>1 DEF V
  <2>3. CASE p[2] # n
    <3>1. p \in N /\ p[2] \in M /\ p[2] \in States0
      <4>1. p = <<of, n>> => p[2] = n
        OBVIOUS
      <4> QED
        BY <1>1, <1>9, <2>3, <4>1
    <3>2. new[kind].bits[p[2]] = m[kind].bits[p[2]]
      BY <2>1, <2>3, <3>1
    <3> QED
      BY <1>1, <3>1, <3>2 DEF m
  <2> QED
    BY <2>2, <2>3
<1>10. IsMarked(M \cup {n}, new, N \cup {<<of, n>>})
  BY <1>5, <1>7, <1>8, <1>9 DEF IsMarked, K
<1> QED
  BY <1>10 DEF new

\* The liveness and the state valuations are behind the fluents.
IsMerged(now, m, fluents, liveness) ==
  /\ DOMAIN now = Kinds
  /\ now["liveness"] = m["liveness"]
  /\ now["fluent"].bits = [s \in 0 .. MaxStates - 1 |->
                            m["fluent"].bits[s] \cup {fluents + k : k \in m["liveness"].bits[s]}
                                                \cup {(fluents + liveness) + k : k \in m["state"].bits[s]}]
  /\ now["fluent"].lists = m["fluent"].lists \o m["liveness"].lists \o m["state"].lists

Unmerged == IF saved = <<>> THEN marks ELSE saved[1]
MarksInv ==
  /\ \E M : IsMarked(M, Unmerged, numbered) /\ (system.is_game => \A t \in Arcs : t.state_to \in M)
  /\ saved # <<>> => /\ finished /\ system.is_game
                     /\ saved = <<saved[1]>>
                     /\ IsMerged(marks, saved[1], Len(system.fluents), Len(system.liveness))

LEMMA InitMarks ==
  ASSUME Init, NumbersInv
  PROVE  MarksInv
<1>1. NumbersInv /\ system \in Systems
  BY DEF NumbersInv
<1>2. \A t : t \notin Arcs
  BY EmptyHasNoArcs
<1>3. saved = <<>> /\ Unmerged = marks
  BY DEF Init, Unmerged
<1>4. FB \in Nat \ {0}
  BY CompositionAssumption DEF FB
<1> DEFINE Named0 == Named(system)
           bits(kind) == [s \in 0 .. MaxStates - 1 |->
                            IF s = 0 /\ kind = "fluent"
                            THEN {f \in DOMAIN Named0[kind] : system.fluents[f].initial_valuation = 1}
                            ELSE {}]
           lists(kind) == [k \in DOMAIN Named0[kind] |-> EmptyList(FB)]
<1>5. DOMAIN Named0 = Kinds
  BY <1>1, NamedFacts
<1>6. marks = [kind \in Kinds |-> [bits |-> bits(kind), lists |-> lists(kind)]]
  BY <1>5 DEF Init, FB
<1>7. ASSUME NEW kind \in Kinds
      PROVE  /\ bits(kind) \in [0 .. MaxStates - 1 -> SUBSET DOMAIN Named0[kind]]
             /\ lists(kind) = [k \in DOMAIN Named0[kind] |-> lists(kind)[k]]
             /\ \A k \in DOMAIN Named0[kind] : lists(kind)[k] = EmptyList(FB)
  OBVIOUS
<1>8. Buckets(EmptyList(FB), FB, {}) /\ \A b, k : Having({}, b, k) = {}
  <2> DEFINE n == FB
  <2>1. n \in Nat \ {0}
    BY <1>4
  <2> HIDE DEF n
  <2>2. Buckets(EmptyList(n), n, {})
    BY <2>1, EmptyHasNothing
  <2> QED
    BY <2>2 DEF Having, n
<1> HIDE DEF bits, lists
<1>9. IsMarked({}, marks, numbered)
  <2>1. ASSUME NEW kind \in Kinds
        PROVE  /\ marks[kind].bits \in [0 .. MaxStates - 1 -> SUBSET DOMAIN Named0[kind]]
               /\ marks[kind].lists = [k \in DOMAIN Named0[kind] |-> marks[kind].lists[k]]
               /\ \A k \in DOMAIN Named0[kind] : Buckets(marks[kind].lists[k], FB, Having({}, marks[kind].bits, k))
    <3>1. marks[kind].bits = bits(kind) /\ marks[kind].lists = lists(kind)
      BY <1>6
    <3> QED
      BY <1>7, <1>8, <3>1
  <2>2. DOMAIN marks = Kinds
    BY <1>6
  <2> QED
    BY <2>1, <2>2 DEF IsMarked
<1> QED
  BY <1>2, <1>3, <1>9 DEF MarksInv

LEMMA SameMarks ==
  ASSUME MarksInv, system' = system, numbered' = numbered, marks' = marks, saved' = saved, finished => finished',
         Arcs' \subseteq Arcs
  PROVE  MarksInv'
<1>1. PICK M : IsMarked(M, Unmerged, numbered) /\ (system.is_game => \A t \in Arcs : t.state_to \in M)
  BY DEF MarksInv
<1>2. Unmerged' = Unmerged
  BY DEF Unmerged
<1>3. PICK m : m = Unmerged
  OBVIOUS
<1>4. PICK N : N = numbered
  OBVIOUS
<1>5. IsMarked(M, m, N)'
  BY <1>1, <1>3, <1>4, MarksStay
<1>6. IsMarked(M, Unmerged, numbered)'
  BY <1>2, <1>3, <1>4, <1>5 DEF IsMarked
<1>7. saved # <<>> => IsMerged(marks', saved'[1], Len(system'.fluents), Len(system'.liveness))
  BY DEF MarksInv
<1> QED
  BY <1>1, <1>6, <1>7 DEF MarksInv

LEMMA ComposeMarks ==
  ASSUME KeysDistinct, ExploreInv, MarksInv, Compose, NEW n, IsComposed(n),
         Arcs' = Arcs \cup (IF TriedIsAdded THEN {TriedArc(n)} ELSE {})
  PROVE  MarksInv'
<1>1. NumbersInv /\ FrontierInv /\ ArcsInv /\ idxs # NoIdxs
  BY DEF ExploreInv, Compose, Advance
<1>2. IsComposed(n)
  OBVIOUS
<1>3. ~finished
  BY <1>1 DEF FrontierInv
<1>4. saved = <<>> /\ saved' = <<>> /\ system' = system
  BY <1>2, <1>3 DEF MarksInv, IsComposed
<1>5. PICK M : IsMarked(M, marks, numbered) /\ (system.is_game => \A t \in Arcs : t.state_to \in M)
  BY <1>4 DEF MarksInv, Unmerged
<1>6. PICK to : to = TriedStep.state_to
  OBVIOUS
<1>7. /\ n \in 0 .. MaxStates - 1
      /\ numbered' = numbered \cup {<<to, n>>}
      /\ <<to, n>> \in numbered \/ \A q \in numbered : q[1] # to /\ q[2] # n
      /\ marks' = IF TriedIsAdded /\ system.is_game THEN Marked(n, to) ELSE marks
  BY <1>2, <1>6 DEF IsComposed
<1>8. \A p, q \in numbered : p[2] = q[2] => p[1] = q[1]
  BY <1>1 DEF NumbersInv, TableOf
<1>9. Arcs' = Arcs \cup (IF TriedIsAdded THEN {TriedArc(n)} ELSE {})
  OBVIOUS
<1>10. TriedArc(n).state_to = n
  BY DEF TriedArc
<1>11. Unmerged' = marks'
  BY <1>4 DEF Unmerged
<1>12. CASE TriedIsAdded /\ system.is_game
  <2>1. IsMarked(M \cup {n}, Marked(n, to), numbered \cup {<<to, n>>})
    BY <1>1, <1>5, <1>7, <1>8, <1>12, MarkedEffect
  <2>2. PICK m : m = Marked(n, to)
    OBVIOUS
  <2>3. PICK N : N = numbered \cup {<<to, n>>}
    OBVIOUS
  <2>4. PICK L : L = M \cup {n}
    OBVIOUS
  <2>5. IsMarked(L, m, N)'
    BY <1>4, <2>1, <2>2, <2>3, <2>4, MarksStay
  <2>6. m = Unmerged' /\ N = numbered'
    BY <1>7, <1>11, <1>12, <2>2, <2>3
  <2>7. IsMarked(L, Unmerged, numbered)'
    BY <2>5, <2>6 DEF IsMarked
  <2>8. \A t \in Arcs' : t.state_to \in L
    BY <1>5, <1>9, <1>10, <1>12, <2>4
  <2> QED
    BY <1>4, <2>7, <2>8 DEF MarksInv
<1>13. CASE ~(TriedIsAdded /\ system.is_game)
  <2>1. PICK m : m = marks
    OBVIOUS
  <2>2. PICK N : N = numbered'
    OBVIOUS
  <2>3. IsMarked(M, m, N)
    <3>1. /\ M \in SUBSET (0 .. MaxStates - 1) /\ \A s \in M : \E p \in numbered : p[2] = s
          /\ DOMAIN m = Kinds
          /\ \A kind \in Kinds :
               /\ m[kind].bits \in [0 .. MaxStates - 1 -> SUBSET DOMAIN Named(system)[kind]]
               /\ m[kind].lists = [k \in DOMAIN Named(system)[kind] |-> m[kind].lists[k]]
               /\ \A k \in DOMAIN Named(system)[kind] : Buckets(m[kind].lists[k], FB, Having(M, m[kind].bits, k))
          /\ \A p \in numbered : p[2] \in M => \A kind \in Kinds : m[kind].bits[p[2]] = Valuations(p[1])[kind]
      BY <1>5, <2>1 DEF IsMarked
    <3>2. \A p \in N : p \in numbered \/ p[2] \notin M
      <4> DEFINE q == <<to, n>>
      <4>1. q[2] = n
        OBVIOUS
      <4> HIDE DEF q
      <4>2. q \in numbered \/ n \notin M
        BY <1>7, <3>1 DEF q
      <4> QED
        BY <1>7, <2>2, <4>1, <4>2 DEF q
    <3>3. \A s \in M : \E p \in N : p[2] = s
      BY <1>7, <2>2, <3>1
    <3> QED
      BY <3>1, <3>2, <3>3 DEF IsMarked
  <2>4. IsMarked(M, m, N)'
    BY <1>4, <2>3, MarksStay
  <2>5. m = Unmerged' /\ N = numbered'
    BY <1>7, <1>11, <1>13, <2>1, <2>2
  <2>6. IsMarked(M, Unmerged, numbered)'
    BY <2>4, <2>5 DEF IsMarked
  <2>7. system.is_game => Arcs' = Arcs
    BY <1>9, <1>13
  <2>8. system'.is_game => \A t \in Arcs' : t.state_to \in M
    BY <1>4, <1>5, <2>7
  <2> QED
    BY <1>4, <2>6, <2>8 DEF MarksInv
<1> QED
  BY <1>12, <1>13

LEMMA MergeMarks ==
  ASSUME ExploreInv, MarksInv, Merge
  PROVE  MarksInv'
<1>1. /\ saved = <<>> /\ saved' = <<marks>> /\ finished
      /\ marks' = [marks EXCEPT !.fluent = Merged, !.state.bits = [s \in DOMAIN @ |-> {}]]
      /\ UNCHANGED <<system, numbered, composition, finished>>
      /\ marks.liveness.lists # <<>> \/ marks.state.lists # <<>>
  BY DEF Merge
<1>2. PICK M : IsMarked(M, marks, numbered) /\ (system.is_game => \A t \in Arcs : t.state_to \in M)
  BY <1>1 DEF MarksInv, Unmerged
<1>3. Unmerged' = marks /\ saved'[1] = marks /\ saved' # <<>>
  BY <1>1 DEF Unmerged
<1>4. system.is_game
  <2>1. \A kind \in Kinds : marks[kind].lists = [k \in DOMAIN Named(system)[kind] |-> marks[kind].lists[k]]
    BY <1>2 DEF IsMarked
  <2>2. ASSUME ~system.is_game, NEW kind \in Kinds PROVE marks[kind].lists = <<>>
    <3>1. PICK D : D = DOMAIN Named(system)[kind]
      OBVIOUS
    <3>2. PICK lists : lists = marks[kind].lists
      OBVIOUS
    <3>3. D = {}
      BY <2>2, <3>1, NamedFacts DEF ExploreInv
    <3>4. lists = [k \in D |-> lists[k]]
      BY <2>1, <3>1, <3>2
    <3>5. <<>> = [k \in 1 .. 0 |-> lists[k]] /\ 1 .. 0 = {}
      OBVIOUS
    <3> QED
      BY <3>2, <3>3, <3>4, <3>5
  <2> QED
    BY <1>1, <2>2 DEF Kinds
<1>5. DOMAIN marks = Kinds
  BY <1>2 DEF IsMarked
<1>6. DOMAIN marks' = Kinds /\ marks'["liveness"] = marks["liveness"] /\ marks'["fluent"] = Merged
  BY <1>1, <1>5 DEF Kinds
<1>7. IsMerged(marks', saved'[1], Len(system'.fluents), Len(system'.liveness))
  <2>1. PICK f : f = Len(system.fluents)
    OBVIOUS
  <2>2. PICK l : l = Len(system.liveness)
    OBVIOUS
  <2>3. PICK now : now = marks'
    OBVIOUS
  <2> DEFINE bits == [s \in 0 .. MaxStates - 1 |->
                        marks["fluent"].bits[s] \cup {f + k : k \in marks["liveness"].bits[s]}
                                                \cup {(f + l) + k : k \in marks["state"].bits[s]}]
             lists == marks["fluent"].lists \o marks["liveness"].lists \o marks["state"].lists
  <2>4. Merged = [bits |-> bits, lists |-> lists]
    BY <2>1, <2>2 DEF Merged
  <2>5. IsMerged(now, marks, f, l)
    <3>1. now["fluent"].bits = bits /\ now["fluent"].lists = lists
      <4> HIDE DEF bits, lists
      <4> QED
        BY <1>6, <2>3, <2>4
    <3> QED
      BY <1>6, <2>3, <3>1, Zenon DEF IsMerged, bits, lists
  <2>6. Len(system'.fluents) = f /\ Len(system'.liveness) = l
    BY <1>1, <2>1, <2>2
  <2>7. IsMerged(now, marks, f, l) => IsMerged(now, saved'[1], f, l)
    BY <1>3
  <2> QED
    BY <2>3, <2>5, <2>6, <2>7
<1>8. PICK m : m = marks
  OBVIOUS
<1>9. PICK N : N = numbered
  OBVIOUS
<1>10. IsMarked(M, m, N)'
  BY <1>1, <1>2, <1>8, <1>9, MarksStay
<1>11. IsMarked(M, Unmerged, numbered)'
  BY <1>1, <1>3, <1>8, <1>9, <1>10 DEF IsMarked
<1>12. Arcs' = Arcs
  BY <1>1 DEF Arcs
<1> QED
  BY <1>1, <1>2, <1>3, <1>4, <1>7, <1>11, <1>12 DEF MarksInv

LEMMA RestoreMarks ==
  ASSUME MarksInv, Restore
  PROVE  MarksInv'
<1>1. saved # <<>> /\ marks' = Head(saved) /\ saved' = <<>> /\ UNCHANGED <<system, numbered, composition, finished>>
  BY DEF Restore
<1>2. Unmerged' = Unmerged
  BY <1>1 DEF Unmerged, Head, MarksInv
<1>3. PICK M : IsMarked(M, Unmerged, numbered) /\ (system.is_game => \A t \in Arcs : t.state_to \in M)
  BY DEF MarksInv
<1>4. PICK m : m = Unmerged
  OBVIOUS
<1>5. PICK N : N = numbered
  OBVIOUS
<1>6. IsMarked(M, m, N)'
  BY <1>1, <1>3, <1>4, <1>5, MarksStay
<1>7. IsMarked(M, Unmerged, numbered)'
  BY <1>1, <1>2, <1>4, <1>5, <1>6 DEF IsMarked
<1>8. Arcs' = Arcs
  BY <1>1 DEF Arcs
<1> QED
  BY <1>1, <1>3, <1>7, <1>8 DEF MarksInv

LEMMA ThreeLists ==
  ASSUME NEW f \in Nat, NEW l \in Nat, NEW v \in Nat, NEW a, NEW b, NEW c,
         a = [k \in 1 .. f |-> a[k]], b = [k \in 1 .. l |-> b[k]], c = [k \in 1 .. v |-> c[k]]
  PROVE  /\ DOMAIN (a \o b \o c) = 1 .. (f + l) + v
         /\ \A k \in 1 .. f : (a \o b \o c)[k] = a[k]
         /\ \A k \in 1 .. l : (a \o b \o c)[f + k] = b[k]
         /\ \A k \in 1 .. v : (a \o b \o c)[(f + l) + k] = c[k]
<1> DEFINE S == {a[k] : k \in 1 .. f} \cup {b[k] : k \in 1 .. l} \cup {c[k] : k \in 1 .. v}
           ab == a \o b
<1>1. a \in [1 .. f -> S] /\ b \in [1 .. l -> S] /\ c \in [1 .. v -> S]
  OBVIOUS
<1> HIDE DEF S
<1>2. a \in Seq(S) /\ Len(a) = f /\ b \in Seq(S) /\ Len(b) = l /\ c \in Seq(S) /\ Len(c) = v
  BY <1>1
<1>3. ab \in Seq(S) /\ Len(ab) = f + l /\ \A k \in 1 .. f + l : ab[k] = IF k <= f THEN a[k] ELSE b[k - f]
  BY <1>2, ConcatProperties
<1>4. /\ ab \o c \in Seq(S) /\ Len(ab \o c) = (f + l) + v
      /\ \A k \in 1 .. (f + l) + v : (ab \o c)[k] = IF k <= f + l THEN ab[k] ELSE c[k - (f + l)]
  <2> HIDE DEF ab
  <2> QED
    BY <1>2, <1>3, ConcatProperties
<1> HIDE DEF ab
<1>5. DOMAIN (ab \o c) = 1 .. (f + l) + v
  BY <1>4, LenProperties
<1>6. \A k \in 1 .. f : (ab \o c)[k] = a[k]
  <2> SUFFICES ASSUME NEW k \in 1 .. f PROVE (ab \o c)[k] = a[k]
    OBVIOUS
  <2>1. k \in 1 .. f + l /\ k \in 1 .. (f + l) + v /\ k <= f + l /\ k <= f
    OBVIOUS
  <2> QED
    BY <1>3, <1>4, <2>1
<1>7. \A k \in 1 .. l : (ab \o c)[f + k] = b[k]
  <2> SUFFICES ASSUME NEW k \in 1 .. l PROVE (ab \o c)[f + k] = b[k]
    OBVIOUS
  <2>1. f + k \in 1 .. f + l /\ f + k \in 1 .. (f + l) + v /\ f + k <= f + l /\ ~(f + k <= f) /\ (f + k) - f = k
    OBVIOUS
  <2> QED
    BY <1>3, <1>4, <2>1
<1>8. \A k \in 1 .. v : (ab \o c)[(f + l) + k] = c[k]
  <2> SUFFICES ASSUME NEW k \in 1 .. v PROVE (ab \o c)[(f + l) + k] = c[k]
    OBVIOUS
  <2>1. (f + l) + k \in 1 .. (f + l) + v /\ ~((f + l) + k <= f + l) /\ ((f + l) + k) - (f + l) = k
    OBVIOUS
  <2> QED
    BY <1>4, <2>1
<1> QED
  BY <1>5, <1>6, <1>7, <1>8 DEF ab

LEMMA ThreeSets ==
  ASSUME NEW f \in Nat, NEW l \in Nat, NEW v \in Nat, NEW A \in SUBSET (1 .. f), NEW B \in SUBSET (1 .. l),
         NEW C \in SUBSET (1 .. v), NEW set, set = A \cup {f + k : k \in B} \cup {(f + l) + k : k \in C}
  PROVE  /\ \A k \in 1 .. f : k \in set <=> k \in A
         /\ \A k \in 1 .. l : f + k \in set <=> k \in B
         /\ \A k \in 1 .. v : (f + l) + k \in set <=> k \in C
OBVIOUS

Entered == {s \in 0 .. MaxStates - 1 : Aut!In(composition, s) # <<>>}

\* A list agrees with the bits on the states that are entered, and its count is right.
Agreeing(list, bits, k) ==
  /\ Entries(list) \cap Entered = {s \in Entered : k \in bits[s]}
  /\ list.composite_count = Cardinality(Entries(list))

LEMMA EnteredByArc ==
  ASSUME ArcsHeld, NEW s \in Entered
  PROVE  \E t \in Arcs : t.state_to = s
BY DEF Entered, ArcsHeld, Aut!In

LEMMA UnmergedAgree ==
  ASSUME ExploreInv, ArcsHeld, MarksInv, NEW kind \in Kinds, NEW k \in DOMAIN Unmerged[kind].lists
  PROVE  Agreeing(Unmerged[kind].lists[k], Unmerged[kind].bits, k)
<1>1. PICK M : IsMarked(M, Unmerged, numbered) /\ (system.is_game => \A t \in Arcs : t.state_to \in M)
  BY DEF MarksInv
<1>2. PICK lists : lists = Unmerged[kind].lists
  OBVIOUS
<1>3. PICK bits : bits = Unmerged[kind].bits
  OBVIOUS
<1>4. PICK D : D = DOMAIN Named(system)[kind]
  OBVIOUS
<1>5. lists = [j \in D |-> lists[j]] /\ \A j \in D : Buckets(lists[j], FB, Having(M, bits, j))
  BY <1>1, <1>2, <1>3, <1>4 DEF IsMarked
<1>6. k \in D
  BY <1>2, <1>5
<1>7. system.is_game
  BY <1>4, <1>6, NamedFacts DEF ExploreInv
<1>8. Entered \subseteq M
  BY <1>1, <1>7, EnteredByArc
<1>9. Buckets(lists[k], FB, Having(M, bits, k)) /\ FB \in Nat \ {0}
  BY <1>5, <1>6, CompositionAssumption DEF FB
<1>10. Entries(lists[k]) = Having(M, bits, k) /\ lists[k].composite_count = Cardinality(Having(M, bits, k))
  <2> DEFINE E == Having(M, bits, k)
             n == FB
             list == lists[k]
  <2> HIDE DEF E, n, list
  <2>1. Buckets(list, n, E) /\ n \in Nat \ {0}
    BY <1>9 DEF E, n, list
  <2>2. Entries(list) = E /\ list.composite_count = Cardinality(E)
    BY <2>1, EntriesMean
  <2> QED
    BY <2>2 DEF E, list
<1>11. Having(M, bits, k) \cap Entered = {s \in Entered : k \in bits[s]}
  BY <1>8 DEF Having
<1> QED
  BY <1>2, <1>3, <1>10, <1>11 DEF Agreeing

LEMMA MergedAgree ==
  ASSUME ExploreInv, ArcsHeld, MarksInv, saved # <<>>, NEW k \in DOMAIN marks["fluent"].lists
  PROVE  Agreeing(marks["fluent"].lists[k], marks["fluent"].bits, k)
<1>1. PICK m : m = saved[1]
  OBVIOUS
<1>2. Unmerged = m /\ system.is_game /\ IsMerged(marks, m, Len(system.fluents), Len(system.liveness))
  BY <1>1 DEF MarksInv, Unmerged
<1>3. PICK M : IsMarked(M, m, numbered)
  BY <1>2 DEF MarksInv
<1> DEFINE f == Len(system.fluents)
           l == Len(system.liveness)
           v == Len(system.vstates)
           D(kind) == DOMAIN Named(system)[kind]
           list(kind) == m[kind].lists
           set(kind, s) == m[kind].bits[s]
<1>4. f \in Nat /\ l \in Nat /\ v \in Nat /\ D("fluent") = 1 .. f /\ D("liveness") = 1 .. l /\ D("state") = 1 .. v
  BY <1>2, NamedFacts DEF ExploreInv, Kinds
<1>5. \A kind \in Kinds : /\ m[kind].bits \in [0 .. MaxStates - 1 -> SUBSET D(kind)]
                          /\ list(kind) = [j \in D(kind) |-> list(kind)[j]]
  BY <1>3 DEF IsMarked
<1>6. /\ marks["fluent"].lists = list("fluent") \o list("liveness") \o list("state")
      /\ \A s \in 0 .. MaxStates - 1 :
           marks["fluent"].bits[s] = set("fluent", s) \cup {f + j : j \in set("liveness", s)}
                                                      \cup {(f + l) + j : j \in set("state", s)}
  BY <1>2 DEF IsMerged
<1>7. ASSUME NEW kind \in Kinds, NEW j \in D(kind) PROVE Agreeing(list(kind)[j], m[kind].bits, j)
  <2>1. j \in DOMAIN Unmerged[kind].lists
    BY <1>2, <1>5
  <2> QED
    BY <1>2, <2>1, UnmergedAgree
<1>8. PICK all : all = marks["fluent"].lists
  OBVIOUS
<1>9. PICK bits : bits = marks["fluent"].bits
  OBVIOUS
<1> HIDE DEF f, l, v, D, list, set
<1>10. /\ DOMAIN all = 1 .. (f + l) + v
       /\ \A j \in 1 .. f : all[j] = list("fluent")[j]
       /\ \A j \in 1 .. l : all[f + j] = list("liveness")[j]
       /\ \A j \in 1 .. v : all[(f + l) + j] = list("state")[j]
  <2> DEFINE a == list("fluent")
             b == list("liveness")
             c == list("state")
  <2>1. a = [j \in 1 .. f |-> a[j]] /\ b = [j \in 1 .. l |-> b[j]] /\ c = [j \in 1 .. v |-> c[j]]
    BY <1>4, <1>5 DEF Kinds
  <2>2. all = a \o b \o c
    BY <1>6, <1>8
  <2> HIDE DEF a, b, c
  <2>3. /\ DOMAIN all = 1 .. (f + l) + v
        /\ \A j \in 1 .. f : all[j] = a[j]
        /\ \A j \in 1 .. l : all[f + j] = b[j]
        /\ \A j \in 1 .. v : all[(f + l) + j] = c[j]
    BY <1>4, <2>1, <2>2, ThreeLists
  <2> QED
    BY <2>3 DEF a, b, c
<1>11. ASSUME NEW s \in 0 .. MaxStates - 1
       PROVE  /\ \A j \in 1 .. f : j \in bits[s] <=> j \in set("fluent", s)
              /\ \A j \in 1 .. l : f + j \in bits[s] <=> j \in set("liveness", s)
              /\ \A j \in 1 .. v : (f + l) + j \in bits[s] <=> j \in set("state", s)
  <2> DEFINE A == set("fluent", s)
             B == set("liveness", s)
             C == set("state", s)
             all0 == bits[s]
  <2>1. A \in SUBSET (1 .. f) /\ B \in SUBSET (1 .. l) /\ C \in SUBSET (1 .. v)
    BY <1>4, <1>5 DEF set, Kinds
  <2>2. all0 = A \cup {f + j : j \in B} \cup {(f + l) + j : j \in C}
    BY <1>6, <1>9
  <2> HIDE DEF A, B, C, all0
  <2>3. /\ \A j \in 1 .. f : j \in all0 <=> j \in A
        /\ \A j \in 1 .. l : f + j \in all0 <=> j \in B
        /\ \A j \in 1 .. v : (f + l) + j \in all0 <=> j \in C
    BY <1>4, <2>1, <2>2, ThreeSets
  <2> QED
    BY <2>3 DEF A, B, C, all0
<1>12. ASSUME NEW kind \in Kinds, NEW j \in D(kind), NEW i, all[i] = list(kind)[j],
              \A s \in 0 .. MaxStates - 1 : i \in bits[s] <=> j \in set(kind, s)
       PROVE  Agreeing(all[i], bits, i)
  <2>1. Agreeing(all[i], m[kind].bits, j)
    BY <1>7, <1>12
  <2>2. {s \in Entered : i \in bits[s]} = {s \in Entered : j \in m[kind].bits[s]}
    BY <1>12 DEF Entered, set
  <2> QED
    BY <2>1, <2>2 DEF Agreeing
<1>13. k \in 1 .. (f + l) + v
  BY <1>8, <1>10
<1>14. CASE k \in 1 .. f
  BY <1>4, <1>10, <1>11, <1>12, <1>14, <1>8, <1>9 DEF Kinds
<1>15. CASE k \in f + 1 .. f + l
  <2>1. PICK j \in 1 .. l : f + j = k
    <3>1. k - f \in 1 .. l /\ f + (k - f) = k
      BY <1>4, <1>15
    <3> QED
      BY <3>1
  <2>2. j \in D("liveness") /\ "liveness" \in Kinds
    BY <1>4, <2>1 DEF Kinds
  <2>3. all[k] = list("liveness")[j] /\ \A s \in 0 .. MaxStates - 1 : k \in bits[s] <=> j \in set("liveness", s)
    BY <1>10, <1>11, <2>1
  <2>4. Agreeing(all[k], bits, k)
    BY <1>12, <2>2, <2>3
  <2> QED
    BY <1>8, <1>9, <2>4
<1>16. CASE k \in (f + l) + 1 .. (f + l) + v
  <2>1. PICK j \in 1 .. v : (f + l) + j = k
    <3>1. k - (f + l) \in 1 .. v /\ (f + l) + (k - (f + l)) = k
      BY <1>4, <1>16
    <3> QED
      BY <3>1
  <2>2. j \in D("state") /\ "state" \in Kinds
    BY <1>4, <2>1 DEF Kinds
  <2>3. all[k] = list("state")[j] /\ \A s \in 0 .. MaxStates - 1 : k \in bits[s] <=> j \in set("state", s)
    BY <1>10, <1>11, <2>1
  <2>4. Agreeing(all[k], bits, k)
    BY <1>12, <2>2, <2>3
  <2> QED
    BY <1>8, <1>9, <2>4
<1> QED
  BY <1>4, <1>13, <1>14, <1>15, <1>16

LEMMA MarkedListsAgree ==
  ASSUME ExploreInv, ArcsHeld, MarksInv
  PROVE  ListsAgree
<1> SUFFICES ASSUME ExploreInv, MarksInv,
                    NEW kind \in DOMAIN marks \ (IF saved = <<>> THEN {} ELSE {"state"}),
                    NEW k \in DOMAIN marks[kind].lists
             PROVE  Agreeing(marks[kind].lists[k], marks[kind].bits, k)
  BY DEF ListsAgree, Agreeing, Entered
<1>1. DOMAIN Unmerged = Kinds
  BY DEF MarksInv, IsMarked
<1>2. CASE saved = <<>>
  <2>1. Unmerged = marks /\ kind \in Kinds
    BY <1>1, <1>2 DEF Unmerged
  <2> QED
    BY <2>1, UnmergedAgree
<1>3. CASE saved # <<>>
  <2>1. PICK m : m = saved[1]
    OBVIOUS
  <2>2. DOMAIN marks = Kinds /\ marks["liveness"] = m["liveness"] /\ Unmerged = m
    BY <1>3, <2>1 DEF MarksInv, IsMerged, Unmerged
  <2>3. kind = "liveness" \/ kind = "fluent"
    BY <1>3, <2>2 DEF Kinds
  <2>4. CASE kind = "fluent"
    BY <1>3, <2>4, MergedAgree
  <2>5. CASE kind = "liveness"
    <3>1. kind \in Kinds /\ marks[kind] = Unmerged[kind]
      BY <2>2, <2>5 DEF Kinds
    <3> QED
      BY <3>1, UnmergedAgree
  <2> QED
    BY <2>3, <2>4, <2>5
<1> QED
  BY <1>2, <1>3

-----------------------------------------------------------------------------
(****************************************************************************)
(* The composition is the product.  T are the arcs of the exploration, all  *)
(* that were made; the end may remove some of them.                         *)
(****************************************************************************)
AllSteps == UNION {StepsFrom(of) : of \in Tuples(system)}
ClosedUnder(steps, S) ==
  InitialTuple(system) \in S /\ \A t \in steps : t.state_from \in S => t.state_to \in S

\* A combination that was tried, of the state with number n, and the arc that was made of it.
Tried(n, c) == n # current.state \/ idxs = NoIdxs \/ Precedes(c, idxs)
Made(T, of, n, c) ==
  \E m \in Nat :
    /\ <<StepOf(of, c).state_to, m>> \in numbered
    /\ IsConsistent(of) /\ IsConsistent(StepOf(of, c).state_to)
         => [state_from |-> n, state_to |-> m, signals |-> StepOf(of, c).signals] \in T
AllMade(T) ==
  \A of \in Tuples(system), n \in Processed :
    <<of, n>> \in numbered =>
      \A c \in Combinations(of) : IsStep(of, c) /\ Tried(n, c) => Made(T, of, n, c)

RootedInv == \A S : ClosedUnder(AllSteps, S) => \A p \in numbered : p[1] \in S

LEMMA AllStepsStay ==
  ASSUME system' = system
  PROVE  AllSteps' = AllSteps /\ \A steps, S : ClosedUnder(steps, S)' <=> ClosedUnder(steps, S)
<1>1. \A of : StepsFrom(of)' = StepsFrom(of)
  BY StepsStay DEF StepsFrom
<1> QED
  BY <1>1 DEF AllSteps, ClosedUnder

LEMMA MadeStays ==
  ASSUME system' = system, numbered \subseteq numbered', NEW T, NEW U, T \subseteq U, NEW of, NEW n, NEW c,
         Made(T, of, n, c)
  PROVE  Made(U, of, n, c)'
<1>1. PICK m \in Nat :
        /\ <<StepOf(of, c).state_to, m>> \in numbered
        /\ IsConsistent(of) /\ IsConsistent(StepOf(of, c).state_to)
             => [state_from |-> n, state_to |-> m, signals |-> StepOf(of, c).signals] \in T
  BY DEF Made
<1> DEFINE t == StepOf(of, c)
<1>2. t' = t /\ (IsConsistent(of)' <=> IsConsistent(of))
  BY StepsStay
<1>3. PICK u : u = t
  OBVIOUS
<1>4. t' = u /\ (IsConsistent(u.state_to)' <=> IsConsistent(u.state_to))
  BY <1>2, <1>3, StepsStay
<1>5. /\ <<u.state_to, m>> \in numbered'
      /\ IsConsistent(of)' /\ IsConsistent(u.state_to)'
           => [state_from |-> n, state_to |-> m, signals |-> u.signals] \in U
  BY <1>1, <1>2, <1>3, <1>4
<1> QED
  BY <1>4, <1>5 DEF Made

\* What is made of the combinations that were tried before stays made.
LEMMA AllMadeStays ==
  ASSUME system' = system, numbered \subseteq numbered', NEW T, NEW U, T \subseteq U, AllMade(T),
         \A of \in Tuples(system), n \in Processed' : \A c \in Combinations(of) :
           <<of, n>> \in numbered' /\ IsStep(of, c) /\ Tried(n, c)'
             => \/ n \in Processed /\ <<of, n>> \in numbered /\ Tried(n, c)
                \/ Made(U, of, n, c)'
  PROVE  AllMade(U)'
<1>1. ASSUME NEW of \in Tuples(system), NEW n \in Processed', NEW c \in Combinations(of),
             <<of, n>> \in numbered', IsStep(of, c), Tried(n, c)'
      PROVE  Made(U, of, n, c)'
  <2>1. \/ n \in Processed /\ <<of, n>> \in numbered /\ Tried(n, c)
        \/ Made(U, of, n, c)'
    BY <1>1
  <2>2. CASE n \in Processed /\ <<of, n>> \in numbered /\ Tried(n, c)
    <3>1. Made(T, of, n, c)
      BY <1>1, <2>2 DEF AllMade
    <3> QED
      BY <3>1, MadeStays
  <2> QED
    BY <2>1, <2>2
<1>2. /\ Tuples(system)' = Tuples(system) /\ \A of : Combinations(of)' = Combinations(of)
      /\ \A of, c : IsStep(of, c)' <=> IsStep(of, c)
  BY StepsStay
<1> QED
  BY <1>1, <1>2 DEF AllMade

LEMMA RootedStays ==
  ASSUME system' = system, RootedInv,
         \A S : ClosedUnder(AllSteps, S) /\ (\A p \in numbered : p[1] \in S) => \A p \in numbered' : p[1] \in S
  PROVE  RootedInv'
BY AllStepsStay DEF RootedInv

LEMMA InitMade ==
  ASSUME KeysDistinct, Init
  PROVE  AllMade(Arcs) /\ RootedInv
<1>1. Processed = {}
  <2>1. BUCKET_SIZE \in Nat \ {0} /\ processed_list = EmptyList(BUCKET_SIZE)
    BY CompositionAssumption DEF Init
  <2>2. Buckets(processed_list, BUCKET_SIZE, {})
    BY <2>1, EmptyHasNothing
  <2> QED
    BY <2>1, <2>2, EntriesMean DEF Processed
<1>2. \A p \in numbered : p[1] = InitialTuple(system)
  BY DEF Init
<1> QED
  BY <1>1, <1>2 DEF AllMade, RootedInv, ClosedUnder

LEMMA PopMade ==
  ASSUME NumbersInv, FrontierInv, ArcsInv, ArcsHeld, AllMade(Arcs), Pop
  PROVE  AllMade(Arcs)'
<1> DEFINE top == frontier[Len(frontier)]
<1>1. UNCHANGED <<system, composition, numbered>>
  BY DEF Pop
<1>2. /\ top.state \notin Processed /\ top.of \in Tuples(system) /\ <<top.of, top.state>> \in numbered
      /\ Processed' = Processed \cup {top.state}
      /\ current' = top /\ idxs' = IncrementIdxs(top.of, NoIdxs) /\ idxs = NoIdxs
  BY PopEffect
<1> HIDE DEF top
<1>3. Arcs' = Arcs
  BY <1>1 DEF Arcs
<1>4. system \in Systems
  BY DEF NumbersInv
<1>5. ASSUME NEW of \in Tuples(system), NEW n \in Processed', NEW c \in Combinations(of),
             <<of, n>> \in numbered', IsStep(of, c), Tried(n, c)'
      PROVE  n \in Processed
  <2>1. SUFFICES ASSUME n = top.state PROVE FALSE
    BY <1>2
  <2>2. of = top.of
    BY <1>1, <1>2, <1>5, <2>1, NumbersAreUnique
  <2>3. idxs' = NoIdxs \/ Precedes(c, idxs')
    <3>1. NoIdxs' = NoIdxs /\ (Precedes(c, idxs)' <=> Precedes(c, idxs'))
      BY <1>1, StepsStay DEF Precedes, Component
    <3> QED
      BY <1>2, <1>5, <2>1, <3>1 DEF Tried
  <2>4. IdxsOK(of, c) /\ c # NoIdxs
    BY <1>4, CombinationIsIdxs
  <2>5. Unskipped(of, c)
    BY <1>4, <1>5, <2>4, StepIsUnskipped
  <2>6. IdxsOK(of, NoIdxs) /\ Unskipped(of, NoIdxs) /\ ~ Precedes(c, NoIdxs)
    BY <1>4, <2>4, NoIdxsIsFirst
  <2>7. c = NoIdxs \/ Precedes(c, NoIdxs)
    BY <1>2, <1>4, <2>2, <2>3, <2>4, <2>5, <2>6, IncrementEffect
  <2> QED
    BY <2>4, <2>6, <2>7
<1>6. \A n, c : Tried(n, c)
  BY <1>2 DEF Tried
<1>7. \A of \in Tuples(system), n \in Processed' : \A c \in Combinations(of) :
        <<of, n>> \in numbered' /\ IsStep(of, c) /\ Tried(n, c)'
          => n \in Processed /\ <<of, n>> \in numbered /\ Tried(n, c)
  BY <1>1, <1>5, <1>6
<1> DEFINE T == Arcs
<1>8. PICK U : U = Arcs
  OBVIOUS
<1>9. AllMade(U)'
  BY <1>1, <1>7, <1>8, AllMadeStays
<1> QED
  BY <1>3, <1>8, <1>9

\* The combinations of the explored state that precede the next one are those that preceded
\* this one, and this one.
LEMMA AdvanceTries ==
  ASSUME NumbersInv, FrontierInv, system' = system, numbered' \subseteq numbered \cup {p \in numbered' : p[2] \notin Processed},
         Processed' = Processed, current' = current, idxs # NoIdxs, idxs' = IncrementIdxs(current.of, idxs),
         NEW of \in Tuples(system), NEW n \in Processed', NEW c \in Combinations(of),
         <<of, n>> \in numbered', IsStep(of, c), Tried(n, c)'
  PROVE  /\ n \in Processed /\ <<of, n>> \in numbered
         /\ Tried(n, c) \/ (of = current.of /\ n = current.state /\ c = idxs)
<1>1. system \in Systems /\ <<current.of, current.state>> \in numbered
  BY DEF NumbersInv, FrontierInv
<1>2. n \in Processed /\ <<of, n>> \in numbered
  <2> DEFINE p == <<of, n>>
  <2>1. p[2] = n
    OBVIOUS
  <2> HIDE DEF p
  <2>2. p \in numbered' => p \in numbered
    BY <2>1
  <2> QED
    BY <2>2 DEF p
<1>3. CASE n = current.state
  <2>1. of = current.of
    BY <1>1, <1>2, <1>3, NumbersAreUnique
  <2>2. idxs' = NoIdxs \/ Precedes(c, idxs')
    <3>1. NoIdxs' = NoIdxs /\ (Precedes(c, idxs)' <=> Precedes(c, idxs'))
      BY StepsStay DEF Precedes, Component
    <3> QED
      BY <1>3, <3>1 DEF Tried
  <2>3. IdxsOK(of, c) /\ Unskipped(of, c)
    BY <1>1, CombinationIsIdxs, StepIsUnskipped
  <2>4. c = idxs \/ Precedes(c, idxs)
    BY <2>1, <2>2, <2>3, AdvanceFacts
  <2> QED
    BY <1>2, <1>3, <2>1, <2>4 DEF Tried
<1>4. CASE n # current.state
  BY <1>2, <1>4 DEF Tried
<1> QED
  BY <1>3, <1>4

LEMMA BlockMade ==
  ASSUME NumbersInv, FrontierInv, AllMade(Arcs), Block
  PROVE  AllMade(Arcs)'
<1>1. /\ UNCHANGED <<system, composition, processed_list, current, numbered>>
      /\ idxs # NoIdxs /\ idxs' = IncrementIdxs(current.of, idxs) /\ ~Viable
  BY DEF Block, Advance
<1>2. Processed' = Processed /\ Arcs' = Arcs
  BY <1>1 DEF Processed, Arcs
<1>3. ~ IsStep(current.of, idxs)
  BY <1>1, FrontierFacts, ViableIsStep DEF NumbersInv, FrontierInv
<1>4. \A of \in Tuples(system), n \in Processed' : \A c \in Combinations(of) :
        <<of, n>> \in numbered' /\ IsStep(of, c) /\ Tried(n, c)'
          => n \in Processed /\ <<of, n>> \in numbered /\ Tried(n, c)
  BY <1>1, <1>2, <1>3, AdvanceTries
<1>5. PICK U : U = Arcs
  OBVIOUS
<1>6. AllMade(U)'
  BY <1>1, <1>4, <1>5, AllMadeStays
<1> QED
  BY <1>2, <1>5, <1>6

LEMMA ComposeMade ==
  ASSUME KeysDistinct, NumbersInv, FrontierInv, AllMade(Arcs), RootedInv, idxs # NoIdxs, NEW n, IsComposed(n),
         Arcs' = Arcs \cup (IF TriedIsAdded THEN {TriedArc(n)} ELSE {})
  PROVE  AllMade(Arcs)' /\ RootedInv'
<1> DEFINE to == TriedStep.state_to
           p == <<to, n>>
<1>1. /\ UNCHANGED <<system, processed_list, current>> /\ idxs' = IncrementIdxs(current.of, idxs)
      /\ numbered' = numbered \cup {p}
      /\ p \in numbered \/ \A q \in numbered : q[1] # to /\ q[2] # n
      /\ IsStep(current.of, idxs) /\ idxs \in Combinations(current.of) /\ n \in Nat
  <2>1. n \in Nat
    BY FrontierFacts DEF IsComposed
  <2> QED
    BY <2>1 DEF IsComposed
<1>2. p[1] = to /\ p[2] = n
  OBVIOUS
<1>3. /\ system \in Systems /\ current.of \in Tuples(system) /\ <<current.of, current.state>> \in numbered
      /\ \A m \in Processed : \E q \in numbered : q[2] = m
  BY FrontierFacts DEF NumbersInv, FrontierInv
<1>4. Processed' = Processed
  BY <1>1 DEF Processed
<1>5. TriedStep = StepOf(current.of, idxs)
  BY DEF TriedStep
<1>6. AllMade(Arcs)'
  <2> HIDE DEF p, to
  <2>1. p \in numbered \/ p[2] \notin Processed
    BY <1>1, <1>2, <1>3
  <2>2. numbered' \subseteq numbered \cup {q \in numbered' : q[2] \notin Processed}
    BY <1>1, <2>1
  <2>3. PICK T : T = Arcs
    OBVIOUS
  <2>4. PICK U : U = Arcs'
    OBVIOUS
  <2>5. PICK of : of = current.of
    OBVIOUS
  <2>6. PICK c : c = idxs
    OBVIOUS
  <2>7. PICK k : k = current.state
    OBVIOUS
  <2>8. Made(U, of, k, c)'
    <3>1. PICK t : t = StepOf(of, c)
      OBVIOUS
    <3>2. <<t.state_to, n>> \in numbered'
      BY <1>1, <1>5, <2>5, <2>6, <3>1 DEF p, to
    <3>3. IsConsistent(of) /\ IsConsistent(t.state_to)
            => [state_from |-> k, state_to |-> n, signals |-> t.signals] \in U
      BY <1>5, <2>4, <2>5, <2>6, <2>7, <3>1 DEF TriedIsAdded, TriedArc
    <3>4. StepOf(of, c)' = t /\ (IsConsistent(of)' <=> IsConsistent(of))
          /\ (IsConsistent(t.state_to)' <=> IsConsistent(t.state_to))
      BY <1>1, <3>1, StepsStay
    <3> QED
      BY <1>1, <3>2, <3>3, <3>4 DEF Made
  <2>9. \A o \in Tuples(system), m \in Processed' : \A d \in Combinations(o) :
          <<o, m>> \in numbered' /\ IsStep(o, d) /\ Tried(m, d)'
            => \/ m \in Processed /\ <<o, m>> \in numbered /\ Tried(m, d)
               \/ Made(U, o, m, d)'
    <3>1. ASSUME NEW o \in Tuples(system), NEW m \in Processed', NEW d \in Combinations(o),
                 <<o, m>> \in numbered', IsStep(o, d), Tried(m, d)'
          PROVE  /\ m \in Processed /\ <<o, m>> \in numbered
                 /\ Tried(m, d) \/ (o = of /\ m = k /\ d = c)
      BY <1>1, <1>4, <2>2, <2>5, <2>6, <2>7, <3>1, AdvanceTries
    <3> QED
      BY <2>8, <3>1
  <2>10. AllMade(U)'
    <3>1. AllMade(T) /\ T \subseteq U /\ numbered \subseteq numbered' /\ system' = system
      BY <1>1, <2>3, <2>4
    <3> QED
      BY <2>9, <3>1, AllMadeStays
  <2> QED
    BY <2>4, <2>10
<1>7. RootedInv'
  <2>1. TriedStep \in AllSteps /\ TriedStep.state_from = current.of
    <3>1. TriedStep \in StepsFrom(current.of)
      BY <1>1, <1>5 DEF StepsFrom
    <3>2. IdxsOK(current.of, idxs)
      BY DEF FrontierInv
    <3> QED
      BY <1>3, <1>5, <3>1, <3>2, StepMeans DEF AllSteps
  <2>2. ASSUME NEW S, ClosedUnder(AllSteps, S), \A q \in numbered : q[1] \in S
        PROVE  p[1] \in S
    <3>1. current.of \in S
      BY <1>3, <2>2
    <3> QED
      BY <1>2, <2>1, <2>2, <3>1 DEF ClosedUnder
  <2> HIDE DEF p
  <2>3. \A S : ClosedUnder(AllSteps, S) /\ (\A q \in numbered : q[1] \in S) => \A q \in numbered' : q[1] \in S
    BY <1>1, <2>2
  <2> QED
    BY <1>1, <2>3, RootedStays
<1> QED
  BY <1>6, <1>7

-----------------------------------------------------------------------------
(****************************************************************************)
(* The closure of the definition takes all steps that leave the least set   *)
(* with the initial tuple and the ends of its steps.  c holds the steps,    *)
(* all and of each tuple, and the tuples there are.                         *)
(****************************************************************************)
ReachTurn(c, r, n) ==
  LET leaving == UNION {c.steps[of] : of \in r.new}
      tuples == {t.state_to : t \in leaving} \ r.all
  IN  [new |-> tuples, all |-> r.all \cup tuples, steps |-> r.steps \cup leaving]
ClosedIn(c, S) == c.initial \in S /\ \A t \in c.family : t.state_from \in S => t.state_to \in S
ReachInv(c, n, r) ==
  /\ r.all \subseteq c.tuples /\ r.new \subseteq r.all /\ c.initial \in r.all
  /\ \A S : ClosedIn(c, S) => r.all \subseteq S
  /\ r.steps = {t \in c.family : t.state_from \in r.all /\ t.state_from \notin r.new}
  /\ \A t \in r.steps : t.state_to \in r.all
  /\ r.new = {} \/ Cardinality(r.all) > n
Reaching == INSTANCE Iteration WITH Op <- ReachTurn, Inv <- ReachInv

IsReachable(c) ==
  /\ c.initial \in c.tuples /\ IsFiniteSet(c.tuples)
  /\ \A of \in c.tuples : c.steps[of] = {t \in c.family : t.state_from = of}
  /\ \A t \in c.family : t.state_to \in c.tuples

LEMMA ReachTurnHolds ==
  ASSUME NEW c, IsReachable(c), NEW k \in Nat, NEW r, ReachInv(c, k, r)
  PROVE  ReachInv(c, k + 1, ReachTurn(c, r, k + 1))
<1> DEFINE leaving == UNION {c.steps[of] : of \in r.new}
           tuples == {t.state_to : t \in leaving} \ r.all
           all == r.all \cup tuples
           steps == r.steps \cup leaving
<1>1. /\ r.all \subseteq c.tuples /\ r.new \subseteq r.all /\ c.initial \in r.all
      /\ \A S : ClosedIn(c, S) => r.all \subseteq S
      /\ r.steps = {t \in c.family : t.state_from \in r.all /\ t.state_from \notin r.new}
      /\ \A t \in r.steps : t.state_to \in r.all
      /\ r.new = {} \/ Cardinality(r.all) > k
  BY DEF ReachInv
<1>2. leaving = {t \in c.family : t.state_from \in r.new}
  <2>1. \A of \in r.new : c.steps[of] = {t \in c.family : t.state_from = of}
    BY <1>1 DEF IsReachable
  <2> QED
    BY <2>1
<1> HIDE DEF leaving
<1>3. /\ tuples \subseteq c.tuples /\ tuples \cap r.all = {}
      /\ \A x \in tuples : \E t \in leaving : x = t.state_to
      /\ \A t \in leaving : t.state_to \in r.all \cup tuples
  BY <1>2 DEF IsReachable
<1>4. r.new = {} => tuples = {}
  BY <1>2
<1> HIDE DEF tuples
<1>5. all \subseteq c.tuples /\ tuples \subseteq all /\ c.initial \in all
  BY <1>1, <1>3
<1>6. \A S : ClosedIn(c, S) => all \subseteq S
  BY <1>1, <1>2, <1>3 DEF ClosedIn
<1>7. steps = {t \in c.family : t.state_from \in all /\ t.state_from \notin tuples}
  BY <1>1, <1>2, <1>3
<1>8. \A t \in steps : t.state_to \in all
  BY <1>1, <1>3
<1>9. tuples = {} \/ Cardinality(all) > k + 1
  <2>1. SUFFICES ASSUME tuples # {} PROVE Cardinality(all) > k + 1
    OBVIOUS
  <2>2. IsFiniteSet(all) /\ IsFiniteSet(r.all)
    BY <1>1, <1>5, FS_Subset DEF IsReachable
  <2>3. Cardinality(r.all) \in Nat /\ Cardinality(all) \in Nat /\ Cardinality(r.all) > k
    BY <1>1, <1>4, <2>1, <2>2, FS_CardinalityType
  <2>4. Cardinality(r.all) <= Cardinality(all) /\ (Cardinality(r.all) = Cardinality(all) => r.all = all)
    <3>1. r.all \subseteq all
      OBVIOUS
    <3> QED
      BY <2>2, <3>1, FS_Subset
  <2>5. r.all # all
    BY <1>3, <2>1
  <2> QED
    BY <2>3, <2>4, <2>5
<1>10. ReachTurn(c, r, k + 1) = [new |-> tuples, all |-> all, steps |-> steps]
  BY DEF ReachTurn, leaving, tuples
<1> HIDE DEF all, steps
<1> DEFINE q == [new |-> tuples, all |-> all, steps |-> steps]
<1>11. q.new = tuples /\ q.all = all /\ q.steps = steps
  OBVIOUS
<1> HIDE DEF q
<1>12. ReachInv(c, k + 1, q)
  BY <1>5, <1>6, <1>7, <1>8, <1>9, <1>11 DEF ReachInv
<1> QED
  BY <1>10, <1>12 DEF q

\* The steps of a family that lead from the initial tuple.
IsSpanned(family, R) ==
  ClosedUnder(family, R) /\ \A S : ClosedUnder(family, S) => R \subseteq S

LEMMA ClosureMeans ==
  ASSUME system \in Systems, NEW steps, NEW family,
         \A of \in Tuples(system) : steps[of] = {t \in family : t.state_from = of},
         \A t \in family : t.state_to \in Tuples(system)
  PROVE  \E R : IsSpanned(family, R) /\ Closure(steps) = {t \in family : t.state_from \in R}
<1> DEFINE c == [steps |-> steps, family |-> family, tuples |-> Tuples(system), initial |-> InitialTuple(system)]
           base == [new |-> {InitialTuple(system)}, all |-> {InitialTuple(system)}, steps |-> {}]
           reach == CHOOSE f : Reaching!IsIteration(f, c, base)
<1>1. Reaching!IsIteration(reach, c, base)
  BY Reaching!IterationExists
<1>2. c.steps = steps /\ c.family = family /\ c.tuples = Tuples(system) /\ c.initial = InitialTuple(system)
  OBVIOUS
<1>3. base.new = {InitialTuple(system)} /\ base.all = {InitialTuple(system)} /\ base.steps = {}
  OBVIOUS
<1> HIDE DEF c
<1>4. Closure(steps) = reach[MaxStates].steps
  <2>1. Closure(c.steps) = reach[MaxStates].steps
    BY DEF Closure, Reaching!IsIteration, ReachTurn
  <2> QED
    BY <1>2, <2>1
<1> HIDE DEF reach, base
<1>5. /\ InitialTuple(system) \in Tuples(system) /\ IsFiniteSet(Tuples(system))
      /\ Cardinality(Tuples(system)) <= MaxStates /\ MaxStates \in Nat
  BY InitialTupleIsTuple, BoundsAssumption, CompositionAssumption
<1>6. IsReachable(c)
  BY <1>2, <1>5 DEF IsReachable
<1>7. ReachInv(c, 0, base)
  <2>1. Cardinality({InitialTuple(system)}) = 1
    BY FS_Singleton
  <2> QED
    BY <1>2, <1>3, <1>5, <2>1 DEF ReachInv, ClosedIn
<1>8. \A k \in Nat : ReachInv(c, k, reach[k])
  <2>1. \A k \in Nat : \A r : ReachInv(c, k, r) => ReachInv(c, k + 1, ReachTurn(c, r, k + 1))
    BY <1>6, ReachTurnHolds
  <2> QED
    BY <1>1, <1>7, <2>1, Reaching!IterationInvariant
<1> DEFINE r == reach[MaxStates]
<1>9. ReachInv(c, MaxStates, r)
  BY <1>5, <1>8
<1> HIDE DEF r
<1>10. r.new = {}
  <2>1. Cardinality(r.all) <= Cardinality(Tuples(system)) /\ Cardinality(r.all) \in Nat
    BY <1>2, <1>5, <1>9, FS_Subset, FS_CardinalityType DEF ReachInv
  <2>2. Cardinality(Tuples(system)) \in Nat
    BY <1>5, FS_CardinalityType
  <2> QED
    BY <1>5, <1>9, <2>1, <2>2 DEF ReachInv
<1>11. r.steps = {t \in family : t.state_from \in r.all}
  BY <1>2, <1>9, <1>10 DEF ReachInv
<1>12. IsSpanned(family, r.all)
  BY <1>2, <1>9, <1>11 DEF ReachInv, IsSpanned, ClosedUnder, ClosedIn
<1> QED
  BY <1>4, <1>11, <1>12 DEF r

-----------------------------------------------------------------------------
(****************************************************************************)
(* The valuations of the declaring components, compared from left to right, *)
(* agree if any two agree.                                                  *)
(****************************************************************************)
ReadAt(of) == [i \in Declaring |-> StateValuation(i, of[i])]
WordAt(of) == [i \in Declaring |-> system.automata[i].state_valuations[of[i]]]
DeclaredBy == [i \in Declaring |-> system.automata[i].declared]

LEMMA WordFacts ==
  ASSUME system \in Systems, system.is_game, WordsAreRead, NEW of \in Tuples(system), NEW i \in Declaring
  PROVE  /\ WordAt(of)[i] \subseteq DeclaredBy[i]
         /\ \/ ReadAt(of)[i] = WordAt(of)[i]
            \/ ReadAt(of)[i] = {} /\ \A k \in Declaring \ {i} : WordAt(of)[i] \cap DeclaredBy[k] = {}
<1> DEFINE aut == system.automata[i]
           s == of[i]
           words == aut.state_valuations
<1>1. i \in Component /\ IsAutomaton(aut)
  BY CompositionAssumption DEF IsSystem, Declaring, Component
<1>2. s \in DOMAIN aut.transitions
  BY <1>1, DegreeFacts DEF States, Component
<1>3. words \in [DOMAIN aut.transitions -> SUBSET aut.declared] /\ DOMAIN aut.transitions \subseteq Nat
  BY <1>1 DEF IsAutomaton
<1>4. s \in DOMAIN words /\ s + 0 = s /\ words[s] \subseteq aut.declared
  BY <1>2, <1>3
<1>5. WordAt(of)[i] = words[s] /\ DeclaredBy[i] = aut.declared
      /\ \A k \in Declaring : DeclaredBy[k] = system.automata[k].declared
  BY DEF WordAt, DeclaredBy
<1>6. ReadAt(of)[i] = IF i = Min(Declaring) /\ s % 2 = 1 THEN {} ELSE words[s]
  BY <1>4 DEF ReadAt, StateValuation, Word
<1>7. ASSUME i = Min(Declaring), s % 2 = 1, NEW k \in Declaring \ {i}
      PROVE  words[s] \cap system.automata[k].declared = {}
  <2>1. Declaring \in SUBSET Nat /\ Declaring # {}
    <3>1. Component \subseteq Nat
      BY SystemFacts DEF Component
    <3> QED
      BY <3>1 DEF Declaring
  <2>2. \A y \in Declaring : i <= y
    BY <1>7, <2>1, MinFacts
  <2>3. \A j \in 1 .. i - 1 : system.automata[j].declared = {}
    <3>1. ASSUME NEW j \in 1 .. i - 1 PROVE j \notin Declaring /\ j \in Component
      <4>1. i \in 1 .. Len(system.automata) /\ Len(system.automata) \in Nat /\ Component = 1 .. Len(system.automata)
        BY <1>1, SystemFacts DEF Component
      <4>2. i \in Nat /\ j < i /\ j \in 1 .. Len(system.automata)
        BY <4>1
      <4>3. ~ (i <= j)
        BY <4>2
      <4> QED
        BY <2>2, <4>1, <4>2, <4>3
    <3> QED
      BY <3>1 DEF Declaring
  <2>4. k \in DOMAIN system.automata \ {i} /\ i \in DOMAIN system.automata
    BY <1>1, <1>7 DEF Declaring, Component
  <2> QED
    BY <1>4, <1>7, <2>3, <2>4 DEF WordsAreRead
<1> HIDE DEF words, s
<1>8. \A k \in Declaring \ {i} : i = Min(Declaring) /\ s % 2 = 1 => words[s] \cap DeclaredBy[k] = {}
  BY <1>5, <1>7
<1> QED
  BY <1>4, <1>5, <1>6, <1>8

\* What is read of the words, and what the words hold, agree for the same tuples.
LEMMA AgreementOfWords ==
  ASSUME NEW D, NEW A, NEW S, NEW W, \A i \in D : W[i] \subseteq A[i],
         \A i \in D : \/ S[i] = W[i]
                      \/ S[i] = {} /\ \A k \in D \ {i} : W[i] \cap A[k] = {}
  PROVE  (\A i, k \in D : S[i] \cap A[k] = S[k] \cap A[i])
           <=> \A i, k \in D : W[i] \cap (A[i] \cap A[k]) = W[k] \cap (A[i] \cap A[k])
<1>1. ASSUME NEW i \in D, NEW k \in D, i # k
      PROVE  S[i] \cap A[k] = W[i] \cap A[k] /\ W[i] \cap (A[i] \cap A[k]) = W[i] \cap A[k]
             /\ W[k] \cap (A[i] \cap A[k]) = W[k] \cap A[i]
  BY <1>1
<1> QED
  BY <1>1

LEMMA ConsistentMeans ==
  ASSUME system \in Systems, WordsAreRead, NEW of \in Tuples(system)
  PROVE  IsConsistent(of) <=> ValuationsAgree(of)
<1>1. SUFFICES ASSUME system.is_game PROVE IsConsistent(of) <=> ValuationsAgree(of)
  BY DEF IsConsistent, ValuationsAgree
<1> DEFINE D == Declaring
           A == DeclaredBy
           S == ReadAt(of)
           W == WordAt(of)
<1>2. \A i \in D : /\ W[i] \subseteq A[i]
                   /\ \/ S[i] = W[i]
                      \/ S[i] = {} /\ \A k \in D \ {i} : W[i] \cap A[k] = {}
  BY <1>1, WordFacts
<1>3. D \in SUBSET Nat
  BY SystemFacts DEF Component, Declaring
<1>4. \A i \in D : /\ A[i] = system.automata[i].declared /\ S[i] = StateValuation(i, of[i])
                   /\ W[i] = system.automata[i].state_valuations[of[i]]
  BY DEF DeclaredBy, ReadAt, WordAt
<1>5. \A i \in D : Agrees(i, of) <=> AgreesBefore(D, A, S, i)
  <2>1. ASSUME NEW i \in D PROVE Agrees(i, of) <=> AgreesBefore(D, A, S, i)
    <3>1. /\ UNION {system.automata[k].declared : k \in Earlier(D, i)} = UNION {A[k] : k \in Earlier(D, i)}
          /\ UNION {StateValuation(k, of[k]) : k \in Earlier(D, i)} = UNION {S[k] : k \in Earlier(D, i)}
      BY <1>4 DEF Earlier
    <3>2. Agrees(i, of) <=>
            StateValuation(i, of[i]) \cap UNION {system.automata[k].declared : k \in Earlier(D, i)}
              = (UNION {StateValuation(k, of[k]) : k \in Earlier(D, i)}) \cap system.automata[i].declared
      BY DEF Agrees, Earlier
    <3> HIDE DEF A, S, D
    <3> QED
      BY <1>4, <3>1, <3>2 DEF AgreesBefore
  <2> QED
    BY <2>1
<1>6. ValuationsAgree(of) <=> \A i, k \in D : W[i] \cap (A[i] \cap A[k]) = W[k] \cap (A[i] \cap A[k])
  BY <1>1, <1>4 DEF ValuationsAgree
<1>7. IsConsistent(of) <=> \A i \in D : AgreesBefore(D, A, S, i)
  BY <1>1, <1>5 DEF IsConsistent
<1> HIDE DEF D, A, S, W
<1>8. (\A i \in D : AgreesBefore(D, A, S, i)) <=> (\A i, k \in D : S[i] \cap A[k] = S[k] \cap A[i])
  <2>1. \A i \in D : S[i] \subseteq A[i]
    BY <1>2
  <2> QED
    BY <1>3, <2>1, PrefixAgreement
<1>9. (\A i, k \in D : S[i] \cap A[k] = S[k] \cap A[i])
        <=> \A i, k \in D : W[i] \cap (A[i] \cap A[k]) = W[k] \cap (A[i] \cap A[k])
  BY <1>2, AgreementOfWords
<1> QED
  BY <1>6, <1>7, <1>8, <1>9

-----------------------------------------------------------------------------
(****************************************************************************)
(* The arcs between numbers stand for steps between tuples.                 *)
(****************************************************************************)
Lift(t) ==
  [state_from |-> Numbered(t.state_from), state_to |-> Numbered(t.state_to), signals |-> t.signals]
IsWhole(T) == AllMade(T) /\ \A t \in T : Comes(t)
AreNumbered(T) == \A t \in T : \E p, q \in numbered : p[2] = t.state_from /\ q[2] = t.state_to

LEMMA NumberedMeans ==
  ASSUME NumbersInv
  PROVE  /\ \A p \in numbered : Numbered(p[2]) = p[1] /\ p[1] \in Tuples(system) /\ p = <<p[1], p[2]>>
         /\ \A p, q \in numbered : p[1] = q[1] <=> p[2] = q[2]
<1>1. \A p \in numbered : p = <<p[1], p[2]>> /\ p[1] \in Tuples(system)
  BY DEF NumbersInv
<1>2. \A p, q \in numbered : p[1] = q[1] <=> p[2] = q[2]
  <2>1. ASSUME NEW p \in numbered, NEW q \in numbered PROVE p[1] = q[1] <=> p[2] = q[2]
    <3>1. <<p[1], p[2]>> \in numbered /\ <<q[1], q[2]>> \in numbered
      BY <1>1
    <3> QED
      BY <3>1, NumbersAreUnique
  <2> QED
    BY <2>1
<1>3. ASSUME NEW p \in numbered PROVE Numbered(p[2]) = p[1]
  <2> DEFINE q == CHOOSE x \in numbered : x[2] = p[2]
  <2>1. q \in numbered /\ q[2] = p[2]
    OBVIOUS
  <2>2. Numbered(p[2]) = q[1]
    BY DEF Numbered
  <2> HIDE DEF q
  <2> QED
    BY <1>2, <2>1, <2>2
<1> QED
  BY <1>1, <1>2, <1>3

LEMMA LiftMeans ==
  ASSUME NumbersInv, NEW T, AreNumbered(T)
  PROVE  /\ \A t \in T : \E p, q \in numbered : /\ p[2] = t.state_from /\ q[2] = t.state_to
                                                /\ Lift(t).state_from = p[1] /\ Lift(t).state_to = q[1]
                                                /\ Lift(t).signals = t.signals
         /\ \A t, u \in T : Lift(t).state_from = Lift(u).state_from <=> t.state_from = u.state_from
<1>1. ASSUME NEW t \in T
      PROVE  /\ Lift(t).state_from = Numbered(t.state_from) /\ Lift(t).state_to = Numbered(t.state_to)
             /\ Lift(t).signals = t.signals
  BY DEF Lift
<1>2. \A t \in T : \E p, q \in numbered : p[2] = t.state_from /\ q[2] = t.state_to
  BY DEF AreNumbered
<1>3. \A t \in T : \E p, q \in numbered : /\ p[2] = t.state_from /\ q[2] = t.state_to
                                          /\ Lift(t).state_from = p[1] /\ Lift(t).state_to = q[1]
                                          /\ Lift(t).signals = t.signals
  BY <1>1, <1>2, NumberedMeans
<1> QED
  BY <1>3, NumberedMeans

LEMMA WholeIsNumbered ==
  ASSUME NumbersInv, NEW T, IsWhole(T)
  PROVE  AreNumbered(T)
<1>1. ASSUME NEW t \in T PROVE \E p, q \in numbered : p[2] = t.state_from /\ q[2] = t.state_to
  <2>1. PICK of, c : ComesFrom(t, of, c)
    BY DEF IsWhole, Comes
  <2>2. PICK x, y : <<x, t.state_from>> \in numbered /\ <<y, t.state_to>> \in numbered
    BY <2>1 DEF ComesFrom
  <2>3. PICK p, q : p = <<x, t.state_from>> /\ q = <<y, t.state_to>>
    OBVIOUS
  <2>4. p \in numbered /\ q \in numbered /\ p[2] = t.state_from /\ q[2] = t.state_to
    BY <2>2, <2>3
  <2> QED
    BY <2>4
<1> QED
  BY <1>1 DEF AreNumbered

\* The members of AllSteps are the steps of the combinations.
LEMMA StepsAre ==
  ASSUME system \in Systems
  PROVE  /\ \A s \in AllSteps : \E of \in Tuples(system) : \E c \in Combinations(of) : IsStep(of, c) /\ s = StepOf(of, c)
         /\ \A of \in Tuples(system) : \A c \in Combinations(of) :
              /\ IsStep(of, c) => StepOf(of, c) \in AllSteps
              /\ StepOf(of, c).state_from = of /\ StepOf(of, c).state_to \in Tuples(system)
              /\ StepOf(of, c) = [state_from |-> of, state_to |-> StepOf(of, c).state_to, signals |-> StepOf(of, c).signals]
         /\ \A of \in Tuples(system) : StepsFrom(of) = {s \in AllSteps : s.state_from = of}
<1>1. ASSUME NEW of \in Tuples(system), NEW c \in Combinations(of)
      PROVE  /\ StepOf(of, c).state_from = of /\ StepOf(of, c).state_to \in Tuples(system)
             /\ StepOf(of, c) = [state_from |-> of, state_to |-> StepOf(of, c).state_to, signals |-> StepOf(of, c).signals]
  <2>1. IdxsOK(of, c)
    BY CombinationIsIdxs
  <2>2. StepOf(of, c).state_from = of /\ StepOf(of, c).state_to \in Tuples(system)
    BY <2>1, StepMeans
  <2>3. \E to, label : StepOf(of, c) = [state_from |-> of, state_to |-> to, signals |-> label]
    BY DEF StepOf
  <2> QED
    BY <2>2, <2>3
<1>2. \A of : StepsFrom(of) = {StepOf(of, c) : c \in {d \in Combinations(of) : IsStep(of, d)}}
  BY DEF StepsFrom
<1>3. \A s : s \in AllSteps <=> \E of \in Tuples(system) : s \in StepsFrom(of)
  BY DEF AllSteps
<1> QED
  BY <1>1, <1>2, <1>3

\* At the end every combination of every tuple with a number was tried.
LEMMA AllAreTried ==
  ASSUME ExploreInv, finished, NEW T, IsWhole(T), NEW p \in numbered, NEW c \in Combinations(p[1]), IsStep(p[1], c)
  PROVE  Made(T, p[1], p[2], c)
<1>1. Pending = {} /\ idxs = NoIdxs
  BY DEF ExploreInv, FrontierInv, Pending
<1>2. p[2] \in Processed
  BY <1>1 DEF ExploreInv, FrontierInv
<1>3. Tried(p[2], c)
  BY <1>1 DEF Tried
<1>4. p[1] \in Tuples(system) /\ <<p[1], p[2]>> \in numbered
  BY NumberedMeans DEF ExploreInv
<1> QED
  BY <1>2, <1>3, <1>4 DEF IsWhole, AllMade

\* The tuples that were numbered are those that steps lead to.
LEMMA NumberedAreReached ==
  ASSUME ExploreInv, finished, RootedInv, NEW T, IsWhole(T)
  PROVE  IsSpanned(AllSteps, {p[1] : p \in numbered})
<1> DEFINE R == {p[1] : p \in numbered}
<1>1. system \in Systems /\ <<InitialTuple(system), 0>> \in numbered /\ NumbersInv
  BY DEF ExploreInv, NumbersInv
<1>2. InitialTuple(system) \in R
  <2>1. PICK p : p = <<InitialTuple(system), 0>>
    OBVIOUS
  <2>2. p[1] = InitialTuple(system) /\ p \in numbered
    BY <1>1, <2>1
  <2> QED
    BY <2>2
<1>3. ASSUME NEW s \in AllSteps, s.state_from \in R PROVE s.state_to \in R
  <2>1. PICK of \in Tuples(system) : \E c \in Combinations(of) : IsStep(of, c) /\ s = StepOf(of, c)
    BY <1>1, StepsAre
  <2>2. PICK c \in Combinations(of) : IsStep(of, c) /\ s = StepOf(of, c)
    BY <2>1
  <2>3. s.state_from = of
    BY <1>1, <2>2, StepsAre
  <2>4. PICK p \in numbered : p[1] = of
    BY <1>3, <2>3
  <2>5. Made(T, of, p[2], c)
    BY <2>2, <2>4, AllAreTried
  <2>6. PICK m : <<s.state_to, m>> \in numbered
    BY <2>2, <2>5 DEF Made
  <2>7. PICK q : q = <<s.state_to, m>>
    OBVIOUS
  <2>8. q[1] = s.state_to /\ q \in numbered
    BY <2>6, <2>7
  <2> QED
    BY <2>8
<1>4. ASSUME NEW S, ClosedUnder(AllSteps, S) PROVE R \subseteq S
  BY <1>4 DEF RootedInv
<1> HIDE DEF R
<1>5. IsSpanned(AllSteps, R)
  BY <1>2, <1>3, <1>4 DEF IsSpanned, ClosedUnder
<1> QED
  BY <1>5 DEF R

\* The arcs of the whole exploration stand for the steps between tuples that agree.
LEMMA WholeIsProduct ==
  ASSUME ExploreInv, WordsAreRead, finished, RootedInv, NEW T, IsWhole(T)
  PROVE  {Lift(t) : t \in T} = {s \in Closure([of \in Tuples(system) |-> StepsFrom(of)]) :
                                  ValuationsAgree(s.state_from) /\ ValuationsAgree(s.state_to)}
<1> DEFINE R == {p[1] : p \in numbered}
           F == [of \in Tuples(system) |-> StepsFrom(of)]
<1>1. system \in Systems /\ NumbersInv /\ AreNumbered(T)
  BY WholeIsNumbered DEF ExploreInv, NumbersInv
<1>2. Closure(F) = {s \in AllSteps : s.state_from \in R}
  <2>1. \A of \in Tuples(system) : F[of] = {s \in AllSteps : s.state_from = of}
    BY <1>1, StepsAre
  <2>2. \A s \in AllSteps : s.state_to \in Tuples(system)
    BY <1>1, StepsAre
  <2> HIDE DEF F
  <2>3. PICK Q : IsSpanned(AllSteps, Q) /\ Closure(F) = {s \in AllSteps : s.state_from \in Q}
    BY <1>1, <2>1, <2>2, ClosureMeans
  <2>4. IsSpanned(AllSteps, R)
    BY NumberedAreReached
  <2> HIDE DEF R
  <2>5. Q = R
    BY <2>3, <2>4 DEF IsSpanned
  <2> QED
    BY <2>3, <2>5
<1> HIDE DEF F
<1>3. ASSUME NEW t \in T
      PROVE  Lift(t) \in AllSteps /\ Lift(t).state_from \in R
             /\ ValuationsAgree(Lift(t).state_from) /\ ValuationsAgree(Lift(t).state_to)
  <2>1. PICK of \in Tuples(system) : \E c \in Combinations(of) : ComesFrom(t, of, c)
    BY DEF IsWhole, Comes
  <2>2. PICK c \in Combinations(of) : ComesFrom(t, of, c)
    BY <2>1
  <2>3. PICK s : s = StepOf(of, c)
    OBVIOUS
  <2>4. s \in AllSteps /\ s.state_from = of /\ s.state_to \in Tuples(system)
        /\ s = [state_from |-> of, state_to |-> s.state_to, signals |-> s.signals]
    BY <1>1, <2>2, <2>3, StepsAre DEF ComesFrom
  <2>5. PICK p, q : p = <<of, t.state_from>> /\ q = <<s.state_to, t.state_to>>
    OBVIOUS
  <2>6. p \in numbered /\ q \in numbered /\ p[1] = of /\ p[2] = t.state_from /\ q[1] = s.state_to /\ q[2] = t.state_to
    BY <2>2, <2>3, <2>5 DEF ComesFrom
  <2>7. Numbered(t.state_from) = of /\ Numbered(t.state_to) = s.state_to
    BY <1>1, <2>6, NumberedMeans
  <2>8. Lift(t) = s
    BY <2>2, <2>3, <2>4, <2>7 DEF Lift, ComesFrom
  <2>9. ValuationsAgree(of) /\ ValuationsAgree(s.state_to)
    BY <1>1, <2>2, <2>3, <2>4, ConsistentMeans DEF ComesFrom
  <2> QED
    BY <2>4, <2>6, <2>8, <2>9
<1>4. ASSUME NEW s \in AllSteps, s.state_from \in R, ValuationsAgree(s.state_from), ValuationsAgree(s.state_to)
      PROVE  \E t \in T : s = Lift(t)
  <2>1. PICK of \in Tuples(system) : \E c \in Combinations(of) : IsStep(of, c) /\ s = StepOf(of, c)
    BY <1>1, StepsAre
  <2>2. PICK c \in Combinations(of) : IsStep(of, c) /\ s = StepOf(of, c)
    BY <2>1
  <2>3. s.state_from = of /\ s.state_to \in Tuples(system)
        /\ s = [state_from |-> of, state_to |-> s.state_to, signals |-> s.signals]
    BY <1>1, <2>2, StepsAre
  <2>4. PICK p \in numbered : p[1] = of
    BY <1>4, <2>3
  <2>5. Made(T, of, p[2], c)
    BY <2>2, <2>4, AllAreTried
  <2>6. IsConsistent(of) /\ IsConsistent(s.state_to)
    BY <1>1, <1>4, <2>3, ConsistentMeans
  <2>7. PICK m : <<s.state_to, m>> \in numbered /\ [state_from |-> p[2], state_to |-> m, signals |-> s.signals] \in T
    BY <2>2, <2>5, <2>6 DEF Made
  <2>8. PICK q : q = <<s.state_to, m>>
    OBVIOUS
  <2>9. q \in numbered /\ q[1] = s.state_to /\ q[2] = m
    BY <2>7, <2>8
  <2>10. Numbered(p[2]) = of /\ Numbered(m) = s.state_to
    BY <1>1, <2>4, <2>9, NumberedMeans
  <2>11. PICK t : t = [state_from |-> p[2], state_to |-> m, signals |-> s.signals]
    OBVIOUS
  <2>12. Lift(t) = [state_from |-> of, state_to |-> s.state_to, signals |-> s.signals]
    BY <2>10, <2>11 DEF Lift
  <2> QED
    BY <2>3, <2>7, <2>11, <2>12
<1> HIDE DEF R
<1> QED
  BY <1>2, <1>3, <1>4 DEF F

-----------------------------------------------------------------------------
(****************************************************************************)
(* Where states are mixed, the outputs of a state with inputs go and with   *)
(* them what cannot be reached any more.                                    *)
(****************************************************************************)
Unmixed(T) ==
  {t \in T : InputBit \in t.signals \/ \A u \in T : u.state_from = t.state_from => InputBit \notin u.signals}
IsLeastSet(T, K) ==
  /\ 0 \in K /\ \A t \in T : t.state_from \in K => t.state_to \in K
  /\ \A S : 0 \in S /\ (\A t \in T : t.state_from \in S => t.state_to \in S) => K \subseteq S
IsCleaned(T, left) == \E K : IsLeastSet(Unmixed(T), K) /\ left = {t \in Unmixed(T) : t.state_from \in K}

LEMMA LiftUnmixed ==
  ASSUME NumbersInv, NEW T, AreNumbered(T)
  PROVE  Unmixed({Lift(t) : t \in T}) = {Lift(t) : t \in Unmixed(T)}
<1> DEFINE steps == {Lift(t) : t \in T}
<1>1. /\ \A t \in T : Lift(t).signals = t.signals
      /\ \A t, u \in T : Lift(t).state_from = Lift(u).state_from <=> t.state_from = u.state_from
  BY LiftMeans
<1>2. ASSUME NEW t \in T PROVE Lift(t) \in Unmixed(steps) <=> t \in Unmixed(T)
  <2>1. Lift(t) \in steps
    OBVIOUS
  <2>2. (\A s \in steps : s.state_from = Lift(t).state_from => InputBit \notin s.signals)
          <=> \A u \in T : u.state_from = t.state_from => InputBit \notin u.signals
    <3>1. (\A s \in steps : s.state_from = Lift(t).state_from => InputBit \notin s.signals)
            <=> \A u \in T : Lift(u).state_from = Lift(t).state_from => InputBit \notin Lift(u).signals
      OBVIOUS
    <3> QED
      BY <1>1, <3>1
  <2> HIDE DEF steps
  <2> QED
    BY <1>1, <2>1, <2>2 DEF Unmixed
<1>3. \A s : s \in steps <=> \E t \in T : s = Lift(t)
  OBVIOUS
<1> HIDE DEF steps
<1>4. Unmixed(steps) \subseteq steps /\ Unmixed(T) \subseteq T
  BY DEF Unmixed
<1>5. Unmixed(steps) = {Lift(t) : t \in Unmixed(T)}
  BY <1>2, <1>3, <1>4
<1> QED
  BY <1>5 DEF steps

\* What can be reached of the numbers stands for what can be reached of the tuples.
LEMMA LiftCleaned ==
  ASSUME NumbersInv, NEW U, AreNumbered(U), NEW K, IsLeastSet(U, K),
         NEW family, family = {Lift(t) : t \in U}, NEW R, IsSpanned(family, R)
  PROVE  {Lift(t) : t \in {u \in U : u.state_from \in K}} = {s \in family : s.state_from \in R}
<1> DEFINE KeptNumbers == {p[2] : p \in {q \in numbered : q[1] \in R}}
           KeptTuples == {p[1] : p \in {q \in numbered : q[2] \in K}}
<1>1. /\ \A t \in U : \E p, q \in numbered : /\ p[2] = t.state_from /\ q[2] = t.state_to
                                             /\ Lift(t).state_from = p[1] /\ Lift(t).state_to = q[1]
      /\ \A p, q \in numbered : p[1] = q[1] <=> p[2] = q[2]
  BY LiftMeans, NumberedMeans
<1>2. \E p \in numbered : p[1] = InitialTuple(system) /\ p[2] = 0
  <2>1. PICK p : p = <<InitialTuple(system), 0>>
    OBVIOUS
  <2>2. p \in numbered /\ p[1] = InitialTuple(system) /\ p[2] = 0
    BY <2>1 DEF NumbersInv
  <2> QED
    BY <2>2
<1>3. \A n : n \in KeptNumbers <=> \E p \in numbered : p[1] \in R /\ n = p[2]
  OBVIOUS
<1>4. \A x : x \in KeptTuples <=> \E p \in numbered : p[2] \in K /\ x = p[1]
  OBVIOUS
<1>5. \A s : s \in family <=> \E t \in U : s = Lift(t)
  OBVIOUS
<1> HIDE DEF KeptNumbers, KeptTuples
<1>6. InitialTuple(system) \in R /\ \A s \in family : s.state_from \in R => s.state_to \in R
  BY DEF IsSpanned, ClosedUnder
<1>7. K \subseteq KeptNumbers
  <2>1. 0 \in KeptNumbers
    BY <1>2, <1>3, <1>6
  <2>2. ASSUME NEW t \in U, t.state_from \in KeptNumbers PROVE t.state_to \in KeptNumbers
    <3>1. PICK p \in numbered, q \in numbered :
            p[2] = t.state_from /\ q[2] = t.state_to /\ Lift(t).state_from = p[1] /\ Lift(t).state_to = q[1]
      BY <1>1
    <3>2. p[1] \in R
      BY <1>1, <1>3, <2>2, <3>1
    <3>3. q[1] \in R
      BY <1>5, <1>6, <3>1, <3>2
    <3> QED
      BY <1>3, <3>1, <3>3
  <2> QED
    BY <2>1, <2>2 DEF IsLeastSet
<1>8. R \subseteq KeptTuples
  <2>1. InitialTuple(system) \in KeptTuples
    BY <1>2, <1>4 DEF IsLeastSet
  <2>2. ASSUME NEW s \in family, s.state_from \in KeptTuples PROVE s.state_to \in KeptTuples
    <3>1. PICK t \in U : s = Lift(t)
      BY <1>5
    <3>2. PICK p \in numbered, q \in numbered :
            p[2] = t.state_from /\ q[2] = t.state_to /\ Lift(t).state_from = p[1] /\ Lift(t).state_to = q[1]
      BY <1>1
    <3>3. p[2] \in K
      BY <1>1, <1>4, <2>2, <3>1, <3>2
    <3>4. q[2] \in K
      BY <3>2, <3>3 DEF IsLeastSet
    <3> QED
      BY <1>4, <3>1, <3>2, <3>4
  <2>3. ClosedUnder(family, KeptTuples)
    BY <2>1, <2>2 DEF ClosedUnder
  <2> QED
    BY <2>3 DEF IsSpanned
<1>9. ASSUME NEW t \in U PROVE t.state_from \in K <=> Lift(t).state_from \in R
  <2>1. PICK p \in numbered : p[2] = t.state_from /\ Lift(t).state_from = p[1]
    BY <1>1
  <2>2. p[2] \in K => p[1] \in R
    BY <1>1, <1>3, <1>7
  <2>3. p[1] \in R => p[2] \in K
    BY <1>1, <1>4, <1>8
  <2> QED
    BY <2>1, <2>2, <2>3
<1> QED
  BY <1>5, <1>9

-----------------------------------------------------------------------------
(****************************************************************************)
(* Of the exploration T the composition has the arcs; at the end of that of *)
(* a game whose states may not be mixed, those that are left of them.       *)
(****************************************************************************)
ProductInv ==
  /\ RootedInv
  /\ \E T : IsWhole(T) /\ IF finished /\ system.no_mixed_states THEN IsCleaned(T, Arcs) ELSE Arcs = T

LEMMA ProductAtTheEnd ==
  ASSUME ExploreInv, WordsAreRead, ProductInv
  PROVE  CompositionIsProduct
<1>1. SUFFICES ASSUME finished PROVE Composed = Product
  BY DEF CompositionIsProduct
<1>2. PICK T : IsWhole(T) /\ IF system.no_mixed_states THEN IsCleaned(T, Arcs) ELSE Arcs = T
  BY <1>1 DEF ProductInv
<1> DEFINE steps == {s \in Closure([of \in Tuples(system) |-> StepsFrom(of)]) :
                       ValuationsAgree(s.state_from) /\ ValuationsAgree(s.state_to)}
           F == [of \in Tuples(system) |-> UnmixedOf(steps, of)]
<1>3. system \in Systems /\ NumbersInv /\ AreNumbered(T) /\ RootedInv
  BY <1>2, WholeIsNumbered DEF ExploreInv, NumbersInv, ProductInv
<1>4. Product = IF system.no_mixed_states THEN Closure(F) ELSE steps
  BY DEF Product
<1>5. steps = {Lift(t) : t \in T}
  BY <1>1, <1>2, <1>3, WholeIsProduct
<1> HIDE DEF steps
<1>6. Composed = {Lift(t) : t \in Arcs}
  BY DEF Composed, Arcs, Lift
<1>7. CASE ~ system.no_mixed_states
  BY <1>2, <1>4, <1>5, <1>6, <1>7
<1>8. CASE system.no_mixed_states
  <2>1. PICK K : IsLeastSet(Unmixed(T), K) /\ Arcs = {t \in Unmixed(T) : t.state_from \in K}
    BY <1>2, <1>8 DEF IsCleaned
  <2>2. Unmixed(steps) = {Lift(t) : t \in Unmixed(T)}
    BY <1>3, <1>5, LiftUnmixed
  <2>3. AreNumbered(Unmixed(T))
    BY <1>3 DEF AreNumbered, Unmixed
  <2>4. \A of \in Tuples(system) : F[of] = {s \in Unmixed(steps) : s.state_from = of}
    <3>1. ASSUME NEW of \in Tuples(system) PROVE UnmixedOf(steps, of) = {s \in Unmixed(steps) : s.state_from = of}
      BY DEF UnmixedOf, Unmixed
    <3> QED
      BY <3>1
  <2>5. \A s \in Unmixed(steps) : s.state_to \in Tuples(system)
    <3>1. ASSUME NEW t \in T PROVE Lift(t).state_to \in Tuples(system)
      <4>1. PICK q \in numbered : Lift(t).state_to = q[1]
        BY <1>3, LiftMeans
      <4> QED
        BY <1>3, <4>1, NumberedMeans
    <3> QED
      BY <1>5, <3>1 DEF Unmixed
  <2> HIDE DEF F
  <2>6. PICK R : IsSpanned(Unmixed(steps), R) /\ Closure(F) = {s \in Unmixed(steps) : s.state_from \in R}
    <3>1. PICK family : family = Unmixed(steps)
      OBVIOUS
    <3>2. \A of \in Tuples(system) : F[of] = {s \in family : s.state_from = of}
      BY <2>4, <3>1
    <3>3. \A s \in family : s.state_to \in Tuples(system)
      BY <2>5, <3>1
    <3>4. \E R : IsSpanned(family, R) /\ Closure(F) = {s \in family : s.state_from \in R}
      BY <1>3, <3>2, <3>3, ClosureMeans
    <3> QED
      BY <3>1, <3>4
  <2>7. {Lift(t) : t \in {u \in Unmixed(T) : u.state_from \in K}} = {s \in Unmixed(steps) : s.state_from \in R}
    <3>1. PICK U : U = Unmixed(T)
      OBVIOUS
    <3>2. PICK family : family = Unmixed(steps)
      OBVIOUS
    <3>3. {Lift(t) : t \in {u \in U : u.state_from \in K}} = {s \in family : s.state_from \in R}
      BY <1>3, <2>1, <2>2, <2>3, <2>6, <3>1, <3>2, LiftCleaned
    <3> QED
      BY <3>1, <3>2, <3>3
  <2> QED
    BY <1>4, <1>6, <1>8, <2>1, <2>6, <2>7
<1> QED
  BY <1>7, <1>8

LEMMA InitProduct ==
  ASSUME KeysDistinct, Init
  PROVE  ProductInv
<1>1. AllMade(Arcs) /\ RootedInv /\ Arcs = {} /\ ~ finished
  BY InitMade, EmptyHasNoArcs DEF Init
<1>2. PICK T : T = Arcs
  OBVIOUS
<1>3. IsWhole(T)
  BY <1>1, <1>2 DEF IsWhole
<1> QED
  BY <1>1, <1>2, <1>3 DEF ProductInv

\* What the steps before the end need: the arcs are whole as long as it is not reached.
LEMMA WholeBefore ==
  ASSUME ProductInv, ~ finished
  PROVE  AllMade(Arcs) /\ \A t \in Arcs : Comes(t)
BY DEF ProductInv, IsWhole

LEMMA ProductIfWhole ==
  ASSUME RootedInv', ~ finished', AllMade(Arcs)', ArcsInv'
  PROVE  ProductInv'
<1>1. PICK T : T = Arcs'
  OBVIOUS
<1>2. IsWhole(T)'
  BY <1>1 DEF IsWhole, ArcsInv
<1> QED
  BY <1>1, <1>2 DEF ProductInv

LEMMA RootsStay ==
  ASSUME RootedInv, system' = system, numbered' = numbered
  PROVE  RootedInv'
BY RootedStays

LEMMA PopProduct ==
  ASSUME ExploreInv, ArcsHeld, ProductInv, Pop
  PROVE  ProductInv'
<1>1. NumbersInv /\ FrontierInv /\ ArcsInv
  BY DEF ExploreInv
<1>2. ~ finished /\ ~ finished' /\ UNCHANGED <<system, numbered>>
  BY <1>1 DEF Pop, FrontierInv
<1>3. AllMade(Arcs)'
  BY <1>1, <1>2, WholeBefore, PopMade
<1>4. ArcsInv'
  BY <1>1, PopExplores
<1>5. RootedInv'
  BY <1>2, RootsStay DEF ProductInv
<1> QED
  BY <1>2, <1>3, <1>4, <1>5, ProductIfWhole

LEMMA BlockProduct ==
  ASSUME ExploreInv, ProductInv, Block
  PROVE  ProductInv'
<1>1. NumbersInv /\ FrontierInv /\ ArcsInv
  BY DEF ExploreInv
<1>2. ~ finished /\ ~ finished' /\ UNCHANGED <<system, numbered>>
  BY <1>1 DEF Block, Advance, FrontierInv
<1>3. AllMade(Arcs)'
  BY <1>1, <1>2, WholeBefore, BlockMade
<1>4. ArcsInv'
  BY <1>1, BlockExplores
<1>5. RootedInv'
  BY <1>2, RootsStay DEF ProductInv
<1> QED
  BY <1>2, <1>3, <1>4, <1>5, ProductIfWhole

LEMMA ComposeProduct ==
  ASSUME KeysDistinct, ExploreInv, ProductInv, idxs # NoIdxs, NEW n, IsComposed(n),
         Arcs' = Arcs \cup (IF TriedIsAdded THEN {TriedArc(n)} ELSE {})
  PROVE  ProductInv'
<1>1. NumbersInv /\ FrontierInv /\ ArcsInv
  BY DEF ExploreInv
<1>2. ~ finished /\ ~ finished'
  BY <1>1 DEF IsComposed, FrontierInv
<1>3. AllMade(Arcs)' /\ RootedInv'
  BY <1>1, <1>2, WholeBefore, ComposeMade DEF ProductInv
<1>4. ArcsInv'
  BY <1>1, ComposeArcs
<1> QED
  BY <1>2, <1>3, <1>4, ProductIfWhole

\* What was tried does not change after the last pop.
LEMMA WholeStays ==
  ASSUME UNCHANGED <<system, numbered, processed_list, current, idxs>>, NEW T, IsWhole(T)
  PROVE  IsWhole(T)'
<1>1. Processed' = Processed /\ NoIdxs' = NoIdxs /\ \A c, d : Precedes(c, d)' <=> Precedes(c, d)
  BY StepsStay DEF Processed
<1>2. \A n, c : Tried(n, c)' <=> Tried(n, c)
  <2>1. \A c : Precedes(c, idxs)' <=> Precedes(c, idxs)
    BY DEF Precedes, Component
  <2> QED
    BY <1>1, <2>1 DEF Tried
<1>3. AllMade(T)'
  <2>1. AllMade(T) /\ T \subseteq T
    BY DEF IsWhole
  <2> QED
    BY <1>1, <1>2, <2>1, AllMadeStays
<1>4. \A t \in T : Comes(t)'
  BY ComesStays DEF IsWhole
<1> QED
  BY <1>3, <1>4 DEF IsWhole

LEMMA FinishProduct ==
  ASSUME ProductInv, Finish,
         IF system.no_mixed_states THEN \E T : T = Arcs /\ IsCleaned(T, Arcs') ELSE Arcs' = Arcs
  PROVE  ProductInv'
<1>1. ~ finished /\ finished' /\ UNCHANGED <<system, numbered, processed_list, current, idxs>>
  BY DEF Finish
<1>2. PICK T : T = Arcs /\ IsWhole(T)
  BY <1>1 DEF ProductInv
<1>3. IsWhole(T)'
  BY <1>1, <1>2, WholeStays
<1>4. RootedInv'
  BY <1>1, RootsStay DEF ProductInv
<1>5. PICK left : left = Arcs'
  OBVIOUS
<1>6. IF system.no_mixed_states THEN IsCleaned(T, left) ELSE left = T
  BY <1>2, <1>5
<1>7. IF finished' /\ system'.no_mixed_states THEN IsCleaned(T, left) ELSE left = T
  BY <1>1, <1>6
<1> QED
  BY <1>3, <1>4, <1>5, <1>7 DEF ProductInv, IsCleaned

LEMMA SameProduct ==
  ASSUME ProductInv, UNCHANGED <<system, composition, numbered, processed_list, current, idxs, finished>>
  PROVE  ProductInv'
<1>1. RootedInv'
  BY RootsStay DEF ProductInv
<1>2. PICK T : IsWhole(T) /\ IF finished /\ system.no_mixed_states THEN IsCleaned(T, Arcs) ELSE Arcs = T
  BY DEF ProductInv
<1>3. IsWhole(T)'
  BY <1>2, WholeStays
<1>4. Arcs' = Arcs
  BY DEF Arcs
<1> QED
  BY <1>1, <1>2, <1>3, <1>4 DEF ProductInv, IsCleaned

-----------------------------------------------------------------------------
(****************************************************************************)
(* The transitions of the composition are an automaton: the lemmas about    *)
(* Automaton say what adding an arc and removing mixed states do to them.   *)
(****************************************************************************)
InputLabels == {label \in SUBSET Signal : InputBit \in label}
AutP == INSTANCE AutomatonProofs WITH
          StatesCount <- MaxStates,
          Label <- SUBSET Signal,
          Monitored <- [label \in SUBSET Signal |-> <<>>],
          InputLabel <- InputLabels,
          Transition <- Arc,
          automaton <- composition

\* The lists and counters of the composition are those of its arcs, and until mixed states
\* are removed its flags tell the states that inputs leave.
IsHeld == AutP!Has(composition, Arcs) /\ (~ finished => AutP!Flags(composition, Arcs))

LEMMA InstanceAssumptions ==
  ASSUME system \in Systems
  PROVE  /\ MaxStates \in Nat \ {0}
         /\ InputLabels \subseteq SUBSET Signal
         /\ Arc \subseteq [state_from : AutP!State, state_to : AutP!State, signals : SUBSET Signal]
         /\ MaxTransitions \in Nat
         /\ \A label, other \in SUBSET Signal :
              /\ [l \in SUBSET Signal |-> <<>>][label] \in Seq(Nat)
              /\ Len([l \in SUBSET Signal |-> <<>>][label]) = Len([l \in SUBSET Signal |-> <<>>][other])
<1>1. MaxStates # 0
  <2>1. InitialTuple(system) \in Tuples(system)
    BY InitialTupleIsTuple
  <2>2. IsFiniteSet(Tuples(system)) /\ Cardinality(Tuples(system)) <= MaxStates
    BY BoundsAssumption
  <2>3. Cardinality(Tuples(system)) # 0
    BY <2>1, <2>2, FS_EmptySet
  <2>4. Cardinality(Tuples(system)) \in Nat
    BY <2>2, FS_CardinalityType
  <2> QED
    BY <2>2, <2>3, <2>4, CompositionAssumption
<1>2. MaxStates \in Nat /\ MaxTransitions \in Nat
  BY CompositionAssumption
<1>3. ASSUME NEW label \in SUBSET Signal
      PROVE  [l \in SUBSET Signal |-> <<>>][label] = <<>>
  BY Zenon
<1>4. <<>> \in Seq(Nat)
  BY EmptySeq
<1> QED
  BY <1>1, <1>2, <1>3, <1>4 DEF InputLabels, Arc, AutP!State

LEMMA SameAddition ==
  \A aut, t : Aut!AddTransition(aut, t) = AutP!AddTransition(aut, t)
BY Zenon DEF Aut!AddTransition, AutP!AddTransition, Aut!HasTransition, AutP!HasTransition, Aut!Out, AutP!Out,
   Aut!Contains, AutP!Contains, InputLabels

LEMMA SameRemoval ==
  \A aut : Aut!RemoveMixedStates(aut) = AutP!RemoveMixedStates(aut)
BY Zenon DEF Aut!RemoveMixedStates, AutP!RemoveMixedStates, Aut!RemoveUnreachableStates, AutP!RemoveUnreachableStates,
     Aut!Distant, AutP!Distant, Aut!Further, AutP!Further, Aut!Sweep, AutP!Sweep, Aut!RemoveLeftOver, AutP!RemoveLeftOver,
     Aut!IsLeftOver, AutP!IsLeftOver, Aut!RemoveOutgoing, AutP!RemoveOutgoing, Aut!RemoveNth, AutP!RemoveNth,
     Aut!RemoveOutputs, AutP!RemoveOutputs, Aut!RemoveOutput, AutP!RemoveOutput, Aut!StatesInOrder, AutP!StatesInOrder,
     Aut!Out, AutP!Out, Aut!In, AutP!In, Aut!InitialState, AutP!InitialState, InputLabels, Aut!FoldLeft, AutP!FoldLeft,
     Aut!MapThenFoldSet, AutP!MapThenFoldSet, Aut!Reverse, AutP!Reverse, Aut!ToSet, AutP!ToSet, Aut!Max, AutP!Max,
     Aut!RemoveTransition, AutP!RemoveTransition, Aut!Finds, AutP!Finds, Aut!Contains, AutP!Contains,
     Aut!RemoveFirst, AutP!RemoveFirst, Aut!SelectInSeq, AutP!SelectInSeq, Aut!RemoveAt, AutP!RemoveAt,
     Aut!Min, AutP!Min

\* The arcs of an automaton are the transitions it has.
ArcsOf(aut) == UNION {ToSet(aut.transitions[s]) : s \in 0 .. MaxStates - 1}

LEMMA AllAreArcs == \A aut : AutP!All(aut) = ArcsOf(aut)
BY DEF AutP!All, AutP!State, AutP!Out, AutP!ToSet, ToSet, ArcsOf

LEMMA ArcsOfHeld ==
  ASSUME system \in Systems, NEW aut, NEW T, AutP!Has(aut, T)
  PROVE  ArcsOf(aut) = T
<1>1. AutP!All(aut) = T
  BY InstanceAssumptions, AutP!AllOfAutomaton, Zenon
<1> QED
  BY <1>1, AllAreArcs

LEMMA HeldMeans ==
  ASSUME system \in Systems, IsHeld
  PROVE  ArcsHeld
<1> DEFINE T == Arcs
<1>1. /\ T \subseteq Arc /\ AutP!IsFiniteSet(T) /\ composition.composite_count = AutP!Cardinality(T)
      /\ composition \in AutP!Automata
      /\ \A s \in 0 .. MaxStates - 1 : /\ AutP!Lists(composition.transitions[s], AutP!Leaving(T, s))
                                       /\ AutP!Lists(composition.inverted_transitions[s], AutP!Entering(T, s))
  BY DEF IsHeld, AutP!Has, AutP!State, AutP!Out, AutP!In
<1>2. IsFiniteSet(T) /\ composition.composite_count = Cardinality(T)
  <2>1. AutP!IsFiniteSet(T) <=> IsFiniteSet(T)
    BY DEF AutP!IsFiniteSet, IsFiniteSet
  <2>2. AutP!Cardinality(T) = Cardinality(T)
    BY DEF AutP!Cardinality, Cardinality, AutP!IsFiniteSet, IsFiniteSet
  <2> QED
    BY <1>1, <2>1, <2>2
<1> HIDE DEF T
<1>3. ASSUME NEW s \in 0 .. MaxStates - 1
      PROVE  /\ composition.transitions[s] \in Seq(Arc)
             /\ composition.transitions[s] # <<>> => \E t \in T : t.state_from = s
             /\ composition.inverted_transitions[s] # <<>> => \E t \in T : t.state_to = s
  <2> DEFINE out == composition.transitions[s]
             in == composition.inverted_transitions[s]
  <2>1. AutP!Lists(out, AutP!Leaving(T, s)) /\ AutP!Lists(in, AutP!Entering(T, s))
    BY <1>1
  <2> HIDE DEF out, in
  <2>2. out = <<>> <=> AutP!Leaving(T, s) = {}
    BY <2>1, InstanceAssumptions, AutP!ListOfNothing, Zenon
  <2>3. in = <<>> <=> AutP!Entering(T, s) = {}
    BY <2>1, InstanceAssumptions, AutP!ListOfNothing, Zenon
  <2>4. out \in Seq(Arc)
    BY <2>1 DEF AutP!Lists
  <2> QED
    BY <2>2, <2>3, <2>4 DEF AutP!Leaving, AutP!Entering, out, in
<1> QED
  BY <1>1, <1>2, <1>3 DEF ArcsHeld, T

LEMMA InitHeld ==
  ASSUME system \in Systems, Init
  PROVE  IsHeld
<1>1. AutP!Init
  BY DEF Init, AutP!Init, AutP!State
<1>2. AutP!AutomatonInv
  BY <1>1, InstanceAssumptions, AutP!AutomatonInit, Zenon
<1>3. AutP!Has(composition, AutP!All(composition))
  BY <1>2 DEF AutP!AutomatonInv
<1>4. AutP!Flags(composition, Arcs)
  <2>1. Arcs = {}
    BY EmptyHasNoArcs
  <2>2. \A s \in AutP!State : composition.is_controllable[s] = TRUE
    BY DEF Init, AutP!State
  <2> QED
    BY <2>1, <2>2 DEF AutP!Flags, AutP!Leaving
<1> QED
  BY <1>3, <1>4, AllAreArcs DEF IsHeld, Arcs, ArcsOf

LEMMA ComposeHeld ==
  ASSUME system \in Systems, IsHeld, NEW n, IsComposed(n)
  PROVE  /\ IsHeld'
         /\ Arcs' = Arcs \cup (IF TriedIsAdded THEN {TriedArc(n)} ELSE {})
<1>1. CASE ~TriedIsAdded
  <2>1. composition' = composition /\ finished' = finished
    BY <1>1 DEF IsComposed
  <2> QED
    BY <1>1, <2>1 DEF IsHeld, Arcs
<1>2. CASE TriedIsAdded
  <2> DEFINE T == Arcs
  <2>1. PICK t : t = TriedArc(n)
    OBVIOUS
  <2>2. PICK aut : aut = composition
    OBVIOUS
  <2>3. t \in Arc /\ composition' = AutP!AddTransition(aut, t) /\ AutP!Has(aut, T) /\ finished' = finished
        /\ (~ finished => AutP!Flags(aut, T))
    BY <1>2, <2>1, <2>2, SameAddition DEF IsComposed, IsHeld
  <2> HIDE DEF T
  <2>4. AutP!Has(AutP!AddTransition(aut, t), T \cup {t})
    BY <2>3, InstanceAssumptions, AutP!AddEffect, Zenon
  <2>5. AutP!Has(composition', T \cup {t})
    BY <2>3, <2>4
  <2>6. Arcs' = T \cup {t}
    BY <2>5, ArcsOfHeld DEF Arcs, ArcsOf
  <2>7. AutP!Flags(aut, T) => AutP!Flags(AutP!AddTransition(aut, t), T \cup {t})
    BY <2>3, InstanceAssumptions, AutP!AddFlags, Zenon
  <2>8. ~ finished' => AutP!Flags(composition', T \cup {t})
    BY <2>3, <2>7
  <2> QED
    BY <1>2, <2>1, <2>5, <2>6, <2>8 DEF T, IsHeld
<1> QED
  BY <1>1, <1>2

LEMMA FinishHeld ==
  ASSUME system \in Systems, IsHeld, Finish
  PROVE  /\ IsHeld' /\ Arcs' \subseteq Arcs
         /\ IF system.no_mixed_states THEN \E T : T = Arcs /\ IsCleaned(T, Arcs') ELSE Arcs' = Arcs
<1> DEFINE T == Arcs
<1>1. AutP!Has(composition, T) /\ AutP!Flags(composition, T) /\ finished'
  BY DEF IsHeld, Finish
<1>2. CASE ~system.no_mixed_states
  <2>1. composition' = composition
    BY <1>2 DEF Finish
  <2> QED
    BY <1>1, <1>2, <2>1 DEF IsHeld, Arcs
<1>3. CASE system.no_mixed_states
  <2>1. composition' = AutP!RemoveMixedStates(composition)
    BY <1>3, SameRemoval DEF Finish
  <2> HIDE DEF T
  <2> DEFINE mixed == AutP!MixedOutputs(composition, T, MaxStates)
  <2>2. \E distant :
          /\ AutP!IsLeast(T \ mixed, AutP!Kept(distant))
          /\ AutP!Without(composition, T, mixed \cup {t \in T \ mixed : t.state_from \notin AutP!Kept(distant)},
                          AutP!RemoveMixedStates(composition))
    BY <1>1, InstanceAssumptions, AutP!RemoveMixedStatesEffect, Zenon
  <2>3. mixed = {t \in T : AutP!IsOutput(t) /\ \E u \in T : u.state_from = t.state_from /\ ~ AutP!IsOutput(u)}
    BY <1>1, InstanceAssumptions, AutP!MixedByFlags, Zenon
  <2> HIDE DEF mixed
  <2>4. PICK K, X : /\ AutP!IsLeast(T \ mixed, K) /\ X = mixed \cup {t \in T \ mixed : t.state_from \notin K}
                    /\ AutP!Without(composition, T, X, composition')
    BY <2>1, <2>2
  <2>5. AutP!Has(composition', T \ X)
    BY <2>4 DEF AutP!Without
  <2>6. Arcs' = T \ X
    BY <2>5, ArcsOfHeld DEF Arcs, ArcsOf
  <2>7. T \ mixed = Unmixed(T)
    <3>1. \A t \in T : AutP!IsOutput(t) <=> InputBit \notin t.signals
      <4>1. T \subseteq Arc
        BY <1>1 DEF AutP!Has
      <4> QED
        BY <4>1 DEF AutP!IsOutput, InputLabels, Arc
    <3> QED
      BY <2>3, <3>1 DEF Unmixed
  <2>8. IsLeastSet(T \ mixed, K)
    BY <2>4 DEF IsLeastSet, AutP!IsLeast, AutP!Closed, AutP!InitialState
  <2>9. IsCleaned(T, T \ X)
    <3>1. T \ X = {t \in T \ mixed : t.state_from \in K}
      BY <2>4
    <3> QED
      BY <2>7, <2>8, <3>1 DEF IsCleaned
  <2> QED
    BY <1>1, <1>3, <2>5, <2>6, <2>9 DEF T, IsHeld
<1> QED
  BY <1>2, <1>3

\* The inductive invariant of the composition.
CompositionInv == ExploreInv /\ IsHeld /\ MarksInv /\ ProductInv

LEMMA CompositionInit ==
  ASSUME KeysDistinct, Init
  PROVE  CompositionInv
<1>1. ExploreInv
  BY InitExplores DEF ExploreInv
<1>2. system \in Systems /\ NumbersInv
  BY <1>1 DEF ExploreInv, NumbersInv
<1> QED
  BY <1>1, <1>2, InitHeld, InitMarks, InitProduct DEF CompositionInv

LEMMA CompositionStep ==
  ASSUME KeysDistinct, CompositionInv, [Next]_vars
  PROVE  CompositionInv'
<1> USE DEF CompositionInv
<1> DEFINE same == composition' = composition
<1>1. NumbersInv /\ FrontierInv /\ ArcsInv /\ system \in Systems /\ ExploreInv /\ IsHeld /\ MarksInv /\ ArcsHeld
  <2>1. system \in Systems
    BY DEF ExploreInv, NumbersInv
  <2> QED
    BY <2>1, HeldMeans DEF ExploreInv
<1>2. ASSUME same, finished' = finished PROVE IsHeld' /\ Arcs' \subseteq Arcs
  BY <1>1, <1>2 DEF IsHeld, Arcs
<1>3. CASE Pop
  <2>1. same /\ UNCHANGED <<system, numbered, marks, saved, finished>>
    BY <1>3 DEF Pop
  <2>2. ExploreInv' /\ ProductInv'
    BY <1>1, <1>3, PopExplores, PopProduct DEF ExploreInv
  <2> QED
    BY <1>1, <1>2, <2>1, <2>2, SameMarks
<1>4. CASE Block
  <2>1. same /\ UNCHANGED <<system, numbered, marks, saved, finished>>
    BY <1>4 DEF Block
  <2>2. ExploreInv' /\ ProductInv'
    BY <1>1, <1>4, BlockExplores, BlockProduct DEF ExploreInv
  <2> QED
    BY <1>1, <1>2, <2>1, <2>2, SameMarks
<1>5. CASE Compose
  <2>1. PICK n : IsComposed(n)
    BY <1>1, <1>5, ComposeEffect
  <2>2. IsHeld' /\ Arcs' = Arcs \cup (IF TriedIsAdded THEN {TriedArc(n)} ELSE {})
    BY <1>1, <2>1, ComposeHeld
  <2>3. idxs # NoIdxs
    BY <1>5 DEF Compose, Advance
  <2>4. ExploreInv'
    BY <1>1, <2>1, <2>2, <2>3, ComposeNumbers, ComposeArcs, ComposeFrontier DEF ExploreInv
  <2>5. MarksInv'
    BY <1>1, <1>5, <2>1, <2>2, ComposeMarks
  <2>6. ProductInv'
    BY <1>1, <2>1, <2>2, <2>3, ComposeProduct
  <2> QED
    BY <2>2, <2>4, <2>5, <2>6
<1>6. CASE Finish
  <2>1. IsHeld' /\ Arcs' \subseteq Arcs /\ ProductInv'
    BY <1>1, <1>6, FinishHeld, FinishProduct
  <2>2. ExploreInv'
    BY <1>1, <1>6, <2>1, FinishExplores DEF ExploreInv
  <2>3. UNCHANGED <<system, numbered, marks, saved>> /\ (finished => finished')
    BY <1>6 DEF Finish
  <2> QED
    BY <1>1, <2>1, <2>2, <2>3, SameMarks
<1>7. CASE Merge
  <2>1. same /\ finished' = finished /\ ExploreInv' /\ ProductInv'
    BY <1>1, <1>7, OtherStepExplores, SameProduct DEF Merge
  <2> QED
    BY <1>1, <1>2, <1>7, <2>1, MergeMarks
<1>8. CASE Restore
  <2>1. same /\ finished' = finished /\ ExploreInv' /\ ProductInv'
    BY <1>1, <1>8, OtherStepExplores, SameProduct DEF Restore
  <2> QED
    BY <1>1, <1>2, <1>8, <2>1, RestoreMarks
<1>9. CASE UNCHANGED vars
  <2>1. same /\ ExploreInv' /\ ProductInv' /\ UNCHANGED <<system, numbered, marks, saved, finished>>
    BY <1>1, <1>9, OtherStepExplores, SameProduct DEF vars
  <2> QED
    BY <1>1, <1>2, <2>1, SameMarks
<1> QED
  BY <1>3, <1>4, <1>5, <1>6, <1>7, <1>8, <1>9 DEF Next

\* The numbers of tuples, the stack, the lists, the arcs and the marks of valuations fit
\* together in every state of the exploration and of the syntheses after it, if no two
\* composite states have the same key.
THEOREM CompositionInvariant == ASSUME KeysDistinct PROVE Spec => []CompositionInv
<1>1. Init => CompositionInv
  BY CompositionInit
<1>2. CompositionInv /\ [Next]_vars => CompositionInv'
  BY CompositionStep
<1> QED
  BY <1>1, <1>2, PTL DEF Spec

\* The odometer, the stack, the lists and the counters stay within the bounds that the
\* arrays of the code are made with, whatever systems are composed.
THEOREM CompositionTypeCorrect == ASSUME KeysDistinct PROVE Spec => []CompositionTypeOK
<1>1. CompositionInv => CompositionTypeOK
  BY HeldMeans, TypeIsCorrect DEF CompositionInv, ExploreInv, NumbersInv
<1>2. Spec => []CompositionInv
  BY CompositionInvariant
<1> QED
  BY <1>1, <1>2, PTL

\* A composite state keeps the number that its first search in the table gave it, through
\* every split of the slots and every change of the order.
THEOREM NumbersDistinct == ASSUME KeysDistinct PROVE Spec => []NumbersAreDistinct
<1>1. CompositionInv => NumbersAreDistinct
  BY NumbersStayDistinct DEF CompositionInv
<1>2. Spec => []CompositionInv
  BY CompositionInvariant
<1> QED
  BY <1>1, <1>2, PTL

\* The lists the solver counts goals by agree with the bits it reads ranks by on the states
\* that are entered, also while the valuations of a game are merged into its fluents.
THEOREM ListsAgreeAlways == ASSUME KeysDistinct PROVE Spec => []ListsAgree
<1>1. CompositionInv => ListsAgree
  BY HeldMeans, MarkedListsAgree DEF CompositionInv, ExploreInv, NumbersInv
<1>2. Spec => []CompositionInv
  BY CompositionInvariant
<1> QED
  BY <1>1, <1>2, PTL

\* The transitions of the result are those of the parallel composition: none is lost to the
\* combinations that are skipped, to partial labels or to the order of the exploration, none
\* is added, and without mixed states what remains is what the inputs that are kept lead to.
THEOREM CompositionProduct == ASSUME KeysDistinct, WordsAreRead PROVE Spec => []CompositionIsProduct
<1>1. CompositionInv => CompositionIsProduct
  BY ProductAtTheEnd DEF CompositionInv
<1>2. Spec => []CompositionInv
  BY CompositionInvariant
<1> QED
  BY <1>1, <1>2, PTL

=============================================================================
