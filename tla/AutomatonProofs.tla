--------------------------- MODULE AutomatonProofs ---------------------------
(****************************************************************************)
(* What adding, removing, ordering and cleaning keep of an automaton, for   *)
(* every number of states and transitions: the two copies of a transition   *)
(* agree, options are contiguous after the order, and the loops that remove *)
(* transitions while they go through them remove the right ones.            *)
(*                                                                          *)
(* An automaton is reasoned about as the set of its transitions: Has says   *)
(* that its lists and counters are those of the set, and each operation is  *)
(* shown to add to the set or take from it.                                 *)
(****************************************************************************)
EXTENDS Automaton, FiniteSetTheorems, SequenceTheorems, TLAPS

-----------------------------------------------------------------------------
(****************************************************************************)
(* Lists that have each member of a set once.                               *)
(****************************************************************************)
Lists(list, T) ==
  /\ list \in Seq(Transition)
  /\ ToSet(list) = T
  /\ IsInjective(list)

\* shorter is list without its entry k.
Shortened(list, k, shorter) ==
  /\ shorter \in Seq(Transition) /\ Len(shorter) = Len(list) - 1
  /\ \A i \in 1 .. Len(list) - 1 : shorter[i] = IF i < k THEN list[i] ELSE list[i + 1]

LEMMA ListFacts ==
  ASSUME NEW list, NEW T, Lists(list, T)
  PROVE  /\ Len(list) \in Nat /\ DOMAIN list = 1 .. Len(list)
         /\ \A i \in 1 .. Len(list) : list[i] \in Transition /\ list[i] \in T
         /\ \A t \in T : \E i \in 1 .. Len(list) : list[i] = t
         /\ \A i, k \in 1 .. Len(list) : list[i] = list[k] => i = k
         /\ T \subseteq Transition
<1>1. Len(list) \in Nat /\ DOMAIN list = 1 .. Len(list) /\ \A i \in 1 .. Len(list) : list[i] \in Transition
  BY LenProperties DEF Lists
<1> QED
  BY <1>1 DEF Lists, ToSet, IsInjective

LEMMA EmptyListsNothing == Lists(<<>>, {}) /\ \A T : Lists(<<>>, T) => T = {}
<1>1. <<>> \in Seq(Transition) /\ Len(<<>>) = 0 /\ DOMAIN <<>> = {}
  BY EmptySeq, LenProperties
<1> QED
  BY <1>1 DEF Lists, ToSet, IsInjective

LEMMA ListOfNothing ==
  ASSUME NEW list, NEW T, Lists(list, T)
  PROVE  list = <<>> <=> T = {}
<1>1. CASE T = {}
  <2>1. Len(list) \in Nat /\ ~ \E i \in 1 .. Len(list) : TRUE
    BY <1>1, ListFacts
  <2>2. Len(list) = 0
    <3>1. Len(list) > 0 => 1 \in 1 .. Len(list)
      BY <2>1
    <3> QED
      BY <2>1, <3>1
  <2> QED
    BY <1>1, <2>2, EmptySeq DEF Lists
<1>2. CASE T # {}
  BY <1>2, EmptyListsNothing
<1> QED
  BY <1>1, <1>2

LEMMA AppendToList ==
  ASSUME NEW list, NEW T, Lists(list, T), NEW t \in Transition, t \notin T
  PROVE  Lists(Append(list, t), T \cup {t}) /\ Len(Append(list, t)) = Len(list) + 1
<1> DEFINE n == Len(list)
           more == Append(list, t)
<1>1. /\ n \in Nat /\ \A i \in 1 .. n : list[i] \in T
      /\ \A u \in T : \E i \in 1 .. n : list[i] = u
      /\ \A i, k \in 1 .. n : list[i] = list[k] => i = k
  BY ListFacts
<1>2. /\ more \in Seq(Transition) /\ Len(more) = n + 1
      /\ \A i \in 1 .. n : more[i] = list[i]
      /\ more[n + 1] = t
  BY AppendProperties DEF Lists
<1> HIDE DEF more, n
<1>3. DOMAIN more = 1 .. n + 1
  BY <1>2, LenProperties
<1>4. \A i \in 1 .. n + 1 : i \in 1 .. n \/ i = n + 1
  BY <1>1
<1>5. /\ \A i \in 1 .. n : i \in 1 .. n + 1
      /\ n + 1 \in 1 .. n + 1
  BY <1>1
<1>6. ToSet(more) = T \cup {t}
  BY <1>1, <1>2, <1>3, <1>4, <1>5 DEF ToSet
<1>7. IsInjective(more)
  BY <1>1, <1>2, <1>3, <1>4 DEF IsInjective
<1> QED
  BY <1>2, <1>6, <1>7 DEF Lists, more, n

LEMMA ShortenedList ==
  ASSUME NEW list, NEW T, Lists(list, T), NEW k \in 1 .. Len(list),
         NEW shorter, Shortened(list, k, shorter)
  PROVE  Lists(shorter, T \ {list[k]})
<1> DEFINE n == Len(list)
<1>1. /\ n \in Nat /\ k \in 1 .. n /\ \A i \in 1 .. n : list[i] \in T
      /\ \A u \in T : \E i \in 1 .. n : list[i] = u
      /\ \A i, j \in 1 .. n : list[i] = list[j] => i = j
  BY ListFacts
<1>2. shorter \in Seq(Transition) /\ DOMAIN shorter = 1 .. n - 1
  BY LenProperties DEF Shortened
<1>3. \A i \in 1 .. n - 1 : shorter[i] = IF i < k THEN list[i] ELSE list[i + 1]
  BY DEF Shortened
<1> HIDE DEF n
<1>4. \A i \in 1 .. n - 1 : i \in 1 .. n /\ i + 1 \in 1 .. n /\ (~ (i < k) => i + 1 # k)
  BY <1>1
<1>5. ASSUME NEW i \in 1 .. n - 1 PROVE shorter[i] \in T \ {list[k]}
  <2>1. CASE i < k
    <3>1. i \in 1 .. n /\ i # k /\ shorter[i] = list[i]
      BY <1>1, <1>3, <1>4, <2>1
    <3> QED
      BY <1>1, <3>1
  <2>2. CASE ~ (i < k)
    <3>1. i + 1 \in 1 .. n /\ i + 1 # k /\ shorter[i] = list[i + 1]
      BY <1>3, <1>4, <2>2
    <3> QED
      BY <1>1, <3>1
  <2> QED
    BY <2>1, <2>2
<1>6. ASSUME NEW u \in T \ {list[k]} PROVE \E i \in 1 .. n - 1 : shorter[i] = u
  <2>1. PICK i \in 1 .. n : list[i] = u
    BY <1>1
  <2>2. CASE i < k
    <3>1. i \in 1 .. n - 1
      BY <1>1, <2>2
    <3> QED
      BY <1>3, <2>1, <2>2, <3>1
  <2>3. CASE ~ (i < k)
    <3>1. i # k
      BY <2>1
    <3>2. i - 1 \in 1 .. n - 1 /\ ~ (i - 1 < k) /\ (i - 1) + 1 = i
      BY <1>1, <2>3, <3>1
    <3> QED
      BY <1>3, <2>1, <3>2
  <2> QED
    BY <2>2, <2>3
<1>7. ToSet(shorter) = T \ {list[k]}
  BY <1>2, <1>5, <1>6 DEF ToSet
<1>8. ASSUME NEW i \in 1 .. n - 1, NEW j \in 1 .. n - 1, shorter[i] = shorter[j] PROVE i = j
  <2> DEFINE At(e) == IF e < k THEN e ELSE e + 1
  <2>1. shorter[i] = list[At(i)] /\ shorter[j] = list[At(j)]
    BY <1>3
  <2>2. At(i) \in 1 .. n /\ At(j) \in 1 .. n
    BY <1>4
  <2>3. At(i) = At(j)
    <3> HIDE DEF At
    <3> QED
      BY <1>1, <1>8, <2>1, <2>2
  <2> QED
    BY <1>1, <2>3
<1>9. IsInjective(shorter)
  BY <1>2, <1>8 DEF IsInjective
<1> QED
  BY <1>2, <1>7, <1>9 DEF Lists

\* The entry that is removed first is the only one.
LEMMA RemoveFirstShortens ==
  ASSUME NEW list, NEW T, Lists(list, T), NEW k \in 1 .. Len(list)
  PROVE  Shortened(list, k, RemoveFirst(list, list[k]))
<1> DEFINE n == Len(list)
           e == list[k]
           I == {i \in 1 .. n : list[i] = e}
           front == SubSeq(list, 1, k - 1)
           back == SubSeq(list, k + 1, n)
<1>1. /\ n \in Nat /\ k \in 1 .. n
      /\ \A i \in 1 .. n : list[i] \in Transition
      /\ \A i, j \in 1 .. n : list[i] = list[j] => i = j
  BY ListFacts
<1>2. I = {k}
  BY <1>1
<1>3. Min({k}) = k
  BY <1>1 DEF Min
<1>4. SelectInSeq(list, LAMBDA v : v = e) = k
  <2>1. SelectInSeq(list, LAMBDA v : v = e) = IF I # {} THEN Min(I) ELSE 0
    BY DEF SelectInSeq
  <2> HIDE DEF I
  <2> QED
    BY <1>2, <1>3, <2>1
<1>5. RemoveFirst(list, e) = front \o back
  BY <1>4 DEF RemoveFirst, RemoveAt
<1>6. /\ front \in Seq(Transition) /\ Len(front) = k - 1
      /\ \A i \in 1 .. k - 1 : front[i] = list[i]
  <2>1. \A i \in 1 .. k - 1 : list[i] \in Transition
    BY <1>1
  <2>2. /\ front \in Seq(Transition)
        /\ Len(front) = (IF 1 <= k - 1 THEN (k - 1) - 1 + 1 ELSE 0)
        /\ \A i \in 1 .. (k - 1) - 1 + 1 : front[i] = list[1 + i - 1]
    BY <1>1, <2>1, SubSeqProperties
  <2>3. \A i \in 1 .. k - 1 : i \in 1 .. (k - 1) - 1 + 1 /\ 1 + i - 1 = i
    BY <1>1
  <2> HIDE DEF front
  <2> QED
    BY <1>1, <2>2, <2>3
<1>7. /\ back \in Seq(Transition) /\ Len(back) = n - k
      /\ \A i \in 1 .. n - k : back[i] = list[k + i]
  <2>1. \A i \in k + 1 .. n : list[i] \in Transition
    BY <1>1
  <2>2. /\ back \in Seq(Transition)
        /\ Len(back) = (IF k + 1 <= n THEN n - (k + 1) + 1 ELSE 0)
        /\ \A i \in 1 .. n - (k + 1) + 1 : back[i] = list[(k + 1) + i - 1]
    BY <1>1, <2>1, SubSeqProperties
  <2>3. \A i \in 1 .. n - k : i \in 1 .. n - (k + 1) + 1 /\ (k + 1) + i - 1 = k + i
    BY <1>1
  <2> HIDE DEF back
  <2> QED
    BY <1>1, <2>2, <2>3
<1> DEFINE both == front \o back
<1> HIDE DEF front, back
<1>8. /\ both \in Seq(Transition) /\ Len(both) = (k - 1) + (n - k)
      /\ \A i \in 1 .. (k - 1) + (n - k) : both[i] = IF i <= k - 1 THEN front[i] ELSE back[i - (k - 1)]
  BY <1>6, <1>7, ConcatProperties
<1> HIDE DEF both, n
<1>9. ASSUME NEW i \in 1 .. n - 1 PROVE both[i] = IF i < k THEN list[i] ELSE list[i + 1]
  <2>1. i \in 1 .. (k - 1) + (n - k)
    BY <1>1
  <2>2. CASE i < k
    <3>1. i \in 1 .. k - 1 /\ i <= k - 1
      BY <1>1, <2>2
    <3> QED
      BY <1>6, <1>8, <2>1, <2>2, <3>1
  <2>3. CASE ~ (i < k)
    <3>1. i - (k - 1) \in 1 .. n - k /\ ~ (i <= k - 1) /\ k + (i - (k - 1)) = i + 1
      BY <1>1, <2>3
    <3> QED
      BY <1>7, <1>8, <2>1, <2>3, <3>1
  <2> QED
    BY <2>2, <2>3
<1>10. (k - 1) + (n - k) = n - 1
  BY <1>1
<1>11. Shortened(list, k, both)
  BY <1>8, <1>9, <1>10 DEF Shortened, n
<1> QED
  BY <1>5, <1>11 DEF both, e

LEMMA RemoveFromList ==
  ASSUME NEW list, NEW T, Lists(list, T), NEW t \in T
  PROVE  /\ Contains(list, t)
         /\ Lists(RemoveFirst(list, t), T \ {t})
         /\ Len(RemoveFirst(list, t)) = Len(list) - 1
<1>1. PICK k \in 1 .. Len(list) : list[k] = t
  BY ListFacts
<1>2. Shortened(list, k, RemoveFirst(list, t))
  BY <1>1, RemoveFirstShortens
<1>3. Lists(RemoveFirst(list, t), T \ {t})
  BY <1>1, <1>2, ShortenedList
<1> QED
  BY <1>1, <1>2, <1>3 DEF Contains, Shortened

LEMMA ContainsListed ==
  ASSUME NEW list, NEW T, Lists(list, T), NEW t
  PROVE  Contains(list, t) <=> t \in T
BY ListFacts DEF Contains

LEMMA ReversedList ==
  ASSUME NEW list, NEW T, Lists(list, T)
  PROVE  Lists(Reverse(list), T)
<1> DEFINE n == Len(list)
           back == Reverse(list)
<1>1. /\ n \in Nat /\ \A i \in 1 .. n : list[i] \in Transition /\ list[i] \in T
      /\ \A u \in T : \E i \in 1 .. n : list[i] = u
      /\ \A i, k \in 1 .. n : list[i] = list[k] => i = k
  BY ListFacts
<1>2. DOMAIN back = 1 .. n /\ \A i \in 1 .. n : back[i] = list[(n - i) + 1]
  BY DEF Reverse
<1>3. back = [i \in 1 .. n |-> back[i]]
  BY DEF Reverse
<1> HIDE DEF back, n
<1>4. \A i \in 1 .. n : (n - i) + 1 \in 1 .. n /\ (n - ((n - i) + 1)) + 1 = i
  BY <1>1
<1>5. \A i \in 1 .. n : back[i] \in Transition
  BY <1>1, <1>2, <1>4
<1>6. back \in Seq(Transition)
  BY <1>1, <1>3, <1>5
<1>7. ToSet(back) = T
  <2>1. \A i \in 1 .. n : back[i] \in T
    BY <1>1, <1>2, <1>4
  <2>2. ASSUME NEW u \in T PROVE \E i \in 1 .. n : back[i] = u
    <3>1. PICK i \in 1 .. n : list[i] = u
      BY <1>1
    <3>2. back[(n - i) + 1] = u
      BY <1>2, <1>4, <3>1
    <3> QED
      BY <1>4, <3>2
  <2> QED
    BY <1>2, <2>1, <2>2 DEF ToSet
<1>8. IsInjective(back)
  <2>1. ASSUME NEW i \in 1 .. n, NEW k \in 1 .. n, back[i] = back[k] PROVE i = k
    <3>1. (n - i) + 1 = (n - k) + 1
      BY <1>1, <1>2, <1>4, <2>1
    <3> QED
      BY <1>1, <3>1
  <2> QED
    BY <1>2, <2>1 DEF IsInjective
<1> QED
  BY <1>6, <1>7, <1>8 DEF Lists, back

\* A list is as long as its set is large.
LEMMA ListLength ==
  ASSUME NEW list, NEW T, Lists(list, T)
  PROVE  IsFiniteSet(T) /\ Cardinality(T) = Len(list)
<1> DEFINE n == Len(list)
<1>1. n \in Nat /\ DOMAIN list = 1 .. n /\ list \in [1 .. n -> Transition]
  BY LenProperties DEF Lists
<1>2. list \in Bijection(1 .. n, T)
  <2>1. list \in [1 .. n -> T]
    BY <1>1, ListFacts
  <2>2. \A t \in T : \E i \in 1 .. n : list[i] = t
    BY ListFacts
  <2>3. \A i, k \in 1 .. n : list[i] = list[k] => i = k
    BY ListFacts
  <2> HIDE DEF n
  <2> QED
    BY <2>1, <2>2, <2>3 DEF Bijection, Injection, Surjection, IsInjective
<1>3. IsFiniteSet(1 .. n) /\ Cardinality(1 .. n) = n
  <2>1. 1 \in Int /\ n \in Int
    BY <1>1
  <2>2. IsFiniteSet(1 .. n) /\ Cardinality(1 .. n) = IF 1 > n THEN 0 ELSE n - 1 + 1
    BY <2>1, FS_Interval
  <2> QED
    BY <1>1, <2>2
<1>4. IsFiniteSet(T) /\ Cardinality(T) = Cardinality(1 .. n)
  <2>1. ExistsBijection(1 .. n, T)
    BY <1>2 DEF ExistsBijection
  <2> QED
    BY <1>2, <1>3, <2>1, FS_Bijection
<1> QED
  BY <1>3, <1>4

-----------------------------------------------------------------------------
(****************************************************************************)
(* An automaton whose lists and counters are those of a set of transitions. *)
(****************************************************************************)
Leaving(T, s) == {t \in T : t.state_from = s}
Entering(T, s) == {t \in T : t.state_to = s}

Automata ==
  [transitions : [State -> Seq(Transition)], inverted_transitions : [State -> Seq(Transition)],
   is_controllable : [State -> BOOLEAN], max_out_degree : Nat, composite_count : Nat,
   ordered : BOOLEAN]

\* The automaton has exactly the transitions T, each in both its lists, and counts them.
Has(aut, T) ==
  /\ aut \in Automata
  /\ \A s \in State : /\ Lists(Out(aut, s), Leaving(T, s))
                      /\ Lists(In(aut, s), Entering(T, s))
                      /\ Len(Out(aut, s)) <= aut.max_out_degree
  /\ T \subseteq Transition /\ IsFiniteSet(T)
  /\ aut.composite_count = Cardinality(T)

LEMMA TransitionEnds ==
  ASSUME NEW t \in Transition
  PROVE  t.state_from \in State /\ t.state_to \in State /\ t.signals \in Label
BY AutomatonAssumption

LEMMA AllOfAutomaton ==
  ASSUME NEW aut, NEW T, Has(aut, T)
  PROVE  All(aut) = T
<1>1. \A s \in State : ToSet(Out(aut, s)) = Leaving(T, s)
  BY DEF Has, Lists
<1>2. \A t \in T : t.state_from \in State
  BY TransitionEnds DEF Has
<1>3. T = UNION {Leaving(T, s) : s \in State}
  BY <1>2 DEF Leaving
<1>4. All(aut) = UNION {Leaving(T, s) : s \in State}
  BY <1>1 DEF All
<1> QED
  BY <1>3, <1>4

LEMMA HasTransitionMeans ==
  ASSUME NEW aut, NEW T, Has(aut, T), NEW t \in Transition
  PROVE  HasTransition(aut, t) <=> t \in T
<1>1. t.state_from \in State
  BY TransitionEnds
<1>2. Lists(Out(aut, t.state_from), Leaving(T, t.state_from))
  BY <1>1 DEF Has
<1>3. Contains(Out(aut, t.state_from), t) <=> t \in Leaving(T, t.state_from)
  BY <1>2, ContainsListed
<1> QED
  BY <1>3 DEF HasTransition, Leaving

\* Adding a transition.
LEMMA AddEffect ==
  ASSUME NEW aut, NEW T, Has(aut, T), NEW t \in Transition
  PROVE  /\ Has(AddTransition(aut, t), T \cup {t})
         /\ AddTransition(aut, t) = aut \/ AddTransition(aut, t).ordered = FALSE
         /\ AddTransition(aut, t).max_out_degree <= aut.max_out_degree
              \/ \E s \in State : Len(Out(AddTransition(aut, t), s)) = AddTransition(aut, t).max_out_degree
<1>1. CASE t \in T
  <2>1. AddTransition(aut, t) = aut /\ T \cup {t} = T
    BY <1>1, HasTransitionMeans DEF AddTransition
  <2>2. aut.max_out_degree <= aut.max_out_degree
    BY DEF Has, Automata
  <2> QED
    BY <2>1, <2>2
<1>2. CASE t \notin T
  <2> DEFINE s == t.state_from
             u == t.state_to
             more == T \cup {t}
             degree == Len(Out(aut, s)) + 1
             next == AddTransition(aut, t)
  <2>1. s \in State /\ u \in State
    BY TransitionEnds
  <2>2. next = [aut EXCEPT !.transitions[s] = Append(@, t),
                           !.inverted_transitions[u] = Append(@, t),
                           !.is_controllable[s] = @ /\ t.signals \notin InputLabel,
                           !.max_out_degree = IF degree > @ THEN degree ELSE @,
                           !.composite_count = @ + 1,
                           !.ordered = FALSE]
    BY <1>2, HasTransitionMeans DEF AddTransition
  <2>3. /\ aut \in Automata /\ T \subseteq Transition /\ IsFiniteSet(T)
        /\ aut.composite_count = Cardinality(T)
    BY DEF Has
  <2>4. /\ next.transitions = [aut.transitions EXCEPT ![s] = Append(aut.transitions[s], t)]
        /\ next.inverted_transitions
             = [aut.inverted_transitions EXCEPT ![u] = Append(aut.inverted_transitions[u], t)]
        /\ next.is_controllable
             = [aut.is_controllable EXCEPT ![s] = aut.is_controllable[s] /\ t.signals \notin InputLabel]
        /\ next.max_out_degree = IF degree > aut.max_out_degree THEN degree ELSE aut.max_out_degree
        /\ next.composite_count = aut.composite_count + 1
        /\ next.ordered = FALSE
        /\ next = [transitions |-> next.transitions, inverted_transitions |-> next.inverted_transitions,
                   is_controllable |-> next.is_controllable, max_out_degree |-> next.max_out_degree,
                   composite_count |-> next.composite_count, ordered |-> next.ordered]
    BY <2>2, <2>3 DEF Automata
  <2>5. degree \in Nat /\ degree = Len(Out(aut, s)) + 1
    BY <2>1, ListFacts DEF Has
  <2> HIDE DEF next, more, degree, s, u
  <2>6. \A w \in State : /\ Lists(Out(aut, w), Leaving(T, w)) /\ Lists(In(aut, w), Entering(T, w))
                         /\ Len(Out(aut, w)) <= aut.max_out_degree
    BY DEF Has
  <2>7. /\ \A w \in State : Out(next, w) = IF w = s THEN Append(Out(aut, w), t) ELSE Out(aut, w)
        /\ \A w \in State : In(next, w) = IF w = u THEN Append(In(aut, w), t) ELSE In(aut, w)
    BY <2>1, <2>3, <2>4 DEF Automata, Out, In
  <2>8. /\ \A w \in State : Leaving(more, w) = IF w = s THEN Leaving(T, w) \cup {t} ELSE Leaving(T, w)
        /\ \A w \in State : Entering(more, w) = IF w = u THEN Entering(T, w) \cup {t} ELSE Entering(T, w)
    BY DEF Leaving, Entering, more, s, u
  <2>9. /\ Lists(Append(Out(aut, s), t), Leaving(T, s) \cup {t})
        /\ Len(Append(Out(aut, s), t)) = degree
    <3>1. Lists(Out(aut, s), Leaving(T, s)) /\ t \notin Leaving(T, s)
      BY <1>2, <2>1, <2>6 DEF Leaving
    <3> QED
      BY <2>5, <3>1, AppendToList
  <2>10. Lists(Append(In(aut, u), t), Entering(T, u) \cup {t})
    <3>1. Lists(In(aut, u), Entering(T, u)) /\ t \notin Entering(T, u)
      BY <1>2, <2>1, <2>6 DEF Entering
    <3> QED
      BY <3>1, AppendToList
  <2>11. ASSUME NEW w \in State
         PROVE  /\ Lists(Out(next, w), Leaving(more, w)) /\ Lists(In(next, w), Entering(more, w))
                /\ Len(Out(next, w)) <= next.max_out_degree
    <3>1. Lists(Out(next, w), Leaving(more, w))
      BY <2>6, <2>7, <2>8, <2>9
    <3>2. Lists(In(next, w), Entering(more, w))
      BY <2>6, <2>7, <2>8, <2>10
    <3>3. Len(Out(next, w)) <= next.max_out_degree
      <4>1. Len(Out(aut, w)) \in Nat /\ aut.max_out_degree \in Nat
        BY <2>3, <2>6, ListFacts DEF Automata
      <4>2. Len(Out(next, w)) = IF w = s THEN degree ELSE Len(Out(aut, w))
        BY <2>7, <2>9
      <4>3. Len(Out(aut, w)) <= aut.max_out_degree
        BY <2>6
      <4> QED
        BY <2>4, <2>5, <4>1, <4>2, <4>3
    <3> QED
      BY <3>1, <3>2, <3>3
  <2>12. next \in Automata
    <3>1. /\ Append(aut.transitions[s], t) \in Seq(Transition)
          /\ Append(aut.inverted_transitions[u], t) \in Seq(Transition)
      BY <2>9, <2>10 DEF Lists, Out, In
    <3>2. next.transitions \in [State -> Seq(Transition)]
      BY <2>1, <2>3, <2>4, <3>1 DEF Automata
    <3>3. next.inverted_transitions \in [State -> Seq(Transition)]
      BY <2>1, <2>3, <2>4, <3>1 DEF Automata
    <3>4. next.is_controllable \in [State -> BOOLEAN]
      BY <2>1, <2>3, <2>4 DEF Automata
    <3>5. next.max_out_degree \in Nat /\ next.composite_count \in Nat /\ next.ordered \in BOOLEAN
      <4>1. aut.max_out_degree \in Nat /\ aut.composite_count \in Nat
        BY <2>3 DEF Automata
      <4>2. next.max_out_degree \in Nat
        BY <2>4, <2>5, <4>1
      <4>3. next.composite_count \in Nat
        BY <2>4, <4>1
      <4>4. next.ordered \in BOOLEAN
        BY <2>4
      <4> QED
        BY <4>2, <4>3, <4>4
    <3> HIDE DEF Automata
    <3> QED
      BY <2>4, <3>2, <3>3, <3>4, <3>5 DEF Automata
  <2>13. IsFiniteSet(more) /\ next.composite_count = Cardinality(more)
    BY <1>2, <2>3, <2>4, FS_AddElement DEF more
  <2>14. Has(next, more)
    BY <2>3, <2>11, <2>12, <2>13 DEF Has, more
  <2>15. \/ next.max_out_degree <= aut.max_out_degree
         \/ \E w \in State : Len(Out(next, w)) = next.max_out_degree
    BY <2>1, <2>3, <2>4, <2>5, <2>7, <2>9 DEF Automata
  <2> QED
    BY <2>4, <2>14, <2>15 DEF next, more
<1> QED
  BY <1>1, <1>2

\* What is left of aut without the transitions X.
Without(aut, T, X, left) ==
  /\ Has(left, T \ X)
  /\ left.is_controllable = aut.is_controllable
  /\ left.max_out_degree = aut.max_out_degree
  /\ left = aut \/ left.ordered = FALSE

\* Removing a transition that is there.
LEMMA RemoveEffect ==
  ASSUME NEW aut, NEW T, Has(aut, T), NEW t \in T
  PROVE  Without(aut, T, {t}, RemoveTransition(aut, t))
<1> DEFINE s == t.state_from
           u == t.state_to
           less == T \ {t}
           left == RemoveTransition(aut, t)
<1>1. t \in Transition /\ s \in State /\ u \in State
  BY TransitionEnds DEF Has
<1>2. /\ aut \in Automata /\ T \subseteq Transition /\ IsFiniteSet(T)
      /\ aut.composite_count = Cardinality(T)
  BY DEF Has
<1>3. \A w \in State : /\ Lists(Out(aut, w), Leaving(T, w)) /\ Lists(In(aut, w), Entering(T, w))
                       /\ Len(Out(aut, w)) <= aut.max_out_degree
  BY DEF Has
<1>4. /\ Contains(Out(aut, s), t)
      /\ Lists(RemoveFirst(Out(aut, s), t), Leaving(T, s) \ {t})
      /\ Len(RemoveFirst(Out(aut, s), t)) = Len(Out(aut, s)) - 1
  <2>1. Lists(Out(aut, s), Leaving(T, s)) /\ t \in Leaving(T, s)
    BY <1>1, <1>3 DEF Leaving
  <2> QED
    BY <2>1, RemoveFromList
<1>5. /\ Contains(In(aut, u), t)
      /\ Lists(RemoveFirst(In(aut, u), t), Entering(T, u) \ {t})
  <2>1. Lists(In(aut, u), Entering(T, u)) /\ t \in Entering(T, u)
    BY <1>1, <1>3 DEF Entering
  <2> QED
    BY <2>1, RemoveFromList
<1>6. left = [aut EXCEPT !.transitions[s] = RemoveFirst(@, t),
                         !.inverted_transitions[u] = RemoveFirst(@, t),
                         !.composite_count = @ - 1,
                         !.ordered = FALSE]
  BY <1>4, <1>5 DEF RemoveTransition, Finds
<1>7. /\ left.transitions = [aut.transitions EXCEPT ![s] = RemoveFirst(aut.transitions[s], t)]
      /\ left.inverted_transitions
           = [aut.inverted_transitions EXCEPT ![u] = RemoveFirst(aut.inverted_transitions[u], t)]
      /\ left.is_controllable = aut.is_controllable
      /\ left.max_out_degree = aut.max_out_degree
      /\ left.composite_count = aut.composite_count - 1
      /\ left.ordered = FALSE
      /\ left = [transitions |-> left.transitions, inverted_transitions |-> left.inverted_transitions,
                 is_controllable |-> left.is_controllable, max_out_degree |-> left.max_out_degree,
                 composite_count |-> left.composite_count, ordered |-> left.ordered]
  BY <1>2, <1>6 DEF Automata
<1> HIDE DEF left, less, s, u
<1>8. /\ \A w \in State : Out(left, w) = IF w = s THEN RemoveFirst(Out(aut, w), t) ELSE Out(aut, w)
      /\ \A w \in State : In(left, w) = IF w = u THEN RemoveFirst(In(aut, w), t) ELSE In(aut, w)
  BY <1>1, <1>2, <1>7 DEF Automata, Out, In
<1>9. /\ \A w \in State : Leaving(less, w) = IF w = s THEN Leaving(T, w) \ {t} ELSE Leaving(T, w)
      /\ \A w \in State : Entering(less, w) = IF w = u THEN Entering(T, w) \ {t} ELSE Entering(T, w)
  BY DEF Leaving, Entering, less, s, u
<1>10. ASSUME NEW w \in State
       PROVE  /\ Lists(Out(left, w), Leaving(less, w)) /\ Lists(In(left, w), Entering(less, w))
              /\ Len(Out(left, w)) <= left.max_out_degree
  <2>1. Lists(Out(left, w), Leaving(less, w))
    BY <1>3, <1>4, <1>8, <1>9
  <2>2. Lists(In(left, w), Entering(less, w))
    BY <1>3, <1>5, <1>8, <1>9
  <2>3. Len(Out(left, w)) <= left.max_out_degree
    <3>1. Len(Out(aut, w)) \in Nat /\ aut.max_out_degree \in Nat
      BY <1>2, <1>3, ListFacts DEF Automata
    <3>2. Len(Out(left, w)) = IF w = s THEN Len(Out(aut, w)) - 1 ELSE Len(Out(aut, w))
      BY <1>4, <1>8
    <3>3. Len(Out(aut, w)) <= aut.max_out_degree
      BY <1>3
    <3> QED
      BY <1>7, <3>1, <3>2, <3>3
  <2> QED
    BY <2>1, <2>2, <2>3
<1>11. IsFiniteSet(less) /\ Cardinality(less) = Cardinality(T) - 1 /\ Cardinality(less) \in Nat
  <2>1. IsFiniteSet(less) /\ Cardinality(less) = Cardinality(T) - 1
    BY <1>2, FS_RemoveElement DEF less
  <2> QED
    BY <2>1, FS_CardinalityType
<1>12. left \in Automata
  <2>1. /\ RemoveFirst(aut.transitions[s], t) \in Seq(Transition)
        /\ RemoveFirst(aut.inverted_transitions[u], t) \in Seq(Transition)
    BY <1>4, <1>5 DEF Lists, Out, In
  <2>2. left.transitions \in [State -> Seq(Transition)]
    BY <1>1, <1>2, <1>7, <2>1 DEF Automata
  <2>3. left.inverted_transitions \in [State -> Seq(Transition)]
    BY <1>1, <1>2, <1>7, <2>1 DEF Automata
  <2>4. left.composite_count \in Nat
    BY <1>2, <1>7, <1>11
  <2>5. left.is_controllable \in [State -> BOOLEAN] /\ left.max_out_degree \in Nat /\ left.ordered \in BOOLEAN
    BY <1>2, <1>7 DEF Automata
  <2> QED
    BY <1>7, <2>2, <2>3, <2>4, <2>5 DEF Automata
<1>13. Has(left, less)
  BY <1>2, <1>7, <1>10, <1>11, <1>12 DEF Has, less
<1> QED
  BY <1>7, <1>13 DEF Without, left, less

\* Removing a transition that is not there, from a state that has others.
LEMMA RemoveNothing ==
  ASSUME NEW aut, NEW T, Has(aut, T), NEW t \in Transition, t \notin T,
         Out(aut, t.state_from) # <<>>
  PROVE  RemoveTransition(aut, t) = aut
<1>1. ~ Contains(Out(aut, t.state_from), t)
  BY HasTransitionMeans DEF HasTransition
<1> QED
  BY <1>1 DEF RemoveTransition, Finds

\* Removing twice.
LEMMA WithoutMore ==
  ASSUME NEW aut, NEW T, NEW X, NEW Y, NEW left, NEW last,
         Without(aut, T, X, left), Without(left, T \ X, Y, last)
  PROVE  Without(aut, T, X \cup Y, last)
<1>1. (T \ X) \ Y = T \ (X \cup Y)
  OBVIOUS
<1> QED
  BY <1>1 DEF Without

LEMMA WithoutNothing ==
  ASSUME NEW aut, NEW T, Has(aut, T)
  PROVE  Without(aut, T, {}, aut)
<1>1. T \ {} = T
  OBVIOUS
<1> QED
  BY <1>1 DEF Without

-----------------------------------------------------------------------------
(****************************************************************************)
(* The loop over the transitions of a state that removes them: it skips     *)
(* every second one, but takes the first.                                   *)
(****************************************************************************)
OutgoingTurn(c, a, j) == RemoveNth(a, c.state, j)
OutgoingRemoved(c, k, a) ==
  \E X : /\ X \subseteq Leaving(c.all, c.state)
         /\ Without(c.automaton, c.all, X, a)
         /\ k > 0 /\ Leaving(c.all, c.state) # {} => X # {}
Outgoing == INSTANCE Iteration WITH Op <- OutgoingTurn, Inv <- OutgoingRemoved

LEMMA RemoveNthEffect ==
  ASSUME NEW aut, NEW T, Has(aut, T), NEW s \in State, NEW j \in Nat \ {0}
  PROVE  \E X : /\ X \subseteq Leaving(T, s)
                /\ Without(aut, T, X, RemoveNth(aut, s, j))
                /\ j = 1 /\ Leaving(T, s) # {} => X # {}
<1>1. Lists(Out(aut, s), Leaving(T, s))
  BY DEF Has
<1>2. /\ Len(Out(aut, s)) \in Nat
      /\ \A i \in 1 .. Len(Out(aut, s)) : Out(aut, s)[i] \in Leaving(T, s)
  BY <1>1, ListFacts
<1>3. CASE j <= Len(Out(aut, s))
  <2> DEFINE t == Out(aut, s)[j]
  <2>1. t \in Leaving(T, s)
    BY <1>2, <1>3
  <2>2. RemoveNth(aut, s, j) = RemoveTransition(aut, t)
    BY <1>3 DEF RemoveNth
  <2> HIDE DEF t
  <2>3. t \in T
    BY <2>1 DEF Leaving
  <2>4. Without(aut, T, {t}, RemoveNth(aut, s, j))
    BY <2>2, <2>3, RemoveEffect
  <2> QED
    BY <2>1, <2>4
<1>4. CASE ~ (j <= Len(Out(aut, s)))
  <2>1. RemoveNth(aut, s, j) = aut
    BY <1>4 DEF RemoveNth
  <2>2. Without(aut, T, {}, RemoveNth(aut, s, j))
    BY <2>1, WithoutNothing
  <2>3. j = 1 => Leaving(T, s) = {}
    <3>1. ASSUME j = 1 PROVE Leaving(T, s) = {}
      <4>1. ~ \E i \in 1 .. Len(Out(aut, s)) : TRUE
        BY <1>2, <1>4, <3>1
      <4> QED
        BY <1>1, <4>1, ListFacts
    <3> QED
      BY <3>1
  <2> QED
    BY <2>2, <2>3
<1> QED
  BY <1>3, <1>4

LEMMA RemoveOutgoingEffect ==
  ASSUME NEW aut, NEW T, Has(aut, T), NEW s \in State
  PROVE  \E X : /\ X \subseteq Leaving(T, s)
                /\ Without(aut, T, X, RemoveOutgoing(aut, s))
                /\ Leaving(T, s) # {} => X # {}
<1> DEFINE c == [automaton |-> aut, all |-> T, state |-> s]
           after == CHOOSE f : Outgoing!IsIteration(f, c, aut)
           n == Len(Out(aut, s))
<1>1. Outgoing!IsIteration(after, c, aut)
  BY Outgoing!IterationExists
<1>2. RemoveOutgoing(aut, s) = after[n]
  <2>1. c.state = s
    OBVIOUS
  <2> HIDE DEF c
  <2> QED
    BY <2>1, Zenon DEF RemoveOutgoing, Outgoing!IsIteration, OutgoingTurn
<1>3. c.automaton = aut /\ c.all = T /\ c.state = s
  OBVIOUS
<1> HIDE DEF after, c
<1>4. OutgoingRemoved(c, 0, aut)
  BY <1>3, WithoutNothing DEF OutgoingRemoved
<1>5. ASSUME NEW k \in Nat, NEW a, OutgoingRemoved(c, k, a)
      PROVE  OutgoingRemoved(c, k + 1, OutgoingTurn(c, a, k + 1))
  <2>1. PICK X : /\ X \subseteq Leaving(T, s)
                 /\ Without(aut, T, X, a)
                 /\ k > 0 /\ Leaving(T, s) # {} => X # {}
    BY <1>3, <1>5 DEF OutgoingRemoved
  <2>2. Has(a, T \ X) /\ k + 1 \in Nat \ {0}
    BY <2>1 DEF Without
  <2>3. PICK Y : /\ Y \subseteq Leaving(T \ X, s)
                 /\ Without(a, T \ X, Y, RemoveNth(a, s, k + 1))
                 /\ k + 1 = 1 /\ Leaving(T \ X, s) # {} => Y # {}
    BY <2>2, RemoveNthEffect
  <2>4. Without(aut, T, X \cup Y, RemoveNth(a, s, k + 1))
    BY <2>1, <2>3, WithoutMore
  <2>5. X \cup Y \subseteq Leaving(T, s)
    BY <2>1, <2>3 DEF Leaving
  <2>6. Leaving(T, s) # {} => X \cup Y # {}
    <3>1. CASE k > 0
      BY <2>1, <3>1
    <3>2. CASE ~ (k > 0)
      <4>1. k + 1 = 1
        BY <3>2
      <4>2. X = {} => Leaving(T \ X, s) = Leaving(T, s)
        BY DEF Leaving
      <4> QED
        BY <2>3, <4>1, <4>2
    <3> QED
      BY <3>1, <3>2
  <2> QED
    BY <1>3, <2>4, <2>5, <2>6 DEF OutgoingRemoved, OutgoingTurn
<1>6. \A k \in Nat : OutgoingRemoved(c, k, after[k])
  <2>1. \A k \in Nat : \A a : OutgoingRemoved(c, k, a) => OutgoingRemoved(c, k + 1, OutgoingTurn(c, a, k + 1))
    BY <1>5
  <2> QED
    BY <1>1, <1>4, <2>1, Outgoing!IterationInvariant
<1>7. Lists(Out(aut, s), Leaving(T, s))
  BY DEF Has
<1>8. n \in Nat
  BY <1>7, ListFacts
<1>9. Leaving(T, s) # {} => n > 0
  <2>1. Leaving(T, s) # {} => \E i \in 1 .. n : TRUE
    BY <1>7, ListFacts
  <2> QED
    BY <1>8, <2>1
<1> HIDE DEF n
<1> QED
  BY <1>2, <1>3, <1>6, <1>8, <1>9 DEF OutgoingRemoved

-----------------------------------------------------------------------------
(****************************************************************************)
(* One sweep over the states.  It leaves the states alone that the initial  *)
(* one leads to: each is entered from another such state, or is the initial *)
(* one.                                                                     *)
(****************************************************************************)
Kept(distant) == distant \cup {InitialState}

Rooted(T, distant) ==
  \A s \in distant : s # InitialState =>
    \E t \in T : t.state_to = s /\ t.state_from \in Kept(distant)

IsSwept(aut, T, distant, k, X, left) ==
  /\ X \subseteq T /\ \A t \in X : t.state_from \notin Kept(distant)
  /\ Without(aut, T, X, left)
  /\ \A s \in State : s < k /\ s \notin Kept(distant) /\ Leaving(T, s) # {} => Leaving(X, s) # {}

SweepTurn(c, a, s) == RemoveLeftOver(a, c.distant, s)
SweptTo(c, k, a) == \E X : IsSwept(c.automaton, c.all, c.distant, k, X, a)
Sweeping == INSTANCE Iteration WITH Op <- SweepTurn, Inv <- SweptTo

LEMMA RemoveLeftOverEffect ==
  ASSUME NEW aut, NEW T, Has(aut, T), NEW distant, Rooted(T, distant), NEW s \in State
  PROVE  \E X : /\ X \subseteq Leaving(T, s)
                /\ Without(aut, T, X, RemoveLeftOver(aut, distant, s))
                /\ s \in Kept(distant) => X = {}
                /\ s \notin Kept(distant) /\ Leaving(T, s) # {} => X # {}
<1>1. Lists(Out(aut, s), Leaving(T, s)) /\ Lists(In(aut, s), Entering(T, s))
  BY DEF Has
<1>2. /\ Out(aut, s) = <<>> <=> Leaving(T, s) = {}
      /\ In(aut, s) = <<>> <=> Entering(T, s) = {}
  BY <1>1, ListOfNothing
<1>3. CASE s \in Kept(distant)
  <2>1. ~ IsLeftOver(aut, distant, s)
    <3>1. CASE s = InitialState
      BY <3>1 DEF IsLeftOver
    <3>2. CASE s # InitialState
      <4>1. s \in distant
        BY <1>3, <3>2 DEF Kept
      <4>2. Entering(T, s) # {}
        BY <3>2, <4>1 DEF Rooted, Entering
      <4> QED
        BY <1>2, <4>1, <4>2 DEF IsLeftOver
    <3> QED
      BY <3>1, <3>2
  <2>2. RemoveLeftOver(aut, distant, s) = aut
    BY <2>1 DEF RemoveLeftOver
  <2> QED
    BY <1>3, <2>2, WithoutNothing
<1>4. CASE s \notin Kept(distant) /\ Leaving(T, s) # {}
  <2>1. IsLeftOver(aut, distant, s)
    BY <1>2, <1>4 DEF IsLeftOver, Kept
  <2>2. RemoveLeftOver(aut, distant, s) = RemoveOutgoing(aut, s)
    BY <2>1 DEF RemoveLeftOver
  <2>3. PICK X : /\ X \subseteq Leaving(T, s)
                 /\ Without(aut, T, X, RemoveOutgoing(aut, s))
                 /\ Leaving(T, s) # {} => X # {}
    BY RemoveOutgoingEffect
  <2> QED
    BY <1>4, <2>2, <2>3
<1>5. CASE s \notin Kept(distant) /\ Leaving(T, s) = {}
  <2>1. PICK X : /\ X \subseteq Leaving(T, s)
                 /\ Without(aut, T, X, RemoveOutgoing(aut, s))
    BY RemoveOutgoingEffect
  <2>2. X = {}
    BY <1>5, <2>1
  <2>3. Without(aut, T, {}, RemoveLeftOver(aut, distant, s))
    BY <2>1, <2>2, WithoutNothing DEF RemoveLeftOver
  <2> QED
    BY <1>5, <2>3
<1> QED
  BY <1>3, <1>4, <1>5

LEMMA StatesAreInOrder ==
  /\ StatesCount \in Nat \ {0}
  /\ DOMAIN StatesInOrder = 1 .. StatesCount
  /\ \A k \in 0 .. StatesCount - 1 : k \in State /\ StatesInOrder[k + 1] = k
<1>1. StatesCount \in Nat \ {0}
  BY AutomatonAssumption
<1>2. ASSUME NEW k \in 0 .. StatesCount - 1 PROVE k \in State /\ StatesInOrder[k + 1] = k
  <2>1. k + 1 \in 1 .. StatesCount /\ (k + 1) - 1 = k
    BY <1>1
  <2> QED
    BY <2>1 DEF StatesInOrder, State
<1> QED
  BY <1>1, <1>2 DEF StatesInOrder

LEMMA SweepEffect ==
  ASSUME NEW aut, NEW T, Has(aut, T), NEW distant, Rooted(T, distant)
  PROVE  \E X : IsSwept(aut, T, distant, StatesCount, X, Sweep(aut, distant))
<1> DEFINE c == [automaton |-> aut, all |-> T, distant |-> distant]
           n == StatesCount
           list == StatesInOrder
           iter == CHOOSE it : Sweeping!IsFold(it, c, aut, list, DOMAIN list)
<1>1. n \in Nat /\ DOMAIN list = 1 .. n /\ \A k \in 0 .. n - 1 : k \in State /\ list[k + 1] = k
  BY StatesAreInOrder
<1>2. c.automaton = aut /\ c.all = T /\ c.distant = distant
  OBVIOUS
<1> HIDE DEF c, n, list
<1>3. Sweep(aut, distant) = iter[DOMAIN list]
  BY <1>2, Zenon DEF Sweep, FoldLeft, MapThenFoldSet, Max, Sweeping!IsFold, SweepTurn, list
<1>4. Sweeping!IsFold(iter, c, aut, list, 1 .. n)
  <2>1. \E it : Sweeping!IsFold(it, c, aut, list, 1 .. n)
    BY <1>1, Sweeping!FoldExists, Zenon
  <2> QED
    BY <1>1, <2>1, Zenon
<1> HIDE DEF iter
<1>5. SweptTo(c, 0, aut)
  <2>1. IsSwept(aut, T, distant, 0, {}, aut)
    BY WithoutNothing DEF IsSwept, State
  <2> QED
    BY <1>2, <2>1 DEF SweptTo
<1>6. ASSUME NEW k \in 0 .. n - 1, NEW a, SweptTo(c, k, a)
      PROVE  SweptTo(c, k + 1, SweepTurn(c, a, list[k + 1]))
  <2>1. PICK X : IsSwept(aut, T, distant, k, X, a)
    BY <1>2, <1>6 DEF SweptTo
  <2>2. /\ X \subseteq T /\ \A t \in X : t.state_from \notin Kept(distant)
        /\ Without(aut, T, X, a)
        /\ \A s \in State : s < k /\ s \notin Kept(distant) /\ Leaving(T, s) # {} => Leaving(X, s) # {}
    BY <2>1 DEF IsSwept
  <2>3. k \in State /\ list[k + 1] = k
    BY <1>1
  <2>4. Rooted(T \ X, distant)
    BY <2>2 DEF Rooted
  <2>5. Has(a, T \ X)
    BY <2>2 DEF Without
  <2>6. PICK Y : /\ Y \subseteq Leaving(T \ X, k)
                 /\ Without(a, T \ X, Y, RemoveLeftOver(a, distant, k))
                 /\ k \in Kept(distant) => Y = {}
                 /\ k \notin Kept(distant) /\ Leaving(T \ X, k) # {} => Y # {}
    BY <2>3, <2>4, <2>5, RemoveLeftOverEffect
  <2>7. Without(aut, T, X \cup Y, RemoveLeftOver(a, distant, k))
    BY <2>2, <2>6, WithoutMore
  <2>8. X \cup Y \subseteq T /\ \A t \in X \cup Y : t.state_from \notin Kept(distant)
    BY <2>2, <2>6 DEF Leaving
  <2>9. ASSUME NEW s \in State, s < k + 1, s \notin Kept(distant), Leaving(T, s) # {}
        PROVE  Leaving(X \cup Y, s) # {}
    <3>1. CASE s < k
      BY <2>2, <2>9, <3>1 DEF Leaving
    <3>2. CASE ~ (s < k)
      <4>1. s = k
        BY <1>1, <2>9, <3>2 DEF State
      <4>2. CASE Leaving(T \ X, k) # {}
        BY <2>6, <2>9, <4>1, <4>2 DEF Leaving
      <4>3. CASE Leaving(T \ X, k) = {}
        BY <2>9, <4>1, <4>3 DEF Leaving
      <4> QED
        BY <4>2, <4>3
    <3> QED
      BY <3>1, <3>2
  <2>10. IsSwept(aut, T, distant, k + 1, X \cup Y, RemoveLeftOver(a, distant, k))
    BY <2>7, <2>8, <2>9 DEF IsSwept
  <2> QED
    BY <1>2, <2>3, <2>10 DEF SweptTo, SweepTurn
<1>7. SweptTo(c, n, iter[1 .. n])
  BY <1>1, <1>4, <1>5, <1>6, Sweeping!FoldInvariant, Zenon
<1>8. \E X : IsSwept(aut, T, distant, n, X, Sweep(aut, distant))
  BY <1>1, <1>2, <1>3, <1>7 DEF SweptTo
<1> QED
  BY <1>8 DEF n

-----------------------------------------------------------------------------
(****************************************************************************)
(* Sweeping until nothing is left to remove.                                *)
(****************************************************************************)
\* A smaller set has a shorter list.
LEMMA ShorterList ==
  ASSUME NEW list, NEW T, Lists(list, T), NEW less, NEW S, Lists(less, S), S \subseteq T, S # T
  PROVE  Len(less) < Len(list)
<1>1. IsFiniteSet(T) /\ Cardinality(T) = Len(list) /\ Cardinality(S) = Len(less)
  BY ListLength
<1>2. Cardinality(S) <= Cardinality(T)
  BY <1>1, FS_Subset
<1>3. Cardinality(S) # Cardinality(T)
  BY <1>1, FS_Subset
<1>4. Len(list) \in Nat /\ Len(less) \in Nat
  BY ListFacts
<1> QED
  BY <1>1, <1>2, <1>3, <1>4

IsLeft(aut, T, distant, n, X, left) ==
  /\ X \subseteq T /\ \A t \in X : t.state_from \notin Kept(distant)
  /\ Without(aut, T, X, left)
  /\ \A s \in State : s \notin Kept(distant) =>
       Out(left, s) = <<>> \/ Len(Out(left, s)) + n <= aut.max_out_degree

SweepsTurn(c, a, n) == Sweep(a, c.distant)
LeftAfter(c, n, a) == \E X : IsLeft(c.automaton, c.all, c.distant, n, X, a)
Sweeps == INSTANCE Iteration WITH Op <- SweepsTurn, Inv <- LeftAfter

LEMMA SweepShortens ==
  ASSUME NEW aut, NEW T, Has(aut, T), NEW distant, Rooted(T, distant),
         NEW n \in Nat, NEW X, NEW a, IsLeft(aut, T, distant, n, X, a)
  PROVE  \E Y : IsLeft(aut, T, distant, n + 1, Y, Sweep(a, distant))
<1>1. /\ X \subseteq T /\ \A t \in X : t.state_from \notin Kept(distant)
      /\ Without(aut, T, X, a)
      /\ \A s \in State : s \notin Kept(distant) =>
           Out(a, s) = <<>> \/ Len(Out(a, s)) + n <= aut.max_out_degree
  BY DEF IsLeft
<1>2. Rooted(T \ X, distant)
  BY <1>1 DEF Rooted
<1>3. Has(a, T \ X)
  BY <1>1 DEF Without
<1>4. PICK Y : IsSwept(a, T \ X, distant, StatesCount, Y, Sweep(a, distant))
  BY <1>2, <1>3, SweepEffect
<1>5. /\ Y \subseteq T \ X /\ \A t \in Y : t.state_from \notin Kept(distant)
      /\ Without(a, T \ X, Y, Sweep(a, distant))
      /\ \A s \in State : s < StatesCount /\ s \notin Kept(distant) /\ Leaving(T \ X, s) # {} => Leaving(Y, s) # {}
  BY <1>4 DEF IsSwept
<1>6. Without(aut, T, X \cup Y, Sweep(a, distant))
  BY <1>1, <1>5, WithoutMore
<1>7. Has(Sweep(a, distant), (T \ X) \ Y)
  BY <1>5 DEF Without
<1>8. ASSUME NEW s \in State, s \notin Kept(distant)
      PROVE  Out(Sweep(a, distant), s) = <<>> \/ Len(Out(Sweep(a, distant), s)) + (n + 1) <= aut.max_out_degree
  <2> DEFINE old == Out(a, s)
             new == Out(Sweep(a, distant), s)
             before == Leaving(T \ X, s)
             after == Leaving((T \ X) \ Y, s)
  <2>1. Lists(old, before) /\ Lists(new, after)
    BY <1>3, <1>7 DEF Has
  <2>2. after \subseteq before
    BY DEF Leaving
  <2>3. before # {} => after # before
    <3>1. s < StatesCount
      BY StatesAreInOrder DEF State
    <3>2. before # {} => Leaving(Y, s) # {}
      BY <1>5, <1>8, <3>1
    <3> QED
      BY <1>5, <3>2 DEF Leaving
  <2>4. old = <<>> \/ Len(old) + n <= aut.max_out_degree
    BY <1>1, <1>8
  <2>5. aut.max_out_degree \in Nat
    BY DEF Has, Automata
  <2> HIDE DEF old, new, before, after
  <2>6. CASE before = {}
    <3>1. after = {}
      BY <2>2, <2>6
    <3>2. new = <<>>
      BY <2>1, <3>1, ListOfNothing
    <3> QED
      BY <3>2 DEF new
  <2>7. CASE before # {}
    <3>1. old # <<>>
      BY <2>1, <2>7, ListOfNothing
    <3>2. Len(new) < Len(old)
      BY <2>1, <2>2, <2>3, <2>7, ShorterList
    <3>3. Len(new) \in Nat /\ Len(old) \in Nat
      BY <2>1, ListFacts
    <3>4. Len(new) + (n + 1) <= aut.max_out_degree
      BY <2>4, <2>5, <3>1, <3>2, <3>3
    <3> QED
      BY <3>4 DEF new
  <2> QED
    BY <2>6, <2>7
<1>9. X \cup Y \subseteq T /\ \A t \in X \cup Y : t.state_from \notin Kept(distant)
  BY <1>1, <1>5
<1>10. IsLeft(aut, T, distant, n + 1, X \cup Y, Sweep(a, distant))
  BY <1>6, <1>8, <1>9 DEF IsLeft
<1> QED
  BY <1>10

-----------------------------------------------------------------------------
\* The states found so far are entered from one of them.
FurtherTurn(c, X, n) == Further(c.automaton, X)
FoundFrom(c, n, X) ==
  /\ c.state \in X
  /\ \A s \in X : s = c.state \/ \E t \in c.all : t.state_to = s /\ t.state_from \in X
Finding == INSTANCE Iteration WITH Op <- FurtherTurn, Inv <- FoundFrom

LEMMA DistantIsRooted ==
  ASSUME NEW aut, NEW T, Has(aut, T)
  PROVE  Rooted(T, Distant(aut, InitialState))
<1> DEFINE c == [automaton |-> aut, all |-> T, state |-> InitialState]
           first == {InitialState}
           within == CHOOSE f : Finding!IsIteration(f, c, first)
<1>1. Finding!IsIteration(within, c, first)
  BY Finding!IterationExists
<1>2. c.automaton = aut /\ c.all = T /\ c.state = InitialState
  OBVIOUS
<1> HIDE DEF c
<1>3. Distant(aut, InitialState) = within[StatesCount] \ {InitialState}
  BY <1>2, Zenon DEF Distant, Finding!IsIteration, FurtherTurn
<1> HIDE DEF within
<1>4. FoundFrom(c, 0, first)
  BY <1>2 DEF FoundFrom
<1>5. ASSUME NEW k \in Nat, NEW X, FoundFrom(c, k, X)
      PROVE  FoundFrom(c, k + 1, FurtherTurn(c, X, k + 1))
  <2>1. /\ InitialState \in X
        /\ \A s \in X : s = InitialState \/ \E t \in T : t.state_to = s /\ t.state_from \in X
    BY <1>2, <1>5 DEF FoundFrom
  <2>2. \A u \in X : u \in State => ToSet(Out(aut, u)) = Leaving(T, u)
    BY DEF Has, Lists
  <2>3. X \subseteq State => \A s \in Further(aut, X) : s \in X \/ \E t \in T : t.state_to = s /\ t.state_from \in X
    BY <2>2 DEF Further, Leaving
  <2>4. X \subseteq State
    <3>1. InitialState \in State
      BY StatesAreInOrder DEF State, InitialState
    <3>2. \A t \in T : t.state_to \in State
      BY TransitionEnds DEF Has
    <3> QED
      BY <2>1, <3>1, <3>2
  <2>5. X \subseteq Further(aut, X)
    BY DEF Further
  <2> QED
    BY <1>2, <2>1, <2>3, <2>4, <2>5 DEF FoundFrom, FurtherTurn
<1>6. \A k \in Nat : FoundFrom(c, k, within[k])
  <2>1. \A k \in Nat : \A a : FoundFrom(c, k, a) => FoundFrom(c, k + 1, FurtherTurn(c, a, k + 1))
    BY <1>5
  <2> HIDE DEF first
  <2> QED
    BY <1>1, <1>4, <2>1, Finding!IterationInvariant
<1>7. FoundFrom(c, StatesCount, within[StatesCount])
  BY <1>6, StatesAreInOrder
<1>8. within[StatesCount] = Kept(Distant(aut, InitialState))
  BY <1>2, <1>3, <1>7 DEF FoundFrom, Kept
<1> QED
  BY <1>2, <1>3, <1>7, <1>8 DEF FoundFrom, Rooted

\* The least set that has the initial state and what transitions lead to from it.
Closed(T, S) == InitialState \in S /\ \A t \in T : t.state_from \in S => t.state_to \in S
IsLeast(T, K) == Closed(T, K) /\ \A S : Closed(T, S) => K \subseteq S

\* As long as it is not all found, every turn finds one more.
FoundAll(c, n, X) ==
  /\ X \subseteq State /\ InitialState \in X
  /\ \A S : Closed(c.all, S) => X \subseteq S
  /\ Closed(c.all, X) \/ Cardinality(X) > n
FindingAll == INSTANCE Iteration WITH Op <- FurtherTurn, Inv <- FoundAll

LEMMA FurtherFinds ==
  ASSUME NEW aut, NEW T, Has(aut, T), NEW X \in SUBSET State, InitialState \in X
  PROVE  /\ Further(aut, X) = X \cup {t.state_to : t \in {u \in T : u.state_from \in X}}
         /\ Further(aut, X) \in SUBSET State
         /\ Further(aut, X) = X => Closed(T, X)
<1> DEFINE leaving == UNION {ToSet(Out(aut, u)) : u \in X}
           from == {u \in T : u.state_from \in X}
<1>1. \A u \in X : ToSet(Out(aut, u)) = Leaving(T, u)
  BY DEF Has, Lists
<1>2. leaving = from
  <2>1. leaving = UNION {Leaving(T, u) : u \in X}
    BY <1>1
  <2> QED
    BY <2>1 DEF Leaving
<1>3. Further(aut, X) = X \cup {t.state_to : t \in leaving}
  BY DEF Further
<1>4. \A t \in T : t.state_to \in State
  BY TransitionEnds DEF Has
<1> HIDE DEF leaving
<1>5. Further(aut, X) = X \cup {t.state_to : t \in from}
  BY <1>2, <1>3
<1> QED
  BY <1>4, <1>5 DEF Closed

LEMMA DistantIsLeast ==
  ASSUME NEW aut, NEW T, Has(aut, T)
  PROVE  IsLeast(T, Kept(Distant(aut, InitialState)))
<1> DEFINE c == [automaton |-> aut, all |-> T]
           first == {InitialState}
           within == CHOOSE f : FindingAll!IsIteration(f, c, first)
<1>1. FindingAll!IsIteration(within, c, first)
  BY FindingAll!IterationExists
<1>2. c.automaton = aut /\ c.all = T
  OBVIOUS
<1> HIDE DEF c
<1>3. Distant(aut, InitialState) = within[StatesCount] \ {InitialState}
  BY <1>2, Zenon DEF Distant, FindingAll!IsIteration, FurtherTurn
<1> HIDE DEF within
<1>4. IsFiniteSet(State) /\ Cardinality(State) = StatesCount /\ StatesCount \in Nat /\ InitialState \in State
  <2>1. StatesCount \in Nat \ {0}
    BY StatesAreInOrder
  <2>2. State = 0 .. StatesCount - 1 /\ 0 <= StatesCount - 1
    BY <2>1 DEF State
  <2>3. IsFiniteSet(0 .. StatesCount - 1) /\ Cardinality(0 .. StatesCount - 1) = StatesCount
    BY <2>1, <2>2, FS_Interval
  <2> QED
    BY <2>1, <2>2, <2>3 DEF InitialState
<1>5. \A X \in SUBSET State : IsFiniteSet(X) /\ Cardinality(X) \in Nat /\ Cardinality(X) <= StatesCount
  BY <1>4, FS_Subset, FS_CardinalityType
<1>6. FoundAll(c, 0, first)
  <2>1. IsFiniteSet(first) /\ Cardinality(first) = 1
    BY FS_Singleton
  <2> QED
    BY <1>4, <2>1 DEF FoundAll, Closed
<1>7. ASSUME NEW k \in Nat, NEW X, FoundAll(c, k, X)
      PROVE  FoundAll(c, k + 1, FurtherTurn(c, X, k + 1))
  <2> DEFINE Y == Further(aut, X)
  <2>1. /\ X \in SUBSET State /\ InitialState \in X
        /\ \A S : Closed(T, S) => X \subseteq S
        /\ Closed(T, X) \/ Cardinality(X) > k
    BY <1>2, <1>7 DEF FoundAll
  <2>2. /\ Y = X \cup {t.state_to : t \in {u \in T : u.state_from \in X}}
        /\ Y \in SUBSET State
        /\ Y = X => Closed(T, X)
    BY <2>1, FurtherFinds
  <2> HIDE DEF Y
  <2>3. \A S : Closed(T, S) => Y \subseteq S
    BY <2>1, <2>2 DEF Closed
  <2>4. Closed(T, Y) \/ Cardinality(Y) > k + 1
    <3>1. CASE Y = X
      BY <2>2, <3>1
    <3>2. CASE Y # X
      <4>1. X \subseteq Y /\ IsFiniteSet(Y) /\ Cardinality(X) \in Nat /\ Cardinality(Y) \in Nat
        BY <1>5, <2>1, <2>2
      <4>2. Cardinality(X) < Cardinality(Y)
        <5>1. Cardinality(X) <= Cardinality(Y) /\ (Cardinality(X) = Cardinality(Y) => X = Y)
          BY <4>1, FS_Subset
        <5> QED
          BY <3>2, <4>1, <5>1
      <4>3. Closed(T, X) => Y \subseteq X
        BY <2>3
      <4> QED
        BY <2>1, <3>2, <4>1, <4>2, <4>3
    <3> QED
      BY <3>1, <3>2
  <2> QED
    BY <1>2, <2>1, <2>2, <2>3, <2>4 DEF FoundAll, FurtherTurn, Y
<1>8. \A k \in Nat : FoundAll(c, k, within[k])
  <2>1. \A k \in Nat : \A a : FoundAll(c, k, a) => FoundAll(c, k + 1, FurtherTurn(c, a, k + 1))
    BY <1>7
  <2> HIDE DEF first
  <2> QED
    BY <1>1, <1>6, <2>1, FindingAll!IterationInvariant
<1>9. FoundAll(c, StatesCount, within[StatesCount])
  BY <1>4, <1>8
<1>10. within[StatesCount] = Kept(Distant(aut, InitialState))
  BY <1>3, <1>9 DEF FoundAll, Kept
<1> HIDE DEF first
<1>11. IsLeast(T, within[StatesCount])
  <2> DEFINE X == within[StatesCount]
  <2>1. FoundAll(c, StatesCount, X)
    BY <1>9
  <2> HIDE DEF X
  <2>2. Cardinality(X) \in Nat /\ Cardinality(X) <= StatesCount
    BY <1>5, <2>1 DEF FoundAll
  <2> QED
    BY <1>2, <1>4, <2>1, <2>2 DEF FoundAll, IsLeast, X
<1> QED
  BY <1>10, <1>11

\* What removing unreachable states removes.
Unreachable(aut, T) ==
  {t \in T : t.state_from \notin Kept(Distant(aut, InitialState))}

LEMMA RemoveUnreachableEffect ==
  ASSUME NEW aut, NEW T, Has(aut, T)
  PROVE  Without(aut, T, Unreachable(aut, T), RemoveUnreachableStates(aut))
<1> DEFINE distant == Distant(aut, InitialState)
           c == [automaton |-> aut, all |-> T, distant |-> distant]
           swept == CHOOSE f : Sweeps!IsIteration(f, c, aut)
           n == aut.max_out_degree
<1>1. Sweeps!IsIteration(swept, c, aut)
  BY Sweeps!IterationExists
<1>2. c.automaton = aut /\ c.all = T /\ c.distant = distant
  OBVIOUS
<1>3. Rooted(T, distant)
  BY DistantIsRooted
<1> HIDE DEF c
<1>4. RemoveUnreachableStates(aut) = swept[n]
  BY <1>2, Zenon DEF RemoveUnreachableStates, Sweeps!IsIteration, SweepsTurn
<1>5. n \in Nat
  BY DEF Has, Automata
<1> HIDE DEF swept, n, distant
<1>6. LeftAfter(c, 0, aut)
  <2>1. \A s \in State : Len(Out(aut, s)) + 0 <= aut.max_out_degree
    <3>1. ASSUME NEW s \in State PROVE Len(Out(aut, s)) + 0 <= aut.max_out_degree
      <4>1. Lists(Out(aut, s), Leaving(T, s)) /\ Len(Out(aut, s)) <= aut.max_out_degree
        BY DEF Has
      <4>2. Len(Out(aut, s)) \in Nat
        BY <4>1, ListFacts
      <4> QED
        BY <1>5, <4>1, <4>2 DEF n
    <3> QED
      BY <3>1
  <2>2. IsLeft(aut, T, distant, 0, {}, aut)
    BY <2>1, WithoutNothing DEF IsLeft
  <2> QED
    BY <1>2, <2>2 DEF LeftAfter
<1>7. ASSUME NEW k \in Nat, NEW a, LeftAfter(c, k, a)
      PROVE  LeftAfter(c, k + 1, SweepsTurn(c, a, k + 1))
  <2>1. PICK X : IsLeft(aut, T, distant, k, X, a)
    BY <1>2, <1>7 DEF LeftAfter
  <2>2. \E Y : IsLeft(aut, T, distant, k + 1, Y, Sweep(a, distant))
    BY <1>3, <2>1, SweepShortens
  <2> QED
    BY <1>2, <2>2 DEF LeftAfter, SweepsTurn
<1>8. \A k \in Nat : LeftAfter(c, k, swept[k])
  <2>1. \A k \in Nat : \A a : LeftAfter(c, k, a) => LeftAfter(c, k + 1, SweepsTurn(c, a, k + 1))
    BY <1>7
  <2> QED
    BY <1>1, <1>6, <2>1, Sweeps!IterationInvariant
<1> DEFINE left == RemoveUnreachableStates(aut)
<1>9. PICK X : IsLeft(aut, T, distant, n, X, left)
  BY <1>2, <1>4, <1>5, <1>8 DEF LeftAfter
<1> HIDE DEF left
<1>10. /\ X \subseteq T /\ \A t \in X : t.state_from \notin Kept(distant)
       /\ Without(aut, T, X, left)
       /\ \A s \in State : s \notin Kept(distant) =>
            Out(left, s) = <<>> \/ Len(Out(left, s)) + n <= n
  BY <1>9 DEF IsLeft, n
<1>11. Has(left, T \ X)
  BY <1>10 DEF Without
<1>12. ASSUME NEW t \in T, t.state_from \notin Kept(distant) PROVE t \in X
  <2> DEFINE s == t.state_from
  <2>1. s \in State
    BY TransitionEnds DEF Has
  <2>2. Lists(Out(left, s), Leaving(T \ X, s))
    BY <1>11, <2>1 DEF Has
  <2>3. Out(left, s) = <<>>
    <3>1. Len(Out(left, s)) \in Nat
      BY <2>2, ListFacts
    <3>2. Out(left, s) = <<>> \/ Len(Out(left, s)) = 0
      BY <1>5, <1>10, <1>12, <2>1, <3>1
    <3> QED
      BY <2>2, <3>2, EmptySeq DEF Lists
  <2>4. Leaving(T \ X, s) = {}
    BY <2>2, <2>3, ListOfNothing
  <2> QED
    BY <2>4 DEF Leaving
<1>13. X = Unreachable(aut, T)
  BY <1>10, <1>12 DEF Unreachable, distant
<1> QED
  BY <1>10, <1>13 DEF left

-----------------------------------------------------------------------------
(****************************************************************************)
(* Removing the outputs of the states that have inputs.                     *)
(****************************************************************************)
IsOutput(t) == t.signals \notin InputLabel
MixedOutputs(aut, T, k) ==
  {t \in T : t.state_from < k /\ ~ aut.is_controllable[t.state_from] /\ IsOutput(t)}

\* As long as nothing is removed the flags tell which states have inputs, and then a mixed
\* output is one of a state that has an input.
Flags(aut, T) == \A s \in State : aut.is_controllable[s] <=> \A t \in Leaving(T, s) : IsOutput(t)

LEMMA AddFlags ==
  ASSUME NEW aut, NEW T, Has(aut, T), Flags(aut, T), NEW t \in Transition
  PROVE  Flags(AddTransition(aut, t), T \cup {t})
<1>1. CASE t \in T
  <2>1. AddTransition(aut, t) = aut /\ T \cup {t} = T
    BY <1>1, HasTransitionMeans DEF AddTransition
  <2> QED
    BY <2>1
<1>2. CASE t \notin T
  <2> DEFINE s == t.state_from
             next == AddTransition(aut, t)
             more == T \cup {t}
             flag == aut.is_controllable[s] /\ t.signals \notin InputLabel
  <2>1. s \in State
    BY TransitionEnds
  <2>2. aut \in Automata
    BY DEF Has
  <2>3. next.is_controllable = [aut.is_controllable EXCEPT ![s] = flag]
    BY <1>2, <2>2, HasTransitionMeans DEF AddTransition, Automata
  <2>4. aut.is_controllable \in [State -> BOOLEAN]
    BY <2>2 DEF Automata
  <2> HIDE DEF flag, next
  <2>5. \A w \in State : next.is_controllable[w] = IF w = s THEN flag ELSE aut.is_controllable[w]
    BY <2>1, <2>3, <2>4
  <2>6. \A w \in State : Leaving(more, w) = IF w = s THEN Leaving(T, w) \cup {t} ELSE Leaving(T, w)
    BY DEF Leaving
  <2> HIDE DEF more, s
  <2>7. ASSUME NEW w \in State PROVE next.is_controllable[w] <=> \A u \in Leaving(more, w) : IsOutput(u)
    <3>1. aut.is_controllable[w] <=> \A u \in Leaving(T, w) : IsOutput(u)
      BY DEF Flags
    <3>2. CASE w = s
      <4>1. flag <=> aut.is_controllable[w] /\ IsOutput(t)
        BY <3>2 DEF flag, IsOutput, s
      <4> QED
        BY <2>5, <2>6, <3>1, <3>2, <4>1
    <3>3. CASE w # s
      BY <2>5, <2>6, <3>1, <3>3
    <3> QED
      BY <3>2, <3>3
  <2> QED
    BY <2>7 DEF Flags, next, more
<1> QED
  BY <1>1, <1>2

LEMMA MixedByFlags ==
  ASSUME NEW aut, NEW T, Has(aut, T), Flags(aut, T)
  PROVE  MixedOutputs(aut, T, StatesCount)
           = {t \in T : IsOutput(t) /\ \E u \in T : u.state_from = t.state_from /\ ~ IsOutput(u)}
<1>1. ASSUME NEW t \in T
      PROVE  /\ t.state_from < StatesCount
             /\ ~ aut.is_controllable[t.state_from] <=> \E u \in T : u.state_from = t.state_from /\ ~ IsOutput(u)
  <2>1. t.state_from \in State
    BY TransitionEnds DEF Has
  <2>2. t.state_from < StatesCount
    BY <2>1, StatesAreInOrder DEF State
  <2> QED
    BY <2>1, <2>2 DEF Flags, Leaving
<1> QED
  BY <1>1 DEF MixedOutputs

OutputTurn(c, a, t) == RemoveOutput(a, t)
OutputsRemoved(c, k, a) ==
  Without(c.automaton, c.all, {t \in {c.list[i] : i \in 1 .. k} : IsOutput(t)}, a)
Unmixing == INSTANCE Iteration WITH Op <- OutputTurn, Inv <- OutputsRemoved

LEMMA RemoveOutputsEffect ==
  ASSUME NEW aut, NEW T, Has(aut, T), NEW s \in State
  PROVE  Without(aut, T, {t \in Leaving(T, s) : ~ aut.is_controllable[s] /\ IsOutput(t)}, RemoveOutputs(aut, s))
<1> DEFINE list == Reverse(Out(aut, s))
           c == [automaton |-> aut, all |-> T, list |-> list]
           n == Len(list)
           iter == CHOOSE it : Unmixing!IsFold(it, c, aut, list, DOMAIN list)
<1>1. CASE aut.is_controllable[s]
  <2>1. RemoveOutputs(aut, s) = aut
    BY <1>1 DEF RemoveOutputs
  <2>2. {t \in Leaving(T, s) : ~ aut.is_controllable[s] /\ IsOutput(t)} = {}
    BY <1>1
  <2> QED
    BY <2>1, <2>2, WithoutNothing
<1>2. CASE ~ aut.is_controllable[s]
  <2>1. Lists(list, Leaving(T, s))
    BY ReversedList DEF Has
  <2>2. /\ n \in Nat /\ DOMAIN list = 1 .. n
        /\ \A i \in 1 .. n : list[i] \in Leaving(T, s)
        /\ \A t \in Leaving(T, s) : \E i \in 1 .. n : list[i] = t
        /\ \A i, k \in 1 .. n : list[i] = list[k] => i = k
    <3> HIDE DEF list
    <3> QED
      BY <2>1, ListFacts
  <2>3. c.automaton = aut /\ c.all = T /\ c.list = list
    OBVIOUS
  <2>4. RemoveOutputs(aut, s) = FoldLeft(RemoveOutput, aut, list)
    BY <1>2 DEF RemoveOutputs
  <2> HIDE DEF c, n, list
  <2>5. RemoveOutputs(aut, s) = iter[DOMAIN list]
    BY <2>4, Zenon DEF FoldLeft, MapThenFoldSet, Max, Unmixing!IsFold, OutputTurn
  <2>6. Unmixing!IsFold(iter, c, aut, list, 1 .. n)
    <3>1. DOMAIN list = 1 .. n /\ n \in Nat
      BY <2>2
    <3>2. \E it : Unmixing!IsFold(it, c, aut, list, 1 .. n)
      BY <3>1, Unmixing!FoldExists, Zenon
    <3> QED
      BY <3>1, <3>2, Zenon
  <2> HIDE DEF iter
  <2>7. OutputsRemoved(c, 0, aut)
    <3>1. {t \in {list[i] : i \in 1 .. 0} : IsOutput(t)} = {}
      OBVIOUS
    <3> QED
      BY <2>3, <3>1, WithoutNothing DEF OutputsRemoved
  <2>8. ASSUME NEW k \in 0 .. n - 1, NEW a, OutputsRemoved(c, k, a)
        PROVE  OutputsRemoved(c, k + 1, OutputTurn(c, a, list[k + 1]))
    <3> DEFINE X == {t \in {list[i] : i \in 1 .. k} : IsOutput(t)}
               Y == {t \in {list[i] : i \in 1 .. k + 1} : IsOutput(t)}
               u == list[k + 1]
    <3>1. Without(aut, T, X, a)
      BY <2>3, <2>8 DEF OutputsRemoved
    <3>2. k + 1 \in 1 .. n /\ \A i \in 1 .. k : i \in 1 .. n /\ i # k + 1
      BY <2>2
    <3>3. 1 .. k + 1 = (1 .. k) \cup {k + 1}
      BY <2>2
    <3>4. {list[i] : i \in 1 .. k + 1} = {list[i] : i \in 1 .. k} \cup {u}
      BY <3>3
    <3>5. u \in T /\ u \notin {list[i] : i \in 1 .. k}
      BY <2>2, <3>2 DEF Leaving
    <3>6. Without(aut, T, Y, RemoveOutput(a, u))
      <4>1. CASE IsOutput(u)
        <5>1. Y = X \cup {u} /\ u \notin X
          BY <3>4, <3>5, <4>1
        <5> HIDE DEF X, Y, u
        <5>2. Has(a, T \ X) /\ u \in T \ X
          BY <3>1, <3>5, <5>1 DEF Without
        <5>3. Without(a, T \ X, {u}, RemoveTransition(a, u))
          BY <5>2, RemoveEffect
        <5>4. Without(aut, T, X \cup {u}, RemoveTransition(a, u))
          BY <3>1, <5>3, WithoutMore
        <5> QED
          BY <4>1, <5>1, <5>4 DEF RemoveOutput, IsOutput
      <4>2. CASE ~ IsOutput(u)
        <5>1. Y = X
          BY <3>4, <4>2
        <5> QED
          BY <3>1, <4>2, <5>1 DEF RemoveOutput, IsOutput
      <4> QED
        BY <4>1, <4>2
    <3> QED
      BY <2>3, <3>6 DEF OutputsRemoved, OutputTurn
  <2>9. OutputsRemoved(c, n, iter[1 .. n])
    BY <2>2, <2>6, <2>7, <2>8, Unmixing!FoldInvariant, Zenon
  <2>10. {t \in {list[i] : i \in 1 .. n} : IsOutput(t)}
           = {t \in Leaving(T, s) : ~ aut.is_controllable[s] /\ IsOutput(t)}
    BY <1>2, <2>2
  <2>11. OutputsRemoved(c, n, RemoveOutputs(aut, s))
    BY <2>2, <2>5, <2>9
  <2> QED
    BY <2>3, <2>10, <2>11 DEF OutputsRemoved
<1> QED
  BY <1>1, <1>2

MixedTurn(c, a, s) == RemoveOutputs(a, s)
UnmixedTo(c, k, a) == Without(c.automaton, c.all, MixedOutputs(c.automaton, c.all, k), a)
UnmixingAll == INSTANCE Iteration WITH Op <- MixedTurn, Inv <- UnmixedTo

LEMMA RemoveMixedEffect ==
  ASSUME NEW aut, NEW T, Has(aut, T)
  PROVE  Without(aut, T, MixedOutputs(aut, T, StatesCount), FoldLeft(RemoveOutputs, aut, StatesInOrder))
<1> DEFINE c == [automaton |-> aut, all |-> T]
           n == StatesCount
           list == StatesInOrder
           iter == CHOOSE it : UnmixingAll!IsFold(it, c, aut, list, DOMAIN list)
<1>1. n \in Nat /\ DOMAIN list = 1 .. n /\ \A k \in 0 .. n - 1 : k \in State /\ list[k + 1] = k
  BY StatesAreInOrder
<1>2. c.automaton = aut /\ c.all = T
  OBVIOUS
<1> HIDE DEF c, n, list
<1>3. FoldLeft(RemoveOutputs, aut, list) = iter[DOMAIN list]
  BY Zenon DEF FoldLeft, MapThenFoldSet, Max, UnmixingAll!IsFold, MixedTurn
<1>4. UnmixingAll!IsFold(iter, c, aut, list, 1 .. n)
  <2>1. \E it : UnmixingAll!IsFold(it, c, aut, list, 1 .. n)
    BY <1>1, UnmixingAll!FoldExists, Zenon
  <2> QED
    BY <1>1, <2>1, Zenon
<1> HIDE DEF iter
<1>5. UnmixedTo(c, 0, aut)
  <2>1. MixedOutputs(aut, T, 0) = {}
    <3>1. ASSUME NEW t \in T PROVE ~ (t.state_from < 0)
      <4>1. t.state_from \in State
        BY TransitionEnds DEF Has
      <4> QED
        BY <4>1 DEF State
    <3> QED
      BY <3>1 DEF MixedOutputs
  <2> QED
    BY <1>2, <2>1, WithoutNothing DEF UnmixedTo
<1>6. ASSUME NEW k \in 0 .. n - 1, NEW a, UnmixedTo(c, k, a)
      PROVE  UnmixedTo(c, k + 1, MixedTurn(c, a, list[k + 1]))
  <2> DEFINE X == MixedOutputs(aut, T, k)
             Y == {t \in Leaving(T \ X, k) : ~ a.is_controllable[k] /\ IsOutput(t)}
  <2>1. Without(aut, T, X, a)
    BY <1>2, <1>6 DEF UnmixedTo
  <2>2. k \in State /\ list[k + 1] = k
    BY <1>1
  <2>3. Has(a, T \ X) /\ a.is_controllable = aut.is_controllable
    BY <2>1 DEF Without
  <2> HIDE DEF X
  <2>4. Without(a, T \ X, Y, RemoveOutputs(a, k))
    BY <2>2, <2>3, RemoveOutputsEffect
  <2> HIDE DEF Y
  <2>5. Without(aut, T, X \cup Y, RemoveOutputs(a, k))
    BY <2>1, <2>4, WithoutMore
  <2>6. X \cup Y = MixedOutputs(aut, T, k + 1)
    <3>1. \A t \in T : t.state_from < k + 1 <=> t.state_from < k \/ t.state_from = k
      <4>1. ASSUME NEW t \in T PROVE t.state_from < k + 1 <=> t.state_from < k \/ t.state_from = k
        <5>1. t.state_from \in State
          BY TransitionEnds DEF Has
        <5> QED
          BY <1>1, <5>1 DEF State
      <4> QED
        BY <4>1
    <3> QED
      BY <2>3, <3>1 DEF MixedOutputs, Leaving, X, Y
  <2> QED
    BY <1>2, <2>2, <2>5, <2>6 DEF UnmixedTo, MixedTurn
<1>7. UnmixedTo(c, n, iter[1 .. n])
  BY <1>1, <1>4, <1>5, <1>6, UnmixingAll!FoldInvariant, Zenon
<1>8. UnmixedTo(c, n, FoldLeft(RemoveOutputs, aut, list))
  BY <1>1, <1>3, <1>7
<1> QED
  BY <1>2, <1>8 DEF UnmixedTo, n, list

\* What the end of the composition removes.
LEMMA RemoveMixedStatesEffect ==
  ASSUME NEW aut, NEW T, Has(aut, T)
  PROVE  \E distant :
           /\ IsLeast(T \ MixedOutputs(aut, T, StatesCount), Kept(distant))
           /\ Without(aut, T,
                      MixedOutputs(aut, T, StatesCount)
                        \cup {t \in T \ MixedOutputs(aut, T, StatesCount) : t.state_from \notin Kept(distant)},
                      RemoveMixedStates(aut))
<1> DEFINE X == MixedOutputs(aut, T, StatesCount)
           unmixed == FoldLeft(RemoveOutputs, aut, StatesInOrder)
           Y == Unreachable(unmixed, T \ X)
<1>1. Without(aut, T, X, unmixed)
  BY RemoveMixedEffect
<1>2. Has(unmixed, T \ X)
  BY <1>1 DEF Without
<1>3. RemoveMixedStates(aut) = RemoveUnreachableStates(unmixed)
  BY DEF RemoveMixedStates
<1> HIDE DEF X, unmixed
<1>4. Without(unmixed, T \ X, Y, RemoveUnreachableStates(unmixed))
  BY <1>2, RemoveUnreachableEffect
<1> HIDE DEF Y
<1>5. Without(aut, T, X \cup Y, RemoveMixedStates(aut))
  BY <1>1, <1>3, <1>4, WithoutMore
<1>6. Y = {t \in T \ X : t.state_from \notin Kept(Distant(unmixed, InitialState))}
  BY DEF Y, Unreachable
<1>7. IsLeast(T \ X, Kept(Distant(unmixed, InitialState)))
  BY <1>2, DistantIsLeast
<1> QED
  BY <1>5, <1>6, <1>7 DEF X

-----------------------------------------------------------------------------
(****************************************************************************)
(* The pick of the selection sort.  best is the transition picked among the *)
(* first ones of the list.                                                  *)
(****************************************************************************)
IsRun(best, list, n) ==
  best[0] = list[1] /\ \A i \in 1 .. n : best[i] = Better(best[i - 1], list[i])

BetterTurn(c, min, t) == Better(min, t)
BestOf(c, k, min) == \E best : IsRun(best, c, k) /\ best[k] = min
Picking == INSTANCE Iteration WITH Op <- BetterTurn, Inv <- BestOf

LEMMA PickIsRun ==
  ASSUME NEW list, NEW T, Lists(list, T)
  PROVE  \E best : IsRun(best, list, Len(list)) /\ best[Len(list)] = MinTransition(list)
<1> DEFINE n == Len(list)
           first == Head(list)
           iter == CHOOSE it : Picking!IsFold(it, list, first, list, DOMAIN list)
<1>1. n \in Nat /\ DOMAIN list = 1 .. n
  BY ListFacts
<1>2. MinTransition(list) = iter[DOMAIN list]
  BY Zenon DEF MinTransition, FoldLeft, MapThenFoldSet, Max, Picking!IsFold, BetterTurn
<1>3. first = list[1]
  OBVIOUS
<1> HIDE DEF n, first
<1>4. Picking!IsFold(iter, list, first, list, 1 .. n)
  <2>1. \E it : Picking!IsFold(it, list, first, list, 1 .. n)
    BY <1>1, Picking!FoldExists, Zenon
  <2> QED
    BY <1>1, <2>1, Zenon
<1> HIDE DEF iter
<1>5. BestOf(list, 0, first)
  <2>1. IsRun([i \in 0 .. 0 |-> first], list, 0)
    BY <1>3 DEF IsRun
  <2> QED
    BY <2>1 DEF BestOf
<1>6. ASSUME NEW k \in 0 .. n - 1, NEW min, BestOf(list, k, min)
      PROVE  BestOf(list, k + 1, BetterTurn(list, min, list[k + 1]))
  <2>1. PICK best : IsRun(best, list, k) /\ best[k] = min
    BY <1>6 DEF BestOf
  <2> DEFINE next == Better(min, list[k + 1])
             more == [i \in 0 .. k + 1 |-> IF i = k + 1 THEN next ELSE best[i]]
  <2>2. more[k + 1] = next /\ \A i \in 0 .. k : more[i] = best[i]
    BY <1>1
  <2> HIDE DEF next, more
  <2>3. ASSUME NEW i \in 1 .. k + 1 PROVE more[i] = Better(more[i - 1], list[i])
    <3>1. CASE i = k + 1
      <4>1. i - 1 = k /\ k \in 0 .. k
        BY <1>1, <3>1
      <4> QED
        BY <2>1, <2>2, <3>1, <4>1 DEF next
    <3>2. CASE i # k + 1
      <4>1. i \in 1 .. k /\ i \in 0 .. k /\ i - 1 \in 0 .. k
        BY <1>1, <3>2
      <4> QED
        BY <2>1, <2>2, <4>1 DEF IsRun
    <3> QED
      BY <3>1, <3>2
  <2>4. 0 \in 0 .. k
    BY <1>1
  <2>5. IsRun(more, list, k + 1)
    BY <2>1, <2>2, <2>3, <2>4 DEF IsRun
  <2> QED
    BY <2>2, <2>5 DEF BestOf, BetterTurn, next
<1>7. BestOf(list, n, iter[1 .. n])
  BY <1>1, <1>4, <1>5, <1>6, Picking!FoldInvariant, Zenon
<1> QED
  BY <1>1, <1>2, <1>7 DEF BestOf, n

\* The comparison by monitored words is a partial order.
LEMMA MonitoredOrderFacts ==
  /\ \A t \in Transition : MonitoredLeq(t, t)
  /\ \A t, u \in Transition : MonitoredEq(t, u) => MonitoredLeq(t, u) /\ MonitoredEq(u, t)
  /\ \A t, u \in Transition : MonitoredLeq(t, u) /\ MonitoredLeq(u, t) => MonitoredEq(t, u)
  /\ \A t, u, v \in Transition : MonitoredLeq(t, u) /\ MonitoredLeq(u, v) => MonitoredLeq(t, v)
<1> DEFINE W(t) == Monitored[t.signals]
<1>1. \A t, u \in Transition : /\ W(t) \in Seq(Nat) /\ Len(W(t)) = Len(W(u))
                               /\ DOMAIN W(t) = 1 .. Len(W(t))
                               /\ \A i \in 1 .. Len(W(t)) : W(t)[i] \in Nat
  <2>1. ASSUME NEW t \in Transition, NEW u \in Transition
        PROVE  /\ W(t) \in Seq(Nat) /\ Len(W(t)) = Len(W(u))
               /\ DOMAIN W(t) = 1 .. Len(W(t))
               /\ \A i \in 1 .. Len(W(t)) : W(t)[i] \in Nat
    <3>1. t.signals \in Label /\ u.signals \in Label
      BY TransitionEnds
    <3>2. W(t) \in Seq(Nat) /\ Len(W(t)) = Len(W(u))
      BY <3>1, MonitoredAssumption
    <3> HIDE DEF W
    <3> QED
      BY <3>2, LenProperties
  <2> QED
    BY <2>1
<1>2. \A t, u \in Transition : MonitoredLeq(t, u) <=> \A i \in 1 .. Len(W(t)) : W(t)[i] <= W(u)[i]
  BY <1>1 DEF MonitoredLeq
<1>3. \A t, u \in Transition : MonitoredEq(t, u) <=> W(t) = W(u)
  BY DEF MonitoredEq
<1> HIDE DEF W
<1>4. \A t \in Transition : MonitoredLeq(t, t)
  BY <1>1, <1>2
<1>5. \A t, u \in Transition : MonitoredEq(t, u) => MonitoredLeq(t, u) /\ MonitoredEq(u, t)
  <2>1. ASSUME NEW t \in Transition, NEW u \in Transition, MonitoredEq(t, u)
        PROVE  MonitoredLeq(t, u) /\ MonitoredEq(u, t)
    <3>1. W(t) = W(u)
      BY <1>3, <2>1
    <3> QED
      BY <1>1, <1>2, <1>3, <3>1
  <2> QED
    BY <2>1
<1>6. ASSUME NEW t \in Transition, NEW u \in Transition, MonitoredLeq(t, u), MonitoredLeq(u, t)
      PROVE  MonitoredEq(t, u)
  <2>1. Len(W(t)) = Len(W(u)) /\ W(t) \in Seq(Nat) /\ W(u) \in Seq(Nat)
    BY <1>1
  <2>2. \A i \in 1 .. Len(W(t)) : W(t)[i] = W(u)[i]
    BY <1>1, <1>2, <1>6, <2>1
  <2>3. W(t) = W(u)
    BY <2>1, <2>2, SeqEqual
  <2> QED
    BY <1>3, <2>3
<1>7. ASSUME NEW t \in Transition, NEW u \in Transition, NEW v \in Transition,
             MonitoredLeq(t, u), MonitoredLeq(u, v)
      PROVE  MonitoredLeq(t, v)
  <2>1. Len(W(t)) = Len(W(u)) /\ Len(W(u)) = Len(W(v))
    BY <1>1
  <2>2. ASSUME NEW i \in 1 .. Len(W(t)) PROVE W(t)[i] <= W(v)[i]
    <3>1. W(t)[i] \in Nat /\ W(u)[i] \in Nat /\ W(v)[i] \in Nat
      BY <1>1, <2>1
    <3>2. W(t)[i] <= W(u)[i] /\ W(u)[i] <= W(v)[i]
      BY <1>2, <1>7, <2>1
    <3> QED
      BY <3>1, <3>2
  <2> QED
    BY <1>2, <2>2
<1> QED
  BY <1>4, <1>5, <1>6, <1>7

\* The pick gets better along the list.
LEMMA RunDescends ==
  ASSUME NEW list, NEW T, Lists(list, T), NEW n \in 1 .. Len(list), NEW best, IsRun(best, list, n)
  PROVE  /\ \A i \in 0 .. n : best[i] \in Transition
         /\ \A i, j \in 0 .. n : i <= j => MonitoredLeq(best[j], best[i])
<1>1. Len(list) \in Nat /\ \A i \in 1 .. Len(list) : list[i] \in Transition
  BY ListFacts
<1>2. n \in Nat /\ \A i \in 1 .. n : list[i] \in Transition
  BY <1>1
<1>3. best[0] = list[1] /\ \A i \in 1 .. n : best[i] = Better(best[i - 1], list[i])
  BY DEF IsRun
<1> DEFINE S == {j \in Nat : j <= n =>
                   \A i \in 0 .. j : best[i] \in Transition /\ MonitoredLeq(best[j], best[i])}
<1>4. 0 \in S
  <2>1. best[0] \in Transition
    BY <1>1, <1>3
  <2>2. MonitoredLeq(best[0], best[0])
    BY <2>1, MonitoredOrderFacts
  <2> QED
    BY <2>1, <2>2
<1>5. ASSUME NEW j \in Nat, j \in S, j + 1 <= n
      PROVE  \A i \in 0 .. j + 1 : best[i] \in Transition /\ MonitoredLeq(best[j + 1], best[i])
  <2>1. j \in 0 .. j /\ j + 1 \in 1 .. n /\ (j + 1) - 1 = j
    BY <1>2, <1>5
  <2>2. \A i \in 0 .. j : best[i] \in Transition /\ MonitoredLeq(best[j], best[i])
    BY <1>2, <1>5
  <2>3. best[j + 1] = Better(best[j], list[j + 1])
    BY <1>3, <2>1
  <2>4. best[j + 1] \in Transition /\ MonitoredLeq(best[j + 1], best[j])
    BY <1>2, <2>1, <2>2, <2>3, MonitoredOrderFacts DEF Better
  <2>5. ASSUME NEW i \in 0 .. j + 1
        PROVE  best[i] \in Transition /\ MonitoredLeq(best[j + 1], best[i])
    <3>1. CASE i = j + 1
      BY <2>4, <3>1, MonitoredOrderFacts
    <3>2. CASE i # j + 1
      <4>1. i \in 0 .. j
        BY <3>2
      <4>2. best[i] \in Transition /\ MonitoredLeq(best[j], best[i])
        BY <2>2, <4>1
      <4> QED
        BY <2>1, <2>2, <2>4, <4>2, MonitoredOrderFacts
    <3> QED
      BY <3>1, <3>2
  <2> QED
    BY <2>5
<1>6. \A j \in Nat : j \in S
  <2>1. \A j \in Nat : j \in S => j + 1 \in S
    BY <1>5
  <2> HIDE DEF S
  <2> QED
    BY <1>4, <2>1, Picking!SetInduction
<1>7. \A j \in 0 .. n : \A i \in 0 .. j : best[i] \in Transition /\ MonitoredLeq(best[j], best[i])
  BY <1>2, <1>6
<1>8. \A j \in 0 .. n : j \in 0 .. j
  BY <1>2
<1>9. \A i, j \in 0 .. n : i <= j => i \in 0 .. j
  BY <1>2
<1> QED
  BY <1>7, <1>8, <1>9

\* Once an entry is the best one, the later bests are entries from there on.
LEMMA RunStays ==
  ASSUME NEW list, NEW T, Lists(list, T), NEW n \in 1 .. Len(list), NEW best, IsRun(best, list, n),
         NEW j \in 1 .. n, best[j] = list[j]
  PROVE  \E e \in j .. n : best[n] = list[e]
<1>1. n \in Nat /\ j \in Nat /\ j <= n
  BY ListFacts
<1>2. \A i \in 1 .. n : best[i] = list[i] \/ best[i] = best[i - 1]
  BY DEF IsRun, Better
<1> DEFINE S == {i \in Nat : j + i <= n => \E e \in j .. j + i : best[j + i] = list[e]}
<1>3. 0 \in S
  <2>1. j \in j .. j + 0 /\ j + 0 = j
    BY <1>1
  <2> QED
    BY <2>1
<1>4. ASSUME NEW i \in Nat, i \in S, j + (i + 1) <= n
      PROVE  \E e \in j .. j + (i + 1) : best[j + (i + 1)] = list[e]
  <2>1. /\ j + i <= n /\ j + (i + 1) \in 1 .. n /\ (j + (i + 1)) - 1 = j + i
        /\ j + (i + 1) \in j .. j + (i + 1) /\ \A e \in j .. j + i : e \in j .. j + (i + 1)
    BY <1>1, <1>4
  <2>2. PICK e \in j .. j + i : best[j + i] = list[e]
    BY <1>4, <2>1
  <2>3. best[j + (i + 1)] = list[j + (i + 1)] \/ best[j + (i + 1)] = best[j + i]
    BY <1>2, <2>1
  <2> QED
    BY <2>1, <2>2, <2>3
<1>5. \A i \in Nat : i \in S
  <2>1. \A i \in Nat : i \in S => i + 1 \in S
    BY <1>4
  <2> HIDE DEF S
  <2> QED
    BY <1>3, <2>1, Picking!SetInduction
<1>6. n - j \in Nat /\ j + (n - j) = n /\ j + (n - j) <= n
  BY <1>1
<1> QED
  BY <1>5, <1>6

\* The pick is an entry of the list.
LEMMA PickInList ==
  ASSUME NEW list, NEW T, Lists(list, T), T # {}
  PROVE  MinTransition(list) \in T
<1> DEFINE n == Len(list)
<1>1. n \in Nat /\ n # 0 /\ \A i \in 1 .. n : list[i] \in T
  <2>1. list # <<>>
    BY ListOfNothing
  <2>2. list \in Seq(Transition) /\ n \in Nat
    BY ListFacts DEF Lists
  <2>3. n # 0
    BY <2>1, <2>2, EmptySeq
  <2> QED
    BY <2>2, <2>3, ListFacts
<1>2. PICK best : IsRun(best, list, n) /\ best[n] = MinTransition(list)
  BY PickIsRun
<1>3. n \in 1 .. n /\ 1 \in 1 .. n
  BY <1>1
<1>4. best[1] = list[1]
  <2>1. 1 - 1 = 0
    OBVIOUS
  <2> QED
    BY <1>2, <1>3, <2>1 DEF IsRun, Better
<1>5. \E e \in 1 .. n : best[n] = list[e]
  BY <1>2, <1>3, <1>4, RunStays
<1> QED
  BY <1>1, <1>2, <1>5

\* After the pick is taken out, another transition with its monitored signals is the
\* next pick, if there is one.
LEMMA PickAgain ==
  ASSUME NEW list, NEW T, Lists(list, T), NEW u \in T,
         u # MinTransition(list), MonitoredEq(u, MinTransition(list))
  PROVE  MonitoredEq(MinTransition(RemoveFirst(list, MinTransition(list))), MinTransition(list))
<1> DEFINE n == Len(list)
           m == MinTransition(list)
           rest == RemoveFirst(list, m)
<1>1. /\ n \in Nat /\ \A i \in 1 .. n : list[i] \in T
      /\ \A i, k \in 1 .. n : list[i] = list[k] => i = k
      /\ T \subseteq Transition
  BY ListFacts
<1>2. m \in T /\ m # u /\ MonitoredEq(u, m)
  BY PickInList
<1>3. PICK j \in 1 .. n : list[j] = u
  BY ListFacts
<1>4. PICK k \in 1 .. n : list[k] = m
  BY <1>2, ListFacts
<1>5. PICK best : IsRun(best, list, n) /\ best[n] = m
  BY PickIsRun
<1>6. Shortened(list, k, rest)
  BY <1>4, RemoveFirstShortens
<1>7. Lists(rest, T \ {m}) /\ Len(rest) = n - 1
  BY <1>2, RemoveFromList
<1>8. PICK again : IsRun(again, rest, n - 1) /\ again[n - 1] = MinTransition(rest)
  BY <1>7, PickIsRun
<1> HIDE DEF m, rest, n
<1>9. j # k /\ n \in 1 .. n /\ n - 1 \in 1 .. n - 1
  <2>1. j # k
    BY <1>2, <1>3, <1>4
  <2> QED
    BY <1>1, <2>1
<1>10. /\ \A i \in 0 .. n : best[i] \in Transition
       /\ \A i, e \in 0 .. n : i <= e => MonitoredLeq(best[e], best[i])
  BY <1>5, <1>9, RunDescends DEF n
<1>11. \A i \in 0 .. n - 1 : again[i] \in Transition
  BY <1>7, <1>8, <1>9, RunDescends
<1>12. ASSUME NEW e \in 1 .. n, MonitoredLeq(list[e], m)
       PROVE  best[e] = list[e]
  <2>1. e - 1 \in 0 .. n /\ n \in 0 .. n /\ e - 1 <= n
    BY <1>1
  <2>2. MonitoredLeq(m, best[e - 1]) /\ best[e - 1] \in Transition
    BY <1>5, <1>10, <2>1
  <2>3. list[e] \in Transition /\ m \in Transition
    BY <1>1, <1>2
  <2>4. MonitoredLeq(list[e], best[e - 1])
    BY <1>12, <2>2, <2>3, MonitoredOrderFacts
  <2> QED
    BY <1>5, <2>4 DEF IsRun, Better
<1>13. best[j] = list[j]
  <2>1. u \in Transition /\ m \in Transition
    BY <1>1, <1>2
  <2>2. MonitoredLeq(u, m)
    BY <1>2, <2>1, MonitoredOrderFacts
  <2> QED
    BY <1>3, <1>12, <2>2
<1>14. j < k
  <2>1. PICK e \in j .. n : best[n] = list[e]
    BY <1>5, <1>9, <1>13, RunStays DEF n
  <2>2. e \in 1 .. n /\ j <= e
    BY <1>1
  <2>3. e = k
    BY <1>1, <1>4, <1>5, <2>1, <2>2
  <2> QED
    BY <1>1, <1>9, <2>2, <2>3
<1>15. \A i \in 1 .. n - 1 : rest[i] = IF i < k THEN list[i] ELSE list[i + 1]
  BY <1>6 DEF Shortened, n
<1>16. \A i \in 1 .. k - 1 : rest[i] = list[i] /\ i \in 1 .. n - 1 /\ i \in 1 .. n
  BY <1>1, <1>15
<1>17. /\ again[0] = rest[1] /\ best[0] = list[1]
       /\ \A i \in 1 .. n - 1 : again[i] = Better(again[i - 1], rest[i])
       /\ \A i \in 1 .. n : best[i] = Better(best[i - 1], list[i])
  BY <1>5, <1>8 DEF IsRun
<1>18. again[j] = u
  <2> DEFINE S == {i \in Nat : i < k => again[i] = best[i]}
  <2>1. 0 \in S
    <3>1. 1 \in 1 .. k - 1
      BY <1>14
    <3> QED
      BY <1>16, <1>17, <3>1
  <2>2. ASSUME NEW i \in Nat, i \in S, i + 1 < k PROVE again[i + 1] = best[i + 1]
    <3>1. i + 1 \in 1 .. k - 1 /\ (i + 1) - 1 = i /\ i < k
      BY <2>2
    <3>2. again[i] = best[i]
      BY <2>2, <3>1
    <3>3. /\ again[i + 1] = Better(again[i], rest[i + 1]) /\ best[i + 1] = Better(best[i], list[i + 1])
          /\ rest[i + 1] = list[i + 1]
      BY <1>16, <1>17, <3>1
    <3> QED
      BY <3>2, <3>3
  <2>3. \A i \in Nat : i \in S
    <3>1. \A i \in Nat : i \in S => i + 1 \in S
      BY <2>2
    <3> HIDE DEF S
    <3> QED
      BY <2>1, <3>1, Picking!SetInduction
  <2> QED
    BY <1>3, <1>13, <1>14, <2>3
<1>19. ASSUME NEW v \in T, MonitoredLeq(v, m) PROVE MonitoredEq(v, m)
  <2>1. PICK e \in 1 .. n : list[e] = v
    BY ListFacts DEF n
  <2>2. best[e] = v
    BY <1>12, <1>19, <2>1
  <2>3. e \in 0 .. n /\ n \in 0 .. n /\ e <= n
    BY <1>1
  <2>4. MonitoredLeq(m, v)
    BY <1>5, <1>10, <2>2, <2>3
  <2>5. v \in Transition /\ m \in Transition
    BY <1>1, <1>2
  <2> QED
    BY <1>19, <2>4, <2>5, MonitoredOrderFacts
<1>20. MonitoredEq(again[n - 1], m)
  <2> DEFINE S == {i \in Nat : j + i <= n - 1 => MonitoredEq(again[j + i], m)}
  <2>1. 0 \in S
    BY <1>2, <1>18
  <2>2. ASSUME NEW i \in Nat, i \in S, j + (i + 1) <= n - 1
        PROVE  MonitoredEq(again[j + (i + 1)], m)
    <3> DEFINE p == j + i
    <3>1. p + 1 \in 1 .. n - 1 /\ (p + 1) - 1 = p /\ p \in 0 .. n - 1 /\ j + (i + 1) = p + 1
      BY <1>1, <2>2
    <3>2. MonitoredEq(again[p], m)
      BY <1>1, <2>2
    <3>3. again[p + 1] = Better(again[p], rest[p + 1])
      BY <1>17, <3>1
    <3>4. rest[p + 1] \in T
      BY <1>7, <3>1, ListFacts
    <3>5. again[p] \in Transition /\ m \in Transition /\ rest[p + 1] \in Transition
      BY <1>1, <1>2, <1>11, <3>1, <3>4
    <3> HIDE DEF p
    <3>6. CASE MonitoredLeq(rest[p + 1], again[p])
      <4>1. MonitoredLeq(rest[p + 1], m)
        BY <3>2, <3>5, <3>6, MonitoredOrderFacts
      <4>2. MonitoredEq(rest[p + 1], m)
        BY <1>19, <3>4, <4>1
      <4> QED
        BY <3>1, <3>3, <3>6, <4>2 DEF Better
    <3>7. CASE ~ MonitoredLeq(rest[p + 1], again[p])
      BY <3>1, <3>2, <3>3, <3>7 DEF Better
    <3> QED
      BY <3>6, <3>7
  <2>3. \A i \in Nat : i \in S
    <3>1. \A i \in Nat : i \in S => i + 1 \in S
      BY <2>2
    <3> HIDE DEF S
    <3> QED
      BY <2>1, <3>1, Picking!SetInduction
  <2>4. (n - 1) - j \in Nat /\ j + ((n - 1) - j) = n - 1
    BY <1>1, <1>14
  <2> QED
    BY <2>3, <2>4
<1> QED
  BY <1>8, <1>20 DEF m, rest


-----------------------------------------------------------------------------
(****************************************************************************)
(* The selection sort.  After n picks P are the transitions picked; those   *)
(* with the monitored signals of the last one come before any other, so     *)
(* they end up next to each other although the order is partial.            *)
(****************************************************************************)
IsPicked(list, T, n, sort, P) ==
  /\ P \subseteq T
  /\ Lists(sort.picked, P) /\ Len(sort.picked) = n
  /\ Lists(sort.rest, T \ P)
  /\ Contiguous(sort.picked)
  /\ \A i \in 1 .. n : \A t \in T \ P :
       MonitoredEq(sort.picked[i], t) => MonitoredEq(sort.picked[i], sort.picked[n])
  /\ n > 0 => \A t \in T \ P :
       MonitoredEq(sort.picked[n], t) => MonitoredEq(sort.picked[n], MinTransition(sort.rest))

SortTurn(c, sort, n) == PickNext(sort)
PickedTo(c, n, sort) == n <= Len(c.list) => \E P : IsPicked(c.list, c.all, n, sort, P)
Sorting == INSTANCE Iteration WITH Op <- SortTurn, Inv <- PickedTo

LEMMA PickNextPicks ==
  ASSUME NEW list, NEW T, Lists(list, T), NEW n \in Nat, n < Len(list),
         NEW sort, NEW P, IsPicked(list, T, n, sort, P)
  PROVE  \E Q : IsPicked(list, T, n + 1, PickNext(sort), Q)
<1> DEFINE picked == sort.picked
           rest == sort.rest
           m == MinTransition(rest)
           more == Append(picked, m)
           less == RemoveFirst(rest, m)
           Q == P \cup {m}
           top == n + 1
<1>1. /\ P \subseteq T /\ Lists(picked, P) /\ Len(picked) = n /\ Lists(rest, T \ P)
      /\ Contiguous(picked)
      /\ \A i \in 1 .. n : \A t \in T \ P :
           MonitoredEq(picked[i], t) => MonitoredEq(picked[i], picked[n])
      /\ n > 0 => \A t \in T \ P : MonitoredEq(picked[n], t) => MonitoredEq(picked[n], m)
  BY DEF IsPicked
<1>2. PickNext(sort) = [picked |-> more, rest |-> less]
  BY DEF PickNext
<1>3. T \ P # {}
  <2>1. Cardinality(T) = Len(list) /\ Cardinality(P) = n
    BY <1>1, ListLength
  <2>2. P # T
    BY <2>1
  <2> QED
    BY <1>1, <2>2
<1> HIDE DEF m
<1>4. m \in T \ P
  BY <1>1, <1>3, PickInList DEF m
<1>5. m \in Transition /\ m \notin P
  BY <1>4, ListFacts
<1> HIDE DEF picked, rest
<1>6. Lists(more, Q) /\ Len(more) = top
  BY <1>1, <1>5, AppendToList
<1>7. Lists(less, T \ Q)
  <2>1. Lists(less, (T \ P) \ {m})
    BY <1>1, <1>4, RemoveFromList
  <2>2. (T \ P) \ {m} = T \ Q
    OBVIOUS
  <2> QED
    BY <2>1, <2>2
<1>8. /\ \A i \in 1 .. n : more[i] = picked[i]
      /\ more[top] = m
  <2>1. picked \in Seq(Transition)
    BY <1>1 DEF Lists
  <2> QED
    BY <1>1, <1>5, <2>1, AppendProperties
<1>9. DOMAIN picked = 1 .. n /\ DOMAIN more = 1 .. top
  BY <1>1, <1>6, ListFacts
<1>10. ASSUME NEW i \in 1 .. n, NEW t \in T \ P, MonitoredEq(picked[i], t)
       PROVE  MonitoredEq(picked[i], picked[n]) /\ MonitoredEq(picked[i], m)
  <2>1. n > 0 /\ MonitoredEq(picked[i], picked[n])
    BY <1>1, <1>10
  <2>2. MonitoredEq(picked[n], t)
    BY <1>10, <2>1 DEF MonitoredEq
  <2>3. MonitoredEq(picked[n], m)
    BY <1>1, <2>1, <2>2
  <2> QED
    BY <2>1, <2>3 DEF MonitoredEq
<1>11. Contiguous(more)
  <2> SUFFICES ASSUME NEW i \in 1 .. top, NEW k \in 1 .. top, MonitoredEq(more[i], more[k]),
                      NEW j \in i .. k
               PROVE  MonitoredEq(more[i], more[j])
    BY <1>9 DEF Contiguous
  <2>1. CASE k \in 1 .. n
    <3>1. i \in 1 .. n /\ j \in 1 .. n
      BY <2>1
    <3>2. MonitoredEq(picked[i], picked[k])
      BY <1>8, <2>1, <3>1
    <3>3. MonitoredEq(picked[i], picked[j])
      BY <1>1, <1>9, <2>1, <3>1, <3>2 DEF Contiguous
    <3> QED
      BY <1>8, <3>1, <3>3
  <2>2. CASE k = top /\ (j = top \/ i = top)
    <3>1. j = top
      BY <2>2
    <3> QED
      BY <2>2, <3>1
  <2>3. CASE k = top /\ j # top /\ i # top
    <3>1. i \in 1 .. n /\ j \in i .. n /\ j \in 1 .. n /\ n \in 1 .. n
      BY <2>3
    <3>2. MonitoredEq(picked[i], m)
      BY <1>8, <2>3, <3>1
    <3>3. MonitoredEq(picked[i], picked[n])
      BY <1>4, <1>10, <3>1, <3>2
    <3>4. MonitoredEq(picked[i], picked[j])
      BY <1>1, <1>9, <3>1, <3>3 DEF Contiguous
    <3> QED
      BY <1>8, <3>1, <3>4
  <2>4. k \in 1 .. n \/ k = top
    OBVIOUS
  <2> QED
    BY <2>1, <2>2, <2>3, <2>4
<1>12. ASSUME NEW i \in 1 .. top, NEW t \in T \ Q, MonitoredEq(more[i], t)
       PROVE  MonitoredEq(more[i], more[top])
  <2>1. CASE i = top
    BY <2>1 DEF MonitoredEq
  <2>2. CASE i # top
    <3>1. i \in 1 .. n /\ t \in T \ P
      BY <2>2
    <3>2. MonitoredEq(picked[i], t)
      BY <1>8, <1>12, <3>1
    <3>3. MonitoredEq(picked[i], m)
      BY <1>10, <3>1, <3>2
    <3> QED
      BY <1>8, <3>1, <3>3
  <2> QED
    BY <2>1, <2>2
<1>13. ASSUME NEW t \in T \ Q, MonitoredEq(more[top], t)
       PROVE  MonitoredEq(more[top], MinTransition(less))
  <2>1. t \in T \ P /\ t # m /\ MonitoredEq(t, m)
    BY <1>8, <1>13 DEF MonitoredEq
  <2>2. MonitoredEq(MinTransition(less), m)
    BY <1>1, <2>1, PickAgain DEF m
  <2> QED
    BY <1>8, <2>2 DEF MonitoredEq
<1>14. Q \subseteq T
  BY <1>1, <1>4
<1> HIDE DEF more, less, Q
<1>15. IsPicked(list, T, top, [picked |-> more, rest |-> less], Q)
  BY <1>6, <1>7, <1>11, <1>12, <1>13, <1>14 DEF IsPicked
<1> QED
  BY <1>2, <1>15

\* The sorted list has the same transitions, each option's next to each other.
LEMMA SelectionSortEffect ==
  ASSUME NEW list, NEW T, Lists(list, T)
  PROVE  /\ Lists(SelectionSort(list), T)
         /\ Len(SelectionSort(list)) = Len(list)
         /\ Contiguous(SelectionSort(list))
<1> DEFINE c == [list |-> list, all |-> T]
           first == [picked |-> <<>>, rest |-> list]
           pick == CHOOSE f : Sorting!IsIteration(f, c, first)
           n == Len(list)
<1>1. Sorting!IsIteration(pick, c, first)
  BY Sorting!IterationExists
<1>2. c.list = list /\ c.all = T
  OBVIOUS
<1>3. first.picked = <<>> /\ first.rest = list
  OBVIOUS
<1>4. n \in Nat
  BY ListFacts
<1> HIDE DEF c
<1>5. SelectionSort(list) = pick[n].picked
  BY Zenon DEF SelectionSort, Sorting!IsIteration, SortTurn
<1> HIDE DEF first, pick
<1>6. PickedTo(c, 0, first)
  <2>1. Lists(<<>>, {}) /\ Len(<<>>) = 0 /\ Contiguous(<<>>)
    BY EmptyListsNothing, EmptySeq DEF Contiguous
  <2>2. T \ {} = T
    OBVIOUS
  <2>3. IsPicked(list, T, 0, first, {})
    BY <1>3, <2>1, <2>2 DEF IsPicked
  <2> QED
    BY <1>2, <2>3 DEF PickedTo
<1>7. ASSUME NEW k \in Nat, NEW sort, PickedTo(c, k, sort)
      PROVE  PickedTo(c, k + 1, SortTurn(c, sort, k + 1))
  <2> SUFFICES ASSUME k + 1 <= n
               PROVE  \E Q : IsPicked(list, T, k + 1, PickNext(sort), Q)
    BY <1>2 DEF PickedTo, SortTurn
  <2>1. k <= n /\ k < n
    BY <1>4
  <2>2. PICK P : IsPicked(list, T, k, sort, P)
    BY <1>2, <1>7, <2>1 DEF PickedTo
  <2> QED
    BY <2>1, <2>2, PickNextPicks
<1>8. PickedTo(c, n, pick[n])
  <2>1. \A k \in Nat : PickedTo(c, k, pick[k])
    BY <1>1, <1>6, <1>7, Sorting!IterationInvariant, Zenon
  <2> QED
    BY <1>4, <2>1
<1>9. PICK P : IsPicked(list, T, n, pick[n], P)
  BY <1>2, <1>4, <1>8 DEF PickedTo
<1>10. P = T
  <2>1. P \subseteq T /\ Lists(pick[n].picked, P) /\ Len(pick[n].picked) = n
    BY <1>9 DEF IsPicked
  <2>2. IsFiniteSet(T) /\ Cardinality(T) = n /\ Cardinality(P) = n
    BY <2>1, ListLength
  <2> QED
    BY <2>1, <2>2, FS_Subset
<1> QED
  BY <1>5, <1>9, <1>10 DEF IsPicked

\* Ordering keeps the transitions.
LEMMA MonitoredOrderEffect ==
  ASSUME NEW aut, NEW T, Has(aut, T), ~ aut.ordered
  PROVE  /\ Has(MonitoredOrder(aut), T)
         /\ MonitoredOrder(aut).max_out_degree = aut.max_out_degree
         /\ \A s \in State : /\ Contiguous(Out(MonitoredOrder(aut), s))
                             /\ Contiguous(In(MonitoredOrder(aut), s))
<1> DEFINE sorted == MonitoredOrder(aut)
           out == [s \in State |-> SelectionSort(aut.transitions[s])]
           in == [s \in State |-> SelectionSort(aut.inverted_transitions[s])]
<1>1. aut \in Automata
  BY DEF Has
<1>2. /\ sorted.transitions = out /\ sorted.inverted_transitions = in
      /\ sorted.is_controllable = aut.is_controllable
      /\ sorted.max_out_degree = aut.max_out_degree
      /\ sorted.composite_count = aut.composite_count
      /\ sorted.ordered = TRUE
      /\ sorted = [transitions |-> out, inverted_transitions |-> in,
                   is_controllable |-> aut.is_controllable,
                   max_out_degree |-> aut.max_out_degree,
                   composite_count |-> aut.composite_count, ordered |-> TRUE]
  BY <1>1 DEF MonitoredOrder, Automata
<1>3. ASSUME NEW s \in State
      PROVE  /\ Lists(out[s], Leaving(T, s)) /\ Lists(in[s], Entering(T, s))
             /\ Len(out[s]) <= aut.max_out_degree
             /\ Contiguous(out[s]) /\ Contiguous(in[s])
  <2>1. Lists(aut.transitions[s], Leaving(T, s)) /\ Lists(aut.inverted_transitions[s], Entering(T, s))
    BY DEF Has, Out, In
  <2>2. Len(aut.transitions[s]) <= aut.max_out_degree
    BY DEF Has, Out
  <2>3. out[s] = SelectionSort(aut.transitions[s]) /\ in[s] = SelectionSort(aut.inverted_transitions[s])
    OBVIOUS
  <2> QED
    BY <2>1, <2>2, <2>3, SelectionSortEffect
<1>4. out \in [State -> Seq(Transition)] /\ in \in [State -> Seq(Transition)]
  <2>1. \A s \in State : out[s] \in Seq(Transition) /\ in[s] \in Seq(Transition)
    BY <1>3 DEF Lists
  <2> QED
    BY <2>1
<1> HIDE DEF out, in
<1>5. sorted \in Automata
  BY <1>1, <1>2, <1>4 DEF Automata
<1>6. \A s \in State : Out(sorted, s) = out[s] /\ In(sorted, s) = in[s]
  BY <1>2 DEF Out, In
<1> HIDE DEF sorted
<1>7. Has(sorted, T)
  <2>1. T \subseteq Transition /\ IsFiniteSet(T) /\ aut.composite_count = Cardinality(T)
    BY DEF Has
  <2> QED
    BY <1>2, <1>3, <1>5, <1>6, <2>1 DEF Has
<1> QED
  BY <1>2, <1>3, <1>6, <1>7 DEF sorted


-----------------------------------------------------------------------------
(****************************************************************************)
(* The invariant and what follows from it.                                  *)
(****************************************************************************)
AutomatonInv ==
  /\ Has(automaton, All(automaton))
  /\ automaton.max_out_degree <= MaxTransitions
  /\ automaton.composite_count <= MaxTransitions
  /\ OptionsAreContiguous

LEMMA AutomatonInit == Init => AutomatonInv
<1> SUFFICES ASSUME Init PROVE AutomatonInv
  OBVIOUS
<1> DEFINE none == [s \in State |-> <<>>]
<1>1. none \in [State -> Seq(Transition)] /\ \A s \in State : none[s] = <<>>
  BY EmptySeq
<1> HIDE DEF none
<1>2. automaton = [transitions |-> none, inverted_transitions |-> none,
                   is_controllable |-> [s \in State |-> TRUE], max_out_degree |-> 0,
                   composite_count |-> 0, ordered |-> FALSE]
  BY DEF Init, none
<1>3. /\ automaton \in Automata /\ automaton.max_out_degree = 0
      /\ automaton.composite_count = 0 /\ automaton.ordered = FALSE
      /\ \A s \in State : Out(automaton, s) = <<>> /\ In(automaton, s) = <<>>
  BY <1>1, <1>2 DEF Automata, Out, In
<1>4. \A s \in State : /\ Lists(<<>>, Leaving({}, s)) /\ Lists(<<>>, Entering({}, s))
                       /\ Len(<<>>) <= 0
  <2>1. \A s \in State : Leaving({}, s) = {} /\ Entering({}, s) = {}
    BY DEF Leaving, Entering
  <2>2. Lists(<<>>, {}) /\ Len(<<>>) <= 0
    BY EmptyListsNothing, EmptySeq
  <2> QED
    BY <2>1, <2>2
<1>5. Has(automaton, {})
  BY <1>3, <1>4, FS_EmptySet DEF Has
<1> QED
  BY <1>3, <1>5, AllOfAutomaton, AutomatonAssumption DEF AutomatonInv, OptionsAreContiguous

\* An operation that takes transitions away, as the removals do.
LEMMA RemovalKeepsInv ==
  ASSUME AutomatonInv, NEW X, Without(automaton, All(automaton), X, automaton')
  PROVE  AutomatonInv'
<1> DEFINE T == All(automaton)
<1>1. /\ Has(automaton, T) /\ automaton.composite_count <= MaxTransitions
      /\ automaton.max_out_degree <= MaxTransitions /\ OptionsAreContiguous
  BY DEF AutomatonInv
<1>2. /\ Has(automaton', T \ X) /\ automaton'.max_out_degree = automaton.max_out_degree
      /\ automaton' = automaton \/ automaton'.ordered = FALSE
  BY DEF Without
<1>3. Has(automaton', All(automaton'))
  BY <1>2, AllOfAutomaton
<1>4. automaton'.composite_count <= automaton.composite_count
  <2>1. IsFiniteSet(T) /\ T \ X \subseteq T
    BY <1>1 DEF Has
  <2>2. Cardinality(T \ X) <= Cardinality(T)
    BY <2>1, FS_Subset
  <2> QED
    BY <1>1, <1>2, <2>2 DEF Has
<1>5. automaton'.composite_count \in Nat /\ automaton.composite_count \in Nat
  BY <1>1, <1>2 DEF Has, Automata
<1>6. OptionsAreContiguous'
  BY <1>1, <1>2 DEF OptionsAreContiguous
<1>7. automaton'.composite_count <= MaxTransitions
  BY <1>1, <1>4, <1>5, AutomatonAssumption
<1> QED
  BY <1>1, <1>2, <1>3, <1>6, <1>7 DEF AutomatonInv

LEMMA AddKeepsInv ==
  ASSUME AutomatonInv, NEW t \in Transition, Add(t)
  PROVE  AutomatonInv'
<1> DEFINE T == All(automaton)
<1>1. /\ Has(automaton, T) /\ automaton.composite_count <= MaxTransitions
      /\ automaton.max_out_degree <= MaxTransitions /\ OptionsAreContiguous
  BY DEF AutomatonInv
<1>2. automaton.composite_count < MaxTransitions /\ automaton' = AddTransition(automaton, t)
  BY DEF Add
<1>3. /\ Has(automaton', T \cup {t})
      /\ automaton' = automaton \/ automaton'.ordered = FALSE
      /\ \/ automaton'.max_out_degree <= automaton.max_out_degree
         \/ \E s \in State : automaton'.max_out_degree = Len(Out(automaton', s))
  BY <1>1, <1>2, AddEffect
<1>4. Has(automaton', All(automaton'))
  BY <1>3, AllOfAutomaton
<1>5. automaton'.composite_count <= MaxTransitions
  <2>1. IsFiniteSet(T) /\ Cardinality(T) = automaton.composite_count
    BY <1>1 DEF Has
  <2>2. Cardinality(T \cup {t}) <= Cardinality(T) + 1 /\ Cardinality(T) \in Nat
    <3>1. Cardinality(T) \in Nat
      BY <2>1, FS_CardinalityType
    <3>2. Cardinality(T \cup {t}) = IF t \in T THEN Cardinality(T) ELSE Cardinality(T) + 1
      BY <2>1, FS_AddElement
    <3> QED
      BY <3>1, <3>2
  <2>3. Cardinality(T \cup {t}) = automaton'.composite_count
    BY <1>3 DEF Has
  <2>4. IsFiniteSet(T \cup {t})
    BY <1>3 DEF Has
  <2>5. Cardinality(T \cup {t}) \in Nat
    BY <2>4, FS_CardinalityType
  <2> QED
    BY <1>2, <2>1, <2>2, <2>3, <2>5, AutomatonAssumption
<1>6. automaton'.max_out_degree <= MaxTransitions
  <2>1. CASE automaton'.max_out_degree <= automaton.max_out_degree
    <3>1. automaton'.max_out_degree \in Nat /\ automaton.max_out_degree \in Nat
      BY <1>1, <1>3 DEF Has, Automata
    <3> QED
      BY <1>1, <2>1, <3>1, AutomatonAssumption
  <2>2. CASE \E s \in State : automaton'.max_out_degree = Len(Out(automaton', s))
    <3>1. PICK s \in State : automaton'.max_out_degree = Len(Out(automaton', s))
      BY <2>2
    <3> DEFINE U == T \cup {t}
    <3>2. Has(automaton', U)
      BY <1>3
    <3> HIDE DEF U, T
    <3>3. Lists(Out(automaton', s), Leaving(U, s)) /\ IsFiniteSet(U) /\ Leaving(U, s) \subseteq U
      BY <3>2 DEF Has, Leaving
    <3>4. Cardinality(Leaving(U, s)) <= Cardinality(U)
      BY <3>3, FS_Subset
    <3>5. Cardinality(Leaving(U, s)) = automaton'.max_out_degree
      BY <3>1, <3>3, ListLength
    <3>6. automaton'.max_out_degree <= automaton'.composite_count
      BY <3>2, <3>4, <3>5 DEF Has
    <3>7. automaton'.max_out_degree \in Nat /\ automaton'.composite_count \in Nat
      BY <3>2 DEF Has, Automata
    <3> QED
      BY <1>5, <3>6, <3>7, AutomatonAssumption
  <2> QED
    BY <1>3, <2>1, <2>2
<1>7. OptionsAreContiguous'
  BY <1>1, <1>3 DEF OptionsAreContiguous
<1> QED
  BY <1>4, <1>5, <1>6, <1>7 DEF AutomatonInv

LEMMA RemoveIfAnyRemoves ==
  ASSUME AutomatonInv, NEW t \in Transition, RemoveIfAny(t)
  PROVE  \E X : Without(automaton, All(automaton), X, automaton')
<1> DEFINE T == All(automaton)
<1>1. Has(automaton, T)
  BY DEF AutomatonInv
<1>2. Out(automaton, t.state_from) # <<>> /\ automaton' = RemoveTransition(automaton, t)
  BY DEF RemoveIfAny
<1> HIDE DEF T
<1>3. CASE t \in T
  <2>1. Without(automaton, T, {t}, automaton')
    BY <1>1, <1>2, <1>3, RemoveEffect
  <2> QED
    BY <2>1 DEF T
<1>4. CASE t \notin T
  <2>1. automaton' = automaton
    BY <1>1, <1>2, <1>4, RemoveNothing
  <2>2. Without(automaton, T, {}, automaton')
    BY <1>1, <2>1, WithoutNothing
  <2> QED
    BY <2>2 DEF T
<1> QED
  BY <1>3, <1>4

LEMMA OrderKeepsInv ==
  ASSUME AutomatonInv, Order
  PROVE  AutomatonInv'
<1> DEFINE T == All(automaton)
<1>1. /\ Has(automaton, T) /\ automaton.composite_count <= MaxTransitions
      /\ automaton.max_out_degree <= MaxTransitions /\ OptionsAreContiguous
  BY DEF AutomatonInv
<1>2. automaton' = MonitoredOrder(automaton)
  BY DEF Order
<1> HIDE DEF T
<1>3. CASE automaton.ordered
  <2>1. automaton' = automaton
    BY <1>2, <1>3 DEF MonitoredOrder
  <2> QED
    BY <1>1, <2>1 DEF AutomatonInv, OptionsAreContiguous, T
<1>4. CASE ~ automaton.ordered
  <2>1. /\ Has(automaton', T) /\ automaton'.max_out_degree = automaton.max_out_degree
        /\ \A s \in State : Contiguous(Out(automaton', s)) /\ Contiguous(In(automaton', s))
    BY <1>1, <1>2, <1>4, MonitoredOrderEffect
  <2>2. Has(automaton', All(automaton'))
    BY <2>1, AllOfAutomaton
  <2>3. automaton'.composite_count = automaton.composite_count
    BY <1>1, <2>1 DEF Has
  <2> QED
    BY <1>1, <2>1, <2>2, <2>3 DEF AutomatonInv, OptionsAreContiguous
<1> QED
  BY <1>3, <1>4

LEMMA AutomatonStep == AutomatonInv /\ [Next]_vars => AutomatonInv'
<1> SUFFICES ASSUME AutomatonInv, [Next]_vars PROVE AutomatonInv'
  OBVIOUS
<1>1. Has(automaton, All(automaton))
  BY DEF AutomatonInv
<1>2. ASSUME NEW t \in Transition, Add(t) PROVE AutomatonInv'
  BY <1>2, AddKeepsInv
<1>3. ASSUME NEW t \in Transition, RemoveIfAny(t) PROVE AutomatonInv'
  BY <1>3, RemoveIfAnyRemoves, RemovalKeepsInv
<1>4. CASE Order
  BY <1>4, OrderKeepsInv
<1>5. CASE RemoveUnreachable
  BY <1>1, <1>5, RemoveUnreachableEffect, RemovalKeepsInv DEF RemoveUnreachable
<1>6. CASE RemoveMixed
  BY <1>1, <1>6, RemoveMixedStatesEffect, RemovalKeepsInv DEF RemoveMixed
<1>7. CASE UNCHANGED vars
  BY <1>7 DEF vars, AutomatonInv, Has, All, Out, In, OptionsAreContiguous
<1> QED
  BY <1>2, <1>3, <1>4, <1>5, <1>6, <1>7 DEF Next

\* The lists, the counters and the flags are those of a set of transitions at any time.
THEOREM AutomatonInvariant == Spec => []AutomatonInv
<1>1. AutomatonInv /\ [Next]_vars => AutomatonInv'
  BY AutomatonStep
<1> QED
  BY AutomatonInit, <1>1, PTL DEF Spec

\* The record keeps its shape and its counters their bounds.
THEOREM AutomatonTypeCorrect == Spec => []TypeOK
<1>1. AutomatonInv => TypeOK
  <2> SUFFICES ASSUME AutomatonInv PROVE TypeOK
    OBVIOUS
  <2> DEFINE T == All(automaton)
  <2>1. Has(automaton, T) /\ automaton.max_out_degree <= MaxTransitions
        /\ automaton.composite_count <= MaxTransitions
    BY DEF AutomatonInv
  <2> HIDE DEF T
  <2>2. automaton \in Automata /\ T \subseteq Transition
    BY <2>1 DEF Has
  <2>3. ASSUME NEW s \in State
        PROVE  /\ ToSet(Out(automaton, s)) \subseteq {t \in Transition : t.state_from = s}
               /\ ToSet(In(automaton, s)) \subseteq {t \in Transition : t.state_to = s}
    <3>1. ToSet(Out(automaton, s)) = Leaving(T, s) /\ ToSet(In(automaton, s)) = Entering(T, s)
      BY <2>1 DEF Has, Lists
    <3> QED
      BY <2>2, <3>1 DEF Leaving, Entering
  <2>4. /\ automaton.is_controllable \in [State -> BOOLEAN] /\ automaton.ordered \in BOOLEAN
        /\ automaton.max_out_degree \in Nat /\ automaton.composite_count \in Nat
    BY <2>2 DEF Automata
  <2>5. automaton.max_out_degree \in 0 .. MaxTransitions /\ automaton.composite_count \in 0 .. MaxTransitions
    BY <2>1, <2>4, AutomatonAssumption
  <2> QED
    BY <2>3, <2>4, <2>5 DEF TypeOK
<1> QED
  BY AutomatonInvariant, <1>1, PTL

\* Every transition is once in the list it leaves from and once in the one it enters, and
\* the counters agree with the lists.
THEOREM ListsMirror == Spec => []Mirrored
<1>1. AutomatonInv => Mirrored
  <2> SUFFICES ASSUME AutomatonInv PROVE Mirrored
    OBVIOUS
  <2>1. Has(automaton, All(automaton))
    BY DEF AutomatonInv
  <2> QED
    BY <2>1, Zenon DEF Has, Lists, Entering, Mirrored
<1> QED
  BY AutomatonInvariant, <1>1, PTL

\* In an ordered automaton the transitions of an option are next to each other.
THEOREM OptionsContiguous == Spec => []OptionsAreContiguous
<1>1. AutomatonInv => OptionsAreContiguous
  BY DEF AutomatonInv
<1> QED
  BY AutomatonInvariant, <1>1, PTL

\* What automaton_remove_unreachable_states would leave at any time are the transitions of
\* the states that the initial one leads to.
THEOREM UnreachableRemoved == Spec => []UnreachableAreRemoved
<1>1. AutomatonInv => UnreachableAreRemoved
  <2> SUFFICES ASSUME AutomatonInv PROVE UnreachableAreRemoved
    OBVIOUS
  <2> DEFINE T == All(automaton)
             left == RemoveUnreachableStates(automaton)
  <2>1. Has(automaton, T)
    BY DEF AutomatonInv
  <2>2. Has(left, T \ Unreachable(automaton, T))
    BY <2>1, RemoveUnreachableEffect DEF Without
  <2> HIDE DEF left
  <2>3. All(left) = T \ Unreachable(automaton, T)
    BY <2>2, AllOfAutomaton
  <2> QED
    BY <2>3 DEF UnreachableAreRemoved, Unreachable, Kept, left
<1> QED
  BY AutomatonInvariant, <1>1, PTL

\* When the flags are current, the end of the composition leaves no state with both inputs
\* and outputs.
THEOREM NoStateMixed == Spec => []NoStateIsMixed
<1>1. AutomatonInv => NoStateIsMixed
  <2> SUFFICES ASSUME AutomatonInv, FlagsAreCurrent PROVE NoStateIsMixed
    BY DEF NoStateIsMixed
  <2> DEFINE T == All(automaton)
             left == RemoveMixedStates(automaton)
             X == MixedOutputs(automaton, T, StatesCount)
             Inputs(s) == {t \in ToSet(Out(automaton, s)) : t.signals \in InputLabel}
  <2>1. Has(automaton, T)
    BY DEF AutomatonInv
  <2>2. PICK distant : Without(automaton, T, X \cup {t \in T \ X : t.state_from \notin Kept(distant)}, left)
    BY <2>1, RemoveMixedStatesEffect
  <2> DEFINE rest == T \ (X \cup {t \in T \ X : t.state_from \notin Kept(distant)})
  <2>3. Has(left, rest)
    BY <2>2 DEF Without
  <2> HIDE DEF left
  <2>4. ASSUME NEW s \in State, Inputs(s) # {}
        PROVE  ToSet(Out(left, s)) \in {Inputs(s), {}}
    <3>1. ToSet(Out(automaton, s)) = Leaving(T, s)
      BY <2>1 DEF Has, Lists
    <3>2. ToSet(Out(left, s)) = Leaving(rest, s)
      <4> HIDE DEF rest
      <4> QED
        BY <2>3 DEF Has, Lists
    <3>3. ~ automaton.is_controllable[s]
      BY <2>4 DEF FlagsAreCurrent
    <3>4. s < StatesCount
      BY AutomatonAssumption DEF State
    <3>5. Leaving(T \ X, s) = Inputs(s)
      <4>1. Inputs(s) = {t \in Leaving(T, s) : t.signals \in InputLabel}
        BY <3>1
      <4>2. \A t \in Leaving(T, s) : t \in X <=> t.signals \notin InputLabel
        BY <3>3, <3>4 DEF MixedOutputs, IsOutput, Leaving
      <4> HIDE DEF X, Inputs
      <4> QED
        BY <4>1, <4>2 DEF Leaving
    <3>6. Leaving(rest, s) = IF s \in Kept(distant) THEN Leaving(T \ X, s) ELSE {}
      <4> HIDE DEF X
      <4> QED
        BY DEF Leaving
    <3> QED
      BY <3>2, <3>5, <3>6
  <2> QED
    BY <2>4 DEF NoStateIsMixed, left
<1> QED
  BY AutomatonInvariant, <1>1, PTL


=============================================================================
