---------------------------- MODULE DiagnosisProofs ----------------------------
(****************************************************************************)
(* The searches for a minimal unrealizable part, for all games, verdicts    *)
(* and numbers of option groups.                                            *)
(****************************************************************************)
EXTENDS Diagnosis, FiniteSetTheorems, SequenceTheorems, TLAPS

-----------------------------------------------------------------------------
(****************************************************************************)
(* Cleaning up: the states that are reached keep all their options and the  *)
(* others lose them.                                                        *)
(****************************************************************************)
Moves == [State -> SUBSET Option]

\* The states X, initial state included, are closed under the moves m.
ClosedUnder(X, m) == InitialState \in X /\ X \subseteq State /\ \A s \in X : UNION m[s] \subseteq X

\* Every option of l is one of m.
PartOf(l, m) == \A s \in State : l[s] \subseteq m[s]

LEMMA ReachedIsLeast ==
  ASSUME NEW m
  PROVE  /\ M!Reached(m) \subseteq State
         /\ \A X : ClosedUnder(X, m) => M!Reached(m) \subseteq X
BY DEF M!Reached, ClosedUnder

LEMMA ReachedIsClosed ==
  ASSUME NEW m \in Moves
  PROVE  ClosedUnder(M!Reached(m), m)
<1>1. InitialState \in M!Reached(m)
  BY InitialStateAssumption DEF M!Reached
<1>2. ASSUME NEW s \in M!Reached(m), NEW o \in m[s], NEW t \in o PROVE t \in M!Reached(m)
  <2>1. s \in State /\ o \in Option /\ t \in State
    BY DEF M!Reached, Moves, Option
  <2>2. ASSUME NEW X \in SUBSET State, InitialState \in X, \A u \in X : UNION m[u] \subseteq X
        PROVE  t \in X
    <3>1. s \in X
      BY <2>2 DEF M!Reached
    <3> QED
      BY <2>2, <3>1
  <2> QED
    BY <2>1, <2>2 DEF M!Reached
<1> QED
  BY <1>1, <1>2, ReachedIsLeast DEF ClosedUnder

LEMMA CleanUpEffect ==
  ASSUME NEW m \in Moves
  PROVE  /\ M!CleanUp(m) \in Moves
         /\ PartOf(M!CleanUp(m), m)
         /\ \A s \in M!Reached(m) : M!CleanUp(m)[s] = m[s]
         /\ \A s \in State \ M!Reached(m) : M!CleanUp(m)[s] = {}
BY ReachedIsLeast DEF M!CleanUp, Moves, PartOf

\* Moves with fewer options reach no other states.
LEMMA PartsReachLess ==
  ASSUME NEW m \in Moves, NEW l \in Moves, PartOf(l, m)
  PROVE  M!Reached(l) \subseteq M!Reached(m)
<1>1. ClosedUnder(M!Reached(m), m)
  BY ReachedIsClosed
<1>2. ClosedUnder(M!Reached(m), l)
  BY <1>1 DEF ClosedUnder, PartOf
<1> QED
  BY <1>2, ReachedIsLeast

\* Moves that agree on the states one of them reaches are the same once cleaned up.
LEMMA CleanUpAgrees ==
  ASSUME NEW m \in Moves, NEW l \in Moves, NEW X, ClosedUnder(X, m), \A s \in X : l[s] = m[s]
  PROVE  M!CleanUp(l) = M!CleanUp(m) /\ M!Reached(l) = M!Reached(m)
<1>1. ClosedUnder(X, l)
  BY DEF ClosedUnder
<1>2. M!Reached(l) \subseteq X /\ M!Reached(m) \subseteq X
  BY <1>1, ReachedIsLeast
<1>3. ClosedUnder(M!Reached(l), l) /\ ClosedUnder(M!Reached(m), m)
  BY ReachedIsClosed
<1>4. ClosedUnder(M!Reached(l), m) /\ ClosedUnder(M!Reached(m), l)
  BY <1>2, <1>3 DEF ClosedUnder
<1>5. M!Reached(l) = M!Reached(m)
  BY <1>4, ReachedIsLeast
<1>6. \A s \in State : (IF s \in M!Reached(l) THEN l[s] ELSE {}) = (IF s \in M!Reached(m) THEN m[s] ELSE {})
  BY <1>2, <1>5
<1> QED
  BY <1>5, <1>6 DEF M!CleanUp

\* Cleaning up twice is cleaning up once.
LEMMA CleanUpTwice ==
  ASSUME NEW m \in Moves
  PROVE  /\ M!CleanUp(M!CleanUp(m)) = M!CleanUp(m)
         /\ M!Reached(M!CleanUp(m)) = M!Reached(m)
<1>1. ClosedUnder(M!Reached(m), m)
  BY ReachedIsClosed
<1>2. M!CleanUp(m) \in Moves /\ \A s \in M!Reached(m) : M!CleanUp(m)[s] = m[s]
  BY CleanUpEffect
<1> QED
  BY <1>1, <1>2, CleanUpAgrees

\* Cleaning up before options are taken changes nothing once it is done after.
LEMMA CleanUpBefore ==
  ASSUME NEW m \in Moves, NEW l \in Moves, NEW h \in Moves, PartOf(l, m),
         \A s \in M!Reached(m) : h[s] = l[s]
  PROVE  M!CleanUp(h) = M!CleanUp(l)
<1>1. ClosedUnder(M!Reached(m), m)
  BY ReachedIsClosed
<1>2. ClosedUnder(M!Reached(m), l)
  BY <1>1 DEF ClosedUnder, PartOf
<1> QED
  BY <1>2, CleanUpAgrees

-----------------------------------------------------------------------------
(****************************************************************************)
(* The groups: every option of a state that has another one, each once.     *)
(****************************************************************************)
Group == [state : State, option : Option]

LEMMA StatesAreNumbers ==
  /\ Cardinality(State) \in Nat /\ State = 0 .. Cardinality(State) - 1
  /\ State \subseteq Nat
BY StateAssumption, StateOrderAssumption, FS_CardinalityType

LEMMA OptionsAreFinite == IsFiniteSet(Option)
BY StateAssumption, FS_SUBSET, FS_Difference DEF Option

\* A finite set in some order: all its members, each at one position.
LEMMA ListHasAll ==
  ASSUME NEW S, IsFiniteSet(S)
  PROVE  /\ SetToSeq(S) \in Seq(S) /\ Len(SetToSeq(S)) = Cardinality(S)
         /\ \A i, k \in 1 .. Cardinality(S) : SetToSeq(S)[i] = SetToSeq(S)[k] => i = k
         /\ \A x \in S : \E i \in 1 .. Cardinality(S) : SetToSeq(S)[i] = x
<1> DEFINE n == Cardinality(S)
           list == SetToSeq(S)
<1>1. n \in Nat /\ ExistsBijection(1 .. n, S)
  BY FS_CardinalityType
<1>2. list \in Injection(1 .. n, S)
  <2>1. \E f \in [1 .. n -> S] : IsInjective(f)
    BY <1>1 DEF ExistsBijection, Bijection, Injection
  <2> QED
    BY <2>1 DEF SetToSeq, Injection
<1> HIDE DEF list
<1>3. list \in Surjection(1 .. n, S)
  <2>1. IsFiniteSet(1 .. n) /\ Cardinality(1 .. n) = n
    BY <1>1, FS_Interval
  <2> QED
    BY <1>2, <2>1, FS_Injection
<1>4. list \in [1 .. n -> S] /\ list \in Seq(S) /\ Len(list) = n
  BY <1>1, <1>2 DEF Injection
<1> HIDE DEF n
<1> QED
  BY <1>2, <1>3, <1>4 DEF Injection, Surjection, IsInjective, n, list

\* The groups of one state.
StateGroups(g, s, list) ==
  /\ list \in Seq(Group)
  /\ \A t \in 1 .. Len(list) : list[t].state = s /\ list[t].option \in g.moves[s]
  /\ \A t, u \in 1 .. Len(list) : list[t].option = list[u].option => t = u
  /\ \A o, q \in g.moves[s] : o # q => \E t \in 1 .. Len(list) : list[t].option = o

LEMMA GroupsOfEffect ==
  ASSUME NEW g \in Game, NEW s \in State
  PROVE  StateGroups(g, s, GroupsOf(g, s))
<1> DEFINE S == g.moves[s]
           n == Cardinality(S)
           list == SetToSeq(S)
           options == Reverse(list)
<1>1. S \subseteq Option /\ IsFiniteSet(S)
  <2>1. S \in SUBSET Option
    BY DEF Game
  <2> QED
    BY <2>1, OptionsAreFinite, FS_Subset
<1>2. n \in Nat
  BY <1>1, FS_CardinalityType
<1>3. /\ list \in Seq(S) /\ Len(list) = n
      /\ \A i, k \in 1 .. n : list[i] = list[k] => i = k
      /\ \A x \in S : \E i \in 1 .. n : list[i] = x
  BY <1>1, ListHasAll
<1> HIDE DEF list, n, S
<1>4. /\ options = [i \in 1 .. n |-> list[(n - i) + 1]]
      /\ \A i \in 1 .. n : (n - i) + 1 \in 1 .. n /\ (n - ((n - i) + 1)) + 1 = i
  BY <1>2, <1>3 DEF Reverse
<1>5. /\ options \in [1 .. n -> S]
      /\ \A i, k \in 1 .. n : options[i] = options[k] => i = k
      /\ \A x \in S : \E i \in 1 .. n : options[i] = x
  <2>1. \A i \in 1 .. n : list[i] \in S
    BY <1>3, LenProperties
  <2>2. \A i \in 1 .. n : options[i] = list[(n - i) + 1]
    BY <1>4
  <2>3. options \in [1 .. n -> S]
    <3> HIDE DEF options
    <3> QED
      BY <1>4, <2>1
  <2>4. ASSUME NEW i \in 1 .. n, NEW k \in 1 .. n, options[i] = options[k] PROVE i = k
    <3>1. (n - i) + 1 = (n - k) + 1
      BY <1>3, <1>4, <2>2, <2>4
    <3> QED
      BY <1>2, <3>1
  <2>5. ASSUME NEW x \in S PROVE \E i \in 1 .. n : options[i] = x
    <3>1. PICK i \in 1 .. n : list[i] = x
      BY <1>3
    <3>2. options[(n - i) + 1] = x
      BY <1>4, <2>2, <3>1
    <3> QED
      BY <1>4, <3>2
  <2> QED
    BY <2>3, <2>4, <2>5
<1>6. options \in Seq(S) /\ Len(options) = n /\ DOMAIN options = 1 .. n
  BY <1>2, <1>5
<1> HIDE DEF options
<1>7. GroupsOf(g, s) = IF n < 2 THEN <<>>
                       ELSE [i \in 1 .. n |-> [state |-> s, option |-> options[i]]]
  BY <1>6 DEF GroupsOf, options, list, S, n
<1>8. CASE n < 2
  <2>1. GroupsOf(g, s) = <<>> /\ Len(GroupsOf(g, s)) = 0 /\ GroupsOf(g, s) \in Seq(Group)
    BY <1>7, <1>8
  <2>2. \A o, q \in S : o = q
    BY <1>2, <1>5, <1>8
  <2> QED
    BY <2>1, <2>2 DEF StateGroups, S
<1>9. CASE ~(n < 2)
  <2> DEFINE all == GroupsOf(g, s)
  <2>1. all = [i \in 1 .. n |-> [state |-> s, option |-> options[i]]]
    BY <1>7, <1>9
  <2>2. \A i \in 1 .. n : all[i] = [state |-> s, option |-> options[i]] /\ all[i] \in Group
    BY <1>1, <1>5, <2>1 DEF Group
  <2> HIDE DEF all
  <2>3. all \in [1 .. n -> Group]
    BY <2>1, <2>2
  <2>4. all \in Seq(Group) /\ Len(all) = n
    BY <1>2, <2>3
  <2>5. ASSUME NEW i \in 1 .. n PROVE all[i].state = s /\ all[i].option = options[i]
    <3>1. all[i] = [state |-> s, option |-> options[i]]
      BY <2>2
    <3> HIDE DEF all
    <3> QED
      BY <3>1
  <2>6. StateGroups(g, s, all)
    BY <1>5, <2>4, <2>5 DEF StateGroups, S
  <2> QED
    BY <2>6 DEF all
<1> QED
  BY <1>8, <1>9

\* The groups of the states below k.
GroupsBelow(g, k, list) ==
  /\ list \in Seq(Group)
  /\ \A t \in 1 .. Len(list) : list[t].state < k /\ list[t].option \in g.moves[list[t].state]
  /\ \A t, u \in 1 .. Len(list) : list[t] = list[u] => t = u
  /\ \A s \in State : s < k =>
       \A o, q \in g.moves[s] : o # q =>
         \E t \in 1 .. Len(list) : list[t] = [state |-> s, option |-> o]

GatherTurn(c, list, i) == list \o GroupsOf(c, i - 1)
Gather == INSTANCE Iteration WITH Op <- GatherTurn, Inv <- GroupsBelow

LEMMA GatherTurnEffect ==
  ASSUME NEW g \in Game, NEW s \in State, NEW list, GroupsBelow(g, s, list)
  PROVE  GroupsBelow(g, s + 1, list \o GroupsOf(g, s))
<1> DEFINE more == GroupsOf(g, s)
           all == list \o more
           n == Len(list)
<1>1. StateGroups(g, s, more)
  BY GroupsOfEffect
<1>2. s \in Nat /\ State \subseteq Nat
  BY StatesAreNumbers
<1> HIDE DEF more
<1>3. /\ list \in Seq(Group) /\ more \in Seq(Group)
      /\ n \in Nat /\ Len(more) \in Nat
      /\ \A t \in 1 .. n : list[t] \in Group
      /\ \A t \in 1 .. Len(more) : more[t] \in Group
  BY <1>1, LenProperties DEF GroupsBelow, StateGroups
<1>4. /\ all \in Seq(Group) /\ Len(all) = n + Len(more)
      /\ \A t \in 1 .. n + Len(more) : all[t] = IF t <= n THEN list[t] ELSE more[t - n]
  BY <1>3, ConcatProperties
<1> HIDE DEF all, n
<1>5. ASSUME NEW t \in 1 .. Len(all)
      PROVE  \/ t \in 1 .. n /\ all[t] = list[t] /\ list[t].state < s
             \/ t - n \in 1 .. Len(more) /\ all[t] = more[t - n] /\ more[t - n].state = s
  <2>1. CASE t <= n
    BY <1>3, <1>4, <2>1 DEF GroupsBelow, n
  <2>2. CASE ~(t <= n)
    <3>1. t - n \in 1 .. Len(more)
      BY <1>3, <1>4, <2>2
    <3> QED
      BY <1>1, <1>4, <2>2, <3>1 DEF StateGroups
  <2> QED
    BY <2>1, <2>2
<1>6. ASSUME NEW t \in 1 .. Len(all)
      PROVE  all[t].state < s + 1 /\ all[t].option \in g.moves[all[t].state]
  <2>1. CASE t \in 1 .. n /\ all[t] = list[t] /\ list[t].state < s
    <3>1. list[t].state \in Nat
      BY <1>2, <1>3, <2>1 DEF Group
    <3> QED
      BY <1>2, <2>1, <3>1 DEF GroupsBelow, n
  <2>2. CASE t - n \in 1 .. Len(more) /\ all[t] = more[t - n] /\ more[t - n].state = s
    BY <1>1, <1>2, <2>2 DEF StateGroups
  <2> QED
    BY <1>5, <2>1, <2>2
<1>7. ASSUME NEW t \in 1 .. Len(all), NEW u \in 1 .. Len(all), all[t] = all[u]
      PROVE  t = u
  <2>0. all[t].state = all[u].state /\ ~(s < s)
    BY <1>2, <1>7
  <2>1. CASE t \in 1 .. n /\ all[t] = list[t] /\ list[t].state < s
    <3>1. u \in 1 .. n /\ all[u] = list[u]
      BY <1>5, <2>0, <2>1, Zenon
    <3> QED
      BY <1>7, <2>1, <3>1 DEF GroupsBelow, n
  <2>2. CASE t - n \in 1 .. Len(more) /\ all[t] = more[t - n] /\ more[t - n].state = s
    <3>1. u - n \in 1 .. Len(more) /\ all[u] = more[u - n]
      BY <1>5, <2>0, <2>2, Zenon
    <3>2. t - n = u - n
      BY <1>1, <1>7, <2>2, <3>1 DEF StateGroups
    <3> QED
      BY <1>3, <1>4, <3>2
  <2> QED
    BY <1>5, <2>1, <2>2
<1>8. ASSUME NEW u \in State, u < s + 1, NEW o \in g.moves[u], NEW q \in g.moves[u], o # q
      PROVE  \E t \in 1 .. Len(all) : all[t] = [state |-> u, option |-> o]
  <2>1. CASE u < s
    <3>1. PICK t \in 1 .. n : list[t] = [state |-> u, option |-> o]
      BY <1>8, <2>1 DEF GroupsBelow, n
    <3>2. t \in 1 .. Len(all) /\ all[t] = list[t]
      BY <1>3, <1>4
    <3> QED
      BY <3>1, <3>2
  <2>2. CASE ~(u < s)
    <3>1. u = s
      BY <1>2, <1>8, <2>2
    <3>2. PICK t \in 1 .. Len(more) : more[t].option = o
      BY <1>1, <1>8, <3>1 DEF StateGroups
    <3>3. n + t \in 1 .. Len(all) /\ ~(n + t <= n) /\ (n + t) - n = t
      BY <1>3, <1>4
    <3>4. all[n + t] = more[t] /\ more[t].state = s /\ more[t] \in Group
      BY <1>1, <1>3, <1>4, <3>3 DEF StateGroups
    <3>5. more[t] = [state |-> u, option |-> o]
      BY <3>1, <3>2, <3>4 DEF Group
    <3> QED
      BY <3>3, <3>4, <3>5
  <2> QED
    BY <2>1, <2>2
<1>9. GroupsBelow(g, s + 1, all)
  BY <1>4, <1>6, <1>7, <1>8 DEF GroupsBelow
<1> QED
  BY <1>9 DEF all, more

\* The groups of a game.
GroupsOK(g, list) ==
  /\ list \in Seq(Group)
  /\ \A t \in DOMAIN list : list[t].option \in g.moves[list[t].state]
  /\ \A t, u \in DOMAIN list : list[t] = list[u] => t = u
  /\ \A s \in State : \A o, q \in g.moves[s] :
       o # q => \E t \in DOMAIN list : list[t].state = s /\ list[t].option = o

LEMMA GroupsAreAll ==
  ASSUME NEW g \in Game
  PROVE  GroupsOK(g, Groups(g))
<1> DEFINE n == Cardinality(State)
           states == InOrder(n)
           result == Groups(g)
           iter == CHOOSE it : Gather!IsFold(it, g, <<>>, states, DOMAIN states)
<1>1. n \in Nat /\ State = 0 .. n - 1
  BY StatesAreNumbers
<1>2. DOMAIN states = 1 .. n /\ \A i \in 1 .. n : states[i] = i
  BY DEF InOrder
<1>3. result = iter[DOMAIN states]
  BY Zenon DEF Groups, FoldLeft, MapThenFoldSet, Max, Gather!IsFold, GatherTurn
<1> HIDE DEF result, states, n
<1>4. Gather!IsFold(iter, g, <<>>, states, 1 .. n)
  <2>1. \E it : Gather!IsFold(it, g, <<>>, states, 1 .. n)
    BY <1>1, Gather!FoldExists, Zenon
  <2> QED
    BY <1>2, <2>1, Zenon
<1> HIDE DEF iter
<1>5. GroupsBelow(g, 0, <<>>)
  BY <1>1 DEF GroupsBelow
<1>6. ASSUME NEW k \in 0 .. n - 1, NEW list, GroupsBelow(g, k, list)
      PROVE  GroupsBelow(g, k + 1, GatherTurn(g, list, states[k + 1]))
  <2>1. k \in State /\ k + 1 \in 1 .. n /\ (k + 1) - 1 = k
    BY <1>1
  <2>2. GatherTurn(g, list, states[k + 1]) = list \o GroupsOf(g, k)
    BY <1>2, <2>1 DEF GatherTurn
  <2> QED
    BY <1>6, <2>1, <2>2, GatherTurnEffect
<1>7. GroupsBelow(g, n, iter[1 .. n])
  BY <1>1, <1>4, <1>5, <1>6, Gather!FoldInvariant, Zenon
<1>8. GroupsBelow(g, n, result)
  BY <1>2, <1>3, <1>7
<1>9. DOMAIN result = 1 .. Len(result) /\ \A t \in DOMAIN result : result[t] \in Group
  BY <1>8, LenProperties DEF GroupsBelow
<1>10. GroupsOK(g, result)
  <2>1. ASSUME NEW s \in State, NEW o \in g.moves[s], NEW q \in g.moves[s], o # q
        PROVE  \E t \in DOMAIN result : result[t].state = s /\ result[t].option = o
    <3>1. s < n
      BY <1>1
    <3>2. PICK t \in 1 .. Len(result) : result[t] = [state |-> s, option |-> o]
      BY <1>8, <2>1, <3>1 DEF GroupsBelow
    <3> QED
      BY <1>9, <3>2
  <2> QED
    BY <1>8, <1>9, <2>1 DEF GroupsBelow, GroupsOK
<1> QED
  BY <1>10 DEF result

-----------------------------------------------------------------------------
(****************************************************************************)
(* Taking groups: a state that has other options than theirs keeps just     *)
(* those, and a state that has no other keeps one of them.                  *)
(****************************************************************************)
Options(list, T, s) == {list[t].option : t \in {u \in T : u \in DOMAIN list /\ list[u].state = s}}

TakenAt(m, G, l) ==
  IF m \ G # {} THEN l = m \ G
  ELSE l \subseteq m /\ (m # {} => \E o \in m : l = {o})

Taken(list, m, T, l) ==
  l \in Moves /\ \A s \in State : TakenAt(m[s], Options(list, T, s), l[s])

TakenSoFar(c, k, l) == Taken(c.list, c.moves, c.taken \cap (1 .. k), l)
TakeTurn(c, left, t) == TakeIfIn(c.taken, c.list, left, t)
Taking == INSTANCE Iteration WITH Op <- TakeTurn, Inv <- TakenSoFar

\* One more option is taken.
LEMMA TakeOneMore ==
  ASSUME NEW m, NEW G, NEW l, NEW o, TakenAt(m, G, l)
  PROVE  TakenAt(m, G \cup {o}, IF l = {o} THEN l ELSE l \ {o})
<1>1. CASE m \ G = {}
  <2>1. m \ (G \cup {o}) = {} /\ l \subseteq m
    BY <1>1 DEF TakenAt
  <2>2. CASE m = {}
    BY <2>1, <2>2 DEF TakenAt
  <2>3. CASE m # {}
    <3>1. PICK q \in m : l = {q}
      BY <1>1, <2>3 DEF TakenAt
    <3>2. (IF l = {o} THEN l ELSE l \ {o}) = l
      BY <3>1
    <3> QED
      BY <2>1, <3>1, <3>2 DEF TakenAt
  <2> QED
    BY <2>2, <2>3
<1>2. CASE m \ G # {}
  <2>1. l = m \ G
    BY <1>2 DEF TakenAt
  <2>2. CASE l = {o}
    <3>1. m \ (G \cup {o}) = {} /\ o \in m
      BY <2>1, <2>2
    <3> QED
      BY <2>1, <2>2, <3>1 DEF TakenAt
  <2>3. CASE l # {o}
    <3>1. m \ (G \cup {o}) = l \ {o} /\ l \ {o} # {}
      BY <1>2, <2>1, <2>3
    <3> QED
      BY <2>3, <3>1 DEF TakenAt
  <2> QED
    BY <2>2, <2>3
<1> QED
  BY <1>1, <1>2

OneTaken(m, s, o, l) ==
  /\ l \in Moves /\ s \in State /\ o \in Option
  /\ \A u \in State : l[u] = IF u # s \/ m[u] = {o} THEN m[u] ELSE m[u] \ {o}

LEMMA TakeEffect ==
  ASSUME NEW list \in Seq(Group), NEW m \in Moves, NEW t \in DOMAIN list
  PROVE  OneTaken(m, list[t].state, list[t].option, Take(list, m, t))
<1>1. list[t] \in Group
  BY LenProperties
<1>2. list[t].state \in State /\ list[t].option \in Option
  BY <1>1 DEF Group
<1> DEFINE s == list[t].state
           o == list[t].option
<1>3. Take(list, m, t) = [m EXCEPT ![s] = IF m[s] = {o} THEN m[s] ELSE m[s] \ {o}]
  BY <1>2 DEF Take, Moves
<1> HIDE DEF s, o
<1>4. s \in State /\ o \in Option
  BY <1>2 DEF s, o
<1>5. (IF m[s] = {o} THEN m[s] ELSE m[s] \ {o}) \in SUBSET Option
  BY <1>4 DEF Moves
<1>6. OneTaken(m, s, o, Take(list, m, t))
  BY <1>3, <1>4, <1>5 DEF Moves, OneTaken
<1> QED
  BY <1>6 DEF s, o

LEMMA TakeAllEffect ==
  ASSUME NEW list \in Seq(Group), NEW m \in Moves, NEW T
  PROVE  Taken(list, m, T, TakeAll(list, m, T))
<1> DEFINE n == Len(list)
           order == InOrder(n)
           c == [list |-> list, moves |-> m, taken |-> T]
           result == TakeAll(list, m, T)
           iter == CHOOSE it : Taking!IsFold(it, c, m, order, DOMAIN order)
<1>1. n \in Nat /\ DOMAIN list = 1 .. n /\ DOMAIN order = 1 .. n /\ \A i \in 1 .. n : order[i] = i
  BY LenProperties DEF InOrder
<1>2. result = iter[DOMAIN order]
  BY Zenon DEF TakeAll, FoldLeft, MapThenFoldSet, Max, Taking!IsFold, TakeTurn
<1>3. c.list = list /\ c.moves = m /\ c.taken = T
  OBVIOUS
<1> HIDE DEF result, order, n, c
<1>4. Taking!IsFold(iter, c, m, order, 1 .. n)
  <2>1. \E it : Taking!IsFold(it, c, m, order, 1 .. n)
    BY <1>1, Taking!FoldExists, Zenon
  <2> QED
    BY <1>1, <2>1, Zenon
<1> HIDE DEF iter
<1>5. TakenSoFar(c, 0, m)
  <2>1. \A s \in State : Options(list, T \cap (1 .. 0), s) = {}
    BY DEF Options
  <2>2. \A s \in State : TakenAt(m[s], {}, m[s])
    BY DEF TakenAt
  <2> QED
    BY <1>3, <2>1, <2>2 DEF TakenSoFar, Taken
<1>6. ASSUME NEW k \in 0 .. n - 1, NEW l, TakenSoFar(c, k, l)
      PROVE  TakenSoFar(c, k + 1, TakeTurn(c, l, order[k + 1]))
  <2> DEFINE t == k + 1
             u == list[t].state
             o == list[t].option
             next == TakeTurn(c, l, order[t])
  <2>1. t \in 1 .. n /\ t \in DOMAIN list /\ order[t] = t /\ t \notin 1 .. k /\ 1 .. t = (1 .. k) \cup {t}
    BY <1>1
  <2>2. l \in Moves /\ \A s \in State : TakenAt(m[s], Options(list, T \cap (1 .. k), s), l[s])
    BY <1>3, <1>6 DEF TakenSoFar, Taken
  <2>3. next = IF t \in T THEN Take(list, l, t) ELSE l
    BY <1>3, <2>1 DEF TakeTurn, TakeIfIn
  <2> HIDE DEF next, t
  <2>4. CASE t \notin T
    <3>1. T \cap (1 .. t) = T \cap (1 .. k)
      BY <2>1, <2>4
    <3> QED
      BY <1>3, <2>2, <2>3, <2>4, <3>1 DEF TakenSoFar, Taken, next, t
  <2>5. CASE t \in T
    <3>0. T \cap (1 .. t) = (T \cap (1 .. k)) \cup {t}
      BY <2>1, <2>5
    <3>1. OneTaken(l, u, o, next)
      <4>1. next = Take(list, l, t) /\ t \in DOMAIN list /\ l \in Moves
        BY <2>1, <2>2, <2>3, <2>5
      <4>2. OneTaken(l, list[t].state, list[t].option, Take(list, l, t))
        BY <4>1, TakeEffect
      <4> QED
        BY <4>1, <4>2
    <3>2. /\ \A s \in State : s # u => Options(list, T \cap (1 .. t), s) = Options(list, T \cap (1 .. k), s)
          /\ Options(list, T \cap (1 .. t), u) = Options(list, T \cap (1 .. k), u) \cup {o}
      BY <2>1, <3>0 DEF Options
    <3> HIDE DEF u, o
    <3>3. ASSUME NEW s \in State PROVE TakenAt(m[s], Options(list, T \cap (1 .. t), s), next[s])
      <4>1. CASE s = u
        <5>1. TakenAt(m[u], Options(list, T \cap (1 .. k), u), l[u])
          BY <2>2, <4>1
        <5>2. TakenAt(m[u], Options(list, T \cap (1 .. k), u) \cup {o},
                      IF l[u] = {o} THEN l[u] ELSE l[u] \ {o})
          BY <5>1, TakeOneMore
        <5> QED
          BY <3>1, <3>2, <4>1, <5>2 DEF OneTaken
      <4>2. CASE s # u
        BY <2>2, <3>1, <3>2, <4>2 DEF OneTaken
      <4> QED
        BY <4>1, <4>2
    <3> QED
      BY <1>3, <3>1, <3>3 DEF TakenSoFar, Taken, OneTaken, next, t
  <2> QED
    BY <2>4, <2>5
<1>7. TakenSoFar(c, n, iter[1 .. n])
  BY <1>1, <1>4, <1>5, <1>6, Taking!FoldInvariant, Zenon
<1>8. Taken(list, m, T \cap (1 .. n), result)
  BY <1>1, <1>2, <1>3, <1>7 DEF TakenSoFar
<1>9. \A s \in State : Options(list, T \cap (1 .. n), s) = Options(list, T, s)
  BY <1>1 DEF Options
<1>10. Taken(list, m, T, result)
  BY <1>8, <1>9 DEF Taken
<1> QED
  BY <1>10 DEF result

\* What is taken is a part, with an option left where there was one.
LEMMA TakenIsPart ==
  ASSUME NEW list, NEW T, NEW m \in Moves, NEW l, Taken(list, m, T, l)
  PROVE  /\ l \in Moves /\ PartOf(l, m)
         /\ \A s \in State : m[s] # {} => l[s] # {}
BY DEF Taken, TakenAt, PartOf

\* Nothing is taken when every option of the groups that is there is the last of its state.
LEMMA NothingTaken ==
  ASSUME NEW list \in Seq(Group), NEW m \in Moves, NEW T, NEW l, Taken(list, m, T, l),
         \A t \in T \cap DOMAIN list :
           list[t].option \in m[list[t].state] => m[list[t].state] = {list[t].option}
  PROVE  l = m
<1>1. ASSUME NEW s \in State PROVE l[s] = m[s]
  <2> DEFINE G == Options(list, T, s)
  <2>1. TakenAt(m[s], G, l[s])
    BY DEF Taken
  <2>2. \A o \in G \cap m[s] : m[s] = {o}
    BY DEF Options
  <2> HIDE DEF G
  <2>3. CASE G \cap m[s] = {}
    BY <2>1, <2>3 DEF TakenAt
  <2>4. CASE G \cap m[s] # {}
    <3>1. PICK o \in G \cap m[s] : m[s] = {o}
      BY <2>2, <2>4
    <3>2. m[s] \ G = {}
      BY <3>1
    <3> QED
      BY <2>1, <3>1, <3>2 DEF TakenAt
  <2> QED
    BY <2>3, <2>4
<1> QED
  BY <1>1 DEF Moves, Taken

-----------------------------------------------------------------------------
(****************************************************************************)
(* Partitions: ranges of the kept groups, by their number among the kept.   *)
(****************************************************************************)
\* The groups that are kept are numbered from 0, each number once.
LEMMA LinearIndexNumbers ==
  ASSUME NEW K \in SUBSET Nat, IsFiniteSet(K)
  PROVE  /\ \A t \in K : LinearIndex(K, t) \in 0 .. Cardinality(K) - 1
         /\ \A t, u \in K : LinearIndex(K, t) = LinearIndex(K, u) => t = u
         /\ \A i \in 0 .. Cardinality(K) - 1 : \E t \in K : LinearIndex(K, t) = i
<1> DEFINE Below(t) == {u \in K : u < t}
           k == Cardinality(K)
           f == [t \in K |-> LinearIndex(K, t)]
<1>1. k \in Nat
  BY FS_CardinalityType
<1>2. ASSUME NEW t \in K PROVE IsFiniteSet(Below(t)) /\ LinearIndex(K, t) \in Nat
  BY FS_Subset, FS_CardinalityType DEF LinearIndex
<1>3. ASSUME NEW t \in K PROVE LinearIndex(K, t) < k
  <2>1. t \notin Below(t) /\ Below(t) \subseteq K
    OBVIOUS
  <2>2. Cardinality(Below(t)) <= k /\ (Cardinality(Below(t)) = k => Below(t) = K)
    BY FS_Subset
  <2>3. LinearIndex(K, t) = Cardinality(Below(t))
    BY DEF LinearIndex
  <2> HIDE DEF Below, k
  <2> QED
    BY <1>1, <1>2, <2>1, <2>2, <2>3
<1>4. ASSUME NEW t \in K, NEW u \in K, t < u PROVE LinearIndex(K, t) < LinearIndex(K, u)
  <2>1. Below(t) \subseteq Below(u) /\ t \in Below(u) /\ t \notin Below(t)
    <3>1. t \in Nat /\ u \in Nat
      OBVIOUS
    <3>2. ASSUME NEW v \in K, v < t PROVE v < u
      <4>1. v \in Nat
        OBVIOUS
      <4> QED
        BY <1>4, <3>1, <3>2, <4>1
    <3>3. ~(t < t)
      BY <3>1
    <3> QED
      BY <1>4, <3>2, <3>3
  <2>2. /\ Cardinality(Below(t)) <= Cardinality(Below(u))
        /\ Cardinality(Below(t)) = Cardinality(Below(u)) => Below(t) = Below(u)
    BY <1>2, <2>1, FS_Subset
  <2>3. LinearIndex(K, t) = Cardinality(Below(t)) /\ LinearIndex(K, u) = Cardinality(Below(u))
    BY DEF LinearIndex
  <2> HIDE DEF Below
  <2> QED
    BY <1>2, <2>1, <2>2, <2>3
<1>5. ASSUME NEW t \in K, NEW u \in K, LinearIndex(K, t) = LinearIndex(K, u) PROVE t = u
  <2>1. t < u \/ u < t \/ t = u
    OBVIOUS
  <2>2. LinearIndex(K, t) \in Nat /\ LinearIndex(K, u) \in Nat
    BY <1>2
  <2> QED
    BY <1>4, <1>5, <2>1, <2>2
<1>6. \A t \in K : LinearIndex(K, t) \in 0 .. k - 1
  <2> TAKE t \in K
  <2>1. LinearIndex(K, t) \in Nat /\ LinearIndex(K, t) < k
    BY <1>2, <1>3
  <2> HIDE DEF k
  <2> QED
    BY <1>1, <2>1
<1>7. f \in Injection(K, 0 .. k - 1)
  <2> HIDE DEF k
  <2> QED
    BY <1>5, <1>6 DEF Injection, IsInjective
<1>8. IsFiniteSet(0 .. k - 1) /\ Cardinality(0 .. k - 1) = k
  <2> HIDE DEF k
  <2> QED
    BY <1>1, FS_Interval
<1>9. f \in Surjection(K, 0 .. k - 1)
  <2> HIDE DEF f
  <2> QED
    BY <1>7, <1>8, FS_Injection
<1>10. \A i \in 0 .. k - 1 : \E t \in K : LinearIndex(K, t) = i
  <2> HIDE DEF k
  <2> QED
    BY <1>9 DEF Surjection
<1> QED
  BY <1>5, <1>6, <1>10

\* Products and quotients.
LEMMA Quotient ==
  ASSUME NEW a \in Nat, NEW n \in Nat \ {0}
  PROVE  a \div n \in Nat /\ n * (a \div n) <= a /\ a < n * ((a \div n) + 1)
OBVIOUS

LEMMA SmallerFactor ==
  ASSUME NEW n \in Nat \ {0}, NEW a \in Int, NEW b \in Int, n * a < n * b
  PROVE  a < b
<1> SUFFICES ASSUME a >= b PROVE FALSE
  OBVIOUS
<1>1. PICK e \in Nat : a = b + e
  <2>1. a - b \in Nat /\ a = b + (a - b)
    OBVIOUS
  <2> QED
    BY <2>1
<1>2. n * a = n * b + n * e /\ n * e \in Nat
  BY <1>1
<1> QED
  BY <1>2

RangeStart(k, n, d) == (k * d) \div n

\* The ranges of k groups in n parts, when there are at least as many groups as parts.
LEMMA RangeBounds ==
  ASSUME NEW n \in Nat \ {0}, NEW k \in Nat, n <= k, NEW d \in 0 .. n
  PROVE  /\ RangeStart(k, n, d) \in d .. k
         /\ k - RangeStart(k, n, d) >= n - d
         /\ RangeStart(n, n, d) = d
<1> DEFINE q == (k * d) \div n
<1>1. k * d \in Nat /\ n * d \in Nat /\ q \in Nat
  BY Quotient
<1>2. n * q <= k * d /\ k * d < n * (q + 1)
  BY <1>1, Quotient
<1>3. n * d <= k * d
  <2>1. PICK e \in Nat : k = n + e
    <3>1. k - n \in Nat /\ k = n + (k - n)
      OBVIOUS
    <3> QED
      BY <3>1
  <2>2. k * d = n * d + e * d /\ e * d \in Nat
    BY <2>1
  <2> QED
    BY <2>2
<1> HIDE DEF q
<1>4. d < q + 1
  <2>1. n * d < n * (q + 1)
    BY <1>1, <1>2, <1>3
  <2> QED
    BY <1>1, <2>1, SmallerFactor
<1>5. k - q >= n - d
  <2> DEFINE bound == k - n + d
  <2>1. PICK e \in Nat, r \in Nat : k = n + e /\ n = d + r
    <3>1. k - n \in Nat /\ k = n + (k - n) /\ n - d \in Nat /\ n = d + (n - d)
      OBVIOUS
    <3> QED
      BY <3>1
  <2>2. n * bound = (d + r) * (e + d) /\ k * d = (d + r + e) * d
    BY <2>1
  <2>3. (d + r) * (e + d) = (d + r + e) * d + r * e /\ r * e \in Nat
    BY <2>1
  <2>4. k * d <= n * bound
    BY <2>2, <2>3, <1>1
  <2>5. bound \in Int /\ n * (bound + 1) = n * bound + n
    OBVIOUS
  <2> HIDE DEF bound
  <2>6. n * q < n * (bound + 1)
    <3>1. n * q \in Nat /\ n * bound \in Int
      BY <1>1, <2>5
    <3> QED
      BY <1>1, <1>2, <2>4, <2>5, <3>1
  <2>7. q < bound + 1
    BY <1>1, <2>5, <2>6, SmallerFactor
  <2> QED
    BY <1>1, <2>7 DEF bound
<1>6. RangeStart(n, n, d) = d
  <2> DEFINE p == (n * d) \div n
  <2>1. p \in Nat /\ n * p <= n * d /\ n * d < n * (p + 1)
    BY <1>1, Quotient
  <2> HIDE DEF p
  <2>2. d < p + 1
    BY <2>1, SmallerFactor
  <2>3. p < d + 1
    <3>1. n * (d + 1) = n * d + n /\ n * p \in Nat
      BY <2>1
    <3>2. n * p < n * (d + 1)
      BY <1>1, <2>1, <3>1
    <3> QED
      BY <2>1, <3>2, SmallerFactor
  <2>4. p = d
    BY <2>1, <2>2, <2>3
  <2> QED
    BY <2>4 DEF p, RangeStart
<1>7. q = RangeStart(k, n, d)
  BY DEF q, RangeStart
<1> QED
  BY <1>1, <1>4, <1>5, <1>6, <1>7

\* With at least as many groups as partitions, a partition is a range of its own.
LEMMA PartitionIsRange ==
  ASSUME NEW K \in SUBSET Nat, IsFiniteSet(K), NEW n \in Nat \ {0}, n <= Cardinality(K),
         NEW d \in 0 .. n - 1
  PROVE  \A t \in K : t \in Partition(K, n, d) <=>
           /\ RangeStart(Cardinality(K), n, d) <= LinearIndex(K, t)
           /\ LinearIndex(K, t) < RangeStart(Cardinality(K), n, d + 1)
<1> DEFINE k == Cardinality(K)
           first == RangeStart(k, n, d)
           end == RangeStart(k, n, d + 1)
<1>1. k \in Nat /\ d \in 0 .. n /\ d + 1 \in 0 .. n
  BY FS_CardinalityType
<1>2. first \in d .. k /\ end \in d + 1 .. k
  <2> HIDE DEF k
  <2> QED
    BY <1>1, RangeBounds DEF k
<1>3. \A t \in K : LinearIndex(K, t) \in 0 .. k - 1
  BY LinearIndexNumbers
<1>4. Partition(K, n, d) =
        {t \in K : LinearIndex(K, t) \in first .. IF end = 0 THEN UINT_MAX ELSE end - 1}
  BY DEF Partition, RangeStart
<1> HIDE DEF k, first, end
<1>5. end # 0 /\ first \in Int /\ end \in Int
  BY <1>1, <1>2
<1>6. \A t \in K : t \in Partition(K, n, d) <=> LinearIndex(K, t) \in first .. end - 1
  BY <1>4, <1>5
<1>7. \A t \in K : LinearIndex(K, t) \in Int
  BY <1>1, <1>3
<1>8. \A t \in K : t \in Partition(K, n, d) <=> first <= LinearIndex(K, t) /\ LinearIndex(K, t) < end
  BY <1>5, <1>6, <1>7
<1> QED
  BY <1>8 DEF first, end, k

\* Such a partition has groups, and leaves enough for one partition less.
LEMMA PartitionOfMany ==
  ASSUME NEW K \in SUBSET Nat, IsFiniteSet(K), NEW n \in Nat \ {0}, n <= Cardinality(K),
         NEW d \in 0 .. n - 1
  PROVE  /\ Partition(K, n, d) \subseteq K /\ Partition(K, n, d) # {}
         /\ IsFiniteSet(K \ Partition(K, n, d))
         /\ Cardinality(K \ Partition(K, n, d)) >= n - 1
<1> DEFINE k == Cardinality(K)
           first == RangeStart(k, n, d)
           end == RangeStart(k, n, d + 1)
           part == Partition(K, n, d)
           others == K \ part
           free == (0 .. first - 1) \cup (end .. k - 1)
           f == [t \in others |-> LinearIndex(K, t)]
<1>1. k \in Nat /\ d \in 0 .. n /\ d + 1 \in 0 .. n
  BY FS_CardinalityType
<1>2. first \in d .. k /\ end \in d + 1 .. k /\ k - end >= n - (d + 1)
  <2> HIDE DEF k
  <2> QED
    BY <1>1, RangeBounds DEF k
<1>3. /\ \A t \in K : LinearIndex(K, t) \in 0 .. k - 1
      /\ \A t, u \in K : LinearIndex(K, t) = LinearIndex(K, u) => t = u
      /\ \A i \in 0 .. k - 1 : \E t \in K : LinearIndex(K, t) = i
  BY LinearIndexNumbers
<1>4. \A t \in K : t \in part <=> first <= LinearIndex(K, t) /\ LinearIndex(K, t) < end
  BY PartitionIsRange
<1>5. part \subseteq K
  BY DEF Partition
<1>6. first < end
  <2>1. n * d \in Nat /\ k * d \in Nat /\ k * (d + 1) = k * d + k /\ k * (d + 1) \in Nat
    BY <1>1
  <2>2. first \in Nat /\ end \in Nat /\ n * first <= k * d /\ k * (d + 1) < n * (end + 1)
    BY <2>1, Quotient DEF RangeStart
  <2>3. n * first + n <= k * d + k
    BY <1>1, <2>1, <2>2
  <2> HIDE DEF first, end, k
  <2>4. n * (first + 1) < n * (end + 1)
    <3>1. n * (first + 1) = n * first + n
      BY <2>2
    <3> QED
      BY <2>1, <2>2, <2>3, <3>1
  <2>5. first + 1 < end + 1
    BY <2>2, <2>4, SmallerFactor
  <2> QED
    BY <2>2, <2>5
<1> HIDE DEF k, first, end, part
<1>7. part # {}
  <2>1. first \in 0 .. k - 1
    BY <1>1, <1>2, <1>6
  <2>2. PICK t \in K : LinearIndex(K, t) = first
    BY <1>3, <2>1
  <2>3. first <= first
    BY <2>1
  <2> QED
    BY <1>4, <1>6, <2>2, <2>3
<1>8. IsFiniteSet(others)
  BY FS_Difference
<1>9. f \in Surjection(others, free)
  <2>1. ASSUME NEW t \in others PROVE LinearIndex(K, t) \in free
    <3>1. LinearIndex(K, t) \in 0 .. k - 1 /\ ~(first <= LinearIndex(K, t) /\ LinearIndex(K, t) < end)
      BY <1>3, <1>4, <2>1
    <3> QED
      BY <1>1, <1>2, <3>1
  <2>2. ASSUME NEW i \in free PROVE \E t \in others : LinearIndex(K, t) = i
    <3>1. i \in 0 .. k - 1 /\ ~(first <= i /\ i < end)
      BY <1>1, <1>2, <1>6
    <3>2. PICK t \in K : LinearIndex(K, t) = i
      BY <1>3, <3>1
    <3>3. t \notin part
      BY <1>4, <3>1, <3>2
    <3> QED
      BY <3>2, <3>3
  <2> HIDE DEF others, free
  <2> QED
    BY <2>1, <2>2 DEF Surjection
<1>10. IsFiniteSet(free) /\ Cardinality(free) = first + (k - end)
  <2>1. IsFiniteSet(0 .. first - 1) /\ Cardinality(0 .. first - 1) = first
    BY <1>1, <1>2, FS_Interval
  <2>2. IsFiniteSet(end .. k - 1) /\ Cardinality(end .. k - 1) = k - end
    BY <1>1, <1>2, FS_Interval
  <2>3. (0 .. first - 1) \cap (end .. k - 1) = {}
    BY <1>1, <1>2, <1>6
  <2> DEFINE low == 0 .. first - 1
             high == end .. k - 1
  <2>4. free = low \cup high /\ low \cap high = {}
    BY <2>3
  <2>5. IsFiniteSet(low) /\ Cardinality(low) = first /\ IsFiniteSet(high) /\ Cardinality(high) = k - end
    BY <2>1, <2>2
  <2> HIDE DEF low, high, free
  <2>6. /\ IsFiniteSet(free)
        /\ Cardinality(free) = Cardinality(low) + Cardinality(high) - Cardinality({})
    BY <2>4, <2>5, FS_Union
  <2>7. Cardinality({}) = 0
    BY FS_EmptySet
  <2> QED
    BY <1>1, <1>2, <2>6, <2>7, <2>5
<1>11. Cardinality(free) <= Cardinality(others) /\ Cardinality(others) \in Nat
  <2> HIDE DEF f, others, free
  <2> QED
    BY <1>8, <1>9, FS_Surjection, FS_CardinalityType
<1>12. Cardinality(others) >= n - 1
  <2> HIDE DEF others, free
  <2> QED
    BY <1>1, <1>2, <1>10, <1>11
<1> QED
  BY <1>5, <1>7, <1>8, <1>12 DEF part

\* With as many groups as partitions every group is a partition.
LEMMA PartitionOfEach ==
  ASSUME NEW K \in SUBSET Nat, IsFiniteSet(K), Cardinality(K) # 0, NEW t \in K
  PROVE  \E d \in 0 .. Cardinality(K) - 1 : Partition(K, Cardinality(K), d) = {t}
<1> DEFINE n == Cardinality(K)
           d == LinearIndex(K, t)
<1>1. n \in Nat \ {0} /\ n <= Cardinality(K)
  BY FS_CardinalityType
<1>2. /\ \A u \in K : LinearIndex(K, u) \in 0 .. n - 1
      /\ \A u, v \in K : LinearIndex(K, u) = LinearIndex(K, v) => u = v
  BY LinearIndexNumbers
<1>3. d \in 0 .. n - 1
  BY <1>2
<1>4. RangeStart(n, n, d) = d /\ RangeStart(n, n, d + 1) = d + 1
  <2> HIDE DEF n, d
  <2>1. d \in 0 .. n /\ d + 1 \in 0 .. n /\ n <= n
    BY <1>1, <1>3
  <2> QED
    BY <1>1, <2>1, RangeBounds
<1>5. \A u \in K : u \in Partition(K, n, d) <=> d <= LinearIndex(K, u) /\ LinearIndex(K, u) < d + 1
  <2>1. \A u \in K : u \in Partition(K, n, d) <=>
          RangeStart(n, n, d) <= LinearIndex(K, u) /\ LinearIndex(K, u) < RangeStart(n, n, d + 1)
    <3> HIDE DEF d
    <3>1. n \in Nat \ {0} /\ n <= Cardinality(K) /\ d \in 0 .. n - 1
      BY <1>1, <1>3
    <3> QED
      BY <3>1, PartitionIsRange
  <2> QED
    BY <1>4, <2>1
<1>6. Partition(K, n, d) \subseteq K
  BY DEF Partition
<1> HIDE DEF n
<1>7. ASSUME NEW u \in K PROVE u \in Partition(K, n, d) <=> u = t
  <2>1. LinearIndex(K, u) \in 0 .. n - 1
    BY <1>2
  <2>2. LinearIndex(K, u) = d <=> u = t
    BY <1>2
  <2> HIDE DEF d
  <2> QED
    BY <1>1, <1>3, <1>5, <2>1, <2>2
<1>8. Partition(K, n, d) = {t}
  BY <1>6, <1>7
<1> QED
  BY <1>3, <1>8 DEF n

\* One group in two partitions is in both of them.
LEMMA PartitionOfFew ==
  ASSUME NEW K \in SUBSET Nat, IsFiniteSet(K), Cardinality(K) <= 1, NEW d \in 0 .. 1
  PROVE  Partition(K, 2, d) = K
<1> DEFINE k == Cardinality(K)
           first == (k * d) \div 2
           end == (k * (d + 1)) \div 2
<1>1. k \in 0 .. 1
  BY FS_CardinalityType
<1>2. \A t \in K : LinearIndex(K, t) \in 0 .. k - 1
  BY LinearIndexNumbers
<1>3. Partition(K, 2, d) = {t \in K : LinearIndex(K, t) \in first .. IF end = 0 THEN UINT_MAX ELSE end - 1}
  BY DEF Partition
<1> HIDE DEF k
<1>4. \A t \in K : k = 1 /\ LinearIndex(K, t) = 0
  BY <1>1, <1>2
<1>5. k = 1 => first = 0 /\ (end = 0 \/ end = 1)
  <2>1. ASSUME k = 1 PROVE first = d \div 2 /\ end = (d + 1) \div 2
    BY <2>1
  <2>2. d = 0 \/ d = 1
    OBVIOUS
  <2>3. 0 \div 2 = 0 /\ 1 \div 2 = 0 /\ 2 \div 2 = 1
    OBVIOUS
  <2> QED
    BY <2>1, <2>2, <2>3
<1>6. UINT_MAX \in Nat
  BY DEF UINT_MAX
<1> HIDE DEF first, end
<1>7. \A t \in K : LinearIndex(K, t) \in first .. IF end = 0 THEN UINT_MAX ELSE end - 1
  BY <1>4, <1>5, <1>6
<1> QED
  BY <1>3, <1>7

-----------------------------------------------------------------------------
(****************************************************************************)
(* The invariant of the searches.                                           *)
(****************************************************************************)
Attempt(T) == M!CleanUp(TakeAll(groups, moves, T))

SearchTypeOK ==
  /\ game \in Games /\ moves \in Moves /\ groups = Groups(game)
  /\ search \in {"linear", "dd"} /\ ended \in BOOLEAN
  /\ count \in 0 .. Len(groups) /\ removed \in Seq(Indexes)
  /\ kept \subseteq Indexes /\ partitions \in 2 .. Len(groups) + 2
  /\ phase \in {"c_i", "complement"} /\ other_next \in BOOLEAN
  /\ tried \in 0 .. partitions /\ last \in 0 .. partitions - 1

\* What is left of the game is unrealizable and has no unreached options.
StillUnrealizable ==
  /\ PartOf(moves, game.moves)
  /\ M!CleanUp(moves) = moves
  /\ ~M!Realizable(game, moves)

\* No partition is empty, but for the last two of at most one group.
EnoughGroups ==
  partitions <= Cardinality(kept) \/ (partitions = 2 /\ Cardinality(kept) <= 1)

\* The partitions the complement loop has failed to do without.
ComplementsTried ==
  search = "dd" /\ ~ended =>
    /\ phase = "complement" =>
         \A i \in 0 .. tried - 1 :
           M!Realizable(game, Attempt(Partition(kept, partitions, (last + i) % partitions)))
    /\ phase = "c_i" /\ ~other_next =>
         \A d \in 0 .. partitions - 1 :
           M!Realizable(game, Attempt(Partition(kept, partitions, d)))

\* The linear search has taken the removed groups from the master and nothing else.
RemovedAreGone == search = "linear" => moves = Rebuild(removed)

\* The groups the linear search is done with are gone, last of their state, or needed.
GroupsTried ==
  search = "linear" =>
    \A t \in Indexes :
      /\ t > count
      /\ groups[t].option \in moves[groups[t].state]
      /\ moves[groups[t].state] # {groups[t].option}
      => M!Realizable(game, M!Without(moves, groups[t].state, groups[t].option))

DiagnosisInv ==
  /\ SearchTypeOK
  /\ StillUnrealizable
  /\ BitsMatchAutomaton
  /\ EnoughGroups
  /\ ComplementsTried
  /\ RemovedAreGone
  /\ GroupsTried

\* What the type of the state says of the groups.
LEMMA GroupsFacts ==
  ASSUME SearchTypeOK
  PROVE  /\ game \in Game /\ game.moves \in Moves
         /\ groups \in Seq(Group) /\ GroupsOK(game, groups)
         /\ Len(groups) \in Nat /\ Indexes = 1 .. Len(groups) /\ IsFiniteSet(Indexes)
         /\ Indexes \subseteq Nat
         /\ IsFiniteSet(kept) /\ Cardinality(kept) \in Nat /\ Cardinality(kept) <= Len(groups)
<1>1. game \in Game
  BY GamesAssumption DEF SearchTypeOK
<1>2. game.moves \in Moves
  BY <1>1 DEF Game, Moves
<1>3. GroupsOK(game, groups)
  BY <1>1, GroupsAreAll DEF SearchTypeOK
<1>4. groups \in Seq(Group)
  BY <1>3 DEF GroupsOK
<1>5. Len(groups) \in Nat /\ Indexes = 1 .. Len(groups)
  BY <1>4, LenProperties DEF Indexes
<1>6. IsFiniteSet(Indexes) /\ Cardinality(Indexes) = Len(groups)
  BY <1>5, FS_Interval
<1>7. kept \subseteq Indexes
  BY DEF SearchTypeOK
<1>8. IsFiniteSet(kept) /\ Cardinality(kept) \in Nat /\ Cardinality(kept) <= Len(groups)
  BY <1>6, <1>7, FS_Subset, FS_CardinalityType
<1> QED
  BY <1>1, <1>2, <1>3, <1>4, <1>5, <1>6, <1>8

\* The initial states.
LEMMA MasterFacts ==
  ASSUME NEW g \in Game
  PROVE  /\ Master(g) \in Moves /\ PartOf(Master(g), g.moves)
         /\ M!CleanUp(Master(g)) = Master(g)
<1>1. g.moves \in Moves
  BY DEF Game, Moves
<1> QED
  BY <1>1, CleanUpEffect, CleanUpTwice DEF Master

LEMMA InitInvariant == Init => DiagnosisInv
<1> SUFFICES ASSUME Init PROVE DiagnosisInv
  OBVIOUS
<1>1. game \in Games /\ game \in Game /\ ~M!Realizable(game, Master(game)) /\ moves = Master(game)
  BY GamesAssumption DEF Init
<1>2. /\ moves \in Moves /\ PartOf(moves, game.moves) /\ M!CleanUp(moves) = moves
  BY <1>1, MasterFacts
<1>3. groups \in Seq(Group) /\ Len(groups) \in Nat
  BY <1>1, GroupsAreAll, LenProperties DEF Init, GroupsOK
<1>4. SearchTypeOK
  <2>1. /\ game \in Games /\ moves \in Moves /\ groups = Groups(game)
        /\ search \in {"linear", "dd"} /\ ended \in BOOLEAN /\ kept \subseteq Indexes
        /\ phase \in {"c_i", "complement"} /\ other_next \in BOOLEAN
    BY <1>1, <1>2 DEF Init
  <2>2. /\ count \in 0 .. Len(groups) /\ partitions \in 2 .. Len(groups) + 2
        /\ tried \in 0 .. partitions /\ last \in 0 .. partitions - 1
    BY <1>3 DEF Init
  <2>3. removed \in Seq(Indexes)
    BY DEF Init
  <2> QED
    BY <2>1, <2>2, <2>3 DEF SearchTypeOK
<1>5. GroupsOK(game, groups) /\ IsFiniteSet(kept) /\ Cardinality(kept) \in Nat
  BY <1>4, GroupsFacts
<1>6. StillUnrealizable
  BY <1>1, <1>2 DEF StillUnrealizable
<1>7. BitsMatchAutomaton
  <2>1. ASSUME NEW t \in Indexes, groups[t].state \in M!Reached(moves)
        PROVE  groups[t].option \in moves[groups[t].state]
    <3>1. game.moves \in Moves
      BY <1>1 DEF Game, Moves
    <3>2. moves = M!CleanUp(game.moves)
      BY <1>1 DEF Master
    <3>3. groups[t].state \in M!Reached(game.moves)
      BY <2>1, <3>1, <3>2, CleanUpTwice
    <3>4. moves[groups[t].state] = game.moves[groups[t].state]
      BY <3>1, <3>2, <3>3, CleanUpEffect
    <3> QED
      BY <1>5, <3>4 DEF GroupsOK, Indexes
  <2> QED
    BY <2>1 DEF BitsMatchAutomaton, Init
<1>8. EnoughGroups
  BY <1>5 DEF EnoughGroups, Init
<1>9. ComplementsTried
  BY DEF ComplementsTried, Init
<1>10. RemovedAreGone
  <2> DEFINE Gone(s) == {groups[t].option : t \in {u \in ToSet(<<>>) : groups[u].state = s}}
  <2>1. \A s \in State : Master(game)[s] \ Gone(s) = Master(game)[s]
    BY DEF ToSet
  <2>2. [s \in State |-> Master(game)[s] \ Gone(s)] = Master(game)
    <3> HIDE DEF Gone
    <3> QED
      BY <1>1, <1>2, <2>1 DEF Moves
  <2>3. Rebuild(<<>>) = M!CleanUp([s \in State |-> Master(game)[s] \ Gone(s)])
    BY Zenon DEF Rebuild
  <2> QED
    BY <1>1, <1>2, <2>2, <2>3 DEF RemovedAreGone, Init
<1>11. GroupsTried
  <2>1. \A t \in Indexes : ~(t > count)
    BY <1>3 DEF Init, Indexes
  <2> QED
    BY <2>1 DEF GroupsTried
<1> QED
  BY <1>4, <1>6, <1>7, <1>8, <1>9, <1>10, <1>11 DEF DiagnosisInv

-----------------------------------------------------------------------------
(****************************************************************************)
(* What an attempt of the delta debugging has left, for any groups taken.   *)
(****************************************************************************)
\* An attempt has fewer options, but one where there was one and the state is reached.
LEMMA AttemptIsPart ==
  ASSUME SearchTypeOK, NEW T
  PROVE  /\ Taken(groups, moves, T, TakeAll(groups, moves, T))
         /\ Attempt(T) \in Moves /\ PartOf(Attempt(T), moves)
         /\ M!CleanUp(Attempt(T)) = Attempt(T)
         /\ M!Reached(Attempt(T)) = M!Reached(TakeAll(groups, moves, T))
         /\ M!Reached(Attempt(T)) \subseteq M!Reached(moves)
         /\ \A s \in M!Reached(Attempt(T)) : Attempt(T)[s] = TakeAll(groups, moves, T)[s]
         /\ \A s \in M!Reached(Attempt(T)) : moves[s] # {} => Attempt(T)[s] # {}
<1> DEFINE left == TakeAll(groups, moves, T)
<1>1. moves \in Moves /\ groups \in Seq(Group)
  BY GroupsFacts DEF SearchTypeOK
<1>2. Taken(groups, moves, T, left)
  BY <1>1, TakeAllEffect
<1> HIDE DEF left
<1>3. left \in Moves /\ PartOf(left, moves) /\ \A s \in State : moves[s] # {} => left[s] # {}
  BY <1>1, <1>2, TakenIsPart
<1>4. Attempt(T) = M!CleanUp(left)
  BY DEF Attempt, left
<1>5. /\ Attempt(T) \in Moves /\ PartOf(Attempt(T), left)
      /\ M!CleanUp(Attempt(T)) = Attempt(T)
      /\ M!Reached(Attempt(T)) = M!Reached(left)
  BY <1>3, <1>4, CleanUpEffect, CleanUpTwice
<1>6. \A s \in M!Reached(left) : Attempt(T)[s] = left[s]
  BY <1>3, <1>4, CleanUpEffect
<1>7. PartOf(Attempt(T), moves)
  BY <1>3, <1>5 DEF PartOf
<1>8. M!Reached(left) \subseteq M!Reached(moves)
  BY <1>1, <1>3, PartsReachLess
<1>9. \A s \in M!Reached(left) : s \in State
  BY ReachedIsLeast
<1> QED
  BY <1>2, <1>3, <1>5, <1>6, <1>7, <1>8, <1>9 DEF left

\* Groups that were taken are gone, but for the last of a state.
LEMMA TakenGroupsAreGone ==
  ASSUME SearchTypeOK, NEW T, NEW t \in T, t \in Indexes,
         groups[t].option \in Attempt(T)[groups[t].state]
  PROVE  Attempt(T)[groups[t].state] = {groups[t].option}
<1> DEFINE s == groups[t].state
           o == groups[t].option
           left == TakeAll(groups, moves, T)
<1>1. groups[t] \in Group
  BY GroupsFacts, LenProperties
<1>2. s \in State
  BY <1>1 DEF Group
<1>3. TakenAt(moves[s], Options(groups, T, s), left[s])
  BY <1>2, AttemptIsPart DEF Taken
<1>4. o \in Options(groups, T, s)
  BY DEF Options, Indexes
<1>5. Attempt(T)[s] # {}
  OBVIOUS
<1>6. s \in M!Reached(left)
  <2>1. left \in Moves
    BY AttemptIsPart DEF Taken
  <2> QED
    BY <1>2, <1>5, <2>1, CleanUpEffect DEF Attempt
<1>7. Attempt(T)[s] = left[s]
  BY <1>6, AttemptIsPart
<1> HIDE DEF s, o, left
<1>8. o \in left[s]
  BY <1>7 DEF s, o
<1>9. left[s] = {o}
  BY <1>3, <1>4, <1>8 DEF TakenAt
<1> QED
  BY <1>7, <1>9 DEF s, o

\* Groups that were not taken stay where their state is reached.
LEMMA OtherGroupsStay ==
  ASSUME SearchTypeOK, BitsMatchAutomaton, search = "dd", NEW T,
         NEW t \in kept \ T, groups[t].state \in M!Reached(Attempt(T))
  PROVE  groups[t].option \in Attempt(T)[groups[t].state]
<1> DEFINE s == groups[t].state
           o == groups[t].option
           left == TakeAll(groups, moves, T)
<1>1. t \in Indexes /\ groups[t] \in Group
  BY GroupsFacts, LenProperties DEF SearchTypeOK
<1>2. s \in State
  BY <1>1 DEF Group
<1>3. o \in moves[s]
  <2>1. s \in M!Reached(moves)
    BY AttemptIsPart
  <2> QED
    BY <1>1, <2>1 DEF BitsMatchAutomaton
<1>4. o \notin Options(groups, T, s)
  <2>1. ASSUME NEW u \in T, u \in DOMAIN groups, groups[u].state = s, groups[u].option = o
        PROVE  FALSE
    <3>1. groups[u] \in Group
      BY <2>1, GroupsFacts, LenProperties
    <3>2. groups[u] = groups[t]
      BY <1>1, <2>1, <3>1 DEF Group
    <3>3. u = t
      BY <1>1, <2>1, <3>2, GroupsFacts DEF GroupsOK, Indexes
    <3> QED
      BY <3>3
  <2> QED
    BY <2>1 DEF Options
<1>5. TakenAt(moves[s], Options(groups, T, s), left[s])
  BY <1>2, AttemptIsPart DEF Taken
<1>6. Attempt(T)[s] = left[s]
  BY AttemptIsPart
<1> HIDE DEF s, o, left
<1>7. o \in left[s]
  BY <1>3, <1>4, <1>5 DEF TakenAt
<1> QED
  BY <1>6, <1>7 DEF s, o

\* Taking nothing leaves everything.
LEMMA AttemptOfNothing ==
  ASSUME SearchTypeOK, StillUnrealizable
  PROVE  Attempt({}) = moves
<1>1. groups \in Seq(Group) /\ moves \in Moves
  BY GroupsFacts DEF SearchTypeOK
<1>2. Taken(groups, moves, {}, TakeAll(groups, moves, {}))
  BY AttemptIsPart
<1>3. TakeAll(groups, moves, {}) = moves
  BY <1>1, <1>2, NothingTaken
<1> QED
  BY <1>3 DEF Attempt, StillUnrealizable

-----------------------------------------------------------------------------
(****************************************************************************)
(* Minimality.                                                              *)
(****************************************************************************)
\* A state that has several options has a group for each of them.
LEMMA OptionHasGroup ==
  ASSUME SearchTypeOK, StillUnrealizable, NEW s \in State, NEW o \in moves[s], moves[s] # {o}
  PROVE  \E t \in Indexes : groups[t].state = s /\ groups[t].option = o
<1>1. PICK q \in moves[s] : q # o
  OBVIOUS
<1>2. o \in game.moves[s] /\ q \in game.moves[s]
  BY DEF StillUnrealizable, PartOf
<1> QED
  BY <1>1, <1>2, GroupsFacts DEF GroupsOK, Indexes

\* With at most one group left every state has at most one option.
LEMMA MinimalWithFewGroups ==
  ASSUME SearchTypeOK, StillUnrealizable, BitsMatchAutomaton, search = "dd",
         Cardinality(kept) <= 1
  PROVE  M!IsMinimal(game, moves)
<1> SUFFICES ASSUME NEW s \in State, NEW o \in moves[s], moves[s] # {o} PROVE FALSE
  BY DEF M!IsMinimal
<1>1. PICK q \in moves[s] : q # o
  OBVIOUS
<1>2. PICK t \in Indexes : groups[t].state = s /\ groups[t].option = o
  BY OptionHasGroup
<1>3. PICK u \in Indexes : groups[u].state = s /\ groups[u].option = q
  BY <1>1, OptionHasGroup
<1>4. t \in kept /\ u \in kept
  BY <1>1, <1>2, <1>3 DEF BitsMatchAutomaton
<1>5. t # u
  BY <1>1, <1>2, <1>3
<1>6. IsFiniteSet(kept)
  BY GroupsFacts
<1>7. {t, u} \in SUBSET kept /\ Cardinality({t, u}) = 2
  <2>1. IsFiniteSet({t}) /\ Cardinality({t}) = 1
    BY FS_Singleton
  <2>2. Cardinality({t} \cup {u}) = 2
    BY <1>5, <2>1, FS_AddElement
  <2>3. {t} \cup {u} = {t, u}
    OBVIOUS
  <2> QED
    BY <1>4, <2>2, <2>3
<1>8. Cardinality({t, u}) <= Cardinality(kept) /\ Cardinality(kept) \in Nat
  BY <1>6, <1>7, FS_Subset, FS_CardinalityType
<1> QED
  BY <1>7, <1>8

\* Doing without one option is doing without its group.
LEMMA WithoutIsAttempt ==
  ASSUME SearchTypeOK, NEW t \in Indexes, groups[t].option \in moves[groups[t].state],
         moves[groups[t].state] # {groups[t].option}
  PROVE  M!Without(moves, groups[t].state, groups[t].option) = Attempt({t})
<1> DEFINE s == groups[t].state
           o == groups[t].option
           left == TakeAll(groups, moves, {t})
           less == [moves EXCEPT ![s] = @ \ {o}]
<1>1. moves \in Moves /\ groups[t] \in Group /\ t \in DOMAIN groups
  BY GroupsFacts, LenProperties DEF SearchTypeOK, Indexes
<1>2. s \in State
  BY <1>1 DEF Group
<1>3. left \in Moves /\ \A u \in State : TakenAt(moves[u], Options(groups, {t}, u), left[u])
  BY AttemptIsPart DEF Taken
<1>4. /\ Options(groups, {t}, s) = {o}
      /\ \A u \in State : u # s => Options(groups, {t}, u) = {}
  BY <1>1 DEF Options
<1> HIDE DEF s, o, left
<1>5. left[s] = moves[s] \ {o}
  <2>1. moves[s] \ {o} # {}
    BY DEF s, o
  <2> QED
    BY <1>2, <1>3, <1>4, <2>1 DEF TakenAt
<1>6. \A u \in State : u # s => left[u] = moves[u]
  <2>1. ASSUME NEW u \in State, u # s PROVE left[u] = moves[u]
    <3>1. TakenAt(moves[u], {}, left[u])
      BY <1>3, <1>4, <2>1
    <3> QED
      BY <3>1 DEF TakenAt
  <2> QED
    BY <2>1
<1>7. less = left
  BY <1>1, <1>2, <1>3, <1>5, <1>6 DEF Moves
<1> QED
  BY <1>7 DEF M!Without, Attempt, left, s, o

\* With as many partitions as groups, all of them needed, nothing more can go.
LEMMA MinimalWithAllTried ==
  ASSUME SearchTypeOK, StillUnrealizable, BitsMatchAutomaton, search = "dd",
         Cardinality(kept) = partitions,
         \A d \in 0 .. partitions - 1 : M!Realizable(game, Attempt(Partition(kept, partitions, d)))
  PROVE  M!IsMinimal(game, moves)
<1> SUFFICES ASSUME NEW s \in State, NEW o \in moves[s], moves[s] # {o}
             PROVE  M!Realizable(game, M!Without(moves, s, o))
  BY DEF M!IsMinimal
<1>1. PICK t \in Indexes : groups[t].state = s /\ groups[t].option = o
  BY OptionHasGroup
<1>2. t \in kept
  BY <1>1 DEF BitsMatchAutomaton
<1>3. kept \in SUBSET Nat /\ IsFiniteSet(kept) /\ Cardinality(kept) # 0
  BY GroupsFacts DEF SearchTypeOK
<1>4. PICK d \in 0 .. Cardinality(kept) - 1 : Partition(kept, Cardinality(kept), d) = {t}
  BY <1>2, <1>3, PartitionOfEach
<1>5. M!Realizable(game, Attempt({t}))
  BY <1>4
<1>6. M!Without(moves, s, o) = Attempt({t})
  BY <1>1, WithoutIsAttempt
<1> QED
  BY <1>5, <1>6

-----------------------------------------------------------------------------
(****************************************************************************)
(* The steps.  Each keeps the invariant and the search, and is a step of    *)
(* the minimisation or leaves what is left of the game alone.               *)
(****************************************************************************)
GoodStep ==
  /\ DiagnosisInv'
  /\ search' = search
  /\ M!Next \/ UNCHANGED <<game, moves, ended>>

\* An attempt that is unrealizable is a step of the minimisation.
LEMMA AttemptReduces ==
  ASSUME SearchTypeOK, ~ended, NEW T, ~M!Realizable(game, Attempt(T)),
         moves' = Attempt(T), game' = game, ended' = ended
  PROVE  M!Next \/ UNCHANGED <<game, moves, ended>>
<1>1. PartOf(moves', moves) /\ \A s \in M!Reached(moves') : moves[s] # {} => moves'[s] # {}
  BY AttemptIsPart
<1>2. CASE moves' # moves
  <2>1. M!Reduce
    BY <1>1, <1>2 DEF M!Reduce, PartOf
  <2> QED
    BY <2>1 DEF M!Next
<1>3. CASE moves' = moves
  BY <1>3
<1> QED
  BY <1>2, <1>3

\* It stays a part of the game without unreached options.
LEMMA AttemptStaysUnrealizable ==
  ASSUME SearchTypeOK, StillUnrealizable, NEW T, ~M!Realizable(game, Attempt(T)),
         moves' = Attempt(T), game' = game
  PROVE  StillUnrealizable'
<1>1. PartOf(moves', moves) /\ M!CleanUp(moves') = moves'
  BY AttemptIsPart
<1>2. PartOf(moves', game.moves)
  BY <1>1 DEF PartOf, StillUnrealizable
<1> QED
  BY <1>1, <1>2 DEF StillUnrealizable, PartOf

\* Entering the search again takes nothing that the attempt has left.
LEMMA CallTakesNothing ==
  ASSUME SearchTypeOK, BitsMatchAutomaton, search = "dd", NEW T
  PROVE  TakeAll(groups, Attempt(T), Indexes \ (kept \ T)) = Attempt(T)
<1> DEFINE rest == Indexes \ (kept \ T)
           m == Attempt(T)
<1>1. groups \in Seq(Group) /\ m \in Moves /\ PartOf(m, moves)
  BY GroupsFacts, AttemptIsPart
<1> HIDE DEF m, rest
<1>2. Taken(groups, m, rest, TakeAll(groups, m, rest))
  BY <1>1, TakeAllEffect
<1>3. ASSUME NEW t \in rest \cap DOMAIN groups, groups[t].option \in m[groups[t].state]
      PROVE  m[groups[t].state] = {groups[t].option}
  <2>1. t \in Indexes /\ groups[t].state \in State
    <3>1. groups[t] \in Group
      BY GroupsFacts, LenProperties
    <3> QED
      BY <3>1 DEF Indexes, Group
  <2>2. CASE t \in T
    BY <1>3, <2>1, <2>2, TakenGroupsAreGone DEF m
  <2>3. CASE t \notin T
    <3>1. t \notin kept
      BY <2>3 DEF rest
    <3>2. m[groups[t].state] \subseteq moves[groups[t].state]
      BY <1>1, <2>1 DEF PartOf
    <3>3. moves[groups[t].state] = {groups[t].option}
      BY <1>3, <2>1, <3>1, <3>2 DEF BitsMatchAutomaton
    <3> QED
      BY <1>3, <3>2, <3>3
  <2> QED
    BY <2>2, <2>3
<1>4. TakeAll(groups, m, rest) = m
  BY <1>1, <1>2, <1>3, NothingTaken
<1> QED
  BY <1>4 DEF m, rest

\* The bits match what the attempt has left.
LEMMA CallKeepsBits ==
  ASSUME SearchTypeOK, BitsMatchAutomaton, search = "dd", NEW T,
         moves' = Attempt(T), kept' = kept \ T, groups' = groups
  PROVE  BitsMatchAutomaton'
<1>1. ASSUME NEW t \in Indexes, t \in kept', groups[t].state \in M!Reached(moves')
      PROVE  groups[t].option \in moves'[groups[t].state]
  BY <1>1, OtherGroupsStay
<1>2. ASSUME NEW t \in Indexes, t \notin kept', groups[t].option \in moves'[groups[t].state]
      PROVE  moves'[groups[t].state] = {groups[t].option}
  <2>1. CASE t \in T
    BY <1>2, <2>1, TakenGroupsAreGone
  <2>2. CASE t \notin T
    <3>1. groups[t].state \in State
      <4>1. groups[t] \in Group
        BY GroupsFacts, LenProperties DEF Indexes
      <4> QED
        BY <4>1 DEF Group
    <3>2. PartOf(moves', moves)
      BY AttemptIsPart
    <3>3. moves'[groups[t].state] \subseteq moves[groups[t].state]
      BY <3>1, <3>2 DEF PartOf
    <3>4. moves[groups[t].state] = {groups[t].option}
      BY <1>2, <2>2, <3>3 DEF BitsMatchAutomaton
    <3> QED
      BY <1>2, <3>3, <3>4
  <2> QED
    BY <2>1, <2>2
<1>3. Indexes' = Indexes
  BY DEF Indexes
<1>4. ASSUME NEW t \in Indexes
      PROVE  IF t \in kept' THEN groups[t].state \in M!Reached(moves') => groups[t].option \in moves'[groups[t].state]
             ELSE groups[t].option \in moves'[groups[t].state] => moves'[groups[t].state] = {groups[t].option}
  BY <1>1, <1>2
<1> QED
  BY <1>3, <1>4 DEF BitsMatchAutomaton

\* The partition in turn.
LEMMA TurnInRange ==
  ASSUME SearchTypeOK, tried < partitions
  PROVE  Turn \in 0 .. partitions - 1
<1>1. partitions \in Nat \ {0} /\ tried \in Nat /\ last \in Nat /\ tried < partitions
  BY GroupsFacts DEF SearchTypeOK
<1>2. \A a \in Nat, n \in Nat \ {0} : a % n \in 0 .. n - 1
  OBVIOUS
<1>3. (last + tried) % partitions \in 0 .. partitions - 1
  BY <1>1, <1>2
<1> QED
  BY <1>1, <1>3 DEF Turn

\* What a step tries to take: kept groups, and enough of them stay.
LEMMA TargetFacts ==
  ASSUME SearchTypeOK, EnoughGroups, tried < partitions
  PROVE  /\ Target \subseteq kept /\ kept \ Target \subseteq Indexes
         /\ phase = "complement" => Target = Partition(kept, partitions, Turn)
         /\ Target = {} => Cardinality(kept) <= 1
         /\ phase = "complement" =>
              \/ partitions = 2
              \/ partitions - 1 <= Cardinality(kept \ Target)
         /\ IsFiniteSet(kept \ Target) /\ Cardinality(kept \ Target) \in Nat
<1> DEFINE part == Partition(kept, partitions, Turn)
<1>1. /\ kept \in SUBSET Nat /\ IsFiniteSet(kept) /\ kept \subseteq Indexes
      /\ partitions \in Nat \ {0} /\ partitions >= 2
      /\ phase \in {"c_i", "complement"} /\ Cardinality(kept) \in Nat
  BY GroupsFacts DEF SearchTypeOK
<1>2. Turn \in 0 .. partitions - 1
  BY TurnInRange
<1>3. part \subseteq kept
  BY DEF Partition
<1>4. Target = IF phase = "c_i" THEN kept \ part ELSE part
  BY DEF Target
<1>5. CASE partitions <= Cardinality(kept)
  <2>1. part # {} /\ IsFiniteSet(kept \ part) /\ Cardinality(kept \ part) >= partitions - 1
    BY <1>1, <1>2, <1>5, PartitionOfMany
  <2>2. kept \ part # {}
    <3>1. Cardinality({}) = 0
      BY FS_EmptySet
    <3> HIDE DEF part
    <3> QED
      BY <1>1, <2>1, <3>1
  <2>3. Target # {}
    BY <1>4, <2>1, <2>2
  <2> HIDE DEF part
  <2>4. IsFiniteSet(kept \ Target) /\ Cardinality(kept \ Target) \in Nat
    BY <1>1, FS_Difference, FS_CardinalityType
  <2>5. phase = "complement" => Target = part /\ partitions - 1 <= Cardinality(kept \ Target)
    <3> SUFFICES ASSUME phase = "complement" PROVE Target = part /\ partitions - 1 <= Cardinality(kept \ Target)
      OBVIOUS
    <3>1. Target = part
      BY <1>4
    <3> QED
      BY <1>1, <2>1, <2>4, <3>1
  <2> QED
    BY <1>1, <1>3, <1>4, <2>3, <2>4, <2>5 DEF part
<1>6. CASE partitions = 2 /\ Cardinality(kept) <= 1
  <2>1. IsFiniteSet(kept \ Target) /\ Cardinality(kept \ Target) \in Nat
    BY <1>1, FS_Difference, FS_CardinalityType
  <2> QED
    BY <1>1, <1>3, <1>4, <1>6, <2>1
<1> QED
  BY <1>5, <1>6 DEF EnoughGroups

\* The search is entered again on an attempt that is unrealizable.
LEMMA CallStep ==
  ASSUME DiagnosisInv, search = "dd", ~ended,
         NEW T \in SUBSET kept, ~M!Realizable(game, Attempt(T)),
         NEW n \in 2 .. Len(groups) + 2, n <= Cardinality(kept \ T) \/ n = 2,
         NEW complement_first \in BOOLEAN, NEW start \in 0 .. n - 1,
         Call(Attempt(T), kept \ T, n, complement_first, start),
         UNCHANGED <<game, groups, search, count, removed, ended>>
  PROVE  GoodStep
<1>1. SearchTypeOK /\ StillUnrealizable /\ BitsMatchAutomaton
  BY DEF DiagnosisInv
<1>2. /\ kept' = kept \ T /\ partitions' = n /\ other_next' = TRUE /\ last' = start /\ tried' = 0
      /\ phase' = IF complement_first THEN "complement" ELSE "c_i"
      /\ moves' = TakeAll(groups, Attempt(T), Indexes \ (kept \ T))
  BY DEF Call
<1>3. moves' = Attempt(T)
  BY <1>1, <1>2, CallTakesNothing
<1>4. Attempt(T) \in Moves
  BY <1>1, AttemptIsPart
<1>5. SearchTypeOK'
  <2>1. /\ game' \in Games /\ moves' \in Moves /\ groups' = Groups(game')
        /\ search' \in {"linear", "dd"} /\ ended' \in BOOLEAN
        /\ count' \in 0 .. Len(groups') /\ removed' \in Seq(Indexes')
        /\ phase' \in {"c_i", "complement"} /\ other_next' \in BOOLEAN
    BY <1>1, <1>2, <1>3, <1>4 DEF SearchTypeOK, Indexes
  <2>2. kept' \subseteq Indexes' /\ partitions' \in 2 .. Len(groups') + 2
    BY <1>1, <1>2 DEF SearchTypeOK, Indexes
  <2>3. tried' \in 0 .. partitions' /\ last' \in 0 .. partitions' - 1
    BY <1>2
  <2> QED
    BY <2>1, <2>2, <2>3 DEF SearchTypeOK
<1>6. StillUnrealizable'
  BY <1>1, <1>3, AttemptStaysUnrealizable
<1>7. BitsMatchAutomaton'
  BY <1>1, <1>2, <1>3, CallKeepsBits
<1>8. EnoughGroups'
  <2>1. IsFiniteSet(kept \ T)
    BY <1>1, GroupsFacts, FS_Difference
  <2>2. Cardinality(kept') \in Nat
    BY <1>2, <2>1, FS_CardinalityType
  <2>3. partitions' <= Cardinality(kept') \/ partitions' = 2
    BY <1>2
  <2> QED
    BY <2>2, <2>3 DEF EnoughGroups
<1>9. ComplementsTried'
  <2>1. ~(phase' = "c_i" /\ ~other_next') /\ 0 .. tried' - 1 = {}
    BY <1>2
  <2> QED
    BY <2>1 DEF ComplementsTried
<1>10. RemovedAreGone' /\ GroupsTried'
  BY DEF RemovedAreGone, GroupsTried
<1>11. M!Next \/ UNCHANGED <<game, moves, ended>>
  BY <1>1, <1>3, AttemptReduces
<1> QED
  BY <1>5, <1>6, <1>7, <1>8, <1>9, <1>10, <1>11 DEF DiagnosisInv, GoodStep

LEMMA FailsStep ==
  ASSUME DiagnosisInv, search = "dd", ~ended, tried < partitions, Fails(Attempt(Target))
  PROVE  GoodStep
<1>1. SearchTypeOK /\ EnoughGroups /\ ComplementsTried
  BY DEF DiagnosisInv
<1>2. /\ M!Realizable(game, Attempt(Target)) /\ tried' = tried + 1
      /\ UNCHANGED <<game, groups, search, moves, count, removed, kept, partitions, phase,
                     other_next, last, ended>>
  BY DEF Fails
<1>3. tried \in Nat /\ partitions \in Nat /\ tried + 1 \in 0 .. partitions
  BY <1>1, GroupsFacts DEF SearchTypeOK
<1>4. SearchTypeOK'
  BY <1>1, <1>2, <1>3 DEF SearchTypeOK, Indexes
<1>5. StillUnrealizable' /\ BitsMatchAutomaton' /\ EnoughGroups' /\ RemovedAreGone' /\ GroupsTried'
  BY <1>2 DEF DiagnosisInv, StillUnrealizable, BitsMatchAutomaton, EnoughGroups, RemovedAreGone,
              GroupsTried, Indexes
<1>6. \A T : Attempt(T)' = Attempt(T)
  BY <1>2 DEF Attempt
<1>7. ComplementsTried'
  <2>1. ASSUME phase = "complement", NEW i \in 0 .. tried
        PROVE  M!Realizable(game, Attempt(Partition(kept, partitions, (last + i) % partitions)))
    <3>1. CASE i = tried
      <4>1. Target = Partition(kept, partitions, (last + i) % partitions)
        BY <1>1, <2>1, <3>1, TargetFacts DEF Turn
      <4> QED
        BY <1>2, <4>1
    <3>2. CASE i # tried
      <4>1. i \in 0 .. tried - 1
        BY <1>3, <3>2
      <4> QED
        BY <1>1, <2>1, <4>1 DEF ComplementsTried
    <3> QED
      BY <3>1, <3>2
  <2>2. ASSUME phase = "c_i", ~other_next, NEW d \in 0 .. partitions - 1
        PROVE  M!Realizable(game, Attempt(Partition(kept, partitions, d)))
    BY <1>1, <2>2 DEF ComplementsTried
  <2>3. 0 .. tried' - 1 = 0 .. tried
    BY <1>2, <1>3
  <2> QED
    BY <1>2, <2>1, <2>2, <2>3 DEF ComplementsTried, Attempt
<1> QED
  BY <1>2, <1>4, <1>5, <1>7 DEF DiagnosisInv, GoodStep

LEMMA NothingLeftStep ==
  ASSUME DiagnosisInv, search = "dd", ~ended, tried < partitions,
         NothingLeftToTake(Target, Attempt(Target))
  PROVE  GoodStep
<1>1. SearchTypeOK /\ EnoughGroups /\ StillUnrealizable /\ BitsMatchAutomaton
  BY DEF DiagnosisInv
<1>2. /\ Target = {} /\ moves' = Attempt(Target) /\ ended' = TRUE
      /\ UNCHANGED <<game, groups, search, count, removed, kept, partitions, phase,
                     other_next, last, tried>>
  BY DEF NothingLeftToTake, dd_vars
<1>3. moves' = moves
  BY <1>1, <1>2, AttemptOfNothing
<1>4. SearchTypeOK'
  BY <1>1, <1>2, <1>3 DEF SearchTypeOK, Indexes
<1>5. StillUnrealizable' /\ BitsMatchAutomaton' /\ EnoughGroups' /\ RemovedAreGone' /\ GroupsTried'
  BY <1>2, <1>3 DEF DiagnosisInv, StillUnrealizable, BitsMatchAutomaton, EnoughGroups,
                    RemovedAreGone, GroupsTried, Indexes
<1>6. ComplementsTried'
  BY <1>2 DEF ComplementsTried
<1>7. M!Finish
  <2>1. M!IsMinimal(game, moves)
    BY <1>1, <1>2, TargetFacts, MinimalWithFewGroups
  <2> QED
    BY <1>2, <1>3, <2>1 DEF M!Finish
<1> QED
  BY <1>2, <1>4, <1>5, <1>6, <1>7 DEF DiagnosisInv, GoodStep, M!Next

\* The place of the partition in turn among fewer partitions is one of them.
LEMMA NextPartitionInRange ==
  ASSUME SearchTypeOK, tried < partitions, NEW n \in Nat \ {0}
  PROVE  NextPartition(n) \in 0 .. n - 1
<1> DEFINE q == (Turn * n) \div partitions
<1>1. partitions \in Nat \ {0} /\ Turn \in 0 .. partitions - 1
  BY GroupsFacts, TurnInRange DEF SearchTypeOK
<1>2. Turn * n \in Nat /\ Turn * n < partitions * n
  <2>1. PICK e \in Nat : partitions = Turn + e + 1
    <3>1. partitions - Turn - 1 \in Nat /\ partitions = Turn + (partitions - Turn - 1) + 1
      BY <1>1
    <3> QED
      BY <3>1
  <2>2. partitions * n = Turn * n + e * n + n /\ e * n \in Nat /\ Turn * n \in Nat
    BY <1>1, <2>1
  <2> QED
    BY <2>2
<1>3. q \in Nat /\ partitions * q <= Turn * n
  BY <1>1, <1>2, Quotient
<1> HIDE DEF q
<1>4. partitions * q < partitions * n
  <2>1. partitions * q \in Nat /\ partitions * n \in Nat
    BY <1>1, <1>3
  <2> QED
    BY <1>2, <1>3, <2>1
<1>5. q < n
  BY <1>1, <1>3, <1>4, SmallerFactor
<1>6. q \in 0 .. n - 1
  BY <1>3, <1>5
<1> QED
  BY <1>6 DEF q, NextPartition

LEMMA ReduceToPartitionStep ==
  ASSUME DiagnosisInv, search = "dd", ~ended, tried < partitions,
         ReduceToPartition(Target, Attempt(Target))
  PROVE  GoodStep
<1>1. SearchTypeOK /\ EnoughGroups
  BY DEF DiagnosisInv
<1>2. Target \in SUBSET kept /\ Len(groups) \in Nat
  BY <1>1, TargetFacts, GroupsFacts
<1>3. /\ ~M!Realizable(game, Attempt(Target)) /\ Call(Attempt(Target), kept \ Target, 2, FALSE, 0)
      /\ UNCHANGED <<game, groups, search, count, removed, ended>>
  BY DEF ReduceToPartition
<1>4. 2 \in 2 .. Len(groups) + 2 /\ 0 \in 0 .. 2 - 1
  BY <1>2
<1> QED
  BY <1>2, <1>3, <1>4, CallStep

LEMMA ReduceToComplementStep ==
  ASSUME DiagnosisInv, search = "dd", ~ended, tried < partitions,
         ReduceToComplement(Target, Attempt(Target))
  PROVE  GoodStep
<1> DEFINE n == IF partitions > 3 THEN partitions - 1 ELSE 2
<1>1. SearchTypeOK /\ EnoughGroups
  BY DEF DiagnosisInv
<1>2. /\ phase = "complement" /\ ~M!Realizable(game, Attempt(Target))
      /\ Call(Attempt(Target), kept \ Target, n, TRUE, NextPartition(n))
      /\ UNCHANGED <<game, groups, search, count, removed, ended>>
  BY DEF ReduceToComplement
<1>3. /\ Target \in SUBSET kept /\ Len(groups) \in Nat
      /\ partitions = 2 \/ partitions - 1 <= Cardinality(kept \ Target)
      /\ partitions \in 2 .. Len(groups) + 2
  BY <1>1, <1>2, TargetFacts, GroupsFacts DEF SearchTypeOK
<1>4. n \in 2 .. Len(groups) + 2 /\ (n <= Cardinality(kept \ Target) \/ n = 2)
  BY <1>3
<1>5. n \in Nat \ {0}
  BY <1>4
<1> HIDE DEF n
<1>6. NextPartition(n) \in 0 .. n - 1
  BY <1>1, <1>5, NextPartitionInRange
<1> QED
  BY <1>2, <1>3, <1>4, <1>6, CallStep

LEMMA TryPartitionStep ==
  ASSUME DiagnosisInv, TryPartition
  PROVE  GoodStep
<1>1. search = "dd" /\ ~ended /\ tried < partitions
  BY DEF TryPartition
<1>2. \/ Fails(Attempt(Target))
      \/ NothingLeftToTake(Target, Attempt(Target))
      \/ ReduceToPartition(Target, Attempt(Target))
      \/ ReduceToComplement(Target, Attempt(Target))
  BY DEF TryPartition, Attempt
<1> QED
  BY <1>1, <1>2, FailsStep, NothingLeftStep, ReduceToPartitionStep, ReduceToComplementStep

\* Once the complement loop went round, it failed for every partition.
LEMMA AllComplementsTried ==
  ASSUME SearchTypeOK, ComplementsTried, search = "dd", ~ended, phase = "complement",
         tried = partitions, NEW d \in 0 .. partitions - 1
  PROVE  M!Realizable(game, Attempt(Partition(kept, partitions, d)))
<1> DEFINE i == IF d >= last THEN d - last ELSE d + partitions - last
<1>1. partitions \in Nat \ {0} /\ last \in 0 .. partitions - 1
  BY GroupsFacts DEF SearchTypeOK
<1>2. i \in 0 .. tried - 1
  BY <1>1
<1>3. (last + i) % partitions = d
  <2>1. last + i = d \/ last + i = d + partitions
    BY <1>1
  <2>2. d % partitions = d /\ (d + partitions) % partitions = d
    BY <1>1
  <2> QED
    BY <2>1, <2>2
<1> HIDE DEF i
<1> QED
  BY <1>2, <1>3 DEF ComplementsTried

LEMMA OtherLoopStep ==
  ASSUME DiagnosisInv, OtherLoop
  PROVE  GoodStep
<1>1. SearchTypeOK /\ ComplementsTried
  BY DEF DiagnosisInv
<1>2. /\ search = "dd" /\ ~ended /\ tried = partitions /\ other_next
      /\ phase' = IF phase = "c_i" THEN "complement" ELSE "c_i"
      /\ other_next' = FALSE /\ tried' = 0
      /\ UNCHANGED <<game, groups, search, moves, count, removed, kept, partitions, last, ended>>
  BY DEF OtherLoop
<1>3. SearchTypeOK'
  <2>1. phase' \in {"c_i", "complement"} /\ other_next' \in BOOLEAN
    BY <1>2
  <2>2. tried' \in 0 .. partitions' /\ last' \in 0 .. partitions' - 1
    BY <1>1, <1>2 DEF SearchTypeOK
  <2> QED
    BY <1>1, <1>2, <2>1, <2>2 DEF SearchTypeOK, Indexes
<1>4. StillUnrealizable' /\ BitsMatchAutomaton' /\ EnoughGroups' /\ RemovedAreGone' /\ GroupsTried'
  BY <1>2 DEF DiagnosisInv, StillUnrealizable, BitsMatchAutomaton, EnoughGroups, RemovedAreGone,
              GroupsTried, Indexes
<1>5. ComplementsTried'
  <2>1. 0 .. tried' - 1 = {}
    BY <1>2
  <2>2. ASSUME phase' = "c_i", NEW d \in 0 .. partitions - 1
        PROVE  M!Realizable(game, Attempt(Partition(kept, partitions, d)))
    <3>1. phase = "complement"
      BY <1>1, <1>2, <2>2 DEF SearchTypeOK
    <3> QED
      BY <1>1, <1>2, <3>1, AllComplementsTried
  <2> QED
    BY <1>2, <2>1, <2>2 DEF ComplementsTried, Attempt
<1> QED
  BY <1>2, <1>3, <1>4, <1>5 DEF DiagnosisInv, GoodStep

LEMMA RefineStep ==
  ASSUME DiagnosisInv, Refine
  PROVE  GoodStep
<1> DEFINE n == IF 2 * partitions < Cardinality(kept) THEN 2 * partitions ELSE Cardinality(kept)
<1>1. SearchTypeOK /\ StillUnrealizable
  BY DEF DiagnosisInv
<1>2. /\ search = "dd" /\ ~ended /\ partitions < Cardinality(kept)
      /\ Call(moves, kept, n, FALSE, 0)
      /\ UNCHANGED <<game, groups, search, count, removed, ended>>
  BY DEF Refine, BothLoopsFailed
<1>3. /\ Cardinality(kept) \in Nat /\ Len(groups) \in Nat /\ Cardinality(kept) <= Len(groups)
      /\ partitions \in Nat /\ partitions >= 2
  BY <1>1, GroupsFacts DEF SearchTypeOK
<1>4. /\ n \in 2 .. Len(groups) + 2 /\ 0 \in 0 .. n - 1
      /\ n <= Cardinality(kept)
  BY <1>2, <1>3
<1> HIDE DEF n
<1>5. Attempt({}) = moves /\ kept \ {} = kept
  BY <1>1, AttemptOfNothing
<1>6. ~M!Realizable(game, Attempt({}))
  BY <1>1, <1>5 DEF StillUnrealizable
<1> QED
  BY <1>2, <1>4, <1>5, <1>6, CallStep

\* The repair by a linear search is never needed, and the result is minimal.
LEMMA ConcludeStep ==
  ASSUME DiagnosisInv, Conclude
  PROVE  GoodStep
<1>1. /\ SearchTypeOK /\ StillUnrealizable /\ BitsMatchAutomaton /\ EnoughGroups
      /\ ComplementsTried
  BY DEF DiagnosisInv
<1>2. /\ search = "dd" /\ ~ended /\ tried = partitions /\ ~other_next
      /\ partitions >= Cardinality(kept)
  BY DEF Conclude, BothLoopsFailed
<1>3. ~M!Realizable(game, moves)
  BY <1>1 DEF StillUnrealizable
<1>4. /\ ended' = TRUE
      /\ UNCHANGED <<game, groups, search, moves, count, removed, kept, partitions, phase,
                     other_next, last, tried>>
  BY <1>3 DEF Conclude, dd_vars
<1>5. SearchTypeOK'
  BY <1>1, <1>4 DEF SearchTypeOK, Indexes
<1>6. StillUnrealizable' /\ BitsMatchAutomaton' /\ EnoughGroups' /\ RemovedAreGone' /\ GroupsTried'
  BY <1>2, <1>4 DEF DiagnosisInv, StillUnrealizable, BitsMatchAutomaton, EnoughGroups,
                    RemovedAreGone, GroupsTried, Indexes
<1>7. ComplementsTried'
  BY <1>4 DEF ComplementsTried
<1>8. M!IsMinimal(game, moves)
  <2>1. CASE Cardinality(kept) <= 1
    BY <1>1, <1>2, <2>1, MinimalWithFewGroups
  <2>2. CASE partitions <= Cardinality(kept)
    <3>1. Cardinality(kept) = partitions
      BY <1>1, <1>2, <2>2, GroupsFacts DEF SearchTypeOK
    <3>2. phase = "complement" \/ phase = "c_i"
      BY <1>1 DEF SearchTypeOK
    <3>3. \A d \in 0 .. partitions - 1 : M!Realizable(game, Attempt(Partition(kept, partitions, d)))
      <4>1. CASE phase = "complement"
        BY <1>1, <1>2, <4>1, AllComplementsTried
      <4>2. CASE phase = "c_i"
        BY <1>1, <1>2, <4>2 DEF ComplementsTried
      <4> QED
        BY <3>2, <4>1, <4>2
    <3> QED
      BY <1>1, <1>2, <3>1, <3>3, MinimalWithAllTried
  <2> QED
    BY <1>1, <2>1, <2>2 DEF EnoughGroups
<1>9. M!Finish
  BY <1>2, <1>4, <1>8 DEF M!Finish
<1> QED
  BY <1>4, <1>5, <1>6, <1>7, <1>9 DEF DiagnosisInv, GoodStep, M!Next

-----------------------------------------------------------------------------
(****************************************************************************)
(* The linear search.                                                       *)
(****************************************************************************)
\* The greatest member of a set of positions that has one.
LEMMA GreatestMember ==
  ASSUME NEW n \in Nat, NEW S \in SUBSET (1 .. n), S # {}
  PROVE  \E t \in S : \A u \in S : u <= t
<1> DEFINE Q == {k \in Nat : \A T \in SUBSET (1 .. k) : T # {} => \E t \in T : \A u \in T : u <= t}
<1>1. 0 \in Q
  <2>1. 1 .. 0 = {}
    OBVIOUS
  <2>2. \A T \in SUBSET (1 .. 0) : T = {}
    BY <2>1
  <2> QED
    BY <2>2
<1>2. ASSUME NEW k \in Nat, k \in Q PROVE k + 1 \in Q
  <2>1. ASSUME NEW T \in SUBSET (1 .. k + 1), T # {}
        PROVE  \E t \in T : \A u \in T : u <= t
    <3>1. CASE k + 1 \in T
      BY <3>1
    <3>2. CASE k + 1 \notin T
      <4>1. \A t \in T : t \in 1 .. k
        BY <3>2
      <4>2. T \in SUBSET (1 .. k)
        BY <4>1
      <4> QED
        BY <1>2, <2>1, <4>2
    <3> QED
      BY <3>1, <3>2
  <2> QED
    BY <2>1
<1> HIDE DEF Q
<1>3. \A k \in Nat : k \in Q
  BY <1>1, <1>2, Gather!SetInduction
<1>4. n \in Q
  BY <1>3
<1> QED
  BY <1>4 DEF Q

\* The groups above the candidate that are left belong to states with one transition.
LEMMA CandidateFacts ==
  ASSUME SearchTypeOK
  PROVE  /\ Candidate \in 0 .. count
         /\ Candidate # 0 => Candidate \in Indexes
         /\ \A t \in 1 .. count : t > Candidate => HasOneTransition(moves, groups[t].state)
<1> DEFINE open == {t \in 1 .. count : ~HasOneTransition(moves, groups[t].state)}
           best == CHOOSE t \in open : \A u \in open : u <= t
<1>1. count \in Nat /\ count <= Len(groups) /\ Len(groups) \in Nat /\ Indexes = 1 .. Len(groups)
  BY GroupsFacts DEF SearchTypeOK
<1>2. Candidate = IF open = {} THEN 0 ELSE best
  BY DEF Candidate
<1>3. open \in SUBSET (1 .. count)
      /\ \A t \in 1 .. count : t \notin open => HasOneTransition(moves, groups[t].state)
  OBVIOUS
<1> HIDE DEF open
<1>4. open # {} => best \in open /\ \A u \in open : u <= best
  <2>1. open # {} => \E t \in open : \A u \in open : u <= t
    BY <1>1, <1>3, GreatestMember
  <2> QED
    BY <2>1
<1> HIDE DEF best
<1>5. CASE open = {}
  BY <1>1, <1>2, <1>3, <1>5
<1>6. CASE open # {}
  <2>1. Candidate \in open /\ \A u \in open : u <= Candidate
    BY <1>2, <1>4, <1>6
  <2>2. Candidate \in 1 .. count
    BY <1>3, <2>1
  <2>3. ASSUME NEW t \in 1 .. count, t > Candidate PROVE t \notin open
    BY <1>1, <2>1, <2>2, <2>3
  <2> QED
    BY <1>1, <1>3, <2>2, <2>3
<1> QED
  BY <1>5, <1>6

\* Taking one group is taking the set of that group.
LEMMA TakeIsAttempt ==
  ASSUME SearchTypeOK, NEW t \in Indexes
  PROVE  Take(groups, moves, t) = TakeAll(groups, moves, {t})
<1> DEFINE s == groups[t].state
           o == groups[t].option
           one == Take(groups, moves, t)
           all == TakeAll(groups, moves, {t})
<1>1. moves \in Moves /\ groups \in Seq(Group) /\ t \in DOMAIN groups
  BY GroupsFacts DEF SearchTypeOK, Indexes
<1>2. OneTaken(moves, s, o, one)
  BY <1>1, TakeEffect
<1>3. all \in Moves /\ \A u \in State : TakenAt(moves[u], Options(groups, {t}, u), all[u])
  BY AttemptIsPart DEF Taken
<1>4. /\ Options(groups, {t}, s) = {o}
      /\ \A u \in State : u # s => Options(groups, {t}, u) = {}
  BY <1>1 DEF Options
<1> HIDE DEF s, o, one, all
<1>5. ASSUME NEW u \in State PROVE one[u] = all[u]
  <2>1. one[u] = IF u # s \/ moves[u] = {o} THEN moves[u] ELSE moves[u] \ {o}
    BY <1>2 DEF OneTaken
  <2>2. CASE u = s
    <3>1. TakenAt(moves[u], {o}, all[u])
      BY <1>3, <1>4, <2>2
    <3>2. CASE moves[u] = {o}
      BY <2>1, <3>1, <3>2 DEF TakenAt
    <3>3. CASE moves[u] # {o}
      <4>1. one[u] = moves[u] \ {o}
        BY <2>1, <2>2, <3>3
      <4>2. moves[u] \ {o} # {} \/ moves[u] = {}
        BY <3>3
      <4>3. all[u] = moves[u] \ {o}
        BY <3>1, <4>2 DEF TakenAt
      <4> QED
        BY <4>1, <4>3
    <3> QED
      BY <3>2, <3>3
  <2>3. CASE u # s
    <3>1. TakenAt(moves[u], {}, all[u])
      BY <1>3, <1>4, <2>3
    <3> QED
      BY <2>1, <2>3, <3>1 DEF TakenAt
  <2> QED
    BY <2>2, <2>3
<1>6. one \in Moves
  BY <1>2 DEF OneTaken
<1>7. one = all
  BY <1>3, <1>5, <1>6 DEF Moves
<1> QED
  BY <1>7 DEF one, all

\* The verdicts are monotone in any part of the game.
LEMMA FewerOptionsStayRealizable ==
  ASSUME NEW g \in Games, NEW m \in Moves, PartOf(m, g.moves), M!CleanUp(m) = m,
         M!Realizable(g, m), NEW s \in State, NEW o \in m[s], m[s] # {o}
  PROVE  M!Realizable(g, M!Without(m, s, o))
<1> DEFINE all == UNION {{u} \X g.moves[u] : u \in State}
           taken == {p \in all : p[2] \notin m[p[1]]}
           left == [u \in State |-> {q \in g.moves[u] : <<u, q>> \notin taken}]
<1>1. \A u \in State : {q \in g.moves[u] : <<u, q>> \notin taken} = m[u]
  <2>1. ASSUME NEW u \in State, NEW q \in g.moves[u]
        PROVE  <<u, q>> \in taken <=> q \notin m[u]
    <3>1. <<u, q>> \in all /\ <<u, q>>[1] = u /\ <<u, q>>[2] = q
      OBVIOUS
    <3> HIDE DEF all
    <3> QED
      BY <3>1
  <2>2. \A u \in State : m[u] \subseteq g.moves[u]
    BY DEF PartOf
  <2> HIDE DEF taken
  <2> QED
    BY <2>1, <2>2
<1>2. left = m
  <2> HIDE DEF taken
  <2> QED
    BY <1>1 DEF Moves
<1>3. taken \in SUBSET all
  OBVIOUS
<1> HIDE DEF taken
<1>4. M!CleanUp(left) = m
  BY <1>2
<1>5. \A x \in {M!CleanUp(left)} :
        M!Realizable(g, x) =>
          \A u \in State : \A q \in x[u] : x[u] # {q} => M!Realizable(g, M!Without(x, u, q))
  BY <1>3, VerdictsAssumption, Zenon DEF FewerOptionsHelp
<1> HIDE DEF left
<1> QED
  BY <1>4, <1>5

Less(m, s, o) == [m EXCEPT ![s] = @ \ {o}]

HasLess(m, s, o, l) ==
  l \in Moves /\ \A u \in State : l[u] = IF u = s THEN m[u] \ {o} ELSE m[u]

LEMMA LessEffect ==
  ASSUME NEW m \in Moves, NEW s \in State, NEW o
  PROVE  HasLess(m, s, o, Less(m, s, o))
BY DEF HasLess, Less, Moves

\* Two options may be taken in any order.
LEMMA WithoutTwice ==
  ASSUME NEW m \in Moves, NEW s \in State, NEW u \in State, NEW o, NEW q
  PROVE  M!Without(M!Without(m, s, o), u, q) = M!Without(M!Without(m, u, q), s, o)
<1>1. \A l, v, e : M!Without(l, v, e) = M!CleanUp(Less(l, v, e))
  BY DEF M!Without, Less
<1>2. ASSUME NEW v \in State, NEW w \in State, NEW e, NEW f
      PROVE  M!Without(M!Without(m, v, e), w, f) = M!CleanUp(Less(Less(m, v, e), w, f))
  <2> DEFINE l == Less(m, v, e)
             clean == M!CleanUp(l)
  <2>1. l \in Moves
    BY LessEffect DEF HasLess
  <2> HIDE DEF l
  <2>2. clean \in Moves /\ \A x \in M!Reached(l) : x \in State /\ clean[x] = l[x]
    BY <2>1, CleanUpEffect, ReachedIsLeast
  <2> HIDE DEF clean
  <2>3. HasLess(l, w, f, Less(l, w, f))
    BY <2>1, LessEffect
  <2>4. HasLess(clean, w, f, Less(clean, w, f))
    BY <2>2, LessEffect
  <2>5. /\ PartOf(Less(l, w, f), l)
        /\ \A x \in M!Reached(l) : Less(clean, w, f)[x] = Less(l, w, f)[x]
    BY <2>2, <2>3, <2>4 DEF HasLess, PartOf
  <2>6. M!CleanUp(Less(clean, w, f)) = M!CleanUp(Less(l, w, f))
    BY <2>1, <2>3, <2>4, <2>5, CleanUpBefore DEF HasLess
  <2> QED
    BY <1>1, <2>6 DEF l, clean
<1>3. Less(Less(m, s, o), u, q) = Less(Less(m, u, q), s, o)
  <2> DEFINE l == Less(m, s, o)
             h == Less(m, u, q)
  <2>1. HasLess(m, s, o, l) /\ HasLess(m, u, q, h)
    BY LessEffect
  <2> HIDE DEF l, h
  <2>2. HasLess(l, u, q, Less(l, u, q)) /\ HasLess(h, s, o, Less(h, s, o))
    <3>1. l \in Moves /\ h \in Moves
      BY <2>1 DEF HasLess
    <3>2. HasLess(l, u, q, Less(l, u, q))
      BY <3>1, LessEffect
    <3>3. HasLess(h, s, o, Less(h, s, o))
      BY <3>1, LessEffect
    <3> QED
      BY <3>2, <3>3
  <2>3. \A w \in State : Less(l, u, q)[w] = Less(h, s, o)[w]
    BY <2>1, <2>2 DEF HasLess
  <2>4. Less(l, u, q) = Less(h, s, o)
    BY <2>2, <2>3 DEF HasLess, Moves
  <2> QED
    BY <2>4 DEF l, h
<1> QED
  BY <1>2, <1>3

\* What is left without an option, in terms of what there was.
HasWithout(m, s, o, l) ==
  /\ l \in Moves /\ PartOf(l, m)
  /\ M!CleanUp(l) = l
  /\ o \notin l[s]
  /\ \A u \in State : l[u] = {} \/ l[u] = IF u = s THEN m[u] \ {o} ELSE m[u]
  /\ M!CleanUp(m) = m /\ o \notin m[s] => l = m

LEMMA WithoutEffect ==
  ASSUME NEW m \in Moves, NEW s \in State, NEW o
  PROVE  HasWithout(m, s, o, M!Without(m, s, o))
<1> DEFINE l == [m EXCEPT ![s] = @ \ {o}]
<1>1. /\ l \in Moves
      /\ \A u \in State : l[u] = IF u = s THEN m[u] \ {o} ELSE m[u]
      /\ o \notin m[s] => l = m
  BY DEF Moves
<1>2. M!Without(m, s, o) = M!CleanUp(l)
  BY DEF M!Without
<1> HIDE DEF l
<1>3. /\ M!CleanUp(l) \in Moves /\ PartOf(M!CleanUp(l), l)
      /\ \A u \in State : M!CleanUp(l)[u] = {} \/ M!CleanUp(l)[u] = l[u]
      /\ M!CleanUp(M!CleanUp(l)) = M!CleanUp(l)
  BY <1>1, CleanUpEffect, CleanUpTwice
<1>4. PartOf(M!CleanUp(l), m)
  BY <1>1, <1>3 DEF PartOf
<1>5. o \notin M!CleanUp(l)[s]
  BY <1>1, <1>3
<1>6. HasWithout(m, s, o, M!CleanUp(l))
  BY <1>1, <1>3, <1>4, <1>5 DEF HasWithout
<1> QED
  BY <1>2, <1>6

LEMMA FrontOfAppend ==
  ASSUME NEW S, NEW list \in Seq(S), NEW x \in S
  PROVE  /\ Front(Append(list, x)) = list
         /\ Append(list, x) \in Seq(S)
         /\ ToSet(Append(list, x)) = ToSet(list) \cup {x}
<1> DEFINE n == Len(list)
           more == Append(list, x)
           front == SubSeq(more, 1, n)
<1>1. /\ n \in Nat /\ DOMAIN list = 1 .. n /\ \A i \in 1 .. n : list[i] \in S
  BY LenProperties
<1>2. /\ more \in Seq(S) /\ Len(more) = n + 1 /\ DOMAIN more = 1 .. n + 1
      /\ \A i \in 1 .. n : more[i] = list[i]
      /\ more[n + 1] = x
  BY AppendProperties, LenProperties
<1> HIDE DEF more, n
<1>3. /\ front \in Seq(S) /\ Len(front) = n
      /\ \A i \in 1 .. n : front[i] = list[i]
  <2>1. \A i \in 1 .. n : more[i] \in S
    BY <1>1, <1>2
  <2>2. /\ front \in Seq(S) /\ Len(front) = (IF 1 <= n THEN n - 1 + 1 ELSE 0)
        /\ \A i \in 1 .. n - 1 + 1 : front[i] = more[1 + i - 1]
    BY <1>1, <2>1, SubSeqProperties
  <2>3. \A i \in 1 .. n : i \in 1 .. n - 1 + 1 /\ 1 + i - 1 = i
    BY <1>1
  <2> HIDE DEF front
  <2> QED
    BY <1>1, <1>2, <2>2, <2>3
<1>4. front = list
  <2>1. Len(front) = Len(list) /\ \A i \in 1 .. Len(front) : front[i] = list[i]
    BY <1>3 DEF n
  <2> HIDE DEF front
  <2> QED
    BY <1>3, <2>1, SeqEqual
<1>5. Front(more) = front
  <2>1. Len(more) - 1 = n
    BY <1>1, <1>2
  <2> QED
    BY <2>1 DEF Front
<1>6. ToSet(more) = ToSet(list) \cup {x}
  <2>1. \A i \in 1 .. n + 1 : i \in 1 .. n \/ i = n + 1
    BY <1>1
  <2>2. \A i \in 1 .. n : i \in 1 .. n + 1
    BY <1>1
  <2>3. n + 1 \in 1 .. n + 1
    BY <1>1
  <2> QED
    BY <1>1, <1>2, <2>1, <2>2, <2>3 DEF ToSet
<1> QED
  BY <1>2, <1>4, <1>5, <1>6 DEF more

\* Noting one more group rebuilds what taking it leaves.
LEMMA RebuildAppended ==
  ASSUME SearchTypeOK, NEW list \in Seq(Indexes), NEW t \in Indexes, moves = Rebuild(list),
         moves[groups[t].state] # {groups[t].option}
  PROVE  M!CleanUp(Take(groups, moves, t)) = Rebuild(Append(list, t))
<1> DEFINE s == groups[t].state
           o == groups[t].option
           Gone(T, u) == {groups[v].option : v \in {w \in T : groups[w].state = u}}
           Left(T) == [u \in State |-> Master(game)[u] \ Gone(T, u)]
           old == Left(ToSet(list))
           new == Left(ToSet(Append(list, t)))
           left == Take(groups, moves, t)
<1>1. game \in Game /\ moves \in Moves /\ groups \in Seq(Group) /\ t \in DOMAIN groups
  BY GroupsFacts DEF SearchTypeOK, Indexes
<1>2. OneTaken(moves, s, o, left)
  BY <1>1, TakeEffect
<1>3. ToSet(Append(list, t)) = ToSet(list) \cup {t}
  BY FrontOfAppend
<1>4. Rebuild(list) = M!CleanUp(old) /\ Rebuild(Append(list, t)) = M!CleanUp(new)
  BY Zenon DEF Rebuild
<1>5. \A u \in State : new[u] = IF u = s THEN old[u] \ {o} ELSE old[u]
  <2>1. \A u : Gone(ToSet(list) \cup {t}, u) = IF u = s THEN Gone(ToSet(list), u) \cup {o} ELSE Gone(ToSet(list), u)
    OBVIOUS
  <2>2. \A u \in State : /\ old[u] = Master(game)[u] \ Gone(ToSet(list), u)
                         /\ new[u] = Master(game)[u] \ Gone(ToSet(list) \cup {t}, u)
    BY <1>3
  <2> HIDE DEF Gone, s, o, old, new
  <2> QED
    BY <2>1, <2>2
<1>6. old \in Moves /\ new \in Moves
  <2>1. \A T : Left(T) \in Moves
    <3>1. Master(game) \in Moves
      BY <1>1, MasterFacts
    <3> HIDE DEF Gone
    <3> QED
      BY <3>1 DEF Moves
  <2> HIDE DEF Left
  <2> QED
    BY <2>1
<1> HIDE DEF old, new, left, s, o
<1>7. PartOf(new, old)
  BY <1>5 DEF PartOf
<1>8. \A u \in M!Reached(old) : left[u] = new[u]
  <2> TAKE u \in M!Reached(old)
  <2>1. moves[u] = old[u] /\ u \in State
    BY <1>4, <1>6, CleanUpEffect, ReachedIsLeast
  <2>2. left[u] = IF u # s \/ moves[u] = {o} THEN moves[u] ELSE moves[u] \ {o}
    BY <1>2, <2>1 DEF OneTaken
  <2>3. moves[s] # {o}
    BY DEF s, o
  <2> QED
    BY <1>5, <2>1, <2>2, <2>3
<1>9. left \in Moves
  BY <1>2 DEF OneTaken
<1>10. M!CleanUp(left) = M!CleanUp(new)
  BY <1>6, <1>7, <1>8, <1>9, CleanUpBefore
<1> QED
  BY <1>4, <1>10 DEF left

\* A group the search was done with is still needed, or gone, after one more is taken.
LEMMA TriedGroupsStayTried ==
  ASSUME SearchTypeOK, StillUnrealizable, NEW t \in Indexes, NEW u \in Indexes,
         NEW left, left = Attempt({t}), left # moves,
         groups[u].option \in left[groups[u].state],
         left[groups[u].state] # {groups[u].option},
         M!Realizable(game, M!Without(moves, groups[u].state, groups[u].option))
  PROVE  M!Realizable(game, M!Without(left, groups[u].state, groups[u].option))
<1> DEFINE s == groups[t].state
           o == groups[t].option
           v == groups[u].state
           q == groups[u].option
           less == M!Without(moves, v, q)
<1>1. moves \in Moves /\ s \in State /\ v \in State /\ game \in Games
  <2>1. groups[t] \in Group /\ groups[u] \in Group
    BY GroupsFacts, LenProperties DEF Indexes
  <2> QED
    BY <2>1 DEF Group, SearchTypeOK
<1>2. o \in moves[s] /\ moves[s] # {o}
  <2>1. CASE o \notin moves[s] \/ moves[s] = {o}
    <3>1. Take(groups, moves, t) = moves
      <4>1. OneTaken(moves, s, o, Take(groups, moves, t))
        BY <1>1, GroupsFacts, TakeEffect DEF Indexes
      <4> HIDE DEF s, o
      <4>2. ASSUME NEW w \in State PROVE Take(groups, moves, t)[w] = moves[w]
        <5>1. CASE w # s \/ moves[w] = {o}
          BY <4>1, <5>1 DEF OneTaken
        <5>2. CASE w = s /\ moves[w] # {o}
          <6>1. o \notin moves[w]
            BY <2>1, <5>2
          <6>2. Take(groups, moves, t)[w] = moves[w] \ {o}
            BY <4>1, <5>2 DEF OneTaken
          <6> QED
            BY <6>1, <6>2
        <5> QED
          BY <5>1, <5>2
      <4>3. Take(groups, moves, t) \in Moves
        BY <4>1 DEF OneTaken
      <4> QED
        BY <1>1, <4>2, <4>3 DEF Moves
    <3>2. left = M!CleanUp(moves)
      BY <3>1, TakeIsAttempt DEF Attempt
    <3> QED
      BY <3>2 DEF StillUnrealizable
  <2> QED
    BY <2>1
<1>3. left = M!Without(moves, s, o)
  BY <1>2, WithoutIsAttempt
<1>4. M!Without(left, v, q) = M!Without(less, s, o)
  BY <1>1, <1>3, WithoutTwice
<1> HIDE DEF s, o, v, q, less
<1>5. q \in left[v] /\ left[v] # {q} /\ M!Realizable(game, less)
  BY DEF v, q, less
<1>6. /\ less \in Moves /\ PartOf(less, moves) /\ M!CleanUp(less) = less
      /\ \A w \in State : less[w] = {} \/ less[w] = IF w = v THEN moves[w] \ {q} ELSE moves[w]
      /\ M!CleanUp(less) = less /\ o \notin less[s] => M!Without(less, s, o) = less
  <2>1. less = M!Without(moves, v, q)
    BY DEF less
  <2>2. /\ less \in Moves /\ PartOf(less, moves) /\ M!CleanUp(less) = less
        /\ \A w \in State : less[w] = {} \/ less[w] = IF w = v THEN moves[w] \ {q} ELSE moves[w]
    <3>1. HasWithout(moves, v, q, M!Without(moves, v, q))
      BY <1>1, WithoutEffect
    <3>2. HasWithout(moves, v, q, less)
      BY <2>1, <3>1
    <3> QED
      BY <3>2 DEF HasWithout
  <2>3. M!CleanUp(less) = less /\ o \notin less[s] => M!Without(less, s, o) = less
    <3>1. HasWithout(less, s, o, M!Without(less, s, o))
      BY <1>1, <2>2, WithoutEffect
    <3> QED
      BY <3>1 DEF HasWithout
  <2> QED
    BY <2>2, <2>3
<1>7. CASE o \notin less[s]
  BY <1>4, <1>5, <1>6, <1>7 DEF v, q
<1>8. CASE o \in less[s]
  <2>1. less[s] # {o}
    <3>1. less[s] = IF s = v THEN moves[s] \ {q} ELSE moves[s]
      BY <1>1, <1>6, <1>8
    <3>2. CASE s = v
      <4>1. left[s] = {} \/ left[s] = moves[s] \ {o}
        <5>1. HasWithout(moves, s, o, M!Without(moves, s, o))
          BY <1>1, WithoutEffect
        <5>2. HasWithout(moves, s, o, left)
          BY <1>3, <5>1
        <5> QED
          BY <1>1, <5>2 DEF HasWithout
      <4>2. PICK x \in moves[s] : x # o /\ x # q
        BY <1>5, <3>2, <4>1
      <4> QED
        BY <3>1, <3>2, <4>2
    <3>3. CASE s # v
      BY <1>2, <3>1, <3>3
    <3> QED
      BY <3>2, <3>3
  <2>2. PartOf(less, game.moves)
    BY <1>6 DEF PartOf, StillUnrealizable
  <2>3. M!Realizable(game, M!Without(less, s, o))
    BY <1>1, <1>5, <1>6, <1>8, <2>1, <2>2, FewerOptionsStayRealizable
  <2> QED
    BY <1>4, <2>3 DEF v, q
<1> QED
  BY <1>7, <1>8

\* The groups from the candidate on are done with when the candidate is.
LEMMA GroupsAboveCandidate ==
  ASSUME DiagnosisInv, search = "linear", NEW u \in Indexes, u > Candidate,
         groups[u].option \in moves[groups[u].state],
         moves[groups[u].state] # {groups[u].option}
  PROVE  M!Realizable(game, M!Without(moves, groups[u].state, groups[u].option))
<1>1. SearchTypeOK /\ GroupsTried
  BY DEF DiagnosisInv
<1>2. count \in Nat /\ u \in Nat /\ u >= 1 /\ Candidate \in 0 .. count
  BY <1>1, GroupsFacts, CandidateFacts DEF SearchTypeOK
<1>3. CASE u > count
  BY <1>1, <1>3 DEF GroupsTried
<1>4. CASE ~(u > count)
  <2>1. u \in 1 .. count
    BY <1>2, <1>4
  <2>2. HasOneTransition(moves, groups[u].state)
    BY <1>1, <2>1, CandidateFacts
  <2> QED
    BY <2>2 DEF HasOneTransition
<1> QED
  BY <1>3, <1>4

LEMMA LinearStepStep ==
  ASSUME DiagnosisInv, LinearStep
  PROVE  GoodStep
<1> DEFINE t == Candidate
           left == Take(groups, moves, t)
           list == Note(t, left)
           attempt == M!CleanUp(left)
<1>1. SearchTypeOK /\ StillUnrealizable /\ RemovedAreGone /\ GroupsTried
  BY DEF DiagnosisInv
<1>2. /\ search = "linear" /\ ~ended /\ t # 0 /\ count' = t - 1
      /\ UNCHANGED <<game, groups, search, kept, partitions, phase, other_next, last, tried, ended>>
  BY DEF LinearStep, dd_vars
<1>3. IF M!Realizable(game, attempt)
      THEN removed' = Front(list) /\ moves' = Rebuild(Front(list))
      ELSE removed' = list /\ moves' = attempt
  BY DEF LinearStep
<1>4. /\ t \in Indexes /\ t \in 1 .. count /\ count \in Nat /\ count <= Len(groups)
      /\ Len(groups) \in Nat
  BY <1>1, <1>2, CandidateFacts, GroupsFacts DEF SearchTypeOK
<1> HIDE DEF t
<1>5. attempt = Attempt({t})
  BY <1>1, <1>4, TakeIsAttempt DEF Attempt
<1>6. moves = Rebuild(removed) /\ removed \in Seq(Indexes)
  BY <1>1, <1>2 DEF RemovedAreGone, SearchTypeOK
<1>7. left = moves => attempt = moves
  BY <1>1 DEF StillUnrealizable
<1>8. left # moves => /\ list = Append(removed, t) /\ Front(list) = removed
                      /\ list \in Seq(Indexes)
                      /\ attempt = Rebuild(list)
  <2> SUFFICES ASSUME left # moves
               PROVE  /\ list = Append(removed, t) /\ Front(list) = removed
                      /\ list \in Seq(Indexes) /\ attempt = Rebuild(list)
    OBVIOUS
  <2>1. list = Append(removed, t)
    BY DEF Note
  <2>2. Front(Append(removed, t)) = removed /\ Append(removed, t) \in Seq(Indexes)
    BY <1>4, <1>6, FrontOfAppend
  <2>3. moves[groups[t].state] # {groups[t].option}
    <3>1. CASE moves[groups[t].state] = {groups[t].option}
      <4>1. moves \in Moves /\ groups \in Seq(Group) /\ t \in DOMAIN groups
        BY <1>1, <1>4, GroupsFacts DEF SearchTypeOK, Indexes
      <4>2. OneTaken(moves, groups[t].state, groups[t].option, left)
        BY <4>1, TakeEffect
      <4> HIDE DEF left
      <4>3. \A u \in State : left[u] = moves[u]
        BY <3>1, <4>2 DEF OneTaken
      <4>4. left = moves
        BY <4>1, <4>2, <4>3 DEF OneTaken, Moves
      <4> QED
        BY <4>4
    <3> QED
      BY <3>1
  <2>4. attempt = Rebuild(Append(removed, t))
    BY <1>1, <1>4, <1>6, <2>3, RebuildAppended
  <2> QED
    BY <2>1, <2>2, <2>4
<1> HIDE DEF left, list, attempt
<1>9. CASE M!Realizable(game, attempt)
  <2>1. left # moves
    BY <1>1, <1>7, <1>9 DEF StillUnrealizable
  <2>2. removed' = removed /\ moves' = moves
    BY <1>3, <1>6, <1>8, <1>9, <2>1
  <2>3. SearchTypeOK'
    <3>1. count' \in 0 .. Len(groups)
      BY <1>2, <1>4
    <3> QED
      BY <1>1, <1>2, <2>2, <3>1 DEF SearchTypeOK, Indexes
  <2>4. StillUnrealizable' /\ BitsMatchAutomaton' /\ EnoughGroups' /\ ComplementsTried'
    BY <1>2, <2>2 DEF DiagnosisInv, StillUnrealizable, BitsMatchAutomaton, EnoughGroups, ComplementsTried
  <2>5. RemovedAreGone'
    BY <1>1, <1>2, <2>2, Zenon DEF RemovedAreGone, Rebuild
  <2>6. ASSUME NEW u \in Indexes, u > count',
               groups[u].option \in moves[groups[u].state],
               moves[groups[u].state] # {groups[u].option}
        PROVE  M!Realizable(game, M!Without(moves, groups[u].state, groups[u].option))
    <3>1. CASE u = t
      BY <1>1, <1>5, <1>9, <2>6, <3>1, WithoutIsAttempt
    <3>2. CASE u # t
      <4>1. u > t
        BY <1>1, <1>2, <1>4, <2>6, <3>2, GroupsFacts
      <4> QED
        BY <1>2, <2>6, <4>1, GroupsAboveCandidate DEF t
    <3> QED
      BY <3>1, <3>2
  <2>7. GroupsTried'
    BY <1>2, <2>2, <2>6 DEF GroupsTried, Indexes
  <2> QED
    BY <1>2, <2>2, <2>3, <2>4, <2>5, <2>7 DEF DiagnosisInv, GoodStep
<1>10. CASE ~M!Realizable(game, attempt)
  <2>1. removed' = list /\ moves' = Attempt({t})
    BY <1>3, <1>5, <1>10
  <2>2. list \in Seq(Indexes) /\ moves' = Rebuild(list)
    <3>1. CASE left = moves
      <4>1. list = removed
        BY <3>1 DEF list, Note
      <4> QED
        BY <1>5, <1>6, <1>7, <2>1, <3>1, <4>1
    <3>2. CASE left # moves
      BY <1>5, <1>8, <2>1, <3>2
    <3> QED
      BY <3>1, <3>2
  <2>3. SearchTypeOK'
    <3>1. count' \in 0 .. Len(groups)
      BY <1>2, <1>4
    <3>2. moves' \in Moves
      BY <1>1, <2>1, AttemptIsPart
    <3> QED
      BY <1>1, <1>2, <2>1, <2>2, <3>1, <3>2 DEF SearchTypeOK, Indexes
  <2>4. StillUnrealizable'
    BY <1>1, <1>2, <1>5, <1>10, <2>1, AttemptStaysUnrealizable
  <2>5. BitsMatchAutomaton' /\ EnoughGroups' /\ ComplementsTried'
    BY <1>2 DEF DiagnosisInv, BitsMatchAutomaton, EnoughGroups, ComplementsTried
  <2>6. RemovedAreGone'
    BY <1>2, <2>1, <2>2, Zenon DEF RemovedAreGone, Rebuild
  <2>7. ASSUME NEW u \in Indexes, u > count',
               groups[u].option \in moves'[groups[u].state],
               moves'[groups[u].state] # {groups[u].option}
        PROVE  M!Realizable(game, M!Without(moves', groups[u].state, groups[u].option))
    <3>1. u # t
      BY <1>1, <1>4, <2>1, <2>7, TakenGroupsAreGone
    <3>2. u > t
      BY <1>1, <1>2, <1>4, <2>7, <3>1, GroupsFacts
    <3>3. groups[u].state \in State
      <4>1. groups[u] \in Group
        BY <1>1, GroupsFacts, LenProperties DEF Indexes
      <4> QED
        BY <4>1 DEF Group
    <3>4. moves'[groups[u].state] \subseteq moves[groups[u].state]
      BY <1>1, <2>1, <3>3, AttemptIsPart DEF PartOf
    <3>5. groups[u].option \in moves[groups[u].state] /\ moves[groups[u].state] # {groups[u].option}
      BY <2>7, <3>4
    <3>6. M!Realizable(game, M!Without(moves, groups[u].state, groups[u].option))
      BY <1>2, <3>2, <3>5, GroupsAboveCandidate DEF t
    <3>7. CASE moves' = moves
      BY <3>6, <3>7
    <3>8. CASE moves' # moves
      BY <1>1, <1>4, <2>1, <2>7, <3>6, <3>8, TriedGroupsStayTried
    <3> QED
      BY <3>7, <3>8
  <2>8. GroupsTried'
    BY <1>2, <2>7 DEF GroupsTried, Indexes
  <2>9. M!Next \/ UNCHANGED <<game, moves, ended>>
    BY <1>1, <1>2, <1>5, <1>10, <2>1, AttemptReduces
  <2> QED
    BY <1>2, <2>3, <2>4, <2>5, <2>6, <2>8, <2>9 DEF DiagnosisInv, GoodStep
<1> QED
  BY <1>9, <1>10

LEMMA LinearEndStep ==
  ASSUME DiagnosisInv, LinearEnd
  PROVE  GoodStep
<1>1. SearchTypeOK /\ StillUnrealizable
  BY DEF DiagnosisInv
<1>2. /\ search = "linear" /\ ~ended /\ Candidate = 0 /\ ended' = TRUE
      /\ UNCHANGED <<game, groups, search, count, removed, kept, partitions, phase, other_next,
                     last, tried>>
  BY DEF LinearEnd, dd_vars
<1>3. moves' = moves
  BY <1>1 DEF LinearEnd, StillUnrealizable
<1>4. SearchTypeOK'
  BY <1>1, <1>2, <1>3 DEF SearchTypeOK, Indexes
<1>5. StillUnrealizable' /\ BitsMatchAutomaton' /\ EnoughGroups' /\ ComplementsTried' /\ GroupsTried'
  BY <1>2, <1>3 DEF DiagnosisInv, StillUnrealizable, BitsMatchAutomaton, EnoughGroups,
                    ComplementsTried, GroupsTried, Indexes
<1>6. RemovedAreGone'
  BY <1>2, <1>3, Zenon DEF DiagnosisInv, RemovedAreGone, Rebuild
<1>7. M!IsMinimal(game, moves)
  <2> SUFFICES ASSUME NEW s \in State, NEW o \in moves[s], moves[s] # {o}
               PROVE  M!Realizable(game, M!Without(moves, s, o))
    BY DEF M!IsMinimal
  <2>1. PICK t \in Indexes : groups[t].state = s /\ groups[t].option = o
    BY <1>1, OptionHasGroup
  <2>2. t > Candidate
    BY <1>1, <1>2, GroupsFacts
  <2> QED
    BY <1>2, <2>1, <2>2, GroupsAboveCandidate
<1>8. M!Finish
  BY <1>2, <1>3, <1>7 DEF M!Finish
<1> QED
  BY <1>2, <1>4, <1>5, <1>6, <1>8 DEF DiagnosisInv, GoodStep, M!Next

-----------------------------------------------------------------------------
LEMMA Step ==
  ASSUME DiagnosisInv, [Next]_vars
  PROVE  GoodStep
<1>1. CASE UNCHANGED vars
  <2>1. UNCHANGED <<game, groups, search, moves, count, removed, kept, partitions, phase,
                    other_next, last, tried, ended>>
    BY <1>1 DEF vars, dd_vars
  <2>2. SearchTypeOK' /\ StillUnrealizable' /\ BitsMatchAutomaton' /\ EnoughGroups'
    BY <2>1 DEF DiagnosisInv, SearchTypeOK, StillUnrealizable, BitsMatchAutomaton, EnoughGroups, Indexes
  <2>3. ComplementsTried' /\ GroupsTried'
    BY <2>1 DEF DiagnosisInv, ComplementsTried, GroupsTried, Attempt, Indexes
  <2>4. RemovedAreGone'
    BY <2>1, Zenon DEF DiagnosisInv, RemovedAreGone, Rebuild
  <2> QED
    BY <2>1, <2>2, <2>3, <2>4 DEF DiagnosisInv, GoodStep
<1> QED
  BY <1>1, LinearStepStep, LinearEndStep, TryPartitionStep, OtherLoopStep, RefineStep,
     ConcludeStep DEF Next

\* The inductive invariant of both searches: the groups taken are exactly those noted, the
\* bits match the automaton, and what was tried in vain stays needed.
THEOREM DiagnosisInvariant == Spec => []DiagnosisInv
<1>1. DiagnosisInv /\ [Next]_vars => DiagnosisInv'
  BY Step DEF GoodStep
<1> QED
  BY InitInvariant, <1>1, PTL DEF Spec

\* The searches keep their counters and positions in range.
THEOREM DiagnosisTypeCorrect == Spec => []DiagnosisTypeOK
<1>1. DiagnosisInv => DiagnosisTypeOK
  <2> SUFFICES ASSUME DiagnosisInv PROVE DiagnosisTypeOK
    OBVIOUS
  <2>1. SearchTypeOK
    BY DEF DiagnosisInv
  <2>2. ToSet(removed) \subseteq Indexes
    BY <2>1, LenProperties DEF SearchTypeOK, ToSet
  <2> QED
    BY <2>1, <2>2 DEF SearchTypeOK, DiagnosisTypeOK, Moves
<1> QED
  BY DiagnosisInvariant, <1>1, PTL

\* The bit vector of the delta debugging says what the automaton still has.
THEOREM BitsMatch == Spec => []BitsMatchAutomaton
<1>1. DiagnosisInv => BitsMatchAutomaton
  BY DEF DiagnosisInv
<1> QED
  BY DiagnosisInvariant, <1>1, PTL

\* The delta debugging is never repaired by a linear search.
THEOREM NoFallback == Spec => NeverFallsBack
<1>1. DiagnosisInv /\ [Next]_vars => [search' = search]_vars
  BY Step DEF GoodStep
<1> QED
  BY DiagnosisInvariant, <1>1, PTL DEF Spec, NeverFallsBack

\* Both searches take options away while the game stays unrealizable, leave one where a
\* reached state had one, and end with a minimal unrealizable part.
THEOREM DiagnosisImplementsMinimisation == Spec => ImplementsMinimisation
<1>1. Init => M!Init
  <2> SUFFICES ASSUME Init PROVE M!Init
    OBVIOUS
  <2>1. game \in Games /\ moves = Master(game) /\ ended = FALSE /\ ~M!Realizable(game, Master(game))
    BY DEF Init
  <2>2. game \in M!Game
    <3>1. M!Game = Game
      BY DEF Game, M!Game, Option, M!Option, Goal, M!Goal, AssumptionIndex, M!AssumptionIndex
    <3> QED
      BY <2>1, <3>1, GamesAssumption
  <2>3. moves = M!CleanUp(game.moves)
    BY <2>1 DEF Master
  <2>4. ~M!Realizable(game, moves)
    BY <2>1
  <2> QED
    BY <2>1, <2>2, <2>3, <2>4, Zenon DEF M!Init
<1>2. DiagnosisInv /\ [Next]_vars => [M!Next]_(M!vars)
  BY Step DEF GoodStep, M!vars
<1> QED
  BY DiagnosisInvariant, <1>1, <1>2, PTL DEF Spec, ImplementsMinimisation, M!Spec

=============================================================================
