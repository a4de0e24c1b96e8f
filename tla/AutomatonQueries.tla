--------------------------- MODULE AutomatonQueries ---------------------------
(****************************************************************************)
(* What automaton.c and automaton_diagnosis.c compute from an automaton     *)
(* without changing it: distances from a state, traces to the deadlocks,    *)
(* and whether two automata are equivalent.                                 *)
(****************************************************************************)
EXTENDS AutomatonSignals

DISTANCE_BUCKET_SIZE == 1000
ASSUME DistanceAssumption == StatesCount <= DISTANCE_BUCKET_SIZE

(****************************************************************************)
(* The search from a state.  The pending states are in a bucket list; with  *)
(* one state per bucket, a bucket is the number of its copies: the list     *)
(* tells entries apart by their address, so it refuses none.  Pop takes     *)
(* from the bucket last added to and, once it is empty, from the first one. *)
(****************************************************************************)
NoneFound == [s \in State |-> 0]

AddEntry(list, s) == [entries |-> [list.entries EXCEPT ![s] = @ + 1], last |-> s]

PopEntry(list) ==
  LET entries == [list.entries EXCEPT ![list.last] = @ - 1]
      left == {s \in State : entries[s] > 0}
  IN  [entries |-> entries,
       last    |-> IF entries[list.last] > 0 \/ left = {} THEN list.last ELSE Min(left)]

Discover(search, t) ==
  IF t.state_to \in search.visited THEN search
  ELSE [search EXCEPT !.pending = AddEntry(@, t.state_to),
                      !.visited_through[t.state_to] = t.state_from]

\* The number of a predecessor, not its distance, is compared with the best distance.
MinDistance(aut, search, s) ==
  FoldLeft(LAMBDA min, t : IF /\ t.state_from \in search.visited
                              /\ min = 0 \/ t.state_from + 1 < min
                           THEN search.distances[t.state_from] + 1 ELSE min,
           0, In(aut, s))

Visit(aut, search, s) ==
  LET marked == [search EXCEPT !.visited = @ \cup {s}]
      measured == [marked EXCEPT
                     !.distances[s] = MinDistance(aut, marked, s),
                     !.deadlocks = IF Out(aut, s) = <<>> THEN Append(@, s) ELSE @]
  IN  FoldLeft(Discover, measured, Out(aut, s))

\* Mutant: a state that is pending twice is visited twice.
TakePendingAgain(aut, search) ==
  IF \A s \in State : search.pending.entries[s] = 0 THEN search
  ELSE LET s == search.pending.last
       IN  Visit(aut, [search EXCEPT !.pending = PopEntry(@)], s)

TakePending(aut, search) ==
  IF \A s \in State : search.pending.entries[s] = 0 THEN search
  ELSE LET s == search.pending.last
           taken == [search EXCEPT !.pending = PopEntry(@)]
       IN  IF s \in search.visited THEN taken ELSE Visit(aut, taken, s)

\* Every transition is discovered once at most.
SearchFrom(aut, state) ==
  LET start == [visited         |-> {state},
                distances       |-> NoneFound,
                visited_through |-> NoneFound,
                deadlocks       |-> <<>>,
                pending         |-> [entries |-> NoneFound, last |-> 0]]
      search[n \in Nat] == IF n = 0 THEN FoldLeft(Discover, start, Out(aut, state))
                           ELSE TakePending(aut, search[n - 1])
  IN  search[aut.composite_count]

DistanceToState(aut, state) == SearchFrom(aut, state).distances

TracesToDeadlock(aut, state) ==
  LET search == SearchFrom(aut, state)
      TraceTo(deadlock) ==
        LET length == search.distances[deadlock] + 1
            back[j \in 1 .. length] ==
              IF j = length THEN deadlock ELSE search.visited_through[back[j + 1]]
        IN  [j \in 1 .. length |-> back[j]]
  IN  [i \in DOMAIN search.deadlocks |-> TraceTo(search.deadlocks[i])]

-----------------------------------------------------------------------------
(****************************************************************************)
(* Equivalence, meant for deterministic minimal automata.  Pairs of states  *)
(* are explored depth first, each left state with the first right state it  *)
(* is met with.                                                             *)
(****************************************************************************)
SameSignals(t, u) == t.signals \ {InputBit} = u.signals \ {InputBit}

\* Mutant: the numbers of transitions of the targets are not compared.
DegreesUnchecked(left, right, t, u) == TRUE

DegreesAgree(left, right, t, u) == Len(Out(left, t.state_to)) = Len(Out(right, u.state_to))

\* Compare a pair of states: every left transition finds a right one with its signals.
ComparePair(left, right, walk, pair) ==
  LET processed == walk.processed \cup {pair[1]}
      Match(w, t) ==
        LET k == SelectInSeq(Out(right, pair[2]), LAMBDA u : SameSignals(t, u))
            u == Out(right, pair[2])[k]
        IN  CASE w.mismatch \/ k = 0 -> [w EXCEPT !.mismatch = TRUE]
              [] t.state_to \in processed -> w
              [] OTHER ->
                   IF DegreesAgree(left, right, t, u)
                   THEN [w EXCEPT !.frontier = Append(@, <<t.state_to, u.state_to>>)]
                   ELSE [w EXCEPT !.mismatch = TRUE]
  IN  FoldLeft(Match, [walk EXCEPT !.processed = processed], Out(left, pair[1]))

NextPair(left, right, walk) ==
  IF walk.frontier = <<>> \/ walk.mismatch THEN walk
  ELSE LET taken == [walk EXCEPT !.frontier = Front(@)]
           pair == Last(walk.frontier)
       IN  IF pair[1] \in walk.processed THEN taken ELSE ComparePair(left, right, taken, pair)

AreEquivalent(left, right) ==
  LET start == [processed |-> {}, frontier |-> <<<<InitialState, InitialState>>>>,
                mismatch |-> FALSE]
      walk[n \in Nat] == IF n = 0 THEN start ELSE NextPair(left, right, walk[n - 1])
  IN  /\ Len(Out(left, InitialState)) = Len(Out(right, InitialState))
      /\ IF left.composite_count = 0 \/ right.composite_count = 0
         THEN left.composite_count = right.composite_count
         ELSE ~ walk[left.composite_count + 1].mismatch

-----------------------------------------------------------------------------
\* The distances tell the states the initial one leads to, and each of those that is a
\* deadlock gets one trace.  A trace may be cut or padded with initial states in front,
\* as the distances are not the shortest, but it follows transitions to its deadlock.
DeadlocksAreTraced ==
  \A distances \in {DistanceToState(automaton, InitialState)},
     traces \in {TracesToDeadlock(automaton, InitialState)} :
  LET distant == Distant(automaton, InitialState)
      IsStep(s, u) == \E t \in ToSet(Out(automaton, s)) : t.state_to = u
  IN  /\ {s \in State : distances[s] # 0} = distant
      /\ Len(traces) = Cardinality({s \in distant : Out(automaton, s) = <<>>})
      /\ {Last(traces[i]) : i \in DOMAIN traces} = {s \in distant : Out(automaton, s) = <<>>}
      /\ \A i \in DOMAIN traces : \A j \in 2 .. Len(traces[i]) :
           \/ IsStep(traces[i][j - 1], traces[i][j])
           \/ \A k \in 1 .. j : traces[i][k] = InitialState

\* The reference, for deterministic automata: states reached by the same steps of both
\* offer the same steps.  No two states need more steps to meet than there are pairs.
BehaveAlike(left, right) ==
  LET Offered(aut, s) == {t.signals \ {InputBit} : t \in ToSet(Out(aut, s))}
      Steps(p) == {<<t, u>> \in ToSet(Out(left, p[1])) \X ToSet(Out(right, p[2])) : SameSignals(t, u)}
      Reach(pairs, n) == pairs \cup {<<step[1].state_to, step[2].state_to>> : step \in UNION {Steps(p) : p \in pairs}}
      met == FoldLeft(Reach, {<<InitialState, InitialState>>}, [n \in 1 .. StatesCount * StatesCount |-> n])
  IN  \A p \in met : Offered(left, p[1]) = Offered(right, p[2])

IsDeterministic(aut) ==
  \A s \in State : \A i, k \in DOMAIN Out(aut, s) :
    SameSignals(Out(aut, s)[i], Out(aut, s)[k]) => i = k
IsConnected(aut) ==
  \A s \in State \ (Distant(aut, InitialState) \cup {InitialState}) : Out(aut, s) = <<>>
IsTree(aut) == In(aut, InitialState) = <<>> /\ \A s \in State : Len(In(aut, s)) <= 1

\* The automata one change away: a transition more, a transition less, another target.
Neighbours(aut) ==
  {AddTransition(aut, t) : t \in Transition} \cup {RemoveTransition(aut, t) : t \in All(aut)}
    \cup {AddTransition(RemoveTransition(aut, t), [t EXCEPT !.state_to = s]) :
            t \in All(aut), s \in State}

\* Deterministic automata that behave alike are judged equivalent, and those judged
\* equivalent behave alike when the left one is a tree.  (A state of the left one that is
\* entered twice is compared with one of the two states on the right only.)
EquivalenceIsDecided ==
  (IsDeterministic(automaton) /\ IsConnected(automaton)) =>
    \A right \in {a \in Neighbours(automaton) : IsDeterministic(a) /\ IsConnected(a)} :
      /\ BehaveAlike(automaton, right) => AreEquivalent(automaton, right)
      /\ IsTree(automaton) /\ AreEquivalent(automaton, right) => BehaveAlike(automaton, right)

=============================================================================
