----------------------------- MODULE GR1Worklist -----------------------------
(****************************************************************************)
(* The stabilisation loop of automaton_get_gr1_strategy with its worklist:  *)
(* pending_list, the heap that orders the pending pairs, and key_lists, the *)
(* pairs known to be in it.  An iteration of the loop is one step.          *)
(*                                                                          *)
(* The order of inverted_transitions and the numbering of the states are    *)
(* those of the automaton, which may be any: a step takes every order.      *)
(****************************************************************************)
EXTENDS GR1Game, PendingHeap, SequencesExt

CONSTANTS
  Games,              \* the games the loop may be started on
  INITIAL_HEAP_SIZE

ASSUME WorklistAssumption == Games \subseteq Game /\ INITIAL_HEAP_SIZE \in Nat \ {0}

VARIABLES
  game,               \* game_automaton, with its assumptions and guarantees
  rank,               \* ranking_list
  pending_list,       \* the heap
  key_lists,          \* goal -> the states with an entry in the key list
  pending_processed   \* iterations so far, the timestamp of new entries

vars == <<game, rank, pending_list, key_lists, pending_processed>>

\* The pairs in the heap.
Pending == {<<e.state, e.goal>> : e \in Entries(pending_list)}

Ranking == INSTANCE GR1Ranking WITH pending <- Pending

PendingState(s, j, r, timestamp) ==
  [state |-> s, goal |-> j, value |-> r.value, assumption |-> r.assumption,
   timestamp |-> timestamp]

\* Mutant: the key is not looked up.
AddAlways(work, entry) ==
  [heap |-> AddEntry(work.heap, entry),
   keys |-> [work.keys EXCEPT ![entry.goal] = @ \cup {entry.state}]]

\* The heap and the key lists, with the entry unless the key lists have its key.
AddUnlessKnown(work, entry) ==
  IF entry.state \in work.keys[entry.goal] THEN work
  ELSE [heap |-> AddEntry(work.heap, entry),
        keys |-> [work.keys EXCEPT ![entry.goal] = @ \cup {entry.state}]]

(****************************************************************************)
(* The entry of (u, j) gets its rank; an infinite one has an arbitrary      *)
(* assumption, stale.                                                       *)
(****************************************************************************)
SeenRank(R, stale, u, j) ==
  IF IsInfinite(R[j][u]) THEN [R[j][u] EXCEPT !.assumption = stale[u]] ELSE R[j][u]

(****************************************************************************)
(* automaton_add_unstable_predecessors for goal j.  An entry that exists    *)
(* keeps its place: only its copy in the key list, which nobody reads, gets *)
(* the new rank.                                                            *)
(****************************************************************************)
AddPredecessors(work, order, j, R, stale, timestamp) ==
  FoldLeft(LAMBDA w, u : AddUnlessKnown(w, PendingState(u, j, SeenRank(R, stale, u, j), timestamp)),
           work, order)

MayNeedLift(g, p) ==
  /\ ~IsDeadlock(g, p[1])
  /\ SatisfiesAssumption(g, p[1], FirstAssumption)
  /\ \E l \in Goal : ~SatisfiesGuarantee(g, p[1], l)

\* The body of the first loop: the pair is added when it may need a lift at once.
AddFirst(g, work, p) ==
  IF MayNeedLift(g, p) THEN AddUnlessKnown(work, PendingState(p[1], p[2], InitialRank, 0)) ELSE work

\* The body of the second loop: the predecessors of a deadlock are added.
AddBeforeDeadlock(g, InverseOrder, stale, work, p) ==
  IF IsDeadlock(g, p[1])
  THEN AddPredecessors(work, InverseOrder[p[1]], p[2], Ranking!InitialRanking(g), stale, 0)
  ELSE work

\* The pairs in the order of the nested loops over states and goals.
PairsInOrder(order) ==
  [n \in 1 .. Len(order) * GuaranteesCount |->
     <<order[(n - 1) \div GuaranteesCount + 1], (n - 1) % GuaranteesCount>>]

EmptyWork ==
  [heap |-> EmptyHeap(INITIAL_HEAP_SIZE), keys |-> [j \in Goal |-> {}]]

\* The pairs that may need a lift at once, then the predecessors of deadlocks.
InitialWork(g, order, InverseOrder, stale) ==
  FoldLeft(LAMBDA w, p : AddBeforeDeadlock(g, InverseOrder, stale, w, p),
           FoldLeft(LAMBDA w, p : AddFirst(g, w, p), EmptyWork, PairsInOrder(order)),
           PairsInOrder(order))

StaleAssumption == [State -> 0 .. LastAssumption]

\* The orders of the transitions that enter s, by the state they come from.
InverseOrders(g, s) == SetToSeqs(Predecessors(g, s))

Init ==
  /\ game \in Games
  /\ rank = Ranking!InitialRanking(game)
  /\ \E order \in SetToSeqs(State), stale \in StaleAssumption :
       \E InverseOrder \in [State -> UNION {InverseOrders(game, s) : s \in State}] :
         /\ \A s \in State : InverseOrder[s] \in InverseOrders(game, s)
         /\ LET work == InitialWork(game, order, InverseOrder, stale)
            IN  pending_list = work.heap /\ key_lists = work.keys
  /\ pending_processed = 0

\* The pair the iteration works on, popped from the heap and from its key list.
Popped == PoppedEntry(pending_list)
\* Mutant: the key of the popped pair stays.
RemainingWithKey == [heap |-> PopEntry(pending_list), keys |-> key_lists]
Remaining ==
  [heap |-> PopEntry(pending_list),
   keys |-> [key_lists EXCEPT ![Popped.goal] = @ \ {Popped.state}]]

Become(work) == pending_list' = work.heap /\ key_lists' = work.keys

\* The popped pair has lost already, or needs no lift.
Skip ==
  /\ \/ IsInfinite(rank[Popped.goal][Popped.state])
     \/ IsStable(game, rank, Popped.state, Popped.goal)
  /\ Become(Remaining)
  /\ UNCHANGED <<game, rank>>

Goals == [n \in 1 .. GuaranteesCount |-> n - 1]

\* The rankings once the popped pair is lifted to new: infinity is for all goals.
Lifted(s, j, new) ==
  IF IsInfinite(new) THEN [i \in Goal |-> [rank[i] EXCEPT ![s] = Infinite]]
  ELSE [rank EXCEPT ![j][s] = new]

\* The body of the loop over the other goals of a state that has lost.
SpreadInfinity(order, j, R, stale, timestamp, work, i) ==
  IF i = j THEN work ELSE AddPredecessors(work, order, i, R, stale, timestamp)

\* The predecessors for the goals other than j.
AddForOthers(work, order, j, R, stale, timestamp) ==
  FoldLeft(LAMBDA w, i : SpreadInfinity(order, j, R, stale, timestamp, w, i), work, Goals)

\* The popped pair is lifted; a state that loses for its goal loses for all.
Lift ==
  LET s == Popped.state
      j == Popped.goal
      new == Update(game, rank, s, j)
      lifted == Lifted(s, j, new)
  IN  /\ ~IsInfinite(rank[j][s])
      /\ ~IsStable(game, rank, s, j)
      /\ rank' = lifted
      /\ \E order \in InverseOrders(game, s), stale \in StaleAssumption :
           LET now == pending_processed
               added == AddPredecessors(Remaining, order, j, lifted, stale, now)
           IN  Become(IF IsInfinite(new) THEN AddForOthers(added, order, j, lifted, stale, now)
                      ELSE added)
      /\ UNCHANGED game

Next ==
  /\ pending_list.count > 0
  /\ Skip \/ Lift
  /\ pending_processed' = pending_processed + 1

Spec == Init /\ [][Next]_vars

-----------------------------------------------------------------------------
\* The heap and the ranking loop's variables have the shape the code gives them.
TypeOK ==
  /\ Ranking!TypeOK
  /\ key_lists \in [Goal -> SUBSET State]
  /\ pending_processed \in Nat
  /\ pending_list.count \in 0 .. pending_list.size
  /\ DOMAIN pending_list.values = 0 .. pending_list.size - 1
  /\ DOMAIN pending_list.values_ptrs = 0 .. pending_list.size - 1

\* Every pair in the heap is there once, and the key lists know exactly those:
\* the lookup that follows a pop never misses ("why are we getting a NULL at state
\* location"), and a pair that is not pending can be added again.  Popping, adding and
\* growing the heap never make two positions share a slot, which would lose a pair.
HeapMatchesKeys ==
  /\ SlotsAreDistinct(pending_list)
  /\ Pending = {p \in State \X Goal : p[1] \in key_lists[p[2]]}
  /\ Cardinality(Pending) = pending_list.count

\* "The heap property is never violated": no entry compares above its parent.
HeapPropertyKept == HeapOrdered(pending_list)

\* The loop with the heap is the loop with the set, whatever the heap's order.
ImplementsRanking ==
  /\ rank = Ranking!InitialRanking(game)
  /\ Pending = Ranking!InitialPending(game)
  /\ [][Ranking!Next]_(Ranking!vars)

=============================================================================
