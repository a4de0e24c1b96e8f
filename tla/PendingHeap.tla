----------------------------- MODULE PendingHeap -----------------------------
(****************************************************************************)
(* The max heap of pending states in max_heap.c.  Entries stay where they   *)
(* were written in values; values_ptrs[i] is the slot of the entry at       *)
(* position i of the heap, and positions from count on hold the free slots. *)
(****************************************************************************)
EXTENDS Integers, FiniteSets, Sequences

LIST_INCREASE_FACTOR == 2

\* A slot of values that malloc or realloc left uninitialized.
Uninitialized == [state |-> {}]

Parent(i) == (i - 1) \div 2
LeftChild(i) == 2 * i + 1
RightChild(i) == 2 * i + 2

\* automaton_pending_state_compare, for entries of any order relation.
Compare(left, right) ==
  IF left.assumption > right.assumption THEN 1
  ELSE IF left.value > right.value THEN 1
  ELSE IF left.value < right.value THEN -1
  ELSE IF left.timestamp > right.timestamp THEN 1
  ELSE IF left.timestamp < right.timestamp THEN -1
  ELSE 0

EmptyHeap(size) ==
  [values      |-> [slot \in 0 .. size - 1 |-> Uninitialized],
   values_ptrs |-> [i \in 0 .. size - 1 |-> i],
   size        |-> size,
   count       |-> 0]

EntryAt(heap, i) == heap.values[heap.values_ptrs[i]]
Entries(heap) == {EntryAt(heap, i) : i \in 0 .. heap.count - 1}

Swap(heap, i, k) ==
  [heap EXCEPT !.values_ptrs = [@ EXCEPT ![i] = heap.values_ptrs[k],
                                         ![k] = heap.values_ptrs[i]]]

\* Mutant: the right child is not looked at.
LargestOfLeft(heap, i) ==
  LET left == LeftChild(i)
  IN  IF left < heap.count /\ Compare(EntryAt(heap, left), EntryAt(heap, i)) > 0
      THEN left ELSE i

\* The child, or i itself, that heapify moves to position i: left before right.
Largest(heap, i) ==
  LET Wins(child, other) ==
        child < heap.count /\ Compare(EntryAt(heap, child), EntryAt(heap, other)) > 0
      first == IF Wins(LeftChild(i), i) THEN LeftChild(i) ELSE i
  IN  IF Wins(RightChild(i), first) THEN RightChild(i) ELSE first

\* One turn of heapify: the heap and the position reached, the entry there swapped down.
Sink(work) ==
  LET largest == Largest(work.heap, work.at)
  IN  IF largest = work.at THEN work
      ELSE [heap |-> Swap(work.heap, work.at, largest), at |-> largest]

\* automaton_pending_state_max_heap_heapify from position 0.
Heapify(heap) ==
  LET down[n \in Nat] ==   \* the heap and the position reached after n turns
        IF n = 0 THEN [heap |-> heap, at |-> 0] ELSE Sink(down[n - 1])
  IN  down[heap.count].heap

\* The resize of automaton_pending_state_max_heap_add_entry: realloc keeps the entries.
Grow(heap) ==
  LET new_size == heap.size * LIST_INCREASE_FACTOR
      Kept(i) == i < heap.size
  IN  [values      |-> [i \in 0 .. new_size - 1 |->
                          IF Kept(i) THEN heap.values[i] ELSE Uninitialized],
       values_ptrs |-> [i \in 0 .. new_size - 1 |->
                          IF Kept(i) THEN heap.values_ptrs[i] ELSE i],
       size        |-> new_size,
       count       |-> heap.count]

\* The heap with entry written at its end, not yet moved up.
Appended(heap, entry) ==
  LET room == IF heap.count = heap.size THEN Grow(heap) ELSE heap
      slot == room.values_ptrs[room.count]
  IN  [values      |-> [room.values EXCEPT ![slot] = entry],
       values_ptrs |-> room.values_ptrs,
       size        |-> room.size,
       count       |-> room.count + 1]

\* One turn of the loop that moves entry up, from the position reached.
Rise(work, entry) ==
  LET parent == Parent(work.at)
  IN  IF work.at > 0 /\ Compare(entry, EntryAt(work.heap, parent)) > 0
      THEN [heap |-> Swap(work.heap, work.at, parent), at |-> parent]
      ELSE work

\* automaton_pending_state_max_heap_add_entry.
AddEntry(heap, entry) ==
  LET up[n \in Nat] ==     \* the heap and the position reached after n turns
        IF n = 0 THEN [heap |-> Appended(heap, entry), at |-> heap.count]
        ELSE Rise(up[n - 1], entry)
  IN  up[heap.count].heap

\* automaton_pending_state_max_heap_pop_entry: the entry, and the heap that remains.
PoppedEntry(heap) == EntryAt(heap, 0)
PopEntry(heap) ==
  Heapify([Swap(heap, 0, heap.count - 1) EXCEPT !.count = @ - 1])

-----------------------------------------------------------------------------
\* No two positions share a slot: an add never overwrites a pending entry.
SlotsAreDistinct(heap) ==
  {heap.values_ptrs[i] : i \in 0 .. heap.size - 1} = 0 .. heap.size - 1

\* "The heap property is never violated": no entry compares above its parent.
HeapOrdered(heap) ==
  \A i \in 1 .. heap.count - 1 :
    Compare(EntryAt(heap, i), EntryAt(heap, Parent(i))) <= 0

=============================================================================
