--------------------------- MODULE GR1WorklistProofs ---------------------------
(****************************************************************************)
(* The heap and the key lists of the stabilisation loop, for every game,    *)
(* every order of the transitions and every size of the heap.               *)
(****************************************************************************)
EXTENDS GR1Worklist, GR1GameLemmas

-----------------------------------------------------------------------------
(****************************************************************************)
(* The heap.  Every position has a slot of its own and every slot a         *)
(* position; the slots in use are those of the positions below count.       *)
(****************************************************************************)
HeapShape(h) ==
  /\ h = [values |-> h.values, values_ptrs |-> h.values_ptrs,
          size |-> h.size, count |-> h.count]
  /\ h.size \in Nat \ {0} /\ h.count \in 0 .. h.size
  /\ h.values = [slot \in 0 .. h.size - 1 |-> h.values[slot]]
  /\ h.values_ptrs \in [0 .. h.size - 1 -> 0 .. h.size - 1]
  /\ \A i, k \in 0 .. h.size - 1 : h.values_ptrs[i] = h.values_ptrs[k] => i = k
  /\ \A slot \in 0 .. h.size - 1 : \E i \in 0 .. h.size - 1 : h.values_ptrs[i] = slot

SlotsInUse(h) == {h.values_ptrs[i] : i \in 0 .. h.count - 1}

\* The heap d has the entries of h in the same slots, in any order of positions.
Rearranged(h, d) ==
  /\ HeapShape(d)
  /\ d.values = h.values /\ d.size = h.size /\ d.count = h.count
  /\ SlotsInUse(d) = SlotsInUse(h)

\* A record with these fields has the shape of a heap.
LEMMA MadeHeap ==
  ASSUME NEW size \in Nat \ {0}, NEW count \in 0 .. size,
         NEW values, values = [slot \in 0 .. size - 1 |-> values[slot]],
         NEW ptrs \in [0 .. size - 1 -> 0 .. size - 1],
         \A i, k \in 0 .. size - 1 : ptrs[i] = ptrs[k] => i = k,
         \A slot \in 0 .. size - 1 : \E i \in 0 .. size - 1 : ptrs[i] = slot
  PROVE  HeapShape([values |-> values, values_ptrs |-> ptrs, size |-> size, count |-> count])
BY DEF HeapShape

\* The fields of d when it is h with two positions exchanged.
SwapEffect(h, i, k, d) ==
  /\ d = [values |-> h.values, values_ptrs |-> d.values_ptrs, size |-> h.size, count |-> h.count]
  /\ d.values_ptrs \in [0 .. h.size - 1 -> 0 .. h.size - 1]
  /\ \A m \in 0 .. h.size - 1 :
       d.values_ptrs[m] = IF m = k THEN h.values_ptrs[i]
                          ELSE IF m = i THEN h.values_ptrs[k] ELSE h.values_ptrs[m]

LEMMA SwapFields ==
  ASSUME NEW h, HeapShape(h), NEW i \in 0 .. h.size - 1, NEW k \in 0 .. h.size - 1
  PROVE  SwapEffect(h, i, k, Swap(h, i, k))
<1> DEFINE d == Swap(h, i, k)
           ptrs == [h.values_ptrs EXCEPT ![i] = h.values_ptrs[k], ![k] = h.values_ptrs[i]]
<1>1. h = [values |-> h.values, values_ptrs |-> h.values_ptrs, size |-> h.size, count |-> h.count]
      /\ h.values_ptrs \in [0 .. h.size - 1 -> 0 .. h.size - 1]
  BY DEF HeapShape
<1>2. d = [values |-> h.values, values_ptrs |-> ptrs, size |-> h.size, count |-> h.count]
  BY <1>1 DEF Swap
<1>3. d.values_ptrs = ptrs
  BY <1>2
<1>4. ptrs \in [0 .. h.size - 1 -> 0 .. h.size - 1]
  BY <1>1
<1> QED
  BY <1>1, <1>2, <1>3, <1>4 DEF SwapEffect

\* Exchanging two positions keeps the shape.
LEMMA SwapShape ==
  ASSUME NEW h, HeapShape(h), NEW i \in 0 .. h.size - 1, NEW k \in 0 .. h.size - 1
  PROVE  HeapShape(Swap(h, i, k))
<1> DEFINE d == Swap(h, i, k)
<1>0. SwapEffect(h, i, k, d)
  BY SwapFields
<1> HIDE DEF d
<1>1. /\ d = [values |-> h.values, values_ptrs |-> d.values_ptrs, size |-> h.size, count |-> h.count]
      /\ d.values_ptrs \in [0 .. h.size - 1 -> 0 .. h.size - 1]
      /\ \A m \in 0 .. h.size - 1 :
           d.values_ptrs[m] = IF m = k THEN h.values_ptrs[i]
                              ELSE IF m = i THEN h.values_ptrs[k] ELSE h.values_ptrs[m]
  BY <1>0 DEF SwapEffect
<1>2. d.values = h.values /\ d.size = h.size /\ d.count = h.count
  BY <1>1
<1>3. \A m, n \in 0 .. h.size - 1 : d.values_ptrs[m] = d.values_ptrs[n] => m = n
  <2>1. \A m, n \in 0 .. h.size - 1 : h.values_ptrs[m] = h.values_ptrs[n] => m = n
    BY DEF HeapShape
  <2> TAKE m, n \in 0 .. h.size - 1
  <2>2. /\ d.values_ptrs[m] = h.values_ptrs[IF m = k THEN i ELSE IF m = i THEN k ELSE m]
        /\ d.values_ptrs[n] = h.values_ptrs[IF n = k THEN i ELSE IF n = i THEN k ELSE n]
    BY <1>1
  <2> QED
    BY <2>1, <2>2
<1>4. ASSUME NEW slot \in 0 .. h.size - 1
      PROVE  \E m \in 0 .. h.size - 1 : d.values_ptrs[m] = slot
  <2>1. PICK n \in 0 .. h.size - 1 : h.values_ptrs[n] = slot
    BY DEF HeapShape
  <2>2. d.values_ptrs[IF n = i THEN k ELSE IF n = k THEN i ELSE n] = slot
    BY <1>1, <2>1
  <2> QED
    BY <2>2
<1>5. HeapShape(d)
  BY <1>1, <1>2, <1>3, <1>4 DEF HeapShape
<1> QED
  BY <1>5 DEF d

\* Exchanging two positions in use rearranges the heap.
LEMMA SwapRearranges ==
  ASSUME NEW h, HeapShape(h), NEW i \in 0 .. h.count - 1, NEW k \in 0 .. h.count - 1
  PROVE  Rearranged(h, Swap(h, i, k))
<1> DEFINE d == Swap(h, i, k)
<1>0. h.count \in Nat /\ h.size \in Nat /\ h.count <= h.size
  BY DEF HeapShape
<1>1. i \in 0 .. h.size - 1 /\ k \in 0 .. h.size - 1
  BY <1>0
<1>2. SwapEffect(h, i, k, d)
  BY <1>1, SwapFields
<1>3. HeapShape(d)
  BY <1>1, SwapShape
<1> HIDE DEF d
<1>4. d.values = h.values /\ d.size = h.size /\ d.count = h.count
  BY <1>2 DEF SwapEffect
<1>5. \A m \in 0 .. h.count - 1 : m \in 0 .. h.size - 1
  BY <1>0
<1>6. ASSUME NEW m \in 0 .. h.count - 1 PROVE d.values_ptrs[m] \in SlotsInUse(h)
  BY <1>2, <1>5 DEF SlotsInUse, SwapEffect
<1>7. ASSUME NEW m \in 0 .. h.count - 1
      PROVE  \E n \in 0 .. h.count - 1 : d.values_ptrs[n] = h.values_ptrs[m]
  <2> DEFINE n == IF m = i THEN k ELSE IF m = k THEN i ELSE m
  <2>1. n \in 0 .. h.count - 1 /\ d.values_ptrs[n] = h.values_ptrs[m]
    BY <1>2, <1>5 DEF SwapEffect
  <2> QED
    BY <2>1
<1>8. SlotsInUse(d) = SlotsInUse(h)
  <2>1. SlotsInUse(d) \subseteq SlotsInUse(h)
    BY <1>4, <1>6 DEF SlotsInUse
  <2>2. SlotsInUse(h) \subseteq SlotsInUse(d)
    BY <1>4, <1>7 DEF SlotsInUse
  <2> QED
    BY <2>1, <2>2
<1>9. Rearranged(h, d)
  BY <1>3, <1>4, <1>8 DEF Rearranged
<1> QED
  BY <1>9 DEF d

\* Heapify moves a child in use above its parent, or nothing.
LEMMA LargestPosition ==
  ASSUME NEW h, HeapShape(h), NEW i \in Nat
  PROVE  \/ Largest(h, i) = i
         \/ /\ Largest(h, i) \in 0 .. h.count - 1 /\ i \in 0 .. h.count - 1
            /\ Largest(h, i) \in {LeftChild(i), RightChild(i)}
<1>1. h.count \in Nat
  BY DEF HeapShape
<1>2. LeftChild(i) \in Nat /\ RightChild(i) \in Nat /\ i < LeftChild(i) /\ i < RightChild(i)
  BY DEF LeftChild, RightChild
<1>3. \/ Largest(h, i) = i
      \/ Largest(h, i) = LeftChild(i) /\ LeftChild(i) < h.count
      \/ Largest(h, i) = RightChild(i) /\ RightChild(i) < h.count
  BY DEF Largest
<1> QED
  BY <1>1, <1>2, <1>3

-----------------------------------------------------------------------------
\* The turns of heapify on the heap c, and their invariant.
SinkTurn(c, work, n) == Sink(work)
Sinking(c, n, work) == work.at \in Nat /\ Rearranged(c, work.heap)

Sinks == INSTANCE Iteration WITH Op <- SinkTurn, Inv <- Sinking

\* Heapify moves entries between positions and nothing else.
LEMMA HeapifyRearranges ==
  ASSUME NEW h, HeapShape(h)
  PROVE  Rearranged(h, Heapify(h))
<1> DEFINE first == [heap |-> h, at |-> 0]
           down == CHOOSE f : Sinks!IsIteration(f, h, first)
<1>1. Sinks!IsIteration(down, h, first)
  BY Sinks!IterationExists
<1>2. Heapify(h) = down[h.count].heap
  BY Zenon DEF Heapify, Sinks!IsIteration, SinkTurn
<1> HIDE DEF down
<1>3. Sinking(h, 0, first)
  BY DEF Sinking, Rearranged
<1>4. ASSUME NEW k \in Nat, NEW work, Sinking(h, k, work)
      PROVE  Sinking(h, k + 1, SinkTurn(h, work, k + 1))
  <2> DEFINE l == Largest(work.heap, work.at)
  <2>1. work.at \in Nat /\ Rearranged(h, work.heap)
    BY <1>4 DEF Sinking
  <2>2. CASE l = work.at
    BY <2>1, <2>2 DEF SinkTurn, Sink, Sinking
  <2>3. CASE l # work.at
    <3>1. HeapShape(work.heap) /\ work.heap.count = h.count
      BY <2>1 DEF Rearranged
    <3>2. l \in 0 .. h.count - 1 /\ work.at \in 0 .. h.count - 1
      BY <2>1, <2>3, <3>1, LargestPosition
    <3>3. Rearranged(work.heap, Swap(work.heap, work.at, l))
      BY <3>1, <3>2, SwapRearranges
    <3>4. Sink(work) = [heap |-> Swap(work.heap, work.at, l), at |-> l]
      BY <2>3 DEF Sink
    <3> HIDE DEF l
    <3> QED
      BY <2>1, <3>2, <3>3, <3>4 DEF SinkTurn, Sinking, Rearranged
  <2> QED
    BY <2>2, <2>3
<1>5. \A n \in Nat : Sinking(h, n, down[n])
  <2>1. \A k \in Nat : \A a : Sinking(h, k, a) => Sinking(h, k + 1, SinkTurn(h, a, k + 1))
    BY <1>4
  <2> HIDE DEF first
  <2> QED
    BY <1>1, <1>3, <2>1, Sinks!IterationInvariant
<1>6. h.count \in Nat
  BY DEF HeapShape
<1> QED
  BY <1>2, <1>5, <1>6 DEF Sinking

\* The values and the pointers of a heap with fewer entries used.
LEMMA PopEffect ==
  ASSUME NEW h, HeapShape(h), h.count > 0
  PROVE  /\ h.values_ptrs[0] \in SlotsInUse(h)
         /\ HeapShape(PopEntry(h))
         /\ PopEntry(h).values = h.values
         /\ PopEntry(h).size = h.size
         /\ PopEntry(h).count = h.count - 1
         /\ SlotsInUse(PopEntry(h)) = SlotsInUse(h) \ {h.values_ptrs[0]}
<1> DEFINE last == h.count - 1
           d == Swap(h, 0, last)
           rest == [d EXCEPT !.count = @ - 1]
<1>0. /\ h.count \in Nat /\ h.size \in Nat /\ h.count <= h.size
      /\ 0 \in 0 .. h.count - 1 /\ last \in 0 .. h.count - 1
      /\ 0 \in 0 .. h.size - 1 /\ last \in 0 .. h.size - 1
  BY DEF HeapShape
<1>1. SwapEffect(h, 0, last, d) /\ HeapShape(d) /\ Rearranged(h, d)
  BY <1>0, SwapFields, SwapShape, SwapRearranges
<1> HIDE DEF d
<1>2. rest = [values |-> h.values, values_ptrs |-> d.values_ptrs,
              size |-> h.size, count |-> last]
  BY <1>0, <1>1 DEF SwapEffect
<1> HIDE DEF rest
<1>3. /\ rest.values = h.values /\ rest.values_ptrs = d.values_ptrs
      /\ rest.size = h.size /\ rest.count = last
      /\ d.values = h.values /\ d.size = h.size /\ d.count = h.count
  BY <1>1, <1>2 DEF Rearranged
<1>4. HeapShape(rest)
  <2>1. last \in 0 .. h.size
    BY <1>0
  <2>2. /\ h.size \in Nat \ {0}
        /\ h.values = [slot \in 0 .. h.size - 1 |-> h.values[slot]]
    BY DEF HeapShape
  <2>3. /\ d.values_ptrs \in [0 .. h.size - 1 -> 0 .. h.size - 1]
        /\ \A i, k \in 0 .. h.size - 1 : d.values_ptrs[i] = d.values_ptrs[k] => i = k
        /\ \A slot \in 0 .. h.size - 1 : \E i \in 0 .. h.size - 1 : d.values_ptrs[i] = slot
    BY <1>1, <1>3 DEF HeapShape
  <2> HIDE DEF last
  <2> QED
    BY <1>2, <2>1, <2>2, <2>3, MadeHeap
<1>5. SlotsInUse(rest) = SlotsInUse(h) \ {h.values_ptrs[0]}
  <2>1. SlotsInUse(h) = SlotsInUse(d)
    BY <1>1 DEF Rearranged
  <2>2. d.values_ptrs[last] = h.values_ptrs[0]
    BY <1>0, <1>1 DEF SwapEffect
  <2>3. \A i \in 0 .. h.count - 1 : i \in 0 .. h.size - 1 /\ (i # last <=> i \in 0 .. last - 1)
    BY <1>0
  <2>4. \A i \in 0 .. h.count - 1 : d.values_ptrs[i] = d.values_ptrs[last] => i = last
    BY <1>0, <1>1, <1>3, <2>3 DEF HeapShape
  <2>5. \A i \in 0 .. last - 1 : i \in 0 .. h.count - 1 /\ i # last
    BY <1>0
  <2>6. SlotsInUse(d) = {d.values_ptrs[i] : i \in 0 .. h.count - 1}
        /\ SlotsInUse(rest) = {d.values_ptrs[i] : i \in 0 .. last - 1}
    BY <1>3 DEF SlotsInUse
  <2> HIDE DEF last
  <2>7. SlotsInUse(rest) = SlotsInUse(d) \ {d.values_ptrs[last]}
    BY <2>3, <2>4, <2>5, <2>6
  <2> QED
    BY <2>1, <2>2, <2>7
<1>6. Rearranged(rest, PopEntry(h))
  BY <1>4, HeapifyRearranges DEF PopEntry, rest, d
<1>7. h.values_ptrs[0] \in SlotsInUse(h)
  BY <1>0 DEF SlotsInUse
<1> QED
  BY <1>3, <1>5, <1>6, <1>7 DEF Rearranged

-----------------------------------------------------------------------------
\* Growing keeps the entries and makes room for one more.
LEMMA GrowEffect ==
  ASSUME NEW h, HeapShape(h)
  PROVE  /\ HeapShape(Grow(h)) /\ Grow(h).count = h.count /\ Grow(h).size > h.size
         /\ \A i \in 0 .. h.size - 1 :
              Grow(h).values_ptrs[i] = h.values_ptrs[i] /\ Grow(h).values[i] = h.values[i]
<1> DEFINE new_size == h.size * LIST_INCREASE_FACTOR
           values == [i \in 0 .. new_size - 1 |-> IF i < h.size THEN h.values[i] ELSE Uninitialized]
           ptrs == [i \in 0 .. new_size - 1 |-> IF i < h.size THEN h.values_ptrs[i] ELSE i]
           d == Grow(h)
<1>1. h = [values |-> h.values, values_ptrs |-> h.values_ptrs, size |-> h.size, count |-> h.count]
  BY DEF HeapShape
<1>2. d = [values |-> values, values_ptrs |-> ptrs, size |-> new_size, count |-> h.count]
  BY Zenon DEF Grow
<1> HIDE DEF d
<1>3. d.values = values /\ d.values_ptrs = ptrs /\ d.size = new_size /\ d.count = h.count
  BY <1>2
<1>4. /\ h.size \in Nat \ {0} /\ h.count \in 0 .. h.size
      /\ new_size \in Nat \ {0} /\ h.size < new_size /\ h.count \in 0 .. new_size
  BY DEF HeapShape, LIST_INCREASE_FACTOR
<1> HIDE DEF new_size
<1>5. \A i \in 0 .. h.size - 1 : i \in 0 .. new_size - 1 /\ i < h.size
  BY <1>4
<1>6. /\ \A i \in 0 .. new_size - 1 : i < h.size => i \in 0 .. h.size - 1
      /\ \A i \in 0 .. h.size - 1 : h.values_ptrs[i] \in 0 .. h.size - 1
  <2>1. h.values_ptrs \in [0 .. h.size - 1 -> 0 .. h.size - 1]
    BY DEF HeapShape
  <2> QED
    BY <1>4, <2>1
<1>7. ptrs \in [0 .. new_size - 1 -> 0 .. new_size - 1]
  BY <1>5, <1>6
<1>8. ASSUME NEW i \in 0 .. new_size - 1, NEW k \in 0 .. new_size - 1, ptrs[i] = ptrs[k]
      PROVE  i = k
  <2>1. i < h.size <=> k < h.size
    BY <1>4, <1>6, <1>8
  <2>2. CASE i < h.size
    BY <1>6, <1>8, <2>1, <2>2 DEF HeapShape
  <2> QED
    BY <1>8, <2>1, <2>2
<1>9. ASSUME NEW slot \in 0 .. new_size - 1
      PROVE  \E i \in 0 .. new_size - 1 : ptrs[i] = slot
  <2>1. CASE slot < h.size
    <3>1. PICK i \in 0 .. h.size - 1 : h.values_ptrs[i] = slot
      BY <1>6, <2>1 DEF HeapShape
    <3> QED
      BY <1>5, <3>1
  <2>2. CASE ~ (slot < h.size)
    BY <2>2
  <2> QED
    BY <2>1, <2>2
<1>10. values = [i \in 0 .. new_size - 1 |-> values[i]]
  OBVIOUS
<1>11. \A i \in 0 .. h.size - 1 : ptrs[i] = h.values_ptrs[i] /\ values[i] = h.values[i]
  BY <1>5
<1> HIDE DEF values, ptrs
<1>12. HeapShape(d)
  BY <1>2, <1>4, <1>7, <1>8, <1>9, <1>10, MadeHeap
<1> QED
  BY <1>3, <1>4, <1>11, <1>12 DEF d

\* The entry is written to a slot that no pending entry is in.
LEMMA AppendEffect ==
  ASSUME NEW h, HeapShape(h), NEW entry
  PROVE  /\ HeapShape(Appended(h, entry))
         /\ Appended(h, entry).count = h.count + 1
         /\ EntryAt(Appended(h, entry), h.count) = entry
         /\ \A i \in 0 .. h.count - 1 : EntryAt(Appended(h, entry), i) = EntryAt(h, i)
         /\ \E slot :
              /\ slot \notin SlotsInUse(h)
              /\ SlotsInUse(Appended(h, entry)) = SlotsInUse(h) \cup {slot}
              /\ Appended(h, entry).values[slot] = entry
              /\ \A s \in SlotsInUse(h) : Appended(h, entry).values[s] = h.values[s]
<1> DEFINE room == IF h.count = h.size THEN Grow(h) ELSE h
           slot == room.values_ptrs[room.count]
           values == [room.values EXCEPT ![slot] = entry]
           d == [values |-> values, values_ptrs |-> room.values_ptrs,
                 size |-> room.size, count |-> room.count + 1]
<1>0. Appended(h, entry) = d
  BY DEF Appended
<1>1. /\ h.size \in Nat \ {0} /\ h.count \in 0 .. h.size
      /\ \A i \in 0 .. h.size - 1 : h.values_ptrs[i] \in 0 .. h.size - 1
  BY DEF HeapShape
<1>2. /\ HeapShape(room) /\ room.count = h.count /\ h.count < room.size /\ h.size <= room.size
      /\ room.size \in Nat
      /\ \A i \in 0 .. h.size - 1 :
           room.values_ptrs[i] = h.values_ptrs[i] /\ room.values[i] = h.values[i]
  <2>1. CASE h.count = h.size
    <3>1. room = Grow(h)
      BY <2>1
    <3> HIDE DEF room
    <3>2. HeapShape(room) => room.size \in Nat
      BY DEF HeapShape
    <3> QED
      BY <1>1, <2>1, <3>1, <3>2, GrowEffect
  <2>2. CASE h.count # h.size
    <3>1. room = h
      BY <2>2
    <3> HIDE DEF room
    <3> QED
      BY <1>1, <2>2, <3>1
  <2> QED
    BY <2>1, <2>2
<1> HIDE DEF room
<1>3. /\ room = [values |-> room.values, values_ptrs |-> room.values_ptrs,
                 size |-> room.size, count |-> room.count]
      /\ room.values = [s \in 0 .. room.size - 1 |-> room.values[s]]
      /\ room.values_ptrs \in [0 .. room.size - 1 -> 0 .. room.size - 1]
      /\ \A i, k \in 0 .. room.size - 1 : room.values_ptrs[i] = room.values_ptrs[k] => i = k
  BY <1>2 DEF HeapShape
<1>4. h.count \in 0 .. room.size - 1 /\ slot \in 0 .. room.size - 1
  BY <1>1, <1>2, <1>3
<1>5. d = [values |-> values, values_ptrs |-> room.values_ptrs,
           size |-> room.size, count |-> h.count + 1]
  BY <1>2
<1>6. /\ values = [s \in 0 .. room.size - 1 |-> values[s]]
      /\ values[slot] = entry
      /\ \A s \in 0 .. room.size - 1 : s # slot => values[s] = room.values[s]
  BY <1>3, <1>4
<1> HIDE DEF values, d
<1>7. /\ d.values = values /\ d.values_ptrs = room.values_ptrs
      /\ d.size = room.size /\ d.count = h.count + 1
  BY <1>5
<1>8. HeapShape(d)
  <2>1. h.count + 1 \in 0 .. room.size
    BY <1>1, <1>2
  <2>2. /\ room.size \in Nat \ {0}
        /\ \A s \in 0 .. room.size - 1 : \E i \in 0 .. room.size - 1 : room.values_ptrs[i] = s
    BY <1>2 DEF HeapShape
  <2> HIDE DEF slot
  <2> QED
    BY <1>3, <1>5, <1>6, <2>1, <2>2, MadeHeap
<1>9. \A i \in 0 .. h.count - 1 :
        /\ i \in 0 .. h.size - 1 /\ i \in 0 .. room.size - 1 /\ i # h.count
        /\ h.values_ptrs[i] \in 0 .. h.size - 1
        /\ h.values_ptrs[i] \in 0 .. room.size - 1
        /\ room.values_ptrs[i] = h.values_ptrs[i]
        /\ h.values_ptrs[i] # slot
        /\ values[h.values_ptrs[i]] = h.values[h.values_ptrs[i]]
  <2> TAKE i \in 0 .. h.count - 1
  <2>1. i \in 0 .. h.size - 1 /\ i \in 0 .. room.size - 1 /\ i # h.count
    BY <1>1, <1>2
  <2>2. h.values_ptrs[i] \in 0 .. h.size - 1 /\ room.values_ptrs[i] = h.values_ptrs[i]
    BY <1>1, <1>2, <2>1
  <2>3. h.values_ptrs[i] \in 0 .. room.size - 1
    BY <1>1, <1>2, <2>2
  <2>4. h.values_ptrs[i] # slot
    BY <1>2, <1>3, <1>4, <2>1, <2>2
  <2> QED
    BY <1>2, <1>6, <2>1, <2>2, <2>3, <2>4
<1>10. SlotsInUse(h) = {h.values_ptrs[i] : i \in 0 .. h.count - 1}
       /\ SlotsInUse(d) = {room.values_ptrs[i] : i \in 0 .. (h.count + 1) - 1}
  BY <1>7 DEF SlotsInUse
<1>11. \A i \in 0 .. (h.count + 1) - 1 : i \in 0 .. h.count - 1 \/ i = h.count
  BY <1>1
<1>12. h.count \in 0 .. (h.count + 1) - 1
       /\ \A i \in 0 .. h.count - 1 : i \in 0 .. (h.count + 1) - 1
  BY <1>1
<1>13. slot = room.values_ptrs[h.count]
  BY <1>2
<1> HIDE DEF slot
<1>14. SlotsInUse(d) = SlotsInUse(h) \cup {slot}
  BY <1>9, <1>10, <1>11, <1>12, <1>13
<1>15. slot \notin SlotsInUse(h) /\ \A s \in SlotsInUse(h) : d.values[s] = h.values[s]
  BY <1>7, <1>9, <1>10
<1>16. /\ EntryAt(d, h.count) = entry
       /\ \A i \in 0 .. h.count - 1 : EntryAt(d, i) = EntryAt(h, i)
  BY <1>6, <1>7, <1>9, <1>13 DEF EntryAt
<1> QED
  BY <1>0, <1>6, <1>7, <1>8, <1>14, <1>15, <1>16

\* The turns of the loop that moves the entry up, and their invariant.
RiseTurn(c, work, n) == Rise(work, c.entry)
Rising(c, n, work) == work.at \in 0 .. c.heap.count - 1 /\ Rearranged(c.heap, work.heap)

Rises == INSTANCE Iteration WITH Op <- RiseTurn, Inv <- Rising

\* Moving the new entry up changes no entry.
LEMMA AddRearranges ==
  ASSUME NEW h, HeapShape(h), NEW entry
  PROVE  Rearranged(Appended(h, entry), AddEntry(h, entry))
<1> DEFINE c == [heap |-> Appended(h, entry), entry |-> entry]
           first == [heap |-> Appended(h, entry), at |-> h.count]
           up == CHOOSE f : Rises!IsIteration(f, c, first)
<1>1. Rises!IsIteration(up, c, first)
  BY Rises!IterationExists
<1>2. AddEntry(h, entry) = up[h.count].heap
  BY Zenon DEF AddEntry, Rises!IsIteration, RiseTurn
<1> HIDE DEF up
<1>3. HeapShape(Appended(h, entry)) /\ Appended(h, entry).count = h.count + 1 /\ h.count \in Nat
  <2>1. h.count \in Nat
    BY DEF HeapShape
  <2> QED
    BY <2>1, AppendEffect
<1>4. Rising(c, 0, first)
  BY <1>3 DEF Rising, Rearranged
<1>5. ASSUME NEW k \in Nat, NEW work, Rising(c, k, work)
      PROVE  Rising(c, k + 1, RiseTurn(c, work, k + 1))
  <2> DEFINE p == Parent(work.at)
  <2>1. work.at \in 0 .. c.heap.count - 1 /\ Rearranged(c.heap, work.heap)
    BY <1>5 DEF Rising
  <2>2. CASE Rise(work, entry) = work
    BY <2>1, <2>2 DEF RiseTurn, Rising
  <2>3. CASE work.at > 0 /\ Rise(work, entry) = [heap |-> Swap(work.heap, work.at, p), at |-> p]
    <3>1. HeapShape(work.heap) /\ work.heap.count = c.heap.count /\ c.heap.count \in Nat
      BY <1>3, <2>1 DEF Rearranged
    <3>2. p \in 0 .. c.heap.count - 1
      BY <2>1, <2>3, <3>1 DEF Parent
    <3>3. Rearranged(work.heap, Swap(work.heap, work.at, p))
      BY <2>1, <3>1, <3>2, SwapRearranges
    <3> HIDE DEF p
    <3> QED
      BY <2>1, <2>3, <3>2, <3>3 DEF RiseTurn, Rising, Rearranged
  <2> QED
    BY <2>2, <2>3 DEF Rise
<1>6. \A n \in Nat : Rising(c, n, up[n])
  <2>1. \A k \in Nat : \A a : Rising(c, k, a) => Rising(c, k + 1, RiseTurn(c, a, k + 1))
    BY <1>5
  <2> HIDE DEF first, c
  <2> QED
    BY <1>1, <1>4, <2>1, Rises!IterationInvariant
<1> QED
  BY <1>2, <1>3, <1>6 DEF Rising

----------------------------------------------------------------------
(****************************************************************************)
(* The order of the heap.  With one assumption at most every entry asks for *)
(* assumption 0 and compare is a total preorder; with more it is not even   *)
(* antisymmetric, and nothing here holds.                                   *)
(****************************************************************************)
IsOrderable(e) == e.value \in Int /\ e.timestamp \in Nat /\ e.assumption = 0
HasOrderable(h) == \A slot \in SlotsInUse(h) : IsOrderable(h.values[slot])
NotAbove(e, f) == Compare(e, f) <= 0

\* What compare decides between entries that ask for the same assumption.
LEMMA CompareIsPreorder ==
  /\ \A e, f : IsOrderable(e) /\ IsOrderable(f) =>
       (NotAbove(e, f) <=> ~ (Compare(e, f) > 0)) /\ (NotAbove(e, f) \/ NotAbove(f, e))
  /\ \A e : IsOrderable(e) => NotAbove(e, e)
  /\ \A e, f, d : /\ IsOrderable(e) /\ IsOrderable(f) /\ IsOrderable(d)
                  /\ NotAbove(e, f) /\ NotAbove(f, d)
                  => NotAbove(e, d)
<1>1. \A e, f : IsOrderable(e) /\ IsOrderable(f) =>
        /\ (Compare(e, f) > 0 <=>
              e.value > f.value \/ (e.value = f.value /\ e.timestamp > f.timestamp))
        /\ (Compare(e, f) <= 0 <=>
              e.value < f.value \/ (e.value = f.value /\ e.timestamp <= f.timestamp))
  BY DEF IsOrderable, Compare
<1> QED
  BY <1>1 DEF IsOrderable, NotAbove

\* The tree of the positions.
LEMMA PositionsFormTree ==
  /\ \A i \in Nat \ {0} :
       Parent(i) \in Nat /\ Parent(i) < i /\ (i = LeftChild(Parent(i)) \/ i = RightChild(Parent(i)))
  /\ \A p \in Nat :
       /\ LeftChild(p) \in Nat /\ RightChild(p) \in Nat
       /\ p < LeftChild(p) /\ p < RightChild(p)
       /\ Parent(LeftChild(p)) = p /\ Parent(RightChild(p)) = p
BY DEF Parent, LeftChild, RightChild

\* Swapping exchanges the entries of two positions.
LEMMA SwapEntries ==
  ASSUME NEW h, HeapShape(h), NEW i \in 0 .. h.count - 1, NEW k \in 0 .. h.count - 1
  PROVE  \A m \in 0 .. h.count - 1 :
           EntryAt(Swap(h, i, k), m) = IF m = k THEN EntryAt(h, i)
                                       ELSE IF m = i THEN EntryAt(h, k) ELSE EntryAt(h, m)
<1>1. h.count \in Nat /\ h.size \in Nat /\ h.count <= h.size
  BY DEF HeapShape
<1>2. \A m \in 0 .. h.count - 1 : m \in 0 .. h.size - 1
  BY <1>1
<1>3. SwapEffect(h, i, k, Swap(h, i, k)) /\ Rearranged(h, Swap(h, i, k))
  BY <1>2, SwapFields, SwapRearranges
<1> DEFINE d == Swap(h, i, k)
<1> HIDE DEF d
<1>4. \A m \in 0 .. h.count - 1 :
        EntryAt(d, m) = IF m = k THEN EntryAt(h, i)
                        ELSE IF m = i THEN EntryAt(h, k) ELSE EntryAt(h, m)
  BY <1>2, <1>3 DEF EntryAt, SwapEffect, Rearranged, d
<1> QED
  BY <1>4 DEF d

\* The entries of a heap whose slots in use are orderable.
LEMMA PositionsOrderable ==
  ASSUME NEW h, HasOrderable(h)
  PROVE  \A i \in 0 .. h.count - 1 : IsOrderable(EntryAt(h, i))
BY DEF HasOrderable, SlotsInUse, EntryAt

LEMMA RearrangedOrderable ==
  ASSUME NEW h, HasOrderable(h), NEW d, Rearranged(h, d)
  PROVE  HasOrderable(d)
BY DEF HasOrderable, Rearranged

\* Heapify chooses an entry that neither the children nor the entry itself is above.
LEMMA LargestIsAbove ==
  ASSUME NEW h, HeapShape(h), HasOrderable(h), NEW at \in 0 .. h.count - 1
  PROVE  /\ Largest(h, at) \in 0 .. h.count - 1
         /\ NotAbove(EntryAt(h, at), EntryAt(h, Largest(h, at)))
         /\ \A i \in 1 .. h.count - 1 :
              Parent(i) = at => NotAbove(EntryAt(h, i), EntryAt(h, Largest(h, at)))
         /\ Largest(h, at) # at => Parent(Largest(h, at)) = at /\ Largest(h, at) > at
<1> DEFINE l == LeftChild(at)
           r == RightChild(at)
           first == IF l < h.count /\ Compare(EntryAt(h, l), EntryAt(h, at)) > 0 THEN l ELSE at
           largest == IF r < h.count /\ Compare(EntryAt(h, r), EntryAt(h, first)) > 0
                      THEN r ELSE first
<1>1. Largest(h, at) = largest
  BY Zenon DEF Largest
<1>2. /\ h.count \in Nat /\ at \in Nat /\ l \in Nat /\ r \in Nat /\ at < l /\ at < r
      /\ Parent(l) = at /\ Parent(r) = at
      /\ \A i \in 1 .. h.count - 1 : i \in 0 .. h.count - 1 /\ (Parent(i) = at => i = l \/ i = r)
  <2>1. h.count \in Nat /\ at \in Nat
    BY DEF HeapShape
  <2> QED
    BY <2>1, PositionsFormTree
<1> HIDE DEF l, r
<1>3. \A i \in 0 .. h.count - 1 : IsOrderable(EntryAt(h, i))
  BY PositionsOrderable
<1>4. (l < h.count => l \in 0 .. h.count - 1) /\ (r < h.count => r \in 0 .. h.count - 1)
  BY <1>2
<1>5. /\ first \in 0 .. h.count - 1 /\ first \in {at, l}
      /\ NotAbove(EntryAt(h, at), EntryAt(h, first))
      /\ l < h.count => NotAbove(EntryAt(h, l), EntryAt(h, first))
  BY <1>3, <1>4, CompareIsPreorder
<1> HIDE DEF first
<1>6. /\ largest \in 0 .. h.count - 1 /\ largest \in {first, r}
      /\ NotAbove(EntryAt(h, first), EntryAt(h, largest))
      /\ r < h.count => NotAbove(EntryAt(h, r), EntryAt(h, largest))
  BY <1>3, <1>4, <1>5, CompareIsPreorder
<1> HIDE DEF largest
<1>7. /\ NotAbove(EntryAt(h, at), EntryAt(h, largest))
      /\ l < h.count => NotAbove(EntryAt(h, l), EntryAt(h, largest))
  BY <1>3, <1>4, <1>5, <1>6, CompareIsPreorder
<1>8. \A i \in 1 .. h.count - 1 :
        Parent(i) = at => NotAbove(EntryAt(h, i), EntryAt(h, largest))
  BY <1>2, <1>6, <1>7
<1> QED
  BY <1>1, <1>2, <1>5, <1>6, <1>7, <1>8

(****************************************************************************)
(* Ordered but for the entry at position at, which may be below its         *)
(* children (while it sinks) or above its parent (while it rises).          *)
(****************************************************************************)
SkipsOver(h, at) ==
  \A i \in 1 .. h.count - 1 :
    Parent(i) = at /\ at > 0 => NotAbove(EntryAt(h, i), EntryAt(h, Parent(at)))
OrderedButBelow(h, at) ==
  /\ \A i \in 1 .. h.count - 1 :
       Parent(i) # at => NotAbove(EntryAt(h, i), EntryAt(h, Parent(i)))
  /\ SkipsOver(h, at)
OrderedButAbove(h, at) ==
  /\ \A i \in 1 .. h.count - 1 : i # at => NotAbove(EntryAt(h, i), EntryAt(h, Parent(i)))
  /\ SkipsOver(h, at)

\* A turn of heapify leaves only the entry that sinks out of order.
LEMMA SinkKeepsOrder ==
  ASSUME NEW h, HeapShape(h), HasOrderable(h), NEW at \in 0 .. h.count - 1,
         OrderedButBelow(h, at), Largest(h, at) # at
  PROVE  OrderedButBelow(Swap(h, at, Largest(h, at)), Largest(h, at))
<1> DEFINE l == Largest(h, at)
           d == Swap(h, at, l)
<1>1. /\ l \in 0 .. h.count - 1 /\ NotAbove(EntryAt(h, at), EntryAt(h, l))
      /\ \A i \in 1 .. h.count - 1 : Parent(i) = at => NotAbove(EntryAt(h, i), EntryAt(h, l))
      /\ Parent(l) = at /\ l > at /\ l # at
  BY LargestIsAbove
<1> HIDE DEF l
<1>2. \A m \in 0 .. h.count - 1 :
        EntryAt(d, m) = IF m = l THEN EntryAt(h, at)
                        ELSE IF m = at THEN EntryAt(h, l) ELSE EntryAt(h, m)
  BY <1>1, SwapEntries
<1>3. d.count = h.count /\ h.count \in Nat
  <2>1. Rearranged(h, d)
    BY <1>1, SwapRearranges
  <2> QED
    BY <2>1 DEF Rearranged, HeapShape
<1> HIDE DEF d
<1>4. \A i \in 1 .. h.count - 1 :
        i \in 0 .. h.count - 1 /\ Parent(i) \in 0 .. h.count - 1 /\ Parent(i) < i
  BY <1>3, PositionsFormTree
<1>5. ASSUME NEW i \in 1 .. h.count - 1, Parent(i) # l
      PROVE  NotAbove(EntryAt(d, i), EntryAt(d, Parent(i)))
  <2>1. CASE i = l
    BY <1>1, <1>2, <1>4, <2>1
  <2>2. CASE i # l /\ Parent(i) = at
    BY <1>1, <1>2, <1>4, <2>2
  <2>3. CASE i = at
    <3>1. at > 0 /\ Parent(at) # at /\ Parent(at) \in 0 .. h.count - 1
      BY <1>3, <1>4, <2>3
    <3>2. NotAbove(EntryAt(h, l), EntryAt(h, Parent(at)))
      <4>1. l \in 1 .. h.count - 1
        BY <1>1, <1>3
      <4> QED
        BY <1>1, <3>1, <4>1 DEF OrderedButBelow, SkipsOver
    <3> QED
      BY <1>1, <1>2, <1>4, <1>5, <2>3, <3>1, <3>2
  <2>4. CASE i # l /\ i # at /\ Parent(i) # at
    BY <1>2, <1>4, <1>5, <2>4 DEF OrderedButBelow
  <2> QED
    BY <2>1, <2>2, <2>3, <2>4
<1>6. ASSUME NEW i \in 1 .. h.count - 1, Parent(i) = l
      PROVE  NotAbove(EntryAt(d, i), EntryAt(d, Parent(l)))
  <2>1. i # l /\ i # at
    BY <1>1, <1>3, <1>4, <1>6
  <2>2. NotAbove(EntryAt(h, i), EntryAt(h, l))
    BY <1>1, <1>6 DEF OrderedButBelow
  <2> QED
    BY <1>1, <1>2, <1>4, <2>1, <2>2
<1>7. OrderedButBelow(d, l)
  BY <1>3, <1>5, <1>6 DEF OrderedButBelow, SkipsOver
<1> QED
  BY <1>7 DEF d, l

\* A turn of the loop of add leaves only the entry that rises out of order.
LEMMA RiseKeepsOrder ==
  ASSUME NEW h, HeapShape(h), HasOrderable(h), NEW at \in 1 .. h.count - 1,
         OrderedButAbove(h, at), ~NotAbove(EntryAt(h, at), EntryAt(h, Parent(at)))
  PROVE  OrderedButAbove(Swap(h, at, Parent(at)), Parent(at))
<1> DEFINE p == Parent(at)
           d == Swap(h, at, p)
<1>1. h.count \in Nat /\ at \in 0 .. h.count - 1 /\ p \in 0 .. h.count - 1 /\ p < at /\ p # at
  <2>1. h.count \in Nat
    BY DEF HeapShape
  <2> QED
    BY <2>1, PositionsFormTree
<1>2. \A m \in 0 .. h.count - 1 :
        EntryAt(d, m) = IF m = p THEN EntryAt(h, at)
                        ELSE IF m = at THEN EntryAt(h, p) ELSE EntryAt(h, m)
  <2> HIDE DEF p
  <2> QED
    BY <1>1, SwapEntries
<1>3. d.count = h.count
  <2> HIDE DEF p
  <2> QED
    BY <1>1, SwapRearranges DEF Rearranged
<1>4. \A i \in 1 .. h.count - 1 :
        i \in 0 .. h.count - 1 /\ Parent(i) \in 0 .. h.count - 1 /\ Parent(i) < i
  BY <1>1, PositionsFormTree
<1>5. \A i \in 0 .. h.count - 1 : IsOrderable(EntryAt(h, i))
  BY PositionsOrderable
<1>6. NotAbove(EntryAt(h, p), EntryAt(h, at))
  BY <1>1, <1>5, CompareIsPreorder
<1>7. Parent(at) = p
  OBVIOUS
<1> HIDE DEF d, p
<1>8. ASSUME NEW i \in 1 .. h.count - 1, i # p
      PROVE  NotAbove(EntryAt(d, i), EntryAt(d, Parent(i)))
  <2>1. CASE i = at
    BY <1>1, <1>2, <1>6, <1>7, <2>1
  <2>2. CASE i # at /\ Parent(i) = at
    <3>1. NotAbove(EntryAt(h, i), EntryAt(h, p))
      BY <1>1, <1>7, <2>2 DEF OrderedButAbove, SkipsOver
    <3> QED
      BY <1>1, <1>2, <1>4, <1>8, <2>2, <3>1
  <2>3. CASE i # at /\ Parent(i) = p
    <3>1. NotAbove(EntryAt(h, i), EntryAt(h, p))
      BY <2>3 DEF OrderedButAbove
    <3>2. NotAbove(EntryAt(h, i), EntryAt(h, at))
      BY <1>1, <1>4, <1>5, <1>6, <3>1, CompareIsPreorder
    <3> QED
      BY <1>1, <1>2, <1>4, <1>8, <2>3, <3>2
  <2>4. CASE i # at /\ Parent(i) # at /\ Parent(i) # p
    BY <1>2, <1>4, <1>8, <2>4 DEF OrderedButAbove
  <2> QED
    BY <2>1, <2>2, <2>3, <2>4
<1>9. ASSUME NEW i \in 1 .. h.count - 1, Parent(i) = p, p > 0
      PROVE  NotAbove(EntryAt(d, i), EntryAt(d, Parent(p)))
  <2>1. p \in 1 .. h.count - 1 /\ Parent(p) \in 0 .. h.count - 1 /\ Parent(p) # p /\ Parent(p) # at
    BY <1>1, <1>4, <1>9
  <2>2. NotAbove(EntryAt(h, p), EntryAt(h, Parent(p)))
    BY <1>1, <2>1 DEF OrderedButAbove
  <2>3. EntryAt(d, Parent(p)) = EntryAt(h, Parent(p))
    BY <1>2, <2>1
  <2>4. CASE i = at
    BY <1>1, <1>2, <2>2, <2>3, <2>4
  <2>5. CASE i # at
    <3>1. NotAbove(EntryAt(h, i), EntryAt(h, p))
      BY <1>9, <2>5 DEF OrderedButAbove
    <3>2. NotAbove(EntryAt(h, i), EntryAt(h, Parent(p)))
      BY <1>1, <1>4, <1>5, <2>1, <2>2, <3>1, CompareIsPreorder
    <3>3. i # p
      BY <1>4, <1>9
    <3> QED
      BY <1>2, <1>4, <2>3, <2>5, <3>2, <3>3
  <2> QED
    BY <2>4, <2>5
<1>10. OrderedButAbove(d, p)
  BY <1>3, <1>8, <1>9 DEF OrderedButAbove, SkipsOver
<1> QED
  BY <1>10 DEF d, p

(****************************************************************************)
(* Heapify: what its turns keep.  The entry sinks a position at least, so   *)
(* that after as many turns as there are entries it has settled.            *)
(****************************************************************************)
SinkOrder(c, n, work) ==
  /\ Sinking(c, n, work)
  /\ HasOrderable(work.heap) /\ OrderedButBelow(work.heap, work.at)
  /\ Largest(work.heap, work.at) = work.at \/ work.at >= n

Sorts == INSTANCE Iteration WITH Op <- SinkTurn, Inv <- SinkOrder

\* Heapify orders a heap in which only the entry at position 0 may be out of order.
LEMMA HeapifyOrders ==
  ASSUME NEW h, HeapShape(h), HasOrderable(h), OrderedButBelow(h, 0)
  PROVE  HeapOrdered(Heapify(h))
<1> DEFINE first == [heap |-> h, at |-> 0]
           down == CHOOSE f : Sorts!IsIteration(f, h, first)
<1>0. h.count \in Nat
  BY DEF HeapShape
<1>1. Sorts!IsIteration(down, h, first)
  BY Sorts!IterationExists
<1>2. Heapify(h) = down[h.count].heap
  BY Zenon DEF Heapify, Sorts!IsIteration, SinkTurn
<1> HIDE DEF down
<1>3. SinkOrder(h, 0, first)
  BY DEF SinkOrder, Sinking, Rearranged
<1>4. ASSUME NEW k \in Nat, NEW work, SinkOrder(h, k, work)
      PROVE  SinkOrder(h, k + 1, SinkTurn(h, work, k + 1))
  <2> DEFINE l == Largest(work.heap, work.at)
             d == Swap(work.heap, work.at, l)
  <2>1. /\ work.at \in Nat /\ Rearranged(h, work.heap) /\ HeapShape(work.heap)
        /\ HasOrderable(work.heap) /\ OrderedButBelow(work.heap, work.at)
        /\ l = work.at \/ work.at >= k
    BY <1>4 DEF SinkOrder, Sinking, Rearranged
  <2>2. CASE l = work.at
    BY <2>1, <2>2 DEF SinkTurn, Sink, SinkOrder, Sinking
  <2>3. CASE l # work.at
    <3>1. l \in 0 .. work.heap.count - 1 /\ work.at \in 0 .. work.heap.count - 1
      BY <2>1, <2>3, LargestPosition
    <3>2. Rearranged(work.heap, d) /\ HasOrderable(d)
      <4>1. Rearranged(work.heap, d)
        BY <2>1, <3>1, SwapRearranges
      <4> HIDE DEF d
      <4> QED
        BY <2>1, <4>1, RearrangedOrderable
    <3>3. OrderedButBelow(d, l) /\ l > work.at
      BY <2>1, <2>3, <3>1, SinkKeepsOrder, LargestIsAbove
    <3>4. Sink(work) = [heap |-> d, at |-> l]
      BY <2>3 DEF Sink
    <3>5. Rearranged(h, d) /\ l \in Nat
      BY <2>1, <3>1, <3>2 DEF Rearranged
    <3> HIDE DEF d, l
    <3>6. l >= k + 1
      BY <2>1, <2>3, <3>3, <3>5
    <3> QED
      BY <3>2, <3>3, <3>4, <3>5, <3>6 DEF SinkTurn, SinkOrder, Sinking
  <2> QED
    BY <2>2, <2>3
<1>5. SinkOrder(h, h.count, down[h.count])
  <2>1. \A k \in Nat : \A a : SinkOrder(h, k, a) => SinkOrder(h, k + 1, SinkTurn(h, a, k + 1))
    BY <1>4
  <2> HIDE DEF first
  <2> QED
    BY <1>0, <1>1, <1>3, <2>1, Sorts!IterationInvariant
<1> DEFINE d == down[h.count].heap
           at == down[h.count].at
<1>6. /\ at \in Nat /\ HeapShape(d) /\ d.count = h.count
      /\ HasOrderable(d) /\ OrderedButBelow(d, at)
      /\ Largest(d, at) = at \/ at >= h.count
  BY <1>5 DEF SinkOrder, Sinking, Rearranged
<1> HIDE DEF d, at
<1>7. ASSUME NEW i \in 1 .. h.count - 1
      PROVE  NotAbove(EntryAt(d, i), EntryAt(d, Parent(i)))
  <2>1. CASE Parent(i) # at
    BY <1>6, <2>1 DEF OrderedButBelow
  <2>2. CASE Parent(i) = at
    <3>1. at < i
      BY <2>2, PositionsFormTree
    <3>2. at \in 0 .. h.count - 1 /\ Largest(d, at) = at
      BY <1>0, <1>6, <3>1
    <3> QED
      BY <1>6, <2>2, <3>2, LargestIsAbove
  <2> QED
    BY <2>1, <2>2
<1> QED
  BY <1>2, <1>6, <1>7 DEF HeapOrdered, NotAbove, d

\* Popping keeps the order.
LEMMA PopKeepsOrder ==
  ASSUME NEW h, HeapShape(h), HasOrderable(h), HeapOrdered(h), h.count > 0
  PROVE  HeapOrdered(PopEntry(h))
<1> DEFINE last == h.count - 1
           d == Swap(h, 0, last)
           rest == [d EXCEPT !.count = @ - 1]
<1>0. /\ h.count \in Nat /\ 0 \in 0 .. h.count - 1 /\ last \in 0 .. h.count - 1
      /\ h.count \in 0 .. h.size /\ h.size \in Nat
  BY DEF HeapShape
<1>1. Rearranged(h, d) /\ HeapShape(d)
  BY <1>0, SwapRearranges DEF Rearranged
<1>2. \A m \in 0 .. h.count - 1 :
        EntryAt(d, m) = IF m = last THEN EntryAt(h, 0)
                        ELSE IF m = 0 THEN EntryAt(h, last) ELSE EntryAt(h, m)
  BY <1>0, SwapEntries
<1> HIDE DEF d
<1>3. rest = [values |-> d.values, values_ptrs |-> d.values_ptrs, size |-> d.size, count |-> last]
  <2>1. d = [values |-> d.values, values_ptrs |-> d.values_ptrs, size |-> d.size, count |-> h.count]
    BY <1>1 DEF Rearranged, HeapShape
  <2> QED
    BY <2>1
<1> HIDE DEF rest
<1>4. /\ rest.values = d.values /\ rest.values_ptrs = d.values_ptrs
      /\ rest.size = d.size /\ rest.count = last
      /\ d.size = h.size
  BY <1>1, <1>3 DEF Rearranged
<1>5. HeapShape(rest)
  <2>1. last \in 0 .. d.size
    BY <1>0, <1>4
  <2>2. /\ d.size \in Nat \ {0}
        /\ d.values = [slot \in 0 .. d.size - 1 |-> d.values[slot]]
        /\ d.values_ptrs \in [0 .. d.size - 1 -> 0 .. d.size - 1]
        /\ \A i, k \in 0 .. d.size - 1 : d.values_ptrs[i] = d.values_ptrs[k] => i = k
        /\ \A slot \in 0 .. d.size - 1 : \E i \in 0 .. d.size - 1 : d.values_ptrs[i] = slot
    BY <1>1 DEF HeapShape
  <2> HIDE DEF last
  <2> QED
    BY <1>3, <2>1, <2>2, MadeHeap
<1>6. HasOrderable(rest)
  <2>1. HasOrderable(d)
    BY <1>1, RearrangedOrderable
  <2>2. d.count = h.count /\ \A i \in 0 .. last - 1 : i \in 0 .. h.count - 1
    BY <1>0, <1>1 DEF Rearranged
  <2> HIDE DEF last
  <2>3. SlotsInUse(rest) \subseteq SlotsInUse(d)
    BY <1>4, <2>2 DEF SlotsInUse
  <2> QED
    BY <1>4, <2>1, <2>3 DEF HasOrderable
<1>7. OrderedButBelow(rest, 0)
  <2>1. \A i \in 1 .. last - 1 :
          /\ i \in 1 .. h.count - 1 /\ i \in 0 .. h.count - 1 /\ i # 0 /\ i # last
          /\ Parent(i) \in 0 .. h.count - 1 /\ Parent(i) # last
    BY <1>0, PositionsFormTree
  <2> HIDE DEF last
  <2>2. \A m : EntryAt(rest, m) = EntryAt(d, m)
    BY <1>4 DEF EntryAt
  <2>3. \A i \in 1 .. last - 1 :
          Parent(i) # 0 => NotAbove(EntryAt(rest, i), EntryAt(rest, Parent(i)))
    BY <1>2, <2>1, <2>2 DEF HeapOrdered, NotAbove
  <2> QED
    BY <1>4, <2>3 DEF OrderedButBelow, SkipsOver
<1>8. HeapOrdered(Heapify(rest))
  BY <1>5, <1>6, <1>7, HeapifyOrders
<1> QED
  BY <1>8 DEF PopEntry, rest, d

-----------------------------------------------------------------------------
(****************************************************************************)
(* Adding: the entry rises a position at least or has settled, so that it   *)
(* has after as many turns as there were entries.                           *)
(****************************************************************************)
Settled(h, at) == at = 0 \/ NotAbove(EntryAt(h, at), EntryAt(h, Parent(at)))
RiseOrder(c, n, work) ==
  /\ Rising(c, n, work)
  /\ HasOrderable(work.heap) /\ OrderedButAbove(work.heap, work.at)
  /\ EntryAt(work.heap, work.at) = c.entry
  /\ Settled(work.heap, work.at) \/ work.at + n <= c.heap.count - 1

Climbs == INSTANCE Iteration WITH Op <- RiseTurn, Inv <- RiseOrder

\* Adding an orderable entry keeps the order.
LEMMA AddKeepsOrder ==
  ASSUME NEW h, HeapShape(h), HasOrderable(h), HeapOrdered(h), NEW entry, IsOrderable(entry)
  PROVE  HeapOrdered(AddEntry(h, entry))
<1> DEFINE c == [heap |-> Appended(h, entry), entry |-> entry]
           first == [heap |-> Appended(h, entry), at |-> h.count]
           up == CHOOSE f : Climbs!IsIteration(f, c, first)
<1>0. h.count \in Nat
  BY DEF HeapShape
<1>1. Climbs!IsIteration(up, c, first)
  BY Climbs!IterationExists
<1>2. AddEntry(h, entry) = up[h.count].heap
  BY Zenon DEF AddEntry, Climbs!IsIteration, RiseTurn
<1> HIDE DEF up
<1> DEFINE a == Appended(h, entry)
<1>3. /\ HeapShape(a) /\ a.count = h.count + 1 /\ EntryAt(a, h.count) = entry
      /\ \A i \in 0 .. h.count - 1 : EntryAt(a, i) = EntryAt(h, i)
      /\ HasOrderable(a)
  <2>1. /\ HeapShape(a) /\ a.count = h.count + 1 /\ EntryAt(a, h.count) = entry
        /\ \A i \in 0 .. h.count - 1 : EntryAt(a, i) = EntryAt(h, i)
        /\ \E slot :
              /\ slot \notin SlotsInUse(h)
              /\ SlotsInUse(a) = SlotsInUse(h) \cup {slot}
              /\ a.values[slot] = entry
              /\ \A s \in SlotsInUse(h) : a.values[s] = h.values[s]
    BY AppendEffect
  <2> HIDE DEF a
  <2> QED
    BY <2>1 DEF HasOrderable
<1> HIDE DEF a
<1>4. c.heap = a /\ c.entry = entry /\ first.heap = a /\ first.at = h.count
  BY DEF a
<1>5. OrderedButAbove(a, h.count)
  <2>1. \A i \in 1 .. a.count - 1 :
          /\ i # h.count => i \in 1 .. h.count - 1 /\ i \in 0 .. h.count - 1
          /\ Parent(i) \in 0 .. h.count - 1 /\ Parent(i) # h.count
    BY <1>0, <1>3, PositionsFormTree
  <2> QED
    BY <1>3, <2>1 DEF OrderedButAbove, SkipsOver, HeapOrdered, NotAbove
<1> HIDE DEF c, first
<1>6. RiseOrder(c, 0, first)
  <2>1. h.count \in 0 .. a.count - 1 /\ h.count + 0 <= a.count - 1
    BY <1>0, <1>3
  <2> QED
    BY <1>3, <1>4, <1>5, <2>1 DEF RiseOrder, Rising, Rearranged
<1>7. ASSUME NEW k \in Nat, NEW work, RiseOrder(c, k, work)
      PROVE  RiseOrder(c, k + 1, RiseTurn(c, work, k + 1))
  <2> DEFINE w == work.heap
             at == work.at
             p == Parent(at)
             d == Swap(w, at, p)
  <2>1. /\ at \in 0 .. a.count - 1 /\ Rearranged(a, w) /\ HeapShape(w) /\ w.count = a.count
        /\ HasOrderable(w) /\ OrderedButAbove(w, at) /\ EntryAt(w, at) = entry
        /\ Settled(w, at) \/ at + k <= a.count - 1
    BY <1>4, <1>7 DEF RiseOrder, Rising, Rearranged
  <2>2. a.count \in Nat /\ a.count > 0
    BY <1>0, <1>3
  <2>3. at > 0 => p \in 0 .. a.count - 1 /\ p < at
    BY <2>1, <2>2, PositionsFormTree
  <2>4. at > 0 => (Compare(entry, EntryAt(w, p)) > 0 <=> ~NotAbove(EntryAt(w, at), EntryAt(w, p)))
    <3>1. \A i \in 0 .. w.count - 1 : IsOrderable(EntryAt(w, i))
      BY <2>1, PositionsOrderable
    <3> HIDE DEF p, at, w
    <3>2. at > 0 => IsOrderable(EntryAt(w, at)) /\ IsOrderable(EntryAt(w, p))
      BY <2>1, <2>3, <3>1
    <3> QED
      BY <2>1, <3>2, CompareIsPreorder
  <2>5. CASE Settled(w, at)
    <3>1. Rise(work, entry) = work
      BY <2>1, <2>4, <2>5 DEF Rise, Settled
    <3> QED
      BY <1>4, <1>7, <2>5, <3>1 DEF RiseTurn, RiseOrder, Rising
  <2>6. CASE ~Settled(w, at)
    <3>1. at > 0 /\ ~NotAbove(EntryAt(w, at), EntryAt(w, p)) /\ at \in 1 .. w.count - 1
      BY <2>1, <2>2, <2>6 DEF Settled
    <3>2. Rise(work, entry) = [heap |-> d, at |-> p]
      BY <2>4, <3>1 DEF Rise
    <3>3. OrderedButAbove(d, p)
      BY <2>1, <3>1, RiseKeepsOrder
    <3> HIDE DEF p
    <3>4. Rearranged(w, d) /\ EntryAt(d, p) = entry
      BY <2>1, <2>3, <3>1, SwapRearranges, SwapEntries
    <3> HIDE DEF d
    <3>5. HasOrderable(d) /\ Rearranged(a, d)
      BY <2>1, <3>4, RearrangedOrderable DEF Rearranged
    <3>6. p \in 0 .. a.count - 1 /\ p + (k + 1) <= a.count - 1
      BY <2>1, <2>2, <2>3, <2>6, <3>1
    <3> QED
      BY <1>4, <3>2, <3>3, <3>4, <3>5, <3>6 DEF RiseTurn, RiseOrder, Rising
  <2> QED
    BY <2>5, <2>6
<1>8. RiseOrder(c, h.count, up[h.count])
  <2>1. \A k \in Nat : \A x : RiseOrder(c, k, x) => RiseOrder(c, k + 1, RiseTurn(c, x, k + 1))
    BY <1>7
  <2> QED
    BY <1>0, <1>1, <1>6, <2>1, Climbs!IterationInvariant
<1> DEFINE d == up[h.count].heap
           at == up[h.count].at
<1>9. /\ at \in 0 .. a.count - 1 /\ d.count = a.count
      /\ OrderedButAbove(d, at)
      /\ Settled(d, at) \/ at + h.count <= a.count - 1
  BY <1>4, <1>8 DEF RiseOrder, Rising, Rearranged
<1> HIDE DEF d, at
<1>10. Settled(d, at)
  BY <1>0, <1>3, <1>9 DEF Settled
<1>11. \A i \in 1 .. d.count - 1 : NotAbove(EntryAt(d, i), EntryAt(d, Parent(i)))
  BY <1>9, <1>10 DEF Settled, OrderedButAbove
<1> QED
  BY <1>2, <1>11 DEF HeapOrdered, NotAbove, d

-----------------------------------------------------------------------------
(****************************************************************************)
(* The heap with the key lists.                                             *)
(****************************************************************************)
PendingEntry ==
  [state : State, goal : Goal, value : Int, assumption : 0 .. LastAssumption, timestamp : Nat]

KeyOf(heap, slot) == <<heap.values[slot].state, heap.values[slot].goal>>

\* The entries are pending pairs, each in one slot, and the key lists have their keys.
\* The heap is ordered unless there are assumptions to choose from.
HeapHasKeys(heap, keys) ==
  /\ HeapShape(heap)
  /\ keys \in [Goal -> SUBSET State]
  /\ \A slot \in SlotsInUse(heap) : heap.values[slot] \in PendingEntry
  /\ \A a, b \in SlotsInUse(heap) : KeyOf(heap, a) = KeyOf(heap, b) => a = b
  /\ {KeyOf(heap, slot) : slot \in SlotsInUse(heap)} = {p \in State \X Goal : p[1] \in keys[p[2]]}
  /\ AssumptionsCount <= 1 => HeapOrdered(heap)

\* With one assumption at most, the entries are orderable.
LEMMA PendingIsOrderable ==
  ASSUME NEW entry \in PendingEntry, AssumptionsCount <= 1
  PROVE  IsOrderable(entry)
<1>1. LastAssumption = 0
  BY CountAssumption DEF LastAssumption
<1> QED
  BY <1>1 DEF PendingEntry, IsOrderable

WorkOK(work) == HeapHasKeys(work.heap, work.keys)

\* The empty heap and the empty key lists.
LEMMA EmptyWorkOK == WorkOK(EmptyWork) /\ \A j \in Goal : EmptyWork.keys[j] = {}
<1> DEFINE h == EmptyHeap(INITIAL_HEAP_SIZE)
           keys == [j \in Goal |-> {}]
           values == [slot \in 0 .. INITIAL_HEAP_SIZE - 1 |-> Uninitialized]
           ptrs == [i \in 0 .. INITIAL_HEAP_SIZE - 1 |-> i]
<1>1. h = [values |-> values, values_ptrs |-> ptrs, size |-> INITIAL_HEAP_SIZE, count |-> 0]
  BY DEF EmptyHeap
<1>2. HeapShape(h)
  <2>1. /\ INITIAL_HEAP_SIZE \in Nat \ {0} /\ 0 \in 0 .. INITIAL_HEAP_SIZE
        /\ values = [slot \in 0 .. INITIAL_HEAP_SIZE - 1 |-> values[slot]]
        /\ ptrs \in [0 .. INITIAL_HEAP_SIZE - 1 -> 0 .. INITIAL_HEAP_SIZE - 1]
        /\ \A i, k \in 0 .. INITIAL_HEAP_SIZE - 1 : ptrs[i] = ptrs[k] => i = k
        /\ \A slot \in 0 .. INITIAL_HEAP_SIZE - 1 :
             \E i \in 0 .. INITIAL_HEAP_SIZE - 1 : ptrs[i] = slot
    BY WorklistAssumption
  <2> HIDE DEF values, ptrs, h
  <2> QED
    BY <1>1, <2>1, MadeHeap
<1>3. h.count = 0
  BY <1>1
<1> HIDE DEF h
<1>4. SlotsInUse(h) = {}
  BY <1>3 DEF SlotsInUse
<1>5. HeapOrdered(h)
  BY <1>3 DEF HeapOrdered
<1>6. HeapHasKeys(h, keys)
  BY <1>2, <1>4, <1>5 DEF HeapHasKeys
<1> QED
  BY <1>6 DEF EmptyWork, WorkOK, h

\* The keys of goal j have grown by S.
KeysAdded(old, new, j, S) ==
  \A i \in Goal : new[i] = IF i = j THEN old[i] \cup S ELSE old[i]

\* An entry whose key is new is added with its key; any other changes nothing.
LEMMA AddUnlessKnownEffect ==
  ASSUME NEW work, WorkOK(work), NEW entry \in PendingEntry
  PROVE  /\ WorkOK(AddUnlessKnown(work, entry))
         /\ KeysAdded(work.keys, AddUnlessKnown(work, entry).keys, entry.goal, {entry.state})
<1> DEFINE s == entry.state
           j == entry.goal
           keys == [work.keys EXCEPT ![j] = @ \cup {s}]
           h == work.heap
           a == AddEntry(h, entry)
<1>0. s \in State /\ j \in Goal
  BY DEF PendingEntry
<1>1. /\ HeapShape(h) /\ work.keys \in [Goal -> SUBSET State]
      /\ \A slot \in SlotsInUse(h) : h.values[slot] \in PendingEntry
      /\ \A x, y \in SlotsInUse(h) : KeyOf(h, x) = KeyOf(h, y) => x = y
      /\ {KeyOf(h, slot) : slot \in SlotsInUse(h)}
           = {p \in State \X Goal : p[1] \in work.keys[p[2]]}
      /\ AssumptionsCount <= 1 => HeapOrdered(h)
  BY DEF WorkOK, HeapHasKeys
<1>2. CASE s \in work.keys[j]
  <2>1. keys = work.keys
    BY <1>1, <1>2
  <2> QED
    BY <1>2, <2>1 DEF AddUnlessKnown, KeysAdded
<1>3. CASE s \notin work.keys[j]
  <2>1. AddUnlessKnown(work, entry) = [heap |-> a, keys |-> keys]
    BY <1>3 DEF AddUnlessKnown
  <2>2. Rearranged(Appended(h, entry), a)
    BY <1>1, AddRearranges
  <2>3. PICK new :
          /\ new \notin SlotsInUse(h)
          /\ SlotsInUse(Appended(h, entry)) = SlotsInUse(h) \cup {new}
          /\ Appended(h, entry).values[new] = entry
          /\ \A slot \in SlotsInUse(h) : Appended(h, entry).values[slot] = h.values[slot]
    BY <1>1, AppendEffect
  <2>4. /\ HeapShape(a) /\ SlotsInUse(a) = SlotsInUse(h) \cup {new}
        /\ a.values[new] = entry
        /\ \A slot \in SlotsInUse(h) : a.values[slot] = h.values[slot]
    BY <2>2, <2>3 DEF Rearranged
  <2>5. /\ KeyOf(a, new) = <<s, j>>
        /\ \A slot \in SlotsInUse(h) : KeyOf(a, slot) = KeyOf(h, slot)
    BY <2>4 DEF KeyOf
  <2>6. \A slot \in SlotsInUse(h) : KeyOf(h, slot) # <<s, j>>
    BY <1>1, <1>3
  <2>7. keys \in [Goal -> SUBSET State]
    BY <1>0, <1>1
  <2>8. {p \in State \X Goal : p[1] \in keys[p[2]]}
          = {p \in State \X Goal : p[1] \in work.keys[p[2]]} \cup {<<s, j>>}
    BY <1>0, <1>1
  <2>14. AssumptionsCount <= 1 => HeapOrdered(a)
    <3> SUFFICES ASSUME AssumptionsCount <= 1 PROVE HeapOrdered(a)
      OBVIOUS
    <3>1. HasOrderable(h) /\ IsOrderable(entry) /\ HeapOrdered(h)
      BY <1>1, PendingIsOrderable DEF HasOrderable
    <3> QED
      BY <1>1, <3>1, AddKeepsOrder
  <2> HIDE DEF a, keys, s, j, h
  <2>9. {KeyOf(a, slot) : slot \in SlotsInUse(a)}
          = {KeyOf(h, slot) : slot \in SlotsInUse(h)} \cup {<<s, j>>}
    BY <2>4, <2>5
  <2>10. \A slot \in SlotsInUse(a) : a.values[slot] \in PendingEntry
    BY <1>1, <2>4
  <2>11. \A x, y \in SlotsInUse(a) : KeyOf(a, x) = KeyOf(a, y) => x = y
    BY <1>1, <2>3, <2>4, <2>5, <2>6
  <2>12. HeapHasKeys(a, keys)
    BY <1>1, <2>4, <2>7, <2>8, <2>9, <2>10, <2>11, <2>14 DEF HeapHasKeys
  <2>13. KeysAdded(work.keys, keys, j, {s})
    BY <1>0, <1>1 DEF KeysAdded, keys
  <2> QED
    BY <2>1, <2>12, <2>13 DEF WorkOK, s, j
<1> QED
  BY <1>2, <1>3

\* A sequence of SetToSeqs has every element of the set.
LEMMA OrderHasAll ==
  ASSUME NEW S, IsFiniteSet(S), NEW order \in SetToSeqs(S)
  PROVE  /\ Cardinality(S) \in Nat /\ DOMAIN order = 1 .. Cardinality(S)
         /\ order \in [1 .. Cardinality(S) -> S]
         /\ {order[n] : n \in 1 .. Cardinality(S)} = S
<1> DEFINE D == 1 .. Cardinality(S)
<1>1. order \in [D -> S] /\ \A i, k \in D : i # k => order[i] # order[k]
  BY DEF SetToSeqs
<1>2. Cardinality(S) \in Nat
  BY FS_CardinalityType
<1>3. IsFiniteSet(D) /\ Cardinality(D) = Cardinality(S)
  BY <1>2, FS_Interval
<1>4. order \in Injection(D, S)
  BY <1>1 DEF Injection, IsInjective
<1>5. order \in Surjection(D, S)
  BY <1>3, <1>4, FS_Injection
<1>6. \A t \in S : \E i \in D : order[i] = t
  BY <1>5 DEF Surjection
<1> QED
  BY <1>1, <1>2, <1>6

-----------------------------------------------------------------------------
\* The loop over the transitions that enter a state, and its invariant.
PredecessorTurn(c, work, u) ==
  AddUnlessKnown(work, PendingState(u, c.goal, SeenRank(c.ranks, c.stale, u, c.goal), c.time))
PredecessorsAdded(c, k, work) ==
  /\ WorkOK(work)
  /\ KeysAdded(c.keys, work.keys, c.goal, {c.order[n] : n \in 1 .. k})

Predecessor == INSTANCE Iteration WITH Op <- PredecessorTurn, Inv <- PredecessorsAdded

\* The entry that a predecessor gets is one.
LEMMA SeenRankEntry ==
  ASSUME NEW g \in Game, NEW R, IsRanking(g, R), NEW stale \in StaleAssumption,
         NEW u \in State, NEW j \in Goal, NEW time \in Nat
  PROVE  PendingState(u, j, SeenRank(R, stale, u, j), time) \in PendingEntry
<1>1. R[j][u] \in RankOf(g, j) /\ MaxDelta(g, j) \in Nat
  BY MaxDeltaType DEF IsRanking
<1>2. stale[u] \in 0 .. LastAssumption
  BY DEF StaleAssumption
<1>3. 0 \in 0 .. LastAssumption
  BY CountAssumption DEF LastAssumption
<1>4. CASE R[j][u] = Infinite
  BY <1>2, <1>4 DEF SeenRank, PendingState, PendingEntry, Infinite, IsInfinite, RANKING_INFINITY
<1>5. CASE R[j][u] \in [value : 0 .. MaxDelta(g, j), assumption : 0 .. LastAssumption]
  BY <1>1, <1>5 DEF SeenRank, PendingState, PendingEntry, IsInfinite, RANKING_INFINITY
<1> QED
  BY <1>1, <1>4, <1>5 DEF RankOf

\* All predecessors of the state are known afterwards.
LEMMA AddPredecessorsEffect ==
  ASSUME NEW g \in Game, NEW s \in State, NEW order \in InverseOrders(g, s),
         NEW j \in Goal, NEW R, IsRanking(g, R), NEW stale \in StaleAssumption,
         NEW time \in Nat, NEW work, WorkOK(work)
  PROVE  /\ WorkOK(AddPredecessors(work, order, j, R, stale, time))
         /\ KeysAdded(work.keys, AddPredecessors(work, order, j, R, stale, time).keys,
                      j, Predecessors(g, s))
<1> DEFINE c == [goal |-> j, ranks |-> R, stale |-> stale, time |-> time,
                 keys |-> work.keys, order |-> order]
           iter == CHOOSE it : Predecessor!IsFold(it, c, work, order, DOMAIN order)
           preds == Predecessors(g, s)
           size == Cardinality(preds)
<1>1. /\ size \in Nat /\ DOMAIN order = 1 .. size /\ order \in [1 .. size -> preds]
      /\ {order[n] : n \in 1 .. size} = preds
  <2>1. preds \in SUBSET State /\ IsFiniteSet(preds)
    BY StateAssumption, FS_Subset DEF Predecessors
  <2> HIDE DEF preds
  <2> QED
    BY <2>1, OrderHasAll DEF InverseOrders, preds
<1>2. Predecessor!IsFold(iter, c, work, order, DOMAIN order)
  <2>1. \E it : Predecessor!IsFold(it, c, work, order, 1 .. size)
    <3> HIDE DEF c, size
    <3> QED
      BY <1>1, Predecessor!FoldExists, Zenon
  <2> QED
    BY <1>1, <2>1, Zenon
<1>3. AddPredecessors(work, order, j, R, stale, time) = iter[DOMAIN order]
  BY Zenon DEF AddPredecessors, FoldLeft, MapThenFoldSet, Max, Predecessor!IsFold, PredecessorTurn
<1> HIDE DEF iter
<1>4. PredecessorsAdded(c, 0, work)
  <2>1. {order[n] : n \in 1 .. 0} = {}
    OBVIOUS
  <2>2. KeysAdded(work.keys, work.keys, j, {})
    BY DEF KeysAdded
  <2> QED
    BY <2>1, <2>2 DEF PredecessorsAdded
<1>5. ASSUME NEW k \in 0 .. size - 1, NEW w, PredecessorsAdded(c, k, w)
      PROVE  PredecessorsAdded(c, k + 1, PredecessorTurn(c, w, order[k + 1]))
  <2> DEFINE u == order[k + 1]
             entry == PendingState(u, j, SeenRank(R, stale, u, j), time)
  <2>1. u \in State
    BY <1>1 DEF Predecessors
  <2>2. entry \in PendingEntry
    BY <2>1, SeenRankEntry
  <2>3. entry.state = u /\ entry.goal = j
    BY DEF PendingState
  <2>4. WorkOK(w) /\ KeysAdded(work.keys, w.keys, j, {order[n] : n \in 1 .. k})
    BY <1>5 DEF PredecessorsAdded
  <2>5. PredecessorTurn(c, w, u) = AddUnlessKnown(w, entry)
    BY DEF PredecessorTurn
  <2>6. {order[n] : n \in 1 .. k} \cup {u} = {order[n] : n \in 1 .. k + 1}
    <3>1. \A n \in 1 .. k + 1 : n \in 1 .. k \/ n = k + 1
      BY <1>1
    <3>2. k + 1 \in 1 .. k + 1 /\ \A n \in 1 .. k : n \in 1 .. k + 1
      BY <1>1
    <3> QED
      BY <3>1, <3>2
  <2> HIDE DEF entry, u
  <2>7. WorkOK(PredecessorTurn(c, w, u))
        /\ KeysAdded(w.keys, PredecessorTurn(c, w, u).keys, j, {u})
    BY <2>2, <2>3, <2>4, <2>5, AddUnlessKnownEffect
  <2>8. KeysAdded(work.keys, PredecessorTurn(c, w, u).keys, j,
                  {order[n] : n \in 1 .. k} \cup {u})
    BY <2>4, <2>7 DEF KeysAdded
  <2> QED
    BY <2>6, <2>7, <2>8 DEF PredecessorsAdded, u
<1>6. PredecessorsAdded(c, size, iter[1 .. size])
  <2> HIDE DEF c, size
  <2> QED
    BY <1>1, <1>2, <1>4, <1>5, Predecessor!FoldInvariant
<1> QED
  BY <1>1, <1>3, <1>6 DEF PredecessorsAdded

-----------------------------------------------------------------------------
\* The ranking loop has its own copy of GR1Game: the two are the same.
LEMMA SameRanking ==
  /\ Ranking!Game = Game /\ Ranking!Goal = Goal
  /\ Ranking!Infinite = Infinite /\ Ranking!InitialRank = InitialRank
  /\ \A r : Ranking!IsInfinite(r) <=> IsInfinite(r)
  /\ \A g, R : Ranking!IsRanking(g, R) <=> IsRanking(g, R)
  /\ \A g, s : Ranking!IsDeadlock(g, s) <=> IsDeadlock(g, s)
  /\ \A g, s : Ranking!Predecessors(g, s) = Predecessors(g, s)
  /\ \A g, s, j : Ranking!SatisfiesGuarantee(g, s, j) <=> SatisfiesGuarantee(g, s, j)
  /\ \A g, s : Ranking!SatisfiesAssumption(g, s, Ranking!FirstAssumption)
                 <=> SatisfiesAssumption(g, s, FirstAssumption)
  /\ \A g, R, s, j : Ranking!IsStable(g, R, s, j) <=> IsStable(g, R, s, j)
  /\ \A g, R, s, j : Ranking!Update(g, R, s, j) = Update(g, R, s, j)
<1>1. /\ Ranking!Goal = Goal /\ Ranking!AssumptionIndex = AssumptionIndex
      /\ Ranking!Option = Option
      /\ Ranking!Infinite = Infinite /\ Ranking!InitialRank = InitialRank
      /\ Ranking!FirstAssumption = FirstAssumption
      /\ Ranking!LastAssumption = LastAssumption
  BY DEF Ranking!Goal, Goal, Ranking!AssumptionIndex, AssumptionIndex, Ranking!Option, Option,
         Ranking!Infinite, Infinite, Ranking!RANKING_INFINITY, RANKING_INFINITY,
         Ranking!InitialRank, InitialRank, Ranking!FirstAssumption, FirstAssumption,
         Ranking!LastAssumption, LastAssumption
<1>2. Ranking!Game = Game
  BY <1>1 DEF Ranking!Game, Game
<1>3. \A r : Ranking!IsInfinite(r) <=> IsInfinite(r)
  BY DEF Ranking!IsInfinite, IsInfinite, Ranking!RANKING_INFINITY, RANKING_INFINITY
<1>4. /\ \A r, q : Ranking!RankingGt(r, q) <=> RankingGt(r, q)
      /\ \A r, q : Ranking!RankingGeq(r, q) <=> RankingGeq(r, q)
  BY <1>3 DEF Ranking!RankingGt, RankingGt, Ranking!RankingGeq, RankingGeq
<1>5. \A R : Ranking!Lowest(R) = Lowest(R) /\ Ranking!Highest(R) = Highest(R)
  BY DEF Ranking!Lowest, Lowest, Ranking!Highest, Highest, Ranking!RankingGeq, RankingGeq,
         Ranking!RankingGt, RankingGt, Ranking!IsInfinite, IsInfinite,
         Ranking!RANKING_INFINITY, RANKING_INFINITY
<1>6. /\ \A g, s : Ranking!IsDeadlock(g, s) <=> IsDeadlock(g, s)
      /\ \A g, s : Ranking!Predecessors(g, s) = Predecessors(g, s)
      /\ \A g, s, j : Ranking!SatisfiesGuarantee(g, s, j) <=> SatisfiesGuarantee(g, s, j)
      /\ \A g, s, a : Ranking!SatisfiesAssumption(g, s, a) <=> SatisfiesAssumption(g, s, a)
  BY DEF Ranking!IsDeadlock, IsDeadlock, Ranking!Predecessors, Predecessors,
         Ranking!SatisfiesGuarantee, SatisfiesGuarantee,
         Ranking!SatisfiesAssumption, SatisfiesAssumption
<1>7. \A g, s, j : Ranking!TargetGoal(g, s, j) = TargetGoal(g, s, j)
  BY <1>6 DEF Ranking!TargetGoal, TargetGoal
<1>8. \A g, R, s, j : Ranking!BestSuccessor(g, R, s, j) = BestSuccessor(g, R, s, j)
  BY <1>5, <1>7 DEF Ranking!BestSuccessor, BestSuccessor
<1>9. \A g, j : Ranking!MaxDelta(g, j) = MaxDelta(g, j)
  BY DEF Ranking!MaxDelta, MaxDelta, Ranking!Delta, Delta, Ranking!Listed, Listed,
         Ranking!AssumptionIndex, AssumptionIndex, Ranking!Cardinality, Cardinality
<1>10. \A g, s, j, r : Ranking!Increment(g, s, j, r) = Increment(g, s, j, r)
  BY <1>1, <1>3, <1>6, <1>9 DEF Ranking!Increment, Increment
<1>11. \A g, R, s, j : Ranking!Update(g, R, s, j) = Update(g, R, s, j)
  BY <1>4, <1>8, <1>10 DEF Ranking!Update, Update
<1>12. \A g, R, s, j : Ranking!IsStable(g, R, s, j) <=> IsStable(g, R, s, j)
  BY <1>1, <1>3, <1>4, <1>6, <1>8 DEF Ranking!IsStable, IsStable
<1>13. Ranking!Rank = Rank
  BY <1>1 DEF Ranking!Rank, Rank, Ranking!FiniteRank, FiniteRank
<1>14. \A g, j : Ranking!RankOf(g, j) = RankOf(g, j)
  BY <1>1, <1>9 DEF Ranking!RankOf, RankOf
<1>15. \A g, R : Ranking!IsRanking(g, R) <=> IsRanking(g, R)
  BY <1>1, <1>13, <1>14 DEF Ranking!IsRanking, IsRanking
<1> QED
  BY <1>1, <1>2, <1>3, <1>6, <1>11, <1>12, <1>15

\* The rankings that the loop starts from.
LEMMA StartRanking ==
  ASSUME NEW g \in Game
  PROVE  /\ Ranking!InitialRanking(g)
              = [j \in Goal |-> [s \in State |-> IF IsDeadlock(g, s) THEN Infinite ELSE InitialRank]]
         /\ IsRanking(g, Ranking!InitialRanking(g))
<1>1. Ranking!InitialRanking(g)
        = [j \in Goal |-> [s \in State |-> IF IsDeadlock(g, s) THEN Infinite ELSE InitialRank]]
  BY SameRanking DEF Ranking!InitialRanking
<1>2. \A j \in Goal : InitialRank \in RankOf(g, j) /\ Infinite \in RankOf(g, j)
                      /\ RankOf(g, j) \subseteq Rank
  <2> TAKE j \in Goal
  <2>1. MaxDelta(g, j) \in Nat /\ LastAssumption \in Nat
    BY MaxDeltaType, CountAssumption DEF LastAssumption
  <2> QED
    BY <2>1, RankOfIsRank DEF RankOf, InitialRank, FirstAssumption
<1> QED
  BY <1>1, <1>2 DEF IsRanking

-----------------------------------------------------------------------------
\* The two loops that fill the worklist, and their invariants.
FirstTurn(c, work, p) == AddFirst(c.game, work, p)
FirstsAdded(c, k, work) ==
  /\ WorkOK(work)
  /\ \A i \in Goal :
       work.keys[i] = {s \in State : /\ MayNeedLift(c.game, <<s, i>>)
                                     /\ \E n \in 1 .. k : c.pairs[n] = <<s, i>>}

DeadlockTurn(c, work, p) == AddBeforeDeadlock(c.game, c.inverse, c.stale, work, p)
DeadlocksAdded(c, k, work) ==
  /\ WorkOK(work)
  /\ \A i \in Goal :
       work.keys[i] = c.keys[i] \cup
         UNION {Predecessors(c.game, s) : s \in {t \in State :
                  IsDeadlock(c.game, t) /\ \E n \in 1 .. k : c.pairs[n] = <<t, i>>}}

Firsts == INSTANCE Iteration WITH Op <- FirstTurn, Inv <- FirstsAdded
Deadlocks == INSTANCE Iteration WITH Op <- DeadlockTurn, Inv <- DeadlocksAdded

\* The position of a pair in two nested loops of L and G turns.
LEMMA PositionSplits ==
  ASSUME NEW G \in Nat \ {0}, NEW L \in Nat, NEW n \in 1 .. L * G
  PROVE  (n - 1) \div G + 1 \in 1 .. L /\ (n - 1) % G \in 0 .. G - 1
OBVIOUS

LEMMA PositionJoins ==
  ASSUME NEW G \in Nat \ {0}, NEW L \in Nat, NEW i \in 1 .. L, NEW r \in 0 .. G - 1
  PROVE  \E n \in 1 .. L * G : (n - 1) \div G + 1 = i /\ (n - 1) % G = r
<1> DEFINE q == i - 1
           m == q * G + r
<1>1. q \in Nat /\ m \in Nat
  OBVIOUS
<1>2. m + 1 \in 1 .. L * G
  OBVIOUS
<1>3. m \div G = q /\ m % G = r
  <2> HIDE DEF q
  <2> QED
    BY <1>1
<1>4. (m + 1) - 1 = m /\ q + 1 = i
  BY <1>1
<1> HIDE DEF q, m
<1> QED
  BY <1>2, <1>3, <1>4

\* The nested loops reach every pair of a state and a goal.
LEMMA PairsReachAll ==
  ASSUME NEW order \in SetToSeqs(State)
  PROVE  LET size == Len(order) * GuaranteesCount
         IN  /\ size \in Nat /\ DOMAIN PairsInOrder(order) = 1 .. size
             /\ \A n \in 1 .. size : PairsInOrder(order)[n] \in State \X Goal
             /\ \A p \in State \X Goal : \E n \in 1 .. size : PairsInOrder(order)[n] = p
<1> DEFINE L == Cardinality(State)
           G == GuaranteesCount
           size == Len(order) * G
           pairs == PairsInOrder(order)
<1>0. G \in Nat \ {0}
  BY CountAssumption
<1>1. /\ L \in Nat /\ DOMAIN order = 1 .. L /\ order \in [1 .. L -> State]
      /\ {order[n] : n \in 1 .. L} = State
  BY StateAssumption, OrderHasAll
<1>2. Len(order) = L
  <2>1. order \in Seq(State)
    BY <1>1
  <2> QED
    BY <1>1, <2>1
<1> HIDE DEF L, G
<1>3. size \in Nat /\ DOMAIN pairs = 1 .. size
      /\ \A n \in 1 .. size : pairs[n] = <<order[(n - 1) \div G + 1], (n - 1) % G>>
  <2>1. size \in Nat
    BY <1>0, <1>1, <1>2
  <2> QED
    BY <2>1 DEF PairsInOrder, G
<1>4. ASSUME NEW n \in 1 .. size PROVE pairs[n] \in State \X Goal
  <2>1. n \in 1 .. L * G
    BY <1>2
  <2>2. (n - 1) \div G + 1 \in 1 .. L /\ (n - 1) % G \in 0 .. G - 1
    BY <1>0, <1>1, <2>1, PositionSplits
  <2>3. (n - 1) % G \in Goal
    BY <2>2 DEF Goal, G
  <2>4. order[(n - 1) \div G + 1] \in State
    BY <1>1, <2>2
  <2>5. pairs[n] = <<order[(n - 1) \div G + 1], (n - 1) % G>>
    BY <1>3
  <2> HIDE DEF pairs, size
  <2> QED
    BY <2>3, <2>4, <2>5
<1>5. ASSUME NEW s \in State, NEW j \in Goal
      PROVE  \E n \in 1 .. size : pairs[n] = <<s, j>>
  <2>1. PICK i \in 1 .. L : order[i] = s
    BY <1>1
  <2>2. j \in 0 .. G - 1
    BY DEF Goal, G
  <2>3. PICK n \in 1 .. L * G : (n - 1) \div G + 1 = i /\ (n - 1) % G = j
    BY <1>0, <1>1, <2>2, PositionJoins
  <2> HIDE DEF pairs
  <2> QED
    BY <1>2, <1>3, <2>1, <2>3
<1> HIDE DEF pairs, size
<1>6. \A p \in State \X Goal : \E n \in 1 .. size : pairs[n] = p
  BY <1>5
<1> QED
  BY <1>3, <1>4, <1>6 DEF G, pairs, size

\* After the first loop the key lists have the pairs that may need a lift at once.
LEMMA FirstLoopEffect ==
  ASSUME NEW g \in Game, NEW order \in SetToSeqs(State)
  PROVE  LET work == FoldLeft(LAMBDA w, p : AddFirst(g, w, p), EmptyWork, PairsInOrder(order))
         IN  /\ WorkOK(work)
             /\ \A i \in Goal : work.keys[i] = {s \in State : MayNeedLift(g, <<s, i>>)}
<1> DEFINE pairs == PairsInOrder(order)
           size == Len(order) * GuaranteesCount
           c == [game |-> g, pairs |-> pairs]
           work == FoldLeft(LAMBDA w, p : AddFirst(g, w, p), EmptyWork, pairs)
           iter == CHOOSE it : Firsts!IsFold(it, c, EmptyWork, pairs, DOMAIN pairs)
<1>1. /\ size \in Nat /\ DOMAIN pairs = 1 .. size
      /\ \A n \in 1 .. size : pairs[n] \in State \X Goal
      /\ \A p \in State \X Goal : \E n \in 1 .. size : pairs[n] = p
  BY PairsReachAll
<1> HIDE DEF pairs, size
<1>2. Firsts!IsFold(iter, c, EmptyWork, pairs, DOMAIN pairs)
  <2>1. \E it : Firsts!IsFold(it, c, EmptyWork, pairs, 1 .. size)
    <3> HIDE DEF c
    <3> QED
      BY <1>1, Firsts!FoldExists, Zenon
  <2> QED
    BY <1>1, <2>1, Zenon
<1>3. work = iter[DOMAIN pairs]
  BY Zenon DEF FoldLeft, MapThenFoldSet, Max, Firsts!IsFold, FirstTurn
<1> HIDE DEF iter, work
<1>4. FirstsAdded(c, 0, EmptyWork)
  BY EmptyWorkOK DEF FirstsAdded
<1>5. ASSUME NEW k \in 0 .. size - 1, NEW w, FirstsAdded(c, k, w)
      PROVE  FirstsAdded(c, k + 1, FirstTurn(c, w, pairs[k + 1]))
  <2>1. k \in Nat /\ k + 1 \in 1 .. size /\ (\A n \in 1 .. k + 1 : n \in 1 .. k \/ n = k + 1)
        /\ \A n \in 1 .. k : n \in 1 .. k + 1
        /\ k + 1 \in 1 .. k + 1
    BY <1>1
  <2>2. PICK s \in State, j \in Goal : pairs[k + 1] = <<s, j>>
    BY <1>1, <2>1
  <2>3. /\ WorkOK(w)
        /\ \A i \in Goal : w.keys[i] = {t \in State : /\ MayNeedLift(g, <<t, i>>)
                                                      /\ \E n \in 1 .. k : pairs[n] = <<t, i>>}
    BY <1>5 DEF FirstsAdded
  <2> DEFINE d == FirstTurn(c, w, pairs[k + 1])
             entry == PendingState(s, j, InitialRank, 0)
  <2>4. CASE ~ MayNeedLift(g, <<s, j>>)
    <3>1. d = w
      BY <2>2, <2>4 DEF FirstTurn, AddFirst
    <3> HIDE DEF d
    <3>2. \A i \in Goal : \A t \in State :
            MayNeedLift(g, <<t, i>>) =>
              ((\E n \in 1 .. k : pairs[n] = <<t, i>>) <=> \E n \in 1 .. k + 1 : pairs[n] = <<t, i>>)
      BY <2>1, <2>2, <2>4
    <3>3. FirstsAdded(c, k + 1, d)
      BY <2>3, <3>1, <3>2 DEF FirstsAdded
    <3> QED
      BY <3>3 DEF d
  <2>5. CASE MayNeedLift(g, <<s, j>>)
    <3>1. d = AddUnlessKnown(w, entry)
      BY <2>2, <2>5 DEF FirstTurn, AddFirst
    <3>2. entry \in PendingEntry /\ entry.state = s /\ entry.goal = j
      BY CountAssumption
         DEF PendingState, PendingEntry, InitialRank, FirstAssumption, LastAssumption
    <3> HIDE DEF d, entry
    <3>3. WorkOK(d) /\ KeysAdded(w.keys, d.keys, j, {s})
      BY <2>3, <3>1, <3>2, AddUnlessKnownEffect
    <3>4. ASSUME NEW i \in Goal, NEW t \in State
          PROVE  t \in d.keys[i] <=> /\ MayNeedLift(g, <<t, i>>)
                                     /\ \E n \in 1 .. k + 1 : pairs[n] = <<t, i>>
      <4>1. t \in w.keys[i] <=> /\ MayNeedLift(g, <<t, i>>)
                                /\ \E n \in 1 .. k : pairs[n] = <<t, i>>
        BY <2>3
      <4>2. t \in d.keys[i] <=> t \in w.keys[i] \/ (i = j /\ t = s)
        BY <3>3 DEF KeysAdded
      <4> QED
        BY <2>1, <2>2, <2>5, <4>1, <4>2
    <3>5. \A i \in Goal : d.keys[i] \subseteq State
      BY <3>3 DEF WorkOK, HeapHasKeys
    <3>6. \A i \in Goal : d.keys[i] = {t \in State :
                             /\ MayNeedLift(g, <<t, i>>)
                             /\ \E n \in 1 .. k + 1 : pairs[n] = <<t, i>>}
      BY <3>4, <3>5
    <3> QED
      BY <3>3, <3>6 DEF FirstsAdded, d
  <2> QED
    BY <2>4, <2>5
<1>6. FirstsAdded(c, size, iter[1 .. size])
  <2> HIDE DEF c
  <2> QED
    BY <1>1, <1>2, <1>4, <1>5, Firsts!FoldInvariant
<1>7. WorkOK(work) /\ \A i \in Goal : work.keys[i] = {s \in State : MayNeedLift(g, <<s, i>>)}
  <2>1. c.game = g /\ c.pairs = pairs
    OBVIOUS
  <2> HIDE DEF c
  <2>4. FirstsAdded(c, size, work)
    BY <1>1, <1>3, <1>6
  <2>2. \A i \in Goal : work.keys[i] = {s \in State :
                              MayNeedLift(g, <<s, i>>) /\ \E n \in 1 .. size : pairs[n] = <<s, i>>}
    BY <2>1, <2>4 DEF FirstsAdded
  <2>3. \A s \in State, i \in Goal : \E n \in 1 .. size : pairs[n] = <<s, i>>
    BY <1>1
  <2> QED
    BY <2>2, <2>3, <2>4 DEF FirstsAdded
<1> QED
  BY <1>7 DEF work, pairs

\* What the worklist has at the start: the pairs of InitialPending.
LEMMA InitialWorkEffect ==
  ASSUME NEW g \in Game, NEW order \in SetToSeqs(State), NEW stale \in StaleAssumption,
         NEW inverse, \A s \in State : inverse[s] \in InverseOrders(g, s)
  PROVE  LET work == InitialWork(g, order, inverse, stale)
         IN  /\ WorkOK(work)
             /\ \A i \in Goal : work.keys[i] =
                  {s \in State : MayNeedLift(g, <<s, i>>)} \cup
                  UNION {Predecessors(g, s) : s \in {t \in State : IsDeadlock(g, t)}}
<1> DEFINE pairs == PairsInOrder(order)
           size == Len(order) * GuaranteesCount
           base == FoldLeft(LAMBDA w, p : AddFirst(g, w, p), EmptyWork, pairs)
           c == [game |-> g, pairs |-> pairs, inverse |-> inverse, stale |-> stale,
                 keys |-> base.keys]
           work == InitialWork(g, order, inverse, stale)
           iter == CHOOSE it : Deadlocks!IsFold(it, c, base, pairs, DOMAIN pairs)
<1>1. /\ size \in Nat /\ DOMAIN pairs = 1 .. size
      /\ \A n \in 1 .. size : pairs[n] \in State \X Goal
      /\ \A p \in State \X Goal : \E n \in 1 .. size : pairs[n] = p
  BY PairsReachAll
<1>2. /\ WorkOK(base)
      /\ \A i \in Goal : base.keys[i] = {s \in State : MayNeedLift(g, <<s, i>>)}
  BY FirstLoopEffect
<1>3. work = iter[DOMAIN pairs]
  BY Zenon DEF InitialWork, FoldLeft, MapThenFoldSet, Max, Deadlocks!IsFold, DeadlockTurn
<1> HIDE DEF pairs, size, base, work
<1>4. Deadlocks!IsFold(iter, c, base, pairs, DOMAIN pairs)
  <2>1. \E it : Deadlocks!IsFold(it, c, base, pairs, 1 .. size)
    <3> HIDE DEF c
    <3> QED
      BY <1>1, Deadlocks!FoldExists, Zenon
  <2> QED
    BY <1>1, <2>1, Zenon
<1> HIDE DEF iter
<1>5. DeadlocksAdded(c, 0, base)
  BY <1>2 DEF DeadlocksAdded
<1>6. ASSUME NEW k \in 0 .. size - 1, NEW w, DeadlocksAdded(c, k, w)
      PROVE  DeadlocksAdded(c, k + 1, DeadlockTurn(c, w, pairs[k + 1]))
  <2>1. k \in Nat /\ k + 1 \in 1 .. size /\ (\A n \in 1 .. k + 1 : n \in 1 .. k \/ n = k + 1)
        /\ \A n \in 1 .. k : n \in 1 .. k + 1
        /\ k + 1 \in 1 .. k + 1
    BY <1>1
  <2>2. PICK s \in State, j \in Goal : pairs[k + 1] = <<s, j>>
    BY <1>1, <2>1
  <2> DEFINE Reached(i, m) ==
               {t \in State : IsDeadlock(g, t) /\ \E n \in 1 .. m : pairs[n] = <<t, i>>}
             d == DeadlockTurn(c, w, pairs[k + 1])
  <2>3. /\ WorkOK(w)
        /\ \A i \in Goal : w.keys[i] =
             base.keys[i] \cup UNION {Predecessors(g, t) : t \in Reached(i, k)}
    BY <1>6 DEF DeadlocksAdded
  <2>4. CASE ~ IsDeadlock(g, s)
    <3>1. d = w
      BY <2>2, <2>4 DEF DeadlockTurn, AddBeforeDeadlock
    <3>2. \A i \in Goal : Reached(i, k + 1) = Reached(i, k)
      BY <2>1, <2>2, <2>4
    <3> HIDE DEF d
    <3>3. \A i \in Goal : d.keys[i] =
            base.keys[i] \cup UNION {Predecessors(g, t) : t \in Reached(i, k + 1)}
      BY <2>3, <3>1, <3>2
    <3>4. c.game = g /\ c.pairs = pairs /\ c.keys = base.keys
      OBVIOUS
    <3> HIDE DEF c
    <3> QED
      BY <2>3, <3>1, <3>3, <3>4 DEF DeadlocksAdded, d
  <2>5. CASE IsDeadlock(g, s)
    <3>1. d = AddPredecessors(w, inverse[s], j, Ranking!InitialRanking(g), stale, 0)
      BY <2>2, <2>5 DEF DeadlockTurn, AddBeforeDeadlock
    <3>2. IsRanking(g, Ranking!InitialRanking(g))
      BY StartRanking
    <3> HIDE DEF d
    <3>3. WorkOK(d) /\ KeysAdded(w.keys, d.keys, j, Predecessors(g, s))
      BY <2>3, <3>1, <3>2, AddPredecessorsEffect
    <3>4. ASSUME NEW i \in Goal
          PROVE  d.keys[i] = base.keys[i] \cup UNION {Predecessors(g, t) : t \in Reached(i, k + 1)}
      <4>1. CASE i # j
        <5>1. Reached(i, k + 1) = Reached(i, k)
          BY <2>1, <2>2, <4>1
        <5> QED
          BY <2>3, <3>3, <4>1, <5>1 DEF KeysAdded
      <4>2. CASE i = j
        <5>1. Reached(i, k + 1) = Reached(i, k) \cup {s}
          BY <2>1, <2>2, <2>5, <4>2
        <5> HIDE DEF Reached
        <5>2. d.keys[i] = w.keys[i] \cup Predecessors(g, s)
          BY <3>3, <4>2 DEF KeysAdded
        <5>3. UNION {Predecessors(g, t) : t \in Reached(i, k) \cup {s}}
                = (UNION {Predecessors(g, t) : t \in Reached(i, k)}) \cup Predecessors(g, s)
          OBVIOUS
        <5> QED
          BY <2>3, <5>1, <5>2, <5>3
      <4> QED
        BY <4>1, <4>2
    <3> QED
      BY <3>3, <3>4 DEF DeadlocksAdded, d
  <2> QED
    BY <2>4, <2>5
<1>7. DeadlocksAdded(c, size, iter[1 .. size])
  <2> HIDE DEF c
  <2> QED
    BY <1>1, <1>4, <1>5, <1>6, Deadlocks!FoldInvariant
<1>8. \A i \in Goal : {t \in State : IsDeadlock(g, t) /\ \E n \in 1 .. size : pairs[n] = <<t, i>>}
                        = {t \in State : IsDeadlock(g, t)}
  BY <1>1
<1>9. WorkOK(work) /\ \A i \in Goal : work.keys[i] =
        base.keys[i] \cup UNION {Predecessors(g, s) : s \in {t \in State : IsDeadlock(g, t)}}
  <2>1. c.game = g /\ c.pairs = pairs /\ c.keys = base.keys
    OBVIOUS
  <2>2. iter[1 .. size] = work
    BY <1>1, <1>3, Zenon
  <2> HIDE DEF c
  <2>3. DeadlocksAdded(c, size, work)
    BY <1>7, <2>2, Zenon
  <2>4. ASSUME NEW i \in Goal
        PROVE  work.keys[i] = base.keys[i] \cup
                 UNION {Predecessors(g, s) : s \in {t \in State : IsDeadlock(g, t)}}
    <3> DEFINE seen == {t \in State : IsDeadlock(c.game, t) /\
                                      \E n \in 1 .. size : c.pairs[n] = <<t, i>>}
    <3>1. work.keys[i] = c.keys[i] \cup UNION {Predecessors(c.game, s) : s \in seen}
      BY <2>3, Zenon DEF DeadlocksAdded
    <3>2. seen = {t \in State : IsDeadlock(g, t)}
      BY <1>8, <2>1
    <3> HIDE DEF seen
    <3>3. UNION {Predecessors(c.game, s) : s \in seen}
            = UNION {Predecessors(g, s) : s \in {t \in State : IsDeadlock(g, t)}}
      BY <2>1, <3>2
    <3> QED
      BY <2>1, <3>1, <3>3
  <2> QED
    BY <2>3, <2>4 DEF DeadlocksAdded
<1> QED
  BY <1>2, <1>9 DEF work

-----------------------------------------------------------------------------
\* The loop over the other goals of a state that has lost, and its invariant.
SpreadTurn(c, work, i) == SpreadInfinity(c.order, c.goal, c.ranks, c.stale, c.time, work, i)
SpreadTo(c, k, work) ==
  /\ WorkOK(work)
  /\ \A i \in Goal :
       work.keys[i] = IF i < k /\ i # c.goal THEN c.keys[i] \cup c.preds ELSE c.keys[i]

Spreads == INSTANCE Iteration WITH Op <- SpreadTurn, Inv <- SpreadTo

\* The predecessors of a state that has lost are known for every other goal.
LEMMA SpreadEffect ==
  ASSUME NEW g \in Game, NEW s \in State, NEW order \in InverseOrders(g, s),
         NEW j \in Goal, NEW R, IsRanking(g, R), NEW stale \in StaleAssumption,
         NEW time \in Nat, NEW work, WorkOK(work)
  PROVE  SpreadTo([keys |-> work.keys, goal |-> j, preds |-> Predecessors(g, s)],
                  GuaranteesCount, AddForOthers(work, order, j, R, stale, time))
<1> DEFINE c == [order |-> order, goal |-> j, ranks |-> R, stale |-> stale, time |-> time,
                 keys |-> work.keys, preds |-> Predecessors(g, s)]
           final == AddForOthers(work, order, j, R, stale, time)
           iter == CHOOSE it : Spreads!IsFold(it, c, work, Goals, DOMAIN Goals)
           size == GuaranteesCount
<1>1. /\ size \in Nat \ {0} /\ DOMAIN Goals = 1 .. size
      /\ \A n \in 1 .. size : Goals[n] = n - 1 /\ Goals[n] \in Goal
  BY CountAssumption DEF Goals, Goal
<1>2. final = iter[DOMAIN Goals]
  BY Zenon DEF AddForOthers, FoldLeft, MapThenFoldSet, Max, Spreads!IsFold, SpreadTurn
<1> HIDE DEF final
<1>3. Spreads!IsFold(iter, c, work, Goals, DOMAIN Goals)
  <2>1. \E it : Spreads!IsFold(it, c, work, Goals, 1 .. size)
    <3>1. size \in Nat
      BY <1>1
    <3> HIDE DEF c, size
    <3> QED
      BY <3>1, Spreads!FoldExists, Zenon
  <2> QED
    BY <1>1, <2>1, Zenon
<1> HIDE DEF iter, size
<1>4. c.keys = work.keys /\ c.goal = j /\ c.preds = Predecessors(g, s)
  OBVIOUS
<1>5. \A w, i : SpreadTurn(c, w, i) = IF i = j THEN w
                                      ELSE AddPredecessors(w, order, i, R, stale, time)
  BY DEF SpreadTurn, SpreadInfinity
<1> HIDE DEF c
<1>6. SpreadTo(c, 0, work)
  BY <1>4 DEF SpreadTo, Goal
<1>7. ASSUME NEW k \in 0 .. size - 1, NEW w, SpreadTo(c, k, w)
      PROVE  SpreadTo(c, k + 1, SpreadTurn(c, w, Goals[k + 1]))
  <2> DEFINE d == SpreadTurn(c, w, Goals[k + 1])
  <2>1. /\ k \in Nat /\ Goals[k + 1] = k /\ k \in Goal
        /\ \A i \in Goal : (i < k + 1 <=> i < k \/ i = k) /\ ~ (k < k)
    <3>1. k \in Nat /\ k + 1 \in 1 .. size /\ (k + 1) - 1 = k
      BY <1>1
    <3>2. Goals[k + 1] = k /\ k \in Goal
      BY <1>1, <3>1
    <3> QED
      BY <3>1, <3>2 DEF Goal
  <2>2. /\ WorkOK(w)
        /\ \A i \in Goal : w.keys[i] = IF i < k /\ i # j THEN work.keys[i] \cup Predecessors(g, s)
                                       ELSE work.keys[i]
    BY <1>4, <1>7 DEF SpreadTo
  <2>3. CASE k = j
    <3>1. d = w
      BY <1>5, <2>1, <2>3
    <3> HIDE DEF d
    <3>2. SpreadTo(c, k + 1, d)
      BY <1>4, <2>1, <2>2, <2>3, <3>1 DEF SpreadTo
    <3> QED
      BY <3>2 DEF d
  <2>4. CASE k # j
    <3>1. d = AddPredecessors(w, order, k, R, stale, time)
      BY <1>5, <2>1, <2>4
    <3> HIDE DEF d
    <3>2. WorkOK(d) /\ KeysAdded(w.keys, d.keys, k, Predecessors(g, s))
      BY <2>1, <2>2, <3>1, AddPredecessorsEffect
    <3>3. SpreadTo(c, k + 1, d)
      BY <1>4, <2>1, <2>2, <2>4, <3>2 DEF SpreadTo, KeysAdded
    <3> QED
      BY <3>3 DEF d
  <2> QED
    BY <2>3, <2>4
<1>8. SpreadTo(c, size, iter[1 .. size])
  <2>1. size \in Nat
    BY <1>1
  <2>2. \A k \in 0 .. size - 1 : \A w : SpreadTo(c, k, w) => SpreadTo(c, k + 1, SpreadTurn(c, w, Goals[k + 1]))
    BY <1>7
  <2> QED
    BY <1>1, <1>3, <1>6, <2>1, <2>2, Spreads!FoldInvariant
<1>9. SpreadTo(c, size, final)
  BY <1>1, <1>2, <1>8
<1> QED
  BY <1>4, <1>9 DEF final, size, SpreadTo

-----------------------------------------------------------------------------
(****************************************************************************)
(* The inductive invariant: the key lists have exactly the keys of the      *)
(* entries, which are in slots of their own.  That every position has a     *)
(* slot and every slot a position, free ones included, is what keeps an add *)
(* from overwriting an entry.                                               *)
(****************************************************************************)
WorklistInv ==
  /\ game \in Game
  /\ IsRanking(game, rank)
  /\ pending_processed \in Nat
  /\ HeapHasKeys(pending_list, key_lists)

\* The pairs that the key lists have.
KnownPairs(keys) == {p \in State \X Goal : p[1] \in keys[p[2]]}

\* The pairs in the heap are those that the key lists have.
LEMMA PendingIsKnown ==
  ASSUME NEW heap, NEW keys, HeapHasKeys(heap, keys)
  PROVE  {<<e.state, e.goal>> : e \in Entries(heap)} = KnownPairs(keys)
<1>1. {<<e.state, e.goal>> : e \in Entries(heap)} = {KeyOf(heap, slot) : slot \in SlotsInUse(heap)}
  BY DEF Entries, EntryAt, SlotsInUse, KeyOf
<1> QED
  BY <1>1 DEF HeapHasKeys, KnownPairs

\* What popping does: the pair leaves the heap and its key list.
LEMMA PopsPair ==
  ASSUME WorklistInv, pending_list.count > 0
  PROVE  /\ Popped \in PendingEntry
         /\ <<Popped.state, Popped.goal>> \in Pending
         /\ WorkOK(Remaining)
         /\ KnownPairs(Remaining.keys) = Pending \ {<<Popped.state, Popped.goal>>}
<1> DEFINE h == pending_list
           r == Remaining.heap
           keys == Remaining.keys
           s == Popped.state
           j == Popped.goal
           top == h.values_ptrs[0]
<1>1. /\ HeapShape(h) /\ key_lists \in [Goal -> SUBSET State]
      /\ \A slot \in SlotsInUse(h) : h.values[slot] \in PendingEntry
      /\ \A x, y \in SlotsInUse(h) : KeyOf(h, x) = KeyOf(h, y) => x = y
      /\ {KeyOf(h, slot) : slot \in SlotsInUse(h)} = KnownPairs(key_lists)
      /\ AssumptionsCount <= 1 => HeapOrdered(h)
  BY DEF WorklistInv, HeapHasKeys, KnownPairs
<1>2. r = PopEntry(h) /\ keys = [key_lists EXCEPT ![j] = @ \ {s}]
  BY DEF Remaining
<1>3. /\ top \in SlotsInUse(h) /\ HeapShape(r) /\ r.values = h.values
      /\ SlotsInUse(r) = SlotsInUse(h) \ {top}
  BY <1>1, <1>2, PopEffect
<1>4. Popped = h.values[top]
  BY DEF Popped, PoppedEntry, EntryAt
<1>5. Popped \in PendingEntry /\ s \in State /\ j \in Goal /\ KeyOf(h, top) = <<s, j>>
  BY <1>1, <1>3, <1>4 DEF PendingEntry, KeyOf
<1>6. Pending = KnownPairs(key_lists) /\ <<s, j>> \in Pending
  <2>1. Pending = KnownPairs(key_lists)
    BY PendingIsKnown DEF WorklistInv, Pending
  <2> QED
    BY <1>1, <1>3, <1>5, <2>1
<1>7. KnownPairs(keys) = Pending \ {<<s, j>>} /\ keys \in [Goal -> SUBSET State]
  BY <1>1, <1>2, <1>5, <1>6 DEF KnownPairs
<1>8. \A slot \in SlotsInUse(r) : slot \in SlotsInUse(h) /\ KeyOf(r, slot) = KeyOf(h, slot)
  BY <1>3 DEF KeyOf
<1>11. AssumptionsCount <= 1 => HeapOrdered(r)
  <2> SUFFICES ASSUME AssumptionsCount <= 1 PROVE HeapOrdered(r)
    OBVIOUS
  <2>1. HasOrderable(h)
    BY <1>1, PendingIsOrderable DEF HasOrderable
  <2> QED
    BY <1>1, <1>2, <2>1, PopKeepsOrder
<1> HIDE DEF h, r, keys, s, j, top
<1>9. {KeyOf(r, slot) : slot \in SlotsInUse(r)}
        = {KeyOf(h, slot) : slot \in SlotsInUse(h)} \ {<<s, j>>}
  BY <1>1, <1>3, <1>5, <1>8
<1>10. HeapHasKeys(r, keys)
  BY <1>1, <1>3, <1>6, <1>7, <1>8, <1>9, <1>11 DEF HeapHasKeys, KnownPairs
<1> QED
  BY <1>5, <1>6, <1>7, <1>10 DEF WorkOK, r, keys, s, j

\* The rankings after a lift are rankings.
LEMMA LiftedIsRanking ==
  ASSUME NEW s \in State, NEW j \in Goal, game \in Game, IsRanking(game, rank),
         ~IsStable(game, rank, s, j)
  PROVE  IsRanking(game, Lifted(s, j, Update(game, rank, s, j)))
<1> DEFINE new == Update(game, rank, s, j)
           lifted == Lifted(s, j, new)
<1>1. /\ rank \in [Goal -> [State -> Rank]]
      /\ \A i \in Goal, t \in State : rank[i][t] \in RankOf(game, i)
  BY DEF IsRanking
<1>2. ~IsDeadlock(game, s)
  BY DEF IsStable
<1>3. new \in RankOf(game, j)
  BY <1>1, <1>2, BestSuccessorValue, IncrementType DEF Update
<1>4. \A i \in Goal : RankOf(game, i) \subseteq Rank /\ Infinite \in RankOf(game, i)
  BY RankOfIsRank
<1> HIDE DEF new
<1>5. CASE IsInfinite(new)
  <2>1. lifted = [i \in Goal |-> [rank[i] EXCEPT ![s] = Infinite]]
    BY <1>5 DEF Lifted
  <2> HIDE DEF lifted
  <2>2. \A i \in Goal, t \in State : lifted[i][t] = IF t = s THEN Infinite ELSE rank[i][t]
    BY <1>1, <2>1
  <2>3. \A i \in Goal : Infinite \in Rank /\ [rank[i] EXCEPT ![s] = Infinite] \in [State -> Rank]
    BY <1>1, InfiniteIsTop
  <2>4. lifted \in [Goal -> [State -> Rank]]
    BY <2>1, <2>3
  <2>5. IsRanking(game, lifted)
    BY <1>1, <1>4, <2>2, <2>4 DEF IsRanking
  <2> QED
    BY <2>5 DEF lifted, new
<1>6. CASE ~IsInfinite(new)
  <2>1. lifted = [rank EXCEPT ![j][s] = new]
    BY <1>6 DEF Lifted
  <2> HIDE DEF lifted
  <2>2. lifted \in [Goal -> [State -> Rank]]
    BY <1>1, <1>3, <1>4, <2>1
  <2>3. \A i \in Goal, t \in State : lifted[i][t] = IF i = j /\ t = s THEN new ELSE rank[i][t]
    BY <1>1, <2>1
  <2>4. IsRanking(game, lifted)
    BY <1>1, <1>3, <2>2, <2>3 DEF IsRanking
  <2> QED
    BY <2>4 DEF lifted, new
<1> QED
  BY <1>5, <1>6

\* Before the first iteration.
LEMMA InitWorklist == Init => WorklistInv /\ Pending = Ranking!InitialPending(game)
<1> SUFFICES ASSUME Init PROVE WorklistInv /\ Pending = Ranking!InitialPending(game)
  OBVIOUS
<1>1. game \in Game /\ rank = Ranking!InitialRanking(game) /\ pending_processed = 0
  BY WorklistAssumption DEF Init
<1>2. PICK order \in SetToSeqs(State), stale \in StaleAssumption,
           inverse \in [State -> UNION {InverseOrders(game, s) : s \in State}] :
        /\ \A s \in State : inverse[s] \in InverseOrders(game, s)
        /\ pending_list = InitialWork(game, order, inverse, stale).heap
        /\ key_lists = InitialWork(game, order, inverse, stale).keys
  BY DEF Init
<1>3. /\ HeapHasKeys(pending_list, key_lists)
      /\ \A i \in Goal : key_lists[i] =
           {s \in State : MayNeedLift(game, <<s, i>>)} \cup
           UNION {Predecessors(game, s) : s \in {t \in State : IsDeadlock(game, t)}}
  BY <1>1, <1>2, InitialWorkEffect DEF WorkOK
<1>4. WorklistInv
  BY <1>1, <1>3, StartRanking DEF WorklistInv
<1>5. Pending = KnownPairs(key_lists)
  BY <1>3, PendingIsKnown DEF Pending
<1>6. Ranking!InitialPending(game)
        = {p \in State \X Goal : MayNeedLift(game, p)} \cup
          UNION {Predecessors(game, s) \X Goal : s \in {t \in State : IsDeadlock(game, t)}}
  BY SameRanking DEF Ranking!InitialPending, Ranking!PredecessorPairs, MayNeedLift
<1>7. \A s \in State : Predecessors(game, s) \subseteq State
  BY DEF Predecessors
<1>8. ASSUME NEW s \in State, NEW i \in Goal
      PROVE  <<s, i>> \in KnownPairs(key_lists) <=>
               \/ MayNeedLift(game, <<s, i>>)
               \/ \E t \in State : IsDeadlock(game, t) /\ s \in Predecessors(game, t)
  BY <1>3 DEF KnownPairs
<1>9. ASSUME NEW s \in State, NEW i \in Goal
      PROVE  <<s, i>> \in Ranking!InitialPending(game) <=>
               \/ MayNeedLift(game, <<s, i>>)
               \/ \E t \in State : IsDeadlock(game, t) /\ s \in Predecessors(game, t)
  BY <1>6
<1>10. Ranking!InitialPending(game) \subseteq State \X Goal
       /\ KnownPairs(key_lists) \subseteq State \X Goal
  BY <1>6, <1>7 DEF KnownPairs
<1>11. KnownPairs(key_lists) = Ranking!InitialPending(game)
  BY <1>8, <1>9, <1>10
<1> QED
  BY <1>4, <1>5, <1>11

\* An iteration keeps the invariant and is one of the ranking loop with the set of pairs.
LEMMA SkipImplements ==
  ASSUME WorklistInv, pending_list.count > 0, Skip, pending_processed' = pending_processed + 1
  PROVE  WorklistInv' /\ Ranking!Next
<1> DEFINE s == Popped.state
           j == Popped.goal
<1>1. /\ s \in State /\ j \in Goal /\ <<s, j>> \in Pending
      /\ WorkOK(Remaining)
      /\ KnownPairs(Remaining.keys) = Pending \ {<<s, j>>}
  BY PopsPair DEF PendingEntry
<1>2. /\ IsInfinite(rank[j][s]) \/ IsStable(game, rank, s, j)
      /\ pending_list' = Remaining.heap /\ key_lists' = Remaining.keys
      /\ game' = game /\ rank' = rank
  BY DEF Skip, Become
<1>3. HeapHasKeys(pending_list', key_lists')
  BY <1>1, <1>2 DEF WorkOK
<1>4. WorklistInv'
  BY <1>2, <1>3 DEF WorklistInv
<1>5. Pending' = Pending \ {<<s, j>>}
  BY <1>1, <1>2, <1>3, PendingIsKnown DEF Pending
<1> HIDE DEF s, j
<1>6. Ranking!SkipInfinite(s, j) \/ Ranking!SkipStable(s, j)
  BY <1>1, <1>2, <1>5, SameRanking DEF Ranking!SkipInfinite, Ranking!SkipStable
<1> QED
  BY <1>1, <1>4, <1>6, SameRanking DEF Ranking!Next, Ranking!Process

LEMMA LiftImplements ==
  ASSUME WorklistInv, pending_list.count > 0, Lift, pending_processed' = pending_processed + 1
  PROVE  WorklistInv' /\ Ranking!Next
<1> DEFINE s == Popped.state
           j == Popped.goal
           new == Update(game, rank, s, j)
           lifted == Lifted(s, j, new)
           preds == Predecessors(game, s)
<1>1. /\ s \in State /\ j \in Goal /\ <<s, j>> \in Pending
      /\ WorkOK(Remaining)
      /\ KnownPairs(Remaining.keys) = Pending \ {<<s, j>>}
  BY PopsPair DEF PendingEntry
<1>2. /\ ~IsInfinite(rank[j][s]) /\ ~IsStable(game, rank, s, j)
      /\ rank' = lifted /\ game' = game
  BY DEF Lift
<1> DEFINE Added(order, stale) ==
             AddPredecessors(Remaining, order, j, lifted, stale, pending_processed)
           Spread(order, stale) ==
             AddForOthers(Added(order, stale), order, j, lifted, stale, pending_processed)
<1>3. PICK order \in InverseOrders(game, s), stale \in StaleAssumption :
        LET work == IF IsInfinite(new) THEN Spread(order, stale) ELSE Added(order, stale)
        IN  pending_list' = work.heap /\ key_lists' = work.keys
  BY Zenon DEF Lift, Become
<1>4. IsRanking(game, lifted) /\ game \in Game /\ pending_processed \in Nat
  BY <1>1, <1>2, LiftedIsRanking DEF WorklistInv
<1> HIDE DEF s, j, new, lifted, preds
<1> DEFINE added == Added(order, stale)
           spread == Spread(order, stale)
<1>5. WorkOK(added) /\ KeysAdded(Remaining.keys, added.keys, j, preds)
  BY <1>1, <1>3, <1>4, AddPredecessorsEffect DEF preds
<1>6. /\ WorkOK(spread)
      /\ \A i \in Goal : spread.keys[i] = IF i = j THEN added.keys[i] ELSE added.keys[i] \cup preds
  <2>1. spread = AddForOthers(added, order, j, lifted, stale, pending_processed)
    OBVIOUS
  <2> HIDE DEF Added, added, spread
  <2>2. SpreadTo([keys |-> added.keys, goal |-> j, preds |-> Predecessors(game, s)],
                 GuaranteesCount, spread)
    BY <1>1, <1>3, <1>4, <1>5, <2>1, SpreadEffect
  <2>3. \A i \in Goal : i < GuaranteesCount
    BY CountAssumption DEF Goal
  <2> QED
    BY <2>2, <2>3 DEF SpreadTo, preds
<1>7. /\ pending_list' = IF IsInfinite(new) THEN spread.heap ELSE added.heap
      /\ key_lists' = IF IsInfinite(new) THEN spread.keys ELSE added.keys
  BY <1>3
<1> HIDE DEF Added, Spread, added, spread
<1>8. HeapHasKeys(pending_list', key_lists')
  BY <1>5, <1>6, <1>7 DEF WorkOK
<1>9. WorklistInv'
  BY <1>2, <1>4, <1>8 DEF WorklistInv
<1>10. Pending' = KnownPairs(key_lists')
  BY <1>8, PendingIsKnown DEF Pending
<1>11. \A i \in Goal : key_lists'[i] =
         IF i = j \/ IsInfinite(new) THEN Remaining.keys[i] \cup preds ELSE Remaining.keys[i]
  BY <1>5, <1>6, <1>7 DEF KeysAdded
<1>12. preds \subseteq State /\ Pending \subseteq State \X Goal
  BY PendingIsKnown DEF preds, Predecessors, WorklistInv, Pending, KnownPairs
<1>13. Pending' = (Pending \ {<<s, j>>})
                  \cup (preds \X IF IsInfinite(new) THEN Goal ELSE {j})
  <2>1. ASSUME NEW t \in State, NEW i \in Goal
        PROVE  <<t, i>> \in KnownPairs(key_lists') <=>
                 \/ <<t, i>> \in KnownPairs(Remaining.keys)
                 \/ t \in preds /\ (i = j \/ IsInfinite(new))
    BY <1>11 DEF KnownPairs
  <2>2. KnownPairs(key_lists') \subseteq State \X Goal
    BY DEF KnownPairs
  <2> QED
    BY <1>1, <1>10, <1>12, <2>1, <2>2
<1>14. Ranking!Lift(s, j) \/ Ranking!LiftToInfinity(s, j)
  <2>1. CASE IsInfinite(new)
    <3>1. rank' = [i \in Goal |-> [rank[i] EXCEPT ![s] = Infinite]]
      BY <1>2, <2>1 DEF lifted, Lifted
    <3>2. Pending' = (Pending \ {<<s, j>>}) \cup (preds \X Goal)
      BY <1>13, <2>1
    <3> QED
      BY <1>1, <1>2, <2>1, <3>1, <3>2, SameRanking
         DEF Ranking!LiftToInfinity, Ranking!PredecessorPairs, new, preds
  <2>2. CASE ~IsInfinite(new)
    <3>1. rank' = [rank EXCEPT ![j][s] = new]
      BY <1>2, <2>2 DEF lifted, Lifted
    <3>2. Pending' = (Pending \ {<<s, j>>}) \cup (preds \X {j})
      BY <1>13, <2>2
    <3> QED
      BY <1>1, <1>2, <2>2, <3>1, <3>2, SameRanking
         DEF Ranking!Lift, Ranking!PredecessorPairs, new, preds
  <2> QED
    BY <2>1, <2>2
<1> QED
  BY <1>1, <1>9, <1>14, SameRanking DEF Ranking!Next, Ranking!Process

LEMMA StepImplements ==
  ASSUME WorklistInv, [Next]_vars
  PROVE  WorklistInv' /\ [Ranking!Next]_(Ranking!vars)
<1>1. CASE Next
  BY <1>1, SkipImplements, LiftImplements DEF Next
<1>2. CASE UNCHANGED vars
  <2>1. Pending' = Pending /\ game' = game /\ rank' = rank
    BY <1>2 DEF vars, Pending
  <2> QED
    BY <1>2, <2>1 DEF vars, WorklistInv, Ranking!vars
<1> QED
  BY <1>1, <1>2

\* The invariant holds in every state of the loop.
THEOREM WorklistInvariant == Spec => []WorklistInv
<1>1. WorklistInv /\ [Next]_vars => WorklistInv'
  BY StepImplements
<1> QED
  BY <1>1, InitWorklist, PTL DEF Spec

(****************************************************************************)
(* The rankings stay rankings of the game, the heap's arrays as long as its *)
(* size and its count within it, whatever is added, popped or grown.        *)
(****************************************************************************)
THEOREM WorklistTypeCorrect == Spec => []TypeOK
<1>1. WorklistInv => TypeOK
  <2> SUFFICES ASSUME WorklistInv PROVE TypeOK
    OBVIOUS
  <2>1. Pending \subseteq State \X Goal
    BY PendingIsKnown DEF WorklistInv, Pending, KnownPairs
  <2>2. Ranking!TypeOK
    BY <2>1, SameRanking DEF Ranking!TypeOK, WorklistInv
  <2>3. HeapShape(pending_list) /\ key_lists \in [Goal -> SUBSET State]
    BY DEF WorklistInv, HeapHasKeys
  <2> QED
    BY <2>2, <2>3 DEF TypeOK, WorklistInv, HeapShape
<1> QED
  BY <1>1, WorklistInvariant, PTL

(****************************************************************************)
(* Every pair in the heap is there once and the key lists know exactly      *)
(* those: the lookup after a pop never misses, no add overwrites an entry.  *)
(****************************************************************************)
THEOREM KeysMatchHeap == Spec => []HeapMatchesKeys
<1>1. WorklistInv => HeapMatchesKeys
  <2> SUFFICES ASSUME WorklistInv PROVE HeapMatchesKeys
    OBVIOUS
  <2> DEFINE h == pending_list
             positions == 0 .. h.count - 1
  <2>1. HeapHasKeys(h, key_lists) /\ HeapShape(h)
    BY DEF WorklistInv, HeapHasKeys
  <2>2. SlotsAreDistinct(h)
    BY <2>1 DEF HeapShape, SlotsAreDistinct
  <2>3. Pending = KnownPairs(key_lists)
    BY <2>1, PendingIsKnown DEF Pending
  <2>4. h.count \in Nat /\ h.size \in Nat /\ h.count <= h.size
        /\ \A i \in positions : i \in 0 .. h.size - 1
    BY <2>1 DEF HeapShape
  <2> DEFINE key == [i \in positions |-> KeyOf(h, h.values_ptrs[i])]
  <2>5. {KeyOf(h, slot) : slot \in SlotsInUse(h)} = Pending
    BY <2>1, <2>3 DEF HeapHasKeys, KnownPairs
  <2>6. {key[i] : i \in positions} = Pending
    BY <2>5 DEF SlotsInUse
  <2>7. \A i, k \in positions : key[i] = key[k] => i = k
    <3> SUFFICES ASSUME NEW i \in positions, NEW k \in positions, key[i] = key[k] PROVE i = k
      OBVIOUS
    <3>1. h.values_ptrs[i] \in SlotsInUse(h) /\ h.values_ptrs[k] \in SlotsInUse(h)
      BY DEF SlotsInUse
    <3>2. h.values_ptrs[i] = h.values_ptrs[k]
      BY <2>1, <3>1 DEF HeapHasKeys
    <3> QED
      BY <2>1, <2>4, <3>2 DEF HeapShape
  <2> HIDE DEF key, positions
  <2>8. key \in Bijection(positions, Pending)
    <3>1. key \in [positions -> Pending]
      <4>1. key = [i \in positions |-> key[i]]
        BY DEF key
      <4> QED
        BY <2>6, <4>1
    <3>2. key \in Injection(positions, Pending)
      BY <2>7, <3>1 DEF Injection, IsInjective
    <3>3. key \in Surjection(positions, Pending)
      BY <2>6, <3>1 DEF Surjection
    <3> QED
      BY <3>2, <3>3 DEF Bijection
  <2>9. IsFiniteSet(positions) /\ Cardinality(positions) = h.count
    <3>1. h.count \in Nat /\ 0 \in Int /\ h.count - 1 \in Int
      BY <2>4
    <3>2. /\ IsFiniteSet(0 .. h.count - 1)
          /\ Cardinality(0 .. h.count - 1) = IF 0 > h.count - 1 THEN 0 ELSE (h.count - 1) - 0 + 1
      BY <3>1, FS_Interval, Zenon
    <3> QED
      BY <3>1, <3>2 DEF positions
  <2>10. Cardinality(Pending) = h.count
    BY <2>8, <2>9, FS_Bijection DEF ExistsBijection
  <2> QED
    BY <2>2, <2>3, <2>10 DEF HeapMatchesKeys, KnownPairs
<1> QED
  BY <1>1, WorklistInvariant, PTL

(****************************************************************************)
(* With one assumption at most, no entry of the heap compares above its     *)
(* parent: "the heap property is never violated" by adding, growing or      *)
(* popping.  With two it is, and run heap_order shows how.                  *)
(****************************************************************************)
THEOREM OrderIsKept == AssumptionsCount <= 1 => (Spec => []HeapPropertyKept)
<1> SUFFICES ASSUME AssumptionsCount <= 1 PROVE Spec => []HeapPropertyKept
  OBVIOUS
<1>1. WorklistInv => HeapPropertyKept
  BY DEF WorklistInv, HeapHasKeys, HeapPropertyKept
<1> QED
  BY <1>1, WorklistInvariant, PTL

(****************************************************************************)
(* The loop with the heap implements the loop with the set of pairs, that   *)
(* is GR1Ranking, whatever order the heap gives.                            *)
(****************************************************************************)
THEOREM WorklistImplementsRanking == Spec => ImplementsRanking
<1>1. Init => rank = Ranking!InitialRanking(game)
  BY DEF Init
<1> QED
  BY <1>1, InitWorklist, StepImplements, WorklistInvariant, PTL DEF Spec, ImplementsRanking

-----------------------------------------------------------------------------
(****************************************************************************)
(* What is proved of the loop with the set of pairs holds of the loop with  *)
(* the heap.  Solver is that loop again, with its theorems.                 *)
(****************************************************************************)
Solver == INSTANCE GR1RankingProofs WITH pending <- Pending

\* The assumptions that the theorems of the solver rest on hold.
LEMMA SolverAssumptions ==
  /\ \A S : Solver!IsFiniteSet(S) <=> IsFiniteSet(S)
  /\ Games \subseteq Solver!Game
<1>1. Solver!Game = Game
  BY DEF Solver!Game, Game, Solver!Option, Option, Solver!Goal, Goal,
         Solver!AssumptionIndex, AssumptionIndex
<1> QED
  BY <1>1, WorklistAssumption DEF Solver!IsFiniteSet, IsFiniteSet

\* Solver and Ranking are the same loop.
LEMMA SolverIsRanking ==
  /\ Solver!Init <=> Ranking!Init
  /\ Solver!Next <=> Ranking!Next
  /\ Solver!ComputesLeastRanking <=> Ranking!ComputesLeastRanking
<1>1. Solver!Init <=> Ranking!Init
  BY DEF Ranking!Goal, Solver!Goal, Ranking!Infinite, Solver!Infinite,
         Ranking!InitialRank, Solver!InitialRank, Ranking!IsDeadlock, Solver!IsDeadlock,
         Ranking!Predecessors, Solver!Predecessors, Ranking!SatisfiesGuarantee,
         Solver!SatisfiesGuarantee, Ranking!SatisfiesAssumption,
         Solver!SatisfiesAssumption, Ranking!FirstAssumption, Solver!FirstAssumption,
         Ranking!RANKING_INFINITY, Solver!RANKING_INFINITY, Ranking!PredecessorPairs,
         Solver!PredecessorPairs, Ranking!InitialRanking, Solver!InitialRanking,
         Ranking!InitialPending, Solver!InitialPending, Ranking!Init, Solver!Init
<1>2. Solver!Next <=> Ranking!Next
  BY DEF Ranking!Goal, Solver!Goal, Ranking!AssumptionIndex, Solver!AssumptionIndex,
         Ranking!Option, Solver!Option, Ranking!Game, Solver!Game, Ranking!IsDeadlock,
         Solver!IsDeadlock, Ranking!Predecessors, Solver!Predecessors,
         Ranking!SatisfiesGuarantee, Solver!SatisfiesGuarantee,
         Ranking!SatisfiesAssumption, Solver!SatisfiesAssumption, Ranking!TargetGoal,
         Solver!TargetGoal, Ranking!FirstAssumption, Solver!FirstAssumption,
         Ranking!LastAssumption, Solver!LastAssumption, Ranking!Infinite,
         Solver!Infinite, Ranking!InitialRank, Solver!InitialRank, Ranking!IsInfinite,
         Solver!IsInfinite, Ranking!RankingGt, Solver!RankingGt, Ranking!RankingGeq,
         Solver!RankingGeq, Ranking!Lowest, Solver!Lowest, Ranking!Highest,
         Solver!Highest, Ranking!Listed, Solver!Listed, Ranking!Delta, Solver!Delta,
         Ranking!MaxDelta, Solver!MaxDelta, Ranking!BestSuccessor, Solver!BestSuccessor,
         Ranking!Increment, Solver!Increment, Ranking!Update, Solver!Update,
         Ranking!IsStable, Solver!IsStable, Ranking!RANKING_INFINITY,
         Solver!RANKING_INFINITY, Ranking!Cardinality, Solver!Cardinality,
         Ranking!PredecessorPairs, Solver!PredecessorPairs, Ranking!SkipInfinite,
         Solver!SkipInfinite, Ranking!SkipStable, Solver!SkipStable, Ranking!Lift,
         Solver!Lift, Ranking!LiftToInfinity, Solver!LiftToInfinity, Ranking!Process,
         Solver!Process, Ranking!Next, Solver!Next, Ranking!vars, Solver!vars
<1>3. Solver!ComputesLeastRanking <=> Ranking!ComputesLeastRanking
  BY DEF Ranking!Goal, Solver!Goal, Ranking!AssumptionIndex, Solver!AssumptionIndex,
         Ranking!Option, Solver!Option, Ranking!Game, Solver!Game, Ranking!IsDeadlock,
         Solver!IsDeadlock, Ranking!Predecessors, Solver!Predecessors,
         Ranking!SatisfiesGuarantee, Solver!SatisfiesGuarantee,
         Ranking!SatisfiesAssumption, Solver!SatisfiesAssumption, Ranking!TargetGoal,
         Solver!TargetGoal, Ranking!FirstAssumption, Solver!FirstAssumption,
         Ranking!LastAssumption, Solver!LastAssumption, Ranking!FiniteRank,
         Solver!FiniteRank, Ranking!Infinite, Solver!Infinite, Ranking!Rank,
         Solver!Rank, Ranking!InitialRank, Solver!InitialRank, Ranking!IsInfinite,
         Solver!IsInfinite, Ranking!RankingGt, Solver!RankingGt, Ranking!RankingGeq,
         Solver!RankingGeq, Ranking!Lowest, Solver!Lowest, Ranking!Highest,
         Solver!Highest, Ranking!Listed, Solver!Listed, Ranking!Delta, Solver!Delta,
         Ranking!MaxDelta, Solver!MaxDelta, Ranking!RankOf, Solver!RankOf,
         Ranking!IsRanking, Solver!IsRanking, Ranking!BestSuccessor,
         Solver!BestSuccessor, Ranking!Increment, Solver!Increment, Ranking!Update,
         Solver!Update, Ranking!IsStable, Solver!IsStable, Ranking!RANKING_INFINITY,
         Solver!RANKING_INFINITY, Ranking!Cardinality, Solver!Cardinality,
         Ranking!Ranking, Solver!Ranking, Ranking!IsClosed, Solver!IsClosed,
         Ranking!Below, Solver!Below, Ranking!BelowEveryClosedRanking,
         Solver!BelowEveryClosedRanking, Ranking!ComputesLeastRanking,
         Solver!ComputesLeastRanking
<1> QED
  BY <1>1, <1>2, <1>3

\* The invariants of the loop with the set of pairs.
SolverInv == Solver!IInv /\ Solver!BelowEveryClosedRanking

LEMMA SolverInvariant == Spec => []SolverInv
<1>1. Init => Solver!Init
  BY InitWorklist, SolverIsRanking DEF Init, Ranking!Init
<1>2. WorklistInv /\ [Next]_vars => [Solver!Next]_(Solver!vars)
  BY StepImplements, SolverIsRanking DEF Solver!vars, Ranking!vars
<1>3. Solver!Init => SolverInv
  BY CountAssumption, StateAssumption, UnlistedAssumption, SolverAssumptions,
     Solver!InitInvariant, Solver!InitBelow DEF SolverInv
<1>4. SolverInv /\ [Solver!Next]_(Solver!vars) => SolverInv'
  <2>1. Solver!IInv /\ [Solver!Next]_(Solver!vars) => Solver!IInv'
    BY CountAssumption, StateAssumption, UnlistedAssumption, SolverAssumptions,
       Solver!NextInvariant
  <2>2. SolverInv /\ [Solver!Next]_(Solver!vars) => Solver!BelowEveryClosedRanking'
    BY CountAssumption, StateAssumption, UnlistedAssumption, SolverAssumptions,
       Solver!NextBelow DEF SolverInv
  <2> QED
    BY <2>1, <2>2 DEF SolverInv
<1> QED
  BY <1>1, <1>2, <1>3, <1>4, WorklistInvariant, PTL DEF Spec

LEMMA NothingLeft == pending_list.count = 0 => Pending = {}
BY DEF Pending, Entries

(****************************************************************************)
(* When the heap is empty the ranking is closed and below every closed      *)
(* ranking: the loop as it is coded computes the least one, whatever the    *)
(* order of the states, of the transitions and of the heap.                 *)
(****************************************************************************)
EndsWithLeastRanking ==
  pending_list.count = 0 => Ranking!IsClosed(game, rank) /\ Ranking!BelowEveryClosedRanking

THEOREM WorklistComputesLeastRanking == Spec => []EndsWithLeastRanking
<1>1. SolverInv => EndsWithLeastRanking
  <2>1. Solver!IInv => Solver!StabilizedIsClosed
    BY CountAssumption, StateAssumption, UnlistedAssumption, SolverAssumptions,
       Solver!EmptyWorklistIsClosed
  <2>2. SolverInv => Ranking!ComputesLeastRanking
    BY <2>1, SolverIsRanking DEF SolverInv, Solver!StabilizedIsClosed, Solver!ComputesLeastRanking
  <2> QED
    BY <2>2, NothingLeft DEF EndsWithLeastRanking, Ranking!ComputesLeastRanking
<1> QED
  BY <1>1, SolverInvariant, PTL

(****************************************************************************)
(* And so the loop as it is coded solves the game: the states that have     *)
(* finite ranks when the heap is empty are in the winning region, and they  *)
(* are all of it where max_delta leaves room for enough ranks.              *)
(****************************************************************************)
EndsWithWinners ==
  pending_list.count = 0 =>
    /\ Solver!Winners \subseteq Solver!WinningRegion(game)
    /\ Solver!EnoughRanks(game) => Solver!Winners = Solver!WinningRegion(game)

THEOREM WorklistSolves == Spec => []EndsWithWinners
<1>1. SolverInv => EndsWithWinners
  <2>1. Solver!IInv => Solver!WinnersCanWin
    BY CountAssumption, StateAssumption, UnlistedAssumption, SolverAssumptions,
       Solver!ClosedIsSound
  <2>2. SolverInv /\ Solver!EnoughRanks(game) => Solver!ComputesWinningRegion
    BY CountAssumption, StateAssumption, UnlistedAssumption, SolverAssumptions,
       Solver!EnoughIsExact DEF SolverInv
  <2> QED
    BY <2>1, <2>2, NothingLeft
       DEF SolverInv, EndsWithWinners, Solver!WinnersCanWin, Solver!ComputesWinningRegion
<1> QED
  BY <1>1, SolverInvariant, PTL

=============================================================================
