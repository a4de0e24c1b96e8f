------------------------------ MODULE FastPool -------------------------------
(****************************************************************************)
(* The pools of fast_pool.c: elements of one size, cut one after the other  *)
(* from fragments.  An element is given back by its fragment only, which is *)
(* cut anew when all of its elements are back.  An element is the pair of   *)
(* its fragment and its place; fragments count from 1.                      *)
(****************************************************************************)
EXTENDS Integers, SequencesExt

CONSTANTS
  fragment_size,   \* elements of a fragment (100 in the code); the last one is never lent
  initial_size     \* the fragments of a new pool

ASSUME FastPoolAssumption == fragment_size \in Nat \ {0, 1} /\ initial_size \in Nat \ {0}

\* fragments_last_index is the place of the next element of each fragment,
\* next_free_element is FALSE when there is none in fragment next_fragment.
EmptyPool ==
  [fragments_count      |-> [f \in 1 .. initial_size |-> 0],
   fragments_last_index |-> [f \in 1 .. initial_size |-> 0],
   next_fragment        |-> 1,
   next_free_element    |-> TRUE]

WithFragment(pool) ==
  [fragments_count      |-> Append(pool.fragments_count, 0),
   fragments_last_index |-> Append(pool.fragments_last_index, 0),
   next_fragment        |-> Len(pool.fragments_count) + 1,
   next_free_element    |-> TRUE]

HasRoom(pool, f) == pool.fragments_last_index[f] < fragment_size - 1

\* The pool that lends the next element.
Lending(pool) == IF pool.next_free_element THEN pool ELSE WithFragment(pool)
NextElement(pool) == <<pool.next_fragment, pool.fragments_last_index[pool.next_fragment]>>

Lent(pool) == [pool EXCEPT !.fragments_count[pool.next_fragment] = @ + 1,
                           !.fragments_last_index[pool.next_fragment] = @ + 1]
FindFragment(pool) ==
  LET free == {f \in DOMAIN pool.fragments_count : HasRoom(pool, f)}
  IN  IF HasRoom(pool, pool.next_fragment) THEN pool
      ELSE IF free = {} THEN [pool EXCEPT !.next_free_element = FALSE]
      ELSE [pool EXCEPT !.next_fragment = Min(free)]

GetInstance(pool) ==
  [element |-> NextElement(Lending(pool)), pool |-> FindFragment(Lent(Lending(pool)))]

ReleaseInstance(pool, f) ==
  LET returned == [pool EXCEPT !.fragments_count[f] = @ - 1]
  IN  IF returned.fragments_count[f] # 0 THEN returned
      ELSE [returned EXCEPT !.fragments_last_index[f] = 0,
                            !.next_free_element = @ \/ f = pool.next_fragment]
=============================================================================
