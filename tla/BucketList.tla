------------------------------ MODULE BucketList ------------------------------
(****************************************************************************)
(* automaton_bucket_list (bucket_list.c): a set of numbers, kept in buckets *)
(* by the remainder of the number, with the count of all entries.  Buckets  *)
(* grow before they are full; their capacities are left out.                *)
(****************************************************************************)
EXTENDS Integers, SequencesExt

EmptyList(count) == [composite_count |-> 0, buckets |-> [index \in 0 .. count - 1 |-> <<>>]]

Index(list, entry) == entry % Cardinality(DOMAIN list.buckets)

HasEntry(list, entry) == Contains(list.buckets[Index(list, entry)], entry)

AddEntry(list, entry) ==
  IF HasEntry(list, entry) THEN list
  ELSE [list EXCEPT !.composite_count = @ + 1,
                    !.buckets[Index(list, entry)] = Append(@, entry)]

RemoveEntry(list, entry) ==
  IF ~HasEntry(list, entry) THEN list
  ELSE [list EXCEPT !.composite_count = @ - 1,
                    !.buckets[Index(list, entry)] = RemoveFirst(@, entry)]

Entries(list) == UNION {ToSet(list.buckets[index]) : index \in DOMAIN list.buckets}

=============================================================================
