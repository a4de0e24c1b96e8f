---------------------------- MODULE CompositeTable ----------------------------
(****************************************************************************)
(* The table of automaton_composite_hash_table.c, which gives every         *)
(* composite state (the states of the components, and the fluents of a      *)
(* game) its number in the composition.  Slots are chosen by a hash of the  *)
(* sum of the states; in a slot the entries are sorted by a key and equal   *)
(* keys count as the same composite state.                                  *)
(*                                                                          *)
(* The key is the binary numerals of the states one after the other, then   *)
(* a signature of the order in which they come by value.  It is a number of *)
(* 128 bits in the code and unbounded here.                                 *)
(****************************************************************************)
EXTENDS Integers, SequencesExt

CONSTANTS
  ComponentsCount,              \* automata_count, with the fluents of a game
  COMPOSITE_TABLE_SLOTS,
  COMPOSITE_TABLE_MAX_DENSITY

ASSUME CompositeTableAssumption ==
  /\ ComponentsCount \in Nat \ {0}
  /\ COMPOSITE_TABLE_SLOTS \in 0 .. 2 ^ 16
  /\ COMPOSITE_TABLE_MAX_DENSITY \in Nat

\* What the provers are told of the powers of 2, all that are used.
ASSUME PowersAssumption == \A b \in 0 .. 29 : 2 ^ b \in Nat \ {0} /\ 2 ^ (b + 1) = 2 * 2 ^ b

Place == 1 .. ComponentsCount

\* The smallest exponent of 2 that gives at least n, and the digits of the numeral of n,
\* by the powers that are below n and not above it; n is less than 2 ^ 30.
Log(n) == Cardinality({b \in 0 .. 29 : 2 ^ b < n})
Length(n) == Cardinality({b \in 0 .. 29 : 2 ^ b <= n})

Factorial[n \in Nat] == IF n = 0 THEN 1 ELSE n * Factorial[n - 1]

\* levels: the slots, 2 ^ log_slots of them.
EmptyTable ==
  LET log_slots == Log(IF COMPOSITE_TABLE_SLOTS > 8 THEN COMPOSITE_TABLE_SLOTS ELSE 8)
  IN  [log_slots      |-> log_slots,
       levels         |-> [p \in 0 .. 2 ^ log_slots - 1 |-> <<>>],
       max_value      |-> 0,
       previous_order |-> <<>>,
       previous_equality |-> <<>>]
OrderBits == Log(Factorial[ComponentsCount + 1])

-----------------------------------------------------------------------------
(****************************************************************************)
(* The order signature.  Components come from the highest value to the      *)
(* lowest, the last of equal ones first, with a flag for each that is equal *)
(* to the one before.  It is only computed again when it does not fit.      *)
(****************************************************************************)
Before(states, i, k) == states[i] > states[k] \/ (states[i] = states[k] /\ i > k)

PlaceOrders == {order \in [Place -> Place] : IsInjective(order)}
ValueOrder(states) ==
  CHOOSE order \in PlaceOrders : \A i \in 2 .. ComponentsCount : Before(states, order[i - 1], order[i])

Equalities(states, order) ==
  [i \in Place |-> i > 1 /\ states[order[i]] = states[order[i - 1]]]

\* Mutant: the flags of the equal states are not compared.
OrderIsKeptUnlessRising(table, states) ==
  /\ table.previous_order # <<>>
  /\ \A i \in 2 .. ComponentsCount :
       states[table.previous_order[i]] <= states[table.previous_order[i - 1]]

OrderIsKept(table, states) ==
  /\ table.previous_order # <<>>
  /\ \A i \in 2 .. ComponentsCount :
       LET value == states[table.previous_order[i]]
           value_before == states[table.previous_order[i - 1]]
       IN  value <= value_before /\ (value = value_before <=> table.previous_equality[i])

UpdateOrder(table, states) ==
  IF OrderIsKept(table, states) THEN table
  ELSE LET order == ValueOrder(states)
       IN  [table EXCEPT !.previous_order = order,
                         !.previous_equality = Equalities(states, order)]

\* The index of the order within n!.
OrderKey(order) ==
  FoldLeft(LAMBDA key, i :
             key + (order[i] - 1) * Factorial[IF i = 1 THEN ComponentsCount ELSE ComponentsCount + 1 - i],
           0, [i \in Place |-> i])

CompoundKey(table, states) ==
  LET numerals == FoldLeft(LAMBDA key, i : key * 2 ^ Length(states[i]) + states[i],
                           states[1], [i \in 1 .. ComponentsCount - 1 |-> i + 1])
      ordered == numerals * 2 ^ OrderBits + OrderKey(table.previous_order)
  IN  FoldLeft(LAMBDA key, i : key * 2 + (IF table.previous_equality[i] THEN 1 ELSE 0),
               ordered, [i \in 1 .. ComponentsCount - 1 |-> i + 1])

\* The key of a composite state, from its own order.
Key(states) ==
  LET order == ValueOrder(states)
  IN  CompoundKey([previous_order |-> order, previous_equality |-> Equalities(states, order)], states)

-----------------------------------------------------------------------------
(****************************************************************************)
(* The hash is the sum of the states times CT_P1 = 192 * 2^16 + 5, modulo   *)
(* 2^32; the slot is its top bits, so only the upper half is kept.          *)
(****************************************************************************)
OriginalKey(states) ==
  LET sum == FoldLeft(+, 0, states)
  IN  (sum * 192 + (sum * 5) \div 2 ^ 16) % 2 ^ 16
Slot(key, log_slots) == key \div 2 ^ (16 - log_slots)

\* Every slot is split in two by the next bit of the hash, which keeps the lists sorted.
Half(list, log_slots, p) ==
  FoldLeft(LAMBDA half, e : IF Slot(e.original_key, log_slots) % 2 = p % 2 THEN Append(half, e) ELSE half,
           <<>>, list)
Resize(table) ==
  LET log_slots == table.log_slots + 1
  IN  [table EXCEPT !.log_slots = log_slots,
                    !.levels = [p \in 0 .. 2 ^ log_slots - 1 |-> Half(table.levels[p \div 2], log_slots, p)]]

IsFull(table) == table.max_value > 2 ^ table.log_slots * COMPOSITE_TABLE_MAX_DENSITY

\* Where the search of a slot stops: the first entry that is not below the key.
Stop(list, key) == SelectInSeq(list, LAMBDA e : e.key >= key)

\* automaton_composite_hash_table_get_state: the table afterwards and the number.
GetState(table, states) ==
  LET ordered == UpdateOrder(table, states)
      key == CompoundKey(ordered, states)
      original_key == OriginalKey(states)
      slot == Slot(original_key, table.log_slots)
      list == table.levels[slot]
      stop == Stop(list, key)
      entry == [original_key |-> original_key, key |-> key, state |-> table.max_value]
      added == [ordered EXCEPT
                  !.levels[slot] = IF stop = 0 THEN Append(@, entry) ELSE InsertAt(@, stop, entry),
                  !.max_value = @ + 1]
  IN  IF stop # 0 /\ list[stop].key = key
      THEN [table |-> ordered, state |-> list[stop].state]
      ELSE [table |-> IF IsFull(added) THEN Resize(added) ELSE added, state |-> table.max_value]

=============================================================================
