----------------------------- MODULE Relabelling -----------------------------
(****************************************************************************)
(* Relabelling of an automaton before it is composed, automaton_hide_relabel *)
(* of automaton_context.c: a copy of the automaton in which signals are     *)
(* replaced.  A relabelling is a list of pairs, and with the values of its  *)
(* indexes a pair gives each signal on its left the signals on its right.   *)
(* (Hiding is parsed, but has no code.)                                     *)
(****************************************************************************)
EXTENDS AutomatonSignals

CONSTANTS
  GlobalAlphabet,   \* global_alphabet of the context
  LocalAlphabet,    \* local_alphabet of the automaton
  Relabelling       \* lists of pairs: functions from signals to sets of signals

\* The pairs are refused, and the program ends, if they replace a signal twice or name
\* one that no automaton has.
IsAccepted(pairs) ==
  /\ \A i, j \in DOMAIN pairs : i # j => DOMAIN pairs[i] \cap DOMAIN pairs[j] = {}
  /\ \A i \in DOMAIN pairs : \A k \in DOMAIN pairs[i] : {k} \cup pairs[i][k] \subseteq GlobalAlphabet

\* should_replace and new_values: the replaced signals and what replaces them.
ShouldReplace(pairs) == UNION {DOMAIN pairs[i] : i \in DOMAIN pairs}
NewValues(pairs, k) == UNION {pairs[i][k] : i \in {j \in DOMAIN pairs : k \in DOMAIN pairs[j]}}

\* new_values_masks: the input bit is set for a new signal that is an input.
NewValuesMask(pairs, k) ==
  LET new == NewValues(pairs, k)
  IN  new \cup (IF new \cap InputSignal # {} THEN {InputBit} ELSE {})

\* A replaced signal stays in the alphabet if another one is replaced by it.
NewLocalAlphabet(pairs) ==
  LET new == UNION {NewValues(pairs, k) : k \in ShouldReplace(pairs)}
  IN  (LocalAlphabet \ (ShouldReplace(pairs) \ new)) \cup new

\* Mutant: whether a signal is replaced is read from the label being modified.
ReplacedInPlace(pairs, label) ==
  LET Replace(new, k) == IF k \in new THEN (new \ {k}) \cup NewValuesMask(pairs, k) ELSE new
  IN  FoldLeft(Replace, label, SetToSortSeq(ShouldReplace(pairs), <))

\* Signal after signal in the order of the alphabet; whether one is replaced is read from
\* the label of the original.
Replaced(pairs, label) ==
  LET Replace(new, k) == IF k \in label THEN (new \ {k}) \cup NewValuesMask(pairs, k) ELSE new
  IN  FoldLeft(Replace, label, SetToSortSeq(ShouldReplace(pairs), <))

\* automaton_automaton_copy: also the counters and the flags, whether ordered too.
Clone(source) ==
  [transitions          |-> [s \in State |-> Out(source, s)],
   inverted_transitions |-> [s \in State |-> In(source, s)],
   is_controllable      |-> source.is_controllable,
   max_out_degree       |-> source.max_out_degree,
   composite_count      |-> source.composite_count,
   ordered              |-> source.ordered]

NewLabels == [pairs \in Relabelling |-> [label \in Label |-> Replaced(pairs, label)]]
Relabel(aut, pairs) ==
  LET InList(list) == [i \in DOMAIN list |-> [list[i] EXCEPT !.signals = NewLabels[pairs][@]]]
      InLists(lists) == [s \in State |-> InList(lists[s])]
  IN  [Clone(aut) EXCEPT !.transitions = InLists(@), !.inverted_transitions = InLists(@)]

-----------------------------------------------------------------------------
\* What a relabelling means: all signals are replaced at once.
Renamed(pairs, label) ==
  UNION {IF k \in ShouldReplace(pairs) THEN NewValues(pairs, k) ELSE {k} : k \in label \ {InputBit}}

\* No signal that is replaced takes the place of another one.
IsUnchained(pairs) ==
  \A k \in ShouldReplace(pairs) : NewValues(pairs, k) \cap ShouldReplace(pairs) \subseteq {k}

RenamedLabels == [pairs \in Relabelling |-> [label \in Label |-> Renamed(pairs, label)]]

\* A relabelling, even one that swaps signals, replaces the signal of a transition that
\* has one signal, and all signals of a concurrent one if no replacement is itself
\* replaced; what becomes an input has the input bit, both copies of a transition change
\* alike, and no signal is used that the new alphabet lacks.
SignalsAreRenamed ==
  \A pairs \in {p \in Relabelling : IsAccepted(p)} :
    LET copy == Relabel(automaton, pairs)
        Lists(lists) == UNION {ToSet(lists[s]) : s \in State}
        alphabet == NewLocalAlphabet(pairs)
        unchained == IsUnchained(pairs)
    IN  /\ Lists(copy.transitions) = Lists(copy.inverted_transitions)
        /\ \A s \in State : \A i \in DOMAIN Out(automaton, s) :
             LET old == Out(automaton, s)[i].signals
                 new == Out(copy, s)[i].signals
             IN  /\ new \ {InputBit} \subseteq alphabet
                 /\ new \cap InputSignal # {} => InputBit \in new
                 /\ (Cardinality(old \ {InputBit}) = 1 \/ unchained) =>
                      new \ {InputBit} = RenamedLabels[pairs][old]

=============================================================================
