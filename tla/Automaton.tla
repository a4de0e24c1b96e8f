------------------------------ MODULE Automaton ------------------------------
(****************************************************************************)
(* The transitions of an automaton and the operations of automaton.c that   *)
(* change them.  Every transition is kept twice, in the list of the state   *)
(* it leaves and in that of the state it enters, next to counters and flags *)
(* that are updated in step.                                                *)
(*                                                                          *)
(* A state is a number below transitions_count and its degree the length of *)
(* its list.  The signals of a transition are a label; monitored_mask and   *)
(* the signal words enter through Monitored, which gives for each label the *)
(* words left by the mask, and the input bit through InputLabel.            *)
(****************************************************************************)
EXTENDS Integers, SequencesExt

CONSTANTS
  StatesCount,      \* transitions_count
  Label,            \* the signals of a transition
  Monitored,        \* label -> its monitored words
  InputLabel,       \* the labels with the input bit
  Transition,       \* the transitions that may be added
  MaxTransitions    \* bound: the transitions there are at a time

State == 0 .. StatesCount - 1
InitialState == 0   \* initial_states[0]

ASSUME AutomatonAssumption ==
  /\ StatesCount \in Nat \ {0}
  /\ InputLabel \subseteq Label
  /\ Transition \subseteq [state_from : State, state_to : State, signals : Label]
  /\ MaxTransitions \in Nat

\* Each label has as many monitored words as any other.
ASSUME MonitoredAssumption ==
  \A label, other \in Label :
    Monitored[label] \in Seq(Nat) /\ Len(Monitored[label]) = Len(Monitored[other])

VARIABLE automaton
vars == <<automaton>>

Out(aut, s) == aut.transitions[s]
In(aut, s) == aut.inverted_transitions[s]

HasTransition(aut, t) == Contains(Out(aut, t.state_from), t)

AddTransition(aut, t) ==
  IF HasTransition(aut, t) THEN aut
  ELSE LET s == t.state_from
           degree == Len(Out(aut, s)) + 1
       IN  [aut EXCEPT !.transitions[s] = Append(@, t),
                       !.inverted_transitions[t.state_to] = Append(@, t),
                       !.is_controllable[s] = @ /\ t.signals \notin InputLabel,
                       !.max_out_degree = IF degree > @ THEN degree ELSE @,
                       !.composite_count = @ + 1,
                       !.ordered = FALSE]

\* Mutant: the index in the outgoing list is used for both lists.
RemoveAtSameIndex(aut, t) ==
  LET index == SelectInSeq(Out(aut, t.state_from), LAMBDA u : u = t)
  IN  IF index = 0 THEN aut
      ELSE [aut EXCEPT !.transitions[t.state_from] = RemoveAt(@, index),
                       !.inverted_transitions[t.state_to] =
                          RemoveAt(@, IF index > Len(@) THEN Len(@) ELSE index),
                       !.composite_count = @ - 1,
                       !.ordered = FALSE]

\* Mutant: a transition that is not found is counted all the same.
RemoveUnchecked(aut, t) ==
  [aut EXCEPT !.transitions[t.state_from] = RemoveFirst(@, t),
              !.inverted_transitions[t.state_to] = RemoveFirst(@, t),
              !.composite_count = @ - 1,
              !.ordered = FALSE]

\* A search through an empty list counts as a success, and removes nothing.
Finds(list, t) == list = <<>> \/ Contains(list, t)
RemoveTransition(aut, t) ==
  IF Finds(Out(aut, t.state_from), t) /\ Finds(In(aut, t.state_to), t)
  THEN [aut EXCEPT !.transitions[t.state_from] = RemoveFirst(@, t),
                   !.inverted_transitions[t.state_to] = RemoveFirst(@, t),
                   !.composite_count = @ - 1,
                   !.ordered = FALSE]
  ELSE aut

-----------------------------------------------------------------------------
(****************************************************************************)
(* The order by monitored signals.  The comparison is word by word, a       *)
(* partial order; each pick of the selection sort takes the last transition *)
(* that is not above the best one so far.                                   *)
(****************************************************************************)
\* Mutant: the words are compared as in automaton_automaton_transition_lt.
MonitoredLess(t, u) ==
  \E i \in DOMAIN Monitored[t.signals] : Monitored[t.signals][i] < Monitored[u.signals][i]
MonitoredLeq(t, u) ==
  \A i \in DOMAIN Monitored[t.signals] : Monitored[t.signals][i] <= Monitored[u.signals][i]
MonitoredEq(t, u) == Monitored[t.signals] = Monitored[u.signals]

Better(min, t) == IF MonitoredLeq(t, min) THEN t ELSE min
MinTransition(list) == FoldLeft(Better, Head(list), list)

PickNext(sort) ==
  LET min == MinTransition(sort.rest)
  IN  [picked |-> Append(sort.picked, min), rest |-> RemoveFirst(sort.rest, min)]

SelectionSort(list) ==
  LET pick[n \in Nat] ==   \* after n picks
        IF n = 0 THEN [picked |-> <<>>, rest |-> list] ELSE PickNext(pick[n - 1])
  IN  pick[Len(list)].picked

MonitoredOrder(aut) ==
  IF aut.ordered THEN aut
  ELSE [aut EXCEPT !.transitions = [s \in State |-> SelectionSort(@[s])],
                   !.inverted_transitions = [s \in State |-> SelectionSort(@[s])],
                   !.ordered = TRUE]

-----------------------------------------------------------------------------
(****************************************************************************)
(* Cleaning.  A loop over a list removes its entries by their index in the  *)
(* list that is left, so a forward loop skips every second one; the loop    *)
(* over the states is repeated until it finds nothing.                      *)
(****************************************************************************)
\* The states whose distance is not 0: all that paths from s lead to, save s.
Further(aut, X) == X \cup {t.state_to : t \in UNION {ToSet(Out(aut, u)) : u \in X}}
Distant(aut, s) ==
  LET within[n \in Nat] == IF n = 0 THEN {s} ELSE Further(aut, within[n - 1])
  IN  within[StatesCount] \ {s}

IsLeftOver(aut, distant, s) ==
  /\ s # InitialState
  /\ In(aut, s) = <<>> \/ s \notin distant
  /\ In(aut, s) # <<>> \/ Out(aut, s) # <<>>

RemoveNth(aut, s, j) ==
  IF j <= Len(Out(aut, s)) THEN RemoveTransition(aut, Out(aut, s)[j]) ELSE aut
RemoveOutgoing(aut, s) ==
  LET after[j \in Nat] ==   \* after the first j iterations
        IF j = 0 THEN aut ELSE RemoveNth(after[j - 1], s, j)
  IN  after[Len(Out(aut, s))]

RemoveLeftOver(aut, distant, s) ==
  IF IsLeftOver(aut, distant, s) THEN RemoveOutgoing(aut, s) ELSE aut

StatesInOrder == [n \in 1 .. StatesCount |-> n - 1]
Sweep(aut, distant) ==
  FoldLeft(LAMBDA a, s : RemoveLeftOver(a, distant, s), aut, StatesInOrder)

\* Mutant: the states are visited once.
SweepOnce(aut) == Sweep(aut, Distant(aut, InitialState))

\* Every sweep takes a transition at least from each left-over state that has one.
RemoveUnreachableStates(aut) ==
  LET distant == Distant(aut, InitialState)
      swept[n \in Nat] == IF n = 0 THEN aut ELSE Sweep(swept[n - 1], distant)
  IN  swept[aut.max_out_degree]

\* Mutant: the outputs are removed going forward through the list that shrinks.
RemoveMixedForward(aut) ==
  LET Visit(a, s) ==
        LET after[j \in Nat] ==
              IF j = 0 THEN a
              ELSE LET before == after[j - 1]
                   IN  IF j <= Len(Out(before, s)) /\ Out(before, s)[j].signals \notin InputLabel
                       THEN RemoveTransition(before, Out(before, s)[j]) ELSE before
        IN  IF a.is_controllable[s] THEN a ELSE after[Len(Out(a, s))]
  IN  RemoveUnreachableStates(FoldLeft(Visit, aut, StatesInOrder))

\* The end of the composition when no state may mix inputs and outputs.
RemoveOutput(aut, t) == IF t.signals \in InputLabel THEN aut ELSE RemoveTransition(aut, t)
RemoveOutputs(aut, s) ==
  IF aut.is_controllable[s] THEN aut ELSE FoldLeft(RemoveOutput, aut, Reverse(Out(aut, s)))
RemoveMixedStates(aut) ==
  RemoveUnreachableStates(FoldLeft(RemoveOutputs, aut, StatesInOrder))

-----------------------------------------------------------------------------
Init ==
  automaton = [transitions          |-> [s \in State |-> <<>>],
               inverted_transitions |-> [s \in State |-> <<>>],
               is_controllable      |-> [s \in State |-> TRUE],
               max_out_degree       |-> 0,
               composite_count      |-> 0,
               ordered              |-> FALSE]

Add(t) ==
  /\ automaton.composite_count < MaxTransitions
  /\ automaton' = AddTransition(automaton, t)

\* The callers remove from states that have transitions: the diagnosis tests
\* out_degree, the other callers pass a transition they read from the state's list.
RemoveIfAny(t) ==
  /\ Out(automaton, t.state_from) # <<>>
  /\ automaton' = RemoveTransition(automaton, t)

Order == automaton' = MonitoredOrder(automaton)

RemoveUnreachable == automaton' = RemoveUnreachableStates(automaton)

\* Nothing was removed yet: the flags still tell which states have inputs.
FlagsAreCurrent ==
  \A s \in State :
    automaton.is_controllable[s] <=> \A t \in ToSet(Out(automaton, s)) : t.signals \notin InputLabel

RemoveMixed == FlagsAreCurrent /\ automaton' = RemoveMixedStates(automaton)

Next ==
  \/ \E t \in Transition : Add(t) \/ RemoveIfAny(t)
  \/ Order
  \/ RemoveUnreachable
  \/ RemoveMixed

Spec == Init /\ [][Next]_vars

-----------------------------------------------------------------------------
All(aut) == UNION {ToSet(Out(aut, s)) : s \in State}

\* The record has the shape of struct automaton_str.
TypeOK ==
  /\ \A s \in State : /\ ToSet(Out(automaton, s)) \subseteq {t \in Transition : t.state_from = s}
                      /\ ToSet(In(automaton, s)) \subseteq {t \in Transition : t.state_to = s}
  /\ automaton.is_controllable \in [State -> BOOLEAN]
  /\ automaton.max_out_degree \in 0 .. MaxTransitions
  /\ automaton.composite_count \in 0 .. MaxTransitions
  /\ automaton.ordered \in BOOLEAN

\* Every transition is once in the list it leaves from and once in the one it enters:
\* searches from either side see the same automaton.  The counters that other components
\* size their arrays and report by agree: no removal of what is not there is counted, and
\* the odometers of the composition have room.
Mirrored ==
  \A s \in State :
    /\ ToSet(In(automaton, s)) = {t \in All(automaton) : t.state_to = s}
    /\ IsInjective(In(automaton, s))
    /\ IsInjective(Out(automaton, s))
    /\ Len(Out(automaton, s)) <= automaton.max_out_degree
    /\ automaton.composite_count = Cardinality(All(automaton))

\* Transitions with equal monitored signals are contiguous: one run is one option.
Contiguous(list) ==
  \A i, k \in DOMAIN list : MonitoredEq(list[i], list[k]) =>
    \A m \in i .. k : MonitoredEq(list[i], list[m])
OptionsAreContiguous ==
  automaton.ordered =>
    \A s \in State : Contiguous(Out(automaton, s)) /\ Contiguous(In(automaton, s))

\* What is left when unreachable states are removed are the transitions of the initial
\* state and of the states it leads to, although the loop skips entries of the lists.
UnreachableAreRemoved ==
  LET kept == Distant(automaton, InitialState) \cup {InitialState}
  IN  All(RemoveUnreachableStates(automaton)) = {t \in All(automaton) : t.state_from \in kept}

\* After the composition has removed mixed states, none has both inputs and outputs,
\* and a state that had an input keeps its inputs or has become unreachable.
NoStateIsMixed ==
  FlagsAreCurrent =>
    LET left == RemoveMixedStates(automaton)
        inputs(a, s) == {t \in ToSet(Out(a, s)) : t.signals \in InputLabel}
    IN  \A s \in State :
          inputs(automaton, s) # {} => ToSet(Out(left, s)) \in {inputs(automaton, s), {}}

=============================================================================
