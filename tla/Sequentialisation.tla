-------------------------- MODULE Sequentialisation --------------------------
(****************************************************************************)
(* automaton_automaton_sequentialize of automaton_context.c: concurrent     *)
(* signals are turned into one signal after another, first those of the     *)
(* environment and then those of the system, either in the order of the     *)
(* alphabet or in every order, with a tick after each part if asked for.    *)
(* The states in between are numbered after those of the automaton; paths   *)
(* of a state share the ones reached by the same signals.  The new          *)
(* automaton starts empty, and its lists grow with the numbers added.  Its  *)
(* local alphabet is left out: with ticks it is given the answer of         *)
(* automaton_alphabet_add_signal_event, a bool, in place of their indexes.  *)
(****************************************************************************)
EXTENDS AutomatonSignals

CONSTANTS
  EnvTick, SysTick, \* ENV_TICK and SYS_TICK: signals of no transition
  InitialSize       \* LIST_INITIAL_SIZE

ASSUME SequentialisationAssumption ==
  InitialSize \in Nat \ {0} /\ {EnvTick, SysTick} \cap UNION Label = {}

(****************************************************************************)
(* An automaton that grows: transitions_size is the size of its lists.      *)
(****************************************************************************)
States(count) == 0 .. count - 1
EmptyAutomaton ==
  [transitions          |-> [s \in States(InitialSize) |-> <<>>],
   inverted_transitions |-> [s \in States(InitialSize) |-> <<>>],
   is_controllable      |-> [s \in States(InitialSize) |-> TRUE],
   transitions_size     |-> InitialSize,
   transitions_count    |-> 0,
   initial_states       |-> <<>>,
   max_out_degree       |-> 0,
   composite_count      |-> 0,
   ordered              |-> FALSE]

ResizeToState(aut, state) ==
  LET next_size[size \in Nat] == IF state < size THEN size ELSE next_size[2 * size]
      size == next_size[aut.transitions_size]
      Grown(list, new) ==
        [s \in States(size) |-> IF s < aut.transitions_size THEN list[s] ELSE new]
  IN  IF state < aut.transitions_size THEN aut
      ELSE [aut EXCEPT !.transitions = Grown(@, <<>>), !.inverted_transitions = Grown(@, <<>>),
                       !.is_controllable = Grown(@, TRUE), !.transitions_size = size]

AddGrowing(aut, t) ==
  LET resized == ResizeToState(ResizeToState(aut, t.state_from), t.state_to)
  IN  [AddTransition(resized, t) EXCEPT
         !.is_controllable[t.state_from] = @ /\ InputBit \notin t.signals,
         !.transitions_count = Max({@, t.state_from + 1, t.state_to + 1})]

AddInitialState(aut, state) ==
  IF Contains(aut.initial_states, state) THEN aut
  ELSE [aut EXCEPT !.initial_states = Append(@, state)]

-----------------------------------------------------------------------------
(****************************************************************************)
(* A key tree gives each set of signals it is asked for a number, and goes  *)
(* on from max_value.  It is cleared for every state that is expanded.      *)
(****************************************************************************)
KeyTree == [values |-> <<>>, max_value |-> 1]
GetKey(tree, key) ==
  IF key \in DOMAIN tree.values THEN tree
  ELSE [values |-> tree.values @@ (key :> tree.max_value), max_value |-> tree.max_value + 1]

\* The tree after it is asked for keys, when the numbers up to last are taken.
AskKeys(tree, last, keys) == FoldLeft(GetKey, [tree EXCEPT !.max_value = last + 1], keys)

\* Mutant: the trees keep what they have for the state before.
NotCleared(env_tree, sys_tree) == <<env_tree, sys_tree>>

\* What the trees hold when a state is taken up.
Cleared(env_tree, sys_tree) == <<KeyTree, KeyTree>>

Precedes(order, other) ==
  \E i \in DOMAIN order : order[i] < other[i] /\ \A j \in 1 .. i - 1 : order[j] = other[j]

\* The orders of signals, in the order in which they are gone through.
AllOrders ==
  [signals \in {label \cap InputSignal : label \in Label}
                 \cup {label \ (InputSignal \cup {InputBit}) : label \in Label} |->
     [sequential |-> <<SetToSortSeq(signals, <)>>,
      concurrent |-> SetToSortSeq(SetToSeqs(signals), Precedes)]]
Orders(signals, sequential) ==
  IF sequential THEN AllOrders[signals].sequential ELSE AllOrders[signals].concurrent

\* The sets of signals seen along an order, after those seen before.
KeysAlong(order, seen) == [j \in DOMAIN order |-> seen \cup ToSet(SubSeq(order, 1, j))]
KeysOfOrders(orders, seen) == FlattenSeq([i \in DOMAIN orders |-> KeysAlong(orders[i], seen)])

Step(from, to, signals) == [state_from |-> from, state_to |-> to, signals |-> signals]

\* The transitions of the orders, from a state through the numbered ones to the end.
PathsAlong(orders, seen, tree, from, to) ==
  LET At(order, j) == CASE j = 0 -> from
                        [] j = Len(order) -> to
                        [] OTHER -> tree.values[KeysAlong(order, seen)[j]]
      Path(order) ==
        [j \in DOMAIN order |-> Step(At(order, j - 1), At(order, j), {order[j]})]
  IN  FlattenSeq([i \in DOMAIN orders |-> Path(orders[i])])

EnvTickTransition(from, to) == Step(from, to, {InputBit, EnvTick})
SysTickTransition(from, to) == Step(from, to, {SysTick})

(****************************************************************************)
(* One transition.  work holds the trees, the last number taken, the        *)
(* transitions to add one after another, and where the part done ends       *)
(* (previous_env, previous_sys); env_tick_to is reserved for the tick of    *)
(* transitions without inputs.                                              *)
(****************************************************************************)
SequentialiseInputs(work, t, env_tick_to, sequential, has_ticks) ==
  LET inputs == Inputs(t)
      orders == Orders(inputs, sequential)
      is_all == ~ has_ticks /\ Outputs(t) = {}   \* the last input leads to the target
      Asked(key) == ~ (is_all /\ key = inputs)
      with_tick == IF has_ticks THEN <<inputs \cup {EnvTick}>> ELSE <<>>
      tree == AskKeys(work.env_tree, work.last,
                      SelectSeq(KeysOfOrders(orders, {}), Asked) \o with_tick)
      to == IF is_all THEN t.state_to ELSE tree.values[inputs]
      at == IF has_ticks THEN tree.values[inputs \cup {EnvTick}] ELSE to
      tick == IF has_ticks THEN <<EnvTickTransition(to, at)>> ELSE <<>>
  IN  CASE inputs # {} ->
             [work EXCEPT !.env_tree = tree, !.at = at, !.next = tree.max_value,
                          !.added = @ \o PathsAlong(orders, {}, tree, t.state_from, to) \o tick]
        [] inputs = {} /\ has_ticks ->
             [work EXCEPT !.at = env_tick_to, !.next = work.last + 1,
                          !.added = Append(@, EnvTickTransition(t.state_from, env_tick_to))]
        [] OTHER -> [work EXCEPT !.at = t.state_from, !.next = work.last + 1]

SequentialiseOutputs(work, t, sequential, has_ticks) ==
  LET inputs == Inputs(t)
      outputs == Outputs(t)
      orders == Orders(outputs, sequential)
      tree == AskKeys(work.sys_tree, IF inputs # {} THEN work.next ELSE work.last,
                      KeysOfOrders(orders, inputs))
      to == IF has_ticks THEN tree.values[inputs \cup outputs] ELSE t.state_to
  IN  IF outputs = {} THEN work
      ELSE [work EXCEPT !.sys_tree = tree, !.at = to, !.next = tree.max_value,
                        !.added = @ \o PathsAlong(orders, inputs, tree, work.at, to)]

SequentialiseEnd(work, t, has_ticks) ==
  [work EXCEPT !.last = work.next,
               !.added = @ \o CASE has_ticks -> <<SysTickTransition(work.at, t.state_to)>>
                                [] t.signals \subseteq {InputBit} -> <<t>>
                                [] OTHER -> <<>>]

SequentialiseTransition(work, t, env_tick_to, sequential, has_ticks) ==
  SequentialiseEnd(
    SequentialiseOutputs(
      SequentialiseInputs(work, t, env_tick_to, sequential, has_ticks),
      t, sequential, has_ticks),
    t, has_ticks)

\* Three states are reserved for each state of the automaton.
SequentialiseState(aut, work, s, sequential, has_ticks) ==
  LET env_tick_to == work.last + 1
      trees == Cleared(work.env_tree, work.sys_tree)
      Sequentialise(w, t) == SequentialiseTransition(w, t, env_tick_to, sequential, has_ticks)
  IN  FoldLeft(Sequentialise,
               [work EXCEPT !.last = @ + 3, !.env_tree = trees[1], !.sys_tree = trees[2]],
               Out(aut, s))

Sequentialised(aut, sequential, has_ticks) ==
  LET start == [added |-> <<>>,
                last |-> StatesCount + 1, next |-> 0, at |-> InitialState,
                env_tree |-> KeyTree, sys_tree |-> KeyTree]
      Visit(work, s) == SequentialiseState(aut, work, s, sequential, has_ticks)
      added == FoldLeft(Visit, start, [n \in 1 .. StatesCount |-> n - 1]).added
  IN  FoldLeft(AddGrowing, AddInitialState(EmptyAutomaton, InitialState), added)

-----------------------------------------------------------------------------
\* The words read from a state of the automaton up to the next one, or to a dead end.
MaxWord == 2 + Max({Cardinality(label) : label \in Label})
WordsFrom(aut, state) ==
  LET IsOpen(w) == (w.at \notin State \/ w.word = <<>>) /\ Out(aut, w.at) # <<>>
      Extended(w) == {[at |-> t.state_to, word |-> Append(w.word, t.signals)] :
                        t \in ToSet(Out(aut, w.at))}
      Read(words, n) == UNION {IF IsOpen(w) THEN Extended(w) ELSE {w} : w \in words}
  IN  FoldLeft(Read, {[at |-> state, word |-> <<>>]}, [n \in 1 .. MaxWord |-> n])

\* What a transition should be read as.
WordsOf(t, sequential, has_ticks) ==
  LET Tick(label) == IF has_ticks THEN <<label>> ELSE <<>>
      Single(order) == [j \in DOMAIN order |-> {order[j]}]
      WordOf(env, sys) == Single(env) \o Tick({InputBit, EnvTick}) \o Single(sys) \o Tick({SysTick})
  IN  IF ~ has_ticks /\ t.signals \subseteq {InputBit} THEN {<<t.signals>>}
      ELSE {WordOf(env, sys) : env \in ToSet(Orders(Inputs(t), sequential)),
                               sys \in ToSet(Orders(Outputs(t), sequential))}

\* Between two states of the automaton, the sequential one reads exactly the orders of
\* the transitions between them: no path ends in a state between, and sharing the states
\* between, or reusing the numbers of another state, mixes no two transitions.  Growing
\* loses no transition: all are in both lists, and the states are counted.
StepsAreKept ==
  \A sequential, has_ticks \in BOOLEAN :
    \A new \in {Sequentialised(automaton, sequential, has_ticks)} :
      LET Lists(lists) == UNION {ToSet(lists[s]) : s \in DOMAIN lists}
          Words(t) == {[at |-> t.state_to, word |-> word] : word \in WordsOf(t, sequential, has_ticks)}
      IN  /\ \A s \in State \cap DOMAIN new.transitions :
               WordsFrom(new, s) \ {[at |-> s, word |-> <<>>]} =
                 UNION {Words(t) : t \in ToSet(Out(automaton, s))}
          /\ \A s \in State \ DOMAIN new.transitions : Out(automaton, s) = <<>>
          /\ new.initial_states = <<InitialState>>
          /\ Lists(new.transitions) = Lists(new.inverted_transitions)
          /\ \A t \in Lists(new.transitions) :
               {t.state_from, t.state_to} \subseteq States(new.transitions_count)

=============================================================================
