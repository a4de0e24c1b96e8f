----------------------------- MODULE Composition -----------------------------
(****************************************************************************)
(* automaton_automata_compose (automaton_composition.c): the automaton of   *)
(* several automata that run together, explored from their initial states.  *)
(* The states to explore are a stack; for the one on top every combination  *)
(* of at most one transition of each component is tried, and a combination  *)
(* that synchronises becomes a transition of the composition.               *)
(*                                                                          *)
(* A label is a set of numbers: the signals, and 0 for the input bit.  A    *)
(* composite state is the tuple of the components' states, in a game with   *)
(* the values of the fluents at the end; CompositeTable gives its number,   *)
(* and Automaton keeps the transitions between the numbers.                 *)
(****************************************************************************)
EXTENDS CompositeTable, BucketList

CONSTANTS
  Signal,          \* the bits of a label
  Systems,         \* the arguments: automata, synch_type, is_game, no_mixed_states, and the
                   \* context: fluents, and the names of liveness and of state valuations
  BUCKET_SIZE,
  FLUENT_BUCKET_SIZE,
  MaxStates,       \* bound: the composite states there can be
  MaxTransitions   \* bound: the transitions of a composition

InputBit == 0

\* Automata with states that are numbers, and transitions between them over their alphabet.
IsAutomaton(aut) ==
  /\ aut.alphabet \subseteq Signal \ {InputBit}
  /\ DOMAIN aut.transitions \subseteq Nat /\ aut.initial_state \in DOMAIN aut.transitions
  /\ \A s \in DOMAIN aut.transitions :
       aut.transitions[s] \in Seq([signals : SUBSET (aut.alphabet \cup {InputBit}),
                                  state_to : DOMAIN aut.transitions])
  /\ aut.state_valuations \in [DOMAIN aut.transitions -> SUBSET aut.declared]

IsSystem(sys) ==
  /\ DOMAIN sys.automata = 1 .. Len(sys.automata) /\ Len(sys.automata) \in 1 .. ComponentsCount
  /\ \A i \in DOMAIN sys.automata : IsAutomaton(sys.automata[i])
  /\ sys.is_game \in BOOLEAN /\ sys.no_mixed_states \in BOOLEAN
  /\ sys.fluents \in Seq([initial_valuation : {0, 1}, starting_signals : SUBSET SUBSET Signal,
                          ending_signals : SUBSET SUBSET Signal])
  /\ Len(sys.automata) + Len(sys.fluents) = ComponentsCount
  /\ sys.liveness \in Seq(STRING) /\ sys.vstates \in Seq(STRING)
  /\ sys.is_game \/ Len(sys.automata) = ComponentsCount

\* The composite states there could be, and the combinations of transitions they have.
States(sys, i) ==
  IF i \in DOMAIN sys.automata THEN DOMAIN sys.automata[i].transitions ELSE {0, 1}
Tuples(sys) ==
  {of \in [Place -> UNION {States(sys, i) : i \in Place}] : \A i \in Place : of[i] \in States(sys, i)}
Degree(sys, i, s) == Len(sys.automata[i].transitions[s])
CombinationsOf(sys, of) ==
  {c \in [DOMAIN sys.automata -> UNION {0 .. Degree(sys, i, of[i]) : i \in DOMAIN sys.automata}] :
     /\ \E i \in DOMAIN sys.automata : c[i] # 0
     /\ \A i \in DOMAIN sys.automata : c[i] <= Degree(sys, i, of[i])}

\* No two of them have the same key in the table.
KeysDistinct ==
  \A tuples \in {Tuples(sys) : sys \in Systems} : \A x, y \in tuples : Key(x) = Key(y) => x = y

ASSUME CompositionAssumption ==
  /\ InputBit \in Signal /\ Signal \subseteq Nat /\ IsFiniteSet(Signal)
  /\ BUCKET_SIZE \in Nat \ {0} /\ FLUENT_BUCKET_SIZE \in Nat \ {0}
  /\ MaxStates \in Nat /\ MaxTransitions \in Nat
  /\ \A sys \in Systems : IsSystem(sys)

\* The bounds; the slots of the table are chosen by 16 bits at most.
ASSUME BoundsAssumption ==
  /\ MaxStates <= 2 ^ 16 * COMPOSITE_TABLE_MAX_DENSITY
  /\ \A sys \in Systems :
       LET combinations == UNION {{of} \X CombinationsOf(sys, of) : of \in Tuples(sys)}
       IN  /\ IsFiniteSet(Tuples(sys)) /\ Cardinality(Tuples(sys)) <= MaxStates
           /\ IsFiniteSet(combinations) /\ Cardinality(combinations) <= MaxTransitions

VARIABLES
  system,
  tree,             \* the table of composite states
  composition,      \* the transitions, as in Automaton
  alphabet,         \* the local alphabet of the composition
  marks,            \* fluent, liveness, state -> bits (of each number) and lists (of each valuation)
  saved,            \* the marks before Merge, in a sequence
  frontier,         \* the stack of [state, of] to explore: a number, and the tuple it stands for
  bucket_list,      \* the numbers on the stack
  processed_list,   \* the numbers that were taken from it
  current,          \* the entry that is explored
  idxs,             \* the combination: for each component a transition, or 0
  finished,
  numbered          \* history: every tuple that was given a number, with it
vars == <<system, tree, composition, alphabet, marks, saved, frontier, bucket_list, processed_list,
          current, idxs, finished, numbered>>

Aut == INSTANCE Automaton WITH
         StatesCount <- MaxStates,
         Label <- SUBSET Signal,
         Monitored <- [label \in SUBSET Signal |-> <<>>],
         InputLabel <- {label \in SUBSET Signal : InputBit \in label},
         Transition <- [state_from : 0 .. MaxStates - 1, state_to : 0 .. MaxStates - 1,
                        signals : SUBSET Signal],
         automaton <- composition

Component == DOMAIN system.automata
Alphabet(i) == system.automata[i].alphabet
Transitions(i, s) == system.automata[i].transitions[s]

\* The signals of component i that are in the alphabet of a component before it.
Overlap(i) == Alphabet(i) \cap UNION {Alphabet(k) : k \in 1 .. i - 1}

\* The union of the alphabets: every signal is put before the first greater one.
InsertSignal(signal, list) ==
  LET greater == SelectInSeq(list, LAMBDA x : x > signal)
  IN  IF Contains(list, signal) THEN list
      ELSE IF greater = 0 THEN Append(list, signal) ELSE InsertAt(list, greater, signal)
WithSignals(list, signals) ==
  MapThenFoldSet(InsertSignal, list, LAMBDA x : x, LAMBDA S : CHOOSE x \in S : TRUE, signals)
UnionAlphabet(automata) ==
  FoldLeft(LAMBDA list, i : WithSignals(list, automata[i].alphabet), <<>>, [i \in DOMAIN automata |-> i])

\* The valuations of a game: of its fluents, of the formulas of its automata, and of states.
Named(sys) ==
  IF sys.is_game THEN [fluent |-> sys.fluents, liveness |-> sys.liveness, state |-> sys.vstates]
  ELSE [fluent |-> <<>>, liveness |-> <<>>, state |-> <<>>]
FromLTL == {i \in Component : system.automata[i].is_ltl}

InitialTuple(sys) ==
  [i \in DOMAIN sys.automata |-> sys.automata[i].initial_state]
    \o (IF sys.is_game THEN [f \in DOMAIN sys.fluents |-> sys.fluents[f].initial_valuation]
        ELSE <<>>)

-----------------------------------------------------------------------------
(****************************************************************************)
(* The combinations.                                                        *)
(****************************************************************************)
\* All the signals that component i offers in a composite state.
Offered(i, of) == UNION {t.signals : t \in ToSet(Transitions(i, of[i]))}

\* Mutant: a transition is skipped as soon as another component knows one of its signals.
SkippedIfShared(i, of) ==
  {j \in DOMAIN Transitions(i, of[i]) :
     \E k \in Component \ {i} : Transitions(i, of[i])[j].signals \cap Alphabet(k) # {}}

\* The transitions (by index) with a signal of another component that does not offer it.
Skipped(i, of) ==
  {j \in DOMAIN Transitions(i, of[i]) :
     LET label == Transitions(i, of[i])[j].signals \ {InputBit}
     IN  \E k \in Component \ {i} : label \cap Alphabet(k) # label \cap Offered(k, of)}

\* Mutant: an index goes up to the size, which counts the 0 as well.
HigherWithSize(i, of, indexes) ==
  {j \in 1 .. Len(Transitions(i, of[i])) + 1 : j > indexes[i]} \ Skipped(i, of)

Higher(i, of, indexes) ==
  {j \in DOMAIN Transitions(i, of[i]) : j > indexes[i]} \ Skipped(i, of)

\* The odometer: the next value of the rightmost index that has one, and 0 to its right.
IncrementIdxs(of, indexes) ==
  LET digits == {i \in Component : Higher(i, of, indexes) # {}}
  IN  [i \in Component |->
         IF digits = {} \/ i > Max(digits) THEN 0
         ELSE IF i = Max(digits) THEN Min(Higher(i, of, indexes)) ELSE indexes[i]]
NoIdxs == [i \in Component |-> 0]

Considered(i) == idxs[i] # 0
Taken(i) == Transitions(i, current.of[i])[idxs[i]]
LabelOf(i) == IF Considered(i) THEN Taken(i).signals ELSE {}
LabelBefore(i) == UNION {LabelOf(k) : k \in 1 .. i - 1}
AccumSet(i) == \E k \in 1 .. i - 1 : Considered(k)

CheckOverlap(accum_label, label, overlap) ==
  IF accum_label = {} /\ label = {} THEN "total"
  ELSE IF accum_label \cap overlap # label \cap overlap THEN "partial"
  ELSE IF label \cap overlap = {} THEN "empty" ELSE "total"

Synchronises(i) ==
  LET overlapping == CheckOverlap(LabelBefore(i), LabelOf(i), Overlap(i))
  IN  /\ ~(Considered(i) /\ LabelOf(i) = {} /\ ~AccumSet(i))
      /\ ~(~Considered(i) /\ AccumSet(i) /\ LabelBefore(i) = {})
      /\ overlapping # "partial"
      /\ system.synch_type[i] = "ASYNCHRONOUS" =>
           ~(overlapping = "empty" /\ Considered(i) /\ AccumSet(i))
      /\ system.synch_type[i] = "SYNCHRONOUS" => Considered(i) /\ AccumSet(i)

Viable == \A i \in Component \ {1} : Synchronises(i)

-----------------------------------------------------------------------------
(****************************************************************************)
(* The target of a combination.                                             *)
(****************************************************************************)
\* A fluent that is up is only asked for its ending signals, one that is down for the
\* starting ones.
FluentAfter(fluent, value, label) ==
  LET Happens(elements) == \E signals \in elements : signals \subseteq label
  IN  IF value = 1 THEN IF Happens(fluent.ending_signals) THEN 0 ELSE 1
      ELSE IF Happens(fluent.starting_signals) THEN 1 ELSE 0

TargetOf(label) ==
  [i \in DOMAIN current.of |->
     IF i \in Component THEN IF Considered(i) THEN Taken(i).state_to ELSE current.of[i]
     ELSE FluentAfter(system.fluents[i - Len(system.automata)], current.of[i], label)]

\* The state valuations a component declares must agree with those of the components
\* before it.  There is one word to a state and the code takes two, this one and the one
\* after it.  A word of the first component is shifted by 32 bits for each state, modulo
\* the 64 bits of the word: nothing is left of it in an odd state.
Declaring == {i \in Component : system.automata[i].declared # {}}
Word(i, s, w) ==
  LET words == system.automata[i].state_valuations
  IN  IF s + w \notin DOMAIN words \/ (i = Min(Declaring) /\ s % 2 = 1) THEN {} ELSE words[s + w]
StateValuation(i, s) == Word(i, s, 0)
Agrees(i, of) ==
  LET before == {k \in Declaring : k < i}
      partial_mask == UNION {system.automata[k].declared : k \in before}
      values == UNION {StateValuation(k, of[k]) : k \in before}
  IN  StateValuation(i, of[i]) \cap partial_mask = values \cap system.automata[i].declared
IsConsistent(of) == system.is_game => \A i \in Declaring : Agrees(i, of)

\* The valuations of a composite state, by their index.  Only the first word of what is
\* declared has bits, but the state valuations are set from each word and the last one stays.
Valuations(of) ==
  [fluent   |-> {f \in DOMAIN system.fluents : of[Len(system.automata) + f] = 1},
   liveness |-> {k \in DOMAIN system.liveness :
                   \A i \in FromLTL : system.liveness[k] \in system.automata[i].liveness_valuations[of[i]]},
   state    |-> {k \in DOMAIN system.vstates :
                   \E i \in Declaring : system.vstates[k] \in Word(i, of[i], 1)}]

\* The lists of a composite state's valuations; they do not forget.
\* Mutant: the state that is left is put in the lists.
ListedLeaving(lists, set, to) ==
  [k \in DOMAIN lists |-> IF k \in set THEN AddEntry(lists[k], current.state) ELSE lists[k]]
Listed(lists, set, to) ==
  [k \in DOMAIN lists |-> IF k \in set THEN AddEntry(lists[k], to) ELSE lists[k]]

Marked(to, of) ==
  [kind \in DOMAIN marks |->
     [bits  |-> [marks[kind].bits EXCEPT ![to] = Valuations(of)[kind]],
      lists |-> Listed(marks[kind].lists, Valuations(of)[kind], to)]]

\* Mutant: the states that were explored are not looked up.
EntersUnlessPending(to) == ~HasEntry(bucket_list, to)
Enters(to) == ~HasEntry(bucket_list, to) /\ ~HasEntry(processed_list, to)

-----------------------------------------------------------------------------
Init ==
  /\ system \in Systems
  /\ alphabet = UnionAlphabet(system.automata)
  /\ composition = [transitions          |-> [s \in 0 .. MaxStates - 1 |-> <<>>],
                    inverted_transitions |-> [s \in 0 .. MaxStates - 1 |-> <<>>],
                    is_controllable      |-> [s \in 0 .. MaxStates - 1 |-> TRUE],
                    max_out_degree       |-> 0,
                    composite_count      |-> 0,
                    ordered              |-> FALSE]
  /\ LET of == InitialTuple(system)
         first == GetState(EmptyTable, of)
     IN  /\ tree = first.table
         /\ frontier = <<[state |-> first.state, of |-> of]>>
         /\ bucket_list = AddEntry(EmptyList(BUCKET_SIZE), first.state)
         /\ current = [state |-> first.state, of |-> of]
         /\ numbered = {<<of, first.state>>}
  \* Only the bits: the initial state is put in no list.
  /\ marks = [kind \in DOMAIN Named(system) |->
                [bits  |-> [s \in 0 .. MaxStates - 1 |->
                              IF s = 0 /\ kind = "fluent"
                              THEN {f \in DOMAIN Named(system)[kind] : system.fluents[f].initial_valuation = 1}
                              ELSE {}],
                 lists |-> [k \in DOMAIN Named(system)[kind] |-> EmptyList(FLUENT_BUCKET_SIZE)]]]
  /\ saved = <<>>
  /\ processed_list = EmptyList(BUCKET_SIZE)
  /\ idxs = NoIdxs
  /\ finished = FALSE

\* A state that has transitions was explored before.
Pop ==
  /\ idxs = NoIdxs /\ frontier # <<>>
  /\ frontier' = Front(frontier)
  /\ bucket_list' = RemoveEntry(bucket_list, Last(frontier).state)
  /\ processed_list' = AddEntry(processed_list, Last(frontier).state)
  /\ IF Aut!Out(composition, Last(frontier).state) # <<>>
     THEN UNCHANGED <<current, idxs>>
     ELSE /\ current' = Last(frontier)
          /\ idxs' = IncrementIdxs(Last(frontier).of, NoIdxs)
  /\ UNCHANGED <<system, tree, composition, alphabet, marks, saved, finished, numbered>>

\* What Block and Compose have in common: the odometer goes on.
Advance == idxs # NoIdxs /\ idxs' = IncrementIdxs(current.of, idxs)

Block ==
  /\ Advance /\ ~Viable
  /\ UNCHANGED <<system, tree, composition, alphabet, marks, saved, frontier, bucket_list, processed_list,
                 current, finished, numbered>>

\* The target gets its number and is explored later even if the state valuations of the
\* two ends do not agree and the transition is not added.
Compose ==
  /\ Advance /\ Viable
  /\ LET label == LabelBefore(Len(system.automata) + 1)
         to == TargetOf(label)
         got == GetState(tree, to)
         added == IsConsistent(current.of) /\ IsConsistent(to)
     IN  /\ tree' = got.table
         /\ numbered' = numbered \cup {<<to, got.state>>}
         /\ composition' = IF added
                           THEN Aut!AddTransition(composition, [state_from |-> current.state,
                                                                state_to |-> got.state, signals |-> label])
                           ELSE composition
         /\ IF added /\ system.is_game
            THEN marks' = Marked(got.state, to)
            ELSE UNCHANGED marks
         /\ IF Enters(got.state)
            THEN /\ bucket_list' = AddEntry(bucket_list, got.state)
                 /\ frontier' = Append(frontier, [state |-> got.state, of |-> to])
            ELSE UNCHANGED <<bucket_list, frontier>>
  /\ UNCHANGED <<system, alphabet, saved, processed_list, current, finished>>

Finish ==
  /\ idxs = NoIdxs /\ frontier = <<>> /\ ~finished
  /\ finished' = TRUE
  /\ composition' = IF system.no_mixed_states THEN Aut!RemoveMixedStates(composition) ELSE composition
  /\ UNCHANGED <<system, tree, alphabet, marks, saved, frontier, bucket_list, processed_list, current, idxs,
                 numbered>>

-----------------------------------------------------------------------------
(****************************************************************************)
(* Each synthesis over the game (automaton_context.c) turns the liveness    *)
(* and the state valuations into fluents behind the game's own, since the   *)
(* solver only reads fluents, and puts the old ones back afterwards.        *)
(****************************************************************************)
Merged ==
  LET fluents == Len(system.fluents)
      liveness == fluents + Len(system.liveness)
  IN  [bits  |-> [s \in 0 .. MaxStates - 1 |->
                    marks.fluent.bits[s] \cup {fluents + k : k \in marks.liveness.bits[s]}
                                         \cup {liveness + k : k \in marks.state.bits[s]}],
       lists |-> marks.fluent.lists \o marks.liveness.lists \o marks.state.lists]

Merge ==
  /\ finished /\ saved = <<>>
  /\ marks.liveness.lists # <<>> \/ marks.state.lists # <<>>
  /\ saved' = <<marks>>
  /\ marks' = [marks EXCEPT !.fluent = Merged, !.state.bits = [s \in DOMAIN @ |-> {}]]
  /\ UNCHANGED <<system, tree, composition, alphabet, frontier, bucket_list, processed_list, current,
                 idxs, finished, numbered>>

Restore ==
  /\ saved # <<>>
  /\ marks' = Head(saved) /\ saved' = <<>>
  /\ UNCHANGED <<system, tree, composition, alphabet, frontier, bucket_list, processed_list, current,
                 idxs, finished, numbered>>

Next == Pop \/ Block \/ Compose \/ Finish \/ Merge \/ Restore

\* Fairness: the loops of a sequential program go on while their conditions hold.
Spec == Init /\ [][Next]_vars /\ WF_vars(Pop) /\ WF_idxs(Advance)

-----------------------------------------------------------------------------
(****************************************************************************)
(* The parallel composition, by its definition.  A set of components takes  *)
(* part in a step if any two of them agree on the signals they share and    *)
(* none has a signal of a component that stays.  An automaton that is       *)
(* composed synchronously takes part, with one before it; one that is       *)
(* composed asynchronously only shares its steps over a common signal.      *)
(* Components that take empty labels lead: with the first that does not,    *)
(* all before it take part or none.                                         *)
(****************************************************************************)
Combinations(of) == CombinationsOf(system, of)

IsStep(of, c) ==
  LET part == {i \in Component : c[i] # 0}
      label(i) == Transitions(i, of[i])[c[i]].signals
      signals(i) == label(i) \ {InputBit}
      before(i) == {k \in part : k < i}
      leading == {i \in Component : \A k \in part : k <= i => label(k) = {}}
  IN  /\ \A i, k \in part : signals(i) \cap Alphabet(k) = signals(k) \cap Alphabet(i)
      /\ \A i \in part, k \in Component \ part : signals(i) \cap Alphabet(k) = {}
      /\ leading \cap part \in {{}, leading}
      /\ \A i \in Component \ {1} :
           /\ system.synch_type[i] = "SYNCHRONOUS" => i \in part /\ before(i) # {}
           /\ system.synch_type[i] = "ASYNCHRONOUS" /\ i \in part /\ before(i) # {} =>
                \/ \E k \in before(i) : signals(i) \cap signals(k) # {}
                \/ \A k \in before(i) \cup {i} : label(k) = {}

StepOf(of, c) ==
  LET label == UNION {Transitions(i, of[i])[c[i]].signals : i \in {k \in Component : c[k] # 0}}
      to == [i \in DOMAIN of |->
               IF i \notin Component
               THEN FluentAfter(system.fluents[i - Len(system.automata)], of[i], label)
               ELSE IF c[i] = 0 THEN of[i] ELSE Transitions(i, of[i])[c[i]].state_to]
  IN  [state_from |-> of, state_to |-> to, signals |-> label]

StepsFrom(of) == {StepOf(of, c) : c \in {d \in Combinations(of) : IsStep(of, d)}}

\* All that steps lead to from the initial tuple; steps[of] are those that leave a tuple.
Closure(steps) ==
  LET reach[n \in Nat] ==
        IF n = 0 THEN [new |-> {InitialTuple(system)}, all |-> {InitialTuple(system)}, steps |-> {}]
        ELSE LET before == reach[n - 1]
                 leaving == UNION {steps[of] : of \in before.new}
                 tuples == {t.state_to : t \in leaving} \ before.all
             IN  [new |-> tuples, all |-> before.all \cup tuples, steps |-> before.steps \cup leaving]
  IN  reach[MaxStates].steps

\* Every state valuation two components declare has the same value in both.
ValuationsAgree(of) ==
  system.is_game =>
    \A i, k \in Declaring :
      LET both == system.automata[i].declared \cap system.automata[k].declared
      IN  system.automata[i].state_valuations[of[i]] \cap both
            = system.automata[k].state_valuations[of[k]] \cap both

\* Of the steps that leave a tuple only the inputs, where there are some.
UnmixedOf(steps, of) ==
  LET from == {t \in steps : t.state_from = of}
      inputs == {t \in from : InputBit \in t.signals}
  IN  IF inputs = {} THEN from ELSE inputs

Product ==
  LET steps == {t \in Closure([of \in Tuples(system) |-> StepsFrom(of)]) :
                  ValuationsAgree(t.state_from) /\ ValuationsAgree(t.state_to)}
  IN  IF system.no_mixed_states THEN Closure([of \in Tuples(system) |-> UnmixedOf(steps, of)]) ELSE steps

\* The words of the first component that are lost, those of its odd states, say nothing of
\* a state valuation that another component declares too.
WordsAreRead ==
  \A sys \in {s \in Systems : s.is_game} : \A i \in DOMAIN sys.automata :
    (\A k \in 1 .. i - 1 : sys.automata[k].declared = {}) =>
      \A s \in DOMAIN sys.automata[i].state_valuations : s % 2 = 1 =>
        \A k \in DOMAIN sys.automata \ {i} :
          sys.automata[i].state_valuations[s] \cap sys.automata[k].declared = {}

-----------------------------------------------------------------------------
Numbered(n) == (CHOOSE p \in numbered : p[2] = n)[1]
Composed ==
  {[state_from |-> Numbered(t.state_from), state_to |-> Numbered(t.state_to), signals |-> t.signals] :
     t \in UNION {ToSet(composition.transitions[s]) : s \in 0 .. MaxStates - 1}}

\* Indexes, numbers and tuples are within the components and the table, the
\* alphabet is the ordered union of theirs, and the numbers on the stack are those that are
\* looked up as pending.
CompositionTypeOK ==
  /\ ToSet(alphabet) = UNION {Alphabet(i) : i \in Component}
  /\ \A k \in 1 .. Len(alphabet) - 1 : alphabet[k] < alphabet[k + 1]
  /\ \A i \in Component : idxs[i] \in 0 .. Len(Transitions(i, current.of[i]))
  /\ \A e \in ToSet(frontier) \cup {current} :
       /\ <<e.of, e.state>> \in numbered
       /\ \A i \in Component : e.of[i] \in DOMAIN system.automata[i].transitions
  /\ Entries(bucket_list) = {e.state : e \in ToSet(frontier)}
  /\ Entries(bucket_list) \cap Entries(processed_list) = {}
  /\ Entries(processed_list) \subseteq 0 .. tree.max_value - 1
  /\ composition.composite_count <= MaxTransitions

\* The transitions of the result are those of the definition between the states it reaches:
\* the combinations that are skipped, the partial labels compared from left to right and
\* the order in which states are explored lose none and add none.
CompositionIsProduct == finished => Composed = Product

\* A composite state has one number and a number stands for one composite state, and the
\* table still knows it after the slots were split and the order was computed again.
NumbersAreDistinct ==
  /\ \A p, q \in numbered : p[1] = q[1] <=> p[2] = q[2]
  /\ \A p \in numbered : GetState(tree, p[1]).state = p[2]

\* The lists the solver counts goals by agree with the bits it reads ranks by, for every
\* state that a transition enters (an initial state that is entered is repaired), for the
\* valuations of each kind and for the fluents they become while the solver runs; and the
\* count of a list, which is all the solver takes from it, is that of its entries.
ListsAgree ==
  LET entered == {s \in 0 .. MaxStates - 1 : Aut!In(composition, s) # <<>>}
  IN  \A kind \in DOMAIN marks \ (IF saved = <<>> THEN {} ELSE {"state"}) :
        \A k \in DOMAIN marks[kind].lists :
          LET list == marks[kind].lists[k]
          IN  /\ Entries(list) \cap entered = {s \in entered : k \in marks[kind].bits[s]}
              /\ list.composite_count = Cardinality(Entries(list))

\* The exploration ends, also where transitions are dropped and states have none.
ExplorationEnds == <>(frontier = <<>> /\ idxs = NoIdxs)

=============================================================================
