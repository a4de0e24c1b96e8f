# A verification of cltsa in TLA+

`cltsa` is a tool for labelled transition systems: it reads a specification, composes automata,
and decides whether a controller can realise a GR(1) specification on the composed game. If it can,
it builds the controller's strategy; if it cannot, it minimises the game to explain why. This
directory holds TLA+ modules translated from the code in `src/src/`, configurations that model-check
them with TLC, and proofs checked by TLAPS. `PROJECT.json` maps every definition to the lines it
stands for, lists the runs, the hazards and the theorems, and keeps for each property a *mutant*: a
plausible bug in the code (the operators commented `Mutant:`) under which the property fails.

Everything in `cltsa` runs in one thread, and nothing is persisted. What makes it hard is not concurrency but work lists whose
order is an accident of the input, data that is kept twice (transitions and inverted transitions,
heap and key lists, valuations as bits and as lists, nodes and the caches that refer to them by address), searches that undo what they tried, and
algorithms whose correctness is a fixpoint argument that no test of one example can exercise.

## 1. The system

| Component | Source | State it keeps | Operations | Hard behaviour | Correct when | Status |
|---|---|---|---|---|---|---|
| GR(1) ranking solver | `automaton_gr1.c` | a rank per goal and state, pending pairs | best successor, stability test, increment, update, the stabilisation loop | ends in every order of work, forgets no pair, the range of ranks is enough | the finite ranks are the winning region | modelled, proved |
| Pending worklist | `max_heap.c`, `automaton_gr1.c` | heap arrays, key lists | add with growth, pop, heapify; add predecessors | two structures must agree; slots permuted while arrays grow; comparison of entries | each pending pair is there once | modelled, proved |
| Strategy construction | `automaton_gr1.c` | strategy states with a goal memory | pick the lowest target per option, switch goals | the three rankings must fit together along infinite plays | every play satisfies the specification | partly (the choice and the plays, not the container); safety proved |
| Automaton structure | `automaton.c` | transitions, inverted transitions, degrees, counters | add (with growth), remove, order, remove unreachable, distances, copy | lists modified under iteration, two copies of everything | the copies mirror each other, options are contiguous | partly (no list capacities, no unused operations); what is modelled of lists, order and cleaning is proved |
| Diagnosis | `automaton_diagnosis.c` | groups kept and removed, partitions, which loop runs | linear and delta-debugging minimisation, traces to deadlock | bookkeeping of removals over solver calls, termination | the result is unrealizable and minimal | modelled, proved |
| Composition | `automaton_composition.c`, `automaton_composite_hash_table.c` | stack of composite states, their numbers, valuations as bits and lists | alphabets, overlap, odometer, synchronisation, fluents, numbering | index arithmetic, unexplored combinations, keys that collide | the reachable synchronous product | modelled, proved |
| Minimisation, equivalence | `automaton.c` | processed flags, frontier | compare | flags indexed by one side | bisimilar or not | partly (equivalence) |
| Containers | `bucket_list.c`, `fast_pool.c`, `ordered_list.c`, `dictionary.c` | arrays with counts | add, remove, lend, release | fragments used again | behave as a set, a pool, a map | partly (where a component uses them) |
| OBDD package | `obdd.c`, `obdd_cache.c` | nodes with reference counts, the node table, the operation cache, pools of nodes and of diagrams | apply, restrict, exists, image, clone, reduce, destroy | results cached by address while nodes are released and their addresses lent again | a diagram denotes its function, and stays | partly (what the evaluator calls) |
| Automata from LTL | `automaton_context_from_obdd.c`, `cltsa.yacc` | diagrams of initial states and steps, keys of states | images, listing of valuations, transitions with on/off signals | end of the image loop, don't-care variables | the automaton has the states and changes of the formulas | partly |
| Evaluation of specifications | `automaton_context.c` | tables | relabel, sequentialise, merge valuations around a synthesis; expressions, ranges, local processes | replacing in place, numbering of new states, index shifts | signals renamed, steps kept | partly |
| Lexer, parser | `cltsa.lex`, `cltsa.yacc`, `parser_utils.c` | - | a grammar; the actions of LTL expressions | - | - | partly (those actions) |
| Import, export, reports | `automaton_importer.c`, `automaton_serializer.c` | files | formatting and I/O | - | - | not modelled |
| Command line, test runner | `main.c`, `cltsa_runner.c` | - | options, tests | - | - | not modelled |

The components interact by direct calls on shared structures. The parser builds diagrams for LTL rules while it
reads them; the evaluator turns them into automata, relabels automata and composes them into a
*game automaton*, drops its deadlocks and unreachable states, orders its transitions so that those
with the same monitored (environment) label are contiguous, merges liveness and state valuations into the fluents, and calls the solver with the names of
the assumption and guarantee fluents. The solver reads the game and owns rankings, heap, key lists
and strategy. Diagnosis repeatedly removes options from a copy of the game and calls the solver on
what is left.

## 2. Modules

| Module | What it is |
|---|---|
| `GR1Game` | the game, and the arithmetic of ranks: `BestSuccessor`, `Increment`, `Update`, `IsStable`, `MaxDelta` |
| `GR1Ranking` | the stabilisation loop with pending pairs as a set, any of which may be next; its properties |
| `GR1Lifting` | abstract specification: the lifting algorithm of `doc/definitions/clts_gr1.tex`, with no worklist |
| `GR1Winning` | abstract specification of the answer: the winning region as nested fixpoints, with no ranks; `GR1Ranking` compares its result with it |
| `PendingHeap` | the concrete heap: `values`, `values_ptrs`, `size`, `count`; add, grow, heapify, pop |
| `GR1Worklist` | the same loop, now with heap, key lists and timestamps; refines `GR1Ranking` |
| `GR1Strategy` | `GR1Ranking` composed with the strategy and an environment: one more variable, the play |
| `Automaton` | an automaton's transitions, kept twice, and the operations of `automaton.c` on them |
| `AutomatonSignals` | the inputs and outputs of a label, shared by the next three |
| `AutomatonQueries` | distances, traces to deadlocks, equivalence: functions of an automaton |
| `Relabelling` | a copy of an automaton with signals replaced |
| `Sequentialisation` | an automaton that takes concurrent signals one after another; the automaton that grows |
| `Minimisation` | abstract specification: a part of an unrealizable game shrinks until nothing can go |
| `Diagnosis` | linear search and delta debugging over the option groups of a game; refines `Minimisation` |
| `BucketList` | sets of numbers in buckets, with their count |
| `CompositeTable` | numbers of composite states: keys, order signature, slots that are split |
| `Composition` | the exploration of the product, on `Automaton`, `CompositeTable` and `BucketList`, and the merge of valuations |
| `FastPool` | pools of elements cut from fragments, which are cut anew when all are back |
| `Obdd` | the diagrams: node table, reference counts, cache, operations; on two of `FastPool`, for nodes and for diagrams |
| `LtlAutomaton` | from LTL rules to their automaton: parser actions, rule lists, construction; on `Obdd` and `Automaton` |
| `GR1SmallGames` | the games the configurations enumerate |
| `MC...` | what TLC runs |
| `Iteration` | what loops compute: induction for folds and for recursive functions, least and greatest fixpoints; the proofs instantiate it |
| `GR1GameLemmas`, `GR1RankingProofs` | the arithmetic of ranks; the invariants of the loop; its answer is the winning region |
| `GR1StrategyProofs` | the plays of the strategy |
| `GR1WorklistProofs` | the heap, and that the loop with the heap is the loop with the set |
| `AutomatonProofs` | the lists of an automaton, its order, its cleaning |
| `DiagnosisProofs` | the searches for a minimal part |
| `CompositionProofs` | the numbers of composite states, the exploration, the lists of valuations, the product |

### From the code to the model

*The game.* A state's transitions are grouped into options, one per monitored label. The environment
picks the option, the controller the transition. The code reads options as runs of equal labels in
the array that `automaton_automaton_monitored_order_transitions` sorts; `game.moves[s]` is the set of
options, each the non-empty set of its targets. Two labels with the same targets are one option,
which neither ranks nor strategies can tell from two. A state without options is a deadlock. Fluents
are sets of states, `game.assumption[k]` and `game.guarantee[j]`. The game is a variable that no step
changes: one run covers every game of its configuration, one theorem covers all games.

*Ranks.* `[value, assumption]`, with -1 for infinity, as in `automaton_ranking`. The C code leaves the
assumption of an infinite rank as it was; only the heap's comparison ever reads it, so `GR1Game` has one
infinite rank, and `GR1Worklist` gives entries of infinite rank an arbitrary assumption (`stale`).
`Increment`, `Update` and `IsStable` have the branches of the three functions; `IsStable` reads the assumption of the
state's current rank and `Increment` that of the best successor's, as the code does. `MaxDelta` has
the code's subtraction of the smaller of two counts from the bigger one, and is 0 without assumptions. The counts are those of the
lists of `inverted_valuations`, where a state is only put when a transition enters it: `Unlisted` are the
states that are in no list, the initial state of some games. Goals of strategies are looked up in those lists too (`NextGoal`).

*The loop.* One iteration of the `while` loop (lines 596-664) is one step: pop a pair, then one of
`SkipInfinite`, `SkipStable`, `Lift`, `LiftToInfinity`. A lift adds the pairs of the predecessors *for
the goal just lifted*; a lift to infinity marks the state for every goal and adds its predecessors for
every goal. `Init` is everything before the loop, with the initial work: pairs of states that satisfy the
first assumption and miss some guarantee, and the predecessors of deadlocks. `GR1Worklist` has the same steps with
`Remaining` (pop the heap, look the pair up in its goal's key list and remove it) and
`AddUnlessKnown` (look up, then add to both). `pending_processed` is the timestamp of entries. The
order of states and of inverted transitions is any order, chosen anew at each step.

*The strategy.* Lines 705-855 make a strategy state of each pair of a game state and a goal and keep, for each option,
one transition to a target of lowest rank for `TargetGoal`. `GR1Strategy` is the set of its plays: `Start`
is in a winning state at goal 0, `Answer(o)` is the environment's choice and the strategy's answer. The
code keeps the *first* target of lowest rank; the model allows all of them, every time, so what holds of
all plays holds of the code's. The variable `turn` flips with each answer: without it a move along a
self-loop would change nothing, and a play that circles in one state would be no play at all.

*The automaton.* `Automaton` is one record with the lists `transitions` and `inverted_transitions` per state, as
sequences whose lengths are the degrees, `is_controllable`, `max_out_degree`, `composite_count` and `ordered`.
`RemoveTransition` keeps the quirk that the search through an empty list counts as a success.
`SelectionSort` is the code's, with its comparison word by word, a partial order. The loops that remove by
index from a list that shrinks are written with the index, entry by entry (`RemoveOutgoing`, `Sweep`), and
repeated as the code repeats them. Of the distances that decide reachability only "zero or not" is kept here, which is all
`remove_unreachable_states` reads. The actions are calls in
any order, with two guards that the callers give: a removal is from a state that has transitions
(`automaton_diagnosis.c:345`; the other callers pass a transition of the list), and mixed states are removed
while the flags are current, at the end of the composition.

*Functions of an automaton.* `AutomatonQueries`, `Relabelling` and `Sequentialisation` are operators on the automaton that the
actions reach, and their properties quantify over their other arguments. The bucket list of the search for
distances keeps duplicates, since it compares addresses; the search takes the predecessor whose *number* plus one is below the best distance.
`AreEquivalent` has the flags by left state and the first equal label. A relabelling replaces one signal after another, reading the original label and
writing the copy. A sequential automaton gets three numbers for each state, and numbers of the states between from two key
trees that go on from one counter; its lists double when a number is beyond them (`ResizeToState`).

*Diagnosis.* `Diagnosis` takes the solver's verdicts as a constant: the games for which the winning region contains the initial state
(`MCRealizableGames`, by `GR1Winning`). The recursion of the delta debugging only returns what its inner call
returns, so one set of variables is its whole state. Partitions are index ranges over the kept groups, a group is
taken only if its state keeps another transition, and each attempt rebuilds the automaton from the game and drops what is unreachable.
Unreachable states that were dropped come back with the rebuild, as in the code.

*Composition.* `Pop` takes a state from the stack, `Compose` and `Block` are one combination that synchronises or does not, and
`IncrementIdxs` is the odometer with its skipped transitions. `Finish` removes mixed states. In a game every
composite state has valuations of three kinds as `bits` and as `lists`; `Merge` and `Restore` are what the evaluator does around each
synthesis. `CompositeTable` computes keys as the code does, as unbounded numbers in place of 128 bits, with
its order signature that is only recomputed when it does not fit. State valuations keep the code's extra word: the second word is the next state's.

*Diagrams.* A node is an element of the pool of nodes and is known by its address, a diagram one of the pool of diagrams. A node without
references is given back by its fragment, and when a fragment has all of its elements back it is cut anew: the next nodes get the old addresses, while the cache
may still name them. What is at an address stays there until it is lent again, as the `next` of a node does even then. `lent` is the set of the addresses that are
in use; no operation reads it. Where fragments lie in memory is a constant, `FragmentAddress`, because lists are sorted by address. The lists of a level are linked through `next`
and taken apart by the last bit of the hash when the level grows. Hash functions are replaced by another one of the same shape, since nothing
may depend on them. Arguments that call functions are evaluated from right to left, as gcc does, because the order decides which address a node gets. Every operation takes and returns the whole manager, so
reference counts, cache entries, pools and the variables created on the way are those of the code's sequence of calls. `LtlAutomaton`
runs the parser's actions symbol by symbol, then the construction phase by phase (`Read`, `Formulas`, `Transitions`).

## 3. The runs

| Run | Bounds | Shows |
|---|---|---|
| `gr1_loop` | every game of 2 states, 2 guarantees, 2 assumptions | no pair is forgotten, goals agree on losing states, progress, refinement of `GR1Lifting`, termination |
| `gr1_winning` | every game of 3 states, 1 guarantee, 1 assumption | the answer is the winning region; the ranking is the least closed one |
| `gr1_worklist` | 2 states, 3 guarantees, 1 assumption, heap of one slot | heap and key lists agree, no slot is shared, heap order, refinement of `GR1Ranking` |
| `gr1_strategy` | 2 states, 2 guarantees, 2 assumptions | every play is safe, descends, and satisfies the specification |
| `automaton` | 3 states, 5 labels, at most 4 transitions, calls in any order; 6 relabellings; lists that start with 4 states | copies and counters agree, options contiguous, cleaning leaves the reachable part, searches, relabelling, sequentialisation |
| `diagnosis` | games of 4 states, up to 9 option groups, 3 assumptions, a guarantee that never holds | both searches refine `Minimisation`, bits and automaton agree, no fallback, termination |
| `composition` | 3 of 8 automata in all ways to synchronise; games of 2 with a fluent, a liveness and two state valuations; a table of 8 slots | the product by its definition, distinct numbers, lists agree with bits, termination |
| `ltl_automata` | 254 specifications over 2 or 3 signals; diagrams in fragments of 4, nodes in fragments of 2, a cache of 8 slots and a table of 2 | diagrams denote formulas, nodes in use are kept, the automaton has the states and changes of the specification, the image loop progresses |
| `gr1_no_assumptions` | 2 states, 1 guarantee, no assumptions | *violated*: finding 1 |
| `gr1_range` | 3 states, 1 guarantee, 1 assumption, no transition enters state 0 | *violated*: finding 2 |
| `heap_order` | 2 states, 1 guarantee, 2 assumptions | *violated*: finding 3 |
| `composite_keys` | 3 automata, the code's 256 slots and density 5 | *violated*: finding 4 |

*Why the bounds are enough.* A solver configuration takes every assignment of moves from `Menu`: deadlock, a
choice of the controller among up to `MaxChoice` targets, or a choice of the environment between two;
and every assignment of fluents, up to the names of the states (profiles are taken in ascending order, which leaves out only
games isomorphic to one that is kept). Two guarantees are the fewest with which the goal memory and the agreement of
goals mean anything; two assumptions the fewest with which a rank moves from one assumption to the
next before its value grows. Three states are needed for a value above 1 to be reached and for a
winning state to wait behind one that is passed twice, which is what the range of ranks is about. A
heap that starts with one slot grows three times with six pairs, reaches depth three and is permuted when
it grows; the code starts with eight (`INITIAL_HEAP_SIZE`), and does not otherwise depend on the
number. The theorems of section 5 have no bounds: for the solver, its strategy, the automaton, the
composition and the diagnosis the runs add liveness, the functions of an automaton, and the assurance that what is proved
is not proved of a model that does nothing (each property has a mutant that the run tells from the code).

In `automaton` the labels are one output and two pairs of inputs, equal within a pair and incomparable across: three
transitions are enough for a sort to split a pair, and four give it two pairs. Two transitions that leave an
unreachable state are enough for the loop to skip one, and three states for a cycle out of reach. The label with four signals has 2! orders of
inputs and of outputs, and two transitions of one state share the states between. A sequential automaton outgrows its four states several times.

In `diagnosis` the environment has to meet three assumptions for ever, which may take several options of one state in turn, so minimal parts keep more than one group and the
searches recurse; nine groups do not divide evenly into the partitions.

In `composition` up to 27 composite states split the table twice, states of a cycle are far apart so that slots and orders differ, and the automata
include empty labels, labels of two signals, inputs, and one whose last state has no transition. `Quiet` and `Asking` make the partial labels and the asynchronous cases. The games
contain pairs whose state valuations disagree, so that transitions are dropped.

In `ltl_automata` a fragment of four diagrams lends three, so the pool grows and fragments come back. A fragment of two nodes lends one, so that *each* release frees an address at once and the
next node takes it. That is the worst case of the code's fragments of 100, which lend 99 and come back only together. In the run, twins of nodes and nodes of intermediate
results are given back while an item of the cache still names them as an operand, and another node gets the address; still no lookup finds the old result. If a node that is made is not counted for its caller (the mutant of `DiagramsDenoteFormulas`), addresses come back sooner, the
cache answers for a node that is gone, and diagrams denote something else. Nothing in the code rules a stale result out, so this shows it of these specifications only, and of one layout of the fragments (in pairs, the
second one first, so that addresses do not follow the order of allocation). The cache of eight slots replaces entries and doubles; levels are resized. Contradictory, tautological and
empty rules are among the rules.

*Deadlock.* Configurations with `CHECK_DEADLOCK FALSE` are of loops that really stop: when nothing is
pending, when a search or an exploration has ended, or when no state wins and no strategy is played. `LtlAutomaton` has a stuttering step at its end (`Done`) instead, so that a construction stuck half-way would be found.

*Fairness.* `GR1Ranking!Spec` has weak fairness of `Next`: a `while` loop goes on while its condition holds, and so does `Diagnosis`.
Nothing is assumed about which pair is next, so `Termination` holds in every order. `GR1Strategy` assumes
that loop and play go on while they can, and nothing about the environment: the
assumptions of the specification are the left side of `RealisesSpecification`. `Composition` has weak fairness of taking a state from the stack and of the odometer
(`WF_vars(Pop)`, `WF_idxs(Advance)`), which are the conditions of its two loops. `LtlAutomaton` states none; `ImagesAddStates` bounds its loop by an action property.

*One order in `gr1_strategy`.* `MCSpec` takes pending pairs in one order. Theorem `LeastRanking` says
that every order ends with the same ranking, and strategies start when nothing is pending, so nothing is lost.

### What the properties say

- `UnstableIsPending`: a lift queues predecessors for one goal only, and stability is tested when a pair is
  popped; still, a pair whose rank must grow is always pending.
- `LosesForAllGoals`: a state loses for one goal exactly when it loses for all.
- `StabilizedIsClosed`, `ComputesLeastRanking`: the result is closed under lifting, and nowhere above
  another ranking that is.
- `EveryStepProgresses`, `Termination`: ranks only grow, a step that lifts nothing shrinks the worklist; the loop ends.
- `ImplementsLifting`: what the loop does to ranks, the documented algorithm may do.
- `ComputesWinningRegion`: a state has finite ranks exactly when the controller wins from it, by
  fixpoints that know nothing of ranks. This is what makes `MaxDelta` right, when all states are listed.
- `HeapMatchesKeys`, `HeapPropertyKept`, `ImplementsRanking`: the worklist is the set
  that `GR1Ranking` takes it for; no two entries share a slot.
- `StaysWinning`, `RankDescends`, `RealisesSpecification`: the strategy is correct against every environment.
- `Mirrored`: both lists hold the same transitions, once, and the counters that reports and the
  composition's arrays go by agree with them.
- `OptionsAreContiguous`: after the sort by a comparison that is no total order, equal monitored labels are still
  adjacent; the solver and the diagnosis read options as runs.
- `UnreachableAreRemoved`, `NoStateIsMixed`: what the cleaning loops leave, against a definition without loops.
- `DeadlocksAreTraced`: each reachable deadlock gets one trace that ends in it. Traces may be cut short or padded with initial states, because the distances are not the shortest: the
  property allows that and nothing else.
- `EquivalenceIsDecided`: deterministic automata that behave alike are judged equivalent; those judged equivalent behave alike if the
  left one is a tree. In general they need not: with left 0-a->1, 0-b->1, 1-c->0 and right 0-a->1, 0-b->2, 1-c->0, 2-d->0 the code says equivalent.
- `SignalsAreRenamed`: relabelling renames, swaps included, where no replacement is itself replaced or labels have one signal; input bits and alphabet follow.
- `StepsAreKept`: between two states of the automaton, the sequential one reads exactly the orders of its transitions.
- `BitsMatchAutomaton`, `NeverFallsBack`, `ImplementsMinimisation`, `Terminates`: the diagnosis keeps the game unrealizable, ends, and ends with a minimal part; the delta debugging never needs the linear search to repair its result.
- `CompositionIsProduct`: transitions are those of the definition of parallel composition, written without odometer and partial labels.
- `NumbersAreDistinct`: a number for each composite state and a composite state for each number, before and after slots are split.
- `ListsAgree`: bits, lists and counts of all kinds of valuations agree for states that are entered, merged or not.
- `ExplorationEnds`: also where transitions are dropped and states stay without.
- `DiagramsDenoteFormulas`: each diagram in use has the models of the formula, the image or the quotient it was made for, whatever nodes had its addresses before.
- `NodesInUseAreKept`: nothing referred to is released or counted below its references, no diagram on the stack is lent twice, and both pools count what they lent.
  The references of a node are those of its parents, of diagrams, of single variables and of cached results; cache operands and table entries are not counted, as in the code.
- `AutomatonIsSpecification`: states, changes and liveness bits are those of the formulas. It is stated for orders with inputs first and for rules that exclude some step: otherwise
  the code lists valuations differently (see Not modelled). Labels are compared without the input bit.
- `ImagesAddStates`: an image adds states or is the last one.
- `TypeOK` and its kin: types; for ranks this includes that values stay within `MaxDelta`.

## 4. Findings

1. **No assumptions** (`gr1_no_assumptions`). With `assumptions_count = 0` every `max_delta` is 0 and
   every state counts as satisfying the assumption, so the first lift goes to infinity. The code rejects
   a game unless the plays are in the goal from the start: a controller that has to take one step to its goal loses.
2. **Range of ranks** (`gr1_range`). The range is computed from the counts of the lists, and the initial state is in no list unless a
   transition enters it. With a fluent that holds initially in a state that is never entered again the range is too small, and a game that the
   controller wins is rejected.
3. **Order of the heap** (`heap_order`). The comparison of pending states is not antisymmetric when
   assumptions differ, and "the heap property is never violated" fails with two assumptions. `gr1_loop` takes
   every order, so the answer does not depend on it. With one assumption (`gr1_worklist`) the order is kept.
4. **Keys of composite states** (`composite_keys`). Numerals are concatenated without their lengths: (3, 12, 1) and (7, 9, 0) get one number, and the
   composition confuses two states.

Met while modelling, and listed among the hazards with their lines: the state valuations of a composition are those of the components' next
states; the local alphabet of a sequential automaton with ticks lists index 1 twice; outputs with low indexes are added as inputs; `create` of the composite table loops for ever for some
numbers of components and fluents, of which 16 is the first.

## 5. Proofs

TLAPS proves the theorems below for every value of the constants. What they assume is what the modules
assume, and TLC evaluates it on each run:

| Assumption | Module | Why the code justifies it |
|---|---|---|
| `StateAssumption`, `CountAssumption`, `UnlistedAssumption` | `GR1Game` | a game has finitely many states and at least one; at least one guarantee, any number of assumptions, zero included; any states may be in no list |
| `GamesAssumption` | `GR1Ranking`, `Diagnosis` | the games are games: options are non-empty sets of states |
| `WorklistAssumption` | `GR1Worklist` | the same, and a heap starts with at least one slot |
| `AutomatonAssumption`, `MonitoredAssumption` | `Automaton` | transitions are between states; the monitored part of every label has the same number of bytes (one bit per signal of the alphabet), which is what makes the comparison a partial order |
| `CompositeTableAssumption`, `PowersAssumption` | `CompositeTable` | a composition has components; the second assumption is arithmetic, the doubling of powers of 2, of which the provers know nothing |
| `CompositionAssumption`, `BoundsAssumption` | `Composition` | the systems are systems: transitions between states of a component, labels over its alphabet; the bounds of the model are above what the components allow |
| `StateOrderAssumption`, `InitialStateAssumption` | `Diagnosis` | states are numbered from 0 |
| `VerdictsAssumption` | `Diagnosis` | a state with fewer options of the environment, but some, is no harder for the controller: a game that is realizable stays so. It is true of games, and TLC evaluates it for the verdicts of `GR1Winning`; only the minimality of the linear search needs it |

Two theorems' hypotheses are not assumptions of a module, because the code does not ensure them. `KeysDistinct`: no two composite states that a system could have get the same key. It fails
for the system of `composite_keys` (finding 4), and with it the numbers on which lists and transitions rest. `WordsAreRead`: the state valuations of the first declaring component's odd states, which the code
does not see (`automaton_composition.c:848`), are of no other component's concern; else the code and the definition disagree on which states agree. TLC evaluates
both on the systems of `composition` (`MCKeysAssumption`, `MCWordsAssumption`).

### How loops are reasoned about

The models write a C loop as a fold over a list or as a recursive function on numbers. What such a
definition computes is an induction, whose theorem in the library takes an operator as parameter. `Iteration` is
parameterised by *constants* instead: `Op`, the body, and `Inv`, the loop invariant. It proves by
well-foundedness that the fold or the function exists (`FoldExists`, `IterationExists`) and that an invariant that the body keeps holds at the end
(`FoldInvariant`, `IterationInvariant`); a proof about a loop instantiates it, `INSTANCE Iteration WITH Op <- ..., Inv <- ...`, which is the textbook
rule for loops. `LeastIsFixpoint` and `GreatestIsFixpoint` say the same of the fixpoints of a monotone
operator on a finite set, or on any sets with a size that grows when they do (`IsSize`): iterated as often as the size allows it stands still.

### The solver

*Lemmas* (`GR1GameLemmas`). A non-empty set of naturals has a least element, by well-foundedness, and so a
non-empty set of ranks has a lowest; one whose values `MaxDelta` bounds has a highest. `BestSuccessor` is the
rank of a successor, monotone and local in the ranking; `Increment` stays in `RankOf`, is monotone, and gives
the next rank the game demands; and `IsStable` holds exactly when `Update` changes nothing, although the two
read different assumptions (`StabilityTest`, which rests on states of a goal keeping the initial rank).

*The invariant* (`GR1RankingProofs`, theorem `Invariant`). `UnstableIsPending` is not inductive alone. A lift of
`<<s, j>>` changes what its predecessors see, and those for goal `j` are queued; but a predecessor that
*satisfies* its goal `i` looks its successors up in the ranking of goal `i + 1`, and it is queued for goal
`j` only. It is stable nevertheless, because it asks only whether its best successor is infinite, which requires that
a finite lift disturbs no such pair, and that an infinite lift reaches every goal: `LosesForAllGoals`
and the queueing for all goals. It must also keep the initial rank, `GoalKeepsInitialRank`, and a deadlock
must lose from the start, `DeadlocksLose`. With `TypeOK` these five are `IInv`, and each step is shown
to keep each of them.

*The answer* (`GR1RankingProofs`, second part). Both directions compare a ranking with the nested fixpoint of `GR1Winning`.
Soundness (`SolverIsSound`, every game): in a closed ranking the finite states reach their goal. Take,
among the finite states outside `Reach`, one of lowest rank. If it lowers its rank, it reaches; so it
stays at a rank whose assumption it does not meet, and so does every state it has to go through: they are in
the greatest fixpoint `Waiting`, which is contained in `Reach`.
Completeness: the stages of the fixpoint are numbered by rounds, one assumption after the other within a
round (`LevelsExist`), and the number of a state's stage is a rank. These ranks are a closed ranking (`LevelRanks`, `ClosedOnWinning`) if they fit below
`MaxDelta`. They do because a round whose first turn adds no state of `P_0 \ G_j` is the last (`LevelsStall`, `LevelsEnd`), where `P_0` is the first
assumption and `G_j` the goal, so there are no more than `|P_0 \ G_j|` rounds. The loop computes the
least closed ranking, which is below, so a winning state stays finite. Hence `RangeDecides`: wherever `MaxDelta` is at
least `|P_0 \ G_j|` (`EnoughRanks`) the answer is exact. `SolverIsExact` shows
that it is for every game with an assumption and all states listed. Its two hypotheses are the two ways in which the
range can be too low, and each is a finding of section 4 (`gr1_no_assumptions` and `gr1_range`).

*The strategy* (`GR1StrategyProofs`). The invariant says that the play is in a state of finite rank for
its goal, in a stabilized ranking. With the soundness of the ranking, `PlaysWin`: a play never leaves the winning region.

*The heap* (`GR1WorklistProofs`). `WorklistInv` has the shape of the heap (`values_ptrs` is a bijection of positions and
slots, also beyond `count`, since a freed slot is reused and growth appends the identity), that used
slots hold pending entries with distinct keys, that the key lists are exactly these keys, and the order of the heap if there is at
most one assumption. The order is proved with two invariants of the loops: on the way down the heap is ordered but for the children of one position
(`SinkKeepsOrder`), on the way up but for one position and its parent (`RiseKeepsOrder`), each with the grandparents in order. Rearranging slots keeps the set
of entries, so a pop removes one pair and an add adds one, and every step is a step of `GR1Ranking`
(`WorklistImplementsRanking`) whatever the order of states, transitions and stale fields. `OrderIsKept` has the hypothesis
`AssumptionsCount <= 1` and needs it: with two, `heap_order` violates it (finding 3). Everything else in the invariant has no
such hypothesis, because nothing else depends on the order. What is proved of the loop with the set is then instantiated through the refinement: `WorklistComputesLeastRanking` and `WorklistSolves`.

### The automaton (`AutomatonProofs`)

`Has(a, T)` says that the lists of `a` hold exactly the transitions `T`, each once in each of its two lists, and that the counters
agree; it is the invariant, with the bounds and `OptionsAreContiguous`. Each operation is shown to turn an automaton that has `T`
into one that has a named set: `T` with a transition, `T` without some. The cleaning loops remove by an index into a list that shrinks, so one sweep may skip
entries. The proof says what a sweep does keep: nothing is removed that should stay, and every list that should be empty gets shorter (`SweepShortens`), so
`max_out_degree` sweeps leave nothing. The selection sort compares by a partial order, in which "equal" entries need not be equal. That options become contiguous rests on what
the search for the next entry returns (`PickIsRun`): a chain of ever better entries from the first one. Hence the entry that is picked after `x` has the monitored
label of `x` whenever one is left (`PickAgain`).

### The diagnosis (`DiagnosisProofs`)

`DiagnosisInv` has what the four checked properties need of each other. `StillUnrealizable`: what is left is a cleaned-up part of the game, and unrealizable.
`BitsMatchAutomaton` needs `CleanUpBefore`, that cleaning up after each removal or once at the end is the same. `EnoughGroups`, from the arithmetic of ranges
(`RangeBounds`: `n` groups in `p <= n` ranges leave none empty), is what makes a failed test of a complement say something about a group.
`ComplementsTried`: the complements that the inner loop has already failed on stay needed until something is removed; with as many partitions as groups this is minimality.
`RemovedAreGone` and `GroupsTried` are the same for the linear search, where a group that could not be removed
must still not be removable when later ones are gone, which is where `VerdictsAssumption` is used. `NoFallback` holds whatever the verdicts are.

### The composition (`CompositionProofs`)

*Numbers.* `TableOf(tree, numbers)` says that the table is a set of tuples with their numbers: each slot has the keys that hash to it, sorted, and each key its number. The key is computed
with the order signature of the state before if that order fits; `KeptOrder` and `SortedIsUnique` say that it fits only if it is the order a new computation
would give, so a tuple has one key. A split of the slots moves each entry to the slot its next bit says (`HalfEffect`), and `GetStateEffect` is that a search returns the number of a known tuple and a new one
otherwise. Two tuples with one key cannot be told apart: `KeysDistinct`.

*Exploration.* `FrontierInv` relates the stack, the two bucket lists and the numbers: every number is on the stack, current, or processed, and once. The odometer goes through the
combinations in the order of their first difference (`IncrementEffect`) and passes over only those that hold a skipped transition, so those before the current one have been tried. A combination is
compared component by component with the union of the labels so far, which is shown to be as good as comparing any two (`OverlapsAgree`, `ViableIsStep`): this is where partial labels and
overlaps are proved right.

*The product.* Three invariants lead to it. Each transition is a step of the definition (`ArcsInv`); each step that was tried and is consistent was made (`AllMade`);
and each numbered tuple is reached by steps from the initial one (`RootedInv`). When the stack is empty all are tried (`AllAreTried`), and the numbered tuples are the least closed set of the definition
(`ClosureMeans`). The state valuations are compared from left to right, which agrees with comparing any two if words are read (`ConsistentMeans`). The container is an
`Automaton`, so the lemmas of `AutomatonProofs` are instantiated (`AutP`) for added arcs and for the removal of mixed states.

*Valuations.* `MarksInv` says of every kind that bits and lists were set for exactly the numbers that a transition entered; merging and restoring move both by the same indexes (`MergeMarks`,
`RestoreMarks`).

### The theorems

| Theorem | Property | Argument |
|---|---|---|
| `Invariant` | - | `IInv` is inductive |
| `TypeCorrect` | `TypeOK` | from `IInv` |
| `NothingForgotten` | `UnstableIsPending` | from `IInv` |
| `GoalsAgree` | `LosesForAllGoals` | from `IInv` |
| `StabilizedRanking` | `StabilizedIsClosed` | no pair pending, so all stable, so closed |
| `LeastRanking` | `ComputesLeastRanking` | `BelowEveryClosedRanking` is kept because `Update` is monotone: with closedness, the result is independent of the order |
| `LoopProgresses` | `EveryStepProgresses` | action property, from `IInv` |
| `LoopImplementsLifting` | `ImplementsLifting` | a lift is a `LiftRank` step, since an unstable pair has an update above its rank; a skip stutters |
| `SolverIsSound` | - | lowest rank and coinduction in `Waiting`, for every game |
| `RangeDecides` | - | levels of the fixpoint are ranks: exact where the range is enough |
| `SolverIsExact` | `ComputesWinningRegion` | the range is enough with an assumption and all states listed |
| `StrategyTypeCorrect` | `StrategyTypeOK` | from the invariant of plays |
| `StrategyIsSafe` | `StaysWinning` | every option of a state of finite rank has a target of finite rank |
| `StrategyDescends` | `RankDescends` | action property, from stability of the final ranking |
| `PlaysWin` | - | safety and `SolverIsSound` |
| `WorklistInvariant` | - | `WorklistInv` is inductive |
| `WorklistTypeCorrect` | `TypeOK` | shape of the heap |
| `KeysMatchHeap` | `HeapMatchesKeys` | from `WorklistInv` |
| `OrderIsKept` | `HeapPropertyKept` | two loop invariants; at most one assumption |
| `WorklistImplementsRanking` | `ImplementsRanking` | refinement: each step of the heap loop is one of the set loop |
| `WorklistComputesLeastRanking`, `WorklistSolves` | - | through the refinement |
| `AutomatonInvariant` | - | each operation keeps `Has` |
| `AutomatonTypeCorrect` | `TypeOK` | from the invariant |
| `ListsMirror` | `Mirrored` | from `Has` |
| `OptionsContiguous` | `OptionsAreContiguous` | selection sort by a partial order |
| `UnreachableRemoved` | `UnreachableAreRemoved` | sweeps shorten until nothing is left to go |
| `NoStateMixed` | `NoStateIsMixed` | the same for the outputs of mixed states |
| `DiagnosisInvariant` | - | `DiagnosisInv` is inductive |
| `DiagnosisTypeCorrect` | `DiagnosisTypeOK` | from the invariant |
| `BitsMatch` | `BitsMatchAutomaton` | from the invariant |
| `NoFallback` | `NeverFallsBack` | action property, from `StillUnrealizable` |
| `DiagnosisImplementsMinimisation` | `ImplementsMinimisation` | refinement: each step is a step of `Minimisation` or stutters |
| `CompositionInvariant` | - | `CompositionInv` is inductive, with `KeysDistinct` |
| `CompositionTypeCorrect` | `CompositionTypeOK` | each arc has a combination of its own, so the bounds are enough |
| `NumbersDistinct` | `NumbersAreDistinct` | the table is a set of tuples through splits and changes of the order |
| `ListsAgreeAlways` | `ListsAgree` | bits and lists are set together, and moved together |
| `CompositionProduct` | `CompositionIsProduct` | all combinations are tried, and the numbered tuples are the closure; with `WordsAreRead` too |

### Only model-checked

- `Termination`, `RealisesSpecification`, `Terminates`, `ExplorationEnds`: liveness under fairness, which is out of the
  prover's reach. The proved `EveryStepProgresses` and `RankDescends` are the variants that the first two rest on. Of `Minimisation` the safety is proved; that the searches end is `Terminates`.
- `DiagramsDenoteFormulas`, `NodesInUseAreKept`, `AutomatonIsSpecification`, `ImagesAddStates`: the diagrams are trees that the operations recur over, with `RECURSIVE` operators.
- `DeadlocksAreTraced`, `EquivalenceIsDecided`, `SignalsAreRenamed`, `StepsAreKept`: functions of an automaton. They are written without
  `RECURSIVE`, and nothing in principle keeps them from proof by the means of `AutomatonProofs`; they are not proved.

## 6. Not modelled

- Names and text of states and signals, report printing, memory release and allocation failure; widths of ranks (64 bits, bounded by the number of states) and of composite keys (128 bits).
- The automaton that holds the strategy: the code builds it and removes its unreachable states; its transitions are modelled, the container is not. Only
  `initial_states[0]` is asked for its ranks, and compositions have one initial state; `Start` allows each winning state.
- `automaton_automaton_minimize`: it indexes partitions beyond their bounds and does not look at labels, so it has no defined behaviour to translate; one test calls it.
- Modelled as the code has it, with no property that would object: that outputs with low indexes are marked as inputs (`AutomatonIsSpecification` compares labels without the mark), that the state valuations of a composition
  are those of the next states (bits, lists and product follow what is stored), and the verdicts of the equivalence check on automata that are no trees.
- Operations that nothing calls: `remove_deadlocks`, `update_valuations`, reset and copy of bucket lists, `obdd_restrict_vector`, the composite tree that the hash table replaces.
- In `Obdd`, arrays of variables and their capacity, printing, and the counting of valuations. In `LtlAutomaton`, branches that are compiled out. Two cases are modelled as the code has them but excluded from `AutomatonIsSpecification`: rows of
  initial valuations are read inputs first whatever the order of the variables, and if every step is allowed the root of the relation is the constant and only the valuations of the first block of variables are listed.
- The expansion of local processes with indexes, ranges and conditions, expression arithmetic, hiding (parsed, without code), and the loop over statements of a specification; the alphabets of sequential automata.
- Parsing other than LTL expressions, import, export and the command line: sequential glue over text.

## 7. Plan

1. `BucketList`: that `AddEntry` and `RemoveEntry` add and remove one entry and that the count is the number of entries; `FastPool`: that no element is lent twice.
2. Theorems about the functions of an automaton: `DeadlocksAreTraced` from `UnreachableRemoved`'s treatment of distances, `SignalsAreRenamed`, `StepsAreKept`.
3. The expansion of local processes in `automaton_context.c`, over a small language of choices and indexes, against the transitions it denotes.
