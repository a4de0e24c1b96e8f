---------------------------- MODULE LtlAutomaton -----------------------------
(****************************************************************************)
(* From the LTL rules of a specification to its automaton: the parser's     *)
(* actions that make the diagrams of the formulas (cltsa.yacc), the lists   *)
(* of rules (automaton_context.c), and automaton_build_automaton_from_obdd  *)
(* (automaton_context_from_obdd.c).                                         *)
(*                                                                          *)
(* A specification has an order of its signals, the rules in the order they *)
(* are written, and the signals that are inputs.  A formula is in postfix,  *)
(* as the parser reduces it: a signal, or one of the operators below.       *)
(****************************************************************************)
EXTENDS Obdd

CONSTANTS
  Specifications,  \* records of order, inputs and rules; a rule has a kind and a formula
  MaxStates,       \* bound: the states of an automaton
  MaxTransitions   \* bound: its transitions

Kinds == <<"env_theta", "sys_theta", "env_rho", "sys_rho">>
Operators == {"!", "X", "&&", "||", "->", "<->"}

VARIABLES
  spec,
  phase,       \* what the program does
  position,    \* the rule and the symbol of its formula that are read, or taken next
  mgr,         \* the manager of the diagrams, with the dictionary
  primed,      \* parser_primed_variables with parser_primed_original_variables, in order
  stack,       \* the parser's stack of diagrams
  rules,       \* the rules that were read: their kinds and diagrams
  composed,    \* name -> a diagram of the construction
  keys,        \* obdd_state_map: the valuations that have a key, 1 for the first
  automaton,   \* as in Automaton
  liveness,    \* state -> the liveness formulas (by rule) whose bit is set
  meaning      \* history: for the diagrams in use, the models of what they stand for

vars == <<spec, phase, position, mgr, primed, stack, rules, composed, keys, automaton, liveness, meaning>>

\* A label is a set of signals that go on or off, and of the input bit.
InputBit == <<"input", "bit">>
Aut == INSTANCE Automaton WITH
         StatesCount <- MaxStates, Label <- {}, Monitored <- <<>>, InputLabel <- {}, Transition <- {}

-----------------------------------------------------------------------------
(****************************************************************************)
(* What formulas mean: a model is the set of the names that are true, where *)
(* a name is a signal and its number of primes.                             *)
(****************************************************************************)
Signals == {s \in UNION {ToSet(spec.rules[r].formula) : r \in DOMAIN spec.rules} : s \notin Operators}
             \cup ToSet(spec.order)
Models == SUBSET (Signals \X {0, 1})

StateOf(model) == {s \in Signals : <<s, 0>> \in model}
NextOf(model) == {s \in Signals : <<s, 1>> \in model}

MeansSignal(s) == {model \in Models : <<s, 0>> \in model}
MeansNot(a) == Models \ a
MeansNext(a) == {model \in Models : \E other \in a : StateOf(other) = NextOf(model)}
Means(op, a, b) ==
  CASE op = "&&"  -> a \cap b
    [] op = "||"  -> a \cup b
    [] op = "->"  -> MeansNot(a) \cup b
    [] op = "<->" -> {model \in Models : model \in a <=> model \in b}

\* The models of a formula in postfix.
FormulaModels(formula) ==
  LET Read(values, symbol) ==
        LET last == Len(values)
        IN  IF symbol = "!" THEN [values EXCEPT ![last] = MeansNot(@)]
            ELSE IF symbol = "X" THEN [values EXCEPT ![last] = MeansNext(@)]
            ELSE IF symbol \in Operators
                 THEN Append(SubSeq(values, 1, last - 2), Means(symbol, values[last - 1], values[last]))
            ELSE Append(values, MeansSignal(symbol))
  IN  FoldLeft(Read, <<>>, formula)[1]
Specified(kinds) ==
  {model \in Models : \A r \in DOMAIN spec.rules :
                        spec.rules[r].kind \in kinds => model \in FormulaModels(spec.rules[r].formula)}

\* The models of a diagram.
NameTrue(m, var, model) == KeyForValue(m, var) \in model
ModelsOf(m, obdd) ==
  {model \in Models : SatisfiesVector(m, obdd, {v \in 2 .. Len(m.dict) - 1 : NameTrue(m, v, model)})}

-----------------------------------------------------------------------------
(****************************************************************************)
(* The parser.                                                              *)
(****************************************************************************)
\* parser_add_primed_variables: the pairs are ordered by their primed variable.
AddPrimed(pairs, pair) ==
  LET below == {i \in DOMAIN pairs : pairs[i][1] < pair[1]}
      at == IF below = {} THEN 1 ELSE Max(below) + 1
  IN  IF \E i \in DOMAIN pairs : pairs[i][1] = pair[1] THEN pairs ELSE InsertAt(pairs, at, pair)
PrimedVars == [i \in DOMAIN primed |-> primed[i][1]]
OriginalVars == [i \in DOMAIN primed |-> primed[i][2]]

\* A variable and its primed one enter the dictionary together.
WithPrime(m, s) == AddEntry(AddEntry(m, <<s, 0>>), <<s, 1>>)
PrimePair(m, s) == <<ValueForKey(m, <<s, 1>>), ValueForKey(m, <<s, 0>>)>>

\* The last signal of the order is reduced first.
ReadOrder ==
  /\ phase = "order" /\ phase' = "parse"
  /\ LET named == FoldLeft(WithPrime, mgr, Reverse(spec.order))
     IN  /\ mgr' = named
         /\ primed' = FoldLeft(LAMBDA pairs, s : AddPrimed(pairs, PrimePair(named, s)), primed, Reverse(spec.order))
  /\ UNCHANGED <<spec, position, stack, rules, composed, keys, automaton, liveness, meaning>>

Rule == spec.rules[position[1]]
Reading == phase = "parse" /\ position[1] <= Len(spec.rules) /\ position[2] <= Len(Rule.formula)
Symbol == Rule.formula[position[2]]
NextSymbol == position' = [position EXCEPT ![2] = @ + 1] /\ UNCHANGED phase
Top == Last(stack)
Below == stack[Len(stack) - 1]

\* The history variable follows: new diagrams get a meaning, those destroyed lose it.
Live(m, means) == Restrict(means, DOMAIN means \cap DOMAIN m.root)

ReadSignal ==
  /\ Reading /\ Symbol \notin Operators /\ NextSymbol
  /\ LET var == MgrVar(mgr, <<Symbol, 0>>)
         named == WithPrime(var.m, Symbol)
     IN  /\ mgr' = named
         /\ primed' = AddPrimed(primed, PrimePair(named, Symbol))
         /\ stack' = Append(stack, var.at)
         /\ meaning' = var.at :> MeansSignal(Symbol) @@ meaning
  /\ UNCHANGED <<spec, rules, composed, keys, automaton, liveness>>

ReadNot ==
  /\ Reading /\ Symbol = "!" /\ NextSymbol
  /\ LET not == ApplyNot(mgr, Top)
     IN  /\ mgr' = Destroy(not.m, Top)
         /\ stack' = Append(Front(stack), not.at)
         /\ meaning' = Live(mgr', not.at :> MeansNot(meaning[Top]) @@ meaning)
  /\ UNCHANGED <<spec, primed, rules, composed, keys, automaton, liveness>>

\* The operand is not destroyed.
ReadNext ==
  /\ Reading /\ Symbol = "X" /\ NextSymbol
  /\ LET next == ApplyNext(mgr, Top)
     IN  /\ mgr' = next.m
         /\ stack' = Append(Front(stack), next.at)
         /\ meaning' = next.at :> MeansNext(meaning[Top]) @@ meaning
  /\ UNCHANGED <<spec, primed, rules, composed, keys, automaton, liveness>>

Fkts == [s \in {"&&", "||", "<->"} |-> CASE s = "&&" -> OpAnd [] s = "||" -> OpOr [] s = "<->" -> OpEquals]
Implied(not, right) == DestroyLast(Apply(not.m, OpOr, not.at, right), not.at)
ReadBinary ==
  /\ Reading /\ Symbol \in Operators \ {"!", "X"} /\ NextSymbol
  /\ \E result \in {IF Symbol = "->" THEN Implied(ApplyNot(mgr, Below), Top)
                    ELSE Apply(mgr, Fkts[Symbol], Below, Top)} :
         /\ mgr' = Destroy(Destroy(result.m, Below), Top)
         /\ stack' = Append(SubSeq(stack, 1, Len(stack) - 2), result.at)
         /\ meaning' = Live(mgr', result.at :> Means(Symbol, meaning[Below], meaning[Top]) @@ meaning)
  /\ UNCHANGED <<spec, primed, rules, composed, keys, automaton, liveness>>

EndRule ==
  /\ phase = "parse" /\ position[1] <= Len(spec.rules) /\ position[2] > Len(Rule.formula)
  /\ position' = <<position[1] + 1, 1>>
  /\ rules' = Append(rules, [kind |-> Rule.kind, obdd |-> Top])
  /\ stack' = Front(stack)
  /\ UNCHANGED <<spec, phase, mgr, primed, composed, keys, automaton, liveness, meaning>>

EndParse ==
  /\ phase = "parse" /\ position[1] > Len(spec.rules)
  /\ phase' = "variables" /\ position' = <<1, 1>>
  /\ UNCHANGED <<spec, mgr, primed, stack, rules, composed, keys, automaton, liveness, meaning>>

-----------------------------------------------------------------------------
(****************************************************************************)
(* The formulas of the automaton.                                           *)
(****************************************************************************)
ListOf(kind) ==
  LET list == SelectSeq(rules, LAMBDA r : r.kind = kind)
  IN  [i \in DOMAIN list |-> list[i].obdd]

\* The node of every variable of the dictionary enters the cache, with its negation; also
\* those of the names 1 and 0.
InitializeVariable ==
  /\ phase = "variables"
  /\ LET name == mgr.dict[position[1]]
         last == position[1] = Len(mgr.dict)
     IN  /\ \E var \in {MgrVar(mgr, name)} :
            \E not \in {MgrNotVar(Destroy(var.m, var.at), name)} : mgr' = Destroy(not.m, not.at)
         /\ position' = IF last THEN <<1, 1>> ELSE [position EXCEPT ![1] = @ + 1]
         /\ phase' = IF last THEN "conjoin" ELSE phase
  /\ UNCHANGED <<spec, primed, stack, rules, composed, keys, automaton, liveness, meaning>>

\* The first diagram of a list is taken, the others are destroyed when they are in.  The
\* first one belongs to its rule, and is not destroyed.
Kind == Kinds[position[1]]
ConjoinRule ==
  /\ phase = "conjoin" /\ position[1] <= Len(Kinds) /\ position[2] <= Len(ListOf(Kind))
  /\ position' = [position EXCEPT ![2] = @ + 1]
  /\ LET obdd == ListOf(Kind)[position[2]]
         old == composed[Kind]
         both == Apply(mgr, OpAnd, old, obdd)
         taken == Destroy(both.m, obdd)
     IN  IF position[2] = 1
         THEN /\ composed' = Kind :> obdd @@ composed
              /\ UNCHANGED <<mgr, meaning>>
         ELSE /\ composed' = [composed EXCEPT ![Kind] = both.at]
              /\ mgr' = IF position[2] > 2 THEN Destroy(taken, old) ELSE taken
              /\ meaning' = Live(mgr', both.at :> meaning[old] \cap meaning[obdd] @@ meaning)
  /\ UNCHANGED <<spec, phase, primed, stack, rules, keys, automaton, liveness>>

EndList ==
  /\ phase = "conjoin" /\ position[1] <= Len(Kinds) /\ position[2] > Len(ListOf(Kind))
  /\ LET last == position[1] = Len(Kinds)
     IN  /\ position' = <<IF last THEN 1 ELSE position[1] + 1, 1>>
         /\ phase' = IF last THEN "complete" ELSE phase
  /\ UNCHANGED <<spec, mgr, primed, stack, rules, composed, keys, automaton, liveness, meaning>>

\* The conjunction of what the environment and the system have, or a clone of the only one;
\* a list that is missing becomes true.
Both(build, env, sys, whole) ==
  LET has == {kind \in {env, sys} : kind \in DOMAIN build.composed}
      of == build.composed
      made == IF has = {env, sys} THEN Apply(build.m, OpAnd, of[env], of[sys])
              ELSE Clone(build.m, IF has = {} THEN TrueObdd ELSE of[CHOOSE kind \in has : TRUE])
      Complete(b, kind) ==
        IF kind \in has THEN b
        ELSE LET true == Clone(b.m, TrueObdd)
             IN  [m |-> true.m, composed |-> kind :> true.at @@ b.composed, meaning |-> true.at :> Models @@ b.meaning]
      models == {model \in Models : \A kind \in has : model \in build.meaning[of[kind]]}
  IN  FoldLeft(Complete, [m |-> made.m, composed |-> whole :> made.at @@ of, meaning |-> made.at :> models @@ build.meaning],
               <<env, sys>>)

CompleteFormulas ==
  /\ phase = "complete" /\ phase' = "restrict"
  /\ \E theta \in {Both([m |-> mgr, composed |-> composed, meaning |-> meaning], "env_theta", "sys_theta", "theta")} :
     \E rho \in {Both(theta, "env_rho", "sys_rho", "rho")} :
         mgr' = rho.m /\ composed' = rho.composed /\ meaning' = rho.meaning
  /\ UNCHANGED <<spec, position, primed, stack, rules, keys, automaton, liveness>>

DestroyIfComposed(m, kind) == IF Len(ListOf(kind)) > 1 THEN Destroy(m, composed[kind]) ELSE m

\* rho is only taken where it goes to a state that it leaves again.
HasSuccessor(models) == {StateOf(model) : model \in models}
RestrictRho ==
  /\ phase = "restrict" /\ phase' = "initial"
  /\ LET rho == composed["rho"]
     IN  \E swapped \in {SwappedFrom(ExistsVector(mgr, rho, PrimedVars), OriginalVars, PrimedVars)} :
         \E and \in {Apply(swapped.m, OpAnd, rho, swapped.at)} :
         /\ mgr' = DestroyIfComposed(DestroyIfComposed(Destroy(Destroy(and.m, rho), swapped.at), "env_rho"), "sys_rho")
         /\ composed' = [composed EXCEPT !["rho"] = and.at]
         /\ meaning' = Live(mgr', and.at :> {model \in meaning[rho] : NextOf(model) \in HasSuccessor(meaning[rho])} @@ meaning)
  /\ UNCHANGED <<spec, position, primed, stack, rules, keys, automaton, liveness>>

-----------------------------------------------------------------------------
(****************************************************************************)
(* The transitions.  A valuation of the n signals is a set of places in     *)
(* 1 .. n; place i is that of variable 2 i, and of 2 i + 1 when it is       *)
(* primed.                                                                  *)
(****************************************************************************)
IsInput(var) == KeyForValue(mgr, var)[1] \in spec.inputs
Unprimed == SelectSeq(Variables(mgr), LAMBDA v : v \notin ToSet(PrimedVars))
x_count == Len(SelectSeq(Unprimed, IsInput))
x_y_count == Len(Unprimed)
\* The image of the initial valuations has the inputs first.
x_y_alphabet == SelectSeq(Unprimed, IsInput) \o SelectSeq(Unprimed, LAMBDA v : ~IsInput(v))

\* The signal of a place is that of the variable of the dictionary.
SignalAt(i) == KeyForValue(mgr, 2 * i)[1]

\* obdd_state_tree_get_key: keys are numbers from 1 in the order they are asked for.
WithKey(list, valuation) == IF Contains(list, valuation) THEN list ELSE Append(list, valuation)
KeyOf(list, valuation) == SelectInSeq(list, LAMBDA v : v = valuation)

\* An event is taken for an input if its place is not beyond twice the inputs and one.
LabelOf(on, off) ==
  {<<SignalAt(i), "on">> : i \in on} \cup {<<SignalAt(i), "off">> : i \in off}
    \cup {InputBit : i \in {j \in on \cup off : j - 1 <= 2 * (x_count + 1)}}

FluentRules == {r \in DOMAIN rules : rules[r].kind = "fluent"}
Satisfied(to) == {r \in FluentRules : SatisfiesVector(mgr, rules[r].obdd, {2 * i : i \in to})}

\* automaton_add_transition_from_valuations.  Only a new transition that is not an initial
\* one sets the liveness bits of the state it enters.
Transition(from, to, label) == [state_from |-> from, state_to |-> to, signals |-> label]
AddInitial(build, to) ==
  LET list == WithKey(build.keys, to)
  IN  [build EXCEPT !.keys = list,
                    !.automaton = Aut!AddTransition(@, Transition(0, KeyOf(list, to), LabelOf(to, {})))]

\* Mutant: the bits of the state that is left are set.
AddChangeLabellingSource(build, from, to) ==
  LET list == WithKey(WithKey(build.keys, from), to)
      t == Transition(KeyOf(list, from), KeyOf(list, to), LabelOf(to \ from, from \ to))
  IN  [keys |-> list, automaton |-> Aut!AddTransition(build.automaton, t),
       liveness |-> [build.liveness EXCEPT ![t.state_from] = Satisfied(from)]]

AddChange(build, from, to) ==
  LET list == WithKey(WithKey(build.keys, from), to)
      t == Transition(KeyOf(list, from), KeyOf(list, to), LabelOf(to \ from, from \ to))
  IN  [keys |-> list,
       automaton |-> Aut!AddTransition(build.automaton, t),
       liveness |-> IF Aut!HasTransition(build.automaton, t) THEN build.liveness
                    ELSE [build.liveness EXCEPT ![t.state_to] = Satisfied(to)]]

Built == [keys |-> keys, automaton |-> automaton, liveness |-> liveness]
Build(build) == keys' = build.keys /\ automaton' = build.automaton /\ liveness' = build.liveness

AddInitialTransitions ==
  /\ phase = "initial" /\ phase' = "clone"
  /\ LET Row(valuation) == {i \in DOMAIN x_y_alphabet : x_y_alphabet[i] \in valuation}
         rows == GetValuations(mgr, composed["theta"], ToSet(Unprimed))
     IN  Build(FoldLeft(LAMBDA build, valuation : AddInitial(build, Row(valuation)), Built, rows))
  /\ UNCHANGED <<spec, position, mgr, primed, stack, rules, composed, meaning>>

\* obdd_reachable_states: the frontier is what was reached last.
CloneTheta ==
  /\ phase = "clone" /\ phase' = "reach"
  /\ LET reached == Clone(mgr, composed["theta"])
         frontier == Clone(reached.m, composed["theta"])
     IN  /\ mgr' = frontier.m
         /\ composed' = "reached" :> reached.at @@ ("frontier" :> frontier.at @@ composed)
         /\ meaning' = reached.at :> meaning[composed["theta"]] @@
                         (frontier.at :> meaning[composed["theta"]] @@ meaning)
  /\ UNCHANGED <<spec, position, primed, stack, rules, keys, automaton, liveness>>

IsBottom(m, n) ==
  \/ m.node[n].var = FALSE_VAR
  \/ ~IsConstant(m, n) /\ m.node[m.node[n].high].var = FALSE_VAR /\ m.node[m.node[n].low].var = FALSE_VAR
TestFrontier ==
  /\ phase = "reach"
  /\ phase' = IF IsBottom(mgr, mgr.root[composed["frontier"]]) THEN "reached" ELSE "image"
  /\ UNCHANGED <<spec, position, mgr, primed, stack, rules, composed, keys, automaton, liveness, meaning>>

Successors(models) ==
  LET targets == {NextOf(model) : model \in models \cap meaning[composed["rho"]]}
  IN  {model \in Models : StateOf(model) \in targets}

\* Mutant: what was reached before is not taken out of the frontier.
FrontierNotNew(m, old, image, reached) ==
  LET next == Clone(Destroy(m, old), image)
  IN  [next EXCEPT !.m = Destroy(@, image)]

\* The new frontier, and the old ones destroyed.
NextFrontier(m, old, image, reached) ==
  LET not == ApplyNot(m, reached)
      next == Apply(Destroy(not.m, old), OpAnd, not.at, image)
  IN  [next EXCEPT !.m = Destroy(Destroy(@, not.at), image)]

TakeImage ==
  /\ phase = "image" /\ phase' = "reach"
  /\ LET old == composed["frontier"]
         reached == composed["reached"]
         new == Successors(meaning[old]) \ meaning[reached]
     IN  \E steps \in {Apply(mgr, OpAnd, old, composed["rho"])} :
         \E image \in {Img(steps.m, steps.at, PrimedVars, OriginalVars)} :
         \E frontier \in {NextFrontier(Destroy(image.m, steps.at), old, image.at, reached)} :
         \E all \in {Apply(frontier.m, OpOr, reached, frontier.at)} :
         /\ mgr' = Destroy(all.m, reached)
         /\ composed' = [composed EXCEPT !["frontier"] = frontier.at, !["reached"] = all.at]
         /\ meaning' = Live(mgr', frontier.at :> new @@ (all.at :> (meaning[reached] \cup new) @@ meaning))
  /\ UNCHANGED <<spec, position, primed, stack, rules, keys, automaton, liveness>>

RestrictToReached ==
  /\ phase = "reached" /\ phase' = "transitions"
  /\ LET rho == composed["rho"]
         reached == composed["reached"]
         and == Apply(Destroy(mgr, composed["frontier"]), OpAnd, rho, reached)
     IN  /\ mgr' = Destroy(Destroy(and.m, reached), rho)
         /\ composed' = [composed EXCEPT !["rho"] = and.at]
         /\ meaning' = Live(mgr', and.at :> meaning[rho] \cap meaning[reached] @@ meaning)
  /\ UNCHANGED <<spec, position, primed, stack, rules, keys, automaton, liveness>>

\* All the valuations of a diagram.  Those of true are counted over as many variables as
\* there are signals, which are half of them.
AllValuations(m, obdd) ==
  LET root == m.root[obdd]
      paths == Paths(m, root)
  IN  IF ~IsConstant(m, root)
      THEN FlattenSeq([p \in DOMAIN paths |-> PathValuations(m, paths[p], ToSet(Variables(m)))])
      ELSE IF IsTrue(m, root) THEN Counted(SubSeq(Variables(m), 1, x_y_count)) ELSE <<>>

Valuations == AllValuations(mgr, composed["rho"])
AddTransition ==
  /\ phase = "transitions" /\ position[1] <= Len(Valuations)
  /\ position' = [position EXCEPT ![1] = @ + 1]
  /\ LET valuation == Valuations[position[1]]
     IN  Build(AddChange(Built, {i \in 1 .. x_y_count : 2 * i \in valuation},
                         {i \in 1 .. x_y_count : 2 * i + 1 \in valuation}))
  /\ UNCHANGED <<spec, phase, mgr, primed, stack, rules, composed, meaning>>

EndTransitions ==
  /\ phase = "transitions" /\ position[1] > Len(Valuations)
  /\ phase' = "finish"
  /\ UNCHANGED <<spec, position, mgr, primed, stack, rules, composed, keys, automaton, liveness, meaning>>

FinishBuild ==
  /\ phase = "finish" /\ phase' = "program"
  /\ mgr' = Destroy(Destroy(DestroyIfComposed(DestroyIfComposed(mgr, "env_theta"), "sys_theta"),
                            composed["theta"]), composed["rho"])
  /\ meaning' = Live(mgr', meaning)
  /\ UNCHANGED <<spec, position, primed, stack, rules, composed, keys, automaton, liveness>>

\* The statements of the program are destroyed, with the diagrams that are left to them.
DestroyProgram ==
  /\ phase = "program" /\ phase' = "done"
  /\ mgr' = FoldLeft(LAMBDA m, r : IF r.obdd \in DOMAIN m.root THEN Destroy(m, r.obdd) ELSE m, mgr, rules)
  /\ meaning' = Live(mgr', meaning)
  /\ UNCHANGED <<spec, position, primed, stack, rules, composed, keys, automaton, liveness>>

-----------------------------------------------------------------------------
Init ==
  /\ spec \in Specifications
  /\ phase = "order" /\ position = <<1, 1>>
  /\ mgr = NewManager
  /\ primed = <<>> /\ stack = <<>> /\ rules = <<>> /\ composed = <<>> /\ keys = <<>> /\ meaning = <<>>
  /\ automaton = [transitions          |-> [s \in 0 .. MaxStates - 1 |-> <<>>],
                  inverted_transitions |-> [s \in 0 .. MaxStates - 1 |-> <<>>],
                  is_controllable      |-> [s \in 0 .. MaxStates - 1 |-> TRUE],
                  max_out_degree       |-> 0,
                  composite_count      |-> 0,
                  ordered              |-> FALSE]
  /\ liveness = [s \in 0 .. MaxStates - 1 |-> {}]

Read == ReadOrder \/ ReadSignal \/ ReadNot \/ ReadNext \/ ReadBinary \/ EndRule \/ EndParse
Formulas == InitializeVariable \/ ConjoinRule \/ EndList \/ CompleteFormulas \/ RestrictRho
Transitions ==
  AddInitialTransitions \/ CloneTheta \/ TestFrontier \/ TakeImage \/ RestrictToReached \/ AddTransition
    \/ EndTransitions \/ FinishBuild \/ DestroyProgram
\* The end.
Done == phase = "done" /\ UNCHANGED vars
Next == Read \/ Formulas \/ Transitions \/ Done
Spec == Init /\ [][Next]_vars

-----------------------------------------------------------------------------
\* The diagrams on the parser's stack, of the rules and of the construction that are not
\* destroyed: each has the models of what it was made for.
InUse == {obdd \in ToSet(stack) \cup {rules[r].obdd : r \in DOMAIN rules} \cup Range(composed) : obdd \in DOMAIN mgr.root}
DiagramsDenoteFormulas ==
  /\ InUse \subseteq DOMAIN meaning
  /\ \A obdd \in DOMAIN meaning : ModelsOf(mgr, obdd) = meaning[obdd]

\* The references to a node: of nodes, diagrams, the cache and the variables.
References(n) ==
  Cardinality({k \in mgr.lent : mgr.node[k].high = n}) + Cardinality({k \in mgr.lent : mgr.node[k].low = n})
    + Cardinality({obdd \in DOMAIN mgr.root : mgr.root[obdd] = n})
    + Cardinality({s \in DOMAIN mgr.cache.item : mgr.cache.item[s].data = n})
    + Cardinality({v \in DOMAIN mgr.vars : mgr.vars[v] = n}) + Cardinality({v \in DOMAIN mgr.negs : mgr.negs[v] = n})

\* A node that something refers to is not given back, and counts no fewer references than
\* it has; the pools never lend the element of a diagram or a node that is in use.
NodesInUseAreKept ==
  /\ \A n \in DOMAIN mgr.node : References(n) > 0 =>
       n \in mgr.lent /\ (mgr.node[n].var > 1 => mgr.node[n].ref >= References(n))
  /\ \A f \in DOMAIN mgr.pool.fragments_count :
       mgr.pool.fragments_count[f] = Cardinality({obdd \in DOMAIN mgr.root : obdd[1] = f})
  /\ \A f \in DOMAIN mgr.nodes_pool.fragments_count :
       mgr.nodes_pool.fragments_count[f] = Cardinality({n \in mgr.lent : mgr.node[n].fragment = f})
  /\ IsInjective(stack \o [r \in DOMAIN rules |-> rules[r].obdd])

\* What the rules say: the initial states, the steps, and the states that are reached.
Theta == {StateOf(model) : model \in Specified({"env_theta", "sys_theta"})}
Steps == {<<StateOf(model), NextOf(model)>> : model \in Specified({"env_rho", "sys_rho"})}
LiveSteps == {step \in Steps : \E other \in Steps : other[1] = step[2]}
RECURSIVE ReachedFrom(_)
ReachedFrom(states) ==
  LET next == {step[2] : step \in {t \in LiveSteps : t[1] \in states}}
  IN  IF next \subseteq states THEN states ELSE ReachedFrom(states \cup next)

ValuationOf(state) == {SignalAt(i) : i \in keys[state]}
StepsOfAutomaton ==
  UNION {{<<ValuationOf(t.state_from), ValuationOf(t.state_to), t.signals \ {InputBit}>> :
            t \in ToSet(automaton.transitions[s])} : s \in 1 .. Len(keys)}
On(S) == {<<s, "on">> : s \in S}
Off(S) == {<<s, "off">> : s \in S}

AutomatonIsSpecification ==
  LET theta == Theta
      reached == ReachedFrom(theta)
      steps == {step \in LiveSteps : step[1] \in reached}
      inputsFirst == x_y_alphabet = Unprimed
  IN  phase = "done" /\ inputsFirst /\ steps # ((SUBSET Signals) \X (SUBSET Signals)) =>
        /\ {<<ValuationOf(t.state_to), t.signals \ {InputBit}>> : t \in ToSet(automaton.transitions[0])}
              = {<<v, On(v)>> : v \in theta}
        /\ StepsOfAutomaton = {<<step[1], step[2], On(step[2] \ step[1]) \cup Off(step[1] \ step[2])>> : step \in steps}
        /\ \A s \in 1 .. Len(keys) :
             liveness[s] = {r \in FluentRules :
                              /\ \E step \in steps : step[2] = ValuationOf(s)
                              /\ \E model \in FormulaModels(spec.rules[r].formula) : StateOf(model) = ValuationOf(s)}

\* The loop over the images goes on only as long as it finds states: an image adds one to
\* those that are reached, or is the last.
StatesOf(m, obdd) == {StateOf(model) : model \in ModelsOf(m, obdd)}
ImagesAddStates ==
  [][phase = "image" =>
       \/ IsBottom(mgr', mgr'.root[composed'["frontier"]])
       \/ /\ StatesOf(mgr, composed["reached"]) \subseteq StatesOf(mgr', composed'["reached"])
          /\ StatesOf(mgr, composed["reached"]) # StatesOf(mgr', composed'["reached"])]_vars
=============================================================================
