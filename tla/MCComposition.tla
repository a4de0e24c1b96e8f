---------------------------- MODULE MCComposition ----------------------------
(****************************************************************************)
(* Every system of three of the automata below, with every way to           *)
(* synchronise the second and the third; and games of two of them and a     *)
(* fluent, with state valuations that make some transitions fall away.      *)
(* Signal 3 is an input.  The table starts with 8 slots and is split at 9   *)
(* and at 17 composite states; there are up to 27.                          *)
(****************************************************************************)
EXTENDS Composition

MCSignal == 0 .. 3

T(signals, s) == [signals |-> signals, state_to |-> s]

\* An automaton without formulas and valuations, from its alphabet and its transitions from
\* each state, and one whose states are numbered from 0.
Over(signals, transitions) ==
  LET nothing == [s \in DOMAIN transitions |-> {}]
  IN  [alphabet |-> signals, initial_state |-> 0, transitions |-> transitions, declared |-> {},
       state_valuations |-> nothing, is_ltl |-> FALSE, liveness_valuations |-> nothing]
Plain(signals, transitions) == Over(signals, [s \in 0 .. Len(transitions) - 1 |-> transitions[s + 1]])

\* The states of a cycle are far apart, so that composite states fall into several slots.
Cycle(a) ==
  LET next == (0 :> 50 @@ 50 :> 100 @@ 100 :> 0)
  IN  Over({a}, [s \in {0, 50, 100} |-> <<T({a}, next[s])>>])
Switch(a, b) == Plain({a, b}, <<<<T({a}, 1)>>, <<T({b}, 0)>>>>)
Both(a, b) == Plain({a, b}, <<<<T({a, b}, 1), T({a}, 0)>>, <<T({b}, 0), T({a, b}, 1)>>>>)
Quiet(a) == Plain({a}, <<<<T({}, 1)>>, <<T({a}, 0)>>>>)
Asking(a) == Plain({a, 3}, <<<<T({0, 3}, 1), T({a}, 0)>>, <<T({a}, 0)>>>>)
Ending(a) == [Plain({a}, <<<<>>, <<T({a}, 0)>>, <<T({a}, 1)>>>>) EXCEPT !.initial_state = 2]

MCAutomata ==
  {Cycle(1), Cycle(2), Switch(1, 2), Both(1, 2), Both(2, 1), Quiet(1), Asking(2), Ending(1)}

SynchTypes == {"CONCURRENT", "SYNCHRONOUS", "ASYNCHRONOUS"}

MCCompositions ==
  [automata : {<<a, b, c>> : a \in MCAutomata \ {Both(2, 1)}, b \in MCAutomata,
                               c \in {Cycle(3), Quiet(1), Asking(2)}},
   synch_type : {<<"SYNCHRONOUS", s, t>> : s, t \in SynchTypes},
   is_game : {FALSE}, no_mixed_states : {FALSE}, fluents : {<<>>}, liveness : {<<>>}, vstates : {<<>>}]

\* In the games the automata declare the valuation v, and say it of some states.
Valued(aut, states) ==
  [aut EXCEPT !.declared = {"v"},
              !.state_valuations = [s \in DOMAIN @ |-> IF s \in states THEN {"v"} ELSE {}]]
FromFormula(aut, states) ==
  [aut EXCEPT !.is_ltl = TRUE,
              !.liveness_valuations = [s \in DOMAIN @ |-> IF s \in states THEN {"g"} ELSE {}]]

MCGamesOf(a, b) ==
  [automata : {<<a, b>>}, synch_type : {<<"SYNCHRONOUS", s>> : s \in SynchTypes},
   is_game : {TRUE}, no_mixed_states : BOOLEAN,
   fluents : {<<[initial_valuation |-> v, starting_signals |-> {{1}}, ending_signals |-> {{2}, {1, 3}}]>> : v \in {0, 1}},
   liveness : {<<>>} \cup (IF a.is_ltl \/ b.is_ltl THEN {<<"g">>} ELSE {}), vstates : {IF a.declared \cup b.declared = {} THEN <<>> ELSE <<"u", "v">>}]

MCGameAutomata ==
  {Cycle(1), Asking(2), Valued(Cycle(1), {0, 100}), Valued(Cycle(2), {0}), Valued(Asking(1), {0}),
   FromFormula(Switch(1, 2), {0}), FromFormula(Both(1, 2), {1})}

\* The first automaton says nothing of its odd states: the code does not see it there.
MCSystems ==
  MCCompositions \cup UNION {MCGamesOf(a, b) : a \in MCGameAutomata, b \in MCGameAutomata \cup {Valued(Both(2, 1), {1})}}

-----------------------------------------------------------------------------
\* Three automata that step together, from 0, 0, 0 to 3, 12, 1 and then to 7, 9, 0.
Walk(s, t) == Over({1}, (0 :> <<T({1}, s)>>) @@ (s :> <<T({1}, t)>>) @@ (t :> <<>>))
MCWalks ==
  [automata : {<<Walk(3, 7), Walk(12, 9), Plain({1}, <<<<T({1}, 1)>>, <<T({1}, 0)>>>>)>>},
   synch_type : {<<"SYNCHRONOUS", "SYNCHRONOUS", "SYNCHRONOUS">>},
   is_game : {FALSE}, no_mixed_states : {FALSE}, fluents : {<<>>}, liveness : {<<>>}, vstates : {<<>>}]

-----------------------------------------------------------------------------
\* Only those have two composite states with one key.
ASSUME MCKeysAssumption == KeysDistinct \/ Systems = MCWalks
ASSUME MCWordsAssumption == WordsAreRead

=============================================================================
