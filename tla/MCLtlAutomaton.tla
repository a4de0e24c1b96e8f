---------------------------- MODULE MCLtlAutomaton ----------------------------
(****************************************************************************)
(* Every specification with one of the beginnings and one of the steps      *)
(* below, over the input a and the output b, in two orders of the signals   *)
(* and in the order in which the rules name them; and some over the inputs  *)
(* a and c and the output b.  The pools, the cache and the table are small, *)
(* so that fragments are used again, and the cache and the levels grow.     *)
(****************************************************************************)
EXTENDS LtlAutomaton

RulesOf(kind, formulas) == [i \in DOMAIN formulas |-> [kind |-> kind, formula |-> formulas[i]]]

MCThetas ==
  {<<>>,
   RulesOf("env_theta", <<<<"a", "!">>>>),
   RulesOf("env_theta", <<<<"a">>, <<"a", "b", "||">>>>),
   RulesOf("sys_theta", <<<<"b", "!">>, <<"a", "b", "->">>, <<"a", "a", "!", "||">>>>),
   RulesOf("env_theta", <<<<"a", "!">>>>) \o RulesOf("sys_theta", <<<<"b">>>>),
   RulesOf("env_theta", <<<<"a", "b", "<->">>>>)}

MCRhos ==
  {RulesOf("sys_rho", <<<<"b", "X", "a", "<->">>>>),
   RulesOf("env_rho", <<<<"a", "a", "X", "!", "->">>>>) \o RulesOf("sys_rho", <<<<"a", "b", "X", "->">>, <<"b", "b", "X", "->">>>>),
   RulesOf("env_rho", <<<<"a", "X">>, <<"a", "b", "&&", "!">>, <<"b", "b", "X", "->">>>>),
   RulesOf("sys_rho", <<<<"a", "b", "<->", "X">>, <<"a", "X", "a", "!", "||">>>>),
   RulesOf("env_rho", <<<<"b", "a", "X", "a", "<->", "->">>>>) \o RulesOf("sys_rho", <<<<"b", "X", "b", "!", "<->">>>>),
   RulesOf("sys_rho", <<<<"a", "a", "!", "&&">>>>),
   RulesOf("sys_rho", [i \in 1 .. 5 |-> <<"a", "b", "X", "->">>])}

MCFluents == {<<>>, RulesOf("fluent", <<<<"a", "b", "&&">>, <<"b">>>>)}

MCOfTwo ==
  {[order |-> order, inputs |-> {"a"}, rules |-> fluents \o theta \o rho] :
     order \in {<<>>, <<"b", "a">>, <<"a", "b">>}, fluents \in MCFluents, theta \in MCThetas, rho \in MCRhos}

\* Three signals, the inputs first.
MCOfThree ==
  {[order |-> <<"b", "c", "a">>, inputs |-> {"a", "c"}, rules |-> list] :
     list \in
       {RulesOf("env_theta", <<<<"a", "b", "<->">>>>)
          \o RulesOf("env_rho", <<<<"a", "X", "c", "<->">>, <<"c", "X", "b", "||">>>>)
          \o RulesOf("sys_rho", <<<<"b", "X", "a", "c", "&&", "<->">>>>),
        RulesOf("sys_rho", <<<<"a", "c", "->", "X">>, <<"b", "c", "X", "&&", "b", "X", "->">>>>)
          \o RulesOf("sys_theta", <<<<"c">>, <<"b", "!">>>>)
          \o RulesOf("fluent", <<<<"a", "b", "<->", "c", "<->">>>>)}}

MCSpecifications == MCOfTwo \cup MCOfThree

\* The fragments of nodes lie in pairs, the second one first.
MCFragmentAddress(f) == 1 + node_fragment_size * (IF f % 2 = 0 THEN f - 2 ELSE f)
MCElements == (1 .. 20) \X (0 .. node_fragment_size - 1)
ASSUME MCAddressAssumption ==
  \A e1, e2 \in MCElements : NodeAddress(e1) # NULL /\ (NodeAddress(e1) = NodeAddress(e2) => e1 = e2)
=============================================================================
