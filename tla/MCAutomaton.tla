----------------------------- MODULE MCAutomaton -----------------------------
(****************************************************************************)
(* Three states; inputs 1 and 2, outputs 3 and 4.  The labels have          *)
(* monitored words that are comparable, incomparable and equal, and all are *)
(* offered between the first two states; elsewhere there is an output only,  *)
(* except from the second to itself.                                        *)
(****************************************************************************)
EXTENDS AutomatonQueries, Relabelling, Sequentialisation

MCMonitored ==
  ({} :> <<0, 0>>) @@ ({3} :> <<0, 0>>) @@ ({0, 1} :> <<1, 0>>) @@ ({0, 1, 3} :> <<1, 0>>)
    @@ ({0, 2, 3} :> <<0, 1>>) @@ ({0, 1, 2, 3, 4} :> <<1, 1>>)
MCLabel == DOMAIN MCMonitored
MCInputLabel == {label \in MCLabel : 0 \in label}

MCTransition ==
  {t \in [state_from : State, state_to : State, signals : {{3}}] : ~ (t.state_from = 1 /\ t.state_to = 1)}
    \cup [state_from : {0}, state_to : {1}, signals : MCLabel]

\* A swap, a chain, one signal for two, one that becomes two, an input for an output, and
\* one that is refused.
MCRelabelling ==
  {<<3 :> {4}, 4 :> {3}>>, <<1 :> {2}, 2 :> {5}>>, <<(1 :> {5}) @@ (2 :> {5})>>,
   <<3 :> {3, 5}>>, <<4 :> {5}>>, <<1 :> {2}, 1 :> {5}>>}

=============================================================================
