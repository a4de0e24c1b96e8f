-------------------------- MODULE AutomatonSignals --------------------------
(****************************************************************************)
(* The signals behind the labels of Automaton: a label is the set of the    *)
(* signals of the bit array of a transition, in which bit 0 tells that one  *)
(* of them is an input.                                                     *)
(****************************************************************************)
EXTENDS Automaton

CONSTANT InputSignal   \* the signals of type INPUT_SIG

InputBit == 0
Inputs(t) == t.signals \cap InputSignal
Outputs(t) == (t.signals \ {InputBit}) \ InputSignal

ASSUME SignalsAssumption ==
  /\ InputBit \notin InputSignal
  /\ \A label \in Label : /\ label \subseteq Nat
                          /\ label \in InputLabel <=> InputBit \in label
                          /\ label \in InputLabel <=> label \cap InputSignal # {}

=============================================================================
