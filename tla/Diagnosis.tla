------------------------------ MODULE Diagnosis ------------------------------
(****************************************************************************)
(* The two searches of automaton_diagnosis.c for a minimal unrealizable     *)
(* part of an unrealizable game: taking option groups away one by one       *)
(* (linear), or by delta debugging.  The verdicts of the solver are a       *)
(* parameter; GR1Ranking shows that they are those of the winning region.   *)
(*                                                                          *)
(* A group is an option of a state that has several, and its transitions    *)
(* are the option's targets; groups are numbered by state and, in a state,  *)
(* by the monitored order.  The recursion of the delta debugging always     *)
(* returns what its inner call returns, so the pending calls hold nothing   *)
(* and the search is the state of the innermost one.                        *)
(****************************************************************************)
EXTENDS GR1Game, SequencesExt

CONSTANTS
  InitialState,      \* initial_states[0]
  RealizableGames,   \* the games, and parts of games, the solver finds realizable
  Games              \* the games the searches are run on

ASSUME StateOrderAssumption == State = 0 .. Cardinality(State) - 1
ASSUME InitialStateAssumption == InitialState \in State
ASSUME GamesAssumption == Games \subseteq Game

UINT_MAX == 65535   \* stands for an index above all indexes

VARIABLES
  game,         \* game_automaton
  groups,       \* t_states, t_indexes: the groups the search may take away
  search,       \* which search runs, "linear" or "dd"
  moves,        \* minimization, or the inner automaton: the options left, by state
  count,        \* linear: t_count, the groups that are left to try
  removed,      \* linear: r_states, r_indexes: the groups taken away
  kept,         \* dd: partition_bit_vector, the groups whose bit is set
  partitions,   \* dd: partitions_count
  phase,        \* dd: the loop that runs, "c_i" or "complement"
  other_next,   \* dd: the other loop follows when this one fails
  last,         \* dd: last_partition, where the complement loop starts
  tried,        \* dd: dd2, the partitions tried by this loop
  ended

dd_vars == <<kept, partitions, phase, other_next, last, tried>>
vars == <<game, groups, search, moves, count, removed, dd_vars, ended>>

M == INSTANCE Minimisation

\* Fewer options of the environment, down to one in every state, do not make the game
\* harder for the controller.
FewerOptionsHelp(g) ==
  \A taken \in SUBSET UNION {{s} \X g.moves[s] : s \in State} :
    \A m \in {M!CleanUp([s \in State |-> {o \in g.moves[s] : <<s, o>> \notin taken}])} :
      M!Realizable(g, m) =>
        \A s \in State : \A o \in m[s] : m[s] # {o} => M!Realizable(g, M!Without(m, s, o))
ASSUME VerdictsAssumption == \A g \in Games : FewerOptionsHelp(g)

-----------------------------------------------------------------------------
(****************************************************************************)
(* The groups and how they are taken from an automaton: only while the      *)
(* state keeps other transitions than the group's.                          *)
(****************************************************************************)
InOrder(n) == [i \in 1 .. n |-> i]

GroupsOf(g, s) ==
  LET options == Reverse(SetToSeq(g.moves[s]))
  IN  IF Len(options) < 2 THEN <<>>
      ELSE [i \in DOMAIN options |-> [state |-> s, option |-> options[i]]]
\* automaton_get_gr1_unrealizable_prepare_structs
Groups(g) ==
  FoldLeft(LAMBDA list, i : list \o GroupsOf(g, i - 1), <<>>, InOrder(Cardinality(State)))
Indexes == DOMAIN groups

\* out_degree is 1.
HasOneTransition(m, s) == \E t \in State : m[s] = {{t}}

\* out_degree is above the size of the group: the state has other transitions.
Take(list, m, t) ==
  [m EXCEPT ![list[t].state] = IF @ = {list[t].option} THEN @ ELSE @ \ {list[t].option}]

TakeIfIn(T, list, m, t) == IF t \in T THEN Take(list, m, t) ELSE m
TakeAll(list, m, T) ==
  FoldLeft(LAMBDA left, t : TakeIfIn(T, list, left, t), m, InOrder(Len(list)))

Master(g) == M!CleanUp(g.moves)

\* A linear search that failed is undone by taking the removed groups from the master again.
Rebuild(list) ==
  LET Gone(s) == {groups[t].option : t \in {u \in ToSet(list) : groups[u].state = s}}
  IN  M!CleanUp([s \in State |-> Master(game)[s] \ Gone(s)])

-----------------------------------------------------------------------------
(****************************************************************************)
(* Linear search, from the last group to the first.                         *)
(****************************************************************************)
\* States that are left with one transition are skipped; 0 when no group is left.
Candidate ==
  LET open == {t \in 1 .. count : ~HasOneTransition(moves, groups[t].state)}
  IN  IF open = {} THEN 0 ELSE CHOOSE t \in open : \A u \in open : u <= t

\* Mutant: a group that could not be taken is noted as removed.
NoteRemoved(t, left) == Append(removed, t)
Note(t, left) == IF left = moves THEN removed ELSE Append(removed, t)

LinearStep ==
  /\ search = "linear" /\ ~ended
  /\ Candidate # 0
  /\ \E left \in {Take(groups, moves, Candidate)} : \E list \in {Note(Candidate, left)} :
       IF M!Realizable(game, M!CleanUp(left))
       THEN removed' = Front(list) /\ moves' = Rebuild(Front(list))
       ELSE removed' = list /\ moves' = M!CleanUp(left)
  /\ count' = Candidate - 1
  /\ UNCHANGED <<game, groups, search, dd_vars, ended>>

LinearEnd ==
  /\ search = "linear" /\ ~ended
  /\ Candidate = 0
  /\ moves' = IF M!Realizable(game, moves) THEN Rebuild(removed) ELSE moves
  /\ ended' = TRUE
  /\ UNCHANGED <<game, groups, search, count, removed, dd_vars>>

-----------------------------------------------------------------------------
(****************************************************************************)
(* Delta debugging.  Partition d of n is a range of the groups that are     *)
(* kept, counted from 0; with fewer groups than partitions the end of the   *)
(* first range wraps around and the range takes everything.                 *)
(****************************************************************************)
LinearIndex(K, t) == Cardinality({u \in K : u < t})

Partition(K, n, d) ==
  LET first == (Cardinality(K) * d) \div n
      end == (Cardinality(K) * (d + 1)) \div n
      last_index == IF end = 0 THEN UINT_MAX ELSE end - 1
  IN  {t \in K : LinearIndex(K, t) \in first .. last_index}

\* Mutant: the bits of what was taken stay set.
CallKeepingBits(m, K, n, complement_first, start) ==
  /\ moves' = TakeAll(groups, m, Indexes \ K)
  /\ kept' = kept
  /\ partitions' = n
  /\ phase' = IF complement_first THEN "complement" ELSE "c_i"
  /\ other_next' = TRUE
  /\ last' = start
  /\ tried' = 0

\* Mutant: groups without a bit are taken although they are the last of their state.
CallTakingLast(m, K, n, complement_first, start) ==
  /\ moves' = [s \in State |-> m[s] \ {groups[t].option : t \in {u \in Indexes \ K : groups[u].state = s}}]
  /\ kept' = K
  /\ partitions' = n
  /\ phase' = IF complement_first THEN "complement" ELSE "c_i"
  /\ other_next' = TRUE
  /\ last' = start
  /\ tried' = 0

\* automaton_get_gr1_unrealizable_minimization_dd2 is entered: groups without a bit go.
Call(m, K, n, complement_first, start) ==
  /\ moves' = TakeAll(groups, m, Indexes \ K)
  /\ kept' = K
  /\ partitions' = n
  /\ phase' = IF complement_first THEN "complement" ELSE "c_i"
  /\ other_next' = TRUE
  /\ last' = start
  /\ tried' = 0

\* The partition in turn: only the complement loop starts where the last call succeeded.
Turn == IF phase = "c_i" THEN tried ELSE (last + tried) % partitions

\* Mutant: the place in the old partitions is kept.
SamePlace(n) == Turn
\* next_partition: the place of this partition among n.
NextPartition(n) == (Turn * n) \div partitions

\* The groups this step tries to do without.
Target ==
  LET part == Partition(kept, partitions, Turn)
  IN  IF phase = "c_i" THEN kept \ part ELSE part

Fails(attempt) ==
  /\ M!Realizable(game, attempt)
  /\ tried' = tried + 1
  /\ UNCHANGED <<game, groups, search, moves, count, removed, kept, partitions, phase, other_next,
                 last, ended>>

\* No bit was cleared: the attempt is the result.
NothingLeftToTake(target, attempt) ==
  /\ target = {}
  /\ ~M!Realizable(game, attempt)
  /\ moves' = attempt
  /\ ended' = TRUE
  /\ UNCHANGED <<game, groups, search, count, removed, dd_vars>>

\* Keep one partition and start over with two.
ReduceToPartition(target, attempt) ==
  /\ phase = "c_i" /\ target # {}
  /\ ~M!Realizable(game, attempt)
  /\ Call(attempt, kept \ target, 2, FALSE, 0)
  /\ UNCHANGED <<game, groups, search, count, removed, ended>>

\* Do without one partition and go on with the others from the same place.
ReduceToComplement(target, attempt) ==
  /\ phase = "complement" /\ target # {}
  /\ ~M!Realizable(game, attempt)
  /\ LET n == IF partitions > 3 THEN partitions - 1 ELSE 2
     IN  Call(attempt, kept \ target, n, TRUE, NextPartition(n))
  /\ UNCHANGED <<game, groups, search, count, removed, ended>>

TryPartition ==
  /\ search = "dd" /\ ~ended /\ tried < partitions
  /\ \E target \in {Target} : \E attempt \in {M!CleanUp(TakeAll(groups, moves, target))} :
       \/ Fails(attempt)
       \/ NothingLeftToTake(target, attempt)
       \/ ReduceToPartition(target, attempt)
       \/ ReduceToComplement(target, attempt)

OtherLoop ==
  /\ search = "dd" /\ ~ended /\ tried = partitions /\ other_next
  /\ phase' = IF phase = "c_i" THEN "complement" ELSE "c_i"
  /\ other_next' = FALSE
  /\ tried' = 0
  /\ UNCHANGED <<game, groups, search, moves, count, removed, kept, partitions, last, ended>>

BothLoopsFailed == search = "dd" /\ ~ended /\ tried = partitions /\ ~other_next

\* Mutant: the partitions are doubled or not refined at all.
FinerOnlyIfDouble ==
  /\ BothLoopsFailed
  /\ 2 * partitions <= Cardinality(kept)
  /\ Call(moves, kept, 2 * partitions, FALSE, 0)
  /\ UNCHANGED <<game, groups, search, count, removed, ended>>

Refine ==
  /\ BothLoopsFailed
  /\ partitions < Cardinality(kept)
  /\ LET n == IF 2 * partitions < Cardinality(kept) THEN 2 * partitions ELSE Cardinality(kept)
     IN  Call(moves, kept, n, FALSE, 0)
  /\ UNCHANGED <<game, groups, search, count, removed, ended>>

\* The result, unless it turns out realizable: then the linear search is run on the master.
Conclude ==
  /\ BothLoopsFailed
  /\ partitions >= Cardinality(kept)
  /\ IF M!Realizable(game, moves)
     THEN /\ search' = "linear"
          /\ moves' = Master(game)
          /\ UNCHANGED ended
     ELSE ended' = TRUE /\ UNCHANGED <<search, moves>>
  /\ UNCHANGED <<game, groups, count, removed, dd_vars>>

-----------------------------------------------------------------------------
\* The diagnosis is asked only of games whose strategy came out empty.
Init ==
  /\ game \in {g \in Games : ~M!Realizable(g, Master(g))}
  /\ search \in {"linear", "dd"}
  /\ moves = Master(game)
  /\ groups = Groups(game)
  /\ count = Len(groups)
  /\ removed = <<>>
  /\ kept = Indexes
  /\ partitions = 2
  /\ phase = "c_i"
  /\ other_next = TRUE
  /\ last = 0
  /\ tried = 0
  /\ ended = FALSE

Next ==
  \/ LinearStep \/ LinearEnd
  \/ TryPartition \/ OtherLoop \/ Refine \/ Conclude

Spec == Init /\ [][Next]_vars /\ WF_vars(Next)

-----------------------------------------------------------------------------
DiagnosisTypeOK ==
  /\ game \in Games
  /\ moves \in [State -> SUBSET Option]
  /\ count \in 0 .. Len(groups)
  /\ ToSet(removed) \subseteq Indexes
  /\ kept \subseteq Indexes
  /\ partitions \in 2 .. Len(groups) + 2
  /\ tried \in 0 .. partitions
  /\ last \in 0 .. partitions - 1

\* The bit vector tells what the automaton still has: the option of a set bit is there
\* while its state is reached, and one without a bit is there only as the last of its state.
BitsMatchAutomaton ==
  search = "dd" =>
    \A t \in Indexes :
      LET group == groups[t]
      IN  IF t \in kept
          THEN group.state \in M!Reached(moves) => group.option \in moves[group.state]
          ELSE group.option \in moves[group.state] => moves[group.state] = {group.option}

\* The delta debugging never has to be repaired by the linear search.
NeverFallsBack == [][search' = search]_vars

\* Both searches take options away while the game stays unrealizable, end only when no
\* other option can go, and a realizable attempt leaves no trace.
ImplementsMinimisation == M!Spec

\* The searches end: ever finer partitions, or an end of the list of groups.
Terminates == <>ended

=============================================================================
