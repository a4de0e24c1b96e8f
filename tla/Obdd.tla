-------------------------------- MODULE Obdd ---------------------------------
(****************************************************************************)
(* The binary decision diagrams of obdd.c and obdd_cache.c.                 *)
(*                                                                          *)
(* A manager is a record that the operations take and return.  A node is    *)
(* known by its address, that of an element of a pool; NULL is 0.  What is  *)
(* at an address stays there when the element is given back, until it is    *)
(* lent again.  A diagram is an element of another pool, its root a node.   *)
(* The manager finds a node by its successors in the ordered lists of a     *)
(* table, linked in the nodes, keeps the nodes of single variables in two   *)
(* arrays, and has a cache of results.  An operation that makes a node or a *)
(* diagram returns it as "at", with the manager as "m".  Arguments are      *)
(* evaluated from the last to the first, as gcc does.                       *)
(****************************************************************************)
EXTENDS FastPool

CONSTANTS
  OBDD_CACHE_SIZE,         \* slots of a new cache (16)
  OBDD_TABLE_SLOTS,        \* slots of a new table, at each level (256)
  OBDD_TABLE_MAX_DENSITY,  \* nodes per slot before a level is resized (5)
  node_fragment_size,      \* nodes of a fragment of their pool (100); diagrams have fragment_size
  node_initial_size,       \* the fragments of a new pool of nodes (100)
  FragmentAddress(_),      \* where calloc puts a fragment of nodes
  MaxVar                   \* bound: the greatest variable

ASSUME ObddAssumption == /\ {OBDD_CACHE_SIZE, OBDD_TABLE_SLOTS, OBDD_TABLE_MAX_DENSITY} \subseteq Nat \ {0}
                         /\ node_fragment_size \in Nat \ {0, 1} /\ node_initial_size \in Nat \ {0}
                         /\ MaxVar \in Nat \ {0}

NULL == 0
TRUE_VAR == 0
FALSE_VAR == 1

\* nodes_pool.
Nodes == INSTANCE FastPool WITH fragment_size <- node_fragment_size, initial_size <- node_initial_size
NodeAddress(element) == FragmentAddress(element[1]) + element[2]

\* The first nodes that a new manager makes.
TrueNode == NodeAddress(Nodes!GetInstance(Nodes!EmptyPool).element)
FalseNode == NodeAddress(Nodes!GetInstance(Nodes!GetInstance(Nodes!EmptyPool).pool).element)

\* The hash functions keep the first bits of a product of addresses, as many as there
\* are slots: any such function will do.
HashRange == 256
ddHash(high, low, slots) == ((((high * 5 + low) * 37) % HashRange) * slots) \div HashRange
ddCHash2(op, f, g, slots) == (((((f + op) * 5 + g) * 37) % HashRange) * slots) \div HashRange

IsConstant(m, n) == m.node[n].var < 2
IsTrue(m, n) == m.node[n].var = TRUE_VAR

\* ref_count.
Refer(m, n) == IF n = NULL THEN m ELSE [m EXCEPT !.node[n].ref = @ + 1]
Unrefer(m, n) == IF n = NULL THEN m ELSE [m EXCEPT !.node[n].ref = @ - 1]

-----------------------------------------------------------------------------
(****************************************************************************)
(* The table of nodes: at each level the nodes of a variable, in slots.     *)
(****************************************************************************)
EmptyLevel == [slots |-> OBDD_TABLE_SLOTS, count |-> 0, first |-> [s \in 0 .. OBDD_TABLE_SLOTS - 1 |-> NULL]]
Slot(m, var, high, low) == ddHash(high, low, m.level[var].slots)

\* The nodes from n on, by their next.
RECURSIVE ListFrom(_, _)
ListFrom(m, n) == IF n = NULL THEN <<>> ELSE <<n>> \o ListFrom(m, m.node[n].next)
Listed(m, var, high, low) == ListFrom(m, m.level[var].first[Slot(m, var, high, low)])

Precedes(m, n, high, low) ==
  \/ m.node[n].low < low
  \/ m.node[n].low = low /\ m.node[n].high < high
Joins(m, n, high, low) == m.node[n].low = low /\ m.node[n].high = high

\* The walk along a list stops at the first node that does not precede.
StopsAt(m, list, high, low) == SelectInSeq(list, LAMBDA n : ~Precedes(m, n, high, low))

SearchList(m, list, high, low) ==
  LET at == StopsAt(m, list, high, low)
  IN  IF at # 0 /\ Joins(m, list[at], high, low) THEN list[at] ELSE NULL
SearchNode(m, var, high, low) == SearchList(m, Listed(m, var, high, low), high, low)

\* The list of slot s.
Relinked(m, var, s, list) ==
  LET next(n) == LET at == SelectInSeq(list, LAMBDA k : k = n)
                 IN  IF at = Len(list) THEN NULL ELSE list[at + 1]
  IN  [m EXCEPT !.level[var].first[s] = IF list = <<>> THEN NULL ELSE Head(list),
                !.node = [n \in ToSet(list) |-> [m.node[n] EXCEPT !.next = next(n)]] @@ @]

\* The nodes of a slot keep their order in the two slots that replace it; the last bit of
\* the hash decides.
ResizeLevel(m, var) ==
  LET level == m.level[var]
      slots == 2 * level.slots
      IsOdd(k, n) == ddHash(k.node[n].high, k.node[n].low, slots) % 2 = 1
      Split(k, s) ==
        LET list == ListFrom(k, level.first[s])
        IN  Relinked(Relinked(k, var, 2 * s, SelectSeq(list, LAMBDA n : ~IsOdd(k, n))),
                     var, 2 * s + 1, SelectSeq(list, LAMBDA n : IsOdd(k, n)))
      resized == [m EXCEPT !.level[var].slots = slots, !.level[var].first = [s \in 0 .. slots - 1 |-> NULL]]
  IN  FoldLeft(Split, resized, [i \in 1 .. level.slots |-> i - 1])

ResizeIfDense(m, var) ==
  IF m.level[var].count > m.level[var].slots * OBDD_TABLE_MAX_DENSITY THEN ResizeLevel(m, var) ELSE m

\* The node at a place of a list, or at its first slot, gives way to n.
Linked(m, n, list, at) ==
  LET node == m.node[n]
      s == Slot(m, node.var, node.high, node.low)
  IN  IF at <= 1 THEN [m EXCEPT !.level[node.var].first[s] = n] ELSE [m EXCEPT !.node[list[at - 1]].next = n]

\* A node goes before the first one it does not follow, or before the last one: the end
\* of a list is never reached.
Inserted(m, n, list, at) ==
  LET next == IF at = 0 THEN NULL ELSE list[at]
      var == m.node[n].var
  IN  Linked([m EXCEPT !.node[n].next = next, !.level[var].count = @ + 1], n, list, at)
InsertInList(m, n, list, stop) ==
  LET at == IF stop = 0 THEN Len(list) ELSE stop
      node == m.node[n]
  IN  IF list # <<>> /\ Joins(m, list[at], node.high, node.low) THEN m
      ELSE ResizeIfDense(Inserted(m, n, list, at), node.var)
ListOfNode(m, n) == Listed(m, m.node[n].var, m.node[n].high, m.node[n].low)
StopOfNode(m, n) == StopsAt(m, ListOfNode(m, n), m.node[n].high, m.node[n].low)
NodeAdd(m, n) == InsertInList(m, n, ListOfNode(m, n), StopOfNode(m, n))

\* The entry that is removed is the first with the node's successors.
RemoveFromList(m, n, list, at) ==
  LET node == m.node[n]
      s == Slot(m, node.var, node.high, node.low)
      after == m.node[list[at]].next
      removed == [m EXCEPT !.level[node.var].count = @ - 1]
  IN  IF at = 0 \/ ~Joins(m, list[at], node.high, node.low) THEN m
      ELSE Unrefer(IF at = 1 THEN [removed EXCEPT !.level[node.var].first[s] = after]
                   ELSE [removed EXCEPT !.node[list[at - 1]].next = after], n)
TableNodeDestroy(m, n) == RemoveFromList(m, n, ListOfNode(m, n), StopOfNode(m, n))

\* A node without references is given back to the pool by its fragment, and its successors
\* with it if they were only its own.  What is left there is a node of variable 0.
Released(m, n) ==
  [m EXCEPT !.node[n] = [@ EXCEPT !.var = 0, !.high = NULL, !.low = NULL],
            !.nodes_pool = Nodes!ReleaseInstance(@, m.node[n].fragment), !.lent = @ \ {n}]
RECURSIVE NodeDestroy(_, _)
NodeDestroy(m, n) ==
  LET Drop(k, succ) == IF succ = NULL THEN k ELSE NodeDestroy(Unrefer(k, succ), succ)
  IN  IF m.node[n].ref # 0 THEN m
      ELSE Released(Drop(Drop(TableNodeDestroy(m, n), m.node[n].high), m.node[n].low), n)

\* A new node refers to its successors.  Its next is what is at the address.
NewNode(m, var, high, low, ref) ==
  LET got == Nodes!GetInstance(m.nodes_pool)
      n == NodeAddress(got.element)
      next == IF n \in DOMAIN m.node THEN m.node[n].next ELSE NULL
      node == [var |-> var, high |-> high, low |-> low, ref |-> ref, fragment |-> got.element[1], next |-> next]
      lending == [m EXCEPT !.node = n :> node @@ @, !.nodes_pool = got.pool, !.lent = @ \cup {n}]
  IN  [m |-> [Refer(Refer(lending, high), low) EXCEPT !.node[n].ref = ref], at |-> n]

\* Mutant: a node that is found is returned without a reference for the caller.
MkNodeUncounted(m, var, high, low) ==
  LET known == IF var > 1 THEN SearchNode(m, var, high, low) ELSE NULL
      new == NewNode(m, var, high, low, IF var > 1 THEN 1 ELSE 0)
  IN  IF var > 1 /\ high = low THEN [m |-> m, at |-> high]
      ELSE IF known # NULL THEN [m |-> m, at |-> known]
      ELSE [m |-> IF var > 1 THEN NodeAdd(new.m, new.at) ELSE new.m, at |-> new.at]

KnownNode(m, var, high, low) ==
  LET highVar == m.node[high].var
      lowVar == m.node[low].var
  IN  IF highVar = TRUE_VAR /\ lowVar = FALSE_VAR /\ m.vars[var] # NULL THEN m.vars[var]
      ELSE IF highVar = FALSE_VAR /\ lowVar = TRUE_VAR /\ m.negs[var] # NULL THEN m.negs[var]
      ELSE SearchNode(m, var, high, low)

Added(new) == [new EXCEPT !.m = NodeAdd(@, new.at)]

\* Mutant: a new node is returned without a reference for the caller, and is given back
\* although the cache knows results for it.
KnownOrAddedUncounted(m, known, var, high, low) ==
  IF known # NULL THEN [m |-> Refer(m, known), at |-> known] ELSE Added(NewNode(m, var, high, low, 0))

\* A constant is always made anew.  Another node is made only if there is none with these
\* successors; the node is returned with a reference for the caller, unless it is redundant.
KnownOrAdded(m, known, var, high, low) ==
  IF known # NULL THEN [m |-> Refer(m, known), at |-> known] ELSE Added(NewNode(m, var, high, low, 1))
MkNode(m, var, high, low) ==
  IF var < 2 THEN NewNode(m, var, high, low, 0)
  ELSE IF high = low THEN [m |-> m, at |-> high]
  ELSE KnownOrAdded(m, KnownNode(m, var, high, low), var, high, low)

-----------------------------------------------------------------------------
(****************************************************************************)
(* The cache.  An item is the operation, its one or two operands and the    *)
(* result, which it refers to.                                              *)
(****************************************************************************)
NoItem == [op |-> 0, f |-> NULL, g |-> NULL, data |-> NULL]

\* cache_misses starts from the misses that three hits in ten would allow.
EmptyCache(slots) ==
  [slots |-> slots, item |-> [s \in 0 .. slots - 1 |-> NoItem],
   hits |-> 0, misses |-> (slots * 3 + 10) \div 10]

CacheResize(cache) ==
  LET slots == 2 * cache.slots
      Move(items, s) ==
        LET item == cache.item[s]
        IN  IF item.data = NULL THEN items
            ELSE [items EXCEPT ![ddCHash2(item.op, item.f, item.g, slots)] = item]
  IN  [EmptyCache(slots) EXCEPT !.item = FoldLeft(Move, @, [i \in 1 .. cache.slots |-> i - 1])]

\* A miss that leaves too many hits resizes the cache.
CacheLookup(m, op, f, g) ==
  LET item == m.cache.item[ddCHash2(op, f, g, m.cache.slots)]
      missed == [m.cache EXCEPT !.misses = @ + 1]
  IN  IF item.data # NULL /\ item.op = op /\ item.f = f /\ item.g = g
      THEN [m |-> [m EXCEPT !.cache.hits = @ + 1], at |-> item.data]
      ELSE [m |-> [m EXCEPT !.cache = IF 10 * missed.hits > 3 * missed.misses
                                      THEN CacheResize(missed) ELSE missed],
            at |-> NULL]

\* The item before is dropped, but its node is not released.
CacheInsert(m, op, f, g, data) ==
  LET s == ddCHash2(op, f, g, m.cache.slots)
      item == [op |-> op, f |-> f, g |-> g, data |-> data]
  IN  Refer([Unrefer(m, m.cache.item[s].data) EXCEPT !.cache.item[s] = item], data)

KeepVar(made, var) == Refer([made.m EXCEPT !.vars[var] = made.at], made.at)
InsertVar(m, var) == IF m.vars[var] # NULL THEN m ELSE KeepVar(MkNode(m, var, TrueNode, FalseNode), var)
KeepNegVar(made, var) == Refer([made.m EXCEPT !.negs[var] = made.at], made.at)
InsertNegVar(m, var) == IF m.negs[var] # NULL THEN m ELSE KeepNegVar(MkNode(m, var, FalseNode, TrueNode), var)

-----------------------------------------------------------------------------
(****************************************************************************)
(* Diagrams.                                                                *)
(****************************************************************************)
\* dictionary_add_entry: the variable of a name is its place, from 0.
AddEntry(m, name) == IF Contains(m.dict, name) THEN m ELSE [m EXCEPT !.dict = Append(@, name)]
ValueForKey(m, name) == SelectInSeq(m.dict, LAMBDA entry : entry = name) - 1
KeyForValue(m, var) == m.dict[var + 1]

\* A diagram without counting the reference to its root.
Instance(m, root) ==
  LET got == GetInstance(m.pool)
  IN  [m |-> [m EXCEPT !.pool = got.pool, !.root = got.element :> root @@ @], at |-> got.element]
Create(made) == Instance(Refer(made.m, made.at), made.at)

\* Another root.
Reroot(m, obdd, root) == Refer([m EXCEPT !.root[obdd] = root], root)

Returned(m, obdd) == [m EXCEPT !.pool = ReleaseInstance(@, obdd[1]), !.root = Restrict(@, DOMAIN @ \ {obdd})]
Destroy(m, obdd) == Returned(NodeDestroy(Unrefer(m, m.root[obdd]), m.root[obdd]), obdd)

TrueObdd == GetInstance(EmptyPool).element
FalseObdd == GetInstance(GetInstance(EmptyPool).pool).element

\* Names are pairs of a signal and its number of primes.
NewManager ==
  LET empty == [node |-> <<>>, nodes_pool |-> Nodes!EmptyPool, lent |-> {}, dict |-> <<<<"1", 0>>, <<"0", 0>>>>,
                level |-> [v \in 0 .. MaxVar |-> EmptyLevel], cache |-> EmptyCache(OBDD_CACHE_SIZE),
                vars |-> [v \in 0 .. MaxVar |-> NULL], negs |-> [v \in 0 .. MaxVar |-> NULL],
                pool |-> EmptyPool, root |-> <<>>]
      true == Create(NewNode(empty, TRUE_VAR, NULL, NULL, 0))
  IN  Create(NewNode(true.m, FALSE_VAR, NULL, NULL, 0)).m

\* obdd_mgr_var and obdd_mgr_not_var: the pool is asked before the node is made.
RootAtVar(m, obdd, var) == [m |-> Reroot(m, obdd, m.vars[var]), at |-> obdd]
RootAtNegVar(m, obdd, var) == [m |-> Reroot(m, obdd, m.negs[var]), at |-> obdd]
VarAt(created, var) == RootAtVar(InsertNegVar(InsertVar(created.m, var), var), created.at, var)
NegVarAt(created, var) == RootAtNegVar(InsertVar(InsertNegVar(created.m, var), var), created.at, var)
MgrVar(m, name) ==
  LET named == AddEntry(m, name)
  IN  VarAt(Instance(named, NULL), ValueForKey(named, name))
MgrNotVar(m, name) ==
  LET named == AddEntry(m, name)
  IN  NegVarAt(Instance(named, NULL), ValueForKey(named, name))

-----------------------------------------------------------------------------
(****************************************************************************)
(* The operations.                                                          *)
(****************************************************************************)
\* The functions that apply is given; their addresses are numbers for the cache.
OpEquals == 1
OpXor == 2
OpAnd == 3
OpOr == 4
OpNext == 5
Fkt(op, left, right) ==
  CASE op = OpEquals -> left = right
    [] op = OpXor    -> left # right
    [] op = OpAnd    -> left /\ right
    [] op = OpOr     -> left \/ right

\* The terminals below a node are replaced, in place, by the first ones that are met.
TerminalSeen(seen, n, isTrue) ==
  IF isTrue THEN [seen EXCEPT !.true = IF @ = NULL THEN n ELSE @]
  ELSE [seen EXCEPT !.false = IF @ = NULL THEN n ELSE @]
Shared(seen, isTrue) == IF isTrue THEN seen.true ELSE seen.false

RECURSIVE RemoveDuplicatedTerminals(_, _)
RemoveDuplicatedTerminals(seen, n) ==
  LET isTrue(k, succ) == IsTrue(k.m, succ)
      Replaced(k, isHigh) ==
        LET succ == IF isHigh THEN k.m.node[n].high ELSE k.m.node[n].low
            after == TerminalSeen(k, succ, isTrue(k, succ))
            shared == Shared(after, isTrue(k, succ))
            moved == Refer(Unrefer(k.m, succ), shared)
        IN  IF ~IsConstant(k.m, succ) THEN RemoveDuplicatedTerminals(k, succ)
            ELSE [after EXCEPT !.m = IF isHigh THEN [moved EXCEPT !.node[n].high = shared]
                                     ELSE [moved EXCEPT !.node[n].low = shared]]
  IN  IF IsConstant(seen.m, n) THEN seen ELSE Replaced(Replaced(seen, TRUE), FALSE)

\* The same diagram, with the nodes of the table.
Merged(m, var, high, low, known) == IF known # NULL THEN [m |-> m, at |-> known] ELSE MkNode(m, var, high, low)
RECURSIVE MergeRedundantNodes(_, _)
MergeRedundantNodes(m, n) ==
  LET var == m.node[n].var
      high == MergeRedundantNodes(m, m.node[n].high)
      low == MergeRedundantNodes(high.m, m.node[n].low)
  IN  IF IsConstant(m, n) THEN [m |-> m, at |-> n]
      ELSE Merged(low.m, var, high.at, low.at, SearchNode(low.m, var, high.at, low.at))

WithoutDuplicates(m, n) == RemoveDuplicatedTerminals([m |-> m, true |-> NULL, false |-> NULL], n).m
MergedFrom(m, n) == MergeRedundantNodes(WithoutDuplicates(m, n), n)

RootAtMerged(merged, obdd, root) ==
  IF merged.at = root THEN merged.m ELSE Reroot(Unrefer(merged.m, root), obdd, merged.at)
Reduce(m, obdd) == RootAtMerged(MergedFrom(m, m.root[obdd]), obdd, m.root[obdd])

\* A node made from one operation on each of two pairs of successors, the low ones first.
MkNodeAbove(var, higher, lower) == MkNode(higher.m, var, higher.at, lower.at)
MkNodeOf(m, var, Op(_, _), high, low) ==
  LET lower == Op(m, low)
  IN  MkNodeAbove(var, Op(lower.m, high), lower)

RECURSIVE NodeClone(_, _)
NodeClone(m, n) ==
  IF IsConstant(m, n) THEN [m |-> m, at |-> n]
  ELSE MkNodeOf(m, m.node[n].var, NodeClone, m.node[n].high, m.node[n].low)

\* The references that were counted for the nodes of a clone are its own: a constant has none.
CloneAt(obdd, cloned) == [m |-> Reduce([cloned.m EXCEPT !.root[obdd] = cloned.at], obdd), at |-> obdd]
Clone(m, obdd) ==
  LET reserved == Instance(m, NULL)
  IN  CloneAt(reserved.at, NodeClone(reserved.m, m.root[obdd]))

\* Only the first call looks in the cache, and puts its result there; the nodes that it
\* merges are not used.
RECURSIVE Applied(_, _, _, _)
Applied(m, op, left, right) ==
  LET top == Min({m.node[n].var : n \in {k \in {left, right} : ~IsConstant(m, k)}})
      Low(n) == IF m.node[n].var = top THEN m.node[n].low ELSE n
      High(n) == IF m.node[n].var = top THEN m.node[n].high ELSE n
      Below(k, pair) == Applied(k, op, pair[1], pair[2])
  IN  IF IsConstant(m, left) /\ IsConstant(m, right)
      THEN [m |-> m, at |-> IF Fkt(op, IsTrue(m, left), IsTrue(m, right)) THEN TrueNode ELSE FalseNode]
      ELSE MkNodeOf(m, top, Below, <<High(left), High(right)>>, <<Low(left), Low(right)>>)
Cached(applied, op, left, right) ==
  [applied EXCEPT !.m = CacheInsert(MergedFrom(@, applied.at).m, op, left, right, applied.at)]
CachedOrApplied(looked, op, left, right) ==
  IF looked.at # NULL THEN looked
  ELSE IF IsConstant(looked.m, left) /\ IsConstant(looked.m, right) THEN Applied(looked.m, op, left, right)
  ELSE Cached(Applied(looked.m, op, left, right), op, left, right)
NodeApply(m, op, left, right) == CachedOrApplied(CacheLookup(m, op, left, right), op, left, right)

Apply(m, op, left, right) == Create(NodeApply(m, op, m.root[left], m.root[right]))
ApplyNot(m, obdd) == Apply(m, OpXor, TrueObdd, obdd)

\* The variables are replaced by their primed ones.  The successor that is done is
\* referred to for the time the other one takes.
Primed(m, n) == <<KeyForValue(m, m.node[n].var)[1], KeyForValue(m, m.node[n].var)[2] + 1>>
NextNode(m, name, high, low) == MkNode(m, ValueForKey(m, name), high, low)
NextCached(next, n, high, low) ==
  [next EXCEPT !.m = CacheInsert(Unrefer(Unrefer(@, high), low), OpNext, n, n, next.at)]
NextAbove(n, name, high, low) ==
  NextCached(NextNode(Refer(low.m, low.at), name, high, low.at), n, high, low.at)
RECURSIVE NodeApplyNext(_, _)
NodeApplyNext(m, n) ==
  LET looked == CacheLookup(m, OpNext, n, n)
      high == NodeApplyNext(AddEntry(looked.m, Primed(m, n)), m.node[n].high)
  IN  IF IsConstant(m, n) THEN [m |-> m, at |-> n]
      ELSE IF looked.at # NULL THEN looked
      ELSE NextAbove(n, Primed(m, n), high.at, NodeApplyNext(Refer(high.m, high.at), m.node[n].low))
ApplyNext(m, obdd) == Create(NodeApplyNext(m, m.root[obdd]))

\* The root's successor is made again, also if it is a constant.
RECURSIVE NodeRestrict(_, _, _, _)
NodeRestrict(m, n, var, value) ==
  LET succ == IF value THEN m.node[n].high ELSE m.node[n].low
      Below(k, child) == NodeRestrict(k, child, var, value)
  IN  IF IsConstant(m, n) THEN [m |-> m, at |-> n]
      ELSE IF m.node[n].var = var THEN MkNode(m, m.node[succ].var, m.node[succ].high, m.node[succ].low)
      ELSE MkNodeOf(m, m.node[n].var, Below, m.node[n].high, m.node[n].low)

\* The node that was made for the variables before is destroyed.
Either(true, n, var) ==
  LET false == NodeRestrict(true.m, n, var, FALSE)
  IN  NodeApply(false.m, OpOr, true.at, false.at)
Forget(made, var) == Either(NodeRestrict(made.m, made.at, var, TRUE), made.at, var)
ExistsVectorNode(m, n, vars) ==
  LET ForgetNext(made, var) ==
        LET DropLast(k) == IF made.at = n THEN k ELSE NodeDestroy(k, made.at)
        IN  [Forget(made, var) EXCEPT !.m = DropLast(@)]
  IN  FoldLeft(ForgetNext, [m |-> m, at |-> n], vars)
ExistsVector(m, obdd, vars) == Create(ExistsVectorNode(m, m.root[obdd], vars))

RECURSIVE NodeSwapVars(_, _, _, _)
NodeSwapVars(m, n, from, to) ==
  LET Below(k, child) == NodeSwapVars(k, child, from, to)
  IN  IF IsConstant(m, n) THEN [m |-> m, at |-> n]
      ELSE MkNodeOf(m, to[SelectInSeq(from, LAMBDA v : v = m.node[n].var)], Below, m.node[n].high, m.node[n].low)
SwapVars(m, obdd, from, to) == Create(NodeSwapVars(m, m.root[obdd], from, to))

DestroyLast(made, obdd) == [made EXCEPT !.m = Destroy(@, obdd)]
SwappedFrom(exists, from, to) == DestroyLast(SwapVars(exists.m, exists.at, from, to), exists.at)
Img(m, obdd, primed, original) == SwappedFrom(ExistsVector(m, obdd, original), primed, original)

-----------------------------------------------------------------------------
(****************************************************************************)
(* Reading a diagram.  A valuation is the set of variables that are true.   *)
(****************************************************************************)
\* The code walks down with the values of a vector.
RECURSIVE SatisfiedFrom(_, _, _)
SatisfiedFrom(m, n, valuation) ==
  IF IsConstant(m, n) THEN IsTrue(m, n)
  ELSE SatisfiedFrom(m, IF m.node[n].var \in valuation THEN m.node[n].high ELSE m.node[n].low, valuation)
SatisfiesVector(m, obdd, valuation) == SatisfiedFrom(m, m.root[obdd], valuation)

\* All sets that the elements of a sequence make, counted in binary, the first one lowest.
Counted(list) ==
  [k \in 1 .. 2 ^ Len(list) |->
     {list[j] : j \in {i \in DOMAIN list : ((k - 1) \div 2 ^ (i - 1)) % 2 = 1}}]

\* The paths from the root to true, low successors first.  A path is known by the variables
\* it goes through (cared: not in dont_care_list), the ones that were tried once
\* (initialized_values) and the ones that are true (partial_valuation); the search goes
\* back to the last variable that was tried only once, or to variable 2.
RECURSIVE Search(_, _)
Search(m, s) ==
  LET var == s.var
      succ == IF var \in s.initialized THEN m.node[s.node].high ELSE m.node[s.node].low
      next == m.node[succ].var
      step == [s EXCEPT !.initialized = @ \cup {var}, !.cared = @ \cup {var},
                        !.partial = IF var \in s.initialized THEN @ \cup {var} ELSE @]
      ended == [step EXCEPT !.cared = {v \in @ : v <= var}]
      back == Max({2} \cup {v \in ended.cared : v <= var /\ v \notin ended.partial})
      UpTo(vars) == {v \in vars : v <= back}
  IN  IF s.node = NULL \/ var \in s.partial THEN s.found
      ELSE IF ~IsConstant(m, succ)
           THEN Search(m, [step EXCEPT !.cared = @ \ (var + 1 .. next - 2), !.var = next, !.node = succ,
                                       !.last_nodes[next] = succ])
      ELSE Search(m, [ended EXCEPT !.found = IF IsTrue(m, succ)
                                             THEN Append(@, [ones |-> ended.partial, cared |-> ended.cared]) ELSE @,
                                   !.var = back, !.node = ended.last_nodes[back],
                                   !.cared = UpTo(@), !.partial = UpTo(@), !.initialized = UpTo(@)])

Paths(m, root) ==
  LET var == m.node[root].var
  IN  Search(m, [var |-> var, node |-> root, initialized |-> {}, cared |-> {var}, partial |-> {},
                 last_nodes |-> [v \in 2 .. Len(m.dict) - 1 |-> IF v = var THEN root ELSE NULL], found |-> <<>>])

Variables(m) == [v \in 1 .. Len(m.dict) - 2 |-> v + 1]

\* The valuations of a path over the variables in image.
PathValuations(m, path, image) ==
  LET free == SelectSeq(Variables(m), LAMBDA v : v \in image /\ v \notin path.cared)
      counted == Counted(free)
  IN  [k \in DOMAIN counted |-> counted[k] \cup (path.ones \cap image)]

\* obdd_get_valuations, over the variables in image.
GetValuations(m, obdd, image) ==
  LET root == m.root[obdd]
      paths == Paths(m, root)
  IN  IF ~IsConstant(m, root) THEN FlattenSeq([p \in DOMAIN paths |-> PathValuations(m, paths[p], image)])
      ELSE IF IsTrue(m, root) THEN Counted(SelectSeq(Variables(m), LAMBDA v : v \in image)) ELSE <<>>
=============================================================================
