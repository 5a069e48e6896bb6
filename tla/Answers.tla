------------------------------- MODULE Answers -------------------------------
(***************************************************************************)
(* From the rows of a query to its answer (run_query, runtime/engine.rs):  *)
(* the limit, the projection, DISTINCT, grouping and the order, which is   *)
(* reached by a full sort, by a heap of as many rows as are asked for, by  *)
(* the order of a secondary index, or by running the pattern once for each *)
(* node in that order until there are enough rows.                         *)
(***************************************************************************)
EXTENDS Meaning, Expressions

(***************************************************************************)
(* Statements.  A sort key is an expression on the row or a column of what *)
(* is returned; groups are the group variables of the statement that is    *)
(* run, not of a subquery in it.                                           *)
(***************************************************************************)
NoLimit == -1
Column(i) == [op |-> "column", at |-> i]
Spec1(key, asc, nullsFirst) == [key |-> key, asc |-> asc, nullsFirst |-> nullsFirst]
Statement(matches, returns) ==
  [matches |-> matches, raw |-> returns = <<>>, returns |-> returns, distinct |-> FALSE,
   grouped |-> FALSE, by |-> <<>>, order |-> <<>>, limit |-> NoLimit,
   groups |-> UNION {GroupVars(matches[i].pattern) : i \in DOMAIN matches}]

\* Which sort is forced (FROGQL_ORDERBY_FORCE), and whether an unstable one keeps the order of peers.
Manner(forced, keepsPeers) == [forced |-> forced, keepsPeers |-> keepsPeers]
BtreeAllowed(how) == how.forced = "auto"

CombineLimits(queryLimit, limit) ==
  IF queryLimit = NoLimit THEN limit
  ELSE IF limit > 0 /\ limit < queryLimit THEN limit ELSE queryLimit

(***************************************************************************)
(* Sort keys.  Null is before or after all whichever the direction; values *)
(* of two kinds are peers.                                                 *)
(***************************************************************************)
NullFirst(spec) == IF spec.nullsFirst THEN -1 ELSE 1
KeyOrder(a, b, spec) ==
  CASE a = b -> 0
    [] a = Null /\ b # Null -> NullFirst(spec)
    [] a # Null /\ b = Null -> -NullFirst(spec)
    [] a # b /\ Null \notin {a, b} ->
         IF ~Ordered(a, b) THEN 0 ELSE IF (a.id < b.id) = spec.asc THEN -1 ELSE 1
CompareSortKeys(a, b, specs) ==
  FoldLeft(LAMBDA found, i : IF found # 0 THEN found ELSE KeyOrder(a[i], b[i], specs[i]),
           0, [i \in DOMAIN specs |-> i])

\* A decorated row carries its keys.
Decorated(keys, row) == [keys |-> keys, row |-> row]
Undecorated(items) == Mapped(LAMBDA item : item.row, items)

SortUnstable(items, specs, how) ==
  LET before(i, j) ==
        CompareSortKeys(items[i].keys, items[j].keys, specs) < (IF (i < j) = how.keepsPeers /\ i # j THEN 1 ELSE 0)
      at(k) == CHOOSE i \in DOMAIN items : Cardinality({j \in DOMAIN items : before(j, i)}) = k - 1
  IN  Mapped(LAMBDA k : items[at(k)], [k \in DOMAIN items |-> k])

(***************************************************************************)
(* The heap of the first k (select_topk_decorated): its root is the last   *)
(* of the rows kept.                                                       *)
(***************************************************************************)
Swapped(s, i, j) == [s EXCEPT ![i] = s[j], ![j] = s[i]]
Later(heap, i, j, specs) ==
  IF j <= Len(heap) /\ CompareSortKeys(heap[j].keys, heap[i].keys, specs) > 0 THEN j ELSE i
\* Mutant: only one child is looked at.
LatestHereLeft(heap, i, specs) == Later(heap, i, 2 * i, specs)
LatestHere(heap, i, specs) == Later(heap, Later(heap, i, 2 * i, specs), 2 * i + 1, specs)
RECURSIVE SiftDown(_, _, _)
SiftTo(heap, i, latest, specs) ==
  IF latest = i THEN heap ELSE SiftDown(Swapped(heap, i, latest), latest, specs)
SiftDown(heap, i, specs) == SiftTo(heap, i, LatestHere(heap, i, specs), specs)
\* Each of the places is made the latest of those below it, from the last place up.
SiftedFrom(heap, places, specs) ==
  FoldLeft(LAMBDA h, i : SiftDown(h, places + 1 - i, specs), heap, [i \in 1..places |-> i])
Offered(heap, item, k, specs) ==
  IF Len(heap) < k THEN SiftedFrom(Append(heap, item), IF Len(heap) = k - 1 THEN k \div 2 ELSE 0, specs)
  ELSE IF CompareSortKeys(item.keys, heap[1].keys, specs) < 0
       THEN SiftedFrom([heap EXCEPT ![1] = item], 1, specs) ELSE heap
SelectTopK(items, specs, k, how) ==
  SortUnstable(FoldLeft(LAMBDA heap, item : Offered(heap, item, k, specs), <<>>, items), specs, how)

\* The heap serves a limit of less than half the rows, or any limit below their number when forced.
UsesTopK(n, limit, how) ==
  CASE how.forced = "topk" -> limit > 0 /\ limit < n
    [] how.forced = "pdqsort" -> FALSE
    [] how.forced = "auto" -> limit > 0 /\ limit * 2 < n
SortDecorated(items, specs, limit, how) ==
  Undecorated(IF UsesTopK(Len(items), limit, how) THEN SelectTopK(items, specs, limit, how)
              ELSE SortUnstable(items, specs, how))

SortKeys(mu, specs, groups) ==
  Mapped(LAMBDA spec : OrNull(Eval(spec.key, EnvOf(mu, groups))), specs)
SortRows(rows, specs, limit, groups, how) ==
  SortDecorated(Mapped(LAMBDA row : Decorated(SortKeys(row.mu, specs, groups), row), rows), specs, limit, how)
SortProjectedRows(rows, specs, limit, how) ==
  SortDecorated(
    Mapped(LAMBDA row : Decorated(Mapped(LAMBDA spec : row[spec.key.at], specs), row), rows), specs, limit, how)

(***************************************************************************)
(* The order of a secondary index.                                         *)
(***************************************************************************)
\* The nodes of a label that have the property, by its value, those of one value by number.
LookupOrdered(l, attr, asc) ==
  LET ids == Ascending({n \in Nodes : HasLabel(graph.nodes[n], l) /\ attr \in DOMAIN graph.nodes[n].props})
      items == Mapped(LAMBDA n : Decorated(<<PropertyOf(n, attr)>>, n), ids)
  IN  Undecorated(SortUnstable(items, <<Spec1(At("", attr), asc, FALSE)>>, Manner("auto", TRUE)))
NodesWithLabel(l) == {n \in Nodes : HasLabel(graph.nodes[n], l)}

RECURSIVE DescriptorsOf(_, _)
DescriptorsOf(p, x) ==
  CASE p.op \in {"node", "edge"} -> IF p.d.var = x THEN {p.d} ELSE {}
    [] p.op \in {"concat", "union", "join"} -> DescriptorsOf(p.left, x) \cup DescriptorsOf(p.right, x)
    [] p.op \in {"filter", "repeat", "questioned"} -> DescriptorsOf(p.inner, x)
    [] OTHER -> {}
DescriptorsFor(matches, x) == UNION {DescriptorsOf(matches[i].pattern, x) : i \in DOMAIN matches}
LabelsForVar(matches, x) == UNION {RequiredLabels(d.label) : d \in DescriptorsFor(matches, x)}
IndexedAmong(labels, attr) == {l \in labels : <<l, attr>> \in graph.indexed}
NoLabels == {}
RECURSIVE OrLabels(_)
OrLabels(a) ==
  CASE a.op = "label" -> {a.name}
    [] a.op = "or" -> IF OrLabels(a.left) = NoLabels \/ OrLabels(a.right) = NoLabels THEN NoLabels
                      ELSE OrLabels(a.left) \cup OrLabels(a.right)
    [] OTHER -> NoLabels
\* No labels when a descriptor of the variable is anything but a disjunction of labels.
OrCandidateLabels(matches, x) ==
  LET sets == {OrLabels(d.label) : d \in DescriptorsFor(matches, x)}
  IN  IF NoLabels \in sets THEN NoLabels ELSE UNION sets

(***************************************************************************)
(* The rows in the order of an index (try_btree_sort): those of each node  *)
(* in turn, and apart those whose variable holds no node.                  *)
(***************************************************************************)
HoldsNode(row, x) == Binds(row, x, IsNode)
\* Mutant: the rows that hold no node are forgotten.
BtreeBucketsOnly(rows, x, ids, limit, nullsFirst) ==
  LET of(n) == LET here(row) == HoldsNode(row, x) /\ row.mu[x] = One(n) IN SelectSeq(rows, here)
  IN  Truncated(FlatMap(of, ids), limit)
BtreeBuckets(rows, x, ids, limit, nullsFirst) ==
  LET of(n) == LET here(row) == HoldsNode(row, x) /\ row.mu[x] = One(n) IN SelectSeq(rows, here)
      nulls == LET none(row) == ~HoldsNode(row, x) IN SelectSeq(rows, none)
      indexed == FlatMap(of, ids)
  IN  Truncated(IF nullsFirst THEN nulls \o indexed ELSE indexed \o nulls, limit)

BtreeSortLabels(specs, matches) ==
  IF Len(specs) = 1 /\ specs[1].key.op = "attr"
  THEN IndexedAmong(LabelsForVar(matches, specs[1].key.var), specs[1].key.attr) ELSE {}
BtreeSorted(rows, spec, label, limit) ==
  BtreeBuckets(rows, spec.key.var, LookupOrdered(label, spec.key.attr, spec.asc), limit, spec.nullsFirst)

RoutePreSort(rows, q, limit, how) ==
  LET labels == IF BtreeAllowed(how) THEN BtreeSortLabels(q.order, q.matches) ELSE {}
  IN  IF labels # {} THEN BtreeSorted(rows, q.order[1], CHOOSE l \in labels : TRUE, limit)
      ELSE SortRows(rows, q.order, limit, q.groups, how)

(***************************************************************************)
(* The pattern run once for each node in the order of the sort variable    *)
(* (try_btree_ltj_real), which is bound to that node from outside.  Every  *)
(* cursor holds the nodes of one label still to come.                      *)
(***************************************************************************)
RECURSIVE HasEdge(_)
HasEdge(p) ==
  CASE p.op = "edge" -> TRUE
    [] p.op = "node" -> FALSE
    [] p.op \in {"concat", "union", "join"} -> HasEdge(p.left) \/ HasEdge(p.right)
    [] OTHER -> HasEdge(p.inner)

BothOk(a, b) == IF a.ok /\ b.ok THEN [ok |-> TRUE, rows |-> a.rows \o b.rows] ELSE Declined
Filtered(found, expr) ==
  LET holds(row) == Holds(expr, row.mu)
  IN  IF found.ok THEN [ok |-> TRUE, rows |-> SelectSeq(found.rows, holds)] ELSE Declined
\* A filter must see every row of what is inside it.
RECURSIVE PinnedRun(_, _, _, _)
PinnedRun(p, limit, pins, order) ==
  CASE p.op = "union" -> BothOk(PinnedRun(p.left, limit, pins, order), PinnedRun(p.right, limit, pins, order))
    [] p.op = "filter" -> Filtered(PinnedRun(p.inner, 0, pins, order), p.expr)
    [] OTHER -> TryLtjWithPins(p, limit, pins, order)

\* A statement the walk is for: one pattern with edges, ordered by expressions, the first of
\* them a property whose nulls come last.
WalkApplies(q) ==
  /\ q.order # <<>> /\ ~q.distinct /\ ~q.grouped
  /\ \A i \in DOMAIN q.returns : ~ContainsAgg(q.returns[i])
  /\ \A i \in DOMAIN q.order : q.order[i].key.op # "column"
  /\ q.order[1].key.op = "attr" /\ ~q.order[1].nullsFirst
  /\ Len(q.matches) = 1 /\ ~q.matches[1].optional /\ HasEdge(q.matches[1].pattern)

\* One cursor, on an index that has every node of its label; or one for each label of a disjunction.
WalkLabels(q, x, attr) ==
  LET required == LabelsForVar(q.matches, x)
      any == OrCandidateLabels(q.matches, x)
      l == CHOOSE l \in IndexedAmong(required, attr) : TRUE
      covers == Len(LookupOrdered(l, attr, TRUE)) = Cardinality(NodesWithLabel(l))
  IN  IF required # {} THEN IF IndexedAmong(required, attr) # {} /\ covers THEN {l} ELSE {}
      ELSE IF IndexedAmong(any, attr) = any THEN any ELSE {}

BestCursor(cursors, spec) ==
  LET head(i) == PropertyOf(cursors[i][1], spec.key.attr)
      better(i, j) == IF spec.asc THEN IsLess(head(i), head(j)) ELSE IsLess(head(j), head(i))
      live == {i \in DOMAIN cursors : cursors[i] # <<>>}
  IN  CHOOSE i \in live : \A j \in live : ~better(j, i) /\ (j < i => better(i, j))

\* With one key the rows are the answer once there are enough; with more, the rest of the peers
\* of the last node are still to come.  Mutant: they are not waited for.
StopsAtCount(w, rows, value, last) == w.cap > 0 /\ Len(rows) >= w.cap
StopsBefore(w, rows, value, last) ==
  /\ w.cap > 0 /\ Len(rows) >= w.cap
  /\ Len(w.specs) = 1 \/ (last # Null /\ value # last)

RECURSIVE Walked(_, _, _, _, _)
WalkedAt(w, cursors, i, n, visited, rows, last) ==
  LET rest == [cursors EXCEPT ![i] = Tail(@)]
      value == PropertyOf(n, w.specs[1].key.attr)
  IN  IF Len(cursors) > 1 /\ n \in visited THEN Walked(w, rest, visited, rows, last)
      ELSE IF StopsBefore(w, rows, value, last) THEN rows
      ELSE Walked(w, rest, visited \cup {n}, rows \o w.found[n], value)
Walked(w, cursors, visited, rows, last) ==
  IF \A i \in DOMAIN cursors : cursors[i] = <<>> THEN rows
  ELSE LET i == BestCursor(cursors, w.specs[1])
       IN  WalkedAt(w, cursors, i, cursors[i][1], visited, rows, last)

WalkSorted(rows, q, limit, how) ==
  Truncated(IF Len(q.order) = 1 \/ rows = <<>> THEN rows
            ELSE SortRows(rows, q.order, limit, q.groups, how), limit)
WalkFrom(found, cursors, q, limit, how) ==
  IF \E n \in DOMAIN found : ~found[n].ok THEN Declined
  ELSE [ok |-> TRUE,
        rows |-> WalkSorted(
          Walked([cap |-> limit, specs |-> q.order, found |-> [n \in DOMAIN found |-> found[n].rows]],
                 cursors, {}, <<>>, Null), q, limit, how)]
WalkWith(labels, q, limit, c, how) ==
  LET attr == q.order[1].key.attr
      x == q.order[1].key.var
      cursors == Mapped(LAMBDA l : LookupOrdered(l, attr, q.order[1].asc), SetToSeq(labels))
      ran(n) == PinnedRun(q.matches[1].pattern, 0, [y \in {x} |-> n], c.order)
  IN  IF labels = {} THEN Declined
      ELSE WalkFrom([n \in UNION {Range(cursors[i]) : i \in DOMAIN cursors} |-> ran(n)], cursors, q, limit, how)
BtreeWalk(q, limit, c, how) ==
  IF BtreeAllowed(how) /\ WalkApplies(q)
  THEN WalkWith(WalkLabels(q, q.order[1].key.var, q.order[1].key.attr), q, limit, c, how) ELSE Declined

(***************************************************************************)
(* Projection and grouping.  A group is the list of the assignments of its *)
(* rows, in the order they came; without keys there is one group even when *)
(* there are no rows.                                                      *)
(***************************************************************************)
Projected(q, mu) ==
  Mapped(LAMBDA e : OrNull(Eval(e, EnvOf(mu, q.groups))), q.returns)
RowByRow(q, mus) == Mapped(LAMBDA mu : Projected(q, mu), mus)

GroupKeys(q) ==
  LET isKey(e) == ~ContainsAgg(e) IN IF q.grouped THEN q.by ELSE SelectSeq(q.returns, isKey)
KeyOf(q, mu) == Mapped(LAMBDA e : OrNull(Eval(e, EnvOf(mu, q.groups))), GroupKeys(q))
ByKey(keys, mus) ==
  LET of(key) == LET here(i) == keys[i] = key IN Kept(mus, here)
  IN  Mapped(of, Distinct(keys))
\* Mutant: no rows, no group.
GroupsOfSome(q, keys, mus) == ByKey(keys, mus)
GroupsOf(q, keys, mus) ==
  IF mus = <<>> /\ GroupKeys(q) = <<>> THEN <<<<>>>> ELSE ByKey(keys, mus)
RunAggregated(q, mus) ==
  LET values(group) == Mapped(LAMBDA e : GroupedValue(e, group, q.groups), q.returns)
  IN  Mapped(values, GroupsOf(q, Mapped(LAMBDA mu : KeyOf(q, mu), mus), mus))

NeedsGrouping(q) ==
  q.grouped \/ \E i \in DOMAIN q.returns : HasRowAggregate(q.returns[i], q.groups)
NeedsFullInput(q) == NeedsGrouping(q) \/ q.distinct \/ q.order # <<>>
SortsColumns(q) == \E i \in DOMAIN q.order : q.order[i].key.op = "column"
SortsBefore(q) == q.order # <<>> /\ ~NeedsGrouping(q) /\ ~SortsColumns(q)

\* Mutant: the heap keeps as many rows as are asked for, though some of them will fall together.
SortLimitAlways(q, limit) == limit
SortLimit(q, limit) == IF q.distinct THEN 0 ELSE limit

PreSorted(q, rows, used, limit, how) ==
  IF SortsBefore(q) /\ ~used THEN RoutePreSort(rows, q, SortLimit(q, limit), how) ELSE rows
Deduplicated(q, values) == IF q.distinct THEN Distinct(values) ELSE values
ProjectedAll(q, mus) ==
  IF q.raw THEN mus
  ELSE Deduplicated(q, IF NeedsGrouping(q) THEN RunAggregated(q, mus) ELSE RowByRow(q, mus))
PostSorted(q, values, used, limit, how) ==
  IF q.order = <<>> \/ SortsBefore(q) \/ used THEN values
  ELSE SortProjectedRows(values, q.order, limit, how)

AnswerFrom(q, rows, used, limit, how) ==
  Truncated(PostSorted(q, ProjectedAll(q, Mapped(LAMBDA row : row.mu, PreSorted(q, rows, used, limit, how))), used, limit, how), limit)
AnswerAfter(q, walk, limit, c, how) ==
  AnswerFrom(q, IF walk.ok THEN walk.rows
                ELSE RunMatchChain(q.matches, IF NeedsFullInput(q) THEN 0 ELSE limit, c), walk.ok, limit, how)
RunUnder(q, limit, c, how) == AnswerAfter(q, BtreeWalk(q, limit, c, how), limit, c, how)
RunQuery(q, cap, c, how) ==
  IF q.limit = 0 THEN <<>> ELSE RunUnder(q, CombineLimits(q.limit, cap), c, how)
==============================================================================
