---------------------------- MODULE LeapfrogJoin ----------------------------
(***************************************************************************)
(* The leapfrog triejoin (runtime/ltj): a pattern of plain chains is taken *)
(* apart into triples (pattern_extract.rs), each answered by the triple    *)
(* index, and the variables are bound one at a time to the values all the  *)
(* triples that hold them agree on (algorithm.rs).                         *)
(*                                                                         *)
(* A constant of a triple - a label that is pinned, a node an index found, *)
(* a binding given from outside - is a variable bound before the search.   *)
(***************************************************************************)
EXTENDS PatternGraph

Unpinned == [x \in {} |-> 0]
Declined == [ok |-> FALSE]
Fresh(k) == "_ltj_" \o ToString(k)

(***************************************************************************)
(* Taking a pattern apart.                                                 *)
(***************************************************************************)
RECURSIVE HasAnyDirection(_)
HasAnyDirection(p) ==
  CASE p.op = "node" -> FALSE
    [] p.op = "edge" -> p.dir = "any"
    [] p.op \in {"concat", "union", "join"} -> HasAnyDirection(p.left) \/ HasAnyDirection(p.right)
    [] OTHER -> HasAnyDirection(p.inner)

RECURSIVE IsFlat(_)
IsFlat(p) == \/ p.op \in {"node", "edge"}
             \/ p.op = "concat" /\ IsFlat(p.left) /\ IsFlat(p.right)
RECURSIVE FlattenConcat(_)
FlattenConcat(p) ==
  IF p.op = "concat" THEN FlattenConcat(p.left) \o FlattenConcat(p.right) ELSE <<p>>

IsChain(elems) ==
  /\ elems[1].op = "node"
  /\ \A i \in 2..Len(elems) : elems[i].op = "node" => elems[i - 1].op = "edge"
  /\ Len(elems) > 1

\* What is still asked of a node bound to a variable: its required labels and its values.
LabelFilter(x, l) == [kind |-> "label", var |-> x, label |-> l]
AttrCmp(x, p) == [kind |-> "attr", var |-> x, attr |-> p[1], value |-> p[2]]
NodeFilters(x, d) ==
  SetToSeq({LabelFilter(x, l) : l \in RequiredLabels(d.label)}) \o SetToSeq({AttrCmp(x, p) : p \in d.is})

Blank ==
  [ok |-> TRUE, triples |-> <<>>, filters |-> <<>>, lone |-> {}, ranges |-> <<>>, fresh |-> 0]

NodeVar(d, k) == IF d.var = NoVar THEN Fresh(k) ELSE d.var

\* An edge with no node after it ends on a fresh one; a left edge is stored the other way round.
DecomposeFlatChain(elems, so) ==
  LET k(i) == so.fresh + 2 * i
      node(i) == NodeVar(elems[i].d, k(i))
      after(i) == IF i < Len(elems) /\ elems[i + 1].op = "node" THEN node(i + 1) ELSE Fresh(k(i))
      before(i) == IF elems[i - 1].op = "node" THEN node(i - 1) ELSE after(i - 1)
      triple(i) ==
        LET left == elems[i].dir = "left"
        IN  [s |-> IF left THEN after(i) ELSE before(i), p |-> Fresh(k(i) + 1),
             o |-> IF left THEN before(i) ELSE after(i), dir |-> elems[i].dir, d |-> elems[i].d]
      isEdge(i) == elems[i].op = "edge"
      filters(i) == IF isEdge(i) THEN <<>> ELSE NodeFilters(node(i), elems[i].d)
      at == [i \in DOMAIN elems |-> i]
      edges == SelectSeq(at, isEdge)
  IN  [so EXCEPT !.triples = @ \o [j \in DOMAIN edges |-> triple(edges[j])],
                 !.filters = @ \o FlatMap(filters, at),
                 !.fresh = @ + 2 * Len(elems) + 2]

\* A predicate over an operand is passed over.
RECURSIVE DecomposePattern(_, _)
DecomposePattern(p, so) ==
  CASE p.op = "join" -> DecomposePattern(p.right, DecomposePattern(p.left, so))
    [] p.op = "concat" ->
         IF so.ok /\ IsFlat(p) /\ IsChain(FlattenConcat(p))
         THEN DecomposeFlatChain(FlattenConcat(p), so) ELSE [so EXCEPT !.ok = FALSE]
    [] p.op = "node" ->
         [so EXCEPT !.filters = @ \o NodeFilters(NodeVar(p.d, so.fresh), p.d),
                    !.lone = @ \cup {NodeVar(p.d, so.fresh)}, !.fresh = @ + 1]
    [] p.op = "filter" -> DecomposePattern(p.inner, so)
    [] OTHER -> [so EXCEPT !.ok = FALSE]

\* Each operand of a join is a path of its own.
RECURSIVE DecomposeTop(_, _)
DecomposeTop(p, so) ==
  IF p.op # "join" THEN DecomposePattern(p, so)
  ELSE LET bounded(from, to) ==
             LET n == Len(to.triples)
             IN  IF to.ranges # <<>> /\ to.ranges[Len(to.ranges)][2] = n THEN to
                 ELSE [to EXCEPT !.ranges = Append(@, <<Len(from.triples), n>>)]
           left == bounded(so, DecomposeTop(p.left, so))
       IN  bounded(left, DecomposeTop(p.right, left))

HasTriples(d) == IF d.ok /\ d.triples # <<>> THEN d ELSE Declined
Decompose(p) == HasTriples(DecomposeTop(p, Blank))

(***************************************************************************)
(* The index: one triple for each label of an edge, an undirected edge in  *)
(* both senses; the mirrored index, for edges of any direction, has every  *)
(* edge in both, a directed self-loop twice.                               *)
(***************************************************************************)
EdgeLabels == LET labels(e) == graph.edges[e].is.labels
                  directed == Ascending(EdgesOfKind("directed"))
              IN  FlatMap(labels, directed \o Ascending(EdgesOfKind("undirected")))
FirstAt(s, x) == CHOOSE i \in DOMAIN s : s[i] = x /\ \A j \in 1..(i - 1) : s[j] # x
LabelId(l) == FirstAt(EdgeLabels, l)
UnknownLabel == 0
LabelIds(e) == {LabelId(l) : l \in Range(graph.edges[e].is.labels)}

Triple(s, p, o, e) == [s |-> s, p |-> p, o |-> o, e |-> e]
IndexOf(mirrored) ==
  UNION {{Triple(Src(e), p, Tgt(e), e) : p \in LabelIds(e)}
           \cup {t \in {Triple(Tgt(e), p, Src(e), e) : p \in LabelIds(e)} :
                   mirrored \/ graph.edges[e].kind = "undirected"} : e \in DOMAIN graph.edges}
Copies(t, mirrored) ==
  IF mirrored /\ t.s = t.o /\ graph.edges[t.e].kind = "directed" THEN 2 ELSE 1

\* The predicate is pinned to the rarest of the labels the edge must have.
Rarest(known, index) ==
  LET size(l) == Cardinality({t \in index : t.p = l})
  IN  CHOOSE l \in known : \A k \in known : size(l) < size(k) \/ (size(l) = size(k) /\ l <= k)
RarestLabel(labels) ==
  LET known == {LabelId(l) : l \in labels \cap Range(EdgeLabels)}
  IN  IF known = {} THEN UnknownLabel ELSE Rarest(known, IndexOf(FALSE))

PinnedLabels(triples) ==
  LET pinned == {i \in DOMAIN triples : RequiredLabels(triples[i].d.label) # {}}
  IN  [x \in {triples[i].p : i \in pinned} |->
         RarestLabel(RequiredLabels(triples[CHOOSE i \in pinned : triples[i].p = x].d.label))]

(***************************************************************************)
(* fold_indexed_constants: a value an index finds in one node binds the    *)
(* variable to it; one it finds nowhere leaves nothing to answer.          *)
(***************************************************************************)
FoldIndexedConstants(filters) ==
  LET labels(x) == {f.label : f \in {f \in Range(filters) : f.kind = "label" /\ f.var = x}}
      indexed(f) == {l \in labels(f.var) : <<l, f.attr>> \in graph.indexed}
      fold(so, f) ==
        IF f.kind # "attr" \/ f.var \in DOMAIN so.pins \/ so.empty THEN so
        ELSE IF indexed(f) = {} THEN so
        ELSE LET found == LookupEq(CHOOSE l \in indexed(f) : TRUE, f.attr, f.value)
             IN  IF found = {} THEN [so EXCEPT !.empty = TRUE]
                 ELSE IF Cardinality(found) > 1 THEN so
                 ELSE [so EXCEPT !.pins = Extend(@, f.var, CHOOSE n \in found : TRUE),
                                 !.resolved = @ \cup {f}]
  IN  FoldLeft(fold, [pins |-> Unpinned, resolved |-> {}, empty |-> FALSE], filters)

\* A variable that is pinned keeps no label to check.
FiltersLeft(filters, resolved, pinned) ==
  {f \in Range(filters) : f \notin resolved /\ ~(f.kind = "label" /\ f.var \in pinned)}

EvalFilter(f, n) ==
  LET is == graph.nodes[n]
  IN  IF f.kind = "label" THEN HasLabel(is, f.label)
      ELSE f.attr \in DOMAIN is.props /\ is.props[f.attr] = f.value

(***************************************************************************)
(* The search.  q holds the triples with their indexes, the filters left,  *)
(* what is bound before it starts and the order the variables are taken    *)
(* in, which the engine may choose anew after each binding.                *)
(***************************************************************************)
NoValue == -1
LeastFrom(values, c) ==
  LET above == {v \in values : v >= c}
  IN  IF above = {} THEN NoValue ELSE CHOOSE v \in above : \A w \in above : v <= w

\* seek: the iterators leap in turn, each to what the one before reached, until all agree.
RECURSIVE Leapfrog(_, _, _, _, _)
Leapfrog(sets, i, c, last, agreed) ==
  LET v == LeastFrom(sets[i], c)
      n == IF v = last THEN agreed + 1 ELSE 1
  IN  IF v = NoValue \/ n >= Len(sets) THEN v
      ELSE Leapfrog(sets, (i % Len(sets)) + 1, v, v, n)

Entries(q, i, mu) ==
  LET t == q.triples[i]
      agrees(x, v) == x \in DOMAIN mu => mu[x] = v
  IN  {r \in IF t.dir = "any" THEN q.mirrored ELSE q.index : agrees(t.s, r.s) /\ agrees(t.p, r.p) /\ agrees(t.o, r.o)}

\* What the iterators of a variable hold, a triple with the variable at both ends counted twice.
Iterators(q, x, mu) ==
  LET of(i) ==
        LET t == q.triples[i]
        IN  (IF t.s = x THEN <<{r.s : r \in Entries(q, i, mu)}>> ELSE <<>>)
              \o (IF t.p = x THEN <<{r.p : r \in Entries(q, i, mu)}>> ELSE <<>>)
              \o (IF t.o = x THEN <<{r.o : r \in Entries(q, i, mu)}>> ELSE <<>>)
  IN  FlatMap(of, [i \in DOMAIN q.triples |-> i])

RECURSIVE Candidates(_, _)
Candidates(sets, c) ==
  LET v == Leapfrog(sets, 1, c, NoValue, 0)
  IN  IF v = NoValue THEN <<>> ELSE <<v>> \o Candidates(sets, v + 1)

\* Mutant: an edge is emitted once for every label that leads to it.
FreeLabelAdmitsEach(want, e, p) == IsSubtype(FromList(graph.edges[e].is.labels), want)
\* An edge that several labels lead to is emitted at the first of them.
FreeLabelAdmits(want, e, p) ==
  /\ IsSubtype(FromList(graph.edges[e].is.labels), want)
  /\ \A l \in LabelIds(e) : p <= l

DirectionAdmits(dir, e) ==
  CASE dir \in {"right", "left"} -> graph.edges[e].kind = "directed"
    [] dir = "undirected" -> graph.edges[e].kind = "undirected"
    [] dir = "any" -> TRUE

\* The edges of a triple that is bound: the index knows neither direction nor a formula of labels.
EdgeAdmitted(e, t, labels, p) ==
  /\ DirectionAdmits(t.dir, e)
  /\ labels = {} => FreeLabelAdmits(t.d.label, e, p)
  /\ Cardinality(labels) > 1 => IsSubtype(FromList(graph.edges[e].is.labels), t.d.label)
EdgesOfEntries(entries, mirrored) ==
  LET copies(e) == [k \in 1..Copies(CHOOSE r \in entries : r.e = e, mirrored) |-> e]
  IN  FlatMap(copies, Ascending({r.e : r \in entries}))
EdgesBound(q, i, mu) ==
  LET t == q.triples[i]
      admitted(r) == EdgeAdmitted(r.e, t, RequiredLabels(t.d.label), mu[t.p])
  IN  EdgesOfEntries({r \in Entries(q, i, mu) : admitted(r)}, t.dir = "any")

RECURSIVE Cartesian(_)
Cartesian(lists) ==
  IF lists = <<>> THEN << <<>> >>
  ELSE LET rest == Cartesian(Tail(lists))
           with(x) == [i \in DOMAIN rest |-> <<x>> \o rest[i]]
       IN  FlatMap(with, Head(lists))

\* The filters due when a variable is bound; those of what was bound before, at the first level.
Due(q, x, first) ==
  {f \in q.filters : f.var = x \/ (first /\ f.var \in DOMAIN q.start)}

NextVar(left, order) ==
  LET named == SelectSeq(order, LAMBDA x : x \in Range(left))
  IN  IF named = <<>> THEN left[1] ELSE named[1]

Emitted(mu, combos) == Mapped(LAMBDA combo : [mu |-> mu, edges |-> combo], combos)

RECURSIVE Search(_, _, _)
SearchAt(q, mu, left, x) ==
  LET fits(nu) == \A f \in Due(q, x, DOMAIN mu = DOMAIN q.start) : EvalFilter(f, nu[f.var])
      down(v) == IF fits(Extend(mu, x, v))
                 THEN Search(q, Extend(mu, x, v), SelectSeq(left, LAMBDA y : y # x)) ELSE <<>>
  IN  FlatMap(down, Candidates(Iterators(q, x, mu), 0))
Search(q, mu, left) ==
  IF left = <<>> THEN Emitted(mu, Cartesian([i \in DOMAIN q.triples |-> EdgesBound(q, i, mu)]))
  ELSE SearchAt(q, mu, left, NextVar(left, q.order))

(***************************************************************************)
(* convert_results: an assignment of the named variables and a path for    *)
(* each range, read in the direction of the pattern.                       *)
(***************************************************************************)
ConvertResult(d, tuple) ==
  LET entry(t) == tuple.mu[IF t.dir = "left" THEN t.o ELSE t.s]
      exit(t) == tuple.mu[IF t.dir = "left" THEN t.s ELSE t.o]
      step(i) == <<tuple.edges[i], exit(d.triples[i])>>
      upTo(r) == [j \in 1..(r[2] - r[1]) |-> r[1] + j]
      path(r) == IF r[1] = r[2] THEN <<>>
                 ELSE <<entry(d.triples[r[1] + 1])>> \o FlatMap(step, upTo(r))
      ranges == IF d.ranges = <<>> THEN << <<0, Len(d.triples)>> >> ELSE d.ranges
      named == {x \in DOMAIN tuple.mu : \A k \in 0..d.fresh : x # Fresh(k)}
      nodes == Unify(NoBinding, [x \in named |-> One(tuple.mu[x])])
      bindEdge(mu, i) == LET x == d.triples[i].d.var
                         IN  IF x = NoVar THEN mu ELSE Extend(mu, x, One(tuple.edges[i]))
  IN  [paths |-> Mapped(path, ranges),
       mu |-> FoldLeft(bindEdge, nodes, [i \in DOMAIN d.triples |-> i])]

TripleVars(d) ==
  LET of(t) == <<t.s, t.o, t.p>>
      all == FlatMap(of, d.triples)
      first(i) == \A j \in 1..(i - 1) : all[j] # all[i]
      at == SelectSeq([i \in DOMAIN all |-> i], first)
  IN  [k \in DOMAIN at |-> all[at[k]]]

\* A node that stands by itself in a join must be bound some other way.
Lost(d, start) == d.lone \ (Range(TripleVars(d)) \cup DOMAIN start)

Found(d, q, limit) ==
  LET converted(tuple) == ConvertResult(d, tuple)
      free == SelectSeq(TripleVars(d), LAMBDA x : x \notin DOMAIN q.start)
  IN  [ok |-> TRUE, rows |-> Truncated(Mapped(converted, Search(q, q.start, free)), limit)]

SearchFrom(d, fold, nodes, start, mirrored, limit, order) ==
  IF Lost(d, start) # {} THEN Declined
  ELSE Found(d, [triples |-> d.triples, start |-> start, order |-> order,
                 index |-> IndexOf(FALSE), mirrored |-> IF mirrored THEN IndexOf(TRUE) ELSE {},
                 filters |-> FiltersLeft(d.filters, fold.resolved, DOMAIN nodes)], limit)

\* Bindings from outside are taken after those an index found.
Folded(d, fold, mirrored, limit, pins, order) ==
  LET vars == Range(TripleVars(d)) \cup d.lone
      nodes == Unify([x \in DOMAIN pins \cap vars |-> pins[x]], fold.pins)
  IN  IF fold.empty THEN [ok |-> TRUE, rows |-> <<>>]
      ELSE SearchFrom(d, fold, nodes, Unify(nodes, PinnedLabels(d.triples)), mirrored, limit, order)

Decomposed(d, mirrored, limit, pins, order) ==
  IF d.ok THEN Folded(d, FoldIndexedConstants(d.filters), mirrored, limit, pins, order) ELSE Declined

TryLtj(p, limit, order) == Decomposed(Decompose(p), HasAnyDirection(p), limit, Unpinned, order)
\* The mirrored index is not asked for what is given from outside.
TryLtjWithPins(p, limit, pins, order) ==
  IF HasAnyDirection(p) THEN Declined ELSE Decomposed(Decompose(p), FALSE, limit, pins, order)
==============================================================================
