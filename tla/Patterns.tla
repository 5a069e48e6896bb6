------------------------------ MODULE Patterns ------------------------------
(***************************************************************************)
(* Evaluation of a pattern (run_path_pattern and what it calls,            *)
(* runtime/engine.rs), by every route the engine has for it.               *)
(*                                                                         *)
(* The general route evaluates the parts of a pattern over the whole graph *)
(* and joins them.  Beside it the engine steps along adjacency from the    *)
(* rows on the left, grows a repetition level by level from them, starts   *)
(* the search of an unbounded one from the nodes they end on, and answers  *)
(* SHORTEST over a repeated edge by breadth-first search.  `c` says which  *)
(* routes are switched on, and carries what the engine keeps in cells:     *)
(* the policy of the nearest prefix, the nodes variables are pinned to and *)
(* the row of an outer clause that predicates may look in.                 *)
(* Limit 0 means no limit.                                                 *)
(***************************************************************************)
EXTENDS LeapfrogJoin

Routes == {"ltj", "seeded", "bfs", "pins", "row by row"}
Forbidden == [kind |-> "forbidden"]
Context(routes, pins, order) ==
  [routes |-> routes, pins |-> pins, order |-> order, policy |-> Forbidden, scope |-> NoBinding]
Rest(limit, rows) == IF limit > Len(rows) THEN limit - Len(rows) ELSE 0

(***************************************************************************)
(* Candidates.  An index or a label only narrows what is then filtered.    *)
(***************************************************************************)
SmallestLabelSet(label, all, element(_)) ==
  LET with(l) == {x \in all : HasLabel(element(x), l)}
      least(l) == \A k \in RequiredLabels(label) : Cardinality(with(l)) <= Cardinality(with(k))
  IN  IF RequiredLabels(label) = {} THEN all
      ELSE with(CHOOSE l \in RequiredLabels(label) : least(l))

\* Pairs of an indexed label and a property the descriptor pins to a value.
IndexHits(d) ==
  {h \in RequiredLabels(d.label) \X d.is : <<h[1], h[2][1]>> \in graph.indexed}
CandidateNodes(d, c) ==
  CASE d.var \in DOMAIN c.pins -> c.pins[d.var]
    [] d.var \notin DOMAIN c.pins /\ IndexHits(d) # {} ->
         LET h == CHOOSE h \in IndexHits(d) : TRUE IN LookupEq(h[1], h[2][1], h[2][2])
    [] OTHER -> LET at(n) == graph.nodes[n] IN SmallestLabelSet(d.label, Nodes, at)

CandidateEdges(kind, d) ==
  LET at(e) == graph.edges[e].is IN SmallestLabelSet(d.label, EdgesOfKind(kind), at)

RunNode(d, limit, c) ==
  LET row(n) == Row(<<n>>, FromOptional(d.var, One(n)))
      found == Ascending({n \in CandidateNodes(d, c) : FilterNode(n, d)})
  IN  Truncated([i \in DOMAIN found |-> row(found[i])], limit)

EdgeRows(dir, directed, undirected, d) ==
  LET forward(e) == Row(<<Src(e), e, Tgt(e)>>, FromOptional(d.var, One(e)))
      backward(e) == Row(<<Tgt(e), e, Src(e)>>, FromOptional(d.var, One(e)))
      both(e) == <<forward(e), backward(e)>>
  IN  (IF dir \in {"right", "any"} THEN Mapped(forward, directed) ELSE <<>>)
        \o (IF dir \in {"left", "any"} THEN Mapped(backward, directed) ELSE <<>>)
        \o (IF dir \in {"undirected", "any"} THEN FlatMap(both, undirected) ELSE <<>>)
RunEdge(dir, d) ==
  LET edges(kind) == Ascending({e \in CandidateEdges(kind, d) : FilterEdge(e, d)})
  IN  EdgeRows(dir, edges("directed"), edges("undirected"), d)

(***************************************************************************)
(* One step along adjacency, from the node a row ends on.                  *)
(***************************************************************************)
OtherEnd(e, n) == IF Src(e) = n THEN Tgt(e) ELSE Src(e)
Adjacent(n, dir) ==
  CASE dir = "right" -> OutgoingEdges(n)
    [] dir = "left" -> IncomingEdges(n)
    [] dir = "undirected" -> UndirectedEdgesOf(n)

Stepped(row, n, e, d) ==
  ExtendPath(row, <<n, e, OtherEnd(e, n)>>, Unify(row.mu, FromOptional(d.var, One(e))))
ConcatOneWay(rows, dir, d) ==
  LET step(row) ==
        LET fits(e) == FilterEdge(e, d) /\ CanUnify(row.mu, FromOptional(d.var, One(e)))
            next(e) == Stepped(row, EndOf(row), e, d)
        IN  Mapped(next, SelectSeq(Adjacent(EndOf(row), dir), fits))
  IN  FlatMap(step, rows)

\* run_edge_step, and the edge arms of run_concat_pattern.
ConcatWithEdge(rows, dir, d) ==
  LET oneWay(way) == ConcatOneWay(rows, way, d)
  IN  FlatMap(oneWay, IF dir = "any" THEN <<"right", "left", "undirected">> ELSE <<dir>>)

ConcatWithNode(rows, d) ==
  LET mu(row) == FromOptional(d.var, One(EndOf(row)))
      fits(row) == FilterNode(EndOf(row), d) /\ CanUnify(row.mu, mu(row))
      kept == SelectSeq(rows, fits)
  IN  [i \in DOMAIN kept |-> Bind(kept[i], Unify(kept[i].mu, mu(kept[i])))]

ApplyFilter(rows, expr, c) ==
  LET holds(row) == Holds(expr, Unify(c.scope, row.mu)) IN SelectSeq(rows, holds)

\* Rows on the right that start where the row on the left ends.
HashJoin(rows, others) ==
  LET meet(row) ==
        LET fits(other) == StartOf(other) = EndOf(row) /\ CanUnify(row.mu, other.mu)
            found == SelectSeq(others, fits)
        IN  [i \in DOMAIN found |-> ExtendPath(row, PathOf(found[i]), Unify(row.mu, found[i].mu))]
  IN  FlatMap(meet, rows)

(***************************************************************************)
(* Laps of a repetition, from the rows of one lap (`grouped`).             *)
(***************************************************************************)
NoLap(p) ==
  LET ns == Ascending(Nodes)
  IN  [i \in DOMAIN ns |-> Row(<<ns[i]>>, FillEmptyList(NoBinding, FreeVars(p)))]

StartsIn(rows, seeds) == LET starts(row) == StartOf(row) \in seeds IN SelectSeq(rows, starts)

Continuations(row, grouped) ==
  LET follows(lap) == StartOf(lap) = EndOf(row)
      laps == SelectSeq(grouped, follows)
  IN  [i \in DOMAIN laps |-> ConcatRows(row, laps[i])]

\* Levels 1..ub: level k continues every row of level k - 1.
Levels(grouped, ub) ==
  LET level[k \in 1..ub] ==
        IF k = 1 THEN grouped
        ELSE LET next(row) == Continuations(row, grouped) IN FlatMap(next, level[k - 1])
  IN  level

\* Mutant: the levels below the lower bound are kept.
RepetitionRangeUndrained(p, grouped, lb, ub) ==
  (IF lb = 0 THEN NoLap(p) ELSE <<>>) \o FlattenSeq(Levels(grouped, ub))
RepetitionRange(p, grouped, lb, ub) ==
  LET first == IF lb < 1 THEN 1 ELSE lb
  IN  (IF lb = 0 THEN NoLap(p) ELSE <<>>)
        \o FlattenSeq(SubSeq(Levels(grouped, ub), first, ub))

(***************************************************************************)
(* try_concat_with_edge_repetition: each level is one step from the rows   *)
(* of the level before, the first from the rows on the left; the edge      *)
(* variable gathers the group of the edges passed.                         *)
(***************************************************************************)
SeededRepetitionApplies(rows, p, ub) ==
  /\ ub # Unbounded
  /\ p.op = "edge"
  /\ \A i \in DOMAIN rows : p.d.var \notin DOMAIN rows[i].mu

Grown(row, x) ==
  LET es == EdgesOf(PathOf(row))
      before == IF x \in DOMAIN row.mu THEN row.mu[x].of ELSE <<>>
  IN  IF x = NoVar THEN row
      ELSE Bind(row, Extend(row.mu, x, GroupOf(Append(before, One(es[Len(es)])))))
GrownLevel(rows, p) ==
  LET grown(row) == Grown(row, p.d.var)
  IN  Mapped(grown, ConcatWithEdge(rows, p.dir, [p.d EXCEPT !.var = NoVar]))
LevelsFrom(rows, p, ub) ==
  LET level[k \in 0..ub] == IF k = 0 THEN rows ELSE GrownLevel(level[k - 1], p) IN level

SeededRepetition(rows, p, lb, ub) ==
  LET none(row) == Bind(row, FillEmptyList(row.mu, FreeVars(p)))
      first == IF lb = 0 THEN 1 ELSE lb
      above(level) == [k \in 1..(IF ub < first THEN 0 ELSE ub - first + 1) |-> level[first + k - 1]]
  IN  (IF lb = 0 THEN Mapped(none, rows) ELSE <<>>) \o FlattenSeq(above(LevelsFrom(rows, p, ub)))

(***************************************************************************)
(* run_repetition_shortest.  The heap gives up the shortest path first, of *)
(* equal ones the one pushed first; a pair of ends admits `count` paths,   *)
(* or paths of `count` lengths, and what it does not admit is not extended.*)
(***************************************************************************)
\* Mutant: a pair of ends admits one path too few.
AdmitsOneLess(policy, taken, len) ==
  IF policy.groups THEN len \in taken.lens \/ Cardinality(taken.lens) + 1 < policy.count
  ELSE taken.paths + 1 < policy.count
Admits(policy, taken, len) ==
  IF policy.groups THEN len \in taken.lens \/ Cardinality(taken.lens) < policy.count
  ELSE taken.paths < policy.count

NoneTaken == [paths |-> 0, lens |-> {}]
Take(taken, len) == [paths |-> taken.paths + 1, lens |-> taken.lens \cup {len}]

RECURSIVE ShortestFrom(_, _, _, _, _, _)
ShortestFrom(heap, taken, found, lb, grouped, policy) ==
  IF heap = <<>> THEN found
  ELSE LET len(i) == PathLength(PathOf(heap[i].row))
           top == CHOOSE i \in DOMAIN heap :
                    \A j \in DOMAIN heap : len(i) < len(j) \/ (len(i) = len(j) /\ i <= j)
           row == heap[top].row
           ends == <<StartOf(row), EndOf(row)>>
           rest == RemoveAt(heap, top)
           laps == Continuations(row, grouped)
       IN  IF ~Admits(policy, taken[ends], len(top))
           THEN ShortestFrom(rest, taken, found, lb, grouped, policy)
           ELSE ShortestFrom(
                  rest \o [i \in DOMAIN laps |-> [row |-> laps[i], reps |-> heap[top].reps + 1]],
                  [taken EXCEPT ![ends] = Take(@, len(top))],
                  IF heap[top].reps >= lb THEN Append(found, row) ELSE found,
                  lb, grouped, policy)

\* The path of no lap takes the first place of a pair of equal ends.
RepetitionShortest(p, grouped, lb, policy, seeds) ==
  LET none == IF lb = 0 THEN StartsIn(NoLap(p), seeds) ELSE <<>>
      start == StartsIn(grouped, seeds)
      taken == [ends \in Nodes \X Nodes |->
                  IF lb = 0 /\ ends[1] = ends[2] THEN Take(NoneTaken, 0) ELSE NoneTaken]
  IN  ShortestFrom([i \in DOMAIN start |-> [row |-> start[i], reps |-> 1]],
                   taken, none, lb, grouped, policy)

(***************************************************************************)
(* run_repetition_unbounded_mode: what breaks the mode is not extended.    *)
(***************************************************************************)
KeepsMode(row, lap, mode) == SatisfiesMode(PathOf(ConcatRows(row, lap)), mode)

RECURSIVE ModeFrom(_, _, _, _, _)
ModeFrom(work, found, lb, grouped, mode) ==
  IF work = <<>> THEN found
  ELSE LET last == work[Len(work)]
           follows(lap) == StartOf(lap) = EndOf(last.row) /\ KeepsMode(last.row, lap, mode)
           laps == SelectSeq(grouped, follows)
           next == [i \in DOMAIN laps |->
                      [row |-> ConcatRows(last.row, laps[i]), reps |-> last.reps + 1]]
       IN  ModeFrom(Front(work) \o next,
                    IF last.reps + 1 >= lb
                    THEN found \o [i \in DOMAIN next |-> next[i].row] ELSE found,
                    lb, grouped, mode)

RepetitionMode(p, grouped, lb, mode, seeds) ==
  LET none == IF lb = 0 THEN StartsIn(NoLap(p), seeds) ELSE <<>>
      fits(row) == SatisfiesMode(PathOf(row), mode)
      start == SelectSeq(StartsIn(grouped, seeds), fits)
  IN  ModeFrom([i \in DOMAIN start |-> [row |-> start[i], reps |-> 1]],
               none \o (IF lb <= 1 THEN start ELSE <<>>), lb, grouped, mode)

UnboundedRepetition(p, grouped, lb, policy, seeds) ==
  IF policy.kind = "shortest" THEN RepetitionShortest(p, grouped, lb, policy, seeds)
  ELSE RepetitionMode(p, grouped, lb, policy.mode, seeds)

(***************************************************************************)
(* try_shortest_bfs: SHORTEST 1 over one repeated edge between two nodes.  *)
(***************************************************************************)
RECURSIVE NodeEndpoint(_)
NodeEndpoint(p) == p.op = "node" \/ (p.op = "filter" /\ NodeEndpoint(p.inner))
RECURSIVE EndpointDescriptor(_)
EndpointDescriptor(p) == IF p.op = "node" THEN p.d ELSE EndpointDescriptor(p.inner)

IsUnconstrained(p) ==
  LET d == EndpointDescriptor(p) IN d.label = Star /\ d.has = Untyped /\ d.is = {}
IsUniversal(p, c) == IsUnconstrained(p) /\ EndpointDescriptor(p).var \notin DOMAIN c.pins

IsShortestEdge(prefix, p) ==
  /\ prefix.mode = "walk" /\ prefix.search \in {"paths", "groups"} /\ prefix.count = 1
  /\ p.op = "concat" /\ p.left.op = "concat" /\ p.left.right.op = "repeat"
  /\ p.left.right.lb <= 1
  /\ LET e == p.left.right.inner IN e.op = "edge" /\ e.dir # "any" /\ e.d.var = NoVar
  /\ NodeEndpoint(p.left.left) /\ NodeEndpoint(p.right)

Reversed(dir) == CASE dir = "right" -> "left" [] dir = "left" -> "right" [] OTHER -> dir
BfsNeighbours(n, dir, d) ==
  LET fits(e) == FilterEdge(e, d)
      step(e) == [from |-> n, edge |-> e, to |-> OtherEnd(e, n)]
  IN  Mapped(step, SelectSeq(Adjacent(n, dir), fits))

\* Nodes reached for the first time, with every way into them, or with the first.
WithSteps(preds, steps, groups) ==
  LET into(n) == SelectSeq(steps, LAMBDA s : s.to = n)
      ways(n) == IF groups THEN into(n) ELSE <<into(n)[1]>>
  IN  [n \in {steps[i].to : i \in DOMAIN steps} |-> ways(n)] @@ preds

\* Level by level.
RECURSIVE BfsLevels(_, _, _, _, _)
BfsNextLevel(preds, steps, level, wanted, e) ==
  BfsLevels(WithSteps(preds, steps, e.groups),
            Ascending({steps[i].to : i \in DOMAIN steps}), level + 1, wanted, e)
BfsLevels(preds, frontier, level, wanted, e) ==
  IF frontier = <<>> \/ (e.ub # Unbounded /\ level >= e.ub)
     \/ (level > 0 /\ wanted \subseteq DOMAIN preds)
  THEN preds
  ELSE LET near(n) == BfsNeighbours(n, e.dir, e.d)
           fresh(s) == s.to \notin DOMAIN preds
       IN  BfsNextLevel(preds, SelectSeq(FlatMap(near, frontier), fresh), level, wanted, e)

RECURSIVE BfsPathsTo(_, _, _)
BfsPathsTo(n, source, preds) ==
  IF n = source THEN << <<source>> >>
  ELSE LET through(s) ==
             LET to == BfsPathsTo(s.from, source, preds)
             IN  [i \in DOMAIN to |-> to[i] \o <<s.edge, n>>]
       IN  FlatMap(through, preds[n])

\* emit_undirected_self_cycles: the shortest closed walk is a self-loop, or an edge and back.
Rounds(n, loops, spokes, e) ==
  LET admits(len) == e.ub = Unbounded \/ len <= e.ub
      round(s) == <<n, s.edge, n>>
      andBack(s) == <<n, s.edge, s.to, s.edge, n>>
      all == IF loops # <<>> /\ admits(1) THEN Mapped(round, loops)
             ELSE IF admits(2) THEN Mapped(andBack, spokes) ELSE <<>>
  IN  IF e.groups THEN all ELSE Truncated(all, 1)
CyclesAlong(n, steps, e) ==
  Rounds(n, SelectSeq(steps, LAMBDA s : s.to = n), SelectSeq(steps, LAMBDA s : s.to # n), e)
SelfCycles(n, e) == CyclesAlong(n, BfsNeighbours(n, "undirected", e.d), e)

(***************************************************************************)
(* The whole.                                                              *)
(***************************************************************************)
RECURSIVE Run(_, _, _)

\* The nodes an endpoint admits; of several rows for one node the first is kept.
EndpointNodes(p, c) ==
  IF IsUniversal(p, c) THEN Nodes
  ELSE LET rows == Run(p, 0, c) IN {EndOf(rows[i]) : i \in DOMAIN rows}
EndpointMu(p, n) == FromOptional(EndpointDescriptor(p).var, One(n))

BfsApplies(p, prefix, c) ==
  /\ "bfs" \in c.routes
  /\ IsShortestEdge(prefix, p)
  /\ ~(IsUniversal(p.left.left, c) /\ IsUniversal(p.right, c))
  /\ \/ p.left.right.lb = 0
     \/ p.left.right.inner.dir = "undirected"
     \/ EndpointNodes(p.left.left, c) \cap EndpointNodes(p.right, c) = {}

\* The paths to the others in what a search from s reached.
BfsReached(s, preds, other, back) ==
  LET to(n) == BfsPathsTo(n, s, preds)
      turned(path) == IF back THEN Reverse(path) ELSE path
  IN  Mapped(turned, FlatMap(to, Ascending((DOMAIN preds \cap other) \ {s})))

\* left and right are the ends of the pattern: their nodes and whether these are all.
BfsEnd(p, c) == [open |-> IsUniversal(p, c), nodes |-> EndpointNodes(p, c)]
FromLeft(left, right) ==
  ~left.open /\ (right.open \/ Cardinality(left.nodes) <= Cardinality(right.nodes))
BfsFrom(from, to, lb, back, e) ==
  LET wanted(s) == (IF to.open THEN Nodes ELSE to.nodes) \ {s}
      reach(s) == BfsReached(s, BfsLevels([n \in {s} |-> <<>>], <<s>>, 0, wanted(s), e), to.nodes, back)
      self(n) == IF lb = 0 THEN << <<n>> >> ELSE SelfCycles(n, e)
  IN  FlatMap(self, Ascending(from.nodes \cap to.nodes)) \o FlatMap(reach, Ascending(from.nodes))

BfsRows(paths, p) ==
  LET mu(path) == Unify(EndpointMu(p.left.left, path[1]), EndpointMu(p.right, path[Len(path)]))
      meets(path) == CanUnify(EndpointMu(p.left.left, path[1]), EndpointMu(p.right, path[Len(path)]))
      row(path) == Row(path, mu(path))
  IN  Mapped(row, SelectSeq(paths, meets))

BfsBetween(left, right, r, fromLeft, groups) ==
  BfsFrom(IF fromLeft THEN left ELSE right, IF fromLeft THEN right ELSE left, r.lb, ~fromLeft,
          [dir |-> IF fromLeft THEN r.inner.dir ELSE Reversed(r.inner.dir),
           d |-> r.inner.d, ub |-> r.ub, groups |-> groups])
BfsPaths(left, right, r, groups) == BfsBetween(left, right, r, FromLeft(left, right), groups)
ShortestBfs(p, prefix, c) ==
  BfsRows(BfsPaths(BfsEnd(p.left.left, c), BfsEnd(p.right, c), p.left.right, prefix.search = "groups"), p)

RunRepeat(p, limit, c) ==
  LET grouped == GroupedRows(Run(p.inner, 0, c))
  IN  CASE p.ub # Unbounded /\ p.lb > p.ub -> <<>>
        [] p.ub # Unbounded /\ p.lb <= p.ub ->
             Truncated(RepetitionRange(p.inner, grouped, p.lb, p.ub), limit)
        [] p.ub = Unbounded ->
             Truncated(UnboundedRepetition(p.inner, grouped, p.lb, c.policy, Nodes), limit)

\* Mutant: the search of an unbounded repetition starts where the rows on the left start.
SeedsAtStart(rows) == {StartOf(rows[i]) : i \in DOMAIN rows}
Seeds(rows) == {EndOf(rows[i]) : i \in DOMAIN rows}

\* The right operand of a concatenation, evaluated by itself and joined.
JoinedAfter(rows, p, c) == HashJoin(rows, Run(p, 0, c))

ConcatAfter(rows, p, c) ==
  CASE p.op = "edge" -> ConcatWithEdge(rows, p.dir, p.d)
    [] p.op = "node" -> ConcatWithNode(rows, p.d)
    [] p.op = "filter" ->
         IF p.inner.op = "edge"
         THEN ApplyFilter(ConcatWithEdge(rows, p.inner.dir, p.inner.d), p.expr, c)
         ELSE JoinedAfter(rows, p, c)
    [] p.op = "repeat" /\ "seeded" \in c.routes ->
         CASE SeededRepetitionApplies(rows, p.inner, p.ub) ->
                SeededRepetition(rows, p.inner, p.lb, p.ub)
           [] p.ub = Unbounded /\ c.policy # Forbidden ->
                HashJoin(rows, UnboundedRepetition(p.inner, GroupedRows(Run(p.inner, 0, c)),
                                                   p.lb, c.policy, Seeds(rows)))
           [] OTHER -> JoinedAfter(rows, p, c)
    [] OTHER -> JoinedAfter(rows, p, c)

\* Q1, Q2: rows are looked up by one variable both bind, the first the hash set gives.
RunJoin(p, c) ==
  LET shared == SelectSeq(c.order, LAMBDA x : x \in FreeVars(p.left) \cap FreeVars(p.right))
      left == Run(p.left, 0, c)
      right == Run(p.right, 0, c)
      bound(row) == shared = <<>> \/ shared[1] \in DOMAIN row.mu
      meet(row) ==
        LET fits(other) == bound(row) /\ bound(other) /\ CanUnify(row.mu, other.mu)
            found == SelectSeq(right, fits)
        IN  [i \in DOMAIN found |->
               [paths |-> row.paths \o found[i].paths, mu |-> Unify(row.mu, found[i].mu)]]
  IN  FlatMap(meet, left)

\* A chain or a join of chains is tried as a triejoin first.
Leapfrogged(p, limit, c) ==
  IF "ltj" \in c.routes THEN TryLtj(p, limit, c.order) ELSE Declined
RunByParts(p, limit, ltj, c) ==
  CASE ltj.ok -> ltj.rows
    [] ~ltj.ok /\ p.op = "concat" -> Truncated(ConcatAfter(Run(p.left, 0, c), p.right, c), limit)
    [] ~ltj.ok /\ p.op = "join" -> Truncated(RunJoin(p, c), limit)

\* The second of two parts gets what the first leaves of the limit.
ThenRun(rows, p, limit, c) == rows \o Run(p, Rest(limit, rows), c)

Run(p, limit, c) ==
  CASE p.op = "node" -> RunNode(p.d, limit, c)
    [] p.op = "edge" -> RunEdge(p.dir, p.d)
    [] p.op \in {"concat", "join"} -> RunByParts(p, limit, Leapfrogged(p, limit, c), c)
    [] p.op = "union" ->
         LET filled(row) == Bind(row, FillNones(row.mu, FreeVars(p)))
         IN  Truncated(Mapped(filled, ThenRun(Run(p.left, limit, c), p.right, limit, c)), limit)
    [] p.op = "filter" -> Truncated(ApplyFilter(Run(p.inner, 0, c), p.expr, c), limit)
    [] p.op = "repeat" -> RunRepeat(p, limit, c)
    [] p.op = "questioned" ->
         ThenRun(Run(AnyNode, limit, c), p.inner, limit, c)
    [] p.op = "selected" ->
         IF BfsApplies(p.inner, p.prefix, c) THEN Truncated(ShortestBfs(p.inner, p.prefix, c), limit)
         ELSE Truncated(ApplyPathPrefix(
                Run(p.inner, 0, [c EXCEPT !.policy = UnboundedPolicy(p.prefix)]), p.prefix), limit)
    [] p.op = "named" ->
         LET named(row) == Bind(row, Extend(row.mu, p.var, WholePath(PathOf(row))))
         IN  Mapped(named, Run(p.inner, limit, c))
==============================================================================
