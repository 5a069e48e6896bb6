----------------------------- MODULE Typechecker -----------------------------
(***************************************************************************)
(* The static check of a query (typing/checker.rs): which variables it     *)
(* binds, to what, whether it is refused, and whether it is known to have  *)
(* no answer before it is run.                                             *)
(***************************************************************************)
EXTENDS Types, Rewrites

(***************************************************************************)
(* The schema of a graph as it is (infer_simple_schema,                    *)
(* typing/inference.rs), which is what the graph type DEFAULT stands for:  *)
(* a type for the nodes with the same labels, and one for the edges with   *)
(* the same labels, direction and labels of their ends.  Labels are listed *)
(* in one order, whatever order an element has them in.                    *)
(***************************************************************************)
LabelsToType(labels) == IF labels = {} THEN Star ELSE FromList(SetToSeq(labels))
LabelsOf(element) == Range(element.labels)

\* A property of some of the elements, and not of others, may be null.
PropertyTypes(group) ==
  LET carriers(k) == {element \in group : k \in DOMAIN element.props}
      seen(k) == UNION {TypeOfValue(element.props[k]) : element \in carriers(k)}
  IN  ClosedRecord([k \in UNION {DOMAIN element.props : element \in group} |->
                      seen(k) \cup (IF carriers(k) = group THEN {} ELSE {NullType})])
GroupOfNodes(labels) == {graph.nodes[n] : n \in {n \in Nodes : LabelsOf(graph.nodes[n]) = labels}}
NodeDescriptor(labels) == DescriptorType(LabelsToType(labels), PropertyTypes(GroupOfNodes(labels)))

EdgeKey(e) ==
  [labels |-> LabelsOf(graph.edges[e].is), kind |-> graph.edges[e].kind,
   src |-> LabelsOf(graph.nodes[Src(e)]), tgt |-> LabelsOf(graph.nodes[Tgt(e)])]
EdgeVariableType(key) ==
  LET group == {graph.edges[e].is : e \in {e \in DOMAIN graph.edges : EdgeKey(e) = key}}
  IN  EdgeType(key.kind, DescriptorType(LabelsToType(key.labels), PropertyTypes(group)),
               NodeDescriptor(key.src), NodeDescriptor(key.tgt))

InferSimpleSchema ==
  {NodeType(NodeDescriptor(LabelsOf(graph.nodes[n]))) : n \in Nodes}
    \cup {EdgeVariableType(EdgeKey(e)) : e \in DOMAIN graph.edges}

(***************************************************************************)
(* What a check yields.                                                    *)
(***************************************************************************)
Checked(path, env, ok) == [path |-> path, env |-> env, ok |-> ok]
Typed(type, ok) == [type |-> type, ok |-> ok]

(***************************************************************************)
(* Predicates.  An equation is defined when its sides have a type in       *)
(* common, or one of them is null.                                         *)
(***************************************************************************)
NullableBool(s, t) == {BoolType} \cup (IF HasNull(s) \/ HasNull(t) THEN {NullType} ELSE {})

EqConsistent(s, t) == {NullType} \in {s, t} \/ ~IsEmptyValue(MeetValues(s, t))
TypeOfEq(s, t) ==
  IF s # Zero /\ t # Zero /\ EqConsistent(s, t) THEN NullableBool(s, t) ELSE Zero
MayBeBool(t) == MeetValues(t, {BoolType, NullType}) # Zero
TypeOfConnective(s, t) == IF MayBeBool(s) \/ MayBeBool(t) THEN NullableBool(s, t) ELSE Zero

CheckAttr(env, x, attr) ==
  IF x \in DOMAIN env THEN Typed(GetAttribute(env[x], attr), TRUE) ELSE Typed(Zero, FALSE)

RECURSIVE CheckExpr(_, _)
CheckExpr(expr, env) ==
  CASE expr.op = "is" ->
         LET attr == CheckAttr(env, expr.var, expr.attr)
         IN  Typed(TypeOfEq(attr.type, TypeOfConst(expr.value)), attr.ok)
    [] expr.op = "same" ->
         LET left == CheckAttr(env, expr.var, expr.attr)
             right == CheckAttr(env, expr.with, expr.attr)
         IN  Typed(TypeOfEq(left.type, right.type), left.ok /\ right.ok)
    [] expr.op = "has" -> Typed({BoolType}, CheckAttr(env, expr.var, expr.attr).ok)
    [] expr.op \in {"and", "or"} ->
         LET left == CheckExpr(expr.left, env)
             right == CheckExpr(expr.right, env)
         IN  Typed(TypeOfConnective(left.type, right.type), left.ok /\ right.ok)

(***************************************************************************)
(* Elements: the descriptor as it is written, refined by the schema.       *)
(***************************************************************************)
TypeOfDescriptor(d) ==
  DescriptorType(d.label, OpenRecord([attr \in DOMAIN d.has |-> {Base(kind) : kind \in d.has[attr]}]))
CreateContext(d, t) == [x \in {d.var} \ {NoVar} |-> t]

StarEdge(kind, d) == EdgeType(kind, TypeOfDescriptor(d), StarType, StarType)
KindsOf(dir) ==
  CASE dir = "undirected" -> {"undirected"}
    [] dir \in {"left", "right"} -> {"directed"}
    [] dir = "any" -> {"directed", "undirected"}
RefineNode(schema, d) == Refine(schema, {NodeType(TypeOfDescriptor(d))})
RefineEdge(schema, dir, d) == Refine(schema, {StarEdge(kind, d) : kind \in KindsOf(dir)})

(***************************************************************************)
(* Repetitions.  Whether one can match at all is read off no more than two *)
(* laps; where it starts and ends off the body.                            *)
(***************************************************************************)
PowPathType(schema, path, n) ==
  CASE n = 0 -> AnyPath
    [] n = 1 -> path
    [] n = 2 -> MeetPaths(schema, path, path)
AtMostTwo(n) == IF n > 2 THEN 2 ELSE n
RepGate(schema, path, lb, ub) ==
  LET hi == IF ub = Unbounded THEN 2 ELSE AtMostTwo(ub)
  IN  UNION {PowPathType(schema, path, n) :
               n \in {AtMostTwo(lb)} \cup AtMostTwo(lb) .. hi}
RepEndpoints(schema, path, lb, ub) ==
  IF ub = 0 \/ IsUnsatisfiable(RepGate(schema, path, lb, ub)) THEN {}
  ELSE ConsPath(FromVariable(FirstNodes(path), "any"), LastNodes(path))
\* Mutant: no laps are no path.
RepPathTypeLapped(schema, path, lb, ub) == RepEndpoints(schema, path, lb, ub)
RepPathType(schema, path, lb, ub) ==
  (IF lb = 0 THEN AnyPath ELSE {}) \cup RepEndpoints(schema, path, lb, ub)

RECURSIVE MinLen(_)
MinLen(p) ==
  CASE p.op \in {"node", "questioned"} -> 0
    [] p.op = "edge" -> 1
    [] p.op = "concat" -> MinLen(p.left) + MinLen(p.right)
    [] p.op \in {"union", "join"} ->
         IF MinLen(p.left) < MinLen(p.right) THEN MinLen(p.left) ELSE MinLen(p.right)
    [] p.op = "repeat" -> p.lb * MinLen(p.inner)
    [] OTHER -> MinLen(p.inner)

CheckRepetition(schema, p, r, lb, ub) ==
  Checked(RepPathType(schema, r.path, lb, ub), ToGroups(r.env, lb),
          r.ok /\ (lb > 0 \/ ub = Unbounded => MinLen(p) > 0))

(***************************************************************************)
(* Patterns.  ambient is what the clauses before an optional one bind,     *)
(* which its predicates may refer to.                                      *)
(***************************************************************************)
Contexts(schema, r, s, path) ==
  Checked(path, MeetEnvs(schema, r.env, s.env), r.ok /\ s.ok /\ ~Irreconcilable(r.env, s.env))

CheckFilter(r, expr, ambient) ==
  LET within == [x \in DOMAIN ambient \cup DOMAIN r.env |->
                   IF x \in DOMAIN r.env THEN r.env[x] ELSE ambient[x]]
      t == CheckExpr(expr, within)
      never == IsEmptyValue(MeetValues(t.type, {BoolType}))
  IN  Checked(IF never THEN {} ELSE r.path, r.env, r.ok /\ t.ok)

RECURSIVE CheckPathPattern(_, _, _)
CheckPathPattern(schema, p, ambient) ==
  LET check(q) == CheckPathPattern(schema, q, ambient)
  IN  CASE p.op = "node" ->
             LET t == RefineNode(schema, p.d)
             IN  Checked(FromVariable(t, "any"), CreateContext(p.d, t), TRUE)
        [] p.op = "edge" ->
             LET t == RefineEdge(schema, p.dir, p.d)
             IN  Checked(FromVariable(t, p.dir), CreateContext(p.d, t), TRUE)
        [] p.op \in {"concat", "join"} ->
             LET r == check(p.left)
                 s == check(p.right)
             IN  Contexts(schema, r, s,
                          CASE p.op = "concat" -> MeetPaths(schema, r.path, s.path)
                            [] p.op = "join" -> IF IsUnsatisfiable(s.path) THEN {} ELSE r.path)
        [] p.op = "union" ->
             LET r == check(p.left)
                 s == check(p.right)
             IN  Checked(r.path \cup s.path, JoinEnvs(r.env, s.env), r.ok /\ s.ok)
        [] p.op = "filter" -> CheckFilter(check(p.inner), p.expr, ambient)
        [] p.op = "selected" -> check(p.inner)
        [] p.op = "named" ->
             LET r == check(p.inner)
             IN  [r EXCEPT !.env = [x \in {p.var} |-> {PathVariable}] @@ @]
        [] p.op \in {"repeat", "questioned"} ->
             CheckRepetition(schema, p.inner, check(p.inner),
                             IF p.op = "repeat" THEN p.lb ELSE 0, IF p.op = "repeat" THEN p.ub ELSE 1)

(***************************************************************************)
(* A repetition without an upper bound needs a prefix that makes it finite *)
(* and a selection shares no more than its ends with the rest of a query.  *)
(***************************************************************************)
UnboundedSupport(prefix) ==
  IF prefix.mode # "walk" THEN "mode"
  ELSE IF prefix.search \in {"paths", "groups"} THEN "shortest" ELSE "none"
ValidateUnbounded(lb, support) == support = "mode" \/ (support = "shortest" /\ lb <= 1)

RECURSIVE CheckUnboundedIn(_, _)
CheckUnboundedIn(p, support) ==
  CASE p.op \in {"node", "edge"} -> TRUE
    [] p.op \in {"concat", "union", "join"} ->
         CheckUnboundedIn(p.left, support) /\ CheckUnboundedIn(p.right, support)
    [] p.op = "selected" -> CheckUnboundedIn(p.inner, UnboundedSupport(p.prefix))
    [] p.op = "repeat" ->
         /\ p.ub = Unbounded => ValidateUnbounded(p.lb, support)
         /\ CheckUnboundedIn(p.inner, support)
    [] OTHER -> CheckUnboundedIn(p.inner, support)

RECURSIVE VarOccurrences(_)
VarOccurrences(p) ==
  CASE p.op \in {"node", "edge"} -> IF p.d.var = NoVar THEN <<>> ELSE <<p.d.var>>
    [] p.op \in {"concat", "union", "join"} -> VarOccurrences(p.left) \o VarOccurrences(p.right)
    [] OTHER -> VarOccurrences(p.inner)
Count(vars, x) == Len(SelectSeq(vars, LAMBDA y : y = x))

RECURSIVE CollectSelected(_)
CollectSelected(p) ==
  CASE p.op \in {"node", "edge"} -> {}
    [] p.op \in {"concat", "union", "join"} -> CollectSelected(p.left) \cup CollectSelected(p.right)
    [] p.op = "selected" -> {p} \cup CollectSelected(p.inner)
    [] OTHER -> CollectSelected(p.inner)

CheckSelectiveIsolation(q) ==
  LET all == FoldLeft(LAMBDA vars, m : vars \o VarOccurrences(m.pattern), <<>>, q)
      selective(p) == {s \in CollectSelected(p) : s.prefix.search # "all"}
      interior(s) == FreeVars(s.inner) \ FirstAndLast(TopNodeVars(s.inner, {"filter", "named"}))
  IN  \A i \in DOMAIN q : \A s \in selective(q[i].pattern) : \A x \in interior(s) :
        Count(all, x) = Count(VarOccurrences(s.inner), x)

(***************************************************************************)
(* A query with an optional clause is checked clause by clause, and only   *)
(* the path of the first one tells that there is no answer.                *)
(***************************************************************************)
CheckClause(schema, acc, r, optional) ==
  IF optional THEN Checked(acc.path, OuterJoin(schema, acc.env, r.env), acc.ok /\ r.ok)
  ELSE Contexts(schema, acc, r, acc.path)
CheckMatchChain(schema, q) ==
  LET check(acc, m) == CheckPathPattern(schema, m.pattern, IF m.optional THEN acc.env ELSE NoTypes)
      after(acc, r, i) ==
        CheckClause(schema, IF i = 1 THEN [acc EXCEPT !.path = r.path] ELSE acc, r, q[i].optional)
  IN  FoldLeftDomain(LAMBDA acc, i : after(acc, check(acc, q[i]), i), Checked({}, NoTypes, TRUE), q)

HasAnyOptional(q) == \E i \in DOMAIN q : q[i].optional
Verdict(r, isolated) ==
  [env |-> r.env, empty |-> IsUnsatisfiable(r.path) \/ IsEmptyEnv(r.env), ok |-> r.ok /\ isolated]
CheckQuery(schema, q) ==
  Verdict(CheckMatchChain(schema, IF HasAnyOptional(q) THEN q ELSE <<Clause(Collapsed(q))>>),
          /\ CheckSelectiveIsolation(q)
          /\ \A i \in DOMAIN q : CheckUnboundedIn(q[i].pattern, "none"))
==============================================================================
