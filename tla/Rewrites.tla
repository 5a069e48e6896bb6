------------------------------ MODULE Rewrites ------------------------------
(***************************************************************************)
(* What happens to a pattern before it is evaluated: predicates written in *)
(* descriptors become filters, filters move to where what they refer to is *)
(* bound (elaborate), comparisons with constants move into descriptors and *)
(* short repetitions become unions (optimizer).                            *)
(***************************************************************************)
EXTENDS PatternGraph

(***************************************************************************)
(* A clause as it is written.  Valued is an element with properties in its *)
(* braces, each a constant or an expression.                               *)
(***************************************************************************)
Valued(p, equals) == [op |-> "valued", inner |-> p, equals |-> equals]
Clause(p) == [optional |-> FALSE, pattern |-> p]
OptionalClause(p) == [optional |-> TRUE, pattern |-> p]

RECURSIVE Conjuncts(_)
Conjuncts(expr) ==
  IF expr.op = "and" THEN Conjuncts(expr.left) \o Conjuncts(expr.right) ELSE <<expr>>
RECURSIVE RebuildAnd(_)
RebuildAnd(exprs) ==
  IF Len(exprs) = 1 THEN exprs[1] ELSE And(exprs[1], RebuildAnd(Tail(exprs)))
FilterAll(p, exprs) == FoldLeft(LAMBDA q, expr : Filter(q, expr), p, exprs)

RECURSIVE ReferencedVars(_)
ReferencedVars(expr) ==
  CASE expr.op \in {"and", "or"} -> ReferencedVars(expr.left) \cup ReferencedVars(expr.right)
    [] expr.op = "same" -> {expr.var, expr.with}
    [] OTHER -> {expr.var}

\* The rewriting f of the parts of a pattern that is not rewritten itself.
Inside(p, f(_)) ==
  CASE p.op \in {"node", "edge"} -> p
    [] p.op \in {"concat", "union", "join"} -> [p EXCEPT !.left = f(@), !.right = f(@)]
    [] OTHER -> [p EXCEPT !.inner = f(@)]

\* The kinds of value a test names, or an equation with a constant tells (literal_property_type).
ValueKinds(expr) ==
  CASE expr.op = "has" -> expr.kinds
    [] expr.op = "is" /\ expr.value.kind \in Numeric -> Numeric
    [] expr.op = "is" /\ expr.value.kind \in {"text", "bool"} -> {expr.value.kind}
    [] OTHER -> {}
\* The properties a type asks for when the predicates are written into it: the last one decides.
Declared(has, exprs) ==
  FoldLeft(LAMBDA h, expr : IF ValueKinds(expr) = {} THEN h ELSE (expr.attr :> ValueKinds(expr)) @@ h, has, exprs)

(***************************************************************************)
(* elaborate_pattern: the values in the braces become a filter, and the    *)
(* constants among them properties the element must have.                  *)
(***************************************************************************)
RECURSIVE Elaborated(_)
Elaborated(p) ==
  IF p.op # "valued" THEN Inside(p, Elaborated)
  ELSE LET constant(expr) == expr.op = "is"
       IN  Filter([p.inner EXCEPT !.d.has = Declared(@, SelectSeq(p.equals, constant))],
                  RebuildAnd(p.equals))

(***************************************************************************)
(* hoist: a filter rises to the smallest pattern that binds what it refers *)
(* to.  It does not leave an arm of a union, a repetition, an optional     *)
(* part or a selection.                                                    *)
(***************************************************************************)
RECURSIVE DeclaredVars(_)
DeclaredVars(p) ==
  CASE p.op \in {"node", "edge"} -> FreeVars(p)
    [] p.op \in {"concat", "union", "join"} -> DeclaredVars(p.left) \cup DeclaredVars(p.right)
    [] p.op = "named" -> DeclaredVars(p.inner) \cup {p.var}
    [] OTHER -> DeclaredVars(p.inner)

Hoisted(p, pending) == [pattern |-> p, pending |-> pending]
Place(p, pending) ==
  LET here(expr) == ReferencedVars(expr) \subseteq DeclaredVars(p)
      later(expr) == ~here(expr)
  IN  Hoisted(FilterAll(p, SelectSeq(pending, here)), SelectSeq(pending, later))

Sealed(h) == FilterAll(h.pattern, h.pending)
RECURSIVE HoistPattern(_)
HoistPattern(p) ==
  CASE p.op \in {"node", "edge"} -> Hoisted(p, <<>>)
    [] p.op = "filter" ->
         LET in == HoistPattern(p.inner) IN Place(in.pattern, Append(in.pending, p.expr))
    [] p.op \in {"join", "concat"} ->
         LET left == HoistPattern(p.left)
             right == HoistPattern(p.right)
         IN  Place([p EXCEPT !.left = left.pattern, !.right = right.pattern],
                   left.pending \o right.pending)
    [] p.op = "named" ->
         LET in == HoistPattern(p.inner) IN Place([p EXCEPT !.inner = in.pattern], in.pending)
    [] OTHER -> LET sealed(q) == Sealed(HoistPattern(q)) IN Hoisted(Inside(p, sealed), <<>>)

RECURSIVE HasSelected(_)
HasSelected(p) ==
  CASE p.op \in {"node", "edge"} -> FALSE
    [] p.op \in {"concat", "union", "join"} -> HasSelected(p.left) \/ HasSelected(p.right)
    [] OTHER -> p.op = "selected" \/ HasSelected(p.inner)

\* A clause whose filter waits for a variable is joined to the simple clause before it.
RECURSIVE Absorb(_, _)
Absorb(out, h) ==
  IF h.pending = <<>> \/ out = <<>> THEN Append(out, Clause(Sealed(h)))
  ELSE LET last == out[Len(out)]
       IN  IF last.optional \/ HasSelected(last.pattern) \/ HasSelected(h.pattern)
           THEN Append(out, Clause(Sealed(h)))
           ELSE Absorb(Front(out), Place(Join(last.pattern, h.pattern), h.pending))
HoistQuery(q) ==
  LET hoist(out, m) ==
        LET h == HoistPattern(m.pattern)
        IN  IF m.optional THEN Append(out, OptionalClause(Sealed(h))) ELSE Absorb(out, h)
  IN  FoldLeft(hoist, <<>>, q)

(***************************************************************************)
(* pushdown: a conjunct that compares a node's property with a constant,   *)
(* or tests what kind a property is of, moves into the descriptors of its  *)
(* variable.  Into a selection of some paths it goes only at the ends.     *)
(***************************************************************************)
RECURSIVE TopNodeVars(_, _)
TopNodeVars(p, through) ==
  CASE p.op = "node" -> IF p.d.var = NoVar THEN <<>> ELSE <<p.d.var>>
    [] p.op = "concat" -> TopNodeVars(p.left, through) \o TopNodeVars(p.right, through)
    [] p.op \in through -> TopNodeVars(p.inner, through)
    [] OTHER -> <<>>
FirstAndLast(vars) == IF vars = <<>> THEN {} ELSE {vars[1], vars[Len(vars)]}
BoundaryNodeVars(p) == FirstAndLast(TopNodeVars(p, {"filter", "questioned", "named"}))

RECURSIVE NodeVars(_)
NodeVars(p) ==
  CASE p.op = "node" -> {p.d.var} \ {NoVar}
    [] p.op = "edge" -> {}
    [] p.op \in {"concat", "union", "join"} -> NodeVars(p.left) \cup NodeVars(p.right)
    [] p.op = "selected" ->
         IF p.prefix.search = "all" THEN NodeVars(p.inner) ELSE BoundaryNodeVars(p.inner)
    [] OTHER -> NodeVars(p.inner)

Those(cs, op) == SelectSeq(cs, LAMBDA expr : expr.op = op)
MergeNode(d, cs) ==
  LET mine == SelectSeq(cs, LAMBDA expr : expr.var = d.var)
  IN  [d EXCEPT !.has = Declared(@, Those(mine, "has")),
                !.is = @ \cup {<<expr.attr, expr.value>> : expr \in Range(Those(mine, "is"))}]
MergeEdge(d, cs) == MergeNode(d, Those(cs, "has"))

AdmittedInside(p, cs) ==
  IF p.prefix.search = "all" THEN cs
  ELSE SelectSeq(cs, LAMBDA expr : expr.var \in BoundaryNodeVars(p.inner))

RECURSIVE MergeConstraints(_, _)
MergeConstraints(p, cs) ==
  CASE p.op = "node" -> Node(MergeNode(p.d, cs))
    [] p.op = "edge" -> Edge(p.dir, MergeEdge(p.d, cs))
    [] p.op = "selected" -> [p EXCEPT !.inner = MergeConstraints(@, AdmittedInside(p, cs))]
    [] OTHER -> LET merge(q) == MergeConstraints(q, cs) IN Inside(p, merge)

Pushable(expr, vars) == expr.op = "has" \/ (expr.op = "is" /\ expr.var \in vars)

RECURSIVE Pushdown(_)
Pushdown(p) ==
  IF p.op # "filter" THEN Inside(p, Pushdown)
  ELSE LET push(expr) == Pushable(expr, NodeVars(p.inner))
           keep(expr) == ~push(expr)
           pushed == SelectSeq(Conjuncts(p.expr), push)
           kept == SelectSeq(Conjuncts(p.expr), keep)
           merged == Pushdown(MergeConstraints(p.inner, pushed))
       IN  IF pushed = <<>> THEN Filter(Pushdown(p.inner), p.expr)
           ELSE IF kept = <<>> THEN merged ELSE Filter(merged, RebuildAnd(kept))

(***************************************************************************)
(* unroll_repeat: a repeated edge without a variable becomes a union of    *)
(* chains, and concatenation is distributed over it.  A named path is left *)
(* alone.                                                                  *)
(***************************************************************************)
MaxUnroll == 8
CanUnroll(p) ==
  /\ p.ub # Unbounded /\ p.lb >= 1 /\ p.lb <= p.ub /\ p.ub - p.lb + 1 <= MaxUnroll
  /\ p.inner.op = "edge" /\ p.inner.d.var = NoVar

RECURSIVE RepeatConcat(_, _)
RepeatConcat(p, k) == IF k = 1 THEN p ELSE Concat(p, Concat(AnyNode, RepeatConcat(p, k - 1)))
RECURSIVE UnrollToUnion(_, _, _)
UnrollToUnion(p, lb, ub) ==
  IF ub = lb THEN RepeatConcat(p, lb) ELSE Union(UnrollToUnion(p, lb, ub - 1), RepeatConcat(p, ub))

RECURSIVE Unrolled(_)
Unrolled(p) ==
  CASE p.op = "repeat" /\ CanUnroll(p) -> UnrollToUnion(p.inner, p.lb, p.ub)
    [] p.op = "named" -> p
    [] OTHER -> Inside(p, Unrolled)

RECURSIVE Distributed(_)
Distributed(p) ==
  CASE p.op = "named" -> p
    [] p.op = "concat" ->
         LET a == Distributed(p.left)
             b == Distributed(p.right)
         IN  CASE a.op = "union" ->
                    Union(Distributed(Concat(a.left, b)), Distributed(Concat(a.right, b)))
               [] a.op # "union" /\ b.op = "union" ->
                    Union(Distributed(Concat(a, b.left)), Distributed(Concat(a, b.right)))
               [] OTHER -> Concat(a, b)
    [] OTHER -> Inside(p, Distributed)

Optimized(p) == Distributed(Unrolled(Pushdown(p)))

(***************************************************************************)
(* A query is its clauses.  Without an optional clause or a selection it   *)
(* is one join.                                                            *)
(***************************************************************************)
IsOneJoin(q) == \A i \in DOMAIN q : ~q[i].optional /\ ~HasSelected(q[i].pattern)
Collapsed(q) == FoldLeft(LAMBDA p, m : Join(p, m.pattern), q[1].pattern, Tail(q))

Elaborate(q) == HoistQuery([i \in DOMAIN q |-> [q[i] EXCEPT !.pattern = Elaborated(@)]])
OptimizeQuery(q) ==
  IF IsOneJoin(q) THEN <<Clause(Optimized(Collapsed(q)))>>
  ELSE [i \in DOMAIN q |-> [q[i] EXCEPT !.pattern = Optimized(@)]]
Compiled(q) == OptimizeQuery(Elaborate(q))
==============================================================================
