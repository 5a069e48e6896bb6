------------------------------- MODULE Meaning -------------------------------
(***************************************************************************)
(* What a pattern means: the set of the paths and assignments it matches,  *)
(* part by part, with no order, no multiplicity and no search.  An         *)
(* unbounded repetition goes up to MaxLaps laps, enough for the graphs it  *)
(* is compared on.                                                         *)
(***************************************************************************)
EXTENDS MatchChain

CONSTANT MaxLaps    \* bound on the laps of an unbounded repetition

Match(path, mu) == [path |-> path, mu |-> mu]
End(m) == m.path[Len(m.path)]

Steps(dir) ==
  LET ends(e) == CASE dir = "right" -> {<<Src(e), Tgt(e)>>}
                   [] dir = "left" -> {<<Tgt(e), Src(e)>>}
                   [] dir = "undirected" -> {<<Src(e), Tgt(e)>>, <<Tgt(e), Src(e)>>}
      kind == IF dir = "undirected" THEN "undirected" ELSE "directed"
  IN  UNION {{<<x[1], e, x[2]>> : x \in ends(e)} : e \in EdgesOfKind(kind)}
Walks(dir) == IF dir = "any" THEN Steps("right") \cup Steps("left") \cup Steps("undirected")
              ELSE Steps(dir)

Continued(ms, ns, mu(_, _)) ==
  {Match(Joined(x[1].path, x[2].path), mu(x[1].mu, x[2].mu)) :
     x \in {y \in ms \X ns : End(y[1]) = y[2].path[1] /\ CanUnify(y[1].mu, y[2].mu)}}
Laps(one, none, ub) ==
  LET ungroup(ms) == {Match(m.path, ToGroup(m.mu)) : m \in ms}
      group(ms, ns) ==
        {Match(Joined(x[1].path, x[2].path), ConcatGroup(x[1].mu, x[2].mu)) :
           x \in {y \in ms \X ns : End(y[1]) = y[2].path[1]}}
      lap[k \in 0..ub] == CASE k = 0 -> none
                            [] k = 1 -> ungroup(one)
                            [] k > 1 -> group(lap[k - 1], ungroup(one))
  IN  lap

Ends(m) == <<m.path[1], End(m)>>
LengthsOf(ms, ends) == {PathLength(m.path) : m \in {m \in ms : Ends(m) = ends}}

\* The matches a selection by groups of a length keeps, of each pair of ends.
LeastLengths(ms, count) ==
  {m \in ms : Cardinality({len \in LengthsOf(ms, Ends(m)) : len < PathLength(m.path)}) < count}

RECURSIVE Denotes(_)
Denotes(p) ==
  CASE p.op = "node" ->
         {Match(<<n>>, FromOptional(p.d.var, One(n))) : n \in {n \in Nodes : FilterNode(n, p.d)}}
    [] p.op = "edge" ->
         {Match(w, FromOptional(p.d.var, One(w[2]))) : w \in {w \in Walks(p.dir) : FilterEdge(w[2], p.d)}}
    [] p.op = "concat" -> Continued(Denotes(p.left), Denotes(p.right), Unify)
    [] p.op = "union" ->
         {Match(m.path, FillNones(m.mu, FreeVars(p))) : m \in Denotes(p.left) \cup Denotes(p.right)}
    [] p.op = "filter" -> {m \in Denotes(p.inner) : Holds(p.expr, m.mu)}
    [] p.op = "valued" ->
         {m \in Denotes(p.inner) : \A i \in DOMAIN p.equals : Holds(p.equals[i], m.mu)}
    [] p.op = "repeat" ->
         LET ub == IF p.ub = Unbounded THEN MaxLaps ELSE p.ub
             none == {Match(<<n>>, FillEmptyList(NoBinding, FreeVars(p.inner))) : n \in Nodes}
             lap == Laps(Denotes(p.inner), none, ub)
         IN  UNION {lap[k] : k \in p.lb..ub}
    [] p.op = "questioned" -> {Match(<<n>>, NoBinding) : n \in Nodes} \cup Denotes(p.inner)
    [] p.op = "selected" ->
         LET ms == {m \in Denotes(p.inner) : SatisfiesMode(m.path, p.prefix.mode)}
         IN  IF p.prefix.search = "groups" THEN LeastLengths(ms, p.prefix.count) ELSE ms
    [] p.op = "named" -> {Match(m.path, Extend(m.mu, p.var, WholePath(m.path))) : m \in Denotes(p.inner)}

\* Q1, Q2 pairs matches that agree.
Pairs(p) ==
  {<<x[1].path, x[2].path, Unify(x[1].mu, x[2].mu)>> :
     x \in {y \in Denotes(p.left) \X Denotes(p.right) : CanUnify(y[1].mu, y[2].mu)}}

(***************************************************************************)
(* A query means assignments, clause by clause.  Wherever a predicate is   *)
(* written in a clause, outside the parts that have a scope of their own,  *)
(* it is about all that the clause and the clauses before it bind.         *)
(***************************************************************************)
IsOpen(p) == p.op \in {"concat", "join", "filter", "valued", "named"}
RECURSIVE Bare(_)
Bare(p) ==
  IF p.op \in {"filter", "valued"} THEN Bare(p.inner)
  ELSE IF IsOpen(p) THEN Inside(p, Bare) ELSE p
RECURSIVE Predicates(_)
Predicates(p) ==
  CASE p.op = "filter" -> {p.expr} \cup Predicates(p.inner)
    [] p.op = "valued" -> Range(p.equals) \cup Predicates(p.inner)
    [] p.op \in {"concat", "join"} -> Predicates(p.left) \cup Predicates(p.right)
    [] p.op = "named" -> Predicates(p.inner)
    [] OTHER -> {}

Agreeing(ms, ns) == {Unify(x[1], x[2]) : x \in {y \in ms \X ns : CanUnify(y[1], y[2])}}
RECURSIVE Assignments(_)
Assignments(p) ==
  IF p.op = "join" THEN Agreeing(Assignments(p.left), Assignments(p.right))
  ELSE {m.mu : m \in Denotes(p)}

Extensions(mu, p) ==
  {nu \in Agreeing({mu}, Assignments(Bare(p))) : \A expr \in Predicates(p) : Holds(expr, nu)}
\* An optional clause that has no match leaves what it would have bound at nothing.
MeaningFrom(start, q) ==
  LET after(mus, m) ==
        LET one(mu) ==
              IF m.optional /\ Extensions(mu, m.pattern) = {}
              THEN {FillNones(mu, FreeVars(m.pattern))} ELSE Extensions(mu, m.pattern)
        IN  UNION {one(mu) : mu \in mus}
  IN  FoldLeft(after, start, q)
MeaningOfChain(q) == MeaningFrom({NoBinding}, q)
==============================================================================
