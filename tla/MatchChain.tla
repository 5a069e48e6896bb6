----------------------------- MODULE MatchChain -----------------------------
(***************************************************************************)
(* The MATCH clauses of a query, one after the other (run_match_chain,     *)
(* runtime/engine.rs): a plain clause is a natural join with the rows so   *)
(* far, an optional one a left outer join.  What earlier clauses bound is  *)
(* used to narrow a later one, by the whole set of the nodes a variable    *)
(* holds or row by row.                                                    *)
(***************************************************************************)
EXTENDS Patterns, Rewrites

\* What a later clause may not be narrowed on: restricting it would change what is selected.
RECURSIVE SelectiveInteriorVars(_)
SelectiveInteriorVars(p) ==
  CASE p.op \in {"node", "edge"} -> {}
    [] p.op \in {"concat", "union", "join"} ->
         SelectiveInteriorVars(p.left) \cup SelectiveInteriorVars(p.right)
    [] p.op = "selected" /\ p.prefix.search # "all" ->
         (FreeVars(p.inner) \ FirstAndLast(TopNodeVars(p.inner, {"filter", "named"})))
           \cup SelectiveInteriorVars(p.inner)
    [] OTHER -> SelectiveInteriorVars(p.inner)

IsNode(value) == value.kind = "one" /\ ~IsEdge(value.id)
Binds(row, x, is(_)) == x \in DOMAIN row.mu /\ is(row.mu[x])

Narrowed(p, bound) ==
  (FreeVars(p) \cap bound) \ (GroupVars(p) \cup SelectiveInteriorVars(p))
MatchPushdownPins(acc, p, bound) ==
  LET nodesIn(x) == \A i \in DOMAIN acc : Binds(acc[i], x, IsNode)
  IN  [x \in {x \in Narrowed(p, bound) : nodesIn(x)} |-> {acc[i].mu[x].id : i \in DOMAIN acc}]

RowJoin(r, s) == [paths |-> r.paths \o s.paths, mu |-> Unify(r.mu, s.mu)]

\* natural_join: what both sides bind is read off the first row of each.
NaturalJoin(left, right, order) ==
  LET shared == IF left = <<>> \/ right = <<>> THEN {} ELSE DOMAIN left[1].mu \cap DOMAIN right[1].mu
      named == SelectSeq(order, LAMBDA x : x \in shared)
      key == IF named = <<>> THEN CHOOSE x \in shared : TRUE ELSE named[1]
      meets(r, s) ==
        shared # {} => key \in DOMAIN r.mu /\ key \in DOMAIN s.mu /\ CanUnify(r.mu, s.mu)
      meet(r) ==
        LET with(s) == meets(r, s)
            found == SelectSeq(right, with)
        IN  [i \in DOMAIN found |-> RowJoin(r, found[i])]
  IN  FlatMap(meet, left)

\* Mutant: a row that meets nothing is dropped.
PaddedNever(row, found, new) == found
\* A row of an optional clause that meets nothing stays, with nothing for what the clause binds.
Padded(row, found, new) == IF found = <<>> THEN <<Bind(row, FillNones(row.mu, new))>> ELSE found

LeftOuterJoin(left, right, new) ==
  LET meet(r) ==
        LET with(s) == CanUnify(r.mu, s.mu)
            found == SelectSeq(right, with)
        IN  Padded(r, [i \in DOMAIN found |-> RowJoin(r, found[i])], new)
  IN  FlatMap(meet, left)

RECURSIVE PatternExprVars(_)
PatternExprVars(p) ==
  CASE p.op \in {"node", "edge"} -> {}
    [] p.op \in {"concat", "union", "join"} -> PatternExprVars(p.left) \cup PatternExprVars(p.right)
    [] p.op = "filter" -> ReferencedVars(p.expr) \cup PatternExprVars(p.inner)
    [] OTHER -> PatternExprVars(p.inner)
OptionalCorrelationVars(p, bound) == (PatternExprVars(p) \ FreeVars(p)) \cap bound

\* Each row becomes what predicates may look in, above what was there before.
OptionalViaCorrelation(acc, p, new, c) ==
  FlatMap(LAMBDA row : LeftOuterJoin(<<row>>, Run(p, 0, [c EXCEPT !.scope = Unify(@, row.mu)]), new),
          acc)

\* A row that holds anything but a node for a shared variable is not asked about.
OptionalViaBindPushdown(acc, p, bound, new, c) ==
  LET shared == FreeVars(p) \cap bound
      pinnable(row) == \A x \in shared : Binds(row, x, IsNode)
      ltj(row) == TryLtjWithPins(p, 0, [x \in shared |-> row.mu[x].id], c.order)
      asked == SelectSeq(acc, pinnable)
      one(row) == IF pinnable(row) THEN LeftOuterJoin(<<row>>, ltj(row).rows, new)
                  ELSE Padded(row, <<>>, new)
  IN  IF shared = {} \/ (asked # <<>> /\ ~ltj(asked[1]).ok) THEN Declined
      ELSE [ok |-> TRUE, rows |-> FlatMap(one, acc)]

OptionalByItself(acc, p, pushed, new, c) ==
  IF pushed.ok THEN pushed.rows ELSE LeftOuterJoin(acc, Run(p, 0, c), new)

OptionalClauseAfter(acc, p, bound, c) ==
  LET new == FreeVars(p) \ bound
      byRow == "row by row" \in c.routes /\ ~HasSelected(p)
  IN  IF OptionalCorrelationVars(p, bound) # {} THEN OptionalViaCorrelation(acc, p, new, c)
      ELSE OptionalByItself(
             acc, p, IF byRow THEN OptionalViaBindPushdown(acc, p, bound, new, c) ELSE Declined, new, c)

SimpleClauseAfter(acc, p, bound, c) ==
  LET pins == IF "pins" \in c.routes THEN MatchPushdownPins(acc, p, bound) ELSE Unpinned
  IN  NaturalJoin(acc, Run(p, 0, [c EXCEPT !.pins = pins @@ c.pins]), c.order)

ClauseAfter(acc, m, bound, c) ==
  IF m.optional THEN OptionalClauseAfter(acc, m.pattern, bound, c)
  ELSE SimpleClauseAfter(acc, m.pattern, bound, c)

\* The clauses after the i-th; the rest is skipped once there are as many rows as the limit.
RECURSIVE ClausesAfter(_, _, _, _, _, _)
ClausesAfter(q, i, acc, bound, limit, c) ==
  IF i > Len(q) \/ (i > 2 /\ limit > 0 /\ Len(acc) >= limit) THEN Truncated(acc, limit)
  ELSE ClausesAfter(q, i + 1, ClauseAfter(acc, q[i], bound, c), bound \cup FreeVars(q[i].pattern), limit, c)

\* Mutant: the first clause is cut before the others are joined to it.
FirstLimitAlways(q, limit) == limit
FirstLimit(q, limit) == IF Len(q) = 1 /\ ~HasSelected(q[1].pattern) THEN limit ELSE 0

AfterFirst(q, rows, limit, c) == ClausesAfter(q, 2, rows, FreeVars(q[1].pattern), limit, c)
RunChain(q, rows, limit, c) == IF IsOneJoin(q) THEN rows ELSE AfterFirst(q, rows, limit, c)

RunMatchChain(q, limit, c) ==
  LET first == IF IsOneJoin(q) THEN Collapsed(q) ELSE q[1].pattern
  IN  RunChain(q, Run(first, IF IsOneJoin(q) THEN limit ELSE FirstLimit(q, limit), c), limit, c)
==============================================================================
