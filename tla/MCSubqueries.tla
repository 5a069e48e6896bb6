----------------------------- MODULE MCSubqueries -----------------------------
(***************************************************************************)
(* Four nodes, with labels A, A and B, B, and C, the last without the      *)
(* property; three edges, two directed and one undirected, in several      *)
(* layouts, under three sets of indexes.                                   *)
(***************************************************************************)
EXTENDS Subqueries, TLC

P(v) == [x \in {"p"} |-> IntOf(v)]
None == [x \in {} |-> Null]
MCGraph(e, f, u, indexed) ==
  [nodes |-> <<Element(<<"A">>, P(1)), Element(<<"A", "B">>, P(2)), Element(<<"B">>, P(1)), Element(<<"C">>, None)>>,
   edges |-> (101 :> EdgeOf("directed", e[1], e[2], Element(<<"R">>, P(2))))
          @@ (102 :> EdgeOf("directed", f[1], f[2], Element(<<"R", "S">>, P(1))))
          @@ (103 :> EdgeOf("undirected", u[1], u[2], Element(<<"S">>, None))),
   indexed |-> indexed]
MCGraphs ==
  {MCGraph(e, f, <<2, 3>>, indexed) :
     e \in {<<1, 2>>, <<2, 4>>}, f \in {<<3, 1>>, <<2, 1>>, <<3, 4>>, <<1, 3>>},
     indexed \in {{}, {<<"A", "p">>}, {<<"A", "p">>, <<"B", "p">>}}}

a == Node(Var("a"))
b == Node(Var("b"))
c == Node(Var("c"))
aA == Node(Labelled("a", "A"))
bB == Node(Labelled("b", "B"))
e == Var("e")
f == Var("f")
ab(d) == Step(a, "right", d, b)
aP == At("a", "p")
bP == At("b", "p")
One1 == Const(IntOf(1))
Asc(key) == Spec1(key, TRUE, FALSE)
Desc(key) == Spec1(key, FALSE, TRUE)

Select(p, returns) == Statement(<<Clause(p)>>, returns)
OrderedBy(q, order, limit) == [q EXCEPT !.order = order, !.limit = limit]
Grouped(q, by) == [q EXCEPT !.grouped = TRUE, !.by = by]
Once(q) == [q EXCEPT !.distinct = TRUE]
Sum(x) == Aggregate("sum", FALSE, x)
Count(x) == Aggregate("count", FALSE, x)

MCAsked == {
  \* Rows as they are, sorted by a property that some have not.
  OrderedBy(Select(Step(a, "any", e, b), <<>>), <<Desc(bP), Asc(aP)>>, NoLimit),
  OrderedBy(Select(Step(a, "any", e, b), <<>>), <<Asc(bP)>>, 2),
  \* Walked in the order of one index, or of the two of a disjunction.
  OrderedBy(Select(Step(aA, "right", e, b), <<aP, Of("b")>>), <<Asc(aP)>>, 1),
  OrderedBy(Select(Step(aA, "right", e, b), <<Of("e")>>), <<Spec1(aP, FALSE, FALSE), Desc(bP)>>, 1),
  OrderedBy(Select(Step(Node(Described("a", Either(Label("A"), Label("B")), Untyped, {})), "right", e, b), <<aP, Of("b")>>),
            <<Asc(aP), Asc(bP)>>, 2),
  \* Put in the order of an index after the rows are found, those with no node apart.
  OrderedBy(Statement(<<Clause(a), OptionalClause(Step(a, "right", e, bB))>>, <<Of("a"), bP>>), <<Asc(bP)>>, 3),
  OrderedBy(Statement(<<Clause(a), OptionalClause(Step(a, "right", e, bB))>>, <<>>), <<Desc(bP)>>, 2),
  \* DISTINCT before or after the sort.
  Once(OrderedBy(Select(Step(a, "any", e, b), <<bP>>), <<Asc(aP)>>, 2)),
  Once(OrderedBy(Select(ab(e), <<aP, Coalesce(<<bP, aP>>)>>), <<Desc(Column(2))>>, NoLimit)),
  OrderedBy(Select(ab(e), <<bP, Binary("+", aP, One1)>>), <<Desc(Column(2)), Asc(Column(1))>>, 1),
  \* Aggregates within a match, and what is computed from a group of elements.
  OrderedBy(Select(Concat(Concat(a, Repeat(Edge("right", e), 1, 2)), b), <<Sum(At("e", "p")), Of("a"), bP>>),
            <<Asc(bP)>>, 2),
  Select(Filter(Concat(Concat(a, Repeat(Edge("right", e), 1, 2)), b), Is("a", "p", IntOf(1))),
         <<ListOf("x", Of("e"), Binary("<>", At("x", "p"), One1), At("x", "p")),
           Case(Binary(">", bP, One1), Aggregate("max", FALSE, At("e", "p")), TestNull(bP))>>),
  OrderedBy(Select(Named("w", Step(a, "right", e, b)), <<Call("path_length", Of("w")), Call("nodes", Of("w"))>>),
            <<Asc(bP)>>, 0),
  \* Groups.
  OrderedBy(Select(ab(e), <<aP, Count(bP), Sum(At("e", "p"))>>), <<Desc(Column(2)), Asc(Column(1))>>, 1),
  Select(Step(Node(Labelled("a", "C")), "right", e, b),
         <<CountRows, Aggregate("max", FALSE, bP), Binary("in", One1, Aggregate("collect", FALSE, bP))>>),
  OrderedBy(Grouped(Select(Step(a, "any", e, b), <<bP, Aggregate("min", FALSE, aP), Aggregate("count", TRUE, aP)>>), <<bP>>),
            <<Spec1(Column(1), TRUE, TRUE)>>, 2),
  Once(Grouped(Select(Step(a, "any", e, b), <<Binary("+", CountRows, One1)>>), <<aP, bP>>)),
  Grouped(Select(Concat(Concat(a, Repeat(Edge("right", e), 1, 2)), b), <<aP>>), <<aP>>)
}

From(p) == <<Clause(p)>>
WithOptional == <<Clause(a), OptionalClause(ab(e))>>
Exists(outer, p) == Subquery(outer, Select(p, <<>>), FALSE)
MCExists == {
  Exists(From(a), Step(a, "right", Labelled("f", "R"), bB)),
  Exists(From(ab(e)), Step(a, "undirected", f, b)),
  Exists(From(ab(e)), Step(Step(a, "any", f, c), "right", Var("g"), b)),
  Exists(From(a), Filter(Step(c, "right", f, b), Same("c", "a", "p"))),
  Exists(From(a), Step(Node(Labelled("c", "C")), "right", f, b)),
  Exists(WithOptional, Step(b, "right", f, c)),
  Exists(From(ab(e)), Step(c, "right", Labelled("e", "S"), Node(Var("d"))))
}
Value1(outer, p, e1, order) == Subquery(outer, OrderedBy(Select(p, <<e1>>), order, NoLimit), TRUE)
InFilter(s) == [s EXCEPT !.returned = FALSE]
Best == Value1(From(a), Step(a, "right", f, c), At("c", "p"), <<Desc(At("c", "p"))>>)
HowMany == Value1(WithOptional, Step(b, "right", f, c), CountRows, <<>>)
MCValues == {
  Best, InFilter(Best), HowMany, InFilter(HowMany),
  Value1(WithOptional, Step(b, "right", f, c), At("c", "p"), <<Asc(Column(1))>>),
  Value1(From(a), Filter(Step(c, "right", f, b), Same("c", "a", "p")), Sum(bP), <<>>),
  Value1(From(a), Step(c, "right", f, Node(Var("d"))), At("d", "p"), <<Asc(At("c", "p")), Asc(At("d", "p"))>>),
  Value1(From(ab(e)), Step(a, "undirected", f, c), At("c", "p"), <<>>)
}
MCProbed == [exists |-> MCExists, value |-> MCValues]

MCCompares == {IntOf(1), IntOf(2), TextOf(1), True, False, Null, One(1), GroupOf(<<IntOf(1)>>),
               GroupOf(<<IntOf(2)>>), GroupOf(<<IntOf(1), Null>>), GroupOf(<<IntOf(2), Null>>), GroupOf(<<TextOf(1)>>)}
MCManners == {Manner(forced, keepsPeers) : forced \in {"auto", "pdqsort", "topk"}, keepsPeers \in BOOLEAN}
===============================================================================
