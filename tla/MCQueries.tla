------------------------------ MODULE MCQueries ------------------------------
(***************************************************************************)
(* Three nodes, with labels A, A and B, and B; three edges, two directed   *)
(* and one undirected, in every position.                                  *)
(***************************************************************************)
EXTENDS Queries, TLC

P(v) == [x \in {"p"} |-> IntOf(v)]
None == [x \in {} |-> Nothing]
Text == {"text"}
MCNodes == <<Element(<<"A">>, P(1)), Element(<<"A", "B">>, ("q" :> TextOf(1)) @@ P(2)), Element(<<"B">>, None)>>
MCGraph(e, f, u) ==
  [nodes |-> MCNodes,
   edges |-> (101 :> EdgeOf("directed", e[1], e[2], Element(<<"R">>, None)))
          @@ (102 :> EdgeOf("directed", f[1], f[2], Element(<<"R", "S">>, P(1))))
          @@ (103 :> EdgeOf("undirected", u[1], u[2], Element(<<"S">>, None))),
   indexed |-> {<<"A", "p">>}]
\* What is long is cut where an entry, a page and a page of the rest end.
Bytes(n, byte) == [i \in 1..n |-> byte]
MCSpelled(kind, x) ==
  CASE kind = "node" -> Bytes(x, "n")
    [] kind = "edge" -> Bytes(3 * (x - EdgeBase) + 9, "e")
    [] kind = "text" -> Bytes(x + 7, "t")
    [] OTHER -> IF x = "B" THEN Bytes(14, x) ELSE <<x>>
Places == (1..3) \X (1..3)
SomePlaces == {<<1, 1>>, <<2, 3>>, <<3, 1>>}
MCGraphs == {MCGraph(e, f, u) : e \in SomePlaces, f \in Places, u \in {<<1, 2>>, <<3, 3>>}}

a == Node(Var("a"))
b == Node(Var("b"))
aA == Node(Labelled("a", "A"))
bB == Node(Labelled("b", "B"))
aIs(v) == Node(Described("a", Label("A"), Untyped, {<<"p", IntOf(v)>>}))
Plain(dir) == Edge(dir, NoDescriptor)
e == Var("e")
Loop(p, dir, d, lb, ub, q) == Concat(Concat(p, Repeat(Edge(dir, d), lb, ub)), q)

MCQuestions == {
  Step(a, "any", e, bB),
  Step(Step(aA, "right", Labelled("e", "R"), b), "left", Var("f"), a),
  Join(Step(a, "undirected", e, b), Step(b, "right", Var("f"), a)),
  Loop(a, "right", e, 0, 2, bB),
  Loop(aIs(1), "any", Labelled("e", "S"), 1, 2, b),
  Loop(aA, "right", NoDescriptor, 2, 3, b),
  Concat(Concat(aA, Questioned(Concat(Edge("left", e), b))), Edge("any", Labelled("f", "S"))),
  Concat(Concat(a, Repeat(Step(AnyNode, "right", e, Node(Labelled("c", "B"))), 2, 2)), b),
  Union(Step(a, "right", e, b), Step(a, "undirected", Var("f"), bB)),
  Filter(Concat(Concat(a, Filter(Edge("any", e), Is("e", "p", IntOf(1)))), b), Same("e", "a", "p")),
  Selected(Prefix("trail", "all", 0), Loop(aA, "any", e, 0, Unbounded, b)),
  Selected(Prefix("acyclic", "all", 0), Loop(a, "right", NoDescriptor, 1, Unbounded, b)),
  Selected(Prefix("simple", "all", 0), Loop(a, "any", e, 2, Unbounded, a)),
  Named("p", Loop(Node(Described("a", Either(Label("A"), Label("B")), [x \in {"p"} |-> Numeric], {})), "left", e, 1, 1, b))
}

ShortestPath == Prefix("walk", "paths", 1)
AllShortest == Prefix("walk", "groups", 1)
Two(search) == Prefix("walk", search, 2)
MCSelections == {
  Selected(ShortestPath, Loop(aA, "right", NoDescriptor, 0, Unbounded, bB)),
  Selected(AllShortest, Loop(aIs(1), "left", Labelled("", "R"), 1, Unbounded, b)),
  Selected(AllShortest, Loop(a, "undirected", NoDescriptor, 1, Unbounded, bB)),
  Selected(AllShortest, Loop(aA, "right", NoDescriptor, 0, 2, bB)),
  Selected(Two("paths"), Loop(aA, "right", e, 0, Unbounded, b)),
  Selected(Two("groups"), Loop(aA, "right", NoDescriptor, 1, Unbounded, bB)),
  Selected(Two("groups"), Loop(Step(aIs(2), "undirected", NoDescriptor, AnyNode), "right", e, 0, Unbounded, b))
}
ab(dir) == Step(a, dir, e, b)
bc(dir) == Step(b, dir, Var("f"), Node(Var("c")))
aB == Node(Labelled("a", "B"))
eR == Labelled("e", "R")
eS == Labelled("e", "S")
MCStatements == {
  <<Clause(Filter(ab("right"), Is("a", "p", IntOf(1)))), Clause(Filter(bc("right"), Same("a", "c", "p")))>>,
  <<Clause(Filter(Join(ab("right"), bc("undirected")), And(Same("b", "c", "p"), Is("b", "p", IntOf(2)))))>>,
  <<Clause(Loop(aA, "right", NoDescriptor, 1, 3, Valued(b, <<Is("b", "p", IntOf(2))>>)))>>,
  <<Clause(a), OptionalClause(ab("right"))>>,
  <<Clause(ab("left")), OptionalClause(bc("right"))>>,
  <<Clause(aA), OptionalClause(Filter(Step(b, "any", e, Node(Labelled("c", "B"))), Same("a", "b", "p")))>>,
  <<Clause(a), OptionalClause(Filter(Loop(a, "right", e, 1, 2, b), Is("b", "p", IntOf(2))))>>,
  <<Clause(aA), OptionalClause(Union(ab("right"), ab("undirected")))>>,
  <<Clause(Filter(a, Is("a", "p", IntOf(1)))), Clause(Selected(AllShortest, Loop(a, "right", NoDescriptor, 0, Unbounded, bB)))>>,
  <<Clause(ab("right")), OptionalClause(Filter(Selected(AllShortest, Loop(b, "undirected", NoDescriptor, 1, Unbounded, Node(Var("c")))), Has("c", "p", Numeric)))>>,
  <<Clause(bB), Clause(Selected(AllShortest, Concat(Step(a, "right", NoDescriptor, Node(Var("d"))), Concat(Repeat(Edge("any", NoDescriptor), 0, 2), b))))>>,
  <<Clause(Step(aA, "right", eS, bB))>>,
  <<Clause(Step(aA, "any", eS, bB))>>,
  <<Clause(Step(Step(aB, "right", eR, b), "left", Labelled("f", "S"), Node(Labelled("c", "A"))))>>,
  <<Clause(Valued(aB, <<Is("a", "p", IntOf(1))>>)), OptionalClause(ab("any"))>>,
  <<Clause(a), OptionalClause(Step(a, "left", eS, bB))>>,
  <<Clause(a), Clause(Concat(Concat(aB, Valued(Edge("any", e), <<Is("e", "p", IntOf(1))>>)), b))>>,
  <<Clause(Loop(aA, "right", eS, 0, 2, b))>>,
  <<Clause(Loop(aB, "right", e, 2, 2, bB))>>,
  <<Clause(Union(Step(aA, "right", eS, b), Step(aB, "undirected", Var("f"), b)))>>,
  <<Clause(Named("x", Loop(Node(Described("a", Either(Label("A"), Label("B")), [x \in {"p"} |-> Numeric], {})), "left", eR, 1, 2, bB)))>>,
  <<Clause(Selected(AllShortest, Loop(aB, "right", eS, 1, Unbounded, bB)))>>,
  <<Clause(Loop(aB, "right", eS, 1, Unbounded, bB))>>,
  <<Clause(Filter(ab("right"), Or(Is("a", "q", IntOf(1)), Has("b", "p", Numeric))))>>,
  <<Clause(Filter(ab("right"), Is("a", "q", IntOf(1))))>>,
  <<Clause(Valued(a, <<Is("a", "q", TextOf(1))>>)), OptionalClause(Filter(Union(ab("left"), Loop(a, "left", NoDescriptor, 2, 2, b)), Or(Has("b", "p", Text), Has("b", "q", Text))))>>,
  <<Clause(Filter(b, And(Has("b", "q", Text), Is("b", "p", IntOf(2))))), OptionalClause(ab("any"))>>
}
\* A variable of an optional part has the type of a list, and is bound to an element.
MCOptionalParts == {
  <<Clause(Filter(Concat(a, Questioned(Concat(Edge("right", e), b))), Is("b", "p", IntOf(2))))>>
}
MCOrders == {<<"a", "b">>, <<"b", "a">>}
==============================================================================
