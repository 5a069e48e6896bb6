---------------------------- MODULE PatternGraph ----------------------------
(***************************************************************************)
(* Patterns (syntax/path_pattern.rs, syntax/path_prefix.rs) and the graph  *)
(* they are matched against, as the runtime reads it (the GraphAccess      *)
(* trait, model/graph_access.rs).                                          *)
(***************************************************************************)
EXTENDS Rows

(***************************************************************************)
(* Label types (typing/label_type.rs): the boolean formulas over labels    *)
(* that descriptors of nodes and edges are written in, and the descriptors *)
(* an element is matched against (filter_node, filter_edge).               *)
(*                                                                         *)
(* The labels of an element are one conjunction, and an element matches a  *)
(* descriptor when its conjunction is a subtype of the descriptor's        *)
(* formula, it has the properties the descriptor names, of the kinds it    *)
(* names, and they have the values the optimizer pushed down to it.        *)
(***************************************************************************)
Star == [op |-> "star"]
Top == [op |-> "top"]
Empty == [op |-> "empty"]
Label(l) == [op |-> "label", name |-> l]
Both(a, b) == [op |-> "and", left |-> a, right |-> b]
Either(a, b) == [op |-> "or", left |-> a, right |-> b]
Not(a) == [op |-> "not", inner |-> a]

\* from_list, over the labels of an element in some order.
RECURSIVE FromList(_)
FromList(labels) ==
  IF Len(labels) = 1 THEN Label(labels[1]) ELSE Both(Label(labels[1]), FromList(Tail(labels)))

RECURSIVE IsSubtype(_, _)
IsSubtype(a, b) ==
  CASE a.op = "star" \/ b.op \in {"star", "top"} -> TRUE
    [] a.op = "label" /\ b.op = "label" -> a.name = b.name
    [] a.op # "star" /\ b.op = "and" -> IsSubtype(a, b.left) /\ IsSubtype(a, b.right)
    [] a.op # "star" /\ b.op = "or" -> IsSubtype(a, b.left) \/ IsSubtype(a, b.right)
    [] a.op \in {"and", "or"} /\ b.op \in {"label", "not", "empty"} ->
         IsSubtype(a.left, b) \/ IsSubtype(a.right, b)
    [] a.op \in {"label", "not", "top", "empty"} /\ b.op = "not" -> ~IsSubtype(a, b.inner)
    [] OTHER -> a.op = "empty"

\* The labels every element that satisfies the formula carries, as far as conjunctions show them.
RECURSIVE RequiredLabels(_)
RequiredLabels(a) ==
  CASE a.op = "label" -> {a.name}
    [] a.op = "and" -> RequiredLabels(a.left) \cup RequiredLabels(a.right)
    [] OTHER -> {}

(***************************************************************************)
(* Descriptors.  `is` holds the value predicates, as pairs of a property   *)
(* and the value it must have; `has` gives the properties that the type    *)
(* asks for the kinds of value they may have.                              *)
(***************************************************************************)
Described(var, label, has, is) == [var |-> var, label |-> label, has |-> has, is |-> is]
NoVar == ""
Numeric == {"int", "float"}
Untyped == [attr \in {} |-> Numeric]
NoDescriptor == Described(NoVar, Star, Untyped, {})
Var(x) == Described(x, Star, Untyped, {})
Labelled(x, l) == Described(x, Label(l), Untyped, {})

\* An element is its labels, in the order they are stored, and its properties.
Matches(element, d) ==
  /\ IsSubtype(FromList(element.labels), d.label)
  /\ \A attr \in DOMAIN d.has :
       attr \in DOMAIN element.props /\ element.props[attr].kind \in d.has[attr]
  /\ \A p \in d.is : p[1] \in DOMAIN element.props /\ element.props[p[1]] = p[2]

VARIABLE graph    \* [nodes, edges, indexed]: see GraphOf

(***************************************************************************)
(* A graph maps nodes and edges to what they are.  An edge has two ends    *)
(* and a kind, "directed" or "undirected"; indexed holds the pairs of a    *)
(* label and a property that have a secondary index.                       *)
(***************************************************************************)
Element(labels, props) == [labels |-> labels, props |-> props]
EdgeOf(kind, src, tgt, element) == [kind |-> kind, src |-> src, tgt |-> tgt, is |-> element]

Nodes == DOMAIN graph.nodes
EdgesOfKind(kind) == {e \in DOMAIN graph.edges : graph.edges[e].kind = kind}
Src(e) == graph.edges[e].src
Tgt(e) == graph.edges[e].tgt

Ascending(S) ==
  [i \in 1..Cardinality(S) |-> CHOOSE x \in S : Cardinality({y \in S : y < x}) = i - 1]

OutgoingEdges(n) == Ascending({e \in EdgesOfKind("directed") : Src(e) = n})
IncomingEdges(n) == Ascending({e \in EdgesOfKind("directed") : Tgt(e) = n})
\* An undirected edge is listed under both its ends, a self-loop twice under the one.
UndirectedEdgesOf(n) ==
  LET at == Ascending({e \in EdgesOfKind("undirected") : n \in {Src(e), Tgt(e)}})
  IN  FlattenSeq([i \in DOMAIN at |-> IF Src(at[i]) = Tgt(at[i]) THEN <<at[i], at[i]>> ELSE <<at[i]>>])

FilterNode(n, d) == Matches(graph.nodes[n], d)
FilterEdge(e, d) == Matches(graph.edges[e].is, d)
HasLabel(element, l) == \E i \in DOMAIN element.labels : element.labels[i] = l

\* The index of (l, attr) answers the nodes that have label l and that value of attr.
LookupEq(l, attr, value) ==
  {n \in Nodes : LET is == graph.nodes[n]
                 IN  HasLabel(is, l) /\ attr \in DOMAIN is.props /\ is.props[attr] = value}

(***************************************************************************)
(* Patterns.                                                               *)
(***************************************************************************)
Unbounded == -1
Node(d) == [op |-> "node", d |-> d]
AnyNode == Node(NoDescriptor)
Edge(dir, d) == [op |-> "edge", dir |-> dir, d |-> d]
Concat(p, q) == [op |-> "concat", left |-> p, right |-> q]
Union(p, q) == [op |-> "union", left |-> p, right |-> q]
Join(p, q) == [op |-> "join", left |-> p, right |-> q]
Filter(p, expr) == [op |-> "filter", inner |-> p, expr |-> expr]
Repeat(p, lb, ub) == [op |-> "repeat", inner |-> p, lb |-> lb, ub |-> ub]
Questioned(p) == [op |-> "questioned", inner |-> p]
Selected(prefix, p) == [op |-> "selected", prefix |-> prefix, inner |-> p]
Named(x, p) == [op |-> "named", var |-> x, inner |-> p]

Step(p, dir, d, q) == Concat(Concat(p, Edge(dir, d)), q)

RECURSIVE FreeVars(_)
FreeVars(p) ==
  CASE p.op \in {"node", "edge"} -> {p.d.var} \ {NoVar}
    [] p.op \in {"concat", "union", "join"} -> FreeVars(p.left) \cup FreeVars(p.right)
    [] OTHER -> FreeVars(p.inner)

RECURSIVE GroupVars(_)
GroupVars(p) ==
  CASE p.op \in {"node", "edge"} -> {}
    [] p.op \in {"concat", "union", "join"} -> GroupVars(p.left) \cup GroupVars(p.right)
    [] p.op = "repeat" -> FreeVars(p.inner)
    [] OTHER -> GroupVars(p.inner)

(***************************************************************************)
(* Predicates of a WHERE: the property of an element compared with a value *)
(* or with the property of another, or tested to be of some kind.  A       *)
(* variable that is not bound to one element has no properties, and null   *)
(* compares to nothing.                                                    *)
(***************************************************************************)
Is(x, attr, value) == [op |-> "is", var |-> x, attr |-> attr, value |-> value]
Has(x, attr, kinds) == [op |-> "has", var |-> x, attr |-> attr, kinds |-> kinds]
Same(x, y, attr) == [op |-> "same", var |-> x, attr |-> attr, with |-> y]
And(a, b) == [op |-> "and", left |-> a, right |-> b]
Or(a, b) == [op |-> "or", left |-> a, right |-> b]

ElementAt(x) == IF IsEdge(x) THEN graph.edges[x].is ELSE graph.nodes[x]
HasAttr(mu, x, attr) ==
  x \in DOMAIN mu /\ mu[x].kind = "one" /\ attr \in DOMAIN ElementAt(mu[x].id).props
Attr(mu, x, attr) == ElementAt(mu[x].id).props[attr]

RECURSIVE Holds(_, _)
Holds(expr, mu) ==
  CASE expr.op = "is" ->
         HasAttr(mu, expr.var, expr.attr) /\ Attr(mu, expr.var, expr.attr) = expr.value
    [] expr.op = "has" ->
         HasAttr(mu, expr.var, expr.attr) /\ Attr(mu, expr.var, expr.attr).kind \in expr.kinds
    [] expr.op = "same" ->
         /\ HasAttr(mu, expr.var, expr.attr) /\ HasAttr(mu, expr.with, expr.attr)
         /\ Attr(mu, expr.var, expr.attr) = Attr(mu, expr.with, expr.attr)
    [] expr.op = "and" -> Holds(expr.left, mu) /\ Holds(expr.right, mu)
    [] expr.op = "or" -> Holds(expr.left, mu) \/ Holds(expr.right, mu)
==============================================================================
