----------------------------- MODULE Expressions -----------------------------
(***************************************************************************)
(* The value of an expression on a row (run_expr, runtime/engine.rs):      *)
(* three-valued logic in which a missing property is null and a genuine    *)
(* error is a failure, aggregates within a match and across rows, and the  *)
(* comparison the index applies to a predicate pushed into it.             *)
(***************************************************************************)
EXTENDS PatternGraph

(***************************************************************************)
(* Values: null, and the failure that is no value at all.                  *)
(***************************************************************************)
True == BoolOf(TRUE)
False == BoolOf(FALSE)
Null == Nothing
Failed == Value("failed", 0, <<>>)
IsNullish(v) == v \in {Null, Failed}
OrNull(v) == IF v = Failed THEN Null ELSE v

(***************************************************************************)
(* Expressions.                                                            *)
(***************************************************************************)
Const(value) == [op |-> "const", value |-> value]
Of(x) == [op |-> "var", var |-> x]
At(x, attr) == [op |-> "attr", var |-> x, attr |-> attr]
FieldAt(base, i) == [op |-> "field", operand |-> base, at |-> i]
Binary(op, left, right) == [op |-> "binary", by |-> op, left |-> left, right |-> right]
Negation(operand) == [op |-> "not", operand |-> operand]
TestNull(operand) == [op |-> "isnull", operand |-> operand]
Coalesce(args) == [op |-> "coalesce", args |-> args]
Case(cond, value, otherwise) == [op |-> "case", args |-> <<cond, value, otherwise>>]
ListOf(x, source, filter, body) ==
  [op |-> "list", var |-> x, args |-> <<source, filter, body>>]
Record(args) == [op |-> "record", args |-> args]
Call(name, operand) == [op |-> "call", name |-> name, operand |-> operand]
Aggregate(kind, distinct, operand) ==
  [op |-> "agg", kind |-> kind, distinct |-> distinct, operand |-> operand]
CountRows == [op |-> "agg", kind |-> "rows", distinct |-> FALSE, operand |-> Const(Null)]

Operands(e) ==
  CASE e.op \in {"const", "var", "attr"} -> <<>>
    [] e.op = "binary" -> <<e.left, e.right>>
    [] e.op \in {"coalesce", "case", "list", "record"} -> e.args
    [] OTHER -> <<e.operand>>

RECURSIVE Mentioned(_)
Mentioned(e) ==
  (IF e.op \in {"var", "attr"} THEN {e.var} ELSE {})
    \cup UNION {Mentioned(Operands(e)[i]) : i \in DOMAIN Operands(e)}

\* contains_agg: at any depth.
RECURSIVE ContainsAgg(_)
ContainsAgg(e) == e.op = "agg" \/ \E i \in DOMAIN Operands(e) : ContainsAgg(Operands(e)[i])

\* An aggregate whose argument mentions a group variable reduces the group of its own match.
AggIsElementwise(agg, groups) == agg.kind # "rows" /\ Mentioned(agg.operand) \cap groups # {}
RECURSIVE HasRowAggregate(_, _)
HasRowAggregate(e, groups) ==
  IF e.op = "agg" THEN ~AggIsElementwise(e, groups)
  ELSE \E i \in DOMAIN Operands(e) : HasRowAggregate(Operands(e)[i], groups)

(***************************************************************************)
(* Equality and order (eq_verdict, value_cmp).  Values of two kinds have   *)
(* no common domain: a failure at the top, plainly different inside a      *)
(* list.  A null inside a list makes its place unknown.                    *)
(***************************************************************************)
AllTrue(verdicts) ==
  IF False \in verdicts THEN False ELSE IF Null \in verdicts THEN Null ELSE True

RECURSIVE EqVerdict(_, _)
EqVerdict(l, r) ==
  LET inside(i) == LET v == EqVerdict(l.of[i], r.of[i]) IN IF v = Failed THEN False ELSE v
  IN  CASE l = Null \/ r = Null -> Null
        [] l # Null /\ r # Null /\ l.kind # r.kind -> Failed
        [] l # Null /\ l.kind = r.kind /\ l.kind \in {"group", "record"} ->
             IF Len(l.of) # Len(r.of) THEN False ELSE AllTrue({inside(i) : i \in DOMAIN l.of})
        [] OTHER -> BoolOf(l = r)

Ordered(l, r) == l.kind = r.kind /\ l.kind \in {"int", "text", "bool"}
IsLess(l, r) == Ordered(l, r) /\ l.id < r.id

Compared(op, l, r) ==
  CASE op = "<" -> l.id < r.id
    [] op = "<=" -> l.id <= r.id
    [] op = ">" -> l.id > r.id
    [] op = ">=" -> l.id >= r.id
Orderings == {"<", "<=", ">", ">="}
Opposite(v) == IF v \in {True, False} THEN BoolOf(v = False) ELSE v

\* The verdict of the index on a predicate pushed into it: keep or drop.
\* Mutant: a null is below every value.
CmpValuesNullLow(l, op, r) ==
  CASE op \in Orderings -> (l = Null /\ op = "<") \/ (Ordered(l, r) /\ Compared(op, l, r))
    [] op = "=" -> EqVerdict(l, r) = True
    [] op = "<>" -> EqVerdict(l, r) = False
CmpValues(l, op, r) ==
  CASE op \in Orderings -> Ordered(l, r) /\ Compared(op, l, r)
    [] op = "=" -> EqVerdict(l, r) = True
    [] op = "<>" -> EqVerdict(l, r) = False

(***************************************************************************)
(* Operators.  Both operands are values or null here: a failure of either  *)
(* is the failure of the whole.                                            *)
(***************************************************************************)
Truncating(a, b) ==
  LET magnitude(n) == IF n < 0 THEN -n ELSE n
      q == magnitude(a) \div magnitude(b)
  IN  IF (a < 0) = (b < 0) THEN q ELSE -q
Arithmetic(op, a, b) ==
  CASE op = "+" -> IntOf(a + b)
    [] op = "-" -> IntOf(a - b)
    [] op = "*" -> IntOf(a * b)
    [] op = "/" -> IF b = 0 THEN Failed ELSE IntOf(Truncating(a, b))
    [] op = "mod" -> IF b = 0 THEN Failed ELSE IntOf(a - b * Truncating(a, b))
Arithmetics == {"+", "-", "*", "/", "mod"}

\* A hit settles membership; a value of another kind is an error before an unknown is.
Member(l, list) ==
  LET verdicts == {EqVerdict(l, list.of[i]) : i \in DOMAIN list.of}
  IN  IF True \in verdicts THEN True ELSE IF Failed \in verdicts THEN Failed
      ELSE IF Null \in verdicts THEN Null ELSE False

IsTruth(v) == v \in {True, False, Null}
Connected(op, l, r) ==
  LET absorbing == IF op = "and" THEN False ELSE True
  IN  IF ~IsTruth(l) \/ ~IsTruth(r) THEN Failed
      ELSE IF l = absorbing \/ r = absorbing THEN absorbing
      ELSE IF l = Null \/ r = Null THEN Null ELSE Opposite(absorbing)

\* Arithmetic asks for numbers and the connectives for truth values before either looks for null.
EvalBinop(op, l, r) ==
  CASE op \in Arithmetics ->
         IF l.kind \notin {"int", "nothing"} \/ r.kind \notin {"int", "nothing"} THEN Failed
         ELSE IF l = Null \/ r = Null THEN Null ELSE Arithmetic(op, l.id, r.id)
    [] op \in Orderings ->
         IF l = Null \/ r = Null THEN Null
         ELSE IF Ordered(l, r) THEN BoolOf(CmpValues(l, op, r)) ELSE Failed
    [] op = "=" -> EqVerdict(l, r)
    [] op = "<>" -> Opposite(EqVerdict(l, r))
    [] op = "in" -> IF r = Null THEN Null ELSE IF r.kind = "group" THEN Member(l, r) ELSE Failed
    [] op \in {"and", "or"} -> Connected(op, l, r)

(***************************************************************************)
(* Aggregates.                                                             *)
(***************************************************************************)
\* What DISTINCT and a group key compare: null is the same as null.
Distinct(s) ==
  LET isFirst(i) == \A j \in 1..(i - 1) : s[j] # s[i] IN Kept(s, isFirst)
\* Mutant: a null is gathered like a value.
GatheredWithNulls(values, distinct) ==
  LET isValue(v) == v # Failed
      there == SelectSeq(values, isValue)
  IN  IF distinct THEN Distinct(there) ELSE there
Gathered(values, distinct) ==
  LET isValue(v) == ~IsNullish(v)
      there == SelectSeq(values, isValue)
  IN  IF distinct THEN Distinct(there) ELSE there

\* The first of the best; what cannot be compared with the best so far is passed over.
BestOf(values, better(_, _)) ==
  IF values = <<>> THEN Null
  ELSE FoldLeft(LAMBDA best, v : IF better(v, best) THEN v ELSE best, values[1], Tail(values))
SumOf(values) ==
  LET isInt(v) == v.kind = "int"
      ints == SelectSeq(values, isInt)
  IN  IF ints = <<>> THEN Null ELSE IntOf(FoldLeft(LAMBDA sum, v : sum + v.id, 0, ints))
AllNullRecord(v) == v.kind = "record" /\ v.of # <<>> /\ \A i \in DOMAIN v.of : v.of[i] = Null

ReduceGeneralSet(kind, values) ==
  CASE kind \in {"rows", "count"} -> IntOf(Len(values))
    [] kind = "sum" -> SumOf(values)
    [] kind = "min" -> BestOf(values, IsLess)
    [] kind = "max" -> LET isMore(v, best) == IsLess(best, v) IN BestOf(values, isMore)
    [] kind = "collect" ->
         LET kept(v) == ~AllNullRecord(v) IN GroupOf(SelectSeq(values, kept))

(***************************************************************************)
(* The value of an expression.  In env, mu binds the variables of the row  *)
(* and, under them, those of the rows a subquery is run for; items binds   *)
(* the variables of comprehensions; groups are the group variables.        *)
(***************************************************************************)
EnvOf(mu, groups) == [mu |-> mu, items |-> NoBinding, groups |-> groups]
Among(env, x, item) == [env EXCEPT !.items = Extend(@, x, item)]

PropertyOf(x, attr) ==
  LET props == ElementAt(x).props IN IF attr \in DOMAIN props THEN props[attr] ELSE Null
RECURSIVE AttrOf(_, _)
AttrOf(v, attr) ==
  CASE v.kind = "group" -> GroupOf(Mapped(LAMBDA item : OrNull(AttrOf(item, attr)), v.of))
    [] v.kind = "one" -> PropertyOf(v.id, attr)
    [] OTHER -> Failed
VarOf(x, env) ==
  IF x \in DOMAIN env.items THEN env.items[x]
  ELSE IF x \in DOMAIN env.mu THEN env.mu[x] ELSE Failed
AttrIn(x, attr, env) ==
  IF x \in DOMAIN env.items /\ env.items[x].kind # "one" THEN Failed ELSE AttrOf(VarOf(x, env), attr)

CallOn(name, v) ==
  LET elements(ids) == GroupOf(Mapped(One, ids))
  IN  CASE IsNullish(v) -> v
        [] ~IsNullish(v) /\ name = "abs" ->
             IF v.kind = "int" THEN IntOf(IF v.id < 0 THEN -v.id ELSE v.id) ELSE Failed
        [] ~IsNullish(v) /\ name # "abs" /\ v.kind # "path" -> Failed
        [] v.kind = "path" /\ name = "elements" -> elements(v.of)
        [] v.kind = "path" /\ name = "nodes" -> elements(NodesOf(v.of))
        [] v.kind = "path" /\ name = "edges" -> elements(EdgesOf(v.of))
        [] v.kind = "path" /\ name = "path_length" -> IntOf(PathLength(v.of))
        [] v.kind = "path" /\ name = "cardinality" -> IntOf(Len(v.of))

FieldOf(v, i) ==
  CASE v.kind = "record" -> IF i \in DOMAIN v.of THEN v.of[i] ELSE Null
    [] IsNullish(v) -> v
    [] OTHER -> Failed
Negated(v) == IF IsTruth(v) THEN Opposite(v) ELSE Failed
WithinMatch(agg, v) ==
  CASE v = Failed -> Failed
    [] v = Null -> ReduceGeneralSet(agg.kind, <<>>)
    [] v.kind = "group" -> ReduceGeneralSet(agg.kind, Gathered(v.of, agg.distinct))
    [] OTHER -> Null
FirstThere(values) ==
  LET isValue(v) == ~IsNullish(v)
      there == SelectSeq(values, isValue)
  IN  IF there = <<>> THEN Null ELSE there[1]
OnValues(op, l, r) == IF l = Failed \/ r = Failed THEN Failed ELSE EvalBinop(op, l, r)

RECURSIVE Eval(_, _)
Eval(e, env) ==
  CASE e.op = "const" -> e.value
    [] e.op = "var" -> VarOf(e.var, env)
    [] e.op = "attr" -> AttrIn(e.var, e.attr, env)
    [] e.op = "field" -> FieldOf(Eval(e.operand, env), e.at)
    [] e.op = "binary" -> OnValues(e.by, Eval(e.left, env), Eval(e.right, env))
    [] e.op = "not" -> Negated(Eval(e.operand, env))
    [] e.op = "isnull" -> BoolOf(IsNullish(Eval(e.operand, env)))
    [] e.op = "coalesce" -> FirstThere(Mapped(LAMBDA arg : Eval(arg, env), e.args))
    [] e.op = "case" ->
         LET cond == Eval(e.args[1], env)
         IN  IF cond = True THEN Eval(e.args[2], env)
             ELSE IF IsNullish(cond) \/ cond = False THEN Eval(e.args[3], env) ELSE Failed
    [] e.op = "list" ->
         LET source == Eval(e.args[1], env)
             keep(item) == Eval(e.args[2], Among(env, e.var, item)) = True
             body(item) == OrNull(Eval(e.args[3], Among(env, e.var, item)))
         IN  CASE source.kind = "group" -> GroupOf(Mapped(body, SelectSeq(source.of, keep)))
               [] IsNullish(source) -> GroupOf(<<>>)
               [] OTHER -> Failed
    [] e.op = "record" -> RecordOf(Mapped(LAMBDA arg : OrNull(Eval(arg, env)), e.args))
    [] e.op = "call" -> CallOn(e.name, Eval(e.operand, env))
    [] e.op = "agg" ->
         IF AggIsElementwise(e, env.groups) THEN WithinMatch(e, Eval(e.operand, env)) ELSE Failed

(***************************************************************************)
(* Aggregates over the rows of a group (fold_aggs): each becomes the       *)
(* constant it reduces to, and what is left is evaluated on the first row. *)
(* They are looked for in operators, null tests and fields only.           *)
(***************************************************************************)
Applied(agg, mus, groups) ==
  LET value(mu) == IF agg.kind = "rows" THEN True ELSE Eval(agg.operand, EnvOf(mu, groups))
  IN  ReduceGeneralSet(agg.kind, Gathered(Mapped(value, mus), agg.distinct))

RECURSIVE FoldAggs(_, _, _)
FoldAggs(e, mus, groups) ==
  CASE e.op = "agg" ->
         IF AggIsElementwise(e, groups) THEN e ELSE Const(Applied(e, mus, groups))
    [] e.op = "binary" ->
         [e EXCEPT !.left = FoldAggs(@, mus, groups), !.right = FoldAggs(@, mus, groups)]
    [] e.op \in {"not", "isnull", "field"} -> [e EXCEPT !.operand = FoldAggs(@, mus, groups)]
    [] e.op = "coalesce" -> [e EXCEPT !.args = Mapped(LAMBDA arg : FoldAggs(arg, mus, groups), @)]
    [] OTHER -> e

GroupedValue(e, mus, groups) ==
  OrNull(Eval(IF ContainsAgg(e) THEN FoldAggs(e, mus, groups) ELSE e,
              EnvOf(IF mus = <<>> THEN NoBinding ELSE mus[1], groups)))
==============================================================================
