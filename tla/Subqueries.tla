------------------------------ MODULE Subqueries ------------------------------
(***************************************************************************)
(* What a statement is asked: for its answer, or for the EXISTS or VALUE   *)
(* subquery of one of its rows (eval_exists, eval_value_subquery,          *)
(* runtime/engine.rs).  A subquery keeps a cache from row to row: one      *)
(* verdict when nothing is shared with the row, otherwise verdicts or      *)
(* values by what is shared, found either one row at a time by pinning the *)
(* body to the row, or for all rows at once.                               *)
(***************************************************************************)
EXTENDS Answers

CONSTANTS
  Graphs,       \* the graphs statements are put to
  Asked,        \* statements
  Probed,       \* subqueries, each with the clauses its rows come from
  Compares,     \* values to compare with each other
  Caps,         \* limits of the caller
  Manners       \* ways to sort

VARIABLES
  question,
  answer,
  cache,        \* of the subquery
  told          \* what the subquery was found to be, by row

answerVars == <<graph, question, answer, cache, told>>

Question(kind, what) == [kind |-> kind, what |-> what]
NoAnswer == [given |-> FALSE]
Subquery(outer, body, returned) == [outer |-> outer, body |-> body, returned |-> returned]
NoCache == [kind |-> "absent"]

Init ==
  /\ graph \in Graphs
  /\ question \in {Question("statement", q) : q \in Asked} \cup {Question("compare", x) : x \in Compares}
                    \cup {Question("exists", s) : s \in Probed.exists}
                    \cup {Question("value", s) : s \in Probed.value}
  /\ answer = NoAnswer
  /\ cache = NoCache
  /\ told = [mu \in {} |-> Null]

Engine(order) == Context(Routes, Unpinned, order)
AskStatement(cap, how) ==
  /\ ~answer.given /\ question.kind = "statement"
  /\ answer' = [given |-> TRUE, cap |-> cap,
                rows |-> RunQuery([question.what EXCEPT !.matches = Compiled(@)], cap, Engine(<<>>), how)]
  /\ UNCHANGED <<graph, question, cache, told>>

(***************************************************************************)
(* What a body shares with a row: variables of its patterns, and           *)
(* parameters, which it only refers to.                                    *)
(***************************************************************************)
BodyVars(body) == UNION {FreeVars(body.matches[i].pattern) : i \in DOMAIN body.matches}
BodyReferences(body) ==
  UNION {PatternExprVars(body.matches[i].pattern) : i \in DOMAIN body.matches}
    \cup UNION {Mentioned(e) : e \in Range(body.returns) \cup Range(body.by)}
    \cup UNION {Mentioned(spec.key) : spec \in {spec \in Range(body.order) : spec.key.op # "column"}}
Shared(body, mu) == BodyVars(body) \cap DOMAIN mu
Params(body, mu) == (BodyReferences(body) \ BodyVars(body)) \cap DOMAIN mu
PerRow(body, mu) == Params(body, mu) # {} /\ Shared(body, mu) = {}
Key(mu, vars) == [x \in vars |-> mu[x]]
Buckets(rows, vars) ==
  {Key(rows[i].mu, vars) : i \in {i \in DOMAIN rows : vars \subseteq DOMAIN rows[i].mu}}
Bucket(rows, key) == LET here(row) == \A x \in DOMAIN key : x \in DOMAIN row.mu /\ row.mu[x] = key[x]
                     IN  SelectSeq(rows, here)

RECURSIVE HasUndirectedEdge(_)
HasUndirectedEdge(p) ==
  CASE p.op = "edge" -> p.dir = "undirected"
    [] p.op = "node" -> FALSE
    [] p.op \in {"concat", "union", "join"} -> HasUndirectedEdge(p.left) \/ HasUndirectedEdge(p.right)
    [] OTHER -> HasUndirectedEdge(p.inner)

\* The body with what it shares with the row pinned to the nodes of the row.
PinnedBody(body, mu, vars, order) ==
  IF ~IsOneJoin(body.matches) \/ (\E x \in vars : ~IsNode(mu[x])) \/ HasUndirectedEdge(Collapsed(body.matches))
  THEN Declined
  ELSE PinnedRun(Collapsed(body.matches), 0, [x \in vars |-> mu[x].id], order)

(***************************************************************************)
(* EXISTS.                                                                 *)
(***************************************************************************)
Told(value, then) == [value |-> value, cache |-> then]
ToldBy(set, key) == Told(BoolOf(key \in set), [kind |-> "set", of |-> set])
Remembered(key, value) ==
  Told(value, [kind |-> "memo", of |-> (key :> value) @@ (IF cache.kind = "memo" THEN cache.of ELSE <<>>)])
There(rows) == BoolOf(rows # <<>>)

\* Mutant: a verdict is remembered whatever the row.
ExistsByOne(key, pinned, rows) ==
  IF cache.kind = "memo" THEN Told(cache.of[CHOOSE k \in DOMAIN cache.of : TRUE], cache)
  ELSE IF pinned.ok THEN Remembered(key, There(pinned.rows)) ELSE ToldBy(Buckets(rows, DOMAIN key), key)
ExistsByKey(key, pinned, rows) ==
  CASE cache.kind = "set" -> ToldBy(cache.of, key)
    [] cache.kind = "memo" /\ key \in DOMAIN cache.of -> Told(cache.of[key], cache)
    [] cache.kind \in {"absent", "memo"} /\ (cache.kind = "memo" => key \notin DOMAIN cache.of) ->
         IF pinned.ok THEN Remembered(key, There(pinned.rows)) ELSE ToldBy(Buckets(rows, DOMAIN key), key)
ExistsOnce(rows) ==
  IF cache.kind = "once" THEN Told(cache.of, cache) ELSE Told(There(rows), [kind |-> "once", of |-> There(rows)])

EvalExists(body, mu, pinned, rows) ==
  IF PerRow(body, mu) THEN Told(There(rows), cache)
  ELSE IF Shared(body, mu) = {} THEN ExistsOnce(rows)
  ELSE ExistsByKey(Key(mu, Shared(body, mu)), pinned, rows)

(***************************************************************************)
(* VALUE: the first row of the body in its order, projected.               *)
(***************************************************************************)
BodyGroups(body) == body.grouped \/ \E i \in DOMAIN body.returns : ContainsAgg(body.returns[i])
SortedBefore(body, rows, how) ==
  IF body.order # <<>> /\ ~SortsColumns(body) /\ ~BodyGroups(body)
  THEN SortRows(rows, body.order, 1, body.groups, how) ELSE rows
BodyValues(body, mus) == IF BodyGroups(body) THEN RunAggregated(body, mus) ELSE RowByRow(body, mus)
SortedAfter(body, values, how) ==
  IF body.order # <<>> /\ (SortsColumns(body) \/ BodyGroups(body))
  THEN SortProjectedRows(values, body.order, 1, how) ELSE values
FirstValue(values) == IF values = <<>> THEN Null ELSE values[1][1]
ProjectBody(body, rows, how) ==
  FirstValue(SortedAfter(body, BodyValues(body, Mapped(LAMBDA row : row.mu, SortedBefore(body, rows, how))), how))

Values(of, pinned, empty, coverage) ==
  [kind |-> "values", of |-> of, pinned |-> pinned, empty |-> empty, coverage |-> coverage]
\* Whether a key that has no value has no rows, or was never looked at.
\* Mutant: whatever is not there has no rows.
CoversAll(key) == TRUE
Covers(key) ==
  IF cache.coverage = Unpinned THEN ~cache.pinned
  ELSE \A x \in DOMAIN key \cap DOMAIN cache.coverage : IsNode(key[x]) /\ key[x].id \in cache.coverage[x]

ValuePinnable(body, mu) == Params(body, mu) = {} /\ ~BodyGroups(body)
\* The nodes each variable holds in the rows a projection goes through.
ValueHint(mus) ==
  LET vars == {x \in UNION {DOMAIN mu : mu \in mus} :
                 \A mu \in mus : x \in DOMAIN mu => IsNode(mu[x])}
  IN  [x \in vars |-> {mu[x].id : mu \in {mu \in mus : x \in DOMAIN mu}}]
ValueBodyPins(body, vars, hint) ==
  LET excluded(p) == GroupVars(p) \cup SelectiveInteriorVars(p)
      free == vars \ UNION {excluded(body.matches[i].pattern) : i \in DOMAIN body.matches}
  IN  [x \in free \cap DOMAIN hint |-> hint[x]]

ToldFrom(values, key) ==
  Told(IF key \in DOMAIN values.of THEN values.of[key] ELSE values.empty, values)
\* The rows to project and what each lot of them is the value of: the row alone when it is pinned
\* or the body is run for it, otherwise every bucket, and no rows for a bucket that is not there.
NoBucket == [none |-> TRUE]
Lots(body, mu, key, pinned, rows) ==
  CASE PerRow(body, mu) -> key :> rows
    [] ~PerRow(body, mu) /\ cache.kind = "values" /\ (key \in DOMAIN cache.of \/ Covers(key)) -> <<>>
    [] ~PerRow(body, mu) /\ pinned.ok
         /\ (cache.kind = "values" => key \notin DOMAIN cache.of /\ ~Covers(key) /\ cache.pinned) ->
         key :> pinned.rows
    [] OTHER -> [k \in Buckets(rows, DOMAIN key) |-> Bucket(rows, k)] @@ NoBucket :> <<>>
ValueFrom(values, key, perRow, coverage) ==
  CASE perRow -> Told(values[key], cache)
    [] ~perRow /\ values = <<>> -> ToldFrom(cache, key)
    [] ~perRow /\ DOMAIN values = {key} ->
         LET known == IF cache.kind = "values" THEN cache ELSE Values(<<>>, TRUE, Null, Unpinned)
         IN  Told(values[key], [known EXCEPT !.of = values @@ @])
    [] ~perRow /\ NoBucket \in DOMAIN values ->
         ToldFrom(Values([k \in DOMAIN values \ {NoBucket} |-> values[k]],
                         coverage # Unpinned, values[NoBucket], coverage), key)
EvalValue(body, mu, pinned, coverage, rows, how) ==
  LET project(lot) == ProjectBody(body, lot, how)
      key == Key(mu, Shared(body, mu))
      projected(lots) == [k \in DOMAIN lots |-> project(lots[k])]
  IN  ValueFrom(projected(Lots(body, mu, key, pinned, rows)), key, PerRow(body, mu), coverage)

(***************************************************************************)
(* A row of the outer clauses asks for its subquery, in whatever order.    *)
(***************************************************************************)
Outer(s) == MeaningOfChain(s.outer)
Coverage(s, mu) ==
  IF s.returned THEN ValueBodyPins(s.body, Shared(s.body, mu), ValueHint(Outer(s))) ELSE Unpinned
BodyContext(kind, s, mu, coverage) ==
  [Engine(<<>>) EXCEPT !.pins = IF kind = "value" /\ ~PerRow(s.body, mu) THEN coverage ELSE Unpinned,
                       !.scope = IF PerRow(s.body, mu) THEN Key(mu, Params(s.body, mu)) ELSE NoBinding]
BodyLimit(kind, body, mu) == IF kind = "exists" /\ Shared(body, mu) = {} THEN 1 ELSE 0

FoundIn(kind, s, mu, coverage, pinned, rows, how) ==
  IF kind = "exists" THEN EvalExists(s.body, mu, pinned, rows)
  ELSE EvalValue(s.body, mu, IF ValuePinnable(s.body, mu) THEN pinned ELSE Declined, coverage, rows, how)
FoundWith(kind, s, mu, coverage, how) ==
  FoundIn(kind, s, mu, coverage, PinnedBody(s.body, mu, Shared(s.body, mu), <<>>),
         RunMatchChain(s.body.matches, BodyLimit(kind, s.body, mu), BodyContext(kind, s, mu, coverage)), how)
Tell(found, mu) ==
  /\ cache' = found.cache
  /\ told' = (mu :> found.value) @@ told
Probe(mu, how) ==
  /\ question.kind \in {"exists", "value"} /\ mu \notin DOMAIN told
  /\ Tell(FoundWith(question.kind, question.what, mu, Coverage(question.what, mu), how), mu)
  /\ UNCHANGED <<graph, question, answer>>
ProbeAny(how) ==
  question.kind \in {"exists", "value"} /\ \E mu \in Outer(question.what) : Probe(mu, how)

Next ==
  \/ \E cap \in Caps : \E how \in Manners : AskStatement(cap, how)
  \/ \E how \in {Manner("auto", TRUE), Manner("auto", FALSE)} : ProbeAny(how)

Spec == Init /\ [][Next]_answerVars

(***************************************************************************)
(* What an answer means.  A candidate is a set of the assignments the      *)
(* clauses mean: a group of them, or one of them when there are no groups. *)
(***************************************************************************)
AnyOf(S) == IF S = {} THEN NoBinding ELSE CHOOSE mu \in S : TRUE
CandidatesOf(q, mus, grouping) ==
  IF ~grouping THEN {{mu} : mu \in mus}
  ELSE IF GroupKeys(q) = <<>> THEN {mus}
  ELSE {{mu \in mus : KeyOf(q, mu) = key} : key \in {KeyOf(q, mu) : mu \in mus}}

\* What an aggregate is over a set of assignments, of which each counts once, or each value once.
Counting(value, S, distinct) ==
  LET there == {mu \in S : ~IsNullish(value[mu])}
  IN  IF distinct THEN {CHOOSE mu \in there : value[mu] = v : v \in {value[mu] : mu \in there}} ELSE there
OverAll(kind, value, there) ==
  CASE kind = "count" -> IntOf(Cardinality(there))
    [] kind = "sum" -> IF there = {} THEN Null ELSE IntOf(MapThenSumSet(LAMBDA mu : value[mu].id, there))
    [] kind = "collect" -> GroupOf(Mapped(LAMBDA mu : value[mu], SetToSeq(there)))
    [] kind \in {"min", "max"} ->
         IF there = {} THEN Null
         ELSE LET least == CHOOSE mu \in there : \A nu \in there : value[mu].id <= value[nu].id
                  most == CHOOSE mu \in there : \A nu \in there : value[nu].id <= value[mu].id
              IN  IF kind = "min" THEN value[least] ELSE value[most]
AggregateMeans(agg, S, groups) ==
  IF agg.kind = "rows" THEN IntOf(Cardinality(S))
  ELSE LET value == [mu \in S |-> Eval(agg.operand, EnvOf(mu, groups))]
       IN  OverAll(agg.kind, value, Counting(value, S, agg.distinct))
RECURSIVE Reduced(_, _, _)
Reduced(e, S, groups) ==
  CASE e.op = "agg" -> IF AggIsElementwise(e, groups) THEN e ELSE Const(AggregateMeans(e, S, groups))
    [] e.op = "binary" -> [e EXCEPT !.left = Reduced(@, S, groups), !.right = Reduced(@, S, groups)]
    [] e.op \in {"not", "isnull", "field"} -> [e EXCEPT !.operand = Reduced(@, S, groups)]
    [] e.op = "coalesce" -> [e EXCEPT !.args = Mapped(LAMBDA arg : Reduced(arg, S, groups), @)]
    [] OTHER -> e

RowMeans(q, S) ==
  IF q.raw THEN AnyOf(S)
  ELSE Mapped(LAMBDA e : OrNull(Eval(Reduced(e, S, q.groups), EnvOf(AnyOf(S), q.groups))), q.returns)
KeysMean(q, S, row) ==
  Mapped(LAMBDA spec : IF spec.key.op = "column" THEN row[spec.key.at]
                       ELSE OrNull(Eval(spec.key, EnvOf(AnyOf(S), q.groups))), q.order)
Candidate(q, S, row) == [of |-> S, row |-> row, keys |-> KeysMean(q, S, row)]
Meant(q, mus, grouping) == {Candidate(q, S, RowMeans(q, S)) : S \in CandidatesOf(q, mus, grouping)}

PrecedesAt(x, y, spec) ==
  IF Null \in {x, y} THEN x # y /\ (x = Null) = spec.nullsFirst
  ELSE IF spec.asc THEN x.id < y.id ELSE x.id > y.id
Precedes(c, d, specs) ==
  \E i \in DOMAIN specs :
    PrecedesAt(c.keys[i], d.keys[i], specs[i]) /\ \A j \in 1..(i - 1) : c.keys[j] = d.keys[j]

\* Of the candidates with one row, DISTINCT leaves a first.
Leading(q, cs) ==
  IF q.distinct THEN {c \in cs : ~\E d \in cs : d.row = c.row /\ Precedes(d, c, q.order)} ELSE cs
Number(q, cs) == IF q.distinct THEN Cardinality({c.row : c \in cs}) ELSE Cardinality(cs)
Permitted(q, cap, n) == Min({n} \cup ({q.limit} \ {NoLimit}) \cup ({cap} \ {0}))
InOrder(q, rows, cs) ==
  \A i \in DOMAIN rows :
    /\ \E c \in cs : /\ c.row = rows[i]
                      /\ Number(q, {d \in cs : Precedes(d, c, q.order)}) < i
                      /\ i <= Number(q, {d \in cs : ~Precedes(c, d, q.order)})
    /\ Cardinality({j \in DOMAIN rows : rows[j] = rows[i]}) <= Number(q, {c \in cs : c.row = rows[i]})
AnswersAs(q, cs) ==
  /\ Len(answer.rows) = Permitted(q, answer.cap, Number(q, cs))
  /\ InOrder(q, answer.rows, cs)
Answered(grouping) ==
  answer.given /\ question.kind = "statement" /\ NeedsGrouping(question.what) = grouping
AnswerMeans(q) == AnswersAs(q, Leading(q, Meant(q, MeaningOfChain(q.matches), NeedsGrouping(q))))

(***************************************************************************)
(* Properties.                                                             *)
(***************************************************************************)
\* Whichever way the rows were sorted, found or cut, the answer is the first of the rows the
\* clauses mean, in the order asked for, as many as are asked for and none for another.
AnswerIsTheFirst == Answered(FALSE) => AnswerMeans(question.what)

\* Every group of the rows the clauses mean is answered once, with what its aggregates reduce to.
GroupsAreExact == Answered(TRUE) => AnswerMeans(question.what)

\* A predicate pushed into the index keeps just the elements on which it is true as an expression.
PushedAgrees ==
  question.kind = "compare" =>
    \A right \in Compares : \A op \in Orderings \cup {"=", "<>"} :
      CmpValues(question.what, op, right) <=> EvalBinop(op, question.what, right) = True

\* The assignments the body of a subquery means for a row.
ForRow(body, mu) == MeaningFrom({Key(mu, Shared(body, mu) \cup Params(body, mu))}, body.matches)

\* Whatever was remembered of the rows before, EXISTS holds on a row just when its body has a match
\* that agrees with the row.
ExistsIsPerRow ==
  question.kind = "exists" =>
    \A mu \in DOMAIN told : told[mu] = BoolOf(ForRow(question.what.body, mu) # {})

\* Whatever was remembered, VALUE is what its body returns for the row first, or null.
ValueIsPerRow ==
  question.kind = "value" =>
    LET body == question.what.body
        values(cs) == {c.row[1] : c \in {c \in cs : ~\E d \in cs : Precedes(d, c, body.order)}}
        orNull(V) == IF V = {} THEN {Null} ELSE V
    IN  \A mu \in DOMAIN told :
          told[mu] \in orNull(values(Meant(body, ForRow(body, mu), BodyGroups(body))))
==============================================================================
