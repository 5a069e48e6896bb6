------------------------------ MODULE Queries ------------------------------
(***************************************************************************)
(* A question put to the engine: a pattern or the clauses of a query, the  *)
(* limit of the query, the routes the engine may take (environment         *)
(* variables switch them off, FROGQL_DISABLE_SEEDED_REPEAT,                *)
(* FROGQL_DISABLE_SHORTEST_BFS, FROGQL_DISABLE_MATCH_PUSHDOWN and          *)
(* FROGQL_DISABLE_OPTIONAL_PUSHDOWN) and the order its hash sets of        *)
(* variables happen to have.  A query is checked before it is run, against *)
(* the active graph type: it may be refused, or known to have no answer    *)
(* without being run.                                                      *)
(***************************************************************************)
EXTENDS Meaning, Typechecker

CONSTANTS
  Graphs,       \* the graphs questions are put to
  Questions,    \* patterns that determine their answer
  Selections,   \* patterns under a prefix that chooses among matches
  Statements,   \* queries of several clauses, as they are written
  Limits,       \* limits of a query
  Orders,       \* orders of the variables
  Spelled(_, _),    \* the bytes of a label, a property, a text or a name
  EntriesPerPage, CellRoom, TextRoom, OverflowRoom    \* see GraphFile

ASSUME RoomAssumption ==
  /\ {EntriesPerPage, OverflowRoom} \subseteq Nat \ {0}
  /\ CellRoom \in Nat /\ TextRoom \in Nat \ (0..9)

VARIABLES question, answer

queryVars == <<graph, question, answer>>

Question(kind, what) == [kind |-> kind, what |-> what]
Answer(limit, rows) == [given |-> TRUE, limit |-> limit, rows |-> rows]
\* The rows of a query, and what was said of it before it was run.
Judged(limit, rows, checked) ==
  [given |-> TRUE, limit |-> limit, rows |-> rows, ok |-> checked.ok, empty |-> checked.empty,
   env |-> checked.env]
NoAnswer == [given |-> FALSE]

Init ==
  /\ graph \in Graphs
  /\ question \in {Question("pattern", p) : p \in Questions}
                     \cup {Question("selection", p) : p \in Selections}
                     \cup {Question("query", q) : q \in Statements}
  /\ answer = NoAnswer

Engine(routes, order) == Context(routes, Unpinned, order)

Ask(limit, order) ==
  /\ ~answer.given /\ question.kind = "pattern"
  /\ answer' = Answer(limit, Run(question.what, limit, Engine(Routes, order)))
  /\ UNCHANGED <<graph, question>>

AskSelected(routes) ==
  /\ ~answer.given /\ question.kind = "selection"
  /\ answer' = Answer(0, Run(question.what, 0, Engine(routes, <<>>)))
  /\ UNCHANGED <<graph, question>>

\* compile_query_with_diagnostics_with, and Connection::run_query.
Compile(schema) == CheckQuery(schema, Elaborate(question.what))
RunQuery(checked, limit, order) ==
  answer' = Judged(limit, IF ~checked.ok \/ checked.empty THEN <<>>
                          ELSE RunMatchChain(Compiled(question.what), limit, Engine(Routes, order)),
                   checked)
AskQuery(schema, limit, order) ==
  /\ ~answer.given /\ question.kind = "query"
  /\ RunQuery(Compile(schema), limit, order)
  /\ UNCHANGED <<graph, question>>

Next ==
  \/ \E limit \in Limits : \E order \in Orders : Ask(limit, order)
  \/ \E routes \in {Routes, {}} : AskSelected(routes)
  \/ \E schema \in {StarSchema, InferSimpleSchema} : \E limit \in Limits : \E order \in Orders :
       AskQuery(schema, limit, order)

Spec == Init /\ [][Next]_queryVars

(***************************************************************************)
(* Properties.                                                             *)
(***************************************************************************)
Given(kinds) == answer.given /\ question.kind \in kinds /\ (question.kind = "query" => answer.ok)
Whole(kinds) == Given(kinds) /\ answer.limit = 0
Some(kind) == Given({kind}) /\ answer.limit > 0

Times(rows, r) == Cardinality({i \in DOMAIN rows : rows[i] = r})
Bindings(rows) == [i \in DOMAIN rows |-> rows[i].mu]
RowSet(rows) == {rows[i] : i \in DOMAIN rows}
\* Adjacency lists an undirected self-loop twice, the triple index once.
CountedAlike(r) ==
  \A k \in DOMAIN r.paths : \A i \in DOMAIN r.paths[k] :
    LET x == r.paths[k][i]
    IN  IsEdge(x) => graph.edges[x].kind = "directed" \/ Src(x) # Tgt(x)
SameRows(rows, others) ==
  /\ RowSet(rows) = RowSet(others)
  /\ \A r \in RowSet(rows) : CountedAlike(r) => Times(rows, r) = Times(others, r)

AsMatch(r) == IF Len(r.paths) = 1 THEN Match(r.paths[1], r.mu) ELSE <<r.paths[1], r.paths[2], r.mu>>
MatchesOf(p) == IF p.op = "join" THEN Pairs(p) ELSE Denotes(p)

\* Every route gives the rows the general route gives, as often, and what is compiled and run by
\* every route, or not run at all, gives each assignment as often as the query that is only
\* elaborated, run by the general route.  Only which of several shortest paths is the one asked
\* for is left to the route.
Determined(p) == p.op = "selected" => p.prefix.search \in {"all", "groups"}
LoopsAreDirected ==
  \A e \in EdgesOfKind("undirected") : Src(e) # Tgt(e)
AsOften(rows, others) ==
  \A r \in RowSet(rows) \cup RowSet(others) : Times(rows, r) = Times(others, r)
RoutesAgree ==
  /\ Whole({"pattern", "selection"}) /\ Determined(question.what) =>
       SameRows(answer.rows, Run(question.what, 0, Engine({}, <<>>)))
  /\ Whole({"query"}) /\ LoopsAreDirected =>
       AsOften(Bindings(answer.rows),
               Bindings(RunMatchChain(Elaborate(question.what), 0, Engine({}, <<>>))))

\* The rows of an answer are the matches of the pattern, none missing and none too many.
AnswerIsMeaning ==
  Whole({"pattern"}) => {AsMatch(r) : r \in RowSet(answer.rows)} = MatchesOf(question.what)

\* got are some rows of all, as many as the limit lets through.
CutFrom(got, all, limit) ==
  /\ Len(got) = IF Len(all) < limit THEN Len(all) ELSE limit
  /\ \A r \in RowSet(got) : Times(got, r) <= Times(all, r)

\* A limit only cuts the answer.
LimitOnlyCuts ==
  /\ Some("pattern") =>
       CutFrom(answer.rows, Run(question.what, 0, Engine(Routes, <<>>)), answer.limit)
  /\ Some("query") =>
       CutFrom(Bindings(answer.rows),
               Bindings(RunMatchChain(Compiled(question.what), 0, Engine(Routes, <<>>))), answer.limit)

InMode(p) == {m \in Denotes(p.inner) : SatisfiesMode(m.path, p.prefix.mode)}
Chosen(prefix, ms, ends, len) ==
  LET shorter == {m \in ms : Ends(m) = ends /\ PathLength(m.path) < len}
      these == {m \in ms : Ends(m) = ends /\ PathLength(m.path) = len}
      left == prefix.count - Cardinality(shorter)
  IN  CASE prefix.search = "groups" ->
             IF Cardinality({PathLength(m.path) : m \in shorter}) < prefix.count
             THEN Cardinality(these) ELSE 0
        [] prefix.search = "paths" ->
             IF left <= 0 THEN 0 ELSE IF left < Cardinality(these) THEN left ELSE Cardinality(these)

\* Of each pair of ends, as many matches of each length as the prefix asks for, and no path twice
\* in the place of another.
SelectionIsShortest ==
  Whole({"selection"}) =>
    LET ms == InMode(question.what)
        got == {AsMatch(r) : r \in RowSet(answer.rows)}
    IN  /\ got \subseteq ms
        /\ question.what.prefix.search = "paths" => Cardinality(got) = Len(answer.rows)
        /\ \A ends \in {Ends(m) : m \in ms} : \A len \in LengthsOf(ms, ends) :
             Cardinality({m \in got : Ends(m) = ends /\ PathLength(m.path) = len})
               = Chosen(question.what.prefix, ms, ends, len)

\* The assignments a query answers with are those its clauses as written mean.
StatementIsMeaning ==
  Whole({"query"}) => RowSet(Bindings(answer.rows)) = MeaningOfChain(question.what)

(***************************************************************************)
(* The checker.                                                            *)
(***************************************************************************)
\* A query known to have no answer without being run has none when it is run.
EmptyIsEmpty ==
  Given({"query"}) /\ answer.empty =>
    RunMatchChain(Compiled(question.what), 0, Engine(Routes, <<>>)) = <<>>

ConformsValue(element, attr, t) ==
  BelowValues(IF attr \in DOMAIN element.props THEN TypeOfValue(element.props[attr]) ELSE {NullType}, t)
Conforms(element, d) ==
  /\ IsSubtype(FromList(element.labels), d.label)
  /\ d.props.kind = "closed" => DOMAIN element.props \subseteq DOMAIN d.props.of
  /\ \A attr \in DOMAIN d.props.of : ConformsValue(element, attr, d.props.of[attr])
ConformsEdge(e, t) ==
  /\ graph.edges[e].kind = t.kind /\ Conforms(graph.edges[e].is, t.d)
  /\ Conforms(graph.nodes[Src(e)], t.left) /\ Conforms(graph.nodes[Tgt(e)], t.right)
RECURSIVE Inhabits(_, _)
Inhabits(value, t) ==
  \E a \in t :
    CASE value.kind = "nothing" -> a = NullType
      [] value.kind = "path" -> a = PathVariable
      [] value.kind = "one" /\ IsEdge(value.id) ->
           a.is = "edge" /\ \E reading \in Readings(a) : ConformsEdge(value.id, reading)
      [] value.kind = "one" /\ ~IsEdge(value.id) ->
           a.is = "node" /\ Conforms(graph.nodes[value.id], a.d)
      [] value.kind = "group" ->
           /\ a.is = "group" /\ Len(value.of) >= a.min
           /\ \A i \in DOMAIN value.of : Inhabits(value.of[i], a.of)

\* What a row binds has the type its variable was given, and has no variable without a type.
RowsFitTheirTypes ==
  Given({"query"}) => \A r \in RowSet(answer.rows) : \A x \in DOMAIN r.mu :
    x \in DOMAIN answer.env /\ Inhabits(r.mu[x], answer.env[x])

(***************************************************************************)
(* The stores.  The graph is the content of a file that one of them has    *)
(* opened; in the file its elements are numbered from one on.              *)
(***************************************************************************)
File == INSTANCE GraphFile

RECURSIVE Spell(_)
Spell(value) ==
  CASE value.kind = "text" -> [kind |-> "text", text |-> Spelled("text", value.id)]
    [] value.kind = "record" ->
         [kind |-> "record", fields |-> SetToSeq({<<Spelled("attr", x), Spell(value.of[x])>> : x \in DOMAIN value.of})]
    [] OTHER -> value
SpelledElement(name, is) ==
  [name |-> Spelled(name[1], name[2]), labels |-> Mapped(LAMBDA l : Spelled("label", l), is.labels),
   props |-> {<<Spelled("attr", x), Spell(is.props[x])>> : x \in DOMAIN is.props}]

AllNodes == Ascending(Nodes)
AllEdges == Ascending(DOMAIN graph.edges)
IdIn(s, x) == CHOOSE i \in DOMAIN s : s[i] = x
NodeContent == Mapped(LAMBDA n : SpelledElement(<<"node", n>>, graph.nodes[n]), AllNodes)
EdgeContent == Mapped(LAMBDA e : SpelledElement(<<"edge", e>>, graph.edges[e].is), AllEdges)
EdgeEnds(e) == <<IdIn(AllNodes, Src(e)), IdIn(AllNodes, Tgt(e)), graph.edges[e].kind = "directed">>

ToWrite ==
  LET ordered(x) == [x EXCEPT !.props = SetToSeq(@)]
      edge(i) == LET ends == EdgeEnds(AllEdges[i])
                 IN  [is |-> ordered(EdgeContent[i]), src |-> ends[1], tgt |-> ends[2], directed |-> ends[3]]
  IN  [nodes |-> Mapped(ordered, NodeContent), edges |-> [i \in DOMAIN AllEdges |-> edge(i)]]

CarryingLabel(content, label) == SelectSeq([i \in DOMAIN content |-> i], LAMBDA i : Contains(content[i].labels, label))
Labels == UNION {ToSet(x.labels) : x \in ToSet(NodeContent \o EdgeContent)}
EdgesWith(label, kind) == SelectSeq(CarryingLabel(EdgeContent, label), LAMBDA i : graph.edges[AllEdges[i]].kind = kind)
ToServe ==
  LET ids(edges) == Mapped(LAMBDA e : IdIn(AllEdges, e), edges)
      at(n) == [out |-> ids(OutgoingEdges(n)), in |-> ids(IncomingEdges(n)), und |-> ids(UndirectedEdgesOf(n))]
  IN  [nodes |-> NodeContent,
       edges |-> [i \in DOMAIN AllEdges |-> <<EdgeContent[i], EdgeEnds(AllEdges[i])>>],
       nodesWith |-> [l \in Labels |-> CarryingLabel(NodeContent, l)],
       directedWith |-> [l \in Labels |-> EdgesWith(l, "directed")],
       undirectedWith |-> [l \in Labels |-> EdgesWith(l, "undirected")],
       lists |-> Mapped(at, AllNodes)]

\* What the graph was when it was saved is what every store that opens the file serves to a query, from the
\* indexes of the file or from a scan of its records: the same ids, names, labels, properties and
\* ends, and the same lists; also from a file of an older version, before and after it is upgraded.
StoresServeTheGraph ==
  ~answer.given =>
    LET saved == File!SaveGraph(ToWrite)
        legacy == File!Legacy(ToWrite)
    IN  \A file \in {saved, legacy, File!Upgraded(legacy)} :
          ~file.failed => \A store \in File!Stores(file, Labels) : store = ToServe
==============================================================================
