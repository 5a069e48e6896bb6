-------------------------------- MODULE Rows --------------------------------
(***************************************************************************)
(* The rows a pattern is evaluated to (runtime/assignment.rs,              *)
(* runtime/result.rs) and the selection of paths among them                *)
(* (runtime/path_select.rs).                                               *)
(*                                                                         *)
(* A row is a tuple of paths with an assignment of values to variables.  A *)
(* path lists nodes and edges in turn, nodes below EdgeBase and edges      *)
(* above it.  A value is an element, a group of them, a path, nothing, or  *)
(* what a property holds: a number, a truth value, a text (its place among *)
(* the texts) or a record (the values of its fields by name).              *)
(***************************************************************************)
EXTENDS Integers, Sequences, FiniteSets, SequencesExt

EdgeBase == 100
IsEdge(x) == x > EdgeBase

Value(kind, id, of) == [kind |-> kind, id |-> id, of |-> of]
One(x) == Value("one", x, <<>>)
GroupOf(values) == Value("group", 0, values)
WholePath(p) == Value("path", 0, p)
Nothing == Value("nothing", 0, <<>>)
IntOf(n) == Value("int", n, <<>>)
BoolOf(b) == Value("bool", IF b THEN 1 ELSE 0, <<>>)
TextOf(n) == Value("text", n, <<>>)
RecordOf(values) == Value("record", 0, values)

Row(path, mu) == [paths |-> <<path>>, mu |-> mu]
PathOf(row) == row.paths[Len(row.paths)]
StartOf(row) == PathOf(row)[1]
EndOf(row) == LET p == PathOf(row) IN p[Len(p)]

(***************************************************************************)
(* Assignments.                                                            *)
(***************************************************************************)
NoBinding == [x \in {} |-> Nothing]
FromOptional(var, value) == IF var = "" THEN NoBinding ELSE var :> value

CanUnify(m, n) == \A x \in DOMAIN m \cap DOMAIN n : m[x] = n[x]
Unify(m, n) == n @@ m
Extend(m, x, value) == (x :> value) @@ m
FillNones(m, dom) == Unify([x \in dom |-> Nothing], m)
FillEmptyList(m, dom) == Unify([x \in dom |-> GroupOf(<<>>)], m)
ToGroup(m) == Unify(NoBinding, [x \in DOMAIN m |-> GroupOf(<<m[x]>>)])
ConcatGroup(m, n) ==
  Unify(NoBinding, [x \in DOMAIN m |-> IF x \in DOMAIN n THEN GroupOf(m[x].of \o n[x].of) ELSE m[x]])

(***************************************************************************)
(* Rows.  A path that is continued shares its last node with the next.     *)
(***************************************************************************)
Joined(p, q) == p \o Tail(q)
WithLast(row, path, mu) == [paths |-> [row.paths EXCEPT ![Len(row.paths)] = path], mu |-> mu]
ExtendPath(row, path, mu) == WithLast(row, Joined(PathOf(row), path), mu)
Bind(row, mu) == [row EXCEPT !.mu = mu]
ConcatRows(row, other) == ExtendPath(row, PathOf(other), ConcatGroup(row.mu, other.mu))

\* (The empty sequence in front makes the mapped one a sequence of values.)
Mapped(f(_), s) == <<>> \o [i \in DOMAIN s |-> f(s[i])]
FlatMap(f(_), s) == FlattenSeq(Mapped(f, s))
GroupedRows(rows) == LET grouped(row) == Bind(row, ToGroup(row.mu)) IN Mapped(grouped, rows)
Truncated(rows, limit) == IF limit > 0 /\ Len(rows) > limit THEN SubSeq(rows, 1, limit) ELSE rows

(***************************************************************************)
(* Modes and selection.                                                    *)
(***************************************************************************)
NoRepeats(s) == IsInjective(s)
EdgesOf(path) == SelectSeq(path, IsEdge)
NodesOf(path) == LET isNode(x) == ~IsEdge(x) IN SelectSeq(path, isNode)
PathLength(path) == Len(EdgesOf(path))

\* The closing node may be the opening node.
SimplePath(nodes) ==
  \/ NoRepeats(nodes)
  \/ NoRepeats(Front(nodes)) /\ nodes[1] = nodes[Len(nodes)]

SatisfiesMode(path, mode) ==
  CASE mode = "walk" -> TRUE
    [] mode = "trail" -> NoRepeats(EdgesOf(path))
    [] mode = "acyclic" -> NoRepeats(NodesOf(path))
    [] mode = "simple" -> SimplePath(NodesOf(path))

RowLength(row) == Len(FlatMap(EdgesOf, row.paths))
Boundary(row) == <<row.paths[1][1], EndOf(row)>>

\* The rows of the same boundary that come before row i in the order of selection.
Before(rows, i, precedes(_, _)) ==
  {j \in DOMAIN rows : Boundary(rows[j]) = Boundary(rows[i]) /\ precedes(j, i)}
Kept(rows, keep(_)) ==
  LET at == SelectSeq([i \in DOMAIN rows |-> i], keep) IN [k \in DOMAIN at |-> rows[at[k]]]

SelectAny(rows, count) ==
  LET earlier(j, i) == j < i
      keep(i) == Cardinality(Before(rows, i, earlier)) < count
  IN  Kept(rows, keep)

\* Shortest first, rows of one length in the order they came.
SelectShortestPaths(rows, count) ==
  LET precedes(j, i) == \/ RowLength(rows[j]) < RowLength(rows[i])
                        \/ RowLength(rows[j]) = RowLength(rows[i]) /\ j < i
      keep(i) == Cardinality(Before(rows, i, precedes)) < count
  IN  Kept(rows, keep)

SelectShortestGroups(rows, count) ==
  LET shorter(j, i) == RowLength(rows[j]) < RowLength(rows[i])
      keep(i) == Cardinality({RowLength(rows[j]) : j \in Before(rows, i, shorter)}) < count
  IN  Kept(rows, keep)

(***************************************************************************)
(* A prefix has a mode, a search and the number it asks for.               *)
(***************************************************************************)
Prefix(mode, search, count) == [mode |-> mode, search |-> search, count |-> count]

ApplyPathPrefix(rows, prefix) ==
  LET inMode(row) == \A i \in DOMAIN row.paths : SatisfiesMode(row.paths[i], prefix.mode)
      walks == SelectSeq(rows, inMode)
  IN  CASE prefix.search = "all" -> walks
        [] prefix.search = "any" -> SelectAny(walks, prefix.count)
        [] prefix.search = "paths" -> SelectShortestPaths(walks, prefix.count)
        [] prefix.search = "groups" -> SelectShortestGroups(walks, prefix.count)

\* unbounded_support: what makes an unbounded repetition under the prefix finite.
UnboundedPolicy(prefix) ==
  CASE prefix.mode # "walk" -> [kind |-> "mode", mode |-> prefix.mode]
    [] prefix.mode = "walk" /\ prefix.search \in {"paths", "groups"} ->
         [kind |-> "shortest", groups |-> prefix.search = "groups", count |-> prefix.count]
    [] OTHER -> [kind |-> "forbidden"]
==============================================================================
