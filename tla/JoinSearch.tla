------------------------------ MODULE JoinSearch ------------------------------
(***************************************************************************)
(* The search of the leapfrog join (runtime/ltj/algorithm.rs): a cursor    *)
(* for each triple of a pattern, and an order that says which variable to  *)
(* bind at each level.  A level goes through the values on which all the   *)
(* cursors of its variable agree; for each it descends in all of them,     *)
(* searches below, and comes up again.                                     *)
(*                                                                         *)
(* The recursion of the code is the path of the order, with the value each *)
(* level stands at.  A search for the nearest to a vector, in its memo     *)
(* form, stops at the search variable, files the prefixes that lead to     *)
(* each of its values, and resumes them later one by one.                  *)
(***************************************************************************)
EXTENDS EliminationOrder, TripleIterators

CONSTANTS
  Layouts,    \* among "array" and "compact"
  Sought,     \* values to look for, there or not
  MaxResumes, \* bound: prefixes a memo search takes up
  Searches    \* pairs of what is in the index, [built, added, removed], and what is asked:
              \* [triples, weights, order, level, limit, arc, memo, timed]

VARIABLES
  index,      \* see TripleIterators
  question,   \* what is asked
  cursors,    \* a cursor for each triple
  values,     \* the value each level stands at, or None
  table,      \* what the memo form has filed: paths with their values
  resumes,    \* how many of them it has taken up
  stopped,    \* a limit or the deadline was reached
  over,       \* the search has returned
  rows        \* a bag: an edge for each triple, and a value for each variable

searchVars == <<index, question, cursors, values, table, resumes, stopped, over, rows>>
vars == <<orderVars, searchVars>>

(***************************************************************************)
(* The triples of a pattern.                                               *)
(***************************************************************************)
Triples == question.triples
PatternVars(triples) == {triples[i][p] : i \in DOMAIN triples, p \in Positions} \ (0..100)
Opened(triples) == [i \in DOMAIN triples |-> CursorAt(index, triples[i])]

\* The elements of a finite set, each after those before it.
Sorted(S, before) ==
  [n \in 1..Cardinality(S) |-> CHOOSE x \in S : Cardinality({y \in S : <<y, x>> \in before}) = n - 1]

\* Where a variable stands: triples in turn, and the positions of each.
Places(triples, x) == {o \in (DOMAIN triples) \X Positions : triples[o[1]][o[2]] = x}
Occurrences(triples, x) ==
  LET at == Places(triples, x)
  IN  Sorted(at, {o \in at \X at : o[1][1] < o[2][1] \/ (o[1][1] = o[2][1] /\ o[1][2] < o[2][2])})

\* The least subtree any cursor with the variable reports.
MinSize(triples, curs, x) ==
  LET at == Places(triples, x)
  IN  Min({SubtreeSize(index, curs[o[1]], o[2]) : o \in {o \in at : o[2] \in Free(curs[o[1]])}} \cup {Unbounded})

\* What is asked of the leapfrog join: an order pinned for a vector search names a variable of the
\* pattern; a correlated one has one search variable and another for its anchor, both in the
\* pattern, and no other is what its memo form stops at.
AsksSoundly(q) ==
  /\ q.triples \in Seq([1..3 -> Nat])
  /\ q.weights \in [PatternVars(q.triples) -> Nat]
  /\ q.level \in Nat /\ q.limit \in Nat
  /\ \A a, b \in q.arc : a = b
  /\ \A arc \in q.arc : arc[1] # arc[2] /\ \A x \in {arc[1], arc[2]} :
        x > 100 /\ \E i \in DOMAIN q.triples, p \in 1..3 : x = q.triples[i][p]
  /\ \A arc \in q.arc : q.memo \in {0, arc[1]}
  /\ q.order = "pinned" /\ q.arc = {} => q.memo \in PatternVars(q.triples)
Contents == [built : Seq([1..4 -> Nat]), added : Seq([1..4 -> Nat]), removed : SUBSET Nat]
ASSUME SearchesAssumption == \A search \in Searches : search[1] \in Contents /\ AsksSoundly(search[2])

(***************************************************************************)
(* Choosing the order (try_ltj_inner).                                     *)
(***************************************************************************)
PointWeight == 1
IsLonely(q, x) == Len(Occurrences(q.triples, x)) <= 1 /\ \A arc \in q.arc : x \notin {arc[1], arc[2]}
HeldToTheEnd(q, x) == IsLonely(q, x) /\ q.weights[x] # PointWeight
HeldVars(q) == {x \in PatternVars(q.triples) : HeldToTheEnd(q, x)}

LighterOf(q, x, y) == q.weights[x] < q.weights[y] \/ (q.weights[x] = q.weights[y] /\ x < y)
\* VeoSimple: what is held back last, the lighter first.
SimpleOrder(q) ==
  LET all == PatternVars(q.triples)
      held == HeldVars(q)
  IN  Sorted(all, {o \in all \X all : \/ o[1] \notin held /\ o[2] \in held
                                      \/ (o[1] \in held <=> o[2] \in held) /\ LighterOf(q, o[1], o[2])})

Place(s, x) == CHOOSE i \in DOMAIN s : s[i] = x
Without(s, x) == RemoveAt(s, Place(s, x))
Inserted(s, at, x) == SubSeq(s, 1, at) \o <<x>> \o SubSeq(s, at + 1, Len(s))

\* VeoOverride::pin_at and pin_at_after: the search variable at a level, its anchor before it.
PinAt(s, x, level) == Inserted(Without(s, x), AtMost(level, Len(s) - 1), x)
PinAtAfter(s, x, level, anchor) ==
  LET rest == Without(s, x)
      at == AtMost(level, Len(rest))
  IN  IF Place(rest, anchor) <= at THEN Inserted(rest, at, x)
      ELSE Inserted(Inserted(Without(rest, anchor), at, anchor), at + 1, x)
MaxLevel(q) == Cardinality({x \in PatternVars(q.triples) : ~IsLonely(q, x)})

Pinned(q, level) ==
  LET arc == CHOOSE a \in q.arc : TRUE
  IN  IF q.arc = {} THEN PinAt(SimpleOrder(q), q.memo, level)
      ELSE PinAtAfter(SimpleOrder(q), arc[1], level, arc[2])

\* Nothing is left to choose when each kind of variable is there once at most.
OrderIsForced(q) ==
  LET held == HeldVars(q)
      point == {x \in PatternVars(q.triples) \ held : q.weights[x] = PointWeight}
  IN  /\ Cardinality(held) <= 1 /\ Cardinality(point) <= 1
      /\ Cardinality(PatternVars(q.triples) \ (held \cup point)) <= 1

Related(q, x) ==
  UNION {{q.triples[i][p] : p \in Positions} : i \in {i \in DOMAIN q.triples : \E p \in Positions : q.triples[i][p] = x}}
    \cup {y \in PatternVars(q.triples) : \E arc \in q.arc : {arc[1], arc[2]} = {x, y}}

FixedPlan(sequence) ==
  [free |-> {}, lonely |-> sequence, weight |-> <<>>, syntactic |-> <<>>, related |-> <<>>, prereq |-> {}]

\* AdaptiveVeo::new: what is held back goes last, the lighter first.
StartWeight(q, curs, x) == AtMost(q.weights[x], MinSize(q.triples, curs, x))
HeldOrder(q, curs) ==
  LET held == HeldVars(q)
      weight == [x \in held |-> StartWeight(q, curs, x)]
  IN  Sorted(held, {o \in held \X held : \/ weight[o[1]] < weight[o[2]]
                                         \/ weight[o[1]] = weight[o[2]] /\ LighterOf(q, o[1], o[2])})

AdaptivePlan(q, curs) ==
  LET free == PatternVars(q.triples) \ HeldVars(q)
  IN  [free |-> free, lonely |-> HeldOrder(q, curs), weight |-> [x \in free |-> StartWeight(q, curs, x)],
       syntactic |-> [x \in free |-> q.weights[x]],
       related |-> [x \in free |-> (Related(q, x) \cap free) \ {x}], prereq |-> q.arc]

FixedOrder(q) ==
  LET arc == CHOOSE a \in q.arc : TRUE
      simple == SimpleOrder(q)
  IN  CASE q.order = "pinned" -> Pinned(q, AtMost(q.level, MaxLevel(q)))
        [] q.order # "pinned" /\ q.arc = {} -> simple
        [] OTHER -> PinAtAfter(simple, arc[1], Place(simple, arc[1]) - 1, arc[2])

PlanFor(q, curs) ==
  IF q.order = "adaptive" /\ ~OrderIsForced(q) THEN AdaptivePlan(q, curs) ELSE FixedPlan(FixedOrder(q))

(***************************************************************************)
(* The candidates of a level (seek, seek_all).                             *)
(***************************************************************************)
CursorsOf(curs, x) == LET at == Occurrences(Triples, x) IN [k \in DOMAIN at |-> <<curs[at[k][1]], at[k][2]>>]

\* A value is taken when every cursor has leapt to it in turn.
Agreed(n, agreeing) == agreeing >= n

\* One cursor is asked for a value from another on, when so many in turn have come to that one.
Asks(n) == [at : 1..n, from : Nat, agreeing : 0..(n - 1)]
Agreeing(ask, val) == IF val = ask.from /\ ask.agreeing > 0 THEN ask.agreeing + 1 ELSE 1
Answer(leap, n, ask, val) ==
  IF val = None THEN None
  ELSE IF Agreed(n, Agreeing(ask, val)) THEN val
  ELSE leap[[at |-> 1 + (ask.at % n), from |-> val, agreeing |-> Agreeing(ask, val)]]
Leapfrog(places) ==
  LET n == Len(places)
      leap[ask \in Asks(n)] == Answer(leap, n, ask, Leap(index, places[ask.at][1], places[ask.at][2], ask.from))
  IN  leap
SeekFrom(places, c) ==
  IF Len(places) = 1 THEN Leap(index, places[1][1], places[1][2], c)
  ELSE Leapfrog(places)[[at |-> 1, from |-> c, agreeing |-> 0]]

LeastFrom(S, c) == LET more == {v \in S : v >= c} IN IF more = {} THEN None ELSE Min(more)
\* The last component of a single triple is listed at once.
ValueFrom(curs, x, c) ==
  LET places == CursorsOf(curs, x)
      only == places[1]
  IN  IF Len(places) = 1 /\ InLastLevel(only[1]) THEN LeastFrom(SeekAll(index, only[1], only[2]), c)
      ELSE SeekFrom(places, c)

And(v, more) == IF v = None THEN {} ELSE {v} \cup more[v + 1]
ValuesFrom(curs, x, first) ==
  LET from[c \in Nat] == And(ValueFrom(curs, x, c), from)
  IN  from[first]

\* A cursor goes down once for each of its positions the variable stands at, and up as often.
DownOne(triple, cur, p, x, val) == IF triple[p] = x THEN CursorDown(index, cur, p, val) ELSE cur
DownIn(triple, cur, x, val) ==
  DownOne(triple, DownOne(triple, DownOne(triple, cur, Subject, x, val), Predicate, x, val), Object, x, val)
DownAt(curs, x, val) == [i \in DOMAIN curs |-> DownIn(Triples[i], curs[i], x, val)]

UpOne(triple, cur, p, x) == IF triple[p] = x THEN CursorUp(cur) ELSE cur
UpIn(triple, cur, x) == UpOne(triple, UpOne(triple, UpOne(triple, cur, Subject, x), Predicate, x), Object, x)
UpAt(curs, x) == [i \in DOMAIN curs |-> UpIn(Triples[i], curs[i], x)]

LastVar == order.path[Level(order)]
LastValue == values[Len(values)]
WithLast(v) == [values EXCEPT ![Len(values)] = v]

(***************************************************************************)
(* The search.                                                             *)
(***************************************************************************)
Begin(q) ==
  /\ question = q
  /\ cursors = Opened(q.triples)
  /\ InitOrder(PlanFor(q, cursors))
  /\ values = <<>> /\ table = {} /\ rows = EmptyBag
  /\ resumes = 0 /\ stopped = FALSE /\ over = FALSE
Init ==
  \E l \in Layouts, search \in Searches : index = IndexOf(l, search[1]) /\ Begin(search[2])

Enter ==
  /\ phase = "below" /\ Level(order) < Size
  /\ \E x \in NextVars(order) : NextVar(x) /\ values' = Append(values, ValueFrom(cursors, x, 0))
  /\ UNCHANGED <<index, question, cursors, table, resumes, stopped, over, rows>>

\* The level of the search variable, before anything was filed below it.
Filing == question.memo = LastVar /\ replayed = 0

\* Into every cursor of the variable; then the order weighs again what is left.
Descend ==
  /\ phase = "open" /\ LastValue # None /\ ~Filing
  /\ cursors' = DownAt(cursors, LastVar, LastValue)
  /\ Down([x \in PatternVars(Triples) |-> MinSize(Triples, cursors', x)])
  /\ UNCHANGED <<index, question, values, table, resumes, stopped, over, rows>>

Return ==
  /\ Up
  /\ cursors' = UpAt(cursors, LastVar)
  /\ values' = WithLast(IF stopped THEN None ELSE ValueFrom(cursors', LastVar, LastValue + 1))
  /\ UNCHANGED <<index, question, table, resumes, stopped, over, rows>>

Close ==
  /\ phase = "open" /\ LastValue = None
  /\ Done
  /\ values' = WithoutLast(values)
  /\ UNCHANGED <<index, question, cursors, table, resumes, stopped, over, rows>>

\* Every triple has its three components: a row for each combination of its edges.
BoundValues == [x \in PatternVars(Triples) |-> values[CHOOSE l \in DOMAIN values : order.path[l] = x]]
EdgeChoices(lists) == {f \in [DOMAIN lists -> UNION {DOMAIN lists[i] : i \in DOMAIN lists}] :
                         \A i \in DOMAIN lists : f[i] \in DOMAIN lists[i]}
BagOf(f) == [r \in Range(f) |-> Cardinality({s \in DOMAIN f : f[s] = r})]
RowOf(lists, f) == [edges |-> [i \in DOMAIN lists |-> lists[i][f[i]]], at |-> BoundValues]

Room(n) == IF question.limit = 0 THEN n ELSE AtMost(n, question.limit - BagCardinality(rows))
LimitReached(bag) == question.limit > 0 /\ BagCardinality(bag) >= question.limit

Match ==
  /\ phase = "below" /\ Level(order) = Size
  /\ TurnBack
  /\ LET lists == [i \in DOMAIN Triples |-> Eids(index, cursors[i])]
         choices == EdgeChoices(lists)
     IN  \E S \in kSubset(Room(Cardinality(choices)), choices) :
           rows' = rows (+) BagOf([f \in S |-> RowOf(lists, f)])
  /\ stopped' = LimitReached(rows')
  /\ UNCHANGED <<index, question, cursors, values, table, resumes, over>>

\* The deadline is looked at on entry to every level.
Expire ==
  /\ phase = "below" /\ question.timed
  /\ TurnBack
  /\ stopped' = TRUE
  /\ UNCHANGED <<index, question, cursors, values, table, resumes, over, rows>>

(***************************************************************************)
(* The memo form of a vector search (run_nearest_memo, resume).            *)
(***************************************************************************)
\* A correlated search files under its anchor, bound above.
AnchorBound == \A arc \in question.arc : \E l \in 1..(Level(order) - 1) : order.path[l] = arc[2]

\* Every candidate with the variables above and their values.
Entries(S) == {[path |-> order.path, values |-> WithLast(v)] : v \in S}

\* Mutant: a candidate met again takes the place of what was filed for it.
FiledOver(S) == {e \in table : Last(e.values) \notin S} \cup Entries(S)
\* A candidate keeps every prefix it was met under.
Filed(S) == table \cup Entries(S)

FileVisit ==
  /\ phase = "open" /\ LastValue # None /\ Filing
  /\ File
  /\ table' = IF AnchorBound THEN Filed(ValuesFrom(cursors, LastVar, LastValue)) ELSE table
  /\ values' = WithLast(None)
  /\ UNCHANGED <<index, question, cursors, resumes, stopped, over, rows>>

\* The ranking may come to the entries in any order, and may stop before the last.
TakeUp(entry) ==
  /\ ~stopped /\ ~over /\ resumes < MaxResumes
  /\ Resume(entry.path)
  /\ values' = entry.values
  /\ table' = table \ {entry}
  /\ resumes' = resumes + 1
  /\ UNCHANGED <<index, question, cursors, stopped, over, rows>>

ForceDown ==
  /\ ForceVar
  /\ cursors' = DownAt(cursors, todo[1], values[Level(order) + 1])
  /\ UNCHANGED <<index, question, values, table, resumes, stopped, over, rows>>

UndoForce ==
  /\ Undo
  /\ cursors' = UpAt(cursors, LastVar)
  /\ values' = WithoutLast(values)
  /\ UNCHANGED <<index, question, table, resumes, stopped, over, rows>>

Finish ==
  /\ phase = "back" /\ Level(order) = 0 /\ ~over
  /\ over' = TRUE
  /\ UNCHANGED orderVars
  /\ UNCHANGED <<index, question, cursors, values, table, resumes, stopped, rows>>

Next ==
  \/ Enter \/ Descend \/ Return \/ Close \/ Match \/ Expire
  \/ FileVisit \/ (\E entry \in table : TakeUp(entry)) \/ ForceDown \/ UndoForce
  \/ Finish

Spec == Init /\ [][Next]_vars

(***************************************************************************)
(* Properties.                                                             *)
(***************************************************************************)
\* The edges that stand in the index: built and added, less the deleted, each as often as it stands there.
Merged == index.built \o index.added
Standing == {k \in DOMAIN Merged : Merged[k][4] \notin index.removed}

\* The entries that agree with what a cursor has fixed.
AgreesWith(entry, cur) == \A k \in DOMAIN cur.fixed : entry[cur.fixed[k][1]] = cur.fixed[k][2]
Under(entries, cur) == {k \in DOMAIN entries : AgreesWith(entries[k], cur)}
ValuesAt(cur, pos) == {Merged[k][pos] : k \in Under(Merged, cur)}
\* Arrays have an entry for each edge, tries a leaf for each triple; what was added is in arrays.
Subtree(cur) ==
  LET built == Under(index.built, cur)
  IN  (IF index.layout = "array" THEN Cardinality(built) ELSE Cardinality({SubSeq(index.built[k], 1, 3) : k \in built}))
        + Cardinality(Under(index.added, cur))

\* An edge for each triple, such that they fit the pattern.
Consistent(f) ==
  /\ \A i \in DOMAIN Triples, p \in Positions :
        IsVariable(Triples[i][p]) \/ Merged[f[i]][p] = Triples[i][p]
  /\ \A i, j \in DOMAIN Triples : \A p, q \in Positions :
        Triples[i][p] = Triples[j][q] => Merged[f[i]][p] = Merged[f[j]][q]
Fits == {f \in [DOMAIN Triples -> Standing] : Consistent(f)}
JoinRow(f) ==
  [edges |-> [i \in DOMAIN Triples |-> Merged[f[i]][4]],
   at |-> [x \in PatternVars(Triples) |-> LET o == CHOOSE o \in Places(Triples, x) : TRUE IN Merged[f[o[1]]][o[2]]]]
TheJoin == BagOf([f \in Fits |-> JoinRow(f)])

Extends(row, entry) == \A l \in DOMAIN entry.path : row.at[entry.path[l]] = entry.values[l]

\* Where cursors stand; a handle below is of no account.
Standpoints(curs) == [i \in DOMAIN curs |-> <<curs[i].fixed, curs[i].empty, curs[i].deadFrom>>]

\* A search that was not cut off has found each choice of edges that fits the pattern as often
\* as the index holds it, but for the prefixes a memo search has not taken up; a limit or a
\* deadline leaves rows of the join only, and a limit leaves as many as it allows.  However it
\* ended, every cursor is back where it began, so that the next search starts from there.
RowsAreTheJoin ==
  over =>
    /\ rows \sqsubseteq TheJoin
    /\ ~stopped => rows = [r \in {r \in DOMAIN TheJoin : ~\E e \in table : Extends(r, e)} |-> TheJoin[r]]
    /\ stopped /\ ~question.timed => BagCardinality(rows) = question.limit
    /\ Standpoints(cursors) = Standpoints(Opened(Triples)) /\ order = Fresh(plan) /\ values = <<>>

\* Wherever a cursor has gone, to values its triple has or has not, what it says of each free
\* position is what the entries agreeing with it say: the least value not below any other, all
\* of them in order, and how many there are once anything is fixed; with nothing free, the edges.
NavigationIsExact ==
  \A i \in DOMAIN cursors :
     LET cur == cursors[i]
     IN  /\ \A pos \in Free(cur) :
              LET seen == ValuesAt(cur, pos)
                  listed == BuiltSeekAll(index, cur, pos)
              IN  /\ \A c \in Sought : Leap(index, cur, pos, c) = LeastFrom(seen, c)
                  /\ \A j, k \in DOMAIN listed : j < k => listed[j] < listed[k]
                  /\ SeekAll(index, cur, pos) = seen
                  /\ SubtreeSize(index, cur, pos) = IF FixedCount(cur) = 0 THEN Unbounded ELSE Subtree(cur)
         /\ Free(cur) = {} =>
              /\ Eids(index, cur) \in Seq(Nat)
              /\ BagOf(Eids(index, cur)) = BagOf([k \in Standing \cap Under(Merged, cur) |-> Merged[k][4]])

\* The order is what it was whatever was searched, cut off, filed or forced, and the search
\* variable of a correlated vector search never comes before its anchor.
OrderIsSound == OrderIsRestored /\ AnchorComesFirst

==============================================================================
