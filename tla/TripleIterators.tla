--------------------------- MODULE TripleIterators ---------------------------
(***************************************************************************)
(* The cursors the leapfrog join walks a triple index with                 *)
(* (runtime/ltj/iterator.rs): one over six sorted arrays, one over six     *)
(* compact tries, and one that merges either with the triples a session    *)
(* has added since it was built, and leaves out the edges it has deleted.  *)
(*                                                                         *)
(* A cursor belongs to one triple of a pattern.  Its constants are fixed   *)
(* when it is made; the join then goes down to a value at a free position, *)
(* perhaps one this triple does not have, and comes up again.              *)
(*                                                                         *)
(* index: [layout, built, added, removed, arrays, tries, delta];           *)
(* cursor: [fixed, level1, level2, empty, deadFrom].                       *)
(***************************************************************************)
EXTENDS CompactTrie

None == -1
\* Stands for usize::MAX: nothing is fixed yet.
Unbounded == 1000000

\* A term of a pattern: above 100 it is a variable.
IsVariable(t) == t > 100

FixedAt(cur) == [i \in DOMAIN cur.fixed |-> cur.fixed[i][1]]
Free(cur) == Positions \ {cur.fixed[i][1] : i \in DOMAIN cur.fixed}
\* What a compact cursor skipped it does not count.
FixedCount(cur) == Len(cur.fixed) - cur.skipped
InLastLevel(cur) == FixedCount(cur) >= 2
ByPosition(cur) == [p \in Positions |-> cur.fixed[CHOOSE i \in DOMAIN cur.fixed : cur.fixed[i][1] = p][2]]

\* The order whose first free level is the position asked for, under what is fixed.
ChooseOrder(at, querying) ==
  LET q == IF Len(at) < 2 THEN Append(at, querying) ELSE at
  IN  IF Len(q) = 1 THEN 2 * (querying - 1)
      ELSE CHOOSE o \in 0..5 : Orders[o + 1][1] = q[1] /\ Orders[o + 1][2] = q[2]

(***************************************************************************)
(* The arrays.                                                             *)
(***************************************************************************)
BuildOrdering(raw, order) ==
  SortedRows([r \in DOMAIN raw |-> [i \in 1..4 |-> IF i = 4 THEN raw[r][4] ELSE raw[r][order[i]]]])
OrderingsOf(raw) == [o \in 0..5 |-> BuildOrdering(raw, Orders[o + 1])]

\* partition_point over slice[range.begin + 1 .. range.end].
Below(slice, range, depth, key) == Cardinality({i \in (range.begin + 1)..range.end : slice[i][depth] < key})
RangeForKey(slice, range, depth, key) ==
  [begin |-> range.begin + Below(slice, range, depth, key),
   end |-> range.begin + Below(slice, range, depth, key + 1)]

Whole(slice) == [begin |-> 0, end |-> Len(slice)]
ComputeRange(orderings, cur, querying) ==
  LET slice == orderings[ChooseOrder(FixedAt(cur), querying)]
      range[i \in 0..Len(cur.fixed)] ==
        IF i = 0 THEN Whole(slice) ELSE RangeForKey(slice, range[i - 1], i, cur.fixed[i][2])
  IN  [slice |-> slice, depth |-> Len(cur.fixed) + 1] @@ range[Len(cur.fixed)]

ArrayLeap(orderings, cur, pos, c) ==
  LET r == ComputeRange(orderings, cur, pos)
      at == r.begin + Below(r.slice, r, r.depth, c) + 1
  IN  IF at > r.end THEN None ELSE r.slice[at][r.depth]

ArraySeekAll(orderings, cur, pos) ==
  LET r == ComputeRange(orderings, cur, pos)
      differs(i) == i = r.begin + 1 \/ r.slice[i][r.depth] # r.slice[i - 1][r.depth]
      at == SelectSeq([k \in 1..(r.end - r.begin) |-> r.begin + k], differs)
  IN  [k \in DOMAIN at |-> r.slice[at[k]][r.depth]]

ArraySubtreeSize(orderings, cur, pos) ==
  LET r == ComputeRange(orderings, cur, pos)
  IN  IF cur.fixed = <<>> THEN Unbounded ELSE r.end - r.begin

\* With everything fixed, the first order is walked whatever order the positions were fixed in.
ArrayEids(orderings, cur) ==
  LET slice == orderings[SPO]
      range[p \in 0..3] ==
        IF p = 0 THEN Whole(slice) ELSE RangeForKey(slice, range[p - 1], p, ByPosition(cur)[p])
      entries == SubSeq(slice, range[3].begin + 1, range[3].end)
  IN  [i \in DOMAIN entries |-> entries[i][4]]

(***************************************************************************)
(* The compact cursor.  Both tries that share their first component are    *)
(* entered at once; a value that is not there leaves it dead from there.   *)
(***************************************************************************)
Alive(cur) == ~cur.empty /\ (cur.deadFrom = None \/ Len(cur.fixed) < cur.deadFrom)

ParentHandle(cur, t) ==
  CASE Len(cur.fixed) = 0 -> Root
    [] Len(cur.fixed) = 1 -> cur.level1[t % 2]
    [] Len(cur.fixed) >= 2 -> cur.level2

ChildBlock(tries, cur, pos) ==
  LET t == ChooseOrder(FixedAt(cur), pos)
      parent == ParentHandle(cur, t)
  IN  [trie |-> tries[t], pair |-> t - (t % 2), beg |-> parent,
       end |-> parent + Children(tries[t], parent) - 1]

\* The handles after position pos is fixed to val; a third position needs none.
Descended(tries, cur, pos, val) ==
  LET b == ChildBlock(tries, cur, pos)
      found == Seek(b.trie, val, b.beg, b.end)
      n == Len(cur.fixed)
      handle(k) == NodeHandle(tries[b.pair + k], found.at)
  IN  IF n >= 2 \/ ~Alive(cur) THEN cur
      ELSE IF found.value # val THEN [cur EXCEPT !.deadFrom = n + 1]
      ELSE IF n = 0 THEN [cur EXCEPT !.level1 = [k \in 0..1 |-> handle(k)]]
      ELSE [cur EXCEPT !.level2 = NodeHandle(b.trie, found.at)]
CursorDown(index, cur, pos, val) == [Descended(index.tries, cur, pos, val) EXCEPT !.fixed = Append(@, <<pos, val>>)]

\* Mutant: coming up from below the level it died at is enough to live again.
RevivedEarly(cur, n) == IF n <= cur.deadFrom THEN None ELSE cur.deadFrom
\* The cursor lives again above the level it died at.
Revived(cur, n) == IF n < cur.deadFrom THEN None ELSE cur.deadFrom
CursorUp(cur) ==
  LET n == Len(cur.fixed) - 1
  IN  [cur EXCEPT !.fixed = SubSeq(@, 1, n), !.deadFrom = Revived(cur, n)]

\* The constants are gone down to in turn; one that is missing empties the cursor, and the compact
\* layout skips those that follow, where the additions beside it do not.
Skips(index, cur) == cur.empty /\ index.layout = "compact"
Fixed(index, triple, cur, p) ==
  LET d == CursorDown(index, cur, p, triple[p])
  IN  IF IsVariable(triple[p]) THEN cur
      ELSE [d EXCEPT !.empty = @ \/ ~Alive(d), !.skipped = @ + (IF Skips(index, cur) THEN 1 ELSE 0)]
CursorAt(index, triple) ==
  LET fresh == [fixed |-> <<>>, level1 |-> [k \in 0..1 |-> 0], level2 |-> 0,
                empty |-> index.built = <<>>, deadFrom |-> None, skipped |-> 0]
  IN  Fixed(index, triple, Fixed(index, triple, Fixed(index, triple, fresh, Subject), Predicate), Object)

CompactLeap(tries, cur, pos, c) ==
  LET b == ChildBlock(tries, cur, pos) IN IF Alive(cur) THEN Seek(b.trie, c, b.beg, b.end).value ELSE None
CompactSeekAll(tries, cur, pos) ==
  LET b == ChildBlock(tries, cur, pos)
  IN  IF Alive(cur) THEN [k \in 1..(b.end - b.beg + 1) |-> Sym(b.trie, b.beg + k - 1)] ELSE <<>>

\* The leaves below one node are next to each other.
CompactSubtreeSize(tries, cur, pos) ==
  LET b == ChildBlock(tries, cur, pos)
      last == NodeHandle(b.trie, b.end)
  IN  IF FixedCount(cur) = 0 THEN Unbounded
      ELSE IF ~Alive(cur) THEN 0
      ELSE IF InLastLevel(cur) THEN b.end - b.beg + 1
      ELSE last + Children(b.trie, last) - NodeHandle(b.trie, b.beg)

(***************************************************************************)
(* An index as the join sees it: built in either layout, merged with what  *)
(* has changed since.                                                      *)
(***************************************************************************)
IndexOf(layout, content) ==
  [layout |-> layout, built |-> content.built, added |-> content.added, removed |-> content.removed,
   arrays |-> OrderingsOf(content.built), tries |-> FromRaw(content.built).tries,
   side |-> FromRaw(content.built), delta |-> OrderingsOf(content.added)]

BuiltLeap(index, cur, pos, c) ==
  IF index.layout = "array" THEN ArrayLeap(index.arrays, cur, pos, c) ELSE CompactLeap(index.tries, cur, pos, c)
BuiltSeekAll(index, cur, pos) ==
  IF index.layout = "array" THEN ArraySeekAll(index.arrays, cur, pos) ELSE CompactSeekAll(index.tries, cur, pos)
BuiltSubtreeSize(index, cur, pos) ==
  IF index.layout = "array" THEN ArraySubtreeSize(index.arrays, cur, pos)
  ELSE CompactSubtreeSize(index.tries, cur, pos)
BuiltEids(index, cur) ==
  IF index.layout = "array" THEN ArrayEids(index.arrays, cur)
  ELSE IF cur.skipped > 0 THEN <<>>
  ELSE EidsFor(index.side, ByPosition(cur))

Nearer(a, b) == IF a = None THEN b ELSE IF b = None THEN a ELSE AtMost(a, b)

Leap(index, cur, pos, c) == Nearer(BuiltLeap(index, cur, pos, c), ArrayLeap(index.delta, cur, pos, c))
SeekAll(index, cur, pos) == ToSet(BuiltSeekAll(index, cur, pos)) \cup ToSet(ArraySeekAll(index.delta, cur, pos))
SubtreeSize(index, cur, pos) ==
  LET built == BuiltSubtreeSize(index, cur, pos)
  IN  IF built = Unbounded THEN Unbounded ELSE built + ArraySubtreeSize(index.delta, cur, pos)

\* Deletion is enforced here and nowhere else.
Eids(index, cur) == SelectSeq(BuiltEids(index, cur) \o ArrayEids(index.delta, cur), LAMBDA e : e \notin index.removed)
==============================================================================
