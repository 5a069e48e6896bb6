-------------------------------- MODULE Hnsw --------------------------------
(***************************************************************************)
(* The proximity graph over the rows of a vector attribute, and the cursor *)
(* that delivers its rows about nearest first (vector/hnsw.rs).            *)
(*                                                                         *)
(* Rows are numbered from 1.  A graph has, for every row, a list of links  *)
(* on each layer the row reaches, and an entry row on the topmost one.     *)
(* `apart` gives the distance of two rows and `to` that of a row from the  *)
(* query; distances are integers.  Which layers a row reaches is drawn at  *)
(* random by the code, and a parameter here.                               *)
(***************************************************************************)
EXTENDS Integers, Sequences, FiniteSets, SequencesExt, FiniteSetsExt

\* Cand: by distance, then by row.
Nearer(to, a, b) == to[a] < to[b] \/ (to[a] = to[b] /\ a < b)
NearestOf(to, rows) == CHOOSE r \in rows : \A s \in rows \ {r} : Nearer(to, r, s)
FarthestOf(to, rows) == CHOOSE r \in rows : \A s \in rows \ {r} : Nearer(to, s, r)
RECURSIVE NearestFirst(_, _)
NearestFirst(to, rows) ==
  IF rows = {} THEN <<>>
  ELSE LET r == NearestOf(to, rows) IN <<r>> \o NearestFirst(to, rows \ {r})

\* Layer l is the (l+1)st of a row; a row that does not reach it has no links there.
Links(graph, row, layer) == IF layer < Len(graph.links[row]) THEN graph.links[row][layer + 1] ELSE <<>>
TopLayer(graph) == Len(graph.links[graph.entry]) - 1

\* Downhill on one layer, until no link leads nearer.
RECURSIVE GreedyDescend(_, _, _, _)
GreedyDescend(graph, to, row, layer) ==
  LET links == Links(graph, row, layer)
      better == {i \in DOMAIN links : to[links[i]] < to[row]}
      best == CHOOSE i \in better :
                \A j \in better \ {i} : to[links[i]] < to[links[j]] \/ (to[links[i]] = to[links[j]] /\ i < j)
  IN  IF better = {} THEN row ELSE GreedyDescend(graph, to, links[best], layer)
RECURSIVE DescendLayers(_, _, _, _, _)
DescendLayers(graph, to, row, from, until) ==
  IF from <= until THEN row
  ELSE DescendLayers(graph, to, GreedyDescend(graph, to, row, from), from - 1, until)

\* Best first on one layer, the ef nearest seen are kept.
RECURSIVE SearchFrom(_, _, _, _, _)
SearchFrom(graph, to, ef, layer, search) ==
  LET row == NearestOf(to, search.frontier)
      Meet(s, n) ==
        IF n \in s.visited THEN s
        ELSE IF Cardinality(s.best) < ef \/ to[n] < to[FarthestOf(to, s.best)]
             THEN LET grown == s.best \cup {n}
                  IN  [visited |-> s.visited \cup {n}, frontier |-> s.frontier \cup {n},
                       best |-> IF Cardinality(grown) > ef THEN grown \ {FarthestOf(to, grown)} ELSE grown]
             ELSE [s EXCEPT !.visited = @ \cup {n}]
  IN  IF \/ search.frontier = {}
         \/ to[row] > to[FarthestOf(to, search.best)] /\ Cardinality(search.best) >= ef
      THEN NearestFirst(to, search.best)
      ELSE SearchFrom(graph, to, ef, layer,
             FoldLeft(Meet, [search EXCEPT !.frontier = @ \ {row}], Links(graph, row, layer)))
SearchLayer(graph, to, entry, ef, layer) ==
  SearchFrom(graph, to, ef, layer, [frontier |-> {entry}, best |-> {entry}, visited |-> {entry}])

\* A candidate nearer to the target than to all that are kept is kept; the nearest others fill up.
SelectNeighbours(apart, target, candidates, cap) ==
  LET to == apart[target]
      Judge(s, c) ==
        IF c = target \/ Len(s.kept) >= cap THEN s
        ELSE IF \A i \in DOMAIN s.kept : to[c] < apart[c][s.kept[i]]
             THEN [s EXCEPT !.kept = Append(@, c)]
             ELSE [s EXCEPT !.rejected = Append(@, c)]
      judged == FoldLeft(Judge, [kept |-> <<>>, rejected |-> <<>>], candidates)
      spare == Min({cap - Len(judged.kept), Len(judged.rejected)})
  IN  judged.kept \o SubSeq(judged.rejected, 1, spare)

\* Layer 0 keeps twice as many links.
MaxDegree(m, layer) == IF layer = 0 THEN 2 * m ELSE m
Linked(graph, a, b, layer) == [graph EXCEPT !.links[a][layer + 1] = Append(@, b)]
Pruned(graph, apart, row, layer, cap) ==
  IF Len(Links(graph, row, layer)) <= cap THEN graph
  ELSE [graph EXCEPT !.links[row][layer + 1] =
          SelectNeighbours(apart, row, NearestFirst(apart[row], ToSet(@)), cap)]

RECURSIVE Connect(_, _, _, _, _, _, _)
Connect(graph, apart, m, ef, row, entry, layer) ==
  IF layer < 0 THEN graph
  ELSE LET found == SearchLayer(graph, apart[row], entry, ef, layer)
           picked == SelectNeighbours(apart, row, found, MaxDegree(m, layer))
           linked == FoldLeft(LAMBDA g, n : Linked(Linked(g, row, n, layer), n, row, layer), graph, picked)
           pruned == FoldLeft(LAMBDA g, n : Pruned(g, apart, n, layer, MaxDegree(m, layer)), linked, picked)
       IN  Connect(pruned, apart, m, ef, row, found[1], layer - 1)
Insert(graph, apart, m, ef, row) ==
  LET level == Len(graph.links[row]) - 1
      top == TopLayer(graph)
      entry == DescendLayers(graph, apart[row], graph.entry, top, level)
      connected == Connect(graph, apart, m, ef, row, entry, Min({level, top}))
  IN  IF level > top THEN [connected EXCEPT !.entry = row] ELSE connected
\* Hnsw::build: levels[i] is the topmost layer of row i.
Build(apart, m, ef, levels) ==
  FoldLeft(LAMBDA g, row : Insert(g, apart, m, ef, row),
           [entry |-> 1, links |-> [i \in DOMAIN levels |-> [l \in 1..(levels[i] + 1) |-> <<>>]]],
           [i \in 1..(Len(levels) - 1) |-> i + 1])

(***************************************************************************)
(* The cursor: exploration runs `ef` expansions ahead of emission.         *)
(***************************************************************************)
ExpandOne(graph, to, c) ==
  LET row == NearestOf(to, c.pending)
      new == ToSet(Links(graph, row, 0)) \ c.discovered
  IN  [c EXCEPT !.pending = (@ \ {row}) \cup new, !.frontier = @ \cup new,
                !.discovered = @ \cup new, !.expansions = @ + 1]
\* Mutant: rows are emitted as soon as they are discovered.
AheadNot(graph, to, ef, c) == c.pending # {} /\ c.expansions < c.emitted
Ahead(graph, to, ef, c) == c.pending # {} /\ c.expansions < c.emitted + ef
RECURSIVE Stream(_, _, _, _)
Stream(graph, to, ef, c) ==
  IF Ahead(graph, to, ef, c) THEN Stream(graph, to, ef, ExpandOne(graph, to, c))
  ELSE IF c.frontier = {} THEN <<>>
  ELSE LET row == NearestOf(to, c.frontier)
       IN  <<row>> \o Stream(graph, to, ef, [c EXCEPT !.frontier = @ \ {row}, !.emitted = @ + 1])
\* The rows in the order the cursor delivers them.
Cursor(graph, to, ef) ==
  LET seed == DescendLayers(graph, to, graph.entry, TopLayer(graph), 0)
  IN  Stream(graph, to, ef,
        [frontier |-> {seed}, pending |-> {seed}, discovered |-> {seed}, expansions |-> 0, emitted |-> 0])
=============================================================================
