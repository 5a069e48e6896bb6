--------------------------- MODULE PropertyGraph ---------------------------
(***************************************************************************)
(* What a session promises its user: one property graph that statements    *)
(* change element by element, an explicit save, and a failing statement    *)
(* that takes the graph back to what the session opened.  There is no      *)
(* overlay, no tombstone and no id arithmetic here.                        *)
(*                                                                         *)
(* A graph is a pair of functions from ids to records.  Ids name elements  *)
(* only as long as the session lasts: a saved graph is the same graph up   *)
(* to a renaming of its ids.                                               *)
(***************************************************************************)
EXTENDS Integers, Functions

CONSTANTS Labels, Props, Values, Absent, MaxNodes, MaxEdges

VARIABLES
  graph,     \* the working graph
  opened,    \* the graph the session started from
  saved      \* the graph the file holds

vars == <<graph, opened, saved>>

NodeIds == 0 .. MaxNodes - 1
EdgeIds == 0 .. MaxEdges - 1
PropMap == [Props -> Values \cup {Absent}]

Nodes(g) == DOMAIN g.node
Edges(g) == DOMAIN g.edge

Extend(f, i, r) == [j \in DOMAIN f \cup {i} |-> IF j = i THEN r ELSE f[j]]
Without(f, S) == [j \in DOMAIN f \ S |-> f[j]]
Touching(g, n) == {e \in Edges(g) : n \in {g.edge[e].src, g.edge[e].tgt}}

\* The edges of g with their endpoints renamed by f.
Renamed(r, f) == [r EXCEPT !.src = f[r.src], !.tgt = f[r.tgt]]

Isomorphic(g, h) ==
  \E f \in Bijection(Nodes(g), Nodes(h)), k \in Bijection(Edges(g), Edges(h)) :
    /\ \A n \in Nodes(g) : h.node[f[n]] = g.node[n]
    /\ \A e \in Edges(g) : h.edge[k[e]] = Renamed(g.edge[e], f)

InsertNode ==
  \E n \in NodeIds \ Nodes(graph), l \in SUBSET Labels, p \in PropMap :
    graph' = [graph EXCEPT !.node = Extend(@, n, [labels |-> l, props |-> p])]

InsertEdge ==
  \E e \in EdgeIds \ Edges(graph), s, t \in Nodes(graph), d \in BOOLEAN,
     l \in SUBSET Labels, p \in PropMap :
    graph' = [graph EXCEPT !.edge =
                Extend(@, e, [src |-> s, tgt |-> t, directed |-> d, labels |-> l, props |-> p])]

\* A node never leaves its edges behind.
DeleteNode ==
  \E n \in Nodes(graph) :
    graph' = [graph EXCEPT !.node = Without(@, {n}), !.edge = Without(@, Touching(graph, n))]

DeleteEdge ==
  \E e \in Edges(graph) : graph' = [graph EXCEPT !.edge = Without(@, {e})]

\* One SET or REMOVE item on the record r: any properties, a label more or a label less.
Relabelled(labels) == {labels \cup {l} : l \in Labels} \cup {labels \ {l} : l \in Labels}

Updates(r) ==
  {[r EXCEPT !.props = m] : m \in PropMap}
  \cup {[r EXCEPT !.labels = s] : s \in Relabelled(r.labels)}

UpdateNode ==
  \E n \in Nodes(graph) : \E r \in Updates(graph.node[n]) :
    graph' = [graph EXCEPT !.node[n] = r]

UpdateEdge ==
  \E e \in Edges(graph) : \E r \in Updates(graph.edge[e]) :
    graph' = [graph EXCEPT !.edge[e] = r]

Write ==
  /\ \/ InsertNode \/ InsertEdge
     \/ DeleteNode \/ DeleteEdge
     \/ UpdateNode \/ UpdateEdge
  /\ UNCHANGED <<opened, saved>>

Rollback ==
  /\ graph' = opened
  /\ UNCHANGED <<opened, saved>>

Save ==
  /\ Isomorphic(graph, saved')
  /\ UNCHANGED <<graph, opened>>

\* Closing the session, or its process dying, and opening the file again.
Reopen ==
  /\ graph' = saved
  /\ opened' = saved
  /\ UNCHANGED saved

Init == graph = opened /\ saved = opened

Next == Write \/ Rollback \/ Save \/ Reopen

Spec == Init /\ [][Next]_vars
=============================================================================
