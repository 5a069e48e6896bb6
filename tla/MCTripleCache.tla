---------------------------- MODULE MCTripleCache ----------------------------
(* TripleCache on small images. *)
EXTENDS TripleCache

Bare == [p \in Props |-> Absent]
TwoNodes == [n \in 0 .. 1 |-> [labels |-> {}, props |-> Bare]]

\* Two nodes and one undirected edge that carries every label.
TieImage ==
  [nodeCount |-> 2, edgeCount |-> 1, node |-> TwoNodes,
   edge |-> [e \in {0} |-> [src |-> 0, tgt |-> 1, directed |-> FALSE,
                            labels |-> Labels, props |-> Bare]]]

\* One node, and room for two overlay edges.
PointImage ==
  [nodeCount |-> 1, edgeCount |-> 0,
   node |-> [n \in {0} |-> [labels |-> {}, props |-> Bare]], edge |-> <<>>]

TieOrPoint == {TieImage, PointImage}
=============================================================================
