--------------------------- MODULE MCSessionStore ---------------------------
(* SessionStore on small images. *)
EXTENDS SessionStore

Bare == [p \in Props |-> Absent]
Full == [p \in Props |-> CHOOSE v \in Values : TRUE]

\* Two nodes and an undirected edge, numbered against the order a save gives them.
BackEdgeImage ==
  [nodeCount |-> 2, edgeCount |-> 1,
   node |-> [n \in 0 .. 1 |-> [labels |-> {}, props |-> Bare]],
   edge |-> [e \in {0} |-> [src |-> 1, tgt |-> 0, directed |-> FALSE,
                            labels |-> {}, props |-> Bare]]]

\* A node with every label and property, and an undirected self-loop like it.
LoopImage ==
  [nodeCount |-> 1, edgeCount |-> 1,
   node |-> [n \in {0} |-> [labels |-> Labels, props |-> Full]],
   edge |-> [e \in {0} |-> [src |-> 0, tgt |-> 0, directed |-> FALSE,
                            labels |-> Labels, props |-> Full]]]

\* One node and one undirected self-loop: room for another node, and one overlay edge.
BareLoopImage ==
  [nodeCount |-> 1, edgeCount |-> 1,
   node |-> [n \in {0} |-> [labels |-> {}, props |-> Bare]],
   edge |-> [e \in {0} |-> [src |-> 0, tgt |-> 0, directed |-> FALSE,
                            labels |-> {}, props |-> Bare]]]

BackEdgeOrLoop == {BackEdgeImage, BareLoopImage}
LoopOnly == {LoopImage}
=============================================================================
