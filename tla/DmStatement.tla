---------------------------- MODULE DmStatement ----------------------------
(***************************************************************************)
(* Data-modifying statements over the overlay (runtime/dm.rs).             *)
(*                                                                         *)
(* A statement first runs its MATCH chain against the working graph, then  *)
(* applies its INSERT / DELETE / SET / REMOVE items row by row.  The rows  *)
(* are computed before the first write, so a row may name an element an    *)
(* earlier row of the same statement deleted.  The model keeps what the    *)
(* rows may name in boundNodes and boundEdges and lets the statement apply *)
(* any sequence of its operations to them: every list of rows and items is *)
(* one such sequence.                                                      *)
(*                                                                         *)
(* Whatever fails after the first write (a graph-type violation, a rebound *)
(* variable, G1001, a non-element DELETE target) takes one path:           *)
(* rollback_session throws away the overlay of the whole session.          *)
(***************************************************************************)
EXTENDS Overlay

VARIABLES
  stmt,         \* the operation of the statement being applied, or "idle"
  boundNodes,   \* nodes its rows may name
  boundEdges    \* edges its rows may name

vars == <<overlayVars, stmt, boundNodes, boundEdges>>

Operations == {"insert", "delete", "set", "remove"}

Init ==
  /\ OpenImage
  /\ stmt = "idle"
  /\ boundNodes = {}
  /\ boundEdges = {}

\* The read-only phase: the rows bind elements of the merged view.
BeginStatement(op) ==
  /\ stmt = "idle"
  /\ stmt' = op
  /\ boundNodes' = LiveNodes
  /\ boundEdges' = LiveEdges
  /\ UNCHANGED overlayVars

Idle == stmt' = "idle" /\ boundNodes' = {} /\ boundEdges' = {}

EndStatement ==
  /\ stmt # "idle"
  /\ Idle
  /\ UNCHANGED overlayVars

StatementFails ==
  /\ stmt # "idle"
  /\ Idle
  /\ ClearOverlay

\* resolve_or_insert_node, the defining case: the new node is bound for the rest of the row.
InsertNode(l, p) ==
  /\ stmt = "insert"
  /\ PushNode(l, p)
  /\ boundNodes' = boundNodes \cup {NextNodeId}
  /\ UNCHANGED <<stmt, boundEdges>>

\* insert_edge_now: both endpoints must be alive (G1003 otherwise).
InsertEdge(s, t, directed, l, p) ==
  /\ stmt = "insert"
  /\ s \in LiveNodes
  /\ t \in LiveNodes
  /\ PushEdge(s, t, directed, l, p)
  /\ UNCHANGED <<stmt, boundNodes, boundEdges>>

\* apply_delete: the targets are not checked for being alive.
DeleteNode(n, detach) ==
  /\ stmt = "delete"
  /\ IF detach THEN DetachDeleteNode(n) ELSE DeleteNodeNoDetach(n)
  /\ UNCHANGED <<stmt, boundNodes, boundEdges>>

DeleteEdge(e) ==
  /\ stmt = "delete"
  /\ TombstoneEdge(e)
  /\ UNCHANGED <<stmt, boundNodes, boundEdges>>

\* apply_set and apply_remove, on a node and on an edge.
UpdateNode(n) ==
  /\ \/ /\ stmt = "set"
        /\ \/ \E p \in Props, v \in Values : SetNodeProp(n, p, v)
           \/ \E m \in PropMap : ReplaceNodeProps(n, m)
           \/ \E l \in Labels : AddNodeLabel(n, l)
     \/ /\ stmt = "remove"
        /\ \/ \E p \in Props : SetNodeProp(n, p, Absent)
           \/ \E l \in Labels : RemoveNodeLabel(n, l)
  /\ UNCHANGED <<stmt, boundNodes, boundEdges>>

UpdateEdge(e) ==
  /\ \/ /\ stmt = "set"
        /\ \/ \E p \in Props, v \in Values : SetEdgeProp(e, p, v)
           \/ \E m \in PropMap : ReplaceEdgeProps(e, m)
           \/ \E l \in Labels : AddEdgeLabel(e, l)
     \/ /\ stmt = "remove"
        /\ \/ \E p \in Props : SetEdgeProp(e, p, Absent)
           \/ \E l \in Labels : RemoveEdgeLabel(e, l)
  /\ UNCHANGED <<stmt, boundNodes, boundEdges>>

Next ==
  \/ \E op \in Operations : BeginStatement(op)
  \/ EndStatement
  \/ StatementFails
  \/ \E l \in SUBSET Labels, p \in PropMap : InsertNode(l, p)
  \/ \E s, t \in boundNodes, directed \in BOOLEAN, l \in SUBSET Labels, p \in PropMap :
        InsertEdge(s, t, directed, l, p)
  \/ \E n \in boundNodes, detach \in BOOLEAN : DeleteNode(n, detach)
  \/ \E e \in boundEdges : DeleteEdge(e)
  \/ \E n \in boundNodes : UpdateNode(n)
  \/ \E e \in boundEdges : UpdateEdge(e)

Spec == Init /\ [][Next]_vars

(***************************************************************************)
(* Invariants.                                                             *)
(***************************************************************************)

\* Every variable has its type; ids stay dense above the base counts.
TypeOK ==
  /\ OverlayTypeOK
  /\ stmt \in Operations \cup {"idle"}
  /\ boundNodes \subseteq AllocatedNodes
  /\ boundEdges \subseteq AllocatedEdges

\* No live edge has a deleted endpoint: what detach_delete_node, NODETACH's G1001 check
\* and INSERT's endpoint check together keep true, in the middle of a statement too.
NoDanglingEdge == \A e \in LiveEdges : Src(e) \in LiveNodes /\ Tgt(e) \in LiveNodes

\* The merged adjacency (CSR slice, overlay list, tombstones) of a live node is exactly
\* the live edges that touch it: traversal and a scan of the edges agree.
AdjacencyIsExact ==
  \A n \in LiveNodes :
    /\ OutgoingEdges(n) = {e \in LiveEdges : IsDirected(e) /\ Src(e) = n}
    /\ IncomingEdges(n) = {e \in LiveEdges : IsDirected(e) /\ Tgt(e) = n}
    /\ UndirectedEdgesOf(n) = {e \in LiveEdges : ~IsDirected(e) /\ n \in {Src(e), Tgt(e)}}

\* A label index answers what reading the labels of every live element would answer.
LabelIndexIsExact ==
  \A l \in Labels :
    /\ NodesWithLabel(l) = {n \in LiveNodes : l \in NodeLabels(n)}
    /\ \A d \in BOOLEAN :
         EdgesWithLabel(l, d) = {e \in LiveEdges : IsDirected(e) = d /\ l \in EdgeLabels(e)}

(***************************************************************************)
(* Action property.                                                        *)
(***************************************************************************)
NodeWritesReadBack(n) ==
  /\ \A m \in PropMap : ReplaceNodeProps(n, m) => NodeProps(n)' = m
  /\ \A p \in Props, v \in Values \cup {Absent} :
        SetNodeProp(n, p, v) => NodeProps(n)' = [NodeProps(n) EXCEPT ![p] = v]
  /\ \A l \in Labels :
        /\ AddNodeLabel(n, l) => NodeLabels(n)' = NodeLabels(n) \cup {l}
        /\ RemoveNodeLabel(n, l) => NodeLabels(n)' = NodeLabels(n) \ {l}

EdgeWritesReadBack(e) ==
  /\ \A m \in PropMap : ReplaceEdgeProps(e, m) => EdgeProps(e)' = m
  /\ \A p \in Props, v \in Values \cup {Absent} :
        SetEdgeProp(e, p, v) => EdgeProps(e)' = [EdgeProps(e) EXCEPT ![p] = v]
  /\ \A l \in Labels :
        /\ AddEdgeLabel(e, l) => EdgeLabels(e)' = EdgeLabels(e) \cup {l}
        /\ RemoveEdgeLabel(e, l) => EdgeLabels(e)' = EdgeLabels(e) \ {l}

\* A SET or REMOVE reads back as what it said, whatever was staged on the element before:
\* clears, sets and removals of any earlier statement compose over the base record.
WritesReadBack ==
  [][/\ \A n \in boundNodes : NodeWritesReadBack(n)
     /\ \A e \in boundEdges : EdgeWritesReadBack(e)]_vars
=============================================================================
