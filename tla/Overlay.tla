------------------------------ MODULE Overlay ------------------------------
(***************************************************************************)
(* The working graph of a session: an immutable base image, read from the  *)
(* .gdb file at open, and the MutationOverlay every data-modifying         *)
(* statement writes to (store/overlay.rs).  LazyGraphStore merges the two  *)
(* on every read (store/lazy.rs, impl GraphAccess) and routes every write  *)
(* to the overlay (impl GraphAccessMut).                                   *)
(*                                                                         *)
(* This module has the state, the merged view and one operation per method *)
(* of GraphAccessMut.  It has no specification of its own: DmStatement     *)
(* says in which order the executor calls the operations.                  *)
(*                                                                         *)
(* Element names, page layout and the string tables are abstracted.  A     *)
(* property map is total, with Absent for a property the element lacks.    *)
(***************************************************************************)
EXTENDS Integers, Sequences, FiniteSets

CONSTANTS
  Labels,      \* label names
  Props,       \* property names
  Values,      \* property values
  Absent,      \* "the element does not have this property"
  Untouched,   \* "PropMods.set has no entry for this property"
  MaxNodes,    \* bound: node ids are 0 .. MaxNodes-1
  MaxEdges     \* bound: edge ids are 0 .. MaxEdges-1

NodeIds == 0 .. MaxNodes - 1
EdgeIds == 0 .. MaxEdges - 1

PropMap == [Props -> Values \cup {Absent}]

NodeRecord == [labels : SUBSET Labels, props : PropMap]
EdgeRecord == [src : NodeIds, tgt : NodeIds, directed : BOOLEAN,
               labels : SUBSET Labels, props : PropMap]

(***************************************************************************)
(* What a .gdb file holds: dense ids from 0, and edges between its own     *)
(* nodes.  The CSR adjacency is derived from the records (save_graph       *)
(* writes both from the same graph), so it is not a field of its own.      *)
(***************************************************************************)
IsImage(g) ==
  /\ g.nodeCount \in 0 .. MaxNodes
  /\ g.edgeCount \in 0 .. MaxEdges
  /\ g.node \in [0 .. g.nodeCount - 1 -> NodeRecord]
  /\ g.edge \in [0 .. g.edgeCount - 1 -> EdgeRecord]
  /\ \A e \in 0 .. g.edgeCount - 1 :
        g.edge[e].src < g.nodeCount /\ g.edge[e].tgt < g.nodeCount

CONSTANT Images   \* the images a session may open

ASSUME BoundsAssumption == MaxNodes \in Nat /\ MaxEdges \in Nat
ASSUME SentinelAssumption == Absent \notin Values /\ Untouched \notin Values \cup {Absent}
ASSUME ImagesAssumption == \A g \in Images : IsImage(g)

VARIABLES
  base,            \* the image the store has open
  newNodes,        \* MutationOverlay.new_nodes, slots kept on delete
  newEdges,        \* MutationOverlay.new_edges, slots kept on delete
  deletedNodes,    \* tombstones, of base and of overlay nodes
  deletedEdges,
  modNodeProps,    \* PropMods per base node; NoPropMods where there is none
  modEdgeProps,
  modNodeLabels,   \* LabelMods per base node; NoLabelMods where there is none
  modEdgeLabels,
  newOutgoing,     \* adjacency of overlay edges only
  newIncoming,
  newUndirected

nodeOverlay == <<newNodes, deletedNodes, modNodeProps, modNodeLabels>>
edgeTopology == <<newOutgoing, newIncoming, newUndirected>>
edgeOverlay == <<newEdges, deletedEdges, modEdgeProps, modEdgeLabels, edgeTopology>>
overlayVars == <<base, nodeOverlay, edgeOverlay>>

(***************************************************************************)
(* Per-record modifications of base elements.                              *)
(***************************************************************************)
PropMods == [cleared : BOOLEAN, set : [Props -> Values \cup {Absent, Untouched}]]
LabelMods == [added : SUBSET Labels, removed : SUBSET Labels]

NoPropMods == [cleared |-> FALSE, set |-> [p \in Props |-> Untouched]]
NoLabelMods == [added |-> {}, removed |-> {}]

ApplyPropMods(props, mods) ==
  [p \in Props |-> IF mods.set[p] # Untouched THEN mods.set[p]
                   ELSE IF mods.cleared THEN Absent ELSE props[p]]

\* Drops the removed names, then appends the added ones.
ApplyLabelMods(labels, mods) == (labels \ mods.removed) \cup mods.added

StageProp(mods, p, v) == [mods EXCEPT !.set[p] = v]
\* Mutant: SET x = {...} overwrites the named properties and keeps the others.
StageReplaceMerges(props) ==
  [cleared |-> FALSE,
   set |-> [p \in Props |-> IF props[p] = Absent THEN Untouched ELSE props[p]]]
StageReplace(props) ==
  [cleared |-> TRUE,
   set |-> [p \in Props |-> IF props[p] = Absent THEN Untouched ELSE props[p]]]
StageLabelAdded(mods, l) ==
  [added |-> mods.added \cup {l}, removed |-> mods.removed \ {l}]
StageLabelRemoved(mods, l) ==
  [added |-> mods.added \ {l}, removed |-> mods.removed \cup {l}]

(***************************************************************************)
(* The merged view.                                                        *)
(***************************************************************************)
NextNodeId == base.nodeCount + Len(newNodes)
NextEdgeId == base.edgeCount + Len(newEdges)

AllocatedNodes == 0 .. NextNodeId - 1
AllocatedEdges == 0 .. NextEdgeId - 1
BaseEdges == 0 .. base.edgeCount - 1

IsBaseNode(n) == n < base.nodeCount
IsBaseEdge(e) == e < base.edgeCount
NodeSlot(n) == n - base.nodeCount + 1     \* position of an overlay node in newNodes
EdgeSlot(e) == e - base.edgeCount + 1

LiveNodes == AllocatedNodes \ deletedNodes
LiveEdges == AllocatedEdges \ deletedEdges

NodeLabels(n) ==
  IF IsBaseNode(n) THEN ApplyLabelMods(base.node[n].labels, modNodeLabels[n])
                   ELSE newNodes[NodeSlot(n)].labels
EdgeLabels(e) ==
  IF IsBaseEdge(e) THEN ApplyLabelMods(base.edge[e].labels, modEdgeLabels[e])
                   ELSE newEdges[EdgeSlot(e)].labels
NodeProps(n) ==
  IF IsBaseNode(n) THEN ApplyPropMods(base.node[n].props, modNodeProps[n])
                   ELSE newNodes[NodeSlot(n)].props
EdgeProps(e) ==
  IF IsBaseEdge(e) THEN ApplyPropMods(base.edge[e].props, modEdgeProps[e])
                   ELSE newEdges[EdgeSlot(e)].props

EdgeRecordOf(e) == IF IsBaseEdge(e) THEN base.edge[e] ELSE newEdges[EdgeSlot(e)]
Src(e) == EdgeRecordOf(e).src
Tgt(e) == EdgeRecordOf(e).tgt
IsDirected(e) == EdgeRecordOf(e).directed

\* The base CSR slice of node n, one per direction, merged with the overlay lists.
OutgoingEdges(n) ==
  ({e \in BaseEdges : base.edge[e].directed /\ base.edge[e].src = n}
     \cup newOutgoing[n]) \ deletedEdges
IncomingEdges(n) ==
  ({e \in BaseEdges : base.edge[e].directed /\ base.edge[e].tgt = n}
     \cup newIncoming[n]) \ deletedEdges
UndirectedEdgesOf(n) ==
  ({e \in BaseEdges : ~base.edge[e].directed /\ n \in {base.edge[e].src, base.edge[e].tgt}}
     \cup newUndirected[n]) \ deletedEdges
\* Mutant: DETACH DELETE collects the directed edges only.
IncidentEdgesDirected(n) == OutgoingEdges(n) \cup IncomingEdges(n)
IncidentEdges(n) == OutgoingEdges(n) \cup IncomingEdges(n) \cup UndirectedEdgesOf(n)

(***************************************************************************)
(* The label indexes: the base lists filtered by the tombstones and by     *)
(* what was removed, the base elements that gained the label, and the      *)
(* overlay elements that carry it.                                         *)
(***************************************************************************)
\* Mutant: the base list is not filtered by the labels that were removed.
NodesWithLabelUnfiltered(l) ==
  {n \in 0 .. base.nodeCount - 1 :
      n \notin deletedNodes /\ l \in base.node[n].labels \cup modNodeLabels[n].added}
  \cup {n \in AllocatedNodes :
      ~IsBaseNode(n) /\ n \notin deletedNodes /\ l \in newNodes[NodeSlot(n)].labels}
NodesWithLabel(l) ==
  {n \in 0 .. base.nodeCount - 1 :
      /\ n \notin deletedNodes
      /\ \/ l \in base.node[n].labels /\ l \notin modNodeLabels[n].removed
         \/ l \in modNodeLabels[n].added}
  \cup {n \in AllocatedNodes :
      /\ ~IsBaseNode(n) /\ n \notin deletedNodes
      /\ l \in newNodes[NodeSlot(n)].labels}

EdgesWithLabel(l, directed) ==
  {e \in BaseEdges :
      /\ e \notin deletedEdges
      /\ base.edge[e].directed = directed
      /\ \/ l \in base.edge[e].labels /\ l \notin modEdgeLabels[e].removed
         \/ l \in modEdgeLabels[e].added}
  \cup {e \in AllocatedEdges :
      /\ ~IsBaseEdge(e) /\ e \notin deletedEdges
      /\ newEdges[EdgeSlot(e)].directed = directed
      /\ l \in newEdges[EdgeSlot(e)].labels}

(***************************************************************************)
(* The operations: one per method of GraphAccessMut.                       *)
(***************************************************************************)
Unmodified(Ids, none) == [i \in Ids |-> none]

EmptyOverlay ==
  /\ newNodes = <<>>
  /\ newEdges = <<>>
  /\ deletedNodes = {}
  /\ deletedEdges = {}
  /\ modNodeProps = Unmodified(NodeIds, NoPropMods)
  /\ modEdgeProps = Unmodified(EdgeIds, NoPropMods)
  /\ modNodeLabels = Unmodified(NodeIds, NoLabelMods)
  /\ modEdgeLabels = Unmodified(EdgeIds, NoLabelMods)
  /\ newOutgoing = Unmodified(NodeIds, {})
  /\ newIncoming = Unmodified(NodeIds, {})
  /\ newUndirected = Unmodified(NodeIds, {})

OpenImage == base \in Images /\ EmptyOverlay

\* Mutant: clear forgets the tombstones.
ResetOverlayKeepsTombstones ==
  /\ newNodes' = <<>>
  /\ newEdges' = <<>>
  /\ modNodeProps' = Unmodified(NodeIds, NoPropMods)
  /\ modEdgeProps' = Unmodified(EdgeIds, NoPropMods)
  /\ modNodeLabels' = Unmodified(NodeIds, NoLabelMods)
  /\ modEdgeLabels' = Unmodified(EdgeIds, NoLabelMods)
  /\ newOutgoing' = Unmodified(NodeIds, {})
  /\ newIncoming' = Unmodified(NodeIds, {})
  /\ newUndirected' = Unmodified(NodeIds, {})
  /\ UNCHANGED <<deletedNodes, deletedEdges>>

\* MutationOverlay::clear
ResetOverlay ==
  /\ newNodes' = <<>>
  /\ newEdges' = <<>>
  /\ deletedNodes' = {}
  /\ deletedEdges' = {}
  /\ modNodeProps' = Unmodified(NodeIds, NoPropMods)
  /\ modEdgeProps' = Unmodified(EdgeIds, NoPropMods)
  /\ modNodeLabels' = Unmodified(NodeIds, NoLabelMods)
  /\ modEdgeLabels' = Unmodified(EdgeIds, NoLabelMods)
  /\ newOutgoing' = Unmodified(NodeIds, {})
  /\ newIncoming' = Unmodified(NodeIds, {})
  /\ newUndirected' = Unmodified(NodeIds, {})

\* rollback_session: the base stays open.
ClearOverlay == ResetOverlay /\ UNCHANGED base

PushNode(l, p) ==
  /\ NextNodeId < MaxNodes
  /\ newNodes' = Append(newNodes, [labels |-> l, props |-> p])
  /\ UNCHANGED <<base, deletedNodes, modNodeProps, modNodeLabels, edgeOverlay>>

FileUnder(adj, n, e) == [adj EXCEPT ![n] = @ \cup {e}]

\* Mutant: an undirected edge is filed under one endpoint.
FileUnderFirst(adj, s, t, e) == FileUnder(adj, s, e)
FileUnderBoth(adj, s, t, e) == FileUnder(FileUnder(adj, s, e), t, e)

PushEdge(s, t, directed, l, p) ==
  /\ NextEdgeId < MaxEdges
  /\ newEdges' = Append(newEdges, [src |-> s, tgt |-> t, directed |-> directed,
                                   labels |-> l, props |-> p])
  /\ IF directed
     THEN /\ newOutgoing' = FileUnder(newOutgoing, s, NextEdgeId)
          /\ newIncoming' = FileUnder(newIncoming, t, NextEdgeId)
          /\ UNCHANGED newUndirected
     ELSE /\ newUndirected' = FileUnderBoth(newUndirected, s, t, NextEdgeId)
          /\ UNCHANGED <<newOutgoing, newIncoming>>
  /\ UNCHANGED <<base, nodeOverlay, deletedEdges, modEdgeProps, modEdgeLabels>>

TombstoneEdge(e) ==
  /\ deletedEdges' = deletedEdges \cup {e}
  /\ UNCHANGED <<base, nodeOverlay, newEdges, modEdgeProps, modEdgeLabels, edgeTopology>>

DetachDeleteNode(n) ==
  /\ deletedEdges' = deletedEdges \cup IncidentEdges(n)
  /\ deletedNodes' = deletedNodes \cup {n}
  /\ UNCHANGED <<base, newNodes, modNodeProps, modNodeLabels,
                 newEdges, modEdgeProps, modEdgeLabels, edgeTopology>>

\* delete_node_no_detach when it returns Ok; G1001 otherwise.
DeleteNodeNoDetach(n) ==
  /\ IncidentEdges(n) = {}
  /\ deletedNodes' = deletedNodes \cup {n}
  /\ UNCHANGED <<base, newNodes, modNodeProps, modNodeLabels, edgeOverlay>>

(***************************************************************************)
(* A write to an overlay element changes its slot, a write to a base       *)
(* element its per-record modification.                                    *)
(***************************************************************************)
WriteNodeProps(n, props, mods) ==
  /\ IF IsBaseNode(n)
     THEN modNodeProps' = [modNodeProps EXCEPT ![n] = mods] /\ UNCHANGED newNodes
     ELSE newNodes' = [newNodes EXCEPT ![NodeSlot(n)].props = props] /\ UNCHANGED modNodeProps
  /\ UNCHANGED <<base, deletedNodes, modNodeLabels, edgeOverlay>>

WriteEdgeProps(e, props, mods) ==
  /\ IF IsBaseEdge(e)
     THEN modEdgeProps' = [modEdgeProps EXCEPT ![e] = mods] /\ UNCHANGED newEdges
     ELSE newEdges' = [newEdges EXCEPT ![EdgeSlot(e)].props = props] /\ UNCHANGED modEdgeProps
  /\ UNCHANGED <<base, nodeOverlay, deletedEdges, modEdgeLabels, edgeTopology>>

WriteNodeLabels(n, labels, mods) ==
  /\ IF IsBaseNode(n)
     THEN modNodeLabels' = [modNodeLabels EXCEPT ![n] = mods] /\ UNCHANGED newNodes
     ELSE newNodes' = [newNodes EXCEPT ![NodeSlot(n)].labels = labels] /\ UNCHANGED modNodeLabels
  /\ UNCHANGED <<base, deletedNodes, modNodeProps, edgeOverlay>>

WriteEdgeLabels(e, labels, mods) ==
  /\ IF IsBaseEdge(e)
     THEN modEdgeLabels' = [modEdgeLabels EXCEPT ![e] = mods] /\ UNCHANGED newEdges
     ELSE newEdges' = [newEdges EXCEPT ![EdgeSlot(e)].labels = labels] /\ UNCHANGED modEdgeLabels
  /\ UNCHANGED <<base, nodeOverlay, deletedEdges, modEdgeProps, edgeTopology>>

\* set_*_prop (v a value) and remove_*_prop (v = Absent)
SetNodeProp(n, p, v) ==
  WriteNodeProps(n, [NodeProps(n) EXCEPT ![p] = v], StageProp(modNodeProps[n], p, v))
SetEdgeProp(e, p, v) ==
  WriteEdgeProps(e, [EdgeProps(e) EXCEPT ![p] = v], StageProp(modEdgeProps[e], p, v))

ReplaceNodeProps(n, props) == WriteNodeProps(n, props, StageReplace(props))
ReplaceEdgeProps(e, props) == WriteEdgeProps(e, props, StageReplace(props))

AddNodeLabel(n, l) ==
  WriteNodeLabels(n, NodeLabels(n) \cup {l}, StageLabelAdded(modNodeLabels[n], l))
AddEdgeLabel(e, l) ==
  WriteEdgeLabels(e, EdgeLabels(e) \cup {l}, StageLabelAdded(modEdgeLabels[e], l))
RemoveNodeLabel(n, l) ==
  WriteNodeLabels(n, NodeLabels(n) \ {l}, StageLabelRemoved(modNodeLabels[n], l))
RemoveEdgeLabel(e, l) ==
  WriteEdgeLabels(e, EdgeLabels(e) \ {l}, StageLabelRemoved(modEdgeLabels[e], l))

(***************************************************************************)
(* Types.                                                                  *)
(***************************************************************************)
OverlayTypeOK ==
  /\ IsImage(base)
  /\ newNodes \in Seq(NodeRecord)
  /\ newEdges \in Seq(EdgeRecord)
  /\ NextNodeId <= MaxNodes
  /\ NextEdgeId <= MaxEdges
  /\ deletedNodes \subseteq AllocatedNodes
  /\ deletedEdges \subseteq AllocatedEdges
  /\ modNodeProps \in [NodeIds -> PropMods]
  /\ modEdgeProps \in [EdgeIds -> PropMods]
  /\ modNodeLabels \in [NodeIds -> LabelMods]
  /\ modEdgeLabels \in [EdgeIds -> LabelMods]
  /\ newOutgoing \in [NodeIds -> SUBSET EdgeIds]
  /\ newIncoming \in [NodeIds -> SUBSET EdgeIds]
  /\ newUndirected \in [NodeIds -> SUBSET EdgeIds]
=============================================================================
