------------------------- MODULE SessionStore_proofs -------------------------
(***************************************************************************)
(* The statements of one session, and the sessions of one database file,   *)
(* for every image, every bound and any number of statements, saves,       *)
(* failures and reopenings.                                                *)
(*                                                                         *)
(* First the statements: the overlay stays well typed, no live edge loses  *)
(* an endpoint, and the merged adjacency of a live node is exactly the     *)
(* live edges touching it.  None of the three is inductive alone.  DETACH  *)
(* DELETE tombstones what the adjacency lists name, so it keeps edges from *)
(* dangling only while the lists are complete, and keeps the tombstones    *)
(* well typed only while they name edges that exist.  IInv adds what       *)
(* relates the overlay lists to the overlay records, for deleted nodes and *)
(* edges too.                                                              *)
(*                                                                         *)
(* Then the sessions: what a save leaves at the path can be opened, and    *)
(* the store as a whole behaves as one property graph.                     *)
(* materialize_to_graph numbers the live elements by their rank among the  *)
(* live.  That the ranks of a set are dense, and each taken once, is what  *)
(* the image rests on; that every live edge has live endpoints is why none *)
(* is left out of it.                                                      *)
(***************************************************************************)
EXTENDS SessionStore, Overlay_proofs, FiniteSetTheorems

(***************************************************************************)
(* The statements of a session.                                            *)
(***************************************************************************)
OverlayEdges == AllocatedEdges \ BaseEdges

\* The endpoints of every edge ever filed are nodes ever allocated.
EndpointsAllocated ==
  \A e \in AllocatedEdges : Src(e) \in AllocatedNodes /\ Tgt(e) \in AllocatedNodes

\* The overlay lists hold the overlay edges at their endpoints, tombstoned ones included.
OverlayAdjacency ==
  \A n \in NodeIds :
    /\ newOutgoing[n] = {e \in OverlayEdges : IsDirected(e) /\ Src(e) = n}
    /\ newIncoming[n] = {e \in OverlayEdges : IsDirected(e) /\ Tgt(e) = n}
    /\ newUndirected[n] = {e \in OverlayEdges : ~IsDirected(e) /\ n \in {Src(e), Tgt(e)}}

Topology == EndpointsAllocated /\ OverlayAdjacency

IInv == TypeOK /\ Topology /\ NoDanglingEdge

(***************************************************************************)
(* What the adjacency invariant says of the merged view.                   *)
(***************************************************************************)

\* The merged adjacency of any allocated node, live or not, is the live edges touching it.
LEMMA MergedAdjacency ==
  ASSUME OverlayTypeOK, OverlayAdjacency, NEW n \in AllocatedNodes
  PROVE  /\ OutgoingEdges(n) = {e \in LiveEdges : IsDirected(e) /\ Src(e) = n}
         /\ IncomingEdges(n) = {e \in LiveEdges : IsDirected(e) /\ Tgt(e) = n}
         /\ UndirectedEdgesOf(n) = {e \in LiveEdges : ~IsDirected(e) /\ n \in {Src(e), Tgt(e)}}
<1>1. n \in NodeIds
  BY IdsInRange
<1>2. BaseEdges \subseteq AllocatedEdges
  BY IdsInRange DEF BaseEdges, AllocatedEdges, NextEdgeId
<1>3. ASSUME NEW e \in BaseEdges
      PROVE  Src(e) = base.edge[e].src /\ Tgt(e) = base.edge[e].tgt
             /\ IsDirected(e) = base.edge[e].directed
  BY IdsInRange DEF BaseEdges, IsBaseEdge, Src, Tgt, IsDirected, EdgeRecordOf
<1>4. AllocatedEdges = BaseEdges \cup OverlayEdges
  BY <1>2 DEF OverlayEdges
<1>5. OutgoingEdges(n) = {e \in LiveEdges : IsDirected(e) /\ Src(e) = n}
  <2>1. newOutgoing[n] = {e \in OverlayEdges : IsDirected(e) /\ Src(e) = n}
    BY <1>1 DEF OverlayAdjacency
  <2> QED
    BY <1>3, <1>4, <2>1 DEF OutgoingEdges, LiveEdges
<1>6. IncomingEdges(n) = {e \in LiveEdges : IsDirected(e) /\ Tgt(e) = n}
  <2>1. newIncoming[n] = {e \in OverlayEdges : IsDirected(e) /\ Tgt(e) = n}
    BY <1>1 DEF OverlayAdjacency
  <2> QED
    BY <1>3, <1>4, <2>1 DEF IncomingEdges, LiveEdges
<1>7. UndirectedEdgesOf(n) = {e \in LiveEdges : ~IsDirected(e) /\ n \in {Src(e), Tgt(e)}}
  <2>1. newUndirected[n] = {e \in OverlayEdges : ~IsDirected(e) /\ n \in {Src(e), Tgt(e)}}
    BY <1>1 DEF OverlayAdjacency
  <2> QED
    BY <1>3, <1>4, <2>1 DEF UndirectedEdgesOf, LiveEdges
<1> QED
  BY <1>5, <1>6, <1>7

\* The edges DETACH DELETE tombstones exist, and they are all the live edges of the node.
LEMMA IncidentIsExact ==
  ASSUME OverlayTypeOK, OverlayAdjacency, NEW n \in AllocatedNodes
  PROVE  /\ IncidentEdges(n) \subseteq AllocatedEdges
         /\ \A e \in LiveEdges : n \in {Src(e), Tgt(e)} => e \in IncidentEdges(n)
<1> QED
  BY MergedAdjacency DEF IncidentEdges, LiveEdges

(***************************************************************************)
(* The topology is disturbed by INSERT of an edge and by a rollback only.  *)
(***************************************************************************)
SameEdges ==
  /\ AllocatedEdges' = AllocatedEdges
  /\ OverlayEdges' = OverlayEdges
  /\ \A e \in AllocatedEdges : /\ Src(e)' = Src(e)
                               /\ Tgt(e)' = Tgt(e)
                               /\ IsDirected(e)' = IsDirected(e)

\* An edge keeps its endpoints through every write to its labels or properties.
LEMMA EdgesFrame ==
  ASSUME OverlayTypeOK, base' = base, NextEdgeId' = NextEdgeId, SameEndpoints
  PROVE  SameEdges
<1>1. AllocatedEdges' = AllocatedEdges /\ OverlayEdges' = OverlayEdges
  BY DEF AllocatedEdges, OverlayEdges, BaseEdges
<1>2. ASSUME NEW e \in AllocatedEdges
      PROVE  Src(e)' = Src(e) /\ Tgt(e)' = Tgt(e) /\ IsDirected(e)' = IsDirected(e)
  <2>1. CASE IsBaseEdge(e)
    BY <2>1 DEF Src, Tgt, IsDirected, EdgeRecordOf, IsBaseEdge
  <2>2. CASE ~IsBaseEdge(e)
    <3>1. EdgeSlot(e) \in 1 .. Len(newEdges) /\ EdgeSlot(e)' = EdgeSlot(e) /\ ~IsBaseEdge(e)'
      BY <2>2, IdsInRange DEF EdgeSlot, IsBaseEdge
    <3> QED
      BY <2>2, <3>1 DEF Src, Tgt, IsDirected, EdgeRecordOf, SameEndpoints
  <2> QED
    BY <2>1, <2>2
<1> QED
  BY <1>1, <1>2 DEF SameEdges

\* Allocating a node, a tombstone, or a write to labels or properties keeps the topology.
LEMMA TopologyFrame ==
  ASSUME Topology, SameEdges, AllocatedNodes \subseteq AllocatedNodes', UNCHANGED edgeTopology
  PROVE  Topology'
<1>1. EndpointsAllocated'
  BY DEF Topology, EndpointsAllocated, SameEdges
<1>2. OverlayAdjacency'
  <2>1. OverlayEdges \subseteq AllocatedEdges
    BY DEF OverlayEdges
  <2>2. newOutgoing' = newOutgoing /\ newIncoming' = newIncoming /\ newUndirected' = newUndirected
    BY DEF edgeTopology
  <2> SUFFICES ASSUME NEW n \in NodeIds
               PROVE
      /\ newOutgoing[n]' = {e \in OverlayEdges' : IsDirected(e)' /\ Src(e)' = n}
      /\ newIncoming[n]' = {e \in OverlayEdges' : IsDirected(e)' /\ Tgt(e)' = n}
      /\ newUndirected[n]' = {e \in OverlayEdges' : ~IsDirected(e)' /\ n \in {Src(e)', Tgt(e)'}}
    BY DEF OverlayAdjacency
  <2>3. newOutgoing[n]' = {e \in OverlayEdges' : IsDirected(e)' /\ Src(e)' = n}
    BY <2>1, <2>2 DEF Topology, OverlayAdjacency, SameEdges
  <2>4. newIncoming[n]' = {e \in OverlayEdges' : IsDirected(e)' /\ Tgt(e)' = n}
    BY <2>1, <2>2 DEF Topology, OverlayAdjacency, SameEdges
  <2>5. newUndirected[n]' = {e \in OverlayEdges' : ~IsDirected(e)' /\ n \in {Src(e)', Tgt(e)'}}
    BY <2>1, <2>2 DEF Topology, OverlayAdjacency, SameEdges
  <2> QED
    BY <2>3, <2>4, <2>5
<1> QED
  BY <1>1, <1>2 DEF Topology

\* An edge that stays live keeps its endpoints live while no live node dies.
LEMMA DanglingFrame ==
  ASSUME NoDanglingEdge, SameEdges, LiveEdges' \subseteq LiveEdges, LiveNodes \subseteq LiveNodes'
  PROVE  NoDanglingEdge'
<1>1. LiveEdges \subseteq AllocatedEdges
  BY DEF LiveEdges
<1> QED
  BY <1>1 DEF NoDanglingEdge, SameEdges

\* An image with an empty overlay satisfies the whole invariant.
LEMMA EmptyOverlayTopology ==
  ASSUME IsImage(base), EmptyOverlay
  PROVE  Topology /\ NoDanglingEdge
<1>1. OverlayTypeOK /\ NextNodeId = base.nodeCount /\ NextEdgeId = base.edgeCount
  BY EmptyOverlayType
<1>2. OverlayEdges = {} /\ AllocatedEdges = 0 .. base.edgeCount - 1
  BY <1>1 DEF OverlayEdges, AllocatedEdges, BaseEdges
<1>3. ASSUME NEW e \in AllocatedEdges
      PROVE  Src(e) \in AllocatedNodes /\ Tgt(e) \in AllocatedNodes
  <2>1. IsBaseEdge(e) /\ e \in 0 .. base.edgeCount - 1
    BY <1>1, <1>2, IdsInRange DEF IsBaseEdge
  <2>2. base.edge[e] \in EdgeRecord /\ base.edge[e].src < base.nodeCount
        /\ base.edge[e].tgt < base.nodeCount
    BY <2>1 DEF IsImage
  <2>3. base.edge[e].src \in Nat /\ base.edge[e].tgt \in Nat /\ base.nodeCount \in Nat
    BY <1>1, <2>2, IdsInRange, BoundsAssumption DEF EdgeRecord, NodeIds
  <2> QED
    BY <1>1, <2>1, <2>2, <2>3 DEF Src, Tgt, EdgeRecordOf, AllocatedNodes
<1>4. OverlayAdjacency
  BY <1>2 DEF OverlayAdjacency, EmptyOverlay, Unmodified
<1>5. LiveNodes = AllocatedNodes /\ LiveEdges = AllocatedEdges
  BY DEF LiveNodes, LiveEdges, EmptyOverlay
<1> QED
  BY <1>3, <1>4, <1>5 DEF Topology, EndpointsAllocated, NoDanglingEdge

(***************************************************************************)
(* The operations.                                                         *)
(***************************************************************************)

\* The new edge has the endpoints and direction asked for; every other edge keeps its own.
LEMMA PushEdgeRecords ==
  ASSUME OverlayTypeOK, NEW s \in AllocatedNodes, NEW t \in AllocatedNodes,
         NEW directed \in BOOLEAN, NEW l \in SUBSET Labels, NEW p \in PropMap,
         PushEdge(s, t, directed, l, p), NEW new, new = NextEdgeId
  PROVE  /\ AllocatedEdges' = AllocatedEdges \cup {new}
         /\ OverlayEdges' = OverlayEdges \cup {new}
         /\ new \notin AllocatedEdges
         /\ Src(new)' = s /\ Tgt(new)' = t /\ IsDirected(new)' = directed
         /\ \A e \in AllocatedEdges : /\ Src(e)' = Src(e)
                                      /\ Tgt(e)' = Tgt(e)
                                      /\ IsDirected(e)' = IsDirected(e)
<1> DEFINE r == [src |-> s, tgt |-> t, directed |-> directed, labels |-> l, props |-> p]
<1>1. base' = base /\ newEdges' = Append(newEdges, r)
  BY DEF PushEdge
<1>2. new \in Nat /\ base.edgeCount \in Nat /\ Len(newEdges) \in Nat
      /\ new = base.edgeCount + Len(newEdges)
  BY IdsInRange DEF NextEdgeId
<1>3. NextEdgeId' = new + 1
  BY PushEdgeType
<1>4. AllocatedEdges' = AllocatedEdges \cup {new} /\ new \notin AllocatedEdges
  BY <1>2, <1>3 DEF AllocatedEdges
<1>5. OverlayEdges' = OverlayEdges \cup {new}
  BY <1>1, <1>2, <1>4 DEF OverlayEdges, BaseEdges
<1>6. r \in EdgeRecord
  BY IdsInRange DEF EdgeRecord
<1>7. /\ newEdges'[Len(newEdges) + 1] = r
      /\ \A k \in 1 .. Len(newEdges) : newEdges'[k] = newEdges[k]
  <2>1. newEdges \in Seq(EdgeRecord)
    BY DEF OverlayTypeOK
  <2> HIDE DEF r
  <2> QED
    BY <1>1, <1>6, <2>1, AppendProperties
<1>8. EdgeRecordOf(new)' = r
  <2>1. ~IsBaseEdge(new)' /\ EdgeSlot(new)' = Len(newEdges) + 1
    BY <1>1, <1>2 DEF IsBaseEdge, EdgeSlot
  <2> HIDE DEF r
  <2> QED
    BY <1>7, <2>1 DEF EdgeRecordOf
<1>9. ASSUME NEW e \in AllocatedEdges
      PROVE  EdgeRecordOf(e)' = EdgeRecordOf(e)
  <2>1. CASE IsBaseEdge(e)
    BY <1>1, <2>1 DEF EdgeRecordOf, IsBaseEdge
  <2>2. CASE ~IsBaseEdge(e)
    <3>1. EdgeSlot(e) \in 1 .. Len(newEdges) /\ EdgeSlot(e)' = EdgeSlot(e) /\ ~IsBaseEdge(e)'
      BY <1>1, <2>2, IdsInRange DEF EdgeSlot, IsBaseEdge
    <3> QED
      BY <1>7, <2>2, <3>1 DEF EdgeRecordOf
  <2> QED
    BY <2>1, <2>2
<1>10. Src(new)' = s /\ Tgt(new)' = t /\ IsDirected(new)' = directed
  <2>1. r.src = s /\ r.tgt = t /\ r.directed = directed
    OBVIOUS
  <2> HIDE DEF r
  <2> QED
    BY <1>8, <2>1 DEF Src, Tgt, IsDirected
<1> HIDE DEF r
<1> QED
  BY <1>4, <1>5, <1>9, <1>10 DEF Src, Tgt, IsDirected

\* insert_edge files the new edge in the lists of its endpoints, and nothing else anywhere.
LEMMA PushEdgeTopology ==
  ASSUME OverlayTypeOK, Topology, NEW s \in AllocatedNodes, NEW t \in AllocatedNodes,
         NEW directed \in BOOLEAN, NEW l \in SUBSET Labels, NEW p \in PropMap,
         PushEdge(s, t, directed, l, p)
  PROVE  Topology'
<1>0. PICK new : new = NextEdgeId
  OBVIOUS
<1>1. /\ AllocatedEdges' = AllocatedEdges \cup {new}
      /\ OverlayEdges' = OverlayEdges \cup {new}
      /\ new \notin AllocatedEdges
      /\ Src(new)' = s /\ Tgt(new)' = t /\ IsDirected(new)' = directed
      /\ \A e \in AllocatedEdges : /\ Src(e)' = Src(e)
                                   /\ Tgt(e)' = Tgt(e)
                                   /\ IsDirected(e)' = IsDirected(e)
  BY <1>0, PushEdgeRecords
<1>2. AllocatedNodes' = AllocatedNodes
  BY PushEdgeType DEF AllocatedNodes
<1>3. s \in NodeIds /\ t \in NodeIds /\ new \in EdgeIds
  BY <1>0, IdsInRange, BoundsAssumption DEF PushEdge, EdgeIds
<1>4. /\ newOutgoing \in [NodeIds -> SUBSET EdgeIds]
      /\ newIncoming \in [NodeIds -> SUBSET EdgeIds]
      /\ newUndirected \in [NodeIds -> SUBSET EdgeIds]
  BY DEF OverlayTypeOK
<1>5. OverlayEdges \subseteq AllocatedEdges
  BY DEF OverlayEdges
<1>6. EndpointsAllocated'
  BY <1>1, <1>2 DEF Topology, EndpointsAllocated
<1>7. ASSUME NEW n \in NodeIds
      PROVE  /\ newOutgoing'[n] = newOutgoing[n] \cup {e \in {new} : directed /\ s = n}
             /\ newIncoming'[n] = newIncoming[n] \cup {e \in {new} : directed /\ t = n}
             /\ newUndirected'[n] = newUndirected[n] \cup {e \in {new} : ~directed /\ n \in {s, t}}
  <2>1. CASE directed
    <3>1. /\ newOutgoing' = FileUnder(newOutgoing, s, new)
          /\ newIncoming' = FileUnder(newIncoming, t, new)
          /\ newUndirected' = newUndirected
      BY <1>0, <2>1 DEF PushEdge
    <3>2. /\ newOutgoing'[n] = IF n = s THEN newOutgoing[n] \cup {new} ELSE newOutgoing[n]
          /\ newIncoming'[n] = IF n = t THEN newIncoming[n] \cup {new} ELSE newIncoming[n]
      BY <1>3, <1>4, <3>1 DEF FileUnder
    <3> QED
      BY <2>1, <3>1, <3>2
  <2>2. CASE ~directed
    <3>1. /\ newOutgoing' = newOutgoing /\ newIncoming' = newIncoming
          /\ newUndirected' = FileUnder(FileUnder(newUndirected, s, new), t, new)
      BY <1>0, <2>2 DEF PushEdge, FileUnderBoth
    <3>2. FileUnder(newUndirected, s, new) \in [NodeIds -> SUBSET EdgeIds]
      BY <1>3, <1>4, FileUnderType
    <3>3. newUndirected'[n] = newUndirected[n] \cup {e \in {new} : n \in {s, t}}
      <4> DEFINE filed == FileUnder(newUndirected, s, new)
      <4>1. filed[n] = IF n = s THEN newUndirected[n] \cup {new} ELSE newUndirected[n]
        BY <1>3, <1>4 DEF FileUnder
      <4>2. filed \in [NodeIds -> SUBSET EdgeIds] /\ newUndirected' = FileUnder(filed, t, new)
        BY <3>1, <3>2
      <4> HIDE DEF filed
      <4>3. newUndirected'[n] = IF n = t THEN filed[n] \cup {new} ELSE filed[n]
        BY <1>3, <4>2 DEF FileUnder
      <4> QED
        BY <4>1, <4>3
    <3> QED
      BY <2>2, <3>1, <3>3
  <2> QED
    BY <2>1, <2>2
<1>8. ASSUME NEW n \in NodeIds
      PROVE  /\ newOutgoing'[n] = {e \in OverlayEdges' : IsDirected(e)' /\ Src(e)' = n}
             /\ newIncoming'[n] = {e \in OverlayEdges' : IsDirected(e)' /\ Tgt(e)' = n}
             /\ newUndirected'[n] =
                  {e \in OverlayEdges' : ~IsDirected(e)' /\ n \in {Src(e)', Tgt(e)'}}
  <2>1. newOutgoing'[n] = {e \in OverlayEdges' : IsDirected(e)' /\ Src(e)' = n}
    <3>1. newOutgoing[n] = {e \in OverlayEdges : IsDirected(e) /\ Src(e) = n}
      BY DEF Topology, OverlayAdjacency
    <3> QED
      BY <1>1, <1>5, <1>7, <3>1
  <2>2. newIncoming'[n] = {e \in OverlayEdges' : IsDirected(e)' /\ Tgt(e)' = n}
    <3>1. newIncoming[n] = {e \in OverlayEdges : IsDirected(e) /\ Tgt(e) = n}
      BY DEF Topology, OverlayAdjacency
    <3> QED
      BY <1>1, <1>5, <1>7, <3>1
  <2>3. newUndirected'[n] =
          {e \in OverlayEdges' : ~IsDirected(e)' /\ n \in {Src(e)', Tgt(e)'}}
    <3>1. newUndirected[n] = {e \in OverlayEdges : ~IsDirected(e) /\ n \in {Src(e), Tgt(e)}}
      BY DEF Topology, OverlayAdjacency
    <3> QED
      BY <1>1, <1>5, <1>7, <3>1
  <2> QED
    BY <2>1, <2>2, <2>3
<1> QED
  BY <1>6, <1>8 DEF Topology, OverlayAdjacency

\* DELETE: tombstones that leave no live edge at a dead node keep the invariant.
LEMMA TombstonesKeepInvariant ==
  ASSUME OverlayTypeOK, Topology, NoDanglingEdge,
         NEW dn \in SUBSET AllocatedNodes, deletedNodes' = deletedNodes \cup dn,
         NEW de \in SUBSET AllocatedEdges, deletedEdges' = deletedEdges \cup de,
         \A e \in LiveEdges \ de : Src(e) \notin dn /\ Tgt(e) \notin dn,
         UNCHANGED <<base, newNodes, modNodeProps, modNodeLabels,
                     newEdges, modEdgeProps, modEdgeLabels, edgeTopology>>
  PROVE  OverlayTypeOK' /\ SameIds /\ Topology' /\ NoDanglingEdge'
<1>1. OverlayTypeOK' /\ SameIds
  BY TombstoneType
<1>2. SameEndpoints /\ base' = base
  BY DEF SameEndpoints
<1>3. SameEdges
  BY <1>1, <1>2, EdgesFrame DEF SameIds
<1>4. AllocatedNodes' = AllocatedNodes
  BY <1>1 DEF SameIds, AllocatedNodes
<1>5. Topology'
  BY <1>3, <1>4, TopologyFrame
<1>6. LiveNodes' = LiveNodes \ dn /\ LiveEdges' = LiveEdges \ de
  BY <1>3, <1>4 DEF LiveNodes, LiveEdges, SameEdges
<1>7. LiveEdges \subseteq AllocatedEdges
  BY DEF LiveEdges
<1>8. NoDanglingEdge'
  BY <1>3, <1>6, <1>7 DEF NoDanglingEdge, SameEdges
<1> QED
  BY <1>1, <1>5, <1>8

\* DETACH DELETE takes the node's live edges with it; NODETACH runs only without any.
LEMMA DeleteNodeKeepsInvariant ==
  ASSUME OverlayTypeOK, Topology, NoDanglingEdge, NEW n \in AllocatedNodes,
         DetachDeleteNode(n) \/ DeleteNodeNoDetach(n)
  PROVE  OverlayTypeOK' /\ SameIds /\ Topology' /\ NoDanglingEdge'
<1>1. /\ IncidentEdges(n) \subseteq AllocatedEdges
      /\ \A e \in LiveEdges \ IncidentEdges(n) : Src(e) \notin {n} /\ Tgt(e) \notin {n}
  BY IncidentIsExact DEF Topology
<1>2. {n} \in SUBSET AllocatedNodes
  OBVIOUS
<1>3. CASE DetachDeleteNode(n)
  <2>1. /\ deletedEdges' = deletedEdges \cup IncidentEdges(n)
        /\ deletedNodes' = deletedNodes \cup {n}
        /\ UNCHANGED <<base, newNodes, modNodeProps, modNodeLabels,
                       newEdges, modEdgeProps, modEdgeLabels, edgeTopology>>
    BY <1>3 DEF DetachDeleteNode
  <2>2. IncidentEdges(n) \in SUBSET AllocatedEdges
    BY <1>1
  <2> QED
    BY <1>1, <1>2, <2>1, <2>2, TombstonesKeepInvariant
<1>4. CASE DeleteNodeNoDetach(n)
  <2>0. PICK none \in SUBSET AllocatedEdges : none = {}
    OBVIOUS
  <2>1. /\ deletedEdges' = deletedEdges \cup none
        /\ deletedNodes' = deletedNodes \cup {n}
        /\ UNCHANGED <<base, newNodes, modNodeProps, modNodeLabels,
                       newEdges, modEdgeProps, modEdgeLabels, edgeTopology>>
    BY <1>4, <2>0 DEF DeleteNodeNoDetach, edgeOverlay
  <2>2. \A e \in LiveEdges \ none : Src(e) \notin {n} /\ Tgt(e) \notin {n}
    BY <1>1, <1>4, <2>0 DEF DeleteNodeNoDetach
  <2> QED
    BY <1>2, <2>1, <2>2, TombstonesKeepInvariant
<1> QED
  BY <1>3, <1>4

\* DELETE of an edge tombstones that edge alone.
LEMMA DeleteEdgeKeepsInvariant ==
  ASSUME OverlayTypeOK, Topology, NoDanglingEdge, NEW e \in AllocatedEdges, TombstoneEdge(e)
  PROVE  OverlayTypeOK' /\ SameIds /\ Topology' /\ NoDanglingEdge'
<1>0. PICK none \in SUBSET AllocatedNodes : none = {}
  OBVIOUS
<1>1. /\ deletedEdges' = deletedEdges \cup {e}
      /\ deletedNodes' = deletedNodes \cup none
      /\ UNCHANGED <<base, newNodes, modNodeProps, modNodeLabels,
                     newEdges, modEdgeProps, modEdgeLabels, edgeTopology>>
  BY <1>0 DEF TombstoneEdge, nodeOverlay
<1>2. \A d \in LiveEdges \ {e} : Src(d) \notin none /\ Tgt(d) \notin none
  BY <1>0
<1>3. {e} \in SUBSET AllocatedEdges
  OBVIOUS
<1> QED
  BY <1>1, <1>2, <1>3, TombstonesKeepInvariant

\* SET and REMOVE on a node write a well-typed record or modification.
LEMMA UpdateNodeType ==
  ASSUME OverlayTypeOK, NEW n \in AllocatedNodes, UpdateNode(n)
  PROVE  /\ OverlayTypeOK' /\ SameIds
         /\ UNCHANGED <<base, deletedNodes, edgeOverlay>>
<1>1. /\ NodeLabels(n) \in SUBSET Labels /\ NodeProps(n) \in PropMap
      /\ modNodeProps[n] \in PropMods /\ modNodeLabels[n] \in LabelMods
  BY NodeReadType, IdsInRange DEF OverlayTypeOK
<1>2. ASSUME NEW p \in Props, NEW v \in Values \cup {Absent}, SetNodeProp(n, p, v)
      PROVE  OverlayTypeOK' /\ SameIds /\ UNCHANGED <<base, deletedNodes, edgeOverlay>>
  <2>1. [NodeProps(n) EXCEPT ![p] = v] \in PropMap
    BY <1>1 DEF PropMap
  <2>2. StageProp(modNodeProps[n], p, v) \in PropMods
    BY <1>1, StagePropType
  <2>3. OverlayTypeOK' /\ SameIds
    BY <1>2, <2>1, <2>2, WriteNodePropsType DEF SetNodeProp
  <2> QED
    BY <1>2, <2>3 DEF SetNodeProp, WriteNodeProps
<1>3. ASSUME NEW m \in PropMap, ReplaceNodeProps(n, m)
      PROVE  OverlayTypeOK' /\ SameIds /\ UNCHANGED <<base, deletedNodes, edgeOverlay>>
  BY <1>3, StageReplaceType, WriteNodePropsType DEF ReplaceNodeProps, WriteNodeProps
<1>4. ASSUME NEW l \in Labels, AddNodeLabel(n, l) \/ RemoveNodeLabel(n, l)
      PROVE  OverlayTypeOK' /\ SameIds /\ UNCHANGED <<base, deletedNodes, edgeOverlay>>
  <2>1. NodeLabels(n) \cup {l} \in SUBSET Labels /\ NodeLabels(n) \ {l} \in SUBSET Labels
    BY <1>1
  <2>2. /\ StageLabelAdded(modNodeLabels[n], l) \in LabelMods
        /\ StageLabelRemoved(modNodeLabels[n], l) \in LabelMods
    BY <1>1, StageLabelType
  <2> QED
    BY <1>4, <2>1, <2>2, WriteNodeLabelsType DEF AddNodeLabel, RemoveNodeLabel, WriteNodeLabels
<1>5. \/ \E p \in Props, v \in Values \cup {Absent} : SetNodeProp(n, p, v)
      \/ \E m \in PropMap : ReplaceNodeProps(n, m)
      \/ \E l \in Labels : AddNodeLabel(n, l) \/ RemoveNodeLabel(n, l)
  BY DEF UpdateNode
<1> QED
  BY <1>2, <1>3, <1>4, <1>5

\* SET and REMOVE on an edge write a well-typed record or modification, and no endpoint.
LEMMA UpdateEdgeType ==
  ASSUME OverlayTypeOK, NEW e \in AllocatedEdges, UpdateEdge(e)
  PROVE  /\ OverlayTypeOK' /\ SameIds /\ SameEndpoints
         /\ UNCHANGED <<base, nodeOverlay, deletedEdges, edgeTopology>>
<1>1. /\ EdgeLabels(e) \in SUBSET Labels /\ EdgeProps(e) \in PropMap
      /\ modEdgeProps[e] \in PropMods /\ modEdgeLabels[e] \in LabelMods
  BY EdgeReadType, IdsInRange DEF OverlayTypeOK
<1>2. ASSUME NEW p \in Props, NEW v \in Values \cup {Absent}, SetEdgeProp(e, p, v)
      PROVE  /\ OverlayTypeOK' /\ SameIds /\ SameEndpoints
             /\ UNCHANGED <<base, nodeOverlay, deletedEdges, edgeTopology>>
  <2>1. [EdgeProps(e) EXCEPT ![p] = v] \in PropMap
    BY <1>1 DEF PropMap
  <2>2. StageProp(modEdgeProps[e], p, v) \in PropMods
    BY <1>1, StagePropType
  <2> QED
    BY <1>2, <2>1, <2>2, WriteEdgePropsType DEF SetEdgeProp, WriteEdgeProps
<1>3. ASSUME NEW m \in PropMap, ReplaceEdgeProps(e, m)
      PROVE  /\ OverlayTypeOK' /\ SameIds /\ SameEndpoints
             /\ UNCHANGED <<base, nodeOverlay, deletedEdges, edgeTopology>>
  BY <1>3, StageReplaceType, WriteEdgePropsType DEF ReplaceEdgeProps, WriteEdgeProps
<1>4. ASSUME NEW l \in Labels, AddEdgeLabel(e, l) \/ RemoveEdgeLabel(e, l)
      PROVE  /\ OverlayTypeOK' /\ SameIds /\ SameEndpoints
             /\ UNCHANGED <<base, nodeOverlay, deletedEdges, edgeTopology>>
  <2>1. EdgeLabels(e) \cup {l} \in SUBSET Labels /\ EdgeLabels(e) \ {l} \in SUBSET Labels
    BY <1>1
  <2>2. /\ StageLabelAdded(modEdgeLabels[e], l) \in LabelMods
        /\ StageLabelRemoved(modEdgeLabels[e], l) \in LabelMods
    BY <1>1, StageLabelType
  <2> QED
    BY <1>4, <2>1, <2>2, WriteEdgeLabelsType DEF AddEdgeLabel, RemoveEdgeLabel, WriteEdgeLabels
<1>5. \/ \E p \in Props, v \in Values \cup {Absent} : SetEdgeProp(e, p, v)
      \/ \E m \in PropMap : ReplaceEdgeProps(e, m)
      \/ \E l \in Labels : AddEdgeLabel(e, l) \/ RemoveEdgeLabel(e, l)
  BY DEF UpdateEdge
<1> QED
  BY <1>2, <1>3, <1>4, <1>5

(***************************************************************************)
(* The invariant and the theorems.                                         *)
(***************************************************************************)

\* A session starts in the invariant.
LEMMA InitEstablishesInvariant == Init => IInv
<1> SUFFICES ASSUME Init PROVE IInv
  OBVIOUS
<1>1. IsImage(base) /\ EmptyOverlay
  BY ImagesAssumption DEF Init, OpenImage
<1>2. OverlayTypeOK /\ Topology /\ NoDanglingEdge
  BY <1>1, EmptyOverlayType, EmptyOverlayTopology
<1>3. TypeOK
  BY <1>2 DEF Init, TypeOK
<1> QED
  BY <1>2, <1>3 DEF IInv

\* INSERT of a node, whose id is bound in the same step.
LEMMA InsertNodeKeepsInvariant ==
  ASSUME IInv, NEW l \in SUBSET Labels, NEW p \in PropMap, InsertNode(l, p)
  PROVE  IInv'
<1>1. PushNode(l, p) /\ OverlayTypeOK /\ Topology /\ NoDanglingEdge
  BY DEF InsertNode, IInv, TypeOK
<1>2. OverlayTypeOK' /\ NextNodeId' = NextNodeId + 1 /\ NextEdgeId' = NextEdgeId
  BY <1>1, PushNodeType
<1>3. UNCHANGED <<base, deletedNodes, edgeOverlay>> /\ UNCHANGED edgeTopology
  BY <1>1 DEF PushNode, edgeOverlay
<1>4. SameEdges
  BY <1>1, <1>2, <1>3, EdgesFrame DEF SameEndpoints, edgeOverlay
<1>5. AllocatedNodes' = AllocatedNodes \cup {NextNodeId}
  BY <1>1, <1>2, IdsInRange DEF AllocatedNodes
<1>6. Topology'
  BY <1>1, <1>3, <1>4, <1>5, TopologyFrame
<1>7. NoDanglingEdge'
  <2>1. LiveEdges' = LiveEdges /\ LiveNodes \subseteq LiveNodes'
    BY <1>3, <1>4, <1>5 DEF LiveEdges, LiveNodes, SameEdges, edgeOverlay
  <2> QED
    BY <1>1, <1>4, <2>1, DanglingFrame
<1>8. TypeOK'
  BY <1>2, <1>4, <1>5 DEF TypeOK, IInv, InsertNode, SameEdges
<1> QED
  BY <1>6, <1>7, <1>8 DEF IInv

\* INSERT of an edge: the endpoint check is what keeps it from dangling.
LEMMA InsertEdgeKeepsInvariant ==
  ASSUME IInv, NEW s, NEW t, NEW directed \in BOOLEAN, NEW l \in SUBSET Labels,
         NEW p \in PropMap, InsertEdge(s, t, directed, l, p)
  PROVE  IInv'
<1>1. OverlayTypeOK /\ Topology /\ NoDanglingEdge
  BY DEF IInv, TypeOK
<1>2. /\ s \in LiveNodes /\ t \in LiveNodes
      /\ s \in AllocatedNodes /\ t \in AllocatedNodes
      /\ PushEdge(s, t, directed, l, p)
  BY DEF InsertEdge, LiveNodes
<1>3. OverlayTypeOK' /\ NextEdgeId' = NextEdgeId + 1 /\ NextNodeId' = NextNodeId
  BY <1>1, <1>2, PushEdgeType
<1>4. Topology'
  BY <1>1, <1>2, PushEdgeTopology
<1>5. PICK new : new = NextEdgeId
  OBVIOUS
<1>6. /\ AllocatedEdges' = AllocatedEdges \cup {new}
      /\ Src(new)' = s /\ Tgt(new)' = t
      /\ \A e \in AllocatedEdges : Src(e)' = Src(e) /\ Tgt(e)' = Tgt(e)
  BY <1>1, <1>2, <1>5, PushEdgeRecords
<1>7. AllocatedNodes' = AllocatedNodes
  BY <1>3 DEF AllocatedNodes
<1>8. NoDanglingEdge'
  <2>1. deletedNodes' = deletedNodes /\ deletedEdges' = deletedEdges
    BY <1>2 DEF PushEdge, nodeOverlay
  <2>2. LiveNodes' = LiveNodes /\ LiveEdges' \subseteq LiveEdges \cup {new}
    BY <1>6, <1>7, <2>1 DEF LiveNodes, LiveEdges
  <2>3. LiveEdges \subseteq AllocatedEdges
    BY DEF LiveEdges
  <2> QED
    BY <1>1, <1>2, <1>6, <2>2, <2>3 DEF NoDanglingEdge
<1>9. TypeOK'
  BY <1>3, <1>6, <1>7 DEF TypeOK, IInv, InsertEdge
<1> QED
  BY <1>4, <1>8, <1>9 DEF IInv

\* An operation on elements the rows bound leaves the statement as it was.
LEMMA BoundFrame ==
  ASSUME IInv, OverlayTypeOK', SameIds, UNCHANGED <<stmt, boundNodes, boundEdges>>
  PROVE  TypeOK'
  BY DEF IInv, TypeOK, SameIds, AllocatedNodes, AllocatedEdges

\* Every step keeps the invariant.
LEMMA StepKeepsInvariant == IInv /\ [Next]_vars => IInv'
<1> SUFFICES ASSUME IInv, [Next]_vars PROVE IInv'
  OBVIOUS
<1>1. OverlayTypeOK /\ Topology /\ NoDanglingEdge
  BY DEF IInv, TypeOK
<1>2. boundNodes \subseteq AllocatedNodes /\ boundEdges \subseteq AllocatedEdges
  BY DEF IInv, TypeOK
<1>3. ASSUME UNCHANGED overlayVars
      PROVE  /\ OverlayTypeOK' /\ Topology' /\ NoDanglingEdge'
             /\ AllocatedNodes' = AllocatedNodes /\ AllocatedEdges' = AllocatedEdges
  <2>1. UNCHANGED <<base, newNodes, newEdges, deletedNodes, deletedEdges, modNodeProps,
                    modEdgeProps, modNodeLabels, modEdgeLabels, newOutgoing, newIncoming,
                    newUndirected>>
    BY <1>3 DEF overlayVars, nodeOverlay, edgeOverlay, edgeTopology
  <2>2. PICK none \in SUBSET AllocatedNodes, no_edge \in SUBSET AllocatedEdges :
          none = {} /\ no_edge = {}
    OBVIOUS
  <2>3. /\ deletedNodes' = deletedNodes \cup none
        /\ deletedEdges' = deletedEdges \cup no_edge
        /\ UNCHANGED <<base, newNodes, modNodeProps, modNodeLabels,
                       newEdges, modEdgeProps, modEdgeLabels, edgeTopology>>
    BY <2>1, <2>2 DEF edgeTopology
  <2>4. \A e \in LiveEdges \ no_edge : Src(e) \notin none /\ Tgt(e) \notin none
    BY <2>2
  <2>5. OverlayTypeOK' /\ SameIds /\ Topology' /\ NoDanglingEdge'
    BY <1>1, <2>3, <2>4, TombstonesKeepInvariant
  <2> QED
    BY <2>5 DEF SameIds, AllocatedNodes, AllocatedEdges
<1>4. ASSUME NEW op \in Operations, BeginStatement(op)
      PROVE  IInv'
  BY <1>3, <1>4 DEF BeginStatement, IInv, TypeOK, LiveNodes, LiveEdges
<1>5. CASE EndStatement
  BY <1>3, <1>5 DEF EndStatement, Idle, IInv, TypeOK
<1>6. CASE StatementFails
  <2>1. ClearOverlay
    BY <1>6 DEF StatementFails
  <2>2. EmptyOverlay' /\ base' = base /\ OverlayTypeOK'
    BY <1>1, <2>1, ClearOverlayEmpties, ClearOverlayType
  <2>3. IsImage(base)'
    BY <1>1, <2>2 DEF OverlayTypeOK
  <2>4. (IsImage(base) /\ EmptyOverlay => Topology /\ NoDanglingEdge)'
    BY EmptyOverlayTopology, PTL
  <2> QED
    BY <1>6, <2>2, <2>3, <2>4 DEF StatementFails, Idle, IInv, TypeOK
<1>7. ASSUME NEW l \in SUBSET Labels, NEW p \in PropMap, InsertNode(l, p)
      PROVE  IInv'
  BY <1>7, InsertNodeKeepsInvariant
<1>8. ASSUME NEW s \in boundNodes, NEW t \in boundNodes, NEW directed \in BOOLEAN,
             NEW l \in SUBSET Labels, NEW p \in PropMap, InsertEdge(s, t, directed, l, p)
      PROVE  IInv'
  BY <1>8, InsertEdgeKeepsInvariant
<1>9. ASSUME NEW n \in boundNodes, NEW detach \in BOOLEAN, DeleteNode(n, detach)
      PROVE  IInv'
  <2>1. OverlayTypeOK' /\ SameIds /\ Topology' /\ NoDanglingEdge'
    BY <1>1, <1>2, <1>9, DeleteNodeKeepsInvariant DEF DeleteNode
  <2> QED
    BY <1>9, <2>1, BoundFrame DEF DeleteNode, IInv
<1>10. ASSUME NEW e \in boundEdges, DeleteEdge(e)
       PROVE  IInv'
  <2>1. OverlayTypeOK' /\ SameIds /\ Topology' /\ NoDanglingEdge'
    BY <1>1, <1>2, <1>10, DeleteEdgeKeepsInvariant DEF DeleteEdge
  <2> QED
    BY <1>10, <2>1, BoundFrame DEF DeleteEdge, IInv
<1>11. ASSUME NEW n \in boundNodes, UpdateNode(n)
       PROVE  IInv'
  <2>1. OverlayTypeOK' /\ SameIds /\ UNCHANGED <<base, deletedNodes, edgeOverlay>>
    BY <1>1, <1>2, <1>11, UpdateNodeType
  <2>2. SameEdges
    BY <1>1, <2>1, EdgesFrame DEF SameIds, SameEndpoints, edgeOverlay
  <2>3. AllocatedNodes' = AllocatedNodes /\ UNCHANGED edgeTopology
    BY <2>1 DEF SameIds, AllocatedNodes, edgeOverlay
  <2>4. Topology'
    BY <1>1, <2>2, <2>3, TopologyFrame
  <2>5. LiveNodes' = LiveNodes /\ LiveEdges' = LiveEdges
    BY <2>1, <2>2, <2>3 DEF LiveNodes, LiveEdges, SameEdges, edgeOverlay
  <2>6. NoDanglingEdge'
    BY <1>1, <2>2, <2>5, DanglingFrame
  <2> QED
    BY <1>11, <2>1, <2>4, <2>6, BoundFrame DEF UpdateNode, IInv
<1>12. ASSUME NEW e \in boundEdges, UpdateEdge(e)
       PROVE  IInv'
  <2>1. /\ OverlayTypeOK' /\ SameIds /\ SameEndpoints
        /\ UNCHANGED <<base, nodeOverlay, deletedEdges, edgeTopology>>
    BY <1>1, <1>2, <1>12, UpdateEdgeType
  <2>2. SameEdges
    BY <1>1, <2>1, EdgesFrame DEF SameIds
  <2>3. AllocatedNodes' = AllocatedNodes
    BY <2>1 DEF SameIds, AllocatedNodes
  <2>4. Topology'
    BY <1>1, <2>1, <2>2, <2>3, TopologyFrame
  <2>5. LiveNodes' = LiveNodes /\ LiveEdges' = LiveEdges
    BY <2>1, <2>2, <2>3 DEF LiveNodes, LiveEdges, SameEdges, nodeOverlay
  <2>6. NoDanglingEdge'
    BY <1>1, <2>2, <2>5, DanglingFrame
  <2> QED
    BY <1>12, <2>1, <2>4, <2>6, BoundFrame DEF UpdateEdge, IInv
<1>13. CASE UNCHANGED vars
  BY <1>3, <1>13 DEF vars, IInv, TypeOK
<1> QED
  BY <1>4, <1>5, <1>6, <1>7, <1>8, <1>9, <1>10, <1>11, <1>12, <1>13 DEF Next

\* Every state of a session satisfies the invariant.
THEOREM InductiveInvariant == Spec => []IInv
  BY InitEstablishesInvariant, StepKeepsInvariant, PTL DEF Spec

\* The overlay stays well typed and its ids dense: tombstones and bound rows name ids that
\* were handed out.
THEOREM TypeCorrect == Spec => []TypeOK
<1>1. IInv => TypeOK
  BY DEF IInv
<1> QED
  BY <1>1, InductiveInvariant, PTL

\* No statement, whatever its rows name and wherever it fails, leaves a live edge with a
\* deleted endpoint.
THEOREM EndpointsAlive == Spec => []NoDanglingEdge
<1>1. IInv => NoDanglingEdge
  BY DEF IInv
<1> QED
  BY <1>1, InductiveInvariant, PTL

\* What a traversal from a live node reads is exactly the live edges that touch it.
THEOREM TraversalExact == Spec => []AdjacencyIsExact
<1>1. IInv => AdjacencyIsExact
  <2> SUFFICES ASSUME IInv, NEW n \in LiveNodes
               PROVE  /\ OutgoingEdges(n) = {e \in LiveEdges : IsDirected(e) /\ Src(e) = n}
                      /\ IncomingEdges(n) = {e \in LiveEdges : IsDirected(e) /\ Tgt(e) = n}
                      /\ UndirectedEdgesOf(n) =
                           {e \in LiveEdges : ~IsDirected(e) /\ n \in {Src(e), Tgt(e)}}
    BY DEF AdjacencyIsExact
  <2>1. n \in AllocatedNodes /\ OverlayTypeOK /\ OverlayAdjacency
    BY DEF LiveNodes, IInv, TypeOK, Topology
  <2> QED
    BY <2>1, MergedAdjacency
<1> QED
  BY <1>1, InductiveInvariant, PTL

\* What a label index answers is exactly the live elements whose merged labels hold it.
THEOREM LabelIndexExact == Spec => []LabelIndexIsExact
<1>1. IInv => LabelIndexIsExact
  <2> SUFFICES ASSUME IInv, NEW l \in Labels
               PROVE  /\ NodesWithLabel(l) = {n \in LiveNodes : l \in NodeLabels(n)}
                      /\ \A d \in BOOLEAN :
                           EdgesWithLabel(l, d) =
                             {e \in LiveEdges : IsDirected(e) = d /\ l \in EdgeLabels(e)}
    BY DEF LabelIndexIsExact
  <2>1. OverlayTypeOK
    BY DEF IInv, TypeOK
  <2>2. NodesWithLabel(l) = {n \in LiveNodes : l \in NodeLabels(n)}
    <3>1. \A n \in AllocatedNodes : n \in 0 .. base.nodeCount - 1 <=> IsBaseNode(n)
      BY <2>1, IdsInRange DEF AllocatedNodes, IsBaseNode
    <3>2. 0 .. base.nodeCount - 1 \subseteq AllocatedNodes
      BY <2>1, IdsInRange DEF AllocatedNodes, NextNodeId
    <3> QED
      BY <3>1, <3>2 DEF NodesWithLabel, LiveNodes, NodeLabels, ApplyLabelMods
  <2>3. ASSUME NEW d \in BOOLEAN
        PROVE  EdgesWithLabel(l, d) =
                 {e \in LiveEdges : IsDirected(e) = d /\ l \in EdgeLabels(e)}
    <3>1. \A e \in AllocatedEdges : e \in BaseEdges <=> IsBaseEdge(e)
      BY <2>1, IdsInRange DEF AllocatedEdges, BaseEdges, IsBaseEdge
    <3>2. BaseEdges \subseteq AllocatedEdges
      BY <2>1, IdsInRange DEF AllocatedEdges, BaseEdges, NextEdgeId
    <3> QED
      BY <3>1, <3>2
      DEF EdgesWithLabel, LiveEdges, EdgeLabels, ApplyLabelMods, IsDirected, EdgeRecordOf
  <2> QED
    BY <2>2, <2>3
<1> QED
  BY <1>1, InductiveInvariant, PTL

(***************************************************************************)
(* Writes and reads.                                                       *)
(***************************************************************************)

\* On any element ever allocated, a staged modification applied to the base record, or the
\* rewritten slot, is what the write asked for.
LEMMA NodeReadsBack ==
  ASSUME OverlayTypeOK, NEW n \in AllocatedNodes
  PROVE  NodeWritesReadBack(n)
<1>1. n \in NodeIds
  BY IdsInRange
<1>2. NodeProps(n) \in PropMap /\ NodeLabels(n) \in SUBSET Labels
  BY NodeReadType
<1>3. modNodeProps[n] \in PropMods /\ modNodeLabels[n] \in LabelMods
  BY <1>1 DEF OverlayTypeOK
<1>4. ASSUME NEW props \in PropMap, NEW mods, WriteNodeProps(n, props, mods),
             IsBaseNode(n) => ApplyPropMods(base.node[n].props, mods) = props
      PROVE  NodeProps(n)' = props
  <2>1. base' = base
    BY <1>4 DEF WriteNodeProps
  <2>2. CASE IsBaseNode(n)
    <3>1. modNodeProps'[n] = mods
      BY <1>1, <1>4, <2>2 DEF WriteNodeProps, OverlayTypeOK
    <3> QED
      BY <1>4, <2>1, <2>2, <3>1 DEF NodeProps, IsBaseNode, ApplyPropMods
  <2>3. CASE ~IsBaseNode(n)
    <3>1. NodeSlot(n) \in 1 .. Len(newNodes) /\ newNodes \in Seq(NodeRecord)
      BY <2>3, IdsInRange DEF OverlayTypeOK
    <3>2. newNodes' = [newNodes EXCEPT ![NodeSlot(n)].props = props]
      BY <1>4, <2>3 DEF WriteNodeProps
    <3>3. newNodes[NodeSlot(n)] \in NodeRecord
      BY <3>1, ElementOfSeq
    <3>4. newNodes'[NodeSlot(n)].props = props
      BY <3>1, <3>2, <3>3 DEF NodeRecord
    <3> QED
      BY <2>1, <2>3, <3>4 DEF NodeProps, IsBaseNode, NodeSlot
  <2> QED
    BY <2>2, <2>3
<1>5. ASSUME NEW labels \in SUBSET Labels, NEW mods, WriteNodeLabels(n, labels, mods),
             IsBaseNode(n) => ApplyLabelMods(base.node[n].labels, mods) = labels
      PROVE  NodeLabels(n)' = labels
  <2>1. base' = base
    BY <1>5 DEF WriteNodeLabels
  <2>2. CASE IsBaseNode(n)
    <3>1. modNodeLabels'[n] = mods
      BY <1>1, <1>5, <2>2 DEF WriteNodeLabels, OverlayTypeOK
    <3> QED
      BY <1>5, <2>1, <2>2, <3>1 DEF NodeLabels, IsBaseNode, ApplyLabelMods
  <2>3. CASE ~IsBaseNode(n)
    <3>1. NodeSlot(n) \in 1 .. Len(newNodes) /\ newNodes \in Seq(NodeRecord)
      BY <2>3, IdsInRange DEF OverlayTypeOK
    <3>2. newNodes' = [newNodes EXCEPT ![NodeSlot(n)].labels = labels]
      BY <1>5, <2>3 DEF WriteNodeLabels
    <3>3. newNodes[NodeSlot(n)] \in NodeRecord
      BY <3>1, ElementOfSeq
    <3>4. newNodes'[NodeSlot(n)].labels = labels
      BY <3>1, <3>2, <3>3 DEF NodeRecord
    <3> QED
      BY <2>1, <2>3, <3>4 DEF NodeLabels, IsBaseNode, NodeSlot
  <2> QED
    BY <2>2, <2>3
<1>6. \A m \in PropMap : ReplaceNodeProps(n, m) => NodeProps(n)' = m
  <2> SUFFICES ASSUME NEW m \in PropMap, ReplaceNodeProps(n, m) PROVE NodeProps(n)' = m
    OBVIOUS
  <2> QED
    BY <1>4, StagedReplaceApplies DEF ReplaceNodeProps
<1>7. \A p \in Props, v \in Values \cup {Absent} :
        SetNodeProp(n, p, v) => NodeProps(n)' = [NodeProps(n) EXCEPT ![p] = v]
  <2> SUFFICES ASSUME NEW p \in Props, NEW v \in Values \cup {Absent}, SetNodeProp(n, p, v)
               PROVE  NodeProps(n)' = [NodeProps(n) EXCEPT ![p] = v]
    OBVIOUS
  <2>1. IsBaseNode(n) =>
          ApplyPropMods(base.node[n].props, StageProp(modNodeProps[n], p, v))
            = [NodeProps(n) EXCEPT ![p] = v]
    BY <1>3, StagedPropApplies DEF NodeProps
  <2>2. [NodeProps(n) EXCEPT ![p] = v] \in PropMap
    BY <1>2 DEF PropMap
  <2> QED
    BY <1>4, <2>1, <2>2 DEF SetNodeProp
<1>8. ASSUME NEW l \in Labels
      PROVE  /\ AddNodeLabel(n, l) => NodeLabels(n)' = NodeLabels(n) \cup {l}
             /\ RemoveNodeLabel(n, l) => NodeLabels(n)' = NodeLabels(n) \ {l}
  <2>1. /\ IsBaseNode(n) =>
             /\ ApplyLabelMods(base.node[n].labels, StageLabelAdded(modNodeLabels[n], l))
                  = NodeLabels(n) \cup {l}
             /\ ApplyLabelMods(base.node[n].labels, StageLabelRemoved(modNodeLabels[n], l))
                  = NodeLabels(n) \ {l}
    BY <1>3, StagedLabelApplies DEF NodeLabels
  <2> QED
    BY <1>2, <1>5, <2>1 DEF AddNodeLabel, RemoveNodeLabel
<1> QED
  BY <1>6, <1>7, <1>8 DEF NodeWritesReadBack

\* The same of an edge.
LEMMA EdgeReadsBack ==
  ASSUME OverlayTypeOK, NEW e \in AllocatedEdges
  PROVE  EdgeWritesReadBack(e)
<1>1. e \in EdgeIds
  BY IdsInRange
<1>2. EdgeProps(e) \in PropMap /\ EdgeLabels(e) \in SUBSET Labels
  BY EdgeReadType
<1>3. modEdgeProps[e] \in PropMods /\ modEdgeLabels[e] \in LabelMods
  BY <1>1 DEF OverlayTypeOK
<1>4. ASSUME NEW props \in PropMap, NEW mods, WriteEdgeProps(e, props, mods),
             IsBaseEdge(e) => ApplyPropMods(base.edge[e].props, mods) = props
      PROVE  EdgeProps(e)' = props
  <2>1. base' = base
    BY <1>4 DEF WriteEdgeProps
  <2>2. CASE IsBaseEdge(e)
    <3>1. modEdgeProps'[e] = mods
      BY <1>1, <1>4, <2>2 DEF WriteEdgeProps, OverlayTypeOK
    <3> QED
      BY <1>4, <2>1, <2>2, <3>1 DEF EdgeProps, IsBaseEdge, ApplyPropMods
  <2>3. CASE ~IsBaseEdge(e)
    <3>1. EdgeSlot(e) \in 1 .. Len(newEdges) /\ newEdges \in Seq(EdgeRecord)
      BY <2>3, IdsInRange DEF OverlayTypeOK
    <3>2. newEdges' = [newEdges EXCEPT ![EdgeSlot(e)].props = props]
      BY <1>4, <2>3 DEF WriteEdgeProps
    <3>3. newEdges[EdgeSlot(e)] \in EdgeRecord
      BY <3>1, ElementOfSeq
    <3>4. newEdges'[EdgeSlot(e)].props = props
      BY <3>1, <3>2, <3>3 DEF EdgeRecord
    <3> QED
      BY <2>1, <2>3, <3>4 DEF EdgeProps, IsBaseEdge, EdgeSlot
  <2> QED
    BY <2>2, <2>3
<1>5. ASSUME NEW labels \in SUBSET Labels, NEW mods, WriteEdgeLabels(e, labels, mods),
             IsBaseEdge(e) => ApplyLabelMods(base.edge[e].labels, mods) = labels
      PROVE  EdgeLabels(e)' = labels
  <2>1. base' = base
    BY <1>5 DEF WriteEdgeLabels
  <2>2. CASE IsBaseEdge(e)
    <3>1. modEdgeLabels'[e] = mods
      BY <1>1, <1>5, <2>2 DEF WriteEdgeLabels, OverlayTypeOK
    <3> QED
      BY <1>5, <2>1, <2>2, <3>1 DEF EdgeLabels, IsBaseEdge, ApplyLabelMods
  <2>3. CASE ~IsBaseEdge(e)
    <3>1. EdgeSlot(e) \in 1 .. Len(newEdges) /\ newEdges \in Seq(EdgeRecord)
      BY <2>3, IdsInRange DEF OverlayTypeOK
    <3>2. newEdges' = [newEdges EXCEPT ![EdgeSlot(e)].labels = labels]
      BY <1>5, <2>3 DEF WriteEdgeLabels
    <3>3. newEdges[EdgeSlot(e)] \in EdgeRecord
      BY <3>1, ElementOfSeq
    <3>4. newEdges'[EdgeSlot(e)].labels = labels
      BY <3>1, <3>2, <3>3 DEF EdgeRecord
    <3> QED
      BY <2>1, <2>3, <3>4 DEF EdgeLabels, IsBaseEdge, EdgeSlot
  <2> QED
    BY <2>2, <2>3
<1>6. \A m \in PropMap : ReplaceEdgeProps(e, m) => EdgeProps(e)' = m
  <2> SUFFICES ASSUME NEW m \in PropMap, ReplaceEdgeProps(e, m) PROVE EdgeProps(e)' = m
    OBVIOUS
  <2> QED
    BY <1>4, StagedReplaceApplies DEF ReplaceEdgeProps
<1>7. \A p \in Props, v \in Values \cup {Absent} :
        SetEdgeProp(e, p, v) => EdgeProps(e)' = [EdgeProps(e) EXCEPT ![p] = v]
  <2> SUFFICES ASSUME NEW p \in Props, NEW v \in Values \cup {Absent}, SetEdgeProp(e, p, v)
               PROVE  EdgeProps(e)' = [EdgeProps(e) EXCEPT ![p] = v]
    OBVIOUS
  <2>1. IsBaseEdge(e) =>
          ApplyPropMods(base.edge[e].props, StageProp(modEdgeProps[e], p, v))
            = [EdgeProps(e) EXCEPT ![p] = v]
    BY <1>3, StagedPropApplies DEF EdgeProps
  <2>2. [EdgeProps(e) EXCEPT ![p] = v] \in PropMap
    BY <1>2 DEF PropMap
  <2> QED
    BY <1>4, <2>1, <2>2 DEF SetEdgeProp
<1>8. ASSUME NEW l \in Labels
      PROVE  /\ AddEdgeLabel(e, l) => EdgeLabels(e)' = EdgeLabels(e) \cup {l}
             /\ RemoveEdgeLabel(e, l) => EdgeLabels(e)' = EdgeLabels(e) \ {l}
  <2>1. /\ IsBaseEdge(e) =>
             /\ ApplyLabelMods(base.edge[e].labels, StageLabelAdded(modEdgeLabels[e], l))
                  = EdgeLabels(e) \cup {l}
             /\ ApplyLabelMods(base.edge[e].labels, StageLabelRemoved(modEdgeLabels[e], l))
                  = EdgeLabels(e) \ {l}
    BY <1>3, StagedLabelApplies DEF EdgeLabels
  <2> QED
    BY <1>2, <1>5, <2>1 DEF AddEdgeLabel, RemoveEdgeLabel
<1> QED
  BY <1>6, <1>7, <1>8 DEF EdgeWritesReadBack

\* Every SET and REMOVE of a session reads back as what it said.
THEOREM WritesTakeEffect == Spec => WritesReadBack
<1>1. IInv => /\ \A n \in boundNodes : NodeWritesReadBack(n)
              /\ \A e \in boundEdges : EdgeWritesReadBack(e)
  BY NodeReadsBack, EdgeReadsBack DEF IInv, TypeOK
<1>2. IInv /\ [Next]_vars => [/\ \A n \in boundNodes : NodeWritesReadBack(n)
                             /\ \A e \in boundEdges : EdgeWritesReadBack(e)]_vars
  BY <1>1
<1> QED
  BY <1>2, InductiveInvariant, PTL DEF WritesReadBack, Spec

(***************************************************************************)
(* Ranks.                                                                  *)
(***************************************************************************)

\* The rank of a member is below the number of members.
LEMMA RankInRange ==
  ASSUME NEW S \in SUBSET Nat, IsFiniteSet(S), NEW i \in S
  PROVE  Rank(S, i) \in 0 .. Cardinality(S) - 1
<1> DEFINE below == {j \in S : j < i}
<1>1. below \in SUBSET S /\ below # S
  OBVIOUS
<1>2. IsFiniteSet(below) /\ Cardinality(below) <= Cardinality(S) /\ Cardinality(below) # Cardinality(S)
  BY <1>1, FS_Subset
<1>3. Cardinality(below) \in Nat /\ Cardinality(S) \in Nat
  BY <1>2, FS_CardinalityType
<1> QED
  BY <1>2, <1>3 DEF Rank

\* Ranks grow with the members.
LEMMA RankGrows ==
  ASSUME NEW S \in SUBSET Nat, IsFiniteSet(S), NEW i \in S, NEW j \in S, i < j
  PROVE  Rank(S, i) < Rank(S, j)
<1> DEFINE low == {k \in S : k < i}
           high == {k \in S : k < j}
<1>0. i \in Nat /\ j \in Nat
  OBVIOUS
<1>1. high \in SUBSET S /\ low \in SUBSET high /\ low # high
  <2>1. i \in high /\ i \notin low
    BY <1>0
  <2>2. \A k \in low : k < j
    BY <1>0
  <2> QED
    BY <2>1, <2>2
<1>2. IsFiniteSet(high)
  BY <1>1, FS_Subset
<1>3. IsFiniteSet(low) /\ Cardinality(low) <= Cardinality(high) /\ Cardinality(low) # Cardinality(high)
  BY <1>1, <1>2, FS_Subset
<1>4. Cardinality(low) \in Nat /\ Cardinality(high) \in Nat
  BY <1>2, <1>3, FS_CardinalityType
<1> QED
  BY <1>3, <1>4 DEF Rank

\* Every number below the number of members is the rank of exactly one.
LEMMA RankIsBijective ==
  ASSUME NEW S \in SUBSET Nat, IsFiniteSet(S)
  PROVE  /\ \A i, j \in S : Rank(S, i) = Rank(S, j) => i = j
         /\ \A r \in 0 .. Cardinality(S) - 1 : \E i \in S : Rank(S, i) = r
<1> DEFINE f == [i \in S |-> Rank(S, i)]
           T == 0 .. Cardinality(S) - 1
<1>1. \A i, j \in S : Rank(S, i) = Rank(S, j) => i = j
  <2> SUFFICES ASSUME NEW i \in S, NEW j \in S, i # j PROVE Rank(S, i) # Rank(S, j)
    OBVIOUS
  <2>1. Rank(S, i) \in Int /\ Rank(S, j) \in Int
    BY RankInRange
  <2>2. i < j \/ j < i
    OBVIOUS
  <2> QED
    BY <2>1, <2>2, RankGrows
<1>2. f \in [S -> T]
  BY RankInRange
<1>3. f \in Injection(S, T)
  <2>1. \A i, j \in S : f[i] = f[j] => i = j
    BY <1>1
  <2> HIDE DEF f
  <2> QED
    BY <1>2, <2>1 DEF Injection, IsInjective
<1>4. Cardinality(S) \in Nat
  BY FS_CardinalityType
<1>5. IsFiniteSet(T) /\ Cardinality(T) = Cardinality(S)
  <2> DEFINE top == Cardinality(S) - 1
  <2>1. top \in Int /\ 0 \in Int
    BY <1>4
  <2> HIDE DEF top
  <2>2. IsFiniteSet(0 .. top) /\ Cardinality(0 .. top) = IF 0 > top THEN 0 ELSE top - 0 + 1
    BY <2>1, FS_Interval
  <2> QED
    BY <1>4, <2>2 DEF top
<1>6. f \in Surjection(S, T)
  BY <1>3, <1>5, FS_Injection
<1>7. \A r \in T : \E i \in S : f[i] = r
  BY <1>6 DEF Surjection
<1> QED
  BY <1>1, <1>7

(***************************************************************************)
(* What a save writes.                                                     *)
(***************************************************************************)

\* The ids that are in use are finitely many naturals, and no more than the bounds.
LEMMA LiveElements ==
  ASSUME OverlayTypeOK
  PROVE  /\ LiveNodes \in SUBSET Nat /\ IsFiniteSet(LiveNodes)
         /\ LiveEdges \in SUBSET Nat /\ IsFiniteSet(LiveEdges)
         /\ Cardinality(LiveNodes) \in 0 .. MaxNodes
         /\ Cardinality(LiveEdges) \in 0 .. MaxEdges
<1>1. NextNodeId \in Nat /\ NextEdgeId \in Nat /\ NextNodeId <= MaxNodes /\ NextEdgeId <= MaxEdges
  BY IdsInRange DEF OverlayTypeOK
<1>2. MaxNodes \in Nat /\ MaxEdges \in Nat
  BY BoundsAssumption
<1>3. ASSUME NEW n \in Nat, NEW max \in Nat, n <= max, NEW S \in SUBSET (0 .. n - 1)
      PROVE  S \in SUBSET Nat /\ IsFiniteSet(S) /\ Cardinality(S) \in 0 .. max
  <2>1. S \in SUBSET Nat
    BY <1>3
  <2>2. PICK top \in Int : top = n - 1
    BY <1>3
  <2>3. IsFiniteSet(0 .. top) /\ Cardinality(0 .. top) <= n
    <3>1. IsFiniteSet(0 .. top) /\ Cardinality(0 .. top) = IF 0 > top THEN 0 ELSE top - 0 + 1
      BY FS_Interval
    <3> QED
      BY <1>3, <2>2, <3>1
  <2>4. IsFiniteSet(S) /\ Cardinality(S) <= Cardinality(0 .. top)
    BY <2>2, <2>3, FS_Subset
  <2>5. Cardinality(S) \in Nat /\ Cardinality(0 .. top) \in Nat
    BY <2>3, <2>4, FS_CardinalityType
  <2> QED
    BY <1>3, <2>1, <2>3, <2>4, <2>5
<1>4. LiveNodes \in SUBSET (0 .. NextNodeId - 1) /\ LiveEdges \in SUBSET (0 .. NextEdgeId - 1)
  BY DEF LiveNodes, LiveEdges, AllocatedNodes, AllocatedEdges
<1> QED
  BY <1>1, <1>2, <1>3, <1>4

\* No live edge is left out, and the ids of the directed and of the undirected ones together
\* number the edges from 0.
LEMMA EdgeIdsAreBijective ==
  ASSUME OverlayTypeOK, NoDanglingEdge
  PROVE  /\ KeptEdges(TRUE) \cup KeptEdges(FALSE) = LiveEdges
         /\ \A e \in LiveEdges : NewEdgeId(e) \in 0 .. Cardinality(LiveEdges) - 1
         /\ \A e, f \in LiveEdges : NewEdgeId(e) = NewEdgeId(f) => e = f
         /\ \A r \in 0 .. Cardinality(LiveEdges) - 1 : \E e \in LiveEdges : NewEdgeId(e) = r
<1> DEFINE D == KeptEdges(TRUE)
           U == KeptEdges(FALSE)
<1>1. \A e \in LiveEdges : IsDirected(e) \in BOOLEAN
  BY EdgeReadType DEF LiveEdges, IsDirected, EdgeRecord
<1>2. D = {e \in LiveEdges : IsDirected(e)} /\ U = {e \in LiveEdges : ~IsDirected(e)}
  BY <1>1 DEF NoDanglingEdge, KeptEdges
<1>3. D \cup U = LiveEdges /\ D \cap U = {} /\ D \subseteq LiveEdges /\ U \subseteq LiveEdges
  BY <1>2
<1>4. IsFiniteSet(D) /\ IsFiniteSet(U) /\ D \in SUBSET Nat /\ U \in SUBSET Nat
  BY <1>3, LiveElements, FS_Subset
<1>5. /\ Cardinality(D) \in Nat /\ Cardinality(U) \in Nat
      /\ Cardinality(LiveEdges) = Cardinality(D) + Cardinality(U)
  <2>1. Cardinality(D) \in Nat /\ Cardinality(U) \in Nat
    BY <1>4, FS_CardinalityType
  <2>2. Cardinality(D \cup U) = Cardinality(D) + Cardinality(U) - Cardinality(D \cap U)
    BY <1>4, FS_Union
  <2>3. Cardinality(D \cap U) = 0
    BY <1>3, FS_EmptySet
  <2>4. Cardinality(LiveEdges) = Cardinality(D) + Cardinality(U) - 0
    BY <1>3, <2>2, <2>3
  <2>5. \A d, u \in Nat : d + u - 0 = d + u
    OBVIOUS
  <2> QED
    BY <2>1, <2>4, <2>5
<1>6. \A e \in D : NewEdgeId(e) = Rank(D, e) /\ Rank(D, e) \in 0 .. Cardinality(D) - 1
  BY <1>2, <1>4, RankInRange DEF NewEdgeId
<1>7. \A e \in U : /\ NewEdgeId(e) = Cardinality(D) + Rank(U, e)
                   /\ Rank(U, e) \in 0 .. Cardinality(U) - 1
  BY <1>2, <1>4, RankInRange DEF NewEdgeId
<1>8. /\ \A e, f \in D : Rank(D, e) = Rank(D, f) => e = f
      /\ \A e, f \in U : Rank(U, e) = Rank(U, f) => e = f
      /\ \A r \in 0 .. Cardinality(D) - 1 : \E e \in D : Rank(D, e) = r
      /\ \A r \in 0 .. Cardinality(U) - 1 : \E e \in U : Rank(U, e) = r
  BY <1>4, RankIsBijective
<1> HIDE DEF D, U
<1>9. \A e \in LiveEdges : NewEdgeId(e) \in 0 .. Cardinality(LiveEdges) - 1
  BY <1>3, <1>5, <1>6, <1>7
<1>10. \A e, f \in LiveEdges : NewEdgeId(e) = NewEdgeId(f) => e = f
  BY <1>3, <1>5, <1>6, <1>7, <1>8
<1>11. ASSUME NEW r \in 0 .. Cardinality(LiveEdges) - 1
       PROVE  \E e \in LiveEdges : NewEdgeId(e) = r
  <2>1. CASE r < Cardinality(D)
    <3>1. r \in 0 .. Cardinality(D) - 1
      BY <1>5, <2>1
    <3> QED
      BY <1>3, <1>6, <1>8, <3>1
  <2>2. CASE ~(r < Cardinality(D))
    <3>1. r - Cardinality(D) \in 0 .. Cardinality(U) - 1
      BY <1>5, <2>2
    <3>2. PICK e \in U : Rank(U, e) = r - Cardinality(D)
      BY <1>8, <3>1
    <3>3. NewEdgeId(e) = Cardinality(D) + (r - Cardinality(D))
      BY <1>7, <3>2
    <3>4. NewEdgeId(e) = r
      BY <1>5, <3>3
    <3> QED
      BY <1>3, <3>4
  <2> QED
    BY <2>1, <2>2
<1> QED
  BY <1>3, <1>9, <1>10, <1>11 DEF D, U

\* The image has every live node and every live edge under its new id, and nothing else.
LEMMA MaterializedElements ==
  ASSUME OverlayTypeOK, NoDanglingEdge
  PROVE  /\ Materialized.nodeCount = Cardinality(LiveNodes)
         /\ Materialized.edgeCount = Cardinality(LiveEdges)
         /\ DOMAIN Materialized.node = 0 .. Cardinality(LiveNodes) - 1
         /\ DOMAIN Materialized.edge = 0 .. Cardinality(LiveEdges) - 1
         /\ \A n \in LiveNodes :
              Materialized.node[NewNodeId(n)] = [labels |-> NodeLabels(n), props |-> NodeProps(n)]
         /\ \A e \in LiveEdges : Materialized.edge[NewEdgeId(e)] = EdgeImage(e)
         /\ Materialized.node = [i \in DOMAIN Materialized.node |-> Materialized.node[i]]
         /\ Materialized.edge = [i \in DOMAIN Materialized.edge |-> Materialized.edge[i]]
<1> DEFINE kept == KeptEdges(TRUE) \cup KeptEdges(FALSE)
           OldNode(i) == CHOOSE n \in LiveNodes : NewNodeId(n) = i
           OldEdge(i) == CHOOSE e \in kept : NewEdgeId(e) = i
           nodes == [i \in 0 .. Cardinality(LiveNodes) - 1 |->
                       [labels |-> NodeLabels(OldNode(i)), props |-> NodeProps(OldNode(i))]]
           edges == [i \in 0 .. Cardinality(kept) - 1 |-> EdgeImage(OldEdge(i))]
<1>1. Materialized = [nodeCount |-> Cardinality(LiveNodes), edgeCount |-> Cardinality(kept),
                      node |-> nodes, edge |-> edges]
  BY DEF Materialized
<1>2. kept = LiveEdges
  BY EdgeIdsAreBijective
<1>3. /\ \A n \in LiveNodes : NewNodeId(n) \in 0 .. Cardinality(LiveNodes) - 1
      /\ \A n, m \in LiveNodes : NewNodeId(n) = NewNodeId(m) => n = m
  BY LiveElements, RankInRange, RankIsBijective DEF NewNodeId
<1>4. \A n \in LiveNodes : OldNode(NewNodeId(n)) = n
  BY <1>3
<1>5. \A e \in LiveEdges : OldEdge(NewEdgeId(e)) = e
  BY <1>2, EdgeIdsAreBijective
<1>6. \A n \in LiveNodes :
        nodes[NewNodeId(n)] = [labels |-> NodeLabels(n), props |-> NodeProps(n)]
  BY <1>3, <1>4
<1>7. \A e \in LiveEdges : edges[NewEdgeId(e)] = EdgeImage(e)
  BY <1>2, <1>5, EdgeIdsAreBijective
<1>8. DOMAIN nodes = 0 .. Cardinality(LiveNodes) - 1 /\ DOMAIN edges = 0 .. Cardinality(kept) - 1
  OBVIOUS
<1>9. nodes = [i \in DOMAIN nodes |-> nodes[i]] /\ edges = [i \in DOMAIN edges |-> edges[i]]
  OBVIOUS
<1> HIDE DEF kept, nodes, edges, OldNode, OldEdge
<1> QED
  BY <1>1, <1>2, <1>6, <1>7, <1>8, <1>9

\* A save writes an image: the endpoints of its edges are among its nodes.
LEMMA MaterializedIsImage ==
  ASSUME OverlayTypeOK, NoDanglingEdge
  PROVE  IsImage(Materialized)
<1> DEFINE image == Materialized
           nodes == Cardinality(LiveNodes)
           edges == Cardinality(LiveEdges)
<1>1. /\ image.nodeCount = nodes /\ image.edgeCount = edges
      /\ DOMAIN image.node = 0 .. nodes - 1 /\ DOMAIN image.edge = 0 .. edges - 1
      /\ \A n \in LiveNodes :
           image.node[NewNodeId(n)] = [labels |-> NodeLabels(n), props |-> NodeProps(n)]
      /\ \A e \in LiveEdges : image.edge[NewEdgeId(e)] = EdgeImage(e)
  BY MaterializedElements
<1>2. nodes \in 0 .. MaxNodes /\ edges \in 0 .. MaxEdges
  BY LiveElements
<1>3. /\ \A n \in LiveNodes : NewNodeId(n) \in 0 .. nodes - 1
      /\ \A r \in 0 .. nodes - 1 : \E n \in LiveNodes : NewNodeId(n) = r
  BY LiveElements, RankInRange, RankIsBijective DEF NewNodeId
<1>4. \A r \in 0 .. edges - 1 : \E e \in LiveEdges : NewEdgeId(e) = r
  BY EdgeIdsAreBijective
<1>5. \A n \in LiveNodes : [labels |-> NodeLabels(n), props |-> NodeProps(n)] \in NodeRecord
  BY NodeReadType DEF LiveNodes, NodeRecord
<1>6. ASSUME NEW e \in LiveEdges
      PROVE  EdgeImage(e) \in EdgeRecord /\ EdgeImage(e).src < nodes /\ EdgeImage(e).tgt < nodes
  <2>1. Src(e) \in LiveNodes /\ Tgt(e) \in LiveNodes
    BY DEF NoDanglingEdge
  <2>2. NewNodeId(Src(e)) \in 0 .. nodes - 1 /\ NewNodeId(Tgt(e)) \in 0 .. nodes - 1
    BY <1>3, <2>1
  <2>3. /\ NewNodeId(Src(e)) \in NodeIds /\ NewNodeId(Tgt(e)) \in NodeIds
        /\ NewNodeId(Src(e)) < nodes /\ NewNodeId(Tgt(e)) < nodes
    BY <1>2, <2>2, BoundsAssumption DEF NodeIds
  <2>4. EdgeLabels(e) \in SUBSET Labels /\ EdgeProps(e) \in PropMap /\ IsDirected(e) \in BOOLEAN
    BY EdgeReadType DEF LiveEdges, IsDirected, EdgeRecord
  <2> QED
    BY <2>3, <2>4 DEF EdgeImage, EdgeRecord
<1> HIDE DEF image, nodes, edges
<1>7. \A r \in 0 .. nodes - 1 : image.node[r] \in NodeRecord
  BY <1>1, <1>3, <1>5
<1>8. \A r \in 0 .. edges - 1 : image.edge[r] \in EdgeRecord
                                /\ image.edge[r].src < nodes /\ image.edge[r].tgt < nodes
  BY <1>1, <1>4, <1>6
<1>9. image.node \in [0 .. nodes - 1 -> NodeRecord] /\ image.edge \in [0 .. edges - 1 -> EdgeRecord]
  <2>1. image.node = [r \in DOMAIN image.node |-> image.node[r]]
    BY MaterializedElements DEF image
  <2>2. image.edge = [r \in DOMAIN image.edge |-> image.edge[r]]
    BY MaterializedElements DEF image
  <2> QED
    BY <1>1, <1>7, <1>8, <2>1, <2>2
<1> QED
  BY <1>1, <1>2, <1>8, <1>9 DEF IsImage, image

\* It is the graph of the session up to a renaming of its ids.
LEMMA MaterializedIsIsomorphic ==
  ASSUME OverlayTypeOK, NoDanglingEdge
  PROVE  Abstract!Isomorphic(MergedView, GraphOf(Materialized))
<1> DEFINE nodes == 0 .. Cardinality(LiveNodes) - 1
           edges == 0 .. Cardinality(LiveEdges) - 1
           image == GraphOf(Materialized)
           f == [n \in LiveNodes |-> NewNodeId(n)]
           k == [e \in LiveEdges |-> NewEdgeId(e)]
<1>1. /\ Abstract!Nodes(MergedView) = LiveNodes /\ Abstract!Edges(MergedView) = LiveEdges
      /\ \A n \in LiveNodes :
           MergedView.node[n] = [labels |-> NodeLabels(n), props |-> NodeProps(n)]
      /\ \A e \in LiveEdges :
           MergedView.edge[e] = [EdgeRecordOf(e) EXCEPT !.labels = EdgeLabels(e), !.props = EdgeProps(e)]
  BY DEF MergedView, Abstract!Nodes, Abstract!Edges
<1>2. /\ Abstract!Nodes(image) = nodes /\ Abstract!Edges(image) = edges
      /\ \A n \in LiveNodes :
           image.node[f[n]] = [labels |-> NodeLabels(n), props |-> NodeProps(n)]
      /\ \A e \in LiveEdges : image.edge[k[e]] = EdgeImage(e)
  BY MaterializedElements DEF GraphOf, Abstract!Nodes, Abstract!Edges
<1>3. f \in Abstract!Bijection(LiveNodes, nodes)
  <2>1. /\ \A n \in LiveNodes : f[n] \in nodes
        /\ \A n, m \in LiveNodes : f[n] = f[m] => n = m
        /\ \A r \in nodes : \E n \in LiveNodes : f[n] = r
    BY LiveElements, RankInRange, RankIsBijective DEF NewNodeId
  <2>2. f \in [LiveNodes -> nodes]
    BY <2>1
  <2> HIDE DEF f
  <2> QED
    BY <2>1, <2>2 DEF Abstract!Bijection, Abstract!Injection, Abstract!Surjection, Abstract!IsInjective
<1>4. k \in Abstract!Bijection(LiveEdges, edges)
  <2>1. /\ \A e \in LiveEdges : k[e] \in edges
        /\ \A e, d \in LiveEdges : k[e] = k[d] => e = d
        /\ \A r \in edges : \E e \in LiveEdges : k[e] = r
    BY EdgeIdsAreBijective
  <2>2. k \in [LiveEdges -> edges]
    BY <2>1
  <2> HIDE DEF k
  <2> QED
    BY <2>1, <2>2 DEF Abstract!Bijection, Abstract!Injection, Abstract!Surjection, Abstract!IsInjective
<1>5. ASSUME NEW e \in LiveEdges
      PROVE  EdgeImage(e) = Abstract!Renamed(MergedView.edge[e], f)
  <2>1. EdgeRecordOf(e) \in EdgeRecord
    BY EdgeReadType DEF LiveEdges
  <2>2. Src(e) \in LiveNodes /\ Tgt(e) \in LiveNodes
    BY DEF NoDanglingEdge
  <2>3. MergedView.edge[e] = [src |-> Src(e), tgt |-> Tgt(e), directed |-> IsDirected(e),
                              labels |-> EdgeLabels(e), props |-> EdgeProps(e)]
    BY <1>1, <2>1 DEF Src, Tgt, IsDirected, EdgeRecord
  <2>4. Abstract!Renamed(MergedView.edge[e], f)
          = [src |-> f[Src(e)], tgt |-> f[Tgt(e)], directed |-> IsDirected(e),
             labels |-> EdgeLabels(e), props |-> EdgeProps(e)]
    <3>1. ASSUME NEW r \in EdgeRecord, NEW x, NEW y
          PROVE  [r EXCEPT !.src = x, !.tgt = y]
                   = [src |-> x, tgt |-> y, directed |-> r.directed, labels |-> r.labels, props |-> r.props]
      <4>1. PICK r1 : r1 = [r EXCEPT !.src = x]
        OBVIOUS
      <4>2. r1 = [src |-> x, tgt |-> r.tgt, directed |-> r.directed, labels |-> r.labels, props |-> r.props]
        BY <4>1 DEF EdgeRecord
      <4>3. [r1 EXCEPT !.tgt = y]
              = [src |-> x, tgt |-> y, directed |-> r.directed, labels |-> r.labels, props |-> r.props]
        BY <4>2
      <4>4. [r EXCEPT !.src = x, !.tgt = y] = [r1 EXCEPT !.tgt = y]
        BY <4>1
      <4> QED
        BY <4>3, <4>4
    <3>2. EdgeLabels(e) \in SUBSET Labels /\ EdgeProps(e) \in PropMap
      BY EdgeReadType DEF LiveEdges
    <3>3. MergedView.edge[e] \in EdgeRecord
      BY <2>1, <2>3, <3>2 DEF EdgeRecord, Src, Tgt, IsDirected
    <3>4. /\ MergedView.edge[e].src = Src(e) /\ MergedView.edge[e].tgt = Tgt(e)
          /\ MergedView.edge[e].directed = IsDirected(e)
          /\ MergedView.edge[e].labels = EdgeLabels(e) /\ MergedView.edge[e].props = EdgeProps(e)
      BY <2>3
    <3> HIDE DEF f
    <3>5. Abstract!Renamed(MergedView.edge[e], f)
            = [MergedView.edge[e] EXCEPT !.src = f[Src(e)], !.tgt = f[Tgt(e)]]
      BY <3>4 DEF Abstract!Renamed
    <3>6. PICK m \in EdgeRecord : m = MergedView.edge[e]
      BY <3>3
    <3>7. [m EXCEPT !.src = f[Src(e)], !.tgt = f[Tgt(e)]]
            = [src |-> f[Src(e)], tgt |-> f[Tgt(e)], directed |-> m.directed,
               labels |-> m.labels, props |-> m.props]
      BY <3>1
    <3> QED
      BY <3>4, <3>5, <3>6, <3>7
  <2>5. f[Src(e)] = NewNodeId(Src(e)) /\ f[Tgt(e)] = NewNodeId(Tgt(e))
    BY <2>2
  <2> QED
    BY <2>4, <2>5 DEF EdgeImage
<1> HIDE DEF f, k, image, nodes, edges
<1>6. \A n \in LiveNodes : image.node[f[n]] = MergedView.node[n]
  BY <1>1, <1>2
<1>7. \A e \in LiveEdges : image.edge[k[e]] = Abstract!Renamed(MergedView.edge[e], f)
  BY <1>2, <1>5
<1>8. Abstract!Isomorphic(MergedView, image)
  BY <1>1, <1>2, <1>3, <1>4, <1>6, <1>7 DEF Abstract!Isomorphic
<1> QED
  BY <1>8 DEF image

(***************************************************************************)
(* The sessions.  Between the writing of <path>.tmp and the rename nothing *)
(* touches the overlay, so what is renamed is the graph of that moment.    *)
(***************************************************************************)
SessionInv ==
  /\ IInv
  /\ IsImage(file)
  /\ tmp # NoImage => IsImage(tmp) /\ Abstract!Isomorphic(MergedView, GraphOf(tmp))

\* The merged view is read from the overlay and the image alone.
LEMMA ViewFrame ==
  ASSUME UNCHANGED overlayVars
  PROVE  MergedView' = MergedView
<1>1. /\ UNCHANGED <<base, newNodes, newEdges, deletedNodes, deletedEdges>>
      /\ UNCHANGED <<modNodeProps, modEdgeProps, modNodeLabels, modEdgeLabels>>
  BY DEF overlayVars, nodeOverlay, edgeOverlay
<1>2. LiveNodes' = LiveNodes /\ LiveEdges' = LiveEdges
  BY <1>1 DEF LiveNodes, LiveEdges, AllocatedNodes, AllocatedEdges, NextNodeId, NextEdgeId
<1>3. \A n \in LiveNodes : NodeLabels(n)' = NodeLabels(n) /\ NodeProps(n)' = NodeProps(n)
  BY <1>1 DEF NodeLabels, NodeProps, IsBaseNode, NodeSlot, ApplyLabelMods, ApplyPropMods
<1>4. \A e \in LiveEdges : /\ EdgeLabels(e)' = EdgeLabels(e) /\ EdgeProps(e)' = EdgeProps(e)
                           /\ EdgeRecordOf(e)' = EdgeRecordOf(e)
  BY <1>1 DEF EdgeLabels, EdgeProps, EdgeRecordOf, IsBaseEdge, EdgeSlot, ApplyLabelMods, ApplyPropMods
<1> QED
  BY <1>2, <1>3, <1>4 DEF MergedView

\* A file that is opened gives the session an empty overlay over it.
LEMMA ReopenIsFresh ==
  ASSUME SessionInv, Reopen
  PROVE  EmptyOverlay' /\ IsImage(base)' /\ IInv'
<1>1. EmptyOverlay'
  BY DEF Reopen, ResetOverlay, EmptyOverlay
<1>2. IsImage(base)'
  <2>1. base' = file
    BY DEF Reopen
  <2> QED
    BY <2>1 DEF SessionInv, IsImage
<1>3. /\ (IsImage(base) /\ EmptyOverlay =>
            OverlayTypeOK /\ NextNodeId = base.nodeCount /\ NextEdgeId = base.edgeCount)'
      /\ (IsImage(base) /\ EmptyOverlay => Topology /\ NoDanglingEdge)'
  BY EmptyOverlayType, EmptyOverlayTopology, PTL
<1>4. TypeOK'
  BY <1>1, <1>2, <1>3 DEF Reopen, Idle, TypeOK
<1> QED
  BY <1>1, <1>2, <1>3, <1>4 DEF IInv

\* The invariant of the statements, the image and what is written beside it, in every session.
LEMMA SessionStepKeeps == SessionInv /\ [SessionNext]_sessionVars => SessionInv'
<1> SUFFICES ASSUME SessionInv, [SessionNext]_sessionVars PROVE SessionInv'
  OBVIOUS
<1>0. IInv /\ IsImage(file) /\ OverlayTypeOK /\ NoDanglingEdge
  BY DEF SessionInv, IInv, TypeOK
<1>1. CASE Statement
  <2>1. IInv'
    BY <1>0, <1>1, StepKeepsInvariant DEF Statement
  <2> QED
    BY <1>0, <1>1, <2>1 DEF Statement, SessionInv
<1>2. CASE UNCHANGED vars /\ UNCHANGED file /\ tmp' = NoImage
  <2>1. IInv'
    BY <1>0, <1>2, StepKeepsInvariant
  <2> QED
    BY <1>0, <1>2, <2>1 DEF SessionInv
<1>3. CASE SaveWritesTmp
  <2>1. UNCHANGED vars /\ tmp' = Materialized /\ file' = file
    BY <1>3 DEF SaveWritesTmp
  <2>2. IInv'
    BY <1>0, <2>1, StepKeepsInvariant
  <2>3. MergedView' = MergedView
    BY <2>1, ViewFrame DEF vars
  <2>4. IsImage(Materialized) /\ Abstract!Isomorphic(MergedView, GraphOf(Materialized))
    BY <1>0, MaterializedIsImage, MaterializedIsIsomorphic
  <2>5. IsImage(tmp)' /\ Abstract!Isomorphic(MergedView, GraphOf(tmp))'
    BY <2>1, <2>3, <2>4
  <2> QED
    BY <1>0, <2>1, <2>2, <2>5 DEF SessionInv
<1>4. CASE SaveFails
  BY <1>2, <1>4 DEF SaveFails
<1>5. CASE SaveRenames
  <2>1. UNCHANGED vars /\ file' = tmp /\ tmp' = NoImage /\ IsImage(tmp)
    BY <1>5 DEF SaveRenames, SessionInv
  <2>2. IInv'
    BY <1>0, <2>1, StepKeepsInvariant
  <2> QED
    BY <2>1, <2>2 DEF SessionInv
<1>6. CASE Reopen
  <2>1. IInv' /\ file' = file /\ tmp' = NoImage
    BY <1>6, ReopenIsFresh DEF Reopen
  <2> QED
    BY <1>0, <2>1 DEF SessionInv
<1>7. CASE UNCHANGED sessionVars
  <2>1. UNCHANGED vars /\ file' = file /\ tmp' = tmp
    BY <1>7 DEF sessionVars
  <2>2. IInv'
    BY <1>0, <2>1, StepKeepsInvariant
  <2>3. MergedView' = MergedView
    BY <2>1, ViewFrame DEF vars
  <2> QED
    BY <2>1, <2>2, <2>3 DEF SessionInv
<1> QED
  BY <1>1, <1>3, <1>4, <1>5, <1>6, <1>7 DEF SessionNext

\* The first session opens one of the images.
LEMMA SessionInitEstablishes == SessionInit => SessionInv
<1> SUFFICES ASSUME SessionInit PROVE SessionInv
  OBVIOUS
<1>1. IInv /\ base \in Images /\ file = base /\ tmp = NoImage
  BY InitEstablishesInvariant DEF SessionInit, Init, OpenImage
<1> QED
  BY <1>1, ImagesAssumption DEF SessionInv

\* The invariant holds in every session.
THEOREM SessionInvariant == SessionSpec => []SessionInv
  BY SessionInitEstablishes, SessionStepKeeps, PTL DEF SessionSpec

\* Whatever is saved, and wherever a save or a session ends, the file at the path is an image
\* that can be opened: dense ids, and edges between its own nodes.
THEOREM FileIsAnImage == SessionSpec => []FileIsImage
<1>1. SessionInv => FileIsImage
  BY DEF SessionInv, FileIsImage
<1> QED
  BY <1>1, SessionInvariant, PTL

\* No edge dangles in any session either, between the end of one and the beginning of another.
THEOREM NoSessionDangles == SessionSpec => []NoDanglingEdge
<1>1. SessionInv => NoDanglingEdge
  BY DEF SessionInv, IInv
<1> QED
  BY <1>1, SessionInvariant, PTL

(***************************************************************************)
(* The store implements PropertyGraph.  Every operation of the overlay     *)
(* changes what is read of the elements it names, and nothing else that is *)
(* read; an operation on an element that is gone changes nothing.          *)
(***************************************************************************)
NodeRead(n) == [labels |-> NodeLabels(n), props |-> NodeProps(n)]
EdgeRead(e) == [src |-> Src(e), tgt |-> Tgt(e), directed |-> IsDirected(e),
                labels |-> EdgeLabels(e), props |-> EdgeProps(e)]
NodeView == [n \in LiveNodes |-> NodeRead(n)]
EdgeView == [e \in LiveEdges |-> EdgeRead(e)]

\* The merged view, read element by element.
LEMMA ViewIsRead == OverlayTypeOK => MergedView = [node |-> NodeView, edge |-> EdgeView]
<1> SUFFICES ASSUME OverlayTypeOK PROVE MergedView = [node |-> NodeView, edge |-> EdgeView]
  OBVIOUS
<1>1. ASSUME NEW e \in LiveEdges
      PROVE  [EdgeRecordOf(e) EXCEPT !.labels = EdgeLabels(e), !.props = EdgeProps(e)] = EdgeRead(e)
  <2>1. PICK r \in EdgeRecord : r = EdgeRecordOf(e)
    BY EdgeReadType DEF LiveEdges
  <2>2. PICK r1 : r1 = [r EXCEPT !.labels = EdgeLabels(e)]
    OBVIOUS
  <2>3. r1 = [src |-> r.src, tgt |-> r.tgt, directed |-> r.directed, labels |-> EdgeLabels(e), props |-> r.props]
    BY <2>2 DEF EdgeRecord
  <2>4. [r1 EXCEPT !.props = EdgeProps(e)]
          = [src |-> r.src, tgt |-> r.tgt, directed |-> r.directed,
             labels |-> EdgeLabels(e), props |-> EdgeProps(e)]
    BY <2>3
  <2>5. [r EXCEPT !.labels = EdgeLabels(e), !.props = EdgeProps(e)] = [r1 EXCEPT !.props = EdgeProps(e)]
    BY <2>2
  <2> QED
    BY <2>1, <2>4, <2>5 DEF EdgeRead, Src, Tgt, IsDirected
<1> QED
  BY <1>1 DEF MergedView, NodeView, EdgeView, NodeRead

\* Reads of nodes depend on the nodes' part of the overlay only, reads of edges on theirs.
LEMMA NodeReadFrame ==
  ASSUME UNCHANGED <<base, newNodes, modNodeProps, modNodeLabels>>
  PROVE  /\ NextNodeId' = NextNodeId /\ AllocatedNodes' = AllocatedNodes
         /\ \A n : NodeRead(n)' = NodeRead(n)
  BY DEF NodeRead, NodeLabels, NodeProps, IsBaseNode, NodeSlot, ApplyLabelMods, ApplyPropMods,
         NextNodeId, AllocatedNodes

\* What is read of an edge depends on the image and the overlay's edges alone.
LEMMA EdgeReadFrame ==
  ASSUME UNCHANGED <<base, newEdges, modEdgeProps, modEdgeLabels>>
  PROVE  /\ NextEdgeId' = NextEdgeId /\ AllocatedEdges' = AllocatedEdges
         /\ \A e : EdgeRead(e)' = EdgeRead(e)
  BY DEF EdgeRead, EdgeLabels, EdgeProps, Src, Tgt, IsDirected, EdgeRecordOf, IsBaseEdge, EdgeSlot,
         ApplyLabelMods, ApplyPropMods, NextEdgeId, AllocatedEdges

\* insert_node adds one node, with what it was given.
LEMMA PushNodeReads ==
  ASSUME OverlayTypeOK, NEW l \in SUBSET Labels, NEW p \in PropMap, PushNode(l, p), NEW new, new = NextNodeId
  PROVE  /\ new \in NodeIds \ LiveNodes
         /\ LiveNodes' = LiveNodes \cup {new}
         /\ NodeRead(new)' = [labels |-> l, props |-> p]
         /\ \A n \in LiveNodes : NodeRead(n)' = NodeRead(n)
         /\ EdgeView' = EdgeView
<1> DEFINE r == [labels |-> l, props |-> p]
<1>1. base' = base /\ newNodes' = Append(newNodes, r) /\ UNCHANGED <<deletedNodes, modNodeProps, modNodeLabels>>
  BY DEF PushNode
<1>2. new \in Nat /\ base.nodeCount \in Nat /\ Len(newNodes) \in Nat
      /\ new = base.nodeCount + Len(newNodes)
  BY IdsInRange DEF NextNodeId
<1>3. r \in NodeRecord /\ newNodes \in Seq(NodeRecord)
  BY DEF NodeRecord, OverlayTypeOK
<1>4. /\ newNodes'[Len(newNodes) + 1] = r
      /\ \A k \in 1 .. Len(newNodes) : newNodes'[k] = newNodes[k]
      /\ Len(newNodes') = Len(newNodes) + 1
  <2> HIDE DEF r
  <2> QED
    BY <1>1, <1>3, AppendProperties
<1>5. NextNodeId' = new + 1
  BY <1>1, <1>2, <1>4 DEF NextNodeId
<1>6. new \in NodeIds \ LiveNodes
  <2>1. new < MaxNodes /\ MaxNodes \in Nat
    BY BoundsAssumption DEF PushNode
  <2>2. new \in NodeIds
    BY <1>2, <2>1 DEF NodeIds
  <2>3. new \notin AllocatedNodes
    BY <1>2 DEF AllocatedNodes
  <2> QED
    BY <2>2, <2>3 DEF LiveNodes
<1>7. LiveNodes' = LiveNodes \cup {new}
  <2>1. AllocatedNodes' = AllocatedNodes \cup {new} /\ new \notin AllocatedNodes
    BY <1>2, <1>5 DEF AllocatedNodes
  <2> QED
    BY <1>1, <2>1 DEF LiveNodes, OverlayTypeOK
<1>8. NodeRead(new)' = r
  <2>1. ~IsBaseNode(new)' /\ NodeSlot(new)' = Len(newNodes) + 1
    BY <1>1, <1>2 DEF IsBaseNode, NodeSlot
  <2> QED
    BY <1>4, <2>1 DEF NodeRead, NodeLabels, NodeProps
<1>9. ASSUME NEW n \in LiveNodes PROVE NodeRead(n)' = NodeRead(n)
  <2>1. CASE IsBaseNode(n)
    BY <1>1, <2>1 DEF NodeRead, NodeLabels, NodeProps, IsBaseNode, ApplyLabelMods, ApplyPropMods
  <2>2. CASE ~IsBaseNode(n)
    <3>1. NodeSlot(n) \in 1 .. Len(newNodes) /\ NodeSlot(n)' = NodeSlot(n) /\ ~IsBaseNode(n)'
      BY <1>1, <2>2, IdsInRange DEF NodeSlot, IsBaseNode, LiveNodes
    <3> QED
      BY <1>4, <2>2, <3>1 DEF NodeRead, NodeLabels, NodeProps
  <2> QED
    BY <2>1, <2>2
<1>10. EdgeView' = EdgeView
  BY <1>1, EdgeReadFrame DEF EdgeView, LiveEdges, PushNode, edgeOverlay
<1> QED
  BY <1>6, <1>7, <1>8, <1>9, <1>10

\* insert_edge adds one edge, with what it was given.
LEMMA PushEdgeReads ==
  ASSUME OverlayTypeOK, NEW s \in LiveNodes, NEW t \in LiveNodes, NEW directed \in BOOLEAN,
         NEW l \in SUBSET Labels, NEW p \in PropMap, PushEdge(s, t, directed, l, p),
         NEW new, new = NextEdgeId
  PROVE  /\ new \in EdgeIds \ LiveEdges
         /\ LiveEdges' = LiveEdges \cup {new}
         /\ EdgeRead(new)' = [src |-> s, tgt |-> t, directed |-> directed, labels |-> l, props |-> p]
         /\ \A e \in LiveEdges : EdgeRead(e)' = EdgeRead(e)
         /\ NodeView' = NodeView
<1> DEFINE r == [src |-> s, tgt |-> t, directed |-> directed, labels |-> l, props |-> p]
<1>0. s \in AllocatedNodes /\ t \in AllocatedNodes
  BY DEF LiveNodes
<1>1. base' = base /\ newEdges' = Append(newEdges, r) /\ UNCHANGED <<deletedEdges, modEdgeProps, modEdgeLabels>>
  BY DEF PushEdge
<1>2. new \in Nat /\ base.edgeCount \in Nat /\ Len(newEdges) \in Nat
      /\ new = base.edgeCount + Len(newEdges)
  BY IdsInRange DEF NextEdgeId
<1>3. r \in EdgeRecord /\ newEdges \in Seq(EdgeRecord)
  BY <1>0, IdsInRange DEF EdgeRecord, OverlayTypeOK
<1>4. /\ newEdges'[Len(newEdges) + 1] = r
      /\ \A k \in 1 .. Len(newEdges) : newEdges'[k] = newEdges[k]
  <2> HIDE DEF r
  <2> QED
    BY <1>1, <1>3, AppendProperties
<1>5. /\ AllocatedEdges' = AllocatedEdges \cup {new} /\ new \notin AllocatedEdges
      /\ Src(new)' = s /\ Tgt(new)' = t /\ IsDirected(new)' = directed
      /\ \A e \in AllocatedEdges : /\ Src(e)' = Src(e) /\ Tgt(e)' = Tgt(e)
                                   /\ IsDirected(e)' = IsDirected(e)
  <2> HIDE DEF r
  <2> QED
    BY <1>0, PushEdgeRecords, SMTT(30)
<1>6. new \in EdgeIds \ LiveEdges
  <2>1. new < MaxEdges /\ MaxEdges \in Nat
    BY BoundsAssumption DEF PushEdge
  <2>2. new \in EdgeIds
    BY <1>2, <2>1 DEF EdgeIds
  <2> QED
    BY <1>5, <2>2 DEF LiveEdges
<1>7. LiveEdges' = LiveEdges \cup {new}
  <2>1. new \notin deletedEdges /\ deletedEdges' = deletedEdges
    BY <1>1, <1>5 DEF OverlayTypeOK
  <2> QED
    BY <1>5, <2>1 DEF LiveEdges
<1>8. EdgeLabels(new)' = l /\ EdgeProps(new)' = p
  <2>1. ~IsBaseEdge(new)' /\ EdgeSlot(new)' = Len(newEdges) + 1
    BY <1>1, <1>2 DEF IsBaseEdge, EdgeSlot
  <2> QED
    BY <1>4, <2>1 DEF EdgeLabels, EdgeProps
<1>9. ASSUME NEW e \in LiveEdges
      PROVE  EdgeLabels(e)' = EdgeLabels(e) /\ EdgeProps(e)' = EdgeProps(e)
  <2>1. CASE IsBaseEdge(e)
    BY <1>1, <2>1 DEF EdgeLabels, EdgeProps, IsBaseEdge, ApplyLabelMods, ApplyPropMods
  <2>2. CASE ~IsBaseEdge(e)
    <3>1. EdgeSlot(e) \in 1 .. Len(newEdges) /\ EdgeSlot(e)' = EdgeSlot(e) /\ ~IsBaseEdge(e)'
      BY <1>1, <2>2, IdsInRange DEF EdgeSlot, IsBaseEdge, LiveEdges
    <3> QED
      BY <1>4, <2>2, <3>1 DEF EdgeLabels, EdgeProps
  <2> QED
    BY <2>1, <2>2
<1>10. NodeView' = NodeView
  BY <1>1, NodeReadFrame DEF NodeView, LiveNodes, PushEdge, nodeOverlay
<1>11. \A e \in LiveEdges : EdgeRead(e)' = EdgeRead(e)
  BY <1>5, <1>9 DEF EdgeRead, LiveEdges
<1>12. EdgeRead(new)' = r
  BY <1>5, <1>8 DEF EdgeRead
<1> HIDE DEF r
<1> QED
  BY <1>6, <1>7, <1>10, <1>11, <1>12 DEF r

\* Tombstones take elements out of the view and leave the others.
LEMMA TombstoneReads ==
  ASSUME NEW gone, NEW cut,
         deletedNodes' = deletedNodes \cup gone, deletedEdges' = deletedEdges \cup cut,
         UNCHANGED <<base, newNodes, modNodeProps, modNodeLabels, newEdges, modEdgeProps, modEdgeLabels>>
  PROVE  /\ NodeView' = Abstract!Without(NodeView, gone)
         /\ EdgeView' = Abstract!Without(EdgeView, cut)
<1>1. AllocatedNodes' = AllocatedNodes /\ \A n : NodeRead(n)' = NodeRead(n)
  BY NodeReadFrame
<1>2. AllocatedEdges' = AllocatedEdges /\ \A e : EdgeRead(e)' = EdgeRead(e)
  BY EdgeReadFrame
<1>3. LiveNodes' = LiveNodes \ gone /\ LiveEdges' = LiveEdges \ cut
  BY <1>1, <1>2 DEF LiveNodes, LiveEdges
<1> QED
  BY <1>1, <1>2, <1>3 DEF NodeView, EdgeView, Abstract!Without

\* A write to a node changes what is read of that node, as it says, and nothing else.
LEMMA WriteNodePropsReads ==
  ASSUME OverlayTypeOK, NEW n \in AllocatedNodes, NEW props, NEW mods, WriteNodeProps(n, props, mods)
  PROVE  /\ NextNodeId' = NextNodeId /\ LiveNodes' = LiveNodes /\ EdgeView' = EdgeView
         /\ NodeLabels(n)' = NodeLabels(n)
         /\ \A m \in AllocatedNodes : m # n => NodeRead(m)' = NodeRead(m)
<1>1. n \in Nat /\ n \in NodeIds /\ base' = base /\ newNodes \in Seq(NodeRecord)
  BY IdsInRange DEF WriteNodeProps, OverlayTypeOK, AllocatedNodes
<1>2. CASE IsBaseNode(n)
  <2>1. newNodes' = newNodes /\ modNodeLabels' = modNodeLabels
        /\ \A m \in AllocatedNodes : m # n => modNodeProps'[m] = modNodeProps[m]
    BY <1>2, IdsInRange DEF WriteNodeProps, OverlayTypeOK
  <2>2. NextNodeId' = NextNodeId /\ NodeLabels(n)' = NodeLabels(n)
    BY <1>1, <2>1 DEF NextNodeId, NodeLabels, IsBaseNode, NodeSlot, ApplyLabelMods
  <2>3. \A m \in AllocatedNodes : m # n => NodeRead(m)' = NodeRead(m)
    BY <1>1, <2>1 DEF NodeRead, NodeLabels, NodeProps, IsBaseNode, NodeSlot, ApplyLabelMods, ApplyPropMods
  <2> QED
    BY <1>1, <2>2, <2>3, EdgeReadFrame
    DEF WriteNodeProps, LiveNodes, AllocatedNodes, EdgeView, LiveEdges, edgeOverlay
<1>3. CASE ~IsBaseNode(n)
  <2>1. NodeSlot(n) \in 1 .. Len(newNodes)
    BY <1>3, IdsInRange
  <2>2. /\ newNodes' = [newNodes EXCEPT ![NodeSlot(n)].props = props]
        /\ modNodeProps' = modNodeProps /\ modNodeLabels' = modNodeLabels
    BY <1>3 DEF WriteNodeProps
  <2>3. newNodes[NodeSlot(n)] \in NodeRecord
    BY <1>1, <2>1, ElementOfSeq
  <2>4. Len(newNodes') = Len(newNodes) /\ newNodes'[NodeSlot(n)].labels = newNodes[NodeSlot(n)].labels
        /\ \A k \in 1 .. Len(newNodes) : k # NodeSlot(n) => newNodes'[k] = newNodes[k]
    BY <1>1, <2>1, <2>2, <2>3 DEF NodeRecord
  <2>5. NextNodeId' = NextNodeId /\ NodeLabels(n)' = NodeLabels(n)
    BY <1>1, <1>3, <2>4 DEF NextNodeId, NodeLabels, IsBaseNode, NodeSlot
  <2>6. ASSUME NEW m \in AllocatedNodes, m # n
        PROVE  NodeRead(m)' = NodeRead(m)
    <3>1. CASE IsBaseNode(m)
      BY <1>1, <2>2, <3>1 DEF NodeRead, NodeLabels, NodeProps, IsBaseNode, ApplyLabelMods, ApplyPropMods
    <3>2. CASE ~IsBaseNode(m)
      <4>1. NodeSlot(m) \in 1 .. Len(newNodes) /\ NodeSlot(m)' = NodeSlot(m) /\ ~IsBaseNode(m)'
        BY <1>1, <3>2, IdsInRange DEF NodeSlot, IsBaseNode
      <4>2. NodeSlot(m) # NodeSlot(n)
        <5>1. m \in Nat /\ base.nodeCount \in Nat
          BY IdsInRange DEF AllocatedNodes
        <5> QED
          BY <1>1, <2>6, <5>1 DEF NodeSlot
      <4> QED
        BY <2>4, <3>2, <4>1, <4>2 DEF NodeRead, NodeLabels, NodeProps
    <3> QED
      BY <3>1, <3>2
  <2> QED
    BY <1>1, <2>5, <2>6, EdgeReadFrame
    DEF WriteNodeProps, LiveNodes, AllocatedNodes, EdgeView, LiveEdges, edgeOverlay
<1> QED
  BY <1>2, <1>3

\* A write of a node's labels changes the reads of that node only.
LEMMA WriteNodeLabelsReads ==
  ASSUME OverlayTypeOK, NEW n \in AllocatedNodes, NEW labels, NEW mods, WriteNodeLabels(n, labels, mods)
  PROVE  /\ NextNodeId' = NextNodeId /\ LiveNodes' = LiveNodes /\ EdgeView' = EdgeView
         /\ NodeProps(n)' = NodeProps(n)
         /\ \A m \in AllocatedNodes : m # n => NodeRead(m)' = NodeRead(m)
<1>1. n \in Nat /\ n \in NodeIds /\ base' = base /\ newNodes \in Seq(NodeRecord)
  BY IdsInRange DEF WriteNodeLabels, OverlayTypeOK, AllocatedNodes
<1>2. CASE IsBaseNode(n)
  <2>1. newNodes' = newNodes /\ modNodeProps' = modNodeProps
        /\ \A m \in AllocatedNodes : m # n => modNodeLabels'[m] = modNodeLabels[m]
    BY <1>2, IdsInRange DEF WriteNodeLabels, OverlayTypeOK
  <2>2. NextNodeId' = NextNodeId /\ NodeProps(n)' = NodeProps(n)
    BY <1>1, <2>1 DEF NextNodeId, NodeProps, IsBaseNode, NodeSlot, ApplyPropMods
  <2>3. \A m \in AllocatedNodes : m # n => NodeRead(m)' = NodeRead(m)
    BY <1>1, <2>1 DEF NodeRead, NodeLabels, NodeProps, IsBaseNode, NodeSlot, ApplyLabelMods, ApplyPropMods
  <2> QED
    BY <1>1, <2>2, <2>3, EdgeReadFrame
    DEF WriteNodeLabels, LiveNodes, AllocatedNodes, EdgeView, LiveEdges, edgeOverlay
<1>3. CASE ~IsBaseNode(n)
  <2>1. NodeSlot(n) \in 1 .. Len(newNodes)
    BY <1>3, IdsInRange
  <2>2. /\ newNodes' = [newNodes EXCEPT ![NodeSlot(n)].labels = labels]
        /\ modNodeProps' = modNodeProps /\ modNodeLabels' = modNodeLabels
    BY <1>3 DEF WriteNodeLabels
  <2>3. newNodes[NodeSlot(n)] \in NodeRecord
    BY <1>1, <2>1, ElementOfSeq
  <2>4. Len(newNodes') = Len(newNodes) /\ newNodes'[NodeSlot(n)].props = newNodes[NodeSlot(n)].props
        /\ \A k \in 1 .. Len(newNodes) : k # NodeSlot(n) => newNodes'[k] = newNodes[k]
    BY <1>1, <2>1, <2>2, <2>3 DEF NodeRecord
  <2>5. NextNodeId' = NextNodeId /\ NodeProps(n)' = NodeProps(n)
    BY <1>1, <1>3, <2>4 DEF NextNodeId, NodeProps, IsBaseNode, NodeSlot
  <2>6. ASSUME NEW m \in AllocatedNodes, m # n
        PROVE  NodeRead(m)' = NodeRead(m)
    <3>1. CASE IsBaseNode(m)
      BY <1>1, <2>2, <3>1 DEF NodeRead, NodeLabels, NodeProps, IsBaseNode, ApplyLabelMods, ApplyPropMods
    <3>2. CASE ~IsBaseNode(m)
      <4>1. NodeSlot(m) \in 1 .. Len(newNodes) /\ NodeSlot(m)' = NodeSlot(m) /\ ~IsBaseNode(m)'
        BY <1>1, <3>2, IdsInRange DEF NodeSlot, IsBaseNode
      <4>2. NodeSlot(m) # NodeSlot(n)
        <5>1. m \in Nat /\ base.nodeCount \in Nat
          BY IdsInRange DEF AllocatedNodes
        <5> QED
          BY <1>1, <2>6, <5>1 DEF NodeSlot
      <4> QED
        BY <2>4, <3>2, <4>1, <4>2 DEF NodeRead, NodeLabels, NodeProps
    <3> QED
      BY <3>1, <3>2
  <2> QED
    BY <1>1, <2>5, <2>6, EdgeReadFrame
    DEF WriteNodeLabels, LiveNodes, AllocatedNodes, EdgeView, LiveEdges, edgeOverlay
<1> QED
  BY <1>2, <1>3

\* The same of an edge, whose endpoints and direction no write changes.
LEMMA WriteEdgePropsReads ==
  ASSUME OverlayTypeOK, NEW e \in AllocatedEdges, NEW props, NEW mods, WriteEdgeProps(e, props, mods)
  PROVE  /\ NextEdgeId' = NextEdgeId /\ LiveEdges' = LiveEdges /\ NodeView' = NodeView
         /\ EdgeLabels(e)' = EdgeLabels(e)
         /\ Src(e)' = Src(e) /\ Tgt(e)' = Tgt(e) /\ IsDirected(e)' = IsDirected(e)
         /\ \A d \in AllocatedEdges : d # e => EdgeRead(d)' = EdgeRead(d)
<1>1. e \in Nat /\ e \in EdgeIds /\ base' = base /\ newEdges \in Seq(EdgeRecord)
  BY IdsInRange DEF WriteEdgeProps, OverlayTypeOK, AllocatedEdges
<1>2. CASE IsBaseEdge(e)
  <2>1. newEdges' = newEdges /\ modEdgeLabels' = modEdgeLabels
        /\ \A d \in AllocatedEdges : d # e => modEdgeProps'[d] = modEdgeProps[d]
    BY <1>2, IdsInRange DEF WriteEdgeProps, OverlayTypeOK
  <2>2. /\ NextEdgeId' = NextEdgeId /\ EdgeLabels(e)' = EdgeLabels(e)
        /\ \A d : EdgeRecordOf(d)' = EdgeRecordOf(d)
    BY <1>1, <2>1 DEF NextEdgeId, EdgeLabels, EdgeRecordOf, IsBaseEdge, EdgeSlot, ApplyLabelMods
  <2>3. \A d \in AllocatedEdges : d # e => EdgeLabels(d)' = EdgeLabels(d) /\ EdgeProps(d)' = EdgeProps(d)
    BY <1>1, <2>1 DEF EdgeLabels, EdgeProps, IsBaseEdge, EdgeSlot, ApplyLabelMods, ApplyPropMods
  <2>4. \A d \in AllocatedEdges : d # e => EdgeRead(d)' = EdgeRead(d)
    BY <2>2, <2>3 DEF EdgeRead, Src, Tgt, IsDirected
  <2> QED
    BY <1>1, <2>2, <2>4, NodeReadFrame
    DEF WriteEdgeProps, LiveEdges, AllocatedEdges, NodeView, LiveNodes, nodeOverlay, Src, Tgt, IsDirected
<1>3. CASE ~IsBaseEdge(e)
  <2>1. EdgeSlot(e) \in 1 .. Len(newEdges)
    BY <1>3, IdsInRange
  <2>2. /\ newEdges' = [newEdges EXCEPT ![EdgeSlot(e)].props = props]
        /\ modEdgeProps' = modEdgeProps /\ modEdgeLabels' = modEdgeLabels
    BY <1>3 DEF WriteEdgeProps
  <2>3. newEdges[EdgeSlot(e)] \in EdgeRecord
    BY <1>1, <2>1, ElementOfSeq
  <2>4. /\ Len(newEdges') = Len(newEdges)
        /\ newEdges'[EdgeSlot(e)].labels = newEdges[EdgeSlot(e)].labels
        /\ newEdges'[EdgeSlot(e)].src = newEdges[EdgeSlot(e)].src
        /\ newEdges'[EdgeSlot(e)].tgt = newEdges[EdgeSlot(e)].tgt
        /\ newEdges'[EdgeSlot(e)].directed = newEdges[EdgeSlot(e)].directed
        /\ \A k \in 1 .. Len(newEdges) : k # EdgeSlot(e) => newEdges'[k] = newEdges[k]
    BY <1>1, <2>1, <2>2, <2>3 DEF EdgeRecord
  <2>5. /\ NextEdgeId' = NextEdgeId /\ EdgeLabels(e)' = EdgeLabels(e)
        /\ Src(e)' = Src(e) /\ Tgt(e)' = Tgt(e) /\ IsDirected(e)' = IsDirected(e)
    BY <1>1, <1>3, <2>4
    DEF NextEdgeId, EdgeLabels, Src, Tgt, IsDirected, EdgeRecordOf, IsBaseEdge, EdgeSlot
  <2>6. ASSUME NEW d \in AllocatedEdges, d # e
        PROVE  EdgeRead(d)' = EdgeRead(d)
    <3>1. CASE IsBaseEdge(d)
      BY <1>1, <2>2, <3>1
      DEF EdgeRead, EdgeLabels, EdgeProps, Src, Tgt, IsDirected, EdgeRecordOf, IsBaseEdge,
          ApplyLabelMods, ApplyPropMods
    <3>2. CASE ~IsBaseEdge(d)
      <4>1. EdgeSlot(d) \in 1 .. Len(newEdges) /\ EdgeSlot(d)' = EdgeSlot(d) /\ ~IsBaseEdge(d)'
        BY <1>1, <3>2, IdsInRange DEF EdgeSlot, IsBaseEdge
      <4>2. EdgeSlot(d) # EdgeSlot(e)
        <5>1. d \in Nat /\ base.edgeCount \in Nat
          BY IdsInRange DEF AllocatedEdges
        <5> QED
          BY <1>1, <2>6, <5>1 DEF EdgeSlot
      <4> QED
        BY <2>4, <3>2, <4>1, <4>2
        DEF EdgeRead, EdgeLabels, EdgeProps, Src, Tgt, IsDirected, EdgeRecordOf
    <3> QED
      BY <3>1, <3>2
  <2> QED
    BY <1>1, <2>5, <2>6, NodeReadFrame
    DEF WriteEdgeProps, LiveEdges, AllocatedEdges, NodeView, LiveNodes, nodeOverlay
<1> QED
  BY <1>2, <1>3

\* A write of an edge's labels changes the reads of that edge only.
LEMMA WriteEdgeLabelsReads ==
  ASSUME OverlayTypeOK, NEW e \in AllocatedEdges, NEW labels, NEW mods, WriteEdgeLabels(e, labels, mods)
  PROVE  /\ NextEdgeId' = NextEdgeId /\ LiveEdges' = LiveEdges /\ NodeView' = NodeView
         /\ EdgeProps(e)' = EdgeProps(e)
         /\ Src(e)' = Src(e) /\ Tgt(e)' = Tgt(e) /\ IsDirected(e)' = IsDirected(e)
         /\ \A d \in AllocatedEdges : d # e => EdgeRead(d)' = EdgeRead(d)
<1>1. e \in Nat /\ e \in EdgeIds /\ base' = base /\ newEdges \in Seq(EdgeRecord)
  BY IdsInRange DEF WriteEdgeLabels, OverlayTypeOK, AllocatedEdges
<1>2. CASE IsBaseEdge(e)
  <2>1. newEdges' = newEdges /\ modEdgeProps' = modEdgeProps
        /\ \A d \in AllocatedEdges : d # e => modEdgeLabels'[d] = modEdgeLabels[d]
    BY <1>2, IdsInRange DEF WriteEdgeLabels, OverlayTypeOK
  <2>2. /\ NextEdgeId' = NextEdgeId /\ EdgeProps(e)' = EdgeProps(e)
        /\ \A d : EdgeRecordOf(d)' = EdgeRecordOf(d)
    BY <1>1, <2>1 DEF NextEdgeId, EdgeProps, EdgeRecordOf, IsBaseEdge, EdgeSlot, ApplyPropMods
  <2>3. \A d \in AllocatedEdges : d # e => EdgeLabels(d)' = EdgeLabels(d) /\ EdgeProps(d)' = EdgeProps(d)
    BY <1>1, <2>1 DEF EdgeLabels, EdgeProps, IsBaseEdge, EdgeSlot, ApplyLabelMods, ApplyPropMods
  <2>4. \A d \in AllocatedEdges : d # e => EdgeRead(d)' = EdgeRead(d)
    BY <2>2, <2>3 DEF EdgeRead, Src, Tgt, IsDirected
  <2> QED
    BY <1>1, <2>2, <2>4, NodeReadFrame
    DEF WriteEdgeLabels, LiveEdges, AllocatedEdges, NodeView, LiveNodes, nodeOverlay, Src, Tgt, IsDirected
<1>3. CASE ~IsBaseEdge(e)
  <2>1. EdgeSlot(e) \in 1 .. Len(newEdges)
    BY <1>3, IdsInRange
  <2>2. /\ newEdges' = [newEdges EXCEPT ![EdgeSlot(e)].labels = labels]
        /\ modEdgeProps' = modEdgeProps /\ modEdgeLabels' = modEdgeLabels
    BY <1>3 DEF WriteEdgeLabels
  <2>3. newEdges[EdgeSlot(e)] \in EdgeRecord
    BY <1>1, <2>1, ElementOfSeq
  <2>4. /\ Len(newEdges') = Len(newEdges)
        /\ newEdges'[EdgeSlot(e)].props = newEdges[EdgeSlot(e)].props
        /\ newEdges'[EdgeSlot(e)].src = newEdges[EdgeSlot(e)].src
        /\ newEdges'[EdgeSlot(e)].tgt = newEdges[EdgeSlot(e)].tgt
        /\ newEdges'[EdgeSlot(e)].directed = newEdges[EdgeSlot(e)].directed
        /\ \A k \in 1 .. Len(newEdges) : k # EdgeSlot(e) => newEdges'[k] = newEdges[k]
    BY <1>1, <2>1, <2>2, <2>3 DEF EdgeRecord
  <2>5. /\ NextEdgeId' = NextEdgeId /\ EdgeProps(e)' = EdgeProps(e)
        /\ Src(e)' = Src(e) /\ Tgt(e)' = Tgt(e) /\ IsDirected(e)' = IsDirected(e)
    BY <1>1, <1>3, <2>4
    DEF NextEdgeId, EdgeProps, Src, Tgt, IsDirected, EdgeRecordOf, IsBaseEdge, EdgeSlot
  <2>6. ASSUME NEW d \in AllocatedEdges, d # e
        PROVE  EdgeRead(d)' = EdgeRead(d)
    <3>1. CASE IsBaseEdge(d)
      BY <1>1, <2>2, <3>1
      DEF EdgeRead, EdgeLabels, EdgeProps, Src, Tgt, IsDirected, EdgeRecordOf, IsBaseEdge,
          ApplyLabelMods, ApplyPropMods
    <3>2. CASE ~IsBaseEdge(d)
      <4>1. EdgeSlot(d) \in 1 .. Len(newEdges) /\ EdgeSlot(d)' = EdgeSlot(d) /\ ~IsBaseEdge(d)'
        BY <1>1, <3>2, IdsInRange DEF EdgeSlot, IsBaseEdge
      <4>2. EdgeSlot(d) # EdgeSlot(e)
        <5>1. d \in Nat /\ base.edgeCount \in Nat
          BY IdsInRange DEF AllocatedEdges
        <5> QED
          BY <1>1, <2>6, <5>1 DEF EdgeSlot
      <4> QED
        BY <2>4, <3>2, <4>1, <4>2
        DEF EdgeRead, EdgeLabels, EdgeProps, Src, Tgt, IsDirected, EdgeRecordOf
    <3> QED
      BY <3>1, <3>2
  <2> QED
    BY <1>1, <2>5, <2>6, NodeReadFrame
    DEF WriteEdgeLabels, LiveEdges, AllocatedEdges, NodeView, LiveNodes, nodeOverlay
<1> QED
  BY <1>2, <1>3

(***************************************************************************)
(* Step by step.                                                           *)
(***************************************************************************)

\* A well-typed overlay is read element by element before and after a step.
LEMMA ViewsAreRead ==
  ASSUME IInv, IInv'
  PROVE  /\ MergedView = [node |-> NodeView, edge |-> EdgeView]
         /\ MergedView' = [node |-> NodeView', edge |-> EdgeView']
         /\ DOMAIN NodeView = LiveNodes /\ DOMAIN EdgeView = LiveEdges
<1>1. OverlayTypeOK /\ OverlayTypeOK'
  BY DEF IInv, TypeOK
<1>2. (OverlayTypeOK => MergedView = [node |-> NodeView, edge |-> EdgeView])'
  BY ViewIsRead, PTL
<1> QED
  BY <1>1, <1>2, ViewIsRead DEF NodeView, EdgeView

\* Each operation of a statement is a write of the abstract graph, or nothing.
LEMMA InsertNodeRefines ==
  ASSUME IInv, IInv', NEW l \in SUBSET Labels, NEW p \in PropMap, InsertNode(l, p)
  PROVE  Abstract!InsertNode /\ base' = base
<1> DEFINE r == [labels |-> l, props |-> p]
<1>0. PICK new : new = NextNodeId
  OBVIOUS
<1>1. OverlayTypeOK /\ PushNode(l, p)
  BY DEF IInv, TypeOK, InsertNode
<1>2. /\ new \in NodeIds \ LiveNodes /\ LiveNodes' = LiveNodes \cup {new} /\ NodeRead(new)' = r
      /\ \A n \in LiveNodes : NodeRead(n)' = NodeRead(n)
      /\ EdgeView' = EdgeView
  BY <1>0, <1>1, PushNodeReads
<1> HIDE DEF r
<1>3. NodeView' = Abstract!Extend(NodeView, new, r)
  BY <1>2 DEF NodeView, Abstract!Extend
<1>4. MergedView' = [MergedView EXCEPT !.node = Abstract!Extend(@, new, r)]
  BY <1>2, <1>3, ViewsAreRead
<1>5. new \in Abstract!NodeIds \ Abstract!Nodes(MergedView)
  BY <1>2, ViewsAreRead DEF Abstract!NodeIds, NodeIds, Abstract!Nodes
<1>6. p \in Abstract!PropMap
  BY DEF Abstract!PropMap, PropMap
<1> QED
  BY <1>1, <1>4, <1>5, <1>6 DEF Abstract!InsertNode, r, PushNode

\* An edge between live nodes is an abstract insertion.
LEMMA InsertEdgeRefines ==
  ASSUME IInv, IInv', NEW s, NEW t, NEW directed \in BOOLEAN,
         NEW l \in SUBSET Labels, NEW p \in PropMap, InsertEdge(s, t, directed, l, p)
  PROVE  Abstract!InsertEdge /\ base' = base
<1> DEFINE r == [src |-> s, tgt |-> t, directed |-> directed, labels |-> l, props |-> p]
<1>0. PICK new : new = NextEdgeId
  OBVIOUS
<1>1. OverlayTypeOK /\ PushEdge(s, t, directed, l, p) /\ s \in LiveNodes /\ t \in LiveNodes
  BY DEF IInv, TypeOK, InsertEdge
<1>2. /\ new \in EdgeIds \ LiveEdges /\ LiveEdges' = LiveEdges \cup {new} /\ EdgeRead(new)' = r
      /\ \A e \in LiveEdges : EdgeRead(e)' = EdgeRead(e)
      /\ NodeView' = NodeView
  BY <1>0, <1>1, PushEdgeReads
<1> HIDE DEF r
<1>3. EdgeView' = Abstract!Extend(EdgeView, new, r)
  BY <1>2 DEF EdgeView, Abstract!Extend
<1>4. MergedView' = [MergedView EXCEPT !.edge = Abstract!Extend(@, new, r)]
  BY <1>2, <1>3, ViewsAreRead
<1>5. new \in Abstract!EdgeIds \ Abstract!Edges(MergedView)
      /\ s \in Abstract!Nodes(MergedView) /\ t \in Abstract!Nodes(MergedView)
  BY <1>1, <1>2, ViewsAreRead DEF Abstract!EdgeIds, EdgeIds, Abstract!Edges, Abstract!Nodes
<1>6. p \in Abstract!PropMap
  BY DEF Abstract!PropMap, PropMap
<1> QED
  BY <1>1, <1>4, <1>5, <1>6 DEF Abstract!InsertEdge, r, PushEdge

\* Deleting a node takes its edges with it, since they are what the adjacency lists; deleting
\* one that is gone changes nothing, since nothing live touches it.
LEMMA DeleteNodeRefines ==
  ASSUME IInv, IInv', NEW n \in boundNodes, NEW detach \in BOOLEAN, DeleteNode(n, detach)
  PROVE  (Abstract!DeleteNode \/ MergedView' = MergedView) /\ base' = base
<1>1. OverlayTypeOK /\ OverlayAdjacency /\ NoDanglingEdge /\ n \in AllocatedNodes
  BY DEF IInv, TypeOK, Topology
<1>2. IncidentEdges(n) = {e \in LiveEdges : n \in {Src(e), Tgt(e)}}
  BY <1>1, MergedAdjacency DEF IncidentEdges
<1>3. /\ deletedNodes' = deletedNodes \cup {n}
      /\ deletedEdges' = deletedEdges \cup IncidentEdges(n)
      /\ UNCHANGED <<base, newNodes, modNodeProps, modNodeLabels, newEdges, modEdgeProps, modEdgeLabels>>
  BY DEF DeleteNode, DetachDeleteNode, DeleteNodeNoDetach, edgeOverlay
<1>4. /\ NodeView' = Abstract!Without(NodeView, {n})
      /\ EdgeView' = Abstract!Without(EdgeView, IncidentEdges(n))
  BY <1>3, TombstoneReads
<1>5. CASE n \in LiveNodes
  <2>1. Abstract!Touching(MergedView, n) = IncidentEdges(n)
    BY <1>2, ViewsAreRead DEF Abstract!Touching, Abstract!Edges, EdgeView, EdgeRead
  <2>2. MergedView' = [MergedView EXCEPT !.node = Abstract!Without(@, {n}),
                                         !.edge = Abstract!Without(@, Abstract!Touching(MergedView, n))]
    <3>1. PICK nodes, edges : nodes = NodeView /\ edges = EdgeView
      OBVIOUS
    <3>2. MergedView = [node |-> nodes, edge |-> edges]
          /\ MergedView' = [node |-> NodeView', edge |-> EdgeView']
      BY <3>1, ViewsAreRead
    <3>3. PICK g1 : g1 = [MergedView EXCEPT !.node = NodeView']
      OBVIOUS
    <3>4. g1 = [node |-> NodeView', edge |-> edges]
      BY <3>2, <3>3
    <3>5. [g1 EXCEPT !.edge = EdgeView'] = [node |-> NodeView', edge |-> EdgeView']
      BY <3>4
    <3>6. [MergedView EXCEPT !.node = NodeView', !.edge = EdgeView'] = [g1 EXCEPT !.edge = EdgeView']
      BY <3>3
    <3>7. MergedView.node = NodeView /\ MergedView.edge = EdgeView
      BY <3>1, <3>2
    <3> QED
      BY <1>4, <2>1, <3>2, <3>5, <3>6, <3>7
  <2>3. n \in Abstract!Nodes(MergedView)
    BY <1>5, ViewsAreRead DEF Abstract!Nodes
  <2> QED
    BY <1>3, <2>2, <2>3 DEF Abstract!DeleteNode
<1>6. CASE n \notin LiveNodes
  <2>1. IncidentEdges(n) = {}
    BY <1>1, <1>2, <1>6 DEF NoDanglingEdge
  <2>2. NodeView' = NodeView /\ EdgeView' = EdgeView
    <3>1. LiveNodes \ {n} = LiveNodes /\ LiveEdges \ {} = LiveEdges
      BY <1>6
    <3>2. NodeView' = [m \in LiveNodes \ {n} |-> NodeView[m]]
      BY <1>4, ViewsAreRead DEF Abstract!Without
    <3>3. EdgeView' = [e \in LiveEdges \ {} |-> EdgeView[e]]
      BY <1>4, <2>1, ViewsAreRead DEF Abstract!Without
    <3> QED
      BY <3>1, <3>2, <3>3 DEF NodeView, EdgeView
  <2> QED
    BY <1>3, <2>2, ViewsAreRead
<1> QED
  BY <1>5, <1>6

\* An edge is removed, or was gone before.
LEMMA DeleteEdgeRefines ==
  ASSUME IInv, IInv', NEW e \in boundEdges, DeleteEdge(e)
  PROVE  (Abstract!DeleteEdge \/ MergedView' = MergedView) /\ base' = base
<1>1. /\ deletedNodes' = deletedNodes \cup {} /\ deletedEdges' = deletedEdges \cup {e}
      /\ UNCHANGED <<base, newNodes, modNodeProps, modNodeLabels, newEdges, modEdgeProps, modEdgeLabels>>
  BY DEF DeleteEdge, TombstoneEdge, nodeOverlay
<1>2. NodeView' = Abstract!Without(NodeView, {}) /\ EdgeView' = Abstract!Without(EdgeView, {e})
  BY <1>1, TombstoneReads
<1>3. NodeView' = NodeView
  BY <1>2 DEF Abstract!Without, NodeView
<1>4. CASE e \in LiveEdges
  <2>1. MergedView' = [MergedView EXCEPT !.edge = Abstract!Without(@, {e})]
    BY <1>2, <1>3, ViewsAreRead
  <2>2. e \in Abstract!Edges(MergedView)
    BY <1>4, ViewsAreRead DEF Abstract!Edges
  <2> QED
    BY <1>1, <2>1, <2>2 DEF Abstract!DeleteEdge
<1>5. CASE e \notin LiveEdges
  <2>1. EdgeView' = EdgeView
    BY <1>2, <1>5 DEF Abstract!Without, EdgeView
  <2> QED
    BY <1>1, <1>3, <2>1, ViewsAreRead
<1> QED
  BY <1>4, <1>5

\* A write to one node that reads back as an update of its record is that update of the graph,
\* or changes nothing if the node is gone.
LEMMA NodeWriteRefines ==
  ASSUME IInv, IInv', NEW n, LiveNodes' = LiveNodes, EdgeView' = EdgeView,
         \A m \in LiveNodes : m # n => NodeRead(m)' = NodeRead(m),
         NodeRead(n)' \in Abstract!Updates(NodeRead(n))
  PROVE  Abstract!UpdateNode \/ MergedView' = MergedView
<1>1. CASE n \in LiveNodes
  <2>1. NodeView' = [NodeView EXCEPT ![n] = NodeRead(n)']
    BY <1>1 DEF NodeView
  <2>2. MergedView' = [MergedView EXCEPT !.node[n] = NodeRead(n)']
    <3>1. PICK nodes, edges : nodes = NodeView /\ edges = EdgeView
      OBVIOUS
    <3>2. [[node |-> nodes, edge |-> edges] EXCEPT !.node[n] = NodeRead(n)']
            = [node |-> [nodes EXCEPT ![n] = NodeRead(n)'], edge |-> edges]
      OBVIOUS
    <3> QED
      BY <2>1, <3>1, <3>2, ViewsAreRead
  <2>3. n \in Abstract!Nodes(MergedView) /\ MergedView.node[n] = NodeRead(n)
    BY <1>1, ViewsAreRead DEF Abstract!Nodes, NodeView
  <2> QED
    BY <2>2, <2>3 DEF Abstract!UpdateNode
<1>2. CASE n \notin LiveNodes
  <2>1. NodeView' = NodeView
    BY <1>2 DEF NodeView
  <2> QED
    BY <2>1, ViewsAreRead
<1> QED
  BY <1>1, <1>2

\* A write that changes one edge is an abstract update of it.
LEMMA EdgeWriteRefines ==
  ASSUME IInv, IInv', NEW e, LiveEdges' = LiveEdges, NodeView' = NodeView,
         \A d \in LiveEdges : d # e => EdgeRead(d)' = EdgeRead(d),
         EdgeRead(e)' \in Abstract!Updates(EdgeRead(e))
  PROVE  Abstract!UpdateEdge \/ MergedView' = MergedView
<1>1. CASE e \in LiveEdges
  <2>1. EdgeView' = [EdgeView EXCEPT ![e] = EdgeRead(e)']
    BY <1>1 DEF EdgeView
  <2>2. MergedView' = [MergedView EXCEPT !.edge[e] = EdgeRead(e)']
    <3>1. PICK nodes, edges : nodes = NodeView /\ edges = EdgeView
      OBVIOUS
    <3>2. [[node |-> nodes, edge |-> edges] EXCEPT !.edge[e] = EdgeRead(e)']
            = [node |-> nodes, edge |-> [edges EXCEPT ![e] = EdgeRead(e)']]
      OBVIOUS
    <3> QED
      BY <2>1, <3>1, <3>2, ViewsAreRead
  <2>3. e \in Abstract!Edges(MergedView) /\ MergedView.edge[e] = EdgeRead(e)
    BY <1>1, ViewsAreRead DEF Abstract!Edges, EdgeView
  <2> QED
    BY <2>2, <2>3 DEF Abstract!UpdateEdge
<1>2. CASE e \notin LiveEdges
  <2>1. EdgeView' = EdgeView
    BY <1>2 DEF EdgeView
  <2> QED
    BY <2>1, ViewsAreRead
<1> QED
  BY <1>1, <1>2

\* Replaced properties, a label more and a label less are updates of a record.
LEMMA UpdatesOfRecord ==
  ASSUME NEW r
  PROVE  /\ \A m \in PropMap : [r EXCEPT !.props = m] \in Abstract!Updates(r)
         /\ \A l \in Labels : \A labels \in {r.labels \cup {l}, r.labels \ {l}} :
              [r EXCEPT !.labels = labels] \in Abstract!Updates(r)
<1> DEFINE all == {[r EXCEPT !.props = m] : m \in Abstract!PropMap}
           near == Abstract!Relabelled(r.labels)
           labelled == {[r EXCEPT !.labels = s] : s \in near}
<1>1. PropMap = Abstract!PropMap
  BY DEF PropMap, Abstract!PropMap
<1>2. Abstract!Updates(r) = all \cup labelled
  BY Zenon DEF Abstract!Updates
<1>3. \A m \in PropMap : [r EXCEPT !.props = m] \in all
  BY <1>1, Zenon
<1>4. \A s \in near : [r EXCEPT !.labels = s] \in labelled
  BY Zenon
<1>5. \A l \in Labels : \A labels \in {r.labels \cup {l}, r.labels \ {l}} : labels \in near
  BY Zenon DEF Abstract!Relabelled
<1> HIDE DEF all, labelled, near
<1> QED
  BY <1>2, <1>3, <1>4, <1>5, Zenon

\* Every SET and REMOVE item is one of the updates of a record.
LEMMA UpdateNodeRefines ==
  ASSUME IInv, IInv', NEW n \in boundNodes, UpdateNode(n)
  PROVE  (Abstract!UpdateNode \/ MergedView' = MergedView) /\ base' = base
<1>1. OverlayTypeOK /\ n \in AllocatedNodes /\ LiveNodes \subseteq AllocatedNodes
  BY DEF IInv, TypeOK, LiveNodes
<1>2. NodeWritesReadBack(n) /\ NodeProps(n) \in PropMap
  BY <1>1, NodeReadsBack, NodeReadType
<1>3. ASSUME NEW props, NEW mods, WriteNodeProps(n, props, mods),
             NodeProps(n)' \in PropMap \/
               \E p \in Props, v \in Values \cup {Absent} : NodeProps(n)' = [NodeProps(n) EXCEPT ![p] = v]
      PROVE  (Abstract!UpdateNode \/ MergedView' = MergedView) /\ base' = base
  <2>1. /\ LiveNodes' = LiveNodes /\ EdgeView' = EdgeView /\ NodeLabels(n)' = NodeLabels(n)
        /\ \A m \in AllocatedNodes : m # n => NodeRead(m)' = NodeRead(m)
    BY <1>1, <1>3, WriteNodePropsReads
  <2>2. NodeProps(n)' \in PropMap
    BY <1>2, <1>3 DEF PropMap
  <2>3. NodeRead(n)' = [NodeRead(n) EXCEPT !.props = NodeProps(n)']
    BY <2>1 DEF NodeRead
  <2>4. NodeRead(n)' \in Abstract!Updates(NodeRead(n))
    BY <2>2, <2>3, UpdatesOfRecord
  <2>5. base' = base
    BY <1>3 DEF WriteNodeProps
  <2> QED
    BY <1>1, <2>1, <2>4, <2>5, NodeWriteRefines
<1>4. ASSUME NEW labels, NEW mods, WriteNodeLabels(n, labels, mods), NEW l \in Labels,
             NodeLabels(n)' \in {NodeLabels(n) \cup {l}, NodeLabels(n) \ {l}}
      PROVE  (Abstract!UpdateNode \/ MergedView' = MergedView) /\ base' = base
  <2>1. /\ LiveNodes' = LiveNodes /\ EdgeView' = EdgeView /\ NodeProps(n)' = NodeProps(n)
        /\ \A m \in AllocatedNodes : m # n => NodeRead(m)' = NodeRead(m)
    BY <1>1, <1>4, WriteNodeLabelsReads
  <2>2. NodeRead(n)' = [NodeRead(n) EXCEPT !.labels = NodeLabels(n)'] /\ NodeRead(n).labels = NodeLabels(n)
    BY <2>1 DEF NodeRead
  <2>3. NodeRead(n)' \in Abstract!Updates(NodeRead(n))
    <3>1. PICK r : r = NodeRead(n)
      OBVIOUS
    <3>2. PICK labelled : labelled = NodeLabels(n)'
      OBVIOUS
    <3>3. labelled \in {r.labels \cup {l}, r.labels \ {l}}
      BY <1>4, <2>2, <3>1, <3>2
    <3>4. [r EXCEPT !.labels = labelled] \in Abstract!Updates(r)
      BY <3>3, UpdatesOfRecord
    <3> QED
      BY <2>2, <3>1, <3>2, <3>4
  <2>4. base' = base
    BY <1>4 DEF WriteNodeLabels
  <2> QED
    BY <1>1, <2>1, <2>3, <2>4, NodeWriteRefines
<1>5. ASSUME NEW p \in Props, NEW v \in Values \cup {Absent}, SetNodeProp(n, p, v)
      PROVE  (Abstract!UpdateNode \/ MergedView' = MergedView) /\ base' = base
  <2>1. NodeProps(n)' = [NodeProps(n) EXCEPT ![p] = v]
    BY <1>2, <1>5 DEF NodeWritesReadBack
  <2> QED
    BY <1>3, <1>5, <2>1 DEF SetNodeProp
<1>6. ASSUME NEW m \in PropMap, ReplaceNodeProps(n, m)
      PROVE  (Abstract!UpdateNode \/ MergedView' = MergedView) /\ base' = base
  <2>1. NodeProps(n)' = m
    BY <1>2, <1>6 DEF NodeWritesReadBack
  <2> QED
    BY <1>3, <1>6, <2>1 DEF ReplaceNodeProps
<1>7. ASSUME NEW l \in Labels, AddNodeLabel(n, l) \/ RemoveNodeLabel(n, l)
      PROVE  (Abstract!UpdateNode \/ MergedView' = MergedView) /\ base' = base
  <2>1. NodeLabels(n)' \in {NodeLabels(n) \cup {l}, NodeLabels(n) \ {l}}
    BY <1>2, <1>7 DEF NodeWritesReadBack
  <2> QED
    BY <1>4, <1>7, <2>1 DEF AddNodeLabel, RemoveNodeLabel
<1> QED
  BY <1>5, <1>6, <1>7 DEF UpdateNode

\* Every SET and REMOVE on an edge is an abstract update, or nothing.
LEMMA UpdateEdgeRefines ==
  ASSUME IInv, IInv', NEW e \in boundEdges, UpdateEdge(e)
  PROVE  (Abstract!UpdateEdge \/ MergedView' = MergedView) /\ base' = base
<1>1. OverlayTypeOK /\ e \in AllocatedEdges /\ LiveEdges \subseteq AllocatedEdges
  BY DEF IInv, TypeOK, LiveEdges
<1>2. EdgeWritesReadBack(e) /\ EdgeProps(e) \in PropMap
  BY <1>1, EdgeReadsBack, EdgeReadType
<1>3. ASSUME NEW props, NEW mods, WriteEdgeProps(e, props, mods),
             EdgeProps(e)' \in PropMap \/
               \E p \in Props, v \in Values \cup {Absent} : EdgeProps(e)' = [EdgeProps(e) EXCEPT ![p] = v]
      PROVE  (Abstract!UpdateEdge \/ MergedView' = MergedView) /\ base' = base
  <2>1. /\ LiveEdges' = LiveEdges /\ NodeView' = NodeView /\ EdgeLabels(e)' = EdgeLabels(e)
        /\ Src(e)' = Src(e) /\ Tgt(e)' = Tgt(e) /\ IsDirected(e)' = IsDirected(e)
        /\ \A d \in AllocatedEdges : d # e => EdgeRead(d)' = EdgeRead(d)
    BY <1>1, <1>3, WriteEdgePropsReads
  <2>2. EdgeProps(e)' \in PropMap
    BY <1>2, <1>3 DEF PropMap
  <2>3. EdgeRead(e)' = [EdgeRead(e) EXCEPT !.props = EdgeProps(e)']
    BY <2>1 DEF EdgeRead
  <2>4. EdgeRead(e)' \in Abstract!Updates(EdgeRead(e))
    BY <2>2, <2>3, UpdatesOfRecord
  <2>5. base' = base
    BY <1>3 DEF WriteEdgeProps
  <2> QED
    BY <1>1, <2>1, <2>4, <2>5, EdgeWriteRefines
<1>4. ASSUME NEW labels, NEW mods, WriteEdgeLabels(e, labels, mods), NEW l \in Labels,
             EdgeLabels(e)' \in {EdgeLabels(e) \cup {l}, EdgeLabels(e) \ {l}}
      PROVE  (Abstract!UpdateEdge \/ MergedView' = MergedView) /\ base' = base
  <2>1. /\ LiveEdges' = LiveEdges /\ NodeView' = NodeView /\ EdgeProps(e)' = EdgeProps(e)
        /\ Src(e)' = Src(e) /\ Tgt(e)' = Tgt(e) /\ IsDirected(e)' = IsDirected(e)
        /\ \A d \in AllocatedEdges : d # e => EdgeRead(d)' = EdgeRead(d)
    BY <1>1, <1>4, WriteEdgeLabelsReads
  <2>2. EdgeRead(e)' = [EdgeRead(e) EXCEPT !.labels = EdgeLabels(e)'] /\ EdgeRead(e).labels = EdgeLabels(e)
    BY <2>1 DEF EdgeRead
  <2>3. EdgeRead(e)' \in Abstract!Updates(EdgeRead(e))
    <3>1. PICK r : r = EdgeRead(e)
      OBVIOUS
    <3>2. PICK labelled : labelled = EdgeLabels(e)'
      OBVIOUS
    <3>3. labelled \in {r.labels \cup {l}, r.labels \ {l}}
      BY <1>4, <2>2, <3>1, <3>2
    <3>4. [r EXCEPT !.labels = labelled] \in Abstract!Updates(r)
      BY <3>3, UpdatesOfRecord
    <3> QED
      BY <2>2, <3>1, <3>2, <3>4
  <2>4. base' = base
    BY <1>4 DEF WriteEdgeLabels
  <2> QED
    BY <1>1, <2>1, <2>3, <2>4, EdgeWriteRefines
<1>5. ASSUME NEW p \in Props, NEW v \in Values \cup {Absent}, SetEdgeProp(e, p, v)
      PROVE  (Abstract!UpdateEdge \/ MergedView' = MergedView) /\ base' = base
  <2>1. EdgeProps(e)' = [EdgeProps(e) EXCEPT ![p] = v]
    BY <1>2, <1>5 DEF EdgeWritesReadBack
  <2> QED
    BY <1>3, <1>5, <2>1 DEF SetEdgeProp
<1>6. ASSUME NEW m \in PropMap, ReplaceEdgeProps(e, m)
      PROVE  (Abstract!UpdateEdge \/ MergedView' = MergedView) /\ base' = base
  <2>1. EdgeProps(e)' = m
    BY <1>2, <1>6 DEF EdgeWritesReadBack
  <2> QED
    BY <1>3, <1>6, <2>1 DEF ReplaceEdgeProps
<1>7. ASSUME NEW l \in Labels, AddEdgeLabel(e, l) \/ RemoveEdgeLabel(e, l)
      PROVE  (Abstract!UpdateEdge \/ MergedView' = MergedView) /\ base' = base
  <2>1. EdgeLabels(e)' \in {EdgeLabels(e) \cup {l}, EdgeLabels(e) \ {l}}
    BY <1>2, <1>7 DEF EdgeWritesReadBack
  <2> QED
    BY <1>4, <1>7, <2>1 DEF AddEdgeLabel, RemoveEdgeLabel
<1> QED
  BY <1>5, <1>6, <1>7 DEF UpdateEdge

(***************************************************************************)
(* The steps of the session: most of them change neither the merged view   *)
(* nor the image it is read over.                                          *)
(***************************************************************************)

\* With nothing staged the merged view is the image.
LEMMA EmptyOverlayView ==
  ASSUME IsImage(base), EmptyOverlay
  PROVE  MergedView = GraphOf(base)
<1>1. OverlayTypeOK /\ NextNodeId = base.nodeCount /\ NextEdgeId = base.edgeCount
  BY EmptyOverlayType
<1>2. /\ base.nodeCount \in 0 .. MaxNodes /\ base.edgeCount \in 0 .. MaxEdges
      /\ base.node \in [0 .. base.nodeCount - 1 -> NodeRecord]
      /\ base.edge \in [0 .. base.edgeCount - 1 -> EdgeRecord]
  BY DEF IsImage
<1>3. LiveNodes = DOMAIN base.node /\ LiveEdges = DOMAIN base.edge
  BY <1>1, <1>2 DEF LiveNodes, LiveEdges, AllocatedNodes, AllocatedEdges, EmptyOverlay
<1>4. ASSUME NEW props \in PropMap PROVE ApplyPropMods(props, NoPropMods) = props
  BY <1>4 DEF ApplyPropMods, NoPropMods, PropMap
<1>5. ASSUME NEW labels PROVE ApplyLabelMods(labels, NoLabelMods) = labels
  BY DEF ApplyLabelMods, NoLabelMods
<1>6. ASSUME NEW n \in LiveNodes PROVE NodeRead(n) = base.node[n]
  <2>1. n \in NodeIds /\ IsBaseNode(n) /\ base.node[n] \in NodeRecord
    BY <1>2, <1>3, BoundsAssumption DEF NodeIds, IsBaseNode
  <2>2. modNodeProps[n] = NoPropMods /\ modNodeLabels[n] = NoLabelMods
    BY <2>1 DEF EmptyOverlay, Unmodified
  <2>3. NodeLabels(n) = base.node[n].labels /\ NodeProps(n) = base.node[n].props
    BY <1>4, <1>5, <2>1, <2>2 DEF NodeLabels, NodeProps, NodeRecord
  <2> QED
    BY <2>1, <2>3 DEF NodeRead, NodeRecord
<1>7. ASSUME NEW e \in LiveEdges PROVE EdgeRead(e) = base.edge[e]
  <2>1. e \in EdgeIds /\ IsBaseEdge(e) /\ base.edge[e] \in EdgeRecord
    BY <1>2, <1>3, BoundsAssumption DEF EdgeIds, IsBaseEdge
  <2>2. modEdgeProps[e] = NoPropMods /\ modEdgeLabels[e] = NoLabelMods
    BY <2>1 DEF EmptyOverlay, Unmodified
  <2>3. EdgeLabels(e) = base.edge[e].labels /\ EdgeProps(e) = base.edge[e].props
    BY <1>4, <1>5, <2>1, <2>2 DEF EdgeLabels, EdgeProps, EdgeRecord
  <2> QED
    BY <2>1, <2>3 DEF EdgeRead, EdgeRecord, EdgeRecordOf, Src, Tgt, IsDirected
<1>8. NodeView = base.node /\ EdgeView = base.edge
  BY <1>2, <1>3, <1>6, <1>7 DEF NodeView, EdgeView
<1> QED
  BY <1>1, <1>8, ViewIsRead DEF GraphOf

\* A failing statement takes the view back to the image, and a new session starts from its own.
LEMMA ClearedView == EmptyOverlay' /\ IsImage(base)' => MergedView' = GraphOf(base)'
<1>1. (IsImage(base) /\ EmptyOverlay => MergedView = GraphOf(base))'
  BY EmptyOverlayView, PTL
<1> QED
  BY <1>1

\* A statement's steps are writes, the rollback or invisible.
LEMMA StatementRefines ==
  ASSUME IInv, IInv', Next, file' = file
  PROVE  [Abstract!Next]_(Abstract!vars)
<1>0. OverlayTypeOK /\ IsImage(base)
  BY DEF IInv, TypeOK, OverlayTypeOK
<1>1. ASSUME MergedView' = MergedView, base' = base
      PROVE  [Abstract!Next]_(Abstract!vars)
  BY <1>1 DEF Abstract!vars, GraphOf
<1>2. ASSUME \/ Abstract!InsertNode \/ Abstract!InsertEdge \/ Abstract!DeleteNode
             \/ Abstract!DeleteEdge \/ Abstract!UpdateNode \/ Abstract!UpdateEdge,
             base' = base
      PROVE  [Abstract!Next]_(Abstract!vars)
  <2>1. GraphOf(base)' = GraphOf(base) /\ GraphOf(file)' = GraphOf(file)
    BY <1>2 DEF GraphOf
  <2>2. Abstract!Write
    BY <1>2, <2>1 DEF Abstract!Write
  <2> QED
    BY <2>2 DEF Abstract!Next
<1>3. ASSUME NEW op \in Operations, BeginStatement(op)
      PROVE  [Abstract!Next]_(Abstract!vars)
  <2>1. UNCHANGED overlayVars
    BY <1>3 DEF BeginStatement
  <2> QED
    BY <1>1, <2>1, ViewFrame DEF overlayVars
<1>4. CASE EndStatement
  <2>1. UNCHANGED overlayVars
    BY <1>4 DEF EndStatement
  <2> QED
    BY <1>1, <2>1, ViewFrame DEF overlayVars
<1>5. CASE StatementFails
  <2>1. EmptyOverlay' /\ base' = base
    BY <1>5, ClearOverlayEmpties DEF StatementFails
  <2>2. IsImage(base)'
    BY <1>0, <2>1 DEF IsImage
  <2>3. MergedView' = GraphOf(base) /\ GraphOf(base)' = GraphOf(base) /\ GraphOf(file)' = GraphOf(file)
    BY <2>1, <2>2, ClearedView DEF GraphOf
  <2>4. Abstract!Rollback
    BY <2>3 DEF Abstract!Rollback
  <2> QED
    BY <2>4 DEF Abstract!Next
<1>6. ASSUME NEW l \in SUBSET Labels, NEW p \in PropMap, InsertNode(l, p)
      PROVE  [Abstract!Next]_(Abstract!vars)
  BY <1>2, <1>6, InsertNodeRefines
<1>7. ASSUME NEW s \in boundNodes, NEW t \in boundNodes, NEW directed \in BOOLEAN,
             NEW l \in SUBSET Labels, NEW p \in PropMap, InsertEdge(s, t, directed, l, p)
      PROVE  [Abstract!Next]_(Abstract!vars)
  BY <1>2, <1>7, InsertEdgeRefines
<1>8. ASSUME NEW n \in boundNodes, NEW detach \in BOOLEAN, DeleteNode(n, detach)
      PROVE  [Abstract!Next]_(Abstract!vars)
  BY <1>1, <1>2, <1>8, DeleteNodeRefines
<1>9. ASSUME NEW e \in boundEdges, DeleteEdge(e)
      PROVE  [Abstract!Next]_(Abstract!vars)
  BY <1>1, <1>2, <1>9, DeleteEdgeRefines
<1>10. ASSUME NEW n \in boundNodes, UpdateNode(n)
       PROVE  [Abstract!Next]_(Abstract!vars)
  BY <1>1, <1>2, <1>10, UpdateNodeRefines
<1>11. ASSUME NEW e \in boundEdges, UpdateEdge(e)
       PROVE  [Abstract!Next]_(Abstract!vars)
  BY <1>1, <1>2, <1>11, UpdateEdgeRefines
<1> QED
  BY <1>3, <1>4, <1>5, <1>6, <1>7, <1>8, <1>9, <1>10, <1>11 DEF Next

\* A rename is a save and a reopening a reopening; what a save writes first is not seen.
LEMMA SessionStepRefines ==
  ASSUME SessionInv, SessionInv', [SessionNext]_sessionVars
  PROVE  [Abstract!Next]_(Abstract!vars)
<1>0. IInv /\ IInv'
  BY DEF SessionInv
<1>1. ASSUME UNCHANGED vars
      PROVE  MergedView' = MergedView /\ GraphOf(base)' = GraphOf(base)
  BY <1>1, ViewFrame DEF vars, overlayVars, GraphOf
<1>2. CASE UNCHANGED vars /\ file' = file
  BY <1>1, <1>2 DEF Abstract!vars, GraphOf
<1>3. CASE Statement
  BY <1>0, <1>3, StatementRefines DEF Statement
<1>4. CASE SaveWritesTmp \/ SaveFails
  BY <1>2, <1>4 DEF SaveWritesTmp, SaveFails
<1>5. CASE SaveRenames
  <2>1. UNCHANGED vars /\ file' = tmp /\ Abstract!Isomorphic(MergedView, GraphOf(tmp))
    BY <1>5 DEF SaveRenames, SessionInv
  <2>2. GraphOf(file)' = GraphOf(tmp)
    BY <2>1 DEF GraphOf
  <2>3. Abstract!Save
    BY <1>1, <2>1, <2>2 DEF Abstract!Save
  <2> QED
    BY <2>3 DEF Abstract!Next
<1>6. CASE Reopen
  <2>1. base' = file /\ file' = file
    BY <1>6 DEF Reopen
  <2>2. GraphOf(base)' = GraphOf(file) /\ GraphOf(file)' = GraphOf(file)
    BY <2>1 DEF GraphOf
  <2>3. MergedView' = GraphOf(file)
    BY <1>6, <2>2, ReopenIsFresh, ClearedView
  <2>4. Abstract!Reopen
    BY <2>2, <2>3 DEF Abstract!Reopen
  <2> QED
    BY <2>4 DEF Abstract!Next
<1>7. CASE UNCHANGED sessionVars
  BY <1>2, <1>7 DEF sessionVars
<1> QED
  BY <1>3, <1>4, <1>5, <1>6, <1>7 DEF SessionNext

\* A session starts with what the file holds.
LEMMA SessionInitRefines == SessionInit => Abstract!Init
<1> SUFFICES ASSUME SessionInit PROVE Abstract!Init
  OBVIOUS
<1>1. base \in Images /\ EmptyOverlay /\ file = base
  BY DEF SessionInit, Init, OpenImage
<1>2. MergedView = GraphOf(base)
  BY <1>1, ImagesAssumption, EmptyOverlayView
<1> QED
  BY <1>1, <1>2 DEF Abstract!Init, GraphOf

\* The merged reads over an image and an overlay of staged changes, the rollback, the save with
\* its renumbering and the reopening are together one property graph: whatever a user can read
\* of the store at any time is what PropertyGraph allows.
THEOREM StoreImplementsPropertyGraph == SessionSpec => ImplementsPropertyGraph
<1>1. SessionInit => Abstract!Init
  BY SessionInitRefines
<1>2. SessionInv /\ SessionInv' /\ [SessionNext]_sessionVars => [Abstract!Next]_(Abstract!vars)
  BY SessionStepRefines
<1> QED
  BY <1>1, <1>2, SessionInvariant, PTL DEF SessionSpec, ImplementsPropertyGraph, Abstract!Spec
=============================================================================
