--------------------------- MODULE Overlay_proofs ---------------------------
(***************************************************************************)
(* What the operations of Overlay keep true, whoever calls them: the types *)
(* of the overlay, and that its ids stay dense above the base counts.      *)
(***************************************************************************)
EXTENDS Overlay, SequenceTheorems, TLAPS

(***************************************************************************)
(* The data: per-record modifications and what they do to a record.        *)
(***************************************************************************)

\* An element without modifications has well-typed, empty ones.
LEMMA NoModsType == NoPropMods \in PropMods /\ NoLabelMods \in LabelMods
  BY DEF NoPropMods, NoLabelMods, PropMods, LabelMods

\* SET and REMOVE of one property stage a well-typed modification.
LEMMA StagePropType ==
  ASSUME NEW mods \in PropMods, NEW p \in Props, NEW v \in Values \cup {Absent}
  PROVE  StageProp(mods, p, v) \in PropMods
  BY DEF StageProp, PropMods

\* SET x = {...} stages a well-typed modification.
LEMMA StageReplaceType ==
  ASSUME NEW m \in PropMap
  PROVE  StageReplace(m) \in PropMods
  BY DEF StageReplace, PropMods, PropMap

\* Adding and removing a label stages a well-typed modification.
LEMMA StageLabelType ==
  ASSUME NEW mods \in LabelMods, NEW l \in Labels
  PROVE  StageLabelAdded(mods, l) \in LabelMods /\ StageLabelRemoved(mods, l) \in LabelMods
  BY DEF StageLabelAdded, StageLabelRemoved, LabelMods

\* A read merges the base record with the modifications into a record of the same type.
LEMMA ApplyModsType ==
  ASSUME NEW props \in PropMap, NEW mods \in PropMods,
         NEW labels \in SUBSET Labels, NEW lmods \in LabelMods
  PROVE  ApplyPropMods(props, mods) \in PropMap /\ ApplyLabelMods(labels, lmods) \in SUBSET Labels
  BY DEF ApplyPropMods, ApplyLabelMods, PropMods, LabelMods, PropMap

\* A staged replacement overrides whatever the base record has.
LEMMA StagedReplaceApplies ==
  ASSUME NEW r, NEW m \in PropMap
  PROVE  ApplyPropMods(r, StageReplace(m)) = m
  BY SentinelAssumption DEF ApplyPropMods, StageReplace, PropMap

\* A staged property overrides what earlier modifications and the base record say of it.
LEMMA StagedPropApplies ==
  ASSUME NEW r, NEW mods \in PropMods, NEW p \in Props, NEW v \in Values \cup {Absent}
  PROVE  ApplyPropMods(r, StageProp(mods, p, v)) = [ApplyPropMods(r, mods) EXCEPT ![p] = v]
  BY SentinelAssumption DEF ApplyPropMods, StageProp, PropMods

\* A label staged as added is read, one staged as removed is not, whatever was staged before.
LEMMA StagedLabelApplies ==
  ASSUME NEW labels, NEW mods \in LabelMods, NEW l \in Labels
  PROVE  /\ ApplyLabelMods(labels, StageLabelAdded(mods, l)) = ApplyLabelMods(labels, mods) \cup {l}
         /\ ApplyLabelMods(labels, StageLabelRemoved(mods, l)) = ApplyLabelMods(labels, mods) \ {l}
  BY DEF ApplyLabelMods, StageLabelAdded, StageLabelRemoved, LabelMods

(***************************************************************************)
(* Ids.                                                                    *)
(***************************************************************************)

\* The ids the working graph has handed out are within the bounds, and an id at or above
\* the base count names a slot of the overlay.
LEMMA IdsInRange ==
  ASSUME OverlayTypeOK
  PROVE  /\ NextNodeId \in Nat /\ NextEdgeId \in Nat
         /\ base.nodeCount \in Nat /\ base.edgeCount \in Nat
         /\ Len(newNodes) \in Nat /\ Len(newEdges) \in Nat
         /\ AllocatedNodes \subseteq NodeIds /\ AllocatedEdges \subseteq EdgeIds
         /\ \A n \in AllocatedNodes : ~IsBaseNode(n) => NodeSlot(n) \in 1 .. Len(newNodes)
         /\ \A e \in AllocatedEdges : ~IsBaseEdge(e) => EdgeSlot(e) \in 1 .. Len(newEdges)
<1>1. /\ base.nodeCount \in Nat /\ base.edgeCount \in Nat
      /\ Len(newNodes) \in Nat /\ Len(newEdges) \in Nat
  BY BoundsAssumption, LenProperties DEF OverlayTypeOK, IsImage
<1>2. NextNodeId <= MaxNodes /\ NextEdgeId <= MaxEdges
  BY DEF OverlayTypeOK
<1>3. NextNodeId \in Nat /\ NextEdgeId \in Nat
  BY <1>1 DEF NextNodeId, NextEdgeId
<1>4. AllocatedNodes \subseteq NodeIds /\ AllocatedEdges \subseteq EdgeIds
  BY <1>2, <1>3, BoundsAssumption DEF AllocatedNodes, AllocatedEdges, NodeIds, EdgeIds
<1>5. ASSUME NEW n \in AllocatedNodes, ~IsBaseNode(n)
      PROVE  NodeSlot(n) \in 1 .. Len(newNodes)
  BY <1>1, <1>5 DEF AllocatedNodes, NextNodeId, IsBaseNode, NodeSlot
<1>6. ASSUME NEW e \in AllocatedEdges, ~IsBaseEdge(e)
      PROVE  EdgeSlot(e) \in 1 .. Len(newEdges)
  BY <1>1, <1>6 DEF AllocatedEdges, NextEdgeId, IsBaseEdge, EdgeSlot
<1> QED
  BY <1>1, <1>3, <1>4, <1>5, <1>6

\* The merged view of an allocated node is a well-typed record.
LEMMA NodeReadType ==
  ASSUME OverlayTypeOK, NEW n \in AllocatedNodes
  PROVE  NodeLabels(n) \in SUBSET Labels /\ NodeProps(n) \in PropMap
<1>1. n \in NodeIds /\ n \in Nat
  BY IdsInRange DEF NodeIds, AllocatedNodes
<1>2. CASE IsBaseNode(n)
  <2>1. n \in 0 .. base.nodeCount - 1
    BY <1>1, <1>2, IdsInRange DEF IsBaseNode
  <2>3. base.node[n] \in NodeRecord
    BY <2>1 DEF OverlayTypeOK, IsImage
  <2>2. modNodeProps[n] \in PropMods /\ modNodeLabels[n] \in LabelMods
    BY <1>1 DEF OverlayTypeOK
  <2> QED
    BY <1>2, <2>2, <2>3, ApplyModsType DEF NodeLabels, NodeProps, NodeRecord
<1>3. CASE ~IsBaseNode(n)
  <2>1. newNodes[NodeSlot(n)] \in NodeRecord
    BY <1>3, IdsInRange, ElementOfSeq DEF OverlayTypeOK
  <2> QED
    BY <1>3, <2>1 DEF NodeLabels, NodeProps, NodeRecord
<1> QED
  BY <1>2, <1>3

\* The merged view of an allocated edge is a well-typed record.
LEMMA EdgeReadType ==
  ASSUME OverlayTypeOK, NEW e \in AllocatedEdges
  PROVE  EdgeLabels(e) \in SUBSET Labels /\ EdgeProps(e) \in PropMap /\ EdgeRecordOf(e) \in EdgeRecord
<1>1. e \in EdgeIds /\ e \in Nat
  BY IdsInRange DEF EdgeIds, AllocatedEdges
<1>2. CASE IsBaseEdge(e)
  <2>1. e \in 0 .. base.edgeCount - 1
    BY <1>1, <1>2, IdsInRange DEF IsBaseEdge
  <2>3. base.edge[e] \in EdgeRecord
    BY <2>1 DEF OverlayTypeOK, IsImage
  <2>2. modEdgeProps[e] \in PropMods /\ modEdgeLabels[e] \in LabelMods
    BY <1>1 DEF OverlayTypeOK
  <2> QED
    BY <1>2, <2>2, <2>3, ApplyModsType DEF EdgeLabels, EdgeProps, EdgeRecordOf, EdgeRecord
<1>3. CASE ~IsBaseEdge(e)
  <2>1. newEdges[EdgeSlot(e)] \in EdgeRecord
    BY <1>3, IdsInRange, ElementOfSeq DEF OverlayTypeOK
  <2> QED
    BY <1>3, <2>1 DEF EdgeLabels, EdgeProps, EdgeRecordOf, EdgeRecord
<1> QED
  BY <1>2, <1>3

(***************************************************************************)
(* The operations keep the types.  Each lemma also says which ids it       *)
(* allocates, which is what its callers need to know of it.                *)
(***************************************************************************)
SameIds == NextNodeId' = NextNodeId /\ NextEdgeId' = NextEdgeId

\* An image with an empty overlay is well typed, and its ids are the base ids.
LEMMA EmptyOverlayType ==
  ASSUME IsImage(base), EmptyOverlay
  PROVE  OverlayTypeOK /\ NextNodeId = base.nodeCount /\ NextEdgeId = base.edgeCount
<1>1. base.nodeCount \in 0 .. MaxNodes /\ base.edgeCount \in 0 .. MaxEdges
  BY DEF IsImage
<1>2. NextNodeId = base.nodeCount /\ NextEdgeId = base.edgeCount
  BY <1>1, BoundsAssumption, EmptySeq DEF EmptyOverlay, NextNodeId, NextEdgeId
<1>3. NextNodeId <= MaxNodes /\ NextEdgeId <= MaxEdges
  BY <1>1, <1>2, BoundsAssumption
<1>4. newNodes \in Seq(NodeRecord) /\ newEdges \in Seq(EdgeRecord)
  BY EmptySeq DEF EmptyOverlay
<1>5. /\ modNodeProps \in [NodeIds -> PropMods] /\ modEdgeProps \in [EdgeIds -> PropMods]
      /\ modNodeLabels \in [NodeIds -> LabelMods] /\ modEdgeLabels \in [EdgeIds -> LabelMods]
  BY NoModsType DEF EmptyOverlay, Unmodified
<1>6. /\ newOutgoing \in [NodeIds -> SUBSET EdgeIds]
      /\ newIncoming \in [NodeIds -> SUBSET EdgeIds]
      /\ newUndirected \in [NodeIds -> SUBSET EdgeIds]
  BY DEF EmptyOverlay, Unmodified
<1>7. deletedNodes \subseteq AllocatedNodes /\ deletedEdges \subseteq AllocatedEdges
  BY DEF EmptyOverlay
<1> QED
  BY <1>2, <1>3, <1>4, <1>5, <1>6, <1>7 DEF OverlayTypeOK

\* A rollback leaves the base image with an empty overlay.
LEMMA ClearOverlayEmpties ==
  ASSUME ClearOverlay
  PROVE  EmptyOverlay' /\ base' = base
  BY DEF ClearOverlay, ResetOverlay, EmptyOverlay

\* A rollback keeps the types and takes the ids back to the base counts.
LEMMA ClearOverlayType ==
  ASSUME OverlayTypeOK, ClearOverlay
  PROVE  OverlayTypeOK' /\ NextNodeId' = base.nodeCount /\ NextEdgeId' = base.edgeCount
<1>1. EmptyOverlay' /\ base' = base
  BY ClearOverlayEmpties
<1>2. IsImage(base)'
  BY <1>1 DEF OverlayTypeOK
<1>3. (IsImage(base) /\ EmptyOverlay =>
         OverlayTypeOK /\ NextNodeId = base.nodeCount /\ NextEdgeId = base.edgeCount)'
  BY EmptyOverlayType, PTL
<1> QED
  BY <1>1, <1>2, <1>3

\* insert_node allocates one node id.
LEMMA PushNodeType ==
  ASSUME OverlayTypeOK, NEW l \in SUBSET Labels, NEW p \in PropMap, PushNode(l, p)
  PROVE  OverlayTypeOK' /\ NextNodeId' = NextNodeId + 1 /\ NextEdgeId' = NextEdgeId
<1>1. [labels |-> l, props |-> p] \in NodeRecord
  BY DEF NodeRecord
<1>2. newNodes' \in Seq(NodeRecord) /\ Len(newNodes') = Len(newNodes) + 1
  BY <1>1, AppendProperties DEF OverlayTypeOK, PushNode
<1>3. /\ base' = base /\ newEdges' = newEdges
      /\ deletedNodes' = deletedNodes /\ deletedEdges' = deletedEdges
  BY DEF PushNode, edgeOverlay
<1>4. NextNodeId' = NextNodeId + 1 /\ NextEdgeId' = NextEdgeId
  BY <1>2, <1>3, IdsInRange DEF NextNodeId, NextEdgeId
<1>5. NextNodeId' <= MaxNodes
  BY <1>4, IdsInRange, BoundsAssumption DEF PushNode
<1>6. deletedNodes' \subseteq AllocatedNodes' /\ deletedEdges' \subseteq AllocatedEdges'
  BY <1>3, <1>4, IdsInRange DEF OverlayTypeOK, AllocatedNodes, AllocatedEdges
<1> QED
  BY <1>2, <1>3, <1>4, <1>5, <1>6 DEF OverlayTypeOK, PushNode, edgeOverlay, edgeTopology

\* Filing an edge in an adjacency list keeps the type of the lists.
LEMMA FileUnderType ==
  ASSUME NEW adj \in [NodeIds -> SUBSET EdgeIds], NEW n \in NodeIds, NEW e \in EdgeIds
  PROVE  FileUnder(adj, n, e) \in [NodeIds -> SUBSET EdgeIds]
  BY DEF FileUnder

\* insert_edge allocates one edge id.
LEMMA PushEdgeType ==
  ASSUME OverlayTypeOK, NEW s \in AllocatedNodes, NEW t \in AllocatedNodes,
         NEW directed \in BOOLEAN, NEW l \in SUBSET Labels, NEW p \in PropMap,
         PushEdge(s, t, directed, l, p)
  PROVE  OverlayTypeOK' /\ NextEdgeId' = NextEdgeId + 1 /\ NextNodeId' = NextNodeId
<1> DEFINE r == [src |-> s, tgt |-> t, directed |-> directed, labels |-> l, props |-> p]
<1>1. s \in NodeIds /\ t \in NodeIds
  BY IdsInRange
<1>2. r \in EdgeRecord
  BY <1>1 DEF EdgeRecord
<1>3. newEdges' = Append(newEdges, r)
  BY DEF PushEdge
<1>4. newEdges' \in Seq(EdgeRecord) /\ Len(newEdges') = Len(newEdges) + 1
  BY <1>2, <1>3, AppendProperties DEF OverlayTypeOK
<1>5. /\ base' = base /\ newNodes' = newNodes
      /\ deletedNodes' = deletedNodes /\ deletedEdges' = deletedEdges
      /\ modNodeProps' = modNodeProps /\ modNodeLabels' = modNodeLabels
      /\ modEdgeProps' = modEdgeProps /\ modEdgeLabels' = modEdgeLabels
  BY DEF PushEdge, nodeOverlay
<1>6. NextEdgeId' = NextEdgeId + 1 /\ NextNodeId' = NextNodeId
  <2>1. base.edgeCount \in Nat /\ Len(newEdges) \in Nat
    BY IdsInRange
  <2>2. NextEdgeId' = base.edgeCount + (Len(newEdges) + 1)
    BY <1>4, <1>5 DEF NextEdgeId
  <2>3. NextEdgeId' = NextEdgeId + 1
    BY <2>1, <2>2 DEF NextEdgeId
  <2> QED
    BY <1>5, <2>3 DEF NextNodeId
<1>7. NextEdgeId \in EdgeIds /\ NextEdgeId' <= MaxEdges
  <2>1. NextEdgeId \in Nat /\ MaxEdges \in Nat
    BY IdsInRange, BoundsAssumption
  <2>2. NextEdgeId < MaxEdges
    BY DEF PushEdge
  <2> QED
    BY <1>6, <2>1, <2>2 DEF EdgeIds
<1>8. deletedNodes' \subseteq AllocatedNodes' /\ deletedEdges' \subseteq AllocatedEdges'
  BY <1>5, <1>6, IdsInRange DEF OverlayTypeOK, AllocatedNodes, AllocatedEdges
<1>9. /\ newOutgoing' \in [NodeIds -> SUBSET EdgeIds]
      /\ newIncoming' \in [NodeIds -> SUBSET EdgeIds]
      /\ newUndirected' \in [NodeIds -> SUBSET EdgeIds]
  <2>1. /\ newOutgoing \in [NodeIds -> SUBSET EdgeIds]
        /\ newIncoming \in [NodeIds -> SUBSET EdgeIds]
        /\ newUndirected \in [NodeIds -> SUBSET EdgeIds]
    BY DEF OverlayTypeOK
  <2>2. CASE directed
    BY <1>1, <1>7, <2>1, <2>2, FileUnderType DEF PushEdge
  <2>3. CASE ~directed
    <3>1. newUndirected' = FileUnder(FileUnder(newUndirected, s, NextEdgeId), t, NextEdgeId)
      BY <2>3 DEF PushEdge, FileUnderBoth
    <3>2. FileUnder(newUndirected, s, NextEdgeId) \in [NodeIds -> SUBSET EdgeIds]
      BY <1>1, <1>7, <2>1, FileUnderType
    <3>3. newUndirected' \in [NodeIds -> SUBSET EdgeIds]
      BY <1>1, <1>7, <3>1, <3>2, FileUnderType
    <3>4. newOutgoing' = newOutgoing /\ newIncoming' = newIncoming
      BY <2>3 DEF PushEdge
    <3> QED
      BY <2>1, <3>3, <3>4
  <2> QED
    BY <2>2, <2>3
<1> HIDE DEF r
<1> QED
  BY <1>4, <1>5, <1>6, <1>7, <1>8, <1>9 DEF OverlayTypeOK

\* A tombstone is put on an id that was handed out; no id changes.
LEMMA TombstoneType ==
  ASSUME OverlayTypeOK,
         NEW dn \in SUBSET AllocatedNodes, deletedNodes' = deletedNodes \cup dn,
         NEW de \in SUBSET AllocatedEdges, deletedEdges' = deletedEdges \cup de,
         UNCHANGED <<base, newNodes, modNodeProps, modNodeLabels,
                     newEdges, modEdgeProps, modEdgeLabels, edgeTopology>>
  PROVE  OverlayTypeOK' /\ SameIds
<1>1. SameIds
  BY DEF SameIds, NextNodeId, NextEdgeId
<1>2. AllocatedNodes' = AllocatedNodes /\ AllocatedEdges' = AllocatedEdges
  BY <1>1 DEF SameIds, AllocatedNodes, AllocatedEdges
<1>3. deletedNodes' \subseteq AllocatedNodes' /\ deletedEdges' \subseteq AllocatedEdges'
  BY <1>2 DEF OverlayTypeOK
<1> QED
  BY <1>1, <1>3 DEF OverlayTypeOK, SameIds, edgeTopology

(***************************************************************************)
(* Writes to properties and labels.                                        *)
(***************************************************************************)

\* Changing the properties or the labels of a record leaves its other fields alone.
LEMMA NodePropsUpdate ==
  ASSUME NEW r \in NodeRecord, NEW props \in PropMap
  PROVE  [r EXCEPT !.props = props] \in NodeRecord
  BY DEF NodeRecord

\* A node record stays one under a write of its labels.
LEMMA NodeLabelsUpdate ==
  ASSUME NEW r \in NodeRecord, NEW labels \in SUBSET Labels
  PROVE  [r EXCEPT !.labels = labels] \in NodeRecord
  BY DEF NodeRecord

\* An edge record stays one under a write of its properties, between the same ends.
LEMMA EdgePropsUpdate ==
  ASSUME NEW r \in EdgeRecord, NEW props \in PropMap
  PROVE  /\ [r EXCEPT !.props = props] \in EdgeRecord
         /\ [r EXCEPT !.props = props].src = r.src
         /\ [r EXCEPT !.props = props].tgt = r.tgt
         /\ [r EXCEPT !.props = props].directed = r.directed
  BY DEF EdgeRecord

\* The same for the labels of an edge.
LEMMA EdgeLabelsUpdate ==
  ASSUME NEW r \in EdgeRecord, NEW labels \in SUBSET Labels
  PROVE  /\ [r EXCEPT !.labels = labels] \in EdgeRecord
         /\ [r EXCEPT !.labels = labels].src = r.src
         /\ [r EXCEPT !.labels = labels].tgt = r.tgt
         /\ [r EXCEPT !.labels = labels].directed = r.directed
  BY DEF EdgeRecord

\* A write to the properties of a node keeps the types and allocates nothing.
LEMMA WriteNodePropsType ==
  ASSUME OverlayTypeOK, NEW n \in AllocatedNodes, NEW props \in PropMap,
         NEW mods \in PropMods, WriteNodeProps(n, props, mods)
  PROVE  OverlayTypeOK' /\ SameIds
<1>1. base' = base /\ newEdges' = newEdges
  BY DEF WriteNodeProps, edgeOverlay
<1>2. /\ newNodes' \in Seq(NodeRecord) /\ Len(newNodes') = Len(newNodes)
      /\ modNodeProps' \in [NodeIds -> PropMods]
  <2>1. newNodes \in Seq(NodeRecord) /\ modNodeProps \in [NodeIds -> PropMods]
    BY DEF OverlayTypeOK
  <2>2. CASE IsBaseNode(n)
    BY <2>1, <2>2 DEF WriteNodeProps
  <2>3. CASE ~IsBaseNode(n)
    <3>1. NodeSlot(n) \in 1 .. Len(newNodes)
      BY <2>3, IdsInRange
    <3>2. [newNodes[NodeSlot(n)] EXCEPT !.props = props] \in NodeRecord
      <4>1. newNodes[NodeSlot(n)] \in NodeRecord
        BY <2>1, <3>1, ElementOfSeq
      <4> QED
        BY <4>1, NodePropsUpdate
    <3>3. newNodes' = [newNodes EXCEPT ![NodeSlot(n)] =
                         [newNodes[NodeSlot(n)] EXCEPT !.props = props]]
      BY <2>3 DEF WriteNodeProps
    <3> QED
      BY <2>1, <2>3, <3>1, <3>2, <3>3, ExceptSeq DEF WriteNodeProps
  <2> QED
    BY <2>2, <2>3
<1>3. SameIds
  BY <1>1, <1>2 DEF SameIds, NextNodeId, NextEdgeId
<1>4. AllocatedNodes' = AllocatedNodes /\ AllocatedEdges' = AllocatedEdges
  BY <1>3 DEF SameIds, AllocatedNodes, AllocatedEdges
<1> QED
  BY <1>1, <1>2, <1>3, <1>4
  DEF OverlayTypeOK, SameIds, WriteNodeProps, edgeOverlay, edgeTopology

\* A write to the labels of a node keeps the types and allocates nothing.
LEMMA WriteNodeLabelsType ==
  ASSUME OverlayTypeOK, NEW n \in AllocatedNodes, NEW labels \in SUBSET Labels,
         NEW mods \in LabelMods, WriteNodeLabels(n, labels, mods)
  PROVE  OverlayTypeOK' /\ SameIds
<1>1. base' = base /\ newEdges' = newEdges
  BY DEF WriteNodeLabels, edgeOverlay
<1>2. /\ newNodes' \in Seq(NodeRecord) /\ Len(newNodes') = Len(newNodes)
      /\ modNodeLabels' \in [NodeIds -> LabelMods]
  <2>1. newNodes \in Seq(NodeRecord) /\ modNodeLabels \in [NodeIds -> LabelMods]
    BY DEF OverlayTypeOK
  <2>2. CASE IsBaseNode(n)
    BY <2>1, <2>2 DEF WriteNodeLabels
  <2>3. CASE ~IsBaseNode(n)
    <3>1. NodeSlot(n) \in 1 .. Len(newNodes)
      BY <2>3, IdsInRange
    <3>2. [newNodes[NodeSlot(n)] EXCEPT !.labels = labels] \in NodeRecord
      <4>1. newNodes[NodeSlot(n)] \in NodeRecord
        BY <2>1, <3>1, ElementOfSeq
      <4> QED
        BY <4>1, NodeLabelsUpdate
    <3>3. newNodes' = [newNodes EXCEPT ![NodeSlot(n)] =
                         [newNodes[NodeSlot(n)] EXCEPT !.labels = labels]]
      BY <2>3 DEF WriteNodeLabels
    <3> QED
      BY <2>1, <2>3, <3>1, <3>2, <3>3, ExceptSeq DEF WriteNodeLabels
  <2> QED
    BY <2>2, <2>3
<1>3. SameIds
  BY <1>1, <1>2 DEF SameIds, NextNodeId, NextEdgeId
<1>4. AllocatedNodes' = AllocatedNodes /\ AllocatedEdges' = AllocatedEdges
  BY <1>3 DEF SameIds, AllocatedNodes, AllocatedEdges
<1> QED
  BY <1>1, <1>2, <1>3, <1>4
  DEF OverlayTypeOK, SameIds, WriteNodeLabels, edgeOverlay, edgeTopology

\* The overlay edges keep their endpoints and direction.
SameEndpoints ==
  /\ Len(newEdges') = Len(newEdges)
  /\ \A k \in 1 .. Len(newEdges) : /\ newEdges'[k].src = newEdges[k].src
                                  /\ newEdges'[k].tgt = newEdges[k].tgt
                                  /\ newEdges'[k].directed = newEdges[k].directed

\* Replacing one overlay edge by one with the same endpoints keeps them all.
LEMMA ReplaceEdge ==
  ASSUME newEdges \in Seq(EdgeRecord), NEW k \in 1 .. Len(newEdges), NEW r \in EdgeRecord,
         r.src = newEdges[k].src, r.tgt = newEdges[k].tgt, r.directed = newEdges[k].directed,
         newEdges' = [newEdges EXCEPT ![k] = r]
  PROVE  newEdges' \in Seq(EdgeRecord) /\ SameEndpoints
<1>1. newEdges' \in Seq(EdgeRecord) /\ Len(newEdges') = Len(newEdges)
  BY ExceptSeq
<1>2. \A j \in 1 .. Len(newEdges) : newEdges'[j] = IF j = k THEN r ELSE newEdges[j]
  BY ExceptSeq
<1> QED
  BY <1>1, <1>2 DEF SameEndpoints

\* A write to the properties of an edge keeps the types and every endpoint.
LEMMA WriteEdgePropsType ==
  ASSUME OverlayTypeOK, NEW e \in AllocatedEdges, NEW props \in PropMap,
         NEW mods \in PropMods, WriteEdgeProps(e, props, mods)
  PROVE  OverlayTypeOK' /\ SameIds /\ SameEndpoints
<1>1. base' = base /\ newNodes' = newNodes
  BY DEF WriteEdgeProps, nodeOverlay
<1>2. /\ newEdges' \in Seq(EdgeRecord) /\ SameEndpoints
      /\ modEdgeProps' \in [EdgeIds -> PropMods]
  <2>1. newEdges \in Seq(EdgeRecord) /\ modEdgeProps \in [EdgeIds -> PropMods]
    BY DEF OverlayTypeOK
  <2>2. CASE IsBaseEdge(e)
    BY <2>1, <2>2 DEF WriteEdgeProps, SameEndpoints
  <2>3. CASE ~IsBaseEdge(e)
    <3> DEFINE old == newEdges[EdgeSlot(e)]
               new == [old EXCEPT !.props = props]
    <3>1. EdgeSlot(e) \in 1 .. Len(newEdges)
      BY <2>3, IdsInRange
    <3>2. old \in EdgeRecord
      BY <2>1, <3>1, ElementOfSeq
    <3>3. /\ new \in EdgeRecord /\ new.src = old.src /\ new.tgt = old.tgt
          /\ new.directed = old.directed
      BY <3>2, EdgePropsUpdate
    <3>4. newEdges' = [newEdges EXCEPT ![EdgeSlot(e)] = new] /\ modEdgeProps' = modEdgeProps
      BY <2>3 DEF WriteEdgeProps
    <3> HIDE DEF new
    <3> QED
      BY <2>1, <3>1, <3>3, <3>4, ReplaceEdge
  <2> QED
    BY <2>2, <2>3
<1>3. SameIds
  BY <1>1, <1>2 DEF SameIds, NextNodeId, NextEdgeId, SameEndpoints
<1>4. AllocatedNodes' = AllocatedNodes /\ AllocatedEdges' = AllocatedEdges
  BY <1>3 DEF SameIds, AllocatedNodes, AllocatedEdges
<1> QED
  BY <1>1, <1>2, <1>3, <1>4
  DEF OverlayTypeOK, SameIds, WriteEdgeProps, nodeOverlay, edgeTopology

\* A write to the labels of an edge keeps the types and every endpoint.
LEMMA WriteEdgeLabelsType ==
  ASSUME OverlayTypeOK, NEW e \in AllocatedEdges, NEW labels \in SUBSET Labels,
         NEW mods \in LabelMods, WriteEdgeLabels(e, labels, mods)
  PROVE  OverlayTypeOK' /\ SameIds /\ SameEndpoints
<1>1. base' = base /\ newNodes' = newNodes
  BY DEF WriteEdgeLabels, nodeOverlay
<1>2. /\ newEdges' \in Seq(EdgeRecord) /\ SameEndpoints
      /\ modEdgeLabels' \in [EdgeIds -> LabelMods]
  <2>1. newEdges \in Seq(EdgeRecord) /\ modEdgeLabels \in [EdgeIds -> LabelMods]
    BY DEF OverlayTypeOK
  <2>2. CASE IsBaseEdge(e)
    BY <2>1, <2>2 DEF WriteEdgeLabels, SameEndpoints
  <2>3. CASE ~IsBaseEdge(e)
    <3> DEFINE old == newEdges[EdgeSlot(e)]
               new == [old EXCEPT !.labels = labels]
    <3>1. EdgeSlot(e) \in 1 .. Len(newEdges)
      BY <2>3, IdsInRange
    <3>2. old \in EdgeRecord
      BY <2>1, <3>1, ElementOfSeq
    <3>3. /\ new \in EdgeRecord /\ new.src = old.src /\ new.tgt = old.tgt
          /\ new.directed = old.directed
      BY <3>2, EdgeLabelsUpdate
    <3>4. newEdges' = [newEdges EXCEPT ![EdgeSlot(e)] = new] /\ modEdgeLabels' = modEdgeLabels
      BY <2>3 DEF WriteEdgeLabels
    <3> HIDE DEF new
    <3> QED
      BY <2>1, <3>1, <3>3, <3>4, ReplaceEdge
  <2> QED
    BY <2>2, <2>3
<1>3. SameIds
  BY <1>1, <1>2 DEF SameIds, NextNodeId, NextEdgeId, SameEndpoints
<1>4. AllocatedNodes' = AllocatedNodes /\ AllocatedEdges' = AllocatedEdges
  BY <1>3 DEF SameIds, AllocatedNodes, AllocatedEdges
<1> QED
  BY <1>1, <1>2, <1>3, <1>4
  DEF OverlayTypeOK, SameIds, WriteEdgeLabels, nodeOverlay, edgeTopology

(***************************************************************************)
(* The adjacency lists, for callers that keep no more of them than this.   *)
(***************************************************************************)

\* The lists of the overlay name edges that were allocated.
ListsAllocated ==
  /\ newOutgoing \in [NodeIds -> SUBSET AllocatedEdges]
  /\ newIncoming \in [NodeIds -> SUBSET AllocatedEdges]
  /\ newUndirected \in [NodeIds -> SUBSET AllocatedEdges]

\* So the incident edges of a node were allocated, and can be deleted with it.
LEMMA IncidentAreAllocated ==
  ASSUME OverlayTypeOK, ListsAllocated, NEW n \in AllocatedNodes
  PROVE  IncidentEdges(n) \in SUBSET AllocatedEdges
<1>1. NextEdgeId \in Nat /\ base.edgeCount \in Nat /\ Len(newEdges) \in Nat /\ n \in NodeIds
  BY IdsInRange
<1>2. BaseEdges \subseteq AllocatedEdges
  BY <1>1 DEF BaseEdges, AllocatedEdges, NextEdgeId
<1>3. /\ newOutgoing[n] \in SUBSET AllocatedEdges /\ newIncoming[n] \in SUBSET AllocatedEdges
      /\ newUndirected[n] \in SUBSET AllocatedEdges
  BY <1>1 DEF ListsAllocated
<1> QED
  BY <1>2, <1>3 DEF IncidentEdges, OutgoingEdges, IncomingEdges, UndirectedEdgesOf
=============================================================================
