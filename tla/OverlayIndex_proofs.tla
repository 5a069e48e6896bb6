------------------------- MODULE OverlayIndex_proofs -------------------------
(***************************************************************************)
(* The secondary indexes under writes, for every image, every set of       *)
(* indexes and a log of any length.                                        *)
(*                                                                         *)
(* A node that is not in the log is as the image has it.  A node in the    *)
(* part of the log the delta has absorbed, and not after it, is filed      *)
(* under what is read of it now.  The base hits that are not shadowed are  *)
(* the first, the delta's are the second.                                  *)
(***************************************************************************)
EXTENDS OverlayIndex, Overlay_proofs

Touched == {log[k] : k \in 1 .. Len(log)}
AbsorbedNodes == {log[k] : k \in 1 .. delta.absorbed}

\* What the image itself would be filed under.
BaseFilings(i) ==
  {<<base.node[n].props[i[2]], n>> :
      n \in {m \in 0 .. base.nodeCount - 1 :
               i[1] \in base.node[m].labels /\ base.node[m].props[i[2]] \in Keyable}}

\* The log names every node that is not as the image has it.
AsInImage(n) ==
  /\ IsBaseNode(n) /\ n \notin deletedNodes
  /\ modNodeProps[n] = NoPropMods /\ modNodeLabels[n] = NoLabelMods
LogIsComplete ==
  /\ log \in Seq(Nat) /\ Touched \subseteq AllocatedNodes
  /\ \A n \in AllocatedNodes : n \notin Touched => AsInImage(n)

\* An index made when nothing was logged is an index of the image.
Established == DOMAIN secondary \ midSession
BaseIsIndexed == \A i \in Established : i \in Indexes /\ secondary[i] = BaseFilings(i)

FiledUnder(d, i, key, n) == \E f \in d.filed : f[1] = <<i[1], i[2]>> /\ f[2] = key /\ f[3] = n
ReadsAs(i, key, n) == n \in LiveNodes /\ i[1] \in NodeLabels(n) /\ NodeProps(n)[i[2]] = key

\* d describes the nodes S, and those of them not in late as they read now.
Describes(d, S, late) ==
  /\ d.shadowed = {n \in S : IsBaseNode(n)}
  /\ \A f \in d.filed : f[3] \in S
  /\ \A i \in Established, key \in Keyable, n \in S \ late : FiledUnder(d, i, key, n) <=> ReadsAs(i, key, n)

DeltaIsSettled ==
  ~lagging =>
    /\ delta.absorbed \in 0 .. Len(log)
    /\ Describes(delta, AbsorbedNodes, Pending)
    /\ delta.absorbed = Len(log) /\ delta.absorbed > 0 => Witness = delta.witness

IndexInv == OverlayTypeOK /\ ListsAllocated /\ LogIsComplete /\ BaseIsIndexed /\ DeltaIsSettled

(***************************************************************************)
(* A lookup.                                                               *)
(***************************************************************************)

\* A node that is as the image has it reads as the image's record.
LEMMA ReadsAsImage ==
  ASSUME OverlayTypeOK, NEW n \in AllocatedNodes, AsInImage(n)
  PROVE  /\ n \in 0 .. base.nodeCount - 1 /\ n \in LiveNodes
         /\ NodeLabels(n) = base.node[n].labels /\ NodeProps(n) = base.node[n].props
<1>1. n \in Nat /\ n \in NodeIds /\ base.nodeCount \in Nat
  BY IdsInRange DEF AllocatedNodes
<1>2. n \in 0 .. base.nodeCount - 1 /\ n \in LiveNodes
  BY <1>1 DEF AsInImage, IsBaseNode, LiveNodes
<1>3. base.node[n] \in NodeRecord
  BY <1>2 DEF OverlayTypeOK, IsImage
<1>4. PICK r \in NodeRecord : r = base.node[n]
  BY <1>3
<1>5. r.props \in PropMap
  BY <1>4 DEF NodeRecord
<1>6. ApplyPropMods(r.props, NoPropMods) = r.props
  BY <1>5 DEF ApplyPropMods, NoPropMods, PropMap
<1>7. ApplyLabelMods(r.labels, NoLabelMods) = r.labels
  BY DEF ApplyLabelMods, NoLabelMods
<1> QED
  BY <1>2, <1>4, <1>6, <1>7 DEF AsInImage, NodeLabels, NodeProps

\* The log up to what is absorbed, and after it.
LEMMA LogParts ==
  ASSUME log \in Seq(Nat), delta.absorbed \in 0 .. Len(log)
  PROVE  Touched = AbsorbedNodes \cup Pending
<1>1. Len(log) \in Nat
  OBVIOUS
<1>2. 1 .. Len(log) = (1 .. delta.absorbed) \cup (delta.absorbed + 1 .. Len(log))
  BY <1>1
<1> QED
  BY <1>2 DEF Touched, AbsorbedNodes, Pending

\* When no rollback has gone unnoticed the delta a lookup makes describes every touched node as
\* it reads now, and is trusted.
LEMMA SyncDescribes ==
  ASSUME IndexInv, ~lagging
  PROVE  /\ SyncedDelta = Absorbed /\ Trusted /\ ~OverlayWasReset
         /\ Describes(Absorbed, Touched, {})
<1>1. /\ delta.absorbed \in 0 .. Len(log) /\ Describes(delta, AbsorbedNodes, Pending)
      /\ delta.absorbed = Len(log) /\ delta.absorbed > 0 => Witness = delta.witness
  BY DEF IndexInv, DeltaIsSettled
<1>2. log \in Seq(Nat) /\ Len(log) \in Nat
  BY DEF IndexInv, LogIsComplete
<1>3. ~OverlayWasReset /\ ~WitnessDisagrees
  BY <1>1, <1>2 DEF OverlayWasReset, WitnessDisagrees
<1>4. SyncedDelta = Absorbed /\ Trusted
  BY <1>3 DEF SyncedDelta, Trusted
<1>5. Touched = AbsorbedNodes \cup Pending
  BY <1>1, <1>2, LogParts
<1>6. Absorbed.shadowed = {n \in Touched : IsBaseNode(n)}
  BY <1>1, <1>5 DEF Absorbed, Describes
<1>7. \A f \in Absorbed.filed : (f \in delta.filed /\ f[3] \notin Pending) \/ f \in Refiled
  BY DEF Absorbed
<1>8. ASSUME NEW f
      PROVE  f \in Refiled <=>
               \E n \in Pending \cap LiveNodes, pair \in IndexedPairs :
                 /\ pair[1] \in NodeLabels(n) /\ NodeProps(n)[pair[2]] \in Keyable
                 /\ f = <<pair, NodeProps(n)[pair[2]], n>>
  BY DEF Refiled
<1>9. \A f \in Absorbed.filed : f[3] \in Touched
  BY <1>1, <1>5, <1>7, <1>8 DEF Describes
<1>10. ASSUME NEW i \in Established, NEW key \in Keyable, NEW n \in Touched
       PROVE  FiledUnder(Absorbed, i, key, n) <=> ReadsAs(i, key, n)
  <2>1. i \in Indexes /\ <<i[1], i[2]>> \in IndexedPairs
    BY DEF IndexInv, BaseIsIndexed, Established, IndexedPairs
  <2>2. CASE n \in Pending
    <3>1. ASSUME NEW f \in Absorbed.filed, f[1] = <<i[1], i[2]>>, f[2] = key, f[3] = n
          PROVE  ReadsAs(i, key, n)
      <4>1. f \in Refiled
        BY <1>7, <2>2, <3>1
      <4>2. PICK m \in Pending \cap LiveNodes, pair \in IndexedPairs :
              /\ pair[1] \in NodeLabels(m) /\ NodeProps(m)[pair[2]] \in Keyable
              /\ f = <<pair, NodeProps(m)[pair[2]], m>>
        BY <1>8, <4>1
      <4>3. m = n /\ pair = <<i[1], i[2]>> /\ NodeProps(m)[pair[2]] = key
        BY <3>1, <4>2
      <4> QED
        BY <4>2, <4>3 DEF ReadsAs
    <3>2. ASSUME ReadsAs(i, key, n) PROVE FiledUnder(Absorbed, i, key, n)
      <4>1. PICK pair \in IndexedPairs : pair = <<i[1], i[2]>>
        BY <2>1
      <4>2. PICK f : f = <<pair, NodeProps(n)[pair[2]], n>>
        OBVIOUS
      <4>3. n \in Pending \cap LiveNodes /\ pair[1] \in NodeLabels(n) /\ NodeProps(n)[pair[2]] = key
        BY <2>2, <3>2, <4>1 DEF ReadsAs
      <4>4. f \in Refiled
        BY <1>8, <4>2, <4>3
      <4>5. f[1] = <<i[1], i[2]>> /\ f[2] = key /\ f[3] = n
        BY <4>1, <4>2, <4>3
      <4> QED
        BY <4>4, <4>5 DEF Absorbed, FiledUnder
    <3> QED
      BY <3>1, <3>2 DEF FiledUnder
  <2>3. CASE n \notin Pending
    <3>1. FiledUnder(delta, i, key, n) <=> ReadsAs(i, key, n)
      BY <1>1, <1>5, <2>3 DEF Describes
    <3>2. \A f : f[3] = n => (f \in Absorbed.filed <=> f \in delta.filed)
      <4>1. \A f \in Refiled : f[3] \in Pending
        BY <1>8
      <4> QED
        BY <2>3, <4>1 DEF Absorbed
    <3> QED
      BY <3>1, <3>2 DEF FiledUnder
  <2> QED
    BY <2>2, <2>3
<1> QED
  BY <1>3, <1>4, <1>6, <1>9, <1>10 DEF Describes

\* What a lookup would answer now is what a scan finds, each node once.
LEMMA LookupIsExact ==
  ASSUME IndexInv, ~lagging, NEW i \in Established, NEW key \in Keyable
  PROVE  AnswerIsExact(i, key)
<1>1. OverlayTypeOK /\ LogIsComplete /\ i \in Indexes /\ secondary[i] = BaseFilings(i)
  BY DEF IndexInv, BaseIsIndexed
<1>2. SyncedDelta = Absorbed /\ Describes(Absorbed, Touched, {})
  BY SyncDescribes
<1>3. ASSUME NEW n
      PROVE  n \in DeltaHits(i, key) <=> n \in Touched /\ ReadsAs(i, key, n)
  <2>1. n \in DeltaHits(i, key) <=> FiledUnder(Absorbed, i, key, n)
    BY <1>2 DEF DeltaHits, FiledUnder
  <2>2. FiledUnder(Absorbed, i, key, n) => n \in Touched
    BY <1>2 DEF Describes, FiledUnder
  <2>3. n \in Touched => (FiledUnder(Absorbed, i, key, n) <=> ReadsAs(i, key, n))
    BY <1>2 DEF Describes
  <2> QED
    BY <2>1, <2>2, <2>3
<1>4. ASSUME NEW n
      PROVE  n \in SurvivingBase(i, key)
               <=> /\ n \in 0 .. base.nodeCount - 1 /\ n \notin deletedNodes /\ n \notin Touched
                   /\ i[1] \in base.node[n].labels /\ base.node[n].props[i[2]] = key
  <2>1. (\E h \in secondary[i] : h[1] = key /\ h[2] = n)
          <=> /\ n \in 0 .. base.nodeCount - 1
              /\ i[1] \in base.node[n].labels /\ base.node[n].props[i[2]] = key
    <3> DEFINE filed == {m \in 0 .. base.nodeCount - 1 :
                           i[1] \in base.node[m].labels /\ base.node[m].props[i[2]] \in Keyable}
    <3>0. secondary[i] = {<<base.node[m].props[i[2]], m>> : m \in filed}
      BY <1>1 DEF BaseFilings
    <3>1. ASSUME NEW h \in secondary[i], h[1] = key, h[2] = n
          PROVE  n \in filed /\ base.node[n].props[i[2]] = key
      <4>1. PICK m \in filed : h = <<base.node[m].props[i[2]], m>>
        BY <3>0
      <4>2. h[1] = base.node[m].props[i[2]] /\ h[2] = m
        BY <4>1
      <4> QED
        BY <3>1, <4>2
    <3>2. ASSUME n \in filed, base.node[n].props[i[2]] = key
          PROVE  \E h \in secondary[i] : h[1] = key /\ h[2] = n
      <4>1. PICK h : h = <<base.node[n].props[i[2]], n>>
        OBVIOUS
      <4>2. h \in secondary[i] /\ h[1] = key /\ h[2] = n
        BY <3>0, <3>2, <4>1
      <4> QED
        BY <4>2
    <3> QED
      BY <3>1, <3>2
  <2>2. n \in SurvivingBase(i, key)
          <=> (\E h \in secondary[i] : h[1] = key /\ h[2] = n) /\ n \notin deletedNodes /\ n \notin Absorbed.shadowed
    BY <1>2 DEF SurvivingBase
  <2>3. n \in 0 .. base.nodeCount - 1 => IsBaseNode(n)
    BY <1>1, IdsInRange DEF IsBaseNode
  <2>4. n \in 0 .. base.nodeCount - 1 => (n \in Absorbed.shadowed <=> n \in Touched)
    BY <1>2, <2>3 DEF Describes
  <2> QED
    BY <2>1, <2>2, <2>4
<1>5. ASSUME NEW n
      PROVE  n \in SurvivingBase(i, key) <=> n \notin Touched /\ ReadsAs(i, key, n)
  <2>1. base.nodeCount \in Nat /\ NextNodeId \in Nat /\ base.nodeCount <= NextNodeId
    BY <1>1, IdsInRange DEF NextNodeId
  <2>2. n \in 0 .. base.nodeCount - 1 => n \in AllocatedNodes
    BY <2>1 DEF AllocatedNodes
  <2>3. n \in AllocatedNodes /\ n \notin Touched =>
          /\ n \in 0 .. base.nodeCount - 1 /\ n \in LiveNodes
          /\ NodeLabels(n) = base.node[n].labels /\ NodeProps(n) = base.node[n].props
    BY <1>1, ReadsAsImage DEF LogIsComplete
  <2> QED
    BY <1>4, <2>2, <2>3 DEF ReadsAs, LiveNodes
<1>6. \A n : n \in Scan(i, key) <=> ReadsAs(i, key, n)
  BY DEF Scan, ReadsAs
<1> QED
  BY <1>3, <1>5, <1>6 DEF AnswerIsExact

(***************************************************************************)
(* Writes.                                                                 *)
(***************************************************************************)

\* What a write to node n leaves alone.
OnlyTouches(n) ==
  /\ base' = base
  /\ AllocatedNodes' = AllocatedNodes \cup {n}
  /\ \A m \in AllocatedNodes : m # n =>
       /\ m \in deletedNodes' <=> m \in deletedNodes
       /\ NodeLabels(m)' = NodeLabels(m) /\ NodeProps(m)' = NodeProps(m)
       /\ modNodeProps'[m] = modNodeProps[m] /\ modNodeLabels'[m] = modNodeLabels[m]

\* A new node takes an id of its own, and nothing else of any node changes.
LEMMA PushTouches ==
  ASSUME OverlayTypeOK, ListsAllocated, NEW l \in SUBSET Labels, NEW p \in PropMap, PushNode(l, p)
  PROVE  OverlayTypeOK' /\ ListsAllocated' /\ OnlyTouches(NextNodeId)
<1>1. OverlayTypeOK' /\ NextNodeId' = NextNodeId + 1 /\ NextEdgeId' = NextEdgeId
  BY PushNodeType
<1>2. UNCHANGED <<base, deletedNodes, modNodeProps, modNodeLabels>> /\ UNCHANGED edgeTopology
  BY DEF PushNode, edgeOverlay
<1>3. ListsAllocated'
  BY <1>1, <1>2 DEF ListsAllocated, AllocatedEdges, edgeTopology
<1>4. AllocatedNodes' = AllocatedNodes \cup {NextNodeId}
  BY <1>1, IdsInRange DEF AllocatedNodes
<1>5. \A k \in 1 .. Len(newNodes) : newNodes'[k] = newNodes[k]
  <2> DEFINE r == [labels |-> l, props |-> p]
  <2>1. newNodes' = Append(newNodes, r) /\ r \in NodeRecord /\ newNodes \in Seq(NodeRecord)
    BY DEF PushNode, NodeRecord, OverlayTypeOK
  <2> HIDE DEF r
  <2> QED
    BY <2>1, AppendProperties
<1>6. ASSUME NEW m \in AllocatedNodes
      PROVE  NodeLabels(m)' = NodeLabels(m) /\ NodeProps(m)' = NodeProps(m)
  <2>1. CASE IsBaseNode(m)
    BY <1>2, <2>1 DEF NodeLabels, NodeProps, IsBaseNode, ApplyLabelMods, ApplyPropMods
  <2>2. CASE ~IsBaseNode(m)
    <3>1. NodeSlot(m) \in 1 .. Len(newNodes) /\ NodeSlot(m)' = NodeSlot(m) /\ ~IsBaseNode(m)'
      BY <1>2, <2>2, IdsInRange DEF NodeSlot, IsBaseNode
    <3> QED
      BY <1>5, <2>2, <3>1 DEF NodeLabels, NodeProps
  <2> QED
    BY <2>1, <2>2
<1> QED
  BY <1>1, <1>2, <1>3, <1>4, <1>6 DEF OnlyTouches

\* A write to the record or the modifications of one node.
LEMMA RecordTouches ==
  ASSUME OverlayTypeOK, ListsAllocated, OverlayTypeOK', SameIds, NEW n \in AllocatedNodes,
         UNCHANGED <<base, deletedNodes, edgeTopology>>,
         Len(newNodes') = Len(newNodes),
         \A k \in 1 .. Len(newNodes) : k # NodeSlot(n) \/ IsBaseNode(n) => newNodes'[k] = newNodes[k],
         \A m \in NodeIds : m # n => /\ modNodeProps'[m] = modNodeProps[m]
                                     /\ modNodeLabels'[m] = modNodeLabels[m]
  PROVE  ListsAllocated' /\ OnlyTouches(n)
<1>1. AllocatedNodes' = AllocatedNodes /\ AllocatedEdges' = AllocatedEdges
  BY DEF SameIds, AllocatedNodes, AllocatedEdges
<1>2. ListsAllocated'
  BY <1>1 DEF ListsAllocated, edgeTopology
<1>3. ASSUME NEW m \in AllocatedNodes, m # n
      PROVE  /\ NodeLabels(m)' = NodeLabels(m) /\ NodeProps(m)' = NodeProps(m)
             /\ modNodeProps'[m] = modNodeProps[m] /\ modNodeLabels'[m] = modNodeLabels[m]
  <2>0. m \in NodeIds /\ m \in Nat /\ n \in Nat /\ base.nodeCount \in Nat
    BY IdsInRange DEF AllocatedNodes
  <2>1. CASE IsBaseNode(m)
    BY <1>3, <2>0, <2>1 DEF NodeLabels, NodeProps, IsBaseNode, ApplyLabelMods, ApplyPropMods
  <2>2. CASE ~IsBaseNode(m)
    <3>1. NodeSlot(m) \in 1 .. Len(newNodes) /\ NodeSlot(m)' = NodeSlot(m) /\ ~IsBaseNode(m)'
      BY <2>2, IdsInRange DEF NodeSlot, IsBaseNode
    <3>2. NodeSlot(m) # NodeSlot(n)
      BY <1>3, <2>0 DEF NodeSlot
    <3> QED
      BY <1>3, <2>0, <2>2, <3>1, <3>2 DEF NodeLabels, NodeProps
  <2> QED
    BY <2>1, <2>2
<1> QED
  BY <1>1, <1>2, <1>3 DEF OnlyTouches

\* A write of properties changes what is read of its node only.
LEMMA WritePropsTouches ==
  ASSUME OverlayTypeOK, ListsAllocated, NEW n \in AllocatedNodes, NEW props \in PropMap, NEW mods \in PropMods,
         WriteNodeProps(n, props, mods)
  PROVE  OverlayTypeOK' /\ ListsAllocated' /\ OnlyTouches(n)
<1>1. OverlayTypeOK' /\ SameIds
  BY WriteNodePropsType
<1>2. UNCHANGED <<base, deletedNodes, modNodeLabels, edgeTopology>>
  BY DEF WriteNodeProps, edgeOverlay
<1>3. newNodes \in Seq(NodeRecord) /\ modNodeProps \in [NodeIds -> PropMods]
  BY DEF OverlayTypeOK
<1>4. CASE IsBaseNode(n)
  <2>1. newNodes' = newNodes /\ modNodeProps' = [modNodeProps EXCEPT ![n] = mods]
    BY <1>4 DEF WriteNodeProps
  <2> QED
    BY <1>1, <1>2, <1>3, <2>1, RecordTouches
<1>5. CASE ~IsBaseNode(n)
  <2>1. newNodes' = [newNodes EXCEPT ![NodeSlot(n)].props = props] /\ modNodeProps' = modNodeProps
    BY <1>5 DEF WriteNodeProps
  <2>2. Len(newNodes') = Len(newNodes)
        /\ \A k \in 1 .. Len(newNodes) : k # NodeSlot(n) => newNodes'[k] = newNodes[k]
    BY <1>3, <2>1
  <2> QED
    BY <1>1, <1>2, <1>5, <2>1, <2>2, RecordTouches
<1> QED
  BY <1>4, <1>5

\* A write of labels changes what is read of its node only.
LEMMA WriteLabelsTouches ==
  ASSUME OverlayTypeOK, ListsAllocated, NEW n \in AllocatedNodes, NEW labels \in SUBSET Labels,
         NEW mods \in LabelMods, WriteNodeLabels(n, labels, mods)
  PROVE  OverlayTypeOK' /\ ListsAllocated' /\ OnlyTouches(n)
<1>1. OverlayTypeOK' /\ SameIds
  BY WriteNodeLabelsType
<1>2. UNCHANGED <<base, deletedNodes, modNodeProps, edgeTopology>>
  BY DEF WriteNodeLabels, edgeOverlay
<1>3. newNodes \in Seq(NodeRecord) /\ modNodeLabels \in [NodeIds -> LabelMods]
  BY DEF OverlayTypeOK
<1>4. CASE IsBaseNode(n)
  <2>1. newNodes' = newNodes /\ modNodeLabels' = [modNodeLabels EXCEPT ![n] = mods]
    BY <1>4 DEF WriteNodeLabels
  <2> QED
    BY <1>1, <1>2, <1>3, <2>1, RecordTouches
<1>5. CASE ~IsBaseNode(n)
  <2>1. newNodes' = [newNodes EXCEPT ![NodeSlot(n)].labels = labels] /\ modNodeLabels' = modNodeLabels
    BY <1>5 DEF WriteNodeLabels
  <2>2. Len(newNodes') = Len(newNodes)
        /\ \A k \in 1 .. Len(newNodes) : k # NodeSlot(n) => newNodes'[k] = newNodes[k]
    BY <1>3, <2>1
  <2> QED
    BY <1>1, <1>2, <1>5, <2>1, <2>2, RecordTouches
<1> QED
  BY <1>4, <1>5

\* A deletion of a node changes no other.
LEMMA DeleteTouches ==
  ASSUME OverlayTypeOK, ListsAllocated, NEW n \in AllocatedNodes, DetachDeleteNode(n) \/ DeleteNodeNoDetach(n)
  PROVE  OverlayTypeOK' /\ ListsAllocated' /\ OnlyTouches(n)
<1>1. PICK de \in SUBSET AllocatedEdges : deletedEdges' = deletedEdges \cup de
  <2>1. IncidentEdges(n) \in SUBSET AllocatedEdges /\ {} \in SUBSET AllocatedEdges
    BY IncidentAreAllocated
  <2>2. deletedEdges' = deletedEdges \cup IncidentEdges(n) \/ deletedEdges' = deletedEdges \cup {}
    BY DEF DetachDeleteNode, DeleteNodeNoDetach, edgeOverlay
  <2> QED
    BY <2>1, <2>2
<1>2. /\ deletedNodes' = deletedNodes \cup {n}
      /\ UNCHANGED <<base, newNodes, modNodeProps, modNodeLabels,
                     newEdges, modEdgeProps, modEdgeLabels, edgeTopology>>
  BY DEF DetachDeleteNode, DeleteNodeNoDetach, edgeOverlay
<1>3. {n} \in SUBSET AllocatedNodes
  OBVIOUS
<1>4. OverlayTypeOK' /\ SameIds
  BY <1>1, <1>2, <1>3, TombstoneType
<1>5. AllocatedNodes' = AllocatedNodes /\ AllocatedEdges' = AllocatedEdges
  BY <1>4 DEF SameIds, AllocatedNodes, AllocatedEdges
<1>6. ListsAllocated'
  BY <1>2, <1>5 DEF ListsAllocated, edgeTopology
<1>7. \A m : NodeLabels(m)' = NodeLabels(m) /\ NodeProps(m)' = NodeProps(m)
  BY <1>2 DEF NodeLabels, NodeProps, IsBaseNode, NodeSlot, ApplyLabelMods, ApplyPropMods
<1> QED
  BY <1>2, <1>4, <1>5, <1>6, <1>7 DEF OnlyTouches

\* A SET or REMOVE on a node.
LEMMA UpdateTouches ==
  ASSUME OverlayTypeOK, ListsAllocated, NEW n \in AllocatedNodes, UpdateNode(n)
  PROVE  OverlayTypeOK' /\ ListsAllocated' /\ OnlyTouches(n)
<1>1. /\ NodeLabels(n) \in SUBSET Labels /\ NodeProps(n) \in PropMap /\ n \in NodeIds
      /\ modNodeProps[n] \in PropMods /\ modNodeLabels[n] \in LabelMods
  BY NodeReadType, IdsInRange DEF OverlayTypeOK
<1>2. ASSUME NEW p \in Props, NEW v \in Values \cup {Absent}, SetNodeProp(n, p, v)
      PROVE  OverlayTypeOK' /\ ListsAllocated' /\ OnlyTouches(n)
  <2>1. [NodeProps(n) EXCEPT ![p] = v] \in PropMap /\ StageProp(modNodeProps[n], p, v) \in PropMods
    BY <1>1, StagePropType DEF PropMap
  <2> QED
    BY <1>2, <2>1, WritePropsTouches DEF SetNodeProp
<1>3. ASSUME NEW m \in PropMap, ReplaceNodeProps(n, m)
      PROVE  OverlayTypeOK' /\ ListsAllocated' /\ OnlyTouches(n)
  BY <1>3, StageReplaceType, WritePropsTouches DEF ReplaceNodeProps
<1>4. ASSUME NEW l \in Labels, AddNodeLabel(n, l) \/ RemoveNodeLabel(n, l)
      PROVE  OverlayTypeOK' /\ ListsAllocated' /\ OnlyTouches(n)
  <2>1. /\ NodeLabels(n) \cup {l} \in SUBSET Labels /\ NodeLabels(n) \ {l} \in SUBSET Labels
        /\ StageLabelAdded(modNodeLabels[n], l) \in LabelMods
        /\ StageLabelRemoved(modNodeLabels[n], l) \in LabelMods
    BY <1>1, StageLabelType
  <2> QED
    BY <1>4, <2>1, WriteLabelsTouches DEF AddNodeLabel, RemoveNodeLabel
<1> QED
  BY <1>2, <1>3, <1>4 DEF UpdateNode

(***************************************************************************)
(* Steps.                                                                  *)
(***************************************************************************)

\* What is logged stays, so what was absorbed is absorbed still; the write may only have changed
\* the node it logs.
LEMMA TouchKeeps ==
  ASSUME IndexInv, OverlayTypeOK', ListsAllocated', NEW n \in Nat, OnlyTouches(n),
         log' = Append(log, n), UNCHANGED <<secondary, delta, lagging, midSession>>
  PROVE  IndexInv'
<1>1. log \in Seq(Nat) /\ Len(log) \in Nat /\ Touched \subseteq AllocatedNodes
  BY DEF IndexInv, LogIsComplete
<1>2. /\ log' \in Seq(Nat) /\ Len(log') = Len(log) + 1 /\ log'[Len(log) + 1] = n
      /\ \A k \in 1 .. Len(log) : log'[k] = log[k]
  BY <1>1, AppendProperties
<1>3. base' = base /\ AllocatedNodes' = AllocatedNodes \cup {n}
  BY DEF OnlyTouches
<1>4. Touched' = Touched \cup {n}
  <2>1. 1 .. Len(log') = (1 .. Len(log)) \cup {Len(log) + 1}
    BY <1>1, <1>2
  <2> QED
    BY <1>2, <2>1 DEF Touched
<1>5. LogIsComplete'
  <2>1. ASSUME NEW m \in AllocatedNodes', m \notin Touched' PROVE AsInImage(m)'
    <3>1. m \in AllocatedNodes /\ m \notin Touched /\ m # n
      BY <1>3, <1>4, <2>1
    <3>2. AsInImage(m)
      BY <3>1 DEF IndexInv, LogIsComplete
    <3> QED
      BY <1>3, <3>1, <3>2 DEF OnlyTouches, AsInImage, IsBaseNode
  <2> QED
    BY <1>1, <1>2, <1>3, <1>4, <2>1 DEF LogIsComplete
<1>6. Established' = Established /\ BaseIsIndexed'
  BY <1>3 DEF IndexInv, BaseIsIndexed, BaseFilings, Established
<1>7. ASSUME ~lagging
      PROVE  /\ delta.absorbed \in 0 .. Len(log') /\ delta.absorbed # Len(log')
             /\ Describes(delta, AbsorbedNodes, Pending)'
  <2>1. delta.absorbed \in 0 .. Len(log) /\ Describes(delta, AbsorbedNodes, Pending)
    BY <1>7 DEF IndexInv, DeltaIsSettled
  <2>2. AbsorbedNodes' = AbsorbedNodes
    BY <1>1, <1>2, <2>1 DEF AbsorbedNodes
  <2>3. Pending' = Pending \cup {n}
    <3>1. PICK late, last : late = delta.absorbed + 1 .. Len(log) /\ last = Len(log) + 1
      OBVIOUS
    <3>2. delta.absorbed + 1 .. Len(log') = late \cup {last}
      BY <1>1, <1>2, <2>1, <3>1
    <3>3. (\A k \in late : log'[k] = log[k]) /\ log'[last] = n
      BY <1>1, <1>2, <2>1, <3>1
    <3>4. Pending = {log[k] : k \in late}
      BY <3>1 DEF Pending
    <3>5. Pending' = {log'[k] : k \in late \cup {last}}
      BY <3>2 DEF Pending
    <3> QED
      BY <3>3, <3>4, <3>5
  <2>4. AbsorbedNodes \subseteq AllocatedNodes
    BY <1>1, <2>1, LogParts
  <2>5. ASSUME NEW i \in Established, NEW key \in Keyable, NEW m \in AbsorbedNodes \ Pending'
        PROVE  FiledUnder(delta, i, key, m) <=> ReadsAs(i, key, m)'
    <3>1. m \in AllocatedNodes /\ m # n /\ m \in AbsorbedNodes \ Pending
      BY <2>3, <2>4
    <3>2. ReadsAs(i, key, m)' <=> ReadsAs(i, key, m)
      BY <1>3, <3>1 DEF OnlyTouches, ReadsAs, LiveNodes
    <3>3. FiledUnder(delta, i, key, m) <=> ReadsAs(i, key, m)
      BY <2>1, <3>1 DEF Describes
    <3> QED
      BY <3>2, <3>3
  <2>6. \A i, key, m : FiledUnder(delta, i, key, m)' <=> FiledUnder(delta, i, key, m)
    BY DEF FiledUnder
  <2> QED
    BY <1>1, <1>2, <1>3, <1>6, <2>1, <2>2, <2>5, <2>6 DEF Describes, IsBaseNode
<1>8. DeltaIsSettled'
  BY <1>7 DEF DeltaIsSettled
<1> QED
  BY <1>5, <1>6, <1>8 DEF IndexInv

\* Whatever creates or drops an index leaves the nodes, the log and the delta alone.
LEMMA IndexesKeep ==
  ASSUME IndexInv, UNCHANGED <<overlayVars, log, delta, lagging>>,
         \A i \in Established' : i \in Indexes /\ secondary'[i] = BaseFilings(i),
         log # <<>> => Established' \subseteq Established
  PROVE  IndexInv'
<1>1. /\ UNCHANGED <<base, newNodes, newEdges, deletedNodes, deletedEdges>>
      /\ UNCHANGED <<modNodeProps, modEdgeProps, modNodeLabels, modEdgeLabels>>
      /\ UNCHANGED <<newOutgoing, newIncoming, newUndirected>>
  BY DEF overlayVars, nodeOverlay, edgeOverlay, edgeTopology
<1>2. AllocatedNodes' = AllocatedNodes /\ AllocatedEdges' = AllocatedEdges /\ LiveNodes' = LiveNodes
      /\ NextNodeId' = NextNodeId /\ NextEdgeId' = NextEdgeId
  BY <1>1 DEF NextNodeId, NextEdgeId, AllocatedNodes, AllocatedEdges, LiveNodes
<1>3. OverlayTypeOK' /\ ListsAllocated'
  BY <1>1, <1>2 DEF IndexInv, OverlayTypeOK, ListsAllocated
<1>4. LogIsComplete'
  BY <1>1, <1>2 DEF IndexInv, LogIsComplete, Touched, AsInImage, IsBaseNode
<1>5. BaseIsIndexed'
  <2>1. \A i : BaseFilings(i)' = BaseFilings(i)
    BY <1>1 DEF BaseFilings
  <2> QED
    BY <2>1 DEF BaseIsIndexed
<1>6. /\ \A i, key, n : ReadsAs(i, key, n)' <=> ReadsAs(i, key, n)
      /\ Witness' = Witness /\ AbsorbedNodes' = AbsorbedNodes /\ Pending' = Pending
  BY <1>1, <1>2 DEF ReadsAs, NodeLabels, NodeProps, IsBaseNode, NodeSlot, ApplyLabelMods, ApplyPropMods,
                    Witness, AbsorbedNodes, Pending
<1>7. ASSUME ~lagging, Describes(delta, AbsorbedNodes, Pending), delta.absorbed \in 0 .. Len(log)
      PROVE  Describes(delta, AbsorbedNodes, Pending)'
  <2>1. CASE log = <<>>
    <3>1. AbsorbedNodes = {}
      BY <1>7, <2>1 DEF AbsorbedNodes
    <3> QED
      BY <1>1, <1>6, <1>7, <3>1 DEF Describes, IsBaseNode
  <2>2. CASE log # <<>>
    <3>1. \A i, key, n : FiledUnder(delta, i, key, n)' <=> FiledUnder(delta, i, key, n)
      BY DEF FiledUnder
    <3>2. Established' \subseteq Established
      BY <2>2
    <3> QED
      BY <1>1, <1>6, <1>7, <3>1, <3>2 DEF Describes, IsBaseNode
  <2> QED
    BY <2>1, <2>2
<1>8. DeltaIsSettled'
  BY <1>6, <1>7 DEF IndexInv, DeltaIsSettled
<1> QED
  BY <1>3, <1>4, <1>5, <1>8 DEF IndexInv

\* A new node is logged under the id it gets.
LEMMA InsertNodeKeeps ==
  ASSUME IndexInv, InsertNode
  PROVE  IndexInv'
<1>1. OverlayTypeOK /\ ListsAllocated /\ NextNodeId \in Nat
  BY IdsInRange DEF IndexInv
<1>2. OverlayTypeOK' /\ ListsAllocated' /\ OnlyTouches(NextNodeId)
  BY <1>1, PushTouches DEF InsertNode
<1>3. log' = Append(log, NextNodeId) /\ UNCHANGED <<secondary, delta, lagging, midSession>>
  BY DEF InsertNode, Touch
<1>4. PICK n \in Nat : n = NextNodeId
  BY <1>1
<1> QED
  BY <1>2, <1>3, <1>4, TouchKeeps

\* A deletion or an update of a node is logged.
LEMMA WriteNodeKeeps ==
  ASSUME IndexInv, NEW n \in AllocatedNodes, WriteNode(n)
  PROVE  IndexInv'
<1>1. OverlayTypeOK /\ ListsAllocated /\ n \in Nat
  BY DEF IndexInv, AllocatedNodes
<1>2. OverlayTypeOK' /\ ListsAllocated' /\ OnlyTouches(n)
  BY <1>1, DeleteTouches, UpdateTouches DEF WriteNode
<1>3. log' = Append(log, n) /\ UNCHANGED <<secondary, delta, lagging, midSession>>
  BY DEF WriteNode, Touch
<1> QED
  BY <1>1, <1>2, <1>3, TouchKeeps

\* With nothing staged every node is as the image has it.
LEMMA NothingStaged ==
  ASSUME IsImage(base), EmptyOverlay
  PROVE  OverlayTypeOK /\ ListsAllocated /\ \A n \in AllocatedNodes : AsInImage(n)
<1>1. OverlayTypeOK /\ NextNodeId = base.nodeCount
  BY EmptyOverlayType
<1>2. ListsAllocated
  BY DEF EmptyOverlay, Unmodified, ListsAllocated
<1>3. ASSUME NEW n \in AllocatedNodes PROVE AsInImage(n)
  <2>1. n \in NodeIds /\ n < base.nodeCount
    BY <1>1, IdsInRange DEF AllocatedNodes
  <2> QED
    BY <2>1 DEF AsInImage, IsBaseNode, EmptyOverlay, Unmodified
<1> QED
  BY <1>1, <1>2, <1>3

\* A rollback empties the log; a delta that has absorbed nothing describes the image.
LEMMA RollbackKeeps ==
  ASSUME IndexInv, Rollback
  PROVE  IndexInv'
<1>1. EmptyOverlay' /\ base' = base /\ log' = <<>> /\ UNCHANGED <<secondary, delta, midSession>>
  BY ClearOverlayEmpties DEF Rollback
<1>2. IsImage(base)'
  BY <1>1 DEF IndexInv, OverlayTypeOK, IsImage
<1>3. OverlayTypeOK' /\ ListsAllocated' /\ \A n \in AllocatedNodes' : AsInImage(n)'
  <2>1. (IsImage(base) /\ EmptyOverlay =>
           OverlayTypeOK /\ ListsAllocated /\ \A n \in AllocatedNodes : AsInImage(n))'
    BY NothingStaged, PTL
  <2> QED
    BY <1>1, <1>2, <2>1
<1>4. LogIsComplete'
  BY <1>1, <1>3, EmptySeq DEF LogIsComplete, Touched
<1>5. BaseIsIndexed'
  BY <1>1 DEF IndexInv, BaseIsIndexed, BaseFilings, Established
<1>6. DeltaIsSettled'
  <2> SUFFICES ASSUME ~lagging'
               PROVE  /\ delta.absorbed = 0 /\ Len(log') = 0
                      /\ Describes(delta, AbsorbedNodes, Pending)'
    BY <1>1 DEF DeltaIsSettled
  <2>1. ~lagging /\ ~(delta.absorbed > 0)
    BY DEF Rollback
  <2>2. delta.absorbed \in 0 .. Len(log) /\ Describes(delta, AbsorbedNodes, Pending) /\ Len(log) \in Nat
    BY <2>1 DEF IndexInv, DeltaIsSettled, LogIsComplete
  <2>3. delta.absorbed = 0
    BY <2>1, <2>2
  <2>4. AbsorbedNodes = {} /\ AbsorbedNodes' = {}
    BY <1>1, <2>3 DEF AbsorbedNodes
  <2>5. delta.shadowed = {} /\ \A f \in delta.filed : FALSE
    BY <2>2, <2>4 DEF Describes
  <2> QED
    BY <1>1, <2>3, <2>4, <2>5 DEF Describes
<1> QED
  BY <1>3, <1>4, <1>5, <1>6 DEF IndexInv

\* A lookup that does not see a reset, or sees one, leaves a delta that is settled.
LEMMA LookupKeeps ==
  ASSUME IndexInv, Lookup
  PROVE  IndexInv'
<1>1. delta' = SyncedDelta /\ UNCHANGED <<overlayVars, log, secondary, midSession>>
  BY DEF Lookup
<1>2. /\ UNCHANGED <<base, newNodes, newEdges, deletedNodes, deletedEdges>>
      /\ UNCHANGED <<modNodeProps, modEdgeProps, modNodeLabels, modEdgeLabels>>
      /\ UNCHANGED <<newOutgoing, newIncoming, newUndirected>>
  BY <1>1 DEF overlayVars, nodeOverlay, edgeOverlay, edgeTopology
<1>3. AllocatedNodes' = AllocatedNodes /\ AllocatedEdges' = AllocatedEdges /\ LiveNodes' = LiveNodes
      /\ NextNodeId' = NextNodeId /\ NextEdgeId' = NextEdgeId
  BY <1>2 DEF NextNodeId, NextEdgeId, AllocatedNodes, AllocatedEdges, LiveNodes
<1>4. OverlayTypeOK' /\ ListsAllocated'
  BY <1>2, <1>3 DEF IndexInv, OverlayTypeOK, ListsAllocated
<1>5. LogIsComplete' /\ Touched' = Touched
  BY <1>1, <1>2, <1>3 DEF IndexInv, LogIsComplete, Touched, AsInImage, IsBaseNode
<1>6. BaseIsIndexed' /\ Established' = Established
  BY <1>1, <1>2 DEF IndexInv, BaseIsIndexed, BaseFilings, Established
<1>7. /\ \A i, key, n : ReadsAs(i, key, n)' <=> ReadsAs(i, key, n)
      /\ Witness' = Witness
  BY <1>2, <1>3 DEF ReadsAs, NodeLabels, NodeProps, IsBaseNode, NodeSlot, ApplyLabelMods, ApplyPropMods, Witness
<1>8. log \in Seq(Nat) /\ Len(log) \in Nat
  BY DEF IndexInv, LogIsComplete
<1>9. ASSUME ~lagging PROVE DeltaIsSettled'
  <2>1. SyncedDelta = Absorbed /\ Describes(Absorbed, Touched, {})
    BY <1>9, SyncDescribes
  <2>2. PICK d : d = Absorbed
    OBVIOUS
  <2>3. delta' = d /\ d.absorbed = Len(log) /\ d.witness = Witness
    BY <1>1, <2>1, <2>2 DEF Absorbed
  <2>4. AbsorbedNodes' = Touched /\ Pending' = {}
    BY <1>1, <1>8, <2>3 DEF AbsorbedNodes, Touched, Pending
  <2>5. Describes(d, Touched, {})
    BY <2>1, <2>2
  <2>6. Describes(delta, AbsorbedNodes, Pending)'
    BY <1>2, <1>6, <1>7, <2>3, <2>4, <2>5 DEF Describes, IsBaseNode, FiledUnder
  <2> QED
    BY <1>1, <1>7, <1>8, <2>3, <2>6 DEF DeltaIsSettled
<1>10. ASSUME OverlayWasReset PROVE DeltaIsSettled'
  <2>1. delta' = EmptyDelta
    BY <1>1, <1>10 DEF SyncedDelta
  <2>2. delta'.absorbed = 0 /\ delta'.filed = {} /\ delta'.shadowed = {}
    BY <2>1 DEF EmptyDelta
  <2>3. AbsorbedNodes' = {}
    BY <2>2 DEF AbsorbedNodes
  <2> QED
    BY <1>1, <1>8, <2>2, <2>3 DEF DeltaIsSettled, Describes
<1>11. ASSUME lagging, ~OverlayWasReset PROVE DeltaIsSettled'
  BY <1>11 DEF Lookup, DeltaIsSettled
<1> QED
  BY <1>4, <1>5, <1>6, <1>9, <1>10, <1>11 DEF IndexInv

\* With an empty log a pass over the merged nodes is a pass over the image.
LEMMA FilingsOfImage ==
  ASSUME OverlayTypeOK, \A n \in AllocatedNodes : AsInImage(n), NEW i \in Indexes,
         NEW nodes, nodes \in {LiveNodes, NodesWithLabel(i[1])}
  PROVE  Filings(nodes, i) = BaseFilings(i)
<1>1. base.nodeCount \in Nat /\ NextNodeId \in Nat /\ base.nodeCount <= NextNodeId
  BY IdsInRange DEF NextNodeId
<1>2. \A n \in AllocatedNodes :
        /\ n \in 0 .. base.nodeCount - 1 /\ n \in LiveNodes
        /\ NodeLabels(n) = base.node[n].labels /\ NodeProps(n) = base.node[n].props
  BY ReadsAsImage
<1>3. AllocatedNodes = 0 .. base.nodeCount - 1 /\ LiveNodes = AllocatedNodes
  BY <1>1, <1>2 DEF AllocatedNodes, LiveNodes
<1>4. {m \in nodes : i[1] \in NodeLabels(m) /\ NodeProps(m)[i[2]] \in Keyable}
        = {m \in 0 .. base.nodeCount - 1 :
             i[1] \in base.node[m].labels /\ base.node[m].props[i[2]] \in Keyable}
  <2>1. CASE nodes = LiveNodes
    BY <1>2, <1>3, <2>1
  <2>2. CASE nodes = NodesWithLabel(i[1])
    <3>1. nodes \subseteq AllocatedNodes
      BY <1>3, <2>2 DEF NodesWithLabel
    <3>2. ASSUME NEW m \in 0 .. base.nodeCount - 1, i[1] \in base.node[m].labels PROVE m \in nodes
      <4>1. m \notin deletedNodes /\ modNodeLabels[m] = NoLabelMods
        BY <1>3 DEF AsInImage
      <4>2. i[1] \notin modNodeLabels[m].removed
        BY <4>1 DEF NoLabelMods
      <4> QED
        BY <2>2, <3>2, <4>1, <4>2 DEF NodesWithLabel
    <3> QED
      BY <1>2, <1>3, <3>1, <3>2
  <2> QED
    BY <2>1, <2>2
<1> QED
  BY <1>2, <1>3, <1>4 DEF Filings, BaseFilings

\* A new index agrees with the delta when no node was written before it, and is set aside otherwise.
LEMMA CreateIndexKeeps ==
  ASSUME IndexInv, NEW i \in Indexes, CreateIndex(i)
  PROVE  IndexInv'
<1>1. /\ UNCHANGED <<overlayVars, log, delta, lagging>> /\ i \notin DOMAIN secondary
      /\ DOMAIN secondary' = DOMAIN secondary \cup {i}
      /\ secondary'[i] = Filings(NodesWithLabel(i[1]), i)
      /\ \A j \in DOMAIN secondary : secondary'[j] = secondary[j]
      /\ midSession' = IF log = <<>> THEN midSession ELSE midSession \cup {i}
  BY DEF CreateIndex
<1>2. \A j \in Established : j \in Indexes /\ secondary[j] = BaseFilings(j)
  BY DEF IndexInv, BaseIsIndexed
<1>3. CASE log = <<>>
  <2>1. Touched = {}
    BY <1>3 DEF Touched
  <2>2. secondary'[i] = BaseFilings(i)
    BY <1>1, <2>1, FilingsOfImage DEF IndexInv, LogIsComplete
  <2> QED
    BY <1>1, <1>2, <1>3, <2>2, IndexesKeep DEF Established
<1>4. CASE log # <<>>
  BY <1>1, <1>2, <1>4, IndexesKeep DEF Established
<1> QED
  BY <1>3, <1>4

\* A dropped index is no longer asked.
LEMMA DropIndexKeeps ==
  ASSUME IndexInv, NEW i \in DOMAIN secondary, DropIndex(i)
  PROVE  IndexInv'
<1>1. /\ UNCHANGED <<overlayVars, log, delta, lagging>>
      /\ DOMAIN secondary' = DOMAIN secondary \ {i} /\ midSession' = midSession \ {i}
      /\ \A j \in DOMAIN secondary \ {i} : secondary'[j] = secondary[j]
  BY DEF DropIndex
<1>2. \A j \in Established : j \in Indexes /\ secondary[j] = BaseFilings(j)
  BY DEF IndexInv, BaseIsIndexed
<1> QED
  BY <1>1, <1>2, IndexesKeep DEF Established

\* The invariant holds when a file has been opened.
LEMMA IndexInitEstablishes == IndexInit => IndexInv
<1> SUFFICES ASSUME IndexInit PROVE IndexInv
  OBVIOUS
<1>1. IsImage(base) /\ EmptyOverlay /\ log = <<>> /\ delta = EmptyDelta
      /\ secondary = [i \in OpenIndexes |-> Filings(LiveNodes, i)]
  BY ImagesAssumption DEF IndexInit, OpenImage
<1>2. OverlayTypeOK /\ ListsAllocated /\ \A n \in AllocatedNodes : AsInImage(n)
  BY <1>1, NothingStaged
<1>3. LogIsComplete
  BY <1>1, <1>2, EmptySeq DEF LogIsComplete, Touched
<1>4. BaseIsIndexed
  <2>1. \A i \in OpenIndexes : i \in Indexes /\ Filings(LiveNodes, i) = BaseFilings(i)
    BY <1>2, IndexAssumption, FilingsOfImage
  <2> QED
    BY <1>1, <2>1 DEF BaseIsIndexed, Established
<1>5. DeltaIsSettled
  <2>1. delta.absorbed = 0 /\ delta.filed = {} /\ delta.shadowed = {} /\ Len(log) = 0
    BY <1>1 DEF EmptyDelta
  <2>2. AbsorbedNodes = {}
    BY <2>1 DEF AbsorbedNodes
  <2> QED
    BY <2>1, <2>2 DEF DeltaIsSettled, Describes
<1> QED
  BY <1>2, <1>3, <1>4, <1>5 DEF IndexInv

\* Every step keeps it.
LEMMA IndexStepKeeps == IndexInv /\ [IndexNext]_indexVars => IndexInv'
<1> SUFFICES ASSUME IndexInv, [IndexNext]_indexVars PROVE IndexInv'
  OBVIOUS
<1>1. CASE UNCHANGED indexVars
  <2>1. UNCHANGED <<overlayVars, log, delta, lagging>> /\ secondary' = secondary /\ midSession' = midSession
    BY <1>1 DEF indexVars
  <2>2. Established' = Established /\ \A i \in Established : i \in Indexes /\ secondary[i] = BaseFilings(i)
    BY <2>1 DEF IndexInv, BaseIsIndexed, Established
  <2> QED
    BY <2>1, <2>2, IndexesKeep
<1>2. CASE \E n \in AllocatedNodes : WriteNode(n)
  BY <1>2, WriteNodeKeeps
<1>3. CASE \E i \in Indexes : CreateIndex(i)
  BY <1>3, CreateIndexKeeps
<1>4. CASE \E i \in DOMAIN secondary : DropIndex(i)
  BY <1>4, DropIndexKeeps
<1> QED
  BY <1>1, <1>2, <1>3, <1>4, InsertNodeKeeps, RollbackKeeps, LookupKeeps DEF IndexNext

\* The invariant above, in every reachable state.
THEOREM IndexInvariant == IndexSpec => []IndexInv
  BY IndexInitEstablishes, IndexStepKeeps, PTL DEF IndexSpec

\* For every image and set of indexes, and any mix of inserts, deletes, relabels and property
\* writes, a lookup on an index built before them answers what a scan of the merged view
\* answers, and names no node twice, unless a rollback it has not noticed came in between.
THEOREM LookupExact == IndexSpec => []TrustedLookupIsExact
<1>1. IndexInv => TrustedLookupIsExact
  BY LookupIsExact DEF TrustedLookupIsExact, Established
<1> QED
  BY <1>1, IndexInvariant, PTL

\* Without such a rollback the witness never disagrees with the log.
THEOREM NeverDeclined == IndexSpec => []IndexIsNeverDeclined
<1>1. IndexInv => IndexIsNeverDeclined
  BY SyncDescribes DEF IndexIsNeverDeclined
<1> QED
  BY <1>1, IndexInvariant, PTL
=============================================================================
