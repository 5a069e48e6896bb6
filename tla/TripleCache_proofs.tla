------------------------- MODULE TripleCache_proofs -------------------------
(***************************************************************************)
(* The cached triple index, for every image, label set and bound on the    *)
(* delta, over any number of statements and rebuilds.                      *)
(*                                                                         *)
(* An index is measured when its stamp tells what it was built from: the   *)
(* edges below the watermark that were not dead.  The one index that is    *)
(* not was built over relabelled base edges; these stay relabelled until a *)
(* rollback, so it is never refreshed.                                     *)
(***************************************************************************)
EXTENDS TripleCache, Overlay_proofs

TriplesFrom(S) == UNION {TriplesOf(e) : e \in S}
Stamped(i) == (0 .. i.stamp.nextEdge - 1) \ i.stamp.deleted

Measured(i) ==
  /\ i.stamp.nextEdge \in base.edgeCount .. NextEdgeId
  /\ i.stamp.deleted \subseteq deletedEdges
  /\ \A t \in i.built : t[4] \in 0 .. i.stamp.nextEdge - 1
  /\ \A t \in i.added : t[4] \in Nat /\ t[4] >= i.stamp.nextEdge

Unmeasured(i) == BaseEdgeRelabelled /\ i.added = {}

\* The static part is still what the edges it was built from give.
Current(i) == ~BaseEdgeRelabelled => i.built = TriplesFrom(Stamped(i))

CacheInv ==
  index # NoIndex /\ ~unnoticed =>
    (Measured(index) \/ Unmeasured(index)) /\ (~relabelled => Current(index))

TripleInv == OverlayTypeOK /\ ListsAllocated /\ CacheInv /\ RefreshIsExact

(***************************************************************************)
(* Triples.                                                                *)
(***************************************************************************)

\* A triple carries the id of its edge.
LEMMA TripleCarriesItsEdge == \A e : \A t \in TriplesOf(e) : t[4] = e
  BY DEF TriplesOf

\* A triple belongs to a set of edges when its own edge does.
LEMMA TriplesFromEdges ==
  ASSUME NEW S, NEW t
  PROVE  t \in TriplesFrom(S) <=> t[4] \in S /\ t \in TriplesOf(t[4])
  BY TripleCarriesItsEdge DEF TriplesFrom

\* What the triples of an edge are read from.
SameEdge(e) ==
  /\ Src(e)' = Src(e) /\ Tgt(e)' = Tgt(e) /\ IsDirected(e)' = IsDirected(e)
  /\ EdgeLabels(e)' = EdgeLabels(e)

\* The triples of an edge are read off its record and its staged labels.
LEMMA SameEdgeSameTriples ==
  ASSUME NEW e, SameEdge(e)
  PROVE  TriplesOf(e)' = TriplesOf(e)
  BY DEF SameEdge, TriplesOf

\* Edges with the same triples as before give the same triples together.
LEMMA SameTriplesFrom ==
  ASSUME NEW S, \A e \in S : TriplesOf(e)' = TriplesOf(e)
  PROVE  UNION {TriplesOf(e)' : e \in S} = TriplesFrom(S)
  BY DEF TriplesFrom

\* An operation that leaves the edges and their modifications alone leaves their triples alone.
LEMMA EdgesUntouched ==
  ASSUME UNCHANGED <<base, newEdges, modEdgeLabels>>
  PROVE  /\ \A e : TriplesOf(e)' = TriplesOf(e)
         /\ BaseEdgeRelabelled' = BaseEdgeRelabelled /\ NextEdgeId' = NextEdgeId
<1>1. \A e : SameEdge(e)
  BY DEF SameEdge, Src, Tgt, IsDirected, EdgeRecordOf, EdgeLabels, IsBaseEdge, EdgeSlot, ApplyLabelMods
<1> QED
  BY <1>1, SameEdgeSameTriples DEF BaseEdgeRelabelled, BaseEdges, NextEdgeId

(***************************************************************************)
(* Building and refreshing.                                                *)
(***************************************************************************)

\* An index that was just built is measured or was built over relabelled base edges, and holds
\* the triples of the graph.
LEMMA BuiltIsExact ==
  ASSUME OverlayTypeOK
  PROVE  /\ Measured(BuiltIndex) \/ Unmeasured(BuiltIndex)
         /\ Current(BuiltIndex)
         /\ IndexTriples(BuiltIndex) = GraphTriples
<1>1. BuiltIndex.built = GraphTriples /\ BuiltIndex.added = {} /\ BuiltIndex.removed = {}
  BY DEF BuiltIndex
<1>2. IndexTriples(BuiltIndex) = GraphTriples
  BY <1>1 DEF IndexTriples
<1>3. CASE BaseEdgeRelabelled
  BY <1>1, <1>2, <1>3 DEF Unmeasured, Current
<1>4. CASE ~BaseEdgeRelabelled
  <2>1. BuiltIndex.stamp.nextEdge = NextEdgeId /\ BuiltIndex.stamp.deleted = deletedEdges
    BY <1>4 DEF BuiltIndex
  <2>2. GraphTriples = TriplesFrom(LiveEdges)
    BY DEF GraphTriples, TriplesFrom
  <2>3. Stamped(BuiltIndex) = LiveEdges
    BY <2>1 DEF Stamped, LiveEdges, AllocatedEdges
  <2>4. \A t \in GraphTriples : t[4] \in 0 .. NextEdgeId - 1
    BY <2>2, TriplesFromEdges DEF LiveEdges, AllocatedEdges
  <2>5. NextEdgeId \in base.edgeCount .. NextEdgeId
    BY IdsInRange DEF NextEdgeId
  <2>6. Measured(BuiltIndex) /\ Current(BuiltIndex)
    BY <1>1, <2>1, <2>2, <2>3, <2>4, <2>5 DEF Measured, Current
  <2> QED
    BY <1>2, <2>6
<1> QED
  BY <1>3, <1>4

\* A refreshed index stays measured; and if nothing the code does not follow has happened, the
\* static part less the removals, with the additions, is the triples of the graph.
LEMMA RefreshedIsExact ==
  ASSUME OverlayTypeOK, NEW i, Measured(i), ~BaseEdgeRelabelled
  PROVE  /\ Measured(Refreshed(i))
         /\ Current(i) => Current(Refreshed(i)) /\ IndexTriples(Refreshed(i)) = GraphTriples
<1> DEFINE mark == i.stamp.nextEdge
           dead == i.stamp.deleted
           late == {d \in LiveEdges : ~IsBaseEdge(d) /\ d >= mark}
<1>1. /\ Refreshed(i).built = i.built /\ Refreshed(i).stamp = i.stamp
      /\ Refreshed(i).added = TriplesFrom(late) /\ Refreshed(i).removed = deletedEdges \ dead
  BY DEF Refreshed, Added, Removed, TriplesFrom
<1>2. mark \in Nat /\ base.edgeCount \in Nat /\ base.edgeCount <= mark /\ mark <= NextEdgeId
      /\ NextEdgeId \in Nat
  BY IdsInRange DEF Measured
<1>3. \A d \in LiveEdges : d \in Nat /\ d < NextEdgeId
  BY <1>2 DEF LiveEdges, AllocatedEdges
<1>4. late = {d \in LiveEdges : d >= mark}
  BY <1>2, <1>3 DEF IsBaseEdge
<1>5. \A t \in TriplesFrom(late) : t[4] \in Nat /\ t[4] >= mark
  BY <1>3, TriplesFromEdges
<1>6. Measured(Refreshed(i)) /\ (Current(i) => Current(Refreshed(i)))
  <2>1. Stamped(Refreshed(i)) = Stamped(i)
    BY <1>1 DEF Stamped
  <2> HIDE DEF late
  <2> QED
    BY <1>1, <1>5, <2>1 DEF Measured, Current
<1>7. ASSUME Current(i) PROVE IndexTriples(Refreshed(i)) = GraphTriples
  <2>1. i.built = TriplesFrom(Stamped(i))
    BY <1>7 DEF Current
  <2>2. dead \subseteq deletedEdges
    BY DEF Measured
  <2>3. ASSUME NEW t
        PROVE  t \in IndexTriples(Refreshed(i)) <=> t \in GraphTriples
    <3>1. t \in IndexTriples(Refreshed(i))
            <=> (t \in i.built \/ t \in TriplesFrom(late)) /\ t[4] \notin deletedEdges \ dead
      BY <1>1 DEF IndexTriples
    <3>2. t \in i.built <=> t[4] \in Stamped(i) /\ t \in TriplesOf(t[4])
      BY <2>1, TriplesFromEdges
    <3>3. t \in TriplesFrom(late) <=> t[4] \in late /\ t \in TriplesOf(t[4])
      BY TriplesFromEdges
    <3>4. t \in GraphTriples <=> t[4] \in LiveEdges /\ t \in TriplesOf(t[4])
      BY TriplesFromEdges DEF GraphTriples, TriplesFrom
    <3>5. (t[4] \in Stamped(i) \/ t[4] \in late) /\ t[4] \notin deletedEdges \ dead <=> t[4] \in LiveEdges
      <4>1. LiveEdges = (0 .. NextEdgeId - 1) \ deletedEdges
        BY DEF LiveEdges, AllocatedEdges
      <4>2. Stamped(i) = (0 .. mark - 1) \ dead
        BY DEF Stamped
      <4> HIDE DEF mark, dead, late
      <4> QED
        BY <1>2, <1>3, <1>4, <2>2, <4>1, <4>2
    <3> QED
      BY <3>1, <3>2, <3>3, <3>4, <3>5
  <2>4. \A t \in IndexTriples(Refreshed(i)) : t \in GraphTriples
    BY <2>3
  <2>5. \A t \in GraphTriples : t \in IndexTriples(Refreshed(i))
    BY <2>3
  <2> QED
    BY <2>4, <2>5
<1> QED
  BY <1>6, <1>7

(***************************************************************************)
(* Steps.                                                                  *)
(***************************************************************************)

\* An index stays measured while ids and tombstones only grow, and current while no edge it was
\* built from is relabelled.
LEMMA HeldIndexStays ==
  ASSUME OverlayTypeOK, OverlayTypeOK', CacheInv, index' = index, unnoticed' = unnoticed, base' = base,
         NextEdgeId <= NextEdgeId', deletedEdges \subseteq deletedEdges',
         BaseEdgeRelabelled => BaseEdgeRelabelled',
         relabelled => relabelled',
         index # NoIndex /\ Measured(index) /\ ~relabelled' /\ ~BaseEdgeRelabelled' =>
           \A e \in Stamped(index) : TriplesOf(e)' = TriplesOf(e)
  PROVE  CacheInv'
<1> SUFFICES ASSUME index # NoIndex, ~unnoticed
             PROVE  (Measured(index) \/ Unmeasured(index))' /\ (~relabelled => Current(index))'
  BY DEF CacheInv
<1>1. (Measured(index) \/ Unmeasured(index)) /\ (~relabelled => Current(index))
  BY DEF CacheInv
<1>2. NextEdgeId \in Nat /\ NextEdgeId' \in Nat /\ base.edgeCount \in Nat
  <2>1. NextEdgeId' \in Nat
    <3>1. (OverlayTypeOK => NextEdgeId \in Nat)'
      BY IdsInRange, PTL
    <3> QED
      BY <3>1
  <2> QED
    BY <2>1, IdsInRange
<1>3. CASE Unmeasured(index)
  BY <1>3 DEF Unmeasured, Current
<1>4. CASE Measured(index)
  <2>1. Measured(index)'
    BY <1>2, <1>4 DEF Measured
  <2>2. ASSUME ~relabelled', ~BaseEdgeRelabelled' PROVE (index.built = TriplesFrom(Stamped(index)))'
    <3>1. index.built = TriplesFrom(Stamped(index))
      BY <1>1, <2>2 DEF Current
    <3>2. \A e \in Stamped(index) : TriplesOf(e)' = TriplesOf(e)
      BY <1>4, <2>2
    <3>3. Stamped(index)' = Stamped(index)
      BY DEF Stamped
    <3>4. TriplesFrom(Stamped(index))' = TriplesFrom(Stamped(index))
      BY <3>2, <3>3 DEF TriplesFrom
    <3> QED
      BY <3>1, <3>4
  <2> QED
    BY <2>1, <2>2 DEF Current
<1> QED
  BY <1>1, <1>3, <1>4

\* A new edge is above every watermark.
LEMMA InsertKeeps ==
  ASSUME TripleInv, Insert
  PROVE  TripleInv'
<1>1. PICK s \in LiveNodes, t \in LiveNodes, directed \in BOOLEAN, l \in SUBSET Labels, p \in PropMap :
        PushEdge(s, t, directed, l, p)
  BY DEF Insert
<1>2. OverlayTypeOK /\ s \in AllocatedNodes /\ t \in AllocatedNodes
  BY DEF TripleInv, LiveNodes
<1>3. OverlayTypeOK' /\ NextEdgeId' = NextEdgeId + 1
  BY <1>1, <1>2, PushEdgeType
<1>4. NextEdgeId \in Nat /\ NextEdgeId < MaxEdges /\ s \in NodeIds /\ t \in NodeIds
  BY <1>1, <1>2, IdsInRange DEF PushEdge
<1>5. AllocatedEdges' = AllocatedEdges \cup {NextEdgeId}
  BY <1>3, <1>4 DEF AllocatedEdges
<1>6. ListsAllocated'
  <2>1. PICK e : e = NextEdgeId
    OBVIOUS
  <2>2. ASSUME NEW adj \in [NodeIds -> SUBSET AllocatedEdges], NEW n \in NodeIds
        PROVE  FileUnder(adj, n, e) \in [NodeIds -> SUBSET (AllocatedEdges \cup {e})]
    BY DEF FileUnder
  <2>3. ASSUME NEW adj \in [NodeIds -> SUBSET (AllocatedEdges \cup {e})], NEW n \in NodeIds
        PROVE  FileUnder(adj, n, e) \in [NodeIds -> SUBSET (AllocatedEdges \cup {e})]
    BY DEF FileUnder
  <2>4. /\ newOutgoing \in [NodeIds -> SUBSET AllocatedEdges]
        /\ newIncoming \in [NodeIds -> SUBSET AllocatedEdges]
        /\ newUndirected \in [NodeIds -> SUBSET AllocatedEdges]
    BY DEF TripleInv, ListsAllocated
  <2>5. /\ FileUnder(newOutgoing, s, e) \in [NodeIds -> SUBSET (AllocatedEdges \cup {e})]
        /\ FileUnder(newIncoming, t, e) \in [NodeIds -> SUBSET (AllocatedEdges \cup {e})]
        /\ FileUnder(FileUnder(newUndirected, s, e), t, e) \in [NodeIds -> SUBSET (AllocatedEdges \cup {e})]
    BY <1>4, <2>2, <2>3, <2>4
  <2>6. CASE directed
    BY <1>1, <1>5, <2>1, <2>4, <2>5, <2>6 DEF PushEdge, ListsAllocated
  <2>7. CASE ~directed
    BY <1>1, <1>5, <2>1, <2>4, <2>5, <2>7 DEF PushEdge, ListsAllocated, FileUnderBoth
  <2> QED
    BY <2>6, <2>7
<1>7. UNCHANGED <<base, deletedEdges, modEdgeLabels>> /\ UNCHANGED cacheVars
  BY <1>1 DEF PushEdge, Insert
<1>8. BaseEdgeRelabelled' = BaseEdgeRelabelled
  BY <1>7 DEF BaseEdgeRelabelled, BaseEdges
<1>9. ASSUME NEW d \in AllocatedEdges PROVE TriplesOf(d)' = TriplesOf(d)
  <2> DEFINE r == [src |-> s, tgt |-> t, directed |-> directed, labels |-> l, props |-> p]
  <2>1. newEdges' = Append(newEdges, r)
    BY <1>1 DEF PushEdge
  <2>2. r \in EdgeRecord /\ newEdges \in Seq(EdgeRecord)
    BY <1>2, <1>4 DEF EdgeRecord, OverlayTypeOK
  <2>3. \A k \in 1 .. Len(newEdges) : newEdges'[k] = newEdges[k]
    <3> HIDE DEF r
    <3> QED
      BY <2>1, <2>2, AppendProperties
  <2>4. EdgeRecordOf(d)' = EdgeRecordOf(d) /\ EdgeLabels(d)' = EdgeLabels(d)
    <3>1. CASE IsBaseEdge(d)
      BY <1>7, <3>1 DEF EdgeRecordOf, EdgeLabels, IsBaseEdge, ApplyLabelMods
    <3>2. CASE ~IsBaseEdge(d)
      <4>1. EdgeSlot(d) \in 1 .. Len(newEdges) /\ EdgeSlot(d)' = EdgeSlot(d) /\ ~IsBaseEdge(d)'
        BY <1>2, <1>7, <3>2, IdsInRange DEF EdgeSlot, IsBaseEdge
      <4> QED
        BY <2>3, <3>2, <4>1 DEF EdgeRecordOf, EdgeLabels
    <3> QED
      BY <3>1, <3>2
  <2> QED
    BY <2>4, SameEdgeSameTriples DEF SameEdge, Src, Tgt, IsDirected
<1>10. ASSUME Measured(index) PROVE Stamped(index) \subseteq AllocatedEdges
  BY <1>2, <1>4, <1>10, IdsInRange DEF Measured, Stamped, AllocatedEdges
<1>11. CacheInv'
  BY <1>2, <1>3, <1>4, <1>7, <1>8, <1>9, <1>10, HeldIndexStays DEF TripleInv, cacheVars
<1>12. RefreshIsExact'
  BY DEF Insert, RefreshIsExact
<1> QED
  BY <1>3, <1>6, <1>11, <1>12 DEF TripleInv

\* Deleting touches tombstones only.
LEMMA DeleteKeeps ==
  ASSUME TripleInv, Delete
  PROVE  TripleInv'
<1>1. OverlayTypeOK /\ ListsAllocated
  BY DEF TripleInv
<1>2. \A n \in AllocatedNodes : IncidentEdges(n) \in SUBSET AllocatedEdges
  BY <1>1, IncidentAreAllocated
<1>3. PICK dn \in SUBSET AllocatedNodes, de \in SUBSET AllocatedEdges :
        /\ deletedNodes' = deletedNodes \cup dn /\ deletedEdges' = deletedEdges \cup de
        /\ UNCHANGED <<base, newNodes, modNodeProps, modNodeLabels,
                       newEdges, modEdgeProps, modEdgeLabels, edgeTopology>>
  <2>1. ASSUME NEW n \in AllocatedNodes, DetachDeleteNode(n)
        PROVE  /\ deletedNodes' = deletedNodes \cup {n} /\ deletedEdges' = deletedEdges \cup IncidentEdges(n)
               /\ UNCHANGED <<base, newNodes, modNodeProps, modNodeLabels,
                              newEdges, modEdgeProps, modEdgeLabels, edgeTopology>>
    BY <2>1 DEF DetachDeleteNode
  <2>2. ASSUME NEW n \in AllocatedNodes, DeleteNodeNoDetach(n)
        PROVE  /\ deletedNodes' = deletedNodes \cup {n} /\ deletedEdges' = deletedEdges \cup {}
               /\ UNCHANGED <<base, newNodes, modNodeProps, modNodeLabels,
                              newEdges, modEdgeProps, modEdgeLabels, edgeTopology>>
    BY <2>2 DEF DeleteNodeNoDetach, edgeOverlay
  <2>3. ASSUME NEW e \in AllocatedEdges, TombstoneEdge(e)
        PROVE  /\ deletedNodes' = deletedNodes \cup {} /\ deletedEdges' = deletedEdges \cup {e}
               /\ UNCHANGED <<base, newNodes, modNodeProps, modNodeLabels,
                              newEdges, modEdgeProps, modEdgeLabels, edgeTopology>>
    BY <2>3 DEF TombstoneEdge, nodeOverlay
  <2>4. \A n \in AllocatedNodes : {n} \in SUBSET AllocatedNodes
    OBVIOUS
  <2>5. \A e \in AllocatedEdges : {e} \in SUBSET AllocatedEdges
    OBVIOUS
  <2>6. {} \in SUBSET AllocatedNodes /\ {} \in SUBSET AllocatedEdges
    OBVIOUS
  <2>7. CASE \E n \in AllocatedNodes : DetachDeleteNode(n)
    BY <1>2, <2>1, <2>4, <2>7
  <2>8. CASE \E n \in AllocatedNodes : DeleteNodeNoDetach(n)
    BY <2>2, <2>4, <2>6, <2>8
  <2>9. CASE \E e \in AllocatedEdges : TombstoneEdge(e)
    BY <2>3, <2>5, <2>6, <2>9
  <2> QED
    BY <2>7, <2>8, <2>9 DEF Delete
<1>4. OverlayTypeOK' /\ SameIds
  BY <1>1, <1>3, TombstoneType
<1>5. /\ \A e : TriplesOf(e)' = TriplesOf(e)
      /\ BaseEdgeRelabelled' = BaseEdgeRelabelled /\ NextEdgeId' = NextEdgeId
  BY <1>3, EdgesUntouched
<1>6. ListsAllocated'
  BY <1>1, <1>3, <1>5 DEF ListsAllocated, edgeTopology, AllocatedEdges
<1>7. UNCHANGED cacheVars /\ writing' = TRUE
  BY DEF Delete
<1>8. NextEdgeId \in Nat
  BY <1>1, IdsInRange
<1>9. CacheInv'
  BY <1>1, <1>3, <1>4, <1>5, <1>7, <1>8, HeldIndexStays DEF TripleInv, cacheVars
<1> QED
  BY <1>4, <1>6, <1>7, <1>9 DEF TripleInv, RefreshIsExact

\* Relabelling a base edge is seen by the stamp; of the overlay edges the history remembers it.
LEMMA RelabelKeeps ==
  ASSUME TripleInv, NEW e \in AllocatedEdges, Relabel(e)
  PROVE  TripleInv'
<1>1. OverlayTypeOK /\ ListsAllocated
  BY DEF TripleInv
<1>2. PICK l \in Labels : AddEdgeLabel(e, l) \/ RemoveEdgeLabel(e, l)
  BY DEF Relabel
<1>3. EdgeLabels(e) \in SUBSET Labels /\ e \in EdgeIds /\ modEdgeLabels \in [EdgeIds -> LabelMods]
  BY <1>1, EdgeReadType, IdsInRange DEF OverlayTypeOK
<1>4. PICK labels \in SUBSET Labels, mods \in LabelMods :
        WriteEdgeLabels(e, labels, mods) /\ mods # NoLabelMods
  <2>1. PICK old \in LabelMods : old = modEdgeLabels[e]
    BY <1>3
  <2>2. StageLabelAdded(old, l) \in LabelMods /\ StageLabelRemoved(old, l) \in LabelMods
    BY StageLabelType
  <2>3. StageLabelAdded(old, l) # NoLabelMods /\ StageLabelRemoved(old, l) # NoLabelMods
    BY DEF StageLabelAdded, StageLabelRemoved, NoLabelMods
  <2>4. EdgeLabels(e) \cup {l} \in SUBSET Labels /\ EdgeLabels(e) \ {l} \in SUBSET Labels
    BY <1>3
  <2>5. CASE AddEdgeLabel(e, l)
    BY <2>1, <2>2, <2>3, <2>4, <2>5 DEF AddEdgeLabel
  <2>6. CASE RemoveEdgeLabel(e, l)
    BY <2>1, <2>2, <2>3, <2>4, <2>6 DEF RemoveEdgeLabel
  <2> QED
    BY <1>2, <2>5, <2>6
<1>5. OverlayTypeOK' /\ SameIds /\ SameEndpoints
  BY <1>1, <1>4, WriteEdgeLabelsType
<1>6. UNCHANGED <<base, deletedEdges, edgeTopology>>
  BY <1>4 DEF WriteEdgeLabels
<1>7. index' = index /\ unnoticed' = unnoticed /\ writing' = TRUE
  BY DEF Relabel
<1>8. ListsAllocated'
  BY <1>1, <1>5, <1>6 DEF ListsAllocated, edgeTopology, AllocatedEdges, SameIds
<1>9. \A d \in AllocatedEdges : Src(d)' = Src(d) /\ Tgt(d)' = Tgt(d) /\ IsDirected(d)' = IsDirected(d)
  <2> TAKE d \in AllocatedEdges
  <2>1. CASE IsBaseEdge(d)
    BY <1>6, <2>1 DEF Src, Tgt, IsDirected, EdgeRecordOf, IsBaseEdge
  <2>2. CASE ~IsBaseEdge(d)
    <3>1. EdgeSlot(d) \in 1 .. Len(newEdges) /\ EdgeSlot(d)' = EdgeSlot(d) /\ ~IsBaseEdge(d)'
      BY <1>1, <1>6, <2>2, IdsInRange DEF EdgeSlot, IsBaseEdge
    <3> QED
      BY <1>5, <2>2, <3>1 DEF Src, Tgt, IsDirected, EdgeRecordOf, SameEndpoints
  <2> QED
    BY <2>1, <2>2
<1>10. CASE IsBaseEdge(e)
  <2>1. e \in BaseEdges
    BY <1>1, <1>10, IdsInRange DEF BaseEdges, IsBaseEdge, AllocatedEdges
  <2>2. BaseEdgeRelabelled'
    <3>1. modEdgeLabels'[e] = mods /\ BaseEdges' = BaseEdges
      BY <1>3, <1>4, <1>6, <1>10 DEF WriteEdgeLabels, BaseEdges
    <3> QED
      BY <1>4, <2>1, <3>1 DEF BaseEdgeRelabelled
  <2>3. relabelled => relabelled'
    BY DEF Relabel
  <2>4. NextEdgeId <= NextEdgeId'
    BY <1>1, <1>5, IdsInRange DEF SameIds
  <2> QED
    BY <1>1, <1>5, <1>6, <1>7, <1>8, <2>2, <2>3, <2>4, HeldIndexStays DEF TripleInv, RefreshIsExact
<1>11. CASE ~IsBaseEdge(e)
  <2>1. newEdges' = [newEdges EXCEPT ![EdgeSlot(e)].labels = labels] /\ modEdgeLabels' = modEdgeLabels
    BY <1>4, <1>11 DEF WriteEdgeLabels
  <2>2. BaseEdgeRelabelled' = BaseEdgeRelabelled
    BY <1>6, <2>1 DEF BaseEdgeRelabelled, BaseEdges
  <2>3. EdgeSlot(e) \in 1 .. Len(newEdges) /\ newEdges \in Seq(EdgeRecord)
    BY <1>1, <1>11, IdsInRange DEF OverlayTypeOK
  <2>4. \A d \in AllocatedEdges : d # e => EdgeLabels(d)' = EdgeLabels(d)
    <3> TAKE d \in AllocatedEdges
    <3>1. CASE IsBaseEdge(d)
      BY <1>6, <2>1, <3>1 DEF EdgeLabels, IsBaseEdge, ApplyLabelMods
    <3>2. CASE ~IsBaseEdge(d) /\ d # e
      <4>1. EdgeSlot(d) \in 1 .. Len(newEdges) /\ EdgeSlot(d)' = EdgeSlot(d) /\ ~IsBaseEdge(d)'
        BY <1>1, <1>6, <3>2, IdsInRange DEF EdgeSlot, IsBaseEdge
      <4>2. EdgeSlot(d) # EdgeSlot(e)
        BY <1>1, <3>2, IdsInRange DEF EdgeSlot, AllocatedEdges
      <4> QED
        BY <2>1, <2>3, <3>2, <4>1, <4>2 DEF EdgeLabels
    <3> QED
      BY <3>1, <3>2
  <2>5. ASSUME index # NoIndex, Measured(index), ~relabelled', NEW d \in Stamped(index)
        PROVE  TriplesOf(d)' = TriplesOf(d)
    <3>1. d \in AllocatedEdges /\ d < index.stamp.nextEdge
      BY <1>1, <2>5, IdsInRange DEF Measured, Stamped, AllocatedEdges
    <3>2. EdgeLabels(d)' = EdgeLabels(d)
      BY <1>11, <2>4, <2>5, <3>1 DEF Relabel
    <3> QED
      BY <1>9, <3>1, <3>2, SameEdgeSameTriples DEF SameEdge
  <2>6. relabelled => relabelled'
    BY DEF Relabel
  <2>7. NextEdgeId <= NextEdgeId'
    BY <1>1, <1>5, IdsInRange DEF SameIds
  <2> QED
    BY <1>1, <1>5, <1>6, <1>7, <1>8, <2>2, <2>5, <2>6, <2>7, HeldIndexStays DEF TripleInv, RefreshIsExact
<1> QED
  BY <1>10, <1>11

\* Steps that leave the overlay alone leave the triples and the types alone.
LEMMA OverlayStands ==
  ASSUME OverlayTypeOK, ListsAllocated, UNCHANGED overlayVars
  PROVE  /\ OverlayTypeOK' /\ ListsAllocated' /\ GraphTriples' = GraphTriples
         /\ \A i : /\ Measured(i)' = Measured(i) /\ Unmeasured(i)' = Unmeasured(i)
                   /\ Current(i)' = Current(i) /\ IndexTriples(i)' = IndexTriples(i)
<1>1. /\ UNCHANGED <<base, newNodes, newEdges, deletedNodes, deletedEdges>>
      /\ UNCHANGED <<modNodeProps, modEdgeProps, modNodeLabels, modEdgeLabels>>
      /\ UNCHANGED <<newOutgoing, newIncoming, newUndirected>>
  BY DEF overlayVars, nodeOverlay, edgeOverlay, edgeTopology
<1>2. /\ \A e : TriplesOf(e)' = TriplesOf(e)
      /\ BaseEdgeRelabelled' = BaseEdgeRelabelled /\ NextEdgeId' = NextEdgeId
  BY <1>1, EdgesUntouched
<1>3. NextNodeId' = NextNodeId /\ AllocatedNodes' = AllocatedNodes /\ AllocatedEdges' = AllocatedEdges
  BY <1>1, <1>2 DEF NextNodeId, AllocatedNodes, AllocatedEdges
<1>4. OverlayTypeOK' /\ ListsAllocated'
  BY <1>1, <1>2, <1>3 DEF OverlayTypeOK, ListsAllocated
<1>5. GraphTriples' = GraphTriples
  BY <1>1, <1>2, <1>3 DEF GraphTriples, LiveEdges
<1>6. ASSUME NEW i
      PROVE  /\ Measured(i)' = Measured(i) /\ Unmeasured(i)' = Unmeasured(i)
             /\ Current(i)' = Current(i) /\ IndexTriples(i)' = IndexTriples(i)
  <2>1. TriplesFrom(Stamped(i))' = TriplesFrom(Stamped(i))
    BY <1>2 DEF TriplesFrom, Stamped
  <2> QED
    BY <1>1, <1>2, <2>1 DEF Measured, Unmeasured, Current, IndexTriples
<1> QED
  BY <1>4, <1>5, <1>6

\* A query builds the index it does not find.
LEMMA QueryKeeps ==
  ASSUME TripleInv, Query
  PROVE  TripleInv'
<1>1. OverlayTypeOK /\ ListsAllocated /\ UNCHANGED overlayVars /\ index' = BuiltIndex
  BY DEF TripleInv, Query
<1>2. /\ Measured(BuiltIndex) \/ Unmeasured(BuiltIndex)
      /\ Current(BuiltIndex) /\ IndexTriples(BuiltIndex) = GraphTriples
  BY <1>1, BuiltIsExact
<1>3. PICK i : i = BuiltIndex
  OBVIOUS
<1>4. (Measured(i) \/ Unmeasured(i))' /\ Current(i)' /\ (IndexTriples(i) = GraphTriples)'
  BY <1>1, <1>2, <1>3, OverlayStands
<1>5. CacheInv'
  BY <1>1, <1>3, <1>4 DEF CacheInv, Measured, Unmeasured, Current, Stamped
<1>6. RefreshIsExact'
  BY <1>1, <1>3, <1>4 DEF RefreshIsExact, IndexIsExact, IndexTriples
<1> QED
  BY <1>1, <1>5, <1>6, OverlayStands DEF TripleInv

\* After a statement the index is refreshed or dropped.
LEMMA SuccessKeeps ==
  ASSUME TripleInv, StatementSucceeds
  PROVE  TripleInv'
<1>1. OverlayTypeOK /\ ListsAllocated /\ UNCHANGED overlayVars /\ CacheInv
  BY DEF TripleInv, StatementSucceeds
<1>2. CASE index # NoIndex /\ CanRefresh(index)
  <2>1. index' = Refreshed(index) /\ (unnoticed' => unnoticed) /\ (relabelled' => relabelled)
        /\ (index' # NoIndex /\ unnoticed => unnoticed') /\ (index' # NoIndex /\ relabelled => relabelled')
    BY <1>2 DEF StatementSucceeds
  <2>2. PICK i : i = Refreshed(index)
    OBVIOUS
  <2>3. ASSUME ~unnoticed
        PROVE  /\ (Measured(i) \/ Unmeasured(i))'
               /\ ~relabelled => Current(i)' /\ (IndexTriples(i) = GraphTriples)'
    <3>1. Measured(index) /\ ~BaseEdgeRelabelled /\ (~relabelled => Current(index))
      BY <1>1, <1>2, <2>3 DEF CacheInv, CanRefresh, Unmeasured
    <3>2. Measured(i) /\ (Current(index) => Current(i) /\ IndexTriples(i) = GraphTriples)
      BY <1>1, <2>2, <3>1, RefreshedIsExact
    <3> QED
      BY <1>1, <3>1, <3>2, OverlayStands
  <2>4. CacheInv'
    BY <2>1, <2>2, <2>3 DEF CacheInv, Measured, Unmeasured, Current, Stamped
  <2>5. RefreshIsExact'
    BY <2>1, <2>2, <2>3 DEF RefreshIsExact, IndexIsExact, IndexTriples
  <2> QED
    BY <1>1, <2>4, <2>5, OverlayStands DEF TripleInv
<1>3. CASE ~(index # NoIndex /\ CanRefresh(index))
  <2>1. index' = NoIndex
    BY <1>3 DEF StatementSucceeds
  <2> QED
    BY <1>1, <2>1, OverlayStands DEF TripleInv, CacheInv, RefreshIsExact, IndexIsExact
<1> QED
  BY <1>2, <1>3

\* A rollback takes away what the index may have been refreshed with; nothing notices.
LEMMA FailureKeeps ==
  ASSUME TripleInv, StatementFails
  PROVE  TripleInv'
<1>1. OverlayTypeOK /\ ClearOverlay /\ index' = index /\ unnoticed' = (index # NoIndex)
  BY DEF TripleInv, StatementFails
<1>2. OverlayTypeOK'
  BY <1>1, ClearOverlayType
<1>3. ListsAllocated'
  BY <1>1 DEF ClearOverlay, ResetOverlay, Unmodified, ListsAllocated
<1>4. CacheInv' /\ RefreshIsExact'
  BY <1>1 DEF CacheInv, RefreshIsExact, IndexIsExact
<1> QED
  BY <1>2, <1>3, <1>4 DEF TripleInv

\* The invariant holds when a file has been opened.
LEMMA TripleInitEstablishes == TripleInit => TripleInv
<1> SUFFICES ASSUME TripleInit PROVE TripleInv
  OBVIOUS
<1>1. IsImage(base) /\ EmptyOverlay /\ index = BuiltIndex
  BY ImagesAssumption DEF TripleInit, OpenImage
<1>2. OverlayTypeOK
  BY <1>1, EmptyOverlayType
<1>3. ListsAllocated
  BY <1>1 DEF EmptyOverlay, Unmodified, ListsAllocated
<1>4. CacheInv /\ RefreshIsExact
  BY <1>1, <1>2, BuiltIsExact DEF CacheInv, RefreshIsExact, IndexIsExact
<1> QED
  BY <1>2, <1>3, <1>4 DEF TripleInv

\* Every step keeps it.
LEMMA TripleStepKeeps == TripleInv /\ [TripleNext]_tripleVars => TripleInv'
<1> SUFFICES ASSUME TripleInv, [TripleNext]_tripleVars PROVE TripleInv'
  OBVIOUS
<1>1. CASE UNCHANGED tripleVars
  <2>1. OverlayTypeOK /\ ListsAllocated /\ UNCHANGED overlayVars /\ UNCHANGED cacheVars /\ writing' = writing
    BY <1>1 DEF TripleInv, tripleVars
  <2>2. PICK i : i = index
    OBVIOUS
  <2>3. /\ Measured(i)' = Measured(i) /\ Unmeasured(i)' = Unmeasured(i)
        /\ Current(i)' = Current(i) /\ IndexTriples(i)' = IndexTriples(i) /\ GraphTriples' = GraphTriples
    BY <2>1, OverlayStands
  <2>4. CacheInv'
    BY <2>1, <2>2, <2>3 DEF TripleInv, CacheInv, cacheVars, Measured, Unmeasured, Current, Stamped
  <2>5. RefreshIsExact'
    BY <2>1, <2>2, <2>3 DEF TripleInv, RefreshIsExact, IndexIsExact, IndexTriples, cacheVars
  <2> QED
    BY <2>1, <2>4, <2>5, OverlayStands DEF TripleInv
<1>2. CASE \E e \in AllocatedEdges : Relabel(e)
  BY <1>2, RelabelKeeps
<1> QED
  BY <1>1, <1>2, QueryKeeps, InsertKeeps, DeleteKeeps, SuccessKeeps, FailureKeeps DEF TripleNext

\* The invariant above, in every reachable state.
THEOREM TripleInvariant == TripleSpec => []TripleInv
  BY TripleInitEstablishes, TripleStepKeeps, PTL DEF TripleSpec

\* For every image, label set and bound: over any number of statements, refreshes and rebuilds
\* the index a query joins over, with its delta, holds exactly the triples of the merged graph,
\* unless a statement failed or an overlay edge it holds was relabelled in between.
THEOREM RefreshExact == TripleSpec => []RefreshIsExact
<1>1. TripleInv => RefreshIsExact
  BY DEF TripleInv
<1> QED
  BY <1>1, TripleInvariant, PTL

\* The watermark parts the ids: the additions are at or above it, the static part is below.
THEOREM DeltaIsDisjoint == TripleSpec => []DeltaAddsNothingTwice
<1>1. TripleInv => DeltaAddsNothingTwice
  <2> SUFFICES ASSUME TripleInv, index # NoIndex, ~unnoticed, NEW t \in index.added \cap index.built
               PROVE  FALSE
    BY DEF DeltaAddsNothingTwice
  <2>1. Measured(index) \/ Unmeasured(index)
    BY DEF TripleInv, CacheInv
  <2>2. CASE Measured(index)
    <3>1. index.stamp.nextEdge \in Nat
      BY <2>2, IdsInRange DEF Measured, TripleInv
    <3> QED
      BY <2>2, <3>1 DEF Measured
  <2>3. CASE Unmeasured(index)
    BY <2>3 DEF Unmeasured
  <2> QED
    BY <2>1, <2>2, <2>3
<1> QED
  BY <1>1, TripleInvariant, PTL
=============================================================================
