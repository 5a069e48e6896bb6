----------------------------- MODULE TripleCache -----------------------------
(***************************************************************************)
(* The LTJ triple index a connection keeps across statements               *)
(* (connection.rs), and the delta that spares it a rebuild after each of   *)
(* them (runtime/ltj/delta.rs).                                            *)
(*                                                                         *)
(* The index is built from the merged view, at open or by the first query  *)
(* that finds none; a sidecar is read instead only while the overlay holds *)
(* nothing that changes a triple, and describes the same triples.  It      *)
(* remembers where the overlay stood (its stamp).  After a statement that  *)
(* succeeded, the delta since the stamp is computed again, or the index is *)
(* dropped.  After a statement that failed nothing is done.                *)
(*                                                                         *)
(* The six orderings and their two representations hold one set of         *)
(* triples, which is all that is kept of them here.  A statement is any    *)
(* sequence of writes to nodes and edges that were ever allocated, more    *)
(* than DmStatement allows; a new node, a node label or a property is in   *)
(* no triple, and these writes are left out.                               *)
(***************************************************************************)
EXTENDS Overlay

CONSTANTS
  NoIndex,     \* the connection holds no index
  NoLabel,     \* the predicate of an edge without labels
  MaxDelta     \* MAX_DELTA_TRIPLES: a larger delta is dropped

ASSUME TripleAssumption == NoLabel \notin Labels /\ MaxDelta \in Nat

VARIABLES
  writing,     \* a statement has begun to write
  index,       \* Connection.triple_index
  unnoticed,   \* history: a statement failed while this index was held
  relabelled   \* history: an overlay edge of this index changed its labels

cacheVars == <<index, unnoticed, relabelled>>
tripleVars == <<overlayVars, writing, cacheVars>>

(***************************************************************************)
(* The triples of an edge: one per label, in both senses when the edge is  *)
(* undirected.  An index entry carries the id of its edge.                 *)
(***************************************************************************)
TriplesOf(e) ==
  LET predicates == IF EdgeLabels(e) = {} THEN {NoLabel} ELSE EdgeLabels(e)
      forward == {<<Src(e), l, Tgt(e), e>> : l \in predicates}
      backward == {<<Tgt(e), l, Src(e), e>> : l \in predicates}
  IN  IF IsDirected(e) THEN forward ELSE forward \cup backward

GraphTriples == UNION {TriplesOf(e) : e \in LiveEdges}

\* edge_mutations answers nothing while a base edge has staged labels.
BaseEdgeRelabelled == \E e \in BaseEdges : modEdgeLabels[e] # NoLabelMods

\* from_graph and stamp_overlay
BuiltIndex ==
  [built |-> GraphTriples,
   stamp |-> IF BaseEdgeRelabelled THEN [nextEdge |-> 0, deleted |-> {}]
                                   ELSE [nextEdge |-> NextEdgeId, deleted |-> deletedEdges],
   added |-> {},
   removed |-> {}]

\* Mutants: the edge at the watermark is taken for one the index holds; no watermark.
AddedPastWatermark(stamp) ==
  UNION {TriplesOf(e) : e \in {d \in LiveEdges : ~IsBaseEdge(d) /\ d > stamp.nextEdge}}
AddedWithoutWatermark(stamp) ==
  UNION {TriplesOf(e) : e \in {d \in LiveEdges : ~IsBaseEdge(d)}}

\* TripleDelta::build, measured from the stamp and not from the last delta.
Added(stamp) ==
  UNION {TriplesOf(e) : e \in {d \in LiveEdges : ~IsBaseEdge(d) /\ d >= stamp.nextEdge}}
Removed(stamp) == deletedEdges \ stamp.deleted

\* refresh: no delta expresses a relabelled base edge, or one that has outgrown its bound.
CanRefresh(i) == ~BaseEdgeRelabelled /\ Cardinality(Added(i.stamp)) <= MaxDelta
Refreshed(i) ==
  [built |-> i.built, stamp |-> i.stamp, added |-> Added(i.stamp), removed |-> Removed(i.stamp)]

\* What a join over the index reads: both sources merged, removed edges dropped.
IndexTriples(i) == {t \in i.built \cup i.added : t[4] \notin i.removed}

(***************************************************************************)
(* Actions.                                                                *)
(***************************************************************************)
TripleInit ==
  /\ OpenImage
  /\ writing = FALSE
  /\ index = BuiltIndex
  /\ unnoticed = FALSE
  /\ relabelled = FALSE

\* Connection::runtime, before a query: build the index if there is none.
Query ==
  /\ ~writing
  /\ index = NoIndex
  /\ index' = BuiltIndex
  /\ unnoticed' = FALSE
  /\ relabelled' = FALSE
  /\ UNCHANGED <<overlayVars, writing>>

\* The writes of a statement do not look at the index.
Insert ==
  /\ \E s, t \in LiveNodes, directed \in BOOLEAN, l \in SUBSET Labels, p \in PropMap :
        PushEdge(s, t, directed, l, p)
  /\ writing' = TRUE
  /\ UNCHANGED cacheVars

Delete ==
  /\ \/ \E n \in AllocatedNodes : DetachDeleteNode(n) \/ DeleteNodeNoDetach(n)
     \/ \E e \in AllocatedEdges : TombstoneEdge(e)
  /\ writing' = TRUE
  /\ UNCHANGED cacheVars

Relabel(e) ==
  /\ \E l \in Labels : AddEdgeLabel(e, l) \/ RemoveEdgeLabel(e, l)
  /\ writing' = TRUE
  /\ relabelled' = (relabelled \/ /\ index # NoIndex
                                  /\ ~IsBaseEdge(e)
                                  /\ e < index.stamp.nextEdge
                                  /\ EdgeLabels(e)' # EdgeLabels(e))
  /\ UNCHANGED <<index, unnoticed>>

\* run_dm after the statement succeeded, whether or not it wrote anything.
StatementSucceeds ==
  /\ writing' = FALSE
  /\ index' = IF index # NoIndex /\ CanRefresh(index) THEN Refreshed(index) ELSE NoIndex
  /\ unnoticed' = (unnoticed /\ index' # NoIndex)
  /\ relabelled' = (relabelled /\ index' # NoIndex)
  /\ UNCHANGED overlayVars

\* rollback_session; run_dm returns the error before it looks at the index.
StatementFails ==
  /\ ClearOverlay
  /\ writing' = FALSE
  /\ unnoticed' = (index # NoIndex)
  /\ UNCHANGED <<index, relabelled>>

TripleNext ==
  \/ Query
  \/ Insert
  \/ Delete
  \/ \E e \in AllocatedEdges : Relabel(e)
  \/ StatementSucceeds
  \/ StatementFails

TripleSpec == TripleInit /\ [][TripleNext]_tripleVars

(***************************************************************************)
(* Properties.                                                             *)
(***************************************************************************)
IndexIsExact == index # NoIndex => IndexTriples(index) = GraphTriples

\* Between statements the index, with its delta, holds exactly the triples of the merged
\* graph: over any number of refreshes from one stamp, with edges deleted that the build
\* had, that the delta added, or that were dead before.  Neither of the two histories the
\* code does not follow came in between: a failed statement, a relabelled overlay edge.
RefreshIsExact == ~writing /\ ~unnoticed /\ ~relabelled => IndexIsExact

\* The additions and the static part never hold the same triple, so a join reads no edge
\* twice.
DeltaAddsNothingTwice ==
  index # NoIndex /\ ~unnoticed => index.added \cap index.built = {}
=============================================================================
