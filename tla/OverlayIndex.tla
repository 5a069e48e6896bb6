---------------------------- MODULE OverlayIndex ----------------------------
(***************************************************************************)
(* The secondary indexes of a session, under data-modifying statements.    *)
(*                                                                         *)
(* SecondaryIndex (store/secondary_index.rs) maps a (label, property) pair *)
(* to buckets of node ids.  It is built when the file is opened, or by a   *)
(* CREATE INDEX, and no write updates it.  OverlayNodeIndex                *)
(* (store/overlay_index.rs) is a delta beside it: the nodes the overlay    *)
(* touched, re-filed under their merged labels and properties.  A lookup   *)
(* first brings the delta up to date from the overlay's log of touched     *)
(* nodes, then answers  base - deleted - shadowed + delta  (store/lazy.rs).*)
(*                                                                         *)
(* A hash and a btree index of one pair are two indexes here; equality,    *)
(* range and ordered lookups all read key by key, so an answer is modelled *)
(* per index and key.                                                      *)
(*                                                                         *)
(* Writes are the node methods of GraphAccessMut, in any order and on any  *)
(* node that was ever allocated: more orders than statements produce (a    *)
(* row names a dead node only within one statement).  Edges change nothing *)
(* an index reads, and are left out.                                       *)
(***************************************************************************)
EXTENDS Overlay

CONSTANTS
  Keyable,      \* values an index can hold: IndexKey::from_value is not None
  OpenIndexes,  \* the indexes built when the file is opened
  MaxLog        \* bound: entries of the touched-node log

Kinds == {"hash", "btree"}
Indexes == Labels \X Props \X Kinds

ASSUME IndexAssumption ==
  Keyable \subseteq Values /\ OpenIndexes \subseteq Indexes /\ MaxLog \in Nat

VARIABLES
  log,         \* MutationOverlay.touched_node_log
  secondary,   \* index -> set of <<key, node>>: hashes and btrees of SecondaryIndex
  delta,       \* OverlayNodeIndex
  lagging,     \* history: a rollback happened that the delta has not noticed
  midSession   \* history: the indexes created while the overlay held node changes

indexVars == <<overlayVars, log, secondary, delta, lagging, midSession>>

EmptyDelta == [filed |-> {}, shadowed |-> {}, absorbed |-> 0, witness |-> <<0, 0, 0, 0>>]

\* What one pass over the merged nodes files under an index, and what looking at
\* every node finds for a key.
Filings(nodes, i) ==
  {<<NodeProps(n)[i[2]], n>> :
      n \in {m \in nodes : i[1] \in NodeLabels(m) /\ NodeProps(m)[i[2]] \in Keyable}}
Scan(i, key) == {n \in LiveNodes : i[1] \in NodeLabels(n) /\ NodeProps(n)[i[2]] = key}

IndexedPairs == {<<i[1], i[2]>> : i \in DOMAIN secondary}

(***************************************************************************)
(* sync_overlay_index.                                                     *)
(***************************************************************************)
Witness ==
  <<Len(newNodes), Cardinality(deletedNodes),
    Cardinality({n \in NodeIds : modNodeProps[n] # NoPropMods}),
    Cardinality({n \in NodeIds : modNodeLabels[n] # NoLabelMods})>>

OverlayWasReset == Len(log) < delta.absorbed
WitnessDisagrees ==
  Len(log) = delta.absorbed /\ delta.absorbed > 0 /\ Witness # delta.witness

\* The nodes logged since the last sync, and the live ones' merged placements.
Pending == {log[k] : k \in delta.absorbed + 1 .. Len(log)}
Refiled ==
  UNION {{<<pair, NodeProps(n)[pair[2]], n>> :
            pair \in {q \in IndexedPairs : /\ q[1] \in NodeLabels(n)
                                          /\ NodeProps(n)[q[2]] \in Keyable}} :
         n \in Pending \cap LiveNodes}

\* Mutant: a touched node is filed again without retracting what it was filed under.
AbsorbedWithoutRetract ==
  [filed |-> delta.filed \cup Refiled,
   shadowed |-> delta.shadowed \cup {n \in Pending : IsBaseNode(n)},
   absorbed |-> Len(log),
   witness |-> Witness]

\* Retract what the touched nodes were filed under and file the live ones again.
Absorbed ==
  [filed |-> {f \in delta.filed : f[3] \notin Pending} \cup Refiled,
   shadowed |-> delta.shadowed \cup {n \in Pending : IsBaseNode(n)},
   absorbed |-> Len(log),
   witness |-> Witness]

\* The delta a lookup issued now would read, and whether it would trust it.
SyncedDelta ==
  IF OverlayWasReset THEN EmptyDelta ELSE IF WitnessDisagrees THEN delta ELSE Absorbed
Trusted == OverlayWasReset \/ ~WitnessDisagrees

\* surviving_base, and the delta's half of the answer.
SurvivingBase(i, key) ==
  {h[2] : h \in {g \in secondary[i] : g[1] = key}} \ (deletedNodes \cup SyncedDelta.shadowed)
DeltaHits(i, key) ==
  {f[3] : f \in {g \in SyncedDelta.filed : g[1] = <<i[1], i[2]>> /\ g[2] = key}}

(***************************************************************************)
(* Actions.                                                                *)
(***************************************************************************)
IndexInit ==
  /\ OpenImage
  /\ log = <<>>
  /\ secondary = [i \in OpenIndexes |-> Filings(LiveNodes, i)]
  /\ delta = EmptyDelta
  /\ lagging = FALSE
  /\ midSession = {}

\* Mutant: only the nodes of the overlay are logged.
TouchNewOnly(n) == Len(log) < MaxLog /\ log' = IF IsBaseNode(n) THEN log ELSE Append(log, n)
Touch(n) == Len(log) < MaxLog /\ log' = Append(log, n)

UpdateNode(n) ==
  \/ \E p \in Props, v \in Values \cup {Absent} : SetNodeProp(n, p, v)
  \/ \E m \in PropMap : ReplaceNodeProps(n, m)
  \/ \E l \in Labels : AddNodeLabel(n, l) \/ RemoveNodeLabel(n, l)

\* Every method that changes a node logs it.
InsertNode ==
  /\ \E l \in SUBSET Labels, p \in PropMap : PushNode(l, p)
  /\ Touch(NextNodeId)
  /\ UNCHANGED <<secondary, delta, lagging, midSession>>

WriteNode(n) ==
  /\ DetachDeleteNode(n) \/ DeleteNodeNoDetach(n) \/ UpdateNode(n)
  /\ Touch(n)
  /\ UNCHANGED <<secondary, delta, lagging, midSession>>

\* rollback_session clears the log and knows nothing of the delta.
Rollback ==
  /\ ClearOverlay
  /\ log' = <<>>
  /\ lagging' = (lagging \/ delta.absorbed > 0)
  /\ UNCHANGED <<secondary, delta, midSession>>

\* Any lookup: by a query, or by the MATCH of a statement.
Lookup ==
  /\ delta' = SyncedDelta
  /\ lagging' = (lagging /\ ~OverlayWasReset)
  /\ UNCHANGED <<overlayVars, log, secondary, midSession>>

\* build_declared: the buckets come from the merged view.
CreateIndex(i) ==
  /\ i \notin DOMAIN secondary
  /\ secondary' = [j \in DOMAIN secondary \cup {i} |->
                     IF j = i THEN Filings(NodesWithLabel(i[1]), i) ELSE secondary[j]]
  /\ midSession' = IF log = <<>> THEN midSession ELSE midSession \cup {i}
  /\ UNCHANGED <<overlayVars, log, delta, lagging>>

DropIndex(i) ==
  /\ secondary' = [j \in DOMAIN secondary \ {i} |-> secondary[j]]
  /\ midSession' = midSession \ {i}
  /\ UNCHANGED <<overlayVars, log, delta, lagging>>

IndexNext ==
  \/ InsertNode
  \/ \E n \in AllocatedNodes : WriteNode(n)
  \/ Rollback
  \/ Lookup
  \/ \E i \in Indexes : CreateIndex(i)
  \/ \E i \in DOMAIN secondary : DropIndex(i)

IndexSpec == IndexInit /\ [][IndexNext]_indexVars

(***************************************************************************)
(* Properties.                                                             *)
(***************************************************************************)

\* The answer is what a scan finds, and names no node twice.
AnswerIsExact(i, key) ==
  /\ SurvivingBase(i, key) \cup DeltaHits(i, key) = Scan(i, key)
  /\ SurvivingBase(i, key) \cap DeltaHits(i, key) = {}

\* Whatever mix of inserts, deletes, relabels and property writes came before, a lookup on
\* an index that was built before them answers what a scan of the merged view answers,
\* unless a rollback it has not noticed came in between.
TrustedLookupIsExact ==
  ~lagging /\ Trusted => \A i \in DOMAIN secondary \ midSession, key \in Keyable : AnswerIsExact(i, key)

\* Without such a rollback the index is never declined: no mutation path forgets its
\* touch_node, so the witness of four collection sizes never disagrees with the log.
IndexIsNeverDeclined == ~lagging => Trusted
=============================================================================
