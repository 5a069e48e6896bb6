---------------------------- MODULE SessionStore ----------------------------
(***************************************************************************)
(* The store of one database file over its sessions: statements            *)
(* (DmStatement), an explicit save (LazyGraphStore::save) and closing and  *)
(* opening the file again.  A process that dies loses everything but the   *)
(* file.                                                                   *)
(*                                                                         *)
(* A save materializes the merged view with ids compacted, writes it to    *)
(* <path>.tmp and renames that over <path>.  It does not touch the overlay *)
(* or the image the store has open: the session goes on over the old one.  *)
(* Pager::create refuses to write over a file, and nothing ever removes    *)
(* <path>.tmp: once a save has left one, no save of any session succeeds.  *)
(***************************************************************************)
EXTENDS DmStatement

CONSTANTS
  NoImage,     \* "no save is being made"
  MaxSaves     \* bound: saves that reach the rename

VARIABLES
  file,     \* the image at the database path
  tmp,      \* the image at <path>.tmp, while a save is writing it
  stale,    \* whether a save that did not reach the rename left <path>.tmp
  saves     \* number of renames, to bound the model

sessionVars == <<vars, file, tmp, stale, saves>>

(***************************************************************************)
(* materialize_to_graph: live nodes in id order get the ids 0, 1, ...;     *)
(* then the live directed edges and then the undirected ones, skipping     *)
(* any whose endpoint did not survive.                                     *)
(***************************************************************************)
Rank(S, i) == Cardinality({j \in S : j < i})

KeptEdges(directed) ==
  {e \in LiveEdges : IsDirected(e) = directed /\ Src(e) \in LiveNodes /\ Tgt(e) \in LiveNodes}

NewNodeId(n) == Rank(LiveNodes, n)
NewEdgeId(e) ==
  IF IsDirected(e) THEN Rank(KeptEdges(TRUE), e)
                   ELSE Cardinality(KeptEdges(TRUE)) + Rank(KeptEdges(FALSE), e)

\* Mutant: the endpoints are not sent through id_map.
EdgeImageUnmapped(e) ==
  [src |-> Src(e), tgt |-> Tgt(e), directed |-> IsDirected(e),
   labels |-> EdgeLabels(e), props |-> EdgeProps(e)]
\* Mutant: the staged label changes of a base edge are not materialized.
EdgeImageUnstaged(e) ==
  [src |-> NewNodeId(Src(e)), tgt |-> NewNodeId(Tgt(e)), directed |-> IsDirected(e),
   labels |-> EdgeRecordOf(e).labels, props |-> EdgeProps(e)]
EdgeImage(e) ==
  [src |-> NewNodeId(Src(e)), tgt |-> NewNodeId(Tgt(e)), directed |-> IsDirected(e),
   labels |-> EdgeLabels(e), props |-> EdgeProps(e)]

Materialized ==
  LET kept == KeptEdges(TRUE) \cup KeptEdges(FALSE)
      OldNode(i) == CHOOSE n \in LiveNodes : NewNodeId(n) = i
      OldEdge(i) == CHOOSE e \in kept : NewEdgeId(e) = i
  IN  [nodeCount |-> Cardinality(LiveNodes),
       edgeCount |-> Cardinality(kept),
       node |-> [i \in 0 .. Cardinality(LiveNodes) - 1 |->
                   [labels |-> NodeLabels(OldNode(i)), props |-> NodeProps(OldNode(i))]],
       edge |-> [i \in 0 .. Cardinality(kept) - 1 |-> EdgeImage(OldEdge(i))]]

SessionInit ==
  /\ Init
  /\ file = base
  /\ tmp = NoImage
  /\ stale = FALSE
  /\ saves = 0

Statement == Next /\ tmp = NoImage /\ UNCHANGED <<file, tmp, stale, saves>>

\* Save is a call of its own: no statement is being applied.
SaveWritesTmp ==
  /\ stmt = "idle"
  /\ tmp = NoImage /\ ~stale
  /\ saves < MaxSaves
  /\ tmp' = Materialized
  /\ UNCHANGED <<vars, file, stale, saves>>

\* The write or the rename fails: save returns the error, the file is untouched.
SaveFails ==
  /\ tmp # NoImage
  /\ tmp' = NoImage
  /\ stale' = TRUE
  /\ UNCHANGED <<vars, file, saves>>

SaveRenames ==
  /\ tmp # NoImage
  /\ file' = tmp
  /\ tmp' = NoImage
  /\ saves' = saves + 1
  /\ UNCHANGED <<vars, stale>>

\* The session ends, at any point, and the next one opens the file.
Reopen ==
  /\ base' = file
  /\ ResetOverlay
  /\ Idle
  /\ tmp' = NoImage
  /\ stale' = (stale \/ tmp # NoImage)
  /\ UNCHANGED <<file, saves>>

SessionNext == Statement \/ SaveWritesTmp \/ SaveFails \/ SaveRenames \/ Reopen

SessionSpec == SessionInit /\ [][SessionNext]_sessionVars

(***************************************************************************)
(* Properties.                                                             *)
(***************************************************************************)
GraphOf(image) == [node |-> image.node, edge |-> image.edge]

MergedView ==
  [node |-> [n \in LiveNodes |-> [labels |-> NodeLabels(n), props |-> NodeProps(n)]],
   edge |-> [e \in LiveEdges |->
               [EdgeRecordOf(e) EXCEPT !.labels = EdgeLabels(e), !.props = EdgeProps(e)]]]

Abstract == INSTANCE PropertyGraph
  WITH graph <- MergedView, opened <- GraphOf(base), saved <- GraphOf(file)

\* The overlay, the merged reads, the rollback and the save together behave as one
\* property graph: every step of the store is a step of PropertyGraph or changes nothing.
ImplementsPropertyGraph == Abstract!Spec

\* Every image a save leaves at the path is a well-formed one: dense ids, and edges
\* between its own nodes.
FileIsImage == IsImage(file)
=============================================================================
