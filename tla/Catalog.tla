------------------------------- MODULE Catalog -------------------------------
(***************************************************************************)
(* Graph types in a session (runtime/catalog.rs, the graph-type statements *)
(* of connection.rs, and refresh_default_if_dirty, save and the opening of *)
(* a file in store/lazy.rs), over the catalog cell that CatalogFile        *)
(* implements.  Its rewrites may be cut short by a crash; one that fails   *)
(* and lets the session go on is CatalogFile's business.                   *)
(*                                                                         *)
(* A graph is the set of shapes its elements have, and a graph type is the *)
(* set of shapes it admits: infer_simple_schema answers the shapes of the  *)
(* graph.  The statements that change the catalog save it at once; data    *)
(* are kept in the overlay until save writes a new file under the same     *)
(* name, while the session goes on with the file it has open.              *)
(***************************************************************************)
EXTENDS CatalogCell, FiniteSets

CONSTANTS
  Shapes,      \* what elements of a graph can look like
  Names,       \* the names of user-defined graph types
  DEFAULT,     \* the reserved name
  None,        \* no active type
  NoType,      \* a name without a type
  NoVerdict    \* a type VALIDATE has not walked

ASSUME NamesAssumption == DEFAULT \notin Names /\ None \notin Names \cup {DEFAULT}

Types == Names \cup {DEFAULT}

VARIABLES
  types,       \* GraphTypeCatalog.types
  active,      \* GraphTypeCatalog.active
  verdicts,    \* GraphTypeCatalog.validations: the type that was walked, and whether it held
  dirty,       \* GraphTypeCatalog.default_dirty, which is not saved
  graph,       \* the shapes in the merged view
  base,        \* the shapes in the file the session has open
  renamed,     \* what save has put under the name of the file since, if anything
  parted,      \* history: changes DEFAULT may describe were dropped since it was inferred
  held         \* history: the active type was found to hold, and nothing but statements came since

typeVars == <<types, active, verdicts, dirty, graph, base, renamed, parted, held>>
sessionVars == <<cellVars, typeVars>>

NotRenamed == [graph |-> {}, text |-> Empty, parted |-> FALSE, present |-> FALSE]

(***************************************************************************)
(* The catalog as it is saved.                                             *)
(***************************************************************************)
Text(t, a, v) == [types |-> t, active |-> a, verdicts |-> v]
NoTypes == Text([n \in Types |-> NoType], None, [n \in Types |-> NoVerdict])

TypeMaps == [Types -> (SUBSET Shapes) \cup {NoType}]
VerdictMaps ==
  [Types -> [type : (SUBSET Shapes) \cup {NoType}, holds : BOOLEAN] \cup {NoVerdict}]
Texts == [types : TypeMaps, active : Types \cup {None}, verdicts : VerdictMaps]

ASSUME TextsAssumption ==
  /\ \A shapes \in SUBSET Shapes : shapes # NoType
  /\ \A text \in Texts : text \notin {Empty, Refused}

Parsed(text) == IF text = Empty THEN NoTypes ELSE text

Statement == session = "open" /\ ~busy

(***************************************************************************)
(* DEFAULT.  A refresh replaces its type and forgets its verdict.          *)
(***************************************************************************)
NeedsRefresh == dirty \/ types[DEFAULT] = NoType
Inferred == [types EXCEPT ![DEFAULT] = graph]
\* Mutant: a verdict outlives the type it was given for.
UnvalidatedKept(n) == verdicts
Unvalidated(n) == [verdicts EXCEPT ![n] = NoVerdict]

RefreshedTypes == IF NeedsRefresh THEN Inferred ELSE types
RefreshedVerdicts == IF NeedsRefresh THEN Unvalidated(DEFAULT) ELSE verdicts
PartedAfterRefresh == parted /\ ~NeedsRefresh

\* refresh_default_if_dirty, by every statement that is compiled against the active type.
Query ==
  /\ Statement
  /\ types' = RefreshedTypes
  /\ verdicts' = RefreshedVerdicts
  /\ dirty' = FALSE
  /\ parted' = PartedAfterRefresh
  /\ UNCHANGED <<cellVars, active, graph, base, renamed, held>>

(***************************************************************************)
(* Data.  Elements are checked against a user-defined active type as they  *)
(* are written (run_dm, validate_node_against_schema); fetching that type  *)
(* refreshes DEFAULT too.                                                  *)
(***************************************************************************)
FetchesSchema == active \in Names

\* Mutant: what is written is not checked.
AdmitsUnchecked(shapes) == TRUE
Admits(shapes) == active \in Names /\ types[active] # NoType => shapes \subseteq types[active]

FetchSchema ==
  IF FetchesSchema THEN /\ types' = RefreshedTypes
                        /\ verdicts' = RefreshedVerdicts
                   ELSE UNCHANGED <<types, verdicts>>

\* Mutant: DEFAULT is left as it was.
DirtyAfterUnmarked(graphNow) == dirty /\ ~FetchesSchema
DirtyAfter(graphNow) == TRUE

DmSucceeds(added, removed) ==
  /\ Statement
  /\ Admits(added)
  /\ FetchSchema
  /\ graph' = (graph \cup added) \ removed
  /\ dirty' = DirtyAfter(graph')
  /\ UNCHANGED <<cellVars, active, base, renamed, parted, held>>

\* The statement rolls the whole overlay back; run_dm returns before it marks DEFAULT.
DmFails ==
  /\ Statement
  /\ FetchSchema
  /\ dirty' = (dirty /\ ~FetchesSchema)
  /\ graph' = base
  /\ parted' = (parted \/ graph # base)
  /\ held' = FALSE
  /\ UNCHANGED <<cellVars, active, base, renamed>>

(***************************************************************************)
(* Statements on graph types.  Each ends in save_catalog.                  *)
(***************************************************************************)
\* Mutant: the catalog is saved before it is changed.
SaveTypesBefore == SaveCatalog(Text(types, active, verdicts))
SaveTypes == SaveCatalog(Text(types', active', verdicts'))

CreateType(n, shapes) ==
  /\ Statement
  /\ types' = [types EXCEPT ![n] = shapes]
  /\ verdicts' = Unvalidated(n)
  /\ held' = (held /\ active # n)
  /\ UNCHANGED <<active, dirty, graph, base, renamed>>
  /\ parted' = parted
  /\ SaveTypes

\* USE GRAPH TYPE DEFAULT: install_default
UseDefault ==
  /\ Statement
  /\ types' = Inferred
  /\ verdicts' = Unvalidated(DEFAULT)
  /\ active' = DEFAULT
  /\ dirty' = FALSE
  /\ parted' = FALSE
  /\ held' = FALSE
  /\ UNCHANGED <<graph, base, renamed>>
  /\ SaveTypes

UseType(n) ==
  /\ Statement
  /\ types[n] # NoType
  /\ active' = n
  /\ held' = (held /\ active = n)
  /\ UNCHANGED <<types, verdicts, dirty, graph, base, renamed, parted>>
  /\ SaveTypes

\* Mutant: the active type may be dropped and stays active.
ActiveAfterDropKept(n) == active
ActiveAfterDrop(n) == IF active = n THEN None ELSE active

DropType(n) ==
  /\ Statement
  /\ types[n] # NoType
  /\ types' = [types EXCEPT ![n] = NoType]
  /\ verdicts' = Unvalidated(n)
  /\ active' = ActiveAfterDrop(n)
  /\ held' = (held /\ active # n)
  /\ UNCHANGED <<dirty, graph, base, renamed, parted>>
  /\ SaveTypes

\* VALIDATE GRAPH TYPE walks the graph; DEFAULT is walked as it stands.
ValidateType(n) ==
  LET holds == graph \subseteq types[n]
  IN  /\ Statement
      /\ types[n] # NoType
      /\ verdicts' = [verdicts EXCEPT ![n] = [type |-> types[n], holds |-> holds]]
      /\ held' = (held \/ (n = active /\ n \in Names /\ holds))
      /\ UNCHANGED <<types, active, dirty, graph, base, renamed, parted>>
      /\ SaveTypes

(***************************************************************************)
(* save writes the whole database under the name of the file; the session  *)
(* keeps the file it has open, which no longer has a name.                 *)
(***************************************************************************)
Save ==
  /\ Statement
  /\ types' = RefreshedTypes
  /\ verdicts' = RefreshedVerdicts
  /\ dirty' = FALSE
  /\ parted' = PartedAfterRefresh
  /\ renamed' = [graph |-> graph, text |-> Text(types', active, verdicts'),
                 parted |-> parted', present |-> TRUE]
  /\ UNCHANGED <<cellVars, active, graph, base, held>>

SessionCrash == Crash /\ UNCHANGED typeVars

\* A catalog that names no active type gets DEFAULT, inferred when it is first needed.
LoadTypes(text) ==
  /\ types' = Parsed(text).types
  /\ verdicts' = Parsed(text).verdicts
  /\ active' = IF Parsed(text).active = None THEN DEFAULT ELSE Parsed(text).active
  /\ dirty' = (Parsed(text).active = None /\ Parsed(text).types[DEFAULT] = NoType)
  /\ held' = FALSE

OpenSameFile ==
  /\ ~renamed.present
  /\ Open
  /\ IF session' = "refused" THEN UNCHANGED <<types, active, verdicts, dirty, held>>
                           ELSE LoadTypes(catalog')
  /\ graph' = base
  /\ parted' = TRUE
  /\ UNCHANGED <<base, renamed>>

OpenSavedFile ==
  /\ renamed.present
  /\ session = "closed"
  /\ session' = "open"
  /\ file' = renamed.text
  /\ catalog' = renamed.text
  /\ LoadTypes(renamed.text)
  /\ graph' = renamed.graph
  /\ base' = renamed.graph
  /\ renamed' = NotRenamed
  /\ parted' = renamed.parted
  /\ UNCHANGED <<busy, broken, saves, crashes>>

\* A database that was just imported has no catalog; one saved by a session has one.
SessionInit ==
  /\ CellInit
  /\ catalog = Empty
  /\ graph \in SUBSET Shapes
  /\ base = graph
  /\ types = NoTypes.types
  /\ verdicts = NoTypes.verdicts
  /\ active = DEFAULT
  /\ dirty = TRUE
  /\ renamed = NotRenamed
  /\ parted = FALSE
  /\ held = FALSE

FileStep == (Rewrite \/ Saved) /\ UNCHANGED typeVars

SessionNext ==
  \/ Query
  \/ \E added, removed \in SUBSET Shapes : DmSucceeds(added, removed)
  \/ DmFails
  \/ \E n \in Names : \E shapes \in SUBSET Shapes : CreateType(n, shapes)
  \/ UseDefault
  \/ \E n \in Names : UseType(n) \/ DropType(n)
  \/ \E n \in Types : ValidateType(n)
  \/ Save
  \/ FileStep
  \/ SessionCrash \/ OpenSameFile \/ OpenSavedFile

SessionSpec == SessionInit /\ [][SessionNext]_sessionVars

(***************************************************************************)
(* Properties.                                                             *)
(***************************************************************************)

\* DEFAULT describes the graph whenever it is not marked dirty (is_default_dirty, catalog.rs:92),
\* as long as no change it was inferred with has been dropped since.
DefaultDescribesGraph ==
  Statement /\ ~dirty /\ types[DEFAULT] # NoType /\ ~parted => types[DEFAULT] = graph

\* The active name never stands for a type that is gone, which would switch checking off: through
\* DROP, crashes inside a rewrite and reopening.
ActiveTypeExists == session = "open" /\ active \in Names => types[active] # NoType

\* A verdict is never read beside another type than the one that was walked ("cleared whenever the
\* named type is replaced or dropped", catalog.rs:37).
VerdictIsForItsType ==
  session = "open" => \A n \in Types : verdicts[n] # NoVerdict => verdicts[n].type = types[n]

\* A type found to hold while active goes on to hold, whatever statements write and however the
\* catalog changes around it, as long as nothing is rolled back.
ValidatedTypeHolds == session = "open" /\ held => graph \subseteq types[active]

\* Between statements, the file the session has open holds the user-defined types and the active
\* name as the session has them: a statement that returned Ok has saved what it changed.
StatementsAreSaved ==
  LET text == Parsed(file)
  IN  Statement =>
        /\ \A n \in Names : text.types[n] = types[n]
        /\ text.active = None \/ text.active = active
==============================================================================
