----------------------------- MODULE CatalogCell -----------------------------
(***************************************************************************)
(* What save_catalog and the opening of a file promise of the catalog in   *)
(* it: a cell that is rewritten by one statement at a time.  While it is   *)
(* rewritten the file opens with the old catalog, with the new one or not  *)
(* at all; when the rewrite has returned Ok, with the new one.  Nothing is *)
(* promised once a write has failed.                                       *)
(***************************************************************************)
EXTENDS Integers

CONSTANTS
  Documents,      \* the catalogs, as saved
  Empty,          \* GraphTypeCatalog::new()
  Refused,        \* the error read_catalog returns
  MaxSaves,       \* bound on the catalogs saved
  MaxCrashes      \* bound on the crashes

ASSUME CellAssumption ==
  /\ Documents \cap {Empty, Refused} = {}
  /\ MaxSaves \in Nat /\ MaxCrashes \in Nat

VARIABLES
  file,       \* what the file would open with now
  catalog,    \* the catalog of the session
  busy,       \* save_catalog is running
  session,    \* "open", "closed" by a crash, "refused" to open
  broken,     \* a write has failed
  saves,
  crashes

cellVars == <<file, catalog, busy, session, broken, saves, crashes>>

CellInit ==
  /\ catalog \in Documents \cup {Empty}
  /\ file = catalog
  /\ busy = FALSE
  /\ session = "open"
  /\ broken = FALSE
  /\ saves = 0 /\ crashes = 0

SaveCatalog(d) ==
  /\ session = "open" /\ ~busy
  /\ saves < MaxSaves
  /\ saves' = saves + 1
  /\ catalog' = d
  /\ busy' = TRUE
  /\ UNCHANGED <<file, session, broken, crashes>>

Rewrite ==
  /\ session = "open" /\ busy
  /\ IF broken THEN file' \in Documents \cup {Empty, Refused}
               ELSE file' \in {Refused, catalog}
  /\ UNCHANGED <<catalog, busy, session, broken, saves, crashes>>

Saved ==
  /\ session = "open" /\ busy
  /\ IF broken THEN file' \in Documents \cup {Empty, Refused}
               ELSE file' = catalog
  /\ busy' = FALSE
  /\ UNCHANGED <<catalog, session, broken, saves, crashes>>

SaveFails ==
  /\ session = "open" /\ busy
  /\ busy' = FALSE
  /\ broken' = TRUE
  /\ UNCHANGED <<file, catalog, session, saves, crashes>>

Crash ==
  /\ session = "open"
  /\ crashes < MaxCrashes
  /\ crashes' = crashes + 1
  /\ session' = "closed"
  /\ busy' = FALSE
  /\ UNCHANGED <<file, catalog, broken, saves>>

Open ==
  /\ session = "closed"
  /\ session' = IF file = Refused THEN "refused" ELSE "open"
  /\ catalog' = file
  /\ UNCHANGED <<file, busy, broken, saves, crashes>>

CellNext ==
  \/ \E d \in Documents : SaveCatalog(d)
  \/ Rewrite \/ Saved \/ SaveFails
  \/ Crash \/ Open

CellSpec == CellInit /\ [][CellNext]_cellVars
==============================================================================
