---------------------------- MODULE Catalog_proofs ----------------------------
(***************************************************************************)
(* The properties of the graph-type catalog of a session, for every set of *)
(* names and shapes and any number of statements, saves, crashes and       *)
(* reopenings.                                                             *)
(*                                                                         *)
(* The invariant says of every place a catalog is kept in, the session,    *)
(* the file it has open and the file a save has put under its name, that   *)
(* it is sound, and how the three belong together: while a rewrite runs,   *)
(* the catalog it writes is the session's; between statements, the file    *)
(* holds the session's user-defined types.                                 *)
(***************************************************************************)
EXTENDS Catalog, TLAPS

Sound(text) ==
  /\ text.active \in Names => text.types[text.active] # NoType
  /\ \A n \in Types : text.verdicts[n] # NoVerdict => text.verdicts[n].type = text.types[n]

Typed ==
  /\ types \in TypeMaps /\ verdicts \in VerdictMaps /\ active \in Types \cup {None}
  /\ graph \in SUBSET Shapes /\ base \in SUBSET Shapes
  /\ dirty \in BOOLEAN /\ parted \in BOOLEAN /\ held \in BOOLEAN
  /\ busy \in BOOLEAN /\ session \in {"open", "closed", "refused"} /\ broken = FALSE

Current == Text(types, active, verdicts)

FileSound == file \in Texts \cup {Empty, Refused} /\ (file \in Texts => Sound(file))
RenamedSound ==
  /\ renamed.present \in BOOLEAN
  /\ renamed.present =>
       /\ renamed.text \in Texts /\ Sound(renamed.text)
       /\ renamed.graph \in SUBSET Shapes /\ renamed.parted \in BOOLEAN
       /\ renamed.text.types[DEFAULT] # NoType /\ ~renamed.parted =>
            renamed.text.types[DEFAULT] = renamed.graph
RewriteIsCurrent == busy => session = "open" /\ catalog = Current

DefaultInv ==
  session = "open" /\ ~dirty /\ types[DEFAULT] # NoType /\ ~parted => types[DEFAULT] = graph
HeldInv ==
  session = "open" /\ held => active \in Names /\ types[active] # NoType /\ graph \subseteq types[active]

CatalogInv ==
  /\ Typed /\ FileSound /\ RenamedSound /\ RewriteIsCurrent
  /\ session = "open" => Sound(Current)
  /\ DefaultInv /\ HeldInv /\ StatementsAreSaved

USE DEF Types, Text, Texts, TypeMaps, VerdictMaps

\* What save_catalog would write now can be written.
LEMMA CurrentIsText == Typed => Current \in Texts
  BY DEF Typed, Current

\* So can a catalog without types, and it is sound.
LEMMA NoTypesIsSound == NoTypes \in Texts /\ Sound(NoTypes)
  BY NamesAssumption DEF NoTypes, Sound

\* Reading a catalog back gives what was written.
LEMMA ParsedText ==
  /\ Parsed(Empty) = NoTypes
  /\ \A text \in Texts : Parsed(text) = text
  BY TextsAssumption DEF Parsed

\* A refresh touches DEFAULT and its verdict only, and leaves a sound catalog sound.
LEMMA RefreshIsSound ==
  ASSUME Typed, Sound(Current)
  PROVE  /\ RefreshedTypes \in TypeMaps /\ RefreshedVerdicts \in VerdictMaps
         /\ \A n \in Names : RefreshedTypes[n] = types[n]
         /\ Sound(Text(RefreshedTypes, active, RefreshedVerdicts))
         /\ RefreshedTypes[DEFAULT] # NoType
         /\ NeedsRefresh => RefreshedTypes[DEFAULT] = graph
         /\ ~NeedsRefresh => RefreshedTypes = types /\ RefreshedVerdicts = verdicts
<1>1. RefreshedTypes \in TypeMaps /\ RefreshedVerdicts \in VerdictMaps
  BY DEF Typed, RefreshedTypes, RefreshedVerdicts, Inferred, Unvalidated
<1>2. \A n \in Names : RefreshedTypes[n] = types[n]
  BY NamesAssumption DEF Typed, RefreshedTypes, Inferred
<1>3. Sound(Text(RefreshedTypes, active, RefreshedVerdicts))
  BY NamesAssumption DEF Typed, Sound, Current, RefreshedTypes, RefreshedVerdicts, Inferred, Unvalidated
<1>4. /\ RefreshedTypes[DEFAULT] # NoType
      /\ NeedsRefresh => RefreshedTypes[DEFAULT] = graph
      /\ ~NeedsRefresh => RefreshedTypes = types /\ RefreshedVerdicts = verdicts
  BY TextsAssumption DEF Typed, RefreshedTypes, RefreshedVerdicts, Inferred, NeedsRefresh
<1>5. QED
  BY <1>1, <1>2, <1>3, <1>4

\* The invariant holds before the file is opened for the first time.
LEMMA InitEstablishes == SessionInit => CatalogInv
<1> SUFFICES ASSUME SessionInit PROVE CatalogInv
  OBVIOUS
<1>1. Typed
  BY DEF SessionInit, CellInit, NoTypes, Typed
<1>2. FileSound /\ RenamedSound /\ RewriteIsCurrent
  BY TextsAssumption DEF SessionInit, CellInit, NotRenamed, FileSound, RenamedSound, RewriteIsCurrent
<1>3. Sound(Current)
  BY NamesAssumption DEF SessionInit, Sound, Current, NoTypes
<1>4. DefaultInv /\ HeldInv
  BY DEF SessionInit, DefaultInv, HeldInv
<1>5. StatementsAreSaved
  BY ParsedText DEF SessionInit, CellInit, StatementsAreSaved, NoTypes
<1>6. QED
  BY <1>1, <1>2, <1>3, <1>4, <1>5 DEF CatalogInv

(***************************************************************************)
(* Steps that save the catalog: what they write is the catalog they leave. *)
(***************************************************************************)
LEMMA SaveTypesStep ==
  ASSUME CatalogInv, SaveTypes, Statement, Typed', Sound(Current)', UNCHANGED renamed,
         DefaultInv', HeldInv'
  PROVE  CatalogInv'
<1>1. file' = file /\ session' = "open" /\ busy' = TRUE /\ catalog' = Current'
  BY DEF SaveTypes, SaveCatalog, Statement, Current
<1>2. FileSound' /\ RenamedSound' /\ RewriteIsCurrent'
  BY <1>1 DEF CatalogInv, FileSound, RenamedSound, RewriteIsCurrent, Sound
<1>3. StatementsAreSaved'
  BY <1>1 DEF StatementsAreSaved, Statement
<1>4. QED
  BY <1>1, <1>2, <1>3 DEF CatalogInv

\* CREATE GRAPH TYPE: an old verdict goes with the type it was for.
LEMMA CreateKeeps ==
  ASSUME CatalogInv, NEW n \in Names, NEW shapes \in SUBSET Shapes, CreateType(n, shapes)
  PROVE  CatalogInv'
<1>1. Statement /\ session = "open" /\ SaveTypes /\ UNCHANGED renamed /\ Typed /\ Sound(Current)
  BY DEF CreateType, CatalogInv, Statement
<1>2. Typed'
  BY <1>1, TextsAssumption DEF CreateType, SaveTypes, SaveCatalog, Typed, Unvalidated
<1>3. Sound(Current)'
  BY <1>1, TextsAssumption DEF CreateType, Typed, Sound, Current, Unvalidated
<1>4. DefaultInv'
  BY <1>1, NamesAssumption DEF CreateType, CatalogInv, DefaultInv, Typed
<1>5. HeldInv'
  BY <1>1 DEF CreateType, CatalogInv, HeldInv, Typed
<1>6. QED
  BY <1>1, <1>2, <1>3, <1>4, <1>5, SaveTypesStep

\* USE GRAPH TYPE DEFAULT infers it again and forgets its verdict.
LEMMA UseDefaultKeeps ==
  ASSUME CatalogInv, UseDefault
  PROVE  CatalogInv'
<1>1. Statement /\ session = "open" /\ SaveTypes /\ UNCHANGED renamed /\ Typed /\ Sound(Current)
  BY DEF UseDefault, CatalogInv, Statement
<1>2. Typed'
  BY <1>1 DEF UseDefault, SaveTypes, SaveCatalog, Typed, Unvalidated, Inferred
<1>3. Sound(Current)'
  BY <1>1, NamesAssumption DEF UseDefault, Typed, Sound, Current, Unvalidated, Inferred
<1>4. DefaultInv' /\ HeldInv'
  BY <1>1 DEF UseDefault, DefaultInv, HeldInv, Typed, Inferred
<1>5. QED
  BY <1>1, <1>2, <1>3, <1>4, SaveTypesStep

\* USE makes a name active that stands for a type.
LEMMA UseKeeps ==
  ASSUME CatalogInv, NEW n \in Names, UseType(n)
  PROVE  CatalogInv'
<1>1. Statement /\ session = "open" /\ SaveTypes /\ UNCHANGED renamed /\ Typed /\ Sound(Current)
  BY DEF UseType, CatalogInv, Statement
<1>2. Typed'
  BY <1>1 DEF UseType, SaveTypes, SaveCatalog, Typed
<1>3. Sound(Current)'
  BY <1>1 DEF UseType, Typed, Sound, Current
<1>4. DefaultInv' /\ HeldInv'
  BY <1>1 DEF UseType, CatalogInv, DefaultInv, HeldInv, Typed
<1>5. QED
  BY <1>1, <1>2, <1>3, <1>4, SaveTypesStep

\* DROP takes the active name with the type.
LEMMA DropKeeps ==
  ASSUME CatalogInv, NEW n \in Names, DropType(n)
  PROVE  CatalogInv'
<1>1. Statement /\ session = "open" /\ SaveTypes /\ UNCHANGED renamed /\ Typed /\ Sound(Current)
  BY DEF DropType, CatalogInv, Statement
<1>2. Typed'
  BY <1>1 DEF DropType, SaveTypes, SaveCatalog, Typed, Unvalidated, ActiveAfterDrop
<1>3. Sound(Current)'
  BY <1>1, NamesAssumption DEF DropType, Typed, Sound, Current, Unvalidated, ActiveAfterDrop
<1>4. DefaultInv'
  BY <1>1, NamesAssumption DEF DropType, CatalogInv, DefaultInv, Typed
<1>5. HeldInv'
  BY <1>1 DEF DropType, CatalogInv, HeldInv, Typed, ActiveAfterDrop
<1>6. QED
  BY <1>1, <1>2, <1>3, <1>4, <1>5, SaveTypesStep

\* VALIDATE keeps its verdict with the type it walked.
LEMMA ValidateKeeps ==
  ASSUME CatalogInv, NEW n \in Types, ValidateType(n)
  PROVE  CatalogInv'
<1>1. Statement /\ session = "open" /\ SaveTypes /\ UNCHANGED renamed /\ Typed /\ Sound(Current)
  BY DEF ValidateType, CatalogInv, Statement
<1>2. Typed'
  BY <1>1 DEF ValidateType, SaveTypes, SaveCatalog, Typed
<1>3. Sound(Current)'
  BY <1>1 DEF ValidateType, Typed, Sound, Current
<1>4. DefaultInv' /\ HeldInv'
  BY <1>1 DEF ValidateType, CatalogInv, DefaultInv, HeldInv, Typed
<1>5. QED
  BY <1>1, <1>2, <1>3, <1>4, SaveTypesStep

(***************************************************************************)
(* Statements that leave the file alone.                                   *)
(***************************************************************************)
LEMMA UnsavedStep ==
  ASSUME CatalogInv, Statement, UNCHANGED <<cellVars, active>>, Typed', Sound(Current)',
         \A n \in Names : types'[n] = types[n], RenamedSound', DefaultInv', HeldInv'
  PROVE  CatalogInv'
<1>1. FileSound' /\ RewriteIsCurrent'
  BY DEF CatalogInv, FileSound, RewriteIsCurrent, cellVars, Statement, Sound
<1>2. StatementsAreSaved'
  BY DEF CatalogInv, StatementsAreSaved, cellVars, Statement, Parsed
<1>3. QED
  BY <1>1, <1>2 DEF CatalogInv

\* A query refreshes DEFAULT when it is dirty.
LEMMA QueryKeeps ==
  ASSUME CatalogInv, Query
  PROVE  CatalogInv'
<1>1. Statement /\ session = "open" /\ Typed /\ Sound(Current)
  BY DEF Query, CatalogInv, Statement
<1>2. Typed'
  BY <1>1, RefreshIsSound DEF Query, Typed, cellVars, PartedAfterRefresh, NeedsRefresh
<1>3. Sound(Current)' /\ \A n \in Names : types'[n] = types[n]
  BY <1>1, RefreshIsSound DEF Query, Current
<1>4. RenamedSound'
  BY DEF Query, CatalogInv, RenamedSound, Sound
<1>5. DefaultInv'
  BY <1>1, RefreshIsSound DEF Query, CatalogInv, DefaultInv, PartedAfterRefresh, NeedsRefresh, Typed
<1>6. HeldInv'
  BY <1>1, RefreshIsSound DEF Query, CatalogInv, HeldInv, cellVars
<1>7. QED
  BY <1>1, <1>2, <1>3, <1>4, <1>5, <1>6, UnsavedStep DEF Query

\* What fetching the active type leaves, also when it refreshes DEFAULT.
LEMMA FetchIsSound ==
  ASSUME Typed, Sound(Current), FetchSchema, active' = active
  PROVE  /\ types' \in TypeMaps /\ verdicts' \in VerdictMaps
         /\ Sound(Current)' /\ \A n \in Names : types'[n] = types[n]
         /\ FetchesSchema => types' = RefreshedTypes
         /\ ~FetchesSchema => types' = types
  BY RefreshIsSound DEF FetchSchema, Current, Typed

\* A statement that succeeded has kept to the active type, and marks DEFAULT dirty.
LEMMA DmSucceedsKeeps ==
  ASSUME CatalogInv, NEW added \in SUBSET Shapes, NEW removed \in SUBSET Shapes,
         DmSucceeds(added, removed)
  PROVE  CatalogInv'
<1>1. Statement /\ session = "open" /\ Typed /\ Sound(Current) /\ FetchSchema /\ active' = active
  BY DEF DmSucceeds, CatalogInv, Statement
<1>2. Typed'
  BY <1>1, FetchIsSound DEF DmSucceeds, Typed, cellVars, DirtyAfter
<1>3. RenamedSound' /\ DefaultInv'
  BY DEF DmSucceeds, CatalogInv, RenamedSound, Sound, DefaultInv, DirtyAfter
<1>4. HeldInv'
  BY <1>1, FetchIsSound DEF DmSucceeds, CatalogInv, HeldInv, cellVars, Admits
<1>5. QED
  BY <1>1, <1>2, <1>3, <1>4, FetchIsSound, UnsavedStep DEF DmSucceeds

\* A statement that failed takes the graph back to the one of the open file.
LEMMA DmFailsKeeps ==
  ASSUME CatalogInv, DmFails
  PROVE  CatalogInv'
<1>1. Statement /\ session = "open" /\ Typed /\ Sound(Current) /\ FetchSchema /\ active' = active
  BY DEF DmFails, CatalogInv, Statement
<1>2. Typed'
  BY <1>1, FetchIsSound DEF DmFails, Typed, cellVars, FetchesSchema
<1>3. RenamedSound' /\ HeldInv'
  BY DEF DmFails, CatalogInv, RenamedSound, Sound, HeldInv
<1>4. DefaultInv'
  BY <1>1, FetchIsSound, RefreshIsSound
  DEF DmFails, CatalogInv, DefaultInv, Typed, FetchesSchema, NeedsRefresh
<1>5. QED
  BY <1>1, <1>2, <1>3, <1>4, FetchIsSound, UnsavedStep DEF DmFails

\* What a save writes is the refreshed catalog beside the graph it was refreshed with.
LEMMA SaveKeeps ==
  ASSUME CatalogInv, Save
  PROVE  CatalogInv'
<1>1. Statement /\ session = "open" /\ Typed /\ Sound(Current)
  BY DEF Save, CatalogInv, Statement
<1>2. Typed'
  BY <1>1, RefreshIsSound DEF Save, Typed, cellVars, PartedAfterRefresh, NeedsRefresh
<1>3. Sound(Current)' /\ \A n \in Names : types'[n] = types[n]
  BY <1>1, RefreshIsSound DEF Save, Current
<1>4. DefaultInv'
  BY <1>1, RefreshIsSound DEF Save, CatalogInv, DefaultInv, PartedAfterRefresh, NeedsRefresh, Typed
<1>5. HeldInv'
  BY <1>1, RefreshIsSound DEF Save, CatalogInv, HeldInv, cellVars
<1>6. RenamedSound'
  <2>1. renamed' = [graph |-> graph, text |-> Text(types', active, verdicts'),
                    parted |-> parted', present |-> TRUE]
    BY DEF Save
  <2>2. Current' = Text(types', active, verdicts') /\ graph' = graph
    BY DEF Save, Current
  <2>3. Current' \in Texts
    BY <1>2, <2>2 DEF Typed, Save, cellVars
  <2>4. types'[DEFAULT] # NoType /\ ~parted' => types'[DEFAULT] = graph
    BY <1>1, <1>4, <2>2 DEF DefaultInv, Save, cellVars
  <2>5. QED
    BY <1>2, <1>3, <2>1, <2>2, <2>3, <2>4 DEF RenamedSound, Typed
<1>7. QED
  BY <1>1, <1>2, <1>3, <1>4, <1>5, <1>6, UnsavedStep DEF Save

(***************************************************************************)
(* Steps of the file, and the end and the beginning of a session.          *)
(***************************************************************************)
LEMMA FileStepKeeps ==
  ASSUME CatalogInv, FileStep
  PROVE  CatalogInv'
<1>1. /\ session = "open" /\ busy /\ catalog = Current /\ broken = FALSE
      /\ UNCHANGED typeVars /\ catalog' = catalog /\ session' = session /\ broken' = broken
      /\ file' \in {Refused, catalog}
      /\ busy' = TRUE \/ (busy' = FALSE /\ file' = catalog)
  BY DEF FileStep, Rewrite, Saved, CatalogInv, Typed, RewriteIsCurrent
<1>2. Current \in Texts /\ Current' = Current /\ Sound(Current)
  BY <1>1, CurrentIsText DEF CatalogInv, Current, typeVars
<1>3. Typed' /\ RenamedSound' /\ DefaultInv' /\ HeldInv' /\ Sound(Current)'
  <2>1. /\ types' = types /\ active' = active /\ verdicts' = verdicts /\ dirty' = dirty /\ graph' = graph
        /\ base' = base /\ renamed' = renamed /\ parted' = parted /\ held' = held
    BY <1>1 DEF typeVars
  <2>2. Typed'
    BY <1>1, <2>1 DEF CatalogInv, Typed
  <2>3. RenamedSound'
    BY <2>1 DEF CatalogInv, RenamedSound, Sound
  <2>4. DefaultInv' /\ HeldInv'
    BY <1>1, <2>1 DEF CatalogInv, DefaultInv, HeldInv
  <2>5. Sound(Current)'
    BY <1>2, <2>1 DEF Sound, Current
  <2> QED
    BY <2>2, <2>3, <2>4, <2>5
<1>4. FileSound' /\ RewriteIsCurrent'
  <2>1. RewriteIsCurrent'
    BY <1>1, <1>2 DEF RewriteIsCurrent
  <2>2. Sound(Current)'
    BY <1>3
  <2>3. file' = Refused \/ (file' = Current' /\ Current' \in Texts)
    BY <1>1, <1>2
  <2> QED
    BY <2>1, <2>2, <2>3, TextsAssumption DEF FileSound, Sound
<1>5. StatementsAreSaved'
  <2>1. CASE busy'
    BY <2>1 DEF StatementsAreSaved, Statement
  <2>2. CASE ~busy'
    <3>1. file' = Current /\ Current \in Texts
      BY <1>1, <1>2, <2>2
    <3>2. Parsed(file)' = Text(types, active, verdicts)
      BY <3>1, ParsedText DEF Parsed, Current
    <3>3. types' = types /\ active' = active
      BY <1>1 DEF typeVars
    <3>4. QED
      BY <3>2, <3>3 DEF StatementsAreSaved
  <2>3. QED
    BY <2>1, <2>2
<1>6. QED
  BY <1>1, <1>3, <1>4, <1>5 DEF CatalogInv

\* A crash leaves the files.
LEMMA CrashKeeps ==
  ASSUME CatalogInv, SessionCrash
  PROVE  CatalogInv'
<1>1. session' = "closed" /\ busy' = FALSE /\ UNCHANGED typeVars /\ UNCHANGED <<file, catalog, broken>>
  BY DEF SessionCrash, Crash
<1>2. Typed' /\ RewriteIsCurrent'
  BY <1>1 DEF CatalogInv, Typed, RewriteIsCurrent, typeVars
<1>3. RenamedSound'
  BY <1>1 DEF CatalogInv, RenamedSound, typeVars, Sound
<1>4. FileSound'
  BY <1>1 DEF CatalogInv, FileSound, Sound
<1>5. QED
  BY <1>1, <1>2, <1>3, <1>4 DEF CatalogInv, DefaultInv, HeldInv, StatementsAreSaved, Statement

\* A sound text gives a sound session, and the names of the text.
LEMMA LoadIsSound ==
  ASSUME NEW text \in Texts \cup {Empty}, text \in Texts => Sound(text), LoadTypes(text)
  PROVE  /\ types' \in TypeMaps /\ verdicts' \in VerdictMaps /\ active' \in Types \cup {None}
         /\ dirty' \in BOOLEAN /\ held' = FALSE /\ Sound(Current)'
         /\ types' = Parsed(text).types
         /\ Parsed(text).active = None \/ Parsed(text).active = active'
<1>1. Parsed(text) \in Texts /\ Sound(Parsed(text))
  BY ParsedText, NoTypesIsSound
<1>2. QED
  BY <1>1, NamesAssumption DEF LoadTypes, Sound, Current

\* The file that was open is opened again.
LEMMA OpenSameKeeps ==
  ASSUME CatalogInv, OpenSameFile
  PROVE  CatalogInv'
<1>1. /\ session = "closed" /\ ~busy /\ ~busy' /\ file' = file /\ catalog' = file /\ broken' = broken
      /\ graph' = base /\ base' = base /\ parted' = TRUE /\ renamed' = renamed /\ busy' = busy
      /\ session' = IF file = Refused THEN "refused" ELSE "open"
  BY DEF OpenSameFile, Open, CatalogInv, RewriteIsCurrent
<1>2. FileSound' /\ RenamedSound' /\ RewriteIsCurrent' /\ DefaultInv'
  BY <1>1 DEF CatalogInv, FileSound, RenamedSound, RewriteIsCurrent, DefaultInv, Sound
<1>3. CASE file = Refused
  <2>1. UNCHANGED <<types, active, verdicts, dirty, held>> /\ session' = "refused"
    BY <1>1, <1>3 DEF OpenSameFile
  <2>2. QED
    BY <1>1, <1>2, <2>1 DEF CatalogInv, Typed, HeldInv, StatementsAreSaved, Statement
<1>4. CASE file # Refused
  <2>1. LoadTypes(file) /\ session' = "open"
    BY <1>1, <1>4 DEF OpenSameFile
  <2>2. file \in Texts \cup {Empty} /\ (file \in Texts => Sound(file))
    BY <1>4 DEF CatalogInv, FileSound
  <2>3. Typed' /\ Sound(Current)' /\ HeldInv'
    BY <1>1, <2>1, <2>2, LoadIsSound DEF CatalogInv, Typed, HeldInv
  <2>4. StatementsAreSaved'
    BY <1>1, <2>1, <2>2, LoadIsSound DEF StatementsAreSaved, Parsed
  <2>5. QED
    BY <1>2, <2>3, <2>4 DEF CatalogInv
<1>5. QED
  BY <1>3, <1>4

\* The file a save has put under the name is opened.
LEMMA OpenSavedKeeps ==
  ASSUME CatalogInv, OpenSavedFile
  PROVE  CatalogInv'
<1> DEFINE text == renamed.text
<1>1. /\ renamed.present /\ ~busy' /\ busy' = busy /\ file' = text /\ catalog' = text /\ broken' = broken
      /\ graph' = renamed.graph /\ base' = renamed.graph /\ parted' = renamed.parted
      /\ renamed' = NotRenamed /\ session' = "open" /\ LoadTypes(text)
  BY DEF OpenSavedFile, CatalogInv, RewriteIsCurrent
<1>2. /\ text \in Texts /\ Sound(text) /\ renamed.graph \in SUBSET Shapes /\ renamed.parted \in BOOLEAN
      /\ text.types[DEFAULT] # NoType /\ ~renamed.parted => text.types[DEFAULT] = renamed.graph
  BY <1>1 DEF CatalogInv, RenamedSound
<1>3. Typed' /\ Sound(Current)' /\ HeldInv' /\ types' = text.types
  BY <1>1, <1>2, LoadIsSound, ParsedText DEF CatalogInv, Typed, HeldInv
<1>4. FileSound' /\ RenamedSound' /\ RewriteIsCurrent'
  BY <1>1, <1>2 DEF FileSound, RenamedSound, RewriteIsCurrent, NotRenamed, Sound
<1>5. DefaultInv'
  BY <1>1, <1>2, <1>3 DEF DefaultInv
<1>6. StatementsAreSaved'
  BY <1>1, <1>2, LoadIsSound DEF StatementsAreSaved, Parsed
<1>7. QED
  BY <1>3, <1>4, <1>5, <1>6 DEF CatalogInv

\* A step that changes nothing keeps the invariant.
LEMMA StutterKeeps ==
  ASSUME CatalogInv, UNCHANGED sessionVars
  PROVE  CatalogInv'
<1>1. Typed' /\ FileSound' /\ RenamedSound' /\ RewriteIsCurrent' /\ Current' = Current
  BY DEF CatalogInv, sessionVars, cellVars, typeVars, Typed, FileSound, RenamedSound,
         RewriteIsCurrent, Current, Sound
<1>2. DefaultInv' /\ HeldInv' /\ StatementsAreSaved'
  BY DEF CatalogInv, sessionVars, cellVars, typeVars, DefaultInv, HeldInv, StatementsAreSaved,
         Statement, Parsed
<1>3. QED
  BY <1>1, <1>2 DEF CatalogInv, Sound, sessionVars, cellVars

\* Every step keeps it.
LEMMA StepKeeps == CatalogInv /\ [SessionNext]_sessionVars => CatalogInv'
<1> SUFFICES ASSUME CatalogInv, [SessionNext]_sessionVars PROVE CatalogInv'
  OBVIOUS
<1>1. CASE Query \/ DmFails \/ UseDefault \/ Save
  BY <1>1, QueryKeeps, DmFailsKeeps, UseDefaultKeeps, SaveKeeps
<1>2. CASE \E added, removed \in SUBSET Shapes : DmSucceeds(added, removed)
  BY <1>2, DmSucceedsKeeps
<1>3. CASE \E n \in Names : \E shapes \in SUBSET Shapes : CreateType(n, shapes)
  BY <1>3, CreateKeeps
<1>4. CASE \E n \in Names : UseType(n) \/ DropType(n)
  BY <1>4, UseKeeps, DropKeeps
<1>5. CASE \E n \in Types : ValidateType(n)
  BY <1>5, ValidateKeeps
<1>6. CASE FileStep \/ SessionCrash \/ OpenSameFile \/ OpenSavedFile
  BY <1>6, FileStepKeeps, CrashKeeps, OpenSameKeeps, OpenSavedKeeps
<1>7. CASE UNCHANGED sessionVars
  BY <1>7, StutterKeeps
<1>8. QED
  BY <1>1, <1>2, <1>3, <1>4, <1>5, <1>6, <1>7 DEF SessionNext

(***************************************************************************)
(* The theorems.                                                           *)
(***************************************************************************)
\* The invariant holds in every reachable state.
THEOREM CatalogInvariant == SessionSpec => []CatalogInv
  BY InitEstablishes, StepKeeps, PTL DEF SessionSpec

\* DEFAULT describes the graph whenever it is not marked dirty (refresh_default_if_dirty).
THEOREM DefaultIsDescribed == SessionSpec => []DefaultDescribesGraph
<1>1. CatalogInv => DefaultDescribesGraph
  BY DEF CatalogInv, DefaultInv, DefaultDescribesGraph, Statement
<1>2. QED
  BY <1>1, CatalogInvariant, PTL

\* The active name stands for a type, whatever is dropped, crashes or is opened again.
THEOREM ActiveExists == SessionSpec => []ActiveTypeExists
<1>1. CatalogInv => ActiveTypeExists
  BY DEF CatalogInv, Sound, Current, ActiveTypeExists
<1>2. QED
  BY <1>1, CatalogInvariant, PTL

\* A verdict stands beside the type that was walked.
THEOREM VerdictsFit == SessionSpec => []VerdictIsForItsType
<1>1. CatalogInv => VerdictIsForItsType
  BY DEF CatalogInv, Sound, Current, VerdictIsForItsType
<1>2. QED
  BY <1>1, CatalogInvariant, PTL

\* Checking what is written keeps a type that held holding.
THEOREM ValidatedHolds == SessionSpec => []ValidatedTypeHolds
<1>1. CatalogInv => ValidatedTypeHolds
  BY DEF CatalogInv, HeldInv, ValidatedTypeHolds
<1>2. QED
  BY <1>1, CatalogInvariant, PTL

\* A graph-type statement that has returned has saved what it changed.
THEOREM Saves == SessionSpec => []StatementsAreSaved
<1>1. CatalogInv => StatementsAreSaved
  BY DEF CatalogInv
<1>2. QED
  BY <1>1, CatalogInvariant, PTL
==============================================================================
