----------------------------- MODULE CatalogFile -----------------------------
(***************************************************************************)
(* The graph-type catalog in its file (store/catalog_io.rs, and            *)
(* save_catalog, save and the opening of a file in store/lazy.rs): a chain *)
(* of pages that every CREATE, USE, DROP and VALIDATE GRAPH TYPE rewrites  *)
(* in place, beside the pages of the graph.                                *)
(*                                                                         *)
(* save_catalog frees the chain it replaces page by page, allocates a new  *)
(* one, most of it from the pages just freed and in the opposite order,    *)
(* writes it, and last points the header at it.  Each write to the file is *)
(* one action, so that the process may stop between any two of them, or a  *)
(* write may fail and the statement return an error while the session goes *)
(* on.                                                                     *)
(*                                                                         *)
(* A catalog is a document that takes one page or several; its text is its *)
(* parts in order.  The text of another document's part, or zeros where    *)
(* a part should be, does not parse.                                       *)
(***************************************************************************)
EXTENDS Pager

CONSTANTS
  Documents,      \* the catalogs, as saved
  Size,           \* how many pages the text of each takes
  Empty,          \* GraphTypeCatalog::new()
  Refused,        \* the error read_catalog returns
  Torn,           \* a text put together from the parts of several documents
  GraphPages,     \* bound: pages 1..GraphPages hold the graph when the file is opened
  MaxSaves,       \* bound on the catalogs saved
  MaxCrashes,     \* bound on the crashes
  MaxFailures     \* bound on the writes that fail

ASSUME CatalogAssumption ==
  /\ {Empty, Refused, Torn} \cap Documents = {}
  /\ Empty # Refused /\ Empty # Torn /\ Refused # Torn
  /\ Size \in [Documents -> Nat \ {0}]
  /\ GraphPages \in 0..LastPage
  /\ \A d \in Documents : GraphPages + Size[d] <= LastPage
  /\ MaxSaves \in Nat /\ MaxCrashes \in Nat /\ MaxFailures \in Nat
  /\ \A d \in Documents : \A i \in 1..Size[d] : <<d, i>> \in Bodies \ {Zeros}

VARIABLES
  root,       \* LazyGraphStore.catalog_root
  catalog,    \* the catalog of the session
  op,         \* where save_catalog has got to
  session,    \* "open", "closed" by a crash, "refused" to open
  saves,
  crashes,
  failures

counters == <<saves, crashes, failures>>
catalogVars == <<root, catalog, op, session, counters>>
fileVars == <<pagerVars, catalogVars>>

(***************************************************************************)
(* save_catalog, as it goes: freeing page `at` of the old chain, of which  *)
(* `linked` says the header write is still due; allocating pages, of which *)
(* `blank` has been appended but not yet counted in the file's header;     *)
(* writing part number Len(written) + 1 of the chain.                      *)
(***************************************************************************)
Idle == [step |-> "idle", at |-> 0, after |-> 0, pages |-> <<>>, written |-> 0]
Step(step) == [op EXCEPT !.step = step]

Running(step) == session = "open" /\ op.step = step

\* free_chain goes on until it has no next page; then write_chain allocates.
FreeFrom(p) == [Idle EXCEPT !.step = IF p = 0 THEN "allocate" ELSE "free", !.at = p]
Allocated(p) ==
  LET pages == Append(op.pages, p)
  IN  [op EXCEPT !.pages = pages,
                 !.step = IF Len(pages) = Size[catalog] THEN "write" ELSE "allocate"]

\* A DDL statement changes the catalog in memory, then saves it.
SaveCatalog(d) ==
  /\ Running("idle")
  /\ saves < MaxSaves
  /\ saves' = saves + 1
  /\ catalog' = d
  /\ op' = FreeFrom(root)
  /\ UNCHANGED <<pagerVars, root, session, crashes, failures>>

\* free_chain reads the link of the page before free_page writes over it.
FreeWrites ==
  /\ Running("free")
  /\ op.at < header.pageCount
  /\ PutPage(op.at, FreedPage(header.freeList))
  /\ op' = [op EXCEPT !.step = "link", !.after = PageRead(op.at).next]
  /\ UNCHANGED <<diskHeader, header, root, catalog, session, counters>>

FreeLinks ==
  /\ Running("link")
  /\ PutHeader([header EXCEPT !.freeList = op.at])
  /\ age' = Dropped(op.at)
  /\ op' = FreeFrom(op.after)
  /\ UNCHANGED <<disk, copy, root, catalog, session, counters>>

\* allocate_page, from the free list
AllocateFreed ==
  LET p == header.freeList
  IN  /\ Running("allocate")
      /\ p # 0
      /\ ReadPage(p)
      /\ PutHeader([header EXCEPT !.freeList = PageRead(p).start])
      /\ op' = Allocated(p)
      /\ UNCHANGED <<disk, root, catalog, session, counters>>

\* allocate_page, past the end of the file
AllocateAppends ==
  /\ Running("allocate")
  /\ header.freeList = 0
  /\ header.pageCount <= LastPage
  /\ PutPage(header.pageCount, BlankPage(Free))
  /\ header' = [header EXCEPT !.pageCount = @ + 1]
  /\ op' = Step("count")
  /\ UNCHANGED <<diskHeader, root, catalog, session, counters>>

AllocateCounts ==
  /\ Running("count")
  /\ PutHeader(header)
  /\ op' = Allocated(header.pageCount - 1)
  /\ UNCHANGED <<disk, age, copy, root, catalog, session, counters>>

\* Mutant: a page links to the page allocated before it.
ChainPageBackwards(i) ==
  [start |-> Catalog,
   next |-> IF i > 1 THEN op.pages[i - 1] ELSE 0,
   body |-> <<catalog, i>>]
ChainPage(i) ==
  [start |-> Catalog,
   next |-> IF i < Len(op.pages) THEN op.pages[i + 1] ELSE 0,
   body |-> <<catalog, i>>]

WriteChainPage ==
  LET i == op.written + 1
  IN  /\ Running("write")
      /\ PutPage(op.pages[i], ChainPage(i))
      /\ op' = [op EXCEPT !.written = i, !.step = IF i = Len(op.pages) THEN "root" ELSE "write"]
      /\ UNCHANGED <<diskHeader, header, root, catalog, session, counters>>

WriteRoot ==
  /\ Running("root")
  /\ PutHeader([header EXCEPT !.catalogRoot = op.pages[1]])
  /\ root' = op.pages[1]
  /\ op' = Idle
  /\ UNCHANGED <<disk, age, copy, catalog, session, counters>>

(***************************************************************************)
(* The write of a step fails, and with it the statement.  What the step    *)
(* had set in memory before the write stays set.                           *)
(***************************************************************************)
WriteFails ==
  /\ session = "open"
  /\ op.step # "idle"
  /\ failures < MaxFailures
  /\ op.step = "allocate" /\ header.freeList = 0 => header.pageCount <= LastPage
  /\ failures' = failures + 1
  /\ HeaderLost(CASE op.step = "link" -> [header EXCEPT !.freeList = op.at]
                  [] op.step = "allocate" /\ header.freeList # 0 ->
                       [header EXCEPT !.freeList = PageRead(header.freeList).start]
                  [] op.step = "allocate" /\ header.freeList = 0 ->
                       [header EXCEPT !.pageCount = @ + 1]
                  [] op.step = "root" -> [header EXCEPT !.catalogRoot = op.pages[1]]
                  [] OTHER -> header)
  /\ root' = IF op.step = "root" THEN op.pages[1] ELSE root
  /\ op' = Idle
  /\ CASE op.step = "free" -> ReadPage(op.at)
       [] op.step = "allocate" /\ header.freeList # 0 -> ReadPage(header.freeList)
       [] OTHER -> UNCHANGED <<age, copy>>
  /\ UNCHANGED <<disk, catalog, session, saves, crashes>>

(***************************************************************************)
(* Opening the file.  read_chain asks only the first page for its type,    *)
(* and takes from it how many parts to read; a page of zeros says none,    *)
(* and none is the empty catalog.                                          *)
(***************************************************************************)
ChainPageAt(first) ==
  LET at[i \in Nat] == IF i <= 1 THEN first
                       ELSE LET before == at[i - 1] IN IF before = 0 THEN 0 ELSE disk[before].next
  IN  at

IsCatalog(page) == PageType(page) = Catalog

\* As many parts as the document takes whose part begins the chain.
TextAt(first) ==
  LET at == ChainPageAt(first)
  IN  [i \in 1..Size[disk[first].body[1]] |-> IF at[i] = 0 THEN Zeros ELSE disk[at[i]].body]

Whole(d) == [i \in 1..Size[d] |-> <<d, i>>]
Parsed(found, text) ==
  IF found[2] # 1 \/ \E i \in DOMAIN text : text[i] = Zeros THEN Refused
  ELSE IF text = Whole(found[1]) THEN found[1] ELSE Torn

ReadCatalog(first) ==
  CASE first = 0 -> Empty
    [] first # 0 /\ ~IsCatalog(disk[first]) -> Refused
    [] first # 0 /\ IsCatalog(disk[first]) /\ disk[first].body = Zeros -> Empty
    [] OTHER -> Parsed(disk[first].body, TextAt(first))

\* Text that is put together from two documents does not parse.
FileOpensWith ==
  LET found == ReadCatalog(diskHeader.catalogRoot) IN IF found = Torn THEN Refused ELSE found

ChainPages == Follow([p \in Pages |-> disk[p].next], header.catalogRoot)

Crash ==
  /\ session = "open"
  /\ crashes < MaxCrashes
  /\ crashes' = crashes + 1
  /\ session' = "closed"
  /\ age' = [p \in Pages |-> 0]
  /\ op' = Idle
  /\ UNCHANGED <<disk, diskHeader, header, copy, root, catalog, saves, failures>>

Open ==
  /\ session = "closed"
  /\ session' = IF FileOpensWith = Refused THEN "refused" ELSE "open"
  /\ header' = diskHeader
  /\ root' = diskHeader.catalogRoot
  /\ catalog' = FileOpensWith
  /\ UNCHANGED <<disk, diskHeader, age, copy, op, counters>>

\* What save leaves behind: the graph's pages, then the chain of the catalog, if there is one.
GraphPage == [start |-> 1, next |-> 0, body |-> Zeros]
SavedFile(d) ==
  [p \in Pages |->
     CASE p <= GraphPages -> GraphPage
       [] d # Empty /\ p \in GraphPages + 1 .. GraphPages + Size[d] ->
            [start |-> Catalog,
             next |-> IF p < GraphPages + Size[d] THEN p + 1 ELSE 0,
             body |-> <<d, p - GraphPages>>]
       [] OTHER -> BlankPage(Free)]

SavedHeader(d) ==
  [pageCount |-> GraphPages + 1 + (IF d = Empty THEN 0 ELSE Size[d]),
   freeList |-> 0,
   catalogRoot |-> IF d = Empty THEN 0 ELSE GraphPages + 1]

Init ==
  /\ catalog \in Documents \cup {Empty}
  /\ disk = SavedFile(catalog)
  /\ diskHeader = SavedHeader(catalog)
  /\ header = diskHeader
  /\ root = header.catalogRoot
  /\ age = [p \in Pages |-> 0]
  /\ copy = disk
  /\ op = Idle
  /\ session = "open"
  /\ saves = 0 /\ crashes = 0 /\ failures = 0

Next ==
  \/ \E d \in Documents : SaveCatalog(d)
  \/ FreeWrites \/ FreeLinks
  \/ AllocateFreed \/ AllocateAppends \/ AllocateCounts
  \/ WriteChainPage \/ WriteRoot
  \/ WriteFails
  \/ Crash \/ Open

Spec == Init /\ [][Next]_fileVars

(***************************************************************************)
(* Properties.                                                             *)
(***************************************************************************)
\* The cache never answers anything but what the file holds, through every eviction, rewrite and
\* free, whatever writes fail (write_page writes through; free_page forgets the page last).
CacheIsCoherent == \A p \in Cached : copy[p] = disk[p]

\* Between two statements the free list ends, and no page of it is one the graph or the catalog
\* uses: a rewrite neither loses its own chain nor takes a page of the graph.  While nothing
\* crashed, every page of the file is used or free.
FreeListIsSound ==
  Running("idle") /\ failures = 0 =>
    /\ FreeListEnds
    /\ FreePages \cap (1..GraphPages \cup ChainPages) = {}
    /\ 1..GraphPages \cap ChainPages = {}
    /\ crashes = 0 => FreePages \cup ChainPages \cup 1..GraphPages = 1..(header.pageCount - 1)

\* Seen through what the file would open with, a rewrite is a step from the old catalog to the
\* new one that refuses to open in between: a crash never shows a mixture, an empty catalog in
\* the place of a saved one, or a catalog older than the last that save_catalog returned Ok for.
Cell == INSTANCE CatalogCell WITH
  file <- FileOpensWith, busy <- op.step # "idle", broken <- failures > 0
ImplementsCatalogCell == Cell!CellSpec
==============================================================================
