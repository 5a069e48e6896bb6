-------------------------------- MODULE Pager --------------------------------
(***************************************************************************)
(* The pager of a database file (pager/pager.rs): pages behind an LRU      *)
(* cache that is written through, the file header on page 0, and the list  *)
(* of free pages that runs through the pages themselves.                   *)
(*                                                                         *)
(* A page is what the code tells apart in one: the four bytes at its       *)
(* start, which hold its type and, once it is freed, the link of the free  *)
(* list; the link of a chain that follows the page header; and a body.     *)
(* Of the file header only the fields that move after a file was saved are *)
(* kept.  The header never goes through the cache.                         *)
(*                                                                         *)
(* Every write to the file is a step of its own: PutPage and PutHeader are *)
(* the two kinds, and the operations of the components above the pager are *)
(* sequences of them.  A write that fails changes no page.                 *)
(***************************************************************************)
EXTENDS Integers, FiniteSets, Sequences

CONSTANTS
  LastPage,     \* bound: the file never grows past this page
  CacheSize,    \* Pager.cache_size
  Bodies,       \* what the bytes after the links of a page can hold
  Zeros         \* the body of a page nothing was written to

ASSUME PagerAssumption ==
  /\ LastPage \in Nat \ {0}
  /\ CacheSize \in Nat \ {0}
  /\ Zeros \in Bodies

VARIABLES
  disk,         \* the pages of the file
  diskHeader,   \* page 0 of the file
  header,       \* Pager.header, the header in memory
  age,          \* the cache: 0 for a page it does not hold, else its place, 1 the latest
  copy          \* the cache: the page it holds

pagerVars == <<disk, diskHeader, header, age, copy>>

Pages == 1..LastPage

(***************************************************************************)
(* Pages.                                                                  *)
(***************************************************************************)
Free == 7
Catalog == 8

Page == [start : Nat, next : Nat, body : Bodies]
BlankPage(type) == [start |-> type, next |-> 0, body |-> Zeros]
PageType(page) == page.start % 256

\* Mutant: the page forgets the pages freed before it.
FreedPageUnlinked(link) == [BlankPage(Free) EXCEPT !.start = 0]
\* free_page: a new page of type Free, whose first four bytes, the type among them, take the link.
FreedPage(link) == [BlankPage(Free) EXCEPT !.start = link]

Header == [pageCount : Nat, freeList : Nat, catalogRoot : Nat]

(***************************************************************************)
(* The cache.                                                              *)
(***************************************************************************)
Cached == {p \in Pages : age[p] > 0}

\* A page becomes the latest; a page that was not held pushes the oldest out when the cache is full.
Touched(p) ==
  [q \in Pages |->
     CASE q = p -> 1
       [] q # p /\ age[q] > 0 /\ (age[p] = 0 \/ age[q] < age[p]) ->
            IF age[q] < CacheSize THEN age[q] + 1 ELSE 0
       [] OTHER -> age[q]]

Dropped(p) ==
  [q \in Pages |->
     CASE q = p -> 0
       [] q # p /\ p \in Cached /\ age[q] > age[p] -> age[q] - 1
       [] OTHER -> age[q]]

\* read_page answers the copy it holds, and the file otherwise.
PageRead(p) == IF age[p] > 0 THEN copy[p] ELSE disk[p]

ReadPage(p) ==
  /\ p < header.pageCount
  /\ age' = Touched(p)
  /\ copy' = [copy EXCEPT ![p] = PageRead(p)]

\* Mutant: a page that is held keeps its old copy.
PutPageMissOnly(p, page) ==
  /\ disk' = [disk EXCEPT ![p] = page]
  /\ age' = Touched(p)
  /\ copy' = [copy EXCEPT ![p] = IF age[p] > 0 THEN @ ELSE page]

\* write_page: the file first, then the cache.
PutPage(p, page) ==
  /\ disk' = [disk EXCEPT ![p] = page]
  /\ age' = Touched(p)
  /\ copy' = [copy EXCEPT ![p] = page]

\* write_header, of the header as the step leaves it in memory.
PutHeader(h) ==
  /\ header' = h
  /\ diskHeader' = h

\* A write that failed: only the header in memory may have moved before it.
HeaderLost(h) ==
  /\ header' = h
  /\ UNCHANGED diskHeader

(***************************************************************************)
(* The free list, followed through the file from a page on: the least set  *)
(* of pages that has the first page and the link of each page it has.  A   *)
(* list that comes back to a page it has passed ends there.                *)
(***************************************************************************)
Closed(S, link, first) ==
  /\ {first} \cap Pages \subseteq S
  /\ \A p \in S : link[p] \in Pages => link[p] \in S
Follow(link, first) ==
  LET closed == {S \in SUBSET Pages : Closed(S, link, first)}
  IN  {p \in Pages : \A S \in closed : p \in S}

FreePages == Follow([p \in Pages |-> disk[p].start], header.freeList)

FreeListEnds == header.freeList = 0 \/ \E p \in FreePages : disk[p].start = 0
==============================================================================
