------------------------- MODULE CatalogFile_proofs -------------------------
(***************************************************************************)
(* The page cache, the free list and the chain of the catalog, for every   *)
(* size of the file and of the cache, every size of the catalogs, and      *)
(* every sequence of rewrites, failed writes, crashes and reopenings.      *)
(*                                                                         *)
(* CacheCoherent: a step either reads a page, which copies it from the     *)
(* file, or writes it to both sides, or only forgets pages.                *)
(*                                                                         *)
(* FreeListSound and FileImplementsCell: the invariant IInv says where     *)
(* save_catalog has got to as a list of the pages still in the chain, or   *)
(* already in the new one, apart from the list of the free pages.  While   *)
(* a write has not failed, each step moves one page from one list to the   *)
(* other or writes one part.  What read_catalog then answers follows from  *)
(* the part the root's page holds.  The paths through the links of pages   *)
(* are followed by induction, for which NumbersReached stands.             *)
(***************************************************************************)
EXTENDS CatalogFile, WellFoundedInduction, TLAPS

Domains ==
  /\ DOMAIN disk = Pages /\ disk = [p \in Pages |-> disk[p]]
  /\ DOMAIN copy = Pages /\ copy = [p \in Pages |-> copy[p]]
  /\ age \in [Pages -> 0..CacheSize]

CacheInv == Domains /\ CacheIsCoherent

\* What a page that becomes the latest leaves of the others: no page enters the cache but itself.
LEMMA TouchAddsOne ==
  ASSUME Domains, NEW p
  PROVE  /\ Touched(p) \in [Pages -> 0..CacheSize]
         /\ \A q \in Pages : Touched(p)[q] > 0 /\ q # p => age[q] > 0
  BY PagerAssumption DEF Touched, Domains

\* Forgetting a page puts none in the cache.
LEMMA DropAddsNone ==
  ASSUME Domains, NEW p
  PROVE  /\ Dropped(p) \in [Pages -> 0..CacheSize]
         /\ \A q \in Pages : Dropped(p)[q] > 0 => age[q] > 0
  BY PagerAssumption DEF Dropped, Domains, Cached

\* read_page keeps the cache coherent: on a miss it copies the page of the file.
LEMMA ReadKeepsCoherence ==
  ASSUME CacheInv, NEW p, ReadPage(p), UNCHANGED disk
  PROVE  CacheInv'
<1>1. copy' = [copy EXCEPT ![p] = PageRead(p)] /\ age' = Touched(p) /\ disk' = disk
  BY DEF ReadPage
<1>2. Domains'
  BY <1>1, TouchAddsOne DEF CacheInv, Domains
<1>3. ASSUME NEW q \in Pages, age'[q] > 0
      PROVE  copy'[q] = disk'[q]
  <2>1. CASE q = p
    BY <1>1, <2>1 DEF CacheInv, Domains, PageRead, CacheIsCoherent, Cached
  <2>2. CASE q # p
    <3>1. age[q] > 0
      BY <1>1, <1>3, <2>2, TouchAddsOne DEF CacheInv
    <3>2. QED
      BY <1>1, <2>2, <3>1 DEF CacheInv, Domains, CacheIsCoherent, Cached
  <2>3. QED
    BY <2>1, <2>2
<1>4. QED
  BY <1>2, <1>3 DEF CacheInv, CacheIsCoherent, Cached

\* write_page keeps the cache coherent: the page goes to the file and to the cache.
LEMMA WriteKeepsCoherence ==
  ASSUME CacheInv, NEW p, NEW page, PutPage(p, page)
  PROVE  CacheInv'
<1>1. /\ disk' = [disk EXCEPT ![p] = page]
      /\ copy' = [copy EXCEPT ![p] = page]
      /\ age' = Touched(p)
  BY DEF PutPage
<1>2. Domains'
  BY <1>1, TouchAddsOne DEF CacheInv, Domains
<1>3. ASSUME NEW q \in Pages, age'[q] > 0
      PROVE  copy'[q] = disk'[q]
  <2>1. CASE q = p
    BY <1>1, <2>1 DEF CacheInv, Domains
  <2>2. CASE q # p
    <3>1. age[q] > 0
      BY <1>1, <1>3, <2>2, TouchAddsOne DEF CacheInv
    <3>2. QED
      BY <1>1, <2>2, <3>1 DEF CacheInv, Domains, CacheIsCoherent, Cached
  <2>3. QED
    BY <2>1, <2>2
<1>4. QED
  BY <1>2, <1>3 DEF CacheInv, CacheIsCoherent, Cached

\* A step that leaves file and cache alone keeps the cache coherent.
LEMMA NothingTouched ==
  ASSUME CacheInv, UNCHANGED <<disk, age, copy>>
  PROVE  CacheInv'
BY DEF CacheInv, Domains, CacheIsCoherent, Cached

\* The cache begins empty.
LEMMA InitCoherent == Init => CacheInv
BY PagerAssumption DEF Init, CacheInv, Domains, CacheIsCoherent, Cached, SavedFile

\* Every step keeps it coherent.
LEMMA StepCoherent == CacheInv /\ [Next]_fileVars => CacheInv'
<1> SUFFICES ASSUME CacheInv, [Next]_fileVars
             PROVE  CacheInv'
  OBVIOUS
<1>1. CASE \E d \in Documents : SaveCatalog(d)
  BY <1>1, NothingTouched DEF SaveCatalog, pagerVars
<1>2. CASE FreeWrites
  BY <1>2, WriteKeepsCoherence DEF FreeWrites
<1>3. CASE FreeLinks
  <2>1. age' = Dropped(op.at) /\ disk' = disk /\ copy' = copy
    BY <1>3 DEF FreeLinks
  <2>2. age' \in [Pages -> 0..CacheSize] /\ \A q \in Pages : age'[q] > 0 => age[q] > 0
    BY <2>1, DropAddsNone DEF CacheInv
  <2>3. QED
    BY <2>1, <2>2 DEF CacheInv, Domains, CacheIsCoherent, Cached
<1>4. CASE AllocateFreed
  BY <1>4, ReadKeepsCoherence DEF AllocateFreed
<1>5. CASE AllocateAppends
  BY <1>5, WriteKeepsCoherence DEF AllocateAppends
<1>6. CASE AllocateCounts
  BY <1>6, NothingTouched DEF AllocateCounts
<1>7. CASE WriteChainPage
  BY <1>7, WriteKeepsCoherence DEF WriteChainPage
<1>8. CASE WriteRoot
  BY <1>8, NothingTouched DEF WriteRoot
<1>9. CASE WriteFails
  <2>1. disk' = disk
    BY <1>9 DEF WriteFails
  <2>2. CASE op.step = "free"
    <3>1. ReadPage(op.at)
      BY <1>9, <2>2 DEF WriteFails
    <3>2. QED
      BY <2>1, <3>1, ReadKeepsCoherence
  <2>3. CASE op.step = "allocate" /\ header.freeList # 0
    <3>1. ReadPage(header.freeList)
      BY <1>9, <2>3 DEF WriteFails
    <3>2. QED
      BY <2>1, <3>1, ReadKeepsCoherence
  <2>4. CASE op.step # "free" /\ ~(op.step = "allocate" /\ header.freeList # 0)
    <3>1. UNCHANGED <<age, copy>>
      BY <1>9, <2>4 DEF WriteFails
    <3>2. QED
      BY <2>1, <3>1, NothingTouched
  <2>5. QED
    BY <2>2, <2>3, <2>4
<1>10. CASE Crash
  BY <1>10, PagerAssumption DEF Crash, CacheInv, Domains, CacheIsCoherent, Cached
<1>11. CASE Open
  BY <1>11, NothingTouched DEF Open
<1>12. CASE UNCHANGED fileVars
  BY <1>12, NothingTouched DEF fileVars, pagerVars
<1>13. QED
  BY <1>1, <1>2, <1>3, <1>4, <1>5, <1>6, <1>7, <1>8, <1>9, <1>10, <1>11, <1>12 DEF Next

\* Whatever read_page answers from its cache is what the file holds (write_page writes through,
\* and free_page drops the page it has rewritten).
THEOREM CacheCoherent == Spec => []CacheIsCoherent
<1>1. Init => CacheInv
  BY InitCoherent
<1>2. CacheInv /\ [Next]_fileVars => CacheInv'
  BY StepCoherent
<1>3. CacheInv => CacheIsCoherent
  BY DEF CacheInv
<1>4. QED
  BY <1>1, <1>2, <1>3, PTL DEF Spec

(***************************************************************************)
(* Induction.  A set that has 0 and the successor of each of its numbers   *)
(* has them all: were one missing, there would be a least.                 *)
(***************************************************************************)
LEMMA NumbersReached ==
  ASSUME NEW S, 0 \in S, \A n \in Nat : n \in S => n + 1 \in S
  PROVE  Nat \subseteq S
<1> DEFINE missing == Nat \ S
<1>1. CASE missing # {}
  <2>1. IsWellFoundedOn(OpToRel(<, Nat), Nat)
    BY NatLessThanWellFounded
  <2>2. PICK x \in missing : \A y \in missing : ~(<<y, x>> \in OpToRel(<, Nat))
    BY <1>1, <2>1, WFMin
  <2>3. \A y \in missing : ~(y < x)
    BY <2>2 DEF OpToRel
  <2>4. x - 1 \in Nat /\ x - 1 \in S
    BY <2>3
  <2> QED
    BY <2>4
<1> QED
  BY <1>1

(***************************************************************************)
(* Following links.                                                        *)
(***************************************************************************)
PagesOf(s, k) == {s[i] : i \in 1..k}

\* The pages reached along links that run through s and then end are those of s.
LEMMA FollowReaches ==
  ASSUME NEW link, NEW k \in Nat, NEW s, NEW first,
         \A i \in 1..k : s[i] \in Pages /\ link[s[i]] = IF i < k THEN s[i + 1] ELSE 0,
         first = IF k > 0 THEN s[1] ELSE 0
  PROVE  Follow(link, first) = PagesOf(s, k)
<1> DEFINE R == {s[i] : i \in 1..k}
<1>1. R \subseteq Pages /\ Closed(R, link, first)
  BY DEF Closed, Pages
<1>2. ASSUME NEW S \in SUBSET Pages, Closed(S, link, first)
      PROVE  R \subseteq S
  <2> DEFINE T == {i \in Nat : i \in 1..k => s[i] \in S}
  <2>1. 0 \in T
    OBVIOUS
  <2>2. ASSUME NEW i \in Nat, i \in T
        PROVE  i + 1 \in T
    <3>1. CASE i + 1 \in 1..k /\ i = 0
      BY <1>2, <3>1 DEF Closed
    <3>2. CASE i + 1 \in 1..k /\ i > 0
      <4>1. i \in 1..k /\ s[i] \in S /\ i < k
        BY <2>2, <3>2
      <4>2. link[s[i]] = s[i + 1] /\ s[i + 1] \in Pages
        BY <3>2, <4>1
      <4>3. s[i + 1] \in S
        BY <1>2, <4>1, <4>2 DEF Closed
      <4> QED
        BY <4>3
    <3>3. CASE ~(i + 1 \in 1..k)
      BY <3>3
    <3> QED
      BY <3>1, <3>2, <3>3
  <2>3. Nat \subseteq T
    <3> HIDE DEF T
    <3> QED
      BY <2>1, <2>2, NumbersReached
  <2>4. \A i \in 1..k : i \in Nat /\ i \in T
    BY <2>3
  <2> QED
    BY <2>4
<1>3. Follow(link, first) \subseteq R
  BY <1>1 DEF Follow
<1>4. R \subseteq Follow(link, first)
  BY <1>1, <1>2 DEF Follow
<1> QED
  BY <1>3, <1>4 DEF PagesOf

\* What read_chain visits, place by place.
NextVisited(at, i, first) ==
  IF i <= 1 THEN first ELSE IF at[i - 1] = 0 THEN 0 ELSE disk[at[i - 1]].next
VisitsUpTo(at, n, first) == \A i \in 0..n : at[i] = NextVisited(at, i, first)

\* Up to any place there is a walk that visits as read_chain does, by induction on the place.
LEMMA VisitsExist ==
  ASSUME NEW first
  PROVE  \A n \in Nat : \E at : VisitsUpTo(at, n, first)
<1> DEFINE T == {n \in Nat : \E at : VisitsUpTo(at, n, first)}
<1>1. 0 \in T
  <2> DEFINE at == [i \in Nat |-> first]
  <2>1. VisitsUpTo(at, 0, first)
    BY DEF VisitsUpTo, NextVisited
  <2> QED
    BY <2>1
<1>2. ASSUME NEW n \in Nat, n \in T
      PROVE  n + 1 \in T
  <2>1. PICK at : VisitsUpTo(at, n, first)
    BY <1>2
  <2> DEFINE on == [i \in Nat |-> IF i <= n THEN at[i] ELSE NextVisited(at, i, first)]
  <2>2. ASSUME NEW i \in 0..(n + 1)
        PROVE  on[i] = NextVisited(on, i, first)
    <3>1. i - 1 \in Nat /\ i - 1 <= n => on[i - 1] = at[i - 1]
      OBVIOUS
    <3>2. NextVisited(on, i, first) = NextVisited(at, i, first)
      BY <3>1 DEF NextVisited
    <3>3. on[i] = NextVisited(at, i, first)
      BY <2>1 DEF VisitsUpTo
    <3> QED
      BY <3>2, <3>3
  <2>3. VisitsUpTo(on, n + 1, first)
    BY <2>2 DEF VisitsUpTo
  <2> QED
    BY <2>3
<1>3. Nat \subseteq T
  <2> HIDE DEF T
  <2> QED
    BY <1>1, <1>2, NumbersReached
<1> QED
  BY <1>3

\* Two walks that visit as read_chain does agree.
LEMMA VisitsAgree ==
  ASSUME NEW first
  PROVE  \A n \in Nat : \A a, b : VisitsUpTo(a, n, first) /\ VisitsUpTo(b, n, first) => a[n] = b[n]
<1> DEFINE T == {n \in Nat : \A a, b : VisitsUpTo(a, n, first) /\ VisitsUpTo(b, n, first) => a[n] = b[n]}
<1>1. 0 \in T
  BY DEF VisitsUpTo, NextVisited
<1>2. ASSUME NEW n \in Nat, n \in T
      PROVE  n + 1 \in T
  <2> SUFFICES ASSUME NEW a, NEW b, VisitsUpTo(a, n + 1, first), VisitsUpTo(b, n + 1, first)
               PROVE  a[n + 1] = b[n + 1]
    OBVIOUS
  <2>1. VisitsUpTo(a, n, first) /\ VisitsUpTo(b, n, first)
    BY DEF VisitsUpTo
  <2>2. a[n] = b[n]
    BY <1>2, <2>1
  <2>3. a[n + 1] = NextVisited(a, n + 1, first) /\ b[n + 1] = NextVisited(b, n + 1, first)
    BY DEF VisitsUpTo
  <2> QED
    BY <2>2, <2>3 DEF NextVisited
<1>3. Nat \subseteq T
  <2> HIDE DEF T
  <2> QED
    BY <1>1, <1>2, NumbersReached
<1> QED
  BY <1>3

\* The recursive definition of ChainPageAt defines a function.
LEMMA ChainPageAtVisits ==
  ASSUME NEW first
  PROVE  \A i \in Nat : ChainPageAt(first)[i] = NextVisited(ChainPageAt(first), i, first)
<1> DEFINE up(n) == CHOOSE at : VisitsUpTo(at, n, first)
           all == [n \in Nat |-> up(n)[n]]
<1>1. \A n \in Nat : VisitsUpTo(up(n), n, first)
  BY VisitsExist
<1>2. ASSUME NEW i \in Nat
      PROVE  all[i] = NextVisited(all, i, first)
  <2>1. up(i)[i] = NextVisited(up(i), i, first)
    BY <1>1 DEF VisitsUpTo
  <2>2. CASE i <= 1
    BY <2>1, <2>2 DEF NextVisited
  <2>3. CASE i > 1
    <3>1. i - 1 \in Nat
      BY <2>3
    <3>2. VisitsUpTo(up(i), i - 1, first)
      BY <1>1, <2>3 DEF VisitsUpTo
    <3>3. up(i)[i - 1] = up(i - 1)[i - 1]
      BY <1>1, <3>1, <3>2, VisitsAgree
    <3> QED
      BY <2>1, <3>1, <3>3 DEF NextVisited
  <2> QED
    BY <2>2, <2>3
<1>3. all = [i \in Nat |-> NextVisited(all, i, first)]
  <2> HIDE DEF up
  <2> QED
    BY <1>2
<1>4. \E at : at = [i \in Nat |-> NextVisited(at, i, first)]
  <2> HIDE DEF all
  <2> QED
    BY <1>3
<1>5. ChainPageAt(first) = CHOOSE at : at = [i \in Nat |-> NextVisited(at, i, first)]
  BY DEF ChainPageAt, NextVisited
<1>6. ChainPageAt(first) = [i \in Nat |-> NextVisited(ChainPageAt(first), i, first)]
  BY <1>4, <1>5
<1> QED
  BY <1>6

\* read_chain visits the pages of s, as far as they are linked.
LEMMA ChainIsVisited ==
  ASSUME NEW s, NEW w \in Nat, NEW first, first = s[1],
         \A i \in 1..w : s[i] # 0 /\ disk[s[i]].next = s[i + 1]
  PROVE  \A i \in 1..(w + 1) : ChainPageAt(first)[i] = s[i]
<1> DEFINE at == ChainPageAt(first)
           T == {i \in Nat : i \in 1..(w + 1) => at[i] = s[i]}
<1>1. \A i \in Nat : at[i] = NextVisited(at, i, first)
  BY ChainPageAtVisits
<1> HIDE DEF at
<1>2. 0 \in T
  OBVIOUS
<1>3. ASSUME NEW i \in Nat, i \in T
      PROVE  i + 1 \in T
  <2>1. CASE i = 0
    BY <1>1, <2>1 DEF NextVisited
  <2>2. CASE i > 0 /\ i + 1 \in 1..(w + 1)
    <3>1. i \in 1..w /\ at[i] = s[i]
      BY <1>3, <2>2
    <3>2. at[i + 1] = disk[s[i]].next
      BY <1>1, <2>2, <3>1 DEF NextVisited
    <3> QED
      BY <3>1, <3>2
  <2> QED
    BY <2>1, <2>2
<1>4. Nat \subseteq T
  <2> HIDE DEF T
  <2> QED
    BY <1>2, <1>3, NumbersReached
<1>5. \A i \in 1..(w + 1) : at[i] = s[i]
  BY <1>4
<1> QED
  BY <1>5 DEF at

(***************************************************************************)
(* The pages a rewrite goes through.  A chain is read off a function s     *)
(* from places to pages, m to k of which it has left; the free list off a  *)
(* function f, 1 to n, whose last place is the head of the list, so that   *)
(* freeing a page adds a place and allocating one takes it away.           *)
(***************************************************************************)
\* free_page writes the link of a freed page over its type byte, so that a link of 8 modulo 256
\* reads as the type of a catalog page: the theorems are about files without such a page to free.
NoLinkReadsAsCatalog == \A p \in (GraphPages + 1)..LastPage : p % 256 # Catalog

Region == (GraphPages + 1)..(diskHeader.pageCount - 1)
OneToOne(s, m, k) == \A i, j \in m..k : s[i] = s[j] => i = j
Holds(s, m, k, p) == \E i \in m..k : s[i] = p
Apart(s, m, k, f, n) == \A i \in m..k : \A j \in 1..n : s[i] # f[j]

Erased(page) == page.body = Zeros /\ page.start % 256 # Catalog
Linked(link) == [start |-> link, next |-> 0, body |-> Zeros]
Part(d, s, k, i) == [start |-> Catalog, next |-> IF i < k THEN s[i + 1] ELSE 0, body |-> <<d, i>>]

FreeStack(f, n) ==
  /\ n \in Nat
  /\ \A i \in 1..n : f[i] \in Region /\ disk[f[i]] = Linked(IF i = 1 THEN 0 ELSE f[i - 1])
  /\ OneToOne(f, 1, n)
  /\ diskHeader.freeList = IF n = 0 THEN 0 ELSE f[n]

ChainOf(d, s, m, k) ==
  /\ d \in Documents /\ k = Size[d]
  /\ \A i \in m..k : s[i] \in Region /\ disk[s[i]] = Part(d, s, k, i)
  /\ OneToOne(s, m, k)

Saved(d, s, k) ==
  \/ d = Empty /\ k = 0 /\ diskHeader.catalogRoot = 0
  \/ ChainOf(d, s, 1, k) /\ diskHeader.catalogRoot = s[1]

\* While nothing crashed, no page is lost.
Accounted(s, m, k, f, n, others) ==
  crashes = 0 => \A p \in Region : Holds(s, m, k, p) \/ Holds(f, 1, n, p) \/ p \in others

Between(f, n, s, k, d) ==
  /\ FreeStack(f, n) /\ Saved(d, s, k)
  /\ Apart(s, 1, k, f, n) /\ Accounted(s, 1, k, f, n, {})

Freeing(f, n, s, m, k, d) ==
  /\ m \in 1..k /\ op.at = s[m]
  /\ FreeStack(f, n) /\ ChainOf(d, s, m, k)
  /\ Apart(s, m, k, f, n) /\ Accounted(s, m, k, f, n, {})
  /\ (m = 1 /\ diskHeader.catalogRoot = s[1]) \/ Holds(f, 1, n, diskHeader.catalogRoot)

Linking(f, n, s, m, k, d) ==
  /\ m \in 2..(k + 1) /\ op.after = IF m <= k THEN s[m] ELSE 0
  /\ op.at \in Region /\ disk[op.at] = Linked(diskHeader.freeList)
  /\ ~Holds(s, m, k, op.at) /\ ~Holds(f, 1, n, op.at)
  /\ FreeStack(f, n) /\ ChainOf(d, s, m, k)
  /\ Apart(s, m, k, f, n) /\ Accounted(s, m, k, f, n, {op.at})
  /\ diskHeader.catalogRoot = op.at \/ Holds(f, 1, n, diskHeader.catalogRoot)

Built == Len(op.pages)
Building(f, n) ==
  /\ catalog \in Documents
  /\ op.pages \in Seq(Pages) /\ op.written \in 0..Built
  /\ \A i \in 1..Built : op.pages[i] \in Region
  /\ \A i \in 1..op.written : disk[op.pages[i]] = Part(catalog, op.pages, Built, i)
  /\ \A i \in (op.written + 1)..Built : Erased(disk[op.pages[i]])
  /\ OneToOne(op.pages, 1, Built)
  /\ FreeStack(f, n)
  /\ Apart(op.pages, 1, Built, f, n) /\ Accounted(op.pages, 1, Built, f, n, {})
  /\ \/ diskHeader.catalogRoot = 0
     \/ Holds(f, 1, n, diskHeader.catalogRoot)
     \/ Holds(op.pages, 1, Built, diskHeader.catalogRoot)

FileTyped ==
  /\ disk \in [Pages -> [start : Nat, next : Nat, body : Bodies]]
  /\ diskHeader \in [pageCount : (GraphPages + 1)..(LastPage + 1), freeList : Nat, catalogRoot : Nat]

\* What the file opens with.
LEMMA RootErased ==
  ASSUME diskHeader.catalogRoot # 0, disk[diskHeader.catalogRoot].start % 256 # Catalog
  PROVE  FileOpensWith = Refused
BY CatalogAssumption DEF FileOpensWith, ReadCatalog, IsCatalog, PageType

\* A header without a root opens with the empty catalog.
LEMMA RootEmpty ==
  ASSUME diskHeader.catalogRoot = 0
  PROVE  FileOpensWith = Empty
BY CatalogAssumption DEF FileOpensWith, ReadCatalog

\* A root that begins another part than the first.
LEMMA RootElsewhere ==
  ASSUME NEW d \in Documents, NEW i \in 1..Size[d], i # 1, NEW next,
         diskHeader.catalogRoot # 0,
         disk[diskHeader.catalogRoot] = [start |-> Catalog, next |-> next, body |-> <<d, i>>]
  PROVE  FileOpensWith = Refused
<1> DEFINE first == diskHeader.catalogRoot
<1>1. <<d, i>> # Zeros /\ (<<d, i>>)[2] # 1 /\ Refused # Torn
  BY CatalogAssumption
<1>2. IsCatalog(disk[first]) /\ disk[first].body = <<d, i>>
  BY DEF IsCatalog, PageType, Catalog
<1>3. ReadCatalog(first) = Parsed(<<d, i>>, TextAt(first))
  BY <1>1, <1>2 DEF ReadCatalog
<1>4. Parsed(<<d, i>>, TextAt(first)) = Refused
  BY <1>1 DEF Parsed
<1> QED
  BY <1>3, <1>4, <1>1 DEF FileOpensWith

\* A chain whose parts are written up to w and whose next page is erased, or that is whole.
LEMMA RootOfParts ==
  ASSUME NEW d \in Documents, NEW s, NEW w \in 1..Size[d],
         \A i \in 1..w : s[i] # 0 /\ disk[s[i]] = Part(d, s, Size[d], i),
         diskHeader.catalogRoot = s[1]
  PROVE  /\ w = Size[d] => FileOpensWith = d
         /\ w < Size[d] /\ s[w + 1] # 0 /\ disk[s[w + 1]].body = Zeros => FileOpensWith = Refused
<1> DEFINE at == ChainPageAt(s[1])
           k == Size[d]
           text == TextAt(s[1])
<1>k. k \in Nat \ {0} /\ w \in 1..k /\ w \in Nat /\ 1 \in 1..w
  BY CatalogAssumption
<1>1. \A i \in 1..w : disk[s[i]].next = (IF i < k THEN s[i + 1] ELSE 0) /\ disk[s[i]].body = <<d, i>>
  <2> SUFFICES ASSUME NEW i \in 1..w
               PROVE  disk[s[i]].next = (IF i < k THEN s[i + 1] ELSE 0) /\ disk[s[i]].body = <<d, i>>
    OBVIOUS
  <2>1. disk[s[i]] = Part(d, s, k, i)
    OBVIOUS
  <2> QED
    BY <2>1 DEF Part
<1>2. /\ (<<d, 1>>)[1] = d /\ (<<d, 1>>)[2] = 1
      /\ d # Torn /\ Refused # Torn /\ \A i \in 1..k : <<d, i>> # Zeros
  <2>1. d # Torn /\ Refused # Torn
    BY CatalogAssumption
  <2>2. \A i \in 1..k : <<d, i>> # Zeros
    BY CatalogAssumption
  <2>3. (<<d, 1>>)[1] = d /\ (<<d, 1>>)[2] = 1
    OBVIOUS
  <2> QED
    BY <2>1, <2>2, <2>3
<1>p. <<d, 1>> # Zeros
  BY <1>k, <1>2
<1>3. s[1] # 0 /\ IsCatalog(disk[s[1]]) /\ disk[s[1]].body = <<d, 1>>
  <2>1. s[1] # 0 /\ disk[s[1]] = Part(d, s, k, 1)
    BY <1>k
  <2>2. disk[s[1]].start = Catalog /\ disk[s[1]].body = <<d, 1>>
    BY <2>1 DEF Part
  <2>3. Catalog % 256 = Catalog
    BY DEF Catalog
  <2> QED
    BY <2>1, <2>2, <2>3 DEF IsCatalog, PageType
<1>4. ReadCatalog(s[1]) = Parsed(<<d, 1>>, text)
  BY <1>p, <1>3 DEF ReadCatalog
<1>t. text = [i \in 1..k |-> IF at[i] = 0 THEN Zeros ELSE disk[at[i]].body]
  BY <1>2, <1>3 DEF TextAt
<1>5. \A i \in 1..w : i < k => at[i] = s[i] /\ at[i + 1] = s[i + 1]
  <2> DEFINE v == IF w < k THEN w ELSE k - 1
  <2>1. v \in Nat /\ \A i \in 1..v : s[i] # 0 /\ disk[s[i]].next = s[i + 1]
    BY <1>1, <1>k
  <2>2. \A i \in 1..(v + 1) : at[i] = s[i]
    <3> HIDE DEF v
    <3> QED
      BY <2>1, ChainIsVisited
  <2> QED
    BY <2>2, <1>k
<1>6. at[1] = s[1]
  BY ChainIsVisited
<1>7. CASE w = k
  <2>1. \A i \in 1..k : at[i] = s[i]
    <3> SUFFICES ASSUME NEW i \in 1..k PROVE at[i] = s[i]
      OBVIOUS
    <3>1. CASE i = 1
      BY <3>1, <1>6
    <3>2. CASE i > 1
      <4>1. i - 1 \in 1..w /\ i - 1 < k /\ (i - 1) + 1 = i
        BY <3>2, <1>7, <1>k
      <4> QED
        BY <4>1, <1>5
    <3> QED
      BY <3>1, <3>2
  <2>2. \A i \in 1..k : text[i] = <<d, i>>
    <3> HIDE DEF at, text
    <3> QED
      BY <2>1, <1>1, <1>7, <1>t
  <2>3. text = Whole(d) /\ ~ \E i \in DOMAIN text : text[i] = Zeros
    <3> HIDE DEF at, k, text
    <3>1. DOMAIN text = 1..k /\ text = [i \in 1..k |-> text[i]]
      BY <1>t
    <3> QED
      BY <3>1, <2>2, <1>2 DEF Whole, k
  <2>4. ReadCatalog(s[1]) = d
    <3> HIDE DEF text
    <3> QED
      BY <1>4, <2>3, <1>2 DEF Parsed
  <2> QED
    BY <2>4, <1>7, <1>2 DEF FileOpensWith
<1>8. CASE w < k /\ s[w + 1] # 0 /\ disk[s[w + 1]].body = Zeros
  <2>1. at[w + 1] = s[w + 1] /\ w + 1 \in 1..k
    BY <1>5, <1>8, <1>k
  <2>2. text[w + 1] = Zeros /\ w + 1 \in DOMAIN text
    <3> HIDE DEF at, k, text
    <3> QED
      BY <2>1, <1>8, <1>t
  <2>3. ReadCatalog(s[1]) = Refused
    <3> HIDE DEF text
    <3> QED
      BY <1>4, <2>2 DEF Parsed
  <2> QED
    BY <2>3, <1>8, <1>2 DEF FileOpensWith
<1> QED
  BY <1>7, <1>8

(***************************************************************************)
(* The inductive invariant.                                                *)
(***************************************************************************)
Text == {Zeros} \cup UNION {{<<d, i>> : i \in 1..Size[d]} : d \in Documents}
Steps == {"idle", "free", "link", "allocate", "count", "write", "root"}
HeaderType == [pageCount : (GraphPages + 1)..(LastPage + 1), freeList : Nat, catalogRoot : 0..LastPage]
OpType == [step : Steps, at : 0..LastPage, after : 0..LastPage, pages : Seq(Pages), written : Nat]

Types ==
  /\ disk \in [Pages -> [start : Nat, next : 0..LastPage, body : Text]]
  /\ header \in HeaderType /\ diskHeader \in HeaderType /\ root \in 0..LastPage
  /\ op \in OpType
  /\ catalog \in Documents \cup {Empty, Refused}
  /\ session \in {"open", "closed", "refused"}
  /\ saves \in Nat /\ crashes \in Nat /\ failures \in Nat

\* Where save_catalog has got to.
Progress ==
  /\ op.step # "idle" => catalog \in Documents /\ session = "open"
  /\ op.step \in {"free", "link"} => op.at # 0 /\ op.pages = <<>> /\ op.written = 0
  /\ op.step \in {"allocate", "count"} => Built < Size[catalog] /\ op.written = 0
  /\ op.step = "count" => header.pageCount > 1
  /\ op.step = "write" => Built = Size[catalog] /\ op.written < Built
  /\ op.step = "root" => Built = Size[catalog] /\ op.written = Built

OpenInv ==
  /\ root = diskHeader.catalogRoot
  /\ header = IF op.step = "count" THEN [diskHeader EXCEPT !.pageCount = @ + 1] ELSE diskHeader
  /\ op.step = "idle" => \E f, n, s, k : Between(f, n, s, k, catalog)
  /\ op.step = "free" => \E f, n, s, m, k, d : Freeing(f, n, s, m, k, d)
  /\ op.step = "link" => \E f, n, s, m, k, d : Linking(f, n, s, m, k, d)
  /\ op.step \in {"allocate", "count", "write", "root"} => \E f, n : Building(f, n)
  /\ op.step = "count" => diskHeader.pageCount <= LastPage /\ Erased(disk[diskHeader.pageCount])

FileInv ==
  failures = 0 =>
    /\ session = "open" => OpenInv
    /\ session = "closed" => FileOpensWith = Refused \/ \E f, n, s, k, d : Between(f, n, s, k, d)

IInv == CacheInv /\ Types /\ Progress /\ FileInv

\* A coherent cache answers what the file holds.
LEMMA PageReadIsDisk ==
  ASSUME CacheInv, NEW p \in Pages
  PROVE  PageRead(p) = disk[p]
BY DEF CacheInv, CacheIsCoherent, Cached, PageRead

\* The file opens with a catalog, the empty one, or not at all.
LEMMA FileOpensTyped ==
  ASSUME Types
  PROVE  FileOpensWith \in Documents \cup {Empty, Refused}
<1> DEFINE first == diskHeader.catalogRoot
<1>1. CASE first = 0
  BY <1>1, RootEmpty
<1>2. CASE first # 0 /\ ~IsCatalog(disk[first])
  BY <1>2 DEF FileOpensWith, ReadCatalog
<1>3. CASE first # 0 /\ IsCatalog(disk[first]) /\ disk[first].body = Zeros
  BY <1>3 DEF FileOpensWith, ReadCatalog
<1>4. CASE first # 0 /\ IsCatalog(disk[first]) /\ disk[first].body # Zeros
  <2>1. ReadCatalog(first) = Parsed(disk[first].body, TextAt(first))
    BY <1>4 DEF ReadCatalog
  <2>2. disk[first].body \in Text
    <3>1. first \in Pages
      BY <1>4, PagerAssumption DEF Types, HeaderType, Pages
    <3> QED
      BY <3>1 DEF Types
  <2>3. PICK d \in Documents : \E i \in 1..Size[d] : disk[first].body = <<d, i>>
    BY <1>4, <2>2 DEF Text
  <2>4. disk[first].body[1] \in Documents
    BY <2>3
  <2>5. ReadCatalog(first) \in {Refused, Torn, disk[first].body[1]}
    BY <2>1 DEF Parsed
  <2> QED
    BY <2>4, <2>5 DEF FileOpensWith
<1> QED
  BY <1>1, <1>2, <1>3, <1>4

\* The saved file is typed and idle.
LEMMA InitTyped == Init => Types /\ Progress
<1> SUFFICES ASSUME Init PROVE Types /\ Progress
  OBVIOUS
<1>1. /\ LastPage \in Nat \ {0} /\ GraphPages \in 0..LastPage /\ Zeros \in Text
      /\ \A d \in Documents : Size[d] \in Nat \ {0} /\ GraphPages + Size[d] <= LastPage
      /\ Empty \notin Documents
  BY PagerAssumption, CatalogAssumption DEF Text
<1>2. catalog # Empty => catalog \in Documents /\ Size[catalog] \in Nat \ {0} /\ GraphPages + Size[catalog] <= LastPage
  BY <1>1 DEF Init
<1>3. SavedHeader(catalog) \in HeaderType
  BY <1>1, <1>2 DEF SavedHeader, HeaderType
<1>4. ASSUME NEW p \in Pages
      PROVE  SavedFile(catalog)[p] \in [start : Nat, next : 0..LastPage, body : Text]
  <2>1. GraphPage \in [start : Nat, next : 0..LastPage, body : Text]
    BY <1>1 DEF GraphPage
  <2>2. BlankPage(Free) \in [start : Nat, next : 0..LastPage, body : Text]
    BY <1>1 DEF BlankPage, Free
  <2>3. CASE ~(p <= GraphPages) /\ catalog # Empty /\ p \in GraphPages + 1 .. GraphPages + Size[catalog]
    <3>1. SavedFile(catalog)[p] =
            [start |-> Catalog,
             next |-> IF p < GraphPages + Size[catalog] THEN p + 1 ELSE 0,
             body |-> <<catalog, p - GraphPages>>]
      BY <2>3 DEF SavedFile
    <3>2. <<catalog, p - GraphPages>> \in Text
      BY <1>1, <1>2, <2>3 DEF Text, Pages
    <3>3. (IF p < GraphPages + Size[catalog] THEN p + 1 ELSE 0) \in 0..LastPage
      BY <1>1, <1>2, <2>3 DEF Pages
    <3> QED
      BY <3>1, <3>2, <3>3 DEF Catalog
  <2>4. CASE p <= GraphPages
    <3>1. SavedFile(catalog)[p] = GraphPage
      BY <2>4, <1>1, <1>2 DEF SavedFile, Pages
    <3> QED
      BY <3>1, <2>1
  <2>5. CASE ~(p <= GraphPages) /\ ~(catalog # Empty /\ p \in GraphPages + 1 .. GraphPages + Size[catalog])
    <3>1. SavedFile(catalog)[p] = BlankPage(Free)
      BY <2>5 DEF SavedFile
    <3> QED
      BY <3>1, <2>2
  <2> QED
    BY <2>3, <2>4, <2>5
<1>5. disk \in [Pages -> [start : Nat, next : 0..LastPage, body : Text]]
  BY <1>4 DEF Init, SavedFile
<1>6. op \in OpType
  BY <1>1 DEF Init, Idle, OpType, Steps
<1> QED
  BY <1>1, <1>3, <1>5, <1>6 DEF Init, Types, Progress, HeaderType, Idle

\* A free list that is read for a page begins with one.
LEMMA FreeHeadIsPage ==
  ASSUME Types, header.freeList # 0, ReadPage(header.freeList)
  PROVE  header.freeList \in Pages
<1>1. header.pageCount \in (GraphPages + 1)..(LastPage + 1) /\ header.freeList \in Nat
  BY DEF Types, HeaderType
<1>2. header.freeList < header.pageCount /\ GraphPages \in Nat /\ LastPage \in Nat
  BY PagerAssumption, CatalogAssumption DEF ReadPage
<1> QED
  BY <1>1, <1>2 DEF Pages

\* Every step keeps the types, and the place save_catalog has got to.
LEMMA StepTyped ==
  ASSUME CacheInv, Types, Progress, [Next]_fileVars
  PROVE  Types' /\ Progress'
<1> USE DEF Types
<1>a. /\ LastPage \in Nat \ {0} /\ GraphPages \in 0..LastPage /\ Zeros \in Text
      /\ \A d \in Documents : Size[d] \in Nat \ {0}
  BY PagerAssumption, CatalogAssumption DEF Text
<1>b. \A p \in Pages : PageRead(p) = disk[p] /\ disk[p].start \in Nat /\ disk[p].next \in 0..LastPage
  BY PageReadIsDisk
<1>c. ASSUME NEW p \in Pages, NEW page \in [start : Nat, next : 0..LastPage, body : Text], PutPage(p, page)
      PROVE  disk' \in [Pages -> [start : Nat, next : 0..LastPage, body : Text]]
  BY <1>c DEF PutPage
<1>d. Idle \in OpType
  BY <1>a DEF Idle, OpType, Steps
<1>e. ASSUME NEW p \in 0..LastPage
      PROVE  /\ FreeFrom(p) \in OpType
             /\ FreeFrom(p).step = IF p = 0 THEN "allocate" ELSE "free"
             /\ FreeFrom(p).at = p /\ FreeFrom(p).pages = <<>> /\ FreeFrom(p).written = 0
  <2> DEFINE next == IF p = 0 THEN "allocate" ELSE "free"
  <2>1. next \in Steps /\ p \in 0..LastPage
    BY DEF Steps
  <2>2. FreeFrom(p) = [Idle EXCEPT !.step = next, !.at = p]
    BY DEF FreeFrom
  <2>3. Idle.pages = <<>> /\ Idle.written = 0
    BY DEF Idle
  <2>4. /\ FreeFrom(p) \in OpType /\ FreeFrom(p).step = next /\ FreeFrom(p).at = p
        /\ FreeFrom(p).pages = <<>> /\ FreeFrom(p).written = 0
    <3> HIDE DEF next
    <3> QED
      BY <2>1, <2>2, <2>3, <1>d DEF OpType
  <2> QED
    BY <2>4
<1>f. ASSUME NEW p \in Pages, catalog \in Documents, Built < Size[catalog]
      PROVE  /\ Allocated(p) \in OpType
             /\ Allocated(p).written = op.written
             /\ Len(Allocated(p).pages) = Built + 1
             /\ Allocated(p).step = IF Built + 1 = Size[catalog] THEN "write" ELSE "allocate"
  <2> DEFINE q == Append(op.pages, p)
  <2>1. q \in Seq(Pages) /\ Len(q) = Built + 1
    BY DEF OpType, Built
  <2>2. Allocated(p) = [op EXCEPT !.pages = q, !.step = IF Len(q) = Size[catalog] THEN "write" ELSE "allocate"]
    BY DEF Allocated
  <2> HIDE DEF q
  <2> QED
    BY <2>1, <2>2 DEF OpType, Steps
<1>g. ASSUME NEW p \in Pages, catalog \in Documents, Built < Size[catalog], op.written = 0,
             op' = Allocated(p), catalog' = catalog, session' = "open"
      PROVE  Progress' /\ op' \in OpType
  <2>1. /\ op' \in OpType /\ op'.written = 0 /\ Built' = Built + 1
        /\ op'.step = IF Built + 1 = Size[catalog] THEN "write" ELSE "allocate"
    BY <1>g, <1>f DEF Built
  <2>2. Built + 1 = Size[catalog] \/ Built + 1 < Size[catalog]
    BY <1>g, <1>a DEF Built, OpType
  <2>3. CASE Built + 1 = Size[catalog]
    <3>1. op'.step = "write" /\ Built' = Size[catalog] /\ op'.written < Built'
      BY <2>1, <2>3, <1>g, <1>a
    <3> QED
      BY <2>1, <3>1, <1>g DEF Progress
  <2>4. CASE Built + 1 < Size[catalog]
    <3>1. op'.step = "allocate" /\ Built' < Size[catalog] /\ op'.written = 0
      BY <2>1, <2>4, <1>g, <1>a
    <3> QED
      BY <2>1, <3>1, <1>g DEF Progress
  <2> QED
    BY <2>2, <2>3, <2>4
<1>1. CASE \E d \in Documents : SaveCatalog(d)
  <2>1. PICK d \in Documents : SaveCatalog(d)
    BY <1>1
  <2>2. catalog' = d /\ op' = FreeFrom(root) /\ session' = "open" /\ header' = header
    BY <2>1 DEF SaveCatalog, Running, pagerVars
  <2>3. Len(<<>>) = 0 /\ Size[d] \in Nat \ {0}
    BY <1>a
  <2>4. Progress'
    BY <2>2, <2>3, <1>e DEF Progress, Built
  <2> QED
    BY <2>1, <2>2, <2>4, <1>e DEF SaveCatalog, pagerVars
<1>2. CASE FreeWrites
  <2>1. /\ Running("free") /\ op.at \in Pages
        /\ PutPage(op.at, FreedPage(header.freeList))
        /\ op' = [op EXCEPT !.step = "link", !.after = PageRead(op.at).next]
    BY <1>2 DEF FreeWrites, Progress, Running, OpType, Pages
  <2>2. FreedPage(header.freeList) \in [start : Nat, next : 0..LastPage, body : Text]
    BY <1>a DEF FreedPage, BlankPage, HeaderType
  <2>3. PageRead(op.at).next \in 0..LastPage
    BY <2>1, <1>b
  <2>4. op' \in OpType /\ op'.step = "link" /\ op'.at = op.at /\ op'.pages = op.pages /\ op'.written = op.written
    BY <2>1, <2>3 DEF OpType, Steps
  <2>5. Progress'
    BY <2>1, <2>4, <1>2 DEF Progress, FreeWrites, Running
  <2> QED
    BY <2>1, <2>2, <2>4, <2>5, <1>c, <1>2 DEF FreeWrites, counters
<1>3. CASE FreeLinks
  <2>1. /\ Running("link") /\ op' = FreeFrom(op.after) /\ op.after \in 0..LastPage
        /\ header' = [header EXCEPT !.freeList = op.at] /\ diskHeader' = header'
    BY <1>3 DEF FreeLinks, PutHeader, OpType
  <2>2. header' \in HeaderType
    <3>1. op.at \in Nat
      BY <1>a DEF OpType
    <3> QED
      BY <2>1, <3>1 DEF HeaderType
  <2>3. catalog' = catalog /\ catalog \in Documents /\ session' = "open" /\ Len(<<>>) = 0 /\ Size[catalog] \in Nat \ {0}
    BY <1>3, <2>1, <1>a DEF FreeLinks, Running, Progress
  <2>4. Progress'
    BY <2>1, <2>3, <1>e DEF Progress, Built
  <2>5. op' \in OpType
    BY <1>3, <1>e DEF FreeLinks, OpType
  <2>6. UNCHANGED <<disk, root, catalog, session, saves, crashes, failures>>
    BY <1>3 DEF FreeLinks, counters
  <2> QED
    BY <2>1, <2>2, <2>4, <2>5, <2>6
<1>4. CASE AllocateFreed
  <2>1. /\ Running("allocate") /\ header.freeList \in Pages
        /\ header' = [header EXCEPT !.freeList = PageRead(header.freeList).start] /\ diskHeader' = header'
        /\ op' = Allocated(header.freeList)
    <3>1. header.freeList \in Pages
      BY <1>4, FreeHeadIsPage DEF AllocateFreed
    <3> QED
      BY <1>4, <3>1 DEF AllocateFreed, PutHeader
  <2>2. header' \in HeaderType /\ diskHeader' \in HeaderType
    BY <2>1, <1>b DEF HeaderType
  <2>3. /\ catalog' = catalog /\ catalog \in Documents /\ Built < Size[catalog] /\ op.written = 0
        /\ session' = "open" /\ Built \in Nat /\ Size[catalog] \in Nat
    <3>1. catalog' = catalog /\ session' = session /\ session = "open"
      BY <1>4 DEF AllocateFreed, Running
    <3>2. catalog \in Documents /\ Built < Size[catalog] /\ op.written = 0
      BY <2>1 DEF Progress, Running
    <3>3. Built \in Nat
      BY DEF Built, OpType
    <3> QED
      BY <3>1, <3>2, <3>3, <1>a
  <2>4. Progress'
    BY <2>1, <2>3, <1>g
  <2>5. op' \in OpType
    BY <2>1, <2>3, <1>g
  <2>6. UNCHANGED <<disk, root, saves, crashes, failures>>
    BY <1>4 DEF AllocateFreed, counters
  <2> QED
    BY <2>2, <2>3, <2>4, <2>5, <2>6
<1>5. CASE AllocateAppends
  <2>1. /\ Running("allocate") /\ header.pageCount \in Pages
        /\ PutPage(header.pageCount, BlankPage(Free))
        /\ header' = [header EXCEPT !.pageCount = @ + 1]
        /\ op' = [op EXCEPT !.step = "count"]
    BY <1>5, <1>a DEF AllocateAppends, Step, HeaderType, Pages
  <2>2. header' \in HeaderType /\ header'.pageCount > 1
    <3>1. header.pageCount + 1 \in (GraphPages + 1)..(LastPage + 1) /\ header.pageCount + 1 > 1
      BY <2>1, <1>a DEF HeaderType, Pages
    <3> QED
      BY <2>1, <3>1 DEF HeaderType
  <2>3. BlankPage(Free) \in [start : Nat, next : 0..LastPage, body : Text]
    BY <1>a DEF BlankPage, Free
  <2>4. op' \in OpType /\ op'.step = "count" /\ op'.pages = op.pages /\ op'.written = op.written
    BY <2>1 DEF OpType, Steps
  <2>5. catalog' = catalog /\ session' = session
    BY <1>5 DEF AllocateAppends
  <2>6. Progress'
    BY <2>1, <2>2, <2>4, <2>5 DEF Progress, Built, Running
  <2>7. disk' \in [Pages -> [start : Nat, next : 0..LastPage, body : Text]]
    BY <2>1, <2>3, <1>c
  <2>8. UNCHANGED <<diskHeader, root, catalog, session, counters>>
    BY <1>5 DEF AllocateAppends
  <2> QED
    BY <2>2, <2>4, <2>6, <2>7, <2>8 DEF counters
<1>6. CASE AllocateCounts
  <2>1. /\ Running("count") /\ header' = header /\ diskHeader' = header
        /\ op' = Allocated(header.pageCount - 1) /\ catalog' = catalog /\ session' = "open"
    BY <1>6 DEF AllocateCounts, PutHeader, Running
  <2>2. /\ header.pageCount - 1 \in Pages /\ catalog \in Documents /\ Built < Size[catalog] /\ op.written = 0
        /\ Built \in Nat /\ Size[catalog] \in Nat
    <3>1. /\ header.pageCount > 1 /\ catalog \in Documents /\ Built < Size[catalog] /\ op.written = 0
      BY <2>1 DEF Progress, Running
    <3>2. header.pageCount \in (GraphPages + 1)..(LastPage + 1)
      BY DEF HeaderType
    <3>3. Built \in Nat /\ Size[catalog] \in Nat
      BY <3>1, <1>a DEF Built, OpType
    <3>4. header.pageCount - 1 \in Pages
      BY <3>1, <3>2, <1>a DEF Pages
    <3> QED
      BY <3>1, <3>3, <3>4
  <2>3. Progress'
    BY <2>1, <2>2, <1>g
  <2>4. op' \in OpType
    BY <2>1, <2>2, <1>g
  <2>5. UNCHANGED <<disk, root, saves, crashes, failures>>
    BY <1>6 DEF AllocateCounts, counters
  <2> QED
    BY <2>1, <2>3, <2>4, <2>5
<1>7. CASE WriteChainPage
  <2> DEFINE i == op.written + 1
  <2>1. /\ Running("write") /\ catalog' = catalog /\ catalog \in Documents /\ i \in 1..Built
        /\ Built = Size[catalog] /\ op.pages \in Seq(Pages) /\ op.written \in Nat
        /\ session' = "open" /\ Built \in Nat
    <3>1. op.pages \in Seq(Pages) /\ op.written \in Nat /\ Built \in Nat
      BY DEF OpType, Built
    <3>2. Running("write") /\ catalog' = catalog /\ session' = "open"
      BY <1>7 DEF WriteChainPage, Running
    <3>3. catalog \in Documents /\ Built = Size[catalog] /\ op.written < Built
      BY <3>2 DEF Progress, Running
    <3> QED
      BY <3>1, <3>2, <3>3
  <2>2. PutPage(op.pages[i], ChainPage(i))
    BY <1>7 DEF WriteChainPage
  <2>3. op' = [op EXCEPT !.written = i, !.step = IF i = Len(op.pages) THEN "root" ELSE "write"]
    BY <1>7 DEF WriteChainPage
  <2>4. op.pages[i] \in Pages /\ (i < Built => op.pages[i + 1] \in Pages)
    <3>1. \A j \in 1..Built : op.pages[j] \in Pages
      BY <2>1 DEF Built
    <3>2. i \in 1..Built /\ (i < Built => i + 1 \in 1..Built)
      BY <2>1
    <3> HIDE DEF i
    <3> QED
      BY <3>1, <3>2
  <2>5. <<catalog, i>> \in Text
    BY <2>1 DEF Text
  <2>6. ChainPage(i) \in [start : Nat, next : 0..LastPage, body : Text]
    BY <2>4, <2>5, <1>a DEF ChainPage, Catalog, Pages, Built
  <2>7. /\ op' \in OpType /\ op'.written = i /\ op'.pages = op.pages
        /\ op'.step = IF i = Built THEN "root" ELSE "write"
    <3>1. i \in Nat /\ (IF i = Len(op.pages) THEN "root" ELSE "write") \in Steps
      BY <2>1 DEF Steps
    <3> HIDE DEF i
    <3> QED
      BY <2>3, <3>1 DEF OpType, Built
  <2>8. Progress'
    <3>1. i = Built \/ i < Built
      BY <2>1
    <3> HIDE DEF i
    <3> QED
      BY <2>1, <2>7, <3>1 DEF Progress, Built
  <2>9. disk' \in [Pages -> [start : Nat, next : 0..LastPage, body : Text]]
    BY <2>2, <2>4, <2>6, <1>c
  <2>10. UNCHANGED <<diskHeader, header, root, saves, crashes, failures>>
    BY <1>7 DEF WriteChainPage, counters
  <2>11. op' \in OpType /\ catalog' = catalog /\ session' = "open"
    BY <2>1, <2>7
  <2> QED
    BY <2>8, <2>9, <2>10, <2>11
<1>8. CASE WriteRoot
  <2>1. op.pages \in Seq(Pages) /\ Len(op.pages) \in Nat \ {0}
    BY <1>8, <1>a DEF WriteRoot, Running, Progress, OpType, Built
  <2>2. op.pages[1] \in Pages
    BY <2>1
  <2>3. [header EXCEPT !.catalogRoot = op.pages[1]] \in HeaderType
    BY <2>2 DEF HeaderType, Pages
  <2>4. Progress'
    BY <1>8 DEF WriteRoot, Progress, Idle
  <2> QED
    BY <1>8, <2>2, <2>3, <2>4, <1>d DEF WriteRoot, PutHeader, counters, Pages
<1>9. CASE WriteFails
  <2>1. op' = Idle /\ failures' = failures + 1 /\ UNCHANGED <<disk, diskHeader, catalog, session, saves, crashes>>
    BY <1>9 DEF WriteFails, HeaderLost
  <2>2. Progress'
    BY <2>1 DEF Progress, Idle
  <2>3. op.step = "root" => op.pages[1] \in Pages
    <3>1. op.step = "root" => op.pages \in Seq(Pages) /\ Len(op.pages) \in Nat \ {0}
      BY <1>a DEF Progress, OpType, Built
    <3> QED
      BY <3>1
  <2>4. root' \in 0..LastPage
    BY <1>9, <2>3 DEF WriteFails, Pages
  <2>5. CASE op.step = "link"
    <3>1. header' = [header EXCEPT !.freeList = op.at]
      BY <1>9, <2>5 DEF WriteFails, HeaderLost
    <3>2. op.at \in Nat
      BY <1>a DEF OpType
    <3>3. header' \in HeaderType
      BY <3>1, <3>2 DEF HeaderType
    <3> QED
      BY <3>3, <2>1, <2>2, <2>4, <1>d
  <2>6. CASE op.step = "allocate" /\ header.freeList # 0
    <3>1. header' = [header EXCEPT !.freeList = PageRead(header.freeList).start] /\ ReadPage(header.freeList)
      BY <1>9, <2>6 DEF WriteFails, HeaderLost
    <3>2. header.freeList \in Pages
      BY <3>1, <2>6, <1>a DEF ReadPage, HeaderType, Pages
    <3> QED
      BY <3>1, <3>2, <2>1, <2>2, <2>4, <1>b, <1>d DEF HeaderType
  <2>7. CASE op.step = "allocate" /\ header.freeList = 0
    <3>1. header' = [header EXCEPT !.pageCount = @ + 1] /\ header.pageCount <= LastPage
      BY <1>9, <2>7 DEF WriteFails, HeaderLost
    <3>2. header' \in HeaderType
      BY <3>1, <1>a DEF HeaderType
    <3> QED
      BY <3>2, <2>1, <2>2, <2>4, <1>d
  <2>8. CASE op.step = "root"
    <3>1. header' = [header EXCEPT !.catalogRoot = op.pages[1]]
      BY <1>9, <2>8 DEF WriteFails, HeaderLost
    <3>2. op.pages[1] \in 0..LastPage
      BY <2>3, <2>8 DEF Pages
    <3>3. header' \in HeaderType
      BY <3>1, <3>2 DEF HeaderType
    <3> QED
      BY <3>3, <2>1, <2>2, <2>4, <1>d
  <2>9. CASE op.step \notin {"link", "allocate", "root"}
    <3>1. header' = header
      BY <1>9, <2>9 DEF WriteFails, HeaderLost
    <3> QED
      BY <3>1, <2>1, <2>2, <2>4, <1>d
  <2> QED
    BY <2>5, <2>6, <2>7, <2>8, <2>9
<1>10. CASE Crash
  <2>1. Progress'
    BY <1>10 DEF Crash, Progress, Idle
  <2> QED
    BY <1>10, <2>1, <1>d DEF Crash
<1>11. CASE Open
  <2>1. FileOpensWith \in Documents \cup {Empty, Refused}
    BY FileOpensTyped
  <2>2. op.step = "idle"
    BY <1>11 DEF Open, Progress
  <2>3. Progress'
    BY <1>11 DEF Open, Progress
  <2> QED
    BY <1>11, <2>1, <2>3 DEF Open, HeaderType, counters
<1>12. CASE UNCHANGED fileVars
  BY <1>12 DEF fileVars, pagerVars, catalogVars, counters, Progress, Built
<1> QED
  BY <1>1, <1>2, <1>3, <1>4, <1>5, <1>6, <1>7, <1>8, <1>9, <1>10, <1>11, <1>12 DEF Next

\* The pages beside those of the graph are pages of the file.
LEMMA RegionInFile ==
  ASSUME Types
  PROVE  /\ Region \subseteq (GraphPages + 1)..LastPage /\ Region \subseteq Pages /\ 0 \notin Region
         /\ LastPage \in Nat /\ GraphPages \in Nat /\ diskHeader.pageCount \in Nat
         /\ \A d \in Documents : Size[d] \in Nat \ {0}
<1>1. LastPage \in Nat /\ GraphPages \in Nat /\ \A d \in Documents : Size[d] \in Nat \ {0}
  BY PagerAssumption, CatalogAssumption
<1>2. PICK count \in (GraphPages + 1)..(LastPage + 1) : count = diskHeader.pageCount
  BY DEF Types, HeaderType
<1>3. \A p \in (GraphPages + 1)..(count - 1) : p \in (GraphPages + 1)..LastPage /\ p \in 1..LastPage /\ p # 0
  BY <1>1, <1>2
<1> QED
  BY <1>1, <1>2, <1>3 DEF Region, Pages

\* The free list and a chain stay what they are while their own pages do.
LEMMA StackKept ==
  ASSUME NEW f, NEW n, FreeStack(f, n), Region \subseteq Region',
         diskHeader'.freeList = diskHeader.freeList,
         \A i \in 1..n : disk'[f[i]] = disk[f[i]]
  PROVE  FreeStack(f, n)'
BY DEF FreeStack, OneToOne, Linked

\* A chain stays a chain while its pages stay.
LEMMA ChainKept ==
  ASSUME NEW d, NEW s, NEW m, NEW k, ChainOf(d, s, m, k), Region \subseteq Region',
         \A i \in m..k : disk'[s[i]] = disk[s[i]]
  PROVE  ChainOf(d, s, m, k)'
BY DEF ChainOf, OneToOne, Part

\* A page of the free list does not pass for a catalog.
LEMMA FreeIsErased ==
  ASSUME NoLinkReadsAsCatalog, Types, NEW f, NEW n, FreeStack(f, n), NEW p, Holds(f, 1, n, p)
  PROVE  Erased(disk[p]) /\ p # 0 /\ disk[p].next = 0
<1>1. PICK i \in 1..n : f[i] = p
  BY DEF Holds
<1>2. p \in Region /\ disk[p] = Linked(IF i = 1 THEN 0 ELSE f[i - 1])
  BY <1>1 DEF FreeStack
<1>3. CASE i = 1
  <2>1. disk[p] = Linked(0)
    BY <1>2, <1>3
  <2>2. 0 % 256 # 8
    OBVIOUS
  <2> QED
    BY <1>2, <2>1, <2>2, RegionInFile DEF Linked, Erased, Catalog
<1>4. CASE i # 1
  <2>1. i - 1 \in 1..n /\ f[i - 1] \in Region
    BY <1>1, <1>4 DEF FreeStack
  <2>2. disk[p] = Linked(f[i - 1])
    BY <1>2, <1>4
  <2>3. f[i - 1] % 256 # Catalog
    BY <2>1, RegionInFile DEF NoLinkReadsAsCatalog
  <2> QED
    BY <1>2, <2>2, <2>3, RegionInFile DEF Linked, Erased
<1> QED
  BY <1>3, <1>4

\* A page that holds a link of the free list reads as no catalog.
LEMMA LinkIsErased ==
  ASSUME NoLinkReadsAsCatalog, Types, NEW f, NEW n, FreeStack(f, n)
  PROVE  Erased(Linked(diskHeader.freeList))
<1>1. 0 % 256 # Catalog
  BY DEF Catalog
<1>2. n # 0 => diskHeader.freeList \in Region
  BY DEF FreeStack
<1>3. diskHeader.freeList % 256 # Catalog
  BY <1>1, <1>2, RegionInFile DEF NoLinkReadsAsCatalog, FreeStack
<1> QED
  BY <1>3 DEF Erased, Linked

\* A saved catalog is what the file opens with.
LEMMA SavedOpens ==
  ASSUME Types, NEW d, NEW s, NEW k, Saved(d, s, k)
  PROVE  FileOpensWith = d /\ d # Refused
<1>1. CASE d = Empty /\ diskHeader.catalogRoot = 0
  BY <1>1, RootEmpty, CatalogAssumption
<1>2. CASE ChainOf(d, s, 1, k) /\ diskHeader.catalogRoot = s[1]
  <2>1. d \in Documents /\ k = Size[d] /\ k \in Nat \ {0}
    BY <1>2, RegionInFile DEF ChainOf
  <2>2. \A i \in 1..k : s[i] # 0 /\ disk[s[i]] = Part(d, s, Size[d], i)
    BY <1>2, <2>1, RegionInFile DEF ChainOf
  <2>3. k \in 1..Size[d]
    BY <2>1
  <2>4. FileOpensWith = d
    BY <1>2, <2>1, <2>2, <2>3, RootOfParts
  <2> QED
    BY <2>1, <2>4, CatalogAssumption
<1> QED
  BY <1>1, <1>2 DEF Saved

\* The chain that is being freed opens as it did or, once its first page is freed, not at all.
LEMMA FreeingOpens ==
  ASSUME NoLinkReadsAsCatalog, Types, NEW f, NEW n, NEW s, NEW m, NEW k, NEW d, Freeing(f, n, s, m, k, d)
  PROVE  FileOpensWith = Refused \/ Between(f, n, s, k, d)
<1>1. CASE m = 1 /\ diskHeader.catalogRoot = s[1]
  BY <1>1 DEF Freeing, Between, Saved
<1>2. CASE Holds(f, 1, n, diskHeader.catalogRoot)
  BY <1>2, FreeIsErased, RootErased DEF Freeing, Erased
<1> QED
  BY <1>1, <1>2 DEF Freeing

\* Between the write of a freed page and the link to it, the root reads as no catalog.
LEMMA LinkingOpens ==
  ASSUME NoLinkReadsAsCatalog, Types, NEW f, NEW n, NEW s, NEW m, NEW k, NEW d, Linking(f, n, s, m, k, d)
  PROVE  FileOpensWith = Refused
<1>1. CASE diskHeader.catalogRoot = op.at
  BY <1>1, LinkIsErased, RootErased, RegionInFile DEF Linking, Erased
<1>2. CASE Holds(f, 1, n, diskHeader.catalogRoot)
  BY <1>2, FreeIsErased, RootErased DEF Linking, Erased
<1> QED
  BY <1>1, <1>2 DEF Linking

\* The chain that is being written opens when it is whole and the header has its first page for the root already.
LEMMA BuildingOpens ==
  ASSUME NoLinkReadsAsCatalog, Types, Progress, op.step \in {"allocate", "count", "write", "root"},
         NEW f, NEW n, Building(f, n)
  PROVE  \/ FileOpensWith = Refused
         \/ diskHeader.catalogRoot = 0 /\ FileOpensWith = Empty
         \/ /\ diskHeader.catalogRoot = op.pages[1] /\ Built = Size[catalog] /\ op.written = Built
            /\ FileOpensWith = catalog
<1>k. /\ catalog \in Documents /\ Built \in Nat /\ op.written \in 0..Built /\ Size[catalog] \in Nat \ {0}
      /\ op.written > 0 => Built = Size[catalog]
      /\ \A i \in 1..Built : op.pages[i] # 0
  BY RegionInFile DEF Building, Progress, Built
<1>1. CASE diskHeader.catalogRoot = 0
  BY <1>1, RootEmpty
<1>2. CASE Holds(f, 1, n, diskHeader.catalogRoot)
  BY <1>2, FreeIsErased, RootErased DEF Building, Erased
<1>3. CASE Holds(op.pages, 1, Built, diskHeader.catalogRoot)
  <2>1. PICK i \in 1..Built : op.pages[i] = diskHeader.catalogRoot
    BY <1>3 DEF Holds
  <2>2. CASE i > op.written
    <3>1. Erased(disk[diskHeader.catalogRoot]) /\ diskHeader.catalogRoot # 0
      BY <2>1, <2>2, <1>k DEF Building
    <3> QED
      BY <3>1, RootErased DEF Erased
  <2>3. CASE i <= op.written /\ i # 1
    <3>1. disk[diskHeader.catalogRoot] = Part(catalog, op.pages, Built, i) /\ diskHeader.catalogRoot # 0
      BY <2>1, <2>3, <1>k DEF Building
    <3>2. i \in 1..Size[catalog]
      BY <2>1, <2>3, <1>k
    <3> QED
      BY <3>1, <3>2, <2>3, <1>k, RootElsewhere DEF Part
  <2>4. CASE i <= op.written /\ i = 1
    <3> DEFINE w == op.written
    <3>1. w \in 1..Size[catalog] /\ Built = Size[catalog]
      BY <2>1, <2>4, <1>k
    <3>2. \A j \in 1..w : op.pages[j] # 0 /\ disk[op.pages[j]] = Part(catalog, op.pages, Size[catalog], j)
      BY <3>1, <1>k DEF Building
    <3>3. w < Size[catalog] => op.pages[w + 1] # 0 /\ disk[op.pages[w + 1]].body = Zeros
      BY <3>1, <1>k DEF Building, Erased
    <3>4. diskHeader.catalogRoot = op.pages[1]
      BY <2>1, <2>4
    <3> HIDE DEF w
    <3>5. /\ w = Size[catalog] => FileOpensWith = catalog
          /\ w < Size[catalog] => FileOpensWith = Refused
      BY <3>1, <3>2, <3>3, <3>4, <1>k, RootOfParts
    <3> QED
      BY <3>1, <3>4, <3>5, <1>k DEF w
  <2> QED
    BY <2>1, <2>2, <2>3, <2>4, <1>k
<1> QED
  BY <1>1, <1>2, <1>3 DEF Building

\* The saved file holds its catalog, and no free page.
LEMMA InitBetween ==
  ASSUME Init
  PROVE  FileInv
<1>1. /\ root = diskHeader.catalogRoot /\ header = diskHeader /\ op.step = "idle"
      /\ diskHeader = SavedHeader(catalog) /\ disk = SavedFile(catalog)
  BY DEF Init, Idle
<1>2. Types
  BY InitTyped
<1>3. CASE catalog = Empty
  <2>1. Between(<<>>, 0, <<>>, 0, catalog)
    <3>1. Region = {}
      BY <1>1, <1>3, RegionInFile, <1>2 DEF Region, SavedHeader
    <3> QED
      BY <1>1, <1>3, <3>1 DEF Between, FreeStack, Saved, Apart, Accounted, OneToOne, SavedHeader
  <2> QED
    BY <1>1, <2>1 DEF FileInv, OpenInv, Init
<1>4. CASE catalog # Empty
  <2> DEFINE k == Size[catalog]
             s == [i \in 1..k |-> GraphPages + i]
  <2>1. catalog \in Documents /\ k \in Nat \ {0} /\ GraphPages \in Nat /\ LastPage \in Nat /\ GraphPages + k <= LastPage
    BY <1>4, <1>2, RegionInFile, CatalogAssumption DEF Init
  <2>2. /\ diskHeader.pageCount = GraphPages + 1 + k /\ diskHeader.freeList = 0
        /\ diskHeader.catalogRoot = GraphPages + 1
    BY <1>1, <1>4 DEF SavedHeader
  <2> HIDE DEF k
  <2>3. Region = (GraphPages + 1)..(GraphPages + k)
    BY <2>1, <2>2 DEF Region
  <2>4. \A i \in 1..k : s[i] = GraphPages + i /\ s[i] \in Region
    BY <2>1, <2>3
  <2>5. ASSUME NEW i \in 1..k
        PROVE  disk[s[i]] = Part(catalog, s, k, i)
    <3> DEFINE p == GraphPages + i
    <3>1. p \in Pages /\ ~(p <= GraphPages) /\ p \in GraphPages + 1 .. GraphPages + k /\ p - GraphPages = i
      BY <2>1 DEF Pages
    <3>2. (IF p < GraphPages + k THEN p + 1 ELSE 0) = IF i < k THEN s[i + 1] ELSE 0
      BY <2>1
    <3> HIDE DEF p
    <3>3. SavedFile(catalog)[p] =
            [start |-> Catalog, next |-> IF p < GraphPages + k THEN p + 1 ELSE 0, body |-> <<catalog, p - GraphPages>>]
      BY <1>4, <3>1 DEF SavedFile, k
    <3> QED
      BY <1>1, <2>4, <3>1, <3>2, <3>3 DEF Part, p
  <2> HIDE DEF s
  <2>6. ChainOf(catalog, s, 1, k)
    BY <2>1, <2>4, <2>5 DEF ChainOf, OneToOne, k
  <2>7. \A p \in Region : Holds(s, 1, k, p)
    <3> SUFFICES ASSUME NEW p \in Region PROVE Holds(s, 1, k, p)
      OBVIOUS
    <3>1. p - GraphPages \in 1..k /\ s[p - GraphPages] = p
      BY <2>1, <2>3, <2>4
    <3> QED
      BY <3>1 DEF Holds
  <2>8. diskHeader.catalogRoot = s[1]
    BY <2>1, <2>2, <2>4
  <2>9. Between(<<>>, 0, s, k, catalog)
    BY <2>2, <2>6, <2>7, <2>8 DEF Between, FreeStack, Saved, Apart, Accounted, OneToOne
  <2> QED
    BY <1>1, <2>9 DEF FileInv, OpenInv, Init
<1> QED
  BY <1>3, <1>4

\* Before the first page is allocated nothing is built.
LEMMA NothingBuilt ==
  ASSUME catalog' \in Documents, op'.pages = <<>>, op'.written = 0, NEW f, NEW n, FreeStack(f, n)',
         crashes' = 0 => \A p \in Region' : Holds(f, 1, n, p),
         diskHeader'.catalogRoot = 0 \/ Holds(f, 1, n, diskHeader'.catalogRoot)
  PROVE  Building(f, n)'
<1>1. Built' = 0 /\ op'.pages \in Seq(Pages) /\ \A i : i \notin 1..0
  BY DEF Built
<1>2. /\ op'.written \in 0..Built' /\ OneToOne(op'.pages, 1, Built') /\ Apart(op'.pages, 1, Built', f, n)
      /\ 1..Built' = {} /\ 1..op'.written = {} /\ (op'.written + 1)..Built' = {}
  BY <1>1 DEF OneToOne, Apart
<1>3. Accounted(op.pages, 1, Built, f, n, {})'
  BY DEF Accounted, Holds
<1> QED
  BY <1>1, <1>2, <1>3 DEF Building, OneToOne, Apart, Holds

\* SaveCatalog begins to free the chain of the saved catalog, or to allocate when there is none.
LEMMA SaveKeeps ==
  ASSUME Types, Progress, OpenInv, session = "open", NEW d \in Documents, SaveCatalog(d)
  PROVE  OpenInv'
<1>1. /\ op.step = "idle" /\ op' = FreeFrom(root) /\ catalog' = d
      /\ UNCHANGED <<disk, diskHeader, header, root, crashes>>
  BY DEF SaveCatalog, Running, pagerVars
<1>2. PICK f, n, s, k : Between(f, n, s, k, catalog)
  BY <1>1 DEF OpenInv
<1>3. /\ root' = diskHeader'.catalogRoot /\ header' = diskHeader' /\ Region' = Region
      /\ root = diskHeader.catalogRoot
  BY <1>1 DEF OpenInv, Region
<1>4. FreeStack(f, n)'
  BY <1>1, <1>2, <1>3, StackKept DEF Between
<1>5. op'.pages = <<>> /\ op'.written = 0 /\ op'.at = root /\ op'.step = IF root = 0 THEN "allocate" ELSE "free"
  BY <1>1 DEF FreeFrom, Idle
<1>6. CASE root = 0
  <2>1. k = 0
    BY <1>2, <1>3, <1>6, RegionInFile DEF Between, Saved, ChainOf
  <2>2. crashes' = 0 => \A p \in Region' : Holds(f, 1, n, p)
    BY <1>1, <1>2, <1>3, <2>1 DEF Between, Accounted, Holds
  <2>3. Building(f, n)'
    BY <1>1, <1>3, <1>4, <1>5, <1>6, <2>2, NothingBuilt
  <2> QED
    BY <1>3, <1>5, <1>6, <2>3 DEF OpenInv
<1>7. CASE root # 0
  <2>1. PICK old : old = catalog
    OBVIOUS
  <2>2. ChainOf(old, s, 1, k) /\ root = s[1] /\ k \in Nat \ {0}
    BY <1>2, <1>3, <1>7, <2>1, RegionInFile DEF Between, Saved, ChainOf
  <2>3. ChainOf(old, s, 1, k)'
    BY <1>1, <1>3, <2>2, ChainKept
  <2>4. Freeing(f, n, s, 1, k, old)'
    BY <1>1, <1>2, <1>3, <1>4, <1>5, <2>2, <2>3 DEF Freeing, Between, Apart, Accounted, Holds
  <2> QED
    BY <1>3, <1>5, <1>7, <2>4 DEF OpenInv
<1> QED
  BY <1>6, <1>7

\* free_page erases the first page left of the chain.
LEMMA FreeWritesKeeps ==
  ASSUME CacheInv, Types, Progress, OpenInv, FreeWrites
  PROVE  OpenInv'
<1>1. /\ op.step = "free" /\ op.at \in Pages /\ PageRead(op.at) = disk[op.at]
      /\ disk' = [disk EXCEPT ![op.at] = FreedPage(header.freeList)]
      /\ op' = [op EXCEPT !.step = "link", !.after = PageRead(op.at).next]
      /\ UNCHANGED <<diskHeader, header, root, catalog, crashes>>
  BY PageReadIsDisk, PagerAssumption DEF FreeWrites, Running, PutPage, Progress, Types, OpType, Pages, counters
<1>2. PICK f, n, s, m, k, d : Freeing(f, n, s, m, k, d)
  BY <1>1 DEF OpenInv
<1>3. header = diskHeader /\ root = diskHeader.catalogRoot /\ Region' = Region
  BY <1>1 DEF OpenInv, Region
<1>4. /\ op'.step = "link" /\ op'.at = op.at /\ op'.after = disk[op.at].next
  BY <1>1 DEF Types, OpType
<1>5. m \in 1..k /\ op.at = s[m] /\ k \in Nat \ {0} /\ m \in Nat
  BY <1>2, RegionInFile DEF Freeing, ChainOf
<1>6. op.at \in Region /\ disk[op.at] = Part(d, s, k, m)
  BY <1>2, <1>5 DEF Freeing, ChainOf
<1>7. disk'[op.at] = Linked(diskHeader.freeList)
  <2>1. FreedPage(header.freeList) = Linked(header.freeList)
    BY DEF FreedPage, BlankPage, Linked
  <2> QED
    BY <1>1, <1>3, <2>1 DEF Types
<1>8. /\ ~Holds(s, m + 1, k, op.at) /\ ~Holds(f, 1, n, op.at)
  BY <1>2, <1>5 DEF Freeing, Apart, ChainOf, OneToOne, Holds
<1>9. FreeStack(f, n)'
  <2>1. \A i \in 1..n : disk'[f[i]] = disk[f[i]]
    BY <1>1, <1>8 DEF Holds, Types
  <2> QED
    BY <1>1, <1>2, <1>3, <2>1, StackKept DEF Freeing
<1>10. ChainOf(d, s, m + 1, k)'
  <2>1. ChainOf(d, s, m + 1, k)
    BY <1>2, <1>5 DEF Freeing, ChainOf, OneToOne
  <2>2. \A i \in (m + 1)..k : disk'[s[i]] = disk[s[i]]
    BY <1>1, <1>8 DEF Holds, Types
  <2> QED
    BY <1>1, <1>3, <2>1, <2>2, ChainKept
<1>11. op'.after = IF m + 1 <= k THEN s[m + 1] ELSE 0
  BY <1>4, <1>5, <1>6 DEF Part
<1>12. Apart(s, m + 1, k, f, n)
  BY <1>2, <1>5 DEF Freeing, Apart
<1>13. Accounted(s, m + 1, k, f, n, {op.at})
  BY <1>2, <1>5 DEF Freeing, Accounted, Holds
<1>14. diskHeader.catalogRoot = op.at \/ Holds(f, 1, n, diskHeader.catalogRoot)
  BY <1>2, <1>5 DEF Freeing
<1>15. Linking(f, n, s, m + 1, k, d)'
  BY <1>1, <1>3, <1>4, <1>5, <1>6, <1>7, <1>8, <1>9, <1>10, <1>11, <1>12, <1>13, <1>14
  DEF Linking, Apart, Accounted, Holds
<1> QED
  BY <1>1, <1>3, <1>4, <1>15 DEF OpenInv

\* The page just erased becomes the first of the free list, and the chain is one shorter.
LEMMA FreeLinksKeeps ==
  ASSUME Types, Progress, OpenInv, FreeLinks
  PROVE  OpenInv'
<1>1. /\ op.step = "link" /\ op' = FreeFrom(op.after)
      /\ header' = [header EXCEPT !.freeList = op.at] /\ diskHeader' = header'
      /\ UNCHANGED <<disk, root, catalog, crashes>>
  BY DEF FreeLinks, Running, PutHeader, counters
<1>2. PICK f, n, s, m, k, d : Linking(f, n, s, m, k, d)
  BY <1>1 DEF OpenInv
<1>3. header = diskHeader /\ root = diskHeader.catalogRoot
  BY <1>1 DEF OpenInv
<1>4. /\ diskHeader'.freeList = op.at /\ diskHeader'.catalogRoot = diskHeader.catalogRoot
      /\ diskHeader'.pageCount = diskHeader.pageCount /\ Region' = Region
  BY <1>1, <1>3 DEF Types, HeaderType, Region
<1>5. op'.pages = <<>> /\ op'.written = 0 /\ op'.at = op.after /\ op'.step = IF op.after = 0 THEN "allocate" ELSE "free"
  BY <1>1 DEF FreeFrom, Idle
<1>6. n \in Nat /\ m \in 2..(k + 1) /\ k \in Nat \ {0} /\ op.at \in Region
  BY <1>2, RegionInFile DEF Linking, FreeStack, ChainOf
<1>7. PICK g : g = [i \in 1..(n + 1) |-> IF i = n + 1 THEN op.at ELSE f[i]]
  OBVIOUS
<1>8. g[n + 1] = op.at /\ \A i \in 1..n : g[i] = f[i]
  BY <1>6, <1>7
<1>9. \A p : Holds(g, 1, n + 1, p) <=> Holds(f, 1, n, p) \/ p = op.at
  BY <1>6, <1>8 DEF Holds
<1>10. FreeStack(g, n + 1)'
  <2>1. \A i \in 1..n : f[i] \in Region /\ disk[f[i]] = Linked(IF i = 1 THEN 0 ELSE f[i - 1])
    BY <1>2 DEF Linking, FreeStack
  <2>2. disk[op.at] = Linked(IF n + 1 = 1 THEN 0 ELSE f[n])
    BY <1>2, <1>6 DEF Linking, FreeStack
  <2>3. \A i \in 1..n : i # 1 => g[i - 1] = f[i - 1]
    BY <1>6, <1>8
  <2>4. \A i \in 1..(n + 1) : g[i] \in Region /\ disk[g[i]] = Linked(IF i = 1 THEN 0 ELSE g[i - 1])
    <3> SUFFICES ASSUME NEW i \in 1..(n + 1)
                 PROVE  g[i] \in Region /\ disk[g[i]] = Linked(IF i = 1 THEN 0 ELSE g[i - 1])
      OBVIOUS
    <3>1. CASE i \in 1..n
      BY <2>1, <2>3, <3>1, <1>8
    <3>2. CASE i = n + 1
      BY <2>2, <3>2, <1>6, <1>8
    <3> QED
      BY <3>1, <3>2, <1>6
  <2>5. OneToOne(g, 1, n + 1)
    BY <1>2, <1>6, <1>8 DEF Linking, FreeStack, OneToOne, Holds
  <2> QED
    BY <1>1, <1>4, <1>6, <1>8, <2>4, <2>5 DEF FreeStack, OneToOne, Linked
<1>11. Holds(g, 1, n + 1, diskHeader.catalogRoot)
  BY <1>2, <1>9 DEF Linking
<1>12. Accounted(s, m, k, g, n + 1, {})
  BY <1>2, <1>9 DEF Linking, Accounted
<1>13. Apart(s, m, k, g, n + 1)
  BY <1>2, <1>6, <1>8 DEF Linking, Apart, Holds
<1>14. CASE op.after = 0
  <2>1. m = k + 1
    BY <1>2, <1>6, <1>14, RegionInFile DEF Linking, ChainOf
  <2>2. \A p : ~Holds(s, m, k, p)
    BY <1>6, <2>1 DEF Holds
  <2>3. crashes' = 0 => \A p \in Region' : Holds(g, 1, n + 1, p)
    BY <1>1, <1>4, <1>12, <2>2 DEF Accounted
  <2>4. Building(g, n + 1)'
    BY <1>1, <1>4, <1>5, <1>10, <1>11, <2>3, NothingBuilt DEF Progress
  <2> QED
    BY <1>1, <1>3, <1>4, <1>5, <1>14, <2>4 DEF OpenInv
<1>15. CASE op.after # 0
  <2>1. m \in 1..k /\ op.after = s[m]
    BY <1>2, <1>6, <1>15 DEF Linking
  <2>2. ChainOf(d, s, m, k)'
    BY <1>1, <1>2, <1>4, ChainKept DEF Linking
  <2>3. Freeing(g, n + 1, s, m, k, d)'
    BY <1>1, <1>4, <1>5, <1>10, <1>11, <1>12, <1>13, <2>1, <2>2 DEF Freeing, Apart, Accounted, Holds
  <2> QED
    BY <1>1, <1>3, <1>4, <1>5, <1>15, <2>3 DEF OpenInv
<1> QED
  BY <1>14, <1>15

\* What allocating a page makes of the operation.
LEMMA OnePageMore ==
  ASSUME Types, catalog \in Documents, Built < Size[catalog], op.written = 0,
         NEW p \in Pages, op' = Allocated(p)
  PROVE  /\ op'.pages \in Seq(Pages) /\ Built' = Built + 1 /\ Built \in Nat
         /\ op'.pages[Built + 1] = p /\ \A i \in 1..Built : op'.pages[i] = op.pages[i]
         /\ op'.written = 0
         /\ op'.step = IF Built + 1 = Size[catalog] THEN "write" ELSE "allocate"
<1> DEFINE q == Append(op.pages, p)
           next == IF Len(q) = Size[catalog] THEN "write" ELSE "allocate"
<1>1. /\ q \in Seq(Pages) /\ Len(q) = Built + 1 /\ Built \in Nat
      /\ q[Built + 1] = p /\ \A i \in 1..Built : q[i] = op.pages[i]
  BY DEF Types, OpType, Built
<1>2. op' = [op EXCEPT !.pages = q, !.step = next]
  BY DEF Allocated
<1>3. op'.pages = q /\ op'.written = 0 /\ op'.step = next
  <2> HIDE DEF q, next
  <2> QED
    BY <1>2 DEF Types, OpType
<1>4. Built' = Built + 1
  BY <1>1, <1>3 DEF Built
<1> QED
  <2> HIDE DEF q
  <2> QED
    BY <1>1, <1>3, <1>4

\* An allocated page joins what is built.
LEMMA BuildingGrows ==
  ASSUME Types, Progress, op.step \in {"allocate", "count"}, NEW f, NEW n, Building(f, n), NEW p \in Pages, op' = Allocated(p),
         NEW g, NEW h, FreeStack(g, h)',
         UNCHANGED <<catalog, crashes, disk>>, diskHeader'.catalogRoot = diskHeader.catalogRoot,
         Region \subseteq Region', p \in Region', Erased(disk[p]),
         ~Holds(op.pages, 1, Built, p), ~Holds(g, 1, h, p),
         \A r : Holds(g, 1, h, r) => Holds(f, 1, n, r),
         \A r : Holds(f, 1, n, r) => Holds(g, 1, h, r) \/ r = p,
         Region' \subseteq Region \cup {p}
  PROVE  /\ Building(g, h)' /\ op'.written = 0 /\ Built' = Built + 1
         /\ op'.step = IF Built + 1 = Size[catalog] THEN "write" ELSE "allocate"
<1>1. catalog \in Documents /\ Built < Size[catalog] /\ op.written = 0
  BY DEF Building, Progress
<1>2. /\ op'.pages \in Seq(Pages) /\ Built' = Built + 1 /\ Built \in Nat
      /\ op'.pages[Built + 1] = p /\ \A i \in 1..Built : op'.pages[i] = op.pages[i]
      /\ op'.written = 0
      /\ op'.step = IF Built + 1 = Size[catalog] THEN "write" ELSE "allocate"
  BY <1>1, OnePageMore
<1>3. \A r : Holds(op'.pages, 1, Built', r) <=> Holds(op.pages, 1, Built, r) \/ r = p
  BY <1>2 DEF Holds
<1>4. \A i \in 1..Built : op.pages[i] \in Region /\ Erased(disk[op.pages[i]])
  BY <1>1 DEF Building
<1>5. \A i \in 1..Built' : op'.pages[i] \in Region' /\ Erased(disk'[op'.pages[i]])
  <2> SUFFICES ASSUME NEW i \in 1..Built' PROVE op'.pages[i] \in Region' /\ Erased(disk'[op'.pages[i]])
    OBVIOUS
  <2>1. CASE i \in 1..Built
    BY <2>1, <1>2, <1>4
  <2>2. CASE i = Built + 1
    BY <2>2, <1>2
  <2> QED
    BY <2>1, <2>2, <1>2
<1>6. OneToOne(op'.pages, 1, Built')
  <2>1. \A i \in 1..Built : op.pages[i] # p
    BY DEF Holds
  <2>2. \A i, j \in 1..Built : op.pages[i] = op.pages[j] => i = j
    BY DEF Building, OneToOne
  <2>3. \A i \in 1..Built' : i \in 1..Built \/ i = Built + 1
    BY <1>2
  <2> QED
    BY <1>2, <2>1, <2>2, <2>3 DEF OneToOne
<1>7. Apart(op'.pages, 1, Built', g, h)
  <2> SUFFICES ASSUME NEW i \in 1..Built', NEW j \in 1..h PROVE op'.pages[i] # g[j]
    BY DEF Apart
  <2>1. Holds(g, 1, h, g[j])
    BY DEF Holds
  <2>2. CASE i = Built + 1
    BY <2>1, <2>2, <1>2
  <2>3. CASE i \in 1..Built
    <3>1. PICK l \in 1..n : f[l] = g[j]
      BY <2>1 DEF Holds
    <3> QED
      BY <3>1, <2>3, <1>2 DEF Building, Apart
  <2> QED
    BY <2>2, <2>3, <1>2
<1>8. crashes' = 0 => \A r \in Region' : Holds(op'.pages, 1, Built', r) \/ Holds(g, 1, h, r)
  <2> SUFFICES ASSUME crashes = 0, NEW r \in Region' PROVE Holds(op'.pages, 1, Built', r) \/ Holds(g, 1, h, r)
    OBVIOUS
  <2>1. r = p \/ Holds(op.pages, 1, Built, r) \/ Holds(f, 1, n, r)
    BY DEF Building, Accounted
  <2> QED
    BY <2>1, <1>3
<1>9. \/ diskHeader'.catalogRoot = 0
      \/ Holds(g, 1, h, diskHeader'.catalogRoot)
      \/ Holds(op'.pages, 1, Built', diskHeader'.catalogRoot)
  BY <1>3 DEF Building
<1>10. Building(g, h)'
  <2>1. op'.written \in 0..Built' /\ \A i : i \notin 1..op'.written
    BY <1>2
  <2>2. \A i \in (op'.written + 1)..Built' : Erased(disk[op.pages[i]])'
    BY <1>2, <1>5 DEF Erased
  <2>3. Accounted(op.pages, 1, Built, g, h, {})'
    BY <1>8 DEF Accounted, Holds
  <2> QED
    BY <2>1, <2>2, <2>3, <1>1, <1>2, <1>5, <1>6, <1>7, <1>9 DEF Building, OneToOne, Apart, Holds
<1> QED
  BY <1>2, <1>10

\* The first page of the free list moves to the chain being built.
LEMMA AllocateFreedKeeps ==
  ASSUME NoLinkReadsAsCatalog, CacheInv, Types, Progress, OpenInv, AllocateFreed
  PROVE  OpenInv'
<1> DEFINE p == header.freeList
<1>1. /\ op.step = "allocate" /\ p # 0 /\ op' = Allocated(p)
      /\ header' = [header EXCEPT !.freeList = PageRead(p).start] /\ diskHeader' = header'
      /\ UNCHANGED <<disk, root, catalog, crashes>>
  BY DEF AllocateFreed, Running, PutHeader, ReadPage, counters
<1>2. PICK f, n : Building(f, n)
  BY <1>1 DEF OpenInv
<1>3. header = diskHeader /\ root = diskHeader.catalogRoot
  BY <1>1 DEF OpenInv
<1>4. n \in Nat \ {0} /\ p = f[n] /\ FreeStack(f, n)
  BY <1>1, <1>2, <1>3 DEF Building, FreeStack
<1>5. p \in Region /\ disk[p] = Linked(IF n = 1 THEN 0 ELSE f[n - 1]) /\ Holds(f, 1, n, p)
  BY <1>4 DEF FreeStack, Holds
<1>6. p \in Pages /\ PageRead(p) = disk[p] /\ Erased(disk[p])
  BY <1>4, <1>5, RegionInFile, PageReadIsDisk, FreeIsErased
<1>7. /\ diskHeader'.freeList = IF n = 1 THEN 0 ELSE f[n - 1]
      /\ diskHeader'.catalogRoot = diskHeader.catalogRoot
      /\ diskHeader'.pageCount = diskHeader.pageCount /\ Region' = Region
  <2>1. PageRead(p).start = IF n = 1 THEN 0 ELSE f[n - 1]
    BY <1>5, <1>6 DEF Linked
  <2> HIDE DEF p
  <2> QED
    BY <1>1, <1>3, <2>1 DEF Types, HeaderType, Region
<1>8. FreeStack(f, n - 1)'
  <2>1. n - 1 \in Nat /\ \A i \in 1..(n - 1) : i \in 1..n
    BY <1>4
  <2>2. \A i \in 1..(n - 1) : f[i] \in Region /\ disk[f[i]] = Linked(IF i = 1 THEN 0 ELSE f[i - 1])
    BY <1>4, <2>1 DEF FreeStack
  <2>3. OneToOne(f, 1, n - 1)
    BY <1>4, <2>1 DEF FreeStack, OneToOne
  <2>4. diskHeader'.freeList = IF n - 1 = 0 THEN 0 ELSE f[n - 1]
    BY <1>4, <1>7
  <2> QED
    BY <1>1, <1>7, <2>1, <2>2, <2>3, <2>4 DEF FreeStack, OneToOne, Linked
<1>9. \A r : Holds(f, 1, n, r) <=> Holds(f, 1, n - 1, r) \/ r = p
  BY <1>4 DEF Holds
<1>10. ~Holds(f, 1, n - 1, p) /\ ~Holds(op.pages, 1, Built, p)
  BY <1>2, <1>4 DEF Holds, FreeStack, OneToOne, Building, Apart
<1> HIDE DEF p
<1>11. /\ Building(f, n - 1)' /\ op'.written = 0 /\ Built' = Built + 1
       /\ op'.step = IF Built + 1 = Size[catalog] THEN "write" ELSE "allocate"
  BY <1>1, <1>2, <1>5, <1>6, <1>7, <1>8, <1>9, <1>10, BuildingGrows
<1> QED
  BY <1>1, <1>3, <1>7, <1>11 DEF OpenInv

\* The appended page is erased, and not yet counted in the header of the file.
LEMMA AllocateAppendsKeeps ==
  ASSUME CacheInv, Types, Progress, OpenInv, AllocateAppends
  PROVE  OpenInv'
<1>1. /\ op.step = "allocate" /\ header.pageCount <= LastPage /\ op' = [op EXCEPT !.step = "count"]
      /\ disk' = [disk EXCEPT ![header.pageCount] = BlankPage(Free)]
      /\ header' = [header EXCEPT !.pageCount = @ + 1]
      /\ UNCHANGED <<diskHeader, root, catalog, crashes>>
  BY DEF AllocateAppends, Running, PutPage, Step, counters
<1>2. PICK f, n : Building(f, n)
  BY <1>1 DEF OpenInv
<1>3. header = diskHeader /\ root = diskHeader.catalogRoot /\ Region' = Region
  BY <1>1 DEF OpenInv, Region
<1>4. diskHeader.pageCount \notin Region /\ diskHeader.pageCount \in Pages
  BY <1>1, <1>3, RegionInFile DEF Region, Types, HeaderType, Pages
<1>5. \A p \in Region : disk'[p] = disk[p]
  BY <1>1, <1>3, <1>4, RegionInFile DEF Types
<1>6. op'.step = "count" /\ op'.pages = op.pages /\ op'.written = op.written /\ Built' = Built
  BY <1>1 DEF Types, OpType, Built
<1>7. FreeStack(f, n)'
  BY <1>1, <1>2, <1>3, <1>5, StackKept DEF Building, FreeStack
<1>8. Building(f, n)'
  <2>1. \A i \in 1..Built : disk'[op.pages[i]] = disk[op.pages[i]]
    BY <1>2, <1>5 DEF Building
  <2>2. \A i \in 1..op.written : i \in 1..Built
    BY <1>2 DEF Building, Built, Types, OpType
  <2>3. /\ \A i \in 1..op.written : disk'[op.pages[i]] = Part(catalog, op.pages, Built, i)
        /\ \A i \in (op.written + 1)..Built : Erased(disk'[op.pages[i]])
    <3>1. \A i \in (op.written + 1)..Built : i \in 1..Built
      BY <1>2 DEF Types, OpType
    <3> QED
      BY <1>2, <2>1, <2>2, <3>1 DEF Building
  <2>4. \A page : Erased(page)' <=> Erased(page)
    BY DEF Erased
  <2> QED
    BY <1>1, <1>2, <1>3, <1>6, <1>7, <2>3, <2>4
    DEF Building, Erased, Part, OneToOne, Apart, Accounted, Holds
<1>9. Erased(disk'[diskHeader'.pageCount])
  <2>1. disk'[diskHeader'.pageCount] = BlankPage(Free) /\ 7 % 256 # 8
    BY <1>1, <1>3, <1>4 DEF Types
  <2> QED
    BY <2>1 DEF Erased, BlankPage, Free, Catalog
<1> QED
  BY <1>1, <1>3, <1>6, <1>8, <1>9 DEF OpenInv, Erased

\* The counted page joins the chain being built.
LEMMA AllocateCountsKeeps ==
  ASSUME Types, Progress, OpenInv, AllocateCounts
  PROVE  OpenInv'
<1> DEFINE p == diskHeader.pageCount
<1>1. /\ op.step = "count" /\ header' = header /\ diskHeader' = header
      /\ op' = Allocated(header.pageCount - 1)
      /\ UNCHANGED <<disk, root, catalog, crashes>>
  BY DEF AllocateCounts, Running, PutHeader, counters
<1>2. PICK f, n : Building(f, n)
  BY <1>1 DEF OpenInv
<1>3. /\ header = [diskHeader EXCEPT !.pageCount = @ + 1] /\ root = diskHeader.catalogRoot
      /\ p <= LastPage /\ Erased(disk[p])
  BY <1>1 DEF OpenInv
<1>4. /\ diskHeader'.pageCount = p + 1 /\ diskHeader'.freeList = diskHeader.freeList
      /\ diskHeader'.catalogRoot = diskHeader.catalogRoot /\ header.pageCount - 1 = p /\ p \in Nat
  BY <1>1, <1>3, RegionInFile DEF Types, HeaderType
<1>5. p \in Pages /\ p \notin Region /\ p \in Region' /\ Region \subseteq Region' /\ Region' \subseteq Region \cup {p}
  <2>1. PICK count \in (GraphPages + 1)..(LastPage + 1) : count = p
    BY DEF Types, HeaderType
  <2>2. LastPage \in Nat /\ GraphPages \in Nat /\ count <= LastPage
    BY <1>3, <2>1, RegionInFile
  <2>3. /\ count \in 1..LastPage /\ count \notin (GraphPages + 1)..(count - 1)
        /\ \A r : r \in (GraphPages + 1)..(count + 1 - 1) <=> r \in (GraphPages + 1)..(count - 1) \/ r = count
    BY <2>1, <2>2
  <2> QED
    BY <1>4, <2>1, <2>3 DEF Region, Pages
<1>6. FreeStack(f, n)'
  BY <1>1, <1>2, <1>4, <1>5, StackKept DEF Building
<1>7. ~Holds(op.pages, 1, Built, p) /\ ~Holds(f, 1, n, p)
  BY <1>2, <1>5 DEF Holds, Building, FreeStack
<1> HIDE DEF p
<1>8. /\ Building(f, n)' /\ op'.written = 0 /\ Built' = Built + 1
      /\ op'.step = IF Built + 1 = Size[catalog] THEN "write" ELSE "allocate"
  BY <1>1, <1>2, <1>3, <1>4, <1>5, <1>6, <1>7, BuildingGrows
<1> QED
  BY <1>1, <1>3, <1>4, <1>8 DEF OpenInv

\* One part more of the chain is written.
LEMMA WriteChainPageKeeps ==
  ASSUME Types, Progress, OpenInv, WriteChainPage
  PROVE  OpenInv'
<1> DEFINE i == op.written + 1
           p == op.pages[i]
<1>1. /\ op.step = "write" /\ disk' = [disk EXCEPT ![p] = ChainPage(i)]
      /\ op' = [op EXCEPT !.written = i, !.step = IF i = Len(op.pages) THEN "root" ELSE "write"]
      /\ UNCHANGED <<diskHeader, header, root, catalog, crashes>>
  BY DEF WriteChainPage, Running, PutPage, counters
<1>2. PICK f, n : Building(f, n)
  BY <1>1 DEF OpenInv
<1>3. header = diskHeader /\ root = diskHeader.catalogRoot /\ Region' = Region
  BY <1>1 DEF OpenInv, Region
<1>4. Built \in Nat /\ Built = Size[catalog] /\ op.written \in Nat /\ i \in 1..Built /\ op.written < Built
  <2>1. Built \in Nat /\ op.written \in Nat
    BY DEF Types, OpType, Built
  <2>2. Built = Size[catalog] /\ op.written < Built
    BY <1>1 DEF Progress
  <2> QED
    BY <2>1, <2>2
<1>5. p \in Region /\ p \in Pages
  BY <1>2, <1>4, RegionInFile DEF Building
<1>6. ChainPage(i) = Part(catalog, op.pages, Built, i)
  BY DEF ChainPage, Part, Built
<1>7. /\ op'.pages = op.pages /\ op'.written = i /\ Built' = Built
      /\ op'.step = IF i = Built THEN "root" ELSE "write"
  <2> HIDE DEF i
  <2> QED
    BY <1>1 DEF Types, OpType, Built
<1>8. \A j \in 1..Built : j # i => disk'[op.pages[j]] = disk[op.pages[j]]
  BY <1>1, <1>2, <1>4, <1>5, RegionInFile DEF Building, OneToOne, Types
<1>9. disk'[p] = Part(catalog, op.pages, Built, i)
  BY <1>1, <1>5, <1>6 DEF Types
<1>10. FreeStack(f, n)'
  <2>1. \A j \in 1..n : f[j] # p
    BY <1>2, <1>4 DEF Building, Apart
  <2>2. \A j \in 1..n : f[j] \in Pages
    BY <1>2, RegionInFile DEF Building, FreeStack
  <2>3. \A j \in 1..n : disk'[f[j]] = disk[f[j]]
    BY <1>1, <2>1, <2>2 DEF Types
  <2> QED
    BY <1>1, <1>2, <1>3, <2>3, StackKept DEF Building
<1>11. Building(f, n)'
  <2>1. \A j \in 1..i : disk'[op.pages[j]] = Part(catalog, op.pages, Built, j)
    <3> SUFFICES ASSUME NEW j \in 1..i PROVE disk'[op.pages[j]] = Part(catalog, op.pages, Built, j)
      OBVIOUS
    <3>1. CASE j = i
      BY <3>1, <1>9
    <3>2. CASE j # i
      <4>1. j \in 1..op.written /\ j \in 1..Built
        BY <3>2, <1>4
      <4> QED
        BY <4>1, <3>2, <1>2, <1>8 DEF Building
    <3> QED
      BY <3>1, <3>2
  <2>2. \A j \in (i + 1)..Built : Erased(disk'[op.pages[j]])
    <3> SUFFICES ASSUME NEW j \in (i + 1)..Built PROVE Erased(disk'[op.pages[j]])
      OBVIOUS
    <3>1. j \in (op.written + 1)..Built /\ j \in 1..Built /\ j # i
      BY <1>4
    <3> QED
      BY <3>1, <1>2, <1>8 DEF Building
  <2>3. op'.pages \in Seq(Pages) /\ op'.written \in 0..Built
    BY <1>2, <1>4, <1>7 DEF Building
  <2> HIDE DEF i
  <2> QED
    BY <1>1, <1>2, <1>3, <1>7, <1>10, <2>1, <2>2, <2>3
    DEF Building, Erased, Part, OneToOne, Apart, Accounted, Holds
<1> HIDE DEF i
<1> QED
  BY <1>1, <1>3, <1>7, <1>11 DEF OpenInv

\* The header points at the whole chain: the new catalog is saved.
LEMMA WriteRootKeeps ==
  ASSUME Types, Progress, OpenInv, WriteRoot
  PROVE  OpenInv'
<1>1. /\ op.step = "root" /\ header' = [header EXCEPT !.catalogRoot = op.pages[1]] /\ diskHeader' = header'
      /\ root' = op.pages[1] /\ op' = Idle
      /\ UNCHANGED <<disk, catalog, crashes>>
  BY DEF WriteRoot, Running, PutHeader, counters
<1>2. PICK f, n : Building(f, n)
  BY <1>1 DEF OpenInv
<1>3. header = diskHeader
  BY <1>1 DEF OpenInv
<1>4. /\ diskHeader'.catalogRoot = op.pages[1] /\ diskHeader'.freeList = diskHeader.freeList
      /\ diskHeader'.pageCount = diskHeader.pageCount /\ Region' = Region
  BY <1>1, <1>3 DEF Types, HeaderType, Region
<1>5. op'.step = "idle"
  BY <1>1 DEF Idle
<1>6. PICK s, k : s = op.pages /\ k = Built
  OBVIOUS
<1>7. catalog \in Documents /\ k = Size[catalog] /\ op.written = k
  BY <1>1, <1>2, <1>6 DEF Progress, Building
<1>8. ChainOf(catalog, s, 1, k)
  BY <1>2, <1>6, <1>7 DEF Building, ChainOf
<1>9. Between(f, n, s, k, catalog)'
  <2>1. FreeStack(f, n)'
    BY <1>1, <1>2, <1>4, StackKept DEF Building
  <2>2. ChainOf(catalog, s, 1, k)'
    BY <1>1, <1>4, <1>8 DEF ChainOf, Part, OneToOne
  <2>3. Apart(s, 1, k, f, n) /\ Accounted(s, 1, k, f, n, {})
    BY <1>2, <1>6 DEF Building
  <2> QED
    BY <1>1, <1>4, <1>6, <2>1, <2>2, <2>3 DEF Between, Saved, Apart, Accounted, Holds
<1> QED
  BY <1>1, <1>4, <1>5, <1>9 DEF OpenInv

\* What a crash leaves opens with a catalog whose pages are apart from the free list, or not at all.
LEMMA CrashKeeps ==
  ASSUME NoLinkReadsAsCatalog, Types, Progress, OpenInv, Crash
  PROVE  FileOpensWith' = Refused \/ \E f, n, s, k, d : Between(f, n, s, k, d)'
<1>1. UNCHANGED <<disk, diskHeader>> /\ crashes' # 0
  BY DEF Crash, Types
<1>2. FileOpensWith' = FileOpensWith
  BY <1>1 DEF FileOpensWith, ReadCatalog, IsCatalog, TextAt, ChainPageAt
<1>3. ASSUME NEW f, NEW n, NEW s, NEW k, NEW d,
             FreeStack(f, n), Saved(d, s, k), Apart(s, 1, k, f, n)
      PROVE  Between(f, n, s, k, d)'
  <2>1. Region' = Region
    BY <1>1 DEF Region
  <2>2. FreeStack(f, n)'
    BY <1>1, <1>3, <2>1, StackKept
  <2>3. ChainOf(d, s, 1, k) => ChainOf(d, s, 1, k)'
    BY <1>1, <2>1, ChainKept
  <2> QED
    BY <1>1, <1>3, <2>2, <2>3 DEF Between, Saved, Apart, Accounted
<1>4. CASE op.step = "idle"
  <2>1. PICK f, n, s, k : Between(f, n, s, k, catalog)
    BY <1>4 DEF OpenInv
  <2>2. PICK d : d = catalog
    OBVIOUS
  <2>3. Between(f, n, s, k, d)'
    BY <2>1, <2>2, <1>3 DEF Between
  <2> QED
    BY <2>3
<1>5. CASE op.step = "free"
  <2>1. PICK f, n, s, m, k, d : Freeing(f, n, s, m, k, d)
    BY <1>5 DEF OpenInv
  <2>2. Between(f, n, s, k, d) => Between(f, n, s, k, d)'
    BY <1>3 DEF Between
  <2> QED
    BY <2>1, <2>2, <1>2, FreeingOpens
<1>6. CASE op.step = "link"
  BY <1>2, <1>6, LinkingOpens DEF OpenInv
<1>7. CASE op.step \in {"allocate", "count", "write", "root"}
  <2>1. PICK f, n : Building(f, n)
    BY <1>7 DEF OpenInv
  <2>2. CASE diskHeader.catalogRoot = 0
    <3>1. Between(f, n, <<>>, 0, Empty)'
      BY <1>3, <2>1, <2>2 DEF Building, Saved, Apart
    <3> QED
      BY <3>1
  <2>3. CASE diskHeader.catalogRoot = op.pages[1] /\ Built = Size[catalog] /\ op.written = Built
    <3>1. PICK s, k, d : s = op.pages /\ k = Built /\ d = catalog
      OBVIOUS
    <3>2. ChainOf(d, s, 1, k) /\ diskHeader.catalogRoot = s[1]
      BY <2>1, <2>3, <3>1 DEF Building, ChainOf
    <3>3. Between(f, n, s, k, d)'
      BY <1>3, <2>1, <3>1, <3>2 DEF Building, Saved
    <3> QED
      BY <3>3
  <2> QED
    BY <1>2, <1>7, <2>1, <2>2, <2>3, BuildingOpens
<1> QED
  BY <1>4, <1>5, <1>6, <1>7 DEF Types, OpType, Steps

\* A file that opens gives the session a catalog that is saved.
LEMMA OpenKeeps ==
  ASSUME Types, Progress, Open, FileOpensWith # Refused,
         NEW f, NEW n, NEW s, NEW k, NEW d, Between(f, n, s, k, d)
  PROVE  OpenInv'
<1>1. /\ header' = diskHeader /\ root' = diskHeader.catalogRoot /\ catalog' = FileOpensWith
      /\ UNCHANGED <<disk, diskHeader, op, crashes>>
  BY DEF Open, counters
<1>2. op.step = "idle"
  BY DEF Open, Progress
<1>3. FileOpensWith = d
  BY SavedOpens DEF Between
<1>4. Between(f, n, s, k, d)'
  <2>1. Region' = Region
    BY <1>1 DEF Region
  <2>2. FreeStack(f, n)'
    BY <1>1, <2>1, StackKept DEF Between
  <2>3. ChainOf(d, s, 1, k) => ChainOf(d, s, 1, k)'
    BY <1>1, <2>1, ChainKept
  <2> QED
    BY <1>1, <2>1, <2>2, <2>3 DEF Between, Saved, Apart, Accounted, Holds
<1>5. Between(f, n, s, k, catalog)'
  BY <1>1, <1>3, <1>4 DEF Between, Saved, ChainOf, Part
<1> QED
  BY <1>1, <1>2, <1>5 DEF OpenInv

\* A step that leaves the file and the operation alone.
LEMMA FileUntouched ==
  ASSUME FileInv, UNCHANGED <<disk, diskHeader, header, root, catalog, op, session, crashes, failures>>
  PROVE  FileInv'
<1>1. Region' = Region /\ Built' = Built /\ FileOpensWith' = FileOpensWith
  BY DEF Region, Built, FileOpensWith, ReadCatalog, IsCatalog, TextAt, ChainPageAt
<1>2. \A f, n : FreeStack(f, n) => FreeStack(f, n)'
  BY <1>1, StackKept
<1>3. \A d, s, m, k : ChainOf(d, s, m, k) => ChainOf(d, s, m, k)'
  BY <1>1, ChainKept
<1>4. \A f, n, s, k, d : Between(f, n, s, k, d) => Between(f, n, s, k, d)'
  BY <1>1, <1>2, <1>3 DEF Between, Saved, Apart, Accounted, Holds
<1>5. \A f, n, s, k : Between(f, n, s, k, catalog) => Between(f, n, s, k, catalog)'
  BY <1>1, <1>2, <1>3 DEF Between, Saved, Apart, Accounted, Holds
<1>6. \A f, n, s, m, k, d : Freeing(f, n, s, m, k, d) => Freeing(f, n, s, m, k, d)'
  BY <1>1, <1>2, <1>3 DEF Freeing, Apart, Accounted, Holds
<1>7. \A f, n, s, m, k, d : Linking(f, n, s, m, k, d) => Linking(f, n, s, m, k, d)'
  BY <1>1, <1>2, <1>3 DEF Linking, Apart, Accounted, Holds
<1>8. \A f, n : Building(f, n) => Building(f, n)'
  BY <1>1, <1>2 DEF Building, Apart, Accounted, Holds, Part, Erased, OneToOne
<1>9. OpenInv => OpenInv'
  BY <1>5, <1>6, <1>7, <1>8 DEF OpenInv, Erased
<1> QED
  BY <1>1, <1>4, <1>9 DEF FileInv

\* Every step keeps the file sound.
LEMMA StepKeepsFile ==
  ASSUME NoLinkReadsAsCatalog, IInv, [Next]_fileVars
  PROVE  FileInv'
<1> SUFFICES ASSUME failures' = 0
             PROVE  FileInv'
  BY DEF FileInv
<1> USE DEF IInv
<1>1. ASSUME failures = 0, session = "open", session' = "open", OpenInv => OpenInv'
      PROVE  FileInv'
  BY <1>1 DEF FileInv
<1>2. CASE \E d \in Documents : SaveCatalog(d)
  BY <1>1, <1>2, SaveKeeps DEF SaveCatalog, Running
<1>3. CASE FreeWrites
  BY <1>1, <1>3, FreeWritesKeeps DEF FreeWrites, Running, counters
<1>4. CASE FreeLinks
  BY <1>1, <1>4, FreeLinksKeeps DEF FreeLinks, Running, counters
<1>5. CASE AllocateFreed
  BY <1>1, <1>5, AllocateFreedKeeps DEF AllocateFreed, Running, counters
<1>6. CASE AllocateAppends
  BY <1>1, <1>6, AllocateAppendsKeeps DEF AllocateAppends, Running, counters
<1>7. CASE AllocateCounts
  BY <1>1, <1>7, AllocateCountsKeeps DEF AllocateCounts, Running, counters
<1>8. CASE WriteChainPage
  BY <1>1, <1>8, WriteChainPageKeeps DEF WriteChainPage, Running, counters
<1>9. CASE WriteRoot
  BY <1>1, <1>9, WriteRootKeeps DEF WriteRoot, Running, counters
<1>10. CASE WriteFails
  BY <1>10 DEF WriteFails, Types
<1>11. CASE Crash
  <2>1. failures = 0 /\ session = "open" /\ session' = "closed"
    BY <1>11 DEF Crash
  <2> QED
    BY <2>1, <1>11, CrashKeeps DEF FileInv
<1>12. CASE Open
  <2>1. failures = 0 /\ session = "closed" /\ session' = IF FileOpensWith = Refused THEN "refused" ELSE "open"
    BY <1>12 DEF Open, counters
  <2> QED
    BY <2>1, <1>12, OpenKeeps DEF FileInv
<1>13. CASE UNCHANGED fileVars
  BY <1>13, FileUntouched DEF fileVars, pagerVars, catalogVars, counters
<1> QED
  BY <1>2, <1>3, <1>4, <1>5, <1>6, <1>7, <1>8, <1>9, <1>10, <1>11, <1>12, <1>13 DEF Next

\* The invariant of the file is inductive.
THEOREM InvariantHolds ==
  ASSUME NoLinkReadsAsCatalog
  PROVE  Spec => []IInv
<1>1. Init => IInv
  BY InitCoherent, InitTyped, InitBetween DEF IInv
<1>2. IInv /\ [Next]_fileVars => IInv'
  BY StepCoherent, StepTyped, StepKeepsFile DEF IInv
<1> QED
  BY <1>1, <1>2, PTL DEF Spec

\* A catalog between two statements, and a free list beside it.
LEMMA BetweenIsSound ==
  ASSUME Types, NEW f, NEW n, NEW s, NEW k, NEW d, header = diskHeader, Between(f, n, s, k, d)
  PROVE  /\ FreeListEnds
         /\ FreePages \cap (1..GraphPages \cup ChainPages) = {}
         /\ 1..GraphPages \cap ChainPages = {}
         /\ crashes = 0 => FreePages \cup ChainPages \cup 1..GraphPages = 1..(header.pageCount - 1)
<1>1. n \in Nat /\ FreeStack(f, n)
  BY DEF Between, FreeStack
<1>2. FreePages = {f[i] : i \in 1..n}
  <2> DEFINE link == [p \in Pages |-> disk[p].start]
             up == [i \in 1..n |-> f[n + 1 - i]]
  <2>1. \A i \in 1..n : n + 1 - i \in 1..n /\ up[i] = f[n + 1 - i]
    BY <1>1
  <2>2. ASSUME NEW i \in 1..n
        PROVE  f[i] \in Pages /\ link[f[i]] = IF i = 1 THEN 0 ELSE f[i - 1]
    <3>1. f[i] \in Pages /\ disk[f[i]] = Linked(IF i = 1 THEN 0 ELSE f[i - 1])
      BY <1>1, RegionInFile DEF FreeStack
    <3>2. disk[f[i]].start = IF i = 1 THEN 0 ELSE f[i - 1]
      BY <3>1 DEF Linked
    <3> QED
      BY <3>1, <3>2
  <2>3. ASSUME NEW i \in 1..n
        PROVE  up[i] \in Pages /\ link[up[i]] = IF i < n THEN up[i + 1] ELSE 0
    <3>1. up[i] = f[n + 1 - i] /\ n + 1 - i \in 1..n
      BY <2>1
    <3>2. i < n => up[i + 1] = f[n + 1 - i - 1] /\ n + 1 - i # 1
      <4>1. i < n => i + 1 \in 1..n /\ n + 1 - (i + 1) = n + 1 - i - 1
        BY <1>1
      <4> QED
        BY <4>1, <2>1, <1>1
    <3>3. ~(i < n) => n + 1 - i = 1
      BY <1>1
    <3> HIDE DEF link, up
    <3> QED
      BY <1>1, <2>2, <3>1, <3>2, <3>3
  <2>4. header.freeList = IF n > 0 THEN up[1] ELSE 0
    BY <1>1 DEF FreeStack
  <2>5. FreePages = Follow(link, header.freeList)
    BY DEF FreePages
  <2>6. Follow(link, header.freeList) = PagesOf(up, n)
    <3> HIDE DEF link, up
    <3> QED
      BY <1>1, <2>3, <2>4, FollowReaches
  <2>7. PagesOf(up, n) = {f[i] : i \in 1..n}
    <3>1. \A i \in 1..n : n + 1 - i \in 1..n /\ n + 1 - (n + 1 - i) = i /\ up[n + 1 - i] = f[i]
      BY <1>1
    <3> HIDE DEF up
    <3> QED
      BY <3>1, <2>1 DEF PagesOf
  <2> QED
    BY <2>5, <2>6, <2>7
<1>3. k \in Nat /\ ChainPages = {s[i] : i \in 1..k}
  <2> DEFINE link == [p \in Pages |-> disk[p].next]
  <2>1. CASE k = 0 /\ diskHeader.catalogRoot = 0
    <3>1. \A i : i \notin 1..0
      OBVIOUS
    <3>2. Follow(link, 0) = PagesOf(s, 0)
      <4> HIDE DEF link
      <4> QED
        BY <3>1, FollowReaches
    <3> QED
      BY <2>1, <3>1, <3>2 DEF ChainPages, PagesOf
  <2>2. CASE ChainOf(d, s, 1, k) /\ diskHeader.catalogRoot = s[1]
    <3>1. k \in Nat \ {0}
      BY <2>2, RegionInFile DEF ChainOf
    <3>2. ASSUME NEW i \in 1..k
          PROVE  s[i] \in Pages /\ link[s[i]] = IF i < k THEN s[i + 1] ELSE 0
      <4>1. s[i] \in Pages /\ disk[s[i]] = Part(d, s, k, i)
        BY <2>2, RegionInFile DEF ChainOf
      <4>2. disk[s[i]].next = IF i < k THEN s[i + 1] ELSE 0
        BY <4>1 DEF Part
      <4> QED
        BY <4>1, <4>2
    <3>3. diskHeader.catalogRoot = IF k > 0 THEN s[1] ELSE 0
      BY <2>2, <3>1
    <3>4. Follow(link, diskHeader.catalogRoot) = PagesOf(s, k)
      <4> HIDE DEF link
      <4> QED
        BY <3>1, <3>2, <3>3, FollowReaches
    <3> QED
      BY <3>1, <3>4 DEF ChainPages, PagesOf
  <2> QED
    BY <2>1, <2>2 DEF Between, Saved
<1>4. FreePages \subseteq Region
  BY <1>1, <1>2 DEF FreeStack
<1>5. ChainPages \subseteq Region
  BY <1>3 DEF Between, Saved, ChainOf
<1>6. FreePages \cap ChainPages = {}
  BY <1>2, <1>3 DEF Between, Apart
<1>7. Region \cap 1..GraphPages = {} /\ Region \cup 1..GraphPages = 1..(header.pageCount - 1)
  BY RegionInFile DEF Region, Types, HeaderType
<1>8. crashes = 0 => Region \subseteq FreePages \cup ChainPages
  BY <1>2, <1>3 DEF Between, Accounted, Holds
<1>9. FreeListEnds
  <2>1. CASE n = 0
    BY <1>1, <2>1 DEF FreeListEnds, FreeStack
  <2>2. CASE n # 0
    <3>1. 1 \in 1..n /\ disk[f[1]] = Linked(0)
      BY <1>1, <2>2 DEF FreeStack
    <3>2. f[1] \in FreePages /\ disk[f[1]].start = 0
      BY <1>2, <3>1 DEF Linked
    <3> QED
      BY <3>2 DEF FreeListEnds
  <2> QED
    BY <2>1, <2>2
<1> QED
  BY <1>4, <1>5, <1>6, <1>7, <1>8, <1>9

\* While no link of the free list reads as the type of a catalog page, the free list ends and is apart from
\* the pages of the graph and of the catalog between any two statements that wrote all they had to.
THEOREM FreeListSound ==
  ASSUME NoLinkReadsAsCatalog
  PROVE  Spec => []FreeListIsSound
<1>1. IInv => FreeListIsSound
  <2> SUFFICES ASSUME IInv, Running("idle"), failures = 0
               PROVE  FreeListIsSound
    BY DEF FreeListIsSound
  <2>1. OpenInv /\ op.step = "idle"
    BY DEF IInv, FileInv, Running
  <2>2. PICK f, n, s, k : Between(f, n, s, k, catalog)
    BY <2>1 DEF OpenInv
  <2>3. header = diskHeader
    BY <2>1 DEF OpenInv
  <2> QED
    BY <2>2, <2>3, BetweenIsSound DEF FreeListIsSound, IInv
<1> QED
  BY <1>1, InvariantHolds, PTL

\* What the file opens with, in every state the invariant allows.
LEMMA FileShows ==
  ASSUME NoLinkReadsAsCatalog
  PROVE  IInv => /\ FileOpensWith \in Documents \cup {Empty, Refused}
                 /\ failures \in Nat /\ catalog \in Documents \cup {Empty, Refused}
                 /\ failures = 0 /\ session = "open" =>
                      /\ op.step = "idle" => FileOpensWith = catalog
                      /\ op.step = "link" => FileOpensWith = Refused
                      /\ op.step \in {"allocate", "count", "write", "root"} =>
                           \/ FileOpensWith \in {Refused, catalog}
                           \/ diskHeader.catalogRoot = 0 /\ FileOpensWith = Empty
<1> SUFFICES ASSUME IInv
             PROVE  failures = 0 /\ session = "open" =>
                      /\ op.step = "idle" => FileOpensWith = catalog
                      /\ op.step = "link" => FileOpensWith = Refused
                      /\ op.step \in {"allocate", "count", "write", "root"} =>
                           \/ FileOpensWith \in {Refused, catalog}
                           \/ diskHeader.catalogRoot = 0 /\ FileOpensWith = Empty
  BY FileOpensTyped DEF IInv, Types
<1> SUFFICES ASSUME OpenInv
             PROVE  /\ op.step = "idle" => FileOpensWith = catalog
                    /\ op.step = "link" => FileOpensWith = Refused
                    /\ op.step \in {"allocate", "count", "write", "root"} =>
                         \/ FileOpensWith \in {Refused, catalog}
                         \/ diskHeader.catalogRoot = 0 /\ FileOpensWith = Empty
  BY DEF IInv, FileInv
<1>1. op.step = "idle" => FileOpensWith = catalog
  BY SavedOpens DEF OpenInv, IInv, Between
<1>2. op.step = "link" => FileOpensWith = Refused
  BY LinkingOpens DEF OpenInv, IInv
<1>3. op.step \in {"allocate", "count", "write", "root"} =>
        \/ FileOpensWith \in {Refused, catalog}
        \/ diskHeader.catalogRoot = 0 /\ FileOpensWith = Empty
  BY BuildingOpens DEF OpenInv, IInv
<1> QED
  BY <1>1, <1>2, <1>3

\* A file whose pages and root stay shows what it did.
LEMMA SameFileShows ==
  ASSUME UNCHANGED disk, diskHeader'.catalogRoot = diskHeader.catalogRoot
  PROVE  FileOpensWith' = FileOpensWith
BY DEF FileOpensWith, ReadCatalog, IsCatalog, TextAt, ChainPageAt

\* Every step of the pages is a step of the cell.
LEMMA StepRefines ==
  ASSUME NoLinkReadsAsCatalog, IInv, IInv', [Next]_fileVars
  PROVE  [Cell!CellNext]_(Cell!cellVars)
<1> DEFINE file == FileOpensWith
<1>a. /\ file \in Documents \cup {Empty, Refused} /\ file' \in Documents \cup {Empty, Refused}
      /\ failures \in Nat
      /\ failures' = 0 /\ session' = "open" =>
           /\ op'.step = "idle" => file' = catalog'
           /\ op'.step = "link" => file' = Refused
           /\ op'.step \in {"allocate", "count", "write", "root"} =>
                file' \in {Refused, catalog'} \/ (diskHeader'.catalogRoot = 0 /\ file' = Empty)
      /\ diskHeader.catalogRoot = 0 => file = Empty
  <2>1. (IInv => /\ FileOpensWith \in Documents \cup {Empty, Refused}
                 /\ failures \in Nat /\ catalog \in Documents \cup {Empty, Refused}
                 /\ failures = 0 /\ session = "open" =>
                      /\ op.step = "idle" => FileOpensWith = catalog
                      /\ op.step = "link" => FileOpensWith = Refused
                      /\ op.step \in {"allocate", "count", "write", "root"} =>
                           \/ FileOpensWith \in {Refused, catalog}
                           \/ diskHeader.catalogRoot = 0 /\ FileOpensWith = Empty)'
    BY FileShows, PTL
  <2> QED
    BY <2>1, FileShows, RootEmpty
<1> HIDE DEF file
<1>b. ASSUME session = "open", op.step # "idle", op'.step # "idle",
             UNCHANGED <<catalog, session, counters>>,
             file' = file \/ failures # 0 \/ file' \in {Refused, catalog}
      PROVE  [Cell!CellNext]_(Cell!cellVars)
  <2>1. CASE file' = file /\ failures = 0
    BY <1>b, <2>1 DEF Cell!cellVars, file, counters
  <2>2. CASE failures # 0
    BY <1>a, <1>b, <2>2 DEF Cell!CellNext, Cell!Rewrite, file, counters
  <2>3. CASE failures = 0 /\ file' \in {Refused, catalog}
    BY <1>b, <2>3 DEF Cell!CellNext, Cell!Rewrite, file, counters
  <2> QED
    BY <1>b, <2>1, <2>2, <2>3
<1>c. /\ \A p : FreeFrom(p).step # "idle"
      /\ \A p \in Pages : op \in OpType => Allocated(p).step # "idle"
  <2>1. ASSUME NEW p
        PROVE  FreeFrom(p).step # "idle"
    BY DEF FreeFrom, Idle
  <2>2. ASSUME NEW p, op \in OpType
        PROVE  Allocated(p).step # "idle"
    <3>1. PICK q : q = Append(op.pages, p)
      OBVIOUS
    <3>2. Allocated(p) = [op EXCEPT !.pages = q, !.step = IF Len(q) = Size[catalog] THEN "write" ELSE "allocate"]
      BY <3>1 DEF Allocated
    <3> QED
      BY <2>2, <3>2 DEF OpType
  <2> QED
    BY <2>1, <2>2
<1>o. op \in OpType
  BY DEF IInv, Types
<1>1. CASE \E d \in Documents : SaveCatalog(d)
  <2>1. PICK d \in Documents : SaveCatalog(d)
    BY <1>1
  <2>2. file' = file
    BY <2>1, SameFileShows DEF SaveCatalog, pagerVars, file
  <2>3. Cell!SaveCatalog(d)
    BY <2>1, <2>2, <1>c DEF SaveCatalog, Running, Cell!SaveCatalog, file
  <2> QED
    BY <2>3 DEF Cell!CellNext
<1>2. CASE FreeWrites
  <2>1. op.step = "free" /\ op'.step = "link" /\ session = "open" /\ UNCHANGED <<catalog, session, counters>>
    BY <1>2, <1>o DEF FreeWrites, Running, OpType
  <2> QED
    BY <2>1, <1>a, <1>b DEF counters
<1>3. CASE FreeLinks
  <2>1. /\ op.step = "link" /\ op'.step # "idle" /\ session = "open"
        /\ UNCHANGED <<disk, catalog, session, counters>>
        /\ header' = [header EXCEPT !.freeList = op.at] /\ diskHeader' = header'
    BY <1>3, <1>c DEF FreeLinks, Running, PutHeader
  <2>2. CASE failures = 0
    <3>1. header = diskHeader
      BY <2>1, <2>2 DEF IInv, FileInv, OpenInv
    <3>2. diskHeader'.catalogRoot = diskHeader.catalogRoot
      BY <2>1, <3>1 DEF IInv, Types, HeaderType
    <3> QED
      BY <2>1, <3>2, <1>b, SameFileShows DEF file
  <2>3. CASE failures # 0
    BY <2>1, <2>3, <1>b
  <2> QED
    BY <2>2, <2>3
<1>4. CASE AllocateFreed
  <2>1. /\ op.step = "allocate" /\ session = "open"
        /\ UNCHANGED <<disk, catalog, session, counters>>
        /\ header' = [header EXCEPT !.freeList = PageRead(header.freeList).start] /\ diskHeader' = header'
        /\ op' = Allocated(header.freeList) /\ header.freeList \in Pages
    <3>1. header.freeList \in Pages
      BY <1>4, FreeHeadIsPage DEF IInv, AllocateFreed
    <3> QED
      BY <1>4, <3>1 DEF AllocateFreed, Running, PutHeader
  <2>2. op'.step # "idle"
    BY <2>1, <1>c, <1>o
  <2>3. CASE failures = 0
    <3>1. header = diskHeader
      BY <2>1, <2>3 DEF IInv, FileInv, OpenInv
    <3>2. diskHeader'.catalogRoot = diskHeader.catalogRoot
      BY <2>1, <3>1 DEF IInv, Types, HeaderType
    <3> QED
      BY <2>1, <2>2, <3>2, <1>b, SameFileShows DEF file
  <2>4. CASE failures # 0
    BY <2>1, <2>2, <2>4, <1>b
  <2> QED
    BY <2>3, <2>4
<1>5. CASE AllocateAppends
  <2>1. /\ op.step = "allocate" /\ op'.step = "count" /\ session = "open"
        /\ UNCHANGED <<diskHeader, catalog, session, counters>>
    BY <1>5, <1>o DEF AllocateAppends, Running, Step, OpType
  <2>2. failures = 0 => file' = file \/ file' \in {Refused, catalog}
    BY <2>1, <1>a DEF counters
  <2> QED
    BY <2>1, <2>2, <1>b
<1>6. CASE AllocateCounts
  <2>1. /\ op.step = "count" /\ session = "open"
        /\ UNCHANGED <<disk, catalog, session, counters>>
        /\ diskHeader' = header /\ op' = Allocated(header.pageCount - 1)
    BY <1>6 DEF AllocateCounts, Running, PutHeader
  <2>2. op'.step # "idle"
    <3>1. header.pageCount - 1 \in Pages
      <4>1. header \in HeaderType /\ op \in OpType
        BY DEF IInv, Types
      <4>2. header.pageCount \in GraphPages + 1 .. LastPage + 1 /\ header.pageCount > 1
        BY <2>1, <4>1 DEF IInv, Progress, HeaderType
      <4> QED
        BY <4>2, PagerAssumption, CatalogAssumption DEF Pages
    <3> QED
      BY <2>1, <3>1, <1>c, <1>o
  <2>3. CASE failures = 0
    <3>1. header = [diskHeader EXCEPT !.pageCount = @ + 1]
      BY <2>1, <2>3 DEF IInv, FileInv, OpenInv
    <3>2. diskHeader'.catalogRoot = diskHeader.catalogRoot
      BY <2>1, <3>1 DEF IInv, Types, HeaderType
    <3> QED
      BY <2>1, <2>2, <3>2, <1>b, SameFileShows DEF file
  <2>4. CASE failures # 0
    BY <2>1, <2>2, <2>4, <1>b
  <2> QED
    BY <2>3, <2>4
<1>7. CASE WriteChainPage
  <2>1. /\ op.step = "write" /\ op'.step \in {"root", "write"} /\ session = "open"
        /\ UNCHANGED <<diskHeader, catalog, session, counters>>
    BY <1>7, <1>o DEF WriteChainPage, Running, OpType
  <2>2. failures = 0 => file' = file \/ file' \in {Refused, catalog}
    BY <2>1, <1>a DEF counters
  <2> QED
    BY <2>1, <2>2, <1>b
<1>8. CASE WriteRoot
  <2>1. /\ op.step = "root" /\ op'.step = "idle" /\ session = "open"
        /\ UNCHANGED <<catalog, session, counters>>
    BY <1>8 DEF WriteRoot, Running, Idle
  <2>2. failures = 0 => file' = catalog
    BY <2>1, <1>a DEF counters
  <2>3. Cell!Saved
    BY <2>1, <2>2, <1>a DEF Cell!Saved, file, counters
  <2> QED
    BY <2>3 DEF Cell!CellNext
<1>9. CASE WriteFails
  <2>1. /\ op.step # "idle" /\ op'.step = "idle" /\ session = "open" /\ failures' = failures + 1
        /\ UNCHANGED <<disk, diskHeader, catalog, session, saves, crashes>>
    BY <1>9 DEF WriteFails, HeaderLost, Idle
  <2>2. file' = file
    BY <2>1, SameFileShows DEF file
  <2>3. Cell!SaveFails
    BY <2>1, <2>2, <1>a DEF Cell!SaveFails, file
  <2> QED
    BY <2>3 DEF Cell!CellNext
<1>10. CASE Crash
  <2>1. op'.step = "idle" /\ UNCHANGED <<disk, diskHeader>>
    BY <1>10 DEF Crash, Idle
  <2>2. file' = file
    BY <2>1, SameFileShows DEF file
  <2>3. Cell!Crash
    BY <1>10, <2>1, <2>2 DEF Crash, Cell!Crash, file
  <2> QED
    BY <2>3 DEF Cell!CellNext
<1>11. CASE Open
  <2>1. file' = file
    BY <1>11, SameFileShows DEF Open, file
  <2>2. Cell!Open
    BY <1>11, <2>1 DEF Open, Cell!Open, file, counters
  <2> QED
    BY <2>2 DEF Cell!CellNext
<1>12. CASE UNCHANGED fileVars
  <2>1. file' = file
    BY <1>12, SameFileShows DEF fileVars, pagerVars, file
  <2> QED
    BY <1>12, <2>1 DEF fileVars, catalogVars, counters, Cell!cellVars, file
<1> QED
  BY <1>1, <1>2, <1>3, <1>4, <1>5, <1>6, <1>7, <1>8, <1>9, <1>10, <1>11, <1>12 DEF Next

\* Under the same condition the file, seen through what it opens with, is a cell that goes from one
\* catalog to the next through a file that refuses to open, whatever crashes and whatever writes fail.
THEOREM FileImplementsCell ==
  ASSUME NoLinkReadsAsCatalog
  PROVE  Spec => ImplementsCatalogCell
<1>1. Init => Cell!CellInit
  <2> SUFFICES ASSUME Init PROVE Cell!CellInit
    OBVIOUS
  <2>1. IInv
    BY InitCoherent, InitTyped, InitBetween DEF IInv
  <2>2. op.step = "idle" /\ failures = 0 /\ session = "open"
    BY DEF Init, Idle
  <2>3. FileOpensWith = catalog
    BY <2>1, <2>2, FileShows
  <2> QED
    BY <2>2, <2>3 DEF Init, Cell!CellInit
<1>2. IInv /\ IInv' /\ [Next]_fileVars => [Cell!CellNext]_(Cell!cellVars)
  BY StepRefines
<1> QED
  BY <1>1, <1>2, InvariantHolds, PTL DEF Spec, ImplementsCatalogCell, Cell!CellSpec
==============================================================================
