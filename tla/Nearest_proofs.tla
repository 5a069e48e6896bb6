--------------------------- MODULE Nearest_proofs ---------------------------
(***************************************************************************)
(* The search of NEAREST: its threshold, its types and its answer, for     *)
(* every query, corpus, metric, arm and budget.                            *)
(*                                                                         *)
(* ThresholdIsSound is not inductive: that a refused entry is no nearer    *)
(* than the held ones needs distances that can be compared, which come     *)
(* from the rankings through the walk, and that an entry pushed is not     *)
(* held already, which its number tells.                                   *)
(*                                                                         *)
(* AnswerIsNearest speaks of the end only.  NearestInv says of each arm    *)
(* what is known before: that every row a walk has left behind was offered *)
(* or is beaten by k that are nearer, and that every slot left behind has  *)
(* its answer.                                                             *)
(***************************************************************************)
EXTENDS Nearest, FiniteSetTheorems, FunctionTheorems, TLAPS

(* What the walk carries to the heap has a distance.                        *)
WalkCarriesDistances ==
  /\ AreRankings(ranking) /\ AreRankings(stream) /\ DOMAIN ranking = DOMAIN stream
  /\ \A e \in left : e.dist \in Int
  /\ here.dist \in Int
  /\ \A r \in results : r.dist \in Int
  /\ pc = "offer" => \A o \in work : o.dist \in Int
(* The heap holds at most k of the entries offered to it, numbered as they  *)
(* came.                                                                    *)
HeapIsCounted ==
  /\ seq \in Nat
  /\ IsFiniteSet(held)
  /\ \A e \in offered : e.dist \in Int /\ e.seq \in 1..seq
  /\ \A e, f \in offered : e.seq = f.seq => e = f
HeapInv == job.k \in Nat \ {0} /\ HeapIsCounted /\ ThresholdIsSound
Inv == WalkCarriesDistances /\ HeapInv

(***************************************************************************)
(* The heap.                                                               *)
(***************************************************************************)
(* An entry with a new number enters a heap, and it stays sound.            *)
LEMMA EnteredIsSound ==
  ASSUME NEW k \in Nat \ {0}, NEW old, NEW all, NEW after, NEW e, NEW n \in Nat,
         IsFiniteSet(old), old \subseteq all, Cardinality(old) <= k,
         \A f \in all : f.dist \in Int /\ f.seq \in Int /\ f.seq <= n,
         \A f \in all \ old : Cardinality(old) = k /\ \A g \in old : g.dist <= f.dist,
         e.dist \in Int, e.seq = n + 1,
         Entered(e, old, k, after)
  PROVE  /\ IsFiniteSet(after) /\ after \subseteq all \cup {e} /\ Cardinality(after) <= k
         /\ \A f \in (all \cup {e}) \ after : Cardinality(after) = k /\ \A g \in after : g.dist <= f.dist
<1>1. Cardinality(old) \in Nat
  BY FS_CardinalityType
<1>2. e \notin old
  OBVIOUS
<1>3. IsFiniteSet(old \cup {e}) /\ Cardinality(old \cup {e}) = Cardinality(old) + 1
  BY <1>2, FS_AddElement
<1>4. CASE ~IsFull(old, k) /\ after = old \cup {e}
  <2>1. Cardinality(old) < k
    BY <1>1, <1>4 DEF IsFull
  <2>2. (all \cup {e}) \ after = {}
    BY <1>4, <2>1, <1>1
  <2> QED
    BY <1>1, <1>3, <1>4, <2>1, <2>2
<1>5. CASE ~(~IsFull(old, k) /\ after = old \cup {e})
  <2>1. IsFull(old, k) /\ \E worst \in old :
          /\ IsWorst(worst, old)
          /\ after = IF e.dist < worst.dist THEN (old \ {worst}) \cup {e} ELSE old
    BY <1>5 DEF Entered
  <2>2. Cardinality(old) = k
    BY <2>1, <1>1 DEF IsFull
  <2>3. PICK worst \in old :
          /\ IsWorst(worst, old)
          /\ after = IF e.dist < worst.dist THEN (old \ {worst}) \cup {e} ELSE old
    BY <2>1
  <2>4. worst.dist \in Int /\ \A g \in old : g.dist \in Int /\ g.dist <= worst.dist
    BY <2>3 DEF IsWorst, Farther
  <2>5. CASE e.dist < worst.dist
    <3>1. after = (old \ {worst}) \cup {e}
      BY <2>3, <2>5
    <3>2. IsFiniteSet(old \ {worst}) /\ Cardinality(old \ {worst}) = k - 1
      BY <2>2, FS_RemoveElement
    <3> DEFINE rest == old \ {worst}
    <3>a. e \notin rest /\ IsFiniteSet(rest) /\ Cardinality(rest) = k - 1
      BY <1>2, <3>2
    <3> HIDE DEF rest
    <3>b. IsFiniteSet(rest \cup {e}) /\ Cardinality(rest \cup {e}) = Cardinality(rest) + 1
      BY <3>a, FS_AddElement
    <3>c. after = rest \cup {e}
      BY <3>1 DEF rest
    <3>3. IsFiniteSet(after) /\ Cardinality(after) = k
      BY <3>a, <3>b, <3>c
    <3>4. ASSUME NEW f \in (all \cup {e}) \ after, NEW g \in after
          PROVE  g.dist <= f.dist
      <4>1. f \in all /\ (f \notin old \/ f = worst)
        BY <3>1
      <4>2. f.dist \in Int /\ worst.dist <= f.dist
        BY <4>1, <2>4
      <4>3. g.dist \in Int /\ g.dist <= worst.dist
        BY <3>1, <2>4, <2>5
      <4> QED
        BY <4>2, <4>3, <2>4
    <3>5. after \subseteq all \cup {e}
      BY <3>1
    <3>6. Cardinality(after) <= k
      BY <3>3
    <3>7. \A f \in (all \cup {e}) \ after : Cardinality(after) = k /\ \A g \in after : g.dist <= f.dist
      BY <3>3, <3>4
    <3> QED
      BY <3>3, <3>5, <3>6, <3>7
  <2>6. CASE ~(e.dist < worst.dist)
    <3>1. after = old
      BY <2>3, <2>6
    <3>2. \A g \in old : g.dist <= e.dist
      BY <2>4, <2>6
    <3> QED
      BY <3>1, <3>2, <2>2
  <2> QED
    BY <2>5, <2>6
<1> QED
  BY <1>4, <1>5

(* A push keeps the heap sound, whatever its rows.                          *)
LEMMA PushedKeepsHeap ==
  ASSUME HeapInv, NEW dist \in Int, NEW id, NEW rows, Pushed(dist, id, rows), job' = job
  PROVE  HeapInv'
<1> DEFINE e == Entry(dist, seq + 1, id, rows)
<1>1. e.dist = dist /\ e.seq = seq + 1
  BY DEF Entry
<1>2. Entered(e, held, job.k, held') /\ offered' = offered \cup {e} /\ seq' = seq + 1
  BY DEF Pushed
<1> HIDE DEF e
<1>3. /\ IsFiniteSet(held') /\ held' \subseteq offered' /\ Cardinality(held') <= job.k
      /\ \A f \in offered' \ held' : Cardinality(held') = job.k /\ \A g \in held' : g.dist <= f.dist
  <2>1. job.k \in Nat \ {0} /\ seq \in Nat /\ IsFiniteSet(held) /\ held \subseteq offered
        /\ Cardinality(held) <= job.k
        /\ (\A f \in offered : f.dist \in Int /\ f.seq \in Int /\ f.seq <= seq)
        /\ (\A f \in offered \ held : Cardinality(held) = job.k /\ \A g \in held : g.dist <= f.dist)
    BY DEF HeapInv, HeapIsCounted, ThresholdIsSound
  <2>2. /\ IsFiniteSet(held') /\ held' \subseteq offered \cup {e} /\ Cardinality(held') <= job.k
        /\ \A f \in (offered \cup {e}) \ held' : Cardinality(held') = job.k /\ \A g \in held' : g.dist <= f.dist
    BY <1>1, <1>2, <2>1, EnteredIsSound
  <2> QED
    BY <2>2, <1>2
<1>4. HeapIsCounted'
  <2>1. seq \in Nat /\ (\A f \in offered : f.dist \in Int /\ f.seq \in 1..seq)
        /\ (\A f, g \in offered : f.seq = g.seq => f = g)
    BY DEF HeapInv, HeapIsCounted
  <2>2. \A f \in offered' : f.dist \in Int /\ f.seq \in 1..seq'
    BY <1>1, <1>2, <2>1
  <2>3. \A f, g \in offered' : f.seq = g.seq => f = g
    BY <1>1, <1>2, <2>1
  <2> QED
    BY <1>2, <1>3, <2>1, <2>2, <2>3 DEF HeapIsCounted
<1> QED
  BY <1>3, <1>4 DEF HeapInv, ThresholdIsSound

(* A heap emptied is sound, and so is one left alone.                       *)
LEMMA EmptiedIsSound ==
  ASSUME HeapInv, Emptied, job' = job
  PROVE  HeapInv'
<1>1. IsFiniteSet(held') /\ Cardinality(held') = 0
  BY FS_EmptySet DEF Emptied
<1> QED
  BY <1>1 DEF HeapInv, HeapIsCounted, ThresholdIsSound, Emptied

\* A heap that is left alone stays sound.
LEMMA UntouchedIsSound ==
  ASSUME HeapInv, UNCHANGED heap, job' = job
  PROVE  HeapInv'
BY DEF HeapInv, HeapIsCounted, ThresholdIsSound, heap

(***************************************************************************)
(* The walk.                                                               *)
(***************************************************************************)
LEMMA ElementOfList ==
  ASSUME NEW S, NEW list \in Seq(S), NEW i \in DOMAIN list
  PROVE  list[i] \in S
OBVIOUS
(* The neighbours of a ranking have distances.                              *)
LEMMA ListHasDistances ==
  ASSUME NEW list \in Seq([id : Int, dist : Int])
  PROVE  \A e \in Ranked(list) : e.dist \in Int
<1>1. ASSUME NEW i \in DOMAIN list
      PROVE  list[i].dist \in Int
  <2>1. list[i] \in [id : Int, dist : Int]
    BY ElementOfList
  <2> QED
    BY <2>1
<1>2. \A e \in Ranked(list) : \E i \in DOMAIN list : e.dist = list[i].dist
  BY DEF Ranked
<1> QED
  BY <1>1, <1>2

\* The distances of a ranking are integers.
LEMMA RankedHasDistances ==
  ASSUME NEW lists, AreRankings(lists), NEW q \in DOMAIN lists
  PROVE  \A e \in Ranked(lists[q]) : e.dist \in Int
BY ListHasDistances DEF AreRankings

(* So has what a walk is opened on.                                         *)
LEMMA RankingHasDistances ==
  ASSUME WalkCarriesDistances, NEW q, NEW opened, NEW ids
  PROVE  \A e \in RankingOf(q, opened, ids) : e.dist \in Int
<1>1. \A e \in RankCandidates(q, ids) : e.dist \in Int
  BY RankedHasDistances DEF RankCandidates, HasVector, WalkCarriesDistances
<1>2. \A e \in StreamOf(opened) : e.dist \in Int
  BY RankedHasDistances DEF StreamOf, HasVector, WalkCarriesDistances
<1> QED
  BY <1>1, <1>2 DEF RankingOf

(* And what is offered for the rows of a binding.                           *)
LEMMA OffersHaveDistances ==
  ASSUME NEW dist \in Int, NEW id, NEW rows
  PROVE  \A o \in OffersFor(dist, id, rows) : o.dist \in Int
BY DEF OffersFor, Offer

\* So are those of the offers of a query.
LEMMA GroupHasDistances ==
  ASSUME WalkCarriesDistances, NEW q
  PROVE  \A o \in Group(q) : o.dist \in Int
<1>1. \A r \in ResultsOf(q) : r.dist \in Int
  BY DEF ResultsOf, WalkCarriesDistances
<1>2. ASSUME NEW o \in Group(q)
      PROVE  \E r \in ResultsOf(q) : \E rows : o \in OffersFor(r.dist, r.row.id, rows)
  BY <1>2 DEF Group
<1>3. ASSUME NEW r \in ResultsOf(q), NEW rows, NEW o \in OffersFor(r.dist, r.row.id, rows)
      PROVE  o.dist \in Int
  BY <1>1, <1>3, OffersHaveDistances
<1> QED
  BY <1>2, <1>3

(* Within an action that leaves the rankings, a walk is sound when what it  *)
(* changes is.                                                              *)
LEMMA WalkUntouched ==
  ASSUME WalkCarriesDistances, UNCHANGED setting,
         left' \subseteq left, here' = here \/ here' \in left, results' = results,
         pc' = "offer" => (pc = "offer" /\ work' \subseteq work)
  PROVE  WalkCarriesDistances'
BY DEF WalkCarriesDistances, setting

(* Inv when the heap is left alone, emptied or pushed to.                   *)
LEMMA SelectionKeeps ==
  ASSUME Inv, UNCHANGED setting, StartSelect
  PROVE  Inv'
<1>1. WalkCarriesDistances'
  BY WalkUntouched DEF Inv, StartSelect
<1>2. HeapInv'
  BY UntouchedIsSound DEF Inv, StartSelect, setting
<1> QED
  BY <1>1, <1>2 DEF Inv

\* Emptying the heap into the answer keeps the invariant.
LEMMA DrainKeeps ==
  ASSUME Inv, UNCHANGED setting, NEW next \in {"open", "done", "pick"}, Drain(next)
  PROVE  Inv'
<1>1. WalkCarriesDistances'
  BY WalkUntouched DEF Inv, Drain
<1>2. HeapInv'
  BY UntouchedIsSound DEF Inv, Drain, setting
<1> QED
  BY <1>1, <1>2 DEF Inv

\* A turn that offers nothing keeps the invariant.
LEMMA TurnKeeps ==
  ASSUME Inv, UNCHANGED setting, UNCHANGED heap,
         left' \subseteq left, here' = here \/ here' \in left, results' = results,
         pc' = "offer" => (pc = "offer" /\ work' \subseteq work)
  PROVE  Inv'
<1>1. WalkCarriesDistances'
  BY WalkUntouched DEF Inv
<1>2. HeapInv'
  BY UntouchedIsSound DEF Inv, setting
<1> QED
  BY <1>1, <1>2 DEF Inv

(* Pointing the context at an anchor leaves the heap, or empties it.        *)
LEMMA RetargetIsSound ==
  ASSUME HeapInv, UNCHANGED setting, NEW q, Retarget(q)
  PROVE  HeapInv'
BY EmptiedIsSound, UntouchedIsSound DEF Retarget, setting, heap

(***************************************************************************)
(* The specification.                                                      *)
(***************************************************************************)
LEMMA InitIsSound == Init => Inv
<1> SUFFICES ASSUME Init PROVE Inv
  OBVIOUS
<1>1. WalkCarriesDistances
  BY NearestAssumption DEF Init, WalkCarriesDistances, Entrance, Nowhere
<1>k. job.k \in Nat \ {0}
  BY NearestAssumption DEF Init, IsJob
<1>2. IsFiniteSet(held) /\ Cardinality(held) = 0
  BY FS_EmptySet DEF Init
<1>3. HeapInv
  BY <1>2, <1>k DEF Init, HeapInv, HeapIsCounted, ThresholdIsSound
<1> QED
  BY <1>1, <1>3 DEF Inv

\* Every turn keeps the invariant.
LEMMA StepIsSound == Inv /\ Step => Inv'
<1> SUFFICES ASSUME Inv, Step PROVE Inv'
  OBVIOUS
<1> USE DEF Inv
<1>s. UNCHANGED setting /\ job' = job
  BY DEF Step, setting
<1>1. CASE RunPattern
  BY <1>1, <1>s, TurnKeeps DEF RunPattern
<1>2. CASE OpenPartition
  <2>1. CASE UNCHANGED <<walk, heap>> /\ pc' = "done"
    BY <2>1, <1>s, TurnKeeps DEF walk
  <2>2. CASE OpenBuckets(Slot)
    <3>1. WalkCarriesDistances'
      BY <2>2, <1>s, RankingHasDistances DEF OpenBuckets, WalkCarriesDistances, setting
    <3> QED
      BY <2>2, <3>1, <1>s, EmptiedIsSound DEF OpenBuckets
  <2>3. CASE UNCHANGED <<pc, slots, table, cur, base, left, here, work, results, answer, heap>>
    BY <2>3, <1>s, TurnKeeps
  <2> QED
    BY <1>2, <2>1, <2>2, <2>3 DEF OpenPartition
<1>3. CASE PopBucket
  <2>1. CASE Drain("open")
    BY <2>1, <1>s, DrainKeeps
  <2>2. ASSUME NEW e \in left, left' = left \ {e}, here' = e, UNCHANGED <<results, heap>>,
               (pc' = "offer" /\ \E rows : work' = OffersFor(e.dist, e.id, rows)) \/ pc' = pc
        PROVE  Inv'
    <3>1. e.dist \in Int
      BY DEF WalkCarriesDistances
    <3>2. pc' = "offer" => \A o \in work' : o.dist \in Int
      BY <2>2, <3>1, <1>3, OffersHaveDistances DEF PopBucket
    <3>3. WalkCarriesDistances'
      BY <2>2, <3>1, <3>2, <1>s DEF WalkCarriesDistances, setting
    <3> QED
      BY <2>2, <3>3, <1>s, UntouchedIsSound
  <2> QED
    BY <1>3, <2>1, <2>2 DEF PopBucket
<1>4. CASE RestBucket
  <2>1. CASE Drain("open")
    BY <2>1, <1>s, DrainKeeps
  <2>2. CASE pc' = "walk" /\ UNCHANGED <<walk, heap>>
    BY <2>2, <1>s, TurnKeeps DEF walk
  <2> QED
    BY <1>4, <2>1, <2>2 DEF RestBucket
<1>5. CASE OpenCorpus
  <2>1. \A e \in StreamOf(Fixed) : e.dist \in Int
    BY RankedHasDistances DEF StreamOf, HasVector, WalkCarriesDistances
  <2>2. WalkCarriesDistances'
    BY <1>5, <2>1, <1>s DEF OpenCorpus, WalkCarriesDistances, setting
  <2> QED
    BY <1>5, <2>2, <1>s, UntouchedIsSound DEF OpenCorpus
<1>6. CASE PopCorpus
  <2>1. CASE Drain("done")
    BY <2>1, <1>s, DrainKeeps
  <2>2. ASSUME NEW e \in left, left' = left \ {e}, here' = e, UNCHANGED <<results, heap>>,
               (pc' = "offer" /\ \E rows : work' = OffersFor(e.dist, e.id, rows)) \/ pc' = pc
        PROVE  Inv'
    <3>1. e.dist \in Int
      BY DEF WalkCarriesDistances
    <3>2. pc' = "offer" => \A o \in work' : o.dist \in Int
      BY <2>2, <3>1, <1>6, OffersHaveDistances DEF PopCorpus
    <3>3. WalkCarriesDistances'
      BY <2>2, <3>1, <3>2, <1>s DEF WalkCarriesDistances, setting
    <3> QED
      BY <2>2, <3>3, <1>s, UntouchedIsSound
  <2> QED
    BY <1>6, <2>1, <2>2 DEF PopCorpus
<1>7. CASE RestCorpus
  BY <1>7, <1>s, TurnKeeps DEF RestCorpus, walk
<1>8. CASE EnterVisit
  <2>1. CASE StartSelect
    BY <2>1, <1>s, SelectionKeeps
  <2>2. CASE ~StartSelect
    <3>1. /\ Retarget(AnchorAt(turn))
          /\ left' = RankingOf(AnchorAt(turn), base', Candidates(turn)) \/ left' = left
          /\ pc' \in {"walk", "visit"}
          /\ UNCHANGED <<here, results>>
      BY <1>8, <2>2 DEF EnterVisit, NextVisit
    <3>2. \A e \in left' : e.dist \in Int
      BY <3>1, RankingHasDistances DEF WalkCarriesDistances
    <3>3. WalkCarriesDistances'
      BY <3>1, <3>2, <1>s DEF WalkCarriesDistances, setting
    <3> QED
      BY <3>1, <3>3, <1>s, RetargetIsSound
  <2> QED
    BY <2>1, <2>2
<1>9. CASE PopVisit
  <2>1. CASE StartSelect
    BY <2>1, <1>s, SelectionKeeps
  <2>2. CASE ~StartSelect
    <3>1. /\ left' \subseteq left /\ (here' = here \/ here' \in left)
          /\ pc' # "offer" /\ UNCHANGED <<results, heap>>
      BY <1>9, <2>2 DEF PopVisit, NextVisit, PassBy
    <3> QED
      BY <3>1, <1>s, TurnKeeps
  <2> QED
    BY <2>1, <2>2
<1>10. CASE RestVisit
  BY <1>10, <1>s, TurnKeeps DEF RestVisit, walk
<1>11. CASE FileVisit
  <2>1. pc' # "offer" /\ UNCHANGED <<left, here, results, heap>>
    BY <1>11 DEF FileVisit
  <2> QED
    BY <2>1, <1>s, TurnKeeps
<1>12. CASE OpenTable
  <2>1. CASE StartSelect
    BY <2>1, <1>s, SelectionKeeps
  <2>2. CASE ~StartSelect
    <3>1. /\ Retarget(Slot)
          /\ left' = RankingOf(Slot, base', DOMAIN table[Slot]) \/ left' = left
          /\ pc' \in {"walk", "open"}
          /\ UNCHANGED <<here, results>>
      BY <1>12, <2>2 DEF OpenTable
    <3>2. \A e \in left' : e.dist \in Int
      BY <3>1, RankingHasDistances DEF WalkCarriesDistances
    <3>3. WalkCarriesDistances'
      BY <3>1, <3>2, <1>s DEF WalkCarriesDistances, setting
    <3> QED
      BY <3>1, <3>3, <1>s, RetargetIsSound
  <2> QED
    BY <2>1, <2>2
<1>13. CASE PopTable
  <2>1. /\ left' \subseteq left /\ (here' = here \/ here' \in left)
        /\ pc' # "offer" /\ UNCHANGED <<results, heap>>
    BY <1>13 DEF PopTable, CloseTable, PassBy
  <2> QED
    BY <2>1, <1>s, TurnKeeps
<1>14. CASE RestTable
  <2>1. pc' # "offer" /\ UNCHANGED <<left, here, results, heap>>
    BY <1>14 DEF RestTable, CloseTable
  <2> QED
    BY <2>1, <1>s, TurnKeeps
<1>15. CASE Descend
  <2>1. CASE StartSelect
    BY <2>1, <1>s, SelectionKeeps
  <2>2. CASE work' = {} /\ UNCHANGED <<pc, turn, slots, table, cur, base, left, here, results, answer, heap>>
    BY <2>2, <1>15, <1>s, TurnKeeps DEF Descend
  <2>3. ASSUME NEW base_case \in work,
               results' = results \cup {[row |-> r, dist |-> here.dist, nth |-> Cardinality(results)] : r \in base_case},
               Accept(here.id, here.dist), UNCHANGED <<pc, left, here>>
        PROVE  Inv'
    <3>1. here.dist \in Int
      BY DEF WalkCarriesDistances
    <3>2. \A r \in results' : r.dist \in Int
      BY <2>3, <3>1 DEF WalkCarriesDistances
    <3>3. WalkCarriesDistances'
      BY <2>3, <3>1, <3>2, <1>15, <1>s DEF WalkCarriesDistances, setting, Descend
    <3>4. HeapInv'
      BY <2>3, <3>1, <1>s, PushedKeepsHeap, UntouchedIsSound DEF Accept
    <3> QED
      BY <3>3, <3>4
  <2> QED
    BY <1>15, <2>1, <2>2, <2>3 DEF Descend
<1>16. CASE Pick
  <2>1. CASE pc' = "done" /\ UNCHANGED <<work, heap>>
    BY <1>16, <2>1, <1>s, TurnKeeps DEF Pick
  <2>2. CASE Emptied /\ work' = Group(Slot) /\ pc' = "offer"
    <3>1. WalkCarriesDistances'
      BY <1>16, <2>2, <1>s, GroupHasDistances DEF Pick, WalkCarriesDistances, setting
    <3> QED
      BY <2>2, <3>1, <1>s, EmptiedIsSound
  <2> QED
    BY <1>16, <2>1, <2>2 DEF Pick
<1>17. CASE OfferOne
  <2>1. PICK o \in work : Take(o) /\ work' = work \ {o}
    BY <1>17 DEF OfferOne
  <2>2. o.dist \in Int
    BY <1>17 DEF OfferOne, WalkCarriesDistances
  <2>3. HeapInv'
    BY <2>1, <2>2, <1>s, PushedKeepsHeap DEF Take
  <2>4. WalkCarriesDistances'
    BY <1>17, <2>1, <1>s, WalkUntouched DEF OfferOne
  <2> QED
    BY <2>3, <2>4
<1>18. CASE RestSelect
  BY <1>18, <1>s, DrainKeeps DEF RestSelect
<1> QED
  BY <1>1, <1>2, <1>3, <1>4, <1>5, <1>6, <1>7, <1>8, <1>9, <1>10, <1>11, <1>12, <1>13, <1>14,
     <1>15, <1>16, <1>17, <1>18 DEF Step

\* So does every step.
LEMMA NextIsSound == Inv /\ [Next]_vars => Inv'
<1> SUFFICES ASSUME Inv, [Next]_vars PROVE Inv'
  OBVIOUS
<1>1. CASE Step
  BY <1>1, StepIsSound
<1>2. CASE Late
  BY <1>2, TurnKeeps DEF Late, walk
<1>3. CASE RunAgain
  <2>1. WalkCarriesDistances'
    BY <1>3 DEF RunAgain, Inv, WalkCarriesDistances, Entrance, Nowhere, setting
  <2>2. HeapInv'
    BY <1>3, EmptiedIsSound DEF RunAgain, Inv, setting
  <2> QED
    BY <2>1, <2>2 DEF Inv
<1>4. CASE UNCHANGED vars
  BY <1>4, TurnKeeps DEF vars, walk
<1> QED
  BY <1>1, <1>2, <1>3, <1>4 DEF Next

(* For every query, corpus, metric, arm and budget, what the heap refuses   *)
(* or gives up is no nearer than what it holds (topk.rs).                   *)
THEOREM ThresholdSound == Spec => []ThresholdIsSound
<1>1. Init => Inv
  BY InitIsSound
<1>2. Inv /\ [Next]_vars => Inv'
  BY NextIsSound
<1>3. Inv => ThresholdIsSound
  BY DEF Inv, HeapInv
<1> QED
  BY <1>1, <1>2, <1>3, PTL DEF Spec
(***************************************************************************)
(* The verdict of the budget.                                              *)
(***************************************************************************)
VerdictInv == tripped \in BOOLEAN /\ late \in BOOLEAN /\ VerdictIsDue

(* However often the budget is asked, its verdict is due.                   *)
LEMMA PolledIsDue ==
  ASSUME VerdictInv, UNCHANGED clock, Polled \/ PolledOften \/ UNCHANGED budget
  PROVE  VerdictInv'
<1>1. late' = late
  BY DEF clock
<1>2. CASE Polled
  BY <1>1, <1>2 DEF Polled, Expired, ReadsClock, VerdictInv, VerdictIsDue
<1>3. CASE PolledOften
  BY <1>1, <1>3 DEF PolledOften, VerdictInv, VerdictIsDue
<1>4. CASE UNCHANGED budget
  BY <1>1, <1>4 DEF budget, VerdictInv, VerdictIsDue
<1> QED
  BY <1>2, <1>3, <1>4

(* Every turn of a loop asks the budget, or leaves it.                      *)
LEMMA StepPolls == Step => Polled \/ PolledOften \/ UNCHANGED budget
BY DEF Step, RunPattern, OpenPartition, PopBucket, RestBucket, OfferOne, OpenCorpus, PopCorpus, RestCorpus,
       EnterVisit, PopVisit, RestVisit, FileVisit, OpenTable, PopTable, RestTable, Descend, Pick, RestSelect

\* Every step keeps the verdict due.
LEMMA VerdictSteps == VerdictInv /\ [Next]_vars => VerdictInv'
<1> SUFFICES ASSUME VerdictInv, [Next]_vars PROVE VerdictInv'
  OBVIOUS
<1>1. CASE Step
  BY <1>1, StepPolls, PolledIsDue DEF Step
<1>2. CASE Late
  BY <1>2 DEF Late, budget, VerdictInv, VerdictIsDue
<1>3. CASE RunAgain
  BY <1>3 DEF RunAgain, Rearm, VerdictInv, VerdictIsDue
<1>4. CASE UNCHANGED vars
  BY <1>4, PolledIsDue DEF vars
<1> QED
  BY <1>1, <1>2, <1>3, <1>4 DEF Next

(* Whatever the stride and however often a session runs its query, an       *)
(* execution is cut short only by its own deadline (budget.rs).             *)
THEOREM VerdictDue == Spec => []VerdictIsDue
<1>1. Init => VerdictInv
  BY DEF Init, VerdictInv, VerdictIsDue
<1>2. VerdictInv => VerdictIsDue
  BY DEF VerdictInv
<1> QED
  BY <1>1, <1>2, VerdictSteps, PTL DEF Spec

(***************************************************************************)
(* Places: the number of members of a finite set that are not above one of *)
(* them in a linear order.                                                 *)
(***************************************************************************)
UpTo(S, order, e) == {f \in S : <<f, e>> \in order}
IsLinear(S, order) ==
  /\ \A e \in S : <<e, e>> \in order
  /\ \A e, f \in S : <<e, f>> \in order \/ <<f, e>> \in order
  /\ \A e, f \in S : <<e, f>> \in order /\ <<f, e>> \in order => e = f
  /\ \A e, f, g \in S : <<e, f>> \in order /\ <<f, g>> \in order => <<e, g>> \in order

ArePlaces(S, order) ==
  /\ \A e \in S : Cardinality(UpTo(S, order, e)) \in 1..Cardinality(S)
  /\ \A e, f \in S : Cardinality(UpTo(S, order, e)) = Cardinality(UpTo(S, order, f)) => e = f
  /\ \A n \in 1..Cardinality(S) : \E e \in S : Cardinality(UpTo(S, order, e)) = n

(* A member that is below another has an earlier place.                     *)
LEMMA PlacesGrow ==
  ASSUME NEW S, IsFiniteSet(S), NEW order, IsLinear(S, order),
         NEW e \in S, NEW f \in S, <<e, f>> \in order, e # f
  PROVE  /\ Cardinality(UpTo(S, order, e)) \in 1..Cardinality(S)
         /\ Cardinality(UpTo(S, order, e)) < Cardinality(UpTo(S, order, f))
<1>1. UpTo(S, order, e) \in SUBSET UpTo(S, order, f) /\ UpTo(S, order, f) \in SUBSET S
  BY DEF UpTo, IsLinear
<1>2. f \in UpTo(S, order, f) /\ f \notin UpTo(S, order, e) /\ e \in UpTo(S, order, e)
  BY DEF UpTo, IsLinear
<1> DEFINE low == UpTo(S, order, e)
           high == UpTo(S, order, f)
<1> HIDE DEF low, high
<1>3. IsFiniteSet(high) /\ Cardinality(high) <= Cardinality(S)
  BY <1>1, FS_Subset DEF high
<1>4. IsFiniteSet(low) /\ Cardinality(low) <= Cardinality(high) /\ Cardinality(low) # Cardinality(high)
  BY <1>1, <1>2, <1>3, FS_Subset DEF low, high
<1>5. Cardinality(low) \in Nat /\ Cardinality(high) \in Nat /\ Cardinality(S) \in Nat
  BY <1>3, <1>4, FS_CardinalityType
<1>6. Cardinality(low) # 0
  BY <1>2, <1>4, FS_EmptySet DEF low
<1> QED
  BY <1>3, <1>4, <1>5, <1>6 DEF low, high

(* Every place is taken by exactly one member.                              *)
LEMMA PlacesAreTaken ==
  ASSUME NEW S, IsFiniteSet(S), NEW order, IsLinear(S, order)
  PROVE  ArePlaces(S, order)
<1> DEFINE place == [e \in S |-> Cardinality(UpTo(S, order, e))]
           places == 1..Cardinality(S)
<1>1. \A e \in S : place[e] \in places
  <2> SUFFICES ASSUME NEW e \in S PROVE Cardinality(UpTo(S, order, e)) \in places
    OBVIOUS
  <2>1. UpTo(S, order, e) \in SUBSET S /\ e \in UpTo(S, order, e)
    BY DEF UpTo, IsLinear
  <2> DEFINE low == UpTo(S, order, e)
  <2> HIDE DEF low
  <2>2. IsFiniteSet(low) /\ Cardinality(low) <= Cardinality(S)
    BY <2>1, FS_Subset DEF low
  <2>3. Cardinality(low) \in Nat /\ Cardinality(S) \in Nat /\ Cardinality(low) # 0
    BY <2>1, <2>2, FS_CardinalityType, FS_EmptySet DEF low
  <2> QED
    BY <2>2, <2>3 DEF low
<1>2. \A e, f \in S : place[e] = place[f] => e = f
  <2> SUFFICES ASSUME NEW e \in S, NEW f \in S, e # f PROVE place[e] # place[f]
    OBVIOUS
  <2>1. place[e] \in Int /\ place[f] \in Int
    BY <1>1
  <2>2. <<e, f>> \in order \/ <<f, e>> \in order
    BY DEF IsLinear
  <2>3. place[e] < place[f] \/ place[f] < place[e]
    BY <2>2, PlacesGrow
  <2> QED
    BY <2>1, <2>3
<1>3. place \in Injection(S, places)
  <2>1. place \in [S -> places]
    BY <1>1
  <2> HIDE DEF place
  <2> QED
    BY <1>2, <2>1 DEF Injection, IsInjective
<1>4. IsFiniteSet(places) /\ Cardinality(places) = Cardinality(S)
  <2>1. PICK n \in Nat : n = Cardinality(S)
    BY FS_CardinalityType
  <2>2. IsFiniteSet(1..n) /\ Cardinality(1..n) = IF 1 > n THEN 0 ELSE n - 1 + 1
    BY FS_Interval
  <2> QED
    BY <2>1, <2>2
<1>5. place \in Surjection(S, places)
  BY <1>3, <1>4, FS_Injection
<1>6. \A n \in places : \E e \in S : place[e] = n
  BY <1>5 DEF Surjection
<1> QED
  BY <1>1, <1>2, <1>6 DEF ArePlaces

(* A set of naturals in its own order.                                      *)
LEMMA NaturalPlaces ==
  ASSUME NEW S \in SUBSET Nat, IsFiniteSet(S)
  PROVE  /\ \A i, j \in S : Cardinality({m \in S : m <= i}) = Cardinality({m \in S : m <= j}) => i = j
         /\ \A i \in S : Cardinality({m \in S : m <= i}) \in 1..Cardinality(S)
         /\ \A n \in 1..Cardinality(S) : \E i \in S : Cardinality({m \in S : m <= i}) = n
<1> DEFINE low(i) == {m \in S : m <= i}
<1>0. PICK order : order = {p \in S \X S : p[1] <= p[2]}
  OBVIOUS
<1>1. \A i, j \in S : <<i, j>> \in order <=> i <= j
  BY <1>0
<1>2. \A i \in S : UpTo(S, order, i) = low(i)
  BY <1>1 DEF UpTo
<1>3. IsLinear(S, order)
  BY <1>1 DEF IsLinear
<1> HIDE DEF low
<1>4. /\ \A i, j \in S : Cardinality(low(i)) = Cardinality(low(j)) => i = j
      /\ \A i \in S : Cardinality(low(i)) \in 1..Cardinality(S)
      /\ \A n \in 1..Cardinality(S) : \E i \in S : Cardinality(low(i)) = n
  <2>1. ArePlaces(S, order)
    BY <1>3, PlacesAreTaken
  <2> QED
    BY <1>2, <2>1 DEF ArePlaces
<1> QED
  BY <1>4 DEF low
(* A finite set of naturals that is not empty has a least member.           *)
LEMMA LeastNatural ==
  ASSUME NEW S \in SUBSET Nat, S # {}
  PROVE  \E i \in S : \A j \in S : i <= j
<1>1. PICK i \in S : \A j \in S : ~(<<j, i>> \in OpToRel(<, Nat))
  BY WFMin, NatLessThanWellFounded
<1>2. \A j \in S : ~(j < i)
  BY <1>1 DEF OpToRel
<1> QED
  BY <1>2

(* Lists without repetitions.                                               *)
OneToOne(list) == \A i, j \in DOMAIN list : list[i] = list[j] => i = j
(* A function of 1..n is a list.                                            *)
LEMMA FunctionIsList ==
  ASSUME NEW S, NEW n \in Nat, NEW f \in [1..n -> S]
  PROVE  f \in Seq(S) /\ Len(f) = n /\ DOMAIN f = 1..n
OBVIOUS
(* The members listed by their places are listed once each, in order.       *)
LEMMA PlacedSequence ==
  ASSUME NEW S, IsFiniteSet(S), NEW order, IsLinear(S, order), NEW list,
         list = [n \in 1..Cardinality(S) |-> list[n]],
         \A n \in 1..Cardinality(S) : list[n] \in S /\ Cardinality(UpTo(S, order, list[n])) = n
  PROVE  /\ list \in Seq(S) /\ Len(list) = Cardinality(S) /\ OneToOne(list) /\ Range(list) = S
         /\ \A m, n \in DOMAIN list : m < n => <<list[m], list[n]>> \in order
<1>1. PICK size \in Nat : size = Cardinality(S)
  BY FS_CardinalityType
<1>2. list \in [1..size -> S]
  BY <1>1
<1>3. list \in Seq(S) /\ Len(list) = size /\ DOMAIN list = 1..size
  BY <1>2, FunctionIsList
<1>4. OneToOne(list)
  BY <1>1, <1>3 DEF OneToOne
<1>5. ASSUME NEW e \in S PROVE \E n \in DOMAIN list : list[n] = e
  <2>1. PICK n \in 1..size : n = Cardinality(UpTo(S, order, e))
    BY <1>1, PlacesAreTaken DEF ArePlaces
  <2>2. list[n] \in S /\ Cardinality(UpTo(S, order, list[n])) = Cardinality(UpTo(S, order, e))
    BY <1>1, <2>1
  <2>3. list[n] = e
    BY <2>2, PlacesAreTaken DEF ArePlaces
  <2> QED
    BY <1>3, <2>3
<1>6. Range(list) = S
  BY <1>2, <1>3, <1>5 DEF Range
<1>7. ASSUME NEW m \in DOMAIN list, NEW n \in DOMAIN list, m < n PROVE <<list[m], list[n]>> \in order
  <2>1. list[m] \in S /\ list[n] \in S /\ m \in Nat /\ n \in Nat
    BY <1>2, <1>3
  <2>2. Cardinality(UpTo(S, order, list[m])) = m /\ Cardinality(UpTo(S, order, list[n])) = n
    BY <1>1, <1>3
  <2>3. CASE <<list[n], list[m]>> \in order
    BY <2>1, <2>2, <2>3, <1>7, PlacesGrow
  <2> QED
    BY <2>1, <2>3 DEF IsLinear
<1> QED
  BY <1>1, <1>3, <1>4, <1>6, <1>7

(* A finite set has a finite image.                                         *)
LEMMA ImageIsFinite ==
  ASSUME NEW S, IsFiniteSet(S), NEW f, f = [x \in S |-> f[x]]
  PROVE  IsFiniteSet({f[x] : x \in S}) /\ Cardinality({f[x] : x \in S}) <= Cardinality(S)
<1>1. f \in Surjection(S, {f[x] : x \in S})
  BY DEF Surjection
<1> QED
  BY <1>1, FS_Surjection

(* The queries first seen at some places are those of the places.           *)
LEMMA FirstSeenIs ==
  ASSUME NEW n \in Nat, NEW places \in SUBSET (1..n), NEW queries
  PROVE  /\ FirstSeen(queries, places) \in Seq({queries[i] : i \in places})
         /\ OneToOne(FirstSeen(queries, places))
         /\ Range(FirstSeen(queries, places)) = {queries[i] : i \in places}
<1> DEFINE first == {i \in places : \A j \in places : j < i => queries[j] # queries[i]}
           place(i) == Cardinality({j \in first : j <= i})
           at(m) == CHOOSE i \in first : place(i) = m
           list == FirstSeen(queries, places)
<1>1. list = [m \in 1..Cardinality(first) |-> queries[at(m)]]
  BY DEF FirstSeen
<1>0. places \subseteq Nat
  OBVIOUS
<1>2. first \in SUBSET Nat /\ IsFiniteSet(first)
  <2>1. IsFiniteSet(1..n)
    BY FS_Interval
  <2>2. first \in SUBSET (1..n)
    OBVIOUS
  <2>3. first \in SUBSET Nat
    BY <1>0
  <2> HIDE DEF first
  <2>4. IsFiniteSet(first)
    BY <2>1, <2>2, FS_Subset
  <2> QED
    BY <2>3, <2>4
<1>3. \A i, j \in first : queries[i] = queries[j] => i = j
  BY <1>2
<1>4. ASSUME NEW i \in places PROVE \E j \in first : queries[j] = queries[i]
  <2>1. PICK j \in {j \in places : queries[j] = queries[i]} : \A m \in {j_1 \in places : queries[j_1] = queries[i]} : j <= m
    <3> DEFINE same == {j \in places : queries[j] = queries[i]}
    <3>1. i \in same /\ same \subseteq places
      OBVIOUS
    <3> HIDE DEF same
    <3>3. same \in SUBSET Nat /\ same # {}
      BY <1>0, <3>1
    <3>2. \E j \in same : \A m \in same : j <= m
      BY <3>3, LeastNatural
    <3> QED
      BY <3>2 DEF same
  <2> QED
    BY <2>1
<1>5. first \subseteq places
  OBVIOUS
<1> HIDE DEF first
<1>6. PICK size \in Nat : size = Cardinality(first)
  BY <1>2, FS_CardinalityType
<1>a. /\ \A i, j \in first : place(i) = place(j) => i = j
      /\ \A i \in first : place(i) \in 1..size
      /\ \A m \in 1..size : \E i \in first : place(i) = m
  BY <1>2, <1>6, NaturalPlaces
<1> HIDE DEF place
<1>7. \A m \in 1..size : at(m) \in first /\ place(at(m)) = m
  BY <1>a
<1>8. \A i \in first : \E m \in 1..size : at(m) = i
  BY <1>a, <1>7
<1> HIDE DEF at, list
<1>9. list = [m \in 1..size |-> queries[at(m)]]
  BY <1>1, <1>6
<1>10. DOMAIN list = 1..size /\ list \in Seq({queries[i] : i \in places})
  <2>1. list \in [1..size -> {queries[i] : i \in places}]
    BY <1>5, <1>7, <1>9
  <2> QED
    BY <2>1, FunctionIsList
<1>11. OneToOne(list)
  <2> SUFFICES ASSUME NEW i \in 1..size, NEW j \in 1..size, queries[at(i)] = queries[at(j)] PROVE i = j
    BY <1>9, <1>10 DEF OneToOne
  <2> QED
    BY <1>3, <1>7
<1>12. Range(list) = {queries[i] : i \in places}
  <2>1. \A m \in 1..size : list[m] \in {queries[i] : i \in places}
    BY <1>5, <1>7, <1>9
  <2>2. \A i \in places : \E m \in 1..size : list[m] = queries[i]
    BY <1>4, <1>8, <1>9
  <2> QED
    BY <1>10, <2>1, <2>2 DEF Range
<1> QED
  BY <1>10, <1>11, <1>12 DEF list

\* The least of a set of naturals.
LEMMA MinIs ==
  ASSUME NEW S \in SUBSET Nat, S # {}
  PROVE  Min(S) \in S /\ \A i \in S : Min(S) <= i
BY LeastNatural DEF Min

(* What the numbers of the results say: those of one number are of one     *)
(* query, and no number has been used twice.                                *)
ResultsAreNumbered ==
  /\ IsFiniteSet(results)
  /\ \A r \in results : r.nth \in 0..(Cardinality(results) - 1)
  /\ \A r, s \in results : r.nth = s.nth => QueryOf(r.row) = QueryOf(s.row)

(* The queries of the results are listed once each.                         *)
LEMMA QueriesSeenIs ==
  ASSUME ResultsAreNumbered
  PROVE  /\ QueriesSeen \in Seq({QueryOf(r.row) : r \in results})
         /\ OneToOne(QueriesSeen)
         /\ Range(QueriesSeen) = {QueryOf(r.row) : r \in results}
<1> DEFINE seen == {QueryOf(r.row) : r \in results}
           since(q) == Min({r.nth : r \in ResultsOf(q)})
           list == QueriesSeen
<1>1. IsFiniteSet(seen)
  <2> DEFINE f == [r \in results |-> QueryOf(r.row)]
  <2>1. IsFiniteSet({f[r] : r \in results})
    <3>1. f = [r \in results |-> f[r]] /\ IsFiniteSet(results)
      BY DEF ResultsAreNumbered
    <3> HIDE DEF f
    <3> QED
      BY <3>1, ImageIsFinite
  <2>2. {f[r] : r \in results} = seen
    OBVIOUS
  <2> QED
    BY <2>1, <2>2
<1>2. \A q \in seen : since(q) \in Nat /\ \E r \in results : QueryOf(r.row) = q /\ r.nth = since(q)
  <2> SUFFICES ASSUME NEW q \in seen PROVE since(q) \in Nat /\ \E r \in results : QueryOf(r.row) = q /\ r.nth = since(q)
    OBVIOUS
  <2> DEFINE numbers == {r.nth : r \in ResultsOf(q)}
  <2>1. \A r \in results : r.nth \in Nat
    BY DEF ResultsAreNumbered
  <2>2. numbers \in SUBSET Nat /\ numbers # {}
    BY <2>1 DEF ResultsOf
  <2>3. \A i \in numbers : \E r \in results : QueryOf(r.row) = q /\ r.nth = i
    BY DEF ResultsOf
  <2> HIDE DEF numbers
  <2>4. Min(numbers) \in numbers
    BY <2>2, MinIs
  <2> QED
    BY <2>2, <2>3, <2>4 DEF numbers
<1> HIDE DEF since
<1>3. \A p, q \in seen : since(p) = since(q) => p = q
  BY <1>2 DEF ResultsAreNumbered
<1>4. PICK order : order = {p \in seen \X seen : since(p[1]) <= since(p[2])}
  OBVIOUS
<1>5. \A p, q \in seen : <<p, q>> \in order <=> since(p) <= since(q)
  BY <1>4
<1>6. \A q \in seen : UpTo(seen, order, q) = {p \in seen : since(p) <= since(q)}
  BY <1>5 DEF UpTo
<1>a. list = [n \in 1..Cardinality(seen) |-> CHOOSE q \in seen : Cardinality({p \in seen : since(p) <= since(q)}) = n]
  BY DEF QueriesSeen, since
<1> HIDE DEF seen, list
<1>7. IsLinear(seen, order)
  <2>1. \A q \in seen : since(q) \in Int
    BY <1>2
  <2> QED
    BY <1>3, <1>5, <2>1 DEF IsLinear
<1>8. PICK size \in Nat : size = Cardinality(seen)
  BY <1>1, FS_CardinalityType
<1> DEFINE low(q) == {p \in seen : since(p) <= since(q)}
<1>9. /\ \A n \in 1..size : \E q \in seen : Cardinality(low(q)) = n
      /\ \A q \in seen : UpTo(seen, order, q) = low(q)
  BY <1>1, <1>6, <1>7, <1>8, PlacesAreTaken DEF ArePlaces
<1>b. list = [n \in 1..size |-> CHOOSE q \in seen : Cardinality(low(q)) = n]
  BY <1>a, <1>8
<1> HIDE DEF low
<1>c. \A n \in 1..size : list[n] \in seen /\ Cardinality(UpTo(seen, order, list[n])) = n
  BY <1>b, <1>9
<1>d. list = [n \in 1..size |-> list[n]]
  BY <1>b
<1>e. list \in Seq(seen) /\ OneToOne(list) /\ Range(list) = seen
  BY <1>1, <1>7, <1>8, <1>c, <1>d, PlacedSequence
<1> QED
  BY <1>e DEF list, seen

(***************************************************************************)
(* Types.                                                                  *)
(*                                                                         *)
(* That the queries of a selection have one slot each needs the numbers of *)
(* the results; that a visit or a slot is there when it is looked at needs *)
(* the places the loops stand at.                                          *)
(***************************************************************************)
SettingIsChosen == job \in Jobs /\ ranking = Rankings[job.corpus] /\ stream = Streams[job.corpus]
IsCase(c) == \E v \in Visits : \E x \in Candidates(v) : c \in BaseCases(v, x)
BudgetIsTyped == asked \in 0..Stride /\ tripped \in BOOLEAN
PlacesAreTyped ==
  /\ pc \in {"gather", "visit", "open", "walk", "offer", "descend", "pick", "done"}
  /\ turn \in Nat \ {0} /\ slots \in Seq(Queries)
  /\ cur \in Queries \cup {NoQuery} /\ base \in Queries \cup {NoQuery}
  /\ left \subseteq Neighbour /\ here \in Neighbour
ResultsAreTyped == ResultsAreNumbered /\ \A r \in results : r.row \in AllRows
TableIsTyped ==
  /\ \A q \in DOMAIN table : \A x \in DOMAIN table[q] : \A c \in table[q][x] : IsCase(c)
  /\ Range(slots) \subseteq DOMAIN table
LoopsStand ==
  /\ pc = "visit" => job.arm = "interleave"
  /\ job.arm = "interleave" /\ pc \in {"walk", "descend"} => turn \in Visits
  /\ job.arm = "memo" /\ pc \in {"walk", "descend"} => turn \in DOMAIN slots
  /\ job.arm = "memo" /\ pc \in {"gather", "open", "walk", "descend"} => TableIsTyped
  /\ pc = "descend" => \A c \in work : IsCase(c)
Typed == PlacesAreTyped /\ ResultsAreTyped /\ LoopsStand
TypeInv == SettingIsChosen /\ Inv /\ BudgetIsTyped /\ Typed

(* What depends on the query alone.                                         *)
LEMMA SettingStays ==
  ASSUME UNCHANGED setting
  PROVE  /\ Queries' = Queries /\ AllRows' = AllRows /\ Visits' = Visits
         /\ \A c : IsCase(c)' <=> IsCase(c)
         /\ \A r : QueryOf(r)' = QueryOf(r)
<1>1. job' = job
  BY DEF setting
<1>2. AllRows' = AllRows
  BY <1>1 DEF AllRows, RowsAt, BaseCases, BaseCase, Visits, Candidates
<1>3. Queries' = Queries /\ Visits' = Visits
  BY <1>1 DEF Queries, Visits, AnchorAt, Correlated
<1>4. \A c : IsCase(c)' <=> IsCase(c)
  BY <1>1 DEF IsCase, BaseCases, BaseCase, Visits, Candidates
<1>5. \A r : QueryOf(r)' = QueryOf(r)
  BY <1>1 DEF QueryOf, AnchorAt
<1> QED
  BY <1>2, <1>3, <1>4, <1>5

(* The query chosen is one of those the constants describe.                 *)
LEMMA JobIs ==
  ASSUME SettingIsChosen
  PROVE  /\ IsJob(job)
         /\ Visits = 1..Len(job.visits) /\ Len(job.visits) \in Nat
         /\ \A v \in Visits : AnchorAt(v) \in Queries /\ AnchorAt(v) \in Nat
         /\ AreRankings(ranking) /\ AreRankings(stream) /\ DOMAIN ranking = DOMAIN stream
         /\ FirstAnchor \in Queries \cup {NoQuery} /\ (~Correlated => FirstAnchor = Fixed /\ Fixed \in Queries)
<1>1. IsJob(job)
  BY NearestAssumption DEF SettingIsChosen
<1>2. Visits = 1..Len(job.visits) /\ Len(job.visits) \in Nat
  BY <1>1 DEF IsJob, Visits
<1>3. \A v \in Visits : AnchorAt(v) \in Queries /\ AnchorAt(v) \in Nat
  BY <1>1 DEF Queries, IsJob, AnchorAt, Visits
<1>4. AreRankings(ranking) /\ AreRankings(stream) /\ DOMAIN ranking = DOMAIN stream
  BY NearestAssumption DEF SettingIsChosen
<1>5. FirstAnchor \in Queries \cup {NoQuery} /\ (~Correlated => FirstAnchor = Fixed /\ Fixed \in Queries)
  BY DEF FirstAnchor, Queries
<1> QED
  BY <1>1, <1>2, <1>3, <1>4, <1>5

(* A base case has rows, finitely many and of one visit.                    *)
LEMMA CaseIs ==
  ASSUME SettingIsChosen, NEW c, IsCase(c)
  PROVE  /\ c \subseteq AllRows /\ c # {} /\ IsFiniteSet(c)
         /\ \A r, s \in c : QueryOf(r) = QueryOf(s)
<1>1. PICK v \in Visits : \E x \in Candidates(v) : c \in BaseCases(v, x)
  BY DEF IsCase
<1>2. PICK x \in Candidates(v) : c \in BaseCases(v, x)
  BY <1>1
<1>3. PICK b \in DOMAIN job.visits[v].fan[x] : c = BaseCase(v, x, b)
  BY <1>2 DEF BaseCases
<1>4. PICK n \in Nat \ {0} : n = job.visits[v].fan[x][b]
  <2>1. job.visits[v].fan[x] \in Seq(Nat \ {0})
    BY JobIs DEF IsJob, Visits, Candidates
  <2>2. job.visits[v].fan[x][b] \in Nat \ {0}
    BY <2>1, <1>3, ElementOfList
  <2> QED
    BY <2>2
<1> DEFINE f == [t \in 1..n |-> [visit |-> v, id |-> x, base |-> b, twin |-> t]]
<1>5. c = {f[t] : t \in 1..n}
  BY <1>3, <1>4 DEF BaseCase
<1>6. IsFiniteSet(c)
  <2>1. f = [t \in 1..n |-> f[t]] /\ IsFiniteSet(1..n)
    BY FS_Interval
  <2> HIDE DEF f
  <2> QED
    BY <1>5, <2>1, ImageIsFinite
<1>7. c # {} /\ \A r \in c : r.visit = v
  <2>1. 1 \in 1..n
    OBVIOUS
  <2>2. \A t \in 1..n : f[t].visit = v
    OBVIOUS
  <2> HIDE DEF f
  <2> QED
    BY <1>5, <2>1, <2>2
<1>8. c \subseteq AllRows
  <2>1. c \subseteq RowsAt(v)
    BY <1>2 DEF RowsAt
  <2> QED
    BY <2>1 DEF AllRows
<1> QED
  BY <1>6, <1>7, <1>8 DEF QueryOf

\* The neighbours of a ranking are neighbours.
LEMMA RankedAreNeighbours ==
  ASSUME NEW lists, AreRankings(lists), NEW q \in DOMAIN lists
  PROVE  Ranked(lists[q]) \subseteq Neighbour
<1>1. PICK list : list = lists[q] /\ list \in Seq([id : Int, dist : Int])
  BY DEF AreRankings
<1>2. ASSUME NEW i \in DOMAIN list
      PROVE  [rank |-> i, id |-> list[i].id, dist |-> list[i].dist] \in Neighbour
  <2>1. list[i] \in [id : Int, dist : Int]
    BY <1>1, ElementOfList
  <2>2. i \in Nat
    BY <1>1
  <2> QED
    BY <2>1, <2>2 DEF Neighbour
<1>3. Ranked(list) \subseteq Neighbour
  BY <1>2 DEF Ranked
<1> QED
  BY <1>1, <1>3

\* So is what a walk is opened on.
LEMMA RankingIsTyped ==
  ASSUME SettingIsChosen, NEW q, NEW opened, NEW ids
  PROVE  RankingOf(q, opened, ids) \subseteq Neighbour /\ StreamOf(q) \subseteq Neighbour
<1>1. RankCandidates(q, ids) \subseteq Neighbour
  BY JobIs, RankedAreNeighbours DEF RankCandidates, HasVector
<1>2. \A p : StreamOf(p) \subseteq Neighbour
  BY JobIs, RankedAreNeighbours DEF StreamOf, HasVector
<1> QED
  BY <1>1, <1>2 DEF RankingOf

(* The budget stays in range however it is asked.                           *)
LEMMA BudgetStaysTyped ==
  ASSUME BudgetIsTyped, late \in BOOLEAN, SettingIsChosen, Polled \/ PolledOften \/ UNCHANGED budget
  PROVE  BudgetIsTyped'
<1>1. Stride \in Nat /\ job.armed \in BOOLEAN
  BY NearestAssumption, JobIs DEF IsJob
<1>2. CASE Polled
  <2>1. tripped' \in BOOLEAN
    BY <1>1, <1>2 DEF Polled, Expired, ReadsClock, BudgetIsTyped
  <2>2. asked' \in 0..Stride
    BY <1>1, <1>2 DEF Polled, BudgetIsTyped
  <2> QED
    BY <2>1, <2>2 DEF BudgetIsTyped
<1>3. CASE PolledOften
  BY <1>1, <1>3 DEF PolledOften, BudgetIsTyped
<1>4. CASE UNCHANGED budget
  BY <1>4 DEF budget, BudgetIsTyped
<1> QED
  BY <1>2, <1>3, <1>4

(* The results of a base case are numbered, and of rows.                    *)
LEMMA ResultsStayTyped ==
  ASSUME SettingIsChosen, ResultsAreTyped, UNCHANGED setting, NEW c, IsCase(c), NEW dist,
         results' = results \cup {[row |-> r, dist |-> dist, nth |-> Cardinality(results)] : r \in c}
  PROVE  ResultsAreTyped'
<1> DEFINE f == [r \in c |-> [row |-> r, dist |-> dist, nth |-> Cardinality(results)]]
           new == {f[r] : r \in c}
<1>1. results' = results \cup new
  OBVIOUS
<1>2. IsFiniteSet(new)
  <2>1. f = [r \in c |-> f[r]] /\ IsFiniteSet(c)
    BY CaseIs
  <2> HIDE DEF f
  <2> QED
    BY <2>1, ImageIsFinite
<1>3. \A r \in new : r.nth = Cardinality(results) /\ r.row \in c
  OBVIOUS
<1>4. PICK one : one \in new
  <2>1. PICK r : r \in c
    BY CaseIs
  <2> QED
    BY <2>1
<1> HIDE DEF new
<1>5. IsFiniteSet(results)
  BY DEF ResultsAreTyped, ResultsAreNumbered
<1>6. PICK n \in Nat : n = Cardinality(results)
  BY <1>5, FS_CardinalityType
<1>7. \A r \in results : r.nth \in 0..(n - 1)
  BY <1>6 DEF ResultsAreTyped, ResultsAreNumbered
<1>8. one \notin results
  BY <1>3, <1>4, <1>6, <1>7
<1>9. IsFiniteSet(results')
  <2>1. IsFiniteSet(results \cup new)
    BY <1>2, <1>5, FS_Union
  <2> QED
    BY <1>1, <2>1
<1>10. PICK m \in Nat : m = Cardinality(results')
  BY <1>9, FS_CardinalityType
<1>11. n < m
  <2>1. results \in SUBSET results' /\ results # results'
    BY <1>1, <1>4, <1>8
  <2>2. Cardinality(results) <= Cardinality(results') /\ Cardinality(results) # Cardinality(results')
    BY <1>9, <2>1, FS_Subset
  <2> QED
    BY <1>6, <1>10, <2>2
<1>12. \A r \in results' : r.nth \in 0..(m - 1)
  BY <1>1, <1>3, <1>6, <1>7, <1>11
<1>13. ASSUME NEW r \in results', NEW s \in results', r.nth = s.nth PROVE QueryOf(r.row) = QueryOf(s.row)
  <2>1. CASE r \in results /\ s \in results
    BY <1>13, <2>1 DEF ResultsAreTyped, ResultsAreNumbered
  <2>2. CASE r \in new /\ s \in new
    BY <1>3, <2>2, CaseIs
  <2>3. CASE (r \in new /\ s \in results) \/ (r \in results /\ s \in new)
    BY <1>13, <1>3, <1>6, <1>7, <2>3
  <2> QED
    BY <1>1, <2>1, <2>2, <2>3
<1>14. \A r \in results' : r.row \in AllRows'
  BY <1>1, <1>3, CaseIs, SettingStays DEF ResultsAreTyped
<1>15. \A r, s \in results' : r.nth = s.nth => QueryOf(r.row)' = QueryOf(s.row)'
  BY <1>13, SettingStays
<1> QED
  BY <1>9, <1>10, <1>12, <1>14, <1>15 DEF ResultsAreTyped, ResultsAreNumbered

(* What has to be shown of a turn.                                          *)
LEMMA PlacesMove ==
  ASSUME UNCHANGED setting,
         pc' \in {"gather", "visit", "open", "walk", "offer", "descend", "pick", "done"},
         turn' \in Nat \ {0}, slots' \in Seq(Queries),
         cur' \in Queries \cup {NoQuery}, base' \in Queries \cup {NoQuery},
         left' \subseteq Neighbour, here' \in Neighbour
  PROVE  PlacesAreTyped'
BY SettingStays DEF PlacesAreTyped

\* Results that stay are typed.
LEMMA ResultsKept ==
  ASSUME ResultsAreTyped, UNCHANGED setting, results' = results
  PROVE  ResultsAreTyped'
BY SettingStays DEF ResultsAreTyped, ResultsAreNumbered

\* So is a table that stays.
LEMMA TableKept ==
  ASSUME TableIsTyped, UNCHANGED setting, table' = table, slots' = slots
  PROVE  TableIsTyped'
BY SettingStays DEF TableIsTyped

\* Out of the loops of the join, nothing has to stand anywhere.
LEMMA LoopsLeft ==
  ASSUME LoopsStand, UNCHANGED setting,
         pc' \in {"pick", "offer", "done"} \/ (~InLtj /\ pc' \notin {"visit", "descend"})
  PROVE  LoopsStand'
BY DEF LoopsStand, InLtj, setting

\* The join has ended.
LEMMA SelectionIsTyped ==
  ASSUME SettingIsChosen, Typed, UNCHANGED setting, StartSelect
  PROVE  Typed'
<1>1. \A r \in results : QueryOf(r.row) \in Queries
  <2> SUFFICES ASSUME NEW r \in results PROVE QueryOf(r.row) \in Queries
    OBVIOUS
  <2>1. r.row \in AllRows
    BY DEF Typed, ResultsAreTyped
  <2>2. PICK v \in Visits : r.row \in RowsAt(v)
    BY <2>1 DEF AllRows
  <2>3. r.row.visit = v
    BY <2>2 DEF RowsAt, BaseCases, BaseCase
  <2> QED
    BY <2>3, JobIs DEF QueryOf
<1>2. QueriesSeen \in Seq(Queries)
  <2>1. PICK seen : seen = {QueryOf(r.row) : r \in results}
    OBVIOUS
  <2>2. QueriesSeen \in Seq(seen) /\ seen \subseteq Queries
    BY <1>1, <2>1, QueriesSeenIs DEF Typed, ResultsAreTyped
  <2> QED
    BY <2>2
<1>3. PlacesAreTyped'
  BY <1>2, PlacesMove DEF StartSelect, Typed, PlacesAreTyped
<1>4. ResultsAreTyped'
  BY ResultsKept DEF StartSelect, Typed
<1>5. LoopsStand'
  BY LoopsLeft DEF StartSelect, Typed
<1> QED
  BY <1>3, <1>4, <1>5 DEF Typed

\* A turn that moves nothing but where the loop stands, among the entries and out of the join.
LEMMA TurnIsTyped ==
  ASSUME Typed, UNCHANGED setting, slots' = slots, cur' = cur, base' = base, results' = results,
         turn' \in {turn, turn + 1}, left' \subseteq left, here' \in left \cup {here},
         pc' \in {"pick", "offer", "done"} \/ (~InLtj /\ pc' \in {"open", "walk"})
  PROVE  Typed'
<1>1. turn' \in Nat \ {0}
  BY DEF Typed, PlacesAreTyped
<1>2. PlacesAreTyped'
  BY <1>1, PlacesMove DEF Typed, PlacesAreTyped
<1>3. ResultsAreTyped' /\ LoopsStand'
  BY ResultsKept, LoopsLeft DEF Typed
<1> QED
  BY <1>2, <1>3 DEF Typed

\* Pointing the context at a query keeps its places typed.
LEMMA RetargetIsTyped ==
  ASSUME PlacesAreTyped, NEW q \in Queries, Retarget(q)
  PROVE  cur' \in Queries \cup {NoQuery} /\ base' \in Queries \cup {NoQuery}
BY DEF Retarget, PlacesAreTyped

\* An arm that ranks a pattern.
LEMMA RanksIsTyped ==
  ASSUME SettingIsChosen, Typed, UNCHANGED setting,
         RunPattern \/ OpenPartition \/ PopBucket \/ RestBucket \/ OpenCorpus \/ PopCorpus \/ RestCorpus \/ OfferOne
  PROVE  Typed'
<1>0. (Ranks \/ job.arm = "pre") => ~InLtj
  BY DEF Ranks, InLtj
<1>1. CASE RunPattern
  <2>1. PICK n \in 0..Len(job.visits) :
          slots' = FirstSeen([v \in 1..n |-> AnchorAt(v)], {v \in 1..n : RowsAt(v) # {}})
    BY <1>1 DEF RunPattern
  <2>2. slots' \in Seq(Queries)
    <3>1. PICK met \in SUBSET (1..n) : met = {v \in 1..n : RowsAt(v) # {}}
      OBVIOUS
    <3>2. PICK queries : queries = [v \in 1..n |-> AnchorAt(v)]
      OBVIOUS
    <3>3. n \in Nat /\ \A v \in 1..n : queries[v] \in Queries
      BY <3>2, JobIs
    <3>4. FirstSeen(queries, met) \in Seq({queries[v] : v \in met})
      BY <3>3, FirstSeenIs
    <3>5. PICK seen : seen = {queries[v] : v \in met}
      OBVIOUS
    <3>6. seen \subseteq Queries
      BY <3>3, <3>5
    <3> QED
      BY <2>1, <3>1, <3>2, <3>4, <3>5, <3>6
  <2>3. PlacesAreTyped'
    BY <1>1, <2>2, PlacesMove DEF RunPattern, Typed, PlacesAreTyped
  <2>4. ResultsAreTyped' /\ LoopsStand'
    BY <1>0, <1>1, ResultsKept, LoopsLeft DEF RunPattern, Typed
  <2> QED
    BY <2>3, <2>4 DEF Typed
<1>2. CASE OpenPartition
  <2>1. CASE UNCHANGED <<walk, heap>> /\ pc' = "done"
    BY <2>1, TurnIsTyped DEF walk
  <2>2. CASE OpenBuckets(Slot)
    <3>1. left' \subseteq Neighbour
      BY <2>2, RankingIsTyped DEF OpenBuckets
    <3>2. PlacesAreTyped'
      BY <2>2, <3>1, PlacesMove DEF OpenBuckets, Typed, PlacesAreTyped
    <3>3. ResultsAreTyped' /\ LoopsStand'
      BY <1>0, <1>2, <2>2, ResultsKept, LoopsLeft DEF OpenPartition, OpenBuckets, Typed
    <3> QED
      BY <3>2, <3>3 DEF Typed
  <2>3. CASE pc = "open" /\ NextTurn /\ UNCHANGED <<pc, slots, table, cur, base, left, here, work, results, answer, heap>>
    BY <1>0, <1>2, <2>3, TurnIsTyped DEF OpenPartition, NextTurn
  <2> QED
    BY <1>2, <2>1, <2>2, <2>3 DEF OpenPartition
<1>3. CASE PopBucket
  BY <1>0, <1>3, TurnIsTyped DEF PopBucket, Drain, NextTurn
<1>4. CASE RestBucket
  BY <1>0, <1>4, TurnIsTyped DEF RestBucket, Drain, NextTurn, walk
<1>5. CASE OpenCorpus
  <2>1. left' \subseteq Neighbour
    BY <1>5, RankingIsTyped DEF OpenCorpus
  <2>2. PlacesAreTyped'
    BY <1>5, <2>1, PlacesMove DEF OpenCorpus, Typed, PlacesAreTyped
  <2>3. ResultsAreTyped' /\ LoopsStand'
    BY <1>0, <1>5, ResultsKept, LoopsLeft DEF OpenCorpus, Typed
  <2> QED
    BY <2>2, <2>3 DEF Typed
<1>6. CASE PopCorpus
  BY <1>0, <1>6, TurnIsTyped DEF PopCorpus, Drain, NextTurn
<1>7. CASE RestCorpus
  BY <1>0, <1>7, TurnIsTyped DEF RestCorpus, walk
<1>8. CASE OfferOne
  BY <1>8, TurnIsTyped DEF OfferOne
<1> QED
  BY <1>1, <1>2, <1>3, <1>4, <1>5, <1>6, <1>7, <1>8

\* A turn of the join: what it changes is typed, and it stands where it should.
LEMMA JoinIsTyped ==
  ASSUME SettingIsChosen, Typed, UNCHANGED setting,
         EnterVisit \/ PopVisit \/ RestVisit \/ FileVisit \/ OpenTable \/ PopTable \/ RestTable
  PROVE  Typed'
<1>0. PlacesAreTyped /\ ResultsAreTyped /\ LoopsStand
  BY DEF Typed
<1>s. \A c : IsCase(c)' <=> IsCase(c)
  BY SettingStays
<1>v. job' = job /\ Visits' = Visits
  BY SettingStays DEF setting
<1>1. CASE EnterVisit
  <2>1. CASE StartSelect
    BY <2>1, SelectionIsTyped
  <2>2. CASE ~StartSelect
    <3>1. turn \in Visits
      BY <1>0, <1>1, <2>2, JobIs DEF EnterVisit, PlacesAreTyped
    <3>2. /\ cur' \in Queries \cup {NoQuery} /\ base' \in Queries \cup {NoQuery}
      BY <1>0, <1>1, <2>2, <3>1, JobIs, RetargetIsTyped DEF EnterVisit
    <3>3. left' \subseteq Neighbour
      BY <1>0, <1>1, <2>2, RankingIsTyped DEF EnterVisit, PlacesAreTyped
    <3>4. /\ turn' \in {turn, turn + 1} /\ slots' = slots /\ here' = here /\ results' = results
          /\ pc' \in {"walk", "visit"} /\ (pc' = "walk" => turn' = turn)
      BY <1>1, <2>2 DEF EnterVisit, NextVisit, NextTurn
    <3>5. PlacesAreTyped'
      BY <1>0, <3>2, <3>3, <3>4, PlacesMove DEF PlacesAreTyped
    <3>6. LoopsStand'
      BY <1>0, <1>1, <1>v, <3>1, <3>4 DEF LoopsStand, EnterVisit
    <3> QED
      BY <1>0, <3>4, <3>5, <3>6, ResultsKept DEF Typed
  <2> QED
    BY <2>1, <2>2
<1>2. CASE PopVisit
  <2>1. CASE StartSelect
    BY <2>1, SelectionIsTyped
  <2>2. CASE ~StartSelect
    <3>1. turn \in Visits
      BY <1>0, <1>2 DEF LoopsStand, PopVisit
    <3>2. /\ turn' \in {turn, turn + 1} /\ slots' = slots /\ cur' = cur /\ base' = base
          /\ left' \subseteq left /\ here' \in left \cup {here} /\ results' = results
          /\ pc' \in {"walk", "visit", "descend"} /\ (pc' # "visit" => turn' = turn)
          /\ (pc' = "descend" => \E x \in Candidates(turn) : work' = BaseCases(turn, x))
      BY <1>2, <2>2 DEF PopVisit, NextVisit, NextTurn, PassBy
    <3>3. PlacesAreTyped'
      BY <1>0, <3>2, PlacesMove DEF PlacesAreTyped
    <3>4. pc' = "descend" => \A c \in work' : IsCase(c)
      BY <3>1, <3>2 DEF IsCase
    <3>5. LoopsStand'
      BY <1>0, <1>2, <1>v, <1>s, <3>1, <3>2, <3>4 DEF LoopsStand, PopVisit
    <3> QED
      BY <1>0, <3>2, <3>3, <3>5, ResultsKept DEF Typed
  <2> QED
    BY <2>1, <2>2
<1>3. CASE RestVisit
  <2>1. UNCHANGED <<walk, heap>> /\ pc = "descend" /\ pc' = "walk" /\ job.arm = "interleave"
    BY <1>3 DEF RestVisit
  <2>2. PlacesAreTyped'
    BY <1>0, <2>1, PlacesMove DEF PlacesAreTyped, walk
  <2>3. LoopsStand'
    BY <1>0, <1>v, <2>1 DEF LoopsStand, walk
  <2> QED
    BY <1>0, <2>1, <2>2, <2>3, ResultsKept DEF Typed, walk
<1>4. CASE FileVisit
  <2>1. UNCHANGED <<cur, base, left, here, work, results, answer, heap>> /\ job.arm = "memo" /\ TableIsTyped
    BY <1>0, <1>4 DEF FileVisit, LoopsStand
  <2>2. CASE pc' = "open" /\ turn' = 1 /\ UNCHANGED <<slots, table>>
    <3>1. PlacesAreTyped'
      BY <1>0, <2>1, <2>2, PlacesMove DEF PlacesAreTyped
    <3>2. TableIsTyped'
      BY <2>1, <2>2, TableKept
    <3>3. LoopsStand'
      BY <1>v, <2>1, <2>2, <3>2 DEF LoopsStand
    <3> QED
      BY <1>0, <2>1, <3>1, <3>3, ResultsKept DEF Typed
  <2>3. CASE ~(pc' = "open" /\ turn' = 1 /\ UNCHANGED <<slots, table>>)
    <3> DEFINE q == AnchorAt(turn)
               filed == IF q \in DOMAIN table THEN table[q] ELSE <<>>
               grown == [x \in DOMAIN filed \cup Candidates(turn) |->
                           (IF x \in DOMAIN filed THEN filed[x] ELSE {})
                           \cup (IF x \in Candidates(turn) THEN BaseCases(turn, x) ELSE {})]
    <3>1. /\ turn \in Visits /\ slots' = AnchorSlots(q)
          /\ table' = [p \in DOMAIN table \cup {q} |-> IF p = q THEN grown ELSE table[p]]
          /\ turn' = turn + 1 /\ pc' = pc /\ pc = "gather"
      <4>1. ~(Expired \/ turn > Len(job.visits)) /\ pc = "gather"
        BY <1>4, <2>3 DEF FileVisit
      <4>2. turn \in Visits
        BY <1>0, <4>1, JobIs DEF PlacesAreTyped
      <4>3. slots' = AnchorSlots(q) /\ turn' = turn + 1 /\ pc' = pc
        BY <1>4, <4>1 DEF FileVisit, NextTurn
      <4>4. table' = [p \in DOMAIN table \cup {q} |-> IF p = q THEN grown ELSE table[p]]
        BY <1>4, <4>1, Zenon DEF FileVisit
      <4> QED
        BY <4>1, <4>2, <4>3, <4>4
    <3>2. q \in Queries
      BY <3>1, JobIs
    <3>3. \A x \in DOMAIN filed : \A c \in filed[x] : IsCase(c)
      BY <2>1 DEF TableIsTyped
    <3>4. \A x \in Candidates(turn) : \A c \in BaseCases(turn, x) : IsCase(c)
      BY <3>1 DEF IsCase
    <3> HIDE DEF q, filed
    <3>5. \A x \in DOMAIN grown : \A c \in grown[x] : IsCase(c)
      BY <3>3, <3>4
    <3> HIDE DEF grown
    <3>6. \A p \in DOMAIN table' : \A x \in DOMAIN table'[p] : \A c \in table'[p][x] : IsCase(c)
      BY <2>1, <3>1, <3>5 DEF TableIsTyped
    <3>7. slots' \in Seq(Queries) /\ Range(slots') \subseteq Range(slots) \cup {q}
      <4>1. slots \in Seq(Queries)
        BY <1>0 DEF PlacesAreTyped
      <4>2. Append(slots, q) \in Seq(Queries) /\ Range(Append(slots, q)) \subseteq Range(slots) \cup {q}
        BY <4>1, <3>2 DEF Range
      <4> QED
        BY <3>1, <4>1, <4>2 DEF AnchorSlots
    <3>8. TableIsTyped'
      BY <1>s, <2>1, <3>1, <3>6, <3>7 DEF TableIsTyped
    <3>9. PlacesAreTyped'
      BY <1>0, <2>1, <3>1, <3>7, PlacesMove DEF PlacesAreTyped
    <3>10. LoopsStand'
      BY <1>v, <2>1, <3>1, <3>8 DEF LoopsStand
    <3> QED
      BY <1>0, <2>1, <3>9, <3>10, ResultsKept DEF Typed
  <2> QED
    BY <2>2, <2>3
<1>5. CASE OpenTable
  <2>1. CASE StartSelect
    BY <2>1, SelectionIsTyped
  <2>2. CASE ~StartSelect
    <3>1. turn \in DOMAIN slots /\ Slot \in Queries
      BY <1>0, <1>5, <2>2 DEF OpenTable, PlacesAreTyped, Slot
    <3>2. /\ cur' \in Queries \cup {NoQuery} /\ base' \in Queries \cup {NoQuery}
      BY <1>0, <1>5, <2>2, <3>1, RetargetIsTyped DEF OpenTable
    <3>3. left' \subseteq Neighbour
      BY <1>0, <1>5, <2>2, RankingIsTyped DEF OpenTable, PlacesAreTyped
    <3>4. /\ turn' \in {turn, turn + 1} /\ slots' = slots /\ here' = here /\ results' = results /\ table' = table
          /\ pc' \in {"walk", "open"} /\ (pc' = "walk" => turn' = turn) /\ job.arm = "memo" /\ TableIsTyped
      BY <1>0, <1>5, <2>2 DEF OpenTable, NextTurn, LoopsStand
    <3>5. PlacesAreTyped'
      BY <1>0, <3>2, <3>3, <3>4, PlacesMove DEF PlacesAreTyped
    <3>6. TableIsTyped'
      BY <3>4, TableKept
    <3>7. LoopsStand'
      BY <1>v, <3>1, <3>4, <3>6 DEF LoopsStand
    <3> QED
      BY <1>0, <3>4, <3>5, <3>7, ResultsKept DEF Typed
  <2> QED
    BY <2>1, <2>2
<1>6. CASE PopTable \/ RestTable
  <2>1. /\ turn \in DOMAIN slots /\ Slot \in DOMAIN table /\ TableIsTyped /\ job.arm = "memo"
    BY <1>0, <1>6 DEF PopTable, RestTable, LoopsStand, TableIsTyped, Range, Slot
  <2>2. /\ turn' \in {turn, turn + 1} /\ slots' = slots /\ cur' = cur /\ base' = base
        /\ left' \subseteq left /\ here' \in left \cup {here} /\ results' = results
        /\ pc' \in {"walk", "open", "descend"} /\ (pc' # "open" => turn' = turn)
    BY <1>6 DEF PopTable, RestTable, CloseTable, NextTurn, PassBy
  <2>3. /\ \/ table' = table
           \/ table' = [table EXCEPT ![Slot] = <<>>]
           \/ \E x : table' = [table EXCEPT ![Slot] = Without(table[Slot], x)]
        /\ (pc' = "descend" => \E x \in DOMAIN table[Slot] : work' = table[Slot][x])
    BY <1>6, <2>1 DEF PopTable, RestTable, CloseTable, PassBy
  <2>4. PlacesAreTyped'
    BY <1>0, <2>2, PlacesMove DEF PlacesAreTyped
  <2>5. pc' = "descend" => \A c \in work' : IsCase(c)
    BY <2>1, <2>3 DEF TableIsTyped
  <2>6. /\ DOMAIN table' = DOMAIN table
        /\ \A q \in DOMAIN table : \A x \in DOMAIN table'[q] : x \in DOMAIN table[q] /\ table'[q][x] = table[q][x]
    <3>1. CASE table' = table
      BY <3>1
    <3>2. CASE table' = [table EXCEPT ![Slot] = <<>>]
      BY <3>2
    <3>3. CASE \E x : table' = [table EXCEPT ![Slot] = Without(table[Slot], x)]
      <4>1. PICK x : table' = [table EXCEPT ![Slot] = Without(table[Slot], x)]
        BY <3>3
      <4>2. DOMAIN Without(table[Slot], x) \subseteq DOMAIN table[Slot]
            /\ \A y \in DOMAIN Without(table[Slot], x) : Without(table[Slot], x)[y] = table[Slot][y]
        BY DEF Without
      <4> QED
        BY <2>1, <4>1, <4>2
    <3> QED
      BY <2>3, <3>1, <3>2, <3>3
  <2>7. TableIsTyped'
    BY <1>s, <2>1, <2>2, <2>6 DEF TableIsTyped
  <2>8. LoopsStand'
    BY <1>v, <1>s, <2>1, <2>2, <2>5, <2>7 DEF LoopsStand
  <2> QED
    BY <1>0, <2>2, <2>4, <2>8, ResultsKept DEF Typed
<1> QED
  BY <1>1, <1>2, <1>3, <1>4, <1>5, <1>6

\* One base case of the join, and the selection.
LEMMA SearchIsTyped ==
  ASSUME SettingIsChosen, Typed, UNCHANGED setting, Descend \/ Pick \/ RestSelect
  PROVE  Typed'
<1>0. PlacesAreTyped /\ ResultsAreTyped /\ LoopsStand
  BY DEF Typed
<1>s. \A c : IsCase(c)' <=> IsCase(c)
  BY SettingStays
<1>v. job' = job /\ Visits' = Visits
  BY SettingStays DEF setting
<1>1. CASE Descend
  <2>1. CASE StartSelect
    BY <2>1, SelectionIsTyped
  <2>2. CASE ~StartSelect
    <3>1. /\ turn' = turn /\ slots' = slots /\ table' = table /\ cur' = cur /\ base' = base
          /\ left' = left /\ here' = here /\ pc' = pc /\ pc = "descend" /\ work' \subseteq work
          /\ \/ results' = results
             \/ \E c \in work : results' = results \cup {[row |-> r, dist |-> here.dist, nth |-> Cardinality(results)] : r \in c}
      BY <1>1, <2>2 DEF Descend
    <3>2. PlacesAreTyped'
      BY <1>0, <3>1, PlacesMove DEF PlacesAreTyped
    <3>3. ResultsAreTyped'
      <4>1. CASE results' = results
        BY <1>0, <4>1, ResultsKept
      <4>2. ASSUME NEW c \in work,
                   results' = results \cup {[row |-> r, dist |-> here.dist, nth |-> Cardinality(results)] : r \in c}
            PROVE  ResultsAreTyped'
        <5>1. IsCase(c)
          BY <1>0, <3>1 DEF LoopsStand
        <5> QED
          BY <1>0, <4>2, <5>1, ResultsStayTyped
      <4> QED
        BY <3>1, <4>1, <4>2
    <3>4. TableIsTyped => TableIsTyped'
      BY <3>1, TableKept
    <3>5. LoopsStand'
      BY <1>0, <1>s, <1>v, <3>1, <3>4 DEF LoopsStand
    <3> QED
      BY <3>2, <3>3, <3>5 DEF Typed
  <2> QED
    BY <2>1, <2>2
<1>2. CASE Pick
  BY <1>2, TurnIsTyped DEF Pick
<1>3. CASE RestSelect
  BY <1>3, TurnIsTyped DEF RestSelect, Drain, NextTurn
<1> QED
  BY <1>1, <1>2, <1>3

\* An execution starts with everything typed.
\* The state an execution starts in.
Started ==
  /\ pc = Entrance /\ turn = 1 /\ slots = FirstSlots /\ table = FirstTable
  /\ cur = FirstAnchor /\ base = FirstAnchor /\ left = {} /\ here = Nowhere
  /\ work = {} /\ results = {} /\ answer = <<>> /\ offered = {}
\* An execution starts with everything typed.
LEMMA StartIsTyped == SettingIsChosen /\ Started => Typed
<1> SUFFICES ASSUME SettingIsChosen, Started PROVE Typed
  OBVIOUS
<1> USE DEF Started
<1>1. FirstSlots \in Seq(Queries)
  <2>1. CASE job.arm = "memo" /\ ~Correlated
    <3>1. PICK q : q = Fixed /\ q \in Queries
      BY <2>1 DEF Queries
    <3>2. <<q>> \in Seq(Queries)
      BY <3>1
    <3> QED
      BY <2>1, <3>1, <3>2 DEF FirstSlots
  <2>2. CASE ~(job.arm = "memo" /\ ~Correlated)
    BY <2>2 DEF FirstSlots
  <2> QED
    BY <2>1, <2>2
<1>2. Nowhere \in Neighbour
  BY DEF Nowhere, Neighbour
<1>3. PlacesAreTyped
  BY <1>1, <1>2, JobIs DEF PlacesAreTyped, Entrance
<1>4. ResultsAreTyped
  BY FS_EmptySet DEF ResultsAreTyped, ResultsAreNumbered
<1>5. TableIsTyped
  BY DEF TableIsTyped, FirstTable
<1>6. LoopsStand
  BY <1>5 DEF LoopsStand, Entrance
<1> QED
  BY <1>3, <1>4, <1>6 DEF Typed

\* So does an execution of an armed query that is run again.
LEMMA AgainStarts ==
  ASSUME RunAgain
  PROVE  Started'
BY DEF RunAgain, Started, setting, Entrance, FirstSlots, FirstTable, FirstAnchor, Correlated, Nowhere, Emptied

\* The types, and what they rest on, hold in every state.
LEMMA TypeInvHolds == Spec => [](TypeInv /\ VerdictInv /\ runs \in 1..MaxRuns)
<1> DEFINE Good == TypeInv /\ VerdictInv /\ runs \in 1..MaxRuns
<1>1. Init => Good
  <2> SUFFICES ASSUME Init PROVE Good
    OBVIOUS
  <2>1. SettingIsChosen
    BY DEF Init, SettingIsChosen
  <2>2. Typed
    BY <2>1, StartIsTyped DEF Init, Started
  <2>3. BudgetIsTyped /\ runs \in 1..MaxRuns
    <3>1. asked \in 0..Stride /\ runs \in 1..MaxRuns
      BY NearestAssumption DEF Init
    <3> QED
      BY <3>1 DEF Init, BudgetIsTyped
  <2>4. VerdictInv
    BY DEF Init, VerdictInv, VerdictIsDue
  <2> QED
    BY <2>1, <2>2, <2>3, <2>4, InitIsSound DEF TypeInv
<1>2. Good /\ [Next]_vars => Good'
  <2> SUFFICES ASSUME Good, [Next]_vars PROVE Good'
    OBVIOUS
  <2>1. Inv' /\ VerdictInv'
    BY NextIsSound, VerdictSteps DEF TypeInv
  <2>2. SettingIsChosen'
    BY DEF TypeInv, SettingIsChosen, Next, Step, Late, RunAgain, vars, setting
  <2>3. CASE Step
    <3>1. UNCHANGED setting /\ runs' = runs
      BY <2>3 DEF Step, clock
    <3>2. BudgetIsTyped'
      BY <2>3, StepPolls, BudgetStaysTyped DEF TypeInv, VerdictInv
    <3>3. Typed'
      BY <2>3, <3>1, RanksIsTyped, JoinIsTyped, SearchIsTyped DEF Step, TypeInv
    <3> QED
      BY <2>1, <2>2, <3>1, <3>2, <3>3 DEF TypeInv
  <2>4. CASE Late \/ UNCHANGED vars
    <3>1. UNCHANGED <<setting, pc, walk, heap, budget, runs>>
      BY <2>4 DEF Late, vars, clock
    <3>2. Typed'
      <4>1. PlacesAreTyped'
        BY <3>1, PlacesMove DEF TypeInv, Typed, PlacesAreTyped, walk
      <4>2. ResultsAreTyped'
        BY <3>1, ResultsKept DEF TypeInv, Typed, walk
      <4>3. TableIsTyped => TableIsTyped'
        BY <3>1, TableKept DEF walk
      <4>4. LoopsStand'
        BY <3>1, <4>3, SettingStays DEF TypeInv, Typed, LoopsStand, walk, setting
      <4> QED
        BY <4>1, <4>2, <4>4 DEF Typed
    <3> QED
      BY <2>1, <2>2, <3>1, <3>2 DEF TypeInv, BudgetIsTyped, budget
  <2>5. CASE RunAgain
    <3>1. runs' \in 1..MaxRuns
      BY <2>5, NearestAssumption DEF RunAgain
    <3>2. BudgetIsTyped'
      <4>1. asked' \in 0..Stride
        BY <2>5, NearestAssumption DEF RunAgain, Rearm
      <4> QED
        BY <2>5, <4>1 DEF RunAgain, Rearm, BudgetIsTyped
    <3>3. Typed'
      <4>1. Started'
        BY <2>5, AgainStarts
      <4> QED
        BY <2>2, <4>1, StartIsTyped, PTL
    <3> QED
      BY <2>1, <2>2, <3>1, <3>2, <3>3 DEF TypeInv
  <2> QED
    BY <2>3, <2>4, <2>5 DEF Next
<1> QED
  BY <1>1, <1>2, PTL DEF Spec

(* Whatever the query, the corpus, the arm and the budget, the search keeps *)
(* its types: no loop looks at a visit, a slot or a query that is not there,*)
(* and a cut-short execution leaves nothing mistyped behind.                *)
THEOREM TypeCorrect == Spec => []TypeOK
<1>1. TypeInv /\ VerdictInv /\ runs \in 1..MaxRuns => TypeOK
  <2> SUFFICES ASSUME TypeInv, VerdictInv, runs \in 1..MaxRuns PROVE TypeOK
    OBVIOUS
  <2>1. PlacesAreTyped /\ ResultsAreTyped /\ BudgetIsTyped
    BY DEF TypeInv, Typed
  <2>2. \A e \in held : e.dist \in Int /\ e.seq \in 1..seq
    BY DEF TypeInv, Inv, HeapInv, HeapIsCounted, ThresholdIsSound
  <2>3. seq \in Nat
    BY DEF TypeInv, Inv, HeapInv, HeapIsCounted
  <2>4. \A r \in results : r.row \in AllRows /\ r.dist \in Int
    BY <2>1 DEF ResultsAreTyped, TypeInv, Inv, WalkCarriesDistances
  <2> QED
    BY <2>1, <2>2, <2>3, <2>4 DEF TypeOK, PlacesAreTyped, BudgetIsTyped, VerdictInv
<1> QED
  BY <1>1, TypeInvHolds, PTL

(***************************************************************************)
(* The walk.                                                               *)
(***************************************************************************)
IsRanked(q, x) == \E i \in DOMAIN ranking[q] : ranking[q][i].id = x
Dist(q, x) == CHOOSE d \in {ranking[q][i].dist : i \in {n \in DOMAIN ranking[q] : ranking[q][n].id = x}} : TRUE
InOrder(q, entries) ==
  /\ \A e \in entries : IsRanked(q, e.id) /\ e.dist = Dist(q, e.id)
  /\ \A e, f \in entries : /\ e.id = f.id => e = f
                           /\ e.rank = f.rank => e = f
                           /\ e.rank < f.rank => e.dist <= f.dist
Ahead(q, e, entries) ==
  /\ IsRanked(q, e.id) /\ e.dist = Dist(q, e.id)
  /\ \A f \in entries : f.id # e.id /\ e.dist <= f.dist
IsAhead(x) == \E e \in left : e.id = x
Walking(q) ==
  IF HasVector(q) THEN InOrder(q, left) /\ (pc \in {"offer", "descend"} => Ahead(q, here, left)) ELSE left = {}

(***************************************************************************)
(* The sink.                                                               *)
(***************************************************************************)
RowsWith(q, x) == {r \in AllRows : QueryOf(r) = q /\ r.id = x}
Fits(q, id, dist, rows) ==
  /\ rows # {} /\ rows \subseteq RowsOf(q) /\ (\A r \in rows : r.id = id)
  /\ ~Distinct => \E r \in rows : rows = {r}
  /\ dist = Dist(q, id)
Key(id, rows) == IF Distinct THEN id ELSE rows
EntriesFit(q) ==
  /\ \A e \in offered : Fits(q, e.id, e.dist, e.payload)
  /\ \A e, f \in offered : Key(e.id, e.payload) = Key(f.id, f.payload) => e = f
WorkFits(q) ==
  /\ \A o \in work : Fits(q, o.id, o.dist, o.rows)
  /\ \A o \in work : \A e \in offered : Key(o.id, o.rows) # Key(e.id, e.payload)
  /\ \A o, p \in work : Key(o.id, o.rows) = Key(p.id, p.rows) => o = p
SinkFits(q) == EntriesFit(q) /\ (pc = "offer" => WorkFits(q))
Came(rows) == \E e \in offered : e.payload = rows
Comes(rows) == pc = "offer" /\ \E o \in work : o.rows = rows
SinkWalks(q) ==
  /\ \A e \in offered : ~IsAhead(e.id)
  /\ pc = "offer" => \A o \in work : ~IsAhead(o.id)
  /\ \A u \in UnitsOf(q) : Came(u) \/ Comes(u) \/ \E r \in u : IsAhead(r.id)
Sink(q) == Walking(q) /\ SinkFits(q) /\ SinkWalks(q)

(***************************************************************************)
(* The answer.                                                             *)
(***************************************************************************)
Answers == [query : Queries, dist : Int, rows : SUBSET AllRows]
AnswersUpTo(n) ==
  /\ answer \in Seq(Answers)
  /\ \A i \in DOMAIN answer : HasVector(answer[i].query) /\ \E j \in DOMAIN slots : j < n /\ answer[i].query = slots[j]
  /\ \A j \in DOMAIN slots : j < n /\ HasVector(slots[j]) => IsNearest(slots[j])

(***************************************************************************)
(* The arms that rank a pattern.                                           *)
(***************************************************************************)
Full(q) == [x \in {r.id : r \in {s \in AllRows : QueryOf(s) = q}} |-> RowsWith(q, x)]
BucketsStand ==
  /\ OneToOne(slots) /\ Range(slots) = {QueryOf(r) : r \in AllRows} /\ DOMAIN table = Range(slots)
  /\ \A i \in DOMAIN slots : i > turn \/ (i = turn /\ pc = "open") => table[slots[i]] = Full(slots[i])
BucketWalks ==
  /\ turn \in DOMAIN slots /\ HasVector(Slot) /\ Sink(Slot)
  /\ \A x \in DOMAIN table[Slot] : table[Slot][x] = RowsWith(Slot, x) /\ RowsWith(Slot, x) # {}
  /\ \A e \in left : RowsWith(Slot, e.id) # {} => e.id \in DOMAIN table[Slot]
RanksInv ==
  /\ pc \in {"gather", "open", "walk", "offer", "done"}
  /\ results = {}
  /\ pc = "gather" => answer = <<>>
  /\ pc # "gather" => BucketsStand /\ AnswersUpTo(turn)
  /\ pc \in {"walk", "offer"} => BucketWalks
  /\ pc = "done" => turn > Len(slots)
PreInv ==
  /\ pc \in {"gather", "walk", "offer", "done"}
  /\ results = {}
  /\ pc # "done" => answer = <<>>
  /\ pc = "gather" => offered = {}
  /\ pc \in {"walk", "offer"} /\ HasVector(Fixed) => Sink(Fixed)
  /\ pc # "gather" /\ ~HasVector(Fixed) => left = {} /\ offered = {} /\ held = {} /\ pc # "offer" /\ answer = <<>>
  /\ pc = "done" => (\A i \in DOMAIN answer : answer[i].query = Fixed) /\ (HasVector(Fixed) => IsNearest(Fixed))

(***************************************************************************)
(* The join.                                                               *)
(***************************************************************************)
RKey(r) == IF Distinct THEN r.row.id ELSE {r.row}
Found(row) == \E r \in results : r.row = row
ResultsFit ==
  /\ \A r \in results : /\ HasVector(QueryOf(r.row)) /\ r.row \in RowsOf(QueryOf(r.row))
                        /\ r.dist = Dist(QueryOf(r.row), r.row.id)
  /\ \A r, s \in results : r.row = s.row => r = s
Stands(w) ==
  /\ \A e \in offered : /\ w[e] \in results /\ w[e].dist = e.dist /\ QueryOf(w[e].row) = cur
                        /\ Distinct => w[e].row.id = e.id
  /\ \A e, f \in offered : RKey(w[e]) = RKey(w[f]) => e = f
HeapStands == HasVector(cur) => \E w \in [offered -> results] : Stands(w)
Beaten(q, d) ==
  \E K \in SUBSET {RKey(r) : r \in ResultsOf(q)} :
    Cardinality(K) = job.k /\ \A x \in K : \E r \in ResultsOf(q) : RKey(r) = x /\ r.dist < d
Untouched(q, x) == \A r \in ResultsOf(q) : r.row.id # x
IsCovered(v, row) ==
  HasVector(AnchorAt(v)) /\ row \in RowsOf(AnchorAt(v)) => Found(row) \/ Beaten(AnchorAt(v), Dist(AnchorAt(v), row.id))
Pending(row) == pc = "descend" /\ \E c \in work : row \in c
JoinStands == answer = <<>> /\ ResultsFit /\ HeapStands
WorkIsNew ==
  /\ \A c \in work : \A r \in results : r.row \notin c
  /\ \A c, d \in work : c # d => c \cap d = {}
VisitStands ==
  /\ \A v \in Visits : v < turn => \A row \in RowsAt(v) : IsCovered(v, row)
  /\ HasVector(cur) => base = cur
VisitWaits ==
  /\ turn = 1 => cur = FirstAnchor /\ base = cur
  /\ turn > 1 => turn - 1 \in Visits /\ cur = AnchorAt(turn - 1)
  /\ \A r \in results : r.row.visit < turn
VisitWalks ==
  /\ turn \in Visits /\ cur = AnchorAt(turn) /\ Walking(cur)
  /\ \A r \in results : r.row.visit <= turn /\ (r.row.visit = turn => ~IsAhead(r.row.id))
  /\ HasVector(cur) => \A row \in RowsAt(turn) : row \in RowsOf(cur) => Found(row) \/ Pending(row) \/ IsAhead(row.id)
VisitDescends ==
  /\ HasVector(cur) /\ WorkIsNew
  /\ \A c \in work : c \subseteq RowsAt(turn) /\ \A row \in c : row.id = here.id
InterleaveInv ==
  /\ pc \in {"visit", "walk", "descend", "pick", "offer", "done"}
  /\ pc \in {"visit", "walk", "descend"} => JoinStands /\ VisitStands
  /\ pc = "visit" => VisitWaits
  /\ pc \in {"walk", "descend"} => VisitWalks
  /\ pc = "descend" => VisitDescends

RowsAbove(q, n) == UNION {RowsAt(v) : v \in {u \in Visits : u < n /\ AnchorAt(u) = q}}
Anchors(n) == {AnchorAt(v) : v \in {u \in Visits : u < n}} \cup Range(FirstSlots)
Holds(t, q, n) ==
  /\ \A x \in DOMAIN t : \A c \in t[x] : c \subseteq RowsWith(q, x)
  /\ \A x \in DOMAIN t : \A c, d \in t[x] : c # d => c \cap d = {}
  /\ \A row \in RowsAbove(q, n) : row.id \in DOMAIN t /\ \E c \in t[row.id] : row \in c
  /\ \A x \in DOMAIN t : \A c \in t[x] : \A row \in c : row.visit < n
IsClosed(q, row) ==
  Found(row) \/ (Beaten(q, Dist(q, row.id) + 1) /\ Untouched(q, row.id))
AfterLast == Len(job.visits) + 1
TablesFill ==
  /\ results = {} /\ offered = {} /\ answer = <<>> /\ cur = FirstAnchor /\ base = cur
  /\ turn <= AfterLast
  /\ OneToOne(slots) /\ Range(slots) = Anchors(turn) /\ DOMAIN table = Anchors(turn)
  /\ ~Correlated => slots = <<Fixed>>
  /\ \A q \in Anchors(turn) : Holds(table[q], q, turn)
TablesStand ==
  /\ OneToOne(slots) /\ Range(slots) = Anchors(AfterLast) /\ DOMAIN table = Range(slots)
  /\ \A i \in DOMAIN slots : i > turn \/ (i = turn /\ pc = "open") =>
       /\ Holds(table[slots[i]], slots[i], AfterLast)
       /\ ResultsOf(slots[i]) = {}
       /\ slots[i] = cur => ~Correlated
  /\ ~Correlated => cur = Fixed /\ base = Fixed /\ slots = <<Fixed>>
  /\ ~Correlated /\ turn = 1 /\ pc = "open" => offered = {}
  /\ \A j \in DOMAIN slots : j < turn /\ HasVector(slots[j]) => \A row \in RowsOf(slots[j]) : IsClosed(slots[j], row)
TableWalks ==
  /\ turn \in DOMAIN slots /\ cur = Slot /\ Walking(Slot)
  /\ \A e \in offered : (\A l \in left : e.dist <= l.dist) /\ (pc = "descend" => e.dist <= here.dist)
  /\ \A x \in DOMAIN table[Slot] : /\ Untouched(Slot, x)
                                   /\ \A c \in table[Slot][x] : c \subseteq RowsWith(Slot, x)
                                   /\ \A c, d \in table[Slot][x] : c # d => c \cap d = {}
  /\ HasVector(Slot) => \A row \in RowsOf(Slot) :
       \/ Found(row) \/ Pending(row)
       \/ IsAhead(row.id) /\ row.id \in DOMAIN table[Slot] /\ \E c \in table[Slot][row.id] : row \in c
TableDescends ==
  /\ HasVector(Slot) /\ WorkIsNew /\ here.id \notin DOMAIN table[Slot]
  /\ \A c \in work : c \subseteq RowsWith(Slot, here.id)
MemoInv ==
  /\ pc \in {"gather", "open", "walk", "descend", "pick", "offer", "done"}
  /\ pc = "gather" => TablesFill
  /\ pc \in {"open", "walk", "descend"} => JoinStands /\ TablesStand
  /\ pc \in {"walk", "descend"} => TableWalks
  /\ pc = "descend" => TableDescends

(***************************************************************************)
(* The selection.                                                          *)
(***************************************************************************)
IsGathered(q, row) == Beaten(q, Dist(q, row.id)) \/ IsClosed(q, row)
Mates(q, x) == {t.row : t \in {r \in ResultsOf(q) : r.row.id = x}}
SelectStands ==
  /\ ResultsFit
  /\ OneToOne(slots) /\ Range(slots) = {QueryOf(r.row) : r \in results}
  /\ \A q \in Queries : HasVector(q) => \A row \in RowsOf(q) : IsGathered(q, row)
  /\ AnswersUpTo(turn)
IsOffered(r) ==
  \/ \E e \in offered : Key(e.id, e.payload) = RKey(r) /\ e.dist = r.dist
  \/ \E o \in work : Key(o.id, o.rows) = RKey(r) /\ o.dist = r.dist
SelectSinks ==
  /\ turn \in DOMAIN slots /\ EntriesFit(Slot) /\ WorkFits(Slot)
  /\ \A r \in ResultsOf(Slot) : IsOffered(r)
  /\ Distinct => /\ \A e \in offered : e.payload = Mates(Slot, e.id)
                 /\ \A o \in work : o.rows = Mates(Slot, o.id)
SelectInv ==
  /\ pc \in {"pick", "offer", "done"} => SelectStands
  /\ pc = "offer" => SelectSinks
  /\ pc = "done" => turn > Len(slots)

ArmsInv ==
  /\ job.arm \in {"post", "partition"} => RanksInv
  /\ job.arm = "pre" => PreInv
  /\ job.arm = "interleave" => InterleaveInv /\ SelectInv
  /\ job.arm = "memo" => MemoInv /\ SelectInv
NearestInv == ~tripped => ArmsInv

(* What is assumed of the sources, said of the query chosen.                *)
LEMMA ExactHere ==
  ASSUME SettingIsChosen, SourcesAreExact, NEW q, HasVector(q)
  PROVE  /\ q \in DOMAIN ranking /\ q \in DOMAIN stream /\ q \in Nat
         /\ ranking[q] \in Seq([id : Int, dist : Int]) /\ stream[q] \in Seq([id : Int, dist : Int])
         /\ IsRanking(ranking[q]) /\ IsRanking(stream[q])
         /\ Range(ranking[q]) = Range(stream[q])
         /\ job.slack > 0 => \A n \in DOMAIN ranking[q] : ranking[q][n].dist >= 0
<1>1. q \in DOMAIN ranking /\ q \in DOMAIN stream /\ q \in Nat
  BY JobIs DEF HasVector, AreRankings
<1>2. ranking[q] \in Seq([id : Int, dist : Int]) /\ stream[q] \in Seq([id : Int, dist : Int])
  BY <1>1, JobIs DEF AreRankings
<1>3. job \in Jobs /\ q \in DOMAIN Rankings[job.corpus]
  BY <1>1 DEF SettingIsChosen
<1>4. /\ IsRanking(Rankings[job.corpus][q]) /\ IsRanking(Streams[job.corpus][q])
      /\ Range(Rankings[job.corpus][q]) = Range(Streams[job.corpus][q])
      /\ job.slack > 0 => \A n \in DOMAIN Rankings[job.corpus][q] : Rankings[job.corpus][q][n].dist >= 0
  BY <1>3 DEF SourcesAreExact
<1> QED
  BY <1>1, <1>2, <1>4 DEF SettingIsChosen

(* The distance of a neighbour is the one it is ranked at.                  *)
LEMMA DistIs ==
  ASSUME SettingIsChosen, SourcesAreExact, NEW q, HasVector(q), NEW i \in DOMAIN ranking[q]
  PROVE  IsRanked(q, ranking[q][i].id) /\ Dist(q, ranking[q][i].id) = ranking[q][i].dist /\ ranking[q][i].dist \in Int
<1> DEFINE x == ranking[q][i].id
           dists == {ranking[q][n].dist : n \in {m \in DOMAIN ranking[q] : ranking[q][m].id = x}}
<1>1. \A d \in dists : d = ranking[q][i].dist
  BY ExactHere DEF IsRanking
<1>2. ranking[q][i].dist \in dists
  OBVIOUS
<1>3. Dist(q, x) = CHOOSE d \in dists : TRUE
  BY DEF Dist
<1>4. Dist(q, x) = ranking[q][i].dist
  <2> HIDE DEF dists
  <2> QED
    BY <1>1, <1>2, <1>3
<1>5. ranking[q][i] \in [id : Int, dist : Int]
  BY ExactHere, ElementOfList
<1> QED
  BY <1>4, <1>5 DEF IsRanked

\* A distance is an integer.
LEMMA DistType ==
  ASSUME SettingIsChosen, SourcesAreExact, NEW q, HasVector(q), NEW x, IsRanked(q, x)
  PROVE  Dist(q, x) \in Int /\ (job.slack > 0 => Dist(q, x) >= 0)
<1>1. PICK i \in DOMAIN ranking[q] : ranking[q][i].id = x
  BY DEF IsRanked
<1>2. Dist(q, x) = ranking[q][i].dist /\ ranking[q][i].dist \in Int
  BY <1>1, DistIs
<1> QED
  BY <1>2, ExactHere

(* An entry of a source is ranked, at its distance.                         *)
LEMMA EntryIs ==
  ASSUME SettingIsChosen, SourcesAreExact, NEW q, HasVector(q), NEW list \in {ranking[q], stream[q]},
         NEW i \in DOMAIN list
  PROVE  IsRanked(q, list[i].id) /\ list[i].dist = Dist(q, list[i].id)
<1>1. list[i] \in Range(ranking[q])
  BY ExactHere DEF Range
<1>2. PICK n \in DOMAIN ranking[q] : ranking[q][n] = list[i]
  BY <1>1 DEF Range
<1> QED
  BY <1>2, DistIs

(* The entries of a source come in order, and each once.                    *)
LEMMA SourceIsInOrder ==
  ASSUME SettingIsChosen, SourcesAreExact, NEW q, HasVector(q), NEW list \in {ranking[q], stream[q]},
         NEW entries \in SUBSET Ranked(list)
  PROVE  InOrder(q, entries)
<1>1. \A e \in entries : e.rank \in DOMAIN list /\ e = [rank |-> e.rank, id |-> list[e.rank].id, dist |-> list[e.rank].dist]
  BY DEF Ranked
<1>2. \A e \in entries : IsRanked(q, e.id) /\ e.dist = Dist(q, e.id)
  <2> SUFFICES ASSUME NEW e \in entries PROVE IsRanked(q, e.id) /\ e.dist = Dist(q, e.id)
    OBVIOUS
  <2>1. e.id = list[e.rank].id /\ e.dist = list[e.rank].dist /\ e.rank \in DOMAIN list
    BY <1>1
  <2> QED
    BY <2>1, EntryIs
<1>3. IsRanking(list)
  BY ExactHere
<1>4. ASSUME NEW e \in entries, NEW f \in entries
      PROVE  /\ e.id = f.id => e = f
             /\ e.rank = f.rank => e = f
             /\ e.rank < f.rank => e.dist <= f.dist
  <2>1. /\ e.rank \in DOMAIN list /\ e = [rank |-> e.rank, id |-> list[e.rank].id, dist |-> list[e.rank].dist]
        /\ f.rank \in DOMAIN list /\ f = [rank |-> f.rank, id |-> list[f.rank].id, dist |-> list[f.rank].dist]
    BY <1>1
  <2>2. PICK m \in DOMAIN list, n \in DOMAIN list : m = e.rank /\ n = f.rank
    BY <2>1
  <2>3. (list[m].id = list[n].id => m = n) /\ (m < n => list[m].dist <= list[n].dist)
    BY <1>3 DEF IsRanking
  <2>4. /\ e = [rank |-> m, id |-> list[m].id, dist |-> list[m].dist]
        /\ f = [rank |-> n, id |-> list[n].id, dist |-> list[n].dist]
    BY <2>1, <2>2
  <2>5. e.id = list[m].id /\ f.id = list[n].id /\ e.dist = list[m].dist /\ f.dist = list[n].dist
    BY <2>4
  <2> QED
    BY <2>2, <2>3, <2>4, <2>5
<1> QED
  BY <1>2, <1>4 DEF InOrder

(* Everything ranked is in both sources.                                    *)
LEMMA SourceIsWhole ==
  ASSUME SettingIsChosen, SourcesAreExact, NEW q, HasVector(q), NEW list \in {ranking[q], stream[q]},
         NEW x, IsRanked(q, x)
  PROVE  \E e \in Ranked(list) : e.id = x
<1>1. PICK i \in DOMAIN ranking[q] : ranking[q][i].id = x
  BY DEF IsRanked
<1>a. ranking[q][i] \in Range(ranking[q])
  BY DEF Range
<1>2. ranking[q][i] \in Range(list)
  BY <1>a, ExactHere
<1>3. PICK n \in DOMAIN list : list[n] = ranking[q][i]
  BY <1>2 DEF Range
<1>4. [rank |-> n, id |-> list[n].id, dist |-> list[n].dist] \in Ranked(list)
  BY DEF Ranked
<1> QED
  BY <1>1, <1>3, <1>4

(* What a walk is opened on: the candidates that are ranked, in order; or   *)
(* the stream. Without a vector there is nothing to walk.                   *)
LEMMA WalkOpens ==
  ASSUME SettingIsChosen, SourcesAreExact, NEW q, NEW ids
  PROVE  /\ HasVector(q) => /\ InOrder(q, RankingOf(q, q, ids))
                            /\ \A x \in ids : IsRanked(q, x) => \E e \in RankingOf(q, q, ids) : e.id = x
         /\ ~HasVector(q) => RankingOf(q, q, ids) = {}
         /\ IsLocal => \A p : RankingOf(q, p, ids) = RankingOf(q, q, ids)
<1>1. CASE HasVector(q)
  <2>1. InOrder(q, RankCandidates(q, ids)) /\ InOrder(q, StreamOf(q))
    BY <1>1, SourceIsInOrder DEF RankCandidates, StreamOf
  <2>2. \A x \in ids : IsRanked(q, x) => \E e \in RankCandidates(q, ids) : e.id = x
    BY <1>1, SourceIsWhole DEF RankCandidates
  <2>3. \A x \in ids : IsRanked(q, x) => \E e \in StreamOf(q) : e.id = x
    BY <1>1, SourceIsWhole DEF StreamOf
  <2> QED
    BY <1>1, <2>1, <2>2, <2>3 DEF RankingOf
<1>2. CASE ~HasVector(q)
  BY <1>2 DEF RankingOf, RankCandidates, StreamOf
<1> QED
  BY <1>1, <1>2 DEF RankingOf

(* The nearest unit of a query is as near as its rows.                      *)
LEMMA UnitDist ==
  ASSUME SettingIsChosen, SourcesAreExact, NEW q, HasVector(q), NEW x, IsRanked(q, x),
         NEW unit, unit # {}, \A r \in unit : r.id = x
  PROVE  DistTo(q, unit) = Dist(q, x)
<1> DEFINE dists == {e.dist : e \in {f \in Range(ranking[q]) : \E r \in unit : r.id = f.id}}
<1>1. \A d \in dists : d = Dist(q, x)
  <2> SUFFICES ASSUME NEW e \in Range(ranking[q]), NEW r \in unit, r.id = e.id PROVE e.dist = Dist(q, x)
    OBVIOUS
  <2>1. PICK i \in DOMAIN ranking[q] : e = ranking[q][i]
    BY DEF Range
  <2> QED
    BY <2>1, DistIs
<1>2. Dist(q, x) \in dists
  <2>1. PICK i \in DOMAIN ranking[q] : ranking[q][i].id = x
    BY DEF IsRanked
  <2>2. ranking[q][i] \in Range(ranking[q]) /\ ranking[q][i].dist = Dist(q, x)
    BY <2>1, DistIs DEF Range
  <2>3. \E r \in unit : r.id = ranking[q][i].id
    BY <2>1
  <2> QED
    BY <2>2, <2>3
<1>3. DistTo(q, unit) = CHOOSE d \in dists : TRUE
  BY DEF DistTo
<1> HIDE DEF dists
<1> QED
  BY <1>1, <1>2, <1>3

(* What is said of the query and its sources alone stays with them.         *)
LEMMA RowsStay ==
  ASSUME UNCHANGED setting
  PROVE  /\ job' = job /\ ranking' = ranking /\ stream' = stream
         /\ Distinct' = Distinct /\ Correlated' = Correlated /\ IsLocal' = IsLocal /\ FirstAnchor' = FirstAnchor
         /\ FirstSlots' = FirstSlots /\ AfterLast' = AfterLast /\ Answers' = Answers
         /\ \A q : HasVector(q)' <=> HasVector(q)
         /\ \A q, x : (IsRanked(q, x)' <=> IsRanked(q, x)) /\ Dist(q, x)' = Dist(q, x) /\ RowsWith(q, x)' = RowsWith(q, x)
         /\ \A q : RowsOf(q)' = RowsOf(q) /\ UnitsOf(q)' = UnitsOf(q) /\ Full(q)' = Full(q)
         /\ \A q, unit : DistTo(q, unit)' = DistTo(q, unit)
         /\ \A v : AnchorAt(v)' = AnchorAt(v) /\ RowsAt(v)' = RowsAt(v) /\ Candidates(v)' = Candidates(v)
<1>1. job' = job /\ ranking' = ranking /\ stream' = stream
  BY DEF setting
<1>2. /\ Distinct' = Distinct /\ Correlated' = Correlated /\ IsLocal' = IsLocal /\ FirstAnchor' = FirstAnchor
      /\ FirstSlots' = FirstSlots /\ AfterLast' = AfterLast
  BY <1>1 DEF Distinct, Correlated, IsLocal, FirstAnchor, FirstSlots, AfterLast
<1>3. \A q : HasVector(q)' <=> HasVector(q)
  BY <1>1 DEF HasVector
<1>4. AllRows' = AllRows /\ Queries' = Queries /\ \A r : QueryOf(r)' = QueryOf(r)
  BY SettingStays
<1>5. \A q, x : (IsRanked(q, x)' <=> IsRanked(q, x)) /\ Dist(q, x)' = Dist(q, x)
  BY <1>1 DEF IsRanked, Dist
<1>6. \A q, x : RowsWith(q, x)' = RowsWith(q, x)
  BY <1>4 DEF RowsWith
<1>7. \A q : RowsOf(q)' = RowsOf(q)
  BY <1>1, <1>4 DEF RowsOf
<1>8. \A q : UnitsOf(q)' = UnitsOf(q)
  BY <1>2, <1>7 DEF UnitsOf
<1>9. \A q : Full(q)' = Full(q)
  BY <1>4, <1>6 DEF Full
<1>10. \A q, unit : DistTo(q, unit)' = DistTo(q, unit)
  BY <1>1 DEF DistTo
<1>11. \A v : AnchorAt(v)' = AnchorAt(v) /\ Candidates(v)' = Candidates(v)
  BY <1>1 DEF AnchorAt, Candidates
<1>12. \A v : RowsAt(v)' = RowsAt(v)
  BY <1>1 DEF RowsAt, Candidates, BaseCases, BaseCase
<1>13. Answers' = Answers
  BY <1>4 DEF Answers
<1> QED
  BY <1>1, <1>2, <1>3, <1>5, <1>6, <1>7, <1>8, <1>9, <1>10, <1>11, <1>12, <1>13

\* So does what is said of entries and of what is offered.
LEMMA FitsStay ==
  ASSUME UNCHANGED setting
  PROVE  /\ \A q, entries : InOrder(q, entries)' <=> InOrder(q, entries)
         /\ \A q, e, entries : Ahead(q, e, entries)' <=> Ahead(q, e, entries)
         /\ \A q, id, dist, rows : Fits(q, id, dist, rows)' <=> Fits(q, id, dist, rows)
         /\ \A id, rows : Key(id, rows)' = Key(id, rows)
<1>1. \A q, entries : InOrder(q, entries)' <=> InOrder(q, entries)
  BY RowsStay DEF InOrder
<1>2. \A q, e, entries : Ahead(q, e, entries)' <=> Ahead(q, e, entries)
  BY RowsStay DEF Ahead
<1>3. \A q, id, dist, rows : Fits(q, id, dist, rows)' <=> Fits(q, id, dist, rows)
  BY RowsStay DEF Fits
<1>4. \A id, rows : Key(id, rows)' = Key(id, rows)
  BY RowsStay DEF Key
<1> QED
  BY <1>1, <1>2, <1>3, <1>4

\* A one-to-one image has as many members.
LEMMA InjectiveImage ==
  ASSUME NEW S, IsFiniteSet(S), NEW f, f = [x \in S |-> f[x]], \A x, y \in S : f[x] = f[y] => x = y
  PROVE  IsFiniteSet({f[x] : x \in S}) /\ Cardinality({f[x] : x \in S}) = Cardinality(S)
<1>1. PICK T : T = {f[x] : x \in S}
  OBVIOUS
<1>2. f \in Injection(S, T) /\ f \in Surjection(S, T)
  BY <1>1 DEF Injection, IsInjective, Surjection
<1>3. IsFiniteSet(T)
  BY <1>1, ImageIsFinite
<1> QED
  BY <1>1, <1>2, <1>3, FS_Injection

\* The rows of a pattern are finitely many.
LEMMA RowsAreFinite ==
  ASSUME SettingIsChosen
  PROVE  IsFiniteSet(AllRows)
<1>1. ASSUME NEW v \in Visits PROVE IsFiniteSet(RowsAt(v))
  <2>1. ASSUME NEW x \in Candidates(v) PROVE IsFiniteSet(UNION BaseCases(v, x))
    <3> DEFINE f == [b \in DOMAIN job.visits[v].fan[x] |-> BaseCase(v, x, b)]
    <3>1. job.visits[v].fan[x] \in Seq(Nat \ {0})
      BY JobIs DEF IsJob, Visits, Candidates
    <3>2. IsFiniteSet(DOMAIN job.visits[v].fan[x])
      <4>1. PICK n \in Nat : DOMAIN job.visits[v].fan[x] = 1..n
        BY <3>1
      <4> QED
        BY <4>1, FS_Interval
    <3>3. BaseCases(v, x) = {f[b] : b \in DOMAIN job.visits[v].fan[x]}
      BY DEF BaseCases
    <3>4. f = [b \in DOMAIN job.visits[v].fan[x] |-> f[b]]
      OBVIOUS
    <3> HIDE DEF f
    <3>5. IsFiniteSet(BaseCases(v, x))
      BY <3>2, <3>3, <3>4, ImageIsFinite
    <3>6. \A c \in BaseCases(v, x) : IsFiniteSet(c)
      BY CaseIs DEF IsCase
    <3> QED
      BY <3>5, <3>6, FS_UNION
  <2> DEFINE f == [x \in Candidates(v) |-> UNION BaseCases(v, x)]
  <2>2. IsFiniteSet(Candidates(v))
    BY JobIs DEF IsJob, Visits, Candidates
  <2>3. f = [x \in Candidates(v) |-> f[x]] /\ \A x \in Candidates(v) : IsFiniteSet(f[x])
    BY <2>1
  <2>4. RowsAt(v) = UNION {f[x] : x \in Candidates(v)}
    BY DEF RowsAt
  <2> HIDE DEF f
  <2>5. IsFiniteSet({f[x] : x \in Candidates(v)})
    BY <2>2, <2>3, ImageIsFinite
  <2> QED
    BY <2>3, <2>4, <2>5, FS_UNION
<1> DEFINE f == [v \in Visits |-> RowsAt(v)]
<1>2. IsFiniteSet(Visits)
  <2>1. PICK n \in Nat : Visits = 1..n
    BY JobIs
  <2> QED
    BY <2>1, FS_Interval
<1>3. f = [v \in Visits |-> f[v]] /\ \A v \in Visits : IsFiniteSet(f[v])
  BY <1>1
<1>4. AllRows = UNION {f[v] : v \in Visits}
  BY DEF AllRows
<1> HIDE DEF f
<1>5. IsFiniteSet({f[v] : v \in Visits})
  BY <1>2, <1>3, ImageIsFinite
<1> QED
  BY <1>3, <1>4, <1>5, FS_UNION

\* So are the units of a query.
LEMMA UnitsAreFinite ==
  ASSUME SettingIsChosen, NEW q
  PROVE  IsFiniteSet(UnitsOf(q))
<1>1. IsFiniteSet(RowsOf(q))
  <2>1. RowsOf(q) \in SUBSET AllRows
    BY DEF RowsOf
  <2> QED
    BY <2>1, RowsAreFinite, FS_Subset
<1> DEFINE of(r) == IF Distinct THEN {s \in RowsOf(q) : s.id = r.id} ELSE {r}
           f == [r \in RowsOf(q) |-> of(r)]
<1>2. UnitsOf(q) = {f[r] : r \in RowsOf(q)}
  BY DEF UnitsOf
<1>3. f = [r \in RowsOf(q) |-> f[r]]
  OBVIOUS
<1> HIDE DEF f
<1> QED
  BY <1>1, <1>2, <1>3, ImageIsFinite

\* A unit, by any row of it.
LEMMA UnitIs ==
  ASSUME NEW q, NEW u \in UnitsOf(q)
  PROVE  /\ \E r \in RowsOf(q) : u = IF Distinct THEN {s \in RowsOf(q) : s.id = r.id} ELSE {r}
         /\ u \subseteq RowsOf(q) /\ u # {}
         /\ \A r \in u : u = IF Distinct THEN {s \in RowsOf(q) : s.id = r.id} ELSE {r}
BY DEF UnitsOf

\* Every row that can be ranked is in a unit.
LEMMA UnitOf ==
  ASSUME NEW q, NEW r \in RowsOf(q)
  PROVE  (IF Distinct THEN {s \in RowsOf(q) : s.id = r.id} ELSE {r}) \in UnitsOf(q)
BY DEF UnitsOf

\* The rows that can be ranked are those whose node is.
LEMMA RowsOfIs ==
  ASSUME NEW q
  PROVE  /\ \A r : r \in RowsOf(q) <=> r \in AllRows /\ QueryOf(r) = q /\ IsRanked(q, r.id)
         /\ \A x : IsRanked(q, x) => RowsWith(q, x) = {r \in RowsOf(q) : r.id = x}
         /\ \A x : ~IsRanked(q, x) => \A r \in RowsOf(q) : r.id # x
BY DEF RowsOf, IsRanked, RowsWith

(***************************************************************************)
(* The heap, listed.                                                       *)
(***************************************************************************)
\* The entries are drained in the order of their distances.
LEMMA DrainSortedIs ==
  ASSUME HeapInv
  PROVE  /\ DrainSorted(held) \in Seq(held) /\ Len(DrainSorted(held)) = Cardinality(held)
         /\ OneToOne(DrainSorted(held)) /\ Range(DrainSorted(held)) = held
         /\ \A m, n \in DOMAIN DrainSorted(held) : m < n => DrainSorted(held)[m].dist <= DrainSorted(held)[n].dist
<1> DEFINE list == DrainSorted(held)
           above(e) == {f \in held : Farther(e, f)}
<1>1. IsFiniteSet(held) /\ \A e \in held : e.dist \in Int /\ e.seq \in Int
  BY DEF HeapInv, HeapIsCounted, ThresholdIsSound
<1>2. \A e, f \in held : e.seq = f.seq => e = f
  BY DEF HeapInv, HeapIsCounted, ThresholdIsSound
<1>3. PICK order : order = {p \in held \X held : ~Farther(p[1], p[2])}
  OBVIOUS
<1>4. \A e, f \in held : <<e, f>> \in order <=> ~Farther(e, f)
  BY <1>3
<1>5. IsLinear(held, order)
  <2>1. \A e \in held : <<e, e>> \in order
    BY <1>1, <1>4 DEF Farther
  <2>2. \A e, f \in held : <<e, f>> \in order \/ <<f, e>> \in order
    <3> SUFFICES ASSUME NEW e \in held, NEW f \in held PROVE ~Farther(e, f) \/ ~Farther(f, e)
      BY <1>4
    <3>1. PICK a \in Int, b \in Int, c \in Int, d \in Int : a = e.dist /\ b = f.dist /\ c = e.seq /\ d = f.seq
      BY <1>1
    <3> QED
      BY <3>1 DEF Farther
  <2>3. \A e, f \in held : <<e, f>> \in order /\ <<f, e>> \in order => e = f
    BY <1>1, <1>2, <1>4 DEF Farther
  <2>4. \A e, f, g \in held : <<e, f>> \in order /\ <<f, g>> \in order => <<e, g>> \in order
    BY <1>1, <1>4 DEF Farther
  <2> QED
    BY <2>1, <2>2, <2>3, <2>4 DEF IsLinear
<1>6. ASSUME NEW e \in held PROVE Cardinality(UpTo(held, order, e)) = Cardinality(above(e)) + 1
  <2>1. UpTo(held, order, e) = above(e) \cup {e}
    BY <1>1, <1>2, <1>4 DEF UpTo, Farther
  <2>2. e \notin above(e) /\ above(e) \in SUBSET held
    BY <1>1 DEF Farther
  <2> HIDE DEF above
  <2>3. IsFiniteSet(above(e))
    BY <1>1, <2>2, FS_Subset
  <2> QED
    BY <2>1, <2>2, <2>3, FS_AddElement
<1>7. PICK size \in Nat : size = Cardinality(held)
  BY <1>1, FS_CardinalityType
<1>8. list = [i \in 1..size |-> CHOOSE e \in held : Cardinality(above(e)) + 1 = i]
  BY <1>7 DEF DrainSorted
<1> HIDE DEF above, list
<1>9. \A i \in 1..size : \E e \in held : Cardinality(above(e)) + 1 = i
  BY <1>1, <1>5, <1>6, <1>7, PlacesAreTaken DEF ArePlaces
<1>10. \A i \in 1..size : list[i] \in held /\ Cardinality(above(list[i])) + 1 = i
  BY <1>8, <1>9
<1>11. \A i \in 1..size : list[i] \in held /\ Cardinality(UpTo(held, order, list[i])) = i
  BY <1>6, <1>10
<1>12. list = [i \in 1..size |-> list[i]]
  BY <1>8
<1>13. /\ list \in Seq(held) /\ Len(list) = size /\ OneToOne(list) /\ Range(list) = held
       /\ \A m, n \in DOMAIN list : m < n => <<list[m], list[n]>> \in order
  <2>1. /\ list = [i \in 1..Cardinality(held) |-> list[i]]
        /\ \A i \in 1..Cardinality(held) : list[i] \in held /\ Cardinality(UpTo(held, order, list[i])) = i
    BY <1>7, <1>11, <1>12
  <2>2. /\ list \in Seq(held) /\ Len(list) = Cardinality(held) /\ OneToOne(list) /\ Range(list) = held
        /\ \A m, n \in DOMAIN list : m < n => <<list[m], list[n]>> \in order
    BY <1>1, <1>5, <2>1, PlacedSequence
  <2> QED
    BY <1>7, <2>2
<1>14. \A m, n \in DOMAIN list : m < n => list[m].dist <= list[n].dist
  <2> SUFFICES ASSUME NEW m \in DOMAIN list, NEW n \in DOMAIN list, m < n PROVE list[m].dist <= list[n].dist
    OBVIOUS
  <2>1. list[m] \in held /\ list[n] \in held
    BY <1>13 DEF Range
  <2>2. <<list[m], list[n]>> \in order
    BY <1>13
  <2>3. ~Farther(list[m], list[n])
    BY <1>4, <2>1, <2>2
  <2>4. PICK a \in Int, b \in Int : a = list[m].dist /\ b = list[n].dist
    BY <1>1, <2>1
  <2> QED
    BY <2>3, <2>4 DEF Farther
<1> QED
  BY <1>7, <1>13, <1>14 DEF list

(***************************************************************************)
(* From a heap that is ready to the answer.                                *)
(***************************************************************************)
\* What the heap holds is whole units, each once, and no unit it does not hold is nearer.
IsReady(q) ==
  /\ \A e \in held : Fits(q, e.id, e.dist, e.payload) /\ e.payload \in UnitsOf(q)
  /\ \A e, f \in held : Key(e.id, e.payload) = Key(f.id, f.payload) => e = f
  /\ \A u \in UnitsOf(q) :
       \/ \E e \in held : e.payload = u
       \/ Cardinality(held) = job.k /\ \A e \in held : e.dist <= DistTo(q, u)

\* An entry is told by its rows.
LEMMA PayloadTells ==
  ASSUME NEW q, IsReady(q)
  PROVE  \A e, f \in held : e.payload = f.payload => e = f
<1> SUFFICES ASSUME NEW e \in held, NEW f \in held, e.payload = f.payload PROVE e = f
  OBVIOUS
<1>1. PICK r : r \in e.payload
  BY DEF IsReady, Fits
<1>2. r.id = e.id /\ r.id = f.id
  BY <1>1 DEF IsReady, Fits
<1>3. Key(e.id, e.payload) = Key(f.id, f.payload)
  BY <1>2 DEF Key
<1> QED
  BY <1>3 DEF IsReady

\* As many units are held as there are, up to k.
LEMMA ReadyCounts ==
  ASSUME SettingIsChosen, HeapInv, NEW q, IsReady(q)
  PROVE  /\ Cardinality({e.payload : e \in held}) = Cardinality(held)
         /\ Cardinality(held) = Min({job.k, Cardinality(UnitsOf(q))})
<1> DEFINE f == [e \in held |-> e.payload]
<1>1. IsFiniteSet(held) /\ Cardinality(held) <= job.k /\ job.k \in Nat
  BY DEF HeapInv, HeapIsCounted, ThresholdIsSound
<1>2. f = [e \in held |-> f[e]] /\ \A e, g \in held : f[e] = f[g] => e = g
  BY PayloadTells
<1>3. PICK given : given = {e.payload : e \in held}
  OBVIOUS
<1>4. given = {f[e] : e \in held}
  BY <1>3
<1> HIDE DEF f
<1>5. IsFiniteSet(given) /\ Cardinality(given) = Cardinality(held)
  BY <1>1, <1>2, <1>4, InjectiveImage
<1>6. given \in SUBSET UnitsOf(q) /\ IsFiniteSet(UnitsOf(q))
  BY <1>3, UnitsAreFinite DEF IsReady
<1>7. Cardinality(given) <= Cardinality(UnitsOf(q))
  BY <1>6, FS_Subset
<1>8. PICK m \in Nat, n \in Nat, k \in Nat : m = Cardinality(held) /\ n = Cardinality(UnitsOf(q)) /\ k = job.k
  BY <1>1, <1>6, FS_CardinalityType
<1>9. m <= n /\ m <= k
  BY <1>1, <1>5, <1>7, <1>8
<1>10. m = k \/ m = n
  <2>1. CASE \A u \in UnitsOf(q) : u \in given
    <3>1. given = UnitsOf(q)
      BY <1>6, <2>1
    <3> QED
      BY <1>5, <1>8, <3>1
  <2>2. CASE \E u \in UnitsOf(q) : u \notin given
    BY <1>3, <1>8, <2>2 DEF IsReady
  <2> QED
    BY <2>1, <2>2
<1>11. Min({k, n}) = m
  <2>1. Min({k, n}) \in {k, n} /\ Min({k, n}) <= k /\ Min({k, n}) <= n
    BY MinIs
  <2> QED
    BY <1>9, <1>10, <2>1
<1> QED
  BY <1>3, <1>5, <1>8, <1>11

\* A list goes on with another.
GoesOn(a, b, c) ==
  /\ DOMAIN a \subseteq DOMAIN c /\ \A i \in DOMAIN a : c[i] = a[i]
  /\ \A n \in DOMAIN b : c[Len(a) + n] = b[n] /\ Len(a) + n \in DOMAIN c \ DOMAIN a
  /\ \A i \in DOMAIN c \ DOMAIN a : \E n \in DOMAIN b : i = Len(a) + n
\* Two lists make one that goes on with the second.
LEMMA ListsAppend ==
  ASSUME NEW S, NEW a \in Seq(S), NEW b \in Seq(S)
  PROVE  a \o b \in Seq(S) /\ GoesOn(a, b, a \o b)
<1>c. PICK c : c = a \o b
  OBVIOUS
<1>1. PICK m \in Nat, n \in Nat : m = Len(a) /\ n = Len(b)
  OBVIOUS
<1>2. DOMAIN a = 1..m /\ DOMAIN b = 1..n
  BY <1>1
<1>3. c \in Seq(S) /\ Len(c) = m + n
  BY <1>1, <1>c
<1>4. DOMAIN c = 1..(m + n)
  BY <1>3
<1>5. \A i \in 1..m : c[i] = a[i]
  BY <1>1, <1>c
<1>6. \A i \in 1..n : c[m + i] = b[i]
  BY <1>1, <1>c
<1>7. \A i \in 1..n : m + i \in 1..(m + n) /\ m + i \notin 1..m
  OBVIOUS
<1>8. \A i \in 1..(m + n) : i \notin 1..m => \E j \in 1..n : i = m + j
  <2> SUFFICES ASSUME NEW i \in 1..(m + n), i \notin 1..m PROVE \E j \in 1..n : i = m + j
    OBVIOUS
  <2> WITNESS i - m \in 1..n
  <2> QED
    OBVIOUS
<1>9. DOMAIN a \subseteq DOMAIN c /\ \A i \in DOMAIN a : c[i] = a[i]
  BY <1>2, <1>4, <1>5
<1>10. \A i \in DOMAIN b : c[Len(a) + i] = b[i] /\ Len(a) + i \in DOMAIN c \ DOMAIN a
  <2> SUFFICES ASSUME NEW i \in 1..n PROVE c[m + i] = b[i] /\ m + i \in DOMAIN c \ DOMAIN a
    BY <1>1, <1>2
  <2> QED
    BY <1>2, <1>4, <1>6, <1>7
<1>11. \A i \in DOMAIN c \ DOMAIN a : \E j \in DOMAIN b : i = Len(a) + j
  BY <1>1, <1>2, <1>4, <1>8
<1> QED
  BY <1>c, <1>3, <1>9, <1>10, <1>11 DEF GoesOn

\* What is said of the answer to a query in a list of answers.
NearestIn(list, q) ==
  LET at == {i \in DOMAIN list : list[i].query = q}
      given == {list[i].rows : i \in at}
  IN  /\ given \subseteq UnitsOf(q)
      /\ Cardinality(at) = Min({job.k, Cardinality(UnitsOf(q))})
      /\ Cardinality(given) = Cardinality(at)
      /\ \A i \in at :
           /\ list[i].dist = DistTo(q, list[i].rows)
           /\ \A j \in at : i < j => list[i].dist <= list[j].dist
           /\ \A unit \in UnitsOf(q) \ given : DistTo(q, unit) >= list[i].dist

\* The answer of a state, as one list of answers.
LEMMA NearestIsIn ==
  /\ \A q : IsNearest(q) <=> NearestIn(answer, q)
  /\ \A q : IsNearest(q)' <=> NearestIn(answer, q)'
BY DEF IsNearest, NearestIn, AnsweredTo

\* What is nearest in a list of answers depends on the query chosen only.
LEMMA NearestStays ==
  ASSUME UNCHANGED setting
  PROVE  \A list, q : NearestIn(list, q)' <=> NearestIn(list, q)
<1> SUFFICES ASSUME NEW list, NEW q PROVE NearestIn(list, q)' <=> NearestIn(list, q)
  OBVIOUS
<1>1. PICK k, units : k = job.k /\ units = UnitsOf(q)
  OBVIOUS
<1>2. k = job'.k /\ units = UnitsOf(q)' /\ \A unit : DistTo(q, unit)' = DistTo(q, unit)
  BY <1>1, RowsStay
<1> QED
  BY <1>1, <1>2 DEF NearestIn

\* The answer to another query is what it was.
LEMMA OtherAnswersStay ==
  ASSUME NEW a, NEW c, NEW q, NEW p, p # q, NearestIn(a, p),
         DOMAIN a \subseteq DOMAIN c, \A i \in DOMAIN a : c[i] = a[i],
         \A i \in DOMAIN c \ DOMAIN a : c[i].query = q
  PROVE  NearestIn(c, p)
<1>1. PICK at : at = {i \in DOMAIN a : a[i].query = p}
  OBVIOUS
<1>2. at = {i \in DOMAIN c : c[i].query = p}
  BY <1>1
<1>3. \A i \in at : c[i] = a[i]
  BY <1>1
<1>4. PICK given : given = {a[i].rows : i \in at}
  OBVIOUS
<1>5. given = {c[i].rows : i \in at}
  BY <1>3, <1>4
<1>6. /\ given \subseteq UnitsOf(p)
      /\ Cardinality(at) = Min({job.k, Cardinality(UnitsOf(p))})
      /\ Cardinality(given) = Cardinality(at)
      /\ \A i \in at :
           /\ a[i].dist = DistTo(p, a[i].rows)
           /\ \A j \in at : i < j => a[i].dist <= a[j].dist
           /\ \A unit \in UnitsOf(p) \ given : DistTo(p, unit) >= a[i].dist
  BY <1>1, <1>4 DEF NearestIn
<1>7. \A i \in at :
           /\ c[i].dist = DistTo(p, c[i].rows)
           /\ \A j \in at : i < j => c[i].dist <= c[j].dist
           /\ \A unit \in UnitsOf(p) \ given : DistTo(p, unit) >= c[i].dist
  BY <1>3, <1>6
<1> QED
  BY <1>2, <1>5, <1>6, <1>7 DEF NearestIn

\* A heap that is ready answers its query, when nothing did before.
LEMMA ReadyIsNearest ==
  ASSUME SettingIsChosen, HeapInv, SourcesAreExact, NEW q, HasVector(q), IsReady(q),
         NEW a, a \in Seq(Answers), \A i \in DOMAIN a : a[i].query # q, NEW c, c = a \o Drained(q),
         Drained(q) \in Seq(Answers)
  PROVE  NearestIn(c, q)
<1>1. PICK list : list = DrainSorted(held)
  OBVIOUS
<1>2. /\ list \in Seq(held) /\ Len(list) = Cardinality(held)
      /\ OneToOne(list) /\ Range(list) = held
      /\ \A m, n \in DOMAIN list : m < n => list[m].dist <= list[n].dist
  BY <1>1, DrainSortedIs
<1>3. PICK b : b = Drained(q)
  OBVIOUS
<1>4. b = [n \in DOMAIN list |-> [query |-> q, dist |-> list[n].dist, rows |-> list[n].payload]]
  BY <1>1, <1>3 DEF Drained
<1>5. DOMAIN b = DOMAIN list /\ \A n \in DOMAIN list : b[n].query = q /\ b[n].dist = list[n].dist /\ b[n].rows = list[n].payload
  BY <1>4
<1>6. /\ \A i \in DOMAIN a : c[i] = a[i] /\ i \in DOMAIN c
      /\ \A n \in DOMAIN b : c[Len(a) + n] = b[n] /\ Len(a) + n \in DOMAIN c \ DOMAIN a
      /\ \A i \in DOMAIN c \ DOMAIN a : \E n \in DOMAIN b : i = Len(a) + n
  <2>1. b \in Seq(Answers) /\ c = a \o b
    BY <1>3
  <2>2. GoesOn(a, b, c)
    BY <2>1, ListsAppend
  <2> QED
    BY <2>2 DEF GoesOn
<1>7. PICK len \in Nat : len = Len(a)
  OBVIOUS
<1>8. PICK at : at = {i \in DOMAIN c : c[i].query = q}
  OBVIOUS
<1>9. at = {len + n : n \in DOMAIN list}
  BY <1>5, <1>6, <1>7, <1>8
<1>10. \A n \in DOMAIN list : n \in Nat /\ c[len + n].dist = list[n].dist /\ c[len + n].rows = list[n].payload
                              /\ list[n] \in held /\ list[n].dist \in Int
  <2>1. \A n \in DOMAIN list : c[len + n].dist = list[n].dist /\ c[len + n].rows = list[n].payload
    BY <1>5, <1>6, <1>7
  <2>2. \A n \in DOMAIN list : n \in Nat /\ list[n] \in held
    BY <1>2 DEF Range
  <2> QED
    BY <2>1, <2>2 DEF HeapInv, HeapIsCounted, ThresholdIsSound
<1>11. Cardinality(at) = Cardinality(held)
  <2> DEFINE f == [n \in DOMAIN list |-> len + n]
  <2>1. PICK size \in Nat : size = Cardinality(held) /\ DOMAIN list = 1..size
    BY <1>2
  <2>p. PICK places : places = DOMAIN list
    OBVIOUS
  <2>2. IsFiniteSet(places) /\ Cardinality(places) = size
    <3>1. places = 1..size
      BY <2>p, <2>1
    <3> QED
      BY <3>1, FS_Interval
  <2>3. f = [n \in DOMAIN list |-> f[n]] /\ \A m, n \in DOMAIN list : f[m] = f[n] => m = n
    BY <2>1
  <2>4. at = {f[n] : n \in DOMAIN list}
    BY <1>9
  <2> HIDE DEF f
  <2>5. at = {f[n] : n \in places} /\ f = [n \in places |-> f[n]] /\ \A m, n \in places : f[m] = f[n] => m = n
    BY <2>p, <2>3, <2>4
  <2>6. Cardinality(at) = Cardinality(places)
    BY <2>2, <2>5, InjectiveImage
  <2> QED
    BY <2>1, <2>2, <2>6
<1>12. PICK given : given = {e.payload : e \in held}
  OBVIOUS
<1>13. given = {c[i].rows : i \in at}
  <2>1. \A n \in DOMAIN list : c[len + n].rows \in given
    BY <1>10, <1>12
  <2>2. \A i \in at : c[i].rows \in given
    BY <1>9, <2>1
  <2>3. ASSUME NEW e \in held PROVE \E i \in at : c[i].rows = e.payload
    <3>1. PICK n \in DOMAIN list : list[n] = e
      BY <1>2 DEF Range
    <3>2. len + n \in at /\ c[len + n].rows = e.payload
      BY <1>9, <1>10, <3>1
    <3> QED
      BY <3>2
  <2>4. PICK all : all = {c[i].rows : i \in at}
    OBVIOUS
  <2>5. all \subseteq given
    BY <2>2, <2>4
  <2>6. given \subseteq all
    <3> SUFFICES ASSUME NEW e \in held PROVE e.payload \in all
      BY <1>12
    <3>1. PICK i \in at : c[i].rows = e.payload
      BY <2>3
    <3> QED
      BY <2>4, <3>1
  <2> QED
    BY <2>4, <2>5, <2>6
<1>14. Cardinality(given) = Cardinality(held) /\ Cardinality(held) = Min({job.k, Cardinality(UnitsOf(q))})
  BY <1>12, ReadyCounts
<1>15. given \subseteq UnitsOf(q)
  BY <1>12 DEF IsReady
<1>16. \A e \in held : e.dist = DistTo(q, e.payload)
  <2> SUFFICES ASSUME NEW e \in held PROVE e.dist = DistTo(q, e.payload)
    OBVIOUS
  <2>1. Fits(q, e.id, e.dist, e.payload)
    BY DEF IsReady
  <2>2. PICK r : r \in e.payload
    BY <2>1 DEF Fits
  <2>3. IsRanked(q, e.id) /\ (\A s \in e.payload : s.id = e.id) /\ e.dist = Dist(q, e.id)
    BY <2>1, <2>2, RowsOfIs DEF Fits
  <2> QED
    BY <2>2, <2>3, UnitDist
<1>17. \A u \in UnitsOf(q) \ given : \A e \in held : DistTo(q, u) >= e.dist
  <2> SUFFICES ASSUME NEW u \in UnitsOf(q), u \notin given, NEW e \in held PROVE DistTo(q, u) >= e.dist
    OBVIOUS
  <2>1. e.dist <= DistTo(q, u)
    BY <1>12 DEF IsReady
  <2>2. PICK r \in RowsOf(q) : u = IF Distinct THEN {s \in RowsOf(q) : s.id = r.id} ELSE {r}
    BY UnitIs
  <2>3. u # {} /\ \A s \in u : s.id = r.id
    BY <2>2
  <2>4. IsRanked(q, r.id)
    BY RowsOfIs
  <2>5. DistTo(q, u) = Dist(q, r.id) /\ Dist(q, r.id) \in Int
    BY <2>3, <2>4, UnitDist, DistType
  <2>6. e.dist \in Int
    BY DEF HeapInv, HeapIsCounted, ThresholdIsSound
  <2> QED
    BY <2>1, <2>5, <2>6
<1>18. \A i \in at :
           /\ c[i].dist = DistTo(q, c[i].rows)
           /\ \A j \in at : i < j => c[i].dist <= c[j].dist
           /\ \A unit \in UnitsOf(q) \ given : DistTo(q, unit) >= c[i].dist
  <2> SUFFICES ASSUME NEW m \in DOMAIN list
               PROVE  /\ c[len + m].dist = DistTo(q, c[len + m].rows)
                      /\ \A n \in DOMAIN list : len + m < len + n => c[len + m].dist <= c[len + n].dist
                      /\ \A unit \in UnitsOf(q) \ given : DistTo(q, unit) >= c[len + m].dist
    BY <1>9
  <2>1. c[len + m].dist = DistTo(q, c[len + m].rows)
    BY <1>10, <1>16
  <2>2. \A n \in DOMAIN list : len + m < len + n => c[len + m].dist <= c[len + n].dist
    <3> SUFFICES ASSUME NEW n \in DOMAIN list, len + m < len + n PROVE c[len + m].dist <= c[len + n].dist
      OBVIOUS
    <3>1. PICK x \in Nat, y \in Nat : x = m /\ y = n
      BY <1>10
    <3>2. m < n
      BY <3>1
    <3> QED
      BY <3>2, <1>2, <1>10
  <2>3. \A unit \in UnitsOf(q) \ given : DistTo(q, unit) >= c[len + m].dist
    BY <1>10, <1>17
  <2> QED
    BY <2>1, <2>2, <2>3
<1> QED
  BY <1>8, <1>11, <1>13, <1>14, <1>15, <1>18 DEF NearestIn

\* What is drained are answers to its query.
LEMMA DrainedIs ==
  ASSUME HeapInv, NEW q \in Queries, \A e \in held : e.payload \subseteq AllRows
  PROVE  Drained(q) \in Seq(Answers) /\ \A i \in DOMAIN Drained(q) : Drained(q)[i].query = q
<1>1. PICK list : list = DrainSorted(held)
  OBVIOUS
<1>2. list \in Seq(held)
  BY <1>1, DrainSortedIs
<1>3. PICK size \in Nat : DOMAIN list = 1..size
  BY <1>2
<1>4. PICK b : b = Drained(q)
  OBVIOUS
<1>5. b = [n \in 1..size |-> [query |-> q, dist |-> list[n].dist, rows |-> list[n].payload]]
  BY <1>1, <1>3, <1>4 DEF Drained
<1>6. \A n \in 1..size : [query |-> q, dist |-> list[n].dist, rows |-> list[n].payload] \in Answers
  <2> SUFFICES ASSUME NEW n \in 1..size PROVE [query |-> q, dist |-> list[n].dist, rows |-> list[n].payload] \in Answers
    OBVIOUS
  <2>1. list[n] \in held
    BY <1>2, <1>3, ElementOfList
  <2>2. list[n].dist \in Int /\ list[n].payload \in SUBSET AllRows
    BY <2>1 DEF HeapInv, HeapIsCounted, ThresholdIsSound
  <2> QED
    BY <2>2 DEF Answers
<1>7. b \in [1..size -> Answers]
  BY <1>5, <1>6
<1>8. b \in Seq(Answers)
  BY <1>7, FunctionIsList
<1>9. \A i \in DOMAIN b : b[i].query = q
  BY <1>5
<1> QED
  BY <1>4, <1>8, <1>9

\* Answers that are left alone stay the nearest.
LEMMA AnswersStay ==
  ASSUME UNCHANGED setting, answer' = answer, slots' = slots, NEW n, AnswersUpTo(n)
  PROVE  AnswersUpTo(n)'
<1>1. \A q : IsNearest(q)' <=> IsNearest(q)
  BY NearestIsIn, NearestStays
<1> QED
  BY <1>1, RowsStay DEF AnswersUpTo

\* A slot without a vector has no answers to give.
LEMMA AnswersPass ==
  ASSUME NEW n \in Nat, AnswersUpTo(n), ~HasVector(slots[n]), slots \in Seq(Queries)
  PROVE  AnswersUpTo(n + 1)
<1>1. \A j \in DOMAIN slots : j < n + 1 => j < n \/ j = n
  OBVIOUS
<1>2. \A j \in DOMAIN slots : j < n => j < n + 1
  OBVIOUS
<1> QED
  BY <1>1, <1>2 DEF AnswersUpTo

\* A heap that is ready is drained into the answer of its slot.
LEMMA ReadyAnswers ==
  ASSUME SettingIsChosen, HeapInv, SourcesAreExact, UNCHANGED setting, slots \in Seq(Queries), OneToOne(slots),
         NEW n \in DOMAIN slots, AnswersUpTo(n), HasVector(slots[n]), IsReady(slots[n]),
         answer' = answer \o Drained(slots[n]), slots' = slots
  PROVE  AnswersUpTo(n + 1)'
<1>1. PICK q \in Queries : q = slots[n]
  BY ElementOfList
<1>2. \A e \in held : e.payload \subseteq AllRows
  <2>1. \A e \in held : e.payload \subseteq RowsOf(q)
    BY <1>1 DEF IsReady, Fits
  <2> QED
    BY <2>1 DEF RowsOf
<1>3. Drained(q) \in Seq(Answers) /\ \A i \in DOMAIN Drained(q) : Drained(q)[i].query = q
  BY <1>2, DrainedIs
<1>4. PICK a, b, c : a = answer /\ b = Drained(q) /\ c = answer'
  OBVIOUS
<1>5. a \in Seq(Answers) /\ b \in Seq(Answers) /\ c = a \o b
  BY <1>1, <1>3, <1>4 DEF AnswersUpTo
<1>6. c \in Seq(Answers) /\ GoesOn(a, b, c)
  BY <1>5, ListsAppend
<1>7. n \in Nat /\ (\A j \in DOMAIN slots : j < n + 1 <=> j < n \/ j = n) /\ \A j \in DOMAIN slots : j < n => j # n
  OBVIOUS
<1>8. \A i \in DOMAIN a : HasVector(a[i].query) /\ \E j \in DOMAIN slots : j < n /\ a[i].query = slots[j]
  BY <1>4 DEF AnswersUpTo
<1>9. \A i \in DOMAIN a : a[i].query # q
  <2> SUFFICES ASSUME NEW i \in DOMAIN a, a[i].query = q PROVE FALSE
    OBVIOUS
  <2>1. PICK j \in DOMAIN slots : j < n /\ slots[j] = slots[n]
    BY <1>1, <1>8
  <2> QED
    BY <1>7, <2>1 DEF OneToOne
<1>10. \A i \in DOMAIN c \ DOMAIN a : c[i].query = q
  <2>1. \A i \in DOMAIN b : b[i].query = q
    BY <1>3, <1>4
  <2>2. \A i \in DOMAIN b : c[Len(a) + i] = b[i]
    BY <1>6 DEF GoesOn
  <2>3. \A i \in DOMAIN c \ DOMAIN a : \E j \in DOMAIN b : i = Len(a) + j
    BY <1>6 DEF GoesOn
  <2> QED
    BY <2>1, <2>2, <2>3
<1>11. \A i \in DOMAIN c : HasVector(c[i].query) /\ \E j \in DOMAIN slots : j < n + 1 /\ c[i].query = slots[j]
  <2> SUFFICES ASSUME NEW i \in DOMAIN c PROVE HasVector(c[i].query) /\ \E j \in DOMAIN slots : j < n + 1 /\ c[i].query = slots[j]
    OBVIOUS
  <2>1. CASE i \in DOMAIN a
    <3>1. c[i] = a[i]
      BY <1>6, <2>1 DEF GoesOn
    <3> QED
      BY <1>7, <1>8, <2>1, <3>1
  <2>2. CASE i \notin DOMAIN a
    BY <1>1, <1>7, <1>10, <2>2
  <2> QED
    BY <2>1, <2>2
<1>12. NearestIn(c, q)
  <2>1. HasVector(q) /\ IsReady(q)
    BY <1>1
  <2> QED
    BY <1>4, <1>5, <1>9, <2>1, ReadyIsNearest
<1>13. ASSUME NEW j \in DOMAIN slots, j < n + 1, HasVector(slots[j]) PROVE NearestIn(c, slots[j])
  <2>1. CASE j = n
    BY <1>1, <1>12, <2>1
  <2>2. CASE j < n
    <3>1. PICK p : p = slots[j]
      OBVIOUS
    <3>2. p # q
      BY <1>1, <1>7, <2>2, <3>1 DEF OneToOne
    <3>3. NearestIn(a, p)
      BY <1>4, <1>13, <2>2, <3>1, NearestIsIn DEF AnswersUpTo
    <3>4. DOMAIN a \subseteq DOMAIN c /\ \A i \in DOMAIN a : c[i] = a[i]
      BY <1>6 DEF GoesOn
    <3>5. NearestIn(c, p)
      BY <1>10, <3>2, <3>3, <3>4, OtherAnswersStay
    <3> QED
      BY <3>1, <3>5
  <2> QED
    BY <1>7, <1>13, <2>1, <2>2
<1>14. ASSUME NEW j \in DOMAIN slots, j < n + 1, HasVector(slots[j]) PROVE IsNearest(slots[j])'
  <2>1. PICK p : p = slots[j] /\ p = slots'[j]
    OBVIOUS
  <2>2. NearestIn(c, p)'
    BY <1>13, <1>14, <2>1, NearestStays
  <2>3. IsNearest(p)'
    BY <1>4, <2>2, NearestIsIn
  <2> QED
    BY <2>1, <2>3
<1>15. c \in Seq(Answers')
  BY <1>6, RowsStay
<1>16. \A i \in DOMAIN c : HasVector(c[i].query)'
  BY <1>11, RowsStay
<1> QED
  BY <1>4, <1>11, <1>14, <1>15, <1>16, RowsStay DEF AnswersUpTo

\* The empty answer.
LEMMA NoAnswers ==
  ASSUME slots \in Seq(Queries), answer = <<>>
  PROVE  AnswersUpTo(1)
BY DEF AnswersUpTo

\* A query without rows is answered by nothing.
LEMMA NoRowsIsNearest ==
  ASSUME SettingIsChosen, job.k \in Nat, NEW q, RowsOf(q) = {}, \A i \in DOMAIN answer : answer[i].query # q
  PROVE  IsNearest(q)
<1>1. UnitsOf(q) = {} /\ AnsweredTo(q) = {}
  BY DEF UnitsOf, AnsweredTo
<1>2. Cardinality({}) = 0
  BY FS_EmptySet
<1>3. Min({job.k, 0}) = 0
  BY MinIs
<1> QED
  BY <1>1, <1>2, <1>3 DEF IsNearest

(***************************************************************************)
(* The sink.                                                               *)
(***************************************************************************)
\* Entries that come in order stay so when some have gone, and the next one is ahead of the others.
LEMMA WalkGoesOn ==
  ASSUME SettingIsChosen, SourcesAreExact, NEW q, HasVector(q), left \subseteq Neighbour, InOrder(q, left),
         NEW e \in left, IsNext(e)
  PROVE  InOrder(q, left \ {e}) /\ Ahead(q, e, left \ {e})
<1>1. InOrder(q, left \ {e})
  BY DEF InOrder
<1>2. ASSUME NEW f \in left \ {e} PROVE f.id # e.id /\ e.dist <= f.dist
  <2>1. e.rank <= f.rank /\ e.rank # f.rank
    BY DEF IsNext, InOrder
  <2>2. e.rank \in Nat /\ f.rank \in Nat
    BY DEF Neighbour
  <2>3. PICK m \in Nat, n \in Nat : m = e.rank /\ n = f.rank
    BY <2>2
  <2>4. e.rank < f.rank
    BY <2>1, <2>3
  <2> QED
    BY <2>4 DEF InOrder
<1> QED
  BY <1>1, <1>2 DEF Ahead, InOrder

\* What is offered for all rows of a node fits.
LEMMA OffersFit ==
  ASSUME NEW q, NEW x, IsRanked(q, x), NEW rows, rows = RowsWith(q, x), rows # {}, NEW dist, dist = Dist(q, x)
  PROVE  /\ \A o \in OffersFor(dist, x, rows) : Fits(q, o.id, o.dist, o.rows) /\ o.id = x
         /\ \A o, p \in OffersFor(dist, x, rows) : Key(o.id, o.rows) = Key(p.id, p.rows) => o = p
         /\ \A u \in UnitsOf(q) : (\E r \in u : r.id = x) => \E o \in OffersFor(dist, x, rows) : o.rows = u
<1>1. rows \subseteq RowsOf(q) /\ (\A r \in rows : r.id = x) /\ \A r \in RowsOf(q) : r.id = x => r \in rows
  BY RowsOfIs
<1>2. CASE Distinct
  <2>1. OffersFor(dist, x, rows) = {Offer(dist, x, rows)}
    BY <1>2 DEF OffersFor
  <2>a. PICK o : o = Offer(dist, x, rows)
    OBVIOUS
  <2>2. o = Offer(dist, x, rows) /\ o.id = x /\ o.dist = dist /\ o.rows = rows
    BY <2>a DEF Offer
  <2>3. Fits(q, o.id, o.dist, o.rows)
    BY <1>1, <1>2, <2>2 DEF Fits
  <2>4. ASSUME NEW u \in UnitsOf(q), NEW r \in u, r.id = x PROVE u = rows
    <3>1. u = {s \in RowsOf(q) : s.id = r.id}
      BY <1>2, UnitIs
    <3> QED
      BY <1>1, <2>4, <3>1
  <2> QED
    BY <2>1, <2>2, <2>3, <2>4
<1>3. CASE ~Distinct
  <2>1. OffersFor(dist, x, rows) = {Offer(dist, x, {r}) : r \in rows}
    BY <1>3 DEF OffersFor
  <2>2. \A r \in rows : Offer(dist, x, {r}).id = x /\ Offer(dist, x, {r}).dist = dist /\ Offer(dist, x, {r}).rows = {r}
    BY DEF Offer
  <2>3. \A r \in rows : Fits(q, x, dist, {r})
    BY <1>1, <1>3 DEF Fits
  <2>a. ASSUME NEW o \in OffersFor(dist, x, rows)
        PROVE  \E r \in rows : o = Offer(dist, x, {r}) /\ o.id = x /\ o.dist = dist /\ o.rows = {r}
    <3>1. PICK r \in rows : o = Offer(dist, x, {r})
      BY <2>1, <2>a
    <3> QED
      BY <2>2, <3>1
  <2>4. \A o \in OffersFor(dist, x, rows) : Fits(q, o.id, o.dist, o.rows) /\ o.id = x
    BY <2>3, <2>a
  <2>5. \A o, p \in OffersFor(dist, x, rows) : Key(o.id, o.rows) = Key(p.id, p.rows) => o = p
    BY <1>3, <2>a DEF Key
  <2>6. ASSUME NEW u \in UnitsOf(q), NEW r \in u, r.id = x PROVE \E o \in OffersFor(dist, x, rows) : o.rows = u
    <3>1. u = {r} /\ r \in rows
      BY <1>1, <1>3, <2>6, UnitIs
    <3> QED
      BY <2>1, <2>2, <3>1
  <2> QED
    BY <2>4, <2>5, <2>6
<1> QED
  BY <1>2, <1>3

\* The key of a binding is its node, and that of a row the row: what is of another node has another key.
LEMMA KeysDiffer ==
  ASSUME NEW q, NEW id, NEW dist, NEW rows, Fits(q, id, dist, rows),
         NEW id2, NEW dist2, NEW rows2, Fits(q, id2, dist2, rows2), id # id2
  PROVE  Key(id, rows) # Key(id2, rows2)
BY DEF Fits, Key

\* Going on to the next neighbour of the ranking.
LEMMA PopKeepsSink ==
  ASSUME SettingIsChosen, SourcesAreExact, UNCHANGED setting, left \subseteq Neighbour,
         NEW q, HasVector(q), pc = "walk", Sink(q),
         NEW e \in left, IsNext(e), left' = left \ {e}, here' = e, offered' = offered,
         NEW rows, rows = RowsWith(q, e.id),
         \/ rows = {} /\ pc' = "walk"
         \/ rows # {} /\ pc' = "offer" /\ work' = OffersFor(e.dist, e.id, rows)
  PROVE  Sink(q)'
<1>1. InOrder(q, left) /\ EntriesFit(q)
  BY DEF Sink, Walking, SinkFits
<1>2. InOrder(q, left \ {e}) /\ Ahead(q, e, left \ {e})
  BY <1>1, WalkGoesOn
<1>3. HasVector(q)' /\ InOrder(q, left)' /\ Ahead(q, here, left)'
  <2>1. PICK rest : rest = left \ {e}
    OBVIOUS
  <2>2. InOrder(q, rest)' /\ Ahead(q, e, rest)'
    BY <1>2, <2>1, FitsStay
  <2> QED
    BY <2>1, <2>2, RowsStay
<1>4. Walking(q)'
  BY <1>3 DEF Walking
<1>5. EntriesFit(q)'
  BY <1>1, FitsStay DEF EntriesFit
<1>6. IsRanked(q, e.id) /\ e.dist = Dist(q, e.id)
  BY <1>1 DEF InOrder
<1>7. \A x : IsAhead(x) <=> IsAhead(x)' \/ x = e.id
  BY DEF IsAhead
<1>8. ~IsAhead(e.id)'
  BY <1>2 DEF Ahead, IsAhead
<1>9. \A f \in offered : ~IsAhead(f.id) /\ f.id # e.id
  BY <1>7 DEF Sink, SinkWalks
<1>10. \A u \in UnitsOf(q) : (\E f \in offered : f.payload = u) \/ (\E r \in u : r.id = e.id) \/ \E r \in u : IsAhead(r.id)'
  BY <1>7 DEF Sink, SinkWalks, Came, Comes
<1>11. CASE rows = {} /\ pc' = "walk"
  <2>a. \A r \in RowsOf(q) : r.id # e.id
    BY <1>6, <1>11, RowsOfIs
  <2>1. \A u \in UnitsOf(q) : ~\E r \in u : r.id = e.id
    BY <2>a, UnitIs
  <2>2. \A u \in UnitsOf(q) : (\E f \in offered' : f.payload = u) \/ \E r \in u : IsAhead(r.id)'
    BY <1>10, <2>1
  <2>3. SinkWalks(q)'
    BY <1>7, <1>9, <1>11, <2>2, RowsStay DEF SinkWalks, Came
  <2> QED
    BY <1>4, <1>5, <1>11, <2>3 DEF Sink, SinkFits
<1>12. CASE rows # {} /\ pc' = "offer" /\ work' = OffersFor(e.dist, e.id, rows)
  <2>1. PICK work1 : work1 = OffersFor(e.dist, e.id, rows)
    OBVIOUS
  <2>2. /\ \A o \in work1 : Fits(q, o.id, o.dist, o.rows) /\ o.id = e.id
        /\ \A o, p \in work1 : Key(o.id, o.rows) = Key(p.id, p.rows) => o = p
        /\ \A u \in UnitsOf(q) : (\E r \in u : r.id = e.id) => \E o \in work1 : o.rows = u
    BY <1>6, <1>12, <2>1, OffersFit
  <2>3. \A o \in work1 : \A f \in offered : Key(o.id, o.rows) # Key(f.id, f.payload)
    <3> SUFFICES ASSUME NEW o \in work1, NEW f \in offered PROVE Key(o.id, o.rows) # Key(f.id, f.payload)
      OBVIOUS
    <3>1. Fits(q, o.id, o.dist, o.rows) /\ o.id = e.id /\ Fits(q, f.id, f.dist, f.payload) /\ f.id # e.id
      BY <1>1, <1>9, <2>2 DEF EntriesFit
    <3> QED
      BY <3>1, KeysDiffer
  <2>4. WorkFits(q)'
    <3>1. work' = work1
      BY <1>12, <2>1
    <3> QED
      BY <2>2, <2>3, <3>1, FitsStay DEF WorkFits
  <2>5. SinkWalks(q)'
    <3>1. work' = work1 /\ pc' = "offer" /\ UnitsOf(q)' = UnitsOf(q)
      BY <1>12, <2>1, RowsStay
    <3>2. \A o \in work1 : ~IsAhead(o.id)'
      BY <1>8, <2>2
    <3>3. \A f \in offered : ~IsAhead(f.id)'
      BY <1>7, <1>9
    <3>4. \A u \in UnitsOf(q) : (\E f \in offered : f.payload = u) \/ (\E o \in work1 : o.rows = u) \/ \E r \in u : IsAhead(r.id)'
      BY <1>10, <2>2
    <3> QED
      BY <3>1, <3>2, <3>3, <3>4 DEF SinkWalks, Came, Comes
  <2> QED
    BY <1>4, <1>5, <2>4, <2>5 DEF Sink, SinkFits
<1> QED
  BY <1>11, <1>12

\* Offering one thing of the work.
LEMMA OfferKeepsFits ==
  ASSUME UNCHANGED setting, NEW q, EntriesFit(q), WorkFits(q), NEW o \in work, Take(o), work' = work \ {o}
  PROVE  EntriesFit(q)' /\ WorkFits(q)' /\ \E e : offered' = offered \cup {e} /\ e.dist = o.dist /\ e.id = o.id /\ e.payload = o.rows
<1>1. PICK e : e.dist = o.dist /\ e.id = o.id /\ e.payload = o.rows /\ offered' = offered \cup {e}
  BY DEF Take, Pushed, Entry
<1>2. Fits(q, o.id, o.dist, o.rows) /\ \A f \in offered : Key(o.id, o.rows) # Key(f.id, f.payload)
  BY DEF WorkFits
<1>3. EntriesFit(q)'
  <2>1. \A f \in offered' : Fits(q, f.id, f.dist, f.payload)
    BY <1>1, <1>2 DEF EntriesFit
  <2>2. \A f, g \in offered' : Key(f.id, f.payload) = Key(g.id, g.payload) => f = g
    BY <1>1, <1>2 DEF EntriesFit
  <2> QED
    BY <2>1, <2>2, FitsStay DEF EntriesFit
<1>4. WorkFits(q)'
  <2>1. /\ \A p \in work' : Fits(q, p.id, p.dist, p.rows)
        /\ \A p \in work' : \A f \in offered' : Key(p.id, p.rows) # Key(f.id, f.payload)
        /\ \A p, g \in work' : Key(p.id, p.rows) = Key(g.id, g.rows) => p = g
    BY <1>1 DEF WorkFits
  <2> QED
    BY <2>1, FitsStay DEF WorkFits
<1> QED
  BY <1>1, <1>3, <1>4

\* With the rest of the work left, the sink stays whole.
LEMMA OfferKeepsSink ==
  ASSUME UNCHANGED setting, NEW q, pc = "offer", Sink(q), NEW o \in work, Take(o), work' = work \ {o},
         pc' = pc, left' = left, here' = here
  PROVE  Sink(q)'
<1>1. EntriesFit(q) /\ WorkFits(q) /\ Walking(q) /\ SinkWalks(q)
  BY DEF Sink, SinkFits
<1>2. PICK e : offered' = offered \cup {e} /\ e.dist = o.dist /\ e.id = o.id /\ e.payload = o.rows
  BY <1>1, OfferKeepsFits
<1>3. EntriesFit(q)' /\ WorkFits(q)'
  BY <1>1, OfferKeepsFits
<1>4. Walking(q)'
  BY <1>1, FitsStay, RowsStay DEF Walking
<1>5. \A x : IsAhead(x)' <=> IsAhead(x)
  BY DEF IsAhead
<1>6. SinkWalks(q)'
  BY <1>1, <1>2, <1>5, RowsStay DEF SinkWalks, Came, Comes
<1> QED
  BY <1>3, <1>4, <1>6 DEF Sink, SinkFits

\* Nothing left to offer: the walk goes on.
LEMMA RestKeepsSink ==
  ASSUME UNCHANGED setting, NEW q, pc = "offer", work = {}, Sink(q),
         pc' = "walk", left' = left, offered' = offered
  PROVE  Sink(q)'
<1>1. EntriesFit(q) /\ Walking(q) /\ SinkWalks(q)
  BY DEF Sink, SinkFits
<1>2. EntriesFit(q)'
  BY <1>1, FitsStay DEF EntriesFit
<1>3. Walking(q)'
  BY <1>1, FitsStay, RowsStay DEF Walking
<1>4. \A x : IsAhead(x)' <=> IsAhead(x)
  BY DEF IsAhead
<1>5. SinkWalks(q)'
  BY <1>1, <1>4, RowsStay DEF SinkWalks, Came, Comes
<1> QED
  BY <1>2, <1>3, <1>5 DEF Sink, SinkFits

\* A full heap holds k, and none of them is farther than its worst.
LEMMA WorstIs ==
  ASSUME HeapInv, IsFull(held, job.k), NEW worst \in held, IsWorst(worst, held)
  PROVE  Cardinality(held) = job.k /\ worst.dist \in Int /\ \A f \in held : f.dist \in Int /\ f.dist <= worst.dist
<1>1. \A f \in held : f.dist \in Int
  BY DEF HeapInv, HeapIsCounted, ThresholdIsSound
<1>2. Cardinality(held) = job.k
  <2>1. PICK m \in Nat, k \in Nat : m = Cardinality(held) /\ k = job.k
    BY FS_CardinalityType DEF HeapInv, HeapIsCounted
  <2> QED
    BY <2>1 DEF IsFull, HeapInv, ThresholdIsSound
<1>3. ASSUME NEW f \in held PROVE f.dist <= worst.dist
  <2>1. PICK a \in Int, b \in Int : a = f.dist /\ b = worst.dist
    BY <1>1
  <2> QED
    BY <2>1 DEF IsWorst, Farther
<1> QED
  BY <1>1, <1>2, <1>3

\* A distance that is not negative grows with slack.
LEMMA SlackGrows ==
  ASSUME NEW w \in Int, NEW s \in Nat, s > 0 => w >= 0
  PROVE  w * (1 + s) \in Int /\ w * (1 + s) >= w
<1>1. CASE s = 0
  BY <1>1
<1>2. CASE w >= 0
  <2>1. w * s >= 0 /\ w * s \in Int
    BY <1>2
  <2>2. w * (1 + s) = w + w * s
    OBVIOUS
  <2> QED
    BY <2>1, <2>2
<1> QED
  BY <1>1, <1>2

\* What is past the threshold is farther than everything held.
LEMMA PastIs ==
  ASSUME HeapInv, NEW slack \in Nat, slack > 0 => \A f \in held : f.dist >= 0,
         NEW d \in Int, Past(held, job.k, d, slack)
  PROVE  Cardinality(held) = job.k /\ \A f \in held : f.dist < d
<1>1. PICK worst \in held : IsWorst(worst, held) /\ d > worst.dist * (1 + slack) /\ IsFull(held, job.k)
  BY DEF Past
<1>2. Cardinality(held) = job.k /\ worst.dist \in Int /\ \A f \in held : f.dist \in Int /\ f.dist <= worst.dist
  BY <1>1, WorstIs
<1>3. PICK w \in Int : w = worst.dist
  BY <1>2
<1>4. w * (1 + slack) \in Int /\ w * (1 + slack) >= w
  BY <1>3, SlackGrows
<1>5. d > w * (1 + slack)
  BY <1>1, <1>3
<1>a. PICK t \in Int : t = w * (1 + slack)
  BY <1>4
<1>6. w < d
  BY <1>4, <1>5, <1>a
<1>7. ASSUME NEW f \in held PROVE f.dist < d
  <2>1. PICK a \in Int : a = f.dist
    BY <1>2
  <2>2. a <= w
    BY <1>2, <1>3, <2>1
  <2> QED
    BY <1>6, <2>1, <2>2
<1> QED
  BY <1>2, <1>7

\* Every entry of a sink at rest is a unit.
LEMMA EntriesAreUnits ==
  ASSUME NEW q, Sink(q), pc = "walk" \/ work = {}
  PROVE  \A e \in offered : Fits(q, e.id, e.dist, e.payload) /\ e.payload \in UnitsOf(q)
<1> SUFFICES ASSUME NEW e \in offered PROVE Fits(q, e.id, e.dist, e.payload) /\ e.payload \in UnitsOf(q)
  OBVIOUS
<1>1. Fits(q, e.id, e.dist, e.payload) /\ ~IsAhead(e.id)
  BY DEF Sink, SinkFits, EntriesFit, SinkWalks
<1>2. PICK r \in e.payload : r \in RowsOf(q) /\ r.id = e.id
  BY <1>1 DEF Fits
<1>3. PICK u : u = IF Distinct THEN {s \in RowsOf(q) : s.id = r.id} ELSE {r}
  OBVIOUS
<1>4. u \in UnitsOf(q) /\ r \in u /\ \A s \in u : s.id = e.id
  BY <1>2, <1>3, UnitOf
<1>5. Came(u)
  <2>1. Came(u) \/ Comes(u) \/ \E s \in u : IsAhead(s.id)
    BY <1>4 DEF Sink, SinkWalks
  <2> QED
    BY <1>1, <1>4, <2>1 DEF Comes
<1>6. PICK f \in offered : f.payload = u
  BY <1>5 DEF Came
<1>7. Fits(q, f.id, f.dist, f.payload)
  BY DEF Sink, SinkFits, EntriesFit
<1>8. e = f
  <2>1. CASE Distinct
    <3>1. f.id = e.id
      BY <1>4, <1>6, <1>7 DEF Fits
    <3> QED
      BY <2>1, <3>1 DEF Sink, SinkFits, EntriesFit, Key
  <2>2. CASE ~Distinct
    <3>1. e.payload = {r}
      BY <1>1, <1>2, <2>2 DEF Fits
    <3>2. f.payload = {r}
      BY <1>3, <1>6, <2>2
    <3> QED
      BY <2>2, <3>1, <3>2 DEF Sink, SinkFits, EntriesFit, Key
  <2> QED
    BY <2>1, <2>2
<1> QED
  BY <1>1, <1>4, <1>6, <1>8

\* A sink at rest is ready when k are held that are as near as all units that are still ahead.
LEMMA SinkIsReady ==
  ASSUME SettingIsChosen, SourcesAreExact, HeapInv, NEW q, HasVector(q), Sink(q), pc = "walk" \/ work = {},
         \A r \in RowsOf(q) : IsAhead(r.id) => Cardinality(held) = job.k /\ \A e \in held : e.dist <= Dist(q, r.id)
  PROVE  IsReady(q)
<1>1. held \subseteq offered
  BY DEF HeapInv, ThresholdIsSound
<1>2. \A e \in offered : Fits(q, e.id, e.dist, e.payload) /\ e.payload \in UnitsOf(q)
  BY EntriesAreUnits
<1>3. \A e, f \in held : Key(e.id, e.payload) = Key(f.id, f.payload) => e = f
  BY <1>1 DEF Sink, SinkFits, EntriesFit
<1>4. ASSUME NEW u \in UnitsOf(q)
      PROVE  (\E e \in held : e.payload = u) \/ (Cardinality(held) = job.k /\ \A e \in held : e.dist <= DistTo(q, u))
  <2>1. PICK r \in RowsOf(q) : u = IF Distinct THEN {s \in RowsOf(q) : s.id = r.id} ELSE {r}
    BY UnitIs
  <2>2. u # {} /\ (\A s \in u : s.id = r.id) /\ IsRanked(q, r.id)
    BY <2>1, RowsOfIs
  <2>3. DistTo(q, u) = Dist(q, r.id)
    BY <2>2, UnitDist
  <2>4. CASE Came(u)
    <3>1. PICK e \in offered : e.payload = u
      BY <2>4 DEF Came
    <3>2. e.dist = DistTo(q, u)
      <4>1. e.id = r.id
        BY <1>2, <2>2, <3>1 DEF Fits
      <4> QED
        BY <1>2, <2>3, <4>1 DEF Fits
    <3>3. e \in held \/ (Cardinality(held) = job.k /\ \A f \in held : f.dist <= e.dist)
      BY DEF HeapInv, ThresholdIsSound
    <3> QED
      BY <3>1, <3>2, <3>3
  <2>5. CASE \E s \in u : IsAhead(s.id)
    <3>1. IsAhead(r.id)
      BY <2>2, <2>5
    <3> QED
      BY <2>3, <3>1
  <2> QED
    BY <2>4, <2>5 DEF Sink, SinkWalks, Comes
<1> QED
  BY <1>1, <1>2, <1>3, <1>4 DEF IsReady

\* It is when nothing is left.
LEMMA WalkedIsReady ==
  ASSUME SettingIsChosen, SourcesAreExact, HeapInv, NEW q, HasVector(q), Sink(q), pc = "walk" \/ work = {}, left = {}
  PROVE  IsReady(q)
<1>1. \A r \in RowsOf(q) : ~IsAhead(r.id)
  BY DEF IsAhead
<1> QED
  BY <1>1, SinkIsReady

\* It is when the next candidate is past the threshold, slack included.
LEMMA PastIsReady ==
  ASSUME SettingIsChosen, SourcesAreExact, HeapInv, left \subseteq Neighbour, NEW q, HasVector(q), Sink(q), pc = "walk",
         NEW e \in left, IsNext(e), Past(held, job.k, e.dist, job.slack)
  PROVE  IsReady(q)
<1>1. job.slack \in Nat
  BY JobIs DEF IsJob
<1>2. job.slack > 0 => \A f \in held : f.dist >= 0
  <2> SUFFICES ASSUME job.slack > 0, NEW f \in held PROVE f.dist >= 0
    OBVIOUS
  <2>1. Fits(q, f.id, f.dist, f.payload)
    BY DEF Sink, SinkFits, EntriesFit, HeapInv, ThresholdIsSound
  <2>2. PICK r \in RowsOf(q) : r.id = f.id
    BY <2>1 DEF Fits
  <2>3. IsRanked(q, f.id) /\ f.dist = Dist(q, f.id)
    BY <2>1, <2>2, RowsOfIs DEF Fits
  <2> QED
    BY <2>3, DistType
<1>3. e.dist \in Int
  BY DEF Neighbour
<1>4. Cardinality(held) = job.k /\ \A f \in held : f.dist < e.dist /\ f.dist \in Int
  <2>1. \A f \in held : f.dist \in Int
    BY DEF HeapInv, HeapIsCounted, ThresholdIsSound
  <2> QED
    BY <1>1, <1>2, <1>3, <2>1, PastIs
<1>5. InOrder(q, left) /\ Ahead(q, e, left \ {e})
  BY WalkGoesOn DEF Sink, Walking
<1>6. ASSUME NEW l \in left PROVE \A f \in held : f.dist <= l.dist
  <2>1. e.dist <= l.dist
    BY <1>3, <1>5 DEF Ahead
  <2>2. l.dist \in Int
    BY DEF Neighbour
  <2> QED
    BY <1>3, <1>4, <2>1, <2>2
<1>7. \A r \in RowsOf(q) : IsAhead(r.id) => \A f \in held : f.dist <= Dist(q, r.id)
  BY <1>5, <1>6 DEF IsAhead, InOrder
<1> QED
  BY <1>4, <1>7, SinkIsReady

\* It is when the heap is full and the neighbour that was looked at is no nearer than its worst.
LEMMA FullIsReady ==
  ASSUME SettingIsChosen, SourcesAreExact, HeapInv, left \subseteq Neighbour, here \in Neighbour,
         NEW q, HasVector(q), Sink(q), pc = "offer", work = {},
         IsFull(held, job.k), NEW worst \in held, IsWorst(worst, held), here.dist >= worst.dist
  PROVE  IsReady(q)
<1>1. Cardinality(held) = job.k /\ worst.dist \in Int /\ \A f \in held : f.dist \in Int /\ f.dist <= worst.dist
  BY WorstIs
<1>2. InOrder(q, left) /\ Ahead(q, here, left)
  BY DEF Sink, Walking
<1>3. ASSUME NEW l \in left, NEW f \in held PROVE f.dist <= l.dist
  <2>1. here.dist <= l.dist /\ f.dist <= worst.dist
    BY <1>1, <1>2 DEF Ahead
  <2>2. PICK a \in Int, b \in Int, c \in Int, d \in Int : a = here.dist /\ b = l.dist /\ c = f.dist /\ d = worst.dist
    BY <1>1 DEF Neighbour
  <2> QED
    BY <2>1, <2>2
<1>4. \A r \in RowsOf(q) : IsAhead(r.id) => \A f \in held : f.dist <= Dist(q, r.id)
  BY <1>2, <1>3 DEF IsAhead, InOrder
<1> QED
  BY <1>1, <1>4, SinkIsReady

(***************************************************************************)
(* post and partition.                                                     *)
(***************************************************************************)
\* What a turn may count on.
LEMMA TurnHas ==
  ASSUME TypeInv
  PROVE  /\ SettingIsChosen /\ HeapInv /\ turn \in Nat \ {0} /\ slots \in Seq(Queries)
         /\ left \subseteq Neighbour /\ here \in Neighbour /\ job.k \in Nat \ {0}
         /\ turn <= Len(slots) => turn \in DOMAIN slots /\ Slot \in Queries
<1>1. /\ SettingIsChosen /\ HeapInv /\ turn \in Nat \ {0} /\ slots \in Seq(Queries)
      /\ left \subseteq Neighbour /\ here \in Neighbour /\ job.k \in Nat \ {0}
  BY DEF TypeInv, Typed, PlacesAreTyped, Inv, HeapInv
<1>2. turn <= Len(slots) => turn \in DOMAIN slots
  BY <1>1
<1>3. turn \in DOMAIN slots => Slot \in Queries
  BY <1>1, ElementOfList DEF Slot
<1> QED
  BY <1>1, <1>2, <1>3

\* Rows know their visit.
LEMMA RowsKnow ==
  ASSUME NEW v, NEW r \in RowsAt(v)
  PROVE  r.visit = v /\ r.id \in Candidates(v) /\ QueryOf(r) = AnchorAt(v)
<1>1. PICK x \in Candidates(v) : r \in UNION BaseCases(v, x)
  BY DEF RowsAt
<1>2. PICK b \in DOMAIN job.visits[v].fan[x] : r \in BaseCase(v, x, b)
  BY <1>1 DEF BaseCases
<1>3. r.visit = v /\ r.id = x
  BY <1>2 DEF BaseCase
<1> QED
  BY <1>1, <1>3 DEF QueryOf

\* The whole pattern fills a bucket for each query and node it has rows of.
LEMMA PatternFills ==
  ASSUME SettingIsChosen, NEW n, n = Len(job.visits),
         NEW list, list = FirstSeen([v \in 1..n |-> AnchorAt(v)], {v \in 1..n : RowsAt(v) # {}}),
         NEW t, t = Bucketed(UNION {RowsAt(v) : v \in 1..n})
  PROVE  /\ OneToOne(list) /\ Range(list) = {QueryOf(r) : r \in AllRows} /\ DOMAIN t = Range(list)
         /\ \A q \in DOMAIN t : t[q] = Full(q)
<1>1. Visits = 1..n /\ n \in Nat /\ AllRows = UNION {RowsAt(v) : v \in 1..n}
  BY JobIs DEF AllRows
<1>2. PICK queries, places : queries = [v \in 1..n |-> AnchorAt(v)] /\ places = {v \in 1..n : RowsAt(v) # {}}
  OBVIOUS
<1>3. OneToOne(list) /\ Range(list) = {queries[i] : i \in places}
  <2>1. places \in SUBSET (1..n) /\ n \in Nat
    BY <1>1, <1>2
  <2>2. OneToOne(FirstSeen(queries, places)) /\ Range(FirstSeen(queries, places)) = {queries[i] : i \in places}
    BY <2>1, FirstSeenIs, Zenon
  <2> QED
    BY <1>2, <2>2
<1>4. {queries[i] : i \in places} = {QueryOf(r) : r \in AllRows}
  <2>1. \A i \in places : queries[i] = AnchorAt(i) /\ i \in Visits /\ RowsAt(i) # {}
    BY <1>1, <1>2
  <2>2. \A i \in places : \E r \in AllRows : QueryOf(r) = queries[i]
    BY <2>1, RowsKnow DEF AllRows
  <2>3. \A r \in AllRows : \E i \in places : QueryOf(r) = queries[i]
    BY <1>1, <1>2, RowsKnow DEF AllRows
  <2> QED
    BY <2>2, <2>3
<1>5. t = [q \in {QueryOf(r) : r \in AllRows} |->
             [x \in {r.id : r \in {s \in AllRows : QueryOf(s) = q}} |-> {r \in AllRows : QueryOf(r) = q /\ r.id = x}]]
  BY <1>1 DEF Bucketed
<1>6. DOMAIN t = {QueryOf(r) : r \in AllRows} /\ \A q \in DOMAIN t : t[q] = Full(q)
  BY <1>5 DEF Full, RowsWith
<1> QED
  BY <1>3, <1>4, <1>6

\* What is known of the two arms stands when the pattern has been run.
LEMMA RunPatternRanks ==
  ASSUME TypeInv, slots' \in Seq(Queries), RanksInv, Ranks, UNCHANGED setting, ~tripped', RunPattern
  PROVE  RanksInv'
<1>1. PICK n \in 0..Len(job.visits) :
        /\ n < Len(job.visits) => tripped'
        /\ table' = Bucketed(UNION {RowsAt(v) : v \in 1..n})
        /\ slots' = FirstSeen([v \in 1..n |-> AnchorAt(v)], {v \in 1..n : RowsAt(v) # {}})
  BY DEF RunPattern
<1>2. pc = "gather" /\ pc' = "open" /\ turn' = 1 /\ answer' = answer /\ results' = results
  BY DEF RunPattern
<1>3. results = {} /\ answer = <<>>
  BY <1>2 DEF RanksInv
<1>4. n = Len(job.visits)
  <2>1. Len(job.visits) \in Nat
    BY TurnHas, JobIs
  <2> QED
    BY <1>1, <2>1
<1>5. PICK list, t : list = slots' /\ t = table'
  OBVIOUS
<1>6. /\ OneToOne(list) /\ Range(list) = {QueryOf(r) : r \in AllRows} /\ DOMAIN t = Range(list)
      /\ \A q \in DOMAIN t : t[q] = Full(q)
  BY <1>1, <1>4, <1>5, TurnHas, PatternFills
<1>7. BucketsStand'
  <2>1. {QueryOf(r) : r \in AllRows}' = {QueryOf(r) : r \in AllRows}
    BY SettingStays
  <2>2. \A i \in DOMAIN list : list[i] \in DOMAIN t
    BY <1>6 DEF Range
  <2>3. \A i \in DOMAIN list : t[list[i]] = Full(list[i])'
    BY <1>6, <2>2, RowsStay
  <2> QED
    BY <1>5, <1>6, <2>1, <2>3 DEF BucketsStand
<1>8. AnswersUpTo(turn)'
  <2>1. Answers' = Answers /\ answer' = <<>>
    BY <1>2, <1>3, RowsStay
  <2>2. AnswersUpTo(1)'
    <3>1. \A j \in DOMAIN slots' : ~(j < 1)
      OBVIOUS
    <3>2. <<>> \in Seq(Answers)
      OBVIOUS
    <3> QED
      BY <2>1, <3>1, <3>2 DEF AnswersUpTo
  <2> QED
    BY <1>2, <2>2
<1> QED
  BY <1>2, <1>3, <1>7, <1>8 DEF RanksInv

\* It stands when the walk of a slot is opened, or a slot without a vector is passed.
LEMMA OpenPartitionRanks ==
  ASSUME TypeInv, SourcesAreExact, RanksInv, Ranks, UNCHANGED setting, ~tripped', OpenPartition
  PROVE  RanksInv'
<1>1. pc = "open" /\ results = {} /\ BucketsStand /\ AnswersUpTo(turn)
  BY DEF OpenPartition, RanksInv
<1>2. PICK n \in Nat \ {0} : n = turn
  BY TurnHas
<1>3. slots \in Seq(Queries) /\ SettingIsChosen
  BY TurnHas
<1>4. ~(Correlated /\ turn <= Len(slots) /\ Expired)
  <2> SUFFICES ASSUME Correlated, turn <= Len(slots), Expired PROVE FALSE
    OBVIOUS
  <2>1. ~(turn > Len(slots))
    BY <1>2, <1>3
  <2>2. Polled
    BY <2>1 DEF OpenPartition
  <2> QED
    BY <2>2 DEF Polled
<1>5. \A q : Full(q)' = Full(q)
  BY RowsStay
<1>6. {QueryOf(r) : r \in AllRows}' = {QueryOf(r) : r \in AllRows}
  BY SettingStays
<1>7. CASE turn > Len(slots)
  <2>1. pc' = "done" /\ turn' = turn /\ slots' = slots /\ table' = table /\ results' = results /\ answer' = answer
    BY <1>7 DEF OpenPartition, walk
  <2>2. BucketsStand'
    BY <1>1, <1>5, <1>6, <2>1 DEF BucketsStand
  <2>3. AnswersUpTo(turn)'
    <3>1. AnswersUpTo(n)'
      BY <1>1, <1>2, <2>1, AnswersStay
    <3> QED
      BY <1>2, <2>1, <3>1
  <2> QED
    BY <1>1, <1>7, <2>1, <2>2, <2>3 DEF RanksInv
<1>8. CASE turn <= Len(slots) /\ HasVector(Slot)
  <2>a. ~(turn > Len(slots))
    BY <1>2, <1>3, <1>8
  <2>1. OpenBuckets(Slot)
    BY <1>4, <1>8, <2>a DEF OpenPartition
  <2>2. PICK q \in Queries : q = Slot /\ turn \in DOMAIN slots
    BY <1>8, TurnHas
  <2>3. /\ pc' = "walk" /\ turn' = turn /\ slots' = slots /\ table' = table /\ results' = results /\ answer' = answer
        /\ offered' = {} /\ left' = RankingOf(q, q, DOMAIN table[q])
    BY <2>1, <2>2 DEF OpenBuckets, Emptied
  <2>4. BucketsStand'
    BY <1>1, <1>5, <1>6, <2>3 DEF BucketsStand
  <2>5. AnswersUpTo(turn)'
    <3>1. AnswersUpTo(n)'
      BY <1>1, <1>2, <2>3, AnswersStay
    <3> QED
      BY <1>2, <2>3, <3>1
  <2>6. table[q] = Full(q)
    BY <1>1, <2>2 DEF BucketsStand, Slot
  <2>7. DOMAIN table[q] = {r.id : r \in {s \in AllRows : QueryOf(s) = q}}
    BY <2>6 DEF Full
  <2>8. \A x \in DOMAIN table[q] : table[q][x] = RowsWith(q, x) /\ RowsWith(q, x) # {}
    BY <2>6, <2>7 DEF Full, RowsWith
  <2>9. \A x : RowsWith(q, x) # {} => x \in DOMAIN table[q]
    BY <2>7 DEF RowsWith
  <2>10. PICK entries : entries = RankingOf(q, q, DOMAIN table[q])
    OBVIOUS
  <2>11. HasVector(q)
    BY <1>8, <2>2
  <2>12. InOrder(q, entries) /\ \A x \in DOMAIN table[q] : IsRanked(q, x) => \E e \in entries : e.id = x
    BY <1>3, <2>10, <2>11, WalkOpens
  <2>13. Sink(q)'
    <3>1. Walking(q)'
      <4>1. InOrder(q, entries)' /\ HasVector(q)'
        BY <2>11, <2>12, FitsStay, RowsStay
      <4> QED
        BY <2>3, <2>10, <4>1 DEF Walking
    <3>2. SinkFits(q)'
      BY <2>3 DEF SinkFits, EntriesFit
    <3>3. \A u \in UnitsOf(q) : \E r \in u : \E e \in entries : e.id = r.id
      <4> SUFFICES ASSUME NEW u \in UnitsOf(q) PROVE \E r \in u : \E e \in entries : e.id = r.id
        OBVIOUS
      <4>1. PICK r \in u : r \in RowsOf(q)
        BY UnitIs
      <4>2. r \in AllRows /\ QueryOf(r) = q /\ IsRanked(q, r.id)
        BY <4>1, RowsOfIs
      <4>3. r.id \in DOMAIN table[q]
        BY <2>7, <4>2
      <4> QED
        BY <2>12, <4>2, <4>3
    <3>4. SinkWalks(q)'
      BY <2>3, <2>10, <3>3, RowsStay DEF SinkWalks, IsAhead
    <3> QED
      BY <3>1, <3>2, <3>4 DEF Sink
  <2>14. BucketWalks'
    <3>1. Slot' = q /\ turn' \in DOMAIN slots'
      BY <2>2, <2>3 DEF Slot
    <3>2. HasVector(q)' /\ \A x : RowsWith(q, x)' = RowsWith(q, x)
      BY <2>11, RowsStay
    <3> QED
      BY <2>3, <2>8, <2>9, <2>13, <3>1, <3>2 DEF BucketWalks
  <2> QED
    BY <1>1, <2>3, <2>4, <2>5, <2>14 DEF RanksInv
<1>9. CASE turn <= Len(slots) /\ ~HasVector(Slot)
  <2>a. ~(turn > Len(slots))
    BY <1>2, <1>3, <1>9
  <2>1. pc' = pc /\ turn' = turn + 1 /\ slots' = slots /\ table' = table /\ results' = results /\ answer' = answer
    BY <1>4, <1>9, <2>a DEF OpenPartition, NextTurn
  <2>2. BucketsStand'
    <3>1. \A i \in DOMAIN slots : i > turn + 1 \/ i = turn + 1 => i > turn
      BY <1>2, <1>3
    <3> QED
      BY <1>1, <1>5, <1>6, <2>1, <3>1 DEF BucketsStand
  <2>3. AnswersUpTo(n + 1)
    BY <1>1, <1>2, <1>3, <1>9, AnswersPass DEF Slot
  <2>4. AnswersUpTo(n + 1)'
    BY <2>1, <2>3, AnswersStay
  <2>5. AnswersUpTo(turn)'
    BY <1>2, <2>1, <2>4
  <2> QED
    BY <1>1, <2>1, <2>2, <2>5 DEF RanksInv
<1> QED
  BY <1>2, <1>3, <1>7, <1>8, <1>9

\* The buckets of the slots to come are not touched by a walk.
LEMMA BucketsWait ==
  ASSUME TypeInv, BucketsStand, turn \in DOMAIN slots, UNCHANGED setting, slots' = slots, turn' = turn, pc' # "open",
         \/ table' = table
         \/ \E x : table' = [table EXCEPT ![Slot] = Without(@, x)]
  PROVE  BucketsStand'
<1>1. turn \in Nat /\ slots \in Seq(Queries)
  BY TurnHas
<1>2. \A i \in DOMAIN slots : i > turn => slots[i] # Slot /\ slots[i] \in DOMAIN table
  BY <1>1 DEF BucketsStand, OneToOne, Slot, Range
<1>3. DOMAIN table' = DOMAIN table /\ \A q : q # Slot /\ q \in DOMAIN table => table'[q] = table[q]
  OBVIOUS
<1>4. {QueryOf(r) : r \in AllRows}' = {QueryOf(r) : r \in AllRows} /\ \A q : Full(q)' = Full(q)
  BY SettingStays, RowsStay
<1>5. \A i \in DOMAIN slots : i > turn => table'[slots[i]] = Full(slots[i])'
  BY <1>2, <1>3, <1>4 DEF BucketsStand
<1> QED
  BY <1>3, <1>4, <1>5 DEF BucketsStand

\* A bucket that has been walked is drained.
LEMMA DrainRanks ==
  ASSUME TypeInv, SourcesAreExact, RanksInv, Ranks, UNCHANGED setting, pc \in {"walk", "offer"},
         IsReady(Slot), Drain("open")
  PROVE  RanksInv'
<1>1. BucketsStand /\ BucketWalks /\ AnswersUpTo(turn) /\ results = {}
  BY DEF RanksInv
<1>2. /\ answer' = answer \o Drained(Slot) /\ turn' = turn + 1 /\ pc' = "open"
      /\ slots' = slots /\ table' = table /\ results' = results
  BY DEF Drain, NextTurn, Ranks
<1>3. slots \in Seq(Queries) /\ SettingIsChosen /\ HeapInv /\ turn \in DOMAIN slots /\ HasVector(Slot)
  BY <1>1, TurnHas DEF BucketWalks
<1>4. PICK n \in DOMAIN slots : n = turn /\ Slot = slots[n]
  BY <1>3 DEF Slot
<1>5. AnswersUpTo(n + 1)'
  <2>1. OneToOne(slots) /\ AnswersUpTo(n) /\ HasVector(slots[n]) /\ IsReady(slots[n]) /\ answer' = answer \o Drained(slots[n])
    BY <1>1, <1>2, <1>3, <1>4 DEF BucketsStand
  <2> QED
    BY <1>2, <1>3, <2>1, ReadyAnswers
<1>6. AnswersUpTo(turn)'
  BY <1>2, <1>4, <1>5
<1>7. BucketsStand'
  <2>1. {QueryOf(r) : r \in AllRows}' = {QueryOf(r) : r \in AllRows} /\ \A q : Full(q)' = Full(q)
    BY SettingStays, RowsStay
  <2>2. \A i \in DOMAIN slots : i > turn + 1 \/ i = turn + 1 => i > turn
    BY <1>3
  <2> QED
    BY <1>1, <1>2, <2>1, <2>2 DEF BucketsStand
<1> QED
  BY <1>1, <1>2, <1>6, <1>7 DEF RanksInv

\* It stands after a neighbour of the walk, and when the walk is cut there.
LEMMA PopBucketRanks ==
  ASSUME TypeInv, SourcesAreExact, RanksInv, Ranks, UNCHANGED setting, ~tripped', PopBucket
  PROVE  RanksInv'
<1>1. pc = "walk" /\ results = {} /\ BucketsStand /\ BucketWalks /\ AnswersUpTo(turn)
  BY DEF PopBucket, RanksInv
<1>2. SettingIsChosen /\ HeapInv /\ left \subseteq Neighbour
  BY TurnHas
<1>3. HasVector(Slot) /\ Sink(Slot) /\ turn \in DOMAIN slots
  BY <1>1 DEF BucketWalks
<1>4. CASE left = {}
  <2>1. Drain("open")
    BY <1>4 DEF PopBucket
  <2>2. IsReady(Slot)
    BY <1>1, <1>2, <1>3, <1>4, WalkedIsReady
  <2> QED
    BY <1>1, <2>1, <2>2, DrainRanks
<1>5. CASE left # {}
  <2>1. ~Expired
    BY <1>5 DEF PopBucket, Polled
  <2>2. PICK e \in left :
          /\ IsNext(e) /\ left' = left \ {e} /\ here' = e
          /\ IF e.id \in DOMAIN table[Slot]
             THEN /\ work' = OffersFor(e.dist, e.id, table[Slot][e.id])
                  /\ table' = [table EXCEPT ![Slot] = Without(@, e.id)]
                  /\ pc' = "offer"
             ELSE UNCHANGED <<work, table, pc>>
          /\ UNCHANGED <<turn, slots, cur, base, results, answer, heap>>
    BY <1>5, <2>1 DEF PopBucket
  <2>3. turn' = turn /\ slots' = slots /\ results' = results /\ answer' = answer /\ offered' = offered
    BY <2>2 DEF heap
  <2>4. PICK q : q = Slot /\ q = Slot'
    BY <2>3 DEF Slot
  <2>5. PICK rows : rows = RowsWith(q, e.id)
    OBVIOUS
  <2>6. \A x \in DOMAIN table[q] : table[q][x] = RowsWith(q, x) /\ RowsWith(q, x) # {}
    BY <1>1, <2>4 DEF BucketWalks
  <2>7. \A l \in left : RowsWith(q, l.id) # {} => l.id \in DOMAIN table[q]
    BY <1>1, <2>4 DEF BucketWalks
  <2>8. \/ rows = {} /\ pc' = "walk"
        \/ rows # {} /\ pc' = "offer" /\ work' = OffersFor(e.dist, e.id, rows)
    BY <1>1, <2>2, <2>4, <2>5, <2>6, <2>7
  <2>9. Sink(q)'
    BY <1>1, <1>2, <1>3, <2>2, <2>3, <2>4, <2>5, <2>8, PopKeepsSink
  <2>10. BucketsStand'
    BY <1>1, <1>3, <2>2, <2>3, BucketsWait
  <2>11. AnswersUpTo(turn)'
    <3>1. PICK n : n = turn
      OBVIOUS
    <3>2. AnswersUpTo(n)'
      BY <1>1, <2>3, <3>1, AnswersStay
    <3> QED
      BY <2>3, <3>1, <3>2
  <2>12. InOrder(q, left)
    BY <1>3, <2>4 DEF Sink, Walking
  <2>13. \A l \in left \ {e} : l.id # e.id
    BY <2>12 DEF InOrder
  <2>14. q \in DOMAIN table
    BY <1>1, <1>3, <2>4 DEF BucketsStand, Slot, Range
  <2>15. PICK b : b = table'[q]
    OBVIOUS
  <2>16. /\ \A x \in DOMAIN b : b[x] = RowsWith(q, x) /\ RowsWith(q, x) # {}
         /\ \A l \in left \ {e} : RowsWith(q, l.id) # {} => l.id \in DOMAIN b
    <3>1. CASE e.id \in DOMAIN table[Slot]
      <4>1. b = Without(table[q], e.id)
        BY <2>2, <2>4, <2>14, <2>15, <3>1
      <4>2. DOMAIN b = DOMAIN table[q] \ {e.id} /\ \A x \in DOMAIN b : b[x] = table[q][x]
        BY <4>1 DEF Without
      <4> QED
        BY <2>6, <2>7, <2>13, <4>2
    <3>2. CASE e.id \notin DOMAIN table[Slot]
      <4>1. b = table[q]
        BY <2>2, <2>4, <2>15, <3>2
      <4> QED
        BY <2>6, <2>7, <4>1
    <3> QED
      BY <3>1, <3>2
  <2>17. BucketWalks'
    <3>1. HasVector(q)' /\ \A x : RowsWith(q, x)' = RowsWith(q, x)
      BY <1>3, <2>4, RowsStay
    <3> QED
      BY <1>3, <2>2, <2>3, <2>4, <2>9, <2>15, <2>16, <3>1 DEF BucketWalks
  <2> QED
    BY <1>1, <2>3, <2>8, <2>10, <2>11, <2>17 DEF RanksInv
<1> QED
  BY <1>4, <1>5

\* It stands when the work on a neighbour is done, and the walk goes on or is cut.
LEMMA RestBucketRanks ==
  ASSUME TypeInv, SourcesAreExact, RanksInv, Ranks, UNCHANGED setting, RestBucket
  PROVE  RanksInv'
<1>1. pc = "offer" /\ work = {} /\ results = {} /\ BucketsStand /\ BucketWalks /\ AnswersUpTo(turn)
  BY DEF RestBucket, RanksInv
<1>2. SettingIsChosen /\ HeapInv /\ left \subseteq Neighbour /\ here \in Neighbour
  BY TurnHas
<1>3. HasVector(Slot) /\ Sink(Slot) /\ turn \in DOMAIN slots
  BY <1>1 DEF BucketWalks
<1>4. CASE Satisfied
  <2>1. Drain("open")
    BY <1>4 DEF RestBucket
  <2>2. IsReady(Slot)
    <3>1. CASE IsFull(held, job.k) /\ \E worst \in held : IsWorst(worst, held) /\ here.dist >= worst.dist
      BY <1>1, <1>2, <1>3, <3>1, FullIsReady
    <3>2. CASE DOMAIN table[Slot] = {}
      <4>1. \A r \in RowsOf(Slot) : ~IsAhead(r.id)
        <5> SUFFICES ASSUME NEW r \in RowsOf(Slot), NEW e \in left, e.id = r.id PROVE FALSE
          BY DEF IsAhead
        <5>1. r \in RowsWith(Slot, e.id)
          BY DEF RowsOf, RowsWith
        <5> QED
          BY <1>1, <3>2, <5>1 DEF BucketWalks
      <4> QED
        BY <1>1, <1>2, <1>3, <4>1, SinkIsReady
    <3> QED
      BY <1>4, <3>1, <3>2 DEF Satisfied
  <2> QED
    BY <1>1, <2>1, <2>2, DrainRanks
<1>5. CASE ~Satisfied
  <2>1. /\ pc' = "walk" /\ turn' = turn /\ slots' = slots /\ table' = table /\ left' = left
        /\ results' = results /\ answer' = answer /\ offered' = offered
    BY <1>5 DEF RestBucket, walk, heap
  <2>2. PICK q : q = Slot /\ q = Slot'
    BY <2>1 DEF Slot
  <2>3. Sink(q)'
    BY <1>1, <1>3, <2>1, <2>2, RestKeepsSink
  <2>4. BucketsStand'
    BY <1>1, <1>3, <2>1, BucketsWait
  <2>5. AnswersUpTo(turn)'
    <3>1. PICK n : n = turn
      OBVIOUS
    <3>2. AnswersUpTo(n)'
      BY <1>1, <2>1, <3>1, AnswersStay
    <3> QED
      BY <2>1, <3>1, <3>2
  <2>6. BucketWalks'
    <3>1. HasVector(q)' /\ \A x : RowsWith(q, x)' = RowsWith(q, x)
      BY <1>3, <2>2, RowsStay
    <3> QED
      BY <1>1, <2>1, <2>2, <2>3, <3>1 DEF BucketWalks
  <2> QED
    BY <1>1, <2>1, <2>4, <2>5, <2>6 DEF RanksInv
<1> QED
  BY <1>4, <1>5

\* It stands when one thing is offered.
LEMMA OfferOneRanks ==
  ASSUME TypeInv, RanksInv, Ranks, UNCHANGED setting, OfferOne
  PROVE  RanksInv'
<1>1. pc = "offer" /\ results = {} /\ BucketsStand /\ BucketWalks /\ AnswersUpTo(turn)
  BY DEF OfferOne, RanksInv
<1>2. PICK o \in work : Take(o) /\ work' = work \ {o}
  BY DEF OfferOne
<1>3. /\ pc' = pc /\ turn' = turn /\ slots' = slots /\ table' = table /\ left' = left /\ here' = here
      /\ results' = results /\ answer' = answer
  BY DEF OfferOne
<1>4. PICK q : q = Slot /\ q = Slot'
  BY <1>3 DEF Slot
<1>5. Sink(q)'
  BY <1>1, <1>2, <1>3, <1>4, OfferKeepsSink DEF BucketWalks
<1>6. BucketsStand'
  BY <1>1, <1>3, BucketsWait DEF BucketWalks
<1>7. AnswersUpTo(turn)'
  <2>1. PICK n : n = turn
    OBVIOUS
  <2>2. AnswersUpTo(n)'
    BY <1>1, <1>3, <2>1, AnswersStay
  <2> QED
    BY <1>3, <2>1, <2>2
<1>8. BucketWalks'
  <2>1. HasVector(q)' /\ \A x : RowsWith(q, x)' = RowsWith(q, x)
    BY <1>1, <1>4, RowsStay DEF BucketWalks
  <2> QED
    BY <1>1, <1>3, <1>4, <1>5, <2>1 DEF BucketWalks
<1> QED
  BY <1>1, <1>3, <1>6, <1>7, <1>8 DEF RanksInv

(***************************************************************************)
(* pre.                                                                    *)
(***************************************************************************)
\* A plain clause has one query, and all rows are of it.
LEMMA PlainIs ==
  ASSUME TypeInv, ~Correlated
  PROVE  /\ Fixed \in Queries /\ \A v \in Visits : AnchorAt(v) = Fixed
         /\ \A r \in AllRows : QueryOf(r) = Fixed
         /\ Queries = {Fixed}
<1>1. \A v \in Visits : AnchorAt(v) = Fixed
  BY TurnHas, JobIs DEF IsJob, AnchorAt, Visits, Correlated
<1>2. \A r \in AllRows : QueryOf(r) = Fixed
  BY <1>1, RowsKnow DEF AllRows
<1> QED
  BY <1>1, <1>2 DEF Queries

\* The arm is of plain clauses: the rows pinned at a node are all that query's rows there.
LEMMA PreIsPlain ==
  ASSUME TypeInv, job.arm = "pre"
  PROVE  ~Correlated /\ Fixed \in Queries /\ \A x : RowsPinned(x) = RowsWith(Fixed, x)
<1>1. ~Correlated
  BY TurnHas, JobIs DEF IsJob, Correlated
<1> QED
  BY <1>1, PlainIs DEF RowsPinned, RowsWith

\* What is known of the arm stands when the corpus is opened.
LEMMA OpenCorpusPre ==
  ASSUME TypeInv, SourcesAreExact, PreInv, job.arm = "pre", UNCHANGED setting, OpenCorpus
  PROVE  PreInv'
<1>1. pc = "gather" /\ results = {} /\ answer = <<>> /\ offered = {} /\ SettingIsChosen /\ HeapInv
  BY TurnHas DEF OpenCorpus, PreInv
<1>2. /\ pc' = "walk" /\ results' = results /\ answer' = answer /\ left' = StreamOf(Fixed)
      /\ offered' = offered /\ held' = held
  BY DEF OpenCorpus, heap
<1>3. held = {}
  BY <1>1 DEF HeapInv, ThresholdIsSound
<1>4. CASE HasVector(Fixed)
  <2>1. PICK entries : entries = StreamOf(Fixed)
    OBVIOUS
  <2>2. entries = Ranked(stream[Fixed])
    BY <1>4, <2>1 DEF StreamOf
  <2>3. InOrder(Fixed, entries) /\ \A x : IsRanked(Fixed, x) => \E e \in entries : e.id = x
    BY <1>1, <1>4, <2>2, SourceIsInOrder, SourceIsWhole
  <2>4. HasVector(Fixed)' /\ InOrder(Fixed, entries)' /\ UnitsOf(Fixed)' = UnitsOf(Fixed)
    BY <1>4, <2>3, RowsStay, FitsStay
  <2>5. Walking(Fixed)' /\ SinkFits(Fixed)'
    BY <1>1, <1>2, <2>1, <2>4 DEF Walking, SinkFits, EntriesFit
  <2>6. \A u \in UnitsOf(Fixed) : \E r \in u : \E e \in entries : e.id = r.id
    <3> SUFFICES ASSUME NEW u \in UnitsOf(Fixed) PROVE \E r \in u : \E e \in entries : e.id = r.id
      OBVIOUS
    <3>1. PICK r \in u : r \in RowsOf(Fixed)
      BY UnitIs
    <3>2. IsRanked(Fixed, r.id)
      BY <3>1, RowsOfIs
    <3> QED
      BY <2>3, <3>2
  <2>7. SinkWalks(Fixed)'
    BY <1>1, <1>2, <2>1, <2>4, <2>6 DEF SinkWalks, IsAhead
  <2>8. Sink(Fixed)'
    BY <2>5, <2>7 DEF Sink
  <2> QED
    BY <1>1, <1>2, <2>4, <2>8 DEF PreInv
<1>5. CASE ~HasVector(Fixed)
  <2>1. ~HasVector(Fixed)'
    BY <1>5, RowsStay
  <2>2. left' = {}
    BY <1>2, <1>5 DEF StreamOf
  <2> QED
    BY <1>1, <1>2, <1>3, <2>1, <2>2 DEF PreInv
<1> QED
  BY <1>4, <1>5

\* It stands when a heap that is ready is drained.
LEMMA DrainPre ==
  ASSUME TypeInv, SourcesAreExact, PreInv, job.arm = "pre", UNCHANGED setting, pc # "done",
         HasVector(Fixed) => IsReady(Fixed), ~HasVector(Fixed) => left = {} /\ held = {} /\ offered = {}, Drain("done")
  PROVE  PreInv'
<1>1. answer = <<>> /\ results = {} /\ SettingIsChosen /\ HeapInv /\ Fixed \in Queries
  BY TurnHas, PreIsPlain DEF PreInv
<1>2. /\ answer' = answer \o Drained(Fixed) /\ pc' = "done" /\ results' = results /\ left' = left
      /\ held' = held /\ offered' = offered
  BY DEF Drain, heap
<1>3. \A e \in held : e.payload \subseteq AllRows
  <2>1. CASE HasVector(Fixed)
    <3>1. \A e \in held : e.payload \subseteq RowsOf(Fixed)
      BY <2>1 DEF IsReady, Fits
    <3> QED
      BY <3>1 DEF RowsOf
  <2>2. CASE ~HasVector(Fixed)
    BY <2>2
  <2> QED
    BY <2>1, <2>2
<1>4. Drained(Fixed) \in Seq(Answers) /\ \A i \in DOMAIN Drained(Fixed) : Drained(Fixed)[i].query = Fixed
  BY <1>1, <1>3, DrainedIs
<1>5. PICK b : b = Drained(Fixed)
  OBVIOUS
<1>6. answer' = b
  <2>1. b \in Seq(Answers)
    BY <1>4, <1>5
  <2> QED
    BY <1>1, <1>2, <1>5, <2>1
<1>7. CASE HasVector(Fixed)
  <2>1. PICK a, c : a = <<>> /\ c = answer'
    OBVIOUS
  <2>2. a \in Seq(Answers) /\ (\A i \in DOMAIN a : a[i].query # Fixed) /\ c = a \o Drained(Fixed)
    BY <1>1, <1>2, <2>1
  <2>3. NearestIn(c, Fixed)
    BY <1>1, <1>4, <1>7, <2>2, ReadyIsNearest
  <2>4. NearestIn(c, Fixed)'
    BY <2>3, NearestStays
  <2>5. IsNearest(Fixed)'
    BY <2>1, <2>4, NearestIsIn
  <2> QED
    BY <1>1, <1>2, <1>4, <1>5, <1>6, <1>7, <2>5, RowsStay DEF PreInv
<1>8. CASE ~HasVector(Fixed)
  <2>1. Len(DrainSorted(held)) = 0 /\ DrainSorted(held) \in Seq(held)
    BY <1>1, <1>8, DrainSortedIs, FS_EmptySet
  <2>2. PICK list : list = DrainSorted(held)
    OBVIOUS
  <2>3. DOMAIN list = {}
    BY <2>1, <2>2
  <2>4. DOMAIN b = {}
    BY <1>5, <2>2, <2>3 DEF Drained
  <2>5. b = <<>>
    BY <1>4, <1>5, <2>4
  <2> QED
    BY <1>1, <1>2, <1>6, <1>8, <2>5, RowsStay DEF PreInv
<1> QED
  BY <1>7, <1>8

\* It stands after a neighbour of the corpus, and when the walk is cut there.
LEMMA PopCorpusPre ==
  ASSUME TypeInv, SourcesAreExact, PreInv, job.arm = "pre", UNCHANGED setting, ~tripped', PopCorpus
  PROVE  PreInv'
<1>1. /\ pc = "walk" /\ results = {} /\ answer = <<>> /\ SettingIsChosen /\ HeapInv /\ left \subseteq Neighbour
      /\ HasVector(Fixed) => Sink(Fixed)
      /\ ~HasVector(Fixed) => left = {} /\ offered = {} /\ held = {}
  BY TurnHas DEF PopCorpus, PreInv
<1>2. CASE left = {}
  <2>1. Drain("done")
    BY <1>2 DEF PopCorpus
  <2>2. HasVector(Fixed) => IsReady(Fixed)
    BY <1>1, <1>2, WalkedIsReady
  <2> QED
    BY <1>1, <2>1, <2>2, DrainPre
<1>3. CASE left # {}
  <2>1. HasVector(Fixed) /\ Sink(Fixed)
    BY <1>1, <1>3
  <2>2. PICK e \in left :
          /\ IsNext(e)
          /\ \/ Past(held, job.k, e.dist, job.slack) /\ Drain("done")
             \/ /\ left' = left \ {e} /\ here' = e
                /\ \E rows \in SUBSET RowsPinned(e.id) :
                     /\ rows # RowsPinned(e.id) => tripped'
                     /\ IF rows = {} THEN UNCHANGED <<work, pc>>
                        ELSE work' = OffersFor(e.dist, e.id, rows) /\ pc' = "offer"
                /\ UNCHANGED <<turn, slots, table, cur, base, results, answer, heap>>
    BY <1>3 DEF PopCorpus
  <2>3. CASE Past(held, job.k, e.dist, job.slack) /\ Drain("done")
    <3>1. IsReady(Fixed)
      BY <1>1, <2>1, <2>2, <2>3, PastIsReady
    <3> QED
      BY <1>1, <2>1, <2>3, <3>1, DrainPre
  <2>4. CASE /\ left' = left \ {e} /\ here' = e
             /\ \E rows \in SUBSET RowsPinned(e.id) :
                  /\ rows # RowsPinned(e.id) => tripped'
                  /\ IF rows = {} THEN UNCHANGED <<work, pc>>
                     ELSE work' = OffersFor(e.dist, e.id, rows) /\ pc' = "offer"
             /\ UNCHANGED <<turn, slots, table, cur, base, results, answer, heap>>
    <3>1. PICK rows : /\ rows = RowsWith(Fixed, e.id)
                      /\ IF rows = {} THEN UNCHANGED <<work, pc>>
                         ELSE work' = OffersFor(e.dist, e.id, rows) /\ pc' = "offer"
      BY <2>4, PreIsPlain
    <3>2. offered' = offered /\ results' = results /\ answer' = answer
      BY <2>4 DEF heap
    <3>3. \/ rows = {} /\ pc' = "walk"
          \/ rows # {} /\ pc' = "offer" /\ work' = OffersFor(e.dist, e.id, rows)
      BY <1>1, <3>1
    <3>4. Sink(Fixed)'
      BY <1>1, <2>1, <2>2, <2>4, <3>1, <3>2, <3>3, PopKeepsSink
    <3> QED
      BY <1>1, <2>1, <3>2, <3>3, <3>4, RowsStay DEF PreInv
  <2> QED
    BY <2>2, <2>3, <2>4
<1> QED
  BY <1>2, <1>3

\* It stands while rows are offered, and when they all have been.
LEMMA RestCorpusPre ==
  ASSUME TypeInv, PreInv, job.arm = "pre", UNCHANGED setting, RestCorpus \/ OfferOne
  PROVE  PreInv'
<1>1. /\ pc = "offer" /\ results = {} /\ answer = <<>> /\ HasVector(Fixed) /\ Sink(Fixed)
  BY DEF PreInv, RestCorpus, OfferOne
<1>2. HasVector(Fixed)'
  BY <1>1, RowsStay
<1>3. CASE RestCorpus
  <2>1. work = {} /\ pc' = "walk" /\ left' = left /\ offered' = offered /\ results' = results /\ answer' = answer
    BY <1>3 DEF RestCorpus, walk, heap
  <2>2. Sink(Fixed)'
    BY <1>1, <2>1, RestKeepsSink
  <2> QED
    BY <1>1, <1>2, <2>1, <2>2 DEF PreInv
<1>4. CASE OfferOne
  <2>1. PICK o \in work : Take(o) /\ work' = work \ {o}
    BY <1>4 DEF OfferOne
  <2>2. pc' = pc /\ left' = left /\ here' = here /\ results' = results /\ answer' = answer
    BY <1>4 DEF OfferOne
  <2>3. Sink(Fixed)'
    BY <1>1, <2>1, <2>2, OfferKeepsSink
  <2> QED
    BY <1>1, <1>2, <2>2, <2>3 DEF PreInv
<1> QED
  BY <1>3, <1>4

(***************************************************************************)
(* The join.                                                               *)
(***************************************************************************)
\* What has been found stays found, and what is beaten stays beaten.
LEMMA ResultsGrow ==
  ASSUME UNCHANGED setting, results \subseteq results'
  PROVE  /\ \A row : Found(row) => Found(row)'
         /\ \A q, d : Beaten(q, d) => Beaten(q, d)'
         /\ \A v, row : IsCovered(v, row) => IsCovered(v, row)'
<1>1. \A row : Found(row) => Found(row)'
  BY DEF Found
<1>2. ASSUME NEW q, NEW d, Beaten(q, d) PROVE Beaten(q, d)'
  <2>1. \A r : r \in ResultsOf(q) => r \in ResultsOf(q)'
    BY SettingStays DEF ResultsOf
  <2>2. \A r : RKey(r)' = RKey(r)
    BY RowsStay DEF RKey
  <2>3. PICK K : /\ K \subseteq {RKey(r) : r \in ResultsOf(q)} /\ Cardinality(K) = job.k
                 /\ \A x \in K : \E r \in ResultsOf(q) : RKey(r) = x /\ r.dist < d
    BY <1>2 DEF Beaten
  <2>4. K \subseteq {RKey(r) : r \in ResultsOf(q)}'
    BY <2>1, <2>2, <2>3
  <2>5. \A x \in K : \E r \in ResultsOf(q)' : RKey(r)' = x /\ r.dist < d
    BY <2>1, <2>2, <2>3
  <2>6. Cardinality(K) = job'.k
    BY <2>3, RowsStay
  <2> QED
    BY <2>4, <2>5, <2>6 DEF Beaten
<1>3. \A v, row : IsCovered(v, row) => IsCovered(v, row)'
  BY <1>1, <1>2, RowsStay DEF IsCovered
<1> QED
  BY <1>1, <1>2, <1>3

\* Beaten at a distance, beaten at a greater one.
LEMMA BeatenFarther ==
  ASSUME ResultsFit, SettingIsChosen, SourcesAreExact, NEW q, NEW d \in Int, NEW e \in Int, d <= e, Beaten(q, d)
  PROVE  Beaten(q, e)
<1>1. \A r \in results : r.dist \in Int
  <2> SUFFICES ASSUME NEW r \in results PROVE r.dist \in Int
    OBVIOUS
  <2>1. PICK p : p = QueryOf(r.row) /\ HasVector(p) /\ r.row \in RowsOf(p) /\ r.dist = Dist(p, r.row.id)
    BY DEF ResultsFit
  <2>2. IsRanked(p, r.row.id)
    BY <2>1, RowsOfIs
  <2> QED
    BY <2>1, <2>2, DistType
<1>2. \A r \in ResultsOf(q) : r.dist < d => r.dist < e
  <2> SUFFICES ASSUME NEW r \in ResultsOf(q), r.dist < d PROVE r.dist < e
    OBVIOUS
  <2>1. PICK a \in Int : a = r.dist
    BY <1>1 DEF ResultsOf
  <2> QED
    BY <2>1
<1> QED
  BY <1>2 DEF Beaten

\* k entries nearer than a distance are k results that are.
LEMMA BeatenByHeap ==
  ASSUME HeapInv, HasVector(cur), HeapStands, Cardinality(held) = job.k, NEW d, \A f \in held : f.dist < d
  PROVE  Beaten(cur, d)
<1>1. PICK w \in [offered -> results] : Stands(w)
  BY DEF HeapStands
<1>2. held \subseteq offered /\ IsFiniteSet(held)
  BY DEF HeapInv, ThresholdIsSound, HeapIsCounted
<1> DEFINE f == [e \in held |-> RKey(w[e])]
<1>3. \A e \in held : w[e] \in ResultsOf(cur) /\ w[e].dist < d
  BY <1>1, <1>2 DEF Stands, ResultsOf
<1>4. f = [e \in held |-> f[e]] /\ (\A e, g \in held : f[e] = f[g] => e = g) /\ \A e \in held : f[e] = RKey(w[e])
  BY <1>1, <1>2 DEF Stands
<1> HIDE DEF f
<1>5. PICK K : K = {f[e] : e \in held}
  OBVIOUS
<1>6. Cardinality(K) = job.k
  BY <1>2, <1>4, <1>5, InjectiveImage
<1>7. \A x \in K : \E r \in ResultsOf(cur) : RKey(r) = x /\ r.dist < d
  BY <1>3, <1>4, <1>5
<1>8. K \in SUBSET {RKey(r) : r \in ResultsOf(cur)}
  BY <1>7
<1> QED
  BY <1>6, <1>7, <1>8 DEF Beaten

\* The distance that matters is one of a ranking.
LEMMA HeldIsNear ==
  ASSUME HeapInv, HasVector(cur), HeapStands, ResultsFit, SettingIsChosen, SourcesAreExact
  PROVE  job.slack > 0 => \A f \in held : f.dist >= 0
<1> SUFFICES ASSUME job.slack > 0, NEW f \in held PROVE f.dist >= 0
  OBVIOUS
<1>1. PICK w \in [offered -> results] : Stands(w)
  BY DEF HeapStands
<1>2. f \in offered
  BY DEF HeapInv, ThresholdIsSound
<1>3. PICK r \in results : r = w[f] /\ r.dist = f.dist
  BY <1>1, <1>2 DEF Stands
<1>4. PICK p : p = QueryOf(r.row) /\ HasVector(p) /\ r.row \in RowsOf(p) /\ r.dist = Dist(p, r.row.id)
  BY DEF ResultsFit
<1>5. IsRanked(p, r.row.id)
  BY <1>4, RowsOfIs
<1> QED
  BY <1>3, <1>4, <1>5, DistType

\* A walk that has entries left has a next one.
LEMMA NextIs ==
  ASSUME left \subseteq Neighbour, left # {}
  PROVE  \E e \in left : IsNext(e)
<1>1. PICK S : S = {e.rank : e \in left}
  OBVIOUS
<1>2. S \in SUBSET Nat /\ S # {}
  BY <1>1 DEF Neighbour
<1>3. PICK i \in S : \A j \in S : i <= j
  BY <1>2, LeastNatural
<1>4. PICK e \in left : e.rank = i
  BY <1>1, <1>3
<1> QED
  BY <1>1, <1>3, <1>4 DEF IsNext

\* Where a walk ends, what is still ahead is beaten.
LEMMA EndIsBeaten ==
  ASSUME TypeInv, SourcesAreExact, JoinStands, HasVector(cur), InOrder(cur, left), WalkEnds,
         NEW x, IsAhead(x)
  PROVE  Beaten(cur, Dist(cur, x))
<1>1. SettingIsChosen /\ HeapInv /\ left \subseteq Neighbour /\ HeapStands /\ ResultsFit
  BY TurnHas DEF JoinStands
<1>2. PICK l \in left : l.id = x
  BY DEF IsAhead
<1>3. PICK e \in left : IsNext(e)
  BY <1>1, <1>2, NextIs
<1>4. Past(held, job.k, e.dist, job.slack)
  BY <1>3 DEF WalkEnds
<1>5. job.slack \in Nat /\ e.dist \in Int /\ l.dist \in Int
  BY <1>1, JobIs DEF IsJob, Neighbour
<1>6. Cardinality(held) = job.k /\ \A f \in held : f.dist < e.dist
  BY <1>1, <1>4, <1>5, HeldIsNear, PastIs
<1>7. Beaten(cur, e.dist)
  BY <1>1, <1>6, BeatenByHeap
<1>8. e.dist <= l.dist
  <2>1. CASE e = l
    BY <1>5, <2>1
  <2>2. CASE e # l
    <3>1. Ahead(cur, e, left \ {e})
      BY <1>1, <1>3, WalkGoesOn
    <3> QED
      BY <2>2, <3>1 DEF Ahead
  <2> QED
    BY <2>1, <2>2
<1>9. l.dist = Dist(cur, x)
  BY <1>2 DEF InOrder
<1>10. Beaten(cur, l.dist)
  BY <1>1, <1>5, <1>7, <1>8, BeatenFarther
<1> QED
  BY <1>9, <1>10

\* Pointing the context at an anchor.
LEMMA RetargetJoins ==
  ASSUME JoinStands, UNCHANGED setting, NEW q, Retarget(q), results' = results, answer' = answer,
         cur = q /\ HasVector(q) => base = q
  PROVE  JoinStands' /\ cur' = q /\ (HasVector(q) => base' = q)
<1>1. cur' = q /\ (HasVector(q) => base' = q)
  BY DEF Retarget
<1>2. ResultsFit'
  BY RowsStay, SettingStays DEF JoinStands, ResultsFit
<1>3. HeapStands'
  <2>1. CASE ~HasVector(q)
    <3>1. ~HasVector(q)'
      BY <2>1, RowsStay
    <3> QED
      BY <1>1, <3>1 DEF HeapStands
  <2>2. CASE HasVector(q) /\ cur # q
    <3>1. offered' = {}
      BY <2>2 DEF Retarget, Emptied
    <3>2. PICK w : w = [e \in {} |-> e]
      OBVIOUS
    <3>3. w \in [offered' -> results'] /\ Stands(w)'
      BY <3>1, <3>2 DEF Stands
    <3> QED
      BY <3>3 DEF HeapStands
  <2>3. CASE HasVector(q) /\ cur = q
    <3>1. offered' = offered
      BY <2>3 DEF Retarget, heap
    <3>2. PICK w \in [offered -> results] : Stands(w)
      BY <2>3 DEF JoinStands, HeapStands
    <3>3. \A r : RKey(r)' = RKey(r)
      BY RowsStay DEF RKey
    <3>4. Stands(w)'
      BY <1>1, <2>3, <3>1, <3>2, <3>3, RowsStay, SettingStays DEF Stands
    <3> QED
      BY <3>1, <3>2, <3>4 DEF HeapStands
  <2> QED
    BY <2>1, <2>2, <2>3
<1> QED
  BY <1>1, <1>2, <1>3 DEF JoinStands

\* A turn that leaves the results and the heap alone.
LEMMA JoinStays ==
  ASSUME JoinStands, UNCHANGED setting, results' = results, answer' = answer, offered' = offered, cur' = cur
  PROVE  JoinStands'
<1>1. ResultsFit'
  BY RowsStay, SettingStays DEF JoinStands, ResultsFit
<1>2. \A r : RKey(r)' = RKey(r)
  BY RowsStay DEF RKey
<1>3. \A w : Stands(w) => Stands(w)'
  BY <1>2, RowsStay, SettingStays DEF Stands
<1>4. HeapStands'
  BY <1>3, RowsStay DEF JoinStands, HeapStands
<1> QED
  BY <1>1, <1>4 DEF JoinStands

\* The results of the rows of a base case: one each.
Fresh(c, d, n) == {[row |-> r, dist |-> d, nth |-> n] : r \in c}
\* Every row has its result, every result its row, all at the distance given.
LEMMA FreshIs ==
  ASSUME NEW c, NEW d, NEW n
  PROVE  /\ \A r \in Fresh(c, d, n) : r.row \in c /\ r.dist = d
         /\ \A r, s \in Fresh(c, d, n) : r.row = s.row => r = s
         /\ \A row \in c : \E r \in Fresh(c, d, n) : r.row = row
<1>n. PICK new : new = {[row |-> r, dist |-> d, nth |-> n] : r \in c} /\ new = Fresh(c, d, n)
  BY DEF Fresh
<1>1. \A r \in new : r.row \in c /\ r = [row |-> r.row, dist |-> d, nth |-> n]
  BY <1>n
<1>2. \A r \in new : r.row \in c /\ r.dist = d
  BY <1>n
<1>3. \A r, s \in new : r.row = s.row => r = s
  BY <1>1
<1>4. ASSUME NEW row \in c PROVE \E r \in new : r.row = row
  <2>1. PICK r : r = [row |-> row, dist |-> d, nth |-> n]
    OBVIOUS
  <2>2. r \in new /\ r.row = row
    BY <1>n, <2>1
  <2> QED
    BY <2>2
<1> QED
  BY <1>n, <1>2, <1>3, <1>4

\* Completing a base case: its rows are new results, and the threshold counts it, or its binding, once.
LEMMA DescendJoins ==
  ASSUME SettingIsChosen, HeapInv, SourcesAreExact, UNCHANGED setting, JoinStands, HasVector(cur),
         IsRanked(cur, here.id), here.dist = Dist(cur, here.id), WorkIsNew,
         NEW c \in work, c # {}, \A row \in c : row \in AllRows /\ QueryOf(row) = cur /\ row.id = here.id,
         results' = results \cup {[row |-> r, dist |-> here.dist, nth |-> Cardinality(results)] : r \in c},
         Accept(here.id, here.dist), work' = work \ {c}, cur' = cur, answer' = answer
  PROVE  /\ JoinStands' /\ WorkIsNew' /\ results \subseteq results'
         /\ \A row \in c : Found(row)'
         /\ \A r \in results' : r \in results \/ r.row \in c
         /\ \A e \in offered' : e \in offered \/ e.dist = here.dist
<1>1. PICK new : new = {[row |-> r, dist |-> here.dist, nth |-> Cardinality(results)] : r \in c}
  OBVIOUS
<1>2. results' = results \cup new
  BY <1>1
<1>f. /\ \A r \in new : r.row \in c /\ r.dist = here.dist
      /\ \A r, s \in new : r.row = s.row => r = s
      /\ \A row \in c : \E r \in new : r.row = row
  <2>1. PICK d, n : d = here.dist /\ n = Cardinality(results)
    OBVIOUS
  <2>2. new = Fresh(c, d, n)
    BY <1>1, <2>1 DEF Fresh
  <2>3. /\ \A r \in new : r.row \in c /\ r.dist = d
        /\ \A r, s \in new : r.row = s.row => r = s
        /\ \A row \in c : \E r \in new : r.row = row
    BY <2>2, FreshIs
  <2> QED
    BY <2>1, <2>3
<1>3. \A r \in new : r.row \in c /\ r.dist = here.dist
  BY <1>f
<1>4. \A r, s \in new : r.row = s.row => r = s
  BY <1>f
<1>5. \A row \in c : \E r \in new : r.row = row
  BY <1>f
<1>6. \A r \in results : r.row \notin c
  BY DEF WorkIsNew
<1>7. \A row \in c : row \in RowsOf(cur)
  BY RowsOfIs
<1>8. ResultsFit'
  <2>1. \A r \in results' : HasVector(QueryOf(r.row)) /\ r.row \in RowsOf(QueryOf(r.row)) /\ r.dist = Dist(QueryOf(r.row), r.row.id)
    BY <1>2, <1>3, <1>7 DEF JoinStands, ResultsFit
  <2>2. \A r, s \in results' : r.row = s.row => r = s
    BY <1>2, <1>3, <1>4, <1>6 DEF JoinStands, ResultsFit
  <2> QED
    BY <2>1, <2>2, RowsStay, SettingStays DEF ResultsFit
<1>9. PICK w \in [offered -> results] : Stands(w)
  BY DEF JoinStands, HeapStands
<1>10. \A r : RKey(r)' = RKey(r)
  BY RowsStay DEF RKey
<1>11. ASSUME Distinct /\ \E e \in offered : e.id = here.id
       PROVE  HeapStands' /\ \A e \in offered' : e \in offered \/ e.dist = here.dist
  <2>1. offered' = offered
    BY <1>11 DEF Accept, heap
  <2>2. w \in [offered' -> results'] /\ Stands(w)'
    <3>1. w \in [offered' -> results']
      BY <1>2, <2>1
    <3>2. Stands(w)'
      BY <1>2, <1>9, <1>10, <2>1, RowsStay, SettingStays DEF Stands
    <3> QED
      BY <3>1, <3>2
  <2>3. HeapStands'
    BY <2>2 DEF HeapStands
  <2> QED
    BY <2>1, <2>3
<1>12. ASSUME ~(Distinct /\ \E e \in offered : e.id = here.id)
       PROVE  HeapStands' /\ \A e \in offered' : e \in offered \/ e.dist = here.dist
  <2>1. PICK n \in Nat : n = seq
    BY DEF HeapInv, HeapIsCounted
  <2>2. PICK e : e = Entry(here.dist, n + 1, here.id, {})
    OBVIOUS
  <2>3. offered' = offered \cup {e} /\ e.dist = here.dist /\ e.id = here.id /\ e.seq = n + 1
    BY <1>12, <2>1, <2>2 DEF Accept, Pushed, Entry
  <2>4. e \notin offered
    <3> SUFFICES ASSUME e \in offered PROVE FALSE
      OBVIOUS
    <3>1. n + 1 \in 1..n
      BY <2>1, <2>3 DEF HeapInv, HeapIsCounted
    <3> QED
      BY <3>1
  <2>5. PICK r0 \in new : r0.row \in c /\ r0.dist = here.dist /\ r0.row.id = here.id /\ QueryOf(r0.row) = cur
    BY <1>3, <1>5
  <2>6. PICK v : v = [f \in offered' |-> IF f \in offered THEN w[f] ELSE r0]
    OBVIOUS
  <2>7. v[e] = r0 /\ \A f \in offered : v[f] = w[f]
    BY <2>3, <2>4, <2>6
  <2>8. v \in [offered' -> results']
    BY <1>2, <1>9, <2>6
  <2>9. \A f \in offered : RKey(w[f]) # RKey(r0)
    <3> SUFFICES ASSUME NEW f \in offered PROVE RKey(w[f]) # RKey(r0)
      OBVIOUS
    <3>1. CASE Distinct
      <4>1. w[f].row.id = f.id /\ f.id # here.id
        BY <1>9, <1>12, <3>1 DEF Stands
      <4> QED
        BY <2>5, <3>1, <4>1 DEF RKey
    <3>2. CASE ~Distinct
      <4>1. w[f].row \notin c
        BY <1>6, <1>9 DEF Stands
      <4> QED
        BY <2>5, <3>2, <4>1 DEF RKey
    <3> QED
      BY <3>1, <3>2
  <2>10. Stands(v)'
    <3>1. ASSUME NEW f \in offered'
          PROVE  /\ v[f] \in results' /\ v[f].dist = f.dist /\ QueryOf(v[f].row) = cur /\ (Distinct => v[f].row.id = f.id)
      <4>1. CASE f = e
        BY <2>3, <2>5, <2>7, <4>1, <1>2
      <4>2. CASE f \in offered
        <5>1. v[f] = w[f]
          BY <2>7, <4>2
        <5>2. w[f] \in results /\ w[f].dist = f.dist /\ QueryOf(w[f].row) = cur /\ (Distinct => w[f].row.id = f.id)
          BY <1>9, <4>2 DEF Stands
        <5> QED
          BY <1>2, <5>1, <5>2
      <4> QED
        BY <2>3, <4>1, <4>2
    <3>2. ASSUME NEW f \in offered', NEW g \in offered', RKey(v[f]) = RKey(v[g]) PROVE f = g
      <4>1. CASE f = e /\ g = e
        BY <4>1
      <4>2. CASE f = e /\ g \in offered
        BY <2>7, <2>9, <3>2, <4>2
      <4>3. CASE f \in offered /\ g = e
        BY <2>7, <2>9, <3>2, <4>3
      <4>4. CASE f \in offered /\ g \in offered
        BY <1>9, <2>7, <3>2, <4>4 DEF Stands
      <4> QED
        BY <2>3, <4>1, <4>2, <4>3, <4>4
    <3> QED
      BY <1>10, <3>1, <3>2, RowsStay, SettingStays DEF Stands
  <2>11. HeapStands'
    BY <2>8, <2>10 DEF HeapStands
  <2> QED
    BY <2>3, <2>11
<1>13. HeapStands' /\ \A e \in offered' : e \in offered \/ e.dist = here.dist
  BY <1>11, <1>12
<1>14. JoinStands'
  BY <1>8, <1>13 DEF JoinStands
<1>15. WorkIsNew'
  BY <1>2, <1>3 DEF WorkIsNew
<1>16. \A row \in c : Found(row)'
  BY <1>2, <1>5 DEF Found
<1> QED
  BY <1>2, <1>3, <1>13, <1>14, <1>15, <1>16

\* The base cases of a candidate part its rows among themselves.
LEMMA CasesPart ==
  ASSUME NEW v \in Visits, NEW x \in Candidates(v)
  PROVE  /\ \A c \in BaseCases(v, x) : c \subseteq RowsAt(v) /\ (\A row \in c : row.id = x) /\ IsCase(c)
         /\ \A c, d \in BaseCases(v, x) : c # d => c \cap d = {}
         /\ \A row \in RowsAt(v) : row.id = x => \E c \in BaseCases(v, x) : row \in c
<1>1. \A c \in BaseCases(v, x) : \E b \in DOMAIN job.visits[v].fan[x] : c = BaseCase(v, x, b)
  BY DEF BaseCases
<1>2. \A b : \A row \in BaseCase(v, x, b) : row.id = x /\ row.base = b
  BY DEF BaseCase
<1>3. \A c \in BaseCases(v, x) : c \subseteq RowsAt(v) /\ (\A row \in c : row.id = x) /\ IsCase(c)
  BY <1>1, <1>2 DEF RowsAt, IsCase
<1>4. \A c, d \in BaseCases(v, x) : c # d => c \cap d = {}
  BY <1>1, <1>2
<1>5. ASSUME NEW row \in RowsAt(v), row.id = x PROVE \E c \in BaseCases(v, x) : row \in c
  <2>1. PICK y \in Candidates(v) : row \in UNION BaseCases(v, y)
    BY DEF RowsAt
  <2>2. PICK c \in BaseCases(v, y) : row \in c
    BY <2>1
  <2>3. y = x
    BY <1>5, <2>2 DEF BaseCases, BaseCase
  <2> QED
    BY <2>2, <2>3
<1> QED
  BY <1>3, <1>4, <1>5

(***************************************************************************)
(* interleave.                                                             *)
(***************************************************************************)
\* The end of the join gathers what the selection needs.
LEMMA VisitsAreGathered ==
  ASSUME TypeInv, InterleaveInv, JoinStands, VisitStands, turn > Len(job.visits), UNCHANGED setting, StartSelect
  PROVE  SelectStands' /\ pc' = "pick"
<1>1. SettingIsChosen /\ turn \in Nat
  BY TurnHas
<1>2. turn' = 1 /\ slots' = QueriesSeen /\ results' = results /\ answer' = answer /\ pc' = "pick"
  BY DEF StartSelect
<1>3. ResultsFit' /\ answer' = <<>>
  BY <1>2, RowsStay, SettingStays DEF JoinStands, ResultsFit
<1>4. OneToOne(slots)' /\ Range(slots)' = {QueryOf(r.row) : r \in results}'
  <2>1. ResultsAreNumbered
    BY DEF TypeInv, Typed, ResultsAreTyped
  <2>2. OneToOne(QueriesSeen) /\ Range(QueriesSeen) = {QueryOf(r.row) : r \in results}
    BY <2>1, QueriesSeenIs
  <2>3. {QueryOf(r.row) : r \in results}' = {QueryOf(r.row) : r \in results}
    BY <1>2, SettingStays
  <2>4. PICK list : list = QueriesSeen
    OBVIOUS
  <2> QED
    BY <1>2, <2>2, <2>3
<1>5. \A v \in Visits : v < turn
  BY <1>1, JobIs
<1>6. \A q, row : HasVector(q) /\ row \in RowsOf(q) => Found(row) \/ Beaten(q, Dist(q, row.id))
  <2> SUFFICES ASSUME NEW q, NEW row \in RowsOf(q), HasVector(q) PROVE Found(row) \/ Beaten(q, Dist(q, row.id))
    OBVIOUS
  <2>1. row \in AllRows /\ QueryOf(row) = q
    BY RowsOfIs
  <2>2. PICK v \in Visits : row \in RowsAt(v)
    BY <2>1 DEF AllRows
  <2>3. AnchorAt(v) = q
    BY <2>1, <2>2, RowsKnow
  <2> QED
    BY <1>5, <2>2, <2>3 DEF VisitStands, IsCovered
<1>7. \A q, row : HasVector(q)' /\ row \in RowsOf(q)' => IsGathered(q, row)'
  <2>1. \A row : Found(row) => Found(row)'
    BY <1>2, ResultsGrow
  <2>2. \A q, row : Beaten(q, Dist(q, row.id)) => Beaten(q, Dist(q, row.id))'
    <3> SUFFICES ASSUME NEW q, NEW row, Beaten(q, Dist(q, row.id)) PROVE Beaten(q, Dist(q, row.id))'
      OBVIOUS
    <3>1. PICK d : d = Dist(q, row.id) /\ d = Dist(q, row.id)'
      BY RowsStay
    <3>2. Beaten(q, d)'
      BY <1>2, <3>1, ResultsGrow
    <3> QED
      BY <3>1, <3>2
  <2> QED
    BY <1>6, <2>1, <2>2, RowsStay DEF IsGathered, IsClosed
<1>8. AnswersUpTo(turn)'
  <2>1. <<>> \in Seq(Answers')
    OBVIOUS
  <2>2. slots' \in Seq({QueryOf(r.row) : r \in results})
    <3>1. ResultsAreNumbered
      BY DEF TypeInv, Typed, ResultsAreTyped
    <3> QED
      BY <1>2, <3>1, QueriesSeenIs
  <2>3. \A j \in DOMAIN slots' : ~(j < 1)
    BY <2>2
  <2> QED
    BY <1>2, <1>3, <2>1, <2>3 DEF AnswersUpTo
<1> QED
  BY <1>2, <1>3, <1>4, <1>7, <1>8 DEF SelectStands

\* The rows of the visits done stay covered while the results grow.
LEMMA VisitStays ==
  ASSUME VisitStands, UNCHANGED setting, results \subseteq results', turn' = turn, cur' = cur, base' = base
  PROVE  VisitStands'
<1>1. \A v, row : IsCovered(v, row) => IsCovered(v, row)'
  BY ResultsGrow
<1> QED
  BY <1>1, RowsStay, SettingStays DEF VisitStands

\* The next visit waits.
LEMMA NextVisitWaits ==
  ASSUME TypeInv, UNCHANGED setting, turn \in Visits, VisitStands, turn' = turn + 1, cur' = AnchorAt(turn),
         results' = results, \A r \in results : r.row.visit <= turn,
         \A row \in RowsAt(turn) : IsCovered(turn, row),
         HasVector(AnchorAt(turn)) => base' = AnchorAt(turn)
  PROVE  VisitWaits' /\ VisitStands'
<1>1. PICK n \in Nat \ {0} : n = turn
  BY TurnHas
<1>2. turn' = n + 1 /\ turn' > 1 /\ turn' - 1 = n
  BY <1>1
<1>3. VisitWaits'
  <2>1. cur' = AnchorAt(n)' /\ n \in Visits'
    BY <1>1, RowsStay, SettingStays
  <2>2. \A r \in results' : r.row.visit < turn'
    <3> SUFFICES ASSUME NEW r \in results PROVE r.row.visit < n + 1
      BY <1>2
    <3>1. r.row.visit \in Visits
      <4>1. r.row \in AllRows
        BY DEF TypeInv, Typed, ResultsAreTyped
      <4> QED
        BY <4>1, RowsKnow DEF AllRows
    <3>2. r.row.visit \in Nat
      BY <3>1, TurnHas, JobIs
    <3> QED
      BY <1>1, <3>2
  <2> QED
    BY <1>2, <2>1, <2>2 DEF VisitWaits
<1>4. VisitStands'
  <2>1. \A v \in Visits : v < n + 1 => v < n \/ v = n
    BY TurnHas, JobIs
  <2>2. \A v \in Visits : v < n + 1 => \A row \in RowsAt(v) : IsCovered(v, row)
    BY <1>1, <2>1 DEF VisitStands
  <2>3. \A v, row : IsCovered(v, row) => IsCovered(v, row)'
    BY ResultsGrow
  <2>4. \A v \in Visits' : v < turn' => \A row \in RowsAt(v)' : IsCovered(v, row)'
    BY <1>2, <2>2, <2>3, RowsStay, SettingStays
  <2>5. HasVector(cur)' => base' = cur'
    BY RowsStay
  <2> QED
    BY <2>4, <2>5 DEF VisitStands
<1> QED
  BY <1>3, <1>4

\* The end of the join, as the two arms leave it.
LEMMA EndInterleaves ==
  ASSUME SelectStands', pc' = "pick"
  PROVE  InterleaveInv' /\ SelectInv'
BY DEF InterleaveInv, SelectInv

\* Walking the candidates of a visit.
LEMMA EnterWalks ==
  ASSUME TypeInv, SourcesAreExact, NoStaleVisit, job.arm = "interleave", UNCHANGED setting,
         JoinStands, VisitStands, VisitWaits, turn \in Visits, NEW q, q = AnchorAt(turn), cur' = q, Retargeted(q),
         HasVector(q) => base' = q, ~HasVector(q) => base' = base,
         left' = RankingOf(q, base', Candidates(turn)), pc' = "walk", turn' = turn, results' = results
  PROVE  VisitWalks'
<1>1. SettingIsChosen /\ q \in Nat /\ turn \in Nat \ {0} /\ Visits = 1..Len(job.visits) /\ Len(job.visits) \in Nat
  BY TurnHas, JobIs
<1>2. PICK entries : entries = left'
  OBVIOUS
<1>3. CASE HasVector(q)
  <2>1. entries = RankingOf(q, q, Candidates(turn))
    BY <1>2, <1>3
  <2>2. InOrder(q, entries) /\ \A x \in Candidates(turn) : IsRanked(q, x) => \E e \in entries : e.id = x
    BY <1>1, <1>3, <2>1, WalkOpens
  <2>3. Walking(q)'
    <3>1. InOrder(q, entries)' /\ HasVector(q)'
      BY <1>3, <2>2, FitsStay, RowsStay
    <3> QED
      BY <1>2, <3>1 DEF Walking
  <2>4. \A row \in RowsAt(turn) : row \in RowsOf(q) => IsAhead(row.id)'
    <3> SUFFICES ASSUME NEW row \in RowsAt(turn), row \in RowsOf(q) PROVE \E e \in entries : e.id = row.id
      BY <1>2 DEF IsAhead
    <3>1. row.id \in Candidates(turn) /\ IsRanked(q, row.id)
      BY RowsKnow, RowsOfIs
    <3> QED
      BY <2>2, <3>1
  <2>5. \A r \in results : r.row.visit <= turn /\ r.row.visit # turn
    <3> SUFFICES ASSUME NEW r \in results PROVE r.row.visit <= turn /\ r.row.visit # turn
      OBVIOUS
    <3>1. r.row.visit < turn
      BY DEF VisitWaits
    <3>2. r.row.visit \in Visits
      <4>1. r.row \in AllRows
        BY DEF TypeInv, Typed, ResultsAreTyped
      <4> QED
        BY <4>1, RowsKnow DEF AllRows
    <3>3. PICK m \in Nat, n \in Nat : m = r.row.visit /\ n = turn
      BY <1>1, <3>2
    <3> QED
      BY <3>1, <3>3
  <2> QED
    BY <2>3, <2>4, <2>5, RowsStay, SettingStays DEF VisitWalks
<1>4. CASE ~HasVector(q)
  <2>1. cur = q
    BY <1>4 DEF Retargeted
  <2>2. left' = {}
    <3>1. CASE IsLocal
      BY <1>4, <3>1 DEF RankingOf, RankCandidates
    <3>2. CASE ~IsLocal /\ turn = 1
      <4>1. q = FirstAnchor /\ base = FirstAnchor
        BY <2>1, <3>2 DEF VisitWaits
      <4>2. left' = StreamOf(q)
        BY <1>4, <3>2, <4>1 DEF RankingOf
      <4> QED
        BY <1>4, <4>2 DEF StreamOf
    <3>3. CASE ~IsLocal /\ turn > 1
      <4>1. turn - 1 \in Visits /\ AnchorAt(turn - 1) = q /\ turn - 1 + 1 = turn
        BY <1>1, <2>1, <3>3 DEF VisitWaits
      <4>2. PICK m : m = turn - 1 /\ m \in 1..(Len(job.visits) - 1) /\ m + 1 = turn
        BY <1>1, <4>1
      <4>3. job \in Jobs /\ job.arm = "interleave" /\ job.source # "local"
        BY <1>1, <3>3 DEF SettingIsChosen, IsLocal
      <4>4. job.visits[m].anchor = job.visits[m + 1].anchor
        BY <4>1, <4>2 DEF AnchorAt
      <4>5. job.visits[m].anchor \in DOMAIN Rankings[job.corpus]
        BY <4>2, <4>3, <4>4 DEF NoStaleVisit
      <4>6. HasVector(q)
        BY <1>1, <4>1, <4>2, <4>5 DEF SettingIsChosen, HasVector, AnchorAt
      <4> QED
        BY <1>4, <4>6
    <3> QED
      BY <1>1, <3>1, <3>2, <3>3
  <2>3. ~HasVector(q)'
    BY <1>4, RowsStay
  <2>4. Walking(q)'
    BY <2>2, <2>3 DEF Walking
  <2>5. \A r \in results : r.row.visit <= turn
    <3> SUFFICES ASSUME NEW r \in results PROVE r.row.visit <= turn
      OBVIOUS
    <3>1. r.row.visit < turn
      BY DEF VisitWaits
    <3>2. r.row.visit \in Visits
      <4>1. r.row \in AllRows
        BY DEF TypeInv, Typed, ResultsAreTyped
      <4> QED
        BY <4>1, RowsKnow DEF AllRows
    <3>3. PICK m \in Nat, n \in Nat : m = r.row.visit /\ n = turn
      BY <1>1, <3>2
    <3> QED
      BY <3>1, <3>3
  <2> QED
    BY <2>2, <2>3, <2>4, <2>5, RowsStay, SettingStays DEF VisitWalks, IsAhead
<1> QED
  BY <1>3, <1>4

\* What is known of the arm stands when a visit is entered, passed, or was the last.
LEMMA EnterVisitInterleaves ==
  ASSUME TypeInv, SourcesAreExact, NoStaleVisit, job.arm = "interleave", UNCHANGED setting, ~tripped',
         InterleaveInv, EnterVisit
  PROVE  InterleaveInv' /\ SelectInv'
<1>1. pc = "visit" /\ JoinStands /\ VisitStands /\ VisitWaits /\ SettingIsChosen /\ ~Expired
  BY TurnHas DEF EnterVisit, InterleaveInv, Polled
<1>2. CASE turn > Len(job.visits)
  <2>1. StartSelect
    BY <1>2 DEF EnterVisit
  <2> QED
    BY <1>1, <1>2, <2>1, VisitsAreGathered, EndInterleaves
<1>3. CASE ~(turn > Len(job.visits))
  <2>1. turn \in Visits
    BY <1>1, <1>3, TurnHas, JobIs
  <2>2. PICK q : q = AnchorAt(turn)
    OBVIOUS
  <2>3. /\ Retarget(q)
        /\ IF Retargeted(q) /\ Candidates(turn) # {}
           THEN left' = RankingOf(q, base', Candidates(turn)) /\ pc' = "walk" /\ UNCHANGED turn
           ELSE NextVisit /\ UNCHANGED left
        /\ UNCHANGED <<slots, table, here, work, results, answer>>
    BY <1>1, <1>3, <2>2 DEF EnterVisit
  <2>4. JoinStands' /\ cur' = q /\ (HasVector(q) => base' = q)
    BY <1>1, <2>3, RetargetJoins DEF VisitStands
  <2>5. ~HasVector(q) => base' = base
    BY <2>3 DEF Retarget
  <2>6. CASE Retargeted(q) /\ Candidates(turn) # {}
    <3>1. left' = RankingOf(q, base', Candidates(turn)) /\ pc' = "walk" /\ turn' = turn /\ results' = results
      BY <2>3, <2>6
    <3>2. VisitWalks'
      BY <1>1, <2>1, <2>2, <2>4, <2>5, <2>6, <3>1, EnterWalks
    <3>3. VisitStands'
      <4>1. \A v, row : IsCovered(v, row) => IsCovered(v, row)'
        BY <3>1, ResultsGrow
      <4> QED
        BY <1>1, <2>4, <3>1, <4>1, RowsStay, SettingStays DEF VisitStands
    <3> QED
      BY <2>4, <3>1, <3>2, <3>3 DEF InterleaveInv, SelectInv
  <2>7. CASE ~(Retargeted(q) /\ Candidates(turn) # {})
    <3>1. turn' = turn + 1 /\ pc' = "visit" /\ results' = results
      BY <2>3, <2>7 DEF NextVisit, NextTurn
    <3>2. \A row \in RowsAt(turn) : IsCovered(turn, row)
      <4>1. CASE ~Retargeted(q)
        BY <2>2, <4>1 DEF Retargeted, IsCovered
      <4>2. CASE Candidates(turn) = {}
        BY <4>2 DEF RowsAt
      <4> QED
        BY <2>7, <4>1, <4>2
    <3>3. \A r \in results : r.row.visit <= turn
      <4> SUFFICES ASSUME NEW r \in results PROVE r.row.visit <= turn
        OBVIOUS
      <4>1. r.row.visit < turn
        BY <1>1 DEF VisitWaits
      <4>2. r.row.visit \in Visits
        <5>1. r.row \in AllRows
          BY DEF TypeInv, Typed, ResultsAreTyped
        <5> QED
          BY <5>1, RowsKnow DEF AllRows
      <4>3. PICK m \in Nat, n \in Nat : m = r.row.visit /\ n = turn
        BY <4>2, TurnHas, JobIs
      <4> QED
        BY <4>1, <4>3
    <3>4. VisitWaits' /\ VisitStands'
      BY <1>1, <2>1, <2>2, <2>4, <3>1, <3>2, <3>3, NextVisitWaits
    <3> QED
      BY <2>4, <3>1, <3>4 DEF InterleaveInv, SelectInv
  <2> QED
    BY <2>6, <2>7
<1> QED
  BY <1>2, <1>3

\* It stands after a candidate of the visit, and when the walk is cut there.
LEMMA PopVisitInterleaves ==
  ASSUME TypeInv, SourcesAreExact, job.arm = "interleave", UNCHANGED setting, ~tripped', InterleaveInv, PopVisit
  PROVE  InterleaveInv' /\ SelectInv'
<1>1. /\ pc = "walk" /\ JoinStands /\ VisitStands /\ VisitWalks /\ SettingIsChosen /\ ~Expired
      /\ left \subseteq Neighbour /\ HeapInv
  BY TurnHas DEF PopVisit, InterleaveInv, Polled
<1>2. /\ slots' = slots /\ cur' = cur /\ base' = base /\ results' = results /\ answer' = answer
      /\ held' = held /\ offered' = offered
      /\ IF WalkEnds THEN NextVisit /\ UNCHANGED <<left, here, work, table>>
         ELSE /\ UNCHANGED turn
              /\ \E e \in left :
                   /\ IsNext(e)
                   /\ IF e.id \notin Candidates(turn) THEN PassBy(e)
                      ELSE /\ left' = left \ {e} /\ here' = e
                           /\ work' = BaseCases(turn, e.id)
                           /\ pc' = "descend" /\ UNCHANGED table
  BY <1>1 DEF PopVisit, heap
<1>3. JoinStands'
  BY <1>1, <1>2, JoinStays
<1>4. PICK q : q = cur /\ q = AnchorAt(turn) /\ turn \in Visits
  BY <1>1 DEF VisitWalks
<1>5. CASE WalkEnds
  <2>1. turn' = turn + 1 /\ pc' = "visit"
    BY <1>2, <1>5 DEF NextVisit, NextTurn
  <2>2. \A row \in RowsAt(turn) : IsCovered(turn, row)
    <3> SUFFICES ASSUME NEW row \in RowsAt(turn), HasVector(q), row \in RowsOf(q)
                 PROVE  Found(row) \/ Beaten(q, Dist(q, row.id))
      BY <1>4 DEF IsCovered
    <3>1. Found(row) \/ IsAhead(row.id)
      BY <1>1, <1>4 DEF VisitWalks, Pending
    <3>2. InOrder(q, left)
      BY <1>1, <1>4 DEF VisitWalks, Walking
    <3>3. IsAhead(row.id) => Beaten(q, Dist(q, row.id))
      BY <1>1, <1>4, <1>5, <3>2, EndIsBeaten
    <3> QED
      BY <3>1, <3>3
  <2>3. \A r \in results : r.row.visit <= turn
    BY <1>1 DEF VisitWalks
  <2>4. HasVector(AnchorAt(turn)) => base' = AnchorAt(turn)
    BY <1>1, <1>2, <1>4 DEF VisitStands
  <2>5. VisitWaits' /\ VisitStands'
    BY <1>1, <1>2, <1>4, <2>1, <2>2, <2>3, <2>4, NextVisitWaits
  <2> QED
    BY <1>3, <2>1, <2>5 DEF InterleaveInv, SelectInv
<1>6. CASE ~WalkEnds
  <2>1. turn' = turn
    BY <1>2, <1>6
  <2>2. PICK e \in left :
          /\ IsNext(e)
          /\ IF e.id \notin Candidates(turn) THEN PassBy(e)
             ELSE /\ left' = left \ {e} /\ here' = e
                  /\ work' = BaseCases(turn, e.id)
                  /\ pc' = "descend" /\ UNCHANGED table
    BY <1>2, <1>6
  <2>3. HasVector(q) /\ InOrder(q, left)
    BY <1>1, <1>4 DEF VisitWalks, Walking
  <2>4. left' = left \ {e}
    BY <2>2 DEF PassBy
  <2>5. InOrder(q, left \ {e}) /\ Ahead(q, e, left \ {e})
    BY <1>1, <2>2, <2>3, WalkGoesOn
  <2>6. PICK rest : rest = left \ {e}
    OBVIOUS
  <2>7. HasVector(q)' /\ InOrder(q, rest)' /\ Ahead(q, e, rest)'
    BY <2>3, <2>5, <2>6, FitsStay, RowsStay
  <2>8. \A x : IsAhead(x) <=> IsAhead(x)' \/ x = e.id
    BY <2>4 DEF IsAhead
  <2>9. VisitStands'
    BY <1>1, <1>2, <2>1, VisitStays
  <2>10. \A r \in results : r.row.visit <= turn /\ (r.row.visit = turn => ~IsAhead(r.row.id)' /\ r.row.id # e.id)
    BY <1>1, <2>8 DEF VisitWalks
  <2>11. \A row \in RowsAt(turn) : row \in RowsOf(q) => Found(row) \/ row.id = e.id \/ IsAhead(row.id)'
    BY <1>1, <1>4, <2>3, <2>8 DEF VisitWalks, Pending
  <2>12. \A row : Found(row)' <=> Found(row)
    BY <1>2 DEF Found
  <2>13. CASE e.id \notin Candidates(turn)
    <3>1. pc' = "walk"
      BY <1>1, <2>2, <2>13 DEF PassBy
    <3>2. Walking(q)'
      BY <2>4, <2>6, <2>7, <3>1 DEF Walking
    <3>3. \A row \in RowsAt(turn) : row.id # e.id
      BY <2>13, RowsKnow
    <3>4. VisitWalks'
      BY <1>2, <1>4, <2>1, <2>10, <2>11, <2>12, <3>2, <3>3, RowsStay, SettingStays DEF VisitWalks
    <3> QED
      BY <1>3, <2>9, <3>1, <3>4 DEF InterleaveInv, SelectInv
  <2>14. CASE e.id \in Candidates(turn)
    <3>1. pc' = "descend" /\ here' = e /\ work' = BaseCases(turn, e.id)
      BY <2>2, <2>14
    <3>2. Walking(q)'
      BY <2>4, <2>6, <2>7, <3>1 DEF Walking
    <3>3. /\ \A c \in BaseCases(turn, e.id) : c \subseteq RowsAt(turn) /\ (\A row \in c : row.id = e.id)
          /\ \A c, d \in BaseCases(turn, e.id) : c # d => c \cap d = {}
          /\ \A row \in RowsAt(turn) : row.id = e.id => \E c \in BaseCases(turn, e.id) : row \in c
      BY <1>4, <2>14, CasesPart
    <3>4. \A row \in RowsAt(turn) : row.id = e.id => Pending(row)'
      BY <3>1, <3>3 DEF Pending
    <3>5. VisitWalks'
      BY <1>2, <1>4, <2>1, <2>10, <2>11, <2>12, <3>2, <3>4, RowsStay, SettingStays DEF VisitWalks
    <3>6. \A c \in BaseCases(turn, e.id) : \A r \in results : r.row \notin c
      <4> SUFFICES ASSUME NEW c \in BaseCases(turn, e.id), NEW r \in results, r.row \in c PROVE FALSE
        OBVIOUS
      <4>1. r.row \in RowsAt(turn) /\ r.row.id = e.id
        BY <3>3
      <4>2. r.row.visit = turn
        BY <4>1, RowsKnow
      <4> QED
        BY <2>10, <4>1, <4>2
    <3>7. VisitDescends'
      <4>0. PICK n : n = turn /\ n = turn'
        BY <2>1
      <4>1. \A c \in BaseCases(turn, e.id) : c \subseteq RowsAt(n)' /\ \A row \in c : row.id = e.id
        BY <3>3, <4>0, RowsStay
      <4>2. \A c \in BaseCases(turn, e.id) : c \subseteq RowsAt(turn)' /\ \A row \in c : row.id = e.id
        BY <4>0, <4>1
      <4> QED
        BY <1>2, <1>4, <2>1, <2>7, <3>1, <3>3, <3>6, <4>2, RowsStay DEF VisitDescends, WorkIsNew
    <3> QED
      BY <1>3, <2>9, <3>1, <3>5, <3>7 DEF InterleaveInv, SelectInv
  <2> QED
    BY <2>13, <2>14
<1> QED
  BY <1>5, <1>6

\* The search below a neighbour has ended, and the walk goes on.
LEMMA RestVisitInterleaves ==
  ASSUME TypeInv, job.arm = "interleave", UNCHANGED setting, InterleaveInv, RestVisit
  PROVE  InterleaveInv' /\ SelectInv'
<1>1. pc = "descend" /\ pc' = "walk" /\ work = {} /\ JoinStands /\ VisitStands /\ VisitWalks
  BY DEF RestVisit, InterleaveInv
<1>2. /\ turn' = turn /\ left' = left /\ cur' = cur /\ base' = base /\ results' = results /\ answer' = answer
      /\ offered' = offered
  BY DEF RestVisit, walk, heap
<1>3. JoinStands' /\ VisitStands'
  BY <1>1, <1>2, JoinStays, VisitStays
<1>4. PICK q, n, entries : q = cur /\ n = turn /\ entries = left /\ q = cur' /\ n = turn' /\ entries = left'
  BY <1>2
<1>5. Walking(q)'
  <2>1. IF HasVector(q) THEN InOrder(q, entries) ELSE entries = {}
    BY <1>1, <1>4 DEF VisitWalks, Walking
  <2> QED
    BY <1>1, <1>4, <2>1, FitsStay, RowsStay DEF Walking
<1>6. \A row : ~Pending(row)
  BY <1>1 DEF Pending
<1>7. /\ n \in Visits /\ q = AnchorAt(n)
      /\ \A r \in results : r.row.visit <= n /\ (r.row.visit = n => ~IsAhead(r.row.id))
      /\ HasVector(q) => \A row \in RowsAt(n) : row \in RowsOf(q) => Found(row) \/ IsAhead(row.id)
  BY <1>1, <1>4, <1>6 DEF VisitWalks
<1>8. \A x : IsAhead(x)' <=> IsAhead(x)
  BY <1>2 DEF IsAhead
<1>9. \A row : Found(row)' <=> Found(row)
  BY <1>2 DEF Found
<1>10. /\ n \in Visits' /\ q = AnchorAt(n)'
       /\ \A r \in results' : r.row.visit <= n /\ (r.row.visit = n => ~IsAhead(r.row.id)')
       /\ HasVector(q)' => \A row \in RowsAt(n)' : row \in RowsOf(q)' => Found(row)' \/ IsAhead(row.id)'
  BY <1>2, <1>7, <1>8, <1>9, RowsStay, SettingStays
<1>11. VisitWalks'
  BY <1>4, <1>5, <1>10 DEF VisitWalks
<1> QED
  BY <1>1, <1>3, <1>11 DEF InterleaveInv, SelectInv

\* A base case is completed.
LEMMA DescendInterleaves ==
  ASSUME TypeInv, SourcesAreExact, job.arm = "interleave", UNCHANGED setting, ~tripped', InterleaveInv, Descend
  PROVE  InterleaveInv' /\ SelectInv'
<1>1. /\ pc = "descend" /\ JoinStands /\ VisitStands /\ VisitWalks /\ VisitDescends /\ SettingIsChosen /\ HeapInv
      /\ ~Expired
  BY TurnHas DEF Descend, InterleaveInv, Polled
<1>2. PICK c \in work :
        /\ work' = work \ {c}
        /\ results' = results \cup {[row |-> r, dist |-> here.dist, nth |-> Cardinality(results)] : r \in c}
        /\ Accept(here.id, here.dist)
        /\ UNCHANGED <<pc, turn, slots, table, cur, base, left, here, answer>>
  BY <1>1 DEF Descend
<1>3. PICK q, n, x, entries : /\ q = cur /\ n = turn /\ entries = left /\ x = here.id
                              /\ q = cur' /\ n = turn' /\ entries = left' /\ x = here.id'
  BY <1>2
<1>4. HasVector(q) /\ n \in Visits /\ q = AnchorAt(n) /\ InOrder(q, entries) /\ Ahead(q, here, entries)
  BY <1>1, <1>3 DEF VisitWalks, VisitDescends, Walking
<1>5. IsRanked(cur, here.id) /\ here.dist = Dist(cur, here.id) /\ (\A f \in entries : f.id # x)
  BY <1>3, <1>4 DEF Ahead
<1>6. WorkIsNew /\ \A d \in work : d \subseteq RowsAt(n) /\ \A row \in d : row.id = x
  BY <1>1, <1>3 DEF VisitDescends
<1>7. c # {}
  <2>1. IsCase(c)
    BY <1>1 DEF TypeInv, Typed, LoopsStand
  <2> QED
    BY <1>1, <2>1, CaseIs
<1>8. \A row \in c : row \in AllRows /\ QueryOf(row) = cur /\ row.id = here.id /\ row.visit = n
  <2>1. \A row \in RowsAt(n) : row \in AllRows /\ QueryOf(row) = q /\ row.visit = n
    BY <1>4, RowsKnow DEF AllRows
  <2> QED
    BY <1>3, <1>6, <2>1
<1>9. /\ JoinStands' /\ WorkIsNew' /\ results \subseteq results'
      /\ \A row \in c : Found(row)'
      /\ \A r \in results' : r \in results \/ r.row \in c
  BY <1>1, <1>2, <1>3, <1>4, <1>5, <1>6, <1>7, <1>8, DescendJoins
<1>10. VisitStands'
  BY <1>1, <1>2, <1>9, VisitStays
<1>11. Walking(q)' /\ HasVector(q)'
  <2>1. InOrder(q, entries)' /\ HasVector(q)'
    BY <1>4, FitsStay, RowsStay
  <2>2. Ahead(q, here, entries)'
    <3>1. PICK h : h = here /\ h = here'
      BY <1>2
    <3>2. Ahead(q, h, entries)'
      BY <1>4, <3>1, FitsStay
    <3> QED
      BY <3>1, <3>2
  <2> QED
    BY <1>3, <2>1, <2>2 DEF Walking
<1>12. \A y : IsAhead(y)' <=> IsAhead(y)
  BY <1>2 DEF IsAhead
<1>13. ~IsAhead(x)
  BY <1>3, <1>5 DEF IsAhead
<1>14. \A r \in results' : r.row.visit <= n /\ (r.row.visit = n => ~IsAhead(r.row.id)')
  <2> SUFFICES ASSUME NEW r \in results' PROVE r.row.visit <= n /\ (r.row.visit = n => ~IsAhead(r.row.id))
    BY <1>12
  <2>1. CASE r \in results
    BY <1>1, <1>3, <2>1 DEF VisitWalks
  <2>2. CASE r.row \in c
    <3>1. r.row.visit = n /\ r.row.id = x
      BY <1>3, <1>8, <2>2
    <3>2. n \in Nat
      BY <1>3, TurnHas
    <3> QED
      BY <1>13, <3>1, <3>2
  <2> QED
    BY <1>9, <2>1, <2>2
<1>15. \A row \in RowsAt(n) : row \in RowsOf(q) => Found(row)' \/ Pending(row)' \/ IsAhead(row.id)'
  <2> SUFFICES ASSUME NEW row \in RowsAt(n), row \in RowsOf(q) PROVE Found(row)' \/ Pending(row)' \/ IsAhead(row.id)'
    OBVIOUS
  <2>1. Found(row) \/ Pending(row) \/ IsAhead(row.id)
    BY <1>1, <1>3, <1>4 DEF VisitWalks
  <2>2. Found(row) => Found(row)'
    BY <1>9 DEF Found
  <2>3. Pending(row) => Pending(row)' \/ Found(row)'
    BY <1>2, <1>9 DEF Pending
  <2> QED
    BY <1>12, <2>1, <2>2, <2>3
<1>16. VisitWalks'
  <2>1. /\ n \in Visits' /\ q = AnchorAt(n)'
        /\ \A row \in RowsAt(n)' : row \in RowsOf(q)' => Found(row)' \/ Pending(row)' \/ IsAhead(row.id)'
    BY <1>4, <1>15, RowsStay, SettingStays
  <2> QED
    BY <1>3, <1>11, <1>14, <2>1 DEF VisitWalks
<1>17. VisitDescends'
  <2>1. \A d \in work' : d \subseteq RowsAt(n)' /\ \A row \in d : row.id = x
    BY <1>2, <1>6, RowsStay
  <2> QED
    BY <1>3, <1>9, <1>11, <2>1 DEF VisitDescends
<1> QED
  BY <1>1, <1>2, <1>9, <1>10, <1>16, <1>17 DEF InterleaveInv, SelectInv

(***************************************************************************)
(* memo.                                                                   *)
(***************************************************************************)
\* What is said of the candidates that have been filed.
LEMMA HoldsStay ==
  ASSUME UNCHANGED setting
  PROVE  /\ \A n : Anchors(n)' = Anchors(n)
         /\ \A q, n : RowsAbove(q, n)' = RowsAbove(q, n)
         /\ \A t, q, n : Holds(t, q, n)' <=> Holds(t, q, n)
<1>1. \A n : Anchors(n)' = Anchors(n)
  BY RowsStay, SettingStays DEF Anchors
<1>2. \A q, n : RowsAbove(q, n)' = RowsAbove(q, n)
  BY RowsStay, SettingStays DEF RowsAbove
<1>3. \A t, q, n : Holds(t, q, n)' <=> Holds(t, q, n)
  BY <1>2, RowsStay DEF Holds
<1> QED
  BY <1>1, <1>2, <1>3

\* One more visit is above the next.
LEMMA AboveGrows ==
  ASSUME SettingIsChosen, NEW n \in Visits
  PROVE  /\ n \in Nat
         /\ Anchors(n + 1) = Anchors(n) \cup {AnchorAt(n)}
         /\ \A q : q # AnchorAt(n) => RowsAbove(q, n + 1) = RowsAbove(q, n)
         /\ RowsAbove(AnchorAt(n), n + 1) = RowsAbove(AnchorAt(n), n) \cup RowsAt(n)
         /\ \A q : q \notin Anchors(n) => RowsAbove(q, n) = {}
<1>1. Visits \subseteq Nat /\ n \in Nat
  BY JobIs
<1>2. \A u \in Visits : u < n + 1 <=> u < n \/ u = n
  BY <1>1
<1>3. ASSUME NEW q PROVE {u \in Visits : u < n + 1 /\ AnchorAt(u) = q}
                         = {u \in Visits : u < n /\ AnchorAt(u) = q} \cup (IF q = AnchorAt(n) THEN {n} ELSE {})
  BY <1>2
<1>4. \A q : q # AnchorAt(n) => RowsAbove(q, n + 1) = RowsAbove(q, n)
  <2> SUFFICES ASSUME NEW q, q # AnchorAt(n) PROVE RowsAbove(q, n + 1) = RowsAbove(q, n)
    OBVIOUS
  <2>1. {u \in Visits : u < n + 1 /\ AnchorAt(u) = q} = {u \in Visits : u < n /\ AnchorAt(u) = q}
    BY <1>3
  <2> QED
    BY <2>1 DEF RowsAbove
<1>5. \A row : row \in RowsAbove(AnchorAt(n), n + 1) <=> row \in RowsAbove(AnchorAt(n), n) \/ row \in RowsAt(n)
  <2>1. PICK q : q = AnchorAt(n)
    OBVIOUS
  <2>2. \A m, row : row \in RowsAbove(q, m) <=> \E u \in Visits : u < m /\ AnchorAt(u) = q /\ row \in RowsAt(u)
    BY DEF RowsAbove
  <2>3. ASSUME NEW row PROVE (\E u \in Visits : u < n + 1 /\ AnchorAt(u) = q /\ row \in RowsAt(u))
                             <=> (\E u \in Visits : u < n /\ AnchorAt(u) = q /\ row \in RowsAt(u)) \/ row \in RowsAt(n)
    BY <1>2, <2>1
  <2> QED
    BY <2>1, <2>2, <2>3
<1>6. Anchors(n + 1) = Anchors(n) \cup {AnchorAt(n)}
  <2>1. \A m, p : p \in Anchors(m) <=> (\E u \in Visits : u < m /\ AnchorAt(u) = p) \/ p \in Range(FirstSlots)
    BY DEF Anchors
  <2>2. \A p : p \in Anchors(n + 1) <=> p \in Anchors(n) \/ p = AnchorAt(n)
    BY <1>2, <2>1
  <2> QED
    BY <2>2
<1>7. \A q : q \notin Anchors(n) => RowsAbove(q, n) = {}
  BY DEF Anchors, RowsAbove
<1> QED
  BY <1>1, <1>4, <1>5, <1>6, <1>7

\* What a filed table holds, with the candidates of a visit to its query.
LEMMA FiledHolds ==
  ASSUME SettingIsChosen, NEW n \in Visits, NEW q, q = AnchorAt(n), NEW filed, Holds(filed, q, n),
         NEW grown, grown = [x \in DOMAIN filed \cup Candidates(n) |->
                               (IF x \in DOMAIN filed THEN filed[x] ELSE {})
                               \cup (IF x \in Candidates(n) THEN BaseCases(n, x) ELSE {})]
  PROVE  Holds(grown, q, n + 1)
<1>1. n \in Nat /\ Visits \subseteq Nat
  BY JobIs
<1>2. DOMAIN grown = DOMAIN filed \cup Candidates(n)
  OBVIOUS
<1>3. \A x \in DOMAIN grown : \A c \in grown[x] :
        (x \in DOMAIN filed /\ c \in filed[x]) \/ (x \in Candidates(n) /\ c \in BaseCases(n, x))
  OBVIOUS
<1>4. \A x \in DOMAIN filed : x \in DOMAIN grown /\ \A c \in filed[x] : c \in grown[x]
  OBVIOUS
<1>5. \A x \in Candidates(n) : x \in DOMAIN grown /\ \A c \in BaseCases(n, x) : c \in grown[x]
  OBVIOUS
<1>6. ASSUME NEW x \in DOMAIN filed, NEW c \in filed[x]
      PROVE  c \subseteq RowsWith(q, x) /\ \A row \in c : row.visit < n /\ row.visit \in Nat
  <2>1. c \subseteq RowsWith(q, x) /\ \A row \in c : row.visit < n
    BY <1>6 DEF Holds
  <2>2. \A row \in RowsWith(q, x) : row.visit \in Nat
    <3> SUFFICES ASSUME NEW row \in AllRows PROVE row.visit \in Nat
      BY DEF RowsWith
    <3>1. PICK v \in Visits : row \in RowsAt(v)
      BY DEF AllRows
    <3> QED
      BY <1>1, <3>1, RowsKnow
  <2> QED
    BY <2>1, <2>2
<1>7. ASSUME NEW x \in Candidates(n), NEW c \in BaseCases(n, x)
      PROVE  c \subseteq RowsWith(q, x) /\ \A row \in c : row.visit = n
  <2>1. c \subseteq RowsAt(n) /\ \A row \in c : row.id = x
    BY <1>7, CasesPart
  <2>2. \A row \in c : row \in AllRows /\ QueryOf(row) = q /\ row.visit = n
    BY <2>1, RowsKnow DEF AllRows
  <2> QED
    BY <2>1, <2>2 DEF RowsWith
<1> HIDE DEF Holds
<1>8. \A x \in DOMAIN grown : \A c \in grown[x] : c \subseteq RowsWith(q, x) /\ \A row \in c : row.visit < n + 1
  <2> SUFFICES ASSUME NEW x \in DOMAIN grown, NEW c \in grown[x]
               PROVE  c \subseteq RowsWith(q, x) /\ \A row \in c : row.visit < n + 1
    OBVIOUS
  <2>1. CASE x \in DOMAIN filed /\ c \in filed[x]
    BY <1>1, <1>6, <2>1
  <2>2. CASE x \in Candidates(n) /\ c \in BaseCases(n, x)
    BY <1>1, <1>7, <2>2
  <2> QED
    BY <1>3, <2>1, <2>2
<1>9. \A x \in DOMAIN grown : \A c, d \in grown[x] : c # d => c \cap d = {}
  <2> SUFFICES ASSUME NEW x \in DOMAIN grown, NEW c \in grown[x], NEW d \in grown[x], c # d PROVE c \cap d = {}
    OBVIOUS
  <2>1. CASE x \in DOMAIN filed /\ c \in filed[x] /\ d \in filed[x]
    BY <2>1 DEF Holds
  <2>2. CASE x \in Candidates(n) /\ c \in BaseCases(n, x) /\ d \in BaseCases(n, x)
    BY <2>2, CasesPart
  <2>3. CASE x \in DOMAIN filed /\ c \in filed[x] /\ x \in Candidates(n) /\ d \in BaseCases(n, x)
    <3>1. (\A row \in c : row.visit < n /\ row.visit \in Nat) /\ \A row \in d : row.visit = n
      BY <1>6, <1>7, <2>3
    <3> QED
      BY <1>1, <3>1
  <2>4. CASE x \in DOMAIN filed /\ d \in filed[x] /\ x \in Candidates(n) /\ c \in BaseCases(n, x)
    <3>1. (\A row \in d : row.visit < n /\ row.visit \in Nat) /\ \A row \in c : row.visit = n
      BY <1>6, <1>7, <2>4
    <3> QED
      BY <1>1, <3>1
  <2> QED
    BY <1>3, <2>1, <2>2, <2>3, <2>4
<1>10. \A row \in RowsAbove(q, n + 1) : row.id \in DOMAIN grown /\ \E c \in grown[row.id] : row \in c
  <2> SUFFICES ASSUME NEW row \in RowsAbove(q, n + 1)
               PROVE  row.id \in DOMAIN grown /\ \E c \in grown[row.id] : row \in c
    OBVIOUS
  <2>1. CASE row \in RowsAbove(q, n)
    <3>1. row.id \in DOMAIN filed /\ \E c \in filed[row.id] : row \in c
      BY <2>1 DEF Holds
    <3> QED
      BY <1>4, <3>1
  <2>2. CASE row \in RowsAt(n)
    <3>1. row.id \in Candidates(n)
      BY <2>2, RowsKnow
    <3>2. \E c \in BaseCases(n, row.id) : row \in c
      BY <2>2, <3>1, CasesPart
    <3> QED
      BY <1>5, <3>1, <3>2
  <2> QED
    BY <2>1, <2>2, AboveGrows
<1> QED
  BY <1>8, <1>9, <1>10 DEF Holds

\* The slot of a query that is filed: the one it has, or one more.
LEMMA SlotsGrow ==
  ASSUME NEW S, slots \in Seq(S), OneToOne(slots), NEW q \in S
  PROVE  OneToOne(AnchorSlots(q)) /\ Range(AnchorSlots(q)) = Range(slots) \cup {q}
<1>1. CASE q \in Range(slots)
  BY <1>1 DEF AnchorSlots
<1>2. CASE q \notin Range(slots)
  <2>1. PICK list : list = Append(slots, q)
    OBVIOUS
  <2>2. PICK len \in Nat : len = Len(slots) /\ DOMAIN slots = 1..len
    OBVIOUS
  <2>3. DOMAIN list = 1..(len + 1) /\ list[len + 1] = q /\ \A i \in 1..len : list[i] = slots[i]
    BY <2>1, <2>2
  <2>4. \A i \in 1..len : slots[i] \in Range(slots)
    BY <2>2 DEF Range
  <2>5. OneToOne(list)
    BY <1>2, <2>2, <2>3, <2>4 DEF OneToOne
  <2>6. \A p : p \in Range(list) <=> p \in Range(slots) \/ p = q
    <3>1. \A p : p \in Range(list) <=> \E i \in 1..(len + 1) : list[i] = p
      BY <2>3 DEF Range
    <3>2. \A p : p \in Range(slots) <=> \E i \in 1..len : slots[i] = p
      BY <2>2 DEF Range
    <3>3. \A i \in 1..(len + 1) : i \in 1..len \/ i = len + 1
      BY <2>2
    <3>4. 1..len \subseteq 1..(len + 1) /\ len + 1 \in 1..(len + 1)
      BY <2>2
    <3> QED
      BY <2>3, <3>1, <3>2, <3>3, <3>4
  <2> QED
    BY <1>2, <2>1, <2>5, <2>6 DEF AnchorSlots
<1> QED
  BY <1>1, <1>2

\* Queries are nodes, or the constant vector: none of them is no query.
LEMMA QueriesAreNodes ==
  ASSUME SettingIsChosen
  PROVE  Queries \subseteq Nat /\ NoQuery \notin Queries
<1>1. \A v \in Visits : AnchorAt(v) \in Nat
  BY JobIs
<1>2. Queries \subseteq Nat
  BY <1>1 DEF Queries, Fixed
<1> QED
  BY <1>2 DEF NoQuery

\* The candidates of a visit are filed.
LEMMA FileOneMemo ==
  ASSUME TypeInv, job.arm = "memo", UNCHANGED setting, ~tripped', MemoInv, FileVisit, turn <= Len(job.visits)
  PROVE  MemoInv' /\ SelectInv'
<1>1. pc = "gather" /\ TablesFill /\ SettingIsChosen /\ ~Expired /\ slots \in Seq(Queries)
  BY TurnHas DEF FileVisit, MemoInv, Polled
<1>2. PICK n : n = turn /\ n \in Visits /\ n \in Nat /\ n <= Len(job.visits) /\ Len(job.visits) \in Nat
  BY <1>1, TurnHas, JobIs
<1>3. PICK q : q = AnchorAt(n) /\ q \in Queries
  BY <1>1, <1>2, JobIs
<1>4. PICK filed : filed = IF q \in DOMAIN table THEN table[q] ELSE <<>>
  OBVIOUS
<1>5. PICK grown : grown = [x \in DOMAIN filed \cup Candidates(n) |->
                          (IF x \in DOMAIN filed THEN filed[x] ELSE {})
                          \cup (IF x \in Candidates(n) THEN BaseCases(n, x) ELSE {})]
  OBVIOUS
<1>6. /\ slots' = AnchorSlots(q)
      /\ table' = [p \in DOMAIN table \cup {q} |-> IF p = q THEN grown ELSE table[p]]
      /\ turn' = n + 1 /\ pc' = "gather"
      /\ cur' = cur /\ base' = base /\ results' = results /\ answer' = answer /\ offered' = offered
  <2>1. ~(Expired \/ turn > Len(job.visits))
    BY <1>1, <1>2
  <2> QED
    BY <1>1, <1>2, <1>3, <1>4, <1>5, <2>1 DEF FileVisit, NextTurn, heap
<1>7. OneToOne(slots) /\ Range(slots) = Anchors(n) /\ DOMAIN table = Anchors(n)
  BY <1>1, <1>2 DEF TablesFill
<1>8. Anchors(n + 1) = Anchors(n) \cup {q}
  BY <1>1, <1>2, <1>3, AboveGrows
<1>9. OneToOne(slots') /\ Range(slots') = Anchors(n + 1) /\ DOMAIN table' = Anchors(n + 1)
  <2>1. OneToOne(AnchorSlots(q)) /\ Range(AnchorSlots(q)) = Range(slots) \cup {q}
    BY <1>1, <1>3, <1>7, SlotsGrow
  <2> QED
    BY <1>6, <1>7, <1>8, <2>1
<1>10. ~Correlated => slots' = <<Fixed>>
  <2> SUFFICES ASSUME ~Correlated PROVE slots' = <<Fixed>>
    OBVIOUS
  <2>1. slots = <<Fixed>>
    BY <1>1 DEF TablesFill
  <2>2. q = Fixed
    BY <1>1, <1>2, <1>3, JobIs DEF IsJob, AnchorAt, Correlated, Visits
  <2>3. Fixed \in Range(slots)
    BY <2>1 DEF Range
  <2> QED
    BY <1>6, <2>1, <2>2, <2>3 DEF AnchorSlots
<1>11. \A p \in Anchors(n + 1) : Holds(table'[p], p, n + 1)
  <2> SUFFICES ASSUME NEW p \in Anchors(n + 1) PROVE Holds(table'[p], p, n + 1)
    OBVIOUS
  <2>1. CASE p = q
    <3>1. Holds(filed, q, n)
      <4>1. CASE q \in DOMAIN table
        BY <1>1, <1>2, <1>4, <1>7, <4>1 DEF TablesFill
      <4>2. CASE q \notin DOMAIN table
        <5>1. filed = <<>> /\ DOMAIN filed = {}
          BY <1>4, <4>2
        <5>2. RowsAbove(q, n) = {}
          BY <1>1, <1>2, <1>7, <4>2, AboveGrows
        <5> QED
          BY <5>1, <5>2 DEF Holds
      <4> QED
        BY <4>1, <4>2
    <3>2. Holds(grown, q, n + 1)
      BY <1>1, <1>2, <1>3, <1>5, <3>1, FiledHolds
    <3>3. table'[p] = grown
      BY <1>6, <2>1
    <3> QED
      BY <2>1, <3>2, <3>3
  <2>2. CASE p # q
    <3>1. p \in Anchors(n) /\ table'[p] = table[p]
      BY <1>6, <1>7, <1>8, <2>2
    <3>2. PICK t : t = table[p] /\ Holds(t, p, n)
      BY <1>1, <1>2, <3>1 DEF TablesFill
    <3>3. RowsAbove(p, n + 1) = RowsAbove(p, n)
      BY <1>1, <1>2, <1>3, <2>2, AboveGrows
    <3>4. \A x \in DOMAIN t : \A c \in t[x] : \A row \in c : row.visit < n + 1
      <4> SUFFICES ASSUME NEW x \in DOMAIN t, NEW c \in t[x], NEW row \in c PROVE row.visit < n + 1
        OBVIOUS
      <4>1. row.visit < n /\ row \in AllRows
        BY <3>2 DEF Holds, RowsWith
      <4>2. PICK v \in Visits : row \in RowsAt(v)
        BY <4>1 DEF AllRows
      <4>3. row.visit \in Nat
        BY <1>1, <4>2, RowsKnow, JobIs
      <4> QED
        BY <1>2, <4>1, <4>3
    <3> QED
      BY <3>1, <3>2, <3>3, <3>4 DEF Holds
  <2> QED
    BY <2>1, <2>2
<1>12. TablesFill'
  <2>1. PICK m : m = n + 1 /\ m = turn'
    BY <1>6
  <2>2. m <= AfterLast'
    BY <1>2, <2>1, RowsStay DEF AfterLast
  <2>3. OneToOne(slots)' /\ Range(slots)' = Anchors(m)' /\ DOMAIN table' = Anchors(m)'
    BY <1>9, <2>1, HoldsStay
  <2>t. PICK t : t = table'
    OBVIOUS
  <2>4. \A p \in Anchors(m)' : Holds(t[p], p, m)'
    BY <1>11, <2>1, <2>t, HoldsStay
  <2>5. results' = {} /\ offered' = {} /\ answer' = <<>> /\ cur' = FirstAnchor' /\ base' = cur'
    BY <1>1, <1>6, RowsStay DEF TablesFill
  <2> QED
    BY <1>10, <2>1, <2>2, <2>3, <2>4, <2>5, <2>t, RowsStay DEF TablesFill
<1> QED
  BY <1>6, <1>12 DEF MemoInv, SelectInv

\* All visits have been filed: the tables stand.
LEMMA FileLastMemo ==
  ASSUME TypeInv, job.arm = "memo", UNCHANGED setting, ~tripped', MemoInv, FileVisit, ~(turn <= Len(job.visits))
  PROVE  MemoInv' /\ SelectInv'
<1>1. pc = "gather" /\ TablesFill /\ SettingIsChosen /\ ~Expired /\ slots \in Seq(Queries)
  BY TurnHas DEF FileVisit, MemoInv, Polled
<1>2. PICK n : n = turn /\ n = AfterLast
  BY <1>1, TurnHas, JobIs DEF TablesFill, AfterLast
<1>3. /\ turn' = 1 /\ pc' = "open" /\ slots' = slots /\ table' = table
      /\ cur' = cur /\ base' = base /\ results' = results /\ answer' = answer /\ offered' = offered
  <2>1. turn > Len(job.visits)
    BY <1>1, TurnHas, JobIs
  <2> QED
    BY <2>1 DEF FileVisit, heap
<1>4. /\ results = {} /\ offered = {} /\ answer = <<>> /\ cur = FirstAnchor /\ base = cur
      /\ OneToOne(slots) /\ Range(slots) = Anchors(n) /\ DOMAIN table = Anchors(n)
      /\ ~Correlated => slots = <<Fixed>>
      /\ \A q \in Anchors(n) : Holds(table[q], q, n)
  BY <1>1, <1>2 DEF TablesFill
<1>5. JoinStands'
  <2>1. ResultsFit'
    BY <1>3, <1>4 DEF ResultsFit
  <2>2. HeapStands'
    <3>1. PICK w : w = [e \in {} |-> e]
      OBVIOUS
    <3>2. w \in [offered' -> results'] /\ Stands(w)'
      BY <1>3, <1>4, <3>1 DEF Stands
    <3> QED
      BY <3>2 DEF HeapStands
  <2> QED
    BY <1>3, <1>4, <2>1, <2>2 DEF JoinStands
<1>6. \A i \in DOMAIN slots : /\ Holds(table[slots[i]], slots[i], n)
                              /\ slots[i] = cur => ~Correlated
  <2> SUFFICES ASSUME NEW i \in DOMAIN slots
               PROVE  Holds(table[slots[i]], slots[i], n) /\ (slots[i] = cur => ~Correlated)
    OBVIOUS
  <2>1. slots[i] \in Anchors(n)
    BY <1>4 DEF Range
  <2>2. slots[i] \in Queries
    BY <1>1, ElementOfList
  <2>3. Correlated => cur = NoQuery
    BY <1>4 DEF FirstAnchor
  <2> QED
    BY <1>1, <1>4, <2>1, <2>2, <2>3, QueriesAreNodes
<1>7. \A q : ResultsOf(q)' = {}
  BY <1>3, <1>4 DEF ResultsOf
<1>8. TablesStand'
  <2>1. OneToOne(slots)' /\ Range(slots)' = Anchors(n)' /\ DOMAIN table' = Range(slots)' /\ n = AfterLast'
    <3>1. OneToOne(slots') /\ Range(slots') = Anchors(n) /\ DOMAIN table' = Range(slots')
      BY <1>3, <1>4
    <3> QED
      BY <1>2, <3>1, HoldsStay, RowsStay
  <2>t. PICK t, s : t = table' /\ s = slots'
    OBVIOUS
  <2>2. \A i \in DOMAIN s : /\ Holds(t[s[i]], s[i], n)'
                            /\ ResultsOf(s[i])' = {}
                            /\ s[i] = cur' => ~Correlated'
    BY <1>3, <1>6, <1>7, <2>t, HoldsStay, RowsStay
  <2>3. ~Correlated' => cur' = Fixed /\ base' = Fixed /\ slots' = <<Fixed>>
    BY <1>3, <1>4, RowsStay DEF FirstAnchor
  <2>4. offered' = {}
    BY <1>3, <1>4
  <2>5. \A j \in DOMAIN slots' : ~(j < 1)
    BY <1>1, <1>3
  <2>6. (\A i \in DOMAIN slots : /\ Holds(table[slots[i]], slots[i], AfterLast)
                                 /\ ResultsOf(slots[i]) = {}
                                 /\ slots[i] = cur => ~Correlated)'
    BY <2>1, <2>2, <2>t
  <2>7. (\A j \in DOMAIN slots : j < turn /\ HasVector(slots[j]) => \A row \in RowsOf(slots[j]) : IsClosed(slots[j], row))'
    BY <1>3, <2>5
  <2>8. (OneToOne(slots) /\ Range(slots) = Anchors(AfterLast) /\ DOMAIN table = Range(slots))'
    BY <2>1
  <2>9. (~Correlated => cur = Fixed /\ base = Fixed /\ slots = <<Fixed>>)' /\ (~Correlated /\ turn = 1 /\ pc = "open" => offered = {})'
    BY <2>3, <2>4
  <2> QED
    BY <2>6, <2>7, <2>8, <2>9 DEF TablesStand
<1> QED
  BY <1>3, <1>5, <1>8 DEF MemoInv, SelectInv

\* What is known of the arm stands when a visit is filed, and when they all have been.
LEMMA FileVisitMemo ==
  ASSUME TypeInv, job.arm = "memo", UNCHANGED setting, ~tripped', MemoInv, FileVisit
  PROVE  MemoInv' /\ SelectInv'
BY FileOneMemo, FileLastMemo

\* What the walk of a query has closed stays so while other queries get results.
LEMMA ClosedStays ==
  ASSUME UNCHANGED setting, results \subseteq results', NEW q, \A r \in results' : r \in results \/ QueryOf(r.row) # q
  PROVE  \A row : IsClosed(q, row) => IsClosed(q, row)'
<1>1. \A row : Found(row) => Found(row)'
  BY ResultsGrow
<1>2. \A d : Beaten(q, d) => Beaten(q, d)'
  BY ResultsGrow
<1>3. \A x : Untouched(q, x) => Untouched(q, x)'
  BY SettingStays DEF Untouched, ResultsOf
<1> SUFFICES ASSUME NEW row, IsClosed(q, row) PROVE IsClosed(q, row)'
  OBVIOUS
<1>4. CASE Found(row)
  BY <1>1, <1>4 DEF IsClosed
<1>5. CASE Beaten(q, Dist(q, row.id) + 1) /\ Untouched(q, row.id)
  <2>1. PICK d : d = Dist(q, row.id) + 1 /\ d = (Dist(q, row.id) + 1)'
    <3>1. Dist(q, row.id)' = Dist(q, row.id)
      BY RowsStay
    <3> QED
      BY <3>1
  <2>2. Beaten(q, d)' /\ Untouched(q, row.id)'
    BY <1>2, <1>3, <1>5, <2>1
  <2> QED
    BY <2>1, <2>2 DEF IsClosed
<1> QED
  BY <1>4, <1>5 DEF IsClosed

\* While the query of a slot is walked, and when its walk has ended, the tables of the others stand.
LEMMA TablesGoOn ==
  ASSUME TypeInv, TablesStand, UNCHANGED setting, slots' = slots,
         NEW m, m = turn, m \in DOMAIN slots, NEW q, q = slots[m], NEW n, n = turn',
         \/ n = m /\ pc' # "open"
         \/ n = m + 1 /\ pc' = "open" /\ (HasVector(q) => \A row \in RowsOf(q) : IsClosed(q, row)'),
         cur' = q, ~Correlated => base' = Fixed,
         results \subseteq results', \A r \in results' : r \in results \/ QueryOf(r.row) = q,
         DOMAIN table' = DOMAIN table, \A p \in DOMAIN table : p # q => table'[p] = table[p]
  PROVE  TablesStand'
<1>1. m \in Nat \ {0} /\ n \in Nat \ {0} /\ slots \in Seq(Queries)
  BY TurnHas
<1>2. OneToOne(slots) /\ Range(slots) = Anchors(AfterLast) /\ DOMAIN table = Range(slots)
  BY DEF TablesStand
<1>3. PICK a : a = AfterLast /\ a = AfterLast'
  BY RowsStay
<1>4. ASSUME NEW i \in DOMAIN slots, i > n \/ (i = n /\ pc' = "open")
      PROVE  /\ Holds(table[slots[i]], slots[i], a) /\ table'[slots[i]] = table[slots[i]]
             /\ ResultsOf(slots[i]) = {} /\ slots[i] # q
  <2>1. i > m
    BY <1>1, <1>4
  <2>2. Holds(table[slots[i]], slots[i], a) /\ ResultsOf(slots[i]) = {}
    BY <1>3, <2>1 DEF TablesStand
  <2>3. slots[i] # q
    BY <1>1, <1>2, <2>1 DEF OneToOne
  <2>4. slots[i] \in DOMAIN table
    BY <1>2 DEF Range
  <2> QED
    BY <2>2, <2>3, <2>4
<1>5. PICK s, t : s = slots /\ s = slots' /\ t = table'
  OBVIOUS
<1>6. ASSUME NEW i \in DOMAIN s, i > n \/ (i = n /\ pc' = "open")
      PROVE  Holds(t[s[i]], s[i], a)' /\ ResultsOf(s[i])' = {} /\ s[i] # q
  <2>1. Holds(t[s[i]], s[i], a) /\ ResultsOf(s[i]) = {} /\ s[i] # q
    BY <1>4, <1>5, <1>6
  <2>2. Holds(t[s[i]], s[i], a)'
    BY <2>1, HoldsStay
  <2>3. ResultsOf(s[i])' = {}
    BY <2>1, SettingStays DEF ResultsOf
  <2> QED
    BY <2>1, <2>2, <2>3
<1>7. (\A i \in DOMAIN slots : i > turn \/ (i = turn /\ pc = "open") =>
         /\ Holds(table[slots[i]], slots[i], AfterLast)
         /\ ResultsOf(slots[i]) = {}
         /\ slots[i] = cur => ~Correlated)'
  BY <1>3, <1>5, <1>6
<1>8. (OneToOne(slots) /\ Range(slots) = Anchors(AfterLast) /\ DOMAIN table = Range(slots))'
  <2>1. Anchors(a)' = Anchors(a)
    BY HoldsStay
  <2> QED
    BY <1>2, <1>3, <2>1
<1>9. (~Correlated => cur = Fixed /\ base = Fixed /\ slots = <<Fixed>>)'
  <2>1. ~Correlated => slots = <<Fixed>> /\ q = Fixed
    <3> SUFFICES ASSUME ~Correlated PROVE slots = <<Fixed>> /\ q = Fixed
      OBVIOUS
    <3>1. slots = <<Fixed>>
      BY DEF TablesStand
    <3>2. m = 1
      BY <3>1
    <3> QED
      BY <3>1, <3>2
  <2> QED
    BY <2>1, RowsStay
<1>10. (~Correlated /\ turn = 1 /\ pc = "open" => offered = {})'
  BY <1>1
<1>11. ASSUME NEW j \in DOMAIN s, j < n, HasVector(s[j]), NEW row \in RowsOf(s[j]) PROVE IsClosed(s[j], row)'
  <2>1. CASE j = m
    BY <1>1, <1>5, <1>11, <2>1
  <2>2. CASE j # m
    <3>1. j < m
      BY <1>1, <1>5, <1>11, <2>2
    <3>2. IsClosed(s[j], row)
      BY <1>5, <1>11, <3>1 DEF TablesStand
    <3>3. s[j] # q
      BY <1>2, <1>5, <2>2 DEF OneToOne
    <3>4. \A r \in results' : r \in results \/ QueryOf(r.row) # s[j]
      BY <3>3
    <3> QED
      BY <3>2, <3>4, ClosedStays
  <2> QED
    BY <2>1, <2>2
<1>12. (\A j \in DOMAIN slots : j < turn /\ HasVector(slots[j]) => \A row \in RowsOf(slots[j]) : IsClosed(slots[j], row))'
  <2>1. \A j \in DOMAIN s : j < n /\ HasVector(s[j])' => \A row \in RowsOf(s[j])' : IsClosed(s[j], row)'
    BY <1>11, RowsStay
  <2> QED
    BY <1>5, <2>1
<1> QED
  BY <1>7, <1>8, <1>9, <1>10, <1>12 DEF TablesStand

\* The rows of a query with a vector are above the last visit.
LEMMA RowsAreAbove ==
  ASSUME SettingIsChosen, NEW q, NEW row \in RowsOf(q)
  PROVE  q \in Anchors(AfterLast) /\ row \in RowsAbove(q, AfterLast)
<1>1. row \in AllRows /\ QueryOf(row) = q
  BY RowsOfIs
<1>2. PICK v \in Visits : row \in RowsAt(v)
  BY <1>1 DEF AllRows
<1>3. AnchorAt(v) = q
  BY <1>1, <1>2, RowsKnow
<1>4. v < AfterLast
  BY JobIs DEF AfterLast
<1> QED
  BY <1>2, <1>3, <1>4 DEF Anchors, RowsAbove

\* All tables have been walked: the selection has what it needs.
LEMMA TablesAreGathered ==
  ASSUME TypeInv, JoinStands, TablesStand, turn > Len(slots), UNCHANGED setting, StartSelect
  PROVE  SelectStands' /\ pc' = "pick"
<1>1. SettingIsChosen /\ turn \in Nat /\ slots \in Seq(Queries)
  BY TurnHas
<1>2. turn' = 1 /\ slots' = QueriesSeen /\ results' = results /\ answer' = answer /\ pc' = "pick"
  BY DEF StartSelect
<1>3. ResultsFit' /\ answer' = <<>>
  BY <1>2, RowsStay, SettingStays DEF JoinStands, ResultsFit
<1>a. ResultsAreNumbered
  BY DEF TypeInv, Typed, ResultsAreTyped
<1>4. OneToOne(slots)' /\ Range(slots)' = {QueryOf(r.row) : r \in results}'
  <2>2. OneToOne(QueriesSeen) /\ Range(QueriesSeen) = {QueryOf(r.row) : r \in results}
    BY <1>a, QueriesSeenIs
  <2>3. {QueryOf(r.row) : r \in results}' = {QueryOf(r.row) : r \in results}
    BY <1>2, SettingStays
  <2>4. PICK list : list = QueriesSeen
    OBVIOUS
  <2> QED
    BY <1>2, <2>2, <2>3
<1>5. \A q, row : HasVector(q) /\ row \in RowsOf(q) => IsClosed(q, row)
  <2> SUFFICES ASSUME NEW q, NEW row \in RowsOf(q), HasVector(q) PROVE IsClosed(q, row)
    OBVIOUS
  <2>1. q \in Range(slots)
    BY <1>1, RowsAreAbove DEF TablesStand
  <2>2. PICK j \in DOMAIN slots : slots[j] = q
    BY <2>1 DEF Range
  <2>3. j < turn
    BY <1>1
  <2> QED
    BY <2>2, <2>3 DEF TablesStand
<1>6. \A q, row : IsClosed(q, row) => IsClosed(q, row)'
  BY <1>2, ClosedStays
<1>7. \A q, row : HasVector(q)' /\ row \in RowsOf(q)' => IsGathered(q, row)'
  BY <1>5, <1>6, RowsStay DEF IsGathered
<1>8. AnswersUpTo(turn)'
  <2>1. <<>> \in Seq(Answers')
    OBVIOUS
  <2>2. slots' \in Seq({QueryOf(r.row) : r \in results})
    BY <1>2, <1>a, QueriesSeenIs
  <2>3. \A j \in DOMAIN slots' : ~(j < 1)
    BY <2>2
  <2> QED
    BY <1>2, <1>3, <2>1, <2>3 DEF AnswersUpTo
<1> QED
  BY <1>2, <1>3, <1>4, <1>7, <1>8 DEF SelectStands

\* The walk of a table is opened.
LEMMA OpenWalks ==
  ASSUME TypeInv, SourcesAreExact, UNCHANGED setting, TablesStand, pc = "open", NEW m, m = turn, m \in DOMAIN slots,
         NEW q, q = slots[m], Retarget(q), Retargeted(q), HasVector(q) => base' = q,
         left' = RankingOf(q, base', DOMAIN table[q]), pc' = "walk",
         turn' = m, slots' = slots, table' = table, results' = results
  PROVE  TableWalks'
<1>1. SettingIsChosen
  BY TurnHas
<1>2. /\ Holds(table[q], q, AfterLast) /\ ResultsOf(q) = {} /\ (q = cur => ~Correlated)
      /\ ~Correlated => cur = Fixed /\ base = Fixed /\ slots = <<Fixed>> /\ (turn = 1 => offered = {})
  BY DEF TablesStand
<1>3. PICK t, entries : t = table[q] /\ t = table'[q] /\ entries = left'
  OBVIOUS
<1>4. cur' = q /\ (~HasVector(q) => cur = q)
  BY DEF Retarget, Retargeted
<1>5. entries = RankingOf(q, q, DOMAIN t)
  <2>1. CASE HasVector(q)
    BY <1>3, <2>1
  <2>2. CASE ~HasVector(q)
    <3>1. base' = base /\ base = Fixed /\ q = Fixed
      BY <1>2, <1>4, <2>2 DEF Retarget
    <3> QED
      BY <1>3, <3>1
  <2> QED
    BY <2>1, <2>2
<1>6. /\ HasVector(q) => /\ InOrder(q, entries)
                         /\ \A x \in DOMAIN t : IsRanked(q, x) => \E e \in entries : e.id = x
      /\ ~HasVector(q) => entries = {}
  BY <1>1, <1>5, WalkOpens
<1>7. Walking(q)'
  BY <1>3, <1>6, FitsStay, RowsStay DEF Walking
<1>8. offered' = {}
  <2>1. CASE cur # q
    BY <1>4, <2>1 DEF Retarget, Emptied
  <2>2. CASE cur = q
    <3>1. ~Correlated /\ slots = <<Fixed>>
      BY <1>2, <2>2
    <3>2. m = 1
      BY <3>1
    <3> QED
      BY <1>2, <2>2, <3>1, <3>2 DEF Retarget, heap
  <2> QED
    BY <2>1, <2>2
<1>9. \A x \in DOMAIN t : /\ Untouched(q, x)'
                          /\ \A c \in t[x] : c \subseteq RowsWith(q, x)'
                          /\ \A c, d \in t[x] : c # d => c \cap d = {}
  <2>1. ResultsOf(q)' = {}
    BY <1>2, SettingStays DEF ResultsOf
  <2>2. \A x : Untouched(q, x)'
    BY <2>1 DEF Untouched
  <2> QED
    BY <1>2, <1>3, <2>2, RowsStay DEF Holds
<1>10. HasVector(q)' => \A row \in RowsOf(q)' : IsAhead(row.id)' /\ row.id \in DOMAIN t /\ \E c \in t[row.id] : row \in c
  <2> SUFFICES ASSUME HasVector(q), NEW row \in RowsOf(q)
               PROVE  IsAhead(row.id)' /\ row.id \in DOMAIN t /\ \E c \in t[row.id] : row \in c
    BY RowsStay
  <2>1. row.id \in DOMAIN t /\ \E c \in t[row.id] : row \in c
    BY <1>1, <1>2, <1>3, RowsAreAbove DEF Holds
  <2>2. IsRanked(q, row.id)
    BY RowsOfIs
  <2>3. IsAhead(row.id)'
    BY <1>3, <1>6, <2>1, <2>2 DEF IsAhead
  <2> QED
    BY <2>1, <2>3
<1>11. m \in DOMAIN slots' /\ m = turn' /\ q = Slot' /\ q = cur'
  BY <1>4 DEF Slot
<1> QED
  BY <1>3, <1>7, <1>8, <1>9, <1>10, <1>11 DEF TableWalks

\* It stands when the walk of a table is opened, passed, or was the last.
LEMMA OpenTableMemo ==
  ASSUME TypeInv, SourcesAreExact, job.arm = "memo", UNCHANGED setting, ~tripped', MemoInv, OpenTable
  PROVE  MemoInv' /\ SelectInv'
<1>1. pc = "open" /\ JoinStands /\ TablesStand /\ SettingIsChosen /\ slots \in Seq(Queries) /\ turn \in Nat \ {0}
  BY TurnHas DEF OpenTable, MemoInv
<1>2. CASE turn > Len(slots)
  <2>1. StartSelect
    BY <1>2 DEF OpenTable
  <2>2. SelectStands' /\ pc' = "pick"
    BY <1>1, <1>2, <2>1, TablesAreGathered
  <2> QED
    BY <2>2 DEF MemoInv, SelectInv
<1>3. CASE ~(turn > Len(slots))
  <2>1. ~(Correlated /\ Expired)
    BY <1>1, <1>3 DEF OpenTable, Polled
  <2>2. PICK m : m = turn /\ m \in DOMAIN slots /\ m \in Nat
    BY <1>1, <1>3
  <2>3. PICK q : q = slots[m] /\ q = Slot
    BY <2>2 DEF Slot
  <2>4. /\ Retarget(q)
        /\ IF Retargeted(q) /\ DOMAIN table[q] # {}
           THEN left' = RankingOf(q, base', DOMAIN table[q]) /\ pc' = "walk" /\ UNCHANGED turn
           ELSE NextTurn /\ UNCHANGED <<pc, left>>
        /\ UNCHANGED <<slots, table, here, work, results, answer>>
    BY <1>3, <2>1, <2>3 DEF OpenTable
  <2>5. /\ Holds(table[q], q, AfterLast) /\ (q = cur => ~Correlated)
        /\ ~Correlated => cur = Fixed /\ base = Fixed /\ slots = <<Fixed>>
    BY <1>1, <2>2, <2>3 DEF TablesStand
  <2>6. ~Correlated => q = Fixed
    <3> SUFFICES ASSUME ~Correlated PROVE q = Fixed
      OBVIOUS
    <3>1. slots = <<Fixed>>
      BY <2>5
    <3>2. m = 1
      BY <2>2, <3>1
    <3> QED
      BY <2>3, <3>1, <3>2
  <2>7. cur = q /\ HasVector(q) => base = q
    BY <2>5, <2>6
  <2>8. JoinStands' /\ cur' = q /\ (HasVector(q) => base' = q)
    BY <1>1, <2>4, <2>7, RetargetJoins
  <2>9. ~Correlated => base' = Fixed
    BY <2>4, <2>5, <2>6 DEF Retarget
  <2>10. CASE Retargeted(q) /\ DOMAIN table[q] # {}
    <3>1. left' = RankingOf(q, base', DOMAIN table[q]) /\ pc' = "walk" /\ turn' = m /\ results' = results
      BY <2>2, <2>4, <2>10
    <3>2. TableWalks'
      BY <1>1, <2>2, <2>3, <2>4, <2>8, <2>10, <3>1, OpenWalks
    <3>3. TablesStand'
      BY <1>1, <2>2, <2>3, <2>4, <2>8, <2>9, <3>1, TablesGoOn
    <3> QED
      BY <2>8, <3>1, <3>2, <3>3 DEF MemoInv, SelectInv
  <2>11. CASE ~(Retargeted(q) /\ DOMAIN table[q] # {})
    <3>1. turn' = m + 1 /\ pc' = "open" /\ results' = results
      BY <1>1, <2>2, <2>4, <2>11 DEF NextTurn
    <3>2. HasVector(q) => RowsOf(q) = {}
      <4> SUFFICES ASSUME HasVector(q), NEW row \in RowsOf(q) PROVE FALSE
        OBVIOUS
      <4>1. DOMAIN table[q] = {}
        BY <2>11 DEF Retargeted
      <4>2. row.id \in DOMAIN table[q]
        BY <1>1, <2>5, RowsAreAbove DEF Holds
      <4> QED
        BY <4>1, <4>2
    <3>3. TablesStand'
      BY <1>1, <2>2, <2>3, <2>4, <2>8, <2>9, <3>1, <3>2, TablesGoOn
    <3> QED
      BY <2>8, <3>1, <3>3 DEF MemoInv, SelectInv
  <2> QED
    BY <2>10, <2>11
<1> QED
  BY <1>2, <1>3

\* What has not been found when the walk of a table ends is closed.
LEMMA CloseTableMemo ==
  ASSUME TypeInv, UNCHANGED setting, JoinStands, TablesStand, TableWalks, CloseTable,
         slots' = slots, cur' = cur, base' = base, results' = results, answer' = answer, offered' = offered,
         HasVector(Slot) => \A row \in RowsOf(Slot) : IsClosed(Slot, row)
  PROVE  MemoInv' /\ SelectInv'
<1>1. PICK m : m = turn /\ m \in DOMAIN slots
  BY DEF TableWalks
<1>2. PICK q : q = slots[m] /\ q = Slot /\ q = cur
  BY <1>1 DEF TableWalks, Slot
<1>3. /\ turn' = m + 1 /\ pc' = "open" /\ table' = [table EXCEPT ![q] = <<>>]
  BY <1>1, <1>2 DEF CloseTable, NextTurn
<1>4. DOMAIN table' = DOMAIN table /\ \A p \in DOMAIN table : p # q => table'[p] = table[p]
  BY <1>3
<1>5. HasVector(q) => \A row \in RowsOf(q) : IsClosed(q, row)'
  BY <1>2, ClosedStays
<1>6. ~Correlated => base' = Fixed
  BY DEF TablesStand
<1>7. TablesStand'
  BY <1>1, <1>2, <1>3, <1>4, <1>5, <1>6, TablesGoOn
<1>8. JoinStands'
  BY JoinStays
<1> QED
  BY <1>3, <1>7, <1>8 DEF MemoInv, SelectInv

\* One neighbour of the walk of a table.
LEMMA PopTableMemo ==
  ASSUME TypeInv, SourcesAreExact, job.arm = "memo", UNCHANGED setting, ~tripped', MemoInv, PopTable
  PROVE  MemoInv' /\ SelectInv'
<1>1. /\ pc = "walk" /\ JoinStands /\ TablesStand /\ TableWalks /\ SettingIsChosen /\ left \subseteq Neighbour
      /\ ~Expired
  BY TurnHas DEF PopTable, MemoInv, Polled
<1>2. PICK m : m = turn /\ m \in DOMAIN slots
  BY <1>1 DEF TableWalks
<1>3. PICK q : q = slots[m] /\ q = Slot /\ q = cur
  BY <1>1, <1>2 DEF TableWalks, Slot
<1>4. /\ slots' = slots /\ cur' = cur /\ base' = base /\ results' = results /\ answer' = answer /\ offered' = offered
      /\ UNCHANGED heap
  BY DEF PopTable, heap
<1>5. \A row : ~Pending(row)
  BY <1>1 DEF Pending
<1>6. HasVector(q) => \A row \in RowsOf(q) :
        \/ Found(row)
        \/ IsAhead(row.id) /\ row.id \in DOMAIN table[q] /\ \E c \in table[q][row.id] : row \in c
  BY <1>1, <1>3, <1>5 DEF TableWalks
<1>7. /\ \A x \in DOMAIN table[q] : Untouched(q, x)
      /\ \A x \in DOMAIN table[q] : \A c \in table[q][x] : c \subseteq RowsWith(q, x)
      /\ \A x \in DOMAIN table[q] : \A c, d \in table[q][x] : c # d => c \cap d = {}
  BY <1>1, <1>3 DEF TableWalks
<1>8. CASE WalkEnds
  <2>1. CloseTable
    BY <1>8 DEF PopTable
  <2>2. ASSUME HasVector(q), NEW row \in RowsOf(q) PROVE IsClosed(q, row)
    <3>1. CASE Found(row)
      BY <3>1 DEF IsClosed
    <3>2. CASE IsAhead(row.id) /\ row.id \in DOMAIN table[q]
      <4>1. InOrder(cur, left)
        BY <1>1, <1>3, <2>2 DEF TableWalks, Walking
      <4>2. Beaten(cur, Dist(cur, row.id))
        BY <1>1, <1>3, <1>8, <2>2, <3>2, <4>1, EndIsBeaten
      <4>3. PICK d \in Int : d = Dist(q, row.id)
        BY <1>1, <2>2, RowsOfIs, DistType
      <4>4. d + 1 \in Int /\ d <= d + 1
        OBVIOUS
      <4>5. Beaten(q, d) /\ ResultsFit
        BY <1>1, <1>3, <4>2, <4>3 DEF JoinStands
      <4>6. Beaten(q, d + 1)
        BY <1>1, <4>4, <4>5, BeatenFarther
      <4> QED
        BY <1>7, <3>2, <4>3, <4>6 DEF IsClosed
    <3> QED
      BY <1>6, <2>2, <3>1, <3>2
  <2> QED
    BY <1>1, <1>3, <1>4, <2>1, <2>2, CloseTableMemo
<1>9. CASE ~WalkEnds
  <2>1. PICK e \in left :
          /\ IsNext(e) /\ turn' = m
          /\ IF e.id \notin DOMAIN table[q] THEN PassBy(e)
             ELSE /\ left' = left \ {e} /\ here' = e
                  /\ work' = table[q][e.id]
                  /\ table' = [table EXCEPT ![q] = Without(table[q], e.id)]
                  /\ pc' = "descend"
    BY <1>1, <1>2, <1>3, <1>9 DEF PopTable
  <2>2. HasVector(q) /\ InOrder(q, left)
    BY <1>1, <1>3 DEF TableWalks, Walking
  <2>3. left' = left \ {e}
    BY <2>1 DEF PassBy
  <2>4. InOrder(q, left \ {e}) /\ Ahead(q, e, left \ {e})
    BY <1>1, <2>1, <2>2, WalkGoesOn
  <2>5. PICK rest : rest = left \ {e} /\ rest = left'
    BY <2>3
  <2>6. HasVector(q)' /\ InOrder(q, rest)' /\ Ahead(q, e, rest)'
    BY <2>2, <2>4, <2>5, FitsStay, RowsStay
  <2>7. \A x : IsAhead(x) <=> IsAhead(x)' \/ x = e.id
    BY <2>3 DEF IsAhead
  <2>8. JoinStands'
    BY <1>1, <1>4, JoinStays
  <2>9. ~Correlated => base' = Fixed
    BY <1>1, <1>4 DEF TablesStand
  <2>10. m \in DOMAIN slots' /\ m = turn' /\ q = Slot' /\ q = cur'
    BY <1>2, <1>3, <1>4, <2>1 DEF Slot
  <2>11. \A row : Found(row) => Found(row)'
    BY <1>4 DEF Found
  <2>12. \A x : Untouched(q, x) => Untouched(q, x)'
    BY <1>4, SettingStays DEF Untouched, ResultsOf
  <2>13. \A f \in offered' : (\A l \in rest : f.dist <= l.dist) /\ f.dist <= e.dist
    BY <1>1, <1>4, <2>5 DEF TableWalks
  <2>14. CASE e.id \notin DOMAIN table[q]
    <3>1. pc' = "walk" /\ table' = table
      BY <1>1, <2>1, <2>14 DEF PassBy
    <3>2. Walking(q)'
      BY <2>5, <2>6, <3>1 DEF Walking
    <3>3. PICK t : t = table[q] /\ t = table'[q]
      BY <3>1
    <3>4. \A x \in DOMAIN t : /\ Untouched(q, x)'
                              /\ \A c \in t[x] : c \subseteq RowsWith(q, x)'
                              /\ \A c, d \in t[x] : c # d => c \cap d = {}
      BY <1>7, <2>12, <3>3, RowsStay
    <3>5. \A row \in RowsOf(q)' : \/ Found(row)'
                                  \/ IsAhead(row.id)' /\ row.id \in DOMAIN t /\ \E c \in t[row.id] : row \in c
      BY <1>6, <2>2, <2>7, <2>11, <2>14, <3>3, RowsStay
    <3>6. TableWalks'
      BY <2>5, <2>10, <2>13, <3>1, <3>2, <3>3, <3>4, <3>5 DEF TableWalks
    <3>7. TablesStand'
      BY <1>1, <1>2, <1>3, <1>4, <2>1, <2>9, <3>1, TablesGoOn
    <3> QED
      BY <2>8, <3>1, <3>6, <3>7 DEF MemoInv, SelectInv
  <2>15. CASE e.id \in DOMAIN table[q]
    <3>1. /\ here' = e /\ work' = table[q][e.id] /\ pc' = "descend"
          /\ table' = [table EXCEPT ![q] = Without(table[q], e.id)]
      BY <2>1, <2>15
    <3>2. Walking(q)'
      BY <2>5, <2>6, <3>1 DEF Walking
    <3>3. q \in DOMAIN table
      BY <1>1, <1>2, <1>3 DEF TablesStand, Range
    <3>4. PICK t : t = Without(table[q], e.id) /\ t = table'[q]
      BY <3>1, <3>3
    <3>5. DOMAIN t = DOMAIN table[q] \ {e.id} /\ \A x \in DOMAIN t : t[x] = table[q][x]
      BY <3>4 DEF Without
    <3>6. DOMAIN table' = DOMAIN table /\ \A p \in DOMAIN table : p # q => table'[p] = table[p]
      BY <3>1
    <3>7. \A x \in DOMAIN t : /\ Untouched(q, x)'
                              /\ \A c \in t[x] : c \subseteq RowsWith(q, x)'
                              /\ \A c, d \in t[x] : c # d => c \cap d = {}
      BY <1>7, <2>12, <3>5, RowsStay
    <3>8. \A row \in RowsOf(q)' : \/ Found(row)' \/ Pending(row)'
                                  \/ IsAhead(row.id)' /\ row.id \in DOMAIN t /\ \E c \in t[row.id] : row \in c
      <4> SUFFICES ASSUME NEW row \in RowsOf(q)
                   PROVE  \/ Found(row)' \/ Pending(row)'
                          \/ IsAhead(row.id)' /\ row.id \in DOMAIN t /\ \E c \in t[row.id] : row \in c
        BY RowsStay
      <4>1. CASE Found(row)
        BY <2>11, <4>1
      <4>2. CASE IsAhead(row.id) /\ row.id \in DOMAIN table[q] /\ \E c \in table[q][row.id] : row \in c
        <5>1. CASE row.id = e.id
          BY <3>1, <4>2, <5>1 DEF Pending
        <5>2. CASE row.id # e.id
          BY <2>7, <3>5, <4>2, <5>2
        <5> QED
          BY <5>1, <5>2
      <4> QED
        BY <1>6, <2>2, <4>1, <4>2
    <3>9. TableWalks'
      BY <2>5, <2>10, <2>13, <3>1, <3>2, <3>4, <3>7, <3>8 DEF TableWalks
    <3>10. TablesStand'
      BY <1>1, <1>2, <1>3, <1>4, <2>1, <2>9, <3>1, <3>6, TablesGoOn
    <3>11. PICK w : w = table[q][e.id] /\ w = work'
      BY <3>1
    <3>12. \A c \in w : c \subseteq RowsWith(q, e.id) /\ \A r \in results : r.row \notin c
      <4> SUFFICES ASSUME NEW c \in w PROVE c \subseteq RowsWith(q, e.id) /\ \A r \in results : r.row \notin c
        OBVIOUS
      <4>1. c \subseteq RowsWith(q, e.id) /\ Untouched(q, e.id)
        BY <1>7, <2>15, <3>11
      <4> QED
        BY <4>1 DEF RowsWith, Untouched, ResultsOf
    <3>13. WorkIsNew'
      BY <1>4, <1>7, <2>15, <3>11, <3>12 DEF WorkIsNew
    <3>14. TableDescends'
      <4>1. e.id \notin DOMAIN t /\ \A c \in w : c \subseteq RowsWith(q, e.id)'
        BY <3>5, <3>12, RowsStay
      <4> QED
        BY <2>6, <2>10, <3>1, <3>4, <3>11, <3>13, <4>1 DEF TableDescends
    <3> QED
      BY <2>8, <3>1, <3>9, <3>10, <3>14 DEF MemoInv, SelectInv
  <2> QED
    BY <2>14, <2>15
<1> QED
  BY <1>8, <1>9

\* The search below a neighbour of a table has ended: the walk goes on, or cuts what is left.
LEMMA RestTableMemo ==
  ASSUME TypeInv, SourcesAreExact, job.arm = "memo", UNCHANGED setting, MemoInv, RestTable
  PROVE  MemoInv' /\ SelectInv'
<1>1. /\ pc = "descend" /\ work = {} /\ JoinStands /\ TablesStand /\ TableWalks /\ TableDescends
      /\ SettingIsChosen /\ HeapInv /\ left \subseteq Neighbour /\ here \in Neighbour
  BY TurnHas DEF RestTable, MemoInv
<1>2. PICK m : m = turn /\ m \in DOMAIN slots
  BY <1>1 DEF TableWalks
<1>3. PICK q : q = slots[m] /\ q = Slot /\ q = cur /\ HasVector(q)
  BY <1>1, <1>2 DEF TableWalks, TableDescends, Slot
<1>4. /\ slots' = slots /\ cur' = cur /\ base' = base /\ results' = results /\ answer' = answer /\ offered' = offered
  BY DEF RestTable, heap
<1>5. \A row : ~Pending(row)
  BY <1>1 DEF Pending
<1>6. \A row \in RowsOf(q) :
        \/ Found(row)
        \/ IsAhead(row.id) /\ row.id \in DOMAIN table[q] /\ \E c \in table[q][row.id] : row \in c
  BY <1>1, <1>3, <1>5 DEF TableWalks
<1>7. /\ \A x \in DOMAIN table[q] : Untouched(q, x)
      /\ \A x \in DOMAIN table[q] : \A c \in table[q][x] : c \subseteq RowsWith(q, x)
      /\ \A x \in DOMAIN table[q] : \A c, d \in table[q][x] : c # d => c \cap d = {}
  BY <1>1, <1>3 DEF TableWalks
<1>8. InOrder(q, left) /\ Ahead(q, here, left)
  BY <1>1, <1>3 DEF TableWalks, Walking
<1>9. CASE Cuts
  <2>1. CloseTable
    BY <1>9 DEF RestTable
  <2>2. ASSUME NEW row \in RowsOf(q) PROVE IsClosed(q, row)
    <3>1. CASE Found(row)
      BY <3>1 DEF IsClosed
    <3>2. CASE IsAhead(row.id) /\ row.id \in DOMAIN table[q]
      <4>1. IsFull(held, job.k)
        BY <1>3, <1>9, <3>2 DEF Cuts
      <4>2. Cardinality(held) = job.k /\ held \subseteq offered
        <5>1. Cardinality(held) \in Nat /\ Cardinality(held) <= job.k /\ job.k \in Nat /\ held \subseteq offered
          BY <1>1, FS_CardinalityType DEF HeapInv, HeapIsCounted, ThresholdIsSound
        <5> QED
          BY <4>1, <5>1 DEF IsFull
      <4>3. PICK l \in left : l.id = row.id
        BY <3>2 DEF IsAhead
      <4>4. PICK d \in Int : d = Dist(q, row.id) /\ d = l.dist
        BY <1>1, <1>8, <4>3 DEF InOrder, Neighbour
      <4>5. \A f \in held : f.dist < d + 1
        <5> SUFFICES ASSUME NEW f \in held PROVE f.dist < d + 1
          OBVIOUS
        <5>1. f \in offered
          BY <4>2
        <5>2. f.dist <= d
          BY <1>1, <4>3, <4>4, <5>1 DEF TableWalks
        <5>3. PICK g \in Int : g = f.dist
          BY <1>1, <5>1 DEF HeapInv, HeapIsCounted
        <5> QED
          BY <5>2, <5>3
      <4>6. Beaten(q, d + 1)
        BY <1>1, <1>3, <4>2, <4>5, BeatenByHeap DEF JoinStands
      <4> QED
        BY <1>7, <3>2, <4>4, <4>6 DEF IsClosed
    <3> QED
      BY <1>6, <2>2, <3>1, <3>2
  <2> QED
    BY <1>1, <1>3, <1>4, <2>1, <2>2, CloseTableMemo
<1>10. CASE ~Cuts
  <2>1. pc' = "walk" /\ UNCHANGED <<turn, table, left, here, work>>
    BY <1>10 DEF RestTable
  <2>2. JoinStands'
    BY <1>1, <1>4, JoinStays
  <2>3. ~Correlated => base' = Fixed
    BY <1>1, <1>4 DEF TablesStand
  <2>4. m \in DOMAIN slots' /\ m = turn' /\ q = Slot' /\ q = cur'
    BY <1>2, <1>3, <1>4, <2>1 DEF Slot
  <2>5. TablesStand'
    BY <1>1, <1>2, <1>3, <1>4, <2>1, <2>3, <2>4, TablesGoOn
  <2>6. PICK entries, t : entries = left /\ entries = left' /\ t = table[q] /\ t = table'[q]
    BY <2>1
  <2>7. InOrder(q, entries)' /\ HasVector(q)'
    BY <1>3, <1>8, <2>6, FitsStay, RowsStay
  <2>8. Walking(q)'
    BY <2>1, <2>6, <2>7 DEF Walking
  <2>9. \A f \in offered' : \A l \in entries : f.dist <= l.dist
    BY <1>1, <1>4, <2>6 DEF TableWalks
  <2>10. \A x : Untouched(q, x) => Untouched(q, x)'
    BY <1>4, SettingStays DEF Untouched, ResultsOf
  <2>11. \A x \in DOMAIN t : /\ Untouched(q, x)'
                             /\ \A c \in t[x] : c \subseteq RowsWith(q, x)'
                             /\ \A c, d \in t[x] : c # d => c \cap d = {}
    BY <1>7, <2>6, <2>10, RowsStay
  <2>12. \A row : (Found(row) => Found(row)') /\ (IsAhead(row.id) => IsAhead(row.id)')
    BY <1>4, <2>1 DEF Found, IsAhead
  <2>13. \A row \in RowsOf(q)' : \/ Found(row)'
                                 \/ IsAhead(row.id)' /\ row.id \in DOMAIN t /\ \E c \in t[row.id] : row \in c
    BY <1>6, <2>6, <2>12, RowsStay
  <2>14. TableWalks'
    BY <2>1, <2>4, <2>6, <2>8, <2>9, <2>11, <2>13 DEF TableWalks
  <2> QED
    BY <2>1, <2>2, <2>5, <2>14 DEF MemoInv, SelectInv
<1> QED
  BY <1>9, <1>10

\* A base case of a table is completed.
LEMMA DescendMemo ==
  ASSUME TypeInv, SourcesAreExact, job.arm = "memo", UNCHANGED setting, ~tripped', MemoInv, Descend
  PROVE  MemoInv' /\ SelectInv'
<1>1. /\ pc = "descend" /\ JoinStands /\ TablesStand /\ TableWalks /\ TableDescends
      /\ SettingIsChosen /\ HeapInv /\ ~Expired /\ left \subseteq Neighbour /\ here \in Neighbour
  BY TurnHas DEF Descend, MemoInv, Polled
<1>2. PICK c \in work :
        /\ work' = work \ {c}
        /\ results' = results \cup {[row |-> r, dist |-> here.dist, nth |-> Cardinality(results)] : r \in c}
        /\ Accept(here.id, here.dist)
        /\ UNCHANGED <<pc, turn, slots, table, cur, base, left, here, answer>>
  BY <1>1 DEF Descend
<1>3. PICK m, x : m = turn /\ m \in DOMAIN slots /\ x = here.id /\ m = turn' /\ x = here.id'
  BY <1>1, <1>2 DEF TableWalks
<1>4. PICK q, t, entries : /\ q = slots[m] /\ q = Slot /\ q = cur /\ q = cur' /\ q = Slot'
                           /\ t = table[q] /\ t = table'[q] /\ entries = left /\ entries = left'
  BY <1>1, <1>2, <1>3 DEF TableWalks, Slot
<1>5. HasVector(q) /\ InOrder(q, entries) /\ Ahead(q, here, entries)
  BY <1>1, <1>4 DEF TableWalks, TableDescends, Walking
<1>6. IsRanked(cur, here.id) /\ here.dist = Dist(cur, here.id) /\ (\A f \in entries : f.id # x /\ here.dist <= f.dist)
  BY <1>3, <1>4, <1>5 DEF Ahead
<1>7. WorkIsNew /\ x \notin DOMAIN t /\ \A d \in work : d \subseteq RowsWith(q, x)
  BY <1>1, <1>3, <1>4 DEF TableDescends
<1>8. c # {}
  <2>1. IsCase(c)
    BY <1>1 DEF TypeInv, Typed, LoopsStand
  <2> QED
    BY <1>1, <2>1, CaseIs
<1>9. \A row \in c : row \in AllRows /\ QueryOf(row) = cur /\ row.id = here.id
  BY <1>3, <1>4, <1>7 DEF RowsWith
<1>10. /\ JoinStands' /\ WorkIsNew' /\ results \subseteq results'
       /\ \A row \in c : Found(row)'
       /\ \A r \in results' : r \in results \/ r.row \in c
       /\ \A e \in offered' : e \in offered \/ e.dist = here.dist
  BY <1>1, <1>2, <1>4, <1>5, <1>6, <1>7, <1>8, <1>9, DescendJoins
<1>11. TablesStand'
  <2>1. ~Correlated => base' = Fixed
    BY <1>1, <1>2 DEF TablesStand
  <2>2. \A r \in results' : r \in results \/ QueryOf(r.row) = q
    BY <1>4, <1>9, <1>10
  <2>3. pc' # "open" /\ slots' = slots /\ table' = table
    BY <1>1, <1>2
  <2> QED
    <3>1. DOMAIN table' = DOMAIN table /\ (\A p \in DOMAIN table : p # q => table'[p] = table[p]) /\ results \subseteq results'
      BY <1>10, <2>3
    <3>2. m = turn /\ m \in DOMAIN slots /\ m = turn' /\ q = slots[m] /\ cur' = q /\ TablesStand
      BY <1>1, <1>3, <1>4
    <3> QED
      BY <2>1, <2>2, <2>3, <3>1, <3>2, TablesGoOn
<1>12. Walking(q)' /\ HasVector(q)'
  <2>1. InOrder(q, entries)' /\ HasVector(q)'
    BY <1>5, FitsStay, RowsStay
  <2>2. PICK h : h = here /\ h = here'
    BY <1>2
  <2>3. Ahead(q, h, entries)'
    BY <1>5, <2>2, FitsStay
  <2> QED
    BY <1>4, <2>1, <2>2, <2>3 DEF Walking
<1>13. \A f \in offered' : (\A l \in entries : f.dist <= l.dist) /\ f.dist <= here'.dist
  <2> SUFFICES ASSUME NEW f \in offered' PROVE (\A l \in entries : f.dist <= l.dist) /\ f.dist <= here.dist
    BY <1>2
  <2>1. CASE f \in offered
    BY <1>1, <1>4, <2>1 DEF TableWalks
  <2>2. CASE f.dist = here.dist
    <3>1. here.dist \in Int
      BY <1>1 DEF Neighbour
    <3> QED
      BY <1>6, <2>2, <3>1
  <2> QED
    BY <1>10, <2>1, <2>2
<1>14. \A y \in DOMAIN t : /\ Untouched(q, y)'
                           /\ \A d \in t[y] : d \subseteq RowsWith(q, y)'
                           /\ \A d, g \in t[y] : d # g => d \cap g = {}
  <2> SUFFICES ASSUME NEW y \in DOMAIN t
               PROVE  /\ Untouched(q, y)'
                      /\ \A d \in t[y] : d \subseteq RowsWith(q, y)
                      /\ \A d, g \in t[y] : d # g => d \cap g = {}
    BY RowsStay
  <2>1. /\ Untouched(q, y)
        /\ \A d \in t[y] : d \subseteq RowsWith(q, y)
        /\ \A d, g \in t[y] : d # g => d \cap g = {}
    BY <1>1, <1>4 DEF TableWalks
  <2>2. \A r \in results' : QueryOf(r.row) = q => r.row.id # y
    BY <1>3, <1>7, <1>9, <1>10, <2>1 DEF Untouched, ResultsOf
  <2>3. Untouched(q, y)'
    BY <2>2, SettingStays DEF Untouched, ResultsOf
  <2> QED
    BY <2>1, <2>3
<1>15. \A row \in RowsOf(q)' : \/ Found(row)' \/ Pending(row)'
                               \/ IsAhead(row.id)' /\ row.id \in DOMAIN t /\ \E d \in t[row.id] : row \in d
  <2> SUFFICES ASSUME NEW row \in RowsOf(q)
               PROVE  \/ Found(row)' \/ Pending(row)'
                      \/ IsAhead(row.id)' /\ row.id \in DOMAIN t /\ \E d \in t[row.id] : row \in d
    BY RowsStay
  <2>1. \/ Found(row) \/ Pending(row)
        \/ IsAhead(row.id) /\ row.id \in DOMAIN t /\ \E d \in t[row.id] : row \in d
    BY <1>1, <1>4, <1>5 DEF TableWalks
  <2>2. Found(row) => Found(row)'
    BY <1>10 DEF Found
  <2>3. Pending(row) => Pending(row)' \/ Found(row)'
    BY <1>2, <1>10 DEF Pending
  <2>4. IsAhead(row.id) => IsAhead(row.id)'
    BY <1>2 DEF IsAhead
  <2> QED
    BY <2>1, <2>2, <2>3, <2>4
<1>16. TableWalks'
  <2>1. m \in DOMAIN slots'
    BY <1>2, <1>3
  <2> QED
    BY <1>3, <1>4, <1>12, <1>13, <1>14, <1>15, <2>1 DEF TableWalks
<1>17. TableDescends'
  <2>1. \A d \in work' : d \subseteq RowsWith(q, x)'
    BY <1>2, <1>7, RowsStay
  <2> QED
    BY <1>3, <1>4, <1>7, <1>10, <1>12, <2>1 DEF TableDescends
<1> QED
  BY <1>1, <1>2, <1>10, <1>11, <1>16, <1>17 DEF MemoInv, SelectInv

(***************************************************************************)
(* The selection.                                                          *)
(***************************************************************************)
\* What is offered for a result: its binding with all the rows found of it, or its row.
OfferOf(q, r) == Offer(Dist(q, r.row.id), r.row.id, IF Distinct THEN Mates(q, r.row.id) ELSE {r.row})

\* The results are of ranked rows, at their distances.
LEMMA ResultIs ==
  ASSUME ResultsFit, NEW q, NEW r \in ResultsOf(q)
  PROVE  /\ r \in results /\ QueryOf(r.row) = q /\ HasVector(q) /\ r.row \in RowsOf(q)
         /\ r.dist = Dist(q, r.row.id) /\ IsRanked(q, r.row.id)
<1>1. r \in results /\ QueryOf(r.row) = q
  BY DEF ResultsOf
<1>2. HasVector(q) /\ r.row \in RowsOf(q) /\ r.dist = Dist(q, r.row.id)
  BY <1>1 DEF ResultsFit
<1> QED
  BY <1>1, <1>2, RowsOfIs

\* The offers of a query are those of its results.
LEMMA GroupIs ==
  ASSUME ResultsAreNumbered, ResultsFit, NEW q
  PROVE  /\ \A o \in Group(q) : \E r \in ResultsOf(q) : o = OfferOf(q, r)
         /\ \A r \in ResultsOf(q) : OfferOf(q, r) \in Group(q)
<1>1. PICK firsts : firsts = {r \in ResultsOf(q) : \A s \in ResultsOf(q) : s.row.id = r.row.id => r.nth <= s.nth}
  OBVIOUS
<1>2. Group(q) = UNION {OffersFor(r.dist, r.row.id, Mates(q, r.row.id)) : r \in firsts}
  BY <1>1 DEF Group, Mates
<1>3. ASSUME NEW o \in Group(q) PROVE \E r \in ResultsOf(q) : o = OfferOf(q, r)
  <2>1. PICK r \in firsts : o \in OffersFor(r.dist, r.row.id, Mates(q, r.row.id))
    BY <1>2, <1>3
  <2>2. r \in ResultsOf(q) /\ r.dist = Dist(q, r.row.id)
    BY <1>1, <2>1, ResultIs
  <2>3. CASE Distinct
    <3>1. o = Offer(r.dist, r.row.id, Mates(q, r.row.id))
      BY <2>1, <2>3 DEF OffersFor
    <3> QED
      BY <2>2, <2>3, <3>1 DEF OfferOf
  <2>4. CASE ~Distinct
    <3>1. PICK row \in Mates(q, r.row.id) : o = Offer(r.dist, r.row.id, {row})
      BY <2>1, <2>4 DEF OffersFor
    <3>2. PICK t \in ResultsOf(q) : t.row = row /\ t.row.id = r.row.id
      BY <3>1 DEF Mates
    <3> QED
      BY <2>2, <2>4, <3>1, <3>2 DEF OfferOf
  <2> QED
    BY <2>3, <2>4
<1>4. ASSUME NEW r \in ResultsOf(q) PROVE OfferOf(q, r) \in Group(q)
  <2>1. PICK x : x = r.row.id
    OBVIOUS
  <2>2. PICK S : S = {s.nth : s \in {t \in ResultsOf(q) : t.row.id = x}}
    OBVIOUS
  <2>3. S # {} /\ S \in SUBSET Nat
    <3>1. r.nth \in S
      BY <2>1, <2>2
    <3>2. \A s \in ResultsOf(q) : s.nth \in Nat
      <4>1. Cardinality(results) \in Nat
        BY FS_CardinalityType DEF ResultsAreNumbered
      <4>2. \A s \in results : s.nth \in 0..(Cardinality(results) - 1)
        BY DEF ResultsAreNumbered
      <4> QED
        BY <4>1, <4>2 DEF ResultsOf
    <3> QED
      BY <2>2, <3>1, <3>2
  <2>4. PICK n \in S : \A i \in S : n <= i
    BY <2>3, LeastNatural
  <2>5. PICK f \in ResultsOf(q) : f.row.id = x /\ f.nth = n
    BY <2>2, <2>4
  <2>6. f \in firsts
    BY <1>1, <2>2, <2>4, <2>5
  <2>7. f.dist = Dist(q, x)
    BY <2>5, ResultIs
  <2>8. OfferOf(q, r) \in OffersFor(f.dist, f.row.id, Mates(q, f.row.id))
    <3>1. r.row \in Mates(q, x)
      BY <2>1 DEF Mates
    <3> QED
      BY <2>1, <2>5, <2>7, <3>1 DEF OfferOf, OffersFor
  <2> QED
    BY <1>2, <2>6, <2>8
<1> QED
  BY <1>3, <1>4

\* They fit, and each result has its own.
LEMMA GroupFits ==
  ASSUME ResultsAreNumbered, ResultsFit, NEW q
  PROVE  /\ \A o \in Group(q) : Fits(q, o.id, o.dist, o.rows) /\ (Distinct => o.rows = Mates(q, o.id))
         /\ \A o, p \in Group(q) : Key(o.id, o.rows) = Key(p.id, p.rows) => o = p
         /\ \A r \in ResultsOf(q) : \E o \in Group(q) : Key(o.id, o.rows) = RKey(r) /\ o.dist = r.dist
<1>1. ASSUME NEW r \in ResultsOf(q), NEW o, o = OfferOf(q, r)
      PROVE  /\ o.id = r.row.id /\ o.dist = Dist(q, r.row.id) /\ o.rows = IF Distinct THEN Mates(q, r.row.id) ELSE {r.row}
             /\ Key(o.id, o.rows) = RKey(r) /\ o.dist = r.dist
             /\ Fits(q, o.id, o.dist, o.rows)
  <2>1. o.id = r.row.id /\ o.dist = Dist(q, r.row.id) /\ o.rows = IF Distinct THEN Mates(q, r.row.id) ELSE {r.row}
    BY <1>1 DEF OfferOf, Offer
  <2>2. Key(o.id, o.rows) = RKey(r)
    BY <2>1 DEF Key, RKey
  <2>3. r.row \in RowsOf(q) /\ r.dist = Dist(q, r.row.id)
    BY ResultIs
  <2>4. r.row \in Mates(q, r.row.id) /\ Mates(q, r.row.id) \subseteq RowsOf(q) /\ \A s \in Mates(q, r.row.id) : s.id = r.row.id
    BY ResultIs DEF Mates
  <2>5. Fits(q, o.id, o.dist, o.rows)
    BY <2>1, <2>3, <2>4 DEF Fits
  <2> QED
    BY <2>1, <2>2, <2>3, <2>5
<1>2. \A o \in Group(q) : Fits(q, o.id, o.dist, o.rows) /\ (Distinct => o.rows = Mates(q, o.id))
  <2> SUFFICES ASSUME NEW o \in Group(q) PROVE Fits(q, o.id, o.dist, o.rows) /\ (Distinct => o.rows = Mates(q, o.id))
    OBVIOUS
  <2>1. PICK r \in ResultsOf(q) : o = OfferOf(q, r)
    BY GroupIs
  <2>2. /\ o.id = r.row.id /\ o.rows = IF Distinct THEN Mates(q, r.row.id) ELSE {r.row}
        /\ Fits(q, o.id, o.dist, o.rows)
    BY <1>1, <2>1
  <2>3. Distinct => o.rows = Mates(q, o.id)
    <3> SUFFICES ASSUME Distinct PROVE o.rows = Mates(q, o.id)
      OBVIOUS
    <3>1. o.rows = Mates(q, r.row.id)
      BY <2>2
    <3> QED
      BY <2>2, <3>1
  <2> QED
    BY <2>2, <2>3
<1>3. ASSUME NEW o \in Group(q), NEW p \in Group(q), Key(o.id, o.rows) = Key(p.id, p.rows) PROVE o = p
  <2>1. PICK r \in ResultsOf(q) : o = OfferOf(q, r)
    BY <1>3, GroupIs
  <2>2. PICK s \in ResultsOf(q) : p = OfferOf(q, s)
    BY <1>3, GroupIs
  <2>3. RKey(r) = RKey(s)
    BY <1>1, <1>3, <2>1, <2>2
  <2>4. CASE Distinct
    <3>1. r.row.id = s.row.id
      BY <2>3, <2>4 DEF RKey
    <3> QED
      BY <2>1, <2>2, <2>4, <3>1 DEF OfferOf
  <2>5. CASE ~Distinct
    <3>1. r.row = s.row
      BY <2>3, <2>5 DEF RKey
    <3> QED
      BY <2>1, <2>2, <2>5, <3>1 DEF OfferOf
  <2> QED
    BY <2>4, <2>5
<1>4. \A r \in ResultsOf(q) : \E o \in Group(q) : Key(o.id, o.rows) = RKey(r) /\ o.dist = r.dist
  BY <1>1, GroupIs
<1> QED
  BY <1>2, <1>3, <1>4

\* A turn of the selection leaves the results and their queries.
LEMMA SelectStays ==
  ASSUME TypeInv, SelectStands, UNCHANGED setting, results' = results, slots' = slots, AnswersUpTo(turn)'
  PROVE  SelectStands' /\ \A q, x : Mates(q, x)' = Mates(q, x) /\ ResultsOf(q)' = ResultsOf(q)
<1>1. ResultsFit'
  BY RowsStay, SettingStays DEF SelectStands, ResultsFit
<1>2. (OneToOne(slots) /\ Range(slots) = {QueryOf(r.row) : r \in results})'
  <2>1. {QueryOf(r.row) : r \in results}' = {QueryOf(r.row) : r \in results}
    BY SettingStays
  <2>2. PICK s : s = slots /\ s = slots'
    OBVIOUS
  <2> QED
    BY <2>1, <2>2 DEF SelectStands
<1>3. \A q, row : IsGathered(q, row) => IsGathered(q, row)'
  <2> SUFFICES ASSUME NEW q, NEW row, IsGathered(q, row) PROVE IsGathered(q, row)'
    OBVIOUS
  <2>1. CASE IsClosed(q, row)
    <3>1. IsClosed(q, row)'
      BY <2>1, ClosedStays
    <3> QED
      BY <3>1 DEF IsGathered
  <2>2. CASE Beaten(q, Dist(q, row.id))
    <3>1. PICK d : d = Dist(q, row.id) /\ d = Dist(q, row.id)'
      BY RowsStay
    <3>2. Beaten(q, d)'
      BY <2>2, <3>1, ResultsGrow
    <3> QED
      BY <3>1, <3>2 DEF IsGathered
  <2> QED
    BY <2>1, <2>2 DEF IsGathered
<1>4. (\A q \in Queries : HasVector(q) => \A row \in RowsOf(q) : IsGathered(q, row))'
  BY <1>3, RowsStay, SettingStays DEF SelectStands
<1>5. \A q : ResultsOf(q)' = ResultsOf(q)
  BY SettingStays DEF ResultsOf
<1>6. \A q, x : Mates(q, x)' = Mates(q, x)
  BY <1>5 DEF Mates
<1> QED
  BY <1>1, <1>2, <1>4, <1>5, <1>6 DEF SelectStands

\* Selecting starts with the next query, or ends.
LEMMA PickSelects ==
  ASSUME TypeInv, SelectInv, UNCHANGED setting, Pick
  PROVE  SelectInv' /\ pc' \in {"offer", "done"}
<1>1. /\ pc = "pick" /\ SelectStands /\ slots \in Seq(Queries) /\ turn \in Nat \ {0}
      /\ results' = results /\ slots' = slots /\ turn' = turn /\ answer' = answer
  BY TurnHas DEF Pick, SelectInv
<1>2. AnswersUpTo(turn)'
  <2>1. PICK n : n = turn /\ n = turn'
    BY <1>1
  <2>2. AnswersUpTo(n)'
    BY <1>1, <2>1, AnswersStay DEF SelectStands
  <2> QED
    BY <2>1, <2>2
<1>3. SelectStands' /\ \A q, x : Mates(q, x)' = Mates(q, x) /\ ResultsOf(q)' = ResultsOf(q)
  BY <1>1, <1>2, SelectStays
<1>4. CASE turn > Len(slots)
  <2>1. pc' = "done"
    BY <1>4 DEF Pick
  <2> QED
    BY <1>1, <1>3, <1>4, <2>1 DEF SelectInv
<1>5. CASE ~(turn > Len(slots))
  <2>1. PICK m : m = turn /\ m \in DOMAIN slots /\ m = turn' /\ m \in DOMAIN slots'
    BY <1>1, <1>5
  <2>2. PICK q : q = Slot /\ q = Slot'
    BY <1>1 DEF Slot
  <2>3. offered' = {} /\ work' = Group(q) /\ pc' = "offer"
    BY <1>5, <2>2 DEF Pick, Emptied
  <2>4. PICK w : w = Group(q)
    OBVIOUS
  <2>5. /\ \A o \in w : Fits(q, o.id, o.dist, o.rows) /\ (Distinct => o.rows = Mates(q, o.id))
        /\ \A o, p \in w : Key(o.id, o.rows) = Key(p.id, p.rows) => o = p
        /\ \A r \in ResultsOf(q) : \E o \in w : Key(o.id, o.rows) = RKey(r) /\ o.dist = r.dist
    BY <1>1, <2>4, GroupFits DEF SelectStands, TypeInv, Typed, ResultsAreTyped
  <2>6. EntriesFit(q)' /\ WorkFits(q)'
    <3>1. EntriesFit(q)'
      BY <2>3 DEF EntriesFit
    <3>2. \A o \in w : Fits(q, o.id, o.dist, o.rows)'
      BY <2>5, FitsStay
    <3>3. \A o, p \in w : Key(o.id, o.rows)' = Key(p.id, p.rows)' => o = p
      BY <2>5, FitsStay
    <3> QED
      BY <2>3, <2>4, <3>1, <3>2, <3>3 DEF WorkFits
  <2>7. \A r \in ResultsOf(q)' : IsOffered(r)'
    <3>1. \A r : RKey(r)' = RKey(r)
      BY RowsStay DEF RKey
    <3>2. \A r \in ResultsOf(q)' : \E o \in w : Key(o.id, o.rows)' = RKey(r)' /\ o.dist = r.dist
      BY <1>3, <2>5, <3>1, FitsStay
    <3> QED
      BY <2>3, <2>4, <3>2 DEF IsOffered
  <2>8. Distinct' => \A o \in w : o.rows = Mates(q, o.id)'
    BY <1>3, <2>5, RowsStay
  <2>9. SelectSinks'
    BY <2>1, <2>2, <2>3, <2>4, <2>6, <2>7, <2>8 DEF SelectSinks
  <2> QED
    BY <1>3, <2>3, <2>9 DEF SelectInv
<1> QED
  BY <1>4, <1>5

\* One offer of a query.
LEMMA OfferSelects ==
  ASSUME TypeInv, SelectInv, UNCHANGED setting, OfferOne
  PROVE  SelectInv' /\ pc' = "offer"
<1>1. PICK o \in work : Take(o) /\ work' = work \ {o}
  BY DEF OfferOne
<1>2. /\ pc = "offer" /\ SelectStands /\ SelectSinks /\ slots \in Seq(Queries) /\ turn \in Nat \ {0}
      /\ results' = results /\ slots' = slots /\ turn' = turn /\ answer' = answer /\ pc' = pc
  BY TurnHas DEF OfferOne, SelectInv
<1>3. AnswersUpTo(turn)'
  <2>1. PICK n : n = turn /\ n = turn'
    BY <1>2
  <2>2. AnswersUpTo(n)'
    BY <1>2, <2>1, AnswersStay DEF SelectStands
  <2> QED
    BY <2>1, <2>2
<1>4. SelectStands' /\ \A q, x : Mates(q, x)' = Mates(q, x) /\ ResultsOf(q)' = ResultsOf(q)
  BY <1>2, <1>3, SelectStays
<1>5. PICK q, m : q = Slot /\ q = Slot' /\ m = turn /\ m = turn' /\ m \in DOMAIN slots /\ m \in DOMAIN slots'
  BY <1>2 DEF Slot, SelectSinks
<1>6. /\ EntriesFit(q) /\ WorkFits(q)
      /\ \A r \in ResultsOf(q) : IsOffered(r)
      /\ Distinct => /\ \A e \in offered : e.payload = Mates(q, e.id)
                     /\ \A p \in work : p.rows = Mates(q, p.id)
  BY <1>2, <1>5 DEF SelectSinks
<1>7. /\ EntriesFit(q)' /\ WorkFits(q)'
      /\ \E e : offered' = offered \cup {e} /\ e.dist = o.dist /\ e.id = o.id /\ e.payload = o.rows
  BY <1>1, <1>6, OfferKeepsFits
<1>8. PICK e : offered' = offered \cup {e} /\ e.dist = o.dist /\ e.id = o.id /\ e.payload = o.rows
  BY <1>7
<1>9. \A r \in ResultsOf(q)' : IsOffered(r)'
  <2> SUFFICES ASSUME NEW r \in ResultsOf(q) PROVE IsOffered(r)'
    BY <1>4
  <2>1. RKey(r)' = RKey(r)
    BY RowsStay DEF RKey
  <2>2. CASE \E f \in offered : Key(f.id, f.payload) = RKey(r) /\ f.dist = r.dist
    BY <1>8, <2>1, <2>2, FitsStay DEF IsOffered
  <2>3. CASE \E p \in work : Key(p.id, p.rows) = RKey(r) /\ p.dist = r.dist
    <3>1. PICK p \in work : Key(p.id, p.rows) = RKey(r) /\ p.dist = r.dist
      BY <2>3
    <3>2. CASE p = o
      <4>1. e \in offered' /\ Key(e.id, e.payload)' = RKey(r)' /\ e.dist = r.dist
        BY <1>8, <2>1, <3>1, <3>2, FitsStay
      <4> QED
        BY <4>1 DEF IsOffered
    <3>3. CASE p # o
      BY <1>1, <2>1, <3>1, <3>3, FitsStay DEF IsOffered
    <3> QED
      BY <3>2, <3>3
  <2> QED
    BY <1>6, <2>2, <2>3 DEF IsOffered
<1>10. Distinct' => /\ \A f \in offered' : f.payload = Mates(q, f.id)'
                    /\ \A p \in work' : p.rows = Mates(q, p.id)'
  <2> SUFFICES ASSUME Distinct PROVE /\ \A f \in offered' : f.payload = Mates(q, f.id)'
                                     /\ \A p \in work' : p.rows = Mates(q, p.id)'
    BY RowsStay
  <2>1. \A f \in offered' : f.payload = Mates(q, f.id)
    BY <1>6, <1>8
  <2>2. \A p \in work' : p.rows = Mates(q, p.id)
    BY <1>1, <1>6
  <2>3. PICK all, w : all = offered' /\ w = work'
    OBVIOUS
  <2> QED
    BY <1>4, <2>1, <2>2
<1>11. SelectSinks'
  BY <1>5, <1>7, <1>9, <1>10 DEF SelectSinks
<1> QED
  BY <1>2, <1>4, <1>11 DEF SelectInv

\* When all is offered, k results nearer than a distance keep the heap nearer than it.
LEMMA HeldAgainstBeaten ==
  ASSUME TypeInv, work = {}, NEW q, \A r \in ResultsOf(q) : IsOffered(r), NEW b \in Int, Beaten(q, b)
  PROVE  Cardinality(held) = job.k /\ \A e \in held : e.dist < b
<1>1. HeapInv /\ IsFiniteSet(held) /\ held \subseteq offered /\ Cardinality(held) <= job.k /\ job.k \in Nat
      /\ (\A e \in offered : e.dist \in Int)
      /\ \A e \in offered \ held : Cardinality(held) = job.k /\ \A f \in held : f.dist <= e.dist
  BY TurnHas DEF HeapInv, HeapIsCounted, ThresholdIsSound
<1>2. PICK K : /\ K \subseteq {RKey(r) : r \in ResultsOf(q)} /\ Cardinality(K) = job.k
               /\ \A x \in K : \E r \in ResultsOf(q) : RKey(r) = x /\ r.dist < b
  BY DEF Beaten
<1>3. \A x \in K : \E e \in offered : Key(e.id, e.payload) = x /\ e.dist < b
  <2> SUFFICES ASSUME NEW x \in K PROVE \E e \in offered : Key(e.id, e.payload) = x /\ e.dist < b
    OBVIOUS
  <2>1. PICK r \in ResultsOf(q) : RKey(r) = x /\ r.dist < b
    BY <1>2
  <2>2. PICK e \in offered : Key(e.id, e.payload) = RKey(r) /\ e.dist = r.dist
    BY <2>1 DEF IsOffered
  <2> QED
    BY <2>1, <2>2
<1> DEFINE f == [x \in K |-> CHOOSE e \in offered : Key(e.id, e.payload) = x /\ e.dist < b]
<1>4. f = [x \in K |-> f[x]] /\ \A x \in K : f[x] \in offered /\ Key(f[x].id, f[x].payload) = x /\ f[x].dist < b
  BY <1>3
<1> HIDE DEF f
<1>5. \A x, y \in K : f[x] = f[y] => x = y
  BY <1>4
<1>6. IsFiniteSet(K)
  <2>1. IsFiniteSet(results)
    BY DEF TypeInv, Typed, ResultsAreTyped, ResultsAreNumbered
  <2>2. PICK R : R = ResultsOf(q) /\ IsFiniteSet(R)
    BY <2>1, FS_Subset DEF ResultsOf
  <2> DEFINE g == [r \in R |-> RKey(r)]
  <2>3. g = [r \in R |-> g[r]] /\ \A r \in R : g[r] = RKey(r)
    OBVIOUS
  <2> HIDE DEF g
  <2>4. IsFiniteSet({g[r] : r \in R})
    BY <2>2, <2>3, ImageIsFinite
  <2>5. K \subseteq {g[r] : r \in R}
    BY <1>2, <2>2, <2>3
  <2> QED
    BY <2>4, <2>5, FS_Subset
<1>7. PICK F : F = {f[x] : x \in K} /\ IsFiniteSet(F) /\ Cardinality(F) = job.k
  BY <1>2, <1>4, <1>5, <1>6, InjectiveImage
<1>8. \A e \in F : e \in offered /\ e.dist < b
  BY <1>4, <1>7
<1>9. CASE F \subseteq held
  <2>1. F = held
    BY <1>1, <1>7, <1>9, FS_Subset, FS_CardinalityType
  <2> QED
    BY <1>7, <1>8, <2>1
<1>10. CASE ~(F \subseteq held)
  <2>1. PICK e \in F : e \in offered \ held
    BY <1>8, <1>10
  <2>2. Cardinality(held) = job.k /\ \A g \in held : g.dist <= e.dist
    BY <1>1, <2>1
  <2>3. \A g \in held : g.dist < b
    <3> SUFFICES ASSUME NEW g \in held PROVE g.dist < b
      OBVIOUS
    <3>1. PICK c \in Int, d \in Int : c = g.dist /\ d = e.dist
      BY <1>1, <2>1
    <3> QED
      BY <1>8, <2>1, <2>2, <3>1
  <2> QED
    BY <2>2, <2>3
<1> QED
  BY <1>9, <1>10

\* A row of the slot's query that nothing has reached is no nearer than the k that are held.
LEMMA GatheredOrBeaten ==
  ASSUME TypeInv, SourcesAreExact, work = {}, NEW q \in Queries, HasVector(q), \A r \in ResultsOf(q) : IsOffered(r),
         \A row \in RowsOf(q) : IsGathered(q, row), NEW row \in RowsOf(q), ~Found(row)
  PROVE  /\ Cardinality(held) = job.k /\ \A e \in held : e.dist <= Dist(q, row.id)
         /\ (\E r \in ResultsOf(q) : r.row.id = row.id) => \A e \in held : e.dist < Dist(q, row.id)
<1>1. SettingIsChosen /\ HeapInv
  BY TurnHas
<1>2. PICK d \in Int : d = Dist(q, row.id)
  BY <1>1, RowsOfIs, DistType
<1>3. d + 1 \in Int
  OBVIOUS
<1>4. \A e \in held : e.dist \in Int
  BY <1>1 DEF HeapInv, HeapIsCounted, ThresholdIsSound
<1>5. CASE Beaten(q, d)
  <2>1. Cardinality(held) = job.k /\ \A e \in held : e.dist < d
    BY <1>5, HeldAgainstBeaten
  <2>2. \A e \in held : e.dist <= d
    BY <1>4, <2>1
  <2> QED
    BY <1>2, <2>1, <2>2
<1>6. CASE ~Beaten(q, d)
  <2>1. Beaten(q, d + 1) /\ Untouched(q, row.id)
    BY <1>2, <1>6 DEF IsGathered, IsClosed
  <2>2. Cardinality(held) = job.k /\ \A e \in held : e.dist < d + 1
    BY <1>3, <2>1, HeldAgainstBeaten
  <2>3. \A e \in held : e.dist <= d
    <3> SUFFICES ASSUME NEW e \in held PROVE e.dist <= d
      OBVIOUS
    <3>1. PICK c \in Int : c = e.dist
      BY <1>4
    <3>2. c < d + 1
      BY <2>2, <3>1
    <3> QED
      BY <3>1, <3>2
  <2> QED
    BY <1>2, <2>1, <2>2, <2>3 DEF Untouched
<1> QED
  BY <1>5, <1>6

\* Everything is offered: the heap is ready.
LEMMA SelectIsReady ==
  ASSUME TypeInv, SourcesAreExact, SelectStands, SelectSinks, work = {}, NEW q, q = Slot
  PROVE  HasVector(q) /\ IsReady(q)
<1>1. SettingIsChosen /\ HeapInv /\ slots \in Seq(Queries) /\ turn \in DOMAIN slots
  BY TurnHas DEF SelectSinks
<1>2. q \in Queries
  BY <1>1, ElementOfList DEF Slot
<1>3. HasVector(q)
  <2>1. q \in Range(slots)
    BY <1>1 DEF Slot, Range
  <2>2. PICK r \in results : QueryOf(r.row) = q
    BY <2>1 DEF SelectStands
  <2> QED
    BY <2>2 DEF SelectStands, ResultsFit
<1>4. /\ EntriesFit(q) /\ (\A r \in ResultsOf(q) : IsOffered(r))
      /\ Distinct => \A e \in offered : e.payload = Mates(q, e.id)
  BY DEF SelectSinks
<1>5. \A row \in RowsOf(q) : IsGathered(q, row)
  BY <1>2, <1>3 DEF SelectStands
<1>6. ResultsFit
  BY DEF SelectStands
<1>7. held \subseteq offered /\ (\A e \in held : e.dist \in Int)
      /\ \A e \in offered \ held : Cardinality(held) = job.k /\ \A f \in held : f.dist <= e.dist
  BY <1>1 DEF HeapInv, HeapIsCounted, ThresholdIsSound
<1>8. \A e \in held : Fits(q, e.id, e.dist, e.payload)
  BY <1>4, <1>7 DEF EntriesFit
<1>9. \A e, f \in held : Key(e.id, e.payload) = Key(f.id, f.payload) => e = f
  BY <1>4, <1>7 DEF EntriesFit
<1>10. \A row \in RowsOf(q) : Found(row) => \E r \in ResultsOf(q) : r.row = row
  <2> SUFFICES ASSUME NEW row \in RowsOf(q), Found(row) PROVE \E r \in ResultsOf(q) : r.row = row
    OBVIOUS
  <2>1. PICK r \in results : r.row = row
    BY DEF Found
  <2>2. QueryOf(row) = q
    BY RowsOfIs
  <2> QED
    BY <2>1, <2>2 DEF ResultsOf
<1>11. ASSUME NEW e \in held PROVE e.payload \in UnitsOf(q)
  <2>1. Fits(q, e.id, e.dist, e.payload)
    BY <1>8
  <2>2. CASE ~Distinct
    <3>1. PICK row \in RowsOf(q) : e.payload = {row}
      BY <2>1, <2>2 DEF Fits
    <3> QED
      BY <2>2, <3>1, UnitOf
  <2>3. CASE Distinct
    <3>1. e.payload = Mates(q, e.id) /\ e.payload \subseteq RowsOf(q) /\ e.payload # {} /\ e.dist = Dist(q, e.id)
      BY <1>4, <1>7, <2>1, <2>3 DEF Fits
    <3>2. PICK r0 \in ResultsOf(q) : r0.row.id = e.id /\ r0.row \in RowsOf(q)
      BY <3>1 DEF Mates
    <3>3. ASSUME NEW row \in RowsOf(q), row.id = e.id PROVE row \in Mates(q, e.id)
      <4>1. CASE Found(row)
        <5>1. PICK r \in ResultsOf(q) : r.row = row
          BY <1>10, <3>3, <4>1
        <5> QED
          BY <3>3, <5>1 DEF Mates
      <4>2. CASE ~Found(row)
        <5>1. \A g \in held : g.dist < Dist(q, row.id)
          BY <1>2, <1>3, <1>4, <1>5, <3>2, <3>3, <4>2, GatheredOrBeaten
        <5>2. PICK d \in Int : d = e.dist
          BY <1>7
        <5>3. d < d
          BY <3>1, <3>3, <5>1, <5>2
        <5> QED
          BY <5>2, <5>3
      <4> QED
        BY <4>1, <4>2
    <3>4. Mates(q, e.id) = {s \in RowsOf(q) : s.id = e.id}
      <4>1. \A s \in Mates(q, e.id) : s \in RowsOf(q) /\ s.id = e.id
        BY <3>1 DEF Mates
      <4> QED
        BY <3>3, <4>1
    <3> QED
      BY <2>3, <3>1, <3>2, <3>4, UnitOf
  <2> QED
    BY <2>2, <2>3
<1>12. ASSUME NEW u \in UnitsOf(q)
       PROVE  (\E e \in held : e.payload = u) \/ (Cardinality(held) = job.k /\ \A e \in held : e.dist <= DistTo(q, u))
  <2>1. u \subseteq RowsOf(q) /\ u # {} /\ \A r \in u : u = IF Distinct THEN {s \in RowsOf(q) : s.id = r.id} ELSE {r}
    BY <1>12, UnitIs
  <2>2. PICK row \in u : row \in RowsOf(q) /\ ((\E s \in u : Found(s)) => Found(row))
    BY <2>1
  <2>3. \A s \in u : s.id = row.id
    BY <2>1, <2>2
  <2>4. PICK d \in Int : d = Dist(q, row.id) /\ d = DistTo(q, u)
    <3>1. IsRanked(q, row.id)
      BY <2>2, RowsOfIs
    <3>2. DistTo(q, u) = Dist(q, row.id)
      BY <1>1, <1>3, <2>1, <2>3, <3>1, UnitDist
    <3> QED
      BY <1>1, <1>3, <3>1, <3>2, DistType
  <2>5. CASE ~Found(row)
    BY <1>2, <1>3, <1>4, <1>5, <2>2, <2>4, <2>5, GatheredOrBeaten
  <2>6. CASE Found(row)
    <3>1. PICK r \in ResultsOf(q) : r.row = row
      BY <1>10, <2>2, <2>6
    <3>2. r.dist = d
      BY <1>6, <2>4, <3>1, ResultIs
    <3>3. PICK e \in offered : Key(e.id, e.payload) = RKey(r) /\ e.dist = r.dist
      BY <1>4, <3>1 DEF IsOffered
    <3>4. CASE e \notin held
      BY <1>7, <2>4, <3>2, <3>3, <3>4
    <3>5. CASE e \in held
      <4>1. e.payload \in UnitsOf(q) /\ Fits(q, e.id, e.dist, e.payload)
        BY <1>8, <1>11, <3>5
      <4>2. CASE Distinct
        <5>1. e.id = row.id
          BY <3>1, <3>3, <4>2 DEF Key, RKey
        <5>2. PICK s \in e.payload : s.id = e.id
          BY <4>1 DEF Fits
        <5>3. e.payload = {t \in RowsOf(q) : t.id = s.id}
          BY <4>1, <4>2, <5>2, UnitIs
        <5>4. u = {t \in RowsOf(q) : t.id = row.id}
          BY <2>1, <2>2, <4>2
        <5> QED
          BY <3>5, <5>1, <5>2, <5>3, <5>4
      <4>3. CASE ~Distinct
        <5>1. e.payload = {row} /\ u = {row}
          BY <2>1, <2>2, <3>1, <3>3, <4>3 DEF Key, RKey
        <5> QED
          BY <3>5, <5>1
      <4> QED
        BY <4>2, <4>3
    <3> QED
      BY <3>4, <3>5
  <2> QED
    BY <2>5, <2>6
<1> QED
  BY <1>3, <1>8, <1>9, <1>11, <1>12 DEF IsReady

\* The heap of a slot is drained into its answer.
LEMMA RestSelects ==
  ASSUME TypeInv, SourcesAreExact, SelectInv, UNCHANGED setting, InLtj, RestSelect
  PROVE  SelectInv' /\ pc' = "pick"
<1>1. /\ pc = "offer" /\ work = {} /\ SelectStands /\ SelectSinks /\ slots \in Seq(Queries) /\ turn \in Nat \ {0}
      /\ SettingIsChosen /\ HeapInv
  BY TurnHas DEF RestSelect, SelectInv
<1>2. PICK m : m = turn /\ m \in DOMAIN slots /\ m \in Nat
  BY <1>1 DEF SelectSinks
<1>3. PICK q : q = slots[m] /\ q = Slot
  BY <1>2 DEF Slot
<1>4. /\ answer' = answer \o Drained(slots[m]) /\ turn' = m + 1 /\ pc' = "pick"
      /\ slots' = slots /\ results' = results
  BY <1>2, <1>3 DEF RestSelect, Drain, NextTurn, InLtj
<1>5. HasVector(slots[m]) /\ IsReady(slots[m])
  BY <1>1, <1>3, SelectIsReady
<1>6. AnswersUpTo(m + 1)'
  BY <1>1, <1>2, <1>4, <1>5, ReadyAnswers DEF SelectStands
<1>7. AnswersUpTo(turn)'
  <2>1. PICK n : n = m + 1 /\ n = turn'
    BY <1>4
  <2>2. AnswersUpTo(n)'
    BY <1>6, <2>1
  <2> QED
    BY <2>1, <2>2
<1>8. SelectStands'
  BY <1>1, <1>4, <1>7, SelectStays
<1> QED
  BY <1>4, <1>8 DEF SelectInv

(***************************************************************************)
(* All arms.                                                               *)
(***************************************************************************)
\* A verdict once given stays while the execution lasts.
LEMMA VerdictStays == Step /\ ~tripped' /\ TypeInv => ~tripped
<1> SUFFICES ASSUME Step, ~tripped', TypeInv PROVE ~tripped
  OBVIOUS
<1>1. tripped \in BOOLEAN
  BY DEF TypeInv, BudgetIsTyped
<1>2. Polled \/ PolledOften \/ UNCHANGED budget
  BY StepPolls
<1>3. CASE Polled
  BY <1>3 DEF Polled, Expired
<1>4. CASE PolledOften
  BY <1>4 DEF PolledOften
<1>5. CASE UNCHANGED budget
  BY <1>5 DEF budget
<1> QED
  BY <1>2, <1>3, <1>4, <1>5

\* The turns of each arm keep what is known of it.
LEMMA RanksSteps ==
  ASSUME TypeInv, slots' \in Seq(Queries), SourcesAreExact, RanksInv, Ranks, Step, ~tripped'
  PROVE  RanksInv'
<1>1. UNCHANGED setting /\ pc \in {"gather", "open", "walk", "offer", "done"} /\ ~InLtj
      /\ job.arm \notin {"pre", "interleave", "memo"}
  BY DEF Step, RanksInv, Ranks, InLtj
<1>2. RunPattern \/ OpenPartition \/ PopBucket \/ RestBucket \/ OfferOne
  BY <1>1 DEF Step, OpenCorpus, PopCorpus, RestCorpus, EnterVisit, PopVisit, RestVisit, FileVisit, OpenTable,
              PopTable, RestTable, Descend, Pick, RestSelect
<1> QED
  BY <1>1, <1>2, RunPatternRanks, OpenPartitionRanks, PopBucketRanks, RestBucketRanks, OfferOneRanks

\* Those of pre.
LEMMA PreSteps ==
  ASSUME TypeInv, SourcesAreExact, PreInv, job.arm = "pre", Step, ~tripped'
  PROVE  PreInv'
<1>1. UNCHANGED setting /\ pc \in {"gather", "walk", "offer", "done"} /\ ~InLtj /\ ~Ranks
  BY DEF Step, PreInv, Ranks, InLtj
<1>2. OpenCorpus \/ PopCorpus \/ RestCorpus \/ OfferOne
  BY <1>1 DEF Step, RunPattern, OpenPartition, PopBucket, RestBucket, EnterVisit, PopVisit, RestVisit, FileVisit,
              OpenTable, PopTable, RestTable, Descend, Pick, RestSelect
<1> QED
  BY <1>1, <1>2, OpenCorpusPre, PopCorpusPre, RestCorpusPre

\* Those of the selection, which interleave and memo end with.
LEMMA SelectSteps ==
  ASSUME TypeInv, SourcesAreExact, SelectInv, UNCHANGED setting, InLtj, Pick \/ OfferOne \/ RestSelect
  PROVE  SelectInv' /\ pc' \in {"pick", "offer", "done"}
<1>1. CASE Pick
  BY <1>1, PickSelects
<1>2. CASE OfferOne
  BY <1>2, OfferSelects
<1>3. CASE RestSelect
  BY <1>3, RestSelects
<1> QED
  BY <1>1, <1>2, <1>3

\* Those of interleave.
LEMMA InterleaveSteps ==
  ASSUME TypeInv, SourcesAreExact, NoStaleVisit, InterleaveInv, SelectInv, job.arm = "interleave", Step, ~tripped'
  PROVE  InterleaveInv' /\ SelectInv'
<1>1. UNCHANGED setting /\ pc \in {"visit", "walk", "descend", "pick", "offer", "done"} /\ InLtj /\ ~Ranks
  BY DEF Step, InterleaveInv, Ranks, InLtj
<1>2. \/ EnterVisit \/ PopVisit \/ RestVisit \/ Descend
      \/ Pick \/ OfferOne \/ RestSelect
  BY <1>1 DEF Step, RunPattern, OpenPartition, PopBucket, RestBucket, OpenCorpus, PopCorpus, RestCorpus, FileVisit,
              OpenTable, PopTable, RestTable
<1>3. CASE EnterVisit
  BY <1>1, <1>3, EnterVisitInterleaves
<1>4. CASE PopVisit
  BY <1>1, <1>4, PopVisitInterleaves
<1>5. CASE RestVisit
  BY <1>1, <1>5, RestVisitInterleaves
<1>6. CASE Descend
  BY <1>1, <1>6, DescendInterleaves
<1>7. CASE Pick \/ OfferOne \/ RestSelect
  <2>1. SelectInv' /\ pc' \in {"pick", "offer", "done"}
    BY <1>1, <1>7, SelectSteps
  <2> QED
    BY <2>1 DEF InterleaveInv
<1> QED
  BY <1>2, <1>3, <1>4, <1>5, <1>6, <1>7

\* Those of memo.
LEMMA MemoSteps ==
  ASSUME TypeInv, SourcesAreExact, MemoInv, SelectInv, job.arm = "memo", Step, ~tripped'
  PROVE  MemoInv' /\ SelectInv'
<1>1. UNCHANGED setting /\ pc \in {"gather", "open", "walk", "descend", "pick", "offer", "done"} /\ InLtj /\ ~Ranks
  BY DEF Step, MemoInv, Ranks, InLtj
<1>2. \/ FileVisit \/ OpenTable \/ PopTable \/ RestTable \/ Descend
      \/ Pick \/ OfferOne \/ RestSelect
  BY <1>1 DEF Step, RunPattern, OpenPartition, PopBucket, RestBucket, OpenCorpus, PopCorpus, RestCorpus, EnterVisit,
              PopVisit, RestVisit
<1>3. CASE FileVisit
  BY <1>1, <1>3, FileVisitMemo
<1>4. CASE OpenTable
  BY <1>1, <1>4, OpenTableMemo
<1>5. CASE PopTable
  BY <1>1, <1>5, PopTableMemo
<1>6. CASE RestTable
  BY <1>1, <1>6, RestTableMemo
<1>7. CASE Descend
  BY <1>1, <1>7, DescendMemo
<1>8. CASE Pick \/ OfferOne \/ RestSelect
  <2>1. SelectInv' /\ pc' \in {"pick", "offer", "done"}
    BY <1>1, <1>8, SelectSteps
  <2> QED
    BY <2>1 DEF MemoInv
<1> QED
  BY <1>2, <1>3, <1>4, <1>5, <1>6, <1>7, <1>8

\* So does every turn of the search.
LEMMA StepStands ==
  ASSUME TypeInv, TypeInv', SourcesAreExact, NoStaleVisit, NearestInv, Step
  PROVE  NearestInv'
<1> SUFFICES ASSUME ~tripped' PROVE ArmsInv'
  BY DEF NearestInv
<1>1. ArmsInv /\ UNCHANGED setting /\ job' = job
  BY VerdictStays DEF NearestInv, Step, setting
<1>2. slots' \in Seq(Queries)
  <2>1. slots' \in Seq(Queries')
    BY DEF TypeInv, Typed, PlacesAreTyped
  <2> QED
    BY <1>1, <2>1, SettingStays
<1>3. job.arm \in {"post", "partition"} => RanksInv'
  BY <1>1, <1>2, RanksSteps DEF ArmsInv, Ranks
<1>4. job.arm = "pre" => PreInv'
  BY <1>1, PreSteps DEF ArmsInv
<1>5. job.arm = "interleave" => InterleaveInv' /\ SelectInv'
  BY <1>1, InterleaveSteps DEF ArmsInv
<1>6. job.arm = "memo" => MemoInv' /\ SelectInv'
  BY <1>1, MemoSteps DEF ArmsInv
<1> QED
  BY <1>1, <1>3, <1>4, <1>5, <1>6 DEF ArmsInv

\* It is known of an execution that starts.
LEMMA StartStands == SettingIsChosen /\ Started => ArmsInv
<1> SUFFICES ASSUME SettingIsChosen, Started PROVE ArmsInv
  OBVIOUS
<1>1. /\ pc = Entrance /\ turn = 1 /\ slots = FirstSlots /\ table = FirstTable
      /\ cur = FirstAnchor /\ base = FirstAnchor /\ left = {} /\ results = {} /\ answer = <<>> /\ offered = {}
  BY DEF Started
<1>2. job.arm \in {"post", "partition"} => RanksInv
  BY <1>1 DEF RanksInv, Entrance
<1>3. job.arm = "pre" => PreInv
  BY <1>1 DEF PreInv, Entrance
<1>4. JoinStands
  <2>1. PICK w : w = [e \in {} |-> e]
    OBVIOUS
  <2>2. w \in [offered -> results] /\ Stands(w)
    BY <1>1, <2>1 DEF Stands
  <2> QED
    BY <1>1, <2>2 DEF JoinStands, ResultsFit, HeapStands
<1>5. job.arm = "interleave" => InterleaveInv /\ SelectInv
  <2> SUFFICES ASSUME job.arm = "interleave" PROVE InterleaveInv /\ SelectInv
    OBVIOUS
  <2>1. pc = "visit"
    BY <1>1 DEF Entrance
  <2>2. \A v \in Visits : ~(v < turn)
    BY <1>1, JobIs
  <2>3. VisitStands
    BY <1>1, <2>2 DEF VisitStands
  <2>4. VisitWaits
    BY <1>1 DEF VisitWaits
  <2> QED
    BY <1>4, <2>1, <2>3, <2>4 DEF InterleaveInv, SelectInv
<1>6. job.arm = "memo" => MemoInv /\ SelectInv
  <2> SUFFICES ASSUME job.arm = "memo" PROVE MemoInv /\ SelectInv
    OBVIOUS
  <2>1. pc = "gather"
    BY <1>1 DEF Entrance
  <2>2. \A v \in Visits : ~(v < 1)
    BY JobIs
  <2>3. Anchors(1) = Range(FirstSlots) /\ \A q : RowsAbove(q, 1) = {}
    BY <2>2 DEF Anchors, RowsAbove
  <2>4. OneToOne(FirstSlots) /\ (~Correlated => FirstSlots = <<Fixed>>)
    BY DEF FirstSlots, OneToOne
  <2>5. DOMAIN table = Range(FirstSlots) /\ \A q \in Range(FirstSlots) : table[q] = <<>>
    BY <1>1 DEF FirstTable
  <2>6. \A q \in Range(FirstSlots) : Holds(table[q], q, 1)
    <3> SUFFICES ASSUME NEW q \in Range(FirstSlots) PROVE Holds(table[q], q, 1)
      OBVIOUS
    <3>1. PICK t : t = table[q] /\ t = <<>> /\ DOMAIN t = {}
      BY <2>5
    <3> QED
      BY <2>3, <3>1 DEF Holds
  <2>7. 1 <= AfterLast
    BY JobIs DEF AfterLast
  <2>8. TablesFill
    BY <1>1, <2>3, <2>4, <2>5, <2>6, <2>7 DEF TablesFill
  <2> QED
    BY <2>1, <2>8 DEF MemoInv, SelectInv
<1> QED
  BY <1>2, <1>3, <1>5, <1>6 DEF ArmsInv

\* What is known stays so in a step that moves neither the search nor its verdict.
LEMMA StandsStill ==
  ASSUME UNCHANGED <<setting, pc, walk, heap, tripped>>
  PROVE  NearestInv => NearestInv'
<1>1. /\ UNCHANGED setting /\ job' = job /\ ranking' = ranking /\ stream' = stream /\ pc' = pc /\ turn' = turn /\ slots' = slots /\ table' = table
      /\ cur' = cur /\ base' = base /\ left' = left /\ here' = here /\ work' = work /\ results' = results /\ answer' = answer
      /\ held' = held /\ offered' = offered /\ tripped' = tripped
  BY DEF walk, heap, setting
<1>2. \A x : IsAhead(x)' <=> IsAhead(x)
  BY <1>1 DEF IsAhead
<1>h. (\A q, e, entries : Ahead(q, here, left)' <=> Ahead(q, here, left)) /\ (\A q : InOrder(q, left)' <=> InOrder(q, left))
  <2>1. PICK h, l : h = here /\ h = here' /\ l = left /\ l = left'
    BY <1>1
  <2>2. \A q : (Ahead(q, h, l)' <=> Ahead(q, h, l)) /\ (InOrder(q, l)' <=> InOrder(q, l))
    BY <1>1, FitsStay
  <2> QED
    BY <2>1, <2>2
<1>3. \A q : Walking(q)' <=> Walking(q)
  BY <1>1, <1>h, RowsStay DEF Walking
<1>4. \A q : (EntriesFit(q)' <=> EntriesFit(q)) /\ (WorkFits(q)' <=> WorkFits(q))
  BY <1>1, FitsStay DEF EntriesFit, WorkFits
<1>5. \A q : Sink(q)' <=> Sink(q)
  <2>1. \A u : (Came(u)' <=> Came(u)) /\ (Comes(u)' <=> Comes(u))
    BY <1>1 DEF Came, Comes
  <2>2. \A q : SinkWalks(q)' <=> SinkWalks(q)
    BY <1>1, <1>2, <2>1, RowsStay DEF SinkWalks
  <2>3. \A q : SinkFits(q)' <=> SinkFits(q)
    BY <1>1, <1>4 DEF SinkFits
  <2> QED
    BY <1>3, <2>2, <2>3 DEF Sink
<1>6. \A q : IsNearest(q)' <=> IsNearest(q)
  <2>1. PICK list : list = answer /\ list = answer'
    BY <1>1
  <2>2. \A q : NearestIn(list, q)' <=> NearestIn(list, q)
    BY <1>1, NearestStays
  <2> QED
    BY <2>1, <2>2, NearestIsIn
<1>7. \A n : AnswersUpTo(n)' <=> AnswersUpTo(n)
  BY <1>1, <1>6, RowsStay DEF AnswersUpTo
<1>8. /\ \A row : Found(row)' <=> Found(row)
      /\ \A r : RKey(r)' = RKey(r)
      /\ \A q : ResultsOf(q)' = ResultsOf(q)
  BY <1>1, RowsStay, SettingStays DEF Found, RKey, ResultsOf
<1>9. /\ \A q, d : Beaten(q, d)' <=> Beaten(q, d)
      /\ \A q, x : Untouched(q, x)' <=> Untouched(q, x)
      /\ \A q, x : Mates(q, x)' = Mates(q, x)
      /\ \A row : Pending(row)' <=> Pending(row)
  BY <1>1, <1>8 DEF Beaten, Untouched, Mates, Pending
<1>10. /\ \A q, row : IsClosed(q, row)' <=> IsClosed(q, row)
       /\ \A q, row : IsGathered(q, row)' <=> IsGathered(q, row)
       /\ \A v, row : IsCovered(v, row)' <=> IsCovered(v, row)
  <2>1. ASSUME NEW q, NEW row
        PROVE  /\ Beaten(q, Dist(q, row.id))' <=> Beaten(q, Dist(q, row.id))
               /\ Beaten(q, Dist(q, row.id) + 1)' <=> Beaten(q, Dist(q, row.id) + 1)
    <3>1. PICK d, e : d = Dist(q, row.id) /\ d = Dist(q, row.id)' /\ e = d + 1
      BY <1>1, RowsStay
    <3>2. (Beaten(q, d)' <=> Beaten(q, d)) /\ (Beaten(q, e)' <=> Beaten(q, e))
      BY <1>9
    <3> QED
      BY <3>1, <3>2
  <2>2. \A q, row : IsClosed(q, row)' <=> IsClosed(q, row)
    BY <1>8, <1>9, <2>1 DEF IsClosed
  <2>3. \A q, row : IsGathered(q, row)' <=> IsGathered(q, row)
    BY <2>1, <2>2 DEF IsGathered
  <2>4. \A v, row : IsCovered(v, row)' <=> IsCovered(v, row)
    <3> SUFFICES ASSUME NEW v, NEW row PROVE IsCovered(v, row)' <=> IsCovered(v, row)
      OBVIOUS
    <3>1. PICK q : q = AnchorAt(v) /\ q = AnchorAt(v)'
      BY <1>1, RowsStay
    <3>2. Beaten(q, Dist(q, row.id))' <=> Beaten(q, Dist(q, row.id))
      BY <2>1
    <3> QED
      BY <1>1, <1>8, <3>1, <3>2, RowsStay DEF IsCovered
  <2> QED
    BY <2>2, <2>3, <2>4
<1>11. JoinStands => JoinStands'
  BY <1>1, JoinStays
<1>12. job.arm \in {"post", "partition"} /\ RanksInv => RanksInv'
  <2>1. BucketsStand => BucketsStand'
    BY <1>1, RowsStay, SettingStays DEF BucketsStand
  <2>2. BucketWalks => BucketWalks'
    <3>1. PICK q, t : q = Slot /\ q = Slot' /\ t = table[q] /\ t = table'[q]
      BY <1>1 DEF Slot
    <3> QED
      BY <1>1, <1>5, <3>1, RowsStay DEF BucketWalks
  <2>3. PICK n : n = turn /\ n = turn'
    BY <1>1
  <2>4. AnswersUpTo(n)' <=> AnswersUpTo(n)
    BY <1>7
  <2> QED
    BY <1>1, <2>1, <2>2, <2>3, <2>4 DEF RanksInv
<1>13. PreInv => PreInv'
  BY <1>1, <1>5, <1>6, RowsStay DEF PreInv
<1>14. PICK q, n : q = cur /\ q = cur' /\ n = turn /\ n = turn'
  BY <1>1
<1>15. InterleaveInv => InterleaveInv'
  <2>1. VisitStands => VisitStands'
    BY <1>1, VisitStays
  <2>2. VisitWaits => VisitWaits'
    <3>1. PICK a : a = turn - 1 /\ a = turn' - 1
      BY <1>1
    <3>2. AnchorAt(a)' = AnchorAt(a)
      BY <1>1, RowsStay
    <3> QED
      BY <1>1, <3>1, <3>2, RowsStay, SettingStays DEF VisitWaits
  <2>3. VisitWalks => VisitWalks'
    BY <1>1, <1>2, <1>3, <1>8, <1>9, <1>14, RowsStay, SettingStays DEF VisitWalks
  <2>4. VisitDescends => VisitDescends'
    BY <1>1, <1>14, RowsStay DEF VisitDescends, WorkIsNew
  <2> QED
    BY <1>1, <1>11, <2>1, <2>2, <2>3, <2>4 DEF InterleaveInv
<1>16. MemoInv => MemoInv'
  <2>1. TablesFill => TablesFill'
    <3>1. PICK t : t = table /\ t = table'
      BY <1>1
    <3>2. (\A p : Holds(t[p], p, n)' <=> Holds(t[p], p, n)) /\ Anchors(n)' = Anchors(n)
      BY <1>1, HoldsStay
    <3> QED
      BY <1>1, <1>14, <3>1, <3>2, RowsStay DEF TablesFill
  <2>2. TablesStand => TablesStand'
    <3>1. PICK t, s, a : t = table /\ t = table' /\ s = slots /\ s = slots' /\ a = AfterLast /\ a = AfterLast'
      BY <1>1, RowsStay
    <3>2. (\A i : Holds(t[s[i]], s[i], a)' <=> Holds(t[s[i]], s[i], a)) /\ Anchors(a)' = Anchors(a)
      BY <1>1, HoldsStay
    <3>3. \A i : /\ ResultsOf(s[i])' = ResultsOf(s[i]) /\ RowsOf(s[i])' = RowsOf(s[i])
                 /\ HasVector(s[i])' <=> HasVector(s[i])
      BY <1>1, <1>8, RowsStay
    <3>4. \A i, row : IsClosed(s[i], row)' <=> IsClosed(s[i], row)
      BY <1>10
    <3> QED
      BY <1>1, <3>1, <3>2, <3>3, <3>4, RowsStay DEF TablesStand
  <2>3. PICK p, t : p = Slot /\ p = Slot' /\ t = table[p] /\ t = table'[p]
    BY <1>1 DEF Slot
  <2>4. TableWalks => TableWalks'
    <3> SUFFICES ASSUME TableWalks PROVE TableWalks'
      OBVIOUS
    <3>1. /\ turn \in DOMAIN slots /\ cur = p /\ Walking(p)
          /\ \A e \in offered : (\A l \in left : e.dist <= l.dist) /\ (pc = "descend" => e.dist <= here.dist)
          /\ \A x \in DOMAIN t : /\ Untouched(p, x)
                                 /\ \A c \in t[x] : c \subseteq RowsWith(p, x)
                                 /\ \A c, d \in t[x] : c # d => c \cap d = {}
          /\ HasVector(p) => \A row \in RowsOf(p) :
               \/ Found(row) \/ Pending(row)
               \/ IsAhead(row.id) /\ row.id \in DOMAIN t /\ \E c \in t[row.id] : row \in c
      BY <2>3 DEF TableWalks
    <3>2. turn' \in DOMAIN slots' /\ cur' = p /\ Walking(p)'
      BY <1>1, <1>3, <3>1
    <3>3. \A e \in offered' : (\A l \in left' : e.dist <= l.dist) /\ (pc' = "descend" => e.dist <= here'.dist)
      BY <1>1, <3>1
    <3>4. \A x \in DOMAIN t : /\ Untouched(p, x)'
                              /\ \A c \in t[x] : c \subseteq RowsWith(p, x)'
                              /\ \A c, d \in t[x] : c # d => c \cap d = {}
      <4>1. \A x : RowsWith(p, x)' = RowsWith(p, x)
        BY <1>1, RowsStay
      <4> QED
        BY <1>9, <3>1, <4>1
    <3>5. HasVector(p)' => \A row \in RowsOf(p)' :
               \/ Found(row)' \/ Pending(row)'
               \/ IsAhead(row.id)' /\ row.id \in DOMAIN t /\ \E c \in t[row.id] : row \in c
      <4>1. (HasVector(p)' <=> HasVector(p)) /\ RowsOf(p)' = RowsOf(p)
        BY <1>1, RowsStay
      <4> QED
        BY <1>2, <1>8, <1>9, <3>1, <4>1
    <3> QED
      BY <2>3, <3>2, <3>3, <3>4, <3>5 DEF TableWalks
  <2>5. TableDescends => TableDescends'
    <3>1. PICK x : x = here.id /\ x = here'.id
      BY <1>1
    <3> QED
      BY <1>1, <2>3, <3>1, RowsStay DEF TableDescends, WorkIsNew
  <2> QED
    BY <1>1, <1>11, <2>1, <2>2, <2>4, <2>5 DEF MemoInv
<1>17. SelectInv => SelectInv'
  <2>1. SelectStands => SelectStands'
    <3>1. ResultsFit => ResultsFit'
      BY <1>1, RowsStay, SettingStays DEF ResultsFit
    <3>2. {QueryOf(r.row) : r \in results}' = {QueryOf(r.row) : r \in results}
      BY <1>1, SettingStays
    <3>3. AnswersUpTo(n)' <=> AnswersUpTo(n)
      BY <1>7
    <3> QED
      BY <1>1, <1>10, <1>14, <3>1, <3>2, <3>3, RowsStay, SettingStays DEF SelectStands
  <2>2. SelectSinks => SelectSinks'
    <3>1. PICK p : p = Slot /\ p = Slot'
      BY <1>1 DEF Slot
    <3>2. \A r : IsOffered(r)' <=> IsOffered(r)
      BY <1>1, <1>8, FitsStay DEF IsOffered
    <3>3. \A e : Mates(p, e.id)' = Mates(p, e.id)
      BY <1>9
    <3> QED
      BY <1>1, <1>4, <1>8, <3>1, <3>2, <3>3, RowsStay DEF SelectSinks
  <2> QED
    BY <1>1, <2>1, <2>2 DEF SelectInv
<1> QED
  BY <1>1, <1>12, <1>13, <1>15, <1>16, <1>17 DEF NearestInv, ArmsInv

(***************************************************************************)
(* What is answered at the end.                                            *)
(***************************************************************************)
\* When all slots are behind, every query of a slot has its nearest, and one with no rows has none to give.
LEMMA SlotsAnswer ==
  ASSUME TypeInv, turn > Len(slots), AnswersUpTo(turn),
         \A q \in Queries : HasVector(q) /\ q \notin Range(slots) => RowsOf(q) = {}
  PROVE  /\ \A i \in DOMAIN answer : HasVector(answer[i].query)
         /\ \A q \in {p \in Queries : HasVector(p)} : IsNearest(q)
<1>1. \A i \in DOMAIN answer : HasVector(answer[i].query) /\ answer[i].query \in Range(slots)
  BY DEF AnswersUpTo, Range
<1>2. slots \in Seq(Queries) /\ turn \in Nat /\ Len(slots) \in Nat /\ DOMAIN slots = 1..Len(slots)
  <2>1. slots \in Seq(Queries) /\ turn \in Nat
    BY DEF TypeInv, Typed, PlacesAreTyped
  <2> QED
    BY <2>1
<1>3. \A j \in DOMAIN slots : j < turn
  BY <1>2
<1>4. \A j \in DOMAIN slots : HasVector(slots[j]) => IsNearest(slots[j])
  BY <1>3 DEF AnswersUpTo
<1>5. ASSUME NEW q \in Queries, HasVector(q) PROVE IsNearest(q)
  <2>1. CASE q \in Range(slots)
    BY <1>4, <1>5, <2>1 DEF Range
  <2>2. CASE q \notin Range(slots)
    <3>1. RowsOf(q) = {} /\ \A i \in DOMAIN answer : answer[i].query # q
      BY <1>1, <1>5, <2>2
    <3>2. SettingIsChosen
      BY DEF TypeInv
    <3>3. job.k \in Nat
      BY <3>2, JobIs DEF IsJob
    <3> QED
      BY <3>1, <3>2, <3>3, NoRowsIsNearest
  <2> QED
    BY <2>1, <2>2
<1> QED
  BY <1>1, <1>5

\* A search that ended without having been cut short has answered.
LEMMA DoneAnswers ==
  ASSUME TypeInv, NearestInv
  PROVE  AnswerIsNearest
<1> SUFFICES ASSUME pc = "done", ~tripped
             PROVE  /\ \A i \in DOMAIN answer : HasVector(answer[i].query)
                    /\ \A r, s \in results : r.row = s.row => r = s
                    /\ \A q \in {p \in Queries : HasVector(p)} : IsNearest(q)
  BY DEF AnswerIsNearest
<1>1. ArmsInv /\ SettingIsChosen
  BY DEF NearestInv, TypeInv
<1>2. IsJob(job)
  BY <1>1, JobIs
<1>3. CASE job.arm \in {"post", "partition"}
  <2>1. results = {} /\ BucketsStand /\ AnswersUpTo(turn) /\ turn > Len(slots)
    BY <1>1, <1>3 DEF ArmsInv, RanksInv
  <2>2. \A q \in Queries : HasVector(q) /\ q \notin Range(slots) => RowsOf(q) = {}
    BY <2>1 DEF BucketsStand, RowsOf
  <2> QED
    BY <2>1, <2>2, SlotsAnswer
<1>4. CASE job.arm = "pre"
  <2>1. PreInv
    BY <1>1, <1>4 DEF ArmsInv
  <2>2. Queries = {Fixed}
    BY <1>4, PreIsPlain, PlainIs
  <2>3. /\ results = {}
        /\ \A i \in DOMAIN answer : answer[i].query = Fixed
        /\ HasVector(Fixed) => IsNearest(Fixed)
        /\ ~HasVector(Fixed) => answer = <<>>
    BY <2>1 DEF PreInv
  <2>4. \A i \in DOMAIN answer : HasVector(answer[i].query)
    <3> SUFFICES ASSUME NEW i \in DOMAIN answer PROVE HasVector(Fixed)
      BY <2>3
    <3> QED
      BY <2>3
  <2> QED
    BY <2>2, <2>3, <2>4
<1>5. CASE job.arm \in {"interleave", "memo"}
  <2>1. SelectStands /\ turn > Len(slots)
    BY <1>1, <1>5 DEF ArmsInv, SelectInv
  <2>2. AnswersUpTo(turn) /\ \A r, s \in results : r.row = s.row => r = s
    BY <2>1 DEF SelectStands, ResultsFit
  <2>3. ASSUME NEW q \in Queries, HasVector(q), NEW row \in RowsOf(q)
        PROVE  q \in Range(slots)
    <3>1. IsGathered(q, row) /\ QueryOf(row) = q
      BY <2>1, <2>3 DEF SelectStands, RowsOf
    <3>2. \E r \in results : QueryOf(r.row) = q
      <4>1. CASE Found(row)
        BY <3>1, <4>1 DEF Found
      <4>2. CASE \E d : Beaten(q, d)
        <5>1. PICK d : Beaten(q, d)
          BY <4>2
        <5>2. PICK K \in SUBSET {RKey(r) : r \in ResultsOf(q)} : Cardinality(K) = job.k
          BY <5>1 DEF Beaten
        <5>3. Cardinality(K) # 0
          BY <1>2, <5>2 DEF IsJob
        <5>4. K # {}
          BY <5>3, FS_EmptySet
        <5> QED
          BY <5>2, <5>4 DEF ResultsOf
      <4> QED
        BY <3>1, <4>1, <4>2 DEF IsGathered, IsClosed
    <3> QED
      BY <2>1, <3>2 DEF SelectStands
  <2>4. \A q \in Queries : HasVector(q) /\ q \notin Range(slots) => RowsOf(q) = {}
    BY <2>3
  <2> QED
    BY <2>1, <2>2, <2>4, SlotsAnswer
<1> QED
  BY <1>2, <1>3, <1>4, <1>5 DEF IsJob

(***************************************************************************)
(* The theorem.                                                            *)
(***************************************************************************)
(* What the search has established of the rows gathered, the heap and the  *)
(* answer holds in every state in which the budget has not run out.        *)
LEMMA NearestInvHolds ==
  ASSUME SourcesAreExact, NoStaleVisit
  PROVE  Spec => []NearestInv
<1>1. Init => NearestInv
  <2>1. Init => SettingIsChosen /\ Started
    BY DEF Init, Started, SettingIsChosen
  <2> QED
    BY <2>1, StartStands DEF NearestInv
<1>2. TypeInv /\ TypeInv' /\ NearestInv /\ [Next]_vars => NearestInv'
  <2> SUFFICES ASSUME TypeInv, TypeInv', NearestInv, [Next]_vars PROVE NearestInv'
    OBVIOUS
  <2>1. CASE Step
    BY <2>1, StepStands
  <2>2. CASE Late \/ UNCHANGED vars
    <3>1. UNCHANGED <<setting, pc, walk, heap, tripped>>
      BY <2>2 DEF Late, vars, budget
    <3> QED
      BY <3>1, StandsStill
  <2>3. CASE RunAgain
    <3>1. Started' /\ SettingIsChosen'
      BY <2>3, AgainStarts DEF TypeInv
    <3>2. ArmsInv'
      BY <3>1, StartStands, PTL
    <3> QED
      BY <3>2 DEF NearestInv
  <2> QED
    BY <2>1, <2>2, <2>3 DEF Next
<1>3. Spec => []TypeInv
  BY TypeInvHolds, PTL
<1> QED
  BY <1>1, <1>2, <1>3, PTL DEF Spec

(* Whatever the query and the arm, an execution that was not cut short     *)
(* answers every query vector with its nearest units, as many as asked for *)
(* or as there are, nearest first, and with nothing nearer left out.  The  *)
(* lists of distances are exact, and no anchor without a vector is visited *)
(* twice in a row while a stream is walked.                                *)
THEOREM NearestAnswered ==
  ASSUME SourcesAreExact, NoStaleVisit
  PROVE  Spec => []AnswerIsNearest
<1>1. TypeInv /\ NearestInv => AnswerIsNearest
  BY DoneAnswers
<1>2. Spec => []TypeInv
  BY TypeInvHolds, PTL
<1> QED
  BY <1>1, <1>2, NearestInvHolds, PTL
=============================================================================
