------------------------------- MODULE Nearest -------------------------------
(***************************************************************************)
(* NEAREST k x.attr TO q: the rows of a pattern whose x is among the k     *)
(* nearest to a vector (runtime/vsearch, runtime/ltj/algorithm.rs), and    *)
(* the budget that may stop the search (runtime/budget.rs).                *)
(*                                                                         *)
(* A job is one such query.  Its join reaches the variable x in visits,    *)
(* one per binding of what the variable order puts above it; a visit has a *)
(* `fan`, the candidates for x there, each with the base cases the search  *)
(* completes below it, a sequence of the number of rows of each (parallel  *)
(* edges make one base case several rows; a dead end has none).  The query *)
(* vector is a constant, called Fixed, or the vector of the node the visit *)
(* binds the anchor to; a query that has no vector has no ranking.         *)
(*                                                                         *)
(* Five arms answer it: `post` ranks the rows of the whole pattern, and    *)
(* `partition` those of each anchor; `pre` walks the stream and runs the   *)
(* pattern for each node; `interleave` walks the stream in every visit;    *)
(* `memo` files the candidates of all visits and then walks the stream     *)
(* once per query.  One action is one turn of a loop of the code.          *)
(***************************************************************************)
EXTENDS Integers, Sequences, FiniteSets, SequencesExt, FiniteSetsExt

CONSTANTS Jobs,     \* the queries over a pattern
          Rankings,   \* the rankings of each corpus, by query vector
          Streams,    \* and the streams
          Stride,   \* asks of the budget between two readings of the clock
          MaxRuns   \* times an armed job is run in a session

\* A ranking is a list of neighbours for every query vector there is, and a stream is one as well.
AreRankings(lists) == \A q \in DOMAIN lists : q \in Nat /\ lists[q] \in Seq([id : Int, dist : Int])
\* The query vector of a plain clause, among the nodes whose vectors may be others.
Fixed == 0
\* A plain clause has its one vector, and arms of its own; a visit has finitely many candidates,
\* and each of their base cases a row.
IsJob(j) ==
  /\ j.k \in Nat \ {0} /\ j.slack \in Nat
  /\ {j.correlated, j.cuts, j.armed} \subseteq BOOLEAN
  /\ j.arm \in {"post", "partition", "pre", "interleave", "memo"}
  /\ j.arm \in {"post", "pre"} => ~j.correlated
  /\ j.arm = "partition" => j.correlated
  /\ j.visits \in Seq(Range(j.visits))
  /\ \A v \in DOMAIN j.visits :
       /\ j.visits[v].anchor \in Nat
       /\ ~j.correlated => j.visits[v].anchor = Fixed
       /\ IsFiniteSet(DOMAIN j.visits[v].fan)
       /\ \A x \in DOMAIN j.visits[v].fan : j.visits[v].fan[x] \in Seq(Nat \ {0})
ASSUME NearestAssumption ==
  /\ Stride \in Nat /\ MaxRuns \in Nat \ {0}
  /\ \A j \in Jobs : IsJob(j)
  /\ \A c \in {j.corpus : j \in Jobs} :
       /\ AreRankings(Rankings[c]) /\ AreRankings(Streams[c])
       /\ DOMAIN Rankings[c] = DOMAIN Streams[c]

VARIABLES
  job,        \* the query, chosen at the start
  ranking,    \* for every query vector, the nodes with their distances, nearest first
  stream,     \* the same as the cursor of the source delivers it
  pc,         \* what the search does next
  turn,       \* the visit, or the slot, it stands at
  slots,      \* the queries the rows or the candidates were filed under, first seen first
  table,      \* what is filed: for each query and node, the base cases or the rows
  cur,        \* VecCtx.cur_anchor
  base,       \* the query the live stream was opened for
  left,       \* the entries of the ranking being walked that are still to come
  here,       \* the neighbour being looked at
  work,       \* base cases to complete, or entries to offer
  held,       \* the heap: the threshold while the join runs, the sink afterwards
  offered,    \* everything offered to that heap since it was made or reset (history)
  seq,        \* entries made so far
  results,    \* the rows the join has produced, with their distances
  answer,     \* the rows returned
  asked,      \* Budget.countdown
  tripped,    \* Budget.tripped
  late,       \* the deadline has passed, or the cancel flag is up
  runs        \* executions in this session

walk == <<turn, slots, table, cur, base, left, here, work, results, answer>>
heap == <<held, offered, seq>>
budget == <<asked, tripped>>
clock == <<late, runs>>
setting == <<job, ranking, stream>>
vars == <<setting, pc, walk, heap, budget, clock>>

NoQuery == -1
InLtj == job.arm \in {"interleave", "memo"}
Correlated == job.correlated
HasVector(q) == q \in DOMAIN ranking

(***************************************************************************)
(* The rows of the pattern.                                                *)
(***************************************************************************)
Visits == DOMAIN job.visits
AnchorAt(v) == job.visits[v].anchor
Candidates(v) == DOMAIN job.visits[v].fan
BaseCase(v, x, b) == {[visit |-> v, id |-> x, base |-> b, twin |-> t] : t \in 1..job.visits[v].fan[x][b]}
BaseCases(v, x) == {BaseCase(v, x, b) : b \in DOMAIN job.visits[v].fan[x]}
RowsAt(v) == UNION {UNION BaseCases(v, x) : x \in Candidates(v)}
AllRows == UNION {RowsAt(v) : v \in Visits}
QueryOf(row) == AnchorAt(row.visit)

\* The queries at some places of a sequence, each once, in the order of their first places.
FirstSeen(queries, places) ==
  LET first == {i \in places : \A j \in places : j < i => queries[j] # queries[i]}
  IN  [n \in 1..Cardinality(first) |-> queries[CHOOSE i \in first : Cardinality({j \in first : j <= i}) = n]]

(***************************************************************************)
(* Rankings.  A local source ranks the candidates at hand, and gets none   *)
(* when the query vector is empty; a corpus source walks its stream.       *)
(***************************************************************************)
IsLocal == job.source = "local"
Ranked(list) == {[rank |-> i, id |-> list[i].id, dist |-> list[i].dist] : i \in DOMAIN list}
RankCandidates(q, ids) == IF HasVector(q) THEN {e \in Ranked(ranking[q]) : e.id \in ids} ELSE {}
StreamOf(q) == IF HasVector(q) THEN Ranked(stream[q]) ELSE {}
RankingOf(q, opened, ids) == IF IsLocal THEN RankCandidates(q, ids) ELSE StreamOf(opened)
IsNext(e) == e \in left /\ \A f \in left : e.rank <= f.rank

(***************************************************************************)
(* The budget.  It is asked in every turn of a loop, reads the clock once  *)
(* in Stride + 1 asks, and keeps its verdict until it is armed again.      *)
(***************************************************************************)
ReadsClock == job.armed /\ ~tripped /\ asked = 0
\* Mutant: a verdict is forgotten with the next ask.
ExpiredNow == ReadsClock /\ late
Expired == tripped \/ (ReadsClock /\ late)
\* Mutant: the countdown is not set again when the clock is read.
PolledOnce ==
  /\ tripped' = Expired
  /\ asked' = IF ~job.armed \/ tripped THEN asked ELSE asked - 1
Polled ==
  /\ tripped' = Expired
  /\ asked' = IF ~job.armed \/ tripped THEN asked ELSE IF asked = 0 THEN Stride ELSE asked - 1
\* Many asks within one action here: the clock may have been read among them.
PolledOften ==
  /\ tripped' \in {tripped, tripped \/ (job.armed /\ late)}
  /\ asked' \in IF ~job.armed \/ tripped' THEN {asked} ELSE IF late THEN 0..asked ELSE 0..Stride

(***************************************************************************)
(* The heap the k nearest are kept in (runtime/vsearch/topk.rs): TopK,     *)
(* which holds rows or the bindings of the search variable with the rows   *)
(* of each, and DistThreshold, which holds distances only and prunes the   *)
(* join while it runs.                                                     *)
(*                                                                         *)
(* An entry is farther than another at a greater distance, and at the same *)
(* distance when it was offered later.  A full heap refuses what is not    *)
(* nearer than its farthest entry, ties included, and otherwise gives that *)
(* entry up.  Distances are integers: the code compares them and nothing   *)
(* else, under a total order (metric::cmp_dist).                           *)
(***************************************************************************)
\* payload: the rows of the entry, none in a DistThreshold.
Entry(dist, at, id, payload) == [dist |-> dist, seq |-> at, id |-> id, payload |-> payload]

Farther(e, f) == e.dist > f.dist \/ (e.dist = f.dist /\ e.seq > f.seq)
IsWorst(e, kept) == e \in kept /\ \A f \in kept : ~Farther(f, e)

IsFull(kept, k) == Cardinality(kept) >= k

\* Mutant: a candidate at the threshold is cut with those beyond it.
PastOrAt(kept, k, dist, slack) ==
  IsFull(kept, k) /\ \E worst \in kept : IsWorst(worst, kept) /\ dist >= worst.dist * (1 + slack)
\* The distance is beyond the threshold, by more than `slack` times it: no threshold before k are held.
Past(kept, k, dist, slack) ==
  IsFull(kept, k) /\ \E worst \in kept : IsWorst(worst, kept) /\ dist > worst.dist * (1 + slack)

\* Mutant: a full heap gives up its nearest entry.
EnteredOverNearest(e, kept, k, after) ==
  \/ ~IsFull(kept, k) /\ after = kept \cup {e}
  \/ /\ IsFull(kept, k)
     /\ \E nearest \in kept :
          /\ \A f \in kept : ~Farther(nearest, f)
          /\ after = IF e.dist < nearest.dist THEN (kept \ {nearest}) \cup {e} ELSE kept
\* What the heap becomes when an entry is pushed.
Entered(e, kept, k, after) ==
  \/ ~IsFull(kept, k) /\ after = kept \cup {e}
  \/ /\ IsFull(kept, k)
     /\ \E worst \in kept :
          /\ IsWorst(worst, kept)
          /\ after = IF e.dist < worst.dist THEN (kept \ {worst}) \cup {e} ELSE kept

\* The entries nearest first (drain_sorted).
DrainSorted(kept) ==
  LET place(e) == Cardinality({f \in kept : Farther(e, f)}) + 1
  IN  [i \in 1..Cardinality(kept) |-> CHOOSE e \in kept : place(e) = i]

(***************************************************************************)
(* The heap in use.  The threshold of the join counts a base case, however *)
(* many rows it has, and a binding once; the sink takes a binding with all *)
(* its rows, or every row by itself.                                       *)
(***************************************************************************)
Distinct == job.mode = "distinct"
Emptied == held' = {} /\ offered' = {} /\ seq' = 0
Pushed(dist, id, rows) ==
  LET e == Entry(dist, seq + 1, id, rows)
  IN  Entered(e, held, job.k, held') /\ offered' = offered \cup {e} /\ seq' = seq + 1
Accept(id, dist) ==
  IF Distinct /\ \E e \in offered : e.id = id THEN UNCHANGED heap ELSE Pushed(dist, id, {})
\* A binding comes to the sink once, with all its rows.
Take(o) == Pushed(o.dist, o.id, o.rows)

Offer(dist, id, rows) == [dist |-> dist, id |-> id, rows |-> rows]
\* What is offered for the rows of one binding.
OffersFor(dist, id, rows) ==
  IF Distinct THEN {Offer(dist, id, rows)} ELSE {Offer(dist, id, {r}) : r \in rows}
Drained(q) ==
  LET sorted == DrainSorted(held)
  IN  [i \in DOMAIN sorted |-> [query |-> q, dist |-> sorted[i].dist, rows |-> sorted[i].payload]]

(***************************************************************************)
(* Turns of the loops.                                                     *)
(***************************************************************************)
Slot == slots[turn]
NextTurn == turn' = turn + 1
Without(f, x) == [y \in DOMAIN f \ {x} |-> f[y]]

\* The heap's entries join the answer, and the next slot is looked at.
Drain(next) ==
  /\ answer' = answer \o Drained(IF job.arm = "pre" THEN Fixed ELSE Slot)
  /\ NextTurn
  /\ pc' = next
  /\ UNCHANGED <<slots, table, cur, base, left, here, work, results, heap>>

\* The queries of the rows the join has produced, in the order of their first rows.
ResultsOf(q) == {r \in results : QueryOf(r.row) = q}
QueriesSeen ==
  LET seen == {QueryOf(r.row) : r \in results}
      since(q) == Min({r.nth : r \in ResultsOf(q)})
  IN  [n \in 1..Cardinality(seen) |-> CHOOSE q \in seen : Cardinality({p \in seen : since(p) <= since(q)}) = n]

\* The join has ended: its rows are grouped by query and the k nearest of each selected.
StartSelect ==
  /\ pc' = "pick"
  /\ turn' = 1
  /\ slots' = QueriesSeen
  /\ left' = {} /\ work' = {}
  /\ UNCHANGED <<table, cur, base, here, results, answer, heap>>

(***************************************************************************)
(* post and partition: the whole pattern, then the ranking.                *)
(***************************************************************************)
Ranks == job.arm \in {"post", "partition"}
Bucketed(rows) ==
  [q \in {QueryOf(r) : r \in rows} |->
     [x \in {r.id : r \in {s \in rows : QueryOf(s) = q}} |-> {r \in rows : QueryOf(r) = q /\ r.id = x}]]

RunPattern ==
  /\ pc = "gather" /\ Ranks
  /\ PolledOften
  /\ \E n \in 0..Len(job.visits) :
       /\ n < Len(job.visits) => tripped'
       /\ table' = Bucketed(UNION {RowsAt(v) : v \in 1..n})
       /\ slots' = FirstSeen([v \in 1..n |-> AnchorAt(v)], {v \in 1..n : RowsAt(v) # {}})
  /\ turn' = 1 /\ pc' = "open"
  /\ UNCHANGED <<cur, base, left, here, work, results, answer, heap>>

\* Mutant: the sink of one partition goes on in the next.
OpenPartitionKeeping(q) ==
  /\ left' = RankingOf(q, q, DOMAIN table[q]) /\ pc' = "walk"
  /\ UNCHANGED <<turn, slots, table, cur, base, here, work, results, answer, heap>>
OpenBuckets(q) ==
  /\ Emptied
  /\ left' = RankingOf(q, q, DOMAIN table[q]) /\ pc' = "walk"
  /\ UNCHANGED <<turn, slots, table, cur, base, here, work, results, answer>>

OpenPartition ==
  /\ pc = "open" /\ Ranks
  /\ IF turn > Len(slots)
     THEN pc' = "done" /\ UNCHANGED <<walk, heap, budget>>
     ELSE /\ IF Correlated THEN Polled ELSE UNCHANGED budget
          /\ IF Correlated /\ Expired THEN pc' = "done" /\ UNCHANGED <<walk, heap>>
             ELSE IF HasVector(Slot) THEN OpenBuckets(Slot)
             ELSE /\ NextTurn
                  /\ UNCHANGED <<pc, slots, table, cur, base, left, here, work, results, answer, heap>>

\* walk_candidates, walk_global: one neighbour.
PopBucket ==
  /\ pc = "walk" /\ Ranks
  /\ IF left = {} THEN Drain("open") /\ UNCHANGED budget
     ELSE /\ Polled
          /\ \E e \in left :
               /\ IsNext(e)
               /\ IF Expired THEN Drain("open")
                  ELSE /\ left' = left \ {e} /\ here' = e
                       /\ IF e.id \in DOMAIN table[Slot]
                          THEN /\ work' = OffersFor(e.dist, e.id, table[Slot][e.id])
                               /\ table' = [table EXCEPT ![Slot] = Without(@, e.id)]
                               /\ pc' = "offer"
                          ELSE UNCHANGED <<work, table, pc>>
                       /\ UNCHANGED <<turn, slots, cur, base, results, answer, heap>>

\* offer's verdict, and the candidates that remain.
Satisfied ==
  \/ IsFull(held, job.k) /\ \E worst \in held : IsWorst(worst, held) /\ here.dist >= worst.dist
  \/ ~IsLocal /\ DOMAIN table[Slot] = {}
RestBucket ==
  /\ pc = "offer" /\ work = {} /\ Ranks
  /\ IF Satisfied THEN Drain("open") ELSE pc' = "walk" /\ UNCHANGED <<walk, heap>>
  /\ UNCHANGED budget

OfferOne ==
  /\ pc = "offer"
  /\ \E o \in work : Take(o) /\ work' = work \ {o}
  /\ UNCHANGED <<pc, turn, slots, table, cur, base, left, here, results, answer, budget>>

(***************************************************************************)
(* pre: the stream, and the pattern pinned to each neighbour.              *)
(***************************************************************************)
OpenCorpus ==
  /\ pc = "gather" /\ job.arm = "pre"
  /\ PolledOften
  /\ left' = StreamOf(Fixed) /\ pc' = "walk"
  /\ UNCHANGED <<turn, slots, table, cur, base, here, work, results, answer, heap>>

RowsPinned(x) == {r \in AllRows : r.id = x}
PopCorpus ==
  /\ pc = "walk" /\ job.arm = "pre"
  /\ IF left = {} THEN Drain("done") /\ UNCHANGED budget
     ELSE /\ PolledOften
          /\ \E e \in left :
               /\ IsNext(e)
               /\ \/ (tripped' \/ Past(held, job.k, e.dist, job.slack)) /\ Drain("done")
                  \/ /\ ~Past(held, job.k, e.dist, job.slack)
                     /\ left' = left \ {e} /\ here' = e
                     /\ \E rows \in SUBSET RowsPinned(e.id) :
                          /\ rows # RowsPinned(e.id) => tripped'
                          /\ IF rows = {} THEN UNCHANGED <<work, pc>>
                             ELSE work' = OffersFor(e.dist, e.id, rows) /\ pc' = "offer"
                     /\ UNCHANGED <<turn, slots, table, cur, base, results, answer, heap>>
RestCorpus ==
  /\ pc = "offer" /\ work = {} /\ job.arm = "pre"
  /\ pc' = "walk"
  /\ UNCHANGED <<walk, heap, budget>>

(***************************************************************************)
(* Pointing the context at an anchor (retarget): its vector, an empty      *)
(* threshold and a new stream; nothing for the anchor it is at already.    *)
(***************************************************************************)
Retargeted(q) == cur = q \/ HasVector(q)
\* Mutant: the threshold of the anchor before is kept.
RetargetKeeping(q) ==
  /\ cur' = q
  /\ base' = IF cur # q /\ HasVector(q) THEN q ELSE base
  /\ UNCHANGED heap
Retarget(q) ==
  /\ cur' = q
  /\ IF cur # q /\ HasVector(q) THEN Emptied /\ base' = q ELSE UNCHANGED <<base, heap>>

(***************************************************************************)
(* interleave: the ranking is walked in every visit of the join.           *)
(***************************************************************************)
NextVisit == NextTurn /\ pc' = "visit"

EnterVisit ==
  /\ pc = "visit"
  /\ Polled
  /\ IF Expired \/ turn > Len(job.visits) THEN StartSelect
     ELSE /\ Retarget(AnchorAt(turn))
          /\ IF Retargeted(AnchorAt(turn)) /\ Candidates(turn) # {}
             THEN /\ left' = RankingOf(AnchorAt(turn), base', Candidates(turn))
                  /\ pc' = "walk" /\ UNCHANGED turn
             ELSE NextVisit /\ UNCHANGED left
          /\ UNCHANGED <<slots, table, here, work, results, answer>>

\* Mutant: the rank is advanced past a candidate only.
PassByStanding(e) == UNCHANGED <<left, here, work, table, pc>>
\* A neighbour that is no candidate is passed by.
PassBy(e) == left' = left \ {e} /\ UNCHANGED <<here, work, table, pc>>
\* Past the threshold, or at the end of the ranking.
WalkEnds == \A e \in left : IsNext(e) => Past(held, job.k, e.dist, job.slack)

PopVisit ==
  /\ pc = "walk" /\ job.arm = "interleave"
  /\ Polled
  /\ IF Expired THEN StartSelect
     ELSE /\ IF WalkEnds THEN NextVisit /\ UNCHANGED <<left, here, work, table>>
             ELSE /\ UNCHANGED turn
                  /\ \E e \in left :
                       /\ IsNext(e)
                       /\ IF e.id \notin Candidates(turn) THEN PassBy(e)
                          ELSE /\ left' = left \ {e} /\ here' = e
                               /\ work' = BaseCases(turn, e.id)
                               /\ pc' = "descend" /\ UNCHANGED table
          /\ UNCHANGED <<slots, cur, base, results, answer, heap>>
RestVisit ==
  /\ pc = "descend" /\ work = {} /\ job.arm = "interleave"
  /\ pc' = "walk"
  /\ UNCHANGED <<walk, heap, budget>>

(***************************************************************************)
(* memo: the candidates of all visits, and then one walk for each query.   *)
(***************************************************************************)
\* The slots when a candidate of q is filed: the one q has, or a new one.
AnchorSlots(q) == IF q \in Range(slots) THEN slots ELSE Append(slots, q)
FileVisit ==
  /\ pc = "gather" /\ job.arm = "memo"
  /\ Polled
  /\ IF Expired \/ turn > Len(job.visits)
     THEN pc' = "open" /\ turn' = 1 /\ UNCHANGED <<slots, table>>
     ELSE LET q == AnchorAt(turn)
              filed == IF q \in DOMAIN table THEN table[q] ELSE <<>>
              grown == [x \in DOMAIN filed \cup Candidates(turn) |->
                          (IF x \in DOMAIN filed THEN filed[x] ELSE {})
                          \cup (IF x \in Candidates(turn) THEN BaseCases(turn, x) ELSE {})]
          IN  /\ slots' = AnchorSlots(q)
              /\ table' = [p \in DOMAIN table \cup {q} |-> IF p = q THEN grown ELSE table[p]]
              /\ NextTurn /\ UNCHANGED pc
  /\ UNCHANGED <<cur, base, left, here, work, results, answer, heap>>

OpenTable ==
  /\ pc = "open" /\ job.arm = "memo"
  /\ IF Correlated /\ turn <= Len(slots) THEN Polled ELSE UNCHANGED budget
  /\ IF turn > Len(slots) \/ (Correlated /\ Expired) THEN StartSelect
     ELSE /\ Retarget(Slot)
          /\ IF Retargeted(Slot) /\ DOMAIN table[Slot] # {}
             THEN left' = RankingOf(Slot, base', DOMAIN table[Slot]) /\ pc' = "walk" /\ UNCHANGED turn
             ELSE NextTurn /\ UNCHANGED <<pc, left>>
          /\ UNCHANGED <<slots, table, here, work, results, answer>>

\* walk_ranking has ended: what the cuts left behind is dropped.
CloseTable ==
  /\ table' = [table EXCEPT ![Slot] = <<>>]
  /\ NextTurn /\ pc' = "open"
  /\ UNCHANGED <<left, here, work>>

PopTable ==
  /\ pc = "walk" /\ job.arm = "memo"
  /\ Polled
  /\ IF Expired \/ WalkEnds THEN CloseTable
     ELSE /\ UNCHANGED turn
          /\ \E e \in left :
               /\ IsNext(e)
               /\ IF e.id \notin DOMAIN table[Slot] THEN PassBy(e)
                  ELSE /\ left' = left \ {e} /\ here' = e
                       /\ work' = table[Slot][e.id]
                       /\ table' = [table EXCEPT ![Slot] = Without(@, e.id)]
                       /\ pc' = "descend"
  /\ UNCHANGED <<slots, cur, base, results, answer, heap>>

Cuts ==
  /\ job.cuts
  /\ (job.slack = 0 /\ IsFull(held, job.k)) \/ DOMAIN table[Slot] = {}
RestTable ==
  /\ pc = "descend" /\ work = {} /\ job.arm = "memo"
  /\ IF Cuts THEN CloseTable ELSE pc' = "walk" /\ UNCHANGED <<turn, table, left, here, work>>
  /\ UNCHANGED <<slots, cur, base, results, answer, heap, budget>>

(***************************************************************************)
(* The search below x: one base case, its rows, and the threshold.  An     *)
(* expired budget unwinds the join; each prefix that memo has still to     *)
(* resume finds it expired.                                                *)
(***************************************************************************)
Descend ==
  /\ pc = "descend" /\ work # {}
  /\ Polled
  /\ IF Expired
     THEN IF job.arm = "interleave" THEN StartSelect
          ELSE work' = {} /\ UNCHANGED <<pc, turn, slots, table, cur, base, left, here, results, answer, heap>>
     ELSE \E case \in work :
            /\ work' = work \ {case}
            /\ results' = results \cup {[row |-> r, dist |-> here.dist, nth |-> Cardinality(results)] : r \in case}
            /\ Accept(here.id, here.dist)
            /\ UNCHANGED <<pc, turn, slots, table, cur, base, left, here, answer>>

(***************************************************************************)
(* The selection after an in-LTJ search, one sink per query.               *)
(***************************************************************************)
Group(q) ==
  LET firsts == {r \in ResultsOf(q) : \A s \in ResultsOf(q) : s.row.id = r.row.id => r.nth <= s.nth}
  IN  UNION {OffersFor(r.dist, r.row.id, {s.row : s \in {t \in ResultsOf(q) : t.row.id = r.row.id}}) : r \in firsts}

Pick ==
  /\ pc = "pick"
  /\ IF turn > Len(slots) THEN pc' = "done" /\ UNCHANGED <<work, heap>>
     ELSE Emptied /\ work' = Group(Slot) /\ pc' = "offer"
  /\ UNCHANGED <<turn, slots, table, cur, base, left, here, results, answer, budget>>
RestSelect ==
  /\ pc = "offer" /\ work = {} /\ InLtj
  /\ Drain("pick") /\ UNCHANGED budget

(***************************************************************************)
(* An execution: the budget is armed, the arm runs.                        *)
(***************************************************************************)
FirstSlots == IF job.arm = "memo" /\ ~Correlated THEN <<Fixed>> ELSE <<>>
FirstTable == [q \in Range(FirstSlots) |-> <<>>]
FirstAnchor == IF Correlated THEN NoQuery ELSE Fixed
Nowhere == [rank |-> 0, id |-> 0, dist |-> 0]
Entrance == IF job.arm = "interleave" THEN "visit" ELSE "gather"
Init ==
  /\ job \in Jobs /\ ranking = Rankings[job.corpus] /\ stream = Streams[job.corpus]
  /\ pc = Entrance
  /\ turn = 1 /\ slots = FirstSlots /\ table = FirstTable /\ cur = FirstAnchor /\ base = FirstAnchor
  /\ left = {} /\ here = Nowhere /\ work = {} /\ results = {} /\ answer = <<>>
  /\ held = {} /\ offered = {} /\ seq = 0
  /\ asked = Stride /\ tripped = FALSE
  /\ late = FALSE /\ runs = 1

\* Mutant: the verdict of the execution before is kept.
RearmKeeping == asked' = Stride /\ UNCHANGED tripped
\* Budget::restart, at the top of every execution.
Rearm == asked' = Stride /\ tripped' = FALSE
RunAgain ==
  /\ pc = "done" /\ job.armed /\ runs < MaxRuns
  /\ runs' = runs + 1 /\ late' = FALSE
  /\ Rearm
  /\ pc' = Entrance
  /\ turn' = 1 /\ slots' = FirstSlots /\ table' = FirstTable /\ cur' = FirstAnchor /\ base' = FirstAnchor
  /\ left' = {} /\ here' = Nowhere /\ work' = {} /\ results' = {} /\ answer' = <<>>
  /\ Emptied
  /\ UNCHANGED setting

\* The deadline passes, or somebody raises the flag.
Late ==
  /\ job.armed /\ ~late /\ pc # "done"
  /\ late' = TRUE
  /\ UNCHANGED <<setting, pc, walk, heap, budget, runs>>

Step ==
  /\ \/ RunPattern \/ OpenPartition \/ PopBucket \/ RestBucket
     \/ OpenCorpus \/ PopCorpus \/ RestCorpus
     \/ EnterVisit \/ PopVisit \/ RestVisit
     \/ FileVisit \/ OpenTable \/ PopTable \/ RestTable
     \/ Descend \/ Pick \/ OfferOne \/ RestSelect
  /\ UNCHANGED <<setting, clock>>
Next == Step \/ Late \/ RunAgain
Spec == Init /\ [][Next]_vars
\* A loop that can turn does.
FairSpec == Spec /\ WF_vars(Step)

(***************************************************************************)
(* Properties.                                                             *)
(***************************************************************************)
Queries == (IF Correlated THEN {} ELSE {Fixed}) \cup {AnchorAt(v) : v \in Visits}
Neighbour == [rank : Nat, id : Int, dist : Int]
TypeOK ==
  /\ pc \in {"gather", "visit", "open", "walk", "offer", "descend", "pick", "done"}
  /\ turn \in Nat \ {0} /\ slots \in Seq(Queries)
  /\ {cur, base} \subseteq Queries \cup {NoQuery}
  /\ left \subseteq Neighbour /\ here \in Neighbour
  /\ \A e \in held : e.dist \in Int /\ e.seq \in 1..seq
  /\ seq \in Nat /\ asked \in 0..Stride /\ runs \in 1..MaxRuns
  /\ {tripped, late} \subseteq BOOLEAN
  /\ \A r \in results : r.row \in AllRows /\ r.dist \in Int

\* The rows of a query that can be ranked, and what it counts k of.
RowsOf(q) == {r \in AllRows : QueryOf(r) = q /\ \E i \in DOMAIN ranking[q] : ranking[q][i].id = r.id}
UnitsOf(q) ==
  IF Distinct THEN {{r \in RowsOf(q) : r.id = x} : x \in {r.id : r \in RowsOf(q)}}
  ELSE {{r} : r \in RowsOf(q)}
DistTo(q, unit) == CHOOSE d \in {e.dist : e \in {f \in Range(ranking[q]) : \E r \in unit : r.id = f.id}} : TRUE
AnsweredTo(q) == {i \in DOMAIN answer : answer[i].query = q}

\* The answer to a query is its k nearest: units of it, each once and at its distance, as many as
\* there are up to k, nearest first, and none that was left out is nearer.
IsNearest(q) ==
  LET given == {answer[i].rows : i \in AnsweredTo(q)}
  IN  /\ given \subseteq UnitsOf(q)
      /\ Cardinality(AnsweredTo(q)) = Min({job.k, Cardinality(UnitsOf(q))})
      /\ Cardinality(given) = Cardinality(AnsweredTo(q))
      /\ \A i \in AnsweredTo(q) :
           /\ answer[i].dist = DistTo(q, answer[i].rows)
           /\ \A j \in AnsweredTo(q) : i < j => answer[i].dist <= answer[j].dist
           /\ \A unit \in UnitsOf(q) \ given : DistTo(q, unit) >= answer[i].dist

(***************************************************************************)
(* Where an answer can be exact: every list of a source is nearest first    *)
(* and names a node once, a stream delivers all that can be ranked (a       *)
(* cursor over an HNSW graph need not), and slack, which widens the         *)
(* threshold by a part of itself, is used where no distance is negative.    *)
(***************************************************************************)
IsRanking(list) ==
  \A m, n \in DOMAIN list : (list[m].id = list[n].id => m = n) /\ (m < n => list[m].dist <= list[n].dist)
SourcesAreExact ==
  \A j \in Jobs : \A q \in DOMAIN Rankings[j.corpus] :
    /\ IsRanking(Rankings[j.corpus][q]) /\ IsRanking(Streams[j.corpus][q])
    /\ Range(Rankings[j.corpus][q]) = Range(Streams[j.corpus][q])
    /\ j.slack > 0 => \A n \in DOMAIN Rankings[j.corpus][q] : Rankings[j.corpus][q][n].dist >= 0
\* No anchor without a vector is visited twice in a row while a stream is walked (see NoVectorNoRow).
NoStaleVisit ==
  \A j \in Jobs : j.arm = "interleave" /\ j.source # "local" =>
    \A v \in 1..(Len(j.visits) - 1) :
      j.visits[v].anchor = j.visits[v + 1].anchor => j.visits[v].anchor \in DOMAIN Rankings[j.corpus]

(* An answer that is not marked as cut short is the k nearest of each       *)
(* query that has a vector: rows, or all rows of bindings.  The five arms   *)
(* cut the walk at different points, on a threshold that belongs to one     *)
(* query at a time (in_ltj.rs, correlated.rs, post_filter.rs,               *)
(* pre_filter.rs).                                                          *)
AnswerIsNearest ==
  pc = "done" /\ ~tripped =>
    /\ \A i \in DOMAIN answer : HasVector(answer[i].query)
    /\ \A r, s \in results : r.row = s.row => r = s
    /\ \A q \in {p \in Queries : HasVector(p)} : IsNearest(q)

(* What the heap gave up or refused could not have been among the k        *)
(* nearest of what it was offered since it was last emptied: k are held,   *)
(* and none of them is farther (topk.rs: the threshold never falls below   *)
(* the distance of a row that still belongs to the answer).                *)
ThresholdIsSound ==
  /\ held \subseteq offered
  /\ Cardinality(held) <= job.k
  /\ \A e \in offered \ held :
       Cardinality(held) = job.k /\ \A f \in held : f.dist <= e.dist

(* An execution is marked as cut short only after its own deadline, or the *)
(* flag, was up: the verdict and the countdown of the one before are gone  *)
(* (budget.rs arm, restart).                                               *)
VerdictIsDue == tripped => late

(* An anchor without a vector has no row: "the visit produces nothing       *)
(* rather than ranking against a stale vector" (algorithm.rs, retarget).    *)
(* It does not hold of an anchor visited twice in a row.                    *)
NoVectorNoRow == \A r \in results : HasVector(QueryOf(r.row))

(* Every execution ends, with or without a budget.                         *)
Answered == pc # "done" ~> pc = "done"
=============================================================================
