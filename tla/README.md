# FrogQL in TLA+

FrogQL is an embedded property-graph database: ISO GQL over a single `.gdb` file, about 57,000
lines of Rust. A process opens a file, holds a *session* over it and runs statements one
at a time. There is no server, no thread pool and no write-ahead log in the core. What makes the code
hard is not concurrency but two other things.

**Several structures describe one graph while it changes**: an immutable base image, an
in-memory overlay, adjacency lists, label lookups, secondary indexes with a delta, a triple index with
another delta, an inferred schema. Each is brought up to date at a different moment, and a failing
statement throws the overlay away under all of them.

**A query can be answered in many ways**: by joining parts, by stepping along adjacency, by searching
breadth first, by a triejoin over a compact index, along an index in sort order, by five arms of a vector search;
with predicates, limits and bindings pushed into each. All of them must give one answer.

This directory models both. Paths below are relative to the crate (`src/src/...` is its
source as `PROJECT.json` names it).

## 1. Inventory

| component | state | operations | correct when |
|---|---|---|---|
| **mutation overlay** `store/overlay.rs`, `store/lazy.rs` | inserted nodes and edges, tombstones, staged property and label changes of base records, adjacency of overlay edges, log of touched nodes | one per method of `GraphAccessMut`; the merged reads of `GraphAccess` | the merged view is one graph: no dangling edge, adjacency and label lookups equal a scan |
| **DML executor** `runtime/dm.rs` | the bound rows of the running statement | MATCH once, then INSERT / DELETE / SET / REMOVE row by row; roll back on any error | all or nothing, for any order of rows |
| **session** `store/lazy.rs`, `store/io.rs` | the open image, the file, `<path>.tmp` | open, save (materialize, write, rename), crash, reopen | the file is always a complete image; reopening gives the graph that was saved |
| **secondary indexes** `store/secondary_index.rs`, `store/overlay_index.rs` | buckets per (label, property); delta of re-filed nodes, shadow set, absorbed log length, witness | build at open, CREATE / DROP INDEX, lookups | an answer is what a scan would find, or the index is declined |
| **triple index of a connection** `runtime/ltj/delta.rs`, `connection.rs` | the stamp of the overlay at build time, added triples, removed edges | build or load, refresh after a statement, drop | base plus delta is the triples of the merged graph |
| **catalog** `runtime/catalog.rs`, `store/catalog_io.rs` | graph types, the active one, verdicts, the dirty flag of `DEFAULT` | CREATE / USE / DROP / VALIDATE GRAPH TYPE, refresh | the schema statements are checked against is that of the data; DDL survives |
| **pager** `pager/*` | header, page cache, free list | read, write, allocate, free, evict | what was written is what is read; no page has two owners |
| **graph file** `store/io.rs`, `string_table.rs`, `record.rs`, `disk_index.rs`, `disk.rs` | interned strings with overflow chains, records in cells, indexes in chains of pages | write a graph, open it, upgrade a file of an older version | any store serves the graph that was written |
| **LTJ join** `runtime/ltj/*` | cursors, elimination order with its weights, filed prefixes | extract triples, seek, leap, down, up, search with limit and deadline, file and resume | the rows of the reference join; every search leaves cursors and order as it found them |
| **query engine** `runtime/engine.rs`, `path_select.rs`, `assignment.rs` | per-query caches | evaluate patterns, chains of MATCH, expressions, sort, group, subqueries | GQL semantics, by every route |
| **budget** `runtime/budget.rs` | deadline, poll counter, cancel flag, sticky verdict | arm, poll | a partial result is never taken for a complete one |
| **vector search** `vector/*`, `runtime/vsearch/*` | HNSW graph, cursors, top-k heap and threshold | build, search, offer | the k nearest of those reached |
| **optimizer, elaboration** `optimizer/*`, `elaborate/*` | none | pure functions on trees | meaning is preserved |
| **types and checker** `typing/*` | none | infer a schema, type patterns and predicates, declare a query empty or refuse it | what is declared empty is empty; a row fits the types of its variables |
| **parser, importers, front ends** `parser/*`, `model/*`, `bin/*`, `node/`, `python/`, `wasm/` | a store and its index | read text and files; shell commands, bindings | as the connection |

How they interact. A `Connection` owns a `LazyGraphStore` and at most one triple index. A query is
compiled against the active graph type, which refreshes `DEFAULT` when dirty, elaborated, checked,
optimized and run; the engine hands what it can to the triejoin and falls back to itself. `run_dm` hands
the index to the executor, which reads through `GraphAccess` and writes through `GraphAccessMut`; only
after it *succeeded* does the connection refresh the index and mark `DEFAULT` dirty. The store's writes
append to the log of touched nodes; lookups, when they come, pull the delta of the secondary indexes
up to it. `save` reads the merged view and writes a new file; the session goes on over the old
one. `rollback_session` is called from inside the executor and knows none of the derived structures.

What is hard to test, with the line and the property that watches it, is the `hazards` list of
`PROJECT.json`.

## 2. Modules

| module | models | builds on |
|---|---|---|
| **storage** | | |
| `Overlay` | base image and `MutationOverlay`, the merged view, one operation per method | |
| `DmStatement` | `run_dm_with_index` and the apply functions | `Overlay` |
| `PropertyGraph` | abstract: what a session promises, with no overlay, tombstone or id arithmetic | |
| `SessionStore` | save, crash, reopen around statements; refines `PropertyGraph` | `DmStatement` |
| `OverlayIndex` | secondary indexes and `OverlayNodeIndex` | `Overlay` |
| `TripleCache` | the connection's triple index and its delta | `Overlay` |
| `Pager` | page cache, header, free list | |
| `CatalogFile` | the chain of pages `save_catalog` rewrites in place; refines `CatalogCell` | `Pager` |
| `CatalogCell` | abstract: a cell that is rewritten atomically or not at all | |
| `Catalog` | graph types in a session, over the cell, with saves and reopening | `CatalogCell` |
| **queries** | | |
| `Rows`, `PatternGraph` | rows, path modes and selections; label formulas and descriptors, patterns and the graph they are matched against | |
| `LeapfrogJoin` | the engine's use of the triejoin: decomposition of a pattern into triples, pinned and folded constants, edge checks, results | `PatternGraph` |
| `Patterns` | evaluation of a pattern by every route | `LeapfrogJoin` |
| `Rewrites` | elaboration and the optimizer | `PatternGraph` |
| `MatchChain` | the clauses of a query, plain and optional, and their pushdown | `Patterns`, `Rewrites` |
| `Meaning` | reference: the declarative meaning of patterns and chains as sets | `MatchChain` |
| `Types`, `Typechecker` | the types and their lattice; the inferred schema and the static check | `PatternGraph`, `Rewrites` |
| `GraphFile` | a graph as a file of pages, and the three stores that open it | |
| `Queries` | a question, checked, compiled and run by every route; its graphs, saved and opened | `Meaning`, `Typechecker`, `GraphFile` |
| `Expressions`, `Answers` | expressions and aggregates; limit, projection, DISTINCT, grouping and every way to sort | `Meaning` |
| `Subqueries` | statements, EXISTS and VALUE with their caches | `Answers` |
| **indexes** | | |
| `CompactTrie` | the six succinct tries: bit vectors with rank tables, packed symbols | |
| `TripleIterators` | cursors over arrays, tries, and either merged with a delta | `CompactTrie` |
| `EliminationOrder` | the adaptive, fixed and pinned orders of variables | |
| `JoinSearch` | the search with its limit, deadline and memo form | `EliminationOrder`, `TripleIterators` |
| `Nearest` | the heap of the k nearest, the five arms of NEAREST, the budget | |
| `Hnsw` | construction of the proximity graph and its cursor | |

`MC...` modules hold the instances, `..._proofs` modules the theorems about the module they are named for
(`Overlay_proofs` has lemmas the others share). A definition named as a *mutant* in a comment is not part of any
specification: it is the plausible bug under which the property it belongs to must fail
(`mutants` in `PROJECT.json`).

### Correspondence to the code: storage

*Overlay.* A node or edge id below the base count is a base record, any other a slot of `newNodes` /
`newEdges`; slots are kept on delete, so ids are dense until the overlay is cleared.
`PropMods` and `LabelMods` have the code's own fields. `NoPropMods` stands for the missing map entry: the
code creates an entry and fills it in the same call, and no method leaves one equal to the default.
Adjacency is kept as sets; `UndirectedOccurrences` keeps the one case where the multiplicity differs.
`IncidentEdges` is what both deletion methods collect. Operations carry the bounds
`MaxNodes` and `MaxEdges` as guards.

*DmStatement.* `BeginStatement` is the read-only phase: the rows may name any live element.
`EndStatement` is the `Ok` path, `StatementFails` every error path, enabled at any point after the MATCH
phase because any row may fail. In between comes any sequence of the statement's operations on bound elements:
every list of rows and items is one such sequence. The targets of DELETE, SET and REMOVE are not checked for
being alive (the code does not either); the endpoints of an INSERT edge are. A DELETE without DETACH that
meets edges has no successful step: its error is `StatementFails`.

*SessionStore.* `Materialized` is `materialize_to_graph` with its two passes over the edges. A save is
three actions, so that a crash (`Reopen`) may fall between any two. `stale` says that a `<path>.tmp` was left behind: it is created
exclusively and never removed, so no later save begins. `Reopen` is the end of the
session at any point, an orderly close or a killed process, and the opening of the file.

*OverlayIndex.* `secondary` maps an index (label, property, kind) to pairs of key and node; `Absorbed`
is the body of `sync_overlay_index` and of `reindex` / `forget` for the new part of the log; `SyncedDelta`
and `Trusted` are what a lookup issued now would read and return. Writes are any node method on any id ever
allocated. History only: `lagging` (a rollback the delta has not noticed), `midSession` (indexes created while
the overlay had node changes).

*TripleCache.* `built` and `stamp` are the static index, `added` and `removed` the delta of the last
refresh, recomputed from the stamp each time. `MaxDelta` is `MAX_DELTA_TRIPLES`. `writing` is the stretch
between the first write of a statement and its end, in which the code does not read the index. History only:
`unnoticed`, `relabelled`.

*Pager, CatalogFile.* Each write to the file is one action, so a crash or a failed write may come between any
two. A page is the four bytes at its start, a link and a body: a freed page's type byte is overwritten by the
low byte of the free-list link. `save_catalog` frees the old chain, allocates the new one from the pages just
freed, writes it and last moves the header. A failed write ends the statement with an error and leaves the session as the code leaves it.

*Catalog.* A graph is the set of shapes its elements have, a graph type the set of shapes it admits. The cell
of the catalog is imported from `CatalogCell`, so one rewrite is an interval a crash may cut short; `Save` puts a
new file under the name while the session keeps the one it has open, which then has no name. `parted` remembers
that a rollback took the graph away from the one `DEFAULT` was inferred from, `held` that the active type was
found to hold and no rollback came since: both are history.

### Correspondence to the code: queries

*Patterns* follows `run_path_pattern` case by case; `c` is the configuration of routes and what the engine keeps in
cells. The general route is evaluation with all routes off. The breadth-first routes, the level-by-level
growth of a repetition, the seeded search of an unbounded one and k-shortest pruning are functions of the rows on
the left. *LeapfrogJoin* models everything between the engine and the search (`pattern_extract.rs` and the result side of `algorithm.rs`); the search itself
is there a join of triples, and `JoinSearch` shows that the search computes that.

*MatchChain* has the loop of `run_match_chain` with its early exit, the narrowing of a later clause by values or
row by row, and the three ways to answer an optional clause. *Rewrites* is elaboration (lowering of descriptors,
hoisting of filters) and the optimizer (predicate pushdown, unrolling of short repetitions). *Typechecker*
returns for a query whether it is refused, whether it is known to be empty, and the types of its variables; a type is
the set of its alternatives, where the code nests unions.

*Meaning* is written independently of all of this: sets of matches, with no order and no search. Unbounded
repetitions go up to `MaxLaps` laps, more than any path mode or shortest path needs on three nodes and three edges.

*GraphFile* is a module of operators: pages are a sequence, a table of strings, a list, a record and a label index are written
to it in the order of `save_graph`, and the file opens by following its roots or, when they are missing, by scanning pages.
`LazyStore`, `DiskStore` and `MemoryStore` are what each store answers of nodes, edges, labels and adjacency, in order.
Strings are sequences of bytes because what fits on a page is counted in bytes; the sizes of the fields are the code's.
`Legacy` is a file as versions before the roots wrote it, as far as the code that reads it tells.

*Answers, Subqueries* follow `run_query` after the rows: full sort, heap, walk of an index in sort order with its
buckets, run of the pattern per node of the index; `eval_exists` and `eval_value_subquery` with a cache that lives from row to row.
`Expressions` is `run_expr` with three-valued logic; a text is its place among the texts.

*JoinSearch.* The recursion of `search_level` is the path of the order with the value each level stands at;
`EliminationOrder` has one operation per call the search makes of an order (next, down, up, done, force, release). Cursors have the fields of the code.
`CompactTrie` has the code's bit arithmetic over words of `Word` bits, cells of `Cell` and a sample every `Sample` zeros.

*Nearest.* A job is one query: its visits, one per binding above the search variable, with the candidates of
each and the base cases under each candidate. One action is one turn of a loop of the code. The clock is a step
that makes the budget late; `Polled` and `PolledOften` are the two forms of the code's poll.
`Hnsw` builds the graph for given layers and walks it; its cursor's order is what `Nearest` gets as `Streams`.

## 3. Runs

| run | checks | instance | why it is enough |
|---|---|---|---|
| `session_topology` | `TypeOK`, `NoDanglingEdge`, `AdjacencyIsExact`, `FileIsImage`, `ImplementsPropertyGraph` | an undirected edge between two nodes, or an undirected self-loop; 2 nodes, 2 edges, one completed save, any number of failed or interrupted ones; no labels or properties; 255,000 states | base and overlay edges at the same nodes, self-loops of both, tombstones of either, inside and between statements, and after a save of a smaller graph two overlay edges; the image's edge is numbered first, so a save with a directed overlay edge renumbers both kinds; one completed save separates file, base and working graph. The theorems on `DmStatement` have no bound |
| `session_content` | `LabelIndexIsExact`, `WritesReadBack`, `ImplementsPropertyGraph` | 1 node, 1 edge, one label, property and value; 235,000 states | staged changes are per element, label and property: nothing in the code relates two of them. Elements are base ones or, after a save of a smaller graph, overlay ones |
| `index_delta` | `TrustedLookupIsExact`, `IndexIsNeverDeclined` | one base and one overlay node, one pair in both kinds, one indexable value and one that is not, a log of 2 entries; 312,000 states | a node is absorbed, touched again and absorbed again, or two nodes are, with a rollback or DDL at any point; the theorems have no bound on the log |
| `triple_delta` | `RefreshIsExact`, `DeltaAddsNothingTwice` | an undirected labelled edge or a bare node, 2 nodes, 2 edges, one label besides none, deltas of one triple; 345,000 states | an undirected edge already exceeds the delta, so drop, rebuild and refresh from the new stamp all happen |
| `catalog_file` | `CacheIsCoherent`, `FreeListIsSound`, `ImplementsCatalogCell` | catalogs of 1, 2 and 3 pages, 7 pages, a cache of 2, 4 saves, 2 crashes, 1 failed write | chains shrink and grow over pages just freed, in both orders; the cache evicts in every rewrite |
| `catalog` | `DefaultDescribesGraph`, `ActiveTypeExists`, `VerdictIsForItsType`, `ValidatedTypeHolds`, `StatementsAreSaved` | one shape, one user type, 3 rewrites, 1 crash; 312,000 states | a graph that has and one that has not the shape, a type that admits it or not, on three files' worth of catalogs |
| `join` | `NavigationIsExact`, `RowsAreTheJoin`, `OrderIsSound` | both layouts, indexes that are empty, all added, replaced, a fan of 6, parallel edges, mirrored with a doubled self-loop, a ring of 6; words of 2, cells of 4, samples every 2; ten patterns, three orders, limits 1 and 3, a deadline at any level, memo searches with 2 resumptions; 38,000 states | word, cell, block and sample boundaries all fall inside these tries, and a fan of 6 overflows an entry of the distance table; constants are missing from the built index and there among the additions |
| `queries` | `RoutesAgree`, `AnswerIsMeaning`, `LimitOnlyCuts`, `SelectionIsShortest`, `StatementIsMeaning`, `RowsFitTheirTypes`, `StoresServeTheGraph` | 54 graphs (nodes A, AB, B with p 1, 2 and none; two directed edges and an undirected one in 54 positions; an index on A.p), 14 patterns, 7 selections, 24 statements, two schemas, limits 0 and 1, two orders of the hash sets; pages of two list entries, one or two cells, one or two strings and four bytes of overflow; 10,500 states | each pattern form alone and combined; parallel edges, cycles, loops and unreachable nodes occur among the positions; lists, tables and cells all run over several pages and interleave |
| `answers` | `AnswerIsTheFirst`, `GroupsAreExact`, `PushedAgrees`, `ExistsIsPerRow`, `ValueIsPerRow` | 24 graphs of four nodes and three edges with ties, nulls and nodes without attribute, three sets of indexes, 18 statements, 7 EXISTS, 8 VALUE, caps 0, 1, 3, six ways to sort; 7,500 states | each sorting route with ties at the cut, each cache asked by rows in every order |
| `search` | `TypeOK`, `AnswerIsNearest`, `ThresholdIsSound`, `VerdictIsDue`, `Answered` | four or six vectors on a line with ties, two metrics, 2 or 3 visits, five fans (parallel edges, dead ends, nodes without vector, none), k 1 and 2, rows or distinct, all arms and sources, slack 0 and 1, three layerings of the HNSW graph; armed jobs poll every second turn and run twice; 72,000 states | k rows are full before, at and after a tie; anchors come back after another; the deadline strikes at any turn |
| `static_empty` | `EmptyIsEmpty`, violated | the graphs of `queries`, one statement | section 5 |
| `stale_visit` | `NoVectorNoRow`, violated | three visits, the last two of an anchor without a vector | section 5 |

Bounds are named constants and appear as guards: `MaxNodes`, `MaxEdges` (ids allocated between two clears),
`MaxSaves`, `MaxCrashes`, `MaxFailures`, `MaxLog`, `LastPage`, `MaxLaps`, `MaxResumes`, `MaxRuns`. `MaxDelta`, `CacheSize`,
`Stride`, `Word`, `Cell`, `Sample` model constants of the code. There are no symmetry declarations: the sets are too small for it to pay.

**Deadlock** is checked where the system never stops: in the four runs over an overlay a statement can always
begin and a rollback or query is always possible. `catalog_file` and `catalog` stop at the bound on rewrites;
a question is put and answered once in `queries`, `answers`, `join` and `search`.

**Fairness and liveness.** `search` runs under `FairSpec`, weak fairness of `Step`, a turn of a loop:
the search runs on one thread and a loop that can turn does. The clock and the flag are not fair: they may
never strike. `Answered` says that every execution ends, which each arm owes to a different measure: results drained,
streams that end, visits that are all taken. Elsewhere the user decides when to call and no operation waits for another: nothing the code's scheduling promises.

**Refinement.** `ImplementsPropertyGraph` maps `graph` to the merged view, `opened` to the base image,
`saved` to the file. Every overlay operation is one abstract write or a stutter (deleting
a deleted element, beginning a statement), a failure is the abstract `Rollback`, a rename the abstract `Save` up to
a renaming of ids. The abstract graph has node deletion remove the edges with it, where the code has
tombstones and adjacency lists, and has no staged changes at all. `ImplementsCatalogCell` maps the
cell to what the file would open with after each single write; `Catalog` is built on that abstract cell.

## 4. Proofs

All hold for every value of the constants within the named assumptions, which TLC evaluates in each run.

| module | theorems | strengthening |
|---|---|---|
| `SessionStore_proofs`, on `DmStatement` | `TypeCorrect`, `EndpointsAlive`, `TraversalExact`, `LabelIndexExact`, `WritesTakeEffect`, `InductiveInvariant` | `IInv` |
| `SessionStore_proofs`, on `SessionStore` | `SessionInvariant`, `FileIsAnImage`, `NoSessionDangles`, `StoreImplementsPropertyGraph` | `SessionInv` |
| `OverlayIndex_proofs` | `IndexInvariant`, `LookupExact`, `NeverDeclined` | `IndexInv` |
| `TripleCache_proofs` | `TripleInvariant`, `RefreshExact`, `DeltaIsDisjoint` | `TripleInv` |
| `Catalog_proofs` | `CatalogInvariant`, `DefaultIsDescribed`, `ActiveExists`, `VerdictsFit`, `ValidatedHolds`, `Saves` | `CatalogInv` |
| `CatalogFile_proofs` | `CacheCoherent`, `InvariantHolds`, `FreeListSound`, `FileImplementsCell` | `CacheInv`, `IInv` |
| `JoinSearch_proofs` | `OrderInvariant`, `OrderSound`, `JoinIsExact` | `OrderInv`, `JoinInv` |
| `Nearest_proofs` | `TypeCorrect`, `ThresholdSound`, `VerdictDue`, `NearestAnswered` | `TypeInv`, `Inv`, `VerdictInv`, `NearestInv` |

*Statements.* DETACH DELETE tombstones exactly the edges its adjacency lists name, so `NoDanglingEdge` survives it
only if the lists are complete, and `TypeOK` only if what they name has been allocated. The lists must be
complete for *deleted* nodes too, because DELETE does not check that its target is alive, and they must
hold tombstoned edges, because the code never removes an entry. So
`IInv == TypeOK /\ Topology /\ NoDanglingEdge`, where `Topology` says that each overlay list of a node holds
exactly the overlay edges filed at that endpoint, alive or not, and that every endpoint has been allocated.
`WritesTakeEffect` follows from three lemmas on how a staged modification composes with those before it.

*Sessions.* `SessionInv` is `IInv`, that the file is an image, and that `<path>.tmp`, while a save is writing it, is an image
isomorphic to the merged view: nothing touches the overlay between the writing and the rename. A save numbers
live elements by their rank; the ranks of a finite set of numbers are dense and each is taken once (`Rank` lemmas), and
since no edge dangles the second pass drops none, so the renumbering is an isomorphism. For the
refinement each operation has a lemma saying which abstract write its merged view makes, built from what one write changes of
the reads of one element; the temporal step combines them.

*Secondary indexes.* `LogIsComplete`: a node that is not logged is as the image has it. `BaseIsIndexed`: indexes built
before the first write hold what the image says. `DeltaIsSettled`: the nodes of the absorbed part of the log that are
not pending are filed as they read now, the base ones among them are shadowed, and the witness equals the overlay's sizes when nothing is
pending. A lookup that syncs first is exact by these three, for a log of any length.

*Triple index.* An index is measured when its stamp tells what it was built from, the edges below the watermark that
were not dead, with additions at or above it; the one index that is not was built over relabelled base edges, and
these stay relabelled until a rollback, so it is never refreshed.

*Catalog.* The catalogs of the session, the open file and the file a save left are each sound; a rewrite
under way writes the session's; between statements the file holds the session's user types.

*Catalog file.* `CacheCoherent`: a step reads a page from the file, writes it to both sides, or forgets pages. For the
rest, `IInv` says where a rewrite stands, as sequences: `FreeStack` is the free list from the header, `ChainOf` the pages
that hold a catalog. Before the first free they are disjoint and hold every page past the graph; while the old chain is
freed, the pages freed so far are on the stack and the rest are still a chain; while the new one is linked, allocated and
written, each page of the stack is taken once. A path through links is determined page by page (`Follow`, `Closed` and a
least-number argument in place of induction), so `FreeListIsSound` reads off the sequences. For
the refinement, `FileOpensWith` is computed at each step from the root's page alone: the old catalog until its page is
freed, refused until the new root is flushed, the new catalog from then on; after a failure, what it was left at. *Hypothesis of
`InvariantHolds`, `FreeListSound` and `FileImplementsCell`:* `NoLinkReadsAsCatalog`, no page past the graph has a
number that is 8 modulo 256. Without it they are false: this is the code's own fault at `pager.rs:365` (section 5), where a freed page whose
link is such a number looks like a catalog page. It holds of every file whose pages past the graph's, up to `LastPage`, lie between two such numbers.

*Elimination order.* The code keeps a stack of versions of the adaptive order and gives none back in so many
words: `down` pushes, `up` pops, a level that is fixed by now pushes nothing, and the memo form forces a filed prefix on top of an order
that is already part way down. `OrderInv` says that the versions are as many as the levels entered that had a choice
(`Counted`), that undoing them one by one gives the first weights back (`WeightsKept`), that path and free variables never overlap
(`Bounded`), that the anchor of a correlated search comes before its search variable on every path (`Anchored`), and that every
prefix filed may be forced again (`GoodPrefix`). *Assumption:* `SearchesAssumption`, that a correlated search names one search
variable and another for its anchor and that both stand in the pattern: `pattern_extract.rs` 441 to 490
declines every other. The proof holds for any cursors: it does not look at tries or arrays.

*Join.* `JoinIsExact`: where every cursor answers exactly at every step (`[]NavigationIsExact`, with `Sought` all the numbers), the rows of a finished
search are the join, with as many of each as there are edges. `RowsAreTheJoin` looks at the end alone; `JoinInv` is an account
kept at every step. The variables bound with their values, and those of a prefix still to be forced with theirs, name a point in the
search, and a choice of one standing edge for each triple that fits the pattern has been come past at that point (`IsPast`) or has not. `RowInv`
says that the rows are those of the choices come past but for the ones a filed prefix leads to, that the latter are come past, each by way of
one prefix, and that after a stop they are rows of some choices that fit, as many as the limit. That the account is kept
needs where everything stands: each cursor has fixed its constants and then, level by level, what the values bound say of its triple, and cut back to any
level it is what it was there (`CursorInv`, `Layered`), so a variable at two positions of a triple goes down twice and comes up twice; values, phase and
filed prefixes go with the order (`ValuesInv`, `TableInv`, `StopInv`), whose path has each free variable once and then goes along the
plan's sequence (`PathInv`), so that a full one names every variable of the pattern. A leap then finds the least value
not below the last that all cursors of the variable have, or none (`LeapfrogFinds`: each answer agrees with one more or moves on, and the turn
furthest on at which two solutions of the loop would differ cannot exist), so no choice lies between one candidate and the next; and with nothing free the product of the
edges lists is matched one to one with the choices that have these values (`PicksMatch`, `EdgesMatch`), names that stand for
several entries of a mirrored index counted as often. *Hypotheses:* `NavigationIsExact`, which stays model-checked, and
`SearchesAssumption`, which also says that an order pinned for a vector search is pinned at a variable of the pattern.

*Vector search.* *Heap:* what is refused or given up is no nearer than the k held, and every offer carries
an integer distance. *Verdict:* being marked implies being late, through arming and restarting. *Types:* a slot, a
table or a visit is there when a turn looks it up only because of where the loops stand (`LoopsStand`), and the first result of
each id, of which a selection makes an offer, is one only because results are numbered without gaps.
*Answer:* `AnswerIsNearest` looks at the end alone; `NearestInv` says what each arm knows on the way, while the budget has not run out.
A walk is in order and everything still ahead of it is no nearer than what is behind (`Walking`). In `post`, `partition` and `pre` every
unit of the slot is in the sink or ahead (`Sink`), so a heap that is full when the walk is cut, or when nothing is left, holds the
nearest units (`IsReady`), and draining it lists them in order. In `interleave` a row of a visit left behind is found, or beaten by k
results that are strictly nearer (`IsCovered`); in `memo` a row of a table left behind may also be at the distance of the k-th, and
then no row of its node was found (`IsClosed`), which is what lets that arm stop at `>=` without splitting the rows of a binding. Both rest on the
threshold's entries standing for different results of the current anchor (`HeapStands`), so that k entries are k
rows, or k bindings. The selection then offers each result once, and what it left out is beaten (`IsGathered`). *Hypotheses:*
`SourcesAreExact`, that each list is nearest first and names a node once, that a stream delivers all that is ranked, and that slack is
used where no distance is negative; and `NoStaleVisit`, that no anchor without a vector is visited twice in a row over a stream.
The code keeps neither by itself: an HNSW cursor need not reach every row nor emit in order, slack below zero tightens the cut, and
a repeated visit is `stale_visit` (section 5). The instances of `search` satisfy both (`InstancesAreExact`), those of `stale_visit` only the first.

Each strengthening was checked with TLC before it was proved, but for `JoinInv`: TLC would have to go through the sets of choices
at every state. It checks what follows from it in the run `join`.

Only model-checked, and why:
- `NavigationIsExact`: what a cursor answers rests on rank and select over words and on sorting by
  `SortSeq`, defined by recursion on the data. The induction theorems of the library take an operator as a parameter, which no installed prover instantiates; the sets of numbers
  that replace them above (well-foundedness of `<`) do not reach recursive definitions over sequences.
- The properties of `Queries` and `Subqueries`: evaluation of patterns and expressions is recursive, in modules with
  RECURSIVE operators, which the proof system does not accept.
- `Answered`: liveness under fairness.

## 5. Where code and documentation disagree, and histories the properties leave out

`static_empty` is a finding of `PROJECT.json`: a variable of an optional part `(..)?` gets the type of a list,
so a comparison of its property is declared unsatisfiable and the query is not run, though it has rows.
`stale_visit` is another: `retarget` (`algorithm.rs:432`) notes an anchor without a vector as the current one before it reports
failure, so the next visit of that anchor goes on over the stream of the anchor before, and its rows come back at
distances to another node. `VeoOverride::pin_at_after` allows such visits: any variable may come between the anchor and the search
variable. The jobs of `search` have none.

The other disagreements below were met while modelling; those marked (TLC) had a run of their own whose counterexample is
described. Where a property of section 3 would meet one, it names the history as a premise, or the instance stays clear of it.

**Store and connection**
- `Pager::create` opens `<path>.tmp` with `create_new` (`pager.rs:117`) and nothing removes one that is there: after a save that
  failed or was interrupted every later save of that database fails with `AlreadyExists`. `io.rs:22` speaks of a fall back to a write that is
  not atomic, which the code does not have. `stale`.
- After opening a file of an older version `upgrade_file` (`lazy.rs:879`) appends pages through a pager of its own while the session's pager
  keeps the old header: the next `save_catalog` allocates over these pages, and its header makes the file an old one again; a crash
  before that header leaves roots that point at overwritten pages.
- A file without label or adjacency roots is read by scanning the first time; once upgraded it opens with empty label lists and adjacency
  (`lazy.rs:740`). `Legacy` files have both roots.
- For a label that only undirected edges carry `directed_edges_with_label` is `None` in the memory store and an empty list in the others.
- (TLC) `save` does not clear the overlay (`lazy.rs:1304`), though `graph_access.rs:258` and `overlay.rs:69` say "since
  the store was opened or last saved": insert, save, fail a statement, and the session no longer has what the file has.
- (TLC) An undirected self-loop is filed once in the overlay and twice in a saved CSR (`io.rs:169`): a traversal
  gives one row before reopening and two after.
- (TLC) The delta of a secondary index notices a cleared overlay only while the new log is shorter than what it
  had absorbed (`lazy.rs:1176`): insert, look up, roll back, insert one node, look up, and the second node is never filed. `lagging`.
- (TLC) An index created after nodes were written is built from the merged view beside a delta that holds or shadows some of
  the same nodes (`secondary_index.rs:463`): duplicates, or a node missing. `midSession`.
- (TLC) A failing statement returns before the connection's triple index is looked at (`connection.rs:440`), whose delta
  then serves discarded edges. `unnoticed`.
- (TLC) A changed label of an overlay edge that the index already holds is not seen as a relabelling (`lazy.rs:1809`). `relabelled`.

**Catalog and pager**
- (TLC) A free-list link that is 8 modulo 256 makes a freed page look like a catalog page (`pager.rs:365`): with six
  graph pages, nine pages and six saves the refinement of `CatalogCell` fails after a crash. The run stays below page 8.
- After a `save_catalog` that failed, a retry frees the same chain again and can hand out a page twice (`lazy.rs:727`, `pager.rs:323`).
- A rollback does not mark `DEFAULT` dirty, so a schema inferred before it outlives the data (`parted`); DDL
  writes a `DEFAULT` that describes the unsaved overlay, stale at reopening; DDL after a save goes to the unlinked file.
- `Connection::show_graph_type` and `validate_graph_type` do not refresh `DEFAULT`, as `catalog.rs:83` says they do and `bin/frogql.rs:1710` does.

**Triejoin and pushdown**
- (TLC) A WHERE of an OPTIONAL MATCH answered row by row loses a predicate that was not pushed into a
  descriptor: decomposition goes through a filter without keeping it (`pattern_extract.rs:1113`). The same in a Join whose operand is a filter, and in EXISTS bodies.
- (TLC) The loop of `run_match_chain` ends when the rows of a clause reach the limit (`engine.rs:1566`): the clauses after it are
  neither joined nor allowed to reject a row.
- The estimate of a merged cursor takes it that both sides say "nothing fixed yet" together, as "a property of the pattern" (`iterator.rs:702`); over an
  empty compact index the built side skips the constants (`iterator.rs:440`) and says so when the added side has them fixed. Only the order suffers.
- `seek(var, Some(val + 1))` of `search_level` overflows at `u32::MAX`, which `collect_candidates` guards.
- A test `x.p IS T` that pushdown moves into a descriptor (`pushdown.rs:408`) is lost by the triejoin: `node_var` (`pattern_extract.rs:1228`) takes
  labels and values from it, never the property types (`FilterKind::NodeProperty` is never constructed). TLC: `RoutesAgree` fails with
  `MATCH (a)-[e]-(b) WHERE b.q IS text`; `queries` has no such statement.
- Of several type tests of one property, or a test and a declared type, only the last is checked (`props.extend`, `pushdown.rs:438`).
- A disjunction or negation of node labels is not checked by the triejoin either;
  with all variables pinned the remaining filters are not evaluated; `fold_indexed_constants` and external pins drop the label filters
  of the pinned variable; an edge variable repeated across triples is overwritten.
- A hash join drops rows with an unbound variable of an optional part; caches of subqueries are keyed by the body while such rows differ in
  what they share with it. Pushdown crosses unions, optional parts and repetitions.
- An undirected self-loop counts differently in `delta.rs:132` and `triple_index.rs:222`; a directed one matched by `-[]-` is returned twice;
  an optional part under a limit may exceed it; pruning of SHORTEST under a filter on a group variable; negated labels on
  elements with several labels; a type test on an interior variable of a selection is dropped; a join with a lone node operand returns fewer paths.

**Ordering, grouping and subqueries**
- Index-ordered routes drop rows whose node lacks the attribute or carries another of the labels, and an OR over indexes with partial coverage
  drops rows with null; the index fold of the sort variable wins over the pin; the label of a sort variable is taken from one arm of a union.
- `compare_sort_keys` calls values of different kinds equal, which is not a total order.
- EXISTS and VALUE with both shared variables and parameters do not have the parameters in scope, VALUE's RETURN and ORDER BY never;
  group variables are collected from the outer query only; aggregates inside CASE, calls, records and comprehensions are null;
  a VALUE body ordered by an element-wise aggregate reaches an `unreachable!`.
- `i64::MIN / -1` panics in division, while remainder is checked and sum wraps.

**Vector search**
- Slack with negative distances tightens the cut: `dist > tau * (1 + eps)` for tau below zero. The fingerprint of the vector sidecar is
  counts only (`lazy.rs:553`). The documentation says vector search is off after any write, the code only after nodes were
  staged or deleted (`lazy.rs:1850`).
- With more identical vectors than the degree cap, HNSW leaves rows unreachable (TLC: six equal points, m = 2), and the memo arm stops at k though
  an HNSW stream is only approximately sorted. Both are documented limitations; `Streams` are given, and `AnswerIsNearest` is checked on graphs where the walk is exact.

**Typing**
- A stored null infers a property of the empty type, so a node type whose carriers all store null is refined away and `MATCH (n:X)` is declared
  empty; `x.p is int` on a stored null is false as an expression and true in a descriptor; `DEFAULT` fails its own validation when a property is
  optional (`validate.rs`); a leading OPTIONAL with an unsatisfiable path declares the query empty.

## 6. Not modelled

Inside modelled components: element names and byte accounting of the overlay; the text of a catalog; the bytes of records and index entries and lists as values; key order and range
bounds of the secondary indexes and range folding in the triejoin; the estimates behind the first weights of an order; the random layers of HNSW,
floating-point rounding and the fallbacks between arms; functions on text, lists and paths, casts, unions of statements, EXPLAIN; the
typing of RETURN, aggregates, arithmetic and calls, and the validation of a graph against a type;
the optimizer's EXISTS and alias rewrites; sidecar files and their identity stamps; switches that disable a delta.

Whole components: the *parser* (no state; its trees are the input of the models), the *importers* and the mutations of the *in-memory store* (readers of CSV and JSON, and
a second backend of the same trait), the *front ends* (shells over the same calls; three of
them repeat `run_dm`'s handling of the triple index).

Worth doing next: the connection with both deltas and the schema in one module, where one rollback meets all
three; sidecar identity against save and reopen; the merge of ordered lookups over base and delta.

## 7. Running

    tlc -config SessionTopology.cfg MCSessionStore.tla # each run: see "runs" in PROJECT.json
    tlapm SessionStore_proofs.tla                      # a module of theorems; each is checked on its own
