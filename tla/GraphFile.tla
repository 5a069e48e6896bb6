------------------------------ MODULE GraphFile ------------------------------
(***************************************************************************)
(* A graph as a file of pages (store/io.rs): records in cells, two tables  *)
(* of strings, lists in chains of pages; and the three stores that open    *)
(* it: LazyGraphStore, DiskGraphStore and MemoryGraphStore.  Files of      *)
(* older versions have one table of strings, an adjacency list for each    *)
(* node and no index of records: they are scanned, and upgraded in place.  *)
(*                                                                         *)
(* A page is its position among the pages, 0 the header and no page at     *)
(* all; ids of nodes, edges and strings are positions too.  A string is a  *)
(* sequence of bytes.  The code has one page size and entries of several   *)
(* sizes; here what fits is given for each use of a page.                  *)
(***************************************************************************)
EXTENDS Integers, Sequences, FiniteSets, SequencesExt

CONSTANTS
  EntriesPerPage,   \* of a list
  CellRoom,         \* bytes of a page for records
  TextRoom,         \* bytes of a page of strings
  OverflowRoom      \* bytes of a string in an overflow page

AtMost(n, m) == IF n <= m THEN n ELSE m
Each(s, f(_)) == <<>> \o [i \in DOMAIN s |-> f(s[i])]
EachOf(s, f(_)) == FlattenSeq(Each(s, f))
UpTo(n) == [i \in 1..n |-> i]

(***************************************************************************)
(* Lists (disk_index.rs): written from the last page to the first, so that *)
(* each page knows the next.  Chains whose pages are taken beforehand are  *)
(* written forward.                                                        *)
(***************************************************************************)
ListPage(entries, next) == [type |-> "list", entries |-> entries, next |-> next]
OverflowPage(bytes, next) == [type |-> "overflow", entries |-> bytes, next |-> next]

Chunks(s, size) ==
  IF s = <<>> THEN << <<>> >>
  ELSE [k \in 1..((Len(s) + size - 1) \div size) |-> SubSeq(s, (k - 1) * size + 1, AtMost(k * size, Len(s)))]

WriteList(pages, s) ==
  LET chunks == Chunks(s, EntriesPerPage)
      n == Len(chunks)
      page(i) == ListPage(chunks[n + 1 - i], IF i = 1 THEN 0 ELSE Len(pages) + i - 1)
  IN  [pages |-> pages \o Each(UpTo(n), page), root |-> Len(pages) + n]
WriteForward(pages, s, size, Page(_, _)) ==
  LET chunks == Chunks(s, size)
      page(i) == Page(chunks[i], IF i = Len(chunks) THEN 0 ELSE Len(pages) + i + 1)
  IN  [pages |-> pages \o Each(UpTo(Len(chunks)), page), root |-> Len(pages) + 1]

WriteLists(pages, lists) ==
  LET write(done, s) == LET w == WriteList(done.pages, s)
                        IN  [pages |-> w.pages, roots |-> Append(done.roots, w.root)]
  IN  FoldLeft(write, [pages |-> pages, roots |-> <<>>], lists)
\* A list for each key, and the list of keys and roots.
WriteIndex(pages, keys, lists) ==
  LET w == WriteLists(pages, lists)
  IN  WriteList(w.pages, [k \in DOMAIN keys |-> <<keys[k], w.roots[k]>>])
WriteListOfLists(pages, lists) == LET w == WriteLists(pages, lists) IN WriteList(w.pages, w.roots)

RECURSIVE ReadList(_, _)
ReadList(pages, at) == IF at = 0 THEN <<>> ELSE pages[at].entries \o ReadList(pages, pages[at].next)

(***************************************************************************)
(* The tables of strings (string_table.rs), "strings" and "names".  What   *)
(* is too long for a page keeps its beginning with the entry and the rest  *)
(* in overflow pages.                                                      *)
(***************************************************************************)
LengthSize == 2
OverflowHeader == 10
TablePage(type) == [type |-> type, entries |-> <<>>]
TextEntry(text, total, first) == [inline |-> text, total |-> total, first |-> first]

AllocateTextPage(f, t) ==
  [f EXCEPT !.pages = Append(@, TablePage(t)), ![t].at = Append(@, Len(f.pages) + 1), ![t].left = TextRoom]
WithTextRoom(f, t, size) == IF size <= f[t].left THEN f ELSE AllocateTextPage(f, t)

AddText(f, t, text, entry, size) ==
  [f EXCEPT !.pages[Last(f[t].at)].entries = Append(@, entry),
            ![t].texts = Append(@, text), ![t].left = @ - size]
InternInline(f, t, text) ==
  LET size == LengthSize + Len(text)
  IN  AddText(WithTextRoom(f, t, size), t, text, TextEntry(text, Len(text), 0), size)
WriteOverflow(pages, rest) ==
  IF rest = <<>> THEN [pages |-> pages, root |-> 0] ELSE WriteForward(pages, rest, OverflowRoom, OverflowPage)
\* n bytes with the entry.
Overflow(f, t, text, n) ==
  LET chain == WriteOverflow(f.pages, SubSeq(text, n + 1, Len(text)))
  IN  AddText([f EXCEPT !.pages = chain.pages], t, text,
              TextEntry(SubSeq(text, 1, n), Len(text), chain.root), OverflowHeader + n)
InternOverflow(f, t, text) ==
  LET g == WithTextRoom(f, t, OverflowHeader)
  IN  Overflow(g, t, text, AtMost(g[t].left - OverflowHeader, Len(text)))
Intern(f, t, text) ==
  IF Contains(f[t].texts, text) THEN f
  ELSE IF LengthSize + Len(text) <= TextRoom THEN InternInline(f, t, text)
  ELSE InternOverflow(f, t, text)
InternAll(f, t, texts) == FoldLeft(LAMBDA g, text : Intern(g, t, text), f, texts)

Ids(texts) == [text \in ToSet(texts) |-> CHOOSE i \in DOMAIN texts : texts[i] = text]

Overflowing(pages, entry) == entry.inline \o ReadList(pages, entry.first)
LoadTable(pages, at) ==
  LET text(entry) == SubSeq(Overflowing(pages, entry), 1, entry.total)
      page(p) == Each(pages[p].entries, text)
  IN  EachOf(at, page)

(***************************************************************************)
(* Records (record.rs): a name, labels and properties, all by the ids of   *)
(* their strings; of an edge its ends as well.  A property that is null is *)
(* left out.                                                               *)
(***************************************************************************)
RECURSIVE TextsOf(_), Renamed(_, _), ValueSize(_)
TextsOf(value) ==
  CASE value.kind = "text" -> <<value.text>>
    [] value.kind = "record" -> EachOf(value.fields, LAMBDA field : <<field[1]>> \o TextsOf(field[2]))
    [] OTHER -> <<>>
Renamed(value, names) ==
  CASE value.kind = "text" -> [value EXCEPT !.text = names[@]]
    [] value.kind = "record" ->
         [value EXCEPT !.fields = Each(@, LAMBDA field : <<names[field[1]], Renamed(field[2], names)>>)]
    [] OTHER -> value
PropsSize(props) == FoldLeft(LAMBDA sum, p : sum + 4 + ValueSize(p[2]), 0, props)
ValueSize(value) ==
  CASE value.kind = "text" -> 5
    [] value.kind = "record" -> 5 + PropsSize(value.fields)
    [] value.kind = "bool" -> 2
    [] value.kind = "nothing" -> 1
    [] OTHER -> 9
EndsSize == 9
CellSize(cell) ==
  8 + 4 * Len(cell.is.labels) + PropsSize(cell.is.props) + (IF cell.ends = <<>> THEN 0 ELSE EndsSize)

RenamedProps(props, names) == Each(props, LAMBDA p : <<names[p[1]], Renamed(p[2], names)>>)
\* What a record says, its properties in whatever order.
Decoded(cell, names, strings) ==
  [name |-> names[cell.is.name], labels |-> Each(cell.is.labels, LAMBDA l : strings[l]),
   props |-> ToSet(RenamedProps(cell.is.props, strings))]

(***************************************************************************)
(* Cells (store_cell, Page::insert_cell): into the last page of their      *)
(* type, or a new one.  A cell larger than a page fails the save.          *)
(***************************************************************************)
CellPage(type) == [type |-> type, cells |-> <<>>, left |-> CellRoom]
PointerSize == 2

PutCell(f, kind, p, cell, size) ==
  [f EXCEPT !.pages[p].cells = Append(@, cell), !.pages[p].left = @ - size,
            ![kind].locs = Append(@, <<p, Len(f.pages[p].cells) + 1>>)]
NewCellPage(f, kind) ==
  [f EXCEPT !.pages = Append(@, CellPage(kind)), ![kind].at = Append(@, Len(f.pages) + 1)]
\* Mutant: into the first page with room.
StoreCellFirst(f, kind, cell) ==
  LET size == PointerSize + CellSize(cell)
      roomy == SelectSeq(f[kind].at, LAMBDA p : f.pages[p].left >= size)
  IN  IF size > CellRoom THEN [f EXCEPT !.failed = TRUE]
      ELSE IF roomy # <<>> THEN PutCell(f, kind, roomy[1], cell, size)
      ELSE PutCell(NewCellPage(f, kind), kind, Len(f.pages) + 1, cell, size)
StoreCell(f, kind, cell) ==
  LET size == PointerSize + CellSize(cell)
      at == f[kind].at
  IN  IF size > CellRoom THEN [f EXCEPT !.failed = TRUE]
      ELSE IF at # <<>> /\ f.pages[Last(at)].left >= size THEN PutCell(f, kind, Last(at), cell, size)
      ELSE PutCell(NewCellPage(f, kind), kind, Len(f.pages) + 1, cell, size)

\* x: name, labels, props (pairs of a string and a value); ends: source, target, whether directed.
Stored(x) == [x EXCEPT !.props = SelectSeq(@, LAMBDA p : p[2].kind # "nothing")]
Encoded(x, names, ids) ==
  [name |-> names[x.name], labels |-> Each(x.labels, LAMBDA l : ids[l]), props |-> RenamedProps(x.props, ids)]
WithTexts(f, x) ==
  InternAll(Intern(f, f.naming, x.name), "strings",
            x.labels \o EachOf(x.props, LAMBDA p : <<p[1]>> \o TextsOf(p[2])))
WriteRecord(f, kind, x, ends) ==
  StoreCell(f, kind, [is |-> Encoded(x, Ids(f[f.naming].texts), Ids(f.strings.texts)), ends |-> ends])
WriteStored(f, kind, x, ends) == WriteRecord(WithTexts(f, x), kind, x, ends)
WriteElement(f, kind, x, ends) == WriteStored(f, kind, Stored(x), ends)
Ends(e) == <<e.src, e.tgt, e.directed>>

(***************************************************************************)
(* Adjacency: a list of edges for each node and direction, as offsets into *)
(* one list (CSR).  An undirected edge is listed under both its ends.      *)
(***************************************************************************)
PairsOf(topology) ==
  LET ids(directed) == SelectSeq(UpTo(Len(topology)), LAMBDA e : topology[e][3] = directed)
  IN  [out |-> Each(ids(TRUE), LAMBDA e : <<topology[e][1], e>>),
       in |-> Each(ids(TRUE), LAMBDA e : <<topology[e][2], e>>),
       und |-> EachOf(ids(FALSE), LAMBDA e : << <<topology[e][1], e>>, <<topology[e][2], e>> >>)]

\* Counted, summed up, and each pair placed where the cursor of its node stands.
BuildCsr(count, pairs) ==
  LET offsets == [n \in 1..(count + 1) |-> Len(SelectSeq(pairs, LAMBDA p : p[1] < n))]
      place(done, p) == [flat |-> [done.flat EXCEPT ![done.cursor[p[1]] + 1] = p[2]],
                         cursor |-> [done.cursor EXCEPT ![p[1]] = @ + 1]]
  IN  [offsets |-> offsets,
       flat |-> FoldLeft(place, [flat |-> Each(pairs, LAMBDA p : 0), cursor |-> offsets], pairs).flat]
EmptyCsr(count) == BuildCsr(count, <<>>)
Slice(csr, n) == SubSeq(csr.flat, csr.offsets[n] + 1, csr.offsets[n + 1])
CsrsOf(count, pairs) ==
  [out |-> BuildCsr(count, pairs.out), in |-> BuildCsr(count, pairs.in), und |-> BuildCsr(count, pairs.und)]

(***************************************************************************)
(* Writing (save_graph).  g: nodes and edges, in the order of their ids.   *)
(***************************************************************************)
NoTable == [texts |-> <<>>, at |-> <<>>, left |-> 0]
NoCells == [at |-> <<>>, locs |-> <<>>]
NoHeader(g) ==
  [nodes |-> Len(g.nodes), edges |-> Len(g.edges), labels |-> 0, edgeLabels |-> 0, adjacency |-> 0,
   csr |-> 0, strings |-> 0, names |-> 0, locs |-> 0, topo |-> 0]
NoFile(g, naming) ==
  [pages |-> <<>>, header |-> NoHeader(g), failed |-> FALSE, naming |-> naming,
   strings |-> NoTable, names |-> NoTable, node |-> NoCells, edge |-> NoCells]
WithRoot(f, field, written) == [f EXCEPT !.pages = written.pages, !.header[field] = written.root]

Records(f, g) ==
  LET node(h, x) == WriteElement(h, "node", x, <<>>)
      edge(h, e) == WriteElement(h, "edge", e.is, Ends(e))
  IN  FoldLeft(edge, FoldLeft(node, f, g.nodes), g.edges)

\* For each label, in whatever order, the ids of the elements that carry it.
WriteLabelIndex(pages, ids, elements) ==
  LET labels == SetToSeq(UNION {ToSet(elements[i].labels) : i \in DOMAIN elements})
      carrying(l) == SelectSeq(UpTo(Len(elements)), LAMBDA i : Contains(elements[i].labels, l))
  IN  WriteIndex(pages, Each(labels, LAMBDA l : ids[l]), Each(labels, carrying))
WithLabels(f, field, elements) == WithRoot(f, field, WriteLabelIndex(f.pages, Ids(f.strings.texts), elements))
\* Both kinds of file have the records and the indexes of labels.
WithRecords(f, g) ==
  WithLabels(WithLabels(Records(f, g), "labels", g.nodes), "edgeLabels", Each(g.edges, LAMBDA e : e.is))

ListsInFile(c) == <<c.out.offsets, c.out.flat, c.in.offsets, c.in.flat, c.und.offsets, c.und.flat>>
WithCsr(f, count, pairs) == WithRoot(f, "csr", WriteListOfLists(f.pages, ListsInFile(CsrsOf(count, pairs))))
WithStrings(f, at) == WithRoot(f, "strings", WriteList(f.pages, at))
WithNames(f) == WithRoot(f, "names", WriteList(f.pages, f.names.at))
WithLocs(f, locs) == WithRoot(f, "locs", WriteList(f.pages, locs))
WithTopo(f, entries) == WithRoot(f, "topo", WriteForward(f.pages, entries, EntriesPerPage, ListPage))

TopologyOf(g) == Each(g.edges, Ends)
WithLocations(f, g) ==
  WithTopo(WithLocs(f, f.node.locs), [e \in DOMAIN g.edges |-> <<f.edge.locs[e], Ends(g.edges[e])>>])
WithTables(f) == WithNames(WithStrings(f, f.strings.at))
SaveGraph(g) ==
  LET file == AllocateTextPage(AllocateTextPage(NoFile(g, "names"), "strings"), "names")
  IN  WithLocations(WithTables(WithCsr(WithRecords(file, g), Len(g.nodes), PairsOf(TopologyOf(g)))), g)

\* What older versions wrote, as the code reads it (write_adjacency_index).
AdjacencyLists(count, pairs) ==
  LET at(n, list, kind) == Each(SelectSeq(list, LAMBDA p : p[1] = n), LAMBDA p : <<p[2], kind>>)
  IN  [n \in 1..count |-> at(n, pairs.out, "out") \o at(n, pairs.in, "in") \o at(n, pairs.und, "und")]
WithAdjacency(f, count, lists) == WithRoot(f, "adjacency", WriteIndex(f.pages, UpTo(count), lists))
Legacy(g) ==
  WithAdjacency(WithRecords(AllocateTextPage(NoFile(g, "strings"), "strings"), g),
                Len(g.nodes), AdjacencyLists(Len(g.nodes), PairsOf(TopologyOf(g))))

(***************************************************************************)
(* Opening.                                                                *)
(***************************************************************************)
PagesOf(file, type) == SelectSeq(UpTo(Len(file.pages)), LAMBDA p : file.pages[p].type = type)
StringPages(file) ==
  IF file.header.strings # 0 THEN ReadList(file.pages, file.header.strings) ELSE PagesOf(file, "strings")
Strings(file) == LoadTable(file.pages, StringPages(file))
Names(file) ==
  IF file.header.names = 0 THEN Strings(file)
  ELSE LoadTable(file.pages, ReadList(file.pages, file.header.names))

CellAt(file, loc) == file.pages[loc[1]].cells[loc[2]]
Scan(file, kind) ==
  EachOf(PagesOf(file, kind), LAMBDA p : Each(UpTo(Len(file.pages[p].cells)), LAMBDA i : <<p, i>>))

HasFastIndex(file) == file.header.strings # 0 /\ file.header.locs # 0 /\ file.header.topo # 0
NodeLocs(file) ==
  IF HasFastIndex(file) THEN ReadList(file.pages, file.header.locs) ELSE Scan(file, "node")
EdgeTopo(file) ==
  IF HasFastIndex(file) THEN ReadList(file.pages, file.header.topo)
  ELSE Each(Scan(file, "edge"), LAMBDA loc : <<loc, CellAt(file, loc).ends>>)

\* Both stores write the missing indexes behind the pages a legacy file has.
Upgraded(file) == WithTopo(WithLocs(WithStrings(file, StringPages(file)), NodeLocs(file)), EdgeTopo(file))

\* What a store answers of nodes, edges and labels, and the lists of edges at each node.
Served(file, nodeLocs, topo, nodesWith, edgesWith, lists) ==
  LET names == Names(file)
      strings == Strings(file)
      record(loc) == Decoded(CellAt(file, loc), names, strings)
      with(l, directed) == SelectSeq(edgesWith[l], LAMBDA e : topo[e][2][3] = directed)
  IN  [nodes |-> Each(nodeLocs, record),
       edges |-> Each(topo, LAMBDA entry : <<record(entry[1]), entry[2]>>),
       nodesWith |-> nodesWith, directedWith |-> [l \in DOMAIN edgesWith |-> with(l, TRUE)],
       undirectedWith |-> [l \in DOMAIN edgesWith |-> with(l, FALSE)], lists |-> lists]

\* A label by its entry in the index; a label that is not there has no elements.
LookUp(file, root, labels) ==
  LET dir == ReadList(file.pages, root)
      entries(l) == SelectSeq(dir, LAMBDA entry : Strings(file)[entry[1]] = l)
  IN  [l \in labels |-> IF entries(l) = <<>> THEN <<>> ELSE ReadList(file.pages, entries(l)[1][2])]
\* By the records themselves.
Carrying(file, locs, labels) ==
  LET strings == Strings(file)
      carries(i, l) == Contains(Each(CellAt(file, locs[i]).is.labels, LAMBDA x : strings[x]), l)
  IN  [l \in labels |-> SelectSeq(UpTo(Len(locs)), LAMBDA i : carries(i, l))]
EdgeLocs(file) == Each(EdgeTopo(file), LAMBDA entry : entry[1])
Topology(file) == Each(EdgeTopo(file), LAMBDA entry : entry[2])

ListsOf(count, csrs) ==
  [n \in 1..count |-> [out |-> Slice(csrs.out, n), in |-> Slice(csrs.in, n), und |-> Slice(csrs.und, n)]]

\* load_from_indexes: the CSR, or the pairs of the older lists, or nothing.
ReadCsrs(file) ==
  LET read == Each(ReadList(file.pages, file.header.csr), LAMBDA root : ReadList(file.pages, root))
      csr(k) == [offsets |-> read[k], flat |-> read[k + 1]]
  IN  [out |-> csr(1), in |-> csr(3), und |-> csr(5)]
ReadPairs(file) ==
  LET dir == ReadList(file.pages, file.header.adjacency)
      at(kind) == EachOf(dir, LAMBDA entry :
                    Each(SelectSeq(ReadList(file.pages, entry[2]), LAMBDA t : t[2] = kind),
                         LAMBDA t : <<entry[1], t[1]>>))
  IN  [out |-> at("out"), in |-> at("in"), und |-> at("und")]
LazyCsrs(file, count) ==
  CASE ~HasFastIndex(file) -> CsrsOf(count, PairsOf(Topology(file)))
    [] HasFastIndex(file) /\ file.header.csr # 0 -> ReadCsrs(file)
    [] HasFastIndex(file) /\ file.header.csr = 0 /\ file.header.adjacency # 0 -> CsrsOf(count, ReadPairs(file))
    [] OTHER -> [out |-> EmptyCsr(count), in |-> EmptyCsr(count), und |-> EmptyCsr(count)]

LazyStore(file, labels) ==
  LET locs == NodeLocs(file)
      nodesWith == IF HasFastIndex(file) THEN LookUp(file, file.header.labels, labels)
                   ELSE Carrying(file, locs, labels)
      edgesWith == IF HasFastIndex(file) THEN LookUp(file, file.header.edgeLabels, labels)
                   ELSE Carrying(file, EdgeLocs(file), labels)
  IN  Served(file, locs, EdgeTopo(file), nodesWith, edgesWith, ListsOf(Len(locs), LazyCsrs(file, Len(locs))))

\* Adjacency from the topology, labels from the index whatever the file.
DiskStore(file, labels) ==
  LET count == file.header.nodes
  IN  Served(file, NodeLocs(file), EdgeTopo(file), LookUp(file, file.header.labels, labels),
             LookUp(file, file.header.edgeLabels, labels),
             ListsOf(count, CsrsOf(count, PairsOf(Topology(file)))))

\* load_graph: everything from a scan of the records, whatever indexes there are.
MemoryStore(file, labels) ==
  LET locs == Scan(file, "node")
      edges == Scan(file, "edge")
      topo == Each(edges, LAMBDA loc : <<loc, CellAt(file, loc).ends>>)
      pairs == PairsOf(Each(topo, LAMBDA entry : entry[2]))
      at(n, list) == Each(SelectSeq(list, LAMBDA p : p[1] = n), LAMBDA p : p[2])
  IN  Served(file, locs, topo, Carrying(file, locs, labels), Carrying(file, edges, labels),
             [n \in DOMAIN locs |-> [out |-> at(n, pairs.out), in |-> at(n, pairs.in), und |-> at(n, pairs.und)]])

Stores(file, labels) == {LazyStore(file, labels), DiskStore(file, labels), MemoryStore(file, labels)}
==============================================================================
