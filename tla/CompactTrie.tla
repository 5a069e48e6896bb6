----------------------------- MODULE CompactTrie -----------------------------
(***************************************************************************)
(* The compact triple index (runtime/ltj/compact.rs): six tries, one for   *)
(* each order of subject, predicate and object, each a bit vector for the  *)
(* shape and a packed sequence of symbols, both in level order.            *)
(*                                                                         *)
(* A node is named by its handle, a zero of the bit vector; the symbols of *)
(* its children stand in the sequence from that very position on.          *)
(*                                                                         *)
(* Positions count from zero, as in the code.  The widths are parameters:  *)
(* the code has words and cells of 64 bits and a sample every 512 zeros.   *)
(***************************************************************************)
EXTENDS Integers, FiniteSets, FiniteSetsExt, Sequences, SequencesExt

CONSTANTS
  Word,     \* bits of a word of the bit vector (SUCC_W)
  Cell,     \* bits of a word of the packed symbols
  Sample    \* zeros from one sample of select0 to the next

ASSUME WidthsAssumption == Word \in Nat \ {0} /\ Cell \in Nat \ {0} /\ Sample \in Nat \ {0}

Super == Word * Word
AtMost(a, b) == IF a < b THEN a ELSE b
AtLeast(a, b) == IF a > b THEN a ELSE b
CeilDiv(a, b) == (a + b - 1) \div b

(***************************************************************************)
(* SelectBitVec.  A word is the set of its zeros.                          *)
(***************************************************************************)
\* One backward pass: the first zero of each word from the second on, or the length.
FirstZeros(words, n, len) ==
  LET first[i \in 1..n] == IF i = n THEN len
                           ELSE IF words[i] # {} THEN i * Word + Min(words[i]) ELSE first[i + 1]
  IN  first

\* How far past its word the next zero stands; what does not fit is left to the super block.
Basic(first, n, b) == IF b + 1 < n THEN AtMost(first[b + 1] - ((b + 1) * Word - 1), Super) ELSE 0

\* The super blocks hold where the next zero stands.
BuildSuccTables(words, n, len) ==
  LET first == FirstZeros(words, n, len)
  IN  [basic |-> [b \in 0..(AtLeast(n, 1) - 1) |-> Basic(first, n, b)],
       super |-> [m \in 0..(AtLeast(CeilDiv(n, Word), 1) - 1) |->
                    IF (m + 1) * Word < n THEN first[(m + 1) * Word] ELSE 0]]

FromZeroPositions(len, zeros) ==
  LET n == CeilDiv(len, Word)
      words == [i \in 0..(n - 1) |-> {z % Word : z \in {x \in ToSet(zeros) : x \div Word = i}}]
      samples == [k \in 0..(CeilDiv(Len(zeros), Sample) - 1) |-> zeros[k * Sample + 1]]
  IN  [words |-> words, n |-> n, len |-> len, samples |-> samples] @@ BuildSuccTables(words, n, len)

NthOf(S, k) == CHOOSE x \in S : Cardinality({y \in S : y <= x}) = k

\* The zero that stands so many further, from those left of word i on.
InWord(scan, b, zeros, n) ==
  IF n <= Cardinality(zeros) THEN b * Word + NthOf(zeros, n) ELSE scan[b + 1, n - Cardinality(zeros)]
ScanZeros(bv, i, zeros, remaining) ==
  LET scan[b \in Nat, n \in Nat] == InWord(scan, b, IF b = i THEN zeros ELSE bv.words[b], n)
  IN  scan[i, remaining]

\* The k-th zero, counted from one: from the sample before it, word by word.
Select0(bv, k) ==
  LET s == (k - 1) \div Sample
      pos == bv.samples[s]
      next == pos + 1
      rest == {z \in bv.words[next \div Word] : z >= next % Word}
  IN  IF k = s * Sample + 1 THEN pos
      ELSE ScanZeros(bv, next \div Word, rest, k - (s * Sample + 1))

\* The first zero from i on, or the length: in the word, by its distance, or by the super block.
Succ0(bv, i) ==
  LET b == i \div Word
      here == IF i >= bv.len THEN {} ELSE {z \in bv.words[b] : z >= i % Word}
  IN  IF i >= bv.len THEN bv.len
      ELSE IF here # {} THEN AtMost(b * Word + Min(here), bv.len)
      ELSE IF b + 1 >= bv.n THEN bv.len
      ELSE IF bv.basic[b] < Super THEN AtMost((b + 1) * Word - 1 + bv.basic[b], bv.len)
      ELSE AtMost(bv.super[i \div Super], bv.len)

(***************************************************************************)
(* IntSeq: symbols of as many bits as the largest one has, one after the   *)
(* other over the cells, the last of a cell running on into the next.      *)
(***************************************************************************)
WidthOf(values) ==
  LET most == IF values = <<>> THEN 0 ELSE Max(ToSet(values))
  IN  CHOOSE w \in 1..(most + 1) : most < 2^w /\ (w = 1 \/ most >= 2^(w - 1))

\* What of a symbol at bit off of a cell runs on into the next.
Spill(v, off, width) == IF off + width > Cell THEN v \div 2^(Cell - off) ELSE 0

Pack(values) ==
  LET width == WidthOf(values)
      off(i) == ((i - 1) * width) % Cell
      in(c) == {i \in DOMAIN values : ((i - 1) * width) \div Cell = c}
      low(i) == (values[i] * 2^off(i)) % 2^Cell
      high(i) == Spill(values[i], off(i), width)
      cell(c) == MapThenSumSet(low, in(c)) + MapThenSumSet(high, in(c - 1))
  IN  [width |-> width, len |-> Len(values),
       data |-> [c \in 0..(CeilDiv(Len(values) * width, Cell) - 1) |-> cell(c)]]

Get(seq, i) ==
  LET bit == i * seq.width
      off == bit % Cell
      low == seq.data[bit \div Cell] \div 2^off
      high == IF off + seq.width > Cell THEN seq.data[bit \div Cell + 1] * 2^(Cell - off) ELSE 0
  IN  (low + high) % 2^seq.width

(***************************************************************************)
(* CompactTrie, over sorted rows; rows that are equal make one leaf.       *)
(***************************************************************************)
\* The nodes of a level: the prefixes of the rows, each once.
NodesAt(rows, l) ==
  LET prefix(i) == SubSeq(rows[i], 1, l)
      starts(i) == i = 1 \/ prefix(i) # prefix(i - 1)
      at == SelectSeq([i \in DOMAIN rows |-> i], starts)
  IN  [k \in DOMAIN at |-> prefix(at[k])]

\* A zero first, then one after the last child of each node.
FromSorted(rows) ==
  LET nodes == NodesAt(rows, 1) \o NodesAt(rows, 2) \o NodesAt(rows, 3)
      parent(j) == SubSeq(nodes[j], 1, Len(nodes[j]) - 1)
      lastChild(j) == j = Len(nodes) \/ Len(nodes[j + 1]) # Len(nodes[j]) \/ parent(j + 1) # parent(j)
      zeros == <<0>> \o SelectSeq([j \in DOMAIN nodes |-> j], lastChild)
  IN  [bv |-> FromZeroPositions(Len(nodes) + 1, zeros),
       seq |-> Pack([j \in DOMAIN nodes |-> Last(nodes[j])]),
       leafBase |-> Len(NodesAt(rows, 1)) + Len(NodesAt(rows, 2))]

Root == 0
Children(trie, it) == Succ0(trie.bv, it + 1) - it
NodeHandle(trie, p) == Select0(trie.bv, p + 2)
Sym(trie, p) == Get(trie.seq, p)

Missing == [value |-> -1, at |-> -1]
Halved(least, trie, val, lo, mid, hi) ==
  IF lo >= hi THEN lo
  ELSE IF Sym(trie, mid) < val THEN least[mid + 1, hi]
  ELSE least[lo, mid]
LowerBound(trie, val, beg, end) ==
  LET least[lo \in Nat, hi \in Nat] == Halved(least, trie, val, lo, (lo + hi) \div 2, hi)
  IN  least[beg, end]

\* The least symbol not below val in a block of children.
Seek(trie, val, beg, end) ==
  IF Sym(trie, end) < val THEN Missing
  ELSE LET at == LowerBound(trie, val, beg, end) IN [value |-> Sym(trie, at), at |-> at]

(***************************************************************************)
(* CompactTripleIndex: entries are <<s, p, o, edge>>.                      *)
(***************************************************************************)
Subject == 1
Predicate == 2
Object == 3
Positions == {Subject, Predicate, Object}
Orders == << <<1, 2, 3>>, <<1, 3, 2>>, <<2, 3, 1>>, <<2, 1, 3>>, <<3, 1, 2>>, <<3, 2, 1>> >>
SPO == 0

RowBefore(a, b) ==
  \E i \in DOMAIN a : a[i] < b[i] /\ \A j \in 1..(i - 1) : a[j] = b[j]
SortedRows(rows) == SortSeq(rows, RowBefore)

\* The columns of the rows at hand, from the order they are in to the next.
Rearranged(rows, cur, next) ==
  LET from(i) == CHOOSE c \in 1..3 : cur[c] = next[i]
  IN  SortedRows([r \in DOMAIN rows |-> [i \in 1..3 |-> rows[r][from(i)]]])

WorkOf(raw) ==
  LET work[o \in 0..5] == IF o = 0 THEN [r \in DOMAIN raw |-> SubSeq(raw[r], 1, 3)]
                          ELSE Rearranged(work[o - 1], Orders[o], Orders[o + 1])
  IN  work

\* Edges of one subject, predicate and object share a leaf, and a group of the side table.
OpensGroup(raw, i) == i = 1 \/ SubSeq(raw[i], 1, 3) # SubSeq(raw[i - 1], 1, 3)

FromRaw(unsorted) ==
  LET raw == SortedRows(unsorted)
      work == WorkOf(raw)
      offsets == SelectSeq([i \in DOMAIN raw |-> i], LAMBDA i : OpensGroup(raw, i))
  IN  [tries |-> [o \in 0..5 |-> FromSorted(work[o])], rawLen |-> Len(raw),
       leafOffsets |-> [k \in DOMAIN offsets |-> offsets[k] - 1] \o <<Len(raw)>>,
       leafEids |-> [i \in DOMAIN raw |-> raw[i][4]]]

\* The edges of a leaf, by a descent of the first trie.
EidsFor(index, spo) ==
  LET trie == index.tries[SPO]
      child(it, val) == Seek(trie, val, it, it + Children(trie, it) - 1)
      level[d \in 1..3] ==
        IF d = 1 THEN child(Root, spo[1])
        ELSE IF level[d - 1].value # spo[d - 1] THEN Missing
        ELSE child(NodeHandle(trie, level[d - 1].at), spo[d])
      leaf == level[3].at - trie.leafBase + 1
  IN  IF index.rawLen = 0 \/ level[3].value # spo[3] THEN <<>>
      ELSE SubSeq(index.leafEids, index.leafOffsets[leaf] + 1, index.leafOffsets[leaf + 1])
==============================================================================
