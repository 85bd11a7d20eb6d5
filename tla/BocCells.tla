------------------------------ MODULE BocCells ------------------------------
(***************************************************************************)
(* The cells of an event message, flattened for the circuit                *)
(* (dex-halo2-circuit/src/boc_helper.rs): the traversal of                 *)
(* serialize_cells_tree_root_first, the bytes of a cell that               *)
(* build_cell_repr_data hands to SHA-256, and the helpers that read them   *)
(* back.                                                                   *)
(*                                                                         *)
(* A bag of cells is a table in which a cell refers to later ones, cell 1  *)
(* being the root.  A hash is the structure it is the hash of, so that two *)
(* equal cells have one hash.  A byte is a triple: its kind, what it is of *)
(* and a number.  Level masks are sets of levels 1 to 3.  Big cells, which *)
(* have no descriptors and no references, are left out.                    *)
(***************************************************************************)
EXTENDS Naturals, FiniteSetsExt, SequencesExt

CONSTANTS
  NumCells,   \* cells in a bag
  MaxRefs,    \* references of a cell, three bits of its first descriptor
  Payloads,   \* what a cell is besides its references: [type, bits, mask]
  DepthSize,  \* DEPTH_SIZE
  HashSize    \* SHA256_SIZE

ASSUME CellsAssumption ==
  /\ NumCells \in Nat \ {0} /\ MaxRefs \in 1 .. 7
  /\ DepthSize \in Nat \ {0} /\ HashSize \in Nat \ {0}
  /\ Payloads \subseteq [type : {"ordinary", "pruned", "merkle"}, bits : 0 .. 1023, mask : SUBSET (1 .. 3)]

Cells == 1 .. NumCells

VARIABLES
  bag,      \* cell -> its payload and its references
  queue,    \* cells to visit
  visited,  \* hashes that have been queued
  result    \* the entries so far: a cell, its refs_count and child offsets

vars == <<bag, queue, visited, result>>

-----------------------------------------------------------------------------
\* Cells, as tvm_types keeps them.

Refs(c) == bag[c].refs

ReprHash[c \in Cells] == <<bag[c].payload, [i \in DOMAIN Refs(c) |-> ReprHash[Refs(c)[i]]]>>

(* A pruned branch has the mask it was given, a Merkle cell takes a level  *)
(* off its child's, and any other cell has its children's together.        *)
Mask[c \in Cells] ==
  LET below == UNION {Mask[Refs(c)[i]] : i \in DOMAIN Refs(c)}
  IN  CASE bag[c].payload.type = "pruned" -> bag[c].payload.mask
        [] bag[c].payload.type = "merkle" -> {l - 1 : l \in below \ {1}}
        [] OTHER -> below

Highest(mask) == IF mask = {} THEN 0 ELSE Max(mask)

Level(c) == Highest(Mask[c])

(* From a cell's level on, its hash is its representation hash. *)
HashAt(c, l) == IF l >= Level(c) THEN <<"repr", ReprHash[c]>> ELSE <<"lower", <<ReprHash[c], l>>>>

(* LevelMask::with_level. *)
WithLevel(l) == 1 .. l

-----------------------------------------------------------------------------
\* Deliberate faults.

\* Forgets the half of a payload's last byte.
D2_Whole(bits) == (bits \div 8) * 2

\* Takes the first child hash to follow the payload.
ChildOffset_AfterData(c, i) == 2 + (bag[c].payload.bits + 7) \div 8 + (i - 1) * HashSize

\* Queues a child however often it occurs among its parent's references.
Unvisited_PerParent(children) == SelectSeq(children, LAMBDA c : ReprHash[c] \notin visited)

\* Visits depth first.
Enqueued_Front(rest, children) == children \o rest

-----------------------------------------------------------------------------
\* build_cell_repr_data.

CeilBytes(bits) == (bits \div 8) + (IF bits % 8 # 0 THEN 1 ELSE 0)

(* Which of the hashes of the cell is its representation hash. *)
ReprIndex(c) == IF bag[c].payload.type = "pruned" THEN 0 ELSE Level(c)

(* A level is a bit of the descriptor's three highest. *)
MaskBits(mask) ==
  32 * ((IF 1 \in mask THEN 1 ELSE 0) + (IF 2 \in mask THEN 2 ELSE 0) + (IF 3 \in mask THEN 4 ELSE 0))

D1(c) ==
  MaskBits(IF bag[c].payload.type = "pruned" THEN Mask[c] ELSE WithLevel(ReprIndex(c)))
  + (IF bag[c].payload.type = "ordinary" THEN 0 ELSE 8) + Len(Refs(c))

D2(bits) == (bits \div 8) * 2 + (IF bits % 8 # 0 THEN 1 ELSE 0)

Byte(v)          == <<"byte", v, 0>>
Bytes(of, size)  == [j \in 1 .. size |-> <<of[1], of[2], j>>]
PayloadBytes(c)  == Bytes(<<"data", bag[c].payload>>, CeilBytes(bag[c].payload.bits))
DepthBytes(c)    == Bytes(<<"depth", ReprHash[c]>>, DepthSize)

(* Above level 0 the data is the hash one level below. *)
DataPart(c) ==
  IF ReprIndex(c) = 0 THEN PayloadBytes(c) ELSE Bytes(HashAt(c, ReprIndex(c) - 1), HashSize)

ChildLevel(c) == ReprIndex(c) + (IF bag[c].payload.type = "merkle" THEN 1 ELSE 0)

\* The depths and hashes of the children, each at that level.
ReprData(c) ==
  <<Byte(D1(c)), Byte(D2(bag[c].payload.bits))>> \o DataPart(c)
    \o FlattenSeq([i \in DOMAIN Refs(c) |-> DepthBytes(Refs(c)[i])])
    \o FlattenSeq([i \in DOMAIN Refs(c) |-> Bytes(HashAt(Refs(c)[i], ChildLevel(c)), HashSize)])

-----------------------------------------------------------------------------
\* The readers of the bytes.

RefsCountFrom(data) == data[1][2] % 8

(* The number of the highest of those bits that is set. *)
LevelFrom(data) ==
  LET mask == data[1][2] \div 32
  IN  CASE mask = 0 -> 0 [] mask = 1 -> 1 [] mask \in 2 .. 3 -> 2 [] OTHER -> 3

DataRangeIn(data) == <<2, (data[2][2] \div 2) + (data[2][2] % 2)>>

-----------------------------------------------------------------------------
\* serialize_cells_tree_root_first.

(* Where the i-th child's hash begins: the hashes end the data. *)
ChildOffset(c, i) == Len(ReprData(c)) - Len(Refs(c)) * HashSize + (i - 1) * HashSize

Entry(c) ==
  [cell |-> c, refs |-> Len(Refs(c)), offsets |-> [i \in DOMAIN Refs(c) |-> ChildOffset(c, i)]]

(* A stable sort: fewer references first. *)
ByRefs(children) ==
  FlattenSeq([n \in 1 .. MaxRefs + 1 |->
    FlattenSeq([i \in DOMAIN children |->
      IF Len(Refs(children[i])) = n - 1 THEN <<children[i]>> ELSE <<>>])])

(* The children whose hash has not been queued, each once. *)
Unvisited(children) ==
  LET seen(i) == visited \cup {ReprHash[children[j]] : j \in 1 .. i - 1}
  IN  FlattenSeq([i \in DOMAIN children |->
        IF ReprHash[children[i]] \in seen(i) THEN <<>> ELSE <<children[i]>>])

Enqueued(rest, children) == rest \o children

-----------------------------------------------------------------------------
(* Any bag: pruned branches have no references, Merkle cells have one.     *)
RefsOf(c, type) ==
  CASE type = "pruned" -> {<<>>}
    [] type = "merkle" -> {<<d>> : d \in c + 1 .. NumCells}
    [] OTHER -> UNION {[1 .. n -> c + 1 .. NumCells] : n \in 0 .. MaxRefs}

CellsAt(c) ==
  UNION {{[payload |-> p, refs |-> r] : r \in RefsOf(c, p.type)} : p \in Payloads}

Prepended(cells, bags) == UNION {{<<cell>> \o rest : rest \in bags} : cell \in cells}

BagsFrom[c \in 1 .. NumCells + 1] ==
  IF c > NumCells THEN {<<>>} ELSE Prepended(CellsAt(c), BagsFrom[c + 1])

Init ==
  /\ bag \in BagsFrom[1]
  /\ queue = <<1>> /\ visited = {ReprHash[1]} /\ result = <<>>

(* One round of the loop. *)
Visit ==
  /\ queue # <<>>
  /\ LET c == Head(queue)
         new == Unvisited(ByRefs(Refs(c)))
     IN  /\ result' = Append(result, Entry(c))
         /\ queue' = Enqueued(Tail(queue), new)
         /\ visited' = visited \cup {ReprHash[new[i]] : i \in DOMAIN new}
  /\ UNCHANGED bag

Next == Visit

Spec == Init /\ [][Next]_vars

-----------------------------------------------------------------------------
Done == queue = <<>>

HashOf(e) == ReprHash[e.cell]

Hashes(cells) == {ReprHash[c] : c \in cells}

ChildHashes(c) == Hashes(ToSet(Refs(c)))

Below(cells) == UNION {ToSet(Refs(c)) : c \in cells}

Reach[n \in Nat] == IF n = 0 THEN {1} ELSE Reach[n - 1] \cup Below(Reach[n - 1])

(* How far below the root a hash first occurs. *)
Distance(h) == CHOOSE n \in 0 .. NumCells :
  h \in Hashes(Reach[n]) /\ (n > 0 => h \notin Hashes(Reach[n - 1]))

(* serialize_cells_tree_root_first: the entries are the root's hash and    *)
(* every hash below it, each exactly once, however the cells are shared or *)
(* repeated.                                                               *)
FlattensOnce ==
  /\ \A i, j \in DOMAIN result : i # j => HashOf(result[i]) # HashOf(result[j])
  /\ Done => {HashOf(result[i]) : i \in DOMAIN result} = Hashes(Reach[NumCells])

(* The order the prover and the circuit take the first two entries in: the *)
(* root first, then level by level, and among the children of one parent   *)
(* the ones with fewer references.  (With a shared cell this is weaker     *)
(* than "parents before children".)                                        *)
LevelOrder ==
  /\ result # <<>> => result[1].cell = 1
  /\ \A i, j \in DOMAIN result : i < j =>
       LET h == HashOf(result[i])  g == HashOf(result[j]) IN
       /\ Distance(h) <= Distance(g)
       /\ {h, g} \subseteq ChildHashes(1) => result[i].refs <= result[j].refs

(* What build_cell_repr_data writes is what the offsets and the readers    *)
(* find: at each offset the child's representation hash, whatever levels   *)
(* there are below; the number of references; the cell's level; and, at    *)
(* level 0, where the payload is.                                          *)
BytesReadBack ==
  \A i \in DOMAIN result :
    LET e == result[i]  c == e.cell  data == ReprData(c)  range == DataRangeIn(data) IN
    /\ \A n \in DOMAIN e.offsets :
         SubSeq(data, e.offsets[n] + 1, e.offsets[n] + HashSize)
           = Bytes(<<"repr", ReprHash[Refs(c)[n]]>>, HashSize)
    /\ RefsCountFrom(data) = e.refs /\ LevelFrom(data) = Level(c)
    /\ ReprIndex(c) = 0 =>
         SubSeq(data, range[1] + 1, range[1] + range[2]) = PayloadBytes(c)

(* parse_fixture and parse_voucher_boc accept a message that flattens to   *)
(* two entries, and the circuit requires the second one's hash at the      *)
(* root's first offset, one reference in the root and none in the other:   *)
(* two entries are always a root and a cell it refers to, and they fit the *)
(* circuit exactly if the root refers to it once.                          *)
CircuitTakes(root, child) ==
  /\ SubSeq(ReprData(root.cell), root.offsets[1] + 1, root.offsets[1] + HashSize)
       = Bytes(<<"repr", HashOf(child)>>, HashSize)
  /\ RefsCountFrom(ReprData(root.cell)) = 1 /\ RefsCountFrom(ReprData(child.cell)) = 0

TwoEntriesFit ==
  Done /\ Len(result) = 2 =>
    /\ ChildHashes(1) = {HashOf(result[2])}
    /\ CircuitTakes(result[1], result[2]) <=> Len(Refs(1)) = 1

=============================================================================
