---------------------------- MODULE BocCells_proofs ----------------------------
(***************************************************************************)
(* The traversal of any bag of cells, however they are shared: every hash  *)
(* below the root gets one entry, the entries come level by level, and the *)
(* bytes of each read back as they were written.                           *)
(***************************************************************************)
EXTENDS BocCells, DenseMerkle_proofs

-----------------------------------------------------------------------------
(* Functions of a cell that depend on later cells only: the bags that can  *)
(* be built from a cell on, and the hash and the level mask of a cell.     *)
BagsValue(g, c) ==
  IF c > NumCells THEN {<<>>} ELSE Prepended(CellsAt(c), g[c + 1])

HashValue(g, c) == <<bag[c].payload, [i \in DOMAIN Refs(c) |-> g[Refs(c)[i]]]>>

MasksBelow(g, c) == UNION {g[Refs(c)[i]] : i \in DOMAIN Refs(c)}

MaskValue(g, c) ==
  CASE bag[c].payload.type = "pruned" -> bag[c].payload.mask
    [] bag[c].payload.type = "merkle" -> {l - 1 : l \in MasksBelow(g, c) \ {1}}
    [] OTHER -> MasksBelow(g, c)

CellValue(what, g, c) ==
  CASE what = "bags" -> BagsValue(g, c) [] what = "hash" -> HashValue(g, c) [] OTHER -> MaskValue(g, c)

LEMMA FromLaterCells ==
  ASSUME NEW what \in {"bags", "hash", "mask"}, NEW top \in Nat,
         \A g, h : \A c \in 1 .. top :
           (\A d \in c + 1 .. top : g[d] = h[d]) => CellValue(what, g, c) = CellValue(what, h, c)
  PROVE  \E f : f = [c \in 1 .. top |-> CellValue(what, f, c)]
<1> DEFINE From(k, t) == t = [c \in top + 1 - k .. top |-> CellValue(what, t, c)]
           Some       == {k \in Nat : k <= top => \E t : From(k, t)}
<1>1. 0 \in Some
  <2>1. top + 1 - 0 .. top = {}
    OBVIOUS
  <2>2. From(0, [c \in {} |-> c])
    BY <2>1
  <2>3. QED
    BY <2>2
<1>2. ASSUME NEW k \in Nat, k \in Some
      PROVE  k + 1 \in Some
  <2> SUFFICES ASSUME k + 1 <= top PROVE \E t : From(k + 1, t)
    OBVIOUS
  <2>1. PICK t : From(k, t)
    BY <1>2
  <2> DEFINE first == top + 1 - (k + 1)
             next  == top + 1 - k
             u     == [c \in first .. top |-> CellValue(what, t, c)]
  <2>2. first \in Nat /\ first >= 1 /\ first + 1 = next
    OBVIOUS
  <2>3. t = [c \in next .. top |-> CellValue(what, t, c)]
    BY <2>1
  <2> HIDE DEF first, next
  <2>4. \A c \in next .. top : u[c] = t[c]
    <3>1. \A c \in next .. top : c \in first .. top
      BY <2>2
    <3>2. QED
      BY <2>3, <3>1
  <2> HIDE DEF u
  <2>5. ASSUME NEW c \in first .. top
        PROVE  CellValue(what, u, c) = CellValue(what, t, c)
    <3>1. c \in 1 .. top /\ \A d \in c + 1 .. top : d \in next .. top
      BY <2>2
    <3>2. \A d \in c + 1 .. top : u[d] = t[d]
      BY <2>4, <3>1
    <3>3. QED
      BY <3>1, <3>2
  <2>6. u = [c \in first .. top |-> CellValue(what, u, c)]
    BY <2>5 DEF u
  <2>7. QED
    BY <2>6 DEF first
<1> HIDE DEF Some
<1>3. \A k \in Nat : k \in Some
  BY <1>1, <1>2, Induction
<1>4. PICK t : From(top, t)
  BY <1>3 DEF Some
<1>5. top + 1 - top = 1
  OBVIOUS
<1>6. QED
  BY <1>4, <1>5

LEMMA BagsFromIsDefined ==
  \A c \in 1 .. NumCells + 1 : BagsFrom[c] = BagsValue(BagsFrom, c)
<1> DEFINE top == NumCells + 1
           what == "bags"
<1>1. top \in Nat /\ what = "bags" /\ what \in {"bags", "hash", "mask"}
  BY CellsAssumption
<1>2. ASSUME NEW g, NEW h, NEW c \in 1 .. top, \A d \in c + 1 .. top : g[d] = h[d]
      PROVE  BagsValue(g, c) = BagsValue(h, c)
  <2>1. CASE c > NumCells
    BY <2>1 DEF BagsValue
  <2>2. CASE ~(c > NumCells)
    <3>1. c + 1 \in c + 1 .. top
      BY <2>2, CellsAssumption
    <3>2. g[c + 1] = h[c + 1]
      BY <1>2, <3>1
    <3>3. QED
      BY <3>2 DEF BagsValue
  <2>3. QED
    BY <2>1, <2>2
<1> HIDE DEF top, what
<1>3. \A g, h : \A c \in 1 .. top :
        (\A d \in c + 1 .. top : g[d] = h[d]) => CellValue(what, g, c) = CellValue(what, h, c)
  BY <1>1, <1>2 DEF CellValue
<1>4. \E f : f = [c \in 1 .. top |-> CellValue(what, f, c)]
  BY <1>1, <1>3, FromLaterCells
<1>5. \E f : f = [c \in 1 .. top |-> BagsValue(f, c)]
  BY <1>1, <1>4 DEF CellValue
<1>6. \E f : f = [c \in 1 .. NumCells + 1 |->
          IF c > NumCells THEN {<<>>} ELSE Prepended(CellsAt(c), f[c + 1])]
  BY <1>5, Zenon DEF BagsValue, top
<1>7. BagsFrom = [c \in 1 .. NumCells + 1 |->
          IF c > NumCells THEN {<<>>} ELSE Prepended(CellsAt(c), BagsFrom[c + 1])]
  BY <1>6, Zenon DEF BagsFrom
<1>8. BagsFrom = [c \in 1 .. NumCells + 1 |-> BagsValue(BagsFrom, c)]
  BY <1>7, Zenon DEF BagsValue
<1>9. QED
  BY <1>8

(* What a bag is: references go to later cells, there are not too many,    *)
(* and pruned branches have none.                                          *)
WellFormed ==
  \A c \in Cells :
    /\ bag[c].payload \in Payloads
    /\ Refs(c) \in Seq(c + 1 .. NumCells) /\ Len(Refs(c)) <= MaxRefs
    /\ bag[c].payload.type = "pruned" => Refs(c) = <<>>

LEMMA CellsAre ==
  ASSUME NEW c \in Nat, NEW cell \in CellsAt(c)
  PROVE  /\ cell.payload \in Payloads
         /\ cell.refs \in Seq(c + 1 .. NumCells) /\ Len(cell.refs) <= MaxRefs
         /\ cell.payload.type = "pruned" => cell.refs = <<>>
<1>1. PICK p \in Payloads : \E r \in RefsOf(c, p.type) : cell = [payload |-> p, refs |-> r]
  BY DEF CellsAt
<1>2. PICK r \in RefsOf(c, p.type) : cell.refs = r /\ cell.payload = p
  BY <1>1
<1>3. MaxRefs \in Nat /\ MaxRefs >= 1
  BY CellsAssumption
<1>4. CASE p.type = "pruned"
  <2>1. r = <<>>
    BY <1>2, <1>4 DEF RefsOf
  <2>2. QED
    BY <1>2, <1>3, <2>1
<1>5. CASE p.type = "merkle"
  <2>1. PICK d \in c + 1 .. NumCells : r = <<d>>
    BY <1>2, <1>5 DEF RefsOf
  <2>2. QED
    BY <1>2, <1>3, <1>5, <2>1
<1>6. CASE p.type \notin {"pruned", "merkle"}
  <2>1. r \in UNION {[1 .. n -> c + 1 .. NumCells] : n \in 0 .. MaxRefs}
    BY <1>2, <1>6 DEF RefsOf
  <2>2. PICK n \in 0 .. MaxRefs : r \in [1 .. n -> c + 1 .. NumCells]
    BY <2>1
  <2> DEFINE later == c + 1 .. NumCells
  <2> HIDE DEF later
  <2>3. n \in Nat /\ n <= MaxRefs /\ r \in [1 .. n -> later]
    BY <1>3, <2>2 DEF later
  <2>4. r \in Seq(later) /\ Len(r) = n
    BY <2>3
  <2>5. QED
    BY <1>2, <1>6, <2>3, <2>4 DEF later
<1>7. QED
  BY <1>4, <1>5, <1>6

LEMMA BagsAre ==
  \A b \in BagsFrom[1] : \A c \in Cells : b[c] \in CellsAt(c)
<1> DEFINE all  == UNION {CellsAt(c) : c \in Cells}
           from == [k \in Nat |-> NumCells + 1 - k]
           Fits(b, k) ==
             /\ b \in Seq(all) /\ Len(b) = k
             /\ \A i \in 1 .. k : b[i] \in CellsAt(from[k] + i - 1)
           Good == {k \in Nat : k <= NumCells => \A b \in BagsFrom[from[k]] : Fits(b, k)}
<1>1. /\ NumCells \in Nat
      /\ \A k \in Nat : k <= NumCells => from[k] \in 1 .. NumCells + 1 /\ (from[k] > NumCells => k = 0)
      /\ \A k \in Nat : k + 1 <= NumCells => from[k + 1] \in Cells /\ from[k + 1] + 1 = from[k]
      /\ from[0] = NumCells + 1 /\ from[NumCells] = 1
  BY CellsAssumption DEF Cells
<1> HIDE DEF from
<1>2. 0 \in Good
  <2>1. BagsFrom[from[0]] = {<<>>}
    <3>1. NumCells + 1 \in 1 .. NumCells + 1 /\ NumCells + 1 > NumCells
      BY <1>1
    <3>2. QED
      BY <1>1, <3>1, BagsFromIsDefined DEF BagsValue
  <2>2. Fits(<<>>, 0)
    <3> HIDE DEF all
    <3>1. <<>> \in Seq(all) /\ Len(<<>>) = 0 /\ 1 .. 0 = {}
      OBVIOUS
    <3>2. QED
      BY <3>1
  <2> HIDE DEF Fits
  <2>3. QED
    BY <2>1, <2>2
<1>3. ASSUME NEW k \in Nat, k \in Good
      PROVE  k + 1 \in Good
  <2> HIDE DEF Fits
  <2> SUFFICES ASSUME k + 1 <= NumCells, NEW b \in BagsFrom[from[k + 1]]
               PROVE  Fits(b, k + 1)
    OBVIOUS
  <2>0. k <= NumCells /\ \A rest \in BagsFrom[from[k]] : Fits(rest, k)
    BY <1>1, <1>3
  <2> USE DEF Fits
  <2> DEFINE n == k + 1
             c == from[n]
  <2>1. c \in Cells /\ c \in 1 .. NumCells + 1 /\ ~(c > NumCells) /\ c + 1 = from[k]
    BY <1>1 DEF Cells
  <2>2. BagsFrom[c] = Prepended(CellsAt(c), BagsFrom[from[k]])
    BY <2>1, BagsFromIsDefined DEF BagsValue
  <2> HIDE DEF Fits
  <2>3. PICK cell \in CellsAt(c), rest \in BagsFrom[from[k]] : b = <<cell>> \o rest
    <3>1. b \in Prepended(CellsAt(c), BagsFrom[from[k]])
      BY <2>2
    <3> HIDE DEF c
    <3>2. QED
      BY <3>1 DEF Prepended
  <2> USE DEF Fits
  <2>4. Fits(rest, k)
    BY <2>0
  <2>5. cell \in all
    BY <2>1
  <2> HIDE DEF all, c
  <2>6. /\ b \in Seq(all) /\ Len(b) = k + 1 /\ b[1] = cell
        /\ \A i \in 1 .. k : b[i + 1] = rest[i]
    BY <2>3, <2>4, <2>5
  <2>7. \A i \in 1 .. k + 1 : b[i] \in CellsAt(c + i - 1)
    <3> SUFFICES ASSUME NEW i \in 1 .. k + 1 PROVE b[i] \in CellsAt(c + i - 1)
      OBVIOUS
    <3>1. CASE i = 1
      <4>1. c + i - 1 = c
        BY <2>1, <3>1 DEF Cells
      <4>2. QED
        BY <2>6, <3>1, <4>1
    <3>2. CASE i # 1
      <4> DEFINE j == i - 1
      <4>1. j \in 1 .. k /\ i = j + 1 /\ c + i - 1 = from[k] + j - 1
        BY <2>1, <3>2 DEF Cells
      <4> HIDE DEF j
      <4>2. b[i] = rest[j] /\ rest[j] \in CellsAt(from[k] + j - 1)
        BY <2>4, <2>6, <4>1
      <4>3. QED
        BY <4>1, <4>2
    <3>3. QED
      BY <3>1, <3>2
  <2>8. QED
    BY <2>6, <2>7 DEF c
<1> HIDE DEF Good
<1>4. \A k \in Nat : k \in Good
  BY <1>2, <1>3, Induction
<1>5. ASSUME NEW b \in BagsFrom[1], NEW c \in Cells
      PROVE  b[c] \in CellsAt(c)
  <2> HIDE DEF Fits
  <2>1. Fits(b, NumCells)
    BY <1>1, <1>4 DEF Good
  <2> USE DEF Fits
  <2>2. c \in 1 .. NumCells /\ 1 + c - 1 = c
    BY DEF Cells
  <2>3. b[c] \in CellsAt(1 + c - 1)
    BY <1>1, <2>1, <2>2
  <2>4. QED
    BY <2>2, <2>3
<1>6. QED
  BY <1>5

LEMMA InitIsWellFormed == Init => WellFormed
<1> SUFFICES ASSUME Init, NEW c \in Cells
             PROVE  /\ bag[c].payload \in Payloads
                    /\ Refs(c) \in Seq(c + 1 .. NumCells) /\ Len(Refs(c)) <= MaxRefs
                    /\ bag[c].payload.type = "pruned" => Refs(c) = <<>>
  BY DEF WellFormed
<1>1. bag[c] \in CellsAt(c) /\ c \in Nat
  BY BagsAre DEF Init, Cells
<1>2. QED
  BY <1>1, CellsAre DEF Refs

-----------------------------------------------------------------------------
(* Hashes.                                                                 *)
LEMMA RefsAre ==
  ASSUME WellFormed, NEW c \in Cells
  PROVE  /\ Len(Refs(c)) \in 0 .. MaxRefs /\ DOMAIN Refs(c) = 1 .. Len(Refs(c))
         /\ Refs(c) \in Seq(Cells)
         /\ \A i \in DOMAIN Refs(c) : Refs(c)[i] \in Cells /\ Refs(c)[i] > c
<1> DEFINE later == c + 1 .. NumCells
<1>1. Refs(c) \in Seq(later) /\ Len(Refs(c)) <= MaxRefs
  BY DEF WellFormed
<1>2. c \in Nat /\ \A d \in later : d \in Cells /\ d > c
  BY CellsAssumption DEF Cells
<1> HIDE DEF later
<1>3. /\ Len(Refs(c)) \in Nat /\ DOMAIN Refs(c) = 1 .. Len(Refs(c))
      /\ \A i \in 1 .. Len(Refs(c)) : Refs(c)[i] \in later
  BY <1>1, LenProperties, ElementOfSeq
<1>4. Refs(c) \in Seq(Cells)
  BY <1>1, <1>2, <1>3
<1>5. QED
  BY <1>1, <1>2, <1>3, <1>4, CellsAssumption

LEMMA ReprHashIsDefined ==
  ASSUME WellFormed, NEW c \in Cells
  PROVE  ReprHash[c] = HashValue(ReprHash, c)
<1> DEFINE what == "hash"
<1>1. NumCells \in Nat /\ what = "hash" /\ what \in {"bags", "hash", "mask"} /\ Cells = 1 .. NumCells
  BY CellsAssumption DEF Cells
<1>2. ASSUME NEW g, NEW h, NEW d \in Cells, \A e \in d + 1 .. NumCells : g[e] = h[e]
      PROVE  HashValue(g, d) = HashValue(h, d)
  <2>1. ASSUME NEW i \in DOMAIN Refs(d)
        PROVE  g[Refs(d)[i]] = h[Refs(d)[i]]
    <3>1. Refs(d)[i] \in d + 1 .. NumCells
      BY RefsAre DEF Cells
    <3>2. QED
      BY <1>2, <3>1
  <2>2. QED
    BY <2>1 DEF HashValue
<1> HIDE DEF what
<1>3. \A g, h : \A d \in 1 .. NumCells :
        (\A e \in d + 1 .. NumCells : g[e] = h[e]) => CellValue(what, g, d) = CellValue(what, h, d)
  BY <1>1, <1>2 DEF CellValue
<1>4. \E f : f = [d \in 1 .. NumCells |-> CellValue(what, f, d)]
  BY <1>1, <1>3, FromLaterCells
<1>5. \E f : f = [d \in Cells |-> HashValue(f, d)]
  BY <1>1, <1>4 DEF CellValue
<1>6. \E f : f = [d \in Cells |-> <<bag[d].payload, [i \in DOMAIN Refs(d) |-> f[Refs(d)[i]]]>>]
  BY <1>5, Zenon DEF HashValue
<1>7. ReprHash = [d \in Cells |-> <<bag[d].payload, [i \in DOMAIN Refs(d) |-> ReprHash[Refs(d)[i]]]>>]
  BY <1>6, Zenon DEF ReprHash
<1>8. ReprHash = [d \in Cells |-> HashValue(ReprHash, d)]
  BY <1>7, Zenon DEF HashValue
<1>9. QED
  BY <1>8

(* Cells of one hash have as many references, to cells of one hash.        *)
LEMMA EqualCells ==
  ASSUME WellFormed, NEW c \in Cells, NEW d \in Cells, ReprHash[c] = ReprHash[d]
  PROVE  /\ DOMAIN Refs(c) = DOMAIN Refs(d) /\ Len(Refs(c)) = Len(Refs(d))
         /\ \A i \in DOMAIN Refs(c) : ReprHash[Refs(c)[i]] = ReprHash[Refs(d)[i]]
<1> DEFINE f == [i \in DOMAIN Refs(c) |-> ReprHash[Refs(c)[i]]]
           g == [i \in DOMAIN Refs(d) |-> ReprHash[Refs(d)[i]]]
           p == bag[c].payload
           q == bag[d].payload
<1>1. ReprHash[c] = <<p, f>> /\ ReprHash[d] = <<q, g>>
  BY ReprHashIsDefined DEF HashValue
<1> HIDE DEF f, g, p, q
<1>2. f = g
  <2>1. <<p, f>> = <<q, g>>
    BY <1>1
  <2>2. QED
    BY <2>1
<1>3. DOMAIN f = DOMAIN g
  BY <1>2
<1> USE DEF f, g
<1>4. DOMAIN Refs(c) = DOMAIN Refs(d)
  BY <1>3
<1>5. \A i \in DOMAIN Refs(c) : ReprHash[Refs(c)[i]] = ReprHash[Refs(d)[i]]
  <2> SUFFICES ASSUME NEW i \in DOMAIN Refs(c)
               PROVE  ReprHash[Refs(c)[i]] = ReprHash[Refs(d)[i]]
    OBVIOUS
  <2>1. f[i] = ReprHash[Refs(c)[i]] /\ g[i] = ReprHash[Refs(d)[i]]
    BY <1>4
  <2>2. QED
    BY <1>2, <2>1
<1>6. Len(Refs(c)) = Len(Refs(d))
  BY <1>4, RefsAre
<1>7. QED
  BY <1>4, <1>5, <1>6

LEMMA ChildrenAre ==
  ASSUME WellFormed, NEW c \in Cells
  PROVE  /\ ToSet(Refs(c)) \in SUBSET Cells
         /\ \A h : h \in ChildHashes(c) <=> \E i \in DOMAIN Refs(c) : h = ReprHash[Refs(c)[i]]
BY RefsAre DEF ChildHashes, Hashes, ToSet

LEMMA EqualChildren ==
  ASSUME WellFormed, NEW c \in Cells, NEW d \in Cells, ReprHash[c] = ReprHash[d]
  PROVE  ChildHashes(c) = ChildHashes(d)
<1>1. ASSUME NEW h
      PROVE  h \in ChildHashes(c) <=> h \in ChildHashes(d)
  <2>1. /\ h \in ChildHashes(c) <=> \E i \in DOMAIN Refs(c) : h = ReprHash[Refs(c)[i]]
        /\ h \in ChildHashes(d) <=> \E i \in DOMAIN Refs(d) : h = ReprHash[Refs(d)[i]]
    BY ChildrenAre
  <2>2. QED
    BY <2>1, EqualCells
<1>2. QED
  BY <1>1 DEF ChildHashes, Hashes

(* No two cells have each the other's hash among its references: the last  *)
(* one of such a pair would refer to a later one.                          *)
LEMMA NoTwoInEachOther ==
  ASSUME WellFormed, NEW c \in Cells, NEW d \in Cells, ReprHash[d] \in ChildHashes(c)
  PROVE  ReprHash[c] \notin ChildHashes(d)
<1> DEFINE Pair(a, b) == ReprHash[b] \in ChildHashes(a) /\ ReprHash[a] \in ChildHashes(b)
           Inside == {n \in 0 .. NumCells : NumCells - n \in Cells
                        /\ \E b \in Cells : Pair(NumCells - n, b)}
<1> SUFFICES ASSUME Pair(c, d) PROVE FALSE
  OBVIOUS
<1>1. NumCells \in Nat /\ c \in Nat /\ c <= NumCells
  BY CellsAssumption DEF Cells
<1>2. NumCells - c \in Inside
  <2> HIDE DEF Pair
  <2>1. NumCells - c \in 0 .. NumCells /\ NumCells - (NumCells - c) = c
    BY <1>1 DEF Cells
  <2>2. QED
    BY <2>1
<1>3. PICK n \in Inside : \A m \in Inside : n <= m
  <2>1. Inside # {}
    BY <1>2
  <2>2. Inside \in SUBSET (0 .. NumCells)
    OBVIOUS
  <2> HIDE DEF Inside
  <2>3. Inside \in SUBSET Nat
    BY <1>1, <2>2
  <2>4. QED
    BY <2>1, <2>3, LeastElement
<1> DEFINE last == NumCells - n
<1>4. last \in Cells /\ n \in 0 .. NumCells
  BY <1>3
<1>5. PICK other \in Cells : Pair(last, other)
  BY <1>3
<1>6. PICK i \in DOMAIN Refs(last) : ReprHash[other] = ReprHash[Refs(last)[i]]
  BY <1>4, <1>5, ChildrenAre
<1> DEFINE e == Refs(last)[i]
<1>7. e \in Cells /\ e > last
  BY <1>4, RefsAre
<1> HIDE DEF last
<1>8. Pair(e, last)
  <2>1. ReprHash[e] = ReprHash[other]
    BY <1>6
  <2>2. ChildHashes(e) = ChildHashes(other)
    BY <1>7, <2>1, EqualChildren
  <2>3. QED
    BY <1>5, <2>1, <2>2
<1> HIDE DEF e, Pair
<1> DEFINE m == NumCells - e
<1>9. m \in 0 .. NumCells /\ NumCells - m = e /\ m < n
  BY <1>1, <1>4, <1>7 DEF Cells, last
<1>10. m \in Inside
  BY <1>4, <1>7, <1>8, <1>9
<1> HIDE DEF m, Inside
<1>11. n <= m
  BY <1>3, <1>10
<1>12. QED
  BY <1>4, <1>9, <1>11

LEMMA NoCellInItself ==
  ASSUME WellFormed, NEW c \in Cells
  PROVE  ReprHash[c] \notin ChildHashes(c)
BY NoTwoInEachOther

-----------------------------------------------------------------------------
(* What is below the root.                                                 *)
LEMMA ReachIsDefined ==
  ASSUME WellFormed
  PROVE  /\ Reach[0] = {1}
         /\ \A n \in Nat : /\ Reach[n] \in SUBSET Cells
                           /\ Reach[n + 1] = Reach[n] \cup Below(Reach[n])
<1> DEFINE b    == 0
           prev == [n \in Nat |-> IF n = 0 THEN 0 ELSE n - 1]
           base == {1}
           more(R) == R \cup Below(R)
           step == [R \in SUBSET Cells |-> more(R)]
           f    == ByRecursion(b, base, prev, step)
           Fits == {n \in Nat : f[n] \in SUBSET Cells}
<1>1. b \in Nat /\ prev \in [Nat -> Nat] /\ \A n \in Nat : n > b => prev[n] < n /\ prev[n] = n - 1
  OBVIOUS
<1>2. base \in SUBSET Cells /\ \A R \in SUBSET Cells : more(R) \in SUBSET Cells /\ step[R] = more(R)
  <2>1. 1 \in Cells
    BY CellsAssumption DEF Cells
  <2>2. \A R \in SUBSET Cells : Below(R) \in SUBSET Cells
    BY ChildrenAre DEF Below
  <2>3. QED
    BY <2>1, <2>2
<1>3. b = 0 /\ base = {1}
  OBVIOUS
<1> HIDE DEF b, prev, base, step
<1>4. f = [n \in Nat |-> f[n]] /\ \A n \in Nat : f[n] = IF n <= b THEN base ELSE step[f[prev[n]]]
  BY <1>1, Recursion
<1> HIDE DEF f, more
<1>5. f[0] = {1}
  BY <1>3, <1>4
<1>6. \A n \in Nat : f[n + 1] = step[f[n]]
  <2> SUFFICES ASSUME NEW n \in Nat PROVE f[n + 1] = step[f[n]]
    OBVIOUS
  <2> DEFINE m == n + 1
  <2>1. m \in Nat /\ ~(m <= b) /\ m > b /\ m - 1 = n
    BY <1>3
  <2> HIDE DEF m
  <2>2. f[m] = step[f[prev[m]]] /\ prev[m] = n
    BY <1>1, <1>4, <2>1
  <2>3. QED
    BY <2>2 DEF m
<1>7. 0 \in Fits /\ \A n \in Nat : n \in Fits => n + 1 \in Fits
  BY <1>2, <1>3, <1>5, <1>6
<1>8. \A n \in Nat : n \in Fits
  BY <1>7, Induction
<1>9. \A n \in Nat : f[n] \in SUBSET Cells /\ f[n + 1] = more(f[n])
  BY <1>2, <1>6, <1>8
<1>10. f = [n \in Nat |-> IF n = 0 THEN {1} ELSE f[n - 1] \cup Below(f[n - 1])]
  <2>1. \A n \in Nat : f[n] = IF n = 0 THEN {1} ELSE f[n - 1] \cup Below(f[n - 1])
    <3> SUFFICES ASSUME NEW n \in Nat, n # 0 PROVE f[n] = f[n - 1] \cup Below(f[n - 1])
      BY <1>5
    <3>1. n - 1 \in Nat /\ (n - 1) + 1 = n
      OBVIOUS
    <3>2. f[(n - 1) + 1] = more(f[n - 1])
      BY <1>9, <3>1
    <3>3. QED
      BY <3>1, <3>2 DEF more
  <2>2. QED
    BY <1>4, <2>1
<1>11. Reach = [n \in Nat |-> IF n = 0 THEN {1} ELSE Reach[n - 1] \cup Below(Reach[n - 1])]
  BY <1>10, Zenon DEF Reach
<1>12. \A n \in Nat : Reach[n] = f[n]
  <2> DEFINE Same == {n \in Nat : Reach[n] = f[n]}
  <2>1. Reach[0] = {1}
    BY <1>11
  <2>2. \A n \in Nat : Reach[n + 1] = Reach[n] \cup Below(Reach[n])
    <3> SUFFICES ASSUME NEW n \in Nat PROVE Reach[n + 1] = Reach[n] \cup Below(Reach[n])
      OBVIOUS
    <3> DEFINE m == n + 1
    <3>1. m \in Nat /\ m # 0 /\ m - 1 = n
      OBVIOUS
    <3> HIDE DEF m
    <3>2. Reach[m] = Reach[m - 1] \cup Below(Reach[m - 1])
      BY <1>11, <3>1
    <3>3. QED
      BY <3>1, <3>2 DEF m
  <2>3. 0 \in Same
    BY <1>5, <2>1
  <2>4. ASSUME NEW n \in Nat, n \in Same PROVE n + 1 \in Same
    <3> DEFINE m == n + 1
    <3>1. m \in Nat /\ Reach[m] = more(Reach[n]) /\ f[m] = more(f[n])
      BY <1>9, <2>2 DEF more
    <3>2. Reach[m] = f[m]
      BY <2>4, <3>1
    <3> HIDE DEF m
    <3>3. m \in Same
      BY <3>1, <3>2
    <3>4. QED
      BY <3>3 DEF m
  <2> HIDE DEF Same
  <2>6. \A n \in Nat : n \in Same
    BY <2>3, <2>4, Induction
  <2>5. QED
    BY <2>6 DEF Same
<1>13. QED
  BY <1>5, <1>9, <1>12 DEF more

LEMMA ReachGrows ==
  ASSUME WellFormed
  PROVE  \A n \in Nat : \A m \in Nat : Reach[n] \in SUBSET Reach[n + m]
<1> SUFFICES ASSUME NEW n \in Nat PROVE \A m \in Nat : Reach[n] \in SUBSET Reach[n + m]
  OBVIOUS
<1> DEFINE Good == {m \in Nat : Reach[n] \in SUBSET Reach[n + m]}
<1>1. 0 \in Good
  <2>1. n + 0 = n
    OBVIOUS
  <2>2. QED
    BY <2>1
<1>2. ASSUME NEW m \in Nat, m \in Good PROVE m + 1 \in Good
  <2>1. n + m \in Nat /\ n + (m + 1) = (n + m) + 1 /\ m + 1 \in Nat
    OBVIOUS
  <2>2. Reach[n] \in SUBSET Reach[n + (m + 1)]
    BY <1>2, <2>1, ReachIsDefined
  <2>3. QED
    BY <2>1, <2>2
<1> HIDE DEF Good
<1>3. \A m \in Nat : m \in Good
  BY <1>1, <1>2, Induction
<1>4. QED
  BY <1>3 DEF Good

(* A cell is reached in fewer steps than its number, so that NumCells are  *)
(* enough; and what is reached has its children reached.                   *)
LEMMA ReachSaturates ==
  ASSUME WellFormed
  PROVE  /\ 1 \in Reach[NumCells] /\ Reach[NumCells] \in SUBSET Cells
         /\ \A c \in Reach[NumCells] : ToSet(Refs(c)) \in SUBSET Reach[NumCells]
         /\ \A n \in Nat : Reach[n] \in SUBSET Reach[NumCells]
<1>1. NumCells \in Nat /\ NumCells >= 1 /\ \A c \in Cells : c \in Nat /\ c >= 1 /\ c <= NumCells
  BY CellsAssumption DEF Cells
<1>2. \A n \in Nat : \A m \in Nat : Reach[n] \in SUBSET Reach[n + m]
  BY ReachGrows
<1>3. \A n \in Nat : \A c \in Reach[n] : c \in Reach[c - 1]
  <2> DEFINE Good == {n \in Nat : \A c \in Reach[n] : c \in Reach[c - 1]}
  <2>1. 0 \in Good
    <3>1. 1 - 1 = 0
      OBVIOUS
    <3>2. \A c \in Reach[0] : c = 1
      BY ReachIsDefined
    <3>3. QED
      BY <3>1, <3>2, ReachIsDefined
  <2>2. ASSUME NEW n \in Nat, n \in Good PROVE n + 1 \in Good
    <3> SUFFICES ASSUME NEW c \in Reach[n + 1] PROVE c \in Reach[c - 1]
      OBVIOUS
    <3>1. CASE c \in Reach[n]
      BY <2>2, <3>1
    <3>2. CASE c \in Below(Reach[n])
      <4>1. PICK d \in Reach[n] : c \in ToSet(Refs(d))
        BY <3>2 DEF Below
      <4>2. d \in Cells /\ d \in Reach[d - 1]
        BY <2>2, ReachIsDefined
      <4>3. c \in Cells /\ c > d
        BY <4>1, <4>2, RefsAre DEF ToSet
      <4> DEFINE k == d - 1
                 m == c - 1 - d
      <4>4. k \in Nat /\ k + 1 = d /\ d \in Nat /\ m \in Nat /\ d + m = c - 1
        BY <1>1, <4>2, <4>3
      <4> HIDE DEF k, m
      <4>5. d \in Reach[k]
        BY <4>2 DEF k
      <4>6. c \in Reach[k + 1]
        BY <4>1, <4>4, <4>5, ReachIsDefined DEF Below
      <4>7. Reach[d] \in SUBSET Reach[d + m]
        BY <1>2, <4>4
      <4>8. QED
        BY <4>4, <4>6, <4>7
    <3>3. QED
      BY <3>1, <3>2, ReachIsDefined
  <2> HIDE DEF Good
  <2>3. \A n \in Nat : n \in Good
    BY <2>1, <2>2, Induction
  <2>4. QED
    BY <2>3 DEF Good
<1>4. ASSUME NEW n \in Nat, NEW c \in Reach[n]
      PROVE  c \in Reach[NumCells]
  <2> DEFINE k == c - 1
             m == NumCells - k
  <2>1. c \in Cells /\ c \in Reach[k]
    BY <1>3, ReachIsDefined
  <2>2. k \in Nat /\ m \in Nat /\ k + m = NumCells
    BY <1>1, <2>1
  <2> HIDE DEF k, m
  <2>3. Reach[k] \in SUBSET Reach[k + m]
    BY <1>2, <2>2
  <2>4. QED
    BY <2>1, <2>2, <2>3
<1>5. ASSUME NEW c \in Reach[NumCells]
      PROVE  ToSet(Refs(c)) \in SUBSET Reach[NumCells]
  <2>1. NumCells + 1 \in Nat /\ ToSet(Refs(c)) \in SUBSET Reach[NumCells + 1]
    BY <1>1, ReachIsDefined DEF Below
  <2>2. QED
    BY <1>4, <2>1
<1>6. 1 \in Reach[NumCells]
  <2>1. 1 \in Reach[0]
    BY ReachIsDefined
  <2>2. QED
    BY <1>4, <2>1
<1>7. QED
  BY <1>1, <1>4, <1>5, <1>6, ReachIsDefined

-----------------------------------------------------------------------------
(* What a round queues.                                                    *)
LEMMA ByRefsIs ==
  ASSUME WellFormed, NEW children \in Seq(Cells)
  PROVE  /\ ByRefs(children) \in Seq(Cells) /\ Len(ByRefs(children)) \in Nat
         /\ ToSet(ByRefs(children)) = ToSet(children)
         /\ \A p, q \in DOMAIN ByRefs(children) :
              p < q => Len(Refs(ByRefs(children)[p])) <= Len(Refs(ByRefs(children)[q]))
<1> DEFINE refs(i) == Len(Refs(children[i]))
           keep(n) == [i \in DOMAIN children |-> refs(i) = n - 1]
           some(n) == Kept(children, keep(n))
           seqs    == [n \in 1 .. MaxRefs + 1 |-> some(n)]
           len     == MaxRefs + 1
           u       == ByRefs(children)
<1>1. /\ len \in Nat /\ len # 0 /\ 1 .. len = 1 .. MaxRefs + 1
      /\ DOMAIN children = 1 .. Len(children) /\ Len(children) \in Nat
      /\ \A i \in DOMAIN children : children[i] \in Cells /\ refs(i) \in Nat /\ refs(i) + 1 \in 1 .. len
  <2>1. /\ MaxRefs \in Nat /\ DOMAIN children = 1 .. Len(children) /\ Len(children) \in Nat
        /\ \A i \in DOMAIN children : children[i] \in Cells
    BY CellsAssumption, LenProperties, ElementOfSeq
  <2>2. QED
    BY <2>1, RefsAre
<1>2. u = FlattenSeq(seqs)
  <2>1. ASSUME NEW n \in 1 .. MaxRefs + 1
        PROVE  some(n) = FlattenSeq([i \in DOMAIN children |->
                 IF Len(Refs(children[i])) = n - 1 THEN <<children[i]>> ELSE <<>>])
    BY Zenon DEF Kept
  <2>2. QED
    BY <2>1, Zenon DEF ByRefs
<1> HIDE DEF keep
<1>3. ASSUME NEW n \in 1 .. len
      PROVE  /\ some(n) \in Seq(Cells) /\ Len(some(n)) \in Nat /\ DOMAIN some(n) = 1 .. Len(some(n))
             /\ \A i \in DOMAIN children : keep(n)[i] =>
                  \E p \in 1 .. Len(some(n)) : some(n)[p] = children[i]
             /\ \E at : KeptFrom(children, keep(n), at)
  <2>1. /\ some(n) \in Seq(Cells) /\ Len(some(n)) \in Nat
        /\ \A i \in DOMAIN children : keep(n)[i] =>
             \E p \in 1 .. Len(some(n)) : some(n)[p] = children[i]
        /\ \E at : KeptFrom(children, keep(n), at)
    BY KeptAre
  <2> HIDE DEF some
  <2>2. QED
    BY <2>1, LenProperties
<1>4. \A n \in 1 .. len : \A i \in DOMAIN children : keep(n)[i] <=> refs(i) = n - 1
  BY DEF keep
<1>5. \A n \in 1 .. len : \A p \in DOMAIN some(n) :
        \E i \in DOMAIN children : some(n)[p] = children[i] /\ refs(i) = n - 1
  <2> SUFFICES ASSUME NEW n \in 1 .. len, NEW p \in DOMAIN some(n)
               PROVE  \E i \in DOMAIN children : some(n)[p] = children[i] /\ refs(i) = n - 1
    OBVIOUS
  <2>1. PICK at : KeptFrom(children, keep(n), at)
    BY <1>3
  <2>2. p \in 1 .. Len(some(n))
    BY <1>3
  <2>3. at[p] \in DOMAIN children /\ keep(n)[at[p]] /\ some(n)[p] = children[at[p]]
    BY <2>1, <2>2 DEF KeptFrom
  <2>4. QED
    BY <1>4, <2>3
<1> HIDE DEF some
<1>6. seqs \in Seq(Seq(Cells)) /\ Len(seqs) = len /\ \A n \in 1 .. len : seqs[n] = some(n)
  BY <1>1, <1>3
<1> HIDE DEF seqs, u, refs, len
<1>7. u = Joined(seqs)[len] /\ len \in 1 .. len
  BY <1>1, <1>2, <1>6, FlattenIsJoined
<1>8. Holds(Cells, seqs, len, u) /\ \E at : Follows(seqs, len, u, at)
  BY <1>6, <1>7, JoinedHolds, JoinedFollows
<1>9. PICK at : Follows(seqs, len, u, at)
  BY <1>8
<1>10. u \in Seq(Cells) /\ Len(u) \in Nat /\ DOMAIN u = 1 .. Len(u)
  BY <1>8, LenProperties DEF Holds
<1>11. ASSUME NEW p \in 1 .. Len(u)
       PROVE  /\ at[p] \in 1 .. len
              /\ \E i \in DOMAIN children : u[p] = children[i] /\ refs(i) = at[p] - 1
  <2>1. at[p] \in 1 .. len /\ \E j \in DOMAIN seqs[at[p]] : u[p] = seqs[at[p]][j]
    BY <1>9 DEF Follows
  <2>2. QED
    BY <1>5, <1>6, <2>1
<1>12. ASSUME NEW p \in 1 .. Len(u), NEW q \in 1 .. Len(u), p < q
       PROVE  Len(Refs(u[p])) <= Len(Refs(u[q]))
  <2>1. at[p] <= at[q]
    BY <1>9, <1>12 DEF Follows
  <2>2. /\ at[p] \in 1 .. len /\ at[q] \in 1 .. len
        /\ Len(Refs(u[p])) = at[p] - 1 /\ Len(Refs(u[q])) = at[q] - 1
    BY <1>11 DEF refs
  <2>3. QED
    BY <1>1, <2>1, <2>2
<1>13. ASSUME NEW i \in DOMAIN children
       PROVE  \E p \in 1 .. Len(u) : u[p] = children[i]
  <2> DEFINE n == refs(i) + 1
  <2>1. n \in 1 .. len /\ n - 1 = refs(i)
    BY <1>1
  <2> HIDE DEF n
  <2>2. PICK p \in 1 .. Len(some(n)) : some(n)[p] = children[i]
    BY <1>3, <1>4, <2>1
  <2>3. p \in DOMAIN seqs[n] /\ seqs[n][p] = children[i]
    BY <1>3, <1>6, <2>1, <2>2
  <2>4. QED
    BY <1>8, <2>1, <2>3 DEF Holds
<1>14. ToSet(u) = ToSet(children)
  <2>1. \A p \in DOMAIN u : \E i \in DOMAIN children : u[p] = children[i]
    BY <1>10, <1>11
  <2>2. \A i \in DOMAIN children : \E p \in DOMAIN u : u[p] = children[i]
    BY <1>10, <1>13
  <2>3. QED
    BY <2>1, <2>2 DEF ToSet
<1>15. QED
  BY <1>10, <1>12, <1>14 DEF u

LEMMA UnvisitedIs ==
  ASSUME NEW children \in Seq(Cells)
  PROVE  LET u == Unvisited(children) IN
         /\ u \in Seq(Cells) /\ Len(u) \in Nat
         /\ \A p \in DOMAIN u : ReprHash[u[p]] \notin visited
         /\ \A p, q \in DOMAIN u : p < q =>
              /\ ReprHash[u[p]] # ReprHash[u[q]]
              /\ \E i, j \in DOMAIN children : i < j /\ u[p] = children[i] /\ u[q] = children[j]
         /\ \A p \in DOMAIN u : u[p] \in ToSet(children)
         /\ \A c \in ToSet(children) : ReprHash[c] \in visited \cup Hashes(ToSet(u))
<1> DEFINE hash(i) == ReprHash[children[i]]
           keep    == [i \in DOMAIN children |->
                        hash(i) \notin visited \cup {hash(j) : j \in 1 .. i - 1}]
           u       == Unvisited(children)
<1>1. /\ DOMAIN children = 1 .. Len(children) /\ Len(children) \in Nat
      /\ \A i \in DOMAIN children : children[i] \in Cells
  BY LenProperties, ElementOfSeq
<1>2. u = Kept(children, keep)
  <2>1. \A i \in DOMAIN children :
          (IF ReprHash[children[i]] \in visited \cup {ReprHash[children[j]] : j \in 1 .. i - 1}
             THEN <<>> ELSE <<children[i]>>)
          = (IF keep[i] THEN <<children[i]>> ELSE <<>>)
    OBVIOUS
  <2> HIDE DEF keep
  <2>2. [i \in DOMAIN children |->
          IF ReprHash[children[i]] \in visited \cup {ReprHash[children[j]] : j \in 1 .. i - 1}
            THEN <<>> ELSE <<children[i]>>]
        = [i \in DOMAIN children |-> IF keep[i] THEN <<children[i]>> ELSE <<>>]
    BY <2>1
  <2>3. QED
    BY <2>2, Zenon DEF Unvisited, Kept
<1>3. \A i \in DOMAIN children : keep[i] <=> hash(i) \notin visited /\ \A j \in 1 .. i - 1 : hash(j) # hash(i)
  OBVIOUS
<1> HIDE DEF keep, hash, u
<1>4. /\ u \in Seq(Cells) /\ Len(u) \in Nat
      /\ \A i \in DOMAIN children : keep[i] => \E p \in 1 .. Len(u) : u[p] = children[i]
      /\ \E at : KeptFrom(children, keep, at)
  BY <1>2, KeptAre
<1>5. PICK at : KeptFrom(children, keep, at)
  BY <1>4
<1>6. DOMAIN u = 1 .. Len(u)
  BY <1>4, LenProperties
<1>7. /\ \A p \in DOMAIN u : at[p] \in DOMAIN children /\ keep[at[p]] /\ u[p] = children[at[p]]
      /\ \A p, q \in DOMAIN u : p < q => at[p] < at[q]
  BY <1>2, <1>5, <1>6 DEF KeptFrom
<1>8. ASSUME NEW p \in DOMAIN u
      PROVE  ReprHash[u[p]] \notin visited /\ u[p] \in ToSet(children)
  BY <1>3, <1>7 DEF hash, ToSet
<1>9. ASSUME NEW p \in DOMAIN u, NEW q \in DOMAIN u, p < q
      PROVE  /\ ReprHash[u[p]] # ReprHash[u[q]]
             /\ \E i, j \in DOMAIN children : i < j /\ u[p] = children[i] /\ u[q] = children[j]
  <2>1. at[p] \in DOMAIN children /\ at[q] \in DOMAIN children /\ at[p] < at[q]
    BY <1>7, <1>9
  <2>2. at[p] \in 1 .. at[q] - 1
    BY <1>1, <2>1
  <2>3. hash(at[p]) # hash(at[q])
    BY <1>3, <1>7, <2>1, <2>2
  <2>4. u[p] = children[at[p]] /\ u[q] = children[at[q]]
    BY <1>7
  <2>5. QED
    BY <2>1, <2>3, <2>4 DEF hash
<1>10. ASSUME NEW c \in ToSet(children), ReprHash[c] \notin visited
       PROVE  ReprHash[c] \in Hashes(ToSet(u))
  <2> DEFINE at_hash == {i \in DOMAIN children : hash(i) = ReprHash[c]}
  <2>1. at_hash # {} /\ at_hash \in SUBSET Nat
    BY <1>1 DEF ToSet, hash
  <2>2. PICK i \in at_hash : \A j \in at_hash : i <= j
    <3> HIDE DEF at_hash
    <3>1. QED
      BY <2>1, LeastElement
  <2>3. i \in DOMAIN children /\ i \in Nat /\ hash(i) = ReprHash[c]
    BY <1>1, <2>2
  <2>4. ASSUME NEW j \in 1 .. i - 1
        PROVE  hash(j) # hash(i)
    <3>1. j \in DOMAIN children /\ ~(i <= j)
      BY <1>1, <2>3
    <3>2. QED
      BY <2>2, <2>3, <3>1
  <2>5. keep[i]
    BY <1>3, <2>3, <2>4, <1>10
  <2>6. PICK p \in DOMAIN u : u[p] = children[i]
    BY <1>4, <1>6, <2>3, <2>5
  <2>7. QED
    BY <2>3, <2>6 DEF Hashes, ToSet, hash
<1>11. QED
  BY <1>4, <1>8, <1>9, <1>10 DEF u

LEMMA NewIs ==
  ASSUME WellFormed, NEW c \in Cells
  PROVE  LET kids == Refs(c)  new == Unvisited(ByRefs(kids)) IN
         /\ new \in Seq(Cells) /\ Len(new) \in Nat /\ DOMAIN new = 1 .. Len(new)
         /\ \A p \in DOMAIN new : ReprHash[new[p]] \notin visited /\ new[p] \in ToSet(kids)
         /\ \A p, q \in DOMAIN new : p < q =>
              ReprHash[new[p]] # ReprHash[new[q]] /\ Len(Refs(new[p])) <= Len(Refs(new[q]))
         /\ \A d \in ToSet(kids) : ReprHash[d] \in visited \cup Hashes(ToSet(new))
<1> DEFINE kids   == Refs(c)
           sorted == ByRefs(kids)
           new    == Unvisited(sorted)
<1>1. /\ sorted \in Seq(Cells) /\ ToSet(sorted) = ToSet(kids)
      /\ \A p, q \in DOMAIN sorted : p < q => Len(Refs(sorted[p])) <= Len(Refs(sorted[q]))
  BY RefsAre, ByRefsIs
<1> HIDE DEF sorted, kids
<1>2. /\ new \in Seq(Cells) /\ Len(new) \in Nat
      /\ \A p \in DOMAIN new : ReprHash[new[p]] \notin visited /\ new[p] \in ToSet(kids)
      /\ \A p, q \in DOMAIN new : p < q =>
           /\ ReprHash[new[p]] # ReprHash[new[q]]
           /\ \E i, j \in DOMAIN sorted : i < j /\ new[p] = sorted[i] /\ new[q] = sorted[j]
      /\ \A d \in ToSet(kids) : ReprHash[d] \in visited \cup Hashes(ToSet(new))
  BY <1>1, UnvisitedIs
<1> HIDE DEF new
<1>3. \A p, q \in DOMAIN new : p < q => Len(Refs(new[p])) <= Len(Refs(new[q]))
  BY <1>1, <1>2
<1>4. DOMAIN new = 1 .. Len(new)
  BY <1>2, LenProperties
<1>5. QED
  BY <1>2, <1>3, <1>4 DEF new, sorted, kids

-----------------------------------------------------------------------------
(* The cells in the order they are visited, the queue's being the next.    *)
Ordered(res, q) == [i \in DOMAIN res |-> res[i].cell] \o q

Order == Ordered(result, queue)

QueueTypeOK ==
  /\ queue \in Seq(Cells) /\ result \in Seq(ToSet(result))
  /\ \A i \in DOMAIN result : result[i].cell \in Cells /\ result[i].refs = Len(Refs(result[i].cell))

LEMMA OrderedIs ==
  ASSUME NEW S, NEW res \in Seq(S), NEW q \in Seq(Cells), \A i \in DOMAIN res : res[i].cell \in Cells
  PROVE  /\ Len(res) \in Nat /\ DOMAIN res = 1 .. Len(res)
         /\ Len(q) \in Nat /\ DOMAIN q = 1 .. Len(q)
         /\ Ordered(res, q) \in Seq(Cells) /\ Len(Ordered(res, q)) = Len(res) + Len(q)
         /\ \A i \in 1 .. Len(res) : Ordered(res, q)[i] = res[i].cell
         /\ \A i \in 1 .. Len(q) : Ordered(res, q)[Len(res) + i] = q[i]
<1> DEFINE taken == [i \in DOMAIN res |-> res[i].cell]
           u     == Ordered(res, q)
<1>1. /\ Len(res) \in Nat /\ DOMAIN res = 1 .. Len(res)
      /\ Len(q) \in Nat /\ DOMAIN q = 1 .. Len(q)
  BY LenProperties
<1>2. taken \in Seq(Cells) /\ Len(taken) = Len(res) /\ \A i \in 1 .. Len(res) : taken[i] = res[i].cell
  BY <1>1
<1> HIDE DEF taken
<1>3. u = taken \o q
  BY DEF Ordered, taken
<1> HIDE DEF u
<1>4. /\ u \in Seq(Cells) /\ Len(u) = Len(res) + Len(q)
      /\ \A i \in 1 .. Len(res) + Len(q) : u[i] = IF i <= Len(res) THEN taken[i] ELSE q[i - Len(res)]
  BY <1>2, <1>3, ConcatProperties
<1>5. \A i \in 1 .. Len(res) : u[i] = res[i].cell
  BY <1>1, <1>2, <1>4
<1>6. \A i \in 1 .. Len(q) : u[Len(res) + i] = q[i]
  <2> SUFFICES ASSUME NEW i \in 1 .. Len(q) PROVE u[Len(res) + i] = q[i]
    OBVIOUS
  <2> DEFINE j == Len(res) + i
  <2>1. j \in 1 .. Len(res) + Len(q) /\ ~(j <= Len(res)) /\ j - Len(res) = i
    BY <1>1
  <2> HIDE DEF j
  <2>2. u[j] = q[i]
    BY <1>4, <2>1
  <2>3. QED
    BY <2>2 DEF j
<1>7. QED
  BY <1>1, <1>4, <1>5, <1>6 DEF u

LEMMA OrderIs ==
  ASSUME QueueTypeOK
  PROVE  /\ Len(result) \in Nat /\ DOMAIN result = 1 .. Len(result)
         /\ Len(queue) \in Nat /\ DOMAIN queue = 1 .. Len(queue)
         /\ Order \in Seq(Cells) /\ Len(Order) = Len(result) + Len(queue)
         /\ \A i \in 1 .. Len(result) : Order[i] = result[i].cell
         /\ \A i \in 1 .. Len(queue) : Order[Len(result) + i] = queue[i]
BY OrderedIs DEF QueueTypeOK, Order

LEMMA VisitExtends ==
  ASSUME WellFormed, QueueTypeOK, Visit
  PROVE  LET c == Order[Len(result) + 1]
             new == Unvisited(ByRefs(Refs(c)))
         IN  /\ Len(result) < Len(Order) /\ c \in Cells
             /\ WellFormed' /\ QueueTypeOK'
             /\ Len(result') = Len(result) + 1 /\ Len(Order') = Len(Order) + Len(new)
             /\ \A i \in 1 .. Len(Order) : Order'[i] = Order[i]
             /\ \A i \in 1 .. Len(new) : Order'[Len(Order) + i] = new[i]
             /\ visited' = visited \cup Hashes(ToSet(new))
             /\ DOMAIN Order' = 1 .. Len(Order) + Len(new) /\ Order' # <<>>
             /\ \A i \in DOMAIN Order' : i \notin 1 .. Len(Order) =>
                  i - Len(Order) \in 1 .. Len(new) /\ Order'[i] = new[i - Len(Order)]
<1> DEFINE c   == Head(queue)
           new == Unvisited(ByRefs(Refs(c)))
           len == Len(result)
           e   == Entry(c)
<1>1. /\ len \in Nat /\ DOMAIN result = 1 .. len /\ Len(queue) \in Nat /\ Len(queue) # 0
      /\ Order \in Seq(Cells) /\ Len(Order) = len + Len(queue) /\ queue \in Seq(Cells)
      /\ \A i \in 1 .. len : Order[i] = result[i].cell
      /\ \A i \in 1 .. Len(queue) : Order[len + i] = queue[i]
  BY OrderIs, EmptySeq DEF QueueTypeOK, Visit
<1>2. /\ result' = Append(result, e) /\ queue' = Tail(queue) \o new /\ bag' = bag
      /\ visited' = visited \cup {ReprHash[new[i]] : i \in DOMAIN new}
  BY DEF Visit, Enqueued
<1>3. c = queue[1] /\ c \in Cells /\ c = Order[len + 1]
  BY <1>1
<1>4. new \in Seq(Cells) /\ Len(new) \in Nat /\ DOMAIN new = 1 .. Len(new)
  <2>1. ByRefs(Refs(c)) \in Seq(Cells)
    BY <1>3, RefsAre, ByRefsIs
  <2>2. new \in Seq(Cells)
    BY <2>1, UnvisitedIs
  <2> HIDE DEF new
  <2>3. QED
    BY <2>2, LenProperties
<1>5. e.cell = c /\ e.refs = Len(Refs(c))
  BY DEF Entry
<1>6. /\ Tail(queue) \in Seq(Cells) /\ Len(Tail(queue)) = Len(queue) - 1
      /\ \A i \in 1 .. Len(queue) - 1 : Tail(queue)[i] = queue[i + 1]
  BY <1>1
<1> HIDE DEF c, new, e
<1>7. /\ Len(result') = len + 1 /\ DOMAIN result' = 1 .. len + 1
      /\ \A i \in 1 .. len : result'[i] = result[i]
      /\ result'[len + 1] = e
  BY <1>1, <1>2 DEF QueueTypeOK
<1>8. \A d : Refs(d)' = Refs(d)
  BY <1>2 DEF Refs
<1>9. WellFormed'
  BY <1>2, <1>8 DEF WellFormed
<1>10. QueueTypeOK'
  <2>1. queue' \in Seq(Cells)
    BY <1>2, <1>4, <1>6
  <2>2. result' \in Seq(ToSet(result'))
    <3>1. result' \in Seq(ToSet(result) \cup {e})
      BY <1>2 DEF QueueTypeOK
    <3>2. \A i \in 1 .. len + 1 : result'[i] \in ToSet(result')
      BY <1>7 DEF ToSet
    <3>3. QED
      BY <1>1, <1>7, <3>1, <3>2
  <2>3. ASSUME NEW i \in 1 .. len + 1
        PROVE  result'[i].cell \in Cells /\ result'[i].refs = Len(Refs(result'[i].cell))
    <3>1. CASE i \in 1 .. len
      BY <1>1, <1>7, <3>1 DEF QueueTypeOK
    <3>2. CASE i \notin 1 .. len
      <4>1. i = len + 1
        BY <1>1, <3>2
      <4>2. QED
        BY <1>3, <1>5, <1>7, <4>1
    <3>3. QED
      BY <3>1, <3>2
  <2>4. QED
    BY <1>7, <1>8, <2>1, <2>2, <2>3 DEF QueueTypeOK
<1>11. /\ Len(queue') = Len(queue) - 1 + Len(new)
       /\ \A i \in 1 .. Len(queue) - 1 : queue'[i] = queue[i + 1]
       /\ \A i \in 1 .. Len(new) : queue'[Len(queue) - 1 + i] = new[i]
  BY <1>1, <1>2, <1>4, <1>6
<1>12. /\ Len(Order') = len + 1 + Len(queue')
       /\ \A i \in 1 .. len + 1 : Order'[i] = result'[i].cell
       /\ \A i \in 1 .. Len(queue') : Order'[len + 1 + i] = queue'[i]
  <2>1. /\ Len(Order') = Len(result') + Len(queue')
        /\ \A i \in 1 .. Len(result') : Order'[i] = result'[i].cell
        /\ \A i \in 1 .. Len(queue') : Order'[Len(result') + i] = queue'[i]
    <3>1. /\ result' \in Seq(ToSet(result')) /\ queue' \in Seq(Cells)
          /\ \A i \in DOMAIN result' : result'[i].cell \in Cells
      BY <1>10 DEF QueueTypeOK
    <3>2. Order' = Ordered(result', queue')
      BY DEF Order, Ordered
    <3>3. QED
      BY <3>1, <3>2, OrderedIs
  <2>2. QED
    BY <1>7, <2>1
<1>13. Len(Order') = Len(Order) + Len(new)
  BY <1>1, <1>4, <1>11, <1>12
<1>14. ASSUME NEW i \in 1 .. Len(Order)
       PROVE  Order'[i] = Order[i]
  <2>1. CASE i <= len
    BY <1>1, <1>7, <1>12, <2>1
  <2>2. CASE i = len + 1
    <3>1. len + 1 \in 1 .. len + 1
      BY <1>1
    <3>2. Order'[len + 1] = result'[len + 1].cell
      BY <1>12, <3>1
    <3>3. QED
      BY <1>3, <1>5, <1>7, <2>2, <3>2
  <2>3. CASE i > len + 1
    <3> DEFINE j == i - len - 1
    <3>1. j \in 1 .. Len(queue) - 1 /\ i = len + 1 + j /\ j + 1 \in 1 .. Len(queue) /\ i = len + (j + 1)
      BY <1>1, <2>3
    <3>2. j \in 1 .. Len(queue')
      BY <1>1, <1>4, <1>11, <3>1
    <3> HIDE DEF j
    <3>3. QED
      BY <1>1, <1>11, <1>12, <3>1, <3>2
  <2>4. QED
    BY <1>1, <2>1, <2>2, <2>3
<1>15. ASSUME NEW i \in 1 .. Len(new)
       PROVE  Order'[Len(Order) + i] = new[i]
  <2> DEFINE j == Len(queue) - 1 + i
  <2>1. j \in 1 .. Len(queue') /\ Len(Order) + i = len + 1 + j
    BY <1>1, <1>4, <1>11
  <2>2. queue'[j] = new[i]
    BY <1>11
  <2> HIDE DEF j
  <2>3. QED
    BY <1>12, <2>1, <2>2
<1>16. visited' = visited \cup Hashes(ToSet(new))
  BY <1>2 DEF Hashes, ToSet
<1>17. Len(result) < Len(Order)
  BY <1>1
<1>18. DOMAIN Order' = 1 .. Len(Order) + Len(new) /\ Order' # <<>>
  <2>1. Order' \in Seq(Cells)
    <3>1. /\ result' \in Seq(ToSet(result')) /\ queue' \in Seq(Cells)
          /\ \A i \in DOMAIN result' : result'[i].cell \in Cells
      BY <1>10 DEF QueueTypeOK
    <3>2. Order' = Ordered(result', queue')
      BY DEF Order, Ordered
    <3>3. QED
      BY <3>1, <3>2, OrderedIs
  <2>2. QED
    BY <1>1, <1>4, <1>13, <1>17, <2>1, LenProperties
<1>19. ASSUME NEW i \in 1 .. Len(Order) + Len(new), i \notin 1 .. Len(Order)
       PROVE  i - Len(Order) \in 1 .. Len(new) /\ Order'[i] = new[i - Len(Order)]
  <2> DEFINE j == i - Len(Order)
  <2>1. j \in 1 .. Len(new) /\ i = Len(Order) + j
    BY <1>1, <1>4, <1>19
  <2> HIDE DEF j
  <2>2. Order'[i] = new[j]
    BY <1>15, <2>1
  <2>3. QED
    BY <2>1, <2>2 DEF j
<1>20. QED
  BY <1>3, <1>7, <1>9, <1>10, <1>13, <1>14, <1>15, <1>16, <1>17, <1>18, <1>19 DEF new

-----------------------------------------------------------------------------
(* What has been queued has been queued once, is below the root, and has   *)
(* its children queued when it has been taken.                             *)
QueuedOnce ==
  /\ Order # <<>> /\ Order[1] = 1 /\ visited = Hashes(ToSet(Order))
  /\ \A i, j \in DOMAIN Order : i < j => ReprHash[Order[i]] # ReprHash[Order[j]]
  /\ ToSet(Order) \in SUBSET Reach[NumCells]
  /\ \A i \in 1 .. Len(result) : ChildHashes(Order[i]) \in SUBSET visited

QueueInv == WellFormed /\ QueueTypeOK /\ QueuedOnce

LEMMA InitIsQueuedOnce == Init => QueueInv
<1> SUFFICES ASSUME Init PROVE QueueInv
  OBVIOUS
<1>1. WellFormed /\ 1 \in Cells
  BY InitIsWellFormed, CellsAssumption DEF Cells
<1>2. QueueTypeOK
  <2>1. result = <<>> /\ queue = <<1>>
    BY DEF Init
  <2>2. QED
    BY <1>1, <2>1 DEF QueueTypeOK
<1>3. Len(result) = 0 /\ queue[1] = 1 /\ Len(queue) = 1 /\ visited = {ReprHash[1]}
  BY DEF Init
<1>4. Order \in Seq(Cells) /\ Len(Order) = 1 /\ Order[1] = 1
  BY <1>2, <1>3, OrderIs
<1>5. DOMAIN Order = 1 .. 1 /\ Order # <<>> /\ ToSet(Order) = {1}
  BY <1>4, LenProperties DEF ToSet
<1>6. 1 \in Reach[NumCells]
  BY <1>1, ReachSaturates
<1>7. QueuedOnce
  BY <1>3, <1>4, <1>5, <1>6 DEF QueuedOnce, Hashes
<1>8. QED
  BY <1>1, <1>2, <1>7 DEF QueueInv

LEMMA VisitIsQueuedOnce ==
  ASSUME QueueInv, Visit
  PROVE  QueueInv'
<1> DEFINE next == Len(result) + 1
           c    == Order[next]
           kids == Refs(c)
           new  == Unvisited(ByRefs(kids))
           len  == Len(Order)
<1>1. /\ Len(result) < len /\ c \in Cells
      /\ WellFormed' /\ QueueTypeOK'
      /\ Len(result') = next /\ Len(Order') = len + Len(new)
      /\ \A i \in 1 .. len : Order'[i] = Order[i]
      /\ \A i \in 1 .. Len(new) : Order'[len + i] = new[i]
      /\ visited' = visited \cup Hashes(ToSet(new))
      /\ DOMAIN Order' = 1 .. len + Len(new) /\ Order' # <<>>
      /\ \A i \in DOMAIN Order' : i \notin 1 .. len => i - len \in 1 .. Len(new) /\ Order'[i] = new[i - len]
  BY VisitExtends DEF QueueInv
<1>2. /\ len \in Nat /\ len >= 1 /\ Order \in Seq(Cells) /\ DOMAIN Order = 1 .. len
      /\ Len(result) \in Nat /\ next \in 1 .. len /\ next - 1 = Len(result)
  BY <1>1, OrderIs, LenProperties DEF QueueInv
<1>3. /\ new \in Seq(Cells) /\ Len(new) \in Nat /\ DOMAIN new = 1 .. Len(new)
      /\ \A p \in DOMAIN new : ReprHash[new[p]] \notin visited /\ new[p] \in ToSet(kids)
      /\ \A p, q \in DOMAIN new : p < q => ReprHash[new[p]] # ReprHash[new[q]]
      /\ \A d \in ToSet(kids) : ReprHash[d] \in visited \cup Hashes(ToSet(new))
  BY <1>1, NewIs DEF QueueInv
<1>4. ReprHash' = ReprHash /\ Reach' = Reach /\ Refs(1)' = Refs(1)
  BY DEF Visit, ReprHash, Reach, Refs, Below
<1> HIDE DEF c, kids, new, len, next
<1>5. Order'[1] = 1
  BY <1>1, <1>2 DEF QueueInv, QueuedOnce
<1>6. ToSet(Order') = ToSet(Order) \cup ToSet(new)
  <2>1. \A i \in 1 .. len : i \in DOMAIN Order'
    BY <1>1, <1>2, <1>3
  <2>2. \A i \in 1 .. Len(new) : len + i \in DOMAIN Order'
    BY <1>1, <1>2, <1>3
  <2>3. \A i \in DOMAIN Order' : Order'[i] \in ToSet(Order) \cup ToSet(new)
    BY <1>1, <1>2, <1>3 DEF ToSet
  <2>4. \A i \in 1 .. len : Order[i] \in ToSet(Order')
    BY <1>1, <2>1 DEF ToSet
  <2>5. \A i \in 1 .. Len(new) : new[i] \in ToSet(Order')
    BY <1>1, <2>2 DEF ToSet
  <2>6. QED
    BY <1>2, <1>3, <2>3, <2>4, <2>5 DEF ToSet
<1>7. visited' = Hashes(ToSet(Order))'
  <2>1. visited' = Hashes(ToSet(Order)) \cup Hashes(ToSet(new))
    BY <1>1 DEF QueueInv, QueuedOnce
  <2>2. Hashes(ToSet(Order))' = {ReprHash[d] : d \in ToSet(Order')}
    BY <1>4 DEF Hashes, ToSet
  <2>3. QED
    BY <1>6, <2>1, <2>2 DEF Hashes
<1>8. \A i \in 1 .. len : ReprHash[Order[i]] \in visited
  BY <1>2 DEF QueueInv, QueuedOnce, Hashes, ToSet
<1>9. ASSUME NEW i \in DOMAIN Order', NEW j \in DOMAIN Order', i < j
       PROVE  ReprHash[Order'[i]] # ReprHash[Order'[j]]
  <2>1. CASE j \in 1 .. len
    <3>1. i \in 1 .. len
      BY <1>1, <1>2, <1>3, <1>9, <2>1
    <3>2. QED
      BY <1>1, <1>2, <1>9, <2>1, <3>1 DEF QueueInv, QueuedOnce
  <2>2. CASE i \in 1 .. len /\ j \notin 1 .. len
    BY <1>1, <1>3, <1>8, <2>2
  <2>3. CASE i \notin 1 .. len /\ j \notin 1 .. len
    <3>1. i - len < j - len
      BY <1>1, <1>2, <1>3, <1>9
    <3>2. QED
      BY <1>1, <1>3, <2>3, <3>1
  <2>4. QED
    BY <2>1, <2>2, <2>3
<1>10. ToSet(Order') \in SUBSET Reach[NumCells]
  <2>1. c \in ToSet(Order)
    BY <1>2 DEF c, ToSet
  <2>2. c \in Reach[NumCells] /\ ToSet(Order) \in SUBSET Reach[NumCells]
    BY <2>1 DEF QueueInv, QueuedOnce
  <2>3. ToSet(kids) \in SUBSET Reach[NumCells]
    BY <2>2, ReachSaturates DEF kids, QueueInv
  <2>4. ToSet(new) \in SUBSET ToSet(kids)
    BY <1>3 DEF ToSet
  <2>5. QED
    BY <1>6, <2>2, <2>3, <2>4
<1>11. \A d : ChildHashes(d)' = ChildHashes(d)
  BY <1>4 DEF ChildHashes, Hashes, Refs, Visit
<1>12. ASSUME NEW i \in 1 .. next
       PROVE  ChildHashes(Order'[i]) \in SUBSET visited'
  <2>1. i \in 1 .. len /\ Order'[i] = Order[i]
    BY <1>1, <1>2
  <2>2. CASE i = next
    <3>1. ChildHashes(c) \in SUBSET (visited \cup Hashes(ToSet(new)))
      BY <1>3 DEF ChildHashes, Hashes, kids
    <3>2. QED
      BY <1>1, <2>1, <2>2, <3>1 DEF c
  <2>3. CASE i # next
    <3>1. i \in 1 .. Len(result)
      BY <1>2, <2>3
    <3>2. QED
      BY <1>1, <2>1, <3>1 DEF QueueInv, QueuedOnce
  <2>4. QED
    BY <2>2, <2>3
<1>13. QueuedOnce'
  <2>1. (\A i, j \in DOMAIN Order : i < j => ReprHash[Order[i]] # ReprHash[Order[j]])'
    BY <1>4, <1>9
  <2>2. (ToSet(Order) \in SUBSET Reach[NumCells])'
    BY <1>4, <1>10 DEF ToSet
  <2>3. (\A i \in 1 .. Len(result) : ChildHashes(Order[i]) \in SUBSET visited)'
    BY <1>1, <1>11, <1>12
  <2>4. QED
    BY <1>1, <1>5, <1>7, <2>1, <2>2, <2>3 DEF QueuedOnce
<1>14. QED
  BY <1>1, <1>13 DEF QueueInv

LEMMA DoneHasAll ==
  ASSUME QueueInv, Done
  PROVE  \A n \in Nat : Hashes(Reach[n]) \in SUBSET visited
<1> DEFINE Good == {n \in Nat : \A c \in Reach[n] : ReprHash[c] \in visited}
<1>1. /\ Order \in Seq(Cells) /\ DOMAIN Order = 1 .. Len(Order) /\ Len(Order) = Len(result)
      /\ Len(Order) >= 1
  <2>1. Len(queue) = 0
    BY DEF Done
  <2>2. QED
    BY <2>1, OrderIs, LenProperties DEF QueueInv, QueuedOnce
<1>2. 0 \in Good
  <2>1. \A c \in Reach[0] : c = Order[1]
    BY ReachIsDefined DEF QueueInv, QueuedOnce
  <2>2. Order[1] \in ToSet(Order)
    BY <1>1 DEF ToSet
  <2>3. QED
    BY <2>1, <2>2 DEF QueueInv, QueuedOnce, Hashes
<1>3. ASSUME NEW n \in Nat, n \in Good PROVE n + 1 \in Good
  <2> SUFFICES ASSUME NEW d \in Below(Reach[n]) PROVE ReprHash[d] \in visited
    BY <1>3, ReachIsDefined DEF QueueInv
  <2>1. PICK c \in Reach[n] : d \in ToSet(Refs(c))
    BY DEF Below
  <2>2. c \in Cells /\ ReprHash[c] \in visited /\ ReprHash[d] \in ChildHashes(c)
    BY <1>3, <2>1, ReachIsDefined DEF QueueInv, ChildHashes, Hashes
  <2>3. PICK i \in DOMAIN Order : ReprHash[c] = ReprHash[Order[i]]
    BY <2>2 DEF QueueInv, QueuedOnce, Hashes, ToSet
  <2>4. Order[i] \in Cells /\ i \in 1 .. Len(result)
    BY <1>1
  <2>5. ReprHash[d] \in ChildHashes(Order[i])
    BY <2>2, <2>3, <2>4, EqualChildren DEF QueueInv
  <2>6. QED
    BY <2>4, <2>5 DEF QueueInv, QueuedOnce
<1> HIDE DEF Good
<1>4. \A n \in Nat : n \in Good
  BY <1>2, <1>3, Induction
<1>5. QED
  BY <1>4 DEF Good, Hashes

LEMMA QueueInvFlattens == QueueInv => FlattensOnce
<1> SUFFICES ASSUME QueueInv PROVE FlattensOnce
  OBVIOUS
<1>1. /\ Len(result) \in Nat /\ DOMAIN result = 1 .. Len(result)
      /\ Order \in Seq(Cells) /\ Len(Order) = Len(result) + Len(queue) /\ Len(queue) \in Nat
      /\ DOMAIN Order = 1 .. Len(Order)
      /\ \A i \in 1 .. Len(result) : Order[i] = result[i].cell
  BY OrderIs, LenProperties DEF QueueInv
<1>2. \A i \in DOMAIN result : i \in DOMAIN Order /\ HashOf(result[i]) = ReprHash[Order[i]]
  BY <1>1 DEF HashOf
<1>3. ASSUME NEW i \in DOMAIN result, NEW j \in DOMAIN result, i # j
      PROVE  HashOf(result[i]) # HashOf(result[j])
  <2>1. i < j \/ j < i
    BY <1>1, <1>3
  <2>2. QED
    BY <1>2, <2>1 DEF QueueInv, QueuedOnce
<1>4. ASSUME Done
      PROVE  {HashOf(result[i]) : i \in DOMAIN result} = Hashes(Reach[NumCells])
  <2>1. Len(queue) = 0
    BY <1>4 DEF Done
  <2>2. DOMAIN Order = DOMAIN result
    BY <1>1, <2>1
  <2>3. visited = {HashOf(result[i]) : i \in DOMAIN result}
    BY <1>2, <2>2 DEF QueueInv, QueuedOnce, Hashes, ToSet
  <2>4. Hashes(Reach[NumCells]) \in SUBSET visited
    BY <1>4, DoneHasAll, CellsAssumption
  <2>5. visited \in SUBSET Hashes(Reach[NumCells])
    BY DEF QueueInv, QueuedOnce, Hashes
  <2>6. QED
    BY <2>3, <2>4, <2>5
<1>5. QED
  BY <1>3, <1>4 DEF FlattensOnce

LEMMA QueueInvStutters ==
  ASSUME QueueInv, UNCHANGED vars
  PROVE  QueueInv'
<1>1. UNCHANGED <<bag, queue, visited, result>>
  BY DEF vars
<1>2. ReprHash' = ReprHash /\ Reach' = Reach /\ \A c : Refs(c)' = Refs(c)
  BY <1>1 DEF ReprHash, Reach, Refs, Below
<1>3. Order' = Order /\ \A c : ChildHashes(c)' = ChildHashes(c)
  BY <1>1, <1>2 DEF Order, Ordered, ChildHashes, Hashes
<1>4. Hashes(ToSet(Order))' = Hashes(ToSet(Order)) /\ ToSet(Order)' = ToSet(Order)
  BY <1>2, <1>3 DEF Hashes, ToSet
<1>5. WellFormed' /\ QueueTypeOK'
  BY <1>1, <1>2 DEF QueueInv, WellFormed, QueueTypeOK, ToSet
<1>6. QueuedOnce'
  BY <1>1, <1>2, <1>3, <1>4 DEF QueueInv, QueuedOnce
<1>7. QED
  BY <1>5, <1>6 DEF QueueInv

LEMMA QueueInvAlways == Spec => []QueueInv
<1>1. QueueInv /\ [Next]_vars => QueueInv'
  <2> SUFFICES ASSUME QueueInv, [Next]_vars PROVE QueueInv'
    OBVIOUS
  <2>1. CASE Visit
    BY <2>1, VisitIsQueuedOnce
  <2>2. CASE UNCHANGED vars
    BY <2>2, QueueInvStutters
  <2>3. QED
    BY <2>1, <2>2 DEF Next
<1>2. QED
  BY <1>1, InitIsQueuedOnce, PTL DEF Spec

(* However the cells of a message are shared or repeated, the entries are  *)
(* the root's hash and every hash below it, each exactly once: the loop    *)
(* queues a hash once, and does not end before all of them are.            *)
THEOREM FlattensOnceAlways == Spec => []FlattensOnce
BY QueueInvAlways, QueueInvFlattens, PTL

-----------------------------------------------------------------------------
(* How far below the root a hash is.                                       *)
LEMMA DistanceIs ==
  ASSUME WellFormed, NEW h \in Hashes(Reach[NumCells])
  PROVE  /\ Distance(h) \in 0 .. NumCells /\ Distance(h) \in Nat
         /\ \A n \in Nat : h \in Hashes(Reach[n]) <=> Distance(h) <= n
<1> DEFINE At == {n \in Nat : h \in Hashes(Reach[n])}
           First(n) == h \in Hashes(Reach[n]) /\ (n > 0 => h \notin Hashes(Reach[n - 1]))
           D == Distance(h)
<1>1. NumCells \in Nat
  BY CellsAssumption
<1>2. PICK k \in At : \A n \in At : k <= n
  <2>1. At # {} /\ At \in SUBSET Nat
    BY <1>1
  <2> HIDE DEF At
  <2>2. QED
    BY <2>1, LeastElement
<1>3. k \in 0 .. NumCells /\ First(k)
  <2>1. k \in Nat /\ k <= NumCells /\ h \in Hashes(Reach[k])
    BY <1>1, <1>2
  <2>2. k > 0 => k - 1 \in Nat /\ ~(k <= k - 1)
    BY <2>1
  <2>3. QED
    BY <1>1, <1>2, <2>1, <2>2
<1>4. D = CHOOSE n \in 0 .. NumCells : First(n)
  BY Zenon DEF Distance
<1> HIDE DEF First, D
<1>5. D \in 0 .. NumCells /\ First(D)
  BY <1>3, <1>4, Zenon
<1>6. D \in Nat /\ h \in Hashes(Reach[D]) /\ (D > 0 => h \notin Hashes(Reach[D - 1]))
  BY <1>1, <1>5 DEF First
<1>7. \A n, m \in Nat : n <= m => Hashes(Reach[n]) \in SUBSET Hashes(Reach[m])
  <2> SUFFICES ASSUME NEW n \in Nat, NEW m \in Nat, n <= m
               PROVE  Hashes(Reach[n]) \in SUBSET Hashes(Reach[m])
    OBVIOUS
  <2> DEFINE apart == m - n
  <2>1. apart \in Nat /\ n + apart = m
    OBVIOUS
  <2> HIDE DEF apart
  <2>2. Reach[n] \in SUBSET Reach[m]
    BY <2>1, ReachGrows
  <2>3. QED
    BY <2>2 DEF Hashes
<1>8. ASSUME NEW n \in Nat, h \in Hashes(Reach[n]) PROVE D <= n
  <2> SUFFICES ASSUME n < D PROVE FALSE
    BY <1>6
  <2>1. D - 1 \in Nat /\ n <= D - 1 /\ D > 0
    BY <1>6
  <2>2. h \in Hashes(Reach[D - 1])
    BY <1>7, <1>8, <2>1
  <2>3. QED
    BY <1>6, <2>1, <2>2
<1>9. ASSUME NEW n \in Nat, D <= n PROVE h \in Hashes(Reach[n])
  BY <1>6, <1>7, <1>9
<1>10. QED
  BY <1>5, <1>6, <1>8, <1>9 DEF D

Rank(c) == Distance(ReprHash[c])

LEMMA RankIs ==
  ASSUME WellFormed, NEW c \in Reach[NumCells]
  PROVE  /\ Rank(c) \in Nat
         /\ \A n \in Nat : ReprHash[c] \in Hashes(Reach[n]) <=> Rank(c) <= n
BY DistanceIs DEF Rank, Hashes

(* A child is at most one level below its parent, and what is not the root *)
(* is a child of something nearer the root.                                *)
LEMMA ChildIsNextLevel ==
  ASSUME WellFormed, NEW c \in Reach[NumCells], NEW d \in ToSet(Refs(c))
  PROVE  d \in Reach[NumCells] /\ Rank(d) <= Rank(c) + 1
<1>1. c \in Cells /\ d \in Reach[NumCells] /\ Rank(c) \in Nat /\ Rank(d) \in Nat
  BY ReachSaturates, RankIs
<1>2. ReprHash[c] \in Hashes(Reach[Rank(c)])
  BY <1>1, RankIs
<1>3. PICK e \in Reach[Rank(c)] : ReprHash[e] = ReprHash[c]
  BY <1>2 DEF Hashes
<1>4. e \in Cells
  BY <1>1, ReachIsDefined
<1>5. ReprHash[d] \in ChildHashes(c)
  BY DEF ChildHashes, Hashes
<1>6. ReprHash[d] \in ChildHashes(e)
  BY <1>1, <1>3, <1>4, <1>5, EqualChildren
<1>7. ReprHash[d] \in Hashes(Below(Reach[Rank(c)]))
  BY <1>3, <1>6 DEF ChildHashes, Hashes, Below
<1>8. ReprHash[d] \in Hashes(Reach[Rank(c) + 1])
  BY <1>1, <1>7, ReachIsDefined DEF Hashes
<1>9. Rank(c) + 1 \in Nat
  BY <1>1
<1>10. QED
  BY <1>1, <1>8, <1>9, RankIs

LEMMA HasParentAbove ==
  ASSUME WellFormed, NEW d \in Reach[NumCells], Rank(d) > 0
  PROVE  \E c \in Reach[NumCells] : Rank(c) < Rank(d) /\ ReprHash[d] \in ChildHashes(c)
<1> DEFINE k == Rank(d) - 1
<1>1. Rank(d) \in Nat /\ k \in Nat /\ k + 1 = Rank(d) /\ ~(Rank(d) <= k)
  BY RankIs
<1>2. ReprHash[d] \in Hashes(Reach[k + 1]) /\ ReprHash[d] \notin Hashes(Reach[k])
  BY <1>1, RankIs
<1> HIDE DEF k
<1>3. ReprHash[d] \in Hashes(Below(Reach[k]))
  BY <1>1, <1>2, ReachIsDefined DEF Hashes
<1>4. PICK c \in Reach[k] : ReprHash[d] \in ChildHashes(c)
  BY <1>3 DEF Hashes, Below, ChildHashes
<1>5. c \in Reach[NumCells]
  BY <1>1, ReachSaturates
<1>6. Rank(c) \in Nat /\ Rank(c) <= k
  <2>1. ReprHash[c] \in Hashes(Reach[k])
    BY DEF Hashes
  <2>2. QED
    BY <1>1, <1>5, <2>1, RankIs
<1>7. QED
  BY <1>1, <1>4, <1>5, <1>6

-----------------------------------------------------------------------------
(* Level by level: what is queued is no nearer the root than what comes    *)
(* before it and at most a level below the next cell to be taken, and the  *)
(* root's children are queued all at once, those with fewer references     *)
(* first.                                                                  *)
QueuedInOrder ==
  /\ Len(result) = 0 => Len(Order) = 1
  /\ \A i, j \in DOMAIN Order : i < j => Rank(Order[i]) <= Rank(Order[j])
  /\ \A i, j \in DOMAIN Order :
       i < j /\ {ReprHash[Order[i]], ReprHash[Order[j]]} \in SUBSET ChildHashes(1)
         => Len(Refs(Order[i])) <= Len(Refs(Order[j]))
  /\ Len(result) < Len(Order) => Rank(Order[Len(Order)]) <= Rank(Order[Len(result) + 1]) + 1

LevelInv == QueueInv /\ QueuedInOrder

(* What is no further below the root than the next cell has been queued.   *)
LEMMA NearerIsVisited ==
  ASSUME LevelInv, Len(result) < Len(Order),
         NEW d \in Reach[NumCells], Rank(d) <= Rank(Order[Len(result) + 1])
  PROVE  ReprHash[d] \in visited
<1> DEFINE next == Len(result) + 1
           D    == Rank(Order[next])
           Good == {n \in Nat : \A e \in Reach[NumCells] :
                      Rank(e) <= n /\ Rank(e) <= D => ReprHash[e] \in visited}
<1>0. WellFormed /\ QueueInv
  BY DEF LevelInv, QueueInv
<1>1. /\ Order \in Seq(Cells) /\ DOMAIN Order = 1 .. Len(Order) /\ Len(Order) \in Nat
      /\ Len(result) \in Nat /\ next \in DOMAIN Order
  BY <1>0, OrderIs, LenProperties DEF QueueInv
<1>2. \A i \in DOMAIN Order : /\ Order[i] \in Reach[NumCells] /\ Order[i] \in Cells
                              /\ ReprHash[Order[i]] \in visited
  BY <1>0, <1>1 DEF QueueInv, QueuedOnce, Hashes, ToSet
<1>3. D \in Nat /\ \A e \in Reach[NumCells] : Rank(e) \in Nat /\ e \in Cells
  BY <1>0, <1>1, <1>2, RankIs, ReachSaturates
<1> HIDE DEF next
<1>4. 0 \in Good
  <2> SUFFICES ASSUME NEW e \in Reach[NumCells], Rank(e) <= 0 PROVE ReprHash[e] \in visited
    OBVIOUS
  <2>1. ReprHash[e] \in Hashes(Reach[0])
    BY <1>0, RankIs
  <2>2. ReprHash[e] = ReprHash[1] /\ Order[1] = 1 /\ 1 \in DOMAIN Order
    BY <1>0, <1>1, <2>1, ReachIsDefined DEF Hashes, QueueInv, QueuedOnce
  <2>3. QED
    BY <1>2, <2>2
<1>5. ASSUME NEW n \in Nat, n \in Good PROVE n + 1 \in Good
  <2> SUFFICES ASSUME NEW e \in Reach[NumCells], Rank(e) <= n + 1, Rank(e) <= D
               PROVE  ReprHash[e] \in visited
    OBVIOUS
  <2>1. CASE Rank(e) <= n
    BY <1>5, <2>1
  <2>2. CASE ~(Rank(e) <= n)
    <3>1. Rank(e) > 0
      BY <1>3, <2>2
    <3>2. PICK p \in Reach[NumCells] : Rank(p) < Rank(e) /\ ReprHash[e] \in ChildHashes(p)
      BY <1>0, <3>1, HasParentAbove
    <3>3. Rank(p) <= n /\ Rank(p) < D /\ Rank(p) <= D
      BY <1>3, <3>2
    <3>4. ReprHash[p] \in visited
      BY <1>5, <3>3
    <3>5. PICK i \in DOMAIN Order : ReprHash[p] = ReprHash[Order[i]]
      BY <1>0, <3>4 DEF QueueInv, QueuedOnce, Hashes, ToSet
    <3>6. Rank(Order[i]) < D
      BY <3>3, <3>5 DEF Rank
    <3>7. i < next
      <4> SUFFICES ASSUME next <= i PROVE FALSE
        BY <1>1
      <4>1. i # next
        BY <1>1, <1>3, <3>6
      <4>2. D <= Rank(Order[i])
        BY <1>1, <4>1 DEF LevelInv, QueuedInOrder
      <4>3. QED
        BY <1>2, <1>3, <3>6, <4>2
    <3>8. i \in 1 .. Len(result)
      BY <1>1, <3>7 DEF next
    <3>9. ReprHash[e] \in ChildHashes(Order[i])
      BY <1>0, <1>2, <1>3, <3>2, <3>5, EqualChildren
    <3>10. QED
      BY <1>0, <3>8, <3>9 DEF QueueInv, QueuedOnce
  <2>3. QED
    BY <2>1, <2>2
<1> HIDE DEF Good
<1>6. \A n \in Nat : n \in Good
  BY <1>4, <1>5, Induction
<1>7. Rank(d) \in Nat /\ Rank(d) <= D
  BY <1>3 DEF next
<1>8. QED
  BY <1>6, <1>7 DEF Good

LEMMA InitIsInOrder == Init => LevelInv
<1> SUFFICES ASSUME Init PROVE LevelInv
  OBVIOUS
<1>1. QueueInv
  BY InitIsQueuedOnce
<1>2. Len(result) = 0 /\ Len(queue) = 1
  BY DEF Init
<1>3. Len(Order) = 1 /\ DOMAIN Order = 1 .. 1
  BY <1>1, <1>2, OrderIs, LenProperties DEF QueueInv
<1>4. Order[1] \in Reach[NumCells]
  BY <1>1, <1>3 DEF QueueInv, QueuedOnce, ToSet
<1>5. Rank(Order[1]) \in Nat
  BY <1>1, <1>4, RankIs DEF QueueInv
<1>6. QED
  BY <1>1, <1>2, <1>3, <1>5 DEF LevelInv, QueuedInOrder

LEMMA VisitIsInOrder ==
  ASSUME LevelInv, Visit
  PROVE  LevelInv'
<1> DEFINE next == Len(result) + 1
           c    == Order[next]
           kids == Refs(c)
           new  == Unvisited(ByRefs(kids))
           len  == Len(Order)
           first(i) == ReprHash[Order[i]] \in ChildHashes(1)
<1>0. WellFormed /\ QueueTypeOK /\ QueuedOnce /\ QueueInv
  BY DEF LevelInv, QueueInv
<1>1. /\ Len(result) < len /\ c \in Cells
      /\ Len(result') = next /\ Len(Order') = len + Len(new)
      /\ \A i \in 1 .. len : Order'[i] = Order[i]
      /\ \A i \in 1 .. Len(new) : Order'[len + i] = new[i]
      /\ DOMAIN Order' = 1 .. len + Len(new)
      /\ \A i \in DOMAIN Order' : i \notin 1 .. len => i - len \in 1 .. Len(new) /\ Order'[i] = new[i - len]
  BY <1>0, VisitExtends
<1>2. /\ len \in Nat /\ len >= 1 /\ Order \in Seq(Cells) /\ DOMAIN Order = 1 .. len
      /\ Len(result) \in Nat /\ next \in 1 .. len /\ next - 1 = Len(result)
  BY <1>0, <1>1, OrderIs, LenProperties
<1>3. /\ Len(new) \in Nat /\ DOMAIN new = 1 .. Len(new)
      /\ \A p \in 1 .. Len(new) : ReprHash[new[p]] \notin visited /\ new[p] \in ToSet(kids)
      /\ \A p, q \in 1 .. Len(new) : p < q => Len(Refs(new[p])) <= Len(Refs(new[q]))
  BY <1>0, <1>1, NewIs
<1>4. \A i \in 1 .. len : /\ Order[i] \in Reach[NumCells] /\ ReprHash[Order[i]] \in visited
                          /\ Rank(Order[i]) \in Nat
  <2>1. \A i \in 1 .. len : Order[i] \in Reach[NumCells] /\ ReprHash[Order[i]] \in visited
    BY <1>0, <1>2 DEF QueuedOnce, Hashes, ToSet
  <2>2. QED
    BY <1>0, <2>1, RankIs
<1>5. c \in Reach[NumCells] /\ Rank(c) \in Nat
  BY <1>2, <1>4
<1>6. ASSUME NEW p \in 1 .. Len(new)
      PROVE  Rank(new[p]) = Rank(c) + 1
  <2> DEFINE d == new[p]
  <2>1. d \in ToSet(kids) /\ ReprHash[d] \notin visited
    BY <1>3
  <2> HIDE DEF d
  <2>2. d \in Reach[NumCells] /\ Rank(d) <= Rank(c) + 1
    BY <1>0, <1>5, <2>1, ChildIsNextLevel
  <2>3. Rank(d) \in Nat
    BY <1>0, <2>2, RankIs
  <2>4. ~(Rank(d) <= Rank(c))
    BY <1>1, <2>1, <2>2, NearerIsVisited
  <2>5. Rank(d) = Rank(c) + 1
    BY <1>5, <2>2, <2>3, <2>4
  <2>6. QED
    BY <2>5 DEF d
<1>7. ASSUME NEW i \in 1 .. len
      PROVE  Rank(Order[i]) <= Rank(c) + 1
  <2>1. Rank(Order[i]) <= Rank(Order[len])
    BY <1>2, <1>4 DEF LevelInv, QueuedInOrder
  <2>2. Rank(Order[len]) <= Rank(c) + 1
    BY <1>1 DEF LevelInv, QueuedInOrder
  <2>3. QED
    BY <1>2, <1>4, <1>5, <2>1, <2>2
<1> HIDE DEF c, kids, new, len, next
<1>8. ASSUME NEW i \in DOMAIN Order', NEW j \in DOMAIN Order', i < j
      PROVE  Rank(Order'[i]) <= Rank(Order'[j])
  <2>1. CASE j \in 1 .. len
    <3>1. i \in 1 .. len
      BY <1>1, <1>2, <1>3, <1>8, <2>1
    <3>2. QED
      BY <1>1, <1>2, <1>8, <2>1, <3>1 DEF LevelInv, QueuedInOrder
  <2>2. CASE j \notin 1 .. len
    <3>1. Rank(Order'[j]) = Rank(c) + 1
      BY <1>1, <1>6, <2>2
    <3>2. CASE i \in 1 .. len
      BY <1>1, <1>7, <3>1, <3>2
    <3>3. CASE i \notin 1 .. len
      <4>1. Rank(Order'[i]) = Rank(c) + 1
        BY <1>1, <1>6, <3>3
      <4>2. QED
        BY <1>5, <3>1, <4>1
    <3>4. QED
      BY <3>2, <3>3
  <2>3. QED
    BY <2>1, <2>2
<1>9. ASSUME NEW i \in DOMAIN Order', NEW j \in DOMAIN Order', i < j,
             {ReprHash[Order'[i]], ReprHash[Order'[j]]} \in SUBSET ChildHashes(1)
      PROVE  Len(Refs(Order'[i])) <= Len(Refs(Order'[j]))
  <2>1. CASE j \in 1 .. len
    <3>1. i \in 1 .. len
      BY <1>1, <1>2, <1>3, <1>9, <2>1
    <3>2. QED
      BY <1>1, <1>2, <1>9, <2>1, <3>1 DEF LevelInv, QueuedInOrder
  <2>2. CASE j \notin 1 .. len
    <3>1. j - len \in 1 .. Len(new) /\ Order'[j] = new[j - len]
      BY <1>1, <2>2
    <3>2. ReprHash[Order'[j]] \notin visited
      BY <1>3, <3>1
    <3>3. Len(result) = 0
      <4> SUFFICES ASSUME Len(result) # 0 PROVE FALSE
        OBVIOUS
      <4>1. 1 \in 1 .. Len(result) /\ Order[1] = 1
        BY <1>0, <1>2 DEF QueuedOnce
      <4>2. ChildHashes(1) \in SUBSET visited
        BY <1>0, <4>1 DEF QueuedOnce
      <4>3. QED
        BY <1>9, <3>2, <4>2
    <3>4. len = 1 /\ Order[1] = 1
      BY <1>0, <3>3 DEF LevelInv, QueuedInOrder, QueuedOnce, len
    <3>5. i \notin 1 .. len
      <4> SUFFICES ASSUME i \in 1 .. len PROVE FALSE
        OBVIOUS
      <4>1. Order'[i] = 1
        BY <1>1, <3>4
      <4>2. ReprHash[1] \in ChildHashes(1)
        BY <1>9, <4>1
      <4>3. 1 \in Cells
        BY CellsAssumption DEF Cells
      <4>4. QED
        BY <1>0, <4>2, <4>3, NoCellInItself
    <3>6. i - len \in 1 .. Len(new) /\ Order'[i] = new[i - len]
      BY <1>1, <3>5
    <3>7. i - len < j - len
      BY <1>1, <1>2, <1>3, <1>9
    <3>8. QED
      BY <1>3, <3>1, <3>6, <3>7
  <2>3. QED
    BY <2>1, <2>2
<1>10. ASSUME next < Len(Order')
       PROVE  Rank(Order'[Len(Order')]) <= Rank(Order'[next + 1]) + 1
  <2>1. /\ Len(Order') \in DOMAIN Order' /\ next + 1 \in DOMAIN Order' /\ next \in DOMAIN Order'
        /\ next < next + 1 /\ Order'[next] = c
    BY <1>1, <1>2, <1>3, <1>10 DEF c
  <2>2. Rank(c) <= Rank(Order'[next + 1])
    BY <1>8, <2>1
  <2>3. \A i \in DOMAIN Order' : Rank(Order'[i]) \in Nat /\ Rank(Order'[i]) <= Rank(c) + 1
    <3> SUFFICES ASSUME NEW i \in DOMAIN Order'
                 PROVE  Rank(Order'[i]) \in Nat /\ Rank(Order'[i]) <= Rank(c) + 1
      OBVIOUS
    <3>1. CASE i \in 1 .. len
      BY <1>1, <1>4, <1>7, <3>1
    <3>2. CASE i \notin 1 .. len
      <4>1. Rank(Order'[i]) = Rank(c) + 1
        BY <1>1, <1>6, <3>2
      <4>2. QED
        BY <1>5, <4>1
    <3>3. QED
      BY <3>1, <3>2
  <2>4. QED
    BY <1>5, <2>1, <2>2, <2>3
<1>11. bag' = bag
  BY DEF Visit
<1>12. ReprHash' = ReprHash /\ (\A d : Rank(d)' = Rank(d)) /\ (\A d : Refs(d)' = Refs(d))
  BY <1>11 DEF ReprHash, Rank, Distance, Hashes, Reach, Refs, Below
<1>13. ChildHashes(1)' = ChildHashes(1)
  BY <1>12 DEF ChildHashes, Hashes
<1>14. QueuedInOrder'
  <2>1. (Len(result) = 0 => Len(Order) = 1)'
    BY <1>1, <1>2
  <2>2. (\A i, j \in DOMAIN Order : i < j => Rank(Order[i]) <= Rank(Order[j]))'
    BY <1>8, <1>12
  <2>3. (\A i, j \in DOMAIN Order :
          i < j /\ {ReprHash[Order[i]], ReprHash[Order[j]]} \in SUBSET ChildHashes(1)
            => Len(Refs(Order[i])) <= Len(Refs(Order[j])))'
    BY <1>9, <1>12, <1>13
  <2>4. (Len(result) < Len(Order) => Rank(Order[Len(Order)]) <= Rank(Order[Len(result) + 1]) + 1)'
    BY <1>1, <1>10, <1>12
  <2>5. QED
    BY <2>1, <2>2, <2>3, <2>4 DEF QueuedInOrder
<1>15. QueueInv'
  BY <1>0, VisitIsQueuedOnce
<1>16. QED
  BY <1>14, <1>15 DEF LevelInv

LEMMA LevelInvOrders == LevelInv => LevelOrder
<1> SUFFICES ASSUME LevelInv PROVE LevelOrder
  OBVIOUS
<1>0. WellFormed /\ QueueTypeOK /\ QueuedOnce
  BY DEF LevelInv, QueueInv
<1>1. /\ Len(result) \in Nat /\ DOMAIN result = 1 .. Len(result)
      /\ Len(queue) \in Nat /\ Len(Order) = Len(result) + Len(queue)
      /\ DOMAIN Order = 1 .. Len(Order)
      /\ \A i \in 1 .. Len(result) : Order[i] = result[i].cell
  BY <1>0, OrderIs, LenProperties
<1>2. \A i \in DOMAIN result :
        /\ i \in DOMAIN Order /\ HashOf(result[i]) = ReprHash[Order[i]]
        /\ result[i].refs = Len(Refs(Order[i])) /\ result[i].cell = Order[i]
  BY <1>0, <1>1 DEF HashOf, QueueTypeOK
<1>3. ASSUME result # <<>> PROVE result[1].cell = 1
  <2>1. Len(result) # 0
    BY <1>0, <1>3, EmptySeq DEF QueueTypeOK
  <2>2. 1 \in DOMAIN result
    BY <1>1, <2>1
  <2>3. QED
    BY <1>0, <1>2, <2>2 DEF QueuedOnce
<1>4. ASSUME NEW i \in DOMAIN result, NEW j \in DOMAIN result, i < j
      PROVE  LET h == HashOf(result[i])  g == HashOf(result[j]) IN
             /\ Distance(h) <= Distance(g)
             /\ {h, g} \subseteq ChildHashes(1) => result[i].refs <= result[j].refs
  <2>1. Rank(Order[i]) <= Rank(Order[j])
    BY <1>2, <1>4 DEF LevelInv, QueuedInOrder
  <2>2. {ReprHash[Order[i]], ReprHash[Order[j]]} \in SUBSET ChildHashes(1)
          => Len(Refs(Order[i])) <= Len(Refs(Order[j]))
    BY <1>2, <1>4 DEF LevelInv, QueuedInOrder
  <2>3. QED
    BY <1>2, <2>1, <2>2 DEF Rank
<1>5. QED
  BY <1>3, <1>4 DEF LevelOrder

(* The entries start with the root, follow level by level as often and as  *)
(* deep as cells are shared, and the root's children come with fewer       *)
(* references first: the order in which parse_fixture and the circuit take *)
(* the first two.                                                          *)
THEOREM LevelOrderAlways == Spec => []LevelOrder
<1>1. LevelInv /\ [Next]_vars => LevelInv'
  <2> SUFFICES ASSUME LevelInv, [Next]_vars PROVE LevelInv'
    OBVIOUS
  <2>1. CASE Visit
    BY <2>1, VisitIsInOrder
  <2>2. CASE UNCHANGED vars
    <3>1. QueueInv'
      BY <2>2, QueueInvStutters DEF LevelInv
    <3>2. UNCHANGED <<bag, queue, visited, result>>
      BY <2>2 DEF vars
    <3>3. ReprHash' = ReprHash /\ (\A d : Rank(d)' = Rank(d)) /\ (\A d : Refs(d)' = Refs(d))
      BY <3>2 DEF ReprHash, Rank, Distance, Hashes, Reach, Refs, Below
    <3>4. Order' = Order /\ ChildHashes(1)' = ChildHashes(1)
      BY <3>2, <3>3 DEF Order, Ordered, ChildHashes, Hashes
    <3>5. QueuedInOrder'
      BY <3>2, <3>3, <3>4 DEF LevelInv, QueuedInOrder
    <3>6. QED
      BY <3>1, <3>5 DEF LevelInv
  <2>3. QED
    BY <2>1, <2>2 DEF Next
<1>2. QED
  BY <1>1, InitIsInOrder, LevelInvOrders, PTL DEF Spec

-----------------------------------------------------------------------------
(* Level masks.                                                            *)
LEMMA MaskIsDefined ==
  ASSUME WellFormed, NEW c \in Cells
  PROVE  Mask[c] = MaskValue(Mask, c)
<1> DEFINE what == "mask"
<1>1. NumCells \in Nat /\ what = "mask" /\ what \in {"bags", "hash", "mask"} /\ Cells = 1 .. NumCells
  BY CellsAssumption DEF Cells
<1>2. ASSUME NEW g, NEW h, NEW d \in Cells, \A e \in d + 1 .. NumCells : g[e] = h[e]
      PROVE  MaskValue(g, d) = MaskValue(h, d)
  <2>1. ASSUME NEW i \in DOMAIN Refs(d)
        PROVE  g[Refs(d)[i]] = h[Refs(d)[i]]
    <3>1. Refs(d)[i] \in d + 1 .. NumCells
      BY RefsAre DEF Cells
    <3>2. QED
      BY <1>2, <3>1
  <2>2. MasksBelow(g, d) = MasksBelow(h, d)
    BY <2>1 DEF MasksBelow
  <2>3. QED
    BY <2>2 DEF MaskValue
<1> HIDE DEF what
<1>3. \A g, h : \A d \in 1 .. NumCells :
        (\A e \in d + 1 .. NumCells : g[e] = h[e]) => CellValue(what, g, d) = CellValue(what, h, d)
  BY <1>1, <1>2 DEF CellValue
<1>4. \E f : f = [d \in 1 .. NumCells |-> CellValue(what, f, d)]
  BY <1>1, <1>3, FromLaterCells
<1>5. \E f : f = [d \in Cells |-> MaskValue(f, d)]
  BY <1>1, <1>4 DEF CellValue
<1> DEFINE Value(f, d) ==
             LET below == UNION {f[Refs(d)[i]] : i \in DOMAIN Refs(d)}
             IN  CASE bag[d].payload.type = "pruned" -> bag[d].payload.mask
                   [] bag[d].payload.type = "merkle" -> {l - 1 : l \in below \ {1}}
                   [] OTHER -> below
<1>6. \A f : [d \in Cells |-> MaskValue(f, d)] = [d \in Cells |-> Value(f, d)]
  BY DEF MaskValue, MasksBelow
<1>7. \E f : f = [d \in Cells |-> Value(f, d)]
  <2>1. PICK f : f = [d \in Cells |-> MaskValue(f, d)]
    BY <1>5
  <2>2. [d \in Cells |-> MaskValue(f, d)] = [d \in Cells |-> Value(f, d)]
    BY <1>6
  <2> HIDE DEF Value
  <2>3. f = [d \in Cells |-> Value(f, d)]
    BY <2>1, <2>2
  <2>4. QED
    BY <2>3
<1>8. Mask = CHOOSE f : f = [d \in Cells |-> Value(f, d)]
  BY Zenon DEF Mask
<1> HIDE DEF Value
<1>9. Mask = [d \in Cells |-> Value(Mask, d)]
  BY <1>7, <1>8, Zenon
<1>10. Mask = [d \in Cells |-> MaskValue(Mask, d)]
  BY <1>6, <1>9
<1>11. QED
  BY <1>10

LEMMA MasksAre ==
  ASSUME WellFormed
  PROVE  \A c \in Cells : Mask[c] \in SUBSET (1 .. 3)
<1> DEFINE Wrong == {n \in 0 .. NumCells : NumCells - n \in Cells
                       /\ Mask[NumCells - n] \notin SUBSET (1 .. 3)}
<1> SUFFICES ASSUME NEW c \in Cells, Mask[c] \notin SUBSET (1 .. 3) PROVE FALSE
  OBVIOUS
<1>1. NumCells \in Nat /\ \A d \in Cells : d \in Nat /\ d <= NumCells
  BY CellsAssumption DEF Cells
<1>2. NumCells - c \in Wrong
  BY <1>1
<1>3. PICK n \in Wrong : \A m \in Wrong : n <= m
  <2>1. Wrong # {} /\ Wrong \in SUBSET Nat
    BY <1>1, <1>2
  <2> HIDE DEF Wrong
  <2>2. QED
    BY <2>1, LeastElement
<1> DEFINE d == NumCells - n
<1>4. d \in Cells /\ Mask[d] \notin SUBSET (1 .. 3) /\ n \in Nat
  BY <1>1, <1>3
<1>5. ASSUME NEW i \in DOMAIN Refs(d)
      PROVE  Mask[Refs(d)[i]] \in SUBSET (1 .. 3)
  <2> DEFINE e == Refs(d)[i]
             m == NumCells - e
  <2>1. e \in Cells /\ e > d
    BY <1>4, RefsAre
  <2> HIDE DEF e
  <2>2. m \in 0 .. NumCells /\ NumCells - m = e /\ ~(n <= m)
    BY <1>1, <1>4, <2>1
  <2> HIDE DEF m
  <2>3. m \notin Wrong
    BY <1>3, <2>2
  <2>4. Mask[e] \in SUBSET (1 .. 3)
    BY <2>1, <2>2, <2>3
  <2>5. QED
    BY <2>4 DEF e
<1> HIDE DEF d
<1>6. MasksBelow(Mask, d) \in SUBSET (1 .. 3)
  BY <1>5 DEF MasksBelow
<1>7. bag[d].payload.mask \in SUBSET (1 .. 3)
  <2>1. bag[d].payload \in Payloads
    BY <1>4 DEF WellFormed
  <2>2. QED
    BY <2>1, CellsAssumption
<1>8. \A l \in MasksBelow(Mask, d) \ {1} : l - 1 \in 1 .. 3
  BY <1>6
<1>9. MaskValue(Mask, d) \in SUBSET (1 .. 3)
  BY <1>6, <1>7, <1>8 DEF MaskValue
<1>10. QED
  BY <1>4, <1>9, MaskIsDefined

LEMMA HighestIs ==
  ASSUME NEW mask \in SUBSET (1 .. 3)
  PROVE  /\ Highest(mask) \in 0 .. 3 /\ \A l \in mask : l <= Highest(mask)
         /\ mask # {} => Highest(mask) \in mask
         /\ Highest(mask) = 0 <=> mask = {}
<1>1. CASE mask = {}
  BY <1>1 DEF Highest
<1>2. CASE mask # {}
  <2>1. \E x \in mask : \A y \in mask : x >= y
    <3>1. CASE 3 \in mask
      BY <3>1
    <3>2. CASE 3 \notin mask /\ 2 \in mask
      BY <3>2
    <3>3. CASE 3 \notin mask /\ 2 \notin mask
      <4>1. \A y \in mask : y = 1
        BY <3>3
      <4>2. 1 \in mask
        BY <1>2, <4>1
      <4>3. \A y \in mask : 1 >= y
        BY <4>1
      <4>4. QED
        BY <4>2, <4>3
    <3>4. QED
      BY <3>1, <3>2, <3>3
  <2> DEFINE most == CHOOSE x \in mask : \A y \in mask : x >= y
  <2>2. most \in mask /\ \A y \in mask : most >= y
    BY <2>1
  <2>3. Highest(mask) = most
    BY <1>2, Zenon DEF Highest, Max
  <2> HIDE DEF most
  <2>4. QED
    BY <1>2, <2>2, <2>3
<1>3. QED
  BY <1>1, <1>2

(* At the level at which a cell's data takes its children's hashes, these  *)
(* are the children's representation hashes.                               *)
LEMMA ChildHashIsRepr ==
  ASSUME WellFormed, NEW c \in Cells, NEW i \in DOMAIN Refs(c)
  PROVE  HashAt(Refs(c)[i], ChildLevel(c)) = <<"repr", ReprHash[Refs(c)[i]]>>
<1> DEFINE d == Refs(c)[i]
           type == bag[c].payload.type
<1>1. d \in Cells /\ Mask[c] \in SUBSET (1 .. 3) /\ Mask[d] \in SUBSET (1 .. 3)
  BY RefsAre, MasksAre
<1>2. /\ Level(c) \in 0 .. 3 /\ \A l \in Mask[c] : l <= Level(c)
      /\ Level(d) \in 0 .. 3
      /\ Level(d) # 0 => Level(d) \in Mask[d]
  BY <1>1, HighestIs DEF Level
<1>3. type # "pruned"
  <2>1. DOMAIN Refs(c) # {}
    OBVIOUS
  <2>2. Refs(c) # <<>>
    BY <2>1
  <2>3. QED
    BY <2>2 DEF WellFormed
<1>4. Mask[d] \in SUBSET MasksBelow(Mask, c)
  BY DEF MasksBelow
<1>5. Level(d) <= ChildLevel(c)
  <2>1. CASE type = "merkle"
    <3>1. ChildLevel(c) = Level(c) + 1
      BY <2>1, <1>3 DEF ChildLevel, ReprIndex
    <3>2. CASE Level(d) <= 1
      BY <1>2, <3>1, <3>2
    <3>3. CASE ~(Level(d) <= 1)
      <4>1. Level(d) \in MasksBelow(Mask, c) \ {1}
        BY <1>2, <1>4, <3>3
      <4>2. Mask[c] = {l - 1 : l \in MasksBelow(Mask, c) \ {1}}
        BY <2>1, MaskIsDefined DEF MaskValue
      <4>3. Level(d) - 1 <= Level(c)
        BY <1>2, <4>1, <4>2
      <4>4. QED
        BY <1>2, <3>1, <4>3
    <3>4. QED
      BY <3>2, <3>3
  <2>2. CASE type # "merkle"
    <3>1. ChildLevel(c) = Level(c) + 0
      BY <1>3, <2>2 DEF ChildLevel, ReprIndex
    <3>2. Mask[c] = MasksBelow(Mask, c)
      BY <1>3, <2>2, MaskIsDefined DEF MaskValue
    <3>3. Level(d) # 0 => Level(d) <= Level(c)
      BY <1>2, <1>4, <3>2
    <3>4. QED
      BY <1>2, <3>1, <3>3
  <2>3. QED
    BY <2>1, <2>2
<1>6. ChildLevel(c) \in Nat
  BY <1>2 DEF ChildLevel, ReprIndex
<1>7. QED
  BY <1>2, <1>5, <1>6 DEF HashAt

-----------------------------------------------------------------------------
(* What build_cell_repr_data writes, and where.                            *)

(* Sequences of one length, one after the other.                           *)

Before(i, size) == (i - 1) * size

LEMMA EqualParts ==
  ASSUME NEW S, NEW seqs \in Seq(Seq(S)), NEW size \in Nat, \A i \in 1 .. Len(seqs) : Len(seqs[i]) = size
  PROVE  /\ FlattenSeq(seqs) \in Seq(S) /\ Len(FlattenSeq(seqs)) = Len(seqs) * size
         /\ \A i \in 1 .. Len(seqs) : \A j \in 1 .. size : FlattenSeq(seqs)[Before(i, size) + j] = seqs[i][j]
<1> DEFINE len  == Len(seqs)
           join == Joined(seqs)
           Fits(k) == /\ Len(join[k]) = k * size
                      /\ \A i \in 1 .. k : \A j \in 1 .. size : join[k][(i - 1) * size + j] = seqs[i][j]
           Good == {k \in Nat : k >= 1 /\ k <= len => Fits(k)}
<1>1. len \in Nat /\ \A i \in 1 .. len : seqs[i] \in Seq(S) /\ Len(seqs[i]) = size
  BY LenProperties, ElementOfSeq
<1>2. \A k \in 1 .. len : join[k] = JoinValue(seqs, join, k) /\ join[k] \in Seq(S)
  BY <1>1, JoinedIsDefined, JoinedHolds DEF Holds
<1>3. CASE len = 0
  <2>1. FlattenSeq(seqs) = seqs /\ seqs = <<>>
    BY <1>3, EmptySeq DEF FlattenSeq
  <2>2. 0 * size = 0
    OBVIOUS
  <2>3. QED
    BY <1>3, <2>1, <2>2
<1> HIDE DEF join, len
<1>4. 0 \in Good
  OBVIOUS
<1>5. ASSUME NEW k \in Nat, k \in Good
      PROVE  k + 1 \in Good
  <2> SUFFICES ASSUME k + 1 <= len PROVE Fits(k + 1)
    OBVIOUS
  <2> DEFINE n == k + 1
  <2>1. n \in 1 .. len /\ n - 1 = k
    BY <1>1
  <2>2. CASE k = 0
    <3>1. join[1] = seqs[1] /\ Len(seqs[1]) = size /\ n = 1
      BY <1>1, <1>2, <2>1, <2>2 DEF JoinValue
    <3>2. 1 * size = size /\ (1 - 1) * size = 0 /\ \A j \in 1 .. size : 0 + j = j
      OBVIOUS
    <3>3. Fits(1)
      BY <3>1, <3>2
    <3>4. QED
      BY <3>1, <3>3
  <2>3. CASE k # 0
    <3> DEFINE before == k * size
    <3>1. k \in 1 .. len /\ Fits(k)
      BY <1>1, <1>5, <2>3
    <3>2. join[n] = join[k] \o seqs[n]
      <4>1. n # 1 /\ n - 1 = k
        BY <2>1, <2>3
      <4> HIDE DEF n
      <4>2. QED
        BY <1>2, <2>1, <4>1 DEF JoinValue
    <3>3. join[k] \in Seq(S) /\ seqs[n] \in Seq(S) /\ Len(seqs[n]) = size
      BY <1>1, <1>2, <2>1, <3>1
    <3>4. before \in Nat /\ Len(join[k]) = before /\ n * size = before + size
      <4>1. k * size \in Nat /\ (k + 1) * size = k * size + size
        OBVIOUS
      <4>2. QED
        BY <3>1, <4>1
    <3> HIDE DEF before
    <3>5. /\ Len(join[n]) = before + size
          /\ \A p \in 1 .. before + size : join[n][p] = IF p <= before THEN join[k][p] ELSE seqs[n][p - before]
      <4> HIDE DEF n
      <4> DEFINE s == join[k]
                 t == seqs[n]
      <4>1. s \in Seq(S) /\ t \in Seq(S)
        BY <3>3
      <4>2. join[n] = s \o t /\ Len(s) = before /\ Len(t) = size
        BY <3>2, <3>3, <3>4
      <4> HIDE DEF s, t
      <4>3. /\ Len(s \o t) = Len(s) + Len(t)
            /\ \A p \in 1 .. Len(s) + Len(t) : (s \o t)[p] = IF p <= Len(s) THEN s[p] ELSE t[p - Len(s)]
        BY <4>1, ConcatProperties
      <4>4. /\ Len(join[n]) = before + size
            /\ \A p \in 1 .. before + size : join[n][p] = IF p <= before THEN s[p] ELSE t[p - before]
        BY <4>2, <4>3
      <4>5. QED
        BY <4>4 DEF s, t
    <3>6. ASSUME NEW i \in 1 .. n, NEW j \in 1 .. size
          PROVE  join[n][(i - 1) * size + j] = seqs[i][j]
      <4> DEFINE p == (i - 1) * size + j
      <4>1. CASE i <= k
        <5>1. i \in 1 .. k /\ i * size <= before /\ (i - 1) * size = i * size - size
          BY <4>1, ScaleLeq DEF before
        <5>2. (i - 1) * size \in Nat
          <6>1. i - 1 \in Nat
            OBVIOUS
          <6>2. QED
            BY <6>1
        <5>3. p \in 1 .. before + size /\ p <= before
          <6> DEFINE x == (i - 1) * size
                     y == i * size
          <6>1. x \in Nat /\ y = x + size /\ y <= before /\ p = x + j
            <7>1. i * size = (i - 1) * size + size
              OBVIOUS
            <7>2. QED
              BY <5>1, <5>2, <7>1
          <6> HIDE DEF x, y, p
          <6>2. QED
            BY <3>4, <6>1
        <5>4. join[k][p] = seqs[i][j]
          BY <3>1, <5>1
        <5> HIDE DEF p
        <5>5. join[n][p] = seqs[i][j]
          BY <3>5, <5>3, <5>4
        <5>6. QED
          BY <5>5 DEF p
      <4>2. CASE ~(i <= k)
        <5>1. i = n /\ (i - 1) * size = before
          BY <4>2, <2>1 DEF before
        <5>2. p = before + j /\ p \in 1 .. before + size /\ ~(p <= before) /\ p - before = j
          BY <3>4, <5>1
        <5> HIDE DEF p
        <5>3. join[n][p] = seqs[i][j]
          BY <3>5, <5>1, <5>2
        <5>4. QED
          BY <5>3 DEF p
      <4>3. QED
        BY <4>1, <4>2
    <3>7. Len(join[n]) = n * size
      BY <3>4, <3>5
    <3>8. QED
      BY <3>6, <3>7
  <2>4. QED
    BY <2>2, <2>3
<1> HIDE DEF Good
<1>6. \A k \in Nat : k \in Good
  BY <1>4, <1>5, Induction
<1>7. CASE len # 0
  <2>1. len \in 1 .. len /\ FlattenSeq(seqs) = join[len]
    BY <1>1, <1>7, FlattenIsJoined DEF len, join
  <2>2. Fits(len)
    BY <1>1, <1>6, <2>1 DEF Good
  <2>3. QED
    BY <1>2, <2>1, <2>2 DEF len, Before
<1>8. QED
  BY <1>3, <1>7

(* Kept whole in the leaves that cite the lemmas about them.               *)
IsSeq(s)                == s \in Seq(ToSet(s))
HasBytes(data, at, size, of) == \A j \in 1 .. size : data[at + j] = <<of[1], of[2], j>>
Slice(data, at, size)   == SubSeq(data, at + 1, at + size)
Spliced(s, t)           == s \o t
Parts(c, of, size)      == FlattenSeq([i \in DOMAIN Refs(c) |-> Bytes(of[i], size)])

LEMMA SequencesAre == \A S : \A s \in Seq(S) : IsSeq(s)
<1> SUFFICES ASSUME NEW S, NEW s \in Seq(S) PROVE s \in Seq(ToSet(s))
  BY DEF IsSeq
<1> DEFINE T == ToSet(s)
<1>1. Len(s) \in Nat /\ s = [i \in 1 .. Len(s) |-> s[i]] /\ \A i \in 1 .. Len(s) : s[i] \in T
  BY DEF ToSet
<1> HIDE DEF T
<1>2. QED
  BY <1>1 DEF T

LEMMA BytesAre ==
  ASSUME NEW of, NEW size \in Nat
  PROVE  /\ IsSeq(Bytes(of, size)) /\ Len(Bytes(of, size)) = size
         /\ DOMAIN Bytes(of, size) = 1 .. size
         /\ \A j \in 1 .. size : Bytes(of, size)[j] = <<of[1], of[2], j>>
<1> DEFINE byte(j) == <<of[1], of[2], j>>
           b == [j \in 1 .. size |-> byte(j)]
           S == ToSet(b)
<1>1. Bytes(of, size) = b
  BY DEF Bytes
<1> HIDE DEF byte
<1>2. \A j \in 1 .. size : byte(j) \in S
  BY DEF ToSet
<1> HIDE DEF S
<1>3. b \in Seq(S) /\ Len(b) = size /\ DOMAIN b = 1 .. size /\ \A j \in 1 .. size : b[j] = byte(j)
  BY <1>2
<1>4. QED
  BY <1>1, <1>3, SequencesAre DEF byte

LEMMA SliceIs ==
  ASSUME NEW data, IsSeq(data), NEW at \in Nat, NEW size \in Nat, at + size <= Len(data), NEW of,
         HasBytes(data, at, size, of)
  PROVE  Slice(data, at, size) = Bytes(of, size)
<1> DEFINE slice == SubSeq(data, at + 1, at + size)
           byte(j) == <<of[1], of[2], j>>
           S == ToSet(data)
<1>1. slice = [j \in 1 .. size |-> data[at + j]]
  <2>1. data \in Seq(S)
    BY DEF IsSeq
  <2> HIDE DEF S
  <2>2. Len(data) \in Nat
    BY <2>1, LenProperties
  <2>3. QED
    BY <2>1, <2>2
<1>2. \A j \in 1 .. size : data[at + j] = byte(j)
  BY DEF HasBytes
<1> HIDE DEF slice, byte
<1>3. slice = [j \in 1 .. size |-> byte(j)]
  BY <1>1, <1>2
<1>4. QED
  BY <1>3 DEF Slice, Bytes, slice, byte

LEMMA SplicedAre ==
  ASSUME NEW s, NEW t, IsSeq(s), IsSeq(t)
  PROVE  /\ IsSeq(Spliced(s, t)) /\ Len(Spliced(s, t)) = Len(s) + Len(t)
         /\ Len(s) \in Nat /\ Len(t) \in Nat
         /\ \A j \in 1 .. Len(s) : Spliced(s, t)[j] = s[j]
         /\ \A j \in 1 .. Len(t) : Spliced(s, t)[Len(s) + j] = t[j]
<1> DEFINE A == ToSet(s)
           B == ToSet(t)
           S == A \cup B
           u == s \o t
<1>1. s \in Seq(S) /\ t \in Seq(S) /\ Len(s) \in Nat /\ Len(t) \in Nat
  <2>1. s \in Seq(A) /\ t \in Seq(B)
    BY DEF IsSeq
  <2> HIDE DEF A, B
  <2>2. QED
    BY <2>1, LenProperties
<1> HIDE DEF S
<1>2. /\ u \in Seq(S) /\ Len(u) = Len(s) + Len(t)
      /\ \A j \in 1 .. Len(s) + Len(t) : u[j] = IF j <= Len(s) THEN s[j] ELSE t[j - Len(s)]
  BY <1>1, ConcatProperties
<1> HIDE DEF u
<1>3. \A j \in 1 .. Len(s) : u[j] = s[j]
  BY <1>1, <1>2
<1>4. ASSUME NEW j \in 1 .. Len(t)
      PROVE  u[Len(s) + j] = t[j]
  <2> DEFINE p == Len(s) + j
  <2>1. p \in 1 .. Len(s) + Len(t) /\ ~(p <= Len(s)) /\ p - Len(s) = j
    BY <1>1
  <2> HIDE DEF p
  <2>2. u[p] = t[j]
    BY <1>2, <2>1
  <2>3. QED
    BY <2>2 DEF p
<1>5. IsSeq(u) /\ u = Spliced(s, t)
  BY <1>2, SequencesAre DEF u, Spliced
<1>6. QED
  BY <1>1, <1>2, <1>3, <1>4, <1>5

DepthsPart(c) == FlattenSeq([i \in DOMAIN Refs(c) |-> DepthBytes(Refs(c)[i])])
HashesPart(c) == FlattenSeq([i \in DOMAIN Refs(c) |-> Bytes(HashAt(Refs(c)[i], ChildLevel(c)), HashSize)])

LEMMA CeilBytesIs ==
  ASSUME NEW bits \in 0 .. 1023
  PROVE  CeilBytes(bits) \in Nat /\ CeilBytes(bits) = (D2(bits) \div 2) + (D2(bits) % 2)
<1> DEFINE whole == bits \div 8
           half  == IF bits % 8 # 0 THEN 1 ELSE 0
<1>1. whole \in Nat /\ half \in {0, 1}
  OBVIOUS
<1>2. CeilBytes(bits) = whole + half /\ D2(bits) = whole * 2 + half
  BY DEF CeilBytes, D2
<1> HIDE DEF whole, half
<1>3. (whole * 2 + half) \div 2 = whole /\ (whole * 2 + half) % 2 = half
  BY <1>1
<1>4. QED
  BY <1>1, <1>2, <1>3

LEMMA DataPartIs ==
  ASSUME WellFormed, NEW c \in Cells
  PROVE  /\ IsSeq(DataPart(c)) /\ Len(DataPart(c)) \in Nat
         /\ ReprIndex(c) = 0 => Len(DataPart(c)) = CeilBytes(bag[c].payload.bits)
<1>1. CeilBytes(bag[c].payload.bits) \in Nat /\ HashSize \in Nat
  <2>1. bag[c].payload.bits \in 0 .. 1023
    <3>1. bag[c].payload \in Payloads
      BY DEF WellFormed
    <3>2. QED
      BY <3>1, CellsAssumption
  <2>2. QED
    BY <2>1, CeilBytesIs, CellsAssumption
<1>2. CASE ReprIndex(c) = 0
  <2>1. DataPart(c) = Bytes(<<"data", bag[c].payload>>, CeilBytes(bag[c].payload.bits))
    BY <1>2 DEF DataPart, PayloadBytes
  <2>2. QED
    BY <1>1, <2>1, BytesAre
<1>3. CASE ReprIndex(c) # 0
  <2>1. DataPart(c) = Bytes(HashAt(c, ReprIndex(c) - 1), HashSize)
    BY <1>3 DEF DataPart
  <2>2. QED
    BY <1>1, <1>3, <2>1, BytesAre
<1>4. QED
  BY <1>2, <1>3

(* Parts of one length, one for each reference.                            *)
LEMMA PartsAre ==
  ASSUME WellFormed, NEW c \in Cells, NEW of, NEW size \in Nat,
         NEW n, n = Len(Refs(c))
  PROVE  /\ IsSeq(Parts(c, of, size))
         /\ Len(Parts(c, of, size)) = n * size
         /\ \A i \in 1 .. n : HasBytes(Parts(c, of, size), Before(i, size), size, of[i])
<1> DEFINE part(i) == Bytes(of[i], size)
           seqs == [i \in DOMAIN Refs(c) |-> part(i)]
           S == UNION {ToSet(part(i)) : i \in 1 .. n}
<1>1. n \in Nat /\ DOMAIN Refs(c) = 1 .. n
  BY RefsAre
<1>2. \A i \in 1 .. n : /\ IsSeq(part(i)) /\ Len(part(i)) = size
                        /\ DOMAIN part(i) = 1 .. size
                        /\ \A j \in 1 .. size : part(i)[j] = <<of[i][1], of[i][2], j>>
  BY BytesAre
<1> HIDE DEF part
<1>3. \A i \in 1 .. n : part(i) \in Seq(S)
  <2> SUFFICES ASSUME NEW i \in 1 .. n PROVE part(i) \in Seq(S)
    OBVIOUS
  <2>1. ToSet(part(i)) \in SUBSET S
    OBVIOUS
  <2> HIDE DEF S
  <2>2. part(i) \in Seq(ToSet(part(i)))
    BY <1>2 DEF IsSeq
  <2>3. QED
    BY <2>1, <2>2
<1> HIDE DEF S
<1>4. seqs \in Seq(Seq(S)) /\ Len(seqs) = n /\ \A i \in 1 .. n : seqs[i] = part(i)
  BY <1>1, <1>3
<1> HIDE DEF seqs
<1>5. \A i \in 1 .. Len(seqs) : Len(seqs[i]) = size
  BY <1>2, <1>4
<1>6. /\ FlattenSeq(seqs) \in Seq(S) /\ Len(FlattenSeq(seqs)) = n * size
      /\ \A i \in 1 .. n : \A j \in 1 .. size : FlattenSeq(seqs)[Before(i, size) + j] = seqs[i][j]
  <2>1. /\ FlattenSeq(seqs) \in Seq(S) /\ Len(FlattenSeq(seqs)) = Len(seqs) * size
        /\ \A i \in 1 .. Len(seqs) : \A j \in 1 .. size : FlattenSeq(seqs)[Before(i, size) + j] = seqs[i][j]
    BY <1>4, <1>5, EqualParts
  <2>2. QED
    BY <1>4, <2>1
<1>7. \A i \in 1 .. n : HasBytes(FlattenSeq(seqs), Before(i, size), size, of[i])
  <2> SUFFICES ASSUME NEW i \in 1 .. n, NEW j \in 1 .. size
               PROVE  FlattenSeq(seqs)[Before(i, size) + j] = <<of[i][1], of[i][2], j>>
    BY DEF HasBytes
  <2>1. FlattenSeq(seqs)[Before(i, size) + j] = seqs[i][j]
    BY <1>6
  <2>2. seqs[i] = part(i) /\ part(i)[j] = <<of[i][1], of[i][2], j>>
    BY <1>2, <1>4
  <2>3. QED
    BY <2>1, <2>2
<1>8. Parts(c, of, size) = FlattenSeq(seqs)
  BY DEF Parts, seqs, part
<1>9. IsSeq(FlattenSeq(seqs))
  BY <1>6, SequencesAre
<1>10. QED
  BY <1>6, <1>7, <1>8, <1>9

LEMMA ReprDataIs ==
  ASSUME WellFormed, NEW c \in Cells
  PROVE  LET data == ReprData(c)  n == Len(Refs(c)) IN
         /\ IsSeq(data)
         /\ Len(data) \in Nat /\ 2 + Len(DataPart(c)) <= Len(data)
         /\ data[1] = Byte(D1(c)) /\ data[2] = Byte(D2(bag[c].payload.bits))
         /\ \A j \in 1 .. Len(DataPart(c)) : data[2 + j] = DataPart(c)[j]
         /\ Len(data) - n * HashSize \in Nat
         /\ \A i \in 1 .. n :
              HasBytes(data, (Len(data) - n * HashSize) + Before(i, HashSize), HashSize,
                       <<"repr", ReprHash[Refs(c)[i]]>>)
<1> DEFINE n      == Len(Refs(c))
           head   == <<Byte(D1(c)), Byte(D2(bag[c].payload.bits))>>
           part   == DataPart(c)
           first  == Spliced(head, part)
           depths == DepthsPart(c)
           front  == Spliced(first, depths)
           hashes == HashesPart(c)
           data   == ReprData(c)
           total  == n * HashSize
<1>1. n \in Nat /\ DOMAIN Refs(c) = 1 .. n /\ HashSize \in Nat /\ DepthSize \in Nat
  BY RefsAre, CellsAssumption
<1>2. data = Spliced(front, hashes)
  BY DEF ReprData, DepthsPart, HashesPart, Spliced
<1>head. head \in Seq({Byte(D1(c)), Byte(D2(bag[c].payload.bits))})
  OBVIOUS
<1>3. IsSeq(head) /\ Len(head) = 2 /\ head[1] = Byte(D1(c)) /\ head[2] = Byte(D2(bag[c].payload.bits))
  BY <1>head, SequencesAre
<1>4. IsSeq(part) /\ Len(part) \in Nat
  BY DataPartIs
<1>5. IsSeq(depths)
  <2> DEFINE of == [i \in DOMAIN Refs(c) |-> <<"depth", ReprHash[Refs(c)[i]]>>]
  <2>1. depths = Parts(c, of, DepthSize)
    BY DEF DepthsPart, DepthBytes, Parts
  <2> HIDE DEF of
  <2>2. QED
    BY <1>1, <2>1, PartsAre
<1>6. /\ IsSeq(hashes)
      /\ Len(hashes) = total
      /\ \A i \in 1 .. n :
           HasBytes(hashes, Before(i, HashSize), HashSize, <<"repr", ReprHash[Refs(c)[i]]>>)
  <2> DEFINE hash(i) == HashAt(Refs(c)[i], ChildLevel(c))
             of == [i \in DOMAIN Refs(c) |-> hash(i)]
  <2>1. hashes = Parts(c, of, HashSize)
    BY DEF HashesPart, Parts
  <2>2. \A i \in 1 .. n : of[i] = <<"repr", ReprHash[Refs(c)[i]]>>
    BY <1>1, ChildHashIsRepr
  <2> HIDE DEF of, hashes
  <2>3. IsSeq(hashes) /\ Len(hashes) = n * HashSize
    BY <1>1, <2>1, PartsAre
  <2>4. \A i \in 1 .. n : HasBytes(hashes, Before(i, HashSize), HashSize, of[i])
    BY <1>1, <2>1, PartsAre
  <2>5. QED
    BY <2>2, <2>3, <2>4 DEF total
<1> HIDE DEF head, part, depths, hashes, data, n
<1>9. /\ IsSeq(first) /\ Len(first) = 2 + Len(part)
      /\ first[1] = head[1] /\ first[2] = head[2]
      /\ \A j \in 1 .. Len(part) : first[2 + j] = part[j]
  <2>1. /\ IsSeq(first) /\ Len(first) = Len(head) + Len(part)
        /\ \A j \in 1 .. Len(head) : first[j] = head[j]
        /\ \A j \in 1 .. Len(part) : first[Len(head) + j] = part[j]
    BY <1>3, <1>4, SplicedAre
  <2> HIDE DEF first
  <2>2. QED
    BY <1>3, <2>1
<1> HIDE DEF first
<1>10. /\ IsSeq(front) /\ Len(front) = Len(first) + Len(depths) /\ Len(depths) \in Nat
       /\ \A j \in 1 .. Len(first) : front[j] = first[j]
  BY <1>5, <1>9, SplicedAre
<1> HIDE DEF front
<1>11. /\ IsSeq(data) /\ Len(data) = Len(front) + total /\ Len(front) \in Nat /\ total \in Nat
       /\ \A j \in 1 .. Len(front) : data[j] = front[j]
       /\ \A j \in 1 .. total : data[Len(front) + j] = hashes[j]
  <2>1. /\ IsSeq(data) /\ Len(data) = Len(front) + Len(hashes)
        /\ Len(front) \in Nat /\ Len(hashes) \in Nat
        /\ \A j \in 1 .. Len(front) : data[j] = front[j]
        /\ \A j \in 1 .. Len(hashes) : data[Len(front) + j] = hashes[j]
    <3>1. IsSeq(hashes)
      BY <1>6
    <3>2. QED
      BY <1>2, <3>1, <1>10, SplicedAre
  <2>2. QED
    BY <1>6, <2>1
<1>12. /\ Len(data) \in Nat /\ 2 + Len(part) <= Len(data) /\ Len(data) - total = Len(front)
       /\ \A j \in 1 .. 2 + Len(part) : j \in 1 .. Len(first) /\ j \in 1 .. Len(front) /\ data[j] = first[j]
  BY <1>4, <1>9, <1>10, <1>11
<1>13. data[1] = Byte(D1(c)) /\ data[2] = Byte(D2(bag[c].payload.bits))
  BY <1>3, <1>4, <1>9, <1>12
<1>14. ASSUME NEW j \in 1 .. Len(part)
       PROVE  data[2 + j] = part[j]
  <2> DEFINE p == 2 + j
  <2>1. p \in 1 .. 2 + Len(part)
    BY <1>4
  <2>2. first[p] = part[j]
    BY <1>9
  <2> HIDE DEF p
  <2>3. data[p] = part[j]
    BY <1>12, <2>1, <2>2
  <2>4. QED
    BY <2>3 DEF p
<1>15. ASSUME NEW i \in 1 .. n
       PROVE  HasBytes(data, Len(front) + Before(i, HashSize), HashSize, <<"repr", ReprHash[Refs(c)[i]]>>)
  <2> DEFINE x == Before(i, HashSize)
             y == i * HashSize
             of == <<"repr", ReprHash[Refs(c)[i]]>>
  <2>1. x \in Nat /\ y = x + HashSize /\ y <= total
    <3>1. i - 1 \in Nat /\ i \in Nat /\ i <= n /\ HashSize \in Nat \ {0}
      BY <1>1, CellsAssumption
    <3>2. (i - 1) * HashSize \in Nat /\ i * HashSize = (i - 1) * HashSize + HashSize
      BY <3>1
    <3>3. i * HashSize <= n * HashSize
      BY <1>1, <3>1, ScaleLeq
    <3>4. QED
      BY <3>2, <3>3 DEF Before
  <2>2. HasBytes(hashes, x, HashSize, of)
    BY <1>6
  <2> HIDE DEF x, y, total, of
  <2>3. ASSUME NEW j \in 1 .. HashSize
        PROVE  data[(Len(front) + x) + j] = <<of[1], of[2], j>>
    <3> DEFINE p == x + j
    <3>1. p \in 1 .. total /\ (Len(front) + x) + j = Len(front) + p
      BY <1>1, <1>11, <2>1
    <3>2. hashes[p] = <<of[1], of[2], j>>
      BY <2>2 DEF HasBytes
    <3> HIDE DEF p
    <3>3. QED
      BY <1>11, <3>1, <3>2
  <2>4. HasBytes(data, Len(front) + x, HashSize, of)
    BY <2>3 DEF HasBytes
  <2>5. QED
    BY <2>4 DEF x, of
<1>16. \A i \in 1 .. n :
         HasBytes(data, (Len(data) - total) + Before(i, HashSize), HashSize, <<"repr", ReprHash[Refs(c)[i]]>>)
  BY <1>12, <1>15
<1>17. QED
  BY <1>11, <1>12, <1>13, <1>14, <1>16 DEF data, n, part, total

(* At its offset, a child's representation hash.                           *)
LEMMA OffsetsAre ==
  ASSUME WellFormed, NEW c \in Cells, NEW i \in DOMAIN Refs(c)
  PROVE  SubSeq(ReprData(c), ChildOffset(c, i) + 1, ChildOffset(c, i) + HashSize)
           = Bytes(<<"repr", ReprHash[Refs(c)[i]]>>, HashSize)
<1> DEFINE data == ReprData(c)
           n    == Len(Refs(c))
           x    == Before(i, HashSize)
           y    == i * HashSize
           total == n * HashSize
           base == Len(data) - total
           at   == base + x
           of   == <<"repr", ReprHash[Refs(c)[i]]>>
<1>1. n \in Nat /\ i \in 1 .. n /\ HashSize \in Nat \ {0}
  BY RefsAre, CellsAssumption
<1>2. /\ IsSeq(data)
      /\ Len(data) \in Nat /\ base \in Nat
      /\ HasBytes(data, at, HashSize, of)
  BY <1>1, ReprDataIs
<1>3. x \in Nat /\ y = x + HashSize /\ y <= total /\ total \in Nat
  <2>1. i - 1 \in Nat /\ i \in Nat /\ i <= n
    BY <1>1
  <2>2. (i - 1) * HashSize \in Nat /\ i * HashSize = (i - 1) * HashSize + HashSize /\ n * HashSize \in Nat
    BY <1>1, <2>1
  <2>3. i * HashSize <= n * HashSize
    BY <1>1, <2>1, ScaleLeq
  <2>4. QED
    BY <2>2, <2>3 DEF Before
<1>4. ChildOffset(c, i) = at
  BY DEF ChildOffset, Before
<1> HIDE DEF x, y, total, data, of
<1>5. at \in Nat /\ at + HashSize <= Len(data)
  BY <1>1, <1>2, <1>3
<1> HIDE DEF at, base
<1>6. Slice(data, at, HashSize) = Bytes(of, HashSize)
  BY <1>1, <1>2, <1>5, SliceIs
<1>7. QED
  BY <1>4, <1>6 DEF Slice, data, of

(* The levels of a mask, three bits of a byte.                             *)
LEMMA MaskBitsAre ==
  ASSUME NEW mask \in SUBSET (1 .. 3), NEW rest \in 0 .. 31
  PROVE  LET d1 == MaskBits(mask) + rest  m == d1 \div 32 IN
         /\ d1 % 8 = rest % 8
         /\ Highest(mask) = CASE m = 0 -> 0 [] m = 1 -> 1 [] m \in 2 .. 3 -> 2 [] OTHER -> 3
<1> DEFINE d1 == MaskBits(mask) + rest
           m  == (IF 1 \in mask THEN 1 ELSE 0) + (IF 2 \in mask THEN 2 ELSE 0) + (IF 3 \in mask THEN 4 ELSE 0)
           h  == Highest(mask)
<1>1. d1 = 32 * m + rest
  BY DEF MaskBits
<1>2. /\ h \in 0 .. 3 /\ (1 \in mask => 1 <= h) /\ (2 \in mask => 2 <= h) /\ (3 \in mask => 3 <= h)
      /\ (h # 0 => h \in mask)
  BY HighestIs
<1>3. m \in 0 .. 7 /\ h = CASE m = 0 -> 0 [] m = 1 -> 1 [] m \in 2 .. 3 -> 2 [] OTHER -> 3
  <2> HIDE DEF h
  <2>1. CASE 3 \in mask
    BY <1>2, <2>1
  <2>2. CASE 3 \notin mask /\ 2 \in mask
    <3>1. h = 2
      BY <1>2, <2>2
    <3>2. QED
      BY <2>2, <3>1
  <2>3. CASE 3 \notin mask /\ 2 \notin mask /\ 1 \in mask
    <3>1. h = 1
      BY <1>2, <2>3
    <3>2. QED
      BY <2>3, <3>1
  <2>4. CASE 3 \notin mask /\ 2 \notin mask /\ 1 \notin mask
    <3>1. h = 0
      BY <1>2, <2>4
    <3>2. QED
      BY <2>4, <3>1
  <2>5. QED
    BY <2>1, <2>2, <2>3, <2>4
<1> HIDE DEF m, d1, h
<1>4. d1 \div 32 = m
  BY <1>1, <1>3
<1>5. d1 % 8 = rest % 8
  BY <1>1, <1>3
<1>6. QED
  BY <1>3, <1>4, <1>5 DEF d1, h

(* The first descriptor tells the references and the level.                *)
LEMMA ReadersAre ==
  ASSUME WellFormed, NEW c \in Cells
  PROVE  RefsCountFrom(ReprData(c)) = Len(Refs(c)) /\ LevelFrom(ReprData(c)) = Level(c)
<1> DEFINE pruned == bag[c].payload.type = "pruned"
           mask == IF pruned THEN Mask[c] ELSE WithLevel(ReprIndex(c))
           special == IF bag[c].payload.type = "ordinary" THEN 0 ELSE 8
           n == Len(Refs(c))
           rest == special + n
           d1 == D1(c)
<1>1. Mask[c] \in SUBSET (1 .. 3) /\ Level(c) \in 0 .. 3 /\ Level(c) = Highest(Mask[c])
  BY MasksAre, HighestIs DEF Level
<1>2. mask \in SUBSET (1 .. 3) /\ Highest(mask) = Level(c)
  <2>1. CASE pruned
    BY <1>1, <2>1
  <2>2. CASE ~pruned
    <3> DEFINE l == Level(c)
               w == 1 .. l
    <3>1. mask = w
      BY <2>2 DEF WithLevel, ReprIndex
    <3>2. w \in SUBSET (1 .. 3) /\ (w # {} => l \in w) /\ (w = {} <=> l = 0)
      BY <1>1
    <3>3. /\ Highest(w) \in 0 .. 3 /\ \A x \in w : x <= Highest(w)
          /\ w # {} => Highest(w) \in w
          /\ Highest(w) = 0 <=> w = {}
      BY <3>2, HighestIs
    <3>4. Highest(w) = l
      <4>1. CASE w = {}
        BY <3>2, <3>3, <4>1
      <4>2. CASE w # {}
        <5>1. l <= Highest(w) /\ Highest(w) \in w
          BY <3>2, <3>3, <4>2
        <5>2. QED
          BY <1>1, <3>3, <5>1
      <4>3. QED
        BY <4>1, <4>2
    <3>5. QED
      BY <3>1, <3>2, <3>4
  <2>3. QED
    BY <2>1, <2>2
<1>3. n \in 0 .. 7 /\ special \in {0, 8}
  <2>1. n \in 0 .. MaxRefs
    BY RefsAre
  <2>2. MaxRefs \in 1 .. 7
    BY CellsAssumption
  <2> HIDE DEF n
  <2>3. QED
    BY <2>1, <2>2
<1>4. d1 = MaskBits(mask) + rest
  <2>1. MaskBits(mask) \in Nat
    BY DEF MaskBits
  <2>2. d1 = (MaskBits(mask) + special) + n
    BY DEF D1
  <2> HIDE DEF mask, special, n, d1
  <2>3. QED
    BY <1>3, <2>1, <2>2
<1> HIDE DEF mask, special, n, d1
<1>5. rest \in 0 .. 31 /\ rest % 8 = n
  BY <1>3
<1> HIDE DEF rest
<1>6. /\ d1 % 8 = n
      /\ Level(c) = CASE d1 \div 32 = 0 -> 0 [] d1 \div 32 = 1 -> 1 [] d1 \div 32 \in 2 .. 3 -> 2 [] OTHER -> 3
  BY <1>2, <1>4, <1>5, MaskBitsAre
<1>7. ReprData(c)[1][2] = d1
  <2>1. ReprData(c)[1] = Byte(D1(c))
    BY ReprDataIs
  <2>2. QED
    BY <2>1 DEF Byte, d1
<1>8. QED
  BY <1>6, <1>7 DEF RefsCountFrom, LevelFrom, n

(* At level 0, the payload is where the second descriptor says.            *)
LEMMA PayloadIs ==
  ASSUME WellFormed, NEW c \in Cells, ReprIndex(c) = 0
  PROVE  LET range == DataRangeIn(ReprData(c))
         IN  SubSeq(ReprData(c), range[1] + 1, range[1] + range[2]) = PayloadBytes(c)
<1> DEFINE data == ReprData(c)
           range == DataRangeIn(data)
           bits == bag[c].payload.bits
           d2 == D2(bits)
           size == CeilBytes(bits)
           of == <<"data", bag[c].payload>>
<1>1. size \in Nat /\ size = (d2 \div 2) + (d2 % 2)
  <2>1. bag[c].payload \in Payloads
    BY DEF WellFormed
  <2>2. bits \in 0 .. 1023
    BY <2>1, CellsAssumption
  <2>3. QED
    BY <2>2, CeilBytesIs
<1>2. range[1] = 2 /\ range[2] = size
  <2>1. data[2] = Byte(d2)
    BY ReprDataIs
  <2>2. data[2][2] = d2
    BY <2>1 DEF Byte
  <2> HIDE DEF data, d2, size
  <2>3. QED
    BY <1>1, <2>2 DEF DataRangeIn
<1>3. DataPart(c) = Bytes(of, size) /\ Len(DataPart(c)) = size
  BY DataPartIs DEF DataPart, PayloadBytes
<1>4. /\ IsSeq(data) /\ Len(data) \in Nat /\ 2 + size <= Len(data)
      /\ \A j \in 1 .. size : data[2 + j] = DataPart(c)[j]
  BY <1>3, ReprDataIs
<1>5. PayloadBytes(c) = Bytes(of, size)
  BY DEF PayloadBytes
<1> HIDE DEF data, size, range
<1>6. \A j \in 1 .. size : DataPart(c)[j] = <<of[1], of[2], j>>
  BY <1>1, <1>3, BytesAre
<1>7. HasBytes(data, 2, size, of)
  BY <1>4, <1>6 DEF HasBytes
<1> HIDE DEF of
<1>8. Slice(data, 2, size) = Bytes(of, size)
  BY <1>1, <1>4, <1>7, SliceIs
<1>9. QED
  BY <1>2, <1>5, <1>8 DEF Slice, data, range

-----------------------------------------------------------------------------
(* Every entry is its cell's.                                              *)
EntriesFit == \A i \in DOMAIN result : result[i] = Entry(result[i].cell)

EntriesInv == QueueInv /\ EntriesFit

LEMMA EntriesInvAlways == Spec => []EntriesInv
<1>1. Init => EntriesFit
  <2> SUFFICES ASSUME Init PROVE EntriesFit
    OBVIOUS
  <2>1. result = <<>>
    BY DEF Init
  <2>2. QED
    BY <2>1 DEF EntriesFit
<1>2. QueueInv /\ EntriesFit /\ [Next]_vars => EntriesFit'
  <2> SUFFICES ASSUME QueueInv, EntriesFit, [Next]_vars PROVE EntriesFit'
    OBVIOUS
  <2>1. bag' = bag
    BY DEF Next, Visit, vars
  <2>2. ReprHash' = ReprHash /\ (\A c : Refs(c)' = Refs(c))
    BY <2>1 DEF ReprHash, Refs
  <2>3. Mask' = Mask
    BY <2>1 DEF Mask, Refs
  <2>4. \A c : Entry(c)' = Entry(c)
    BY <2>1, <2>2, <2>3
       DEF Entry, ChildOffset, ReprData, D1, DataPart, PayloadBytes, DepthBytes, ReprIndex, ChildLevel,
           Level, HashAt, Refs
  <2>5. CASE Visit
    <3> DEFINE c == Head(queue)
               e == Entry(c)
               S == ToSet(result) \cup {e}
    <3>1. result' = Append(result, e)
      BY <2>5 DEF Visit
    <3>2. e.cell = c
      BY DEF Entry
    <3>3. result \in Seq(ToSet(result))
      BY DEF QueueInv, QueueTypeOK
    <3>4. result \in Seq(S) /\ e \in S
      <4> DEFINE T == ToSet(result)
      <4>1. result \in Seq(T)
        BY <3>3
      <4> HIDE DEF T, e
      <4>2. result \in Seq(T \cup {e})
        BY <4>1
      <4>3. QED
        BY <4>2 DEF T
    <3> HIDE DEF S, e, c
    <3>5. /\ Len(result) \in Nat /\ DOMAIN result = 1 .. Len(result)
          /\ DOMAIN result' = 1 .. Len(result) + 1
          /\ \A i \in 1 .. Len(result) : result'[i] = result[i]
          /\ result'[Len(result) + 1] = e
      BY <3>1, <3>4
    <3>6. ASSUME NEW i \in DOMAIN result'
          PROVE  result'[i] = Entry(result'[i].cell)
      <4>1. CASE i \in 1 .. Len(result)
        BY <3>5, <4>1 DEF EntriesFit
      <4>2. CASE i = Len(result) + 1
        BY <3>2, <3>5, <4>2 DEF e
      <4>3. QED
        BY <3>5, <3>6, <4>1, <4>2
    <3>7. QED
      BY <2>4, <3>6 DEF EntriesFit
  <2>6. CASE UNCHANGED vars
    <3>1. result' = result
      BY <2>6 DEF vars
    <3>2. QED
      BY <2>4, <3>1 DEF EntriesFit
  <2>7. QED
    BY <2>5, <2>6 DEF Next
<1>3. QED
  BY <1>1, <1>2, QueueInvAlways, PTL DEF Spec, EntriesInv

LEMMA EntriesReadBack == EntriesInv => BytesReadBack
<1> SUFFICES ASSUME EntriesInv, NEW i \in DOMAIN result
             PROVE  LET e == result[i]  c == e.cell  data == ReprData(c)  range == DataRangeIn(data) IN
                    /\ \A n \in DOMAIN e.offsets :
                         SubSeq(data, e.offsets[n] + 1, e.offsets[n] + HashSize)
                           = Bytes(<<"repr", ReprHash[Refs(c)[n]]>>, HashSize)
                    /\ RefsCountFrom(data) = e.refs /\ LevelFrom(data) = Level(c)
                    /\ ReprIndex(c) = 0 =>
                         SubSeq(data, range[1] + 1, range[1] + range[2]) = PayloadBytes(c)
  BY DEF BytesReadBack
<1> DEFINE e == result[i]
           c == e.cell
           data == ReprData(c)
<1>1. WellFormed /\ c \in Cells /\ e = Entry(c)
  BY DEF EntriesInv, EntriesFit, QueueInv, QueueTypeOK
<1>2. /\ e.refs = Len(Refs(c)) /\ DOMAIN e.offsets = DOMAIN Refs(c)
      /\ \A n \in DOMAIN Refs(c) : e.offsets[n] = ChildOffset(c, n)
  <2> HIDE DEF e, c
  <2>1. QED
    BY <1>1 DEF Entry
<1> HIDE DEF e, c
<1>3. ASSUME NEW n \in DOMAIN Refs(c)
      PROVE  SubSeq(data, ChildOffset(c, n) + 1, ChildOffset(c, n) + HashSize)
               = Bytes(<<"repr", ReprHash[Refs(c)[n]]>>, HashSize)
  BY <1>1, OffsetsAre
<1>4. \A n \in DOMAIN e.offsets :
        SubSeq(data, e.offsets[n] + 1, e.offsets[n] + HashSize)
          = Bytes(<<"repr", ReprHash[Refs(c)[n]]>>, HashSize)
  BY <1>2, <1>3
<1>5. RefsCountFrom(data) = e.refs /\ LevelFrom(data) = Level(c)
  BY <1>1, <1>2, ReadersAre
<1>6. ReprIndex(c) = 0 =>
        SubSeq(data, DataRangeIn(data)[1] + 1, DataRangeIn(data)[1] + DataRangeIn(data)[2]) = PayloadBytes(c)
  BY <1>1, PayloadIs
<1>7. QED
  BY <1>4, <1>5, <1>6 DEF e, c, data

(* The bytes of every cell, of any level and with any number of            *)
(* references, read back as build_cell_repr_data wrote them: the child     *)
(* hashes at the offsets, the number of references, the level and, at      *)
(* level 0, the payload.                                                   *)
THEOREM BytesReadBackAlways == Spec => []BytesReadBack
BY EntriesInvAlways, EntriesReadBack, PTL

-----------------------------------------------------------------------------
(* Two entries are the root and the one hash it refers to.                 *)
LEMMA TwoAre ==
  ASSUME EntriesInv, Done, Len(result) = 2
  PROVE  /\ result[1].cell = 1 /\ result[2].cell \in Cells /\ 1 \in DOMAIN result /\ 2 \in DOMAIN result
         /\ ChildHashes(1) = {HashOf(result[2])} /\ ChildHashes(result[2].cell) = {}
<1> DEFINE d == result[2].cell
<1>0. WellFormed /\ QueueTypeOK /\ QueuedOnce /\ NumCells \in Nat /\ 1 \in Cells
  BY CellsAssumption DEF EntriesInv, QueueInv, Cells
<1>1. DOMAIN result = 1 .. 2 /\ Len(queue) = 0 /\ DOMAIN Order = 1 .. 2 /\ Order \in Seq(Cells)
      /\ Order[1] = result[1].cell /\ Order[2] = d
  <2>1. Len(queue) = 0
    BY DEF Done
  <2>2. /\ DOMAIN result = 1 .. Len(result)
        /\ Order \in Seq(Cells) /\ Len(Order) = Len(result) + Len(queue)
        /\ \A i \in 1 .. Len(result) : Order[i] = result[i].cell
    BY <1>0, OrderIs
  <2>3. Len(Order) = 2
    BY <2>1, <2>2
  <2>4. QED
    BY <2>1, <2>2, <2>3, LenProperties
<1>2. result[1].cell = 1 /\ d \in Cells /\ d \in Reach[NumCells]
  <2>1. d \in ToSet(Order)
    BY <1>1 DEF ToSet
  <2>2. QED
    BY <1>0, <1>1, <2>1 DEF QueuedOnce, QueueTypeOK
<1>3. ReprHash[1] # ReprHash[d]
  BY <1>0, <1>1, <1>2 DEF QueuedOnce
<1>4. visited = {ReprHash[1], ReprHash[d]}
  BY <1>0, <1>1, <1>2 DEF QueuedOnce, Hashes, ToSet
<1>5. ChildHashes(1) \in SUBSET visited /\ ChildHashes(d) \in SUBSET visited
  <2>1. ChildHashes(Order[1]) \in SUBSET visited /\ ChildHashes(Order[2]) \in SUBSET visited
    BY <1>0 DEF QueuedOnce
  <2>2. QED
    BY <1>1, <1>2, <2>1
<1> HIDE DEF d
<1>6. ReprHash[1] \notin ChildHashes(1) /\ ReprHash[d] \notin ChildHashes(d)
  BY <1>0, <1>2, NoCellInItself
<1>7. ReprHash[d] \in ChildHashes(1)
  <2>1. Rank(d) \in Nat /\ Rank(d) > 0
    <3>1. Rank(d) \in Nat /\ (ReprHash[d] \in Hashes(Reach[0]) <=> Rank(d) <= 0)
      BY <1>0, <1>2, RankIs
    <3>2. ReprHash[d] \notin Hashes(Reach[0])
      BY <1>0, <1>3, ReachIsDefined DEF Hashes
    <3>3. QED
      BY <3>1, <3>2
  <2>2. PICK c \in Reach[NumCells] : ReprHash[d] \in ChildHashes(c)
    BY <1>0, <1>2, <2>1, HasParentAbove
  <2>3. c \in Cells
    BY <1>0, ReachIsDefined
  <2>4. ReprHash[c] \in visited
    <3>1. Hashes(Reach[NumCells]) \in SUBSET visited
      BY <1>0, DoneHasAll DEF EntriesInv
    <3>2. QED
      BY <3>1 DEF Hashes
  <2>5. ReprHash[c] # ReprHash[d]
    <3>1. ReprHash[c] \notin ChildHashes(c)
      BY <1>0, <2>3, NoCellInItself
    <3>2. QED
      BY <2>2, <3>1
  <2>6. ReprHash[c] = ReprHash[1]
    BY <1>4, <2>4, <2>5
  <2>7. ChildHashes(c) = ChildHashes(1)
    BY <1>0, <2>3, <2>6, EqualChildren
  <2>8. QED
    BY <2>2, <2>7
<1>8. ReprHash[1] \notin ChildHashes(d)
  BY <1>0, <1>2, <1>7, NoTwoInEachOther
<1>9. ChildHashes(1) = {ReprHash[d]} /\ ChildHashes(d) = {}
  BY <1>4, <1>5, <1>6, <1>7, <1>8
<1>10. QED
  BY <1>1, <1>2, <1>9 DEF HashOf, d

LEMMA TwoFit == EntriesInv => TwoEntriesFit
<1> SUFFICES ASSUME EntriesInv, Done, Len(result) = 2
             PROVE  /\ ChildHashes(1) = {HashOf(result[2])}
                    /\ CircuitTakes(result[1], result[2]) <=> Len(Refs(1)) = 1
  BY DEF TwoEntriesFit
<1> DEFINE d == result[2].cell
           h == HashOf(result[2])
<1>1. /\ result[1].cell = 1 /\ d \in Cells /\ 1 \in DOMAIN result /\ 2 \in DOMAIN result
      /\ ChildHashes(1) = {h} /\ ChildHashes(d) = {}
  BY TwoAre
<1>2. WellFormed /\ 1 \in Cells /\ result[1] = Entry(1)
  BY <1>1, CellsAssumption DEF EntriesInv, EntriesFit, QueueInv, Cells
<1> HIDE DEF d, h
<1>3. RefsCountFrom(ReprData(1)) = Len(Refs(1)) /\ RefsCountFrom(ReprData(d)) = Len(Refs(d))
  BY <1>1, <1>2, ReadersAre
<1>4. Len(Refs(d)) = 0
  <2>1. \A i \in DOMAIN Refs(d) : ReprHash[Refs(d)[i]] \in ChildHashes(d)
    BY <1>1, <1>2, ChildrenAre
  <2>2. DOMAIN Refs(d) = 1 .. Len(Refs(d)) /\ Len(Refs(d)) \in Nat
    BY <1>1, <1>2, RefsAre
  <2>3. 1 \notin DOMAIN Refs(d)
    BY <1>1, <2>1
  <2>4. QED
    BY <2>2, <2>3
<1>5. ASSUME Len(Refs(1)) = 1
      PROVE  SubSeq(ReprData(1), result[1].offsets[1] + 1, result[1].offsets[1] + HashSize)
               = Bytes(<<"repr", h>>, HashSize)
  <2>1. 1 \in DOMAIN Refs(1)
    BY <1>2, <1>5, RefsAre
  <2>2. ReprHash[Refs(1)[1]] = h
    <3>1. ReprHash[Refs(1)[1]] \in ChildHashes(1)
      BY <1>2, <2>1, ChildrenAre
    <3>2. QED
      BY <1>1, <3>1
  <2>3. result[1].offsets[1] = ChildOffset(1, 1)
    BY <1>2, <2>1 DEF Entry
  <2>4. SubSeq(ReprData(1), ChildOffset(1, 1) + 1, ChildOffset(1, 1) + HashSize)
          = Bytes(<<"repr", ReprHash[Refs(1)[1]]>>, HashSize)
    BY <1>2, <2>1, OffsetsAre
  <2>5. QED
    BY <2>2, <2>3, <2>4
<1>6. CircuitTakes(result[1], result[2]) <=>
        /\ SubSeq(ReprData(1), result[1].offsets[1] + 1, result[1].offsets[1] + HashSize)
             = Bytes(<<"repr", h>>, HashSize)
        /\ RefsCountFrom(ReprData(1)) = 1 /\ RefsCountFrom(ReprData(d)) = 0
  BY <1>1 DEF CircuitTakes, h, d
<1>7. QED
  BY <1>1, <1>3, <1>4, <1>5, <1>6 DEF h

(* A message that flattens to two entries is a root and one cell it refers *)
(* to, which refers to none, and the circuit takes it exactly if the root  *)
(* refers to it once: any bag of cells.                                    *)
THEOREM TwoEntriesFitAlways == Spec => []TwoEntriesFit
BY EntriesInvAlways, TwoFit, PTL

=============================================================================
