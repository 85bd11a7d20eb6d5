-------------------------- MODULE DexFixture_proofs --------------------------
(***************************************************************************)
(* A fixture and its proof, for any window, any number of layers, any      *)
(* messages in the blocks and any number of edits: what the check, the     *)
(* native computation and the circuit agree on, and what a proof shows.    *)
(***************************************************************************)
EXTENDS DexFixture, DenseMerkle_proofs, FiniteSetTheorems

-----------------------------------------------------------------------------
(* The roots of the chain, layer by layer, and the trees of a synthetic    *)
(* fixture: both are tables in which a row is made from the row before.    *)
LayerValue(g, n) ==
  [k \in Nat |-> IF n = 0 THEN LeafOf(k) ELSE DenseRoot(LeavesOver(n, k, g[n - 1]))]

SynthValue(g, t) ==
  <<IF t = 0 THEN BlockLeaf(SynthBlock, DenseRoot(SynthMessages)) ELSE DenseRoot(g[t - 1])>>
    \o RandomLeaves(t, Window + 1)

TableValue(synthetic, g, n) == IF synthetic THEN SynthValue(g, n) ELSE LayerValue(g, n)

LEMMA TablesExist ==
  ASSUME NEW synthetic \in BOOLEAN
  PROVE  \E f : f = [n \in Nat |-> TableValue(synthetic, f, n)]
<1> DEFINE Upto(n, g) == g = [m \in 0 .. n |-> TableValue(synthetic, g, m)]
           Some       == {n \in Nat : \E g : Upto(n, g)}
<1>1. \A g, h : \A m \in Nat :
        (m > 0 => g[m - 1] = h[m - 1]) => TableValue(synthetic, g, m) = TableValue(synthetic, h, m)
  BY DEF TableValue, LayerValue, SynthValue
<1>2. 0 \in Some
  <2> DEFINE g == [m \in 0 .. 0 |-> TableValue(synthetic, <<>>, m)]
  <2>1. \A m \in 0 .. 0 : TableValue(synthetic, g, m) = TableValue(synthetic, <<>>, m)
    BY <1>1
  <2>2. Upto(0, g)
    BY <2>1
  <2>3. QED
    BY <2>2
<1>3. ASSUME NEW n \in Nat, n \in Some
      PROVE  n + 1 \in Some
  <2>1. PICK g : Upto(n, g)
    BY <1>3
  <2> DEFINE h == [m \in 0 .. n + 1 |-> TableValue(synthetic, g, m)]
  <2>2. \A m \in 0 .. n : h[m] = g[m]
    BY <2>1
  <2> HIDE DEF h
  <2>3. \A m \in 0 .. n + 1 : TableValue(synthetic, g, m) = TableValue(synthetic, h, m)
    BY <1>1, <2>2
  <2>4. h = [m \in 0 .. n + 1 |-> TableValue(synthetic, h, m)]
    BY <2>3 DEF h
  <2>5. QED
    BY <2>4
<1> HIDE DEF Some
<1>4. \A n \in Nat : n \in Some
  BY <1>2, <1>3, Induction
<1> DEFINE some == [n \in Nat |-> CHOOSE g : Upto(n, g)]
<1>5. \A n \in Nat : Upto(n, some[n])
  <2> SUFFICES ASSUME NEW n \in Nat PROVE Upto(n, some[n])
    OBVIOUS
  <2>1. \E g : Upto(n, g)
    BY <1>4 DEF Some
  <2> HIDE DEF Upto
  <2>2. some[n] = CHOOSE g : Upto(n, g)
    OBVIOUS
  <2>3. QED
    BY <2>1, <2>2, Zenon
<1> HIDE DEF some
<1>6. \A n \in Nat : \A m \in 0 .. n : some[n][m] = TableValue(synthetic, some[n], m)
  BY <1>5
<1>7. \A p \in Nat, q \in Nat, m \in Nat : m <= p /\ m <= q => some[p][m] = some[q][m]
  <2> SUFFICES ASSUME NEW p \in Nat, NEW q \in Nat
               PROVE  \A m \in Nat : m <= p /\ m <= q => some[p][m] = some[q][m]
    OBVIOUS
  <2> DEFINE Differ == {m \in Nat : m <= p /\ m <= q /\ some[p][m] # some[q][m]}
  <2> SUFFICES ASSUME Differ # {} PROVE FALSE
    OBVIOUS
  <2>1. PICK x \in Differ : \A y \in Differ : x <= y
    BY LeastElement
  <2>2. TableValue(synthetic, some[p], x) # TableValue(synthetic, some[q], x)
    BY <1>6
  <2>3. x > 0 /\ some[p][x - 1] # some[q][x - 1]
    BY <1>1, <2>2
  <2>4. x - 1 \in Differ
    BY <2>3
  <2>5. QED
    BY <2>1, <2>3, <2>4
<1> DEFINE f == [n \in Nat |-> TableValue(synthetic, some[n], n)]
<1>8. \A n \in Nat : f[n] = some[n][n]
  BY <1>6
<1> HIDE DEF f
<1>9. \A n \in Nat : TableValue(synthetic, some[n], n) = TableValue(synthetic, f, n)
  <2> SUFFICES ASSUME NEW n \in Nat PROVE TableValue(synthetic, some[n], n) = TableValue(synthetic, f, n)
    OBVIOUS
  <2>1. n > 0 => some[n][n - 1] = f[n - 1]
    BY <1>7, <1>8
  <2>2. QED
    BY <1>1, <2>1
<1>10. f = [n \in Nat |-> TableValue(synthetic, f, n)]
  BY <1>9 DEF f
<1>11. QED
  BY <1>10

LEMMA LayerRootIsDefined ==
  \A n \in Nat : LayerRoot[n] = LayerValue(LayerRoot, n)
<1>1. \E g : g = [n \in Nat |-> TableValue(FALSE, g, n)]
  BY TablesExist
<1>2. \E g : g = [n \in Nat |-> LayerValue(g, n)]
  BY <1>1 DEF TableValue
<1>3. \E g : g = [n \in Nat |->
          [k \in Nat |-> IF n = 0 THEN LeafOf(k) ELSE DenseRoot(LeavesOver(n, k, g[n - 1]))]]
  BY <1>2 DEF LayerValue
<1>4. LayerRoot = [n \in Nat |->
          [k \in Nat |-> IF n = 0 THEN LeafOf(k)
                         ELSE DenseRoot(LeavesOver(n, k, LayerRoot[n - 1]))]]
  BY <1>3, Zenon DEF LayerRoot
<1>5. LayerRoot = [n \in Nat |-> LayerValue(LayerRoot, n)]
  BY <1>4, Zenon DEF LayerValue
<1>6. QED
  BY <1>5

LEMMA SynthLeavesIsDefined ==
  \A t \in Nat : SynthLeaves[t] = SynthValue(SynthLeaves, t)
<1>1. \E g : g = [n \in Nat |-> TableValue(TRUE, g, n)]
  BY TablesExist
<1>2. \E g : g = [t \in Nat |-> SynthValue(g, t)]
  BY <1>1 DEF TableValue
<1>3. \E g : g = [t \in Nat |->
          <<IF t = 0 THEN BlockLeaf(SynthBlock, DenseRoot(SynthMessages)) ELSE DenseRoot(g[t - 1])>>
            \o RandomLeaves(t, Window + 1)]
  BY <1>2, Zenon DEF SynthValue
<1>4. SynthLeaves = [t \in Nat |->
          <<IF t = 0 THEN BlockLeaf(SynthBlock, DenseRoot(SynthMessages))
            ELSE DenseRoot(SynthLeaves[t - 1])>>
            \o RandomLeaves(t, Window + 1)]
  BY <1>3, Zenon DEF SynthLeaves
<1>5. SynthLeaves = [t \in Nat |-> SynthValue(SynthLeaves, t)]
  BY <1>4, Zenon DEF SynthValue
<1>6. QED
  BY <1>5

(* The width of a layer's tree, and how many levels it has.                *)
D == Depth(Window + 2)

LEMMA LayerDepth ==
  /\ D \in Nat /\ D > 0 /\ TwoTo[D] \in Nat /\ Window + 2 <= TwoTo[D]
  /\ Window \in Nat /\ Window > 1
BY ShapeAssumption, DepthFits, TwoToGrows DEF D

LEMMA BlocksAreNumbers == DOMAIN Tracks \subseteq Nat /\ SynthBlock \in Nat /\ SynthBlock \notin DOMAIN Tracks
BY TracksAssumption

(* Two headers, then the window's hashes, then padding.                    *)
LEMMA LayerLeavesAre ==
  ASSUME NEW n \in Nat \ {0}, NEW k \in Nat
  PROVE  LET leaves == LayerLeaves(n, k) IN
         /\ Len(leaves) = Window + 2 /\ Len(leaves) \in Nat
         /\ LeafAt(leaves, 0) = HeaderLeaf(n, k, 1)
         /\ LeafAt(leaves, 1) = HeaderLeaf(n, k, 2)
         /\ \A j \in 0 .. Window - 1 : LeafAt(leaves, j + 2) = LayerRoot[n - 1][k * Window + j]
         /\ \A pos \in Nat : pos > Window + 1 => LeafAt(leaves, pos) = Zero
<1> DEFINE heads  == <<HeaderLeaf(n, k, 1), HeaderLeaf(n, k, 2)>>
           hashes == [i \in 1 .. Window |-> LayerRoot[n - 1][k * Window + i - 1]]
           S == {heads[1], heads[2]} \cup {hashes[i] : i \in 1 .. Window}
           leaves == LayerLeaves(n, k)
<1>1. Window \in Nat /\ Window > 1
  BY ShapeAssumption
<1>2. /\ heads \in Seq(S) /\ Len(heads) = 2
      /\ heads[1] = HeaderLeaf(n, k, 1) /\ heads[2] = HeaderLeaf(n, k, 2)
  OBVIOUS
<1>3. /\ hashes \in Seq(S) /\ Len(hashes) = Window
      /\ \A i \in 1 .. Window : hashes[i] = LayerRoot[n - 1][k * Window + i - 1]
  <2>1. hashes \in [1 .. Window -> S]
    OBVIOUS
  <2> HIDE DEF hashes, S
  <2>2. hashes \in Seq(S)
    BY <1>1, <2>1
  <2>3. DOMAIN hashes = 1 .. Window
    BY <2>1
  <2>4. Len(hashes) = Window
    BY <1>1, <2>2, <2>3, LenProperties
  <2>5. QED
    BY <2>2, <2>4 DEF hashes
<1>4. leaves = heads \o hashes
  BY DEF LayerLeaves, LeavesOver
<1> HIDE DEF heads, hashes, S, leaves
<1>5. /\ Len(leaves) = Window + 2
      /\ \A i \in 1 .. Window + 2 : leaves[i] = IF i <= 2 THEN heads[i] ELSE hashes[i - 2]
  <2>1. /\ Len(heads \o hashes) = Len(heads) + Len(hashes)
        /\ \A i \in 1 .. Len(heads) + Len(hashes) :
             (heads \o hashes)[i] = IF i <= Len(heads) THEN heads[i] ELSE hashes[i - Len(heads)]
    BY <1>2, <1>3, ConcatProperties
  <2>2. Len(heads) + Len(hashes) = Window + 2
    BY <1>1, <1>2, <1>3
  <2>3. QED
    BY <1>2, <1>4, <2>1, <2>2
<1>6. LeafAt(leaves, 0) = heads[1] /\ LeafAt(leaves, 1) = heads[2]
  BY <1>1, <1>5 DEF LeafAt
<1>7. ASSUME NEW j \in 0 .. Window - 1
      PROVE  LeafAt(leaves, j + 2) = LayerRoot[n - 1][k * Window + j]
  <2> DEFINE h == k * Window
  <2>1. h \in Nat
    BY <1>1
  <2>2. j \in Int /\ j + 2 + 1 \in 1 .. Window + 2 /\ ~(j + 2 + 1 <= 2) /\ j + 2 + 1 - 2 = j + 1
        /\ j + 2 < Window + 2 /\ j + 1 \in 1 .. Window
    BY <1>1
  <2>3. h + (j + 1) - 1 = h + j
    BY <2>1, <2>2
  <2>4. LeafAt(leaves, j + 2) = hashes[j + 1]
    BY <1>5, <2>2 DEF LeafAt
  <2>5. hashes[j + 1] = LayerRoot[n - 1][h + (j + 1) - 1]
    BY <1>3, <2>2
  <2>6. QED
    BY <2>3, <2>4, <2>5
<1>8. \A pos \in Nat : pos > Window + 1 => LeafAt(leaves, pos) = Zero
  BY <1>1, <1>5 DEF LeafAt
<1>9. QED
  BY <1>1, <1>2, <1>5, <1>6, <1>7, <1>8 DEF leaves

LEMMA RootOfLayer ==
  ASSUME NEW n \in Nat, NEW k \in Nat
  PROVE  /\ n = 0 => LayerRoot[n][k] = LeafOf(k)
         /\ n > 0 => LayerRoot[n][k] = DenseRoot(LayerLeaves(n, k)) /\ IsNode(LayerRoot[n][k])
<1>1. LayerRoot[n][k] =
        IF n = 0 THEN LeafOf(k) ELSE DenseRoot(LeavesOver(n, k, LayerRoot[n - 1]))
  <2>1. LayerRoot[n] = LayerValue(LayerRoot, n)
    BY LayerRootIsDefined
  <2>2. LayerValue(LayerRoot, n)[k] =
          IF n = 0 THEN LeafOf(k) ELSE DenseRoot(LeavesOver(n, k, LayerRoot[n - 1]))
    BY DEF LayerValue
  <2>3. QED
    BY <2>1, <2>2
<1>2. n > 0 => LayerRoot[n][k] = DenseRoot(LayerLeaves(n, k))
  BY <1>1 DEF LayerLeaves
<1>3. n > 0 => IsNode(LayerRoot[n][k])
  <2> SUFFICES ASSUME n > 0 PROVE IsNode(DenseRoot(LayerLeaves(n, k)))
    BY <1>2
  <2>1. Len(LayerLeaves(n, k)) = Window + 2 /\ Len(LayerLeaves(n, k)) \in Nat
    BY LayerLeavesAre
  <2>2. QED
    BY <2>1, DenseRootKind, LayerDepth
<1>4. QED
  BY <1>1, <1>2, <1>3

(* The kinds of hashes are told apart.                                     *)
LEMMA KindsDiffer ==
  /\ ~IsNode(Zero)
  /\ \A a, e : ~IsNode(MessageLeaf(a, e)) /\ MessageLeaf(a, e) # Zero
  /\ \A b, r : ~IsNode(BlockLeaf(b, r)) /\ BlockLeaf(b, r) # Zero
  /\ \A n, k, w : ~IsNode(HeaderLeaf(n, k, w))
  /\ \A b, r, n, k, w : BlockLeaf(b, r) # HeaderLeaf(n, k, w)
  /\ \A a, e, b, f : MessageLeaf(a, e) = MessageLeaf(b, f) => a = b /\ e = f
  /\ \A b, r, c, s : BlockLeaf(b, r) = BlockLeaf(c, s) => b = c /\ r = s
BY DEF IsNode, Zero, MessageLeaf, BlockLeaf, HeaderLeaf, Combine

(* What can be a leaf of a layer's tree.                                   *)
LEMMA LayerLeafKinds ==
  ASSUME NEW n \in Nat \ {0}, NEW k \in Nat, NEW pos \in Nat
  PROVE  \/ LeafAt(LayerLeaves(n, k), pos) = Zero
         \/ \E w : LeafAt(LayerLeaves(n, k), pos) = HeaderLeaf(n, k, w)
         \/ \E j \in 0 .. Window - 1 :
              LeafAt(LayerLeaves(n, k), pos) = LayerRoot[n - 1][k * Window + j]
<1>1. Window \in Nat /\ Window > 1
  BY ShapeAssumption
<1>2. CASE pos = 0 \/ pos = 1
  BY <1>2, LayerLeavesAre
<1>3. CASE pos > Window + 1
  BY <1>3, LayerLeavesAre
<1>4. CASE pos >= 2 /\ pos <= Window + 1
  <2> DEFINE j == pos - 2
  <2>1. j \in 0 .. Window - 1 /\ j + 2 = pos
    BY <1>1, <1>4
  <2>2. LeafAt(LayerLeaves(n, k), j + 2) = LayerRoot[n - 1][k * Window + j]
    BY <2>1, LayerLeavesAre
  <2> HIDE DEF j
  <2>3. QED
    BY <2>1, <2>2
<1>5. QED
  BY <1>1, <1>2, <1>3, <1>4

(* The leaves of the events tree of a block.                               *)
LEMMA MessageLeavesAre ==
  ASSUME NEW b \in DOMAIN Tracks
  PROVE  LET leaves == MessageLeaves(b) IN
         /\ Len(leaves) = Len(Tracks[b]) /\ Len(leaves) \in Nat
         /\ DOMAIN Tracks[b] = 1 .. Len(leaves)
         /\ \A pos \in Nat :
              \/ LeafAt(leaves, pos) = Zero
              \/ /\ pos + 1 \in DOMAIN Tracks[b]
                 /\ LeafAt(leaves, pos)
                      = MessageLeaf(Tracks[b][pos + 1].account, Tracks[b][pos + 1].event)
         /\ \A i \in DOMAIN Tracks[b] :
              LeafAt(leaves, i - 1) = MessageLeaf(Tracks[b][i].account, Tracks[b][i].event)
         /\ \A pos \in Nat : ~IsNode(LeafAt(leaves, pos))
<1> DEFINE leaves == MessageLeaves(b)
           len    == Len(Tracks[b])
           leaf(i) == MessageLeaf(Tracks[b][i].account, Tracks[b][i].event)
<1>1. len \in Nat /\ DOMAIN Tracks[b] = 1 .. len
  BY TracksAssumption
<1>2. leaves = [i \in 1 .. len |-> leaf(i)]
  BY <1>1 DEF MessageLeaves
<1> HIDE DEF len, leaves
<1>3. Len(leaves) = len /\ \A i \in 1 .. len : leaves[i] = leaf(i)
  BY <1>1, <1>2
<1> HIDE DEF leaf
<1>4. ASSUME NEW pos \in Nat
      PROVE  \/ LeafAt(leaves, pos) = Zero
             \/ pos + 1 \in 1 .. len /\ LeafAt(leaves, pos) = leaf(pos + 1)
  BY <1>1, <1>3 DEF LeafAt
<1>5. ASSUME NEW i \in 1 .. len
      PROVE  LeafAt(leaves, i - 1) = leaf(i)
  <2>1. i - 1 < len /\ (i - 1) + 1 = i
    BY <1>1
  <2>2. QED
    BY <1>3, <2>1 DEF LeafAt
<1>6. \A pos \in Nat : ~IsNode(LeafAt(leaves, pos))
  BY <1>4, KindsDiffer DEF leaf
<1>7. QED
  BY <1>1, <1>3, <1>4, <1>5, <1>6 DEF leaves, len, leaf

-----------------------------------------------------------------------------
(* Soundness: what a root of the chain says about a path that leads to it. *)
Place(pos, depth) == pos \in Nat /\ pos < TwoTo[depth]

Tracked(b, account, event) ==
  b \in DOMAIN Tracks
    /\ \E i \in DOMAIN Tracks[b] : Tracks[b][i] = [account |-> account, event |-> event]

LEMMA EntriesAreTyped ==
  ASSUME NEW b \in DOMAIN Tracks, NEW i \in DOMAIN Tracks[b]
  PROVE  Tracks[b][i] \in [account : Nat, event : EventType]
<1> DEFINE R == [account : Nat, event : EventType]
<1>1. Tracks[b] \in Seq(R)
  BY TracksAssumption
<1> HIDE DEF R
<1>2. Tracks[b] \in [1 .. Len(Tracks[b]) -> R]
  BY <1>1, LenProperties
<1>3. QED
  BY <1>2 DEF R

LEMMA BlockIsSound ==
  ASSUME NEW c \in Nat, NEW b, NEW account, NEW event, NEW pos, NEW siblings,
         Len(siblings) \in Nat, Place(pos, Len(siblings)),
         LeafOf(c) = BlockLeaf(b, RootFrom(MessageLeaf(account, event), pos, siblings))
  PROVE  b = c /\ Tracked(b, account, event)
<1> DEFINE msg  == MessageLeaf(account, event)
           root == RootFrom(msg, pos, siblings)
<1>1. pos \in Nat /\ pos < TwoTo[Len(siblings)]
  BY DEF Place
<1>2. ~IsNode(msg) /\ msg # Zero
  BY KindsDiffer
<1>3. root # Zero
  <2>1. IsNode(root) \/ root = msg
    BY RootKind
  <2>2. QED
    BY <1>2, <2>1, KindsDiffer
<1>4. b = c /\ root = IF c \in DOMAIN Tracks THEN DenseRoot(MessageLeaves(c)) ELSE Zero
  BY KindsDiffer DEF LeafOf
<1>5. c \in DOMAIN Tracks /\ root = DenseRoot(MessageLeaves(c))
  BY <1>3, <1>4
<1> DEFINE leaves == MessageLeaves(c)
<1>6. Len(leaves) \in Nat /\ \A i \in Nat : ~IsNode(LeafAt(leaves, i))
  BY <1>5, MessageLeavesAre
<1> HIDE DEF leaves, msg
<1>7. Len(siblings) = Depth(Len(leaves))
  BY <1>1, <1>2, <1>5, <1>6, ProofHasDepth DEF leaves
<1>8. msg = LeafAt(leaves, pos)
  BY <1>1, <1>5, <1>6, <1>7, ProofIsSound DEF leaves
<1>9. /\ pos + 1 \in DOMAIN Tracks[c]
      /\ msg = MessageLeaf(Tracks[c][pos + 1].account, Tracks[c][pos + 1].event)
  BY <1>1, <1>2, <1>5, <1>8, MessageLeavesAre DEF leaves
<1>10. Tracks[c][pos + 1].account = account /\ Tracks[c][pos + 1].event = event
  BY <1>9, KindsDiffer DEF msg
<1>11. Tracks[c][pos + 1] \in [account : Nat, event : EventType]
  BY <1>5, <1>9, EntriesAreTyped
<1>12. Tracks[c][pos + 1] = [account |-> account, event |-> event]
  BY <1>10, <1>11
<1>13. QED
  BY <1>4, <1>5, <1>9, <1>12 DEF Tracked

(* The windows of a layer are W to the layer's power blocks.               *)
LEMMA WindowToIs ==
  /\ WindowTo[0] = 1
  /\ \A n \in Nat : WindowTo[n] \in Nat \ {0} /\ WindowTo[n + 1] = Window * WindowTo[n]
<1> DEFINE prev == [n \in Nat |-> IF n = 0 THEN 0 ELSE n - 1]
           b    == 0
           w    == Window
<1>1. /\ b = 0 /\ w = Window /\ prev \in [Nat -> Nat]
      /\ \A n \in Nat : n > b => prev[n] = n - 1 /\ prev[n] < n
  OBVIOUS
<1>2. b \in Nat /\ w \in Nat /\ w > 1 /\ \A n \in Nat : n > b => prev[n] < n
  BY ShapeAssumption
<1> HIDE DEF prev, b, w
<1>3. PICK f \in [Nat -> Nat] : \A n \in Nat : f[n] = IF n <= b THEN 1 ELSE w * f[prev[n]]
  BY <1>1, <1>2, Multiples
<1>4. f = [n \in Nat |-> IF n = 0 THEN 1 ELSE Window * f[n - 1]]
  BY <1>1, <1>3
<1>5. WindowTo = [n \in Nat |-> IF n = 0 THEN 1 ELSE Window * WindowTo[n - 1]]
  BY <1>4, Zenon DEF WindowTo
<1>6. \A n \in Nat : WindowTo[n] = IF n = 0 THEN 1 ELSE w * WindowTo[n - 1]
  BY <1>1, <1>5
<1> DEFINE Good == {n \in Nat : WindowTo[n] \in Nat /\ WindowTo[n] # 0}
<1>7. 0 \in Good
  BY <1>6
<1>8. ASSUME NEW n \in Nat, n \in Good
      PROVE  n + 1 \in Good
  <2>1. WindowTo[n + 1] = w * WindowTo[n]
    BY <1>6
  <2>2. QED
    BY <1>2, <1>8, <2>1
<1> HIDE DEF Good
<1>9. \A n \in Nat : n \in Good
  BY <1>7, <1>8, Induction
<1>10. \A n \in Nat : WindowTo[n] \in Nat \ {0}
  BY <1>9 DEF Good
<1>11. \A n \in Nat : WindowTo[n + 1] = Window * WindowTo[n]
  BY <1>1, <1>6
<1>12. QED
  BY <1>6, <1>10, <1>11

(* A block's tree on a layer holds its tree on the layer below.            *)
LEMMA TreeAbove ==
  ASSUME NEW b \in Nat, NEW n \in Nat
  PROVE  /\ TreeOver(b, n) \in Nat /\ TreeOver(b, 0) = b
         /\ TreeOver(b, n + 1) = TreeOver(b, n) \div Window
<1> DEFINE s == WindowTo[n]
           w == Window
<1>1. s \in Nat \ {0} /\ w \in Nat \ {0} /\ WindowTo[n + 1] = w * s /\ WindowTo[0] = 1
  BY WindowToIs, ShapeAssumption
<1> HIDE DEF s, w
<1>2. b \div (w * s) = (b \div s) \div w
  BY <1>1, DivDiv
<1>3. b \div s \in Nat
  BY <1>1, DivBounds
<1>4. b \div 1 = b
  OBVIOUS
<1>5. QED
  BY <1>1, <1>2, <1>3, <1>4 DEF TreeOver, s, w

(* A block under a tree, with the message: what a root of a layer is       *)
(* shown to include.                                                       *)
Under(n, k, b, account, event) ==
  b \in Nat /\ TreeOver(b, n) = k /\ Tracked(b, account, event)

(* The root over a block leaf is a root of layer 1, over that block.       *)
LEMMA FirstRootIsSound ==
  ASSUME NEW n \in Nat \ {0}, NEW k \in Nat, NEW b, NEW account, NEW event,
         NEW pos, NEW siblings, Len(siblings) \in Nat, Place(pos, Len(siblings)),
         NEW place, NEW path, Len(path) = D, Place(place, D),
         RootFrom(BlockLeaf(b, RootFrom(MessageLeaf(account, event), pos, siblings)), place, path)
           = LayerRoot[n][k]
  PROVE  n = 1 /\ Under(1, k, b, account, event)
<1> DEFINE leaf   == BlockLeaf(b, RootFrom(MessageLeaf(account, event), pos, siblings))
           leaves == LayerLeaves(n, k)
<1>1. ~IsNode(leaf) /\ leaf # Zero /\ \A w : leaf # HeaderLeaf(n, k, w)
  BY KindsDiffer
<1>2. LayerRoot[n][k] = DenseRoot(leaves)
  BY RootOfLayer
<1>3. Len(leaves) \in Nat /\ Len(leaves) = Window + 2
  BY LayerLeavesAre
<1>4. place \in Nat /\ place < TwoTo[Len(path)]
  BY DEF Place
<1>5. RootFrom(leaf, place, path) = DenseRoot(leaves) /\ Len(path) = Depth(Len(leaves))
  BY <1>2, <1>3 DEF D
<1> HIDE DEF leaf, leaves
<1>6. leaf = LeafAt(leaves, place)
  BY <1>3, <1>4, <1>5, ProofIsSound
<1>7. PICK j \in 0 .. Window - 1 : leaf = LayerRoot[n - 1][k * Window + j]
  BY <1>1, <1>4, <1>6, LayerLeafKinds DEF leaves
<1> DEFINE c == k * Window + j
<1>8. c \in Nat /\ n - 1 \in Nat
  BY LayerDepth
<1>9. n - 1 = 0
  BY <1>1, <1>7, <1>8, RootOfLayer
<1>10. leaf = LeafOf(c)
  BY <1>7, <1>8, <1>9, RootOfLayer
<1>11. b = c /\ Tracked(b, account, event)
  BY <1>8, <1>10, BlockIsSound DEF leaf
<1>12. c \div Window = k
  <2>1. Window \in Nat \ {0} /\ k * Window \in Nat
    BY LayerDepth
  <2>2. k * Window <= c /\ c < k * Window + Window /\ k \in Int
    BY <2>1
  <2> HIDE DEF c
  <2>3. QED
    BY <1>8, <2>1, <2>2, DivUnique
<1>13. TreeOver(c, 1) = c \div Window
  BY <1>8, TreeAbove
<1> HIDE DEF c
<1>14. QED
  BY <1>8, <1>9, <1>11, <1>12, <1>13 DEF Under

(* A link from a root of a layer to another root.                          *)
LEMMA LinkIsSound ==
  ASSUME NEW n \in Nat \ {0}, NEW k \in Nat, NEW leaf, IsNode(leaf),
         NEW place, NEW path, Len(path) = D, Place(place, D),
         RootFrom(leaf, place, path) = LayerRoot[n][k]
  PROVE  n > 1 /\ \E c \in Nat : leaf = LayerRoot[n - 1][c] /\ c \div Window = k
<1> DEFINE leaves == LayerLeaves(n, k)
<1>1. leaf # Zero /\ \A w : leaf # HeaderLeaf(n, k, w)
  BY KindsDiffer
<1>2. LayerRoot[n][k] = DenseRoot(leaves)
  BY RootOfLayer
<1>3. Len(leaves) \in Nat /\ Len(leaves) = Window + 2
  BY LayerLeavesAre
<1>4. place \in Nat /\ place < TwoTo[Len(path)]
  BY DEF Place
<1>5. RootFrom(leaf, place, path) = DenseRoot(leaves) /\ Len(path) = Depth(Len(leaves))
  BY <1>2, <1>3 DEF D
<1> HIDE DEF leaves
<1>6. leaf = LeafAt(leaves, place)
  BY <1>3, <1>4, <1>5, ProofIsSound
<1>7. PICK j \in 0 .. Window - 1 : leaf = LayerRoot[n - 1][k * Window + j]
  BY <1>1, <1>4, <1>6, LayerLeafKinds DEF leaves
<1> DEFINE c == k * Window + j
<1>8. c \in Nat /\ n - 1 \in Nat
  BY LayerDepth
<1>9. n - 1 # 0
  <2>1. n - 1 = 0 => leaf = LeafOf(c)
    BY <1>7, <1>8, RootOfLayer
  <2>2. ~IsNode(LeafOf(c))
    BY KindsDiffer DEF LeafOf
  <2>3. QED
    BY <2>1, <2>2
<1>10. c \div Window = k
  <2>1. Window \in Nat \ {0} /\ k * Window \in Nat
    BY LayerDepth
  <2>2. k * Window <= c /\ c < k * Window + Window /\ k \in Int
    BY <2>1
  <2> HIDE DEF c
  <2>3. QED
    BY <1>8, <2>1, <2>2, DivUnique
<1> HIDE DEF c
<1>11. leaf = LayerRoot[n - 1][c]
  BY <1>7 DEF c
<1>12. QED
  BY <1>8, <1>9, <1>10, <1>11

-----------------------------------------------------------------------------
(* What every fixture has, however it was put together: paths with as many *)
(* siblings as their trees have levels, at places those have.              *)
Fields == {"sk", "event", "account", "eventsProof", "block", "blockProof", "steps", "chain",
           "declaredLayer", "declaredRoot"}

ProofShape(p, depth) == Len(p.siblings) = depth /\ Place(p.position, depth)

LinkShape(link) ==
  /\ DOMAIN link = {"active", "leaf", "proof"}
  /\ link.active \in BOOLEAN /\ ProofShape(link.proof, D)

EventsShape(p) ==
  /\ \E S : p.siblings \in Seq(S)
  /\ ProofShape(p, Len(p.siblings))

ChainShape(chain) ==
  /\ \E S : chain \in Seq(S)
  /\ \A i \in DOMAIN chain : LinkShape(chain[i])

Shape(f) ==
  /\ DOMAIN f = Fields
  /\ f.steps \in Nat /\ f.event \in EventType
  /\ EventsShape(f.eventsProof) /\ ProofShape(f.blockProof, D) /\ ChainShape(f.chain)

(* A satisfied circuit whose links are all there.                          *)
Complete(f) == Shape(f) /\ \A i \in 1 .. f.steps : i \in DOMAIN f.chain

(* The padding of the events proof is not folded.                          *)
LEMMA PaddingIsInert ==
  ASSUME NEW f, Shape(f)
  PROVE  CircuitEventsRoot(f) = ExtOutRoot(f) /\ CircuitRoot(f) = FirstRoot(f)
<1> DEFINE s   == f.eventsProof.siblings
           pad == [i \in 1 .. MaxEventsDepth - Len(s) |-> Zero]
<1>1. PICK S : s \in Seq(S)
  BY DEF Shape, EventsShape
<1> DEFINE T == S \cup {Zero}
<1>2. s \in Seq(T) /\ Len(s) \in Nat
  BY <1>1
<1>3. pad \in Seq(T)
  <2> DEFINE m == IF MaxEventsDepth - Len(s) >= 0 THEN MaxEventsDepth - Len(s) ELSE 0
  <2>1. m \in Nat /\ 1 .. m = 1 .. MaxEventsDepth - Len(s)
    BY <1>2, ShapeAssumption
  <2>2. pad \in [1 .. m -> T]
    BY <2>1
  <2>3. QED
    BY <2>1, <2>2
<1>4. PaddedSiblings(f) = s \o pad
  BY DEF PaddedSiblings
<1> HIDE DEF s, pad, T
<1>5. SubSeq(s \o pad, 1, Len(s)) = s
  <2>1. CASE Len(s) = 0
    <3>1. s = <<>>
      BY <1>2, <2>1
    <3>2. s \o pad \in Seq(T)
      BY <1>2, <1>3
    <3>3. QED
      BY <2>1, <3>1, <3>2, SubSeqEmpty
  <2>2. CASE Len(s) > 0
    <3>1. 1 \in 1 .. Len(s) /\ Len(s) \in 1 .. Len(s)
      BY <1>2, <2>2
    <3>2. SubSeq(s \o pad, 1, Len(s)) = SubSeq(s, 1, Len(s))
      BY <1>2, <1>3, <3>1, SubSeqOfConcat1
    <3>3. QED
      BY <1>2, <3>2, SubSeqFull
  <2>3. QED
    BY <1>2, <2>1, <2>2
<1>6. QED
  BY <1>4, <1>5 DEF CircuitEventsRoot, ExtOutRoot, CircuitRoot, FirstRoot, s

(* The root after the first i links.                                       *)
RootAfter(f, i) == IF i = 0 THEN CircuitRoot(f) ELSE LinkRoot(f.chain[i])

LEMMA RootsAreNodes ==
  ASSUME NEW f, Complete(f), NEW i \in 0 .. f.steps
  PROVE  IsNode(RootAfter(f, i))
<1>1. CASE i = 0
  BY <1>1, RootKind, LayerDepth DEF RootAfter, CircuitRoot, Complete, Shape, ProofShape
<1>2. CASE i # 0
  <2>1. f.steps \in Nat /\ i \in DOMAIN f.chain
    BY <1>2 DEF Complete, Shape
  <2>2. LinkShape(f.chain[i])
    BY <2>1 DEF Complete, Shape, ChainShape
  <2>3. QED
    BY <1>2, <2>2, RootKind, LayerDepth DEF RootAfter, LinkRoot, LinkShape, ProofShape
<1>3. QED
  BY <1>1, <1>2

(* verify_chain_of_dense_proofs: if the i-th root is one that the chain    *)
(* published, it is of layer i + 1 and over a block with the message.      *)
LEMMA ChainIsSound ==
  ASSUME NEW f, Complete(f), ChainLinked(f),
         NEW n \in Nat \ {0}, NEW k \in Nat, RootAfter(f, f.steps) = LayerRoot[n][k]
  PROVE  n = f.steps + 1 /\ Under(n, k, f.block, f.account, f.event)
<1> DEFINE Sound(i) == \A m \in Nat \ {0}, l \in Nat :
             RootAfter(f, i) = LayerRoot[m][l] =>
               m = i + 1 /\ Under(m, l, f.block, f.account, f.event)
           Good == {i \in Nat : i <= f.steps => Sound(i)}
<1>1. f.steps \in Nat
  BY DEF Complete, Shape
<1>2. 0 \in Good
  <2>1. /\ Len(f.eventsProof.siblings) \in Nat
        /\ Place(f.eventsProof.position, Len(f.eventsProof.siblings))
        /\ Len(f.blockProof.siblings) = D /\ Place(f.blockProof.position, D)
    BY DEF Complete, Shape, EventsShape, ProofShape
  <2>2. RootAfter(f, 0) =
          RootFrom(BlockLeaf(f.block,
                     RootFrom(MessageLeaf(f.account, f.event), f.eventsProof.position,
                              f.eventsProof.siblings)),
                   f.blockProof.position, f.blockProof.siblings)
    BY PaddingIsInert DEF RootAfter, CircuitRoot, ExtOutRoot, Complete
  <2>3. ASSUME NEW m \in Nat \ {0}, NEW l \in Nat, RootAfter(f, 0) = LayerRoot[m][l]
        PROVE  m = 0 + 1 /\ Under(m, l, f.block, f.account, f.event)
    BY <2>1, <2>2, <2>3, FirstRootIsSound
  <2>4. QED
    BY <2>3
<1>3. ASSUME NEW i \in Nat, i \in Good
      PROVE  i + 1 \in Good
  <2> SUFFICES ASSUME i + 1 <= f.steps,
                      NEW m \in Nat \ {0}, NEW l \in Nat, RootAfter(f, i + 1) = LayerRoot[m][l]
               PROVE  m = (i + 1) + 1 /\ Under(m, l, f.block, f.account, f.event)
    OBVIOUS
  <2> DEFINE link == f.chain[i + 1]
  <2>1. i + 1 \in 1 .. f.steps /\ i \in 0 .. f.steps /\ i + 1 # 0 /\ (i + 1) - 1 = i /\ i <= f.steps
    BY <1>1
  <2>2. LinkShape(link)
    BY <2>1 DEF Complete, Shape, ChainShape
  <2>3. link.leaf = RootAfter(f, i)
    <3>1. link.leaf = IF i + 1 = 1 THEN CircuitRoot(f) ELSE LinkRoot(f.chain[i])
      BY <2>1 DEF ChainLinked
    <3>2. QED
      BY <3>1 DEF RootAfter
  <2>4. IsNode(link.leaf)
    BY <2>1, <2>3, RootsAreNodes
  <2>5. RootFrom(link.leaf, link.proof.position, link.proof.siblings) = LayerRoot[m][l]
    BY <2>1 DEF RootAfter, LinkRoot
  <2>6. Len(link.proof.siblings) = D /\ Place(link.proof.position, D)
    BY <2>2 DEF LinkShape, ProofShape
  <2> HIDE DEF link
  <2>7. m > 1 /\ \E c \in Nat : link.leaf = LayerRoot[m - 1][c] /\ c \div Window = l
    BY <2>4, <2>5, <2>6, LinkIsSound
  <2>8. PICK c \in Nat : link.leaf = LayerRoot[m - 1][c] /\ c \div Window = l
    BY <2>7
  <2>9. m - 1 \in Nat \ {0}
    BY <2>7
  <2>10. m - 1 = i + 1 /\ Under(m - 1, c, f.block, f.account, f.event)
    BY <1>3, <2>1, <2>3, <2>8, <2>9
  <2>11. TreeOver(f.block, m) = l
    <3>1. f.block \in Nat /\ TreeOver(f.block, m - 1) = c /\ (m - 1) + 1 = m
      BY <2>10 DEF Under
    <3>2. TreeOver(f.block, (m - 1) + 1) = TreeOver(f.block, m - 1) \div Window
      BY <2>9, <3>1, TreeAbove
    <3>3. QED
      BY <2>8, <3>1, <3>2
  <2>12. QED
    BY <2>10, <2>11 DEF Under
<1> HIDE DEF Good
<1>4. \A i \in Nat : i \in Good
  BY <1>2, <1>3, Induction
<1>5. Sound(f.steps)
  BY <1>1, <1>4 DEF Good
<1>6. QED
  BY <1>5

-----------------------------------------------------------------------------
(* The paths that the exporter and the synthesis write.                    *)
LEMMA OneThenRandom ==
  ASSUME NEW first, NEW tree, NEW count \in Nat
  PROVE  LET leaves == <<first>> \o RandomLeaves(tree, count) IN
         /\ Len(leaves) = count + 1 /\ leaves[1] = first /\ LeafAt(leaves, 0) = first
<1> DEFINE rest == RandomLeaves(tree, count)
           S == {first} \cup {rest[i] : i \in 1 .. count}
           one == <<first>>
<1>1. one \in Seq(S) /\ Len(one) = 1 /\ one[1] = first
  OBVIOUS
<1>2. rest \in [1 .. count -> S]
  BY DEF RandomLeaves
<1> HIDE DEF rest, S, one
<1>3. rest \in Seq(S) /\ DOMAIN rest = 1 .. count
  BY <1>2
<1>4. Len(rest) = count
  BY <1>3, LenProperties
<1>5. Len(one \o rest) = 1 + count /\ (one \o rest)[1] = one[1]
  <2>1. /\ Len(one \o rest) = Len(one) + Len(rest)
        /\ \A i \in 1 .. Len(one) + Len(rest) :
             (one \o rest)[i] = IF i <= Len(one) THEN one[i] ELSE rest[i - Len(one)]
    BY <1>1, <1>3, ConcatProperties
  <2>2. 1 \in 1 .. Len(one) + Len(rest) /\ 1 <= Len(one)
    BY <1>1, <1>4
  <2>3. QED
    BY <1>1, <1>4, <2>1, <2>2
<1>6. LeafAt(one \o rest, 0) = first
  BY <1>1, <1>5 DEF LeafAt
<1>7. QED
  BY <1>1, <1>5, <1>6 DEF one, rest

LEMMA SynthLeavesAre ==
  ASSUME NEW t \in Nat
  PROVE  LET leaves == SynthLeaves[t] IN
         /\ Len(leaves) = Window + 2 /\ leaves[1] = LeafAt(leaves, 0)
         /\ t = 0 => leaves[1] = BlockLeaf(SynthBlock, DenseRoot(SynthMessages))
         /\ t > 0 => leaves[1] = DenseRoot(SynthLeaves[t - 1])
<1> DEFINE first == IF t = 0 THEN BlockLeaf(SynthBlock, DenseRoot(SynthMessages))
                    ELSE DenseRoot(SynthLeaves[t - 1])
           leaves == SynthLeaves[t]
<1>1. leaves = <<first>> \o RandomLeaves(t, Window + 1)
  BY SynthLeavesIsDefined DEF SynthValue
<1>2. Window + 1 \in Nat /\ (Window + 1) + 1 = Window + 2
  BY LayerDepth
<1> HIDE DEF first, leaves
<1>3. Len(leaves) = Window + 2 /\ leaves[1] = first /\ LeafAt(leaves, 0) = first
  BY <1>1, <1>2, OneThenRandom
<1>4. QED
  BY <1>3 DEF first, leaves

LEMMA SynthMessagesAre ==
  /\ Len(SynthMessages) \in Nat /\ Len(SynthMessages) > 0
  /\ LeafAt(SynthMessages, 0) = MessageLeaf(SynthAccount, Voucher)
<1>1. Window - 1 \in Nat
  BY LayerDepth
<1>2. QED
  BY <1>1, OneThenRandom DEF SynthMessages

LEMMA ProofsFit ==
  ASSUME NEW leaves, Len(leaves) \in Nat, NEW pos, Place(pos, Depth(Len(leaves)))
  PROVE  LET p == Proof(leaves, pos) IN
         /\ p.position = pos
         /\ ProofShape(p, Depth(Len(leaves))) /\ EventsShape(p)
         /\ RootFrom(LeafAt(leaves, pos), p.position, p.siblings) = DenseRoot(leaves)
<1> DEFINE s == DenseProof(leaves, pos)
           p == Proof(leaves, pos)
<1>1. pos \in Nat /\ pos < TwoTo[Depth(Len(leaves))]
  BY DEF Place
<1>2. s \in Seq(Nodes(leaves)) /\ Len(s) = Depth(Len(leaves))
  BY <1>1, ProofCollectsSiblings
<1>3. RootFrom(LeafAt(leaves, pos), pos, s) = DenseRoot(leaves)
  BY <1>1, ProofLeadsToRoot
<1>4. p.siblings = s /\ p.position = pos
  BY DEF Proof
<1> HIDE DEF s, p
<1>5. QED
  BY <1>2, <1>3, <1>4 DEF p, ProofShape, EventsShape

LEMMA PlacesFit ==
  /\ Place(0, D)
  /\ \A b \in Nat, n \in Nat \ {0} : Place(PosIn(b, n), D)
  /\ \A len \in Nat, i \in Nat : i < len => Place(i, Depth(len))
<1>1. Place(0, D)
  BY LayerDepth DEF Place
<1>2. ASSUME NEW b \in Nat, NEW n \in Nat \ {0}
      PROVE  Place(PosIn(b, n), D)
  <2> DEFINE t == TreeOver(b, n - 1)
  <2>1. t \in Nat /\ PosIn(b, n) = 2 + (t % Window)
    BY TreeAbove DEF TreeOver, PosIn
  <2> HIDE DEF t
  <2>2. t % Window \in 0 .. Window - 1
    BY <2>1, LayerDepth, DivMod
  <2>3. PosIn(b, n) \in Nat /\ PosIn(b, n) < Window + 2
    <3>1. Window \in Nat
      BY LayerDepth
    <3> DEFINE r == t % Window
    <3> HIDE DEF r
    <3>2. r \in 0 .. Window - 1 /\ PosIn(b, n) = 2 + r
      BY <2>1, <2>2 DEF r
    <3>3. QED
      BY <3>1, <3>2
  <2>4. QED
    BY <2>3, LayerDepth DEF Place
<1>3. ASSUME NEW len \in Nat, NEW i \in Nat, i < len
      PROVE  Place(i, Depth(len))
  <2>1. len <= TwoTo[Depth(len)] /\ TwoTo[Depth(len)] \in Nat
    BY DepthFits, TwoToGrows
  <2>2. QED
    BY <1>3, <2>1 DEF Place
<1>4. QED
  BY <1>1, <1>2, <1>3

(* A block's tree on the layer below is at its place in its tree.          *)
LEMMA LeafOfTree ==
  ASSUME NEW b \in Nat, NEW n \in Nat \ {0}
  PROVE  LeafAt(LayerLeaves(n, TreeOver(b, n)), PosIn(b, n)) = LayerRoot[n - 1][TreeOver(b, n - 1)]
<1> DEFINE t == TreeOver(b, n - 1)
           k == TreeOver(b, n)
           j == t % Window
<1>1. n - 1 \in Nat /\ (n - 1) + 1 = n
  OBVIOUS
<1>2. t \in Nat /\ k \in Nat /\ k = t \div Window /\ PosIn(b, n) = 2 + j
  BY <1>1, TreeAbove DEF TreeOver, PosIn
<1> HIDE DEF t, k
<1>3. Window \in Nat \ {0}
  BY LayerDepth
<1>4. j \in 0 .. Window - 1 /\ t = (t \div Window) * Window + j
  BY <1>2, <1>3, DivMod
<1>5. t = k * Window + j
  BY <1>2, <1>4
<1> HIDE DEF j
<1>6. LeafAt(LayerLeaves(n, k), j + 2) = LayerRoot[n - 1][k * Window + j]
  BY <1>2, <1>4, LayerLeavesAre
<1>7. PosIn(b, n) = j + 2
  BY <1>2, <1>3, <1>4
<1>8. QED
  BY <1>5, <1>6, <1>7 DEF t, k

(* The path of a link, or of the block tree, leads to the layer's root.    *)
LEMMA LayerProofFits ==
  ASSUME NEW b \in Nat, NEW n \in Nat \ {0}
  PROVE  LET p == Proof(LayerLeaves(n, TreeOver(b, n)), PosIn(b, n)) IN
         /\ ProofShape(p, D)
         /\ RootFrom(LayerRoot[n - 1][TreeOver(b, n - 1)], p.position, p.siblings)
              = LayerRoot[n][TreeOver(b, n)]
<1> DEFINE k      == TreeOver(b, n)
           leaves == LayerLeaves(n, k)
           pos    == PosIn(b, n)
<1>1. k \in Nat
  BY TreeAbove
<1>2. Len(leaves) \in Nat /\ Len(leaves) = Window + 2
  BY <1>1, LayerLeavesAre
<1>3. Depth(Len(leaves)) = D /\ Place(pos, Depth(Len(leaves)))
  BY <1>2, PlacesFit DEF D
<1>4. LeafAt(leaves, pos) = LayerRoot[n - 1][TreeOver(b, n - 1)]
  BY LeafOfTree
<1>5. LayerRoot[n][k] = DenseRoot(leaves)
  BY <1>1, RootOfLayer
<1> HIDE DEF leaves, pos
<1>6. /\ ProofShape(Proof(leaves, pos), D)
      /\ RootFrom(LeafAt(leaves, pos), Proof(leaves, pos).position, Proof(leaves, pos).siblings)
           = DenseRoot(leaves)
  BY <1>2, <1>3, ProofsFit
<1>7. QED
  BY <1>4, <1>5, <1>6 DEF leaves, pos

-----------------------------------------------------------------------------
(* The fixtures that are exported or synthesised.                          *)
LEMMA ExportIs ==
  ASSUME NEW b \in DOMAIN Tracks, NEW i \in DOMAIN Tracks[b], NEW n \in 1 .. TopLayer
  PROVE  LET f == Export(b, i, n) IN
         /\ b \in Nat /\ n \in Nat \ {0}
         /\ f.sk = f.event.key /\ f.event = Tracks[b][i].event /\ f.account = Tracks[b][i].account
         /\ f.eventsProof = Proof(MessageLeaves(b), i - 1) /\ f.block = b
         /\ f.blockProof = Proof(LayerLeaves(1, TreeOver(b, 1)), PosIn(b, 1))
         /\ f.steps = n - 1 /\ f.steps \in Nat /\ f.steps <= MaxChainLen
         /\ (\E S : f.chain \in Seq(S)) /\ Len(f.chain) = n - 1 /\ DOMAIN f.chain = 1 .. n - 1
         /\ \A j \in 1 .. n - 1 : f.chain[j] = Link(b, j + 1)
         /\ f.declaredLayer = n /\ f.declaredRoot = LayerRoot[n][TreeOver(b, n)]
         /\ DOMAIN f = Fields
<1> DEFINE f == Export(b, i, n)
           chain == [j \in 1 .. n - 1 |-> Link(b, j + 1)]
           S == {Link(b, j + 1) : j \in 1 .. n - 1}
<1>1. b \in Nat /\ n \in Nat \ {0} /\ n - 1 \in Nat /\ n - 1 <= MaxChainLen
  BY ShapeAssumption, BlocksAreNumbers
<1>2. chain \in [1 .. n - 1 -> S] /\ \A j \in 1 .. n - 1 : chain[j] = Link(b, j + 1)
  OBVIOUS
<1>3. /\ f.sk = f.event.key /\ f.event = Tracks[b][i].event /\ f.account = Tracks[b][i].account
      /\ f.eventsProof = Proof(MessageLeaves(b), i - 1) /\ f.block = b
      /\ f.blockProof = Proof(LayerLeaves(1, TreeOver(b, 1)), PosIn(b, 1))
      /\ f.steps = n - 1 /\ f.chain = chain
      /\ f.declaredLayer = n /\ f.declaredRoot = LayerRoot[n][TreeOver(b, n)]
      /\ DOMAIN f = Fields
  BY DEF Export, Fields
<1> HIDE DEF f, chain, S
<1>4. chain \in Seq(S) /\ DOMAIN chain = 1 .. n - 1
  BY <1>1, <1>2
<1>5. Len(chain) = n - 1
  BY <1>1, <1>4, LenProperties
<1>6. QED
  BY <1>1, <1>2, <1>3, <1>4, <1>5 DEF f

LEMMA LinkIs ==
  ASSUME NEW b \in Nat, NEW n \in Nat \ {0}
  PROVE  LET link == Link(b, n) IN
         /\ LinkShape(link) /\ link.active = TRUE
         /\ link.leaf = LayerRoot[n - 1][TreeOver(b, n - 1)]
         /\ LinkRoot(link) = LayerRoot[n][TreeOver(b, n)]
<1> DEFINE link == Link(b, n)
           p == Proof(LayerLeaves(n, TreeOver(b, n)), PosIn(b, n))
<1>1. /\ link.active = TRUE /\ link.leaf = LayerRoot[n - 1][TreeOver(b, n - 1)]
      /\ link.proof = p /\ DOMAIN link = {"active", "leaf", "proof"}
  BY DEF Link
<1> HIDE DEF link, p
<1>2. /\ ProofShape(p, D)
      /\ RootFrom(LayerRoot[n - 1][TreeOver(b, n - 1)], p.position, p.siblings)
           = LayerRoot[n][TreeOver(b, n)]
  BY LayerProofFits DEF p
<1>3. QED
  BY <1>1, <1>2 DEF LinkShape, LinkRoot, link

LEMMA ExportShape ==
  ASSUME NEW b \in DOMAIN Tracks, NEW i \in DOMAIN Tracks[b], NEW n \in 1 .. TopLayer
  PROVE  Shape(Export(b, i, n))
<1> DEFINE f == Export(b, i, n)
           p == Proof(MessageLeaves(b), i - 1)
           q == Proof(LayerLeaves(1, TreeOver(b, 1)), PosIn(b, 1))
<1>1. /\ b \in Nat /\ n \in Nat \ {0} /\ f.event = Tracks[b][i].event
      /\ f.eventsProof = p /\ f.blockProof = q /\ f.steps \in Nat
      /\ (\E S : f.chain \in Seq(S)) /\ DOMAIN f.chain = 1 .. n - 1
      /\ \A j \in 1 .. n - 1 : f.chain[j] = Link(b, j + 1)
      /\ DOMAIN f = Fields
  BY ExportIs
<1>2. f.event \in EventType
  BY <1>1, EntriesAreTyped
<1>3. EventsShape(p)
  <2>1. Len(MessageLeaves(b)) \in Nat /\ i \in 1 .. Len(MessageLeaves(b))
    BY MessageLeavesAre
  <2>2. i - 1 \in Nat /\ i - 1 < Len(MessageLeaves(b))
    BY <2>1
  <2>3. Place(i - 1, Depth(Len(MessageLeaves(b))))
    BY <2>1, <2>2, PlacesFit
  <2>4. QED
    BY <2>1, <2>3, ProofsFit
<1>4. ProofShape(q, D)
  BY <1>1, LayerProofFits
<1>5. ASSUME NEW j \in 1 .. n - 1
      PROVE  LinkShape(Link(b, j + 1))
  <2>1. j + 1 \in Nat \ {0}
    OBVIOUS
  <2>2. QED
    BY <1>1, <2>1, LinkIs
<1> HIDE DEF f, p, q
<1>6. ChainShape(f.chain)
  BY <1>1, <1>5 DEF ChainShape
<1>7. Shape(f)
  BY <1>1, <1>2, <1>3, <1>4, <1>6 DEF Shape
<1>8. QED
  BY <1>7 DEF f

SynthLink(t) == [active |-> TRUE, leaf |-> SynthLeaves[t][1], proof |-> Proof(SynthLeaves[t], 0)]

LEMMA SynthProofFits ==
  ASSUME NEW t \in Nat
  PROVE  LET p == Proof(SynthLeaves[t], 0) IN
         /\ ProofShape(p, D)
         /\ RootFrom(SynthLeaves[t][1], p.position, p.siblings) = DenseRoot(SynthLeaves[t])
<1> DEFINE leaves == SynthLeaves[t]
<1>1. Len(leaves) = Window + 2 /\ leaves[1] = LeafAt(leaves, 0) /\ Window + 2 \in Nat
  BY SynthLeavesAre, LayerDepth
<1> HIDE DEF leaves
<1>2. Depth(Len(leaves)) = D /\ Place(0, Depth(Len(leaves))) /\ Len(leaves) \in Nat
  BY <1>1, PlacesFit DEF D
<1>3. QED
  BY <1>1, <1>2, ProofsFit DEF leaves

LEMMA SynthLinkIs ==
  ASSUME NEW t \in Nat
  PROVE  LET link == SynthLink(t) IN
         /\ LinkShape(link) /\ link.active = TRUE /\ link.leaf = SynthLeaves[t][1]
         /\ LinkRoot(link) = DenseRoot(SynthLeaves[t])
<1> DEFINE link == SynthLink(t)
           p == Proof(SynthLeaves[t], 0)
<1>1. /\ link.active = TRUE /\ link.leaf = SynthLeaves[t][1]
      /\ link.proof = p /\ DOMAIN link = {"active", "leaf", "proof"}
  BY DEF SynthLink
<1> HIDE DEF link, p
<1>2. ProofShape(p, D) /\ RootFrom(SynthLeaves[t][1], p.position, p.siblings) = DenseRoot(SynthLeaves[t])
  BY SynthProofFits DEF p
<1>3. QED
  BY <1>1, <1>2 DEF LinkShape, LinkRoot, link

LEMMA SyntheticIs ==
  ASSUME NEW len \in Nat
  PROVE  LET f == Synthetic(len) IN
         /\ f.sk = f.event.key /\ f.event = Voucher /\ f.account = SynthAccount
         /\ f.eventsProof = Proof(SynthMessages, 0) /\ f.block = SynthBlock
         /\ f.blockProof = Proof(SynthLeaves[0], 0) /\ f.steps = len
         /\ (\E S : f.chain \in Seq(S)) /\ Len(f.chain) = len /\ DOMAIN f.chain = 1 .. len
         /\ \A t \in 1 .. len : f.chain[t] = SynthLink(t)
         /\ f.declaredLayer = None /\ f.declaredRoot = None
         /\ DOMAIN f = Fields
<1> DEFINE f == Synthetic(len)
           chain == [t \in 1 .. len |-> SynthLink(t)]
           S == {SynthLink(t) : t \in 1 .. len}
<1>1. chain \in [1 .. len -> S] /\ \A t \in 1 .. len : chain[t] = SynthLink(t)
  OBVIOUS
<1>2. /\ f.sk = f.event.key /\ f.event = Voucher /\ f.account = SynthAccount
      /\ f.eventsProof = Proof(SynthMessages, 0) /\ f.block = SynthBlock
      /\ f.blockProof = Proof(SynthLeaves[0], 0) /\ f.steps = len
      /\ f.chain = chain /\ f.declaredLayer = None /\ f.declaredRoot = None
      /\ DOMAIN f = Fields
  BY DEF Synthetic, SynthLink, Fields
<1> HIDE DEF f, chain, S
<1>3. chain \in Seq(S) /\ DOMAIN chain = 1 .. len
  BY <1>1
<1>4. Len(chain) = len
  BY <1>3, LenProperties
<1>5. QED
  BY <1>1, <1>2, <1>3, <1>4 DEF f

LEMMA SyntheticShape ==
  ASSUME NEW len \in Nat
  PROVE  Shape(Synthetic(len))
<1> DEFINE f == Synthetic(len)
           p == Proof(SynthMessages, 0)
           q == Proof(SynthLeaves[0], 0)
<1>1. /\ f.event = Voucher /\ f.eventsProof = p /\ f.blockProof = q /\ f.steps = len
      /\ (\E S : f.chain \in Seq(S)) /\ DOMAIN f.chain = 1 .. len
      /\ \A t \in 1 .. len : f.chain[t] = SynthLink(t)
      /\ DOMAIN f = Fields
  BY SyntheticIs
<1>2. f.event \in EventType
  BY <1>1, TracksAssumption
<1>3. EventsShape(p)
  BY SynthMessagesAre, PlacesFit, ProofsFit
<1>4. ProofShape(q, D)
  BY SynthProofFits
<1>5. ASSUME NEW t \in 1 .. len
      PROVE  LinkShape(SynthLink(t))
  <2>1. t \in Nat
    OBVIOUS
  <2>2. QED
    BY <2>1, SynthLinkIs
<1> HIDE DEF f, p, q
<1>6. ChainShape(f.chain)
  BY <1>1, <1>5 DEF ChainShape
<1>7. Shape(f)
  BY <1>1, <1>2, <1>3, <1>4, <1>6 DEF Shape
<1>8. QED
  BY <1>7 DEF f

-----------------------------------------------------------------------------
(* Edits keep the shape, and the declared root.                            *)
LEMMA MixedShape ==
  ASSUME NEW f, Shape(f), NEW g, Shape(g), NEW h \in Mixed(f, g)
  PROVE  Shape(h) /\ h.declaredRoot = f.declaredRoot
<1>1. CASE h = [f EXCEPT !.event = g.event, !.sk = g.sk]
  <2>1. /\ DOMAIN h = Fields /\ h.event = g.event /\ h.steps = f.steps /\ h.chain = f.chain
        /\ h.eventsProof = f.eventsProof /\ h.blockProof = f.blockProof
        /\ h.declaredRoot = f.declaredRoot
    BY <1>1 DEF Shape, Fields
  <2>2. QED
    BY <2>1 DEF Shape
<1>2. CASE h = [f EXCEPT !.account = g.account, !.eventsProof = g.eventsProof]
  <2>1. /\ DOMAIN h = Fields /\ h.event = f.event /\ h.steps = f.steps /\ h.chain = f.chain
        /\ h.eventsProof = g.eventsProof /\ h.blockProof = f.blockProof
        /\ h.declaredRoot = f.declaredRoot
    BY <1>2 DEF Shape, Fields
  <2>2. QED
    BY <2>1 DEF Shape
<1>3. CASE h = [f EXCEPT !.block = g.block, !.blockProof = g.blockProof]
  <2>1. /\ DOMAIN h = Fields /\ h.event = f.event /\ h.steps = f.steps /\ h.chain = f.chain
        /\ h.eventsProof = f.eventsProof /\ h.blockProof = g.blockProof
        /\ h.declaredRoot = f.declaredRoot
    BY <1>3 DEF Shape, Fields
  <2>2. QED
    BY <2>1 DEF Shape
<1>4. CASE h = [f EXCEPT !.steps = g.steps, !.chain = g.chain]
  <2>1. /\ DOMAIN h = Fields /\ h.event = f.event /\ h.steps = g.steps /\ h.chain = g.chain
        /\ h.eventsProof = f.eventsProof /\ h.blockProof = f.blockProof
        /\ h.declaredRoot = f.declaredRoot
    BY <1>4 DEF Shape, Fields
  <2>2. QED
    BY <2>1 DEF Shape
<1>5. QED
  BY <1>1, <1>2, <1>3, <1>4 DEF Mixed

LEMMA ChangedShape ==
  ASSUME NEW f, Shape(f), NEW h \in Changed(f)
  PROVE  Shape(h) /\ h.declaredRoot = f.declaredRoot
<1>1. CASE \E s \in 0 .. MaxChainLen + 1 : h = [f EXCEPT !.steps = s]
  <2>1. PICK s \in 0 .. MaxChainLen + 1 : h = [f EXCEPT !.steps = s]
    BY <1>1
  <2>2. /\ DOMAIN h = Fields /\ h.event = f.event /\ h.steps = s /\ h.chain = f.chain
        /\ h.eventsProof = f.eventsProof /\ h.blockProof = f.blockProof
        /\ h.declaredRoot = f.declaredRoot
    BY <2>1 DEF Shape, Fields
  <2>3. s \in Nat
    OBVIOUS
  <2>4. QED
    BY <2>2, <2>3 DEF Shape
<1>2. CASE \E i \in DOMAIN f.chain : h = [f EXCEPT !.chain[i].active = ~@]
  <2>1. PICK i \in DOMAIN f.chain : h = [f EXCEPT !.chain[i].active = ~@]
    BY <1>2
  <2> DEFINE link  == [f.chain[i] EXCEPT !.active = ~@]
             chain == [f.chain EXCEPT ![i] = link]
  <2>2. h = [f EXCEPT !.chain = chain]
    BY <2>1
  <2>3. LinkShape(f.chain[i])
    BY DEF Shape, ChainShape
  <2>4. LinkShape(link)
    BY <2>3 DEF LinkShape
  <2> HIDE DEF link
  <2>5. PICK S : f.chain \in Seq(S)
    BY DEF Shape, ChainShape
  <2> DEFINE T == S \cup {link}
  <2>6. chain \in Seq(T) /\ DOMAIN chain = DOMAIN f.chain
    BY <2>5
  <2>7. \A j \in DOMAIN f.chain : LinkShape(chain[j])
    BY <2>4 DEF Shape, ChainShape
  <2> HIDE DEF chain, T
  <2>8. ChainShape(chain)
    BY <2>6, <2>7 DEF ChainShape
  <2>9. /\ DOMAIN h = Fields /\ h.event = f.event /\ h.steps = f.steps /\ h.chain = chain
        /\ h.eventsProof = f.eventsProof /\ h.blockProof = f.blockProof
        /\ h.declaredRoot = f.declaredRoot
    BY <2>2 DEF Shape, Fields
  <2>10. QED
    BY <2>8, <2>9 DEF Shape
<1>3. CASE h = [f EXCEPT !.chain = Append(@, [active |-> FALSE, leaf |-> FinalRoot(f),
                                             proof |-> f.blockProof])]
  <2> DEFINE link  == [active |-> FALSE, leaf |-> FinalRoot(f), proof |-> f.blockProof]
             chain == Append(f.chain, link)
  <2>1. h = [f EXCEPT !.chain = chain]
    BY <1>3
  <2>2. LinkShape(link)
    BY DEF LinkShape, Shape
  <2> HIDE DEF link
  <2>3. PICK S : f.chain \in Seq(S)
    BY DEF Shape, ChainShape
  <2> DEFINE T == S \cup {link}
  <2>4. f.chain \in Seq(T) /\ link \in T
    BY <2>3
  <2> HIDE DEF T
  <2>5. /\ chain \in Seq(T) /\ Len(chain) = Len(f.chain) + 1 /\ Len(f.chain) \in Nat
        /\ DOMAIN chain = 1 .. Len(f.chain) + 1
        /\ \A i \in 1 .. Len(f.chain) : chain[i] = f.chain[i]
        /\ chain[Len(f.chain) + 1] = link
    BY <2>4, AppendProperties, LenProperties
  <2>6. DOMAIN f.chain = 1 .. Len(f.chain)
    BY <2>4
  <2> HIDE DEF chain
  <2>7. \A i \in DOMAIN chain : LinkShape(chain[i])
    <3> SUFFICES ASSUME NEW i \in 1 .. Len(f.chain) + 1 PROVE LinkShape(chain[i])
      BY <2>5
    <3>1. CASE i \in 1 .. Len(f.chain)
      BY <2>5, <2>6, <3>1 DEF Shape, ChainShape
    <3>2. CASE i = Len(f.chain) + 1
      BY <2>2, <2>5, <3>2
    <3>3. QED
      BY <2>5, <3>1, <3>2
  <2>8. ChainShape(chain)
    BY <2>5, <2>7 DEF ChainShape
  <2>9. /\ DOMAIN h = Fields /\ h.event = f.event /\ h.steps = f.steps /\ h.chain = chain
        /\ h.eventsProof = f.eventsProof /\ h.blockProof = f.blockProof
        /\ h.declaredRoot = f.declaredRoot
    BY <2>1 DEF Shape, Fields
  <2>10. QED
    BY <2>8, <2>9 DEF Shape
<1>4. CASE \E k \in Keys : h = [f EXCEPT !.sk = k]
  <2>1. PICK k \in Keys : h = [f EXCEPT !.sk = k]
    BY <1>4
  <2>2. /\ DOMAIN h = Fields /\ h.event = f.event /\ h.steps = f.steps /\ h.chain = f.chain
        /\ h.eventsProof = f.eventsProof /\ h.blockProof = f.blockProof
        /\ h.declaredRoot = f.declaredRoot
    BY <2>1 DEF Shape, Fields
  <2>3. QED
    BY <2>2 DEF Shape
<1>5. QED
  BY <1>1, <1>2, <1>3, <1>4 DEF Changed

-----------------------------------------------------------------------------
(* fixture_anchor_from_json and compute_instances.                         *)
LEMMA ActivePrefixIs ==
  ASSUME NEW f, Shape(f)
  PROVE  /\ ActivePrefix(f) \in 0 .. Len(f.chain)
         /\ \A i \in 1 .. ActivePrefix(f) : i \in DOMAIN f.chain /\ f.chain[i].active
         /\ ~ActiveAt(f, ActivePrefix(f) + 1)
<1> DEFINE len == Len(f.chain)
           Ends == {i \in Nat : i >= 1 /\ ~ActiveAt(f, i)}
           Prefix(n) == (\A i \in 1 .. n : f.chain[i].active) /\ ~ActiveAt(f, n + 1)
<1>1. len \in Nat /\ DOMAIN f.chain = 1 .. len
  BY DEF Shape, ChainShape
<1> HIDE DEF len
<1>2. len + 1 \in Ends
  BY <1>1 DEF ActiveAt
<1>3. PICK x \in Ends : \A y \in Ends : x <= y
  BY <1>2, LeastElement
<1> DEFINE n == x - 1
<1>4. n \in 0 .. len /\ n + 1 = x
  BY <1>1, <1>2, <1>3
<1>5. \A i \in 1 .. n : f.chain[i].active
  <2> SUFFICES ASSUME NEW i \in 1 .. n PROVE f.chain[i].active
    OBVIOUS
  <2>1. i \in Nat /\ i >= 1 /\ i < x
    BY <1>4
  <2>2. i \notin Ends
    BY <1>3, <2>1
  <2>3. QED
    BY <2>1, <2>2 DEF ActiveAt
<1>6. Prefix(n)
  BY <1>3, <1>4, <1>5
<1> HIDE DEF n, Prefix
<1>7. \E m \in 0 .. len : Prefix(m)
  BY <1>4, <1>6
<1>8. ActivePrefix(f) = CHOOSE m \in 0 .. len : Prefix(m)
  BY DEF ActivePrefix, len, Prefix
<1>9. ActivePrefix(f) \in 0 .. len /\ Prefix(ActivePrefix(f))
  BY <1>7, <1>8, Zenon
<1>10. \A i \in 1 .. ActivePrefix(f) : i \in DOMAIN f.chain
  BY <1>1, <1>9
<1>11. QED
  BY <1>9, <1>10 DEF Prefix, len

(* The assertion on active links cannot fire after the check.              *)
LEMMA MatchedLinksAreActive ==
  ASSUME NEW f, Shape(f), LinksMatch(f)
  PROVE  /\ f.steps <= MaxChainLen
         /\ \A i \in 1 .. f.steps : ActiveAt(f, i)
         /\ Panics(f) => f.event.childLen < EVENT_TOKEN_TYPE_END \/ f.event.key = None
<1>1. f.steps <= MaxChainLen /\ f.steps = ActivePrefix(f) /\ f.steps \in Nat
  BY DEF LinksMatch, Shape
<1>2. \A i \in 1 .. f.steps : ActiveAt(f, i)
  BY <1>1, ActivePrefixIs DEF ActiveAt
<1>3. \A i \in 1 .. MaxChainLen : i <= f.steps => ActiveAt(f, i)
  BY <1>1, <1>2
<1>4. QED
  BY <1>1, <1>2, <1>3 DEF Panics

LEMMA VerdictIs ==
  ASSUME NEW f, NEW layer
  PROVE  /\ Verdict(f, layer) \in {"refused", "panic", "accepted"}
         /\ Verdict(f, layer) = "panic" => LinksMatch(f) /\ Panics(f)
         /\ Verdict(f, layer) = "accepted" <=>
              LinksMatch(f) /\ LayerMatches(f, layer) /\ Parses(f) /\ ~Panics(f) /\ RootMatches(f)
BY DEF Verdict

LEMMA GeneratedIs ==
  ASSUME NEW f
  PROVE  /\ Generated(f) \in {"refused", "panic", "proof", "useless"}
         /\ Generated(f) = "panic" => Panics(f) \/ ~Builds(f)
         /\ Generated(f) = "proof" <=> Parses(f) /\ ~Panics(f) /\ Builds(f) /\ Satisfied(f)
BY DEF Generated

(* A circuit that was built without a panic has its links.                 *)
LEMMA BuiltIsComplete ==
  ASSUME NEW f, Shape(f), ~Panics(f), f.steps <= MaxChainLen
  PROVE  Complete(f) /\ FinalRoot(f) = IF f.steps = 0 THEN FirstRoot(f) ELSE LinkRoot(f.chain[f.steps])
<1>1. f.steps \in Nat /\ MaxChainLen \in Nat
  BY ShapeAssumption DEF Shape
<1>2. ASSUME NEW i \in 1 .. f.steps
      PROVE  i \in DOMAIN f.chain
  <2>1. i \in 1 .. MaxChainLen /\ i <= f.steps
    BY <1>1
  <2>2. QED
    BY <2>1 DEF Panics, ActiveAt
<1>3. QED
  BY <1>2 DEF Complete, FinalRoot, LastLink

-----------------------------------------------------------------------------
(* Honest fixtures: every link is active and its leaf is the root before   *)
(* it, and what is declared, if anything, is what the links lead to.       *)
Chained(f) ==
  /\ Shape(f) /\ f.steps <= MaxChainLen /\ DOMAIN f.chain = 1 .. f.steps
  /\ \A i \in 1 .. f.steps :
       /\ f.chain[i].active = TRUE
       /\ f.chain[i].leaf = IF i = 1 THEN FirstRoot(f) ELSE LinkRoot(f.chain[i - 1])
  /\ f.sk = f.event.key
  /\ f.declaredLayer \in {None, f.steps + 1}
  /\ f.declaredRoot \in {None, FinalRoot(f)}
  /\ f.block # SynthBlock =>
       FinalRoot(f) = LayerRoot[f.steps + 1][TreeOver(f.block, f.steps + 1)]

Older(f) == [f EXCEPT !.declaredLayer = None, !.declaredRoot = None]

Honest(f) ==
  \/ f \in Exports
  \/ \E g \in Exports : f = Older(g)
  \/ \E len \in 0 .. MaxChainLen : f = Synthetic(len)

LEMMA ExportIsChained ==
  ASSUME NEW b \in DOMAIN Tracks, NEW i \in DOMAIN Tracks[b], NEW n \in 1 .. TopLayer
  PROVE  Chained(Export(b, i, n))
<1> DEFINE f == Export(b, i, n)
           p == Proof(MessageLeaves(b), i - 1)
           q == Proof(LayerLeaves(1, TreeOver(b, 1)), PosIn(b, 1))
           msg == MessageLeaf(f.account, f.event)
<1>1. /\ b \in Nat /\ n \in Nat \ {0} /\ f.event = Tracks[b][i].event
      /\ f.account = Tracks[b][i].account /\ f.sk = f.event.key /\ f.block = b
      /\ f.eventsProof = p /\ f.blockProof = q /\ f.steps = n - 1 /\ f.steps <= MaxChainLen
      /\ DOMAIN f.chain = 1 .. n - 1
      /\ \A j \in 1 .. n - 1 : f.chain[j] = Link(b, j + 1)
      /\ f.declaredLayer = n /\ f.declaredRoot = LayerRoot[n][TreeOver(b, n)]
  BY ExportIs
<1>2. Shape(f)
  BY ExportShape
<1>3. RootFrom(msg, p.position, p.siblings) = DenseRoot(MessageLeaves(b))
  <2>1. Len(MessageLeaves(b)) \in Nat /\ i \in 1 .. Len(MessageLeaves(b))
    BY MessageLeavesAre
  <2>2. i - 1 \in Nat /\ i - 1 < Len(MessageLeaves(b))
    BY <2>1
  <2>3. Place(i - 1, Depth(Len(MessageLeaves(b))))
    BY <2>1, <2>2, PlacesFit
  <2>4. LeafAt(MessageLeaves(b), i - 1) = MessageLeaf(Tracks[b][i].account, Tracks[b][i].event)
    BY MessageLeavesAre
  <2>5. RootFrom(LeafAt(MessageLeaves(b), i - 1), p.position, p.siblings)
          = DenseRoot(MessageLeaves(b))
    BY <2>1, <2>3, ProofsFit
  <2>6. QED
    BY <1>1, <2>4, <2>5
<1>4. BlockLeaf(b, DenseRoot(MessageLeaves(b))) = LayerRoot[0][TreeOver(b, 0)]
  BY <1>1, RootOfLayer, TreeAbove DEF LeafOf
<1>5. RootFrom(LayerRoot[0][TreeOver(b, 0)], q.position, q.siblings) = LayerRoot[1][TreeOver(b, 1)]
  <2> DEFINE one == 1
  <2>1. one \in Nat \ {0} /\ one - 1 = 0 /\ one = 1
    OBVIOUS
  <2> HIDE DEF one
  <2>2. LET r == Proof(LayerLeaves(one, TreeOver(b, one)), PosIn(b, one)) IN
          RootFrom(LayerRoot[one - 1][TreeOver(b, one - 1)], r.position, r.siblings)
            = LayerRoot[one][TreeOver(b, one)]
    BY <1>1, <2>1, LayerProofFits
  <2>3. QED
    BY <2>1, <2>2
<1> HIDE DEF f, p, q
<1>6. FirstRoot(f) = LayerRoot[1][TreeOver(b, 1)]
  BY <1>1, <1>3, <1>4, <1>5 DEF FirstRoot, ExtOutRoot
<1>7. ASSUME NEW j \in 1 .. n - 1
      PROVE  /\ f.chain[j].active = TRUE
             /\ f.chain[j].leaf = LayerRoot[j][TreeOver(b, j)]
             /\ LinkRoot(f.chain[j]) = LayerRoot[j + 1][TreeOver(b, j + 1)]
  <2> DEFINE m == j + 1
  <2>1. m \in Nat \ {0} /\ m - 1 = j
    OBVIOUS
  <2>2. f.chain[j] = Link(b, m)
    BY <1>1
  <2> HIDE DEF m
  <2>3. /\ Link(b, m).active = TRUE /\ Link(b, m).leaf = LayerRoot[m - 1][TreeOver(b, m - 1)]
        /\ LinkRoot(Link(b, m)) = LayerRoot[m][TreeOver(b, m)]
    BY <1>1, <2>1, LinkIs
  <2>4. QED
    BY <2>1, <2>2, <2>3 DEF m
<1>8. ASSUME NEW j \in 1 .. n - 1
      PROVE  f.chain[j].leaf = IF j = 1 THEN FirstRoot(f) ELSE LinkRoot(f.chain[j - 1])
  <2>1. CASE j = 1
    BY <1>6, <1>7, <2>1
  <2>2. CASE j # 1
    <3>1. j - 1 \in 1 .. n - 1 /\ (j - 1) + 1 = j
      BY <1>1, <2>2
    <3>2. LinkRoot(f.chain[j - 1]) = LayerRoot[(j - 1) + 1][TreeOver(b, (j - 1) + 1)]
      BY <1>7, <3>1
    <3>3. QED
      BY <1>7, <2>2, <3>1, <3>2
  <2>3. QED
    BY <2>1, <2>2
<1>9. FinalRoot(f) = LayerRoot[n][TreeOver(b, n)]
  <2>1. LastLink(f) = n - 1
    BY <1>1 DEF LastLink
  <2>2. CASE n = 1
    BY <1>6, <2>1, <2>2 DEF FinalRoot
  <2>3. CASE n # 1
    <3>1. n - 1 \in 1 .. n - 1 /\ (n - 1) + 1 = n /\ n - 1 # 0
      BY <1>1, <2>3
    <3>2. LinkRoot(f.chain[n - 1]) = LayerRoot[(n - 1) + 1][TreeOver(b, (n - 1) + 1)]
      BY <1>7, <3>1
    <3>3. QED
      BY <2>1, <3>1, <3>2 DEF FinalRoot
  <2>4. QED
    BY <2>2, <2>3
<1>10. f.steps + 1 = n
  BY <1>1
<1>11. Chained(f)
  BY <1>1, <1>2, <1>7, <1>8, <1>9, <1>10 DEF Chained
<1>12. QED
  BY <1>11 DEF f

LEMMA OlderIsChained ==
  ASSUME NEW f, Chained(f)
  PROVE  Chained(Older(f))
<1> DEFINE g == Older(f)
<1>1. /\ DOMAIN g = Fields /\ g.event = f.event /\ g.steps = f.steps /\ g.chain = f.chain
      /\ g.eventsProof = f.eventsProof /\ g.blockProof = f.blockProof
      /\ g.sk = f.sk /\ g.account = f.account /\ g.block = f.block
      /\ g.declaredLayer = None /\ g.declaredRoot = None
  BY DEF Older, Chained, Shape, Fields
<1> HIDE DEF g
<1>2. Shape(g)
  BY <1>1 DEF Chained, Shape
<1>3. FirstRoot(g) = FirstRoot(f)
  BY <1>1 DEF FirstRoot, ExtOutRoot
<1>4. FinalRoot(g) = FinalRoot(f)
  BY <1>1, <1>3 DEF FinalRoot, LastLink
<1>5. Chained(g)
  BY <1>1, <1>2, <1>3, <1>4 DEF Chained
<1>6. QED
  BY <1>5 DEF g

LEMMA SyntheticIsChained ==
  ASSUME NEW len \in Nat, len <= MaxChainLen
  PROVE  Chained(Synthetic(len))
<1> DEFINE f == Synthetic(len)
           p == Proof(SynthMessages, 0)
           q == Proof(SynthLeaves[0], 0)
<1>1. /\ f.sk = f.event.key /\ f.event = Voucher /\ f.account = SynthAccount
      /\ f.eventsProof = p /\ f.block = SynthBlock /\ f.blockProof = q /\ f.steps = len
      /\ DOMAIN f.chain = 1 .. len /\ \A t \in 1 .. len : f.chain[t] = SynthLink(t)
      /\ f.declaredLayer = None /\ f.declaredRoot = None
  BY SyntheticIs
<1>2. Shape(f)
  BY SyntheticShape
<1>3. RootFrom(MessageLeaf(SynthAccount, Voucher), p.position, p.siblings) = DenseRoot(SynthMessages)
  <2>1. Place(0, Depth(Len(SynthMessages)))
    BY SynthMessagesAre, PlacesFit
  <2>2. QED
    BY <2>1, SynthMessagesAre, ProofsFit
<1>4. RootFrom(BlockLeaf(SynthBlock, DenseRoot(SynthMessages)), q.position, q.siblings)
        = DenseRoot(SynthLeaves[0])
  <2> DEFINE zero == 0
  <2>1. zero \in Nat /\ zero = 0
    OBVIOUS
  <2> HIDE DEF zero
  <2>2. SynthLeaves[zero][1] = BlockLeaf(SynthBlock, DenseRoot(SynthMessages))
    BY <2>1, SynthLeavesAre
  <2>3. LET r == Proof(SynthLeaves[zero], 0) IN
          RootFrom(SynthLeaves[zero][1], r.position, r.siblings) = DenseRoot(SynthLeaves[zero])
    BY <2>1, SynthProofFits
  <2>4. QED
    BY <2>1, <2>2, <2>3
<1> HIDE DEF f, p, q
<1>5. FirstRoot(f) = DenseRoot(SynthLeaves[0])
  BY <1>1, <1>3, <1>4 DEF FirstRoot, ExtOutRoot
<1>6. ASSUME NEW t \in 1 .. len
      PROVE  /\ f.chain[t].active = TRUE
             /\ f.chain[t].leaf = DenseRoot(SynthLeaves[t - 1])
             /\ LinkRoot(f.chain[t]) = DenseRoot(SynthLeaves[t])
  <2>1. t \in Nat /\ t > 0
    OBVIOUS
  <2>2. QED
    BY <1>1, <2>1, SynthLinkIs, SynthLeavesAre
<1>7. ASSUME NEW t \in 1 .. len
      PROVE  f.chain[t].leaf = IF t = 1 THEN FirstRoot(f) ELSE LinkRoot(f.chain[t - 1])
  <2>1. CASE t = 1
    <3>1. t - 1 = 0
      BY <2>1
    <3>2. QED
      BY <1>5, <1>6, <2>1, <3>1
  <2>2. CASE t # 1
    <3>1. t - 1 \in 1 .. len
      BY <2>2
    <3>2. QED
      BY <1>6, <2>2, <3>1
  <2>3. QED
    BY <2>1, <2>2
<1>8. Chained(f)
  BY <1>1, <1>2, <1>6, <1>7 DEF Chained
<1>9. QED
  BY <1>8 DEF f

LEMMA HonestIsChained ==
  ASSUME NEW f, Honest(f)
  PROVE  Chained(f)
<1>1. ASSUME NEW g \in Exports
      PROVE  Chained(g)
  BY ExportIsChained DEF Exports
<1>2. \A len \in 0 .. MaxChainLen : Chained(Synthetic(len))
  BY SyntheticIsChained, ShapeAssumption
<1>3. QED
  BY <1>1, <1>2, OlderIsChained DEF Honest

(* The check and the circuit take a chained fixture of a voucher.          *)
LEMMA ChainedProves ==
  ASSUME NEW f, Chained(f), IsVoucher(f.event), Len(f.eventsProof.siblings) <= MaxEventsDepth,
         NEW layer \in {None, f.steps + 1}
  PROVE  Verdict(f, layer) = "accepted" /\ Generated(f) = "proof"
<1> DEFINE s == f.steps
           active == {i \in DOMAIN f.chain : f.chain[i].active}
<1>1. /\ Shape(f) /\ s \in Nat /\ s <= MaxChainLen /\ MaxChainLen \in Nat
      /\ DOMAIN f.chain = 1 .. s
  BY ShapeAssumption DEF Chained, Shape
<1>2. \A i \in 1 .. s : f.chain[i].active
  BY DEF Chained
<1>3. Len(f.chain) = s
  <2>1. PICK S : f.chain \in Seq(S)
    BY <1>1 DEF Shape, ChainShape
  <2>2. Len(f.chain) \in Nat /\ DOMAIN f.chain = 1 .. Len(f.chain)
    BY <2>1, LenProperties
  <2>3. QED
    BY <1>1, <2>2
<1>4. ActivePrefix(f) = s
  <2> DEFINE a == ActivePrefix(f)
  <2>1. a \in 0 .. s /\ ~ActiveAt(f, a + 1)
    BY <1>1, <1>3, ActivePrefixIs
  <2> HIDE DEF a
  <2>2. a + 1 \notin 1 .. s
    BY <1>1, <1>2, <2>1 DEF ActiveAt
  <2>3. a = s
    BY <1>1, <2>1, <2>2
  <2>4. QED
    BY <2>3 DEF a
<1>5. Cardinality(active) = s
  <2>1. active = 1 .. s
    BY <1>1, <1>2
  <2>2. Cardinality(1 .. s) = s
    <3> DEFINE one == 1
    <3>1. one \in Int /\ s \in Int /\ one = 1
      BY <1>1
    <3> HIDE DEF one, s
    <3>2. Cardinality(one .. s) = IF one > s THEN 0 ELSE s - one + 1
      BY <3>1, FS_Interval
    <3>3. QED
      BY <1>1, <3>1, <3>2
  <2>3. QED
    BY <2>1, <2>2
<1> HIDE DEF s, active
<1>6. LinksMatch(f)
  BY <1>1, <1>4, <1>5 DEF LinksMatch, s, active
<1>7. ~Panics(f)
  <2>1. f.event.key # None /\ ~(f.event.childLen < EVENT_TOKEN_TYPE_END)
    <3>1. f.event.childLen \in Nat /\ f.event.childLen >= EVENT_TOKEN_TYPE_END
      BY <1>1 DEF Shape, EventType, IsVoucher
    <3>2. QED
      BY <3>1 DEF IsVoucher, EVENT_TOKEN_TYPE_END
  <2>2. \A i \in 1 .. MaxChainLen : i <= f.steps => ActiveAt(f, i)
    BY <1>1, <1>2 DEF ActiveAt, s
  <2>3. QED
    BY <2>1, <2>2 DEF Panics
<1>8. Parses(f)
  BY <1>1, <1>3 DEF Parses, IsVoucher
<1>9. LayerMatches(f, layer) /\ RootMatches(f)
  BY DEF Chained, LayerMatches, RootMatches
<1>10. Builds(f)
  BY <1>1 DEF Builds, s
<1>11. CircuitRoot(f) = FirstRoot(f)
  BY <1>1, PaddingIsInert
<1>12. Satisfied(f)
  <2>1. ChainLinked(f)
    BY <1>11 DEF ChainLinked, Chained
  <2>2. InstancesAgree(f)
    BY <1>1, <1>11 DEF InstancesAgree, CircuitFinalRoot, FinalRoot, LastLink, s
  <2>3. QED
    BY <2>1, <2>2 DEF Satisfied, DescriptorsFit, KeyCommitted, IsVoucher, Chained
<1>13. QED
  BY <1>6, <1>7, <1>8, <1>9, <1>10, <1>12, VerdictIs, GeneratedIs

(* A circuit's shape is that of the event's two cells, whatever else is in *)
(* the fixture.                                                            *)
LEMMA CircuitShapeIs ==
  ASSUME NEW f, Shape(f)
  PROVE  CircuitShape(f) =
           [entries |-> EntriesShape(f.event), block |-> D, links |-> [i \in 1 .. MaxChainLen |-> D]]
<1>1. Len(f.blockProof.siblings) = D
  BY DEF Shape, ProofShape
<1>2. \A i \in DOMAIN f.chain : Len(f.chain[i].proof.siblings) = D
  BY DEF Shape, ChainShape, LinkShape, ProofShape
<1>3. PadDepth(f) = D
  <2>1. PICK S : f.chain \in Seq(S)
    BY DEF Shape, ChainShape
  <2>2. f.chain # <<>> => 1 \in DOMAIN f.chain
    BY <2>1
  <2>3. QED
    BY <1>1, <1>2, <2>2 DEF PadDepth
<1>4. QED
  BY <1>1, <1>2, <1>3 DEF CircuitShape

(* Satisfied against a published root: the event is under it.              *)
LEMMA SatisfiedIsSound ==
  ASSUME NEW f, Shape(f), Generated(f) = "proof",
         NEW n \in 1 .. TopLayer, NEW k \in Trees(n), FinalRoot(f) = LayerRoot[n][k]
  PROVE  /\ n = f.steps + 1 /\ Under(n, k, f.block, f.account, f.event)
         /\ IsVoucher(f.event) /\ f.sk = f.event.key
<1>1. Parses(f) /\ ~Panics(f) /\ Builds(f) /\ Satisfied(f)
  BY GeneratedIs
<1>2. f.steps \in Nat /\ f.steps <= MaxChainLen
  BY <1>1 DEF Shape, Builds
<1>3. Complete(f) /\ FinalRoot(f) = IF f.steps = 0 THEN FirstRoot(f) ELSE LinkRoot(f.chain[f.steps])
  BY <1>1, <1>2, BuiltIsComplete
<1>4. RootAfter(f, f.steps) = FinalRoot(f)
  BY <1>3, PaddingIsInert DEF RootAfter
<1>5. n \in Nat \ {0} /\ k \in Nat
  <2>1. n \in Nat \ {0}
    BY ShapeAssumption
  <2>2. QED
    BY <2>1, BlocksAreNumbers, TreeAbove DEF Trees
<1>6. n = f.steps + 1 /\ Under(n, k, f.block, f.account, f.event)
  BY <1>1, <1>3, <1>4, <1>5, ChainIsSound DEF Satisfied
<1>7. f.event.childLen >= EVENT_TOKEN_TYPE_END
  <2>1. f.event.childLen \in Nat /\ ~(f.event.childLen < EVENT_TOKEN_TYPE_END)
    BY <1>1 DEF Shape, EventType, Panics
  <2>2. QED
    BY <2>1 DEF EVENT_TOKEN_TYPE_END
<1>8. QED
  BY <1>1, <1>6, <1>7 DEF Satisfied, KeyCommitted, DescriptorsFit, Panics, IsVoucher

(* What is under a tree is included in it.                                 *)
LEMMA UnderIsIncluded ==
  ASSUME NEW n, NEW k, Under(n, k, fixture.block, fixture.account, fixture.event)
  PROVE  Included(n, k)
BY DEF Under, Tracked, Included

-----------------------------------------------------------------------------
(* The invariant: the shape, where a declared root is from, that an        *)
(* unchanged fixture is honest, and what the outcome was computed from.    *)
DeclaresPublished(f) ==
  f.declaredRoot # None =>
    \E b \in DOMAIN Tracks, n \in 1 .. TopLayer : f.declaredRoot = LayerRoot[n][TreeOver(b, n)]

OutcomeIs ==
  /\ checked \in BOOLEAN
  /\ outcome = "open" => ~checked
  /\ ~checked => outcome \in {"open", Generated(fixture)}
  /\ checked =>
       \/ outcome = Verdict(fixture, expected)
       \/ Verdict(fixture, expected) = "accepted" /\ outcome = Generated(fixture)

FixtureInv ==
  /\ Shape(fixture) /\ DeclaresPublished(fixture)
  /\ edits \in Nat /\ (edits = 0 => Honest(fixture))
  /\ OutcomeIs

LEMMA ExportsAreTyped ==
  ASSUME NEW g \in Exports
  PROVE  Shape(g) /\ DeclaresPublished(g)
<1>1. PICK b \in DOMAIN Tracks : \E i \in DOMAIN Tracks[b], n \in 1 .. TopLayer : g = Export(b, i, n)
  BY DEF Exports
<1>2. PICK i \in DOMAIN Tracks[b], n \in 1 .. TopLayer : g = Export(b, i, n)
  BY <1>1
<1>3. Shape(g)
  BY <1>2, ExportShape
<1>4. g.declaredRoot = LayerRoot[n][TreeOver(b, n)]
  BY <1>2, ExportIs
<1>5. QED
  BY <1>3, <1>4 DEF DeclaresPublished

LEMMA InitEstablishesInv == Init => FixtureInv
<1> SUFFICES ASSUME Init PROVE FixtureInv
  OBVIOUS
<1>1. Honest(fixture)
  BY DEF Init, Honest, Older
<1>2. Shape(fixture)
  BY <1>1, HonestIsChained DEF Chained
<1>3. DeclaresPublished(fixture)
  <2>1. CASE fixture \in Exports
    BY <2>1, ExportsAreTyped
  <2>2. CASE \E g \in Exports : fixture = Older(g)
    <3>1. PICK g \in Exports : fixture = Older(g)
      BY <2>2
    <3>2. DOMAIN g = Fields
      BY ExportsAreTyped DEF Shape
    <3>3. fixture.declaredRoot = None
      BY <3>1, <3>2 DEF Older, Fields
    <3>4. QED
      BY <3>3 DEF DeclaresPublished
  <2>3. CASE \E len \in 0 .. MaxChainLen : fixture = Synthetic(len)
    BY <2>3 DEF Synthetic, DeclaresPublished
  <2>4. QED
    BY <1>1, <2>1, <2>2, <2>3 DEF Honest
<1>4. OutcomeIs
  BY DEF Init, OutcomeIs
<1>5. QED
  BY <1>1, <1>2, <1>3, <1>4 DEF FixtureInv, Init

LEMMA EditKeepsInv == FixtureInv /\ Edit => FixtureInv'
<1> SUFFICES ASSUME FixtureInv, Edit PROVE FixtureInv'
  OBVIOUS
<1>1. Shape(fixture') /\ fixture'.declaredRoot = fixture.declaredRoot
  <2>1. CASE fixture' \in Changed(fixture)
    BY <2>1, ChangedShape DEF FixtureInv
  <2>2. CASE \E g \in Exports : fixture' \in Mixed(fixture, g)
    BY <2>2, MixedShape, ExportsAreTyped DEF FixtureInv
  <2>3. QED
    BY <2>1, <2>2 DEF Edit
<1>2. DeclaresPublished(fixture')
  BY <1>1 DEF FixtureInv, DeclaresPublished
<1>3. edits' \in Nat /\ edits' # 0
  BY DEF FixtureInv, Edit
<1>4. OutcomeIs'
  BY DEF FixtureInv, OutcomeIs, Edit
<1>5. QED
  BY <1>1, <1>2, <1>3, <1>4 DEF FixtureInv

LEMMA CheckKeepsInv == \A layer : FixtureInv /\ Check(layer) => FixtureInv'
<1> SUFFICES ASSUME NEW layer, FixtureInv, Check(layer) PROVE FixtureInv'
  OBVIOUS
<1>1. fixture' = fixture /\ edits' = edits /\ expected' = layer /\ checked' = TRUE
      /\ outcome' = Verdict(fixture, layer)
  BY DEF Check
<1>2. OutcomeIs'
  BY <1>1, VerdictIs DEF OutcomeIs
<1>3. QED
  BY <1>1, <1>2 DEF FixtureInv

LEMMA ProveKeepsInv == FixtureInv /\ (Prove \/ ProveUnchecked) => FixtureInv'
<1> SUFFICES ASSUME FixtureInv, Prove \/ ProveUnchecked PROVE FixtureInv'
  OBVIOUS
<1>1. /\ fixture' = fixture /\ edits' = edits /\ expected' = expected /\ checked' = checked
  BY DEF Prove, ProveUnchecked
<1>2. CASE Prove
  <2>1. checked
    <3>1. Generated(fixture) # "accepted"
      BY GeneratedIs
    <3>2. QED
      BY <1>2, <3>1 DEF Prove, FixtureInv, OutcomeIs
  <2>2. outcome' # "open"
    BY <1>2, VerdictIs, GeneratedIs DEF Prove
  <2>3. outcome' = IF Verdict(fixture, expected) = "accepted" THEN Generated(fixture)
                   ELSE Verdict(fixture, expected)
    BY <1>2 DEF Prove
  <2>4. OutcomeIs'
    BY <1>1, <2>1, <2>2, <2>3 DEF OutcomeIs
  <2>5. QED
    BY <1>1, <2>4 DEF FixtureInv
<1>3. CASE ProveUnchecked
  <2>1. ~checked /\ outcome' = Generated(fixture) /\ checked \in BOOLEAN
    BY <1>3 DEF ProveUnchecked, FixtureInv, OutcomeIs
  <2>2. OutcomeIs'
    BY <1>1, <2>1 DEF OutcomeIs
  <2>3. QED
    BY <1>1, <2>2 DEF FixtureInv
<1>4. QED
  BY <1>2, <1>3

(* The invariant holds in every state: it says what every fixture looks    *)
(* like and what each outcome was computed from.                           *)
THEOREM FixtureInvariant == Spec => []FixtureInv
<1>1. Init => FixtureInv
  BY InitEstablishesInv
<1>2. FixtureInv /\ [Next]_vars => FixtureInv'
  <2> SUFFICES ASSUME FixtureInv, [Next]_vars PROVE FixtureInv'
    OBVIOUS
  <2>1. CASE Next
    BY <2>1, EditKeepsInv, CheckKeepsInv, ProveKeepsInv DEF Next
  <2>2. CASE UNCHANGED vars
    BY <2>2 DEF vars, FixtureInv, OutcomeIs
  <2>3. QED
    BY <2>1, <2>2
<1>3. QED
  BY <1>1, <1>2, PTL DEF Spec

(* without_witnesses: a key made from the synthetic fixture of one link    *)
(* fits every fixture that parses and whose event has the voucher's cells, *)
(* and no other.                                                           *)
THEOREM KeyFitsVoucherCells == Spec => []KeygenShapeFits
<1> DEFINE e == fixture.event
<1>1. FixtureInv => KeygenShapeFits
  <2> SUFFICES ASSUME FixtureInv
               PROVE  CircuitShape(fixture) = CircuitShape(Synthetic(1))
                        <=> /\ e.refs = Voucher.refs /\ e.rootLen = Voucher.rootLen
                            /\ e.childLen = Voucher.childLen
    BY DEF KeygenShapeFits
  <2> DEFINE one == 1
  <2>1. one \in Nat /\ one = 1
    OBVIOUS
  <2> HIDE DEF one
  <2>2. Shape(Synthetic(one)) /\ Synthetic(one).event = Voucher
    BY <2>1, SyntheticShape DEF Synthetic
  <2>3. /\ CircuitShape(fixture) = [entries |-> EntriesShape(e), block |-> D,
                                    links |-> [i \in 1 .. MaxChainLen |-> D]]
        /\ CircuitShape(Synthetic(one)) = [entries |-> EntriesShape(Voucher), block |-> D,
                                           links |-> [i \in 1 .. MaxChainLen |-> D]]
    BY <2>2, CircuitShapeIs DEF FixtureInv
  <2>4. CircuitShape(fixture) = CircuitShape(Synthetic(one))
          <=> EntriesShape(e) = EntriesShape(Voucher)
    <3>1. CircuitShape(fixture).entries = EntriesShape(e)
      BY <2>3
    <3>2. CircuitShape(Synthetic(one)).entries = EntriesShape(Voucher)
      BY <2>3
    <3>3. QED
      BY <2>3, <3>1, <3>2
  <2>5. EntriesShape(e) = EntriesShape(Voucher)
          <=> /\ e.refs = Voucher.refs /\ e.rootLen = Voucher.rootLen
              /\ e.childLen = Voucher.childLen
    <3>1. ASSUME EntriesShape(e) = EntriesShape(Voucher)
          PROVE  /\ e.refs = Voucher.refs /\ e.rootLen = Voucher.rootLen
                 /\ e.childLen = Voucher.childLen
      <4>1. \A x : /\ EntriesShape(x).refs = x.refs /\ EntriesShape(x).rootLen = x.rootLen
                   /\ EntriesShape(x).childLen = x.childLen
        BY DEF EntriesShape
      <4>2. QED
        BY <3>1, <4>1
    <3>2. ASSUME e.refs = Voucher.refs, e.rootLen = Voucher.rootLen, e.childLen = Voucher.childLen
          PROVE  EntriesShape(e) = EntriesShape(Voucher)
      BY <3>2 DEF EntriesShape, ChildOffsets
    <3>3. QED
      BY <3>1, <3>2
  <2>6. QED
    BY <2>1, <2>4, <2>5
<1>2. QED
  BY <1>1, FixtureInvariant, PTL

(* fixture_anchor_from_json before compute_instances: after the check only *)
(* the event itself and an events tree that is too deep can panic.         *)
THEOREM CheckedLinksNeverPanicAlways == Spec => []CheckedLinksNeverPanic
<1>1. FixtureInv => CheckedLinksNeverPanic
  <2> SUFFICES ASSUME FixtureInv, checked, outcome = "panic"
               PROVE  \/ fixture.event.childLen < EVENT_TOKEN_TYPE_END
                      \/ fixture.event.key = None
                      \/ Len(fixture.eventsProof.siblings) > MaxEventsDepth
    BY DEF CheckedLinksNeverPanic
  <2>1. Shape(fixture)
    BY DEF FixtureInv
  <2>2. CASE Verdict(fixture, expected) = "panic"
    BY <2>1, <2>2, VerdictIs, MatchedLinksAreActive
  <2>3. CASE Verdict(fixture, expected) = "accepted" /\ Generated(fixture) = "panic"
    <3>1. LinksMatch(fixture) /\ ~Panics(fixture) /\ ~Builds(fixture)
      BY <2>3, VerdictIs, GeneratedIs
    <3>2. fixture.steps <= MaxChainLen
      BY <3>1 DEF LinksMatch
    <3>3. Len(fixture.eventsProof.siblings) \in Nat
      BY <2>1 DEF Shape, EventsShape
    <3>4. QED
      BY <3>1, <3>2, <3>3, ShapeAssumption DEF Builds
  <2>4. QED
    BY <2>2, <2>3 DEF FixtureInv, OutcomeIs
<1>2. QED
  BY <1>1, FixtureInvariant, PTL

(* A proof against a root that the chain published proves the event in its *)
(* block, under that root, at that layer, and the voucher's key: whatever  *)
(* was mixed or changed in the fixture, checked or not.                    *)
THEOREM ProofProvesInclusionAlways == Spec => []ProofProvesInclusion
<1>1. FixtureInv => ProofProvesInclusion
  <2> SUFFICES ASSUME FixtureInv, outcome = "proof",
                      NEW n \in 1 .. TopLayer, NEW k \in Trees(n), Published(n, k)
               PROVE  n = fixture.steps + 1 /\ Included(n, k)
                        /\ IsVoucher(fixture.event) /\ fixture.sk = fixture.event.key
    BY DEF ProofProvesInclusion
  <2>1. Shape(fixture) /\ Generated(fixture) = "proof"
    BY VerdictIs DEF FixtureInv, OutcomeIs
  <2>2. FinalRoot(fixture) = LayerRoot[n][k]
    BY DEF Published
  <2>3. /\ n = fixture.steps + 1 /\ Under(n, k, fixture.block, fixture.account, fixture.event)
        /\ IsVoucher(fixture.event) /\ fixture.sk = fixture.event.key
    BY <2>1, <2>2, SatisfiedIsSound
  <2>4. QED
    BY <2>3, UnderIsIncluded
<1>2. QED
  BY <1>1, FixtureInvariant, PTL

(* At layer 1 the check alone, without a circuit, tells that the event is  *)
(* under the declared root.                                                *)
THEOREM LayerOneCheckSufficesAlways == Spec => []LayerOneCheckSuffices
<1>1. FixtureInv => LayerOneCheckSuffices
  <2> SUFFICES ASSUME FixtureInv, outcome = "accepted", fixture.steps = 0,
                      fixture.declaredRoot # None
               PROVE  \E k \in Trees(1) : Published(1, k) /\ Included(1, k)
    BY DEF LayerOneCheckSuffices
  <2>1. Shape(fixture) /\ Verdict(fixture, expected) = "accepted"
    BY GeneratedIs DEF FixtureInv, OutcomeIs
  <2>2. PICK b \in DOMAIN Tracks, n \in 1 .. TopLayer :
          fixture.declaredRoot = LayerRoot[n][TreeOver(b, n)]
    BY DEF FixtureInv, DeclaresPublished
  <2>3. FinalRoot(fixture) = LayerRoot[n][TreeOver(b, n)]
    BY <2>1, <2>2, VerdictIs DEF RootMatches
  <2>4. FinalRoot(fixture) = FirstRoot(fixture)
    BY ShapeAssumption DEF FinalRoot, LastLink
  <2>5. n \in Nat \ {0} /\ b \in Nat
    BY ShapeAssumption, BlocksAreNumbers
  <2>6. TreeOver(b, n) \in Nat
    BY <2>5, TreeAbove
  <2>7. /\ Len(fixture.eventsProof.siblings) \in Nat
        /\ Place(fixture.eventsProof.position, Len(fixture.eventsProof.siblings))
        /\ Len(fixture.blockProof.siblings) = D /\ Place(fixture.blockProof.position, D)
    BY <2>1 DEF Shape, EventsShape, ProofShape
  <2>8. RootFrom(BlockLeaf(fixture.block,
                   RootFrom(MessageLeaf(fixture.account, fixture.event),
                            fixture.eventsProof.position, fixture.eventsProof.siblings)),
                 fixture.blockProof.position, fixture.blockProof.siblings)
          = LayerRoot[n][TreeOver(b, n)]
    BY <2>3, <2>4 DEF FirstRoot, ExtOutRoot
  <2>9. n = 1 /\ Under(1, TreeOver(b, n), fixture.block, fixture.account, fixture.event)
    BY <2>5, <2>6, <2>7, <2>8, FirstRootIsSound
  <2>10. Included(1, TreeOver(b, 1)) /\ Published(1, TreeOver(b, 1))
    BY <2>3, <2>9, UnderIsIncluded DEF Published
  <2>11. QED
    BY <2>10 DEF Trees
<1>2. QED
  BY <1>1, FixtureInvariant, PTL

(* Exporter, synthesis, check, native computation and circuit agree: an    *)
(* unchanged fixture of a voucher is accepted and proves at every layer,   *)
(* against the root the chain published.                                   *)
THEOREM HonestFixtureProvesAlways == Spec => []HonestFixtureProves
<1>1. FixtureInv => HonestFixtureProves
  <2> SUFFICES ASSUME FixtureInv, edits = 0, IsVoucher(fixture.event),
                      Len(fixture.eventsProof.siblings) <= MaxEventsDepth,
                      expected \in {None, fixture.steps + 1}
               PROVE  /\ outcome \in {"open", "accepted", "proof"}
                      /\ fixture.block # SynthBlock =>
                           Published(fixture.steps + 1, TreeOver(fixture.block, fixture.steps + 1))
    BY DEF HonestFixtureProves
  <2>1. Chained(fixture)
    BY HonestIsChained DEF FixtureInv
  <2>2. Verdict(fixture, expected) = "accepted" /\ Generated(fixture) = "proof"
    BY <2>1, ChainedProves
  <2>3. outcome \in {"open", "accepted", "proof"}
    BY <2>2 DEF FixtureInv, OutcomeIs
  <2>4. QED
    BY <2>1, <2>3 DEF Chained, Published
<1>2. QED
  BY <1>1, FixtureInvariant, PTL

=============================================================================
