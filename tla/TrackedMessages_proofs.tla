------------------------ MODULE TrackedMessages_proofs ------------------------
(***************************************************************************)
(* The inner proofs of the messages a block tracks, for any number of      *)
(* accounts and messages: every message has one, nothing else has, and the *)
(* root stands for the messages.                                           *)
(***************************************************************************)
EXTENDS TrackedMessages, DenseMerkle_proofs

TypeOK == tracked \in [Accounts -> Seq(Messages)]

Tracked == {MessageLeaf(a, m) : a \in Accounts, m \in Messages}

-----------------------------------------------------------------------------
(* The leaves of a block, from what it tracks.                             *)
LeavesOf(t, a) == [i \in DOMAIN t[a] |-> MessageLeaf(a, t[a][i])]

LeavesIn(t) == FlattenSeq([a \in Accounts |-> LeavesOf(t, a)])

LEMMA LeavesOfAccount ==
  ASSUME NEW t \in [Accounts -> Seq(Messages)], NEW a \in Accounts
  PROVE  /\ LeavesOf(t, a) \in Seq(Tracked) /\ Len(LeavesOf(t, a)) = Len(t[a])
         /\ DOMAIN LeavesOf(t, a) = DOMAIN t[a]
         /\ \A j \in DOMAIN t[a] : LeavesOf(t, a)[j] = MessageLeaf(a, t[a][j])
<1> DEFINE s == t[a]
<1>1. s \in Seq(Messages)
  OBVIOUS
<1>2. Len(s) \in Nat /\ s \in [1 .. Len(s) -> Messages] /\ DOMAIN s = 1 .. Len(s)
  BY <1>1, LenProperties
<1> HIDE DEF s
<1>3. LeavesOf(t, a) = [i \in 1 .. Len(s) |-> MessageLeaf(a, s[i])]
  BY <1>2 DEF LeavesOf, s
<1>4. LeavesOf(t, a) \in [1 .. Len(s) -> Tracked]
  BY <1>2, <1>3 DEF Tracked
<1>5. LeavesOf(t, a) \in Seq(Tracked) /\ DOMAIN LeavesOf(t, a) = 1 .. Len(s)
  BY <1>2, <1>4
<1>6. Len(LeavesOf(t, a)) = Len(s)
  BY <1>2, <1>5, LenProperties
<1>7. QED
  BY <1>2, <1>3, <1>5, <1>6 DEF s

LEMMA LeavesByAccount ==
  ASSUME NEW t \in [Accounts -> Seq(Messages)]
  PROVE  LET seqs == [a \in Accounts |-> LeavesOf(t, a)] IN
         /\ seqs \in Seq(Seq(Tracked)) /\ Len(seqs) = NumAccounts
         /\ \A a \in Accounts : seqs[a] = LeavesOf(t, a)
<1> DEFINE seqs == [a \in Accounts |-> LeavesOf(t, a)]
<1>1. NumAccounts \in Nat /\ Accounts = 1 .. NumAccounts
  BY TrackedAssumption DEF Accounts
<1>2. seqs \in [1 .. NumAccounts -> Seq(Tracked)] /\ \A a \in Accounts : seqs[a] = LeavesOf(t, a)
  BY <1>1, LeavesOfAccount
<1> HIDE DEF seqs
<1>3. seqs \in Seq(Seq(Tracked)) /\ DOMAIN seqs = 1 .. NumAccounts
  BY <1>1, <1>2
<1>4. Len(seqs) = NumAccounts
  BY <1>1, <1>3, LenProperties
<1>5. QED
  BY <1>2, <1>3, <1>4 DEF seqs

LEMMA LeavesHold ==
  ASSUME NEW t \in [Accounts -> Seq(Messages)]
  PROVE  /\ LeavesIn(t) \in Seq(Tracked) /\ Len(LeavesIn(t)) \in Nat
         /\ \A a \in Accounts : \A j \in DOMAIN t[a] :
              \E p \in 1 .. Len(LeavesIn(t)) : LeavesIn(t)[p] = MessageLeaf(a, t[a][j])
<1> DEFINE seqs == [a \in Accounts |-> LeavesOf(t, a)]
<1>1. seqs \in Seq(Seq(Tracked)) /\ Len(seqs) = NumAccounts /\ \A a \in Accounts : seqs[a] = LeavesOf(t, a)
  BY LeavesByAccount
<1>2. NumAccounts \in Nat /\ Accounts = 1 .. NumAccounts
  BY TrackedAssumption DEF Accounts
<1>3. LeavesIn(t) = FlattenSeq(seqs)
  BY DEF LeavesIn
<1> HIDE DEF seqs
<1>4. CASE NumAccounts = 0
  <2>1. LeavesIn(t) = seqs /\ seqs = <<>>
    BY <1>1, <1>2, <1>3, <1>4 DEF FlattenSeq
  <2>2. LeavesIn(t) \in Seq(Tracked) /\ Len(LeavesIn(t)) = 0
    BY <2>1, EmptySeq
  <2>3. QED
    BY <1>2, <1>4, <2>2
<1>5. CASE NumAccounts # 0
  <2> DEFINE u == LeavesIn(t)
  <2>1. u = Joined(seqs)[NumAccounts]
    BY <1>1, <1>2, <1>3, <1>5, FlattenIsJoined
  <2>2. NumAccounts \in 1 .. Len(seqs)
    BY <1>1, <1>2, <1>5
  <2> HIDE DEF u
  <2>3. Holds(Tracked, seqs, NumAccounts, u)
    BY <1>1, <2>1, <2>2, JoinedHolds
  <2>4. u \in Seq(Tracked) /\ Len(u) \in Nat
    BY <2>3, LenProperties DEF Holds
  <2>5. ASSUME NEW a \in Accounts, NEW j \in DOMAIN t[a]
        PROVE  \E p \in 1 .. Len(u) : u[p] = MessageLeaf(a, t[a][j])
    <3>1. j \in DOMAIN seqs[a] /\ seqs[a][j] = MessageLeaf(a, t[a][j])
      BY <1>1, LeavesOfAccount
    <3>2. \E p \in 1 .. Len(u) : u[p] = seqs[a][j]
      BY <1>2, <2>3, <3>1 DEF Holds
    <3>3. QED
      BY <3>1, <3>2
  <2>6. QED
    BY <2>4, <2>5 DEF u
<1>6. QED
  BY <1>4, <1>5

LEMMA LeavesGrow ==
  ASSUME NEW t \in [Accounts -> Seq(Messages)], NEW a \in Accounts, NEW m \in Messages
  PROVE  LET more == [t EXCEPT ![a] = Append(@, m)] IN
         /\ more \in [Accounts -> Seq(Messages)]
         /\ Len(LeavesIn(more)) = Len(LeavesIn(t)) + 1
<1> DEFINE more == [t EXCEPT ![a] = Append(@, m)]
           s == [b \in Accounts |-> LeavesOf(t, b)]
           r == [b \in Accounts |-> LeavesOf(more, b)]
<1>1. /\ more \in [Accounts -> Seq(Messages)] /\ more[a] = Append(t[a], m)
      /\ \A b \in Accounts : b # a => more[b] = t[b]
  OBVIOUS
<1>2. Len(more[a]) = Len(t[a]) + 1
  BY <1>1, AppendProperties
<1>3. NumAccounts \in Nat /\ Accounts = 1 .. NumAccounts
  BY TrackedAssumption DEF Accounts
<1> HIDE DEF more
<1>4. /\ s \in Seq(Seq(Tracked)) /\ Len(s) = NumAccounts /\ \A b \in Accounts : s[b] = LeavesOf(t, b)
  BY LeavesByAccount
<1>5. /\ r \in Seq(Seq(Tracked)) /\ Len(r) = NumAccounts /\ \A b \in Accounts : r[b] = LeavesOf(more, b)
  BY <1>1, LeavesByAccount
<1>6. LeavesIn(t) = FlattenSeq(s) /\ LeavesIn(more) = FlattenSeq(r)
  BY DEF LeavesIn
<1> HIDE DEF s, r
<1>7. NumAccounts # 0 /\ NumAccounts >= a /\ NumAccounts \in 1 .. Len(s) /\ a \in 1 .. Len(s)
  BY <1>3, <1>4
<1>8. LeavesIn(t) = Joined(s)[NumAccounts] /\ LeavesIn(more) = Joined(r)[NumAccounts]
  BY <1>3, <1>4, <1>5, <1>6, <1>7, FlattenIsJoined
<1>9. Len(r[a]) = Len(s[a]) + 1
  BY <1>1, <1>2, <1>4, <1>5, LeavesOfAccount
<1>10. \A i \in 1 .. Len(s) : i # a => r[i] = s[i]
  BY <1>1, <1>3, <1>4, <1>5 DEF LeavesOf
<1>11. Len(Joined(r)[Len(s)]) = Len(Joined(s)[Len(s)]) + 1
  <2>1. Len(r) = Len(s)
    BY <1>4, <1>5
  <2>2. QED
    BY <1>4, <1>5, <1>7, <1>9, <1>10, <2>1, JoinedGrows
<1>12. Len(LeavesIn(more)) = Len(LeavesIn(t)) + 1
  BY <1>4, <1>8, <1>11
<1>13. QED
  BY <1>1, <1>12 DEF more

LEMMA MessageLeavesAre == MessageLeaves = LeavesIn(tracked)
BY DEF MessageLeaves, LeavesIn, LeavesOf

LEMMA LeafKinds ==
  /\ ~IsNode(Zero) /\ \A a, m : ~IsNode(MessageLeaf(a, m)) /\ MessageLeaf(a, m) # Zero
  /\ \A leaves \in Seq(Tracked) : \A pos \in Nat :
       /\ ~IsNode(LeafAt(leaves, pos))
       /\ pos < Len(leaves) => LeafAt(leaves, pos) # Zero
       /\ pos >= Len(leaves) => LeafAt(leaves, pos) = Zero
<1>1. ~IsNode(Zero) /\ \A a, m : ~IsNode(MessageLeaf(a, m)) /\ MessageLeaf(a, m) # Zero
  BY DEF IsNode, Zero, Combine, MessageLeaf
<1>2. ASSUME NEW leaves \in Seq(Tracked), NEW pos \in Nat
      PROVE  /\ ~IsNode(LeafAt(leaves, pos))
             /\ pos < Len(leaves) => LeafAt(leaves, pos) # Zero
             /\ pos >= Len(leaves) => LeafAt(leaves, pos) = Zero
  <2>1. Len(leaves) \in Nat /\ leaves \in [1 .. Len(leaves) -> Tracked]
    BY LenProperties
  <2>2. CASE pos < Len(leaves)
    <3>1. pos + 1 \in 1 .. Len(leaves)
      BY <2>1, <2>2
    <3>2. LeafAt(leaves, pos) \in Tracked
      BY <2>1, <2>2, <3>1 DEF LeafAt
    <3>3. QED
      BY <1>1, <2>1, <2>2, <3>2 DEF Tracked
  <2>3. CASE pos >= Len(leaves)
    BY <1>1, <2>1, <2>3 DEF LeafAt
  <2>4. QED
    BY <2>1, <2>2, <2>3
<1>3. QED
  BY <1>1, <1>2

(* A root has one list of messages.                                        *)
LEMMA RootTellsLength ==
  ASSUME NEW s \in Seq(Tracked), NEW t \in Seq(Tracked), Len(s) > 0, Len(t) > Len(s)
  PROVE  DenseRoot(s) # DenseRoot(t)
<1> SUFFICES ASSUME DenseRoot(s) = DenseRoot(t) PROVE FALSE
  OBVIOUS
<1>1. Len(s) \in Nat /\ Len(t) \in Nat
  BY LenProperties
<1>2. \A pos \in Nat : ~IsNode(LeafAt(s, pos)) /\ ~IsNode(LeafAt(t, pos))
  BY LeafKinds
<1>3. ASSUME NEW pos \in Nat, pos < TwoTo[Depth(Len(t))]
      PROVE  /\ Depth(Len(t)) = Depth(Len(s))
             /\ LeafAt(t, pos) = LeafAt(s, pos)
  <2> DEFINE proof == DenseProof(t, pos)
  <2>1. Len(proof) = Depth(Len(t)) /\ Depth(Len(t)) \in Nat
    BY <1>1, <1>3, ProofCollectsSiblings, DepthFits
  <2>2. RootFrom(LeafAt(t, pos), pos, proof) = DenseRoot(s)
    BY <1>1, <1>3, ProofLeadsToRoot
  <2> HIDE DEF proof
  <2>3. pos < TwoTo[Len(proof)]
    BY <1>3, <2>1
  <2>4. Len(proof) = Depth(Len(s))
    BY <1>1, <1>2, <2>1, <2>2, <2>3, ProofHasDepth
  <2>5. QED
    BY <1>1, <2>1, <2>2, <2>3, <2>4, ProofIsSound
<1>4. Len(s) < TwoTo[Depth(Len(t))]
  <2>1. Len(t) <= TwoTo[Depth(Len(t))] /\ TwoTo[Depth(Len(t))] \in Nat
    BY <1>1, DepthFits, TwoToGrows
  <2>2. QED
    BY <1>1, <2>1
<1>5. LeafAt(t, Len(s)) = LeafAt(s, Len(s))
  BY <1>1, <1>3, <1>4
<1>6. LeafAt(t, Len(s)) # Zero /\ LeafAt(s, Len(s)) = Zero
  BY <1>1, LeafKinds
<1>7. QED
  BY <1>5, <1>6

-----------------------------------------------------------------------------
(* The tree by halves: there is one, as shorter sequences come first.      *)
HalvesValue(g, s) ==
  IF Len(s) <= 1 THEN s[1]
  ELSE Combine(g[SubSeq(s, 1, Len(s) \div 2)], g[SubSeq(s, Len(s) \div 2 + 1, Len(s))])

LEMMA HalvesAreShorter ==
  ASSUME NEW s \in Seq(Leaves), Len(s) > 1
  PROVE  LET l == SubSeq(s, 1, Len(s) \div 2)
             r == SubSeq(s, Len(s) \div 2 + 1, Len(s)) IN
         /\ l \in Seq(Leaves) /\ Len(l) \in Nat /\ Len(l) < Len(s)
         /\ r \in Seq(Leaves) /\ Len(r) \in Nat /\ Len(r) < Len(s)
<1> DEFINE len == Len(s)
           h   == len \div 2
<1>1. len \in Nat /\ s \in [1 .. len -> Leaves]
  BY LenProperties
<1>2. h \in Nat /\ h >= 1 /\ h < len /\ 1 \in Int
  BY <1>1
<1> HIDE DEF h, len
<1>3. /\ \A i \in 1 .. h : s[i] \in Leaves
      /\ \A i \in h + 1 .. len : s[i] \in Leaves
  BY <1>1, <1>2
<1>4. SubSeq(s, 1, h) \in Seq(Leaves) /\ Len(SubSeq(s, 1, h)) = h - 1 + 1
  BY <1>2, <1>3, SubSeqProperties
<1>5. SubSeq(s, h + 1, len) \in Seq(Leaves) /\ Len(SubSeq(s, h + 1, len)) = len - (h + 1) + 1
  <2>1. h + 1 \in Int /\ len \in Int /\ h + 1 <= len
    BY <1>1, <1>2
  <2>2. QED
    BY <1>3, <2>1, SubSeqProperties
<1>6. QED
  BY <1>1, <1>2, <1>4, <1>5 DEF h, len

LEMMA HalvesExist ==
  \E f : f = [s \in Seq(Leaves) |-> HalvesValue(f, s)]
<1> DEFINE Short(n) == {s \in Seq(Leaves) : Len(s) <= n}
           Upto(n, g) == g = [s \in Short(n) |-> HalvesValue(g, s)]
           Some == {n \in Nat : \E g : Upto(n, g)}
<1>1. ASSUME NEW g, NEW h, NEW s \in Seq(Leaves),
             \A t \in Seq(Leaves) : Len(t) < Len(s) => g[t] = h[t]
      PROVE  HalvesValue(g, s) = HalvesValue(h, s)
  <2>1. Len(s) \in Nat
    BY LenProperties
  <2>2. CASE Len(s) <= 1
    BY <2>2 DEF HalvesValue
  <2>3. CASE Len(s) > 1
    BY <1>1, <2>1, <2>3, HalvesAreShorter DEF HalvesValue
  <2>4. QED
    BY <2>1, <2>2, <2>3
<1>2. 0 \in Some
  <2> DEFINE g == [s \in Short(0) |-> HalvesValue(<<>>, s)]
  <2>1. ASSUME NEW s \in Short(0)
        PROVE  HalvesValue(g, s) = HalvesValue(<<>>, s)
    <3>1. \A t \in Seq(Leaves) : ~(Len(t) < Len(s))
      BY LenProperties
    <3>2. QED
      BY <1>1, <3>1
  <2>2. Upto(0, g)
    BY <2>1
  <2>3. QED
    BY <2>2
<1>3. ASSUME NEW n \in Nat, n \in Some
      PROVE  n + 1 \in Some
  <2>1. PICK g : Upto(n, g)
    BY <1>3
  <2> DEFINE h == [s \in Short(n + 1) |-> HalvesValue(g, s)]
  <2>2. ASSUME NEW s \in Short(n)
        PROVE  h[s] = g[s]
    <3>1. s \in Short(n + 1)
      BY LenProperties
    <3>2. QED
      BY <2>1, <3>1
  <2> HIDE DEF h
  <2>3. ASSUME NEW s \in Short(n + 1)
        PROVE  HalvesValue(g, s) = HalvesValue(h, s)
    <3>1. \A t \in Seq(Leaves) : Len(t) < Len(s) => t \in Short(n)
      BY LenProperties
    <3>2. QED
      BY <1>1, <2>2, <3>1
  <2>4. h = [s \in Short(n + 1) |-> HalvesValue(h, s)]
    BY <2>3 DEF h
  <2> DEFINE m == n + 1
  <2>5. m \in Nat /\ h = [s \in Short(m) |-> HalvesValue(h, s)]
    BY <2>4
  <2> HIDE DEF m
  <2>6. m \in Some
    BY <2>5
  <2>7. QED
    BY <2>6 DEF m
<1> HIDE DEF Some
<1>4. \A n \in Nat : n \in Some
  BY <1>2, <1>3, Induction
<1> DEFINE some == [n \in Nat |-> CHOOSE g : Upto(n, g)]
<1>5. \A n \in Nat : Upto(n, some[n])
  <2> SUFFICES ASSUME NEW n \in Nat PROVE Upto(n, some[n])
    OBVIOUS
  <2>1. \E g : Upto(n, g)
    BY <1>4 DEF Some
  <2> HIDE DEF Upto
  <2>2. some[n] = CHOOSE g : Upto(n, g)
    OBVIOUS
  <2>3. QED
    BY <2>1, <2>2, Zenon
<1> HIDE DEF some
<1>6. \A n \in Nat : \A s \in Short(n) : some[n][s] = HalvesValue(some[n], s)
  BY <1>5
<1>7. ASSUME NEW p \in Nat, NEW q \in Nat
      PROVE  \A s \in Seq(Leaves) : Len(s) <= p /\ Len(s) <= q => some[p][s] = some[q][s]
  <2> DEFINE Bad(s) == Len(s) <= p /\ Len(s) <= q /\ some[p][s] # some[q][s]
             Differ == {n \in Nat : \E s \in Seq(Leaves) : Len(s) = n /\ Bad(s)}
  <2> SUFFICES ASSUME NEW t \in Seq(Leaves), Bad(t) PROVE FALSE
    OBVIOUS
  <2>1. Len(t) \in Differ
    BY LenProperties
  <2>2. PICK x \in Differ : \A y \in Differ : x <= y
    BY <2>1, LeastElement
  <2>3. PICK s \in Seq(Leaves) : Len(s) = x /\ Bad(s)
    BY <2>2
  <2>4. \A u \in Seq(Leaves) : Len(u) < Len(s) => some[p][u] = some[q][u]
    <3> SUFFICES ASSUME NEW u \in Seq(Leaves), Len(u) < Len(s), some[p][u] # some[q][u]
                 PROVE  FALSE
      OBVIOUS
    <3>1. Len(u) \in Nat /\ Len(s) \in Nat
      BY LenProperties
    <3>2. Len(u) \in Differ
      BY <2>3, <3>1
    <3>3. QED
      BY <2>2, <2>3, <3>1, <3>2
  <2>5. HalvesValue(some[p], s) = HalvesValue(some[q], s)
    BY <1>1, <2>4
  <2>6. QED
    BY <1>6, <2>3, <2>5
<1> DEFINE f == [s \in Seq(Leaves) |-> HalvesValue(some[Len(s)], s)]
<1>8. ASSUME NEW s \in Seq(Leaves)
      PROVE  f[s] = some[Len(s)][s]
  <2>1. Len(s) \in Nat /\ s \in Short(Len(s))
    BY LenProperties
  <2>2. QED
    BY <1>6, <2>1
<1> HIDE DEF f
<1>9. ASSUME NEW s \in Seq(Leaves)
      PROVE  HalvesValue(some[Len(s)], s) = HalvesValue(f, s)
  <2>1. ASSUME NEW t \in Seq(Leaves), Len(t) < Len(s)
        PROVE  some[Len(s)][t] = f[t]
    <3>1. Len(t) \in Nat /\ Len(s) \in Nat /\ Len(t) <= Len(t) /\ Len(t) <= Len(s)
      BY <2>1, LenProperties
    <3>2. QED
      BY <1>7, <1>8, <3>1
  <2>2. QED
    BY <1>1, <2>1
<1>10. f = [s \in Seq(Leaves) |-> HalvesValue(f, s)]
  BY <1>9 DEF f
<1>11. QED
  BY <1>10

LEMMA HalvesIsDefined ==
  \A s \in Seq(Leaves) : Halves[s] = HalvesValue(Halves, s)
<1>1. \E f : f = [s \in Seq(Leaves) |->
                   IF Len(s) <= 1 THEN s[1]
                   ELSE Combine(f[SubSeq(s, 1, Len(s) \div 2)],
                                f[SubSeq(s, Len(s) \div 2 + 1, Len(s))])]
  BY HalvesExist DEF HalvesValue
<1>2. Halves = [s \in Seq(Leaves) |->
                 IF Len(s) <= 1 THEN s[1]
                 ELSE Combine(Halves[SubSeq(s, 1, Len(s) \div 2)],
                              Halves[SubSeq(s, Len(s) \div 2 + 1, Len(s))])]
  BY <1>1, Zenon DEF Halves
<1>3. Halves = [s \in Seq(Leaves) |-> HalvesValue(Halves, s)]
  BY <1>2, Zenon DEF HalvesValue
<1>4. QED
  BY <1>3

-----------------------------------------------------------------------------
(* dense_merkle_tree is the tree by halves.                                *)
LEMMA PaddedIs ==
  ASSUME NEW leaves \in Seq(Tracked)
  PROVE  LET width == TwoTo[Depth(Len(leaves))] IN
         /\ Padded(leaves) \in Seq(Leaves) /\ Len(Padded(leaves)) = width
         /\ \A i \in 1 .. width : Padded(leaves)[i] = LeafAt(leaves, i - 1)
<1> DEFINE width == TwoTo[Depth(Len(leaves))]
<1>1. Len(leaves) \in Nat /\ leaves \in [1 .. Len(leaves) -> Tracked]
  BY LenProperties
<1>2. width \in Nat /\ width = WidthOf[Len(leaves)]
  BY <1>1, DepthFits, TwoToGrows
<1> HIDE DEF width
<1>3. Padded(leaves) = [i \in 1 .. width |-> LeafAt(leaves, i - 1)]
  BY <1>2 DEF Padded
<1>4. ASSUME NEW i \in 1 .. width
      PROVE  LeafAt(leaves, i - 1) \in Leaves
  <2>1. CASE i - 1 < Len(leaves)
    <3>1. LeafAt(leaves, i - 1) = leaves[(i - 1) + 1]
      BY <2>1 DEF LeafAt
    <3>2. (i - 1) + 1 \in 1 .. Len(leaves)
      BY <1>1, <1>2, <2>1
    <3>3. QED
      BY <1>1, <3>1, <3>2 DEF Tracked, Leaves
  <2>2. CASE ~(i - 1 < Len(leaves))
    BY <2>2 DEF LeafAt, Leaves
  <2>3. QED
    BY <2>1, <2>2
<1>5. Padded(leaves) \in [1 .. width -> Leaves]
  BY <1>3, <1>4
<1>6. Padded(leaves) \in Seq(Leaves) /\ DOMAIN Padded(leaves) = 1 .. width
  BY <1>2, <1>5
<1>7. Len(Padded(leaves)) = width
  BY <1>2, <1>6, LenProperties
<1>8. QED
  BY <1>3, <1>6, <1>7 DEF width

(* A run of 2t leaves is two runs of t.                                    *)
LEMMA RunSplits ==
  ASSUME NEW s \in Seq(Leaves), NEW m \in Nat, NEW t \in Nat \ {0}, m + 2 * t <= Len(s)
  PROVE  LET run == SubSeq(s, m + 1, m + 2 * t) IN
         /\ run \in Seq(Leaves)
         /\ Halves[run] = Combine(Halves[SubSeq(s, m + 1, m + t)],
                                  Halves[SubSeq(s, m + t + 1, m + t + t)])
<1> DEFINE from == m + 1
           to   == m + 2 * t
           run  == SubSeq(s, from, to)
           r    == t + 1
           e    == 2 * t
<1>1. Len(s) \in Nat /\ s \in [1 .. Len(s) -> Leaves]
  BY LenProperties
<1>2. /\ from \in 1 .. Len(s) /\ to \in 1 .. Len(s) /\ from <= to /\ to - from + 1 = e
      /\ 1 \in 1 .. to - from + 1 /\ t \in 1 .. to - from + 1
      /\ r \in 1 .. to - from + 1 /\ e \in 1 .. to - from + 1
      /\ from + 1 - 1 = m + 1 /\ from + t - 1 = m + t
      /\ from + r - 1 = m + t + 1 /\ from + e - 1 = m + t + t
      /\ e \div 2 = t /\ e > 1 /\ e \in Nat
  BY <1>1
<1> HIDE DEF from, to, run, r, e
<1>3. run \in Seq(Leaves) /\ Len(run) = e
  <2>1. from \in Int /\ to \in Int /\ \A i \in from .. to : s[i] \in Leaves
    BY <1>1, <1>2
  <2>2. QED
    BY <1>2, <2>1, SubSeqProperties DEF run
<1>4. SubSeq(run, 1, t) = SubSeq(s, m + 1, m + t)
  <2> DEFINE one == 1
  <2>1. one = 1 /\ one \in 1 .. to - from + 1 /\ from + one - 1 = m + 1
    BY <1>2
  <2> HIDE DEF one
  <2>2. SubSeq(SubSeq(s, from, to), one, t) = SubSeq(s, from + one - 1, from + t - 1)
    BY <1>2, <2>1, SubSeqOfSubSeq
  <2>3. QED
    BY <1>2, <2>1, <2>2 DEF run
<1>5. SubSeq(run, r, e) = SubSeq(s, m + t + 1, m + t + t)
  <2>1. SubSeq(SubSeq(s, from, to), r, e) = SubSeq(s, from + r - 1, from + e - 1)
    BY <1>2, SubSeqOfSubSeq
  <2>2. QED
    BY <1>2, <2>1 DEF run
<1>6. Halves[run] = Combine(Halves[SubSeq(run, 1, t)], Halves[SubSeq(run, r, e)])
  <2>1. Halves[run] = HalvesValue(Halves, run)
    BY <1>3, HalvesIsDefined
  <2>2. HalvesValue(Halves, run)
          = Combine(Halves[SubSeq(run, 1, Len(run) \div 2)],
                    Halves[SubSeq(run, Len(run) \div 2 + 1, Len(run))])
    BY <1>2, <1>3 DEF HalvesValue
  <2>3. Len(run) \div 2 = t /\ Len(run) \div 2 + 1 = r
    BY <1>2, <1>3 DEF r
  <2>4. QED
    BY <1>3, <2>1, <2>2, <2>3
<1>7. QED
  BY <1>3, <1>4, <1>5, <1>6 DEF run, from, to

LEMMA RunFits ==
  ASSUME NEW q \in Nat, NEW u \in Nat, NEW t \in Nat, q < u
  PROVE  q * t \in Nat /\ q * t + t <= u * t
<1>1. q * t \in Nat /\ u * t \in Nat
  OBVIOUS
<1>2. u * t = q * t + (u - q) * t
  OBVIOUS
<1>3. u - q - 1 \in Nat
  OBVIOUS
<1>4. (u - q) * t = t + (u - q - 1) * t /\ (u - q - 1) * t \in Nat
  BY <1>3
<1>5. QED
  BY <1>1, <1>2, <1>4

(* From the leaves up: the runs of every length that is a power of two.    *)
LEMMA NodesAreHalves ==
  ASSUME NEW leaves \in Seq(Tracked)
  PROVE  DenseRoot(leaves) = Halves[Padded(leaves)]
<1> DEFINE d     == Depth(Len(leaves))
           width == TwoTo[d]
           tree  == DenseTree(leaves)
           P     == Padded(leaves)
           Run(q, t) == SubSeq(P, q * t + 1, q * t + t)
           Level(k) ==
             /\ TwoTo[d - k] * TwoTo[k] = width
             /\ \A q \in Nat : q < TwoTo[d - k] =>
                  Halves[Run(q, TwoTo[k])] = tree[TwoTo[d - k] - 1 + q]
           Good == {k \in Nat : k <= d => Level(k)}
<1>1. Len(leaves) \in Nat
  BY LenProperties
<1>2. /\ d \in Nat /\ width \in Nat \ {0} /\ TwoTo[0] = 1
      /\ P \in Seq(Leaves) /\ Len(P) = width
      /\ \A i \in 1 .. width : P[i] = LeafAt(leaves, i - 1)
  BY <1>1, DepthFits, TwoToGrows, PaddedIs
<1>3. /\ \A i \in Nat : i < width - 1 => tree[i] = Combine(tree[2 * i + 1], tree[2 * i + 2])
      /\ \A pos \in Nat : pos < width => tree[width - 1 + pos] = LeafAt(leaves, pos)
  BY <1>1, TreeLayout
<1> HIDE DEF P, tree, d
<1>4. 0 \in Good
  <2>1. d - 0 = d /\ TwoTo[d - 0] * TwoTo[0] = width
    BY <1>2
  <2>2. ASSUME NEW q \in Nat, q < width
        PROVE  Halves[Run(q, 1)] = tree[width - 1 + q]
    <3> DEFINE i == q + 1
               run == SubSeq(P, i, i)
    <3>1. i \in Int /\ i \in 1 .. width /\ i - 1 = q
      BY <1>2, <2>2
    <3>2. \A j \in i .. i : P[j] \in Leaves
      BY <1>2, <3>1, LenProperties
    <3> HIDE DEF i
    <3>3. run \in Seq(Leaves) /\ Len(run) = 1 /\ run[1] = P[i]
      <4>1. /\ run \in Seq(Leaves) /\ Len(run) = i - i + 1
            /\ \A j \in 1 .. i - i + 1 : run[j] = P[i + j - 1]
        BY <3>1, <3>2, SubSeqProperties
      <4>2. QED
        BY <3>1, <4>1
    <3> HIDE DEF run
    <3>4. Halves[run] = P[i]
      <4>1. Halves[run] = HalvesValue(Halves, run)
        BY <3>3, HalvesIsDefined
      <4>2. HalvesValue(Halves, run) = run[1]
        BY <3>3 DEF HalvesValue
      <4>3. QED
        BY <3>3, <4>1, <4>2
    <3>5. P[i] = tree[width - 1 + q]
      BY <1>2, <1>3, <2>2, <3>1
    <3>6. Run(q, 1) = run
      BY <3>1 DEF run, i
    <3>7. QED
      BY <3>4, <3>5, <3>6
  <2>3. QED
    BY <1>2, <2>1, <2>2
<1>5. ASSUME NEW k \in Nat, k \in Good
      PROVE  k + 1 \in Good
  <2> SUFFICES ASSUME k + 1 <= d PROVE Level(k + 1)
    OBVIOUS
  <2> DEFINE t == TwoTo[k]
             u == TwoTo[d - (k + 1)]
  <2>1. /\ t \in Nat \ {0} /\ u \in Nat \ {0}
        /\ TwoTo[k + 1] = 2 * t /\ TwoTo[d - k] = 2 * u
    <3>1. d - (k + 1) \in Nat /\ (d - (k + 1)) + 1 = d - k
      BY <1>2
    <3>2. QED
      BY <3>1, TwoToGrows
  <2>2. Level(k)
    BY <1>2, <1>5
  <2> HIDE DEF t, u
  <2>3. (2 * u) * t = width /\ \A q \in Nat : q < 2 * u => Halves[Run(q, t)] = tree[2 * u - 1 + q]
    BY <2>1, <2>2 DEF t
  <2>4. u * (2 * t) = width
    BY <2>1, <2>3
  <2>5. ASSUME NEW q \in Nat, q < u
        PROVE  Halves[Run(q, 2 * t)] = tree[u - 1 + q]
    <3> DEFINE m == q * (2 * t)
               i == u - 1 + q
    <3>1. m \in Nat /\ m + 2 * t <= width
      BY <2>1, <2>4, <2>5, RunFits
    <3>2. (2 * q) * t = m /\ (2 * q + 1) * t = m + t
      BY <2>1
    <3>3. 2 * q \in Nat /\ 2 * q + 1 \in Nat /\ 2 * q < 2 * u /\ 2 * q + 1 < 2 * u
      BY <2>1, <2>5
    <3> HIDE DEF m
    <3>4. /\ Halves[SubSeq(P, m + 1, m + t)] = tree[2 * u - 1 + 2 * q]
          /\ Halves[SubSeq(P, m + t + 1, m + t + t)] = tree[2 * u - 1 + (2 * q + 1)]
      BY <2>3, <3>2, <3>3
    <3>5. Halves[SubSeq(P, m + 1, m + 2 * t)]
            = Combine(Halves[SubSeq(P, m + 1, m + t)], Halves[SubSeq(P, m + t + 1, m + t + t)])
      BY <1>2, <2>1, <3>1, RunSplits
    <3>6. i \in Nat /\ i < width - 1 /\ 2 * i + 1 = 2 * u - 1 + 2 * q
          /\ 2 * i + 2 = 2 * u - 1 + (2 * q + 1)
      <4>1. 2 * u <= width
        <5>1. 2 * u \in Nat /\ t - 1 \in Nat
          BY <2>1
        <5>2. (2 * u) * t = 2 * u + (2 * u) * (t - 1) /\ (2 * u) * (t - 1) \in Nat
          BY <2>1, <5>1
        <5>3. QED
          BY <2>3, <5>1, <5>2
      <4>2. QED
        BY <1>2, <2>1, <2>5, <4>1
    <3>7. tree[i] = Combine(tree[2 * u - 1 + 2 * q], tree[2 * u - 1 + (2 * q + 1)])
      BY <1>3, <3>6
    <3>8. Run(q, 2 * t) = SubSeq(P, m + 1, m + 2 * t)
      BY DEF m
    <3>9. QED
      BY <3>4, <3>5, <3>7, <3>8
  <2>6. QED
    BY <2>1, <2>4, <2>5 DEF u
<1> HIDE DEF Good
<1>6. \A k \in Nat : k \in Good
  BY <1>4, <1>5, Induction
<1>7. Level(d)
  BY <1>2, <1>6 DEF Good
<1>8. Halves[Run(0, width)] = tree[0]
  <2>1. d - d = 0
    BY <1>2
  <2>2. TwoTo[d - d] = 1
    BY <1>2, <2>1
  <2>3. \A q \in Nat : q < 1 => Halves[Run(q, width)] = tree[1 - 1 + q]
    BY <1>7, <2>2
  <2>4. Halves[Run(0, width)] = tree[1 - 1 + 0]
    BY <2>3
  <2>5. QED
    BY <2>4
<1>9. Run(0, width) = P
  <2>1. 0 * width + 1 = 1 /\ 0 * width + width = width
    BY <1>2
  <2>2. SubSeq(P, 1, width) = P
    BY <1>2, SubSeqFull
  <2>3. QED
    BY <2>1, <2>2
<1>10. DenseRoot(leaves) = tree[0]
  BY DEF DenseRoot, tree
<1>11. QED
  BY <1>8, <1>9, <1>10 DEF P

-----------------------------------------------------------------------------
(* The node's tracked messages are a sequence for every account.           *)
LEMMA TypeCorrect == Spec => []TypeOK
<1>1. Init => TypeOK
  BY DEF Init, TypeOK
<1>2. TypeOK /\ [Next]_tracked => TypeOK'
  <2> SUFFICES ASSUME TypeOK, [Next]_tracked
               PROVE  TypeOK'
    OBVIOUS
  <2>1. ASSUME NEW a \in Accounts, NEW m \in Messages, Track(a, m)
        PROVE  TypeOK'
    <3>1. [tracked EXCEPT ![a] = Append(@, m)] \in [Accounts -> Seq(Messages)]
      BY LeavesGrow DEF TypeOK
    <3>2. QED
      BY <2>1, <3>1 DEF TypeOK, Track
  <2>2. CASE UNCHANGED tracked
    BY <2>2 DEF TypeOK
  <2>3. QED
    BY <2>1, <2>2 DEF Next
<1>3. QED
  BY <1>1, <1>2, PTL DEF Spec

(* What a block tracks is a sequence of message leaves.                    *)
LEMMA MessageLeavesFit ==
  ASSUME TypeOK
  PROVE  /\ MessageLeaves \in Seq(Tracked) /\ Len(MessageLeaves) \in Nat
         /\ \A a \in Accounts : \A j \in DOMAIN tracked[a] :
              \E p \in 1 .. Len(MessageLeaves) : MessageLeaves[p] = MessageLeaf(a, tracked[a][j])
BY MessageLeavesAre, LeavesHold DEF TypeOK

(* generate_ext_message_proof looks for the first account with the message. *)
LEMMA TargetAccountHasMessage ==
  ASSUME NEW m, Occurs(m)
  PROVE  TargetAccount(m) \in Accounts /\ m \in Range(tracked[TargetAccount(m)])
<1> DEFINE with == {a \in Accounts : m \in Range(tracked[a])}
<1>1. with \in SUBSET Nat /\ with # {}
  BY DEF Accounts, Occurs
<1>2. PICK a \in with : \A b \in with : a <= b
  BY <1>1, LeastElement
<1>3. ASSUME NEW b \in Accounts, b < a
      PROVE  m \notin Range(tracked[b])
  BY <1>2, <1>3 DEF Accounts
<1>4. QED
  BY <1>2, <1>3, Zenon DEF TargetAccount

(* The position of a leaf that is there.                                   *)
LEMMA FirstPositionIs ==
  ASSUME NEW leaves, Len(leaves) \in Nat, NEW leaf,
         \E p \in 1 .. Len(leaves) : leaves[p] = leaf
  PROVE  LET pos == FirstPosition(leaves, leaf) IN
         pos \in Nat /\ pos < Len(leaves) /\ leaves[pos + 1] = leaf
<1> DEFINE at == {p \in 1 .. Len(leaves) : leaves[p] = leaf}
<1>1. at \in SUBSET Nat /\ at # {}
  OBVIOUS
<1>2. \E x \in at : \A y \in at : x <= y
  BY <1>1, LeastElement
<1>3. Min(at) \in at
  BY <1>2, Zenon DEF Min
<1>4. FirstPosition(leaves, leaf) = Min(at) - 1
  BY <1>1 DEF FirstPosition, SelectInSeq
<1>5. QED
  BY <1>3, <1>4

(* generate_ext_message_proof: every message of a block that may be        *)
(* proved has a proof that verifies, whatever other accounts sent it, and  *)
(* the root is that of the tree by halves.                                 *)
THEOREM EveryMessageProvesAlways == Spec => []EveryMessageProves
<1>1. TypeOK => EveryMessageProves
  <2> SUFFICES ASSUME TypeOK, NEW m \in Messages, Occurs(m)
               PROVE  LET p == InnerProof(m) IN
                      /\ p.root = Halves[Padded(MessageLeaves)]
                      /\ DenseVerify(p.root, p.leaf, p.pos, p.proof)
                      /\ p.pos < Len(MessageLeaves) /\ MessageLeaves[p.pos + 1] = p.leaf
                      /\ m \in Range(tracked[p.leaf[2]])
    BY DEF EveryMessageProves
  <2> DEFINE a      == TargetAccount(m)
             leaf   == MessageLeaf(a, m)
             leaves == MessageLeaves
             pos    == FirstPosition(leaves, leaf)
             proof  == DenseProof(leaves, pos)
             width  == TwoTo[Depth(Len(leaves))]
  <2>1. a \in Accounts /\ m \in Range(tracked[a])
    BY TargetAccountHasMessage
  <2>2. PICK j \in DOMAIN tracked[a] : tracked[a][j] = m
    BY <2>1 DEF Range
  <2>3. leaves \in Seq(Tracked) /\ Len(leaves) \in Nat
    BY MessageLeavesFit
  <2>4. \E p \in 1 .. Len(leaves) : leaves[p] = leaf
    BY <2>1, <2>2, MessageLeavesFit
  <2> HIDE DEF leaf, leaves, a
  <2>5. pos \in Nat /\ pos < Len(leaves) /\ leaves[pos + 1] = leaf
    BY <2>3, <2>4, FirstPositionIs
  <2>6. LeafAt(leaves, pos) = leaf
    BY <2>5 DEF LeafAt
  <2>7. width \in Nat /\ Len(leaves) <= width
    BY <2>3, DepthFits, TwoToGrows
  <2> HIDE DEF pos, width
  <2>8. pos < width
    BY <2>3, <2>5, <2>7
  <2>9. RootFrom(LeafAt(leaves, pos), pos, proof) = DenseRoot(leaves)
    BY <2>3, <2>5, <2>8, ProofLeadsToRoot DEF width
  <2>10. DenseVerify(DenseRoot(leaves), leaf, pos, proof)
    BY <2>6, <2>9 DEF DenseVerify
  <2>11. DenseRoot(leaves) = Halves[Padded(leaves)]
    BY <2>3, NodesAreHalves
  <2>12. InnerProof(m) = [root |-> DenseRoot(leaves), leaf |-> leaf, pos |-> pos, proof |-> proof]
    BY DEF InnerProof, a, leaf, leaves, pos
  <2>13. leaf[2] = a
    BY DEF leaf, MessageLeaf
  <2> HIDE DEF proof
  <2>14. QED
    BY <2>1, <2>5, <2>10, <2>11, <2>12, <2>13 DEF leaves
<1>2. QED
  BY <1>1, TypeCorrect, PTL

(* dense_merkle_verify with an honest path: no other leaf verifies at a    *)
(* position, and none verifies at another one.                             *)
THEOREM NothingElseProvesAlways == Spec => []NothingElseProves
<1>1. TypeOK => NothingElseProves
  <2> SUFFICES ASSUME TypeOK, NEW i \in 0 .. WidthOf[Total] - 1, NEW j \in 0 .. WidthOf[Total] - 1,
                      NEW leaf \in Leaves,
                      DenseVerify(DenseRoot(MessageLeaves), leaf, j, DenseProof(MessageLeaves, i))
               PROVE  LeafAt(MessageLeaves, j) = leaf
    BY DEF NothingElseProves
  <2> DEFINE leaves == MessageLeaves
             d      == Depth(Len(leaves))
             path   == DenseProof(leaves, i)
  <2>1. Len(leaves) \in Nat
    BY MessageLeavesFit
  <2> HIDE DEF leaves
  <2>2. WidthOf[Total] = TwoTo[d] /\ TwoTo[d] \in Nat
    BY <2>1, DepthFits, TwoToGrows DEF Total, leaves
  <2>3. i \in Nat /\ i < TwoTo[d] /\ j \in Nat /\ j < TwoTo[d]
    BY <2>2
  <2>4. Len(path) = d
    BY <2>1, <2>3, ProofCollectsSiblings
  <2>5. RootFrom(leaf, j, path) = DenseRoot(leaves)
    BY DEF DenseVerify, leaves
  <2> HIDE DEF path
  <2>6. leaf = LeafAt(leaves, j)
    BY <2>1, <2>3, <2>4, <2>5, ProofIsSound
  <2>7. QED
    BY <2>6 DEF leaves
<1>2. QED
  BY <1>1, TypeCorrect, PTL

(* The root of a block's messages stands for them: every message the node  *)
(* tracks changes it, at a power of two of leaves as between two.          *)
THEOREM RootChangesAlways == Spec => RootChanges
<1>1. TypeOK /\ [Next]_tracked
        => [Total > 0 => DenseRoot(MessageLeaves) # DenseRoot(MessageLeaves')]_tracked
  <2> SUFFICES ASSUME TypeOK, NEW a \in Accounts, NEW m \in Messages, Track(a, m), Total > 0
               PROVE  DenseRoot(MessageLeaves) # DenseRoot(MessageLeaves')
    BY DEF Next
  <2> DEFINE more == [tracked EXCEPT ![a] = Append(@, m)]
  <2>1. /\ more \in [Accounts -> Seq(Messages)] /\ tracked \in [Accounts -> Seq(Messages)]
        /\ Len(LeavesIn(more)) = Len(LeavesIn(tracked)) + 1
    BY LeavesGrow DEF TypeOK
  <2>2. MessageLeaves' = LeavesIn(more) /\ MessageLeaves = LeavesIn(tracked)
    BY MessageLeavesAre DEF Track, MessageLeaves, LeavesIn, LeavesOf
  <2> HIDE DEF more
  <2>3. /\ LeavesIn(tracked) \in Seq(Tracked) /\ LeavesIn(more) \in Seq(Tracked)
        /\ Len(LeavesIn(tracked)) \in Nat
    BY <2>1, LeavesHold
  <2>4. Len(LeavesIn(tracked)) > 0
    BY <2>2 DEF Total
  <2>5. DenseRoot(LeavesIn(tracked)) # DenseRoot(LeavesIn(more))
    BY <2>1, <2>3, <2>4, RootTellsLength
  <2>6. QED
    BY <2>2, <2>5
<1>2. QED
  BY <1>1, TypeCorrect, PTL DEF Spec, RootChanges

=============================================================================
