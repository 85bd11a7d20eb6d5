-------------------------- MODULE DenseMerkle_proofs --------------------------
(***************************************************************************)
(* Facts about numbers and sequences that the proofs about the other       *)
(* modules share, and what a dense Merkle proof shows, for trees of any    *)
(* size: the siblings that dense_merkle_proof collects lead from the leaf  *)
(* to the root, and whatever leads to the root at a position is the leaf   *)
(* there.                                                                  *)
(***************************************************************************)
EXTENDS DenseMerkle, SequencesExt, SequenceTheorems, WellFoundedInduction, TLAPS

-----------------------------------------------------------------------------
(* Division by a stride, in the forms the proofs below use. *)

(* The quotient q = h \div s is the only q with q s <= h < q s + s. *)
LEMMA DivBounds ==
  ASSUME NEW h \in Nat, NEW s \in Nat \ {0}
  PROVE  h \div s \in Nat /\ (h \div s) * s <= h /\ h < (h \div s) * s + s
OBVIOUS

(* A height is its window's start and its place in the window. *)
LEMMA DivMod ==
  ASSUME NEW h \in Nat, NEW s \in Nat \ {0}
  PROVE  h % s \in 0 .. s - 1 /\ h = (h \div s) * s + (h % s)
OBVIOUS

LEMMA DivUnique ==
  ASSUME NEW h \in Nat, NEW s \in Nat \ {0}, NEW q \in Int,
         q * s <= h, h < q * s + s
  PROVE  h \div s = q
OBVIOUS

(* Multiples of s compare as their factors do. *)
LEMMA CancelLess ==
  ASSUME NEW a \in Int, NEW b \in Int, NEW s \in Nat \ {0}
  PROVE  a * s < b * s <=> a < b
OBVIOUS

LEMMA CancelEq ==
  ASSUME NEW a \in Int, NEW b \in Int, NEW s \in Nat \ {0}
  PROVE  a * s = b * s <=> a = b
OBVIOUS

(* The largest multiple below z decides which multiples are. *)
LEMMA MultipleBelow ==
  ASSUME NEW x \in Int, NEW y \in Int, NEW z \in Int, NEW s \in Nat \ {0},
         y * s <= z, z < y * s + s
  PROVE  x * s <= z <=> x <= y
OBVIOUS

LEMMA ScaleLeq ==
  ASSUME NEW x \in Int, NEW y \in Int, NEW s \in Nat \ {0}, x <= y
  PROVE  x * s <= y * s
OBVIOUS

LEMMA RoundDown ==
  ASSUME NEW a \in Int, NEW b \in Int, NEW s \in Nat \ {0}, a * s < b * s + s
  PROVE  a * s <= b * s
OBVIOUS

LEMMA DivExact ==
  ASSUME NEW h \in Nat, NEW s \in Nat \ {0}
  PROVE  h % s = 0 <=> h = (h \div s) * s
OBVIOUS

LEMMA ModAdd ==
  ASSUME NEW x \in Nat, NEW s \in Nat \ {0}, x % s = 0
  PROVE  (x + s) % s = 0
<1>1. x \div s \in Nat /\ x = (x \div s) * s
  BY DivBounds, DivExact
<1> DEFINE q == x \div s
           y == x + s
<1>2. q + 1 \in Nat /\ y \in Nat /\ y = (q + 1) * s
  BY <1>1
<1> HIDE DEF q, y
<1>3. y \div s = q + 1
  BY <1>2, DivUnique
<1>4. y % s = 0
  BY <1>2, <1>3, DivExact
<1>5. QED
  BY <1>4 DEF y

(* Adding one raises a quotient exactly when it reaches a multiple. *)
LEMMA DivSucc ==
  ASSUME NEW h \in Nat, NEW s \in Nat \ {0}
  PROVE  (h + 1) \div s = IF (h + 1) % s = 0 THEN h \div s + 1 ELSE h \div s
OBVIOUS

(* Quotients by s and by W s: grouping by windows of windows. *)
LEMMA DivDiv ==
  ASSUME NEW h \in Nat, NEW s \in Nat \ {0}, NEW w \in Nat \ {0}
  PROVE  h \div (w * s) = (h \div s) \div w
OBVIOUS

(* A window of s blocks, the j-th, inside a group of w of them that starts *)
(* at the g-th: its place in the group.                                    *)
LEMMA PlaceInGroup ==
  ASSUME NEW h \in Nat, NEW s \in Nat \ {0}, NEW w \in Nat \ {0}, NEW j \in Nat, NEW g \in Nat,
         j * s <= h, h < (j + 1) * s, g * s <= h, h < (g + w) * s
  PROVE  j + 1 - g \in 1 .. w
<1> DEFINE x == j + 1
           y == g + w
<1>1. x \in Int /\ y \in Int /\ g * s < x * s /\ j * s < y * s
  OBVIOUS
<1> HIDE DEF x, y
<1>2. g < x /\ j < y
  BY <1>1, CancelLess
<1>3. QED
  BY <1>2 DEF x, y

LEMMA ScaledDifference ==
  ASSUME NEW x \in Int, NEW y \in Int, NEW s \in Int
  PROVE  x * s - y * s = (x - y) * s
OBVIOUS

LEMMA MultipleDiv ==
  ASSUME NEW i \in Nat, NEW s \in Nat \ {0}
  PROVE  (i * s) \div s = i
<1> DEFINE b == i * s
<1>1. b \in Nat /\ i * s <= b /\ b < i * s + s
  OBVIOUS
<1> HIDE DEF b
<1>2. b \div s = i
  BY <1>1, DivUnique
<1>3. QED
  BY <1>2 DEF b

-----------------------------------------------------------------------------
(* Induction, by a least element and for a set where the library's         *)
(* theorems have a predicate.                                              *)
LEMMA LeastElement ==
  ASSUME NEW S \in SUBSET Nat, S # {}
  PROVE  \E x \in S : \A y \in S : x <= y
<1> DEFINE Before == {p \in Nat \X Nat : p[1] < p[2]}
<1>1. IsWellFoundedOn(Before, Nat)
  BY NatLessThanWellFounded DEF OpToRel
<1> HIDE DEF Before
<1>2. \E x \in S : \A y \in S : <<y, x>> \notin Before
  BY <1>1, WFMin
<1>3. ASSUME NEW x \in Nat, NEW y \in Nat, <<y, x>> \notin Before
      PROVE  x <= y
  BY <1>3 DEF Before
<1>4. QED
  BY <1>2, <1>3

LEMMA Induction ==
  ASSUME NEW S, 0 \in S, \A n \in Nat : n \in S => n + 1 \in S
  PROVE  \A n \in Nat : n \in S
<1> DEFINE Missing == {n \in Nat : n \notin S}
<1> SUFFICES ASSUME Missing # {} PROVE FALSE
  OBVIOUS
<1>1. PICK x \in Missing : \A y \in Missing : x <= y
  BY LeastElement
<1>2. x # 0 /\ x - 1 \in Nat
  OBVIOUS
<1>3. x - 1 \notin Missing
  BY <1>1, <1>2
<1>4. x \in S
  BY <1>2, <1>3
<1>5. QED
  BY <1>4

-----------------------------------------------------------------------------
(* FlattenSeq, one sequence after the other.                               *)
Joined(seqs) ==
  LET flatten[i \in 1 .. Len(seqs)] ==
        IF i = 1 THEN seqs[i] ELSE flatten[i - 1] \o seqs[i]
  IN  flatten

JoinValue(seqs, g, i) == IF i = 1 THEN seqs[i] ELSE g[i - 1] \o seqs[i]

LEMMA JoinedIsDefined ==
  ASSUME NEW seqs, Len(seqs) \in Nat
  PROVE  /\ DOMAIN Joined(seqs) = 1 .. Len(seqs)
         /\ \A i \in 1 .. Len(seqs) : Joined(seqs)[i] = JoinValue(seqs, Joined(seqs), i)
<1> DEFINE Upto(k, g) == g = [i \in 1 .. k |-> JoinValue(seqs, g, i)]
           Some == {k \in Nat : \E g : Upto(k, g)}
<1>0. \A g, h : \A i \in Nat :
        (i # 1 => g[i - 1] = h[i - 1]) => JoinValue(seqs, g, i) = JoinValue(seqs, h, i)
  BY DEF JoinValue
<1>1. 0 \in Some
  <2>1. Upto(0, [i \in 1 .. 0 |-> i])
    OBVIOUS
  <2>2. QED
    BY <2>1
<1>2. ASSUME NEW k \in Nat, k \in Some
      PROVE  k + 1 \in Some
  <2>1. PICK g : Upto(k, g)
    BY <1>2
  <2> DEFINE h == [i \in 1 .. k + 1 |-> JoinValue(seqs, g, i)]
  <2>2. \A i \in 1 .. k : h[i] = g[i]
    BY <2>1
  <2> HIDE DEF h
  <2>3. \A i \in 1 .. k + 1 : JoinValue(seqs, h, i) = JoinValue(seqs, g, i)
    <3> SUFFICES ASSUME NEW i \in 1 .. k + 1 PROVE JoinValue(seqs, h, i) = JoinValue(seqs, g, i)
      OBVIOUS
    <3>1. i \in Nat /\ (i # 1 => i - 1 \in 1 .. k)
      OBVIOUS
    <3>2. QED
      BY <1>0, <2>2, <3>1
  <2>4. Upto(k + 1, h)
    BY <2>3 DEF h
  <2>5. QED
    BY <2>4
<1> HIDE DEF Some
<1>3. \A k \in Nat : k \in Some
  BY <1>1, <1>2, Induction
<1>4. \E g : g = [i \in 1 .. Len(seqs) |-> JoinValue(seqs, g, i)]
  BY <1>3 DEF Some
<1> DEFINE j == CHOOSE g : g = [i \in 1 .. Len(seqs) |-> JoinValue(seqs, g, i)]
<1>5. j = [i \in 1 .. Len(seqs) |-> JoinValue(seqs, j, i)]
  BY <1>4, Zenon
<1>6. Joined(seqs) = j
  BY Zenon DEF Joined, JoinValue
<1> HIDE DEF j
<1>7. QED
  BY <1>5, <1>6

LEMMA FlattenIsJoined ==
  ASSUME NEW seqs, Len(seqs) \in Nat, Len(seqs) # 0
  PROVE  FlattenSeq(seqs) = Joined(seqs)[Len(seqs)]
BY DEF FlattenSeq, Joined

(* A sequence of what the first k sequences hold.                          *)
Holds(S, seqs, k, u) ==
  /\ u \in Seq(S)
  /\ \A i \in 1 .. k : \A j \in DOMAIN seqs[i] : \E p \in 1 .. Len(u) : u[p] = seqs[i][j]
  /\ \A p \in 1 .. Len(u) : \E i \in 1 .. k : \E j \in DOMAIN seqs[i] : u[p] = seqs[i][j]

LEMMA ConcatHolds ==
  ASSUME NEW S, NEW seqs, NEW k \in Nat, NEW t, Holds(S, seqs, k, t),
         NEW s \in Seq(S), s = seqs[k + 1]
  PROVE  Holds(S, seqs, k + 1, t \o s)
<1> DEFINE u == t \o s
<1>1. t \in Seq(S) /\ Len(t) \in Nat
  BY LenProperties DEF Holds
<1>2. Len(s) \in Nat /\ DOMAIN s = 1 .. Len(s)
  BY LenProperties
<1>3. /\ u \in Seq(S) /\ Len(u) = Len(t) + Len(s)
      /\ \A p \in 1 .. Len(t) + Len(s) : u[p] = IF p <= Len(t) THEN t[p] ELSE s[p - Len(t)]
  BY <1>1, ConcatProperties
<1> HIDE DEF u
<1>4. ASSUME NEW i \in 1 .. k + 1, NEW j \in DOMAIN seqs[i]
      PROVE  \E p \in 1 .. Len(u) : u[p] = seqs[i][j]
  <2>1. CASE i \in 1 .. k
    <3>1. PICK p \in 1 .. Len(t) : t[p] = seqs[i][j]
      BY <2>1 DEF Holds
    <3>2. p \in 1 .. Len(t) + Len(s) /\ p <= Len(t)
      BY <1>1, <1>2
    <3>3. u[p] = seqs[i][j]
      BY <1>3, <3>1, <3>2
    <3>4. QED
      BY <1>3, <3>2, <3>3
  <2>2. CASE i = k + 1
    <3> DEFINE p == Len(t) + j
    <3>1. j \in 1 .. Len(s) /\ seqs[i] = s
      BY <1>2, <2>2
    <3>2. p \in 1 .. Len(t) + Len(s) /\ ~(p <= Len(t)) /\ p - Len(t) = j
      BY <1>1, <1>2, <3>1
    <3> HIDE DEF p
    <3>3. u[p] = s[j]
      BY <1>3, <3>2
    <3>4. QED
      BY <1>3, <3>1, <3>2, <3>3
  <2>3. QED
    BY <2>1, <2>2
<1>5. ASSUME NEW p \in 1 .. Len(u)
      PROVE  \E i \in 1 .. k + 1 : \E j \in DOMAIN seqs[i] : u[p] = seqs[i][j]
  <2>1. CASE p <= Len(t)
    <3>1. u[p] = t[p] /\ p \in 1 .. Len(t)
      BY <1>1, <1>2, <1>3, <2>1
    <3>2. PICK i \in 1 .. k : \E j \in DOMAIN seqs[i] : t[p] = seqs[i][j]
      BY <3>1 DEF Holds
    <3>3. i \in 1 .. k + 1
      OBVIOUS
    <3>4. QED
      BY <3>1, <3>2, <3>3
  <2>2. CASE ~(p <= Len(t))
    <3>1. p - Len(t) \in DOMAIN s /\ u[p] = s[p - Len(t)]
      BY <1>1, <1>2, <1>3, <2>2
    <3>2. k + 1 \in 1 .. k + 1
      OBVIOUS
    <3>3. QED
      BY <3>1, <3>2
  <2>3. QED
    BY <2>1, <2>2
<1>6. QED
  BY <1>3, <1>4, <1>5 DEF u, Holds

LEMMA JoinedHolds ==
  ASSUME NEW S, NEW seqs \in Seq(Seq(S))
  PROVE  \A k \in 1 .. Len(seqs) : Holds(S, seqs, k, Joined(seqs)[k])
<1> DEFINE len  == Len(seqs)
           join == Joined(seqs)
           Good == {k \in Nat : k >= 1 /\ k <= len => Holds(S, seqs, k, join[k])}
<1>1. len \in Nat /\ \A i \in 1 .. len : seqs[i] \in Seq(S)
  OBVIOUS
<1>2. \A i \in 1 .. len : join[i] = JoinValue(seqs, join, i)
  BY <1>1, JoinedIsDefined
<1> HIDE DEF join, len
<1>3. 0 \in Good
  OBVIOUS
<1>4. ASSUME NEW k \in Nat, k \in Good
      PROVE  k + 1 \in Good
  <2> DEFINE n == k + 1
  <2>1. CASE n \notin 1 .. len
    BY <1>1, <2>1
  <2>2. CASE n \in 1 .. len /\ k = 0
    <3>1. n = 1 /\ join[n] = seqs[n] /\ seqs[n] \in Seq(S)
      BY <1>1, <1>2, <2>2 DEF JoinValue
    <3>2. \A s \in Seq(S) : s = seqs[1] => Holds(S, seqs, 1, s)
      BY LenProperties DEF Holds
    <3>3. Holds(S, seqs, n, join[n])
      BY <3>1, <3>2
    <3>4. QED
      BY <3>3
  <2>3. CASE n \in 1 .. len /\ k # 0
    <3>1. k >= 1 /\ k <= len
      BY <1>1, <2>3
    <3>2. Holds(S, seqs, k, join[k])
      BY <1>4, <3>1
    <3>3. n # 1 /\ n - 1 = k
      BY <2>3
    <3>4. join[n] = join[k] \o seqs[n]
      BY <1>2, <2>3, <3>3 DEF JoinValue
    <3>5. seqs[n] \in Seq(S)
      BY <1>1, <2>3
    <3>6. Holds(S, seqs, k + 1, join[k] \o seqs[n])
      BY <3>2, <3>5, ConcatHolds
    <3>7. Holds(S, seqs, n, join[n])
      BY <3>4, <3>6
    <3> HIDE DEF n
    <3>8. n \in Good
      BY <3>7 DEF n
    <3>9. QED
      BY <3>8 DEF n
  <2>4. QED
    BY <2>1, <2>2, <2>3
<1> HIDE DEF Good
<1>5. \A k \in Nat : k \in Good
  BY <1>3, <1>4, Induction
<1>6. ASSUME NEW k \in 1 .. len
      PROVE  Holds(S, seqs, k, join[k])
  <2>1. k \in Nat /\ k >= 1 /\ k <= len
    BY <1>1
  <2>2. QED
    BY <1>5, <2>1 DEF Good
<1>7. QED
  BY <1>6 DEF join, len

(* One element more in one of the sequences is one more in all.            *)
LEMMA JoinedGrows ==
  ASSUME NEW S, NEW seqs \in Seq(Seq(S)), NEW more \in Seq(Seq(S)), Len(more) = Len(seqs),
         NEW a \in 1 .. Len(seqs), Len(more[a]) = Len(seqs[a]) + 1,
         \A i \in 1 .. Len(seqs) : i # a => more[i] = seqs[i]
  PROVE  Len(Joined(more)[Len(seqs)]) = Len(Joined(seqs)[Len(seqs)]) + 1
<1> DEFINE len    == Len(seqs)
           old(k) == Len(Joined(seqs)[k])
           new(k) == Len(Joined(more)[k])
           one(k) == IF k >= a THEN 1 ELSE 0
           Good   == {k \in Nat : k >= 1 /\ k <= len => new(k) = old(k) + one(k)}
<1>1. /\ len \in Nat /\ a \in Nat /\ Len(more) \in Nat
      /\ \A i \in 1 .. len : seqs[i] \in Seq(S) /\ more[i] \in Seq(S)
  OBVIOUS
<1>2. \A i \in 1 .. len : Len(seqs[i]) \in Nat /\ Len(more[i]) \in Nat
  BY <1>1, LenProperties
<1>3. \A i \in 1 .. len : Joined(seqs)[i] \in Seq(S) /\ Joined(more)[i] \in Seq(S)
  BY JoinedHolds DEF Holds
<1>4. \A i \in 1 .. len : old(i) \in Nat /\ new(i) \in Nat
  BY <1>3, LenProperties
<1>5. ASSUME NEW i \in 1 .. len
      PROVE  /\ i = 1 => old(i) = Len(seqs[i]) /\ new(i) = Len(more[i])
             /\ i # 1 => old(i) = old(i - 1) + Len(seqs[i]) /\ new(i) = new(i - 1) + Len(more[i])
  <2>1. /\ Joined(seqs)[i] = JoinValue(seqs, Joined(seqs), i)
        /\ Joined(more)[i] = JoinValue(more, Joined(more), i)
    BY <1>1, JoinedIsDefined
  <2>2. CASE i = 1
    BY <2>1, <2>2 DEF JoinValue
  <2>3. CASE i # 1
    <3>1. i - 1 \in 1 .. len
      BY <1>1, <2>3
    <3>2. /\ Joined(seqs)[i] = Joined(seqs)[i - 1] \o seqs[i]
          /\ Joined(more)[i] = Joined(more)[i - 1] \o more[i]
      BY <2>1, <2>3 DEF JoinValue
    <3>3. Len(Joined(seqs)[i]) = Len(Joined(seqs)[i - 1]) + Len(seqs[i])
      BY <1>1, <1>3, <3>1, <3>2, ConcatProperties
    <3>4. Len(Joined(more)[i]) = Len(Joined(more)[i - 1]) + Len(more[i])
      BY <1>1, <1>3, <3>1, <3>2, ConcatProperties
    <3>5. QED
      BY <2>3, <3>3, <3>4
  <2>4. QED
    BY <2>2, <2>3
<1>6. ASSUME NEW i \in 1 .. len
      PROVE  Len(more[i]) = Len(seqs[i]) + IF i = a THEN 1 ELSE 0
  <2>1. Len(seqs[i]) \in Nat
    BY <1>2
  <2>2. CASE i = a
    BY <2>2
  <2>3. CASE i # a
    <3>1. Len(more[i]) = Len(seqs[i])
      BY <2>3
    <3>2. QED
      BY <2>1, <2>3, <3>1
  <2>4. QED
    BY <2>2, <2>3
<1> HIDE DEF len, old, new, one
<1>7. 0 \in Good
  OBVIOUS
<1>8. ASSUME NEW k \in Nat, k \in Good
      PROVE  k + 1 \in Good
  <2> DEFINE n == k + 1
  <2>1. CASE n \notin 1 .. len
    BY <1>1, <2>1
  <2>2. CASE n \in 1 .. len /\ k = 0
    <3>1. n = 1 /\ new(n) = Len(more[n]) /\ old(n) = Len(seqs[n])
      BY <1>5, <2>2
    <3>2. one(n) = IF n = a THEN 1 ELSE 0
      BY <1>1, <3>1 DEF one, len
    <3>3. new(n) = old(n) + one(n)
      BY <1>6, <2>2, <3>1, <3>2
    <3> HIDE DEF n
    <3>4. n \in Good
      BY <3>3 DEF n
    <3>5. QED
      BY <3>4 DEF n
  <2>3. CASE n \in 1 .. len /\ k # 0
    <3>1. k \in 1 .. len /\ n # 1 /\ n - 1 = k /\ k >= 1 /\ k <= len
      BY <1>1, <2>3
    <3>2. new(k) = old(k) + one(k)
      BY <1>8, <3>1
    <3>3. old(n) = old(k) + Len(seqs[n]) /\ new(n) = new(k) + Len(more[n])
      BY <1>5, <2>3, <3>1
    <3>4. one(n) = one(k) + (IF n = a THEN 1 ELSE 0) /\ one(k) \in Nat
      BY <1>1 DEF one
    <3>5. Len(more[n]) = Len(seqs[n]) + IF n = a THEN 1 ELSE 0
      BY <1>6, <2>3
    <3>6. old(k) \in Nat /\ Len(seqs[n]) \in Nat
      BY <1>2, <1>4, <2>3, <3>1
    <3> HIDE DEF n
    <3>7. new(n) = old(n) + one(n)
      <4> DEFINE d == IF n = a THEN 1 ELSE 0
      <4>1. d \in Nat /\ one(n) = one(k) + d /\ Len(more[n]) = Len(seqs[n]) + d
        BY <3>4, <3>5
      <4> HIDE DEF d
      <4> DEFINE x == old(k)
                 y == one(k)
                 z == Len(seqs[n])
      <4>2. x \in Nat /\ y \in Nat /\ z \in Nat
        BY <3>4, <3>6
      <4>3. new(n) = (x + y) + (z + d)
        BY <3>2, <3>3, <4>1
      <4>4. old(n) + one(n) = (x + z) + (y + d)
        BY <3>3, <4>1
      <4> HIDE DEF x, y, z
      <4>5. (x + y) + (z + d) = (x + z) + (y + d)
        BY <4>1, <4>2
      <4>6. QED
        BY <4>3, <4>4, <4>5
    <3>8. n \in Good
      BY <3>7 DEF n
    <3>9. QED
      BY <3>8 DEF n
  <2>4. QED
    BY <2>1, <2>2, <2>3
<1> HIDE DEF Good
<1>9. \A k \in Nat : k \in Good
  BY <1>7, <1>8, Induction
<1>10. len \in Nat /\ len >= 1 /\ len <= len /\ one(len) = 1
  BY <1>1 DEF len, one
<1>11. new(len) = old(len) + one(len)
  BY <1>9, <1>10 DEF Good
<1>12. QED
  BY <1>10, <1>11 DEF len, old, new

(* Where the elements of a sequence of sequences come from: from the first *)
(* k of them, in their order.                                              *)
Follows(seqs, k, u, at) ==
  /\ at \in [1 .. Len(u) -> 1 .. k]
  /\ \A p \in 1 .. Len(u) : \E j \in DOMAIN seqs[at[p]] : u[p] = seqs[at[p]][j]
  /\ \A p, q \in 1 .. Len(u) : p < q =>
       at[p] <= at[q] /\ (at[p] = at[q] => Len(seqs[at[p]]) > 1)

LEMMA ConcatFollows ==
  ASSUME NEW S, NEW seqs, NEW k \in Nat, NEW t \in Seq(S), NEW at, Follows(seqs, k, t, at),
         NEW s \in Seq(S), s = seqs[k + 1]
  PROVE  \E more : Follows(seqs, k + 1, t \o s, more)
<1> DEFINE u    == t \o s
           more == [p \in 1 .. Len(u) |-> IF p <= Len(t) THEN at[p] ELSE k + 1]
<1>1. /\ Len(t) \in Nat /\ Len(s) \in Nat /\ DOMAIN s = 1 .. Len(s)
      /\ at \in [1 .. Len(t) -> 1 .. k]
  BY LenProperties DEF Follows
<1>2. /\ Len(u) = Len(t) + Len(s)
      /\ \A p \in 1 .. Len(t) + Len(s) : u[p] = IF p <= Len(t) THEN t[p] ELSE s[p - Len(t)]
  BY ConcatProperties
<1> HIDE DEF u
<1>3. /\ \A p \in 1 .. Len(u) : p <= Len(t) => p \in 1 .. Len(t) /\ more[p] = at[p]
      /\ \A p \in 1 .. Len(u) : ~(p <= Len(t)) => more[p] = k + 1 /\ p - Len(t) \in 1 .. Len(s)
  BY <1>1, <1>2
<1>4. more \in [1 .. Len(u) -> 1 .. k + 1]
  <2>1. \A p \in 1 .. Len(u) : p <= Len(t) => at[p] \in 1 .. k + 1
    BY <1>1, <1>3
  <2>2. k + 1 \in 1 .. k + 1
    OBVIOUS
  <2>3. QED
    BY <2>1, <2>2
<1> HIDE DEF more
<1>5. ASSUME NEW p \in 1 .. Len(u)
      PROVE  \E j \in DOMAIN seqs[more[p]] : u[p] = seqs[more[p]][j]
  <2>1. CASE p <= Len(t)
    <3>1. u[p] = t[p] /\ more[p] = at[p] /\ p \in 1 .. Len(t)
      BY <1>1, <1>2, <1>3, <2>1
    <3>2. QED
      BY <3>1 DEF Follows
  <2>2. CASE ~(p <= Len(t))
    <3>1. u[p] = s[p - Len(t)] /\ more[p] = k + 1 /\ p - Len(t) \in DOMAIN s
      BY <1>1, <1>2, <1>3, <2>2
    <3>2. QED
      BY <3>1
  <2>3. QED
    BY <2>1, <2>2
<1>6. ASSUME NEW p \in 1 .. Len(u), NEW q \in 1 .. Len(u), p < q
      PROVE  more[p] <= more[q] /\ (more[p] = more[q] => Len(seqs[more[p]]) > 1)
  <2>1. CASE q <= Len(t)
    <3>1. p \in 1 .. Len(t) /\ q \in 1 .. Len(t) /\ more[p] = at[p] /\ more[q] = at[q]
      <4>1. p <= Len(t)
        BY <1>1, <1>2, <1>6, <2>1
      <4>2. QED
        BY <1>3, <2>1, <4>1
    <3>2. QED
      BY <1>6, <3>1 DEF Follows
  <2>2. CASE p <= Len(t) /\ ~(q <= Len(t))
    <3>1. more[p] \in 1 .. k /\ more[q] = k + 1
      BY <1>1, <1>3, <2>2
    <3>2. QED
      BY <3>1
  <2>3. CASE ~(p <= Len(t))
    <3>1. more[p] = k + 1 /\ more[q] = k + 1 /\ p - Len(t) \in 1 .. Len(s) /\ q - Len(t) \in 1 .. Len(s)
      BY <1>1, <1>2, <1>3, <1>6, <2>3
    <3>2. Len(s) > 1
      BY <1>1, <1>2, <1>6, <3>1
    <3>3. QED
      BY <3>1, <3>2
  <2>4. QED
    BY <2>1, <2>2, <2>3, <1>1, <1>2
<1>7. Follows(seqs, k + 1, u, more)
  BY <1>4, <1>5, <1>6 DEF Follows
<1>8. QED
  BY <1>7 DEF u

LEMMA JoinedFollows ==
  ASSUME NEW S, NEW seqs \in Seq(Seq(S))
  PROVE  \A k \in 1 .. Len(seqs) : \E at : Follows(seqs, k, Joined(seqs)[k], at)
<1> DEFINE len  == Len(seqs)
           join == Joined(seqs)
           Good == {k \in Nat : k >= 1 /\ k <= len => \E at : Follows(seqs, k, join[k], at)}
<1>1. len \in Nat /\ \A i \in 1 .. len : seqs[i] \in Seq(S)
  OBVIOUS
<1>2. \A i \in 1 .. len : join[i] = JoinValue(seqs, join, i) /\ join[i] \in Seq(S)
  BY <1>1, JoinedIsDefined, JoinedHolds DEF Holds
<1> HIDE DEF join, len
<1>3. 0 \in Good
  OBVIOUS
<1>4. ASSUME NEW k \in Nat, k \in Good
      PROVE  k + 1 \in Good
  <2> DEFINE n == k + 1
  <2>1. CASE n \notin 1 .. len
    BY <1>1, <2>1
  <2>2. CASE n \in 1 .. len /\ k = 0
    <3> DEFINE s  == seqs[1]
               at == [p \in 1 .. Len(s) |-> 1]
    <3>1. n = 1 /\ join[n] = s /\ s \in Seq(S)
      BY <1>1, <1>2, <2>2 DEF JoinValue
    <3>2. Len(s) \in Nat /\ DOMAIN s = 1 .. Len(s)
      BY <3>1, LenProperties
    <3>3. \A p, q \in 1 .. Len(s) : p < q => Len(s) > 1
      BY <3>2
    <3>4. Follows(seqs, 1, s, at)
      BY <3>2, <3>3 DEF Follows
    <3> HIDE DEF s, at
    <3>5. QED
      BY <3>1, <3>4
  <2>3. CASE n \in 1 .. len /\ k # 0
    <3>1. k >= 1 /\ k <= len /\ k \in 1 .. len
      BY <1>1, <2>3
    <3>2. PICK at : Follows(seqs, k, join[k], at)
      BY <1>4, <3>1
    <3>3. n # 1 /\ n - 1 = k
      BY <2>3
    <3>4. join[n] = join[k] \o seqs[n]
      BY <1>2, <2>3, <3>3 DEF JoinValue
    <3>5. seqs[n] \in Seq(S) /\ join[k] \in Seq(S)
      BY <1>1, <1>2, <2>3, <3>1
    <3>6. \E more : Follows(seqs, k + 1, join[k] \o seqs[n], more)
      BY <3>2, <3>5, ConcatFollows
    <3>7. \E more : Follows(seqs, n, join[n], more)
      BY <3>4, <3>6
    <3> HIDE DEF n
    <3>8. n \in Good
      BY <3>7 DEF n
    <3>9. QED
      BY <3>8 DEF n
  <2>4. QED
    BY <2>1, <2>2, <2>3
<1> HIDE DEF Good
<1>5. \A k \in Nat : k \in Good
  BY <1>3, <1>4, Induction
<1>6. ASSUME NEW k \in 1 .. len
      PROVE  \E at : Follows(seqs, k, join[k], at)
  <2>1. k \in Nat /\ k >= 1 /\ k <= len
    BY <1>1
  <2>2. QED
    BY <1>5, <2>1 DEF Good
<1>7. QED
  BY <1>6 DEF join, len

(* The elements that are kept, in their order.                             *)
Kept(children, keep) ==
  FlattenSeq([i \in DOMAIN children |-> IF keep[i] THEN <<children[i]>> ELSE <<>>])

KeptFrom(children, keep, at) ==
  LET u == Kept(children, keep) IN
  /\ at \in [1 .. Len(u) -> DOMAIN children]
  /\ \A p \in 1 .. Len(u) : keep[at[p]] /\ u[p] = children[at[p]]
  /\ \A p, q \in 1 .. Len(u) : p < q => at[p] < at[q]

LEMMA KeptAre ==
  ASSUME NEW S, NEW children \in Seq(S), NEW keep
  PROVE  /\ Kept(children, keep) \in Seq(S) /\ Len(Kept(children, keep)) \in Nat
         /\ \A i \in DOMAIN children : keep[i] =>
              \E p \in 1 .. Len(Kept(children, keep)) : Kept(children, keep)[p] = children[i]
         /\ \E at : KeptFrom(children, keep, at)
<1> DEFINE one(i) == IF keep[i] THEN <<children[i]>> ELSE <<>>
           seqs   == [i \in DOMAIN children |-> one(i)]
           len    == Len(children)
           u      == Kept(children, keep)
<1>1. len \in Nat /\ DOMAIN children = 1 .. len /\ \A i \in 1 .. len : children[i] \in S
  BY LenProperties
<1>2. ASSUME NEW i \in 1 .. len
      PROVE  /\ one(i) \in Seq(S)
             /\ keep[i] => Len(one(i)) = 1 /\ DOMAIN one(i) = 1 .. 1 /\ one(i)[1] = children[i]
             /\ ~keep[i] => Len(one(i)) = 0 /\ DOMAIN one(i) = {}
  BY <1>1
<1> HIDE DEF len, one
<1>3. seqs \in Seq(Seq(S)) /\ Len(seqs) = len /\ \A i \in 1 .. len : seqs[i] = one(i)
  BY <1>1, <1>2
<1>4. u = FlattenSeq(seqs)
  BY DEF Kept, one
<1> HIDE DEF seqs, u
<1>5. CASE len = 0
  <2>1. u = seqs
    BY <1>3, <1>4, <1>5 DEF FlattenSeq
  <2>2. u = <<>>
    BY <1>3, <1>5, <2>1, EmptySeq
  <2>3. u \in Seq(S) /\ Len(u) = 0 /\ 1 .. 0 = {}
    BY <2>2
  <2>4. KeptFrom(children, keep, [p \in {} |-> p])
    BY <2>3 DEF KeptFrom, u
  <2>5. QED
    BY <1>1, <1>5, <2>3, <2>4 DEF u
<1>6. CASE len # 0
  <2>1. u = Joined(seqs)[len] /\ len \in 1 .. len
    BY <1>1, <1>3, <1>4, <1>6, FlattenIsJoined
  <2>2. Holds(S, seqs, len, u) /\ \E at : Follows(seqs, len, u, at)
    BY <1>3, <2>1, JoinedHolds, JoinedFollows
  <2>3. PICK at : Follows(seqs, len, u, at)
    BY <2>2
  <2>4. ASSUME NEW p \in 1 .. Len(u)
        PROVE  at[p] \in 1 .. len /\ keep[at[p]] /\ u[p] = children[at[p]]
    <3>1. at[p] \in 1 .. len /\ \E j \in DOMAIN seqs[at[p]] : u[p] = seqs[at[p]][j]
      BY <2>3 DEF Follows
    <3>2. PICK j \in DOMAIN one(at[p]) : u[p] = one(at[p])[j]
      BY <1>3, <3>1
    <3>3. keep[at[p]]
      BY <1>2, <3>1, <3>2
    <3>4. j \in 1 .. 1 /\ one(at[p])[1] = children[at[p]]
      BY <1>2, <3>1, <3>2, <3>3
    <3>5. QED
      BY <3>1, <3>2, <3>3, <3>4
  <2>5. ASSUME NEW p \in 1 .. Len(u), NEW q \in 1 .. Len(u), p < q
        PROVE  at[p] < at[q]
    <3>1. at[p] <= at[q] /\ (at[p] = at[q] => Len(seqs[at[p]]) > 1)
      BY <2>3, <2>5 DEF Follows
    <3>2. at[p] \in 1 .. len /\ at[q] \in 1 .. len /\ Len(one(at[p])) = 1
      BY <1>2, <2>4
    <3>3. at[p] # at[q]
      <4>1. seqs[at[p]] = one(at[p])
        BY <1>3, <3>2
      <4>2. Len(seqs[at[p]]) = 1
        BY <3>2, <4>1
      <4>3. ~(Len(seqs[at[p]]) > 1)
        BY <4>2
      <4>4. QED
        BY <3>1, <4>3
    <3>4. QED
      BY <1>1, <3>1, <3>2, <3>3
  <2>6. ASSUME NEW i \in 1 .. len, keep[i]
        PROVE  \E p \in 1 .. Len(u) : u[p] = children[i]
    <3>1. 1 \in DOMAIN seqs[i] /\ seqs[i][1] = children[i]
      BY <1>2, <1>3, <2>6
    <3>2. QED
      BY <2>2, <3>1 DEF Holds
  <2>7. u \in Seq(S) /\ Len(u) \in Nat
    BY <2>2, LenProperties DEF Holds
  <2>8. at \in [1 .. Len(u) -> DOMAIN children]
    BY <1>1, <2>3 DEF Follows
  <2>9. KeptFrom(children, keep, at)
    BY <2>4, <2>5, <2>8 DEF KeptFrom, u
  <2>10. QED
    BY <1>1, <2>6, <2>7, <2>9 DEF u
<1>7. QED
  BY <1>5, <1>6

-----------------------------------------------------------------------------
(* A function on the naturals in which n depends on one smaller number:    *)
(* there is one.                                                           *)
ByRecursion(b, base, prev, step) ==
  CHOOSE f : f = [n \in Nat |-> IF n <= b THEN base ELSE step[f[prev[n]]]]

LEMMA Recursion ==
  ASSUME NEW b \in Nat, NEW base, NEW step,
         NEW prev \in [Nat -> Nat], \A n \in Nat : n > b => prev[n] < n
  PROVE  LET f == ByRecursion(b, base, prev, step) IN
           /\ f = [n \in Nat |-> f[n]]
           /\ \A n \in Nat : f[n] = IF n <= b THEN base ELSE step[f[prev[n]]]
<1> DEFINE Value(g, m) == IF m <= b THEN base ELSE step[g[prev[m]]]
           Upto(g, n)  == g = [m \in 0 .. n |-> Value(g, m)]
           Some        == {n \in Nat : \E g : Upto(g, n)}
<1>0. \A m \in Nat : m > b => prev[m] \in Nat /\ prev[m] < m
  OBVIOUS
<1>1. \A g, h : \A m \in Nat :
        (m > b => g[prev[m]] = h[prev[m]]) => Value(g, m) = Value(h, m)
  OBVIOUS
<1>2. 0 \in Some
  <2>1. Upto([i \in 0 .. 0 |-> base], 0)
    OBVIOUS
  <2>2. QED
    BY <2>1
<1>3. ASSUME NEW n \in Nat, n \in Some
      PROVE  n + 1 \in Some
  <2>1. PICK g : Upto(g, n)
    BY <1>3
  <2> HIDE DEF Value
  <2>2. \A m \in 0 .. n : g[m] = Value(g, m)
    BY <2>1
  <2> DEFINE h == [i \in 0 .. n + 1 |-> Value(g, i)]
  <2>3. DOMAIN h = 0 .. n + 1 /\ \A m \in 0 .. n + 1 : h[m] = Value(g, m)
    OBVIOUS
  <2> HIDE DEF h
  <2>4. \A m \in 0 .. n + 1 : m > b => h[prev[m]] = g[prev[m]]
    <3> SUFFICES ASSUME NEW m \in 0 .. n + 1, m > b
                 PROVE  h[prev[m]] = g[prev[m]]
      OBVIOUS
    <3>1. prev[m] \in 0 .. n
      BY <1>0
    <3>2. QED
      BY <3>1, <2>2, <2>3
  <2>5. \A m \in 0 .. n + 1 : Value(g, m) = Value(h, m)
    BY <1>1, <2>4
  <2>6. h = [i \in 0 .. n + 1 |-> Value(h, i)]
    BY <2>5 DEF h
  <2>7. QED
    BY <2>6
<1> HIDE DEF Some
<1>4. \A n \in Nat : n \in Some
  BY <1>2, <1>3, Induction
<1> DEFINE some == [n \in Nat |-> CHOOSE g : Upto(g, n)]
<1>5. \A n \in Nat : Upto(some[n], n)
  <2> SUFFICES ASSUME NEW n \in Nat PROVE Upto(some[n], n)
    OBVIOUS
  <2>1. \E g : Upto(g, n)
    BY <1>4 DEF Some
  <2> HIDE DEF Upto
  <2>2. some[n] = CHOOSE g : Upto(g, n)
    OBVIOUS
  <2>3. QED
    BY <2>1, <2>2, Zenon
<1> HIDE DEF some, Value
<1>6. \A n \in Nat : \A m \in 0 .. n : some[n][m] = Value(some[n], m)
  BY <1>5
<1>7. \A p \in Nat, q \in Nat, m \in Nat : m <= p /\ m <= q => some[p][m] = some[q][m]
  <2> SUFFICES ASSUME NEW p \in Nat, NEW q \in Nat
               PROVE  \A m \in Nat : m <= p /\ m <= q => some[p][m] = some[q][m]
    OBVIOUS
  <2> DEFINE Differ == {m \in Nat : m <= p /\ m <= q /\ some[p][m] # some[q][m]}
  <2> SUFFICES ASSUME Differ # {} PROVE FALSE
    OBVIOUS
  <2>1. PICK x \in Differ : \A y \in Differ : x <= y
    BY LeastElement
  <2>2. Value(some[p], x) # Value(some[q], x)
    BY <1>6
  <2>3. x > b /\ some[p][prev[x]] # some[q][prev[x]]
    BY <1>1, <2>2
  <2>4. prev[x] \in Nat /\ prev[x] < x
    BY <2>3, <1>0
  <2>5. prev[x] \in Differ
    BY <2>3, <2>4
  <2>6. QED
    BY <2>1, <2>4, <2>5
<1> DEFINE f == [n \in Nat |-> Value(some[n], n)]
<1>8. \A n \in Nat : f[n] = some[n][n] /\ f[n] = Value(some[n], n)
  BY <1>6
<1> HIDE DEF f
<1>9. \A n \in Nat : Value(some[n], n) = Value(f, n)
  <2> SUFFICES ASSUME NEW n \in Nat PROVE Value(some[n], n) = Value(f, n)
    OBVIOUS
  <2>1. n > b => some[n][prev[n]] = f[prev[n]]
    BY <1>0, <1>7, <1>8
  <2>2. QED
    BY <1>1, <2>1
<1>10. f = [n \in Nat |-> Value(f, n)]
  BY <1>9 DEF f
<1>11. \E g : g = [n \in Nat |-> IF n <= b THEN base ELSE step[g[prev[n]]]]
  BY <1>10 DEF Value
<1> DEFINE r == ByRecursion(b, base, prev, step)
<1>12. r = [n \in Nat |-> IF n <= b THEN base ELSE step[r[prev[n]]]]
  BY <1>11, Zenon DEF ByRecursion
<1> HIDE DEF r
<1>13. \A n \in Nat : r[n] = IF n <= b THEN base ELSE step[r[prev[n]]]
  BY <1>12
<1>14. r = [n \in Nat |-> r[n]]
  BY <1>12
<1>15. QED
  BY <1>13, <1>14 DEF r

(* The same, where each number is c times the one it depends on. *)
LEMMA Multiples ==
  ASSUME NEW b \in Nat, NEW c \in Nat,
         NEW prev \in [Nat -> Nat], \A n \in Nat : n > b => prev[n] < n
  PROVE  \E f \in [Nat -> Nat] : \A n \in Nat : f[n] = IF n <= b THEN 1 ELSE c * f[prev[n]]
<1> DEFINE base == 1
           step == [x \in Nat |-> c * x]
<1>1. base = 1 /\ \A x \in Nat : step[x] \in Nat /\ step[x] = c * x
  OBVIOUS
<1> HIDE DEF base, step
<1> DEFINE f == ByRecursion(b, base, prev, step)
           Others == {n \in Nat : f[n] \notin Nat}
<1>2. /\ f = [n \in Nat |-> f[n]]
      /\ \A n \in Nat : f[n] = IF n <= b THEN base ELSE step[f[prev[n]]]
  BY Recursion
<1> HIDE DEF f
<1>3. ASSUME Others # {} PROVE FALSE
  <2>1. PICK x \in Others : \A y \in Others : x <= y
    BY <1>3, LeastElement
  <2>2. x > b
    <3>1. x <= b => f[x] = base
      BY <1>2
    <3>2. base \in Nat
      BY <1>1
    <3>3. QED
      BY <3>1, <3>2
  <2>3. prev[x] \in Nat /\ prev[x] < x
    BY <2>2
  <2>4. f[prev[x]] \in Nat
    BY <2>1, <2>3
  <2>5. f[x] = step[f[prev[x]]]
    BY <1>2, <2>2
  <2>6. QED
    BY <1>1, <2>4, <2>5
<1>4. \A n \in Nat : f[n] \in Nat /\ f[n] = IF n <= b THEN 1 ELSE c * f[prev[n]]
  <2> SUFFICES ASSUME NEW n \in Nat
               PROVE  f[n] \in Nat /\ f[n] = IF n <= b THEN 1 ELSE c * f[prev[n]]
    OBVIOUS
  <2>1. f[n] \in Nat /\ f[prev[n]] \in Nat
    BY <1>3
  <2>2. f[n] = IF n <= b THEN base ELSE step[f[prev[n]]]
    BY <1>2
  <2>3. QED
    BY <1>1, <2>1, <2>2
<1>5. f \in [Nat -> Nat]
  <2>1. [n \in Nat |-> f[n]] \in [Nat -> Nat]
    BY <1>4
  <2>2. QED
    BY <1>2, <2>1
<1>6. QED
  BY <1>4, <1>5

-----------------------------------------------------------------------------
(* Powers of two, and next_power_of_two.                                   *)
LEMMA TwoToIsDefined ==
  TwoTo \in [Nat -> Nat] /\ \A n \in Nat : TwoTo[n] = IF n = 0 THEN 1 ELSE 2 * TwoTo[n - 1]
<1> DEFINE prev == [n \in Nat |-> IF n = 0 THEN 0 ELSE n - 1]
           b    == 0
           two  == 2
<1>1. /\ b = 0 /\ two = 2 /\ prev \in [Nat -> Nat]
      /\ \A n \in Nat : n > b => prev[n] = n - 1 /\ prev[n] < n
  OBVIOUS
<1>2. b \in Nat /\ two \in Nat /\ \A n \in Nat : n > b => prev[n] < n
  OBVIOUS
<1> HIDE DEF prev, b, two
<1>3. PICK f \in [Nat -> Nat] : \A n \in Nat : f[n] = IF n <= b THEN 1 ELSE two * f[prev[n]]
  BY <1>1, <1>2, Multiples
<1>4. f = [n \in Nat |-> IF n = 0 THEN 1 ELSE 2 * f[n - 1]]
  BY <1>1, <1>3
<1>5. TwoTo = [n \in Nat |-> IF n = 0 THEN 1 ELSE 2 * TwoTo[n - 1]]
  BY <1>4, Zenon DEF TwoTo
<1> DEFINE Fits == {n \in Nat : TwoTo[n] \in Nat}
<1>6. \A n \in Nat : TwoTo[n] = IF n = 0 THEN 1 ELSE 2 * TwoTo[n - 1]
  BY <1>5
<1>7. 0 \in Fits /\ \A n \in Nat : n \in Fits => n + 1 \in Fits
  BY <1>6
<1> HIDE DEF Fits
<1>8. \A n \in Nat : n \in Fits
  BY <1>7, Induction
<1>9. QED
  BY <1>5, <1>6, <1>8 DEF Fits

LEMMA TwoToGrows ==
  /\ TwoTo[0] = 1
  /\ \A n \in Nat : TwoTo[n] \in Nat \ {0} /\ TwoTo[n + 1] = 2 * TwoTo[n]
<1>1. \A n \in Nat : TwoTo[n] \in Nat /\ TwoTo[n] = IF n = 0 THEN 1 ELSE 2 * TwoTo[n - 1]
  BY TwoToIsDefined
<1> DEFINE Positive == {n \in Nat : TwoTo[n] > 0}
<1>2. 0 \in Positive /\ \A n \in Nat : n \in Positive => n + 1 \in Positive
  BY <1>1
<1> HIDE DEF Positive
<1>3. \A n \in Nat : n \in Positive
  BY <1>2, Induction
<1>4. QED
  BY <1>1, <1>3 DEF Positive

LEMMA TwoToMonotone ==
  ASSUME NEW m \in Nat, NEW n \in Nat, m < n
  PROVE  2 * TwoTo[m] <= TwoTo[n]
<1> DEFINE Above == {k \in Nat : 2 * TwoTo[m] <= TwoTo[m + k + 1]}
<1>1. 0 \in Above
  BY TwoToGrows
<1>2. ASSUME NEW k \in Nat, k \in Above
      PROVE  k + 1 \in Above
  <2>1. TwoTo[m + (k + 1) + 1] = 2 * TwoTo[m + k + 1] /\ TwoTo[m + k + 1] \in Nat
        /\ TwoTo[m] \in Nat
    <3>1. m + k + 1 \in Nat /\ (m + k + 1) + 1 = m + (k + 1) + 1
      OBVIOUS
    <3>2. QED
      BY <3>1, TwoToGrows
  <2>2. QED
    BY <1>2, <2>1
<1> HIDE DEF Above
<1>3. \A k \in Nat : k \in Above
  BY <1>1, <1>2, Induction
<1>4. n - m - 1 \in Above /\ m + (n - m - 1) + 1 = n
  BY <1>3
<1>5. QED
  BY <1>4 DEF Above

LEMMA TwoToInjective ==
  ASSUME NEW m \in Nat, NEW n \in Nat, TwoTo[m] = TwoTo[n]
  PROVE  m = n
<1>1. TwoTo[m] \in Nat \ {0} /\ TwoTo[n] \in Nat \ {0}
  BY TwoToGrows
<1>2. ~(m < n) /\ ~(n < m)
  BY <1>1, TwoToMonotone
<1>3. QED
  BY <1>2

LEMMA WidthIsDefined ==
  \A n \in Nat : WidthOf[n] = IF n <= 1 THEN 1 ELSE 2 * WidthOf[(n + 1) \div 2]
<1> DEFINE prev == [n \in Nat |-> (n + 1) \div 2]
           b    == 1
           two  == 2
<1>1. /\ b = 1 /\ two = 2 /\ prev \in [Nat -> Nat]
      /\ \A n \in Nat : n > b => prev[n] = (n + 1) \div 2 /\ prev[n] < n
  OBVIOUS
<1>2. b \in Nat /\ two \in Nat /\ \A n \in Nat : n > b => prev[n] < n
  OBVIOUS
<1> HIDE DEF prev, b, two
<1>3. PICK f \in [Nat -> Nat] : \A n \in Nat : f[n] = IF n <= b THEN 1 ELSE two * f[prev[n]]
  BY <1>1, <1>2, Multiples
<1>4. f = [n \in Nat |-> IF n <= 1 THEN 1 ELSE 2 * f[(n + 1) \div 2]]
  BY <1>1, <1>3
<1>5. WidthOf = [n \in Nat |-> IF n <= 1 THEN 1 ELSE 2 * WidthOf[(n + 1) \div 2]]
  BY <1>4, Zenon DEF WidthOf
<1>6. QED
  BY <1>5

(* The width is a power of two, there is room for the leaves, and more     *)
(* than one leaf needs more than one level.                                *)
LEMMA WidthIsPower ==
  ASSUME NEW n \in Nat
  PROVE  \E d \in Nat : WidthOf[n] = TwoTo[d] /\ n <= TwoTo[d] /\ (n > 1 => d > 0)
<1> DEFINE Has(k) == \E d \in Nat : WidthOf[k] = TwoTo[d] /\ k <= TwoTo[d] /\ (k > 1 => d > 0)
           Lacks == {k \in Nat : ~Has(k)}
<1> SUFFICES ASSUME Lacks # {} PROVE FALSE
  OBVIOUS
<1>1. PICK k \in Lacks : \A j \in Lacks : k <= j
  BY LeastElement
<1>2. CASE k <= 1
  BY <1>2, TwoToGrows, WidthIsDefined
<1>3. CASE k > 1
  <2> DEFINE j == (k + 1) \div 2
  <2>1. j \in Nat /\ j < k /\ k <= 2 * j
    BY <1>3
  <2> HIDE DEF j
  <2>2. j \notin Lacks
    BY <1>1, <2>1
  <2>3. PICK d \in Nat : WidthOf[j] = TwoTo[d] /\ j <= TwoTo[d]
    BY <2>1, <2>2
  <2>4. WidthOf[k] = 2 * WidthOf[j]
    BY <1>3, WidthIsDefined DEF j
  <2>5. TwoTo[d] \in Nat /\ TwoTo[d + 1] = 2 * TwoTo[d] /\ d + 1 \in Nat /\ d + 1 > 0
    BY TwoToGrows
  <2>6. WidthOf[k] = TwoTo[d + 1] /\ k <= TwoTo[d + 1]
    BY <2>1, <2>3, <2>4, <2>5
  <2>7. Has(k)
    BY <2>5, <2>6
  <2>8. QED
    BY <2>7
<1>4. QED
  BY <1>2, <1>3

(* The number of levels below the root of a tree. *)
Depth(count) == CHOOSE d \in Nat : WidthOf[count] = TwoTo[d]

LEMMA DepthFits ==
  ASSUME NEW n \in Nat
  PROVE  /\ Depth(n) \in Nat /\ WidthOf[n] = TwoTo[Depth(n)]
         /\ n <= TwoTo[Depth(n)] /\ (n > 1 => Depth(n) > 0)
<1>1. PICK d \in Nat : WidthOf[n] = TwoTo[d] /\ n <= TwoTo[d] /\ (n > 1 => d > 0)
  BY WidthIsPower
<1>2. Depth(n) \in Nat /\ WidthOf[n] = TwoTo[Depth(n)]
  BY <1>1, Zenon DEF Depth
<1>3. Depth(n) = d
  BY <1>1, <1>2, TwoToInjective
<1>4. QED
  BY <1>1, <1>3

-----------------------------------------------------------------------------
(* dense_merkle_tree: the array is what its definition says.               *)
NodeOf(tree, leaves, i) ==
  LET width == WidthOf[Len(leaves)] IN
  IF i >= width - 1 THEN LeafAt(leaves, i - (width - 1))
  ELSE Combine(tree[2 * i + 1], tree[2 * i + 2])

LEMMA TreeIsDefined ==
  ASSUME NEW leaves, Len(leaves) \in Nat
  PROVE  LET width == WidthOf[Len(leaves)] IN
         /\ width \in Nat \ {0}
         /\ DOMAIN DenseTree(leaves) = 0 .. 2 * width - 2
         /\ \A i \in 0 .. 2 * width - 2 : DenseTree(leaves)[i] = NodeOf(DenseTree(leaves), leaves, i)
<1> DEFINE width == WidthOf[Len(leaves)]
           last  == 2 * width - 2
           From(k, t) == t = [i \in last - k .. last |-> NodeOf(t, leaves, i)]
           Some == {k \in Nat : k <= last => \E t : From(k, t)}
<1>1. width \in Nat \ {0}
  BY DepthFits, TwoToGrows
<1> HIDE DEF width
<1>2. last \in Nat /\ last = 2 * width - 2
  BY <1>1
<1>3. \A s, t : \A i \in 0 .. last :
        (i < width - 1 => s[2 * i + 1] = t[2 * i + 1] /\ s[2 * i + 2] = t[2 * i + 2])
          => NodeOf(s, leaves, i) = NodeOf(t, leaves, i)
  BY <1>1 DEF NodeOf, width
<1> HIDE DEF last
<1>4. 0 \in Some
  <2> DEFINE leaf == LeafAt(leaves, last - (width - 1))
             t == [i \in last - 0 .. last |-> leaf]
  <2>1. \A i \in last - 0 .. last : i = last /\ i >= width - 1
    BY <1>1, <1>2
  <2>2. \A i \in last - 0 .. last : NodeOf(t, leaves, i) = leaf
    <3> HIDE DEF t
    <3>1. NodeOf(t, leaves, last) = leaf
      BY <1>1, <1>2 DEF NodeOf, width
    <3> HIDE DEF leaf
    <3>2. QED
      BY <2>1, <3>1
  <2> HIDE DEF leaf
  <2>3. From(0, t)
    BY <2>2
  <2>4. QED
    BY <2>3
<1>5. ASSUME NEW k \in Nat, k \in Some
      PROVE  k + 1 \in Some
  <2> SUFFICES ASSUME k + 1 <= last PROVE \E t : From(k + 1, t)
    OBVIOUS
  <2>1. PICK t : From(k, t)
    BY <1>5, <1>2
  <2> DEFINE below == last - (k + 1)
             u == [i \in below .. last |-> NodeOf(t, leaves, i)]
  <2>2. below \in Nat /\ below + 1 = last - k /\ below < last
    BY <1>2
  <2>3. \A i \in last - k .. last : u[i] = t[i]
    <3>1. \A i \in last - k .. last : t[i] = NodeOf(t, leaves, i)
      BY <2>1
    <3>2. \A i \in last - k .. last : i \in below .. last
      BY <2>2, <1>2
    <3>3. QED
      BY <3>1, <3>2
  <2> HIDE DEF u
  <2>4. \A i \in below .. last : NodeOf(u, leaves, i) = NodeOf(t, leaves, i)
    <3> SUFFICES ASSUME NEW i \in below .. last
                 PROVE  NodeOf(u, leaves, i) = NodeOf(t, leaves, i)
      OBVIOUS
    <3>1. i \in 0 .. last
      BY <2>2, <1>2
    <3>2. ASSUME i < width - 1
          PROVE  2 * i + 1 \in last - k .. last /\ 2 * i + 2 \in last - k .. last
      <4> HIDE DEF below
      <4>1. QED
        BY <1>1, <1>2, <2>2, <3>1, <3>2
    <3>3. QED
      BY <1>3, <2>3, <3>1, <3>2
  <2>5. u = [i \in below .. last |-> NodeOf(u, leaves, i)]
    BY <2>4 DEF u
  <2>6. QED
    BY <2>5
<1> HIDE DEF Some
<1>6. \A k \in Nat : k \in Some
  BY <1>4, <1>5, Induction
<1>7. \E t : t = [i \in 0 .. last |-> NodeOf(t, leaves, i)]
  <2>1. PICK t : From(last, t)
    BY <1>2, <1>6 DEF Some
  <2>2. last - last = 0
    BY <1>2
  <2>3. QED
    BY <2>1, <2>2
<1>8. \E t : t = [i \in 0 .. 2 * width - 2 |->
                   IF i >= width - 1 THEN LeafAt(leaves, i - (width - 1))
                   ELSE Combine(t[2 * i + 1], t[2 * i + 2])]
  BY <1>7, Zenon DEF NodeOf, width, last
<1> DEFINE tree == DenseTree(leaves)
<1>9. tree = [i \in 0 .. 2 * width - 2 |->
               IF i >= width - 1 THEN LeafAt(leaves, i - (width - 1))
               ELSE Combine(tree[2 * i + 1], tree[2 * i + 2])]
  BY <1>8, Zenon DEF DenseTree, width
<1> HIDE DEF tree
<1>10. /\ DOMAIN tree = 0 .. 2 * width - 2
       /\ \A i \in 0 .. 2 * width - 2 : tree[i] = NodeOf(tree, leaves, i)
  BY <1>9 DEF NodeOf, width
<1>11. QED
  BY <1>1, <1>10 DEF tree, width

-----------------------------------------------------------------------------
(* RootFrom: the array indices on the way up from a leaf, and the hash at  *)
(* each of them.                                                           *)
PathIndex(pos, depth) ==
  CHOOSE index : index = [n \in 0 .. depth |->
    IF n = 0 THEN TwoTo[depth] - 1 + pos ELSE Parent(index[n - 1])]

PathHash(leaf, pos, proof) ==
  CHOOSE hash : hash = [n \in 0 .. Len(proof) |->
    IF n = 0 THEN leaf
    ELSE Step(PathIndex(pos, Len(proof))[n - 1], hash[n - 1], proof[n])]

LEMMA PathIndexIsDefined ==
  ASSUME NEW pos, NEW depth \in Nat
  PROVE  /\ PathIndex(pos, depth)[0] = TwoTo[depth] - 1 + pos
         /\ \A n \in 1 .. depth : PathIndex(pos, depth)[n] = Parent(PathIndex(pos, depth)[n - 1])
<1> DEFINE start == TwoTo[depth] - 1 + pos
           Value(g, n) == IF n = 0 THEN start ELSE Parent(g[n - 1])
           Upto(k, g) == g = [n \in 0 .. k |-> Value(g, n)]
           Some == {k \in Nat : \E g : Upto(k, g)}
<1> HIDE DEF start
<1>1. 0 \in Some
  <2>1. Upto(0, [n \in 0 .. 0 |-> start])
    OBVIOUS
  <2>2. QED
    BY <2>1
<1>2. ASSUME NEW k \in Nat, k \in Some
      PROVE  k + 1 \in Some
  <2>1. PICK g : Upto(k, g)
    BY <1>2
  <2> HIDE DEF Value
  <2> DEFINE h == [n \in 0 .. k + 1 |-> Value(g, n)]
  <2>2. \A n \in 0 .. k : h[n] = g[n]
    BY <2>1
  <2> HIDE DEF h
  <2>3. \A n \in 0 .. k + 1 : Value(h, n) = Value(g, n)
    BY <2>2 DEF Value
  <2>4. Upto(k + 1, h)
    BY <2>3 DEF h
  <2>5. QED
    BY <2>4
<1> HIDE DEF Some
<1>3. \A k \in Nat : k \in Some
  BY <1>1, <1>2, Induction
<1>4. \E g : g = [n \in 0 .. depth |->
                   IF n = 0 THEN TwoTo[depth] - 1 + pos ELSE Parent(g[n - 1])]
  BY <1>3, Zenon DEF Some, start
<1> DEFINE index == PathIndex(pos, depth)
<1>5. index = [n \in 0 .. depth |-> IF n = 0 THEN start ELSE Parent(index[n - 1])]
  BY <1>4, Zenon DEF PathIndex, start
<1> HIDE DEF index
<1>6. index[0] = start /\ \A n \in 1 .. depth : index[n] = Parent(index[n - 1])
  BY <1>5
<1>7. QED
  BY <1>6 DEF index, start

LEMMA PathHashIsDefined ==
  ASSUME NEW leaf, NEW pos, NEW proof, Len(proof) \in Nat
  PROVE  /\ RootFrom(leaf, pos, proof) = PathHash(leaf, pos, proof)[Len(proof)]
         /\ PathHash(leaf, pos, proof)[0] = leaf
         /\ \A n \in 1 .. Len(proof) :
              PathHash(leaf, pos, proof)[n] =
                Step(PathIndex(pos, Len(proof))[n - 1], PathHash(leaf, pos, proof)[n - 1], proof[n])
<1> DEFINE index == PathIndex(pos, Len(proof))
           Value(g, n) == IF n = 0 THEN leaf ELSE Step(index[n - 1], g[n - 1], proof[n])
           Upto(k, g) == g = [n \in 0 .. k |-> Value(g, n)]
           Some == {k \in Nat : \E g : Upto(k, g)}
<1> HIDE DEF index
<1>1. 0 \in Some
  <2>1. Upto(0, [n \in 0 .. 0 |-> leaf])
    OBVIOUS
  <2>2. QED
    BY <2>1
<1>2. ASSUME NEW k \in Nat, k \in Some
      PROVE  k + 1 \in Some
  <2>1. PICK g : Upto(k, g)
    BY <1>2
  <2> HIDE DEF Value
  <2> DEFINE h == [n \in 0 .. k + 1 |-> Value(g, n)]
  <2>2. \A n \in 0 .. k : h[n] = g[n]
    BY <2>1
  <2> HIDE DEF h
  <2>3. \A n \in 0 .. k + 1 : Value(h, n) = Value(g, n)
    BY <2>2 DEF Value
  <2>4. Upto(k + 1, h)
    BY <2>3 DEF h
  <2>5. QED
    BY <2>4
<1> HIDE DEF Some
<1>3. \A k \in Nat : k \in Some
  BY <1>1, <1>2, Induction
<1>4. \E g : g = [n \in 0 .. Len(proof) |->
                   IF n = 0 THEN leaf ELSE Step(index[n - 1], g[n - 1], proof[n])]
  BY <1>3, Zenon DEF Some
<1> DEFINE hash == PathHash(leaf, pos, proof)
<1>5. hash = [n \in 0 .. Len(proof) |->
               IF n = 0 THEN leaf ELSE Step(index[n - 1], hash[n - 1], proof[n])]
  BY <1>4, Zenon DEF PathHash, index
<1> HIDE DEF hash
<1>6. hash[0] = leaf
      /\ \A n \in 1 .. Len(proof) : hash[n] = Step(index[n - 1], hash[n - 1], proof[n])
  BY <1>5
<1>7. RootFrom(leaf, pos, proof) = hash[Len(proof)]
  BY Zenon DEF RootFrom, PathIndex, PathHash, hash
<1>8. QED
  BY <1>6, <1>7 DEF hash, index

(* Along a path from a place that the levels have, the index is on the     *)
(* level above each time, and the path ends at the root.                   *)
LEMMA PathClimbs ==
  ASSUME NEW depth \in Nat, NEW pos \in Nat, pos < TwoTo[depth]
  PROVE  \A n \in 0 .. depth :
           /\ PathIndex(pos, depth)[n] \in Nat
           /\ TwoTo[depth - n] - 1 <= PathIndex(pos, depth)[n]
           /\ PathIndex(pos, depth)[n] <= 2 * TwoTo[depth - n] - 2
<1> DEFINE index == PathIndex(pos, depth)
           OnLevel(n) == /\ index[n] \in Nat
                         /\ TwoTo[depth - n] - 1 <= index[n]
                         /\ index[n] <= 2 * TwoTo[depth - n] - 2
           Good == {n \in Nat : n <= depth => OnLevel(n)}
<1>1. index[0] = TwoTo[depth] - 1 + pos /\ \A n \in 1 .. depth : index[n] = Parent(index[n - 1])
  BY PathIndexIsDefined
<1> HIDE DEF index
<1>2. 0 \in Good
  BY <1>1, TwoToGrows
<1>3. ASSUME NEW n \in Nat, n \in Good
      PROVE  n + 1 \in Good
  <2> SUFFICES ASSUME n + 1 <= depth PROVE OnLevel(n + 1)
    OBVIOUS
  <2> DEFINE l == depth - (n + 1)
             t == TwoTo[l]
             i == index[n]
             j == index[n + 1]
  <2>1. l \in Nat /\ depth - n = l + 1
    OBVIOUS
  <2>2. t \in Nat \ {0} /\ TwoTo[depth - n] = 2 * t
    BY <2>1, TwoToGrows
  <2>3. i \in Nat /\ 2 * t - 1 <= i /\ i <= 2 * (2 * t) - 2
    BY <1>3, <2>2
  <2>4. j = (i - 1) \div 2
    <3>1. n + 1 \in 1 .. depth /\ (n + 1) - 1 = n
      OBVIOUS
    <3>2. QED
      BY <1>1, <3>1 DEF Parent
  <2> HIDE DEF t, i, j
  <2>5. j \in Nat /\ t - 1 <= j /\ j <= 2 * t - 2
    BY <2>2, <2>3, <2>4
  <2>6. QED
    BY <2>5 DEF t, j
<1> HIDE DEF Good
<1>4. \A n \in Nat : n \in Good
  BY <1>2, <1>3, Induction
<1>5. QED
  BY <1>4 DEF Good, index

-----------------------------------------------------------------------------
(* Nobody finds a second preimage of an inner node.                        *)
LEMMA CombineInjective ==
  ASSUME NEW a, NEW b, NEW x, NEW y, Combine(a, b) = Combine(x, y)
  PROVE  a = x /\ b = y
BY DEF Combine

(* An index is the left or the right child of its parent.                  *)
LEMMA ChildOfParent ==
  ASSUME NEW c \in Nat, c > 0
  PROVE  /\ Parent(c) \in Nat
         /\ c % 2 = 1 => c = 2 * Parent(c) + 1
         /\ c % 2 # 1 => c = 2 * Parent(c) + 2
BY DEF Parent

(* From equal roots down, level by level, the hashes on the path of a      *)
(* proof are those of the tree.                                            *)
LEMMA PathDescends ==
  ASSUME NEW leaves, Len(leaves) \in Nat, NEW leaf, NEW proof, Len(proof) \in Nat,
         NEW pos \in Nat, pos < TwoTo[Len(proof)],
         RootFrom(leaf, pos, proof) = DenseRoot(leaves)
  PROVE  \A m \in 0 .. Len(proof) : m <= Depth(Len(leaves)) =>
           PathHash(leaf, pos, proof)[Len(proof) - m]
             = DenseTree(leaves)[PathIndex(pos, Len(proof))[Len(proof) - m]]
<1> DEFINE top   == Len(proof)
           d     == Depth(Len(leaves))
           width == WidthOf[Len(leaves)]
           index == PathIndex(pos, top)
           hash  == PathHash(leaf, pos, proof)
           tree  == DenseTree(leaves)
           Good  == {m \in Nat : m <= top /\ m <= d => hash[top - m] = tree[index[top - m]]}
<1>1. top \in Nat /\ d \in Nat /\ width = TwoTo[d]
  BY DepthFits
<1>2. \A i \in 0 .. 2 * width - 2 :
        i < width - 1 => tree[i] = Combine(tree[2 * i + 1], tree[2 * i + 2])
  BY TreeIsDefined DEF NodeOf
<1>3. \A n \in 0 .. top : /\ index[n] \in Nat
                          /\ TwoTo[top - n] - 1 <= index[n]
                          /\ index[n] <= 2 * TwoTo[top - n] - 2
  BY PathClimbs
<1>4. \A n \in 1 .. top : index[n] = Parent(index[n - 1])
  BY PathIndexIsDefined
<1>5. hash[top] = tree[0]
  BY PathHashIsDefined DEF DenseRoot
<1>6. \A n \in 1 .. top : hash[n] = Step(index[n - 1], hash[n - 1], proof[n])
  BY PathHashIsDefined
<1> HIDE DEF top, d, width, index, hash, tree
<1>7. 0 \in Good
  <2>1. top \in 0 .. top /\ top - top = 0 /\ TwoTo[0] = 1 /\ top - 0 = top
    BY <1>1, TwoToGrows
  <2>2. index[top] = 0
    BY <2>1, <1>3
  <2>3. QED
    BY <2>1, <2>2, <1>5
<1>8. ASSUME NEW m \in Nat, m \in Good
      PROVE  m + 1 \in Good
  <2> SUFFICES ASSUME m + 1 <= top, m + 1 <= d
               PROVE  hash[top - (m + 1)] = tree[index[top - (m + 1)]]
    OBVIOUS
  <2> DEFINE n == top - m
             i == index[n]
             c == index[n - 1]
             t == TwoTo[m]
  <2>1. n \in 1 .. top /\ n - 1 \in 0 .. top /\ top - n = m /\ top - (n - 1) = m + 1
        /\ top - (m + 1) = n - 1
    BY <1>1
  <2>2. hash[n] = tree[i]
    BY <1>1, <1>8
  <2>3. t \in Nat \ {0} /\ TwoTo[m + 1] = 2 * t /\ 2 * t <= width
    <3>1. m < d
      BY <1>1
    <3>2. 2 * TwoTo[m] <= TwoTo[d]
      BY <1>1, <3>1, TwoToMonotone
    <3>3. QED
      BY <1>1, <3>2, TwoToGrows
  <2>4. i \in Nat /\ i <= 2 * t - 2 /\ c \in Nat /\ 2 * t - 1 <= c
    <3>1. n \in 0 .. top
      BY <2>1
    <3>2. i \in Nat /\ i <= 2 * TwoTo[m] - 2
      BY <1>3, <2>1, <3>1
    <3>3. c \in Nat /\ TwoTo[m + 1] - 1 <= c
      BY <1>3, <2>1
    <3>4. QED
      BY <2>3, <3>2, <3>3
  <2>5. width \in Nat
    BY <1>1, TwoToGrows
  <2>6. i = Parent(c)
    BY <1>4, <2>1
  <2>7. hash[n] = Step(c, hash[n - 1], proof[n])
    BY <1>6, <2>1
  <2> HIDE DEF n, i, c, t
  <2>8. tree[i] = Combine(tree[2 * i + 1], tree[2 * i + 2])
    BY <1>2, <2>3, <2>4, <2>5
  <2>9. c > 0
    BY <2>3, <2>4
  <2>10. hash[n - 1] = tree[c]
    <3>1. CASE c % 2 = 1
      <4>1. Combine(hash[n - 1], proof[n]) = Combine(tree[2 * i + 1], tree[2 * i + 2])
        BY <3>1, <2>2, <2>7, <2>8 DEF Step
      <4>2. c = 2 * i + 1
        BY <3>1, <2>4, <2>6, <2>9, ChildOfParent
      <4>3. QED
        BY <4>1, <4>2, CombineInjective
    <3>2. CASE c % 2 # 1
      <4>1. Combine(proof[n], hash[n - 1]) = Combine(tree[2 * i + 1], tree[2 * i + 2])
        BY <3>2, <2>2, <2>7, <2>8 DEF Step
      <4>2. c = 2 * i + 2
        BY <3>2, <2>4, <2>6, <2>9, ChildOfParent
      <4>3. QED
        BY <4>1, <4>2, CombineInjective
    <3>3. QED
      BY <3>1, <3>2
  <2>11. QED
    BY <2>1, <2>10 DEF c
<1> HIDE DEF Good
<1>9. \A m \in Nat : m \in Good
  BY <1>7, <1>8, Induction
<1>10. QED
  BY <1>9 DEF Good, top, d, index, hash, tree

IsNode(h) == \E a, b : h = Combine(a, b)

(* The array of a tree: inner nodes, then the leaves.                      *)
LEMMA TreeLayout ==
  ASSUME NEW leaves, Len(leaves) \in Nat
  PROVE  LET width == TwoTo[Depth(Len(leaves))]
             tree  == DenseTree(leaves) IN
         /\ width \in Nat \ {0} /\ DOMAIN tree = 0 .. 2 * width - 2
         /\ \A i \in Nat : i < width - 1 => tree[i] = Combine(tree[2 * i + 1], tree[2 * i + 2])
         /\ \A pos \in Nat : pos < width => tree[width - 1 + pos] = LeafAt(leaves, pos)
<1> DEFINE width == WidthOf[Len(leaves)]
           tree  == DenseTree(leaves)
<1>1. /\ width = TwoTo[Depth(Len(leaves))] /\ width \in Nat \ {0}
      /\ DOMAIN tree = 0 .. 2 * width - 2
      /\ \A i \in 0 .. 2 * width - 2 : tree[i] = NodeOf(tree, leaves, i)
  BY DepthFits, TreeIsDefined
<1> HIDE DEF width, tree
<1>2. ASSUME NEW i \in Nat, i < width - 1
      PROVE  tree[i] = Combine(tree[2 * i + 1], tree[2 * i + 2])
  BY <1>1, <1>2 DEF NodeOf, width
<1>3. ASSUME NEW pos \in Nat, pos < width
      PROVE  tree[width - 1 + pos] = LeafAt(leaves, pos)
  <2> DEFINE i == width - 1 + pos
  <2>1. i \in 0 .. 2 * width - 2 /\ i >= width - 1 /\ i - (width - 1) = pos
    BY <1>1, <1>3
  <2> HIDE DEF i
  <2>2. tree[i] = LeafAt(leaves, i - (width - 1))
    BY <1>1, <2>1 DEF NodeOf, width
  <2>3. QED
    BY <2>1, <2>2 DEF i
<1>4. QED
  BY <1>1, <1>2, <1>3 DEF width, tree

(* dense_merkle_verify: with as many siblings as the tree has levels, what *)
(* leads to the root at a position is the leaf there.                      *)
LEMMA ProofIsSound ==
  ASSUME NEW leaves, Len(leaves) \in Nat, NEW leaf, NEW proof,
         Len(proof) = Depth(Len(leaves)), NEW pos \in Nat, pos < TwoTo[Len(proof)],
         RootFrom(leaf, pos, proof) = DenseRoot(leaves)
  PROVE  leaf = LeafAt(leaves, pos)
<1> DEFINE d == Len(proof)
<1>1. d \in Nat /\ d \in 0 .. d /\ d - d = 0
  BY DepthFits
<1>2. PathHash(leaf, pos, proof)[0] = DenseTree(leaves)[PathIndex(pos, d)[0]]
  BY <1>1, PathDescends
<1>3. PathHash(leaf, pos, proof)[0] = leaf
  BY <1>1, PathHashIsDefined
<1>4. PathIndex(pos, d)[0] = TwoTo[d] - 1 + pos
  BY <1>1, PathIndexIsDefined
<1>5. DenseTree(leaves)[TwoTo[d] - 1 + pos] = LeafAt(leaves, pos)
  BY TreeLayout
<1>6. QED
  BY <1>2, <1>3, <1>4, <1>5

(* Between leaves, and from a leaf, the number of siblings is not free: a  *)
(* shorter or longer path ends at an inner node.                           *)
LEMMA ProofHasDepth ==
  ASSUME NEW leaves, Len(leaves) \in Nat, NEW leaf, NEW proof, Len(proof) \in Nat,
         NEW pos \in Nat, pos < TwoTo[Len(proof)],
         RootFrom(leaf, pos, proof) = DenseRoot(leaves),
         ~IsNode(leaf), \A i \in Nat : ~IsNode(LeafAt(leaves, i))
  PROVE  Len(proof) = Depth(Len(leaves))
<1> DEFINE top   == Len(proof)
           d     == Depth(Len(leaves))
           width == TwoTo[d]
           index == PathIndex(pos, top)
           hash  == PathHash(leaf, pos, proof)
           tree  == DenseTree(leaves)
<1>1. top \in Nat /\ d \in Nat
  BY DepthFits
<1>2. \A m \in 0 .. top : m <= d => hash[top - m] = tree[index[top - m]]
  BY PathDescends
<1>3. \A n \in 0 .. top : /\ index[n] \in Nat
                          /\ TwoTo[top - n] - 1 <= index[n]
                          /\ index[n] <= 2 * TwoTo[top - n] - 2
  BY PathClimbs
<1>4. hash[0] = leaf
  BY PathHashIsDefined
<1>5. \A n \in 1 .. top : hash[n] = Step(index[n - 1], hash[n - 1], proof[n])
  BY PathHashIsDefined
<1>6. /\ width \in Nat \ {0}
      /\ \A i \in Nat : i < width - 1 => tree[i] = Combine(tree[2 * i + 1], tree[2 * i + 2])
      /\ \A p \in Nat : p < width => tree[width - 1 + p] = LeafAt(leaves, p)
  BY TreeLayout
<1>7. ~(top < d)
  <2> SUFFICES ASSUME top < d PROVE FALSE
    OBVIOUS
  <2>1. 2 * TwoTo[top] <= width /\ TwoTo[top] \in Nat
    BY <1>1, TwoToMonotone, TwoToGrows
  <2> HIDE DEF top, d, width, index, hash, tree
  <2>2. top - top = 0 /\ top - 0 = top /\ top \in 0 .. top /\ 0 \in 0 .. top /\ top <= d
    BY <1>1
  <2>3. leaf = tree[index[0]]
    BY <1>2, <1>4, <2>2
  <2>4. index[0] \in Nat /\ index[0] <= 2 * TwoTo[top] - 2
    BY <1>3, <2>2
  <2>5. index[0] < width - 1
    BY <1>6, <2>1, <2>4
  <2>6. IsNode(tree[index[0]])
    <3> DEFINE i == index[0]
    <3>1. tree[i] = Combine(tree[2 * i + 1], tree[2 * i + 2])
      BY <1>6, <2>4, <2>5
    <3>2. QED
      BY <3>1, Zenon DEF IsNode
  <2>7. QED
    BY <2>3, <2>6
<1>8. ~(d < top)
  <2> SUFFICES ASSUME d < top PROVE FALSE
    OBVIOUS
  <2> HIDE DEF top, d, index, hash, tree
  <2> DEFINE n == top - d
             p == index[n] - (width - 1)
  <2>1. n \in 1 .. top /\ top - n = d /\ d \in 0 .. top /\ d <= d /\ n \in 0 .. top
    BY <1>1
  <2>2. hash[n] = tree[index[n]]
    BY <1>2, <2>1
  <2>3. index[n] \in Nat /\ width - 1 <= index[n] /\ index[n] <= 2 * width - 2
    BY <1>3, <2>1
  <2>4. p \in Nat /\ p < width /\ width - 1 + p = index[n]
    BY <1>6, <2>3
  <2>5. tree[index[n]] = LeafAt(leaves, p)
    <3> HIDE DEF p, width
    <3>1. tree[width - 1 + p] = LeafAt(leaves, p)
      BY <1>6, <2>4
    <3>2. QED
      BY <2>4, <3>1
  <2>6. hash[n] = Step(index[n - 1], hash[n - 1], proof[n])
    BY <1>5, <2>1
  <2>7. IsNode(Step(index[n - 1], hash[n - 1], proof[n]))
    BY DEF IsNode, Step
  <2>8. ~IsNode(LeafAt(leaves, p))
    BY <2>4
  <2>9. QED
    BY <2>2, <2>5, <2>6, <2>7, <2>8
<1>9. QED
  BY <1>1, <1>7, <1>8

(* A path with siblings ends at an inner node, and one without at its leaf.*)
LEMMA RootKind ==
  ASSUME NEW leaf, NEW pos, NEW proof, Len(proof) \in Nat
  PROVE  /\ Len(proof) > 0 => IsNode(RootFrom(leaf, pos, proof))
         /\ Len(proof) = 0 => RootFrom(leaf, pos, proof) = leaf
<1>1. CASE Len(proof) = 0
  BY <1>1, PathHashIsDefined
<1>2. CASE Len(proof) > 0
  <2> DEFINE top   == Len(proof)
             index == PathIndex(pos, top)
             hash  == PathHash(leaf, pos, proof)
  <2>1. top \in 1 .. top
    BY <1>2
  <2>2. RootFrom(leaf, pos, proof) = Step(index[top - 1], hash[top - 1], proof[top])
    BY <2>1, PathHashIsDefined
  <2>3. IsNode(Step(index[top - 1], hash[top - 1], proof[top]))
    BY DEF IsNode, Step
  <2>4. QED
    BY <1>2, <2>2, <2>3
<1>3. QED
  BY <1>1, <1>2

LEMMA DenseRootKind ==
  ASSUME NEW leaves, Len(leaves) \in Nat, Len(leaves) > 1
  PROVE  IsNode(DenseRoot(leaves))
<1>1. Depth(Len(leaves)) \in Nat /\ Depth(Len(leaves)) > 0 /\ TwoTo[0] = 1
  BY DepthFits, TwoToGrows
<1>2. 2 * TwoTo[0] <= TwoTo[Depth(Len(leaves))] /\ TwoTo[Depth(Len(leaves))] \in Nat
  BY <1>1, TwoToMonotone, TwoToGrows
<1>3. 0 < TwoTo[Depth(Len(leaves))] - 1
  BY <1>1, <1>2
<1> DEFINE tree == DenseTree(leaves)
<1>4. tree[0] = Combine(tree[2 * 0 + 1], tree[2 * 0 + 2])
  BY <1>3, TreeLayout
<1>5. QED
  BY <1>4, Zenon DEF IsNode, DenseRoot

-----------------------------------------------------------------------------
(* dense_merkle_proof: the siblings, from each place of the tree up.       *)
SiblingsUp(leaves) ==
  CHOOSE up : up = [i \in DOMAIN DenseTree(leaves) |->
    IF i = 0 THEN <<>> ELSE <<DenseTree(leaves)[Sibling(i)]>> \o up[Parent(i)]]

LEMMA SiblingsAreDefined ==
  ASSUME NEW leaves, Len(leaves) \in Nat
  PROVE  LET up == SiblingsUp(leaves)  tree == DenseTree(leaves) IN
         /\ \A pos \in Nat : DenseProof(leaves, pos) = up[WidthOf[Len(leaves)] - 1 + pos]
         /\ \A i \in 0 .. 2 * WidthOf[Len(leaves)] - 2 :
              up[i] = IF i = 0 THEN <<>> ELSE <<tree[Sibling(i)]>> \o up[Parent(i)]
<1> DEFINE tree  == DenseTree(leaves)
           width == WidthOf[Len(leaves)]
           last  == 2 * width - 2
           Value(g, i) == IF i = 0 THEN <<>> ELSE <<tree[Sibling(i)]>> \o g[Parent(i)]
           Upto(k, g) == g = [i \in 0 .. k |-> Value(g, i)]
           Some == {k \in Nat : \E g : Upto(k, g)}
<1>0. width \in Nat \ {0} /\ DOMAIN tree = 0 .. last
  BY TreeIsDefined
<1> HIDE DEF tree, width
<1>00. last \in Nat
  BY <1>0
<1>1. 0 \in Some
  <2>1. Upto(0, [i \in 0 .. 0 |-> <<>>])
    OBVIOUS
  <2>2. QED
    BY <2>1
<1>2. ASSUME NEW k \in Nat, k \in Some
      PROVE  k + 1 \in Some
  <2>1. PICK g : Upto(k, g)
    BY <1>2
  <2> DEFINE h == [i \in 0 .. k + 1 |-> Value(g, i)]
  <2>2. \A i \in 0 .. k : h[i] = g[i]
    <3> HIDE DEF Value
    <3>1. QED
      BY <2>1
  <2> HIDE DEF h
  <2>3. \A i \in 0 .. k + 1 : Value(h, i) = Value(g, i)
    <3>1. \A i \in 0 .. k + 1 : i # 0 => Parent(i) \in 0 .. k
      BY DEF Parent
    <3>2. QED
      BY <2>2, <3>1
  <2> HIDE DEF Value
  <2>4. Upto(k + 1, h)
    BY <2>3 DEF h
  <2>5. QED
    BY <2>4
<1> HIDE DEF Some
<1>3. \A k \in Nat : k \in Some
  BY <1>1, <1>2, Induction
<1>4. \E g : g = [i \in DOMAIN tree |->
                   IF i = 0 THEN <<>> ELSE <<tree[Sibling(i)]>> \o g[Parent(i)]]
  <2>1. \E g : g = [i \in 0 .. last |->
                   IF i = 0 THEN <<>> ELSE <<tree[Sibling(i)]>> \o g[Parent(i)]]
    BY <1>00, <1>3, Zenon DEF Some
  <2>2. QED
    BY <1>0, <2>1, Zenon
<1> DEFINE up == SiblingsUp(leaves)
<1>5. up = [i \in DOMAIN tree |->
             IF i = 0 THEN <<>> ELSE <<tree[Sibling(i)]>> \o up[Parent(i)]]
  BY <1>4, Zenon DEF SiblingsUp, tree
<1> HIDE DEF up
<1>6. \A i \in 0 .. last :
        up[i] = IF i = 0 THEN <<>> ELSE <<tree[Sibling(i)]>> \o up[Parent(i)]
  BY <1>0, <1>5
<1>7. \A pos \in Nat : DenseProof(leaves, pos) = up[width - 1 + pos]
  BY Zenon DEF DenseProof, SiblingsUp, up, width
<1>8. QED
  BY <1>6, <1>7 DEF up, tree, width

Nodes(leaves) == {DenseTree(leaves)[i] : i \in DOMAIN DenseTree(leaves)}

(* From the place of a leaf there is a sibling on every level, and the     *)
(* siblings from the n-th level on are those of the place reached there.   *)
LEMMA ProofCollectsSiblings ==
  ASSUME NEW leaves, Len(leaves) \in Nat,
         NEW pos \in Nat, pos < TwoTo[Depth(Len(leaves))]
  PROVE  LET d     == Depth(Len(leaves))
             proof == DenseProof(leaves, pos) IN
         /\ proof \in Seq(Nodes(leaves)) /\ Len(proof) = d
         /\ \A n \in 1 .. d : proof[n] = DenseTree(leaves)[Sibling(PathIndex(pos, d)[n - 1])]
<1> DEFINE d     == Depth(Len(leaves))
           tree  == DenseTree(leaves)
           width == TwoTo[d]
           last  == 2 * width - 2
           index == PathIndex(pos, d)
           up    == SiblingsUp(leaves)
           S     == Nodes(leaves)
           proof == DenseProof(leaves, pos)
<1>1. d \in Nat /\ width = WidthOf[Len(leaves)]
  BY DepthFits
<1>2. width \in Nat \ {0} /\ DOMAIN tree = 0 .. last
  BY TreeLayout
<1>3. /\ index[0] = width - 1 + pos
      /\ \A n \in 1 .. d : index[n] = Parent(index[n - 1])
  BY <1>1, PathIndexIsDefined
<1>4. \A n \in 0 .. d : /\ index[n] \in Nat
                        /\ TwoTo[d - n] - 1 <= index[n]
                        /\ index[n] <= 2 * TwoTo[d - n] - 2
  BY <1>1, PathClimbs
<1>5. /\ proof = up[width - 1 + pos]
      /\ \A i \in 0 .. last : up[i] = IF i = 0 THEN <<>> ELSE <<tree[Sibling(i)]>> \o up[Parent(i)]
  BY <1>1, SiblingsAreDefined
<1>6. \A i \in 0 .. last : tree[i] \in S
  BY <1>2 DEF Nodes
<1> HIDE DEF d, tree, width, index, up, S, proof
<1>7. \A n \in 0 .. d : index[n] \in 0 .. last
  <2> SUFFICES ASSUME NEW n \in 0 .. d PROVE index[n] \in 0 .. last
    OBVIOUS
  <2>1. TwoTo[d - n] <= width
    <3>1. CASE n = 0
      <4>1. d - n = d
        BY <1>1, <3>1
      <4>2. QED
        BY <1>2, <4>1 DEF width
    <3>2. CASE n > 0
      <4>1. d - n \in Nat /\ d - n < d
        BY <1>1, <3>2
      <4>2. 2 * TwoTo[d - n] <= TwoTo[d] /\ TwoTo[d - n] \in Nat
        BY <1>1, <4>1, TwoToMonotone, TwoToGrows
      <4>3. QED
        BY <4>2, <1>2 DEF width
    <3>3. QED
      BY <3>1, <3>2
  <2>2. TwoTo[d - n] \in Nat
    <3>1. d - n \in Nat
      BY <1>1
    <3>2. QED
      BY <3>1, TwoToGrows
  <2>3. QED
    BY <1>2, <1>4, <2>1, <2>2
(* A place of level m, counted from the root, has m siblings above it, the *)
(* first its own.                                                          *)
<1> DEFINE Above(m) == /\ up[index[d - m]] \in Seq(S) /\ Len(up[index[d - m]]) = m
                       /\ \A j \in 1 .. m :
                            up[index[d - m]][j] = tree[Sibling(index[d - m + j - 1])]
           Good == {m \in Nat : m <= d => Above(m)}
<1>8. 0 \in Good
  <2>1. d - 0 = d /\ d \in 0 .. d /\ d - d = 0 /\ TwoTo[0] = 1
    BY <1>1, TwoToGrows
  <2>2. index[d] = 0
    BY <2>1, <1>4
  <2>3. up[0] = <<>>
    BY <1>2, <1>5
  <2>4. up[index[d - 0]] = <<>>
    BY <2>1, <2>2, <2>3
  <2>5. <<>> \in Seq(S) /\ Len(<<>>) = 0
    OBVIOUS
  <2> HIDE DEF last
  <2>6. Above(0)
    BY <2>4, <2>5
  <2>7. QED
    BY <2>6
<1>9. ASSUME NEW m \in Nat, m \in Good
      PROVE  m + 1 \in Good
  <2> SUFFICES ASSUME m + 1 <= d PROVE Above(m + 1)
    OBVIOUS
  <2> DEFINE n == d - (m + 1)
             i == index[n]
             above == up[index[n + 1]]
             own == tree[Sibling(i)]
  <2>1. n \in 0 .. d /\ n + 1 \in 1 .. d /\ (n + 1) - 1 = n /\ d - n = m + 1 /\ d - m = n + 1
    BY <1>1
  <2>2. above \in Seq(S) /\ Len(above) = m
        /\ \A j \in 1 .. m : above[j] = tree[Sibling(index[n + 1 + j - 1])]
    <3>1. m <= d
      BY <1>1
    <3>2. Above(m)
      BY <1>9, <3>1
    <3>3. QED
      BY <2>1, <3>2
  <2>3. TwoTo[m + 1] = 2 * TwoTo[m] /\ TwoTo[m] \in Nat \ {0}
    BY TwoToGrows
  <2>4. i \in 0 .. last /\ i >= 1
    BY <1>4, <1>7, <2>1, <2>3
  <2>5. index[n + 1] = Parent(i)
    BY <1>3, <2>1
  <2>6. Sibling(i) \in 0 .. last
    BY <1>2, <2>4 DEF Sibling
  <2>7. own \in S
    BY <1>6, <2>6
  <2>8. up[i] = <<own>> \o above
    <3>1. i # 0
      BY <2>4
    <3>2. up[i] = <<tree[Sibling(i)]>> \o up[Parent(i)]
      BY <1>5, <2>4, <3>1
    <3>3. QED
      BY <2>5, <3>2
  <2>9. <<own>> \in Seq(S) /\ Len(<<own>>) = 1 /\ <<own>>[1] = own
    BY <2>7
  <2> HIDE DEF own, above, i
  <2>10. /\ up[i] \in Seq(S) /\ Len(up[i]) = 1 + m
         /\ \A j \in 1 .. 1 + m : up[i][j] = IF j <= 1 THEN <<own>>[j] ELSE above[j - 1]
    BY <2>2, <2>8, <2>9, ConcatProperties
  <2>11. ASSUME NEW j \in 1 .. m + 1
         PROVE  up[i][j] = tree[Sibling(index[n + j - 1])]
    <3>1. CASE j = 1
      <4>1. up[i][1] = own /\ n + 1 - 1 = n
        BY <2>1, <2>9, <2>10
      <4>2. QED
        BY <3>1, <4>1 DEF own, i
    <3>2. CASE j > 1
      <4>1. j - 1 \in 1 .. m /\ n + 1 + (j - 1) - 1 = n + j - 1
        BY <2>1, <3>2
      <4>2. up[i][j] = above[j - 1]
        BY <2>10, <3>2
      <4>3. QED
        BY <2>2, <4>1, <4>2
    <3>3. QED
      BY <3>1, <3>2
  <2>12. QED
    BY <2>10, <2>11 DEF i
<1> HIDE DEF Good
<1>10. Above(d)
  <2>1. \A m \in Nat : m \in Good
    BY <1>8, <1>9, Induction
  <2>2. d \in Good /\ d <= d
    BY <1>1, <2>1
  <2>3. QED
    BY <2>2 DEF Good
<1>11. d - d = 0 /\ \A j \in 1 .. d : d - d + j - 1 = j - 1
  BY <1>1
<1>12. up[index[0]] = proof
  BY <1>3, <1>5
<1>13. QED
  BY <1>10, <1>11, <1>12 DEF d, index, tree, S, proof

(* dense_merkle_proof and dense_merkle_verify agree: the siblings of a     *)
(* position lead from the leaf there to the root.                          *)
LEMMA ProofLeadsToRoot ==
  ASSUME NEW leaves, Len(leaves) \in Nat,
         NEW pos \in Nat, pos < TwoTo[Depth(Len(leaves))]
  PROVE  RootFrom(LeafAt(leaves, pos), pos, DenseProof(leaves, pos)) = DenseRoot(leaves)
<1> DEFINE d     == Depth(Len(leaves))
           tree  == DenseTree(leaves)
           width == TwoTo[d]
           index == PathIndex(pos, d)
           proof == DenseProof(leaves, pos)
           leaf  == LeafAt(leaves, pos)
           hash  == PathHash(leaf, pos, proof)
           Good  == {n \in Nat : n <= d => hash[n] = tree[index[n]]}
<1>1. d \in Nat
  BY DepthFits
<1>2. /\ width \in Nat \ {0}
      /\ \A i \in Nat : i < width - 1 => tree[i] = Combine(tree[2 * i + 1], tree[2 * i + 2])
      /\ tree[width - 1 + pos] = leaf
  BY TreeLayout
<1>3. Len(proof) = d /\ \A n \in 1 .. d : proof[n] = tree[Sibling(index[n - 1])]
  BY ProofCollectsSiblings
<1>4. /\ index[0] = width - 1 + pos
      /\ \A n \in 1 .. d : index[n] = Parent(index[n - 1])
  BY <1>1, PathIndexIsDefined
<1>5. \A n \in 0 .. d : /\ index[n] \in Nat
                        /\ TwoTo[d - n] - 1 <= index[n]
                        /\ index[n] <= 2 * TwoTo[d - n] - 2
  BY <1>1, PathClimbs
<1>6. /\ RootFrom(leaf, pos, proof) = hash[d] /\ hash[0] = leaf
      /\ \A n \in 1 .. d : hash[n] = Step(index[n - 1], hash[n - 1], proof[n])
  BY <1>1, <1>3, PathHashIsDefined
<1> HIDE DEF d, tree, width, index, proof, leaf, hash
<1>7. 0 \in Good
  BY <1>2, <1>4, <1>6
<1>8. ASSUME NEW n \in Nat, n \in Good
      PROVE  n + 1 \in Good
  <2> SUFFICES ASSUME n + 1 <= d PROVE hash[n + 1] = tree[index[n + 1]]
    OBVIOUS
  <2> DEFINE c == index[n]
             i == index[n + 1]
             l == d - (n + 1)
             t == TwoTo[l]
  <2>1. /\ n \in 0 .. d /\ n + 1 \in 1 .. d /\ n + 1 \in 0 .. d /\ (n + 1) - 1 = n
        /\ l \in Nat /\ d - n = l + 1
    BY <1>1
  <2>2. hash[n] = tree[c]
    BY <1>8, <2>1
  <2>3. t \in Nat \ {0} /\ TwoTo[d - n] = 2 * t
    BY <2>1, TwoToGrows
  <2>4. c \in Nat /\ 2 * t - 1 <= c
    BY <1>5, <2>1, <2>3
  <2>5. i \in Nat /\ i <= 2 * t - 2
    <3>1. index[n + 1] \in Nat /\ index[n + 1] <= 2 * TwoTo[d - (n + 1)] - 2
      BY <1>5, <2>1
    <3>2. QED
      BY <3>1
  <2>6. i = Parent(c) /\ hash[n + 1] = Step(c, hash[n], proof[n + 1])
        /\ proof[n + 1] = tree[Sibling(c)]
    BY <1>3, <1>4, <1>6, <2>1
  <2>7. 2 * t <= width
    <3>1. l < d
      BY <1>1, <2>1
    <3>2. 2 * TwoTo[l] <= TwoTo[d]
      BY <1>1, <2>1, <3>1, TwoToMonotone
    <3>3. QED
      BY <3>2 DEF width
  <2> HIDE DEF c, i, t
  <2>8. tree[i] = Combine(tree[2 * i + 1], tree[2 * i + 2])
    BY <1>2, <2>3, <2>5, <2>7
  <2>9. c > 0
    BY <2>3, <2>4
  <2>10. Step(c, tree[c], tree[Sibling(c)]) = tree[i]
    <3>1. CASE c % 2 = 1
      <4>1. c = 2 * i + 1 /\ Sibling(c) = 2 * i + 2
        <5>1. c = 2 * i + 1
          BY <3>1, <2>4, <2>6, <2>9, ChildOfParent
        <5>2. Sibling(c) = c + 1
          BY <3>1 DEF Sibling
        <5>3. QED
          BY <5>1, <5>2, <2>5
      <4>2. Step(c, tree[c], tree[Sibling(c)]) = Combine(tree[c], tree[Sibling(c)])
        BY <3>1 DEF Step
      <4>3. QED
        BY <4>1, <4>2, <2>8
    <3>2. CASE c % 2 # 1
      <4>1. c = 2 * i + 2 /\ Sibling(c) = 2 * i + 1
        <5>1. c = 2 * i + 2
          BY <3>2, <2>4, <2>6, <2>9, ChildOfParent
        <5>2. Sibling(c) = c - 1
          BY <3>2 DEF Sibling
        <5>3. QED
          BY <5>1, <5>2, <2>5
      <4>2. Step(c, tree[c], tree[Sibling(c)]) = Combine(tree[Sibling(c)], tree[c])
        BY <3>2 DEF Step
      <4>3. QED
        BY <4>1, <4>2, <2>8
    <3>3. QED
      BY <3>1, <3>2
  <2>11. QED
    BY <2>2, <2>6, <2>10 DEF i
<1> HIDE DEF Good
<1>9. hash[d] = tree[index[d]]
  <2>1. \A n \in Nat : n \in Good
    BY <1>7, <1>8, Induction
  <2>2. QED
    BY <1>1, <2>1 DEF Good
<1>10. index[d] = 0
  <2>1. d \in 0 .. d /\ d - d = 0 /\ TwoTo[0] = 1
    BY <1>1, TwoToGrows
  <2>2. QED
    BY <1>5, <2>1
<1>11. QED
  BY <1>6, <1>9, <1>10 DEF DenseRoot, tree, leaf, proof

=============================================================================
