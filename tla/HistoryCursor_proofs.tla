------------------------ MODULE HistoryCursor_proofs ------------------------
(***************************************************************************)
(* Proofs about the history cursor, for every window size W > 1, every     *)
(* number of layers and every height limit.                                *)
(***************************************************************************)
EXTENDS HistoryCursor, DenseMerkle_proofs

-----------------------------------------------------------------------------
(* What a push returns, preserves and bounds. *)
LEMMA PushFacts ==
  ASSUME NEW S, NEW b \in Seq(S), NEW v \in S, Len(b) <= W
  PROVE  /\ Push(b, v) \in Seq(S)
         /\ Len(Push(b, v)) = (IF Len(b) = W THEN 1 ELSE Len(b) + 1)
         /\ Push(b, v)[Len(Push(b, v))] = v
         /\ \A i \in 1 .. Len(Push(b, v)) - 1 : Push(b, v)[i] = b[i]
BY WindowAssumption DEF Push

LEMMA PowFacts ==
  /\ \A n \in Layers : Pow[n] \in Nat \ {0} /\ Pow[n + 1] = W * Pow[n]
  /\ \A n \in Layers : Pow[n + 1] \in Nat \ {0}
BY PowAssumption, LayerAssumption DEF Layers

LEMMA ChainTypeInit == ChainInit => ChainTypeOK
BY MaxHeadAssumption, WindowAssumption, U64Assumption DEF ChainInit, ChainTypeOK

LEMMA ChainTypeStep == ChainTypeOK /\ [ProduceBlock]_chainVars => ChainTypeOK'
<1> DEFINE S == {"root"} \X Layers \X (1 .. MaxHead)
<1> SUFFICES ASSUME ChainTypeOK, [ProduceBlock]_chainVars PROVE ChainTypeOK'
  OBVIOUS
<1>1. CASE UNCHANGED chainVars
  BY <1>1 DEF chainVars, ChainTypeOK
<1>2. CASE ProduceBlock
  <2> DEFINE pub == PublishedLayers(head + 1)
  <2>1. head \in Nat /\ head + 1 \in 1 .. MaxHead /\ head' = head + 1
    BY <1>2, MaxHeadAssumption DEF ProduceBlock, ChainTypeOK
  <2>2. cursor' = [n \in Layers |-> IF n \in pub THEN Push(cursor[n], Root(n, head + 1))
                                    ELSE cursor[n]]
    BY <1>2 DEF ProduceBlock
  <2>3. ASSUME NEW n \in Layers
        PROVE  cursor'[n] \in Seq(S) /\ Len(cursor'[n]) <= W
    <3>1. Root(n, head + 1) \in S
      BY <2>1 DEF Root
    <3>2. cursor[n] \in Seq(S) /\ Len(cursor[n]) <= W
      BY DEF ChainTypeOK
    <3>3. /\ Push(cursor[n], Root(n, head + 1)) \in Seq(S)
          /\ Len(Push(cursor[n], Root(n, head + 1))) <= W
      <4> HIDE DEF S
      <4> DEFINE value == Root(n, head + 1)
                 pushed == Push(cursor[n], value)
      <4>1. Len(cursor[n]) \in Nat
        BY <3>2
      <4> HIDE DEF value
      <4>2. pushed \in Seq(S) /\ Len(pushed) = (IF Len(cursor[n]) = W THEN 1 ELSE Len(cursor[n]) + 1)
        <5>1. value \in S
          BY <3>1 DEF value
        <5>2. \A b \in Seq(S), v \in S :
                Len(b) <= W => /\ Push(b, v) \in Seq(S)
                               /\ Len(Push(b, v)) = (IF Len(b) = W THEN 1 ELSE Len(b) + 1)
          BY PushFacts
        <5>3. QED
          BY <3>2, <5>1, <5>2, Zenon
      <4> HIDE DEF pushed
      <4>3. Len(pushed) <= W
        BY <3>2, <4>1, <4>2, WindowAssumption
      <4>4. QED
        BY <4>2, <4>3 DEF pushed, value
    <3>4. QED
      BY <2>2, <3>2, <3>3
  <2>4. QED
    BY <2>1, <2>2, <2>3 DEF ChainTypeOK
<1>3. QED
  BY <1>1, <1>2

(* The cursor always holds at most W roots of its own layer, each from a   *)
(* block that exists.                                                      *)
THEOREM ChainTypeCorrect == ChainSpec => []ChainTypeOK
BY ChainTypeInit, ChainTypeStep, PTL DEF ChainSpec

-----------------------------------------------------------------------------
(* The closed form of the cursor is inductive. *)

LEMMA CursorInit == ChainInit => CursorInv
<1> SUFFICES ASSUME ChainInit, NEW n \in Layers
             PROVE  HoldsRun(cursor[n], n, head \div Pow[n])
  BY DEF CursorInv
<1>1. Len(cursor[n]) = 0 /\ head = 0
  BY DEF ChainInit
<1>2. Pow[n] \in Nat \ {0}
  BY PowFacts
<1>3. 0 \div Pow[n] = 0 /\ 0 % W = 0
  BY <1>2, DivUnique, WindowAssumption
<1>4. QED
  BY <1>1, <1>3 DEF HoldsRun

(* Pushing the next root keeps the run, whether or not it clears it. *)
LEMMA PushExtendsRun ==
  ASSUME NEW S, NEW b \in Seq(S), Len(b) <= W, NEW n \in Layers, NEW k \in Nat,
         Root(n, (k + 1) * Pow[n]) \in S, HoldsRun(b, n, k)
  PROVE  HoldsRun(Push(b, Root(n, (k + 1) * Pow[n])), n, k + 1)
<1> DEFINE v == Root(n, (k + 1) * Pow[n])
           c == Push(b, v)
<1>1. /\ Len(c) = (IF Len(b) = W THEN 1 ELSE Len(b) + 1)
      /\ c[Len(c)] = v
      /\ \A i \in 1 .. Len(c) - 1 : c[i] = b[i]
  <2>1. v \in S
    OBVIOUS
  <2> HIDE DEF v
  <2>2. QED
    BY <2>1, PushFacts
<1>2. /\ k - Len(b) \in Nat /\ (k - Len(b)) % W = 0
      /\ \A i \in 1 .. Len(b) : b[i] = Root(n, (k - Len(b) + i) * Pow[n])
  BY DEF HoldsRun
<1>3. Len(b) \in Nat
  OBVIOUS
<1> HIDE DEF c
<1>4. CASE Len(b) = W
  <2>1. Len(c) = 1 /\ k + 1 - Len(c) = k /\ k = (k - Len(b)) + W
    BY <1>1, <1>3, <1>4, WindowAssumption
  <2>2. k % W = 0
    <3> DEFINE x == k - Len(b)
    <3>1. x \in Nat /\ x % W = 0 /\ k = x + W
      BY <1>2, <2>1
    <3>2. W \in Nat \ {0}
      BY WindowAssumption
    <3> HIDE DEF x
    <3>3. (x + W) % W = 0
      BY <3>1, <3>2, ModAdd
    <3>4. QED
      BY <3>1, <3>3
  <2>3. c[1] = Root(n, (k + 1) * Pow[n])
    BY <1>1, <2>1
  <2>4. HoldsRun(c, n, k + 1)
    BY <2>1, <2>2, <2>3 DEF HoldsRun
  <2>5. QED
    BY <2>4 DEF c
<1>5. CASE Len(b) # W
  <2>1. Len(c) = Len(b) + 1 /\ k + 1 - Len(c) = k - Len(b)
    BY <1>1, <1>3, <1>5
  <2>2. ASSUME NEW i \in 1 .. Len(c)
        PROVE  c[i] = Root(n, (k + 1 - Len(c) + i) * Pow[n])
    <3>1. CASE i = Len(c)
      <4>1. k + 1 - Len(c) + i = k + 1
        BY <1>3, <2>1, <3>1
      <4>2. QED
        BY <1>1, <3>1, <4>1
    <3>2. CASE i # Len(c)
      <4>1. i \in 1 .. Len(c) - 1 /\ i \in 1 .. Len(b)
        BY <1>3, <2>1, <3>2
      <4>2. QED
        BY <1>1, <1>2, <2>1, <4>1
    <3>3. QED
      BY <3>1, <3>2
  <2>3. HoldsRun(c, n, k + 1)
    BY <1>2, <1>3, <2>1, <2>2 DEF HoldsRun
  <2>4. QED
    BY <2>3 DEF c
<1>6. QED
  BY <1>4, <1>5

LEMMA CursorStep == ChainTypeOK /\ CursorInv /\ [ProduceBlock]_chainVars => CursorInv'
<1> SUFFICES ASSUME ChainTypeOK, CursorInv, [ProduceBlock]_chainVars PROVE CursorInv'
  OBVIOUS
<1>1. CASE UNCHANGED chainVars
  BY <1>1 DEF chainVars, CursorInv
<1>2. CASE ProduceBlock
  <2> SUFFICES ASSUME NEW n \in Layers
               PROVE  HoldsRun(cursor'[n], n, head' \div Pow[n])
    BY DEF CursorInv
  <2>1. head \in Nat /\ head + 1 \in 1 .. MaxHead /\ head' = head + 1
    BY <1>2, MaxHeadAssumption DEF ProduceBlock, ChainTypeOK
  <2>2. Pow[n] \in Nat \ {0} /\ head \div Pow[n] \in Nat
    BY <2>1, PowFacts, DivBounds
  <2>3. HoldsRun(cursor[n], n, head \div Pow[n])
    BY DEF CursorInv
  <2>4. CASE (head + 1) % Pow[n] = 0
    <3>1. cursor'[n] = Push(cursor[n], Root(n, head + 1))
      BY <1>2, <2>1, <2>4 DEF ProduceBlock, PublishedLayers
    <3>2. (head + 1) \div Pow[n] = (head \div Pow[n]) + 1
      BY <2>1, <2>2, <2>4, DivSucc
    <3>3. head + 1 = ((head + 1) \div Pow[n]) * Pow[n]
      <4> DEFINE h == head + 1
      <4>1. h \in Nat /\ h % Pow[n] = 0
        BY <2>1, <2>4
      <4> HIDE DEF h
      <4>2. h = (h \div Pow[n]) * Pow[n]
        BY <2>2, <4>1, DivExact
      <4>3. QED
        BY <4>2 DEF h
    <3>4. /\ cursor[n] \in Seq({"root"} \X Layers \X (1 .. MaxHead))
          /\ Len(cursor[n]) <= W
      BY DEF ChainTypeOK
    <3>5. Root(n, head + 1) \in {"root"} \X Layers \X (1 .. MaxHead)
      BY <2>1 DEF Root
    <3>6. HoldsRun(Push(cursor[n], Root(n, ((head \div Pow[n]) + 1) * Pow[n])), n,
                   (head \div Pow[n]) + 1)
      BY <2>2, <2>3, <3>2, <3>3, <3>4, <3>5, PushExtendsRun
    <3>7. QED
      BY <2>1, <3>1, <3>2, <3>3, <3>6
  <2>5. CASE (head + 1) % Pow[n] # 0
    <3>1. cursor'[n] = cursor[n]
      BY <1>2, <2>1, <2>5 DEF ProduceBlock, PublishedLayers
    <3>2. head' \div Pow[n] = head \div Pow[n]
      BY <2>1, <2>2, <2>5, DivSucc
    <3>3. QED
      BY <2>3, <3>1, <3>2
  <2>6. QED
    BY <2>4, <2>5
<1>3. QED
  BY <1>1, <1>2

(* At every head the cursor of a layer is exactly the run of roots pushed  *)
(* since the layer was last cleared.                                       *)
THEOREM CursorInvariant == ChainSpec => [](ChainTypeOK /\ CursorInv)
BY ChainTypeInit, ChainTypeStep, CursorInit, CursorStep, PTL DEF ChainSpec

-----------------------------------------------------------------------------
(* A root is accepted exactly in [T_n, E_n). *)

(* T_n and E_n without the case distinctions on overflow. *)
LEMMA HeightFacts ==
  ASSUME NEW h \in Nat, NEW n \in 1 .. MaxAnchorLayer,
         NEW T, T = (h \div Pow[n]) * Pow[n] + Pow[n],
         NEW N, N = (h \div Pow[n + 1]) * Pow[n + 1] + Pow[n + 1]
  PROVE  /\ T \in Nat /\ N \in Nat /\ Pow[n] <= T /\ Pow[n + 1] <= N
         /\ AnchorBlockHeight(h, n) = IF T <= U64Max THEN T ELSE None
         /\ AnchorBlockHeight(h, n + 1) = IF N <= U64Max THEN N ELSE None
         /\ AnchorExpiryHeight(h, n) = IF N + Pow[n] <= U64Max THEN N + Pow[n] ELSE None
<1>1. Pow[n] \in Nat \ {0} /\ Pow[n + 1] \in Nat \ {0} /\ Pow[n + 1] = W * Pow[n]
  BY PowFacts, LayerAssumption DEF Layers
<1> DEFINE s == Pow[n]
           u == Pow[n + 1]
           a == (h \div s) * s
           b == (h \div u) * u
<1>2. a \in Nat /\ b \in Nat
  <2>1. h \div s \in Nat /\ h \div u \in Nat /\ s \in Nat /\ u \in Nat
    BY <1>1, DivBounds
  <2>2. QED
    BY <2>1
<1>3. T = a + s /\ N = b + u
  OBVIOUS
<1>4. W \in Nat \ {0} /\ s \in Nat \ {0} /\ u = W * s
  BY <1>1, WindowAssumption
<1>5. u \in Nat \ {0} /\ s <= u
  <2>1. ASSUME NEW x \in Nat \ {0}, NEW y \in Nat \ {0} PROVE x <= y * x
    OBVIOUS
  <2>2. QED
    BY <1>1, <1>4, <2>1
<1>6. T \in Nat /\ N \in Nat /\ s <= T /\ u <= N
  BY <1>2, <1>3, <1>4, <1>5
<1>7. /\ AnchorBlockHeight(h, n) = (IF Checked(s) = None THEN None ELSE Checked(T))
      /\ AnchorBlockHeight(h, n + 1) = (IF Checked(u) = None THEN None ELSE Checked(N))
  BY DEF AnchorBlockHeight, Stride
<1>8. AnchorExpiryHeight(h, n) =
        IF None \in {AnchorBlockHeight(h, n + 1), Checked(s)} THEN None
        ELSE Checked(AnchorBlockHeight(h, n + 1) + s)
  BY DEF AnchorExpiryHeight, Stride
<1> HIDE DEF s, u, a, b
<1>9. AnchorBlockHeight(h, n) = IF T <= U64Max THEN T ELSE None
  BY <1>4, <1>6, <1>7, U64Assumption, OptionAssumption DEF Checked
<1>10. AnchorBlockHeight(h, n + 1) = IF N <= U64Max THEN N ELSE None
  BY <1>5, <1>6, <1>7, U64Assumption, OptionAssumption DEF Checked
<1>11. AnchorExpiryHeight(h, n) = IF N + s <= U64Max THEN N + s ELSE None
  <2>1. CASE N <= U64Max /\ s <= U64Max
    BY <1>4, <1>6, <1>8, <1>10, <2>1, U64Assumption, OptionAssumption DEF Checked
  <2>2. CASE ~(N <= U64Max /\ s <= U64Max)
    <3>1. ~(N + s <= U64Max)
      BY <1>4, <1>6, <2>2, U64Assumption
    <3>2. AnchorExpiryHeight(h, n) = None
      BY <1>4, <1>6, <1>8, <1>10, <2>2, U64Assumption, OptionAssumption DEF Checked
    <3>3. QED
      BY <3>1, <3>2
  <2>3. QED
    BY <2>1, <2>2
<1>12. QED
  BY <1>6, <1>9, <1>10, <1>11 DEF s, u

(* The heart of the window: of k roots pushed, those since the last        *)
(* multiple of w are held; root j + 1 is one of them exactly when it has   *)
(* been pushed and its own group of w roots is the last begun.             *)
LEMMA RunMembership ==
  ASSUME NEW k \in Nat, NEW j \in Nat, NEW w \in Nat \ {0}, NEW len \in 0 .. w,
         k - len \in Nat, (k - len) % w = 0, len = 0 => k = 0
  PROVE  (k - len <= j /\ j < k) <=> (j + 1 <= k /\ k <= (j \div w) * w + w)
<1> DEFINE q == (k - len) \div w
           g == j \div w
<1>1. q \in Nat /\ k - len = q * w
  BY DivBounds, DivExact
<1>2. g \in Nat /\ g * w <= j /\ j < g * w + w
  BY DivBounds
<1> HIDE DEF q, g
<1>3. ASSUME NEW x \in Int, NEW y \in Int, x * w < y * w + w PROVE x * w <= y * w
  BY <1>3, RoundDown
<1>4. ASSUME k - len <= j, j < k PROVE k <= g * w + w
  <2>1. q * w <= g * w
    BY <1>1, <1>2, <1>3, <1>4
  <2>2. q * w \in Int /\ g * w \in Int
    BY <1>1, <1>2
  <2>3. QED
    BY <1>1, <2>1, <2>2
<1>5. ASSUME j + 1 <= k, k <= g * w + w PROVE k - len <= j
  <2>1. q * w \in Int /\ g * w \in Int
    BY <1>1, <1>2
  <2>2. q * w < g * w + w
    BY <1>1, <1>5, <2>1
  <2>3. q * w <= g * w
    BY <1>1, <1>2, <1>3, <2>2
  <2>4. QED
    BY <1>1, <1>2, <2>1, <2>3
<1>6. QED
  BY <1>4, <1>5 DEF g

(* Whether the root published at (j + 1) W^n is in the cursor, by counts.  *)
LEMMA HeldByCount ==
  ASSUME ChainTypeOK, CursorInv, NEW n \in Layers, NEW j \in Nat
  PROVE  LET k   == head \div Pow[n]
             len == Len(cursor[n])
         IN  Held(n, Root(n, (j + 1) * Pow[n])) <=> (k - len <= j /\ j < k)
<1> DEFINE k   == head \div Pow[n]
           len == Len(cursor[n])
<1>1. Pow[n] \in Nat \ {0} /\ head \in Nat /\ len \in Nat
  BY PowFacts, MaxHeadAssumption DEF ChainTypeOK
<1>2. k \in Nat
  BY <1>1, DivBounds
<1>3. k - len \in Nat /\ \A i \in 1 .. len : cursor[n][i] = Root(n, (k - len + i) * Pow[n])
  BY DEF CursorInv, HoldsRun
<1> HIDE DEF k
<1>4. ASSUME NEW i \in 1 .. len
      PROVE  cursor[n][i] = Root(n, (j + 1) * Pow[n]) <=> k - len + i = j + 1
  <2>1. cursor[n][i] = Root(n, (j + 1) * Pow[n])
          <=> (k - len + i) * Pow[n] = (j + 1) * Pow[n]
    BY <1>3 DEF Root
  <2>2. k - len + i \in Int /\ j + 1 \in Int
    BY <1>1, <1>2
  <2> DEFINE x == k - len + i
             y == j + 1
  <2> HIDE DEF x, y
  <2>3. x * Pow[n] = y * Pow[n] <=> x = y
    BY <1>1, <2>2, CancelEq DEF x, y
  <2>4. QED
    BY <2>1, <2>3 DEF x, y
<1>5. Held(n, Root(n, (j + 1) * Pow[n])) <=> \E i \in 1 .. len : k - len + i = j + 1
  BY <1>4 DEF Held
<1>6. (\E i \in 1 .. len : k - len + i = j + 1) <=> (k - len <= j /\ j < k)
  <2> HIDE DEF len
  <2>1. ASSUME k - len <= j, j < k PROVE \E i \in 1 .. len : k - len + i = j + 1
    <3>1. j + 1 - (k - len) \in 1 .. len /\ k - len + (j + 1 - (k - len)) = j + 1
      BY <1>1, <1>2, <1>3, <2>1
    <3>2. QED
      BY <3>1
  <2>2. ASSUME NEW i \in 1 .. len, k - len + i = j + 1 PROVE k - len <= j /\ j < k
    BY <1>1, <1>2, <1>3, <2>2
  <2>3. QED
    BY <2>1, <2>2
<1>7. QED
  BY <1>5, <1>6 DEF k

LEMMA WindowLemma == ChainTypeOK /\ CursorInv => AcceptedExactlyInWindow
<1> SUFFICES ASSUME ChainTypeOK, CursorInv, NEW h \in 0 .. head, NEW n \in 1 .. MaxAnchorLayer
             PROVE  LET t == AnchorBlockHeight(h, n)
                        e == AnchorExpiryHeight(h, n)
                    IN  IF t = None THEN ~\E i \in 1 .. Len(cursor[n]) : cursor[n][i][3] > h
                        ELSE Held(n, Root(n, t)) <=> (t <= head /\ (e = None \/ head < e))
  BY DEF AcceptedExactlyInWindow
<1> DEFINE s   == Pow[n]
           j   == h \div s
           T   == j * s + s
           N   == (h \div Pow[n + 1]) * Pow[n + 1] + Pow[n + 1]
           k   == head \div s
           len == Len(cursor[n])
           m   == (j \div W) * W + W
<1>1. n \in Layers /\ s \in Nat \ {0} /\ Pow[n + 1] = W * s /\ W \in Nat \ {0}
  BY PowFacts, LayerAssumption, WindowAssumption DEF Layers
<1>2. head \in Nat /\ head <= U64Max /\ h \in Nat /\ h <= head
  BY MaxHeadAssumption, U64Assumption DEF ChainTypeOK
<1>3. /\ T \in Nat /\ N \in Nat
      /\ AnchorBlockHeight(h, n) = IF T <= U64Max THEN T ELSE None
      /\ AnchorExpiryHeight(h, n) = IF N + s <= U64Max THEN N + s ELSE None
  BY <1>2, HeightFacts
<1>4. /\ j \in Nat /\ j * s \in Nat /\ j * s <= h
      /\ k \in Nat /\ k * s \in Nat /\ k * s <= head /\ head < k * s + s
  <2>1. /\ j \in Nat /\ j * s <= h
        /\ k \in Nat /\ k * s <= head /\ head < k * s + s
    BY <1>1, <1>2, DivBounds
  <2> HIDE DEF j, k, s
  <2>2. QED
    BY <1>1, <2>1
<1>5. m \in Nat /\ N = m * s
  <2>1. h \div Pow[n + 1] = j \div W
    BY <1>1, <1>2, DivDiv
  <2>2. j \div W \in Nat
    BY <1>1, <1>4, DivBounds
  <2>3. N = (j \div W) * (W * s) + W * s
    BY <1>1, <2>1
  <2> DEFINE g == j \div W
  <2> HIDE DEF s, N, g
  <2>4. ASSUME NEW x \in Nat, NEW y \in Nat, NEW z \in Nat
        PROVE  x * y + y \in Nat /\ x * (y * z) + y * z = (x * y + y) * z
    OBVIOUS
  <2>5. QED
    BY <1>1, <2>2, <2>3, <2>4 DEF g
<1>6. Held(n, Root(n, (j + 1) * s)) <=> (k - len <= j /\ j < k)
  <2> HIDE DEF j
  <2>1. QED
    BY <1>1, <1>4, HeldByCount
<1>7. T = (j + 1) * s
  <2> HIDE DEF j, s
  <2>1. QED
    BY <1>1, <1>4
<1>8. T <= head <=> j + 1 <= k
  <2>1. ASSUME NEW x \in Int, NEW y \in Int, NEW z \in Int, y * s <= z, z < y * s + s
        PROVE  x * s <= z <=> x <= y
    <3> HIDE DEF s
    <3>1. s \in Nat \ {0}
      BY <1>1
    <3>2. QED
      BY <2>1, <3>1, MultipleBelow
  <2>2. j + 1 \in Int /\ k \in Int /\ head \in Int
    BY <1>2, <1>4
  <2> HIDE DEF j, k, s, T
  <2>3. QED
    BY <1>4, <1>7, <2>1, <2>2
<1>9. head < N + s <=> k <= m
  <2>1. s \in Nat \ {0} /\ k \in Int /\ m + 1 \in Int /\ m \in Int /\ head \in Int
    BY <1>1, <1>2, <1>4, <1>5
  <2> HIDE DEF j, k, s, m, N
  <2>2. N + s = (m + 1) * s
    BY <1>5, <2>1
  <2>3. (m + 1) * s <= head <=> m + 1 <= k
    BY <1>4, <2>1, MultipleBelow
  <2>4. QED
    BY <1>5, <2>1, <2>2, <2>3
<1>10. (k - len <= j /\ j < k) <=> (j + 1 <= k /\ k <= m)
  <2>1. len \in 0 .. W /\ k - len \in Nat /\ (k - len) % W = 0 /\ (len = 0 => k = 0)
    BY <1>1 DEF ChainTypeOK, CursorInv, HoldsRun
  <2> HIDE DEF j, k, len
  <2>2. QED
    BY <1>1, <1>4, <2>1, RunMembership
<1>11. CASE T <= U64Max
  <2>1. AnchorBlockHeight(h, n) = T /\ T # None
    BY <1>3, <1>11, OptionAssumption
  <2>2. (AnchorExpiryHeight(h, n) = None \/ head < AnchorExpiryHeight(h, n)) <=> k <= m
    <3>1. CASE N + s <= U64Max
      <4> HIDE DEF N, s, k, m
      <4>1. N + s \in Nat
        BY <1>1, <1>3
      <4>2. QED
        BY <1>3, <1>9, <3>1, <4>1, OptionAssumption
    <3>2. CASE ~(N + s <= U64Max)
      <4> HIDE DEF N, s, k, m
      <4>1. head < N + s
        BY <1>1, <1>2, <1>3, <3>2, U64Assumption
      <4>2. QED
        BY <1>3, <1>9, <3>2, <4>1
    <3>3. QED
      BY <3>1, <3>2
  <2> HIDE DEF T, s, k, m, j, len, N
  <2>3. QED
    BY <1>6, <1>7, <1>8, <1>10, <2>1, <2>2
<1>12. CASE ~(T <= U64Max)
  <2>1. AnchorBlockHeight(h, n) = None
    BY <1>3, <1>12
  <2>2. k <= j
    <3> HIDE DEF T, j, k, s
    <3>1. QED
      BY <1>2, <1>3, <1>4, <1>8, <1>12, U64Assumption
  <2>3. ASSUME NEW i \in 1 .. len PROVE ~(cursor[n][i][3] > h)
    <3>1. cursor[n][i][3] = (k - len + i) * s
      BY <1>1 DEF CursorInv, HoldsRun, Root
    <3>2. k - len \in Nat /\ len \in Nat
      BY <1>1 DEF ChainTypeOK, CursorInv, HoldsRun
    <3> DEFINE x == k - len + i
    <3>3. x \in Nat /\ x <= j
      <4> HIDE DEF k, len, j
      <4>1. QED
        BY <1>4, <2>2, <3>2
    <3> HIDE DEF x, j, k, len, s
    <3>4. x * s <= j * s
      BY <1>1, <1>4, <3>3, ScaleLeq
    <3>5. x * s \in Nat
      BY <1>1, <3>3
    <3>6. QED
      BY <1>2, <1>4, <3>1, <3>4, <3>5 DEF x
  <2>4. QED
    BY <2>1, <2>3
<1>13. QED
  BY <1>11, <1>12

(* anchor.rs, lines 7-13, for every window, layer and integer width: the   *)
(* chain accepts the layer-n root over a block exactly while T_n <= head   *)
(* < E_n.                                                                  *)
THEOREM AcceptanceWindow == ChainSpec => []AcceptedExactlyInWindow
BY CursorInvariant, WindowLemma, PTL

-----------------------------------------------------------------------------
(* How long a root stays usable. *)

LEMMA SpanLemma == ChainTypeOK => UsableSpan
<1> SUFFICES ASSUME ChainTypeOK, NEW h \in 0 .. head, NEW n \in 1 .. MaxAnchorLayer,
                    AnchorExpiryHeight(h, n) # None
             PROVE  /\ AnchorExpiryHeight(h, n) - AnchorBlockHeight(h, n) \in Pow[n] .. Pow[n + 1]
                    /\ AnchorBlockHeight(h, n + 1) \in
                         AnchorBlockHeight(h, n) .. AnchorExpiryHeight(h, n) - Pow[n]
  BY DEF UsableSpan
<1> DEFINE s == Pow[n]
           j == h \div s
           m == (j \div W) * W + W
           T == j * s + s
           N == (h \div Pow[n + 1]) * Pow[n + 1] + Pow[n + 1]
<1>1. n \in Layers /\ s \in Nat \ {0} /\ Pow[n + 1] = W * s /\ W \in Nat \ {0} /\ h \in Nat
  BY PowFacts, LayerAssumption, WindowAssumption DEF Layers
<1>2. /\ T \in Nat /\ N \in Nat
      /\ AnchorBlockHeight(h, n) = IF T <= U64Max THEN T ELSE None
      /\ AnchorBlockHeight(h, n + 1) = IF N <= U64Max THEN N ELSE None
      /\ AnchorExpiryHeight(h, n) = IF N + s <= U64Max THEN N + s ELSE None
  BY <1>1, HeightFacts
<1>3. j \in Nat
  BY <1>1, DivBounds
<1>4. j \div W \in Nat /\ (j \div W) * W <= j /\ j < m
  BY <1>1, <1>3, DivBounds
<1>5. m \in Nat /\ j + 1 <= m /\ m <= j + W
  <2> DEFINE g == j \div W
  <2>1. g * W \in Nat
    BY <1>1, <1>4
  <2> HIDE DEF g, j
  <2>2. QED
    BY <1>1, <1>3, <1>4, <2>1 DEF g
<1>6. N = m * s
  <2>1. N = (j \div W) * (W * s) + W * s
    BY <1>1, DivDiv
  <2>2. ASSUME NEW x \in Nat, NEW y \in Nat, NEW z \in Nat
        PROVE  x * (y * z) + y * z = (x * y + y) * z
    OBVIOUS
  <2> DEFINE g == j \div W
  <2> HIDE DEF N, g, s
  <2>3. QED
    BY <1>1, <1>4, <2>1, <2>2 DEF g
<1> HIDE DEF j, m, T, N, s
<1>7. T = (j + 1) * s
  BY <1>1, <1>3 DEF T
<1>8. T <= N /\ N + s - T <= W * s
  <2>1. (j + 1) * s <= m * s
    BY <1>1, <1>3, <1>5, ScaleLeq
  <2>2. m * s <= (j + W) * s
    BY <1>1, <1>3, <1>5, ScaleLeq
  <2>3. (j + W) * s = j * s + W * s /\ j * s \in Int /\ W * s \in Int
    BY <1>1, <1>3
  <2>4. QED
    BY <1>1, <1>2, <1>6, <1>7, <2>1, <2>2, <2>3 DEF T
<1>9. /\ AnchorExpiryHeight(h, n) = N + s
      /\ AnchorBlockHeight(h, n + 1) = N
      /\ AnchorBlockHeight(h, n) = T
  <2>1. N + s <= U64Max /\ AnchorExpiryHeight(h, n) = N + s
    BY <1>2
  <2>2. N <= U64Max /\ T <= U64Max
    <3>1. s \in Nat /\ N \in Nat /\ T \in Nat /\ T <= N
      BY <1>1, <1>2, <1>8
    <3>2. QED
      BY <2>1, <3>1, U64Assumption
  <2>3. QED
    BY <1>2, <2>1, <2>2
<1>10. N + s - T \in s .. Pow[n + 1] /\ N \in T .. N + s - s
  BY <1>1, <1>2, <1>8
<1>11. ASSUME NEW e \in Int, NEW t \in Int, NEW u \in Int, e = N + s, t = T, u = N
       PROVE  e - t \in s .. Pow[n + 1] /\ u \in t .. e - s
  BY <1>1, <1>2, <1>10, <1>11
<1>12. N + s \in Int /\ T \in Int /\ N \in Int
  BY <1>1, <1>2
<1>13. QED
  BY <1>9, <1>11, <1>12 DEF s

(* anchor.rs, lines 15-16: a layer-n root is usable for W^n to W^(n+1)     *)
(* blocks, and the next layer's root is published before it expires.       *)
THEOREM UsableSpans == ChainSpec => []UsableSpan
BY ChainTypeCorrect, SpanLemma, PTL

-----------------------------------------------------------------------------
(* Every published tree in closed form.                                    *)

(* The last layer-n root published below a height, or zero. *)
LastBelow(n, height) ==
  LET pushed == (height - 1) \div Pow[n]
  IN  IF n \in Layers /\ pushed # 0 THEN Root(n, pushed * Pow[n]) ELSE ZeroHash

DataLeaves(n, height) ==
  [i \in 1 .. W |-> IF n = 1 THEN BlockLeaf(height - W + i - 1)
                    ELSE Root(n - 1, height - Pow[n] + i * Pow[n - 1])]

TreeInv ==
  /\ DOMAIN tree = {t \in Layers \X (1 .. head) : t[2] % Pow[t[1]] = 0}
  /\ \A n \in Layers, height \in 1 .. head : height % Pow[n] = 0 =>
       tree[<<n, height>>]
         = <<LastBelow(n + 1, height), LastBelow(n, height)>> \o DataLeaves(n, height)

LEMMA TreeInit == ChainInit => TreeInv
BY DEF ChainInit, TreeInv

(* The last root in a cursor is the last one published. *)
LEMMA LatestIsLast ==
  ASSUME ChainTypeOK, CursorInv, NEW n
  PROVE  Latest(n) = LastBelow(n, head + 1)
<1>1. CASE n \notin Layers
  BY <1>1 DEF Latest, LastBelow
<1>2. CASE n \in Layers
  <2> DEFINE pushed == head \div Pow[n]
             len    == Len(cursor[n])
  <2>1. /\ head \in Nat /\ head + 1 - 1 = head /\ Pow[n] \in Nat \ {0}
        /\ cursor[n] \in Seq({"root"} \X Layers \X (1 .. MaxHead))
    BY <1>2, PowFacts, MaxHeadAssumption DEF ChainTypeOK
  <2>2. pushed \in Nat /\ len \in Nat
    BY <2>1, DivBounds
  <2>3. /\ len = 0 => pushed = 0
        /\ pushed - len \in Nat
        /\ \A i \in 1 .. len : cursor[n][i] = Root(n, (pushed - len + i) * Pow[n])
    BY <1>2 DEF CursorInv, HoldsRun
  <2>4. /\ Latest(n) = IF cursor[n] # <<>> THEN cursor[n][len] ELSE ZeroHash
        /\ LastBelow(n, head + 1) = IF pushed # 0 THEN Root(n, pushed * Pow[n]) ELSE ZeroHash
    BY <1>2, <2>1 DEF Latest, LastBelow
  <2>5. cursor[n] = <<>> <=> len = 0
    BY <2>1
  <2>6. CASE len = 0
    BY <2>3, <2>4, <2>5, <2>6
  <2>7. CASE len # 0
    <3> HIDE DEF pushed, len
    <3>1. len \in 1 .. len /\ pushed - len + len = pushed /\ pushed # 0
      BY <2>2, <2>3, <2>7
    <3>2. cursor[n][len] = Root(n, pushed * Pow[n])
      BY <2>3, <3>1
    <3>3. QED
      BY <2>4, <2>5, <2>7, <3>1, <3>2
  <2>8. QED
    BY <2>6, <2>7
<1>3. QED
  BY <1>1, <1>2

(* A run that ends at a multiple of W is a full one. *)
LEMMA FullRun ==
  ASSUME NEW b, NEW n, NEW k \in Nat, NEW g \in Nat,
         HoldsRun(b, n, k), k = g * W, Len(b) \in 1 .. W
  PROVE  Len(b) = W /\ \A i \in 1 .. W : b[i] = Root(n, (k - W + i) * Pow[n])
<1> DEFINE z == k - Len(b)
           q == z \div W
<1>1. /\ z \in Nat /\ z % W = 0 /\ W \in Nat \ {0}
      /\ \A i \in 1 .. Len(b) : b[i] = Root(n, (k - Len(b) + i) * Pow[n])
  BY WindowAssumption DEF HoldsRun
<1>2. q \in Nat /\ z = q * W
  <2> HIDE DEF z
  <2>1. QED
    BY <1>1, DivBounds, DivExact
<1> HIDE DEF q
<1>3. g * W - q * W = Len(b) /\ q * W \in Int /\ g * W \in Int
  BY <1>1, <1>2
<1>4. q * W < g * W
  BY <1>3
<1>5. q < g
  BY <1>1, <1>2, <1>4, CancelLess
<1>6. (q + 1) * W <= g * W
  BY <1>1, <1>2, <1>5, ScaleLeq
<1>7. (q + 1) * W = q * W + W
  BY <1>1, <1>2
<1>8. Len(b) = W
  BY <1>1, <1>3, <1>6, <1>7
<1>9. QED
  BY <1>1, <1>8

(* A block that publishes layer n completes a window of the layer below:   *)
(* the cursor there is then full, with the roots of that window.           *)
LEMMA FullWindow ==
  ASSUME ChainTypeOK, CursorInv, head < MaxHead,
         NEW n \in Layers, n # 1, (head + 1) % Pow[n] = 0
  PROVE  Push(cursor[n - 1], Root(n - 1, head + 1)) = DataLeaves(n, head + 1)
<1> DEFINE m == n - 1
           s == Pow[m]
           h == head + 1
           b == cursor[m]
           k == head \div s
           c == Push(b, Root(m, h))
           S == {"root"} \X Layers \X (1 .. MaxHead)
<1>1. /\ m \in Layers /\ m + 1 = n /\ s \in Nat \ {0} /\ Pow[n] = W * s
      /\ W \in Nat \ {0} /\ Pow[n] \in Nat \ {0}
  <2>1. n \in Nat /\ m \in Layers /\ m + 1 = n
    BY LayerAssumption DEF Layers
  <2> HIDE DEF m
  <2>2. QED
    BY <2>1, PowFacts, WindowAssumption
<1>2. head \in Nat /\ h \in 1 .. MaxHead /\ h \in Nat \ {0}
  BY MaxHeadAssumption DEF ChainTypeOK
<1>3. b \in Seq(S) /\ Len(b) <= W /\ HoldsRun(b, m, k)
  BY <1>1 DEF ChainTypeOK, CursorInv
<1>4. k \in Nat
  BY <1>1, <1>2, DivBounds
<1> DEFINE g == h \div Pow[n]
<1>5. g \in Nat /\ h = g * (W * s) /\ h = (g * W) * s
  <2>1. g \in Nat /\ h = g * Pow[n]
    <3> HIDE DEF h
    <3>1. QED
      BY <1>1, <1>2, DivBounds, DivExact DEF h
  <2>2. ASSUME NEW x \in Nat, NEW y \in Nat, NEW z \in Nat PROVE x * (y * z) = (x * y) * z
    OBVIOUS
  <2> HIDE DEF g, h, s
  <2>3. QED
    BY <1>1, <2>1, <2>2
<1>6. h \div s = g * W /\ h % s = 0
  <2>1. g * W \in Nat
    BY <1>1, <1>5
  <2> HIDE DEF g, h, s
  <2>2. (g * W) * s <= h /\ h < (g * W) * s + s
    BY <1>1, <1>2, <1>5, <2>1
  <2>3. h \div s = g * W
    BY <1>1, <1>2, <2>1, <2>2, DivUnique
  <2>4. QED
    BY <1>1, <1>2, <1>5, <2>3, DivExact
<1>7. k + 1 = g * W /\ h = (k + 1) * s
  <2>1. (head + 1) \div s = k + 1
    BY <1>1, <1>2, <1>6, DivSucc
  <2> HIDE DEF g, k, s
  <2>2. QED
    BY <1>5, <1>6, <2>1
<1>8. HoldsRun(c, m, k + 1) /\ Len(c) \in 1 .. W
  <2>1. Root(m, h) \in S
    BY <1>1, <1>2 DEF Root
  <2> HIDE DEF S, b, m, s, h, k
  <2>2. HoldsRun(c, m, k + 1)
    BY <1>1, <1>3, <1>4, <1>7, <2>1, PushExtendsRun DEF s
  <2>3. Len(c) = (IF Len(b) = W THEN 1 ELSE Len(b) + 1)
    BY <1>3, <2>1, PushFacts
  <2>4. QED
    BY <1>1, <1>3, <2>2, <2>3
<1>9. c \in Seq(S)
  <2>1. Root(m, h) \in S
    BY <1>1, <1>2 DEF Root
  <2> HIDE DEF S, b, m, h
  <2>2. QED
    BY <1>3, <2>1, PushFacts
<1> DEFINE p == k + 1
<1>10. Len(c) = W /\ \A i \in 1 .. W : c[i] = Root(m, (p - W + i) * Pow[m])
  <2>1. HoldsRun(c, m, p) /\ Len(c) \in 1 .. W /\ p = g * W /\ p \in Nat /\ g \in Nat
    BY <1>4, <1>5, <1>7, <1>8
  <2> HIDE DEF c, m, p, g
  <2>2. QED
    BY <2>1, FullRun
<1>11. ASSUME NEW i \in 1 .. W PROVE c[i] = Root(m, h - Pow[n] + i * s)
  <2>1. c[i] = Root(m, (p - W + i) * s)
    BY <1>10
  <2>2. ASSUME NEW x \in Int, NEW y \in Int, NEW w \in Int, NEW z \in Int
        PROVE  (x - w + y) * z = x * z - w * z + y * z
    OBVIOUS
  <2>3. p \in Int /\ s \in Int /\ i \in Int /\ W \in Int
    BY <1>1, <1>4
  <2>4. h = p * s /\ Pow[n] = W * s
    BY <1>1, <1>7
  <2> HIDE DEF p, s, h, c
  <2>5. (p - W + i) * s = p * s - W * s + i * s
    BY <2>2, <2>3
  <2>6. QED
    BY <2>1, <2>4, <2>5
<1>12. DataLeaves(n, h) = [i \in 1 .. W |-> Root(m, h - Pow[n] + i * s)]
  BY DEF DataLeaves
<1>13. c = [i \in 1 .. W |-> c[i]]
  <2> HIDE DEF c, S
  <2>1. QED
    BY <1>9, <1>10
<1>14. QED
  BY <1>11, <1>12, <1>13

LEMMA TreeStep ==
  ChainTypeOK /\ CursorInv /\ TreeInv /\ [ProduceBlock]_chainVars => TreeInv'
<1> SUFFICES ASSUME ChainTypeOK, CursorInv, TreeInv, [ProduceBlock]_chainVars PROVE TreeInv'
  OBVIOUS
<1>1. CASE UNCHANGED chainVars
  BY <1>1 DEF chainVars, TreeInv
<1>2. CASE ProduceBlock
  <2> DEFINE h   == head + 1
             pub == PublishedLayers(h)
             new == {<<n, h>> : n \in pub}
  <2>1. head \in Nat /\ head < MaxHead /\ head' = h /\ MaxHead \in Nat
    BY <1>2, MaxHeadAssumption DEF ProduceBlock, ChainTypeOK
  <2>2. tree' = [t \in DOMAIN tree \cup new |->
                   IF t \in new THEN TreeLeaves(t[1], h) ELSE tree[t]]
    BY <1>2 DEF ProduceBlock
  <2>3. pub = {n \in Layers : h % Pow[n] = 0}
    BY <2>1 DEF PublishedLayers
  <2>4. DOMAIN tree' = {t \in Layers \X (1 .. head') : t[2] % Pow[t[1]] = 0}
    <3>1. DOMAIN tree' = DOMAIN tree \cup new
      BY <2>2
    <3>2. 1 .. head' = (1 .. head) \cup {h}
      BY <2>1
    <3>3. \A t : t \in new <=> t \in Layers \X {h} /\ t[2] % Pow[t[1]] = 0
      BY <2>3
    <3> HIDE DEF new, pub, h
    <3>4. QED
      BY <3>1, <3>2, <3>3 DEF TreeInv
  <2>5. ASSUME NEW n \in Layers, NEW height \in 1 .. head', height % Pow[n] = 0
        PROVE  tree'[<<n, height>>]
                 = <<LastBelow(n + 1, height), LastBelow(n, height)>> \o DataLeaves(n, height)
    <3>1. <<n, height>> \in DOMAIN tree'
      BY <2>4, <2>5
    <3>2. CASE height = h
      <4>1. <<n, height>> \in new
        BY <2>3, <2>5, <3>2
      <4>2. tree'[<<n, height>>] = TreeLeaves(n, h)
        BY <2>2, <3>1, <4>1
      <4>3. Latest(n + 1) = LastBelow(n + 1, h) /\ Latest(n) = LastBelow(n, h)
        BY LatestIsLast
      <4>4. (IF n = 1 THEN [i \in 1 .. W |-> BlockLeaf(h - W + i - 1)]
             ELSE Push(cursor[n - 1], Root(n - 1, h))) = DataLeaves(n, h)
        <5>1. CASE n = 1
          BY <5>1 DEF DataLeaves
        <5>2. CASE n # 1
          BY <2>1, <2>5, <3>2, <5>2, FullWindow
        <5>3. QED
          BY <5>1, <5>2
      <4>5. TreeLeaves(n, h) = <<Latest(n + 1), Latest(n)>> \o
              (IF n = 1 THEN [i \in 1 .. W |-> BlockLeaf(h - W + i - 1)]
               ELSE Push(cursor[n - 1], Root(n - 1, h)))
        BY DEF TreeLeaves
      <4> HIDE DEF h
      <4>6. QED
        BY <3>2, <4>2, <4>3, <4>4, <4>5
    <3>3. CASE height # h
      <4>1. height \in 1 .. head
        BY <2>1, <3>3
      <4>2. <<n, height>> \in DOMAIN tree /\ <<n, height>> \notin new
        BY <2>5, <3>3, <4>1 DEF TreeInv
      <4>3. tree'[<<n, height>>] = tree[<<n, height>>]
        BY <2>2, <4>2
      <4>4. QED
        BY <2>5, <4>1, <4>3 DEF TreeInv
    <3>4. QED
      BY <3>2, <3>3
  <2>6. QED
    BY <2>4, <2>5 DEF TreeInv
<1>3. QED
  BY <1>1, <1>2

(* Every tree, root by root, at every moment of the chain.                 *)
THEOREM TreeInvariant == ChainSpec => [](ChainTypeOK /\ CursorInv /\ TreeInv)
BY ChainTypeInit, ChainTypeStep, CursorInit, CursorStep, TreeInit, TreeStep, PTL DEF ChainSpec

-----------------------------------------------------------------------------
(* The exporter's reads against the published trees.                       *)

(* The window of s blocks over h ends at t: t - 1 is in the window.        *)
LEMMA WindowEnd ==
  ASSUME NEW h \in Nat, NEW s \in Nat \ {0},
         NEW t \in Nat, t = (h \div s) * s + s
  PROVE  /\ t \in Nat \ {0} /\ h < t /\ t - s \in 0 .. h /\ t % s = 0
         /\ t - s = (h \div s) * s
         /\ (t - 1) \div s = h \div s
<1> DEFINE q == h \div s
<1>1. q \in Nat /\ q * s <= h /\ h < q * s + s
  BY DivBounds
<1>2. t = q * s + s /\ q * s \in Nat
  BY <1>1
<1> HIDE DEF q
<1>3. t \in Nat \ {0} /\ h < t /\ t - s \in 0 .. h /\ t - s = q * s /\ t - 1 \in Nat
  BY <1>1, <1>2
<1>4. t = (q + 1) * s
  BY <1>1, <1>2
<1>5. t \div s = q + 1
  <2> DEFINE r == q + 1
  <2>1. r * s <= t /\ t < r * s + s /\ r \in Int /\ t \in Nat
    BY <1>1, <1>2, <1>3, <1>4
  <2> HIDE DEF r
  <2>2. t \div s = r
    BY <2>1, DivUnique
  <2>3. QED
    BY <2>2 DEF r
<1>6. t % s = 0
  BY <1>3, <1>4, <1>5, DivExact
<1> DEFINE y == t - 1
<1>7. y \in Nat /\ y \div s = q
  <2>1. q * s <= y /\ y < q * s + s /\ y \in Nat
    BY <1>2, <1>3
  <2> HIDE DEF y
  <2>2. QED
    BY <1>1, <2>1, DivUnique
<1>8. QED
  BY <1>3, <1>6, <1>7 DEF q

(* A header root is read where the node took it from: the last root of     *)
(* layer n below t is the one published at the start of h's own window.    *)
LEMMA MarkerIsLatest ==
  ASSUME ChainTypeOK, TreeInv, NEW n \in Layers, NEW h \in 0 .. head,
         NEW t, (t - 1) \div Pow[n] = h \div Pow[n],
         NEW b, b = (h \div Pow[n]) * Pow[n]
  PROVE  ~MarkerMissing(Report, b) /\ Marker(Report, b, n) = LastBelow(n, t)
<1> DEFINE s == Pow[n]
           q == h \div s
<1>1. head \in Nat /\ h \in Nat /\ h <= head /\ s \in Nat \ {0}
  BY PowFacts, MaxHeadAssumption DEF ChainTypeOK
<1>2. q \in Nat /\ b <= h /\ b = q * s
  BY <1>1, DivBounds
<1>3. b \in 0 .. head
  <2> HIDE DEF q, s
  <2>1. QED
    BY <1>1, <1>2
<1>4. b % s = 0
  <2> HIDE DEF q, s
  <2>1. b \div s = q
    <3>1. q * s <= b /\ b < q * s + s /\ b \in Nat
      BY <1>1, <1>2, <1>3
    <3>2. QED
      BY <1>1, <1>2, <3>1, DivUnique
  <2>2. QED
    BY <1>1, <1>2, <1>3, <2>1, DivExact
<1>5. ~MarkerMissing(Report, b)
  BY <1>3 DEF MarkerMissing, Report
<1>6. b = 0 <=> q = 0
  <2> HIDE DEF q, s
  <2>1. QED
    BY <1>1, <1>2
<1>7. LastBelow(n, t) = IF q # 0 THEN Root(n, b) ELSE ZeroHash
  BY <1>2 DEF LastBelow
<1>8. CASE b = 0
  BY <1>5, <1>6, <1>7, <1>8 DEF Marker
<1>9. CASE b # 0
  <2>1. b \in 1 .. head
    BY <1>1, <1>3, <1>9
  <2>2. <<n, b>> \in DOMAIN tree
    BY <1>4, <2>1 DEF TreeInv
  <2>3. Report[b] = [m \in {l \in Layers : <<l, b>> \in DOMAIN tree} |-> Root(m, b)]
    BY <1>3 DEF Report
  <2>4. n \in DOMAIN Report[b] /\ Report[b][n] = Root(n, b)
    BY <2>2, <2>3
  <2>5. QED
    BY <1>5, <1>6, <1>7, <1>9, <2>4 DEF Marker
<1>10. QED
  BY <1>8, <1>9

(* What an anchored event's height and anchor are to the layer's windows.  *)
LEMMA CoverFacts ==
  ASSUME ChainTypeOK, NEW h \in 0 .. head, NEW n \in 1 .. MaxAnchorLayer,
         AnchorBlockHeight(h, n) # None, AnchorBlockHeight(h, n) <= head
  PROVE  LET t == AnchorBlockHeight(h, n) IN
         /\ n \in Layers /\ n + 1 \in Layers /\ h \in Nat
         /\ Pow[n] \in Nat \ {0} /\ Pow[n + 1] = W * Pow[n]
         /\ t \in 1 .. head /\ t <= U64Max /\ Pow[n] <= U64Max
         /\ t = (h \div Pow[n]) * Pow[n] + Pow[n]
         /\ h < t /\ t - Pow[n] \in 0 .. h /\ t - Pow[n] = (h \div Pow[n]) * Pow[n]
         /\ t % Pow[n] = 0
         /\ (t - 1) \div Pow[n] = h \div Pow[n]
         /\ (t - 1) \div Pow[n + 1] = h \div Pow[n + 1]
<1> DEFINE t == AnchorBlockHeight(h, n)
<1>1. /\ n \in Layers /\ n + 1 \in Layers /\ n \in Nat
      /\ Pow[n] \in Nat \ {0} /\ Pow[n + 1] = W * Pow[n]
  BY PowFacts, LayerAssumption DEF Layers
<1>2. h \in Nat /\ head \in Nat
  BY MaxHeadAssumption DEF ChainTypeOK
<1> DEFINE T == (h \div Pow[n]) * Pow[n] + Pow[n]
           N == (h \div Pow[n + 1]) * Pow[n + 1] + Pow[n + 1]
<1>3. T \in Nat /\ Pow[n] <= T /\ AnchorBlockHeight(h, n) = IF T <= U64Max THEN T ELSE None
  BY <1>2, HeightFacts
<1>4. t = T /\ T <= U64Max
  BY <1>3
<1> HIDE DEF T, N, t
<1>5. t \in 1 .. head /\ Pow[n] <= U64Max
  BY <1>1, <1>2, <1>3, <1>4, U64Assumption
<1>6. /\ h < t /\ t - Pow[n] \in 0 .. h /\ t - Pow[n] = (h \div Pow[n]) * Pow[n]
      /\ t % Pow[n] = 0
      /\ (t - 1) \div Pow[n] = h \div Pow[n]
      /\ (t - 1) \div Pow[n + 1] = h \div Pow[n + 1]
  <2> DEFINE s == Pow[n]
             u == Pow[n + 1]
  <2>1. s \in Nat \ {0} /\ u \in Nat \ {0} /\ u = W * s /\ t = (h \div s) * s + s
    BY <1>1, <1>4, PowFacts DEF T
  <2> HIDE DEF s, u
  <2>2. /\ h < t /\ t - s \in 0 .. h /\ t - s = (h \div s) * s
        /\ t % s = 0
        /\ (t - 1) \div s = h \div s
        /\ (t - 1) \div u = h \div u
    <3>1. /\ t \in Nat /\ h \in Nat /\ s \in Nat \ {0} /\ t = (h \div s) * s + s
          /\ u \in Nat \ {0} /\ u = W * s
      BY <1>2, <1>3, <1>4, <2>1
    <3>2. h < t
      BY <3>1, WindowEnd
    <3>3. t % s = 0
      BY <3>1, WindowEnd
    <3>4. t - s \in 0 .. h /\ t - s = (h \div s) * s
      BY <3>1, WindowEnd
    <3>5. (t - 1) \div s = h \div s
      BY <3>1, WindowEnd
    <3>6. (t - 1) \div u = h \div u
      <4> DEFINE y == t - 1
      <4>1. y \in Nat /\ y \div s = h \div s
        BY <3>1, <3>2, <3>5
      <4> HIDE DEF y
      <4>2. y \div u = h \div u
        <5>1. W \in Nat \ {0}
          BY WindowAssumption
        <5>2. y \div (W * s) = (y \div s) \div W
          BY <3>1, <4>1, <5>1, DivDiv
        <5>3. h \div (W * s) = (h \div s) \div W
          BY <3>1, <5>1, DivDiv
        <5>4. QED
          BY <3>1, <4>1, <5>2, <5>3
      <4>3. QED
        BY <4>2 DEF y
    <3>7. QED
      BY <3>2, <3>3, <3>4, <3>5, <3>6
  <2>3. QED
    BY <2>1, <2>2 DEF s, u
<1>7. QED
  BY <1>1, <1>2, <1>4, <1>5, <1>6 DEF T, t

(* get_layer_0_data rebuilds the layer-1 tree. *)
LEMMA LayerOneRebuilt ==
  ASSUME ChainTypeOK, TreeInv, NEW h \in 0 .. head, NEW t,
         t = AnchorBlockHeight(h, 1), t # None, t <= head
  PROVE  tree[<<1, t>>] = Layer0Leaves(Report, h)
<1> DEFINE start  == (h \div W) * W
           higher == (h \div (W * W)) * (W * W)
<1>1. /\ 1 \in Layers /\ 2 \in Layers /\ 1 \in 1 .. MaxAnchorLayer /\ h \in Nat
      /\ W \in Nat \ {0} /\ Pow[1] = W /\ Pow[2] = W * W
  BY PowAssumption, LayerAssumption, WindowAssumption, MaxHeadAssumption DEF Layers, ChainTypeOK
<1>2. /\ t \in 1 .. head /\ t % Pow[1] = 0
      /\ t - Pow[1] \in 0 .. h /\ t - Pow[1] = (h \div Pow[1]) * Pow[1]
      /\ (t - 1) \div Pow[1] = h \div Pow[1]
      /\ (t - 1) \div Pow[1 + 1] = h \div Pow[1 + 1]
  BY <1>1, CoverFacts
<1>3. /\ t % W = 0 /\ t - W \in 0 .. h /\ t - W = start
      /\ (t - 1) \div Pow[1] = h \div Pow[1] /\ (t - 1) \div Pow[2] = h \div Pow[2]
      /\ start = (h \div Pow[1]) * Pow[1] /\ higher = (h \div Pow[2]) * Pow[2]
  BY <1>1, <1>2
<1>4. ~MarkerMissing(Report, start) /\ Marker(Report, start, 1) = LastBelow(1, t)
  BY <1>1, <1>3, MarkerIsLatest
<1>5. ~MarkerMissing(Report, higher) /\ Marker(Report, higher, 2) = LastBelow(2, t)
  BY <1>1, <1>3, MarkerIsLatest
<1>6. \A i \in 0 .. W - 1 : start + i \in DOMAIN Report
  <2>1. DOMAIN Report = 0 .. head /\ head \in Nat
    BY MaxHeadAssumption DEF Report, ChainTypeOK
  <2>2. start \in Nat /\ start + W <= head
    <3>1. t - W = start /\ t - W \in 0 .. h
      BY <1>3
    <3> HIDE DEF start
    <3>2. QED
      BY <1>1, <1>2, <2>1, <3>1
  <2> HIDE DEF start
  <2>3. QED
    BY <1>1, <2>1, <2>2
<1>7. DataLeaves(1, t) = [i \in 1 .. W |-> BlockLeaf(start + i - 1)]
  BY <1>3 DEF DataLeaves
<1>8. tree[<<1, t>>] = <<LastBelow(2, t), LastBelow(1, t)>> \o DataLeaves(1, t)
  <2>1. t % Pow[1] = 0 /\ 1 + 1 = 2
    BY <1>1, <1>3
  <2>2. QED
    BY <1>1, <1>2, <2>1 DEF TreeInv
<1>9. Layer0Leaves(Report, h) =
        <<Marker(Report, higher, 2), Marker(Report, start, 1)>>
          \o [i \in 1 .. W |-> BlockLeaf(start + i - 1)]
  BY <1>4, <1>5, <1>6 DEF Layer0Leaves, Leaves
<1> HIDE DEF start, higher
<1>10. QED
  BY <1>4, <1>5, <1>7, <1>8, <1>9

(* The data of an upper tree: W roots of the layer below, a stride apart,  *)
(* each published by a block of the window.                                *)
LEMMA WindowRoots ==
  ASSUME ChainTypeOK, TreeInv, NEW lower \in Layers, NEW u \in Nat, u = W * Pow[lower],
         NEW q \in Nat, NEW t \in 1 .. head, t = q * u + u,
         NEW i \in 1 .. W, NEW b \in Nat, b = q * u + i * Pow[lower]
  PROVE  b \in DOMAIN Report /\ lower \in DOMAIN Report[b] /\ Report[b][lower] = Root(lower, b)
<1> DEFINE s == Pow[lower]
<1>1. s \in Nat \ {0} /\ W \in Nat \ {0} /\ u = W * s /\ i \in Nat \ {0} /\ i <= W /\ head \in Nat
  <2>1. s \in Nat \ {0} /\ u = W * s
    BY PowFacts
  <2>2. W \in Nat \ {0} /\ head \in Nat
    BY WindowAssumption, MaxHeadAssumption DEF ChainTypeOK
  <2> HIDE DEF s
  <2>3. QED
    BY <2>1, <2>2
<1> DEFINE p == q * W + i
<1>2. p \in Nat /\ b = p * s
  <2>1. ASSUME NEW x \in Nat, NEW y \in Nat, NEW z \in Nat, NEW v \in Nat
        PROVE  x * (y * z) + v * z = (x * y + v) * z
    OBVIOUS
  <2> HIDE DEF s
  <2>2. b = q * (W * s) + i * s
    BY <1>1 DEF s
  <2>3. QED
    BY <1>1, <2>1, <2>2
<1>3. b \in 1 .. head /\ b % s = 0
  <2> HIDE DEF s
  <2>1. i * s <= W * s /\ i * s \in Nat \ {0} /\ q * u \in Nat
    <3>1. i * s <= W * s
      BY <1>1, ScaleLeq
    <3>2. QED
      BY <1>1, <3>1
  <2>2. b \in 1 .. head
    <3> DEFINE a == q * u
               d == i * s
               e == W * s
    <3>1. a \in Nat /\ d \in Nat \ {0} /\ d <= e /\ b = a + d /\ t = a + e /\ e \in Nat
      BY <1>1, <2>1 DEF s
    <3> HIDE DEF a, d, e
    <3>2. QED
      BY <1>1, <3>1
  <2> HIDE DEF p
  <2>3. b \div s = p
    <3>1. p * s <= b /\ b < p * s + s /\ b \in Nat
      BY <1>1, <1>2, <2>2
    <3>2. QED
      BY <1>1, <1>2, <3>1, DivUnique
  <2>4. b % s = 0
    BY <1>1, <1>2, <2>2, <2>3, DivExact
  <2>5. QED
    BY <2>2, <2>4
<1>4. b \in DOMAIN Report
  BY <1>1, <1>3 DEF Report
<1>5. <<lower, b>> \in DOMAIN tree
  BY <1>3 DEF TreeInv
<1>6. Report[b] = [m \in {l \in Layers : <<l, b>> \in DOMAIN tree} |-> Root(m, b)]
  BY <1>4 DEF Report
<1>7. QED
  BY <1>4, <1>5, <1>6

(* get_layer_n_data rebuilds the tree above layer `lower'. *)
LEMMA UpperLayerRebuilt ==
  ASSUME ChainTypeOK, TreeInv, NEW h \in 0 .. head, NEW n \in 1 .. MaxAnchorLayer, n # 1,
         AnchorBlockHeight(h, n) # None, AnchorBlockHeight(h, n) <= head
  PROVE  tree[<<n, AnchorBlockHeight(h, n)>>] = LayerNLeaves(Report, h, n - 1)
<1> DEFINE t      == AnchorBlockHeight(h, n)
           lower  == n - 1
           s      == Pow[lower]
           start  == (h \div Pow[n]) * Pow[n]
           higher == IF Stride(n + 1) = None THEN 0
                     ELSE (h \div Pow[n + 1]) * Pow[n + 1]
           data   == [i \in 1 .. W |-> start + i * s]
<1>1. /\ n \in Layers /\ n + 1 \in Layers /\ h \in Nat
      /\ Pow[n] \in Nat \ {0} /\ Pow[n + 1] = W * Pow[n]
      /\ t \in 1 .. head /\ t <= U64Max /\ Pow[n] <= U64Max
      /\ t = start + Pow[n]
      /\ t - Pow[n] \in 0 .. h /\ t - Pow[n] = start
      /\ t % Pow[n] = 0
      /\ (t - 1) \div Pow[n] = h \div Pow[n]
      /\ (t - 1) \div Pow[n + 1] = h \div Pow[n + 1]
  BY CoverFacts
<1>2. /\ lower \in Layers /\ lower + 1 = n /\ lower + 2 = n + 1 /\ Pow[n] = W * s
      /\ s \in Nat \ {0} /\ W \in Nat \ {0} /\ Pow[n + 1] \in Nat \ {0}
  <2>1. n \in Nat /\ lower \in Layers /\ lower + 1 = n /\ lower + 2 = n + 1
    BY LayerAssumption DEF Layers
  <2> HIDE DEF lower
  <2>2. Pow[lower + 1] = W * Pow[lower] /\ Pow[lower] \in Nat \ {0}
    BY <2>1, PowFacts
  <2>3. Pow[n + 1] \in Nat \ {0} /\ W \in Nat \ {0}
    BY <1>1, PowFacts, WindowAssumption
  <2>4. QED
    BY <2>1, <2>2, <2>3
<1> HIDE DEF t, lower, s, start, data
<1>3. Stride(n) # None
  BY <1>1, OptionAssumption DEF Stride, Checked
<1>4. ~MarkerMissing(Report, start) /\ Marker(Report, start, n) = LastBelow(n, t)
  BY <1>1, MarkerIsLatest DEF start
<1>5. ~MarkerMissing(Report, higher) /\ Marker(Report, higher, n + 1) = LastBelow(n + 1, t)
  <2>1. CASE Stride(n + 1) # None
    BY <1>1, <2>1, MarkerIsLatest
  <2>2. CASE Stride(n + 1) = None
    <3>1. U64Max < Pow[n + 1]
      BY <1>2, <2>2, OptionAssumption, U64Assumption DEF Stride, Checked
    <3>2. t - 1 \in Nat /\ t - 1 < Pow[n + 1]
      <4>1. t \in Nat \ {0} /\ t <= U64Max
        BY <1>1, MaxHeadAssumption DEF ChainTypeOK
      <4>2. QED
        BY <1>2, <3>1, <4>1, U64Assumption
    <3>3. (t - 1) \div Pow[n + 1] = 0
      <4> DEFINE y == t - 1
                 u == Pow[n + 1]
      <4>1. y \in Nat /\ u \in Nat \ {0} /\ 0 * u <= y /\ y < 0 * u + u
        BY <1>2, <3>2
      <4> HIDE DEF y, u
      <4>2. y \div u = 0
        BY <4>1, DivUnique
      <4>3. QED
        BY <4>2 DEF y, u
    <3>4. higher = 0 /\ LastBelow(n + 1, t) = ZeroHash
      BY <2>2, <3>3 DEF LastBelow
    <3>5. QED
      BY <3>4 DEF MarkerMissing, Marker
  <2>3. QED
    BY <2>1, <2>2
<1>6. ASSUME NEW i \in 1 .. W
      PROVE  /\ data[i] \in DOMAIN Report /\ lower \in DOMAIN Report[data[i]]
             /\ Report[data[i]][lower] = Root(lower, t - Pow[n] + i * s)
  <2> DEFINE q == h \div Pow[n]
             u == Pow[n]
             b == q * u + i * s
  <2>1. q \in Nat /\ t = q * u + u /\ u = W * Pow[lower] /\ data[i] = b
        /\ t - Pow[n] + i * s = b
    BY <1>1, <1>2, DivBounds DEF start, data, s
  <2>2. b = q * u + i * Pow[lower]
    BY DEF s
  <2> HIDE DEF q, u, b
  <2>3. b \in Nat /\ u \in Nat /\ t \in 1 .. head
    <3>1. u \in Nat /\ i \in Nat /\ s \in Nat
      BY <1>1, <1>2 DEF u
    <3>2. q * u + i * s \in Nat
      BY <2>1, <3>1
    <3>3. QED
      BY <1>1, <3>1, <3>2 DEF b
  <2>4. b \in DOMAIN Report /\ lower \in DOMAIN Report[b] /\ Report[b][lower] = Root(lower, b)
    BY <1>2, <2>1, <2>2, <2>3, WindowRoots
  <2>5. QED
    BY <2>1, <2>4
<1>7. LayerNLeaves(Report, h, lower) =
        <<Marker(Report, higher, n + 1), Marker(Report, start, n)>>
          \o [i \in 1 .. W |-> Report[data[i]][lower]]
  BY <1>2, <1>3, <1>4, <1>5, <1>6 DEF LayerNLeaves, Leaves, start, data, s
<1>8. DataLeaves(n, t) = [i \in 1 .. W |-> Root(lower, t - Pow[n] + i * s)]
  BY DEF DataLeaves, lower, s
<1>9. [i \in 1 .. W |-> Report[data[i]][lower]] = DataLeaves(n, t)
  BY <1>6, <1>8
<1>10. tree[<<n, t>>] = <<LastBelow(n + 1, t), LastBelow(n, t)>> \o DataLeaves(n, t)
  BY <1>1 DEF TreeInv
<1> HIDE DEF higher
<1>11. QED
  BY <1>4, <1>5, <1>7, <1>9, <1>10 DEF t, lower

(* blockchain.rs and the node agree, for every window size, every number   *)
(* of layers and every integer width: whatever event the exporter anchors, *)
(* the leaves it reads are the leaves the node hashed.                     *)
THEOREM TreesAreRebuilt == ChainSpec => []ReadersRebuildTrees
<1>1. ChainTypeOK /\ TreeInv => ReadersRebuildTrees
  BY LayerOneRebuilt, UpperLayerRebuilt DEF ReadersRebuildTrees
<1>2. QED
  BY <1>1, TreeInvariant, PTL

-----------------------------------------------------------------------------
(* The rungs between the layers.                                           *)

(* The end T of a window of s blocks, counted in windows from the start c  *)
(* of its window of windows.                                               *)
InGroup(s, T, c) ==
  \E i \in 1 .. W : T - c = i * s /\ c + i * s = T /\ T <= c + W * s /\ s <= W * s

LEMMA RungIndex ==
  ASSUME NEW h \in Nat, NEW s \in Nat \ {0}
  PROVE  InGroup(s, (h \div s) * s + s, (h \div (W * s)) * (W * s))
<1> DEFINE u == W * s
           j == h \div s
           q == h \div u
           g == q * W
           i == (j + 1) - g
           T == j * s + s
           c == q * u
<1>1. W \in Nat \ {0} /\ u = W * s
  BY WindowAssumption
<1>2. s <= u /\ u \in Nat \ {0}
  <2>1. 1 * s <= W * s
    BY <1>1, ScaleLeq
  <2>2. QED
    BY <1>1, <2>1
<1> HIDE DEF u
<1>3. j \in Nat /\ j * s <= h /\ h < j * s + s
  BY DivBounds
<1>4. q \in Nat /\ q * u <= h /\ h < q * u + u
  BY <1>2, DivBounds
<1> HIDE DEF j, q
<1>5. g \in Nat /\ c = g * s /\ c + u = (g + W) * s /\ T = (j + 1) * s
  <2>1. ASSUME NEW x \in Nat, NEW y \in Nat, NEW z \in Nat
        PROVE  x * (y * z) = (x * y) * z /\ x * (y * z) + y * z = (x * y + y) * z
    OBVIOUS
  <2>2. q * (W * s) = (q * W) * s /\ q * (W * s) + W * s = (q * W + W) * s
    BY <1>1, <1>4, <2>1
  <2>3. q * W \in Nat
    BY <1>1, <1>4
  <2>4. j * s + s = (j + 1) * s
    BY <1>3
  <2>5. QED
    BY <1>1, <2>2, <2>3, <2>4
<1> HIDE DEF g
<1>6. i \in 1 .. W
  <2>1. g * s <= h /\ h < (g + W) * s /\ h < (j + 1) * s
    BY <1>3, <1>4, <1>5
  <2>2. QED
    BY <1>1, <1>3, <1>5, <2>1, PlaceInGroup
<1> HIDE DEF T, c
<1>7. T \in Int /\ c \in Int /\ i * s \in Int
  <2>1. j * s \in Int /\ q * u \in Int /\ i \in Int
    <3>1. i \in Int
      BY <1>6
    <3>2. j * s \in Int
      BY <1>3
    <3>3. q * u \in Int
      BY <1>2, <1>4
    <3>4. QED
      BY <3>1, <3>2, <3>3
  <2>2. QED
    BY <2>1 DEF T, c
<1>8. T - c = i * s
  <2> DEFINE x == j + 1
  <2>1. x \in Int /\ g \in Int /\ s \in Int
    BY <1>3, <1>5
  <2> HIDE DEF x
  <2>2. x * s - g * s = (x - g) * s
    BY <2>1, ScaledDifference
  <2>3. T = x * s /\ c = g * s
    BY <1>5 DEF x
  <2>4. T - c = x * s - g * s
    BY <2>3, Zenon
  <2>5. T - c = (x - g) * s
    BY <2>2, <2>4, Zenon
  <2>6. QED
    BY <2>5 DEF x, i
<1>9. i * s <= u
  BY <1>1, <1>6, ScaleLeq
<1> DEFINE e == i * s
<1> HIDE DEF e
<1>10. T - c = e /\ c + e = T /\ T <= c + u
  BY <1>2, <1>7, <1>8, <1>9 DEF e
<1>11. QED
  <2>1. InGroup(s, T, c)
    BY <1>1, <1>2, <1>6, <1>10 DEF e, InGroup
  <2>2. QED
    BY <2>1 DEF T, c, j, q, u

(* A layer is published no later than the one above.                       *)
LEMMA AnchorsNest ==
  ASSUME NEW h \in Nat, NEW n \in 1 .. MaxAnchorLayer, AnchorBlockHeight(h, n + 1) # None
  PROVE  /\ AnchorBlockHeight(h, n) # None
         /\ AnchorBlockHeight(h, n) \in Nat /\ AnchorBlockHeight(h, n + 1) \in Nat
         /\ AnchorBlockHeight(h, n) <= AnchorBlockHeight(h, n + 1)
<1> DEFINE s == Pow[n]
           u == Pow[n + 1]
           T == (h \div s) * s + s
           c == (h \div u) * u
           N == c + u
<1>1. s \in Nat \ {0} /\ u \in Nat \ {0} /\ u = W * s /\ W \in Nat \ {0}
  BY PowFacts, LayerAssumption, WindowAssumption DEF Layers
<1>2. /\ T \in Nat /\ N \in Nat
      /\ AnchorBlockHeight(h, n) = IF T <= U64Max THEN T ELSE None
      /\ AnchorBlockHeight(h, n + 1) = IF N <= U64Max THEN N ELSE None
  BY HeightFacts
<1>3. c \in Nat
  BY <1>1, DivBounds
<1>4. T <= N
  <2>1. T = (h \div s) * s + s /\ c = (h \div u) * u
    OBVIOUS
  <2> HIDE DEF s, u, T, c
  <2>2. T <= c + u
    <3>1. InGroup(s, (h \div s) * s + s, (h \div (W * s)) * (W * s))
      BY <1>1, RungIndex
    <3>2. InGroup(s, T, c)
      BY <1>1, <2>1, <3>1
    <3>3. QED
      BY <1>1, <3>2 DEF InGroup
  <2>3. QED
    BY <2>2
<1> HIDE DEF T, N
<1>5. QED
  BY <1>2, <1>4, U64Assumption, OptionAssumption

(* rung_position: where the node put a root among the leaves of the tree   *)
(* one layer up, for every window size, layer and integer width.           *)
LEMMA RungIsThere ==
  ASSUME ChainTypeOK, TreeInv, NEW h \in 0 .. head, NEW lower \in 1 .. MaxAnchorLayer - 1,
         AnchorBlockHeight(h, lower + 1) # None, AnchorBlockHeight(h, lower + 1) <= head
  PROVE  /\ RungPosition(h, lower) # None /\ RungPosition(h, lower) < W + 2
         /\ tree[<<lower + 1, AnchorBlockHeight(h, lower + 1)>>][RungPosition(h, lower) + 1]
              = Root(lower, AnchorBlockHeight(h, lower))
<1> DEFINE n == lower + 1
           t == AnchorBlockHeight(h, n)
           T == AnchorBlockHeight(h, lower)
           s == Pow[lower]
           u == Pow[n]
           c == (h \div u) * u
           i == (T - c) \div s
<1>1. n \in 1 .. MaxAnchorLayer /\ lower \in 1 .. MaxAnchorLayer /\ lower \in Layers
      /\ n # 1 /\ n - 1 = lower
  BY LayerAssumption DEF Layers
<1>2. /\ n \in Layers /\ h \in Nat /\ u \in Nat \ {0} /\ u <= U64Max
      /\ t \in 1 .. head /\ t - u = c /\ t % u = 0 /\ c \in 0 .. h
  <2> HIDE DEF n
  <2>1. QED
    BY <1>1, CoverFacts
<1>3. s \in Nat \ {0} /\ u = W * s /\ W \in Nat \ {0}
  BY <1>1, PowFacts, WindowAssumption
<1>4. T # None /\ T \in Nat
  BY <1>1, <1>2, AnchorsNest
<1>5. T = (h \div s) * s + s
  <2> DEFINE N == (h \div Pow[lower + 1]) * Pow[lower + 1] + Pow[lower + 1]
             V == (h \div s) * s + s
  <2>1. AnchorBlockHeight(h, lower) = IF V <= U64Max THEN V ELSE None
    BY <1>1, <1>2, HeightFacts
  <2>2. QED
    BY <1>4, <2>1
<1>6. c \in Nat /\ c = (h \div u) * u
  BY <1>2
<1> HIDE DEF t, T, s, u, c, n
<1>7. i \in 1 .. W /\ c + i * s = T /\ s <= u /\ i \in Nat
  <2>1. \E k \in 1 .. W : T - c = k * s /\ c + k * s = T /\ T <= c + u /\ s <= u
    <3>1. InGroup(s, (h \div s) * s + s, (h \div (W * s)) * (W * s))
      BY <1>2, <1>3, RungIndex
    <3>2. InGroup(s, T, c)
      BY <1>3, <1>5, <1>6, <3>1
    <3>3. QED
      BY <1>3, <3>2 DEF InGroup
  <2>2. PICK k \in 1 .. W : T - c = k * s /\ c + k * s = T /\ s <= u
    BY <2>1
  <2>3. (k * s) \div s = k
    BY <1>3, MultipleDiv
  <2>4. i = k
    BY <2>2, <2>3 DEF i
  <2>5. QED
    BY <2>2, <2>4
<1>8. Stride(lower) # None /\ Stride(n) # None
  <2>1. s <= U64Max
    BY <1>2, <1>3, <1>7, U64Assumption
  <2>2. QED
    BY <1>2, <1>3, <2>1, OptionAssumption DEF Stride, Checked, s, u
<1> HIDE DEF i
<1>9. RungPosition(h, lower) = 1 + i
  BY <1>4, <1>8 DEF RungPosition, T, c, u, s, n, i
<1>10. RungPosition(h, lower) # None /\ RungPosition(h, lower) < W + 2
  BY <1>3, <1>7, <1>9, OptionAssumption
<1> DEFINE d == DataLeaves(n, t)
           r == <<LastBelow(n + 1, t), LastBelow(n, t)>>
<1>11. tree[<<n, t>>] = r \o d
  BY <1>2 DEF TreeInv, u
<1>12. d = [k \in 1 .. W |-> Root(lower, t - u + k * s)]
  BY <1>1 DEF DataLeaves, u, s
<1>13. d[i] = Root(lower, T)
  BY <1>2, <1>7, <1>12
<1>14. (r \o d)[i + 2] = d[i]
  <2> DEFINE R == {Root(lower, t - u + k * s) : k \in 1 .. W}
  <2>1. d \in [1 .. W -> R]
    BY <1>12
  <2> HIDE DEF d, R
  <2>2. d \in Seq(R) /\ Len(d) = W
    BY <1>3, <2>1
  <2>3. QED
    BY <1>7, <2>2
<1>15. RungPosition(h, lower) + 1 = i + 2
  BY <1>7, <1>9
<1>16. QED
  BY <1>10, <1>11, <1>13, <1>14, <1>15 DEF n, t, T

(* The position the exporter computes for a rung is where the node put the *)
(* lower root, and it can be computed whenever the layer above can be      *)
(* anchored to.                                                            *)
THEOREM RungsAreInPlace == ChainSpec => []RungIsWhereTheNodePutIt
<1>1. ChainTypeOK /\ TreeInv => RungIsWhereTheNodePutIt
  BY RungIsThere DEF RungIsWhereTheNodePutIt
<1>2. QED
  BY <1>1, TreeInvariant, PTL

=============================================================================
