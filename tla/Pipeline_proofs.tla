--------------------------- MODULE Pipeline_proofs ---------------------------
(***************************************************************************)
(* Proofs about the exporter and about the way from an event to an         *)
(* accepted proof, for every window, every number of layers, every chain   *)
(* length, every set of requests, any number of runs and faults, and       *)
(* whatever the node misreports.                                           *)
(*                                                                         *)
(* First one run of the exporter: what it promises and advises, what it    *)
(* has rebuilt when it writes, why it fails, which layer "auto" takes, how *)
(* long it waits.  They are facts of every run, so the invariants are of   *)
(* the exporter's specification.  Then the fixture, the proof, the claim.  *)
(***************************************************************************)
EXTENDS Pipeline, HistoryCursor_proofs

ExporterInv == ChainTypeOK /\ CursorInv /\ ExporterTypeOK /\ ResolutionInv /\ AdviceInv

-----------------------------------------------------------------------------
(* What the run's request can be. *)
LEMMA RequestFacts ==
  ASSUME NEW r \in RequestType
  PROVE  /\ r.block.height \in Nat
         /\ r.layer \in Nat \cup {AutoMode} /\ r.allowExpired \in BOOLEAN
         /\ r.wait # None => r.wait.timeout \in Nat /\ r.wait.poll \in Nat \ {0}
<1>1. r.block \in [height : Nat, own : BOOLEAN, rootOk : BOOLEAN,
                    tracks : {"nothing", "others", "event"}]
  BY DEF RequestType
<1>2. r.layer \in Nat \cup {AutoMode} /\ r.allowExpired \in BOOLEAN
  BY DEF RequestType
<1>3. r.wait \in [timeout : Nat, poll : Nat \ {0}] \cup {None}
  BY DEF RequestType
<1>4. QED
  BY <1>1, <1>2, <1>3

(* The anchor heights of a valid layer. *)
LEMMA AnchorFacts ==
  ASSUME NEW h \in Nat, NEW n \in 1 .. MaxAnchorLayer
  PROVE  /\ AnchorBlockHeight(h, n) \in Nat \cup {None}
         /\ AnchorBlockHeight(h, n) # None => h < AnchorBlockHeight(h, n)
         /\ AnchorBlockHeight(h, n + 1) \in Nat \cup {None}
         /\ AnchorExpiryHeight(h, n) \in Nat \cup {None}
         /\ AnchorExpiryHeight(h, n) # None =>
              /\ AnchorBlockHeight(h, n + 1) # None
              /\ AnchorBlockHeight(h, n + 1) <= AnchorExpiryHeight(h, n)
         /\ AnchorBlockHeight(h, n + 1) # None => n + 1 \in 1 .. MaxAnchorLayer
<1> DEFINE s == Pow[n]
           a == (h \div s) * s
           T == (h \div Pow[n]) * Pow[n] + Pow[n]
           N == (h \div Pow[n + 1]) * Pow[n + 1] + Pow[n + 1]
<1>1. /\ T \in Nat /\ N \in Nat /\ Pow[n + 1] <= N
      /\ AnchorBlockHeight(h, n) = IF T <= U64Max THEN T ELSE None
      /\ AnchorBlockHeight(h, n + 1) = IF N <= U64Max THEN N ELSE None
      /\ AnchorExpiryHeight(h, n) = IF N + Pow[n] <= U64Max THEN N + Pow[n] ELSE None
  BY HeightFacts
<1>2. s \in Nat \ {0}
  BY PowFacts, LayerAssumption DEF Layers
<1>3. h < T
  BY <1>2, DivBounds
<1> HIDE DEF T, N
<1>4. N + Pow[n] \in Nat /\ N <= N + Pow[n]
  BY <1>1, <1>2
<1>5. N <= U64Max => n + 1 \in 1 .. MaxAnchorLayer
  <2>1. n = MaxAnchorLayer => N > U64Max
    <3>1. Pow[n + 1] \in Nat
      BY PowFacts, LayerAssumption DEF Layers
    <3>2. QED
      BY <1>1, <3>1, WidthAssumption, U64Assumption
  <2>2. QED
    BY <1>1, <2>1, LayerAssumption, U64Assumption
<1>6. N \in Nat /\ N # None /\ N + Pow[n] # None /\ U64Max \in Nat
  BY <1>1, <1>4, OptionAssumption, U64Assumption
<1>7. QED
  BY <1>1, <1>3, <1>4, <1>5, <1>6

(* A rung's position is a position: its root lies above the cursor. *)
LEMMA RungPositionFacts ==
  ASSUME NEW h \in Nat, NEW n \in 1 .. MaxAnchorLayer
  PROVE  RungPosition(h, n) \in Nat \cup {None}
<1> DEFINE s == Pow[n]
           u == Pow[n + 1]
           c == (h \div u) * u
           T == AnchorBlockHeight(h, n)
<1>1. s \in Nat \ {0} /\ u \in Nat \ {0}
  BY PowFacts, LayerAssumption DEF Layers
<1>2. CASE None \in {Stride(n), Stride(n + 1), T}
  BY <1>2 DEF RungPosition
<1>3. CASE None \notin {Stride(n), Stride(n + 1), T}
  <2>1. T \in Nat /\ h < T
    BY <1>3, AnchorFacts
  <2>2. c <= h /\ h \div u \in Nat
    BY <1>1, DivBounds
  <2>3. c \in Nat
    BY <1>1, <2>2
  <2>4. RungPosition(h, n) = 1 + (T - c) \div s
    BY <1>3 DEF RungPosition
  <2> HIDE DEF T, c, s, u
  <2>5. T - c \in Nat
    BY <2>1, <2>2, <2>3
  <2>6. (T - c) \div s \in Nat
    BY <1>1, <2>5, DivBounds
  <2>7. QED
    BY <2>4, <2>6
<1>4. QED
  BY <1>2, <1>3

(* A rebuilt tree hashes to a root of its layer and height. *)
LEMMA RebuiltRootFacts ==
  ASSUME NEW n \in Nat, NEW height \in Nat \cup {None}, NEW leaves
  PROVE  RebuiltRoot(n, height, leaves) \in Hashes
BY DEF RebuiltRoot, Root, Hashes

LEMMA NapFacts ==
  ASSUME NEW r \in RequestType, NEW now \in Nat, r.wait # None, now < r.wait.timeout
  PROVE  Nap(r.wait, now) \in Nat /\ now + Nap(r.wait, now) <= r.wait.timeout
<1>1. r.wait.timeout \in Nat /\ r.wait.poll \in Nat
  BY RequestFacts
<1> DEFINE t == r.wait.timeout
           p == r.wait.poll
<1> HIDE DEF t, p
<1>2. Nap(r.wait, now) = IF p <= t - now THEN p ELSE t - now
  BY DEF Nap, t, p
<1>3. now < t /\ t \in Nat /\ p \in Nat
  BY <1>1 DEF t, p
<1>4. QED
  BY <1>2, <1>3 DEF t

-----------------------------------------------------------------------------
(* The chain's invariants hold in the composition: only Grow moves the     *)
(* chain, and it moves it by a block.                                      *)
LEMMA ChainMoves == [Next]_vars => [ProduceBlock]_chainVars
<1> SUFFICES ASSUME [Next]_vars PROVE [ProduceBlock]_chainVars
  OBVIOUS
<1>1. CASE Grow
  BY <1>1 DEF Grow
<1>2. CASE Elapse \/ ExporterStep \/ Fault \/ Crash
  BY <1>2 DEF Elapse, ExporterStep, Fault, Crash, Start, QueryEventBlock, Poll, ReadHead, Sleep, Climb,
              CheckExpiry, Advise, Gauge, CollectLeaves, CollectRung, CompareRoot, BeginWrite,
              EndWrite
<1>3. CASE UNCHANGED vars
  BY <1>3 DEF vars
<1>4. QED
  BY <1>1, <1>2, <1>3 DEF Next

(* What a warning can say: the layer is below the highest, and its count   *)
(* ends where the root leaves the cursor, or at a head past that.          *)
LEMMA GaugeFacts ==
  ASSUME ExporterInv, Gauge
  PROVE  /\ advice' \in [layer : {layer + 1}, left : Nat, since : Nat]
         /\ layer \in Nat /\ layer + 1 \in 1 .. MaxAnchorLayer
         /\ AnchorHeight(layer + 1) \in Nat /\ AnchorHeight(layer + 1) <= head
         /\ ExpiryHeight(layer) \in Nat
         /\ LET end == advice'.since + advice'.left IN
            end = ExpiryHeight(layer) \/ (ExpiryHeight(layer) <= end /\ end <= head)
<1>1. ExporterTypeOK /\ ResolutionInv /\ head \in Nat /\ req \in RequestType /\ pc = "gauge"
  BY MaxHeadAssumption DEF ExporterInv, ChainTypeOK, ExporterTypeOK, Gauge
<1> DEFINE end  == ExpiryHeight(layer)
           next == AnchorHeight(layer + 1)
<1>2. layer \in 1 .. MaxAnchorLayer /\ end # None /\ next <= head
  BY <1>1 DEF ResolutionInv, ValidLayer, Committed
<1>3. /\ end \in Nat /\ next \in Nat /\ next <= end
      /\ layer + 1 \in 1 .. MaxAnchorLayer
  <2>1. req.block.height \in Nat
    BY <1>1, RequestFacts
  <2>2. QED
    BY <1>2, <2>1, AnchorFacts DEF ExpiryHeight, AnchorHeight
<1>4. \/ advice' = Warning(layer, BlocksLeft(end, head), head)
      \/ advice' = Warning(layer, end - next, next)
  BY DEF Gauge
<1> HIDE DEF end, next
<1>5. CASE advice' = Warning(layer, BlocksLeft(end, head), head)
  <2>1. advice' = [layer |-> layer + 1, left |-> BlocksLeft(end, head), since |-> head]
    BY <1>5 DEF Warning
  <2>2. BlocksLeft(end, head) \in Nat
    BY <1>1, <1>3 DEF BlocksLeft
  <2>3. /\ advice' \in [layer : {layer + 1}, left : Nat, since : Nat]
        /\ advice'.since + advice'.left = head + BlocksLeft(end, head)
    BY <1>1, <2>1, <2>2
  <2>4. \/ head + BlocksLeft(end, head) = end
        \/ end <= head + BlocksLeft(end, head) /\ head + BlocksLeft(end, head) <= head
    BY <1>1, <1>3 DEF BlocksLeft
  <2>5. QED
    BY <1>2, <1>3, <2>3, <2>4 DEF end, next
<1>6. CASE advice' = Warning(layer, end - next, next)
  <2>1. advice' = [layer |-> layer + 1, left |-> end - next, since |-> next]
    BY <1>6 DEF Warning
  <2>2. end - next \in Nat /\ next + (end - next) = end
    BY <1>3
  <2>3. /\ advice' \in [layer : {layer + 1}, left : Nat, since : Nat]
        /\ advice'.since + advice'.left = end
    BY <1>3, <2>1, <2>2
  <2>4. QED
    BY <1>2, <1>3, <2>3 DEF end, next
<1>7. QED
  BY <1>4, <1>5, <1>6

LEMMA TypeInit == Init => ExporterTypeOK
<1> SUFFICES ASSUME Init PROVE ExporterTypeOK
  OBVIOUS
<1>1. ZeroHash \in Hashes
  BY DEF ZeroHash, Hashes
<1>2. /\ req \in RequestType /\ lies \in LieSets /\ pc = "idle" /\ reason = "none"
      /\ faults = MaxFaults /\ layer = 1 /\ anchor = None /\ clock = 0 /\ dueAt = None
      /\ rootCursor = ZeroHash /\ leafPos = 0 /\ rungs = <<>> /\ file = "untouched"
      /\ startHead = 0 /\ head = 0 /\ heldAtCheck = FALSE /\ spent = 0 /\ advice = None
  BY RequestsAssumption DEF Init, ChainInit
<1>3. /\ rungs \in Seq([leaf : Hashes, position : Nat]) /\ faults \in 0 .. MaxFaults
      /\ spent \in 0 .. QueryTime
  BY <1>2, FaultsAssumption
<1>4. heldAtCheck \in BOOLEAN
  BY <1>2, Zenon
<1>5. startHead \in 0 .. head /\ layer \in Nat /\ clock \in Nat /\ leafPos = 0
  BY <1>2
<1>6. QED
  BY <1>1, <1>2, <1>3, <1>4, <1>5 DEF ExporterTypeOK

(* The step's effect on the type, action by action. *)
LEMMA TypeStep == ExporterInv /\ [Next]_vars => ExporterTypeOK'
<1> SUFFICES ASSUME ExporterInv, [Next]_vars PROVE ExporterTypeOK'
  OBVIOUS
<1> USE DEF Final, Waiting, Goto, Fail
<1>1. ExporterTypeOK /\ ResolutionInv /\ head \in Nat /\ req \in RequestType
  BY MaxHeadAssumption DEF ExporterInv, ChainTypeOK, ExporterTypeOK
<1>2. req.block.height \in Nat
  BY <1>1, RequestFacts
<1>3. CASE Grow
  <2>1. head' = head + 1
    BY <1>3 DEF Grow, ProduceBlock
  <2>2. dueAt' \in Nat \cup {None}
    BY <1>1, <1>3 DEF Grow, ExporterTypeOK
  <2>3. startHead' \in 0 .. head'
    BY <1>1, <1>3, <2>1 DEF Grow, ExporterTypeOK
  <2>4. QED
    BY <1>1, <1>3, <2>2, <2>3 DEF Grow, ExporterTypeOK
<1>4. CASE Start
  BY <1>1, <1>4 DEF Start, chainVars, ExporterTypeOK
<1>5. CASE QueryEventBlock
  <2>1. layer' \in Nat
    <3>1. layer' = IF req.layer = AutoMode THEN 1 ELSE req.layer
      BY <1>5 DEF QueryEventBlock
    <3>2. req.layer \in Nat \cup {AutoMode}
      BY <1>1, RequestFacts
    <3>3. QED
      BY <3>1, <3>2
  <2>2. QED
    BY <1>1, <1>5, <2>1 DEF QueryEventBlock, chainVars, ExporterTypeOK
<1>6. CASE Poll
  <2>1. clock' \in Nat
    BY <1>1, <1>6 DEF Poll, ExporterTypeOK
  <2>2. anchor' \in Nat \cup {None}
    <3>1. ValidLayer(layer) /\ AnchorHeight(layer) # None
      BY <1>1, <1>6 DEF Poll, ResolutionInv
    <3>2. AnchorHeight(layer) \in Nat
      BY <1>2, <3>1, AnchorFacts DEF AnchorHeight, ValidLayer
    <3>3. QED
      BY <1>1, <1>6, <3>2 DEF Poll, ExporterTypeOK
  <2>3. QED
    BY <1>1, <1>6, <2>1, <2>2 DEF Poll, chainVars, ExporterTypeOK
<1>7. CASE ReadHead
  BY <1>1, <1>7 DEF ReadHead, chainVars, ExporterTypeOK
<1>8. CASE Sleep
  <2>1. clock' \in Nat /\ spent' \in 0 .. QueryTime
    BY <1>1, <1>8, NapFacts, FaultsAssumption DEF Sleep, ResolutionInv, ExporterTypeOK
  <2>2. QED
    BY <1>1, <1>8, <2>1 DEF Sleep, chainVars, ExporterTypeOK
<1>9. CASE Climb
  <2>1. layer \in Nat /\ ValidLayer(layer)
    BY <1>1, <1>9 DEF Climb, ResolutionInv, ExporterTypeOK
  <2>2. AnchorHeight(layer + 1) \in Nat \cup {None}
    BY <1>2, <2>1, AnchorFacts DEF AnchorHeight, ValidLayer
  <2>3. layer' \in Nat /\ anchor' \in Nat \cup {None}
    BY <1>1, <1>9, <2>1, <2>2 DEF Climb, ExporterTypeOK
  <2>4. QED
    BY <1>1, <1>9, <2>3 DEF Climb, chainVars, ExporterTypeOK
<1>10. CASE CheckExpiry
  <2>1. heldAtCheck' \in BOOLEAN
    BY <1>10 DEF CheckExpiry, Held
  <2>2. advice' \in Advices \cup {None}
    <3>1. advice' = advice \/ advice' = Hint(layer, AnchorHeight(layer + 1))
      BY <1>10 DEF CheckExpiry
    <3>2. layer \in Nat /\ advice \in Advices \cup {None}
      BY <1>1 DEF ExporterTypeOK, Advices
    <3>3. QED
      BY <3>1, <3>2 DEF Hint, Advices
  <2>3. QED
    BY <1>1, <1>10, <2>1, <2>2 DEF CheckExpiry, chainVars, ExporterTypeOK, Advices
<1>11. CASE Advise
  BY <1>1, <1>11 DEF Advise, chainVars, ExporterTypeOK
<1>22. CASE Gauge
  <2>1. advice' \in Advices
    BY <1>1, <1>22, GaugeFacts DEF ExporterInv, Advices
  <2>2. QED
    BY <1>1, <1>22, <2>1 DEF Gauge, chainVars, ExporterTypeOK, Advices
<1>12. CASE CollectLeaves
  <2>1. rootCursor' \in Hashes /\ leafPos' \in {0} \cup 2 .. W + 1
    <3>1. 1 \in 1 .. MaxAnchorLayer /\ 1 \in Nat
      BY LayerAssumption
    <3>2. AnchorHeight(1) \in Nat \cup {None}
      BY <1>2, <3>1, AnchorFacts DEF AnchorHeight
    <3>3. LeafPosition(req.block.height) \in 2 .. W + 1
      BY <1>2, WindowAssumption DEF LeafPosition
    <3>4. QED
      BY <1>1, <1>12, <3>1, <3>2, <3>3, RebuiltRootFacts DEF CollectLeaves, ExporterTypeOK
  <2>2. QED
    BY <1>1, <1>12, <2>1 DEF CollectLeaves, chainVars, ExporterTypeOK
<1>13. CASE CollectRung
  <2> DEFINE lower == Len(rungs) + 1
             leaves == LayerNLeaves(Answers, req.block.height, lower)
             pos    == RungPosition(req.block.height, lower)
             root   == RebuiltRoot(lower + 1, AnchorHeight(lower + 1), leaves)
             rung   == [leaf |-> rootCursor, position |-> pos]
  <2>1. rungs \in Seq([leaf : Hashes, position : Nat]) /\ rootCursor \in Hashes
    BY <1>1 DEF ExporterTypeOK
  <2>2. lower \in Nat
    BY <2>1
  <2>3. \/ UNCHANGED <<rootCursor, rungs>>
        \/ rungs' = Append(rungs, rung) /\ rootCursor' = root /\ pos # None
    BY <1>13 DEF CollectRung
  <2>4. ASSUME rungs' = Append(rungs, rung), rootCursor' = root, pos # None
        PROVE  rungs' \in Seq([leaf : Hashes, position : Nat]) /\ rootCursor' \in Hashes
    <3>1. lower \in 1 .. MaxAnchorLayer
      BY <1>1, <1>13, <2>2, LayerAssumption DEF CollectRung, ResolutionInv, ValidLayer, Committed
    <3>2. pos \in Nat
      BY <1>2, <2>4, <3>1, RungPositionFacts
    <3>3. AnchorHeight(lower + 1) \in Nat \cup {None}
      BY <1>2, <3>1, AnchorFacts DEF AnchorHeight
    <3>4. root \in Hashes
      <4> HIDE DEF lower, leaves
      <4>1. lower + 1 \in Nat
        BY <2>2
      <4>2. QED
        BY <3>3, <4>1, RebuiltRootFacts
    <3>5. rung \in [leaf : Hashes, position : Nat]
      BY <2>1, <3>2
    <3> HIDE DEF lower, leaves, pos, root, rung
    <3>6. QED
      BY <2>1, <2>4, <3>4, <3>5
  <2>5. QED
    BY <1>1, <1>13, <2>1, <2>3, <2>4 DEF CollectRung, chainVars, ExporterTypeOK
<1>14. CASE CompareRoot
  BY <1>1, <1>14 DEF CompareRoot, chainVars, ExporterTypeOK
<1>15. CASE BeginWrite
  BY <1>1, <1>15 DEF BeginWrite, chainVars, ExporterTypeOK
<1>16. CASE EndWrite
  BY <1>1, <1>16 DEF EndWrite, chainVars, ExporterTypeOK
<1>17. CASE Fault
  <2>1. faults' \in 0 .. MaxFaults
    BY <1>1, <1>17, FaultsAssumption DEF Fault, ExporterTypeOK
  <2>2. QED
    BY <1>1, <1>17, <2>1 DEF Fault, chainVars, ExporterTypeOK
<1>18. CASE Crash
  <2>1. faults' \in 0 .. MaxFaults
    BY <1>1, <1>18, FaultsAssumption DEF Crash, ExporterTypeOK
  <2>2. QED
    BY <1>1, <1>18, <2>1 DEF Crash, chainVars, ExporterTypeOK
<1>19. CASE UNCHANGED vars
  BY <1>1, <1>19 DEF vars, runVars, chainVars, ExporterTypeOK
<1>20. CASE Elapse
  BY <1>1, <1>20, FaultsAssumption DEF Elapse, chainVars, ExporterTypeOK
<1>21. QED
  BY <1>3, <1>4, <1>5, <1>6, <1>7, <1>8, <1>9, <1>10, <1>11, <1>12, <1>13, <1>14, <1>15,
     <1>16, <1>17, <1>18, <1>19, <1>20, <1>22 DEF Next, ExporterStep

-----------------------------------------------------------------------------
(* What the run knows at each point is inductive. *)

LEMMA ResolutionInit == Init => ResolutionInv
BY DEF Init, ResolutionInv, Waiting, Committed

(* The expiry check decides exactly whether the root is held: where the    *)
(* height at which the root leaves the cursor is known, and where it does  *)
(* not fit an integer and the root can no longer leave.                    *)
LEMMA CheckedIsHeld ==
  ASSUME ExporterInv, pc = "expiry"
  PROVE  Held(layer, Root(layer, anchor)) <=> ~Evicted(ExpiryHeight(layer), head)
<1>1. ExporterTypeOK /\ ResolutionInv /\ req \in RequestType /\ head \in Nat
  BY MaxHeadAssumption DEF ExporterInv, ExporterTypeOK, ChainTypeOK
<1>2. /\ layer \in 1 .. MaxAnchorLayer
      /\ anchor # None /\ anchor = AnchorHeight(layer) /\ anchor <= head
  BY <1>1 DEF ResolutionInv, ValidLayer
<1>3. req.block.height \in Nat
  BY <1>1, RequestFacts
<1>4. /\ anchor \in Nat /\ req.block.height < anchor
      /\ ExpiryHeight(layer) \in Nat \cup {None}
  BY <1>2, <1>3, AnchorFacts DEF AnchorHeight, ExpiryHeight
<1>5. req.block.height \in 0 .. head
  BY <1>1, <1>2, <1>3, <1>4
<1>6. Held(layer, Root(layer, anchor))
        <=> anchor <= head /\ (ExpiryHeight(layer) = None \/ head < ExpiryHeight(layer))
  <2>1. AcceptedExactlyInWindow
    BY WindowLemma DEF ExporterInv
  <2>2. QED
    BY <1>2, <1>5, <2>1 DEF AcceptedExactlyInWindow, AnchorHeight, ExpiryHeight
<1>7. QED
  BY <1>1, <1>2, <1>4, <1>6 DEF Evicted

LEMMA ResolutionStep == ExporterInv /\ [Next]_vars => ResolutionInv'
<1> SUFFICES ASSUME ExporterInv, [Next]_vars PROVE ResolutionInv'
  OBVIOUS
<1> USE DEF Waiting, Committed, Goto, Fail, ValidLayer
<1>1. ExporterTypeOK /\ ResolutionInv /\ head \in Nat /\ req \in RequestType
  BY MaxHeadAssumption DEF ExporterInv, ChainTypeOK, ExporterTypeOK
<1>2. req.block.height \in Nat
  BY <1>1, RequestFacts
<1>3. CASE Grow
  <2>1. head' = head + 1
    BY <1>3 DEF Grow, ProduceBlock
  <2>2. (anchor # None /\ anchor <= head) => anchor <= head'
    BY <1>1, <2>1 DEF ExporterTypeOK
  <2>3. UNCHANGED <<req, pc, layer, anchor, clock, rungs, file, heldAtCheck>>
    BY <1>3 DEF Grow
  <2>4. pc' = "gauge" => AnchorHeight(layer + 1)' <= head'
    <3>1. SUFFICES ASSUME pc = "gauge" PROVE AnchorHeight(layer + 1) <= head'
      BY <2>3 DEF AnchorHeight
    <3>2. layer \in 1 .. MaxAnchorLayer /\ AnchorHeight(layer + 1) <= head
            /\ ExpiryHeight(layer) # None
      BY <1>1, <3>1 DEF ResolutionInv
    <3>3. AnchorHeight(layer + 1) \in Nat
      BY <1>2, <3>2, AnchorFacts DEF AnchorHeight, ExpiryHeight
    <3>4. QED
      BY <1>1, <2>1, <3>2, <3>3
  <2>5. QED
    BY <1>1, <2>2, <2>3, <2>4 DEF ResolutionInv, AnchorHeight, ExpiryHeight
<1>4. CASE Start
  BY <1>1, <1>4 DEF Start, chainVars, ResolutionInv, AnchorHeight
<1>5. CASE QueryEventBlock
  <2>1. /\ pc = "block" /\ layer' = IF req.layer = AutoMode THEN 1 ELSE req.layer
        /\ UNCHANGED <<req, anchor, rungs, file, heldAtCheck>>
    BY <1>5 DEF QueryEventBlock
  <2>2. pc' = "failed" \/ (pc' = "poll" /\ AnchorHeight(layer') # None)
    BY <1>5 DEF QueryEventBlock
  <2>3. layer' \in 1 .. MaxAnchorLayer
    BY <1>1, <2>1, LayerAssumption DEF ResolutionInv
  <2>4. AnchorHeight(layer)' = AnchorHeight(layer')
    BY <2>1 DEF AnchorHeight
  <2>5. QED
    BY <1>1, <2>1, <2>2, <2>3, <2>4 DEF ResolutionInv
<1>6. CASE Poll
  <2>1. /\ pc = "poll" /\ ValidLayer(layer) /\ AnchorHeight(layer) # None
        /\ UNCHANGED <<head, req, layer, rungs, file, heldAtCheck>>
    BY <1>1, <1>6 DEF Poll, ResolutionInv, chainVars
  <2>2. \/ pc' \in {"climb", "expiry"} /\ anchor' = AnchorHeight(layer) /\ anchor' <= head
        \/ pc' = "head"
    BY <1>6 DEF Poll
  <2>3. AnchorHeight(layer)' = AnchorHeight(layer)
    BY <2>1 DEF AnchorHeight
  <2>4. QED
    BY <1>1, <2>1, <2>2, <2>3 DEF ResolutionInv
<1>7. CASE ReadHead
  BY <1>1, <1>7 DEF ReadHead, TimeLeft, chainVars, ResolutionInv, AnchorHeight
<1>8. CASE Sleep
  BY <1>1, <1>8 DEF Sleep, chainVars, ResolutionInv, AnchorHeight
<1>9. CASE Climb
  <2>1. /\ pc = "climb" /\ ValidLayer(layer) /\ layer \in Nat
        /\ anchor # None /\ anchor = AnchorHeight(layer) /\ anchor <= head /\ rungs = <<>>
        /\ UNCHANGED <<head, req, rungs, file, heldAtCheck>>
    BY <1>1, <1>9 DEF Climb, chainVars, ResolutionInv, ExporterTypeOK
  <2>2. CASE CanClimb(layer, AnchorHeight(layer + 1), anchor, head)
    <3>1. layer' = layer + 1 /\ anchor' = AnchorHeight(layer + 1) /\ pc' = "climb"
      BY <1>9, <2>2 DEF Climb
    <3>2. AnchorHeight(layer)' = AnchorHeight(layer + 1)
      BY <2>1, <3>1 DEF AnchorHeight
    <3>3. layer + 1 \in 1 .. MaxAnchorLayer /\ AnchorHeight(layer + 1) # None
            /\ AnchorHeight(layer + 1) <= head
      BY <2>1, <2>2, LayerAssumption DEF CanClimb
    <3>4. QED
      BY <1>1, <2>1, <3>1, <3>2, <3>3 DEF ResolutionInv
  <2>3. CASE ~CanClimb(layer, AnchorHeight(layer + 1), anchor, head)
    <3>1. UNCHANGED <<layer, anchor>> /\ pc' = "expiry"
      BY <1>9, <2>3 DEF Climb
    <3>2. AnchorHeight(layer)' = AnchorHeight(layer)
      BY <2>1, <3>1 DEF AnchorHeight
    <3>3. QED
      BY <1>1, <2>1, <3>1, <3>2 DEF ResolutionInv
  <2>4. QED
    BY <2>2, <2>3
<1>10. CASE CheckExpiry
  <2>1. /\ pc = "expiry" /\ ValidLayer(layer)
        /\ anchor # None /\ anchor = AnchorHeight(layer) /\ anchor <= head
        /\ rungs = <<>> /\ file = "untouched"
        /\ UNCHANGED <<head, req, layer, anchor, rungs, file>>
    BY <1>1, <1>10 DEF CheckExpiry, chainVars, ResolutionInv
  <2>2. AnchorHeight(layer)' = AnchorHeight(layer)
    BY <2>1 DEF AnchorHeight
  <2>3. heldAtCheck' <=> ~Evicted(ExpiryHeight(layer), head)
    BY <1>10, <2>1, CheckedIsHeld DEF CheckExpiry
  <2>4. \/ pc' = "failed"
        \/ /\ pc' \in {"advise", "gauge", "leaves"} /\ (req.allowExpired \/ heldAtCheck')
           /\ pc' # "leaves" => ExpiryHeight(layer) # None
           /\ pc' = "gauge" => AnchorHeight(layer + 1) = anchor
    BY <1>10, <2>3 DEF CheckExpiry
  <2>5. /\ ExpiryHeight(layer)' = ExpiryHeight(layer)
        /\ AnchorHeight(layer + 1)' = AnchorHeight(layer + 1)
    BY <2>1 DEF AnchorHeight, ExpiryHeight
  <2>6. QED
    BY <1>1, <2>1, <2>2, <2>4, <2>5 DEF ResolutionInv
<1>11. CASE Advise
  BY <1>1, <1>11 DEF Advise, chainVars, ResolutionInv, AnchorHeight, ExpiryHeight
<1>22. CASE Gauge
  BY <1>1, <1>22 DEF Gauge, chainVars, ResolutionInv, AnchorHeight
<1>12. CASE CollectLeaves
  <2>1. /\ pc = "leaves" /\ ValidLayer(layer) /\ rungs = <<>>
        /\ UNCHANGED <<head, req, layer, anchor, rungs, file, heldAtCheck>>
    BY <1>1, <1>12 DEF CollectLeaves, chainVars, ResolutionInv
  <2>2. pc' = "failed" \/ pc' = IF layer = 1 THEN "compare" ELSE "rung"
    BY <1>12 DEF CollectLeaves
  <2>3. layer = 1 => Len(rungs) + 1 = layer
    BY <2>1
  <2>4. layer # 1 => Len(rungs) + 1 < layer
    BY <2>1, LayerAssumption
  <2>5. QED
    BY <1>1, <2>1, <2>2, <2>3, <2>4 DEF ResolutionInv, AnchorHeight
<1>13. CASE CollectRung
  <2>1. /\ pc = "rung" /\ ValidLayer(layer) /\ Len(rungs) + 1 < layer /\ layer \in Nat
        /\ UNCHANGED <<head, req, layer, anchor, file, heldAtCheck>>
    BY <1>1, <1>13 DEF CollectRung, chainVars, ResolutionInv, ExporterTypeOK
  <2>2. Len(rungs) \in Nat
    BY <1>1 DEF ExporterTypeOK
  <2>3. \/ pc' = "failed"
        \/ \E rung : /\ rungs' = Append(rungs, rung)
                     /\ pc' = IF Len(rungs) + 2 = layer THEN "compare" ELSE "rung"
    BY <1>13, <2>2 DEF CollectRung
  <2>4. ASSUME NEW rung, rungs' = Append(rungs, rung)
        PROVE  Len(rungs') = Len(rungs) + 1
    BY <1>1, <2>4 DEF ExporterTypeOK
  <2>5. \/ pc' = "failed"
        \/ pc' = "compare" /\ Len(rungs') + 1 = layer
        \/ pc' = "rung" /\ Len(rungs') + 1 < layer
    BY <2>1, <2>2, <2>3, <2>4
  <2>6. QED
    BY <1>1, <2>1, <2>5 DEF ResolutionInv, AnchorHeight
<1>14. CASE CompareRoot
  BY <1>1, <1>14 DEF CompareRoot, chainVars, ResolutionInv, AnchorHeight
<1>15. CASE BeginWrite
  BY <1>1, <1>15 DEF BeginWrite, chainVars, ResolutionInv, AnchorHeight
<1>16. CASE EndWrite
  BY <1>1, <1>16 DEF EndWrite, chainVars, ResolutionInv, AnchorHeight
<1>17. CASE Fault
  BY <1>1, <1>17 DEF Fault, chainVars, ResolutionInv, AnchorHeight
<1>18. CASE Crash
  BY <1>1, <1>18 DEF Crash, chainVars, ResolutionInv, AnchorHeight
<1>19. CASE UNCHANGED vars
  BY <1>1, <1>19 DEF vars, runVars, chainVars, ResolutionInv, AnchorHeight, ExpiryHeight
<1>20. CASE Elapse
  BY <1>1, <1>20 DEF Elapse, chainVars, ResolutionInv, AnchorHeight
<1>21. QED
  BY <1>3, <1>4, <1>5, <1>6, <1>7, <1>8, <1>9, <1>10, <1>11, <1>12, <1>13, <1>14, <1>15,
     <1>16, <1>17, <1>18, <1>19, <1>20, <1>22 DEF Next, ExporterStep

LEMMA AdviceInit == Init => AdviceInv
BY DEF Init, AdviceInv

LEMMA AdviceStep == ExporterInv /\ [Next]_vars => AdviceInv'
<1> SUFFICES ASSUME ExporterInv, [Next]_vars PROVE AdviceInv'
  OBVIOUS
<1> USE DEF Waiting, Goto, Fail, ValidLayer
<1>1. /\ ExporterTypeOK /\ ResolutionInv /\ AdviceInv /\ head \in Nat /\ req \in RequestType
      /\ layer \in Nat /\ req.block.height \in Nat
  BY MaxHeadAssumption, RequestFacts DEF ExporterInv, ChainTypeOK, ExporterTypeOK
<1>2. CASE Grow
  <2>1. head' = head + 1 /\ UNCHANGED <<req, pc, reason, layer, anchor, advice>>
    BY <1>2 DEF Grow, ProduceBlock
  <2>2. CASE advice = None
    BY <1>1, <2>1, <2>2 DEF AdviceInv
  <2>3. CASE advice # None
    <3>1. /\ layer \in 1 .. MaxAnchorLayer /\ AnchorHeight(layer + 1) # None
          /\ AnchorHeight(layer + 1) <= head /\ anchor \in Nat /\ anchor <= head
      BY <1>1, <2>3 DEF AdviceInv, ExporterTypeOK
    <3>2. AnchorHeight(layer + 1) \in Nat
      BY <1>1, <3>1, AnchorFacts DEF AnchorHeight
    <3>3. AnchorHeight(layer + 1) <= head' /\ anchor <= head'
      BY <1>1, <2>1, <3>1, <3>2
    <3>4. ASSUME advice.left # None, advice.since + advice.left <= head
          PROVE  advice.since + advice.left <= head'
      <4>1. advice.left \in Nat /\ advice.since \in Nat
        BY <1>1, <2>3, <3>4 DEF AdviceInv, ExporterTypeOK, Advices
      <4>2. QED
        BY <1>1, <2>1, <3>4, <4>1
    <3>5. QED
      BY <1>1, <2>1, <2>3, <3>3, <3>4 DEF AdviceInv, AnchorHeight, ExpiryHeight
  <2>4. QED
    BY <2>2, <2>3
(* Before the expiry check no advice has been given. *)
<1>3. CASE Start \/ QueryEventBlock \/ Poll \/ ReadHead \/ Sleep \/ Climb
  <2>1. /\ pc \in Waiting \cup {"idle", "block", "climb"} /\ advice' = advice
        /\ reason' = "expired" => reason = "expired"
    BY <1>3 DEF Start, QueryEventBlock, Poll, ReadHead, Sleep, Climb
  <2>2. advice' = None /\ reason' # "expired"
    BY <1>1, <2>1 DEF AdviceInv
  <2>3. QED
    BY <2>2 DEF AdviceInv
<1>4. CASE CheckExpiry
  <2>1. /\ pc = "expiry" /\ layer \in 1 .. MaxAnchorLayer /\ advice = None
        /\ reason # "expired"
        /\ anchor # None /\ anchor = AnchorHeight(layer) /\ anchor <= head
        /\ UNCHANGED <<head, req, layer, anchor>>
    BY <1>1, <1>4 DEF CheckExpiry, chainVars, ResolutionInv, AdviceInv
  <2>2. pc' \in {"failed", "advise", "gauge", "leaves"}
    BY <1>4 DEF CheckExpiry
  <2>3. CASE ~Evicted(ExpiryHeight(layer), head)
    <3>1. advice' = None /\ reason' # "expired"
      BY <1>4, <2>1, <2>3 DEF CheckExpiry
    <3>2. QED
      BY <2>2, <3>1 DEF AdviceInv
  <2>4. CASE Evicted(ExpiryHeight(layer), head)
    <3>1. advice' = Hint(layer, AnchorHeight(layer + 1))
      BY <1>4, <2>4 DEF CheckExpiry
    <3>2. /\ AnchorHeight(layer + 1) # None /\ AnchorHeight(layer + 1) \in Nat
          /\ ExpiryHeight(layer) \in Nat
          /\ AnchorHeight(layer + 1) <= ExpiryHeight(layer)
          /\ layer + 1 \in 1 .. MaxAnchorLayer
      BY <1>1, <2>1, <2>4, AnchorFacts DEF Evicted, AnchorHeight, ExpiryHeight
    <3>3. AnchorHeight(layer + 1) <= head
      BY <1>1, <2>4, <3>2 DEF Evicted
    <3>4. advice' = [layer |-> layer + 1, left |-> None, since |-> None]
      BY <1>1, <3>1, <3>2, LayerAssumption DEF Hint
    <3>5. /\ advice'.layer = layer + 1 /\ advice'.left = None
          /\ AnchorHeight(layer)' = AnchorHeight(layer)
          /\ AnchorHeight(layer + 1)' = AnchorHeight(layer + 1)
      BY <2>1, <3>4 DEF AnchorHeight
    <3>6. advice' # None
      BY <1>1, <3>4, AdviceAssumption DEF Advices
    <3>7. QED
      BY <2>1, <2>2, <3>2, <3>3, <3>5, <3>6 DEF AdviceInv
  <2>5. QED
    BY <2>3, <2>4
<1>5. CASE Gauge
  <2>1. /\ pc = "gauge" /\ pc' = "leaves" /\ reason' = reason
        /\ layer \in 1 .. MaxAnchorLayer
        /\ anchor # None /\ anchor = AnchorHeight(layer) /\ anchor <= head
        /\ UNCHANGED <<head, req, layer, anchor>>
    BY <1>1, <1>5 DEF Gauge, chainVars, ResolutionInv, Committed
  <2>2. /\ advice'.layer = layer + 1 /\ advice'.since \in Nat
        /\ advice' # None
        /\ layer + 1 \in 1 .. MaxAnchorLayer
        /\ AnchorHeight(layer + 1) \in Nat /\ AnchorHeight(layer + 1) <= head
        /\ ExpiryHeight(layer) \in Nat
        /\ \/ advice'.since + advice'.left = ExpiryHeight(layer)
           \/ /\ ExpiryHeight(layer) <= advice'.since + advice'.left
              /\ advice'.since + advice'.left <= head
    BY <1>5, GaugeFacts, AdviceAssumption DEF Advices
  <2>3. /\ AnchorHeight(layer)' = AnchorHeight(layer)
        /\ AnchorHeight(layer + 1)' = AnchorHeight(layer + 1)
        /\ ExpiryHeight(layer)' = ExpiryHeight(layer)
    BY <2>1 DEF AnchorHeight, ExpiryHeight
  <2>4. QED
    BY <2>1, <2>2, <2>3, OptionAssumption DEF AdviceInv
(* From then on nothing it speaks of changes. *)
<1>6. CASE Advise \/ CollectLeaves \/ CollectRung \/ CompareRoot \/ BeginWrite \/ EndWrite
  <2>1. /\ pc' \notin Waiting \cup {"idle", "block", "climb", "expiry"}
        /\ UNCHANGED <<head, req, layer, anchor, advice>>
        /\ reason' = "expired" => reason = "expired"
    BY <1>6 DEF Advise, CollectLeaves, CollectRung, CompareRoot, BeginWrite, EndWrite, chainVars
  <2>2. QED
    BY <1>1, <2>1 DEF AdviceInv, AnchorHeight, ExpiryHeight
<1>7. CASE Fault \/ Crash
  <2>1. /\ pc' \in {"failed", "crashed"}
        /\ UNCHANGED <<head, req, layer, anchor, advice>>
        /\ reason' = "expired" => reason = "expired"
    BY <1>7 DEF Fault, Crash, chainVars
  <2>2. QED
    BY <1>1, <2>1 DEF AdviceInv, AnchorHeight, ExpiryHeight
<1>8. CASE Elapse
  BY <1>1, <1>8 DEF Elapse, chainVars, AdviceInv, AnchorHeight, ExpiryHeight
<1>9. CASE UNCHANGED vars
  BY <1>1, <1>9 DEF vars, runVars, chainVars, AdviceInv, AnchorHeight, ExpiryHeight
<1>10. QED
  BY <1>2, <1>3, <1>4, <1>5, <1>6, <1>7, <1>8, <1>9 DEF Next, ExporterStep

LEMMA ExporterInvInit == Init => ExporterInv
BY ChainTypeInit, CursorInit, TypeInit, ResolutionInit, AdviceInit DEF Init, ExporterInv

LEMMA ExporterInvStep == ExporterInv /\ [Next]_vars => ExporterInv'
<1> SUFFICES ASSUME ExporterInv, [Next]_vars PROVE ExporterInv'
  OBVIOUS
<1>1. ChainTypeOK' /\ CursorInv'
  BY ChainMoves, ChainTypeStep, CursorStep DEF ExporterInv
<1>2. ExporterTypeOK' /\ ResolutionInv' /\ AdviceInv'
  BY TypeStep, ResolutionStep, AdviceStep
<1>3. QED
  BY <1>1, <1>2 DEF ExporterInv

(* The run's state is well typed throughout, with the chain's. *)
THEOREM ExporterTypeCorrect == Spec => [](ChainTypeOK /\ ExporterTypeOK)
<1>1. ExporterInv => ChainTypeOK /\ ExporterTypeOK
  BY DEF ExporterInv
<1>2. QED
  BY <1>1, ExporterInvInit, ExporterInvStep, PTL DEF Spec

(* The output file is touched only by a run whose anchor root the chain    *)
(* held at the expiry check, or that was told not to mind.                 *)
THEOREM TouchedOnlyIfHeldAlways == Spec => []TouchedOnlyIfHeld
<1>1. ExporterInv => TouchedOnlyIfHeld
  BY DEF ExporterInv, ResolutionInv, TouchedOnlyIfHeld
<1>2. QED
  BY <1>1, ExporterInvInit, ExporterInvStep, PTL DEF Spec

(* What the exporter tells its caller holds, and goes on holding: an       *)
(* expired root is refused only with a layer above it, whose root is       *)
(* published; and the count of a warning ends where the chain stops        *)
(* accepting the root.                                                     *)
LEMMA AdviceLemma == ExporterInv => AdviceHolds
<1> SUFFICES ASSUME ExporterInv PROVE AdviceHolds
  OBVIOUS
<1>1. /\ ExporterTypeOK /\ AdviceInv /\ head \in Nat /\ req.block.height \in Nat
      /\ AcceptedExactlyInWindow
  BY MaxHeadAssumption, RequestFacts, WindowLemma
     DEF ExporterInv, ChainTypeOK, ExporterTypeOK
<1>2. ASSUME advice # None, advice.left # None
      PROVE  Held(layer, Root(layer, anchor)) <=> head < advice.since + advice.left
  <2> DEFINE end == ExpiryHeight(layer)
             told == advice.since + advice.left
  <2>1. /\ layer \in 1 .. MaxAnchorLayer
        /\ anchor \in Nat /\ anchor = AnchorHeight(layer) /\ anchor # None /\ anchor <= head
        /\ end # None /\ (end = told \/ (end <= told /\ told <= head))
    BY <1>1, <1>2 DEF AdviceInv, ExporterTypeOK, ValidLayer
  <2>2. told \in Nat
    <3>1. advice.left \in Nat /\ advice.since \in Nat
      BY <1>1, <1>2 DEF AdviceInv, ExporterTypeOK, Advices
    <3>2. QED
      BY <3>1
  <2>3. end \in Nat /\ req.block.height \in 0 .. head
    BY <1>1, <2>1, AnchorFacts DEF AnchorHeight, ExpiryHeight
  <2>4. Held(layer, Root(layer, anchor)) <=> anchor <= head /\ head < end
    BY <1>1, <2>1, <2>3 DEF AcceptedExactlyInWindow, AnchorHeight, ExpiryHeight
  <2> HIDE DEF end, told
  <2>5. QED
    BY <1>1, <2>1, <2>2, <2>3, <2>4 DEF told
<1>3. QED
  BY <1>1, <1>2 DEF AdviceInv, AdviceHolds

THEOREM AdviceHoldsAlways == Spec => []AdviceHolds
BY AdviceLemma, ExporterInvInit, ExporterInvStep, PTL DEF Spec

-----------------------------------------------------------------------------
(* The run implements its promise. *)

LEMMA SameHeights ==
  ASSUME NEW h, NEW n
  PROVE  /\ Promised!AnchorBlockHeight(h, n) = AnchorBlockHeight(h, n)
         /\ Promised!AnchorExpiryHeight(h, n) = AnchorExpiryHeight(h, n)
BY DEF Promised!AnchorBlockHeight, Promised!AnchorExpiryHeight, Promised!Stride,
       Promised!Checked, AnchorBlockHeight, AnchorExpiryHeight, Stride, Checked

LEMMA PromiseStarts == Init => Promised!PromiseInit
<1> SUFFICES ASSUME Init PROVE Promised!PromiseInit
  OBVIOUS
<1>1. head = 0 /\ req \in RequestType /\ pc = "idle" /\ file = "untouched"
  BY RequestsAssumption DEF Init, ChainInit
<1>2. PromiseStatus = "working"
  BY <1>1 DEF PromiseStatus, Committed
<1>3. req.block.height \in Nat /\ req.allowExpired \in BOOLEAN
  BY <1>1, RequestFacts
<1>4. [height |-> req.block.height, allowExpired |-> req.allowExpired]
        \in [height : Nat, allowExpired : BOOLEAN]
  BY <1>3
<1>5. QED
  BY <1>1, <1>2, <1>4 DEF Promised!PromiseInit

(* A run past the expiry check without failing has a usable layer. *)
LEMMA CommitsToUsable ==
  ASSUME ExporterInv, CheckExpiry, pc' # "failed"
  PROVE  layer \in 1 .. MaxAnchorLayer /\ Promised!Usable(layer)
<1>1. ExporterTypeOK /\ ResolutionInv /\ req \in RequestType /\ head \in Nat /\ pc = "expiry"
  BY MaxHeadAssumption DEF ExporterInv, ExporterTypeOK, ChainTypeOK, CheckExpiry
<1>2. /\ layer \in 1 .. MaxAnchorLayer
      /\ AnchorHeight(layer) # None /\ AnchorHeight(layer) <= head
  BY <1>1 DEF ResolutionInv, ValidLayer
<1>3. ExpiryHeight(layer) \in Nat \cup {None}
  BY <1>1, <1>2, RequestFacts, AnchorFacts DEF ExpiryHeight
<1>4. ~Evicted(ExpiryHeight(layer), head) \/ req.allowExpired
  BY DEF CheckExpiry, Fail
<1>5. req.allowExpired \/ ExpiryHeight(layer) = None \/ head < ExpiryHeight(layer)
  BY <1>1, <1>3, <1>4 DEF Evicted
<1>6. QED
  BY <1>2, <1>5, SameHeights DEF Promised!Usable, AnchorHeight, ExpiryHeight

LEMMA PromiseStep ==
  ExporterInv /\ [Next]_vars => [Promised!PromiseNext]_(Promised!promiseVars)
<1> SUFFICES ASSUME ExporterInv, [Next]_vars
             PROVE  [Promised!PromiseNext]_(Promised!promiseVars)
  OBVIOUS
<1> DEFINE status == PromiseStatus
           chosen == IF PromiseStatus \in {"committed", "done"} THEN layer ELSE 0
           ask    == [height |-> req.block.height, allowExpired |-> req.allowExpired]
           Same   == UNCHANGED <<head, ask, status, chosen, file>>
<1> USE DEF Goto, Fail, Committed
<1>1. ExporterTypeOK /\ ResolutionInv /\ head \in Nat
  BY MaxHeadAssumption DEF ExporterInv, ChainTypeOK
<1>2. CASE Grow
  <2>1. head' = head + 1 /\ UNCHANGED <<req, pc, layer, file>>
    BY <1>2 DEF Grow, ProduceBlock
  <2>2. status' = status /\ chosen' = chosen /\ ask' = ask /\ head' > head
    BY <1>1, <2>1 DEF PromiseStatus
  <2>3. Promised!Grow
    BY <2>1, <2>2 DEF Promised!Grow
  <2>4. QED
    BY <2>3 DEF Promised!PromiseNext
(* Before the commitment a step fails, or the promise does not see it.     *)
<1>3. CASE Start \/ QueryEventBlock \/ Poll \/ ReadHead \/ Sleep \/ Climb
  <2>1. /\ pc \in Waiting \cup {"idle", "block", "climb"}
        /\ pc' \in Waiting \cup {"failed", "block", "climb", "expiry"}
        /\ UNCHANGED <<head, req, file>>
    BY <1>3 DEF Start, QueryEventBlock, Poll, ReadHead, Sleep, Climb, chainVars, Waiting
  <2>2. status = "working" /\ chosen = 0 /\ ask' = ask
    BY <2>1 DEF PromiseStatus, Waiting
  <2>3. status' \in {"working", "stopped"} /\ chosen' = 0
    BY <2>1 DEF PromiseStatus, Waiting
  <2>4. CASE status' = "stopped"
    BY <2>1, <2>2, <2>3, <2>4 DEF Promised!Stop, Promised!PromiseNext
  <2>5. CASE status' = "working"
    BY <2>1, <2>2, <2>3, <2>5 DEF Promised!promiseVars
  <2>6. QED
    BY <2>3, <2>4, <2>5
<1>4. CASE CheckExpiry
  <2>1. /\ pc = "expiry" /\ pc' \in {"failed", "advise", "gauge", "leaves"}
        /\ UNCHANGED <<head, req, layer, file>>
    BY <1>4 DEF CheckExpiry, chainVars
  <2>2. status = "working" /\ ask' = ask
    BY <2>1 DEF PromiseStatus
  <2>3. CASE pc' = "failed"
    <3>1. status' = "stopped" /\ chosen' = 0
      BY <2>3 DEF PromiseStatus
    <3>2. QED
      BY <2>1, <2>2, <3>1 DEF Promised!Stop, Promised!PromiseNext
  <2>4. CASE pc' # "failed"
    <3>1. status' = "committed" /\ chosen' = layer
      BY <2>1, <2>4 DEF PromiseStatus
    <3>2. layer \in 1 .. MaxAnchorLayer /\ Promised!Usable(layer)
      BY <1>4, <2>4, CommitsToUsable
    <3>3. Promised!Commit
      BY <2>1, <2>2, <3>1, <3>2 DEF Promised!Commit
    <3>4. QED
      BY <3>3 DEF Promised!PromiseNext
  <2>5. QED
    BY <2>3, <2>4
<1>5. CASE Advise \/ Gauge \/ CollectLeaves \/ CollectRung \/ CompareRoot
  <2>1. /\ pc \in {"advise", "gauge", "leaves", "rung", "compare"}
        /\ pc' \in {"failed", "gauge", "leaves", "rung", "compare", "writing"}
        /\ UNCHANGED <<head, req, layer, file>>
    BY <1>5 DEF Advise, Gauge, CollectLeaves, CollectRung, CompareRoot, chainVars
  <2>2. status = "committed" /\ chosen = layer /\ ask' = ask
    BY <2>1 DEF PromiseStatus
  <2>3. CASE pc' = "failed"
    <3>1. status' = "stopped" /\ chosen' = 0
      BY <2>3 DEF PromiseStatus
    <3>2. QED
      BY <2>1, <2>2, <3>1 DEF Promised!Stop, Promised!PromiseNext
  <2>4. CASE pc' # "failed"
    <3>1. status' = "committed" /\ chosen' = layer
      BY <2>1, <2>4 DEF PromiseStatus
    <3>2. QED
      BY <2>1, <2>2, <3>1 DEF Promised!promiseVars
  <2>5. QED
    BY <2>3, <2>4
<1>6. CASE BeginWrite
  <2>1. /\ pc = "writing" /\ file = "untouched" /\ file' = "torn"
        /\ UNCHANGED <<head, req, pc, layer>>
    BY <1>6 DEF BeginWrite, chainVars
  <2>2. status = "committed" /\ UNCHANGED <<status, chosen, ask>>
    BY <2>1 DEF PromiseStatus
  <2>3. QED
    BY <2>1, <2>2 DEF Promised!Write, Promised!PromiseNext
<1>7. CASE EndWrite
  <2>1. /\ pc = "writing" /\ pc' = "written" /\ file = "torn" /\ file' = "new"
        /\ UNCHANGED <<head, req, layer>>
    BY <1>7 DEF EndWrite, chainVars
  <2>2. status = "committed" /\ status' = "done" /\ UNCHANGED <<chosen, ask>>
    BY <2>1 DEF PromiseStatus
  <2>3. QED
    BY <2>1, <2>2 DEF Promised!Finish, Promised!PromiseNext
<1>8. CASE Fault \/ Crash
  <2>1. pc \notin Final /\ pc' \in {"failed", "crashed"} /\ UNCHANGED <<head, req, file>>
    BY <1>8 DEF Fault, Crash, Fallible, Awaiting, Final, chainVars
  <2>2. status \in {"working", "committed"} /\ ask' = ask
    BY <2>1 DEF PromiseStatus, Final
  <2>3. status' = "stopped" /\ chosen' = 0
    BY <2>1 DEF PromiseStatus
  <2>4. QED
    BY <2>1, <2>2, <2>3 DEF Promised!Stop, Promised!PromiseNext
<1>9. CASE UNCHANGED vars
  BY <1>9 DEF vars, runVars, chainVars, PromiseStatus, Promised!promiseVars
<1>10. CASE Elapse
  BY <1>10 DEF Elapse, chainVars, PromiseStatus, Promised!promiseVars
<1>11. QED
  BY <1>2, <1>3, <1>4, <1>5, <1>6, <1>7, <1>8, <1>9, <1>10 DEF Next, ExporterStep

(* Every run implements AnchorPromise: it touches the output only after it *)
(* committed to a layer that was published and, unless expired anchors are *)
(* allowed, not evicted at that moment.                                    *)
THEOREM PromiseKept == Spec => KeepsPromise
BY PromiseStarts, PromiseStep, ExporterInvInit, ExporterInvStep, PTL
   DEF Spec, KeepsPromise, Promised!Promise

-----------------------------------------------------------------------------
(* Layers are published in order. *)

(* A higher layer's root over an event is published no earlier, and has a  *)
(* height only if the lower one has.                                       *)
LEMMA AnchorsAscend ==
  ASSUME NEW h \in Nat, NEW m \in 1 .. MaxAnchorLayer, NEW n \in 1 .. MaxAnchorLayer, m <= n,
         AnchorBlockHeight(h, n) # None
  PROVE  /\ AnchorBlockHeight(h, m) \in Nat /\ AnchorBlockHeight(h, n) \in Nat
         /\ AnchorBlockHeight(h, m) # None
         /\ AnchorBlockHeight(h, m) <= AnchorBlockHeight(h, n)
<1> DEFINE T(i)  == AnchorBlockHeight(h, i)
           Up(d) == m + d \in 1 .. MaxAnchorLayer /\ T(m + d) # None =>
                      T(m) \in Nat /\ T(m + d) \in Nat /\ T(m) <= T(m + d)
           S     == {d \in Nat : Up(d)}
<1>1. m \in Nat /\ MaxAnchorLayer \in Nat /\ n \in Nat
  BY LayerAssumption
<1>2. 0 \in S
  <2>1. m + 0 = m
    BY <1>1
  <2>2. T(m) # None => T(m) \in Nat
    BY AnchorFacts
  <2> HIDE DEF T
  <2>3. QED
    BY <2>1, <2>2
<1>3. ASSUME NEW d \in Nat, d \in S PROVE d + 1 \in S
  <2> SUFFICES ASSUME m + (d + 1) \in 1 .. MaxAnchorLayer, T(m + (d + 1)) # None
               PROVE  T(m) \in Nat /\ T(m + (d + 1)) \in Nat /\ T(m) <= T(m + (d + 1))
    OBVIOUS
  <2> DEFINE k == m + d
  <2>1. k \in 1 .. MaxAnchorLayer /\ m + (d + 1) = k + 1
    BY <1>1
  <2> HIDE DEF k
  <2>2. T(k) # None /\ T(k) \in Nat /\ T(k + 1) \in Nat /\ T(k) <= T(k + 1)
    BY <2>1, AnchorsNest
  <2>3. T(m) \in Nat /\ T(m) <= T(k)
    BY <1>3, <2>1, <2>2 DEF k
  <2> HIDE DEF T
  <2>4. QED
    BY <2>1, <2>2, <2>3
<1> HIDE DEF S
<1>4. \A d \in Nat : d \in S
  BY <1>2, <1>3, Induction
<1>5. n - m \in Nat /\ m + (n - m) = n
  BY <1>1
<1>6. Up(n - m)
  BY <1>4, <1>5 DEF S
<1>7. T(m) \in Nat /\ T(n) \in Nat /\ T(m) <= T(n)
  BY <1>5, <1>6
<1>8. QED
  BY <1>7, OptionAssumption

(* The layer "auto" has climbed to is the highest one produced so far.     *)
AutoInv ==
  pc \in Committed \cup {"expiry"} /\ req.layer = AutoMode =>
    \A n \in 1 .. MaxAnchorLayer :
      AnchorHeight(n) # None /\ AnchorHeight(n) <= startHead => n <= layer

LEMMA AutoInit == Init => AutoInv
BY DEF Init, AutoInv, Committed

(* The climb stops only where no produced layer is left. *)
LEMMA ClimbEnds ==
  ASSUME ExporterInv, Climb, pc' = "expiry",
         NEW n \in 1 .. MaxAnchorLayer, AnchorHeight(n) # None, AnchorHeight(n) <= startHead
  PROVE  n <= layer
<1> DEFINE next == AnchorHeight(layer + 1)
<1>1. /\ ExporterTypeOK /\ ResolutionInv /\ head \in Nat /\ req.block.height \in Nat
      /\ startHead \in 0 .. head
  BY MaxHeadAssumption, RequestFacts DEF ExporterInv, ChainTypeOK, ExporterTypeOK
<1>2. layer \in 1 .. MaxAnchorLayer /\ pc = "climb"
  BY <1>1 DEF Climb, ResolutionInv, ValidLayer
<1>3. ~CanClimb(layer, next, anchor, head)
  BY DEF Climb, Goto
<1> SUFFICES ASSUME ~(n <= layer) PROVE FALSE
  OBVIOUS
<1>4. layer + 1 \in 1 .. MaxAnchorLayer /\ layer + 1 <= n /\ layer < MaxAnchorLayer
  BY <1>2, LayerAssumption
<1>5. next # None /\ next \in Nat /\ AnchorHeight(n) \in Nat /\ next <= AnchorHeight(n)
  BY <1>1, <1>4, AnchorsAscend DEF AnchorHeight
<1>6. next <= head
  BY <1>1, <1>5
<1>7. QED
  BY <1>3, <1>4, <1>5, <1>6 DEF CanClimb

LEMMA AutoStep == ExporterInv /\ AutoInv /\ [Next]_vars => AutoInv'
<1> SUFFICES ASSUME ExporterInv, AutoInv, [Next]_vars PROVE AutoInv'
  OBVIOUS
<1> USE DEF Committed, Goto, Fail
<1>1. CASE Climb
  <2>1. UNCHANGED <<req, startHead>> /\ pc' \in {"climb", "expiry"}
        /\ (pc' = "expiry" => layer' = layer)
    BY <1>1 DEF Climb
  <2>2. QED
    BY <1>1, <2>1, ClimbEnds DEF AutoInv, AnchorHeight
<1>2. CASE Poll
  <2>1. UNCHANGED req /\ (pc' \in {"climb", "head"} \/ req.layer # AutoMode)
    BY <1>2 DEF Poll
  <2>2. QED
    BY <2>1 DEF AutoInv
<1>3. CASE Start \/ QueryEventBlock \/ ReadHead \/ Sleep \/ Crash \/ Fault
  <2>1. pc' \notin Committed \cup {"expiry"}
    BY <1>3 DEF Start, QueryEventBlock, ReadHead, Sleep, Crash, Fault
  <2>2. QED
    BY <2>1 DEF AutoInv
<1>4. CASE \/ CheckExpiry \/ Advise \/ Gauge \/ CollectLeaves \/ CollectRung \/ CompareRoot
           \/ BeginWrite \/ EndWrite
  <2>1. pc \in Committed \cup {"expiry"} /\ UNCHANGED <<req, startHead, layer>>
    BY <1>4 DEF CheckExpiry, Advise, Gauge, CollectLeaves, CollectRung, CompareRoot, BeginWrite,
                EndWrite
  <2>2. QED
    BY <2>1 DEF AutoInv, AnchorHeight
<1>5. CASE Grow \/ Elapse \/ UNCHANGED vars
  BY <1>5 DEF Grow, Elapse, vars, runVars, AutoInv, AnchorHeight
<1>6. QED
  BY <1>1, <1>2, <1>3, <1>4, <1>5 DEF Next, ExporterStep

(* "auto" ends at least as high as any layer that was produced when the    *)
(* run began, and only at a layer whose root is published.                 *)
THEOREM AutoTakesTheHighestAlways == Spec => []AutoTakesTheHighest
<1>1. ExporterInv /\ AutoInv => AutoTakesTheHighest
  BY DEF ExporterInv, ResolutionInv, AutoInv, AutoTakesTheHighest
<1>2. QED
  BY <1>1, ExporterInvInit, ExporterInvStep, AutoInit, AutoStep, PTL DEF Spec

-----------------------------------------------------------------------------
(* How long a run waits.                                                   *)

(* The clock passes the deadline only by what the queries of this turn     *)
(* took, and a run that is about to look at it has found its block missing *)
(* at the start of the turn: either it still is, or it came since.         *)
WaitInv ==
  req.wait # None =>
    /\ clock <= req.wait.timeout + spent
    /\ pc \in {"idle", "block"} => clock = 0
    /\ pc = "head" => \/ head < AnchorHeight(layer)
                      \/ dueAt # None /\ clock <= dueAt + spent

(* A run that gave up did so at its deadline or later, and if the block    *)
(* had come long before that, the last poll would have found it.           *)
GaveUpInv ==
  reason = "gave_up" =>
    /\ pc = "failed" /\ req.wait # None /\ req.wait.timeout <= clock
    /\ AnchorHeight(layer) \in Nat
    /\ \/ head < AnchorHeight(layer)
       \/ dueAt # None /\ req.wait.timeout <= dueAt + QueryTime

LEMMA WaitFacts ==
  ASSUME ExporterTypeOK
  PROVE  /\ req.wait # None => req.wait.timeout \in Nat /\ req.wait.poll \in Nat \ {0}
         /\ clock \in Nat /\ spent \in Nat /\ spent <= QueryTime /\ QueryTime \in Nat
         /\ dueAt # None => dueAt \in Nat
         /\ req.block.height \in Nat
BY RequestFacts, FaultsAssumption DEF ExporterTypeOK

(* The height awaited is one.                                              *)
LEMMA AwaitedHeight ==
  ASSUME ExporterTypeOK, ResolutionInv, pc \in Waiting
  PROVE  AnchorHeight(layer) \in Nat
BY WaitFacts, AnchorFacts DEF ResolutionInv, ValidLayer, AnchorHeight

LEMMA WaitInit == Init => WaitInv /\ GaveUpInv
<1> SUFFICES ASSUME Init PROVE WaitInv /\ GaveUpInv
  OBVIOUS
<1>1. clock = 0 /\ spent = 0 /\ pc = "idle" /\ reason = "none" /\ req \in RequestType
  BY RequestsAssumption DEF Init
<1>2. req.wait # None => req.wait.timeout \in Nat
  BY <1>1, RequestFacts
<1>3. QED
  BY <1>1, <1>2 DEF WaitInv, GaveUpInv

LEMMA WaitStep == ExporterInv /\ WaitInv /\ [Next]_vars => WaitInv'
<1> SUFFICES ASSUME ExporterInv, WaitInv, [Next]_vars, req'.wait # None PROVE WaitInv'
  BY DEF WaitInv
<1> USE DEF Goto, Fail
<1>1. ExporterTypeOK /\ ResolutionInv /\ head \in Nat
  BY MaxHeadAssumption DEF ExporterInv, ChainTypeOK
<1>2. CASE Grow
  <2>1. head' = head + 1 /\ UNCHANGED <<req, pc, layer, clock, spent>> /\ req.wait # None
    BY <1>2 DEF Grow, ProduceBlock
  <2>2. CASE pc # "head"
    BY <2>1, <2>2 DEF WaitInv
  <2>3. CASE pc = "head"
    <3>1. AnchorHeight(layer) \in Nat /\ AnchorHeight(layer)' = AnchorHeight(layer)
      BY <1>1, <2>1, <2>3, AwaitedHeight DEF Waiting, AnchorHeight
    <3>2. CASE head' = AnchorHeight(layer)
      <4>1. dueAt' = clock
        BY <1>2, <2>1, <2>3, <3>2 DEF Grow, Waiting
      <4>2. dueAt' # None /\ clock <= dueAt' + spent
        BY <1>1, <4>1, WaitFacts, OptionAssumption
      <4>3. QED
        BY <2>1, <2>3, <4>2 DEF WaitInv
    <3>3. CASE head' # AnchorHeight(layer)
      <4>1. dueAt' = dueAt
        BY <1>2, <3>3 DEF Grow
      <4>2. head < AnchorHeight(layer) => head' < AnchorHeight(layer)
        BY <1>1, <2>1, <3>1, <3>3
      <4>3. QED
        BY <2>1, <2>3, <3>1, <4>1, <4>2 DEF WaitInv
    <3>4. QED
      BY <3>2, <3>3
  <2>4. QED
    BY <2>2, <2>3
<1>3. CASE Elapse
  <2>1. /\ UNCHANGED <<head, req, pc, layer, dueAt>> /\ pc \in {"poll", "head"}
        /\ clock' = clock + 1 /\ spent' = spent + 1 /\ req.wait # None
    BY <1>3 DEF Elapse, chainVars
  <2>2. clock' <= req.wait.timeout + spent'
    BY <1>1, <2>1, WaitFacts DEF WaitInv
  <2>3. dueAt # None /\ clock <= dueAt + spent => clock' <= dueAt + spent'
    BY <1>1, <2>1, WaitFacts
  <2>4. QED
    BY <2>1, <2>2, <2>3 DEF WaitInv, AnchorHeight
<1>4. CASE Sleep
  <2>1. /\ clock' = clock + Nap(req.wait, clock) /\ spent' = 0 /\ pc' = "poll" /\ req' = req
        /\ req.wait # None /\ clock < req.wait.timeout
    BY <1>1, <1>4 DEF Sleep, ResolutionInv
  <2>2. clock' <= req.wait.timeout
    BY <1>1, <2>1, WaitFacts, NapFacts DEF ExporterTypeOK
  <2>3. QED
    BY <1>1, <2>1, <2>2, WaitFacts DEF WaitInv
<1>5. CASE Poll
  <2>1. /\ UNCHANGED <<head, req, layer, clock, spent, dueAt>>
        /\ pc' \in {"climb", "expiry", "head"}
        /\ pc' = "head" => ~(AnchorHeight(layer) <= head)
    BY <1>5 DEF Poll, chainVars
  <2>2. AnchorHeight(layer) \in Nat
    BY <1>1, <1>5, AwaitedHeight DEF Poll, Waiting
  <2>3. pc' = "head" => head < AnchorHeight(layer)
    BY <1>1, <2>1, <2>2
  <2>4. QED
    BY <2>1, <2>3 DEF WaitInv, AnchorHeight
<1>6. CASE Start
  <2>1. pc = "idle" /\ pc' \in {"block", "failed"} /\ UNCHANGED <<req, clock, spent>>
    BY <1>6 DEF Start
  <2>2. QED
    BY <2>1 DEF WaitInv
<1>7. CASE \/ QueryEventBlock \/ ReadHead \/ Climb \/ CheckExpiry \/ Advise \/ Gauge
           \/ CollectLeaves \/ CollectRung \/ CompareRoot \/ EndWrite \/ Fault \/ Crash
  <2>1. pc' \notin {"head", "idle", "block"} /\ UNCHANGED <<req, clock, spent>>
    BY <1>7 DEF QueryEventBlock, ReadHead, Climb, CheckExpiry, Advise, Gauge, CollectLeaves,
                CollectRung, CompareRoot, EndWrite, Fault, Crash
  <2>2. QED
    BY <2>1 DEF WaitInv
<1>8. CASE BeginWrite \/ UNCHANGED vars
  <2>1. UNCHANGED <<head, req, pc, layer, clock, spent, dueAt>>
    BY <1>8 DEF BeginWrite, vars, chainVars, runVars
  <2>2. QED
    BY <2>1 DEF WaitInv, AnchorHeight
<1>9. QED
  BY <1>2, <1>3, <1>4, <1>5, <1>6, <1>7, <1>8 DEF Next, ExporterStep

LEMMA GaveUpStep == ExporterInv /\ WaitInv /\ GaveUpInv /\ [Next]_vars => GaveUpInv'
<1> SUFFICES ASSUME ExporterInv, WaitInv, GaveUpInv, [Next]_vars, reason' = "gave_up"
             PROVE  GaveUpInv'
  BY DEF GaveUpInv
<1> USE DEF Goto, Fail
<1>1. ExporterTypeOK /\ ResolutionInv /\ head \in Nat
  BY MaxHeadAssumption DEF ExporterInv, ChainTypeOK
<1>2. CASE ReadHead
  <2>1. /\ pc = "head" /\ UNCHANGED <<head, req, layer, clock, dueAt>>
    BY <1>2 DEF ReadHead, chainVars
  <2>2. reason # "gave_up"
    BY <2>1 DEF GaveUpInv
  <2>3. pc' = "failed" /\ req.wait # None /\ ~TimeLeft(req.wait, clock)
    BY <1>2, <2>2 DEF ReadHead
  <2>4. req.wait.timeout <= clock
    BY <1>1, <2>3, WaitFacts DEF TimeLeft
  <2>5. AnchorHeight(layer) \in Nat
    BY <1>1, <2>1, AwaitedHeight DEF Waiting
  <2>6. head < AnchorHeight(layer) \/ (dueAt # None /\ clock <= dueAt + spent)
    BY <2>1, <2>3 DEF WaitInv
  <2>7. dueAt # None /\ clock <= dueAt + spent => req.wait.timeout <= dueAt + QueryTime
    BY <1>1, <2>3, <2>4, WaitFacts
  <2>8. QED
    BY <2>1, <2>3, <2>4, <2>5, <2>6, <2>7 DEF GaveUpInv, AnchorHeight
<1>3. CASE Grow
  <2>1. head' = head + 1 /\ UNCHANGED <<req, pc, reason, layer, clock>>
    BY <1>3 DEF Grow, ProduceBlock
  <2>2. /\ pc = "failed" /\ req.wait # None /\ req.wait.timeout <= clock
        /\ AnchorHeight(layer) \in Nat /\ AnchorHeight(layer)' = AnchorHeight(layer)
        /\ \/ head < AnchorHeight(layer)
           \/ dueAt # None /\ req.wait.timeout <= dueAt + QueryTime
    BY <2>1 DEF GaveUpInv, AnchorHeight
  <2>3. CASE head' = AnchorHeight(layer)
    <3>1. dueAt' = clock
      BY <1>3, <2>2, <2>3 DEF Grow
    <3>2. dueAt' # None /\ req.wait.timeout <= dueAt' + QueryTime
      BY <1>1, <2>2, <3>1, WaitFacts, OptionAssumption
    <3>3. QED
      BY <2>1, <2>2, <3>2 DEF GaveUpInv
  <2>4. CASE head' # AnchorHeight(layer)
    <3>1. dueAt' = dueAt
      BY <1>3, <2>4 DEF Grow
    <3>2. head < AnchorHeight(layer) => head' < AnchorHeight(layer)
      BY <1>1, <2>1, <2>2, <2>4
    <3>3. QED
      BY <2>1, <2>2, <3>1, <3>2 DEF GaveUpInv
  <2>5. QED
    BY <2>3, <2>4
<1>4. CASE UNCHANGED vars
  BY <1>4 DEF vars, chainVars, runVars, GaveUpInv, AnchorHeight
(* No other step gives up, and none follows a failure.                     *)
<1>5. CASE \/ Elapse \/ Start \/ QueryEventBlock \/ Poll \/ Sleep \/ Climb \/ CheckExpiry
           \/ Advise \/ Gauge \/ CollectLeaves \/ CollectRung \/ CompareRoot \/ BeginWrite
           \/ EndWrite \/ Fault \/ Crash
  <2>1. pc # "failed"
    BY <1>5 DEF Elapse, Start, QueryEventBlock, Poll, Sleep, Climb, CheckExpiry, Advise, Gauge,
                CollectLeaves, CollectRung, CompareRoot, BeginWrite, EndWrite, Fault, Fallible,
                Awaiting, Crash, Final
  <2>2. reason # "gave_up"
    BY <2>1 DEF GaveUpInv
  <2>3. reason' # "gave_up"
    BY <1>5, <2>2 DEF Elapse, Start, QueryEventBlock, Poll, Sleep, Climb, CheckExpiry, Advise,
                Gauge, CollectLeaves, CollectRung, CompareRoot, BeginWrite, EndWrite, Fault, Crash
  <2>4. QED
    BY <2>3
<1>6. QED
  BY <1>2, <1>3, <1>4, <1>5 DEF Next, ExporterStep

LEMMA ExporterWaits ==
  Spec => [](ExporterInv /\ WaitInv /\ GaveUpInv)
BY ExporterInvInit, ExporterInvStep, WaitInit, WaitStep, GaveUpStep, PTL DEF Spec

(* A wait ends by its deadline, give or take the queries of one turn, for  *)
(* every timeout and poll interval.                                        *)
THEOREM WaitNeverOverrunsAlways == Spec => []WaitNeverOverruns
<1>1. ExporterInv /\ WaitInv => WaitNeverOverruns
  <2> SUFFICES ASSUME ExporterTypeOK, WaitInv, req.wait # None
               PROVE  clock <= req.wait.timeout + QueryTime
    BY DEF ExporterInv, WaitNeverOverruns
  <2>1. QED
    BY WaitFacts DEF WaitInv
<1>2. QED
  BY <1>1, ExporterWaits, PTL

(* A wait gives up only if the block came too late for its last turn.      *)
THEOREM GivesUpOnlyIfLateAlways == Spec => []GivesUpOnlyIfLate
<1>1. ExporterInv /\ GaveUpInv => GivesUpOnlyIfLate
  <2> SUFFICES ASSUME ExporterTypeOK, GaveUpInv, reason = "gave_up"
               PROVE  \/ head < AnchorHeight(layer)
                      \/ dueAt # None /\ dueAt + QueryTime >= req.wait.timeout
    BY DEF ExporterInv, GivesUpOnlyIfLate
  <2>1. QED
    BY WaitFacts DEF GaveUpInv
<1>2. QED
  BY <1>1, ExporterWaits, PTL

-----------------------------------------------------------------------------
(* What the exporter rebuilds.                                             *)

Collected == {"rung", "compare", "writing", "written"}

(* The last root rebuilt is of the tree after the last rung; each rung is  *)
(* at the position computed for it.  If the last root is the published     *)
(* one, so are all below it: a misreport anywhere changes every root       *)
(* above.  And it is the published one if the node misreports nothing, or  *)
(* not the anchor's root, with which it was compared.                      *)
RungInv ==
  pc \in Collected =>
    LET top == Len(rungs) + 1 IN
    /\ EventLeaf = BlockLeaf(req.block.height)
    /\ leafPos = LeafPosition(req.block.height)
    /\ rootCursor \in {Root(top, AnchorHeight(top)), <<"other", top, AnchorHeight(top)>>}
    /\ \A i \in 1 .. Len(rungs) : rungs[i].position = RungPosition(req.block.height, i)
    /\ rootCursor = Root(top, AnchorHeight(top)) =>
         \A i \in 1 .. Len(rungs) : rungs[i].leaf = Root(i, AnchorHeight(i))
    /\ lies = {} => rootCursor = Root(top, AnchorHeight(top))
    /\ pc \in {"writing", "written"} /\ ~Lying(layer, anchor, FALSE) =>
         rootCursor = Root(top, AnchorHeight(top))

(* A truthful node's answers are its chain's roots.                        *)
LEMMA TruthfulAnswers == lies = {} => Answers = Report
<1> SUFFICES ASSUME lies = {} PROVE Answers = Report
  OBVIOUS
<1> DEFINE A(h) == [n \in {m \in DOMAIN Report[h] : ~Lying(m, h, TRUE)} |->
                      IF Lying(n, h, FALSE) THEN Lie(n, h) ELSE Report[h][n]]
<1>1. \A n, h, absent : ~Lying(n, h, absent)
  BY DEF Lying
<1>2. ASSUME NEW h \in DOMAIN Report PROVE Report[h] = A(h)
  <2>1. {m \in DOMAIN Report[h] : ~Lying(m, h, TRUE)} = DOMAIN Report[h]
    BY <1>1
  <2>2. Report[h] = [n \in DOMAIN Report[h] |-> Report[h][n]]
    BY DEF Report
  <2>3. QED
    BY <1>1, <2>1, <2>2
<1>3. Report = [h \in DOMAIN Report |-> Report[h]]
  BY DEF Report
<1>4. Answers = [h \in DOMAIN Report |-> A(h)]
  BY DEF Answers
<1> HIDE DEF A
<1>5. QED
  BY <1>2, <1>3, <1>4

(* Leaves that could be read hold the event's block where it is looked     *)
(* for, whatever the node reports.                                         *)
LEMMA EventIsThere ==
  ASSUME NEW h \in Nat, NEW blocks, Layer0Leaves(blocks, h) # None
  PROVE  LET leaves == Layer0Leaves(blocks, h) IN
         LeafPosition(h) < Len(leaves) /\ leaves[LeafPosition(h) + 1] = BlockLeaf(h)
<1> DEFINE start == (h \div W) * W
           a     == Marker(blocks, (h \div (W * W)) * (W * W), 2)
           b     == Marker(blocks, start, 1)
           data  == [i \in 1 .. W |-> BlockLeaf(start + i - 1)]
           i     == (h % W) + 1
<1>1. Layer0Leaves(blocks, h) = <<a, b>> \o data
  BY DEF Layer0Leaves, Leaves
<1>2. W \in Nat \ {0}
  BY WindowAssumption
<1>3. h % W \in 0 .. W - 1 /\ h = start + (h % W) /\ start \in Nat
  <2>1. h \div W \in Nat
    BY <1>2, DivBounds
  <2>2. QED
    BY <1>2, <2>1, DivMod
<1>4. i \in 1 .. W /\ start + i - 1 = h /\ LeafPosition(h) + 1 = i + 2
  BY <1>2, <1>3 DEF LeafPosition
<1>5. LeafPosition(h) \in Nat
  BY <1>2, <1>3 DEF LeafPosition
<1> HIDE DEF start, a, b, i
<1>6. data[i] = BlockLeaf(h)
  BY <1>4
<1> DEFINE S == {BlockLeaf(start + k - 1) : k \in 1 .. W}
<1>7. data \in Seq(S) /\ Len(data) = W
  <2>1. data \in [1 .. W -> S]
    OBVIOUS
  <2> HIDE DEF data, S
  <2>2. QED
    BY <1>2, <2>1
<1> HIDE DEF data, S
<1>8. Len(<<a, b>> \o data) = W + 2 /\ (<<a, b>> \o data)[i + 2] = data[i]
  BY <1>2, <1>4, <1>7
<1>9. LeafPosition(h) < W + 2
  BY <1>2, <1>4, <1>5
<1>10. QED
  BY <1>1, <1>4, <1>6, <1>8, <1>9

(* A published tree is a sequence of W + 2 leaves.                         *)
LEMMA TreeShape ==
  ASSUME ChainTypeOK, TreeInv, NEW n \in Layers, NEW t \in 1 .. head, t % Pow[n] = 0
  PROVE  /\ <<n, t>> \in DOMAIN tree /\ tree[<<n, t>>] # None /\ Len(tree[<<n, t>>]) = W + 2
<1> DEFINE S == {"root", "leaf", "zero"} \X Nat \X Nat
           d == DataLeaves(n, t)
           a == LastBelow(n + 1, t)
           b == LastBelow(n, t)
<1>1. tree[<<n, t>>] = <<a, b>> \o d /\ <<n, t>> \in DOMAIN tree
  BY DEF TreeInv
<1>2. W \in Nat \ {0} /\ n \in Nat \ {0} /\ t \in Nat \ {0} /\ head \in Nat
  BY WindowAssumption, LayerAssumption, MaxHeadAssumption DEF Layers, ChainTypeOK
<1>3. Pow[n] \in Nat \ {0}
  BY PowFacts
<1>4. ASSUME NEW m \in Nat PROVE LastBelow(m, t) \in S
  <2>1. CASE m \notin Layers
    BY <2>1 DEF LastBelow, ZeroHash
  <2>2. CASE m \in Layers
    <3>1. Pow[m] \in Nat \ {0} /\ t - 1 \in Nat
      BY <1>2, <2>2, PowFacts
    <3> DEFINE p == (t - 1) \div Pow[m]
    <3>2. p \in Nat
      BY <3>1, DivBounds
    <3>3. p * Pow[m] \in Nat
      <4> HIDE DEF p
      <4>1. QED
        BY <3>1, <3>2
    <3>4. LastBelow(m, t) \in {Root(m, p * Pow[m]), ZeroHash}
      BY DEF LastBelow
    <3>5. QED
      BY <3>3, <3>4 DEF Root, ZeroHash
  <2>3. QED
    BY <2>1, <2>2
<1>5. a \in S /\ b \in S
  BY <1>2, <1>4
<1>6. d \in Seq(S) /\ Len(d) = W
  <2>1. ASSUME NEW i \in 1 .. W PROVE d[i] \in S
    <3>1. CASE n = 1
      <4>1. d[i] = BlockLeaf(t - W + i - 1)
        BY <3>1 DEF DataLeaves
      <4>2. t - W + i - 1 \in Nat
        <5>1. Pow[1] = W
          BY PowAssumption, LayerAssumption, WindowAssumption
        <5>2. W <= t
          <6>1. t = (t \div W) * W /\ t \div W \in Nat
            BY <1>2, <3>1, <5>1, DivBounds, DivExact
          <6>2. t \div W # 0
            BY <1>2, <6>1
          <6>3. 1 * W <= (t \div W) * W
            BY <1>2, <6>1, <6>2, ScaleLeq
          <6>4. QED
            BY <1>2, <6>1, <6>3
        <5>3. QED
          BY <1>2, <5>2
      <4>3. QED
        BY <4>1, <4>2 DEF BlockLeaf
    <3>2. CASE n # 1
      <4> DEFINE s == Pow[n - 1]
                 u == Pow[n]
      <4>1. n - 1 \in Layers /\ n - 1 \in Nat /\ (n - 1) + 1 = n
        BY <1>2, <3>2, LayerAssumption DEF Layers
      <4>2. s \in Nat \ {0} /\ u \in Nat \ {0}
        BY <1>3, <4>1, PowFacts
      <4>3. d[i] = Root(n - 1, t - u + i * s)
        BY <3>2 DEF DataLeaves
      <4> HIDE DEF s, u
      <4>4. u <= t
        <5>1. t = (t \div u) * u /\ t \div u \in Nat
          BY <1>2, <4>2, DivBounds, DivExact DEF u
        <5>2. t \div u # 0
          BY <1>2, <4>2, <5>1
        <5>3. 1 * u <= (t \div u) * u
          BY <4>2, <5>1, <5>2, ScaleLeq
        <5>4. QED
          BY <4>2, <5>1, <5>3
      <4>5. i * s \in Nat
        BY <1>2, <4>2
      <4>6. t - u + i * s \in Nat
        <5> DEFINE e == i * s
        <5> HIDE DEF e
        <5>1. e \in Nat
          BY <4>5 DEF e
        <5>2. t - u + e \in Nat
          BY <1>2, <4>2, <4>4, <5>1
        <5>3. QED
          BY <5>2 DEF e
      <4>7. QED
        BY <4>1, <4>3, <4>6 DEF Root
    <3>3. QED
      BY <3>1, <3>2
  <2>2. d = [i \in 1 .. W |-> d[i]]
    BY DEF DataLeaves
  <2> HIDE DEF d, S
  <2>3. d \in [1 .. W -> S]
    BY <2>1, <2>2
  <2>4. QED
    BY <1>2, <2>3
<1> HIDE DEF d, S, a, b
<1>7. <<a, b>> \o d \in Seq(S) /\ Len(<<a, b>> \o d) = W + 2
  BY <1>2, <1>5, <1>6
<1>8. QED
  BY <1>1, <1>7, LeavesAssumption DEF S

(* Every layer up to the one resolved is published over the event.         *)
LEMMA PublishedUpTo ==
  ASSUME ExporterInv, TreeInv, pc \in {"leaves"} \cup Collected, NEW n \in 1 .. layer
  PROVE  /\ req.block.height \in 0 .. head /\ n \in 1 .. MaxAnchorLayer /\ n \in Layers
         /\ AnchorHeight(n) \in 1 .. head /\ AnchorHeight(n) # None
         /\ AnchorHeight(n) % Pow[n] = 0
<1> DEFINE h == req.block.height
<1>1. ExporterTypeOK /\ ResolutionInv /\ ChainTypeOK /\ head \in Nat /\ h \in Nat
  BY MaxHeadAssumption, RequestFacts DEF ExporterInv, ChainTypeOK, ExporterTypeOK
<1>2. /\ layer \in 1 .. MaxAnchorLayer
      /\ AnchorHeight(layer) # None /\ AnchorHeight(layer) <= head
  BY <1>1 DEF ResolutionInv, ValidLayer, Committed, Collected
<1>3. n \in 1 .. MaxAnchorLayer /\ n <= layer
  BY <1>2, LayerAssumption
<1>4. /\ AnchorHeight(n) \in Nat /\ AnchorHeight(n) # None
      /\ AnchorHeight(layer) \in Nat /\ AnchorHeight(n) <= AnchorHeight(layer)
  BY <1>1, <1>2, <1>3, AnchorsAscend DEF AnchorHeight
<1>5. h < AnchorHeight(layer)
  BY <1>1, <1>2, AnchorFacts DEF AnchorHeight
<1>6. AnchorHeight(n) <= head /\ h \in 0 .. head
  BY <1>1, <1>2, <1>4, <1>5
<1>7. QED
  BY <1>1, <1>3, <1>4, <1>6, CoverFacts DEF AnchorHeight

(* Other leaves than the published tree's have another root.               *)
LEMMA RebuiltIsPublished ==
  ASSUME ExporterInv, TreeInv, pc \in {"leaves"} \cup Collected, NEW n \in 1 .. layer, NEW leaves
  PROVE  /\ RebuiltRoot(n, AnchorHeight(n), leaves)
              \in {Root(n, AnchorHeight(n)), <<"other", n, AnchorHeight(n)>>}
         /\ RebuiltRoot(n, AnchorHeight(n), leaves) = Root(n, AnchorHeight(n))
              <=> leaves = tree[<<n, AnchorHeight(n)>>]
<1>1. <<n, AnchorHeight(n)>> \in DOMAIN tree
  BY PublishedUpTo, TreeShape DEF ExporterInv
<1>2. QED
  BY <1>1 DEF RebuiltRoot, Root

LEMMA RungInit == Init => RungInv
BY DEF Init, RungInv, Collected

LEMMA LeavesKeepRungs ==
  ASSUME ExporterInv, TreeInv, CollectLeaves
  PROVE  RungInv'
<1> DEFINE h      == req.block.height
           leaves == Layer0Leaves(Answers, h)
           pos    == LeafPosition(h)
<1>1. /\ pc = "leaves" /\ ExporterTypeOK /\ ResolutionInv /\ rungs = <<>>
      /\ layer \in 1 .. MaxAnchorLayer /\ 1 \in 1 .. layer /\ h \in Nat
  BY RequestFacts, LayerAssumption
     DEF ExporterInv, CollectLeaves, ResolutionInv, Committed, ValidLayer, ExporterTypeOK
<1> SUFFICES ASSUME pc' \in Collected PROVE RungInv'
  BY DEF RungInv
<1>2. /\ leaves # None /\ rootCursor' = RebuiltRoot(1, AnchorHeight(1), leaves) /\ leafPos' = pos
      /\ Verifies(leaves, pos, EventLeaf) /\ pc' \in {"compare", "rung"}
      /\ UNCHANGED <<req, lies, rungs, layer, anchor>>
  BY DEF CollectLeaves, Goto, Fail, Collected
<1>3. EventLeaf = BlockLeaf(h)
  BY <1>1, <1>2, EventIsThere DEF Verifies
<1>4. /\ rootCursor' \in {Root(1, AnchorHeight(1)), <<"other", 1, AnchorHeight(1)>>}
      /\ rootCursor' = Root(1, AnchorHeight(1)) <=> leaves = tree[<<1, AnchorHeight(1)>>]
  BY <1>1, <1>2, RebuiltIsPublished
<1>5. lies = {} => leaves = tree[<<1, AnchorHeight(1)>>]
  <2>1. h \in 0 .. head /\ AnchorHeight(1) # None /\ AnchorHeight(1) <= head
    BY <1>1, PublishedUpTo
  <2>2. tree[<<1, AnchorHeight(1)>>] = Layer0Leaves(Report, h)
    BY <2>1, LayerOneRebuilt DEF ExporterInv, AnchorHeight
  <2>3. QED
    BY <2>2, TruthfulAnswers
<1>6. /\ Len(rungs') + 1 = 1 /\ 1 .. Len(rungs') = {}
      /\ EventLeaf' = EventLeaf /\ AnchorHeight(1)' = AnchorHeight(1)
      /\ req'.block.height = h /\ pc' \notin {"writing", "written"} /\ lies' = lies
  BY <1>1, <1>2 DEF EventLeaf, AnchorHeight
<1> HIDE DEF h, leaves, pos
<1>7. /\ EventLeaf' = BlockLeaf(req'.block.height) /\ leafPos' = LeafPosition(req'.block.height)
      /\ rootCursor' \in {Root(1, AnchorHeight(1)'), <<"other", 1, AnchorHeight(1)'>>}
      /\ lies' = {} => rootCursor' = Root(1, AnchorHeight(1)')
  BY <1>2, <1>3, <1>4, <1>5, <1>6 DEF pos
<1>8. QED
  BY <1>6, <1>7 DEF RungInv, AnchorHeight

LEMMA RungsClimb ==
  ASSUME ExporterInv, TreeInv, RungInv, CollectRung
  PROVE  RungInv'
<1> DEFINE h      == req.block.height
           lower  == Len(rungs) + 1
           n      == lower + 1
           leaves == LayerNLeaves(Answers, h, lower)
           pos    == RungPosition(h, lower)
           rung   == [leaf |-> rootCursor, position |-> pos]
           S      == [leaf : Hashes, position : Nat]
<1>1. /\ pc = "rung" /\ ExporterTypeOK /\ ChainTypeOK /\ h \in Nat /\ rungs \in Seq(S)
      /\ layer \in 1 .. MaxAnchorLayer /\ lower < layer /\ rootCursor \in Hashes
  BY RequestFacts DEF ExporterInv, CollectRung, ResolutionInv, Committed, ValidLayer, ExporterTypeOK
<1> SUFFICES ASSUME pc' \in Collected PROVE RungInv'
  BY DEF RungInv
<1>2. /\ leaves # None /\ pos # None /\ Verifies(leaves, pos, rootCursor)
      /\ rungs' = Append(rungs, rung)
      /\ rootCursor' = RebuiltRoot(n, AnchorHeight(n), leaves)
      /\ pc' \in {"compare", "rung"}
      /\ UNCHANGED <<req, lies, leafPos, layer, anchor>>
  BY DEF CollectRung, Goto, Fail, Collected
<1>3. /\ lower \in Nat \ {0} /\ n - 1 = lower /\ n # 1
      /\ n \in 1 .. layer /\ n \in 1 .. MaxAnchorLayer /\ lower \in 1 .. MaxAnchorLayer - 1
      /\ lower \in 1 .. MaxAnchorLayer
  <2>1. Len(rungs) \in Nat
    BY <1>1
  <2>2. QED
    BY <1>1, <2>1, LayerAssumption
<1>4. /\ EventLeaf = BlockLeaf(h) /\ leafPos = LeafPosition(h)
      /\ \A i \in 1 .. Len(rungs) : rungs[i].position = RungPosition(h, i)
      /\ rootCursor = Root(lower, AnchorHeight(lower)) =>
           \A i \in 1 .. Len(rungs) : rungs[i].leaf = Root(i, AnchorHeight(i))
      /\ lies = {} => rootCursor = Root(lower, AnchorHeight(lower))
  BY <1>1 DEF RungInv, Collected
<1>5. h \in 0 .. head /\ AnchorHeight(n) # None /\ AnchorHeight(n) <= head
  <2>1. pc \in {"leaves"} \cup Collected
    BY <1>1 DEF Collected
  <2>2. AnchorHeight(n) \in 1 .. head /\ head \in Nat
    BY <1>1, <1>3, <2>1, PublishedUpTo, MaxHeadAssumption DEF ChainTypeOK
  <2>3. QED
    BY <1>1, <1>3, <2>1, <2>2, PublishedUpTo
<1>6. /\ rootCursor' \in {Root(n, AnchorHeight(n)), <<"other", n, AnchorHeight(n)>>}
      /\ rootCursor' = Root(n, AnchorHeight(n)) <=> leaves = tree[<<n, AnchorHeight(n)>>]
  <2> HIDE DEF n, leaves
  <2>1. QED
    BY <1>1, <1>2, <1>3, RebuiltIsPublished DEF Collected
<1>7. lies = {} => leaves = tree[<<n, AnchorHeight(n)>>]
  <2>1. tree[<<n, AnchorHeight(n)>>] = LayerNLeaves(Report, h, n - 1)
    <3> HIDE DEF n
    <3>1. QED
      BY <1>1, <1>3, <1>5, UpperLayerRebuilt DEF AnchorHeight
  <2>2. QED
    BY <1>3, <2>1, TruthfulAnswers
(* A tree that is the published one has the right root at the rung.        *)
<1>8. leaves = tree[<<n, AnchorHeight(n)>>] => rootCursor = Root(lower, AnchorHeight(lower))
  <2>1. tree[<<n, AnchorHeight(n)>>][pos + 1] = Root(lower, AnchorHeight(lower))
    <3> HIDE DEF lower
    <3>1. QED
      BY <1>1, <1>3, <1>5, RungIsThere DEF AnchorHeight
  <2>2. leaves[pos + 1] = rootCursor
    BY <1>2 DEF Verifies
  <2>3. QED
    BY <2>1, <2>2
<1>9. /\ Len(rungs') = lower /\ Len(rungs') + 1 = n
      /\ \A i \in 1 .. lower : rungs'[i] = IF i = lower THEN rung ELSE rungs[i]
  <2> HIDE DEF rung, S
  <2>1. QED
    BY <1>1, <1>2
<1>10. ASSUME NEW i \in 1 .. lower
       PROVE  /\ rungs'[i].position = RungPosition(h, i)
              /\ rootCursor' = Root(n, AnchorHeight(n)) => rungs'[i].leaf = Root(i, AnchorHeight(i))
  <2>1. CASE i = lower
    <3>1. rungs'[i] = rung
      BY <1>9, <2>1
    <3>2. rung.position = pos /\ rung.leaf = rootCursor
      OBVIOUS
    <3>3. QED
      BY <1>6, <1>8, <2>1, <3>1, <3>2
  <2>2. CASE i # lower
    <3>1. i \in 1 .. Len(rungs)
      BY <1>1, <1>3, <2>2
    <3>2. rungs'[i] = rungs[i]
      BY <1>9, <2>2
    <3>3. QED
      BY <1>4, <1>6, <1>8, <3>1, <3>2
  <2>3. QED
    BY <2>1, <2>2
<1>11. /\ EventLeaf' = EventLeaf /\ req'.block.height = h /\ pc' \notin {"writing", "written"}
       /\ \A i : AnchorHeight(i) = AnchorBlockHeight(h, i)
  BY <1>2 DEF EventLeaf, AnchorHeight
<1>12. lies' = {} => rootCursor' = Root(n, AnchorHeight(n))
  BY <1>2, <1>6, <1>7
<1> HIDE DEF h, lower, n, leaves, pos, rung, S
<1>13. /\ EventLeaf' = BlockLeaf(h) /\ leafPos' = LeafPosition(h)
       /\ rootCursor' \in {Root(n, AnchorHeight(n)), <<"other", n, AnchorHeight(n)>>}
       /\ \A i \in 1 .. lower : rungs'[i].position = RungPosition(h, i)
       /\ rootCursor' = Root(n, AnchorHeight(n)) =>
            \A i \in 1 .. lower : rungs'[i].leaf = Root(i, AnchorHeight(i))
  BY <1>2, <1>4, <1>6, <1>10, <1>11
<1>14. QED
  BY <1>9, <1>11, <1>12, <1>13 DEF RungInv, AnchorHeight

(* The comparison pins the last root down, whatever was read before.       *)
LEMMA ComparePins ==
  ASSUME ExporterInv, TreeInv, RungInv, CompareRoot, pc' # "failed"
  PROVE  ~Lying(layer, anchor, FALSE) => rootCursor = Root(layer, anchor)
<1> SUFFICES ASSUME ~Lying(layer, anchor, FALSE) PROVE rootCursor = Root(layer, anchor)
  OBVIOUS
<1> DEFINE proofs == Answers[anchor]
<1>1. layer \in DOMAIN proofs /\ proofs[layer] = rootCursor /\ pc = "compare"
  BY DEF CompareRoot, Fail, MatchesNode
<1>2. anchor \in DOMAIN Report
  <2>1. /\ anchor = AnchorHeight(layer) /\ layer \in 1 .. layer
        /\ pc \in {"leaves"} \cup Collected
    BY <1>1, LayerAssumption DEF ExporterInv, ResolutionInv, Committed, ValidLayer, Collected
  <2>2. anchor \in 1 .. head /\ head \in Nat
    BY <2>1, PublishedUpTo, MaxHeadAssumption DEF ExporterInv, ChainTypeOK
  <2>3. QED
    BY <2>2 DEF Report
<1>3. proofs = [m \in {m \in DOMAIN Report[anchor] : ~Lying(m, anchor, TRUE)} |->
                  IF Lying(m, anchor, FALSE) THEN Lie(m, anchor) ELSE Report[anchor][m]]
  BY <1>2 DEF Answers
<1> HIDE DEF proofs
<1>4. layer \in DOMAIN Report[anchor] /\ proofs[layer] = Report[anchor][layer]
  BY <1>1, <1>3
<1>5. Report[anchor] = [m \in DOMAIN Report[anchor] |-> Root(m, anchor)]
  BY <1>2 DEF Report
<1>6. QED
  BY <1>1, <1>4, <1>5

LEMMA RungStep == ExporterInv /\ TreeInv /\ RungInv /\ [Next]_vars => RungInv'
<1> SUFFICES ASSUME ExporterInv, TreeInv, RungInv, [Next]_vars, pc' \in Collected PROVE RungInv'
  BY DEF RungInv
<1> USE DEF Collected
<1>1. CASE CollectLeaves
  BY <1>1, LeavesKeepRungs
<1>2. CASE CollectRung
  BY <1>2, RungsClimb
<1> DEFINE Same == UNCHANGED <<req, lies, rungs, rootCursor, leafPos, layer, anchor>>
<1>3. ASSUME Same, pc \in Collected,
             pc' \in {"writing", "written"} /\ ~Lying(layer, anchor, FALSE) =>
               rootCursor = Root(Len(rungs) + 1, AnchorHeight(Len(rungs) + 1))
      PROVE  RungInv'
  <2>1. /\ EventLeaf' = EventLeaf /\ \A i : AnchorHeight(i)' = AnchorHeight(i)
        /\ Lying(layer, anchor, FALSE)' = Lying(layer, anchor, FALSE)
    BY <1>3 DEF EventLeaf, AnchorHeight, Lying
  <2>2. QED
    BY <1>3, <2>1 DEF RungInv, AnchorHeight
<1>4. CASE CompareRoot
  <2>1. Same /\ pc = "compare" /\ pc' = "writing"
    BY <1>4 DEF CompareRoot, Goto, Fail
  <2>2. Len(rungs) + 1 = layer /\ anchor = AnchorHeight(layer)
    BY <2>1 DEF ExporterInv, ResolutionInv, Committed
  <2>3. ~Lying(layer, anchor, FALSE) => rootCursor = Root(layer, anchor)
    BY <1>4, <2>1, ComparePins
  <2>4. QED
    BY <1>3, <2>1, <2>2, <2>3
<1>5. CASE BeginWrite \/ EndWrite \/ Grow \/ UNCHANGED vars
  <2>1. Same /\ pc \in Collected /\ (pc' \in {"writing", "written"} => pc \in {"writing", "written"})
    BY <1>5 DEF BeginWrite, EndWrite, Grow, vars, runVars, Goto
  <2>2. QED
    BY <1>3, <2>1 DEF RungInv
(* The other steps build nothing. *)
<1>6. CASE \/ Elapse \/ Start \/ QueryEventBlock \/ Poll \/ ReadHead \/ Sleep \/ Climb
           \/ CheckExpiry \/ Advise \/ Gauge \/ Fault \/ Crash
  <2>1. pc' \notin Collected
    BY <1>6 DEF Elapse, Start, QueryEventBlock, Poll, ReadHead, Sleep, Climb, CheckExpiry, Advise,
                Gauge, Fault, Crash, Goto, Fail
  <2>2. QED
    BY <2>1
<1>7. QED
  BY <1>1, <1>2, <1>4, <1>5, <1>6 DEF Next, ExporterStep

-----------------------------------------------------------------------------
(* Why an export fails.                                                    *)

(* The node and the block are as the export expects, at its start.         *)
Faithful ==
  /\ lies = {} /\ req.block.own /\ req.block.rootOk /\ req.block.tracks = "event"
  /\ req.block.height <= startHead

Refusals == {"no_block", "no_event", "bad_root", "outer_proof", "rung_mismatch", "root_mismatch"}

(* A failure has a reason, a lost query is counted, and to be refused the  *)
(* run must have met something the node or the block is to blame for.      *)
RefusalInv ==
  /\ pc = "failed" <=> reason # "none"
  /\ reason \in {"query", "io"} => faults < MaxFaults
  /\ reason \in Refusals => ~Faithful

LEMMA RefusalInit == Init => RefusalInv
BY DEF Init, RefusalInv, Refusals

LEMMA LeavesAreFound ==
  ASSUME ExporterInv, TreeInv, CollectLeaves, Faithful
  PROVE  pc' # "failed"
<1> DEFINE h      == req.block.height
           leaves == Layer0Leaves(Answers, h)
           t      == AnchorHeight(1)
<1>1. /\ pc = "leaves" /\ ExporterTypeOK /\ ChainTypeOK /\ h \in Nat
      /\ layer \in 1 .. MaxAnchorLayer /\ 1 \in 1 .. layer
  BY RequestFacts, LayerAssumption
     DEF ExporterInv, CollectLeaves, ResolutionInv, Committed, ValidLayer, ExporterTypeOK
<1>2. /\ h \in 0 .. head /\ 1 \in Layers /\ t \in 1 .. head /\ t # None /\ t % Pow[1] = 0
      /\ t <= head
  <2>1. t \in 1 .. head /\ head \in Nat
    BY <1>1, PublishedUpTo, MaxHeadAssumption DEF ChainTypeOK
  <2>2. QED
    BY <1>1, <2>1, PublishedUpTo
<1>3. tree[<<1, t>>] = Layer0Leaves(Report, h) /\ tree[<<1, t>>] # None
  BY <1>1, <1>2, LayerOneRebuilt, TreeShape DEF AnchorHeight
<1>4. leaves # None
  BY <1>3, TruthfulAnswers DEF Faithful
<1>5. EventLeaf = BlockLeaf(h)
  BY DEF EventLeaf, Faithful
<1>6. Verifies(leaves, LeafPosition(h), EventLeaf)
  BY <1>1, <1>4, <1>5, EventIsThere DEF Verifies
<1>7. QED
  BY <1>4, <1>6 DEF CollectLeaves, Goto

LEMMA RungIsFound ==
  ASSUME ExporterInv, TreeInv, RungInv, CollectRung, Faithful
  PROVE  pc' # "failed"
<1> DEFINE h      == req.block.height
           lower  == Len(rungs) + 1
           n      == lower + 1
           leaves == LayerNLeaves(Answers, h, lower)
           pos    == RungPosition(h, lower)
           t      == AnchorHeight(n)
<1>1. /\ pc = "rung" /\ ExporterTypeOK /\ ChainTypeOK /\ h \in Nat
      /\ layer \in 1 .. MaxAnchorLayer /\ lower < layer /\ Len(rungs) \in Nat
  BY RequestFacts DEF ExporterInv, CollectRung, ResolutionInv, Committed, ValidLayer, ExporterTypeOK
<1>2. /\ n - 1 = lower /\ n # 1 /\ n \in 1 .. layer /\ n \in 1 .. MaxAnchorLayer
      /\ lower \in 1 .. MaxAnchorLayer - 1
  BY <1>1, LayerAssumption
<1>3. /\ h \in 0 .. head /\ n \in Layers /\ t \in 1 .. head /\ t # None /\ t % Pow[n] = 0
      /\ t <= head
  <2> HIDE DEF n
  <2>1. t \in 1 .. head /\ head \in Nat
    BY <1>1, <1>2, PublishedUpTo, MaxHeadAssumption DEF ChainTypeOK, Collected
  <2>2. QED
    BY <1>1, <1>2, <2>1, PublishedUpTo DEF Collected
<1>4. /\ tree[<<n, t>>] = LayerNLeaves(Report, h, n - 1)
      /\ tree[<<n, t>>] # None /\ Len(tree[<<n, t>>]) = W + 2
  <2> HIDE DEF n
  <2>1. QED
    BY <1>1, <1>2, <1>3, UpperLayerRebuilt, TreeShape DEF AnchorHeight
<1>5. leaves = tree[<<n, t>>] /\ leaves # None
  BY <1>2, <1>4, TruthfulAnswers DEF Faithful
<1>6. pos # None /\ pos < W + 2 /\ tree[<<n, t>>][pos + 1] = Root(lower, AnchorHeight(lower))
  <2> HIDE DEF lower
  <2>1. QED
    BY <1>1, <1>2, <1>3, RungIsThere DEF AnchorHeight
<1>7. rootCursor = Root(lower, AnchorHeight(lower))
  BY <1>1 DEF RungInv, Collected, Faithful
<1>8. Verifies(leaves, pos, rootCursor)
  BY <1>4, <1>5, <1>6, <1>7 DEF Verifies
<1>9. QED
  BY <1>5, <1>6, <1>8 DEF CollectRung, Goto

LEMMA RootIsFound ==
  ASSUME ExporterInv, TreeInv, RungInv, CompareRoot, Faithful
  PROVE  pc' # "failed"
<1>1. /\ pc = "compare" /\ anchor = AnchorHeight(layer) /\ layer \in 1 .. layer
      /\ Len(rungs) + 1 = layer /\ ChainTypeOK
  BY LayerAssumption DEF CompareRoot, ExporterInv, ResolutionInv, Committed, ValidLayer
<1>2. anchor \in 1 .. head /\ layer \in Layers /\ anchor % Pow[layer] = 0 /\ head \in Nat
  BY <1>1, PublishedUpTo, MaxHeadAssumption DEF ChainTypeOK, Collected
<1>3. <<layer, anchor>> \in DOMAIN tree
  BY <1>1, <1>2, TreeShape
<1>4. /\ anchor \in 0 .. head
      /\ Report[anchor] = [m \in {k \in Layers : <<k, anchor>> \in DOMAIN tree} |-> Root(m, anchor)]
  BY <1>2 DEF Report
<1>5. layer \in DOMAIN Report[anchor] /\ Report[anchor][layer] = Root(layer, anchor)
  BY <1>2, <1>3, <1>4
<1>6. rootCursor = Root(layer, anchor)
  BY <1>1 DEF RungInv, Collected, Faithful
<1>7. Answers[anchor] = Report[anchor]
  BY TruthfulAnswers DEF Faithful
<1>8. MatchesNode(Answers[anchor])
  BY <1>5, <1>6, <1>7 DEF MatchesNode
<1>9. QED
  BY <1>8 DEF CompareRoot, Goto

LEMMA RefusalStep ==
  ExporterInv /\ TreeInv /\ RungInv /\ RefusalInv /\ [Next]_vars => RefusalInv'
<1> SUFFICES ASSUME ExporterInv, TreeInv, RungInv, RefusalInv, [Next]_vars PROVE RefusalInv'
  OBVIOUS
<1> USE DEF Goto, Fail, Refusals
<1>1. ExporterTypeOK /\ ResolutionInv /\ head \in Nat /\ startHead \in 0 .. head
  BY MaxHeadAssumption DEF ExporterInv, ChainTypeOK, ExporterTypeOK
<1>2. CASE Grow \/ Elapse \/ BeginWrite \/ UNCHANGED vars
  <2>1. UNCHANGED <<pc, reason, faults, lies, req, startHead>>
    BY <1>2 DEF Grow, Elapse, BeginWrite, vars, runVars
  <2>2. QED
    BY <2>1 DEF RefusalInv, Faithful
(* The steps that cannot refuse. *)
<1>3. CASE \/ Start \/ Poll \/ ReadHead \/ Sleep \/ Climb \/ CheckExpiry \/ Advise \/ Gauge
           \/ EndWrite \/ Crash
  <2>1. /\ pc \notin Final /\ reason' \notin Refusals \cup {"query", "io"}
        /\ pc' = "failed" <=> reason' # "none"
    <3>1. pc \notin Final
      BY <1>3 DEF Start, Poll, ReadHead, Sleep, Climb, CheckExpiry, Advise, Gauge, EndWrite, Crash,
                  Final
    <3>2. reason = "none"
      BY <3>1 DEF RefusalInv, Final
    <3>3. QED
      BY <1>3, <3>1, <3>2 DEF Start, Poll, ReadHead, Sleep, Climb, CheckExpiry, Advise, Gauge,
                              EndWrite, Crash
  <2>2. QED
    BY <2>1 DEF RefusalInv
<1>4. CASE Fault
  <2>1. pc' = "failed" /\ reason' \in {"query", "io"}
    BY <1>4 DEF Fault
  <2>2. faults' < MaxFaults
    BY <1>1, <1>4, FaultsAssumption DEF Fault, ExporterTypeOK
  <2>3. QED
    BY <2>1, <2>2 DEF RefusalInv
<1>5. CASE QueryEventBlock
  <2>1. pc = "block" /\ reason = "none" /\ UNCHANGED <<req, lies, startHead>>
    BY <1>5 DEF QueryEventBlock, RefusalInv
  <2>2. pc' = "failed" <=> reason' # "none"
    BY <1>5, <2>1 DEF QueryEventBlock
  <2>3. reason' \in {"none", "bad_request", "overflow", "no_block", "no_event", "bad_root"}
    BY <1>5, <2>1 DEF QueryEventBlock
  <2>4. reason' = "no_block" => ~(req.block.height <= startHead)
    <3>1. req.block.height \in Nat
      BY <1>1, RequestFacts DEF ExporterTypeOK
    <3>2. reason' = "no_block" => req.block.height > head
      BY <1>5, <2>1 DEF QueryEventBlock
    <3>3. QED
      BY <1>1, <3>1, <3>2
  <2>5. /\ reason' = "no_event" => req.block.tracks # "event"
        /\ reason' = "bad_root" => ~req.block.rootOk
    BY <1>5, <2>1 DEF QueryEventBlock
  <2>6. QED
    BY <2>1, <2>2, <2>3, <2>4, <2>5 DEF RefusalInv, Faithful
<1>6. CASE CollectLeaves \/ CollectRung \/ CompareRoot
  <2>1. pc \in {"leaves", "rung", "compare"} /\ UNCHANGED <<req, lies, startHead>>
    BY <1>6 DEF CollectLeaves, CollectRung, CompareRoot
  <2>2. reason = "none"
    BY <2>1 DEF RefusalInv
  <2>3. Faithful => pc' # "failed"
    BY <1>6, LeavesAreFound, RungIsFound, RootIsFound
  <2>4. /\ pc' = "failed" <=> reason' # "none"
        /\ reason' \notin {"query", "io"}
    BY <1>6, <2>1, <2>2 DEF CollectLeaves, CollectRung, CompareRoot
  <2>5. QED
    BY <2>1, <2>3, <2>4 DEF RefusalInv, Faithful
<1>7. QED
  BY <1>2, <1>3, <1>4, <1>5, <1>6 DEF Next, ExporterStep

OutcomeInv == ExporterInv /\ TreeInv /\ RungInv /\ RefusalInv

LEMMA OutcomeInit == Init => OutcomeInv
BY ExporterInvInit, TreeInit, RungInit, RefusalInit DEF Init, OutcomeInv

LEMMA OutcomeStep == OutcomeInv /\ [Next]_vars => OutcomeInv'
<1> SUFFICES ASSUME OutcomeInv, [Next]_vars PROVE OutcomeInv'
  OBVIOUS
<1>1. ExporterInv' /\ RungInv' /\ RefusalInv'
  BY ExporterInvStep, RungStep, RefusalStep DEF OutcomeInv
<1>2. TreeInv'
  BY ChainMoves, TreeStep DEF OutcomeInv, ExporterInv
<1>3. QED
  BY <1>1, <1>2 DEF OutcomeInv

(* Against a truthful node, for an event of thread 0 that it has and with  *)
(* no query lost, an export fails only because of the anchor: what it      *)
(* rebuilds never disagrees with what the node published.                  *)
THEOREM TruthfulNodeIsNeverRefusedAlways == Spec => []TruthfulNodeIsNeverRefused
<1>1. OutcomeInv => TruthfulNodeIsNeverRefused
  <2> SUFFICES ASSUME ExporterTypeOK, RefusalInv, pc = "failed", Faithful, faults = MaxFaults
               PROVE  reason \in {"bad_request", "not_produced", "gave_up", "expired", "overflow"}
    BY DEF OutcomeInv, ExporterInv, TruthfulNodeIsNeverRefused, Faithful
  <2>1. reason \notin Refusals \cup {"none", "query", "io"}
    BY FaultsAssumption DEF RefusalInv
  <2>2. QED
    BY <2>1 DEF ExporterTypeOK, Refusals
<1>2. QED
  BY <1>1, OutcomeInit, OutcomeStep, PTL DEF Spec

-----------------------------------------------------------------------------
(* What a whole fixture says.                                              *)

(* Its heights and positions are computed from the event's; its root is    *)
(* the anchor's or of some other tree, and the roots below are the         *)
(* published ones if that one is.                                          *)
Consistent(f) ==
  /\ f.event \in Nat /\ f.layer \in 1 .. MaxAnchorLayer
  /\ f.anchor # None /\ f.anchor = AnchorBlockHeight(f.event, f.layer)
  /\ f.expires = AnchorExpiryHeight(f.event, f.layer)
  /\ f.leaf = BlockLeaf(f.event) /\ f.position = LeafPosition(f.event)
  /\ Len(f.chain) = f.layer - 1
  /\ f.root \in {Root(f.layer, f.anchor), <<"other", f.layer, f.anchor>>}
  /\ \A i \in 1 .. Len(f.chain) : f.chain[i].position = RungPosition(f.event, i)
  /\ f.root = Root(f.layer, f.anchor) =>
       \A i \in 1 .. Len(f.chain) : f.chain[i].leaf = Root(i, AnchorBlockHeight(f.event, i))

(* Its anchor block exists, and its root is that block's unless the node   *)
(* misreported it.                                                         *)
Whole(f) ==
  /\ Consistent(f)
  /\ f.anchor <= head
  /\ ~Lying(f.layer, f.anchor, FALSE) => f.root = Root(f.layer, f.anchor)

(* A file that is neither missing nor torn is whole, whichever run it is   *)
(* of; a proof is made from such a file, and a claim is accepted only if   *)
(* the root is one the chain published.                                    *)
PipeInv ==
  /\ IsFixture(fixture) => Whole(fixture)
  /\ proof # None => Whole(proof)
  /\ stage = "prove" => fixture # None
  /\ stage \in {"claim", "claimed"} => proof # None
  /\ stage = "claimed" => proof.root = Root(proof.layer, proof.anchor)

PipelineInv == OutcomeInv /\ PipeInv

-----------------------------------------------------------------------------
(* A run after another one is a run like any other. *)

LEMMA RerunRequest ==
  ASSUME ExporterTypeOK, Rerun
  PROVE  req' \in RequestType
<1>1. PICK n \in NextLayers : req' = [req EXCEPT !.layer = n, !.maxLayers = None]
  BY DEF Rerun
<1>2. n \in Nat \cup {AutoMode}
  <2>1. req.layer \in Nat \cup {AutoMode}
    BY RequestFacts DEF ExporterTypeOK
  <2>2. advice # None => advice.layer \in Nat
    BY DEF ExporterTypeOK, Advices
  <2>3. n = req.layer \/ (advice # None /\ n = advice.layer)
    BY <1>1 DEF NextLayers, NextLayer
  <2>4. QED
    BY <2>1, <2>2, <2>3
<1>3. req \in RequestType
  BY DEF ExporterTypeOK
<1>4. QED
  BY <1>1, <1>2, <1>3 DEF RequestType

LEMMA RerunStarts == OutcomeInv /\ Rerun => OutcomeInv'
<1> SUFFICES ASSUME OutcomeInv, Rerun PROVE OutcomeInv'
  OBVIOUS
<1>1. /\ UNCHANGED <<chainVars, lies, faults>> /\ pc' = "idle" /\ reason' = "none"
      /\ layer' = 1 /\ anchor' = None /\ clock' = 0 /\ spent' = 0
      /\ rootCursor' = ZeroHash /\ leafPos' = 0 /\ rungs' = <<>> /\ file' = "untouched"
      /\ advice' = None /\ startHead' = 0 /\ heldAtCheck' = FALSE /\ dueAt' = None
  BY DEF Rerun
<1>2. ExporterTypeOK /\ ChainTypeOK /\ CursorInv /\ TreeInv
  BY DEF OutcomeInv, ExporterInv
<1>3. ChainTypeOK' /\ CursorInv' /\ TreeInv'
  <2>1. UNCHANGED chainVars /\ [ProduceBlock]_chainVars
    BY <1>1
  <2>2. QED
    BY <1>2, <2>1, ChainTypeStep, CursorStep, TreeStep
<1>4. ExporterTypeOK'
  <2>1. ZeroHash \in Hashes
    BY DEF ZeroHash, Hashes
  <2>2. rungs' \in Seq([leaf : Hashes, position : Nat]) /\ spent' \in 0 .. QueryTime
    BY <1>1, FaultsAssumption
  <2>3. heldAtCheck' \in BOOLEAN
    BY <1>1, Zenon
  <2>4. startHead' \in 0 .. head'
    BY <1>1, <1>2, MaxHeadAssumption DEF ChainTypeOK, chainVars
  <2>5. req' \in RequestType /\ lies' \in LieSets /\ faults' \in 0 .. MaxFaults
    BY <1>1, <1>2, RerunRequest DEF ExporterTypeOK
  <2>6. QED
    BY <1>1, <2>1, <2>2, <2>3, <2>4, <2>5 DEF ExporterTypeOK
<1>5. ResolutionInv' /\ AdviceInv'
  BY <1>1 DEF ResolutionInv, AdviceInv, Waiting, Committed
<1>6. RungInv' /\ RefusalInv'
  BY <1>1 DEF RungInv, RefusalInv, Collected, Refusals
<1>7. QED
  BY <1>3, <1>4, <1>5, <1>6 DEF OutcomeInv, ExporterInv

(* Every step is one of the exporter, leaves it alone, or starts it anew. *)
LEMMA PipelineSteps == [PipelineNext]_pipelineVars => [Next]_vars \/ Rerun
BY DEF PipelineNext, ChainGrows, ToolsRun, ExporterRuns, ExporterSuffers, Proceed, Prove, Claim,
       Next, pipelineVars

LEMMA OutcomeKept == OutcomeInv /\ [PipelineNext]_pipelineVars => OutcomeInv'
BY OutcomeStep, RerunStarts, PipelineSteps

-----------------------------------------------------------------------------
(* Files and proofs. *)

(* Where the chain went on, a whole fixture stays one.                     *)
LEMMA WholeStays ==
  ASSUME ChainTypeOK, [ProduceBlock]_chainVars, NEW f, Consistent(f), f.anchor <= head
  PROVE  f.anchor <= head'
<1>1. f.anchor \in Nat /\ head \in Nat
  BY MaxHeadAssumption, AnchorFacts DEF ChainTypeOK, Consistent
<1>2. head' \in {head, head + 1}
  BY DEF ProduceBlock, chainVars
<1>3. QED
  BY <1>1, <1>2

(* What an exporter writes is whole. *)
LEMMA WrittenWhole ==
  ASSUME OutcomeInv, EndWrite
  PROVE  Whole(Contents)
<1> DEFINE h == req.block.height
           f == Contents
<1>1. /\ pc = "writing" /\ ExporterTypeOK /\ ResolutionInv /\ RungInv /\ h \in Nat
      /\ rungs \in Seq([leaf : Hashes, position : Nat])
  BY RequestFacts DEF OutcomeInv, ExporterInv, EndWrite, ExporterTypeOK
<1>2. /\ layer \in 1 .. MaxAnchorLayer /\ anchor # None /\ anchor = AnchorBlockHeight(h, layer)
      /\ anchor <= head /\ Len(rungs) + 1 = layer
  BY <1>1 DEF ResolutionInv, Committed, ValidLayer, AnchorHeight
<1>3. /\ EventLeaf = BlockLeaf(h) /\ leafPos = LeafPosition(h)
      /\ rootCursor \in {Root(layer, anchor), <<"other", layer, anchor>>}
      /\ \A i \in 1 .. Len(rungs) : rungs[i].position = RungPosition(h, i)
      /\ rootCursor = Root(layer, anchor) =>
           \A i \in 1 .. Len(rungs) : rungs[i].leaf = Root(i, AnchorBlockHeight(h, i))
      /\ ~Lying(layer, anchor, FALSE) => rootCursor = Root(layer, anchor)
  BY <1>1, <1>2 DEF RungInv, Collected, AnchorHeight
<1>4. Len(rungs) = layer - 1
  BY <1>1, <1>2
<1>5. /\ f.event = h /\ f.leaf = EventLeaf /\ f.position = leafPos /\ f.chain = rungs
      /\ f.root = rootCursor /\ f.layer = layer /\ f.anchor = anchor
      /\ f.expires = AnchorExpiryHeight(h, layer)
  BY DEF Contents, ExpiryHeight
<1> HIDE DEF f, h
<1>6. Consistent(f)
  BY <1>1, <1>2, <1>3, <1>4, <1>5 DEF Consistent
<1>7. QED
  BY <1>2, <1>3, <1>5, <1>6 DEF Whole, f
(* The chain takes only roots it published. *)
LEMMA OnlyRootsAccepted ==
  ASSUME ChainTypeOK, NEW n \in Layers, NEW root, Held(n, root)
  PROVE  root[1] = "root"
<1>1. PICK i \in 1 .. Len(cursor[n]) : cursor[n][i] = root
  BY DEF Held
<1>2. cursor[n] \in Seq({"root"} \X Layers \X (1 .. MaxHead))
  BY DEF ChainTypeOK
<1>3. root \in {"root"} \X Layers \X (1 .. MaxHead)
  BY <1>1, <1>2
<1>4. QED
  BY <1>3

LEMMA PipeStep == PipelineInv /\ [PipelineNext]_pipelineVars => PipeInv'
<1> SUFFICES ASSUME OutcomeInv, PipeInv, [PipelineNext]_pipelineVars PROVE PipeInv'
  BY DEF PipelineInv
<1> DEFINE told(f) == [height |-> f.anchor, layer |-> f.layer, absent |-> FALSE] \notin lies
           still(f) == /\ Consistent(f)
                       /\ f.anchor <= head'
                       /\ told(f) => f.root = Root(f.layer, f.anchor)
<1>1. lies' = lies /\ [ProduceBlock]_chainVars /\ ChainTypeOK
  <2>1. [Next]_vars => lies' = lies
    BY DEF Next, ExporterStep, Grow, Elapse, Fault, Crash, Start, QueryEventBlock, Poll, ReadHead,
           Sleep, Climb, CheckExpiry, Advise, Gauge, CollectLeaves, CollectRung, CompareRoot,
           BeginWrite, EndWrite, vars
  <2>2. Rerun => lies' = lies /\ UNCHANGED chainVars
    BY DEF Rerun
  <2>3. QED
    BY <2>1, <2>2, PipelineSteps, ChainMoves DEF OutcomeInv, ExporterInv
<1>2. ASSUME NEW f, Whole(f) PROVE still(f)
  BY <1>1, <1>2, WholeStays DEF Whole, Lying
<1>3. /\ IsFixture(fixture') /\ still(fixture') => Whole(fixture)'
      /\ still(proof') => Whole(proof)'
  BY <1>1 DEF Whole, Lying
<1>4. /\ IsFixture(fixture) => still(fixture)
      /\ proof # None => still(proof)
      /\ stage = "prove" => fixture # None
      /\ stage \in {"claim", "claimed"} => proof # None
      /\ stage = "claimed" => proof.root = Root(proof.layer, proof.anchor)
  BY <1>2 DEF PipeInv
<1> HIDE DEF still
<1>5. CASE ChainGrows \/ ExporterSuffers \/ UNCHANGED pipelineVars
  <2>1. UNCHANGED <<stage, fixture, proof>>
    BY <1>5 DEF ChainGrows, ExporterSuffers, pipelineVars
  <2>2. QED
    BY <1>3, <1>4, <2>1 DEF PipeInv, IsFixture
<1>6. CASE ExporterRuns
  <2>1. stage = "export" /\ UNCHANGED <<stage, proof>> /\ fixture' = FileAfter
    BY <1>6 DEF ExporterRuns
  <2>2. file' = file \/ file' = "torn" \/ EndWrite
    BY <1>6 DEF ExporterRuns, ExporterStep, Start, QueryEventBlock, Poll, ReadHead, Sleep, Climb,
                CheckExpiry, Advise, Gauge, CollectLeaves, CollectRung, CompareRoot, BeginWrite
  <2>3. fixture' = fixture \/ fixture' = Torn \/ (EndWrite /\ fixture' = Contents)
    BY <2>1, <2>2 DEF FileAfter
  <2>4. EndWrite => still(Contents)
    BY <1>2, WrittenWhole
  <2>5. IsFixture(fixture') => still(fixture')
    BY <1>4, <2>3, <2>4 DEF IsFixture
  <2>6. QED
    BY <1>3, <1>4, <2>1, <2>5 DEF PipeInv, IsFixture
<1>7. CASE Proceed
  <2>1. fixture # None /\ stage' = "prove" /\ UNCHANGED <<fixture, proof>>
    BY <1>7 DEF Proceed
  <2>2. QED
    BY <1>3, <1>4, <2>1 DEF PipeInv, IsFixture
<1>8. CASE Prove
  <2>1. /\ stage = "prove" /\ fixture' = fixture
        /\ \/ proof' = proof /\ stage' = "refused"
           \/ proof' = fixture /\ stage' = "claim" /\ fixture # Torn
    BY <1>8 DEF Prove
  <2>2. proof' # None => still(proof')
    BY <1>4, <2>1 DEF IsFixture
  <2>3. stage' = "claim" => proof' # None
    BY <1>4, <2>1
  <2>4. QED
    BY <1>3, <1>4, <2>1, <2>2, <2>3 DEF PipeInv, IsFixture
<1>9. CASE Claim
  <2>1. /\ stage = "claim" /\ UNCHANGED <<fixture, proof>>
        /\ \/ stage' = "refused"
           \/ stage' = "claimed" /\ Accepts(proof.layer, proof.root)
    BY <1>9 DEF Claim
  <2>2. proof # None /\ Consistent(proof)
    BY <1>4, <2>1 DEF still
  <2>3. Accepts(proof.layer, proof.root) => proof.root = Root(proof.layer, proof.anchor)
    <3>1. proof.layer \in Layers
      BY <2>2, LayerAssumption DEF Consistent, Layers
    <3>2. Held(proof.layer, proof.root) => proof.root[1] = "root"
      BY <1>1, <3>1, OnlyRootsAccepted
    <3>3. QED
      BY <2>2, <3>2 DEF Consistent, Accepts
  <2>4. QED
    BY <1>3, <1>4, <2>1, <2>2, <2>3 DEF PipeInv, IsFixture
<1>10. CASE Rerun
  <2>1. stage' = "export" /\ UNCHANGED <<fixture, proof>>
    <3>1. stage' = "export" /\ UNCHANGED fixture /\ UNCHANGED proof
      BY <1>10 DEF Rerun
    <3>2. QED
      BY <3>1
  <2>2. QED
    BY <1>3, <1>4, <2>1 DEF PipeInv, IsFixture
<1>11. QED
  BY <1>5, <1>6, <1>7, <1>8, <1>9, <1>10 DEF PipelineNext, ToolsRun

LEMMA PipelineInvariant == PipelineSpec => []PipelineInv
<1>1. PipelineInit => PipelineInv
  BY OutcomeInit DEF PipelineInit, PipelineInv, PipeInv, IsFixture
<1>2. PipelineInv /\ [PipelineNext]_pipelineVars => PipelineInv'
  BY OutcomeKept, PipeStep DEF PipelineInv
<1>3. QED
  BY <1>1, <1>2, PTL DEF PipelineSpec

-----------------------------------------------------------------------------
(* What fixtures and proofs are worth. *)

(* A whole fixture with a published root proves its event: the tree under  *)
(* each rung is the published one.                                         *)
LEMMA WholeProves ==
  ASSUME ChainTypeOK, TreeInv, NEW f, Whole(f), f.root = Root(f.layer, f.anchor)
  PROVE  Proves(f)
<1> DEFINE h    == f.event
           T(n) == AnchorBlockHeight(h, n)
<1>1. /\ h \in Nat /\ head \in Nat /\ f.layer \in 1 .. MaxAnchorLayer /\ f.anchor = T(f.layer)
      /\ f.anchor # None /\ f.anchor <= head
  BY MaxHeadAssumption DEF Whole, Consistent, ChainTypeOK
<1>2. ASSUME NEW n \in 1 .. f.layer
      PROVE  n \in 1 .. MaxAnchorLayer /\ T(n) \in Nat /\ T(n) # None /\ T(n) <= head
  <2>1. n \in 1 .. MaxAnchorLayer /\ n <= f.layer
    BY <1>1, LayerAssumption
  <2>2. T(n) \in Nat /\ T(f.layer) \in Nat /\ T(n) # None /\ T(n) <= T(f.layer)
    BY <1>1, <2>1, AnchorsAscend
  <2> HIDE DEF T
  <2>3. QED
    BY <1>1, <2>1, <2>2
<1>3. h \in 0 .. head
  <2>1. T(f.layer) \in Nat /\ h < T(f.layer)
    BY <1>1, AnchorFacts
  <2> HIDE DEF T
  <2>2. QED
    BY <1>1, <2>1
<1>4. tree[<<1, T(1)>>][f.position + 1] = f.leaf
  <2>1. 1 \in 1 .. f.layer
    BY <1>1
  <2>2. tree[<<1, T(1)>>] = Layer0Leaves(Report, h)
    BY <1>2, <1>3, <2>1, LayerOneRebuilt
  <2>3. tree[<<1, T(1)>>] # None
    <3>1. T(1) \in 1 .. head /\ T(1) % Pow[1] = 0 /\ 1 \in Layers
      BY <1>2, <1>3, <2>1, CoverFacts
    <3>2. QED
      BY <3>1, TreeShape
  <2>4. QED
    BY <1>1, <2>2, <2>3, EventIsThere DEF Whole, Consistent
<1>5. ASSUME NEW i \in 1 .. Len(f.chain)
      PROVE  /\ f.chain[i].leaf = Root(i, T(i))
             /\ tree[<<i + 1, T(i + 1)>>][f.chain[i].position + 1] = f.chain[i].leaf
  <2>1. Len(f.chain) = f.layer - 1 /\ f.chain[i].leaf = Root(i, T(i))
        /\ f.chain[i].position = RungPosition(h, i)
    BY DEF Whole, Consistent
  <2>2. i + 1 \in 1 .. f.layer /\ i \in 1 .. MaxAnchorLayer - 1
    BY <1>1, <2>1, LayerAssumption
  <2>3. T(i + 1) # None /\ T(i + 1) <= head
    BY <1>2, <2>2
  <2>4. tree[<<i + 1, T(i + 1)>>][RungPosition(h, i) + 1] = Root(i, T(i))
    BY <1>3, <2>2, <2>3, RungIsThere
  <2>5. QED
    BY <2>1, <2>4
<1>6. QED
  BY <1>4, <1>5 DEF Proves, Whole, Consistent

(* A written fixture whose anchor root the node reported truthfully proves *)
(* the event's block, whatever else the node misreported.                  *)
THEOREM FixtureProvesEventAlways == PipelineSpec => []FixtureProvesEvent
<1>1. PipelineInv => FixtureProvesEvent
  BY WholeProves DEF PipelineInv, OutcomeInv, ExporterInv, PipeInv, Whole, FixtureProvesEvent
<1>2. QED
  BY <1>1, PipelineInvariant, PTL

(* A proof that a contract took proves the event, whatever the node        *)
(* misreported and whichever run the file was of.                          *)
THEOREM AcceptedProvesEventAlways == PipelineSpec => []AcceptedProvesEvent
<1>1. PipelineInv => AcceptedProvesEvent
  BY WholeProves DEF PipelineInv, OutcomeInv, ExporterInv, PipeInv, AcceptedProvesEvent
<1>2. QED
  BY <1>1, PipelineInvariant, PTL

(* The height a proof passes on as its expiry is exactly the first at      *)
(* which the chain no longer takes it.                                     *)
THEOREM ClaimableUntilExpiryAlways == PipelineSpec => []ClaimableUntilExpiry
<1>1. PipelineInv => ClaimableUntilExpiry
  <2> SUFFICES ASSUME PipelineInv, proof # None, ~Lying(proof.layer, proof.anchor, FALSE)
               PROVE  Accepts(proof.layer, proof.root)
                        <=> (proof.expires = None \/ head < proof.expires)
    BY DEF ClaimableUntilExpiry
  <2> DEFINE n == proof.layer
             h == proof.event
             t == AnchorBlockHeight(h, n)
  <2>1. /\ ChainTypeOK /\ CursorInv /\ head \in Nat /\ Whole(proof)
    BY MaxHeadAssumption DEF PipelineInv, OutcomeInv, ExporterInv, PipeInv, ChainTypeOK
  <2>2. /\ h \in Nat /\ n \in 1 .. MaxAnchorLayer /\ t # None /\ t <= head
        /\ proof.root = Root(n, t) /\ proof.expires = AnchorExpiryHeight(h, n)
    BY <2>1 DEF Whole, Consistent
  <2>3. t \in Nat /\ h < t
    BY <2>2, AnchorFacts
  <2>4. h \in 0 .. head
    <3> HIDE DEF t
    <3>1. QED
      BY <2>1, <2>2, <2>3
  <2>5. Held(n, Root(n, t)) <=>
          (t <= head /\ (AnchorExpiryHeight(h, n) = None \/ head < AnchorExpiryHeight(h, n)))
    BY <2>1, <2>2, <2>4, WindowLemma DEF AcceptedExactlyInWindow
  <2>6. QED
    BY <2>2, <2>5 DEF Accepts
<1>2. QED
  BY <1>1, PipelineInvariant, PTL

=============================================================================
