------------------------ MODULE ProverCache_proofs ------------------------
(***************************************************************************)
(* Proofs about the prover's keys and its cache, for any circuit shapes    *)
(* and any number of faults: types for any number of provers, the matching *)
(* of cached files for provers that run one after the other, and that      *)
(* proofs verify for any number of them side by side.                      *)
(***************************************************************************)
EXTENDS ProverCache, TLAPS

Marks == {Absent, Torn, Garbled}

(* The file of each write. *)
LEMMA FilesWritten ==
  /\ Writing = {"put_srs", "put_vk", "put_pk", "put_bp"}
  /\ FileOf["put_srs"] = "srs" /\ FileOf["put_vk"] = "vk"
  /\ FileOf["put_pk"] = "pk" /\ FileOf["put_bp"] = "bp"
BY DEF Writing, FileOf

(* Keys are none of the marks, nor is a shape. *)
LEMMA MarksApart ==
  /\ Absent # Torn /\ Absent # Garbled /\ Torn # Garbled /\ NoKey # Garbled
  /\ \A x \in SrsKinds \cup Shapes \cup KeyType : x \notin Marks \cup {NoKey}
BY MarksAssumption DEF Marks

(* A key made for an SRS and a shape is a key. *)
LEMMA NewKeyType ==
  ASSUME CacheTypeOK, NEW p \in Provers
  PROVE  NewKey(p) \in KeyType
BY DEF CacheTypeOK, NewKey, KeyType

-----------------------------------------------------------------------------
(* Type correctness, one action at a time. *)

LEMMA InitType == Init => CacheTypeOK
<1> SUFFICES ASSUME Init PROVE CacheTypeOK
  OBVIOUS
<1> USE DEF Init
<1>1. ChainShape \in Shapes /\ MaxFaults \in Nat
  BY ShapesAssumption, FaultsAssumption
<1>2. "off" \in Labels
  BY DEF Labels
<1>3. /\ disk = [f \in {"srs", "vk", "pk", "bp"} |-> disk[f]]
      /\ \A f \in {"srs", "vk", "pk", "bp"} : disk[f] = Absent
  OBVIOUS
<1>4. cut \in [Provers -> BOOLEAN] /\ pc \in [Provers -> Labels]
  BY <1>2
<1>5. /\ how \in [Provers -> Constructors \cup {"none"}]
      /\ srs \in [Provers -> SrsKinds \cup {Garbled}] /\ shape \in [Provers -> Shapes]
  BY <1>1 DEF SrsKinds
<1>6. /\ pk \in [Provers -> KeyType \cup {NoKey, Garbled}]
      /\ vk \in [Provers -> KeyType \cup {NoKey}] /\ bp \in [Provers -> Shapes \cup {NoKey}]
  OBVIOUS
<1>7. faults \in 0 .. MaxFaults
  BY <1>1
<1>8. flushLost \in BOOLEAN /\ overlap \in BOOLEAN
  BY Zenon
<1> QED
  BY <1>3, <1>4, <1>5, <1>6, <1>7, <1>8 DEF CacheTypeOK

LEMMA CreateType ==
  ASSUME CacheTypeOK, NEW p \in Provers, NEW label \in Writing, Create(p, label)
  PROVE  CacheTypeOK'
<1>1. FileOf[label] \in {"srs", "vk", "pk", "bp"} /\ label \in Labels
  BY FilesWritten DEF Labels
<1> QED
  BY <1>1 DEF Create, CacheTypeOK, Goto, memory

LEMMA AfterWriteType ==
  ASSUME CacheTypeOK, NEW p \in Provers, pc[p] \in Writing, AfterWrite(p)
  PROVE  /\ pc' \in [Provers -> Labels]
         /\ UNCHANGED <<how, srs, shape, proof>>
         /\ pk' \in [Provers -> KeyType \cup {NoKey, Garbled}]
         /\ vk' \in [Provers -> KeyType \cup {NoKey}]
         /\ bp' \in [Provers -> Shapes \cup {NoKey}]
<1>1. NewKey(p) \in KeyType /\ shape[p] \in Shapes
  BY NewKeyType DEF CacheTypeOK
<1>2. {"look", "keygen_pk", "half_saved", "prove"} \subseteq Labels
  BY DEF Labels
<1> QED
  BY <1>1, <1>2 DEF AfterWrite, CacheTypeOK, Goto, memory

LEMMA FinishWriteType ==
  ASSUME CacheTypeOK, NEW p \in Provers, FinishWrite(p)
  PROVE  CacheTypeOK'
<1>1. PICK v \in Filled(p) : disk' = [disk EXCEPT ![FileOf[pc[p]]] = v]
  BY DEF FinishWrite
<1>2. v = Value(p) \/ v = Garbled
  BY DEF Filled
<1>3. NewKey(p) \in KeyType /\ shape[p] \in Shapes /\ srs[p] \in SrsKinds \cup {Garbled}
  BY NewKeyType DEF CacheTypeOK
<1>4. /\ disk' = [f \in {"srs", "vk", "pk", "bp"} |-> disk'[f]]
      /\ disk'["srs"] \in SrsKinds \cup Marks
      /\ disk'["vk"] \in KeyType \cup Marks
      /\ disk'["pk"] \in KeyType \cup Marks
      /\ disk'["bp"] \in Shapes \cup Marks
  <2>1. CASE pc[p] = "put_srs"
    BY <1>1, <1>2, <1>3, <2>1, FilesWritten DEF Value, CacheTypeOK, Marks
  <2>2. CASE pc[p] = "put_vk"
    BY <1>1, <1>2, <1>3, <2>2, FilesWritten DEF Value, CacheTypeOK, Marks
  <2>3. CASE pc[p] = "put_pk"
    BY <1>1, <1>2, <1>3, <2>3, FilesWritten DEF Value, CacheTypeOK, Marks
  <2>4. CASE pc[p] = "put_bp"
    BY <1>1, <1>2, <1>3, <2>4, FilesWritten DEF Value, CacheTypeOK, Marks
  <2> QED
    BY <2>1, <2>2, <2>3, <2>4, FilesWritten DEF FinishWrite
<1>5. pc[p] \in Writing /\ AfterWrite(p) /\ UNCHANGED <<cut, faults, flushLost, overlap>>
  BY DEF FinishWrite
<1> QED
  BY <1>4, <1>5, AfterWriteType DEF CacheTypeOK, Marks

LEMMA StartType ==
  ASSUME CacheTypeOK, NEW p \in Provers, NEW c \in Constructors, Start(p, c)
  PROVE  CacheTypeOK'
<1>1. SrsOf(c) \in SrsKinds
  BY DEF SrsOf, SrsKinds
<1>2. {"save_srs", "look", "ready", "failed"} \subseteq Labels
  BY DEF Labels
<1>3. disk["srs"] \notin {Absent, Torn} => disk["srs"] \in SrsKinds \cup {Garbled}
  BY DEF CacheTypeOK
<1>4. srs' = srs \/ \E v \in SrsKinds \cup {Garbled} : srs' = [srs EXCEPT ![p] = v]
  BY <1>1, <1>3 DEF Start, Readable
<1>5. \E label \in {"save_srs", "look", "ready", "failed"} : pc' = [pc EXCEPT ![p] = label]
  BY DEF Start, Goto
<1>6. srs' \in [Provers -> SrsKinds \cup {Garbled}] /\ pc' \in [Provers -> Labels]
  BY <1>2, <1>4, <1>5 DEF CacheTypeOK
<1>7. /\ how' = [how EXCEPT ![p] = c]
      /\ UNCHANGED <<disk, cut, shape, pk, vk, bp, proof, faults, flushLost, overlap>>
  BY DEF Start
<1>8. how' \in [Provers -> Constructors \cup {"none"}]
  BY <1>7 DEF CacheTypeOK
<1> QED
  BY <1>6, <1>7, <1>8 DEF CacheTypeOK

LEMMA StartFailsType ==
  ASSUME CacheTypeOK, NEW p \in Provers, NEW c \in Constructors, StartFails(p, c)
  PROVE  CacheTypeOK'
<1>1. "failed" \in Labels
  BY DEF Labels
<1>2. faults' \in 0 .. MaxFaults
  BY FaultsAssumption DEF StartFails, CacheTypeOK
<1> QED
  BY <1>1, <1>2 DEF StartFails, Goto, CacheTypeOK

LEMMA KeygenInMemoryType ==
  ASSUME CacheTypeOK, NEW p \in Provers, KeygenInMemory(p)
  PROVE  CacheTypeOK'
<1>1. NewKey(p) \in KeyType /\ shape[p] \in Shapes /\ "prove" \in Labels
  BY NewKeyType DEF CacheTypeOK, Labels
<1> QED
  BY <1>1 DEF KeygenInMemory, Goto, CacheTypeOK

(* What the actions do that only look at files and keys. *)
LEMMA LookAndLoadType ==
  ASSUME CacheTypeOK, NEW p \in Provers, Look(p) \/ LoadPk(p) \/ LoadBp(p)
  PROVE  CacheTypeOK'
<1>1. {"load_pk", "ready", "load_bp", "failed", OnBadKey} \subseteq Labels
  BY DEF Labels, OnBadKey
<1>2. CASE Look(p)
  BY <1>1, <1>2 DEF Look, Goto, CacheTypeOK, memory
<1>3. CASE LoadPk(p)
  BY <1>1, <1>3 DEF LoadPk, Goto, Readable, CacheTypeOK
<1>4. CASE LoadBp(p)
  BY <1>1, <1>4 DEF LoadBp, Goto, CacheTypeOK
<1> QED
  BY <1>2, <1>3, <1>4

LEMMA ProveType ==
  ASSUME CacheTypeOK, NEW p \in Provers, Prove(p)
  PROVE  CacheTypeOK'
<1>1. "ready" \in Labels
  BY DEF Labels
<1> DEFINE x == [srs |-> srs[p], key |-> pk[p], points |-> bp[p], shape |-> shape[p]]
<1>2. x \in [srs : SrsKinds \cup {Garbled}, key : KeyType \cup {NoKey, Garbled},
              points : Shapes \cup {NoKey}, shape : Shapes]
  BY DEF CacheTypeOK
<1>3. proof' = [proof EXCEPT ![p] = x]
  BY DEF Prove
<1> HIDE DEF x
<1> QED
  BY <1>1, <1>2, <1>3 DEF Prove, Goto, CacheTypeOK

LEMMA GenerateType ==
  ASSUME CacheTypeOK, NEW p \in Provers, NEW s \in Shapes, Generate(p, s)
  PROVE  CacheTypeOK'
BY DEF Generate, Goto, Labels, CacheTypeOK

LEMMA EndType ==
  ASSUME CacheTypeOK, NEW p \in Provers, Quit(p) \/ Crash(p)
  PROVE  CacheTypeOK'
<1>1. "off" \in Labels
  BY DEF Labels
<1>2. faults' \in 0 .. MaxFaults
  BY FaultsAssumption DEF Quit, Crash, CacheTypeOK
<1> QED
  BY <1>1, <1>2 DEF Quit, Crash, Forget, Goto, CacheTypeOK

LEMMA FaultType ==
  ASSUME CacheTypeOK, NEW p \in Provers, WriteFails(p) \/ LoseFlush(p)
  PROVE  CacheTypeOK'
<1>1. faults' \in 0 .. MaxFaults
  BY FaultsAssumption DEF WriteFails, LoseFlush, CacheTypeOK
<1>2. CASE WriteFails(p)
  <2>1. {"failed", "erred"} \subseteq Labels
    BY DEF Labels
  <2> QED
    BY <1>1, <1>2, <2>1 DEF WriteFails, Goto, memory, CacheTypeOK
<1>3. CASE LoseFlush(p)
  <2>1. pc[p] \in Writing /\ AfterWrite(p)
    BY <1>3, FilesWritten DEF LoseFlush
  <2> QED
    BY <1>1, <1>3, <2>1, AfterWriteType DEF LoseFlush, CacheTypeOK
<1> QED
  BY <1>2, <1>3

LEMMA SaveIsCreate ==
  ASSUME NEW p \in Provers, SaveSrs(p) \/ SaveVk(p) \/ SaveFirst(p) \/ SaveSecond(p)
  PROVE  \E label \in Writing : Create(p, label)
BY FilesWritten DEF SaveSrs, SaveVk, SaveFirst, SaveSecond, KeyFiles

(* Spec => []CacheTypeOK: types hold for any number of provers, that start *)
(* by any constructor, fail and crash at any point.                        *)
THEOREM CacheTypeCorrect == Spec => []CacheTypeOK
<1>1. CacheTypeOK /\ [Next]_vars => CacheTypeOK'
  <2> SUFFICES ASSUME CacheTypeOK, [Next]_vars PROVE CacheTypeOK'
    OBVIOUS
  <2>1. CASE UNCHANGED vars
    BY <2>1 DEF vars, memory, CacheTypeOK
  <2>2. CASE Next
    <3>1. PICK p \in Provers :
             \/ Step(p) \/ WriteFails(p) \/ LoseFlush(p) \/ Crash(p)
             \/ \E c \in Constructors : StartFails(p, c)
      BY <2>2 DEF Next
    <3>2. CASE \E c \in Constructors : Start(p, c)
      BY <3>2, StartType
    <3>3. CASE SaveSrs(p) \/ SaveVk(p) \/ SaveFirst(p) \/ SaveSecond(p)
      BY <3>3, SaveIsCreate, CreateType
    <3>4. CASE FinishWrite(p)
      BY <3>4, FinishWriteType
    <3>5. CASE Look(p) \/ LoadPk(p) \/ LoadBp(p)
      BY <3>5, LookAndLoadType
    <3>6. CASE \E s \in Shapes : Generate(p, s)
      BY <3>6, GenerateType
    <3>7. CASE Prove(p)
      BY <3>7, ProveType
    <3>8. CASE Quit(p) \/ Crash(p)
      BY <3>8, EndType
    <3>9. CASE WriteFails(p) \/ LoseFlush(p)
      BY <3>9, FaultType
    <3>10. CASE KeygenInMemory(p)
      BY <3>10, KeygenInMemoryType
    <3>11. CASE \E c \in Constructors : StartFails(p, c)
      BY <3>11, StartFailsType
    <3> QED
      BY <3>1, <3>2, <3>3, <3>4, <3>5, <3>6, <3>7, <3>8, <3>9, <3>10, <3>11 DEF Step
  <2> QED
    BY <2>1, <2>2
<1> QED
  BY <1>1, InitType, PTL DEF Spec

-----------------------------------------------------------------------------
(* Provers side by side: while no two have filled one file at a time, a    *)
(* file is absent, torn or right, and so is what a prover has in memory.   *)

SharedAssumption ==
  /\ Constructors \subseteq {"url", "hermez", "url_uncached", "hermez_uncached"}
  /\ Shapes = {ChainShape}

ChainKey == [srs |-> "hermez", shape |-> ChainShape]

Right(f) == IF f = "srs" THEN "hermez" ELSE IF f = "bp" THEN ChainShape ELSE ChainKey

CleanDisk == \A f \in {"srs", "vk", "pk", "bp"} : disk[f] \in {Absent, Torn, Right(f)}

Clean(p) ==
  /\ ~cut[p] /\ srs[p] = "hermez" /\ shape[p] = ChainShape
  /\ pc[p] \notin {"load_bp", "failed"} =>
       pk[p] = NoKey \/ (pk[p] = ChainKey /\ bp[p] = ChainShape)
  /\ pc[p] = "prove" => pk[p] # NoKey
  /\ pc[p] = "load_bp" => pk[p] = ChainKey
  /\ proof[p] # NoKey => Verifies(proof[p])

CleanInv == CacheTypeOK /\ (~overlap => CleanDisk /\ \A p \in Provers : Clean(p))

LEMMA ChainKeyIsAKey ==
  ASSUME SharedAssumption
  PROVE  /\ ChainKey \in KeyType /\ ChainKey # NoKey /\ ChainKey \notin Marks
         /\ ChainShape \notin Marks \cup {NoKey} /\ "hermez" \notin Marks
<1>1. ChainKey \in KeyType /\ ChainShape \in Shapes /\ "hermez" \in SrsKinds
  BY DEF SharedAssumption, ChainKey, KeyType, SrsKinds
<1> QED
  BY <1>1, MarksApart

(* A file that is filled with nobody beside holds the right value. *)
LEMMA RightValue ==
  ASSUME CleanInv, ~overlap, NEW p \in Provers, pc[p] \in Writing
  PROVE  Value(p) = Right(FileOf[pc[p]]) /\ Filled(p) = {Value(p)}
<1>1. \A q \in Provers : srs[q] = "hermez" /\ shape[q] = ChainShape /\ ~cut[q]
  BY DEF CleanInv, Clean
<1>2. \A q \in Provers : pc[q] = pc[p] => Value(q) = Value(p)
  BY <1>1 DEF Value, NewKey
<1>3. Filled(p) = {Value(p)}
  BY <1>1, <1>2 DEF Filled, Beside
<1> QED
  BY <1>1, <1>3, FilesWritten DEF Value, Right, NewKey, ChainKey

(* Creating a file that nobody is filling cuts nobody short. *)
LEMMA CreateClean ==
  ASSUME CleanInv, NEW p \in Provers, pc[p] \in {"save_srs", "keygen_vk", "keygen_pk", "half_saved"},
         NEW label \in Writing, Create(p, label), ~overlap'
  PROVE  CleanDisk' /\ \A q \in Provers : Clean(q)'
<1>1. ~overlap /\ \A q \in Provers : pc[q] # label
  BY DEF Create
<1>2. CleanDisk /\ \A q \in Provers : Clean(q)
  BY <1>1 DEF CleanInv
<1>3. CleanDisk'
  <2>1. FileOf[label] \in {"srs", "vk", "pk", "bp"}
    BY FilesWritten
  <2> QED
    BY <1>2, <2>1 DEF Create, CleanDisk, CleanInv, CacheTypeOK
<1>4. ASSUME NEW q \in Provers PROVE Clean(q)'
  <2>1. ~cut'[q] /\ pc'[q] = IF q = p THEN label ELSE pc[q]
    BY <1>1, <1>2 DEF Create, Goto, Clean, CleanInv, CacheTypeOK
  <2>2. label \notin {"load_bp", "failed", "prove"}
    BY FilesWritten
  <2> QED
    BY <1>2, <2>1, <2>2 DEF Create, memory, Clean
<1> QED
  BY <1>3, <1>4

(* What a finished write leaves in memory. *)
LEMMA AfterWriteClean ==
  ASSUME CleanInv, ~overlap, NEW p \in Provers, pc[p] \in Writing, AfterWrite(p), UNCHANGED cut
  PROVE  \A q \in Provers : Clean(q)'
<1> SUFFICES ASSUME NEW q \in Provers PROVE Clean(q)'
  OBVIOUS
<1>1. Clean(q) /\ Clean(p)
  BY DEF CleanInv
<1>2. UNCHANGED <<srs, shape, proof>> /\ pc' = [pc EXCEPT ![p] = pc'[p]]
      /\ pc'[p] \in {"look", "keygen_pk", "half_saved", "prove"}
  BY DEF AfterWrite, memory, Goto, CleanInv, CacheTypeOK
<1>3. CASE pc'[p] = "prove"
  <2>1. /\ pk' = [pk EXCEPT ![p] = NewKey(p)] /\ bp' = [bp EXCEPT ![p] = shape[p]]
    BY <1>3 DEF AfterWrite, Goto, CleanInv, CacheTypeOK
  <2>2. NewKey(p) = ChainKey /\ shape[p] = ChainShape /\ NewKey(p) # NoKey
    BY <1>1, NewKeyType, MarksApart DEF Clean, NewKey, ChainKey, CleanInv
  <2>3. pc'[q] = (IF q = p THEN "prove" ELSE pc[q])
    BY <1>2, <1>3 DEF CleanInv, CacheTypeOK
  <2>4. /\ pk'[q] = (IF q = p THEN ChainKey ELSE pk[q])
        /\ bp'[q] = (IF q = p THEN ChainShape ELSE bp[q])
    BY <2>1, <2>2 DEF CleanInv, CacheTypeOK
  <2> QED
    BY <1>1, <1>2, <2>2, <2>3, <2>4 DEF Clean
<1>4. CASE pc'[p] # "prove"
  <2>1. UNCHANGED <<pk, bp>>
    BY <1>4 DEF AfterWrite, Goto, memory, CleanInv, CacheTypeOK
  <2>2. pc[p] \notin {"load_bp", "failed"}
    BY FilesWritten
  <2>3. pc'[q] = (IF q = p THEN pc'[p] ELSE pc[q])
    BY <1>2 DEF CleanInv, CacheTypeOK
  <2> QED
    BY <1>1, <1>2, <1>4, <2>1, <2>2, <2>3 DEF Clean
<1> QED
  BY <1>3, <1>4

LEMMA FinishWriteClean ==
  ASSUME CleanInv, ~overlap, NEW p \in Provers, FinishWrite(p)
  PROVE  CleanDisk' /\ \A q \in Provers : Clean(q)'
<1>1. pc[p] \in Writing /\ AfterWrite(p) /\ UNCHANGED cut
  BY DEF FinishWrite
<1>2. CleanDisk'
  <2>1. disk' = [disk EXCEPT ![FileOf[pc[p]]] = Right(FileOf[pc[p]])]
    BY <1>1, RightValue DEF FinishWrite
  <2>2. CleanDisk /\ FileOf[pc[p]] \in {"srs", "vk", "pk", "bp"}
    BY <1>1, FilesWritten DEF CleanInv
  <2> QED
    BY <2>1, <2>2 DEF CleanDisk, CleanInv, CacheTypeOK
<1> QED
  BY <1>1, <1>2, AfterWriteClean

LEMMA StartClean ==
  ASSUME SharedAssumption, CleanInv, ~overlap,
         NEW p \in Provers, NEW c \in Constructors, Start(p, c)
  PROVE  CleanDisk' /\ \A q \in Provers : Clean(q)'
<1>1. CleanDisk /\ \A q \in Provers : Clean(q)
  BY DEF CleanInv
<1>2. SrsOf(c) = "hermez"
  BY DEF SrsOf, SharedAssumption
<1>3. disk["srs"] \in {Absent, Torn, "hermez"}
  BY <1>1 DEF CleanDisk, Right
<1>4. \A q \in Provers : srs'[q] = "hermez"
  BY <1>1, <1>2, <1>3 DEF Start, Readable, Clean, CleanInv, CacheTypeOK
<1>5. /\ pc[p] = "off" /\ pc'[p] \in {"save_srs", "look", "ready", "failed"}
      /\ \A q \in Provers \ {p} : pc'[q] = pc[q]
  BY DEF Start, Goto, CleanInv, CacheTypeOK
<1>6. CleanDisk'
  BY <1>1 DEF Start, CleanDisk
<1> QED
  BY <1>1, <1>4, <1>5, <1>6 DEF Start, Clean

LEMMA StartFailsClean ==
  ASSUME CleanInv, ~overlap, NEW p \in Provers, NEW c \in Constructors, StartFails(p, c)
  PROVE  CleanDisk' /\ \A q \in Provers : Clean(q)'
<1>1. CleanDisk /\ \A q \in Provers : Clean(q)
  BY DEF CleanInv
<1>2. pc'[p] = "failed" /\ \A q \in Provers \ {p} : pc'[q] = pc[q]
  BY DEF StartFails, Goto, CleanInv, CacheTypeOK
<1>3. CleanDisk'
  BY <1>1 DEF StartFails, CleanDisk
<1> QED
  BY <1>1, <1>2, <1>3 DEF StartFails, Clean

LEMMA KeygenInMemoryClean ==
  ASSUME CleanInv, ~overlap, NEW p \in Provers, KeygenInMemory(p)
  PROVE  CleanDisk' /\ \A q \in Provers : Clean(q)'
<1>1. CleanDisk /\ \A q \in Provers : Clean(q)
  BY DEF CleanInv
<1>2. CleanDisk'
  BY <1>1 DEF KeygenInMemory, CleanDisk
<1>3. NewKey(p) = ChainKey /\ shape[p] = ChainShape /\ NewKey(p) # NoKey
  BY <1>1, NewKeyType, MarksApart DEF Clean, NewKey, ChainKey, CleanInv
<1>4. /\ pc'[p] = "prove" /\ pk'[p] = ChainKey /\ bp'[p] = ChainShape
      /\ \A q \in Provers \ {p} : pc'[q] = pc[q] /\ pk'[q] = pk[q] /\ bp'[q] = bp[q]
  BY <1>3 DEF KeygenInMemory, Goto, CleanInv, CacheTypeOK
<1>5. UNCHANGED <<cut, srs, shape, proof>>
  BY DEF KeygenInMemory
<1>6. ChainKey # NoKey
  BY <1>3
<1> QED
  BY <1>1, <1>2, <1>4, <1>5, <1>6 DEF Clean

LEMMA LookAndLoadClean ==
  ASSUME SharedAssumption, CleanInv, ~overlap,
         NEW p \in Provers, Look(p) \/ LoadPk(p) \/ LoadBp(p)
  PROVE  CleanDisk' /\ \A q \in Provers : Clean(q)'
<1>1. CleanDisk /\ \A q \in Provers : Clean(q)
  BY DEF CleanInv
<1>2. /\ disk["pk"] \in {Absent, Torn, ChainKey}
      /\ disk["bp"] \in {Absent, Torn, ChainShape}
  BY <1>1 DEF CleanDisk, Right
<1>3. CleanDisk'
  BY <1>1 DEF Look, LoadPk, LoadBp, CleanDisk
<1>4. CASE Look(p)
  BY <1>1, <1>3, <1>4 DEF Look, Goto, memory, Clean, CleanInv, CacheTypeOK
<1>5. CASE LoadPk(p)
  BY <1>1, <1>2, <1>3, <1>5, ChainKeyIsAKey
     DEF LoadPk, Goto, Readable, OnBadKey, Marks, Clean, CleanInv, CacheTypeOK
<1>6. CASE LoadBp(p)
  BY <1>1, <1>2, <1>3, <1>6 DEF LoadBp, Goto, Clean, CleanInv, CacheTypeOK
<1> QED
  BY <1>4, <1>5, <1>6

LEMMA GenerateClean ==
  ASSUME SharedAssumption, CleanInv, ~overlap, NEW p \in Provers, NEW s \in Shapes, Generate(p, s)
  PROVE  CleanDisk' /\ \A q \in Provers : Clean(q)'
<1>1. CleanDisk /\ \A q \in Provers : Clean(q)
  BY DEF CleanInv
<1>2. CleanDisk'
  BY <1>1 DEF Generate, CleanDisk
<1>3. s = ChainShape
  BY DEF SharedAssumption
<1> QED
  BY <1>1, <1>2, <1>3 DEF Generate, Goto, Clean, CleanInv, CacheTypeOK

LEMMA ProveClean ==
  ASSUME CleanInv, ~overlap, NEW p \in Provers, Prove(p)
  PROVE  CleanDisk' /\ \A q \in Provers : Clean(q)'
<1>1. CleanDisk /\ \A q \in Provers : Clean(q)
  BY DEF CleanInv
<1>2. CleanDisk'
  BY <1>1 DEF Prove, CleanDisk
<1>3. /\ pk[p] = ChainKey /\ bp[p] = ChainShape /\ srs[p] = "hermez" /\ shape[p] = ChainShape
  BY <1>1 DEF Prove, Clean
<1>4. Verifies([srs |-> srs[p], key |-> pk[p], points |-> bp[p], shape |-> shape[p]])
  BY <1>3 DEF Verifies, ChainKey
<1>5. Verifies(proof'[p]) /\ \A q \in Provers \ {p} : proof'[q] = proof[q]
  BY <1>4 DEF Prove, CleanInv, CacheTypeOK
<1>6. pc'[p] = "ready" /\ \A q \in Provers \ {p} : pc'[q] = pc[q]
  BY DEF Prove, Goto, CleanInv, CacheTypeOK
<1>7. ASSUME NEW q \in Provers PROVE Clean(q)'
  <2>1. proof'[q] # NoKey => Verifies(proof[q])'
    BY <1>1, <1>5 DEF Clean, Verifies
  <2> QED
    BY <1>1, <1>3, <1>6, <2>1 DEF Prove, Clean
<1> QED
  BY <1>2, <1>7

LEMMA EndClean ==
  ASSUME CleanInv, ~overlap, NEW p \in Provers, Quit(p) \/ Crash(p)
  PROVE  CleanDisk' /\ \A q \in Provers : Clean(q)'
<1>1. CleanDisk /\ \A q \in Provers : Clean(q)
  BY DEF CleanInv
<1>2. CleanDisk'
  BY <1>1 DEF Quit, Crash, CleanDisk
<1>3. /\ pc'[p] = "off" /\ pk'[p] = NoKey /\ proof'[p] = NoKey
      /\ \A q \in Provers \ {p} :
           pc'[q] = pc[q] /\ pk'[q] = pk[q] /\ bp'[q] = bp[q] /\ proof'[q] = proof[q]
  BY DEF Quit, Crash, Goto, Forget, CleanInv, CacheTypeOK
<1> QED
  BY <1>1, <1>2, <1>3 DEF Quit, Crash, Clean, Verifies

LEMMA FaultClean ==
  ASSUME CleanInv, ~overlap, NEW p \in Provers, WriteFails(p) \/ LoseFlush(p)
  PROVE  CleanDisk' /\ \A q \in Provers : Clean(q)'
<1>1. CleanDisk /\ \A q \in Provers : Clean(q)
  BY DEF CleanInv
<1>2. CleanDisk'
  BY <1>1 DEF WriteFails, LoseFlush, CleanDisk
<1>3. CASE WriteFails(p)
  <2>1. pc[p] \notin {"load_bp", "failed"} /\ pc'[p] \in {"failed", "erred"}
        /\ \A q \in Provers \ {p} : pc'[q] = pc[q]
    BY <1>3, FilesWritten DEF WriteFails, Goto, CleanInv, CacheTypeOK
  <2> QED
    BY <1>1, <1>2, <1>3, <2>1 DEF WriteFails, memory, Clean
<1>4. CASE LoseFlush(p)
  BY <1>2, <1>4, AfterWriteClean, FilesWritten DEF LoseFlush
<1> QED
  BY <1>3, <1>4

(* Spec => []ProofsVerify, for any number of provers that share a cache    *)
(* directory, the chain's SRS and the chain's circuit shape: no crash,     *)
(* failed write, lost flush or half-written file makes generate_proof give *)
(* a proof that does not verify, as long as two of them have not filled    *)
(* one file at a time.                                                     *)
THEOREM ProofsAlwaysVerify == SharedAssumption => (Spec => []ProofsVerify)
<1> SUFFICES ASSUME SharedAssumption PROVE Spec => []ProofsVerify
  OBVIOUS
<1>1. Init => CleanInv
  <2> SUFFICES ASSUME Init PROVE CleanInv
    OBVIOUS
  <2>1. CleanDisk /\ \A q \in Provers : Clean(q)
    BY DEF Init, CleanDisk, Clean
  <2> QED
    BY <2>1, InitType DEF CleanInv
<1>2. CleanInv /\ CacheTypeOK' /\ [Next]_vars => CleanInv'
  <2> SUFFICES ASSUME CleanInv, CacheTypeOK', [Next]_vars, ~overlap'
               PROVE  CleanDisk' /\ \A q \in Provers : Clean(q)'
    BY DEF CleanInv
  <2>1. CASE UNCHANGED vars
    BY <2>1 DEF vars, memory, CleanInv, CleanDisk, Clean, Verifies
  <2>2. CASE Next
    <3>1. PICK p \in Provers :
             \/ Step(p) \/ WriteFails(p) \/ LoseFlush(p) \/ Crash(p)
             \/ \E c \in Constructors : StartFails(p, c)
      BY <2>2 DEF Next
    <3>2. CASE SaveSrs(p) \/ SaveVk(p) \/ SaveFirst(p) \/ SaveSecond(p)
      <4>1. pc[p] \in {"save_srs", "keygen_vk", "keygen_pk", "half_saved"}
        BY <3>2 DEF SaveSrs, SaveVk, SaveFirst, SaveSecond
      <4> QED
        BY <3>2, <4>1, SaveIsCreate, CreateClean
    <3>3. CASE ~(SaveSrs(p) \/ SaveVk(p) \/ SaveFirst(p) \/ SaveSecond(p))
      <4>1. ~overlap
        BY <3>1, <3>3 DEF Step, Start, StartFails, FinishWrite, KeygenInMemory, Look, LoadPk,
                          LoadBp, Generate, Prove, Quit, Crash, WriteFails, LoseFlush
      <4> QED
        BY <3>1, <3>3, <4>1, StartClean, StartFailsClean, FinishWriteClean, KeygenInMemoryClean,
           LookAndLoadClean, GenerateClean, ProveClean, EndClean, FaultClean DEF Step
    <3> QED
      BY <3>2, <3>3
  <2> QED
    BY <2>1, <2>2
<1>3. CleanInv => ProofsVerify
  BY DEF CleanInv, Clean, ProofsVerify
<1> QED
  BY <1>1, <1>2, <1>3, CacheTypeCorrect, PTL DEF Spec

-----------------------------------------------------------------------------
(* Provers one after the other: a proving key and break points that are    *)
(* both whole come from one keygen, because a keygen only starts where one *)
(* of the two is missing or torn, replaces the key before the break        *)
(* points, and an error forgets neither.  A prover without a directory     *)
(* makes its keys whatever the directory holds, and writes none of them.   *)

OneAtATime == \E me : Provers = {me}

KeygenSteps == {"keygen_vk", "put_vk", "keygen_pk", "put_pk", "half_saved", "put_bp"}

Keyless(p) == pc[p] \in {"ready", "erred"} /\ pk[p] = NoKey

MatchInv ==
  /\ CacheTypeOK
  /\ \A f \in {"srs", "vk", "pk", "bp"} : disk[f] # Garbled
  /\ disk["bp"] # Absent => disk["pk"] # Absent
  /\ \A p \in Provers :
       /\ ~cut[p] /\ srs[p] # Garbled
       /\ how[p] \in Uncached => pc[p] \notin KeygenSteps \ {"keygen_vk"}
       /\ (pc[p] \in KeygenSteps \/ Keyless(p)) /\ how[p] \notin Uncached =>
            disk["bp"] \in {Absent, Torn}
       /\ pc[p] \in {"keygen_pk", "put_pk", "half_saved", "put_bp"} =>
            disk["vk"] \in {NewKey(p), Torn}
       /\ pc[p] \in {"half_saved", "put_bp"} =>
            disk["pk"] = NewKey(p) \/ (disk["pk"] = Torn /\ flushLost)
       /\ pc[p] = "put_vk" => disk["vk"] = Torn
       /\ pc[p] = "put_pk" => disk["pk"] = Torn
       /\ pc[p] = "put_bp" => disk["bp"] = Torn
       /\ pc[p] \in {"prove", "load_bp"} => pk[p] # NoKey
  /\ KeysMatch /\ TornKeyNeverLooksSaved

(* With nobody beside, a file is filled with what it should hold. *)
LEMMA AloneFills ==
  ASSUME OneAtATime, MatchInv, NEW p \in Provers, pc[p] \in Writing
  PROVE  Filled(p) = {Value(p)}
<1>1. Beside(p) = {} /\ ~cut[p]
  BY DEF OneAtATime, Beside, MatchInv
<1> QED
  BY <1>1 DEF Filled

LEMMA SaveMatches ==
  ASSUME OneAtATime, MatchInv, CacheTypeOK', NEW p \in Provers,
         SaveSrs(p) \/ SaveVk(p) \/ SaveFirst(p) \/ SaveSecond(p)
  PROVE  MatchInv'
<1> USE DEF OneAtATime
<1>1. /\ \A q \in Provers : q = p
      /\ UNCHANGED <<memory, flushLost>> /\ cut'[p] = FALSE
  BY DEF SaveSrs, SaveVk, SaveFirst, SaveSecond, Create, MatchInv
<1>2. CASE SaveSrs(p)
  <2>1. disk' = [disk EXCEPT !["srs"] = Torn] /\ pc'[p] = "put_srs"
    BY <1>2, FilesWritten DEF SaveSrs, Create, Goto, MatchInv, CacheTypeOK
  <2> QED
    BY <1>1, <2>1, MarksApart
       DEF memory, MatchInv, CacheTypeOK, KeygenSteps, Keyless, NewKey, KeysMatch, TornKeyNeverLooksSaved
<1>3. CASE SaveVk(p)
  <2>1. disk' = [disk EXCEPT !["vk"] = Torn] /\ pc'[p] = "put_vk" /\ pc[p] = "keygen_vk"
        /\ how[p] \notin Uncached
    BY <1>3, FilesWritten DEF SaveVk, Create, Goto, MatchInv, CacheTypeOK
  <2> QED
    BY <1>1, <2>1, MarksApart
       DEF memory, MatchInv, CacheTypeOK, KeygenSteps, Keyless, NewKey, KeysMatch, TornKeyNeverLooksSaved
<1>4. CASE SaveFirst(p)
  <2>1. disk' = [disk EXCEPT !["pk"] = Torn] /\ pc'[p] = "put_pk" /\ pc[p] = "keygen_pk"
    BY <1>4, FilesWritten DEF SaveFirst, KeyFiles, Create, Goto, MatchInv, CacheTypeOK
  <2> QED
    BY <1>1, <2>1, MarksApart
       DEF memory, MatchInv, CacheTypeOK, KeygenSteps, Keyless, NewKey, KeysMatch, TornKeyNeverLooksSaved
<1>5. CASE SaveSecond(p)
  <2>1. disk' = [disk EXCEPT !["bp"] = Torn] /\ pc'[p] = "put_bp" /\ pc[p] = "half_saved"
    BY <1>5, FilesWritten DEF SaveSecond, KeyFiles, Create, Goto, MatchInv, CacheTypeOK
  <2>2. disk["pk"] # Absent
    BY <2>1, NewKeyType, MarksApart DEF MatchInv, Marks
  <2> QED
    BY <1>1, <2>1, <2>2, MarksApart
       DEF memory, MatchInv, CacheTypeOK, KeygenSteps, Keyless, NewKey, KeysMatch, TornKeyNeverLooksSaved
<1> QED
  BY <1>2, <1>3, <1>4, <1>5

(* What each write leads to, whether or not its last bytes were lost. *)
LEMMA WritesLeadTo ==
  ASSUME CacheTypeOK, NEW p \in Provers, AfterWrite(p)
  PROVE  /\ UNCHANGED <<how, srs, shape>>
         /\ pc[p] = "put_srs" => pc'[p] = "look" /\ UNCHANGED memory
         /\ pc[p] = "put_vk" => pc'[p] = "keygen_pk" /\ UNCHANGED pk
         /\ pc[p] = "put_pk" => pc'[p] = "half_saved" /\ UNCHANGED pk
         /\ pc[p] = "put_bp" => pc'[p] = "prove" /\ pk'[p] = NewKey(p)
BY DEF AfterWrite, KeyFiles, Goto, memory, CacheTypeOK

LEMMA FinishWriteMatches ==
  ASSUME OneAtATime, MatchInv, CacheTypeOK', NEW p \in Provers, FinishWrite(p)
  PROVE  MatchInv'
<1>1. /\ \A q \in Provers : q = p
      /\ pc[p] \in Writing /\ AfterWrite(p) /\ UNCHANGED <<cut, flushLost>>
  BY DEF FinishWrite, OneAtATime
<1>2. disk' = [disk EXCEPT ![FileOf[pc[p]]] = Value(p)]
  <2>1. Filled(p) = {Value(p)}
    BY <1>1, AloneFills
  <2> QED
    BY <2>1 DEF FinishWrite
<1>3. NewKey(p) \in KeyType /\ NewKey(p) \notin Marks \cup {NoKey} /\ NewKey(p).shape = shape[p]
  BY NewKeyType, MarksApart DEF MatchInv, NewKey
<1>4. srs[p] \notin Marks /\ shape[p] \notin Marks
  BY MarksApart DEF MatchInv, CacheTypeOK
<1>5. NewKey(p)' = NewKey(p)
  BY <1>1, WritesLeadTo DEF NewKey, MatchInv
<1>6. CASE pc[p] = "put_srs"
  <2>1. disk' = [disk EXCEPT !["srs"] = srs[p]] /\ pc'[p] = "look" /\ UNCHANGED memory
    BY <1>1, <1>2, <1>6, FilesWritten, WritesLeadTo DEF Value, MatchInv
  <2> QED
    BY <1>1, <1>4, <2>1
       DEF memory, MatchInv, CacheTypeOK, KeygenSteps, Keyless, Marks, KeysMatch, TornKeyNeverLooksSaved
<1>7. CASE pc[p] = "put_vk"
  <2>1. disk' = [disk EXCEPT !["vk"] = NewKey(p)] /\ pc'[p] = "keygen_pk"
        /\ UNCHANGED <<how, pk, srs>>
    BY <1>1, <1>2, <1>7, FilesWritten, WritesLeadTo DEF Value, MatchInv
  <2>2. disk["bp"] \in {Absent, Torn} /\ how[p] \notin Uncached
    BY <1>7 DEF MatchInv, KeygenSteps
  <2> QED
    BY <1>1, <1>3, <1>5, <2>1, <2>2
       DEF MatchInv, CacheTypeOK, KeygenSteps, Keyless, Marks, KeysMatch, TornKeyNeverLooksSaved
<1>8. CASE pc[p] = "put_pk"
  <2>1. disk' = [disk EXCEPT !["pk"] = NewKey(p)] /\ pc'[p] = "half_saved"
        /\ UNCHANGED <<how, pk, srs>>
    BY <1>1, <1>2, <1>8, FilesWritten, WritesLeadTo DEF Value, MatchInv
  <2>2. /\ disk["bp"] \in {Absent, Torn} /\ disk["vk"] \in {NewKey(p), Torn}
        /\ how[p] \notin Uncached
    BY <1>8 DEF MatchInv, KeygenSteps
  <2> QED
    BY <1>1, <1>3, <1>5, <2>1, <2>2
       DEF MatchInv, CacheTypeOK, KeygenSteps, Keyless, Marks, KeysMatch, TornKeyNeverLooksSaved
<1>9. CASE pc[p] = "put_bp"
  <2>1. disk' = [disk EXCEPT !["bp"] = shape[p]] /\ pc'[p] = "prove"
        /\ pk'[p] = NewKey(p) /\ UNCHANGED <<how, srs>>
    BY <1>1, <1>2, <1>9, FilesWritten, WritesLeadTo DEF Value, MatchInv
  <2>2. /\ disk["vk"] \in {NewKey(p), Torn}
        /\ disk["pk"] = NewKey(p) \/ (disk["pk"] = Torn /\ flushLost)
    BY <1>9 DEF MatchInv
  <2>3. /\ disk'["bp"] = shape[p] /\ disk'["pk"] = disk["pk"] /\ disk'["vk"] = disk["vk"]
        /\ disk'["srs"] = disk["srs"]
    BY <2>1 DEF MatchInv, CacheTypeOK
  <2>4. KeysMatch' /\ TornKeyNeverLooksSaved'
    BY <1>1, <1>3, <2>2, <2>3 DEF Marks, KeysMatch, TornKeyNeverLooksSaved
  <2>5. disk'["pk"] # Absent
    BY <1>3, <2>2, <2>3, MarksApart DEF Marks
  <2> QED
    BY <1>1, <1>3, <1>4, <2>1, <2>3, <2>4, <2>5 DEF MatchInv, KeygenSteps, Keyless, Marks
<1> QED
  BY <1>1, <1>6, <1>7, <1>8, <1>9, FilesWritten

LEMMA FaultMatches ==
  ASSUME OneAtATime, MatchInv, CacheTypeOK', NEW p \in Provers, WriteFails(p) \/ LoseFlush(p)
  PROVE  MatchInv'
<1>1. \A q \in Provers : q = p
  BY DEF OneAtATime
<1>2. CASE WriteFails(p)
  <2>1. /\ pc'[p] = (IF pc[p] = "put_srs" THEN "failed" ELSE "erred")
        /\ pc[p] \in Writing /\ UNCHANGED <<disk, cut, memory, flushLost>>
    BY <1>2 DEF WriteFails, Goto, MatchInv, CacheTypeOK
  <2>2. pc'[p] = "erred" => disk["bp"] \in {Absent, Torn}
    BY <2>1, FilesWritten DEF MatchInv, KeygenSteps
  <2> QED
    BY <1>1, <2>1, <2>2
       DEF memory, MatchInv, KeygenSteps, Keyless, KeysMatch, TornKeyNeverLooksSaved
<1>3. CASE LoseFlush(p)
  <2>1. /\ pc[p] \in {"put_vk", "put_pk"} /\ AfterWrite(p)
        /\ UNCHANGED <<disk, cut>> /\ flushLost' 
    BY <1>3 DEF LoseFlush
  <2>2. /\ disk["bp"] \in {Absent, Torn} /\ NewKey(p)' = NewKey(p) /\ UNCHANGED <<how, pk, srs>>
        /\ how[p] \notin Uncached
        /\ pc'[p] = IF pc[p] = "put_vk" THEN "keygen_pk" ELSE "half_saved"
    BY <2>1, WritesLeadTo DEF MatchInv, KeygenSteps, NewKey
  <2>3. /\ pc[p] = "put_vk" => disk["vk"] = Torn
        /\ pc[p] = "put_pk" => disk["pk"] = Torn /\ disk["vk"] \in {NewKey(p), Torn}
    BY <2>1 DEF MatchInv
  <2>4. KeysMatch' /\ TornKeyNeverLooksSaved'
    BY <2>1, <2>2 DEF KeysMatch, TornKeyNeverLooksSaved
  <2>5. CASE pc[p] = "put_vk"
    BY <1>1, <2>1, <2>2, <2>3, <2>4, <2>5 DEF MatchInv, KeygenSteps, Keyless
  <2>6. CASE pc[p] = "put_pk"
    BY <1>1, <2>1, <2>2, <2>3, <2>4, <2>6 DEF MatchInv, KeygenSteps, Keyless
  <2> QED
    BY <2>1, <2>5, <2>6
<1> QED
  BY <1>2, <1>3

LEMMA StartMatches ==
  ASSUME OneAtATime, MatchInv, CacheTypeOK', NEW p \in Provers, NEW c \in Constructors, Start(p, c)
  PROVE  MatchInv'
<1>1. /\ \A q \in Provers : q = p
      /\ pc'[p] \in {"save_srs", "look", "ready", "failed"} /\ UNCHANGED <<disk, cut, pk, flushLost>>
      /\ pc'[p] = "ready" => how'[p] \in Uncached
  BY DEF OneAtATime, Start, Goto, MatchInv, CacheTypeOK
<1>2. SrsOf(c) # Garbled
  BY MarksApart DEF SrsOf, SrsKinds, Marks
<1>3. srs'[p] # Garbled
  BY <1>2 DEF Start, MatchInv, CacheTypeOK
<1> QED
  BY <1>1, <1>3 DEF MatchInv, KeygenSteps, Keyless, KeysMatch, TornKeyNeverLooksSaved

LEMMA StartFailsMatches ==
  ASSUME OneAtATime, MatchInv, CacheTypeOK', NEW p \in Provers, NEW c \in Constructors,
         StartFails(p, c)
  PROVE  MatchInv'
<1>1. /\ \A q \in Provers : q = p
      /\ pc'[p] = "failed" /\ UNCHANGED <<disk, cut, srs, pk, flushLost>>
  BY DEF OneAtATime, StartFails, Goto, MatchInv, CacheTypeOK
<1> QED
  BY <1>1 DEF MatchInv, KeygenSteps, Keyless, KeysMatch, TornKeyNeverLooksSaved

LEMMA KeygenInMemoryMatches ==
  ASSUME OneAtATime, MatchInv, CacheTypeOK', NEW p \in Provers, KeygenInMemory(p)
  PROVE  MatchInv'
<1>1. /\ \A q \in Provers : q = p
      /\ pc'[p] = "prove" /\ pk'[p] = NewKey(p) /\ UNCHANGED <<disk, cut, how, srs, flushLost>>
  BY DEF OneAtATime, KeygenInMemory, Goto, MatchInv, CacheTypeOK
<1>2. NewKey(p) # NoKey
  BY NewKeyType, MarksApart DEF MatchInv
<1> QED
  BY <1>1, <1>2 DEF MatchInv, KeygenSteps, Keyless, KeysMatch, TornKeyNeverLooksSaved

LEMMA LookAndLoadMatches ==
  ASSUME OneAtATime, MatchInv, CacheTypeOK', NEW p \in Provers, Look(p) \/ LoadPk(p) \/ LoadBp(p)
  PROVE  MatchInv'
<1>1. /\ \A q \in Provers : q = p
      /\ UNCHANGED <<disk, cut, how, srs, flushLost>>
  BY DEF OneAtATime, Look, LoadPk, LoadBp, memory
<1>2. KeysMatch' /\ TornKeyNeverLooksSaved'
  BY <1>1 DEF MatchInv, KeysMatch, TornKeyNeverLooksSaved
<1>3. CASE Look(p)
  <2>1. pc'[p] \in {"load_pk", "ready"} /\ UNCHANGED pk
        /\ (pc'[p] = "ready" => disk["bp"] = Absent)
    BY <1>3 DEF Look, Goto, KeysCached, memory, MatchInv, CacheTypeOK
  <2> QED
    BY <1>1, <1>2, <2>1 DEF MatchInv, KeygenSteps, Keyless
<1>4. CASE LoadPk(p)
  <2>1. \/ pc'[p] = "load_bp" /\ pk'[p] = disk["pk"] /\ disk["pk"] \notin {Absent, Torn}
        \/ pc'[p] = "failed" /\ UNCHANGED pk
    BY <1>4 DEF LoadPk, Goto, Readable, OnBadKey, MatchInv, CacheTypeOK
  <2>2. pc'[p] = "load_bp" => pk'[p] # NoKey
    BY <2>1, MarksApart DEF MatchInv, CacheTypeOK, Marks
  <2> QED
    BY <1>1, <1>2, <2>1, <2>2 DEF MatchInv, KeygenSteps, Keyless
<1>5. CASE LoadBp(p)
  <2>1. pc[p] = "load_bp" /\ pc'[p] \in {"failed", "ready"} /\ UNCHANGED pk
    BY <1>5 DEF LoadBp, Goto, MatchInv, CacheTypeOK
  <2> QED
    BY <1>1, <1>2, <2>1 DEF MatchInv, KeygenSteps, Keyless
<1> QED
  BY <1>3, <1>4, <1>5

LEMMA GenerateMatches ==
  ASSUME OneAtATime, MatchInv, CacheTypeOK', NEW p \in Provers, NEW s \in Shapes, Generate(p, s)
  PROVE  MatchInv'
<1>1. /\ \A q \in Provers : q = p
      /\ UNCHANGED <<disk, cut, how, srs, pk, flushLost>> /\ pc[p] \in {"ready", "erred"}
      /\ pc'[p] = IF pk[p] = NoKey THEN "keygen_vk" ELSE "prove"
  BY DEF OneAtATime, Generate, Goto, MatchInv, CacheTypeOK
<1>2. KeysMatch' /\ TornKeyNeverLooksSaved'
  BY <1>1 DEF MatchInv, KeysMatch, TornKeyNeverLooksSaved
<1> QED
  BY <1>1, <1>2 DEF MatchInv, KeygenSteps, Keyless

LEMMA ProveOrEndMatches ==
  ASSUME OneAtATime, MatchInv, CacheTypeOK', NEW p \in Provers, Prove(p) \/ Quit(p) \/ Crash(p)
  PROVE  MatchInv'
<1>1. /\ \A q \in Provers : q = p
      /\ UNCHANGED <<disk, cut, how, srs, flushLost>>
      /\ \/ pc'[p] = "off"
         \/ pc[p] = "prove" /\ pc'[p] = "ready" /\ UNCHANGED pk
  BY DEF OneAtATime, Prove, Quit, Crash, Goto, MatchInv, CacheTypeOK
<1>2. KeysMatch' /\ TornKeyNeverLooksSaved'
  BY <1>1 DEF MatchInv, KeysMatch, TornKeyNeverLooksSaved
<1> QED
  BY <1>1, <1>2 DEF MatchInv, KeygenSteps, Keyless

(* Provers one after the other, started by any constructors for fixtures   *)
(* of any shapes, with any number of crashes, failed writes and lost       *)
(* flushes: MatchInv is inductive.                                         *)
LEMMA MatchInvariant == OneAtATime => (Spec => []MatchInv)
<1> SUFFICES ASSUME OneAtATime PROVE Spec => []MatchInv
  OBVIOUS
<1>1. Init => MatchInv
  <2> SUFFICES ASSUME Init PROVE MatchInv
    OBVIOUS
  <2>1. \A q \in Provers : pc[q] = "off" /\ ~cut[q] /\ srs[q] # Garbled
    BY MarksApart DEF Init, SrsKinds, Marks
  <2>2. \A f \in {"srs", "vk", "pk", "bp"} : disk[f] = Absent
    BY DEF Init
  <2> QED
    BY <2>1, <2>2, InitType, MarksApart
       DEF MatchInv, KeygenSteps, Keyless, KeysMatch, TornKeyNeverLooksSaved
<1>2. MatchInv /\ CacheTypeOK' /\ [Next]_vars => MatchInv'
  <2> SUFFICES ASSUME MatchInv, CacheTypeOK', [Next]_vars PROVE MatchInv'
    OBVIOUS
  <2>1. CASE UNCHANGED vars
    BY <2>1 DEF vars, memory, MatchInv, KeygenSteps, Keyless, NewKey, KeysMatch, TornKeyNeverLooksSaved
  <2>2. CASE Next
    <3>1. PICK p \in Provers :
             \/ Step(p) \/ WriteFails(p) \/ LoseFlush(p) \/ Crash(p)
             \/ \E c \in Constructors : StartFails(p, c)
      BY <2>2 DEF Next
    <3> QED
      BY <3>1, StartMatches, StartFailsMatches, SaveMatches, FinishWriteMatches,
         KeygenInMemoryMatches, LookAndLoadMatches, GenerateMatches, ProveOrEndMatches,
         FaultMatches DEF Step
  <2> QED
    BY <2>1, <2>2
<1> QED
  BY <1>1, <1>2, CacheTypeCorrect, PTL DEF Spec

(* Spec => []KeysMatch for one prover after another: a proving key and     *)
(* break points that the constructors find together in the cache were      *)
(* made by one keygen, and so was the verifying key beside them.           *)
THEOREM CachedKeysMatch == OneAtATime => (Spec => []KeysMatch)
<1>1. MatchInv => KeysMatch
  BY DEF MatchInv
<1> QED
  BY <1>1, MatchInvariant, PTL

(* Spec => []TornKeyNeverLooksSaved, likewise: the order in which save_pk  *)
(* and save_break_points are called makes the break points the mark of a   *)
(* finished save.                                                          *)
THEOREM TornKeysAreSeen == OneAtATime => (Spec => []TornKeyNeverLooksSaved)
<1>1. MatchInv => TornKeyNeverLooksSaved
  BY DEF MatchInv
<1> QED
  BY <1>1, MatchInvariant, PTL

=============================================================================
