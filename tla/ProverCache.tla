---------------------------- MODULE ProverCache ----------------------------
(***************************************************************************)
(* The prover's keys and its cache directory (halo2-proover/src/lib.rs:    *)
(* Prover::new, new_with_srs_bytes, new_with_hermez_from,                  *)
(* new_with_srs_from_url, generate_proof).  Processes start, prove and     *)
(* die, one after the other or side by side, and share one directory.      *)
(*                                                                         *)
(* Every file is created in place and then filled, so a write is two       *)
(* steps, and the file is torn in between.  Two processes that fill one    *)
(* file at a time share it: the one whose file was truncated under it goes *)
(* on at its own offset, and leaves a file of full length with a hole,     *)
(* until the other fills it.  Reading a torn file is an error (raw bytes   *)
(* end early, and torn JSON does not parse); a hole in raw bytes need not  *)
(* be one, since they are read unchecked.                                  *)
(*                                                                         *)
(* A key is named by the SRS and the circuit shape it was made for, break  *)
(* points by the shape.                                                    *)
(***************************************************************************)
EXTENDS Naturals, FiniteSets

CONSTANTS
  Provers,        \* processes
  Constructors,   \* the constructors that are used
  Shapes,         \* the circuit shapes of the fixtures that are proved
  ChainShape,     \* the shape of the key the chain verifies against
  MaxFaults,      \* crashes, failed writes and lost flushes
  Absent,         \* no such file
  Torn,           \* a file that ends early
  Garbled,        \* a file, or what was read from it, with wrong bytes
  NoKey           \* Option::None

(* Each constructor takes a cache directory, or none. *)
Cached   == {"url", "hermez", "legacy"}
Uncached == {"url_uncached", "hermez_uncached", "legacy_uncached"}

ASSUME ProversAssumption      == IsFiniteSet(Provers)
ASSUME ConstructorsAssumption == Constructors \subseteq Cached \cup Uncached
ASSUME ShapesAssumption       == ChainShape \in Shapes
ASSUME FaultsAssumption       == MaxFaults \in Nat

SrsKinds == {"hermez", "self_made"}

(* A garbled SRS is still one that a key can be made from. *)
KeyType == [srs : SrsKinds \cup {Garbled}, shape : Shapes]

ASSUME MarksAssumption ==
  /\ Absent # Torn /\ Absent # Garbled /\ Torn # Garbled /\ NoKey # Garbled
  /\ {Absent, Torn, Garbled, NoKey} \cap (SrsKinds \cup Shapes \cup KeyType) = {}


VARIABLES
  disk,       \* the cache directory: file -> contents
  cut,        \* process -> whether the file it fills was truncated under it
  pc,         \* where each process is
  how,        \* the constructor it used
  srs,        \* its SRS
  shape,      \* the shape of the fixture it proves
  pk, vk, bp, \* its keys and break points, or NoKey
  proof,      \* its last proof, or NoKey
  faults,     \* faults left
  flushLost,  \* history: a last flush failed, and nobody was told
  overlap     \* history: two processes have filled one file at a time

memory == <<how, srs, shape, pk, vk, bp, proof>>
vars   == <<disk, cut, pc, memory, faults, flushLost, overlap>>

(* The file each write is of. *)
FileOf  == [put_srs |-> "srs", put_vk |-> "vk", put_pk |-> "pk", put_bp |-> "bp"]
Writing == DOMAIN FileOf

(* gen_srs is a self-made SRS; the other two are the Hermez ceremony's.    *)
SrsOf(constructor) ==
  IF constructor \in {"legacy", "legacy_uncached"} THEN "self_made" ELSE "hermez"

NewKey(p) == [srs |-> srs[p], shape |-> shape[p]]

-----------------------------------------------------------------------------
\* Deliberate faults.

\* Mixes up the two cache paths.
Value_Swapped(p) == IF pc[p] = "put_srs" THEN srs[p]
                    ELSE IF pc[p] = "put_pk" THEN shape[p] ELSE NewKey(p)

\* Takes what there is of a file.
Readable_Torn(contents) == contents # Absent

\* Makes a new key when the cached one cannot be read.
OnBadKey_Regenerate == "ready"

\* Asks for the proving key only.
KeysCached_KeyOnly == disk["pk"] # Absent

\* Saves the break points first.
KeyFiles_BreakPointsFirst == <<"put_bp", "put_pk">>

-----------------------------------------------------------------------------
(* What a process writes. *)
Value(p) == IF pc[p] = "put_srs" THEN srs[p]
            ELSE IF pc[p] = "put_bp" THEN shape[p] ELSE NewKey(p)

Beside(p) == {q \in Provers \ {p} : pc[q] = pc[p]}

(* Whether a cached key is tried, and what is done if it cannot be read.   *)
KeysCached == disk["pk"] # Absent /\ disk["bp"] # Absent
OnBadKey   == "failed"

(* The order in which a new key is saved. *)
KeyFiles == <<"put_pk", "put_bp">>

(* Whether reading the file can succeed. *)
Readable(contents) == contents \notin {Absent, Torn}

Goto(p, label) == pc' = [pc EXCEPT ![p] = label]

Forget(p) ==
  /\ pk' = [pk EXCEPT ![p] = NoKey] /\ vk' = [vk EXCEPT ![p] = NoKey]
  /\ bp' = [bp EXCEPT ![p] = NoKey] /\ proof' = [proof EXCEPT ![p] = NoKey]

-----------------------------------------------------------------------------
Init ==
  /\ disk = [f \in {"srs", "vk", "pk", "bp"} |-> Absent]
  /\ cut = [p \in Provers |-> FALSE]
  /\ pc = [p \in Provers |-> "off"]
  /\ how = [p \in Provers |-> "none"] /\ srs = [p \in Provers |-> "hermez"]
  /\ shape = [p \in Provers |-> ChainShape]
  /\ pk = [p \in Provers |-> NoKey] /\ vk = [p \in Provers |-> NoKey]
  /\ bp = [p \in Provers |-> NoKey] /\ proof = [p \in Provers |-> NoKey]
  /\ faults = MaxFaults /\ flushLost = FALSE /\ overlap = FALSE

(* A process starts with some constructor; from a URL the SRS is read from *)
(* the cache if there is such a file, and parsed unchecked.  Without a     *)
(* directory no file is looked for.                                        *)
Start(p, constructor) ==
  /\ pc[p] = "off"
  /\ how' = [how EXCEPT ![p] = constructor]
  /\ \/ /\ constructor \in Uncached
        /\ srs' = [srs EXCEPT ![p] = SrsOf(constructor)] /\ Goto(p, "ready")
     \/ /\ constructor \notin Uncached /\ (constructor = "url" => disk["srs"] = Absent)
        /\ srs' = [srs EXCEPT ![p] = SrsOf(constructor)]
        /\ Goto(p, IF constructor = "url" THEN "save_srs" ELSE "look")
     \/ /\ constructor = "url" /\ Readable(disk["srs"])
        /\ srs' = [srs EXCEPT ![p] = disk["srs"]] /\ Goto(p, "look")
     \/ /\ constructor = "url" /\ disk["srs"] \in {Torn, Garbled}
        /\ UNCHANGED srs /\ Goto(p, "failed")
  /\ UNCHANGED <<disk, cut, shape, pk, vk, bp, proof, faults, flushLost, overlap>>

(* A download fails, or the ceremony's file is not the ceremony's. *)
StartFails(p, constructor) ==
  /\ pc[p] = "off" /\ faults > 0 /\ faults' = faults - 1
  /\ SrsOf(constructor) = "hermez" /\ (constructor = "url" => disk["srs"] = Absent)
  /\ how' = [how EXCEPT ![p] = constructor]
  /\ Goto(p, "failed")
  /\ UNCHANGED <<disk, cut, srs, shape, pk, vk, bp, proof, flushLost, overlap>>

(* A file is created, or truncated under whoever is filling it. *)
Create(p, label) ==
  /\ disk' = [disk EXCEPT ![FileOf[label]] = Torn]
  /\ cut' = [q \in Provers |-> q # p /\ (pc[q] = label \/ cut[q])]
  /\ overlap' = (overlap \/ \E q \in Provers : pc[q] = label)
  /\ Goto(p, label)
  /\ UNCHANGED <<memory, faults, flushLost>>

SaveSrs(p)     == pc[p] = "save_srs" /\ Create(p, "put_srs")
SaveVk(p)      == pc[p] = "keygen_vk" /\ how[p] \notin Uncached /\ Create(p, "put_vk")
SaveFirst(p)   == pc[p] = "keygen_pk" /\ Create(p, KeyFiles[1])
SaveSecond(p)  == pc[p] = "half_saved" /\ Create(p, KeyFiles[2])

(* Without a directory the keys are made and nothing is saved. *)
KeygenInMemory(p) ==
  /\ pc[p] = "keygen_vk" /\ how[p] \in Uncached
  /\ vk' = [vk EXCEPT ![p] = NewKey(p)] /\ pk' = [pk EXCEPT ![p] = NewKey(p)]
  /\ bp' = [bp EXCEPT ![p] = shape[p]]
  /\ Goto(p, "prove")
  /\ UNCHANGED <<disk, cut, how, srs, shape, proof, faults, flushLost, overlap>>

(* What the file holds when a process has filled it. *)
Filled(p) ==
  IF \E q \in Beside(p) : Value(q) # Value(p) THEN {Value(p), Garbled}
  ELSE IF cut[p] /\ disk[FileOf[pc[p]]] # Value(p) THEN {Value(p), Garbled}
  ELSE {Value(p)}

(* What follows a write that is thought to have succeeded: the verifying   *)
(* key is set before anything else is saved, the proving key and break     *)
(* points only after both are.                                             *)
AfterWrite(p) ==
  IF pc[p] = "put_srs" THEN Goto(p, "look") /\ UNCHANGED memory
  ELSE IF pc[p] = "put_vk"
  THEN /\ vk' = [vk EXCEPT ![p] = NewKey(p)] /\ Goto(p, "keygen_pk")
       /\ UNCHANGED <<how, srs, shape, pk, bp, proof>>
  ELSE IF pc[p] = KeyFiles[1] THEN Goto(p, "half_saved") /\ UNCHANGED memory
  ELSE /\ pk' = [pk EXCEPT ![p] = NewKey(p)] /\ bp' = [bp EXCEPT ![p] = shape[p]]
       /\ Goto(p, "prove")
       /\ UNCHANGED <<how, srs, shape, vk, proof>>

FinishWrite(p) ==
  /\ pc[p] \in Writing
  /\ \E v \in Filled(p) : disk' = [disk EXCEPT ![FileOf[pc[p]]] = v]
  /\ AfterWrite(p)
  /\ UNCHANGED <<cut, faults, flushLost, overlap>>

(* The write fails (a full disk): the constructor, or the proof, fails.    *)
WriteFails(p) ==
  /\ pc[p] \in Writing /\ faults > 0 /\ faults' = faults - 1
  /\ Goto(p, IF pc[p] = "put_srs" THEN "failed" ELSE "erred")
  /\ UNCHANGED <<disk, cut, memory, flushLost, overlap>>

(* The keys go through a BufWriter that is dropped and not flushed: that   *)
(* its last bytes are lost is not reported.                                *)
LoseFlush(p) ==
  /\ pc[p] \in {"put_vk", "put_pk"} /\ faults > 0 /\ faults' = faults - 1
  /\ flushLost' = TRUE
  /\ AfterWrite(p)
  /\ UNCHANGED <<disk, cut, overlap>>

(* Cached keys are loaded if both files exist. *)
Look(p) ==
  /\ pc[p] = "look"
  /\ Goto(p, IF KeysCached THEN "load_pk" ELSE "ready")
  /\ UNCHANGED <<disk, cut, memory, faults, flushLost, overlap>>

LoadPk(p) ==
  /\ pc[p] = "load_pk"
  /\ \/ /\ Readable(disk["pk"])
        /\ pk' = [pk EXCEPT ![p] = disk["pk"]] /\ Goto(p, "load_bp")
     \/ /\ disk["pk"] = Garbled \/ ~Readable(disk["pk"])
        /\ UNCHANGED pk /\ Goto(p, OnBadKey)
  /\ UNCHANGED <<disk, cut, how, srs, shape, vk, bp, proof, faults, flushLost, overlap>>

LoadBp(p) ==
  /\ pc[p] = "load_bp"
  /\ IF disk["bp"] \in {Absent, Torn, Garbled}
     THEN UNCHANGED bp /\ Goto(p, "failed")
     ELSE bp' = [bp EXCEPT ![p] = disk["bp"]] /\ Goto(p, "ready")
  /\ UNCHANGED <<disk, cut, how, srs, shape, pk, vk, proof, faults, flushLost, overlap>>

(* generate_proof: a key is made from the fixture at hand if there is none. *)
Generate(p, s) ==
  /\ pc[p] \in {"ready", "erred"}
  /\ shape' = [shape EXCEPT ![p] = s]
  /\ Goto(p, IF pk[p] = NoKey THEN "keygen_vk" ELSE "prove")
  /\ UNCHANGED <<disk, cut, how, srs, pk, vk, bp, proof, faults, flushLost, overlap>>

Prove(p) ==
  /\ pc[p] = "prove"
  /\ proof' = [proof EXCEPT ![p] =
       [srs |-> srs[p], key |-> pk[p], points |-> bp[p], shape |-> shape[p]]]
  /\ Goto(p, "ready")
  /\ UNCHANGED <<disk, cut, how, srs, shape, pk, vk, bp, faults, flushLost, overlap>>

(* A process ends after an error, or with a proof. *)
Quit(p) ==
  /\ pc[p] \in {"failed", "erred"} \/ (pc[p] = "ready" /\ proof[p] # NoKey)
  /\ Goto(p, "off") /\ Forget(p)
  /\ UNCHANGED <<disk, cut, how, srs, shape, faults, flushLost, overlap>>

Crash(p) ==
  /\ pc[p] # "off" /\ faults > 0 /\ faults' = faults - 1
  /\ Goto(p, "off") /\ Forget(p)
  /\ UNCHANGED <<disk, cut, how, srs, shape, flushLost, overlap>>

Step(p) ==
  \/ \E c \in Constructors : Start(p, c)
  \/ SaveSrs(p) \/ SaveVk(p) \/ SaveFirst(p) \/ SaveSecond(p) \/ FinishWrite(p)
  \/ KeygenInMemory(p)
  \/ Look(p) \/ LoadPk(p) \/ LoadBp(p)
  \/ \E s \in Shapes : Generate(p, s)
  \/ Prove(p) \/ Quit(p)

Next ==
  \E p \in Provers :
    \/ Step(p) \/ WriteFails(p) \/ LoseFlush(p) \/ Crash(p)
    \/ \E c \in Constructors : StartFails(p, c)

Spec == Init /\ [][Next]_vars

(* Processes run on, and the prover is run again after a failure. *)
FairSpec == Spec /\ \A p \in Provers : WF_vars(Step(p))

-----------------------------------------------------------------------------
Labels == Writing \cup {"off", "save_srs", "look", "load_pk", "load_bp", "ready", "keygen_vk",
                       "keygen_pk", "half_saved", "prove", "failed", "erred"}

(* Type correctness: a file holds only what its one writer puts there, and *)
(* what was read from it can be told from what was not.                    *)
CacheTypeOK ==
  /\ disk = [f \in {"srs", "vk", "pk", "bp"} |-> disk[f]]
  /\ disk["srs"] \in SrsKinds \cup {Absent, Torn, Garbled}
  /\ disk["vk"] \in KeyType \cup {Absent, Torn, Garbled}
  /\ disk["pk"] \in KeyType \cup {Absent, Torn, Garbled}
  /\ disk["bp"] \in Shapes \cup {Absent, Torn, Garbled}
  /\ cut \in [Provers -> BOOLEAN] /\ pc \in [Provers -> Labels]
  /\ how \in [Provers -> Constructors \cup {"none"}]
  /\ srs \in [Provers -> SrsKinds \cup {Garbled}] /\ shape \in [Provers -> Shapes]
  /\ pk \in [Provers -> KeyType \cup {NoKey, Garbled}]
  /\ vk \in [Provers -> KeyType \cup {NoKey}] /\ bp \in [Provers -> Shapes \cup {NoKey}]
  /\ proof \in [Provers -> {NoKey} \cup
        [srs : SrsKinds \cup {Garbled}, key : KeyType \cup {NoKey, Garbled},
         points : Shapes \cup {NoKey}, shape : Shapes]]
  /\ faults \in 0 .. MaxFaults /\ flushLost \in BOOLEAN /\ overlap \in BOOLEAN

Verifies(x) ==
  /\ x.srs = "hermez" /\ x.key = [srs |-> "hermez", shape |-> ChainShape]
  /\ x.points = ChainShape /\ x.shape = ChainShape

Idle(file) == \A p \in Provers : ~(pc[p] \in Writing /\ FileOf[pc[p]] = file)

(* Processes that share a directory, one SRS and one shape: every proof    *)
(* verifies on chain, whatever was read while being written, left torn by  *)
(* a crash or lost with a flush, as long as no two processes filled the    *)
(* same file at a time.                                                    *)
ProofsVerify == \A p \in Provers : proof[p] # NoKey /\ ~overlap => Verifies(proof[p])

(* Of processes that run one after the other, with any constructors and    *)
(* any shapes: cached files that will be used together were made together. *)
KeysMatch ==
  disk["pk"] \notin {Absent, Torn} /\ disk["bp"] \notin {Absent, Torn} =>
    disk["pk"].shape = disk["bp"] /\ disk["vk"] \in {disk["pk"], Torn}

(* Again one after the other: a torn proving key never lies beside whole   *)
(* break points, so that it would be taken for a saved one; only a lost    *)
(* flush goes unnoticed.                                                   *)
TornKeyNeverLooksSaved ==
  disk["pk"] = Torn /\ ~flushLost => disk["bp"] \in {Absent, Torn}

(* A start that fails until somebody deletes files: from the URL when the  *)
(* cached SRS cannot be read, or with the directory, wherever the SRS is   *)
(* from, when the cached key or break points cannot.  Without a directory  *)
(* no start is stuck.                                                      *)
Stuck(constructor) ==
  \/ constructor = "url" /\ disk["srs"] \in {Torn, Garbled}
  \/ constructor \in Cached /\ KeysCached /\ {disk["pk"], disk["bp"]} \cap {Torn, Garbled} # {}

(* Running the prover again in the end gives a proof, unless from some     *)
(* time on it is run only with constructors for which a crash or a failed  *)
(* write has left the directory stuck.                                     *)
RetriesSucceed ==
  \A p \in Provers : <>(proof[p] # NoKey) \/ <>[]Stuck(how[p])

(* new_with_hermez: "the VK produced here matches DARK_DEX_W128_VK_BYTES   *)
(* ... and proofs verify on-chain" (lib.rs:611-614).                       *)
HermezProofsVerify ==
  \A p \in Provers :
    proof[p] # NoKey /\ how[p] = "hermez" /\ shape[p] = ChainShape => Verifies(proof[p])

=============================================================================
