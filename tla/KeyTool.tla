------------------------------ MODULE KeyTool ------------------------------
(***************************************************************************)
(* The key tools of dex-halo2-circuit/src/bin.                             *)
(* gen_hermez_kzg_and_dark_dex_keys: the ceremony's ptau file is           *)
(* downloaded into a cache in the home directory, read and compared with   *)
(* its SHA-256 anchor, keys are made from it and proved with, and a set of *)
(* files is written.  gen_legacy_gen_srs_dark_dex_keys: keys are made from *)
(* a self-made SRS, and written under the names that the first tool gives  *)
(* its files for SDK tests, into its own directory or the first one's.     *)
(* Runs follow each other or overlap, and share the cache and the output.  *)
(*                                                                         *)
(* The ptau file is a sequence of chunks; downloads and reads go chunk by  *)
(* chunk.  A tool whose file another one truncates writes on at its own    *)
(* offset, which leaves a hole.  An output file is named by the SRS and    *)
(* the degree k it was made from.                                          *)
(***************************************************************************)
EXTENDS Naturals, Sequences

CONSTANTS
  Tools,      \* processes
  Size,       \* HERMEZ_K20_PTAU_SIZE, in chunks
  OddBodies,  \* other things a mirror may serve
  K,          \* the degree base_circuit_params is for
  Degrees,    \* values of --k at which the circuit fits
  MaxFaults,  \* crashes, cut connections, odd downloads, failed writes
  Absent, Torn

ASSUME ToolAssumption ==
  /\ Size \in Nat \ {0} /\ K \in Nat /\ Degrees \subseteq K .. 20 /\ MaxFaults \in Nat
  /\ OddBodies \subseteq Seq({"good", "wrong"})

Ceremony == [i \in 1 .. Size |-> "good"]

VARIABLES
  ptau,     \* the cached ptau file
  out,      \* the output directory: file -> contents
  pc,       \* where each tool is
  k,        \* its argument --k
  todo,     \* the files it writes, in their order
  body,     \* what it is being served
  at,       \* how far it is in what it downloads or writes
  got,      \* what it has read
  faults,   \* faults left
  shared,   \* history: a ptau file was truncated while being filled
  overlap,  \* history: two tools have written output at a time
  legacy    \* history: the legacy tool has been run

tool == <<k, todo, body, at, got>>
vars == <<ptau, out, pc, tool, faults, shared, overlap, legacy>>

(* What is written, in its order: the verifier's constants (kzg_bytes.rs,  *)
(* vk_bytes.rs), the two keys, the files that shape a prover               *)
(* (break_points.json, config_params.json), and the SRS, which has k in    *)
(* its name; then the subfolder for SDK tests, its key first.              *)
KeyFiles(degree) ==
  << <<"consts", 0>>, <<"vk", 0>>, <<"pk", 0>>, <<"shape", 0>>, <<"srs", degree>> >>
SdkFiles == << <<"sdk vk", 0>>, <<"sdk proofs", 0>> >>

(* The legacy tool's key and proofs, by its --out: a directory of its own, *)
(* the other tool's, or that one's subfolder for SDK tests.                *)
LegacyOuts ==
  { << <<"legacy vk", 0>>, <<"legacy proofs", 0>> >>, << <<"vk", 0>>, <<"proofs", 0>> >>,
    SdkFiles }

Range(s)    == {s[i] : i \in DOMAIN s}
LegacyFiles == UNION {Range(files) : files \in LegacyOuts}
AllFiles    == LegacyFiles \cup UNION {Range(KeyFiles(d)) : d \in Degrees}

(* gen_srs(K), made in the process or read from a file of its own name. *)
SelfMade == <<"self-made">>

(* The config parameters are base_circuit_params, and the break points     *)
(* theirs, whatever --k is.                                                *)
Value(t, f) == [srs |-> got[t], k |-> IF f[1] = "shape" THEN K ELSE k[t]]

Goto(t, label) == pc' = [pc EXCEPT ![t] = label]

-----------------------------------------------------------------------------
\* Deliberate faults.

\* Takes any file for a complete one.
Complete_Exists == ptau # Absent

\* Reserves the space first.
Created_Preallocated == [i \in 1 .. Size |-> "hole"]

\* Does not compare with the anchor.
Anchored_Any(material) == TRUE

\* Keeps what is there already.
Contents_Keep(t, f) == IF out[f] \in {Absent, Torn} THEN Value(t, f) ELSE out[f]

-----------------------------------------------------------------------------
Init ==
  /\ ptau = Absent /\ out = [f \in AllFiles |-> Absent]
  /\ pc = [t \in Tools |-> "off"]
  /\ k = [t \in Tools |-> K] /\ todo = [t \in Tools |-> <<>>]
  /\ body = [t \in Tools |-> <<>>] /\ at = [t \in Tools |-> 0] /\ got = [t \in Tools |-> <<>>]
  /\ faults = MaxFaults /\ shared = FALSE /\ overlap = FALSE /\ legacy = FALSE

Start(t) ==
  /\ pc[t] = "off" /\ Goto(t, "stat")
  /\ UNCHANGED <<ptau, out, tool, faults, shared, overlap, legacy>>

(* ensure_ptau_present: a cached file of the right size is kept. *)
Complete == ptau # Absent /\ Len(ptau) = Size

Stat(t) ==
  /\ pc[t] = "stat" /\ Goto(t, IF Complete THEN "read" ELSE "get")
  /\ UNCHANGED <<ptau, out, tool, faults, shared, overlap, legacy>>

Get(t) ==
  /\ pc[t] = "get" /\ Goto(t, "create")
  /\ \/ body' = [body EXCEPT ![t] = Ceremony] /\ UNCHANGED faults
     \/ /\ faults > 0 /\ faults' = faults - 1
        /\ \E b \in OddBodies : body' = [body EXCEPT ![t] = b]
  /\ UNCHANGED <<ptau, out, k, todo, at, got, shared, overlap, legacy>>

Created == <<>>

Create(t) ==
  /\ pc[t] = "create" /\ Goto(t, "copy")
  /\ ptau' = Created
  /\ shared' = (shared \/ \E s \in Tools \ {t} : pc[s] = "copy")
  /\ UNCHANGED <<out, tool, faults, overlap, legacy>>

(* A chunk written at a position of the file. *)
Placed(file, pos, chunk) ==
  [i \in 1 .. (IF pos > Len(file) THEN pos ELSE Len(file)) |->
     IF i = pos THEN chunk ELSE IF i <= Len(file) THEN file[i] ELSE "hole"]

Copy(t) ==
  /\ pc[t] = "copy" /\ at[t] < Len(body[t])
  /\ ptau' = Placed(ptau, at[t] + 1, body[t][at[t] + 1])
  /\ at' = [at EXCEPT ![t] = @ + 1]
  /\ UNCHANGED <<out, pc, k, todo, body, got, faults, shared, overlap, legacy>>

(* The size is asserted; the file is then opened at its beginning. *)
Measure(t) ==
  /\ pc[t] = "copy" /\ at[t] = Len(body[t])
  /\ Goto(t, IF Len(ptau) = Size THEN "read" ELSE "failed")
  /\ at' = [at EXCEPT ![t] = 0] /\ body' = [body EXCEPT ![t] = <<>>]
  /\ UNCHANGED <<ptau, out, k, todo, got, faults, shared, overlap, legacy>>

(* read_hermez_ptau_and_verify reads to the end, ... *)
Read(t) ==
  /\ pc[t] = "read" /\ Len(got[t]) < Size
  /\ IF Len(got[t]) < Len(ptau)
     THEN got' = [got EXCEPT ![t] = Append(@, ptau[Len(@) + 1])] /\ UNCHANGED pc
     ELSE Goto(t, "failed") /\ UNCHANGED got
  /\ UNCHANGED <<ptau, out, k, todo, body, at, faults, shared, overlap, legacy>>

(* ... and panics unless what it read is the ceremony's. *)
Anchored(material) == material = Ceremony

OthersWrite(t) == \E s \in Tools \ {t} : pc[s] \in {"emit", "done"}

(* The checks A to C and the round trip hold of the ceremony's points, and *)
(* say nothing of another SRS.  The arguments are chosen here, where they  *)
(* begin to matter.                                                        *)
Verify(t, degree, instances) ==
  /\ pc[t] = "read" /\ Len(got[t]) = Size
  /\ IF Anchored(got[t])
     THEN /\ Goto(t, "emit")
          /\ k' = [k EXCEPT ![t] = degree]
          /\ todo' = [todo EXCEPT ![t] = KeyFiles(degree) \o (IF instances THEN SdkFiles ELSE <<>>)]
          /\ overlap' = (overlap \/ OthersWrite(t))
     ELSE Goto(t, "failed") /\ UNCHANGED <<k, todo, overlap>>
  /\ UNCHANGED <<ptau, out, body, at, got, faults, shared, legacy>>

(* The legacy tool has its SRS at once, and asks no anchor. *)
Legacy(t, files) ==
  /\ pc[t] = "off" /\ Goto(t, "emit")
  /\ got' = [got EXCEPT ![t] = SelfMade] /\ todo' = [todo EXCEPT ![t] = files]
  /\ legacy' = TRUE /\ overlap' = (overlap \/ OthersWrite(t))
  /\ UNCHANGED <<ptau, out, k, body, at, faults, shared>>

Contents(t, f) == Value(t, f)

Emit(t) ==
  /\ pc[t] = "emit" /\ at[t] < Len(todo[t])
  /\ LET f == todo[t][at[t] + 1] IN out' = [out EXCEPT ![f] = Contents(t, f)]
  /\ at' = [at EXCEPT ![t] = @ + 1]
  /\ Goto(t, IF at'[t] = Len(todo[t]) THEN "done" ELSE "emit")
  /\ UNCHANGED <<ptau, k, todo, body, got, faults, shared, overlap, legacy>>

(* Killed, or stopped by an error, in the middle of a file. *)
EmitFails(t) ==
  /\ pc[t] = "emit" /\ faults > 0 /\ faults' = faults - 1
  /\ out' = [out EXCEPT ![todo[t][at[t] + 1]] = Torn]
  /\ Goto(t, "failed")
  /\ UNCHANGED <<ptau, tool, shared, overlap, legacy>>

Ended(t) ==
  /\ Goto(t, "off")
  /\ k' = [k EXCEPT ![t] = K] /\ todo' = [todo EXCEPT ![t] = <<>>]
  /\ body' = [body EXCEPT ![t] = <<>>] /\ at' = [at EXCEPT ![t] = 0]
  /\ got' = [got EXCEPT ![t] = <<>>]
  /\ UNCHANGED <<ptau, out, shared, overlap, legacy>>

Quit(t) == pc[t] \in {"failed", "done"} /\ Ended(t) /\ UNCHANGED faults

(* Killed, or the connection is cut. *)
Crash(t) ==
  /\ pc[t] \notin {"off", "failed", "done"} /\ faults > 0 /\ faults' = faults - 1
  /\ Ended(t)

Step(t) ==
  \/ Start(t) \/ Stat(t) \/ Get(t) \/ Create(t) \/ Copy(t) \/ Measure(t) \/ Read(t)
  \/ \E d \in Degrees, g \in BOOLEAN : Verify(t, d, g)
  \/ Emit(t) \/ Quit(t)

Next ==
  \E t \in Tools :
    \/ Step(t) \/ EmitFails(t) \/ Crash(t)
    \/ \E files \in LegacyOuts : Legacy(t, files)

Spec == Init /\ [][Next]_vars

(* Tools run on, and the ceremony's is run again. *)
FairSpec == Spec /\ \A t \in Tools : WF_vars(Step(t))

-----------------------------------------------------------------------------
(* ensure_ptau_present trusts the size.  Unless two tools filled the file  *)
(* at a time, it may: a file of the right size is never an interrupted     *)
(* download of the ceremony's, it is that or the beginning of what some    *)
(* mirror served instead.                                                  *)
Bodies == {Ceremony} \cup OddBodies

RightSizeIsComplete ==
  ~shared /\ Complete => \E b \in Bodies : Size <= Len(b) /\ ptau = SubSeq(b, 1, Size)

(* Whatever is in the cache and whoever else writes it: keys, SRS and      *)
(* proofs are only ever written from the ceremony's file, except the key   *)
(* and proofs that the legacy tool writes, once it has been run: never the *)
(* constants, the proving key or the SRS.                                  *)
KeysOnlyFromCeremony ==
  \A f \in AllFiles : out[f] \notin {Absent, Torn} =>
    out[f].srs = Ceremony \/ (legacy /\ f \in LegacyFiles)

(* A run that succeeds, with nobody else writing, leaves a set of files    *)
(* that belong together, over whatever earlier runs of either tool, at     *)
(* another k, or that died halfway, had left.                              *)
FilesAgree ==
  \A t \in Tools : pc[t] = "done" /\ ~overlap =>
    \A f \in Range(todo[t]) : out[f] = Value(t, f)

(* A cache that only deleting the file helps: its size is right. *)
Stuck ==
  /\ ptau \notin {Absent, Ceremony} /\ Len(ptau) = Size
  /\ \A t \in Tools : pc[t] \notin {"create", "copy"}

Alone == \A s, t \in Tools : pc[s] # "off" /\ pc[t] # "off" => s = t

Writes(t) == pc[t] = "done" /\ got[t] = Ceremony
LegacyRuns == \E t \in Tools : got[t] = SelfMade

(* Runs that follow each other in the end write keys, whatever was         *)
(* interrupted, unless a mirror served another file of the same size, or   *)
(* it is the legacy tool that is run again and again.                      *)
RerunsSucceed ==
  []Alone /\ <>[]~LegacyRuns => <>(\E t \in Tools : Writes(t)) \/ <>Stuck

=============================================================================
