--------------------------- MODULE KeyTool_proofs ---------------------------
(***************************************************************************)
(* Proofs about KeyTool, for any number of tools and faults, any size of   *)
(* the ptau file and anything a mirror may serve.                          *)
(***************************************************************************)
EXTENDS KeyTool, TLAPS

(* The variables are functions on the tools and on the files. *)
Shaped ==
  /\ pc = [t \in Tools |-> pc[t]]
  /\ got = [t \in Tools |-> got[t]]
  /\ todo = [t \in Tools |-> todo[t]]
  /\ at \in [Tools -> Nat]
  /\ out = [f \in AllFiles |-> out[f]]

(* A tool that writes has read the ceremony's file, and what it has read   *)
(* does not change any more when the cache does; or it is the legacy tool, *)
(* and writes that one's files.                                            *)
Anchor(material, files) == material = Ceremony \/ (legacy /\ files \in LegacyOuts)

WritersAnchored == \A t \in Tools : pc[t] \in {"emit", "done"} => Anchor(got[t], todo[t])

KeysInv == Shaped /\ WritersAnchored /\ KeysOnlyFromCeremony

-----------------------------------------------------------------------------
LEMMA KeysInvInit == Init => KeysInv
BY DEF Init, KeysInv, Shaped, WritersAnchored, KeysOnlyFromCeremony

(* Constants of a step, which need not be expanded to be told so. *)
LEMMA Fixed ==
  /\ Ceremony' = Ceremony /\ LegacyOuts' = LegacyOuts /\ LegacyFiles' = LegacyFiles
  /\ AllFiles' = AllFiles
BY DEF Ceremony, LegacyOuts, LegacyFiles, AllFiles, KeyFiles, SdkFiles, Range

(* Once the legacy tool has been run it has been run: what was allowed     *)
(* then stays allowed, in a step that leaves the output alone.             *)
LEMMA OutputUntouched ==
  ASSUME KeysInv, UNCHANGED out, legacy => legacy'
  PROVE  KeysOnlyFromCeremony'
BY Fixed DEF KeysInv, KeysOnlyFromCeremony

(* A step that moves one tool to where it does not write, and leaves what  *)
(* it and the others have read, are to write, and the output alone.        *)
LEMMA IdleMove ==
  ASSUME KeysInv, NEW t \in Tools, NEW label, at' \in [Tools -> Nat],
         Goto(t, label), label \notin {"emit", "done"}, UNCHANGED <<got, todo, out, legacy>>
  PROVE  KeysInv'
<1>1. Shaped'
  BY DEF KeysInv, Shaped, Goto
<1>2. WritersAnchored'
  BY Fixed DEF KeysInv, Shaped, WritersAnchored, Goto, Anchor
<1> QED BY <1>1, <1>2, OutputUntouched DEF KeysInv

(* An end of a run, whatever ended it. *)
LEMMA EndedKeeps ==
  ASSUME KeysInv, NEW t \in Tools, Ended(t)
  PROVE  KeysInv'
<1>1. Shaped'
  BY DEF KeysInv, Shaped, Ended, Goto
<1>2. WritersAnchored'
  BY Fixed DEF KeysInv, Shaped, WritersAnchored, Ended, Goto, Anchor
<1> QED BY <1>1, <1>2, OutputUntouched DEF KeysInv, Ended

LEMMA ReadKeeps ==
  ASSUME KeysInv, NEW t \in Tools, Read(t)
  PROVE  KeysInv'
<1>1. CASE Len(got[t]) < Len(ptau)
  <2>1. /\ got' = [got EXCEPT ![t] = Append(@, ptau[Len(@) + 1])]
        /\ UNCHANGED <<pc, out, todo, at, legacy>> /\ pc[t] = "read"
    BY <1>1 DEF Read
  <2>2. Shaped'
    BY <2>1 DEF KeysInv, Shaped
  <2>3. WritersAnchored'
    BY <2>1, Fixed DEF KeysInv, Shaped, WritersAnchored, Anchor
  <2> QED BY <2>1, <2>2, <2>3, OutputUntouched DEF KeysInv
<1>2. CASE ~(Len(got[t]) < Len(ptau))
  BY <1>2, IdleMove DEF Read, KeysInv, Shaped
<1> QED BY <1>1, <1>2

(* The anchor is what makes a writer, ... *)
LEMMA VerifyKeeps ==
  ASSUME KeysInv, NEW t \in Tools, NEW degree, NEW instances, Verify(t, degree, instances)
  PROVE  KeysInv'
<1>1. CASE Anchored(got[t])
  <2>1. PICK files :
          /\ Goto(t, "emit") /\ todo' = [todo EXCEPT ![t] = files]
          /\ UNCHANGED <<got, at, out, legacy>> /\ got[t] = Ceremony
    BY <1>1 DEF Verify, Anchored
  <2>2. Shaped'
    BY <2>1 DEF KeysInv, Shaped, Goto
  <2>3. WritersAnchored'
    BY <2>1, Fixed DEF KeysInv, Shaped, WritersAnchored, Goto, Anchor
  <2> QED BY <2>1, <2>2, <2>3, OutputUntouched DEF KeysInv
<1>2. CASE ~Anchored(got[t])
  BY <1>2, IdleMove DEF Verify, KeysInv, Shaped
<1> QED BY <1>1, <1>2

(* ... or being the legacy tool. *)
LEMMA LegacyKeeps ==
  ASSUME KeysInv, NEW t \in Tools, NEW files \in LegacyOuts, Legacy(t, files)
  PROVE  KeysInv'
<1>1. /\ Goto(t, "emit") /\ todo' = [todo EXCEPT ![t] = files] /\ legacy'
      /\ got' = [got EXCEPT ![t] = SelfMade] /\ UNCHANGED <<at, out>>
  BY DEF Legacy
<1>2. Shaped'
  BY <1>1 DEF KeysInv, Shaped, Goto
<1>3. WritersAnchored'
  BY <1>1, Fixed DEF KeysInv, Shaped, WritersAnchored, Goto, Anchor
<1> QED BY <1>1, <1>2, <1>3, OutputUntouched DEF KeysInv

LEMMA PairInRange ==
  ASSUME NEW a, NEW b, NEW n \in Nat, n < Len(<<a, b>>)
  PROVE  <<a, b>>[n + 1] \in Range(<<a, b>>)
<1>1. Len(<<a, b>>) = 2 /\ DOMAIN <<a, b>> = 1 .. 2
  OBVIOUS
<1> QED BY <1>1 DEF Range

LEMMA LegacyFileNext ==
  ASSUME NEW files \in LegacyOuts, NEW n \in Nat, n < Len(files)
  PROVE  files[n + 1] \in LegacyFiles
<1>1. \E a, b : files = <<a, b>>
  BY Zenon DEF LegacyOuts, SdkFiles
<1>2. files[n + 1] \in Range(files)
  BY <1>1, PairInRange
<1> QED BY <1>2 DEF LegacyFiles

LEMMA EmitKeeps ==
  ASSUME KeysInv, NEW t \in Tools, Emit(t)
  PROVE  KeysInv'
<1> DEFINE file  == todo[t][at[t] + 1]
           label == IF at'[t] = Len(todo[t]) THEN "done" ELSE "emit"
<1>1. /\ out' = [out EXCEPT ![file] = Contents(t, file)]
      /\ at' = [at EXCEPT ![t] = @ + 1]
      /\ Goto(t, label) /\ UNCHANGED <<got, todo, legacy>> /\ pc[t] = "emit"
  BY DEF Emit
<1>2. todo[t] \in LegacyOuts => file \in LegacyFiles
  BY LegacyFileNext DEF Emit, KeysInv, Shaped
<1> HIDE DEF file, label
<1>3. Contents(t, file).srs = Ceremony \/ (legacy /\ file \in LegacyFiles)
  BY <1>1, <1>2 DEF Contents, Value, KeysInv, WritersAnchored, Anchor
<1>4. Shaped'
  BY <1>1 DEF KeysInv, Shaped, Goto
<1>5. WritersAnchored'
  BY <1>1, Fixed DEF KeysInv, Shaped, WritersAnchored, Goto, Anchor
<1>6. KeysOnlyFromCeremony'
  BY <1>1, <1>3, Fixed DEF KeysInv, Shaped, KeysOnlyFromCeremony
<1> QED BY <1>4, <1>5, <1>6 DEF KeysInv

LEMMA EmitFailsKeeps ==
  ASSUME KeysInv, NEW t \in Tools, EmitFails(t)
  PROVE  KeysInv'
<1>1. PICK file :
        /\ out' = [out EXCEPT ![file] = Torn]
        /\ Goto(t, "failed") /\ UNCHANGED <<got, todo, at, legacy>>
  BY DEF EmitFails, tool
<1>2. Shaped'
  BY <1>1 DEF KeysInv, Shaped, Goto
<1>3. WritersAnchored'
  BY <1>1, Fixed DEF KeysInv, Shaped, WritersAnchored, Goto, Anchor
<1>4. KeysOnlyFromCeremony'
  BY <1>1, Fixed DEF KeysInv, Shaped, KeysOnlyFromCeremony
<1> QED BY <1>2, <1>3, <1>4 DEF KeysInv

LEMMA UnchangedKeeps ==
  ASSUME KeysInv, UNCHANGED <<pc, got, todo, out, legacy>>, at' \in [Tools -> Nat]
  PROVE  KeysInv'
BY Fixed DEF KeysInv, Shaped, WritersAnchored, KeysOnlyFromCeremony, Anchor

LEMMA KeysInvStep == KeysInv /\ [Next]_vars => KeysInv'
<1> SUFFICES ASSUME KeysInv, [Next]_vars PROVE KeysInv'
  OBVIOUS
<1>0. at \in [Tools -> Nat]
  BY DEF KeysInv, Shaped
<1>1. CASE UNCHANGED vars
  BY <1>0, <1>1, UnchangedKeeps DEF vars, tool
<1>2. ASSUME NEW t \in Tools, Step(t) PROVE KeysInv'
  <2>1. CASE Start(t)  BY <1>0, <2>1, IdleMove DEF Start, tool
  <2>2. CASE Stat(t)   BY <1>0, <2>2, IdleMove DEF Stat, tool
  <2>3. CASE Get(t)    BY <1>0, <2>3, IdleMove DEF Get
  <2>4. CASE Create(t) BY <1>0, <2>4, IdleMove DEF Create, tool
  <2>5. CASE Copy(t)   BY <1>0, <2>5, UnchangedKeeps DEF Copy
  <2>6. CASE Measure(t) BY <1>0, <2>6, IdleMove DEF Measure
  <2>7. CASE Read(t)   BY <2>7, ReadKeeps
  <2>8. CASE \E d \in Degrees, g \in BOOLEAN : Verify(t, d, g)
    BY <2>8, VerifyKeeps
  <2>9. CASE Emit(t)   BY <2>9, EmitKeeps
  <2>10. CASE Quit(t)  BY <2>10, EndedKeeps DEF Quit
  <2> QED BY <1>2, <2>1, <2>2, <2>3, <2>4, <2>5, <2>6, <2>7, <2>8, <2>9, <2>10 DEF Step
<1>3. ASSUME NEW t \in Tools, Crash(t) PROVE KeysInv'
  BY <1>3, EndedKeeps DEF Crash
<1>4. ASSUME NEW t \in Tools, NEW files \in LegacyOuts, Legacy(t, files) PROVE KeysInv'
  BY <1>4, LegacyKeeps
<1> QED BY <1>1, <1>2, <1>3, <1>4, EmitFailsKeeps DEF Next

(* Keys, SRS and proofs are only ever written from the ceremony's file,    *)
(* whatever a mirror serves and however many tools share the cache and the *)
(* output directory; but for the key and the proofs of the legacy tool,    *)
(* once that has been run.                                                 *)
THEOREM KeysAlwaysFromCeremony == Spec => []KeysOnlyFromCeremony
<1>1. KeysInv => KeysOnlyFromCeremony
  BY DEF KeysInv
<1> QED BY KeysInvInit, KeysInvStep, <1>1, PTL DEF Spec

-----------------------------------------------------------------------------
\* The cached file, while no two tools fill it at a time.

(* Only a tool that is filling or writing has a position in a file. *)
Positions ==
  /\ pc = [t \in Tools |-> pc[t]] /\ body = [t \in Tools |-> body[t]]
  /\ at = [t \in Tools |-> at[t]]
  /\ \A t \in Tools :
       /\ pc[t] \in {"off", "stat", "get", "create", "read"} => at[t] = 0
       /\ pc[t] \in {"create", "copy"} => body[t] \in Bodies
       /\ pc[t] = "copy" => at[t] \in 0 .. Len(body[t])

(* The tool that fills the file has put there what it was served so far.   *)
FilledByOne ==
  ~shared => \A t \in Tools : pc[t] = "copy" =>
    /\ ptau = SubSeq(body[t], 1, at[t])
    /\ \A s \in Tools : pc[s] = "copy" => s = t

(* A file nobody fills is the beginning of something that was served.      *)
Served ==
  ~shared /\ ptau # Absent =>
    \E b \in Bodies : Len(ptau) <= Len(b) /\ ptau = SubSeq(b, 1, Len(ptau))

FileInv == Positions /\ FilledByOne /\ Served

LEMMA BodiesAreSequences == \A b \in Bodies : b \in Seq({"good", "wrong"})
BY ToolAssumption DEF Bodies, Ceremony

(* A chunk at the end of what is there makes it one chunk longer. *)
LEMMA PlacedNext ==
  ASSUME NEW b \in Seq({"good", "wrong"}), NEW n \in 0 .. Len(b) - 1
  PROVE  Placed(SubSeq(b, 1, n), n + 1, b[n + 1]) = SubSeq(b, 1, n + 1)
<1>1. Len(SubSeq(b, 1, n)) = n
  OBVIOUS
<1>2. Placed(SubSeq(b, 1, n), n + 1, b[n + 1]) = [i \in 1 .. n + 1 |-> b[i]]
  BY <1>1 DEF Placed
<1>3. SubSeq(b, 1, n + 1) = [i \in 1 .. n + 1 |-> b[i]]
  OBVIOUS
<1> QED BY <1>2, <1>3

LEMMA FileInvInit == Init => FileInv
BY DEF Init, FileInv, Positions, FilledByOne, Served

(* A step that neither touches the file nor lets a tool fill it.           *)
LEMMA FileUntouched ==
  ASSUME FileInv, Positions', UNCHANGED <<ptau, shared>>,
         \A t \in Tools : pc'[t] = "copy" =>
           pc[t] = "copy" /\ body'[t] = body[t] /\ at'[t] = at[t]
  PROVE  FileInv'
<1>1. FilledByOne'
  BY DEF FileInv, FilledByOne
<1>2. Served'
  BY DEF FileInv, Served, Bodies, Ceremony
<1> QED BY <1>1, <1>2 DEF FileInv

LEMMA CreateKeepsFile ==
  ASSUME FileInv, NEW t \in Tools, Create(t)
  PROVE  FileInv'
<1>1. /\ pc[t] = "create" /\ pc' = [pc EXCEPT ![t] = "copy"] /\ ptau' = <<>>
      /\ shared' = (shared \/ \E s \in Tools \ {t} : pc[s] = "copy")
      /\ UNCHANGED <<body, at>>
  BY DEF Create, Goto, Created, tool
<1>2. body[t] \in Bodies /\ body[t] \in Seq({"good", "wrong"}) /\ at[t] = 0
  BY <1>1, BodiesAreSequences DEF FileInv, Positions
<1>3. Positions'
  BY <1>1, <1>2 DEF FileInv, Positions, Bodies, Ceremony
<1>4. SubSeq(body[t], 1, 0) = <<>>
  BY <1>2
<1>5. FilledByOne'
  BY <1>1, <1>2, <1>4 DEF FileInv, Positions, FilledByOne
<1>6. Served'
  BY <1>1, <1>2, <1>4 DEF Served, Bodies, Ceremony
<1> QED BY <1>3, <1>5, <1>6 DEF FileInv

LEMMA CopyKeepsFile ==
  ASSUME FileInv, NEW t \in Tools, Copy(t)
  PROVE  FileInv'
<1>1. /\ pc[t] = "copy" /\ at[t] < Len(body[t])
      /\ ptau' = Placed(ptau, at[t] + 1, body[t][at[t] + 1])
      /\ at' = [at EXCEPT ![t] = @ + 1]
      /\ UNCHANGED <<pc, body, shared>>
  BY DEF Copy
<1>2. body[t] \in Bodies /\ body[t] \in Seq({"good", "wrong"}) /\ at[t] \in 0 .. Len(body[t]) - 1
  BY <1>1, BodiesAreSequences DEF FileInv, Positions
<1>3. Bodies' = Bodies
  BY DEF Bodies, Ceremony
<1>4. Len(body[t]) \in Nat /\ at[t] + 1 \in 0 .. Len(body[t])
  BY <1>2
<1>5. Positions'
  <2>1. \A s \in Tools : at'[s] = IF s = t THEN at[t] + 1 ELSE at[s]
    BY <1>1 DEF FileInv, Positions
  <2> QED BY <1>1, <1>2, <1>3, <1>4, <2>1 DEF FileInv, Positions
<1>6. ~shared => ptau' = SubSeq(body[t], 1, at[t] + 1)
  BY <1>1, <1>2, PlacedNext DEF FileInv, FilledByOne
<1>7. FilledByOne'
  BY <1>1, <1>6 DEF FileInv, Positions, FilledByOne
<1>8. Len(SubSeq(body[t], 1, at[t] + 1)) = at[t] + 1
  BY <1>2
<1>9. Served'
  <2>1. CASE shared
    BY <1>1, <2>1 DEF Served
  <2>2. CASE ~shared
    <3>1. Len(ptau') <= Len(body[t]) /\ ptau' = SubSeq(body[t], 1, Len(ptau'))
      BY <1>6, <1>8, <1>4, <2>2
    <3> QED BY <3>1, <1>2, <1>3 DEF Served
  <2> QED BY <2>1, <2>2
<1> QED BY <1>5, <1>7, <1>9 DEF FileInv

LEMMA OthersKeepFile ==
  ASSUME FileInv, NEW t \in Tools,
         \/ Start(t) \/ Stat(t) \/ Get(t) \/ Measure(t) \/ Read(t)
         \/ \E d \in Degrees, g \in BOOLEAN : Verify(t, d, g)
         \/ Emit(t) \/ Quit(t) \/ EmitFails(t) \/ Crash(t)
         \/ \E files \in LegacyOuts : Legacy(t, files)
  PROVE  FileInv'
<1> USE DEF FileInv, Positions, Goto, tool, Bodies, Ceremony
<1>1. CASE Start(t)   BY <1>1, FileUntouched DEF Start
<1>2. CASE Stat(t)    BY <1>2, FileUntouched DEF Stat
<1>3. CASE Get(t)     BY <1>3, FileUntouched DEF Get
<1>4. CASE Measure(t) BY <1>4, FileUntouched DEF Measure
<1>5. CASE Read(t)    BY <1>5, FileUntouched DEF Read
<1>6. CASE \E d \in Degrees, g \in BOOLEAN : Verify(t, d, g)
  BY <1>6, FileUntouched DEF Verify
<1>7. CASE Emit(t)    BY <1>7, FileUntouched DEF Emit
<1>8. CASE Quit(t)    BY <1>8, FileUntouched DEF Quit, Ended
<1>9. CASE EmitFails(t) BY <1>9, FileUntouched DEF EmitFails
<1>10. CASE Crash(t)  BY <1>10, FileUntouched DEF Crash, Ended
<1>11. CASE \E files \in LegacyOuts : Legacy(t, files)
  BY <1>11, FileUntouched DEF Legacy
<1> QED BY <1>1, <1>2, <1>3, <1>4, <1>5, <1>6, <1>7, <1>8, <1>9, <1>10, <1>11

LEMMA FileInvStep == FileInv /\ [Next]_vars => FileInv'
<1> SUFFICES ASSUME FileInv, [Next]_vars PROVE FileInv'
  OBVIOUS
<1>1. CASE UNCHANGED vars
  BY <1>1 DEF vars, tool, FileInv, Positions, FilledByOne, Served, Bodies, Ceremony
<1>2. ASSUME NEW t \in Tools,
             \/ Step(t) \/ EmitFails(t) \/ Crash(t)
             \/ \E files \in LegacyOuts : Legacy(t, files)
      PROVE  FileInv'
  BY <1>2, CreateKeepsFile, CopyKeepsFile, OthersKeepFile DEF Step
<1> QED BY <1>1, <1>2 DEF Next

(* A cached file of the right size, which a run takes for complete, is the *)
(* ceremony's or the beginning of what a mirror served instead, for any    *)
(* size, any bodies and any number of tools, until two of them fill it at  *)
(* a time.                                                                 *)
THEOREM RightSizeIsAlwaysComplete == Spec => []RightSizeIsComplete
<1>1. FileInv => RightSizeIsComplete
  BY DEF FileInv, Served, RightSizeIsComplete, Complete
<1> QED BY FileInvInit, FileInvStep, <1>1, PTL DEF Spec

-----------------------------------------------------------------------------
\* The set of files of one run.

Writers == {"emit", "done"}

(* A tool that writes has written the files up to where it is, and while   *)
(* no other tool has written at the same time, they are still as it left   *)
(* them: later ones of its list go to other files, or agree.               *)
Progress(t) ==
  /\ at[t] <= Len(todo[t]) /\ (pc[t] = "done" => at[t] = Len(todo[t]))
  /\ ~overlap => \A i \in 1 .. at[t] : out[todo[t][i]] = Value(t, todo[t][i])

AgreeInv ==
  /\ k = [t \in Tools |-> k[t]] /\ todo \in [Tools -> Seq(AllFiles)]
  /\ ~overlap => \A s, t \in Tools : pc[s] \in Writers /\ pc[t] \in Writers => s = t
  /\ \A t \in Tools : pc[t] \in Writers => Progress(t)

FilesInv == KeysInv /\ FileInv /\ AgreeInv

LEMMA KeyFilesListed ==
  ASSUME NEW degree \in Degrees
  PROVE  KeyFiles(degree) \in Seq(AllFiles)
<1> DEFINE a == <<"consts", 0>>
           b == <<"vk", 0>>
           c == <<"pk", 0>>
           d == <<"shape", 0>>
           e == <<"srs", degree>>
<1>1. KeyFiles(degree) = <<a, b, c, d, e>>
  BY DEF KeyFiles
<1> HIDE DEF a, b, c, d, e
<1>2. DOMAIN <<a, b, c, d, e>> = 1 .. 5
  OBVIOUS
<1>3. \A i \in 1 .. 5 : <<a, b, c, d, e>>[i] \in AllFiles
  BY <1>1, <1>2 DEF AllFiles, Range
<1>4. a \in AllFiles /\ b \in AllFiles /\ c \in AllFiles /\ d \in AllFiles /\ e \in AllFiles
  BY <1>3
<1>5. <<a, b, c, d, e>> \in Seq(AllFiles)
  BY <1>4
<1> QED BY <1>1, <1>5

LEMMA LegacyListed ==
  ASSUME NEW files \in LegacyOuts
  PROVE  files \in Seq(AllFiles)
<1>1. PICK a, b : files = <<a, b>>
  BY Zenon DEF LegacyOuts, SdkFiles
<1>2. Len(files) = 2
  BY <1>1
<1>3. files[0 + 1] \in LegacyFiles /\ files[1 + 1] \in LegacyFiles
  BY <1>2, LegacyFileNext
<1>4. a \in AllFiles /\ b \in AllFiles
  BY <1>1, <1>3 DEF AllFiles
<1> QED BY <1>1, <1>4

LEMMA AgreeInit == Init => AgreeInv
BY DEF Init, AgreeInv, Writers

(* A step that writes nothing and by which no tool becomes a writer.       *)
LEMMA NoNewWriter ==
  ASSUME AgreeInv, UNCHANGED <<out, overlap>>, k' = [t \in Tools |-> k'[t]],
         todo' \in [Tools -> Seq(AllFiles)],
         \A s \in Tools : pc'[s] \in Writers =>
           /\ pc'[s] = pc[s] /\ at'[s] = at[s] /\ todo'[s] = todo[s]
           /\ got'[s] = got[s] /\ k'[s] = k[s]
  PROVE  AgreeInv'
<1>1. ASSUME NEW t \in Tools, pc'[t] \in Writers PROVE Progress(t)'
  BY <1>1 DEF AgreeInv, Progress, Value
<1> QED BY <1>1, Fixed DEF AgreeInv, Writers

(* A tool that begins to write: if another one is writing, they overlap.   *)
LEMMA NewWriter ==
  ASSUME FilesInv, NEW t \in Tools, NEW files \in Seq(AllFiles), pc[t] \in {"off", "read"},
         pc' = [pc EXCEPT ![t] = "emit"], todo' = [todo EXCEPT ![t] = files],
         overlap' = (overlap \/ OthersWrite(t)), UNCHANGED <<out, at>>,
         k' = [s \in Tools |-> k'[s]],
         \A s \in Tools \ {t} : got'[s] = got[s] /\ k'[s] = k[s]
  PROVE  AgreeInv'
<1>1. at[t] = 0 /\ Len(files) \in Nat /\ pc = [s \in Tools |-> pc[s]]
  BY DEF FilesInv, FileInv, Positions
<1>2. ~overlap' => ~overlap /\ \A s \in Tools \ {t} : pc[s] \notin Writers
  BY DEF OthersWrite, Writers
<1>3. todo \in [Tools -> Seq(AllFiles)]
  BY DEF FilesInv, AgreeInv
<1>4. todo' \in [Tools -> Seq(AllFiles)] /\ todo'[t] = files
      /\ \A s \in Tools \ {t} : todo'[s] = todo[s] /\ pc'[s] = pc[s]
  BY <1>1, <1>3
<1>5. pc'[t] = "emit"
  BY <1>1
<1>6. ASSUME NEW s \in Tools, pc'[s] \in Writers PROVE Progress(s)'
  <2>1. CASE s = t
    BY <1>1, <1>4, <1>5, <2>1 DEF Progress
  <2>2. CASE s # t
    <3>1. Progress(s) /\ todo'[s] = todo[s] /\ pc'[s] = pc[s] /\ overlap'
      BY <1>2, <1>4, <1>6, <2>2 DEF FilesInv, AgreeInv
    <3> QED BY <3>1 DEF Progress
  <2> QED BY <2>1, <2>2
<1>7. ~overlap' => \A s, u \in Tools : pc'[s] \in Writers /\ pc'[u] \in Writers => s = u
  BY <1>2, <1>4
<1> QED BY <1>4, <1>6, <1>7, Fixed DEF AgreeInv

(* The files written before keep their contents: nobody else writes, and a *)
(* file named twice gets the same again.                                   *)
LEMMA EmitAgrees ==
  ASSUME FilesInv, NEW t \in Tools, Emit(t)
  PROVE  AgreeInv'
<1> DEFINE n == at[t] + 1
           f == todo[t][n]
<1>1. /\ pc[t] = "emit" /\ at[t] < Len(todo[t]) /\ out' = [out EXCEPT ![f] = Value(t, f)]
      /\ at' = [at EXCEPT ![t] = @ + 1]
      /\ pc' = [pc EXCEPT ![t] = IF at'[t] = Len(todo[t]) THEN "done" ELSE "emit"]
      /\ UNCHANGED <<k, todo, got, overlap>>
  BY DEF Emit, Contents, Goto
<1>2. /\ at \in [Tools -> Nat] /\ todo \in [Tools -> Seq(AllFiles)]
      /\ out = [g \in AllFiles |-> out[g]] /\ pc = [s \in Tools |-> pc[s]]
      /\ k = [s \in Tools |-> k[s]]
      /\ ~overlap => \A s \in Tools : pc[s] \in Writers => s = t
      /\ \A s \in Tools : pc[s] \in Writers => Progress(s)
  BY <1>1 DEF FilesInv, KeysInv, Shaped, AgreeInv, Writers
<1>3. /\ at[t] \in Nat /\ Len(todo[t]) \in Nat /\ n \in 1 .. Len(todo[t]) /\ f \in AllFiles
      /\ at'[t] = n
  BY <1>1, <1>2
<1>4. \A s \in Tools \ {t} : pc'[s] = pc[s] /\ at'[s] = at[s]
  BY <1>1, <1>2
<1>5. pc'[t] = IF n = Len(todo[t]) THEN "done" ELSE "emit"
  BY <1>1, <1>2, <1>3
<1>6. \A g \in AllFiles : out'[g] = IF g = f THEN Value(t, f) ELSE out[g]
  BY <1>1, <1>2
<1> HIDE DEF f, n
<1>7. ASSUME ~overlap, NEW i \in 1 .. n PROVE out'[todo[t][i]] = Value(t, todo[t][i])
  <2>1. todo[t][i] \in AllFiles
    BY <1>2, <1>3, <1>7
  <2>2. CASE todo[t][i] = f
    BY <1>6, <2>1, <2>2
  <2>3. CASE todo[t][i] # f
    <3>1. i \in 1 .. at[t]
      BY <1>3, <1>7, <2>3 DEF f, n
    <3>2. out[todo[t][i]] = Value(t, todo[t][i])
      BY <1>1, <1>2, <1>7, <3>1 DEF Progress, Writers
    <3> QED BY <1>6, <2>1, <2>3, <3>2
  <2> QED BY <2>2, <2>3
<1>8. Progress(t)'
  <2>1. \A g : Value(t, g)' = Value(t, g)
    BY <1>1 DEF Value
  <2>2. at'[t] <= Len(todo'[t]) /\ (pc'[t] = "done" => at'[t] = Len(todo'[t]))
    BY <1>1, <1>3, <1>5
  <2>3. ~overlap' => \A i \in 1 .. at'[t] : out'[todo'[t][i]] = Value(t, todo'[t][i])
    BY <1>1, <1>3, <1>7
  <2> QED BY <1>1, <2>2, <2>3 DEF Progress, Value
<1>9. ASSUME NEW s \in Tools \ {t}, pc'[s] \in Writers PROVE Progress(s)'
  <2>1. Progress(s) /\ overlap
    BY <1>2, <1>4, <1>9
  <2> QED BY <1>1, <1>4, <2>1 DEF Progress
<1>10. ~overlap' => \A s, u \in Tools : pc'[s] \in Writers /\ pc'[u] \in Writers => s = u
  BY <1>1, <1>2, <1>4
<1> QED BY <1>1, <1>2, <1>8, <1>9, <1>10, Fixed DEF AgreeInv

(* A write that fails tears a file of a tool that writes no more.          *)
LEMMA EmitFailsAgrees ==
  ASSUME FilesInv, NEW t \in Tools, EmitFails(t)
  PROVE  AgreeInv'
<1>1. /\ pc[t] = "emit" /\ pc' = [pc EXCEPT ![t] = "failed"]
      /\ UNCHANGED <<k, todo, at, got, overlap>>
  BY DEF EmitFails, Goto, tool
<1>2. /\ pc = [s \in Tools |-> pc[s]] /\ k = [s \in Tools |-> k[s]]
      /\ todo \in [Tools -> Seq(AllFiles)]
      /\ ~overlap => \A s \in Tools : pc[s] \in Writers => s = t
      /\ \A s \in Tools : pc[s] \in Writers => Progress(s)
  BY <1>1 DEF FilesInv, KeysInv, Shaped, AgreeInv, Writers
<1>3. ASSUME NEW s \in Tools, pc'[s] \in Writers
      PROVE  s # t /\ pc'[s] = pc[s] /\ Progress(s) /\ overlap
  BY <1>1, <1>2, <1>3 DEF Writers
<1>4. ASSUME NEW s \in Tools, pc'[s] \in Writers PROVE Progress(s)'
  BY <1>1, <1>3, <1>4 DEF Progress
<1> QED BY <1>1, <1>2, <1>3, <1>4, Fixed DEF AgreeInv

LEMMA OthersAgree ==
  ASSUME FilesInv, NEW t \in Tools,
         \/ Start(t) \/ Stat(t) \/ Get(t) \/ Create(t) \/ Copy(t) \/ Measure(t) \/ Read(t)
         \/ Quit(t) \/ Crash(t)
  PROVE  AgreeInv'
<1>1. /\ pc = [s \in Tools |-> pc[s]] /\ k = [s \in Tools |-> k[s]]
      /\ at = [s \in Tools |-> at[s]] /\ got = [s \in Tools |-> got[s]]
      /\ todo \in [Tools -> Seq(AllFiles)] /\ AgreeInv
  BY DEF FilesInv, KeysInv, Shaped, AgreeInv
<1> USE DEF Goto, tool, Writers
<1>2. CASE Start(t) \/ Stat(t) \/ Get(t) \/ Create(t)
  BY <1>1, <1>2, NoNewWriter DEF Start, Stat, Get, Create
<1>3. CASE Copy(t) \/ Measure(t)
  BY <1>1, <1>3, NoNewWriter DEF Copy, Measure
<1>4. CASE Read(t)
  BY <1>1, <1>4, NoNewWriter DEF Read
<1>5. CASE Quit(t) \/ Crash(t)
  <2>1. Ended(t)
    BY <1>5 DEF Quit, Crash
  <2>2. todo' \in [Tools -> Seq(AllFiles)]
    BY <1>1, <2>1 DEF Ended
  <2>3. /\ UNCHANGED <<out, overlap>> /\ k' = [s \in Tools |-> k'[s]]
        /\ \A s \in Tools : pc'[s] \in Writers => s # t
    BY <1>1, <2>1 DEF Ended
  <2> QED BY <1>1, <2>1, <2>2, <2>3, NoNewWriter DEF Ended
<1> QED BY <1>2, <1>3, <1>4, <1>5

LEMMA VerifyAgrees ==
  ASSUME FilesInv, NEW t \in Tools, NEW degree \in Degrees, NEW instances \in BOOLEAN,
         Verify(t, degree, instances)
  PROVE  AgreeInv'
<1>1. /\ pc = [s \in Tools |-> pc[s]] /\ k = [s \in Tools |-> k[s]]
      /\ todo \in [Tools -> Seq(AllFiles)] /\ AgreeInv
  BY DEF FilesInv, KeysInv, Shaped, AgreeInv
<1>2. CASE Anchored(got[t])
  <2> DEFINE files == KeyFiles(degree) \o (IF instances THEN SdkFiles ELSE <<>>)
  <2>1. files \in Seq(AllFiles)
    <3>1. SdkFiles \in Seq(AllFiles)
      BY LegacyListed DEF LegacyOuts
    <3>2. (IF instances THEN SdkFiles ELSE <<>>) \in Seq(AllFiles)
      BY <3>1
    <3> QED BY <3>2, KeyFilesListed
  <2>2. /\ pc[t] = "read" /\ pc' = [pc EXCEPT ![t] = "emit"]
        /\ todo' = [todo EXCEPT ![t] = files] /\ k' = [k EXCEPT ![t] = degree]
        /\ overlap' = (overlap \/ OthersWrite(t)) /\ UNCHANGED <<out, at, got>>
    BY <1>2 DEF Verify, Goto
  <2>3. k' = [s \in Tools |-> k'[s]] /\ \A s \in Tools \ {t} : k'[s] = k[s]
    BY <1>1, <2>2
  <2> HIDE DEF files
  <2> QED BY <2>1, <2>2, <2>3, NewWriter
<1>3. CASE ~Anchored(got[t])
  BY <1>1, <1>3, NoNewWriter DEF Verify, Goto, Writers
<1> QED BY <1>2, <1>3

LEMMA LegacyAgrees ==
  ASSUME FilesInv, NEW t \in Tools, NEW files \in LegacyOuts, Legacy(t, files)
  PROVE  AgreeInv'
<1>1. /\ k = [s \in Tools |-> k[s]] /\ got = [s \in Tools |-> got[s]]
  BY DEF FilesInv, KeysInv, Shaped, AgreeInv
<1>2. /\ pc[t] = "off" /\ pc' = [pc EXCEPT ![t] = "emit"]
      /\ todo' = [todo EXCEPT ![t] = files] /\ got' = [got EXCEPT ![t] = SelfMade]
      /\ overlap' = (overlap \/ OthersWrite(t)) /\ UNCHANGED <<out, at, k>>
  BY DEF Legacy, Goto
<1>3. k' = [s \in Tools |-> k'[s]] /\ \A s \in Tools \ {t} : got'[s] = got[s] /\ k'[s] = k[s]
  BY <1>1, <1>2
<1> QED BY <1>2, <1>3, LegacyListed, NewWriter

LEMMA AgreeStep == FilesInv /\ [Next]_vars => AgreeInv'
<1> SUFFICES ASSUME FilesInv, [Next]_vars PROVE AgreeInv'
  OBVIOUS
<1>1. CASE UNCHANGED vars
  <2>1. UNCHANGED <<k, todo, out, overlap, pc, at, got>>
    BY <1>1 DEF vars, tool
  <2> QED BY <2>1, NoNewWriter DEF FilesInv, AgreeInv
<1>2. ASSUME NEW t \in Tools, Step(t) PROVE AgreeInv'
  BY <1>2, OthersAgree, VerifyAgrees, EmitAgrees DEF Step
<1>3. ASSUME NEW t \in Tools,
             EmitFails(t) \/ Crash(t) \/ \E files \in LegacyOuts : Legacy(t, files)
      PROVE  AgreeInv'
  BY <1>3, EmitFailsAgrees, OthersAgree, LegacyAgrees
<1> QED BY <1>1, <1>2, <1>3 DEF Next

(* A run that ends well, with nobody else writing, leaves a set of files   *)
(* made from one SRS, whatever was in the directory before: for            *)
(* any number of tools, failures and earlier runs of either tool.          *)
THEOREM FilesAlwaysAgree == Spec => []FilesAgree
<1>1. FilesInv => FilesAgree
  <2> SUFFICES ASSUME FilesInv, NEW t \in Tools, pc[t] = "done", ~overlap,
                      NEW f \in Range(todo[t])
               PROVE  out[f] = Value(t, f)
    BY DEF FilesAgree
  <2>1. todo[t] \in Seq(AllFiles) /\ Progress(t)
    BY DEF FilesInv, AgreeInv, Writers
  <2>2. PICK i \in 1 .. Len(todo[t]) : f = todo[t][i]
    BY <2>1 DEF Range
  <2> QED BY <2>1, <2>2 DEF Progress
<1>2. FilesInv /\ [Next]_vars => FilesInv'
  BY KeysInvStep, FileInvStep, AgreeStep DEF FilesInv
<1>3. Init => FilesInv
  BY KeysInvInit, FileInvInit, AgreeInit DEF FilesInv
<1> QED BY <1>1, <1>2, <1>3, PTL DEF Spec

=============================================================================
