# A TLA+ verification of the DarkDex Halo2 kit

The kit turns an event that a contract emitted on chain into a zero-knowledge
proof that the event is in the chain's history and that the prover knows the
secret key the event commits to. The modules here model the parts of that path
that keep state, race with the chain, or must agree with one another byte for
byte: the height arithmetic and the node's window of accepted roots, the
exporter that builds a fixture from a growing chain, the check of a fixture and
what the circuit then proves about it, the flattening of an event's cells, the
prover's cache of keys, the tools that make keys, and the whole way from an event
to a claim the contract accepts.

Paths are relative to the repository; the four crates are abbreviated
*exporter* (`dark_dex_halo2_private_witness_export_lib/`), *prover*
(`halo2-proover/`), *circuit* (`dex-halo2-circuit/`) and *sk-commit*
(`sk-commit-tool/`).

## 1. Inventory

### How the parts interact

```
 chain (node) --GraphQL--> exporter --fixture.json--> prover --circuit, keys--> proof + public inputs
   |  history cursor           | lib.rs, blockchain.rs   | lib.rs      | cache directory   |
   |                           | anchor.rs, poseidon.rs  |             | srs, vk, pk, bp   |
   +<---------------- gosh.check_layer_hash(layer, root), verifying key ------------------+
```

The node hashes blocks of thread 0 in windows of W = 128 into layer-1 roots,
layer-1 roots into layer-2 roots, and so on, and keeps the recent roots of each
layer in a cursor. The exporter asks the node for blocks, rebuilds these trees,
and writes a fixture that proves an event against the root of a chosen layer.
The prover reads the fixture, checks it natively, and feeds it to the circuit
with keys from a cache directory. The chain accepts the proof if its cursor
still holds the root and the proof verifies under the chain's verifying key.

### Components

| Component | State it keeps | Operations | What is hard | What makes it correct |
|---|---|---|---|---|
| History layers (`exporter/src/anchor.rs`) | none | `checked_stride`, `anchor_block_height`, `anchor_expiry_height`, `rung_position`, `validate_layer`, `from_max_layers` | boundaries, u64 overflow at the highest layers | the heights say exactly when the chain accepts a root |
| The node's cursor (outside the repository; simulated in `exporter/tests/anchor_layers.rs`) | head, one buffer of roots per layer | produce a block | a full buffer is cleared whole | never more than W roots, in order, of that layer |
| GraphQL reader (`exporter/src/blockchain.rs`, `types.rs`) | none | `fetch_marker`, `get_layer_0_data`, `get_layer_n_data`, queries for blocks and the head | three kinds of boundary block, missing blocks, misreports, no client timeout | rebuilds the node's leaves exactly |
| Dense Merkle trees (`exporter/src/poseidon.rs`, `proof.rs`) | none | `dense_merkle_tree/root/proof/verify`, message leaves, the inner proof | array parity, padding, duplicate messages | a proof for every leaf and for nothing else |
| Exporter (`exporter/src/lib.rs`, `main.rs`) | the run: layer, anchor, chain of rungs, output file, the clock of a wait, the advice to its caller | validate, resolve the anchor (fixed, automatic, waiting), check expiry, warn or advise another layer, collect the trees, compare, write | the chain grows between any two queries; timeouts; crashes, failed and unanswered queries | writes only fixtures that prove the event, under a root accepted when it looked; what it advises is true |
| Fixture check and instances (`prover/src/lib.rs`) | none | `parse_fixture`, `compute_instances`, `fixture_anchor_from_json`, `generate_proof_anchored`, `generate_proof` | fixtures built by other tools, the declared step count against the links | what it accepts does not panic; what proves is true |
| Prover keys and cache (`prover/src/lib.rs`) | SRS, proving and verifying key, break points in memory; four files | the constructors, with and without a cache directory, keygen inside `generate_proof`, loads and saves | crashes and failed writes between files, several processes, several SRS and shapes | a proof made is a proof that verifies |
| Circuit (`circuit/src/dark_dex_circuit_new.rs`) | none | the constraints and the asserts of the constructors | must agree with exporter and prover on every position and leaf | satisfied only by an included event and its key |
| From an event to an accepted claim (`README.md:150-176` and the parts above) | the output file, kept from run to run; the last proof | export, prove, claim, and again as the exporter advises | the chain grows at every stage; a root expires before the claim; a failed or killed run leaves an old or half a file | what is accepted proves the event; until the height the fixture states; in the end something is accepted |
| Prover command line (`prover/src/main.rs`) | none | check first, then SRS and keygen, then the checked proof | a refusal must come before hours of work | as the fixture check |
| BOC flattening (`circuit/src/boc_helper.rs`) | a queue, the hashes seen, the entries | traversal of a cell tree, the bytes that are hashed, offsets of child hashes, readers of the bytes | shared and repeated cells, half bytes, levels | every cell once, in order; offsets and readers find what was written |
| Keygen and synthetic fixtures (`circuit/src/keygen.rs`, `prover/src/bin/`) | none | builds a two-level tree and a chain of trees, pads it | depths of padding, a tree per chain length | one key fits every layer and every number of messages |
| Key generation tools (`circuit/src/bin/`) | the ptau cache, the output directory | download, size and digest checks, keygen, round trip, write the files | interrupted downloads, several tools on one cache, reruns over old output | keys only from the ceremony's file, files that belong together |
| Event reader (`circuit/src/event_data_helper.rs`) | none | reads `vouchers.txt` | formats only | not modelled |
| Circuit helpers (`circuit/src/circuit_helper.rs`) | none | a lookup table, SHA-256 padding | nothing to explore | not modelled |
| Commitment helpers, sk-commit (`circuit/src/poseidon.rs`, `sk-commit/src/main.rs`) | none | one hash, printed | nothing to explore | not modelled |

`PROJECT.json` lists every definition with the lines it stands for, and under
"hazards" the places in the code that a test would hardly reach, each with the
properties that watch it.

## 2. Modules

| Module | Models | State | Actions |
|---|---|---|---|
| `HistoryLayers` | `anchor.rs` | - | - (operators with checked u64 arithmetic) |
| `LayerData` | the reads of `blockchain.rs` | - | - (the leaves a read returns, or `None`) |
| `HistoryCursor` | the node, as `Chain::simulate` and `push` of `tests/anchor_layers.rs` do | `head`, `cursor`, `tree` | `ProduceBlock` |
| `AnchorPromise` | abstract: what an export promises | `head`, `request`, `status`, `chosen`, `file` | `Grow`, `Commit`, `Write`, `Finish`, `Stop` |
| `AnchorExporter` | `make_private_witness_with_anchor`, composed with `HistoryCursor` | the run's locals (`layer`, `anchor`, `rungs`, ...), the file, the chain | one per query or write (`Start`, `QueryEventBlock`, `Poll`, `ReadHead`, `Sleep`, `Climb`, `CheckExpiry`, `Advise`, `Gauge`, `CollectLeaves`, `CollectRung`, `CompareRoot`, `BeginWrite`, `EndWrite`), `Grow`, `Elapse`, `Fault`, `Crash` |
| `Pipeline` | exporter, prover and contract in turn, composed with `AnchorExporter` | `stage`, `fixture`, `proof` | `ExporterRuns`, `ExporterSuffers`, `Proceed`, `Prove`, `Claim`, `Rerun`, `ChainGrows` |
| `DenseMerkle` | `poseidon.rs` | - | - (trees, proofs, the root a proof leads to) |
| `TrackedMessages` | `proof.rs` with its caller | `tracked` | `Track` |
| `DexFixture` | the fixture between exporter, check and circuit | `fixture`, `expected`, `checked`, `outcome` | `Edit`, `Check`, `Prove`, `ProveUnchecked` |
| `BocCells` | `boc_helper.rs` | `bag`, `queue`, `visited`, `result` | `Visit` (one round of the loop) |
| `KeyTool` | `gen_hermez_kzg_and_dark_dex_keys.rs`, `gen_legacy_gen_srs_dark_dex_keys.rs` | `ptau`, `out`, and per tool `pc`, `k`, `todo`, `body`, `at`, `got` | `Start`, `Stat`, `Get`, `Create`, `Copy`, `Measure`, `Read`, `Verify`, `Legacy`, `Emit`, `Quit`, `EmitFails`, `Crash` |
| `ProverCache` | the prover's processes and their cache directory | `disk`, and per process `pc`, `srs`, `shape`, `pk`, `vk`, `bp`, `proof` | one per file operation, load, keygen (`KeygenInMemory` without a directory), proof, crash, failed download, failed write, lost flush |
| `DenseMerkle_proofs` | lemmas: division by strides, induction, flattened sequences, dense trees | | |
| `HistoryCursor_proofs`, `Pipeline_proofs`, `DexFixture_proofs`, `TrackedMessages_proofs`, `BocCells_proofs`, `ProverCache_proofs`, `KeyTool_proofs` | the theorems (those on the exporter are in `Pipeline_proofs`) | | |
| `MCHistoryCursor`, `MCAnchorExporter`, `MCPipeline`, `MCDexFixture`, `MCBocCells`, `MCKeyTool` | instances for TLC | | |

`HistoryLayers` <- `LayerData` <- `HistoryCursor` <- `AnchorExporter` <- `Pipeline` is a
chain of EXTENDS: the exporter's steps interleave with the chain's `ProduceBlock`,
which it runs as `Grow`. `AnchorExporter` INSTANCEs `AnchorPromise` with a
refinement mapping. `DenseMerkle` carries `TrackedMessages` and `DexFixture`.

### Correspondence, and what is abstracted

* **Heights** are numbers up to `U64Max`; an operation whose result does not fit
  is `None`, as `checked_mul` and `checked_add` give. Powers of W are a table,
  `Pow`, with the recurrence as an assumption, so that no definition is recursive.
* **Hashes** are symbolic and injective, with leaves and inner nodes told apart:
  Poseidon, and its chunking of bytes into field elements, are trusted. In
  the chain a root is written `Root(layer, height)`, the name of its tree;
  `RootChanges` in `TrackedMessages` checks, on the array trees themselves, the
  reason this is allowed.
* **A query** of the exporter is one action; between any two the chain may grow
  by any number of blocks. The queries that collect one tree are one action,
  because the blocks they read are already there and immutable. A query that
  fails, or an answer that does not parse, ends the run (`Fault`), except the two
  queries for the head, whose errors the code tolerates (`Fallible`). A query may
  also never be answered (`Awaiting`).
* **Advice** is what a run says to its caller: the layer to use instead, and in a
  warning the blocks that are left and the block they are counted from. The code
  prints it; here it is a record, `advice`.
* **The pipeline** runs the tools in turn, as the repository's `README.md`
  describes it, and keeps the output file from run to run. The prover is started
  on whatever the file is. A proof is the fixture it was made from: that a whole,
  unedited fixture proves is `HonestFixtureProves`. The contract is external and
  accepts what `gosh.check_layer_hash` does. When a run fails, a root is gone or
  a claim is refused, whoever runs the tools starts the exporter again, at the layer
  it advised or, where it was not told to leave it, at the same one.
* **A misreporting node** (`lies`) leaves out roots or reports others, and may
  answer a query by block id with a block of another thread.
* **The wait** counts time in units: sleeping adds `Nap`, and the queries of one
  turn take up to `QueryTime`.
* **The output file** is truncated, then filled: `file` is "untouched", "torn" or
  "new"; in `Pipeline` it is nothing, half a file, or a fixture.
* **A fixture** is a record of symbolic hashes, positions and links. An event
  is the number of cells its BOC flattens to, how often the first refers to
  another, the bytes that represent the two cells in number, and the key it
  commits to; hex and base64 errors are refusals like any other and are not told
  apart. `TwoEntriesFit` in `BocCells` checks the reason these are enough. Synthetic fixtures are the same records over trees
  of random leaves.
* **The circuit** is the predicate its constraints state (`Satisfied`) with the
  asserts of its constructors (`Builds`), computed from the padded events proof;
  its shape is what `without_witnesses` keeps (`CircuitShape`): of the two cells
  their lengths, references and the offsets of child hashes, and the depths of
  the block proof and the links. The gadgets for SHA-256, Poseidon, packing and
  range checks are taken to compute what they are named for. `Generated` is
  what comes of a key for the fixture's own shape.
* **A cache file** holds a value, or is `Absent`, `Torn` (ends early) or `Garbled`
  (full length, wrong bytes). A key is named by the SRS and the circuit shape it
  was made with. Loading a torn file fails, as the deserialisers do; a garbled
  one may load, since the keys are read unchecked.
* **A bag of cells** is a table in which a cell refers to later ones; a byte is what
  it is a byte of and its number, so that reading back is an equation between
  sequences. Level masks are sets of levels. Hashes, levels and references of
  cells come from `tvm_types`, which is modelled from its use. Big cells, which
  have no descriptors, are left out.
* **The ptau file** is a sequence of chunks. A tool writes at its own offset, so
  that a file another tool truncated meanwhile gets a hole. An output file is
  named by the SRS and the degree it was made from, and files that are always
  written together from the same data are one (`KeyFiles`). The configuration
  parameters and break points are those of `base_circuit_params` whatever `--k` is.
  The legacy tool's SRS is one value, `SelfMade`, whether it was made now or read
  from an earlier run's file; its key and proofs go to a directory of its own, to the
  other tool's, where the key has the same name, or to that one's subfolder,
  whose layout it has.
* **Deliberate faults** (`Push_Sliding`, `Evicted_Late`, ...) are plausible slips
  kept beside the definitions they would replace. Every property below has one
  that violates it; no specification uses them.

## 3. What the runs check

| Run | Instance | Checks |
|---|---|---|
| `cursor` | W = 3, heights up to 130, layers 1-5 | `ChainTypeOK`, `CursorInv`, `AcceptedExactlyInWindow`, `ReadersRebuildTrees`, `RungIsWhereTheNodePutIt`, `UsableSpan` |
| `export_anchor` | W = 2, heights of 4 bits, layers 1-4, chain of 14 blocks, every event up to height 8, every layer from 0 to 5 and automatic, expired anchors allowed or not, one fault | `ExporterTypeOK`, `AdviceHolds`, `TruthfulNodeIsNeverRefused`, `TouchedOnlyIfHeld`, `AutoTakesTheHighest`, `KeepsPromise` (refinement) |
| `pipeline` | W = 2, heights of 4 bits, chain of 12 blocks, the event at height 3, layer 1, automatic or an offline fixture, no, one, two or three roots misreported or left out, a block of another thread, one fault, fair | `FixtureProvesEvent`, `AcceptedProvesEvent`, `ClaimableUntilExpiry`, `EventClaimed` |
| `export_wait` | chain of 5, timeout 5, poll interval 2, queries of up to 1, one fault, conflicting options, under `FairSpec` | `GivesUpOnlyIfLate`, `WaitNeverOverruns`, `ExportEnds` |
| `export_stale` | as `export_anchor`, no faults | a violation: `StillHeldWhenWritten` |
| `tracked_messages` | 2 accounts, 2 messages, up to 5 tracked | `EveryMessageProves`, `NothingElseProves`, `RootChanges` |
| `fixture_mixed` | windows of 2, layers 1-3, four blocks, synthetic fixtures of every chain length, two edits | `HonestFixtureProves`, `KeygenShapeFits`, `CheckedLinksNeverPanic`, `ProofProvesInclusion`, `LayerOneCheckSuffices` |
| `cache_shared` | two provers, one shape, the two Hermez constructors and one without a directory, two faults | `ProofsVerify` |
| `cache_restarts` | one prover after another, all constructors with a directory and one without, two shapes, four faults, under `FairSpec` | `CacheTypeOK`, `KeysMatch`, `TornKeyNeverLooksSaved`, `RetriesSucceed` |
| `cache_hermez` | one prover, a Hermez constructor, the legacy one with and without a directory | a violation: `HermezProofsVerify` |
| `boc_flatten` | every bag of four cells with up to two references, whole and half bytes, pruned branches, Merkle cells | `FlattensOnce`, `LevelOrder`, `BytesReadBack`, `TwoEntriesFit` |
| `key_tool` | two tools, a ptau file of two chunks, two degrees, one fault, the legacy tool, fair | `RightSizeIsComplete`, `KeysOnlyFromCeremony`, `FilesAgree`, `RerunsSucceed` |

What they show:

* **The window of acceptance is exact.** The chain accepts the layer-n root over
  an event while T_n <= head < E_n and at no other head, for every event, layer
  and head, and where T_n or E_n do not fit, the root is never published or
  never evicted. A root is usable for W^n to W^(n+1) blocks and the next layer
  takes over in between.
* **Node and exporter agree on every tree.** The leaves the exporter reads are
  the published ones as soon as the root is there (`ReadersRebuildTrees`), and the
  position it computes for the root below is where the node put it. So a
  truthful node is never refused (`TruthfulNodeIsNeverRefused`): an export of an
  existing event fails only because the anchor is not produced in time, evicted
  or out of range.
* **A fixture proves the event**, even if the node misreports other roots than
  the anchor's or answers with a block of another thread
  (`FixtureProvesEvent`); and a proof the contract accepts does so whatever the
  node misreported and whichever run the file was left by
  (`AcceptedProvesEvent`).
* **The height a fixture states is exact**: its proof is accepted at every head below
  `anchor_expires_at_height` and at none from there on, however late it comes
  to the contract (`ClaimableUntilExpiry`).
* **Advice is true** when it is given and stays true: the layer it names is published,
  an expired root is never refused without one, and the blocks it counts are
  what is left of the root's stay, whatever the chain did between the queries
  (`AdviceHolds`). Following it ends in an accepted claim (`EventClaimed`),
  through roots that expire between the steps, killed runs and lost queries.
* **The automatic layer** is never below one that was there when the run began.
* **The wait** gives up only if the block was not there at the last turn of
  queries, and ends by its deadline, give or take the queries of one turn. Every
  export ends, on a chain that has stopped too, unless an answer never comes.
* **A proof proves inclusion.** Whatever parts of exported fixtures are mixed and
  whatever flags and counts are changed, a proof whose public root is a published
  one shows that this account sent this event in this block under that root and
  that the prover has the event's key. After the native check no assertion on
  links can fire. The check is no substitute for the circuit: `compute_instances`
  folds each link from the leaf the link itself carries, so above layer 1 only
  the circuit connects the links; `LayerOneCheckSuffices` states how far the
  check alone reaches.
* **Whom one key serves.** The synthetic fixture of one link, from which keys are
  made, has the circuit shape of a fixture exactly if the fixture's event has the
  voucher's cells: as many bytes in both, as many references (`KeygenShapeFits`).
  The layer, the number of messages in the block and edits of the links make no
  difference: the events proof is padded, and the padding of the chain has the
  depth of its links. An event with other cells is parsed, checked and accepted
  all the same, and only its proof fails under that key. Synthetic fixtures are
  accepted and prove like exported ones.
* **The cells of an event** are flattened once each, root first, level by level,
  whatever is shared or repeated; the child's hash is at the offset the circuit
  constrains, whatever levels there are. A message that flattens to two entries
  fits the circuit exactly if its root refers to the other cell once: a root
  that refers to it twice is flattened to two entries and parsed, but has no
  proof.
* **Keys come from the ceremony.** An interrupted download is never taken for a
  complete one, because it is created empty and grows; and whatever two tools do
  to the file, nothing is written from another SRS, except the key and proofs of
  the legacy tool: never the constants, the proving key or an SRS. A run that
  succeeds alone leaves files that belong together over whatever earlier runs of
  either tool left. Runs one
  after the other end with keys unless a file of the right size that is not the
  ceremony's got into the cache from a mirror, which stays until somebody deletes it.
* **The cache** never makes provers that share one SRS and one shape give a proof
  that does not verify, through crashes, failed writes, lost flushes and reads
  of half-written files, except after two processes filled one file at a time.
  For provers that run one after the other, cached keys and break points always
  come from one keygen. A crash or a failed write can leave a directory over which
  some starts fail until files are deleted: those from the URL if the cached SRS
  cannot be read, those of every constructor with the directory if the cached key
  or break points cannot. `RetriesSucceed` states that this is the only way to be
  stuck: who retries forever without a proof retries with such constructors only.

### Disagreements with the documentation

* `export_stale`: the documentation of `make_private_witness_with_anchor` says
  nothing is written if the node has already evicted the anchor root
  (`exporter/src/lib.rs:145-148`). Expiry is checked once (line 430); the chain can
  pass E_n while the trees are read, and the fixture is still written. What
  holds instead, and is proved, is `TouchedOnlyIfHeld`: the root was held at the
  moment of the check.
* `cache_hermez`: `new_with_hermez` promises proofs that verify on chain
  (`prover/src/lib.rs:612-615`). A key that a prover with the self-made SRS cached
  in the same directory is loaded and used, because the cache is keyed by
  nothing.

Seen while reading, and not worth a run of their own:

* `verifying_key` is documented as populated after the first proof
  (`prover/src/lib.rs:708-709`); with a cached proving key no keygen runs, and it
  stays `None`.
* `serialize_cells_tree_root_first` promises parents before children
  (`circuit/src/boc_helper.rs:213-215`). A cell that is shared between levels is
  taken where it first occurs, which can be before another of its parents;
  `LevelOrder` states what holds.
* `data_range_in_repr_data` goes by the bit length; in a cell above level 0 the
  data is a hash of 32 bytes whatever the bit length is. Event messages are at
  level 0.
* The key generation tool prints and documents `config_params.json` as the
  parameters at k (`circuit/src/bin/gen_hermez_kzg_and_dark_dex_keys.rs:283`);
  they are those of k = 19 always.

### Bounds, and why they are enough

* The cursor's instance covers every head up to the largest height, so each
  buffer of a layer that can fill is filled and cleared, and the highest layers
  overflow in each of the three ways (the stride, T_n, and only E_n). W = 3 gives
  windows an inner position, and the limit is no power of W. `AcceptedExactlyInWindow`
  and `UsableSpan` are proved for every W and limit besides.
* In the exporter's runs, 14 blocks evict layer-1 and layer-2 roots over the early
  events, layer 3 is published, and layer 4 is a valid layer whose height does
  not fit. Events up to height 8 include boundaries of one, two and three
  layers at once. The wait's timeout is no multiple of its interval, so that the
  last sleep is a shortened one.
* One fault per run is enough where each fault ends the run.
* Pipeline: block 4 publishes the roots of layers 1 and 2 over event 3 at once, and
  within 12 blocks both of them leave the cursor and layer 3 takes over, so that a
  claim can be refused twice and a warning can concern the block at hand. The
  misreports include a leaf with every root above it changed to match, which no
  check of the exporter can see. `MCNext` loses queries and runs only against a
  truthful node: a fault and a misreport of the same run would end it twice. The
  one fault of a behaviour is enough to leave each kind of file to a later run.
* Fixtures: blocks 0 and 1 share a window, blocks 2 and 3 the next one; one event is
  sent by two accounts, one block tracks one level more than the circuit has, one
  event has three cells, one no readable commitment, one refers twice to its
  cell, one has a first cell longer than the voucher's and one a second cell
  that ends before its last field. Two edits let a fixture take two
  parts from others, or one part and an adjusted count.
* Cache: two processes show each pair of file operations side by side; four
  faults let each of the files be damaged in one history. The theorems remove
  both bounds.

* Cells: four are the least in which a cell is shared between two levels and has a
  child of its own; a pruned branch of two levels below Merkle cells gives cells
  of every level.
* Key tool: a file of two chunks is the least that can be half there and that two
  tools can put a hole in; two tools show each pair of steps side by side. One
  fault is one crash, cut connection, odd download or failed write; faults in
  different runs meet only through the files, whose damaged states one fault
  reaches. `MCNext` bounds two things: once two tools have written output at a
  time, no further run begins (`FilesAgree` says nothing from then on, and
  `KeysOnlyFromCeremony` is proved without the bound); and from the legacy tool's
  first run on, runs follow each other.

CHECK_DEADLOCK is off where the system really stops: a chain at `MaxHead`, a
finished export, a used fixture, a block with `MaxTracked` messages, an empty
queue of cells. The cache runs check deadlock.

### Fairness

* `ExporterStep /\ ~Awaiting` is weakly fair in `export_wait`: the runtime keeps
  polling the export's future. That queries are answered is not assumed,
  because the HTTP client is built without a timeout
  (`exporter/src/blockchain.rs:67`): `ExportEnds` says that a run that does not
  end awaits an answer for ever. `Grow`, `Fault` and `Crash` have no fairness,
  so the run ends on a chain that has stopped.
* `ToolsRun` is weakly fair in `pipeline`: the node answers, and whoever runs the
  tools goes on until the claim is accepted. Both are assumptions about the
  program's surroundings, without which nothing could be claimed; none is about
  the speed of the chain, which may produce any number of blocks between two
  steps, or none.
* `Step(p)` is weakly fair in `cache_restarts`: a process that can run, runs, and
  somebody starts the prover again after a failure. Faults have none, and
  are bounded.
* `Step(t)` is weakly fair in `key_tool` for the same reason. `RerunsSucceed` is
  conditional on runs that follow each other (`[]Alone`), since two tools that
  truncate each other's download can go on for ever, and on the legacy tool not
  being all that is run.

## 4. What is proved

Every theorem is for all values of the constants that satisfy the named ASSUMEs.
All safety properties of the passing runs are proved.

What the proofs share is at the beginning of `DenseMerkle_proofs`: quotients by a
stride (`DivUnique`, `DivSucc`, `DivDiv`, ...); induction over the naturals for a *set*
(`Induction`, `LeastElement`), from the well-foundedness of `<`, since the library's
theorem has an operator as parameter; functions by recursion on a smaller number
(`Recursion`); and what `FlattenSeq` gives, element by element and in which order
(`JoinedHolds`, `JoinedFollows`, `KeptAre`).

**`HistoryCursor_proofs`** (any W > 1, layers, height limit).
* The invariant is `ChainTypeOK /\ CursorInv`. `CursorInv` is the cursor in closed
  form: of the head \div W^n roots pushed so far, layer n holds those since the last
  multiple of W, in order. `AcceptedExactlyInWindow` alone is not inductive, since
  it says nothing of the buffer's order and length; from the closed form, holding
  a root becomes a comparison of two quotients (`HeldByCount`), and the window
  follows by arithmetic (`WindowLemma`). Theorems: `ChainTypeCorrect`,
  `CursorInvariant`, `AcceptanceWindow`, `UsableSpans`.
* `TreeInv` adds every published tree in closed form: the last roots of its own and of
  the layer above before its height, then the W blocks or lower roots of its window.
  From it `TreesAreRebuilt` (each read of the exporter returns that tree, for any
  event and any chain) and `RungsAreInPlace` (a rung's position is where the node put
  the lower root, by grouping windows of windows).

**`Pipeline_proofs`**, first part: one run of the exporter (any requests, misreports,
number of faults).
* `ExporterInv` adds `ResolutionInv`: what the run knows at each of its points, above
  all that past the expiry check the anchor block exists and its root was held at the
  check. The step from "head < E_n" to "held" is the window lemma above. Theorems:
  `ExporterTypeCorrect`, `TouchedOnlyIfHeldAlways`, and `PromiseKept`, that every run
  implements `AnchorPromise`: each action maps to `Commit`, `Write`, `Finish`, `Stop`,
  `Grow` or a stutter.
* `AdviceHoldsAlways` needs `AdviceInv`: a count that was given ends at E_n, or, where
  the root was gone before the head was read, at a height the chain has passed since.
  `WidthAssumption` (no layer above the highest has a height, as 128^13 does not
  fit) is what makes an expired root always have a layer above it;
  `AdviceAssumption` only tells `None` from advice.
* `AutoTakesTheHighestAlways` from `AutoInv`: once the climb is over, no layer that was
  produced at the start is above the one reached.
* `WaitNeverOverrunsAlways` and `GivesUpOnlyIfLateAlways` from `WaitInv` (at each point
  of the wait, the clock passes the deadline by what this turn's queries took, and a
  run about to look at the clock has not found its block) and `GaveUpInv`.
* `TruthfulNodeIsNeverRefusedAlways` from `TreeInv`, `RungInv` (the rungs collected so
  far, each at its position; if the last root is the published one, so is every one
  below it) and `RefusalInv` (each failure has its cause). `LeavesAssumption` only
  tells `None` from leaves.

**`Pipeline_proofs`**, second part: the tools in turn (any number of runs). `PipeInv` says
that a file neither missing nor torn is `Whole`: its heights and positions are computed
from its event, its anchor block exists, its root is the published one or of no
published tree; that a proof is made from such a file, and that a stage is entered
with what it needs. Theorems: `FixtureProvesEventAlways`, `AcceptedProvesEventAlways`,
`ClaimableUntilExpiryAlways` (with the window lemma: a root is taken exactly below E_n).

**`DenseMerkle_proofs`** (any leaves, any width). The definitions are recursive
functions; that they exist and satisfy their equations (`TreeIsDefined`,
`PathHashIsDefined`, ...) is proved by hand, from the union of their finite pieces.
Widths are powers of two (`WidthIsPower`), the array has the leaves at its end
(`TreeLayout`), a path from a leaf ends at the root (`PathClimbs`). `ProofIsSound`:
descending from the root, equal hashes have equal parts, so only the leaf of a position
verifies there, with any proof of the right length. `ProofLeadsToRoot`: the siblings
that `dense_merkle_proof` collects do verify.

**`TrackedMessages_proofs`** (any accounts and messages). `EveryMessageProvesAlways`,
`NothingElseProvesAlways`, `RootChangesAlways`. The flattened leaves hold a leaf of
every message (`LeavesHold`); the array of nodes, read level by level from the leaves
up, is the tree by halves (`NodesAreHalves`); and a root tells the number of messages
below it (`RootTellsLength`): the padding is told from a message, and two trees of one
root have one depth. The proof showed that the recursion `Halves` was not one for the empty
sequence, of which no tree consists; its base case was widened.

**`BocCells_proofs`** (any number of cells, up to seven references each, as many as the
descriptor's three bits can tell, and payloads of up to 1023 bits, as a cell holds).
* A hash exists for every cell because references go to later cells
  (`FromLaterCells`), equal hashes have equal child hashes (`EqualChildren`), and no
  cell refers to one of its own hash (`NoCellInItself`), nor do two to each other's
  (`NoTwoInEachOther`).
* `FlattensOnceAlways`. `QueuedOnce` takes the entries and the queue as one sequence,
  `Order`: its hashes are all different, they are what `visited` holds, and they
  contain the children of everything taken. When the queue is empty that is closed
  under children, hence all that is below the root (`DoneHasAll`, by induction on
  the distance).
* `LevelOrderAlways`. `QueuedInOrder`: distances never fall along `Order`, its last is
  at most one level below the next cell to be taken, and the root's children are
  queued in one round. The key step is `NearerIsVisited`: whatever is no further from
  the root than the next cell has been queued, so that a round only adds
  hashes exactly one level below it.
* `BytesReadBackAlways`. An entry never changes and is its cell's (`EntriesFit`), so
  this is a fact about `ReprData`: the parts are of known lengths (`SplicedAre`,
  `EqualParts`), hence the hashes end the data where `ChildOffset` looks
  (`OffsetsAre`); masks are subsets of three levels (`MasksAre`), so that the first
  descriptor splits into mask and references (`MaskBitsAre`); and no child has a
  level above the one its parent asks for, so that each hash there is the child's
  representation hash (`ChildHashIsRepr`).
* `TwoEntriesFitAlways`. Two entries and an empty queue mean that the second hash is
  some entry's child, not its own, so the root's; the root's only one, since no cell
  is in itself; and without children, since nothing refers back to the root.
* The proof showed that `ByRefs` loses the reference of a Merkle cell where `MaxRefs` is 0;
  `CellsAssumption` now excludes it.

**`DexFixture_proofs`** (any windows, layers, depth of events trees, number of edits).
* The invariant `FixtureInv`: the fixture has the `Shape` of exported ones, its
  depths above all; it is honest as long as nobody edited it; and what was checked
  and proved is what the check and the circuit give for it.
* `ProofProvesInclusionAlways`: level by level from the published root down. The top
  link opens to a leaf of that layer's tree (`FirstRootIsSound`), each link to a root of
  the layer below (`LinkIsSound`, `ChainIsSound`), the last to a block's entry
  (`BlockIsSound`); leaves, roots and padding are told apart by their kind.
* `HonestFixtureProvesAlways`: what `Export` and `Synthetic` compute is `Chained`, each
  proof leading to the next leaf, and a chained fixture builds, satisfies the
  circuit and passes the check.
* `KeyFitsVoucherCells`: every fixture has the `Shape`, whose depths are all `D`, so
  of a circuit's shape only the entries differ (`CircuitShapeIs`), and they are
  equal exactly if the lengths and references are.
* `CheckedLinksNeverPanicAlways`, `LayerOneCheckSufficesAlways`.
* `ShapeAssumption` bounds the top layer by `MaxChainLen + 1`, as
  `MAX_ANCHOR_LAYER` does (`prover/src/lib.rs:40`); without it an export has more
  links than the circuit.

**`ProverCache_proofs`** (any shapes and faults).
* `CacheTypeCorrect`, for any number of provers.
* `ProofsAlwaysVerify`, for any number of provers under `SharedAssumption` (the
  Hermez constructors, with or without a directory, and one shape). Its invariant `CleanInv` says that, as
  long as no two processes filled one file at a time, each file is absent, torn or
  right, and each process holds only right values.
* `CachedKeysMatch` and `TornKeysAreSeen` under `OneAtATime` (one prover at a
  time). `MatchInv` relates the files to where the process is in keygen: it
  starts only while a file is missing or was unreadable, and it replaces the
  proving key before the break points, so that a crash between the two leaves
  a pair that will not load, or one that belongs together.

**`KeyTool_proofs`** (any number of tools and faults, any size of the ptau file,
anything a mirror may serve).
* `KeysAlwaysFromCeremony`. `KeysInv` adds that a tool which writes has read the
  ceremony's file (what it has read is its own, and the cache may change under
  it), or is the legacy tool and writes that one's files.
* `RightSizeIsAlwaysComplete`. `FileInv` says that, until two tools fill the file at
  a time, the one that fills it has put there what it was served so far, and a
  file nobody fills is the beginning of something that was served.
* `FilesAlwaysAgree`. `AgreeInv` says that, until two tools write at a time, the files
  a tool has passed in its list hold what it would write now; a file that is twice in
  the list gets the same again.

**Only model-checked**: liveness (`ExportEnds`, `EventClaimed`, `RetriesSucceed`,
`RerunsSucceed`), since fairness and ENABLED are beyond the proof system. `Shape`
quantifies over all sequences, so `FixtureInv` is proved only; TLC checks the properties it gives.

## 5. What is not modelled

* Command lines, logging, formats of layers and durations, hex and JSON: they do
  not change what happens.
* Poseidon, SHA-256, the packing of bytes into field elements, the range checks
  and lookups of the circuit: arithmetic over a 254-bit field.
* The download of the ptau file inside `new_with_hermez`: the same steps as the key
  tool's, which `KeyTool` models; in `ProverCache` the constructor has the
  ceremony's SRS or fails. A `--k` at which the circuit does not fit ends the
  Hermez tool in keygen, before it writes anything.
* How the user's own choices go wrong: an output path that is another run's, a prover
  started while an exporter still writes (it reads what was there before, what is
  there after, or half a file), a fixture edited by hand (`DexFixture`).
* One claim per event: the contract's bookkeeping is not in the repository.
* The event reader, the circuit helpers and sk-commit: no state, nothing to explore.

## 6. Plan

Written so far, in the order of importance: the arithmetic and the cursor, the
exporter, its promise and its advice, the trees, the fixture and the circuit's
statement with the synthetic fixtures, the cache, the cells of an event, the key
tools, and the pipeline that composes them; and the proofs of section 4. What is left are
the components that section 5 and `PROJECT.json` list as not
modelled or modelled in part, chiefly the circuit's helpers.
