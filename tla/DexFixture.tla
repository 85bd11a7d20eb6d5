----------------------------- MODULE DexFixture -----------------------------
(***************************************************************************)
(* A fixture on its way from the exporter to a proof: what the prover      *)
(* parses and computes from it, what fixture_anchor_from_json checks       *)
(* (halo2-proover/src/lib.rs) and what the circuit constrains              *)
(* (dex-halo2-circuit/src/dark_dex_circuit_new.rs).                        *)
(*                                                                         *)
(* The chain is a table of the messages each block tracks and its layer    *)
(* roots are symbolic hashes.  An event stands for its BOC: how many cells *)
(* it flattens to, how often the first of them refers to another, how many *)
(* bytes represent the first and the second of them, and the secret key    *)
(* its sk_u_commit commits to (None if the bytes are no field element).  A *)
(* block id and its envelope hash are the block.                           *)
(*                                                                         *)
(* Besides exported fixtures there are synthetic ones                      *)
(* (dex-halo2-circuit/src/keygen.rs), from which the keys are made: the    *)
(* hashed leaf is the first of every tree and the other leaves are random. *)
(***************************************************************************)
EXTENDS DenseMerkle, FiniteSets

CONSTANTS
  Window,          \* HISTORY_PROOF_WINDOW_SIZE
  TopLayer,        \* the highest layer fixtures are exported at
  MaxChainLen,     \* MAX_CHAIN_LEN
  MaxEventsDepth,  \* MAX_EVENTS_TREE_DEPTH
  Tracks,          \* block -> its tracked messages, as [account, event]
  Keys,            \* secret keys
  Voucher,         \* the first event of vouchers.txt
  SynthBlock,      \* the block of synthetic fixtures: random, none of the chain's
  MaxEdits,        \* how often a fixture is changed before it is used
  None

EventType ==
  [id : Nat, cells : Nat \ {0}, refs : Nat, rootLen : Nat, childLen : Nat, key : Keys \cup {None}]

SHA256_SIZE == 32

(* The last field that is read of the second cell ends here. *)
EVENT_TOKEN_TYPE_END == 74

ASSUME ShapeAssumption ==
  /\ Window \in Nat /\ Window > 1
  /\ MaxChainLen \in Nat /\ MaxEventsDepth \in Nat /\ MaxEdits \in Nat
  /\ TopLayer \in 1 .. MaxChainLen + 1
ASSUME TracksAssumption ==
  /\ Voucher \in EventType
  /\ None \notin Keys
  /\ SynthBlock \in Nat \ DOMAIN Tracks
  /\ \A b \in DOMAIN Tracks : b \in Nat /\ Tracks[b] \in Seq([account : Nat, event : EventType])

VARIABLES
  fixture,    \* the fixture file
  edits,      \* how often it was changed since the export
  expected,   \* the layer the caller requires, or None
  checked,    \* whether it went through fixture_anchor_from_json
  outcome     \* what became of it

vars == <<fixture, edits, expected, checked, outcome>>

-----------------------------------------------------------------------------
\* The chain.

MessageLeaf(account, event) == <<"msg", account, event>>
BlockLeaf(b, extOutRoot)    == <<"block", b, extOutRoot>>
HeaderLeaf(n, k, which)     == <<"header", n, k, which>>

MessageLeaves(b) ==
  [i \in DOMAIN Tracks[b] |-> MessageLeaf(Tracks[b][i].account, Tracks[b][i].event)]

LeafOf(b) ==
  BlockLeaf(b, IF b \in DOMAIN Tracks THEN DenseRoot(MessageLeaves(b)) ELSE Zero)

WindowTo[n \in Nat] == IF n = 0 THEN 1 ELSE Window * WindowTo[n - 1]

(* The leaves of tree k of layer n + 1, from the hashes one layer below. *)
LeavesOver(n, k, below) ==
  <<HeaderLeaf(n, k, 1), HeaderLeaf(n, k, 2)>> \o [i \in 1 .. Window |-> below[k * Window + i - 1]]

LayerRoot[n \in Nat] ==
  [k \in Nat |-> IF n = 0 THEN LeafOf(k)
                 ELSE DenseRoot(LeavesOver(n, k, LayerRoot[n - 1]))]

LayerLeaves(n, k) == LeavesOver(n, k, LayerRoot[n - 1])

(* The tree of layer n over a block, and where the hash below is in it. *)
TreeOver(b, n) == b \div WindowTo[n]
PosIn(b, n)    == 2 + ((b \div WindowTo[n - 1]) % Window)

-----------------------------------------------------------------------------
\* The fixture as exported.

Proof(leaves, pos) == [siblings |-> DenseProof(leaves, pos), position |-> pos]

Link(b, n) ==
  [ active   |-> TRUE,
    leaf     |-> LayerRoot[n - 1][TreeOver(b, n - 1)],
    proof    |-> Proof(LayerLeaves(n, TreeOver(b, n)), PosIn(b, n)) ]

Export(b, i, n) ==
  [ sk          |-> Tracks[b][i].event.key,
    event       |-> Tracks[b][i].event,
    account     |-> Tracks[b][i].account,
    eventsProof |-> Proof(MessageLeaves(b), i - 1),
    block       |-> b,
    blockProof  |-> Proof(LayerLeaves(1, TreeOver(b, 1)), PosIn(b, 1)),
    steps       |-> n - 1,
    chain       |-> [j \in 1 .. n - 1 |-> Link(b, j + 1)],
    declaredLayer |-> n,
    declaredRoot  |-> LayerRoot[n][TreeOver(b, n)] ]

Exports ==
  UNION {{Export(b, i, n) : i \in DOMAIN Tracks[b], n \in 1 .. TopLayer} : b \in DOMAIN Tracks}

-----------------------------------------------------------------------------
\* Synthetic fixtures.

RandomLeaves(tree, count) == [i \in 1 .. count |-> <<"random", tree, i>>]

(* The account is random too, and so is its dApp: 0 is none of the chain's.*)
SynthAccount == 0

(* build_two_level_tree, with the block tree as tree 0 and the events tree *)
(* as the one after the trees of the chain.                                *)
SynthMessages ==
  <<MessageLeaf(SynthAccount, Voucher)>> \o RandomLeaves(MaxChainLen + 1, Window - 1)

(* build_dense_chain: the root of one tree is the first leaf of the next;  *)
(* tree 0 is the block tree.                                               *)
SynthLeaves[t \in Nat] ==
  <<IF t = 0 THEN BlockLeaf(SynthBlock, DenseRoot(SynthMessages)) ELSE DenseRoot(SynthLeaves[t - 1])>>
    \o RandomLeaves(t, Window + 1)

Synthetic(len) ==
  [ sk          |-> Voucher.key,
    event       |-> Voucher,
    account     |-> SynthAccount,
    eventsProof |-> Proof(SynthMessages, 0),
    block       |-> SynthBlock,
    blockProof  |-> Proof(SynthLeaves[0], 0),
    steps       |-> len,
    chain       |-> [t \in 1 .. len |->
                      [active |-> TRUE, leaf |-> SynthLeaves[t][1],
                       proof |-> Proof(SynthLeaves[t], 0)]],
    declaredLayer |-> None,
    declaredRoot  |-> None ]

-----------------------------------------------------------------------------
\* Deliberate faults.

\* Compares the step count with all active links, wherever they are.
LinksMatch_Total(f) ==
  f.steps <= MaxChainLen /\ f.steps = Cardinality({i \in DOMAIN f.chain : f.chain[i].active})

\* Leaves the declared root unchecked.
RootMatches_Always(f) == TRUE

\* Drops the last link of the longest chain.
LastLink_OneShort(f) == IF f.steps < MaxChainLen THEN f.steps ELSE MaxChainLen - 1

\* Pads to the depth of the events tree.
PadDepth_Events(f) == Len(f.eventsProof.siblings)

\* Does not link the rungs.
ChainLinked_Loose(f) == TRUE

-----------------------------------------------------------------------------
\* parse_fixture and compute_instances.

ExtOutRoot(f) ==
  RootFrom(MessageLeaf(f.account, f.event), f.eventsProof.position, f.eventsProof.siblings)

FirstRoot(f) ==
  RootFrom(BlockLeaf(f.block, ExtOutRoot(f)), f.blockProof.position, f.blockProof.siblings)

(* A link's root is folded from the leaf the link itself carries. *)
LinkRoot(link) == RootFrom(link.leaf, link.proof.position, link.proof.siblings)

(* The chain, padded with inactive links. *)
ActiveAt(f, i) == i \in DOMAIN f.chain /\ f.chain[i].active

Parses(f) == f.event.cells = 2 /\ Len(f.chain) <= MaxChainLen

(* The loop over the first `steps' links of the padded chain asserts that  *)
(* each is active; the fields are slices of the second cell, and           *)
(* sk_u_commit is unwrapped.                                               *)
Panics(f) ==
  \/ f.event.childLen < EVENT_TOKEN_TYPE_END \/ f.event.key = None
  \/ \E i \in 1 .. MaxChainLen : i <= f.steps /\ ~ActiveAt(f, i)

LastLink(f) == IF f.steps <= MaxChainLen THEN f.steps ELSE MaxChainLen

(* Public input 1, where compute_instances does not panic. *)
FinalRoot(f) ==
  IF LastLink(f) = 0 THEN FirstRoot(f) ELSE LinkRoot(f.chain[LastLink(f)])

-----------------------------------------------------------------------------
\* fixture_anchor_from_json.

ActivePrefix(f) ==
  CHOOSE n \in 0 .. Len(f.chain) :
    (\A i \in 1 .. n : f.chain[i].active) /\ ~ActiveAt(f, n + 1)

(* The active links are the first `steps', and only these. *)
LinksMatch(f) ==
  /\ f.steps <= MaxChainLen
  /\ f.steps = ActivePrefix(f)
  /\ Cardinality({i \in DOMAIN f.chain : f.chain[i].active}) = ActivePrefix(f)

LayerMatches(f, layer) ==
  /\ layer # None => layer = f.steps + 1
  /\ f.declaredLayer # None => f.declaredLayer = f.steps + 1

RootMatches(f) == f.declaredRoot # None => f.declaredRoot = FinalRoot(f)

Verdict(f, layer) ==
  IF ~LinksMatch(f) \/ ~LayerMatches(f, layer) \/ ~Parses(f) THEN "refused"
  ELSE IF Panics(f) THEN "panic"
  ELSE IF ~RootMatches(f) THEN "refused" ELSE "accepted"

-----------------------------------------------------------------------------
\* The circuit.

(* The asserts of DarkDexCircuitNew::new. *)
Builds(f) == Len(f.eventsProof.siblings) <= MaxEventsDepth /\ f.steps <= MaxChainLen

(* The siblings of the events proof are padded, so that its depth does not *)
(* show; only the levels it has are folded, none leaving the leaf as it is.*)
PaddedSiblings(f) ==
  f.eventsProof.siblings
    \o [i \in 1 .. MaxEventsDepth - Len(f.eventsProof.siblings) |-> Zero]

CircuitEventsRoot(f) ==
  RootFrom(MessageLeaf(f.account, f.event), f.eventsProof.position,
           SubSeq(PaddedSiblings(f), 1, Len(f.eventsProof.siblings)))

(* root_1, the history window root. *)
CircuitRoot(f) ==
  RootFrom(BlockLeaf(f.block, CircuitEventsRoot(f)), f.blockProof.position, f.blockProof.siblings)

(* verify_chain_of_dense_proofs: the leaf of each of the first num_active  *)
(* links is the root before it.                                            *)
ChainLinked(f) ==
  \A i \in 1 .. f.steps :
    f.chain[i].leaf = IF i = 1 THEN CircuitRoot(f) ELSE LinkRoot(f.chain[i - 1])

(* The witness is that of a key with the commitment in the event.          *)
KeyCommitted(f) == f.event.key = f.sk

(* The descriptors: one reference in the first cell, which is the second,  *)
(* and none in the second.                                                 *)
DescriptorsFit(f) == f.event.cells = 2 /\ f.event.refs = 1

(* Public input 1 of the circuit is what compute_instances says.           *)
CircuitFinalRoot(f) == IF f.steps = 0 THEN CircuitRoot(f) ELSE LinkRoot(f.chain[f.steps])

InstancesAgree(f) == CircuitFinalRoot(f) = FinalRoot(f)

Satisfied(f) == DescriptorsFit(f) /\ KeyCommitted(f) /\ ChainLinked(f) /\ InstancesAgree(f)

PadDepth(f) ==
  IF f.chain # <<>> THEN Len(f.chain[1].proof.siblings) ELSE Len(f.blockProof.siblings)

(* Where the hash of each child is in the first cell's bytes: at the end.  *)
ChildOffsets(e) == [i \in 1 .. e.refs |-> e.rootLen - (e.refs - i + 1) * SHA256_SIZE]

(* Of the two cells of an event, the circuit has as many bytes as these,   *)
(* and looks for the child's hash at the first offset; the second cell,    *)
(* being the last, has no references.                                      *)
EntriesShape(e) ==
  [refs |-> e.refs, offsets |-> ChildOffsets(e), rootLen |-> e.rootLen, childLen |-> e.childLen]

(* What without_witnesses keeps of a fixture: a key is made for this.      *)
CircuitShape(f) ==
  [ entries |-> EntriesShape(f.event),
    block   |-> Len(f.blockProof.siblings),
    links   |-> [i \in 1 .. MaxChainLen |->
                IF i \in DOMAIN f.chain THEN Len(f.chain[i].proof.siblings) ELSE PadDepth(f)] ]

(* generate_proof, with a key for the fixture's own shape: from an         *)
(* unsatisfied circuit comes no proof that verifies.                       *)
Generated(f) ==
  IF ~Parses(f) THEN "refused"
  ELSE IF Panics(f) \/ ~Builds(f) THEN "panic"
  ELSE IF Satisfied(f) THEN "proof" ELSE "useless"

-----------------------------------------------------------------------------
(* A fixture is exported, or one of the older ones that declare nothing,   *)
(* or synthetic.                                                           *)
Init ==
  /\ fixture \in Exports
       \cup {[f EXCEPT !.declaredLayer = None, !.declaredRoot = None] : f \in Exports}
       \cup {Synthetic(len) : len \in 0 .. MaxChainLen}
  /\ edits = 0 /\ expected = None /\ checked = FALSE /\ outcome = "open"

(* Consumers may build or change fixtures: parts of two exports are mixed, *)
(* the step count or a link's flag is changed, unused links are added, the *)
(* key is another one.                                                     *)
Mixed(f, g) ==
  { [f EXCEPT !.event = g.event, !.sk = g.sk],
    [f EXCEPT !.account = g.account, !.eventsProof = g.eventsProof],
    [f EXCEPT !.block = g.block, !.blockProof = g.blockProof],
    [f EXCEPT !.steps = g.steps, !.chain = g.chain] }

Changed(f) ==
  {[f EXCEPT !.steps = s] : s \in 0 .. MaxChainLen + 1}
    \cup {[f EXCEPT !.chain[i].active = ~@] : i \in DOMAIN f.chain}
    \cup {[f EXCEPT !.chain = Append(@, [active |-> FALSE, leaf |-> FinalRoot(f),
                                         proof |-> f.blockProof])] :
            x \in {y \in {0} : f.steps = Len(f.chain)}}
    \cup {[f EXCEPT !.sk = k] : k \in Keys}

Edit ==
  /\ outcome = "open" /\ edits < MaxEdits
  /\ edits' = edits + 1
  /\ fixture' \in (Changed(fixture) \cup UNION {Mixed(fixture, g) : g \in Exports}) \ {fixture}
  /\ UNCHANGED <<expected, checked, outcome>>

(* The check alone, before the SRS download and the keygen of main. *)
Check(layer) ==
  /\ outcome = "open"
  /\ expected' = layer /\ checked' = TRUE /\ outcome' = Verdict(fixture, layer)
  /\ UNCHANGED <<fixture, edits>>

(* generate_proof_anchored: the check is made again. *)
Prove ==
  /\ outcome = "accepted"
  /\ outcome' = IF Verdict(fixture, expected) = "accepted" THEN Generated(fixture)
                ELSE Verdict(fixture, expected)
  /\ UNCHANGED <<fixture, edits, expected, checked>>

(* generate_proof, called directly. *)
ProveUnchecked ==
  /\ outcome = "open"
  /\ outcome' = Generated(fixture)
  /\ UNCHANGED <<fixture, edits, expected, checked>>

Next == Edit \/ (\E n \in {None} \cup 1 .. MaxChainLen + 1 : Check(n)) \/ Prove \/ ProveUnchecked

Spec == Init /\ [][Next]_vars

-----------------------------------------------------------------------------
Trees(n) == {TreeOver(b, n) : b \in DOMAIN Tracks}

Published(n, k) == FinalRoot(fixture) = LayerRoot[n][k]

Included(n, k) ==
  \E b \in DOMAIN Tracks :
    /\ TreeOver(b, n) = k /\ fixture.block = b
    /\ \E i \in DOMAIN Tracks[b] :
         Tracks[b][i] = [account |-> fixture.account, event |-> fixture.event]

IsVoucher(e) ==
  e.cells = 2 /\ e.refs = 1 /\ e.childLen >= EVENT_TOKEN_TYPE_END /\ e.key # None

(* A fixture as the exporter or the synthesis writes it, for a voucher     *)
(* event in a block that does not track more messages than the circuit has *)
(* levels for, is accepted for its own layer and proves, at every layer,   *)
(* and the root it exposes is the one the chain published, if it is of the *)
(* chain: exporter, check, native computation and circuit agree on every   *)
(* position and every leaf.                                                *)
HonestFixtureProves ==
  /\ edits = 0 /\ IsVoucher(fixture.event)
  /\ Len(fixture.eventsProof.siblings) <= MaxEventsDepth
  /\ expected \in {None, fixture.steps + 1}
  => /\ outcome \in {"open", "accepted", "proof"}
     /\ fixture.block # SynthBlock =>
          Published(fixture.steps + 1, TreeOver(fixture.block, fixture.steps + 1))

(* A key made from the synthetic fixture of one link fits, of the fixtures *)
(* that parse, those whose event has the cells of that fixture's voucher   *)
(* (as many bytes and references), and no others: the layer, the number of *)
(* messages in the block, and any mixing, editing or adding of links leave *)
(* the circuit's shape as it is.                                           *)
KeygenShapeFits ==
  Parses(fixture) =>
    (CircuitShape(fixture) = CircuitShape(Synthetic(1))
      <=> /\ fixture.event.refs = Voucher.refs
          /\ fixture.event.rootLen = Voucher.rootLen
          /\ fixture.event.childLen = Voucher.childLen)

(* After the check the assertion on active links cannot fire: what is left *)
(* to panic is the event itself, and an events tree that is too deep.      *)
CheckedLinksNeverPanic ==
  checked /\ outcome = "panic" =>
    \/ fixture.event.childLen < EVENT_TOKEN_TYPE_END \/ fixture.event.key = None
    \/ Len(fixture.eventsProof.siblings) > MaxEventsDepth

(* A proof that verifies against a root the chain published proves that    *)
(* the account sent that event in that block under that root, that the     *)
(* root's layer is one above the number of steps, and that the prover has  *)
(* the key of that voucher, however the fixture was put together and whether or    *)
(* not it was checked.                                                     *)
ProofProvesInclusion ==
  outcome = "proof" =>
    \A n \in 1 .. TopLayer : \A k \in Trees(n) :
      Published(n, k) =>
        n = fixture.steps + 1 /\ Included(n, k)
          /\ IsVoucher(fixture.event) /\ fixture.sk = fixture.event.key

(* At layer 1 the check alone tells whether the event is under the         *)
(* declared root.                                                          *)
LayerOneCheckSuffices ==
  outcome = "accepted" /\ fixture.steps = 0 /\ fixture.declaredRoot # None =>
    \E k \in Trees(1) : Published(1, k) /\ Included(1, k)

=============================================================================
