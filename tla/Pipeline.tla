------------------------------- MODULE Pipeline -------------------------------
(***************************************************************************)
(* From an event to an accepted proof: exporter, prover and contract, and  *)
(* the person or program that runs them one after the other, against one   *)
(* growing chain.                                                          *)
(*                                                                         *)
(* The exporter writes the fixture over the one of an earlier run; a run   *)
(* that fails leaves that one in place, and a run that is killed may leave *)
(* half a file.  The prover reads what is there, and its proof carries the *)
(* layer and the heights the fixture states.  While it computes, and until *)
(* the proof is submitted, the chain goes on.  A contract takes the proof  *)
(* only if the chain holds its root at that moment; if it does not, or if  *)
(* a tool refused, the exporter is run again as it advised.                *)
(*                                                                         *)
(* The tools run in turn: a prover that reads the file while an exporter   *)
(* runs gets what it would have got before or after, or half a file.       *)
(* Whether a whole fixture that was not edited proves is DexFixture's      *)
(* subject (HonestFixtureProves); here it does.                            *)
(***************************************************************************)
EXTENDS AnchorExporter

CONSTANT Torn    \* what a file holds whose writer was killed

VARIABLES
  stage,    \* "export", "prove", "claim", "refused" or "claimed"
  fixture,  \* the output file, kept from run to run: None, Torn or contents
  proof     \* what the last proof was made from, or None

pipelineVars == <<vars, stage, fixture, proof>>

-----------------------------------------------------------------------------
\* Deliberate faults.

\* Records the height at which the next layer's root is published.
Contents_Early ==
  [ event |-> req.block.height, leaf |-> EventLeaf, position |-> leafPos, chain |-> rungs,
    root |-> rootCursor, layer |-> layer, anchor |-> anchor, expires |-> AnchorHeight(layer + 1) ]

\* Takes any root.
Accepts_Any(n, root) == TRUE

-----------------------------------------------------------------------------
(* The fixture of a run that has come to write it. *)
Contents ==
  [ event |-> req.block.height, leaf |-> EventLeaf, position |-> leafPos, chain |-> rungs,
    root |-> rootCursor, layer |-> layer, anchor |-> anchor, expires |-> ExpiryHeight(layer) ]

(* The file after a step of the run. *)
FileAfter ==
  IF file' = file THEN fixture ELSE IF file' = "torn" THEN Torn ELSE Contents

(* What the prover's own --anchor-layer may be: absent, or the layer asked *)
(* of the exporter.                                                        *)
ExpectedLayers == IF req.layer = AutoMode THEN {None} ELSE {None, req.layer}

(* gosh.check_layer_hash *)
Accepts(n, root) == Held(n, root)

(* The layer the exporter advised. *)
NextLayer == advice.layer

-----------------------------------------------------------------------------
PipelineInit == Init /\ stage = "export" /\ fixture = None /\ proof = None

(* The chain grows at every stage. *)
ChainGrows == Grow /\ UNCHANGED <<stage, fixture, proof>>

ExporterRuns ==
  /\ stage = "export" /\ ExporterStep
  /\ fixture' = FileAfter
  /\ UNCHANGED <<stage, proof>>

(* Time passes, a query fails, or the exporter is killed. *)
ExporterSuffers ==
  /\ stage = "export" /\ (Elapse \/ Fault \/ Crash)
  /\ UNCHANGED <<stage, fixture, proof>>

(* The prover is started on whatever the file is, also after a failed run. *)
Proceed ==
  /\ stage = "export" /\ pc \in Final /\ fixture # None
  /\ stage' = "prove"
  /\ UNCHANGED <<vars, fixture, proof>>

(* Half a file does not parse; a fixture of another layer than expected is *)
(* refused.                                                                *)
Prove ==
  /\ stage = "prove"
  /\ \E expected \in ExpectedLayers :
       IF fixture # Torn /\ (expected = None \/ fixture.layer = expected)
       THEN proof' = fixture /\ stage' = "claim"
       ELSE UNCHANGED proof /\ stage' = "refused"
  /\ UNCHANGED <<vars, fixture>>

(* RootPN checks the root against the chain. *)
Claim ==
  /\ stage = "claim"
  /\ stage' = IF Accepts(proof.layer, proof.root) THEN "claimed" ELSE "refused"
  /\ UNCHANGED <<vars, fixture, proof>>

(* Whether the exporter is run again at the layer it advised: it must be   *)
(* when the root was found expired, it need not be when a run failed or a  *)
(* claim was refused, and a whole fixture is only given up for that layer. *)
NextLayers ==
  IF advice = None THEN {req.layer}
  ELSE IF reason = "expired" \/ (stage = "export" /\ pc = "written") THEN {NextLayer}
  ELSE {req.layer, NextLayer}

Rerun ==
  /\ \/ stage = "refused"
     \/ stage = "export" /\ (pc \in {"failed", "crashed"} \/ (pc = "written" /\ advice # None))
  /\ \E n \in NextLayers : req' = [req EXCEPT !.layer = n, !.maxLayers = None]
  /\ stage' = "export" /\ pc' = "idle" /\ reason' = "none"
  /\ layer' = 1 /\ anchor' = None /\ clock' = 0 /\ spent' = 0
  /\ rootCursor' = ZeroHash /\ leafPos' = 0 /\ rungs' = <<>> /\ file' = "untouched"
  /\ advice' = None /\ startHead' = 0 /\ heldAtCheck' = FALSE /\ dueAt' = None
  /\ UNCHANGED <<chainVars, lies, faults, fixture, proof>>

ToolsRun == ExporterRuns \/ Proceed \/ Prove \/ Claim \/ Rerun

PipelineNext == ChainGrows \/ ToolsRun \/ ExporterSuffers

PipelineSpec == PipelineInit /\ [][PipelineNext]_pipelineVars

(* The node answers, and whoever runs the tools goes on until the claim is *)
(* accepted: both are assumptions about the program's surroundings.  The   *)
(* chain may stop at any height.                                           *)
FairPipeline == PipelineSpec /\ WF_pipelineVars(ToolsRun)

-----------------------------------------------------------------------------
(* What a fixture says is so on the chain: its leaf is where it says in    *)
(* the layer-1 tree the chain published over the event, each rung's leaf   *)
(* is where it says in the tree above, and the last root is the anchor's.  *)
Proves(f) ==
  LET T(n) == AnchorBlockHeight(f.event, n) IN
  /\ f.anchor = T(f.layer) /\ f.root = Root(f.layer, f.anchor)
  /\ Len(f.chain) = f.layer - 1
  /\ f.leaf = BlockLeaf(f.event)
  /\ tree[<<1, T(1)>>][f.position + 1] = f.leaf
  /\ \A i \in 1 .. Len(f.chain) :
       /\ f.chain[i].leaf = Root(i, T(i))
       /\ tree[<<i + 1, T(i + 1)>>][f.chain[i].position + 1] = f.chain[i].leaf

IsFixture(f) == f \notin {None, Torn}

(* A written fixture whose anchor root the node reported truthfully proves *)
(* the event's block, whatever else the node misreported; no block of      *)
(* another thread gets into a fixture.                                     *)
FixtureProvesEvent ==
  IsFixture(fixture) /\ ~Lying(fixture.layer, fixture.anchor, FALSE) => Proves(fixture)

(* A proof the contract takes proves the event, whatever the node          *)
(* misreported, however consistently, and whichever run the file was of:   *)
(* what the exporter could not notice, the chain does.                     *)
AcceptedProvesEvent == stage = "claimed" => Proves(proof)

(* anchor_expires_at_height, as the proof passes it on, is the first       *)
(* height at which the chain no longer accepts the proof: until then it is *)
(* accepted at every height, from then on at none.                         *)
ClaimableUntilExpiry ==
  proof # None /\ ~Lying(proof.layer, proof.anchor, FALSE) =>
    (Accepts(proof.layer, proof.root) <=> (proof.expires = None \/ head < proof.expires))

Honest ==
  /\ lies = {} /\ req.source # "none" /\ req.block.own /\ req.block.rootOk
  /\ req.block.tracks = "event" /\ ~req.allowExpired

(* The request can be met: its layer's root over the event is published.   *)
Due ==
  LET n == IF req.layer = AutoMode THEN 1 ELSE req.layer IN
  /\ ValidLayer(n) /\ req.maxLayers = None
  /\ AnchorHeight(n) # None /\ AnchorHeight(n) <= head

(* Once the root asked for is published, following the exporter's advice   *)
(* ends in an accepted claim: roots that expire between the steps, files   *)
(* of killed runs and lost queries cost further runs, but there is always  *)
(* a layer left to go on with.                                             *)
EventClaimed == (Honest /\ Due) ~> (stage = "claimed")

=============================================================================
