--------------------------- MODULE AnchorExporter ---------------------------
(***************************************************************************)
(* One run of the exporter (make_private_witness_with_anchor) against a    *)
(* node whose chain keeps growing.  Every await on a query is a point      *)
(* where the chain can grow, so each query is an action of its own, except *)
(* the queries that collect one tree's data: the blocks they read are      *)
(* immutable, so reading them one by one or at once makes no difference.   *)
(***************************************************************************)
EXTENDS HistoryCursor

CONSTANTS
  Requests,     \* the requests an export may be started with
  LieSets,      \* what a node may misreport: sets of [height, layer, absent]
  MaxFaults,    \* how many queries, or file operations, may fail in a run
  QueryTime     \* the longest that the queries of one turn of the wait take

(* wait = [timeout, poll]; block = what the node answers for the event's   *)
(* block: `own' if it is the thread-0 block of that height, what messages  *)
(* it tracks, and whether they hash to the root it states.                 *)
RequestType ==
  [ source       : {"height", "id", "none"},
    block        : [height : Nat, own : BOOLEAN, rootOk : BOOLEAN,
                    tracks : {"nothing", "others", "event"}],
    layer        : Nat \cup {AutoMode},
    maxLayers    : Nat \cup {None},
    wait         : [timeout : Nat, poll : Nat \ {0}] \cup {None},
    allowExpired : BOOLEAN ]

ASSUME RequestsAssumption ==
  /\ Requests \subseteq RequestType
  /\ \A r \in Requests : r.source = "height" => r.block.own

\* No layer above the highest has a height: 128^13 is beyond u64.
ASSUME WidthAssumption == Pow[MaxAnchorLayer + 1] > U64Max
(* What a run tells its caller: the next layer, and for how many blocks,   *)
(* counted from which one, the root found is still accepted.               *)
Advices == [layer : Nat, left : Nat \cup {None}, since : Nat \cup {None}]

ASSUME AdviceAssumption == None \notin Advices
ASSUME FaultsAssumption == MaxFaults \in Nat /\ QueryTime \in Nat

VARIABLES
  req,        \* this run's request
  lies,       \* the roots this node misreports
  pc,         \* where the run is
  reason,     \* why it failed
  faults,     \* faults left
  layer,      \* the layer being resolved, then the resolved one
  anchor,     \* height of the anchor block found, or None
  clock,      \* time since the wait began (counted only when waiting is on)
  spent,      \* time the queries of this turn of the wait have taken
  rootCursor, \* the last root rebuilt
  leafPos,    \* position of the event's block in its layer-1 tree
  rungs,      \* the dense chain
  file,       \* the output file
  advice,     \* what the run last told its caller to do next, or None
  \* history variables, read by the properties only
  startHead,  \* head when the run began
  heldAtCheck,\* whether the chain accepted the anchor root at the expiry check
  dueAt       \* the clock when the awaited block was produced, or None

runVars  == <<pc, reason, faults, layer, anchor, clock, spent, rootCursor, leafPos, rungs,
              file, advice, startHead, heldAtCheck, dueAt>>
vars     == <<chainVars, req, lies, runVars>>

Final     == {"written", "failed", "crashed"}
Waiting   == {"poll", "sleep", "head"}
Committed == {"advise", "gauge", "leaves", "rung", "compare", "writing", "written"}


(* A misreport is what the tree rebuilt over other leaves hashes to, so a  *)
(* node can misreport a leaf and every root above it consistently.         *)
Lie(n, height)      == <<"other", n, height>>
EventLeaf           == IF req.block.own THEN BlockLeaf(req.block.height)
                       ELSE <<"foreign", 0, req.block.height>>
AnchorHeight(n)     == AnchorBlockHeight(req.block.height, n)
ExpiryHeight(n)     == AnchorExpiryHeight(req.block.height, n)

Lying(n, h, absent) == [height |-> h, layer |-> n, absent |-> absent] \in lies

(* What the node answers: its chain's roots, except those it leaves out or *)
(* misreports.                                                             *)
Answers ==
  [h \in DOMAIN Report |->
     [n \in {m \in DOMAIN Report[h] : ~Lying(m, h, TRUE)} |->
        IF Lying(n, h, FALSE) THEN Lie(n, h) ELSE Report[h][n]]]

(* dense_merkle_root of some leaves: the published root if these are the   *)
(* leaves of the tree the chain published there, else some other hash.     *)
RebuiltRoot(n, height, leaves) ==
  IF <<n, height>> \in DOMAIN tree /\ leaves = tree[<<n, height>>]
  THEN Root(n, height) ELSE <<"other", n, height>>

(* The hashes a rebuilt tree can have. *)
Hashes == {"zero", "root", "other"} \X Nat \X (Nat \cup {None})

Goto(label)  == pc' = label /\ UNCHANGED reason
Fail(why)    == pc' = "failed" /\ reason' = why

-----------------------------------------------------------------------------
\* Deliberate faults.

\* Sleeps the whole poll interval, past the deadline.
Nap_Whole(wait, now) == wait.poll

\* Does not climb to the newest block.
CanClimb_Early(n, next, current, top) ==
  n < MaxAnchorLayer /\ next # None /\ (next = current \/ next < top)

\* Climbs without asking whether the block exists.
CanClimb_Blind(n, next, current, top) == n < MaxAnchorLayer /\ next # None

\* Gives up when another whole interval would pass the deadline.
TimeLeft_WholePoll(wait, now) == now + wait.poll <= wait.timeout

\* Never gives up.
TimeLeft_Always(wait, now) == TRUE

\* Tolerates the block at which the root is evicted.
Evicted_Late(expiry, top) == expiry # None /\ expiry < top

\* Takes the proof as valid.
Verifies_Always(leaves, pos, leaf) == TRUE

\* Only asks that the anchor block published some root.
MatchesNode_Presence(proofs) == layer \in DOMAIN proofs

\* Counts three header leaves.
LeafPosition_Shifted(h) == (h % W) + 3

\* Counts from the block that published the root.
BlocksLeft_FromAnchor(expiry, top) == expiry - anchor

\* Offers a layer beyond the next one.
Hint_Skips(n, next) ==
  IF next # None /\ n < MaxAnchorLayer
  THEN [layer |-> n + 2, left |-> None, since |-> None] ELSE None

-----------------------------------------------------------------------------
(* The conditions of the code. *)

(* How long one wait sleeps: no longer than what is left of the timeout.   *)
Nap(wait, now) ==
  IF wait.poll <= wait.timeout - now THEN wait.poll ELSE wait.timeout - now

TimeLeft(wait, now) == now < wait.timeout

CanClimb(n, next, current, top) ==
  n < MaxAnchorLayer /\ next # None /\ (next = current \/ next <= top)

Evicted(expiry, top) == expiry # None /\ expiry <= top

(* Where a block's leaf is among the leaves of its layer-1 tree, whose     *)
(* first two leaves are header roots.                                      *)
LeafPosition(h) == (h % W) + 2

(* A dense proof of `leaf' at `pos' (from 0) in the tree over `leaves'.     *)
Verifies(leaves, pos, leaf) == pos < Len(leaves) /\ leaves[pos + 1] = leaf

(* The final check against the anchor block's own history_proofs. *)
MatchesNode(proofs) == layer \in DOMAIN proofs /\ proofs[layer] = rootCursor

(* An expired root's hint, where a layer is left, and the warning that a   *)
(* root will go: what the caller may try next, and how long this root      *)
(* stays, counted from which block.                                        *)
Hint(n, next) ==
  IF next # None /\ n < MaxAnchorLayer
  THEN [layer |-> n + 1, left |-> None, since |-> None] ELSE None

Warning(n, left, since) == [layer |-> n + 1, left |-> left, since |-> since]

(* saturating_sub *)
BlocksLeft(expiry, top) == IF top <= expiry THEN expiry - top ELSE 0

(* The run awaits the node's answer to a query; the block at hand is not   *)
(* asked for again.                                                        *)
Awaiting ==
  \/ pc \in {"block", "poll", "head", "advise", "gauge", "leaves", "rung"}
  \/ pc = "climb" /\ layer < MaxAnchorLayer /\ AnchorHeight(layer + 1) \notin {None, anchor}
  \/ pc = "expiry" /\ ExpiryHeight(layer) # None

(* Where a failure ends the run: the head is only asked for to be shown.   *)
Fallible == pc = "writing" \/ (Awaiting /\ pc \notin {"head", "gauge"})

-----------------------------------------------------------------------------
Init ==
  /\ ChainInit
  /\ req \in Requests /\ lies \in LieSets
  /\ pc = "idle" /\ reason = "none" /\ faults = MaxFaults
  /\ layer = 1 /\ anchor = None /\ clock = 0 /\ spent = 0
  /\ rootCursor = ZeroHash /\ leafPos = 0 /\ rungs = <<>> /\ file = "untouched"
  /\ advice = None /\ startHead = 0 /\ heldAtCheck = FALSE /\ dueAt = None

(* The chain grows, whatever the exporter is doing. *)
Grow ==
  /\ ProduceBlock
  /\ dueAt' = IF pc \in Waiting \cup {"failed"} /\ req.wait # None /\ head' = AnchorHeight(layer)
              THEN clock ELSE dueAt
  /\ UNCHANGED <<req, lies, pc, reason, faults, layer, anchor, clock, spent, rootCursor, leafPos,
                 rungs, file, startHead, heldAtCheck, advice>>

(* Validation of the request, before any query. *)
Start ==
  /\ pc = "idle"
  /\ startHead' = head
  /\ IF /\ req.layer # AutoMode => ValidLayer(req.layer)
        /\ req.maxLayers # None => FromMaxLayers(req.maxLayers) = req.layer
     THEN Goto("block") ELSE Fail("bad_request")
  /\ UNCHANGED <<chainVars, req, lies, faults, layer, anchor, clock, spent, rootCursor, leafPos,
                 rungs, file, heldAtCheck, dueAt, advice>>

(* The event's block, and the inclusion of the event in it. *)
QueryEventBlock ==
  /\ pc = "block"
  /\ LET first == IF req.layer = AutoMode THEN 1 ELSE req.layer IN
     /\ layer' = first
     /\ IF req.source = "none" THEN Fail("bad_request")
        ELSE IF req.block.own /\ req.block.height > head THEN Fail("no_block")
        ELSE IF req.block.tracks # "event" THEN Fail("no_event")
        ELSE IF ~req.block.rootOk THEN Fail("bad_root")
        ELSE IF AnchorHeight(first) = None THEN Fail("overflow")
        ELSE Goto("poll")
  /\ UNCHANGED <<chainVars, req, lies, faults, anchor, clock, spent, rootCursor, leafPos, rungs,
                 file, startHead, heldAtCheck, dueAt, advice>>

(* Time passes while the queries of a turn of the wait are answered.       *)
Elapse ==
  /\ pc \in {"poll", "head"} /\ req.wait # None /\ spent < QueryTime
  /\ clock' = clock + 1 /\ spent' = spent + 1
  /\ UNCHANGED <<chainVars, req, lies, pc, reason, faults, layer, anchor, rootCursor, leafPos,
                 rungs, file, startHead, heldAtCheck, dueAt, advice>>

(* wait_for_anchor_block: ask for block T_n. *)
Poll ==
  /\ pc = "poll"
  /\ IF AnchorHeight(layer) <= head
     THEN anchor' = AnchorHeight(layer) /\ Goto(IF req.layer = AutoMode THEN "climb" ELSE "expiry")
     ELSE UNCHANGED anchor /\ Goto("head")
  /\ UNCHANGED <<chainVars, req, lies, faults, layer, clock, spent, rootCursor, leafPos, rungs,
                 file, startHead, heldAtCheck, dueAt, advice>>

(* The head is asked for the message only; a failed answer is tolerated.   *)
ReadHead ==
  /\ pc = "head"
  /\ IF req.wait = None THEN Fail("not_produced")
     ELSE IF TimeLeft(req.wait, clock) THEN Goto("sleep") ELSE Fail("gave_up")
  /\ UNCHANGED <<chainVars, req, lies, faults, layer, anchor, clock, spent, rootCursor, leafPos,
                 rungs, file, startHead, heldAtCheck, dueAt, advice>>

Sleep ==
  /\ pc = "sleep"
  /\ clock' = clock + Nap(req.wait, clock) /\ spent' = 0
  /\ Goto("poll")
  /\ UNCHANGED <<chainVars, req, lies, faults, layer, anchor, rootCursor, leafPos, rungs,
                 file, startHead, heldAtCheck, dueAt, advice>>

(* auto: one turn of the loop that climbs while the next anchor exists; a  *)
(* block already at hand is not asked for again.                           *)
Climb ==
  /\ pc = "climb"
  /\ LET next == AnchorHeight(layer + 1) IN
     IF CanClimb(layer, next, anchor, head)
     THEN layer' = layer + 1 /\ anchor' = next /\ Goto("climb")
     ELSE UNCHANGED <<layer, anchor>> /\ Goto("expiry")
  /\ UNCHANGED <<chainVars, req, lies, faults, clock, spent, rootCursor, leafPos, rungs, file,
                 startHead, heldAtCheck, dueAt, advice>>

(* The expiry check.  If the root is gone the caller is told the layer     *)
(* that took over; if it is still held, the next layer's block is asked    *)
(* for (unless it is the anchor block), to warn if the root goes soon.     *)
CheckExpiry ==
  /\ pc = "expiry"
  /\ heldAtCheck' = Held(layer, Root(layer, anchor))
  /\ LET expiry == ExpiryHeight(layer)
         next   == AnchorHeight(layer + 1)
     IN  IF Evicted(expiry, head)
         THEN /\ advice' = Hint(layer, next)
              /\ IF req.allowExpired THEN Goto("leaves") ELSE Fail("expired")
         ELSE /\ UNCHANGED advice
              /\ Goto(IF None \in {expiry, next} THEN "leaves"
                      ELSE IF next = anchor THEN "gauge" ELSE "advise")
  /\ UNCHANGED <<chainVars, req, lies, faults, layer, anchor, clock, spent, rootCursor, leafPos,
                 rungs, file, startHead, dueAt>>

(* Whether the next layer's block exists: its query can fail the run.      *)
Advise ==
  /\ pc = "advise"
  /\ Goto(IF AnchorHeight(layer + 1) <= head THEN "gauge" ELSE "leaves")
  /\ UNCHANGED <<chainVars, req, lies, faults, layer, anchor, clock, spent, rootCursor, leafPos,
                 rungs, file, startHead, heldAtCheck, dueAt, advice>>

(* The warning says how many blocks are left, from the head or, if that    *)
(* query fails, at most, from the next layer's block.                      *)
Gauge ==
  /\ pc = "gauge"
  /\ \/ advice' = Warning(layer, BlocksLeft(ExpiryHeight(layer), head), head)
     \/ LET next == AnchorHeight(layer + 1) IN
        advice' = Warning(layer, ExpiryHeight(layer) - next, next)
  /\ Goto("leaves")
  /\ UNCHANGED <<chainVars, req, lies, faults, layer, anchor, clock, spent, rootCursor, leafPos,
                 rungs, file, startHead, heldAtCheck, dueAt>>

(* The layer-1 tree, and the proof of the event's block in it. *)
CollectLeaves ==
  /\ pc = "leaves"
  /\ LET leaves == Layer0Leaves(Answers, req.block.height)
         pos    == LeafPosition(req.block.height)
     IN  IF leaves = None THEN Fail("no_block") /\ UNCHANGED <<rootCursor, leafPos>>
         ELSE /\ rootCursor' = RebuiltRoot(1, AnchorHeight(1), leaves)
              /\ leafPos' = pos
              /\ IF ~Verifies(leaves, pos, EventLeaf) THEN Fail("outer_proof")
                 ELSE Goto(IF layer = 1 THEN "compare" ELSE "rung")
  /\ UNCHANGED <<chainVars, req, lies, faults, layer, anchor, clock, spent, rungs, file, startHead,
                 heldAtCheck, dueAt, advice>>

(* One rung: the tree above the last rebuilt root must have that root at   *)
(* its computed position.                                                  *)
CollectRung ==
  /\ pc = "rung"
  /\ LET lower  == Len(rungs) + 1
         leaves == LayerNLeaves(Answers, req.block.height, lower)
         pos    == RungPosition(req.block.height, lower)
     IN  IF leaves = None THEN Fail("no_block") /\ UNCHANGED <<rootCursor, rungs>>
         ELSE IF pos = None THEN Fail("overflow") /\ UNCHANGED <<rootCursor, rungs>>
         ELSE IF ~Verifies(leaves, pos, rootCursor)
         THEN Fail("rung_mismatch") /\ UNCHANGED <<rootCursor, rungs>>
         ELSE /\ rungs' = Append(rungs, [leaf |-> rootCursor, position |-> pos])
              /\ rootCursor' = RebuiltRoot(lower + 1, AnchorHeight(lower + 1), leaves)
              /\ Goto(IF lower + 1 = layer THEN "compare" ELSE "rung")
  /\ UNCHANGED <<chainVars, req, lies, faults, layer, anchor, clock, spent, leafPos, file,
                 startHead, heldAtCheck, dueAt, advice>>

(* The last root must be the one the anchor block published. *)
CompareRoot ==
  /\ pc = "compare"
  /\ IF MatchesNode(Answers[anchor]) THEN Goto("writing") ELSE Fail("root_mismatch")
  /\ UNCHANGED <<chainVars, req, lies, faults, layer, anchor, clock, spent, rootCursor, leafPos,
                 rungs, file, startHead, heldAtCheck, dueAt, advice>>

(* fs::write truncates the output, then fills it. *)
BeginWrite ==
  /\ pc = "writing" /\ file = "untouched" /\ file' = "torn"
  /\ UNCHANGED <<chainVars, req, lies, pc, reason, faults, layer, anchor, clock, spent, rootCursor,
                 leafPos, rungs, startHead, heldAtCheck, dueAt, advice>>

EndWrite ==
  /\ pc = "writing" /\ file = "torn" /\ file' = "new"
  /\ Goto("written")
  /\ UNCHANGED <<chainVars, req, lies, faults, layer, anchor, clock, spent, rootCursor, leafPos,
                 rungs, startHead, heldAtCheck, dueAt, advice>>

(* A query, or the write, fails: every such error ends the run. *)
Fault ==
  /\ faults > 0 /\ faults' = faults - 1
  /\ Fallible
  /\ Fail(IF pc = "writing" THEN "io" ELSE "query")
  /\ UNCHANGED <<chainVars, req, lies, layer, anchor, clock, spent, rootCursor, leafPos, rungs,
                 file, startHead, heldAtCheck, dueAt, advice>>

(* The process is killed. *)
Crash ==
  /\ pc \notin Final
  /\ faults > 0 /\ faults' = faults - 1
  /\ Goto("crashed")
  /\ UNCHANGED <<chainVars, req, lies, layer, anchor, clock, spent, rootCursor, leafPos, rungs,
                 file, startHead, heldAtCheck, dueAt, advice>>

ExporterStep ==
  \/ Start \/ QueryEventBlock \/ Poll \/ ReadHead \/ Sleep \/ Climb \/ CheckExpiry \/ Advise
  \/ Gauge \/ CollectLeaves \/ CollectRung \/ CompareRoot \/ BeginWrite \/ EndWrite

Next == Grow \/ Elapse \/ ExporterStep \/ Fault \/ Crash

Spec == Init /\ [][Next]_vars

(* The runtime keeps polling the export's future, so what needs no answer  *)
(* is done sooner or later.  That the node answers is not assumed: the     *)
(* HTTP client sets no timeout of its own.                                 *)
FairSpec == Spec /\ WF_vars(ExporterStep /\ ~Awaiting)

-----------------------------------------------------------------------------
(* Positions are positions, the wait's clock is a time, and a rebuilt hash *)
(* is the root of a tree of some layer: the run never computes with None.  *)
ExporterTypeOK ==
  /\ req \in RequestType /\ lies \in LieSets
  /\ pc \in Final \cup Waiting \cup {"idle", "block", "climb", "expiry", "advise", "gauge",
                                     "leaves", "rung", "compare", "writing"}
  /\ reason \in {"none", "bad_request", "no_block", "no_event", "bad_root", "overflow",
                 "not_produced", "gave_up", "expired", "outer_proof", "rung_mismatch",
                 "root_mismatch", "query", "io"}
  /\ faults \in 0 .. MaxFaults
  /\ layer \in Nat /\ anchor \in Nat \cup {None}
  /\ clock \in Nat /\ spent \in 0 .. QueryTime /\ dueAt \in Nat \cup {None}
  /\ rootCursor \in Hashes /\ leafPos \in {0} \cup 2 .. W + 1
  /\ rungs \in Seq([leaf : Hashes, position : Nat])
  /\ file \in {"untouched", "torn", "new"}
  /\ advice \in Advices \cup {None}
  /\ startHead \in 0 .. head /\ heldAtCheck \in BOOLEAN

(* What the run knows at each point.  From the first poll on the layer is  *)
(* a valid one with a height; once past the polls its block is at hand and *)
(* exists; a sleep has time left; past the expiry check the root was held, *)
(* unless expired anchors are allowed; and rungs are built from the bottom *)
(* up to the layer.  A warning is only prepared where the height at which  *)
(* the root leaves is known and the next layer's block exists.             *)
ResolutionInv ==
  /\ pc = "block" /\ req.layer # AutoMode => ValidLayer(req.layer)
  /\ pc \in Waiting => ValidLayer(layer) /\ AnchorHeight(layer) # None
  /\ pc = "sleep" => req.wait # None /\ clock < req.wait.timeout
  /\ pc \in {"climb", "expiry"} \cup Committed =>
       /\ ValidLayer(layer)
       /\ anchor # None /\ anchor = AnchorHeight(layer) /\ anchor <= head
  /\ pc \in Committed \/ file # "untouched" => req.allowExpired \/ heldAtCheck
  /\ pc \in Waiting \cup {"idle", "block", "climb", "expiry", "advise", "gauge", "leaves"} =>
       rungs = <<>> /\ file = "untouched"
  /\ pc = "rung" => Len(rungs) + 1 < layer
  /\ pc \in {"compare", "writing", "written"} => Len(rungs) + 1 = layer
  /\ pc \in {"advise", "gauge"} => ExpiryHeight(layer) # None
  /\ pc = "gauge" => AnchorHeight(layer + 1) <= head

(* What advice was given stands on: it comes after the expiry check, names *)
(* the layer above the resolved one, whose block exists, and its count     *)
(* ends where the root leaves the cursor, or where it was found gone.      *)
AdviceInv ==
  /\ pc \in Waiting \cup {"idle", "block", "climb", "expiry"} => advice = None
  /\ reason = "expired" => advice # None
  /\ advice # None =>
       /\ ValidLayer(layer) /\ advice.layer = layer + 1 /\ ValidLayer(layer + 1)
       /\ AnchorHeight(layer + 1) # None /\ AnchorHeight(layer + 1) <= head
       /\ anchor # None /\ anchor = AnchorHeight(layer) /\ anchor <= head
       /\ advice.left # None =>
            LET end == advice.since + advice.left IN
            /\ advice.since # None /\ ExpiryHeight(layer) # None
            /\ end = ExpiryHeight(layer) \/ (ExpiryHeight(layer) <= end /\ end <= head)

(* Against a truthful node, for an event in a block of thread 0 that the   *)
(* node has, and with no query lost, the export fails only because of the  *)
(* anchor: not produced (in time), evicted, or out of range.  What the     *)
(* exporter rebuilds never disagrees with what the node published, and it  *)
(* never asks for a block that does not exist.                             *)
TruthfulNodeIsNeverRefused ==
  /\ pc = "failed" /\ lies = {} /\ faults = MaxFaults
  /\ req.block.own /\ req.block.rootOk /\ req.block.tracks = "event"
  /\ req.block.height <= startHead
  => reason \in {"bad_request", "not_produced", "gave_up", "expired", "overflow"}

(* The output file is touched only if the chain accepted the anchor root   *)
(* when the exporter checked: the block it looks for stands exactly for    *)
(* the root leaving the cursor.                                            *)
TouchedOnlyIfHeld == file # "untouched" /\ ~req.allowExpired => heldAtCheck

(* What the run tells its caller is true when it is told and stays true.   *)
(* The layer it names exists and its root is published, and an expired     *)
(* root is never refused without such a layer; where it says for how many  *)
(* blocks the node accepts the root, that is exactly how long the node     *)
(* does, however far the chain came between the queries.                   *)
AdviceHolds ==
  /\ reason = "expired" => advice # None
  /\ advice # None =>
       /\ ValidLayer(advice.layer)
       /\ AnchorHeight(advice.layer) # None /\ AnchorHeight(advice.layer) <= head
       /\ advice.left # None =>
            (Held(layer, Root(layer, anchor)) <=> head < advice.since + advice.left)

(* auto ends at least as high as any layer produced when the run began,    *)
(* and only at a layer that is produced.                                   *)
AutoTakesTheHighest ==
  pc \in Committed /\ req.layer = AutoMode =>
    /\ AnchorHeight(layer) <= head
    /\ \A n \in 1 .. MaxAnchorLayer :
         AnchorHeight(n) # None /\ AnchorHeight(n) <= startHead => n <= layer

(* A wait gives up only if the block was not produced in time for its last *)
(* turn of queries: there is always a poll at the deadline or later, so a  *)
(* block produced earlier, less the time those queries take, is found.     *)
GivesUpOnlyIfLate ==
  reason = "gave_up" =>
    \/ head < AnchorHeight(layer)
    \/ dueAt # None /\ dueAt + QueryTime >= req.wait.timeout

(* A wait ends by its deadline, give or take the queries of one turn.      *)
WaitNeverOverruns ==
  pc \in Waiting \cup {"failed"} /\ req.wait # None => clock <= req.wait.timeout + QueryTime

(* The chain accepts the root of a fixture when the fixture appears.       *)
StillHeldWhenWritten ==
  [][file' = "new" /\ ~req.allowExpired => Held(layer, Root(layer, anchor))]_file

(* Every export ends, also on a chain that has stopped, unless the node    *)
(* never answers one of its queries: neither --wait-timeout nor the client *)
(* bounds the wait for an answer.                                          *)
ExportEnds == <>(pc \in Final) \/ <>[]Awaiting

(* What the export promises. *)
PromiseStatus ==
  IF pc \in {"failed", "crashed"} THEN "stopped"
  ELSE IF pc = "written" THEN "done"
  ELSE IF pc \in Committed THEN "committed"
  ELSE "working"

Promised == INSTANCE AnchorPromise WITH
  NoLayer <- 0,
  request <- [height |-> req.block.height, allowExpired |-> req.allowExpired],
  status  <- PromiseStatus,
  chosen  <- IF PromiseStatus \in {"committed", "done"} THEN layer ELSE 0

KeepsPromise == Promised!Promise

=============================================================================
