---------------------------- MODULE HistoryCursor ----------------------------
(***************************************************************************)
(* The node's side of the history proofs, as the exporter's tests simulate *)
(* it (Chain::simulate and push in tests/anchor_layers.rs, after the       *)
(* node's history_proof.rs): a chain of blocks of thread 0, which block    *)
(* publishes which roots, the leaves of every published tree, and the      *)
(* cursor of recent roots against which the chain accepts a proof.         *)
(***************************************************************************)
EXTENDS LayerData

CONSTANT MaxHead    \* bound on the chain's length

ASSUME MaxHeadAssumption == MaxHead \in Nat /\ MaxHead <= U64Max

VARIABLES
  head,     \* height of the latest block
  cursor,   \* cursor[n]: the layer-n roots the node still holds
  tree      \* tree[<<n, T>>]: leaves of the layer-n tree published at height T

chainVars == <<head, cursor, tree>>

Layers == 1 .. MaxAnchorLayer + 1

-----------------------------------------------------------------------------
\* Deliberate faults.

\* Drops the oldest root instead of clearing a full layer.
Push_Sliding(buffer, value) ==
  Append(IF Len(buffer) = W THEN Tail(buffer) ELSE buffer, value)

\* Never evicts.
Push_Unbounded(buffer, value) == Append(buffer, value)

\* Publishes an upper layer only when it is the topmost boundary.
PublishedLayers_TopOnly(height) ==
  {n \in Layers : height > 0 /\ height % Pow[n] = 0
                  /\ (n = 1 \/ n + 1 \notin Layers \/ height % Pow[n + 1] # 0)}

\* Puts the header roots last.
TreeLeaves_HeadersLast(n, height) ==
  LET latest(m) == IF m \in Layers /\ cursor[m] # <<>> THEN cursor[m][Len(cursor[m])] ELSE ZeroHash
      data == IF n = 1 THEN [i \in 1 .. W |-> BlockLeaf(height - W + i - 1)]
              ELSE Append(IF Len(cursor[n - 1]) = W THEN <<>> ELSE cursor[n - 1],
                          Root(n - 1, height))
  IN  data \o <<latest(n + 1), latest(n)>>

-----------------------------------------------------------------------------
(* push: a full buffer is cleared first. *)
Push(buffer, value) == Append(IF Len(buffer) = W THEN <<>> ELSE buffer, value)

(* The layers for which block `height' publishes a root. *)
PublishedLayers(height) == {n \in Layers : height > 0 /\ height % Pow[n] = 0}

(* latest: the last root pushed for a layer, or zero. *)
Latest(layer) ==
  IF layer \in Layers /\ cursor[layer] # <<>>
  THEN cursor[layer][Len(cursor[layer])] ELSE ZeroHash

(* The leaves of the layer-n tree that block `height' publishes; the roots *)
(* of the layers below are those of the same block.                        *)
TreeLeaves(n, height) ==
  <<Latest(n + 1), Latest(n)>> \o
    (IF n = 1 THEN [i \in 1 .. W |-> BlockLeaf(height - W + i - 1)]
              ELSE Push(cursor[n - 1], Root(n - 1, height)))

(* The node's answers: each block's history_proofs. *)
Report ==
  [h \in 0 .. head |-> [n \in {m \in Layers : <<m, h>> \in DOMAIN tree} |-> Root(n, h)]]

(* gosh.check_layer_hash: whether the chain accepts a root now. *)
Held(n, root) == \E i \in 1 .. Len(cursor[n]) : cursor[n][i] = root

-----------------------------------------------------------------------------
ChainInit ==
  /\ head = 0
  /\ cursor = [n \in Layers |-> <<>>]
  /\ tree = [t \in {} |-> <<>>]

(* One iteration of the simulation, or a block that publishes nothing. *)
ProduceBlock ==
  LET height == head + 1
      pub    == PublishedLayers(height)
      new    == {<<n, height>> : n \in pub}
  IN  /\ head < MaxHead
      /\ head' = height
      /\ cursor' = [n \in Layers |-> IF n \in pub THEN Push(cursor[n], Root(n, height))
                                     ELSE cursor[n]]
      /\ tree' = [t \in DOMAIN tree \cup new |->
                    IF t \in new THEN TreeLeaves(t[1], height) ELSE tree[t]]

ChainSpec == ChainInit /\ [][ProduceBlock]_chainVars

-----------------------------------------------------------------------------
(* The cursor holds only roots of its own layer, published by blocks that  *)
(* exist, and never more than W of them.                                   *)
ChainTypeOK ==
  /\ head \in 0 .. MaxHead
  /\ cursor \in [Layers -> Seq({"root"} \X Layers \X (1 .. MaxHead))]
  /\ \A n \in Layers : Len(cursor[n]) <= W

(* The cursor of layer n in closed form: of the head \div W^n roots pushed *)
(* so far it holds those since the last multiple of W, in order, and it is *)
(* empty only before the first push.                                       *)
HoldsRun(buffer, n, pushed) ==
  LET base == pushed - Len(buffer) IN
  /\ Len(buffer) = 0 => pushed = 0
  /\ base \in Nat /\ base % W = 0
  /\ \A i \in 1 .. Len(buffer) : buffer[i] = Root(n, (base + i) * Pow[n])

CursorInv == \A n \in Layers : HoldsRun(cursor[n], n, head \div Pow[n])

(* anchor.rs, lines 7-13: the root over any event is accepted exactly      *)
(* while the head is in [T_n, E_n); where a height does not fit u64 the    *)
(* root is never published, or never evicted.                              *)
AcceptedExactlyInWindow ==
  \A h \in 0 .. head, n \in 1 .. MaxAnchorLayer :
    LET t == AnchorBlockHeight(h, n)
        e == AnchorExpiryHeight(h, n)
    IN  IF t = None THEN ~\E i \in 1 .. Len(cursor[n]) : cursor[n][i][3] > h
        ELSE Held(n, Root(n, t)) <=> (t <= head /\ (e = None \/ head < e))

(* Every published tree is rebuilt leaf by leaf by the exporter's reads,   *)
(* for every event it covers, as soon as its root is published: the node   *)
(* and blockchain.rs agree on the windows, the header roots and their      *)
(* order.                                                                  *)
ReadersRebuildTrees ==
  \A h \in 0 .. head, n \in 1 .. MaxAnchorLayer :
    LET t == AnchorBlockHeight(h, n) IN
    (t # None /\ t <= head) =>
      tree[<<n, t>>] = IF n = 1 THEN Layer0Leaves(Report, h)
                                ELSE LayerNLeaves(Report, h, n - 1)

(* The position computed for a lower root is where the node put it, and it *)
(* can be computed whenever the layer above can be anchored to.            *)
RungIsWhereTheNodePutIt ==
  \A h \in 0 .. head, lower \in 1 .. MaxAnchorLayer - 1 :
    LET t == AnchorBlockHeight(h, lower + 1) IN
    (t # None /\ t <= head) =>
      /\ RungPosition(h, lower) # None
      /\ tree[<<lower + 1, t>>][RungPosition(h, lower) + 1]
           = Root(lower, AnchorBlockHeight(h, lower))

(* anchor.rs, lines 15-16: a root stays usable for at least W^n and at     *)
(* most W^(n+1) blocks after it is published, whatever the event's place   *)
(* in its windows, and the next layer takes over before it expires.        *)
UsableSpan ==
  \A h \in 0 .. head, n \in 1 .. MaxAnchorLayer :
    LET t == AnchorBlockHeight(h, n)
        e == AnchorExpiryHeight(h, n)
    IN  e # None => /\ e - t \in Pow[n] .. Pow[n + 1]
                    /\ AnchorBlockHeight(h, n + 1) \in t .. e - Pow[n]

=============================================================================
