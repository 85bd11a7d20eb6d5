------------------------------ MODULE LayerData ------------------------------
(***************************************************************************)
(* What the exporter reads to rebuild a layer tree (blockchain.rs), and    *)
(* the hashes it reads.  A hash is a triple <<kind, layer, height>>: the   *)
(* hash function is taken to be injective, so a root stands for its tree.  *)
(*                                                                         *)
(* `blocks' is the node's answer to height queries: a function from the    *)
(* heights the node has a block for to the history_proofs of that block (a *)
(* function from layers to roots).  The result of a read is a tree's       *)
(* leaves, or None where the code returns an error.                        *)
(***************************************************************************)
EXTENDS HistoryLayers, Sequences

Root(layer, height) == <<"root", layer, height>>   \* published by the node
BlockLeaf(height)   == <<"leaf", 0, height>>       \* block_leaf_hash, thread 0
ZeroHash            == <<"zero", 0, 0>>            \* [0u8; 32]

\* A read that succeeds does not return an error.
ASSUME LeavesAssumption == None \notin Seq({"root", "leaf", "zero"} \X Nat \X Nat)

-----------------------------------------------------------------------------
\* Deliberate faults.

\* Looks for the layer-2 header root at the window's own start.
Layer0Leaves_NearMarker(blocks, h) ==
  LET at(b, n) == IF b \in DOMAIN blocks /\ n \in DOMAIN blocks[b]
                  THEN blocks[b][n] ELSE ZeroHash
      start == (h \div W) * W
  IN  IF \E i \in 0 .. W - 1 : start + i \notin DOMAIN blocks THEN None
      ELSE <<at(start, 2), at(start, 1)>> \o [i \in 1 .. W |-> BlockLeaf(start + i - 1)]

\* Starts the data at the cursor: one root too early.
LayerNLeaves_EarlyData(blocks, h, lower) ==
  LET step   == Pow[lower]
      cursor == (h \div Pow[lower + 1]) * Pow[lower + 1]
      data   == [i \in 1 .. W |-> cursor + (i - 1) * step]
      at(b, n) == IF b \in DOMAIN blocks /\ n \in DOMAIN blocks[b]
                  THEN blocks[b][n] ELSE ZeroHash
  IN  IF \E i \in 1 .. W : data[i] \notin DOMAIN blocks \/ lower \notin DOMAIN blocks[data[i]]
      THEN None
      ELSE <<at((h \div Pow[lower + 2]) * Pow[lower + 2], lower + 2), at(cursor, lower + 1)>>
             \o [i \in 1 .. W |-> blocks[data[i]][lower]]

-----------------------------------------------------------------------------
(* fetch_marker: the root a boundary block published for a layer, or zero. *)
(* Height 0 is not queried.                                                *)
Marker(blocks, boundary, layer) ==
  IF boundary # 0 /\ layer \in DOMAIN blocks[boundary]
  THEN blocks[boundary][layer] ELSE ZeroHash

MarkerMissing(blocks, boundary) == boundary # 0 /\ boundary \notin DOMAIN blocks

(* build_leaves: the header leaves come first. *)
Leaves(higher, same, data) == <<higher, same>> \o data

(* get_layer_0_data. *)
Layer0Leaves(blocks, h) ==
  LET start  == (h \div W) * W
      higher == (h \div (W * W)) * (W * W)
  IN  IF \/ MarkerMissing(blocks, start)
         \/ MarkerMissing(blocks, higher)
         \/ \E i \in 0 .. W - 1 : start + i \notin DOMAIN blocks
      THEN None
      ELSE Leaves(Marker(blocks, higher, 2), Marker(blocks, start, 1),
                  [i \in 1 .. W |-> BlockLeaf(start + i - 1)])

(* get_layer_n_data: the tree of layer lower + 1.  A higher boundary whose *)
(* stride does not fit is height 0.                                        *)
LayerNLeaves(blocks, h, lower) ==
  LET step   == Pow[lower]
      cursor == (h \div Pow[lower + 1]) * Pow[lower + 1]
      higher == IF Stride(lower + 2) = None THEN 0
                ELSE (h \div Pow[lower + 2]) * Pow[lower + 2]
      data   == [i \in 1 .. W |-> cursor + i * step]
  IN  IF \/ Stride(lower + 1) = None
         \/ MarkerMissing(blocks, cursor)
         \/ MarkerMissing(blocks, higher)
         \/ \E i \in 1 .. W : \/ data[i] \notin DOMAIN blocks
                              \/ lower \notin DOMAIN blocks[data[i]]
      THEN None
      ELSE Leaves(Marker(blocks, higher, lower + 2), Marker(blocks, cursor, lower + 1),
                  [i \in 1 .. W |-> blocks[data[i]][lower]])

=============================================================================
