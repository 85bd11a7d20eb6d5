----------------------------- MODULE DenseMerkle -----------------------------
(***************************************************************************)
(* The dense Merkle trees of the exporter (poseidon.rs), shared with the   *)
(* node and the circuit.  The leaves are padded with Zero to a power of    *)
(* two and the tree is an array: node 0 is the root, the children of node  *)
(* i are 2i+1 and 2i+2, and the leaves are the last `width' entries.       *)
(*                                                                         *)
(* The hash is injective and symbolic: a hash is the tuple of what was     *)
(* hashed.  Leaves are tuples whose first component is not "node".         *)
(* Positions and array indices start from 0 as in the code; sequences of   *)
(* leaves start from 1.                                                    *)
(***************************************************************************)
EXTENDS Integers, Sequences

\* Deliberate faults.

\* Hashes a pair whatever its order.
Combine_Unordered(l, r) == <<"node", {l, r}>>

-----------------------------------------------------------------------------
Zero          == <<"zero">>            \* [0u8; 32]
Combine(l, r) == <<"node", l, r>>      \* dense_combine

(* next_power_of_two. *)
WidthOf[n \in Nat] == IF n <= 1 THEN 1 ELSE 2 * WidthOf[(n + 1) \div 2]

(* 1 << n. *)
TwoTo[n \in Nat] == IF n = 0 THEN 1 ELSE 2 * TwoTo[n - 1]

Sibling(idx) == IF idx % 2 = 1 THEN idx + 1 ELSE idx - 1
Parent(idx)  == (idx - 1) \div 2

-----------------------------------------------------------------------------
\* Deliberate faults.

\* Pads by repeating the last leaf.
LeafAt_Repeat(leaves, pos) == IF pos < Len(leaves) THEN leaves[pos + 1] ELSE leaves[Len(leaves)]

\* Treats even array indices as left children.
Step_Swapped(idx, current, sibling) ==
  IF idx % 2 = 0 THEN Combine(current, sibling) ELSE Combine(sibling, current)

-----------------------------------------------------------------------------
(* The leaf at a position, padding included. *)
LeafAt(leaves, pos) == IF pos < Len(leaves) THEN leaves[pos + 1] ELSE Zero

(* dense_merkle_tree. *)
DenseTree(leaves) ==
  LET width == WidthOf[Len(leaves)]
      node[i \in 0 .. 2 * width - 2] ==
        IF i >= width - 1 THEN LeafAt(leaves, i - (width - 1))
        ELSE Combine(node[2 * i + 1], node[2 * i + 2])
  IN  node

DenseRoot(leaves) == DenseTree(leaves)[0]

(* dense_merkle_proof: the siblings from the leaf up. *)
DenseProof(leaves, pos) ==
  LET tree == DenseTree(leaves)
      up[i \in DOMAIN tree] == IF i = 0 THEN <<>> ELSE <<tree[Sibling(i)]>> \o up[Parent(i)]
  IN  up[WidthOf[Len(leaves)] - 1 + pos]

(* One turn of the loop of dense_merkle_verify. *)
Step(idx, current, sibling) ==
  IF idx % 2 = 1 THEN Combine(current, sibling) ELSE Combine(sibling, current)

(* The root a proof leads to: dense_merkle_verify compares it with the     *)
(* given one, preprocess_dense_proof and compute_root_native return it.    *)
RootFrom(leaf, pos, proof) ==
  LET start == TwoTo[Len(proof)] - 1 + pos
      index[n \in 0 .. Len(proof)] == IF n = 0 THEN start ELSE Parent(index[n - 1])
      hash[n \in 0 .. Len(proof)]  ==
        IF n = 0 THEN leaf ELSE Step(index[n - 1], hash[n - 1], proof[n])
  IN  hash[Len(proof)]

DenseVerify(root, leaf, pos, proof) == RootFrom(leaf, pos, proof) = root

=============================================================================
