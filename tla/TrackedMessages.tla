--------------------------- MODULE TrackedMessages ---------------------------
(***************************************************************************)
(* The inner proof of a fixture: a message among the ext-out messages that *)
(* a block tracks (proof.rs, generate_ext_message_proof).  The node tracks *)
(* messages per account as it builds the block; the exporter flattens them *)
(* in account order, finds the event's message and proves its leaf.        *)
(***************************************************************************)
EXTENDS DenseMerkle, FiniteSets, SequencesExt

CONSTANTS
  NumAccounts,  \* account routings are the numbers of their order
  Messages,     \* message hashes
  MaxTracked    \* how many messages a block tracks at most

ASSUME TrackedAssumption == NumAccounts \in Nat /\ MaxTracked \in Nat

Accounts == 1 .. NumAccounts

VARIABLE tracked   \* tracked_ext_out_messages: account -> its messages

MessageLeaf(a, m) == <<"msg", a, m>>     \* compute_ext_message_leaf_hash

(* The leaves: accounts in the order of the map, messages as tracked. *)
MessageLeaves ==
  FlattenSeq([a \in Accounts |-> [i \in DOMAIN tracked[a] |-> MessageLeaf(a, tracked[a][i])]])

Total == Len(MessageLeaves)

Occurs(m) == \E a \in Accounts : m \in Range(tracked[a])

(* The account of the first message that matches. *)
TargetAccount(m) == CHOOSE a \in Accounts :
  /\ m \in Range(tracked[a])
  /\ \A b \in Accounts : b < a => m \notin Range(tracked[b])

(* The position of the first equal leaf. *)
FirstPosition(leaves, leaf) == SelectInSeq(leaves, LAMBDA x : x = leaf) - 1

(* generate_ext_message_proof, with its inputs from the caller. *)
InnerProof(m) ==
  LET leaf == MessageLeaf(TargetAccount(m), m)
      pos  == FirstPosition(MessageLeaves, leaf)
  IN  [root |-> DenseRoot(MessageLeaves), leaf |-> leaf, pos |-> pos,
       proof |-> DenseProof(MessageLeaves, pos)]

-----------------------------------------------------------------------------
Init == tracked = [a \in Accounts |-> <<>>]

(* The node tracks one more message. *)
Track(a, m) ==
  /\ Total < MaxTracked
  /\ tracked' = [tracked EXCEPT ![a] = Append(@, m)]

Next == \E a \in Accounts, m \in Messages : Track(a, m)

Spec == Init /\ [][Next]_tracked

-----------------------------------------------------------------------------
Leaves == {Zero} \cup {MessageLeaf(a, m) : a \in Accounts, m \in Messages}

(* A tree by halves: what a dense tree is meant to be. *)
Halves[s \in Seq(Leaves)] ==
  IF Len(s) <= 1 THEN s[1]
  ELSE Combine(Halves[SubSeq(s, 1, Len(s) \div 2)], Halves[SubSeq(s, Len(s) \div 2 + 1, Len(s))])

Padded(leaves) == [i \in 1 .. WidthOf[Len(leaves)] |-> LeafAt(leaves, i - 1)]

(* generate_ext_message_proof: every message the block tracks has a proof  *)
(* that verifies, of a leaf of an account that sent it, at a position      *)
(* where that leaf is, against the root of the tree by halves; duplicates  *)
(* of the message, in one account or in several, do not matter.            *)
EveryMessageProves ==
  \A m \in Messages : Occurs(m) =>
    LET p == InnerProof(m) IN
    /\ p.root = Halves[Padded(MessageLeaves)]
    /\ DenseVerify(p.root, p.leaf, p.pos, p.proof)
    /\ p.pos < Len(MessageLeaves) /\ MessageLeaves[p.pos + 1] = p.leaf
    /\ m \in Range(tracked[p.leaf[2]])

(* dense_merkle_verify: with the siblings of any position, nothing but the *)
(* leaf of that position verifies there, a missing message or a padding    *)
(* leaf included.                                                          *)
NothingElseProves ==
  Total > 0 =>
  \A i \in 0 .. WidthOf[Total] - 1 :
    LET path == DenseProof(MessageLeaves, i) IN
    \A j \in 0 .. WidthOf[Total] - 1 :
    \A leaf \in Leaves :
      DenseVerify(DenseRoot(MessageLeaves), leaf, j, path) =>
        LeafAt(MessageLeaves, j) = leaf

(* A root stands for its messages: tracking one more, or another one,      *)
(* always changes it.  This is what lets the other modules write a root as *)
(* the name of its tree.                                                   *)
RootChanges ==
  [][Total > 0 => DenseRoot(MessageLeaves) # DenseRoot(MessageLeaves')]_tracked

=============================================================================
