---------------------------- MODULE HistoryLayers ----------------------------
(***************************************************************************)
(* The height arithmetic of the history layers (anchor.rs of the exporter).*)
(*                                                                         *)
(* Blocks of thread 0 are hashed W at a time into layer-1 roots, W layer-1 *)
(* roots into a layer-2 root, and so on.  For an event at height h,        *)
(*                                                                         *)
(*   T_n = AnchorBlockHeight(h, n)   publishes the layer-n root over h,    *)
(*   E_n = AnchorExpiryHeight(h, n)  is the first block whose history      *)
(*                                   cursor no longer holds that root.     *)
(*                                                                         *)
(* Every operation is checked u64 arithmetic: a value that does not fit is *)
(* None.  Strides are a table, Pow[n] = W^n, so that no definition here is *)
(* recursive and the module can be proved about.                           *)
(***************************************************************************)
EXTENDS Integers

CONSTANTS
  W,               \* HISTORY_PROOF_WINDOW_SIZE, 128 in the code
  Pow,             \* the powers of W
  U64Max,          \* the largest height that fits the integer type
  MaxAnchorLayer,  \* MAX_ANCHOR_LAYER, 12 in the code
  None,            \* Option::None
  AutoMode             \* AnchorLayerMode::Auto; a number is Explicit(number)

ASSUME WindowAssumption == W \in Nat /\ W > 1
ASSUME LayerAssumption  == MaxAnchorLayer \in Nat \ {0}
ASSUME U64Assumption    == U64Max \in Nat
ASSUME PowAssumption    ==
  /\ Pow \in [0 .. MaxAnchorLayer + 2 -> Nat \ {0}]
  /\ Pow[0] = 1
  /\ \A n \in 0 .. MaxAnchorLayer + 1 : Pow[n + 1] = W * Pow[n]
ASSUME OptionAssumption == None \notin Nat /\ AutoMode \notin Nat

-----------------------------------------------------------------------------
\* Deliberate faults: each is a plausible slip in the definition named before
\* the underscore.  No specification uses them.

\* Keeps the root only until the next root of the layer above.
AnchorExpiryHeight_NoGrace(h, layer) ==
  LET s == Pow[layer + 1] IN
  IF s <= U64Max /\ (h \div s) * s + s <= U64Max THEN (h \div s) * s + s ELSE None

\* Forgets the header leaf of the tree.
RungPosition_OffByOne(h, lower) == (h % Pow[lower + 1]) \div Pow[lower] + 1

-----------------------------------------------------------------------------
(* Checked u64 arithmetic. *)

Checked(v) == IF v <= U64Max THEN v ELSE None

Stride(layer) == Checked(Pow[layer])

(* T_n: the first multiple of W^n strictly above h. *)
AnchorBlockHeight(h, layer) ==
  IF Stride(layer) = None THEN None
  ELSE Checked((h \div Pow[layer]) * Pow[layer] + Pow[layer])

(* E_n = T_(n+1) + W^n. *)
AnchorExpiryHeight(h, layer) ==
  IF None \in {AnchorBlockHeight(h, layer + 1), Stride(layer)} THEN None
  ELSE Checked(AnchorBlockHeight(h, layer + 1) + Pow[layer])

(* Position (from 0) of the layer-`lower' root over h among the leaves of  *)
(* the tree one layer up, whose first two leaves are header roots.         *)
RungPosition(h, lower) ==
  LET cursor == (h \div Pow[lower + 1]) * Pow[lower + 1] IN
  IF None \in {Stride(lower), Stride(lower + 1), AnchorBlockHeight(h, lower)} THEN None
  ELSE 1 + (AnchorBlockHeight(h, lower) - cursor) \div Pow[lower]

ValidLayer(layer) == layer \in 1 .. MaxAnchorLayer

(* The layer the legacy max_layers (chain steps above layer 1) stands for. *)
FromMaxLayers(steps) == IF steps = None THEN AutoMode ELSE steps + 1

=============================================================================
