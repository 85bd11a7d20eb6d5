--------------------------- MODULE MCHistoryCursor ---------------------------
(* W = 3, so that a window has an inner position, and a height limit that  *)
(* is no power of W: layers 1 to 4 are published, layer 5 never, and the   *)
(* expiry heights of the highest layers overflow before their anchors do.  *)
EXTENDS HistoryCursor

MCPow == [n \in 0 .. MaxAnchorLayer + 2 |-> W ^ n]

=============================================================================
