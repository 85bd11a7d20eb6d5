---------------------------- MODULE MCDexFixture ----------------------------
(* Windows of two blocks and layers 1 to 3.  Blocks 0 and 1 share a window *)
(* and block 2 is in the next one, so that parts of fixtures are mixed     *)
(* within a tree and across trees.  Block 1 tracks one event for two       *)
(* accounts; it proves, but its first cell is a byte longer than that of   *)
(* the voucher the keys are made from.  Block 2 tracks four messages, one  *)
(* level more than the circuit has, among them one of another contract     *)
(* (three cells), one with no readable commitment and one whose second     *)
(* cell ends before the token type.  The message of block 3 refers to its  *)
(* second cell twice.                                                      *)
EXTENDS DexFixture, TLC

Event(id, key) ==
  [id |-> id, cells |-> 2, refs |-> 1, rootLen |-> 70, childLen |-> 74, key |-> key]
Sent(a, e)     == [account |-> a, event |-> e]

CONSTANTS k1, k2
MCKeys == {k1, k2}

Longer == [Event(2, k2) EXCEPT !.rootLen = 71]

MCTracks ==
  0 :> <<Sent(1, Event(1, k1))>>
  @@ 1 :> <<Sent(1, Longer), Sent(2, Longer)>>
  @@ 2 :> <<Sent(1, Event(3, k1)),
            Sent(2, [Event(4, None) EXCEPT !.cells = 3, !.refs = 2, !.rootLen = 104]),
            Sent(2, Event(5, None)),
            Sent(1, [Event(6, k2) EXCEPT !.childLen = 70])>>
  @@ 3 :> <<Sent(1, [Event(7, k1) EXCEPT !.refs = 2, !.rootLen = 104])>>

MCVoucher == Event(0, k1)
=============================================================================
