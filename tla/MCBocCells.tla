------------------------------ MODULE MCBocCells ------------------------------
(* Four cells with two references each: whole and half bytes, and pruned   *)
(* branches and Merkle cells for the levels.                               *)
EXTENDS BocCells

MCPayloads ==
  { [type |-> "ordinary", bits |-> 8, mask |-> {}],
    [type |-> "ordinary", bits |-> 9, mask |-> {}],
    [type |-> "pruned",   bits |-> 16, mask |-> {1, 3}],
    [type |-> "merkle",   bits |-> 8, mask |-> {}] }

===============================================================================
