------------------------------ MODULE MCPipeline ------------------------------
(* Instances of Pipeline, as in MCAnchorExporter: W = 2 and heights of 4   *)
(* bits.                                                                   *)
EXTENDS Pipeline

CONSTANT Events

MCPow == [n \in 0 .. MaxAnchorLayer + 2 |-> W ^ n]

Good(h) == [height |-> h, own |-> TRUE, rootOk |-> TRUE, tracks |-> "event"]

Request(source, block, n, max, allow) ==
  [source |-> source, block |-> block, layer |-> n, maxLayers |-> max, wait |-> None,
   allowExpired |-> allow]

(* Every layer that has a height, the offline fixture, and a block that is *)
(* of another thread.                                                      *)
MCRequests ==
  {Request("height", Good(h), n, None, FALSE) : h \in Events, n \in {AutoMode, 1}}
  \cup {Request("height", Good(h), 1, None, TRUE) : h \in Events}
  \cup {Request("id", [Good(h) EXCEPT !.own = FALSE], 1, None, FALSE) : h \in Events}

(* A node that tells the truth, that leaves out a root, that misreports    *)
(* one, and that misreports a leaf and the roots above it consistently.    *)
MCLies ==
  LET other(n, h) == [height |-> h, layer |-> n, absent |-> FALSE]
      no(n, h)    == [height |-> h, layer |-> n, absent |-> TRUE]
  IN  { {}, {no(1, 4)}, {other(1, 2)}, {other(1, 4)}, {other(2, 4)}, {other(1, 2), other(1, 4)},
        {other(1, 2), other(1, 4), other(2, 4)} }

(* Bound: queries and runs are lost only against a truthful node. *)
MCNext == PipelineNext /\ (lies = {} \/ UNCHANGED faults)

MCFairPipeline ==
  PipelineInit /\ [][MCNext]_pipelineVars /\ WF_pipelineVars(ToolsRun)

=============================================================================
