-------------------------- MODULE MCAnchorExporter --------------------------
(* Instances of AnchorExporter: W = 2, heights of 4 bits, so that layer 4  *)
(* is a valid layer whose anchor height never fits.                        *)
EXTENDS AnchorExporter

CONSTANTS MaxEvent, Timeout, Interval

MCPow == [n \in 0 .. MaxAnchorLayer + 2 |-> W ^ n]

Good(h) == [height |-> h, own |-> TRUE, rootOk |-> TRUE, tracks |-> "event"]
Wait    == [timeout |-> Timeout, poll |-> Interval]

Request(source, block, n, max, wait, allow) ==
  [source |-> source, block |-> block, layer |-> n, maxLayers |-> max, wait |-> wait,
   allowExpired |-> allow]

\* Every event height, layer, and expiry option, without waiting.
AnchorRequests ==
  {Request("height", Good(h), n, None, None, a) :
     h \in 0 .. MaxEvent, n \in {AutoMode} \cup 0 .. MaxAnchorLayer + 1, a \in BOOLEAN}

\* The legacy entry point, conflicting options, and blocks that are of
\* another thread, do not track the event, or state another root.
OddRequests ==
  {Request("height", Good(2), FromMaxLayers(s), s, None, FALSE) : s \in {None, 0, 1, 2}}
  \cup {Request("height", Good(2), 2, s, None, FALSE) : s \in 0 .. 2}
  \cup {Request("none", Good(2), 1, None, None, FALSE)}
  \cup {Request("id", [height |-> 2, own |-> o, rootOk |-> r, tracks |-> t], 1, None, None, FALSE) :
          o \in BOOLEAN, r \in BOOLEAN, t \in {"nothing", "others", "event"}}

WaitRequests ==
  {Request("height", Good(h), n, None, Wait, FALSE) : h \in {1, 2}, n \in {AutoMode, 1, 2}}

EndRequests == WaitRequests \cup OddRequests

Truthful == {{}}

=============================================================================
