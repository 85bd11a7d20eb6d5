---------------------------- MODULE AnchorPromise ----------------------------
(***************************************************************************)
(* What an export promises, whatever queries it makes and in whatever      *)
(* order: the output file is touched only after the export has committed   *)
(* to a layer whose root was published and, unless expired anchors are     *)
(* allowed, not yet evicted at that moment; once stopped it writes no more.*)
(* AnchorExporter implements this specification.                           *)
(***************************************************************************)
EXTENDS HistoryLayers

CONSTANT NoLayer     \* no layer has been committed to

VARIABLES
  head,      \* height of the chain's latest block
  request,   \* [height: the event's height, allowExpired: BOOLEAN]
  status,    \* "working", "committed", "done" or "stopped"
  chosen,    \* the layer committed to, or NoLayer
  file       \* the output file: "untouched", "torn" or "new"

promiseVars == <<head, request, status, chosen, file>>

(* The root of this layer is published and, if that matters, not evicted.  *)
Usable(layer) ==
  LET t == AnchorBlockHeight(request.height, layer)
      e == AnchorExpiryHeight(request.height, layer)
  IN  /\ t # None /\ t <= head
      /\ request.allowExpired \/ e = None \/ head < e

PromiseInit ==
  /\ head \in Nat
  /\ request \in [height : Nat, allowExpired : BOOLEAN]
  /\ status = "working" /\ chosen = NoLayer /\ file = "untouched"

Grow ==
  /\ head' > head
  /\ UNCHANGED <<request, status, chosen, file>>

Commit ==
  /\ status = "working" /\ status' = "committed"
  /\ chosen' \in {layer \in 1 .. MaxAnchorLayer : Usable(layer)}
  /\ UNCHANGED <<head, request, file>>

Write ==
  /\ status = "committed" /\ file = "untouched" /\ file' = "torn"
  /\ UNCHANGED <<head, request, status, chosen>>

Finish ==
  /\ status = "committed" /\ file = "torn"
  /\ status' = "done" /\ file' = "new"
  /\ UNCHANGED <<head, request, chosen>>

Stop ==
  /\ status \in {"working", "committed"} /\ status' = "stopped"
  /\ chosen' = NoLayer
  /\ UNCHANGED <<head, request, file>>

PromiseNext == Grow \/ Commit \/ Write \/ Finish \/ Stop

Promise == PromiseInit /\ [][PromiseNext]_promiseVars

=============================================================================
