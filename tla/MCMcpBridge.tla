------------------------------ MODULE MCMcpBridge ------------------------------
(* Requests and environments of the run of McpBridge. *)
EXTENDS McpBridge, TLC

CONSTANTS r1, r2, r3

BridgeRequests == {r1, r2, r3}
BridgeKind == (r1 :> "free") @@ (r2 :> "gated") @@ (r3 :> "hidden")

\* No override, a headless run with gated tools, a headless run.
BridgeEnvs == {<<>>, [k \in Keys |-> TRUE], [k \in {"enabled"} |-> TRUE]}
=============================================================================
