----------------------- MODULE MCPendingInteractions -----------------------
(* Two interchangeable requests of one agent for TLC.                       *)
EXTENDS PendingInteractions, TLC

CONSTANTS r1, r2, a1

TwoRequests == {r1, r2}
OneAgent == {a1}
SameAgent == (r1 :> a1) @@ (r2 :> a1)
=============================================================================
