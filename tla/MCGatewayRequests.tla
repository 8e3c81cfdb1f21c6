------------------------- MODULE MCGatewayRequests -------------------------
(* GatewayRequests with three requests in two pods: the same refresh three   *)
(* times, or twice and a profile read beside it in the first pod.            *)
EXTENDS GatewayRequests, TLC

CONSTANTS r1, r2, r3, k1, p1, p2

Refresh(p) == [route |-> "refresh", key |-> k1, pod |-> p]
Profile(p) == [route |-> "me", key |-> None, pod |-> p]

MCBatches ==
    {(r1 :> Refresh(p1)) @@ (r2 :> Refresh(p2)) @@ (r3 :> third) :
        third \in {Refresh(p1), Profile(p1)}}

MCFaults == {{"redis", "crash"}, FaultKinds \ {"stall"}, {"late", "stall"}}
=============================================================================
