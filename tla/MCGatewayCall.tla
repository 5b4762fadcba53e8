---------------------------- MODULE MCGatewayCall ----------------------------
(* Two connections; two targets of the first share a credential, so that   *)
(* there are more pairs of target and credential than attempts.            *)
EXTENDS GatewayCall, TLC

CONSTANTS t1, t2, t3, c1, c2, z1, z2

MCConnectionOf == t1 :> c1 @@ t2 :> c1 @@ t3 :> c2
MCWeight == t1 :> 60 @@ t2 :> 40 @@ t3 :> 10
MCPriority == t1 :> (1 :> 5 @@ 2 :> 0) @@ t2 :> (2 :> 1) @@ t3 :> (3 :> 1)
=============================================================================
