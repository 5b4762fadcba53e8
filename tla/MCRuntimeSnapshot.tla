------------------------ MODULE MCRuntimeSnapshot ------------------------
(* Every write, in one handler, beside a second that revokes without the   *)
(* gate or asks for a publication.                                         *)
EXTENDS RuntimeSnapshot, TLC

CONSTANTS h1, h2

MCOperations == h1 :> AllOperations @@ h2 :> {RevokeProjectKey, PublishRuntimeCommand}
=============================================================================
