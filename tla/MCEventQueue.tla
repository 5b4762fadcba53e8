---------------------------- MODULE MCEventQueue ----------------------------
(* Small instances of EventQueue for TLC.                                  *)
EXTENDS EventQueue, TLC

CONSTANTS r1, r2, r3, p1, p2, key, user

\* One call of a key under its user, or of the user alone; the limits change
\* between calls as administrators edit them.
MCPolicies ==
  { (key :> [rpm |-> 1, concurrency |-> Unlimited])
      @@ (user :> [rpm |-> 2, concurrency |-> 1]),
    user :> [rpm |-> Unlimited, concurrency |-> 2] }

MCTimes == 1..4
=============================================================================
