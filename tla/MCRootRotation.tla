--------------------------- MODULE MCRootRotation ---------------------------
(* RootRotation for TLC: two keys and two rows, one of which routing uses. *)
EXTENDS RootRotation

CONSTANTS A, B, p1, p2

MCKeys == {A, B}
MCProcesses == {p1, p2}
(* Readers; writers and a way back; writers and a fault; two servers. *)
MCDeployments ==
  {[rows |-> 1, routed |-> {1}, servers |-> {p1}, writers |-> {}, readers |-> {p1},
    epochs |-> 3, faults |-> 2],
   [rows |-> 2, routed |-> {1}, servers |-> {p1}, writers |-> {p1}, readers |-> {},
    epochs |-> 4, faults |-> 0],
   [rows |-> 1, routed |-> {1}, servers |-> {p1}, writers |-> {p1}, readers |-> {},
    epochs |-> 3, faults |-> 1],
   [rows |-> 1, routed |-> {1}, servers |-> {p1, p2}, writers |-> {}, readers |-> {},
    epochs |-> 3, faults |-> 1]}
=============================================================================
