------------------------- MODULE MCCredentialDrain -------------------------
(* Two process generations and two commands; processes and commands are    *)
(* interchangeable.                                                        *)
EXTENDS CredentialDrain, TLC

Symmetry == Permutations(Processes) \union Permutations(Commands)
=============================================================================
