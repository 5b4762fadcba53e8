------------------------ MODULE MCCredentialHolders ------------------------
(* A registry with room for one entry, two objects, three concurrent users   *)
(* and one closer: an open entry is reclaimed and its room reused, a closed   *)
(* one keeps the other object out.                                            *)
EXTENDS CredentialHolders
=============================================================================
