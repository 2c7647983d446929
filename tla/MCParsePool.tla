---------------------------- MODULE MCParsePool -----------------------------
(* Instances of ParsePool for TLC. *)
EXTENDS ParsePool

=============================================================================
