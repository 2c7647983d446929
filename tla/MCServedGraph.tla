--------------------------- MODULE MCServedGraph ----------------------------
(* Instances of ServedGraph for TLC. *)
EXTENDS ServedGraph

=============================================================================
