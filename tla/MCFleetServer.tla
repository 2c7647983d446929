--------------------------- MODULE MCFleetServer ---------------------------
(* Instances of FleetServer for TLC.                                       *)
EXTENDS FleetServer

=============================================================================
