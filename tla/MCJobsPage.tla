----------------------------- MODULE MCJobsPage -----------------------------
(* Instances of JobsPage for TLC.                                          *)
EXTENDS JobsPage

=============================================================================
