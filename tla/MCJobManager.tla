---------------------------- MODULE MCJobManager ----------------------------
(* Instances of JobManager for TLC.                                        *)
EXTENDS JobManager, TLC

Symmetry == Permutations(Job) \cup Permutations(Kind \ {IndexKind})
=============================================================================
