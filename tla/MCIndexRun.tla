----------------------------- MODULE MCIndexRun -----------------------------
(* Instances of IndexRun for TLC.                                          *)
EXTENDS IndexRun, TLC

Symmetry == Permutations(File) \cup Permutations(Schema)
=============================================================================
