----------------------------- MODULE MCMatrixRun ----------------------------
(* MatrixRun for TLC.                                                      *)
EXTENDS MatrixRun, TLC

\* Processes, manifests and outcomes are only compared with their own kind.
Symmetry ==
  Permutations(Procs) \cup Permutations(Manifests) \cup Permutations(Outcomes)
=============================================================================
