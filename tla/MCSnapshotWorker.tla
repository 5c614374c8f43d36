--------------------------- MODULE MCSnapshotWorker ---------------------------
(* Small instances of SnapshotWorker for TLC.  No definition of it prefers one  *)
(* job, runner, series or date to another.                                      *)
EXTENDS SnapshotClaims, TLC

Symmetry ==
  Permutations(Jobs) \cup Permutations(Runners)
    \cup Permutations(Series) \cup Permutations(Dates)
=============================================================================
