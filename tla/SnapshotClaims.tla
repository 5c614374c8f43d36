---------------------------- MODULE SnapshotClaims ----------------------------
(* A requirement that the repository states of the snapshot worker and that    *)
(* its code does not keep.                                                     *)
EXTENDS SnapshotWorker

(* "For each completed snapshot, the system SHALL calculate differences against *)
(* the immediately previous snapshot" (snapshot-lifecycle-management/spec.md:11): *)
(* when the job that stored a snapshot is over, the diff is there.  It is not  *)
(* when an attempt fails once its INSERT is done, because its answer is lost   *)
(* or because createDiff rejects: the retry's INSERT meets the UNIQUE          *)
(* constraint, so that no attempt comes to createDiff again.                   *)
SnapshotsDiffed ==
  \A j \in Jobs :
    snapshots[j] # None /\ Outcome(j) \in {"completed", "dead"} => diffs[j] # None
=============================================================================
