--------------------------- MODULE MCScheduledJob ---------------------------
(* Instances of ScheduledJob.                                              *)
EXTENDS ScheduledJob, TLC

ReplicaSymmetry == Permutations(Replica)
=============================================================================
