------------------------ MODULE MCLeaderboardCache ------------------------
(* The instance of LeaderboardCache: a reader on each of two replicas, and *)
(* the payments of one.                                                    *)
EXTENDS LeaderboardCache, TLC

CONSTANTS q1, q2, w1, r1, r2

MCReplicaOf == q1 :> r1 @@ q2 :> r2 @@ w1 :> r1
=============================================================================
