\* Two replicas that lose Redis, broadcasts and races.
SPECIFICATION FairBoardSpec
CONSTANTS
  q1 = q1  q2 = q2  w1 = w1  r1 = r1  r2 = r2
  Replica = {r1, r2}
  Reader = {q1, q2}
  Writer = {w1}
  ReplicaOf <- MCReplicaOf
  UseRedis = TRUE
  CacheTTL = 2
  FallbackTTL = 1
  MaxRows = 2
  MaxErrors = 2
INVARIANTS BoardInv StaleOnlyIfOvertaken
PROPERTIES EventuallyComplete
