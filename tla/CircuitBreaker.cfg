\* Two callers of one replica and one of another.
SPECIFICATION FairSpec
CONSTANTS
  r1 = r1  r2 = r2
  c1 = c1  c2 = c2  c3 = c3
  Replica = {r1, r2}
  Caller = {c1, c2, c3}
  ReplicaOf <- MCTwoAndOne
  FailureThreshold = 1
  ResetTimeout = 1
  MaxClock = 2
  OutageEnd = 2
  MaxErrors = 1
INVARIANT Inv
PROPERTIES KeepsCalling
