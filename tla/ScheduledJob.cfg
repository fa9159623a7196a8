\* Two replicas, three profiles in pages of two; an error, a crash, a preference.
SPECIFICATION Spec
CONSTANTS
  Replica = {r1, r2}
  Profiles = 3
  BatchSize = 2
  Interval = 3
  RetryDelay = 1
  MaxClock = 10
  MaxErrors = 1
  MaxCrashes = 1
  MaxChanges = 1
SYMMETRY ReplicaSymmetry
INVARIANTS Inv RunsApart
PROPERTIES NewerClaimStands EverybodyDone
CHECK_DEADLOCK FALSE
