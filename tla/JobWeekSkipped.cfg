\* One failure of the digest: the retry moves the claim past the next tick.
SPECIFICATION Spec
CONSTANTS
  Replica = {r1}
  Profiles = 2
  BatchSize = 1
  Interval = 4
  RetryDelay = 1
  MaxClock = 13
  MaxErrors = 1
  MaxCrashes = 0
  MaxChanges = 0
INVARIANT NoWeekSkipped
CHECK_DEADLOCK FALSE
