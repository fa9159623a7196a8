\* Two schedulers with pages of one row, two subscriptions, a PATCH, a failure.
SPECIFICATION FairSpec
CONSTANTS
  Sub = {1, 2}
  Asset = {usdc1, usdc2}
  Scheduler = {k1, k2}
  Client = {c1}
  Period <- MCPeriod
  BatchSize = 1
  Body <- MCBody
  MaxActive = 2
  MaxClock = 2
  MaxFailures = 1
  MaxPatches = 1
INVARIANT Inv
PROPERTIES RunsOnlyWhenActive EventuallyRun
