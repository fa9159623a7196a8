\* Two calls about a right and a wrong claim; the worker, two replicas' sweeps and a
\* request's share a row that is requeued; three checks of a profile's badges.
SPECIFICATION Spec
CONSTANTS
  right = right  wrong = wrong
  Claims = {right, wrong}
  TxOf <- MCTxOf
  PageOf <- MCPageOf
  LastPage = 2
  Verifiers = {v1, v2}
  PositiveTTL = 3
  NegativeTTL = 1
  CacheSize = 1
  Retries = 2
  MaxTime = 3
  Delivery = {d1}
  Poller = {p1, p2}
  SweepRequest = {q1}
  QueueWorker = worker
  Admin = {a1}
  UseQueue = TRUE
  PromptWrites = TRUE
  MaxAttempts = 2
  MaxRequeues = 1
  MaxLosses = 1
  first = first  ten = ten
  PaymentBadges = {first, ten}
  MilestoneBadges = {goal}
  Needs <- MCNeeds
  Checks = {k1, k2}
  HourlyCheck = hourly
  MaxPayments = 3
  MaxBadgeEvents = 3
INVARIANTS Inv PendingIsReachable
PROPERTIES VerdictIsRight SuccessIsFinal EventuallySettled EarnedIsAwarded
CHECK_DEADLOCK FALSE
