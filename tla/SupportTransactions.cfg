\* Two POSTs at a time, a recurring execution, a milestone whose asset may change.
SPECIFICATION FairSpec
CONSTANTS
  t1 = t1  t2 = t2  x1 = x1  xlm = xlm
  Tx = {t1, t2}
  AmountOf <- MCAmountOf
  AssetOf <- MCAssetOf
  Execution = {x1}
  PayableBy <- MCPayableBy
  Milestone = {m1, m2}
  Asset = {xlm, usdc}
  Target = {2}
  NewTargets = {}
  NewAssets = {usdc}
  Request = {r1, r2}
  Owner = {o1}
  MaxMilestones = 2
  None = None
  MaxPatches = 1
  MaxFailures = 1
INVARIANTS Inv PaidOnce
PROPERTIES EventuallyAnswered
