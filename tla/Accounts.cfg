SPECIFICATION Spec
CONSTANTS
  None = None
  Wallets = {w1, w2}
  ChallengeLife = 1
  TokenLife = 1
  MaxChallenges = 2
  MaxVerifies = 2
  MaxTime = 2
  Keep = Keep
  Emails = {e1, e2, e3}
  TakenEmails = {e3}
  XLM = XLM
  OtherAssets = {usdc}
  AssetLists <- MCAssetLists
  MaxProfileRequests = 3
  MaxMailTokens = 3
  Filings = {f1, f2, f3, f4}
  Threshold = 3
INVARIANTS Inv AsAsked
PROPERTIES LoggedOutStaysOut
CHECK_DEADLOCK FALSE
SYMMETRY MCSymmetry
