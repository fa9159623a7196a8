SPECIFICATION Spec
CONSTANTS
  Views = {"panel", "goals", "hooks", "analytics", "explore", "history", "header", "create"}
  None = None
  Empty = Empty
  Wallets = {w1, w2}
  XLM = XLM
  OtherAssets = {}
  Covers <- MCCovers
  Accepted = {}
  Amounts = {5}
  Notes = {n}
  Testnet = TRUE
  Unfunded = {w2}
  MaxSends = 1
  MaxConnects = 1
  MaxTicks = 1
  MaxAttempts = 2
  MaxGoals = 2
  Titles = {a, b}
  MaxRequests = 2
  MaxHooks = 2
  HookCap = 1
  MaxHookRequests = 2
  Viewers = {o, v}
  Owner = o
  Periods = {p1, p2, p3}
  SortFilters = {s1, s2}
  AssetFilters = {a1}
  FullPages <- MCFullPages
  Texts = {x, y}
  Usernames = {u}
  Malformed = Malformed
  Presets = {XLM, AQUA}
  KnownIssuers = {}
  SameOrigin = TRUE
INVARIANTS Inv ReportedIsPaid ListIsRight ShownIsCurrent PagesInOrder
PROPERTIES VerdictStands RowsAreAnswers VerdictComes
CHECK_DEADLOCK FALSE
