\* Two replicas, overlapping pages, profiles that come and go, one cut tick.
SPECIFICATION FairIndexerSpec
CONSTANTS
  x1 = x1  x2 = x2  a1 = a1  a2 = a2
  Replica = {r1, r2}
  Tx = {x1, x2}
  Recipient = {a1, a2}
  Profile = {p1, p2}
  WalletOf <- MCWalletOf
  MaxEvents = 4
  TxOf <- MCTxOf
  RecipientOf <- MCRecipientOf
  Decodable = {3, 4}
  PageSize = 2
  TakeLimit = 2
  ReportsCursor = TRUE
  Backfill = TRUE
  OrphanProfile = TRUE
  Orphan = Orphan
  NoRow = NoRow
  MaxFailures = 1
INVARIANTS KeptUpToCursor LinkedToWallet
PROPERTIES EventuallyIngested EventuallyLinked
