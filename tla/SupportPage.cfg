\* Counters of up to 2 and amounts of up to 2, so that both overflow.
SPECIFICATION Spec
CONSTANTS
  NumAccounts = 2
  Asset = {xlm, usdc}
  MaxU32 = 2
  MaxI128 = 2
  MaxClawed = 1
  MessageLen <- MCMessageLen
  CodeLen <- MCCodeLen
  NoAdmin = NoAdmin
SYMMETRY AssetSymmetry
INVARIANTS Inv Solvent WithdrawAlwaysPossible
PROPERTIES IsVault
CHECK_DEADLOCK FALSE
