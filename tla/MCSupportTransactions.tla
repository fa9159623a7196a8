----------------------- MODULE MCSupportTransactions -----------------------
(* The instance of SupportTransactions: two payments in one asset, either  *)
(* of which may pay the recurring execution.                               *)
EXTENDS SupportTransactions, TLC

CONSTANTS t1, t2, x1, xlm

MCAmountOf  == t1 :> 1 @@ t2 :> 2
MCAssetOf   == t1 :> xlm @@ t2 :> xlm
MCPayableBy == x1 :> {t1, t2}
=============================================================================
