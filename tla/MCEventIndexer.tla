--------------------------- MODULE MCEventIndexer ---------------------------
(* Instances of EventIndexer: two events that are no payments, a payment   *)
(* to a wallet whose profile may be deleted and made again, and a payment  *)
(* to a wallet without one.                                                *)
EXTENDS EventIndexer

CONSTANTS x1, x2, a1, a2

MCTxOf        == [e \in Event |-> IF e = 4 THEN x2 ELSE x1]
MCRecipientOf == [e \in Event |-> IF e = 4 THEN a2 ELSE a1]
MCWalletOf    == [p \in Profile |-> a1]
=============================================================================
