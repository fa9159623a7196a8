---------------------------- MODULE MCPaymentFlow ----------------------------
(* PaymentFlow with a right and a wrong claim about one transaction, and    *)
(* with two badges for payments and one for milestones.                    *)
EXTENDS PaymentFlow, TLC

CONSTANTS right, wrong, first, ten

MCTxOf == right :> "t1" @@ wrong :> "t1"
MCPageOf == right :> 2 @@ wrong :> 0
MCNeeds == first :> 1 @@ ten :> 2
=============================================================================
