----------------------------- MODULE MCAccounts -----------------------------
(* Accounts with the two lists of assets that share the one without issuer.  *)
EXTENDS Accounts, TLC

MCAssetLists == {{XLM}, {XLM} \cup OtherAssets}
MCSymmetry == Permutations(Wallets) \cup Permutations(Emails \ TakenEmails)
=============================================================================
