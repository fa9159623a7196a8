--------------------------- MODULE MCSupportPage ---------------------------
(* Two accounts, two interchangeable tokens, counters and amounts of a few  *)
(* units.                                                                   *)
EXTENDS SupportPage, TLC

\* Lengths on both sides of the contract's limits (280 characters, 12 characters).
MCMessageLen == {0, 280, 281}
MCCodeLen == {0, 12, 13}

AssetSymmetry == Permutations(Asset)
=============================================================================
