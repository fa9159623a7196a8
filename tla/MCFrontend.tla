----------------------------- MODULE MCFrontend -----------------------------
(* Frontend with one funded wallet and two full pages of creators.          *)
EXTENDS Frontend

MCCovers == [w \in Wallets |-> {XLM} \cup OtherAssets]
MCFullPages == [f \in SortFilters \cup AssetFilters |-> 2]
=============================================================================
