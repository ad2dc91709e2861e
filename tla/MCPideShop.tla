----------------------------- MODULE MCPideShop -----------------------------
(* Instances of the PideShop model for TLC. *)
EXTENDS ShopProperties, TLC

\* Sizes of the orders, one number per client.
ThreePides == <<3>>
TwoAndOne  == <<2, 1>>

\* Neither the cooks nor the motos can be told apart.
Alike == Permutations(Cooks) \cup Permutations(Motos)
=============================================================================
