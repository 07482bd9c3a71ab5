--------------------------- MODULE MCCoinsCache ---------------------------
(* CoinsCache with two outpoints, two kinds of coins of different size, one of *)
(* them unspendable, and two block hashes.                                     *)
EXTENDS CoinsCache
CONSTANTS c1, c2, r

MCCoins == {c1, c2, r}
MCUnspendable == {r}
MCUsage == [c \in MCCoins |-> IF c = c1 THEN 1 ELSE 2]
===========================================================================
