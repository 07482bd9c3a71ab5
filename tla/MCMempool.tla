----------------------------- MODULE MCMempool -----------------------------
(***************************************************************************)
(* 1 has two outputs; 2 spends the first, and 3 the second and an output   *)
(* of 2, so that 1 is an ancestor of 3 twice.  4 conflicts with 2 and may  *)
(* replace it.  5 spends 3 and another coin, and is final only in a second *)
(* block; 6 spends the other output of 2.                                  *)
(***************************************************************************)
EXTENDS Mempool

MCTxs == 1 .. 6
MCCoinbase == {<<0, 1>>, <<0, 2>>}
MCvin == << {<<0, 1>>}, {<<1, 1>>}, {<<1, 2>>, <<2, 1>>}, {<<1, 1>>}, {<<3, 1>>, <<0, 2>>}, {<<2, 2>>} >>
MCSize == <<1, 1, 2, 1, 1, 1>>
MCFee == <<2, 1, 6, 9, 3, 4>>
MCOptIn == {2, 3}
MCFinalFrom == <<1, 1, 1, 1, 2, 1>>
MCBodies == {<<>>, <<1>>, <<1, 2>>, <<1, 4>>, <<1, 2, 3>>}
MCDeltas == {1, 2, 3} \X {2, -2}
============================================================================
