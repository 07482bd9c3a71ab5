---------------------------- MODULE MCTxDownload ----------------------------
(***************************************************************************)
(* Two peers: "h" is honest and announces the parent by its txid; "d" is   *)
(* preferred, relays by wtxid and does what it likes.  The parent has a    *)
(* witness (txid 1, wtxid 9) and "bare" is the same without it; c2 spends  *)
(* from the parent and from c1; the block holds the parent and "other",    *)
(* which conflicts with c1.                                                *)
(***************************************************************************)
EXTENDS TxDownload

MCTxData ==
  [parent |-> [txid |-> 1, wtxid |-> 9, vin |-> {<<0, 0>>}, heavy |-> FALSE, verdict |-> "valid"],
   bare   |-> [txid |-> 1, wtxid |-> 1, vin |-> {<<0, 0>>}, heavy |-> FALSE, verdict |-> "stripped"],
   c1     |-> [txid |-> 3, wtxid |-> 3, vin |-> {<<1, 0>>}, heavy |-> FALSE, verdict |-> "valid"],
   c2     |-> [txid |-> 2, wtxid |-> 2, vin |-> {<<1, 1>>, <<3, 0>>}, heavy |-> FALSE, verdict |-> "valid"],
   other  |-> [txid |-> 4, wtxid |-> 4, vin |-> {<<1, 0>>}, heavy |-> FALSE, verdict |-> "valid"]]
MCSalt == [k \in {"h", "d"} \X {1, 3, 9} |-> IF k[1] = "h" THEN 0 ELSE 1]
MCAnnounces == [h |-> {1}, d |-> {9}]
MCSends == [h |-> {"parent"}, d |-> {"bare", "c1", "c2", "parent"}]
MCBlocks == {{"parent", "other"}}

=============================================================================
