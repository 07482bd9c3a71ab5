----------------------------- MODULE TxOrphanage ----------------------------
(***************************************************************************)
(* TxOrphanage (txorphanage.cpp): transactions with missing inputs, found  *)
(* by txid, by wtxid, by the outpoints they spend, and by position in a    *)
(* list from which one is evicted at random.                               *)
(*                                                                         *)
(* The orphanage is a record: orphans is m_orphans, list m_orphan_list     *)
(* (of txids, positions count from 1), wtxids m_wtxid_to_orphan_it and     *)
(* outpoints m_outpoint_to_orphan_it.  nTimeExpire and nNextSweep are kept *)
(* relative to the present, and 0 when they have come.                     *)
(***************************************************************************)
EXTENDS Integers, Sequences, FiniteSets, SequencesExt

CONSTANTS
  Txs,
  TxData,       \* of each transaction: txid, wtxid, vin (outpoints <<txid, n>>), heavy, verdict
  ORPHAN_TX_EXPIRE_TIME, ORPHAN_TX_EXPIRE_INTERVAL

ASSUME TxOrphanageAssumption ==
  /\ \A t \in Txs : TxData[t].txid \in Nat /\ TxData[t].wtxid \in Nat
  /\ ORPHAN_TX_EXPIRE_INTERVAL \in 1..ORPHAN_TX_EXPIRE_TIME

VARIABLE orphanage

txid(t)  == TxData[t].txid
wtxid(t) == TxData[t].wtxid
vin(t)   == TxData[t].vin
Parents(t) == {op[1] : op \in vin(t)}

\* nNextSweep starts at the epoch.
EmptyOrphanage == [orphans |-> <<>>, list |-> <<>>, wtxids |-> <<>>, outpoints |-> <<>>, nextSweep |-> 0]

SpentBy(o, op) == IF op \in DOMAIN o.outpoints THEN o.outpoints[op] ELSE {}

AddTx(o, t, peer) ==
  LET id == txid(t) IN
  IF id \in DOMAIN o.orphans \/ TxData[t].heavy THEN o
  ELSE [o EXCEPT
    !.orphans = (id :> [tx |-> t, peer |-> peer, expire |-> ORPHAN_TX_EXPIRE_TIME,
                        pos |-> Len(o.list) + 1]) @@ @,
    !.list = Append(@, id),
    !.wtxids = @ @@ (wtxid(t) :> id),
    !.outpoints = [op \in vin(t) |-> SpentBy(o, op) \cup {id}] @@ @]


\* EraseTx fills the gap in the list with the last entry.
EraseTx(o, id) ==
  IF id \notin DOMAIN o.orphans THEN o
  ELSE LET e == o.orphans[id]
           last == Last(o.list)
           without(op) == SpentBy(o, op) \ {id}
           emptied == {op \in vin(e.tx) : without(op) = {}}
       IN [o EXCEPT
             !.orphans = Restrict([@ EXCEPT ![last].pos = e.pos], DOMAIN @ \ {id}),
             !.list = Front(ReplaceAt(@, e.pos, last)),
             !.wtxids = Restrict(@, DOMAIN @ \ {wtxid(e.tx)}),
             !.outpoints = [op \in DOMAIN @ \ emptied |-> IF op \in vin(e.tx) THEN without(op) ELSE @[op]]]

\* The order of a series of erasures shows in the order of the list only.
EraseAll(o, ids) == FoldSet(LAMBDA id, r : EraseTx(r, id), o, ids)

EraseForPeer(o, peer) == EraseAll(o, {id \in DOMAIN o.orphans : o.orphans[id].peer = peer})

EraseForBlock(o, block) == EraseAll(o, UNION {SpentBy(o, op) : op \in UNION {vin(t) : t \in block}})

\* The sweep of LimitOrphans, made when nNextSweep has come.
Sweep(o) ==
  LET expired == {id \in DOMAIN o.orphans : o.orphans[id].expire <= 0}
      kept == {o.orphans[id].expire : id \in DOMAIN o.orphans \ expired}
      minExp == Min(kept \cup {ORPHAN_TX_EXPIRE_TIME - ORPHAN_TX_EXPIRE_INTERVAL})
  IN IF o.nextSweep > 0 THEN o
     ELSE [EraseAll(o, expired) EXCEPT !.nextSweep = minExp + ORPHAN_TX_EXPIRE_INTERVAL]

\* The possible results of LimitOrphans: which ones are evicted is random.
LimitOrphans(o, max) ==
  LET s == Sweep(o)
      n == Cardinality(DOMAIN s.orphans)
  IN IF n <= max THEN {s} ELSE {EraseAll(s, S) : S \in kSubset(n - max, DOMAIN s.orphans)}

\* The txids AddChildrenToWorkSet adds for a transaction.
Children(o, t) == UNION {SpentBy(o, op) : op \in {q \in DOMAIN o.outpoints : q[1] = txid(t)}}

HaveOrphan(o, h, byWtxid) == h \in DOMAIN (IF byWtxid THEN o.wtxids ELSE o.orphans)

\* Time passes.
Age(o) ==
  [o EXCEPT !.orphans = [id \in DOMAIN @ |-> [@[id] EXCEPT !.expire = Max({@ - 1, 0})]],
            !.nextSweep = Max({@ - 1, 0})]

---------------------------------------------------------------------------
\* The four containers of the orphanage describe the same transactions:
\* what m_orphan_list, m_wtxid_to_orphan_it and m_outpoint_to_orphan_it hold
\* are exactly the entries of m_orphans, and EraseTx's assertion
\* m_orphan_list[old_pos] == it holds for each of them.
IndexesAgree ==
  LET o == orphanage IN
  /\ Len(o.list) = Cardinality(DOMAIN o.orphans)
  /\ \A id \in DOMAIN o.orphans :
       /\ txid(o.orphans[id].tx) = id
       /\ o.orphans[id].pos \in DOMAIN o.list /\ o.list[o.orphans[id].pos] = id
  /\ DOMAIN o.wtxids = {wtxid(o.orphans[id].tx) : id \in DOMAIN o.orphans}
  /\ \A id \in DOMAIN o.orphans : o.wtxids[wtxid(o.orphans[id].tx)] = id
  /\ DOMAIN o.outpoints = UNION {vin(o.orphans[id].tx) : id \in DOMAIN o.orphans}
  /\ \A op \in DOMAIN o.outpoints :
       o.outpoints[op] = {id \in DOMAIN o.orphans : op \in vin(o.orphans[id].tx)}

\* No orphan waits longer than ORPHAN_TX_EXPIRE_INTERVAL past its expiry
\* for the next sweep, though a sweep is made for several of them at once
\* and nNextSweep is not touched when an orphan is added.
SweepInTime ==
  \A id \in DOMAIN orphanage.orphans :
    orphanage.nextSweep <= orphanage.orphans[id].expire + ORPHAN_TX_EXPIRE_INTERVAL


=============================================================================
