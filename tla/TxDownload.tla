----------------------------- MODULE TxDownload -----------------------------
(***************************************************************************)
(* How PeerManagerImpl (net_processing.cpp) fetches transactions: it feeds *)
(* the request tracker (TxRequest) from inv, tx and notfound messages,     *)
(* parks transactions with missing inputs in the orphanage (TxOrphanage)   *)
(* and tries them again when a parent was accepted.                        *)
(*                                                                         *)
(* A message handler runs under cs_main and g_cs_orphans and is one step;  *)
(* BlockConnected runs on the scheduler thread and takes those locks one   *)
(* after the other, so it is three.  The memory pool and the chain are the *)
(* sets of transactions they hold; what ProcessTransaction says of one     *)
(* follows from them and from the transaction's own verdict.  The rolling  *)
(* filters of recent transactions are sets: at this size they neither      *)
(* forget nor err.                                                         *)
(***************************************************************************)
EXTENDS TxRequest, TxOrphanage

CONSTANTS
  Preferred,                      \* peers with fPreferredDownload
  WtxidRelay,                     \* peers with m_wtxid_relay
  Unlimited,                      \* peers with the relay permission
  Announces, Sends,               \* what each peer may announce (hashes) and send
  Honest,                         \* peers that send on request, and only then, what they announce
  Blocks,                         \* the sets of transactions a block may hold
  MAX_PEER_TX_ANNOUNCEMENTS, MAX_PEER_TX_REQUEST_IN_FLIGHT, MaxOrphans,
  NONPREF_PEER_TX_DELAY, TXID_RELAY_DELAY, OVERLOADED_PEER_TX_DELAY, GETDATA_TX_INTERVAL

ASSUME TxDownloadAssumption ==
  /\ Honest \subseteq Peers /\ Announces \in [Peers -> SUBSET Hashes] /\ Sends \in [Peers -> SUBSET Txs]

VARIABLES
  conn,                           \* "new", "connected" or "gone", of each node id
  workset,                        \* m_orphan_work_set of each peer
  mempool, chain,                 \* transactions
  m_recent_rejects, staleRejects, \* hashes; whether the tip moved since they were noted
  m_recent_confirmed_transactions,
  connecting,                     \* BlockConnected: the block and the next stretch
  stranded                        \* history: orphans in the work set of a peer when it went

nodeVars == <<mempool, chain, connecting, m_recent_confirmed_transactions>>
vars == <<txrequest, orphanage, conn, workset, nodeVars, m_recent_rejects, staleRejects, stranded>>

NoBlock == [block |-> {}, step |-> "none"]

Init ==
  /\ txrequest = EmptyTracker /\ orphanage = EmptyOrphanage
  /\ conn = [p \in Peers |-> "new"] /\ workset = [p \in Peers |-> {}]
  /\ mempool = {} /\ chain = {} /\ m_recent_confirmed_transactions = {}
  /\ m_recent_rejects = {} /\ staleRejects = FALSE
  /\ connecting = NoBlock /\ stranded = {}

---------------------------------------------------------------------------
Connected == {p \in Peers : conn[p] = "connected"}
HasWitness(t) == txid(t) # wtxid(t)
Ids(T) == {txid(t) : t \in T}

\* AlreadyHaveTx forgets the rejects of another tip before it looks.
Rejects == IF staleRejects THEN {} ELSE m_recent_rejects
AlreadyHaveTx(h, byWtxid) ==
  \/ HaveOrphan(orphanage, h, byWtxid)
  \/ h \in m_recent_confirmed_transactions \cup Rejects
  \/ \E t \in mempool : h = IF byWtxid THEN wtxid(t) ELSE txid(t)

AddTxAnnouncement(s, p, h, byWtxid) ==
  LET limited == p \notin Unlimited
      delay == (IF p \in Preferred THEN 0 ELSE NONPREF_PEER_TX_DELAY)
             + (IF ~byWtxid /\ Connected \cap WtxidRelay # {} THEN TXID_RELAY_DELAY ELSE 0)
             + (IF limited /\ CountInFlight(s, p) >= MAX_PEER_TX_REQUEST_IN_FLIGHT
                THEN OVERLOADED_PEER_TX_DELAY ELSE 0)
  IN IF limited /\ Count(s, p) >= MAX_PEER_TX_ANNOUNCEMENTS THEN s
     ELSE ReceivedInv(s, p, h, byWtxid, p \in Preferred, delay)

ForgetBoth(s, t) == ForgetTxHash(ForgetTxHash(s, txid(t)), wtxid(t))

\* ProcessTransaction on a pool: a transaction known by txid is a conflict;
\* inputs are missing when a parent of this model is nowhere or a block
\* spent them; a conflict within the pool is refused.
Judge(t, pool) ==
  LET known == Ids(pool \cup chain)
      spentIn(T) == \E u \in T : txid(u) # txid(t) /\ vin(u) \cap vin(t) # {}
  IN IF txid(t) \in known \/ spentIn(pool) THEN "invalid"
     ELSE IF (Parents(t) \cap Ids(Txs)) \ known # {} \/ spentIn(chain) THEN "missing"
     ELSE TxData[t].verdict

\* The hashes a refused transaction adds to m_recent_rejects.
RefusedStripped(t, verdict) == {wtxid(t)}   \* variant: not told apart from other failures
Refused(t, verdict) ==
  IF verdict = "stripped" THEN {}
  ELSE {wtxid(t)} \cup (IF verdict = "nonstandard" THEN {txid(t)} ELSE {})

\* ProcessOrphanTx: takes the orphans of the work set in order, up to the
\* first that is accepted or refused.
OnlyQueued(work, orph, pool, rej) ==   \* variant: does not queue the children of an accepted orphan
  LET verdict(id) == Judge(orph.orphans[id].tx, pool)
      decided == {id \in work \cap DOMAIN orph.orphans : verdict(id) # "missing"}
      id == Min(decided)
  IN IF decided = {} THEN [work |-> {}, orphanage |-> orph, mempool |-> pool, rejects |-> rej]
     ELSE [work |-> {i \in work : i > id}, orphanage |-> EraseTx(orph, id), rejects |-> rej,
           mempool |-> IF verdict(id) = "valid" THEN pool \cup {orph.orphans[id].tx} ELSE pool]
ProcessOrphanTx(work, orph, pool, rej) ==
  LET verdict(id) == Judge(orph.orphans[id].tx, pool)
      decided == {id \in work \cap DOMAIN orph.orphans : verdict(id) # "missing"}
  IN IF decided = {} THEN [work |-> {}, orphanage |-> orph, mempool |-> pool, rejects |-> rej]
     ELSE LET id == Min(decided)
              t == orph.orphans[id].tx
              valid == verdict(id) = "valid"
          IN [work |-> {i \in work : i > id} \cup (IF valid THEN Children(orph, t) ELSE {}),
              orphanage |-> EraseTx(orph, id),
              mempool |-> IF valid THEN pool \cup {t} ELSE pool,
              rejects |-> IF valid THEN rej ELSE rej \cup Refused(t, verdict(id))]

Apply(p, r) ==
  /\ workset' = [workset EXCEPT ![p] = r.work] /\ orphanage' = r.orphanage
  /\ mempool' = r.mempool /\ m_recent_rejects' = r.rejects

---------------------------------------------------------------------------
(* Messages *)

InitializeNode(p) ==
  /\ conn[p] = "new" /\ conn' = [conn EXCEPT ![p] = "connected"]
  /\ UNCHANGED <<txrequest, orphanage, workset, nodeVars, m_recent_rejects, staleRejects, stranded>>

FinalizeNode(p) ==
  /\ p \in Connected /\ conn' = [conn EXCEPT ![p] = "gone"]
  /\ orphanage' = EraseForPeer(orphanage, p) /\ txrequest' = DisconnectedPeer(txrequest, p)
  /\ stranded' = (stranded \cup workset[p]) \cap DOMAIN orphanage'.orphans
  /\ workset' = [workset EXCEPT ![p] = {}]
  /\ UNCHANGED <<nodeVars, m_recent_rejects, staleRejects>>

Inv(p, h) ==
  /\ p \in Connected /\ h \in Announces[p]
  /\ txrequest' = IF AlreadyHaveTx(h, p \in WtxidRelay) THEN txrequest
                  ELSE AddTxAnnouncement(txrequest, p, h, p \in WtxidRelay)
  /\ m_recent_rejects' = Rejects /\ staleRejects' = FALSE
  /\ UNCHANGED <<orphanage, conn, workset, nodeVars, stranded>>

\* The branches of the tx handler, after the responses were noted in "s".
TxAccepted(p, t, s) ==
  /\ txrequest' = ForgetBoth(s, t)
  /\ Apply(p, ProcessOrphanTx(workset[p] \cup Children(orphanage, t), orphanage, mempool \cup {t}, Rejects))
  /\ staleRejects' = FALSE

ParentsOf(s, p, t) ==
  FoldSet(LAMBDA h, r : IF AlreadyHaveTx(h, FALSE) THEN r ELSE AddTxAnnouncement(r, p, h, FALSE), s, Parents(t))

TxOrphaned(p, t, s) ==
  /\ IF Parents(t) \cap Rejects # {}
     THEN /\ m_recent_rejects' = Rejects \cup {txid(t), wtxid(t)}
          /\ txrequest' = ForgetBoth(s, t) /\ UNCHANGED orphanage
     ELSE /\ txrequest' = ForgetBoth(ParentsOf(s, p, t), t)
          /\ orphanage' \in LimitOrphans(AddTx(orphanage, t, p), MaxOrphans)
          /\ m_recent_rejects' = Rejects
  /\ staleRejects' = FALSE /\ UNCHANGED <<workset, mempool>>

TxRefused(t, s, verdict) ==
  /\ m_recent_rejects' = Rejects \cup Refused(t, verdict) /\ staleRejects' = FALSE
  /\ txrequest' = FoldSet(LAMBDA h, r : ForgetTxHash(r, h), s, Refused(t, verdict))
  /\ UNCHANGED <<orphanage, workset, mempool>>

TxMessage(p, t) ==
  LET s1 == ReceivedResponse(txrequest, p, txid(t))
      s == IF HasWitness(t) THEN ReceivedResponse(s1, p, wtxid(t)) ELSE s1
      verdict == Judge(t, mempool)
  IN /\ p \in Connected
     /\ IF AlreadyHaveTx(wtxid(t), TRUE)
        THEN /\ txrequest' = s /\ m_recent_rejects' = Rejects /\ staleRejects' = FALSE
             /\ UNCHANGED <<orphanage, workset, mempool>>
        ELSE CASE verdict = "valid"   -> TxAccepted(p, t, s)
               [] verdict = "missing" -> TxOrphaned(p, t, s)
               [] OTHER               -> TxRefused(t, s, verdict)
     /\ UNCHANGED <<conn, chain, connecting, m_recent_confirmed_transactions, stranded>>

Unsolicited(p, t) == p \notin Honest /\ t \in Sends[p] /\ TxMessage(p, t)

\* An honest peer sends what it has when it was asked for it.
Asked(p, t) == t \in Sends[p] /\ \E h \in {txid(t), wtxid(t)} :
  <<p, h>> \in DOMAIN txrequest.index /\ txrequest.index[<<p, h>>].state = "REQUESTED"
Answer(p, t) == p \in Honest /\ Asked(p, t) /\ TxMessage(p, t)

NotFound(p, h) ==
  /\ p \in Connected \ Honest /\ txrequest' = ReceivedResponse(txrequest, p, h)
  /\ UNCHANGED <<orphanage, conn, workset, nodeVars, m_recent_rejects, staleRejects, stranded>>

\* The start of ProcessMessages; the rejects of another tip are left as they are.
ProcessOrphans(p) ==
  /\ p \in Connected /\ workset[p] # {}
  /\ Apply(p, ProcessOrphanTx(workset[p], orphanage, mempool, m_recent_rejects))
  /\ UNCHANGED <<txrequest, conn, chain, connecting, m_recent_confirmed_transactions, staleRejects, stranded>>

\* The getdata part of SendMessages.
SendMessages(p) ==
  LET s == SetTimePoint(txrequest)
      request(k, r) == IF AlreadyHaveTx(k[2], s.index[k].wtxid) THEN ForgetTxHash(r, k[2])
                       ELSE RequestedTx(r, p, k[2], GETDATA_TX_INTERVAL)
  IN /\ p \in Connected
     /\ txrequest' = FoldSet(request, s, Requestable(s, p))
     /\ IF Requestable(s, p) = {} THEN UNCHANGED <<m_recent_rejects, staleRejects>>
        ELSE m_recent_rejects' = Rejects /\ staleRejects' = FALSE
     /\ UNCHANGED <<orphanage, conn, workset, nodeVars, stranded>>

---------------------------------------------------------------------------
(* Blocks and time *)

\* The chain grows by a block; the pool loses its transactions and those
\* that conflict with it, with their descendants.
ConnectTip(b) ==
  LET spends(t) == \E u \in b : u # t /\ vin(u) \cap vin(t) # {}
      gone == {t \in mempool : spends(t) \/ \E u \in mempool : spends(u) /\ txid(u) \in Parents(t)}
  IN /\ connecting = NoBlock /\ chain = {}
     /\ chain' = b /\ mempool' = mempool \ (b \cup gone) /\ staleRejects' = TRUE
     /\ connecting' = [block |-> b, step |-> "erase"]
     /\ UNCHANGED <<txrequest, orphanage, conn, workset, m_recent_confirmed_transactions, m_recent_rejects, stranded>>

BlockConnectedErase ==
  /\ connecting.step = "erase" /\ connecting' = [connecting EXCEPT !.step = "confirm"]
  /\ orphanage' = EraseForBlock(orphanage, connecting.block)
  /\ UNCHANGED <<txrequest, conn, workset, mempool, chain, m_recent_confirmed_transactions, m_recent_rejects, staleRejects, stranded>>

BlockConnectedConfirm ==
  /\ connecting.step = "confirm" /\ connecting' = [connecting EXCEPT !.step = "forget"]
  /\ m_recent_confirmed_transactions' = m_recent_confirmed_transactions
       \cup UNION {{txid(t), wtxid(t)} : t \in connecting.block}
  /\ UNCHANGED <<txrequest, orphanage, conn, workset, mempool, chain, m_recent_rejects, staleRejects, stranded>>

BlockConnectedForget ==
  /\ connecting.step = "forget" /\ connecting' = NoBlock
  /\ txrequest' = FoldSet(LAMBDA t, s : ForgetBoth(s, t), txrequest, connecting.block)
  /\ UNCHANGED <<orphanage, conn, workset, mempool, chain, m_recent_confirmed_transactions, m_recent_rejects, staleRejects, stranded>>

\* The answer of an honest peer comes before the request times out.
Tick ==
  /\ \A p \in Honest : \A t \in Sends[p] : \A h \in {txid(t), wtxid(t)} :
       Asked(p, t) /\ <<p, h>> \in DOMAIN txrequest.index => txrequest.index[<<p, h>>].time # 1
  /\ txrequest' = Elapse(txrequest, 1) /\ orphanage' = Age(orphanage)
  /\ UNCHANGED <<conn, workset, nodeVars, m_recent_rejects, staleRejects, stranded>>

Next ==
  \/ \E p \in Peers : InitializeNode(p) \/ FinalizeNode(p) \/ ProcessOrphans(p) \/ SendMessages(p)
  \/ \E p \in Peers, h \in Hashes : Inv(p, h) \/ NotFound(p, h)
  \/ \E p \in Peers, t \in Txs : Unsolicited(p, t) \/ Answer(p, t)
  \/ \E b \in Blocks : ConnectTip(b)
  \/ BlockConnectedErase \/ BlockConnectedConfirm \/ BlockConnectedForget
  \/ Tick

\* When SendMessages has something to do.
SendPending(p) ==
  /\ p \in Connected
  /\ \E k \in DOMAIN txrequest.index :
       LET a == txrequest.index[k]
       IN \/ IsWaiting(a) /\ a.time <= 0
          \/ IsSelectable(a) /\ a.time > 0
          \/ k[1] = p /\ a.state = "BEST"

\* The message handler thread serves every connected peer over and over, an
\* honest peer answers, and time passes: no announcement stays in the future.
\* A SendMessages ends what it had to do and an Answer the request, so that
\* the first two conditions are the weak fairness of these actions.
Future(k) == k \in DOMAIN txrequest.index /\ txrequest.index[k].state # "COMPLETED"
               /\ txrequest.index[k].time > 0
Fairness ==
  /\ \A p \in Peers : []<>~SendPending(p)
  /\ \A p \in Honest : \A t \in Sends[p] : []<>~Asked(p, t)
  /\ \A k \in Peers \X Hashes : []<>~Future(k)

Spec == Init /\ [][Next]_vars /\ Fairness

---------------------------------------------------------------------------
\* An orphan all of whose parents are in the pool is waiting in the work
\* set of a peer, unless the peer with that set went away: accepting the
\* last parent queues it and only a verdict takes it out again.
OrphansQueued ==
  \A id \in DOMAIN orphanage.orphans :
    Parents(orphanage.orphans[id].tx) \cap Ids(Txs) \subseteq Ids(mempool) =>
      id \in stranded \cup UNION {workset[p] : p \in Peers}

\* "The same transaction is never requested twice from the same peer,
\* unless the announcement was forgotten in between": a COMPLETED
\* announcement stays so as long as it is kept.
AskedOnce ==
  [][\A k \in DOMAIN txrequest.index \cap DOMAIN txrequest'.index :
       txrequest.index[k].state = "COMPLETED" => txrequest'.index[k].state = "COMPLETED"]_vars

\* A transaction without missing parents that an honest peer announced is
\* in the pool or in a block in the end, whatever the other peers do, if
\* the announcement was taken and the peer stays.
TxArrives ==
  \A p \in Honest : \A t \in Sends[p] :
    (\E h \in {txid(t), wtxid(t)} : TxData[t].verdict = "valid" /\ Parents(t) \cap Ids(Txs) = {}
        /\ <<p, h>> \in DOMAIN txrequest.index /\ txrequest.index[<<p, h>>].state # "COMPLETED")
      ~> (t \in mempool \cup chain \/ conn[p] = "gone")

=============================================================================
