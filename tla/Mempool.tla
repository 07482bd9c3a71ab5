------------------------------ MODULE Mempool ------------------------------
(***************************************************************************)
(* The memory pool and its bookkeeping (txmempool.cpp, validation.cpp).    *)
(*                                                                         *)
(* Every entry caches its parents, its children, and the number, size and  *)
(* fees of all its ancestors and of all its descendants.  They are kept up *)
(* to date by differences, on arrival, replacement, eviction, expiry,      *)
(* confirmation and change of priority.  A reorganisation puts             *)
(* transactions back under children that are already in the pool: while it *)
(* runs the links are incomplete and yet removals rely on them, and        *)
(* UpdateTransactionsFromBlock repairs them at the end.                    *)
(*                                                                         *)
(* Each operation runs under cs_main and the pool's lock, so a step is one *)
(* operation, a whole reorganisation included.  Sigop costs (which go with *)
(* sizes), memory use (taken as the number of entries), package sizes      *)
(* other than counts, and the rolling fee floor (which only refuses) are   *)
(* left out.                                                               *)
(***************************************************************************)
EXTENDS Integers, Sequences, FiniteSets, SequencesExt, FiniteSetsExt, Functions, TLC

CONSTANTS
  Txs, vin,                \* vin[t]: the outpoints <<tx, n>> that t spends
  Coinbase,                \* the outpoints that exist from the start
  Size, Fee,
  SignalsOptInRBF,         \* the transactions that may be replaced
  FinalFrom,               \* the height from which t may be mined
  Bodies,                  \* the contents a block may have: sequences of transactions
  Deltas,                  \* the transactions and values given to PrioritiseTransaction
  MaxHeight, MaxConnected, MaxDelta,   \* bounds on the chain, a reorganisation and the priorities
  LimitAncestors, LimitDescendants, MaxReplaced, MaxEntries, MaxDisconnected,
  IncrementalRelayFee

ASSUME MempoolAssumption ==
  /\ \A t \in Txs : \A o \in vin[t] : o \in Coinbase \/ o[1] \in Txs
  /\ \A t \in Txs : Size[t] \in Nat \ {0} /\ Fee[t] \in Nat
  /\ LimitAncestors >= 2

VARIABLES
  pool,    \* [mapTx, mapNextTx, mapDeltas, totalTxSize, m_total_fee]
  chain    \* the contents of the blocks of the active chain

vars == <<pool, chain>>

---------------------------------------------------------------------------
\* Entries, and the amounts that their totals sum up.
Entries(m) == DOMAIN m.mapTx
ModifiedFee(m, t) == Fee[t] + m.mapTx[t].feeDelta
Weight(m, t) == [count |-> 1, size |-> Size[t], fee |-> ModifiedFee(m, t)]
Plus(v, w) == [count |-> v.count + w.count, size |-> v.size + w.size, fee |-> v.fee + w.fee]
Minus(v, w) == [count |-> v.count - w.count, size |-> v.size - w.size, fee |-> v.fee - w.fee]
Total(m, S) ==
  FoldSet(LAMBDA t, w : Plus(Weight(m, t), w), [count |-> 0, size |-> 0, fee |-> 0], S)

Spends(t) == {o[1] : o \in vin[t]}
SpendersOf(m, t) == {m.mapNextTx[o] : o \in {o \in DOMAIN m.mapNextTx : o[1] = t}}

\* What is reached from S over the cached links.
Reach(links, S) ==
  FoldSet(LAMBDA i, R : R \cup UNION {links[t] : t \in R}, S, DOMAIN links)
CalculateDescendants(m, S) == Reach([t \in Entries(m) |-> m.mapTx[t].children], S)
Ancestors(m, P) == Reach([t \in Entries(m) |-> m.mapTx[t].parents], P)

---------------------------------------------------------------------------
\* addUnchecked: the new entry is taken to have no children.
addUnchecked(m, t, ancestors) ==
  LET delta == IF t \in DOMAIN m.mapDeltas THEN m.mapDeltas[t] ELSE 0
      own == [count |-> 1, size |-> Size[t], fee |-> Fee[t] + delta]
      parents == Spends(t) \cap Entries(m)
      linked == [u \in Entries(m) |->
                   [m.mapTx[u] EXCEPT
                      !.children = IF u \in parents THEN @ \cup {t} ELSE @,
                      !.desc = IF u \in ancestors THEN Plus(@, own) ELSE @]]
  IN  [m EXCEPT
         !.mapTx = (t :> [parents |-> parents, children |-> {}, feeDelta |-> delta,
                          anc |-> Plus(own, Total(m, ancestors)), desc |-> own]) @@ linked,
         !.mapNextTx = @ @@ [o \in vin[t] |-> t],
         !.totalTxSize = @ + Size[t],
         !.m_total_fee = @ + Fee[t]]

\* RemoveStaged: UpdateForRemoveFromMempool, which follows the cached links,
\* and removeUnchecked.  Only removal for a block leaves descendants behind.
RemoveStaged(m, S, updateDescendants) ==
  LET below(r) == CalculateDescendants(m, {r}) \ {r}
      above(r) == Ancestors(m, m.mapTx[r].parents)
      kept(u) ==
        [m.mapTx[u] EXCEPT
           !.anc = IF updateDescendants THEN Minus(@, Total(m, {r \in S : u \in below(r)})) ELSE @,
           !.desc = Minus(@, Total(m, {r \in S : u \in above(r)})),
           !.parents = @ \ {r \in S : u \in m.mapTx[r].children},
           !.children = @ \ {r \in S : u \in m.mapTx[r].parents}]
      spent == UNION {vin[r] : r \in S}
  IN  [m EXCEPT
         !.mapTx = [u \in Entries(m) \ S |-> kept(u)],
         !.mapNextTx = Restrict(@, DOMAIN @ \ spent),
         !.totalTxSize = @ - MapThenSumSet(LAMBDA r : Size[r], S),
         !.m_total_fee = @ - MapThenSumSet(LAMBDA r : Fee[r], S)]

\* removeRecursive: with the descendants; of a transaction that is not in the
\* pool, the descendants only.
removeRecursive(m, t) ==
  RemoveStaged(m, CalculateDescendants(m, IF t \in Entries(m) THEN {t} ELSE SpendersOf(m, t)), FALSE)

ClearPrioritisation(m, t) == [m EXCEPT !.mapDeltas = Restrict(@, DOMAIN @ \ {t})]

removeConflicts(m, t) ==
  FoldSet(LAMBDA o, n : IF o \in DOMAIN n.mapNextTx /\ n.mapNextTx[o] # t
                        THEN removeRecursive(ClearPrioritisation(n, n.mapNextTx[o]), n.mapNextTx[o])
                        ELSE n,
          m, vin[t])

removeForBlock(m, vtx) ==
  FoldLeft(LAMBDA n, t :
             LET confirmed == IF t \in Entries(n) THEN RemoveStaged(n, {t}, TRUE) ELSE n
             IN  ClearPrioritisation(removeConflicts(confirmed, t), t),
           m, vtx)

---------------------------------------------------------------------------
\* Eviction and expiry (LimitMempoolSize); "expired" are the entries that are
\* too old.  The score that eviction sorts by is the better of an entry's own
\* fee rate and that of it with its descendants; a tie, which the code breaks
\* by the time of entry, is broken by CHOOSE.
Score(m, t) ==
  LET e == m.mapTx[t]
  IN  IF e.desc.fee * Size[t] > ModifiedFee(m, t) * e.desc.size
      THEN <<e.desc.fee, e.desc.size>> ELSE <<ModifiedFee(m, t), Size[t]>>
LowestScore(m) ==
  CHOOSE t \in Entries(m) : \A u \in Entries(m) :
    Score(m, t)[1] * Score(m, u)[2] <= Score(m, u)[1] * Score(m, t)[2]

TrimToSize(m) ==
  FoldSet(LAMBDA i, n : IF Cardinality(Entries(n)) <= MaxEntries THEN n
                        ELSE RemoveStaged(n, CalculateDescendants(n, {LowestScore(n)}), FALSE),
          m, Entries(m))

Expire(m, expired) ==
  RemoveStaged(m, CalculateDescendants(m, expired \cap Entries(m)), FALSE)
LimitMempoolSize(m, expired) == TrimToSize(Expire(m, expired))

---------------------------------------------------------------------------
\* The chain: confirmed transactions and the coins they leave.
Confirmed(c) == ToSet(FlattenSeq(c))
HaveCoin(c, o) ==
  /\ o \in Coinbase \/ o[1] \in Confirmed(c)
  /\ \A t \in Confirmed(c) : o \notin vin[t]
CanConnect(c, vtx) ==
  \A i \in DOMAIN vtx :
    LET before == Append(c, SubSeq(vtx, 1, i - 1))
    IN  /\ vtx[i] \notin Confirmed(before)
        /\ \A o \in vin[vtx[i]] : HaveCoin(before, o)
        /\ FinalFrom[vtx[i]] <= Len(c) + 1

\* AcceptToMemoryPool: PreChecks, ReplacementChecks, Finalize.  The limit on
\* ancestors is met, or the carve-out's, which allows one more descendant.
Conflicts(m, t) == {m.mapNextTx[o] : o \in vin[t] \cap DOMAIN m.mapNextTx}
WithinLimits(m, ancestors, limitAncestors, limitDescendants) ==
  /\ Cardinality(ancestors) + 1 <= limitAncestors
  /\ \A a \in ancestors : m.mapTx[a].desc.count + 1 <= limitDescendants

PreChecks(m, c, t) ==
  LET conflicts == Conflicts(m, t)
      ancestors == Ancestors(m, Spends(t) \cap Entries(m))
      limitDescendants == IF Cardinality(conflicts) = 1 THEN LimitDescendants + 1 ELSE LimitDescendants
  IN  /\ t \notin Entries(m)
      /\ FinalFrom[t] <= Len(c) + 1
      /\ conflicts \subseteq SignalsOptInRBF
      /\ \A o \in vin[t] : o[1] \in Entries(m) \/ HaveCoin(c, o)
      /\ \/ WithinLimits(m, ancestors, LimitAncestors, limitDescendants)
         \/ WithinLimits(m, ancestors, 2, limitDescendants + 1)
      /\ ancestors \cap conflicts = {}

ReplacementChecks(m, t) ==
  LET conflicts == Conflicts(m, t)
      fee == Fee[t] + (IF t \in DOMAIN m.mapDeltas THEN m.mapDeltas[t] ELSE 0)
      replaced == CalculateDescendants(m, conflicts)
  IN  /\ \A u \in conflicts : fee * Size[u] > ModifiedFee(m, u) * Size[t]
      /\ MapThenSumSet(LAMBDA u : m.mapTx[u].desc.count, conflicts) <= MaxReplaced
      /\ Spends(t) \cap Entries(m) \subseteq UNION {Spends(u) : u \in conflicts}
      /\ fee >= Total(m, replaced).fee + IncrementalRelayFee * Size[t]

Acceptable(m, c, t) ==
  PreChecks(m, c, t) /\ (Conflicts(m, t) # {} => ReplacementChecks(m, t))
Finalize(m, t) ==
  addUnchecked(RemoveStaged(m, CalculateDescendants(m, Conflicts(m, t)), FALSE),
               t, Ancestors(m, Spends(t) \cap Entries(m)))

---------------------------------------------------------------------------
\* Entries that a reorganisation gives too many ancestors, themselves included.
OverLimitByTwo(m, S) == {u \in S : m.mapTx[u].anc.count - 1 > LimitAncestors}   \* variant
OverLimit(m, S) == {u \in S : m.mapTx[u].anc.count > LimitAncestors}

\* UpdateForDescendants: acc is [m, cache, remove].  Descendants already known
\* for a transaction of the block are taken from the cache, where those that
\* are themselves of the block ("exclude") are not counted.
UpdateForDescendants(acc, t, exclude) ==
  LET kids == SpendersOf(acc.m, t) \ exclude
      linked == [u \in Entries(acc.m) |->
                   [acc.m.mapTx[u] EXCEPT !.children = IF u = t THEN @ \cup kids ELSE @,
                                          !.parents = IF u \in kids THEN @ \cup {t} ELSE @]]
      walked == Reach([u \in DOMAIN linked |-> linked[u].children \ DOMAIN acc.cache],
                      linked[t].children)
      cached == UNION {linked[u].children : u \in walked} \cap DOMAIN acc.cache
      below == (walked \cup UNION {acc.cache[u] : u \in cached}) \ exclude
      m == [acc.m EXCEPT !.mapTx =
              [u \in DOMAIN linked |->
                 [linked[u] EXCEPT
                    !.anc = IF u \in below THEN Plus(@, Weight(acc.m, t)) ELSE @,
                    !.desc = IF u = t THEN Plus(@, Total(acc.m, below)) ELSE @]]]
  IN  [m |-> m,
       cache |-> IF below = {} THEN acc.cache ELSE (t :> below) @@ acc.cache,
       remove |-> acc.remove \cup OverLimit(m, below)]

UpdateOrder(vHashes) == Reverse(vHashes)
UpdateTransactionsFromBlock(m, vHashes) ==
  LET acc == FoldLeft(LAMBDA a, t : IF t \in Entries(a.m) THEN UpdateForDescendants(a, t, ToSet(vHashes)) ELSE a,
                      [m |-> m, cache |-> <<>>, remove |-> {}], UpdateOrder(vHashes))
  IN  FoldSet(LAMBDA t, n : IF t \in Entries(n) THEN removeRecursive(n, t) ELSE n, acc.m, acc.remove)

removeForReorg(m, c) ==
  RemoveStaged(m, CalculateDescendants(m, {t \in Entries(m) : FinalFrom[t] > Len(c) + 1}), FALSE)

\* MaybeUpdateMempoolForReorg: "queued" are the transactions of the
\* disconnected blocks, earliest first.
Resurrect(m, c, queued, fAddToMempool) ==
  FoldLeft(LAMBDA a, t : IF fAddToMempool /\ Acceptable(a.m, c, t)
                         THEN [m |-> Finalize(a.m, t), vHashUpdate |-> Append(a.vHashUpdate, t)]
                         ELSE [a EXCEPT !.m = removeRecursive(@, t)],
           [m |-> m, vHashUpdate |-> <<>>], queued)
MaybeUpdateMempoolForReorg(m, c, queued, fAddToMempool, expired) ==
  LET a == Resurrect(m, c, queued, fAddToMempool)
  IN  LimitMempoolSize(removeForReorg(UpdateTransactionsFromBlock(a.m, a.vHashUpdate), c), expired)

\* DisconnectTip, for the last n blocks: what does not fit in the queue is the
\* latest, and its children leave the pool.
Disconnected(n) == FlattenSeq(SubSeq(chain, Len(chain) - n + 1, Len(chain)))
Queued(all) == SubSeq(all, 1, IF Len(all) < MaxDisconnected THEN Len(all) ELSE MaxDisconnected)
DropUnqueued(m, all) ==
  FoldLeft(removeRecursive, m, Reverse(SubSeq(all, Len(Queued(all)) + 1, Len(all))))

---------------------------------------------------------------------------
Init ==
  /\ pool = [mapTx |-> <<>>, mapNextTx |-> <<>>, mapDeltas |-> <<>>,
             totalTxSize |-> 0, m_total_fee |-> 0]
  /\ chain = <<>>

\* What has become too old when the pool is next limited.
Expirable == {{}} \cup {{t} : t \in Entries(pool)}

AcceptToMemoryPool(t, expired) ==
  /\ Acceptable(pool, chain, t)
  /\ pool' = LimitMempoolSize(Finalize(pool, t), expired)
  /\ UNCHANGED chain

PrioritiseTransaction(t, nFeeDelta) ==
  LET old == IF t \in DOMAIN pool.mapDeltas THEN pool.mapDeltas[t] ELSE 0
      moved == [pool EXCEPT !.mapDeltas = (t :> old + nFeeDelta) @@ @]
      Add(w) == [w EXCEPT !.fee = @ + nFeeDelta]
  IN  /\ old + nFeeDelta \in 0 .. MaxDelta
      /\ pool' = IF t \notin Entries(pool) THEN moved
                 ELSE LET above == Ancestors(pool, {t})
                          below == CalculateDescendants(pool, {t})
                      IN  [moved EXCEPT !.mapTx = [u \in Entries(pool) |->
                            [@[u] EXCEPT !.feeDelta = IF u = t THEN old + nFeeDelta ELSE @,
                                         !.desc = IF u \in above THEN Add(@) ELSE @,
                                         !.anc = IF u \in below THEN Add(@) ELSE @]]]
      /\ UNCHANGED chain

ConnectTip(vtx) ==
  /\ Len(chain) < MaxHeight /\ CanConnect(chain, vtx)
  /\ pool' = removeForBlock(pool, vtx)
  /\ chain' = Append(chain, vtx)

\* ActivateBestChainStep with n blocks to disconnect; "blocks" are those then
\* connected, fewer than wanted when one is invalid.  After a failure of the
\* system (add is FALSE) nothing is put back in the pool.
Reorganise(n, blocks, add, expired) ==
  LET fork == SubSeq(chain, 1, Len(chain) - n)
      all == Disconnected(n)
      left == SelectSeq(Queued(all), LAMBDA t : t \notin Confirmed(blocks))
  IN  /\ \A i \in DOMAIN blocks : CanConnect(fork \o SubSeq(blocks, 1, i - 1), blocks[i])
      /\ chain' = fork \o blocks
      /\ pool' = MaybeUpdateMempoolForReorg(FoldLeft(removeForBlock, DropUnqueued(pool, all), blocks),
                                            chain', left, add, expired)

\* InvalidateBlock disconnects one block; after ten its transactions are not put back.
InvalidateTip(fAddToMempool, expired) ==
  LET all == Disconnected(1)
  IN  /\ chain # <<>>
      /\ chain' = Front(chain)
      /\ pool' = MaybeUpdateMempoolForReorg(DropUnqueued(pool, all), chain', Queued(all),
                                            fAddToMempool, expired)

Next ==
  \/ \E t \in Txs, x \in Expirable : AcceptToMemoryPool(t, x)
  \/ \E p \in Deltas : PrioritiseTransaction(p[1], p[2])
  \/ \E vtx \in Bodies : ConnectTip(vtx)
  \/ \E add \in BOOLEAN, x \in Expirable : InvalidateTip(add, x)
  \/ \E n \in DOMAIN chain, blocks \in BoundedSeq(Bodies, MaxConnected), add \in BOOLEAN, x \in Expirable :
       Len(chain) - n + Len(blocks) <= MaxHeight /\ Reorganise(n, blocks, add, x)

Spec == Init /\ [][Next]_vars

---------------------------------------------------------------------------

\* No entry has more ancestors than -limitancestorcount allows, although a
\* reorganisation adds ancestors to entries that were accepted without them;
\* and none is left that cannot be in the next block.
AncestorLimit ==
  \A t \in Entries(pool) : /\ Cardinality(Ancestors(pool, {t})) <= LimitAncestors
                           /\ FinalFrom[t] <= Len(chain) + 1
============================================================================
