--------------------------- MODULE CoinsRecovery ---------------------------
(***************************************************************************)
(* The coins on disk across crashes (txdb.cpp, validation.cpp).            *)
(*                                                                         *)
(* FlushStateToDisk writes the block index and then the changed coins.  A  *)
(* large set of coins is written in several database batches; a crash      *)
(* between two of them leaves coins of the old and of the new tip on disk. *)
(* The batches carry markers: the first replaces DB_BEST_BLOCK by          *)
(* DB_HEAD_BLOCKS = (new tip, old tip), the last one does the reverse.  At *)
(* the next start ReplayBlocks undoes the blocks from the old tip to the   *)
(* fork and redoes those from the fork to the new tip, on whatever mixture *)
(* it finds.                                                               *)
(*                                                                         *)
(* Blocks form a fixed tree; a block is the path that leads to it from the *)
(* genesis block (included), so the null hash is the empty path NullBlock. *)
(* A coin is the height it was created at: the same transaction may be in  *)
(* two branches at different heights.                                      *)
(***************************************************************************)
EXTENDS Integers, Sequences

CONSTANTS
  Blocks, Genesis,           \* the block tree, a set of paths, and its root
  Txs,                       \* Txs[b]: sequence of [ins, outs], sets of outpoints
  Outpoints,
  Spent,                     \* no record of the coin
  MaxCrashes                 \* bound on the number of crashes

---------------------------------------------------------------------------
\* The block tree.
NullBlock == <<>>
Height(b) == Len(b) - 1
Parent(b) == SubSeq(b, 1, Len(b) - 1)
GetAncestor(b, h) == SubSeq(b, 1, h + 1)
Ancestors(b) == {SubSeq(b, 1, n) : n \in 1 .. Len(b)}   \* b included
LastCommonAncestor(a, b) ==
  CHOOSE c \in Ancestors(a) \cap Ancestors(b) :
    \A d \in Ancestors(a) \cap Ancestors(b) : Height(d) <= Height(c)

ASSUME RecoveryAssumption ==
  /\ Blocks \subseteq Seq(UNION {{b[i] : i \in DOMAIN b} : b \in Blocks})
  /\ Genesis \in Blocks /\ Len(Genesis) = 1
  /\ \A b \in Blocks : Len(b) > 0 /\ Genesis \in Ancestors(b) /\ Ancestors(b) \subseteq Blocks
  /\ \A b \in Blocks : Txs[b] \in Seq([ins : SUBSET Outpoints, outs : SUBSET Outpoints])
  /\ Txs[Genesis] = <<>>
  /\ Spent \notin Nat
  /\ MaxCrashes \in Nat

---------------------------------------------------------------------------
Touched(b) == UNION {Txs[b][i].ins \cup Txs[b][i].outs : i \in 1 .. Len(Txs[b])}

NoCoins == [o \in Outpoints |-> Spent]

\* UpdateCoins: spend the inputs, add the outputs.
UpdateCoins(m, tx, h) ==
  [o \in Outpoints |-> IF o \in tx.outs THEN h ELSE IF o \in tx.ins THEN Spent ELSE m[o]]

\* The loop of ConnectBlock: the coins after the first i transactions of b.
ConnectTxs(m, b) ==
  LET after[i \in 0 .. Len(Txs[b])] ==
        IF i = 0 THEN m ELSE UpdateCoins(after[i - 1], Txs[b][i], Height(b))
  IN  after
ConnectBlock(m, b) == ConnectTxs(m, b)[Len(Txs[b])]

\* The unspent outputs after the first n blocks up to b, and after b: what the coins must be
\* when b is the tip.
CoinsAlong(b) ==
  LET after[n \in 0 .. Len(b)] ==
        IF n = 0 THEN NoCoins ELSE ConnectBlock(after[n - 1], SubSeq(b, 1, n))
  IN  after
UTXO(b) == CoinsAlong(b)[Len(b)]

\* What ConnectBlock checked when the block was first connected: a transaction creates only
\* outputs that do not exist (BIP30), and none that it spends.
ASSUME ValidAssumption ==
  \A b \in Blocks : \A i \in 1 .. Len(Txs[b]) :
    /\ Txs[b][i].ins \cap Txs[b][i].outs = {}
    /\ \A o \in Txs[b][i].outs : ConnectTxs(UTXO(Parent(b)), b)[i - 1][o] = Spent

\* CTxUndo: the coins the i-th transaction of b spent, recorded when b was connected.
UndoCoin(b, i, o) == ConnectTxs(UTXO(Parent(b)), b)[i - 1][o]

\* The body of the loop of DisconnectBlock: spend the outputs, then ApplyTxInUndo
\* restores the inputs, over an existing coin too.
DisconnectTx(m, b, i) ==
  LET tx == Txs[b][i]
  IN  [o \in Outpoints |-> IF o \in tx.ins THEN UndoCoin(b, i, o)
                           ELSE IF o \in tx.outs THEN Spent ELSE m[o]]

\* That loop: the coins after the last i transactions of b are undone, the last one first.
DisconnectTxsForward(m, b) ==   \* variant: transactions undone first to last
  LET after[i \in 0 .. Len(Txs[b])] == IF i = 0 THEN m ELSE DisconnectTx(after[i - 1], b, i)
  IN  after
DisconnectTxs(m, b) ==
  LET after[i \in 0 .. Len(Txs[b])] ==
        IF i = 0 THEN m ELSE DisconnectTx(after[i - 1], b, Len(Txs[b]) + 1 - i)
  IN  after
DisconnectBlock(m, b) == DisconnectTxs(m, b)[Len(Txs[b])]

\* DISCONNECT_OK: every output was there, as the block made it, and no input existed.
DisconnectClean(m, b) ==
  \A i \in 1 .. Len(Txs[b]) :
    LET before == DisconnectTxs(m, b)[Len(Txs[b]) - i]
    IN  /\ \A o \in Txs[b][i].outs : before[o] = Height(b)
        /\ \A o \in Txs[b][i].ins : before[o] = Spent

\* RollforwardBlock: the transactions again, whether they had been applied or not
\* (SpendCoin of a missing coin does nothing, AddCoins is told to check).
RollforwardBlock(m, b) == ConnectTxs(m, b)[Len(Txs[b])]

\* ReplayBlocks.  The old tip is null when the first flush was cut off.
ForkOf(h) == IF h[2] = NullBlock THEN NullBlock ELSE LastCommonAncestor(h[2], h[1])

\* Its first loop: the coins m after the highest i blocks from old down to the fork are undone.
RollBack(m, old, fork) ==
  LET after[i \in 0 .. Len(old) - Len(fork)] ==
        IF i = 0 THEN m ELSE DisconnectBlock(after[i - 1], GetAncestor(old, Height(old) + 1 - i))
  IN  after

\* Its second loop: the coins m after i blocks above the fork are redone; the genesis block
\* has nothing to redo.
ForkHeight(fork) == IF fork = NullBlock THEN 0 ELSE Height(fork)
RollForward(m, fork, new) ==
  LET after[i \in 0 .. Height(new) - ForkHeight(fork)] ==
        IF i = 0 THEN m ELSE RollforwardBlock(after[i - 1], GetAncestor(new, ForkHeight(fork) + i))
  IN  after

ReplayBlocks(m, h) ==
  LET fork == ForkOf(h)
      undone == RollBack(m, h[2], fork)[Len(h[2]) - Len(fork)]
  IN  RollForward(undone, fork, h[1])[Height(h[1]) - ForkHeight(fork)]
ReplayDirty(h) ==
  UNION {Touched(b) : b \in (Ancestors(h[1]) \cup Ancestors(h[2])) \ Ancestors(ForkOf(h))}

---------------------------------------------------------------------------
VARIABLES
  db, best, heads,   \* coin database: coins, DB_BEST_BLOCK, DB_HEAD_BLOCKS
  indexDb,           \* blocks in the block index database, their data and undo data on disk
  index,             \* the block index in memory
  tip, coins,        \* active tip, and the coins the caches above the database answer
  dirty,             \* outpoints with a DIRTY entry in the cache being used
  phase,             \* where the process is
  crashes

disk == <<db, best, heads, indexDb>>
vars == <<disk, index, tip, coins, dirty, phase, crashes>>

---------------------------------------------------------------------------
Init ==
  /\ db = NoCoins /\ best = NullBlock /\ heads = <<>>
  /\ indexDb = {} /\ index = {Genesis}
  /\ tip = NullBlock /\ coins = NoCoins /\ dirty = {}
  /\ phase = "idle" /\ crashes = 0

\* AcceptBlock: a block whose parent is known enters the index and its data a file.
AcceptBlock(b) ==
  /\ phase = "idle"
  /\ b \in Blocks \ index /\ Parent(b) \in index
  /\ index' = index \cup {b}
  /\ UNCHANGED <<disk, tip, coins, dirty, phase, crashes>>

\* ConnectTip, also of the genesis block, whose transactions ConnectBlock skips.
ConnectTip(b) ==
  /\ phase = "idle"
  /\ b \in index
  /\ tip = Parent(b)
  /\ tip' = b
  /\ coins' = ConnectBlock(coins, b)
  /\ dirty' = dirty \cup Touched(b)
  /\ UNCHANGED <<disk, index, phase, crashes>>

\* DisconnectTip gives up unless DisconnectBlock is clean.
DisconnectTip ==
  /\ phase = "idle"
  /\ tip \notin {NullBlock, Genesis}
  /\ DisconnectClean(coins, tip)
  /\ tip' = Parent(tip)
  /\ coins' = DisconnectBlock(coins, tip)
  /\ dirty' = dirty \cup Touched(tip)
  /\ UNCHANGED <<disk, index, phase, crashes>>

\* FlushStateToDisk: block and undo files and the block index first; a periodic
\* write stops there, a full flush goes on with the coins.
WriteBlockIndex(full) ==
  /\ phase = "idle"
  /\ full => tip # NullBlock
  /\ indexDb' = index
  /\ phase' = IF full THEN "flush" ELSE "idle"
  /\ UNCHANGED <<db, best, heads, index, tip, coins, dirty, crashes>>

\* CCoinsViewDB::BatchWrite.  old_tip survives a replay that is itself cut off.
OldTipFirst ==   \* variant: the other element of DB_HEAD_BLOCKS
  IF best = NullBlock /\ heads # <<>> THEN heads[1] ELSE best
OldTip == IF best = NullBlock /\ heads # <<>> THEN heads[2] ELSE best
Target == IF heads # <<>> THEN heads[1] ELSE tip

Written(S) == [o \in Outpoints |-> IF o \in S THEN coins[o] ELSE db[o]]

\* A partial batch; the first one of a flush carries the markers.
PartialBatchUnmarked(S) ==   \* variant: markers only in the last batch
  /\ phase \in {"flush", "replay"}
  /\ S # {} /\ S \subseteq dirty
  /\ db' = Written(S)
  /\ dirty' = dirty \ S
  /\ UNCHANGED <<best, heads, indexDb, index, tip, coins, phase, crashes>>
PartialBatch(S) ==
  /\ phase \in {"flush", "replay"}
  /\ S # {} /\ S \subseteq dirty
  /\ db' = Written(S)
  /\ heads' = <<Target, OldTip>> /\ best' = NullBlock
  /\ dirty' = dirty \ S
  /\ UNCHANGED <<indexDb, index, tip, coins, phase, crashes>>

\* The last batch.  After a replay LoadChainTip sets the tip.
FinalBatch ==
  /\ phase \in {"flush", "replay"}
  /\ db' = Written(dirty)
  /\ heads' = <<>> /\ best' = Target
  /\ dirty' = {}
  /\ tip' = Target
  /\ phase' = "idle"
  /\ UNCHANGED <<indexDb, index, coins, crashes>>

\* The process dies: what is not on disk is gone.
Crash ==
  /\ phase # "down" /\ crashes < MaxCrashes
  /\ crashes' = crashes + 1
  /\ phase' = "down"
  /\ index' = {} /\ tip' = NullBlock /\ coins' = NoCoins /\ dirty' = {}
  /\ UNCHANGED disk

\* ReplayBlocks and LoadChainTip return an error for a block that is not in the index.
StartableRejectsNull(known) ==   \* variant: a null old tip is an unknown block
  /\ best \in known \cup {NullBlock}
  /\ heads # <<>> => heads[1] \in known /\ heads[2] \in known
Startable(known) ==
  /\ best \in known \cup {NullBlock}
  /\ heads # <<>> => heads[1] \in known /\ heads[2] \in known \cup {NullBlock}

\* LoadBlockIndex (and LoadGenesisBlock), ReplayBlocks, LoadChainTip.
Restart ==
  LET known == indexDb \cup {Genesis}
  IN  /\ phase = "down"
      /\ IF ~Startable(known) THEN UNCHANGED <<index, tip, coins, dirty, phase>>
         ELSE /\ index' = known
              /\ tip' = best
              /\ coins' = IF heads = <<>> THEN db ELSE ReplayBlocks(db, heads)
              /\ dirty' = IF heads = <<>> THEN {} ELSE ReplayDirty(heads)
              /\ phase' = IF heads = <<>> THEN "idle" ELSE "replay"
      /\ UNCHANGED <<disk, crashes>>

Next ==
  \/ \E b \in Blocks : AcceptBlock(b) \/ ConnectTip(b)
  \/ DisconnectTip
  \/ \E full \in BOOLEAN : WriteBlockIndex(full)
  \/ \E S \in SUBSET dirty : PartialBatch(S)
  \/ FinalBatch \/ Crash \/ Restart

\* A flush that has begun goes on, and the node is started again after a crash.
Fairness == WF_vars(FinalBatch) /\ WF_vars(Restart)
Spec == Init /\ [][Next]_vars /\ Fairness

---------------------------------------------------------------------------
\* Whenever the database names a best block its coins are exactly the unspent outputs
\* of that block, and without any marker it holds no coin (txdb.cpp:114-173).  A restart
\* never finds a marker naming a block the block index does not know ("reorganization to
\* unknown block requested"), since the index is written first.
DiskConsistent ==
  /\ best # NullBlock => heads = <<>> /\ db = UTXO(best)
  /\ best = NullBlock /\ heads = <<>> => db = NoCoins
  /\ best \in indexDb \cup {NullBlock}
  /\ heads # <<>> => heads[1] \in indexDb /\ heads[2] \in indexDb \cup {NullBlock}

\* ReplayBlocks is idempotent as its comments claim: from any mixture of coins that
\* crashes during a flush, or during earlier replays, can leave, it computes exactly
\* the unspent outputs of the new tip (validation.cpp:4071-4136).
ReplayExact == heads # <<>> => ReplayBlocks(db, heads) = UTXO(heads[1])

\* The coins in memory are those of the tip, and the block at the tip can be
\* disconnected cleanly, after any reorganisations, flushes and recoveries.
TipCoinsExact ==
  phase = "idle" /\ tip # NullBlock =>
    coins = UTXO(tip) /\ (tip # Genesis => DisconnectClean(coins, tip))

\* A flush that was begun is completed in the end, by itself or by ReplayBlocks after
\* crashes (of which there are at most MaxCrashes): the database does not stay between
\* two tips.
FlushCompletes == heads # <<>> ~> heads = <<>> /\ best # NullBlock
===========================================================================
