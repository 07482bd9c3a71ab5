----------------------------- MODULE BaseIndex -----------------------------
(***************************************************************************)
(* An optional index that follows the chain (index/base.cpp).              *)
(*                                                                         *)
(* Three threads meet here.  The sync thread walks the active chain from   *)
(* the block the index last committed; block notifications are dropped     *)
(* while it does.  When it finds no next block it sets m_synced, and from  *)
(* then on the scheduler's thread applies the notifications, which may     *)
(* still hold blocks the walk has already passed, of either branch of a    *)
(* reorganisation.  A third thread waits for the index to be up to date.   *)
(* The process may crash between any two steps, any database write may     *)
(* fail, and the chain on disk may be older than the index.                *)
(*                                                                         *)
(* A written block is an element of "indexed".  A locator is the block it  *)
(* starts from: it lists every ancestor (CChain::GetLocator does for the   *)
(* last ten heights), so what FindForkInGlobalIndex finds with it is the   *)
(* highest ancestor in the chain.  Pruning is off.                         *)
(*                                                                         *)
(* A block is the path that leads to it from the genesis block (included), *)
(* so nullptr, which is before the genesis block, is the empty path.       *)
(***************************************************************************)
EXTENDS Integers, Sequences

CONSTANTS
  Blocks,                    \* the block tree, a set of paths
  InitialTips,               \* tips the node may start with
  MaxCrashes, MaxFaults,     \* bounds on what goes wrong
  WindowFaults               \* whether a crash or a failed write may come
                             \* between ThreadSync's commit and its WriteBlock

\* The block tree.  NullBlock has height -1 and no ancestors.
NullBlock == <<>>
Height(b) == Len(b) - 1
Ancestors(b) == {SubSeq(b, 1, n) : n \in 1 .. Len(b)}   \* b included

ASSUME IndexAssumption ==
  /\ Blocks \subseteq Seq(UNION {{b[i] : i \in DOMAIN b} : b \in Blocks})
  /\ \A b \in Blocks : b # NullBlock /\ Ancestors(b) \subseteq Blocks
  /\ \A b, c \in Blocks : b[1] = c[1]
  /\ InitialTips \subseteq Blocks \cup {NullBlock}
  /\ MaxCrashes \in Nat /\ MaxFaults \in Nat
  /\ WindowFaults \in BOOLEAN

VARIABLES
  tip, flushedTip,      \* the active tip, and the one the chainstate database has
  queue,                \* notifications not yet run
  indexed, locator,     \* the index database: blocks written, DB_BEST_BLOCK
  m_best_block_index, m_synced, m_interrupt,
  sync,                 \* ThreadSync: [pc, pindex, timed: last_locator_write_time is not 0]
  handler,              \* the scheduler's thread in BlockConnected: [pc, block, from]
  caller,               \* a thread in BlockUntilSyncedToCurrentChain, or NullBlock
  stopped,              \* "no", "fatal" after FatalError, "abort" after an assert
  crashes, faults

chain == <<tip, flushedTip>>
disk == <<indexed, locator>>
memory == <<m_best_block_index, m_synced>>
ending == <<m_interrupt, stopped, crashes, faults>>
vars == <<chain, queue, disk, memory, ending, sync, handler, caller>>

\* What the steps of each thread leave alone.
SyncLeaves == UNCHANGED <<chain, queue, m_interrupt, crashes, handler, caller>>
SchedulerLeaves == UNCHANGED <<chain, m_interrupt, crashes, sync>>
IndexUnchanged == UNCHANGED <<disk, memory, sync, handler>>
NoFault == UNCHANGED <<stopped, faults>>

---------------------------------------------------------------------------
\* CBlockIndex and CChain over the tree.
pprev(b) == SubSeq(b, 1, Len(b) - 1)
GetAncestor(b, h) == IF h < 0 \/ h > Height(b) THEN NullBlock ELSE SubSeq(b, 1, h + 1)
FindFork(b, t) ==
  LET common == Ancestors(b) \cap Ancestors(t)
  IN  IF common = {} THEN NullBlock
      ELSE CHOOSE c \in common : \A d \in common : Height(d) <= Height(c)
NextInChain(b) == IF b \in Ancestors(tip) THEN GetAncestor(tip, Height(b) + 1) ELSE NullBlock
NextSyncBlock(prev) ==
  IF prev = NullBlock THEN GetAncestor(tip, 0) ELSE NextInChain(FindFork(prev, tip))

---------------------------------------------------------------------------
\* ThreadSync holds cs_main from its last look at the chain to the commit
\* that follows it.
CsMainReleased == FALSE
CsMainHeld == sync.pc \in {"flag", "endcommit"}

\* Commit, which may fail, and writes nothing before a first block.
CommitTo(new) == IF new = NullBlock THEN locator ELSE new
Commit(ok) ==
  /\ ok \/ faults < MaxFaults
  /\ faults' = IF ok THEN faults ELSE faults + 1
  /\ locator' = IF ok THEN CommitTo(m_best_block_index') ELSE locator

\* TxIndex::WriteBlock: the genesis block has nothing to write.
Rows(b) == IF Height(b) = 0 THEN {} ELSE {b}
WriteBlock(b, ok) ==
  /\ ok \/ (faults < MaxFaults /\ Height(b) # 0)
  /\ faults' = IF ok THEN faults ELSE faults + 1
  /\ indexed' = IF ok THEN indexed \cup Rows(b) ELSE indexed

FatalError == stopped' = "fatal"

\* Start and Init, on what the two databases hold.
Started(t, loc) ==
  LET best == FindFork(loc, t)
  IN  [best |-> best, synced |-> best = t,
       sync |-> [pc |-> IF best = t THEN "done" ELSE "loop", pindex |-> best,
                 timed |-> FALSE]]

Idle == [pc |-> "idle", block |-> NullBlock, from |-> NullBlock]

Init ==
  /\ tip \in InitialTips /\ flushedTip = tip
  /\ indexed = {} /\ locator = NullBlock
  /\ LET s == Started(tip, locator)
     IN  m_best_block_index = s.best /\ m_synced = s.synced /\ sync = s.sync
  /\ queue = <<>> /\ m_interrupt = FALSE
  /\ handler = Idle /\ caller = NullBlock /\ stopped = "no"
  /\ crashes = 0 /\ faults = 0

---------------------------------------------------------------------------
\* The chain (external to the index): each change of tip and the
\* notifications it queues are made under cs_main.
Branch(from, b) ==
  [i \in 1 .. Height(b) - Height(from) |-> GetAncestor(b, Height(from) + i)]

ActivateBestChain(b) ==
  /\ ~CsMainHeld
  /\ Height(b) > Height(tip)
  /\ tip' = b
  /\ LET connected == Branch(FindFork(tip, b), b)
     IN  queue' = queue \o [i \in DOMAIN connected |->
                              [kind |-> "BlockConnected", block |-> connected[i]]]
  /\ UNCHANGED <<flushedTip, ending, caller>> /\ IndexUnchanged

FlushStateToDisk ==
  /\ ~CsMainHeld
  /\ tip # flushedTip
  /\ flushedTip' = tip
  /\ queue' = Append(queue, [kind |-> "ChainStateFlushed", block |-> tip])
  /\ UNCHANGED <<tip, ending, caller>> /\ IndexUnchanged

---------------------------------------------------------------------------
\* ThreadSync.
SyncInterrupted(ok) ==
  /\ sync.pc = "loop" /\ m_interrupt
  /\ m_best_block_index' = sync.pindex
  /\ Commit(ok)
  /\ sync' = [sync EXCEPT !.pc = "done"]
  /\ UNCHANGED <<indexed, m_synced, stopped>> /\ SyncLeaves

\* NextSyncBlock found nothing: SetBestBlockIndex, m_synced, Commit, under cs_main.
SyncReached ==
  /\ sync.pc = "loop" /\ ~m_interrupt
  /\ NextSyncBlock(sync.pindex) = NullBlock
  /\ m_best_block_index' = sync.pindex
  /\ sync' = [sync EXCEPT !.pc = "flag"]
  /\ UNCHANGED <<disk, m_synced>> /\ NoFault /\ SyncLeaves

SyncFlag ==
  /\ sync.pc = "flag"
  /\ m_synced' = TRUE
  /\ sync' = [sync EXCEPT !.pc = "endcommit"]
  /\ UNCHANGED <<disk, m_best_block_index>> /\ NoFault /\ SyncLeaves

SyncEndCommit(ok) ==
  /\ sync.pc = "endcommit"
  /\ UNCHANGED m_best_block_index /\ Commit(ok)
  /\ sync' = [sync EXCEPT !.pc = "done"]
  /\ UNCHANGED <<indexed, m_synced, stopped>> /\ SyncLeaves

SyncForward ==
  /\ sync.pc = "loop" /\ ~m_interrupt
  /\ LET next == NextSyncBlock(sync.pindex)
     IN  /\ next # NullBlock /\ pprev(next) = sync.pindex
         /\ sync' = [sync EXCEPT !.pc = "time", !.pindex = next]
  /\ UNCHANGED <<disk, memory>> /\ NoFault /\ SyncLeaves

\* The next block is on another branch: Rewind, which asserts that it starts
\* from m_best_block_index.
SyncRewind(ok) ==
  /\ sync.pc = "loop" /\ ~m_interrupt
  /\ LET next == NextSyncBlock(sync.pindex)
     IN  /\ next # NullBlock /\ pprev(next) # sync.pindex
         /\ sync.pindex = m_best_block_index
         /\ IF ok
            THEN /\ m_best_block_index' = pprev(next)
                 /\ sync' = [sync EXCEPT !.pc = "time", !.pindex = next]
                 /\ UNCHANGED stopped
            ELSE /\ FatalError
                 /\ sync' = [sync EXCEPT !.pc = "done"]
                 /\ UNCHANGED m_best_block_index
         /\ Commit(ok)
  /\ UNCHANGED <<indexed, m_synced>> /\ SyncLeaves

SyncRewindAsserts ==
  /\ sync.pc = "loop" /\ ~m_interrupt
  /\ LET next == NextSyncBlock(sync.pindex)
     IN  next # NullBlock /\ pprev(next) # sync.pindex
  /\ sync.pindex # m_best_block_index
  /\ stopped' = "abort"
  /\ UNCHANGED <<disk, memory, sync, faults>> /\ SyncLeaves

\* SYNC_LOCATOR_WRITE_INTERVAL has passed or not.  The best block and the
\* locator move to a block that is written only in the next step.
SyncInterval(ok) ==
  /\ sync.pc = "time"
  /\ m_best_block_index' = sync.pindex
  /\ Commit(ok)
  /\ sync' = [sync EXCEPT !.pc = "write", !.timed = TRUE]
  /\ UNCHANGED <<indexed, m_synced, stopped>> /\ SyncLeaves

SyncNoInterval ==
  /\ sync.pc = "time" /\ sync.timed
  /\ sync' = [sync EXCEPT !.pc = "write"]
  /\ UNCHANGED <<disk, memory>> /\ NoFault /\ SyncLeaves

\* Between the commit of a block and its WriteBlock.
InWindow == sync.pc = "write" /\ m_best_block_index = sync.pindex

SyncWrite(ok) ==
  /\ sync.pc = "write"
  /\ ok \/ WindowFaults \/ ~InWindow
  /\ WriteBlock(sync.pindex, ok)
  /\ IF ok THEN sync' = [sync EXCEPT !.pc = "loop"] /\ UNCHANGED stopped
     ELSE sync' = [sync EXCEPT !.pc = "done"] /\ FatalError
  /\ UNCHANGED <<locator, memory>> /\ SyncLeaves

---------------------------------------------------------------------------
\* The scheduler's thread.
Take(kind) == handler.pc = "idle" /\ queue # <<>> /\ Head(queue).kind = kind

\* The block connects to an ancestor of the best block, or is the first.
ConnectsAnywhere(b) == TRUE
ConnectsToBest(b) ==
  IF m_best_block_index = NullBlock THEN Height(b) = 0
  ELSE GetAncestor(m_best_block_index, Height(b) - 1) = pprev(b)

\* BlockConnected returns at once: still syncing, a block of a stale branch, or
\* a first block that is not the genesis block.
BlockConnectedIgnored ==
  /\ Take("BlockConnected")
  /\ ~m_synced \/ ~ConnectsToBest(Head(queue).block)
  /\ queue' = Tail(queue)
  /\ IF m_synced /\ m_best_block_index = NullBlock THEN FatalError ELSE UNCHANGED stopped
  /\ UNCHANGED <<disk, memory, handler, caller, faults>> /\ SchedulerLeaves

\* The block is taken; Rewind's SetBestBlockIndex when it is not on the best block.
BlockConnected ==
  /\ Take("BlockConnected")
  /\ m_synced /\ ConnectsToBest(Head(queue).block)
  /\ LET b == Head(queue).block
     IN  /\ handler' = [pc |-> IF m_best_block_index = pprev(b) THEN "write" ELSE "rewind",
                        block |-> b, from |-> m_best_block_index]
         /\ m_best_block_index' = pprev(b)
  /\ queue' = Tail(queue)
  /\ UNCHANGED <<disk, m_synced, caller>> /\ NoFault /\ SchedulerLeaves

\* Rewind's Commit; when it fails the best block is put back.
RewindCommit(ok) ==
  /\ handler.pc = "rewind" /\ ~CsMainHeld
  /\ IF ok THEN /\ handler' = [handler EXCEPT !.pc = "write"]
                /\ UNCHANGED <<m_best_block_index, stopped>>
     ELSE handler' = Idle /\ m_best_block_index' = handler.from /\ FatalError
  /\ Commit(ok)
  /\ UNCHANGED <<queue, indexed, m_synced, caller>> /\ SchedulerLeaves

ConnectedWrite(ok) ==
  /\ handler.pc = "write" /\ ~CsMainHeld
  /\ WriteBlock(handler.block, ok)
  /\ IF ok THEN handler' = [handler EXCEPT !.pc = "best"] /\ UNCHANGED stopped
     ELSE handler' = Idle /\ FatalError
  /\ UNCHANGED <<queue, locator, memory, caller>> /\ SchedulerLeaves

ConnectedBest ==
  /\ handler.pc = "best"
  /\ m_best_block_index' = handler.block
  /\ handler' = Idle
  /\ UNCHANGED <<queue, disk, m_synced, caller>> /\ NoFault /\ SchedulerLeaves

\* Commits unless the flushed tip is not an ancestor of the best block.
ChainStateFlushed(ok) ==
  /\ Take("ChainStateFlushed") /\ ~CsMainHeld
  /\ queue' = Tail(queue)
  /\ UNCHANGED m_best_block_index
  /\ LET b == Head(queue).block
     IN  IF m_synced /\ GetAncestor(m_best_block_index, Height(b)) = b
         THEN Commit(ok)
         ELSE ok /\ UNCHANGED <<locator, faults>>
  /\ UNCHANGED <<indexed, m_synced, handler, caller, stopped>> /\ SchedulerLeaves

---------------------------------------------------------------------------
\* BlockUntilSyncedToCurrentChain, called while there is a tip.  It returns at
\* once, and changes nothing, when the index is syncing (false) or has the tip
\* (true).  Otherwise SyncWithValidationInterfaceQueue puts an entry in the
\* queue and waits for it; "caller" is the tip it was called at.
CaughtUp == GetAncestor(m_best_block_index, Height(tip)) = tip

CallWaits ==
  /\ caller = NullBlock /\ m_synced /\ m_best_block_index # NullBlock
  /\ ~CsMainHeld /\ ~CaughtUp
  /\ caller' = tip
  /\ queue' = Append(queue, [kind |-> "sync", block |-> NullBlock])
  /\ UNCHANGED <<chain, ending>> /\ IndexUnchanged

CallReturns ==
  /\ Take("sync")
  /\ queue' = Tail(queue)
  /\ caller' = NullBlock
  /\ UNCHANGED <<disk, memory, handler>> /\ NoFault /\ SchedulerLeaves

---------------------------------------------------------------------------
\* A shutdown begins; only ThreadSync reads the flag.
Interrupt ==
  /\ ~m_interrupt /\ sync.pc # "done" /\ crashes < MaxCrashes
  /\ m_interrupt' = TRUE
  /\ UNCHANGED <<chain, queue, caller, stopped, crashes, faults>> /\ IndexUnchanged

\* The process ends, at any moment, and starts again: the databases are left.
Restart ==
  /\ crashes < MaxCrashes
  /\ WindowFaults \/ ~InWindow
  /\ tip' = flushedTip
  /\ LET s == Started(flushedTip, locator)
     IN  m_best_block_index' = s.best /\ m_synced' = s.synced /\ sync' = s.sync
  /\ queue' = <<>> /\ m_interrupt' = FALSE
  /\ handler' = Idle /\ caller' = NullBlock /\ stopped' = "no"
  /\ crashes' = crashes + 1
  /\ UNCHANGED <<flushedTip, disk, faults>>

ThreadSync ==
  \/ SyncReached \/ SyncFlag \/ SyncForward \/ SyncRewindAsserts \/ SyncNoInterval
  \/ \E ok \in BOOLEAN :
       SyncInterrupted(ok) \/ SyncEndCommit(ok) \/ SyncRewind(ok) \/ SyncInterval(ok)
       \/ SyncWrite(ok)

SchedulerThread ==
  \/ BlockConnectedIgnored \/ BlockConnected
  \/ ConnectedBest \/ CallReturns
  \/ \E ok \in BOOLEAN : RewindCommit(ok) \/ ConnectedWrite(ok) \/ ChainStateFlushed(ok)

Next ==
  \/ /\ stopped # "abort"
     /\ \/ ThreadSync \/ SchedulerThread
        \/ \E b \in Blocks : ActivateBestChain(b)
        \/ FlushStateToDisk \/ Interrupt
        \/ CallWaits
  \/ Restart

\* The sync thread and the scheduler's thread keep running; nothing else has to
\* happen.  Each step of the first leaves its pc, and each step of the second
\* its pc or an entry of the queue, to which the chain adds finitely many: so
\* this is the weak fairness of ThreadSync and of SchedulerThread.
Fairness ==
  /\ \A c \in {"loop", "time", "write", "flag", "endcommit"} :
       []<>(sync.pc # c \/ stopped = "abort")
  /\ \A c \in {"rewind", "write", "best"} : []<>(handler.pc # c \/ stopped = "abort")
  /\ []<>(handler.pc # "idle" \/ queue = <<>> \/ stopped = "abort")
Spec == Init /\ [][Next]_vars /\ Fairness

---------------------------------------------------------------------------
\* What is written of a block and all below it.
Expected(b) == UNION {Rows(a) : a \in Ancestors(b)}

\* What the index and its database call indexed is: every block up to the
\* best block, and up to the committed locator, has been written, whatever
\* order the walk, a backlog of two branches, failed writes and restarts
\* come in (base.h: "The last block in the chain that the index is in sync
\* with").  The block ThreadSync commits before it writes it is excepted
\* until the write.
IndexComplete ==
  \A b \in {m_best_block_index, locator} :
    Expected(b) \subseteq indexed \cup (IF InWindow THEN {sync.pindex} ELSE {})

\* BlockUntilSyncedToCurrentChain returns true only when the tip it was called
\* at, and all below it, has been written, although it may have been called
\* just after the flag was set and the queue holds blocks the index skips.
UpToDateOnReturn ==
  [][CallReturns /\ stopped = "no" => Expected(caller) \subseteq indexed]_vars

\* The assertion in Rewind: the block rewound from is the best block.
RewindFromBest == stopped # "abort"

\* The hand-over from the sync thread to the notifications loses no block:
\* once the chain stays as it is the index has it all, unless it was stopped.
CatchesUp ==
  <>[](stopped # "no" \/ m_interrupt
       \/ (m_synced /\ tip \in Ancestors(m_best_block_index) \cup {NullBlock}))
============================================================================
