---------------------------- MODULE CoinsStore ----------------------------
(***************************************************************************)
(* What the stack of coin views promises its users: a store of unspent     *)
(* transaction outputs with one transaction at a time.  "disk" is what a   *)
(* restart finds, "committed" is what the active chainstate reads (the     *)
(* coins at its tip), "pending" is what the block being connected or       *)
(* disconnected has written so far.  There are no caches here.             *)
(***************************************************************************)
CONSTANTS
  Outpoints,   \* transaction outputs
  Coins,       \* contents of an unspent output
  Spent,       \* the content of an output that does not exist or is spent
  Blocks       \* block hashes

VARIABLES
  disk, diskBest,             \* durable coins, and the block they belong to
  committed, committedBest,   \* coins of the active chainstate
  pending, pendingBest,       \* coins as the open transaction sees them
  active                      \* a transaction is open

vars == <<disk, diskBest, committed, committedBest, pending, pendingBest, active>>

CoinMap == [Outpoints -> Coins \cup {Spent}]

Init ==
  /\ disk \in CoinMap /\ diskBest \in Blocks
  /\ committed = disk /\ committedBest = diskBest
  /\ pending = committed /\ pendingBest = committedBest
  /\ active = FALSE

Begin ==
  /\ ~active
  /\ active' = TRUE
  /\ pending' = committed /\ pendingBest' = committedBest
  /\ UNCHANGED <<disk, diskBest, committed, committedBest>>

Put(o, c) ==
  /\ active
  /\ pending' = [pending EXCEPT ![o] = c]
  /\ UNCHANGED <<disk, diskBest, committed, committedBest, pendingBest, active>>

SetBest(b) ==
  /\ active
  /\ pendingBest' = b
  /\ UNCHANGED <<disk, diskBest, committed, committedBest, pending, active>>

\* Nothing but the whole transaction, with the block it leads to, is committed.
Commit ==
  /\ active
  /\ committed' = pending /\ committedBest' = pendingBest
  /\ active' = FALSE
  /\ UNCHANGED <<disk, diskBest, pending, pendingBest>>

Abort ==
  /\ active
  /\ active' = FALSE
  /\ pending' = committed /\ pendingBest' = committedBest
  /\ UNCHANGED <<disk, diskBest, committed, committedBest>>

Persist ==
  /\ ~active
  /\ disk' = committed /\ diskBest' = committedBest
  /\ UNCHANGED <<committed, committedBest, pending, pendingBest, active>>

Crash ==
  /\ committed' = disk /\ committedBest' = diskBest
  /\ pending' = disk /\ pendingBest' = diskBest
  /\ active' = FALSE
  /\ UNCHANGED <<disk, diskBest>>

Next ==
  \/ Begin \/ Commit \/ Abort \/ Persist \/ Crash
  \/ \E o \in Outpoints, c \in Coins \cup {Spent} : Put(o, c)
  \/ \E b \in Blocks : SetBest(b)

Spec == Init /\ [][Next]_vars
===========================================================================
