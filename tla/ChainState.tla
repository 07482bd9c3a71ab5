----------------------------- MODULE ChainState -----------------------------
(***************************************************************************)
(* The block index and the choice of the active chain (validation.cpp).    *)
(*                                                                         *)
(* Headers and blocks arrive in any order; ActivateBestChain moves the tip *)
(* to the most-work chain that is complete and not known to be invalid;    *)
(* invalidateblock, reconsiderblock and preciousblock interfere.  A step   *)
(* is what one thread does while it holds cs_main, except that the work of *)
(* ActivateBestChain under one lock is cut into its iterations (no other   *)
(* thread runs between these).  ActivateBestChain and InvalidateBlock hold *)
(* m_chainstate_mutex throughout but let go of cs_main in between.         *)
(*                                                                         *)
(* A block is the path that leads to it from the genesis block; BadBlock   *)
(* are those that ContextualCheckBlock rejects, BadConnect those that      *)
(* ConnectBlock rejects.  Nothing is pruned and no snapshot is loaded, so  *)
(* BLOCK_HAVE_DATA, nTx > 0 and BLOCK_VALID_TRANSACTIONS coincide.         *)
(***************************************************************************)
EXTENDS Integers, Sequences, FiniteSets

CONSTANTS
  Blocks, Genesis, ChainWork,
  Addr,                  \* the order of the index entries in memory
  BadBlock, BadConnect,
  Invalidated, Reconsidered, Precious,   \* the arguments of the three RPCs
  MaxPrecious            \* bound on nBlockReverseSequenceId

NoBlock == <<>>
Parent(b) == SubSeq(b, 1, Len(b) - 1)
Height(b) == Len(b)
IsAncestor(a, b) == Len(a) \in 1 .. Len(b) /\ a = SubSeq(b, 1, Len(a))   \* or the same block
Ancestors(b) == {SubSeq(b, 1, n) : n \in 1 .. Len(b)}

ASSUME ChainStateAssumption ==
  /\ IsFiniteSet(Blocks) /\ Blocks \subseteq Seq(UNION {{b[i] : i \in DOMAIN b} : b \in Blocks})
  /\ Genesis \in Blocks /\ Len(Genesis) = 1
  /\ \A b \in Blocks : Len(b) > 0 /\ Genesis \in Ancestors(b) /\ Ancestors(b) \subseteq Blocks
  /\ \A b \in Blocks : ChainWork[b] \in Nat /\ Addr[b] \in Int
  /\ \A a, b \in Blocks : a # b /\ IsAncestor(a, b) => ChainWork[a] < ChainWork[b]
  /\ \A a, b \in Blocks : a # b => Addr[a] # Addr[b]
  /\ Genesis \notin BadBlock \cup BadConnect

VARIABLES
  index, haveData, scriptsValid,   \* known headers; those with data; those once connected
  linked,                          \* HaveTxsDownloaded: data for all ancestors too
  failedValid, failedChild,        \* BLOCK_FAILED_VALID, BLOCK_FAILED_CHILD
  m_failed_blocks,
  nSequenceId, nBlockSequenceId, nBlockReverseSequenceId, nLastPreciousChainwork,
  candidates, unlinked,            \* setBlockIndexCandidates, m_blocks_unlinked
  tip,
  abc, inv,                        \* progress of ActivateBestChain and InvalidateBlock
  wanted,                          \* some caller is about to call ActivateBestChain
  reconsidered,                    \* history: reconsiderblock has been called
  demoted                          \* history: preciousblock has given the tip a larger number

blockData == <<index, haveData, linked, unlinked, nBlockSequenceId>>
flags == <<failedValid, failedChild, m_failed_blocks>>
precious == <<nBlockReverseSequenceId, nLastPreciousChainwork>>
history == <<reconsidered, demoted>>
vars == <<blockData, scriptsValid, flags, nSequenceId, precious, candidates, tip, abc, inv, wanted, history>>

---------------------------------------------------------------------------
InChain(b) == IsAncestor(b, tip)
FindFork(b) == CHOOSE a \in Ancestors(b) \cap Ancestors(tip) :
                 \A x \in Ancestors(b) \cap Ancestors(tip) : Len(x) <= Len(a)

\* CBlockIndexWorkComparator: a sorts before b.
WorseBy(seq, a, b) ==
  \/ ChainWork[a] < ChainWork[b]
  \/ ChainWork[a] = ChainWork[b] /\ seq[a] > seq[b]
  \/ ChainWork[a] = ChainWork[b] /\ seq[a] = seq[b] /\ Addr[a] > Addr[b]
Worse(a, b) == WorseBy(nSequenceId, a, b)

Failed == failedValid \cup failedChild
ValidTransactions(b) == b \in haveData \ Failed   \* IsValid(BLOCK_VALID_TRANSACTIONS)

PruneBlockIndexCandidates(C, seq, t) == {c \in C : ~WorseBy(seq, c, t)}

IdleABC == [pc |-> "idle", most |-> NoBlock, starting |-> NoBlock, old |-> NoBlock, connected |-> FALSE]
IdleInv == [pc |-> "idle", block |-> NoBlock, mark |-> NoBlock, cands |-> {}]

CsMainFree == abc.pc \in {"idle", "outer"}
ChainstateMutexFree == abc.pc = "idle" /\ inv.pc = "idle"

Init ==
  /\ index = {Genesis} /\ haveData = {Genesis} /\ linked = {Genesis} /\ scriptsValid = {Genesis}
  /\ unlinked = {} /\ failedValid = {} /\ failedChild = {} /\ m_failed_blocks = {}
  /\ nSequenceId = [b \in Blocks |-> IF b = Genesis THEN 1 ELSE 0]
  /\ nBlockSequenceId = 2 /\ nBlockReverseSequenceId = -1 /\ nLastPreciousChainwork = 0
  /\ candidates = {Genesis} /\ tip = Genesis
  /\ abc = IdleABC /\ inv = IdleInv /\ wanted = FALSE
  /\ reconsidered = FALSE /\ demoted = FALSE

---------------------------------------------------------------------------
\* AcceptBlockHeader for a header that is not known and whose parent is, and is not
\* failed: either the parent descends from a member of m_failed_blocks, or it is added.
FailedAncestors(p) ==
  IF p \in scriptsValid \ Failed THEN {} ELSE {f \in m_failed_blocks : IsAncestor(f, p)}

RejectHeader(b) ==
  /\ CsMainFree /\ b \notin index /\ Parent(b) \in index \ Failed
  /\ \E f \in FailedAncestors(Parent(b)) :
       failedChild' = failedChild \cup (Ancestors(Parent(b)) \ Ancestors(f))
  /\ UNCHANGED <<blockData, scriptsValid, failedValid, m_failed_blocks, nSequenceId, precious, candidates, tip,
                 abc, inv, wanted>>

AddHeader(b) ==
  /\ CsMainFree /\ b \notin index /\ Parent(b) \in index \ Failed
  /\ FailedAncestors(Parent(b)) = {}
  /\ index' = index \cup {b}
  /\ UNCHANGED <<haveData, linked, unlinked, nBlockSequenceId, scriptsValid, flags, nSequenceId, precious,
                 candidates, tip, abc, inv, wanted>>

\* AcceptBlock for a block whose header is known (a new one is first added as above):
\* it is not failed, has no data yet, and was requested or has as much work as the tip.
Acceptable(b, fRequested) ==
  /\ CsMainFree /\ b \in (index \ Failed) \ haveData
  /\ fRequested \/ ChainWork[b] >= ChainWork[tip]

RejectBlock(b, fRequested) ==
  /\ Acceptable(b, fRequested) /\ b \in BadBlock
  /\ failedValid' = failedValid \cup {b}
  /\ UNCHANGED <<blockData, scriptsValid, failedChild, m_failed_blocks, nSequenceId, precious, candidates, tip,
                 abc, inv, wanted>>

\* ReceivedBlockTransactions: b and the unlinked blocks that it links, each before its
\* descendants, get their sequence numbers.
Linkable(b) == {d \in unlinked \cup {b} : IsAncestor(b, d) /\ Ancestors(d) \ Ancestors(b) \subseteq unlinked}
LinkOrders(b) ==
  {pos \in [Linkable(b) -> 1 .. Cardinality(Linkable(b))] :
     \A c, d \in Linkable(b) :
       c # d => pos[c] # pos[d] /\ (Height(c) < Height(d) => pos[c] < pos[d])}

ReceivedBlockTransactions(b) ==
  /\ haveData' = haveData \cup {b}
  /\ IF Parent(b) \in linked
     THEN \E pos \in LinkOrders(b) :
            LET seq == [d \in Blocks |-> IF d \in Linkable(b) THEN nBlockSequenceId + pos[d] - 1
                                         ELSE nSequenceId[d]]
            IN  /\ nSequenceId' = seq
                /\ nBlockSequenceId' = nBlockSequenceId + Cardinality(Linkable(b))
                /\ linked' = linked \cup Linkable(b)
                /\ unlinked' = unlinked \ Linkable(b)
                /\ candidates' = candidates \cup {d \in Linkable(b) : ~WorseBy(seq, d, tip)}
     ELSE /\ unlinked' = IF Parent(b) \in Failed THEN unlinked ELSE unlinked \cup {b}
          /\ UNCHANGED <<nSequenceId, nBlockSequenceId, linked, candidates>>
  /\ UNCHANGED index

AcceptBlock(b, fRequested) ==
  /\ Acceptable(b, fRequested) /\ b \notin BadBlock
  /\ ReceivedBlockTransactions(b)
  /\ wanted' = TRUE
  /\ UNCHANGED <<scriptsValid, flags, precious, tip, abc, inv>>

\* AcceptBlock returns early, and ProcessNewBlock goes on to ActivateBestChain.
IgnoreBlock(b, fRequested) ==
  /\ CsMainFree /\ b \in index \ Failed
  /\ b \in haveData \/ ~(fRequested \/ ChainWork[b] >= ChainWork[tip])
  /\ wanted' = TRUE
  /\ UNCHANGED <<blockData, scriptsValid, flags, nSequenceId, precious, candidates, tip, abc, inv>>

---------------------------------------------------------------------------
\* ActivateBestChain.
StartActivate ==
  /\ ChainstateMutexFree /\ wanted
  /\ abc' = [IdleABC EXCEPT !.pc = "outer"]
  /\ wanted' = FALSE
  /\ UNCHANGED <<blockData, scriptsValid, flags, nSequenceId, precious, candidates, tip, inv>>

LockCsMain ==
  /\ abc.pc = "outer"
  /\ abc' = [abc EXCEPT !.pc = "inner", !.starting = tip, !.connected = FALSE]
  /\ UNCHANGED <<blockData, scriptsValid, flags, nSequenceId, precious, candidates, tip, inv, wanted>>

\* After the inner loop: the function returns, or lets go of cs_main and goes on.
UnlockAlways(a, t) == IdleABC   \* variant: no outer loop
Unlock(a, t) ==
  IF ~a.connected \/ a.most = t THEN IdleABC
  ELSE [a EXCEPT !.pc = "outer", !.starting = NoBlock, !.old = NoBlock, !.connected = FALSE]
\* The test of the inner loop, after ActivateBestChainStep.
AfterStepAlways(a, t) == Unlock(a, t)   \* variant: no inner loop
AfterStep(a, t) ==
  IF Worse(t, a.starting) THEN [a EXCEPT !.pc = "inner", !.old = NoBlock]
  ELSE Unlock(a, t)

\* FindMostWorkChain, when there is no target: the best candidate.
Best(c) == \A x \in candidates : x = c \/ Worse(x, c)
OffChain(b) == Ancestors(b) \ Ancestors(tip)

NothingToDo ==
  /\ abc.pc = "inner"
  /\ \/ abc.most = NoBlock /\ candidates = {}
     \/ abc.most = tip
  /\ abc' = Unlock(abc, tip)
  /\ UNCHANGED <<blockData, scriptsValid, flags, nSequenceId, precious, candidates, tip, inv, wanted>>

TakeCandidateUnchecked ==   \* variant: the path to the candidate is not examined
  /\ abc.pc = "inner" /\ abc.most = NoBlock
  /\ \E c \in candidates : Best(c) /\ abc' = [abc EXCEPT !.most = c]
  /\ UNCHANGED <<blockData, scriptsValid, flags, nSequenceId, precious, candidates, tip, inv, wanted>>
TakeCandidate ==
  /\ abc.pc = "inner" /\ abc.most = NoBlock
  /\ \E c \in candidates :
       Best(c) /\ OffChain(c) \cap Failed = {} /\ abc' = [abc EXCEPT !.most = c]
  /\ UNCHANGED <<blockData, scriptsValid, flags, nSequenceId, precious, candidates, tip, inv, wanted>>

DropCandidate ==
  /\ abc.pc = "inner" /\ abc.most = NoBlock
  /\ \E c \in candidates : Best(c) /\ \E t \in OffChain(c) \cap Failed :   \* pindexTest: the first one met
       /\ \A x \in OffChain(c) \cap Failed : Height(x) <= Height(t)
       /\ failedChild' = failedChild \cup (Ancestors(c) \ Ancestors(t))
       /\ candidates' = candidates \ ((Ancestors(c) \ Ancestors(t)) \cup {t})
  /\ UNCHANGED <<blockData, scriptsValid, failedValid, m_failed_blocks, nSequenceId, precious, tip, abc, inv,
                 wanted>>

\* ActivateBestChainStep: disconnect to the fork, then connect until the tip has more
\* work than it had before.
BeginStep ==
  /\ abc.pc = "inner" /\ abc.most \notin {NoBlock, tip}
  /\ abc' = [abc EXCEPT !.pc = "step", !.old = tip, !.connected = TRUE]
  /\ UNCHANGED <<blockData, scriptsValid, flags, nSequenceId, precious, candidates, tip, inv, wanted>>

DisconnectTip ==
  /\ abc.pc = "step" /\ tip # FindFork(abc.most)
  /\ tip' = Parent(tip)
  /\ abc' = IF tip' = abc.most THEN AfterStep(abc, tip') ELSE abc
  /\ UNCHANGED <<blockData, scriptsValid, flags, nSequenceId, precious, candidates, inv, wanted>>

NextToConnect == SubSeq(abc.most, 1, Len(tip) + 1)

ConnectTip ==
  /\ abc.pc = "step" /\ tip = FindFork(abc.most) /\ NextToConnect \notin BadConnect
  /\ tip' = NextToConnect
  /\ scriptsValid' = scriptsValid \cup ({tip'} \ Failed)
  /\ candidates' = PruneBlockIndexCandidates(candidates, nSequenceId, tip')
  /\ abc' = IF tip' = abc.most \/ ChainWork[tip'] > ChainWork[abc.old] THEN AfterStep(abc, tip') ELSE abc
  /\ UNCHANGED <<blockData, flags, nSequenceId, precious, inv, wanted>>

ConnectTipFails ==
  /\ abc.pc = "step" /\ tip = FindFork(abc.most) /\ NextToConnect \in BadConnect
  /\ failedValid' = failedValid \cup {NextToConnect}
  /\ m_failed_blocks' = m_failed_blocks \cup {NextToConnect}
  /\ candidates' = candidates \ {NextToConnect}
  /\ abc' = AfterStep([abc EXCEPT !.most = NoBlock], tip)
  /\ UNCHANGED <<blockData, scriptsValid, failedChild, nSequenceId, precious, tip, inv, wanted>>

---------------------------------------------------------------------------
\* InvalidateBlock, called by the RPC, which then calls ActivateBestChain.
BeginInvalidate(b) ==
  /\ CsMainFree /\ ChainstateMutexFree /\ b \in index \ {Genesis}
  /\ inv' = [pc |-> "walk", block |-> b, mark |-> b,
             cands |-> {c \in index : ~InChain(c) /\ ~Worse(c, Parent(b)) /\ ValidTransactions(c) /\ c \in linked}]
  /\ UNCHANGED <<blockData, scriptsValid, flags, nSequenceId, precious, candidates, tip, abc, wanted>>

InvalidateTip ==
  /\ inv.pc = "walk" /\ InChain(inv.block)
  /\ tip' = Parent(tip)
  /\ LET relabel == IF tip' = inv.mark /\ inv.mark \in failedValid THEN {inv.mark} ELSE {}
         better == {c \in inv.cands : ~Worse(c, tip')}
     IN  /\ failedValid' = (failedValid \cup {tip}) \ relabel
         /\ failedChild' = failedChild \cup relabel
         /\ candidates' = (candidates \ {tip}) \cup {tip'} \cup better
         /\ inv' = [inv EXCEPT !.mark = tip, !.cands = @ \ better]
  /\ UNCHANGED <<blockData, scriptsValid, m_failed_blocks, nSequenceId, precious, abc, wanted>>

EndInvalidate ==
  /\ inv.pc = "walk" /\ ~InChain(inv.block)
  /\ inv' = IdleInv
  /\ wanted' = TRUE
  /\ failedValid' = failedValid \cup {inv.mark}
  /\ m_failed_blocks' = m_failed_blocks \cup {inv.mark}
  /\ candidates' = (candidates \ {inv.mark})
                   \cup {c \in linked : c \notin Failed \cup {inv.mark} /\ ~Worse(c, tip)}
  /\ UNCHANGED <<blockData, scriptsValid, failedChild, nSequenceId, precious, tip, abc>>

\* ResetBlockFailureFlags, from reconsiderblock.
ResetBlockFailureFlagsKeep(b) ==   \* variant: m_failed_blocks keeps the ancestors
  /\ CsMainFree /\ b \in index
  /\ LET below == {d \in index : IsAncestor(b, d) /\ ~ValidTransactions(d)}
     IN  /\ failedValid' = failedValid \ (below \cup Ancestors(b))
         /\ failedChild' = failedChild \ (below \cup Ancestors(b))
         /\ m_failed_blocks' = m_failed_blocks \ below
         /\ candidates' = candidates \cup {d \in below : d \in linked /\ Worse(tip, d)}
  /\ wanted' = TRUE
  /\ UNCHANGED <<blockData, scriptsValid, nSequenceId, precious, tip, abc, inv>>
ResetBlockFailureFlags(b) ==
  /\ CsMainFree /\ b \in index
  /\ LET below == {d \in index : IsAncestor(b, d) /\ ~ValidTransactions(d)}
     IN  /\ failedValid' = failedValid \ (below \cup Ancestors(b))
         /\ failedChild' = failedChild \ (below \cup Ancestors(b))
         /\ m_failed_blocks' = m_failed_blocks \ (below \cup (Ancestors(b) \cap Failed))
         /\ candidates' = candidates \cup {d \in below : d \in linked /\ Worse(tip, d)}
  /\ wanted' = TRUE
  /\ UNCHANGED <<blockData, scriptsValid, nSequenceId, precious, tip, abc, inv>>

\* PreciousBlock up to its call of ActivateBestChain.
PreciousBlock(b) ==
  /\ CsMainFree /\ b \in index /\ ChainWork[b] >= ChainWork[tip]
  /\ LET rev == IF ChainWork[tip] > nLastPreciousChainwork THEN -1 ELSE nBlockReverseSequenceId
         seq == [nSequenceId EXCEPT ![b] = rev]
     IN  /\ -rev <= MaxPrecious
         /\ nBlockReverseSequenceId' = rev - 1
         /\ nSequenceId' = seq
         /\ candidates' = IF ValidTransactions(b) /\ b \in linked
                          THEN PruneBlockIndexCandidates(candidates \cup {b}, seq, tip)
                          ELSE candidates \ {b}
  /\ nLastPreciousChainwork' = ChainWork[tip]
  /\ wanted' = TRUE
  /\ UNCHANGED <<blockData, scriptsValid, flags, tip, abc, inv>>

Activate ==
  \/ LockCsMain \/ NothingToDo \/ TakeCandidate \/ DropCandidate
  \/ BeginStep \/ DisconnectTip \/ ConnectTip \/ ConnectTipFails

Next ==
  \/ /\ \/ \E b \in Blocks \ {Genesis} : RejectHeader(b) \/ AddHeader(b)
        \/ \E b \in Blocks, fRequested \in BOOLEAN :
             RejectBlock(b, fRequested) \/ AcceptBlock(b, fRequested) \/ IgnoreBlock(b, fRequested)
        \/ StartActivate \/ Activate
        \/ \E b \in Invalidated : BeginInvalidate(b)
        \/ InvalidateTip \/ EndInvalidate
     /\ UNCHANGED history
  \/ /\ \E b \in Precious : PreciousBlock(b)
     /\ demoted' = (demoted \/ nSequenceId'[tip] > nSequenceId[tip]) /\ UNCHANGED reconsidered
  \/ /\ \E b \in Reconsidered : ResetBlockFailureFlags(b)
     /\ reconsidered' = TRUE /\ UNCHANGED demoted

Spec == Init /\ [][Next]_vars

\* The thread in ActivateBestChain runs on.
FairSpec == Spec /\ WF_vars(Activate /\ UNCHANGED history)

---------------------------------------------------------------------------
HasInvalid(b) == Ancestors(b) \cap failedValid # {}   \* pindexFirstInvalid of CheckBlockIndex
Viable(b) == b \in linked /\ ~HasInvalid(b)

\* CheckBlockIndex: HaveTxsDownloaded holds only when all blocks up to this one have data, and
\* it holds when they have, in whatever order the data arrived, unless one of them is invalid.
LinkedExact ==
  CsMainFree => /\ \A b \in linked : Ancestors(b) \subseteq haveData
                /\ \A b \in index : Ancestors(b) \subseteq haveData /\ ~HasInvalid(b) => b \in linked

\* As CheckBlockIndex asserts it: also when one of them is invalid.
LinkedAll == CsMainFree => linked = {b \in index : Ancestors(b) \subseteq haveData}

\* CheckBlockIndex: a block with data that misses an ancestor's, and has no invalid
\* ancestor, waits in m_blocks_unlinked, and only such blocks do.
UnlinkedExact ==
  CsMainFree => /\ \A b \in haveData \ linked : ~HasInvalid(b) => b \in unlinked
                /\ unlinked \subseteq haveData \ linked

\* CheckBlockIndex: no block carries a failure flag unless it or an ancestor was found
\* invalid.
FailureHasCause == CsMainFree => \A b \in Failed : HasInvalid(b)

\* AcceptBlockHeader asserts that what m_failed_blocks holds is still BLOCK_FAILED_VALID,
\* although reconsiderblock and InvalidateBlock clear and set that flag in other places.
FailedBlocksMarked == m_failed_blocks \subseteq failedValid

\* "We know all blocks in it are valid already" (FindMostWorkChain, of the active chain):
\* they were connected, and none is marked failed, also while invalidateblock runs.
ChainValid == Ancestors(tip) \cap Failed = {} /\ Ancestors(tip) \subseteq scriptsValid

\* CheckBlockIndex: every complete chain without an invalid block that is at least as
\* good as the tip is a candidate, outside of InvalidateBlock.
CandidatesComplete ==
  CsMainFree /\ inv.pc = "idle" => \A b \in linked : Viable(b) /\ ~Worse(b, tip) => b \in candidates

\* CheckBlockIndex, and the assert in FindMostWorkChain: a candidate has data for itself and
\* all ancestors; when cs_main is free none is worse than the tip.
CandidatesSound ==
  /\ candidates \cup {tip} \subseteq linked
  /\ CsMainFree => \A b \in candidates : ~Worse(b, tip)

\* reconsiderblock does not restore what was left undone while an ancestor was marked failed,
\* and a tip that preciousblock gives a larger number than it had may lose its precedence to a
\* block that is no candidate any more.
Undisturbed == ~reconsidered /\ ~demoted

\* What CheckBlockIndex asserts of the links, the flags and the candidates, whenever cs_main
\* is free: data in any order, failing blocks, invalidateblock and preciousblock leave them
\* consistent; after a disturbance only the last two are promised.
CheckBlockIndex ==
  /\ Undisturbed => LinkedExact /\ UnlinkedExact /\ FailureHasCause /\ CandidatesComplete
  /\ CandidatesSound /\ FailedBlocksMarked

\* When no call of ActivateBestChain is running or due, the tip is the best complete
\* chain that has no invalid block.
TipBest == ~wanted /\ ChainstateMutexFree => \A b \in linked : Viable(b) => ~Worse(tip, b)

\* So it is, whatever arrives and is invalidated or preferred, until a disturbance.
QuietTipBest == Undisturbed => TipBest

\* "We absolutely may not unlock cs_main until we've made forward progress": when
\* ActivateBestChain lets go of cs_main the tip is not worse than when it took it, even
\* if a reorganisation failed half-way; until a disturbance, as the tip it had must be a
\* candidate to fall back to.
NoRegress ==
  [][Undisturbed /\ abc.pc \in {"inner", "step"} /\ abc'.pc \in {"outer", "idle"}
       => ~WorseBy(nSequenceId', tip', abc.starting)]_vars


\* The comment in InvalidateBlock: only the last disconnected block stays
\* BLOCK_FAILED_VALID; the one disconnected before it becomes BLOCK_FAILED_CHILD.
OnlyLastFailedValid ==
  [][InvalidateTip /\ inv.mark # NoBlock /\ Parent(inv.mark) = tip => inv.mark \notin failedValid']_vars
===========================================================================
