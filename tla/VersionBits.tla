---------------------------- MODULE VersionBits ----------------------------
(***************************************************************************)
(* Soft-fork deployment states (versionbits.cpp), as used to switch on     *)
(* P2QPK: DEFINED -> STARTED -> LOCKED_IN -> ACTIVE, or FAILED.            *)
(*                                                                         *)
(* GetStateFor memoises the states of whole periods in a cache that is     *)
(* keyed by block and shared by all branches of the block tree; queries    *)
(* come in any order, for any block of the tree.  The tree is fixed; a     *)
(* block is the path that leads to it from the genesis block (included),   *)
(* so the null pointer, the parent of the genesis block, is the empty path *)
(* NoBlock.  A history gives each block its median time past and says      *)
(* whether it signals.                                                     *)
(***************************************************************************)
EXTENDS Integers, Sequences, FiniteSets

CONSTANTS
  Blocks,                    \* the block index, a set of paths
  Period, Threshold,         \* nMinerConfirmationWindow, nRuleChangeActivationThreshold
  Deployments,               \* records [start, timeout, min_activation_height]
  Histories,                 \* records [mtp, signal], functions of the blocks
  ALWAYS_ACTIVE, NEVER_ACTIVE

NoBlock == <<>>
Parent(b) == SubSeq(b, 1, Len(b) - 1)
Height(b) == Len(b) - 1
Ancestors(b) == {SubSeq(b, 1, n) : n \in 1 .. Len(b)}   \* b included

\* The median time past never falls along a chain.
ASSUME VersionBitsAssumption ==
  /\ Period \in Nat \ {0} /\ Threshold \in 1 .. Period
  /\ Blocks \subseteq Seq(UNION {{b[i] : i \in DOMAIN b} : b \in Blocks})
  /\ \A b \in Blocks : b # NoBlock /\ Ancestors(b) \subseteq Blocks
  /\ \A h \in Histories :
       /\ h.mtp \in [Blocks -> Int] /\ h.signal \in [Blocks -> BOOLEAN]
       /\ \A b \in Blocks : Len(b) > 1 => h.mtp[Parent(b)] <= h.mtp[b]
  /\ \A d \in Deployments : d.start \notin {ALWAYS_ACTIVE, NEVER_ACTIVE} =>
       d.start \in Int /\ d.timeout \in Int /\ d.min_activation_height \in Int

VARIABLES
  mtp, signal,   \* the history: GetMedianTimePast, and the bit in nVersion
  dep,           \* the deployment's parameters
  cache          \* ThresholdConditionCache

vars == <<mtp, signal, dep, cache>>

States == {"DEFINED", "STARTED", "LOCKED_IN", "ACTIVE", "FAILED"}

---------------------------------------------------------------------------
\* CBlockIndex::GetAncestor; null for a negative height.
GetAncestor(b, h) == IF h < 0 THEN NoBlock ELSE SubSeq(b, 1, h + 1)

\* The last block of the period before the one that the child of b belongs to.
PeriodParent(b) ==
  GetAncestor(b, Height(b) - ((Height(b) + 1) % Period))
PreviousPeriodParent(b) == GetAncestor(b, Height(b) - Period)

\* The number of signalling blocks among the last n up to b.
Count(b, n) == Cardinality({l \in Len(b) - n + 1 .. Len(b) : signal[SubSeq(b, 1, l)]})

\* One turn of the forward loop of GetStateFor.
NextState(state, b) ==
  CASE state = "DEFINED" /\ mtp[b] >= dep.start -> "STARTED"
    [] state = "STARTED" /\ Count(b, Period) >= Threshold -> "LOCKED_IN"
    [] state = "STARTED" /\ Count(b, Period) < Threshold /\ mtp[b] >= dep.timeout -> "FAILED"
    [] state = "LOCKED_IN" /\ Height(b) + 1 >= dep.min_activation_height -> "ACTIVE"
    [] OTHER -> state

\* The backward walk of GetStateFor from the period parent p: the block after k steps, where
\* it stops, and the number of steps, each of which adds a block to vToCompute.
Back(p, k) == GetAncestor(p, Height(p) - k * Period)
StopsAtStart(c, q) ==   \* variant: <= for <
  q \in DOMAIN c \/ q = NoBlock \/ (q # NoBlock /\ mtp[q] <= dep.start)
StopsAt(c, q) == q \in DOMAIN c \/ q = NoBlock \/ (q # NoBlock /\ mtp[q] < dep.start)
LeastOf(S) == CHOOSE n \in S : \A m \in S : n <= m
Walked(c, p) == LeastOf({k \in 0 .. Len(p) : StopsAt(c, Back(p, k))})

Put(c, b, s) == [x \in DOMAIN c \cup {b} |-> IF x = b THEN s ELSE c[x]]

\* What the walk finds: the state of the block it stops at, DEFINED unless it is cached.
Found(c, p) ==
  LET q == Back(p, Walked(c, p))
      known == IF q \in DOMAIN c THEN c ELSE Put(c, q, "DEFINED")
  IN  [state |-> known[q], cache |-> known]

\* The forward loop: the state and the cache after i blocks were taken off vToCompute.
Forward(c, p) ==
  LET n == Walked(c, p)
      after[i \in 0 .. n] ==
        IF i = 0 THEN Found(c, p)
        ELSE LET r == after[i - 1]
                 s == NextState(r.state, Back(p, n - i))
             IN  [state |-> s, cache |-> Put(r.cache, Back(p, n - i), s)]
  IN  after

\* GetStateFor: the state for the child of b, and the cache it leaves.
GetStateFor(b, c) ==
  IF dep.start = ALWAYS_ACTIVE THEN [state |-> "ACTIVE", cache |-> c]
  ELSE IF dep.start = NEVER_ACTIVE THEN [state |-> "FAILED", cache |-> c]
  ELSE Forward(c, PeriodParent(b))[Walked(c, PeriodParent(b))]

\* The loop of GetStateSinceHeightFor, from the reply "first" for the period of p: the reply
\* about the period j before it, and the number of periods before p that have its state.
Replies(p, first) ==
  LET reply[j \in 0 .. Len(p)] ==
        IF j = 0 THEN first ELSE GetStateFor(Back(p, j), reply[j - 1].cache)
  IN  reply
SamePeriods(p, first) ==
  LeastOf({j \in 0 .. Len(p) : Back(p, j + 1) = NoBlock \/ Replies(p, first)[j + 1].state # first.state})

\* The loop's end: the parent of the first period with the state, and the cache.  The last
\* reply is for a period with another state, unless there is none before.
SinceWalk(p, first) ==
  LET j == SamePeriods(p, first)
      last == IF Back(p, j + 1) = NoBlock THEN j ELSE j + 1
  IN  [block |-> Back(p, j), cache |-> Replies(p, first)[last].cache]

GetStateSinceHeightForParent(b, c) ==   \* variant: the height of the parent block
  LET first == GetStateFor(b, c)
      walk == SinceWalk(PeriodParent(b), first)
  IN  IF dep.start \in {ALWAYS_ACTIVE, NEVER_ACTIVE} THEN [since |-> 0, cache |-> c]
      ELSE IF first.state = "DEFINED" THEN [since |-> 0, cache |-> first.cache]
      ELSE [since |-> Height(walk.block), cache |-> walk.cache]
GetStateSinceHeightFor(b, c) ==
  LET first == GetStateFor(b, c)
      walk == SinceWalk(PeriodParent(b), first)
  IN  IF dep.start \in {ALWAYS_ACTIVE, NEVER_ACTIVE} THEN [since |-> 0, cache |-> c]
      ELSE IF first.state = "DEFINED" THEN [since |-> 0, cache |-> first.cache]
      ELSE [since |-> Height(walk.block) + 1, cache |-> walk.cache]

\* ComputeBlockVersion: does a block mined on b signal for the deployment?
ComputeBlockVersion(b, c) == GetStateFor(b, c).state \in {"LOCKED_IN", "STARTED"}

\* GetStateStatisticsFor the period that includes b.
Elapsed(b) == 1 + (Height(b) % Period)
PossibleStrict(b) == Period - Threshold > Elapsed(b) - Count(b, Elapsed(b))   \* variant: > for >=
Possible(b) == Period - Threshold >= Elapsed(b) - Count(b, Elapsed(b))

---------------------------------------------------------------------------
Init ==
  /\ \E h \in Histories : mtp = h.mtp /\ signal = h.signal
  /\ dep \in Deployments
  /\ cache = <<>>

\* VersionBitsCache::State (block validation, RPC, DeploymentActiveAfter); also what
\* ComputeBlockVersion does to the cache.
State(b) ==
  /\ cache' = GetStateFor(b, cache).cache
  /\ UNCHANGED <<mtp, signal, dep>>

StateSinceHeight(b) ==
  /\ cache' = GetStateSinceHeightFor(b, cache).cache
  /\ UNCHANGED <<mtp, signal, dep>>

\* VersionBitsCache::Clear (the chainstate manager is destroyed).
Clear ==
  /\ cache' = <<>>
  /\ UNCHANGED <<mtp, signal, dep>>

Next ==
  \/ \E b \in Blocks \cup {NoBlock} : State(b) \/ StateSinceHeight(b)
  \/ Clear

Spec == Init /\ [][Next]_vars

---------------------------------------------------------------------------
(* The deployment rules, stated about a whole chain and without a cache.   *)

\* The last blocks of the complete periods of the chain ending in b.
Ends(b) == {a \in Ancestors(b) : (Height(a) + 1) % Period = 0}
Lowest(S) == CHOOSE a \in S : \A x \in S : Height(a) <= Height(x)
Above(S, a) == {x \in S : Height(x) > Height(a)}

\* Voting starts at the first period end past the start time.  The first later period
\* that reaches the threshold, or that ends past the timeout, decides.  A deployment
\* that was locked in becomes active one period later, at the minimum height or above.
Rule(b) ==
  LET started == {a \in Ends(b) : mtp[a] >= dep.start}
      voting == Above(Ends(b), Lowest(started))
      decided == {a \in voting : Count(a, Period) >= Threshold \/ mtp[a] >= dep.timeout}
      verdict == Lowest(decided)
      active == {a \in Above(Ends(b), verdict) : Height(a) + 1 >= dep.min_activation_height}
  IN  IF dep.start = ALWAYS_ACTIVE THEN "ACTIVE"
      ELSE IF dep.start = NEVER_ACTIVE THEN "FAILED"
      ELSE IF started = {} THEN "DEFINED"
      ELSE IF decided = {} THEN "STARTED"
      ELSE IF Count(verdict, Period) < Threshold THEN "FAILED"
      ELSE IF active = {} THEN "LOCKED_IN" ELSE "ACTIVE"

\* Whatever was asked before, about whichever branch, what State and ComputeBlockVersion
\* return next is what the deployment rules give the block, so that all nodes enforce P2QPK
\* from the same block on.  Entries computed for one branch, or by the shortcut for blocks
\* before the start time, never mislead a query about another.
ReplySound ==
  \A b \in Blocks \cup {NoBlock} :
    /\ GetStateFor(b, cache).state = Rule(b)
    /\ ComputeBlockVersion(b, cache) <=> Rule(b) \in {"STARTED", "LOCKED_IN"}

\* StateSinceHeight returns the height of the first block of the chain from which on
\* the state has been the present one without interruption.
SinceSound ==
  \A b \in Blocks :
    LET since == GetStateSinceHeightFor(b, cache).since
        InState(a) == Rule(Parent(a)) = Rule(b)
        same == {a \in Ancestors(b) : \A x \in Ancestors(b) : Height(x) >= Height(a) => InState(x)}
    IN  IF dep.start \in {ALWAYS_ACTIVE, NEVER_ACTIVE} \/ Rule(b) = "DEFINED" THEN since = 0
        ELSE since = IF same = {} THEN Height(b) + 1 ELSE Height(Lowest(same))

\* Once the statistics say that the threshold is out of reach in this period
\* (possible = false), no continuation of the chain is locked in at its end.
PossibleHonest ==
  \A e \in Blocks : \A b \in Ancestors(e) :
    /\ (Height(e) + 1) % Period = 0
    /\ Height(e) \div Period = Height(b) \div Period
    /\ ~Possible(b)
    /\ Rule(PreviousPeriodParent(e)) = "STARTED"
    => Rule(e) # "LOCKED_IN"
===========================================================================
