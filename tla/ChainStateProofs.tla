-------------------------- MODULE ChainStateProofs --------------------------
(***************************************************************************)
(* Proofs about ChainState: the facts about the tree of blocks, the work   *)
(* order and the single actions; the part of the inductive invariant that  *)
(* holds whatever the operator does, reconsiderblock included; the rest,   *)
(* which holds until a disturbance; and the theorems about the choice of   *)
(* the active chain.                                                       *)
(***************************************************************************)
EXTENDS ChainState, FiniteSetTheorems, TLAPS

Phases == {"idle", "outer", "inner", "step"}
Maybe(S) == S \cup {NoBlock}
Calls == [pc : Phases, most : Maybe(Blocks), starting : Maybe(Blocks), old : Maybe(Blocks), connected : BOOLEAN]
Walks == [pc : {"idle", "walk"}, block : Maybe(Blocks), mark : Maybe(Blocks), cands : SUBSET Blocks]

TypeOK ==
  /\ index \subseteq Blocks /\ haveData \subseteq index /\ linked \subseteq haveData
  /\ unlinked \subseteq haveData \ linked
  /\ scriptsValid \subseteq Blocks /\ failedValid \subseteq Blocks /\ failedChild \subseteq Blocks
  /\ nSequenceId \in [Blocks -> Int] /\ nBlockSequenceId \in Int /\ nBlockReverseSequenceId \in Int
  /\ candidates \subseteq linked /\ tip \in linked
  /\ abc \in Calls /\ inv \in Walks
  /\ wanted \in BOOLEAN /\ reconsidered \in BOOLEAN /\ demoted \in BOOLEAN

\* A header is added above a known one, and a block is linked above a linked one.
Closed ==
  /\ \A b \in index : Ancestors(b) \subseteq index
  /\ \A b \in linked : Ancestors(b) \subseteq linked

\* What ActivateBestChain and InvalidateBlock remember between their steps.
Progress ==
  /\ abc.pc = "idle" => abc = IdleABC
  /\ abc.most # NoBlock => abc.most \in linked
  /\ abc.pc \in {"inner", "step"} => abc.starting \in linked
  /\ abc.pc = "step" => abc.most \notin {NoBlock, tip} /\ abc.old \in linked /\ abc.connected
  /\ inv.cands \subseteq linked
  /\ inv.pc = "walk" => /\ abc.pc = "idle"
                        /\ inv.block \in index \ {Genesis} /\ inv.mark \in index \ {Genesis}
                        /\ inv.mark = inv.block \/ Parent(inv.mark) = tip

\* The active chain and the chain ActivateBestChain is heading for are free of failed blocks.
Valid ==
  /\ ChainValid /\ FailedBlocksMarked
  /\ scriptsValid \cap BadConnect = {}
  /\ abc.most # NoBlock => Ancestors(abc.most) \cap Failed = {}

\* No candidate is worse than the tip.
NoneWorse == \A c \in candidates : ~Worse(c, tip)

Base == TypeOK /\ Closed /\ Progress /\ Valid /\ NoneWorse

---------------------------------------------------------------------------
(* Until a disturbance. *)
Caused == \A b \in Failed : HasInvalid(b)

Links ==
  /\ \A b \in index : Ancestors(b) \subseteq haveData /\ ~HasInvalid(b) => b \in linked
  /\ \A b \in haveData \ linked : ~HasInvalid(b) => b \in unlinked

Searching == abc.pc \in {"inner", "step"}

\* All that could replace the tip are candidates; during a search, all that could replace both
\* the tip and the tip at its start.
Complete ==
  inv.pc = "idle" =>
    \A b \in linked :
      Viable(b) /\ ~Worse(b, tip) /\ (Searching => ~Worse(b, abc.starting)) => b \in candidates

\* The tip of the start stays valid, is not overtaken before the search ends, and the search
\* aims no lower.
Fallback ==
  /\ Searching => Ancestors(abc.starting) \cap Failed = {} /\ Ancestors(abc.starting) \subseteq scriptsValid
  /\ abc.pc = "inner" => ~Worse(abc.starting, tip)
  /\ abc.pc = "step" /\ tip \notin Ancestors(abc.most) => ~Worse(abc.starting, tip)
  /\ Searching /\ abc.most # NoBlock => ~Worse(abc.most, abc.starting)
  /\ abc.pc = "outer" /\ abc.most # NoBlock => tip \in Ancestors(abc.most) /\ tip # abc.most

\* The target, and at rest the tip, is the best complete valid chain unless another call of
\* ActivateBestChain is due.
Aim ==
  /\ abc.pc # "idle" /\ abc.most # NoBlock /\ ~wanted => \A b \in linked : Viable(b) => ~Worse(abc.most, b)
  /\ ChainstateMutexFree /\ ~wanted => \A b \in linked : Viable(b) => ~Worse(tip, b)

Calm == Caused /\ Links /\ Complete /\ Fallback /\ Aim
Inv == Base /\ (Undisturbed => Calm)

---------------------------------------------------------------------------
(* The tree of blocks. *)
Items == UNION {{b[i] : i \in DOMAIN b} : b \in Blocks}

\* A block is a path of one step or more from the genesis block, and so is each prefix of it.
LEMMA BlockShape ==
  ASSUME NEW b \in Blocks
  PROVE  /\ b \in Seq(Items) /\ Len(b) \in Nat /\ Len(b) > 0 /\ b # NoBlock
         /\ Ancestors(b) \subseteq Blocks /\ Genesis \in Ancestors(b)
<1>1. b \in Seq(Items) /\ Len(b) > 0 /\ Ancestors(b) \subseteq Blocks /\ Genesis \in Ancestors(b)
  BY ChainStateAssumption DEF Items
<1>2. Len(b) \in Nat BY <1>1
<1>3. b # NoBlock BY <1>1 DEF NoBlock
<1> QED BY <1>1, <1>2, <1>3

\* The prefixes of a sequence: their lengths, elements and own prefixes.
LEMMA PrefixFacts ==
  ASSUME NEW S, NEW b \in Seq(S), NEW n \in 0 .. Len(b)
  PROVE  /\ SubSeq(b, 1, n) \in Seq(S) /\ Len(SubSeq(b, 1, n)) = n
         /\ \A m \in 0 .. n : SubSeq(SubSeq(b, 1, n), 1, m) = SubSeq(b, 1, m)
<1>0. Len(b) \in Nat OBVIOUS
<1>1. SubSeq(b, 1, n) \in Seq(S) /\ Len(SubSeq(b, 1, n)) = n
      /\ \A i \in 1 .. n : SubSeq(b, 1, n)[i] = b[i]
  <2>1. \A i \in 1 .. n : b[i] \in S BY <1>0
  <2> QED BY <1>0, <2>1
<1>2. ASSUME NEW m \in 0 .. n PROVE SubSeq(SubSeq(b, 1, n), 1, m) = SubSeq(b, 1, m)
  <2> DEFINE p == SubSeq(b, 1, n)
  <2>1. SubSeq(p, 1, m) = [i \in 1 .. m |-> p[i]] BY <1>0, <1>1
  <2>2. SubSeq(b, 1, m) = [i \in 1 .. m |-> b[i]] BY <1>0
  <2>3. \A i \in 1 .. m : p[i] = b[i] BY <1>0, <1>1
  <2> QED BY <2>1, <2>2, <2>3
<1> QED BY <1>1, <1>2

\* A path is the longest of its prefixes.
LEMMA WholePrefix == ASSUME NEW S, NEW b \in Seq(S) PROVE SubSeq(b, 1, Len(b)) = b
OBVIOUS

\* An ancestor is known by its length, and its ancestors are the shorter ones.
LEMMA AncestorFacts ==
  ASSUME NEW b \in Blocks, NEW a \in Ancestors(b)
  PROVE  /\ a \in Blocks /\ Len(a) \in 1 .. Len(b) /\ a = SubSeq(b, 1, Len(a))
         /\ \A c \in Ancestors(b) : Len(c) <= Len(a) => c \in Ancestors(a)
         /\ Ancestors(a) \subseteq Ancestors(b)
<1>0. b \in Seq(Items) /\ Len(b) \in Nat /\ a \in Blocks BY BlockShape
<1>1. \A c \in Ancestors(b) : Len(c) \in 1 .. Len(b) /\ c = SubSeq(b, 1, Len(c))
  <2> SUFFICES ASSUME NEW n \in 1 .. Len(b)
               PROVE  LET c == SubSeq(b, 1, n) IN Len(c) \in 1 .. Len(b) /\ c = SubSeq(b, 1, Len(c))
    BY DEF Ancestors
  <2>1. n \in 0 .. Len(b) BY <1>0
  <2> QED BY <1>0, <2>1, PrefixFacts
<1>2. \A m \in 1 .. Len(a) : SubSeq(a, 1, m) = SubSeq(b, 1, m)
  <2>1. Len(a) \in 0 .. Len(b) /\ a = SubSeq(b, 1, Len(a)) BY <1>0, <1>1
  <2>2. \A m \in 0 .. Len(a) : SubSeq(a, 1, m) = SubSeq(b, 1, m)
    BY <1>0, <2>1, PrefixFacts, Zenon
  <2> QED BY <1>0, <1>1, <2>2
<1>3. ASSUME NEW c \in Ancestors(b), Len(c) <= Len(a) PROVE c \in Ancestors(a)
  <2>1. Len(c) \in 1 .. Len(a) /\ c = SubSeq(b, 1, Len(c)) BY <1>0, <1>1, <1>3
  <2>2. c = SubSeq(a, 1, Len(c)) BY <2>1, <1>2
  <2> QED BY <2>1, <2>2, Zenon DEF Ancestors
<1>4. ASSUME NEW c \in Ancestors(a) PROVE c \in Ancestors(b)
  <2>1. PICK m \in 1 .. Len(a) : c = SubSeq(a, 1, m) BY <1>4 DEF Ancestors
  <2>2. m \in 1 .. Len(b) /\ c = SubSeq(b, 1, m) BY <1>0, <1>1, <1>2, <2>1
  <2> QED BY <2>2 DEF Ancestors
<1> QED BY <1>0, <1>1, <1>3, <1>4

\* The order of the tree.
LEMMA Tree ==
  /\ \A b \in Blocks : /\ b \in Ancestors(b) /\ Ancestors(b) \subseteq Blocks
                       /\ Genesis \in Ancestors(b) /\ b # NoBlock
  /\ \A b \in Blocks : \A a \in Ancestors(b) : Ancestors(a) \subseteq Ancestors(b)
  /\ \A b \in Blocks : \A a, c \in Ancestors(b) : a \in Ancestors(c) \/ c \in Ancestors(a)
  /\ \A a, b \in Blocks : a \in Ancestors(b) /\ b \in Ancestors(a) => a = b
  /\ \A a, b \in Blocks : IsAncestor(a, b) <=> a \in Ancestors(b)
<1>1. ASSUME NEW b \in Blocks
      PROVE  b \in Ancestors(b) /\ Ancestors(b) \subseteq Blocks /\ Genesis \in Ancestors(b) /\ b # NoBlock
  <2>1. Len(b) \in 1 .. Len(b) /\ b = SubSeq(b, 1, Len(b)) BY BlockShape, WholePrefix
  <2> QED BY <2>1, BlockShape, Zenon DEF Ancestors
<1>2. ASSUME NEW b \in Blocks, NEW a \in Ancestors(b) PROVE Ancestors(a) \subseteq Ancestors(b)
  BY AncestorFacts
<1>3. ASSUME NEW b \in Blocks, NEW a \in Ancestors(b), NEW c \in Ancestors(b)
      PROVE  a \in Ancestors(c) \/ c \in Ancestors(a)
  <2>1. Len(a) \in Nat /\ Len(c) \in Nat BY BlockShape
  <2>2. Len(a) <= Len(c) \/ Len(c) <= Len(a) BY <2>1
  <2> QED BY <2>2, AncestorFacts
<1>4. ASSUME NEW a \in Blocks, NEW b \in Blocks, a \in Ancestors(b), b \in Ancestors(a) PROVE a = b
  <2>1. Len(a) \in 1 .. Len(b) /\ Len(b) \in 1 .. Len(a) /\ a = SubSeq(b, 1, Len(a))
    BY <1>4, AncestorFacts
  <2>2. Len(a) = Len(b) BY <2>1, BlockShape
  <2> QED BY <2>1, <2>2, BlockShape, WholePrefix
<1>5. ASSUME NEW a \in Blocks, NEW b \in Blocks PROVE IsAncestor(a, b) <=> a \in Ancestors(b)
  <2>1. IsAncestor(a, b) => a \in Ancestors(b) BY Zenon DEF IsAncestor, Ancestors
  <2>2. a \in Ancestors(b) => IsAncestor(a, b) BY AncestorFacts DEF IsAncestor
  <2> QED BY <2>1, <2>2, Zenon
<1> QED BY <1>1, <1>2, <1>3, <1>4, <1>5, Zenon

\* A block other than the genesis block has a parent, and its ancestors are the parent's and
\* itself.
LEMMA ParentFacts ==
  ASSUME NEW b \in Blocks \ {Genesis}
  PROVE  /\ Parent(b) \in Blocks /\ Parent(b) \in Ancestors(b) /\ b \notin Ancestors(Parent(b))
         /\ Ancestors(b) = Ancestors(Parent(b)) \cup {b}
<1>a. Len(b) \in Nat /\ Len(b) > 0 BY BlockShape
<1>0. b \in Seq(Items) BY BlockShape
<1>1. Len(b) > 1
  <2>1. Genesis = SubSeq(b, 1, 1)
    <3>1. Genesis \in Ancestors(b) /\ Len(Genesis) = 1 BY BlockShape, ChainStateAssumption
    <3> QED BY <3>1, AncestorFacts
  <2>2. Len(b) = 1 => b = Genesis BY <2>1, <1>0, WholePrefix
  <2>3. Len(b) # 1 BY <2>2
  <2>4. \A n \in Nat : n > 0 /\ n # 1 => n > 1 OBVIOUS
  <2> QED BY <1>a, <2>3, <2>4, Zenon
<1>2. Len(b) - 1 \in 1 .. Len(b) /\ Len(b) - 1 \in 0 .. Len(b) BY <1>a, <1>1
<1>3. Parent(b) \in Ancestors(b) BY <1>2, Zenon DEF Parent, Ancestors
<1>4. Parent(b) \in Blocks BY <1>3, BlockShape
<1>5. Len(Parent(b)) = Len(b) - 1 BY <1>0, <1>2, PrefixFacts DEF Parent
<1>6. ASSUME NEW c \in Ancestors(b), c # b PROVE c \in Ancestors(Parent(b))
  <2>1. Len(c) \in 1 .. Len(b) /\ c = SubSeq(b, 1, Len(c)) BY AncestorFacts
  <2>2. Len(c) # Len(b) BY <1>6, <2>1, <1>0, WholePrefix
  <2>3. \A n \in Nat : \A k \in 1 .. n : k # n => k <= n - 1 OBVIOUS
  <2>4. Len(c) <= Len(Parent(b)) BY <1>a, <1>5, <2>1, <2>2, <2>3, Zenon
  <2> QED BY <1>3, <2>4, AncestorFacts
<1>7. b \notin Ancestors(Parent(b))
  <2>1. b \in Ancestors(Parent(b)) => Len(b) \in 1 .. Len(Parent(b)) BY <1>4, AncestorFacts
  <2> QED BY <1>a, <1>5, <2>1
<1> QED BY <1>3, <1>4, <1>6, <1>7, Tree

\* The block to connect next on the way from an ancestor to a block.
LEMMA NextFacts ==
  ASSUME NEW m \in Blocks, NEW t \in Ancestors(m), t # m
  PROVE  LET n == SubSeq(m, 1, Len(t) + 1)
         IN  n \in Ancestors(m) /\ n \in Blocks \ {Genesis} /\ Parent(n) = t
<1> DEFINE n == SubSeq(m, 1, Len(t) + 1)
<1>0. m \in Seq(Items) /\ Len(m) \in Nat BY BlockShape
<1>1. Len(t) \in 1 .. Len(m) /\ t = SubSeq(m, 1, Len(t)) BY AncestorFacts
<1>2. Len(t) # Len(m) BY <1>0, <1>1, WholePrefix
<1>3. Len(t) + 1 \in 1 .. Len(m) /\ Len(t) + 1 \in 0 .. Len(m) BY <1>0, <1>1, <1>2
<1>4. n \in Ancestors(m) BY <1>3 DEF Ancestors
<1>5. Len(n) = Len(t) + 1 /\ SubSeq(n, 1, Len(t)) = SubSeq(m, 1, Len(t))
  <2>1. Len(t) \in 0 .. (Len(t) + 1) BY <1>1
  <2> QED BY <1>0, <1>3, <2>1, PrefixFacts
<1>6. Parent(n) = t
  <2>1. Len(n) - 1 = Len(t) BY <1>1, <1>5
  <2> QED BY <1>1, <1>5, <2>1 DEF Parent
<1>7. n # Genesis BY <1>1, <1>5, ChainStateAssumption
<1> HIDE DEF n
<1>8. n \in Blocks BY <1>4, BlockShape
<1> QED BY <1>4, <1>6, <1>7, <1>8 DEF n

\* A set of natural numbers up to n that is not empty has a largest element.
LEMMA Largest ==
  ASSUME NEW n \in Nat, NEW S, S \subseteq 0 .. n, S # {}
  PROVE  \E x \in S : \A y \in S : y <= x
<1> DEFINE T == {n - x : x \in S}
<1>1. T \subseteq Nat /\ T # {}
  <2>1. \A x \in S : n - x \in Nat OBVIOUS
  <2>2. T # {} BY Zenon
  <2> QED BY <2>1, <2>2
<1>2. PICK m \in T : \A y \in T : ~(<<y, m>> \in OpToRel(<, Nat))
  BY <1>1, NatLessThanWellFounded, WFMin
<1>3. \A y \in T : ~(y < m) BY <1>1, <1>2, Zenon DEF OpToRel
<1>4. PICK x \in S : m = n - x OBVIOUS
<1>5. ASSUME NEW y \in S PROVE y <= x
  <2>1. ~(n - y < n - x) BY <1>3, <1>4, Zenon
  <2> QED BY <2>1
<1> QED BY <1>5

\* The tip is the fork of the active chain and a block's exactly when the block is above it.
LEMMA ForkFacts ==
  ASSUME tip \in Blocks, NEW m \in Blocks
  PROVE  tip = FindFork(m) <=> tip \in Ancestors(m)
<1> DEFINE X == Ancestors(m) \cap Ancestors(tip)
           Longest(a) == a \in X /\ \A x \in X : Len(x) <= Len(a)
<1>0. Len(tip) \in Nat /\ tip \in Ancestors(tip) BY BlockShape, Tree
<1>1. \A x \in X : Len(x) \in 1 .. Len(tip) BY AncestorFacts
<1>2. \E a \in X : Longest(a)
  <2> DEFINE S == {Len(x) : x \in X}
  <2>1. S \subseteq 0 .. Len(tip) BY <1>0, <1>1
  <2>2. Genesis \in X BY Tree
  <2>3. S # {} BY <2>2, Zenon
  <2>4. PICK k \in S : \A y \in S : y <= k BY <1>0, <2>1, <2>3, Largest, Zenon
  <2> QED BY <2>4
<1>3. FindFork(m) \in X /\ \A x \in X : Len(x) <= Len(FindFork(m))
  BY <1>2 DEF FindFork
<1>4. ASSUME tip \in Ancestors(m) PROVE tip = FindFork(m)
  <2>1. Len(FindFork(m)) \in 1 .. Len(tip) /\ FindFork(m) = SubSeq(tip, 1, Len(FindFork(m)))
    BY <1>3, AncestorFacts
  <2>2. Len(tip) <= Len(FindFork(m)) BY <1>0, <1>3, <1>4
  <2>3. Len(FindFork(m)) = Len(tip) BY <1>0, <2>1, <2>2
  <2> QED BY <2>1, <2>3, BlockShape, WholePrefix
<1> QED BY <1>3, <1>4

---------------------------------------------------------------------------
\* CBlockIndexWorkComparator is a strict total order, and a block is better than its ancestors.
LEMMA Order ==
  ASSUME NEW seq \in [Blocks -> Int]
  PROVE  /\ \A a \in Blocks : ~WorseBy(seq, a, a)
         /\ \A a, b, c \in Blocks : WorseBy(seq, a, b) /\ WorseBy(seq, b, c) => WorseBy(seq, a, c)
         /\ \A a, b \in Blocks : a = b \/ WorseBy(seq, a, b) \/ WorseBy(seq, b, a)
         /\ \A a, b \in Blocks : WorseBy(seq, a, b) => ~WorseBy(seq, b, a)
         /\ \A b \in Blocks : \A a \in Ancestors(b) : a # b => WorseBy(seq, a, b)
<1>0. \A b \in Blocks : ChainWork[b] \in Nat /\ Addr[b] \in Int /\ seq[b] \in Int
  BY ChainStateAssumption
<1>1. \A a \in Blocks : ~WorseBy(seq, a, a) BY <1>0 DEF WorseBy
<1>2. \A a, b, c \in Blocks : WorseBy(seq, a, b) /\ WorseBy(seq, b, c) => WorseBy(seq, a, c)
  BY <1>0 DEF WorseBy
<1>3. \A a, b \in Blocks : a = b \/ WorseBy(seq, a, b) \/ WorseBy(seq, b, a)
  <2> TAKE a, b \in Blocks
  <2>1. a = b \/ Addr[a] # Addr[b] BY ChainStateAssumption
  <2> QED BY <1>0, <2>1 DEF WorseBy
<1>4. \A a, b \in Blocks : WorseBy(seq, a, b) => ~WorseBy(seq, b, a) BY <1>0 DEF WorseBy
<1>5. ASSUME NEW b \in Blocks, NEW a \in Ancestors(b), a # b PROVE WorseBy(seq, a, b)
  <2>1. a \in Blocks /\ IsAncestor(a, b) BY Tree
  <2>2. ChainWork[a] < ChainWork[b] BY <1>5, <2>1, ChainStateAssumption
  <2> QED BY <2>2 DEF WorseBy
<1> QED BY <1>1, <1>2, <1>3, <1>4, <1>5

---------------------------------------------------------------------------
\* How a step of ActivateBestChain ends: it goes round the inner loop while the tip is worse
\* than at the start, else lets go of cs_main, for good if the target is reached.
LEMMA AfterFacts ==
  ASSUME NEW a \in Calls, NEW t \in Blocks, a.connected
  PROVE  LET r == AfterStep(a, t)
         IN  /\ r \in Calls /\ r.pc \in {"inner", "outer", "idle"}
             /\ r.pc = "inner" => Worse(t, a.starting) /\ r.most = a.most /\ r.starting = a.starting
             /\ r.pc = "outer" => ~Worse(t, a.starting) /\ r.most = a.most /\ a.most # t
             /\ r.pc = "idle" => ~Worse(t, a.starting) /\ r = IdleABC /\ a.most = t
<1> DEFINE r == AfterStep(a, t)
<1>0. IdleABC \in Calls /\ IdleABC.pc = "idle" BY DEF IdleABC, Calls, Phases, Maybe
<1>1. CASE Worse(t, a.starting)
  <2>1. r = [a EXCEPT !.pc = "inner", !.old = NoBlock] BY <1>1 DEF AfterStep
  <2>2. r \in Calls /\ r.pc = "inner" /\ r.most = a.most /\ r.starting = a.starting
    BY <2>1, Zenon DEF Calls, Phases, Maybe
  <2> QED BY <1>1, <2>2
<1>2. CASE ~Worse(t, a.starting) /\ a.most = t
  <2>1. r = IdleABC BY <1>2 DEF AfterStep, Unlock
  <2> QED BY <1>0, <1>2, <2>1
<1>3. CASE ~Worse(t, a.starting) /\ a.most # t
  <2>1. r = [a EXCEPT !.pc = "outer", !.starting = NoBlock, !.old = NoBlock, !.connected = FALSE]
    BY <1>3 DEF AfterStep, Unlock
  <2>2. r \in Calls /\ r.pc = "outer" /\ r.most = a.most BY <2>1, Zenon DEF Calls, Phases, Maybe
  <2> QED BY <1>3, <2>2
<1> QED BY <1>1, <1>2, <1>3

\* After the inner loop: ActivateBestChain returns when nothing was connected or the target is
\* reached, else it keeps its target for another round.
LEMMA UnlockFacts ==
  ASSUME NEW a \in Calls, NEW t \in Blocks
  PROVE  LET r == Unlock(a, t)
         IN  /\ r \in Calls /\ r.pc \in {"outer", "idle"}
             /\ r.pc = "outer" => r.most = a.most /\ a.most # t /\ a.connected
             /\ r.pc = "idle" => r = IdleABC /\ (~a.connected \/ a.most = t)
<1> DEFINE r == Unlock(a, t)
<1>1. CASE ~a.connected \/ a.most = t
  <2>1. r = IdleABC BY <1>1 DEF Unlock
  <2>2. IdleABC \in Calls /\ IdleABC.pc = "idle" BY DEF IdleABC, Calls, Phases, Maybe
  <2> QED BY <1>1, <2>1, <2>2
<1>2. CASE a.connected /\ a.most # t
  <2>1. r = [a EXCEPT !.pc = "outer", !.starting = NoBlock, !.old = NoBlock, !.connected = FALSE]
    BY <1>2 DEF Unlock
  <2>2. r \in Calls /\ r.pc = "outer" /\ r.most = a.most BY <2>1, Zenon DEF Calls, Phases, Maybe
  <2> QED BY <1>2, <2>2
<1>3. a.connected \in BOOLEAN BY DEF Calls
<1> QED BY <1>1, <1>2, <1>3

\* The components of the two records.
LEMMA RecordFacts ==
  /\ \A a \in Calls : a.pc \in Phases /\ a.most \in Maybe(Blocks) /\ a.starting \in Maybe(Blocks)
                      /\ a.old \in Maybe(Blocks) /\ a.connected \in BOOLEAN
  /\ \A w \in Walks : w.pc \in {"idle", "walk"} /\ w.block \in Maybe(Blocks) /\ w.mark \in Maybe(Blocks)
                      /\ w.cands \subseteq Blocks
  /\ IdleABC \in Calls /\ IdleABC.pc = "idle" /\ IdleABC.most = NoBlock
  /\ IdleInv \in Walks /\ IdleInv.pc = "idle" /\ IdleInv.cands = {}
BY DEF Calls, Walks, IdleABC, IdleInv, Phases, Maybe

\* Facts that the invariant gives at once.
LEMMA BaseFacts ==
  ASSUME TypeOK, Closed
  PROVE  /\ tip \in Blocks /\ tip \in index /\ Ancestors(tip) \subseteq linked /\ Genesis \in linked
         /\ linked \subseteq index /\ linked \subseteq Blocks /\ candidates \subseteq Blocks
<1>1. tip \in Blocks BY DEF TypeOK
<1>2. Ancestors(tip) \subseteq linked BY DEF TypeOK, Closed
<1> QED BY <1>1, <1>2, Tree DEF TypeOK

---------------------------------------------------------------------------
\* ReceivedBlockTransactions: what is linked was not linked before, numbers of linked blocks
\* stay, and what is not worse than the tip becomes a candidate.
LEMMA AcceptFacts ==
  ASSUME TypeOK, Closed, NEW b \in Blocks, NEW r \in BOOLEAN, AcceptBlock(b, r)
  PROVE  /\ b \in index \ Failed /\ b \notin haveData /\ b # Genesis /\ CsMainFree
         /\ haveData' = haveData \cup {b} /\ index' = index
         /\ b \in Linkable(b) /\ Linkable(b) \subseteq haveData \cup {b} /\ Linkable(b) \cap linked = {}
         /\ Parent(b) \in linked =>
              /\ linked' = linked \cup Linkable(b) /\ unlinked' = unlinked \ Linkable(b)
              /\ candidates' = candidates \cup {d \in Linkable(b) : ~WorseBy(nSequenceId', d, tip)}
         /\ Parent(b) \notin linked =>
              /\ linked' = linked /\ candidates' = candidates
              /\ unlinked' = IF Parent(b) \in Failed THEN unlinked ELSE unlinked \cup {b}
         /\ nSequenceId' \in [Blocks -> Int] /\ nBlockSequenceId' \in Int
         /\ \A x \in linked : nSequenceId'[x] = nSequenceId[x]
<1>0. b \in index \ Failed /\ b \notin haveData /\ CsMainFree
  BY DEF AcceptBlock, Acceptable
<1>1. b # Genesis BY <1>0, BaseFacts DEF TypeOK
<1>2. haveData' = haveData \cup {b} /\ index' = index
  BY DEF AcceptBlock, ReceivedBlockTransactions
<1>3. b \in Linkable(b) /\ Linkable(b) \subseteq unlinked \cup {b}
  BY Tree DEF Linkable
<1>4. Linkable(b) \subseteq haveData \cup {b} /\ Linkable(b) \cap linked = {}
  BY <1>0, <1>3 DEF TypeOK
<1>5. ASSUME Parent(b) \in linked
      PROVE  /\ linked' = linked \cup Linkable(b) /\ unlinked' = unlinked \ Linkable(b)
             /\ candidates' = candidates \cup {d \in Linkable(b) : ~WorseBy(nSequenceId', d, tip)}
             /\ nSequenceId' \in [Blocks -> Int] /\ nBlockSequenceId' \in Int
             /\ \A x \in linked : nSequenceId'[x] = nSequenceId[x]
  <2> DEFINE Seq2(pos) == [d \in Blocks |-> IF d \in Linkable(b) THEN nBlockSequenceId + pos[d] - 1
                                            ELSE nSequenceId[d]]
  <2>1. PICK pos \in LinkOrders(b) :
          /\ nSequenceId' = Seq2(pos)
          /\ nBlockSequenceId' = nBlockSequenceId + Cardinality(Linkable(b))
          /\ linked' = linked \cup Linkable(b) /\ unlinked' = unlinked \ Linkable(b)
          /\ candidates' = candidates \cup {d \in Linkable(b) : ~WorseBy(Seq2(pos), d, tip)}
    BY <1>5 DEF AcceptBlock, ReceivedBlockTransactions
  <2>2. Cardinality(Linkable(b)) \in Nat
    <3>1. Linkable(b) \subseteq Blocks BY <1>3 DEF TypeOK
    <3>2. IsFiniteSet(Linkable(b)) BY <3>1, ChainStateAssumption, FS_Subset
    <3> QED BY <3>2, FS_CardinalityType
  <2>3. \A d \in Linkable(b) : pos[d] \in Int
    BY <2>2 DEF LinkOrders
  <2>4. nSequenceId' \in [Blocks -> Int] /\ nBlockSequenceId' \in Int
    BY <2>1, <2>2, <2>3 DEF TypeOK
  <2>5. \A x \in linked : nSequenceId'[x] = nSequenceId[x]
    BY <2>1, <1>4, BaseFacts
  <2> HIDE DEF Seq2
  <2> QED BY <2>1, <2>4, <2>5
<1>6. ASSUME Parent(b) \notin linked
      PROVE  /\ linked' = linked /\ candidates' = candidates
             /\ unlinked' = IF Parent(b) \in Failed THEN unlinked ELSE unlinked \cup {b}
             /\ nSequenceId' = nSequenceId /\ nBlockSequenceId' = nBlockSequenceId
  BY <1>6 DEF AcceptBlock, ReceivedBlockTransactions
<1> QED BY <1>0, <1>1, <1>2, <1>3, <1>4, <1>5, <1>6 DEF TypeOK

\* DisconnectTip leaves the active chain without its last block, which is not on the way to
\* the target.
LEMMA DisconnectFacts ==
  ASSUME Base, DisconnectTip
  PROVE  /\ abc.most \in Blocks /\ abc.most \in linked /\ tip \notin Ancestors(abc.most)
         /\ tip \in Blocks \ {Genesis} /\ tip' = Parent(tip) /\ tip' \in linked /\ tip' \in Blocks
         /\ Ancestors(tip) = Ancestors(tip') \cup {tip} /\ tip' \in Ancestors(tip)
         /\ abc' = IF tip' = abc.most THEN AfterStep(abc, tip') ELSE abc
<1>0. tip \in Blocks /\ Ancestors(tip) \subseteq linked /\ linked \subseteq Blocks BY BaseFacts DEF Base
<1>1. abc.most \in linked /\ abc.most \in Blocks BY <1>0 DEF Base, Progress, DisconnectTip
<1>2. tip \notin Ancestors(abc.most) BY <1>0, <1>1, ForkFacts DEF DisconnectTip
<1>3. tip # Genesis BY <1>1, <1>2, Tree
<1>4. tip' = Parent(tip) /\ abc' = IF tip' = abc.most THEN AfterStep(abc, tip') ELSE abc
  BY DEF DisconnectTip
<1> QED BY <1>0, <1>1, <1>2, <1>3, <1>4, ParentFacts

\* The block to connect is the child of the tip on the way to the target; it is not failed.
LEMMA ConnectFacts ==
  ASSUME Base, abc.pc = "step", tip = FindFork(abc.most)
  PROVE  /\ abc.most \in Blocks /\ abc.most \in linked /\ tip \in Ancestors(abc.most) /\ tip # abc.most
         /\ NextToConnect \in Ancestors(abc.most) /\ NextToConnect \in linked
         /\ NextToConnect \in Blocks \ {Genesis} /\ NextToConnect \notin Failed
         /\ Ancestors(NextToConnect) = Ancestors(tip) \cup {NextToConnect}
         /\ tip \in Ancestors(NextToConnect) /\ tip # NextToConnect /\ NextToConnect \notin Ancestors(tip)
<1>0. tip \in Blocks /\ linked \subseteq Blocks BY BaseFacts DEF Base
<1>1. abc.most \in linked /\ abc.most \in Blocks /\ abc.most # tip /\ abc.most # NoBlock
  BY <1>0 DEF Base, Progress
<1>2. tip \in Ancestors(abc.most) BY <1>0, <1>1, ForkFacts
<1>3. /\ NextToConnect \in Ancestors(abc.most) /\ NextToConnect \in Blocks \ {Genesis}
      /\ Parent(NextToConnect) = tip
  BY <1>1, <1>2, NextFacts DEF NextToConnect
<1>4. NextToConnect \in linked /\ NextToConnect \notin Failed
  BY <1>1, <1>3 DEF Base, Closed, Valid
<1>5. /\ Ancestors(NextToConnect) = Ancestors(tip) \cup {NextToConnect}
      /\ tip \in Ancestors(NextToConnect) /\ NextToConnect \notin Ancestors(tip)
  BY <1>3, ParentFacts
<1>6. tip # NextToConnect BY <1>0, <1>5, Tree
<1> QED BY <1>1, <1>2, <1>3, <1>4, <1>5, <1>6

\* InvalidateBlock disconnects the tip, which is not the genesis block; the parent it leaves is
\* never the block marked before, so nothing is re-marked.
LEMMA InvalidateFacts ==
  ASSUME Base, InvalidateTip
  PROVE  /\ tip \in Blocks \ {Genesis} /\ tip' = Parent(tip) /\ tip' \in linked /\ tip' \in Blocks
         /\ Ancestors(tip) = Ancestors(tip') \cup {tip} /\ tip' \in Ancestors(tip)
         /\ tip \notin Ancestors(tip')
         /\ failedValid' = failedValid \cup {tip} /\ failedChild' = failedChild
         /\ inv.pc = "walk" /\ abc.pc = "idle" /\ abc.most = NoBlock
<1>0. tip \in Blocks /\ Ancestors(tip) \subseteq linked BY BaseFacts DEF Base
<1>1. inv.pc = "walk" /\ inv.block \in Blocks \ {Genesis} /\ abc.pc = "idle"
  BY DEF InvalidateTip, Base, Progress, TypeOK
<1>2. inv.block \in Ancestors(tip)
  BY <1>0, <1>1, Tree DEF InvalidateTip, InChain
<1>3. tip # Genesis
  <2>1. tip = Genesis => inv.block = Genesis BY <1>0, <1>1, <1>2, Tree
  <2> QED BY <1>1, <2>1
<1>4. tip' = Parent(tip) BY DEF InvalidateTip
<1>5. /\ tip' \in Ancestors(tip) /\ tip' \in Blocks /\ tip \notin Ancestors(tip')
      /\ Ancestors(tip) = Ancestors(tip') \cup {tip}
  BY <1>0, <1>3, <1>4, ParentFacts
<1>6. tip' \notin failedValid BY <1>5 DEF Base, Valid, ChainValid, Failed
<1>7. (IF tip' = inv.mark /\ inv.mark \in failedValid THEN {inv.mark} ELSE {}) = {}
  BY <1>6
<1>8. failedValid' = failedValid \cup {tip} /\ failedChild' = failedChild
  BY <1>7 DEF InvalidateTip
<1>9. abc.most = NoBlock BY <1>1, RecordFacts DEF Base, Progress
<1> QED BY <1>0, <1>1, <1>3, <1>4, <1>5, <1>8, <1>9

---------------------------------------------------------------------------
\* The types of the index and of what the two calls remember.
LEMMA TypeStep == ASSUME Base, Next PROVE TypeOK'
<1> USE DEF TypeOK, blockData, flags, precious, history
<1>0. TypeOK /\ Closed BY DEF Base
<1>1. ASSUME NEW b \in Blocks \ {Genesis}, RejectHeader(b), UNCHANGED history PROVE TypeOK'
  <2>1. Ancestors(Parent(b)) \subseteq Blocks BY <1>1, ParentFacts, Tree
  <2> QED BY <1>0, <1>1, <2>1 DEF RejectHeader
<1>2. ASSUME NEW b \in Blocks \ {Genesis}, AddHeader(b), UNCHANGED history PROVE TypeOK'
  BY <1>0, <1>2 DEF AddHeader
<1>3. ASSUME NEW b \in Blocks, NEW r \in BOOLEAN, RejectBlock(b, r) \/ IgnoreBlock(b, r), UNCHANGED history
      PROVE  TypeOK'
  BY <1>0, <1>3, Zenon DEF RejectBlock, IgnoreBlock
<1>4. ASSUME NEW b \in Blocks, NEW r \in BOOLEAN, AcceptBlock(b, r), UNCHANGED history PROVE TypeOK'
  <2>1. /\ index' = index /\ haveData' = haveData \cup {b} /\ b \in index /\ b \notin haveData
        /\ nSequenceId' \in [Blocks -> Int] /\ nBlockSequenceId' \in Int
    BY <1>0, <1>4, AcceptFacts
  <2>2. /\ linked \subseteq linked' /\ linked' \subseteq haveData' /\ unlinked' \subseteq haveData' \ linked'
        /\ candidates' \subseteq linked'
    <3>1. CASE Parent(b) \in linked BY <1>0, <1>4, <2>1, <3>1, AcceptFacts
    <3>2. CASE Parent(b) \notin linked BY <1>0, <1>4, <2>1, <3>2, AcceptFacts
    <3> QED BY <3>1, <3>2
  <2> QED BY <1>0, <1>4, <2>1, <2>2 DEF AcceptBlock
<1>5. ASSUME StartActivate \/ LockCsMain \/ NothingToDo \/ TakeCandidate \/ BeginStep, UNCHANGED history
      PROVE  TypeOK'
  <2>1. abc' \in Calls
    <3>1. CASE StartActivate BY <3>1, RecordFacts DEF StartActivate, Calls, Phases
    <3>2. CASE LockCsMain BY <1>0, <3>2, BaseFacts, Zenon DEF LockCsMain, Calls, Phases, Maybe
    <3>3. CASE NothingToDo BY <1>0, <3>3, UnlockFacts, BaseFacts DEF NothingToDo
    <3>4. CASE TakeCandidate BY <1>0, <3>4, BaseFacts DEF TakeCandidate, Calls, Phases, Maybe
    <3>5. CASE BeginStep BY <1>0, <3>5, BaseFacts, Zenon DEF BeginStep, Calls, Phases, Maybe
    <3> QED BY <1>5, <3>1, <3>2, <3>3, <3>4, <3>5
  <2>2. wanted' \in BOOLEAN
    BY <1>0, <1>5, Zenon DEF StartActivate, LockCsMain, NothingToDo, TakeCandidate, BeginStep
  <2>3. UNCHANGED <<blockData, scriptsValid, flags, nSequenceId, precious, candidates, tip, inv>>
    BY <1>5 DEF StartActivate, LockCsMain, NothingToDo, TakeCandidate, BeginStep
  <2> QED BY <1>0, <1>5, <2>1, <2>2, <2>3
<1>6. ASSUME DropCandidate, UNCHANGED history PROVE TypeOK'
  <2>1. \A c \in candidates : Ancestors(c) \subseteq Blocks BY <1>0, BaseFacts, Tree
  <2>2. failedChild' \subseteq Blocks /\ candidates' \subseteq linked
    BY <1>0, <1>6, <2>1 DEF DropCandidate
  <2> QED BY <1>0, <1>6, <2>2 DEF DropCandidate
<1>7. ASSUME DisconnectTip, UNCHANGED history PROVE TypeOK'
  <2>1. tip' \in linked /\ tip' \in Blocks /\ abc' = IF tip' = abc.most THEN AfterStep(abc, tip') ELSE abc
    BY <1>7, DisconnectFacts
  <2>2. abc.connected BY <1>7 DEF Base, Progress, DisconnectTip
  <2>3. abc' \in Calls BY <1>0, <2>1, <2>2, AfterFacts
  <2> QED BY <1>0, <1>7, <2>1, <2>3 DEF DisconnectTip
<1>8. ASSUME ConnectTip, UNCHANGED history PROVE TypeOK'
  <2>1. tip' = NextToConnect /\ tip' \in linked /\ tip' \in Blocks
    BY <1>8, ConnectFacts DEF ConnectTip
  <2>2. abc.connected BY <1>8 DEF Base, Progress, ConnectTip
  <2>3. abc' \in Calls BY <1>0, <1>8, <2>1, <2>2, AfterFacts DEF ConnectTip
  <2>4. candidates' \subseteq linked BY <1>0, <1>8 DEF ConnectTip, PruneBlockIndexCandidates
  <2> QED BY <1>0, <1>8, <2>1, <2>3, <2>4 DEF ConnectTip
<1>9. ASSUME ConnectTipFails, UNCHANGED history PROVE TypeOK'
  <2>1. NextToConnect \in Blocks BY <1>9, ConnectFacts DEF ConnectTipFails
  <2>2. abc.connected BY <1>9 DEF Base, Progress, ConnectTipFails
  <2>3. [abc EXCEPT !.most = NoBlock] \in Calls /\ [abc EXCEPT !.most = NoBlock].connected
    BY <1>0, <2>2 DEF Calls, Maybe
  <2>4. abc' \in Calls BY <1>0, <1>9, <2>3, AfterFacts, BaseFacts, Zenon DEF ConnectTipFails
  <2> QED BY <1>0, <1>9, <2>1, <2>4 DEF ConnectTipFails
<1>10. ASSUME NEW b \in Invalidated, BeginInvalidate(b), UNCHANGED history PROVE TypeOK'
  <2>1. inv' \in Walks BY <1>0, <1>10 DEF BeginInvalidate, Walks, Maybe
  <2> QED BY <1>0, <1>10, <2>1 DEF BeginInvalidate
<1>11. ASSUME InvalidateTip, UNCHANGED history PROVE TypeOK'
  <2>1. /\ tip' \in linked /\ tip \in Blocks /\ tip' \in Blocks
        /\ failedValid' = failedValid \cup {tip} /\ failedChild' = failedChild
    BY <1>11, InvalidateFacts
  <2>2. inv.cands \subseteq linked BY DEF Base, Progress
  <2>3. candidates' \subseteq linked BY <1>0, <1>11, <2>1, <2>2, Zenon DEF InvalidateTip
  <2>4. inv' \in Walks BY <1>0, <1>11, <2>1, Zenon DEF InvalidateTip, Walks, Maybe
  <2> QED BY <1>0, <1>11, <2>1, <2>3, <2>4 DEF InvalidateTip
<1>12. ASSUME EndInvalidate, UNCHANGED history PROVE TypeOK'
  <2>1. inv.mark \in Blocks BY <1>0, <1>12 DEF EndInvalidate, Base, Progress
  <2> QED BY <1>0, <1>12, <2>1, RecordFacts, Zenon DEF EndInvalidate
<1>13. ASSUME NEW b \in Precious, PreciousBlock(b), demoted' \in BOOLEAN, UNCHANGED reconsidered PROVE TypeOK'
  <2>1. nSequenceId' \in [Blocks -> Int] /\ nBlockReverseSequenceId' \in Int
    BY <1>0, <1>13 DEF PreciousBlock
  <2>2. candidates' \subseteq linked
    BY <1>0, <1>13 DEF PreciousBlock, PruneBlockIndexCandidates
  <2> QED BY <1>0, <1>13, <2>1, <2>2, Zenon DEF PreciousBlock
<1>14. ASSUME NEW b \in Reconsidered, ResetBlockFailureFlags(b), reconsidered' = TRUE, UNCHANGED demoted
       PROVE  TypeOK'
  BY <1>0, <1>14 DEF ResetBlockFailureFlags
<1> QED BY <1>0, <1>1, <1>2, <1>3, <1>4, <1>5, <1>6, <1>7, <1>8, <1>9, <1>10, <1>11, <1>12, <1>13, <1>14, Zenon
        DEF Next, Activate

\* Headers are added above known ones, and ReceivedBlockTransactions links what is linked up to
\* the block that arrived.
LEMMA ClosedStep == ASSUME Base, Next PROVE Closed' /\ index \subseteq index' /\ linked \subseteq linked'
<1> USE DEF blockData
<1>0. TypeOK /\ Closed BY DEF Base
<1>1. ASSUME NEW b \in Blocks \ {Genesis}, AddHeader(b)
      PROVE  Closed' /\ index \subseteq index' /\ linked \subseteq linked'
  <2>1. index' = index \cup {b} /\ linked' = linked /\ Parent(b) \in index BY <1>1 DEF AddHeader
  <2>2. Ancestors(b) = Ancestors(Parent(b)) \cup {b} BY ParentFacts
  <2> QED BY <1>0, <2>1, <2>2 DEF Closed
<1>2. ASSUME NEW b \in Blocks, NEW r \in BOOLEAN, AcceptBlock(b, r)
      PROVE  Closed' /\ index \subseteq index' /\ linked \subseteq linked'
  <2>0. index' = index /\ b # Genesis /\ b \in Linkable(b) BY <1>0, <1>2, AcceptFacts
  <2>1. CASE Parent(b) \notin linked
    <3>1. linked' = linked BY <1>0, <1>2, <2>1, AcceptFacts
    <3> QED BY <1>0, <2>0, <3>1 DEF Closed
  <2>2. CASE Parent(b) \in linked
    <3>1. linked' = linked \cup Linkable(b) BY <1>0, <1>2, <2>2, AcceptFacts
    <3>2. Ancestors(b) \subseteq linked \cup {b} BY <1>0, <2>0, <2>2, ParentFacts DEF Closed
    <3>3. ASSUME NEW d \in Linkable(b), NEW x \in Ancestors(d), x \notin Ancestors(b) PROVE x \in Linkable(b)
      <4>1. /\ d \in Blocks /\ IsAncestor(b, d) /\ Ancestors(d) \ Ancestors(b) \subseteq unlinked
        BY <1>0 DEF Linkable, TypeOK
      <4>2. x \in Blocks /\ x \in unlinked /\ b \in Ancestors(d) BY <3>3, <4>1, Tree
      <4>3. b \in Ancestors(x) BY <3>3, <4>1, <4>2, Tree
      <4>4. Ancestors(x) \subseteq Ancestors(d) BY <4>1, Tree
      <4>5. IsAncestor(b, x) BY <4>2, <4>3, Tree
      <4> QED BY <4>1, <4>2, <4>4, <4>5 DEF Linkable
    <3>4. \A d \in Linkable(b) : Ancestors(d) \subseteq linked' BY <2>0, <3>1, <3>2, <3>3
    <3> QED BY <1>0, <2>0, <3>1, <3>4 DEF Closed
  <2> QED BY <2>1, <2>2
<1>3. ASSUME UNCHANGED <<index, linked>>
      PROVE  Closed' /\ index \subseteq index' /\ linked \subseteq linked'
  BY <1>0, <1>3, Zenon DEF Closed
<1>4. \/ \E b \in Blocks \ {Genesis} : AddHeader(b)
      \/ \E b \in Blocks, r \in BOOLEAN : AcceptBlock(b, r)
      \/ UNCHANGED <<index, linked>>
  BY Zenon DEF Next, Activate, RejectHeader, RejectBlock, IgnoreBlock, StartActivate, LockCsMain, NothingToDo,
         TakeCandidate, DropCandidate, BeginStep, DisconnectTip, ConnectTip, ConnectTipFails,
         BeginInvalidate, InvalidateTip, EndInvalidate, PreciousBlock, ResetBlockFailureFlags
<1> QED BY <1>1, <1>2, <1>3, <1>4, Zenon

---------------------------------------------------------------------------
\* What is remembered stays sound: only ActivateBestChain and InvalidateBlock move the tip, they
\* exclude each other, and what is linked stays linked.
LEMMA ProgressStep == ASSUME Base, Next PROVE Progress'
<1>0. TypeOK /\ Closed /\ Progress BY DEF Base
<1>a. /\ index \subseteq index' /\ linked \subseteq linked' /\ tip \in Blocks /\ tip \in linked
      /\ linked \subseteq Blocks /\ linked \subseteq index
  BY <1>0, BaseFacts, ClosedStep DEF TypeOK
<1>b. abc \in Calls /\ inv \in Walks BY <1>0 DEF TypeOK
<1>c. ASSUME inv' = inv, inv.pc # "walk",
             abc'.pc = "idle" => abc' = IdleABC, abc'.most # NoBlock => abc'.most \in linked,
             abc'.pc \in {"inner", "step"} => abc'.starting \in linked,
             abc'.pc = "step" => abc'.most \notin {NoBlock, tip'} /\ abc'.old \in linked /\ abc'.connected
      PROVE  Progress'
  BY <1>0, <1>a, <1>c, Zenon DEF Progress
<1>1. ASSUME UNCHANGED <<abc, inv, tip>> PROVE Progress'
  BY <1>0, <1>a, <1>1 DEF Progress
<1>2. ASSUME StartActivate PROVE Progress'
  <2>1. inv' = inv /\ inv.pc # "walk" /\ abc' = [IdleABC EXCEPT !.pc = "outer"]
    BY <1>2 DEF StartActivate, ChainstateMutexFree
  <2>2. abc'.pc = "outer" /\ abc'.most = NoBlock BY <2>1 DEF IdleABC
  <2> QED BY <1>c, <2>1, <2>2
<1>3. ASSUME LockCsMain PROVE Progress'
  <2>1. inv' = inv /\ inv.pc # "walk" BY <1>0, <1>3 DEF LockCsMain, Progress
  <2>2. abc'.pc = "inner" /\ abc'.most = abc.most /\ abc'.starting = tip
    BY <1>b, <1>3 DEF LockCsMain, Calls
  <2> QED BY <1>0, <1>a, <1>c, <2>1, <2>2 DEF Progress
<1>4. ASSUME NothingToDo PROVE Progress'
  <2>1. inv' = inv /\ inv.pc # "walk" BY <1>0, <1>4 DEF NothingToDo, Progress
  <2>2. /\ abc'.pc \in {"outer", "idle"}
        /\ abc'.pc = "outer" => abc'.most = abc.most
        /\ abc'.pc = "idle" => abc' = IdleABC
    BY <1>a, <1>b, <1>4, UnlockFacts DEF NothingToDo
  <2>3. abc.most # NoBlock => abc.most \in linked BY <1>0 DEF Progress
  <2>4. abc'.most # NoBlock => abc'.most \in linked BY <2>2, <2>3, RecordFacts
  <2> QED BY <1>c, <2>1, <2>2, <2>4
<1>5. ASSUME TakeCandidate PROVE Progress'
  <2>1. inv' = inv /\ inv.pc # "walk" BY <1>0, <1>5 DEF TakeCandidate, Progress
  <2>2. abc'.pc = "inner" /\ abc'.most \in linked /\ abc'.starting = abc.starting
    BY <1>0, <1>b, <1>5 DEF TakeCandidate, Calls, TypeOK
  <2>3. abc.starting \in linked BY <1>0, <1>5, Zenon DEF TakeCandidate, Progress
  <2> QED BY <1>c, <2>1, <2>2, <2>3
<1>6. ASSUME BeginStep PROVE Progress'
  <2>1. inv' = inv /\ inv.pc # "walk" /\ tip' = tip BY <1>0, <1>6 DEF BeginStep, Progress
  <2>2. /\ abc'.pc = "step" /\ abc'.most = abc.most /\ abc.most \notin {NoBlock, tip}
        /\ abc'.starting = abc.starting /\ abc'.old = tip /\ abc'.connected
    BY <1>b, <1>6 DEF BeginStep, Calls
  <2>3. abc.starting \in linked BY <1>0, <1>6 DEF BeginStep, Progress
  <2> QED BY <1>0, <1>a, <1>c, <2>1, <2>2, <2>3 DEF Progress
<1>7. ASSUME DisconnectTip PROVE Progress'
  <2>1. /\ inv' = inv /\ inv.pc # "walk" /\ abc.pc = "step" /\ abc.connected
        /\ abc.starting \in linked /\ abc.old \in linked /\ abc.most # NoBlock
    BY <1>0, <1>7 DEF DisconnectTip, Progress
  <2>2. abc.most \in linked /\ tip' \in Blocks /\ abc' = IF tip' = abc.most THEN AfterStep(abc, tip') ELSE abc
    BY <1>7, DisconnectFacts
  <2>3. CASE tip' = abc.most
    <3>1. abc' = AfterStep(abc, tip') BY <2>2, <2>3
    <3> QED BY <1>b, <1>c, <2>1, <2>2, <3>1, AfterFacts, RecordFacts
  <2>4. CASE tip' # abc.most BY <1>c, <2>1, <2>2, <2>4
  <2> QED BY <2>3, <2>4
<1>8. ASSUME ConnectTip PROVE Progress'
  <2>1. /\ inv' = inv /\ inv.pc # "walk" /\ abc.pc = "step" /\ abc.connected
        /\ abc.starting \in linked /\ abc.old \in linked /\ abc.most # NoBlock
    BY <1>0, <1>8, Zenon DEF ConnectTip, Progress
  <2>a. abc' = IF tip' = abc.most \/ ChainWork[tip'] > ChainWork[abc.old] THEN AfterStep(abc, tip') ELSE abc
    BY <1>8, Zenon DEF ConnectTip
  <2>b. abc.most \in linked /\ tip' \in Blocks BY <1>8, ConnectFacts, Zenon DEF ConnectTip
  <2>3. CASE tip' = abc.most \/ ChainWork[tip'] > ChainWork[abc.old]
    <3>1. abc' = AfterStep(abc, tip') BY <2>a, <2>3, Zenon
    <3> QED BY <1>b, <1>c, <2>1, <2>b, <3>1, AfterFacts, RecordFacts
  <2>4. CASE ~(tip' = abc.most \/ ChainWork[tip'] > ChainWork[abc.old])
    <3>1. abc' = abc BY <2>a, <2>4, Zenon
    <3> QED BY <1>c, <2>1, <2>b, <2>4, <3>1
  <2> QED BY <2>3, <2>4, Zenon
<1>9. ASSUME ConnectTipFails PROVE Progress'
  <2>1. /\ inv' = inv /\ inv.pc # "walk" /\ abc.connected /\ abc.starting \in linked
    BY <1>0, <1>9 DEF ConnectTipFails, Progress
  <2> DEFINE a == [abc EXCEPT !.most = NoBlock]
  <2>2. a \in Calls /\ a.connected /\ a.most = NoBlock /\ a.starting = abc.starting
    BY <1>b, <2>1 DEF Calls, Maybe
  <2>3. abc' = AfterStep(a, tip) BY <1>9 DEF ConnectTipFails
  <2> HIDE DEF a
  <2> QED BY <1>a, <1>c, <2>1, <2>2, <2>3, AfterFacts, RecordFacts
<1>10. ASSUME NEW b \in Invalidated, BeginInvalidate(b) PROVE Progress'
  <2>1. /\ abc.pc = "idle" /\ abc' = abc /\ b \in index \ {Genesis} /\ tip' = tip
        /\ inv'.pc = "walk" /\ inv'.block = b /\ inv'.mark = b /\ inv'.cands \subseteq linked
    BY <1>10, Zenon DEF BeginInvalidate, ChainstateMutexFree
  <2> QED BY <1>0, <1>a, <2>1 DEF Progress
<1>11. ASSUME InvalidateTip PROVE Progress'
  <2>1. /\ inv'.pc = "walk" /\ inv'.block = inv.block /\ inv'.mark = tip /\ inv'.cands \subseteq inv.cands
        /\ inv.pc = "walk" /\ abc' = abc /\ abc.pc = "idle"
    BY <1>b, <1>0, <1>11 DEF InvalidateTip, Walks, Progress
  <2>2. tip # Genesis /\ tip' = Parent(tip) BY <1>11, InvalidateFacts
  <2> QED BY <1>0, <1>a, <2>1, <2>2 DEF Progress
<1>12. ASSUME EndInvalidate PROVE Progress'
  BY <1>0, <1>a, <1>12, RecordFacts, Zenon DEF EndInvalidate, Progress
<1>13. \/ UNCHANGED <<abc, inv, tip>>
       \/ StartActivate \/ LockCsMain \/ NothingToDo \/ TakeCandidate \/ BeginStep \/ DisconnectTip
       \/ ConnectTip \/ ConnectTipFails \/ (\E b \in Invalidated : BeginInvalidate(b))
       \/ InvalidateTip \/ EndInvalidate
  BY Zenon DEF Next, Activate, RejectHeader, AddHeader, RejectBlock, AcceptBlock, IgnoreBlock, DropCandidate,
         PreciousBlock, ResetBlockFailureFlags
<1> QED BY <1>1, <1>2, <1>3, <1>4, <1>5, <1>6, <1>7, <1>8, <1>9, <1>10, <1>11, <1>12, <1>13, Zenon

---------------------------------------------------------------------------
\* A chain without a failed block holds none of the blocks above a failed one on another chain,
\* which AcceptBlockHeader and FindMostWorkChain mark.
LEMMA AboveFailed ==
  ASSUME NEW z \in Blocks, Ancestors(z) \cap Failed = {},
         NEW p \in Blocks, NEW f \in Ancestors(p), f \in Failed
  PROVE  Ancestors(z) \cap (Ancestors(p) \ Ancestors(f)) = {}
<1> SUFFICES ASSUME NEW x \in Ancestors(z), x \in Ancestors(p), x \notin Ancestors(f) PROVE FALSE
  OBVIOUS
<1>1. f \in Ancestors(x) BY Tree
<1>2. Ancestors(x) \subseteq Ancestors(z) BY Tree
<1> QED BY <1>1, <1>2

\* Marking blocks that are neither on the active chain nor on the way to the target.
LEMMA MarkFacts ==
  ASSUME Base, NEW M, Failed' \subseteq Failed \cup M, Ancestors(tip) \cap M = {},
         abc.most # NoBlock => Ancestors(abc.most) \cap M = {},
         abc'.most \in {abc.most, NoBlock}, tip' = tip, scriptsValid' = scriptsValid, FailedBlocksMarked'
  PROVE  Valid'
BY DEF Base, Valid, ChainValid

\* No step marks a block of the active chain or of the chain ActivateBestChain is heading for,
\* though AcceptBlockHeader, AcceptBlock and the RPCs run while it has let go of cs_main.
LEMMA ValidStep == ASSUME Base, Next PROVE Valid'
<1>0. TypeOK /\ Closed /\ Progress /\ Valid BY DEF Base
<1>a. tip \in Blocks /\ linked \subseteq Blocks /\ Ancestors(tip) \subseteq linked /\ linked \subseteq haveData
  BY <1>0, BaseFacts DEF TypeOK
<1>b. abc.most # NoBlock => abc.most \in Blocks /\ Ancestors(abc.most) \subseteq linked
  BY <1>0, <1>a DEF Progress, Closed
<1>c. abc \in Calls BY <1>0 DEF TypeOK
<1>d. /\ Ancestors(tip) \cap Failed = {} /\ Ancestors(tip) \subseteq scriptsValid
      /\ abc.most # NoBlock => Ancestors(abc.most) \cap Failed = {}
      /\ m_failed_blocks \subseteq failedValid /\ failedValid \subseteq Failed /\ scriptsValid \cap BadConnect = {}
  BY <1>0 DEF Valid, ChainValid, FailedBlocksMarked, Failed
<1>1. ASSUME UNCHANGED <<flags, tip, scriptsValid>>, abc'.most \in {abc.most, NoBlock} PROVE Valid'
  BY <1>0, <1>1 DEF Valid, ChainValid, FailedBlocksMarked, Failed, flags
<1>2. ASSUME NEW b \in Blocks \ {Genesis}, RejectHeader(b) PROVE Valid'
  <2>0. Parent(b) \in Blocks BY ParentFacts
  <2>1. PICK f \in FailedAncestors(Parent(b)) :
          failedChild' = failedChild \cup (Ancestors(Parent(b)) \ Ancestors(f))
    BY <1>2 DEF RejectHeader
  <2>2. f \in m_failed_blocks /\ IsAncestor(f, Parent(b)) BY <2>1 DEF FailedAncestors
  <2>3. f \in Blocks /\ f \in Failed BY <1>0, <1>d, <2>2 DEF TypeOK
  <2>4. f \in Ancestors(Parent(b)) BY <2>0, <2>2, <2>3, Tree
  <2>5. UNCHANGED <<failedValid, m_failed_blocks, tip, scriptsValid, abc>> BY <1>2 DEF RejectHeader
  <2> DEFINE M == Ancestors(Parent(b)) \ Ancestors(f)
  <2>6. Ancestors(tip) \cap M = {} BY <1>a, <1>d, <2>0, <2>3, <2>4, AboveFailed
  <2>7. abc.most # NoBlock => Ancestors(abc.most) \cap M = {}
    BY <1>b, <1>d, <2>0, <2>3, <2>4, AboveFailed
  <2>8. Failed' \subseteq Failed \cup M BY <2>1, <2>5 DEF Failed
  <2>9. FailedBlocksMarked' BY <1>d, <2>5 DEF FailedBlocksMarked
  <2> HIDE DEF M
  <2> QED BY <2>5, <2>6, <2>7, <2>8, <2>9, MarkFacts
<1>3. ASSUME NEW b \in Blocks, NEW r \in BOOLEAN, RejectBlock(b, r) PROVE Valid'
  <2>1. b \notin linked BY <1>3, <1>a DEF RejectBlock, Acceptable
  <2>2. Failed' \subseteq Failed \cup {b} BY <1>3 DEF RejectBlock, Failed
  <2>3. FailedBlocksMarked' BY <1>d, <1>3 DEF RejectBlock, FailedBlocksMarked
  <2>4. UNCHANGED <<tip, scriptsValid, abc>> BY <1>3 DEF RejectBlock
  <2>5. Ancestors(tip) \cap {b} = {} /\ (abc.most # NoBlock => Ancestors(abc.most) \cap {b} = {})
    BY <1>a, <1>b, <2>1
  <2> DEFINE M == {b}
  <2> HIDE DEF M
  <2>6. /\ Ancestors(tip) \cap M = {} /\ Failed' \subseteq Failed \cup M
        /\ abc.most # NoBlock => Ancestors(abc.most) \cap M = {}
    BY <2>2, <2>5 DEF M
  <2> QED BY <2>3, <2>4, <2>6, MarkFacts
<1>4. ASSUME TakeCandidate PROVE Valid'
  <2>1. PICK c \in candidates : OffChain(c) \cap Failed = {} /\ abc' = [abc EXCEPT !.most = c]
    BY <1>4 DEF TakeCandidate
  <2>2. abc'.most = c BY <1>c, <2>1 DEF Calls
  <2>3. Ancestors(c) \cap Failed = {} BY <1>d, <2>1 DEF OffChain
  <2>4. UNCHANGED <<flags, tip, scriptsValid>> BY <1>4 DEF TakeCandidate
  <2> QED BY <1>0, <2>2, <2>3, <2>4 DEF Valid, ChainValid, FailedBlocksMarked, Failed, flags
<1>5. ASSUME DropCandidate PROVE Valid'
  <2>1. PICK c \in candidates : \E t \in OffChain(c) \cap Failed :
          failedChild' = failedChild \cup (Ancestors(c) \ Ancestors(t))
    BY <1>5 DEF DropCandidate
  <2>2. PICK t \in OffChain(c) \cap Failed : failedChild' = failedChild \cup (Ancestors(c) \ Ancestors(t))
    BY <2>1
  <2>3. c \in Blocks /\ t \in Ancestors(c) /\ t \in Failed BY <1>0, BaseFacts DEF OffChain
  <2>5. UNCHANGED <<failedValid, m_failed_blocks, tip, scriptsValid, abc>> BY <1>5 DEF DropCandidate
  <2> DEFINE M == Ancestors(c) \ Ancestors(t)
  <2>6. Ancestors(tip) \cap M = {} BY <1>a, <1>d, <2>3, AboveFailed
  <2>7. abc.most # NoBlock => Ancestors(abc.most) \cap M = {} BY <1>b, <1>d, <2>3, AboveFailed
  <2>8. Failed' \subseteq Failed \cup M BY <2>2, <2>5 DEF Failed
  <2>9. FailedBlocksMarked' BY <1>d, <2>5 DEF FailedBlocksMarked
  <2> HIDE DEF M
  <2> QED BY <2>5, <2>6, <2>7, <2>8, <2>9, MarkFacts
<1>6. ASSUME DisconnectTip PROVE Valid'
  <2>1. /\ Ancestors(tip') \subseteq Ancestors(tip) /\ tip' \in Blocks
        /\ abc' = IF tip' = abc.most THEN AfterStep(abc, tip') ELSE abc
    BY <1>6, DisconnectFacts
  <2>2. abc.connected BY <1>0, <1>6, Zenon DEF DisconnectTip, Progress
  <2>3. abc'.most \in {abc.most, NoBlock} BY <1>c, <2>1, <2>2, AfterFacts, RecordFacts
  <2>4. UNCHANGED <<flags, scriptsValid>> BY <1>6 DEF DisconnectTip
  <2>5. UNCHANGED <<failedValid, failedChild, m_failed_blocks, scriptsValid>> BY <2>4 DEF flags
  <2> QED BY <1>d, <2>1, <2>3, <2>5 DEF Valid, ChainValid, FailedBlocksMarked, Failed
<1>7. ASSUME ConnectTip PROVE Valid'
  <2>1. /\ Ancestors(tip') = Ancestors(tip) \cup {tip'} /\ tip' \in Blocks /\ tip' \notin Failed
        /\ tip' \notin BadConnect /\ scriptsValid' = scriptsValid \cup {tip'}
    BY <1>7, ConnectFacts, Zenon DEF ConnectTip
  <2>2. abc.connected BY <1>0, <1>7, Zenon DEF ConnectTip, Progress
  <2>3. AfterStep(abc, tip').most \in {abc.most, NoBlock} BY <1>c, <2>1, <2>2, AfterFacts, RecordFacts, Zenon
  <2>a. abc' = IF tip' = abc.most \/ ChainWork[tip'] > ChainWork[abc.old] THEN AfterStep(abc, tip') ELSE abc
    BY <1>7, Zenon DEF ConnectTip
  <2>4. abc'.most \in {abc.most, NoBlock}
    <3>1. CASE tip' = abc.most \/ ChainWork[tip'] > ChainWork[abc.old] BY <2>3, <2>a, <3>1
    <3>2. CASE ~(tip' = abc.most \/ ChainWork[tip'] > ChainWork[abc.old]) BY <2>a, <3>2
    <3> QED BY <3>1, <3>2, Zenon
  <2>5. UNCHANGED <<failedValid, failedChild, m_failed_blocks>> BY <1>7 DEF ConnectTip, flags
  <2> QED BY <1>d, <2>1, <2>4, <2>5, Zenon DEF Valid, ChainValid, FailedBlocksMarked, Failed
<1>8. ASSUME ConnectTipFails PROVE Valid'
  <2>1. NextToConnect \notin Ancestors(tip) BY <1>8, ConnectFacts DEF ConnectTipFails
  <2>2. abc.connected BY <1>0, <1>8 DEF ConnectTipFails, Progress
  <2> DEFINE a == [abc EXCEPT !.most = NoBlock]
  <2>3. a \in Calls /\ a.connected /\ a.most = NoBlock BY <1>c, <2>2, Zenon DEF Calls, Maybe
  <2>4. abc' = AfterStep(a, tip) BY <1>8 DEF ConnectTipFails
  <2> HIDE DEF a
  <2>5. abc'.most = NoBlock BY <1>a, <2>3, <2>4, AfterFacts, RecordFacts
  <2>6. /\ failedValid' = failedValid \cup {NextToConnect} /\ failedChild' = failedChild
        /\ m_failed_blocks' = m_failed_blocks \cup {NextToConnect} /\ UNCHANGED <<tip, scriptsValid>>
    BY <1>8 DEF ConnectTipFails
  <2> QED BY <1>d, <2>1, <2>5, <2>6 DEF Valid, ChainValid, FailedBlocksMarked, Failed
<1>9. ASSUME InvalidateTip PROVE Valid'
  <2>1. /\ Ancestors(tip') \subseteq Ancestors(tip) /\ tip \notin Ancestors(tip') /\ abc.most = NoBlock
        /\ failedValid' = failedValid \cup {tip} /\ failedChild' = failedChild
    BY <1>9, InvalidateFacts
  <2>2. UNCHANGED <<m_failed_blocks, scriptsValid, abc>> BY <1>9 DEF InvalidateTip
  <2> QED BY <1>d, <2>1, <2>2 DEF Valid, ChainValid, FailedBlocksMarked, Failed
<1>10. ASSUME EndInvalidate PROVE Valid'
  <2>1. /\ inv.mark \in Blocks \ {Genesis} /\ inv.block \in Blocks /\ abc = IdleABC
        /\ inv.mark = inv.block \/ Parent(inv.mark) = tip
    BY <1>0, <1>10, Zenon DEF EndInvalidate, Progress, TypeOK
  <2>2. inv.block \notin Ancestors(tip) BY <1>a, <1>10, <2>1, Tree, Zenon DEF EndInvalidate, InChain
  <2>3. inv.mark \notin Ancestors(tip) BY <2>1, <2>2, ParentFacts
  <2>4. abc.most = NoBlock BY <2>1, RecordFacts
  <2>5. /\ failedValid' = failedValid \cup {inv.mark} /\ failedChild' = failedChild
        /\ m_failed_blocks' = m_failed_blocks \cup {inv.mark} /\ UNCHANGED <<tip, scriptsValid, abc>>
    BY <1>10 DEF EndInvalidate
  <2> QED BY <1>d, <2>3, <2>4, <2>5 DEF Valid, ChainValid, FailedBlocksMarked, Failed
<1>11. ASSUME NEW b \in Reconsidered, ResetBlockFailureFlags(b) PROVE Valid'
  <2>1. PICK below \in SUBSET index :
          /\ failedValid' = failedValid \ (below \cup Ancestors(b))
          /\ failedChild' = failedChild \ (below \cup Ancestors(b))
          /\ m_failed_blocks' = m_failed_blocks \ (below \cup (Ancestors(b) \cap Failed))
    BY <1>11, Zenon DEF ResetBlockFailureFlags
  <2>2. UNCHANGED <<tip, scriptsValid, abc>> BY <1>11 DEF ResetBlockFailureFlags
  <2>3. m_failed_blocks' \subseteq failedValid' BY <1>d, <2>1
  <2>4. Failed' \subseteq Failed BY <2>1 DEF Failed
  <2> QED BY <1>d, <2>2, <2>3, <2>4 DEF Valid, ChainValid, FailedBlocksMarked
<1>12. ASSUME StartActivate \/ LockCsMain \/ NothingToDo \/ BeginStep PROVE Valid'
  <2>1. abc'.most \in {abc.most, NoBlock}
    <3>1. CASE StartActivate BY <3>1 DEF StartActivate, IdleABC
    <3>2. CASE LockCsMain BY <1>c, <3>2 DEF LockCsMain, Calls
    <3>3. CASE NothingToDo BY <1>a, <1>c, <3>3, UnlockFacts, RecordFacts DEF NothingToDo
    <3>4. CASE BeginStep BY <1>c, <3>4 DEF BeginStep, Calls
    <3> QED BY <1>12, <3>1, <3>2, <3>3, <3>4
  <2>2. UNCHANGED <<flags, tip, scriptsValid>>
    BY <1>12, Zenon DEF StartActivate, LockCsMain, NothingToDo, BeginStep
  <2> QED BY <1>1, <2>1, <2>2
<1>13. \/ UNCHANGED <<flags, tip, scriptsValid, abc>>
       \/ \E b \in Blocks \ {Genesis} : RejectHeader(b)
       \/ \E b \in Blocks, r \in BOOLEAN : RejectBlock(b, r)
       \/ TakeCandidate \/ DropCandidate \/ DisconnectTip \/ ConnectTip \/ ConnectTipFails
       \/ InvalidateTip \/ EndInvalidate
       \/ \E b \in Reconsidered : ResetBlockFailureFlags(b)
       \/ (StartActivate \/ LockCsMain \/ NothingToDo \/ BeginStep)
  BY Zenon DEF Next, Activate, AddHeader, AcceptBlock, IgnoreBlock, BeginInvalidate, PreciousBlock
<1>14. UNCHANGED <<flags, tip, scriptsValid, abc>> => Valid' BY <1>1
<1> QED BY <1>2, <1>3, <1>4, <1>5, <1>6, <1>7, <1>8, <1>9, <1>10, <1>11, <1>12, <1>13, <1>14, Zenon

---------------------------------------------------------------------------
\* setBlockIndexCandidates is pruned whenever the tip improves, and preciousblock renumbers a
\* block that is or becomes a candidate, or leaves the set.
LEMMA NoneWorseStep == ASSUME Base, Next PROVE NoneWorse'
<1>0. TypeOK /\ Closed /\ Progress /\ Valid /\ NoneWorse BY DEF Base
<1>a. /\ tip \in Blocks /\ tip \in linked /\ linked \subseteq Blocks /\ candidates \subseteq Blocks
      /\ candidates \subseteq linked
  BY <1>0, BaseFacts DEF TypeOK
<1>b. nSequenceId \in [Blocks -> Int] BY <1>0 DEF TypeOK
<1>c. ASSUME UNCHANGED nSequenceId, NEW t \in Blocks, t \in Ancestors(tip), NEW c \in candidates
      PROVE  ~Worse(c, t)
  <2>1. t # tip => Worse(t, tip) BY <1>a, <1>b, <1>c, Order DEF Worse
  <2>2. ~Worse(c, tip) BY <1>0 DEF NoneWorse
  <2>3. Worse(c, t) /\ Worse(t, tip) => Worse(c, tip) BY <1>a, <1>b, Order DEF Worse
  <2> QED BY <2>1, <2>2, <2>3
<1>1. ASSUME UNCHANGED <<tip, nSequenceId>>, candidates' \subseteq candidates PROVE NoneWorse'
  BY <1>0, <1>1 DEF NoneWorse, Worse
<1>2. ASSUME NEW b \in Blocks, NEW r \in BOOLEAN, AcceptBlock(b, r) PROVE NoneWorse'
  <2>1. tip' = tip BY <1>2 DEF AcceptBlock
  <2>2. \A x \in linked : nSequenceId'[x] = nSequenceId[x] BY <1>0, <1>2, AcceptFacts
  <2>3. \A c \in candidates : ~WorseBy(nSequenceId', c, tip)
    BY <1>0, <1>a, <2>2 DEF NoneWorse, Worse, WorseBy
  <2>4. \A c \in candidates' : c \in candidates \/ ~WorseBy(nSequenceId', c, tip)
    BY <1>0, <1>2, AcceptFacts
  <2> QED BY <2>1, <2>3, <2>4 DEF NoneWorse, Worse
<1>3. ASSUME DisconnectTip PROVE NoneWorse'
  <2>1. tip' \in Ancestors(tip) /\ tip' \in Blocks BY <1>3, DisconnectFacts
  <2>2. UNCHANGED <<candidates, nSequenceId>> BY <1>3 DEF DisconnectTip
  <2>3. \A c \in candidates : ~Worse(c, tip') BY <1>c, <2>1, <2>2
  <2> QED BY <2>2, <2>3 DEF NoneWorse, Worse
<1>4. ASSUME ConnectTip PROVE NoneWorse'
  BY <1>4 DEF ConnectTip, PruneBlockIndexCandidates, NoneWorse, Worse
<1>5. ASSUME InvalidateTip PROVE NoneWorse'
  <2>1. tip' \in Ancestors(tip) /\ tip' \in Blocks BY <1>5, InvalidateFacts
  <2>2. UNCHANGED nSequenceId BY <1>5 DEF InvalidateTip
  <2>3. \A c \in candidates : ~Worse(c, tip') BY <1>c, <2>1, <2>2
  <2>4. ~Worse(tip', tip') BY <1>b, <2>1, Order DEF Worse
  <2>5. \A c \in candidates' : c \in candidates \/ c = tip' \/ ~Worse(c, tip') BY <1>5 DEF InvalidateTip
  <2>6. \A c \in candidates' : ~Worse(c, tip') BY <2>3, <2>4, <2>5
  <2> QED BY <2>2, <2>6 DEF NoneWorse, Worse
<1>6. ASSUME EndInvalidate PROVE NoneWorse'
  <2>1. UNCHANGED <<tip, nSequenceId>> /\ \A c \in candidates' : c \in candidates \/ ~Worse(c, tip)
    BY <1>6 DEF EndInvalidate
  <2> QED BY <1>0, <2>1 DEF NoneWorse, Worse
<1>7. ASSUME NEW b \in Precious, PreciousBlock(b) PROVE NoneWorse'
  <2>1. PICK rev \in Int :
          /\ nSequenceId' = [nSequenceId EXCEPT ![b] = rev]
          /\ candidates' = IF ValidTransactions(b) /\ b \in linked
                           THEN PruneBlockIndexCandidates(candidates \cup {b}, nSequenceId', tip)
                           ELSE candidates \ {b}
    <3> DEFINE rev == IF ChainWork[tip] > nLastPreciousChainwork THEN -1 ELSE nBlockReverseSequenceId
    <3>1. rev \in Int BY <1>0 DEF TypeOK
    <3>2. /\ nSequenceId' = [nSequenceId EXCEPT ![b] = rev]
          /\ candidates' = IF ValidTransactions(b) /\ b \in linked
                           THEN PruneBlockIndexCandidates(candidates \cup {b}, [nSequenceId EXCEPT ![b] = rev], tip)
                           ELSE candidates \ {b}
      BY <1>7 DEF PreciousBlock
    <3> HIDE DEF rev
    <3> QED BY <3>1, <3>2, Zenon
  <2>2. tip' = tip BY <1>7 DEF PreciousBlock
  <2>3. CASE ValidTransactions(b) /\ b \in linked
    <3>1. candidates' = PruneBlockIndexCandidates(candidates \cup {b}, nSequenceId', tip) BY <2>1, <2>3, Zenon
    <3> QED BY <2>2, <3>1 DEF PruneBlockIndexCandidates, NoneWorse, Worse
  <2>4. CASE ~(ValidTransactions(b) /\ b \in linked)
    <3>1. candidates' = candidates \ {b} BY <2>1, <2>4
    <3>2. tip \in Ancestors(tip) /\ tip \in haveData BY <1>0, <1>a, Tree DEF TypeOK
    <3>3. tip \notin Failed BY <1>0, <3>2 DEF Valid, ChainValid
    <3>4. tip # b BY <1>a, <2>4, <3>2, <3>3 DEF ValidTransactions
    <3>5. \A x \in Blocks : x # b => nSequenceId'[x] = nSequenceId[x] BY <1>b, <2>1
    <3>6. \A c \in candidates' : c \in candidates /\ nSequenceId'[c] = nSequenceId[c] BY <1>a, <3>1, <3>5
    <3>7. nSequenceId'[tip] = nSequenceId[tip] BY <1>a, <3>4, <3>5
    <3> QED BY <1>0, <2>2, <3>6, <3>7, Zenon DEF NoneWorse, Worse, WorseBy
  <2> QED BY <2>3, <2>4
<1>8. ASSUME NEW b \in Reconsidered, ResetBlockFailureFlags(b) PROVE NoneWorse'
  <2>1. /\ UNCHANGED <<tip, nSequenceId>>
        /\ \A c \in candidates' : c \in candidates \/ (c \in linked /\ Worse(tip, c))
    <3>1. \E below \in SUBSET index : candidates' = candidates \cup {d \in below : d \in linked /\ Worse(tip, d)}
      BY <1>8, Zenon DEF ResetBlockFailureFlags
    <3>2. UNCHANGED <<tip, nSequenceId>> BY <1>8 DEF ResetBlockFailureFlags
    <3> QED BY <3>1, <3>2
  <2>2. \A c \in candidates' : ~Worse(c, tip)
    <3>1. \A c \in linked : Worse(tip, c) => ~Worse(c, tip) BY <1>a, <1>b, Order DEF Worse
    <3> QED BY <1>0, <2>1, <3>1 DEF NoneWorse
  <2> QED BY <2>1, <2>2 DEF NoneWorse, Worse
<1>9. \/ UNCHANGED <<tip, nSequenceId>> /\ candidates' \subseteq candidates
      \/ \E b \in Blocks, r \in BOOLEAN : AcceptBlock(b, r)
      \/ DisconnectTip \/ ConnectTip \/ InvalidateTip \/ EndInvalidate
      \/ \E b \in Precious : PreciousBlock(b)
      \/ \E b \in Reconsidered : ResetBlockFailureFlags(b)
  <2>1. DropCandidate => UNCHANGED <<tip, nSequenceId>> /\ candidates' \subseteq candidates
    BY DEF DropCandidate
  <2>2. ConnectTipFails => UNCHANGED <<tip, nSequenceId>> /\ candidates' \subseteq candidates
    BY DEF ConnectTipFails
  <2> QED BY <2>1, <2>2 DEF Next, Activate, RejectHeader, AddHeader, RejectBlock, IgnoreBlock, StartActivate,
             LockCsMain, NothingToDo, TakeCandidate, BeginStep, BeginInvalidate
<1> QED BY <1>1, <1>2, <1>3, <1>4, <1>5, <1>6, <1>7, <1>8, <1>9, Zenon

---------------------------------------------------------------------------
\* The part of the invariant that no call of an RPC disturbs.
LEMMA BaseInit == ASSUME Init PROVE Base
<1>0. Genesis \in Blocks /\ Ancestors(Genesis) = {Genesis}
  <2>1. Genesis \in Blocks BY ChainStateAssumption
  <2>2. \A a \in Ancestors(Genesis) : a = Genesis BY <2>1, Tree
  <2> QED BY <2>1, <2>2, Tree
<1>1. TypeOK
  <2>1. nSequenceId \in [Blocks -> Int] BY DEF Init
  <2>2. abc \in Calls /\ inv \in Walks BY RecordFacts DEF Init
  <2>3. nBlockSequenceId \in Int /\ nBlockReverseSequenceId \in Int BY DEF Init
  <2>4. wanted \in BOOLEAN /\ reconsidered \in BOOLEAN /\ demoted \in BOOLEAN BY Zenon DEF Init
  <2>5. /\ index \subseteq Blocks /\ haveData \subseteq index /\ linked \subseteq haveData
        /\ unlinked \subseteq haveData \ linked /\ candidates \subseteq linked /\ tip \in linked
        /\ scriptsValid \subseteq Blocks /\ failedValid \subseteq Blocks /\ failedChild \subseteq Blocks
    BY <1>0 DEF Init
  <2> QED BY <2>1, <2>2, <2>3, <2>4, <2>5 DEF TypeOK
<1>2. Closed BY <1>0 DEF Init, Closed
<1>3. Progress BY RecordFacts DEF Init, Progress
<1>4. Valid
  <2>1. Genesis \notin BadConnect BY ChainStateAssumption, Zenon
  <2>2. abc.most = NoBlock BY RecordFacts, Zenon DEF Init
  <2> QED BY <1>0, <2>1, <2>2 DEF Init, Valid, ChainValid, FailedBlocksMarked, Failed
<1>5. NoneWorse BY <1>0, <1>1, Order DEF Init, NoneWorse, Worse, TypeOK
<1> QED BY <1>1, <1>2, <1>3, <1>4, <1>5 DEF Base

\* Every step keeps it, reconsiderblock's too.
LEMMA BaseStep == ASSUME Base, [Next]_vars PROVE Base'
<1>1. CASE Next BY <1>1, TypeStep, ClosedStep, ProgressStep, ValidStep, NoneWorseStep, Zenon DEF Base
<1>2. CASE UNCHANGED vars
  BY <1>2, Zenon, Zenon DEF vars, blockData, flags, precious, history, Base, TypeOK, Closed, Progress, Valid, ChainValid,
              FailedBlocksMarked, Failed, NoneWorse, Worse, WorseBy
<1> QED BY <1>1, <1>2

\* FindMostWorkChain may stop at the fork: the blocks of the active chain were all connected and
\* none is marked failed, whatever arrives, fails or is invalidated, reconsidered or preferred.
THEOREM ActiveChainValid == Spec => []ChainValid
<1>1. Init => Base BY BaseInit
<1>2. Base /\ [Next]_vars => Base' BY BaseStep
<1>3. Base => ChainValid BY DEF Base, Valid
<1> QED BY <1>1, <1>2, <1>3, PTL DEF Spec

---------------------------------------------------------------------------
(* Until a disturbance: the failure flags and the links. *)
\* What the steps that neither link a block nor touch the search have in common.
Arrival ==
  /\ CsMainFree /\ UNCHANGED <<linked, candidates, nSequenceId, tip, abc, inv, scriptsValid>>
  /\ UNCHANGED wanted \/ wanted'

Accepts == \E b \in Blocks, fRequested \in BOOLEAN : AcceptBlock(b, fRequested)

\* preciousblock without the tip getting a larger number.
Prefers == \E b \in Precious : PreciousBlock(b) /\ ~(nSequenceId'[tip] > nSequenceId[tip])

\* The kinds of step that are not a disturbance; none clears BLOCK_FAILED_VALID.
LEMMA Kinds ==
  ASSUME Base, Next, Undisturbed'
  PROVE  /\ Undisturbed /\ failedValid \subseteq failedValid'
         /\ \/ Arrival \/ Accepts \/ Prefers \/ StartActivate \/ Activate
            \/ (\E b \in Invalidated : BeginInvalidate(b)) \/ InvalidateTip \/ EndInvalidate
<1> DEFINE Kept == failedValid \subseteq failedValid'
<1>0. Undisturbed /\ ~(\E b \in Reconsidered : ResetBlockFailureFlags(b) /\ reconsidered' = TRUE)
  <2>1. ~reconsidered' /\ ~demoted' BY DEF Undisturbed
  <2>2. reconsidered \in BOOLEAN /\ demoted \in BOOLEAN BY DEF Base, TypeOK
  <2>3. ~reconsidered /\ ~demoted
    <3>1. CASE UNCHANGED history BY <2>1, <2>2, <3>1 DEF history
    <3>2. CASE demoted' = (demoted \/ nSequenceId'[tip] > nSequenceId[tip]) /\ UNCHANGED reconsidered
      BY <2>1, <2>2, <3>2
    <3>3. reconsidered' # TRUE BY <2>1, Zenon
    <3> QED BY <3>1, <3>2, <3>3, Zenon DEF Next
  <2> QED BY <2>1, <2>3, Zenon DEF Undisturbed
<1>1. ASSUME \E b \in Blocks \ {Genesis} : RejectHeader(b) \/ AddHeader(b) PROVE Arrival /\ Kept
  BY <1>1 DEF RejectHeader, AddHeader, Arrival, blockData, flags
<1>2. ASSUME \E b \in Blocks, r \in BOOLEAN : RejectBlock(b, r) \/ IgnoreBlock(b, r) PROVE Arrival /\ Kept
  BY <1>2 DEF RejectBlock, IgnoreBlock, Acceptable, Arrival, blockData, flags
<1>3. ASSUME Accepts PROVE Kept BY <1>3 DEF Accepts, AcceptBlock, flags
<1>4. ASSUME StartActivate PROVE Kept BY <1>4 DEF StartActivate, flags
<1>5. ASSUME Activate PROVE Kept
  BY <1>5 DEF Activate, flags, LockCsMain, NothingToDo, TakeCandidate, DropCandidate, BeginStep, DisconnectTip,
              ConnectTip, ConnectTipFails
<1>6. ASSUME \E b \in Invalidated : BeginInvalidate(b) PROVE Kept BY <1>6 DEF BeginInvalidate, flags
<1>7. ASSUME InvalidateTip PROVE Kept BY <1>7, InvalidateFacts
<1>8. ASSUME EndInvalidate PROVE Kept BY <1>8 DEF EndInvalidate
<1>9. ASSUME NEW b \in Precious, PreciousBlock(b), demoted' = (demoted \/ nSequenceId'[tip] > nSequenceId[tip])
      PROVE  Prefers /\ Kept
  <2>1. ~(nSequenceId'[tip] > nSequenceId[tip]) BY <1>9, Zenon DEF Undisturbed
  <2>2. Kept BY <1>9 DEF PreciousBlock, flags
  <2> QED BY <1>9, <2>1, <2>2 DEF Prefers
<1> HIDE DEF Kept
<1>10. \/ \E b \in Blocks \ {Genesis} : RejectHeader(b) \/ AddHeader(b)
       \/ \E b \in Blocks, r \in BOOLEAN : RejectBlock(b, r) \/ IgnoreBlock(b, r)
       \/ Accepts \/ StartActivate \/ Activate
       \/ (\E b \in Invalidated : BeginInvalidate(b)) \/ InvalidateTip \/ EndInvalidate
       \/ \E b \in Precious : PreciousBlock(b) /\ demoted' = (demoted \/ nSequenceId'[tip] > nSequenceId[tip])
  BY <1>0, Zenon DEF Next, Accepts
<1>11. /\ Undisturbed /\ Kept
       /\ \/ Arrival \/ Accepts \/ Prefers \/ StartActivate \/ Activate
          \/ (\E b \in Invalidated : BeginInvalidate(b)) \/ InvalidateTip \/ EndInvalidate
  BY <1>0, <1>1, <1>2, <1>3, <1>4, <1>5, <1>6, <1>7, <1>8, <1>9, <1>10, Zenon
<1> QED BY <1>11 DEF Kept

\* The work order, with its negation.
LEMMA WorkOrder ==
  ASSUME nSequenceId \in [Blocks -> Int]
  PROVE  /\ \A a \in Blocks : ~Worse(a, a)
         /\ \A a, b \in Blocks : Worse(a, b) => ~Worse(b, a)
         /\ \A a, b, c \in Blocks : Worse(a, b) /\ ~Worse(c, b) => Worse(a, c)
         /\ \A a, b, c \in Blocks : ~Worse(b, a) /\ Worse(b, c) => Worse(a, c)
         /\ \A a, b, c \in Blocks : ~Worse(a, b) /\ ~Worse(b, c) => ~Worse(a, c)
         /\ \A b \in Blocks : \A a \in Ancestors(b) : a # b => Worse(a, b)
<1>1. /\ \A a \in Blocks : ~Worse(a, a)
      /\ \A a, b, c \in Blocks : Worse(a, b) /\ Worse(b, c) => Worse(a, c)
      /\ \A a, b \in Blocks : a = b \/ Worse(a, b) \/ Worse(b, a)
      /\ \A a, b \in Blocks : Worse(a, b) => ~Worse(b, a)
      /\ \A b \in Blocks : \A a \in Ancestors(b) : a # b => Worse(a, b)
  BY Order DEF Worse
<1> QED BY <1>1, Zenon

---------------------------------------------------------------------------
\* Failure flags have a cause: AcceptBlockHeader and FindMostWorkChain mark only what is above a
\* block that is marked.
LEMMA CausedStep == ASSUME Base, Calm, Next, Undisturbed' PROVE Caused'
<1>0. TypeOK /\ Closed /\ Valid /\ Caused BY DEF Base, Calm
<1>a. failedValid \subseteq failedValid' BY Kinds
<1>b. /\ failedValid \subseteq Failed /\ Failed \subseteq Blocks /\ m_failed_blocks \subseteq failedValid
      /\ linked \subseteq Blocks
  BY <1>0, BaseFacts DEF Failed, TypeOK, Valid, FailedBlocksMarked
<1>1. ASSUME \A x \in Failed' : x \in Failed \/ HasInvalid(x) \/ x \in failedValid' PROVE Caused'
  <2>1. \A x \in Failed' : x \in Failed \/ HasInvalid(x) => Ancestors(x) \cap failedValid' # {}
    BY <1>0, <1>a DEF Caused, HasInvalid
  <2>2. failedValid' \subseteq Blocks BY TypeStep DEF TypeOK
  <2>3. \A x \in failedValid' : x \in Ancestors(x) BY <2>2, Tree
  <2>4. \A x \in Failed' : Ancestors(x) \cap failedValid' # {} BY <1>1, <2>1, <2>3
  <2> QED BY <2>4 DEF Caused, HasInvalid
<1>c. ASSUME NEW p \in Blocks, NEW f \in Ancestors(p), HasInvalid(f), NEW x \in Ancestors(p) \ Ancestors(f)
      PROVE  HasInvalid(x)
  <2>1. f \in Ancestors(x) /\ x \in Blocks BY Tree
  <2>2. Ancestors(f) \subseteq Ancestors(x) BY <2>1, Tree
  <2> QED BY <1>c, <2>2 DEF HasInvalid
<1>2. ASSUME NEW b \in Blocks \ {Genesis}, RejectHeader(b) PROVE Caused'
  <2>0. Parent(b) \in Blocks BY ParentFacts
  <2>1. PICK f \in FailedAncestors(Parent(b)) :
          failedChild' = failedChild \cup (Ancestors(Parent(b)) \ Ancestors(f))
    BY <1>2 DEF RejectHeader
  <2>2. f \in m_failed_blocks /\ IsAncestor(f, Parent(b)) BY <2>1 DEF FailedAncestors
  <2>3. f \in Ancestors(Parent(b)) BY <1>b, <2>0, <2>2, Tree
  <2>4. HasInvalid(f) BY <1>0, <1>b, <2>2 DEF Caused
  <2>5. failedValid' = failedValid BY <1>2 DEF RejectHeader
  <2>6. \A x \in Failed' : x \in Failed \/ x \in Ancestors(Parent(b)) \ Ancestors(f) BY <2>1, <2>5 DEF Failed
  <2> QED BY <1>1, <1>c, <2>0, <2>3, <2>4, <2>6
<1>3. ASSUME DropCandidate PROVE Caused'
  <2>1. PICK c \in candidates : \E t \in OffChain(c) \cap Failed :
          failedChild' = failedChild \cup (Ancestors(c) \ Ancestors(t))
    BY <1>3 DEF DropCandidate
  <2>2. PICK t \in OffChain(c) \cap Failed : failedChild' = failedChild \cup (Ancestors(c) \ Ancestors(t))
    BY <2>1
  <2>3. c \in Blocks /\ t \in Ancestors(c) /\ HasInvalid(t) BY <1>0, BaseFacts DEF OffChain, Caused
  <2>4. failedValid' = failedValid BY <1>3 DEF DropCandidate
  <2>5. \A x \in Failed' : x \in Failed \/ x \in Ancestors(c) \ Ancestors(t) BY <2>2, <2>4 DEF Failed
  <2> QED BY <1>1, <1>c, <2>3, <2>5
<1>4. ASSUME failedChild' = failedChild PROVE Caused'
  <2>1. \A x \in Failed' : x \in Failed \/ x \in failedValid' BY <1>4, Zenon DEF Failed
  <2> QED BY <1>1, <2>1
<1>5. \/ \E b \in Blocks \ {Genesis} : RejectHeader(b)
      \/ DropCandidate \/ failedChild' = failedChild
  <2>1. InvalidateTip => failedChild' = failedChild BY InvalidateFacts
  <2>2. ~(\E b \in Reconsidered : ResetBlockFailureFlags(b) /\ reconsidered' = TRUE) BY DEF Undisturbed
  <2> QED BY <2>1, <2>2, Zenon, Zenon DEF Next, Activate, AddHeader, RejectBlock, AcceptBlock, IgnoreBlock, StartActivate,
             LockCsMain, NothingToDo, TakeCandidate, BeginStep, DisconnectTip, ConnectTip, ConnectTipFails,
             BeginInvalidate, EndInvalidate, PreciousBlock, flags
<1> QED BY <1>2, <1>3, <1>4, <1>5, Zenon

\* A block with data is linked or waits in m_blocks_unlinked, in whatever order data arrive.
LEMMA LinksStep == ASSUME Base, Calm, Next, Undisturbed' PROVE Links'
<1>0. TypeOK /\ Closed /\ Caused /\ Links BY DEF Base, Calm
<1>a. failedValid \subseteq failedValid' BY Kinds
<1>b. \A x : HasInvalid(x) => HasInvalid(x)' BY <1>a DEF HasInvalid
<1>c. /\ linked \subseteq haveData /\ haveData \subseteq index /\ index \subseteq Blocks
  BY <1>0 DEF TypeOK
<1>1. ASSUME UNCHANGED <<index, haveData, linked, unlinked>> PROVE Links'
  BY <1>0, <1>b, <1>1 DEF Links
<1>2. ASSUME NEW b \in Blocks \ {Genesis}, AddHeader(b) PROVE Links'
  <2>1. index' = index \cup {b} /\ b \notin index /\ UNCHANGED <<haveData, linked, unlinked>>
    BY <1>2 DEF AddHeader
  <2>2. b \in Ancestors(b) BY Tree
  <2>3. ~(Ancestors(b) \subseteq haveData) BY <1>c, <2>1, <2>2
  <2> QED BY <1>0, <1>b, <2>1, <2>3 DEF Links
<1>3. ASSUME NEW b \in Blocks, NEW r \in BOOLEAN, AcceptBlock(b, r) PROVE Links'
  <2>0. /\ b \in index \ Failed /\ b \notin haveData /\ b # Genesis /\ b \in Linkable(b)
        /\ haveData' = haveData \cup {b} /\ index' = index /\ Linkable(b) \cap linked = {}
    BY <1>0, <1>3, AcceptFacts
  <2>1. \A x : HasInvalid(x)' = HasInvalid(x) BY <1>3 DEF AcceptBlock, flags, HasInvalid
  <2>2. /\ Parent(b) \in Blocks /\ Parent(b) \in Ancestors(b) /\ b \notin Ancestors(Parent(b))
        /\ Ancestors(b) = Ancestors(Parent(b)) \cup {b} /\ Ancestors(Parent(b)) \subseteq Ancestors(b)
    BY <2>0, ParentFacts
  <2>3. ASSUME NEW d \in haveData', d \notin linked', ~HasInvalid(d) PROVE d \in unlinked'
    <3>1. CASE Parent(b) \in linked
      <4>1. linked' = linked \cup Linkable(b) /\ unlinked' = unlinked \ Linkable(b)
        BY <1>0, <1>3, <3>1, AcceptFacts
      <4>2. d \in haveData \ linked /\ d \notin Linkable(b) BY <2>0, <2>3, <4>1
      <4> QED BY <1>0, <2>3, <4>1, <4>2, Zenon DEF Links
    <3>2. CASE Parent(b) \notin linked
      <4>1. linked' = linked /\ unlinked' = IF Parent(b) \in Failed THEN unlinked ELSE unlinked \cup {b}
        BY <1>0, <1>3, <3>2, AcceptFacts
      <4>2. CASE d = b
        <5>1. HasInvalid(Parent(b)) => HasInvalid(b) BY <2>2 DEF HasInvalid
        <5>2. Parent(b) \notin Failed BY <1>0, <2>3, <4>2, <5>1 DEF Caused
        <5> QED BY <4>1, <4>2, <5>2
      <4>3. CASE d # b
        <5>1. d \in haveData \ linked BY <2>0, <2>3, <4>1, <4>3
        <5>2. d \in unlinked BY <1>0, <2>3, <5>1 DEF Links
        <5> QED BY <4>1, <5>2
      <4> QED BY <4>2, <4>3
    <3> QED BY <3>1, <3>2
  <2>4. ASSUME NEW d \in index, Ancestors(d) \subseteq haveData', ~HasInvalid(d) PROVE d \in linked'
    <3>a. linked \subseteq linked' BY ClosedStep
    <3>b. d \in Blocks BY <1>c
    <3>1. CASE b \notin Ancestors(d)
      <4>1. Ancestors(d) \subseteq haveData BY <2>0, <2>4, <3>1
      <4> QED BY <1>0, <2>4, <3>a, <4>1 DEF Links
    <3>2. CASE b \in Ancestors(d)
      <4>1. Ancestors(b) \subseteq Ancestors(d) BY <3>b, <3>2, Tree
      <4>2. Ancestors(Parent(b)) \subseteq haveData BY <2>0, <2>2, <2>4, <4>1
      <4>3. ~HasInvalid(Parent(b)) BY <2>2, <2>4, <4>1 DEF HasInvalid
      <4>4. Parent(b) \in index BY <1>0, <2>0, <2>2 DEF Closed
      <4>5. Parent(b) \in linked BY <1>0, <4>2, <4>3, <4>4 DEF Links
      <4>6. linked' = linked \cup Linkable(b) BY <1>0, <1>3, <4>5, AcceptFacts
      <4>7. ASSUME NEW x \in Ancestors(d), x \notin Ancestors(b) PROVE x \in unlinked
        <5>1. x \in Blocks /\ b \in Ancestors(x) /\ Ancestors(x) \subseteq Ancestors(d)
          BY <3>b, <3>2, <4>7, Tree
        <5>2. b \in Ancestors(b) BY Tree
        <5>3. x \in haveData BY <2>0, <2>4, <4>7, <5>2
        <5>4. x \notin linked BY <1>0, <1>c, <2>0, <5>1 DEF Closed
        <5>5. ~HasInvalid(x) BY <2>4, <5>1 DEF HasInvalid
        <5> QED BY <1>0, <5>3, <5>4, <5>5 DEF Links
      <4>8. d \in unlinked \cup {b}
        <5>1. d \in Ancestors(b) => d = b BY <3>b, <3>2, Tree
        <5>2. d \in Ancestors(d) BY <3>b, Tree
        <5> QED BY <4>7, <5>1, <5>2
      <4>9. IsAncestor(b, d) BY <3>b, <3>2, Tree
      <4>10. Ancestors(d) \ Ancestors(b) \subseteq unlinked BY <4>7
      <4>11. d \in Linkable(b) BY <4>8, <4>9, <4>10 DEF Linkable
      <4> QED BY <4>6, <4>11
    <3> QED BY <3>1, <3>2
  <2> QED BY <2>0, <2>1, <2>3, <2>4, Zenon DEF Links
<1>4. \/ UNCHANGED <<index, haveData, linked, unlinked>>
      \/ \E b \in Blocks \ {Genesis} : AddHeader(b)
      \/ \E b \in Blocks, r \in BOOLEAN : AcceptBlock(b, r)
  BY Zenon DEF Next, Activate, RejectHeader, RejectBlock, IgnoreBlock, StartActivate, LockCsMain, NothingToDo,
         TakeCandidate, DropCandidate, BeginStep, DisconnectTip, ConnectTip, ConnectTipFails,
         BeginInvalidate, InvalidateTip, EndInvalidate, PreciousBlock, ResetBlockFailureFlags, blockData
<1> QED BY <1>1, <1>2, <1>3, <1>4, Zenon
---------------------------------------------------------------------------
\* During a search the tip of its start can be returned to, and is a candidate whenever a target
\* is chosen.
LEMMA SearchFacts ==
  ASSUME Base, Calm, Searching
  PROVE  /\ inv.pc = "idle" /\ ~CsMainFree /\ abc.starting \in linked /\ abc.starting \in Blocks
         /\ abc.pc = "inner" => abc.starting \in candidates
<1>0. nSequenceId \in [Blocks -> Int] /\ linked \subseteq Blocks /\ inv \in Walks BY BaseFacts DEF Base, TypeOK
<1>1. inv.pc = "idle" BY <1>0, RecordFacts DEF Base, Progress, Searching
<1>2. abc.starting \in linked /\ ~CsMainFree BY DEF Base, Progress, Searching, CsMainFree
<1>3. ASSUME abc.pc = "inner" PROVE abc.starting \in candidates
  <2>1. Ancestors(abc.starting) \cap Failed = {} /\ ~Worse(abc.starting, tip) BY <1>3 DEF Calm, Fallback
  <2>2. Viable(abc.starting) BY <1>2, <2>1 DEF Viable, HasInvalid, Failed
  <2>3. ~Worse(abc.starting, abc.starting) BY <1>0, <1>2, WorkOrder, Zenon
  <2> QED BY <1>1, <1>2, <2>1, <2>2, <2>3 DEF Calm, Complete
<1> QED BY <1>0, <1>1, <1>2, <1>3

\* ActivateBestChain has nothing to do only at its target, which is no worse than its start.
LEMMA FinishFacts ==
  ASSUME Base, Calm, NothingToDo
  PROVE  /\ abc.most = tip /\ abc.most # NoBlock /\ ~Worse(tip, abc.starting)
         /\ abc' = IdleABC /\ abc'.pc = "idle" /\ abc'.most = NoBlock
<1>0. tip \in Blocks /\ tip # NoBlock BY BaseFacts, Tree DEF Base
<1>1. abc.pc = "inner" /\ Searching BY DEF NothingToDo, Searching
<1>2. abc.starting \in candidates BY <1>1, SearchFacts
<1>3. abc.most = tip BY <1>2 DEF NothingToDo
<1>4. ~Worse(tip, abc.starting) BY <1>0, <1>1, <1>3 DEF Calm, Fallback
<1>5. abc' = IdleABC BY <1>3 DEF NothingToDo, Unlock
<1> QED BY <1>0, <1>3, <1>4, <1>5, RecordFacts, Zenon

\* While it disconnects, the tip is no better than at the start, and so never the target.
LEMMA RewindFacts ==
  ASSUME Base, Calm, DisconnectTip
  PROVE  /\ abc' = abc /\ tip' # abc.most /\ ~Worse(abc.starting, tip) /\ Worse(tip', tip)
         /\ tip' \in Blocks /\ tip \in Blocks /\ abc.pc = "step"
<1>0. /\ abc.most \in Blocks /\ tip \notin Ancestors(abc.most) /\ tip \in Blocks /\ tip' \in Blocks
      /\ tip' \in Ancestors(tip) /\ abc' = IF tip' = abc.most THEN AfterStep(abc, tip') ELSE abc
  BY DisconnectFacts
<1>a. tip' # tip
  <2>1. tip' = Parent(tip) /\ tip \in Blocks \ {Genesis} BY DisconnectFacts
  <2>2. tip \notin Ancestors(Parent(tip)) BY <2>1, ParentFacts
  <2> QED BY <1>0, <2>1, <2>2, Tree
<1>1. nSequenceId \in [Blocks -> Int] BY DEF Base, TypeOK
<1>2. abc.pc = "step" /\ Searching BY DEF DisconnectTip, Searching
<1>3. abc.starting \in Blocks BY <1>2, SearchFacts
<1>4. abc.most # NoBlock BY <1>0, Tree, Zenon
<1>5. ~Worse(abc.starting, tip) /\ ~Worse(abc.most, abc.starting)
  BY <1>0, <1>2, <1>4, Zenon DEF Calm, Fallback
<1>6. Worse(tip', tip) BY <1>0, <1>a, <1>1, WorkOrder
<1>7. Worse(tip', abc.starting) BY <1>0, <1>1, <1>3, <1>5, <1>6, WorkOrder
<1>8. tip' # abc.most BY <1>5, <1>7
<1> QED BY <1>0, <1>2, <1>5, <1>6, <1>8

\* A block is connected: the step goes on, or ends the inner loop's round, or lets go of cs_main.
LEMMA AdvanceFacts ==
  ASSUME Base, ConnectTip
  PROVE  /\ Worse(tip, tip') /\ tip' \in Ancestors(abc.most) /\ tip' \in Blocks /\ tip \in Blocks
         /\ abc.most # NoBlock /\ abc.pc = "step" /\ nSequenceId' = nSequenceId
         /\ \/ abc' = abc /\ tip' # abc.most
            \/ abc'.pc = "inner" /\ Worse(tip', abc.starting) /\ abc'.most = abc.most /\ abc'.starting = abc.starting
            \/ abc'.pc = "outer" /\ ~Worse(tip', abc.starting) /\ abc'.most = abc.most /\ abc.most # tip'
            \/ abc'.pc = "idle" /\ ~Worse(tip', abc.starting) /\ abc' = IdleABC /\ abc.most = tip'
<1>0. /\ tip' = NextToConnect /\ abc.pc = "step" /\ nSequenceId' = nSequenceId
      /\ abc' = IF tip' = abc.most \/ ChainWork[tip'] > ChainWork[abc.old] THEN AfterStep(abc, tip') ELSE abc
  BY Zenon DEF ConnectTip
<1>1. tip' \in Ancestors(abc.most) /\ tip' \in Blocks /\ tip \in Ancestors(tip') /\ tip # tip'
  BY <1>0, ConnectFacts, Zenon DEF ConnectTip
<1>2. /\ tip \in Blocks /\ nSequenceId \in [Blocks -> Int] /\ abc \in Calls BY BaseFacts DEF Base, TypeOK
<1>3. abc.connected /\ abc.most # NoBlock BY <1>0 DEF Base, Progress
<1>4. Worse(tip, tip') BY <1>1, <1>2, WorkOrder, Zenon
<1>5. CASE tip' = abc.most \/ ChainWork[tip'] > ChainWork[abc.old]
  <2>1. abc' = AfterStep(abc, tip') BY <1>0, <1>5, Zenon
  <2>2. /\ abc'.pc \in {"inner", "outer", "idle"}
        /\ abc'.pc = "inner" => Worse(tip', abc.starting) /\ abc'.most = abc.most /\ abc'.starting = abc.starting
        /\ abc'.pc = "outer" => ~Worse(tip', abc.starting) /\ abc'.most = abc.most /\ abc.most # tip'
        /\ abc'.pc = "idle" => ~Worse(tip', abc.starting) /\ abc' = IdleABC /\ abc.most = tip'
    BY <1>1, <1>2, <1>3, <2>1, AfterFacts, Zenon
  <2>3. \/ abc'.pc = "inner" /\ Worse(tip', abc.starting) /\ abc'.most = abc.most /\ abc'.starting = abc.starting
        \/ abc'.pc = "outer" /\ ~Worse(tip', abc.starting) /\ abc'.most = abc.most /\ abc.most # tip'
        \/ abc'.pc = "idle" /\ ~Worse(tip', abc.starting) /\ abc' = IdleABC /\ abc.most = tip'
    BY <2>2, Zenon
  <2> QED BY <1>0, <1>1, <1>2, <1>3, <1>4, <2>3, Zenon
<1>6. CASE ~(tip' = abc.most \/ ChainWork[tip'] > ChainWork[abc.old])
  <2>1. abc' = abc BY <1>0, <1>6, Zenon
  <2> QED BY <1>0, <1>1, <1>2, <1>3, <1>4, <1>6, <2>1
<1> QED BY <1>5, <1>6, Zenon

\* A block fails to connect: the target is dropped, and cs_main is let go of only when the tip is
\* no worse than at the start.
LEMMA FailFacts ==
  ASSUME Base, ConnectTipFails
  PROVE  /\ abc'.most = NoBlock /\ abc.pc = "step" /\ tip' = tip /\ nSequenceId' = nSequenceId
         /\ \/ abc'.pc = "inner" /\ Worse(tip, abc.starting) /\ abc'.starting = abc.starting
            \/ abc'.pc = "outer" /\ ~Worse(tip, abc.starting)
<1> DEFINE a == [abc EXCEPT !.most = NoBlock]
<1>0. abc.pc = "step" /\ tip' = tip /\ nSequenceId' = nSequenceId /\ abc' = AfterStep(a, tip)
  BY DEF ConnectTipFails
<1>1. tip \in Blocks /\ tip # NoBlock /\ abc \in Calls BY BaseFacts, Tree DEF Base, TypeOK
<1>2. abc.connected BY <1>0 DEF Base, Progress
<1>3. a \in Calls /\ a.connected /\ a.most = NoBlock /\ a.starting = abc.starting
  BY <1>1, <1>2 DEF Calls, Maybe
<1> HIDE DEF a
<1> QED BY <1>0, <1>1, <1>3, AfterFacts

---------------------------------------------------------------------------
\* setBlockIndexCandidates keeps all that could replace the tip, although ConnectTip prunes it
\* before the reorganisation is known to succeed: what is pruned is worse than the start.
LEMMA CompleteStep == ASSUME Base, Calm, Next, Undisturbed' PROVE Complete'
<1>0. TypeOK /\ Closed /\ Progress /\ Valid /\ Caused /\ Complete /\ Fallback BY DEF Base, Calm
<1>a. /\ tip \in Blocks /\ tip \in linked /\ linked \subseteq Blocks /\ linked \subseteq haveData
      /\ nSequenceId \in [Blocks -> Int] /\ failedValid \subseteq failedValid'
  BY <1>0, BaseFacts, Kinds DEF TypeOK
<1> SUFFICES ASSUME inv'.pc = "idle", NEW x \in linked', Ancestors(x) \cap failedValid' = {},
                    ~WorseBy(nSequenceId', x, tip'),
                    Searching' => ~WorseBy(nSequenceId', x, abc'.starting)
             PROVE  x \in candidates'
  BY DEF Complete, Viable, HasInvalid, Worse
<1>b. x \in linked => Viable(x) BY <1>a DEF Viable, HasInvalid
<1>c. ASSUME inv.pc = "idle", x \in linked, ~Worse(x, tip), Searching => ~Worse(x, abc.starting)
      PROVE  x \in candidates
  BY <1>0, <1>b, <1>c, Zenon DEF Complete
<1>1. ASSUME linked' = linked, UNCHANGED <<inv, nSequenceId, tip>>, candidates' = candidates,
             Searching => Searching' /\ abc'.starting = abc.starting
      PROVE  x \in candidates'
  BY <1>1, <1>c DEF Worse
<1>2. ASSUME Arrival \/ StartActivate PROVE x \in candidates'
  <2>1. linked' = linked /\ UNCHANGED <<inv, nSequenceId, tip>> /\ candidates' = candidates
    BY <1>2 DEF Arrival, StartActivate, blockData
  <2>2. ~Searching BY <1>2 DEF Arrival, StartActivate, CsMainFree, ChainstateMutexFree, Searching
  <2> QED BY <1>1, <2>1, <2>2
<1>3. ASSUME NEW b \in Blocks, NEW r \in BOOLEAN, AcceptBlock(b, r) PROVE x \in candidates'
  <2>1. UNCHANGED <<inv, tip>> BY <1>3 DEF AcceptBlock
  <2>2. CsMainFree /\ \A y \in linked : nSequenceId'[y] = nSequenceId[y] BY <1>0, <1>3, AcceptFacts, Zenon
  <2>3. ~Searching BY <2>2, Zenon DEF CsMainFree, Searching
  <2>4. CASE x \in linked
    <3>1. ~Worse(x, tip) BY <1>a, <2>1, <2>2, <2>4, Zenon DEF Worse, WorseBy
    <3>2. x \in candidates BY <1>c, <2>1, <2>3, <2>4, <3>1
    <3>3. candidates \subseteq candidates'
      <4>1. CASE Parent(b) \in linked BY <1>0, <1>3, <4>1, AcceptFacts
      <4>2. CASE Parent(b) \notin linked BY <1>0, <1>3, <4>2, AcceptFacts
      <4> QED BY <4>1, <4>2
    <3> QED BY <3>2, <3>3, Zenon
  <2>5. CASE x \notin linked
    <3>1. Parent(b) \in linked BY <1>0, <1>3, <2>5, AcceptFacts
    <3>2. /\ linked' = linked \cup Linkable(b)
          /\ candidates' = candidates \cup {d \in Linkable(b) : ~WorseBy(nSequenceId', d, tip)}
      BY <1>0, <1>3, <3>1, AcceptFacts
    <3> QED BY <2>1, <2>5, <3>2
  <2> QED BY <2>4, <2>5
<1>4. ASSUME NEW b \in Precious, PreciousBlock(b), ~(nSequenceId'[tip] > nSequenceId[tip]) PROVE x \in candidates'
  <2>0. UNCHANGED <<inv, tip, linked>> /\ CsMainFree BY <1>4, Zenon DEF PreciousBlock, blockData
  <2>1. ~Searching /\ x \in linked /\ x \in Blocks BY <1>a, <2>0 DEF CsMainFree, Searching
  <2> DEFINE rev == IF ChainWork[tip] > nLastPreciousChainwork THEN -1 ELSE nBlockReverseSequenceId
  <2>2. rev \in Int BY <1>0 DEF TypeOK
  <2>3. /\ nSequenceId' = [nSequenceId EXCEPT ![b] = rev]
        /\ candidates' = IF ValidTransactions(b) /\ b \in linked
                         THEN PruneBlockIndexCandidates(candidates \cup {b}, nSequenceId', tip)
                         ELSE candidates \ {b}
    BY <1>4, Zenon DEF PreciousBlock
  <2> HIDE DEF rev
  <2>4. \A y \in Blocks : nSequenceId[y] \in Int /\ nSequenceId'[y] \in Int /\ ChainWork[y] \in Nat
    BY <1>a, <2>2, <2>3, ChainStateAssumption, Zenon
  <2>5. \A y \in Blocks : y # b => nSequenceId'[y] = nSequenceId[y] BY <1>a, <2>3, Zenon
  <2>6. ASSUME x # b PROVE x \in candidates
    <3>1. nSequenceId'[x] = nSequenceId[x] /\ nSequenceId'[tip] <= nSequenceId[tip]
      BY <1>4, <1>a, <2>1, <2>4, <2>5, <2>6
    <3>2. ~WorseBy(nSequenceId', x, tip) BY <2>0
    <3>3. ~Worse(x, tip)
      <4> DEFINE sx == nSequenceId[x]
                 st == nSequenceId[tip]
                 nx == nSequenceId'[x]
                 nt == nSequenceId'[tip]
      <4>1. sx \in Int /\ st \in Int /\ nx \in Int /\ nt \in Int BY <1>a, <2>1, <2>4, Zenon
      <4>2. nx = sx /\ nt <= st BY <3>1
      <4>3. Worse(x, tip) <=> \/ ChainWork[x] < ChainWork[tip]
                              \/ ChainWork[x] = ChainWork[tip] /\ sx > st
                              \/ ChainWork[x] = ChainWork[tip] /\ sx = st /\ Addr[x] > Addr[tip]
        BY Zenon DEF Worse, WorseBy
      <4>4. ~(\/ ChainWork[x] < ChainWork[tip]
              \/ ChainWork[x] = ChainWork[tip] /\ nx > nt
              \/ ChainWork[x] = ChainWork[tip] /\ nx = nt /\ Addr[x] > Addr[tip])
        BY <3>2, Zenon DEF WorseBy
      <4> HIDE DEF sx, st, nx, nt
      <4>5. (sx > st => nx > nt) /\ (sx = st => nx > nt \/ nx = nt) BY <4>1, <4>2
      <4> QED BY <4>3, <4>4, <4>5, Zenon
    <3> QED BY <1>c, <2>0, <2>1, <3>3, Zenon
  <2>7. CASE ValidTransactions(b) /\ b \in linked
    <3>1. candidates' = PruneBlockIndexCandidates(candidates \cup {b}, nSequenceId', tip) BY <2>3, <2>7
    <3>2. x \in candidates \cup {b} BY <2>6
    <3> QED BY <2>0, <3>1, <3>2 DEF PruneBlockIndexCandidates
  <2>8. CASE ~(ValidTransactions(b) /\ b \in linked)
    <3>1. x # b BY <1>0, <1>a, <1>b, <2>1, <2>8 DEF ValidTransactions, Caused, Viable
    <3>2. candidates' = candidates \ {b} BY <2>3, <2>8
    <3> QED BY <2>6, <3>1, <3>2
  <2> QED BY <2>7, <2>8, Zenon
<1>5. ASSUME LockCsMain PROVE x \in candidates'
  <2>1. linked' = linked /\ UNCHANGED <<inv, nSequenceId, tip>> /\ candidates' = candidates
    BY <1>5 DEF LockCsMain, blockData
  <2>2. ~Searching BY <1>5 DEF LockCsMain, Searching
  <2> QED BY <1>1, <2>1, <2>2
<1>6. ASSUME TakeCandidate \/ BeginStep PROVE x \in candidates'
  <2>1. linked' = linked /\ UNCHANGED <<inv, nSequenceId, tip>> /\ candidates' = candidates
    BY <1>6 DEF TakeCandidate, BeginStep, blockData
  <2>2. abc'.pc \in {"inner", "step"} /\ abc'.starting = abc.starting
    BY <1>0, <1>6, Zenon DEF TakeCandidate, BeginStep, TypeOK, Calls
  <2> QED BY <1>1, <2>1, <2>2 DEF Searching
<1>7. ASSUME NothingToDo PROVE x \in candidates'
  <2>1. linked' = linked /\ UNCHANGED <<inv, nSequenceId, tip>> /\ candidates' = candidates
    BY <1>7 DEF NothingToDo, blockData
  <2>2. Searching
    <3>1. abc.pc = "inner" BY <1>7, Zenon DEF NothingToDo
    <3> QED BY <3>1 DEF Searching
  <2>3. ~Worse(tip, abc.starting) /\ abc.starting \in Blocks BY <1>7, <2>2, FinishFacts, SearchFacts, Zenon
  <2>4. ~Worse(x, tip) /\ x \in Blocks BY <1>a, <2>1 DEF Worse
  <2>5. ~Worse(x, abc.starting) BY <1>a, <2>3, <2>4, WorkOrder
  <2> QED BY <1>c, <2>1, <2>4, <2>5, Zenon
<1>8. ASSUME DropCandidate PROVE x \in candidates'
  <2>1. linked' = linked /\ UNCHANGED <<inv, nSequenceId, tip, abc>> BY <1>8 DEF DropCandidate, blockData
  <2>2. x \in candidates BY <1>c, <2>1 DEF Worse, Searching
  <2>3. PICK c \in candidates : \E t \in OffChain(c) \cap Failed :
          candidates' = candidates \ ((Ancestors(c) \ Ancestors(t)) \cup {t})
    BY <1>8 DEF DropCandidate
  <2>4. PICK t \in OffChain(c) \cap Failed : candidates' = candidates \ ((Ancestors(c) \ Ancestors(t)) \cup {t})
    BY <2>3
  <2>5. c \in Blocks /\ t \in Ancestors(c) /\ HasInvalid(t) BY <1>0, BaseFacts DEF OffChain, Caused
  <2>6. ~HasInvalid(x) /\ x \in Blocks BY <1>a, <1>b, <2>1 DEF Viable
  <2>7. t \notin Ancestors(x)
    <3>1. t \in Ancestors(x) => Ancestors(t) \subseteq Ancestors(x) BY <2>6, Tree
    <3> QED BY <2>5, <2>6, <3>1 DEF HasInvalid
  <2>8. x \notin Ancestors(c) \ Ancestors(t) BY <2>5, <2>7, Tree
  <2>9. x # t BY <2>6, <2>7, Tree
  <2> QED BY <2>2, <2>4, <2>8, <2>9
<1>9. ASSUME DisconnectTip PROVE x \in candidates'
  <2>1. linked' = linked /\ UNCHANGED <<inv, nSequenceId>> /\ candidates' = candidates
    BY <1>9, Zenon DEF DisconnectTip, blockData
  <2>2. abc' = abc /\ ~Worse(abc.starting, tip) /\ Searching BY <1>9, RewindFacts, Zenon DEF Searching
  <2>3. ~Worse(x, abc.starting) /\ x \in Blocks /\ abc.starting \in Blocks
    BY <1>a, <2>1, <2>2, SearchFacts DEF Worse, Searching
  <2>4. ~Worse(x, tip) BY <1>a, <2>2, <2>3, WorkOrder
  <2> QED BY <1>c, <2>1, <2>3, <2>4, Zenon
<1>10. ASSUME ConnectTip PROVE x \in candidates'
  <2>1. /\ linked' = linked /\ UNCHANGED <<inv, nSequenceId>>
        /\ candidates' = PruneBlockIndexCandidates(candidates, nSequenceId, tip')
    BY <1>10, Zenon DEF ConnectTip, blockData
  <2>2. Worse(tip, tip') /\ tip' \in Blocks /\ Searching BY <1>10, AdvanceFacts, Zenon DEF Searching
  <2>3. ~Worse(x, tip') /\ x \in Blocks /\ abc.starting \in Blocks
    BY <1>a, <2>1, <2>2, SearchFacts, Zenon DEF Worse
  <2>4. ~Worse(x, tip) BY <1>a, <2>2, <2>3, WorkOrder, Zenon
  <2>5. ~Worse(x, abc.starting)
    <3>1. CASE ~Worse(tip', abc.starting) BY <1>a, <2>2, <2>3, <3>1, WorkOrder, Zenon
    <3>2. CASE Worse(tip', abc.starting)
      <4>1. Searching' /\ abc'.starting = abc.starting
        BY <1>10, <2>2, <3>2, AdvanceFacts, Zenon DEF Searching
      <4> QED BY <2>1, <4>1, Zenon DEF Worse
    <3> QED BY <3>1, <3>2, Zenon
  <2>6. x \in candidates BY <1>c, <2>1, <2>4, <2>5
  <2> QED BY <2>1, <2>3, <2>6, Zenon DEF PruneBlockIndexCandidates, Worse
<1>11. ASSUME ConnectTipFails PROVE x \in candidates'
  <2>1. /\ linked' = linked /\ UNCHANGED <<inv, nSequenceId, tip>>
        /\ candidates' = candidates \ {NextToConnect} /\ NextToConnect \in failedValid'
    BY <1>11 DEF ConnectTipFails, blockData
  <2>2. Searching BY <1>11 DEF ConnectTipFails, Searching
  <2>3. ~Worse(x, tip) /\ x \in Blocks /\ abc.starting \in Blocks
    BY <1>a, <2>1, <2>2, SearchFacts DEF Worse
  <2>4. ~Worse(x, abc.starting)
    <3>1. CASE ~Worse(tip, abc.starting) BY <1>a, <2>3, <3>1, WorkOrder, Zenon
    <3>2. CASE Worse(tip, abc.starting)
      <4>1. Searching' /\ abc'.starting = abc.starting BY <1>11, <3>2, FailFacts, Zenon DEF Searching
      <4> QED BY <2>1, <4>1 DEF Worse
    <3> QED BY <3>1, <3>2
  <2>5. x \in candidates BY <1>c, <2>1, <2>3, <2>4
  <2>6. x # NextToConnect
    <3>1. x \in Ancestors(x) BY <2>3, Tree
    <3> QED BY <2>1, <3>1
  <2> QED BY <2>1, <2>5, <2>6
<1>12. ASSUME (\E b \in Invalidated : BeginInvalidate(b)) \/ InvalidateTip PROVE FALSE
  <2>1. CASE \E b \in Invalidated : BeginInvalidate(b) BY <2>1 DEF BeginInvalidate
  <2>2. CASE InvalidateTip
    <3>1. inv'.pc = inv.pc /\ inv.pc = "walk" BY <1>0, <2>2 DEF InvalidateTip, TypeOK, Walks
    <3> QED BY <3>1
  <2> QED BY <1>12, <2>1, <2>2
<1>13. ASSUME EndInvalidate PROVE x \in candidates'
  <2>1. /\ linked' = linked /\ UNCHANGED <<nSequenceId, tip>> /\ failedValid' = failedValid \cup {inv.mark}
        /\ candidates' = (candidates \ {inv.mark})
                         \cup {c \in linked : c \notin Failed \cup {inv.mark} /\ ~Worse(c, tip)}
    BY <1>13 DEF EndInvalidate, blockData
  <2>2. x \in linked /\ ~Worse(x, tip) BY <2>1 DEF Worse
  <2>3. x \notin Failed BY <1>0, <1>b, <2>2 DEF Caused, Viable
  <2>4. x # inv.mark
    <3>1. x \in Ancestors(x) BY <1>a, <2>2, Tree
    <3> QED BY <2>1, <3>1
  <2> QED BY <2>1, <2>2, <2>3, <2>4
<1>14. \/ Arrival \/ Accepts \/ Prefers \/ StartActivate \/ Activate
       \/ (\E b \in Invalidated : BeginInvalidate(b)) \/ InvalidateTip \/ EndInvalidate
  BY Kinds
<1> QED BY <1>2, <1>3, <1>4, <1>5, <1>6, <1>7, <1>8, <1>9, <1>10, <1>11, <1>12, <1>13, <1>14, Zenon
        DEF Accepts, Prefers, Activate

---------------------------------------------------------------------------
\* The tip of the start of the search cannot be found invalid during it: it was connected once,
\* and what FindMostWorkChain marks is above a block marked already.
LEMMA FallbackStep == ASSUME Base, Calm, Next, Undisturbed' PROVE Fallback'
<1>0. TypeOK /\ Closed /\ Progress /\ Valid /\ Caused /\ Complete /\ Fallback BY DEF Base, Calm
<1>a. tip \in Blocks /\ linked \subseteq Blocks /\ nSequenceId \in [Blocks -> Int] /\ abc \in Calls
  BY <1>0, BaseFacts DEF TypeOK
<1>b. /\ abc.pc = "inner" => ~Worse(abc.starting, tip)
      /\ Searching => /\ Ancestors(abc.starting) \cap Failed = {}
                      /\ Ancestors(abc.starting) \subseteq scriptsValid
                      /\ abc.most # NoBlock => ~Worse(abc.most, abc.starting)
  BY <1>0 DEF Fallback
<1>1. ASSUME UNCHANGED <<abc, tip>>, ~Searching PROVE Fallback'
  BY <1>0, <1>1, Zenon DEF Fallback, Searching
<1>2. ASSUME ~Searching', abc'.pc = "outer" => abc'.most = NoBlock PROVE Fallback'
  BY <1>2 DEF Fallback, Searching
<1>3. ASSUME Arrival \/ Accepts \/ Prefers PROVE Fallback'
  <2>1. UNCHANGED <<abc, tip>>
    BY <1>3, Zenon DEF Arrival, Accepts, Prefers, AcceptBlock, PreciousBlock
  <2>2. CsMainFree BY <1>3, Zenon DEF Arrival, Accepts, Prefers, AcceptBlock, Acceptable, PreciousBlock
  <2> QED BY <1>1, <2>1, <2>2 DEF CsMainFree, Searching
<1>4. ASSUME StartActivate PROVE Fallback'
  <2>1. abc'.pc = "outer" /\ abc'.most = NoBlock BY <1>4 DEF StartActivate, IdleABC
  <2> QED BY <1>2, <2>1 DEF Searching
<1>5. ASSUME (\E b \in Invalidated : BeginInvalidate(b)) \/ InvalidateTip \/ EndInvalidate PROVE Fallback'
  <2>1. abc'.pc = "idle"
    <3>1. CASE \E b \in Invalidated : BeginInvalidate(b) BY <3>1 DEF BeginInvalidate, ChainstateMutexFree
    <3>2. CASE InvalidateTip BY <3>2, InvalidateFacts, Zenon DEF InvalidateTip
    <3>3. CASE EndInvalidate BY <1>0, <3>3, Zenon DEF EndInvalidate, Progress
    <3> QED BY <1>5, <3>1, <3>2, <3>3
  <2> QED BY <1>2, <2>1 DEF Searching
<1>6. ASSUME LockCsMain PROVE Fallback'
  <2>1. /\ abc'.pc = "inner" /\ abc'.starting = tip /\ abc'.most = abc.most /\ abc.pc = "outer"
        /\ UNCHANGED <<failedValid, failedChild, scriptsValid, tip, nSequenceId>>
    BY <1>a, <1>6 DEF LockCsMain, Calls, flags
  <2>2. Ancestors(tip) \cap Failed = {} /\ Ancestors(tip) \subseteq scriptsValid
    BY <1>0 DEF Valid, ChainValid
  <2>3. ~Worse(tip, tip) BY <1>a, WorkOrder
  <2>4. ASSUME abc.most # NoBlock PROVE ~Worse(abc.most, tip)
    <3>1. abc.most \in Blocks /\ tip \in Ancestors(abc.most) /\ tip # abc.most
      BY <1>0, <1>a, <2>1, <2>4, Zenon DEF Fallback, Progress
    <3>2. Worse(tip, abc.most) BY <1>a, <3>1, WorkOrder
    <3> QED BY <1>a, <3>1, <3>2, WorkOrder, Zenon
  <2> QED BY <2>1, <2>2, <2>3, <2>4, Zenon DEF Fallback, Searching, Failed, Worse
<1>7. ASSUME NothingToDo PROVE Fallback'
  BY <1>2, <1>7, FinishFacts, Zenon DEF Searching
<1>8. ASSUME TakeCandidate PROVE Fallback'
  <2>1. PICK c \in candidates : Best(c) /\ abc' = [abc EXCEPT !.most = c] BY <1>8 DEF TakeCandidate
  <2>2. /\ abc.pc = "inner" /\ Searching /\ UNCHANGED <<failedValid, failedChild, scriptsValid, tip, nSequenceId>>
    BY <1>8 DEF TakeCandidate, Searching, flags
  <2>3. abc'.pc = "inner" /\ abc'.most = c /\ abc'.starting = abc.starting BY <1>a, <2>1, <2>2 DEF Calls
  <2>4. abc.starting \in candidates /\ abc.starting \in Blocks /\ c \in Blocks
    BY <1>0, <2>2, BaseFacts, SearchFacts
  <2>5. abc.starting = c \/ Worse(abc.starting, c) BY <2>1, <2>4 DEF Best
  <2>6. ~Worse(c, abc.starting) BY <1>a, <2>4, <2>5, WorkOrder, Zenon
  <2> QED BY <1>b, <2>2, <2>3, <2>6, Zenon DEF Fallback, Searching, Failed, Worse
<1>9. ASSUME DropCandidate PROVE Fallback'
  <2>1. PICK c \in candidates : \E t \in OffChain(c) \cap Failed :
          failedChild' = failedChild \cup (Ancestors(c) \ Ancestors(t))
    BY <1>9 DEF DropCandidate
  <2>2. PICK t \in OffChain(c) \cap Failed : failedChild' = failedChild \cup (Ancestors(c) \ Ancestors(t))
    BY <2>1
  <2>3. c \in Blocks /\ t \in Ancestors(c) /\ t \in Failed BY <1>0, BaseFacts DEF OffChain
  <2>4. /\ UNCHANGED <<failedValid, tip, scriptsValid, abc, nSequenceId>> /\ abc.pc = "inner" /\ Searching
        /\ abc.most = NoBlock
    BY <1>9 DEF DropCandidate, Searching
  <2>5. abc.starting \in Blocks BY <2>4, SearchFacts
  <2>6. Ancestors(abc.starting) \cap (Ancestors(c) \ Ancestors(t)) = {}
    BY <1>b, <2>3, <2>4, <2>5, AboveFailed
  <2>7. Ancestors(abc.starting) \cap Failed' = {} BY <1>b, <2>2, <2>4, <2>6, Zenon DEF Failed
  <2> QED BY <1>b, <2>4, <2>7, Zenon DEF Fallback, Searching, Worse
<1>10. ASSUME BeginStep PROVE Fallback'
  <2>1. /\ abc'.pc = "step" /\ abc.pc = "inner" /\ abc'.most = abc.most /\ abc'.starting = abc.starting
        /\ UNCHANGED <<failedValid, failedChild, scriptsValid, tip, nSequenceId>>
    BY <1>a, <1>10, Zenon DEF BeginStep, Calls, flags
  <2> QED BY <1>b, <2>1 DEF Fallback, Searching, Failed, Worse
<1>11. ASSUME DisconnectTip PROVE Fallback'
  <2>1. /\ abc' = abc /\ ~Worse(abc.starting, tip) /\ Worse(tip', tip) /\ tip' \in Blocks /\ abc.pc = "step"
    BY <1>11, RewindFacts
  <2>2. Searching /\ abc.starting \in Blocks BY <2>1, SearchFacts DEF Searching
  <2>3. ~Worse(abc.starting, tip') BY <1>a, <2>1, <2>2, WorkOrder
  <2>4. UNCHANGED <<failedValid, failedChild, scriptsValid, nSequenceId>> BY <1>11 DEF DisconnectTip, flags
  <2> QED BY <1>b, <2>1, <2>2, <2>3, <2>4, Zenon DEF Fallback, Searching, Failed, Worse
<1>12. ASSUME ConnectTip PROVE Fallback'
  <2>1. /\ UNCHANGED <<failedValid, failedChild, nSequenceId>> /\ scriptsValid \subseteq scriptsValid'
    BY <1>12, Zenon DEF ConnectTip, flags
  <2>2. Searching BY <1>12, Zenon DEF ConnectTip, Searching
  <2>3. /\ abc.starting \in Blocks /\ tip' \in Blocks /\ tip' \in Ancestors(abc.most) /\ abc.pc = "step"
        /\ abc.most # NoBlock
    BY <1>12, <2>2, AdvanceFacts, SearchFacts, Zenon
  <2>a. /\ Ancestors(abc.starting) \cap Failed' = {} /\ Ancestors(abc.starting) \subseteq scriptsValid'
        /\ ~WorseBy(nSequenceId', abc.most, abc.starting)
    <3>1. Failed' = Failed BY <2>1, Zenon DEF Failed
    <3>2. ~WorseBy(nSequenceId', abc.most, abc.starting) BY <1>b, <2>1, <2>2, <2>3, Zenon DEF Worse
    <3> QED BY <1>b, <2>1, <2>2, <3>1, <3>2
  <2>4. CASE abc' = abc
    <3>1. abc'.pc = "step" /\ abc'.most = abc.most /\ abc'.starting = abc.starting BY <2>3, <2>4
    <3> QED BY <2>3, <2>a, <3>1 DEF Fallback, Searching, Worse
  <2>5. CASE abc'.pc = "inner" /\ Worse(tip', abc.starting) /\ abc'.most = abc.most /\ abc'.starting = abc.starting
    <3>1. ~Worse(abc.starting, tip') BY <1>a, <2>3, <2>5, WorkOrder
    <3>2. ~WorseBy(nSequenceId', abc.starting, tip') BY <2>1, <3>1, Zenon DEF Worse
    <3> QED BY <2>5, <2>a, <3>2, Zenon DEF Fallback, Searching, Worse
  <2>6. CASE abc'.pc = "outer" /\ abc'.most = abc.most /\ abc.most # tip'
    BY <2>3, <2>6 DEF Fallback, Searching
  <2>7. CASE abc'.pc = "idle" BY <1>2, <2>7 DEF Searching
  <2> QED BY <1>12, <2>4, <2>5, <2>6, <2>7, AdvanceFacts, Zenon
<1>13. ASSUME ConnectTipFails PROVE Fallback'
  <2>1. /\ failedValid' = failedValid \cup {NextToConnect} /\ NextToConnect \in BadConnect
        /\ UNCHANGED <<failedChild, scriptsValid, tip, nSequenceId>>
    BY <1>13 DEF ConnectTipFails
  <2>2. Searching BY <1>13 DEF ConnectTipFails, Searching
  <2>3. abc.starting \in Blocks BY <2>2, SearchFacts
  <2>4. NextToConnect \notin Ancestors(abc.starting) BY <1>0, <1>b, <2>1, <2>2 DEF Valid
  <2>5. Ancestors(abc.starting) \cap Failed' = {} BY <1>b, <2>1, <2>2, <2>4 DEF Failed
  <2>6. CASE abc'.pc = "inner" /\ Worse(tip, abc.starting) /\ abc'.starting = abc.starting
    <3>1. ~Worse(abc.starting, tip) /\ abc'.most = NoBlock BY <1>13, <1>a, <2>3, <2>6, FailFacts, WorkOrder
    <3> QED BY <1>b, <2>1, <2>2, <2>5, <2>6, <3>1, Zenon DEF Fallback, Searching, Worse
  <2>7. CASE abc'.pc = "outer" BY <1>2, <1>13, <2>7, FailFacts DEF Searching
  <2> QED BY <1>13, <2>6, <2>7, FailFacts
<1>14. \/ Arrival \/ Accepts \/ Prefers \/ StartActivate \/ Activate
       \/ (\E b \in Invalidated : BeginInvalidate(b)) \/ InvalidateTip \/ EndInvalidate
  BY Kinds
<1> QED BY <1>3, <1>4, <1>5, <1>6, <1>7, <1>8, <1>9, <1>10, <1>11, <1>12, <1>13, <1>14, Zenon DEF Activate

\* FindMostWorkChain's target is the best there is, and whoever adds a better one has
\* ActivateBestChain called again.
LEMMA AimStep == ASSUME Base, Calm, Next, Undisturbed' PROVE Aim'
<1>0. TypeOK /\ Closed /\ Progress /\ Valid /\ Complete /\ Fallback /\ Aim BY DEF Base, Calm
<1>a. /\ tip \in Blocks /\ linked \subseteq Blocks /\ nSequenceId \in [Blocks -> Int] /\ abc \in Calls
      /\ failedValid \subseteq failedValid'
  BY <1>0, BaseFacts, Kinds DEF TypeOK
<1>b. ASSUME linked' = linked, nSequenceId' = nSequenceId, NEW t, \A b \in linked : Viable(b) => ~Worse(t, b)
      PROVE  \A b \in linked' : Viable(b)' => ~WorseBy(nSequenceId', t, b)
  BY <1>a, <1>b DEF Viable, HasInvalid, Worse
<1>1. ASSUME wanted' PROVE Aim' BY <1>1 DEF Aim
<1>2. ASSUME wanted' = wanted, linked' = linked, nSequenceId' = nSequenceId,
             ~wanted /\ abc'.pc # "idle" /\ abc'.most # NoBlock => abc.pc # "idle" /\ abc'.most = abc.most,
             ~wanted /\ abc'.pc = "idle" /\ inv'.pc = "idle" =>
               \/ abc.pc = "idle" /\ inv.pc = "idle" /\ tip' = tip
               \/ abc.pc # "idle" /\ abc.most # NoBlock /\ tip' = abc.most
      PROVE  Aim'
  <2>1. ASSUME ~wanted, abc'.pc # "idle", abc'.most # NoBlock
        PROVE  \A b \in linked' : Viable(b)' => ~WorseBy(nSequenceId', abc'.most, b)
    <3>1. \A b \in linked : Viable(b) => ~Worse(abc.most, b) /\ abc'.most = abc.most
      BY <1>0, <1>2, <2>1, Zenon DEF Aim
    <3> QED BY <1>2, <1>b, <2>1, <3>1, Zenon
  <2>2. ASSUME ~wanted, abc'.pc = "idle", inv'.pc = "idle"
        PROVE  \A b \in linked' : Viable(b)' => ~WorseBy(nSequenceId', tip', b)
    <3>1. CASE abc.pc = "idle" /\ inv.pc = "idle" /\ tip' = tip
      <4>1. \A b \in linked : Viable(b) => ~Worse(tip, b) BY <1>0, <2>2, <3>1, Zenon DEF Aim, ChainstateMutexFree
      <4> QED BY <1>2, <1>b, <3>1, <4>1, Zenon
    <3>2. CASE abc.pc # "idle" /\ abc.most # NoBlock /\ tip' = abc.most
      <4>1. \A b \in linked : Viable(b) => ~Worse(abc.most, b) BY <1>0, <2>2, <3>2, Zenon DEF Aim
      <4> QED BY <1>2, <1>b, <3>2, <4>1, Zenon
    <3> QED BY <1>2, <2>2, <3>1, <3>2, Zenon
  <2> QED BY <1>2, <2>1, <2>2, Zenon DEF Aim, ChainstateMutexFree, Worse
<1>3. ASSUME Arrival PROVE Aim'
  <2>1. UNCHANGED <<linked, nSequenceId, tip, abc, inv>> /\ (UNCHANGED wanted \/ wanted') BY <1>3 DEF Arrival
  <2> QED BY <1>1, <1>2, <2>1
<1>4. ASSUME Accepts \/ Prefers \/ EndInvalidate PROVE Aim'
  <2>1. wanted' BY <1>4, Zenon DEF Accepts, AcceptBlock, Prefers, PreciousBlock, EndInvalidate
  <2> QED BY <1>1, <2>1, Zenon
<1>5. ASSUME StartActivate PROVE Aim'
  <2>1. abc'.pc = "outer" /\ abc'.most = NoBlock BY <1>5 DEF StartActivate, IdleABC
  <2> QED BY <2>1 DEF Aim, ChainstateMutexFree
<1>6. ASSUME (\E b \in Invalidated : BeginInvalidate(b)) \/ InvalidateTip PROVE Aim'
  <2>1. inv'.pc = "walk" /\ abc'.pc = "idle"
    <3>1. CASE \E b \in Invalidated : BeginInvalidate(b) BY <3>1 DEF BeginInvalidate, ChainstateMutexFree
    <3>2. CASE InvalidateTip BY <1>0, <3>2, InvalidateFacts, Zenon DEF InvalidateTip, TypeOK, Walks
    <3> QED BY <1>6, <3>1, <3>2
  <2> QED BY <2>1 DEF Aim, ChainstateMutexFree
<1>7. ASSUME LockCsMain \/ BeginStep PROVE Aim'
  <2>1. /\ UNCHANGED <<linked, nSequenceId, wanted>> /\ abc'.most = abc.most
        /\ abc.pc # "idle" /\ abc'.pc # "idle"
    BY <1>7, <1>a, Zenon DEF LockCsMain, BeginStep, Calls, blockData
  <2> QED BY <1>2, <2>1
<1>8. ASSUME NothingToDo PROVE Aim'
  <2>1. UNCHANGED <<linked, nSequenceId, wanted, tip>> /\ abc.pc = "inner" BY <1>8 DEF NothingToDo, blockData
  <2>2. abc.most = tip /\ abc.most # NoBlock /\ abc'.pc = "idle" BY <1>8, FinishFacts
  <2> QED BY <1>2, <2>1, <2>2
<1>9. ASSUME TakeCandidate PROVE Aim'
  <2>1. PICK c \in candidates : Best(c) /\ abc' = [abc EXCEPT !.most = c] BY <1>9 DEF TakeCandidate
  <2>2. abc.pc = "inner" /\ Searching /\ UNCHANGED <<linked, nSequenceId, wanted>>
    BY <1>9 DEF TakeCandidate, Searching, blockData
  <2>3. abc'.pc = "inner" /\ abc'.most = c BY <1>a, <2>1, <2>2 DEF Calls
  <2>4. /\ abc.starting \in candidates /\ abc.starting \in Blocks /\ c \in Blocks /\ inv.pc = "idle"
        /\ ~Worse(abc.starting, tip)
    BY <1>0, <2>2, BaseFacts, SearchFacts DEF Fallback
  <2>5. abc.starting = c \/ Worse(abc.starting, c) BY <2>1, <2>4 DEF Best
  <2>6. ASSUME NEW b \in linked, Viable(b), Worse(c, b) PROVE FALSE
    <3>1. b \in Blocks BY <1>a
    <3>2. ~Worse(b, c) BY <1>a, <2>4, <2>6, <3>1, WorkOrder
    <3>3. ~Worse(c, abc.starting) BY <1>a, <2>4, <2>5, WorkOrder
    <3>4. ~Worse(b, abc.starting) BY <1>a, <2>4, <3>1, <3>2, <3>3, WorkOrder
    <3>5. ~Worse(b, tip) BY <1>a, <2>4, <3>1, <3>4, WorkOrder
    <3>6. b \in candidates BY <1>0, <2>4, <2>6, <3>4, <3>5 DEF Complete
    <3>7. b = c \/ Worse(b, c) BY <2>1, <3>6 DEF Best
    <3> QED BY <1>a, <2>6, <3>1, <3>2, <3>7, WorkOrder
  <2>7. \A b \in linked' : Viable(b)' => ~WorseBy(nSequenceId', c, b) BY <1>b, <2>2, <2>6
  <2> QED BY <2>3, <2>7 DEF Aim, ChainstateMutexFree, Worse
<1>10. ASSUME DropCandidate \/ DisconnectTip PROVE Aim'
  <2>1. abc' = abc /\ abc.pc # "idle"
    <3>1. CASE DropCandidate BY <3>1 DEF DropCandidate
    <3>2. CASE DisconnectTip BY <3>2, RewindFacts
    <3> QED BY <1>10, <3>1, <3>2
  <2>2. UNCHANGED <<linked, nSequenceId, wanted>> BY <1>10 DEF DropCandidate, DisconnectTip, blockData
  <2> QED BY <1>2, <2>1, <2>2
<1>11. ASSUME ConnectTip PROVE Aim'
  <2>1. UNCHANGED <<linked, nSequenceId, wanted>> BY <1>11, Zenon DEF ConnectTip, blockData
  <2>2. abc.pc = "step" /\ abc.most # NoBlock BY <1>11, AdvanceFacts
  <2>3. abc'.pc = "idle" => abc.most = tip' BY <1>11, <2>2, AdvanceFacts
  <2>4. abc'.pc # "idle" => abc'.most = abc.most BY <1>11, AdvanceFacts
  <2> QED BY <1>2, <2>1, <2>2, <2>3, <2>4, Zenon
<1>12. ASSUME ConnectTipFails PROVE Aim'
  <2>1. abc'.most = NoBlock /\ abc'.pc # "idle" BY <1>12, FailFacts
  <2> QED BY <2>1 DEF Aim, ChainstateMutexFree
<1>13. \/ Arrival \/ Accepts \/ Prefers \/ StartActivate \/ Activate
       \/ (\E b \in Invalidated : BeginInvalidate(b)) \/ InvalidateTip \/ EndInvalidate
  BY Kinds
<1> QED BY <1>3, <1>4, <1>5, <1>6, <1>7, <1>8, <1>9, <1>10, <1>11, <1>12, <1>13, Zenon DEF Activate

---------------------------------------------------------------------------
\* The genesis block is connected and the only candidate.
LEMMA CalmInit == ASSUME Init PROVE Calm
<1>0. abc.pc = "idle" /\ abc.most = NoBlock BY RecordFacts DEF Init
<1>1. Caused BY DEF Init, Caused, Failed
<1>2. Links BY DEF Init, Links
<1>3. Complete BY DEF Init, Complete
<1>4. Fallback BY <1>0 DEF Fallback, Searching
<1>5. Aim
  <2>1. ~Worse(Genesis, Genesis)
    <3>1. nSequenceId \in [Blocks -> Int] /\ Genesis \in Blocks BY ChainStateAssumption DEF Init
    <3> QED BY <3>1, WorkOrder
  <2> QED BY <1>0, <2>1 DEF Init, Aim
<1> QED BY <1>1, <1>2, <1>3, <1>4, <1>5, Zenon DEF Calm

\* The whole invariant is inductive.
LEMMA InvStep == ASSUME Inv, [Next]_vars PROVE Inv'
<1>1. Base' BY BaseStep DEF Inv
<1>2. CASE Next
  <2>1. ASSUME Undisturbed' PROVE Calm'
    <3>1. Base BY DEF Inv
    <3>2. Undisturbed BY <1>2, <2>1, <3>1, Kinds
    <3>3. Calm BY <3>2 DEF Inv
    <3> QED BY <1>2, <2>1, <3>1, <3>3, CausedStep, LinksStep, CompleteStep, FallbackStep, AimStep DEF Calm
  <2> QED BY <1>1, <2>1 DEF Inv
<1>3. CASE UNCHANGED vars
  <2>1. UNCHANGED <<index, haveData, linked, unlinked, failedValid, failedChild, scriptsValid, nSequenceId,
                    candidates, tip, abc, inv, wanted, reconsidered, demoted>>
    BY <1>3 DEF vars, blockData, flags, precious, history
  <2>2. Undisturbed' = Undisturbed BY <2>1 DEF Undisturbed
  <2>3. Caused' = Caused BY <2>1 DEF Caused, HasInvalid, Failed
  <2>4. Links' = Links BY <2>1 DEF Links, HasInvalid
  <2>5. Complete' = Complete BY <2>1, Zenon DEF Complete, Viable, HasInvalid, Searching, Worse
  <2>6. Fallback' = Fallback BY <2>1, Zenon DEF Fallback, Searching, Failed, Worse
  <2>7. Aim' = Aim BY <2>1 DEF Aim, ChainstateMutexFree, Viable, HasInvalid, Worse
  <2> QED BY <1>1, <2>2, <2>3, <2>4, <2>5, <2>6, <2>7, Zenon DEF Inv, Calm
<1> QED BY <1>2, <1>3

\* The candidates, the target and the tip of ActivateBestChain stay in step with the index as Inv
\* says, in every behaviour.
THEOREM Inductive == Spec => []Inv
<1>1. Init => Inv BY BaseInit, CalmInit DEF Inv
<1>2. Inv /\ [Next]_vars => Inv' BY InvStep
<1> QED BY <1>1, <1>2, PTL DEF Spec

\* What CheckBlockIndex asserts of the links, the failure flags and the candidates holds whenever
\* cs_main is free, for every tree of blocks and whatever arrives, fails or is invalidated: all of
\* it until a disturbance, and afterwards that candidates are complete chains no worse than the
\* tip and that m_failed_blocks holds failed blocks.
THEOREM IndexConsistent == Spec => []CheckBlockIndex
<1>1. ASSUME Inv PROVE CheckBlockIndex
  <2>0. Base /\ TypeOK /\ Closed /\ Valid /\ NoneWorse BY <1>1 DEF Inv, Base
  <2>1. CandidatesSound /\ FailedBlocksMarked
    BY <2>0 DEF CandidatesSound, TypeOK, NoneWorse, Valid
  <2>2. ASSUME Undisturbed PROVE LinkedExact /\ UnlinkedExact /\ FailureHasCause /\ CandidatesComplete
    <3>0. Caused /\ Links /\ Complete BY <1>1, <2>2 DEF Inv, Calm
    <3>1. LinkedExact BY <2>0, <3>0 DEF LinkedExact, Links, Closed, TypeOK
    <3>2. UnlinkedExact BY <2>0, <3>0 DEF UnlinkedExact, Links, TypeOK
    <3>3. FailureHasCause BY <3>0 DEF FailureHasCause, Caused
    <3>4. CsMainFree => ~Searching BY DEF CsMainFree, Searching
    <3>5. CandidatesComplete BY <3>0, <3>4 DEF CandidatesComplete, Complete
    <3> QED BY <3>1, <3>2, <3>3, <3>5
  <2> QED BY <2>1, <2>2 DEF CheckBlockIndex
<1> QED BY <1>1, Inductive, PTL

\* When no call of ActivateBestChain is running or due, the tip is the best complete chain
\* without an invalid block, until a disturbance.
THEOREM TipIsBest == Spec => []QuietTipBest
<1>1. Inv => QuietTipBest BY DEF Inv, Calm, Aim, QuietTipBest, TipBest
<1> QED BY <1>1, Inductive, PTL

\* ActivateBestChain lets go of cs_main only with a tip that is no worse than the one it found,
\* even when a reorganisation fails half-way, until a disturbance.
THEOREM ForwardProgress == Spec => NoRegress
<1> DEFINE Kept == Undisturbed /\ abc.pc \in {"inner", "step"} /\ abc'.pc \in {"outer", "idle"}
                     => ~WorseBy(nSequenceId', tip', abc.starting)
<1>1. ASSUME Inv, Next, Undisturbed, Searching, abc'.pc \in {"outer", "idle"}
      PROVE  ~WorseBy(nSequenceId', tip', abc.starting)
  <2>0. Base /\ Calm BY <1>1 DEF Inv
  <2>a. ~CsMainFree /\ abc.pc # "idle" BY <1>1 DEF Searching, CsMainFree
  <2>1. CASE NothingToDo
    <3>1. UNCHANGED <<tip, nSequenceId>> BY <2>1 DEF NothingToDo
    <3> QED BY <2>0, <2>1, <3>1, FinishFacts DEF Worse
  <2>2. CASE DisconnectTip
    <3>1. abc'.pc = "step" BY <2>0, <2>2, RewindFacts
    <3> QED BY <1>1, <3>1
  <2>3. CASE ConnectTip
    <3>1. abc.pc = "step" /\ nSequenceId' = nSequenceId BY <2>0, <2>3, AdvanceFacts
    <3>2. ~Worse(tip', abc.starting) BY <1>1, <2>0, <2>3, <3>1, AdvanceFacts
    <3> QED BY <3>1, <3>2 DEF Worse
  <2>4. CASE ConnectTipFails
    <3>1. UNCHANGED <<tip, nSequenceId>> BY <2>4 DEF ConnectTipFails
    <3>2. ~Worse(tip, abc.starting) BY <1>1, <2>0, <2>4, FailFacts
    <3> QED BY <3>1, <3>2 DEF Worse
  <2>5. CASE TakeCandidate \/ BeginStep
    <3>1. abc \in Calls BY <2>0 DEF Base, TypeOK
    <3>2. abc'.pc \in {"inner", "step"} BY <2>5, <3>1, Zenon DEF TakeCandidate, BeginStep, Calls
    <3> QED BY <1>1, <3>2
  <2>6. CASE abc' = abc BY <1>1, <2>6 DEF Searching
  <2>7. ~StartActivate /\ ~LockCsMain
    BY <1>1 DEF StartActivate, LockCsMain, ChainstateMutexFree, Searching
  <2>8. \/ abc' = abc \/ TakeCandidate \/ BeginStep \/ NothingToDo \/ DisconnectTip \/ ConnectTip \/ ConnectTipFails
    BY <1>1, <2>7, Zenon DEF Next, Activate, RejectHeader, AddHeader, RejectBlock, AcceptBlock, IgnoreBlock,
       DropCandidate, BeginInvalidate, InvalidateTip, EndInvalidate, PreciousBlock, ResetBlockFailureFlags
  <2> QED BY <2>1, <2>2, <2>3, <2>4, <2>5, <2>6, <2>8, Zenon
<1>2. Inv /\ [Next]_vars => [Kept]_vars BY <1>1 DEF Searching
<1> QED BY <1>2, Inductive, PTL DEF Spec, NoRegress
=============================================================================
