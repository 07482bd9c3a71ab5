-------------------------- MODULE BaseIndexProofs --------------------------
(***************************************************************************)
(* Proofs about BaseIndex, for every block tree, every backlog of          *)
(* notifications and any number of failures and restarts, as long as none  *)
(* falls between ThreadSync's commit of a block and its WriteBlock: what   *)
(* the index calls indexed is, and a call that waited for the index finds  *)
(* the chain it was called at written.                                     *)
(***************************************************************************)
EXTENDS BaseIndex, WellFoundedInduction, TLAPS

---------------------------------------------------------------------------
(* The inductive invariant. *)
Nodes == Blocks \cup {NullBlock}
Kinds == {"BlockConnected", "ChainStateFlushed", "sync"}
Entries == [kind : Kinds, block : Nodes]
SyncRecords ==
  [pc : {"loop", "flag", "endcommit", "time", "write", "done"}, pindex : Nodes, timed : BOOLEAN]
HandlerRecords == [pc : {"idle", "rewind", "write", "best"}, block : Nodes, from : Nodes]

\* "a" is "m", an ancestor of it, or null.
Below(a, m) == a \in Ancestors(m) \cup {NullBlock}

TypeOK ==
  /\ tip \in Nodes /\ flushedTip \in Nodes /\ m_best_block_index \in Nodes /\ locator \in Nodes /\ caller \in Nodes
  /\ sync \in SyncRecords /\ handler \in HandlerRecords
  /\ queue \in Seq(Entries)
  /\ m_synced \in BOOLEAN

\* Who may work: the notifications once the walk is over.
Turns ==
  /\ m_synced => sync.pc \in {"endcommit", "done"}
  /\ handler.pc # "idle" => m_synced /\ m_best_block_index = pprev(handler.block)

\* What was written before a block is called the best one, or goes on to be.
Has(b) == Expected(b) \subseteq indexed
Written ==
  /\ IndexComplete
  /\ sync.pc = "loop" => Has(sync.pindex)
  /\ sync.pc \in {"time", "write"} => Has(pprev(sync.pindex))
  /\ handler.pc = "rewind" => Has(handler.from)
  /\ handler.pc = "best" => Rows(handler.block) \subseteq indexed

IndexInv == TypeOK /\ Turns /\ Written

\* The queue of notifications.  The block of an entry builds on the block of the one before it,
\* or on an ancestor of that; the last entry among the first n is about t; one that the index,
\* with its best block m, will take leads there unless m has t already.
Conn(q, i) == q[i].kind = "BlockConnected"
NoneIn(q, i, j) == \A k \in i .. j : ~Conn(q, k)
Trail(q) ==
  /\ \A i \in DOMAIN q : Conn(q, i) => q[i].block \in Blocks
  /\ \A i, j \in DOMAIN q :
       i < j /\ Conn(q, i) /\ Conn(q, j) /\ NoneIn(q, i + 1, j - 1) => Below(pprev(q[j].block), q[i].block)
EndsAt(q, n, t) == \A i \in 1 .. n : Conn(q, i) /\ NoneIn(q, i + 1, n) => q[i].block = t
Leads(q, n, m, t) == Below(t, m) \/ \E i \in 1 .. n : Conn(q, i) /\ Below(pprev(q[i].block), m)

\* The block the index is at, once the handler is done.
Current == IF handler.pc = "idle" THEN m_best_block_index ELSE handler.block

Tracks ==
  /\ Trail(queue) /\ EndsAt(queue, Len(queue), tip)
  /\ sync.pc = "flag" => Below(tip, m_best_block_index)
  /\ m_synced /\ stopped = "no" => Leads(queue, Len(queue), Current, tip)

\* A call of BlockUntilSyncedToCurrentChain has one entry in the queue.
Waits ==
  /\ caller = NullBlock => \A i \in DOMAIN queue : queue[i].kind # "sync"
  /\ caller # NullBlock =>
       /\ m_synced
       /\ \E n \in DOMAIN queue :
            /\ \A i \in DOMAIN queue : queue[i].kind = "sync" <=> i = n
            /\ EndsAt(queue, n - 1, caller)
            /\ stopped = "no" => Leads(queue, n - 1, Current, caller)

Inv == IndexInv /\ Tracks /\ Waits

---------------------------------------------------------------------------
(* The tree of blocks. *)
Items == UNION {{b[i] : i \in DOMAIN b} : b \in Blocks}

\* A set of natural numbers has a least element.
LEMMA Least ==
  ASSUME NEW T \in SUBSET Nat, T # {}
  PROVE  \E x \in T : \A y \in T : x <= y
<1> DEFINE R == OpToRel(<, Nat)
<1>1. IsWellFoundedOn(R, Nat) BY NatLessThanWellFounded
<1> HIDE DEF R
<1>2. PICK x \in T : \A y \in T : ~(<<y, x>> \in R) BY <1>1, WFMin, Zenon
<1>3. \A y \in T : y < x => <<y, x>> \in R BY DEF R, OpToRel
<1>4. \A y \in T : ~(y < x) BY <1>2, <1>3, Zenon
<1>5. \A y \in T : x <= y BY <1>4
<1> QED BY <1>5

\* The prefixes of a sequence.
LEMMA PrefixFacts ==
  ASSUME NEW S, NEW b \in Seq(S), NEW n \in 0 .. Len(b)
  PROVE  /\ Len(SubSeq(b, 1, n)) = n
         /\ \A m \in 0 .. n : SubSeq(SubSeq(b, 1, n), 1, m) = SubSeq(b, 1, m)
         /\ SubSeq(b, 1, Len(b)) = b /\ SubSeq(b, 1, 0) = <<>>
<1>0. Len(b) \in Nat OBVIOUS
<1>1. Len(SubSeq(b, 1, n)) = n /\ \A i \in 1 .. n : SubSeq(b, 1, n)[i] = b[i] BY <1>0
<1>2. ASSUME NEW m \in 0 .. n PROVE SubSeq(SubSeq(b, 1, n), 1, m) = SubSeq(b, 1, m)
  <2> DEFINE p == SubSeq(b, 1, n)
  <2>1. SubSeq(p, 1, m) = [i \in 1 .. m |-> p[i]] BY <1>0, <1>1
  <2>2. SubSeq(b, 1, m) = [i \in 1 .. m |-> b[i]] BY <1>0
  <2>3. \A i \in 1 .. m : p[i] = b[i] BY <1>0, <1>1
  <2> QED BY <2>1, <2>2, <2>3
<1>3. SubSeq(b, 1, Len(b)) = b /\ SubSeq(b, 1, 0) = <<>> OBVIOUS
<1> QED BY <1>1, <1>2, <1>3

\* A prefix of a block is a block, or null, and is known by its length.
LEMMA NodeShape ==
  ASSUME NEW b \in Nodes
  PROVE  /\ b \in Seq(Items) /\ Len(b) \in Nat /\ (Len(b) = 0 <=> b = NullBlock) /\ Height(b) = Len(b) - 1
         /\ \A n \in 0 .. Len(b) : /\ SubSeq(b, 1, n) \in Nodes /\ Len(SubSeq(b, 1, n)) = n
                                   /\ \A k \in 0 .. n : SubSeq(SubSeq(b, 1, n), 1, k) = SubSeq(b, 1, k)
         /\ SubSeq(b, 1, Len(b)) = b /\ SubSeq(b, 1, 0) = NullBlock
<1>1. b \in Seq(Items)
  <2>1. <<>> \in Seq(Items) OBVIOUS
  <2>2. Blocks \subseteq Seq(Items) BY IndexAssumption DEF Items
  <2> QED BY <2>1, <2>2, Zenon DEF Nodes, NullBlock
<1>2. Len(b) \in Nat BY <1>1
<1>3. \A n \in 1 .. Len(b) : SubSeq(b, 1, n) \in Blocks
  <2>1. CASE b \in Blocks
    <3>1. Ancestors(b) \subseteq Blocks BY <2>1, IndexAssumption
    <3> QED BY <3>1, Zenon DEF Ancestors
  <2>2. CASE b = NullBlock
    <3>1. Len(b) = 0 BY <2>2 DEF NullBlock
    <3> QED BY <3>1
  <2> QED BY <2>1, <2>2 DEF Nodes
<1>4. SubSeq(b, 1, Len(b)) = b /\ SubSeq(b, 1, 0) = NullBlock
  <2>1. 0 \in 0 .. Len(b) BY <1>2
  <2> QED BY <1>1, <2>1, PrefixFacts DEF NullBlock
<1>5. ASSUME NEW n \in 0 .. Len(b)
      PROVE  /\ SubSeq(b, 1, n) \in Nodes /\ Len(SubSeq(b, 1, n)) = n
             /\ \A k \in 0 .. n : SubSeq(SubSeq(b, 1, n), 1, k) = SubSeq(b, 1, k)
  <2>1. n = 0 \/ n \in 1 .. Len(b) BY <1>2
  <2>2. SubSeq(b, 1, n) \in Nodes BY <1>3, <1>4, <2>1 DEF Nodes
  <2> QED BY <1>1, <2>2, PrefixFacts
<1>6. Len(b) = 0 <=> b = NullBlock
  <2>1. Len(NullBlock) = 0 BY DEF NullBlock
  <2> QED BY <1>4, <2>1
<1> QED BY <1>1, <1>2, <1>4, <1>5, <1>6 DEF Height

\* Ancestry is being a prefix.
LEMMA BelowIs ==
  ASSUME NEW m \in Nodes, NEW a
  PROVE  /\ Below(a, m) => a \in Nodes /\ Len(a) \in 0 .. Len(m) /\ a = SubSeq(m, 1, Len(a))
         /\ Below(a, m) /\ a # NullBlock => a \in Ancestors(m) /\ a \in Blocks
         /\ \A n \in 0 .. Len(m) : Below(SubSeq(m, 1, n), m)
<1>0. Len(m) \in Nat BY NodeShape
<1>1. ASSUME NEW n \in 0 .. Len(m) PROVE Below(SubSeq(m, 1, n), m)
  <2>1. n = 0 \/ n \in 1 .. Len(m) BY <1>0
  <2>2. n = 0 => SubSeq(m, 1, n) = NullBlock BY NodeShape
  <2> QED BY <2>1, <2>2 DEF Below, Ancestors
<1>2. ASSUME Below(a, m) PROVE a \in Nodes /\ Len(a) \in 0 .. Len(m) /\ a = SubSeq(m, 1, Len(a))
  <2>1. PICK n \in 0 .. Len(m) : a = SubSeq(m, 1, n)
    <3>1. CASE a = NullBlock
      <4>1. 0 \in 0 .. Len(m) /\ SubSeq(m, 1, 0) = NullBlock BY <1>0, NodeShape
      <4> QED BY <3>1, <4>1
    <3>2. CASE a \in Ancestors(m)
      <4>1. PICK n \in 1 .. Len(m) : a = SubSeq(m, 1, n) BY <3>2 DEF Ancestors
      <4>2. n \in 0 .. Len(m) BY <1>0
      <4> QED BY <4>1, <4>2
    <3> QED BY <1>2, <3>1, <3>2 DEF Below
  <2>2. a \in Nodes /\ Len(a) = n BY <2>1, NodeShape
  <2> QED BY <2>1, <2>2
<1>3. ASSUME Below(a, m), a # NullBlock PROVE a \in Ancestors(m) /\ a \in Blocks
  BY <1>2, <1>3 DEF Below, Nodes
<1> QED BY <1>1, <1>2, <1>3

\* Ancestry is an order.
LEMMA BelowOrder ==
  ASSUME NEW a \in Nodes, NEW b \in Nodes, NEW c \in Nodes
  PROVE  /\ Below(a, a) /\ Below(NullBlock, a)
         /\ Below(a, b) /\ Below(b, c) => Below(a, c)
<1>1. Below(NullBlock, a) BY DEF Below
<1>2. Below(a, a)
  <2>1. Len(a) \in 0 .. Len(a) /\ SubSeq(a, 1, Len(a)) = a BY NodeShape
  <2> QED BY <2>1, BelowIs, Zenon
<1>3. ASSUME Below(a, b), Below(b, c) PROVE Below(a, c)
  <2> DEFINE n == Len(a)
             k == Len(b)
  <2>1. n \in 0 .. k /\ a = SubSeq(b, 1, n) BY <1>3, BelowIs
  <2>2. k \in 0 .. Len(c) /\ b = SubSeq(c, 1, k) BY <1>3, BelowIs
  <2>3. Len(c) \in Nat BY NodeShape
  <2> HIDE DEF n, k
  <2>4. SubSeq(SubSeq(c, 1, k), 1, n) = SubSeq(c, 1, n) BY <2>1, <2>2, NodeShape
  <2>5. n \in 0 .. Len(c) BY <2>1, <2>2, <2>3
  <2>6. a = SubSeq(c, 1, n) BY <2>1, <2>2, <2>4
  <2> QED BY <2>5, <2>6, BelowIs
<1> QED BY <1>1, <1>2, <1>3

\* pprev.
LEMMA PrevFacts ==
  ASSUME NEW b \in Nodes
  PROVE  /\ pprev(b) \in Nodes /\ Below(pprev(b), b)
         /\ b \in Blocks => Len(b) - 1 \in 0 .. Len(b) /\ Len(pprev(b)) = Len(b) - 1
                            /\ pprev(b) = SubSeq(b, 1, Len(b) - 1)
<1>1. CASE b = NullBlock
  <2>1. Len(b) = 0 BY <1>1, NodeShape
  <2>2. pprev(b) = NullBlock BY <1>1, <2>1 DEF pprev, NullBlock
  <2>3. b \notin Blocks BY <1>1, IndexAssumption
  <2> QED BY <1>1, <2>2, <2>3 DEF Below
<1>2. CASE b # NullBlock
  <2>1. Len(b) \in Nat /\ Len(b) # 0 BY <1>2, NodeShape
  <2>2. Len(b) - 1 \in 0 .. Len(b) BY <2>1
  <2> QED BY <2>2, NodeShape, BelowIs, Zenon DEF pprev
<1> QED BY <1>1, <1>2

\* GetAncestor.
LEMMA AncestorFacts ==
  ASSUME NEW b \in Nodes, NEW h \in Int
  PROVE  LET a == GetAncestor(b, h)
         IN  /\ a \in Nodes /\ Below(a, b)
             /\ a # NullBlock <=> h \in 0 .. Len(b) - 1
             /\ h \in 0 .. Len(b) - 1 => /\ a = SubSeq(b, 1, h + 1) /\ Len(a) = h + 1
                                         /\ a \in Blocks /\ pprev(a) = SubSeq(b, 1, h)
<1> DEFINE a == GetAncestor(b, h)
<1>0. Len(b) \in Nat /\ Height(b) = Len(b) - 1 BY NodeShape
<1>1. CASE h \in 0 .. Len(b) - 1
  <2>1. h + 1 \in 0 .. Len(b) /\ ~(h < 0 \/ h > Len(b) - 1) /\ h \in 0 .. h + 1 /\ h + 1 # 0 BY <1>0, <1>1
  <2>2. a = SubSeq(b, 1, h + 1) BY <1>0, <2>1 DEF GetAncestor
  <2>3. a \in Nodes /\ Len(a) = h + 1 /\ SubSeq(a, 1, h) = SubSeq(b, 1, h) BY <2>1, <2>2, NodeShape
  <2>4. Below(a, b) BY <2>1, <2>2, BelowIs
  <2>5. a # NullBlock BY <2>1, <2>3, NodeShape
  <2>6. a \in Blocks BY <2>3, <2>5 DEF Nodes
  <2>7. Len(a) - 1 = h BY <2>3
  <2>8. pprev(a) = SubSeq(b, 1, h) BY <2>3, <2>7 DEF pprev
  <2> QED BY <1>1, <2>2, <2>3, <2>4, <2>5, <2>6, <2>8
<1>2. CASE h \notin 0 .. Len(b) - 1
  <2>1. h < 0 \/ h > Len(b) - 1 BY <1>0, <1>2
  <2>2. a = NullBlock BY <1>0, <2>1 DEF GetAncestor
  <2> QED BY <1>2, <2>2 DEF Nodes, Below
<1> QED BY <1>1, <1>2

\* What has to be written of a block: its rows, and all that has to be of the block before it.
LEMMA ExpectedFacts ==
  ASSUME NEW a \in Nodes, NEW m \in Nodes
  PROVE  /\ Below(a, m) => Expected(a) \subseteq Expected(m)
         /\ Expected(NullBlock) = {}
         /\ Expected(m) \subseteq Rows(m) \cup Expected(pprev(m))
<1>1. Expected(NullBlock) = {}
  <2>1. Ancestors(NullBlock) = {} BY DEF Ancestors, NullBlock
  <2> QED BY <2>1 DEF Expected
<1>2. ASSUME Below(a, m) PROVE Expected(a) \subseteq Expected(m)
  <2>1. Len(a) \in 0 .. Len(m) /\ a = SubSeq(m, 1, Len(a)) /\ Len(m) \in Nat BY <1>2, BelowIs, NodeShape
  <2>2. ASSUME NEW x \in Ancestors(a) PROVE x \in Ancestors(m)
    <3>1. PICK n \in 1 .. Len(a) : x = SubSeq(a, 1, n) BY DEF Ancestors
    <3>2. n \in 0 .. Len(a) /\ n \in 1 .. Len(m) BY <2>1
    <3>3. SubSeq(SubSeq(m, 1, Len(a)), 1, n) = SubSeq(m, 1, n) BY <2>1, <3>2, NodeShape
    <3>4. x = SubSeq(m, 1, n) BY <2>1, <3>1, <3>3
    <3> QED BY <3>2, <3>4 DEF Ancestors
  <2> QED BY <2>2 DEF Expected
<1>3. Expected(m) \subseteq Rows(m) \cup Expected(pprev(m))
  <2>1. CASE m = NullBlock BY <1>1, <2>1
  <2>2. CASE m # NullBlock
    <3> DEFINE k == Len(m) - 1
               p == pprev(m)
    <3>1. m \in Blocks /\ Len(m) \in Nat BY <2>2, NodeShape DEF Nodes
    <3>2. k \in 0 .. Len(m) /\ Len(p) = k /\ p = SubSeq(m, 1, k) BY <3>1, PrevFacts
    <3>3. ASSUME NEW x \in Ancestors(m) PROVE x = m \/ x \in Ancestors(p)
      <4>1. PICK n \in 1 .. Len(m) : x = SubSeq(m, 1, n) BY DEF Ancestors
      <4>2. CASE n = Len(m) BY <4>1, <4>2, NodeShape
      <4>3. CASE n # Len(m)
        <5>1. n \in 0 .. k /\ n \in 1 .. k BY <3>1, <4>3
        <5> HIDE DEF k, p
        <5>2. SubSeq(p, 1, n) = SubSeq(m, 1, n) BY <3>2, <5>1, NodeShape
        <5> QED BY <3>2, <4>1, <5>1, <5>2 DEF Ancestors
      <4> QED BY <4>2, <4>3
    <3> HIDE DEF p
    <3>4. Expected(m) \subseteq Rows(m) \cup Expected(p) BY <3>3 DEF Expected
    <3> QED BY <3>4 DEF p
  <2> QED BY <2>1, <2>2
<1> QED BY <1>1, <1>2, <1>3

\* FindFork is the last common block; two blocks have one, as the genesis block is everyone's.
LEMMA ForkFacts ==
  ASSUME NEW b \in Nodes, NEW t \in Nodes
  PROVE  LET f == FindFork(b, t)
         IN  /\ f \in Nodes /\ Below(f, b) /\ Below(f, t)
             /\ b \in Blocks /\ t \in Blocks => f \in Ancestors(t)
<1> DEFINE common == Ancestors(b) \cap Ancestors(t)
           f == FindFork(b, t)
<1>1. \A c \in common : c \in Nodes /\ Len(c) \in 0 .. Len(b) /\ Below(c, b) /\ Below(c, t)
  <2>1. \A c \in common : Below(c, b) /\ Below(c, t) BY DEF Below
  <2> HIDE DEF common
  <2> QED BY <2>1, BelowIs
<1>2. CASE common = {}
  <2>1. f = NullBlock BY <1>2 DEF FindFork
  <2>2. ASSUME b \in Blocks, t \in Blocks PROVE FALSE
    <3>1. b # NullBlock /\ t # NullBlock /\ b[1] = t[1] BY <2>2, IndexAssumption
    <3>2. Len(b) \in Nat \ {0} /\ Len(t) \in Nat \ {0} /\ b \in Seq(Items) /\ t \in Seq(Items) BY <3>1, NodeShape
    <3>3. SubSeq(b, 1, 1) = SubSeq(t, 1, 1)
      <4>1. SubSeq(b, 1, 1) = [i \in 1 .. 1 |-> b[i]] /\ SubSeq(t, 1, 1) = [i \in 1 .. 1 |-> t[i]] BY <3>2
      <4>2. \A i \in 1 .. 1 : b[i] = t[i] BY <3>1
      <4> QED BY <4>1, <4>2
    <3>4. 1 \in 1 .. Len(b) /\ 1 \in 1 .. Len(t) BY <3>2
    <3>5. SubSeq(b, 1, 1) \in Ancestors(b) /\ SubSeq(t, 1, 1) \in Ancestors(t) BY <3>4 DEF Ancestors
    <3> QED BY <1>2, <3>3, <3>5, Zenon
  <2> QED BY <2>1, <2>2 DEF Nodes, Below
<1>3. CASE common # {}
  <2>0. Len(b) \in Nat BY NodeShape
  <2> DEFINE T == {Len(b) - Len(c) : c \in common}
  <2>1. T \in SUBSET Nat /\ T # {} BY <1>1, <1>3, <2>0
  <2>2. PICK n \in T : \A y \in T : n <= y BY <2>1, Least, Zenon
  <2>3. PICK c \in common : n = Len(b) - Len(c) BY <2>2
  <2>4. \A d \in common : Height(d) <= Height(c)
    <3>1. ASSUME NEW d \in common PROVE Height(d) <= Height(c)
      <4>1. Len(b) - Len(c) <= Len(b) - Len(d) BY <2>2, <2>3, Zenon
      <4>2. Len(c) \in Int /\ Len(d) \in Int BY <1>1
      <4> QED BY <2>0, <4>1, <4>2 DEF Height
    <3> QED BY <3>1
  <2>5. f = CHOOSE x \in common : \A d \in common : Height(d) <= Height(x) BY <1>3 DEF FindFork
  <2>6. f \in common
    <3> HIDE DEF common, f
    <3> QED BY <2>4, <2>5
  <2> HIDE DEF f
  <2>7. f \in Nodes /\ Below(f, b) /\ Below(f, t) BY <1>1, <2>6
  <2>8. f \in Ancestors(t) BY <2>6
  <2> QED BY <2>7, <2>8 DEF f
<1> QED BY <1>2, <1>3

\* What BlockConnected accepts builds on the best block or on an ancestor of it.
LEMMA ConnectsFacts ==
  ASSUME m_best_block_index \in Nodes, NEW b \in Nodes
  PROVE  /\ ConnectsToBest(b) => Below(pprev(b), m_best_block_index)
         /\ b \in Blocks /\ Below(pprev(b), m_best_block_index) => ConnectsToBest(b)
<1> DEFINE m == m_best_block_index
           p == pprev(b)
           h == Height(b) - 1
<1>0. Len(b) \in Nat /\ Len(m) \in Nat /\ Height(b) = Len(b) - 1 /\ h = Len(b) - 2 /\ h \in Int /\ p \in Nodes /\ Len(p) \in Nat
  <2>1. p \in Nodes BY PrevFacts
  <2>2. Len(b) \in Nat /\ Len(m) \in Nat /\ Height(b) = Len(b) - 1 BY NodeShape
  <2>3. Len(p) \in Nat BY <2>1, NodeShape
  <2>4. h = Len(b) - 2 /\ h \in Int BY <2>2
  <2> QED BY <2>1, <2>2, <2>3, <2>4
<1>1. CASE b \notin Blocks
  <2>1. b = NullBlock BY <1>1 DEF Nodes
  <2>2. p = NullBlock BY <2>1 DEF pprev, NullBlock
  <2> QED BY <1>1, <2>2 DEF Below
<1>2. CASE b \in Blocks
  <2>0. Len(p) = Len(b) - 1 /\ (Len(p) = 0 <=> p = NullBlock) BY <1>0, <1>2, PrevFacts, NodeShape, Zenon
  <2>1. CASE m = NullBlock
    <3>1. ConnectsToBest(b) <=> Len(p) = 0 BY <1>0, <2>0, <2>1 DEF ConnectsToBest
    <3>2. Below(p, m) <=> p = NullBlock
      <4>1. Ancestors(NullBlock) = {} BY DEF Ancestors, NullBlock
      <4> QED BY <2>1, <4>1 DEF Below
    <3> QED BY <1>2, <2>0, <3>1, <3>2
  <2>2. CASE m # NullBlock
    <3>1. ConnectsToBest(b) <=> GetAncestor(m, h) = p BY <2>2 DEF ConnectsToBest
    <3> HIDE DEF p, h
    <3>2. ConnectsToBest(b) => Below(p, m) BY <1>0, <3>1, AncestorFacts
    <3>3. ASSUME Below(p, m) PROVE GetAncestor(m, h) = p
      <4> DEFINE x == Len(b)
                 y == Len(p)
                 n == Len(m)
      <4>1. y \in 0 .. n /\ p = SubSeq(m, 1, y) BY <3>3, BelowIs
      <4>2. x \in Nat /\ y \in Nat /\ n \in Nat /\ h \in Int /\ h = x - 2 /\ y = x - 1 BY <1>0, <2>0
      <4>3. /\ GetAncestor(m, h) # NullBlock <=> h \in 0 .. n - 1
            /\ h \in 0 .. n - 1 => GetAncestor(m, h) = SubSeq(m, 1, h + 1)
        BY <1>0, AncestorFacts, Zenon
      <4>4. y = 0 <=> p = NullBlock BY <2>0
      <4> HIDE DEF x, y, n
      <4>5. CASE y = 0
        <5>1. h \notin 0 .. n - 1 BY <4>2, <4>5
        <5> QED BY <4>3, <4>4, <4>5, <5>1
      <4>6. CASE y # 0
        <5>1. h \in 0 .. n - 1 /\ h + 1 = y BY <4>1, <4>2, <4>6
        <5> QED BY <4>1, <4>3, <5>1
      <4> QED BY <4>5, <4>6
    <3> QED BY <3>1, <3>2, <3>3 DEF p
  <2> QED BY <2>1, <2>2
<1> QED BY <1>1, <1>2

\* The next block of the walk builds on the last, or on an ancestor of it; when there is none the
\* tip has been passed.
LEMMA NextFacts ==
  ASSUME tip \in Nodes, NEW prev \in Nodes
  PROVE  LET n == NextSyncBlock(prev)
         IN  /\ n \in Nodes
             /\ n # NullBlock => n \in Blocks /\ Below(pprev(n), prev)
             /\ n = NullBlock => Below(tip, prev)
<1> DEFINE n == NextSyncBlock(prev)
           f == FindFork(prev, tip)
<1>0. Len(tip) \in Nat BY NodeShape
<1>1. CASE prev = NullBlock
  <2>1. n = GetAncestor(tip, 0) BY <1>1 DEF NextSyncBlock
  <2> HIDE DEF n
  <2>2. n \in Nodes /\ (n # NullBlock <=> 0 \in 0 .. Len(tip) - 1)
        /\ (0 \in 0 .. Len(tip) - 1 => n \in Blocks /\ pprev(n) = SubSeq(tip, 1, 0))
    <3>1. 0 \in Int /\ 0 + 1 = 1 OBVIOUS
    <3> QED BY <2>1, <3>1, AncestorFacts, Zenon
  <2>3. SubSeq(tip, 1, 0) = NullBlock BY NodeShape
  <2>4. n = NullBlock => tip = NullBlock
    <3>1. 0 \notin 0 .. Len(tip) - 1 => Len(tip) = 0 BY <1>0
    <3> QED BY <2>2, <3>1, NodeShape
  <2> QED BY <1>1, <2>2, <2>3, <2>4 DEF n, Below
<1>2. CASE prev # NullBlock
  <2>0. prev \in Blocks BY <1>2 DEF Nodes
  <2>1. n = NextInChain(f) BY <1>2 DEF NextSyncBlock
  <2>2. f \in Nodes /\ Below(f, prev) /\ Below(f, tip) /\ (tip \in Blocks => f \in Ancestors(tip)) BY <2>0, ForkFacts
  <2> HIDE DEF f, n
  <2>3. CASE f \in Ancestors(tip)
    <3> DEFINE h == Height(f) + 1
    <3>1. n = GetAncestor(tip, h) BY <2>1, <2>3 DEF NextInChain
    <3>2. h = Len(f) /\ h \in Nat
      <4>1. Len(f) \in Nat /\ Height(f) = Len(f) - 1 BY <2>2, NodeShape
      <4> QED BY <4>1
    <3>3. Len(f) \in 0 .. Len(tip) /\ f = SubSeq(tip, 1, Len(f)) BY <2>2, BelowIs
    <3> HIDE DEF h
    <3>4. n \in Nodes /\ (n # NullBlock <=> h \in 0 .. Len(tip) - 1)
          /\ (h \in 0 .. Len(tip) - 1 => n \in Blocks /\ pprev(n) = SubSeq(tip, 1, h))
      <4>1. h \in Int BY <3>2
      <4> QED BY <3>1, <4>1, AncestorFacts, Zenon
    <3>5. ASSUME n = NullBlock PROVE tip = f
      <4>1. h = Len(tip) BY <1>0, <3>2, <3>3, <3>4, <3>5
      <4> QED BY <3>2, <3>3, <4>1, NodeShape
    <3> QED BY <2>2, <3>2, <3>3, <3>4, <3>5 DEF n
  <2>4. CASE f \notin Ancestors(tip)
    <3>1. n = NullBlock BY <2>1, <2>4 DEF NextInChain
    <3>2. tip = NullBlock BY <2>2, <2>4 DEF Nodes
    <3> QED BY <3>1, <3>2 DEF n, Nodes, Below
  <2> QED BY <2>3, <2>4
<1> QED BY <1>1, <1>2

---------------------------------------------------------------------------
(* What is written. *)

\* The records of the two threads, and what an assignment to a field leaves.
LEMMA Records ==
  ASSUME TypeOK
  PROVE  /\ sync.pc \in {"loop", "flag", "endcommit", "time", "write", "done"} /\ sync.pindex \in Nodes
         /\ handler.pc \in {"idle", "rewind", "write", "best"} /\ handler.block \in Nodes /\ handler.from \in Nodes
         /\ Idle \in HandlerRecords /\ Idle.pc = "idle"
<1>1. sync \in SyncRecords /\ handler \in HandlerRecords BY DEF TypeOK
<1>2. Idle \in HandlerRecords /\ Idle.pc = "idle" BY DEF Idle, HandlerRecords, Nodes
<1> QED BY <1>1, <1>2 DEF SyncRecords, HandlerRecords

\* ThreadSync moves on.
LEMMA SyncTo ==
  ASSUME TypeOK, NEW c \in {"loop", "flag", "endcommit", "time", "write", "done"}, sync' = [sync EXCEPT !.pc = c]
  PROVE  sync' \in SyncRecords /\ sync'.pc = c /\ sync'.pindex = sync.pindex
  BY DEF TypeOK, SyncRecords

\* ThreadSync moves on, to another block.
LEMMA SyncAt ==
  ASSUME TypeOK, NEW c \in {"loop", "flag", "endcommit", "time", "write", "done"}, NEW x \in Nodes,
         sync' = [sync EXCEPT !.pc = c, !.pindex = x]
  PROVE  sync' \in SyncRecords /\ sync'.pc = c /\ sync'.pindex = x
  BY Zenon DEF TypeOK, SyncRecords

\* ThreadSync has written the locator.
LEMMA SyncTimed ==
  ASSUME TypeOK, sync' = [sync EXCEPT !.pc = "write", !.timed = TRUE]
  PROVE  sync' \in SyncRecords /\ sync'.pc = "write" /\ sync'.pindex = sync.pindex
  BY Zenon DEF TypeOK, SyncRecords

\* The handler moves on.
LEMMA HandlerTo ==
  ASSUME TypeOK, NEW c \in {"idle", "rewind", "write", "best"}, handler' = [handler EXCEPT !.pc = c]
  PROVE  handler' \in HandlerRecords /\ handler'.pc = c /\ handler'.block = handler.block /\ handler'.from = handler.from
  BY DEF TypeOK, HandlerRecords

\* Outside the window all that has to be is written.
LEMMA Outside ==
  ASSUME IndexInv, ~InWindow
  PROVE  Has(m_best_block_index) /\ Has(locator)
  BY DEF IndexInv, Written, IndexComplete, Has

\* A later state in which all that has to be is written.
LEMMA CompleteIf ==
  ASSUME Expected(m_best_block_index') \subseteq indexed', Expected(locator') \subseteq indexed'
  PROVE  IndexComplete'
  BY DEF IndexComplete

\* Commit writes the best block, or nothing.
LEMMA CommitFacts ==
  ASSUME NEW ok, Commit(ok)
  PROVE  locator' = locator \/ (ok /\ locator' = m_best_block_index')
  BY DEF Commit, CommitTo

\* A step that leaves the index alone.
LEMMA KeptIndex ==
  ASSUME IndexInv, IndexUnchanged
  PROVE  Turns' /\ Written'
  BY DEF IndexInv, IndexUnchanged, disk, memory, Turns, Written, IndexComplete, InWindow, Has

\* The steps of ThreadSync.
LEMMA SyncIndexStep ==
  ASSUME IndexInv, ~WindowFaults, ThreadSync
  PROVE  IndexInv'
<1> USE DEF SyncLeaves, chain, disk, memory, NoFault
<1>0. /\ TypeOK /\ Turns /\ Written
      /\ tip \in Nodes /\ sync.pindex \in Nodes /\ m_best_block_index \in Nodes /\ locator \in Nodes
      /\ sync.pc # "write" => ~InWindow
  BY Records DEF IndexInv, TypeOK, InWindow
<1>1. /\ UNCHANGED <<tip, flushedTip, queue, handler, caller>>
      /\ sync.pc \notin {"endcommit", "done"} => ~m_synced /\ handler.pc = "idle"
  <2>1. UNCHANGED <<tip, flushedTip, queue, handler, caller>>
    BY DEF ThreadSync, SyncReached, SyncFlag, SyncForward, SyncRewindAsserts, SyncNoInterval, SyncInterrupted,
           SyncEndCommit, SyncRewind, SyncInterval, SyncWrite
  <2> QED BY <1>0, <2>1 DEF Turns
<1>2. ASSUME m_best_block_index' \in Nodes, locator' \in Nodes, sync' \in SyncRecords, m_synced' \in BOOLEAN PROVE TypeOK'
  BY <1>0, <1>1, <1>2 DEF TypeOK
<1>3. ASSUME NEW ok \in BOOLEAN, SyncInterrupted(ok) PROVE IndexInv'
  <2>1. sync.pc = "loop" /\ m_best_block_index' = sync.pindex /\ indexed' = indexed /\ m_synced' = m_synced
        /\ sync' = [sync EXCEPT !.pc = "done"]
    BY <1>3 DEF SyncInterrupted
  <2>2. sync' \in SyncRecords /\ sync'.pc = "done" /\ (locator' = locator \/ locator' = sync.pindex)
    <3>1. Commit(ok) BY <1>3 DEF SyncInterrupted
    <3> QED BY <1>0, <2>1, <3>1, SyncTo, CommitFacts
  <2>3. Has(sync.pindex) /\ Has(locator) BY <1>0, <2>1, Outside DEF Written
  <2>4. TypeOK' BY <1>0, <1>2, <2>1, <2>2 DEF TypeOK
  <2>5. IndexComplete' BY <2>1, <2>2, <2>3, CompleteIf DEF Has
  <2>6. Turns' BY <1>0, <1>1, <2>1, <2>2 DEF Turns
  <2>7. Written' BY <1>1, <2>1, <2>2, <2>5 DEF Written
  <2> QED BY <2>4, <2>6, <2>7 DEF IndexInv
<1>4. CASE SyncReached
  <2>1. sync.pc = "loop" /\ m_best_block_index' = sync.pindex /\ indexed' = indexed /\ m_synced' = m_synced
        /\ sync' = [sync EXCEPT !.pc = "flag"] /\ locator' = locator
    BY <1>4 DEF SyncReached
  <2>2. sync' \in SyncRecords /\ sync'.pc = "flag" BY <1>0, <2>1, SyncTo
  <2>3. Has(sync.pindex) /\ Has(locator) BY <1>0, <2>1, Outside DEF Written
  <2>4. TypeOK' BY <1>0, <1>2, <2>1, <2>2 DEF TypeOK
  <2>5. IndexComplete' BY <2>1, <2>2, <2>3, CompleteIf DEF Has
  <2>6. Turns' BY <1>0, <1>1, <2>1, <2>2 DEF Turns
  <2>7. Written' BY <1>1, <2>1, <2>2, <2>5 DEF Written
  <2> QED BY <2>4, <2>6, <2>7 DEF IndexInv
<1>5. CASE SyncFlag
  <2>1. sync.pc = "flag" /\ m_best_block_index' = m_best_block_index /\ indexed' = indexed /\ m_synced' = TRUE
        /\ sync' = [sync EXCEPT !.pc = "endcommit"] /\ locator' = locator
    BY <1>5 DEF SyncFlag
  <2>2. sync' \in SyncRecords /\ sync'.pc = "endcommit" BY <1>0, <2>1, SyncTo
  <2>3. Has(m_best_block_index) /\ Has(locator) BY <1>0, <2>1, Outside
  <2>4. TypeOK' BY <1>0, <1>2, <2>1, <2>2
  <2>5. IndexComplete' BY <2>1, <2>2, <2>3, CompleteIf DEF Has
  <2>6. Turns' BY <1>0, <1>1, <2>1, <2>2 DEF Turns
  <2>7. Written' BY <1>1, <2>1, <2>2, <2>5 DEF Written
  <2> QED BY <2>4, <2>6, <2>7 DEF IndexInv
<1>6. ASSUME NEW ok \in BOOLEAN, SyncEndCommit(ok) PROVE IndexInv'
  <2>1. sync.pc = "endcommit" /\ m_best_block_index' = m_best_block_index /\ indexed' = indexed /\ m_synced' = m_synced
        /\ sync' = [sync EXCEPT !.pc = "done"]
    BY <1>6 DEF SyncEndCommit
  <2>2. sync' \in SyncRecords /\ sync'.pc = "done" /\ (locator' = locator \/ locator' = m_best_block_index)
    <3>1. Commit(ok) BY <1>6 DEF SyncEndCommit
    <3> QED BY <1>0, <2>1, <3>1, SyncTo, CommitFacts
  <2>3. Has(m_best_block_index) /\ Has(locator) BY <1>0, <2>1, Outside
  <2>4. TypeOK' BY <1>0, <1>2, <2>1, <2>2 DEF TypeOK
  <2>5. IndexComplete' BY <2>1, <2>2, <2>3, CompleteIf DEF Has
  <2>6. Turns' BY <1>0, <1>1, <2>1, <2>2 DEF Turns
  <2>7. Written' BY <1>0, <1>1, <2>1, <2>2, <2>5 DEF Written, Has
  <2> QED BY <2>4, <2>6, <2>7 DEF IndexInv
<1>7. CASE SyncForward
  <2> DEFINE next == NextSyncBlock(sync.pindex)
  <2>1. sync.pc = "loop" /\ m_best_block_index' = m_best_block_index /\ indexed' = indexed /\ m_synced' = m_synced
        /\ sync' = [sync EXCEPT !.pc = "time", !.pindex = next] /\ locator' = locator /\ pprev(next) = sync.pindex
    BY <1>7, Zenon DEF SyncForward
  <2>2. sync' \in SyncRecords /\ sync'.pc = "time" /\ sync'.pindex = next
    <3>1. next \in Nodes BY <1>0, NextFacts
    <3> HIDE DEF next
    <3> QED BY <1>0, <2>1, <3>1, SyncAt, Zenon
  <2> HIDE DEF next
  <2>3. Has(m_best_block_index) /\ Has(locator) /\ Has(sync.pindex) BY <1>0, <2>1, Outside DEF Written
  <2>4. TypeOK' BY <1>0, <1>2, <2>1, <2>2 DEF TypeOK
  <2>5. IndexComplete' BY <2>1, <2>2, <2>3, CompleteIf DEF Has
  <2>6. Turns' BY <1>0, <1>1, <2>1, <2>2 DEF Turns
  <2>7. Has(pprev(sync.pindex))' BY <2>1, <2>2, <2>3 DEF Has
  <2>8. Written' BY <1>1, <2>1, <2>2, <2>5, <2>7 DEF Written
  <2> QED BY <2>4, <2>6, <2>8 DEF IndexInv
<1>8. ASSUME NEW ok \in BOOLEAN, SyncRewind(ok) PROVE IndexInv'
  <2> DEFINE next == NextSyncBlock(sync.pindex)
  <2>1. sync.pc = "loop" /\ indexed' = indexed /\ m_synced' = m_synced /\ next # NullBlock /\ Commit(ok)
        /\ (ok => m_best_block_index' = pprev(next) /\ sync' = [sync EXCEPT !.pc = "time", !.pindex = next])
        /\ (~ok => m_best_block_index' = m_best_block_index /\ sync' = [sync EXCEPT !.pc = "done"])
    BY <1>8 DEF SyncRewind
  <2>2. next \in Nodes /\ Below(pprev(next), sync.pindex) /\ pprev(next) \in Nodes
    <3>1. next \in Nodes /\ Below(pprev(next), sync.pindex) BY <1>0, <2>1, NextFacts
    <3> HIDE DEF next
    <3> QED BY <3>1, PrevFacts
  <2> HIDE DEF next
  <2>3. Has(m_best_block_index) /\ Has(locator) /\ Has(sync.pindex) BY <1>0, <2>1, Outside DEF Written
  <2>4. Has(pprev(next)) BY <1>0, <2>2, <2>3, ExpectedFacts, Zenon DEF Has
  <2>5. CASE ok
    <3>1. sync' \in SyncRecords /\ sync'.pc = "time" /\ sync'.pindex = next BY <1>0, <2>1, <2>2, <2>5, SyncAt, Zenon
    <3>2. m_best_block_index' = pprev(next) /\ (locator' = locator \/ locator' = pprev(next)) BY <2>1, <2>5, CommitFacts, Zenon
    <3>3. TypeOK' BY <1>0, <1>2, <2>1, <2>2, <3>1, <3>2 DEF TypeOK
    <3>4. IndexComplete' BY <2>1, <2>3, <2>4, <3>2, CompleteIf DEF Has
    <3>5. Turns' BY <1>0, <1>1, <2>1, <3>1 DEF Turns
    <3>6. Has(pprev(sync.pindex))' BY <2>1, <2>4, <3>1 DEF Has
    <3>7. Written' BY <1>1, <2>1, <3>1, <3>4, <3>6 DEF Written
    <3> QED BY <3>3, <3>5, <3>7 DEF IndexInv
  <2>6. CASE ~ok
    <3>1. sync' \in SyncRecords /\ sync'.pc = "done" BY <1>0, <2>1, <2>6, SyncTo
    <3>2. m_best_block_index' = m_best_block_index /\ locator' = locator BY <2>1, <2>6, CommitFacts
    <3>3. TypeOK' BY <1>0, <1>2, <2>1, <3>1, <3>2 DEF TypeOK
    <3>4. IndexComplete' BY <2>1, <2>3, <3>2, CompleteIf DEF Has
    <3>5. Turns' BY <1>0, <1>1, <2>1, <3>1 DEF Turns
    <3>6. Written' BY <1>1, <2>1, <3>1, <3>4 DEF Written
    <3> QED BY <3>3, <3>5, <3>6 DEF IndexInv
  <2> QED BY <2>5, <2>6
<1>9. CASE SyncRewindAsserts
  <2>1. IndexUnchanged /\ TypeOK' BY <1>0, <1>1, <1>9 DEF SyncRewindAsserts, IndexUnchanged, TypeOK
  <2> QED BY <2>1, KeptIndex DEF IndexInv
<1>10. ASSUME NEW ok \in BOOLEAN, SyncInterval(ok) PROVE IndexInv'
  <2>1. sync.pc = "time" /\ m_best_block_index' = sync.pindex /\ indexed' = indexed /\ m_synced' = m_synced
        /\ sync' = [sync EXCEPT !.pc = "write", !.timed = TRUE]
    BY <1>10 DEF SyncInterval
  <2>2. sync' \in SyncRecords /\ sync'.pc = "write" /\ sync'.pindex = sync.pindex /\ (locator' = locator \/ locator' = sync.pindex)
    <3>1. Commit(ok) BY <1>10 DEF SyncInterval
    <3> QED BY <1>0, <2>1, <3>1, SyncTimed, CommitFacts
  <2>3. Has(pprev(sync.pindex)) /\ Has(locator) BY <1>0, <2>1, Outside DEF Written
  <2>4. TypeOK' BY <1>0, <1>2, <2>1, <2>2 DEF TypeOK
  <2>5. Expected(sync.pindex) \subseteq indexed \cup {sync.pindex}
    <3>1. Expected(sync.pindex) \subseteq Rows(sync.pindex) \cup Expected(pprev(sync.pindex)) BY <1>0, ExpectedFacts
    <3>2. Rows(sync.pindex) \subseteq {sync.pindex} BY DEF Rows
    <3> QED BY <2>3, <3>1, <3>2 DEF Has
  <2>6. InWindow' BY <2>1, <2>2 DEF InWindow
  <2>7. IndexComplete' BY <2>1, <2>2, <2>3, <2>5, <2>6 DEF IndexComplete, Has
  <2>8. Turns' BY <1>0, <1>1, <2>1, <2>2 DEF Turns
  <2>9. Has(pprev(sync.pindex))' BY <2>1, <2>2, <2>3 DEF Has
  <2>10. Written' BY <1>1, <2>1, <2>2, <2>7, <2>9 DEF Written
  <2> QED BY <2>4, <2>8, <2>10 DEF IndexInv
<1>11. CASE SyncNoInterval
  <2>1. sync.pc = "time" /\ m_best_block_index' = m_best_block_index /\ indexed' = indexed /\ m_synced' = m_synced
        /\ sync' = [sync EXCEPT !.pc = "write"] /\ locator' = locator
    BY <1>11 DEF SyncNoInterval
  <2>2. sync' \in SyncRecords /\ sync'.pc = "write" /\ sync'.pindex = sync.pindex BY <1>0, <2>1, SyncTo
  <2>3. Has(m_best_block_index) /\ Has(locator) /\ Has(pprev(sync.pindex)) BY <1>0, <2>1, Outside DEF Written
  <2>4. TypeOK' BY <1>0, <1>2, <2>1, <2>2 DEF TypeOK
  <2>5. IndexComplete' BY <2>1, <2>2, <2>3, CompleteIf DEF Has
  <2>6. Turns' BY <1>0, <1>1, <2>1, <2>2 DEF Turns
  <2>7. Has(pprev(sync.pindex))' BY <2>1, <2>2, <2>3 DEF Has
  <2>8. Written' BY <1>1, <2>1, <2>2, <2>5, <2>7 DEF Written
  <2> QED BY <2>4, <2>6, <2>8 DEF IndexInv
<1>12. ASSUME NEW ok \in BOOLEAN, SyncWrite(ok) PROVE IndexInv'
  <2>1. sync.pc = "write" /\ m_best_block_index' = m_best_block_index /\ m_synced' = m_synced /\ locator' = locator
        /\ indexed' = (IF ok THEN indexed \cup Rows(sync.pindex) ELSE indexed)
        /\ sync' = [sync EXCEPT !.pc = IF ok THEN "loop" ELSE "done"] /\ (~ok => ~InWindow)
    BY <1>12 DEF SyncWrite, WriteBlock
  <2>2. sync' \in SyncRecords /\ sync'.pc = (IF ok THEN "loop" ELSE "done") /\ sync'.pindex = sync.pindex
    BY <1>0, <2>1, SyncTo
  <2>3. TypeOK' BY <1>0, <1>2, <2>1, <2>2 DEF TypeOK
  <2>4. Turns' BY <1>0, <1>1, <2>1, <2>2 DEF Turns
  <2>5. ASSUME ok, NEW b \in {m_best_block_index, locator} PROVE Expected(b) \subseteq indexed'
    <3>1. Expected(b) \subseteq indexed \cup {sync.pindex} BY <1>0 DEF Written, IndexComplete
    <3>2. \A x \in Expected(b) : x \in Rows(x) BY DEF Expected, Rows
    <3> QED BY <2>1, <2>5, <3>1, <3>2
  <2>6. IndexComplete'
    <3>1. CASE ok BY <2>1, <2>5, <3>1, CompleteIf
    <3>2. CASE ~ok BY <2>1, <3>2, Outside, CompleteIf DEF Has
    <3> QED BY <3>1, <3>2
  <2>7. ok => Has(sync.pindex)'
    <3>1. Expected(sync.pindex) \subseteq Rows(sync.pindex) \cup Expected(pprev(sync.pindex)) BY <1>0, ExpectedFacts
    <3>2. Has(pprev(sync.pindex)) BY <1>0, <2>1 DEF Written
    <3> QED BY <2>1, <2>2, <3>1, <3>2 DEF Has
  <2>8. handler'.pc = "idle" BY <1>1, <2>1
  <2>9. Written' BY <2>1, <2>2, <2>6, <2>7, <2>8 DEF Written
  <2> QED BY <2>3, <2>4, <2>9 DEF IndexInv
<1> QED BY <1>3, <1>4, <1>5, <1>6, <1>7, <1>8, <1>9, <1>10, <1>11, <1>12 DEF ThreadSync

\* The first entry of the queue and the others.
LEMMA QueueTail ==
  ASSUME NEW q \in Seq(Entries), q # <<>>
  PROVE  /\ Tail(q) \in Seq(Entries) /\ Head(q) \in Entries /\ Head(q) = q[1]
         /\ Len(q) \in Nat \ {0} /\ Len(Tail(q)) = Len(q) - 1
         /\ \A i \in 1 .. Len(q) - 1 : Tail(q)[i] = q[i + 1]
  OBVIOUS

\* An entry more.
LEMMA QueueAppend ==
  ASSUME NEW q \in Seq(Entries), NEW e \in Entries
  PROVE  /\ Append(q, e) \in Seq(Entries) /\ Len(q) \in Nat /\ Len(Append(q, e)) = Len(q) + 1
         /\ \A i \in 1 .. Len(q) : Append(q, e)[i] = q[i]
         /\ Append(q, e)[Len(q) + 1] = e
  OBVIOUS

\* The entries of the blocks ActivateBestChain connects: from the one on the fork to the new tip.
Added(t, b) ==
  LET connected == Branch(FindFork(t, b), b)
  IN  [i \in DOMAIN connected |-> [kind |-> "BlockConnected", block |-> connected[i]]]

\* Each builds on the one before, the first on the fork.
LEMMA BranchFacts ==
  ASSUME NEW t \in Nodes, NEW b \in Blocks, Height(b) > Height(t)
  PROVE  LET f == FindFork(t, b)
             e == Added(t, b)
         IN  /\ e \in Seq(Entries) /\ Len(e) = Len(b) - Len(f) /\ Len(e) \in Nat \ {0}
             /\ Below(f, t)
             /\ \A i \in 1 .. Len(e) : /\ e[i].kind = "BlockConnected" /\ e[i].block \in Blocks
                                       /\ e[i].block = SubSeq(b, 1, Len(f) + i)
                                       /\ pprev(e[i].block) = SubSeq(b, 1, Len(f) + i - 1)
             /\ pprev(e[1].block) = f /\ e[Len(e)].block = b
<1> DEFINE f == FindFork(t, b)
           e == Added(t, b)
           n == Len(f)
           m == Len(b)
           k == Len(t)
<1>0. b \in Nodes BY DEF Nodes
<1>1. f \in Nodes /\ Below(f, t) /\ Below(f, b) BY <1>0, ForkFacts, Zenon
<1>2. n \in Nat /\ m \in Nat /\ k \in Nat /\ n \in 0 .. k /\ Height(f) = n - 1 /\ Height(b) = m - 1 /\ m > k
      /\ f = SubSeq(b, 1, n) /\ b = SubSeq(b, 1, m)
  <2>1. f \in Nodes /\ Len(f) \in 0 .. Len(t) BY <1>1, BelowIs, Zenon
  <2>2. f = SubSeq(b, 1, Len(f)) BY <1>0, <1>1, BelowIs, Zenon
  <2>3. Len(f) \in Nat /\ Len(b) \in Nat /\ Len(t) \in Nat /\ Height(f) = Len(f) - 1 /\ Height(b) = Len(b) - 1
        /\ Height(t) = Len(t) - 1 /\ SubSeq(b, 1, Len(b)) = b
    BY <1>0, <1>1, NodeShape, Zenon
  <2> HIDE DEF f
  <2> QED BY <2>1, <2>2, <2>3
<1> DEFINE A == [i \in 1 .. m - n |-> [kind |-> "BlockConnected", block |-> GetAncestor(b, (n - 1) + i)]]
<1>3. e = A
  <2>1. Branch(f, b) = [i \in 1 .. (m - 1) - (n - 1) |-> GetAncestor(b, (n - 1) + i)] BY <1>2 DEF Branch
  <2>2. (m - 1) - (n - 1) = m - n
    <3> HIDE DEF m, n
    <3> QED BY <1>2
  <2>3. Branch(f, b) = [i \in 1 .. m - n |-> GetAncestor(b, (n - 1) + i)] BY <2>1, <2>2
  <2>4. e = [i \in DOMAIN Branch(f, b) |-> [kind |-> "BlockConnected", block |-> Branch(f, b)[i]]] BY DEF Added
  <2> HIDE DEF e, f, n, m
  <2> QED BY <2>3, <2>4
<1>4. ASSUME NEW i \in 1 .. m - n
      PROVE  /\ GetAncestor(b, (n - 1) + i) \in Blocks
             /\ GetAncestor(b, (n - 1) + i) = SubSeq(b, 1, n + i)
             /\ pprev(GetAncestor(b, (n - 1) + i)) = SubSeq(b, 1, n + i - 1)
  <2> DEFINE h == (n - 1) + i
  <2>1. h \in Int /\ h \in 0 .. m - 1 /\ h + 1 = n + i /\ h = n + i - 1
    <3> HIDE DEF n, m
    <3> QED BY <1>2
  <2> HIDE DEF h
  <2>2. GetAncestor(b, h) \in Blocks /\ GetAncestor(b, h) = SubSeq(b, 1, h + 1) /\ pprev(GetAncestor(b, h)) = SubSeq(b, 1, h)
    BY <1>0, <2>1, AncestorFacts, Zenon
  <2>3. GetAncestor(b, h) = SubSeq(b, 1, n + i) /\ pprev(GetAncestor(b, h)) = SubSeq(b, 1, n + i - 1)
    <3> HIDE DEF n
    <3> QED BY <2>1, <2>2
  <2> QED BY <2>2, <2>3 DEF h
<1>5. m - n \in Nat \ {0} /\ n + 1 - 1 = n /\ n + (m - n) = m /\ 1 \in 1 .. m - n /\ m - n \in 1 .. m - n
  <2> HIDE DEF n, m, k
  <2> QED BY <1>2
<1>6. \A i \in 1 .. m - n : [kind |-> "BlockConnected", block |-> GetAncestor(b, (n - 1) + i)] \in Entries
  BY <1>4, Zenon DEF Entries, Kinds, Nodes
<1> DEFINE len == m - n
<1>7. A \in Seq(Entries) /\ Len(A) = len
  <2>1. len \in Nat /\ A = [i \in 1 .. len |-> A[i]] /\ \A i \in 1 .. len : A[i] \in Entries BY <1>5, <1>6, Zenon
  <2> HIDE DEF A, len
  <2>2. A \in [1 .. len -> Entries] BY <2>1
  <2> QED BY <2>1, <2>2
<1>8. \A i \in 1 .. len : A[i].kind = "BlockConnected" /\ A[i].block = GetAncestor(b, (n - 1) + i) OBVIOUS
<1>9. \A i \in 1 .. len : /\ e[i].kind = "BlockConnected" /\ e[i].block \in Blocks
                          /\ e[i].block = SubSeq(b, 1, n + i) /\ pprev(e[i].block) = SubSeq(b, 1, n + i - 1)
  <2> HIDE DEF A, e, n, m
  <2> QED BY <1>3, <1>4, <1>8, Zenon
<1>10. e \in Seq(Entries) /\ Len(e) = len /\ len \in Nat \ {0} BY <1>3, <1>5, <1>7, Zenon
<1>11. pprev(e[1].block) = f /\ e[len].block = b
  <2> HIDE DEF e, f, n, m
  <2> QED BY <1>2, <1>5, <1>9, Zenon
<1> HIDE DEF e, f
<1> QED BY <1>1, <1>9, <1>10, <1>11 DEF e, f

\* They are all BlockConnected entries.
LEMMA BranchKinds ==
  ASSUME NEW t \in Nodes, NEW b \in Blocks, Height(b) > Height(t)
  PROVE  Added(t, b) \in Seq(Entries) /\ \A i \in 1 .. Len(Added(t, b)) : Added(t, b)[i].kind = "BlockConnected"
<1> DEFINE f == FindFork(t, b)
           e == Added(t, b)
<1>1. e \in Seq(Entries) BY BranchFacts, Zenon
<1>2. \A i \in 1 .. Len(e) : /\ e[i].kind = "BlockConnected" /\ e[i].block \in Blocks
                             /\ e[i].block = SubSeq(b, 1, Len(f) + i)
                             /\ pprev(e[i].block) = SubSeq(b, 1, Len(f) + i - 1)
  BY BranchFacts, Zenon
<1> HIDE DEF f, e
<1>3. \A i \in 1 .. Len(e) : e[i].kind = "BlockConnected" BY <1>2, Zenon
<1> QED BY <1>1, <1>3 DEF e

\* The entries that go behind the queue.
LEMMA QueueConcat ==
  ASSUME NEW q \in Seq(Entries), NEW e \in Seq(Entries)
  PROVE  /\ q \o e \in Seq(Entries) /\ Len(q) \in Nat /\ Len(e) \in Nat /\ Len(q \o e) = Len(q) + Len(e)
         /\ \A i \in 1 .. Len(q) : (q \o e)[i] = q[i]
         /\ \A i \in 1 .. Len(e) : (q \o e)[Len(q) + i] = e[i]
  OBVIOUS

\* The steps of the scheduler's thread.
LEMMA SchedulerIndexStep ==
  ASSUME IndexInv, SchedulerThread
  PROVE  IndexInv'
<1> USE DEF SchedulerLeaves, chain, disk, memory, NoFault
<1>0. /\ TypeOK /\ Turns /\ Written /\ queue \in Seq(Entries)
      /\ m_best_block_index \in Nodes /\ locator \in Nodes
      /\ handler.block \in Nodes /\ handler.from \in Nodes
      /\ m_synced => ~InWindow
  BY Records DEF IndexInv, TypeOK, Turns, InWindow
<1>1. UNCHANGED <<tip, flushedTip, m_synced, sync>>
  BY DEF SchedulerThread, BlockConnectedIgnored, BlockConnected, ConnectedBest, CallReturns, RewindCommit,
         ConnectedWrite, ChainStateFlushed
<1>2. ASSUME m_best_block_index' \in Nodes, locator' \in Nodes, handler' \in HandlerRecords, caller' \in Nodes,
             queue' \in Seq(Entries)
      PROVE TypeOK'
  BY <1>0, <1>1, <1>2 DEF TypeOK
<1>3. caller' \in Nodes
  <2>1. caller' = caller \/ caller' = NullBlock
    BY DEF SchedulerThread, BlockConnectedIgnored, BlockConnected, ConnectedBest, CallReturns, RewindCommit,
           ConnectedWrite, ChainStateFlushed
  <2> QED BY <1>0, <2>1 DEF TypeOK, Nodes
<1>4. queue' \in Seq(Entries)
  <2>1. queue' = queue \/ (queue # <<>> /\ queue' = Tail(queue))
    BY DEF SchedulerThread, BlockConnectedIgnored, BlockConnected, ConnectedBest, CallReturns, RewindCommit,
           ConnectedWrite, ChainStateFlushed, Take
  <2> QED BY <1>0, <2>1, QueueTail
<1>5. CASE BlockConnectedIgnored \/ CallReturns
  <2>1. IndexUnchanged BY <1>1, <1>5 DEF BlockConnectedIgnored, CallReturns, IndexUnchanged
  <2>2. TypeOK' BY <1>0, <1>2, <1>3, <1>4, <2>1 DEF TypeOK, IndexUnchanged
  <2> QED BY <2>1, <2>2, KeptIndex DEF IndexInv
<1>6. CASE BlockConnected
  <2> DEFINE b == Head(queue).block
             c == IF m_best_block_index = pprev(b) THEN "write" ELSE "rewind"
  <2>1. m_synced /\ ConnectsToBest(b) /\ queue # <<>> /\ m_best_block_index' = pprev(b)
        /\ handler' = [pc |-> c, block |-> b, from |-> m_best_block_index]
        /\ indexed' = indexed /\ locator' = locator
    BY <1>6 DEF BlockConnected, Take
  <2>2. b \in Nodes
    <3>1. Head(queue) \in Entries BY <1>0, <2>1, QueueTail
    <3> QED BY <3>1 DEF Entries
  <2>3. pprev(b) \in Nodes /\ Below(pprev(b), m_best_block_index) BY <1>0, <2>1, <2>2, PrevFacts, ConnectsFacts
  <2>4. c \in {"rewind", "write"} OBVIOUS
  <2> HIDE DEF b, c
  <2>5. handler' \in HandlerRecords /\ handler'.pc = c /\ handler'.block = b /\ handler'.from = m_best_block_index
    BY <1>0, <2>1, <2>2, <2>4 DEF HandlerRecords
  <2>6. Has(m_best_block_index) /\ Has(locator) BY <1>0, <2>1, Outside
  <2>7. Has(pprev(b)) BY <1>0, <2>3, <2>6, ExpectedFacts DEF Has
  <2>8. TypeOK' BY <1>0, <1>2, <1>3, <1>4, <2>1, <2>3, <2>5
  <2>9. IndexComplete' BY <2>1, <2>6, <2>7, CompleteIf DEF Has
  <2>10. Turns' BY <1>0, <1>1, <2>1, <2>5 DEF Turns
  <2>11. Has(handler.from)' BY <2>1, <2>5, <2>6 DEF Has
  <2>12. sync.pc \in {"endcommit", "done"} BY <1>0, <2>1 DEF Turns
  <2>13. Written' BY <1>1, <2>4, <2>5, <2>9, <2>11, <2>12 DEF Written
  <2> QED BY <2>8, <2>10, <2>13 DEF IndexInv
<1>7. CASE ConnectedBest
  <2>1. handler.pc = "best" /\ m_best_block_index' = handler.block /\ handler' = Idle /\ indexed' = indexed /\ locator' = locator
    BY <1>7 DEF ConnectedBest
  <2>2. m_synced /\ m_best_block_index = pprev(handler.block) /\ sync.pc \in {"endcommit", "done"} BY <1>0, <2>1 DEF Turns
  <2>3. Has(m_best_block_index) /\ Has(locator) BY <1>0, <2>2, Outside
  <2>4. Has(handler.block)
    <3>1. Expected(handler.block) \subseteq Rows(handler.block) \cup Expected(pprev(handler.block)) BY <1>0, ExpectedFacts
    <3>2. Rows(handler.block) \subseteq indexed BY <1>0, <2>1 DEF Written
    <3> QED BY <2>2, <2>3, <3>1, <3>2 DEF Has
  <2>5. handler' \in HandlerRecords /\ handler'.pc = "idle" BY <1>0, <2>1, Records
  <2>6. TypeOK' BY <1>0, <1>2, <1>3, <1>4, <2>1, <2>5
  <2>7. IndexComplete' BY <2>1, <2>3, <2>4, CompleteIf DEF Has
  <2>8. Turns' BY <1>1, <2>2, <2>5 DEF Turns
  <2>9. Written' BY <1>1, <2>2, <2>5, <2>7 DEF Written
  <2> QED BY <2>6, <2>8, <2>9 DEF IndexInv
<1>8. ASSUME NEW ok \in BOOLEAN, RewindCommit(ok) PROVE IndexInv'
  <2>1. handler.pc = "rewind" /\ indexed' = indexed /\ Commit(ok)
        /\ (ok => handler' = [handler EXCEPT !.pc = "write"] /\ m_best_block_index' = m_best_block_index)
        /\ (~ok => handler' = Idle /\ m_best_block_index' = handler.from)
    BY <1>8 DEF RewindCommit
  <2>2. m_synced /\ m_best_block_index = pprev(handler.block) /\ sync.pc \in {"endcommit", "done"} BY <1>0, <2>1 DEF Turns
  <2>3. Has(m_best_block_index) /\ Has(locator) /\ Has(handler.from) BY <1>0, <2>1, <2>2, Outside DEF Written
  <2>4. CASE ok
    <3>1. handler' \in HandlerRecords /\ handler'.pc = "write" /\ handler'.block = handler.block BY <1>0, <2>1, <2>4, HandlerTo
    <3>2. m_best_block_index' = m_best_block_index /\ (locator' = locator \/ locator' = m_best_block_index) BY <2>1, <2>4, CommitFacts, Zenon
    <3>3. TypeOK' BY <1>0, <1>2, <1>3, <1>4, <3>1, <3>2
    <3>4. IndexComplete' BY <2>1, <2>3, <3>2, CompleteIf DEF Has
    <3>5. Turns' BY <1>1, <2>2, <3>1, <3>2 DEF Turns
    <3>6. Written' BY <1>1, <2>2, <3>1, <3>4 DEF Written
    <3> QED BY <3>3, <3>5, <3>6 DEF IndexInv
  <2>5. CASE ~ok
    <3>1. handler' \in HandlerRecords /\ handler'.pc = "idle" BY <1>0, <2>1, <2>5, Records
    <3>2. m_best_block_index' = handler.from /\ locator' = locator BY <2>1, <2>5, CommitFacts
    <3>3. TypeOK' BY <1>0, <1>2, <1>3, <1>4, <3>1, <3>2
    <3>4. IndexComplete' BY <2>1, <2>3, <3>2, CompleteIf DEF Has
    <3>5. Turns' BY <1>1, <2>2, <3>1 DEF Turns
    <3>6. Written' BY <1>1, <2>2, <3>1, <3>4 DEF Written
    <3> QED BY <3>3, <3>5, <3>6 DEF IndexInv
  <2> QED BY <2>4, <2>5
<1>9. ASSUME NEW ok \in BOOLEAN, ConnectedWrite(ok) PROVE IndexInv'
  <2>1. handler.pc = "write" /\ m_best_block_index' = m_best_block_index /\ locator' = locator
        /\ indexed' = (IF ok THEN indexed \cup Rows(handler.block) ELSE indexed)
        /\ (ok => handler' = [handler EXCEPT !.pc = "best"]) /\ (~ok => handler' = Idle)
    BY <1>9 DEF ConnectedWrite, WriteBlock
  <2>2. m_synced /\ m_best_block_index = pprev(handler.block) /\ sync.pc \in {"endcommit", "done"} BY <1>0, <2>1 DEF Turns
  <2>3. Has(m_best_block_index) /\ Has(locator) BY <1>0, <2>2, Outside
  <2>4. indexed \subseteq indexed' BY <2>1
  <2>5. IndexComplete' BY <2>1, <2>3, <2>4, CompleteIf DEF Has
  <2>6. CASE ok
    <3>1. handler' \in HandlerRecords /\ handler'.pc = "best" /\ handler'.block = handler.block BY <1>0, <2>1, <2>6, HandlerTo
    <3>2. TypeOK' BY <1>0, <1>2, <1>3, <1>4, <2>1, <3>1
    <3>3. Turns' BY <1>1, <2>1, <2>2, <3>1 DEF Turns
    <3>4. Rows(handler.block)' \subseteq indexed' BY <2>1, <2>6, <3>1
    <3>5. Written' BY <1>1, <2>2, <2>5, <3>1, <3>4 DEF Written
    <3> QED BY <3>2, <3>3, <3>5 DEF IndexInv
  <2>7. CASE ~ok
    <3>1. handler' \in HandlerRecords /\ handler'.pc = "idle" BY <1>0, <2>1, <2>7, Records
    <3>2. TypeOK' BY <1>0, <1>2, <1>3, <1>4, <2>1, <3>1
    <3>3. Turns' BY <1>1, <2>2, <3>1 DEF Turns
    <3>4. Written' BY <1>1, <2>2, <2>5, <3>1 DEF Written
    <3> QED BY <3>2, <3>3, <3>4 DEF IndexInv
  <2> QED BY <2>6, <2>7
<1>10. ASSUME NEW ok \in BOOLEAN, ChainStateFlushed(ok) PROVE IndexInv'
  <2>1. indexed' = indexed /\ m_best_block_index' = m_best_block_index /\ handler' = handler
        /\ (locator' = locator \/ (m_synced /\ Commit(ok)))
    BY <1>10 DEF ChainStateFlushed
  <2>2. CASE locator' = locator
    <3>1. IndexUnchanged BY <1>1, <2>1, <2>2 DEF IndexUnchanged
    <3>2. TypeOK' BY <1>0, <1>2, <1>3, <1>4, <2>1, <2>2 DEF TypeOK
    <3> QED BY <3>1, <3>2, KeptIndex DEF IndexInv
  <2>3. CASE locator' # locator
    <3>1. m_synced /\ locator' = m_best_block_index BY <2>1, <2>3, CommitFacts
    <3>2. Has(m_best_block_index) BY <1>0, <3>1, Outside
    <3>3. TypeOK' BY <1>0, <1>2, <1>3, <1>4, <2>1, <3>1 DEF TypeOK
    <3>4. IndexComplete' BY <2>1, <3>1, <3>2, CompleteIf DEF Has
    <3>5. Turns' BY <1>0, <1>1, <2>1 DEF Turns
    <3>6. Written' BY <1>0, <1>1, <2>1, <3>4 DEF Written, Has
    <3> QED BY <3>3, <3>5, <3>6 DEF IndexInv
  <2> QED BY <2>2, <2>3
<1> QED BY <1>5, <1>6, <1>7, <1>8, <1>9, <1>10 DEF SchedulerThread

\* What Start and Init find: the fork of the committed locator with the chain.
LEMMA StartedFacts ==
  ASSUME NEW t \in Nodes, NEW loc \in Nodes
  PROVE  LET s == Started(t, loc)
         IN  /\ s.best \in Nodes /\ Below(s.best, loc) /\ s.synced \in BOOLEAN /\ (s.synced <=> s.best = t)
             /\ s.sync \in SyncRecords /\ s.sync.pindex = s.best
             /\ s.sync.pc = (IF s.best = t THEN "done" ELSE "loop")
<1> DEFINE best == FindFork(loc, t)
<1>1. best \in Nodes /\ Below(best, loc) BY ForkFacts, Zenon
<1>2. Started(t, loc) = [best |-> best, synced |-> best = t,
                         sync |-> [pc |-> IF best = t THEN "done" ELSE "loop", pindex |-> best, timed |-> FALSE]]
  BY DEF Started
<1> HIDE DEF best
<1>3. [pc |-> IF best = t THEN "done" ELSE "loop", pindex |-> best, timed |-> FALSE] \in SyncRecords
  BY <1>1 DEF SyncRecords
<1> DEFINE s == Started(t, loc)
<1>4. s.best = best /\ s.sync = [pc |-> IF best = t THEN "done" ELSE "loop", pindex |-> best, timed |-> FALSE]
  BY <1>2
<1>5. s.synced = (best = t)
  <2> DEFINE y == best = t
             r == [pc |-> IF best = t THEN "done" ELSE "loop", pindex |-> best, timed |-> FALSE]
  <2>1. s = [best |-> best, synced |-> y, sync |-> r] BY <1>2, Zenon
  <2> HIDE DEF s, y, r
  <2>2. s.synced = y BY <2>1
  <2> QED BY <2>2 DEF y
<1> HIDE DEF s
<1>6. s.sync.pindex = best /\ s.sync.pc = IF best = t THEN "done" ELSE "loop" BY <1>4
<1>7. s.synced \in BOOLEAN /\ (s.synced <=> s.best = t) BY <1>4, <1>5, Zenon
<1> QED BY <1>1, <1>3, <1>4, <1>6, <1>7 DEF s

\* The first start writes nothing, and calls nothing indexed.
LEMMA InitIndex ==
  ASSUME Init
  PROVE  IndexInv
<1> DEFINE s == Started(tip, locator)
<1>1. tip \in Nodes /\ flushedTip \in Nodes /\ locator \in Nodes /\ caller \in Nodes /\ locator = NullBlock
  BY IndexAssumption DEF Init, Nodes
<1>2. m_best_block_index = s.best /\ m_synced = s.synced /\ sync = s.sync /\ handler = Idle /\ queue = <<>>
  BY DEF Init
<1>3. /\ s.best \in Nodes /\ Below(s.best, locator) /\ s.synced \in BOOLEAN /\ (s.synced <=> s.best = tip)
      /\ s.sync \in SyncRecords /\ s.sync.pindex = s.best
      /\ s.sync.pc = (IF s.best = tip THEN "done" ELSE "loop")
  BY <1>1, StartedFacts, Zenon
<1> HIDE DEF s
<1>4. Idle \in HandlerRecords /\ Idle.pc = "idle" BY DEF Idle, HandlerRecords, Nodes
<1>5. TypeOK BY <1>1, <1>2, <1>3, <1>4 DEF TypeOK
<1>6. Turns BY <1>2, <1>3, <1>4 DEF Turns
<1>7. Expected(locator) = {} /\ Expected(s.best) \subseteq Expected(locator) BY <1>1, <1>3, ExpectedFacts
<1>8. Written BY <1>2, <1>3, <1>4, <1>7 DEF Written, IndexComplete, Has
<1> QED BY <1>5, <1>6, <1>8 DEF IndexInv

\* Every step keeps it.
LEMMA IndexStep ==
  ASSUME IndexInv, ~WindowFaults, [Next]_vars
  PROVE  IndexInv'
<1>0. TypeOK /\ tip \in Nodes /\ locator \in Nodes /\ flushedTip \in Nodes /\ queue \in Seq(Entries) BY DEF IndexInv, TypeOK
<1>1. CASE ThreadSync BY <1>1, SyncIndexStep
<1>2. CASE SchedulerThread BY <1>2, SchedulerIndexStep
<1>3. ASSUME NEW b \in Blocks, ActivateBestChain(b) PROVE IndexInv'
  <2>1. IndexUnchanged /\ tip' = b /\ queue' = queue \o Added(tip, b) /\ UNCHANGED <<flushedTip, caller>> /\ Height(b) > Height(tip)
    BY <1>3 DEF ActivateBestChain, Added
  <2>2. Added(tip, b) \in Seq(Entries) BY <1>0, <2>1, BranchFacts, Zenon
  <2>3. queue' \in Seq(Entries) BY <1>0, <2>1, <2>2, QueueConcat, Zenon
  <2>4. b \in Nodes BY DEF Nodes
  <2>5. TypeOK' BY <1>0, <2>1, <2>3, <2>4 DEF TypeOK, IndexUnchanged, disk, memory
  <2> QED BY <2>1, <2>5, KeptIndex DEF IndexInv
<1>4. CASE FlushStateToDisk
  <2>1. IndexUnchanged /\ flushedTip' = tip /\ UNCHANGED <<tip, caller>>
        /\ queue' = Append(queue, [kind |-> "ChainStateFlushed", block |-> tip])
    BY <1>4 DEF FlushStateToDisk
  <2>2. [kind |-> "ChainStateFlushed", block |-> tip] \in Entries BY <1>0 DEF Entries, Kinds
  <2>3. queue' \in Seq(Entries) BY <1>0, <2>1, <2>2, QueueAppend, Zenon
  <2>4. TypeOK' BY <1>0, <2>1, <2>3 DEF TypeOK, IndexUnchanged, disk, memory
  <2> QED BY <2>1, <2>4, KeptIndex DEF IndexInv
<1>5. CASE Interrupt
  <2>1. IndexUnchanged /\ UNCHANGED <<tip, flushedTip, caller, queue>> BY <1>5 DEF Interrupt, chain
  <2>2. TypeOK' BY <1>0, <2>1 DEF TypeOK, IndexUnchanged, disk, memory
  <2> QED BY <2>1, <2>2, KeptIndex DEF IndexInv
<1>6. CASE CallWaits
  <2>1. IndexUnchanged /\ UNCHANGED <<tip, flushedTip>> /\ caller' = tip
        /\ queue' = Append(queue, [kind |-> "sync", block |-> NullBlock])
    BY <1>6 DEF CallWaits, chain
  <2>2. [kind |-> "sync", block |-> NullBlock] \in Entries BY DEF Entries, Kinds, Nodes
  <2>3. queue' \in Seq(Entries) BY <1>0, <2>1, <2>2, QueueAppend, Zenon
  <2>4. TypeOK' BY <1>0, <2>1, <2>3 DEF TypeOK, IndexUnchanged, disk, memory
  <2> QED BY <2>1, <2>4, KeptIndex DEF IndexInv
<1>7. CASE Restart
  <2> DEFINE s == Started(flushedTip, locator)
  <2>1. m_best_block_index' = s.best /\ m_synced' = s.synced /\ sync' = s.sync /\ handler' = Idle /\ queue' = <<>>
        /\ tip' = flushedTip /\ caller' = NullBlock /\ UNCHANGED <<flushedTip, indexed, locator>> /\ ~InWindow
    BY <1>7 DEF Restart, disk
  <2>2. /\ s.best \in Nodes /\ Below(s.best, locator) /\ s.synced \in BOOLEAN /\ (s.synced <=> s.best = flushedTip)
        /\ s.sync \in SyncRecords /\ s.sync.pindex = s.best
        /\ s.sync.pc = (IF s.best = flushedTip THEN "done" ELSE "loop")
    BY <1>0, StartedFacts, Zenon
  <2> HIDE DEF s
  <2>3. Idle \in HandlerRecords /\ Idle.pc = "idle" BY DEF Idle, HandlerRecords, Nodes
  <2>4. TypeOK' BY <1>0, <2>1, <2>2, <2>3 DEF TypeOK, Nodes
  <2>5. Turns' BY <2>1, <2>2, <2>3 DEF Turns
  <2>6. Has(locator) /\ Has(s.best)
    <3>1. Has(locator) BY <2>1, Outside
    <3> QED BY <1>0, <2>2, <3>1, ExpectedFacts DEF Has
  <2>7. IndexComplete' BY <2>1, <2>6, CompleteIf DEF Has
  <2>8. Has(sync.pindex)' BY <2>1, <2>2, <2>6 DEF Has
  <2>9. sync'.pc \in {"done", "loop"} /\ handler'.pc = "idle" BY <2>1, <2>2, <2>3
  <2>10. Written' BY <2>7, <2>8, <2>9 DEF Written
  <2> QED BY <2>4, <2>5, <2>10 DEF IndexInv
<1>8. CASE UNCHANGED vars
  <2>1. IndexUnchanged /\ UNCHANGED <<tip, flushedTip, caller, queue>> BY <1>8 DEF vars, chain, IndexUnchanged
  <2>2. TypeOK' BY <1>0, <2>1 DEF TypeOK, IndexUnchanged, disk, memory
  <2> QED BY <2>1, <2>2, KeptIndex DEF IndexInv
<1> QED BY <1>1, <1>2, <1>3, <1>4, <1>5, <1>6, <1>7, <1>8 DEF Next

\* BaseIndex calls a block indexed only when it is, and all below it are: the
\* best block and the committed locator, through the walk of ThreadSync, the
\* notifications of any number of branches, failed writes and commits, and
\* restarts, when none falls in ThreadSync's commit before its write.
THEOREM IndexAlwaysComplete ==
  ASSUME ~WindowFaults
  PROVE  Spec => []IndexComplete
<1>1. Init => IndexInv BY InitIndex
<1>2. IndexInv /\ [Next]_vars => IndexInv' BY IndexStep
<1>3. IndexInv => IndexComplete BY DEF IndexInv, Written
<1> QED BY <1>1, <1>2, <1>3, PTL DEF Spec

---------------------------------------------------------------------------
(* The backlog of notifications. *)

\* Taking the first entry leaves a trail that ends where it did.
LEMMA TailTrail ==
  ASSUME NEW q \in Seq(Entries), q # <<>>, Trail(q)
  PROVE  Trail(Tail(q))
<1> DEFINE r == Tail(q)
           L == Len(q)
<1>1. r \in Seq(Entries) /\ L \in Nat \ {0} /\ Len(r) = L - 1 /\ \A i \in 1 .. L - 1 : r[i] = q[i + 1] BY QueueTail
<1>2. DOMAIN q = 1 .. L /\ DOMAIN r = 1 .. L - 1 BY <1>1
<1>3. ASSUME NEW i \in DOMAIN r, Conn(r, i) PROVE r[i].block \in Blocks
  <2>1. i + 1 \in DOMAIN q /\ r[i] = q[i + 1]
    <3> HIDE DEF r, L
    <3> QED BY <1>1, <1>2
  <2>2. Conn(q, i + 1) BY <1>3, <2>1 DEF Conn
  <2> QED BY <2>1, <2>2 DEF Trail
<1>4. ASSUME NEW i \in DOMAIN r, NEW j \in DOMAIN r, i < j, Conn(r, i), Conn(r, j), NoneIn(r, i + 1, j - 1)
      PROVE  Below(pprev(r[j].block), r[i].block)
  <2> HIDE DEF r, L
  <2>1. i + 1 \in DOMAIN q /\ j + 1 \in DOMAIN q /\ i + 1 < j + 1 /\ r[i] = q[i + 1] /\ r[j] = q[j + 1] BY <1>1, <1>2, <1>4
  <2>2. Conn(q, i + 1) /\ Conn(q, j + 1) BY <1>4, <2>1 DEF Conn
  <2>3. NoneIn(q, (i + 1) + 1, (j + 1) - 1)
    <3>1. ASSUME NEW k \in (i + 1) + 1 .. (j + 1) - 1 PROVE ~Conn(q, k)
      <4>1. k - 1 \in i + 1 .. j - 1 /\ k - 1 \in 1 .. L - 1 /\ (k - 1) + 1 = k BY <1>1, <1>2
      <4>2. r[k - 1] = q[k] BY <1>1, <4>1
      <4> QED BY <1>4, <4>1, <4>2 DEF NoneIn, Conn
    <3> QED BY <3>1 DEF NoneIn
  <2>4. Below(pprev(q[j + 1].block), q[i + 1].block) BY <2>1, <2>2, <2>3, Zenon DEF Trail
  <2> QED BY <2>1, <2>4
<1> QED BY <1>3, <1>4 DEF Trail

\* What is left of the first n entries ends where they did.
LEMMA TailEnds ==
  ASSUME NEW q \in Seq(Entries), q # <<>>, NEW n \in 1 .. Len(q), NEW t, EndsAt(q, n, t)
  PROVE  EndsAt(Tail(q), n - 1, t)
<1> DEFINE r == Tail(q)
           L == Len(q)
<1>1. L \in Nat \ {0} /\ \A i \in 1 .. L - 1 : r[i] = q[i + 1] BY QueueTail
<1>2. n \in 1 .. L OBVIOUS
<1> HIDE DEF r, L
<1>3. ASSUME NEW i \in 1 .. n - 1, Conn(r, i), NoneIn(r, i + 1, n - 1) PROVE r[i].block = t
  <2>1. i + 1 \in 1 .. n /\ r[i] = q[i + 1] BY <1>1, <1>2
  <2>2. ASSUME NEW k \in i + 1 + 1 .. n PROVE ~Conn(q, k)
    <3>1. k - 1 \in i + 1 .. n - 1 /\ r[k - 1] = q[k] BY <1>1, <1>2
    <3> QED BY <1>3, <3>1 DEF NoneIn, Conn
  <2>3. Conn(q, i + 1) /\ NoneIn(q, i + 1 + 1, n) BY <1>3, <2>1, <2>2 DEF Conn, NoneIn
  <2> QED BY <2>1, <2>3 DEF EndsAt
<1> QED BY <1>3 DEF EndsAt, r

\* An entry the index does not take leads nowhere.
LEMMA TailSkip ==
  ASSUME NEW q \in Seq(Entries), q # <<>>, NEW n \in 1 .. Len(q), NEW m, NEW t, Leads(q, n, m, t),
         ~(Conn(q, 1) /\ Below(pprev(q[1].block), m))
  PROVE  Leads(Tail(q), n - 1, m, t)
<1> DEFINE r == Tail(q)
           L == Len(q)
<1>1. L \in Nat \ {0} /\ \A i \in 1 .. L - 1 : r[i] = q[i + 1] BY QueueTail
<1>2. n \in 1 .. L OBVIOUS
<1> HIDE DEF r, L
<1>3. ASSUME NEW i \in 1 .. n, Conn(q, i), Below(pprev(q[i].block), m) PROVE Leads(r, n - 1, m, t)
  <2>1. i # 1 BY <1>3
  <2>2. i - 1 \in 1 .. n - 1 /\ r[i - 1] = q[i] BY <1>1, <1>2, <2>1
  <2> QED BY <1>3, <2>2 DEF Leads, Conn
<1> QED BY <1>3 DEF Leads, r

\* A block the index takes leads on: what follows builds on it, or it is the last.
LEMMA TailTake ==
  ASSUME NEW q \in Seq(Entries), q # <<>>, NEW n \in 1 .. Len(q), NEW t \in Nodes,
         Trail(q), EndsAt(q, n, t), Conn(q, 1)
  PROVE  Leads(Tail(q), n - 1, q[1].block, t)
<1> DEFINE r == Tail(q)
           L == Len(q)
           T == {k \in 2 .. n : Conn(q, k)}
<1>1. L \in Nat \ {0} /\ \A i \in 1 .. L - 1 : r[i] = q[i + 1] BY QueueTail
<1>2. n \in 1 .. L /\ DOMAIN q = 1 .. L OBVIOUS
<1> HIDE DEF r, L
<1>3. 1 \in 1 .. n /\ 1 \in DOMAIN q BY <1>1, <1>2
<1>4. CASE T = {}
  <2>1. NoneIn(q, 1 + 1, n)
    <3>1. 1 + 1 = 2 OBVIOUS
    <3> QED BY <1>4, <3>1 DEF NoneIn
  <2>2. q[1].block = t BY <1>3, <2>1 DEF EndsAt
  <2> QED BY <2>2, BelowOrder DEF Leads
<1>5. CASE T # {}
  <2>1. T \subseteq Nat BY <1>1, <1>2
  <2>2. PICK j \in T : \A y \in T : j <= y
    <3> HIDE DEF T
    <3> QED BY <1>5, <2>1, Least, Zenon
  <2>3. j \in 2 .. n /\ Conn(q, j) OBVIOUS
  <2>4. NoneIn(q, 1 + 1, j - 1)
    <3>1. ASSUME NEW k \in 1 + 1 .. j - 1, Conn(q, k) PROVE FALSE
      <4>1. k \in 2 .. n /\ k < j BY <1>1, <1>2, <2>3
      <4>2. j <= k BY <2>2, <3>1, <4>1
      <4> QED BY <2>3, <4>1, <4>2
    <3> QED BY <3>1 DEF NoneIn
  <2>5. j \in DOMAIN q /\ 1 < j /\ j - 1 \in 1 .. n - 1 /\ r[j - 1] = q[j] BY <1>1, <1>2, <2>3
  <2>6. Below(pprev(q[j].block), q[1].block) BY <1>3, <2>3, <2>4, <2>5 DEF Trail
  <2> QED BY <2>3, <2>5, <2>6, Zenon DEF Leads, Conn, r
<1> QED BY <1>4, <1>5

\* What only looks at the first n entries.
LEMMA SamePrefix ==
  ASSUME NEW q, NEW r, NEW n, \A i \in 1 .. n : r[i] = q[i], n \in Nat, NEW m, NEW t
  PROVE  /\ EndsAt(q, n, t) => EndsAt(r, n, t)
         /\ Leads(q, n, m, t) => Leads(r, n, m, t)
<1>1. \A i \in 1 .. n : Conn(r, i) <=> Conn(q, i) BY DEF Conn
<1>2. \A i \in 1 .. n : NoneIn(r, i + 1, n) <=> NoneIn(q, i + 1, n)
  <2>1. ASSUME NEW i \in 1 .. n, NEW k \in i + 1 .. n PROVE k \in 1 .. n OBVIOUS
  <2> QED BY <1>1, <2>1 DEF NoneIn
<1> QED BY <1>1, <1>2 DEF EndsAt, Leads

\* An entry that is not about a block changes nothing of it.
LEMMA AppendOther ==
  ASSUME NEW q \in Seq(Entries), NEW e \in Entries, e.kind # "BlockConnected", Trail(q)
  PROVE  /\ Trail(Append(q, e))
         /\ \A t : EndsAt(q, Len(q), t) => EndsAt(Append(q, e), Len(q) + 1, t)
         /\ \A m, t : Leads(q, Len(q), m, t) => Leads(Append(q, e), Len(q) + 1, m, t)
<1> DEFINE r == Append(q, e)
           L == Len(q)
<1>1. r \in Seq(Entries) /\ L \in Nat /\ Len(r) = L + 1 /\ (\A i \in 1 .. L : r[i] = q[i]) /\ r[L + 1] = e BY QueueAppend
<1>2. DOMAIN q = 1 .. L /\ DOMAIN r = 1 .. L + 1 BY <1>1
<1> HIDE DEF r, L
<1>3. ~Conn(r, L + 1) /\ \A i \in 1 .. L : Conn(r, i) <=> Conn(q, i) BY <1>1 DEF Conn
<1>4. \A i \in 1 .. L + 1 : Conn(r, i) => i \in 1 .. L BY <1>1, <1>3
<1>5. Trail(r)
  <2>1. ASSUME NEW i \in DOMAIN r, Conn(r, i) PROVE r[i].block \in Blocks
    <3>1. i \in 1 .. L /\ r[i] = q[i] /\ Conn(q, i) BY <1>1, <1>2, <1>3, <1>4, <2>1
    <3> QED BY <1>2, <3>1 DEF Trail
  <2>2. ASSUME NEW i \in DOMAIN r, NEW j \in DOMAIN r, i < j, Conn(r, i), Conn(r, j), NoneIn(r, i + 1, j - 1)
        PROVE  Below(pprev(r[j].block), r[i].block)
    <3>1. i \in 1 .. L /\ r[i] = q[i] /\ Conn(q, i) /\ j \in 1 .. L /\ r[j] = q[j] /\ Conn(q, j)
      BY <1>1, <1>2, <1>3, <1>4, <2>2
    <3>2. ASSUME NEW k \in i + 1 .. j - 1 PROVE ~Conn(q, k)
      <4>1. k \in 1 .. L BY <1>1, <3>1
      <4> QED BY <1>3, <2>2, <4>1 DEF NoneIn
    <3>3. NoneIn(q, i + 1, j - 1) BY <3>2 DEF NoneIn
    <3>4. Below(pprev(q[j].block), q[i].block) BY <1>2, <2>2, <3>1, <3>3, Zenon DEF Trail
    <3> QED BY <3>1, <3>4
  <2> QED BY <2>1, <2>2 DEF Trail
<1>6. ASSUME NEW t, EndsAt(q, L, t) PROVE EndsAt(r, L + 1, t)
  <2>1. ASSUME NEW i \in 1 .. L + 1, Conn(r, i), NoneIn(r, i + 1, L + 1) PROVE r[i].block = t
    <3>1. i \in 1 .. L /\ r[i] = q[i] /\ Conn(q, i) BY <1>1, <1>3, <1>4, <2>1
    <3>2. ASSUME NEW k \in i + 1 .. L PROVE ~Conn(q, k)
      <4>1. k \in 1 .. L /\ k \in i + 1 .. L + 1 BY <1>1, <3>1
      <4> QED BY <1>3, <2>1, <4>1 DEF NoneIn
    <3>3. NoneIn(q, i + 1, L) BY <3>2 DEF NoneIn
    <3> QED BY <1>6, <3>1, <3>3 DEF EndsAt
  <2> QED BY <2>1 DEF EndsAt
<1>7. ASSUME NEW m, NEW t, Leads(q, L, m, t) PROVE Leads(r, L + 1, m, t)
  <2>1. \A i \in 1 .. L : i \in 1 .. L + 1 BY <1>1
  <2> QED BY <1>1, <1>3, <1>7, <2>1 DEF Leads
<1> QED BY <1>5, <1>6, <1>7 DEF r, L

\* The blocks that ActivateBestChain connects continue the trail, from a block below the old tip.
LEMMA Extended ==
  ASSUME NEW q \in Seq(Entries), NEW t \in Nodes, NEW b \in Blocks, Height(b) > Height(t), Trail(q), EndsAt(q, Len(q), t)
  PROVE  LET r == q \o Added(t, b)
         IN  /\ Trail(r) /\ EndsAt(r, Len(r), b)
             /\ \A m \in Nodes : Leads(q, Len(q), m, t) => Leads(r, Len(r), m, b)
<1> DEFINE e == Added(t, b)
           f == FindFork(t, b)
           r == q \o e
           L == Len(q)
           N == Len(e)
           n == Len(f)
<1>1. e \in Seq(Entries) /\ N \in Nat \ {0} /\ Below(f, t) /\ pprev(e[1].block) = f /\ e[N].block = b
  BY BranchFacts, Zenon
<1>2. \A i \in 1 .. N : /\ e[i].kind = "BlockConnected" /\ e[i].block \in Blocks
                        /\ e[i].block = SubSeq(b, 1, n + i) /\ pprev(e[i].block) = SubSeq(b, 1, n + i - 1)
  BY BranchFacts, Zenon
<1>3. /\ r \in Seq(Entries) /\ L \in Nat /\ Len(r) = L + N
      /\ \A i \in 1 .. L : r[i] = q[i]
      /\ \A i \in 1 .. N : r[L + i] = e[i]
  BY <1>1, QueueConcat, Zenon
<1>4. DOMAIN q = 1 .. L /\ DOMAIN r = 1 .. L + N BY <1>3
<1>5. f \in Nodes /\ n \in Nat
  <2>1. b \in Nodes BY DEF Nodes
  <2>2. f \in Nodes BY <2>1, ForkFacts, Zenon
  <2> QED BY <2>2, NodeShape, Zenon
<1> HIDE DEF e, f, r, L, N, n
<1>6. \A i \in 1 .. L + N : i \in 1 .. L \/ (i - L \in 1 .. N /\ L + (i - L) = i) BY <1>1, <1>3
<1>7. /\ \A i \in 1 .. L : Conn(r, i) <=> Conn(q, i)
      /\ \A i \in 1 .. L + N : i \notin 1 .. L => Conn(r, i) /\ r[i] = e[i - L]
  <2>1. \A i \in 1 .. L : Conn(r, i) <=> Conn(q, i) BY <1>3 DEF Conn
  <2>2. ASSUME NEW i \in 1 .. L + N, i \notin 1 .. L PROVE Conn(r, i) /\ r[i] = e[i - L]
    <3>1. i - L \in 1 .. N /\ L + (i - L) = i BY <1>6, <2>2
    <3>2. r[L + (i - L)] = e[i - L] BY <1>3, <3>1
    <3>3. r[i] = e[i - L] BY <3>1, <3>2
    <3> QED BY <1>2, <3>1, <3>3 DEF Conn
  <2> QED BY <2>1, <2>2
<1>8. Trail(r)
  <2>1. ASSUME NEW i \in DOMAIN r, Conn(r, i) PROVE r[i].block \in Blocks
    <3>1. CASE i \in 1 .. L
      <4>1. Conn(q, i) /\ r[i] = q[i] BY <1>3, <1>7, <2>1, <3>1
      <4> QED BY <1>4, <3>1, <4>1 DEF Trail
    <3>2. CASE i \notin 1 .. L
      <4>1. r[i] = e[i - L] /\ i - L \in 1 .. N BY <1>4, <1>6, <1>7, <3>2
      <4> QED BY <1>2, <4>1
    <3> QED BY <3>1, <3>2
  <2>2. ASSUME NEW i \in DOMAIN r, NEW j \in DOMAIN r, i < j, Conn(r, i), Conn(r, j), NoneIn(r, i + 1, j - 1)
        PROVE  Below(pprev(r[j].block), r[i].block)
    <3>1. CASE j \in 1 .. L
      <4>1. i \in 1 .. L BY <1>3, <1>4, <2>2, <3>1
      <4>2. r[i] = q[i] /\ Conn(q, i) /\ r[j] = q[j] /\ Conn(q, j) BY <1>3, <1>7, <2>2, <3>1, <4>1
      <4>3. ASSUME NEW k \in i + 1 .. j - 1 PROVE ~Conn(q, k)
        <5>1. k \in 1 .. L BY <1>3, <3>1, <4>1
        <5> QED BY <1>7, <2>2, <5>1 DEF NoneIn
      <4>4. NoneIn(q, i + 1, j - 1) BY <4>3 DEF NoneIn
      <4>5. Below(pprev(q[j].block), q[i].block) BY <1>4, <2>2, <3>1, <4>1, <4>2, <4>4, Zenon DEF Trail
      <4> QED BY <4>2, <4>5
    <3>2. CASE j \notin 1 .. L
      <4>1. r[j] = e[j - L] /\ j - L \in 1 .. N BY <1>4, <1>6, <1>7, <3>2
      <4>2. CASE i \in 1 .. L
        <5>1. j = L + 1
          <6>1. SUFFICES ASSUME j # L + 1 PROVE FALSE OBVIOUS
          <6>2. j \in 1 .. L + N /\ L \in Nat /\ N \in Nat \ {0} BY <1>1, <1>3, <1>4
          <6>3. j > L + 1 BY <3>2, <6>1, <6>2
          <6>4. L + 1 \in i + 1 .. j - 1 /\ L + 1 \in 1 .. L + N /\ L + 1 \notin 1 .. L BY <4>2, <6>2, <6>3
          <6> QED BY <1>7, <2>2, <6>4 DEF NoneIn
        <5>2. pprev(r[j].block) = f
          <6>1. j - L = 1 BY <1>3, <5>1
          <6> QED BY <1>1, <4>1, <6>1
        <5>3. r[i] = q[i] /\ Conn(q, i) BY <1>3, <1>7, <2>2, <4>2
        <5>4. ASSUME NEW k \in i + 1 .. L PROVE ~Conn(q, k)
          <6>1. k \in 1 .. L /\ k \in i + 1 .. j - 1 BY <1>3, <4>2, <5>1
          <6> QED BY <1>7, <2>2, <6>1 DEF NoneIn
        <5>5. NoneIn(q, i + 1, L) BY <5>4 DEF NoneIn
        <5>6. q[i].block = t BY <4>2, <5>3, <5>5 DEF EndsAt, L
        <5> QED BY <1>1, <5>2, <5>3, <5>6
      <4>3. CASE i \notin 1 .. L
        <5>1. r[i] = e[i - L] /\ i - L \in 1 .. N BY <1>4, <1>6, <1>7, <4>3
        <5>2. j = i + 1
          <6>1. SUFFICES ASSUME j # i + 1 PROVE FALSE OBVIOUS
          <6>2. i \in 1 .. L + N /\ j \in 1 .. L + N /\ L \in Nat /\ N \in Nat BY <1>1, <1>3, <1>4
          <6>3. i + 1 \in i + 1 .. j - 1 BY <2>2, <6>1, <6>2
          <6>4. i + 1 \in 1 .. L + N /\ i + 1 \notin 1 .. L BY <2>2, <4>3, <6>2
          <6> QED BY <1>7, <2>2, <6>3, <6>4, Zenon DEF NoneIn
        <5>3. n + (j - L) - 1 = n + (i - L) BY <1>3, <1>4, <1>5, <5>2
        <5>4. pprev(r[j].block) = SubSeq(b, 1, n + (j - L) - 1) /\ r[i].block = SubSeq(b, 1, n + (i - L)) BY <1>2, <4>1, <5>1
        <5>5. pprev(r[j].block) = r[i].block BY <5>3, <5>4, Zenon
        <5>6. r[i].block \in Nodes BY <1>2, <5>1 DEF Nodes
        <5> QED BY <5>5, <5>6, BelowOrder
      <4> QED BY <4>2, <4>3
    <3> QED BY <3>1, <3>2
  <2> QED BY <2>1, <2>2 DEF Trail
<1>9. EndsAt(r, L + N, b)
  <2>1. ASSUME NEW i \in 1 .. L + N, NoneIn(r, i + 1, L + N) PROVE r[i].block = b
    <3>1. L + N \in 1 .. L + N /\ L + N \notin 1 .. L /\ (L + N) - L = N BY <1>1, <1>3
    <3>2. i = L + N
      <4>1. SUFFICES ASSUME i # L + N PROVE FALSE OBVIOUS
      <4>2. L + N \in i + 1 .. L + N BY <1>1, <1>3, <4>1
      <4> QED BY <1>7, <2>1, <3>1, <4>2 DEF NoneIn
    <3>3. r[i] = e[N] BY <1>7, <3>1, <3>2
    <3> QED BY <1>1, <3>3
  <2> QED BY <2>1 DEF EndsAt
<1>10. ASSUME NEW m \in Nodes, Leads(q, L, m, t) PROVE Leads(r, L + N, m, b)
  <2>1. CASE Below(t, m)
    <3>1. Below(f, m) BY <1>1, <1>5, <2>1, BelowOrder
    <3>2. L + 1 \in 1 .. L + N /\ L + 1 \notin 1 .. L /\ (L + 1) - L = 1 BY <1>1, <1>3
    <3>3. Conn(r, L + 1) /\ r[L + 1] = e[1] BY <1>7, <3>2
    <3> QED BY <1>1, <3>1, <3>2, <3>3 DEF Leads
  <2>2. ASSUME NEW i \in 1 .. L, Conn(q, i), Below(pprev(q[i].block), m) PROVE Leads(r, L + N, m, b)
    <3>1. i \in 1 .. L + N /\ r[i] = q[i] /\ Conn(r, i) BY <1>1, <1>3, <1>7, <2>2
    <3> QED BY <2>2, <3>1 DEF Leads
  <2> QED BY <1>10, <2>1, <2>2 DEF Leads
<1> QED BY <1>3, <1>8, <1>9, <1>10 DEF r, e, L

\* A step that leaves the queue, the tip and the caller alone.
LEMMA KeptTrack ==
  ASSUME Tracks, Waits, UNCHANGED <<queue, tip, caller>>, m_synced => m_synced',
         sync'.pc = "flag" => Below(tip, m_best_block_index'),
         m_synced' /\ stopped' = "no" => stopped = "no" /\ m_synced /\ Current' = Current
  PROVE  Tracks' /\ Waits'
<1>1. Tracks' BY DEF Tracks
<1>2. Waits'
  <2>1. CASE caller = NullBlock BY <2>1 DEF Waits
  <2>2. CASE caller # NullBlock
    <3>1. PICK n \in DOMAIN queue : /\ \A i \in DOMAIN queue : queue[i].kind = "sync" <=> i = n
                                    /\ EndsAt(queue, n - 1, caller)
                                    /\ stopped = "no" => Leads(queue, n - 1, Current, caller)
      BY <2>2 DEF Waits
    <3>2. m_synced' BY <2>2 DEF Waits
    <3>3. stopped' = "no" => Leads(queue', n - 1, Current', caller') BY <3>1, <3>2
    <3>4. EndsAt(queue', n - 1, caller') BY <3>1
    <3>5. n \in DOMAIN queue' /\ \A i \in DOMAIN queue' : queue'[i].kind = "sync" <=> i = n BY <3>1
    <3> QED BY <2>2, <3>2, <3>3, <3>4, <3>5 DEF Waits
  <2> QED BY <2>1, <2>2
<1> QED BY <1>1, <1>2

\* A step that takes an entry other than the caller's.
LEMMA TailTrack ==
  ASSUME TypeOK, Tracks, Waits, queue # <<>>, queue[1].kind # "sync", queue' = Tail(queue),
         UNCHANGED <<tip, caller, m_synced, sync>>, sync.pc = "flag" => m_best_block_index' = m_best_block_index,
         ASSUME NEW n \in 1 .. Len(queue), NEW t \in Nodes, m_synced, stopped' = "no", EndsAt(queue, n, t),
                stopped = "no" => Leads(queue, n, Current, t)
         PROVE  Leads(Tail(queue), n - 1, Current', t)
  PROVE  Tracks' /\ Waits'
<1> DEFINE L == Len(queue)
           r == Tail(queue)
<1>0. queue \in Seq(Entries) /\ tip \in Nodes /\ caller \in Nodes BY DEF TypeOK
<1>1. r \in Seq(Entries) /\ L \in Nat \ {0} /\ Len(r) = L - 1 /\ \A i \in 1 .. L - 1 : r[i] = queue[i + 1] BY <1>0, QueueTail
<1>2. DOMAIN queue = 1 .. L /\ DOMAIN r = 1 .. L - 1 BY <1>0, <1>1
<1>3. L \in 1 .. L BY <1>1
<1>4. Tracks'
  <2>1. Trail(r) BY <1>0, TailTrail DEF Tracks
  <2>2. EndsAt(r, L - 1, tip) BY <1>0, <1>3, TailEnds DEF Tracks
  <2>3. m_synced /\ stopped' = "no" => Leads(r, L - 1, Current', tip) BY <1>0, <1>3 DEF Tracks
  <2>4. sync'.pc = "flag" => Below(tip', m_best_block_index') BY DEF Tracks
  <2> HIDE DEF L, r
  <2>5. queue' = r BY DEF r
  <2> QED BY <1>1, <2>1, <2>2, <2>3, <2>4, <2>5, Zenon DEF Tracks
<1>5. Waits'
  <2>1. CASE caller = NullBlock
    <3>1. \A i \in 1 .. L : queue[i].kind # "sync" BY <1>2, <2>1 DEF Waits
    <3>2. \A i \in 1 .. L - 1 : i + 1 \in 1 .. L
      <4> HIDE DEF L
      <4> QED BY <1>1
    <3>3. \A i \in DOMAIN queue' : queue'[i].kind # "sync" BY <1>1, <1>2, <3>1, <3>2
    <3> QED BY <2>1, <3>3 DEF Waits
  <2>2. CASE caller # NullBlock
    <3>1. PICK n \in DOMAIN queue : /\ \A i \in DOMAIN queue : queue[i].kind = "sync" <=> i = n
                                    /\ EndsAt(queue, n - 1, caller)
                                    /\ stopped = "no" => Leads(queue, n - 1, Current, caller)
      BY <2>2 DEF Waits
    <3>2. m_synced BY <2>2 DEF Waits
    <3>3. n # 1 /\ n \in 1 .. L BY <1>2, <3>1
    <3>4. n - 1 \in 1 .. L /\ n - 1 \in 1 .. L - 1 /\ (n - 1) + 1 = n
      <4> HIDE DEF L
      <4> QED BY <1>1, <3>3
    <3>5. EndsAt(r, (n - 1) - 1, caller) BY <1>0, <3>1, <3>4, TailEnds
    <3>6. stopped' = "no" => Leads(r, (n - 1) - 1, Current', caller) BY <1>0, <3>1, <3>2, <3>4
    <3>7. \A i \in DOMAIN r : r[i].kind = "sync" <=> i = n - 1
      <4> HIDE DEF L, r
      <4>1. ASSUME NEW i \in DOMAIN r PROVE r[i].kind = "sync" <=> i = n - 1
        <5>1. i \in 1 .. L - 1 BY <1>2, Zenon
        <5>2. i + 1 \in 1 .. L /\ (i = n - 1 <=> i + 1 = n) BY <1>1, <3>3, <5>1
        <5>3. r[i] = queue[i + 1] BY <1>1, <5>1, Zenon
        <5> QED BY <1>2, <3>1, <5>2, <5>3, Zenon
      <4> QED BY <4>1
    <3>8. n - 1 \in DOMAIN r BY <1>2, <3>4
    <3> HIDE DEF r
    <3>9. queue' = r BY DEF r
    <3>10. /\ \A i \in DOMAIN queue' : queue'[i].kind = "sync" <=> i = n - 1
           /\ EndsAt(queue', (n - 1) - 1, caller')
           /\ stopped' = "no" => Leads(queue', (n - 1) - 1, Current', caller')
      BY <3>5, <3>6, <3>7, <3>9, Zenon
    <3> QED BY <2>2, <3>2, <3>8, <3>9, <3>10 DEF Waits
  <2> QED BY <2>1, <2>2
<1> QED BY <1>4, <1>5

\* The steps of ThreadSync.
LEMMA SyncTrackStep ==
  ASSUME Inv, ThreadSync
  PROVE  Tracks' /\ Waits'
<1> USE DEF SyncLeaves, chain, disk, memory, NoFault, FatalError
<1>0. IndexInv /\ TypeOK /\ Turns /\ Tracks /\ Waits /\ tip \in Nodes /\ sync.pindex \in Nodes
  BY Records DEF Inv, IndexInv, TypeOK
<1>1. UNCHANGED <<queue, tip, caller, handler>>
  BY DEF ThreadSync, SyncReached, SyncFlag, SyncForward, SyncRewindAsserts, SyncNoInterval, SyncInterrupted,
         SyncEndCommit, SyncRewind, SyncInterval, SyncWrite
<1>2. CASE SyncFlag
  <2>1. sync.pc = "flag" /\ m_synced' /\ m_best_block_index' = m_best_block_index /\ sync' = [sync EXCEPT !.pc = "endcommit"]
    BY <1>2 DEF SyncFlag
  <2>2. sync'.pc = "endcommit" BY <1>0, <2>1, SyncTo
  <2>3. ~m_synced /\ handler.pc = "idle" BY <1>0, <2>1 DEF Turns
  <2>4. Current' = m_best_block_index BY <1>1, <2>1, <2>3 DEF Current
  <2>5. Below(tip, m_best_block_index) BY <1>0, <2>1 DEF Tracks
  <2>6. Leads(queue', Len(queue'), Current', tip') BY <1>1, <2>4, <2>5 DEF Leads
  <2>7. Tracks' BY <1>0, <1>1, <2>2, <2>6 DEF Tracks
  <2>8. caller = NullBlock BY <1>0, <2>3 DEF Waits
  <2>9. Waits' BY <1>0, <1>1, <2>8 DEF Waits
  <2> QED BY <2>7, <2>9
<1>3. ASSUME ~SyncFlag, SyncReached \/ sync'.pc # "flag", SyncReached => Below(tip, m_best_block_index'),
             (~m_synced /\ ~m_synced') \/ UNCHANGED <<m_synced, m_best_block_index>>, stopped' = stopped \/ stopped' # "no"
      PROVE  Tracks' /\ Waits'
  <2>1. m_synced => m_synced' BY <1>3
  <2>2. sync'.pc = "flag" => Below(tip, m_best_block_index') BY <1>3
  <2>3. m_synced' /\ stopped' = "no" => stopped = "no" /\ m_synced /\ Current' = Current BY <1>1, <1>3, Zenon DEF Current
  <2> QED BY <1>0, <1>1, <2>1, <2>2, <2>3, KeptTrack
<1>4. CASE SyncReached
  <2>1. sync.pc = "loop" /\ m_best_block_index' = sync.pindex /\ NextSyncBlock(sync.pindex) = NullBlock
        /\ m_synced' = m_synced /\ stopped' = stopped
    BY <1>4 DEF SyncReached
  <2>2. Below(tip, sync.pindex) BY <1>0, <2>1, NextFacts, Zenon
  <2>3. ~m_synced BY <1>0, <2>1 DEF Turns
  <2>4. ~SyncFlag BY <2>1 DEF SyncFlag
  <2> QED BY <1>3, <1>4, <2>1, <2>2, <2>3, <2>4
<1>5. ASSUME ~SyncFlag, ~SyncReached PROVE Tracks' /\ Waits'
  <2>1. sync'.pc # "flag"
    <3>1. \/ sync' = sync /\ sync.pc # "flag"
          \/ \E c \in {"done", "time", "write", "loop"} : sync' = [sync EXCEPT !.pc = c]
          \/ sync' = [sync EXCEPT !.pc = "time", !.pindex = NextSyncBlock(sync.pindex)]
          \/ sync' = [sync EXCEPT !.pc = "write", !.timed = TRUE]
      BY <1>5 DEF ThreadSync, SyncForward, SyncRewindAsserts, SyncNoInterval, SyncInterrupted,
         SyncEndCommit, SyncRewind, SyncInterval, SyncWrite
    <3>2. NextSyncBlock(sync.pindex) \in Nodes BY <1>0, NextFacts, Zenon
    <3> QED BY <1>0, <3>1, <3>2, SyncTo, SyncAt, SyncTimed, Zenon
  <2>2. m_synced' = m_synced /\ (stopped' = stopped \/ stopped' # "no")
    BY <1>5 DEF ThreadSync, SyncForward, SyncRewindAsserts, SyncNoInterval, SyncInterrupted,
         SyncEndCommit, SyncRewind, SyncInterval, SyncWrite
  <2>3. sync.pc \in {"loop", "time", "write"} \/ m_best_block_index' = m_best_block_index
    BY <1>5 DEF ThreadSync, SyncForward, SyncRewindAsserts, SyncNoInterval, SyncInterrupted,
         SyncEndCommit, SyncRewind, SyncInterval, SyncWrite
  <2>4. (~m_synced /\ ~m_synced') \/ UNCHANGED <<m_synced, m_best_block_index>> BY <1>0, <2>2, <2>3 DEF Turns
  <2> QED BY <1>3, <1>5, <2>1, <2>2, <2>4
<1> QED BY <1>2, <1>4, <1>5

\* The steps of the scheduler's thread.
LEMMA SchedulerTrackStep ==
  ASSUME Inv, SchedulerThread
  PROVE  Tracks' /\ Waits'
<1> USE DEF SchedulerLeaves, chain, disk, memory, NoFault, FatalError
<1>0. IndexInv /\ TypeOK /\ Turns /\ Tracks /\ Waits /\ queue \in Seq(Entries) /\ m_best_block_index \in Nodes
  BY DEF Inv, IndexInv, TypeOK
<1>1. UNCHANGED <<tip, m_synced, sync>>
  BY DEF SchedulerThread, BlockConnectedIgnored, BlockConnected, ConnectedBest, CallReturns, RewindCommit,
         ConnectedWrite, ChainStateFlushed
<1>2. m_synced => sync.pc # "flag" BY <1>0 DEF Turns
<1>3. CASE BlockConnectedIgnored
  <2> DEFINE b == queue[1].block
  <2>1. handler.pc = "idle" /\ queue # <<>> /\ Head(queue).kind = "BlockConnected"
        /\ (~m_synced \/ ~ConnectsToBest(Head(queue).block)) /\ queue' = Tail(queue)
        /\ (stopped' = stopped \/ stopped' # "no")
        /\ UNCHANGED <<m_best_block_index, handler, caller>>
    BY <1>3 DEF BlockConnectedIgnored, Take
  <2>2. Head(queue) = queue[1] /\ 1 \in DOMAIN queue /\ queue[1].kind = "BlockConnected" BY <1>0, <2>1
  <2>3. Conn(queue, 1) /\ b \in Blocks BY <1>0, <2>2 DEF Conn, Tracks, Trail
  <2>4. m_synced => ~Below(pprev(b), m_best_block_index)
    <3>1. b \in Nodes BY <2>3 DEF Nodes
    <3>2. Below(pprev(b), m_best_block_index) => ConnectsToBest(b) BY <1>0, <2>3, <3>1, ConnectsFacts
    <3> QED BY <2>1, <2>2, <3>2
  <2>5. Current = m_best_block_index /\ Current' = m_best_block_index BY <2>1 DEF Current
  <2>6. ASSUME NEW n \in 1 .. Len(queue), NEW t \in Nodes, m_synced, stopped' = "no", EndsAt(queue, n, t),
               stopped = "no" => Leads(queue, n, Current, t)
        PROVE  Leads(Tail(queue), n - 1, Current', t)
    <3>1. Leads(queue, n, m_best_block_index, t) BY <2>1, <2>5, <2>6
    <3> QED BY <1>0, <2>1, <2>4, <2>5, <2>6, <3>1, TailSkip
  <2> QED BY <1>0, <1>1, <2>1, <2>2, <2>6, TailTrack
<1>4. CASE BlockConnected
  <2> DEFINE b == Head(queue).block
             c == IF m_best_block_index = pprev(b) THEN "write" ELSE "rewind"
  <2>1. handler.pc = "idle" /\ queue # <<>> /\ Head(queue).kind = "BlockConnected" /\ m_synced
        /\ queue' = Tail(queue) /\ stopped' = stopped /\ caller' = caller
        /\ handler' = [pc |-> c, block |-> b, from |-> m_best_block_index]
    BY <1>4 DEF BlockConnected, Take
  <2>2. Head(queue) = queue[1] /\ queue[1].kind = "BlockConnected" BY <1>0, <2>1
  <2>3. Conn(queue, 1) BY <2>2 DEF Conn
  <2>4. Current' = queue[1].block
    <3>1. c # "idle" /\ b = queue[1].block BY <2>2
    <3> HIDE DEF c, b
    <3> QED BY <2>1, <3>1 DEF Current
  <2>5. ASSUME NEW n \in 1 .. Len(queue), NEW t \in Nodes, m_synced, stopped' = "no", EndsAt(queue, n, t),
               stopped = "no" => Leads(queue, n, Current, t)
        PROVE  Leads(Tail(queue), n - 1, Current', t)
    BY <1>0, <2>1, <2>3, <2>4, <2>5, TailTake DEF Tracks
  <2> QED BY <1>0, <1>1, <1>2, <2>1, <2>2, <2>5, TailTrack
<1>5. ASSUME NEW ok \in BOOLEAN, ChainStateFlushed(ok) PROVE Tracks' /\ Waits'
  <2>1. handler.pc = "idle" /\ queue # <<>> /\ Head(queue).kind = "ChainStateFlushed" /\ queue' = Tail(queue)
        /\ UNCHANGED <<m_best_block_index, handler, caller, stopped>>
    BY <1>5 DEF ChainStateFlushed, Take
  <2>2. Head(queue) = queue[1] /\ queue[1].kind = "ChainStateFlushed" BY <1>0, <2>1
  <2>3. ~Conn(queue, 1) BY <2>2 DEF Conn
  <2>4. Current' = Current BY <2>1 DEF Current
  <2>5. ASSUME NEW n \in 1 .. Len(queue), NEW t \in Nodes, m_synced, stopped' = "no", EndsAt(queue, n, t),
               stopped = "no" => Leads(queue, n, Current, t)
        PROVE  Leads(Tail(queue), n - 1, Current', t)
    <3>1. Leads(queue, n, Current, t) BY <2>1, <2>5
    <3> QED BY <1>0, <2>1, <2>3, <2>4, <2>5, <3>1, TailSkip
  <2> QED BY <1>0, <1>1, <2>1, <2>2, <2>5, TailTrack
<1>6. ASSUME UNCHANGED <<queue, caller>>, handler.pc # "idle",
             stopped' = "no" => stopped = "no" /\ Current' = Current
      PROVE  Tracks' /\ Waits'
  <2>1. m_synced BY <1>0, <1>6 DEF Turns
  <2> QED BY <1>0, <1>1, <1>2, <1>6, <2>1, KeptTrack
<1>7. CASE ConnectedBest
  <2>1. handler.pc = "best" /\ m_best_block_index' = handler.block /\ handler' = Idle /\ UNCHANGED <<queue, caller, stopped>>
    BY <1>7 DEF ConnectedBest
  <2>2. Idle.pc = "idle" BY DEF Idle
  <2>3. Current' = Current BY <2>1, <2>2 DEF Current
  <2> QED BY <1>6, <2>1, <2>3
<1>8. ASSUME NEW ok \in BOOLEAN, RewindCommit(ok) PROVE Tracks' /\ Waits'
  <2>1. handler.pc = "rewind" /\ UNCHANGED <<queue, caller>>
        /\ (ok => handler' = [handler EXCEPT !.pc = "write"] /\ stopped' = stopped) /\ (~ok => stopped' = "fatal")
    BY <1>8 DEF RewindCommit
  <2>2. ok => handler'.pc = "write" /\ handler'.block = handler.block BY <1>0, <2>1, HandlerTo
  <2>3. ok => Current' = Current BY <2>1, <2>2 DEF Current
  <2> QED BY <1>6, <2>1, <2>3
<1>9. ASSUME NEW ok \in BOOLEAN, ConnectedWrite(ok) PROVE Tracks' /\ Waits'
  <2>1. handler.pc = "write" /\ UNCHANGED <<queue, caller>>
        /\ (ok => handler' = [handler EXCEPT !.pc = "best"] /\ stopped' = stopped) /\ (~ok => stopped' = "fatal")
    BY <1>9 DEF ConnectedWrite
  <2>2. ok => handler'.pc = "best" /\ handler'.block = handler.block BY <1>0, <2>1, HandlerTo
  <2>3. ok => Current' = Current BY <2>1, <2>2 DEF Current
  <2> QED BY <1>6, <2>1, <2>3
<1>10. CASE CallReturns
  <2> DEFINE L == Len(queue)
             r == Tail(queue)
  <2>1. handler.pc = "idle" /\ queue # <<>> /\ Head(queue).kind = "sync" /\ queue' = Tail(queue)
        /\ UNCHANGED <<m_best_block_index, handler, stopped>> /\ caller' = NullBlock
    BY <1>10 DEF CallReturns, Take
  <2>2. Head(queue) = queue[1] /\ queue[1].kind = "sync" BY <1>0, <2>1
  <2>3. r \in Seq(Entries) /\ L \in Nat \ {0} /\ Len(r) = L - 1 /\ \A i \in 1 .. L - 1 : r[i] = queue[i + 1]
    BY <1>0, <2>1, QueueTail
  <2>4. DOMAIN queue = 1 .. L /\ DOMAIN r = 1 .. L - 1 BY <1>0, <2>3
  <2>5. L \in 1 .. L /\ 1 \in 1 .. L BY <2>3
  <2>6. Current' = Current BY <2>1 DEF Current
  <2>7. m_synced /\ stopped = "no" => Leads(r, L - 1, Current, tip)
    <3>1. ~Conn(queue, 1) BY <2>2 DEF Conn
    <3>2. m_synced /\ stopped = "no" => Leads(queue, L, Current, tip) BY <1>0 DEF Tracks
    <3> QED BY <1>0, <2>1, <2>5, <3>1, <3>2, TailSkip
  <2>8. Tracks'
    <3>1. Trail(r) BY <1>0, <2>1, TailTrail DEF Tracks
    <3>2. EndsAt(r, L - 1, tip) BY <1>0, <2>1, <2>5, TailEnds DEF Tracks
    <3>3. sync'.pc = "flag" => Below(tip', m_best_block_index') BY <1>0, <1>1, <2>1 DEF Tracks
    <3> HIDE DEF L, r
    <3>4. queue' = r BY <2>1 DEF r
    <3> QED BY <1>1, <2>1, <2>3, <2>6, <2>7, <3>1, <3>2, <3>3, <3>4, Zenon DEF Tracks
  <2>9. Waits'
    <3>1. caller # NullBlock BY <1>0, <2>2, <2>4, <2>5 DEF Waits
    <3>2. PICK n \in DOMAIN queue : \A i \in DOMAIN queue : queue[i].kind = "sync" <=> i = n BY <1>0, <3>1 DEF Waits
    <3>3. n = 1 BY <2>2, <2>4, <2>5, <3>2
    <3>4. ASSUME NEW i \in DOMAIN r PROVE r[i].kind # "sync"
      <4> HIDE DEF L, r
      <4>1. i + 1 \in 1 .. L /\ i + 1 # 1 /\ r[i] = queue[i + 1] BY <2>3, <2>4
      <4> QED BY <2>4, <3>2, <3>3, <4>1
    <3> QED BY <2>1, <3>4 DEF Waits
  <2> QED BY <2>8, <2>9
<1> QED BY <1>3, <1>4, <1>5, <1>7, <1>8, <1>9, <1>10 DEF SchedulerThread

\* The steps of the chain and of a caller, and a restart.
LEMMA ChainTrackStep ==
  ASSUME Inv,
         \/ \E b \in Blocks : ActivateBestChain(b)
         \/ FlushStateToDisk \/ Interrupt \/ CallWaits \/ Restart \/ UNCHANGED vars
  PROVE  Tracks' /\ Waits'
<1>0. IndexInv /\ TypeOK /\ Turns /\ Tracks /\ Waits /\ queue \in Seq(Entries) /\ tip \in Nodes /\ Current \in Nodes
      /\ locator \in Nodes /\ flushedTip \in Nodes /\ m_best_block_index \in Nodes
  BY Records DEF Inv, IndexInv, TypeOK, Current
<1> DEFINE L == Len(queue)
<1>1. L \in Nat /\ DOMAIN queue = 1 .. L BY <1>0
<1>2. ASSUME NEW b \in Blocks, ActivateBestChain(b) PROVE Tracks' /\ Waits'
  <2> DEFINE e == Added(tip, b)
             r == queue \o e
  <2>1. IndexUnchanged /\ tip' = b /\ queue' = r /\ UNCHANGED <<caller, stopped>> /\ Height(b) > Height(tip) /\ sync.pc # "flag"
    BY <1>2 DEF ActivateBestChain, Added, CsMainHeld, ending
  <2>2. e \in Seq(Entries) /\ \A i \in 1 .. Len(e) : e[i].kind = "BlockConnected" BY <1>0, <2>1, BranchKinds
  <2>3. /\ r \in Seq(Entries) /\ Len(e) \in Nat /\ Len(r) = L + Len(e)
        /\ \A i \in 1 .. L : r[i] = queue[i]
        /\ \A i \in 1 .. Len(e) : r[L + i] = e[i]
    BY <1>0, <2>2, QueueConcat, Zenon
  <2>4. /\ Trail(r) /\ EndsAt(r, Len(r), b)
        /\ \A m \in Nodes : Leads(queue, L, m, tip) => Leads(r, Len(r), m, b)
    BY <1>0, <2>1, Extended, Zenon DEF Tracks
  <2>5. Current' = Current /\ m_synced' = m_synced /\ sync' = sync BY <2>1 DEF Current, IndexUnchanged, memory
  <2> DEFINE N == Len(e)
  <2>6. DOMAIN r = 1 .. L + N BY <2>3
  <2> HIDE DEF e, r, L, N
  <2>7. Tracks' BY <1>0, <2>1, <2>4, <2>5 DEF Tracks, L
  <2>8. \A i \in 1 .. L + N : i \in 1 .. L \/ r[i].kind # "sync"
    <3>1. ASSUME NEW i \in 1 .. L + N, i \notin 1 .. L PROVE r[i].kind # "sync"
      <4>1. i - L \in 1 .. N /\ L + (i - L) = i BY <1>1, <2>3, <3>1 DEF N
      <4>2. r[L + (i - L)] = e[i - L] /\ e[i - L].kind = "BlockConnected" BY <2>2, <2>3, <4>1 DEF N
      <4> QED BY <4>1, <4>2
    <3> QED BY <3>1
  <2>9. Waits'
    <3>1. CASE caller = NullBlock
      <4>1. \A i \in 1 .. L : queue[i].kind # "sync" BY <1>0, <1>1, <3>1 DEF Waits
      <4>2. \A i \in DOMAIN queue' : queue'[i].kind # "sync" BY <2>1, <2>3, <2>6, <2>8, <4>1, Zenon
      <4> QED BY <2>1, <3>1, <4>2 DEF Waits
    <3>2. CASE caller # NullBlock
      <4>1. PICK n \in DOMAIN queue : /\ \A i \in DOMAIN queue : queue[i].kind = "sync" <=> i = n
                                      /\ EndsAt(queue, n - 1, caller)
                                      /\ stopped = "no" => Leads(queue, n - 1, Current, caller)
        BY <1>0, <3>2 DEF Waits
      <4>2. m_synced BY <1>0, <3>2 DEF Waits
      <4>3. n \in 1 .. L /\ n \in 1 .. L + N /\ n - 1 \in Nat /\ \A i \in 1 .. n - 1 : i \in 1 .. L BY <1>1, <2>3 DEF N
      <4>4. \A i \in 1 .. n - 1 : r[i] = queue[i] BY <2>3, <4>3, Zenon
      <4>5. EndsAt(r, n - 1, caller) /\ (stopped = "no" => Leads(r, n - 1, Current, caller)) BY <4>1, <4>3, <4>4, SamePrefix, Zenon
      <4>6. \A i \in DOMAIN r : r[i].kind = "sync" <=> i = n
        <5>1. ASSUME NEW i \in 1 .. L + N PROVE r[i].kind = "sync" <=> i = n
          <6>1. CASE i \in 1 .. L BY <1>1, <2>3, <4>1, <6>1
          <6>2. CASE i \notin 1 .. L BY <2>8, <4>3, <6>2
          <6> QED BY <6>1, <6>2
        <5> QED BY <2>6, <5>1
      <4>7. n \in DOMAIN r BY <2>6, <4>3
      <4> QED BY <2>1, <2>5, <3>2, <4>2, <4>5, <4>6, <4>7, Zenon DEF Waits
    <3> QED BY <3>1, <3>2, Zenon
  <2> QED BY <2>7, <2>9
<1>3. ASSUME NEW x \in Entries, x.kind # "BlockConnected", queue' = Append(queue, x), IndexUnchanged,
             UNCHANGED <<tip, stopped>>, sync.pc # "flag"
      PROVE  /\ Tracks'
             /\ x.kind # "sync" /\ caller' = caller => Waits'
             /\ x.kind = "sync" /\ caller = NullBlock /\ caller' = tip /\ tip # NullBlock /\ m_synced => Waits'
  <2> DEFINE r == Append(queue, x)
  <2>1. r \in Seq(Entries) /\ Len(r) = L + 1 /\ (\A i \in 1 .. L : r[i] = queue[i]) /\ r[L + 1] = x BY <1>0, QueueAppend
  <2>2. Trail(r) /\ EndsAt(r, L + 1, tip) /\ \A m : Leads(queue, L, m, tip) => Leads(r, L + 1, m, tip)
    BY <1>0, <1>3, AppendOther DEF Tracks
  <2>3. Current' = Current /\ m_synced' = m_synced /\ sync' = sync BY <1>3 DEF Current, IndexUnchanged, memory
  <2>4. DOMAIN r = 1 .. L + 1 BY <2>1
  <2>5. EndsAt(queue, L, tip) /\ (m_synced /\ stopped = "no" => Leads(queue, L, Current, tip)) BY <1>0 DEF Tracks
  <2> HIDE DEF r, L
  <2>6. queue' = r BY <1>3, Zenon DEF r
  <2>7. Tracks' BY <1>0, <1>3, <2>1, <2>2, <2>3, <2>5, <2>6, Zenon DEF Tracks
  <2>8. \A i \in 1 .. L + 1 : i \in 1 .. L \/ i = L + 1 BY <1>1
  <2>9. ASSUME x.kind # "sync", caller' = caller, caller = NullBlock PROVE Waits'
    <3>1. \A i \in 1 .. L : queue[i].kind # "sync" BY <1>0, <1>1, <2>9, Zenon DEF Waits
    <3>2. \A i \in DOMAIN r : r[i].kind # "sync" BY <2>1, <2>4, <2>8, <2>9, <3>1, Zenon
    <3> QED BY <2>6, <2>9, <3>2, Zenon DEF Waits
  <2>10. ASSUME x.kind # "sync", caller' = caller, caller # NullBlock PROVE Waits'
    <3>1. PICK n \in DOMAIN queue : /\ \A i \in DOMAIN queue : queue[i].kind = "sync" <=> i = n
                                    /\ EndsAt(queue, n - 1, caller)
                                    /\ stopped = "no" => Leads(queue, n - 1, Current, caller)
      BY <1>0, <2>10, Zenon DEF Waits
    <3>2. m_synced BY <1>0, <2>10, Zenon DEF Waits
    <3>3. n \in 1 .. L /\ n \in 1 .. L + 1 /\ n # L + 1 /\ n - 1 \in Nat /\ \A i \in 1 .. n - 1 : i \in 1 .. L BY <1>1
    <3>4. \A i \in 1 .. n - 1 : r[i] = queue[i] BY <2>1, <3>3
    <3>5. EndsAt(r, n - 1, caller) /\ (stopped = "no" => Leads(r, n - 1, Current, caller)) BY <3>1, <3>3, <3>4, SamePrefix, Zenon
    <3>6. \A i \in DOMAIN r : r[i].kind = "sync" <=> i = n
      <4>1. \A i \in 1 .. L : r[i].kind = "sync" <=> i = n BY <1>1, <2>1, <3>1, Zenon
      <4>2. ~(r[L + 1].kind = "sync") BY <2>1, <2>10
      <4> QED BY <2>4, <2>8, <3>3, <4>1, <4>2, Zenon
    <3>7. n \in DOMAIN r BY <2>4, <3>3, Zenon
    <3>8. stopped' = stopped BY <1>3
    <3> QED BY <2>3, <2>6, <2>10, <3>2, <3>5, <3>6, <3>7, <3>8, Zenon DEF Waits
  <2>11. ASSUME x.kind = "sync", caller = NullBlock, caller' = tip, tip # NullBlock, m_synced PROVE Waits'
    <3>1. \A i \in 1 .. L : queue[i].kind # "sync" BY <1>0, <1>1, <2>11 DEF Waits
    <3>2. L + 1 \notin 1 .. L /\ L + 1 \in 1 .. L + 1 /\ (L + 1) - 1 = L BY <1>1
    <3>3. \A i \in DOMAIN r : r[i].kind = "sync" <=> i = L + 1 BY <2>1, <2>4, <2>8, <2>11, <3>1, <3>2, Zenon
    <3>4. EndsAt(r, L, tip) /\ (stopped = "no" => Leads(r, L, Current, tip)) BY <1>1, <2>1, <2>5, <2>11, SamePrefix, Zenon
    <3>5. stopped' = stopped BY <1>3
    <3>6. L + 1 \in DOMAIN r BY <2>4, <3>2, Zenon
    <3>7. EndsAt(r, (L + 1) - 1, tip) /\ (stopped = "no" => Leads(r, (L + 1) - 1, Current, tip)) BY <3>2, <3>4, Zenon
    <3> QED BY <2>3, <2>6, <2>11, <3>3, <3>5, <3>6, <3>7, Zenon DEF Waits
  <2> QED BY <2>7, <2>9, <2>10, <2>11
<1>4. CASE FlushStateToDisk
  <2> DEFINE x == [kind |-> "ChainStateFlushed", block |-> tip]
  <2>1. IndexUnchanged /\ UNCHANGED <<tip, stopped, caller>> /\ sync.pc # "flag" /\ queue' = Append(queue, x)
    BY <1>4 DEF FlushStateToDisk, CsMainHeld, ending
  <2>2. x \in Entries /\ x.kind # "BlockConnected" /\ x.kind # "sync" BY <1>0 DEF Entries, Kinds
  <2> HIDE DEF x
  <2> QED BY <1>3, <2>1, <2>2
<1>5. CASE CallWaits
  <2> DEFINE x == [kind |-> "sync", block |-> NullBlock]
  <2>1. IndexUnchanged /\ UNCHANGED <<tip, stopped>> /\ sync.pc # "flag" /\ queue' = Append(queue, x)
        /\ caller = NullBlock /\ caller' = tip /\ m_synced /\ ~CaughtUp
    BY <1>5 DEF CallWaits, CsMainHeld, ending, chain
  <2>2. x \in Entries /\ x.kind # "BlockConnected" /\ x.kind = "sync" BY DEF Entries, Kinds, Nodes
  <2>3. tip # NullBlock
    <3>1. SUFFICES ASSUME tip = NullBlock PROVE FALSE OBVIOUS
    <3>2. Height(NullBlock) = -1 BY DEF Height, NullBlock
    <3>3. GetAncestor(m_best_block_index, -1) = NullBlock BY DEF GetAncestor
    <3> QED BY <2>1, <3>1, <3>2, <3>3 DEF CaughtUp
  <2> HIDE DEF x
  <2> QED BY <1>3, <2>1, <2>2, <2>3
<1>6. CASE Interrupt \/ UNCHANGED vars
  <2>1. IndexUnchanged /\ UNCHANGED <<tip, queue, caller, stopped>>
    BY <1>6 DEF Interrupt, vars, chain, ending, IndexUnchanged
  <2>2. Current' = Current /\ UNCHANGED <<m_synced, sync, m_best_block_index>> BY <2>1 DEF Current, IndexUnchanged, memory
  <2>3. sync'.pc = "flag" => Below(tip, m_best_block_index') BY <1>0, <2>2 DEF Tracks
  <2> QED BY <1>0, <2>1, <2>2, <2>3, KeptTrack
<1>7. CASE Restart
  <2> DEFINE s == Started(flushedTip, locator)
  <2>1. m_best_block_index' = s.best /\ m_synced' = s.synced /\ sync' = s.sync /\ handler' = Idle /\ queue' = <<>>
        /\ tip' = flushedTip /\ caller' = NullBlock
    BY <1>7 DEF Restart
  <2>2. /\ s.best \in Nodes /\ (s.synced <=> s.best = flushedTip)
        /\ s.sync.pc = (IF s.best = flushedTip THEN "done" ELSE "loop")
    BY <1>0, StartedFacts, Zenon
  <2> HIDE DEF s
  <2>3. Idle.pc = "idle" /\ sync'.pc # "flag" BY <2>1, <2>2, Zenon DEF Idle
  <2>4. Current' = s.best BY <2>1, <2>3, Zenon DEF Current
  <2>5. m_synced' => Leads(queue', Len(queue'), Current', tip') BY <2>1, <2>2, <2>4, BelowOrder, Zenon DEF Leads
  <2>6. Trail(queue') /\ EndsAt(queue', Len(queue'), tip') BY <2>1 DEF Trail, EndsAt
  <2>7. Tracks' BY <2>3, <2>5, <2>6 DEF Tracks
  <2>8. Waits' BY <2>1 DEF Waits
  <2> QED BY <2>7, <2>8
<1> QED BY <1>2, <1>4, <1>5, <1>6, <1>7

\* The first start has no backlog.
LEMMA InitTracks ==
  ASSUME Init
  PROVE  Tracks /\ Waits
<1> DEFINE s == Started(tip, locator)
<1>1. tip \in Nodes /\ locator \in Nodes /\ caller = NullBlock BY IndexAssumption DEF Init, Nodes
<1>2. m_best_block_index = s.best /\ m_synced = s.synced /\ sync = s.sync /\ handler = Idle /\ queue = <<>> BY DEF Init
<1>3. /\ s.best \in Nodes /\ (s.synced <=> s.best = tip)
      /\ s.sync.pc = (IF s.best = tip THEN "done" ELSE "loop")
  BY <1>1, StartedFacts, Zenon
<1> HIDE DEF s
<1>4. Idle.pc = "idle" /\ sync.pc # "flag" BY <1>2, <1>3, Zenon DEF Idle
<1>5. Current = s.best BY <1>2, <1>4 DEF Current
<1>6. m_synced => Leads(queue, Len(queue), Current, tip) BY <1>1, <1>2, <1>3, <1>5, BelowOrder DEF Leads
<1>7. Trail(queue) /\ EndsAt(queue, Len(queue), tip) BY <1>2 DEF Trail, EndsAt
<1>8. Tracks BY <1>4, <1>6, <1>7 DEF Tracks
<1>9. Waits BY <1>1, <1>2 DEF Waits
<1> QED BY <1>8, <1>9

\* A caller's entry comes up when the index is at the block it was called at, or past it.
LEMMA ReturnStep ==
  ASSUME Inv, CallReturns, stopped = "no"
  PROVE  Expected(caller) \subseteq indexed
<1>0. IndexInv /\ TypeOK /\ Turns /\ Tracks /\ Waits /\ queue \in Seq(Entries) /\ m_best_block_index \in Nodes /\ caller \in Nodes
  BY DEF Inv, IndexInv, TypeOK
<1>1. handler.pc = "idle" /\ queue # <<>> /\ Head(queue).kind = "sync" BY DEF CallReturns, Take
<1>2. queue[1].kind = "sync" /\ 1 \in DOMAIN queue BY <1>0, <1>1
<1>3. caller # NullBlock /\ m_synced BY <1>0, <1>2 DEF Waits
<1>4. PICK n \in DOMAIN queue : /\ \A i \in DOMAIN queue : queue[i].kind = "sync" <=> i = n
                                /\ stopped = "no" => Leads(queue, n - 1, Current, caller)
  BY <1>0, <1>3 DEF Waits
<1>5. n = 1 BY <1>2, <1>4
<1>6. Below(caller, m_best_block_index)
  <2>1. Current = m_best_block_index BY <1>1 DEF Current
  <2>2. 1 .. n - 1 = {} BY <1>5
  <2> QED BY <1>4, <2>1, <2>2 DEF Leads
<1>7. ~InWindow BY <1>0, <1>3 DEF Turns, InWindow
<1>8. Has(m_best_block_index) BY <1>0, <1>7, Outside
<1> QED BY <1>0, <1>6, <1>8, ExpectedFacts DEF Has

\* The inductive invariant: what was written, and where the backlog leads.
THEOREM Invariance ==
  ASSUME ~WindowFaults
  PROVE  Spec => []Inv
<1>1. Init => Inv BY InitIndex, InitTracks DEF Inv
<1>2. Inv /\ [Next]_vars => Inv'
  <2>1. SUFFICES ASSUME Inv, [Next]_vars PROVE Inv' OBVIOUS
  <2>2. IndexInv' BY <2>1, IndexStep DEF Inv
  <2>3. Tracks' /\ Waits' BY <2>1, SyncTrackStep, SchedulerTrackStep, ChainTrackStep, Zenon DEF Next
  <2> QED BY <2>2, <2>3 DEF Inv
<1> QED BY <1>1, <1>2, PTL DEF Spec

\* BlockUntilSyncedToCurrentChain, when it has waited and returns true, finds
\* the tip it was called at, and all below it, written: whatever branches the
\* backlog in front of its entry is about, and whichever of its blocks the
\* index skips.
THEOREM ReturnsUpToDate ==
  ASSUME ~WindowFaults
  PROVE  Spec => UpToDateOnReturn
<1>1. Inv => [CallReturns /\ stopped = "no" => Expected(caller) \subseteq indexed]_vars BY ReturnStep
<1>2. Spec => []Inv BY Invariance
<1> QED BY <1>1, <1>2, PTL DEF UpToDateOnReturn

============================================================================
