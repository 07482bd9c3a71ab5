------------------------ MODULE CoinsRecoveryProofs ------------------------
(***************************************************************************)
(* Proofs about CoinsRecovery, for every block tree, every assignment of   *)
(* transactions to blocks that ConnectBlock would accept, and every number *)
(* of crashes: whatever mixture of coins a flush leaves behind,            *)
(* ReplayBlocks makes of it the unspent outputs of the new tip.            *)
(***************************************************************************)
EXTENDS CoinsRecovery, WellFoundedInduction, TLAPS

---------------------------------------------------------------------------
(* Induction over the loops. *)

\* A set of natural numbers has a least element.
LEMMA Least ==
  ASSUME NEW T \in SUBSET Nat, T # {}
  PROVE  \E x \in T : \A y \in T : x <= y
<1> DEFINE R == OpToRel(<, Nat)
<1>1. IsWellFoundedOn(R, Nat) BY NatLessThanWellFounded
<1> HIDE DEF R
<1>2. PICK x \in T : \A y \in T : ~(<<y, x>> \in R) BY <1>1, WFMin, Zenon
<1>3. \A y \in T : y < x => <<y, x>> \in R BY DEF R, OpToRel
<1>4. \A y \in T : ~(y < x) BY <1>2, <1>3, Zenon
<1>5. \A y \in T : x <= y BY <1>4
<1> QED BY <1>5

\* Induction on natural numbers.
LEMMA Induct ==
  ASSUME NEW P \in SUBSET Nat, 0 \in P, \A n \in P : n + 1 \in P
  PROVE  P = Nat
<1> SUFFICES ASSUME Nat \ P # {} PROVE FALSE BY Zenon
<1>1. PICK x \in Nat \ P : \A y \in Nat \ P : x <= y BY Least, Zenon
<1>2. x # 0 /\ x - 1 \in Nat BY <1>1
<1>3. x - 1 \in P BY <1>1, <1>2
<1> QED BY <1>1, <1>2, <1>3

\* Induction over the steps 0 .. n of a loop; Q is the set of steps that have the property.
LEMMA LoopInduct ==
  ASSUME NEW n \in Nat, NEW Q, 0 \in Q, \A i \in 1 .. n : i - 1 \in Q => i \in Q
  PROVE  \A i \in 0 .. n : i \in Q
<1> DEFINE P == {i \in Nat : i <= n => i \in Q}
<1>1. 0 \in P OBVIOUS
<1>2. ASSUME NEW i \in P PROVE i + 1 \in P
  <2>1. i \in Nat /\ (i <= n => i \in Q) OBVIOUS
  <2>2. i + 1 <= n => i + 1 \in 1 .. n /\ (i + 1) - 1 \in Q BY <2>1
  <2> QED BY <2>1, <2>2
<1>3. P \in SUBSET Nat OBVIOUS
<1> HIDE DEF P
<1>4. P = Nat BY <1>1, <1>2, <1>3, Induct
<1> QED BY <1>4 DEF P

\* The steps of a loop of n steps, as functions of the step and of the value before it, and its
\* runs from x.
Steps(n, S) == [(1 .. n) \X S -> S]
Runs(x, n, S, F) ==
  {c \in [0 .. n -> S] : c[0] = x /\ \A i \in 1 .. n : c[i] = F[<<i, c[i - 1]>>]}

\* A loop runs to its end.
LEMMA LoopExists ==
  ASSUME NEW S, NEW x \in S, NEW n \in Nat, NEW F \in Steps(n, S)
  PROVE  Runs(x, n, S, F) # {}
<1>0. F \in [(1 .. n) \X S -> S] BY DEF Steps
<1> DEFINE Run(c, k) == c[0] = x /\ \A i \in 1 .. k : c[i] = F[<<i, c[i - 1]>>]
           Q == {k \in 0 .. n : \E c \in [0 .. n -> S] : Run(c, k)}
<1>1. 0 \in Q
  <2>1. [i \in 0 .. n |-> x] \in [0 .. n -> S] /\ Run([i \in 0 .. n |-> x], 0) OBVIOUS
  <2> HIDE DEF Run
  <2> QED BY <2>1
<1>2. ASSUME NEW k \in 1 .. n, k - 1 \in Q PROVE k \in Q
  <2>1. PICK c \in [0 .. n -> S] : Run(c, k - 1) BY <1>2
  <2> DEFINE d == [c EXCEPT ![k] = F[<<k, c[k - 1]>>]]
  <2>2. k - 1 \in 0 .. n /\ c[k - 1] \in S OBVIOUS
  <2>3. F[<<k, c[k - 1]>>] \in S BY <1>0, <2>2
  <2>4. d \in [0 .. n -> S] BY <2>3
  <2>5. d[0] = x BY <2>1
  <2>6. d[k] = F[<<k, d[k - 1]>>] BY <2>2
  <2>7. ASSUME NEW i \in 1 .. k - 1 PROVE d[i] = F[<<i, d[i - 1]>>]
    <3>1. d[i] = c[i] /\ d[i - 1] = c[i - 1] OBVIOUS
    <3> QED BY <2>1, <3>1
  <2>8. Run(d, k)
    <3>1. \A i \in 1 .. k : i = k \/ i \in 1 .. k - 1 OBVIOUS
    <3> HIDE DEF d
    <3> QED BY <2>5, <2>6, <2>7, <3>1
  <2> HIDE DEF Run, d
  <2> QED BY <2>4, <2>8
<1>3. n \in Q
  <2> HIDE DEF Q
  <2>1. \A k \in 0 .. n : k \in Q BY <1>1, <1>2, LoopInduct
  <2> QED BY <2>1
<1> QED BY <1>3 DEF Runs

\* The values of a loop stay in a set that each of its steps preserves.
LEMMA LoopTyped ==
  ASSUME NEW S, NEW n \in Nat, NEW c, c[0] \in S, \A i \in 1 .. n : c[i - 1] \in S => c[i] \in S
  PROVE  \A i \in 0 .. n : c[i] \in S
<1> DEFINE Q == {i \in 0 .. n : c[i] \in S}
<1>1. 0 \in Q OBVIOUS
<1>2. \A i \in 1 .. n : i - 1 \in Q => i \in Q OBVIOUS
<1> HIDE DEF Q
<1>3. \A i \in 0 .. n : i \in Q BY <1>1, <1>2, LoopInduct
<1> QED BY <1>3 DEF Q

---------------------------------------------------------------------------
(* The tree of blocks. *)
Items == UNION {{b[i] : i \in DOMAIN b} : b \in Blocks}

\* The prefixes of a sequence: their lengths and own prefixes.
LEMMA PrefixFacts ==
  ASSUME NEW S, NEW b \in Seq(S), NEW n \in 0 .. Len(b)
  PROVE  /\ SubSeq(b, 1, n) \in Seq(S) /\ Len(SubSeq(b, 1, n)) = n
         /\ \A m \in 0 .. n : SubSeq(SubSeq(b, 1, n), 1, m) = SubSeq(b, 1, m)
         /\ SubSeq(b, 1, Len(b)) = b /\ SubSeq(b, 1, 0) = <<>>
<1>0. Len(b) \in Nat OBVIOUS
<1>1. SubSeq(b, 1, n) \in Seq(S) /\ Len(SubSeq(b, 1, n)) = n
      /\ \A i \in 1 .. n : SubSeq(b, 1, n)[i] = b[i]
  <2>1. \A i \in 1 .. n : b[i] \in S BY <1>0
  <2> QED BY <1>0, <2>1
<1>2. ASSUME NEW m \in 0 .. n PROVE SubSeq(SubSeq(b, 1, n), 1, m) = SubSeq(b, 1, m)
  <2> DEFINE p == SubSeq(b, 1, n)
  <2>1. SubSeq(p, 1, m) = [i \in 1 .. m |-> p[i]] BY <1>0, <1>1
  <2>2. SubSeq(b, 1, m) = [i \in 1 .. m |-> b[i]] BY <1>0
  <2>3. \A i \in 1 .. m : p[i] = b[i] BY <1>0, <1>1
  <2> QED BY <2>1, <2>2, <2>3
<1>3. SubSeq(b, 1, Len(b)) = b /\ SubSeq(b, 1, 0) = <<>> OBVIOUS
<1> QED BY <1>1, <1>2, <1>3

\* A block is a path of one step or more from the genesis block, and so is each prefix of it.
LEMMA BlockShape ==
  ASSUME NEW b \in Blocks
  PROVE  /\ b \in Seq(Items) /\ Len(b) \in Nat /\ Len(b) > 0 /\ b # NullBlock
         /\ \A n \in 1 .. Len(b) : SubSeq(b, 1, n) \in Blocks
         /\ SubSeq(b, 1, 1) = Genesis
         /\ Len(b) = 1 => b = Genesis
<1>1. b \in Seq(Items) /\ Len(b) > 0 /\ Ancestors(b) \subseteq Blocks /\ Genesis \in Ancestors(b)
  BY RecoveryAssumption DEF Items
<1>2. Len(b) \in Nat /\ b # NullBlock BY <1>1 DEF NullBlock
<1>3. \A n \in 1 .. Len(b) : SubSeq(b, 1, n) \in Blocks BY <1>1, Zenon DEF Ancestors
<1>4. SubSeq(b, 1, 1) = Genesis
  <2>1. PICK n \in 1 .. Len(b) : Genesis = SubSeq(b, 1, n) BY <1>1 DEF Ancestors
  <2>2. n \in 0 .. Len(b) BY <1>2
  <2>3. Len(SubSeq(b, 1, n)) = n BY <1>1, <2>2, PrefixFacts
  <2>4. n = 1 BY <2>1, <2>3, RecoveryAssumption
  <2> QED BY <2>1, <2>4
<1>5. Len(b) = 1 => b = Genesis
  <2>1. SubSeq(b, 1, Len(b)) = b BY <1>1
  <2> QED BY <1>4, <2>1
<1> QED BY <1>1, <1>2, <1>3, <1>4, <1>5

\* Blocks and the null hash: the possible values of a tip.
Tips == Blocks \cup {NullBlock}

\* A prefix of a tip, the empty one included, is a tip, known by its length.
LEMMA TipShape ==
  ASSUME NEW b \in Tips
  PROVE  /\ b \in Seq(Items) /\ Len(b) \in Nat
         /\ \A n \in 0 .. Len(b) : /\ SubSeq(b, 1, n) \in Tips /\ Len(SubSeq(b, 1, n)) = n
                                   /\ \A k \in 0 .. n : SubSeq(SubSeq(b, 1, n), 1, k) = SubSeq(b, 1, k)
         /\ \A n \in 1 .. Len(b) : SubSeq(b, 1, n) \in Blocks /\ Parent(SubSeq(b, 1, n)) = SubSeq(b, 1, n - 1)
         /\ SubSeq(b, 1, Len(b)) = b /\ SubSeq(b, 1, 0) = NullBlock
<1>1. b \in Seq(Items)
  <2>1. <<>> \in Seq(Items) OBVIOUS
  <2> QED BY <2>1, BlockShape, Zenon DEF Tips, NullBlock
<1>2. Len(b) \in Nat BY <1>1
<1>3. \A n \in 1 .. Len(b) : SubSeq(b, 1, n) \in Blocks
  <2>1. CASE b \in Blocks BY <2>1, BlockShape
  <2>2. CASE b = NullBlock
    <3>1. Len(b) = 0 BY <2>2 DEF NullBlock
    <3> QED BY <3>1
  <2> QED BY <2>1, <2>2 DEF Tips
<1>4. SubSeq(b, 1, Len(b)) = b /\ SubSeq(b, 1, 0) = NullBlock
  <2>1. 0 \in 0 .. Len(b) BY <1>2
  <2> QED BY <1>1, <2>1, PrefixFacts DEF NullBlock
<1>5. ASSUME NEW n \in 0 .. Len(b) 
      PROVE  /\ SubSeq(b, 1, n) \in Tips /\ Len(SubSeq(b, 1, n)) = n
             /\ \A k \in 0 .. n : SubSeq(SubSeq(b, 1, n), 1, k) = SubSeq(b, 1, k)
  <2>1. n = 0 \/ n \in 1 .. Len(b) BY <1>2
  <2>2. SubSeq(b, 1, n) \in Tips BY <1>3, <1>4, <2>1 DEF Tips
  <2> QED BY <1>1, <2>2, PrefixFacts
<1>6. ASSUME NEW n \in 1 .. Len(b) PROVE Parent(SubSeq(b, 1, n)) = SubSeq(b, 1, n - 1)
  <2>1. n \in 0 .. Len(b) /\ n - 1 \in 0 .. n BY <1>2
  <2>2. Len(SubSeq(b, 1, n)) = n /\ SubSeq(SubSeq(b, 1, n), 1, n - 1) = SubSeq(b, 1, n - 1)
    BY <1>5, <2>1
  <2> QED BY <2>2 DEF Parent
<1> QED BY <1>1, <1>2, <1>3, <1>4, <1>5, <1>6

---------------------------------------------------------------------------
(* The coins along the loops. *)
Coins == [Outpoints -> Nat \cup {Spent}]

\* The transactions of a block.
LEMMA TxShape ==
  ASSUME NEW b \in Blocks
  PROVE  /\ Len(Txs[b]) \in Nat /\ Height(b) \in Nat
         /\ \A i \in 1 .. Len(Txs[b]) : Txs[b][i].ins \subseteq Outpoints /\ Txs[b][i].outs \subseteq Outpoints
<1>1. Txs[b] \in Seq([ins : SUBSET Outpoints, outs : SUBSET Outpoints]) BY RecoveryAssumption
<1>2. Len(Txs[b]) \in Nat BY <1>1
<1>3. \A i \in 1 .. Len(Txs[b]) : Txs[b][i] \in [ins : SUBSET Outpoints, outs : SUBSET Outpoints]
  <2> DEFINE T == [ins : SUBSET Outpoints, outs : SUBSET Outpoints]
  <2>1. Txs[b] \in Seq(T) BY <1>1
  <2> HIDE DEF T
  <2>2. \A i \in 1 .. Len(Txs[b]) : Txs[b][i] \in T BY <2>1
  <2> QED BY <2>2 DEF T
<1>4. Height(b) \in Nat BY BlockShape DEF Height
<1> QED BY <1>2, <1>3, <1>4

\* The loop of ConnectBlock.
LEMMA ConnectTxsLoop ==
  ASSUME NEW m \in Coins, NEW b \in Blocks
  PROVE  LET c == ConnectTxs(m, b)
         IN  /\ c \in [0 .. Len(Txs[b]) -> Coins] /\ c[0] = m
             /\ \A i \in 1 .. Len(Txs[b]) : c[i] = UpdateCoins(c[i - 1], Txs[b][i], Height(b))
<1> DEFINE n == Len(Txs[b])
           Up(i, v) == UpdateCoins(v, Txs[b][i], Height(b))
           F == [p \in (1 .. n) \X Coins |-> Up(p[1], p[2])]
           Loop(c) == c = [i \in 0 .. n |-> IF i = 0 THEN m ELSE Up(i, c[i - 1])]
           c0 == ConnectTxs(m, b)
<1>1. n \in Nat BY TxShape
<1>2. \A i \in 1 .. n : \A v \in Coins : Up(i, v) \in Coins BY TxShape DEF Coins, UpdateCoins
<1>3. c0 = CHOOSE c : Loop(c) BY DEF ConnectTxs
<1>4. \E c : Loop(c)
  <2> HIDE DEF Up
  <2>1. F \in Steps(n, Coins) BY <1>2 DEF Steps
  <2>2. \A i \in 1 .. n : \A v \in Coins : F[<<i, v>>] = Up(i, v) OBVIOUS
  <2> HIDE DEF F, n
  <2>3. Runs(m, n, Coins, F) # {} BY <1>1, <2>1, LoopExists, Zenon
  <2>4. PICK c \in [0 .. n -> Coins] : c[0] = m /\ \A i \in 1 .. n : c[i] = F[<<i, c[i - 1]>>]
    BY <2>3, Zenon DEF Runs
  <2>5. \A i \in 1 .. n : c[i - 1] \in Coins BY <1>1
  <2>6. \A i \in 1 .. n : c[i] = Up(i, c[i - 1]) BY <2>2, <2>4, <2>5, Zenon
  <2>7. Loop(c) BY <1>1, <2>4, <2>6
  <2> QED BY <2>7, Zenon
<1>5. Loop(c0)
  <2> HIDE DEF Loop, c0
  <2> QED BY <1>3, <1>4
<1>6. c0[0] = m /\ \A i \in 1 .. n : c0[i] = Up(i, c0[i - 1])
  <2> HIDE DEF Up, c0
  <2> QED BY <1>1, <1>5
<1>7. \A i \in 0 .. n : c0[i] \in Coins
  <2> HIDE DEF Up, c0, n
  <2>1. \A i \in 1 .. n : c0[i - 1] \in Coins => c0[i] \in Coins BY <1>2, <1>6
  <2> QED BY <1>1, <1>6, <2>1, LoopTyped, Zenon
<1>8. c0 \in [0 .. n -> Coins]
  <2> HIDE DEF Up, c0, n
  <2> QED BY <1>5, <1>7
<1> QED BY <1>6, <1>8

\* ConnectBlock yields coins.
LEMMA ConnectBlockType ==
  ASSUME NEW m \in Coins, NEW b \in Blocks
  PROVE  ConnectBlock(m, b) \in Coins
<1>1. ConnectTxs(m, b) \in [0 .. Len(Txs[b]) -> Coins] BY ConnectTxsLoop
<1>2. Len(Txs[b]) \in 0 .. Len(Txs[b]) BY TxShape
<1> QED BY <1>1, <1>2, Zenon DEF ConnectBlock

\* The chain of blocks connected one by one.
LEMMA CoinsAlongLoop ==
  ASSUME NEW b \in Tips
  PROVE  LET c == CoinsAlong(b)
         IN  /\ c \in [0 .. Len(b) -> Coins] /\ c[0] = NoCoins
             /\ \A i \in 1 .. Len(b) : c[i] = ConnectBlock(c[i - 1], SubSeq(b, 1, i))
<1> DEFINE n == Len(b)
           Up(i, v) == ConnectBlock(v, SubSeq(b, 1, i))
           F == [p \in (1 .. n) \X Coins |-> Up(p[1], p[2])]
           Loop(c) == c = [i \in 0 .. n |-> IF i = 0 THEN NoCoins ELSE Up(i, c[i - 1])]
           c0 == CoinsAlong(b)
<1>0. NoCoins \in Coins BY DEF NoCoins, Coins
<1>1. n \in Nat BY TipShape
<1>2. \A i \in 1 .. n : \A v \in Coins : Up(i, v) \in Coins BY TipShape, ConnectBlockType
<1>3. c0 = CHOOSE c : Loop(c) BY DEF CoinsAlong
<1>4. \E c : Loop(c)
  <2> HIDE DEF Up
  <2>1. F \in Steps(n, Coins) BY <1>2 DEF Steps
  <2>2. \A i \in 1 .. n : \A v \in Coins : F[<<i, v>>] = Up(i, v) OBVIOUS
  <2> HIDE DEF F, n
  <2>3. Runs(NoCoins, n, Coins, F) # {} BY <1>1, <2>1, LoopExists, <1>0, Zenon
  <2>4. PICK c \in [0 .. n -> Coins] : c[0] = NoCoins /\ \A i \in 1 .. n : c[i] = F[<<i, c[i - 1]>>]
    BY <2>3, Zenon DEF Runs
  <2>5. \A i \in 1 .. n : c[i - 1] \in Coins BY <1>1
  <2>6. \A i \in 1 .. n : c[i] = Up(i, c[i - 1]) BY <2>2, <2>4, <2>5, Zenon
  <2>7. Loop(c) BY <1>1, <2>4, <2>6
  <2> QED BY <2>7, Zenon
<1>5. Loop(c0)
  <2> HIDE DEF Loop, c0
  <2> QED BY <1>3, <1>4
<1>6. c0[0] = NoCoins /\ \A i \in 1 .. n : c0[i] = Up(i, c0[i - 1])
  <2> HIDE DEF Up, c0
  <2> QED BY <1>1, <1>5
<1>7. \A i \in 0 .. n : c0[i] \in Coins
  <2> HIDE DEF Up, c0, n
  <2>1. \A i \in 1 .. n : c0[i - 1] \in Coins => c0[i] \in Coins BY <1>2, <1>6
  <2> QED BY <1>1, <1>6, <2>1, LoopTyped, <1>0
<1>8. c0 \in [0 .. n -> Coins]
  <2> HIDE DEF Up, c0, n
  <2> QED BY <1>5, <1>7
<1> QED BY <1>6, <1>8

\* The coins after the first k blocks up to b are those of the k-th.
LEMMA AlongPrefix ==
  ASSUME NEW b \in Tips, NEW k \in 0 .. Len(b)
  PROVE  UTXO(SubSeq(b, 1, k)) = CoinsAlong(b)[k]
<1> DEFINE a == SubSeq(b, 1, k)
           Q == {i \in 0 .. k : CoinsAlong(a)[i] = CoinsAlong(b)[i]}
<1>1. a \in Tips /\ Len(a) = k /\ \A i \in 0 .. k : SubSeq(a, 1, i) = SubSeq(b, 1, i) BY TipShape
<1>2. Len(b) \in Nat /\ k \in Nat BY TipShape
<1> HIDE DEF a
<1>3. /\ CoinsAlong(a)[0] = NoCoins
      /\ \A i \in 1 .. k : CoinsAlong(a)[i] = ConnectBlock(CoinsAlong(a)[i - 1], SubSeq(a, 1, i))
  BY <1>1, CoinsAlongLoop
<1>4. /\ CoinsAlong(b)[0] = NoCoins
      /\ \A i \in 1 .. Len(b) : CoinsAlong(b)[i] = ConnectBlock(CoinsAlong(b)[i - 1], SubSeq(b, 1, i))
  BY CoinsAlongLoop
<1>5. 0 \in Q BY <1>2, <1>3, <1>4
<1>6. ASSUME NEW i \in 1 .. k, i - 1 \in Q PROVE i \in Q
  <2>1. i \in 1 .. Len(b) /\ i \in 0 .. k BY <1>2
  <2>2. CoinsAlong(a)[i - 1] = CoinsAlong(b)[i - 1] BY <1>6
  <2>3. CoinsAlong(a)[i] = CoinsAlong(b)[i] BY <1>1, <1>3, <1>4, <2>1, <2>2, Zenon
  <2> QED BY <2>1, <2>3
<1>7. \A i \in 0 .. k : i \in Q
  <2> HIDE DEF Q
  <2> QED BY <1>2, <1>5, <1>6, LoopInduct
<1>8. k \in Q BY <1>2, <1>7
<1> QED BY <1>1, <1>8 DEF UTXO, a

\* The unspent outputs of a block are those of its parent with the block connected; the
\* genesis block has none.
LEMMA UTXOFacts ==
  /\ UTXO(NullBlock) = NoCoins /\ UTXO(Genesis) = NoCoins
  /\ \A b \in Tips : UTXO(b) \in Coins
  /\ \A b \in Blocks : Parent(b) \in Tips /\ UTXO(b) = ConnectBlock(UTXO(Parent(b)), b)
<1>1. NullBlock \in Tips /\ Len(NullBlock) = 0 BY DEF Tips, NullBlock
<1>2. UTXO(NullBlock) = NoCoins BY <1>1, CoinsAlongLoop DEF UTXO
<1>3. ASSUME NEW b \in Tips PROVE UTXO(b) \in Coins
  <2>1. Len(b) \in 0 .. Len(b) BY TipShape
  <2> QED BY <2>1, CoinsAlongLoop, Zenon DEF UTXO
<1>4. ASSUME NEW b \in Blocks PROVE Parent(b) \in Tips /\ UTXO(b) = ConnectBlock(UTXO(Parent(b)), b)
  <2>0. b \in Tips BY DEF Tips
  <2>1. Len(b) \in 1 .. Len(b) /\ Len(b) - 1 \in 0 .. Len(b) BY BlockShape
  <2>2. Parent(b) \in Tips BY <2>0, <2>1, TipShape DEF Parent
  <2>3. CoinsAlong(b)[Len(b)] = ConnectBlock(CoinsAlong(b)[Len(b) - 1], SubSeq(b, 1, Len(b)))
    BY <2>0, <2>1, CoinsAlongLoop
  <2>4. SubSeq(b, 1, Len(b)) = b BY <2>0, TipShape
  <2>5. CoinsAlong(b)[Len(b) - 1] = UTXO(Parent(b)) BY <2>0, <2>1, AlongPrefix DEF Parent
  <2> QED BY <2>2, <2>3, <2>4, <2>5, Zenon DEF UTXO
<1>5. UTXO(Genesis) = NoCoins
  <2>1. Genesis \in Blocks /\ Len(Genesis) = 1 /\ Txs[Genesis] = <<>> BY RecoveryAssumption
  <2>2. Parent(Genesis) = NullBlock
    <3>1. Genesis \in Tips BY <2>1 DEF Tips
    <3> QED BY <2>1, <3>1, TipShape DEF Parent
  <2>3. NoCoins \in Coins BY <1>1, <1>2, <1>3
  <2>4. ConnectTxs(NoCoins, Genesis)[0] = NoCoins BY <2>1, <2>3, ConnectTxsLoop
  <2>5. Len(Txs[Genesis]) = 0 BY <2>1
  <2>6. ConnectBlock(NoCoins, Genesis) = NoCoins BY <2>4, <2>5, Zenon DEF ConnectBlock
  <2> QED BY <1>2, <1>4, <2>1, <2>2, <2>6
<1> QED BY <1>2, <1>3, <1>4, <1>5

\* The coins before each transaction of b, when b was connected: what its undo data holds.
Prefix(b) == ConnectTxs(UTXO(Parent(b)), b)
LEMMA PrefixLoop ==
  ASSUME NEW b \in Blocks
  PROVE  /\ Prefix(b) \in [0 .. Len(Txs[b]) -> Coins]
         /\ Prefix(b)[0] = UTXO(Parent(b)) /\ Prefix(b)[Len(Txs[b])] = UTXO(b)
         /\ \A i \in 1 .. Len(Txs[b]) : Prefix(b)[i] = UpdateCoins(Prefix(b)[i - 1], Txs[b][i], Height(b))
<1>1. UTXO(Parent(b)) \in Coins BY UTXOFacts
<1>2. Prefix(b)[Len(Txs[b])] = UTXO(b) BY UTXOFacts, Zenon DEF Prefix, ConnectBlock
<1> QED BY <1>1, <1>2, ConnectTxsLoop DEF Prefix

\* The loop of DisconnectBlock.
LEMMA DisconnectTxsLoop ==
  ASSUME NEW m \in Coins, NEW b \in Blocks
  PROVE  LET c == DisconnectTxs(m, b)
         IN  /\ c \in [0 .. Len(Txs[b]) -> Coins] /\ c[0] = m
             /\ \A i \in 1 .. Len(Txs[b]) : c[i] = DisconnectTx(c[i - 1], b, Len(Txs[b]) + 1 - i)
<1> DEFINE n == Len(Txs[b])
           Up(i, v) == DisconnectTx(v, b, Len(Txs[b]) + 1 - i)
           F == [p \in (1 .. n) \X Coins |-> Up(p[1], p[2])]
           Loop(c) == c = [i \in 0 .. n |-> IF i = 0 THEN m ELSE Up(i, c[i - 1])]
           c0 == DisconnectTxs(m, b)
<1>1. n \in Nat BY TxShape
<1>2. \A i \in 1 .. n : \A v \in Coins : Up(i, v) \in Coins
  <2>1. \A i \in 1 .. n : n + 1 - i \in 1 .. n /\ n + 1 - i - 1 \in 0 .. n
    <3> HIDE DEF n
    <3> QED BY <1>1
  <2>2. \A j \in 0 .. n : Prefix(b)[j] \in Coins BY PrefixLoop
  <2>3. \A i \in 1 .. n : \A v \in Coins : \A o \in Outpoints :
          UndoCoin(b, n + 1 - i, o) \in Nat \cup {Spent}
    BY <2>1, <2>2 DEF Coins, UndoCoin, Prefix
  <2> QED BY <2>3 DEF Coins, DisconnectTx
<1>3. c0 = CHOOSE c : Loop(c) BY DEF DisconnectTxs
<1>4. \E c : Loop(c)
  <2> HIDE DEF Up
  <2>1. F \in Steps(n, Coins) BY <1>2 DEF Steps
  <2>2. \A i \in 1 .. n : \A v \in Coins : F[<<i, v>>] = Up(i, v) OBVIOUS
  <2> HIDE DEF F, n
  <2>3. Runs(m, n, Coins, F) # {} BY <1>1, <2>1, LoopExists, Zenon
  <2>4. PICK c \in [0 .. n -> Coins] : c[0] = m /\ \A i \in 1 .. n : c[i] = F[<<i, c[i - 1]>>]
    BY <2>3, Zenon DEF Runs
  <2>5. \A i \in 1 .. n : c[i - 1] \in Coins BY <1>1
  <2>6. \A i \in 1 .. n : c[i] = Up(i, c[i - 1]) BY <2>2, <2>4, <2>5, Zenon
  <2>7. Loop(c) BY <1>1, <2>4, <2>6
  <2> QED BY <2>7, Zenon
<1>5. Loop(c0)
  <2> HIDE DEF Loop, c0
  <2> QED BY <1>3, <1>4
<1>6. c0[0] = m /\ \A i \in 1 .. n : c0[i] = Up(i, c0[i - 1])
  <2> HIDE DEF Up, c0
  <2> QED BY <1>1, <1>5
<1>7. \A i \in 0 .. n : c0[i] \in Coins
  <2> HIDE DEF Up, c0, n
  <2>1. \A i \in 1 .. n : c0[i - 1] \in Coins => c0[i] \in Coins BY <1>2, <1>6
  <2> QED BY <1>1, <1>6, <2>1, LoopTyped
<1>8. c0 \in [0 .. n -> Coins]
  <2> HIDE DEF Up, c0, n
  <2> QED BY <1>5, <1>7
<1> QED BY <1>6, <1>8

---------------------------------------------------------------------------
(* What connecting and disconnecting a block does to one coin. *)

\* A transaction of the block spends or creates the coin.
TouchedBy(b, i, o) == o \in Txs[b][i].ins \cup Txs[b][i].outs

LEMMA TouchedFacts ==
  ASSUME NEW b \in Blocks, NEW o
  PROVE  o \in Touched(b) <=> \E i \in 1 .. Len(Txs[b]) : TouchedBy(b, i, o)
BY Zenon DEF Touched, TouchedBy

\* A coin the block does not touch keeps its value while the block is connected.
LEMMA ConnectUntouched ==
  ASSUME NEW m \in Coins, NEW b \in Blocks, NEW o \in Outpoints \ Touched(b)
  PROVE  ConnectBlock(m, b)[o] = m[o]
<1> DEFINE n == Len(Txs[b])
           c == ConnectTxs(m, b)
           Q == {i \in 0 .. n : c[i][o] = m[o]}
<1>1. n \in Nat BY TxShape
<1>2. c[0] = m /\ \A i \in 1 .. n : c[i] = UpdateCoins(c[i - 1], Txs[b][i], Height(b)) BY ConnectTxsLoop
<1>3. \A i \in 1 .. n : ~TouchedBy(b, i, o) BY TouchedFacts
<1> HIDE DEF c, n
<1>4. 0 \in Q BY <1>1, <1>2
<1>5. ASSUME NEW i \in 1 .. n, i - 1 \in Q PROVE i \in Q
  <2>1. c[i][o] = c[i - 1][o] BY <1>2, <1>3, Zenon DEF UpdateCoins, TouchedBy
  <2> QED BY <1>1, <1>5, <2>1
<1>6. \A i \in 0 .. n : i \in Q
  <2> HIDE DEF Q
  <2> QED BY <1>1, <1>4, <1>5, LoopInduct
<1>7. n \in Q BY <1>1, <1>6
<1> QED BY <1>7 DEF n, c, ConnectBlock

\* A touched coin ends as the block leaves it, whatever it was before, and so does a coin that
\* was as the parent leaves it.
LEMMA ConnectFacts ==
  ASSUME NEW m \in Coins, NEW b \in Blocks, NEW o \in Outpoints
  PROVE  /\ o \in Touched(b) \/ m[o] = UTXO(Parent(b))[o] => ConnectBlock(m, b)[o] = UTXO(b)[o]
         /\ o \notin Touched(b) => ConnectBlock(m, b)[o] = m[o] /\ UTXO(b)[o] = UTXO(Parent(b))[o]
<1> DEFINE n == Len(Txs[b])
           c == ConnectTxs(m, b)
           p == Prefix(b)
           Same(i) == m[o] = p[0][o] \/ \E j \in 1 .. i : TouchedBy(b, j, o)
           Q == {i \in 0 .. n : Same(i) => c[i][o] = p[i][o]}
<1>1. n \in Nat BY TxShape
<1>2. c[0] = m /\ \A i \in 1 .. n : c[i] = UpdateCoins(c[i - 1], Txs[b][i], Height(b)) BY ConnectTxsLoop
<1>3. \A i \in 1 .. n : p[i] = UpdateCoins(p[i - 1], Txs[b][i], Height(b)) BY PrefixLoop
<1>4. n \in Q
  <2> HIDE DEF c, p, n
  <2>1. 0 \in Q BY <1>1, <1>2
  <2>2. ASSUME NEW i \in 1 .. n, i - 1 \in Q PROVE i \in Q
    <3>1. /\ c[i][o] = UpdateCoins(c[i - 1], Txs[b][i], Height(b))[o]
          /\ p[i][o] = UpdateCoins(p[i - 1], Txs[b][i], Height(b))[o]
      BY <1>2, <1>3, Zenon
    <3>2. CASE TouchedBy(b, i, o) BY <3>1, <3>2 DEF UpdateCoins, TouchedBy
    <3>3. CASE ~TouchedBy(b, i, o)
      <4>1. Same(i) => Same(i - 1)
        <5>1. \A j \in 1 .. i : j = i \/ j \in 1 .. i - 1 BY <1>1
        <5> QED BY <3>3, <5>1
      <4>2. Same(i) => c[i - 1][o] = p[i - 1][o] BY <2>2, <4>1
      <4>3. Same(i) => c[i][o] = p[i][o]
        <5> HIDE DEF Same
        <5> QED BY <3>1, <3>3, <4>2 DEF UpdateCoins, TouchedBy
      <4> QED BY <4>3
    <3> QED BY <3>2, <3>3
  <2>3. \A i \in 0 .. n : i \in Q
    <3> HIDE DEF Q
    <3> QED BY <1>1, <2>1, <2>2, LoopInduct
  <2> QED BY <1>1, <2>3
<1>5. p[0] = UTXO(Parent(b)) /\ p[n] = UTXO(b) BY PrefixLoop
<1>6. c[n] = ConnectBlock(m, b) BY DEF ConnectBlock
<1>7. o \in Touched(b) => Same(n) BY TouchedFacts
<1>8. m[o] = UTXO(Parent(b))[o] => Same(n) BY <1>5
<1>9. o \in Touched(b) \/ m[o] = UTXO(Parent(b))[o] => ConnectBlock(m, b)[o] = UTXO(b)[o]
  <2> HIDE DEF c, p, n, Same
  <2> QED BY <1>4, <1>5, <1>6, <1>7, <1>8
<1>10. o \notin Touched(b) => ConnectBlock(m, b)[o] = m[o] BY ConnectUntouched
<1>11. o \notin Touched(b) => UTXO(b)[o] = UTXO(Parent(b))[o] BY ConnectUntouched, UTXOFacts
<1> QED BY <1>9, <1>10, <1>11

\* Undoing one transaction turns the coins after it into the coins before it, since its outputs
\* did not exist before it.
LEMMA DisconnectTxFacts ==
  ASSUME NEW v \in Coins, NEW b \in Blocks, NEW i \in 1 .. Len(Txs[b]), NEW o \in Outpoints
  PROVE  /\ TouchedBy(b, i, o) \/ v[o] = Prefix(b)[i][o] => DisconnectTx(v, b, i)[o] = Prefix(b)[i - 1][o]
         /\ ~TouchedBy(b, i, o) => DisconnectTx(v, b, i)[o] = v[o]
<1>1. o \in Txs[b][i].ins => DisconnectTx(v, b, i)[o] = Prefix(b)[i - 1][o]
  BY DEF DisconnectTx, UndoCoin, Prefix
<1>2. o \in Txs[b][i].outs => o \notin Txs[b][i].ins /\ Prefix(b)[i - 1][o] = Spent
  BY ValidAssumption DEF Prefix
<1>3. o \in Txs[b][i].outs => DisconnectTx(v, b, i)[o] = Prefix(b)[i - 1][o] BY <1>2 DEF DisconnectTx
<1>4. ~TouchedBy(b, i, o) => DisconnectTx(v, b, i)[o] = v[o] BY DEF DisconnectTx, TouchedBy
<1>5. ~TouchedBy(b, i, o) => Prefix(b)[i][o] = Prefix(b)[i - 1][o]
  BY PrefixLoop DEF UpdateCoins, TouchedBy
<1> QED BY <1>1, <1>3, <1>4, <1>5 DEF TouchedBy

\* While the block is undone, a coin that a transaction already undone touches, or that was as
\* the block left it, is as it was before those transactions; an untouched one is as it was.
LEMMA DisconnectTxsFacts ==
  ASSUME NEW m \in Coins, NEW b \in Blocks, NEW o \in Outpoints, NEW i \in 0 .. Len(Txs[b])
  PROVE  /\ \/ m[o] = UTXO(b)[o]
            \/ \E j \in 1 .. Len(Txs[b]) : j > Len(Txs[b]) - i /\ TouchedBy(b, j, o)
            => DisconnectTxs(m, b)[i][o] = Prefix(b)[Len(Txs[b]) - i][o]
         /\ o \notin Touched(b) => DisconnectTxs(m, b)[i][o] = m[o]
<1> DEFINE n == Len(Txs[b])
           d == DisconnectTxs(m, b)
           p == Prefix(b)
           Same(k) == m[o] = UTXO(b)[o] \/ \E j \in 1 .. n : j > n - k /\ TouchedBy(b, j, o)
           Q == {k \in 0 .. n : (Same(k) => d[k][o] = p[n - k][o]) /\ (o \notin Touched(b) => d[k][o] = m[o])}
<1>1. n \in Nat BY TxShape
<1>2. /\ d \in [0 .. n -> Coins] /\ d[0] = m
      /\ \A k \in 1 .. n : d[k] = DisconnectTx(d[k - 1], b, n + 1 - k)
  BY DisconnectTxsLoop
<1>3. p[n] = UTXO(b) BY PrefixLoop
<1>4. \A k \in 1 .. n : o \notin Touched(b) => ~TouchedBy(b, k, o) BY TouchedFacts
<1>5. \A v \in Coins : \A k \in 1 .. n :
        /\ TouchedBy(b, k, o) \/ v[o] = p[k][o] => DisconnectTx(v, b, k)[o] = p[k - 1][o]
        /\ ~TouchedBy(b, k, o) => DisconnectTx(v, b, k)[o] = v[o]
  BY DisconnectTxFacts
<1>6. i \in Q
  <2> HIDE DEF d, p, n
  <2>1. 0 \in Q
    <3>1. ~ \E j \in 1 .. n : j > n - 0 /\ TouchedBy(b, j, o) BY <1>1
    <3>2. n - 0 = n BY <1>1
    <3> QED BY <1>1, <1>2, <1>3, <3>1, <3>2
  <2>2. ASSUME NEW k \in 1 .. n, k - 1 \in Q PROVE k \in Q
    <3> DEFINE j == n + 1 - k
    <3>1. /\ j \in 1 .. n /\ n - (k - 1) = j /\ n - k = j - 1 /\ k - 1 \in 0 .. n /\ k \in 0 .. n
      BY <1>1
    <3>2. d[k] = DisconnectTx(d[k - 1], b, j) /\ d[k - 1] \in Coins BY <1>2, <3>1
    <3> HIDE DEF j
    <3>3. Same(k) => TouchedBy(b, j, o) \/ Same(k - 1)
      <4>1. \A l \in 1 .. n : l > n - k => l = j \/ l > n - (k - 1) BY <1>1, <3>1
      <4> QED BY <4>1
    <3>4. Same(k - 1) => d[k - 1][o] = p[j][o] BY <2>2, <3>1
    <3>5. Same(k) => d[k][o] = p[j - 1][o]
      <4> HIDE DEF Same
      <4> QED BY <1>5, <3>1, <3>2, <3>3, <3>4
    <3>6. o \notin Touched(b) => d[k][o] = m[o] BY <1>4, <1>5, <2>2, <3>1, <3>2
    <3> HIDE DEF Same
    <3> QED BY <3>1, <3>5, <3>6
  <2>3. \A k \in 0 .. n : k \in Q
    <3> HIDE DEF Q
    <3> QED BY <1>1, <2>1, <2>2, LoopInduct
  <2>4. i \in 0 .. n BY DEF n
  <2> QED BY <2>3, <2>4
<1> QED BY <1>6

\* DisconnectBlock restores a touched coin to what the parent left, whatever it was before, and
\* leaves the others.
LEMMA DisconnectFacts ==
  ASSUME NEW m \in Coins, NEW b \in Blocks
  PROVE  /\ DisconnectBlock(m, b) \in Coins
         /\ \A o \in Outpoints :
              /\ o \in Touched(b) \/ m[o] = UTXO(b)[o] => DisconnectBlock(m, b)[o] = UTXO(Parent(b))[o]
              /\ o \notin Touched(b) => DisconnectBlock(m, b)[o] = m[o]
<1>1. Len(Txs[b]) \in Nat /\ Len(Txs[b]) \in 0 .. Len(Txs[b]) /\ Len(Txs[b]) - Len(Txs[b]) = 0
  BY TxShape
<1>2. DisconnectBlock(m, b) \in Coins BY <1>1, DisconnectTxsLoop, Zenon DEF DisconnectBlock
<1>3. ASSUME NEW o \in Outpoints
      PROVE  /\ o \in Touched(b) \/ m[o] = UTXO(b)[o] => DisconnectBlock(m, b)[o] = UTXO(Parent(b))[o]
             /\ o \notin Touched(b) => DisconnectBlock(m, b)[o] = m[o]
  <2>1. Prefix(b)[0] = UTXO(Parent(b)) BY PrefixLoop
  <2>2. o \in Touched(b) =>
          \E j \in 1 .. Len(Txs[b]) : j > Len(Txs[b]) - Len(Txs[b]) /\ TouchedBy(b, j, o)
    BY <1>1, TouchedFacts
  <2>3. /\ \/ m[o] = UTXO(b)[o]
           \/ \E j \in 1 .. Len(Txs[b]) : j > Len(Txs[b]) - Len(Txs[b]) /\ TouchedBy(b, j, o)
           => DisconnectTxs(m, b)[Len(Txs[b])][o] = Prefix(b)[Len(Txs[b]) - Len(Txs[b])][o]
        /\ o \notin Touched(b) => DisconnectTxs(m, b)[Len(Txs[b])][o] = m[o]
    BY <1>1, DisconnectTxsFacts, Zenon
  <2> QED BY <1>1, <2>1, <2>2, <2>3, Zenon DEF DisconnectBlock
<1> QED BY <1>2, <1>3

\* From the unspent outputs of a block DisconnectBlock is clean and gives those of its parent.
LEMMA DisconnectExact ==
  ASSUME NEW b \in Blocks
  PROVE  DisconnectClean(UTXO(b), b) /\ DisconnectBlock(UTXO(b), b) = UTXO(Parent(b))
<1>0. UTXO(b) \in Coins /\ UTXO(Parent(b)) \in Coins BY UTXOFacts DEF Tips
<1>1. DisconnectBlock(UTXO(b), b) = UTXO(Parent(b))
  <2>1. DisconnectBlock(UTXO(b), b) \in Coins
        /\ \A o \in Outpoints : DisconnectBlock(UTXO(b), b)[o] = UTXO(Parent(b))[o]
    BY <1>0, DisconnectFacts
  <2> QED BY <1>0, <2>1 DEF Coins
<1>2. ASSUME NEW i \in 1 .. Len(Txs[b]), NEW o \in Txs[b][i].ins \cup Txs[b][i].outs
      PROVE  DisconnectTxs(UTXO(b), b)[Len(Txs[b]) - i][o] = IF o \in Txs[b][i].outs THEN Height(b) ELSE Spent
  <2>1. o \in Outpoints BY TxShape
  <2>2. Len(Txs[b]) - i \in 0 .. Len(Txs[b]) /\ Len(Txs[b]) - (Len(Txs[b]) - i) = i BY TxShape
  <2>3. DisconnectTxs(UTXO(b), b)[Len(Txs[b]) - i][o] = Prefix(b)[Len(Txs[b]) - (Len(Txs[b]) - i)][o]
    BY <1>0, <2>1, <2>2, DisconnectTxsFacts
  <2>4. Prefix(b)[i][o] = IF o \in Txs[b][i].outs THEN Height(b) ELSE Spent
    BY <2>1, PrefixLoop, Zenon DEF UpdateCoins
  <2> QED BY <2>2, <2>3, <2>4
<1>3. \A i \in 1 .. Len(Txs[b]) : Txs[b][i].ins \cap Txs[b][i].outs = {} BY ValidAssumption
<1>4. DisconnectClean(UTXO(b), b) BY <1>2, <1>3 DEF DisconnectClean
<1> QED BY <1>1, <1>4

---------------------------------------------------------------------------
(* What the two loops of ReplayBlocks do to one coin. *)

\* The loop that undoes the blocks from the old tip down to the fork.
LEMMA RollBackLoop ==
  ASSUME NEW m \in Coins, NEW old \in Tips, NEW fork \in Tips, Len(fork) <= Len(old)
  PROVE  LET c == RollBack(m, old, fork)
         IN  /\ c \in [0 .. Len(old) - Len(fork) -> Coins] /\ c[0] = m
             /\ \A i \in 1 .. Len(old) - Len(fork) : c[i] = DisconnectBlock(c[i - 1], GetAncestor(old, Height(old) + 1 - i))
<1> DEFINE n == Len(old) - Len(fork)
           Up(i, v) == DisconnectBlock(v, GetAncestor(old, Height(old) + 1 - i))
           F == [p \in (1 .. n) \X Coins |-> Up(p[1], p[2])]
           Loop(c) == c = [i \in 0 .. n |-> IF i = 0 THEN m ELSE Up(i, c[i - 1])]
           c0 == RollBack(m, old, fork)
<1>1. n \in Nat BY TipShape
<1>2. \A i \in 1 .. n : \A v \in Coins : Up(i, v) \in Coins
  <2>1. \A i \in 1 .. n : Height(old) + 1 - i + 1 \in 1 .. Len(old) BY TipShape DEF Height
  <2>2. \A i \in 1 .. n : GetAncestor(old, Height(old) + 1 - i) \in Blocks BY <2>1, TipShape DEF GetAncestor
  <2> QED BY <2>2, DisconnectFacts
<1>3. c0 = CHOOSE c : Loop(c) BY DEF RollBack
<1>4. \E c : Loop(c)
  <2> HIDE DEF Up
  <2>1. F \in Steps(n, Coins) BY <1>2 DEF Steps
  <2>2. \A i \in 1 .. n : \A v \in Coins : F[<<i, v>>] = Up(i, v) OBVIOUS
  <2> HIDE DEF F, n
  <2>3. Runs(m, n, Coins, F) # {} BY <1>1, <2>1, LoopExists, Zenon
  <2>4. PICK c \in [0 .. n -> Coins] : c[0] = m /\ \A i \in 1 .. n : c[i] = F[<<i, c[i - 1]>>]
    BY <2>3, Zenon DEF Runs
  <2>5. \A i \in 1 .. n : c[i - 1] \in Coins BY <1>1
  <2>6. \A i \in 1 .. n : c[i] = Up(i, c[i - 1]) BY <2>2, <2>4, <2>5, Zenon
  <2>7. Loop(c) BY <1>1, <2>4, <2>6
  <2> QED BY <2>7, Zenon
<1>5. Loop(c0)
  <2> HIDE DEF Loop, c0
  <2> QED BY <1>3, <1>4
<1>6. c0[0] = m /\ \A i \in 1 .. n : c0[i] = Up(i, c0[i - 1])
  <2> HIDE DEF Up, c0
  <2> QED BY <1>1, <1>5
<1>7. \A i \in 0 .. n : c0[i] \in Coins
  <2> HIDE DEF Up, c0, n
  <2>1. \A i \in 1 .. n : c0[i - 1] \in Coins => c0[i] \in Coins BY <1>2, <1>6
  <2> QED BY <1>1, <1>6, <2>1, LoopTyped, Zenon
<1>8. c0 \in [0 .. n -> Coins]
  <2> HIDE DEF Up, c0, n
  <2> QED BY <1>5, <1>7
<1> QED BY <1>6, <1>8

\* The loop that redoes the blocks from above the fork up to the new tip.
LEMMA RollForwardLoop ==
  ASSUME NEW m \in Coins, NEW fork \in Tips, NEW new \in Blocks, Len(fork) <= Len(new)
  PROVE  LET c == RollForward(m, fork, new)
         IN  /\ c \in [0 .. Height(new) - ForkHeight(fork) -> Coins] /\ c[0] = m
             /\ \A i \in 1 .. Height(new) - ForkHeight(fork) : c[i] = RollforwardBlock(c[i - 1], GetAncestor(new, ForkHeight(fork) + i))
<1> DEFINE n == Height(new) - ForkHeight(fork)
           Up(i, v) == RollforwardBlock(v, GetAncestor(new, ForkHeight(fork) + i))
           F == [p \in (1 .. n) \X Coins |-> Up(p[1], p[2])]
           Loop(c) == c = [i \in 0 .. n |-> IF i = 0 THEN m ELSE Up(i, c[i - 1])]
           c0 == RollForward(m, fork, new)
<1>0. ForkHeight(fork) \in Nat /\ ForkHeight(fork) < Len(new)
  <2>1. fork \in Blocks => Len(fork) \in Nat /\ Len(fork) > 0 BY BlockShape
  <2> QED BY <2>1, BlockShape DEF ForkHeight, Height, Tips
<1>1. n \in Nat BY <1>0, BlockShape DEF Height
<1>2. \A i \in 1 .. n : \A v \in Coins : Up(i, v) \in Coins
  <2>1. \A i \in 1 .. n : ForkHeight(fork) + i + 1 \in 1 .. Len(new) BY <1>0, BlockShape DEF Height
  <2>2. \A i \in 1 .. n : GetAncestor(new, ForkHeight(fork) + i) \in Blocks BY <2>1, BlockShape DEF GetAncestor
  <2> QED BY <2>2, ConnectBlockType DEF ConnectBlock, RollforwardBlock
<1>3. c0 = CHOOSE c : Loop(c) BY DEF RollForward
<1>4. \E c : Loop(c)
  <2> HIDE DEF Up
  <2>1. F \in Steps(n, Coins) BY <1>2 DEF Steps
  <2>2. \A i \in 1 .. n : \A v \in Coins : F[<<i, v>>] = Up(i, v) OBVIOUS
  <2> HIDE DEF F, n
  <2>3. Runs(m, n, Coins, F) # {} BY <1>1, <2>1, LoopExists, Zenon
  <2>4. PICK c \in [0 .. n -> Coins] : c[0] = m /\ \A i \in 1 .. n : c[i] = F[<<i, c[i - 1]>>]
    BY <2>3, Zenon DEF Runs
  <2>5. \A i \in 1 .. n : c[i - 1] \in Coins BY <1>1
  <2>6. \A i \in 1 .. n : c[i] = Up(i, c[i - 1]) BY <2>2, <2>4, <2>5, Zenon
  <2>7. Loop(c) BY <1>1, <2>4, <2>6
  <2> QED BY <2>7, Zenon
<1>5. Loop(c0)
  <2> HIDE DEF Loop, c0
  <2> QED BY <1>3, <1>4
<1>6. c0[0] = m /\ \A i \in 1 .. n : c0[i] = Up(i, c0[i - 1])
  <2> HIDE DEF Up, c0
  <2> QED BY <1>1, <1>5
<1>7. \A i \in 0 .. n : c0[i] \in Coins
  <2> HIDE DEF Up, c0, n
  <2>1. \A i \in 1 .. n : c0[i - 1] \in Coins => c0[i] \in Coins BY <1>2, <1>6
  <2> QED BY <1>1, <1>6, <2>1, LoopTyped, Zenon
<1>8. c0 \in [0 .. n -> Coins]
  <2> HIDE DEF Up, c0, n
  <2> QED BY <1>5, <1>7
<1> QED BY <1>6, <1>8

\* Both loops yield coins.
LEMMA RollTypes ==
  ASSUME NEW m \in Coins, NEW fork \in Tips
  PROVE  /\ \A old \in Tips : Len(fork) <= Len(old) => RollBack(m, old, fork)[Len(old) - Len(fork)] \in Coins
         /\ \A new \in Blocks : Len(fork) <= Len(new) =>
              RollForward(m, fork, new)[Height(new) - ForkHeight(fork)] \in Coins
<1>1. ASSUME NEW old \in Tips, Len(fork) <= Len(old)
      PROVE  RollBack(m, old, fork)[Len(old) - Len(fork)] \in Coins
  <2>1. Len(old) - Len(fork) \in 0 .. Len(old) - Len(fork) BY <1>1, TipShape
  <2> QED BY <1>1, <2>1, RollBackLoop, Zenon
<1>2. ASSUME NEW new \in Blocks, Len(fork) <= Len(new)
      PROVE  RollForward(m, fork, new)[Height(new) - ForkHeight(fork)] \in Coins
  <2>1. fork \in Blocks => Len(fork) \in Nat /\ Len(fork) > 0 BY BlockShape
  <2>2. Height(new) - ForkHeight(fork) \in Nat BY <1>2, <2>1, BlockShape DEF ForkHeight, Height, Tips
  <2>3. Height(new) - ForkHeight(fork) \in 0 .. Height(new) - ForkHeight(fork) BY <2>2
  <2> QED BY <1>2, <2>3, RollForwardLoop, Zenon
<1> QED BY <1>1, <1>2

\* The coins a block of the path to b above its first f blocks touches.
TouchedAbove(b, f) == UNION {Touched(SubSeq(b, 1, k)) : k \in f + 1 .. Len(b)}

\* Undoing the blocks above the fork restores a coin they touch, or that was as the old tip left
\* it, to what the fork left; an untouched one keeps its value.
LEMMA RollBackFacts ==
  ASSUME NEW m \in Coins, NEW old \in Tips, NEW f \in 0 .. Len(old), NEW o \in Outpoints
  PROVE  LET fork == SubSeq(old, 1, f)
             undone == RollBack(m, old, fork)[Len(old) - Len(fork)]
         IN  /\ o \in TouchedAbove(old, f) \/ m[o] = UTXO(old)[o] => undone[o] = UTXO(fork)[o]
             /\ o \notin TouchedAbove(old, f) => undone[o] = m[o]
<1> DEFINE fork == SubSeq(old, 1, f)
           n == Len(old) - f
           c == RollBack(m, old, fork)
           P(k) == SubSeq(old, 1, k)
           Same(i) == m[o] = UTXO(old)[o] \/ \E k \in Len(old) - i + 1 .. Len(old) : o \in Touched(P(k))
           Q == {i \in 0 .. n : /\ Same(i) => c[i][o] = UTXO(P(Len(old) - i))[o]
                                /\ o \notin TouchedAbove(old, f) => c[i][o] = m[o]}
<1>1. Len(old) \in Nat /\ f \in Nat /\ n \in Nat /\ f <= Len(old) BY TipShape
<1>2. fork \in Tips /\ Len(fork) = f BY TipShape
<1>3. /\ c \in [0 .. n -> Coins] /\ c[0] = m
      /\ \A i \in 1 .. n : c[i] = DisconnectBlock(c[i - 1], GetAncestor(old, Height(old) + 1 - i))
  <2>1. Len(fork) <= Len(old) BY <1>1, <1>2
  <2> HIDE DEF fork
  <2>2. /\ c \in [0 .. Len(old) - Len(fork) -> Coins] /\ c[0] = m
        /\ \A i \in 1 .. Len(old) - Len(fork) :
             c[i] = DisconnectBlock(c[i - 1], GetAncestor(old, Height(old) + 1 - i))
    BY <1>2, <2>1, RollBackLoop
  <2> HIDE DEF c
  <2> QED BY <1>2, <2>2, Zenon
<1>4. \A i \in 1 .. n : GetAncestor(old, Height(old) + 1 - i) = P(Len(old) - i + 1)
  <2>1. \A i \in 1 .. n : Height(old) + 1 - i + 1 = Len(old) - i + 1 BY <1>1 DEF Height
  <2> QED BY <2>1 DEF GetAncestor
<1>5. \A k \in 1 .. Len(old) : P(k) \in Blocks /\ Parent(P(k)) = P(k - 1) BY TipShape
<1>6. P(Len(old)) = old BY TipShape
<1>7. \A k \in f + 1 .. Len(old) : o \notin TouchedAbove(old, f) => o \notin Touched(P(k))
  BY DEF TouchedAbove
<1>8. n \in Q
  <2> HIDE DEF c, P, n
  <2>0. n = Len(old) - f BY DEF n
  <2>1. 0 \in Q
    <3>1. ~ \E k \in Len(old) - 0 + 1 .. Len(old) : o \in Touched(P(k)) BY <1>1
    <3>2. Len(old) - 0 = Len(old) BY <1>1
    <3> QED BY <1>1, <1>3, <1>6, <3>1, <3>2
  <2>2. ASSUME NEW i \in 1 .. n, i - 1 \in Q PROVE i \in Q
    <3> DEFINE k == Len(old) - i + 1
    <3>1. /\ k \in 1 .. Len(old) /\ k \in f + 1 .. Len(old) /\ Len(old) - (i - 1) = k
          /\ Len(old) - i = k - 1 /\ i - 1 \in 0 .. n /\ i \in 0 .. n
      BY <1>1, <2>0
    <3>2. c[i] = DisconnectBlock(c[i - 1], P(k)) /\ c[i - 1] \in Coins BY <1>3, <1>4, <3>1
    <3>3. Same(i) => o \in Touched(P(k)) \/ Same(i - 1)
      <4>1. \A l \in Len(old) - i + 1 .. Len(old) : l = k \/ l \in Len(old) - (i - 1) + 1 .. Len(old)
        BY <1>1
      <4> HIDE DEF k
      <4> QED BY <4>1
    <3> HIDE DEF k
    <3>4. Same(i - 1) => c[i - 1][o] = UTXO(P(k))[o] BY <2>2, <3>1, Zenon
    <3>5. /\ o \in Touched(P(k)) \/ c[i - 1][o] = UTXO(P(k))[o] => c[i][o] = UTXO(P(k - 1))[o]
          /\ o \notin Touched(P(k)) => c[i][o] = c[i - 1][o]
      BY <1>5, <3>1, <3>2, DisconnectFacts
    <3>6. Same(i) => c[i][o] = UTXO(P(k - 1))[o]
      <4> HIDE DEF Same
      <4> QED BY <3>3, <3>4, <3>5
    <3>7. o \notin TouchedAbove(old, f) => c[i][o] = m[o] BY <1>7, <2>2, <3>1, <3>5
    <3> HIDE DEF Same
    <3> QED BY <3>1, <3>6, <3>7
  <2>3. \A i \in 0 .. n : i \in Q
    <3> HIDE DEF Q
    <3> QED BY <1>1, <2>1, <2>2, LoopInduct, Zenon
  <2> QED BY <1>1, <2>3
<1>9. Len(old) - n = f /\ Len(old) - n + 1 = f + 1 /\ n = Len(old) - Len(fork) /\ n \in 0 .. n
  BY <1>1, <1>2
<1>10. o \in TouchedAbove(old, f) => Same(n)
  <2> HIDE DEF n
  <2> QED BY <1>9 DEF TouchedAbove
<1>12. m[o] = UTXO(old)[o] => Same(n) OBVIOUS
<1>13. /\ o \in TouchedAbove(old, f) \/ m[o] = UTXO(old)[o] => c[n][o] = UTXO(fork)[o]
       /\ o \notin TouchedAbove(old, f) => c[n][o] = m[o]
  <2>1. UTXO(P(Len(old) - n)) = UTXO(fork) BY <1>9
  <2> HIDE DEF c, n, Same, P, fork
  <2> QED BY <1>8, <1>10, <1>12, <2>1
<1> QED BY <1>9, <1>13, Zenon

\* Redoing the blocks above the fork makes a coin they touch, or that was as the fork left it,
\* what the new tip leaves; an untouched one keeps its value, and the new tip leaves it as the
\* fork did.
LEMMA RollForwardFacts ==
  ASSUME NEW m \in Coins, NEW new \in Blocks, NEW f \in 0 .. Len(new), NEW o \in Outpoints
  PROVE  LET fork == SubSeq(new, 1, f)
             redone == RollForward(m, fork, new)[Height(new) - ForkHeight(fork)]
         IN  /\ o \in TouchedAbove(new, f) \/ m[o] = UTXO(fork)[o] => redone[o] = UTXO(new)[o]
             /\ o \notin TouchedAbove(new, f) => redone[o] = m[o] /\ UTXO(new)[o] = UTXO(fork)[o]
<1> DEFINE fork == SubSeq(new, 1, f)
           base == ForkHeight(fork) + 1
           n == Height(new) - ForkHeight(fork)
           c == RollForward(m, fork, new)
           P(k) == SubSeq(new, 1, k)
           Same(i) == m[o] = UTXO(fork)[o] \/ \E k \in base + 1 .. base + i : o \in Touched(P(k))
           Q == {i \in 0 .. n : /\ Same(i) => c[i][o] = UTXO(P(base + i))[o]
                                /\ o \notin TouchedAbove(new, f) =>
                                     c[i][o] = m[o] /\ UTXO(P(base + i))[o] = UTXO(fork)[o]}
<1>0. new \in Tips /\ Len(new) > 0 BY BlockShape DEF Tips
<1>1. Len(new) \in Nat /\ f \in Nat /\ f <= Len(new) BY <1>0, TipShape
<1>2. fork \in Tips /\ Len(fork) = f BY <1>0, TipShape
<1>3. base = IF f = 0 THEN 1 ELSE f
  <2>1. f = 0 <=> fork = NullBlock
    <3>1. Len(NullBlock) = 0 BY DEF NullBlock
    <3>2. f = 0 => fork = NullBlock BY <1>0, TipShape
    <3> QED BY <1>2, <3>1, <3>2
  <2> QED BY <1>1, <1>2, <2>1 DEF ForkHeight, Height
<1>4. n \in Nat /\ base \in Nat /\ base + n = Len(new) /\ base >= 1 /\ base >= f
  <2>1. n = Len(new) - base BY <1>1, <1>2 DEF Height, ForkHeight
  <2> HIDE DEF n, base
  <2> QED BY <1>0, <1>1, <1>3, <2>1
<1>5. /\ c \in [0 .. n -> Coins] /\ c[0] = m
      /\ \A i \in 1 .. n : c[i] = RollforwardBlock(c[i - 1], GetAncestor(new, ForkHeight(fork) + i))
  <2>1. Len(fork) <= Len(new) BY <1>1, <1>2
  <2> HIDE DEF fork
  <2> QED BY <1>2, <2>1, RollForwardLoop
<1>6. \A i \in 1 .. n : GetAncestor(new, ForkHeight(fork) + i) = P(base + i)
  <2>1. ForkHeight(fork) \in Int BY <1>1, <1>2 DEF ForkHeight, Height
  <2>2. \A i \in 1 .. n : ForkHeight(fork) + i + 1 = base + i BY <2>1
  <2> QED BY <2>2, Zenon DEF GetAncestor
<1>7. \A k \in 1 .. Len(new) : P(k) \in Blocks /\ Parent(P(k)) = P(k - 1) BY <1>0, TipShape
<1>8. P(Len(new)) = new BY <1>0, TipShape
<1>9. UTXO(P(base)) = UTXO(fork)
  <2>1. CASE f = 0
    <3>1. fork = NullBlock BY <1>0, <2>1, TipShape
    <3>2. P(1) = Genesis BY BlockShape
    <3>3. P(base) = Genesis BY <1>3, <2>1, <3>2, Zenon
    <3> QED BY <3>1, <3>3, UTXOFacts, Zenon
  <2>2. CASE f # 0 BY <1>3, <2>2
  <2> QED BY <2>1, <2>2
<1>10. \A k \in f + 1 .. Len(new) : o \notin TouchedAbove(new, f) => o \notin Touched(P(k))
  BY DEF TouchedAbove
<1>11. n \in Q
  <2> HIDE DEF c, P, n, base, fork
  <2>1. 0 \in Q
    <3>1. ~ \E k \in base + 1 .. base + 0 : o \in Touched(P(k)) BY <1>4
    <3>2. base + 0 = base BY <1>4
    <3> QED BY <1>4, <1>5, <1>9, <3>1, <3>2
  <2>2. ASSUME NEW i \in 1 .. n, i - 1 \in Q PROVE i \in Q
    <3> DEFINE k == base + i
    <3>1. /\ k \in 1 .. Len(new) /\ k \in f + 1 .. Len(new) /\ base + (i - 1) = k - 1
          /\ i - 1 \in 0 .. n /\ i \in 0 .. n
      BY <1>1, <1>4
    <3>2. c[i] = ConnectBlock(c[i - 1], P(k)) /\ c[i - 1] \in Coins
      BY <1>5, <1>6, <3>1 DEF RollforwardBlock, ConnectBlock
    <3>3. Same(i) => o \in Touched(P(k)) \/ Same(i - 1)
      <4>1. \A l \in base + 1 .. base + i : l = k \/ l \in base + 1 .. base + (i - 1)
        BY <1>4
      <4> HIDE DEF k
      <4> QED BY <4>1
    <3> HIDE DEF k
    <3>4. /\ Same(i - 1) => c[i - 1][o] = UTXO(P(k - 1))[o]
          /\ o \notin TouchedAbove(new, f) => c[i - 1][o] = m[o] /\ UTXO(P(k - 1))[o] = UTXO(fork)[o]
      BY <2>2, <3>1
    <3>5. /\ o \in Touched(P(k)) \/ c[i - 1][o] = UTXO(P(k - 1))[o] => c[i][o] = UTXO(P(k))[o]
          /\ o \notin Touched(P(k)) => c[i][o] = c[i - 1][o] /\ UTXO(P(k))[o] = UTXO(P(k - 1))[o]
      BY <1>7, <3>1, <3>2, ConnectFacts
    <3>6. Same(i) => c[i][o] = UTXO(P(k))[o]
      <4> HIDE DEF Same
      <4> QED BY <3>3, <3>4, <3>5
    <3>7. o \notin TouchedAbove(new, f) => c[i][o] = m[o] /\ UTXO(P(k))[o] = UTXO(fork)[o]
      BY <1>10, <3>1, <3>4, <3>5
    <3>8. k = base + i BY DEF k
    <3> HIDE DEF Same
    <3> QED BY <3>1, <3>6, <3>7, <3>8
  <2>3. \A i \in 0 .. n : i \in Q
    <3> HIDE DEF Q
    <3> QED BY <1>4, <2>1, <2>2, LoopInduct
  <2> QED BY <1>4, <2>3
<1>14. o \in TouchedAbove(new, f) => Same(n) \/ o \in Touched(P(1))
  <2>1. \A k \in f + 1 .. Len(new) : k = 1 \/ k \in base + 1 .. base + n
    <3> HIDE DEF n, base, fork
    <3> QED BY <1>1, <1>3, <1>4
  <2> HIDE DEF n, base, fork
  <2> QED BY <2>1 DEF TouchedAbove
<1>15. o \notin Touched(P(1))
  <2>1. P(1) = Genesis BY BlockShape
  <2>0. Txs[Genesis] = <<>> BY RecoveryAssumption
  <2>2. Len(Txs[Genesis]) = 0 BY <2>0
  <2>3. Genesis \in Blocks BY RecoveryAssumption
  <2>4. o \notin Touched(Genesis) BY <2>2, <2>3, TouchedFacts
  <2> QED BY <2>1, <2>4, Zenon
<1>16. UTXO(P(base + n)) = UTXO(new) BY <1>4, <1>8, Zenon
<1>17. m[o] = UTXO(fork)[o] => Same(n) OBVIOUS
<1>18. /\ o \in TouchedAbove(new, f) \/ m[o] = UTXO(fork)[o] => c[n][o] = UTXO(new)[o]
       /\ o \notin TouchedAbove(new, f) => c[n][o] = m[o] /\ UTXO(new)[o] = UTXO(fork)[o]
  <2> HIDE DEF c, n, Same, P, fork, base
  <2> QED BY <1>11, <1>14, <1>15, <1>16, <1>17
<1> QED BY <1>18, Zenon

\* The fork is a prefix of both tips; it is empty when there was no old tip.
LEMMA ForkFacts ==
  ASSUME NEW new \in Blocks, NEW old \in Tips
  PROVE  \E f \in 0 .. Len(old) : /\ f \in 0 .. Len(new)
                                  /\ ForkOf(<<new, old>>) = SubSeq(old, 1, f)
                                  /\ ForkOf(<<new, old>>) = SubSeq(new, 1, f)
<1>0. new \in Tips BY DEF Tips
<1>1. CASE old = NullBlock
  <2>1. 0 \in 0 .. Len(old) /\ 0 \in 0 .. Len(new) BY <1>0, TipShape
  <2>2. SubSeq(old, 1, 0) = NullBlock /\ SubSeq(new, 1, 0) = NullBlock BY <1>0, TipShape
  <2>3. ForkOf(<<new, old>>) = NullBlock BY <1>1 DEF ForkOf
  <2> QED BY <2>1, <2>2, <2>3
<1>2. CASE old \in Blocks
  <2> DEFINE A == Ancestors(old) \cap Ancestors(new)
             c == LastCommonAncestor(old, new)
  <2>1. \A a \in A : /\ Len(a) \in 1 .. Len(old) /\ a = SubSeq(old, 1, Len(a))
                     /\ Len(a) \in 1 .. Len(new) /\ a = SubSeq(new, 1, Len(a))
    <3>1. ASSUME NEW b \in Blocks, NEW a \in Ancestors(b)
          PROVE  Len(a) \in 1 .. Len(b) /\ a = SubSeq(b, 1, Len(a))
      <4>1. PICK n \in 1 .. Len(b) : a = SubSeq(b, 1, n) BY DEF Ancestors
      <4>2. b \in Tips /\ n \in 0 .. Len(b) BY BlockShape DEF Tips
      <4>3. Len(a) = n BY <4>1, <4>2, TipShape
      <4> QED BY <4>1, <4>3
    <3> QED BY <1>2, <3>1
  <2>2. Genesis \in A BY <1>2, RecoveryAssumption
  <2>3. \E a \in A : \A d \in A : Height(d) <= Height(a)
    <3> DEFINE T == {Len(old) - Len(a) : a \in A}
    <3>1. Len(old) \in Nat BY <1>2, BlockShape
    <3>2. T \in SUBSET Nat /\ T # {} BY <2>1, <2>2, <3>1
    <3>3. PICK x \in T : \A y \in T : x <= y
      <4> HIDE DEF T
      <4> QED BY <3>2, Least
    <3>4. PICK a \in A : x = Len(old) - Len(a) BY <3>3
    <3>5. ASSUME NEW d \in A PROVE Height(d) <= Height(a)
      <4>1. Len(old) - Len(a) <= Len(old) - Len(d) BY <3>3, <3>4, Zenon
      <4>2. Len(a) \in Nat /\ Len(d) \in Nat BY <2>1
      <4> QED BY <3>1, <4>1, <4>2 DEF Height
    <3> QED BY <3>5
  <2>4. c \in A
    <3> HIDE DEF A
    <3>1. c = CHOOSE a \in A : \A d \in A : Height(d) <= Height(a) BY DEF A, LastCommonAncestor
    <3> QED BY <2>3, <3>1
  <2>5. ForkOf(<<new, old>>) = c BY <1>2, BlockShape DEF ForkOf
  <2>6. Len(c) \in 0 .. Len(old) /\ Len(c) \in 0 .. Len(new) BY <2>1, <2>4
  <2> HIDE DEF A, c
  <2> QED BY <2>1, <2>4, <2>5, <2>6, Zenon
<1> QED BY <1>1, <1>2, Zenon DEF Tips

\* A block above the fork of either tip is one that ReplayBlocks undoes or redoes.
LEMMA DirtyFacts ==
  ASSUME NEW new \in Blocks, NEW old \in Tips, NEW b \in {new, old}, NEW f \in 0 .. Len(b),
         ForkOf(<<new, old>>) = SubSeq(b, 1, f)
  PROVE  TouchedAbove(b, f) \subseteq ReplayDirty(<<new, old>>)
<1> DEFINE fork == SubSeq(b, 1, f)
<1>0. b \in Tips BY DEF Tips
<1>1. Len(b) \in Nat /\ f \in Nat /\ Len(fork) = f /\ fork \in Tips BY <1>0, TipShape
<1>2. ASSUME NEW k \in f + 1 .. Len(b)
      PROVE  SubSeq(b, 1, k) \in (Ancestors(new) \cup Ancestors(old)) \ Ancestors(fork)
  <2>1. k \in 1 .. Len(b) /\ k \in 0 .. Len(b) /\ k > f BY <1>1
  <2>2. SubSeq(b, 1, k) \in Ancestors(b) BY <2>1 DEF Ancestors
  <2>3. Len(SubSeq(b, 1, k)) = k BY <1>0, <2>1, TipShape
  <2>4. \A n \in 1 .. Len(fork) : Len(SubSeq(fork, 1, n)) = n
    <3>1. \A n \in 1 .. Len(fork) : n \in 0 .. Len(fork) BY <1>1
    <3> HIDE DEF fork
    <3> QED BY <1>1, <3>1, TipShape
  <2>5. \A n \in 1 .. Len(fork) : SubSeq(fork, 1, n) # SubSeq(b, 1, k)
    <3> HIDE DEF fork
    <3> QED BY <1>1, <2>1, <2>3, <2>4
  <2>6. SubSeq(b, 1, k) \notin Ancestors(fork)
    <3> HIDE DEF fork
    <3> QED BY <2>5 DEF Ancestors
  <2> QED BY <2>2, <2>6
<1>3. ReplayDirty(<<new, old>>) =
        UNION {Touched(a) : a \in (Ancestors(new) \cup Ancestors(old)) \ Ancestors(fork)}
  BY Zenon DEF ReplayDirty
<1> HIDE DEF fork
<1> QED BY <1>2, <1>3, Zenon DEF TouchedAbove

\* ReplayBlocks: from any mixture of the coins of the old and of the new tip to the coins of the
\* new one, changing only coins that the blocks it visits touch.
LEMMA ReplayFacts ==
  ASSUME NEW m \in Coins, NEW new \in Blocks, NEW old \in Tips,
         \A o \in Outpoints : m[o] \in {UTXO(old)[o], UTXO(new)[o]}
  PROVE  /\ ReplayBlocks(m, <<new, old>>) = UTXO(new)
         /\ \A o \in Outpoints \ ReplayDirty(<<new, old>>) : UTXO(new)[o] = m[o]
<1> DEFINE fork == ForkOf(<<new, old>>)
           undone == RollBack(m, old, fork)[Len(old) - Len(fork)]
           redone == RollForward(undone, fork, new)[Height(new) - ForkHeight(fork)]
<1>0. ReplayBlocks(m, <<new, old>>) = redone BY DEF ReplayBlocks
<1>1. PICK f \in 0 .. Len(old) : /\ f \in 0 .. Len(new)
                                 /\ fork = SubSeq(old, 1, f) /\ fork = SubSeq(new, 1, f)
  BY ForkFacts, Zenon
<1>2. TouchedAbove(old, f) \cup TouchedAbove(new, f) \subseteq ReplayDirty(<<new, old>>)
  BY <1>1, DirtyFacts, Zenon
<1> HIDE DEF fork
<1>3. undone \in Coins /\ redone \in Coins
  <2>1. new \in Tips BY DEF Tips
  <2>2. fork \in Tips /\ Len(fork) = f BY <1>1, TipShape
  <2>3. Len(fork) <= Len(old) /\ Len(fork) <= Len(new) BY <1>1, <2>1, <2>2, TipShape
  <2>4. undone \in Coins BY <2>2, <2>3, RollTypes, Zenon
  <2> HIDE DEF undone
  <2> QED BY <2>2, <2>3, <2>4, RollTypes
<1>4. ASSUME NEW o \in Outpoints
      PROVE  /\ redone[o] = UTXO(new)[o]
             /\ o \notin ReplayDirty(<<new, old>>) => redone[o] = m[o]
  <2>1. /\ o \in TouchedAbove(old, f) \/ m[o] = UTXO(old)[o] => undone[o] = UTXO(fork)[o]
        /\ o \notin TouchedAbove(old, f) => undone[o] = m[o]
    BY <1>1, RollBackFacts
  <2>2. /\ o \in TouchedAbove(new, f) \/ undone[o] = UTXO(fork)[o] => redone[o] = UTXO(new)[o]
        /\ o \notin TouchedAbove(new, f) => redone[o] = undone[o] /\ UTXO(new)[o] = UTXO(fork)[o]
    <3> HIDE DEF undone
    <3> DEFINE g == SubSeq(new, 1, f)
               r == RollForward(undone, g, new)[Height(new) - ForkHeight(g)]
    <3>1. /\ o \in TouchedAbove(new, f) \/ undone[o] = UTXO(g)[o] => r[o] = UTXO(new)[o]
          /\ o \notin TouchedAbove(new, f) => r[o] = undone[o] /\ UTXO(new)[o] = UTXO(g)[o]
      BY <1>1, <1>3, RollForwardFacts
    <3>2. fork = g BY <1>1
    <3> QED BY <3>1, <3>2, Zenon
  <2> HIDE DEF undone, redone
  <2>3. m[o] = UTXO(old)[o] \/ m[o] = UTXO(new)[o] OBVIOUS
  <2>4. redone[o] = UTXO(new)[o] BY <2>1, <2>2, <2>3
  <2>5. o \notin ReplayDirty(<<new, old>>) => redone[o] = m[o] BY <1>2, <2>1, <2>2
  <2> QED BY <2>4, <2>5
<1>5. UTXO(new) \in Coins BY UTXOFacts DEF Tips
<1>6. redone = UTXO(new)
  <2> HIDE DEF redone
  <2> QED BY <1>3, <1>4, <1>5 DEF Coins
<1> HIDE DEF redone
<1> QED BY <1>0, <1>4, <1>6

---------------------------------------------------------------------------
(* The inductive invariant. *)
TypeOK ==
  /\ db \in Coins /\ best \in Tips /\ heads \in {<<>>} \cup (Blocks \X Tips) /\ indexDb \subseteq Blocks
  /\ index \subseteq Blocks /\ tip \in Tips /\ coins \in Coins /\ dirty \subseteq Outpoints
  /\ phase \in {"idle", "flush", "replay", "down"}

\* On disk: the coins of the best block or, between the first and the last batch, of each
\* outpoint the coin of the old or of the new tip.
DiskInv ==
  /\ heads = <<>> => db = UTXO(best)
  /\ heads # <<>> => /\ best = NullBlock /\ heads[1] \in indexDb /\ heads[2] \in indexDb \cup {NullBlock}
                     /\ \A o \in Outpoints : db[o] \in {UTXO(heads[2])[o], UTXO(heads[1])[o]}
  /\ best \in indexDb \cup {NullBlock}
  /\ \A b \in indexDb \ {Genesis} : Parent(b) \in indexDb \cup {Genesis}

\* In memory: the coins of the tip, or of the block that ReplayBlocks has reached; a coin without
\* a DIRTY entry is the one on disk.
MemoryInv ==
  phase # "down" =>
    /\ Genesis \in index /\ indexDb \subseteq index /\ tip \in index \cup {NullBlock}
    /\ \A b \in index \ {Genesis} : Parent(b) \in index
    /\ \A o \in Outpoints \ dirty : coins[o] = db[o]
    /\ phase \in {"idle", "flush"} => coins = UTXO(tip)
    /\ phase = "idle" => heads = <<>>
    /\ phase = "flush" => tip \in indexDb /\ (heads # <<>> => heads[1] = tip)
    /\ phase = "replay" => heads # <<>> /\ coins = UTXO(heads[1])

Inv == TypeOK /\ DiskInv /\ MemoryInv

\* Initially nothing is on disk and nothing is connected.
LEMMA InitInv == Init => Inv
<1> SUFFICES ASSUME Init PROVE Inv OBVIOUS
<1>1. NullBlock \in Tips /\ Genesis \in Blocks BY RecoveryAssumption DEF Tips
<1>2. UTXO(NullBlock) = NoCoins /\ NoCoins \in Coins BY <1>1, UTXOFacts
<1>3. TypeOK BY <1>1, <1>2 DEF Init, TypeOK
<1>4. DiskInv BY <1>2 DEF Init, DiskInv
<1>5. MemoryInv BY <1>2 DEF Init, MemoryInv
<1> QED BY <1>3, <1>4, <1>5 DEF Inv

\* AcceptBlock changes only the index.
LEMMA AcceptBlockInv ==
  ASSUME Inv, NEW b \in Blocks, AcceptBlock(b)
  PROVE  Inv'
<1> USE DEF AcceptBlock, disk
<1>1. TypeOK' BY DEF Inv, TypeOK
<1>2. DiskInv' BY DEF Inv, DiskInv
<1>3. MemoryInv' BY DEF Inv, MemoryInv
<1> QED BY <1>1, <1>2, <1>3 DEF Inv

\* ConnectTip makes the coins of the tip those of the new block, and marks what differs DIRTY.
LEMMA ConnectTipInv ==
  ASSUME Inv, NEW b \in Blocks, ConnectTip(b)
  PROVE  Inv'
<1>1. /\ phase = "idle" /\ b \in index /\ tip = Parent(b) /\ tip' = b
      /\ coins' = ConnectBlock(coins, b) /\ dirty' = dirty \cup Touched(b)
      /\ UNCHANGED <<db, best, heads, indexDb, index, phase, crashes>>
  BY DEF ConnectTip, disk
<1>2. coins = UTXO(tip) /\ coins \in Coins BY <1>1 DEF Inv, TypeOK, MemoryInv
<1>3. coins' = UTXO(b) /\ coins' \in Coins BY <1>1, <1>2, UTXOFacts DEF Tips
<1>4. Touched(b) \subseteq Outpoints BY TxShape DEF Touched
<1>5. TypeOK' BY <1>1, <1>3, <1>4 DEF Inv, TypeOK, Tips
<1>6. DiskInv' BY <1>1 DEF Inv, DiskInv
<1>7. \A o \in Outpoints \ dirty' : coins'[o] = db'[o]
  <2>1. \A o \in Outpoints \ Touched(b) : coins'[o] = coins[o] BY <1>1, <1>2, ConnectUntouched
  <2> QED BY <1>1, <2>1 DEF Inv, MemoryInv
<1>8. MemoryInv' BY <1>1, <1>3, <1>7 DEF Inv, MemoryInv
<1> QED BY <1>5, <1>6, <1>8 DEF Inv

\* DisconnectTip makes them those of the parent.
LEMMA DisconnectTipInv ==
  ASSUME Inv, DisconnectTip
  PROVE  Inv'
<1>1. /\ phase = "idle" /\ tip \notin {NullBlock, Genesis} /\ tip' = Parent(tip)
      /\ coins' = DisconnectBlock(coins, tip) /\ dirty' = dirty \cup Touched(tip)
      /\ UNCHANGED <<db, best, heads, indexDb, index, phase, crashes>>
  BY DEF DisconnectTip, disk
<1>2. coins = UTXO(tip) /\ coins \in Coins /\ tip \in index /\ tip \in Blocks /\ Parent(tip) \in index
  BY <1>1 DEF Inv, TypeOK, MemoryInv, Tips
<1>3. coins' = UTXO(Parent(tip)) BY <1>1, <1>2, DisconnectExact
<1>4. coins' \in Coins /\ tip' \in Tips BY <1>1, <1>2, <1>3, UTXOFacts
<1>5. Touched(tip) \subseteq Outpoints BY <1>2, TxShape DEF Touched
<1>6. TypeOK' BY <1>1, <1>4, <1>5 DEF Inv, TypeOK
<1>7. DiskInv' BY <1>1 DEF Inv, DiskInv
<1>8. \A o \in Outpoints \ dirty' : coins'[o] = db'[o]
  <2>1. \A o \in Outpoints \ Touched(tip) : coins'[o] = coins[o] BY <1>1, <1>2, DisconnectFacts
  <2> QED BY <1>1, <2>1 DEF Inv, MemoryInv
<1>9. MemoryInv' BY <1>1, <1>2, <1>3, <1>8 DEF Inv, MemoryInv
<1> QED BY <1>6, <1>7, <1>9 DEF Inv

\* FlushStateToDisk writes the index before any coin: the tip is known on disk.
LEMMA WriteBlockIndexInv ==
  ASSUME Inv, NEW full \in BOOLEAN, WriteBlockIndex(full)
  PROVE  Inv'
<1>1. /\ phase = "idle" /\ indexDb' = index /\ phase' \in {"idle", "flush"}
      /\ phase' = "flush" => tip # NullBlock
      /\ UNCHANGED <<db, best, heads, index, tip, coins, dirty, crashes>>
  BY DEF WriteBlockIndex
<1>2. indexDb \subseteq index /\ Genesis \in index /\ heads = <<>> /\ tip \in index \cup {NullBlock}
      /\ (\A b \in index \ {Genesis} : Parent(b) \in index) /\ coins = UTXO(tip)
      /\ (\A o \in Outpoints \ dirty : coins[o] = db[o])
  BY <1>1 DEF Inv, MemoryInv
<1>3. TypeOK' BY <1>1 DEF Inv, TypeOK
<1>4. DiskInv' BY <1>1, <1>2 DEF Inv, DiskInv
<1>5. MemoryInv' BY <1>1, <1>2 DEF MemoryInv
<1> QED BY <1>3, <1>4, <1>5 DEF Inv

\* The flush or replay is on its way from OldTip to Target: each coin on disk is of one of them,
\* and the coins in memory are those of Target.
LEMMA BatchFacts ==
  ASSUME Inv, phase \in {"flush", "replay"}
  PROVE  /\ Target \in indexDb /\ Target \in index /\ Target \in Blocks
         /\ OldTip \in indexDb \cup {NullBlock} /\ OldTip \in Tips
         /\ coins = UTXO(Target) /\ coins \in Coins /\ db \in Coins
         /\ \A o \in Outpoints : db[o] \in {UTXO(OldTip)[o], UTXO(Target)[o]}
<1>1. CASE heads = <<>>
  <2>1. phase = "flush" /\ Target = tip /\ OldTip = best BY <1>1 DEF Inv, MemoryInv, Target, OldTip
  <2> QED BY <1>1, <2>1 DEF Inv, TypeOK, DiskInv, MemoryInv
<1>2. CASE heads # <<>>
  <2>1. heads \in Blocks \X Tips /\ best = NullBlock BY <1>2 DEF Inv, TypeOK, DiskInv
  <2>2. Target = heads[1] /\ OldTip = heads[2] BY <1>2, <2>1 DEF Target, OldTip
  <2>3. coins = UTXO(heads[1])  BY <1>2 DEF Inv, MemoryInv
  <2>4. indexDb \subseteq index BY DEF Inv, MemoryInv
  <2> QED BY <1>2, <2>1, <2>2, <2>3, <2>4 DEF Inv, TypeOK, DiskInv
<1> QED BY <1>1, <1>2

\* What a batch writes is of Target, what it does not write stays.
LEMMA WrittenFacts ==
  ASSUME Inv, phase \in {"flush", "replay"}, NEW S \in SUBSET dirty
  PROVE  /\ Written(S) \in Coins
         /\ \A o \in Outpoints : Written(S)[o] \in {UTXO(OldTip)[o], UTXO(Target)[o]}
         /\ \A o \in Outpoints \ (dirty \ S) : Written(S)[o] = coins[o]
<1>1. coins = UTXO(Target) /\ coins \in Coins /\ db \in Coins
      /\ \A o \in Outpoints : db[o] \in {UTXO(OldTip)[o], UTXO(Target)[o]}
  BY BatchFacts
<1>2. \A o \in Outpoints \ dirty : coins[o] = db[o] BY DEF Inv, MemoryInv
<1> QED BY <1>1, <1>2 DEF Written, Coins

\* A partial batch leaves a mixture, marked as such.
LEMMA PartialBatchInv ==
  ASSUME Inv, NEW S \in SUBSET dirty, PartialBatch(S)
  PROVE  Inv'
<1>1. /\ phase \in {"flush", "replay"} /\ db' = Written(S)
      /\ heads' = <<Target, OldTip>> /\ best' = NullBlock /\ dirty' = dirty \ S
      /\ UNCHANGED <<indexDb, index, tip, coins, phase, crashes>>
  BY DEF PartialBatch
<1>2. /\ Target \in indexDb /\ Target \in index /\ Target \in Blocks
      /\ OldTip \in indexDb \cup {NullBlock} /\ OldTip \in Tips /\ coins = UTXO(Target)
  BY <1>1, BatchFacts
<1>3. /\ db' \in Coins /\ \A o \in Outpoints : db'[o] \in {UTXO(OldTip)[o], UTXO(Target)[o]}
      /\ \A o \in Outpoints \ dirty' : coins'[o] = db'[o]
  BY <1>1, WrittenFacts
<1>4. heads' # <<>> /\ heads'[1] = Target /\ heads'[2] = OldTip /\ heads' \in Blocks \X Tips
  BY <1>1, <1>2
<1>5. TypeOK' BY <1>1, <1>3, <1>4 DEF Inv, TypeOK, Tips
<1>6. DiskInv' BY <1>1, <1>2, <1>3, <1>4 DEF Inv, DiskInv
<1>7. phase = "flush" => tip \in indexDb /\ Target = tip BY DEF Inv, MemoryInv, Target
<1>8. MemoryInv' BY <1>1, <1>2, <1>3, <1>4, <1>7 DEF Inv, MemoryInv
<1> QED BY <1>5, <1>6, <1>8 DEF Inv

\* The last batch makes the disk hold the coins of Target.
LEMMA FinalBatchInv ==
  ASSUME Inv, FinalBatch
  PROVE  Inv'
<1>1. /\ phase \in {"flush", "replay"} /\ db' = Written(dirty)
      /\ heads' = <<>> /\ best' = Target /\ dirty' = {} /\ tip' = Target /\ phase' = "idle"
      /\ UNCHANGED <<indexDb, index, coins, crashes>>
  BY DEF FinalBatch
<1>2. /\ Target \in indexDb /\ Target \in index /\ Target \in Blocks
      /\ coins = UTXO(Target) /\ coins \in Coins
  BY <1>1, BatchFacts
<1>3. db' \in Coins /\ \A o \in Outpoints : db'[o] = coins[o] BY <1>1, WrittenFacts
<1>4. db' = coins BY <1>2, <1>3 DEF Coins
<1>5. TypeOK' BY <1>1, <1>2, <1>3 DEF Inv, TypeOK, Tips
<1>6. DiskInv' BY <1>1, <1>2, <1>4 DEF Inv, DiskInv
<1>7. MemoryInv' BY <1>1, <1>2, <1>4 DEF Inv, MemoryInv
<1> QED BY <1>5, <1>6, <1>7 DEF Inv

\* A crash leaves the disk as it is.
LEMMA CrashInv ==
  ASSUME Inv, Crash
  PROVE  Inv'
<1>1. NullBlock \in Tips /\ NoCoins \in Coins BY UTXOFacts DEF Tips
<1>2. TypeOK' BY <1>1 DEF Inv, TypeOK, Crash, disk
<1>3. DiskInv' BY DEF Inv, DiskInv, Crash, disk
<1>4. MemoryInv' BY DEF MemoryInv, Crash
<1> QED BY <1>2, <1>3, <1>4 DEF Inv

\* A restart finds the coins of the best block, or replays the mixture it finds.
LEMMA RestartInv ==
  ASSUME Inv, Restart
  PROVE  Inv'
<1>1. phase = "down" /\ UNCHANGED <<db, best, heads, indexDb, crashes>> BY DEF Restart, disk
<1>2. DiskInv' BY <1>1 DEF Inv, DiskInv
<1>3. CASE UNCHANGED <<index, tip, coins, dirty, phase>>
  BY <1>1, <1>2, <1>3 DEF Inv, TypeOK, MemoryInv
<1>4. CASE ~ UNCHANGED <<index, tip, coins, dirty, phase>>
  <2>1. /\ index' = indexDb \cup {Genesis} /\ tip' = best
        /\ coins' = IF heads = <<>> THEN db ELSE ReplayBlocks(db, heads)
        /\ dirty' = IF heads = <<>> THEN {} ELSE ReplayDirty(heads)
        /\ phase' = IF heads = <<>> THEN "idle" ELSE "replay"
    BY <1>4 DEF Restart
  <2>2. Genesis \in Blocks BY RecoveryAssumption
  <2>3. CASE heads = <<>> BY <1>1, <1>2, <2>1, <2>2, <2>3 DEF Inv, TypeOK, DiskInv, MemoryInv
  <2>4. CASE heads # <<>>
    <3>1. PICK new \in Blocks, old \in Tips : heads = <<new, old>> BY <2>4 DEF Inv, TypeOK
    <3>2. db \in Coins /\ \A o \in Outpoints : db[o] \in {UTXO(old)[o], UTXO(new)[o]}
      BY <2>4, <3>1 DEF Inv, TypeOK, DiskInv
    <3>3. /\ ReplayBlocks(db, heads) = UTXO(new)
          /\ \A o \in Outpoints \ ReplayDirty(heads) : UTXO(new)[o] = db[o]
      BY <3>1, <3>2, ReplayFacts
    <3>4. UTXO(new) \in Coins BY UTXOFacts DEF Tips
    <3>5. ReplayDirty(heads) \subseteq Outpoints
      <4>1. new \in Tips BY DEF Tips
      <4>2. ASSUME NEW b \in Tips PROVE Ancestors(b) \subseteq Blocks
        <5>1. \A n \in 1 .. Len(b) : SubSeq(b, 1, n) \in Blocks BY TipShape
        <5> QED BY <5>1, Zenon DEF Ancestors
      <4>3. \A b \in Blocks : Touched(b) \subseteq Outpoints BY TxShape DEF Touched
      <4> QED BY <3>1, <4>1, <4>2, <4>3 DEF ReplayDirty
    <3>6. TypeOK' BY <1>1, <2>1, <2>2, <2>4, <3>3, <3>4, <3>5 DEF Inv, TypeOK
    <3>7. MemoryInv' BY <1>1, <2>1, <2>2, <2>4, <3>1, <3>3 DEF Inv, TypeOK, DiskInv, MemoryInv
    <3> QED BY <1>2, <3>6, <3>7 DEF Inv
  <2> QED BY <2>3, <2>4
<1> QED BY <1>3, <1>4

---------------------------------------------------------------------------
\* The invariant holds for every block tree and any number of crashes: no order of connecting,
\* disconnecting, flushing, crashing and restarting leads out of it (validation.cpp, txdb.cpp).
THEOREM Invariance == Spec => []Inv
<1>1. Inv /\ [Next]_vars => Inv'
  <2> SUFFICES ASSUME Inv, [Next]_vars PROVE Inv' OBVIOUS
  <2>1. CASE \E b \in Blocks : AcceptBlock(b) BY <2>1, AcceptBlockInv
  <2>2. CASE \E b \in Blocks : ConnectTip(b) BY <2>2, ConnectTipInv
  <2>3. CASE DisconnectTip BY <2>3, DisconnectTipInv
  <2>4. CASE \E full \in BOOLEAN : WriteBlockIndex(full) BY <2>4, WriteBlockIndexInv
  <2>5. CASE \E S \in SUBSET dirty : PartialBatch(S) BY <2>5, PartialBatchInv
  <2>6. CASE FinalBatch BY <2>6, FinalBatchInv
  <2>7. CASE Crash BY <2>7, CrashInv
  <2>8. CASE Restart BY <2>8, RestartInv
  <2>9. CASE UNCHANGED vars BY <2>9 DEF vars, disk, Inv, TypeOK, DiskInv, MemoryInv
  <2> QED BY <2>1, <2>2, <2>3, <2>4, <2>5, <2>6, <2>7, <2>8, <2>9, Zenon DEF Next
<1> QED BY <1>1, InitInv, PTL DEF Spec

\* A best block named on disk always comes with exactly its unspent outputs, no marker with no
\* coins, and a marker names only blocks of the index on disk (CCoinsViewDB::BatchWrite,
\* CChainState::FlushStateToDisk).
THEOREM DiskAlwaysConsistent == Spec => []DiskConsistent
<1>1. Inv => DiskConsistent
  <2> SUFFICES ASSUME Inv PROVE DiskConsistent OBVIOUS
  <2> QED BY UTXOFacts DEF Inv, DiskInv, DiskConsistent
<1> QED BY <1>1, Invariance, PTL

\* ReplayBlocks recovers: whatever a crash in the middle of a flush, or in the middle of an
\* earlier recovery, left on disk, it computes the unspent outputs of the new tip
\* (CChainState::ReplayBlocks).
THEOREM ReplayAlwaysExact == Spec => []ReplayExact
<1>1. Inv => ReplayExact
  <2> SUFFICES ASSUME Inv, heads # <<>> PROVE ReplayBlocks(db, heads) = UTXO(heads[1])
    BY DEF ReplayExact
  <2>1. PICK new \in Blocks, old \in Tips : heads = <<new, old>> BY DEF Inv, TypeOK
  <2>2. db \in Coins /\ \A o \in Outpoints : db[o] \in {UTXO(old)[o], UTXO(new)[o]}
    BY <2>1 DEF Inv, TypeOK, DiskInv
  <2>3. ReplayBlocks(db, heads) = UTXO(new) BY <2>1, <2>2, ReplayFacts
  <2> QED BY <2>1, <2>3
<1> QED BY <1>1, Invariance, PTL

\* A running node's coins are those of its tip, and the tip can be disconnected cleanly, after
\* any history of reorganisations, flushes and recoveries (ConnectTip, DisconnectTip).
THEOREM TipCoinsAlwaysExact == Spec => []TipCoinsExact
<1>1. Inv => TipCoinsExact
  <2> SUFFICES ASSUME Inv, phase = "idle", tip # NullBlock
               PROVE  coins = UTXO(tip) /\ (tip # Genesis => DisconnectClean(coins, tip))
    BY DEF TipCoinsExact
  <2>1. tip \in Blocks BY DEF Inv, TypeOK, Tips
  <2>2. coins = UTXO(tip) BY DEF Inv, MemoryInv
  <2> QED BY <2>1, <2>2, DisconnectExact
<1> QED BY <1>1, Invariance, PTL
=============================================================================
