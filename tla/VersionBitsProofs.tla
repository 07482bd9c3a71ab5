-------------------------- MODULE VersionBitsProofs -------------------------
(***************************************************************************)
(* Proofs about VersionBits, for every block tree, every history of times  *)
(* and signals, every length of a period and every order of queries: the   *)
(* replies that GetStateFor and GetStateSinceHeightFor give from the cache *)
(* are those of the deployment rules.                                      *)
(***************************************************************************)
EXTENDS VersionBits, FiniteSetTheorems, WellFoundedInduction, TLAPS

---------------------------------------------------------------------------
(* Induction over the loops. *)

\* A set of natural numbers has a least element.
LEMMA Least ==
  ASSUME NEW T \in SUBSET Nat, T # {}
  PROVE  \E x \in T : \A y \in T : x <= y
<1> DEFINE R == OpToRel(<, Nat)
<1>1. IsWellFoundedOn(R, Nat) BY NatLessThanWellFounded
<1> HIDE DEF R
<1>2. PICK x \in T : \A y \in T : ~(<<y, x>> \in R) BY <1>1, WFMin, Zenon
<1>3. \A y \in T : y < x => <<y, x>> \in R BY DEF R, OpToRel
<1>4. \A y \in T : ~(y < x) BY <1>2, <1>3, Zenon
<1>5. \A y \in T : x <= y BY <1>4
<1> QED BY <1>5

\* Induction on natural numbers.
LEMMA Induct ==
  ASSUME NEW P \in SUBSET Nat, 0 \in P, \A n \in P : n + 1 \in P
  PROVE  P = Nat
<1> SUFFICES ASSUME Nat \ P # {} PROVE FALSE BY Zenon
<1>1. PICK x \in Nat \ P : \A y \in Nat \ P : x <= y BY Least, Zenon
<1>2. x # 0 /\ x - 1 \in Nat BY <1>1
<1>3. x - 1 \in P BY <1>1, <1>2
<1> QED BY <1>1, <1>2, <1>3

\* Induction over the steps 0 .. n of a loop; Q is the set of steps that have the property.
LEMMA LoopInduct ==
  ASSUME NEW n \in Nat, NEW Q, 0 \in Q, \A i \in 1 .. n : i - 1 \in Q => i \in Q
  PROVE  \A i \in 0 .. n : i \in Q
<1> DEFINE P == {i \in Nat : i <= n => i \in Q}
<1>1. 0 \in P OBVIOUS
<1>2. ASSUME NEW i \in P PROVE i + 1 \in P
  <2>1. i \in Nat /\ (i <= n => i \in Q) OBVIOUS
  <2>2. i + 1 <= n => i + 1 \in 1 .. n /\ (i + 1) - 1 \in Q BY <2>1
  <2> QED BY <2>1, <2>2
<1>3. P \in SUBSET Nat OBVIOUS
<1> HIDE DEF P
<1>4. P = Nat BY <1>1, <1>2, <1>3, Induct
<1> QED BY <1>4 DEF P

\* The steps of a loop of n steps, as functions of the step and of the value before it, and its
\* runs from x.
Steps(n, S) == [(1 .. n) \X S -> S]
Runs(x, n, S, F) ==
  {c \in [0 .. n -> S] : c[0] = x /\ \A i \in 1 .. n : c[i] = F[<<i, c[i - 1]>>]}

\* A loop runs to its end.
LEMMA LoopExists ==
  ASSUME NEW S, NEW x \in S, NEW n \in Nat, NEW F \in Steps(n, S)
  PROVE  Runs(x, n, S, F) # {}
<1>0. F \in [(1 .. n) \X S -> S] BY DEF Steps
<1> DEFINE Run(c, k) == c[0] = x /\ \A i \in 1 .. k : c[i] = F[<<i, c[i - 1]>>]
           Q == {k \in 0 .. n : \E c \in [0 .. n -> S] : Run(c, k)}
<1>1. 0 \in Q
  <2>1. [i \in 0 .. n |-> x] \in [0 .. n -> S] /\ Run([i \in 0 .. n |-> x], 0) OBVIOUS
  <2> HIDE DEF Run
  <2> QED BY <2>1
<1>2. ASSUME NEW k \in 1 .. n, k - 1 \in Q PROVE k \in Q
  <2>1. PICK c \in [0 .. n -> S] : Run(c, k - 1) BY <1>2
  <2> DEFINE d == [c EXCEPT ![k] = F[<<k, c[k - 1]>>]]
  <2>2. k - 1 \in 0 .. n /\ c[k - 1] \in S OBVIOUS
  <2>3. F[<<k, c[k - 1]>>] \in S BY <1>0, <2>2
  <2>4. d \in [0 .. n -> S] BY <2>3
  <2>5. d[0] = x BY <2>1
  <2>6. d[k] = F[<<k, d[k - 1]>>] BY <2>2
  <2>7. ASSUME NEW i \in 1 .. k - 1 PROVE d[i] = F[<<i, d[i - 1]>>]
    <3>1. d[i] = c[i] /\ d[i - 1] = c[i - 1] OBVIOUS
    <3> QED BY <2>1, <3>1
  <2>8. Run(d, k)
    <3>1. \A i \in 1 .. k : i = k \/ i \in 1 .. k - 1 OBVIOUS
    <3> HIDE DEF d
    <3> QED BY <2>5, <2>6, <2>7, <3>1
  <2> HIDE DEF Run, d
  <2> QED BY <2>4, <2>8
<1>3. n \in Q
  <2> HIDE DEF Q
  <2>1. \A k \in 0 .. n : k \in Q BY <1>1, <1>2, LoopInduct
  <2> QED BY <2>1
<1> QED BY <1>3 DEF Runs

\* The values of a loop stay in a set that each of its steps preserves.
LEMMA LoopTyped ==
  ASSUME NEW S, NEW n \in Nat, NEW c, c[0] \in S, \A i \in 1 .. n : c[i - 1] \in S => c[i] \in S
  PROVE  \A i \in 0 .. n : c[i] \in S
<1> DEFINE Q == {i \in 0 .. n : c[i] \in S}
<1>1. 0 \in Q OBVIOUS
<1>2. \A i \in 1 .. n : i - 1 \in Q => i \in Q OBVIOUS
<1> HIDE DEF Q
<1>3. \A i \in 0 .. n : i \in Q BY <1>1, <1>2, LoopInduct
<1> QED BY <1>3 DEF Q

---------------------------------------------------------------------------
(* Periods. *)

\* Quotient and remainder.
LEMMA DivFacts ==
  ASSUME NEW P \in Nat \ {0}, NEW n \in Nat
  PROVE  n % P \in 0 .. P - 1 /\ n \div P \in Nat /\ n = P * (n \div P) + (n % P)
<1>1. n % P \in 0 .. P - 1 OBVIOUS
<1>2. n \div P \in Int OBVIOUS
<1>3. n \div P >= 0 OBVIOUS
<1>4. n = P * (n \div P) + (n % P) OBVIOUS
<1>5. n \div P \in Nat BY <1>2, <1>3
<1> QED BY <1>1, <1>4, <1>5, Zenon

\* Multiples of P are at least P apart.
LEMMA MulMono ==
  ASSUME NEW P \in Nat \ {0}, NEW a \in Int, NEW b \in Int, a < b
  PROVE  P * a + P <= P * b
  OBVIOUS

\* Quotient and remainder are unique.
LEMMA DivUnique ==
  ASSUME NEW P \in Nat \ {0}, NEW q \in Int, NEW r \in 0 .. P - 1, NEW n \in Nat, n = P * q + r
  PROVE  n % P = r /\ n \div P = q
<1>1. n % P \in 0 .. P - 1 /\ n \div P \in Nat /\ n = P * (n \div P) + (n % P) BY DivFacts, Zenon
<1> DEFINE x == n \div P
           y == n % P
<1>2. x \in Int /\ y \in 0 .. P - 1 /\ P * x + y = P * q + r BY <1>1
<1> HIDE DEF x, y
<1>3. x < q => P * x + P <= P * q BY <1>2, MulMono
<1>4. q < x => P * q + P <= P * x BY <1>2, MulMono
<1>5. P * x \in Int /\ P * q \in Int BY <1>2
<1>6. x = q BY <1>2, <1>3, <1>4, <1>5
<1>7. y = r BY <1>2, <1>5, <1>6
<1> QED BY <1>6, <1>7 DEF x, y

\* The last multiple of P up to n, and the multiples before and between.
LEMMA Multiples ==
  ASSUME NEW P \in Nat \ {0}, NEW n \in Nat
  PROVE  /\ n - (n % P) \in 0 .. n /\ (n - (n % P)) % P = 0 /\ n % P < P
         /\ n % P = 0 /\ n > 0 => n >= P /\ (n - P) % P = 0
         /\ \A m \in Nat : n % P = 0 /\ m % P = 0 /\ m < n => m <= n - P
         /\ \A m \in Nat : n % P = 0 /\ n <= m /\ m < n + P => m - (m % P) = n
<1>1. n % P \in 0 .. P - 1 /\ n \div P \in Int /\ n = P * (n \div P) + (n % P) BY DivFacts
<1> DEFINE y == n \div P
           z == n % P
<1>2. z \in 0 .. P - 1 /\ y \in Int /\ n = P * y + z /\ P * y \in Int BY <1>1
<1>3. n - z \in 0 .. n /\ (n - z) % P = 0
  <2> HIDE DEF y, z
  <2>1. n - z = P * y + 0 /\ n - z \in Int BY <1>2
  <2>2. y >= 0
    <3>1. y < 0 => P * y + P <= P * 0 BY <1>2, MulMono
    <3> QED BY <1>2, <3>1
  <2>3. n - z >= 0 BY <1>2, <2>1, <2>2
  <2>4. n - z \in Nat /\ 0 \in 0 .. P - 1 BY <2>1, <2>3
  <2>5. (n - z) % P = 0 BY <1>2, <2>1, <2>4, DivUnique
  <2>6. n - z <= n BY <1>2
  <2> QED BY <2>4, <2>5, <2>6
<1>4. ASSUME z = 0, n > 0 PROVE n >= P /\ (n - P) % P = 0
  <2> HIDE DEF y, z
  <2>1. y > 0
    <3>1. y < 0 => P * y + P <= P * 0 BY <1>2, MulMono
    <3> QED BY <1>2, <1>4, <3>1
  <2>2. P * 0 + P <= P * y BY <1>2, <2>1, MulMono
  <2>3. n >= P BY <1>2, <1>4, <2>2
  <2>4. n - P = P * (y - 1) + 0 /\ y - 1 \in Int BY <1>2, <1>4
  <2>5. n - P \in Nat /\ 0 \in 0 .. P - 1 BY <2>3
  <2>6. (n - P) % P = 0 BY <2>4, <2>5, DivUnique
  <2> QED BY <2>3, <2>6
<1>5. ASSUME NEW m \in Nat, z = 0, m % P = 0, m < n PROVE m <= n - P
  <2>1. m \div P \in Int /\ m = P * (m \div P) + 0 BY <1>5, DivFacts
  <2> DEFINE x == m \div P
  <2>2. x \in Int /\ m = P * x /\ P * x \in Int BY <2>1
  <2> HIDE DEF x, y, z
  <2>3. x < y => P * x + P <= P * y BY <1>2, <2>2, MulMono
  <2>4. y < x => P * y + P <= P * x BY <1>2, <2>2, MulMono
  <2> QED BY <1>2, <1>5, <2>2, <2>3, <2>4
<1>6. ASSUME NEW m \in Nat, z = 0, n <= m, m < n + P PROVE m - (m % P) = n
  <2> HIDE DEF y, z
  <2> DEFINE d == m - n
  <2>1. d \in 0 .. P - 1 /\ m = P * y + d /\ m - d = n BY <1>2, <1>6
  <2> HIDE DEF d
  <2>2. m % P = d BY <1>2, <2>1, DivUnique
  <2> QED BY <2>1, <2>2
<1>7. z < P BY <1>2
<1> QED BY <1>3, <1>4, <1>5, <1>6, <1>7

---------------------------------------------------------------------------
(* The tree of blocks. *)
Items == UNION {{b[i] : i \in DOMAIN b} : b \in Blocks}
Tips == Blocks \cup {NoBlock}

\* The prefixes of a sequence: their lengths and own prefixes.
LEMMA PrefixFacts ==
  ASSUME NEW S, NEW b \in Seq(S), NEW n \in 0 .. Len(b)
  PROVE  /\ SubSeq(b, 1, n) \in Seq(S) /\ Len(SubSeq(b, 1, n)) = n
         /\ \A m \in 0 .. n : SubSeq(SubSeq(b, 1, n), 1, m) = SubSeq(b, 1, m)
         /\ SubSeq(b, 1, Len(b)) = b /\ SubSeq(b, 1, 0) = <<>>
<1>0. Len(b) \in Nat OBVIOUS
<1>1. SubSeq(b, 1, n) \in Seq(S) /\ Len(SubSeq(b, 1, n)) = n
      /\ \A i \in 1 .. n : SubSeq(b, 1, n)[i] = b[i]
  <2>1. \A i \in 1 .. n : b[i] \in S BY <1>0
  <2> QED BY <1>0, <2>1
<1>2. ASSUME NEW m \in 0 .. n PROVE SubSeq(SubSeq(b, 1, n), 1, m) = SubSeq(b, 1, m)
  <2> DEFINE p == SubSeq(b, 1, n)
  <2>1. SubSeq(p, 1, m) = [i \in 1 .. m |-> p[i]] BY <1>0, <1>1
  <2>2. SubSeq(b, 1, m) = [i \in 1 .. m |-> b[i]] BY <1>0
  <2>3. \A i \in 1 .. m : p[i] = b[i] BY <1>0, <1>1
  <2> QED BY <2>1, <2>2, <2>3
<1>3. SubSeq(b, 1, Len(b)) = b /\ SubSeq(b, 1, 0) = <<>> OBVIOUS
<1> QED BY <1>1, <1>2, <1>3

\* A prefix of a block is a block, or null, and is known by its length.
LEMMA TipShape ==
  ASSUME NEW b \in Tips
  PROVE  /\ b \in Seq(Items) /\ Len(b) \in Nat /\ (Len(b) = 0 <=> b = NoBlock)
         /\ \A n \in 0 .. Len(b) : /\ SubSeq(b, 1, n) \in Tips /\ Len(SubSeq(b, 1, n)) = n
                                   /\ \A k \in 0 .. n : SubSeq(SubSeq(b, 1, n), 1, k) = SubSeq(b, 1, k)
         /\ \A n \in 1 .. Len(b) : SubSeq(b, 1, n) \in Blocks /\ Parent(SubSeq(b, 1, n)) = SubSeq(b, 1, n - 1)
         /\ SubSeq(b, 1, Len(b)) = b /\ SubSeq(b, 1, 0) = NoBlock
<1>1. b \in Seq(Items)
  <2>1. <<>> \in Seq(Items) OBVIOUS
  <2>2. Blocks \subseteq Seq(Items) BY VersionBitsAssumption DEF Items
  <2> QED BY <2>1, <2>2, Zenon DEF Tips, NoBlock
<1>2. Len(b) \in Nat BY <1>1
<1>3. \A n \in 1 .. Len(b) : SubSeq(b, 1, n) \in Blocks
  <2>1. CASE b \in Blocks
    <3>1. Ancestors(b) \subseteq Blocks BY <2>1, VersionBitsAssumption
    <3> QED BY <3>1, Zenon DEF Ancestors
  <2>2. CASE b = NoBlock
    <3>1. Len(b) = 0 BY <2>2 DEF NoBlock
    <3> QED BY <3>1
  <2> QED BY <2>1, <2>2 DEF Tips
<1>4. SubSeq(b, 1, Len(b)) = b /\ SubSeq(b, 1, 0) = NoBlock
  <2>1. 0 \in 0 .. Len(b) BY <1>2
  <2> QED BY <1>1, <2>1, PrefixFacts DEF NoBlock
<1>5. ASSUME NEW n \in 0 .. Len(b)
      PROVE  /\ SubSeq(b, 1, n) \in Tips /\ Len(SubSeq(b, 1, n)) = n
             /\ \A k \in 0 .. n : SubSeq(SubSeq(b, 1, n), 1, k) = SubSeq(b, 1, k)
  <2>1. n = 0 \/ n \in 1 .. Len(b) BY <1>2
  <2>2. SubSeq(b, 1, n) \in Tips BY <1>3, <1>4, <2>1 DEF Tips
  <2> QED BY <1>1, <2>2, PrefixFacts
<1>6. ASSUME NEW n \in 1 .. Len(b) PROVE Parent(SubSeq(b, 1, n)) = SubSeq(b, 1, n - 1)
  <2>1. n \in 0 .. Len(b) /\ n - 1 \in 0 .. n BY <1>2
  <2>2. Len(SubSeq(b, 1, n)) = n /\ SubSeq(SubSeq(b, 1, n), 1, n - 1) = SubSeq(b, 1, n - 1)
    BY <1>5, <2>1
  <2> QED BY <2>2 DEF Parent
<1>7. Len(b) = 0 <=> b = NoBlock
  <2>1. Len(NoBlock) = 0 BY DEF NoBlock
  <2> QED BY <1>4, <2>1
<1> QED BY <1>1, <1>2, <1>3, <1>4, <1>5, <1>6, <1>7

\* GetAncestor by length; the null pointer below the genesis block.
LEMMA AncestorFacts ==
  ASSUME NEW b \in Tips, NEW n \in Int, n <= Len(b)
  PROVE  /\ n >= 0 => GetAncestor(b, n - 1) = SubSeq(b, 1, n)
         /\ n <= 0 => GetAncestor(b, n - 1) = NoBlock
<1>1. SubSeq(b, 1, 0) = NoBlock BY TipShape
<1>2. n > 0 => GetAncestor(b, n - 1) = SubSeq(b, 1, n)
  <2>1. n > 0 => ~(n - 1 < 0) /\ (n - 1) + 1 = n OBVIOUS
  <2> QED BY <2>1 DEF GetAncestor
<1>3. n <= 0 => GetAncestor(b, n - 1) = NoBlock
  <2>1. n <= 0 => n - 1 < 0 OBVIOUS
  <2> QED BY <2>1 DEF GetAncestor
<1>4. n >= 0 => n > 0 \/ n = 0 OBVIOUS
<1>5. n = 0 => GetAncestor(b, n - 1) = SubSeq(b, 1, n)
  <2>1. ASSUME n = 0 PROVE GetAncestor(b, n - 1) = NoBlock BY <1>3, <2>1
  <2> QED BY <1>1, <2>1, Zenon
<1> QED BY <1>2, <1>3, <1>4, <1>5, Zenon

\* The last blocks of complete periods, and the null pointer.
PeriodEnds == {q \in Tips : Len(q) % Period = 0}

\* PeriodParent rounds down to the end of a period.
LEMMA PeriodParentFacts ==
  ASSUME NEW b \in Tips
  PROVE  /\ PeriodParent(b) = SubSeq(b, 1, Len(b) - (Len(b) % Period))
         /\ PeriodParent(b) \in PeriodEnds
         /\ Len(PeriodParent(b)) = Len(b) - (Len(b) % Period)
<1> DEFINE n == Len(b) - (Len(b) % Period)
<1>1. Len(b) \in Nat /\ Period \in Nat \ {0} BY TipShape, VersionBitsAssumption
<1>2. n \in 0 .. Len(b) /\ n % Period = 0 BY <1>1, Multiples, Zenon
<1>3. Len(b) % Period \in Int BY <1>1
<1>4. Height(b) + 1 = Len(b) BY <1>1 DEF Height
<1>5. Height(b) - ((Height(b) + 1) % Period) = n - 1
  <2>1. Height(b) - (Len(b) % Period) = n - 1 BY <1>1, <1>3 DEF Height
  <2> QED BY <1>4, <2>1
<1>6. n \in Int /\ n >= 0 /\ n <= Len(b) BY <1>1, <1>2
<1> HIDE DEF n
<1>7. PeriodParent(b) = SubSeq(b, 1, n) BY <1>5, <1>6, AncestorFacts DEF PeriodParent
<1>8. SubSeq(b, 1, n) \in Tips /\ Len(SubSeq(b, 1, n)) = n BY <1>2, TipShape
<1> QED BY <1>2, <1>7, <1>8 DEF PeriodEnds, n

\* One step of the walks: the end of the period before.
LEMMA PreviousFacts ==
  ASSUME NEW q \in PeriodEnds, q # NoBlock
  PROVE  /\ PreviousPeriodParent(q) = SubSeq(q, 1, Len(q) - Period)
         /\ PreviousPeriodParent(q) \in PeriodEnds
         /\ Len(PreviousPeriodParent(q)) = Len(q) - Period /\ Len(q) - Period \in 0 .. Len(q) - 1
         /\ q \in Blocks
<1> DEFINE n == Len(q) - Period
<1>1. q \in Tips /\ Len(q) \in Nat /\ Len(q) > 0 /\ Period \in Nat \ {0} /\ Len(q) % Period = 0
  <2>1. q \in Tips /\ Len(q) % Period = 0 BY DEF PeriodEnds
  <2>2. Len(q) \in Nat /\ Len(q) # 0 BY <2>1, TipShape
  <2> QED BY <2>1, <2>2, VersionBitsAssumption
<1>2. Len(q) >= Period /\ n % Period = 0 BY <1>1, Multiples
<1>3. n \in 0 .. Len(q) - 1 /\ n \in 0 .. Len(q) /\ n \in Int /\ n >= 0 /\ n <= Len(q) BY <1>1, <1>2
<1>4. Height(q) - Period = n - 1 BY <1>1 DEF Height
<1> HIDE DEF n
<1>5. PreviousPeriodParent(q) = SubSeq(q, 1, n) BY <1>1, <1>3, <1>4, AncestorFacts DEF PreviousPeriodParent
<1>6. SubSeq(q, 1, n) \in Tips /\ Len(SubSeq(q, 1, n)) = n BY <1>1, <1>3, TipShape
<1>7. q \in Blocks BY <1>1 DEF Tips
<1> QED BY <1>2, <1>3, <1>5, <1>6, <1>7 DEF PeriodEnds, n

\* The walk of Period blocks at a time from the end of a period comes by the ends of the
\* periods before, down to the null pointer.
LEMMA BackFacts ==
  ASSUME NEW p \in PeriodEnds
  PROVE  /\ Back(p, 0) = p /\ Back(p, Len(p)) = NoBlock /\ Len(p) \in Nat
         /\ \A k \in Nat : /\ Back(p, k) \in PeriodEnds
                           /\ Back(p, k) = SubSeq(p, 1, Len(Back(p, k))) /\ Len(Back(p, k)) \in 0 .. Len(p)
                           /\ Back(p, k) # NoBlock => Back(p, k + 1) = PreviousPeriodParent(Back(p, k))
                           /\ Back(p, k) = NoBlock => Back(p, k + 1) = NoBlock
<1> DEFINE n(k) == Len(p) - k * Period
<1>0. p \in Tips /\ Len(p) % Period = 0 /\ Len(p) \in Nat /\ Period \in Nat \ {0}
  BY TipShape, VersionBitsAssumption DEF PeriodEnds
<1>1. ASSUME NEW k \in Nat
      PROVE  n(k) \in Int /\ n(k) <= Len(p) /\ n(k + 1) = n(k) - Period /\ Height(p) - k * Period = n(k) - 1
  <2>1. k * Period \in Nat /\ (k + 1) * Period = k * Period + Period BY <1>0
  <2> QED BY <1>0, <2>1 DEF Height
<1>2. n(0) = Len(p) BY <1>0
<1>3. n(Len(p)) <= 0
  <2>1. Len(p) * Period >= Len(p) BY <1>0
  <2>2. Len(p) * Period \in Int BY <1>0
  <2> QED BY <1>0, <2>1, <2>2
<1> HIDE DEF n
<1>4. ASSUME NEW k \in Nat
      PROVE  (n(k) >= 0 => Back(p, k) = SubSeq(p, 1, n(k))) /\ (n(k) <= 0 => Back(p, k) = NoBlock)
  <2>1. n(k) \in Int /\ n(k) <= Len(p) /\ Height(p) - k * Period = n(k) - 1 BY <1>1, Zenon
  <2>2. /\ n(k) >= 0 => GetAncestor(p, n(k) - 1) = SubSeq(p, 1, n(k))
        /\ n(k) <= 0 => GetAncestor(p, n(k) - 1) = NoBlock
    BY <1>0, <2>1, AncestorFacts, Zenon
  <2>3. Back(p, k) = GetAncestor(p, n(k) - 1) BY <2>1, Zenon DEF Back
  <2> QED BY <2>2, <2>3, Zenon
<1>5. Back(p, 0) = p
  <2>1. SubSeq(p, 1, Len(p)) = p BY <1>0, TipShape
  <2> QED BY <1>0, <1>2, <1>4, <2>1
<1>6. Back(p, Len(p)) = NoBlock BY <1>0, <1>3, <1>4
<1>7. ASSUME NEW k \in Nat, n(k) >= 0
      PROVE  Back(p, k) = SubSeq(p, 1, n(k)) /\ Len(Back(p, k)) = n(k) /\ Back(p, k) \in Tips /\ n(k) \in 0 .. Len(p)
             /\ \A j \in 0 .. n(k) : SubSeq(Back(p, k), 1, j) = SubSeq(p, 1, j)
  <2>1. n(k) \in 0 .. Len(p) BY <1>0, <1>1, <1>7
  <2>2. Back(p, k) = SubSeq(p, 1, n(k)) BY <1>4, <1>7
  <2>3. /\ SubSeq(p, 1, n(k)) \in Tips /\ Len(SubSeq(p, 1, n(k))) = n(k)
        /\ \A j \in 0 .. n(k) : SubSeq(SubSeq(p, 1, n(k)), 1, j) = SubSeq(p, 1, j)
    BY <1>0, <2>1, TipShape
  <2> QED BY <2>1, <2>2, <2>3, Zenon
<1>8. ASSUME NEW k \in Nat, Back(p, k) # NoBlock PROVE n(k) > 0 BY <1>1, <1>4, <1>8
<1>9. ASSUME NEW k \in Nat, Back(p, k) = NoBlock PROVE n(k) <= 0
  <2>1. n(k) >= 0 => n(k) = 0
    <3>1. Len(NoBlock) = 0 BY DEF NoBlock
    <3> QED BY <1>7, <1>9, <3>1
  <2>2. n(k) \in Int BY <1>1
  <2> QED BY <2>1, <2>2
<1>10. ASSUME NEW k \in Nat, Back(p, k) = NoBlock PROVE Back(p, k + 1) = NoBlock
  <2>0. n(k) \in Int /\ n(k + 1) = n(k) - Period /\ n(k) <= 0 BY <1>1, <1>9, <1>10
  <2>1. n(k + 1) <= 0 /\ k + 1 \in Nat BY <1>0, <2>0
  <2> QED BY <1>4, <2>1
<1>11. ASSUME NEW k \in Nat, Back(p, k) \in PeriodEnds, Back(p, k) # NoBlock
       PROVE  Back(p, k + 1) = PreviousPeriodParent(Back(p, k))
  <2>0. n(k) > 0 /\ n(k) \in Int BY <1>1, <1>8, <1>11
  <2>a. n(k) >= 0 BY <2>0
  <2>1. n(k) > 0 /\ Len(Back(p, k)) = n(k) /\ \A j \in 0 .. n(k) : SubSeq(Back(p, k), 1, j) = SubSeq(p, 1, j)
    BY <1>7, <2>0, <2>a
  <2>2. /\ PreviousPeriodParent(Back(p, k)) = SubSeq(Back(p, k), 1, n(k) - Period)
        /\ n(k) - Period \in 0 .. n(k) - 1
    BY <1>11, <2>1, PreviousFacts
  <2>3. n(k + 1) = n(k) - Period /\ n(k) \in Int /\ k + 1 \in Nat BY <1>1
  <2>4. n(k + 1) >= 0 /\ n(k + 1) \in 0 .. n(k) BY <1>0, <2>2, <2>3
  <2>5. Back(p, k + 1) = SubSeq(p, 1, n(k + 1)) BY <1>4, <2>3, <2>4
  <2>6. SubSeq(Back(p, k), 1, n(k + 1)) = SubSeq(p, 1, n(k + 1)) BY <2>1, <2>4
  <2> QED BY <2>2, <2>3, <2>5, <2>6
<1>12. \A k \in Nat : Back(p, k) \in PeriodEnds
  <2> DEFINE Q == {k \in Nat : Back(p, k) \in PeriodEnds}
  <2>1. 0 \in Q BY <1>5
  <2>2. ASSUME NEW k \in Q PROVE k + 1 \in Q
    <3>1. k \in Nat /\ k + 1 \in Nat /\ Back(p, k) \in PeriodEnds OBVIOUS
    <3>2. CASE Back(p, k) = NoBlock BY <1>10, <3>1, <3>2
    <3>3. CASE Back(p, k) # NoBlock BY <1>11, <3>1, <3>3, PreviousFacts
    <3> QED BY <3>2, <3>3
  <2>3. Q \in SUBSET Nat OBVIOUS
  <2> HIDE DEF Q
  <2>4. Q = Nat BY <2>1, <2>2, <2>3, Induct
  <2> QED BY <2>4 DEF Q
<1>13. ASSUME NEW k \in Nat PROVE Back(p, k) = SubSeq(p, 1, Len(Back(p, k))) /\ Len(Back(p, k)) \in 0 .. Len(p)
  <2>1. CASE n(k) >= 0 BY <1>7, <2>1
  <2>2. CASE ~(n(k) >= 0)
    <3>1. Back(p, k) = NoBlock BY <1>1, <1>4, <2>2
    <3>2. Len(NoBlock) = 0 /\ SubSeq(p, 1, 0) = NoBlock BY <1>0, TipShape DEF NoBlock
    <3> QED BY <1>0, <3>1, <3>2
  <2> QED BY <2>1, <2>2
<1> QED BY <1>0, <1>5, <1>6, <1>10, <1>11, <1>12, <1>13, Zenon

---------------------------------------------------------------------------
(* The rule, period by period. *)
Normal == dep.start \notin {ALWAYS_ACTIVE, NEVER_ACTIVE}
History ==
  /\ mtp \in [Blocks -> Int] /\ signal \in [Blocks -> BOOLEAN]
  /\ \A b \in Blocks : Len(b) > 1 => mtp[Parent(b)] <= mtp[b]
  /\ Normal => dep.start \in Int /\ dep.timeout \in Int /\ dep.min_activation_height \in Int

\* A set of blocks of one chain.
Ordered(E) == E \subseteq Blocks /\ \A a, x \in E : Height(a) = Height(x) => a = x

\* The parts of Rule, as functions of the ends of the periods.
Started(E) == {a \in E : mtp[a] >= dep.start}
Decided(E) ==
  {a \in Above(E, Lowest(Started(E))) : Count(a, Period) >= Threshold \/ mtp[a] >= dep.timeout}
Active(E) == {a \in Above(E, Lowest(Decided(E))) : Height(a) + 1 >= dep.min_activation_height}
RuleOf(E) ==
  IF Started(E) = {} THEN "DEFINED"
  ELSE IF Decided(E) = {} THEN "STARTED"
  ELSE IF Count(Lowest(Decided(E)), Period) < Threshold THEN "FAILED"
  ELSE IF Active(E) = {} THEN "LOCKED_IN" ELSE "ACTIVE"

\* Rule looks only at the ends of the periods.
LEMMA RuleIs ==
  ASSUME NEW b
  PROVE  /\ Normal => Rule(b) = RuleOf(Ends(b))
         /\ dep.start = ALWAYS_ACTIVE => Rule(b) = "ACTIVE"
         /\ dep.start = NEVER_ACTIVE /\ dep.start # ALWAYS_ACTIVE => Rule(b) = "FAILED"
  BY Zenon DEF Normal, Rule, RuleOf, Started, Decided, Active

\* Heights and counts are numbers.
LEMMA Numbers ==
  /\ \A b \in Blocks : Height(b) \in Nat /\ Len(b) \in Nat /\ Len(b) = Height(b) + 1
  /\ \A b \in Blocks, n \in Nat : Count(b, n) \in Nat
<1>1. ASSUME NEW b \in Blocks PROVE Height(b) \in Nat /\ Len(b) \in Nat /\ Len(b) = Height(b) + 1
  <2>1. Len(b) \in Nat /\ Len(b) # 0 BY TipShape, VersionBitsAssumption DEF Tips
  <2> QED BY <2>1 DEF Height
<1>2. ASSUME NEW b \in Blocks, NEW n \in Nat PROVE Count(b, n) \in Nat
  <2> DEFINE I == Len(b) - n + 1 .. Len(b)
             C == {l \in I : signal[SubSeq(b, 1, l)]}
  <2>1. Len(b) - n + 1 \in Int /\ Len(b) \in Int BY <1>1
  <2>2. IsFiniteSet(I) BY <2>1, FS_Interval
  <2>3. C \subseteq I OBVIOUS
  <2> HIDE DEF I
  <2>4. IsFiniteSet(C) BY <2>2, <2>3, FS_Subset
  <2>5. Cardinality(C) \in Nat BY <2>4, FS_CardinalityType
  <2> QED BY <2>5 DEF Count, I
<1> QED BY <1>1, <1>2

\* A set of blocks of one chain has a lowest one.
LEMMA LowestFacts ==
  ASSUME NEW S, Ordered(S), S # {}
  PROVE  /\ Lowest(S) \in S /\ \A x \in S : Height(Lowest(S)) <= Height(x)
         /\ \A a \in S : (\A x \in S : Height(a) <= Height(x)) => a = Lowest(S)
<1>0. \A a \in S : Height(a) \in Nat BY Numbers DEF Ordered
<1> DEFINE T == {Height(a) : a \in S}
<1>1. T \in SUBSET Nat /\ T # {} BY <1>0
<1>2. PICK m \in T : \A y \in T : m <= y BY <1>1, Least, Zenon
<1>3. \E a \in S : \A x \in S : Height(a) <= Height(x) BY <1>2
<1>4. Lowest(S) \in S /\ \A x \in S : Height(Lowest(S)) <= Height(x) BY <1>3 DEF Lowest
<1>5. ASSUME NEW a \in S, \A x \in S : Height(a) <= Height(x) PROVE a = Lowest(S)
  <2>1. Height(a) <= Height(Lowest(S)) /\ Height(Lowest(S)) <= Height(a) BY <1>4, <1>5
  <2>2. Height(a) = Height(Lowest(S)) BY <1>0, <1>4, <2>1
  <2> QED BY <1>4, <2>2 DEF Ordered
<1> QED BY <1>4, <1>5

\* Adding a higher block does not change the lowest.
LEMMA LowestSame ==
  ASSUME NEW S, NEW q \in Blocks, Ordered(S), S # {}, \A a \in S : Height(a) < Height(q)
  PROVE  Lowest(S \cup {q}) = Lowest(S) /\ Lowest(S) \in S
<1>1. Lowest(S) \in S /\ \A x \in S : Height(Lowest(S)) <= Height(x) BY LowestFacts
<1>2. \A a \in S \cup {q} : a \in Blocks /\ Height(a) \in Nat BY Numbers, Zenon DEF Ordered
<1>3. Ordered(S \cup {q})
  <2>1. ASSUME NEW a \in S \cup {q}, NEW x \in S \cup {q}, Height(a) = Height(x) PROVE a = x
    BY <1>2, <2>1 DEF Ordered
  <2> QED BY <1>2, <2>1 DEF Ordered
<1>4. \A x \in S \cup {q} : Height(Lowest(S)) <= Height(x) BY <1>1, <1>2
<1>5. S \cup {q} # {} /\ Lowest(S) \in S \cup {q} BY <1>1
<1>6. Lowest(S) = Lowest(S \cup {q}) BY <1>3, <1>4, <1>5, LowestFacts
<1> QED BY <1>1, <1>6

\* The lowest block of a single one.
LEMMA LowestSingle == ASSUME NEW q \in Blocks PROVE Lowest({q}) = q
<1>1. Ordered({q}) /\ {q} # {} BY DEF Ordered
<1> QED BY <1>1, LowestFacts

\* One more period: the rule makes the step of the forward loop of GetStateFor.
LEMMA RuleOfStep ==
  ASSUME History, Normal, NEW E, NEW q \in Blocks, Ordered(E), \A a \in E : Height(a) < Height(q)
  PROVE  RuleOf(E \cup {q}) = NextState(RuleOf(E), q)
<1> DEFINE F == E \cup {q}
           OK == Count(q, Period) >= Threshold
           Late == mtp[q] >= dep.timeout
<1>0. /\ Height(q) \in Nat /\ Count(q, Period) \in Nat /\ Threshold \in Nat /\ mtp[q] \in Int
      /\ \A a \in E : a \in Blocks /\ Height(a) \in Nat
  <2> HIDE DEF F, OK, Late
  <2>1. Period \in Nat /\ Threshold \in Nat BY VersionBitsAssumption
  <2>2. Height(q) \in Nat /\ Count(q, Period) \in Nat BY <2>1, Numbers, Zenon
  <2>3. mtp[q] \in Int BY DEF History
  <2>4. \A a \in E : a \in Blocks BY DEF Ordered
  <2>5. \A a \in E : Height(a) \in Nat BY <2>4, Numbers, Zenon
  <2> QED BY <2>1, <2>2, <2>3, <2>4, <2>5, Zenon
<1>1. \A S \in SUBSET E : Ordered(S) /\ \A a \in S : Height(a) < Height(q) BY DEF Ordered
<1>2. ~(Height(q) > Height(q)) /\ \A a \in E : ~(Height(a) > Height(q)) /\ Height(q) > Height(a) BY <1>0
<1>3. \A a \in E : Above(F, a) = Above(E, a) \cup {q} BY <1>2 DEF Above
<1>4. Above(F, q) = {} BY <1>2 DEF Above
<1>5. OK <=> ~(Count(q, Period) < Threshold) BY <1>0
<1>6. Started(F) = IF mtp[q] >= dep.start THEN Started(E) \cup {q} ELSE Started(E) BY DEF Started
<1>7. Started(E) \in SUBSET E BY DEF Started
<1>8. CASE Started(E) = {}
  <2>1. RuleOf(E) = "DEFINED" BY <1>8 DEF RuleOf
  <2>2. CASE ~(mtp[q] >= dep.start)
    <3>1. RuleOf(F) = "DEFINED" BY <1>6, <1>8, <2>2 DEF RuleOf
    <3>2. NextState("DEFINED", q) = "DEFINED" BY <2>2 DEF NextState
    <3> QED BY <2>1, <3>1, <3>2
  <2>3. CASE mtp[q] >= dep.start
    <3>1. Started(F) = {q} BY <1>6, <1>8, <2>3
    <3>2. Lowest(Started(F)) = q BY <3>1, LowestSingle
    <3>3. Decided(F) = {} BY <1>4, <3>2 DEF Decided
    <3>4. RuleOf(F) = "STARTED" BY <3>1, <3>3 DEF RuleOf
    <3>5. NextState("DEFINED", q) = "STARTED" BY <2>3 DEF NextState
    <3> QED BY <2>1, <3>4, <3>5
  <2> QED BY <2>2, <2>3
<1>9. CASE Started(E) # {}
  <2>1. Lowest(Started(F)) = Lowest(Started(E)) /\ Lowest(Started(E)) \in E /\ Started(F) # {}
    <3>1. Lowest(Started(E) \cup {q}) = Lowest(Started(E)) /\ Lowest(Started(E)) \in Started(E)
      BY <1>1, <1>7, <1>9, LowestSame
    <3> QED BY <1>6, <1>7, <1>9, <3>1
  <2>2. Above(F, Lowest(Started(F))) = Above(E, Lowest(Started(E))) \cup {q} BY <1>3, <2>1
  <2>3. Decided(F) = IF OK \/ Late THEN Decided(E) \cup {q} ELSE Decided(E) BY <2>2 DEF Decided
  <2>4. Decided(E) \in SUBSET E BY DEF Decided, Above
  <2>5. CASE Decided(E) = {}
    <3>1. RuleOf(E) = "STARTED" BY <1>9, <2>5 DEF RuleOf
    <3>2. CASE ~(OK \/ Late)
      <4>1. RuleOf(F) = "STARTED" BY <2>1, <2>3, <2>5, <3>2 DEF RuleOf
      <4>2. NextState("STARTED", q) = "STARTED" BY <3>2 DEF NextState
      <4> QED BY <3>1, <4>1, <4>2
    <3>3. CASE OK \/ Late
      <4>1. Decided(F) = {q} BY <2>3, <2>5, <3>3
      <4>2. Lowest(Decided(F)) = q BY <4>1, LowestSingle
      <4>3. Active(F) = {} BY <1>4, <4>2 DEF Active
      <4>4. RuleOf(F) = IF OK THEN "LOCKED_IN" ELSE "FAILED" BY <1>5, <2>1, <4>1, <4>2, <4>3 DEF RuleOf
      <4>5. NextState("STARTED", q) = IF OK THEN "LOCKED_IN" ELSE "FAILED" BY <1>5, <3>3 DEF NextState
      <4> QED BY <3>1, <4>4, <4>5
    <3> QED BY <3>2, <3>3
  <2>6. CASE Decided(E) # {}
    <3> DEFINE v == Lowest(Decided(E))
    <3>1. Lowest(Decided(F)) = v /\ v \in E /\ Decided(F) # {}
      <4>1. Lowest(Decided(E) \cup {q}) = Lowest(Decided(E)) /\ Lowest(Decided(E)) \in Decided(E)
        BY <1>1, <2>4, <2>6, LowestSame
      <4> QED BY <2>3, <2>4, <2>6, <4>1
    <3>2. CASE Count(v, Period) < Threshold
      <4>1. RuleOf(E) = "FAILED" BY <1>9, <2>6, <3>2 DEF RuleOf
      <4>2. RuleOf(F) = "FAILED" BY <2>1, <3>1, <3>2 DEF RuleOf
      <4>3. NextState("FAILED", q) = "FAILED" BY DEF NextState
      <4> QED BY <4>1, <4>2, <4>3
    <3>3. CASE ~(Count(v, Period) < Threshold)
      <4> DEFINE High == Height(q) + 1 >= dep.min_activation_height
      <4>1. Active(F) = IF High THEN Active(E) \cup {q} ELSE Active(E) BY <1>3, <3>1 DEF Active
      <4>2. RuleOf(E) = IF Active(E) = {} THEN "LOCKED_IN" ELSE "ACTIVE" BY <1>9, <2>6, <3>3 DEF RuleOf
      <4>3. RuleOf(F) = IF Active(F) = {} THEN "LOCKED_IN" ELSE "ACTIVE" BY <2>1, <3>1, <3>3 DEF RuleOf
      <4>4. NextState("LOCKED_IN", q) = IF High THEN "ACTIVE" ELSE "LOCKED_IN" BY DEF NextState
      <4>5. NextState("ACTIVE", q) = "ACTIVE" BY DEF NextState
      <4> HIDE DEF High, F
      <4> QED BY <4>1, <4>2, <4>3, <4>4, <4>5 DEF F
    <3> QED BY <3>2, <3>3
  <2> QED BY <2>5, <2>6
<1> QED BY <1>8, <1>9

\* The ends of the periods of a chain.
LEMMA EndsFacts ==
  ASSUME NEW b \in Tips
  PROVE  /\ Ends(b) = {SubSeq(b, 1, n) : n \in {m \in 1 .. Len(b) : m % Period = 0}}
         /\ Ordered(Ends(b)) /\ \A a \in Ends(b) : Height(a) < Len(b)
<1>0. Len(b) \in Nat BY TipShape
<1>1. \A n \in 1 .. Len(b) : SubSeq(b, 1, n) \in Blocks /\ Len(SubSeq(b, 1, n)) = n
  <2>1. \A n \in 1 .. Len(b) : n \in 0 .. Len(b) BY <1>0
  <2> QED BY <2>1, TipShape
<1>2. \A n \in 1 .. Len(b) : Height(SubSeq(b, 1, n)) + 1 = n /\ Height(SubSeq(b, 1, n)) = n - 1 BY <1>1 DEF Height
<1>3. Ends(b) = {SubSeq(b, 1, n) : n \in {m \in 1 .. Len(b) : m % Period = 0}}
  BY <1>2, Zenon DEF Ends, Ancestors
<1>4. \A a \in Ends(b) : \E n \in 1 .. Len(b) : a = SubSeq(b, 1, n) BY <1>3
<1>5. ASSUME NEW a \in Ends(b) PROVE a \in Blocks /\ Height(a) < Len(b)
  <2>1. PICK n \in 1 .. Len(b) : a = SubSeq(b, 1, n) BY <1>4
  <2>2. a \in Blocks /\ Height(a) = n - 1 BY <1>1, <1>2, <2>1
  <2> QED BY <1>0, <2>2
<1>6. ASSUME NEW a \in Ends(b), NEW x \in Ends(b), Height(a) = Height(x) PROVE a = x
  <2>1. PICK n \in 1 .. Len(b) : a = SubSeq(b, 1, n) BY <1>4
  <2>2. PICK m \in 1 .. Len(b) : x = SubSeq(b, 1, m) BY <1>4
  <2>3. n - 1 = m - 1 BY <1>2, <1>6, <2>1, <2>2
  <2>4. n = m BY <2>3
  <2> QED BY <2>1, <2>2, <2>4
<1> QED BY <1>3, <1>5, <1>6 DEF Ordered

\* Two chains with the same ends of periods.
LEMMA EndsSame ==
  ASSUME NEW b \in Tips, NEW m \in 0 .. Len(b), \A n \in m + 1 .. Len(b) : n % Period # 0
  PROVE  Ends(SubSeq(b, 1, m)) = Ends(b)
<1> DEFINE a == SubSeq(b, 1, m)
           N(k) == {n \in 1 .. k : n % Period = 0}
<1>0. Len(b) \in Nat BY TipShape
<1>1. a \in Tips /\ Len(a) = m /\ \A k \in 0 .. m : SubSeq(a, 1, k) = SubSeq(b, 1, k) BY TipShape
<1>2. N(m) = N(Len(b))
  <2>1. \A n \in 1 .. Len(b) : n \in 1 .. m \/ n \in m + 1 .. Len(b) BY <1>0
  <2>2. 1 .. m \subseteq 1 .. Len(b) BY <1>0
  <2> QED BY <2>1, <2>2
<1>3. \A n \in N(m) : n \in 0 .. m BY <1>0
<1> HIDE DEF a
<1>4. Ends(a) = {SubSeq(a, 1, n) : n \in N(m)} BY <1>1, EndsFacts
<1>5. Ends(b) = {SubSeq(b, 1, n) : n \in N(Len(b))} BY EndsFacts
<1> HIDE DEF N
<1>6. Ends(a) = {SubSeq(b, 1, n) : n \in N(m)} BY <1>1, <1>3, <1>4, Zenon
<1> QED BY <1>2, <1>5, <1>6 DEF a

\* All blocks of a period have the state of its first.
LEMMA RulePeriod ==
  ASSUME NEW b \in Tips
  PROVE  Rule(b) = Rule(PeriodParent(b))
<1> DEFINE m == Len(b) - (Len(b) % Period)
<1>1. PeriodParent(b) = SubSeq(b, 1, m) BY PeriodParentFacts
<1>2. Len(b) \in Nat /\ Period \in Nat \ {0} BY TipShape, VersionBitsAssumption
<1>3. m \in 0 .. Len(b) /\ Len(b) % Period < Period /\ m % Period = 0 /\ Len(b) % Period \in Int
  <2>1. m \in 0 .. Len(b) /\ m % Period = 0 /\ Len(b) % Period < Period BY <1>2, Multiples, Zenon
  <2>2. Len(b) % Period \in Int BY <1>2
  <2> QED BY <2>1, <2>2
<1>4. ASSUME NEW n \in m + 1 .. Len(b), n % Period = 0 PROVE FALSE
  <2>1. n \in Nat /\ m \in Nat /\ m < n BY <1>2, <1>3
  <2>2. m <= n - Period BY <1>2, <1>3, <1>4, <2>1, Multiples
  <2>3. n <= Len(b) /\ Len(b) < m + Period BY <1>2, <1>3
  <2> HIDE DEF m
  <2> QED BY <1>2, <2>1, <2>2, <2>3
<1> HIDE DEF m
<1>5. Ends(SubSeq(b, 1, m)) = Ends(b) BY <1>3, <1>4, EndsSame
<1>6. Ends(b) = Ends(PeriodParent(b)) BY <1>1, <1>5
<1> QED BY <1>6, Zenon DEF Rule

\* The rule at the end of a period, from the one before.
LEMMA RuleStep ==
  ASSUME History, Normal, NEW q \in PeriodEnds, q # NoBlock
  PROVE  Rule(q) = NextState(Rule(PreviousPeriodParent(q)), q)
<1> DEFINE m == Len(q) - Period
           a == SubSeq(q, 1, m)
           N(k) == {n \in 1 .. k : n % Period = 0}
<1>0. q \in Tips /\ q \in Blocks /\ Len(q) \in Nat /\ Len(q) % Period = 0 /\ Period \in Nat \ {0}
  BY TipShape, PreviousFacts, VersionBitsAssumption DEF PeriodEnds
<1>1. PreviousPeriodParent(q) = a /\ a \in Tips /\ Len(a) = m /\ m \in 0 .. Len(q) - 1
  BY PreviousFacts, Zenon DEF PeriodEnds
<1>2. m \in 0 .. Len(q) BY <1>0, <1>1
<1>3. (\A k \in 0 .. m : SubSeq(a, 1, k) = SubSeq(q, 1, k)) /\ SubSeq(q, 1, Len(q)) = q
  BY <1>0, <1>2, TipShape
<1>4. N(Len(q)) = N(m) \cup {Len(q)}
  <2>1. ASSUME NEW n \in N(Len(q)) PROVE n \in N(m) \cup {Len(q)}
    <3>1. n \in Nat /\ n >= 1 /\ n <= Len(q) /\ n % Period = 0 BY <1>0
    <3>2. CASE n = Len(q) BY <3>2
    <3>3. CASE n # Len(q)
      <4>1. n < Len(q) BY <1>0, <3>1, <3>3
      <4>2. n <= m BY <1>0, <3>1, <4>1, Multiples, Zenon
      <4>3. n \in 1 .. m BY <1>2, <3>1, <4>2
      <4> QED BY <3>1, <4>3
    <3> QED BY <3>2, <3>3
  <2>2. ASSUME NEW n \in N(m) \cup {Len(q)} PROVE n \in N(Len(q))
    <3>1. 1 .. m \subseteq 1 .. Len(q) /\ Len(q) \in 1 .. Len(q) BY <1>0, <1>1, <1>2
    <3> QED BY <1>0, <3>1
  <2> QED BY <2>1, <2>2
<1>5. \A n \in N(m) : n \in 0 .. m BY <1>0, <1>1
<1> HIDE DEF a
<1>6. Ends(a) = {SubSeq(a, 1, n) : n \in N(m)} /\ Ordered(Ends(a)) /\ \A x \in Ends(a) : Height(x) < Len(a)
  BY <1>1, EndsFacts
<1>7. Ends(q) = {SubSeq(q, 1, n) : n \in N(Len(q))} BY <1>0, EndsFacts
<1>8. \A x \in Ends(a) : Height(x) < Height(q)
  <2>1. \A x \in Ends(a) : Height(x) \in Nat BY <1>6, Numbers DEF Ordered
  <2>2. Height(q) = Len(q) - 1 /\ m <= Height(q) /\ m \in Int BY <1>0, <1>1 DEF Height
  <2> HIDE DEF m
  <2> QED BY <1>0, <1>1, <1>6, <2>1, <2>2
<1>9. Ends(q) = Ends(a) \cup {q}
  <2> HIDE DEF N, m
  <2>1. Ends(a) = {SubSeq(q, 1, n) : n \in N(m)} BY <1>3, <1>5, <1>6
  <2>2. Ends(q) = {SubSeq(q, 1, n) : n \in N(m)} \cup {SubSeq(q, 1, Len(q))} BY <1>4, <1>7
  <2> QED BY <1>3, <2>1, <2>2
<1>10. RuleOf(Ends(a) \cup {q}) = NextState(RuleOf(Ends(a)), q) BY <1>0, <1>6, <1>8, RuleOfStep
<1> QED BY <1>1, <1>9, <1>10, RuleIs, Zenon

\* Before the start time, and before the genesis block, a deployment is DEFINED.
LEMMA RuleDefined ==
  ASSUME History, Normal
  PROVE  /\ Rule(NoBlock) = "DEFINED"
         /\ \A b \in Blocks : mtp[b] < dep.start => Rule(b) = "DEFINED"
<1>1. Rule(NoBlock) = "DEFINED"
  <2>1. Ends(NoBlock) = {} BY DEF Ends, Ancestors, NoBlock
  <2>2. Started({}) = {} BY DEF Started
  <2>3. RuleOf({}) = "DEFINED" BY <2>2 DEF RuleOf
  <2> QED BY <2>1, <2>3, RuleIs
<1>2. ASSUME NEW b \in Blocks, mtp[b] < dep.start PROVE Rule(b) = "DEFINED"
  <2>0. b \in Tips /\ Len(b) \in Nat /\ Len(b) >= 1 BY Numbers DEF Tips
  <2>1. \A n \in 1 .. Len(b) : /\ SubSeq(b, 1, n) \in Blocks /\ Len(SubSeq(b, 1, n)) = n
                               /\ Parent(SubSeq(b, 1, n)) = SubSeq(b, 1, n - 1) /\ mtp[SubSeq(b, 1, n)] \in Int
    <3>1. \A n \in 1 .. Len(b) : n \in 0 .. Len(b) BY <2>0
    <3> QED BY <2>0, <3>1, TipShape DEF History
  <2> DEFINE Q == {i \in 0 .. Len(b) - 1 : mtp[SubSeq(b, 1, Len(b) - i)] <= mtp[b]}
  <2>2. 0 \in Q
    <3>1. SubSeq(b, 1, Len(b)) = b /\ mtp[b] \in Int /\ Len(b) - 0 = Len(b) BY <2>0, TipShape DEF History
    <3>2. mtp[b] <= mtp[b] BY <3>1
    <3>3. 0 \in 0 .. Len(b) - 1 BY <2>0
    <3>4. mtp[SubSeq(b, 1, Len(b) - 0)] <= mtp[b] BY <3>1, <3>2, Zenon
    <3> QED BY <3>3, <3>4
  <2>3. ASSUME NEW i \in 1 .. Len(b) - 1, i - 1 \in Q PROVE i \in Q
    <3> DEFINE n == Len(b) - (i - 1)
    <3>1. n \in 1 .. Len(b) /\ n - 1 \in 1 .. Len(b) /\ n > 1 /\ n - 1 = Len(b) - i BY <2>0
    <3>2. mtp[SubSeq(b, 1, n)] <= mtp[b] BY <2>3
    <3> HIDE DEF n
    <3>3. mtp[SubSeq(b, 1, n - 1)] <= mtp[SubSeq(b, 1, n)] BY <2>1, <3>1, Zenon DEF History
    <3>4. mtp[SubSeq(b, 1, n - 1)] \in Int /\ mtp[SubSeq(b, 1, n)] \in Int /\ mtp[b] \in Int BY <2>1, <3>1 DEF History
    <3>5. mtp[SubSeq(b, 1, n - 1)] <= mtp[b] BY <3>2, <3>3, <3>4
    <3>6. i \in 0 .. Len(b) - 1 BY <2>0
    <3> QED BY <3>1, <3>5, <3>6
  <2>4. \A i \in 0 .. Len(b) - 1 : i \in Q
    <3> HIDE DEF Q
    <3>1. Len(b) - 1 \in Nat BY <2>0
    <3> QED BY <2>2, <2>3, <3>1, LoopInduct, Zenon
  <2>5. \A n \in 1 .. Len(b) : mtp[SubSeq(b, 1, n)] <= mtp[b]
    <3>1. ASSUME NEW n \in 1 .. Len(b) PROVE mtp[SubSeq(b, 1, n)] <= mtp[b]
      <4>1. Len(b) - n \in 0 .. Len(b) - 1 /\ Len(b) - (Len(b) - n) = n BY <2>0
      <4> QED BY <2>4, <4>1, Zenon
    <3> QED BY <3>1
  <2>6. mtp[b] \in Int /\ dep.start \in Int BY DEF History
  <2>7. \A n \in 1 .. Len(b) : ~(mtp[SubSeq(b, 1, n)] >= dep.start) BY <1>2, <2>1, <2>5, <2>6
  <2>8. Started(Ends(b)) = {} BY <2>7, Zenon DEF Started, Ends, Ancestors
  <2>9. RuleOf(Ends(b)) = "DEFINED" BY <2>8 DEF RuleOf
  <2> QED BY <2>9, RuleIs
<1> QED BY <1>1, <1>2

---------------------------------------------------------------------------
(* GetStateFor. *)
Caches == UNION {[D -> States] : D \in SUBSET Tips}
Results == [state : States, cache : Caches]

\* A cache with nothing but the states of the rule.
Sound(c) == c \in Caches /\ \A q \in DOMAIN c : c[q] = Rule(q)

\* The states of the machine.
LEMMA StatesClosed ==
  /\ \A b : Rule(b) \in States
  /\ \A s \in States, b \in Blocks : NextState(s, b) \in States
<1>1. ASSUME NEW b PROVE Rule(b) \in States
  <2>1. CASE Normal
    <3>1. RuleOf(Ends(b)) \in States BY DEF RuleOf, States
    <3> QED BY <2>1, <3>1, RuleIs
  <2>2. CASE dep.start = ALWAYS_ACTIVE BY <2>2, RuleIs DEF States
  <2>3. CASE dep.start = NEVER_ACTIVE /\ dep.start # ALWAYS_ACTIVE BY <2>3, RuleIs DEF States
  <2> QED BY <2>1, <2>2, <2>3 DEF Normal
<1>2. ASSUME NEW s \in States, NEW b \in Blocks PROVE NextState(s, b) \in States
  BY DEF NextState, States
<1> QED BY <1>1, <1>2

\* Writing an entry.
LEMMA PutFacts ==
  ASSUME NEW c \in Caches, NEW b \in Tips, NEW s \in States
  PROVE  /\ Put(c, b, s) \in Caches /\ DOMAIN Put(c, b, s) = DOMAIN c \cup {b} /\ Put(c, b, s)[b] = s
         /\ \A x \in DOMAIN c : x # b => Put(c, b, s)[x] = c[x]
         /\ Sound(c) /\ s = Rule(b) => Sound(Put(c, b, s))
<1> DEFINE d == Put(c, b, s)
<1>1. PICK D \in SUBSET Tips : c \in [D -> States] BY DEF Caches
<1>2. DOMAIN c = D BY <1>1
<1>3. d = [x \in D \cup {b} |-> IF x = b THEN s ELSE c[x]] BY <1>2 DEF Put
<1> HIDE DEF d
<1>4. d \in [D \cup {b} -> States] /\ D \cup {b} \in SUBSET Tips BY <1>1, <1>3
<1>5. d \in Caches BY <1>4 DEF Caches
<1>6. DOMAIN d = D \cup {b} /\ d[b] = s /\ \A x \in D : x # b => d[x] = c[x] BY <1>3
<1>7. Sound(c) /\ s = Rule(b) => Sound(d) BY <1>2, <1>5, <1>6 DEF Sound
<1> QED BY <1>2, <1>5, <1>6, <1>7 DEF d

\* The backward walk takes some number of steps, and stops where it can first.
LEMMA WalkedFacts ==
  ASSUME NEW c, NEW p \in PeriodEnds
  PROVE  /\ Walked(c, p) \in 0 .. Len(p) /\ Walked(c, p) \in Nat /\ StopsAt(c, Back(p, Walked(c, p)))
         /\ \A k \in 0 .. Walked(c, p) - 1 : ~StopsAt(c, Back(p, k))
<1> DEFINE S == {k \in 0 .. Len(p) : StopsAt(c, Back(p, k))}
           n == Walked(c, p)
<1>0. Len(p) \in Nat /\ Back(p, Len(p)) = NoBlock BY BackFacts
<1>1. StopsAt(c, NoBlock) BY DEF StopsAt
<1>2. Len(p) \in S BY <1>0, <1>1
<1>3. S \in SUBSET Nat /\ S # {} BY <1>0, <1>2
<1>4. n = CHOOSE x \in S : \A m \in S : x <= m BY DEF Walked, LeastOf
<1>5. \E x \in S : \A m \in S : x <= m
  <2> HIDE DEF S
  <2> QED BY <1>3, Least
<1>6. n \in S /\ \A m \in S : n <= m
  <2> HIDE DEF S, n
  <2> QED BY <1>4, <1>5
<1>7. n \in 0 .. Len(p) /\ n \in Nat /\ StopsAt(c, Back(p, n)) BY <1>0, <1>6
<1>8. ASSUME NEW k \in 0 .. n - 1, StopsAt(c, Back(p, k)) PROVE FALSE
  <2> HIDE DEF n
  <2>1. k \in 0 .. Len(p) /\ k < n BY <1>0, <1>7
  <2>2. n <= k BY <1>6, <1>8, <2>1
  <2> QED BY <1>7, <2>1, <2>2
<1> QED BY <1>7, <1>8

\* What the walk finds is the state of the rule.
LEMMA FoundFacts ==
  ASSUME History, NEW c, Sound(c), NEW p \in PeriodEnds
  PROVE  /\ Found(c, p) \in Results
         /\ Normal => Found(c, p).state = Rule(Back(p, Walked(c, p))) /\ Sound(Found(c, p).cache)
<1> DEFINE q == Back(p, Walked(c, p))
           known == IF q \in DOMAIN c THEN c ELSE Put(c, q, "DEFINED")
<1>1. q \in PeriodEnds /\ q \in Tips /\ StopsAt(c, q) BY WalkedFacts, BackFacts, Zenon DEF PeriodEnds
<1>2. Found(c, p) = [state |-> known[q], cache |-> known] BY DEF Found
<1> HIDE DEF q
<1>3. c \in Caches /\ "DEFINED" \in States BY DEF Sound, States
<1>4. CASE q \in DOMAIN c
  <2>1. known = c /\ known[q] = Rule(q) BY <1>4 DEF Sound
  <2> QED BY <1>2, <1>3, <2>1, StatesClosed DEF Results, q
<1>5. CASE q \notin DOMAIN c
  <2>1. known = Put(c, q, "DEFINED") /\ known[q] = "DEFINED" /\ known \in Caches
    <3>1. known = Put(c, q, "DEFINED") BY <1>5
    <3>2. Put(c, q, "DEFINED")[q] = "DEFINED" /\ Put(c, q, "DEFINED") \in Caches BY <1>1, <1>3, PutFacts, Zenon
    <3> HIDE DEF known
    <3> QED BY <3>1, <3>2, Zenon
  <2>2. Normal => Rule(q) = "DEFINED"
    <3>1. q = NoBlock \/ (q \in Blocks /\ mtp[q] < dep.start) BY <1>1, <1>5 DEF StopsAt, Tips
    <3> QED BY <3>1, RuleDefined
  <2>3. Normal => Sound(known) BY <1>1, <1>3, <2>1, <2>2, PutFacts, Zenon
  <2> HIDE DEF known
  <2> QED BY <1>2, <1>3, <2>1, <2>2, <2>3 DEF Results, q
<1> QED BY <1>4, <1>5

\* The forward loop.
LEMMA ForwardLoop ==
  ASSUME History, NEW c, Sound(c), NEW p \in PeriodEnds
  PROVE  LET n == Walked(c, p)
             after == Forward(c, p)
         IN  /\ after[0] = Found(c, p) /\ \A i \in 0 .. n : after[i] \in Results
             /\ \A i \in 1 .. n :
                  LET s == NextState(after[i - 1].state, Back(p, n - i))
                  IN  after[i] = [state |-> s, cache |-> Put(after[i - 1].cache, Back(p, n - i), s)]
<1> DEFINE n == Walked(c, p)
           x == Found(c, p)
           Up(i, r) == [state |-> NextState(r.state, Back(p, n - i)),
                        cache |-> Put(r.cache, Back(p, n - i), NextState(r.state, Back(p, n - i)))]
           F == [z \in (1 .. n) \X Results |-> Up(z[1], z[2])]
           Loop(f) == f = [i \in 0 .. n |-> IF i = 0 THEN x ELSE Up(i, f[i - 1])]
           g == Forward(c, p)
<1>0. x \in Results BY FoundFacts
<1>1. n \in Nat BY WalkedFacts
<1>2. ASSUME NEW i \in 1 .. n, NEW r \in Results PROVE Up(i, r) \in Results
  <2>0. n - i \in 0 .. n - 1 /\ n - i \in Nat BY <1>1
  <2>1. ~StopsAt(c, Back(p, n - i)) BY <2>0, WalkedFacts
  <2>2. Back(p, n - i) # NoBlock BY <2>1 DEF StopsAt
  <2>3. Back(p, n - i) \in Tips BY <2>0, BackFacts DEF PeriodEnds
  <2>4. Back(p, n - i) \in Blocks BY <2>2, <2>3 DEF Tips
  <2>5. r.state \in States /\ r.cache \in Caches BY DEF Results
  <2>6. NextState(r.state, Back(p, n - i)) \in States BY <2>4, <2>5, StatesClosed
  <2>7. Put(r.cache, Back(p, n - i), NextState(r.state, Back(p, n - i))) \in Caches BY <2>3, <2>5, <2>6, PutFacts, Zenon
  <2> QED BY <2>6, <2>7 DEF Results
<1>3. g = CHOOSE f : Loop(f) BY Zenon DEF Forward
<1>4. \E f : Loop(f)
  <2> HIDE DEF Up
  <2>1. F \in Steps(n, Results) BY <1>2 DEF Steps
  <2>2. \A i \in 1 .. n : \A v \in Results : F[<<i, v>>] = Up(i, v) OBVIOUS
  <2> HIDE DEF F, n, x
  <2>3. Runs(x, n, Results, F) # {} BY <1>0, <1>1, <2>1, LoopExists, Zenon
  <2>4. PICK f \in [0 .. n -> Results] : f[0] = x /\ \A i \in 1 .. n : f[i] = F[<<i, f[i - 1]>>]
    BY <2>3, Zenon DEF Runs
  <2>5. \A i \in 1 .. n : f[i - 1] \in Results BY <1>1
  <2>6. \A i \in 1 .. n : f[i] = Up(i, f[i - 1]) BY <2>2, <2>4, <2>5, Zenon
  <2>7. Loop(f) BY <1>1, <2>4, <2>6
  <2> QED BY <2>7, Zenon
<1>5. Loop(g)
  <2> HIDE DEF Loop, g
  <2> QED BY <1>3, <1>4
<1>6. g[0] = x /\ \A i \in 1 .. n : g[i] = Up(i, g[i - 1])
  <2> HIDE DEF Up, g, x, n
  <2> QED BY <1>1, <1>5
<1>7. \A i \in 0 .. n : g[i] \in Results
  <2> HIDE DEF Up, g, n, x
  <2>1. \A i \in 1 .. n : g[i - 1] \in Results => g[i] \in Results BY <1>2, <1>6
  <2> QED BY <1>0, <1>1, <1>6, <2>1, LoopTyped
<1> QED BY <1>6, <1>7, Zenon

\* Whatever the cache remembers, the reply is the state of the rule, and so is what the cache
\* remembers next.
LEMMA Reply ==
  ASSUME History, NEW c, Sound(c), NEW b \in Tips
  PROVE  GetStateFor(b, c).state = Rule(b) /\ Sound(GetStateFor(b, c).cache) /\ GetStateFor(b, c) \in Results
<1>1. CASE dep.start = ALWAYS_ACTIVE
  <2>1. GetStateFor(b, c) = [state |-> "ACTIVE", cache |-> c] BY <1>1 DEF GetStateFor
  <2> QED BY <1>1, <2>1, RuleIs DEF Results, Sound, States
<1>2. CASE dep.start = NEVER_ACTIVE /\ dep.start # ALWAYS_ACTIVE
  <2>1. GetStateFor(b, c) = [state |-> "FAILED", cache |-> c] BY <1>2 DEF GetStateFor
  <2> QED BY <1>2, <2>1, RuleIs DEF Results, Sound, States
<1>3. CASE Normal
  <2> DEFINE p == PeriodParent(b)
             n == Walked(c, p)
             g == Forward(c, p)
             Q == {i \in 0 .. n : g[i].state = Rule(Back(p, n - i)) /\ Sound(g[i].cache)}
  <2>1. p \in PeriodEnds BY PeriodParentFacts
  <2>2. GetStateFor(b, c) = g[n] BY <1>3 DEF GetStateFor, Normal
  <2> HIDE DEF p
  <2>3. n \in Nat /\ \A k \in 0 .. n - 1 : ~StopsAt(c, Back(p, k)) BY <2>1, WalkedFacts
  <2>4. g[0] = Found(c, p) /\ \A i \in 0 .. n : g[i] \in Results BY <2>1, ForwardLoop
  <2>5. \A i \in 1 .. n : g[i] = [state |-> NextState(g[i - 1].state, Back(p, n - i)),
                                  cache |-> Put(g[i - 1].cache, Back(p, n - i), NextState(g[i - 1].state, Back(p, n - i)))]
    BY <2>1, ForwardLoop
  <2>6. 0 \in Q
    <3>1. g[0].state = Rule(Back(p, n)) /\ Sound(g[0].cache) BY <1>3, <2>1, <2>4, FoundFacts
    <3>2. n - 0 = n /\ 0 \in 0 .. n BY <2>3
    <3> HIDE DEF g, n
    <3> QED BY <3>1, <3>2
  <2>7. ASSUME NEW i \in 1 .. n, i - 1 \in Q PROVE i \in Q
    <3> DEFINE q == Back(p, n - i)
               r == g[i - 1]
               s == NextState(r.state, q)
    <3>0. n - i \in Nat /\ n - i \in 0 .. n - 1 /\ (n - i) + 1 = n - (i - 1) /\ i \in 0 .. n BY <2>3
    <3>1. ~StopsAt(c, q) BY <2>3, <3>0
    <3>2. q # NoBlock /\ q \in PeriodEnds /\ q \in Tips BY <2>1, <3>0, <3>1, BackFacts DEF StopsAt, PeriodEnds
    <3>3. Back(p, n - (i - 1)) = PreviousPeriodParent(q) BY <2>1, <3>0, <3>2, BackFacts
    <3>4. r.state = Rule(Back(p, n - (i - 1))) /\ Sound(r.cache) BY <2>7
    <3>5. s = Rule(q)
      <4> HIDE DEF q, r
      <4> QED BY <1>3, <3>2, <3>3, <3>4, RuleStep
    <3>6. Sound(Put(r.cache, q, s))
      <4>1. s \in States BY <3>5, StatesClosed
      <4>2. r.cache \in Caches BY <3>4 DEF Sound
      <4> HIDE DEF q, r, s
      <4> QED BY <3>2, <3>4, <3>5, <4>1, <4>2, PutFacts, Zenon
    <3>7. g[i] = [state |-> s, cache |-> Put(r.cache, q, s)] BY <2>5, Zenon
    <3> HIDE DEF g, n, s, r
    <3>8. g[i].state = s /\ g[i].cache = Put(r.cache, q, s) BY <3>7
    <3> QED BY <3>0, <3>5, <3>6, <3>8
  <2>8. n \in Q
    <3> HIDE DEF Q, n
    <3>1. \A i \in 0 .. n : i \in Q BY <2>3, <2>6, <2>7, LoopInduct
    <3>2. n \in 0 .. n BY <2>3
    <3> QED BY <3>1, <3>2
  <2>9. Rule(b) = Rule(Back(p, n - n))
    <3>1. n - n = 0 BY <2>3
    <3>2. Back(p, 0) = p BY <2>1, BackFacts
    <3>3. Rule(b) = Rule(p) BY RulePeriod DEF p
    <3> QED BY <3>1, <3>2, <3>3, Zenon
  <2>10. g[n] \in Results
    <3>1. n \in 0 .. n BY <2>3
    <3> QED BY <2>4, <3>1
  <2> HIDE DEF g, n
  <2> QED BY <2>2, <2>8, <2>9, <2>10
<1> QED BY <1>1, <1>2, <1>3 DEF Normal

---------------------------------------------------------------------------
(* GetStateSinceHeightFor. *)

\* A reply whose cache is sound.
Good == {r \in Results : Sound(r.cache)}

\* The replies of the loop, about one period after the other.
LEMMA RepliesLoop ==
  ASSUME History, NEW first \in Good, NEW p \in PeriodEnds
  PROVE  LET reply == Replies(p, first)
         IN  /\ reply[0] = first /\ \A i \in 0 .. Len(p) : reply[i] \in Good
             /\ \A i \in 1 .. Len(p) : reply[i].state = Rule(Back(p, i))
<1> DEFINE n == Len(p)
           Up(i, r) == GetStateFor(Back(p, i), r.cache)
           F == [z \in (1 .. n) \X Good |-> Up(z[1], z[2])]
           Loop(f) == f = [i \in 0 .. n |-> IF i = 0 THEN first ELSE Up(i, f[i - 1])]
           g == Replies(p, first)
<1>1. n \in Nat BY BackFacts
<1>2. ASSUME NEW i \in 1 .. n, NEW r \in Good PROVE Up(i, r) \in Good /\ Up(i, r).state = Rule(Back(p, i))
  <2>1. i \in Nat BY <1>1
  <2>2. Back(p, i) \in Tips BY <2>1, BackFacts DEF PeriodEnds
  <2>3. Sound(r.cache) BY DEF Good
  <2> QED BY <2>2, <2>3, Reply DEF Good
<1>3. g = CHOOSE f : Loop(f) BY Zenon DEF Replies
<1>4. \E f : Loop(f)
  <2> HIDE DEF Up
  <2>1. F \in Steps(n, Good) BY <1>2 DEF Steps
  <2>2. \A i \in 1 .. n : \A v \in Good : F[<<i, v>>] = Up(i, v) OBVIOUS
  <2> HIDE DEF F, n
  <2>3. Runs(first, n, Good, F) # {} BY <1>1, <2>1, LoopExists, Zenon
  <2>4. PICK f \in [0 .. n -> Good] : f[0] = first /\ \A i \in 1 .. n : f[i] = F[<<i, f[i - 1]>>]
    BY <2>3, Zenon DEF Runs
  <2>5. \A i \in 1 .. n : f[i - 1] \in Good BY <1>1
  <2>6. \A i \in 1 .. n : f[i] = Up(i, f[i - 1]) BY <2>2, <2>4, <2>5, Zenon
  <2>7. Loop(f) BY <1>1, <2>4, <2>6
  <2> QED BY <2>7, Zenon
<1>5. Loop(g)
  <2> HIDE DEF Loop, g
  <2> QED BY <1>3, <1>4
<1>6. g[0] = first /\ \A i \in 1 .. n : g[i] = Up(i, g[i - 1])
  <2> HIDE DEF Up, g, n
  <2> QED BY <1>1, <1>5
<1>7. \A i \in 0 .. n : g[i] \in Good
  <2> HIDE DEF Up, g, n
  <2>1. \A i \in 1 .. n : g[i - 1] \in Good => g[i] \in Good BY <1>2, <1>6
  <2> QED BY <1>1, <1>6, <2>1, LoopTyped
<1>8. ASSUME NEW i \in 1 .. n PROVE g[i].state = Rule(Back(p, i))
  <2>1. i - 1 \in 0 .. n BY <1>1
  <2> HIDE DEF Up, g, n
  <2>2. g[i - 1] \in Good BY <1>7, <2>1
  <2> QED BY <1>2, <1>6, <2>2
<1> QED BY <1>6, <1>7, <1>8, Zenon

\* The loop stops before the first period in another state.
LEMMA SinceWalkFacts ==
  ASSUME History, NEW first \in Good, NEW p \in PeriodEnds
  PROVE  LET j == SamePeriods(p, first)
             walk == SinceWalk(p, first)
         IN  /\ j \in Nat /\ walk.block = Back(p, j) /\ Sound(walk.cache)
             /\ Back(p, j + 1) = NoBlock \/ Rule(Back(p, j + 1)) # first.state
             /\ \A k \in 1 .. j : Back(p, k) # NoBlock /\ Rule(Back(p, k)) = first.state
<1> DEFINE n == Len(p)
           g == Replies(p, first)
           Ended(j) == Back(p, j + 1) = NoBlock \/ g[j + 1].state # first.state
           S == {j \in 0 .. n : Ended(j)}
           j == SamePeriods(p, first)
           last == IF Back(p, j + 1) = NoBlock THEN j ELSE j + 1
<1>1. n \in Nat /\ Back(p, n) = NoBlock /\ Back(p, n + 1) = NoBlock
  <2>1. n \in Nat /\ Back(p, n) = NoBlock BY BackFacts
  <2> QED BY <2>1, BackFacts
<1>2. /\ \A i \in 0 .. n : g[i] \in Good
      /\ \A i \in 1 .. n : g[i].state = Rule(Back(p, i))
  BY RepliesLoop
<1>3. n \in S BY <1>1
<1>4. S \in SUBSET Nat /\ S # {} BY <1>1, <1>3
<1>5. j = CHOOSE x \in S : \A m \in S : x <= m BY Zenon DEF SamePeriods, LeastOf
<1>6. \E x \in S : \A m \in S : x <= m
  <2> HIDE DEF S
  <2> QED BY <1>4, Least
<1>7. j \in S /\ \A m \in S : j <= m
  <2> HIDE DEF S, j
  <2> QED BY <1>5, <1>6
<1>8. SinceWalk(p, first) = [block |-> Back(p, j), cache |-> g[last].cache] BY Zenon DEF SinceWalk
<1> HIDE DEF j, g
<1>9. j \in 0 .. n /\ j \in Nat /\ Ended(j) BY <1>1, <1>7
<1>10. Back(p, j + 1) # NoBlock => j + 1 \in 1 .. n
  <2>1. Back(p, j + 1) # NoBlock => j # n BY <1>1
  <2> QED BY <1>1, <1>9, <2>1
<1>11. last \in 0 .. n
  <2>1. j + 1 \in 1 .. n => j + 1 \in 0 .. n BY <1>1
  <2> QED BY <1>9, <1>10, <2>1
<1>12. Sound(g[last].cache)
  <2> HIDE DEF last
  <2>1. g[last] \in Good BY <1>2, <1>11
  <2> QED BY <2>1 DEF Good
<1>13. Back(p, j + 1) = NoBlock \/ Rule(Back(p, j + 1)) # first.state BY <1>2, <1>9, <1>10
<1>14. ASSUME NEW k \in 1 .. j PROVE Back(p, k) # NoBlock /\ Rule(Back(p, k)) = first.state
  <2> DEFINE i == k - 1
  <2>1. i \in 0 .. n /\ i < j /\ i + 1 = k /\ k \in 1 .. n BY <1>1, <1>9
  <2> HIDE DEF i
  <2>2. ~Ended(i)
    <3>1. ASSUME Ended(i) PROVE FALSE
      <4>1. j <= i BY <1>7, <2>1, <3>1
      <4> QED BY <1>1, <1>9, <2>1, <4>1
    <3> QED BY <3>1
  <2>3. Back(p, k) # NoBlock /\ g[k].state = first.state BY <2>1, <2>2
  <2> QED BY <1>2, <2>1, <2>3
<1>15. SinceWalk(p, first).block = Back(p, j) /\ SinceWalk(p, first).cache = g[last].cache BY <1>8
<1> QED BY <1>9, <1>12, <1>13, <1>14, <1>15, Zenon DEF j

\* StateSinceHeight leaves a sound cache.
LEMMA SinceCache ==
  ASSUME History, NEW c, Sound(c), NEW b \in Tips
  PROVE  Sound(GetStateSinceHeightFor(b, c).cache)
<1> DEFINE first == GetStateFor(b, c)
           p == PeriodParent(b)
<1>1. first \in Good /\ Sound(first.cache) BY Reply DEF Good
<1>2. p \in PeriodEnds BY PeriodParentFacts
<1>3. Sound(SinceWalk(p, first).cache)
  <2> HIDE DEF first, p
  <2> QED BY <1>1, <1>2, SinceWalkFacts
<1>4. GetStateSinceHeightFor(b, c) \in {[since |-> 0, cache |-> c], [since |-> 0, cache |-> first.cache],
         [since |-> Height(SinceWalk(p, first).block) + 1, cache |-> SinceWalk(p, first).cache]}
  BY Zenon DEF GetStateSinceHeightFor
<1> HIDE DEF first, p
<1> QED BY <1>1, <1>3, <1>4

---------------------------------------------------------------------------
(* The invariant: the history is one, and the cache remembers only what the rules say. *)
Inv == History /\ Sound(cache)

\* Steps do not change the rules.
LEMMA RuleKept ==
  ASSUME mtp' = mtp, signal' = signal, dep' = dep
  PROVE  /\ \A b : Rule(b)' = Rule(b)
         /\ History => History'
<1>1. \A b, n : Count(b, n)' = Count(b, n) BY Zenon DEF Count
<1>2. ASSUME NEW b PROVE Rule(b)' = Rule(b)
  <2>1. Started(Ends(b))' = Started(Ends(b)) BY DEF Started
  <2>2. Decided(Ends(b))' = Decided(Ends(b)) BY <1>1, <2>1, Zenon DEF Decided
  <2>3. Active(Ends(b))' = Active(Ends(b)) BY <2>2, Zenon DEF Active
  <2>4. RuleOf(Ends(b))' = RuleOf(Ends(b)) BY <1>1, <2>1, <2>2, <2>3, Zenon DEF RuleOf
  <2>5. Rule(b) = IF dep.start = ALWAYS_ACTIVE THEN "ACTIVE"
                  ELSE IF dep.start = NEVER_ACTIVE THEN "FAILED" ELSE RuleOf(Ends(b))
    BY Zenon DEF Rule, RuleOf, Started, Decided, Active
  <2>6. Rule(b)' = IF dep'.start = ALWAYS_ACTIVE THEN "ACTIVE"
                   ELSE IF dep'.start = NEVER_ACTIVE THEN "FAILED" ELSE RuleOf(Ends(b))'
    BY Zenon DEF Rule, RuleOf, Started, Decided, Active
  <2> QED BY <2>4, <2>5, <2>6
<1>3. History => History' BY DEF History, Normal
<1> QED BY <1>2, <1>3

\* The empty cache.
LEMMA EmptySound == Sound(<<>>) /\ Sound(<<>>)'
<1>1. <<>> \in Caches
  <2>1. <<>> \in [{} -> States] /\ {} \in SUBSET Tips OBVIOUS
  <2> QED BY <2>1 DEF Caches
<1>2. DOMAIN <<>> = {} OBVIOUS
<1> QED BY <1>1, <1>2 DEF Sound

\* The cache holds what the deployment rules give each block, whatever was asked, in whatever
\* order and about whichever branch (GetStateFor, GetStateSinceHeightFor).
THEOREM Invariance == Spec => []Inv
<1>1. Init => Inv
  <2> SUFFICES ASSUME Init PROVE Inv OBVIOUS
  <2>1. PICK h \in Histories : mtp = h.mtp /\ signal = h.signal BY DEF Init
  <2>2. dep \in Deployments /\ cache = <<>> BY DEF Init
  <2>3. History BY <2>1, <2>2, VersionBitsAssumption DEF History, Normal
  <2> QED BY <2>2, <2>3, EmptySound DEF Inv
<1>2. Inv /\ [Next]_vars => Inv'
  <2> SUFFICES ASSUME Inv, [Next]_vars PROVE Inv' OBVIOUS
  <2>1. ASSUME mtp' = mtp, signal' = signal, dep' = dep, Sound(cache') PROVE Inv'
    <3>1. History' BY <2>1, RuleKept DEF Inv
    <3>2. cache' \in Caches /\ \A q \in DOMAIN cache' : cache'[q] = Rule(q)' BY <2>1, RuleKept DEF Sound
    <3>3. Sound(cache)' BY <3>2 DEF Sound, Caches
    <3> QED BY <3>1, <3>3 DEF Inv
  <2>2. ASSUME NEW b \in Tips, State(b) PROVE Inv'
    <3>1. Sound(GetStateFor(b, cache).cache) BY Reply DEF Inv
    <3> QED BY <2>1, <2>2, <3>1 DEF State
  <2>3. ASSUME NEW b \in Tips, StateSinceHeight(b) PROVE Inv'
    <3>1. Sound(GetStateSinceHeightFor(b, cache).cache) BY SinceCache DEF Inv
    <3> QED BY <2>1, <2>3, <3>1 DEF StateSinceHeight
  <2>4. CASE Clear BY <2>1, <2>4, EmptySound DEF Clear
  <2>5. CASE UNCHANGED vars BY <2>1, <2>5 DEF vars, Inv
  <2> QED BY <2>2, <2>3, <2>4, <2>5 DEF Next, Tips
<1> QED BY <1>1, <1>2, PTL DEF Spec

\* Every reply of State and ComputeBlockVersion is the one of the deployment rules.
THEOREM ReplyAlwaysSound == Spec => []ReplySound
<1>1. Inv => ReplySound
  <2> SUFFICES ASSUME Inv, NEW b \in Tips
               PROVE  /\ GetStateFor(b, cache).state = Rule(b)
                      /\ ComputeBlockVersion(b, cache) <=> Rule(b) \in {"STARTED", "LOCKED_IN"}
    BY DEF ReplySound, Tips
  <2>1. GetStateFor(b, cache).state = Rule(b) BY Reply DEF Inv
  <2> QED BY <2>1 DEF ComputeBlockVersion
<1> QED BY <1>1, Invariance, PTL

---------------------------------------------------------------------------
(* The height since which a state lasts. *)

\* The blocks on the end of a period, up to the end of the next, have the state it decides.
LEMMA RuleBetween ==
  ASSUME NEW b \in Tips, NEW q \in PeriodEnds, NEW n \in 0 .. Len(b),
         Len(q) <= n, n < Len(q) + Period, q = SubSeq(b, 1, Len(q))
  PROVE  Rule(SubSeq(b, 1, n)) = Rule(q)
<1> DEFINE x == SubSeq(b, 1, n)
<1>1. Len(b) \in Nat /\ Len(q) \in Nat /\ Len(q) % Period = 0 /\ Period \in Nat \ {0}
  BY TipShape, VersionBitsAssumption DEF PeriodEnds
<1>2. n \in Nat /\ Len(q) \in 0 .. n BY <1>1
<1>3. x \in Tips /\ Len(x) = n /\ SubSeq(x, 1, Len(q)) = SubSeq(b, 1, Len(q)) BY <1>2, TipShape
<1>4. n - (n % Period) = Len(q) BY <1>1, <1>2, Multiples, Zenon
<1> HIDE DEF x
<1>5. PeriodParent(x) = q BY <1>3, <1>4, PeriodParentFacts
<1>6. Rule(x) = Rule(q) BY <1>3, <1>5, RulePeriod
<1> QED BY <1>6 DEF x

\* All blocks above the block where the loop ends are in the present state.
LEMMA SameState ==
  ASSUME History, NEW b \in Tips, NEW j \in Nat,
         \A k \in 1 .. j : Back(PeriodParent(b), k) # NoBlock /\ Rule(Back(PeriodParent(b), k)) = Rule(b)
  PROVE  LET B == Back(PeriodParent(b), j)
         IN  /\ B \in PeriodEnds /\ B = SubSeq(b, 1, Len(B)) /\ Len(B) \in 0 .. Len(b) /\ Rule(B) = Rule(b)
             /\ \A n \in Len(B) .. Len(b) : Rule(SubSeq(b, 1, n)) = Rule(b)
<1> DEFINE p == PeriodParent(b)
           B(k) == Back(p, k)
           Q == {k \in 0 .. j : \A n \in Len(B(k)) .. Len(b) : Rule(SubSeq(b, 1, n)) = Rule(b)}
<1>0. Len(b) \in Nat /\ Period \in Nat \ {0} BY TipShape, VersionBitsAssumption
<1>1. /\ p \in PeriodEnds /\ p = SubSeq(b, 1, Len(p)) /\ Len(p) = Len(b) - (Len(b) % Period)
      /\ Len(p) \in 0 .. Len(b) /\ Len(b) < Len(p) + Period
  <2>1. p \in PeriodEnds /\ p = SubSeq(b, 1, Len(p)) /\ Len(p) = Len(b) - (Len(b) % Period) BY PeriodParentFacts
  <2>2. Len(b) - (Len(b) % Period) \in 0 .. Len(b) /\ Len(b) % Period < Period /\ Len(b) % Period \in Int
    <3>1. Len(b) - (Len(b) % Period) \in 0 .. Len(b) /\ Len(b) % Period < Period BY <1>0, Multiples, Zenon
    <3>2. Len(b) % Period \in Int BY <1>0
    <3> QED BY <3>1, <3>2, Zenon
  <2> HIDE DEF p
  <2>3. Len(b) < (Len(b) - (Len(b) % Period)) + Period BY <1>0, <2>2
  <2> QED BY <2>1, <2>2, <2>3
<1>2. \A k \in 1 .. j : B(k) # NoBlock /\ Rule(B(k)) = Rule(b) OBVIOUS
<1>3. Rule(p) = Rule(b) BY RulePeriod
<1> HIDE DEF p
<1>4. ASSUME NEW k \in Nat PROVE B(k) \in PeriodEnds /\ B(k) = SubSeq(b, 1, Len(B(k))) /\ Len(B(k)) \in 0 .. Len(b)
  <2>1. B(k) \in PeriodEnds /\ B(k) = SubSeq(p, 1, Len(B(k))) /\ Len(B(k)) \in 0 .. Len(p) BY <1>1, BackFacts, Zenon
  <2> HIDE DEF B
  <2>2. SubSeq(SubSeq(b, 1, Len(p)), 1, Len(B(k))) = SubSeq(b, 1, Len(B(k))) BY <1>1, <2>1, TipShape
  <2>3. Len(B(k)) \in 0 .. Len(b) BY <1>0, <1>1, <2>1
  <2> QED BY <1>1, <2>1, <2>2, <2>3
<1>5. B(0) = p BY <1>1, BackFacts
<1>6. 0 \in Q
  <2>1. ASSUME NEW n \in Len(p) .. Len(b) PROVE Rule(SubSeq(b, 1, n)) = Rule(b)
    <3>1. n \in 0 .. Len(b) /\ Len(p) <= n /\ n < Len(p) + Period BY <1>0, <1>1
    <3> QED BY <1>1, <1>3, <3>1, RuleBetween
  <2> HIDE DEF B
  <2> QED BY <1>5, <2>1
<1>7. ASSUME NEW k \in 1 .. j, k - 1 \in Q PROVE k \in Q
  <2> DEFINE i == k - 1
             m == Len(B(k))
  <2>1. i \in Nat /\ i + 1 = k /\ k \in Nat /\ i \in Q /\ k \in 0 .. j BY <1>7
  <2>2. B(k) # NoBlock /\ Rule(B(k)) = Rule(b) BY <1>2
  <2> HIDE DEF i
  <2>3. B(i) # NoBlock BY <1>1, <2>1, <2>2, BackFacts, Zenon
  <2>4. B(k) = PreviousPeriodParent(B(i)) BY <1>1, <2>1, <2>3, BackFacts, Zenon
  <2>5. B(i) \in PeriodEnds /\ Len(B(i)) \in 0 .. Len(b) BY <1>4, <2>1
  <2>6. m = Len(B(i)) - Period BY <2>3, <2>4, <2>5, PreviousFacts
  <2>7. B(k) \in PeriodEnds /\ B(k) = SubSeq(b, 1, m) /\ m \in 0 .. Len(b) BY <1>4, <2>1
  <2> HIDE DEF B, m
  <2>8. ASSUME NEW n \in m .. Len(b) PROVE Rule(SubSeq(b, 1, n)) = Rule(b)
    <3>1. CASE n >= Len(B(i))
      <4>1. n \in Len(B(i)) .. Len(b) BY <1>0, <2>5, <2>7, <3>1
      <4> QED BY <2>1, <4>1
    <3>2. CASE ~(n >= Len(B(i)))
      <4>1. n \in 0 .. Len(b) /\ m <= n /\ n < m + Period BY <1>0, <2>5, <2>6, <2>7, <3>2
      <4>2. Len(B(k)) = m BY DEF m
      <4> QED BY <2>2, <2>7, <4>1, <4>2, RuleBetween, Zenon
    <3> QED BY <3>1, <3>2
  <2> QED BY <2>1, <2>8 DEF m
<1>8. j \in Q
  <2> HIDE DEF Q
  <2>1. \A k \in 0 .. j : k \in Q BY <1>6, <1>7, LoopInduct
  <2> QED BY <2>1
<1>9. Rule(B(j)) = Rule(b)
  <2>1. j = 0 \/ j \in 1 .. j OBVIOUS
  <2> QED BY <1>2, <1>3, <1>5, <2>1
<1> QED BY <1>4, <1>8, <1>9 DEF p

\* The block before the first period in the present state is in another.
LEMMA OtherState ==
  ASSUME History, Normal, NEW b \in Tips, NEW B \in PeriodEnds, B = SubSeq(b, 1, Len(B)), Len(B) \in 0 .. Len(b),
         B # NoBlock, PreviousPeriodParent(B) = NoBlock \/ Rule(PreviousPeriodParent(B)) # Rule(b),
         Rule(b) # "DEFINED"
  PROVE  Rule(SubSeq(b, 1, Len(B) - 1)) # Rule(b)
<1> DEFINE q == PreviousPeriodParent(B)
           n == Len(B) - 1
<1>0. Len(b) \in Nat /\ Period \in Nat \ {0} BY TipShape, VersionBitsAssumption
<1>1. q = SubSeq(B, 1, Len(B) - Period) /\ q \in PeriodEnds /\ Len(q) = Len(B) - Period /\ Len(q) \in 0 .. Len(B) - 1
  BY PreviousFacts
<1>2. Rule(q) # Rule(b) BY RuleDefined
<1> HIDE DEF q
<1>3. n \in 0 .. Len(b) /\ Len(q) <= n /\ n < Len(q) + Period /\ Len(q) \in 0 .. Len(B)
  <2> DEFINE k == Len(B)
             i == Len(q)
  <2>1. k \in 0 .. Len(b) /\ i = k - Period /\ i \in 0 .. k - 1 /\ n = k - 1 BY <1>1, Zenon
  <2> HIDE DEF k, i, n
  <2>2. n \in 0 .. Len(b) /\ i <= n /\ n < i + Period /\ i \in 0 .. k BY <1>0, <2>1
  <2> QED BY <2>2 DEF k, i
<1>4. SubSeq(SubSeq(b, 1, Len(B)), 1, Len(q)) = SubSeq(b, 1, Len(q)) BY <1>3, TipShape
<1>5. q = SubSeq(b, 1, Len(q)) BY <1>1, <1>4, Zenon
<1> HIDE DEF n
<1>6. Rule(SubSeq(b, 1, n)) = Rule(q) BY <1>1, <1>3, <1>5, RuleBetween, Zenon
<1> QED BY <1>2, <1>6 DEF n

\* The definition of "same" in SinceSound, for a chain that is in the state from length m on.
LEMMA SameBlocks ==
  ASSUME NEW b \in Blocks, NEW m \in 1 .. Len(b),
         \A n \in m .. Len(b) : Rule(SubSeq(b, 1, n)) = Rule(b), Rule(SubSeq(b, 1, m - 1)) # Rule(b)
  PROVE  LET same == {a \in Ancestors(b) : \A x \in Ancestors(b) : Height(x) >= Height(a) => Rule(Parent(x)) = Rule(b)}
         IN  /\ m = Len(b) => same = {}
             /\ m < Len(b) => same # {} /\ Height(Lowest(same)) = m
<1> DEFINE A(n) == SubSeq(b, 1, n)
           same == {a \in Ancestors(b) : \A x \in Ancestors(b) : Height(x) >= Height(a) => Rule(Parent(x)) = Rule(b)}
<1>0. Len(b) \in Nat /\ b \in Tips BY Numbers DEF Tips
<1>1. \A n \in 1 .. Len(b) : A(n) \in Blocks /\ Height(A(n)) = n - 1 /\ Parent(A(n)) = A(n - 1)
  <2>1. ASSUME NEW n \in 1 .. Len(b) PROVE A(n) \in Blocks /\ Height(A(n)) = n - 1 /\ Parent(A(n)) = A(n - 1)
    <3>1. n \in 0 .. Len(b) BY <1>0
    <3>2. A(n) \in Blocks /\ Parent(A(n)) = A(n - 1) /\ Len(A(n)) = n BY <1>0, <3>1, TipShape
    <3> QED BY <3>2 DEF Height
  <2> QED BY <2>1
<1>2. Ancestors(b) = {A(n) : n \in 1 .. Len(b)} BY DEF Ancestors
<1>3. (\A n \in m .. Len(b) : Rule(A(n)) = Rule(b)) /\ Rule(A(m - 1)) # Rule(b) OBVIOUS
<1> HIDE DEF A
<1>4. ASSUME NEW n \in 1 .. Len(b), A(n) \in same PROVE n \in m + 1 .. Len(b)
  <2>1. CASE n <= m
    <3>1. Height(A(m)) >= Height(A(n)) BY <1>0, <1>1, <2>1
    <3>2. Rule(Parent(A(m))) = Rule(b) BY <1>2, <1>4, <3>1
    <3> QED BY <1>1, <1>3, <3>2
  <2> QED BY <1>0, <2>1
<1>5. ASSUME NEW n \in m + 1 .. Len(b) PROVE A(n) \in same /\ n \in 1 .. Len(b)
  <2>0. n \in 1 .. Len(b) BY <1>0
  <2>1. ASSUME NEW k \in 1 .. Len(b), Height(A(k)) >= Height(A(n)) PROVE Rule(Parent(A(k))) = Rule(b)
    <3>1. k - 1 \in m .. Len(b) BY <1>0, <1>1, <2>0, <2>1
    <3> QED BY <1>1, <1>3, <3>1
  <2> QED BY <1>2, <2>0, <2>1
<1>6. ASSUME NEW a \in same PROVE \E n \in m + 1 .. Len(b) : a = A(n)
  <2>1. PICK n \in 1 .. Len(b) : a = A(n) BY <1>2
  <2> QED BY <1>4, <2>1
<1> HIDE DEF same
<1>7. m = Len(b) => same = {}
  <2>1. m = Len(b) => m + 1 .. Len(b) = {} BY <1>0
  <2> QED BY <1>6, <2>1
<1>8. ASSUME m < Len(b) PROVE same # {} /\ Height(Lowest(same)) = m
  <2>1. m + 1 \in m + 1 .. Len(b) BY <1>0, <1>8
  <2>2. A(m + 1) \in same /\ m + 1 \in 1 .. Len(b) BY <1>5, <2>1
  <2>3. Height(A(m + 1)) = m BY <1>1, <2>2
  <2>4. \A a \in same : a \in Blocks /\ \E n \in 1 .. Len(b) : a = A(n) /\ Height(a) = n - 1 /\ n >= m + 1
    <3>1. \A n \in m + 1 .. Len(b) : n \in 1 .. Len(b) /\ n >= m + 1 BY <1>0
    <3> QED BY <1>1, <1>6, <3>1
  <2>5. Ordered(same)
    <3>1. ASSUME NEW a \in same, NEW x \in same, Height(a) = Height(x) PROVE a = x
      <4>1. PICK n \in 1 .. Len(b) : a = A(n) /\ Height(a) = n - 1 BY <2>4
      <4>2. PICK k \in 1 .. Len(b) : x = A(k) /\ Height(x) = k - 1 BY <2>4
      <4>3. n = k BY <3>1, <4>1, <4>2
      <4> QED BY <4>1, <4>2, <4>3
    <3> QED BY <2>4, <3>1 DEF Ordered
  <2>6. \A x \in same : Height(A(m + 1)) <= Height(x)
    <3>1. ASSUME NEW x \in same PROVE m <= Height(x)
      <4>1. PICK n \in 1 .. Len(b) : Height(x) = n - 1 /\ n >= m + 1 BY <2>4
      <4> QED BY <4>1
    <3> QED BY <2>3, <3>1
  <2>7. A(m + 1) = Lowest(same) BY <2>2, <2>5, <2>6, LowestFacts
  <2> QED BY <2>2, <2>3, <2>7
<1> QED BY <1>7, <1>8 DEF same

\* The height that StateSinceHeight returns is the one from which on the state has been the
\* present one without interruption (GetStateSinceHeightFor).
THEOREM SinceAlwaysSound == Spec => []SinceSound
<1>1. Inv => SinceSound
  <2> SUFFICES ASSUME Inv, NEW b \in Blocks
               PROVE  LET since == GetStateSinceHeightFor(b, cache).since
                          InState(a) == Rule(Parent(a)) = Rule(b)
                          same == {a \in Ancestors(b) :
                                     \A x \in Ancestors(b) : Height(x) >= Height(a) => InState(x)}
                      IN  IF dep.start \in {ALWAYS_ACTIVE, NEVER_ACTIVE} \/ Rule(b) = "DEFINED" THEN since = 0
                          ELSE since = IF same = {} THEN Height(b) + 1 ELSE Height(Lowest(same))
    BY Zenon DEF SinceSound
  <2> DEFINE since == GetStateSinceHeightFor(b, cache).since
             same == {a \in Ancestors(b) :
                        \A x \in Ancestors(b) : Height(x) >= Height(a) => Rule(Parent(x)) = Rule(b)}
             first == GetStateFor(b, cache)
             p == PeriodParent(b)
             j == SamePeriods(p, first)
             B == Back(p, j)
             m == Len(B)
  <2>0. b \in Tips /\ Len(b) \in Nat /\ Height(b) + 1 = Len(b) /\ History /\ Sound(cache)
    BY Numbers DEF Inv, Tips
  <2>1. first \in Good /\ first.state = Rule(b) BY <2>0, Reply DEF Good
  <2>2. CASE ~Normal
    <3>1. since = 0 BY <2>2 DEF GetStateSinceHeightFor, Normal
    <3> QED BY <2>2, <3>1 DEF Normal
  <2>3. CASE Normal /\ Rule(b) = "DEFINED"
    <3>1. since = 0 BY <2>1, <2>3 DEF GetStateSinceHeightFor, Normal
    <3> QED BY <2>3, <3>1
  <2>4. CASE Normal /\ Rule(b) # "DEFINED"
    <3>1. GetStateSinceHeightFor(b, cache)
            = [since |-> Height(SinceWalk(p, first).block) + 1, cache |-> SinceWalk(p, first).cache]
      BY <2>1, <2>4 DEF GetStateSinceHeightFor, Normal
    <3>2. since = Height(SinceWalk(p, first).block) + 1 BY <3>1
    <3>3. p \in PeriodEnds BY <2>0, PeriodParentFacts
    <3> HIDE DEF first, since
    <3>4. /\ j \in Nat /\ SinceWalk(p, first).block = B
          /\ Back(p, j + 1) = NoBlock \/ Rule(Back(p, j + 1)) # Rule(b)
          /\ \A k \in 1 .. j : Back(p, k) # NoBlock /\ Rule(Back(p, k)) = Rule(b)
      <4> HIDE DEF p
      <4> QED BY <2>0, <2>1, <3>3, SinceWalkFacts
    <3> HIDE DEF j
    <3>5. /\ B \in PeriodEnds /\ B = SubSeq(b, 1, m) /\ m \in 0 .. Len(b) /\ Rule(B) = Rule(b)
          /\ \A n \in m .. Len(b) : Rule(SubSeq(b, 1, n)) = Rule(b)
      BY <2>0, <3>4, SameState
    <3>6. B # NoBlock
      <4>1. Rule(NoBlock) = "DEFINED" BY <2>0, <2>4, RuleDefined
      <4> HIDE DEF B
      <4> QED BY <2>4, <3>5, <4>1
    <3>7. Back(p, j + 1) = PreviousPeriodParent(B) BY <3>3, <3>4, <3>6, BackFacts
    <3> HIDE DEF p, B
    <3>8. Rule(SubSeq(b, 1, m - 1)) # Rule(b) BY <2>0, <2>4, <3>4, <3>5, <3>6, <3>7, OtherState
    <3>9. m \in 1 .. Len(b) /\ Height(B) + 1 = m
      <4>1. m # 0 BY <3>5, <3>6, TipShape DEF PeriodEnds
      <4>2. m \in Nat /\ Height(B) + 1 = m BY <2>0, <3>5 DEF Height
      <4> HIDE DEF m
      <4> QED BY <2>0, <3>5, <4>1, <4>2
    <3>10. since = m BY <3>2, <3>4, <3>9
    <3> HIDE DEF m
    <3>11. (m = Len(b) => same = {}) /\ (m < Len(b) => same # {} /\ Height(Lowest(same)) = m)
      BY <3>5, <3>8, <3>9, SameBlocks, Zenon
    <3>12. m = Len(b) \/ m < Len(b) BY <2>0, <3>9
    <3> HIDE DEF same
    <3>13. since = IF same = {} THEN Height(b) + 1 ELSE Height(Lowest(same)) BY <2>0, <3>10, <3>11, <3>12
    <3> QED BY <2>4, <3>13 DEF Normal, since, same
  <2> QED BY <2>2, <2>3, <2>4
<1> QED BY <1>1, Invariance, PTL

---------------------------------------------------------------------------
(* GetStateStatisticsFor. *)

\* The first blocks of a period, counted by Elapsed.
LEMMA ElapsedFacts ==
  ASSUME NEW P \in Nat \ {0}, NEW L \in Nat \ {0}, L % P = 0, NEW m \in 1 .. L,
         (L - 1) \div P = (m - 1) \div P
  PROVE  m - (1 + ((m - 1) % P)) = L - P /\ (m - 1) % P \in 0 .. P - 1
<1> DEFINE z == L \div P
           y == (m - 1) \div P
           r == (m - 1) % P
<1>1. L - 1 \in Nat /\ m - 1 \in Nat OBVIOUS
<1>2. z \in Int /\ L = P * z BY DivFacts
<1>3. y \in Int /\ r \in 0 .. P - 1 /\ m - 1 = P * y + r BY <1>1, DivFacts
<1>4. y = (L - 1) \div P OBVIOUS
<1> HIDE DEF z, y, r
<1>5. P * (z - 1) = P * z - P /\ P * z \in Int /\ P * y \in Int /\ z - 1 \in Int BY <1>2, <1>3
<1>6. L - 1 = P * (z - 1) + (P - 1) /\ P - 1 \in 0 .. P - 1 BY <1>2, <1>5
<1>7. z - 1 = y
  <2> DEFINE w == z - 1
             u == P - 1
             n == L - 1
  <2>1. w \in Int /\ u \in 0 .. P - 1 /\ n \in Nat /\ n = P * w + u BY <1>1, <1>5, <1>6
  <2>2. y = n \div P BY <1>4
  <2> HIDE DEF w, u, n
  <2>3. n \div P = w BY <2>1, DivUnique
  <2> QED BY <2>2, <2>3 DEF w
<1>8. P * y = L - P BY <1>2, <1>5, <1>7
<1>9. m - (1 + r) = L - P BY <1>3, <1>5, <1>8
<1> QED BY <1>3, <1>9 DEF r

\* The votes of a chain over a stretch are at most those of its first part and one for each
\* block of the rest.
LEMMA CountBound ==
  ASSUME NEW e \in Blocks, NEW m \in 1 .. Len(e), NEW s \in Int, s <= m
  PROVE  Count(e, Len(e) - s) <= Count(SubSeq(e, 1, m), m - s) + (Len(e) - m)
<1> DEFINE b == SubSeq(e, 1, m)
           U == {l \in s + 1 .. Len(e) : signal[SubSeq(e, 1, l)]}
           V == {l \in s + 1 .. m : signal[SubSeq(b, 1, l)]}
           R == m + 1 .. Len(e)
<1>0. Len(e) \in Nat /\ e \in Tips BY Numbers DEF Tips
<1>1. m \in 0 .. Len(e) /\ m \in Nat BY <1>0
<1>2. Len(b) = m BY <1>0, <1>1, TipShape
<1>3. \A l \in Int : l <= m => SubSeq(b, 1, l) = SubSeq(e, 1, l)
  <2>1. \A l \in 0 .. m : SubSeq(b, 1, l) = SubSeq(e, 1, l) BY <1>0, <1>1, TipShape
  <2>2. ASSUME NEW l \in Int, l < 0 PROVE SubSeq(b, 1, l) = <<>> /\ SubSeq(e, 1, l) = <<>>
    <3>1. 1 .. l = {} BY <2>2
    <3> QED BY <1>0, <1>1, <2>2, <3>1, TipShape
  <2> QED BY <1>1, <2>1, <2>2
<1> HIDE DEF b
<1>4. Count(e, Len(e) - s) = Cardinality(U)
  <2>1. Len(e) - (Len(e) - s) + 1 = s + 1 BY <1>0
  <2> QED BY <2>1 DEF Count
<1>5. Count(b, m - s) = Cardinality(V)
  <2>1. m - (m - s) + 1 = s + 1 BY <1>1
  <2> QED BY <1>2, <2>1 DEF Count
<1>6. U \subseteq V \cup R
  <2>1. ASSUME NEW l \in U, l \notin R PROVE l \in V
    <3>1. l \in Int /\ l >= s + 1 /\ l <= m BY <1>0, <1>1, <2>1
    <3>2. SubSeq(b, 1, l) = SubSeq(e, 1, l) BY <1>3, <3>1
    <3>3. l \in s + 1 .. m BY <1>1, <3>1
    <3>4. signal[SubSeq(e, 1, l)] OBVIOUS
    <3> QED BY <3>2, <3>3, <3>4, Zenon
  <2> QED BY <2>1
<1>7. IsFiniteSet(V) /\ Cardinality(V) \in Nat
  <2>1. s + 1 \in Int /\ m \in Int BY <1>1
  <2>2. IsFiniteSet(s + 1 .. m) BY <2>1, FS_Interval
  <2>3. V \subseteq s + 1 .. m OBVIOUS
  <2> HIDE DEF V
  <2>4. IsFiniteSet(V) BY <2>2, <2>3, FS_Subset, Zenon
  <2> QED BY <2>4, FS_CardinalityType
<1>8. IsFiniteSet(R) /\ Cardinality(R) = Len(e) - m
  <2>1. m + 1 \in Int /\ Len(e) \in Int BY <1>0, <1>1
  <2>2. IsFiniteSet(R) /\ Cardinality(R) = IF m + 1 > Len(e) THEN 0 ELSE Len(e) - (m + 1) + 1 BY <2>1, FS_Interval, Zenon
  <2> HIDE DEF R
  <2> QED BY <1>0, <1>1, <2>2
<1> HIDE DEF U, V, R
<1>9. IsFiniteSet(V \cup R) /\ Cardinality(V \cup R) <= Cardinality(V) + Cardinality(R)
  <2>1. IsFiniteSet(V \cup R)
        /\ Cardinality(V \cup R) = Cardinality(V) + Cardinality(R) - Cardinality(V \cap R)
    BY <1>7, <1>8, FS_Union
  <2>2. IsFiniteSet(V \cap R) BY <1>7, FS_Subset
  <2>3. Cardinality(V \cap R) \in Nat BY <2>2, FS_CardinalityType
  <2>4. Len(e) - m \in Nat BY <1>0, <1>1
  <2> QED BY <1>7, <1>8, <2>1, <2>3, <2>4
<1>10. IsFiniteSet(U) /\ Cardinality(U) <= Cardinality(V \cup R) BY <1>6, <1>9, FS_Subset
<1>11. Cardinality(U) \in Nat /\ Cardinality(V \cup R) \in Nat BY <1>9, <1>10, FS_CardinalityType
<1>12. Cardinality(U) <= Cardinality(V) + (Len(e) - m) BY <1>0, <1>1, <1>7, <1>8, <1>9, <1>10, <1>11
<1> QED BY <1>4, <1>5, <1>12 DEF b

\* Too few votes are left once the statistics say so.
LEMMA OutOfReach ==
  ASSUME NEW e \in Blocks, NEW m \in 1 .. Len(e), Len(e) % Period = 0,
         (Len(e) - 1) \div Period = (m - 1) \div Period, ~Possible(SubSeq(e, 1, m))
  PROVE  Count(e, Period) < Threshold
<1> DEFINE b == SubSeq(e, 1, m)
           el == Elapsed(b)
           s == Len(e) - Period
<1>0. Len(e) \in Nat /\ e \in Tips /\ Period \in Nat \ {0} /\ Threshold \in Nat
  BY Numbers, VersionBitsAssumption DEF Tips
<1>1. m \in 0 .. Len(e) /\ Len(e) \in Nat \ {0} BY <1>0
<1>2. b \in Blocks /\ Len(b) = m BY <1>0, <1>1, TipShape
<1>3. el = 1 + ((m - 1) % Period) BY <1>2 DEF Elapsed, Height
<1>4. m - (1 + ((m - 1) % Period)) = s /\ (m - 1) % Period \in 0 .. Period - 1 BY <1>0, <1>1, ElapsedFacts, Zenon
<1>5. m - el = s /\ el \in Nat BY <1>0, <1>3, <1>4
<1>6. s \in Int /\ s <= m /\ Len(e) - s = Period BY <1>0, <1>5
<1> HIDE DEF el, b
<1>7. m - s = el BY <1>0, <1>5
<1> HIDE DEF s
<1>8. Count(e, Len(e) - s) <= Count(b, m - s) + (Len(e) - m) BY <1>6, CountBound DEF b
<1>9. Count(e, Period) <= Count(b, el) + (Len(e) - m) BY <1>6, <1>7, <1>8
<1>10. Count(e, Period) \in Nat /\ Count(b, el) \in Nat BY <1>0, <1>2, <1>5, Numbers, Zenon
<1>11. ~(Period - Threshold >= el - Count(b, el)) BY DEF Possible, b, el
<1>12. Len(e) - m = Period - el BY <1>0, <1>5, <1>6
<1>13. Count(e, Period) <= Count(b, el) + (Period - el) BY <1>9, <1>12, Zenon
<1>14. \A a, c \in Nat, k \in Nat, T \in Nat, P \in Nat : a <= c + (P - k) /\ ~(P - T >= k - c) => a < T OBVIOUS
<1> QED BY <1>0, <1>5, <1>10, <1>11, <1>13, <1>14, Zenon

\* When GetStateStatisticsFor says that the threshold is out of reach, the period ends without
\* a lock-in on every continuation of the chain.
THEOREM PossibleAlwaysHonest == Spec => []PossibleHonest
<1>1. Inv => PossibleHonest
  <2> SUFFICES ASSUME Inv, NEW e \in Blocks, NEW b \in Ancestors(e),
                      (Height(e) + 1) % Period = 0, Height(e) \div Period = Height(b) \div Period,
                      ~Possible(b), Rule(PreviousPeriodParent(e)) = "STARTED"
               PROVE  Rule(e) # "LOCKED_IN"
    BY DEF PossibleHonest
  <2>0. e \in Tips /\ Len(e) \in Nat /\ Height(e) + 1 = Len(e) /\ Height(e) = Len(e) - 1 /\ History
    BY Numbers DEF Tips, Inv, Height
  <2>1. Normal
    <3>1. dep.start = ALWAYS_ACTIVE => Rule(PreviousPeriodParent(e)) = "ACTIVE" BY RuleIs
    <3>2. dep.start = NEVER_ACTIVE /\ dep.start # ALWAYS_ACTIVE => Rule(PreviousPeriodParent(e)) = "FAILED" BY RuleIs
    <3> QED BY <3>1, <3>2 DEF Normal
  <2>2. PICK m \in 1 .. Len(e) : b = SubSeq(e, 1, m) BY DEF Ancestors
  <2>3. Height(b) = m - 1
    <3>1. m \in 0 .. Len(e) BY <2>0
    <3>2. Len(b) = m BY <2>0, <2>2, <3>1, TipShape
    <3> QED BY <3>2 DEF Height
  <2>4. Len(e) % Period = 0 /\ (Len(e) - 1) \div Period = (m - 1) \div Period BY <2>0, <2>3
  <2>5. Count(e, Period) < Threshold BY <2>2, <2>4, OutOfReach
  <2>6. e \in PeriodEnds /\ e # NoBlock BY <2>0, <2>4, VersionBitsAssumption DEF PeriodEnds
  <2>7. Rule(e) = NextState("STARTED", e) BY <2>0, <2>1, <2>6, RuleStep
  <2>8. ~(Count(e, Period) >= Threshold)
    <3>1. Count(e, Period) \in Nat /\ Threshold \in Nat BY Numbers, VersionBitsAssumption
    <3> QED BY <2>5, <3>1
  <2>9. NextState("STARTED", e) # "LOCKED_IN" BY <2>8 DEF NextState
  <2> QED BY <2>7, <2>9
<1> QED BY <1>1, Invariance, PTL
===========================================================================
