------------------------- MODULE CoinsCacheProofs -------------------------
(***************************************************************************)
(* For any sets of outpoints, coins and blocks: the DIRTY and FRESH flags  *)
(* of the coin caches are sound, no std::logic_error is thrown, and the    *)
(* caches implement the store without caches (CoinsStore).                 *)
(*                                                                         *)
(* The argument is local to one outpoint.  EntryOK(e, d) says that entry e *)
(* is sound above the coin d of the level below; the inductive invariant   *)
(* asserts it for every entry of CoinsTip() above the disk and of the view *)
(* above CoinsTip().                                                       *)
(***************************************************************************)
EXTENDS CoinsCache, FiniteSetTheorems, WellFoundedInduction, TLAPS

CoinOrSpent == Coins \cup {Spent}
CoinAbove(e, d) == IF e = NoEntry THEN d ELSE e.coin

EntryOK(e, d) ==
  e # NoEntry =>
    /\ IsFresh(e) => d = Spent
    /\ ~IsDirty(e) => e.coin = d /\ d # Spent /\ ~IsFresh(e)
    /\ e.coin = Spent => ~IsFresh(e)

EntriesOK ==
  \A o \in Outpoints : EntryOK(tip[o], db[o]) /\ EntryOK(view[o], TipCoin(o))

IndInv ==
  /\ TypeOK
  /\ EntriesOK
  /\ NoLogicError
  /\ ViewScope

LEMMA EntriesOKSound == EntriesOK => FreshSound /\ CleanSound /\ SpentNotFresh
BY DEF EntriesOK, EntryOK, IsDirty, IsFresh, FreshSound, CleanSound, SpentNotFresh

LEMMA NoEntryIsNoEntry == NoEntry \notin Entries
BY CoinsAssumption DEF Entries

---------------------------------------------------------------------------
(* The operators, one outpoint at a time. *)

\* FetchCoin changes at most the entry looked up, what the cache answers stays the
\* same, and a sound entry stays sound.
LEMMA FetchCoinLemma ==
  ASSUME NEW m \in Caches, NEW o \in Outpoints, NEW v \in CoinOrSpent,
         EntryOK(m[o], v)
  PROVE  LET f == FetchCoin(m, o, v) IN
         /\ f \in Caches
         /\ \A p \in Outpoints : p # o => f[p] = m[p]
         /\ CoinAbove(f[o], v) = CoinAbove(m[o], v)
         /\ EntryOK(f[o], v)
         /\ f[o] = NoEntry => CoinAbove(m[o], v) = Spent
<1>1. CASE m[o] # NoEntry \/ v = Spent
  <2>1. FetchCoin(m, o, v) = m
    BY <1>1 DEF FetchCoin
  <2> QED
    BY <1>1, <2>1 DEF CoinAbove
<1>2. CASE m[o] = NoEntry /\ v # Spent
  <2> DEFINE n == [coin |-> v, flags |-> {}]
  <2>1. n \in Entries /\ n # NoEntry
    BY NoEntryIsNoEntry DEF Entries, CoinOrSpent
  <2>2. FetchCoin(m, o, v) = [m EXCEPT ![o] = n]
    BY <1>2 DEF FetchCoin
  <2>3. EntryOK(n, v)
    BY <1>2 DEF EntryOK, IsDirty, IsFresh
  <2> HIDE DEF n
  <2> QED
    BY <1>2, <2>1, <2>2, <2>3 DEF CoinAbove, Caches, n
<1> QED
  BY <1>1, <1>2

\* BatchWrite merges a sound child entry into a sound parent entry: the parent
\* answers what the child answered, and stays sound above the level below it.
LEMMA BatchWriteLemma ==
  ASSUME NEW e \in Entries \cup {NoEntry}, NEW ours \in Entries \cup {NoEntry},
         NEW d \in CoinOrSpent,
         EntryOK(ours, d), EntryOK(e, CoinAbove(ours, d))
  PROVE  LET n == BatchWriteEntry(e, ours) IN
         /\ n \in Entries \cup {NoEntry}
         /\ CoinAbove(n, d) = CoinAbove(e, CoinAbove(ours, d))
         /\ EntryOK(n, d)
         /\ ~FreshMisapplied(e, ours)
BY CoinsAssumption, NoEntryIsNoEntry
   DEF BatchWriteEntry, MergeEntry, IsDirty, IsFresh, DIRTY, FRESH, FreshMisapplied, CoinAbove, Entries, EntryOK, CoinOrSpent

\* Writing a sound entry to disk writes what the cache answered.
LEMMA DbWriteLemma ==
  ASSUME NEW e \in Entries \cup {NoEntry}, NEW d \in CoinOrSpent, EntryOK(e, d)
  PROVE  DbWrite(e, d) = CoinAbove(e, d) /\ DbWrite(e, d) \in CoinOrSpent
BY NoEntryIsNoEntry DEF DbWrite, IsDirty, IsFresh, CoinAbove, EntryOK, Entries, CoinOrSpent

\* AddCoin, called as its callers do (possible_overwrite, or no unspent coin there),
\* does not throw, replaces one entry by a sound one, and leaves the others alone.
LEMMA AddCoinLemma ==
  ASSUME NEW m \in Caches, NEW u, NEW o \in Outpoints, NEW d \in CoinOrSpent,
         NEW c \in Coins, NEW po \in BOOLEAN,
         EntryOK(m[o], d), po \/ CoinAbove(m[o], d) = Spent,
         AddCoin(m, u, o, c, po)
  PROVE  /\ view' \in Caches
         /\ \A p \in Outpoints : p # o => view'[p] = m[p]
         /\ EntryOK(view'[o], d)
         /\ c \in Unspendable => view' = m
         /\ c \notin Unspendable => view'[o] # NoEntry /\ view'[o].coin = c
         /\ UNCHANGED logicError
<1>1. CASE c \in Unspendable
  BY <1>1 DEF AddCoin
<1>2. CASE c \notin Unspendable
  <2> DEFINE old == OldEntry(m, o)
             new == [coin |-> c, flags |-> old.flags \cup {DIRTY} \cup FreshFlag(old, po)]
  <2>1. old \in Entries /\ (m[o] # NoEntry => old = m[o])
        /\ (m[o] = NoEntry => old.coin = Spent /\ old.flags = {})
    BY DEF OldEntry, Caches, Entries
  <2>2. ~(~po /\ old.coin # Spent)
    BY <2>1 DEF CoinAbove
  <2>3. view' = [m EXCEPT ![o] = new] /\ UNCHANGED logicError
    BY <1>2, <2>2 DEF AddCoin
  <2>4. new \in Entries /\ new.coin = c /\ IsDirty(new)
    BY <2>1 DEF Entries, IsDirty, DIRTY, FRESH, FreshFlag
  <2>5. EntryOK(new, d)
    <3>1. IsFresh(new) => IsFresh(old) \/ (~po /\ ~IsDirty(old))
      BY <2>1 DEF IsFresh, IsDirty, DIRTY, FRESH, FreshFlag
    <3>2. IsFresh(old) => d = Spent
      BY <2>1 DEF EntryOK, IsFresh
    <3>3. ~po /\ ~IsDirty(old) => d = Spent
      BY <2>1 DEF EntryOK, CoinAbove
    <3> HIDE DEF new, old
    <3> QED
      BY <2>4, <3>1, <3>2, <3>3, CoinsAssumption DEF EntryOK
  <2> HIDE DEF new
  <2> QED
    BY <1>2, <2>3, <2>4, <2>5, NoEntryIsNoEntry DEF Caches
<1> QED
  BY <1>1, <1>2

---------------------------------------------------------------------------
(* The states: what a lookup through the stack does to CoinsTip(). *)

LEMMA LevelsTyped ==
  ASSUME TypeOK
  PROVE  \A o \in Outpoints :
           /\ db[o] \in CoinOrSpent
           /\ tip[o] \in Entries \cup {NoEntry} /\ view[o] \in Entries \cup {NoEntry}
           /\ TipCoin(o) = CoinAbove(tip[o], db[o]) /\ TipCoin(o) \in CoinOrSpent
           /\ ViewCoin(o) = CoinAbove(view[o], TipCoin(o)) /\ ViewCoin(o) \in CoinOrSpent
BY DEF TypeOK, Caches, Entries, CoinOrSpent, TipCoin, ViewCoin, CoinIn, CoinAbove

LEMMA FetchInTipLemma ==
  ASSUME TypeOK, EntriesOK, NEW o \in Outpoints, FetchInTip(o), UNCHANGED db
  PROVE  /\ tip' \in Caches
         /\ UNCHANGED tipBest
         /\ \A p \in Outpoints : EntryOK(tip'[p], db[p]) /\ TipCoin(p)' = TipCoin(p)
<1> DEFINE f == FetchCoin(tip, o, db[o])
<1>1. EntryOK(tip[o], db[o]) /\ tip \in Caches /\ db[o] \in CoinOrSpent
  BY LevelsTyped DEF EntriesOK, TypeOK
<1>2. /\ f \in Caches
      /\ \A p \in Outpoints : p # o => f[p] = tip[p]
      /\ CoinAbove(f[o], db[o]) = CoinAbove(tip[o], db[o])
      /\ EntryOK(f[o], db[o])
  BY <1>1, FetchCoinLemma
<1>3. tip' = f \/ tip' = tip
  BY DEF FetchInTip
<1>4. UNCHANGED tipBest
  BY DEF FetchInTip
<1>5. \A p \in Outpoints : TipCoin(p) = CoinAbove(tip[p], db[p])
  BY DEF TipCoin, CoinIn, CoinAbove
<1>6. \A p \in Outpoints : TipCoin(p)' = CoinAbove(tip'[p], db[p])
  BY DEF TipCoin, CoinIn, CoinAbove
<1> HIDE DEF f
<1> QED
  BY <1>1, <1>2, <1>3, <1>4, <1>5, <1>6 DEF EntriesOK

---------------------------------------------------------------------------
(* One lemma per action: it preserves the invariant, and what it does to the *)
(* coins the two caches answer.                                              *)

LEMMA OpenViewStep ==
  ASSUME IndInv, OpenView
  PROVE  IndInv' /\ \A p \in Outpoints : TipCoin(p)' = TipCoin(p) /\ ViewCoin(p)' = TipCoin(p)
<1>1. TypeOK'
  BY DEF IndInv, TypeOK, OpenView, EmptyCache, Caches, TipBestBlock
<1>2. \A p \in Outpoints : TipCoin(p)' = TipCoin(p) /\ ViewCoin(p)' = TipCoin(p)
  BY DEF OpenView, EmptyCache, TipCoin, ViewCoin, CoinIn
<1>3. EntriesOK'
  BY <1>2 DEF IndInv, EntriesOK, OpenView, EmptyCache, EntryOK
<1>4. NoLogicError' /\ ViewScope'
  BY CoinsAssumption DEF IndInv, TypeOK, OpenView, TipBestBlock, NoLogicError, ViewScope
<1> QED
  BY <1>1, <1>2, <1>3, <1>4 DEF IndInv

\* The part of ViewGetCoin, AddCoinsChecked and SpendCoin that is common: the view
\* after its FetchCoin.
LEMMA FetchInViewLemma ==
  ASSUME IndInv, NEW o \in Outpoints
  PROVE  LET f == FetchCoin(view, o, TipCoin(o)) IN
         /\ f \in Caches
         /\ \A p \in Outpoints : p # o => f[p] = view[p]
         /\ CoinAbove(f[o], TipCoin(o)) = ViewCoin(o)
         /\ EntryOK(f[o], TipCoin(o))
         /\ f[o] = NoEntry => ViewCoin(o) = Spent
<1>1. EntryOK(view[o], TipCoin(o)) /\ view \in Caches /\ TipCoin(o) \in CoinOrSpent
  BY LevelsTyped DEF IndInv, EntriesOK, TypeOK
<1>2. ViewCoin(o) = CoinAbove(view[o], TipCoin(o))
  BY DEF ViewCoin, CoinIn, CoinAbove
<1> QED
  BY <1>1, <1>2, FetchCoinLemma

\* A step of the view that changes one of its entries only, after a lookup.
LEMMA ViewStep ==
  ASSUME IndInv, NEW o \in Outpoints, NEW c \in CoinOrSpent,
         FetchInTip(o) \/ UNCHANGED tipVars,
         view' \in Caches,
         \A p \in Outpoints : p # o => view'[p] = view[p],
         EntryOK(view'[o], TipCoin(o)),
         CoinAbove(view'[o], TipCoin(o)) = c,
         open, UNCHANGED <<db, dbBest, viewBest, open, logicError>>
  PROVE  /\ IndInv'
         /\ tipBest' = tipBest
         /\ \A p \in Outpoints :
              TipCoin(p)' = TipCoin(p) /\ ViewCoin(p)' = IF p = o THEN c ELSE ViewCoin(p)
<1>1. /\ tip' \in Caches
      /\ UNCHANGED tipBest
      /\ \A p \in Outpoints : EntryOK(tip'[p], db[p]) /\ TipCoin(p)' = TipCoin(p)
  <2>1. CASE FetchInTip(o)
    BY <2>1, FetchInTipLemma DEF IndInv
  <2>2. CASE UNCHANGED tipVars
    BY <2>2 DEF IndInv, TypeOK, EntriesOK, tipVars, TipCoin, CoinIn
  <2> QED
    BY <2>1, <2>2
<1>2. TypeOK'
  BY <1>1 DEF IndInv, TypeOK
<1>3. EntriesOK'
  BY <1>1 DEF IndInv, EntriesOK
<1>4. NoLogicError' /\ ViewScope'
  BY DEF IndInv, NoLogicError, ViewScope
<1>5. \A p \in Outpoints : ViewCoin(p) = CoinAbove(view[p], TipCoin(p))
  BY DEF ViewCoin, CoinIn, CoinAbove
<1>6. \A p \in Outpoints : ViewCoin(p)' = CoinAbove(view'[p], TipCoin(p)')
  BY DEF ViewCoin, CoinIn, CoinAbove
<1>7. \A p \in Outpoints : ViewCoin(p)' = IF p = o THEN c ELSE ViewCoin(p)
  BY <1>1, <1>5, <1>6
<1> QED
  BY <1>1, <1>2, <1>3, <1>4, <1>7 DEF IndInv

LEMMA ViewGetCoinStep ==
  ASSUME IndInv, NEW o \in Outpoints, ViewGetCoin(o)
  PROVE  /\ IndInv' /\ tipBest' = tipBest
         /\ \A p \in Outpoints : TipCoin(p)' = TipCoin(p) /\ ViewCoin(p)' = ViewCoin(p)
<1>1. ViewCoin(o) \in CoinOrSpent
  BY LevelsTyped DEF IndInv
<1>2. /\ FetchInTip(o) /\ open /\ view' = FetchCoin(view, o, TipCoin(o))
      /\ UNCHANGED <<db, dbBest, viewBest, open, logicError>>
  BY DEF ViewGetCoin
<1>3. /\ view' \in Caches
      /\ \A p \in Outpoints : p # o => view'[p] = view[p]
      /\ EntryOK(view'[o], TipCoin(o))
      /\ CoinAbove(view'[o], TipCoin(o)) = ViewCoin(o)
  BY <1>2, FetchInViewLemma
<1>4. /\ IndInv' /\ tipBest' = tipBest
      /\ \A p \in Outpoints :
           TipCoin(p)' = TipCoin(p) /\ ViewCoin(p)' = IF p = o THEN ViewCoin(o) ELSE ViewCoin(p)
  BY <1>1, <1>2, <1>3, ViewStep
<1> QED
  BY <1>4

\* An unspendable output is not added; any other replaces what was there.
Added(o, c) == IF c \in Unspendable THEN ViewCoin(o) ELSE c

LEMMA AddCoinsStep ==
  ASSUME IndInv, NEW o \in Outpoints, NEW c \in Coins, NEW cb \in BOOLEAN, AddCoins(o, c, cb)
  PROVE  /\ IndInv' /\ tipBest' = tipBest
         /\ \A p \in Outpoints :
              TipCoin(p)' = TipCoin(p) /\ ViewCoin(p)' = IF p = o THEN Added(o, c) ELSE ViewCoin(p)
<1>1. Added(o, c) \in CoinOrSpent
  BY LevelsTyped DEF IndInv, Added, CoinOrSpent
<1>2. /\ UNCHANGED tipVars /\ open /\ AddCoin(view, viewUsage, o, c, cb)
      /\ cb \/ ViewCoin(o) = Spent
      /\ UNCHANGED <<db, dbBest, viewBest, open>>
  BY DEF AddCoins
<1>3. /\ view \in Caches /\ TipCoin(o) \in CoinOrSpent /\ EntryOK(view[o], TipCoin(o))
      /\ ViewCoin(o) = CoinAbove(view[o], TipCoin(o))
  BY LevelsTyped DEF IndInv, TypeOK, EntriesOK
<1>4. /\ view' \in Caches
      /\ \A p \in Outpoints : p # o => view'[p] = view[p]
      /\ EntryOK(view'[o], TipCoin(o))
      /\ c \in Unspendable => view' = view
      /\ c \notin Unspendable => view'[o] # NoEntry /\ view'[o].coin = c
      /\ UNCHANGED logicError
  BY <1>2, <1>3, AddCoinLemma
<1>5. CoinAbove(view'[o], TipCoin(o)) = Added(o, c)
  BY <1>3, <1>4 DEF Added, CoinAbove
<1> QED
  BY <1>1, <1>2, <1>4, <1>5, ViewStep

LEMMA AddCoinsCheckedStep ==
  ASSUME IndInv, NEW o \in Outpoints, NEW c \in Coins, AddCoinsChecked(o, c)
  PROVE  /\ IndInv' /\ tipBest' = tipBest
         /\ \A p \in Outpoints :
              TipCoin(p)' = TipCoin(p) /\ ViewCoin(p)' = IF p = o THEN Added(o, c) ELSE ViewCoin(p)
<1> DEFINE f == FetchCoin(view, o, TipCoin(o))
           u == viewUsage + FetchUsage(view, o, TipCoin(o))
           po == ViewCoin(o) # Spent
<1>1. Added(o, c) \in CoinOrSpent /\ TipCoin(o) \in CoinOrSpent /\ po \in BOOLEAN
  BY LevelsTyped DEF IndInv, Added, CoinOrSpent
<1>2. /\ FetchInTip(o) /\ open /\ AddCoin(f, u, o, c, po)
      /\ UNCHANGED <<db, dbBest, viewBest, open>>
  BY DEF AddCoinsChecked
<1>3. /\ f \in Caches /\ EntryOK(f[o], TipCoin(o))
      /\ \A p \in Outpoints : p # o => f[p] = view[p]
      /\ CoinAbove(f[o], TipCoin(o)) = ViewCoin(o)
  BY FetchInViewLemma
<1>4. po \/ CoinAbove(f[o], TipCoin(o)) = Spent
  BY <1>3
<1> HIDE DEF f, u, po
<1>5. /\ view' \in Caches
      /\ \A p \in Outpoints : p # o => view'[p] = f[p]
      /\ EntryOK(view'[o], TipCoin(o))
      /\ c \in Unspendable => view' = f
      /\ c \notin Unspendable => view'[o] # NoEntry /\ view'[o].coin = c
      /\ UNCHANGED logicError
  BY <1>1, <1>2, <1>3, <1>4, AddCoinLemma
<1>6. CoinAbove(view'[o], TipCoin(o)) = Added(o, c)
  BY <1>3, <1>5 DEF Added, CoinAbove
<1> QED
  BY <1>1, <1>2, <1>3, <1>5, <1>6, ViewStep

LEMMA SpendCoinStep ==
  ASSUME IndInv, NEW o \in Outpoints, SpendCoin(o)
  PROVE  /\ IndInv' /\ tipBest' = tipBest
         /\ \A p \in Outpoints :
              TipCoin(p)' = TipCoin(p) /\ ViewCoin(p)' = IF p = o THEN Spent ELSE ViewCoin(p)
<1> DEFINE f == FetchCoin(view, o, TipCoin(o))
           n == IF f[o] = NoEntry \/ (f[o] # NoEntry /\ IsFresh(f[o])) THEN NoEntry
                ELSE [coin |-> Spent, flags |-> {DIRTY}]
<1>1. /\ f \in Caches /\ EntryOK(f[o], TipCoin(o))
      /\ \A p \in Outpoints : p # o => f[p] = view[p]
      /\ f[o] = NoEntry => ViewCoin(o) = Spent
      /\ CoinAbove(f[o], TipCoin(o)) = ViewCoin(o)
  BY FetchInViewLemma
<1>2. /\ FetchInTip(o) /\ open
      /\ view' = [f EXCEPT ![o] = n]
      /\ UNCHANGED <<db, dbBest, viewBest, open, logicError>>
  BY <1>1, Zenon DEF SpendCoin, Caches
<1>3. n \in Entries \cup {NoEntry} /\ EntryOK(n, TipCoin(o)) /\ CoinAbove(n, TipCoin(o)) = Spent
  <2> HIDE DEF f
  <2>1. CASE n = NoEntry
    <3>1. f[o] = NoEntry \/ IsFresh(f[o])
      BY <2>1, NoEntryIsNoEntry DEF Entries, DIRTY, FRESH
    <3>2. TipCoin(o) = Spent
      BY <1>1, <3>1 DEF EntryOK, CoinAbove
    <3> QED BY <2>1, <3>2 DEF EntryOK, CoinAbove
  <2>2. CASE n = [coin |-> Spent, flags |-> {DIRTY}]
    <3> HIDE DEF n
    <3>1. n \in Entries /\ n.coin = Spent /\ IsDirty(n) /\ ~IsFresh(n)
      BY <2>2 DEF Entries, IsDirty, IsFresh, DIRTY, FRESH
    <3> QED BY <3>1, NoEntryIsNoEntry DEF EntryOK, CoinAbove
  <2> QED BY <2>1, <2>2
<1> HIDE DEF f, n
<1>4. /\ view' \in Caches
      /\ \A p \in Outpoints : p # o => view'[p] = view[p]
      /\ view'[o] = n
  BY <1>1, <1>2, <1>3 DEF Caches
<1>5. Spent \in CoinOrSpent
  BY DEF CoinOrSpent
<1> QED
  BY <1>2, <1>3, <1>4, <1>5, ViewStep, Zenon

LEMMA SetBestBlockStep ==
  ASSUME IndInv, NEW b \in Blocks, SetBestBlock(b)
  PROVE  /\ IndInv' /\ tipBest' = tipBest
         /\ \A p \in Outpoints : TipCoin(p)' = TipCoin(p) /\ ViewCoin(p)' = ViewCoin(p)
BY CoinsAssumption
   DEF IndInv, TypeOK, EntriesOK, NoLogicError, ViewScope, SetBestBlock, tipVars,
       TipCoin, ViewCoin, CoinIn

\* view.Flush() does not throw, CoinsTip() answers what the view answered.
LEMMA FlushViewStep ==
  ASSUME IndInv, FlushView
  PROVE  /\ IndInv' /\ tipBest' = viewBest /\ viewBest' = NullBlock /\ ~open'
         /\ \A p \in Outpoints : TipCoin(p)' = ViewCoin(p) /\ ViewCoin(p)' = ViewCoin(p)
<1>1. \A p \in Outpoints :
        LET n == BatchWriteEntry(view[p], tip[p]) IN
        /\ n \in Entries \cup {NoEntry}
        /\ CoinAbove(n, db[p]) = ViewCoin(p)
        /\ EntryOK(n, db[p])
        /\ ~FreshMisapplied(view[p], tip[p])
  <2> SUFFICES ASSUME NEW p \in Outpoints
               PROVE  LET n == BatchWriteEntry(view[p], tip[p]) IN
                      /\ n \in Entries \cup {NoEntry}
                      /\ CoinAbove(n, db[p]) = ViewCoin(p)
                      /\ EntryOK(n, db[p])
                      /\ ~FreshMisapplied(view[p], tip[p])
    OBVIOUS
  <2>1. /\ db[p] \in CoinOrSpent
        /\ tip[p] \in Entries \cup {NoEntry} /\ view[p] \in Entries \cup {NoEntry}
        /\ TipCoin(p) = CoinAbove(tip[p], db[p])
        /\ ViewCoin(p) = CoinAbove(view[p], TipCoin(p))
    BY LevelsTyped DEF IndInv
  <2>2. EntryOK(tip[p], db[p]) /\ EntryOK(view[p], CoinAbove(tip[p], db[p]))
    BY <2>1 DEF IndInv, EntriesOK
  <2> QED
    BY <2>1, <2>2, BatchWriteLemma, SMTT(30)
<1>2. /\ tip' = [o \in Outpoints |-> BatchWriteEntry(view[o], tip[o])]
      /\ tipBest' = viewBest /\ view' = EmptyCache /\ viewBest' = NullBlock
      /\ open' = FALSE /\ UNCHANGED <<db, dbBest, logicError>>
  BY <1>1 DEF FlushView
<1>3. tip' \in Caches
  BY <1>1, <1>2 DEF Caches
<1>4. TypeOK'
  BY <1>2, <1>3, Zenon DEF IndInv, TypeOK, Caches, EmptyCache
<1>5. \A p \in Outpoints : TipCoin(p)' = CoinAbove(tip'[p], db[p]) /\ ViewCoin(p)' = TipCoin(p)'
  BY <1>2 DEF TipCoin, ViewCoin, CoinIn, CoinAbove, EmptyCache
<1>6. \A p \in Outpoints : TipCoin(p)' = ViewCoin(p) /\ EntryOK(tip'[p], db[p])
  BY <1>1, <1>2, <1>5
<1>7. EntriesOK'
  BY <1>2, <1>6 DEF EntriesOK, EmptyCache, EntryOK
<1>8. NoLogicError' /\ ViewScope'
  BY <1>2 DEF IndInv, NoLogicError, ViewScope
<1> QED
  BY <1>2, <1>4, <1>5, <1>6, <1>7, <1>8 DEF IndInv

LEMMA DropViewStep ==
  ASSUME IndInv, DropView
  PROVE  /\ IndInv' /\ tipBest' = tipBest
         /\ \A p \in Outpoints : TipCoin(p)' = TipCoin(p) /\ ViewCoin(p)' = TipCoin(p)
<1>1. TypeOK' /\ NoLogicError' /\ ViewScope'
  BY Zenon DEF IndInv, TypeOK, NoLogicError, ViewScope, DropView, tipVars, EmptyCache, Caches
<1>2. \A p \in Outpoints : TipCoin(p)' = TipCoin(p) /\ ViewCoin(p)' = TipCoin(p)
  BY DEF DropView, tipVars, EmptyCache, TipCoin, ViewCoin, CoinIn
<1>3. EntriesOK'
  BY <1>2 DEF IndInv, EntriesOK, DropView, tipVars, EmptyCache, EntryOK
<1> QED
  BY <1>1, <1>2, <1>3 DEF IndInv, DropView, tipVars

\* A step that only CoinsTip() takes, while there is no view, and that leaves its
\* answers alone.
LEMMA TipStep ==
  ASSUME IndInv, ~open, tip' \in Caches,
         \A p \in Outpoints :
           EntryOK(tip'[p], db'[p]) /\ CoinAbove(tip'[p], db'[p]) = TipCoin(p),
         db' \in [Outpoints -> CoinOrSpent], dbBest' \in Blocks, tipBest' \in Blocks \cup {NullBlock},
         UNCHANGED <<viewVars, logicError>>
  PROVE  IndInv' /\ \A p \in Outpoints : TipCoin(p)' = TipCoin(p) /\ ViewCoin(p)' = ViewCoin(p)
<1>1. \A p \in Outpoints : TipCoin(p)' = CoinAbove(tip'[p], db'[p])
  BY DEF TipCoin, CoinIn, CoinAbove
<1>2. \A p \in Outpoints : view[p] = NoEntry /\ view'[p] = NoEntry
  BY DEF IndInv, ViewScope, EmptyCache, viewVars
<1>3. \A p \in Outpoints : TipCoin(p)' = TipCoin(p) /\ ViewCoin(p)' = ViewCoin(p)
  BY <1>1, <1>2 DEF ViewCoin, CoinIn
<1>4. TypeOK' /\ NoLogicError' /\ ViewScope'
  BY DEF IndInv, TypeOK, NoLogicError, ViewScope, viewVars, CoinOrSpent
<1>5. EntriesOK'
  BY <1>2 DEF EntriesOK, EntryOK
<1> QED
  BY <1>3, <1>4, <1>5 DEF IndInv

LEMMA TipGetCoinStep ==
  ASSUME IndInv, NEW o \in Outpoints, TipGetCoin(o)
  PROVE  IndInv' /\ \A p \in Outpoints : TipCoin(p)' = TipCoin(p) /\ ViewCoin(p)' = ViewCoin(p)
<1>1. \A p \in Outpoints : EntryOK(tip[p], db[p]) /\ TipCoin(p) = CoinAbove(tip[p], db[p])
                          /\ db[p] \in CoinOrSpent
  BY LevelsTyped DEF IndInv, EntriesOK
<1>2. /\ tip' \in Caches
      /\ \A p \in Outpoints : p # o => tip'[p] = tip[p]
      /\ CoinAbove(tip'[o], db[o]) = CoinAbove(tip[o], db[o])
      /\ EntryOK(tip'[o], db[o])
  BY <1>1, FetchCoinLemma DEF IndInv, TypeOK, TipGetCoin
<1>3. ~open /\ UNCHANGED <<db, dbBest, tipBest, viewVars, logicError>>
  BY DEF TipGetCoin
<1>4. db' \in [Outpoints -> CoinOrSpent] /\ dbBest' \in Blocks /\ tipBest' \in Blocks \cup {NullBlock}
  BY <1>3 DEF IndInv, TypeOK, CoinOrSpent
<1>5. \A p \in Outpoints : EntryOK(tip'[p], db'[p]) /\ CoinAbove(tip'[p], db'[p]) = TipCoin(p)
  BY <1>1, <1>2, <1>3
<1> QED
  BY <1>2, <1>3, <1>4, <1>5, TipStep

\* Uncache drops an entry without flags: by EntryOK it is a copy of the disk's.
LEMMA UncacheStep ==
  ASSUME IndInv, NEW o \in Outpoints, Uncache(o)
  PROVE  IndInv' /\ \A p \in Outpoints : TipCoin(p)' = TipCoin(p) /\ ViewCoin(p)' = ViewCoin(p)
<1>1. \A p \in Outpoints : EntryOK(tip[p], db[p]) /\ TipCoin(p) = CoinAbove(tip[p], db[p])
  BY LevelsTyped DEF IndInv, EntriesOK
<1>2. /\ ~open /\ Uncachable(tip[o]) /\ tip' = [tip EXCEPT ![o] = NoEntry]
      /\ UNCHANGED <<db, dbBest, tipBest, viewVars, logicError>>
  BY DEF Uncache
<1>3. CoinAbove(tip[o], db[o]) = db[o]
  BY <1>1, <1>2 DEF Uncachable, EntryOK, CoinAbove, IsDirty
<1>4. tip' \in Caches /\ tip'[o] = NoEntry /\ \A p \in Outpoints : p # o => tip'[p] = tip[p]
  BY <1>2 DEF IndInv, TypeOK, Caches
<1>5. db' \in [Outpoints -> CoinOrSpent] /\ dbBest' \in Blocks /\ tipBest' \in Blocks \cup {NullBlock}
  BY <1>2 DEF IndInv, TypeOK, CoinOrSpent
<1>6. \A p \in Outpoints : EntryOK(tip'[p], db'[p]) /\ CoinAbove(tip'[p], db'[p]) = TipCoin(p)
  BY <1>1, <1>2, <1>3, <1>4 DEF EntryOK, CoinAbove
<1> QED
  BY <1>2, <1>4, <1>5, <1>6, TipStep

LEMMA FlushTipStep ==
  ASSUME IndInv, FlushTip
  PROVE  IndInv' /\ \A p \in Outpoints : TipCoin(p)' = TipCoin(p) /\ ViewCoin(p)' = ViewCoin(p)
                                        /\ db'[p] = TipCoin(p)
<1>1. \A p \in Outpoints : /\ EntryOK(tip[p], db[p]) /\ TipCoin(p) = CoinAbove(tip[p], db[p])
                          /\ db[p] \in CoinOrSpent /\ tip[p] \in Entries \cup {NoEntry}
  BY LevelsTyped DEF IndInv, EntriesOK
<1>2. \A p \in Outpoints : DbWrite(tip[p], db[p]) = TipCoin(p) /\ TipCoin(p) \in CoinOrSpent
  BY <1>1, DbWriteLemma
<1>3. /\ ~open /\ db' = [o \in Outpoints |-> DbWrite(tip[o], db[o])]
      /\ dbBest' = TipBestBlock /\ tipBest' = TipBestBlock /\ tip' = EmptyCache
      /\ UNCHANGED <<viewVars, logicError>>
  BY DEF FlushTip
<1>4. TipBestBlock \in Blocks
  BY DEF IndInv, TypeOK, TipBestBlock
<1>5. db' \in [Outpoints -> CoinOrSpent] /\ \A p \in Outpoints : db'[p] = TipCoin(p)
  BY <1>2, <1>3
<1>6. tip' \in Caches /\ \A p \in Outpoints : tip'[p] = NoEntry
  BY <1>3 DEF EmptyCache, Caches
<1>7. \A p \in Outpoints : EntryOK(tip'[p], db'[p]) /\ CoinAbove(tip'[p], db'[p]) = TipCoin(p)
  BY <1>5, <1>6 DEF EntryOK, CoinAbove
<1>8. IndInv' /\ \A p \in Outpoints : TipCoin(p)' = TipCoin(p) /\ ViewCoin(p)' = ViewCoin(p)
  BY <1>3, <1>4, <1>5, <1>6, <1>7, TipStep
<1> QED
  BY <1>5, <1>8

LEMMA RestartStep ==
  ASSUME IndInv, Restart
  PROVE  IndInv' /\ \A p \in Outpoints : TipCoin(p)' = db[p] /\ ViewCoin(p)' = db[p]
<1>1. \A p \in Outpoints : tip'[p] = NoEntry /\ view'[p] = NoEntry
  BY DEF Restart, EmptyCache
<1>2. \A p \in Outpoints : TipCoin(p)' = db[p] /\ ViewCoin(p)' = db[p]
  BY <1>1 DEF Restart, TipCoin, ViewCoin, CoinIn
<1>3. TypeOK' /\ NoLogicError' /\ ViewScope'
  BY Zenon DEF IndInv, TypeOK, NoLogicError, ViewScope, Restart, EmptyCache, Caches
<1>4. EntriesOK'
  BY <1>1 DEF EntriesOK, EntryOK
<1> QED
  BY <1>2, <1>3, <1>4 DEF IndInv

---------------------------------------------------------------------------
LEMMA InitIndInv == Init => IndInv
<1> SUFFICES ASSUME Init PROVE IndInv
  OBVIOUS
<1>1. TypeOK
  BY CoinsAssumption, Zenon DEF Init, TypeOK, Caches, EmptyCache
<1>2. EntriesOK
  BY DEF Init, EmptyCache, EntriesOK, EntryOK
<1>3. NoLogicError /\ ViewScope
  BY DEF Init, NoLogicError, ViewScope
<1> QED
  BY <1>1, <1>2, <1>3 DEF IndInv

LEMMA NextIndInv == IndInv /\ [Next]_vars => IndInv'
<1> SUFFICES ASSUME IndInv, [Next]_vars PROVE IndInv'
  OBVIOUS
<1>1. CASE OpenView \/ FlushView \/ DropView \/ FlushTip \/ Restart
  BY <1>1, OpenViewStep, FlushViewStep, DropViewStep, FlushTipStep, RestartStep
<1>2. ASSUME NEW o \in Outpoints, ViewGetCoin(o) \/ SpendCoin(o) \/ TipGetCoin(o) \/ Uncache(o)
      PROVE  IndInv'
  BY <1>2, ViewGetCoinStep, SpendCoinStep, TipGetCoinStep, UncacheStep
<1>3. ASSUME NEW o \in Outpoints, NEW c \in Coins, AddCoinsChecked(o, c)
      PROVE  IndInv'
  BY <1>3, AddCoinsCheckedStep
<1>4. ASSUME NEW o \in Outpoints, NEW c \in Coins, NEW cb \in BOOLEAN, AddCoins(o, c, cb)
      PROVE  IndInv'
  BY <1>4, AddCoinsStep
<1>5. ASSUME NEW b \in Blocks, SetBestBlock(b)
      PROVE  IndInv'
  BY <1>5, SetBestBlockStep
<1>6. CASE UNCHANGED vars
  BY <1>6 DEF vars, tipVars, viewVars, IndInv, TypeOK, EntriesOK, NoLogicError, ViewScope,
              TipCoin, CoinIn
<1> QED
  BY <1>1, <1>2, <1>3, <1>4, <1>5, <1>6 DEF Next

LEMMA Invariance == Spec => []IndInv
BY InitIndInv, NextIndInv, PTL DEF Spec

\* Every state of the stack of coin views is well typed; the disk always names a
\* real best block.
THEOREM TypeCorrect == Spec => []TypeOK
BY Invariance, PTL DEF IndInv

\* For every set of outpoints and coins the flags of both caches are sound: FRESH
\* only above a missing coin, not DIRTY only above an equal coin.
THEOREM FlagsSound == Spec => [](FreshSound /\ CleanSound)
<1>1. IndInv => FreshSound /\ CleanSound
  BY EntriesOKSound DEF IndInv
<1> QED
  BY Invariance, <1>1, PTL

\* AddCoin and BatchWrite never throw std::logic_error.
THEOREM NeverThrows == Spec => []NoLogicError
BY Invariance, PTL DEF IndInv

---------------------------------------------------------------------------
(* Refinement: every step of the stack is a step of the store, or none. *)

LEMMA RefineInit == Init => Store!Init
<1> SUFFICES ASSUME Init PROVE Store!Init
  OBVIOUS
<1>1. \A o \in Outpoints : TipCoin(o) = db[o] /\ ViewCoin(o) = db[o]
  BY DEF Init, EmptyCache, TipCoin, ViewCoin, CoinIn
<1>2. TipBestBlock = dbBest
  BY DEF Init, TipBestBlock
<1>3. db \in [Outpoints -> Coins \cup {Spent}] /\ dbBest \in Blocks
  BY CoinsAssumption DEF Init
<1>4. [o \in Outpoints |-> TipCoin(o)] = db /\ [o \in Outpoints |-> ViewCoin(o)] = db
  BY <1>1, <1>3
<1> QED
  BY <1>2, <1>3, <1>4 DEF Store!Init, Store!CoinMap, Init

Committed == [o \in Outpoints |-> TipCoin(o)]
Pending == [o \in Outpoints |-> ViewCoin(o)]
PendingBest == IF viewBest = NullBlock THEN TipBestBlock ELSE viewBest

\* The best blocks of the store, in a step that leaves the concrete ones alone.
LEMMA BestUnchanged ==
  UNCHANGED <<dbBest, tipBest, viewBest>> => TipBestBlock' = TipBestBlock /\ PendingBest' = PendingBest
BY DEF TipBestBlock, PendingBest

LEMMA RefineStutter ==
  ASSUME UNCHANGED <<db, dbBest, viewBest, open>>, TipBestBlock' = TipBestBlock,
         \A p \in Outpoints : TipCoin(p)' = TipCoin(p) /\ ViewCoin(p)' = ViewCoin(p)
  PROVE  UNCHANGED Store!vars
BY DEF Store!vars

LEMMA RefinePut ==
  ASSUME NEW o \in Outpoints, NEW c \in CoinOrSpent, open,
         UNCHANGED <<db, dbBest, tipBest, viewBest, open>>,
         \A p \in Outpoints :
           TipCoin(p)' = TipCoin(p) /\ ViewCoin(p)' = IF p = o THEN c ELSE ViewCoin(p)
  PROVE  Store!Next
<1>1. Committed' = Committed
  BY DEF Committed
<1>2. Pending' = [Pending EXCEPT ![o] = c]
  BY Zenon DEF Pending
<1>3. TipBestBlock' = TipBestBlock /\ PendingBest' = PendingBest
  BY BestUnchanged
<1>4. Store!Put(o, c)
  BY <1>1, <1>2, <1>3 DEF Store!Put, Committed, Pending, PendingBest
<1> QED
  BY <1>4 DEF Store!Next, CoinOrSpent

LEMMA RefineNext == IndInv /\ [Next]_vars => [Store!Next]_(Store!vars)
<1> SUFFICES ASSUME IndInv, [Next]_vars PROVE Store!Next \/ UNCHANGED Store!vars
  OBVIOUS
<1> USE DEF Committed, Pending, PendingBest
<1>t. TipBestBlock \in Blocks /\ dbBest \in Blocks /\ NullBlock \notin Blocks
  BY CoinsAssumption DEF IndInv, TypeOK, TipBestBlock
<1>1. CASE OpenView
  <2>1. \A p \in Outpoints : TipCoin(p)' = TipCoin(p) /\ ViewCoin(p)' = TipCoin(p)
    BY <1>1, OpenViewStep
  <2>2. Committed' = Committed /\ Pending' = Committed
    BY <2>1
  <2>3. TipBestBlock' = TipBestBlock /\ PendingBest' = TipBestBlock
    BY <1>1, <1>t DEF OpenView, TipBestBlock
  <2>4. Store!Begin
    BY <1>1, <2>2, <2>3 DEF Store!Begin, OpenView
  <2> QED
    BY <2>4 DEF Store!Next
<1>2. CASE FlushView
  <2>1. /\ tipBest' = viewBest /\ viewBest' = NullBlock /\ ~open'
        /\ \A p \in Outpoints : TipCoin(p)' = ViewCoin(p) /\ ViewCoin(p)' = ViewCoin(p)
    BY <1>2, FlushViewStep
  <2>2. Committed' = Pending /\ Pending' = Pending
    BY <2>1
  <2>3. open /\ UNCHANGED <<db, dbBest>>
    BY <1>2 DEF FlushView
  <2>4. TipBestBlock' = PendingBest /\ PendingBest' = PendingBest
    BY <2>1, <2>3 DEF IndInv, ViewScope, TipBestBlock
  <2>5. Store!Commit
    BY <2>1, <2>2, <2>3, <2>4 DEF Store!Commit
  <2> QED
    BY <2>5 DEF Store!Next
<1>3. CASE DropView
  <2>1. /\ tipBest' = tipBest
        /\ \A p \in Outpoints : TipCoin(p)' = TipCoin(p) /\ ViewCoin(p)' = TipCoin(p)
    BY <1>3, DropViewStep
  <2>2. Committed' = Committed /\ Pending' = Committed
    BY <2>1
  <2>3. open /\ ~open' /\ viewBest' = NullBlock /\ UNCHANGED <<db, dbBest>>
    BY <1>3 DEF DropView
  <2>4. TipBestBlock' = TipBestBlock /\ PendingBest' = TipBestBlock
    BY <2>1, <2>3 DEF TipBestBlock
  <2>5. Store!Abort
    BY <2>2, <2>3, <2>4, <1>3 DEF Store!Abort, DropView
  <2> QED
    BY <2>5 DEF Store!Next
<1>4. CASE FlushTip
  <2>1. \A p \in Outpoints :
          TipCoin(p)' = TipCoin(p) /\ ViewCoin(p)' = ViewCoin(p) /\ db'[p] = TipCoin(p)
    BY <1>4, FlushTipStep
  <2>2. db' = Committed /\ Committed' = Committed /\ Pending' = Pending
    BY <1>4, <2>1 DEF FlushTip
  <2>3. ~open /\ UNCHANGED <<open, viewBest>> /\ viewBest = NullBlock
    BY <1>4 DEF FlushTip, viewVars, IndInv, ViewScope
  <2>4. dbBest' = TipBestBlock /\ TipBestBlock' = TipBestBlock /\ PendingBest' = PendingBest
    BY <1>4, <1>t, <2>3 DEF FlushTip, TipBestBlock
  <2>5. Store!Persist
    BY <2>2, <2>3, <2>4 DEF Store!Persist
  <2> QED
    BY <2>5 DEF Store!Next
<1>5. CASE Restart
  <2>1. \A p \in Outpoints : TipCoin(p)' = db[p] /\ ViewCoin(p)' = db[p]
    BY <1>5, RestartStep
  <2>2. Committed' = db /\ Pending' = db
    BY <2>1 DEF IndInv, TypeOK
  <2>3. TipBestBlock' = dbBest /\ PendingBest' = dbBest
    BY <1>5 DEF Restart, TipBestBlock
  <2>4. Store!Crash
    BY <1>5, <2>2, <2>3 DEF Store!Crash, Restart
  <2> QED
    BY <2>4 DEF Store!Next
<1>6. ASSUME NEW o \in Outpoints, ViewGetCoin(o)
      PROVE  UNCHANGED Store!vars
  <2>1. UNCHANGED <<db, dbBest, viewBest, open, tipBest>>
    BY <1>6, ViewGetCoinStep DEF ViewGetCoin
  <2>2. TipBestBlock' = TipBestBlock
    BY <2>1 DEF TipBestBlock
  <2> QED
    BY <1>6, <2>1, <2>2, ViewGetCoinStep, RefineStutter
<1>7. ASSUME NEW o \in Outpoints, TipGetCoin(o) \/ Uncache(o)
      PROVE  UNCHANGED Store!vars
  <2>1. UNCHANGED <<db, dbBest, viewBest, open, tipBest>>
    BY <1>7 DEF TipGetCoin, Uncache, viewVars
  <2>2. TipBestBlock' = TipBestBlock
    BY <2>1 DEF TipBestBlock
  <2>3. \A p \in Outpoints : TipCoin(p)' = TipCoin(p) /\ ViewCoin(p)' = ViewCoin(p)
    BY <1>7, TipGetCoinStep, UncacheStep
  <2> QED
    BY <2>1, <2>2, <2>3, RefineStutter
<1>8. ASSUME NEW o \in Outpoints, SpendCoin(o)
      PROVE  Store!Next
  <2>1. open /\ UNCHANGED <<db, dbBest, viewBest, open>>
    BY <1>8 DEF SpendCoin
  <2>2. Spent \in CoinOrSpent
    BY DEF CoinOrSpent
  <2> QED
    BY <1>8, <2>1, <2>2, SpendCoinStep, RefinePut
<1>9. ASSUME NEW o \in Outpoints, NEW c \in Coins,
             AddCoinsChecked(o, c) \/ \E cb \in BOOLEAN : AddCoins(o, c, cb)
      PROVE  Store!Next
  <2>1. open /\ UNCHANGED <<db, dbBest, viewBest, open>>
    BY <1>9 DEF AddCoinsChecked, AddCoins
  <2>2. Added(o, c) \in CoinOrSpent
    BY LevelsTyped DEF Added, IndInv, CoinOrSpent
  <2>3. /\ tipBest' = tipBest
        /\ \A p \in Outpoints :
             TipCoin(p)' = TipCoin(p) /\ ViewCoin(p)' = IF p = o THEN Added(o, c) ELSE ViewCoin(p)
    BY <1>9, AddCoinsStep, AddCoinsCheckedStep
  <2> QED
    BY <2>1, <2>2, <2>3, RefinePut
<1>10. ASSUME NEW b \in Blocks, SetBestBlock(b)
       PROVE  Store!Next
  <2>1. /\ tipBest' = tipBest
        /\ \A p \in Outpoints : TipCoin(p)' = TipCoin(p) /\ ViewCoin(p)' = ViewCoin(p)
    BY <1>10, SetBestBlockStep
  <2>2. Committed' = Committed /\ Pending' = Pending
    BY <2>1
  <2>3. open /\ viewBest' = b /\ UNCHANGED <<db, dbBest, open>>
    BY <1>10 DEF SetBestBlock
  <2>4. TipBestBlock' = TipBestBlock /\ PendingBest' = b
    BY <2>1, <2>3, <1>t DEF TipBestBlock
  <2>5. Store!SetBest(b)
    BY <2>2, <2>3, <2>4 DEF Store!SetBest
  <2> QED
    BY <2>5 DEF Store!Next
<1>11. CASE UNCHANGED vars
  BY <1>11 DEF vars, tipVars, viewVars, Store!vars, TipCoin, ViewCoin, CoinIn, TipBestBlock
<1> QED
  BY <1>1, <1>2, <1>3, <1>4, <1>5, <1>6, <1>7, <1>8, <1>9, <1>10, <1>11 DEF Next

\* The stack of caches above the disk implements the store without caches: reads
\* are transparent, Flush commits the whole view, a crash falls back to the disk.
THEOREM Refinement == Spec => StoreSpec
<1>1. Spec => Store!Init /\ [][Store!Next]_(Store!vars)
  BY RefineInit, RefineNext, Invariance, PTL DEF Spec
<1> QED
  BY <1>1 DEF StoreSpec, Store!Spec

---------------------------------------------------------------------------
(* Sums over finite sets: what SumFunction computes, whatever order it takes the elements in. *)

\* A set of natural numbers has a least element.
LEMMA Least ==
  ASSUME NEW T \in SUBSET Nat, T # {}
  PROVE  \E x \in T : \A y \in T : x <= y
<1> DEFINE R == OpToRel(<, Nat)
<1>1. IsWellFoundedOn(R, Nat) BY NatLessThanWellFounded
<1> HIDE DEF R
<1>2. PICK x \in T : \A y \in T : ~(<<y, x>> \in R) BY <1>1, WFMin, Zenon
<1>3. \A y \in T : y < x => <<y, x>> \in R BY DEF R, OpToRel
<1>4. \A y \in T : ~(y < x) BY <1>2, <1>3, Zenon
<1>5. \A y \in T : x <= y BY <1>4
<1> QED BY <1>5

\* Induction on the subsets of a finite set; Q is the set of those that have the property.
LEMMA SubsetInduct ==
  ASSUME NEW D, IsFiniteSet(D), NEW Q, {} \in Q,
         \A s \in SUBSET D : s # {} /\ (\A x \in s : s \ {x} \in Q) => s \in Q
  PROVE  \A s \in SUBSET D : s \in Q
<1> SUFFICES ASSUME NEW u \in SUBSET D, u \notin Q PROVE FALSE OBVIOUS
<1> DEFINE T == {Cardinality(s) : s \in (SUBSET D) \ Q}
<1>1. \A s \in SUBSET D : IsFiniteSet(s) /\ Cardinality(s) \in Nat BY FS_Subset, FS_CardinalityType
<1>2. T \in SUBSET Nat /\ T # {} BY <1>1
<1>3. PICK n \in T : \A k \in T : n <= k
  <2> HIDE DEF T
  <2> QED BY <1>2, Least
<1>4. PICK s \in (SUBSET D) \ Q : n = Cardinality(s) BY <1>3
<1>a. s # {} /\ s \in SUBSET D /\ s \notin Q BY <1>4, Zenon
<1>5. PICK x \in s : s \ {x} \notin Q BY <1>a, Zenon
<1>6. s \ {x} \in SUBSET D /\ s \ {x} \notin Q BY <1>5
<1>7. Cardinality(s \ {x}) = Cardinality(s) - 1 BY <1>1, FS_RemoveElement
<1>8. Cardinality(s \ {x}) \in T BY <1>6
<1>9. n <= Cardinality(s \ {x}) BY <1>3, <1>8, Zenon
<1> QED BY <1>1, <1>4, <1>7, <1>9

\* h[s] is the sum of f over the subset s of D.
IsSum(h, f, D) ==
  /\ h \in [SUBSET D -> Int] /\ h[{}] = 0
  /\ \A s \in SUBSET D : \A x \in s : h[s] = f[x] + h[s \ {x}]

\* Such sums exist.
LEMMA SumExists ==
  ASSUME NEW D, IsFiniteSet(D), NEW f \in [D -> Int]
  PROVE  \E h : IsSum(h, f, D)
<1> DEFINE Q == {E \in SUBSET D : \E h : IsSum(h, f, E)}
<1>1. {} \in Q
  <2> DEFINE h == [s \in SUBSET {} |-> 0]
  <2>1. IsSum(h, f, {}) BY DEF IsSum
  <2> QED BY <2>1
<1>2. ASSUME NEW E \in SUBSET D, NEW y \in E, E \ {y} \in Q PROVE E \in Q
  <2>1. PICK h : IsSum(h, f, E \ {y}) BY <1>2
  <2> DEFINE g == [s \in SUBSET E |-> IF y \in s THEN f[y] + h[s \ {y}] ELSE h[s]]
  <2>2. \A s \in SUBSET E : s \ {y} \in SUBSET (E \ {y}) /\ (y \notin s => s \in SUBSET (E \ {y})) OBVIOUS
  <2>3. h \in [SUBSET (E \ {y}) -> Int] /\ h[{}] = 0
        /\ \A s \in SUBSET (E \ {y}) : \A x \in s : h[s] = f[x] + h[s \ {x}]
    BY <2>1 DEF IsSum
  <2>4. \A x \in E : f[x] \in Int OBVIOUS
  <2>5. g \in [SUBSET E -> Int] BY <2>2, <2>3, <2>4
  <2>6. g[{}] = 0 BY <2>3
  <2>7. ASSUME NEW s \in SUBSET E, NEW x \in s PROVE g[s] = f[x] + g[s \ {x}]
    <3>1. CASE x = y
      <4>1. g[s] = f[y] + h[s \ {y}] /\ g[s \ {y}] = h[s \ {y}] BY <3>1
      <4> QED BY <3>1, <4>1
    <3>2. CASE x # y /\ y \in s
      <4>1. g[s] = f[y] + h[s \ {y}] /\ g[s \ {x}] = f[y] + h[(s \ {x}) \ {y}] BY <3>2
      <4>2. x \in s \ {y} /\ s \ {y} \in SUBSET (E \ {y}) BY <3>2
      <4>3. h[s \ {y}] = f[x] + h[(s \ {y}) \ {x}] BY <2>3, <4>2
      <4>4. (s \ {y}) \ {x} = (s \ {x}) \ {y} OBVIOUS
      <4>5. (s \ {x}) \ {y} \in SUBSET (E \ {y}) OBVIOUS
      <4>6. f[x] \in Int /\ f[y] \in Int /\ h[(s \ {x}) \ {y}] \in Int BY <2>3, <2>4, <4>5
      <4>7. g[s] = f[y] + (f[x] + h[(s \ {x}) \ {y}]) BY <4>1, <4>3, <4>4, Zenon
      <4> DEFINE c == h[(s \ {x}) \ {y}]
                 a == f[x]
                 b == f[y]
      <4>8. g[s] = b + (a + c) /\ g[s \ {x}] = b + c /\ a \in Int /\ b \in Int /\ c \in Int
        BY <4>1, <4>6, <4>7, Zenon
      <4> HIDE DEF a, b, c, g
      <4>9. g[s] = a + g[s \ {x}] BY <4>8
      <4> QED BY <4>9, Zenon DEF a
    <3>3. CASE y \notin s
      <4>1. g[s] = h[s] /\ g[s \ {x}] = h[s \ {x}] BY <3>3
      <4> QED BY <2>2, <2>3, <3>3, <4>1, Zenon
    <3> QED BY <3>1, <3>2, <3>3
  <2>8. IsSum(g, f, E)
    <3> HIDE DEF g
    <3> QED BY <2>5, <2>6, <2>7 DEF IsSum
  <2> QED BY <2>8
<1>3. D \in Q
  <2> HIDE DEF Q
  <2>1. \A E \in SUBSET D : E # {} /\ (\A y \in E : E \ {y} \in Q) => E \in Q BY <1>2, Zenon
  <2>2. \A E \in SUBSET D : E \in Q BY <1>1, <2>1, SubsetInduct
  <2> QED BY <2>2
<1> QED BY <1>3

\* The function SumFunction is the value of, for the elements taken in the order of CHOOSE.
Pick(s) == CHOOSE x \in s : TRUE
IsFold(g, f, D) == g = [s \in SUBSET D |-> IF s = {} THEN 0 ELSE f[Pick(s)] + g[s \ {Pick(s)}]]

LEMMA SumIsFold ==
  ASSUME NEW f
  PROVE  SumFunction(f) = (CHOOSE g : IsFold(g, f, DOMAIN f))[DOMAIN f]
BY DEF SumFunction, SumFunctionOnSet, FoldFunctionOnSet, MapThenFoldSet, IsFold, Pick

\* SumFunction is the sum over the whole domain.
LEMMA SumFacts ==
  ASSUME NEW D, IsFiniteSet(D), NEW f \in [D -> Int]
  PROVE  \E h : IsSum(h, f, D) /\ SumFunction(f) = h[D]
<1>1. PICK h : IsSum(h, f, D) BY SumExists
<1>2. h \in [SUBSET D -> Int] /\ h[{}] = 0 /\ \A s \in SUBSET D : \A x \in s : h[s] = f[x] + h[s \ {x}]
  BY <1>1 DEF IsSum
<1>3. \A s \in SUBSET D : s # {} => Pick(s) \in s BY DEF Pick
<1>4. IsFold(h, f, D) BY <1>2, <1>3, Zenon DEF IsFold
<1> DEFINE g == CHOOSE g : IsFold(g, f, D)
<1>5. IsFold(g, f, D) BY <1>4
<1> HIDE DEF g
<1>6. g[D] = h[D]
  <2> DEFINE Q == {s \in SUBSET D : g[s] = h[s]}
  <2>0. \A s \in SUBSET D : g[s] = IF s = {} THEN 0 ELSE f[Pick(s)] + g[s \ {Pick(s)}] BY <1>5, Zenon DEF IsFold
  <2>1. {} \in Q BY <1>2, <2>0, Zenon
  <2>2. ASSUME NEW s \in SUBSET D, s # {}, \A x \in s : s \ {x} \in Q PROVE s \in Q
    <3>1. g[s] = f[Pick(s)] + g[s \ {Pick(s)}] BY <2>0, <2>2
    <3>2. h[s] = f[Pick(s)] + h[s \ {Pick(s)}] BY <1>2, <1>3, <2>2, Zenon
    <3>3. g[s \ {Pick(s)}] = h[s \ {Pick(s)}] BY <1>3, <2>2
    <3> QED BY <3>1, <3>2, <3>3
  <2>3. D \in Q
    <3> HIDE DEF Q
    <3>1. \A s \in SUBSET D : s \in Q BY <2>1, <2>2, SubsetInduct, Zenon
    <3> QED BY <3>1
  <2> QED BY <2>3
<1>7. SumFunction(f) = g[D] BY SumIsFold DEF g
<1> QED BY <1>1, <1>6, <1>7
\* Sums of functions that agree on a set.
LEMMA SumAgree ==
  ASSUME NEW D, IsFiniteSet(D), NEW E \in SUBSET D, NEW f, NEW g, NEW h, NEW k,
         IsSum(h, f, D), IsSum(k, g, D), \A x \in E : f[x] = g[x]
  PROVE  h[E] = k[E]
<1> DEFINE Q == {s \in SUBSET E : h[s] = k[s]}
<1>1. {} \in Q BY DEF IsSum
<1>2. ASSUME NEW s \in SUBSET E, NEW x \in s, s \ {x} \in Q PROVE s \in Q
  <2>1. h[s] = f[x] + h[s \ {x}] /\ k[s] = g[x] + k[s \ {x}] BY DEF IsSum
  <2>2. h[s \ {x}] = k[s \ {x}] /\ f[x] = g[x] BY <1>2
  <2>3. h[s] = k[s] BY <2>1, <2>2, Zenon
  <2> QED BY <2>3
<1>3. IsFiniteSet(E) BY FS_Subset
<1>4. E \in Q
  <2> HIDE DEF Q
  <2>1. \A s \in SUBSET E : s # {} /\ (\A x \in s : s \ {x} \in Q) => s \in Q BY <1>2, Zenon
  <2>2. \A s \in SUBSET E : s \in Q BY <1>1, <1>3, <2>1, SubsetInduct, Zenon
  <2> QED BY <2>2
<1> QED BY <1>4

\* Changing one value changes the sum by the difference.
LEMMA SumChange ==
  ASSUME NEW D, IsFiniteSet(D), NEW f \in [D -> Int], NEW g \in [D -> Int], NEW y \in D,
         \A x \in D \ {y} : f[x] = g[x]
  PROVE  SumFunction(f) \in Int /\ SumFunction(g) = SumFunction(f) - f[y] + g[y]
<1> DEFINE E == D \ {y}
<1>1. PICK h : IsSum(h, f, D) /\ SumFunction(f) = h[D] BY SumFacts
<1>2. PICK k : IsSum(k, g, D) /\ SumFunction(g) = k[D] BY SumFacts
<1>3. E \in SUBSET D OBVIOUS
<1>4. h[D] = f[y] + h[E] /\ k[D] = g[y] + k[E] /\ h[E] \in Int BY <1>1, <1>2, Zenon DEF IsSum
<1> HIDE DEF E
<1>5. h[E] = k[E]
  <2>1. \A x \in E : f[x] = g[x] BY DEF E
  <2> QED BY <1>1, <1>2, <1>3, <2>1, SumAgree
<1>6. f[y] \in Int /\ g[y] \in Int OBVIOUS
<1> DEFINE a == f[y]
           b == g[y]
           c == h[E]
<1>7. /\ SumFunction(f) = a + c /\ SumFunction(g) = b + c /\ a \in Int /\ b \in Int /\ c \in Int
  BY <1>1, <1>2, <1>4, <1>5, <1>6, Zenon
<1> HIDE DEF a, b, c
<1>8. SumFunction(f) \in Int /\ SumFunction(g) = SumFunction(f) - a + b BY <1>7
<1> QED BY <1>8, Zenon DEF a, b

\* The sum of sums.
LEMMA SumPlus ==
  ASSUME NEW D, IsFiniteSet(D), NEW f1 \in [D -> Int], NEW f2 \in [D -> Int], NEW f3 \in [D -> Int],
         \A x \in D : f3[x] = f1[x] + f2[x]
  PROVE  /\ SumFunction(f1) \in Int /\ SumFunction(f2) \in Int
         /\ SumFunction(f3) = SumFunction(f1) + SumFunction(f2)
<1>1. PICK h1 : IsSum(h1, f1, D) /\ SumFunction(f1) = h1[D] BY SumFacts
<1>2. PICK h2 : IsSum(h2, f2, D) /\ SumFunction(f2) = h2[D] BY SumFacts
<1>3. PICK h3 : IsSum(h3, f3, D) /\ SumFunction(f3) = h3[D] BY SumFacts
<1> DEFINE Q == {s \in SUBSET D : h3[s] = h1[s] + h2[s]}
<1>4. {} \in Q
  <2>1. h1[{}] = 0 /\ h2[{}] = 0 /\ h3[{}] = 0 BY <1>1, <1>2, <1>3 DEF IsSum
  <2> QED BY <2>1
<1>5. ASSUME NEW s \in SUBSET D, NEW x \in s, s \ {x} \in Q PROVE s \in Q
  <2> DEFINE r == s \ {x}
  <2>1. /\ h1[s] = f1[x] + h1[r] /\ h2[s] = f2[x] + h2[r] /\ h3[s] = f3[x] + h3[r]
        /\ h1[r] \in Int /\ h2[r] \in Int
    BY <1>1, <1>2, <1>3, Zenon DEF IsSum
  <2>2. h3[r] = h1[r] + h2[r] BY <1>5
  <2>3. f1[x] \in Int /\ f2[x] \in Int /\ f3[x] = f1[x] + f2[x] OBVIOUS
  <2> HIDE DEF r
  <2>4. h3[s] = h1[s] + h2[s] BY <2>1, <2>2, <2>3
  <2> QED BY <2>4
<1>6. D \in Q
  <2> HIDE DEF Q
  <2>1. \A s \in SUBSET D : s # {} /\ (\A x \in s : s \ {x} \in Q) => s \in Q BY <1>5, Zenon
  <2>2. \A s \in SUBSET D : s \in Q BY <1>4, <2>1, SubsetInduct, Zenon
  <2> QED BY <2>2
<1>7. h1[D] \in Int /\ h2[D] \in Int BY <1>1, <1>2 DEF IsSum
<1> QED BY <1>1, <1>2, <1>3, <1>6, <1>7

\* The sum of zeros.
LEMMA SumZero ==
  ASSUME NEW D, IsFiniteSet(D)
  PROVE  SumFunction([x \in D |-> 0]) = 0
<1> DEFINE f == [x \in D |-> 0]
<1>1. f \in [D -> Int] /\ \A x \in D : f[x] = f[x] + f[x] OBVIOUS
<1> HIDE DEF f
<1>2. SumFunction(f) \in Int /\ SumFunction(f) = SumFunction(f) + SumFunction(f) BY <1>1, SumPlus
<1> DEFINE n == SumFunction(f)
<1>3. n \in Int /\ n = n + n BY <1>2
<1> HIDE DEF n
<1>4. n = 0 BY <1>3
<1> QED BY <1>4 DEF n, f
---------------------------------------------------------------------------
(* cachedCoinsUsage. *)
Total(m) == SumFunction([o \in Outpoints |-> EntryUsage(m[o])])

\* The usage of an entry and of a coin is a number.
LEMMA UsageTyped ==
  /\ \A c \in CoinOrSpent : CoinUsage(c) \in Int
  /\ \A e \in Entries \cup {NoEntry} : EntryUsage(e) \in Int
<1>1. \A c \in CoinOrSpent : CoinUsage(c) \in Int BY CoinsAssumption DEF CoinUsage, CoinOrSpent
<1>2. \A e \in Entries : e.coin \in CoinOrSpent BY DEF Entries, CoinOrSpent
<1> QED BY <1>1, <1>2 DEF EntryUsage

\* The empty cache uses nothing, and changing one entry changes the total by the difference.
LEMMA TotalFacts ==
  /\ Total(EmptyCache) = 0
  /\ \A m \in Caches : Total(m) \in Int
  /\ \A m, n \in Caches, o \in Outpoints :
       (\A p \in Outpoints : p # o => n[p] = m[p]) => Total(n) = Total(m) - EntryUsage(m[o]) + EntryUsage(n[o])
<1> DEFINE f(m) == [o \in Outpoints |-> EntryUsage(m[o])]
<1>0. IsFiniteSet(Outpoints) BY CoinsAssumption
<1>1. \A m \in Caches : f(m) \in [Outpoints -> Int] BY UsageTyped DEF Caches
<1>2. Total(EmptyCache) = 0
  <2>1. f(EmptyCache) = [o \in Outpoints |-> 0] BY DEF EmptyCache, EntryUsage
  <2> QED BY <1>0, <2>1, SumZero DEF Total
<1>3. ASSUME NEW m \in Caches PROVE Total(m) \in Int
  <2>1. CASE Outpoints = {}
    <3>1. f(m) = [o \in Outpoints |-> 0] BY <2>1
    <3> QED BY <1>0, <3>1, SumZero DEF Total
  <2>2. ASSUME NEW y \in Outpoints PROVE Total(m) \in Int
    <3>1. f(m) \in [Outpoints -> Int] BY <1>1
    <3>2. \A x \in Outpoints \ {y} : f(m)[x] = f(m)[x] OBVIOUS
    <3> HIDE DEF f
    <3>3. SumFunction(f(m)) \in Int BY <1>0, <3>1, <3>2, SumChange
    <3> QED BY <3>3 DEF Total, f
  <2> QED BY <2>1, <2>2
<1>4. ASSUME NEW m \in Caches, NEW n \in Caches, NEW o \in Outpoints,
             \A p \in Outpoints : p # o => n[p] = m[p]
      PROVE  Total(n) = Total(m) - EntryUsage(m[o]) + EntryUsage(n[o])
  <2>1. f(m) \in [Outpoints -> Int] /\ f(n) \in [Outpoints -> Int] BY <1>1
  <2>2. \A x \in Outpoints \ {o} : f(m)[x] = f(n)[x] BY <1>4
  <2>3. f(m)[o] = EntryUsage(m[o]) /\ f(n)[o] = EntryUsage(n[o]) OBVIOUS
  <2>4. Total(m) = SumFunction(f(m)) /\ Total(n) = SumFunction(f(n)) BY DEF Total
  <2> HIDE DEF f
  <2>5. SumFunction(f(n)) = SumFunction(f(m)) - f(m)[o] + f(n)[o] BY <1>0, <2>1, <2>2, SumChange
  <2> QED BY <2>3, <2>4, <2>5, Zenon
<1> QED BY <1>2, <1>3, <1>4

\* FetchUsage is what a lookup adds.
LEMMA TotalFetch ==
  ASSUME NEW m \in Caches, NEW o \in Outpoints, NEW v \in CoinOrSpent
  PROVE  /\ FetchCoin(m, o, v) \in Caches /\ Total(FetchCoin(m, o, v)) \in Int
         /\ Total(FetchCoin(m, o, v)) = Total(m) + FetchUsage(m, o, v)
<1>0. Total(m) \in Int BY TotalFacts
<1>1. CASE m[o] # NoEntry \/ v = Spent
  <2>1. FetchCoin(m, o, v) = m BY <1>1 DEF FetchCoin
  <2>2. FetchUsage(m, o, v) = 0 BY <1>1 DEF FetchUsage, CoinUsage
  <2> QED BY <1>0, <2>1, <2>2
<1>2. CASE m[o] = NoEntry /\ v # Spent
  <2> DEFINE e == [coin |-> v, flags |-> {}]
             n == FetchCoin(m, o, v)
  <2>1. e \in Entries /\ e # NoEntry /\ e.coin = v BY NoEntryIsNoEntry DEF Entries, CoinOrSpent
  <2>2. n = [m EXCEPT ![o] = e] BY <1>2 DEF FetchCoin
  <2> HIDE DEF e, n
  <2>3. n \in Caches /\ n[o] = e /\ \A p \in Outpoints : p # o => n[p] = m[p] BY <2>1, <2>2 DEF Caches
  <2>4. Total(n) = Total(m) - EntryUsage(m[o]) + EntryUsage(n[o]) BY <2>3, TotalFacts
  <2>5. EntryUsage(m[o]) = 0 /\ EntryUsage(n[o]) = FetchUsage(m, o, v) BY <1>2, <2>1, <2>3 DEF EntryUsage, FetchUsage
  <2>6. FetchUsage(m, o, v) \in Int BY UsageTyped DEF FetchUsage
  <2>7. Total(n) = Total(m) + FetchUsage(m, o, v) /\ Total(n) \in Int BY <1>0, <2>4, <2>5, <2>6
  <2> QED BY <2>3, <2>7 DEF n
<1> QED BY <1>1, <1>2

\* CoinsTip() counts the coin that a lookup of the view caches in it.
LEMMA TipUsageFetch ==
  ASSUME TypeOK, tipUsage = Total(tip), NEW o \in Outpoints, FetchInTip(o)
  PROVE  tipUsage' = Total(tip')
<1>1. tip \in Caches /\ db[o] \in CoinOrSpent BY DEF TypeOK, CoinOrSpent
<1>2. Total(tip) \in Int BY <1>1, TotalFacts
<1>3. CASE view[o] = NoEntry
  <2>1. tip' = FetchCoin(tip, o, db[o]) /\ tipUsage' = tipUsage + FetchUsage(tip, o, db[o])
    BY <1>3 DEF FetchInTip
  <2> QED BY <1>1, <2>1, TotalFetch
<1>4. CASE view[o] # NoEntry BY <1>2, <1>4 DEF FetchInTip
<1> QED BY <1>3, <1>4

\* AddCoin without an exception keeps the counter exact.
LEMMA AddCoinUsage ==
  ASSUME NEW m \in Caches, NEW u \in Int, u = Total(m), NEW o \in Outpoints, NEW c \in Coins,
         NEW po \in BOOLEAN, AddCoin(m, u, o, c, po), ~logicError'
  PROVE  viewUsage' = Total(view')
<1>1. CASE c \in Unspendable BY <1>1 DEF AddCoin
<1>2. CASE c \notin Unspendable
  <2> DEFINE old == OldEntry(m, o)
             new == [coin |-> c, flags |-> old.flags \cup {DIRTY} \cup FreshFlag(old, po)]
  <2>1. view' = [m EXCEPT ![o] = new] /\ viewUsage' = u - EntryUsage(m[o]) + CoinUsage(c)
    BY <1>2 DEF AddCoin
  <2>2. old \in Entries BY DEF OldEntry, Caches, Entries
  <2>3. new \in Entries /\ new.coin = c BY <2>2, Zenon DEF Entries, DIRTY, FRESH, FreshFlag
  <2>4. EntryUsage(new) = CoinUsage(c) BY <2>3, NoEntryIsNoEntry, Zenon DEF EntryUsage
  <2> HIDE DEF new
  <2>5. view' \in Caches /\ view'[o] = new /\ \A p \in Outpoints : p # o => view'[p] = m[p]
    BY <2>1, <2>3 DEF Caches
  <2>6. Total(view') = Total(m) - EntryUsage(m[o]) + EntryUsage(view'[o]) BY <2>5, TotalFacts
  <2> QED BY <2>1, <2>4, <2>5, <2>6
<1> QED BY <1>1, <1>2

\* The change that one iteration of BatchWrite makes to the counter is the change of the entry's
\* usage.
LEMMA BatchWriteUsageLemma ==
  ASSUME NEW e \in Entries \cup {NoEntry}, NEW ours \in Entries \cup {NoEntry}
  PROVE  /\ BatchWriteUsage(e, ours) \in Int /\ BatchWriteEntry(e, ours) \in Entries \cup {NoEntry}
         /\ EntryUsage(BatchWriteEntry(e, ours)) = EntryUsage(ours) + BatchWriteUsage(e, ours)
<1> DEFINE U(x) == CoinUsage(x.coin)
<1>0. /\ e # NoEntry => e.coin \in CoinOrSpent /\ U(e) \in Int
      /\ ours # NoEntry => ours.coin \in CoinOrSpent /\ U(ours) \in Int /\ EntryUsage(ours) = U(ours)
      /\ ours = NoEntry => EntryUsage(ours) = 0
  BY UsageTyped DEF Entries, CoinOrSpent, EntryUsage
<1>1. CASE e = NoEntry \/ (e # NoEntry /\ ~IsDirty(e))
  <2>1. BatchWriteEntry(e, ours) = ours /\ BatchWriteUsage(e, ours) = 0
    BY <1>1 DEF BatchWriteEntry, BatchWriteUsage
  <2> QED BY <1>0, <2>1
<1>2. CASE e # NoEntry /\ IsDirty(e) /\ ours = NoEntry /\ IsFresh(e) /\ e.coin = Spent
  <2>1. BatchWriteEntry(e, ours) = NoEntry /\ BatchWriteUsage(e, ours) = 0
    BY <1>2 DEF BatchWriteEntry, BatchWriteUsage
  <2> QED BY <1>0, <1>2, <2>1
<1>3. CASE e # NoEntry /\ IsDirty(e) /\ ours = NoEntry /\ ~(IsFresh(e) /\ e.coin = Spent)
  <2> DEFINE n == [coin |-> e.coin, flags |-> {DIRTY} \cup (e.flags \cap {FRESH})]
  <2>1. BatchWriteEntry(e, ours) = n /\ BatchWriteUsage(e, ours) = U(e)
    BY <1>3 DEF BatchWriteEntry, BatchWriteUsage
  <2>2. n \in Entries /\ n.coin = e.coin BY <1>0, <1>3 DEF Entries, CoinOrSpent, DIRTY, FRESH
  <2> HIDE DEF n
  <2>3. EntryUsage(n) = U(e) BY <2>2, NoEntryIsNoEntry DEF EntryUsage
  <2> QED BY <1>0, <1>3, <2>1, <2>2, <2>3
<1>4. CASE e # NoEntry /\ IsDirty(e) /\ ours # NoEntry /\ IsFresh(ours) /\ e.coin = Spent
  <2>1. BatchWriteEntry(e, ours) = NoEntry /\ BatchWriteUsage(e, ours) = -U(ours)
    BY <1>4 DEF BatchWriteEntry, BatchWriteUsage
  <2>2. EntryUsage(NoEntry) = 0 BY DEF EntryUsage
  <2> QED BY <1>0, <1>4, <2>1, <2>2
<1>5. CASE e # NoEntry /\ IsDirty(e) /\ ours # NoEntry /\ ~(IsFresh(ours) /\ e.coin = Spent)
  <2> DEFINE n == MergeEntry(e, ours)
  <2>1. BatchWriteEntry(e, ours) = n /\ BatchWriteUsage(e, ours) = U(e) - U(ours)
    BY <1>5 DEF BatchWriteEntry, BatchWriteUsage
  <2>2. n \in Entries /\ n.coin = e.coin BY <1>0, <1>5 DEF MergeEntry, Entries, CoinOrSpent, DIRTY, FRESH
  <2> HIDE DEF n
  <2>3. EntryUsage(n) = U(e) BY <2>2, NoEntryIsNoEntry DEF EntryUsage
  <2> QED BY <1>0, <1>5, <2>1, <2>2, <2>3
<1> QED BY <1>1, <1>2, <1>3, <1>4, <1>5

\* A step of the invariant's states keeps both counters exact: each action adds and subtracts
\* the usage of exactly the coins it caches and drops.
LEMMA NextUsage ==
  ASSUME IndInv, IndInv', tipUsage = Total(tip), viewUsage = Total(view), [Next]_vars
  PROVE  tipUsage' = Total(tip') /\ viewUsage' = Total(view')
<1>1. tip \in Caches /\ view \in Caches /\ ~logicError' /\ TypeOK
  BY DEF IndInv, TypeOK, NoLogicError
<1>2. Total(tip) \in Int /\ Total(view) \in Int /\ Total(EmptyCache) = 0 BY <1>1, TotalFacts
<1>3. \A o \in Outpoints : TipCoin(o) \in CoinOrSpent /\ db[o] \in CoinOrSpent /\ (ViewCoin(o) # Spent) \in BOOLEAN
  BY LevelsTyped DEF IndInv
<1>4. CASE OpenView BY <1>2, <1>4 DEF OpenView
<1>5. CASE DropView BY <1>2, <1>5 DEF DropView, tipVars
<1>6. CASE FlushTip BY <1>2, <1>6 DEF FlushTip, viewVars
<1>7. CASE Restart BY <1>2, <1>7 DEF Restart
<1>8. CASE \E b \in Blocks : SetBestBlock(b) BY <1>8 DEF SetBestBlock, tipVars
<1>9. CASE UNCHANGED vars BY <1>9 DEF vars, tipVars, viewVars
<1>10. ASSUME NEW o \in Outpoints, ViewGetCoin(o) PROVE tipUsage' = Total(tip') /\ viewUsage' = Total(view')
  <2>1. FetchInTip(o) /\ view' = FetchCoin(view, o, TipCoin(o))
        /\ viewUsage' = viewUsage + FetchUsage(view, o, TipCoin(o))
    BY <1>10 DEF ViewGetCoin
  <2>2. viewUsage' = Total(view') BY <1>1, <1>3, <2>1, TotalFetch
  <2> QED BY <1>1, <2>1, <2>2, TipUsageFetch
<1>11. ASSUME NEW o \in Outpoints, SpendCoin(o) PROVE tipUsage' = Total(tip') /\ viewUsage' = Total(view')
  <2> DEFINE f == FetchCoin(view, o, TipCoin(o))
             u == viewUsage + FetchUsage(view, o, TipCoin(o))
             n == IF f[o] = NoEntry \/ (f[o] # NoEntry /\ IsFresh(f[o])) THEN NoEntry
                  ELSE [coin |-> Spent, flags |-> {DIRTY}]
  <2>1. f \in Caches /\ u = Total(f) /\ u \in Int BY <1>1, <1>3, TotalFetch, Zenon
  <2>2. FetchInTip(o) /\ view' = [f EXCEPT ![o] = n] /\ viewUsage' = u - EntryUsage(f[o])
    <3>0. FetchInTip(o) /\ viewUsage' = viewUsage + FetchUsage(view, o, TipCoin(o)) - EntryUsage(f[o])
      BY <1>11 DEF SpendCoin
    <3>1. viewUsage' = u - EntryUsage(f[o])
      <4>1. FetchUsage(view, o, TipCoin(o)) \in Int BY <1>3, UsageTyped DEF FetchUsage
      <4>2. EntryUsage(f[o]) \in Int BY <2>1, UsageTyped, Zenon DEF Caches
      <4> HIDE DEF f
      <4> QED BY <1>2, <3>0, <4>1, <4>2
    <3>2. view' = IF f[o] = NoEntry THEN f
                  ELSE IF IsFresh(f[o]) THEN [f EXCEPT ![o] = NoEntry]
                  ELSE [f EXCEPT ![o] = [coin |-> Spent, flags |-> {DIRTY}]]
      BY <1>11, Zenon DEF SpendCoin
    <3> HIDE DEF f, u
    <3>3. view' = [f EXCEPT ![o] = n] BY <2>1, <3>2, Zenon DEF Caches
    <3> QED BY <3>0, <3>1, <3>3, Zenon
  <2>3. n \in Entries \cup {NoEntry} /\ (n # NoEntry => n.coin = Spent) BY Zenon DEF Entries, DIRTY, FRESH
  <2> HIDE DEF f, u, n
  <2>4. EntryUsage(n) = 0 BY <2>3 DEF EntryUsage, CoinUsage
  <2>5. view' \in Caches /\ view'[o] = n /\ \A p \in Outpoints : p # o => view'[p] = f[p]
    BY <2>1, <2>2, <2>3 DEF Caches
  <2>6. Total(view') = Total(f) - EntryUsage(f[o]) + EntryUsage(view'[o]) BY <2>1, <2>5, TotalFacts
  <2>7. EntryUsage(f[o]) \in Int BY <2>1, UsageTyped DEF Caches
  <2>8. viewUsage' = Total(view') BY <2>1, <2>2, <2>4, <2>5, <2>6, <2>7
  <2> QED BY <1>1, <2>2, <2>8, TipUsageFetch
<1>12. ASSUME NEW o \in Outpoints, TipGetCoin(o) PROVE tipUsage' = Total(tip') /\ viewUsage' = Total(view')
  <2>1. tip' = FetchCoin(tip, o, db[o]) /\ tipUsage' = tipUsage + FetchUsage(tip, o, db[o])
        /\ UNCHANGED <<view, viewUsage>>
    BY <1>12 DEF TipGetCoin, viewVars
  <2>2. tipUsage' = Total(tip') BY <1>1, <1>3, <2>1, TotalFetch
  <2> QED BY <2>1, <2>2
<1>13. ASSUME NEW o \in Outpoints, Uncache(o) PROVE tipUsage' = Total(tip') /\ viewUsage' = Total(view')
  <2>1. tip' = [tip EXCEPT ![o] = NoEntry] /\ tipUsage' = tipUsage - EntryUsage(tip[o])
        /\ UNCHANGED <<view, viewUsage>>
    BY <1>13 DEF Uncache, viewVars
  <2>2. tip' \in Caches /\ tip'[o] = NoEntry /\ \A p \in Outpoints : p # o => tip'[p] = tip[p]
    BY <1>1, <2>1 DEF Caches
  <2>3. Total(tip') = Total(tip) - EntryUsage(tip[o]) + EntryUsage(tip'[o]) BY <1>1, <2>2, TotalFacts
  <2>4. EntryUsage(tip'[o]) = 0 /\ EntryUsage(tip[o]) \in Int BY <1>1, <2>2, UsageTyped DEF EntryUsage, Caches
  <2> QED BY <1>2, <2>1, <2>3, <2>4
<1>14. ASSUME NEW o \in Outpoints, NEW c \in Coins, AddCoinsChecked(o, c)
       PROVE  tipUsage' = Total(tip') /\ viewUsage' = Total(view')
  <2> DEFINE f == FetchCoin(view, o, TipCoin(o))
             u == viewUsage + FetchUsage(view, o, TipCoin(o))
             po == ViewCoin(o) # Spent
  <2>1. FetchInTip(o) /\ AddCoin(f, u, o, c, po) BY <1>14 DEF AddCoinsChecked
  <2>2. f \in Caches /\ u = Total(f) /\ u \in Int /\ po \in BOOLEAN BY <1>1, <1>3, TotalFetch
  <2> HIDE DEF f, u, po
  <2>3. viewUsage' = Total(view') BY <1>1, <2>1, <2>2, AddCoinUsage
  <2> QED BY <1>1, <2>1, <2>3, TipUsageFetch
<1>15. ASSUME NEW o \in Outpoints, NEW c \in Coins, NEW cb \in BOOLEAN, AddCoins(o, c, cb)
       PROVE  tipUsage' = Total(tip') /\ viewUsage' = Total(view')
  <2>1. AddCoin(view, viewUsage, o, c, cb) /\ UNCHANGED <<tip, tipUsage>> BY <1>15 DEF AddCoins, tipVars
  <2>2. viewUsage' = Total(view') BY <1>1, <1>2, <2>1, AddCoinUsage
  <2> QED BY <2>1, <2>2
<1>16. CASE FlushView
  <2> DEFINE f == [o \in Outpoints |-> EntryUsage(tip[o])]
             d == [o \in Outpoints |-> BatchWriteUsage(view[o], tip[o])]
             g == [o \in Outpoints |-> EntryUsage(tip'[o])]
  <2>1. /\ tip' = [o \in Outpoints |-> BatchWriteEntry(view[o], tip[o])]
        /\ tipUsage' = tipUsage + SumFunction(d) /\ view' = EmptyCache /\ viewUsage' = 0
    BY <1>1, <1>16 DEF FlushView
  <2>2. \A o \in Outpoints : tip[o] \in Entries \cup {NoEntry} /\ view[o] \in Entries \cup {NoEntry}
    BY <1>1 DEF Caches
  <2>3. \A o \in Outpoints : d[o] \in Int /\ f[o] \in Int /\ g[o] \in Int /\ g[o] = f[o] + d[o]
    <3>1. ASSUME NEW o \in Outpoints
          PROVE  /\ BatchWriteUsage(view[o], tip[o]) \in Int /\ EntryUsage(tip[o]) \in Int
                 /\ EntryUsage(tip'[o]) \in Int
                 /\ EntryUsage(tip'[o]) = EntryUsage(tip[o]) + BatchWriteUsage(view[o], tip[o])
      BY <2>1, <2>2, BatchWriteUsageLemma, UsageTyped, Zenon
    <3> QED BY <3>1
  <2>4. f \in [Outpoints -> Int] /\ d \in [Outpoints -> Int] /\ g \in [Outpoints -> Int] BY <2>3
  <2>5. IsFiniteSet(Outpoints) BY CoinsAssumption
  <2>6. Total(tip) = SumFunction(f) /\ Total(tip') = SumFunction(g) BY DEF Total
  <2> HIDE DEF f, d, g
  <2>7. SumFunction(g) = SumFunction(f) + SumFunction(d) BY <2>3, <2>4, <2>5, SumPlus
  <2> QED BY <1>2, <2>1, <2>6, <2>7
<1> QED BY <1>4, <1>5, <1>6, <1>7, <1>8, <1>9, <1>10, <1>11, <1>12, <1>13, <1>14, <1>15, <1>16, Zenon DEF Next

\* cachedCoinsUsage of both caches is the memory of the coins they hold, after any sequence of
\* calls (coins.cpp: FetchCoin, AddCoin, SpendCoin, BatchWrite, Uncache, Flush).
THEOREM UsageAlwaysExact == Spec => []UsageExact
<1>1. Init => UsageExact
  <2> SUFFICES ASSUME Init PROVE UsageExact OBVIOUS
  <2>1. Total(EmptyCache) = 0 BY TotalFacts, Zenon
  <2> QED BY <2>1 DEF Init, UsageExact, Total
<1>2. IndInv /\ IndInv' /\ UsageExact /\ [Next]_vars => UsageExact'
  BY NextUsage, Zenon DEF UsageExact, Total
<1> QED BY <1>1, <1>2, Invariance, PTL DEF Spec
===========================================================================
