---------------------------- MODULE CoinsCache ----------------------------
(***************************************************************************)
(* The stack of coin views the active chainstate works on (coins.cpp):     *)
(*                                                                         *)
(*   view  the CCoinsViewCache a block is connected or disconnected in     *)
(*   tip   CoinsTip(), the chainstate's long-lived CCoinsViewCache         *)
(*   db    CCoinsViewDB, the coins on disk                                 *)
(*                                                                         *)
(* A cache maps an outpoint to an entry (a coin and the DIRTY and FRESH    *)
(* flags) or to NoEntry.  A coin is a member of Coins, or Spent: a cleared *)
(* coin in a cache, a missing record on disk.  The caches are used under   *)
(* cs_main, so one call is one step; "open" says that a view exists, and   *)
(* CoinsTip() is not used by anyone else while it does.                    *)
(***************************************************************************)
EXTENDS Integers, FiniteSets, Functions

CONSTANTS
  Outpoints,     \* the outpoints the blocks create and spend
  Coins,         \* contents of an unspent output
  Unspendable,   \* the coins whose script can never be spent (OP_RETURN)
  Usage,         \* Coin::DynamicMemoryUsage
  Blocks,        \* block hashes
  Spent, NoEntry, NullBlock

DIRTY == "DIRTY"   \* the entry may differ from the level below
FRESH == "FRESH"   \* the level below has no unspent version of the coin

ASSUME CoinsAssumption ==
  /\ IsFiniteSet(Outpoints)
  /\ Spent \notin Coins
  /\ Unspendable \subseteq Coins
  /\ Usage \in [Coins -> Nat]
  /\ NullBlock \notin Blocks
  /\ NoEntry \notin [coin : Coins \cup {Spent}, flags : SUBSET {DIRTY, FRESH}]

VARIABLES
  db, dbBest,                  \* coins and best block on disk
  tip, tipBest, tipUsage,      \* CoinsTip(): cacheCoins, hashBlock, cachedCoinsUsage
  view, viewBest, viewUsage,   \* the view of the block in progress
  open,                        \* the view exists
  logicError                   \* a std::logic_error has been thrown

tipVars == <<tip, tipBest, tipUsage>>
viewVars == <<view, viewBest, viewUsage, open>>
vars == <<db, dbBest, tipVars, viewVars, logicError>>

Entries == [coin : Coins \cup {Spent}, flags : SUBSET {DIRTY, FRESH}]
IsDirty(e) == DIRTY \in e.flags
IsFresh(e) == FRESH \in e.flags
Caches == [Outpoints -> Entries \cup {NoEntry}]
EmptyCache == [o \in Outpoints |-> NoEntry]

\* Types; in particular the disk always names a real best block.  (What the usage
\* counters hold is UsageExact.)
TypeOK ==
  /\ db \in [Outpoints -> Coins \cup {Spent}] /\ dbBest \in Blocks
  /\ tip \in Caches /\ tipBest \in Blocks \cup {NullBlock}
  /\ view \in Caches /\ viewBest \in Blocks \cup {NullBlock}
  /\ open \in BOOLEAN /\ logicError \in BOOLEAN

---------------------------------------------------------------------------
\* What a lookup finds at each level.
CoinUsage(c) == IF c = Spent THEN 0 ELSE Usage[c]
EntryUsage(e) == IF e = NoEntry THEN 0 ELSE CoinUsage(e.coin)
CoinIn(cache, o, below) == IF cache[o] = NoEntry THEN below ELSE cache[o].coin
TipCoin(o) == CoinIn(tip, o, db[o])
ViewCoin(o) == CoinIn(view, o, TipCoin(o))

\* CCoinsViewCache::FetchCoin: only an unspent coin of the level below is
\* cached (GetCoin returns false for a spent one), with no flag set.
FetchCoin(cache, o, below) ==
  IF cache[o] = NoEntry /\ below # Spent
  THEN [cache EXCEPT ![o] = [coin |-> below, flags |-> IF below = Spent THEN {FRESH} ELSE {}]]
  ELSE cache
FetchUsageForgotten(cache, o, below) == 0   \* variant: a fetched coin is not counted
FetchUsage(cache, o, below) == IF cache[o] = NoEntry THEN CoinUsage(below) ELSE 0

\* A lookup of the view that misses asks CoinsTip(), which caches the coin too.
FetchInTip(o) ==
  /\ tip' = IF view[o] = NoEntry THEN FetchCoin(tip, o, db[o]) ELSE tip
  /\ tipUsage' = tipUsage + IF view[o] = NoEntry THEN FetchUsage(tip, o, db[o]) ELSE 0
  /\ UNCHANGED tipBest

Init ==
  /\ db \in [Outpoints -> (Coins \ Unspendable) \cup {Spent}] /\ dbBest \in Blocks
  /\ tip = EmptyCache /\ tipBest = NullBlock /\ tipUsage = 0
  /\ view = EmptyCache /\ viewBest = NullBlock /\ viewUsage = 0
  /\ open = FALSE /\ logicError = FALSE

---------------------------------------------------------------------------
\* ConnectTip, DisconnectTip: construct the view; ConnectBlock and
\* DisconnectBlock start with GetBestBlock, which fills both hashBlock fields.
TipBestBlock == IF tipBest = NullBlock THEN dbBest ELSE tipBest

OpenView ==
  /\ ~open /\ ~logicError
  /\ open' = TRUE
  /\ view' = EmptyCache /\ viewUsage' = 0
  /\ tipBest' = TipBestBlock /\ viewBest' = TipBestBlock
  /\ UNCHANGED <<db, dbBest, tip, tipUsage, logicError>>

\* GetCoin, AccessCoin, HaveCoin of the view.
ViewGetCoin(o) ==
  /\ open /\ ~logicError
  /\ FetchInTip(o)
  /\ view' = FetchCoin(view, o, TipCoin(o))
  /\ viewUsage' = viewUsage + FetchUsage(view, o, TipCoin(o))
  /\ UNCHANGED <<db, dbBest, viewBest, open, logicError>>

\* FRESH may be set on a coin that is added only when the entry was not DIRTY: a
\* DIRTY spent entry hides a coin of the level below whose deletion is still due.
FreshFlagAlways(old, possible_overwrite) ==   \* variant without the DIRTY test
  IF ~possible_overwrite THEN {FRESH} ELSE {}
FreshFlag(old, possible_overwrite) ==
  IF ~possible_overwrite /\ ~IsDirty(old) THEN {FRESH} ELSE {}

\* CCoinsViewCache::AddCoin on the cache m whose counter is u.  The old usage is
\* subtracted before the check that throws.
OldEntry(m, o) == IF m[o] = NoEntry THEN [coin |-> Spent, flags |-> {}] ELSE m[o]

AddCoin(m, u, o, c, possible_overwrite) ==
  LET old == OldEntry(m, o)
      throws == ~possible_overwrite /\ old.coin # Spent
      new == [coin |-> c, flags |-> old.flags \cup {DIRTY} \cup FreshFlag(old, possible_overwrite)]
  IN  IF c \in Unspendable
      THEN view' = m /\ viewUsage' = u /\ UNCHANGED logicError
      ELSE IF throws
      THEN view' = m /\ viewUsage' = u - EntryUsage(m[o]) /\ logicError' = TRUE
      ELSE /\ view' = [m EXCEPT ![o] = new]
           /\ viewUsage' = u - EntryUsage(m[o]) + CoinUsage(c)
           /\ UNCHANGED logicError

\* AddCoins(check = false), from UpdateCoins: a coinbase may overwrite; any other
\* transaction creates outputs that do not exist, which the BIP30 test of
\* ConnectBlock (or BIP34, that makes it redundant) has established.
AddCoins(o, c, fCoinbase) ==
  /\ open /\ ~logicError
  /\ fCoinbase \/ ViewCoin(o) = Spent
  /\ AddCoin(view, viewUsage, o, c, fCoinbase)
  /\ UNCHANGED <<db, dbBest, tipVars, viewBest, open>>

\* Variant: possible_overwrite decided by HaveCoinInCache instead of HaveCoin.
AddCoinsCheckedInCache(o, c) ==
  /\ open /\ ~logicError
  /\ AddCoin(view, viewUsage, o, c, OldEntry(view, o).coin # Spent)
  /\ UNCHANGED <<db, dbBest, tipVars, viewBest, open>>

\* AddCoins(check = true) and ApplyTxInUndo: HaveCoin decides possible_overwrite.
AddCoinsChecked(o, c) ==
  /\ open /\ ~logicError
  /\ FetchInTip(o)
  /\ AddCoin(FetchCoin(view, o, TipCoin(o)), viewUsage + FetchUsage(view, o, TipCoin(o)),
             o, c, ViewCoin(o) # Spent)
  /\ UNCHANGED <<db, dbBest, viewBest, open>>

\* CCoinsViewCache::SpendCoin
SpendCoin(o) ==
  LET m == FetchCoin(view, o, TipCoin(o))
  IN  /\ open /\ ~logicError
      /\ FetchInTip(o)
      /\ view' = IF m[o] = NoEntry THEN m
                 ELSE IF IsFresh(m[o]) THEN [m EXCEPT ![o] = NoEntry]
                 ELSE [m EXCEPT ![o] = [coin |-> Spent, flags |-> {DIRTY}]]
      /\ viewUsage' = viewUsage + FetchUsage(view, o, TipCoin(o)) - EntryUsage(m[o])
      /\ UNCHANGED <<db, dbBest, viewBest, open, logicError>>

SetBestBlock(b) ==
  /\ open /\ ~logicError
  /\ viewBest' = b
  /\ UNCHANGED <<db, dbBest, tipVars, view, viewUsage, open, logicError>>

---------------------------------------------------------------------------
\* A modified entry of the parent becomes DIRTY and keeps its own FRESH flag.
MergeEntry(e, ours) == [coin |-> e.coin, flags |-> ours.flags \cup {DIRTY}]

\* One iteration of CCoinsViewCache::BatchWrite: the entry "ours" of the parent
\* after the entry "e" of the child has been merged into it.
BatchWriteEntry(e, ours) ==
  IF e = NoEntry \/ (e # NoEntry /\ ~IsDirty(e)) THEN ours
  ELSE IF ours = NoEntry
  THEN IF IsFresh(e) /\ e.coin = Spent THEN NoEntry
       ELSE [coin |-> e.coin, flags |-> {DIRTY} \cup (e.flags \cap {FRESH})]
  ELSE IF IsFresh(ours) /\ e.coin = Spent THEN NoEntry
  ELSE MergeEntry(e, ours)

\* "FRESH flag misapplied to coin that exists in parent cache"
FreshMisapplied(e, ours) ==
  e # NoEntry /\ ours # NoEntry /\ IsDirty(e) /\ IsFresh(e) /\ ours.coin # Spent

\* The change of cachedCoinsUsage in that iteration.
BatchWriteUsage(e, ours) ==
  IF e = NoEntry \/ (e # NoEntry /\ ~IsDirty(e)) THEN 0
  ELSE IF ours = NoEntry
  THEN IF IsFresh(e) /\ e.coin = Spent THEN 0 ELSE CoinUsage(e.coin)
  ELSE IF IsFresh(ours) /\ e.coin = Spent THEN -CoinUsage(ours.coin)
  ELSE CoinUsage(e.coin) - CoinUsage(ours.coin)

\* view.Flush(): BatchWrite into CoinsTip(), then the view goes out of scope.
FlushView ==
  /\ open /\ ~logicError
  /\ IF \E o \in Outpoints : FreshMisapplied(view[o], tip[o])
     THEN logicError' = TRUE /\ UNCHANGED <<tipVars, viewVars>>
     ELSE /\ tip' = [o \in Outpoints |-> BatchWriteEntry(view[o], tip[o])]
          /\ tipUsage' = tipUsage + SumFunction([o \in Outpoints |-> BatchWriteUsage(view[o], tip[o])])
          /\ tipBest' = viewBest
          /\ view' = EmptyCache /\ viewUsage' = 0 /\ viewBest' = NullBlock
          /\ open' = FALSE
          /\ UNCHANGED logicError
  /\ UNCHANGED <<db, dbBest>>

\* The block turned out invalid, or was only tested: the view is dropped.
DropView ==
  /\ open /\ ~logicError
  /\ open' = FALSE
  /\ view' = EmptyCache /\ viewUsage' = 0 /\ viewBest' = NullBlock
  /\ UNCHANGED <<db, dbBest, tipVars, logicError>>

---------------------------------------------------------------------------
\* GetCoin, AccessCoin, HaveCoin of CoinsTip() (mempool, RPC).
TipGetCoin(o) ==
  /\ ~open /\ ~logicError
  /\ tip' = FetchCoin(tip, o, db[o])
  /\ tipUsage' = tipUsage + FetchUsage(tip, o, db[o])
  /\ UNCHANGED <<db, dbBest, tipBest, viewVars, logicError>>

\* CCoinsViewCache::Uncache: only an entry without flags is dropped.
UncachableAny(e) == e # NoEntry   \* variant that drops modified entries too
Uncachable(e) == e # NoEntry /\ e.flags = {}

Uncache(o) ==
  /\ ~open /\ ~logicError
  /\ Uncachable(tip[o])
  /\ tipUsage' = tipUsage - EntryUsage(tip[o])
  /\ tip' = [tip EXCEPT ![o] = NoEntry]
  /\ UNCHANGED <<db, dbBest, tipBest, viewVars, logicError>>

\* CCoinsViewDB::BatchWrite of CoinsTip(), here as one step (CoinsRecovery has its
\* parts), and the end of CCoinsViewCache::Flush.
DbWrite(e, old) == IF e # NoEntry /\ IsDirty(e) THEN e.coin ELSE old

FlushTip ==
  /\ ~open /\ ~logicError
  /\ db' = [o \in Outpoints |-> DbWrite(tip[o], db[o])]
  /\ dbBest' = TipBestBlock /\ tipBest' = TipBestBlock
  /\ tip' = EmptyCache /\ tipUsage' = 0
  /\ UNCHANGED <<viewVars, logicError>>

\* The process dies and is started again.
Restart ==
  /\ tip' = EmptyCache /\ tipBest' = NullBlock /\ tipUsage' = 0
  /\ view' = EmptyCache /\ viewUsage' = 0 /\ viewBest' = NullBlock
  /\ open' = FALSE /\ logicError' = FALSE
  /\ UNCHANGED <<db, dbBest>>

Next ==
  \/ OpenView \/ FlushView \/ DropView \/ FlushTip \/ Restart
  \/ \E o \in Outpoints : ViewGetCoin(o) \/ SpendCoin(o) \/ TipGetCoin(o) \/ Uncache(o)
  \/ \E o \in Outpoints, c \in Coins : AddCoinsChecked(o, c) \/ \E cb \in BOOLEAN : AddCoins(o, c, cb)
  \/ \E b \in Blocks : SetBestBlock(b)

Spec == Init /\ [][Next]_vars
---------------------------------------------------------------------------
\* A FRESH entry tells Flush that the level below holds no unspent version of the
\* coin, so that a spent one may be forgotten instead of written (coins.h:117-126).
\* If the flag were ever set over an existing coin, a spent output would come back.
FreshSound ==
  \A o \in Outpoints :
    /\ tip[o] # NoEntry /\ IsFresh(tip[o]) => db[o] = Spent
    /\ view[o] # NoEntry /\ IsFresh(view[o]) => TipCoin(o) = Spent

\* An entry that is not DIRTY is a copy of an unspent coin of the level below and is
\* not FRESH: dropping it (Uncache, the end of Flush) loses nothing, and of the
\* combinations of flags listed at coins.h:96-101 only those with DIRTY hold news.
CleanSound ==
  \A o \in Outpoints :
    /\ tip[o] # NoEntry /\ ~IsDirty(tip[o]) =>
         tip[o].coin = db[o] /\ db[o] # Spent /\ ~IsFresh(tip[o])
    /\ view[o] # NoEntry /\ ~IsDirty(view[o]) =>
         view[o].coin = TipCoin(o) /\ TipCoin(o) # Spent /\ ~IsFresh(view[o])

\* What else the induction needs: a spent coin is never kept with FRESH (SpendCoin
\* and BatchWrite erase it), a view that does not exist holds nothing, and one that does has a best block.
SpentNotFresh ==
  \A o \in Outpoints :
    /\ tip[o] # NoEntry /\ tip[o].coin = Spent => ~IsFresh(tip[o])
    /\ view[o] # NoEntry /\ view[o].coin = Spent => ~IsFresh(view[o])

\* Neither AddCoin nor BatchWrite throws std::logic_error, whatever sequence of
\* blocks is connected, disconnected, dropped and flushed.
NoLogicError == ~logicError

\* cachedCoinsUsage, which decides when the cache is flushed, is exactly the memory
\* of the cached coins after every sequence of calls (it is only ever adjusted).
UsageExact ==
  /\ tipUsage = SumFunction([o \in Outpoints |-> EntryUsage(tip[o])])
  /\ viewUsage = SumFunction([o \in Outpoints |-> EntryUsage(view[o])])

ViewScope ==
  /\ ~open => view = EmptyCache /\ viewBest = NullBlock
  /\ open => viewBest # NullBlock

\* The caches are invisible: what is read through them, committed by Flush and
\* found after a crash is what a store without caches would hold.
Store == INSTANCE CoinsStore WITH
  disk <- db, diskBest <- dbBest,
  committed <- [o \in Outpoints |-> TipCoin(o)], committedBest <- TipBestBlock,
  pending <- [o \in Outpoints |-> ViewCoin(o)],
  pendingBest <- IF viewBest = NullBlock THEN TipBestBlock ELSE viewBest,
  active <- open
StoreSpec == Store!Spec
===========================================================================
