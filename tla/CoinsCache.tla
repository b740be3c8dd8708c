----------------------------- MODULE CoinsCache -----------------------------
(***************************************************************************)
(* The coin caches of src/coins.cpp as the node stacks them: the           *)
(* CCoinsViewCache a block is connected or disconnected in, on top of      *)
(* pcoinsTip, on top of the chainstate database.  An entry of a cache has  *)
(* the flags DIRTY (it may differ from the view below) and FRESH (the view *)
(* below has no unspent coin there).  Everything runs under cs_main.       *)
(***************************************************************************)
EXTENDS Naturals

CONSTANTS Outpoints, Coins, Spent, Hashes, NULL,
          NoEntry        \* the outpoint is not in cacheCoins

Entry == [coin : Coins \cup {Spent}, dirty : BOOLEAN, fresh : BOOLEAN]

ASSUME CoinsAssumption ==
  /\ Spent \notin Coins
  /\ NULL \notin Hashes
  /\ NoEntry \notin Entry

VARIABLES
  dbCoins, dbBest,         \* CCoinsViewDB: DB_COIN records and DB_BEST_BLOCK
  tipCache, tipHash,       \* pcoinsTip: cacheCoins and hashBlock
  viewCache, viewHash,     \* CCoinsViewCache view(pcoinsTip)
  viewOpen                 \* that object exists

db == <<dbCoins, dbBest>>
tip == <<tipCache, tipHash>>
view == <<viewCache, viewHash>>
vars == <<dbCoins, dbBest, tipCache, tipHash, viewCache, viewHash, viewOpen>>

Empty == [o \in Outpoints |-> NoEntry]

-----------------------------------------------------------------------------
(* Reading *)

\* GetCoin of pcoinsTip and of the view.
TipCoin(o) == IF tipCache[o] # NoEntry THEN tipCache[o].coin ELSE dbCoins[o]
ViewCoin(o) == IF viewCache[o] # NoEntry THEN viewCache[o].coin ELSE TipCoin(o)

\* GetBestBlock: a null hashBlock is looked up in the view below.
TipBest == IF tipHash = NULL THEN dbBest ELSE tipHash
ViewBest == IF viewHash = NULL THEN TipBest ELSE viewHash

\* FetchCoin: a cache takes over a coin the view below has, with no flags.
\* (GetCoin of every view below answers false for a spent coin, so that the
\* branch that marks a fetched empty entry FRESH is not reached.)
FetchCoin(cache, o, below) ==
  IF cache[o] # NoEntry \/ below = Spent THEN cache
  ELSE [cache EXCEPT ![o] = [coin |-> below, dirty |-> FALSE, fresh |-> FALSE]]

FetchTip(o) == FetchCoin(tipCache, o, dbCoins[o])
FetchView(o) == FetchCoin(viewCache, o, TipCoin(o))

\* What a fetch by the view leaves in pcoinsTip, whose GetCoin it calls.
FetchBelow(o) == IF viewCache[o] # NoEntry THEN tipCache ELSE FetchTip(o)

\* HaveCoin, GetCoin, AccessCoin of the view.
HaveCoin(o) ==
  /\ viewOpen
  /\ viewCache' = FetchView(o) /\ tipCache' = FetchBelow(o)
  /\ UNCHANGED <<db, tipHash, viewHash, viewOpen>>

\* The same on pcoinsTip, by the memory pool or a call of the user.
TipHaveCoin(o) ==
  /\ ~viewOpen
  /\ tipCache' = FetchTip(o)
  /\ UNCHANGED <<db, tipHash, view, viewOpen>>

\* An unmodified entry may be dropped.  Only src/test/coins_tests.cpp calls
\* Uncache; the node itself never does.
Uncache(o) ==
  /\ ~viewOpen
  /\ tipCache[o] # NoEntry /\ ~tipCache[o].dirty /\ ~tipCache[o].fresh
  /\ tipCache' = [tipCache EXCEPT ![o] = NoEntry]
  /\ UNCHANGED <<db, tipHash, view, viewOpen>>

-----------------------------------------------------------------------------
(* Modifying the view *)

OpenView ==
  /\ ~viewOpen
  /\ viewOpen' = TRUE
  \* assert(view.GetBestBlock() == ...): the hash is looked up at once.
  /\ viewHash' = TipBest /\ tipHash' = TipBest
  /\ UNCHANGED <<db, tipCache, viewCache>>

\* Mutant: AddCoin ignores possible_overwrite when it sets FRESH.
AddedFresh(e, c, possible_overwrite) ==
  [coin |-> c, dirty |-> TRUE, fresh |-> e = NoEntry \/ e.fresh]

\* The entry AddCoin leaves, given the one it found.
Added(e, c, possible_overwrite) ==
  LET flags == IF e = NoEntry THEN [dirty |-> FALSE, fresh |-> FALSE]
               ELSE [dirty |-> e.dirty, fresh |-> e.fresh]
  IN  [coin |-> c, dirty |-> TRUE,
       fresh |-> flags.fresh \/ (~possible_overwrite /\ ~flags.dirty)]

\* AddCoins of ConnectBlock.  A coinbase may overwrite; the outputs of any
\* other transaction are known not to exist (BIP30).
AddCoin(o, c, fCoinbase) ==
  /\ viewOpen
  /\ fCoinbase \/ ViewCoin(o) = Spent
  /\ viewCache' = [viewCache EXCEPT ![o] = Added(viewCache[o], c, fCoinbase)]
  /\ UNCHANGED <<db, tip, viewHash, viewOpen>>

\* ApplyTxInUndo, and AddCoins of RollforwardBlock: HaveCoin is asked first.
RestoreCoin(o, c) ==
  /\ viewOpen
  /\ tipCache' = FetchBelow(o)
  /\ viewCache' = [viewCache EXCEPT ![o] = Added(FetchView(o)[o], c, ViewCoin(o) # Spent)]
  /\ UNCHANGED <<db, tipHash, viewHash, viewOpen>>

\* Mutants: SpendCoin keeps the entry of a FRESH coin; it leaves no coin at all.
SpendingKeepsFresh(cache, o) ==
  [cache EXCEPT ![o] = IF @ = NoEntry THEN @
                       ELSE [@ EXCEPT !.coin = Spent, !.dirty = TRUE]]
SpendingMovesOut(cache, o) ==
  [cache EXCEPT ![o] = IF @ = NoEntry THEN @
                       ELSE [@ EXCEPT !.coin = NULL, !.dirty = TRUE]]

\* SpendCoin: a FRESH entry disappears, another one becomes an empty one.
Spending(cache, o) ==
  [cache EXCEPT ![o] = CASE @ = NoEntry -> NoEntry
                         [] @ # NoEntry /\ @.fresh -> NoEntry
                         [] OTHER -> [@ EXCEPT !.coin = Spent, !.dirty = TRUE]]

SpendCoin(o) ==
  /\ viewOpen
  /\ tipCache' = FetchBelow(o)
  /\ viewCache' = Spending(FetchView(o), o)
  /\ UNCHANGED <<db, tipHash, viewHash, viewOpen>>

SetBestBlock(h) ==
  /\ viewOpen
  /\ viewHash' = h
  /\ UNCHANGED <<db, tip, viewCache, viewOpen>>

-----------------------------------------------------------------------------
(* Flushing *)

\* Mutant: BatchWrite copies the FRESH flag to an entry it finds.
WrittenFresh(theirs, ours) ==
  IF theirs = NoEntry \/ (theirs # NoEntry /\ ~theirs.dirty) THEN ours
  ELSE [coin |-> theirs.coin, dirty |-> TRUE, fresh |-> theirs.fresh]

\* BatchWrite of pcoinsTip for one entry of the view: theirs is the view's
\* entry, ours the one of pcoinsTip.
Written(theirs, ours) ==
  CASE theirs = NoEntry -> ours
    [] theirs # NoEntry /\ ~theirs.dirty -> ours
    [] theirs # NoEntry /\ theirs.dirty /\ ours = NoEntry ->
         IF theirs.fresh /\ theirs.coin = Spent THEN NoEntry
         ELSE [coin |-> theirs.coin, dirty |-> TRUE, fresh |-> theirs.fresh]
    [] OTHER ->
         IF ours.fresh /\ theirs.coin = Spent THEN NoEntry
         ELSE [ours EXCEPT !.coin = theirs.coin, !.dirty = TRUE]

\* Where BatchWrite throws "FRESH flag misapplied ...".  FlagsSound excludes it.
Misapplied(o) ==
  /\ viewCache[o] # NoEntry /\ viewCache[o].dirty /\ viewCache[o].fresh
  /\ tipCache[o] # NoEntry /\ tipCache[o].coin # Spent

FlushView ==
  /\ viewOpen
  /\ ~ \E o \in Outpoints : Misapplied(o)
  /\ tipCache' = [o \in Outpoints |-> Written(viewCache[o], tipCache[o])]
  /\ tipHash' = viewHash
  /\ viewCache' = Empty /\ viewHash' = NULL /\ viewOpen' = FALSE
  /\ UNCHANGED db

\* ConnectBlock failed: the view is destroyed.
DropView ==
  /\ viewOpen
  /\ viewCache' = Empty /\ viewHash' = NULL /\ viewOpen' = FALSE
  /\ UNCHANGED <<db, tip>>

\* FlushStateToDisk: pcoinsTip->Flush() writes the dirty entries.
FlushTip ==
  /\ ~viewOpen /\ tipHash # NULL
  /\ dbCoins' = [o \in Outpoints |->
       IF tipCache[o] # NoEntry /\ tipCache[o].dirty THEN tipCache[o].coin ELSE dbCoins[o]]
  /\ dbBest' = tipHash
  /\ tipCache' = Empty
  /\ UNCHANGED <<tipHash, view, viewOpen>>

-----------------------------------------------------------------------------
Init ==
  /\ dbCoins = [o \in Outpoints |-> Spent] /\ dbBest = NULL
  /\ tipCache = Empty /\ tipHash = NULL
  /\ viewCache = Empty /\ viewHash = NULL
  /\ viewOpen = FALSE

Next ==
  \/ \E o \in Outpoints : HaveCoin(o) \/ TipHaveCoin(o) \/ Uncache(o) \/ SpendCoin(o)
  \/ \E o \in Outpoints, c \in Coins : RestoreCoin(o, c) \/ AddCoin(o, c, TRUE)
                                       \/ AddCoin(o, c, FALSE)
  \/ \E h \in Hashes : SetBestBlock(h)
  \/ OpenView \/ FlushView \/ DropView \/ FlushTip

Spec == Init /\ [][Next]_vars

-----------------------------------------------------------------------------
(* Properties *)

\* The type of the database and of both caches.
TypeOK ==
  /\ dbCoins \in [Outpoints -> Coins \cup {Spent}] /\ dbBest \in Hashes \cup {NULL}
  /\ tipCache \in [Outpoints -> Entry \cup {NoEntry}] /\ tipHash \in Hashes \cup {NULL}
  /\ viewCache \in [Outpoints -> Entry \cup {NoEntry}] /\ viewHash \in Hashes \cup {NULL}
  /\ viewOpen \in BOOLEAN

\* The flags tell the truth in both caches (comments of CCoinsCacheEntry): an
\* entry that is not DIRTY equals the coin below it, and below a FRESH entry
\* there is no unspent coin.
FlagsSound ==
  \A o \in Outpoints :
    /\ tipCache[o] # NoEntry =>
         /\ ~tipCache[o].dirty => tipCache[o].coin = dbCoins[o]
         /\ tipCache[o].fresh => dbCoins[o] = Spent
    /\ viewCache[o] # NoEntry =>
         /\ ~viewCache[o].dirty => viewCache[o].coin = TipCoin(o)
         /\ viewCache[o].fresh => TipCoin(o) = Spent

\* A coin that is created and spent between two flushes leaves no entry: what
\* a FRESH entry holds is unspent, so SpendCoin and BatchWrite erased the rest.
FreshIsUnspent ==
  \A o \in Outpoints :
    /\ tipCache[o] # NoEntry /\ tipCache[o].fresh => tipCache[o].coin # Spent
    /\ viewCache[o] # NoEntry /\ viewCache[o].fresh => viewCache[o].coin # Spent

\* The caches implement the three plain maps: reading, fetching and Uncache
\* change nothing anyone can see, and a flush hands over exactly the view.
Abstract == INSTANCE CoinsView WITH
  tipCoins <- [o \in Outpoints |-> TipCoin(o)], tipBest <- TipBest,
  viewCoins <- [o \in Outpoints |-> ViewCoin(o)], viewBest <- ViewBest

ImplementsView == Abstract!Spec
=============================================================================
