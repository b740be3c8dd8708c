-------------------------- MODULE CoinsCacheProofs --------------------------
(***************************************************************************)
(* The coin caches implement CoinsView for any outpoints, coins and        *)
(* hashes, and their flags are sound.                                      *)
(***************************************************************************)
EXTENDS CoinsCache, TLAPS

\* The inductive invariant: what the flags say is true, a closed view is
\* empty, and an open one has looked up the hash of the best block.
CInv ==
  /\ TypeOK /\ FlagsSound /\ FreshIsUnspent
  /\ ~viewOpen => viewCache = Empty /\ viewHash = NULL
  /\ viewOpen /\ viewHash = NULL => tipHash = NULL

USE DEF db, tip, view, vars

LEMMA InitCInv == Init => CInv
  BY Zenon, CoinsAssumption DEF Init, CInv, TypeOK, FlagsSound, FreshIsUnspent, Empty

-----------------------------------------------------------------------------
(* Fetching changes no coin *)

LEMMA FetchTipFacts ==
  ASSUME CInv, NEW o \in Outpoints, tipCache' = FetchTip(o), UNCHANGED db
  PROVE  /\ tipCache' \in [Outpoints -> Entry \cup {NoEntry}]
         /\ \A p \in Outpoints : TipCoin(p)' = TipCoin(p)
         /\ \A p \in Outpoints : tipCache'[p] # NoEntry =>
              /\ ~tipCache'[p].dirty => tipCache'[p].coin = dbCoins[p]
              /\ tipCache'[p].fresh => dbCoins[p] = Spent /\ tipCache'[p].coin # Spent
<1>1. CASE tipCache' = tipCache
  BY <1>1 DEF CInv, TypeOK, FlagsSound, FreshIsUnspent, TipCoin
<1>2. CASE tipCache[o] = NoEntry /\ dbCoins[o] # Spent
  <2> DEFINE e == [coin |-> dbCoins[o], dirty |-> FALSE, fresh |-> FALSE]
  <2>1. e \in Entry /\ tipCache' = [tipCache EXCEPT ![o] = e]
    BY <1>2 DEF FetchTip, FetchCoin, Entry, CInv, TypeOK
  <2>2. e # NoEntry
    BY Zenon, <2>1, CoinsAssumption
  <2>3. tipCache'[o] = e /\ \A p \in Outpoints : p # o => tipCache'[p] = tipCache[p]
    BY <2>1 DEF CInv, TypeOK
  <2> QED
    BY <1>2, <2>1, <2>2, <2>3 DEF CInv, TypeOK, FlagsSound, FreshIsUnspent, TipCoin
<1> QED
  BY <1>1, <1>2 DEF FetchTip, FetchCoin

LEMMA FetchViewFacts ==
  ASSUME CInv, NEW o \in Outpoints
  PROVE  /\ FetchView(o) \in [Outpoints -> Entry \cup {NoEntry}]
         /\ \A p \in Outpoints : p # o => FetchView(o)[p] = viewCache[p]
         /\ FetchView(o)[o] # NoEntry =>
              /\ FetchView(o)[o].coin = ViewCoin(o)
              /\ ~FetchView(o)[o].dirty => FetchView(o)[o].coin = TipCoin(o)
              /\ FetchView(o)[o].fresh => TipCoin(o) = Spent /\ ViewCoin(o) # Spent
         /\ FetchView(o)[o] = NoEntry => ViewCoin(o) = Spent /\ TipCoin(o) = Spent
<1>0. TipCoin(o) \in Coins \cup {Spent}
  BY DEF CInv, TypeOK, TipCoin, Entry
<1>1. CASE viewCache[o] # NoEntry \/ TipCoin(o) = Spent
  BY <1>1 DEF FetchView, FetchCoin, CInv, TypeOK, FlagsSound, FreshIsUnspent, ViewCoin
<1>2. CASE viewCache[o] = NoEntry /\ TipCoin(o) # Spent
  <2> DEFINE e == [coin |-> TipCoin(o), dirty |-> FALSE, fresh |-> FALSE]
  <2>1. e \in Entry /\ FetchView(o) = [viewCache EXCEPT ![o] = e]
    BY <1>0, <1>2 DEF FetchView, FetchCoin, Entry
  <2>2. e # NoEntry
    BY Zenon, <2>1, CoinsAssumption
  <2> QED
    BY <1>2, <2>1, <2>2 DEF CInv, TypeOK, ViewCoin
<1> QED
  BY <1>1, <1>2

\* What a step that only fetches into pcoinsTip keeps.
TipKept ==
  /\ UNCHANGED db
  /\ tipCache' \in [Outpoints -> Entry \cup {NoEntry}]
  /\ \A p \in Outpoints : TipCoin(p)' = TipCoin(p)
  /\ \A p \in Outpoints : tipCache'[p] # NoEntry =>
       /\ ~tipCache'[p].dirty => tipCache'[p].coin = dbCoins[p]
       /\ tipCache'[p].fresh => dbCoins[p] = Spent /\ tipCache'[p].coin # Spent

LEMMA FetchBelowKeeps ==
  ASSUME CInv, NEW o \in Outpoints, UNCHANGED db,
         tipCache' = FetchBelow(o) \/ tipCache' = FetchTip(o) \/ UNCHANGED tipCache
  PROVE  TipKept
<1>1. CASE tipCache' = FetchTip(o)
  BY <1>1, FetchTipFacts DEF TipKept
<1>2. CASE UNCHANGED tipCache
  BY <1>2 DEF CInv, TypeOK, FlagsSound, FreshIsUnspent, TipCoin, TipKept
<1> QED
  BY <1>1, <1>2 DEF FetchBelow

\* A step that changes the view at o only.
LEMMA ViewStep ==
  ASSUME CInv, viewOpen, NEW o \in Outpoints, TipKept,
         UNCHANGED <<tipHash, viewHash, viewOpen>>,
         viewCache' \in [Outpoints -> Entry \cup {NoEntry}],
         \A p \in Outpoints : p # o => viewCache'[p] = viewCache[p],
         viewCache'[o] # NoEntry =>
           /\ ~viewCache'[o].dirty => viewCache'[o].coin = TipCoin(o)
           /\ viewCache'[o].fresh => TipCoin(o) = Spent /\ viewCache'[o].coin # Spent
  PROVE  /\ CInv'
         /\ \A p \in Outpoints : p # o => ViewCoin(p)' = ViewCoin(p)
         /\ ViewCoin(o)' = IF viewCache'[o] # NoEntry THEN viewCache'[o].coin ELSE TipCoin(o)
<1>1. TypeOK'
  BY DEF TypeOK, CInv, TipKept
<1>2. FlagsSound' /\ FreshIsUnspent'
  BY DEF CInv, FlagsSound, FreshIsUnspent, TipKept
<1>3. CInv'
  BY <1>1, <1>2 DEF CInv
<1>4. \A p \in Outpoints : p # o => ViewCoin(p)' = ViewCoin(p)
  BY DEF ViewCoin, TipKept
<1>5. ViewCoin(o)' = IF viewCache'[o] # NoEntry THEN viewCache'[o].coin ELSE TipCoin(o)
  BY DEF ViewCoin, TipKept
<1> QED
  BY <1>3, <1>4, <1>5

-----------------------------------------------------------------------------
(* Every step maps to a step of the three maps or to none *)

\* The maps and the best blocks stay as they are.
Invisible ==
  /\ UNCHANGED db
  /\ TipBest' = TipBest /\ ViewBest' = ViewBest
  /\ \A p \in Outpoints : TipCoin(p)' = TipCoin(p) /\ ViewCoin(p)' = ViewCoin(p)

LEMMA InvisibleStutters == Invisible => UNCHANGED Abstract!vars
  BY DEF Invisible, Abstract!vars

LEMMA HaveCoinStep ==
  ASSUME CInv, NEW o \in Outpoints, HaveCoin(o)
  PROVE  CInv' /\ Invisible
<1>1. TipKept
  BY FetchBelowKeeps DEF HaveCoin
<1>2. /\ CInv'
      /\ \A p \in Outpoints : p # o => ViewCoin(p)' = ViewCoin(p)
      /\ ViewCoin(o)' = IF viewCache'[o] # NoEntry THEN viewCache'[o].coin ELSE TipCoin(o)
  BY <1>1, ViewStep, FetchViewFacts DEF HaveCoin
<1>3. ViewCoin(o)' = ViewCoin(o)
  BY <1>2, FetchViewFacts DEF HaveCoin
<1> QED
  BY <1>1, <1>2, <1>3 DEF Invisible, TipKept, HaveCoin, TipBest, ViewBest

LEMMA TipStep ==
  ASSUME CInv, NEW o \in Outpoints, TipHaveCoin(o) \/ Uncache(o)
  PROVE  CInv' /\ Invisible
<1>1. TipKept
  <2>1. CASE TipHaveCoin(o)
    BY <2>1, FetchBelowKeeps DEF TipHaveCoin
  <2>2. CASE Uncache(o)
    BY <2>2 DEF Uncache, TipKept, CInv, TypeOK, FlagsSound, FreshIsUnspent, TipCoin
  <2> QED
    BY <2>1, <2>2
<1>2. UNCHANGED <<viewCache, viewHash, viewOpen, tipHash>>
  BY DEF TipHaveCoin, Uncache
<1>3. CInv'
  BY <1>1, <1>2 DEF CInv, TypeOK, FlagsSound, FreshIsUnspent, TipKept
<1> QED
  BY <1>1, <1>2, <1>3 DEF Invisible, TipKept, TipBest, ViewBest, ViewCoin

LEMMA OpenViewStep ==
  ASSUME CInv, OpenView
  PROVE  CInv' /\ Invisible
<1>1. TypeOK'
  BY DEF OpenView, CInv, TypeOK, TipBest
<1>2. FlagsSound' /\ FreshIsUnspent' /\ viewOpen'
  BY DEF OpenView, CInv, FlagsSound, FreshIsUnspent, TipCoin
<1>3. \A p \in Outpoints : TipCoin(p)' = TipCoin(p) /\ ViewCoin(p)' = ViewCoin(p)
  BY DEF OpenView, TipCoin, ViewCoin
<1>4. TipBest' = TipBest /\ ViewBest' = ViewBest
  BY DEF OpenView, TipBest, ViewBest, CInv
<1> QED
  BY <1>1, <1>2, <1>3, <1>4 DEF CInv, Invisible, OpenView

\* The entry AddCoin leaves is DIRTY, and FRESH only if the tip has no coin.
LEMMA AddedFacts ==
  ASSUME CInv, NEW o \in Outpoints, NEW c \in Coins, NEW e \in Entry \cup {NoEntry},
         NEW overwrite \in BOOLEAN,
         e # NoEntry => (~e.dirty => e.coin = TipCoin(o)) /\ (e.fresh => TipCoin(o) = Spent),
         e # NoEntry => e.coin = ViewCoin(o),
         e = NoEntry => ViewCoin(o) = TipCoin(o),
         overwrite \/ ViewCoin(o) = Spent
  PROVE  LET a == Added(e, c, overwrite)
         IN  /\ a \in Entry /\ a # NoEntry /\ a.coin = c /\ a.dirty
             /\ a.fresh => TipCoin(o) = Spent
<1>1. Added(e, c, overwrite) \in Entry
  BY DEF Added, Entry
<1> QED
  BY Zenon, <1>1, CoinsAssumption DEF Added, Entry

LEMMA AddCoinStep ==
  ASSUME CInv, NEW o \in Outpoints, NEW c \in Coins,
         RestoreCoin(o, c) \/ AddCoin(o, c, TRUE) \/ AddCoin(o, c, FALSE)
  PROVE  CInv' /\ Abstract!Add(o, c)
<1> DEFINE a == viewCache'[o]
<1>1. TipKept /\ viewOpen /\ UNCHANGED <<tipHash, viewHash, viewOpen>>
  BY Zenon, FetchBelowKeeps DEF RestoreCoin, AddCoin
<1>2. /\ viewCache' = [viewCache EXCEPT ![o] = a]
      /\ a \in Entry /\ a # NoEntry /\ a.coin = c /\ a.dirty
      /\ a.fresh => TipCoin(o) = Spent
  <2> DEFINE Found(e, overwrite) ==
        /\ e \in Entry \cup {NoEntry}
        /\ viewCache' = [viewCache EXCEPT ![o] = Added(e, c, overwrite)]
        /\ e # NoEntry => (~e.dirty => e.coin = TipCoin(o)) /\ (e.fresh => TipCoin(o) = Spent)
        /\ e # NoEntry => e.coin = ViewCoin(o)
        /\ e = NoEntry => ViewCoin(o) = TipCoin(o)
        /\ overwrite \/ ViewCoin(o) = Spent
  <2>1. ASSUME NEW e, NEW overwrite \in BOOLEAN, Found(e, overwrite) PROVE <1>2
    <3>1. a = Added(e, c, overwrite)
      BY <2>1 DEF CInv, TypeOK
    <3>2. /\ Added(e, c, overwrite) \in Entry /\ Added(e, c, overwrite) # NoEntry
          /\ Added(e, c, overwrite).coin = c /\ Added(e, c, overwrite).dirty
          /\ Added(e, c, overwrite).fresh => TipCoin(o) = Spent
      BY <2>1, AddedFacts
    <3> QED
      BY Zenon, <2>1, <3>1, <3>2
  <2>2. ASSUME NEW overwrite \in BOOLEAN, AddCoin(o, c, overwrite)
        PROVE  Found(viewCache[o], overwrite)
    BY <2>2 DEF AddCoin, CInv, TypeOK, FlagsSound, ViewCoin
  <2>3. ASSUME RestoreCoin(o, c) PROVE Found(FetchView(o)[o], ViewCoin(o) # Spent)
    BY <2>3, FetchViewFacts DEF RestoreCoin
  <2>4. (ViewCoin(o) # Spent) \in BOOLEAN
    OBVIOUS
  <2> HIDE DEF Found
  <2> QED
    BY Zenon, <2>1, <2>2, <2>3, <2>4
<1>3. /\ viewCache' \in [Outpoints -> Entry \cup {NoEntry}]
      /\ \A p \in Outpoints : p # o => viewCache'[p] = viewCache[p]
  BY <1>2 DEF CInv, TypeOK
<1>4. c # Spent
  BY CoinsAssumption
<1>5. CInv' /\ (\A p \in Outpoints : p # o => ViewCoin(p)' = ViewCoin(p)) /\ ViewCoin(o)' = c
  BY <1>1, <1>2, <1>3, <1>4, ViewStep
<1> QED
  BY Zenon, <1>1, <1>5 DEF Abstract!Add, TipKept, TipBest, ViewBest

LEMMA SpendCoinStep ==
  ASSUME CInv, NEW o \in Outpoints, SpendCoin(o)
  PROVE  CInv' /\ Abstract!Spend(o)
<1> DEFINE e == FetchView(o)[o]
           a == viewCache'[o]
<1>1. TipKept /\ viewOpen /\ UNCHANGED <<tipHash, viewHash, viewOpen>>
  BY FetchBelowKeeps DEF SpendCoin
<1>2. viewCache' = Spending(FetchView(o), o)
  BY DEF SpendCoin
<1>3. /\ viewCache' \in [Outpoints -> Entry \cup {NoEntry}]
      /\ \A p \in Outpoints : p # o => viewCache'[p] = viewCache[p]
      /\ a = NoEntry => e = NoEntry \/ e.fresh
      /\ a # NoEntry => a.coin = Spent /\ a.dirty /\ ~a.fresh
  <2>1. CASE e = NoEntry \/ e.fresh
    BY <1>2, <2>1, FetchViewFacts DEF Spending
  <2>2. CASE e # NoEntry /\ ~e.fresh
    <3>1. e \in Entry
      BY <2>2, FetchViewFacts
    <3>2. viewCache' = [FetchView(o) EXCEPT ![o] = [e EXCEPT !.coin = Spent, !.dirty = TRUE]]
      BY <1>2, <2>2 DEF Spending
    <3>3. [e EXCEPT !.coin = Spent, !.dirty = TRUE] \in Entry
      BY Zenon, <3>1 DEF Entry
    <3> QED
      BY Zenon, <2>2, <3>1, <3>2, <3>3, FetchViewFacts, CoinsAssumption DEF Entry
  <2> QED
    BY <2>1, <2>2
<1>4. a = NoEntry => TipCoin(o) = Spent
  BY <1>3, FetchViewFacts
<1>5. CInv' /\ (\A p \in Outpoints : p # o => ViewCoin(p)' = ViewCoin(p))
      /\ ViewCoin(o)' = Spent
  BY <1>1, <1>3, <1>4, ViewStep
<1> QED
  BY Zenon, <1>1, <1>5 DEF Abstract!Spend, TipKept, TipBest, ViewBest

LEMMA SetBestBlockStep ==
  ASSUME CInv, NEW h \in Hashes, SetBestBlock(h)
  PROVE  CInv' /\ Abstract!SetBest(h)
<1>1. TypeOK'
  BY DEF SetBestBlock, CInv, TypeOK
<1>2. FlagsSound' /\ FreshIsUnspent' /\ viewOpen'
  BY DEF SetBestBlock, CInv, FlagsSound, FreshIsUnspent, TipCoin
<1> QED
  BY <1>1, <1>2, CoinsAssumption
  DEF CInv, SetBestBlock, Abstract!SetBest, TipCoin, ViewCoin, TipBest, ViewBest

LEMMA DropViewStep ==
  ASSUME CInv, DropView
  PROVE  CInv' /\ Abstract!Discard
<1>1. TypeOK'
  BY Zenon DEF DropView, CInv, TypeOK, Empty
<1>2. FlagsSound' /\ FreshIsUnspent'
  BY DEF DropView, CInv, FlagsSound, FreshIsUnspent, TipCoin, Empty
<1> QED
  BY <1>1, <1>2
  DEF CInv, DropView, Abstract!Discard, TipCoin, ViewCoin, TipBest, ViewBest, Empty

\* BatchWrite hands over the coin the view has, with flags that are true of
\* the database.
LEMMA WrittenFacts ==
  ASSUME CInv, NEW o \in Outpoints
  PROVE  LET w == Written(viewCache[o], tipCache[o])
         IN  /\ w \in Entry \cup {NoEntry}
             /\ w = NoEntry => ViewCoin(o) = dbCoins[o]
             /\ w # NoEntry =>
                  /\ w.coin = ViewCoin(o)
                  /\ ~w.dirty => w.coin = dbCoins[o]
                  /\ w.fresh => dbCoins[o] = Spent /\ w.coin # Spent
<1> DEFINE t == viewCache[o]
           u == tipCache[o]
           w == Written(t, u)
<1>0. /\ t \in Entry \cup {NoEntry} /\ u \in Entry \cup {NoEntry}
      /\ dbCoins[o] \in Coins \cup {Spent}
  BY DEF CInv, TypeOK
<1>1. CASE t = NoEntry \/ (t # NoEntry /\ ~t.dirty)
  <2>1. w = u
    BY <1>1 DEF Written
  <2> QED
    BY <1>0, <1>1, <2>1 DEF CInv, FlagsSound, FreshIsUnspent, ViewCoin, TipCoin
<1>2. CASE t # NoEntry /\ t.dirty /\ u = NoEntry
  <2> DEFINE n == [coin |-> t.coin, dirty |-> TRUE, fresh |-> t.fresh]
  <2>1. w = IF t.fresh /\ t.coin = Spent THEN NoEntry ELSE n
    BY <1>2 DEF Written
  <2>2. n \in Entry
    BY <1>0, <1>2 DEF Entry
  <2>3. n # NoEntry /\ n.coin = t.coin /\ n.dirty = TRUE /\ n.fresh = t.fresh
    BY Zenon, <2>2, CoinsAssumption
  <2>4. ViewCoin(o) = t.coin /\ TipCoin(o) = dbCoins[o]
    BY <1>2 DEF ViewCoin, TipCoin
  <2>5. t.fresh => dbCoins[o] = Spent /\ t.coin # Spent
    BY <1>2, <2>4 DEF CInv, FlagsSound, FreshIsUnspent
  <2> HIDE DEF n
  <2>6. w = n
    BY <2>1, <2>5
  <2> QED
    BY <2>2, <2>3, <2>4, <2>5, <2>6
<1>3. CASE t # NoEntry /\ t.dirty /\ u # NoEntry
  <2> DEFINE n == [u EXCEPT !.coin = t.coin, !.dirty = TRUE]
  <2>1. w = IF u.fresh /\ t.coin = Spent THEN NoEntry ELSE n
    BY <1>3 DEF Written
  <2>2. n \in Entry /\ n.coin = t.coin /\ n.dirty = TRUE /\ n.fresh = u.fresh
    BY Zenon, <1>0, <1>3 DEF Entry
  <2>3. n # NoEntry
    BY <2>2, CoinsAssumption
  <2>4. u.fresh => dbCoins[o] = Spent
    BY <1>3 DEF CInv, FlagsSound
  <2>5. ViewCoin(o) = t.coin
    BY <1>3 DEF ViewCoin
  <2> HIDE DEF n
  <2>6. CASE u.fresh /\ t.coin = Spent
    BY <2>1, <2>4, <2>5, <2>6
  <2>7. CASE ~(u.fresh /\ t.coin = Spent)
    <3>1. w = n
      BY <2>1, <2>7
    <3>2. n.fresh => dbCoins[o] = Spent /\ n.coin # Spent
      BY <2>2, <2>4, <2>7
    <3> QED
      BY <2>2, <2>3, <2>5, <3>1, <3>2
  <2> QED
    BY <2>6, <2>7
<1> QED
  BY <1>1, <1>2, <1>3

LEMMA FlushViewStep ==
  ASSUME CInv, FlushView
  PROVE  CInv' /\ Abstract!Commit
<1>1. \A o \in Outpoints : tipCache'[o] = Written(viewCache[o], tipCache[o])
  BY DEF FlushView
<1>2. TypeOK'
  <2>1. tipCache' \in [Outpoints -> Entry \cup {NoEntry}]
    BY WrittenFacts DEF FlushView
  <2> QED
    BY Zenon, <2>1 DEF FlushView, CInv, TypeOK, Empty
<1>3. \A o \in Outpoints : TipCoin(o)' = ViewCoin(o) /\ ViewCoin(o)' = ViewCoin(o)
  BY <1>1, WrittenFacts DEF TipCoin, ViewCoin, FlushView, Empty
<1>4. FlagsSound' /\ FreshIsUnspent'
  BY <1>1, WrittenFacts DEF FlagsSound, FreshIsUnspent, FlushView, Empty
<1>5. TipBest' = ViewBest /\ ViewBest' = ViewBest
  BY DEF FlushView, TipBest, ViewBest, CInv
<1> QED
  BY <1>2, <1>3, <1>4, <1>5 DEF CInv, FlushView, Abstract!Commit

LEMMA FlushTipStep ==
  ASSUME CInv, FlushTip
  PROVE  CInv' /\ Abstract!Save
<1>1. \A o \in Outpoints : dbCoins'[o] = TipCoin(o)
  BY DEF FlushTip, CInv, FlagsSound, TipCoin
<1>2. TypeOK'
  <2>1. dbCoins' \in [Outpoints -> Coins \cup {Spent}]
    BY DEF FlushTip, CInv, TypeOK, Entry
  <2> QED
    BY <2>1 DEF FlushTip, CInv, TypeOK, Empty
<1>3. \A o \in Outpoints : TipCoin(o)' = TipCoin(o) /\ ViewCoin(o)' = ViewCoin(o)
  BY <1>1 DEF FlushTip, TipCoin, ViewCoin, Empty
<1>4. FlagsSound' /\ FreshIsUnspent'
  BY DEF FlushTip, CInv, FlagsSound, FreshIsUnspent, Empty
<1>5. dbCoins' = [o \in Outpoints |-> TipCoin(o)]
  BY <1>1 DEF FlushTip
<1> QED
  BY <1>2, <1>3, <1>4, <1>5 DEF CInv, FlushTip, Abstract!Save, TipBest, ViewBest

LEMMA NextStep ==
  ASSUME CInv, [Next]_vars
  PROVE  CInv' /\ [Abstract!Next]_Abstract!vars
<1>1. CASE UNCHANGED vars
  BY <1>1 DEF CInv, TypeOK, FlagsSound, FreshIsUnspent, TipCoin, ViewCoin, TipBest, ViewBest,
              Abstract!vars
<1>2. ASSUME NEW o \in Outpoints, HaveCoin(o) \/ TipHaveCoin(o) \/ Uncache(o)
      PROVE  CInv' /\ [Abstract!Next]_Abstract!vars
  BY <1>2, HaveCoinStep, TipStep, InvisibleStutters
<1>3. ASSUME NEW o \in Outpoints, SpendCoin(o)
      PROVE  CInv' /\ [Abstract!Next]_Abstract!vars
  BY <1>3, SpendCoinStep DEF Abstract!Next
<1>4. ASSUME NEW o \in Outpoints, NEW c \in Coins,
             RestoreCoin(o, c) \/ AddCoin(o, c, TRUE) \/ AddCoin(o, c, FALSE)
      PROVE  CInv' /\ [Abstract!Next]_Abstract!vars
  BY Zenon, <1>4, AddCoinStep DEF Abstract!Next
<1>5. ASSUME NEW h \in Hashes, SetBestBlock(h)
      PROVE  CInv' /\ [Abstract!Next]_Abstract!vars
  BY <1>5, SetBestBlockStep DEF Abstract!Next
<1>6. CASE OpenView
  BY <1>6, OpenViewStep, InvisibleStutters
<1>7. CASE FlushView \/ DropView \/ FlushTip
  BY <1>7, FlushViewStep, DropViewStep, FlushTipStep DEF Abstract!Next
<1> QED
  BY Zenon, <1>1, <1>2, <1>3, <1>4, <1>5, <1>6, <1>7 DEF Next

-----------------------------------------------------------------------------
\* The database, pcoinsTip and the view of a block stay well typed: an entry is
\* a coin or spent, whatever is fetched, added, spent and flushed
\* (src/coins.cpp).
THEOREM CachesTyped == Spec => []TypeOK
<1>1. CInv => TypeOK
  BY DEF CInv
<1> QED
  BY <1>1, InitCInv, NextStep, PTL DEF Spec

\* A coin created and spent between two flushes leaves no entry behind:
\* SpendCoin and BatchWrite (src/coins.cpp) erase it in every order of calls.
THEOREM FreshAlwaysUnspent == Spec => []FreshIsUnspent
<1>1. CInv => FreshIsUnspent
  BY DEF CInv
<1> QED
  BY <1>1, InitCInv, NextStep, PTL DEF Spec

\* The DIRTY and FRESH flags of CCoinsCacheEntry (src/coins.h) are true in
\* every cache at all times.
THEOREM FlagsAlwaysSound == Spec => []FlagsSound
<1>1. CInv => FlagsSound
  BY DEF CInv
<1> QED
  BY <1>1, InitCInv, NextStep, PTL DEF Spec

\* The stack of CCoinsViewCache objects behaves as three plain maps: no
\* sequence of reads, fetches, additions, spends and flushes loses a coin,
\* resurrects one, or separates the coins from the best block.
THEOREM CachesImplementView == Spec => ImplementsView
<1>1. Init => Abstract!Init
  BY DEF Init, Abstract!Init, TipCoin, ViewCoin, TipBest, ViewBest, Empty
<1> QED
  BY <1>1, InitCInv, NextStep, PTL DEF Spec, ImplementsView, Abstract!Spec
=============================================================================
