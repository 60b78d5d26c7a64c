---------------------------- MODULE CoinsProofs ----------------------------
(***************************************************************************)
(* Proofs about module Coins, for every set of outpoints, coins and        *)
(* blocks: the flags of both caches are sound after any sequence of calls, *)
(* the logic errors of coins.cpp are unreachable, and the stack of caches  *)
(* implements the plain maps of UtxoSet.                                   *)
(***************************************************************************)
EXTENDS Coins, TLAPS

-----------------------------------------------------------------------------
(* What the operations do to one entry. *)

(* NoEntry is an entry, sound over any coin. *)
LEMMA NoEntryFacts ==
    ASSUME NEW below \in Coin
    PROVE  /\ NoEntry \in Entry
           /\ EntrySound(NoEntry, below)
           /\ Seen(NoEntry, below) = below
BY DEF NoEntry, Entry, Coin, EntrySound, Seen

(* FetchCoin keeps an entry sound and does not change what is seen. *)
LEMMA FetchedFacts ==
    ASSUME NEW e \in Entry, NEW below \in Coin, EntrySound(e, below)
    PROVE  /\ Fetched(e, below) \in Entry
           /\ EntrySound(Fetched(e, below), below)
           /\ Seen(Fetched(e, below), below) = Seen(e, below)
           /\ Fetched(e, below).coin = Seen(e, below)
           /\ Seen(e, below) # Spent => Fetched(e, below).cached
<1>1. CASE e.cached
  BY <1>1 DEF Fetched, Entry, EntrySound, Seen
<1>2. CASE ~e.cached /\ below = Spent
  <2>1. e = NoEntry /\ Fetched(e, below) = NoEntry
    BY <1>2 DEF EntrySound, Fetched
  <2> QED BY <2>1, <1>2, NoEntryFacts DEF Seen, NoEntry
<1>3. CASE ~e.cached /\ below # Spent
  <2> DEFINE f == [cached |-> TRUE, coin |-> below, dirty |-> FALSE, fresh |-> FALSE]
  <2>1. Fetched(e, below) = f
    BY <1>3 DEF Fetched
  <2>2. f \in Entry /\ f.cached /\ f.coin = below /\ ~f.dirty /\ ~f.fresh
    BY DEF Entry
  <2> QED BY <2>1, <2>2, <1>3 DEF EntrySound, Seen
<1> QED BY <1>1, <1>2, <1>3

(* AddCoin keeps an entry sound when its caller keeps the contract.  *)
LEMMA AddedFacts ==
    ASSUME NEW e \in Entry, NEW below \in Coin, NEW c \in Coins,
           NEW ow \in BOOLEAN, EntrySound(e, below),
           ~ow => Seen(e, below) = Spent
    PROVE  /\ Added(e, c, ow) \in Entry
           /\ EntrySound(Added(e, c, ow), below)
           /\ Seen(Added(e, c, ow), below) = c
BY SpentAssumption DEF Added, Entry, EntrySound, Seen, NoEntry, Coin

(* SpendCoin keeps an entry sound and leaves the outpoint spent. *)
LEMMA ClearedFacts ==
    ASSUME NEW e \in Entry, NEW below \in Coin, EntrySound(e, below),
           Seen(e, below) # Spent => e.cached
    PROVE  /\ Cleared(e) \in Entry
           /\ EntrySound(Cleared(e), below)
           /\ Seen(Cleared(e), below) = Spent
BY SpentAssumption DEF Cleared, Entry, EntrySound, Seen, NoEntry, Coin

(* BatchWrite meets no misapplied flag, keeps the parent's entry sound and *)
(* makes the parent report what the child reported.                        *)
LEMMA BatchedFacts ==
    ASSUME NEW e \in Entry, NEW p \in Entry, NEW below \in Coin,
           EntrySound(p, below), EntrySound(e, Seen(p, below))
    PROVE  /\ ~BatchThrows(e, p)
           /\ Batched(e, p) \in Entry
           /\ EntrySound(Batched(e, p), below)
           /\ Seen(Batched(e, p), below) = Seen(e, Seen(p, below))
<1>1. ~BatchThrows(e, p)
  BY DEF BatchThrows, EntrySound, Seen
<1>2. CASE ~e.dirty
  <2>1. Batched(e, p) = p
    BY <1>2 DEF Batched
  <2>2. Seen(e, Seen(p, below)) = Seen(p, below)
    BY <1>2 DEF EntrySound, Seen
  <2> QED BY <1>1, <2>1, <2>2
<1>3. CASE e.dirty /\ ~p.cached
  <2> DEFINE b == [cached |-> TRUE, coin |-> e.coin, dirty |-> TRUE, fresh |-> e.fresh]
  <2>1. e.cached /\ Seen(p, below) = below
    BY <1>3 DEF EntrySound, Seen, NoEntry
  <2>2. Batched(e, p) = b
    BY <1>3 DEF Batched, EntrySound
  <2>3. b \in Entry /\ b.cached /\ b.coin = e.coin /\ b.dirty /\ b.fresh = e.fresh
    BY DEF Entry
  <2>4. EntrySound(b, below)
    BY <2>1, <2>3 DEF EntrySound
  <2> QED BY <1>1, <2>1, <2>2, <2>3, <2>4 DEF Seen
<1>4. CASE e.dirty /\ p.cached /\ p.fresh /\ e.coin = Spent
  <2>1. Batched(e, p) = NoEntry /\ e.cached /\ below = Spent
    BY <1>4 DEF Batched, EntrySound, NoEntry
  <2> QED BY <1>1, <1>4, <2>1, NoEntryFacts DEF Seen
<1>5. CASE e.dirty /\ p.cached /\ ~(p.fresh /\ e.coin = Spent)
  <2> DEFINE b == [p EXCEPT !.coin = e.coin, !.dirty = TRUE]
  <2>1. Batched(e, p) = b /\ e.cached
    BY <1>5 DEF Batched, EntrySound, NoEntry
  <2>2. b \in Entry /\ b.cached /\ b.coin = e.coin /\ b.dirty /\ b.fresh = p.fresh
    BY <1>5 DEF Entry
  <2>3. EntrySound(b, below)
    BY <2>2, <1>5 DEF EntrySound
  <2> QED BY <1>1, <2>1, <2>2, <2>3 DEF Seen
<1> QED BY <1>2, <1>3, <1>4, <1>5 DEF Entry

-----------------------------------------------------------------------------
(* The inductive invariant: the types and the soundness of the flags. *)

Inv == TypeOK /\ FlagsSound

(* Both caches report coins. *)
LEMMA ReportedCoins ==
    ASSUME TypeOK, NEW o \in Outpoints
    PROVE  /\ db[o] \in Coin /\ tip[o] \in Entry /\ view[o] \in Entry
           /\ TipCoin(o) \in Coin /\ ViewCoin(o) \in Coin
BY DEF TypeOK, TipCoin, ViewCoin, Seen, Entry

(* A lookup may fill pcoinsTip, but what it reports stays the same. *)
LEMMA TipFetchFacts ==
    ASSUME Inv, NEW o \in Outpoints, TipFetch(o)
    PROVE  /\ tip' \in [Outpoints -> Entry]
           /\ \A p \in Outpoints : EntrySound(tip'[p], db[p])
           /\ \A p \in Outpoints : Seen(tip'[p], db[p]) = TipCoin(p)
<1> DEFINE f == Fetched(tip[o], db[o])
<1>1. /\ db[o] \in Coin /\ tip[o] \in Entry
      /\ EntrySound(tip[o], db[o])
  BY ReportedCoins DEF Inv, FlagsSound
<1>2. /\ f \in Entry /\ EntrySound(f, db[o])
      /\ Seen(f, db[o]) = Seen(tip[o], db[o])
  BY <1>1, FetchedFacts
<1>3. /\ tip \in [Outpoints -> Entry]
      /\ \A p \in Outpoints : EntrySound(tip[p], db[p])
  BY DEF Inv, TypeOK, FlagsSound
<1>4. CASE view[o].cached
  BY <1>3, <1>4 DEF TipFetch, TipCoin
<1>5. CASE ~view[o].cached
  <2>1. tip' = [tip EXCEPT ![o] = f]
    BY <1>5 DEF TipFetch
  <2> QED BY <2>1, <1>2, <1>3 DEF TipCoin
<1> QED BY <1>4, <1>5

(* An operation on the open view replaces one entry by a sound one; at     *)
(* most it fills pcoinsTip on the way.                                     *)
ViewUpdate(o, e) ==
    /\ open /\ open' = open /\ UNCHANGED dbVars
    /\ e \in Entry /\ EntrySound(e, TipCoin(o))
    /\ view' = [view EXCEPT ![o] = e]
    /\ tip' \in [Outpoints -> Entry]
    /\ \A p \in Outpoints : EntrySound(tip'[p], db[p])
    /\ \A p \in Outpoints : Seen(tip'[p], db[p]) = TipCoin(p)
    /\ UNCHANGED <<tipBest, viewBest>>

(* Such an operation keeps the invariant and changes one coin of the view. *)
LEMMA ViewUpdateFacts ==
    ASSUME Inv, NEW o \in Outpoints, NEW e, ViewUpdate(o, e)
    PROVE  /\ Inv'
           /\ \A p \in Outpoints : TipCoin(p)' = TipCoin(p)
           /\ \A p \in Outpoints :
                 ViewCoin(p)' = IF p = o THEN Seen(e, TipCoin(o)) ELSE ViewCoin(p)
<1> USE DEF ViewUpdate
<1>1. \A p \in Outpoints : TipCoin(p)' = TipCoin(p)
  BY DEF TipCoin, dbVars
<1>2. TypeOK'
  BY DEF Inv, TypeOK, dbVars
<1>3. \A p \in Outpoints : view'[p] = IF p = o THEN e ELSE view[p]
  BY DEF Inv, TypeOK
<1>4. FlagsSound'
  <2>1. \A p \in Outpoints : EntrySound(tip'[p], db'[p])
    BY DEF dbVars
  <2>2. \A p \in Outpoints : EntrySound(view'[p], TipCoin(p)')
    BY <1>1, <1>3 DEF Inv, FlagsSound
  <2> QED BY <2>1, <2>2 DEF FlagsSound
<1>5. \A p \in Outpoints :
         ViewCoin(p)' = IF p = o THEN Seen(e, TipCoin(o)) ELSE ViewCoin(p)
  BY <1>1, <1>3 DEF ViewCoin
<1> QED BY <1>1, <1>2, <1>4, <1>5 DEF Inv

(* The entry FetchCoin returns in the view, over what pcoinsTip reports. *)
LEMMA FetchedInViewFacts ==
    ASSUME Inv, NEW o \in Outpoints
    PROVE  /\ TipCoin(o) \in Coin
           /\ FetchedInView(o) \in Entry
           /\ EntrySound(FetchedInView(o), TipCoin(o))
           /\ Seen(FetchedInView(o), TipCoin(o)) = ViewCoin(o)
           /\ FetchedInView(o).coin = ViewCoin(o)
           /\ ViewCoin(o) # Spent => FetchedInView(o).cached
<1>1. view[o] \in Entry /\ TipCoin(o) \in Coin /\ EntrySound(view[o], TipCoin(o))
  BY ReportedCoins DEF Inv, FlagsSound
<1> QED BY <1>1, FetchedFacts DEF FetchedInView, ViewCoin

(* GetCoin, HaveCoin and AccessCoin, as view updates. *)
LEMMA LookupFacts ==
    ASSUME Inv, NEW o \in Outpoints, Lookup(o)
    PROVE  \E e : ViewUpdate(o, e) /\ Seen(e, TipCoin(o)) = ViewCoin(o)
<1>1. ViewUpdate(o, FetchedInView(o))
  BY FetchedInViewFacts, TipFetchFacts DEF ViewUpdate, Lookup
<1> QED BY <1>1, FetchedInViewFacts

(* AddCoin of a transaction's output, as a view update. *)
LEMMA AddNewCoinFacts ==
    ASSUME Inv, NEW o \in Outpoints, NEW c \in Coins, c \notin Unspendable, AddNewCoin(o, c)
    PROVE  \E e : ViewUpdate(o, e) /\ Seen(e, TipCoin(o)) = c
<1> DEFINE e == Added(view[o], c, FALSE)
<1>1. view[o] \in Entry /\ TipCoin(o) \in Coin /\ EntrySound(view[o], TipCoin(o))
  BY ReportedCoins DEF Inv, FlagsSound
<1>2. Seen(view[o], TipCoin(o)) = Spent
  BY DEF AddNewCoin, ViewCoin
<1>3. e \in Entry /\ EntrySound(e, TipCoin(o)) /\ Seen(e, TipCoin(o)) = c
  BY <1>1, <1>2, AddedFacts
<1>4. /\ tip' \in [Outpoints -> Entry]
      /\ \A p \in Outpoints : EntrySound(tip'[p], db[p])
      /\ \A p \in Outpoints : Seen(tip'[p], db[p]) = TipCoin(p)
  BY DEF AddNewCoin, tipVars, TipCoin, Inv, TypeOK, FlagsSound
<1>5. ViewUpdate(o, e)
  BY <1>3, <1>4 DEF ViewUpdate, AddNewCoin, tipVars, dbVars
<1> QED BY <1>3, <1>5

(* AddCoin of a coinbase output, as a view update. *)
LEMMA AddCoinbaseCoinFacts ==
    ASSUME Inv, NEW o \in Outpoints, NEW c \in Coins, c \notin Unspendable, AddCoinbaseCoin(o, c)
    PROVE  \E e : ViewUpdate(o, e) /\ Seen(e, TipCoin(o)) = c
<1> DEFINE e == Added(view[o], c, TRUE)
<1>1. view[o] \in Entry /\ TipCoin(o) \in Coin /\ EntrySound(view[o], TipCoin(o))
  BY ReportedCoins DEF Inv, FlagsSound
<1>2. e \in Entry /\ EntrySound(e, TipCoin(o)) /\ Seen(e, TipCoin(o)) = c
  BY <1>1, AddedFacts
<1>3. /\ tip' \in [Outpoints -> Entry]
      /\ \A p \in Outpoints : EntrySound(tip'[p], db[p])
      /\ \A p \in Outpoints : Seen(tip'[p], db[p]) = TipCoin(p)
  BY DEF AddCoinbaseCoin, tipVars, TipCoin, Inv, TypeOK, FlagsSound
<1>4. ViewUpdate(o, e)
  BY <1>2, <1>3 DEF ViewUpdate, AddCoinbaseCoin, tipVars, dbVars
<1> QED BY <1>2, <1>4

(* AddCoin after HaveCoin (undo, roll forward), as a view update. *)
LEMMA AddCheckedCoinFacts ==
    ASSUME Inv, NEW o \in Outpoints, NEW c \in Coins, AddCheckedCoin(o, c)
    PROVE  \E e : /\ ViewUpdate(o, e)
                  /\ Seen(e, TipCoin(o)) = IF c \in Unspendable THEN ViewCoin(o) ELSE c
<1> DEFINE f == FetchedInView(o)
           ow == f.coin # Spent
           e == IF c \in Unspendable THEN f ELSE Added(f, c, ow)
<1>1. ow \in BOOLEAN
  OBVIOUS
<1>2. /\ e \in Entry /\ EntrySound(e, TipCoin(o))
      /\ Seen(e, TipCoin(o)) = IF c \in Unspendable THEN ViewCoin(o) ELSE c
  <2>1. CASE c \in Unspendable
    BY <2>1, FetchedInViewFacts
  <2>2. CASE c \notin Unspendable
    <3>1. ~ow => Seen(f, TipCoin(o)) = Spent
      BY FetchedInViewFacts
    <3>2. f \in Entry /\ TipCoin(o) \in Coin /\ EntrySound(f, TipCoin(o))
      BY FetchedInViewFacts
    <3> HIDE DEF f, ow
    <3>3. /\ Added(f, c, ow) \in Entry
          /\ EntrySound(Added(f, c, ow), TipCoin(o))
          /\ Seen(Added(f, c, ow), TipCoin(o)) = c
      BY <1>1, <3>1, <3>2, AddedFacts
    <3> QED BY <2>2, <3>3
  <2> QED BY <2>1, <2>2
<1>3. view' = [view EXCEPT ![o] = e]
  BY DEF AddCheckedCoin
<1>4. ViewUpdate(o, e)
  BY <1>2, <1>3, TipFetchFacts DEF ViewUpdate, AddCheckedCoin
<1> QED BY <1>2, <1>4

(* SpendCoin, as a view update. *)
LEMMA SpendCoinFacts ==
    ASSUME Inv, NEW o \in Outpoints, SpendCoin(o)
    PROVE  \E e : ViewUpdate(o, e) /\ Seen(e, TipCoin(o)) = Spent
<1> DEFINE e == Cleared(FetchedInView(o))
<1>1. e \in Entry /\ EntrySound(e, TipCoin(o)) /\ Seen(e, TipCoin(o)) = Spent
  BY FetchedInViewFacts, ClearedFacts
<1>2. ViewUpdate(o, e)
  BY <1>1, TipFetchFacts DEF ViewUpdate, SpendCoin
<1> QED BY <1>1, <1>2

-----------------------------------------------------------------------------
(* The operations that replace a whole cache. *)

(* Writing the view into pcoinsTip keeps the invariant, meets no logic     *)
(* error, and makes pcoinsTip report what the view reported.               *)
LEMMA FlushViewFacts ==
    ASSUME Inv, FlushView
    PROVE  /\ Inv'
           /\ \A o \in Outpoints : TipCoin(o)' = ViewCoin(o) /\ ViewCoin(o)' = ViewCoin(o)
<1>1. \A o \in Outpoints :
         /\ tip'[o] = Batched(view[o], tip[o])
         /\ tip'[o] \in Entry
         /\ EntrySound(tip'[o], db[o])
         /\ Seen(tip'[o], db[o]) = ViewCoin(o)
  <2> TAKE o \in Outpoints
  <2>1. /\ view[o] \in Entry /\ tip[o] \in Entry /\ db[o] \in Coin
        /\ EntrySound(tip[o], db[o]) /\ EntrySound(view[o], Seen(tip[o], db[o]))
    BY ReportedCoins DEF Inv, FlagsSound, TipCoin
  <2>2. tip'[o] = Batched(view[o], tip[o])
    BY DEF FlushView
  <2> QED BY <2>1, <2>2, BatchedFacts DEF ViewCoin, TipCoin
<1>2. tip' \in [Outpoints -> Entry]
  BY <1>1 DEF FlushView
<1>3. db' = db /\ dbBest' = dbBest /\ view' = Empty
  BY DEF FlushView, dbVars
<1>4. \A o \in Outpoints : TipCoin(o)' = ViewCoin(o) /\ TipCoin(o)' \in Coin
  BY <1>1, <1>3, ReportedCoins DEF TipCoin, Inv
<1>5. \A o \in Outpoints : view'[o] = NoEntry
  BY <1>3 DEF Empty
<1>6. \A o \in Outpoints : ViewCoin(o)' = ViewCoin(o) /\ EntrySound(view'[o], TipCoin(o)')
  BY <1>4, <1>5, NoEntryFacts DEF ViewCoin
<1>7. TypeOK'
  BY <1>2, <1>3, NoEntryFacts DEF FlushView, Inv, TypeOK, Empty, Coin
<1> QED BY <1>1, <1>3, <1>4, <1>6, <1>7 DEF Inv, FlagsSound

(* Dropping the view makes it report again what pcoinsTip reports. *)
LEMMA DropViewFacts ==
    ASSUME Inv, DropView
    PROVE  /\ Inv'
           /\ \A o \in Outpoints : TipCoin(o)' = TipCoin(o) /\ ViewCoin(o)' = TipCoin(o)
<1>1. db' = db /\ dbBest' = dbBest /\ tip' = tip /\ tipBest' = tipBest /\ view' = Empty
  BY DEF DropView, dbVars, tipVars
<1>2. \A o \in Outpoints : TipCoin(o)' = TipCoin(o) /\ TipCoin(o) \in Coin
  BY <1>1, ReportedCoins DEF TipCoin, Inv
<1>3. \A o \in Outpoints : view'[o] = NoEntry
  BY <1>1 DEF Empty
<1>4. \A o \in Outpoints : ViewCoin(o)' = TipCoin(o) /\ EntrySound(view'[o], TipCoin(o)')
  BY <1>2, <1>3, NoEntryFacts DEF ViewCoin
<1>5. TypeOK'
  BY <1>1, NoEntryFacts DEF DropView, Inv, TypeOK, Empty, Coin
<1> QED BY <1>1, <1>2, <1>4, <1>5 DEF Inv, FlagsSound

(* Writing pcoinsTip to the database changes only what the database holds. *)
LEMMA FlushTipFacts ==
    ASSUME Inv, FlushTip
    PROVE  /\ Inv'
           /\ \A o \in Outpoints : /\ db'[o] = TipCoin(o)
                                   /\ TipCoin(o)' = TipCoin(o) /\ ViewCoin(o)' = ViewCoin(o)
<1>1. view' = view /\ viewBest' = viewBest /\ open' = open /\ tip' = Empty /\ ~open
  BY DEF FlushTip, viewVars
<1>2. \A o \in Outpoints : db'[o] = TipCoin(o) /\ TipCoin(o) \in Coin
  <2> TAKE o \in Outpoints
  <2>1. db'[o] = IF tip[o].dirty THEN tip[o].coin ELSE db[o]
    BY DEF FlushTip
  <2>2. EntrySound(tip[o], db[o])
    BY DEF Inv, FlagsSound
  <2>3. tip[o].dirty => tip[o].cached
    BY <2>2 DEF EntrySound, NoEntry
  <2> QED BY <2>1, <2>2, <2>3, ReportedCoins DEF TipCoin, Seen, EntrySound, Inv
<1>3. db' \in [Outpoints -> Coin]
  BY <1>2 DEF FlushTip
<1>4. \A o \in Outpoints : tip'[o] = NoEntry
  BY <1>1 DEF Empty
<1>5. \A o \in Outpoints : TipCoin(o)' = TipCoin(o) /\ EntrySound(tip'[o], db'[o])
  BY <1>2, <1>4, NoEntryFacts DEF TipCoin
<1>6. \A o \in Outpoints : ViewCoin(o)' = ViewCoin(o)
  BY <1>1, <1>5 DEF ViewCoin
<1>7. TypeOK'
  BY <1>1, <1>3, NoEntryFacts DEF FlushTip, Inv, TypeOK, Empty, Coin, TipBestBlock, BestBlock
<1> QED BY <1>1, <1>2, <1>5, <1>6, <1>7 DEF Inv, FlagsSound

(* Filling or emptying a clean entry of pcoinsTip changes no report. *)
LEMMA TipEntryFacts ==
    ASSUME Inv, NEW o \in Outpoints, TipLookup(o) \/ Uncache(o)
    PROVE  /\ Inv'
           /\ \A p \in Outpoints : TipCoin(p)' = TipCoin(p) /\ ViewCoin(p)' = ViewCoin(p)
<1> DEFINE e == tip'[o]
<1>1. /\ db' = db /\ dbBest' = dbBest /\ tipBest' = tipBest /\ ~open
      /\ view' = view /\ viewBest' = viewBest /\ open' = open
  BY DEF TipLookup, Uncache, dbVars, viewVars
<1>2. db[o] \in Coin /\ tip[o] \in Entry /\ EntrySound(tip[o], db[o])
  BY ReportedCoins DEF Inv, FlagsSound
<1>3. e \in Entry /\ EntrySound(e, db[o]) /\ Seen(e, db[o]) = TipCoin(o)
  <2>1. CASE TipLookup(o)
    <3>1. e = Fetched(tip[o], db[o])
      BY <2>1 DEF TipLookup, Inv, TypeOK
    <3> QED BY <3>1, <1>2, FetchedFacts DEF TipCoin
  <2>2. CASE Uncache(o)
    <3>1. e = NoEntry
      BY <2>2 DEF Uncache, Inv, TypeOK
    <3>2. Seen(NoEntry, db[o]) = TipCoin(o)
      BY <2>2, <1>2, NoEntryFacts DEF Uncache, TipCoin, Seen, EntrySound
    <3> QED BY <3>1, <3>2, <1>2, NoEntryFacts
  <2> QED BY <2>1, <2>2
<1>4. /\ tip' \in [Outpoints -> Entry]
      /\ \A p \in Outpoints : p # o => tip'[p] = tip[p]
  BY <1>3 DEF TipLookup, Uncache, Inv, TypeOK
<1>5. \A p \in Outpoints : EntrySound(tip'[p], db'[p]) /\ TipCoin(p)' = TipCoin(p)
  BY <1>1, <1>3, <1>4 DEF Inv, FlagsSound, TipCoin
<1>6. \A p \in Outpoints : ViewCoin(p)' = ViewCoin(p)
  BY <1>1, <1>5 DEF ViewCoin
<1>7. TypeOK'
  BY <1>1, <1>4 DEF Inv, TypeOK
<1> QED BY <1>1, <1>5, <1>6, <1>7 DEF Inv, FlagsSound

(* The best-block operations and the opening of a view touch no coin. *)
LEMMA BestBlockFacts ==
    ASSUME Inv, OpenView \/ GetBestBlock \/ \E b \in Blocks : SetBestBlock(b)
    PROVE  /\ Inv'
           /\ \A p \in Outpoints : TipCoin(p)' = TipCoin(p) /\ ViewCoin(p)' = ViewCoin(p)
<1>1. /\ db' = db /\ dbBest' = dbBest /\ tip' = tip /\ view' = view
      /\ open' /\ open' \in BOOLEAN
  BY DEF OpenView, GetBestBlock, SetBestBlock, dbVars, tipVars, Inv, TypeOK
<1>2. \A p \in Outpoints : TipCoin(p)' = TipCoin(p) /\ ViewCoin(p)' = ViewCoin(p)
  BY <1>1 DEF TipCoin, ViewCoin
<1>3. tipBest' \in Blocks \cup {NullHash} /\ viewBest' \in Blocks \cup {NullHash}
  BY DEF OpenView, GetBestBlock, SetBestBlock, tipVars, Inv, TypeOK,
         BestBlock, TipBestBlock, ViewBestBlock
<1>4. TypeOK' /\ FlagsSound'
  BY <1>1, <1>2, <1>3 DEF Inv, TypeOK, FlagsSound
<1> QED BY <1>2, <1>4 DEF Inv

-----------------------------------------------------------------------------
(* The theorems. *)

(* The initial state satisfies the inductive invariant. *)
LEMMA InitInv == Init => Inv
<1> SUFFICES ASSUME Init PROVE Inv
  OBVIOUS
<1>1. TypeOK
  BY NoEntryFacts DEF Init, TypeOK, Empty, Coin
<1>2. \A o \in Outpoints : tip[o] = NoEntry /\ view[o] = NoEntry /\ db[o] \in Coin
  BY DEF Init, Empty, Coin
<1>3. FlagsSound
  BY <1>2, NoEntryFacts DEF FlagsSound, TipCoin, Coin
<1> QED BY <1>1, <1>3 DEF Inv

(* Every step keeps the inductive invariant and is, for the plain maps, a  *)
(* step of UtxoSet or no step at all.                                      *)
LEMMA StepFacts ==
    ASSUME Inv, [Next]_vars
    PROVE  Inv' /\ [Abstract!Next]_(Abstract!vars)
<1> DEFINE Work == [o \in Outpoints |-> ViewCoin(o)]
           Utxo == [o \in Outpoints |-> TipCoin(o)]
<1>bests. ASSUME UNCHANGED <<dbBest, tipBest, viewBest>>
          PROVE  ViewBestBlock' = ViewBestBlock /\ TipBestBlock' = TipBestBlock
  BY <1>bests DEF ViewBestBlock, TipBestBlock, BestBlock
<1>same. ASSUME \A p \in Outpoints : TipCoin(p)' = TipCoin(p) /\ ViewCoin(p)' = ViewCoin(p)
         PROVE  Work' = Work /\ Utxo' = Utxo
  BY <1>same
<1>stutter. ASSUME \A p \in Outpoints : TipCoin(p)' = TipCoin(p) /\ ViewCoin(p)' = ViewCoin(p),
                   db' = db, open' = open, dbBest' = dbBest,
                   ViewBestBlock' = ViewBestBlock, TipBestBlock' = TipBestBlock
            PROVE  UNCHANGED Abstract!vars
  BY <1>stutter, <1>same DEF Abstract!vars, Abstract!coins, Abstract!bests
<1>update. ASSUME NEW o \in Outpoints, NEW e, ViewUpdate(o, e)
           PROVE  /\ Inv' /\ open /\ open' = open /\ db' = db /\ Utxo' = Utxo
                  /\ Work' = [Work EXCEPT ![o] = Seen(e, TipCoin(o))]
                  /\ dbBest' = dbBest
                  /\ ViewBestBlock' = ViewBestBlock /\ TipBestBlock' = TipBestBlock
  <2>1. /\ Inv'
        /\ \A p \in Outpoints : TipCoin(p)' = TipCoin(p)
        /\ \A p \in Outpoints :
              ViewCoin(p)' = IF p = o THEN Seen(e, TipCoin(o)) ELSE ViewCoin(p)
    BY <1>update, ViewUpdateFacts
  <2>2. Work' = [Work EXCEPT ![o] = Seen(e, TipCoin(o))] /\ Utxo' = Utxo
    BY <2>1
  <2>3. UNCHANGED <<dbBest, tipBest, viewBest>>
    BY <1>update DEF ViewUpdate, dbVars
  <2> QED BY <1>update, <2>1, <2>2, <2>3, <1>bests DEF ViewUpdate, dbVars
<1>1. CASE OpenView
  <2>1. Inv' /\ \A p \in Outpoints : TipCoin(p)' = TipCoin(p) /\ ViewCoin(p)' = ViewCoin(p)
    BY <1>1, BestBlockFacts
  <2>2. Abstract!Begin
    BY <1>1, <2>1, <1>same, <1>bests
    DEF OpenView, dbVars, tipVars, Abstract!Begin, Abstract!coins, Abstract!bests
  <2> QED BY <2>1, <2>2 DEF Abstract!Next
<1>2. CASE GetBestBlock
  <2>1. Inv' /\ \A p \in Outpoints : TipCoin(p)' = TipCoin(p) /\ ViewCoin(p)' = ViewCoin(p)
    BY <1>2, BestBlockFacts
  <2>2. ViewBestBlock' = ViewBestBlock /\ TipBestBlock' = TipBestBlock
    BY <1>2 DEF GetBestBlock, dbVars, ViewBestBlock, TipBestBlock, BestBlock
  <2> QED BY <1>2, <2>1, <2>2, <1>stutter DEF GetBestBlock, dbVars
<1>3. CASE FlushView
  <2>1. /\ Inv'
        /\ \A o \in Outpoints : TipCoin(o)' = ViewCoin(o) /\ ViewCoin(o)' = ViewCoin(o)
    BY <1>3, FlushViewFacts
  <2>2. Work' = Work /\ Utxo' = Work
    BY <2>1
  <2>3. ViewBestBlock' = ViewBestBlock /\ TipBestBlock' = ViewBestBlock
    BY <1>3 DEF FlushView, dbVars, ViewBestBlock, TipBestBlock, BestBlock
  <2>4. Abstract!Commit
    BY <1>3, <2>2, <2>3 DEF FlushView, dbVars, Abstract!Commit
  <2> QED BY <2>1, <2>4 DEF Abstract!Next
<1>4. CASE DropView
  <2>1. /\ Inv'
        /\ \A o \in Outpoints : TipCoin(o)' = TipCoin(o) /\ ViewCoin(o)' = TipCoin(o)
    BY <1>4, DropViewFacts
  <2>2. Work' = Utxo /\ Utxo' = Utxo
    BY <2>1
  <2>3. ViewBestBlock' = TipBestBlock /\ TipBestBlock' = TipBestBlock
    BY <1>4 DEF DropView, dbVars, tipVars, ViewBestBlock, TipBestBlock, BestBlock
  <2>4. Abstract!Drop
    BY <1>4, <2>2, <2>3 DEF DropView, dbVars, Abstract!Drop
  <2> QED BY <2>1, <2>4 DEF Abstract!Next
<1>5. CASE FlushTip
  <2>1. /\ Inv'
        /\ \A o \in Outpoints : /\ db'[o] = TipCoin(o)
                                /\ TipCoin(o)' = TipCoin(o) /\ ViewCoin(o)' = ViewCoin(o)
    BY <1>5, FlushTipFacts
  <2>2. db' = Utxo
    BY <1>5, <2>1 DEF FlushTip
  <2>3. /\ ViewBestBlock' = ViewBestBlock /\ TipBestBlock' = TipBestBlock
        /\ dbBest' = TipBestBlock
    BY <1>5 DEF FlushTip, viewVars, ViewBestBlock, TipBestBlock, BestBlock
  <2>4. Abstract!Persist
    BY <1>5, <2>1, <2>2, <2>3, <1>same DEF FlushTip, viewVars, Abstract!Persist
  <2> QED BY <2>1, <2>4 DEF Abstract!Next
<1>6. ASSUME NEW o \in Outpoints, Lookup(o)
      PROVE  Inv' /\ [Abstract!Next]_(Abstract!vars)
  <2>1. PICK e : ViewUpdate(o, e) /\ Seen(e, TipCoin(o)) = ViewCoin(o)
    BY <1>6, LookupFacts
  <2>2. Work' = Work
    <3>1. Work' = [Work EXCEPT ![o] = ViewCoin(o)]
      BY <2>1, <1>update
    <3>2. [Work EXCEPT ![o] = ViewCoin(o)] = Work
      OBVIOUS
    <3> QED BY <3>1, <3>2
  <2> QED BY <2>1, <2>2, <1>update DEF Abstract!vars, Abstract!coins, Abstract!bests
<1>7. ASSUME NEW o \in Outpoints, SpendCoin(o)
      PROVE  Inv' /\ [Abstract!Next]_(Abstract!vars)
  <2>1. PICK e : ViewUpdate(o, e) /\ Seen(e, TipCoin(o)) = Spent
    BY <1>7, SpendCoinFacts
  <2>2. Abstract!Spend(o)
    BY <2>1, <1>update DEF Abstract!Spend, Abstract!bests
  <2> QED BY <2>1, <2>2, <1>update DEF Abstract!Next
<1>8. ASSUME NEW o \in Outpoints, TipLookup(o) \/ Uncache(o)
      PROVE  Inv' /\ [Abstract!Next]_(Abstract!vars)
  <2>1. Inv' /\ \A p \in Outpoints : TipCoin(p)' = TipCoin(p) /\ ViewCoin(p)' = ViewCoin(p)
    BY <1>8, TipEntryFacts
  <2>2. UNCHANGED <<dbVars, viewVars, tipBest>>
    BY <1>8 DEF TipLookup, Uncache
  <2> QED BY <2>1, <2>2, <1>bests, <1>stutter DEF dbVars, viewVars
<1>9. ASSUME NEW o \in Outpoints, NEW c \in Coins,
             AddNewCoin(o, c) \/ AddCoinbaseCoin(o, c) \/ AddCheckedCoin(o, c)
      PROVE  Inv' /\ [Abstract!Next]_(Abstract!vars)
  <2>1. CASE c \in Unspendable /\ ~AddCheckedCoin(o, c)
    <3>1. UNCHANGED vars
      BY <1>9, <2>1 DEF AddNewCoin, AddCoinbaseCoin, vars, viewVars
    <3>2. /\ Inv'
          /\ \A p \in Outpoints : TipCoin(p)' = TipCoin(p) /\ ViewCoin(p)' = ViewCoin(p)
      BY <3>1 DEF vars, dbVars, tipVars, viewVars, Inv, TypeOK, FlagsSound, TipCoin, ViewCoin
    <3> QED BY <3>1, <3>2, <1>bests, <1>stutter DEF vars, dbVars, tipVars, viewVars
  <2>2. CASE c \notin Unspendable \/ AddCheckedCoin(o, c)
    <3>1. PICK e : /\ ViewUpdate(o, e)
                   /\ Seen(e, TipCoin(o)) = IF c \in Unspendable THEN ViewCoin(o) ELSE c
      BY <1>9, <2>2, AddNewCoinFacts, AddCoinbaseCoinFacts, AddCheckedCoinFacts
    <3>2. Work' = IF c \in Unspendable THEN Work ELSE [Work EXCEPT ![o] = c]
      BY <3>1, <1>update
    <3>3. Abstract!Add(o, c)
      BY <3>1, <3>2, <1>update DEF Abstract!Add, Abstract!bests
    <3> QED BY <3>1, <3>3, <1>update DEF Abstract!Next
  <2> QED BY <2>1, <2>2
<1>10. ASSUME NEW b \in Blocks, SetBestBlock(b)
       PROVE  Inv' /\ [Abstract!Next]_(Abstract!vars)
  <2>1. Inv' /\ \A p \in Outpoints : TipCoin(p)' = TipCoin(p) /\ ViewCoin(p)' = ViewCoin(p)
    BY <1>10, BestBlockFacts
  <2>2. ViewBestBlock' = b /\ TipBestBlock' = TipBestBlock
    BY <1>10, NullAssumption
    DEF SetBestBlock, dbVars, tipVars, ViewBestBlock, TipBestBlock, BestBlock
  <2>3. Abstract!MoveTo(b)
    BY <1>10, <2>1, <2>2, <1>same DEF SetBestBlock, dbVars, Abstract!MoveTo, Abstract!coins
  <2> QED BY <2>1, <2>3 DEF Abstract!Next
<1>11. CASE UNCHANGED vars
  <2>1. /\ Inv'
        /\ \A p \in Outpoints : TipCoin(p)' = TipCoin(p) /\ ViewCoin(p)' = ViewCoin(p)
    BY <1>11 DEF vars, dbVars, tipVars, viewVars, Inv, TypeOK, FlagsSound, TipCoin, ViewCoin
  <2> QED BY <1>11, <2>1, <1>bests, <1>stutter DEF vars, dbVars, tipVars, viewVars
<1> QED BY <1>1, <1>2, <1>3, <1>4, <1>5, <1>6, <1>7, <1>8, <1>9, <1>10, <1>11 DEF Next

(* Every state of the caches has its type, and a closed view is empty. *)
THEOREM TypeCorrect == Spec => []TypeOK
<1>1. Init => Inv
  BY InitInv
<1>2. Inv /\ [Next]_vars => Inv'
  BY StepFacts
<1>3. Inv => TypeOK
  BY DEF Inv
<1> QED BY <1>1, <1>2, <1>3, PTL DEF Spec

(* FRESH and DIRTY tell the truth in both caches after any sequence of     *)
(* CCoinsViewCache calls.                                                  *)
THEOREM FlagsCorrect == Spec => []FlagsSound
<1>1. Init => Inv
  BY InitInv
<1>2. Inv /\ [Next]_vars => Inv'
  BY StepFacts
<1>3. Inv => FlagsSound
  BY DEF Inv
<1> QED BY <1>1, <1>2, <1>3, PTL DEF Spec

(* The logic_error throws of BatchWrite and AddCoin are unreachable. *)
THEOREM LogicErrorFree == Spec => []NoLogicError
<1>1. Init => Inv
  BY InitInv
<1>2. Inv /\ [Next]_vars => Inv'
  BY StepFacts
<1>3. Inv => NoLogicError
  <2> SUFFICES ASSUME Inv, NEW o \in Outpoints
               PROVE  /\ ~BatchThrows(view[o], tip[o])
                      /\ ViewCoin(o) = Spent => ~AddThrows(view[o], FALSE)
    BY DEF NoLogicError
  <2>1. /\ view[o] \in Entry /\ tip[o] \in Entry /\ db[o] \in Coin
        /\ EntrySound(tip[o], db[o]) /\ EntrySound(view[o], Seen(tip[o], db[o]))
    BY ReportedCoins DEF Inv, FlagsSound, TipCoin
  <2>2. ~BatchThrows(view[o], tip[o])
    BY <2>1, BatchedFacts
  <2>3. ViewCoin(o) = Spent => ~AddThrows(view[o], FALSE)
    BY <2>1 DEF ViewCoin, Seen, AddThrows, EntrySound, NoEntry
  <2> QED BY <2>2, <2>3
<1> QED BY <1>1, <1>2, <1>3, PTL DEF Spec

(* SpendCoin and AddCoin take effect on the view at once. *)
THEOREM EffectsCorrect == Spec => CallsTakeEffect
<1> DEFINE Effects ==
        \A o \in Outpoints :
            /\ SpendCoin(o) => ViewCoin(o)' = Spent
            /\ \A c \in Coins \ Unspendable :
                  AddNewCoin(o, c) \/ AddCoinbaseCoin(o, c) \/ AddCheckedCoin(o, c)
                      => ViewCoin(o)' = c
<1>1. Init => Inv
  BY InitInv
<1>2. Inv /\ [Next]_vars => Inv'
  BY StepFacts
<1>3. Inv => Effects
  <2> SUFFICES ASSUME Inv, NEW o \in Outpoints, NEW x,
                      \/ SpendCoin(o) /\ x = Spent
                      \/ /\ x \in Coins \ Unspendable
                         /\ AddNewCoin(o, x) \/ AddCoinbaseCoin(o, x) \/ AddCheckedCoin(o, x)
               PROVE  ViewCoin(o)' = x
    OBVIOUS
  <2>1. PICK e : ViewUpdate(o, e) /\ Seen(e, TipCoin(o)) = x
    BY SpendCoinFacts, AddNewCoinFacts, AddCoinbaseCoinFacts, AddCheckedCoinFacts
  <2> QED BY <2>1, ViewUpdateFacts
<1>4. Inv /\ [Next]_vars => [Effects]_vars
  BY <1>3
<1> QED BY <1>1, <1>2, <1>4, PTL DEF Spec, CallsTakeEffect

(* The caches implement the plain maps: what any layer reports is changed  *)
(* by adding, spending, committing, dropping and flushing only, never by   *)
(* caching.                                                                *)
THEOREM CachesImplementUtxoSet == Spec => ImplementsUtxoSet
<1>1. Init => Inv /\ Abstract!Init
  <2> SUFFICES ASSUME Init PROVE Inv /\ Abstract!Init
    OBVIOUS
  <2>1. \A o \in Outpoints : TipCoin(o) = Spent /\ ViewCoin(o) = Spent
    BY DEF Init, Empty, NoEntry, TipCoin, ViewCoin, Seen
  <2>2. ViewBestBlock = NullHash /\ TipBestBlock = NullHash /\ dbBest = NullHash
    BY DEF Init, ViewBestBlock, TipBestBlock, BestBlock
  <2> QED BY <2>1, <2>2, InitInv DEF Init, Abstract!Init
<1>2. Inv /\ [Next]_vars => Inv' /\ [Abstract!Next]_(Abstract!vars)
  BY StepFacts
<1> QED BY <1>1, <1>2, PTL DEF Spec, ImplementsUtxoSet, Abstract!Spec
=============================================================================
