------------------------------- MODULE Coins -------------------------------
(***************************************************************************)
(* The stack of coins views: a short-lived CCoinsViewCache (the view that  *)
(* ConnectTip, DisconnectTip, AcceptToMemoryPool or VerifyDB opens) over   *)
(* pcoinsTip, itself a CCoinsViewCache, over the chainstate database.      *)
(*                                                                         *)
(* An entry of cacheCoins keeps a coin and two flags.  DIRTY says the      *)
(* coin may differ from what the view below reports; FRESH says the view   *)
(* below has no unspent coin here, so that spending the coin may forget    *)
(* the entry instead of passing the deletion down.  A misapplied flag      *)
(* loses a coin or resurrects a spent one many operations later, when the  *)
(* cache is written down.                                                  *)
(*                                                                         *)
(* Abstracted: the salted hash map is a function over all outpoints (the   *)
(* entries are independent, so the order of BatchWrite's loop shows in no  *)
(* result), memory accounting is left out, and a coin is an opaque value.  *)
(* Everything here runs under cs_main: an operation is one step, and       *)
(* pcoinsTip is written only while no view is open on it.  The database    *)
(* write is one step here; module ChainFlush splits and crashes it.        *)
(***************************************************************************)
CONSTANTS
    Outpoints,    \* the outpoints (txid, n)
    Coins,        \* the values of an unspent output
    Unspendable,  \* the coins with scriptPubKey.IsUnspendable()
    Spent,        \* a Coin with IsSpent(): Clear()ed or default-built
    Blocks,       \* block hashes
    NullHash      \* uint256()

ASSUME SpentAssumption == Spent \notin Coins
ASSUME NullAssumption == NullHash \notin Blocks

VARIABLES
    db,       \* CCoinsViewDB: the coin records
    dbBest,   \* CCoinsViewDB: DB_BEST_BLOCK
    tip,      \* pcoinsTip->cacheCoins
    tipBest,  \* pcoinsTip->hashBlock
    view,     \* cacheCoins of the open view
    viewBest, \* hashBlock of the open view
    open      \* a view is open on pcoinsTip

dbVars == <<db, dbBest>>
tipVars == <<tip, tipBest>>
viewVars == <<view, viewBest, open>>
vars == <<dbVars, tipVars, viewVars>>

-----------------------------------------------------------------------------
(* Cache entries. *)

Coin == Coins \cup {Spent}

(* CCoinsCacheEntry, and whether cacheCoins has one at all. *)
Entry == [cached : BOOLEAN, coin : Coin, dirty : BOOLEAN, fresh : BOOLEAN]

(* No entry in the map; emplace() builds an entry with the same contents:   *)
(* a default Coin and no flags.                                             *)
NoEntry == [cached |-> FALSE, coin |-> Spent, dirty |-> FALSE, fresh |-> FALSE]

Empty == [o \in Outpoints |-> NoEntry]

(* What GetCoin reports for an entry e over a base that reports below. *)
Seen(e, below) == IF e.cached THEN e.coin ELSE below

(* FetchCoin: on a miss the base's coin is copied in, unless the base has  *)
(* none.  (GetCoin is true of unspent coins only, so the FRESH mark of the *)
(* code's last branch is never set.)                                       *)
Fetched(e, below) ==
    IF e.cached \/ below = Spent
    THEN e
    ELSE [cached |-> TRUE, coin |-> below, dirty |-> FALSE, fresh |-> FALSE]

(* AddCoin: throws on an unspent entry the caller did not announce. *)
AddThrows(e, possible_overwrite) ==
    ~possible_overwrite /\ e.coin # Spent

(* Mutant: any coin that is no overwrite is taken for FRESH. *)
AddedAlwaysFresh(e, c, possible_overwrite) ==
    [cached |-> TRUE, coin |-> c, dirty |-> TRUE,
     fresh |-> e.fresh \/ ~possible_overwrite]

Added(e, c, possible_overwrite) ==
    [cached |-> TRUE, coin |-> c, dirty |-> TRUE,
     fresh |-> e.fresh \/ (~possible_overwrite /\ ~e.dirty)]

(* Mutant: an unmodified entry is forgotten as if it were FRESH. *)
ClearedForgets(e) ==
    IF ~e.cached \/ e.fresh \/ ~e.dirty
    THEN NoEntry
    ELSE [e EXCEPT !.dirty = TRUE, !.coin = Spent]

(* SpendCoin on the entry FetchCoin returned. *)
Cleared(e) ==
    IF ~e.cached \/ e.fresh
    THEN NoEntry
    ELSE [e EXCEPT !.dirty = TRUE, !.coin = Spent]

(* BatchWrite, one entry: e of the child into p of the parent. *)
BatchThrows(e, p) ==
    e.dirty /\ e.fresh /\ p.cached /\ p.coin # Spent

(* Mutant: a deletion is dropped when the parent has no entry. *)
BatchedDropsSpent(e, p) ==
    IF ~e.dirty \/ (~p.cached /\ e.coin = Spent) THEN p
    ELSE IF ~p.cached
         THEN [cached |-> TRUE, coin |-> e.coin, dirty |-> TRUE, fresh |-> e.fresh]
         ELSE IF p.fresh /\ e.coin = Spent THEN NoEntry
              ELSE [p EXCEPT !.coin = e.coin, !.dirty = TRUE]

(* Mutant: the child's FRESH flag is copied into an existing entry. *)
BatchedCopiesFresh(e, p) ==
    IF ~e.dirty THEN p
    ELSE IF ~p.cached
         THEN IF e.fresh /\ e.coin = Spent THEN p
              ELSE [cached |-> TRUE, coin |-> e.coin, dirty |-> TRUE, fresh |-> e.fresh]
         ELSE IF p.fresh /\ e.coin = Spent THEN NoEntry
              ELSE [p EXCEPT !.coin = e.coin, !.dirty = TRUE, !.fresh = @ \/ e.fresh]

Batched(e, p) ==
    IF ~e.dirty THEN p
    ELSE IF ~p.cached
         THEN IF e.fresh /\ e.coin = Spent THEN p
              ELSE [cached |-> TRUE, coin |-> e.coin, dirty |-> TRUE, fresh |-> e.fresh]
         ELSE IF p.fresh /\ e.coin = Spent THEN NoEntry
              ELSE [p EXCEPT !.coin = e.coin, !.dirty = TRUE]

-----------------------------------------------------------------------------
(* What each layer reports for an outpoint, and its best block. *)

TipCoin(o) == Seen(tip[o], db[o])
ViewCoin(o) == Seen(view[o], TipCoin(o))

BestBlock(hash, below) == IF hash = NullHash THEN below ELSE hash
TipBestBlock == BestBlock(tipBest, dbBest)
ViewBestBlock == BestBlock(viewBest, TipBestBlock)

(* A lookup in the view that misses is a lookup in pcoinsTip, which may     *)
(* itself miss and copy the coin from the database.                         *)
TipFetch(o) ==
    tip' = IF view[o].cached THEN tip ELSE [tip EXCEPT ![o] = Fetched(@, db[o])]

FetchedInView(o) == Fetched(view[o], TipCoin(o))

-----------------------------------------------------------------------------
Init ==
    /\ db = [o \in Outpoints |-> Spent] /\ dbBest = NullHash
    /\ tip = Empty /\ tipBest = NullHash
    /\ view = Empty /\ viewBest = NullHash /\ open = FALSE

(* CCoinsViewCache view(pcoinsTip.get()) *)
OpenView ==
    /\ ~open /\ open' = TRUE
    /\ UNCHANGED <<dbVars, tipVars, view, viewBest>>

(* view.HaveCoin, AccessCoin, GetCoin *)
Lookup(o) ==
    /\ open
    /\ TipFetch(o)
    /\ view' = [view EXCEPT ![o] = FetchedInView(o)]
    /\ UNCHANGED <<dbVars, tipBest, viewBest, open>>

(* AddCoins(view, tx, nHeight) for a transaction that is no coinbase: the  *)
(* caller passes possible_overwrite = false, relying on the outpoint being *)
(* new to the view (a transaction id never repeats while outputs of it are *)
(* unspent).                                                               *)
AddNewCoin(o, c) ==
    /\ open /\ ViewCoin(o) = Spent
    /\ view' = IF c \in Unspendable THEN view
               ELSE [view EXCEPT ![o] = Added(@, c, FALSE)]
    /\ UNCHANGED <<dbVars, tipVars, viewBest, open>>

(* The same for a coinbase transaction: possible_overwrite = fCoinbase. *)
AddCoinbaseCoin(o, c) ==
    /\ open
    /\ view' = IF c \in Unspendable THEN view
               ELSE [view EXCEPT ![o] = Added(@, c, TRUE)]
    /\ UNCHANGED <<dbVars, tipVars, viewBest, open>>

(* AddCoins(.., check = true) of RollforwardBlock, and ApplyTxInUndo:      *)
(* possible_overwrite is what HaveCoin answered.                           *)
AddCheckedCoin(o, c) ==
    /\ open
    /\ TipFetch(o)
    /\ LET e == FetchedInView(o)
       IN  view' = [view EXCEPT ![o] =
                       IF c \in Unspendable THEN e ELSE Added(e, c, e.coin # Spent)]
    /\ UNCHANGED <<dbVars, tipBest, viewBest, open>>

SpendCoin(o) ==
    /\ open
    /\ TipFetch(o)
    /\ view' = [view EXCEPT ![o] = Cleared(FetchedInView(o))]
    /\ UNCHANGED <<dbVars, tipBest, viewBest, open>>

(* view.GetBestBlock() fills hashBlock from the base, at both levels. *)
GetBestBlock ==
    /\ open
    /\ viewBest' = ViewBestBlock
    /\ tipBest' = IF viewBest = NullHash THEN TipBestBlock ELSE tipBest
    /\ UNCHANGED <<dbVars, tip, view, open>>

SetBestBlock(b) ==
    /\ open
    /\ viewBest' = b
    /\ UNCHANGED <<dbVars, tipVars, view, open>>

(* view.Flush(): BatchWrite into pcoinsTip.  ConnectBlock and              *)
(* DisconnectBlock have set the view's best block before they return.      *)
FlushView ==
    /\ open /\ viewBest # NullHash
    /\ \A o \in Outpoints : ~BatchThrows(view[o], tip[o])
    /\ tip' = [o \in Outpoints |-> Batched(view[o], tip[o])]
    /\ tipBest' = viewBest
    /\ view' = Empty /\ viewBest' = NullHash /\ open' = FALSE
    /\ UNCHANGED dbVars

(* Mutant: the view's cache outlives the view. *)
DropViewKeepsCache ==
    /\ open
    /\ open' = FALSE
    /\ UNCHANGED <<dbVars, tipVars, view, viewBest>>

(* The view goes out of scope without a Flush. *)
DropView ==
    /\ open
    /\ view' = Empty /\ viewBest' = NullHash /\ open' = FALSE
    /\ UNCHANGED <<dbVars, tipVars>>

(* pcoinsTip->HaveCoin, AccessCoin: lookups by the RPC and net code. *)
TipLookup(o) ==
    /\ ~open
    /\ tip' = [tip EXCEPT ![o] = Fetched(@, db[o])]
    /\ UNCHANGED <<dbVars, tipBest, viewVars>>

(* pcoinsTip->Uncache, for the coins a refused transaction pulled in. *)
Uncache(o) ==
    /\ ~open
    /\ tip[o].cached /\ ~tip[o].dirty /\ ~tip[o].fresh
    /\ tip' = [tip EXCEPT ![o] = NoEntry]
    /\ UNCHANGED <<dbVars, tipBest, viewVars>>

(* pcoinsTip->Flush() of FlushStateToDisk, which asks GetBestBlock first. *)
FlushTip ==
    /\ ~open /\ TipBestBlock # NullHash
    /\ db' = [o \in Outpoints |-> IF tip[o].dirty THEN tip[o].coin ELSE db[o]]
    /\ dbBest' = TipBestBlock /\ tipBest' = TipBestBlock
    /\ tip' = Empty
    /\ UNCHANGED viewVars

Next ==
    \/ OpenView \/ GetBestBlock \/ FlushView \/ DropView \/ FlushTip
    \/ \E o \in Outpoints :
          \/ Lookup(o) \/ SpendCoin(o) \/ TipLookup(o) \/ Uncache(o)
          \/ \E c \in Coins : AddNewCoin(o, c) \/ AddCoinbaseCoin(o, c) \/ AddCheckedCoin(o, c)
    \/ \E b \in Blocks : SetBestBlock(b)

Spec == Init /\ [][Next]_vars

-----------------------------------------------------------------------------
(* Properties. *)

(* Every variable has its type, and a view that is not open holds nothing: *)
(* each CCoinsViewCache starts empty.                                      *)
TypeOK ==
    /\ db \in [Outpoints -> Coin] /\ dbBest \in Blocks \cup {NullHash}
    /\ tip \in [Outpoints -> Entry] /\ tipBest \in Blocks \cup {NullHash}
    /\ view \in [Outpoints -> Entry] /\ viewBest \in Blocks \cup {NullHash}
    /\ open \in BOOLEAN
    /\ ~open => view = Empty /\ viewBest = NullHash

(* The flags of an entry e tell the truth about the layer below. *)
EntrySound(e, below) ==
    /\ ~e.cached => e = NoEntry
    /\ e.fresh => e.dirty /\ e.coin # Spent /\ below = Spent
    /\ e.cached /\ ~e.dirty => e.coin = below /\ e.coin # Spent

(* In both caches FRESH entries hide nothing below, clean entries mirror   *)
(* the layer below, and an entry that hides a spent coin is DIRTY: what    *)
(* the comments on CCoinsCacheEntry::Flags require, after any sequence of  *)
(* calls.                                                                  *)
FlagsSound ==
    /\ \A o \in Outpoints : EntrySound(tip[o], db[o])
    /\ \A o \in Outpoints : EntrySound(view[o], TipCoin(o))

(* The two std::logic_error throws of coins.cpp are unreachable: BatchWrite *)
(* meets no misapplied FRESH flag, and AddCoin replaces no unspent entry,   *)
(* whenever its caller keeps the contract that the view has no such coin.   *)
NoLogicError ==
    open => \A o \in Outpoints :
               /\ ~BatchThrows(view[o], tip[o])
               /\ ViewCoin(o) = Spent => ~AddThrows(view[o], FALSE)

(* A call has its effect on what the view reports at once, whatever is     *)
(* cached where: after SpendCoin the coin is gone, after AddCoin it is the *)
(* new one.                                                                *)
CallsTakeEffect ==
    [][\A o \in Outpoints :
          /\ SpendCoin(o) => ViewCoin(o)' = Spent
          /\ \A c \in Coins \ Unspendable :
                AddNewCoin(o, c) \/ AddCoinbaseCoin(o, c) \/ AddCheckedCoin(o, c)
                    => ViewCoin(o)' = c]_vars

(* The stack of caches behaves as the three plain maps of UtxoSet: caching, *)
(* uncaching and the flags never change what any layer reports.             *)
Abstract == INSTANCE UtxoSet WITH
    work <- [o \in Outpoints |-> ViewCoin(o)],
    utxo <- [o \in Outpoints |-> TipCoin(o)],
    disk <- db,
    workBest <- ViewBestBlock, utxoBest <- TipBestBlock, diskBest <- dbBest,
    busy <- open

ImplementsUtxoSet == Abstract!Spec
=============================================================================
