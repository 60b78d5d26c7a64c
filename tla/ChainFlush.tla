----------------------------- MODULE ChainFlush -----------------------------
(***************************************************************************)
(* The UTXO set of the active chain, its undo data, and how both reach the *)
(* disk: ConnectTip and DisconnectTip, FlushStateToDisk with the block     *)
(* index written before the coins, CCoinsViewDB::BatchWrite split into     *)
(* partial batches, a crash between any two writes, and the start-up that  *)
(* follows (LoadBlockIndex, ReplayBlocks, LoadChainTip, VerifyDB).         *)
(*                                                                         *)
(* Abstracted: which valid block is connected or disconnected next is free *)
(* (module ChainState chooses); pcoinsTip is the plain map that module     *)
(* Coins proves it to be, so that a flush has to write exactly the         *)
(* outpoints on which it differs from the database; a coin is the height   *)
(* and coinbase mark of its record, the output itself being determined by  *)
(* the outpoint; unspendable outputs never enter the map and are left out. *)
(* A crash is one of the process: a batch given to the database stays.     *)
(***************************************************************************)
EXTENDS BlockTree, Integers, Sequences, SequencesExt

CONSTANTS
    Vtx,         \* block.vtx: [Block -> Seq(transactions)], coinbase first
    Vin,         \* tx.vin: [transactions -> Seq(outpoints)]
    NOut,        \* tx.vout.size(): [transactions -> Nat]
    Maturity,    \* COINBASE_MATURITY
    CheckBlocks, \* -checkblocks: how deep VerifyDB goes
    FirstRun     \* TRUE: the database is still empty

ASSUME BoundsAssumption ==
    /\ Maturity \in Nat /\ CheckBlocks \in Nat
    /\ FirstRun \in BOOLEAN

(* What CheckBlock and the coinbase rules make sure of: the first          *)
(* transaction is the coinbase and spends nothing, no transaction spends   *)
(* an output twice, none is twice on a chain.  The genesis block is its    *)
(* coinbase alone.                                                         *)
ASSUME TxAssumption ==
    /\ Vtx \in [Block -> Seq(DOMAIN Vin)] /\ NOut \in [DOMAIN Vin -> Nat]
    /\ \A t \in DOMAIN Vin :
          /\ Vin[t] \in Seq(UNION {{<<s, n>> : n \in 1..NOut[s]} : s \in DOMAIN Vin})
          /\ \A i, j \in DOMAIN Vin[t] : Vin[t][i] = Vin[t][j] => i = j
    /\ \A b \in Block : Vtx[b] # <<>> /\ Vin[Vtx[b][1]] = <<>>
    /\ \A b \in Block : \A a \in Chain[b] : \A i \in DOMAIN Vtx[a], j \in DOMAIN Vtx[b] :
          Vtx[a][i] = Vtx[b][j] => a = b /\ i = j
    /\ Len(Vtx[Genesis]) = 1

VARIABLES
    index,     \* mapBlockIndex: the blocks with BLOCK_HAVE_DATA
    undo,      \* the undo data of the blocks with BLOCK_HAVE_UNDO
    diskIndex, \* index as pblocktree and the synced block files hold it
    diskUndo,  \* undo, likewise
    active,    \* chainActive.Tip(), or NoBlock
    coins,     \* pcoinsTip; during a replay, ReplayBlocks' own cache
    db,        \* the coin records of the chainstate database
    best,      \* DB_BEST_BLOCK, NoBlock when absent
    heads,     \* DB_HEAD_BLOCKS: <<>> or <<new tip, old tip>>
    target,    \* hashBlock of the BatchWrite under way
    pending,   \* the outpoints that BatchWrite has still to write
    pc         \* what the process is doing

memory == <<index, undo, active, coins>>
disk == <<diskIndex, diskUndo>>
database == <<db, best, heads>>
writing == <<target, pending>>
vars == <<memory, disk, database, writing, pc>>

-----------------------------------------------------------------------------
(* Transactions and their coins. *)

Txs == [b \in Block |-> ToSet(Vtx[b])]
Inputs == [t \in DOMAIN Vin |-> ToSet(Vin[t])]
Outputs(t) == {<<t, n>> : n \in 1..NOut[t]}
Outpoints == UNION {Outputs(t) : t \in DOMAIN Vin}
Coinbase(b, t) == t = Vtx[b][1]

(* A Coin; Spent is one that IsSpent(). *)
Spent == [height |-> -1, coinbase |-> FALSE]
NewCoin(b, t) == [height |-> Height[b], coinbase |-> Coinbase(b, t)]
NoCoins == [o \in Outpoints |-> Spent]

-----------------------------------------------------------------------------
(* The effects of a block on a coins view. *)

(* UpdateCoins, and the loop body of RollforwardBlock: spend the inputs,   *)
(* then add the outputs.                                                   *)
AfterTx(c, b, t) ==
    [o \in Outpoints |-> IF o[1] = t THEN NewCoin(b, t)
                         ELSE IF o \in Inputs[t] THEN Spent ELSE c[o]]

(* The view after each of the transactions of b. *)
AfterTxs(c, b) ==
    LET after[n \in 0..Len(Vtx[b])] ==
            IF n = 0 THEN c ELSE AfterTx(after[n - 1], b, Vtx[b][n])
    IN  after

AfterBlock(c, b) == AfterTxs(c, b)[Len(Vtx[b])]

(* CheckTxInputs: inputs unspent, coinbases mature. *)
CheckTxInputs(c, b, t) ==
    \A o \in Inputs[t] :
        /\ c[o] # Spent
        /\ c[o].coinbase => Height[b] - c[o].height >= Maturity

(* ConnectBlock accepts the block. *)
Connectable(c, b) ==
    \A n \in 2..Len(Vtx[b]) : CheckTxInputs(AfterTxs(c, b)[n - 1], b, Vtx[b][n])

(* CBlockUndo: for each transaction but the coinbase, the coins it spent. *)
BlockUndo(c, b) ==
    [i \in 1..(Len(Vtx[b]) - 1) |->
        [j \in DOMAIN Vin[Vtx[b][i + 1]] |-> AfterTxs(c, b)[i][Vin[Vtx[b][i + 1]][j]]]]

(* ApplyTxInUndo on a view [coins, clean, failed]: restore one coin.  A    *)
(* height of 0 is taken for missing metadata and looked up in another      *)
(* output of the transaction (AccessByTxid).                               *)
AccessByTxid(c, t) == {n \in 1..NOut[t] : c[<<t, n>>] # Spent}

(* Mutant: the coinbase mark is not restored. *)
ApplyTxInUndoUnmarked(v, u, o) ==
    [v EXCEPT !.coins[o] = [u EXCEPT !.coinbase = FALSE],
              !.clean = @ /\ v.coins[o] = Spent]

ApplyTxInUndo(v, u, o) ==
    LET others == AccessByTxid(v.coins, o[1])
        alternate == v.coins[<<o[1], Min(others)>>]
    IN  IF v.failed THEN v
        ELSE IF u.height = 0 /\ others = {} THEN [v EXCEPT !.failed = TRUE]
        ELSE [coins |-> [v.coins EXCEPT ![o] = IF u.height = 0 THEN alternate ELSE u],
              clean |-> v.clean /\ v.coins[o] = Spent,
              failed |-> FALSE]

(* The view v with the inputs of t restored, from the last to the one at   *)
(* each position; spent is their CTxUndo.                                  *)
Restored(v, t, spent) ==
    LET n == Len(Vin[t])
        w[j \in 1..(n + 1)] ==
            IF j = n + 1 THEN v ELSE ApplyTxInUndo(w[j + 1], spent[j], Vin[t][j])
    IN  w

(* One turn of DisconnectBlock's loop: remove the outputs, which must      *)
(* match the block, then restore the inputs, but for the coinbase.         *)
UndoTx(v, b, i, u) ==
    LET t == Vtx[b][i]
        removed == [coins |-> [o \in Outpoints |-> IF o[1] = t THEN Spent ELSE v.coins[o]],
                    clean |-> v.clean /\ \A o \in Outputs(t) : v.coins[o] = NewCoin(b, t),
                    failed |-> v.failed]
    IN  IF v.failed \/ i = 1 THEN removed ELSE Restored(removed, t, u[i - 1])[1]

(* Mutant: the transactions are undone from the first to the last. *)
DisconnectBlockForward(c, b, undodata) ==
    FoldLeft(LAMBDA v, i : UndoTx(v, b, i, undodata[b]),
             [coins |-> c, clean |-> TRUE, failed |-> FALSE],
             [i \in DOMAIN Vtx[b] |-> i])

(* The view with the transactions of b undone, from the last to the one at *)
(* each position.                                                          *)
Undone(c, b, u) ==
    LET n == Len(Vtx[b])
        v[i \in 1..(n + 1)] ==
            IF i = n + 1 THEN [coins |-> c, clean |-> TRUE, failed |-> FALSE]
            ELSE UndoTx(v[i + 1], b, i, u)
    IN  v

DisconnectBlock(c, b, undodata) ==
    IF b \notin DOMAIN undodata THEN [coins |-> c, clean |-> TRUE, failed |-> TRUE]
    ELSE Undone(c, b, undodata[b])[1]

DisconnectOK(v) == ~v.failed /\ v.clean

-----------------------------------------------------------------------------
(* ReplayBlocks: roll the old branch back, the new branch forward, on a    *)
(* database in the middle of a flush.                                      *)

(* The height of the last block common to both, 0 on the first flush. *)
ForkHeight(old, new) ==
    IF old = NoBlock THEN 0 ELSE Height[LastCommonAncestor(old, new)]

(* The blocks above the fork, none of an absent old tip. *)
OldBranch(old, new) ==
    IF old = NoBlock THEN <<>> ELSE Branch(old, ForkHeight(old, new) + 1)
NewBranch(old, new) == Branch(new, ForkHeight(old, new) + 1)

(* Mutant: a block that was not fully applied cannot be rolled back. *)
RollbackStrict(c, branch) ==
    LET v == FoldRight(LAMBDA b, w : IF DisconnectOK(w) THEN DisconnectBlock(w.coins, b, diskUndo)
                                     ELSE w,
                       branch, [coins |-> c, clean |-> TRUE, failed |-> FALSE])
    IN  [v EXCEPT !.failed = ~DisconnectOK(v)]

(* DisconnectBlock of a branch from its tip down to each of its blocks;    *)
(* DISCONNECT_UNCLEAN is no obstacle.                                      *)
RolledBack(c, branch) ==
    LET n == Len(branch)
        v[k \in 1..(n + 1)] ==
            IF k = n + 1 THEN [coins |-> c, clean |-> TRUE, failed |-> FALSE]
            ELSE IF v[k + 1].failed THEN v[k + 1]
            ELSE DisconnectBlock(v[k + 1].coins, branch[k], diskUndo)
    IN  v

Rollback(c, branch) == RolledBack(c, branch)[1]

(* RollforwardBlock of a branch up to each of its blocks. *)
RolledForward(c, branch) ==
    LET d[k \in 0..Len(branch)] ==
            IF k = 0 THEN c ELSE AfterBlock(d[k - 1], branch[k])
    IN  d

Rollforward(c, branch) == RolledForward(c, branch)[Len(branch)]

-----------------------------------------------------------------------------
(* A node that has connected and flushed the genesis block, or (FirstRun)  *)
(* one whose chainstate is new or being rebuilt.                           *)
Init ==
    /\ index = {Genesis} /\ diskIndex = index
    /\ undo = [b \in {Genesis} |-> <<>>] /\ diskUndo = undo
    /\ active = IF FirstRun THEN NoBlock ELSE Genesis
    /\ coins = IF FirstRun THEN NoCoins ELSE AfterBlock(NoCoins, Genesis)
    /\ db = coins /\ best = active /\ heads = <<>>
    /\ target = NoBlock /\ pending = {}
    /\ pc = "running"

(* AcceptBlock: SaveBlockToDisk, the index entry set dirty. *)
AcceptBlock(b) ==
    /\ pc = "running"
    /\ b \notin index /\ Parent[b] \in index
    /\ index' = index \cup {b}
    /\ UNCHANGED <<undo, active, coins, disk, database, writing, pc>>

(* The undo data of b goes to the rev file, unless an earlier connection   *)
(* wrote it.                                                               *)
WriteUndoDataForBlock(b) ==
    IF b \in DOMAIN undo THEN undo
    ELSE [d \in DOMAIN undo \cup {b} |-> IF d = b THEN BlockUndo(coins, b) ELSE undo[d]]

(* ConnectTip: ConnectBlock, its coins into pcoinsTip.  Whether the call   *)
(* to FlushStateToDisk near its end flushes depends on the size of the     *)
(* cache, which is left out: that flush is the action FlushStateToDisk,    *)
(* which may follow at once.                                               *)
ConnectTip(b) ==
    /\ pc = "running"
    /\ b \in index /\ Parent[b] = active
    /\ Connectable(coins, b)
    /\ coins' = AfterBlock(coins, b)
    /\ undo' = WriteUndoDataForBlock(b)
    /\ active' = b
    /\ UNCHANGED <<index, disk, database, writing, pc>>

(* DisconnectTip: gives up unless DisconnectBlock returns DISCONNECT_OK.   *)
(* Here too a flush may follow.                                            *)
DisconnectTip ==
    /\ pc = "running"
    /\ active \notin {NoBlock, Genesis}
    /\ LET v == DisconnectBlock(coins, active, undo)
       IN  DisconnectOK(v) /\ coins' = v.coins
    /\ active' = Parent[active]
    /\ UNCHANGED <<index, undo, disk, database, writing, pc>>

(* Mutant: the undo positions are written, the block entries are not. *)
WriteUndoOnly == diskIndex' = diskIndex /\ diskUndo' = undo

(* FlushStateToDisk up to the coins: FlushBlockFile, then the index. *)
WriteBlockIndex == diskIndex' = index /\ diskUndo' = undo

(* A periodic write of the block files and the index only. *)
PeriodicWrite ==
    /\ pc = "running" /\ <<diskIndex, diskUndo>> # <<index, undo>>
    /\ WriteBlockIndex
    /\ UNCHANGED <<memory, database, writing, pc>>

(* BatchWrite is called: what is dirty has to be written. *)
BeginBatchWrite(c, hashBlock) ==
    /\ target' = hashBlock
    /\ pending' = {o \in Outpoints : c[o] # db[o]}

(* Mutant: the coins are written without the index. *)
FlushCoinsOnly ==
    /\ pc = "running" /\ active # NoBlock /\ active # best
    /\ BeginBatchWrite(coins, active)
    /\ pc' = "flushing"
    /\ UNCHANGED <<memory, disk, database>>

(* A full flush: index first, then pcoinsTip->Flush(). *)
FlushStateToDisk ==
    /\ pc = "running" /\ active # NoBlock /\ active # best
    /\ WriteBlockIndex
    /\ BeginBatchWrite(coins, active)
    /\ pc' = "flushing"
    /\ UNCHANGED <<memory, database>>

(* Mutant: a replay forgets where the interrupted flush started. *)
OldTipForgotten == best

(* BatchWrite's old_tip, also when it is a replay that is being written. *)
OldTip == IF best # NoBlock THEN best
          ELSE IF heads # <<>> THEN heads[2] ELSE NoBlock

Written(S) == [o \in Outpoints |-> IF o \in S THEN coins[o] ELSE db[o]]

(* Mutant: a partial batch keeps DB_BEST_BLOCK and names no heads. *)
PartialBatchUnmarked(S) ==
    /\ pc \in {"flushing", "replaying"}
    /\ db' = Written(S)
    /\ pending' = pending \ S
    /\ UNCHANGED <<memory, disk, best, heads, target, pc>>

(* db.WriteBatch of a partial batch, once the coins put into it exceed     *)
(* -dbbatchsize: the first one also marks the database as being in the     *)
(* middle of a transition.  S is empty when all the coins of the batch are *)
(* dirty and yet as the database has them, which an empty one has not.     *)
PartialBatch(S) ==
    /\ pc \in {"flushing", "replaying"}
    /\ S # {} \/ OldTip # NoBlock
    /\ db' = Written(S)
    /\ heads' = <<target, OldTip>> /\ best' = NoBlock
    /\ pending' = pending \ S
    /\ UNCHANGED <<memory, disk, target, pc>>

(* The last batch marks the database consistent again. *)
FinalBatch ==
    /\ pc \in {"flushing", "replaying"}
    /\ db' = Written(pending)
    /\ heads' = <<>> /\ best' = target
    /\ pending' = {} /\ target' = NoBlock
    /\ pc' = IF pc = "flushing" THEN "running" ELSE "loading"
    /\ UNCHANGED <<memory, disk>>

(* The process dies: everything but the disk is gone. *)
Crash ==
    /\ pc \notin {"down", "stuck"}
    /\ pc' = "down"
    /\ index' = {} /\ undo' = <<>> /\ active' = NoBlock /\ coins' = NoCoins
    /\ target' = NoBlock /\ pending' = {}
    /\ UNCHANGED <<disk, database>>

(* Start-up: LoadBlockIndex, then ReplayBlocks if the database has heads.  *)
(* A block missing from the index or without its undo data is fatal.       *)
Restart ==
    /\ pc = "down"
    /\ index' = diskIndex /\ undo' = diskUndo
    /\ IF heads = <<>>
       THEN pc' = "loading" /\ UNCHANGED <<coins, writing>>
       ELSE LET new == heads[1]
                old == heads[2]
                v == Rollback(db, OldBranch(old, new))
                c == Rollforward(v.coins, NewBranch(old, new))
                ok == /\ {new, old} \subseteq diskIndex \cup {NoBlock}
                      /\ ToSet(OldBranch(old, new) \o NewBranch(old, new)) \subseteq diskIndex
                      /\ ~v.failed
            IN  IF ok THEN /\ coins' = c
                           /\ BeginBatchWrite(c, new)
                           /\ pc' = "replaying"
                ELSE pc' = "stuck" /\ UNCHANGED <<coins, writing>>
    /\ UNCHANGED <<active, disk, database>>

(* VerifyDB at check level 3: disconnect the last blocks in memory. *)
Verified(c, branch) ==
    LET n == Len(branch)
        v[k \in 1..(n + 1)] ==
            IF k = n + 1 THEN [coins |-> c, clean |-> TRUE, failed |-> FALSE]
            ELSE IF DisconnectOK(v[k + 1]) THEN DisconnectBlock(v[k + 1].coins, branch[k], undo)
            ELSE v[k + 1]
    IN  v

VerifyDB(c, b) ==
    DisconnectOK(Verified(c, Branch(b, Max({1, Height[b] + 1 - CheckBlocks})))[1])

(* LoadChainTip and VerifyDB, skipped while the coins view is empty. *)
LoadChainTip ==
    /\ pc = "loading"
    /\ coins' = db /\ active' = best
    /\ pc' = IF best = NoBlock \/ (best \in index /\ VerifyDB(db, best))
             THEN "running" ELSE "stuck"
    /\ UNCHANGED <<index, undo, disk, database, writing>>

Next ==
    \/ \E b \in Block : AcceptBlock(b) \/ ConnectTip(b)
    \/ DisconnectTip \/ PeriodicWrite \/ FlushStateToDisk
    \/ \E S \in SUBSET pending : PartialBatch(S)
    \/ FinalBatch \/ Crash \/ Restart \/ LoadChainTip

Spec == Init /\ [][Next]_vars

-----------------------------------------------------------------------------
(* Properties. *)

(* The UTXO set of the chain ending in b, by definition: an output of a    *)
(* transaction of the chain that no transaction of the chain spends.       *)
UtxoAt == [b \in Block \cup {NoBlock} |-> [o \in Outpoints |->
    IF /\ \E a \in Chain[b] : o[1] \in Txs[a]
       /\ \A a \in Chain[b] : \A t \in Txs[a] : o \notin Inputs[t]
    THEN NewCoin(CHOOSE a \in Chain[b] : o[1] \in Txs[a], o[1])
    ELSE Spent]]

CoinType == [height : Nat \cup {-1}, coinbase : BOOLEAN]

(* Every variable has its type. *)
TypeOK ==
    /\ index \subseteq Block /\ DOMAIN undo \subseteq index
    /\ diskIndex \subseteq Block /\ DOMAIN diskUndo \subseteq diskIndex
    /\ {active, best, target} \subseteq Block \cup {NoBlock}
    /\ \A o \in Outpoints : coins[o] \in CoinType /\ db[o] \in CoinType
    /\ heads = <<>> \/ heads \in Block \X (Block \cup {NoBlock})
    /\ pending \subseteq Outpoints
    /\ pc \in {"running", "flushing", "down", "replaying", "loading", "stuck"}

(* Connecting and disconnecting any sequence of blocks, with any crashes   *)
(* and recoveries in between, leaves pcoinsTip equal to the UTXO set of    *)
(* the active chain.                                                       *)
UtxoCorrect == pc \in {"running", "flushing"} => coins = UtxoAt[active]

(* A database that names a best block holds exactly its UTXO set: after a  *)
(* flush, and after the recovery from a flush cut short anywhere.          *)
DbConsistent == heads = <<>> => db = UtxoAt[best]

(* A database in the middle of a transition mixes the UTXO sets of its two *)
(* heads and nothing else: what makes the replay idempotent.               *)
TornDbBetweenHeads ==
    heads # <<>> =>
        \A o \in Outpoints : db[o] \in {UtxoAt[heads[1]][o], UtxoAt[heads[2]][o]}

(* Whatever the chainstate database refers to is already on disk: the      *)
(* index entries, blocks and undo data that recovery reads.                *)
DiskOrdering ==
    \A h \in {best, target} \cup ToSet(heads) :
        h # NoBlock => Chain[h] \subseteq diskIndex /\ Chain[h] \subseteq DOMAIN diskUndo

(* Start-up never fails on what a crash left behind. *)
NeverStuck == pc # "stuck"

(* Every block that was connected can be disconnected again. *)
TipDisconnectable ==
    pc = "running" /\ active \notin {NoBlock, Genesis}
        => DisconnectOK(DisconnectBlock(coins, active, undo))
=============================================================================
