------------------------------- MODULE Mempool -------------------------------
(***************************************************************************)
(* CTxMemPool under acceptance, replacement, prioritisation, expiry, size  *)
(* limit, blocks and reorganisations.                                      *)
(*                                                                         *)
(* Everything here runs under cs_main, so an operation is a step; only a   *)
(* reorganisation (ActivateBestChainStep, InvalidateBlock) is split into   *)
(* one step per block and per transaction to see the pool in between.      *)
(*                                                                         *)
(* The pool is a record:                                                   *)
(*   tx                  the transactions of mapTx                         *)
(*   delta               feeDelta of an entry                              *)
(*   anc, desc           its totals with ancestors and with descendants    *)
(*   parents, children   mapLinks                                          *)
(*   next                mapNextTx: who spends an output                   *)
(*   size                totalTxSize                                       *)
(*   mapDeltas           of any transaction, in the pool or not            *)
(*                                                                         *)
(* Abstracted: standardness, scripts and lock times are verdicts on a      *)
(* transaction; usage is the sum of the transactions' sizes; signature     *)
(* operations go the way of sizes.  The minimum fees for entering are left *)
(* out: being refused changes nothing.                                     *)
(***************************************************************************)
EXTENDS BlockTree, Integers, SequencesExt

CONSTANTS
    Vtx,            \* of a block: its transactions
    Tx,             \* the transactions there may be
    NoTx,           \* no transaction
    Coinbase,       \* the coinbase transactions
    Vin, NOut,      \* of a transaction: the outputs it spends, its number of outputs
    Fee, Size,      \* of a transaction
    LockHeight,     \* of a transaction: the first height it is final at
    NonStandard,    \* transactions the pool refuses, though a block may have them
    Replaceable,    \* transactions that opt in to replacement
    Maturity,       \* COINBASE_MATURITY
    AncestorLimit, AncestorSizeLimit, DescendantLimit, DescendantSizeLimit,
    MaxReplaced,    \* maxDescendantsToVisit
    IncrementalFee, \* incrementalRelayFee, per unit of size
    MaxSize,        \* -maxmempool
    MaxDisconnected,\* MAX_DISCONNECTED_TX_POOL_SIZE
    Deltas          \* bound: the values mapDeltas may take

ASSUME MempoolAssumption ==
    /\ IsFiniteSet(Tx) /\ NoTx \notin Tx
    /\ Coinbase \subseteq Tx /\ NonStandard \subseteq Tx
    /\ Vtx \in [Block -> Seq(Tx)]
    /\ Fee \in [Tx -> Nat] /\ Size \in [Tx -> Nat \ {0}] /\ NOut \in [Tx -> Nat]
    /\ \A t \in Tx : Vin[t] \in Seq(UNION {{<<u, n>> : n \in 1..NOut[u]} : u \in Tx})
    /\ \A t \in Tx \ Coinbase : Vin[t] # <<>>
    /\ LockHeight \in [Tx -> Nat] /\ Maturity \in Nat /\ MaxDisconnected \in Nat
    /\ Deltas \subseteq Int /\ 0 \in Deltas

ASSUME LimitsAssumption == IncrementalFee \in Nat /\ MaxSize \in Nat

VARIABLES
    pool,
    old,             \* the entries older than -mempoolexpiry
    tip,             \* chainActive.Tip()
    disconnectpool,  \* the transactions of disconnected blocks, latest first
    phase,           \* "idle", or in a reorganisation: "disconnect", "connect",
                     \* "update" (UpdateMempoolForReorg)
    fAddToMempool,
    vHashUpdate,     \* the transactions UpdateMempoolForReorg has put back
    owed             \* history: the entries when the reorganisation began and the
                     \* transactions it disconnected

reorgVars == <<tip, disconnectpool, phase, fAddToMempool, vHashUpdate, owed>>
vars == <<pool, old, reorgVars>>

-----------------------------------------------------------------------------
(* The coins of a chain.  Blocks are valid. *)

Outputs(t) == {<<t, n>> : n \in 1..NOut[t]}
Outpoint == UNION {Outputs(t) : t \in Tx}
Spends(t) == ToSet(Vin[t])
Confirmed == [b \in Block |-> UNION {ToSet(Vtx[c]) : c \in Chain[b]}]
Utxo == [b \in Block |-> (UNION {Outputs(t) : t \in Confirmed[b]})
                             \ (UNION {Spends(t) : t \in Confirmed[b]})]

(* What is confirmed before the i-th transaction of b. *)
Before(b, i) ==
    (IF b = Genesis THEN {} ELSE Confirmed[Parent[b]]) \cup {Vtx[b][j] : j \in 1..(i - 1)}

(* ConnectBlock has let only these blocks pass: a transaction is confirmed *)
(* once on a chain, and spends outputs that are there.                     *)
ASSUME BlocksAssumption ==
    \A b \in Block : \A i \in DOMAIN Vtx[b] :
        LET t == Vtx[b][i]
            E == Before(b, i)
        IN  /\ t \notin E
            /\ Spends(t) \subseteq UNION {Outputs(u) : u \in E}
            /\ \A u \in E : Spends(t) \cap Spends(u) = {}

CoinHeight(o) == Height[CHOOSE b \in Chain[tip] : o[1] \in ToSet(Vtx[b])]

(* An output of a coinbase that a block on the tip may not spend yet. *)
Immature(o) ==
    o[1] \in Coinbase /\ Height[tip] + 1 - CoinHeight(o) < Maturity

(* CheckFinalTx and CheckSequenceLocks, for a block on the tip. *)
Final(t) == Height[tip] + 1 >= LockHeight[t]

-----------------------------------------------------------------------------
(* Totals. *)

GetModifiedFee(p, t) == Fee[t] + p.delta[t]
SizeOf(S) == MapThenSumSet(LAMBDA t : Size[t], S)
FeesOf(p, S) == MapThenSumSet(LAMBDA t : GetModifiedFee(p, t), S)
Total(p, S) == [count |-> Cardinality(S), size |-> SizeOf(S), fees |-> FeesOf(p, S)]
Nothing == [count |-> 0, size |-> 0, fees |-> 0]
Plus(a, b) == [count |-> a.count + b.count, size |-> a.size + b.size, fees |-> a.fees + b.fees]
Minus(a, b) == [count |-> a.count - b.count, size |-> a.size - b.size, fees |-> a.fees - b.fees]

(* What is reached from S along links, S included. *)
Reach(links, S) ==
    LET reach[n \in 0..Cardinality(Tx)] ==
            IF n = 0 THEN S
            ELSE LET R == reach[n - 1] IN R \cup UNION {links[t] : t \in R}
    IN  reach[Cardinality(Tx)]

CalculateDescendants(p, S) == Reach(p.children, S)
Descendants(p, t) == CalculateDescendants(p, {t}) \ {t}

(* CalculateMemPoolAncestors, fSearchForParents = false *)
Ancestors(p, t) == Reach(p.parents, {t}) \ {t}

(* and true: the parents are searched for, then the links followed. *)
InPoolParents(p, t) == {o[1] : o \in Spends(t)} \cap p.tx
SearchedAncestors(p, t) == Reach(p.parents, InPoolParents(p, t))

WithinLimits(p, t) ==
    LET A == SearchedAncestors(p, t)
    IN  /\ Cardinality(A) + 1 <= AncestorLimit
        /\ SizeOf(A) + Size[t] <= AncestorSizeLimit
        /\ \A a \in A : /\ p.desc[a].count + 1 <= DescendantLimit
                        /\ p.desc[a].size + Size[t] <= DescendantSizeLimit

-----------------------------------------------------------------------------
(* Adding and removing entries. *)

(* addUnchecked.  A is setAncestors. *)
AddUnchecked(p, t, A) ==
    LET q == [p EXCEPT !.delta[t] = p.mapDeltas[t]]
        own == Total(q, {t})
        P == InPoolParents(p, t)
    IN  [q EXCEPT
            !.tx = @ \cup {t},
            !.next = [o \in Outpoint |->
                          IF o \in Spends(t) /\ @[o] = NoTx THEN t ELSE @[o]],
            !.parents[t] = P,
            !.children = [u \in Tx |-> IF u \in P THEN @[u] \cup {t} ELSE @[u]],
            !.desc = [u \in Tx |-> IF u = t THEN own
                                   ELSE IF u \in A THEN Plus(@[u], own) ELSE @[u]],
            !.anc[t] = Plus(own, Total(q, A)),
            !.size = @ + Size[t]]

(* RemoveStaged: UpdateForRemoveFromMempool, along the links as they were, *)
(* then removeUnchecked of every entry.                                    *)
RemoveStaged(p, S, updateDescendants) ==
    [p EXCEPT
        !.tx = @ \ S,
        !.delta = [t \in Tx |-> IF t \in S THEN 0 ELSE @[t]],
        !.anc = [t \in Tx |->
            IF t \in S THEN Nothing
            ELSE IF ~updateDescendants THEN @[t]
            ELSE Minus(@[t], Total(p, {r \in S : t \in Descendants(p, r)}))],
        !.desc = [t \in Tx |->
            IF t \in S THEN Nothing
            ELSE Minus(@[t], Total(p, {r \in S : t \in Ancestors(p, r)}))],
        !.parents = [t \in Tx |->
            IF t \in S THEN {} ELSE @[t] \ {r \in S : t \in p.children[r]}],
        !.children = [t \in Tx |->
            IF t \in S THEN {} ELSE @[t] \ {r \in S : t \in p.parents[r]}],
        !.next = [o \in Outpoint |->
            IF \E t \in S : o \in Spends(t) THEN NoTx ELSE @[o]],
        !.size = @ - SizeOf(S)]

(* removeRecursive: of a transaction not in the pool, the children go. *)
RemoveRecursive(p, t) ==
    LET txToRemove == IF t \in p.tx THEN {t}
                      ELSE {p.next[o] : o \in Outputs(t)} \ {NoTx}
    IN  RemoveStaged(p, CalculateDescendants(p, txToRemove), FALSE)

ClearPrioritisation(p, t) == [p EXCEPT !.mapDeltas[t] = 0]

(* The loops are functions from the number of turns to what they leave. *)
ConflictTurns(p, t) ==
    LET turn[i \in 0..Len(Vin[t])] ==
            IF i = 0 THEN p
            ELSE LET q == turn[i - 1]
                     c == q.next[Vin[t][i]]
                 IN  IF c \in {NoTx, t} THEN q
                     ELSE RemoveRecursive(ClearPrioritisation(q, c), c)
    IN  turn
RemoveConflicts(p, t) == ConflictTurns(p, t)[Len(Vin[t])]

(* removeForBlock: a confirmed transaction leaves its children behind, and *)
(* what conflicts with it goes with all its descendants.                   *)
RemoveConfirmed(p, t) ==
    ClearPrioritisation(RemoveConflicts(RemoveStaged(p, {t} \cap p.tx, TRUE), t), t)
BlockTurns(p, vtx) ==
    LET turn[i \in 0..Len(vtx)] == IF i = 0 THEN p ELSE RemoveConfirmed(turn[i - 1], vtx[i])
    IN  turn
RemoveForBlock(p, vtx) == BlockTurns(p, vtx)[Len(vtx)]

Expire(p) == RemoveStaged(p, CalculateDescendants(p, old \cap p.tx), FALSE)

(* CompareTxMemPoolEntryByDescendantScore: the better of an entry's fee    *)
(* rates with and without its descendants; ties in any order.              *)
Score(p, t) ==
    IF p.desc[t].fees * Size[t] > GetModifiedFee(p, t) * p.desc[t].size
    THEN p.desc[t] ELSE Total(p, {t})
Worst(p) ==
    {t \in p.tx : \A u \in p.tx :
        Score(p, t).fees * Score(p, u).size <= Score(p, u).fees * Score(p, t).size}

(* What TrimToSize may leave: the worst entry goes with its descendants,   *)
(* while the pool is too large.                                            *)
TrimToSize(p) ==
    LET trim[n \in 0..Cardinality(Tx)] ==
            IF n = 0 THEN {p}
            ELSE UNION {IF q.size <= MaxSize THEN {q}
                        ELSE {RemoveStaged(q, CalculateDescendants(q, {t}), FALSE) :
                                  t \in Worst(q)} : q \in trim[n - 1]}
    IN  trim[Cardinality(Tx)]

LimitMempoolSize(p) == TrimToSize(Expire(p))

-----------------------------------------------------------------------------
(* AcceptToMemoryPool. *)

Conflicts(p, t) == {p.next[o] : o \in Spends(t)} \ {NoTx}
AllConflicting(p, t) == CalculateDescendants(p, Conflicts(p, t))

(* CFeeRate *)
FeeRate(fee, size) == (fee * 1000) \div size

(* Mutant: only what is replaced directly has to be paid for. *)
MayReplaceDirect(p, t) ==
    LET fee == Fee[t] + p.mapDeltas[t]
        C == Conflicts(p, t)
    IN  /\ C \subseteq Replaceable
        /\ C \cap SearchedAncestors(p, t) = {}
        /\ C # {} =>
            /\ \A c \in C : FeeRate(fee, Size[t]) > FeeRate(GetModifiedFee(p, c), Size[c])
            /\ fee - FeesOf(p, C) >= IncrementalFee * Size[t]

(* The rules of replacement (BIP 125). *)
MayReplace(p, t) ==
    LET fee == Fee[t] + p.mapDeltas[t]
        C == Conflicts(p, t)
        replacedParents == {o[1] : o \in UNION {Spends(c) : c \in C}}
    IN  /\ C \subseteq Replaceable
        /\ C \cap SearchedAncestors(p, t) = {}
        /\ C # {} =>
            /\ \A c \in C : FeeRate(fee, Size[t]) > FeeRate(GetModifiedFee(p, c), Size[c])
            /\ MapThenSumSet(LAMBDA c : p.desc[c].count, C) <= MaxReplaced
            /\ InPoolParents(p, t) \subseteq replacedParents
            /\ fee >= FeesOf(p, AllConflicting(p, t))
            /\ fee - FeesOf(p, AllConflicting(p, t)) >= IncrementalFee * Size[t]

(* An input is an output of an entry, or unspent and mature. *)
HaveInputs(p, t) ==
    \A o \in Spends(t) : o[1] \in p.tx \/ (o \in Utxo[tip] /\ ~Immature(o))

Acceptable(p, t) ==
    /\ t \notin Coinbase \cup NonStandard \cup p.tx /\ Final(t)
    /\ HaveInputs(p, t)
    /\ WithinLimits(p, t)
    /\ MayReplace(p, t)

(* setAncestors is computed before the conflicts are removed. *)
Accepted(p, t) ==
    AddUnchecked(RemoveStaged(p, AllConflicting(p, t), FALSE), t, SearchedAncestors(p, t))

AcceptToMemoryPool(t) ==
    /\ phase = "idle" /\ Acceptable(pool, t)
    /\ pool' \in LimitMempoolSize(Accepted(pool, t))
    /\ old' = old \cap pool'.tx
    /\ UNCHANGED reorgVars

-----------------------------------------------------------------------------
(* Mutant: the descendants are not told. *)
PrioritiseTransactionAlone(t, d) ==
    /\ phase = "idle"
    /\ pool.mapDeltas[t] + d \in Deltas
    /\ pool' =
        IF t \notin pool.tx THEN [pool EXCEPT !.mapDeltas[t] = @ + d]
        ELSE [pool EXCEPT
                  !.mapDeltas[t] = @ + d,
                  !.delta[t] = pool.mapDeltas[t] + d,
                  !.desc = [u \in Tx |-> IF u \in Ancestors(pool, t) \cup {t}
                                         THEN [@[u] EXCEPT !.fees = @ + d] ELSE @[u]],
                  !.anc[t].fees = @ + d]
    /\ UNCHANGED <<old, reorgVars>>

(* PrioritiseTransaction: an entry's ancestors and descendants are told. *)
PrioritiseTransaction(t, d) ==
    /\ phase = "idle"
    /\ pool.mapDeltas[t] + d \in Deltas
    /\ LET paid(f) == [f EXCEPT !.fees = @ + d]
       IN  pool' =
            IF t \notin pool.tx THEN [pool EXCEPT !.mapDeltas[t] = @ + d]
            ELSE [pool EXCEPT
                      !.mapDeltas[t] = @ + d,
                      !.delta[t] = pool.mapDeltas[t] + d,
                      !.desc = [u \in Tx |-> IF u \in Ancestors(pool, t) \cup {t}
                                             THEN paid(@[u]) ELSE @[u]],
                      !.anc = [u \in Tx |-> IF u \in Descendants(pool, t) \cup {t}
                                            THEN paid(@[u]) ELSE @[u]]]
    /\ UNCHANGED <<old, reorgVars>>

(* An entry passes the age of -mempoolexpiry.  Any may be first: the time  *)
(* of an entry is wall-clock time, which can be set, or was saved.         *)
GrowOld(t) ==
    /\ phase = "idle" /\ t \in pool.tx \ old
    /\ old' = old \cup {t}
    /\ UNCHANGED <<pool, reorgVars>>

-----------------------------------------------------------------------------
(* Blocks. *)

(* removeForBlock of disconnectpool *)
QueueTurns(queue, vtx) ==
    LET turn[i \in 0..Len(queue)] ==
            IF i = 0 THEN <<>>
            ELSE IF queue[i] \in ToSet(vtx) THEN turn[i - 1] ELSE Append(turn[i - 1], queue[i])
    IN  turn
Unconfirmed(queue, vtx) == QueueTurns(queue, vtx)[Len(queue)]

(* ConnectTip: both pools forget what the block confirms.  Without a       *)
(* reorganisation disconnectpool is empty.                                 *)
ConnectTip(b) ==
    /\ phase \in {"idle", "disconnect", "connect"} /\ Parent[b] = tip
    /\ pool' = RemoveForBlock(pool, Vtx[b])
    /\ disconnectpool' = Unconfirmed(disconnectpool, Vtx[b])
    /\ old' = old \cap pool'.tx
    /\ tip' = b
    /\ phase' = IF phase = "idle" THEN "idle" ELSE "connect"
    /\ UNCHANGED <<fAddToMempool, vHashUpdate, owed>>

(* Mutant: what does not fit is forgotten, its children are not. *)
DisconnectTipForgets ==
    /\ phase \in {"idle", "disconnect"} /\ tip # Genesis
    /\ LET queue == disconnectpool \o Reverse(Vtx[tip])
           excess == IF Len(queue) > MaxDisconnected THEN Len(queue) - MaxDisconnected ELSE 0
       IN  disconnectpool' = SubSeq(queue, excess + 1, Len(queue))
    /\ tip' = Parent[tip] /\ phase' = "disconnect"
    /\ UNCHANGED <<pool, old, fAddToMempool, vHashUpdate, owed>>

RecursiveTurns(p, txs) ==
    LET turn[i \in 0..Len(txs)] == IF i = 0 THEN p ELSE RemoveRecursive(turn[i - 1], txs[i])
    IN  turn

(* DisconnectTip: the earliest entries that do not fit into disconnectpool *)
(* are dropped, and their children from the pool.                          *)
DisconnectTip ==
    /\ phase \in {"idle", "disconnect"} /\ tip # Genesis
    /\ LET queue == disconnectpool \o Reverse(Vtx[tip])
           excess == IF Len(queue) > MaxDisconnected THEN Len(queue) - MaxDisconnected ELSE 0
       IN  /\ disconnectpool' = SubSeq(queue, excess + 1, Len(queue))
           /\ pool' = RecursiveTurns(pool, SubSeq(queue, 1, excess))[excess]
           /\ owed' = ((IF phase = "idle" THEN pool.tx ELSE owed) \cup ToSet(queue))
                          \ ToSet(SubSeq(queue, 1, excess))
    /\ old' = old \cap pool'.tx
    /\ tip' = Parent[tip] /\ phase' = "disconnect"
    /\ UNCHANGED <<fAddToMempool, vHashUpdate>>

(* UpdateMempoolForReorg is called when the blocks are done, or (with      *)
(* fAddToMempool = false) after a system error.                            *)
BeginUpdate(fAdd) ==
    /\ phase \in {"disconnect", "connect"}
    /\ phase' = "update" /\ fAddToMempool' = fAdd /\ vHashUpdate' = <<>>
    /\ UNCHANGED <<pool, old, tip, disconnectpool, owed>>

(* Mutant: the loop runs in the order of disconnecting, children first. *)
UpdateNextForward ==
    /\ phase = "update" /\ disconnectpool # <<>>
    /\ LET t == Head(disconnectpool)
           again == fAddToMempool /\ Acceptable(pool, t)
       IN  /\ pool' = IF again THEN Accepted(pool, t) ELSE RemoveRecursive(pool, t)
           /\ vHashUpdate' = IF again THEN Append(vHashUpdate, t) ELSE vHashUpdate
    /\ disconnectpool' = Tail(disconnectpool)
    /\ old' = old \cap pool'.tx
    /\ UNCHANGED <<tip, phase, fAddToMempool, owed>>

(* One turn of its loop: the earliest transaction is accepted again, or    *)
(* its children go.                                                        *)
UpdateNext ==
    /\ phase = "update" /\ disconnectpool # <<>>
    /\ LET t == Last(disconnectpool)
           again == fAddToMempool /\ Acceptable(pool, t)
       IN  /\ pool' = IF again THEN Accepted(pool, t) ELSE RemoveRecursive(pool, t)
           /\ vHashUpdate' = IF again THEN Append(vHashUpdate, t) ELSE vHashUpdate
    /\ disconnectpool' = Front(disconnectpool)
    /\ old' = old \cap pool'.tx
    /\ UNCHANGED <<tip, phase, fAddToMempool, owed>>

(* One turn of UpdateTransactionsFromBlock, with UpdateForDescendants: an  *)
(* entry put back is linked to the children it had in the pool, and totals *)
(* are exchanged with the descendants that do not know it yet.             *)
UpdateFromBlock(p, t) ==
    LET already == ToSet(vHashUpdate)
        C == ({p.next[o] : o \in Outputs(t)} \ {NoTx}) \ already
        q == [p EXCEPT !.children[t] = @ \cup C,
                       !.parents = [u \in Tx |-> IF u \in C THEN @[u] \cup {t} ELSE @[u]]]
        D == Descendants(q, t) \ already
    IN  IF t \notin p.tx THEN p
        ELSE [q EXCEPT !.desc[t] = Plus(@, Total(q, D)),
                       !.anc = [u \in Tx |-> IF u \in D THEN Plus(@[u], Total(q, {t}))
                                             ELSE @[u]]]

(* From the latest to the earliest. *)
UpdateTurns(p) ==
    LET turn[i \in 1..(Len(vHashUpdate) + 1)] ==
            IF i = Len(vHashUpdate) + 1 THEN p ELSE UpdateFromBlock(turn[i + 1], vHashUpdate[i])
    IN  turn

(* Mutant: the loop stops short of the earliest entry put back. *)
UpdateTransactionsFromBlockShort(p) == IF vHashUpdate = <<>> THEN p ELSE UpdateTurns(p)[2]

UpdateTransactionsFromBlock(p) == UpdateTurns(p)[1]

RemoveForReorg(p) ==
    LET unripe(t) == \E o \in Spends(t) : /\ o[1] \notin p.tx
                                          /\ o \notin Utxo[tip] \/ Immature(o)
        spendsCoinbase(t) == \E o \in Spends(t) : o[1] \in Coinbase
        S == {t \in p.tx : ~Final(t) \/ (spendsCoinbase(t) /\ unripe(t))}
    IN  RemoveStaged(p, CalculateDescendants(p, S), FALSE)

(* The rest of UpdateMempoolForReorg. *)
EndUpdate ==
    /\ phase = "update" /\ disconnectpool = <<>>
    /\ pool' \in LimitMempoolSize(RemoveForReorg(UpdateTransactionsFromBlock(pool)))
    /\ old' = old \cap pool'.tx
    /\ phase' = "idle" /\ vHashUpdate' = <<>> /\ owed' = {}
    /\ UNCHANGED <<tip, disconnectpool, fAddToMempool>>

-----------------------------------------------------------------------------
EmptyPool ==
    [tx |-> {}, delta |-> [t \in Tx |-> 0],
     anc |-> [t \in Tx |-> Nothing], desc |-> [t \in Tx |-> Nothing],
     parents |-> [t \in Tx |-> {}], children |-> [t \in Tx |-> {}],
     next |-> [o \in Outpoint |-> NoTx], size |-> 0,
     mapDeltas |-> [t \in Tx |-> 0]]

Init ==
    /\ pool = EmptyPool /\ old = {} /\ tip = Genesis /\ disconnectpool = <<>>
    /\ phase = "idle" /\ fAddToMempool = TRUE /\ vHashUpdate = <<>> /\ owed = {}

Next ==
    \/ \E t \in Tx : AcceptToMemoryPool(t) \/ GrowOld(t)
    \/ \E t \in Tx \ Coinbase, d \in Deltas \cup {0 - e : e \in Deltas} :
           d # 0 /\ PrioritiseTransaction(t, d)
    \/ DisconnectTip \/ UpdateNext \/ EndUpdate
    \/ \E b \in Block : ConnectTip(b)
    \/ \E fAdd \in BOOLEAN : BeginUpdate(fAdd)

Spec == Init /\ [][Next]_vars

-----------------------------------------------------------------------------
(* Properties. *)

(* The totals of an entry are the sums over what its links reach, also in  *)
(* the middle of a reorganisation (the comment in                          *)
(* UpdateForRemoveFromMempool relies on it): no total ever reaches zero,   *)
(* so no assertion of UpdateDescendantState or UpdateAncestorState fails.  *)
TotalsFollowLinks ==
    /\ pool.size = SizeOf(pool.tx)
    /\ \A t \in pool.tx :
        /\ pool.desc[t] = Total(pool, Descendants(pool, t) \cup {t})
        /\ pool.anc[t] = Total(pool, Ancestors(pool, t) \cup {t})

(* What CTxMemPool::check asserts of the indexes: mapNextTx says of every  *)
(* output which entry spends it, no two entries spend the same one, and    *)
(* nothing is kept of what has left the pool.  Outside reorganisations     *)
(* mapLinks has the parents and children that the inputs say.              *)
IndexesRight ==
    /\ \A o \in Outpoint, t \in Tx :
           pool.next[o] = t <=> t \in pool.tx /\ o \in Spends(t)
    /\ \A t \in Tx \ pool.tx :
           /\ pool.parents[t] = {} /\ pool.children[t] = {}
           /\ \A u \in pool.tx : t \notin pool.parents[u] \cup pool.children[u]
    /\ phase = "idle" =>
           /\ disconnectpool = <<>> /\ vHashUpdate = <<>>
           /\ \A t \in pool.tx :
                  /\ pool.parents[t] = InPoolParents(pool, t)
                  /\ pool.children[t] = {u \in pool.tx : t \in InPoolParents(pool, u)}

(* What check asserts of the coins: every input is an output of another    *)
(* entry or unspent; in a reorganisation it may be an output of a          *)
(* transaction that is still to be put back.  Otherwise each entry, after  *)
(* its ancestors, could be in the next block.                              *)
InputsAvailable ==
    \A t \in pool.tx :
        /\ t \notin Confirmed[tip]
        /\ \A o \in Spends(t) :
               \/ o[1] \in pool.tx \cup ToSet(disconnectpool)
               \/ o \in Utxo[tip] /\ (phase = "idle" => ~Immature(o))
        /\ phase = "idle" => Final(t)

(* A replacement adds to the fees the pool has to offer at least what its  *)
(* own relay costs, unless entries are expired or trimmed with it.         *)
ReplacementPays ==
    [][\A t \in pool'.tx \ pool.tx :
          /\ phase = "idle" /\ phase' = "idle"
          /\ ~ pool.tx \subseteq pool'.tx
          /\ old = {} /\ SizeOf(pool.tx \cup {t}) <= MaxSize
          => FeesOf(pool', pool'.tx) >= FeesOf(pool, pool.tx) + IncrementalFee * Size[t]]_vars

(* A reorganisation loses nothing that could have stayed: an entry, or a   *)
(* transaction of a disconnected block, that is neither in the pool nor    *)
(* confirmed afterwards is not acceptable.                                 *)
NothingLost ==
    [][/\ phase = "update" /\ phase' = "idle" /\ fAddToMempool
       /\ old = {} /\ SizeOf(owed) <= MaxSize
       => \A t \in owed \ (pool'.tx \cup Confirmed[tip]) : ~Acceptable(pool', t)]_vars
=============================================================================
