------------------------------ MODULE UtxoSet ------------------------------
(***************************************************************************)
(* What the coins views of src/src/coins.h promise, without caches: three  *)
(* versions of one map from outpoints to coins, each with the block it     *)
(* belongs to.                                                             *)
(*                                                                         *)
(*   work   what the block or transaction under validation sees            *)
(*   utxo   the UTXO set of the active chain (pcoinsTip)                   *)
(*   disk   what the chainstate database holds                             *)
(*                                                                         *)
(* Work is prepared in private, committed as a whole or dropped as a       *)
(* whole, and later written to disk as a whole.                            *)
(***************************************************************************)
CONSTANTS
    Outpoints,    \* the outpoints (txid, n)
    Coins,        \* the values of an unspent output
    Unspendable,  \* the coins whose script can never be satisfied
    Spent,        \* "there is no unspent output here"
    Blocks,       \* block hashes
    NullHash      \* the hash of no block

VARIABLES
    work, utxo, disk,             \* [Outpoints -> Coins \cup {Spent}]
    workBest, utxoBest, diskBest, \* Blocks \cup {NullHash}
    busy                          \* a validation is under way

coins == <<work, utxo, disk>>
bests == <<workBest, utxoBest, diskBest>>
vars == <<coins, bests, busy>>

Init ==
    /\ work = [o \in Outpoints |-> Spent] /\ utxo = work /\ disk = work
    /\ workBest = NullHash /\ utxoBest = NullHash /\ diskBest = NullHash
    /\ busy = FALSE

Begin ==
    /\ ~busy /\ busy' = TRUE
    /\ UNCHANGED <<coins, bests>>

Add(o, c) ==
    /\ busy
    /\ work' = IF c \in Unspendable THEN work ELSE [work EXCEPT ![o] = c]
    /\ UNCHANGED <<utxo, disk, bests, busy>>

Spend(o) ==
    /\ busy
    /\ work' = [work EXCEPT ![o] = Spent]
    /\ UNCHANGED <<utxo, disk, bests, busy>>

MoveTo(b) ==
    /\ busy
    /\ workBest' = b
    /\ UNCHANGED <<coins, utxoBest, diskBest, busy>>

Commit ==
    /\ busy /\ busy' = FALSE
    /\ utxo' = work /\ utxoBest' = workBest
    /\ UNCHANGED <<work, disk, workBest, diskBest>>

Drop ==
    /\ busy /\ busy' = FALSE
    /\ work' = utxo /\ workBest' = utxoBest
    /\ UNCHANGED <<utxo, disk, utxoBest, diskBest>>

Persist ==
    /\ ~busy
    /\ disk' = utxo /\ diskBest' = utxoBest
    /\ UNCHANGED <<work, utxo, workBest, utxoBest, busy>>

Next ==
    \/ Begin \/ Commit \/ Drop \/ Persist
    \/ \E o \in Outpoints : Spend(o) \/ \E c \in Coins : Add(o, c)
    \/ \E b \in Blocks : MoveTo(b)

Spec == Init /\ [][Next]_vars
=============================================================================
