----------------------------- MODULE BlockTree -----------------------------
(***************************************************************************)
(* The tree of block index entries: CBlockIndex::pprev, nHeight and        *)
(* GetAncestor, LastCommonAncestor and CChain::FindFork.  A chain is named *)
(* by its tip.                                                             *)
(***************************************************************************)
EXTENDS Naturals, FiniteSets

CONSTANTS
    Block,    \* the blocks that may ever be received
    Genesis,  \* the genesis block
    NoBlock,  \* nullptr, uint256(): no block
    Parent    \* pprev: [Block -> Block \cup {NoBlock}]

(* S holds the predecessor of each of its blocks. *)
Closed(S) == \A b \in S \ {Genesis} : Parent[b] \in S

(* The blocks from genesis to b, along pprev: what is in every such set    *)
(* with b.                                                                 *)
Chain == [b \in Block \cup {NoBlock} |->
    {a \in Block : b # NoBlock /\ \A S \in SUBSET Block : b \in S /\ Closed(S) => a \in S}]

ASSUME TreeAssumption ==
    /\ Genesis \in Block /\ NoBlock \notin Block
    /\ Parent \in [Block -> Block \cup {NoBlock}]
    /\ \A b \in Block : Parent[b] = NoBlock <=> b = Genesis
    /\ \A b \in Block : Genesis \in Chain[b]

Height == [b \in Block |-> Cardinality(Chain[b]) - 1]

(* LastCommonAncestor, and FindFork of the chain of a *)
LastCommonAncestor(a, b) ==
    CHOOSE f \in Chain[a] \cap Chain[b] :
        \A g \in Chain[a] \cap Chain[b] : Height[g] <= Height[f]

(* The ancestors of b (GetAncestor) from height low up to b itself. *)
Branch(b, low) ==
    [i \in 1..(Height[b] + 1 - low) |-> CHOOSE a \in Chain[b] : Height[a] = low + i - 1]
=============================================================================
