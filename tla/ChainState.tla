----------------------------- MODULE ChainState -----------------------------
(***************************************************************************)
(* CChainState: the block index, the candidates for the active tip, and    *)
(* how ActivateBestChain moves the active chain to the best of them.       *)
(*                                                                         *)
(* Every function here runs under cs_main, but ActivateBestChain releases  *)
(* it each time the tip has improved, and keeps pindexMostWork across the  *)
(* release.  Several threads are in it at once: the message handler and    *)
(* the miner threads (ProcessNewBlock), the import thread, and the RPC     *)
(* threads of invalidateblock, reconsiderblock and preciousblock.  A step  *)
(* of this module is what one thread does between taking cs_main and       *)
(* releasing it.  A failing assert ends the process: aborted.              *)
(*                                                                         *)
(* Abstracted: a block is its place in the tree and its verdicts (fails    *)
(* ConnectBlock, fails ContextualCheckBlock); blocks that fail CheckBlock  *)
(* or the header checks change nothing and are left out.  nChainTx is the  *)
(* set linked of blocks where it is not 0.  Nothing is pruned, so nTx # 0  *)
(* is BLOCK_HAVE_DATA, and DisconnectTip succeeds (module ChainFlush looks *)
(* into it).  pindexBestInvalid and pindexBestHeader, which feed warnings  *)
(* and the download logic, system errors and shutdown are left out.        *)
(***************************************************************************)
EXTENDS BlockTree, Integers, Sequences, FiniteSetsExt, Functions

CONSTANTS
    Thread,         \* the threads that call into validation
    Work,           \* nChainWork: [Block -> Nat]
    Addr,           \* the address of the index entry: [Block -> Nat]
    BadContext,     \* the blocks that fail ContextualCheckBlock
    BadScripts,     \* the blocks that fail ConnectBlock
    Manual,         \* the blocks that invalidateblock and reconsiderblock name
    Precious,       \* the blocks that preciousblock names
    MinBlocksAhead, \* MIN_BLOCKS_TO_KEEP
    MinSequenceId,  \* std::numeric_limits<int32_t>::min()
    Overlap,        \* TRUE: ActivateBestChain as threads really call it;
                    \* FALSE: one call at a time, and none of the three RPCs
                    \* during one
    AnyReconsider   \* TRUE: reconsiderblock of any block;
                    \* FALSE: only to undo an invalidateblock

ASSUME ChainAssumption ==
    /\ Work \in [Block -> Nat] /\ Addr \in [Block -> Nat]
    /\ \A b \in Block \ {Genesis} : Work[Parent[b]] < Work[b]
    /\ \A a, b \in Block : Addr[a] = Addr[b] => a = b
    /\ BadContext \subseteq Block \ {Genesis} /\ BadScripts \subseteq Block \ {Genesis}
    /\ Manual \subseteq Block \ {Genesis} /\ Precious \subseteq Block
    /\ MinBlocksAhead \in Nat /\ MinSequenceId \in Int /\ MinSequenceId < 0
    /\ {Overlap, AnyReconsider} \subseteq BOOLEAN

VARIABLES
    known,        \* mapBlockIndex
    data,         \* the blocks with BLOCK_HAVE_DATA
    linked,       \* the blocks with nChainTx # 0
    scripts,      \* the blocks with BLOCK_VALID_SCRIPTS
    failedValid,  \* BLOCK_FAILED_VALID
    failedChild,  \* BLOCK_FAILED_CHILD
    failedBlocks, \* g_failed_blocks
    seq,          \* nSequenceId
    nextSeq,      \* nBlockSequenceId
    reverseSeq,   \* nBlockReverseSequenceId
    lastPrecious, \* nLastPreciousChainwork
    candidates,   \* setBlockIndexCandidates
    unlinked,     \* mapBlocksUnlinked: its blocks, each under its pprev
    active,       \* chainActive.Tip()
    pc,           \* of a thread: "idle", about to take cs_main ("called") or
                  \* between two turns ("activating") of ActivateBestChain
    most,         \* its pindexMostWork
    aborted       \* an assert has failed

index == <<known, data, linked, scripts>>
failures == <<failedValid, failedChild, failedBlocks>>
sequence == <<seq, nextSeq>>
precious == <<reverseSeq, lastPrecious>>
threads == <<pc, most>>
vars == <<index, failures, sequence, precious, candidates, unlinked, active, threads, aborted>>

-----------------------------------------------------------------------------
failed == failedValid \cup failedChild

(* CBlockIndexWorkComparator: a sorts before b.  s holds the sequence ids. *)
Worse(s, a, b) ==
    \/ Work[a] < Work[b]
    \/ Work[a] = Work[b] /\ s[a] > s[b]
    \/ Work[a] = Work[b] /\ s[a] = s[b] /\ Addr[a] > Addr[b]

(* Mutant: nChainTx is not looked at. *)
EligibleUnlinked(b, bad) == b \in data /\ b \notin bad

(* IsValid(BLOCK_VALID_TRANSACTIONS) && nChainTx, given the failed blocks. *)
Eligible(b, bad) == b \in data /\ b \in linked /\ b \notin bad

(* Mutant: candidates as good as the tip are dropped as well. *)
PruneBlockIndexCandidatesAll(s, cands, tip) == {c \in cands : Worse(s, tip, c)}

PruneBlockIndexCandidates(s, cands, tip) == {c \in cands : ~Worse(s, c, tip)}

(* The blocks that a switch to c would connect. *)
Path(c) == Chain[c] \ Chain[active]

-----------------------------------------------------------------------------
(* FindMostWorkChain: the best candidate without a failed block on the way  *)
(* to it.  Of each better candidate, the blocks from it down to the first   *)
(* failed one stop being candidates; the ones above the failed one are      *)
(* marked.                                                                  *)

Best(S) == CHOOSE m \in S : \A c \in S \ {m} : Worse(seq, c, m)

(* Mutant: only the candidate's own flags are looked at. *)
FindMostWorkChainShallow ==
    LET usable == candidates \ failed
    IN  IF usable = {} THEN NoBlock ELSE Best(usable)

FindMostWorkChain ==
    LET usable == {c \in candidates : Path(c) \cap failed = {}}
    IN  IF usable = {} THEN NoBlock ELSE Best(usable)

Doomed(c) == {x \in Path(c) : \A y \in Path(c) \cap failed : Height[y] <= Height[x]}

Skipped(m) ==
    UNION {Doomed(c) : c \in {d \in candidates : m = NoBlock \/ Worse(seq, m, d)}}

-----------------------------------------------------------------------------
Init ==
    /\ known = {Genesis} /\ data = {Genesis} /\ linked = {Genesis} /\ scripts = {Genesis}
    /\ failedValid = {} /\ failedChild = {} /\ failedBlocks = {}
    /\ seq = [b \in Block |-> IF b = Genesis THEN 1 ELSE 0] /\ nextSeq = 2
    /\ reverseSeq = -1 /\ lastPrecious = 0
    /\ candidates = {Genesis} /\ unlinked = {}
    /\ active = Genesis
    /\ pc = [t \in Thread |-> "idle"] /\ most = [t \in Thread |-> NoBlock]
    /\ aborted = FALSE

Calls(t) == pc' = [pc EXCEPT ![t] = "called"] /\ UNCHANGED most

(* A thread outside ActivateBestChain that may start one of the RPCs. *)
MayManipulate(t) ==
    /\ pc[t] = "idle" /\ ~aborted
    /\ Overlap \/ \A u \in Thread : pc[u] = "idle"

-----------------------------------------------------------------------------
(* Headers and blocks arrive. *)

(* The failed blocks under which a new header on p is refused. *)
KnownFailures(p) ==
    IF p \in scripts THEN {} ELSE failedBlocks \cap Chain[p]

(* AcceptBlockHeader adds a header that is not known yet. *)
HeaderAcceptable(b) ==
    /\ Parent[b] \in known
    /\ Parent[b] \notin failed
    /\ KnownFailures(Parent[b]) = {}

(* ProcessNewBlockHeaders, a new header that is accepted (a known one      *)
(* changes nothing).                                                       *)
AcceptBlockHeader(b) ==
    /\ ~aborted
    /\ b \notin known /\ HeaderAcceptable(b)
    /\ known' = known \cup {b}
    /\ UNCHANGED <<data, linked, scripts, failures, sequence, precious,
                   candidates, unlinked, active, threads, aborted>>

(* A new header on a descendant of a failed block: the blocks in between   *)
(* are marked, and the header is refused.                                  *)
RefuseBlockHeader(b) ==
    /\ ~aborted
    /\ b \notin known /\ Parent[b] \in known /\ Parent[b] \notin failed
    /\ \E f \in KnownFailures(Parent[b]) :
          IF f \in failedValid
          THEN /\ failedChild' = failedChild \cup (Chain[Parent[b]] \ Chain[f])
               /\ UNCHANGED aborted
          ELSE aborted' = TRUE /\ UNCHANGED failedChild
    /\ UNCHANGED <<index, failedValid, failedBlocks, sequence, precious,
                   candidates, unlinked, active, threads>>

(* The conditions on a block nobody asked for. *)
Welcome(b) ==
    /\ Work[b] >= Work[active]
    /\ Height[b] <= Height[active] + MinBlocksAhead

(* The blocks that b makes connectable, with itself: the ones that wait    *)
(* under it in mapBlocksUnlinked.                                          *)
Unblocked(b) ==
    {x \in unlinked \cup {b} : b \in Chain[x] /\ Chain[x] \ Chain[b] \subseteq unlinked}

(* The orders in which the queue of ReceivedBlockTransactions can visit    *)
(* them: level by level, the children of one block in any order.           *)
Visits(S) ==
    {q \in [1..Cardinality(S) -> S] :
        \A i, j \in DOMAIN q : i < j =>
            /\ q[i] # q[j]
            /\ Height[q[i]] <= Height[q[j]]
            /\ Height[q[i]] = Height[q[j]] =>
                  ~\E k, l \in DOMAIN q : k < l /\ q[k] = Parent[q[j]] /\ q[l] = Parent[q[i]]}

(* Mutant: descendants that were waiting are not visited. *)
ReceivedBlockTransactionsAlone(b) ==
    /\ data' = data \cup {b}
    /\ IF Parent[b] \in linked
       THEN /\ linked' = linked \cup {b}
            /\ seq' = [seq EXCEPT ![b] = nextSeq] /\ nextSeq' = nextSeq + 1
            /\ candidates' = candidates \cup {x \in {b} : ~Worse(seq', x, active)}
            /\ UNCHANGED unlinked
       ELSE /\ unlinked' = unlinked \cup ({b} \ {x \in Block : Parent[x] \in failed})
            /\ UNCHANGED <<linked, sequence, candidates>>

ReceivedBlockTransactions(b) ==
    /\ data' = data \cup {b}
    /\ IF Parent[b] \in linked
       THEN LET S == Unblocked(b)
            IN  /\ linked' = linked \cup S
                /\ unlinked' = unlinked \ S
                /\ \E q \in Visits(S) :
                      seq' = [x \in Block |-> IF x \in S
                                 THEN nextSeq - 1 + (CHOOSE i \in DOMAIN q : q[i] = x)
                                 ELSE seq[x]]
                /\ nextSeq' = nextSeq + Cardinality(S)
                /\ candidates' = candidates \cup {x \in S : ~Worse(seq', x, active)}
       ELSE /\ unlinked' = unlinked \cup ({b} \ {x \in Block : Parent[x] \in failed})
            /\ UNCHANGED <<linked, sequence, candidates>>

(* ProcessNewBlock up to ActivateBestChain, for a block that passes        *)
(* CheckBlock and is not on disk: AcceptBlockHeader and AcceptBlock.       *)
AcceptBlock(t, b, fRequested) ==
    /\ pc[t] = "idle" /\ ~aborted
    /\ b \notin data /\ (IF b \in known THEN b \notin failed ELSE HeaderAcceptable(b))
    /\ fRequested \/ Welcome(b)
    /\ known' = known \cup {b}
    /\ IF b \in BadContext
       THEN /\ failedValid' = failedValid \cup {b}
            /\ UNCHANGED <<data, linked, sequence, candidates, unlinked, threads>>
       ELSE /\ ReceivedBlockTransactions(b)
            /\ Calls(t)
            /\ UNCHANGED failedValid
    /\ UNCHANGED <<scripts, failedChild, failedBlocks, precious, active, aborted>>

(* ProcessNewBlock of a block that is left alone, ProcessGetBlockData and  *)
(* the import thread: ActivateBestChain with nothing new.                  *)
CallActivateBestChain(t) ==
    /\ pc[t] = "idle" /\ ~aborted
    /\ Calls(t)
    /\ UNCHANGED <<index, failures, sequence, precious, candidates, unlinked, active, aborted>>

-----------------------------------------------------------------------------
(* ActivateBestChain, one turn of its loop. *)

MayActivate(t) ==
    /\ ~aborted
    /\ \/ pc[t] = "activating"
       \/ pc[t] = "called" /\ (Overlap \/ \A u \in Thread : pc[u] # "activating")

(* Mutant: the loop also ends when an invalid block was found. *)
FinishedEarly(tip, cached) == tip = cached \/ cached = NoBlock

(* The condition of the loop: the tip is pindexMostWork. *)
Finished(tip, cached) == tip = cached

(* Mutant: a cached pindexMostWork survives the discovery of an invalid    *)
(* block.                                                                  *)
CachedMostWorkKept(m, invalid) == m

(* pindexMostWork for the next turn. *)
CachedMostWork(m, invalid) == IF invalid THEN NoBlock ELSE m

(* InvalidBlockFound for the block in S, if any; the caller takes it out   *)
(* of the candidates.                                                      *)
InvalidBlockFound(S) ==
    /\ failedValid' = failedValid \cup S
    /\ failedBlocks' = failedBlocks \cup S

(* What a turn towards m connects on top of the fork when the tip is a:    *)
(* blocks up to one that fails, one that makes the tip better than it was, *)
(* or m itself.                                                            *)
Connects == [a \in Block |-> [m \in Block |->
    LET path == Branch(m, Height[LastCommonAncestor(a, m)] + 1)
    IN  SubSeq(path, 1, Max({k \in 0..Len(path) :
            /\ \A i \in 1..k : path[i] \notin BadScripts
            /\ \A i \in 1..(k - 1) : Work[path[i]] <= Work[a]}))]]

(* The tip that leaves, and the block that fails to connect to it, if any. *)
NewTip == [a \in Block |-> [m \in Block |->
    LET n == Len(Connects[a][m])
    IN  IF n = 0 THEN LastCommonAncestor(a, m) ELSE Connects[a][m][n]]]
Invalid == [a \in Block |-> [m \in Block |->
    {b \in BadScripts \cap Chain[m] :
        Parent[b] = NewTip[a][m] /\ ~(Connects[a][m] # <<>> /\ Work[Parent[b]] > Work[a])}]]

(* ActivateBestChainStep towards m, with the end of the turn; skip is what *)
(* FindMostWorkChain, when it runs, has taken out of the candidates.       *)
ActivateBestChainStep(t, m, skip) ==
    LET tip == NewTip[active][m]
        connected == Range(Connects[active][m])
        left == IF connected = {} THEN candidates \ skip
                ELSE PruneBlockIndexCandidates(seq, candidates \ skip, tip)
        cached == CachedMostWork(m, Invalid[active][m] # {})
    IN  /\ active' = tip
        /\ scripts' = scripts \cup (connected \ failed)
        /\ failedChild' = failedChild \cup (skip \ failed)
        /\ InvalidBlockFound(Invalid[active][m])
        /\ candidates' = left \ Invalid[active][m]
        /\ aborted' = (connected # {} /\ left = {})
        /\ most' = [most EXCEPT ![t] = IF Finished(tip, cached) THEN NoBlock ELSE cached]
        /\ pc' = [pc EXCEPT ![t] = IF Finished(tip, cached) THEN "idle" ELSE "activating"]
        /\ UNCHANGED <<known, data, linked, sequence, precious, unlinked>>

(* A turn that finds nothing to do: the call returns. *)
ActivateNothing(t, skip) ==
    /\ failedChild' = failedChild \cup (skip \ failed)
    /\ candidates' = candidates \ skip
    /\ pc' = [pc EXCEPT ![t] = "idle"] /\ most' = [most EXCEPT ![t] = NoBlock]
    /\ UNCHANGED <<index, failedValid, failedBlocks, sequence, precious,
                   unlinked, active, aborted>>

(* A turn, with the cached pindexMostWork or with a new one. *)
ActivateBestChain(t) ==
    /\ MayActivate(t)
    /\ \E m \in Block \cup {NoBlock} :
          /\ m = IF most[t] = NoBlock THEN FindMostWorkChain ELSE most[t]
          /\ LET skip == IF most[t] = NoBlock THEN Skipped(m) ELSE {}
             IN  IF m \in {NoBlock, active} THEN ActivateNothing(t, skip)
                 ELSE ActivateBestChainStep(t, m, skip)

-----------------------------------------------------------------------------
(* The operator's calls, each followed by ActivateBestChain. *)

PreciousBlock(t, b) ==
    /\ MayManipulate(t) /\ b \in known
    /\ Work[b] >= Work[active]
    /\ LET id == IF Work[active] > lastPrecious THEN -1 ELSE reverseSeq
           s == [seq EXCEPT ![b] = id]
           cands == PruneBlockIndexCandidates(s, candidates \cup {b}, active)
       IN  /\ seq' = s
           /\ reverseSeq' = IF id > MinSequenceId THEN id - 1 ELSE id
           /\ lastPrecious' = Work[active]
           /\ IF Eligible(b, failed)
              THEN candidates' = cands /\ aborted' = (cands = {})
              ELSE candidates' = candidates \ {b} /\ UNCHANGED aborted
    /\ Calls(t)
    /\ UNCHANGED <<index, failures, nextSeq, unlinked, active>>

(* Mutant: the candidates below the old tip are not looked for again. *)
InvalidateBlockForgets(t, b) ==
    /\ MayManipulate(t) /\ b \in known
    /\ LET undone == IF b \in Chain[active] THEN Chain[active] \ Chain[b] ELSE {}
       IN  /\ active' = IF b \in Chain[active] THEN Parent[b] ELSE active
           /\ failedChild' = failedChild \cup undone
           /\ failedValid' = failedValid \cup {b}
           /\ failedBlocks' = failedBlocks \cup {b}
           /\ candidates' = candidates \ (undone \cup {b})
    /\ Calls(t)
    /\ UNCHANGED <<index, sequence, precious, unlinked, aborted>>

(* Disconnect b and all above it, mark them, and look for candidates at    *)
(* the height fallen back to.                                              *)
InvalidateBlock(t, b) ==
    /\ MayManipulate(t) /\ b \in known
    /\ LET undone == IF b \in Chain[active] THEN Chain[active] \ Chain[b] ELSE {}
           tip == IF b \in Chain[active] THEN Parent[b] ELSE active
           bad == failed \cup undone \cup {b}
       IN  /\ active' = tip
           /\ failedChild' = failedChild \cup undone
           /\ failedValid' = failedValid \cup {b}
           /\ failedBlocks' = failedBlocks \cup {b}
           /\ candidates' = (candidates \ (undone \cup {b}))
                 \cup {x \in known : Eligible(x, bad) /\ ~Worse(seq, x, tip)}
    /\ Calls(t)
    /\ UNCHANGED <<index, sequence, precious, unlinked, aborted>>

(* An invalidateblock to be undone: b alone among its ancestors and        *)
(* descendants is the failed one, and the descendants have all their data. *)
UndoesInvalidation(b) ==
    /\ b \in failedBlocks
    /\ \A x \in known : b \in Chain[x] \/ x \in Chain[b] =>
          /\ x \in failedValid => x = b
          /\ b \in Chain[x] => x \in linked

(* The entries that ResetBlockFailureFlags visits from mapBlockIndex: b    *)
(* and its descendants, where not IsValid(BLOCK_VALID_TRANSACTIONS).       *)
Reconsidered(b) == {x \in known : b \in Chain[x] /\ (x \in failed \/ x \notin data)}

(* Clear the flags of b, of its descendants and of its ancestors; only the *)
(* former are looked at as candidates and leave g_failed_blocks.           *)
ResetBlockFailureFlags(t, b) ==
    /\ MayManipulate(t) /\ b \in known
    /\ AnyReconsider \/ UndoesInvalidation(b)
    /\ LET below == Reconsidered(b)
       IN  /\ failedValid' = failedValid \ (below \cup Chain[b])
           /\ failedChild' = failedChild \ (below \cup Chain[b])
           /\ failedBlocks' = failedBlocks \ below
           /\ candidates' = candidates \cup
                 {x \in below : Eligible(x, {}) /\ Worse(seq, active, x)}
    /\ Calls(t)
    /\ UNCHANGED <<index, sequence, precious, unlinked, active, aborted>>

-----------------------------------------------------------------------------
Next ==
    \/ \E b \in Block : AcceptBlockHeader(b) \/ RefuseBlockHeader(b)
    \/ \E t \in Thread :
          \/ CallActivateBestChain(t) \/ ActivateBestChain(t)
          \/ \E b \in Block, fRequested \in BOOLEAN : AcceptBlock(t, b, fRequested)
          \/ \E b \in Precious : PreciousBlock(t, b)
          \/ \E b \in Manual : InvalidateBlock(t, b) \/ ResetBlockFailureFlags(t, b)

Spec == Init /\ [][Next]_vars

(* A turn towards the cached pindexMostWork would leave everything as it   *)
(* is: it moves nothing, and meets nothing or what was met before.         *)
Fruitless(t) ==
    /\ pc[t] = "activating" /\ most[t] \notin {NoBlock, active}
    /\ LET invalid == Invalid[active][most[t]]
       IN  /\ NewTip[active][most[t]] = active
           /\ invalid \subseteq (failedValid \cap failedBlocks) \ candidates
           /\ CachedMostWork(most[t], invalid # {}) = most[t]

(* A thread in ActivateBestChain gets cs_main again and goes on: weak      *)
(* fairness of its turns, each of which is possible exactly when           *)
(* MayActivate holds, and changes the state unless it is Fruitless.        *)
FairSpec ==
    Spec /\ \A t \in Thread :
        \/ []<>~(MayActivate(t) /\ ~Fruitless(t))
        \/ []<><<ActivateBestChain(t)>>_vars

-----------------------------------------------------------------------------
(* Properties. *)

(* Every variable has its type. *)
TypeOK ==
    /\ known \subseteq Block /\ data \subseteq known /\ linked \subseteq data
    /\ scripts \subseteq linked
    /\ failed \subseteq known /\ failedBlocks \subseteq known
    /\ seq \in [Block -> Int] /\ nextSeq \in Nat
    /\ reverseSeq \in MinSequenceId..(-1) /\ lastPrecious \in Nat
    /\ candidates \subseteq linked /\ unlinked \subseteq data
    /\ active \in linked
    /\ pc \in [Thread -> {"idle", "called", "activating"}]
    /\ most \in [Thread -> Block \cup {NoBlock}]
    /\ aborted \in BOOLEAN

(* No assert of validation.cpp fails: PruneBlockIndexCandidates is never   *)
(* left without a candidate, and AcceptBlockHeader finds every member of   *)
(* g_failed_blocks that it meets marked as failed.                         *)
NoAssertFails == ~aborted

(* The active chain holds no block that fails validation, and none that is *)
(* marked as failed.                                                       *)
ActiveChainValid ==
    /\ Chain[active] \cap (BadScripts \cup BadContext) = {}
    /\ Chain[active] \cap failed = {}

(* What CheckBlockIndex asserts of the links: nChainTx is set for blocks    *)
(* all of whose ancestors have data, and only for them; the others with    *)
(* data wait in mapBlocksUnlinked; only linked blocks have a positive      *)
(* nSequenceId.  A failed ancestor excuses a block that is not linked and  *)
(* does not wait: data of a child of a failed block is not put into        *)
(* mapBlocksUnlinked, whether or not the ancestors have theirs.  And of    *)
(* the marks: a failed block has an ancestor, or is itself,                *)
(* BLOCK_FAILED_VALID.                                                     *)
LinksRight ==
    \A b \in known :
        /\ b \in linked => Chain[b] \subseteq data
        /\ b \notin linked /\ Chain[b] \subseteq data => Chain[b] \cap failedValid # {}
        /\ b \in data \ linked /\ Chain[b] \cap failedValid = {} => b \in unlinked
        /\ b \in unlinked => b \in data \ linked
        /\ b \notin linked => seq[b] <= 0
        /\ b \in scripts => Chain[b] \subseteq scripts
        /\ b \in failed => Chain[b] \cap failedValid # {}

(* What CheckBlockIndex asserts of setBlockIndexCandidates: no block that  *)
(* sorts before the tip is in it, and every block that does not, with all  *)
(* its data and no failed ancestor, is, the tip included.  The latter once *)
(* ActivateBestChain has returned: one that has given up an invalid branch *)
(* is below what the candidates were pruned for until it is back at the    *)
(* best one.  A valid candidate to return to is always there.              *)
CandidatesRight ==
    /\ \A b \in candidates : b \in linked /\ ~Worse(seq, b, active)
    /\ (\A t \in Thread : pc[t] # "activating") =>
          \A b \in linked :
              ~Worse(seq, b, active) /\ Chain[b] \cap failedValid = {} => b \in candidates
    /\ \E b \in candidates : Chain[b] \cap failed = {}

(* "The result is either failure or an activated best chain": when no call *)
(* is under way, no chain of connectable blocks sorts better than the      *)
(* active one.                                                             *)
BestChainActivated ==
    (\A t \in Thread : pc[t] = "idle") =>
        \A b \in linked : Worse(seq, active, b) => Chain[b] \cap failed # {}

(* A call of ActivateBestChain that has begun ends: it does not switch     *)
(* between branches for ever.                                              *)
ActivationEnds ==
    \A t \in Thread : pc[t] = "activating" ~> pc[t] = "idle"
=============================================================================
