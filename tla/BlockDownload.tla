---------------------------- MODULE BlockDownload ----------------------------
(***************************************************************************)
(* Which block is asked of which peer: the block download of               *)
(* net_processing.cpp, from announcements to the blocks' arrival, with     *)
(* compact blocks, stalling peers, timeouts and disconnections.            *)
(*                                                                         *)
(* The message handler thread serves one peer at a time, and a peer's      *)
(* state is deleted only when no thread refers to it.  Handling a message  *)
(* and one call of SendMessages are steps, but a block is taken over in    *)
(* one step and processed in another: cs_main is released in between.  The *)
(* socket thread deletes peers (FinalizeNode) and RPC threads submit       *)
(* blocks between any two steps.                                           *)
(*                                                                         *)
(* A peer answers a request at most once, late or never, and announces and *)
(* sends blocks unasked.  A block's hash is its header's: a peer that is   *)
(* not honest may send other transactions or other witnesses under it.     *)
(* Only misbehaviour that is worth a ban at once is counted.               *)
(* Clocks are left out: a timeout may strike                               *)
(* whenever what it times goes on, unless a Prompt peer is about to        *)
(* answer.  Chain selection does in one step what ChainState shows of it:  *)
(* the best valid chain is active, and blocks found to fail are marked.    *)
(* Work is height, and nMinimumChainWork is zero, as in chainparams.cpp.   *)
(***************************************************************************)
EXTENDS BlockTree, Integers, SequencesExt

CONSTANTS
    Peer,        \* the NodeIds there may be, each for one connection
    NoPeer,
    Has,         \* of a peer: the blocks it sends when asked,
    Announces,   \* those it announces by inv or headers,
    Pushes,      \* those it sends unasked
    Relays,      \* those it relays as compact blocks, perhaps before validation,
    Garbles,     \* and those it sends with other transactions or witnesses
    Honest,      \* peers whose blocks are valid and whose messages are well-formed
    Prompt,      \* peers that answer before any timeout
    Preferred,   \* fPreferredDownload
    Outbound,    \* peers we chose, which should be on our chain
    Bad,         \* the blocks that fail in ContextualCheckBlock or ConnectBlock
    Submitted,   \* the blocks that may come from an RPC or a miner thread
    Window,      \* BLOCK_DOWNLOAD_WINDOW
    MaxInTransit,    \* MAX_BLOCKS_IN_TRANSIT_PER_PEER
    MinBlocksToKeep  \* MIN_BLOCKS_TO_KEEP

ASSUME BlockDownloadAssumption ==
    /\ NoPeer \notin Peer /\ Bad \subseteq Block \ {Genesis}
    /\ \A f \in {Has, Announces, Pushes, Relays, Garbles} : f \in [Peer -> SUBSET (Block \ {Genesis})]
    /\ \A p \in Peer : Announces[p] \cup Pushes[p] \subseteq Has[p]
    /\ \A p \in Honest : Garbles[p] = {} /\ \A b \in Has[p] : Chain[b] \cap Bad = {}
    /\ \A p \in Honest : \A b \in Relays[p] : Chain[Parent[b]] \cap Bad = {}
    /\ Prompt \subseteq Honest /\ Honest \subseteq Peer
    /\ Window \in Nat \ {0} /\ MaxInTransit \in Nat \ {0} /\ MinBlocksToKeep \in Nat

VARIABLES
    status,      \* of a peer: "new", "up", "closing" (fDisconnect), "gone"
    index,       \* mapBlockIndex
    data,        \* the blocks with BLOCK_HAVE_DATA
    failed,      \* the blocks marked as failed
    active,      \* chainActive.Tip()
    ibd,         \* IsInitialBlockDownload()
    best,        \* pindexBestKnownBlock
    unknown,     \* hashLastUnknownBlock
    common,      \* pindexLastCommonBlock
    download,    \* the blocks in flight, see below
    source,      \* mapBlockSource: of a block, <<peer, punish>> or <<>>
    ban,         \* the peers with fShouldBan
    asked,       \* of a peer: the requests it has not answered
    handling     \* the block taken over from a peer and not yet processed

chainVars == <<index, data, failed, active, source, handling>>
vars == <<status, chainVars, ibd, best, unknown, common, download, ban, asked>>

Request == {"block", "cmpct", "txn"} \X Block
Bodies == {"genuine", "mutated", "malleated"}
Answers(p) ==  \* what a peer can answer
    {m \in Request : m[2] \in Has[p] \/ (m[1] # "block" /\ m[2] \in Relays[p])}
Connected == {p \in Peer : status[p] \in {"up", "closing"}}

(* The peer and the block, whether processing is forced, what the body is, *)
(* and whether the block is marked as received only afterwards.            *)
Idle == [peer |-> NoPeer, block |-> NoBlock, force |-> FALSE, body |-> "none", late |-> FALSE]

-----------------------------------------------------------------------------
(* Blocks in flight: a record of mapBlocksInFlight, of each peer's         *)
(* vBlocksInFlight, nBlocksInFlight, nBlocksInFlightValidHeaders (every    *)
(* request has a validated header) and nStallingSince # 0, of              *)
(* nPeersWithValidatedDownloads and of the queued blocks with a            *)
(* partialBlock.                                                           *)

(* vBlocksInFlight.erase, at the place mapBlocksInFlight names. *)
Erased(q, b) == RemoveAt(q, CHOOSE i \in DOMAIN q : q[i] = b)

(* Mutant: what the peer is suspected of is kept. *)
MarkBlockAsReceivedSuspicious(d, b) ==
    LET p == d.inFlight[b]
    IN  IF p = NoPeer THEN d
        ELSE [d EXCEPT
                  !.valid[p] = @ - 1,
                  !.peers = IF d.valid[p] = 1 THEN @ - 1 ELSE @,
                  !.queue[p] = Erased(@, b),
                  !.count[p] = @ - 1,
                  !.inFlight[b] = NoPeer,
                  !.partial = @ \ {b}]

MarkBlockAsReceived(d, b) ==
    LET p == d.inFlight[b]
    IN  IF p = NoPeer THEN d
        ELSE [d EXCEPT
                  !.valid[p] = @ - 1,
                  !.peers = IF d.valid[p] = 1 THEN @ - 1 ELSE @,
                  !.queue[p] = Erased(@, b),
                  !.count[p] = @ - 1,
                  !.stalling[p] = FALSE,
                  !.inFlight[b] = NoPeer,
                  !.partial = @ \ {b}]

(* With a partialBlock if the caller asks for pit. *)
MarkBlockAsInFlight(d, p, b, pit) ==
    LET e == MarkBlockAsReceived(d, b)
    IN  IF d.inFlight[b] = p THEN d
        ELSE [e EXCEPT
                  !.queue[p] = Append(@, b),
                  !.count[p] = @ + 1,
                  !.valid[p] = @ + 1,
                  !.peers = IF e.valid[p] = 0 THEN @ + 1 ELSE @,
                  !.inFlight[b] = p,
                  !.partial = IF pit THEN @ \cup {b} ELSE @]

(* The blocks of s are asked of p, one after the other. *)
MarkedInFlight(d, p, s) ==
    LET e[n \in 0..Len(s)] ==
            IF n = 0 THEN d ELSE MarkBlockAsInFlight(e[n - 1], p, s[n], FALSE)
    IN  e

AllInFlight(d, p, s) == MarkedInFlight(d, p, s)[Len(s)]

-----------------------------------------------------------------------------
(* What a peer is known to have. *)

Better(old, new) == IF old = NoBlock \/ Height[new] >= Height[old] THEN new ELSE old

(* ProcessBlockAvailability: best and unknown of p, with known headers I. *)
Resolved(p, I) ==
    IF unknown[p] \in I THEN <<Better(best[p], unknown[p]), NoBlock>>
    ELSE <<best[p], unknown[p]>>

UpdateBlockAvailability(p, I, b) ==
    LET r == Resolved(p, I)
        s == IF b \in I THEN <<Better(r[1], b), r[2]>> ELSE <<r[1], b>>
    IN  /\ best' = [best EXCEPT ![p] = s[1]]
        /\ unknown' = [unknown EXCEPT ![p] = s[2]]

-----------------------------------------------------------------------------
(* Headers and blocks. *)

(* AcceptBlockHeader refuses a block marked as failed, and a new one with  *)
(* a failed ancestor; the blocks between the two are then marked as well.  *)
HeaderRefused(b) ==
    IF b \in index THEN b \in failed ELSE Chain[Parent[b]] \cap failed # {}
MarkedBelow(b) ==
    IF b \in index THEN {} ELSE {c \in Chain[Parent[b]] : Chain[c] \cap failed # {}}

(* ActivateBestChain, for blocks with data D: the tip becomes one of       *)
(* BestTips, if that is better.  Connectable chains with more work, and    *)
(* perhaps some with the same, are tried before and fail.                  *)
Linked(D) == {b \in Block : Chain[b] \subseteq D}
BestTips(D) ==
    LET valid == {b \in Linked(D) : Chain[b] \cap Bad = {}}
        most == {b \in valid : \A c \in valid : Height[c] <= Height[b]}
    IN  IF active \in most THEN {active} ELSE most
FirstBad(c) == CHOOSE x \in Chain[c] \cap Bad : Chain[Parent[x]] \cap Bad = {}
TriedBefore(D, tip) ==
    LET bad == {c \in Linked(D) : Chain[c] \cap Bad # {}}
    IN  {{c \in bad : Height[c] > Height[tip]},
         {c \in bad : \/ Height[c] > Height[tip]
                      \/ tip # active /\ Height[c] = Height[tip]}}

(* BlockChecked, of a block that is refused before it is stored: whoever   *)
(* mapBlockSource names is banned, if the failure counts and the peer is   *)
(* to be punished.                                                         *)
Refused(b, counts) ==
    /\ ban' = ban \cup {p \in Connected : counts /\ source[b] = <<p, TRUE>>}
    /\ source' = [source EXCEPT ![b] = <<>>]

(* The part of ProcessNewBlock after AcceptBlock has stored the block, or  *)
(* not, so that there are blocks with data D.  BlockChecked is told of     *)
(* every block that ConnectBlock looks at.                                 *)
ActivateBestChain(b, D) ==
    \E tip \in BestTips(D) : \E T \in TriedBefore(D, tip) :
        LET found == {FirstBad(c) : c \in T} \ failed
            checked == (UNION {Chain[x] : x \in found \cup {tip}}) \ Chain[active]
        IN  /\ active' = tip
            /\ failed' = failed \cup
                   UNION {{c \in Chain[t] : FirstBad(t) \in Chain[c]} : t \in T}
            /\ ban' = ban \cup {p \in Connected : \E x \in found : source[x] = <<p, TRUE>>}
            /\ source' = [c \in Block |->
                   IF c \in checked \/ (c = b /\ D = data) THEN <<>> ELSE source[c]]

(* A block without data that was asked for, or has enough work.            *)
fNewBlock(b, fForceProcessing) ==
    /\ b \notin data
    /\ \/ fForceProcessing
       \/ /\ Height[b] >= Height[active]
          /\ Height[b] <= Height[active] + MinBlocksToKeep

(* The body is genuine, or mutated (its transactions are not those of the  *)
(* merkle root: CheckBlock fails and the header is not looked at), or      *)
(* malleated (its witnesses are not those committed to: it is found in     *)
(* ContextualCheckBlock, and the block is not marked as failed).           *)
ProcessNewBlock(b, fForceProcessing, body) ==
    LET refused == b # Genesis /\ (Parent[b] \notin index \/ HeaderRefused(b))
        new == fNewBlock(b, fForceProcessing)
    IN  \/ /\ body = "mutated"
           /\ Refused(b, TRUE)
           /\ UNCHANGED <<index, data, failed, active>>
        \/ /\ body # "mutated" /\ refused
           /\ failed' = IF Parent[b] \in index THEN failed \cup MarkedBelow(b) ELSE failed
           /\ Refused(b, Parent[b] \in index /\ b \notin index)
           /\ UNCHANGED <<index, data, active>>
        \/ /\ ~refused /\ new
           /\ \/ body = "malleated" /\ failed' = failed
              \/ body = "genuine" /\ b \in Bad /\ failed' = failed \cup {b}
           /\ index' = index \cup {b}
           /\ Refused(b, TRUE)
           /\ UNCHANGED <<data, active>>
        \/ /\ ~refused /\ (body = "genuine" \/ (body = "malleated" /\ ~new))
           /\ index' = index \cup {b}
           /\ data' = IF new THEN data \cup {b} ELSE data
           /\ ActivateBestChain(b, data')

(* Mutant: whoever relayed a compact block is punished for it. *)
EmplacedPunished(b, p, punish) ==
    IF source[b] = <<>> THEN [source EXCEPT ![b] = <<p, TRUE>>] ELSE source

(* mapBlockSource.emplace: the first source stays. *)
Emplaced(b, p, punish) ==
    IF source[b] = <<>> THEN [source EXCEPT ![b] = <<p, punish>>] ELSE source

(* A block is taken over from p, under cs_main. *)
TakenOver(p, b, fForceProcessing, punish, body, late) ==
    /\ source' = Emplaced(b, p, punish)
    /\ handling' = [peer |-> p, block |-> b, force |-> fForceProcessing, body |-> body,
                    late |-> late]

(* SendRejectsAndCheckIfBanned, after every message. *)
CheckIfBanned(p) ==
    status' = [status EXCEPT ![p] = IF p \in ban' THEN "closing" ELSE @]

(* An answer is no longer waited for, and S is asked. *)
Answered(p, requests, S) == asked' = [asked EXCEPT ![p] = (@ \ requests) \cup S]

-----------------------------------------------------------------------------
(* The messages of a peer. *)

(* An inv, or headers that do not connect. *)
Announce(p, b) ==
    /\ status[p] = "up" /\ b \in Announces[p]
    /\ UpdateBlockAvailability(p, index, b)
    /\ UNCHANGED <<status, chainVars, ibd, common, download, ban, asked>>

(* The direct fetch of ProcessHeadersMessage: the blocks to ask p for, if  *)
(* the chain of last is at least as good as ours.  vToFetch is collected   *)
(* from last down to our chain, but not further than a limit.              *)
Missing(b) == b \notin Chain[active] \cup data /\ download.inFlight[b] = NoPeer
Collected(walk) ==
    LET v[n \in 0..Len(walk)] ==
            IF n = 0 THEN <<>>
            ELSE IF Missing(walk[n]) /\ Len(v[n - 1]) <= MaxInTransit
            THEN Append(v[n - 1], walk[n]) ELSE v[n - 1]
    IN  v
vToFetch(last) == Collected(Reverse(Branch(last, 0)))[Height[last] + 1]
LargeReorg(last) ==
    /\ Len(vToFetch(last)) > MaxInTransit
    /\ Parent[Last(vToFetch(last))] \notin Chain[active]
DirectFetch(p, last) ==
    IF last \in failed \/ Height[last] < Height[active] \/ LargeReorg(last) THEN <<>>
    ELSE LET up == Reverse(vToFetch(last))
             room == MaxInTransit - download.count[p]
         IN  SubSeq(up, 1, IF Len(up) < room THEN Len(up) ELSE room)

(* The part of ProcessHeadersMessage after the headers have been accepted. *)
(* A single block may be asked for as a compact block.                     *)
HeadersAccepted(p, last, requests, fCanDirectFetch) ==
    LET toFetch == IF fCanDirectFetch THEN DirectFetch(p, last) ELSE <<>>
        d == AllInFlight(download, p, toFetch)
        single == /\ Len(toFetch) = 1
                  /\ Cardinality({b \in Block : d.inFlight[b] # NoPeer}) = 1
    IN  /\ UpdateBlockAvailability(p, index', last)
        /\ download' = d
        /\ \E kind \in IF single THEN {"block", "cmpct"} ELSE {"block"} :
               Answered(p, requests, {<<kind, b>> : b \in ToSet(toFetch)})
        /\ UNCHANGED <<data, active, source, ibd, common, handling>>

Headers(p, first, last) ==
    LET headers == Branch(last, Height[first])
    IN  /\ status[p] = "up" /\ last \in Announces[p]
        /\ first \in Chain[last] \ {Genesis} /\ Parent[first] \in index
        /\ \A h \in ToSet(headers) : ~HeaderRefused(h)
        /\ index' = index \cup ToSet(headers)
        /\ \E fCanDirectFetch \in BOOLEAN : HeadersAccepted(p, last, {}, fCanDirectFetch)
        /\ UNCHANGED <<status, failed, ban>>

(* The headers before the first that is refused have been accepted.  A     *)
(* peer we chose is given up for a block known to be invalid; a new header *)
(* on top of one is misbehaviour.                                          *)
InvalidHeaders(p, first, last) ==
    LET headers == ToSet(Branch(last, Height[first]))
        bad == {h \in headers : HeaderRefused(h)}
        h == CHOOSE x \in bad : \A y \in bad : Height[x] <= Height[y]
    IN  /\ status[p] = "up" /\ last \in Announces[p]
        /\ first \in Chain[last] \ {Genesis} /\ Parent[first] \in index /\ bad # {}
        /\ index' = index \cup {x \in headers : Height[x] < Height[h]}
        /\ failed' = failed \cup MarkedBelow(h)
        /\ ban' = IF h \in index THEN ban ELSE ban \cup {p}
        /\ status' = [status EXCEPT ![p] = IF p \in ban' \/ (h \in index /\ p \in Outbound)
                                           THEN "closing" ELSE @]
        /\ UNCHANGED <<data, active, source, ibd, best, unknown, common, download, asked,
                       handling>>

(* A BLOCK message, asked for or not. *)
ReceiveBlock(p, b, body) ==
    /\ status[p] = "up"
    /\ \/ body = "genuine" /\ (b \in Pushes[p] \/ (b \in Has[p] /\ <<"block", b>> \in asked[p]))
       \/ body \in {"mutated", "malleated"} /\ b \in Garbles[p]
    /\ download' = MarkBlockAsReceived(download, b)
    /\ TakenOver(p, b, download.inFlight[b] # NoPeer, TRUE, body, FALSE)
    /\ Answered(p, {<<"block", b>>}, {})
    /\ UNCHANGED <<status, index, data, failed, active, ibd, best, unknown, common, ban>>

(* The rest of the handler of BLOCK, BLOCKTXN and CMPCTBLOCK, once cs_main *)
(* has been released.                                                      *)
HandleBlock(h) ==
    /\ h # Idle
    /\ handling' = Idle
    /\ ProcessNewBlock(h.block, h.force, h.body)
    /\ download' = IF h.late /\ h.block \in data' \ failed'
                   THEN MarkBlockAsReceived(download, h.block) ELSE download
    /\ CheckIfBanned(h.peer)
    /\ UNCHANGED <<ibd, best, unknown, common, asked>>

-----------------------------------------------------------------------------
(* Compact blocks: the paths of the CMPCTBLOCK handler. *)

CompactBlock(p, b) ==
    /\ status[p] = "up" /\ Parent[b] \in index
    /\ b \in Relays[p] \/ (b \in Has[p] /\ <<"cmpct", b>> \in asked[p])

CmpctRefused(p, b) ==
    /\ HeaderRefused(b)
    /\ failed' = failed \cup MarkedBelow(b)
    /\ ban' = IF b \in index THEN ban ELSE ban \cup {p}
    /\ CheckIfBanned(p)
    /\ Answered(p, {<<"cmpct", b>>}, {})
    /\ UNCHANGED <<index, data, active, source, ibd, best, unknown, common, download, handling>>

(* The header is accepted and the peer known to have it. *)
CmpctAccepted(p, b) ==
    /\ ~HeaderRefused(b)
    /\ index' = index \cup {b}
    /\ UpdateBlockAvailability(p, index', b)
    /\ UNCHANGED <<ibd, common>>
InFlight(b) == download.inFlight[b] # NoPeer
Useful(b) == b \notin data /\ Height[b] > Height[active]
NearTip(b) == Height[b] <= Height[active] + 2
MayStart(p, b) ==
    \/ ~InFlight(b) /\ download.count[p] < MaxInTransit
    \/ download.inFlight[b] = p
Wanted(b, fCanDirectFetch) == Useful(b) /\ NearTip(b) /\ (InFlight(b) \/ fCanDirectFetch)

(* There is nothing to do, we are not close to the tip, the block is being *)
(* put together already, or it cannot be without asking.                   *)
CmpctIgnored(p, b, fCanDirectFetch) ==
    /\ \/ b \in data
       \/ ~Useful(b) /\ ~InFlight(b)
       \/ Useful(b) /\ ~InFlight(b) /\ ~fCanDirectFetch
       \/ /\ Wanted(b, fCanDirectFetch)
          /\ MayStart(p, b) => b \in download.partial
    /\ CmpctAccepted(p, b)
    /\ Answered(p, {<<"cmpct", b>>}, {})
    /\ UNCHANGED <<status, data, failed, active, source, download, ban, handling>>

(* In flight, but the memory pool will be of no use. *)
CmpctAskBlock(p, b) ==
    /\ b \notin data /\ InFlight(b) /\ (Useful(b) => ~NearTip(b))
    /\ CmpctAccepted(p, b)
    /\ Answered(p, {<<"cmpct", b>>}, {<<"block", b>>})
    /\ UNCHANGED <<status, data, failed, active, source, download, ban, handling>>

(* InitData: the compact block is malformed, which counts against the peer,*)
(* or it fails and the block is asked for in full, or transactions are     *)
(* asked for.                                                              *)
CmpctStart(p, b, fCanDirectFetch) ==
    LET d == MarkBlockAsInFlight(download, p, b, TRUE)
        e == [d EXCEPT !.partial = @ \cup {b}]
    IN  /\ Wanted(b, fCanDirectFetch) /\ MayStart(p, b) /\ b \notin download.partial
        /\ CmpctAccepted(p, b)
        /\ \/ /\ p \notin Honest
              /\ download' = MarkBlockAsReceived(e, b) /\ ban' = ban \cup {p}
              /\ Answered(p, {<<"cmpct", b>>}, {})
           \/ /\ download' = e /\ ban' = ban
              /\ \E kind \in {"block", "txn"} : Answered(p, {<<"cmpct", b>>}, {<<kind, b>>})
        /\ CheckIfBanned(p)
        /\ UNCHANGED <<data, failed, active, source, handling>>

(* What a block is put together to: its witnesses are not checked. *)
Filled(p, b) == {"genuine"} \cup (IF b \in Garbles[p] THEN {"malleated"} ELSE {})

(* All transactions are at hand: on to the BLOCKTXN handler. *)
CmpctFilled(p, b, fCanDirectFetch) ==
    /\ Wanted(b, fCanDirectFetch) /\ MayStart(p, b) /\ b \notin download.partial
    /\ CmpctAccepted(p, b)
    /\ download' = MarkBlockAsReceived(MarkBlockAsInFlight(download, p, b, TRUE), b)
    /\ \E body \in Filled(p, b) : TakenOver(p, b, TRUE, FALSE, body, FALSE)
    /\ Answered(p, {<<"cmpct", b>>}, {})
    /\ UNCHANGED <<status, data, failed, active, ban>>

(* In flight from another peer, or too many are from this one, and still   *)
(* the block can be put together.                                          *)
CmpctReconstructed(p, b, fCanDirectFetch) ==
    /\ Wanted(b, fCanDirectFetch) /\ ~MayStart(p, b)
    /\ CmpctAccepted(p, b)
    /\ \E body \in Filled(p, b) : TakenOver(p, b, TRUE, FALSE, body, TRUE)
    /\ Answered(p, {<<"cmpct", b>>}, {})
    /\ UNCHANGED <<status, data, failed, active, download, ban>>

(* Not in flight and far ahead: the same as its header. *)
CmpctAsHeader(p, b) ==
    /\ Useful(b) /\ ~NearTip(b) /\ ~InFlight(b) /\ ~HeaderRefused(b)
    /\ index' = index \cup {b}
    /\ HeadersAccepted(p, b, {<<"cmpct", b>>}, TRUE)
    /\ UNCHANGED <<status, failed, ban>>

Compact(p, b) ==
    /\ CompactBlock(p, b)
    /\ \/ CmpctRefused(p, b) \/ CmpctAskBlock(p, b) \/ CmpctAsHeader(p, b)
       \/ \E f \in BOOLEAN : \/ CmpctIgnored(p, b, f) \/ CmpctStart(p, b, f)
                            \/ CmpctFilled(p, b, f) \/ CmpctReconstructed(p, b, f)

(* BLOCKTXN answers a GETBLOCKTXN: for a block that is not expected, or    *)
(* malformed, or failing, or else the block is put together.               *)
Expected(p, b) == download.inFlight[b] = p /\ b \in download.partial
BlockTxn(p, b) ==
    /\ status[p] = "up" /\ <<"txn", b>> \in asked[p]
    /\ \/ /\ ~Expected(p, b)
          /\ Answered(p, {<<"txn", b>>}, {})
          /\ UNCHANGED <<chainVars, download, ban>>
       \/ /\ Expected(p, b) /\ p \notin Honest
          /\ download' = MarkBlockAsReceived(download, b) /\ ban' = ban \cup {p}
          /\ Answered(p, {<<"txn", b>>}, {})
          /\ UNCHANGED chainVars
       \/ /\ Expected(p, b)
          /\ Answered(p, {<<"txn", b>>}, {<<"block", b>>})
          /\ UNCHANGED <<chainVars, download, ban>>
       \/ /\ Expected(p, b)
          /\ download' = MarkBlockAsReceived(download, b)
          /\ \E body \in Filled(p, b) : TakenOver(p, b, TRUE, FALSE, body, FALSE)
          /\ Answered(p, {<<"txn", b>>}, {})
          /\ UNCHANGED <<index, data, failed, active, ban>>
    /\ CheckIfBanned(p)
    /\ UNCHANGED <<ibd, best, unknown, common>>

-----------------------------------------------------------------------------
(* SendMessages. *)

(* Mutant: nChainTx is not looked at. *)
PassedUnlinked(b) == TRUE

(* A block we have moves pindexLastCommonBlock if its ancestors are there. *)
Passed(b) == Chain[b] \subseteq data

(* One round of FindNextBlocksToDownload: the state a of the search meets  *)
(* block b.  If the window is what keeps us from fetching anything, the    *)
(* peer with the first block in flight is the staller.                     *)
Look(a, b, p, nWindowEnd, count) ==
    CASE a.end -> a
      [] ~a.end /\ b \in failed -> [a EXCEPT !.end = TRUE]
      [] ~a.end /\ b \in data \ failed ->
            IF Passed(b) THEN [a EXCEPT !.common = b] ELSE a
      [] ~a.end /\ b \notin data \cup failed /\ download.inFlight[b] # NoPeer ->
            IF a.waitingfor = NoPeer
            THEN [a EXCEPT !.waitingfor = download.inFlight[b]] ELSE a
      [] ~a.end /\ b \notin data \cup failed /\ download.inFlight[b] = NoPeer ->
            IF Height[b] > nWindowEnd
            THEN [a EXCEPT !.end = TRUE,
                           !.staller = IF a.vBlocks = <<>> /\ a.waitingfor # p
                                       THEN a.waitingfor ELSE @]
            ELSE [a EXCEPT !.vBlocks = Append(@, b),
                           !.end = Len(a.vBlocks) + 1 = count]

(* The search from the last block in common, until count blocks are found  *)
(* or the window ends.                                                     *)
Search(p, start, top, count) ==
    LET nWindowEnd == Height[start] + Window
        nMaxHeight == IF Height[top] < nWindowEnd + 1 THEN Height[top] ELSE nWindowEnd + 1
        walk == Branch(top, Height[start] + 1)
        a[n \in 0..(nMaxHeight - Height[start])] ==
            IF n = 0 THEN [common |-> start, vBlocks |-> <<>>, waitingfor |-> NoPeer,
                           staller |-> NoPeer, end |-> FALSE]
            ELSE Look(a[n - 1], walk[n], p, nWindowEnd, count)
    IN  a[nMaxHeight - Height[start]]

(* For p with best known block top. *)
FindNextBlocksToDownload(p, top, count) ==
    IF top = NoBlock \/ Height[top] < Height[active]
    THEN [common |-> common[p], vBlocks |-> <<>>, staller |-> NoPeer]
    ELSE Search(p, LastCommonAncestor(IF common[p] # NoBlock THEN common[p] ELSE active, top),
                top, count)

fFetch(p) == p \in Preferred \/ Preferred \cap Connected = {}

(* The getdata of SendMessages, and the mark on a staller. *)
SendMessages(p) ==
    LET r == Resolved(p, index)
        room == MaxInTransit - download.count[p]
        n == FindNextBlocksToDownload(p, r[1], room)
        d == AllInFlight(download, p, n.vBlocks)
    IN  /\ status[p] = "up" /\ p \notin ban
        /\ best' = [best EXCEPT ![p] = r[1]]
        /\ unknown' = [unknown EXCEPT ![p] = r[2]]
        /\ IF (fFetch(p) \/ ~ibd) /\ room > 0
           THEN /\ common' = [common EXCEPT ![p] = n.common]
                /\ download' = IF d.count[p] = 0 /\ n.staller # NoPeer
                               THEN [d EXCEPT !.stalling[n.staller] = TRUE] ELSE d
                /\ Answered(p, {}, {<<"block", b>> : b \in ToSet(n.vBlocks)})
           ELSE UNCHANGED <<common, download, asked>>
        /\ UNCHANGED <<status, chainVars, ibd, ban>>

(* SendRejectsAndCheckIfBanned, at the beginning. *)
Banned(p) ==
    /\ status[p] = "up" /\ p \in ban
    /\ status' = [status EXCEPT ![p] = "closing"]
    /\ UNCHANGED <<chainVars, ibd, best, unknown, common, download, ban, asked>>

(* The time is up since nStallingSince. *)
StallingTimeout(p) ==
    /\ status[p] = "up" /\ p \notin ban /\ download.stalling[p]
    /\ p \in Prompt => asked[p] \cap Answers(p) = {}
    /\ status' = [status EXCEPT ![p] = "closing"]
    /\ UNCHANGED <<chainVars, ibd, best, unknown, common, download, ban, asked>>

(* The time is up since nDownloadingSince, for the first block in flight. *)
TimedOut(p, b) ==
    /\ status[p] = "up" /\ p \notin ban
    /\ download.queue[p] # <<>> /\ b = Head(download.queue[p])
    /\ p \in Prompt => \A m \in asked[p] \cap Answers(p) : m[2] # b
DownloadTimeout(p, b) ==
    /\ TimedOut(p, b)
    /\ status' = [status EXCEPT ![p] = "closing"]
    /\ UNCHANGED <<chainVars, ibd, best, unknown, common, download, ban, asked>>

-----------------------------------------------------------------------------
(* Other threads. *)

(* InitializeNode, and the handshake. *)
Connect(p) ==
    /\ status[p] = "new"
    /\ status' = [status EXCEPT ![p] = "up"]
    /\ UNCHANGED <<chainVars, ibd, best, unknown, common, download, ban, asked>>

(* The connection is lost, or ended for another reason. *)
Disconnect(p) ==
    /\ status[p] = "up" /\ p \notin Prompt
    /\ status' = [status EXCEPT ![p] = "closing"]
    /\ UNCHANGED <<chainVars, ibd, best, unknown, common, download, ban, asked>>

(* What is in flight from p is not any more. *)
ErasedInFlight(p) ==
    [b \in Block |-> IF b \in ToSet(download.queue[p]) THEN NoPeer ELSE download.inFlight[b]]

FinalizeNode(p) ==
    /\ status[p] = "closing" /\ handling.peer # p
    /\ status' = [status EXCEPT ![p] = "gone"]
    /\ download' = [download EXCEPT
           !.inFlight = ErasedInFlight(p),
           !.partial = @ \ ToSet(download.queue[p]),
           !.peers = IF download.valid[p] # 0 THEN @ - 1 ELSE @,
           !.queue[p] = <<>>, !.count[p] = 0, !.valid[p] = 0, !.stalling[p] = FALSE]
    /\ best' = [best EXCEPT ![p] = NoBlock] /\ unknown' = [unknown EXCEPT ![p] = NoBlock]
    /\ common' = [common EXCEPT ![p] = NoBlock]
    /\ ban' = ban \ {p} /\ asked' = [asked EXCEPT ![p] = {}]
    /\ UNCHANGED <<chainVars, ibd>>

(* submitblock, or a block found by a miner thread: not heard of before. *)
SubmitBlock(b) ==
    /\ b \notin data /\ Parent[b] \in index /\ b \in Submitted
    /\ ProcessNewBlock(b, TRUE, "genuine")
    /\ UNCHANGED <<status, ibd, best, unknown, common, download, asked, handling>>

(* The tip is recent: IsInitialBlockDownload stays false. *)
LeaveIBD ==
    /\ ibd /\ ibd' = FALSE
    /\ UNCHANGED <<status, chainVars, best, unknown, common, download, ban, asked>>

-----------------------------------------------------------------------------
Nobody == [p \in Peer |-> 0]
Init ==
    /\ status = [p \in Peer |-> "new"]
    /\ index = {Genesis} /\ data = {Genesis} /\ failed = {} /\ active = Genesis
    /\ ibd = TRUE
    /\ best = [p \in Peer |-> NoBlock] /\ unknown = best /\ common = best
    /\ download = [inFlight |-> [b \in Block |-> NoPeer], partial |-> {}, peers |-> 0,
                   queue |-> [p \in Peer |-> <<>>], count |-> Nobody, valid |-> Nobody,
                   stalling |-> [p \in Peer |-> FALSE]]
    /\ source = [b \in Block |-> <<>>] /\ ban = {} /\ asked = [p \in Peer |-> {}]
    /\ handling = Idle

Message(p) ==
    \/ \E b \in Announces[p] :
           \/ Announce(p, b)
           \/ \E first \in Chain[b] : InvalidHeaders(p, first, b) \/ Headers(p, first, b)
    \/ \E b \in Block :
           \/ Compact(p, b) \/ BlockTxn(p, b)
           \/ \E body \in Bodies : ReceiveBlock(p, b, body)

(* The message handler thread serves p, between two messages. *)
Serve(p) ==
    \/ Message(p) \/ SendMessages(p) \/ Banned(p) \/ StallingTimeout(p)
    \/ \E b \in Block : DownloadTimeout(p, b)

Next ==
    \/ handling = Idle /\ \E p \in Peer : Serve(p)
    \/ HandleBlock(handling)
    \/ \E p \in Peer : Connect(p) \/ Disconnect(p) \/ FinalizeNode(p)
    \/ \E b \in Block : SubmitBlock(b)
    \/ LeaveIBD

(* SendMessages would ask p for a block, or move its window. *)
MayAsk(p) ==
    LET room == MaxInTransit - download.count[p]
        n == FindNextBlocksToDownload(p, Resolved(p, index)[1], room)
    IN  /\ status[p] = "up" /\ p \notin ban /\ (fFetch(p) \/ ~ibd) /\ room > 0
        /\ n.vBlocks # <<>> \/ n.common # common[p]

(* The message handler serves every peer, and the socket thread deletes    *)
(* the disconnected ones.  A block that stays the first in flight from a   *)
(* peer has its timeout.  A prompt peer sends what it is asked for.  Each  *)
(* is fairness of an action, stated by what the action puts an end to:     *)
(* HandleBlock, SendMessages, Banned, FinalizeNode, DownloadTimeout, and   *)
(* the three kinds of answers.  It is weak but for the thread being busy   *)
(* with a block now and then: it serves the peers in turn.                 *)
Fairness ==
    /\ []<>(handling = Idle)
    /\ \A p \in Peer :
           /\ []<>~MayAsk(p)
           /\ []<>~(status[p] = "up" /\ p \in ban)
           /\ []<>(status[p] # "closing")
           /\ \A b \in Block : []<>~TimedOut(p, b)
    /\ \A p \in Prompt : \A m \in Answers(p) : []<>(status[p] # "up" \/ m \notin asked[p])

Spec == Init /\ [][Next]_vars
FairSpec == Spec /\ Fairness

-----------------------------------------------------------------------------
(* Properties. *)

(* mapBlocksInFlight, the peers' lists and all the counters agree: each    *)
(* block is in flight from one peer that is connected, no peer has too     *)
(* many, and the assertions of FinalizeNode hold.  A peer is suspected of  *)
(* stalling only while a block is in flight from it.                       *)
InFlightRight ==
    /\ \A b \in Block, p \in Peer :
           download.inFlight[b] = p <=> b \in ToSet(download.queue[p])
    /\ \A p \in Peer :
           /\ IsInjective(download.queue[p])
           /\ download.count[p] = Len(download.queue[p])
           /\ download.valid[p] = download.count[p]
           /\ download.count[p] <= MaxInTransit
           /\ download.count[p] > 0 => p \in Connected
           /\ download.stalling[p] => download.count[p] > 0
    /\ download.peers = Cardinality({p \in Peer : download.valid[p] > 0})
    /\ \A b \in download.partial : download.inFlight[b] # NoPeer

(* What is being handled is not genuine, another sent it, and p is noted   *)
(* as the source of the block, which it has sent as well.                  *)
BannedForGarbled(p) ==
    /\ handling # Idle /\ handling.peer # p /\ handling.body # "genuine"
    /\ source[handling.block] = <<p, TRUE>> /\ handling.block \in Has[p]

(* Of the offences worth a ban at once, an honest peer is banned for one   *)
(* only, and that one is not its own: another peer has sent a block with   *)
(* other transactions or witnesses while mapBlockSource still names the    *)
(* honest peer, which sent the same block in full before.  It is not       *)
(* banned for another's block that its own block connects, nor for having  *)
(* relayed a compact block before validating it, nor for a block that an   *)
(* RPC thread submits while its own waits to be processed.                 *)
HonestBannedForGarbled ==
    [][\A p \in (ban' \ ban) \cap Honest : BannedForGarbled(p)]_vars

(* A valid block of the chain of a prompt, preferred peer arrives, however *)
(* many others keep it waiting, unless our chain becomes better than the   *)
(* peer's or the peer is given up.  Only a peer that relays it as compact  *)
(* blocks with wrong witnesses again and again, which is never punished,   *)
(* may keep it in flight for ever.                                         *)
BlocksArrive ==
    <>[](handling.body # "malleated") =>
        \A p \in Prompt \cap Preferred : \A b \in Block :
            b \in Chain[best[p]] /\ Chain[b] \cap Bad = {} ~>
                \/ b \in data \/ b \notin Chain[best[p]]
                \/ Height[active] > Height[best[p]]
=============================================================================
