------------------------- MODULE BlockDownloadProofs -------------------------
(***************************************************************************)
(* Safety of the block download, for any tree of blocks and any peers: for *)
(* what an honest peer is banned, and that the lists and counters of       *)
(* blocks in flight agree.                                                 *)
(***************************************************************************)
EXTENDS BlockDownload, BlockTreeProofs, SequenceTheorems, FiniteSetTheorems

-----------------------------------------------------------------------------
(* The block being handled. *)

HandlingRight ==
    \/ handling = Idle
    \/ /\ handling.peer \in Peer /\ handling.block \in Block /\ handling.body \in Bodies
       /\ handling.body # "genuine" => handling.block \in Garbles[handling.peer]

LEMMA TakenRight ==
    ASSUME NEW p \in Peer, NEW b \in Block, NEW force, NEW punish, NEW body \in Bodies, NEW late,
           TakenOver(p, b, force, punish, body, late), body # "genuine" => b \in Garbles[p]
    PROVE  HandlingRight'
<1>1. handling' = [peer |-> p, block |-> b, force |-> force, body |-> body, late |-> late]
  BY DEF TakenOver
<1>2. handling'.peer = p /\ handling'.block = b /\ handling'.body = body
  BY <1>1
<1> QED BY <1>2 DEF HandlingRight

LEMMA FilledRight ==
    ASSUME NEW p \in Peer, NEW b \in Block, NEW body \in Filled(p, b)
    PROVE  body \in Bodies /\ (body # "genuine" => b \in Garbles[p])
BY DEF Filled, Bodies

LEMMA HandlingStep ==
    ASSUME HandlingRight, [Next]_vars
    PROVE  HandlingRight'
<1>1. ASSUME UNCHANGED handling PROVE HandlingRight'
  BY <1>1 DEF HandlingRight
<1>2. ASSUME NEW p \in Peer, NEW b \in Block, NEW late \in BOOLEAN,
             \E body \in Filled(p, b) : TakenOver(p, b, TRUE, FALSE, body, late)
      PROVE  HandlingRight'
  BY <1>2, TakenRight, FilledRight
<1>3. ASSUME NEW p \in Peer, NEW b \in Block, Compact(p, b) PROVE HandlingRight'
  <2>1. CASE CmpctRefused(p, b) \/ CmpctAskBlock(p, b) \/ CmpctAsHeader(p, b)
    BY <1>1, <2>1 DEF CmpctRefused, CmpctAskBlock, CmpctAsHeader, HeadersAccepted
  <2>2. ASSUME NEW f \in BOOLEAN, CmpctIgnored(p, b, f) \/ CmpctStart(p, b, f) PROVE HandlingRight'
    BY <1>1, <2>2 DEF CmpctIgnored, CmpctStart
  <2>3. ASSUME NEW f \in BOOLEAN, CmpctFilled(p, b, f) PROVE HandlingRight'
    BY <1>2, <2>3 DEF CmpctFilled
  <2>4. ASSUME NEW f \in BOOLEAN, CmpctReconstructed(p, b, f) PROVE HandlingRight'
    BY <1>2, <2>4 DEF CmpctReconstructed
  <2> QED BY <1>3, <2>1, <2>2, <2>3, <2>4 DEF Compact
<1>4. ASSUME NEW p \in Peer, NEW b \in Block, BlockTxn(p, b) PROVE HandlingRight'
  BY <1>1, <1>2, <1>4 DEF BlockTxn, chainVars
<1>5. ASSUME NEW p \in Peer, NEW b \in Block, NEW body \in Bodies, ReceiveBlock(p, b, body)
      PROVE  HandlingRight'
  <2>1. /\ TakenOver(p, b, download.inFlight[b] # NoPeer, TRUE, body, FALSE)
        /\ body # "genuine" => b \in Garbles[p]
    BY <1>5 DEF ReceiveBlock
  <2> QED BY <2>1, TakenRight
<1>6. ASSUME NEW p \in Peer, Message(p) PROVE HandlingRight'
  <2>1. CASE \E b \in Announces[p] : Announce(p, b)
    BY <1>1, <2>1 DEF Announce, chainVars
  <2>2. CASE \E b \in Announces[p] : \E first \in Chain[b] : InvalidHeaders(p, first, b)
    BY <1>1, <2>2 DEF InvalidHeaders
  <2>3. CASE \E b \in Announces[p] : \E first \in Chain[b] : Headers(p, first, b)
    BY <1>1, <2>3 DEF Headers, HeadersAccepted
  <2> QED BY <1>3, <1>4, <1>5, <1>6, <2>1, <2>2, <2>3 DEF Message
<1>7. ASSUME NEW p \in Peer, SendMessages(p) PROVE HandlingRight'
  <2>1. UNCHANGED <<status, chainVars, ibd, ban>>
    BY <1>7, Zenon DEF SendMessages
  <2> QED BY <1>1, <2>1 DEF chainVars
<1>8. ASSUME NEW p \in Peer,
             \/ Banned(p) \/ StallingTimeout(p) \/ Connect(p) \/ Disconnect(p) \/ FinalizeNode(p)
             \/ \E b \in Block : DownloadTimeout(p, b)
      PROVE  HandlingRight'
  BY <1>1, <1>8 DEF Banned, StallingTimeout, Connect, Disconnect, FinalizeNode, DownloadTimeout, chainVars
<1>9. CASE HandleBlock(handling)
  BY <1>9 DEF HandleBlock, HandlingRight
<1>10. CASE (\E b \in Block : SubmitBlock(b)) \/ LeaveIBD \/ UNCHANGED vars
  BY <1>1, <1>10 DEF SubmitBlock, LeaveIBD, vars, chainVars
<1> QED BY <1>6, <1>7, <1>8, <1>9, <1>10 DEF Next, Serve

LEMMA HandlingCorrect == Spec => []HandlingRight
<1>1. Init => HandlingRight
  BY DEF Init, HandlingRight
<1>2. HandlingRight /\ [Next]_vars => HandlingRight'
  BY HandlingStep
<1> QED BY <1>1, <1>2, PTL DEF Spec

-----------------------------------------------------------------------------
(* For what an honest peer is banned. *)

(* Only blocks on a chain with a bad block are marked as failed. *)
FailedRight(F) == F \subseteq Block /\ \A b \in F : Chain[b] \cap Bad # {}

(* An honest source that would be punished for a block has it. *)
SourceRight(src) ==
    /\ src \in [Block -> (Peer \X BOOLEAN) \cup {<<>>}]
    /\ \A b \in Block, p \in Honest : src[b] = <<p, TRUE>> => b \in Has[p]

HonestInv == FailedRight(failed) /\ SourceRight(source)

(* No honest peer is banned in the step. *)
Spared == ban' \cap Honest \subseteq ban

LEMMA ParentChain ==
    ASSUME NEW b \in Block
    PROVE  Chain[Parent[b]] \subseteq Chain[b] /\ Chain[b] \subseteq Block
<1>1. CASE b = Genesis
  BY <1>1, ChainOfNone, ChainLeast, TreeAssumption
<1>2. CASE b # Genesis
  BY <1>2, ChainStep, ChainLeast
<1> QED BY <1>1, <1>2

(* The first bad block of a chain. *)
LEMMA FirstBadRight ==
    ASSUME NEW c \in Block, Chain[c] \cap Bad # {}
    PROVE  FirstBad(c) \in Chain[c] /\ FirstBad(c) \in Bad
<1> DEFINE S == Chain[c] \cap Bad
           T == {Height[x] : x \in S}
<1>1. S \subseteq Block /\ Genesis \notin S
  BY ChainLeast, BlockDownloadAssumption
<1>2. T \in SUBSET Nat /\ T # {}
  BY <1>1, HeightStep
<1>3. PICK h \in T : \A y \in T : h <= y
  <2> HIDE DEF T
  <2> QED BY <1>2, LeastNatural
<1>4. PICK x \in S : Height[x] = h
  BY <1>3
<1>5. ASSUME NEW y \in Chain[Parent[x]] \cap Bad PROVE FALSE
  <2>1. x \in Block /\ x # Genesis /\ Parent[x] \in Block
    BY <1>1, <1>4, ParentBlock
  <2>2. y \in S
    BY <2>1, <1>4, ParentChain, ChainOfAncestor
  <2>3. Height[y] \in Nat /\ Height[Parent[x]] \in Nat /\ Height[y] <= Height[Parent[x]]
    BY <2>1, HeightOfAncestor
  <2>4. Height[x] = Height[Parent[x]] + 1
    BY <2>1, HeightStep
  <2>5. h <= Height[y]
    BY <1>3, <2>2
  <2> HIDE DEF T
  <2> QED BY <1>4, <2>3, <2>4, <2>5
<1>6. Chain[Parent[x]] \cap Bad = {}
  BY <1>5
<1> QED BY <1>4, <1>6 DEF FirstBad

(* Only a chain with a bad block below makes a new header be refused. *)
LEMMA RefusedBelow ==
    ASSUME NEW b \in Block, FailedRight(failed), HeaderRefused(b), b \notin index
    PROVE  Chain[Parent[b]] \cap Bad # {}
<1>1. PICK f \in Chain[Parent[b]] : f \in failed
  BY DEF HeaderRefused
<1>2. Parent[b] \in Block
  BY <1>1, ChainOfNone, TreeAssumption
<1>3. Chain[f] \subseteq Chain[Parent[b]]
  BY <1>1, <1>2, ChainOfAncestor
<1> QED BY <1>1, <1>3 DEF FailedRight

LEMMA MarkedRight ==
    ASSUME NEW b \in Block, FailedRight(failed)
    PROVE  FailedRight(failed \cup MarkedBelow(b))
<1>1. ASSUME NEW c \in MarkedBelow(b) PROVE c \in Block /\ Chain[c] \cap Bad # {}
  <2>1. c \in Chain[Parent[b]] /\ Chain[c] \cap failed # {}
    BY <1>1 DEF MarkedBelow
  <2>2. c \in Block
    BY <2>1, ParentChain
  <2>3. PICK f \in Chain[c] : f \in failed
    BY <2>1
  <2>4. Chain[f] \subseteq Chain[c]
    BY <2>2, <2>3, ChainOfAncestor
  <2> QED BY <2>2, <2>3, <2>4 DEF FailedRight
<1> QED BY <1>1 DEF FailedRight

LEMMA HonestBlocks ==
    ASSUME NEW p \in Peer, NEW b \in Has[p], p \in Honest
    PROVE  b \in Block /\ Chain[b] \cap Bad = {} /\ b \notin Bad /\ Chain[Parent[b]] \cap Bad = {}
<1>1. b \in Block /\ Chain[b] \cap Bad = {}
  BY BlockDownloadAssumption
<1> QED BY <1>1, ParentChain, ChainLeast

(* BlockChecked bans only whoever is noted as the source.                  *)
LEMMA RefusedRight ==
    ASSUME NEW b \in Block, NEW counts, Refused(b, counts), SourceRight(source)
    PROVE  /\ SourceRight(source')
           /\ \A p \in (ban' \ ban) \cap Honest : counts /\ source[b] = <<p, TRUE>> /\ b \in Has[p]
<1>1. SourceRight(source')
  BY DEF Refused, SourceRight
<1>2. ASSUME NEW p \in (ban' \ ban) \cap Honest
      PROVE  counts /\ source[b] = <<p, TRUE>> /\ b \in Has[p]
  BY <1>2, BlockDownloadAssumption DEF Refused, SourceRight
<1> QED BY <1>1, <1>2

(* ConnectBlock fails only for bad blocks, which no honest peer has sent.  *)
LEMMA ActivatedRight ==
    ASSUME NEW b \in Block, NEW D, ActivateBestChain(b, D), HonestInv
    PROVE  HonestInv' /\ Spared
<1>1. PICK tip \in BestTips(D) : \E T \in TriedBefore(D, tip) :
          LET found == {FirstBad(c) : c \in T} \ failed
              checked == (UNION {Chain[x] : x \in found \cup {tip}}) \ Chain[active]
          IN  /\ active' = tip
              /\ failed' = failed \cup UNION {{c \in Chain[t] : FirstBad(t) \in Chain[c]} : t \in T}
              /\ ban' = ban \cup {p \in Connected : \E x \in found : source[x] = <<p, TRUE>>}
              /\ source' = [c \in Block |->
                     IF c \in checked \/ (c = b /\ D = data) THEN <<>> ELSE source[c]]
  BY Zenon DEF ActivateBestChain
<1>2. PICK T \in TriedBefore(D, tip) :
          LET found == {FirstBad(c) : c \in T} \ failed
              checked == (UNION {Chain[x] : x \in found \cup {tip}}) \ Chain[active]
          IN  /\ active' = tip
              /\ failed' = failed \cup UNION {{c \in Chain[t] : FirstBad(t) \in Chain[c]} : t \in T}
              /\ ban' = ban \cup {p \in Connected : \E x \in found : source[x] = <<p, TRUE>>}
              /\ source' = [c \in Block |->
                     IF c \in checked \/ (c = b /\ D = data) THEN <<>> ELSE source[c]]
  BY <1>1, Zenon
<1> DEFINE found == {FirstBad(c) : c \in T} \ failed
           checked == (UNION {Chain[x] : x \in found \cup {tip}}) \ Chain[active]
<1>3. /\ T \in TriedBefore(D, tip)
      /\ failed' = failed \cup UNION {{c \in Chain[t] : FirstBad(t) \in Chain[c]} : t \in T}
      /\ ban' = ban \cup {p \in Connected : \E x \in found : source[x] = <<p, TRUE>>}
      /\ source' = [c \in Block |-> IF c \in checked \/ (c = b /\ D = data) THEN <<>> ELSE source[c]]
  BY <1>2
<1> HIDE DEF checked
<1>4. \A t \in T : t \in Block /\ Chain[t] \cap Bad # {}
  BY <1>3 DEF TriedBefore, Linked
<1>5. \A t \in T : FirstBad(t) \in Bad /\ FirstBad(t) \in Block
  BY <1>4, FirstBadRight, BlockDownloadAssumption
<1>6. FailedRight(failed')
  <2>1. ASSUME NEW t \in T, NEW c \in Chain[t], FirstBad(t) \in Chain[c]
        PROVE  c \in Block /\ Chain[c] \cap Bad # {}
    BY <1>4, <1>5, <2>1, ChainLeast
  <2> QED BY <1>3, <2>1 DEF FailedRight, HonestInv
<1>7. SourceRight(source')
  BY <1>3 DEF SourceRight, HonestInv
<1>8. Spared
  <2>1. ASSUME NEW p \in Honest, NEW x \in found, source[x] = <<p, TRUE>> PROVE FALSE
    <3>1. x \in Bad /\ x \in Block /\ p \in Peer
      BY <1>3, <1>5, BlockDownloadAssumption
    <3>2. x \in Has[p]
      BY <2>1, <3>1 DEF SourceRight, HonestInv
    <3> QED BY <3>1, <3>2, HonestBlocks
  <2> QED BY <1>3, <2>1 DEF Spared
<1> QED BY <1>6, <1>7, <1>8 DEF HonestInv

(* ProcessNewBlock bans an honest peer only for a body that is not genuine *)
(* of a block whose source it is.                                          *)
LEMMA ProcessedRight ==
    ASSUME NEW b \in Block, NEW force, NEW body, ProcessNewBlock(b, force, body), HonestInv
    PROVE  /\ HonestInv'
           /\ \A p \in (ban' \ ban) \cap Honest :
                  body # "genuine" /\ source[b] = <<p, TRUE>> /\ b \in Has[p]
<1> DEFINE refused == b # Genesis /\ (Parent[b] \notin index \/ HeaderRefused(b))
           Blamed == \A p \in (ban' \ ban) \cap Honest :
                         body # "genuine" /\ source[b] = <<p, TRUE>> /\ b \in Has[p]
<1>1. CASE body = "mutated" /\ Refused(b, TRUE) /\ UNCHANGED <<index, data, failed, active>>
  <2>1. HonestInv'
    BY <1>1, RefusedRight DEF HonestInv
  <2>2. Blamed
    BY <1>1, RefusedRight DEF HonestInv
  <2> QED BY <2>1, <2>2
<1>2. CASE /\ body # "mutated" /\ refused
           /\ failed' = IF Parent[b] \in index THEN failed \cup MarkedBelow(b) ELSE failed
           /\ Refused(b, Parent[b] \in index /\ b \notin index)
           /\ UNCHANGED <<index, data, active>>
  <2>1. FailedRight(failed')
    BY <1>2, MarkedRight DEF HonestInv
  <2>2. HonestInv'
    BY <1>2, <2>1, RefusedRight DEF HonestInv
  <2>3. ASSUME NEW p \in (ban' \ ban) \cap Honest PROVE FALSE
    <3>1. Parent[b] \in index /\ b \notin index /\ b \in Has[p]
      BY <1>2, <2>3, RefusedRight DEF HonestInv
    <3>2. Chain[Parent[b]] \cap Bad # {}
      BY <1>2, <3>1, RefusedBelow DEF HonestInv
    <3> QED BY <2>3, <3>1, <3>2, HonestBlocks, BlockDownloadAssumption
  <2> QED BY <2>2, <2>3
<1>3. CASE /\ \/ body = "malleated" /\ failed' = failed
              \/ body = "genuine" /\ b \in Bad /\ failed' = failed \cup {b}
           /\ Refused(b, TRUE)
  <2>1. FailedRight(failed')
    BY <1>3, ChainLeast DEF HonestInv, FailedRight
  <2>2. HonestInv'
    BY <1>3, <2>1, RefusedRight DEF HonestInv
  <2>3. ASSUME NEW p \in (ban' \ ban) \cap Honest
        PROVE  body # "genuine" /\ source[b] = <<p, TRUE>> /\ b \in Has[p]
    <3>1. source[b] = <<p, TRUE>> /\ b \in Has[p] /\ p \in Peer
      BY <1>3, <2>3, RefusedRight, BlockDownloadAssumption DEF HonestInv
    <3>2. b \notin Bad
      BY <2>3, <3>1, HonestBlocks
    <3> QED BY <1>3, <3>1, <3>2
  <2> QED BY <2>2, <2>3
<1>4. CASE \E D : ActivateBestChain(b, D)
  BY <1>4, ActivatedRight DEF Spared
<1> QED
  <2>1. \/ body = "mutated" /\ Refused(b, TRUE) /\ UNCHANGED <<index, data, failed, active>>
        \/ /\ body # "mutated" /\ refused
           /\ failed' = IF Parent[b] \in index THEN failed \cup MarkedBelow(b) ELSE failed
           /\ Refused(b, Parent[b] \in index /\ b \notin index)
           /\ UNCHANGED <<index, data, active>>
        \/ /\ \/ body = "malleated" /\ failed' = failed
              \/ body = "genuine" /\ b \in Bad /\ failed' = failed \cup {b}
           /\ Refused(b, TRUE)
        \/ \E D : ActivateBestChain(b, D)
    BY Zenon DEF ProcessNewBlock
  <2> QED BY <1>1, <1>2, <1>3, <1>4, <2>1

(* Noting a source keeps the sources right, if an honest sender to be      *)
(* punished has the block.                                                 *)
LEMMA EmplacedRight ==
    ASSUME NEW b \in Block, NEW p \in Peer, NEW punish \in BOOLEAN,
           punish /\ p \in Honest => b \in Has[p], SourceRight(source)
    PROVE  SourceRight(Emplaced(b, p, punish))
BY DEF Emplaced, SourceRight

(* A refused header is the peer's fault only if it is new. *)
LEMMA HeaderRight ==
    ASSUME NEW p \in Peer, NEW b \in Block, HonestInv, HeaderRefused(b),
           p \in Honest => Chain[Parent[b]] \cap Bad = {},
           failed' = failed \cup MarkedBelow(b),
           ban' = IF b \in index THEN ban ELSE ban \cup {p},
           source' = source
    PROVE  HonestInv' /\ Spared
<1>1. FailedRight(failed')
  BY MarkedRight DEF HonestInv
<1>2. Spared
  BY RefusedBelow DEF HonestInv, Spared
<1> QED BY <1>1, <1>2 DEF HonestInv

(* A block is taken over from a peer which, if it would be punished, has   *)
(* it.                                                                     *)
LEMMA TakenHonest ==
    ASSUME NEW p \in Peer, NEW b \in Block, NEW force, NEW punish \in BOOLEAN, NEW body, NEW late,
           HonestInv, TakenOver(p, b, force, punish, body, late),
           punish /\ p \in Honest => b \in Has[p], failed' = failed, ban' = ban
    PROVE  HonestInv' /\ Spared
BY EmplacedRight DEF HonestInv, TakenOver, Spared

LEMMA HeadersHonest ==
    ASSUME NEW p \in Peer, NEW last \in Announces[p], NEW first \in Chain[last],
           HonestInv, InvalidHeaders(p, first, last)
    PROVE  HonestInv' /\ Spared
<1> DEFINE headers == ToSet(Branch(last, Height[first]))
           bad == {h \in headers : HeaderRefused(h)}
           top == CHOOSE x \in bad : \A y \in bad : Height[x] <= Height[y]
<1>1. /\ bad # {} /\ failed' = failed \cup MarkedBelow(top)
      /\ ban' = IF top \in index THEN ban ELSE ban \cup {p}
      /\ source' = source
  BY DEF InvalidHeaders
<1>2. last \in Block /\ last \in Has[p]
  BY BlockDownloadAssumption
<1>3. headers \subseteq Chain[last]
  <2>1. Height[first] \in 0..(Height[last] + 1)
    BY <1>2, HeightOfAncestor
  <2> QED BY <1>2, <2>1, BranchRight DEF ToSet
<1>4. \E x \in bad : \A y \in bad : Height[x] <= Height[y]
  <2> DEFINE T == {Height[x] : x \in bad}
  <2>1. T \in SUBSET Nat /\ T # {}
    BY <1>1, <1>2, <1>3, HeightOfAncestor
  <2>2. PICK h \in T : \A y \in T : h <= y
    <3> HIDE DEF T
    <3> QED BY <2>1, LeastNatural
  <2> QED BY <2>2
<1>5. top \in bad
  <2> HIDE DEF bad
  <2> QED BY <1>4
<1>6. top \in Block /\ HeaderRefused(top) /\ Chain[top] \subseteq Chain[last]
  BY <1>2, <1>3, <1>5, ChainOfAncestor
<1>7. p \in Honest => Chain[Parent[top]] \cap Bad = {}
  BY <1>2, <1>6, HonestBlocks, ParentChain
<1> HIDE DEF top
<1> QED BY <1>1, <1>6, <1>7, HeaderRight

LEMMA CompactHonest ==
    ASSUME NEW p \in Peer, NEW b \in Block, HonestInv, Compact(p, b)
    PROVE  HonestInv' /\ Spared
<1>0. ASSUME failed' = failed, source' = source, ban' = ban \/ (p \notin Honest /\ ban' = ban \cup {p})
      PROVE  HonestInv' /\ Spared
  BY <1>0 DEF HonestInv, Spared
<1>1. CASE CmpctRefused(p, b)
  <2>1. p \in Honest => Chain[Parent[b]] \cap Bad = {}
    BY <1>1, HonestBlocks, BlockDownloadAssumption DEF Compact, CompactBlock
  <2> QED BY <1>1, <2>1, HeaderRight DEF CmpctRefused
<1>2. CASE CmpctAskBlock(p, b)
  BY <1>0, <1>2 DEF CmpctAskBlock
<1>3. CASE CmpctAsHeader(p, b)
  BY <1>0, <1>3 DEF CmpctAsHeader, HeadersAccepted
<1>4. ASSUME NEW f \in BOOLEAN, CmpctIgnored(p, b, f) PROVE HonestInv' /\ Spared
  BY <1>0, <1>4 DEF CmpctIgnored
<1>5. ASSUME NEW f \in BOOLEAN, CmpctStart(p, b, f) PROVE HonestInv' /\ Spared
  BY <1>0, <1>5 DEF CmpctStart
<1>6. ASSUME NEW f \in BOOLEAN, CmpctFilled(p, b, f) PROVE HonestInv' /\ Spared
  BY <1>6, TakenHonest DEF CmpctFilled
<1>7. ASSUME NEW f \in BOOLEAN, CmpctReconstructed(p, b, f) PROVE HonestInv' /\ Spared
  BY <1>7, TakenHonest DEF CmpctReconstructed
<1> QED BY <1>1, <1>2, <1>3, <1>4, <1>5, <1>6, <1>7 DEF Compact

LEMMA MessageHonest ==
    ASSUME NEW p \in Peer, HonestInv, Message(p)
    PROVE  HonestInv' /\ Spared
<1>0. ASSUME failed' = failed, source' = source, ban' = ban \/ (p \notin Honest /\ ban' = ban \cup {p})
      PROVE  HonestInv' /\ Spared
  BY <1>0 DEF HonestInv, Spared
<1>1. ASSUME NEW b \in Announces[p], Announce(p, b) PROVE HonestInv' /\ Spared
  BY <1>0, <1>1 DEF Announce, chainVars
<1>2. ASSUME NEW b \in Announces[p], NEW first \in Chain[b], InvalidHeaders(p, first, b)
      PROVE  HonestInv' /\ Spared
  BY <1>2, HeadersHonest
<1>3. ASSUME NEW b \in Announces[p], NEW first \in Chain[b], Headers(p, first, b)
      PROVE  HonestInv' /\ Spared
  BY <1>0, <1>3 DEF Headers, HeadersAccepted
<1>4. ASSUME NEW b \in Block, NEW body \in Bodies, ReceiveBlock(p, b, body)
      PROVE  HonestInv' /\ Spared
  <2>1. /\ TakenOver(p, b, download.inFlight[b] # NoPeer, TRUE, body, FALSE)
        /\ failed' = failed /\ ban' = ban
    BY <1>4 DEF ReceiveBlock
  <2>2. p \in Honest => b \in Has[p]
    BY <1>4, BlockDownloadAssumption DEF ReceiveBlock
  <2> QED BY <2>1, <2>2, TakenHonest
<1>5. ASSUME NEW b \in Block, Compact(p, b) PROVE HonestInv' /\ Spared
  BY <1>5, CompactHonest
<1>6. ASSUME NEW b \in Block, BlockTxn(p, b) PROVE HonestInv' /\ Spared
  <2>1. CASE UNCHANGED chainVars /\ (ban' = ban \/ (p \notin Honest /\ ban' = ban \cup {p}))
    BY <1>0, <2>1 DEF chainVars
  <2>2. CASE /\ \E body \in Filled(p, b) : TakenOver(p, b, TRUE, FALSE, body, FALSE)
             /\ UNCHANGED <<index, data, failed, active, ban>>
    BY <2>2, TakenHonest
  <2> QED BY <1>6, <2>1, <2>2 DEF BlockTxn
<1> QED BY <1>1, <1>2, <1>3, <1>4, <1>5, <1>6 DEF Message

LEMMA HonestStep ==
    ASSUME HonestInv, HandlingRight, [Next]_vars
    PROVE  HonestInv' /\ \A p \in (ban' \ ban) \cap Honest : BannedForGarbled(p)
<1>0. ASSUME HonestInv' /\ Spared
      PROVE  HonestInv' /\ \A p \in (ban' \ ban) \cap Honest : BannedForGarbled(p)
  BY <1>0 DEF Spared
<1>1. ASSUME NEW p \in Peer, Message(p) PROVE HonestInv' /\ Spared
  BY <1>1, MessageHonest
<1>2. ASSUME UNCHANGED chainVars, ban' \subseteq ban PROVE HonestInv' /\ Spared
  BY <1>2 DEF chainVars, HonestInv, Spared
<1>3. ASSUME NEW p \in Peer,
             \/ SendMessages(p) \/ Banned(p) \/ StallingTimeout(p)
             \/ Connect(p) \/ Disconnect(p) \/ FinalizeNode(p)
             \/ \E b \in Block : DownloadTimeout(p, b)
      PROVE  HonestInv' /\ Spared
  <2>1. UNCHANGED chainVars /\ ban' \subseteq ban
    <3>1. CASE SendMessages(p)
      <4>1. UNCHANGED <<status, chainVars, ibd, ban>>
        BY <3>1, Zenon DEF SendMessages
      <4> QED BY <4>1
    <3>2. CASE FinalizeNode(p)
      BY <3>2 DEF FinalizeNode
    <3>3. CASE Banned(p) \/ StallingTimeout(p) \/ Connect(p) \/ Disconnect(p)
      BY <3>3 DEF Banned, StallingTimeout, Connect, Disconnect
    <3>4. CASE \E b \in Block : DownloadTimeout(p, b)
      BY <3>4 DEF DownloadTimeout
    <3> QED BY <1>3, <3>1, <3>2, <3>3, <3>4
  <2> QED BY <1>2, <2>1
<1>4. ASSUME NEW b \in Block, SubmitBlock(b) PROVE HonestInv' /\ Spared
  <2>1. ProcessNewBlock(b, TRUE, "genuine")
    BY <1>4 DEF SubmitBlock
  <2> QED BY <2>1, ProcessedRight DEF Spared
<1>5. CASE HandleBlock(handling)
  <2>1. handling # Idle /\ ProcessNewBlock(handling.block, handling.force, handling.body)
    BY <1>5 DEF HandleBlock
  <2>2. /\ handling.peer \in Peer /\ handling.block \in Block
        /\ handling.body # "genuine" => handling.block \in Garbles[handling.peer]
    BY <2>1 DEF HandlingRight
  <2>3. /\ HonestInv'
        /\ \A p \in (ban' \ ban) \cap Honest :
               handling.body # "genuine" /\ source[handling.block] = <<p, TRUE>> /\ handling.block \in Has[p]
    BY <2>1, <2>2, ProcessedRight
  <2>4. ASSUME NEW p \in (ban' \ ban) \cap Honest PROVE BannedForGarbled(p)
    <3>1. handling.body # "genuine" /\ source[handling.block] = <<p, TRUE>> /\ handling.block \in Has[p]
      BY <2>3
    <3>2. handling.peer # p
      BY <2>2, <3>1, BlockDownloadAssumption
    <3> QED BY <2>1, <3>1, <3>2 DEF BannedForGarbled
  <2> QED BY <2>3, <2>4
<1>6. CASE LeaveIBD \/ UNCHANGED vars
  BY <1>2, <1>6 DEF LeaveIBD, vars
<1> QED BY <1>0, <1>1, <1>3, <1>4, <1>5, <1>6 DEF Next, Serve

(* A peer all of whose blocks are on valid chains, which sends only their  *)
(* genuine bodies and relays compact blocks only on top of valid chains,   *)
(* is banned at once for one thing only, whatever the others send and in   *)
(* whatever order the blocks arrive: for what another peer sent under the  *)
(* hash of a block while mapBlockSource still named it as the source of    *)
(* that block.  That can happen: the honest peer is not safe from it.      *)
THEOREM HonestPeersSafe == Spec => HonestBannedForGarbled
<1>1. Init => HonestInv
  <2> SUFFICES ASSUME Init PROVE HonestInv
    OBVIOUS
  <2>1. failed = {} /\ source = [b \in Block |-> <<>>]
    BY DEF Init
  <2>2. \A p \in Peer : <<>> # <<p, TRUE>>
    OBVIOUS
  <2> QED BY <2>1, <2>2, BlockDownloadAssumption DEF HonestInv, FailedRight, SourceRight
<1>2. HonestInv /\ HandlingRight /\ [Next]_vars => HonestInv'
  BY HonestStep
<1>3. HonestInv /\ HandlingRight /\ [Next]_vars =>
          [\A p \in (ban' \ ban) \cap Honest : BannedForGarbled(p)]_vars
  BY HonestStep
<1> QED BY <1>1, <1>2, <1>3, HandlingCorrect, PTL DEF Spec, HonestBannedForGarbled

-----------------------------------------------------------------------------
(* The lists of blocks in flight. *)

(* Erasing a block from a list without repetitions. *)
LEMMA ErasedRight ==
    ASSUME NEW q \in Seq(Block), IsInjective(q), NEW b \in ToSet(q)
    PROVE  /\ Erased(q, b) \in Seq(Block) /\ IsInjective(Erased(q, b))
           /\ Len(Erased(q, b)) = Len(q) - 1 /\ Len(q) > 0
           /\ ToSet(Erased(q, b)) = ToSet(q) \ {b}
<1> DEFINE n == Len(q)
<1>1. DOMAIN q = 1..n /\ n \in Nat
  BY LenProperties
<1>2. PICK i \in 1..n : q[i] = b /\ Erased(q, b) = RemoveAt(q, i)
  BY <1>1 DEF ToSet, Erased
<1> DEFINE left == SubSeq(q, 1, i - 1)
           right == SubSeq(q, i + 1, n)
           e == left \o right
<1>3. Erased(q, b) = e
  BY <1>2 DEF RemoveAt
<1>4. left \in Seq(Block) /\ Len(left) = i - 1 /\ \A k \in 1..(i - 1) : left[k] = q[k]
  BY <1>1, <1>2, SubSeqProperties, ElementOfSeq
<1>5. right \in Seq(Block) /\ Len(right) = n - i /\ \A k \in 1..(n - i) : right[k] = q[i + k]
  <2>1. i + 1 \in Int /\ n \in Int /\ \A k \in (i + 1)..n : q[k] \in Block
    BY <1>1, <1>2, ElementOfSeq
  <2>2. /\ right \in Seq(Block) /\ Len(right) = IF i + 1 <= n THEN n - (i + 1) + 1 ELSE 0
        /\ \A k \in 1..(n - (i + 1) + 1) : right[k] = q[(i + 1) + k - 1]
    BY <2>1, SubSeqProperties
  <2>3. ASSUME NEW k \in 1..(n - i) PROVE right[k] = q[i + k]
    <3>1. k \in 1..(n - (i + 1) + 1) /\ (i + 1) + k - 1 = i + k
      BY <1>1, <1>2
    <3> QED BY <2>2, <3>1
  <2>4. (IF i + 1 <= n THEN n - (i + 1) + 1 ELSE 0) = n - i
    <3> HIDE DEF n
    <3> QED BY <1>1
  <2> HIDE DEF right
  <2> QED BY <2>2, <2>3, <2>4
<1> HIDE DEF left, right
<1>6. /\ e \in Seq(Block) /\ Len(e) = n - 1
      /\ \A k \in 1..(n - 1) : e[k] = IF k < i THEN q[k] ELSE q[k + 1]
  <2>1. /\ e \in Seq(Block) /\ Len(e) = Len(left) + Len(right)
        /\ \A k \in 1..(Len(left) + Len(right)) :
               e[k] = IF k <= Len(left) THEN left[k] ELSE right[k - Len(left)]
    BY <1>4, <1>5, ConcatProperties
  <2>2. ASSUME NEW k \in 1..(n - 1) PROVE e[k] = IF k < i THEN q[k] ELSE q[k + 1]
    <3>1. e[k] = IF k <= i - 1 THEN left[k] ELSE right[k - (i - 1)]
      <4>1. k \in 1..((i - 1) + (n - i))
        <5> HIDE DEF n
        <5> QED BY <1>1
      <4> QED BY <1>4, <1>5, <2>1, <4>1
    <3>2. CASE k < i
      BY <1>2, <1>4, <3>1, <3>2
    <3>3. CASE ~(k < i)
      <4>1. k - (i - 1) \in 1..(n - i) /\ i + (k - (i - 1)) = k + 1
        BY <1>1, <1>2, <3>3
      <4> HIDE DEF e
      <4> QED BY <1>2, <1>5, <3>1, <3>3, <4>1
    <3> QED BY <3>2, <3>3
  <2>3. Len(e) = n - 1
    <3>1. Len(e) = (i - 1) + (n - i)
      BY <1>4, <1>5, <2>1
    <3> HIDE DEF e, n
    <3> QED BY <1>1, <3>1
  <2> QED BY <2>1, <2>2, <2>3
<1> HIDE DEF e
<1>7. DOMAIN e = 1..(n - 1)
  BY <1>6, LenProperties
<1>8. IsInjective(e)
  <2>1. ASSUME NEW k \in 1..(n - 1), NEW l \in 1..(n - 1), e[k] = e[l] PROVE k = l
    <3>1. (IF k < i THEN q[k] ELSE q[k + 1]) = (IF l < i THEN q[l] ELSE q[l + 1])
      BY <1>6, <2>1
    <3>2. k \in 1..n /\ k + 1 \in 1..n /\ l \in 1..n /\ l + 1 \in 1..n /\ i \in 1..n
      BY <1>1, <1>2
    <3>3. \A x, y \in 1..n : q[x] = q[y] => x = y
      BY <1>1 DEF IsInjective
    <3> QED BY <3>1, <3>2, <3>3
  <2> QED BY <1>7, <2>1 DEF IsInjective
<1>9. ToSet(e) = ToSet(q) \ {b}
  <2>1. ASSUME NEW x \in ToSet(e) PROVE x \in ToSet(q) \ {b}
    <3>1. PICK k \in 1..(n - 1) : x = e[k]
      BY <1>7 DEF ToSet
    <3>2. PICK l \in 1..n : l # i /\ x = q[l]
      BY <1>1, <1>2, <1>6, <3>1
    <3> QED BY <1>1, <1>2, <3>2 DEF ToSet, IsInjective
  <2>2. ASSUME NEW x \in ToSet(q) \ {b} PROVE x \in ToSet(e)
    <3>1. PICK k \in 1..n : x = q[k] /\ k # i
      BY <1>1, <1>2 DEF ToSet
    <3>2. CASE k < i
      <4>1. k \in 1..(n - 1) /\ e[k] = x
        BY <1>1, <1>2, <1>6, <3>1, <3>2
      <4> QED BY <1>7, <4>1 DEF ToSet
    <3>3. CASE k > i
      <4>1. k - 1 \in 1..(n - 1) /\ e[k - 1] = x
        BY <1>1, <1>2, <1>6, <3>1, <3>3
      <4> QED BY <1>7, <4>1 DEF ToSet
    <3> QED BY <1>2, <3>1, <3>2, <3>3
  <2> QED BY <2>1, <2>2
<1> QED BY <1>1, <1>2, <1>3, <1>6, <1>8, <1>9

(* Appending a block that is not there. *)
LEMMA AppendedRight ==
    ASSUME NEW q \in Seq(Block), IsInjective(q), NEW b \in Block, b \notin ToSet(q)
    PROVE  /\ Append(q, b) \in Seq(Block) /\ IsInjective(Append(q, b))
           /\ Len(Append(q, b)) = Len(q) + 1
           /\ ToSet(Append(q, b)) = ToSet(q) \cup {b}
<1> DEFINE e == Append(q, b)
           n == Len(q)
<1>1. /\ DOMAIN q = 1..n /\ n \in Nat /\ e \in Seq(Block) /\ Len(e) = n + 1
      /\ e[n + 1] = b /\ \A k \in 1..n : e[k] = q[k]
  BY LenProperties, AppendProperties
<1>2. DOMAIN e = 1..(n + 1)
  BY <1>1, LenProperties
<1> HIDE DEF e
<1>3. IsInjective(e)
  BY <1>1, <1>2 DEF IsInjective, ToSet
<1>4. ToSet(e) = ToSet(q) \cup {b}
  BY <1>1, <1>2 DEF ToSet
<1> QED BY <1>1, <1>3, <1>4 DEF e

-----------------------------------------------------------------------------
(* The records of blocks in flight. *)

Downloads ==
    [inFlight : [Block -> Peer \cup {NoPeer}], partial : SUBSET Block, peers : Nat,
     queue : [Peer -> Seq(Block)], count : [Peer -> Nat], valid : [Peer -> Nat],
     stalling : [Peer -> BOOLEAN]]

Downloading(d) == {p \in Peer : d.valid[p] > 0}

(* The lists and the counters of d agree. *)
Right(d) ==
    /\ d \in Downloads
    /\ \A b \in Block, p \in Peer : d.inFlight[b] = p <=> b \in ToSet(d.queue[p])
    /\ \A p \in Peer :
           /\ IsInjective(d.queue[p])
           /\ d.count[p] = Len(d.queue[p]) /\ d.valid[p] = d.count[p]
           /\ d.stalling[p] => d.count[p] > 0
    /\ IsFiniteSet(Downloading(d)) /\ d.peers = Cardinality(Downloading(d))
    /\ \A b \in d.partial : d.inFlight[b] # NoPeer

(* From d to e only p may have more blocks in flight, and at most n more. *)
Grown(d, e, p, n) ==
    \A q \in Peer : e.count[q] <= d.count[q] + (IF q = p THEN n ELSE 0)

LEMMA ReceivedRight ==
    ASSUME NEW d, Right(d), NEW b \in Block
    PROVE  LET e == MarkBlockAsReceived(d, b)
           IN  /\ Right(e) /\ e.inFlight = [d.inFlight EXCEPT ![b] = NoPeer]
               /\ \A q \in Peer : e.count[q] <= d.count[q]
<1> DEFINE p == d.inFlight[b]
           e == MarkBlockAsReceived(d, b)
<1>0. d \in Downloads
  BY DEF Right
<1>1. CASE p = NoPeer
  <2>1. e = d
    BY <1>1 DEF MarkBlockAsReceived
  <2>2. d.inFlight = [d.inFlight EXCEPT ![b] = NoPeer]
    BY <1>0, <1>1 DEF Downloads
  <2> QED BY <1>0, <2>1, <2>2 DEF Downloads
<1>2. CASE p # NoPeer
  <2>1. p \in Peer /\ b \in ToSet(d.queue[p])
    BY <1>0, <1>2 DEF Right, Downloads
  <2>2. /\ Erased(d.queue[p], b) \in Seq(Block) /\ IsInjective(Erased(d.queue[p], b))
        /\ Len(Erased(d.queue[p], b)) = d.count[p] - 1 /\ d.count[p] > 0
        /\ ToSet(Erased(d.queue[p], b)) = ToSet(d.queue[p]) \ {b}
    <3>1. d.queue[p] \in Seq(Block) /\ IsInjective(d.queue[p]) /\ d.count[p] = Len(d.queue[p])
      BY <2>1 DEF Right, Downloads
    <3> QED BY <2>1, <3>1, ErasedRight
  <2>3. e = [inFlight |-> [d.inFlight EXCEPT ![b] = NoPeer], partial |-> d.partial \ {b},
             peers |-> IF d.valid[p] = 1 THEN d.peers - 1 ELSE d.peers,
             queue |-> [d.queue EXCEPT ![p] = Erased(d.queue[p], b)],
             count |-> [d.count EXCEPT ![p] = d.count[p] - 1],
             valid |-> [d.valid EXCEPT ![p] = d.valid[p] - 1],
             stalling |-> [d.stalling EXCEPT ![p] = FALSE]]
    BY <1>0, <1>2, <2>1 DEF MarkBlockAsReceived, Downloads
  <2> HIDE DEF e, p
  <2>4. d.valid[p] = d.count[p] /\ d.count[p] \in Nat \ {0} /\ d.peers \in Nat
    BY <2>1, <2>2 DEF Right, Downloads
  <2>5. Downloading(e) = IF d.valid[p] = 1 THEN Downloading(d) \ {p} ELSE Downloading(d)
    BY <1>0, <2>1, <2>3, <2>4 DEF Downloading, Downloads
  <2>6. p \in Downloading(d)
    BY <2>1, <2>4 DEF Downloading
  <2>7. IsFiniteSet(Downloading(e)) /\ e.peers = Cardinality(Downloading(e))
    BY <2>3, <2>5, <2>6, FS_RemoveElement DEF Right
  <2>8. e.peers \in Nat
    BY <2>7, FS_CardinalityType
  <2>9. e \in Downloads
    BY <1>0, <2>1, <2>2, <2>3, <2>4, <2>8 DEF Downloads
  <2>10. \A c \in Block, q \in Peer : e.inFlight[c] = q <=> c \in ToSet(e.queue[q])
    <3> SUFFICES ASSUME NEW c \in Block, NEW q \in Peer
                 PROVE  e.inFlight[c] = q <=> c \in ToSet(e.queue[q])
      OBVIOUS
    <3>1. d.inFlight[c] = q <=> c \in ToSet(d.queue[q])
      BY DEF Right
    <3>2. e.inFlight[c] = IF c = b THEN NoPeer ELSE d.inFlight[c]
      BY <1>0, <2>3 DEF Downloads
    <3>3. ToSet(e.queue[q]) = IF q = p THEN ToSet(d.queue[q]) \ {b} ELSE ToSet(d.queue[q])
      BY <1>0, <2>2, <2>3 DEF Downloads
    <3> QED BY <3>1, <3>2, <3>3, BlockDownloadAssumption DEF p
  <2>11. ASSUME NEW q \in Peer
         PROVE  /\ IsInjective(e.queue[q])
                /\ e.count[q] = Len(e.queue[q]) /\ e.valid[q] = e.count[q]
                /\ e.stalling[q] => e.count[q] > 0
                /\ e.count[q] <= d.count[q]
    <3>1. CASE q = p
      BY <1>0, <2>1, <2>2, <2>3, <2>4, <3>1 DEF Downloads
    <3>2. CASE q # p
      <4>1. e.queue[q] = d.queue[q] /\ e.count[q] = d.count[q] /\ e.valid[q] = d.valid[q] /\ e.stalling[q] = d.stalling[q]
        BY <1>0, <2>1, <2>3, <3>2 DEF Downloads
      <4> QED BY <1>0, <4>1 DEF Right, Downloads
    <3> QED BY <3>1, <3>2
  <2>12. \A c \in e.partial : e.inFlight[c] # NoPeer
    BY <1>0, <2>3 DEF Right, Downloads
  <2>13. e.inFlight = [d.inFlight EXCEPT ![b] = NoPeer]
    BY <2>3
  <2>14. Right(e)
    BY <2>7, <2>9, <2>10, <2>11, <2>12 DEF Right
  <2> QED BY <2>11, <2>13, <2>14 DEF e
<1> QED BY <1>1, <1>2

LEMMA InFlightMarked ==
    ASSUME NEW d, Right(d), NEW p \in Peer, NEW b \in Block, NEW pit \in BOOLEAN
    PROVE  LET f == MarkBlockAsInFlight(d, p, b, pit)
           IN  /\ Right(f) /\ f.inFlight[b] = p /\ Grown(d, f, p, 1)
               /\ d.inFlight[b] = p => f = d
<1> DEFINE e == MarkBlockAsReceived(d, b)
           f == MarkBlockAsInFlight(d, p, b, pit)
<1>0. d \in Downloads
  BY DEF Right
<1>1. CASE d.inFlight[b] = p
  <2>1. f = d
    BY <1>1 DEF MarkBlockAsInFlight
  <2>2. Grown(d, d, p, 1)
    BY <1>0 DEF Grown, Downloads
  <2> QED BY <1>1, <2>1, <2>2
<1>2. CASE d.inFlight[b] # p
  <2>1. /\ Right(e) /\ e \in Downloads /\ e.inFlight = [d.inFlight EXCEPT ![b] = NoPeer]
        /\ \A q \in Peer : e.count[q] <= d.count[q]
    BY ReceivedRight DEF Right
  <2>2. f = [inFlight |-> [e.inFlight EXCEPT ![b] = p],
             partial |-> IF pit THEN e.partial \cup {b} ELSE e.partial,
             peers |-> IF e.valid[p] = 0 THEN e.peers + 1 ELSE e.peers,
             queue |-> [e.queue EXCEPT ![p] = Append(e.queue[p], b)],
             count |-> [e.count EXCEPT ![p] = e.count[p] + 1],
             valid |-> [e.valid EXCEPT ![p] = e.valid[p] + 1],
             stalling |-> e.stalling]
    <3> DEFINE x == e
    <3>1. x \in Downloads
      BY <2>1
    <3>2. f = [x EXCEPT
                  !.queue[p] = Append(@, b),
                  !.count[p] = @ + 1,
                  !.valid[p] = @ + 1,
                  !.peers = IF x.valid[p] = 0 THEN @ + 1 ELSE @,
                  !.inFlight[b] = p,
                  !.partial = IF pit THEN @ \cup {b} ELSE @]
      BY <1>2 DEF MarkBlockAsInFlight
    <3> HIDE DEF x, f
    <3>3. f = [inFlight |-> [x.inFlight EXCEPT ![b] = p],
             partial |-> IF pit THEN x.partial \cup {b} ELSE x.partial,
             peers |-> IF x.valid[p] = 0 THEN x.peers + 1 ELSE x.peers,
             queue |-> [x.queue EXCEPT ![p] = Append(x.queue[p], b)],
             count |-> [x.count EXCEPT ![p] = x.count[p] + 1],
             valid |-> [x.valid EXCEPT ![p] = x.valid[p] + 1],
             stalling |-> x.stalling]
      BY <3>1, <3>2 DEF Downloads
    <3> QED BY <3>3 DEF x
  <2>3. e.inFlight[b] = NoPeer /\ d.inFlight \in [Block -> Peer \cup {NoPeer}]
    BY <1>0, <2>1 DEF Downloads
  <2> HIDE DEF e, f
  <2>4. /\ b \notin ToSet(e.queue[p]) /\ e.queue[p] \in Seq(Block) /\ IsInjective(e.queue[p])
        /\ e.valid[p] = e.count[p] /\ e.count[p] = Len(e.queue[p]) /\ e.count[p] \in Nat
        /\ e.peers \in Nat
    BY <2>1, <2>3, BlockDownloadAssumption DEF Right, Downloads
  <2>5. /\ Append(e.queue[p], b) \in Seq(Block) /\ IsInjective(Append(e.queue[p], b))
        /\ Len(Append(e.queue[p], b)) = e.count[p] + 1
        /\ ToSet(Append(e.queue[p], b)) = ToSet(e.queue[p]) \cup {b}
    BY <2>4, AppendedRight
  <2>6. Downloading(f) = Downloading(e) \cup {p}
    BY <2>1, <2>2, <2>4 DEF Downloading, Downloads
  <2>7. p \in Downloading(e) <=> e.valid[p] # 0
    BY <2>4 DEF Downloading
  <2>8. IsFiniteSet(Downloading(f)) /\ f.peers = Cardinality(Downloading(f))
    <3>1. IsFiniteSet(Downloading(e)) /\ e.peers = Cardinality(Downloading(e))
      BY <2>1 DEF Right
    <3>2. /\ IsFiniteSet(Downloading(f))
          /\ Cardinality(Downloading(f)) =
                 IF p \in Downloading(e) THEN Cardinality(Downloading(e)) ELSE Cardinality(Downloading(e)) + 1
      BY <2>6, <3>1, FS_AddElement
    <3>3. f.peers = IF e.valid[p] = 0 THEN e.peers + 1 ELSE e.peers
      BY <2>2
    <3> QED BY <2>7, <3>1, <3>2, <3>3
  <2>9. f \in Downloads
    BY <2>1, <2>2, <2>4, <2>5 DEF Downloads
  <2>10. \A c \in Block, q \in Peer : f.inFlight[c] = q <=> c \in ToSet(f.queue[q])
    <3> SUFFICES ASSUME NEW c \in Block, NEW q \in Peer
                 PROVE  f.inFlight[c] = q <=> c \in ToSet(f.queue[q])
      OBVIOUS
    <3>1. e.inFlight[c] = q <=> c \in ToSet(e.queue[q])
      BY <2>1 DEF Right
    <3>2. f.inFlight[c] = IF c = b THEN p ELSE e.inFlight[c]
      BY <2>1, <2>2 DEF Downloads
    <3>3. ToSet(f.queue[q]) = IF q = p THEN ToSet(e.queue[q]) \cup {b} ELSE ToSet(e.queue[q])
      BY <2>1, <2>2, <2>5 DEF Downloads
    <3> QED BY <2>3, <3>1, <3>2, <3>3, BlockDownloadAssumption
  <2>11. ASSUME NEW q \in Peer
         PROVE  /\ IsInjective(f.queue[q])
                /\ f.count[q] = Len(f.queue[q]) /\ f.valid[q] = f.count[q]
                /\ f.stalling[q] => f.count[q] > 0
                /\ f.count[q] <= d.count[q] + (IF q = p THEN 1 ELSE 0)
    <3>0. e.count[q] \in Nat /\ d.count[q] \in Nat /\ e.count[q] <= d.count[q]
      BY <1>0, <2>1 DEF Downloads
    <3>1. CASE q = p
      BY <2>1, <2>2, <2>4, <2>5, <3>0, <3>1 DEF Downloads
    <3>2. CASE q # p
      <4>1. f.queue[q] = e.queue[q] /\ f.count[q] = e.count[q] /\ f.valid[q] = e.valid[q] /\ f.stalling[q] = e.stalling[q]
        BY <2>1, <2>2, <3>2 DEF Downloads
      <4> QED BY <2>1, <3>0, <3>2, <4>1 DEF Right
    <3> QED BY <3>1, <3>2
  <2>12. \A c \in f.partial : f.inFlight[c] # NoPeer
    <3>1. \A c \in f.partial : c \in Block /\ (c = b \/ c \in e.partial)
      BY <2>1, <2>2 DEF Downloads
    <3>2. \A c \in Block : f.inFlight[c] = IF c = b THEN p ELSE e.inFlight[c]
      BY <2>1, <2>2 DEF Downloads
    <3> QED BY <2>1, <3>1, <3>2, BlockDownloadAssumption DEF Right
  <2>13. Right(f)
    BY <2>8, <2>9, <2>10, <2>11, <2>12 DEF Right
  <2>14. f.inFlight[b] = p
    BY <2>1, <2>2 DEF Downloads
  <2>15. Grown(d, f, p, 1)
    BY <2>11 DEF Grown
  <2> QED BY <1>2, <2>13, <2>14, <2>15 DEF f
<1> QED BY <1>1, <1>2

(* Asking p for the blocks of s. *)
LEMMA AllMarked ==
    ASSUME NEW d, Right(d), NEW p \in Peer, NEW s \in Seq(Block)
    PROVE  LET f == AllInFlight(d, p, s)
           IN  Right(f) /\ Grown(d, f, p, Len(s)) /\ (s = <<>> => f = d)
<1> DEFINE N == Len(s)
           V == {x \in Downloads : Right(x)}
           Run(f) == f = [n \in 0..N |-> IF n = 0 THEN d ELSE MarkBlockAsInFlight(f[n - 1], p, s[n], FALSE)]
           step == [n \in 1..N |-> [x \in V |-> MarkBlockAsInFlight(x, p, s[n], FALSE)]]
           w == MarkedInFlight(d, p, s)
<1>1. w = CHOOSE f : Run(f)
  BY DEF MarkedInFlight
<1>2. N \in Nat /\ \A n \in 1..N : s[n] \in Block
  BY ElementOfSeq, LenProperties
<1>3. d \in V
  BY DEF Right
<1>4. ASSUME NEW n \in 1..N, NEW x \in V
      PROVE  MarkBlockAsInFlight(x, p, s[n], FALSE) \in V /\ Grown(x, MarkBlockAsInFlight(x, p, s[n], FALSE), p, 1)
  <2>1. s[n] \in Block /\ Right(x)
    BY <1>2
  <2>2. PICK b \in Block : b = s[n]
    BY <2>1
  <2>3. Right(MarkBlockAsInFlight(x, p, b, FALSE)) /\ Grown(x, MarkBlockAsInFlight(x, p, b, FALSE), p, 1)
    BY <2>1, InFlightMarked
  <2> QED BY <2>2, <2>3 DEF Right
<1>5. Body(step, N, V)
  <2> HIDE DEF V, N
  <2> QED BY <1>4 DEF Body
<1>6. PICK f : RunUp(f, step, N, V, d)
  <2> HIDE DEF N, step, V
  <2> QED BY <1>2, <1>3, <1>5, LoopRuns
<1>7. f \in [0..N -> V] /\ f[0] = d /\ \A n \in 1..N : f[n] = step[n][f[n - 1]]
  <2> HIDE DEF N, step, V
  <2> QED BY <1>6 DEF RunUp
<1> HIDE DEF V
<1>8. \A n \in 1..N : n - 1 \in 0..N /\ f[n] = MarkBlockAsInFlight(f[n - 1], p, s[n], FALSE)
  <2> SUFFICES ASSUME NEW n \in 1..N
               PROVE  n - 1 \in 0..N /\ f[n] = MarkBlockAsInFlight(f[n - 1], p, s[n], FALSE)
    OBVIOUS
  <2>1. n - 1 \in 0..N
    BY <1>2
  <2>2. f[n - 1] \in V /\ f[n] = step[n][f[n - 1]]
    BY <1>7, <2>1
  <2> QED BY <2>1, <2>2
<1>9. Run(f)
  <2>1. \A n \in 0..N : n # 0 => n \in 1..N
    BY <1>2
  <2>2. \A n \in 0..N : f[n] = IF n = 0 THEN d ELSE MarkBlockAsInFlight(f[n - 1], p, s[n], FALSE)
    BY <1>7, <1>8, <2>1
  <2>3. f = [n \in 0..N |-> f[n]]
    BY <1>7
  <2> HIDE DEF N
  <2> QED BY <2>2, <2>3
<1>10. Run(w)
  <2> HIDE DEF Run, w
  <2> QED BY <1>1, <1>9
<1> HIDE DEF w, step
<1>11. w[0] = d /\ \A n \in 1..N : w[n] = MarkBlockAsInFlight(w[n - 1], p, s[n], FALSE)
  <2>1. 0 \in 0..N /\ \A n \in 1..N : n \in 0..N /\ n # 0
    BY <1>2
  <2> HIDE DEF N
  <2> QED BY <1>10, <2>1
<1> HIDE DEF Run
<1> DEFINE T == {n \in 0..N : w[n] \in V /\ Grown(d, w[n], p, n)}
<1>12. 0 \in T
  <2>1. Grown(d, d, p, 0)
    BY DEF Grown, Right, Downloads
  <2> QED BY <1>2, <1>3, <1>11, <2>1
<1>13. ASSUME NEW n \in 1..N, n - 1 \in T PROVE n \in T
  <2>1. w[n - 1] \in V /\ Grown(d, w[n - 1], p, n - 1) /\ n \in 0..N
    BY <1>2, <1>13
  <2>2. w[n] \in V /\ Grown(w[n - 1], w[n], p, 1)
    BY <1>4, <1>11, <2>1
  <2>3. Grown(d, w[n], p, n)
    <3> SUFFICES ASSUME NEW q \in Peer
                 PROVE  w[n].count[q] <= d.count[q] + (IF q = p THEN n ELSE 0)
      BY DEF Grown
    <3>1. w[n].count[q] \in Nat /\ w[n - 1].count[q] \in Nat /\ d.count[q] \in Nat
      BY <1>3, <2>1, <2>2 DEF V, Downloads
    <3>2. /\ w[n].count[q] <= w[n - 1].count[q] + (IF q = p THEN 1 ELSE 0)
          /\ w[n - 1].count[q] <= d.count[q] + (IF q = p THEN n - 1 ELSE 0)
      BY <2>1, <2>2 DEF Grown
    <3>3. n \in Nat
      BY <1>2
    <3> QED BY <3>1, <3>2, <3>3
  <2> QED BY <2>1, <2>2, <2>3
<1>14. N \in T
  <2>1. 0..N \subseteq T
    <3> HIDE DEF N, T
    <3> QED BY <1>2, <1>12, <1>13, RoundsUp
  <2> QED BY <1>2, <2>1
<1>15. AllInFlight(d, p, s) = w[N] /\ (s = <<>> => N = 0)
  BY DEF AllInFlight, w
<1>16. Right(w[N]) /\ Grown(d, w[N], p, N)
  BY <1>14 DEF V
<1> QED BY <1>11, <1>15, <1>16

-----------------------------------------------------------------------------
(* The blocks to ask for. *)

LEMMA ReversedType ==
    ASSUME NEW s \in Seq(Block)
    PROVE  Reverse(s) \in Seq(Block) /\ Len(Reverse(s)) = Len(s)
<1> DEFINE N == Len(s)
<1>1. N \in Nat /\ \A n \in 1..N : s[n] \in Block
  BY ElementOfSeq, LenProperties
<1>2. Reverse(s) \in [1..N -> Block]
  <2>1. \A n \in 1..N : (N - n) + 1 \in 1..N
    <3> HIDE DEF N
    <3> QED BY <1>1
  <2> QED BY <1>1, <2>1 DEF Reverse
<1> HIDE DEF N
<1>3. Reverse(s) \in Seq(Block)
  BY <1>1, <1>2, SeqDef
<1>4. DOMAIN Reverse(s) = 1..N /\ DOMAIN Reverse(s) = 1..Len(Reverse(s)) /\ Len(Reverse(s)) \in Nat
  BY <1>2, <1>3, LenProperties
<1> QED BY <1>1, <1>3, <1>4 DEF N

LEMMA CollectedType ==
    ASSUME NEW walk \in Seq(Block)
    PROVE  \A n \in 0..Len(walk) : Collected(walk)[n] \in Seq(Block)
<1> DEFINE N == Len(walk)
           V == Seq(Block)
           One(x, n) == IF Missing(walk[n]) /\ Len(x) <= MaxInTransit THEN Append(x, walk[n]) ELSE x
           Run(f) == f = [n \in 0..N |-> IF n = 0 THEN <<>> ELSE One(f[n - 1], n)]
           step == [n \in 1..N |-> [x \in V |-> One(x, n)]]
           w == Collected(walk)
<1>1. w = CHOOSE f : Run(f)
  BY DEF Collected
<1>2. N \in Nat /\ \A n \in 1..N : walk[n] \in Block
  BY ElementOfSeq, LenProperties
<1>3. ASSUME NEW n \in 1..N, NEW x \in V PROVE One(x, n) \in V
  BY <1>2, AppendProperties
<1> HIDE DEF One
<1>4. Body(step, N, V)
  BY <1>3 DEF Body
<1>5. PICK f : RunUp(f, step, N, V, <<>>)
  <2>1. <<>> \in V
    OBVIOUS
  <2> HIDE DEF N, step, V
  <2> QED BY <1>2, <1>4, <2>1, LoopRuns
<1>6. f \in [0..N -> V] /\ f[0] = <<>> /\ \A n \in 1..N : f[n] = step[n][f[n - 1]]
  <2> HIDE DEF N, step, V
  <2> QED BY <1>5 DEF RunUp
<1> HIDE DEF V
<1>7. Run(f)
  <2>1. \A n \in 0..N : n # 0 => n \in 1..N /\ n - 1 \in 0..N
    BY <1>2
  <2>2. ASSUME NEW n \in 0..N PROVE f[n] = IF n = 0 THEN <<>> ELSE One(f[n - 1], n)
    BY <1>6, <2>1
  <2>3. f = [n \in 0..N |-> f[n]]
    BY <1>6
  <2> HIDE DEF N
  <2> QED BY <2>2, <2>3
<1>8. Run(w)
  <2> HIDE DEF Run, w
  <2> QED BY <1>1, <1>7
<1> HIDE DEF w
<1>9. w[0] = <<>> /\ \A n \in 1..N : w[n] = One(w[n - 1], n)
  <2>1. 0 \in 0..N /\ \A n \in 1..N : n \in 0..N /\ n # 0
    BY <1>2
  <2> HIDE DEF N
  <2> QED BY <1>8, <2>1
<1> HIDE DEF Run, step
<1> DEFINE T == {n \in 0..N : w[n] \in V}
<1>10. 0 \in T
  <2>1. 0 \in 0..N /\ <<>> \in V
    BY <1>2, EmptySeq DEF V
  <2> QED BY <1>9, <2>1
<1>11. ASSUME NEW n \in 1..N, n - 1 \in T PROVE n \in T
  BY <1>2, <1>3, <1>9, <1>11
<1>12. 0..N \subseteq T
  <2> HIDE DEF N, T
  <2> QED BY <1>2, <1>10, <1>11, RoundsUp
<1> QED BY <1>12 DEF w, V

LEMMA DirectFetchType ==
    ASSUME NEW p \in Peer, NEW last \in Block, download.count[p] \in 0..MaxInTransit
    PROVE  /\ DirectFetch(p, last) \in Seq(Block)
           /\ Len(DirectFetch(p, last)) <= MaxInTransit - download.count[p]
<1> DEFINE up == Reverse(vToFetch(last))
           room == MaxInTransit - download.count[p]
           m == IF Len(up) < room THEN Len(up) ELSE room
<1>1. MaxInTransit \in Nat /\ room \in Nat
  BY BlockDownloadAssumption
<1>2. CASE DirectFetch(p, last) = <<>>
  <2>1. <<>> \in Seq(Block) /\ Len(<<>>) = 0
    BY EmptySeq
  <2> QED BY <1>1, <1>2, <2>1
<1>3. CASE DirectFetch(p, last) = SubSeq(up, 1, m)
  <2>1. 0 \in 0..(Height[last] + 1) /\ Height[last] \in Nat
    BY HeightStep
  <2>2. Branch(last, 0) \in Seq(Block) /\ Len(Branch(last, 0)) = Height[last] + 1
    BY <2>1, BranchRight
  <2>3. Reverse(Branch(last, 0)) \in Seq(Block) /\ Len(Reverse(Branch(last, 0))) = Height[last] + 1
    BY <2>2, ReversedType
  <2>4. PICK walk \in Seq(Block) : walk = Reverse(Branch(last, 0)) /\ Len(walk) = Height[last] + 1
    BY <2>3
  <2>5. vToFetch(last) \in Seq(Block)
    BY <2>1, <2>4, CollectedType DEF vToFetch
  <2>6. up \in Seq(Block)
    BY <2>5, ReversedType
  <2> HIDE DEF up, room
  <2>7. m \in Nat /\ m <= room /\ m <= Len(up) /\ Len(up) \in Nat
    BY <1>1, <2>6, LenProperties
  <2> HIDE DEF m
  <2>8. \A i \in 1..m : up[i] \in Block
    BY <2>6, <2>7, ElementOfSeq
  <2>9. SubSeq(up, 1, m) \in Seq(Block) /\ Len(SubSeq(up, 1, m)) = IF 1 <= m THEN m - 1 + 1 ELSE 0
    BY <2>7, <2>8, SubSeqProperties
  <2>10. Len(SubSeq(up, 1, m)) <= room
    BY <1>1, <2>7, <2>9
  <2> QED BY <1>3, <2>9, <2>10 DEF room
<1> QED BY <1>2, <1>3 DEF DirectFetch

(* The states of a search for at most count blocks. *)
Waiting(q) == \E b \in Block : download.inFlight[b] = q
Searches(count) ==
    {a \in [common : Block, vBlocks : Seq(Block), waitingfor : Peer \cup {NoPeer},
            staller : Peer \cup {NoPeer}, end : BOOLEAN] :
        /\ Len(a.vBlocks) <= count /\ (~a.end => Len(a.vBlocks) < count)
        /\ a.waitingfor # NoPeer => Waiting(a.waitingfor)
        /\ a.staller # NoPeer => a.end /\ a.vBlocks = <<>> /\ Waiting(a.staller)}

LEMMA LookRight ==
    ASSUME NEW count \in Nat, NEW a \in Searches(count), NEW b \in Block, NEW p \in Peer, NEW nWindowEnd,
           download \in Downloads
    PROVE  Look(a, b, p, nWindowEnd, count) \in Searches(count)
<1> DEFINE c == Look(a, b, p, nWindowEnd, count)
<1>0. /\ a \in [common : Block, vBlocks : Seq(Block), waitingfor : Peer \cup {NoPeer},
                staller : Peer \cup {NoPeer}, end : BOOLEAN]
      /\ Len(a.vBlocks) \in Nat
      /\ Len(a.vBlocks) <= count /\ (~a.end => Len(a.vBlocks) < count)
      /\ a.waitingfor # NoPeer => Waiting(a.waitingfor)
      /\ a.staller # NoPeer => a.end /\ a.vBlocks = <<>> /\ Waiting(a.staller)
  BY LenProperties DEF Searches
<1>1. CASE c = a
  BY <1>1
<1>2. CASE ~a.end /\ b \in failed
  <2>1. c = [a EXCEPT !.end = TRUE]
    BY <1>2 DEF Look
  <2> QED BY <1>0, <1>2, <2>1 DEF Searches
<1>3. CASE c = [a EXCEPT !.common = b]
  BY <1>0, <1>3 DEF Searches
<1>4. CASE a.waitingfor = NoPeer /\ download.inFlight[b] # NoPeer
           /\ c = [a EXCEPT !.waitingfor = download.inFlight[b]]
  <2>1. Waiting(download.inFlight[b]) /\ download.inFlight[b] \in Peer \cup {NoPeer}
    BY DEF Waiting, Downloads
  <2> QED BY <1>0, <1>4, <2>1 DEF Searches
<1>5. CASE /\ ~a.end
           /\ c = [a EXCEPT !.end = TRUE,
                            !.staller = IF a.vBlocks = <<>> /\ a.waitingfor # p THEN a.waitingfor ELSE @]
  BY <1>0, <1>5 DEF Searches
<1>6. CASE ~a.end /\ c = [a EXCEPT !.vBlocks = Append(@, b), !.end = Len(a.vBlocks) + 1 = count]
  <2>1. Append(a.vBlocks, b) \in Seq(Block) /\ Len(Append(a.vBlocks, b)) = Len(a.vBlocks) + 1
    BY <1>0, AppendProperties
  <2>2. a.staller = NoPeer
    BY <1>0, <1>6
  <2>3. /\ c.common \in Block /\ c.vBlocks = Append(a.vBlocks, b) /\ c.waitingfor = a.waitingfor
        /\ c.staller = NoPeer /\ c.end \in BOOLEAN /\ (c.end <=> Len(a.vBlocks) + 1 = count)
        /\ c \in [common : Block, vBlocks : Seq(Block), waitingfor : Peer \cup {NoPeer},
                  staller : Peer \cup {NoPeer}, end : BOOLEAN]
    BY <1>0, <1>6, <2>1, <2>2
  <2> HIDE DEF c
  <2>4. Len(c.vBlocks) <= count /\ (~c.end => Len(c.vBlocks) < count)
    BY <1>0, <1>6, <2>1, <2>3
  <2>5. c \in Searches(count)
    BY <1>0, <2>3, <2>4 DEF Searches
  <2> QED BY <2>5 DEF c
<1>7. \/ a.end \/ (~a.end /\ b \in failed) \/ (~a.end /\ b \in data \ failed)
      \/ (~a.end /\ b \notin data \cup failed /\ download.inFlight[b] # NoPeer)
      \/ (~a.end /\ b \notin data \cup failed /\ download.inFlight[b] = NoPeer)
  BY <1>0
<1>8. CASE a.end
  BY <1>1, <1>8 DEF Look
<1>9. CASE ~a.end /\ b \in data \ failed
  BY <1>1, <1>3, <1>9 DEF Look
<1>10. CASE ~a.end /\ b \notin data \cup failed /\ download.inFlight[b] # NoPeer
  BY <1>1, <1>4, <1>10 DEF Look
<1>11. CASE ~a.end /\ b \notin data \cup failed /\ download.inFlight[b] = NoPeer
  BY <1>5, <1>6, <1>11 DEF Look
<1> QED BY <1>2, <1>7, <1>8, <1>9, <1>10, <1>11

LEMMA SearchRight ==
    ASSUME NEW p \in Peer, NEW top \in Block, NEW start \in Chain[top], NEW count \in Nat \ {0},
           download \in Downloads
    PROVE  Search(p, start, top, count) \in Searches(count)
<1> DEFINE nWindowEnd == Height[start] + Window
           nMaxHeight == IF Height[top] < nWindowEnd + 1 THEN Height[top] ELSE nWindowEnd + 1
           walk == Branch(top, Height[start] + 1)
           N == nMaxHeight - Height[start]
           V == Searches(count)
           v == [common |-> start, vBlocks |-> <<>>, waitingfor |-> NoPeer,
                 staller |-> NoPeer, end |-> FALSE]
           Run(f) == f = [n \in 0..N |-> IF n = 0 THEN v ELSE Look(f[n - 1], walk[n], p, nWindowEnd, count)]
           step == [n \in 1..N |-> [x \in V |-> Look(x, walk[n], p, nWindowEnd, count)]]
           w == CHOOSE f : Run(f)
<1>1. Search(p, start, top, count) = w[N]
  BY DEF Search
<1>2. Height[start] \in Nat /\ Height[top] \in Nat /\ Height[start] <= Height[top] /\ start \in Block
  BY HeightOfAncestor
<1>3. N \in Nat /\ N <= Height[top] - Height[start]
  <2>1. Window \in Nat
    BY BlockDownloadAssumption
  <2> QED BY <1>2, <2>1
<1>4. \A n \in 1..N : walk[n] \in Block
  <2>1. Height[start] + 1 \in 0..(Height[top] + 1)
    BY <1>2
  <2>2. walk \in Seq(Block) /\ Len(walk) = Height[top] + 1 - (Height[start] + 1)
    BY <2>1, BranchRight
  <2> HIDE DEF walk, N
  <2>3. \A n \in 1..N : n \in 1..Len(walk)
    BY <1>2, <1>3, <2>2
  <2> QED BY <2>2, <2>3, ElementOfSeq
<1>5. v \in V
  <2>1. <<>> \in Seq(Block) /\ Len(<<>>) = 0
    BY EmptySeq
  <2>2. v \in [common : Block, vBlocks : Seq(Block), waitingfor : Peer \cup {NoPeer},
               staller : Peer \cup {NoPeer}, end : BOOLEAN]
    BY <1>2, <2>1
  <2> QED BY <2>1, <2>2 DEF Searches
<1> HIDE DEF nWindowEnd, walk, N, v
<1>6. ASSUME NEW n \in 1..N, NEW x \in V PROVE Look(x, walk[n], p, nWindowEnd, count) \in V
  <2>1. PICK b \in Block : b = walk[n]
    BY <1>4
  <2> QED BY <2>1, LookRight
<1> HIDE DEF V
<1>7. Body(step, N, V)
  BY <1>6 DEF Body
<1>8. PICK f : RunUp(f, step, N, V, v)
  <2> HIDE DEF step
  <2> QED BY <1>3, <1>5, <1>7, LoopRuns
<1>9. f \in [0..N -> V] /\ f[0] = v /\ \A n \in 1..N : f[n] = step[n][f[n - 1]]
  <2> HIDE DEF step
  <2> QED BY <1>8 DEF RunUp
<1>10. Run(f)
  <2>1. \A n \in 0..N : n # 0 => n \in 1..N /\ n - 1 \in 0..N
    BY <1>3
  <2>2. ASSUME NEW n \in 0..N PROVE f[n] = IF n = 0 THEN v ELSE Look(f[n - 1], walk[n], p, nWindowEnd, count)
    BY <1>9, <2>1
  <2>3. f = [n \in 0..N |-> f[n]]
    BY <1>9
  <2> QED BY <2>2, <2>3
<1>11. Run(w)
  <2> HIDE DEF Run
  <2> QED BY <1>10
<1> HIDE DEF w
<1>12. w[0] = v /\ \A n \in 1..N : w[n] = Look(w[n - 1], walk[n], p, nWindowEnd, count)
  <2>1. 0 \in 0..N /\ \A n \in 1..N : n \in 0..N /\ n # 0
    BY <1>3
  <2> QED BY <1>11, <2>1
<1> HIDE DEF Run, step
<1> DEFINE T == {n \in 0..N : w[n] \in V}
<1>13. 0 \in T
  BY <1>3, <1>5, <1>12
<1>14. ASSUME NEW n \in 1..N, n - 1 \in T PROVE n \in T
  BY <1>3, <1>6, <1>12, <1>14
<1>15. 0..N \subseteq T
  <2> HIDE DEF T
  <2> QED BY <1>3, <1>13, <1>14, RoundsUp
<1> QED BY <1>1, <1>3, <1>15 DEF V

LEMMA FindRight ==
    ASSUME NEW p \in Peer, NEW top \in Block \cup {NoBlock}, NEW count \in Nat \ {0},
           download \in Downloads, active \in Block, common[p] \in Block \cup {NoBlock}
    PROVE  LET n == FindNextBlocksToDownload(p, top, count)
           IN  /\ n.common \in Block \cup {NoBlock} /\ n.vBlocks \in Seq(Block) /\ Len(n.vBlocks) <= count
               /\ n.staller \in Peer \cup {NoPeer}
               /\ n.staller # NoPeer => n.vBlocks = <<>> /\ Waiting(n.staller)
<1> DEFINE n == FindNextBlocksToDownload(p, top, count)
<1>1. CASE top = NoBlock \/ Height[top] < Height[active]
  <2>1. n = [common |-> common[p], vBlocks |-> <<>>, staller |-> NoPeer]
    BY <1>1 DEF FindNextBlocksToDownload
  <2>2. <<>> \in Seq(Block) /\ Len(<<>>) = 0
    BY EmptySeq
  <2> QED BY <2>1, <2>2
<1>2. CASE ~(top = NoBlock \/ Height[top] < Height[active])
  <2>1. PICK from \in Block : from = IF common[p] # NoBlock THEN common[p] ELSE active
    OBVIOUS
  <2>2. top \in Block
    BY <1>2
  <2>3. LastCommonAncestor(from, top) \in Chain[top]
    BY <2>2, CommonChain
  <2>4. n = Search(p, LastCommonAncestor(from, top), top, count)
    BY <1>2, <2>1 DEF FindNextBlocksToDownload
  <2>5. n \in Searches(count)
    BY <2>2, <2>3, <2>4, SearchRight
  <2> HIDE DEF n
  <2>6. /\ n.common \in Block \cup {NoBlock} /\ n.vBlocks \in Seq(Block) /\ Len(n.vBlocks) <= count
        /\ n.staller \in Peer \cup {NoPeer}
        /\ n.staller # NoPeer => n.vBlocks = <<>> /\ Waiting(n.staller)
    BY <2>5 DEF Searches
  <2> QED BY <2>6 DEF n
<1> QED BY <1>1, <1>2

-----------------------------------------------------------------------------
(* The inductive invariant of the download. *)

Statuses == {"new", "up", "closing", "gone"}
Known == [Peer -> Block \cup {NoBlock}]

(* What is known of the peers and the chain. *)
Types ==
    /\ status \in [Peer -> Statuses] /\ active \in Block
    /\ best \in Known /\ unknown \in Known /\ common \in Known

(* What is in flight, from connected peers. *)
Limits ==
    /\ Right(download)
    /\ \A p \in Peer : /\ download.count[p] <= MaxInTransit
                       /\ download.count[p] > 0 => p \in Connected

DownloadInv == Types /\ Limits

LEMMA DownloadInvRight == DownloadInv => InFlightRight
BY DEF DownloadInv, Limits, Right, Downloading, InFlightRight

(* p may be given up, and nobody else. *)
Stays(p) == status' = status \/ status' = [status EXCEPT ![p] = "closing"]

LEMMA StaysChecked ==
    ASSUME NEW p \in Peer, Types, CheckIfBanned(p)
    PROVE  Stays(p)
BY DEF Types, CheckIfBanned, Stays

LEMMA LimitsKept ==
    ASSUME NEW p \in Peer, Types, Limits, status[p] = "up", Stays(p), NEW k \in Nat,
           Right(download'), Grown(download, download', p, k), download.count[p] + k <= MaxInTransit
    PROVE  Limits' /\ status' \in [Peer -> Statuses]
<1>1. status' \in [Peer -> Statuses] /\ \A q \in Peer : q \in Connected => q \in Connected'
  BY DEF Types, Stays, Connected, Statuses
<1>2. p \in Connected'
  BY DEF Types, Stays, Connected
<1>3. ASSUME NEW q \in Peer
      PROVE  download'.count[q] <= MaxInTransit /\ (download'.count[q] > 0 => q \in Connected')
  <2>1. download.count[q] \in Nat /\ download'.count[q] \in Nat /\ MaxInTransit \in Nat
    BY BlockDownloadAssumption DEF Limits, Right, Downloads
  <2>2. download'.count[q] <= download.count[q] + (IF q = p THEN k ELSE 0)
    BY DEF Grown
  <2>3. download.count[q] <= MaxInTransit /\ (download.count[q] > 0 => q \in Connected)
    BY DEF Limits
  <2>4. CASE q = p
    BY <1>2, <2>1, <2>2, <2>4
  <2>5. CASE q # p
    BY <1>1, <2>1, <2>2, <2>3, <2>5
  <2> QED BY <2>4, <2>5
<1> QED BY <1>1, <1>3 DEF Limits

LEMMA SameGrown ==
    ASSUME Limits, NEW p \in Peer
    PROVE  Grown(download, download, p, 0) /\ download.count[p] + 0 <= MaxInTransit
BY BlockDownloadAssumption DEF Limits, Right, Downloads, Grown

LEMMA ReceivedGrown ==
    ASSUME Limits, NEW p \in Peer, NEW b \in Block
    PROVE  /\ Right(MarkBlockAsReceived(download, b))
           /\ Grown(download, MarkBlockAsReceived(download, b), p, 0)
<1>1. \A q \in Peer : download.count[q] \in Nat
  BY DEF Limits, Right, Downloads
<1>2. /\ Right(MarkBlockAsReceived(download, b))
      /\ \A q \in Peer : MarkBlockAsReceived(download, b).count[q] <= download.count[q]
  BY ReceivedRight DEF Limits
<1> QED BY <1>1, <1>2 DEF Grown

(* ProcessBlockAvailability and UpdateBlockAvailability. *)
LEMMA ResolvedType ==
    ASSUME NEW p \in Peer, Types, NEW I
    PROVE  Resolved(p, I)[1] \in Block \cup {NoBlock} /\ Resolved(p, I)[2] \in Block \cup {NoBlock}
BY DEF Types, Known, Resolved, Better

LEMMA AvailabilityType ==
    ASSUME NEW p \in Peer, Types, NEW I, NEW b \in Block, UpdateBlockAvailability(p, I, b)
    PROVE  best' \in Known /\ unknown' \in Known
<1> DEFINE r == Resolved(p, I)
           s == IF b \in I THEN <<Better(r[1], b), r[2]>> ELSE <<r[1], b>>
<1>1. r[1] \in Block \cup {NoBlock} /\ r[2] \in Block \cup {NoBlock}
  BY ResolvedType
<1>2. best' = [best EXCEPT ![p] = s[1]] /\ unknown' = [unknown EXCEPT ![p] = s[2]]
  BY DEF UpdateBlockAvailability
<1> HIDE DEF r
<1>3. s[1] \in Block \cup {NoBlock} /\ s[2] \in Block \cup {NoBlock}
  BY <1>1 DEF Better
<1> HIDE DEF s
<1> QED BY <1>2, <1>3 DEF Types, Known

LEMMA ActiveType ==
    ASSUME NEW b \in Block, NEW force, NEW body, ProcessNewBlock(b, force, body), active \in Block
    PROVE  active' \in Block
<1>1. active' = active \/ \E D : ActivateBestChain(b, D)
  BY Zenon DEF ProcessNewBlock
<1>2. ASSUME NEW D, ActivateBestChain(b, D) PROVE active' \in Block
  BY <1>2 DEF ActivateBestChain, BestTips, Linked
<1> QED BY <1>1, <1>2

(* A step of the message handler for p, in which p gets k more blocks. *)
LEMMA PeerStep ==
    ASSUME NEW p \in Peer, DownloadInv, status[p] = "up", Stays(p), NEW k \in Nat,
           Right(download'), Grown(download, download', p, k), download.count[p] + k <= MaxInTransit,
           active' \in Block, best' \in Known, unknown' \in Known, common' \in Known
    PROVE  DownloadInv'
BY LimitsKept DEF DownloadInv, Types

LEMMA AcceptedStep ==
    ASSUME NEW p \in Peer, NEW last \in Block, NEW requests, NEW f \in BOOLEAN,
           DownloadInv, status[p] = "up", status' = status, HeadersAccepted(p, last, requests, f)
    PROVE  DownloadInv'
<1> DEFINE toFetch == IF f THEN DirectFetch(p, last) ELSE <<>>
<1>1. /\ UpdateBlockAvailability(p, index', last) /\ download' = AllInFlight(download, p, toFetch)
      /\ UNCHANGED <<data, active, source, ibd, common, handling>>
  BY DEF HeadersAccepted
<1>2. /\ Types /\ Limits /\ Right(download) /\ MaxInTransit \in Nat /\ download.count[p] \in Nat
      /\ download.count[p] <= MaxInTransit
  BY BlockDownloadAssumption DEF DownloadInv, Limits, Right, Downloads
<1>3. toFetch \in Seq(Block) /\ Len(toFetch) <= MaxInTransit - download.count[p] /\ Len(toFetch) \in Nat
  <2>1. CASE f
    BY <1>2, <2>1, DirectFetchType, LenProperties
  <2>2. CASE ~f
    <3>1. <<>> \in Seq(Block) /\ Len(<<>>) = 0
      BY EmptySeq
    <3> QED BY <1>2, <2>2, <3>1
  <2> QED BY <2>1, <2>2
<1> HIDE DEF toFetch
<1>4. Right(download') /\ Grown(download, download', p, Len(toFetch))
  BY <1>1, <1>2, <1>3, AllMarked
<1>5. PICK I : I = index'
  OBVIOUS
<1>6. best' \in Known /\ unknown' \in Known
  BY <1>1, <1>2, <1>5, AvailabilityType
<1>7. active' \in Block /\ common' \in Known
  BY <1>1, <1>2 DEF Types
<1>8. Stays(p)
  BY DEF Stays
<1>9. download.count[p] + Len(toFetch) <= MaxInTransit
  BY <1>2, <1>3
<1> QED BY <1>3, <1>4, <1>6, <1>7, <1>8, <1>9, PeerStep

(* Nothing but what is known of p changes. *)
LEMMA KnownStep ==
    ASSUME NEW p \in Peer, DownloadInv, status[p] = "up", Stays(p), download' = download,
           active' \in Block, best' \in Known, unknown' \in Known, common' \in Known
    PROVE  DownloadInv'
<1>1. Right(download') /\ Grown(download, download', p, 0) /\ download.count[p] + 0 <= MaxInTransit
  BY SameGrown DEF DownloadInv, Limits
<1> QED BY <1>1, PeerStep

(* A block is no longer in flight. *)
LEMMA ReceivedStep ==
    ASSUME NEW p \in Peer, DownloadInv, status[p] = "up", Stays(p), NEW b \in Block,
           download' = MarkBlockAsReceived(download, b),
           active' \in Block, best' \in Known, unknown' \in Known, common' \in Known
    PROVE  DownloadInv'
<1>1. Right(download') /\ Grown(download, download', p, 0) /\ download.count[p] + 0 <= MaxInTransit
  BY SameGrown, ReceivedGrown DEF DownloadInv
<1> QED BY <1>1, PeerStep

(* A block that may be asked for as a compact block is marked as such. *)
LEMMA StartMarked ==
    ASSUME NEW p \in Peer, NEW b \in Block, DownloadInv, MayStart(p, b)
    PROVE  LET d == MarkBlockAsInFlight(download, p, b, TRUE)
               e == [d EXCEPT !.partial = @ \cup {b}]
           IN  \E k \in {0, 1} :
                   /\ download.count[p] + k <= MaxInTransit
                   /\ Right(d) /\ Grown(download, d, p, k) /\ Right(e) /\ Grown(download, e, p, k)
<1> DEFINE d == MarkBlockAsInFlight(download, p, b, TRUE)
           e == [d EXCEPT !.partial = @ \cup {b}]
<1>1. /\ Limits /\ Right(download) /\ MaxInTransit \in Nat
      /\ download.count[p] \in Nat /\ download.count[p] <= MaxInTransit
  BY BlockDownloadAssumption DEF DownloadInv, Limits, Right, Downloads
<1>2. Right(d) /\ d.inFlight[b] = p /\ Grown(download, d, p, 1) /\ (download.inFlight[b] = p => d = download)
  BY <1>1, InFlightMarked
<1> HIDE DEF d
<1>3. PICK k \in {0, 1} : download.count[p] + k <= MaxInTransit /\ Grown(download, d, p, k)
  <2>1. CASE download.inFlight[b] = p
    <3>1. Grown(download, d, p, 0) /\ download.count[p] + 0 <= MaxInTransit
      BY <1>1, <1>2, <2>1, SameGrown
    <3> QED BY <3>1
  <2>2. CASE download.inFlight[b] # p
    <3>1. download.count[p] + 1 <= MaxInTransit
      BY <1>1, <2>2 DEF MayStart
    <3> QED BY <1>2, <3>1
  <2> QED BY <2>1, <2>2
<1>4. d \in Downloads
  BY <1>2 DEF Right
<1>5. /\ e.inFlight = d.inFlight /\ e.partial = d.partial \cup {b} /\ e.peers = d.peers /\ e.queue = d.queue
      /\ e.count = d.count /\ e.valid = d.valid /\ e.stalling = d.stalling /\ e \in Downloads
  BY <1>4 DEF Downloads
<1> HIDE DEF e
<1>6. Right(e)
  BY <1>2, <1>5, BlockDownloadAssumption DEF Right, Downloading
<1>7. Grown(download, e, p, k)
  BY <1>3, <1>5 DEF Grown
<1> QED BY <1>2, <1>3, <1>6, <1>7 DEF d, e

LEMMA GrownReceived ==
    ASSUME NEW p \in Peer, NEW b \in Block, NEW k \in Nat, NEW d, Limits, Right(d), Grown(download, d, p, k)
    PROVE  Right(MarkBlockAsReceived(d, b)) /\ Grown(download, MarkBlockAsReceived(d, b), p, k)
<1> DEFINE e == MarkBlockAsReceived(d, b)
<1>1. Right(e) /\ \A q \in Peer : e.count[q] <= d.count[q]
  BY ReceivedRight
<1> HIDE DEF e
<1>2. \A q \in Peer : e.count[q] \in Nat /\ d.count[q] \in Nat /\ download.count[q] \in Nat
  BY <1>1 DEF Limits, Right, Downloads
<1>3. Grown(download, e, p, k)
  BY <1>1, <1>2 DEF Grown
<1> QED BY <1>1, <1>3 DEF e

LEMMA CompactStep ==
    ASSUME NEW p \in Peer, NEW b \in Block, DownloadInv, Compact(p, b)
    PROVE  DownloadInv'
<1>0. /\ Types /\ Limits /\ active \in Block /\ best \in Known /\ unknown \in Known /\ common \in Known
      /\ status[p] = "up"
  BY DEF DownloadInv, Types, Compact, CompactBlock
<1>1. CASE CmpctRefused(p, b)
  <2>1. /\ CheckIfBanned(p) /\ active' = active /\ best' = best
        /\ unknown' = unknown /\ common' = common /\ download' = download
    BY <1>1 DEF CmpctRefused
  <2> QED BY <1>0, <2>1, KnownStep, StaysChecked
<1>2. ASSUME CmpctAccepted(p, b)
      PROVE  best' \in Known /\ unknown' \in Known /\ common' \in Known
  <2>1. PICK I : I = index'
    OBVIOUS
  <2> QED BY <1>0, <1>2, <2>1, AvailabilityType DEF CmpctAccepted
<1>3. ASSUME CmpctAskBlock(p, b) \/ \E f \in BOOLEAN : CmpctIgnored(p, b, f) \/ CmpctReconstructed(p, b, f)
      PROVE  DownloadInv'
  <2>1. CmpctAccepted(p, b) /\ status' = status /\ active' = active /\ download' = download
    BY <1>3 DEF CmpctAskBlock, CmpctIgnored, CmpctReconstructed
  <2>2. Stays(p)
    BY <2>1 DEF Stays
  <2> QED BY <1>0, <1>2, <2>1, <2>2, KnownStep
<1>4. CASE CmpctAsHeader(p, b)
  <2>1. status' = status /\ HeadersAccepted(p, b, {<<"cmpct", b>>}, TRUE)
    BY <1>4 DEF CmpctAsHeader
  <2> QED BY <1>0, <2>1, AcceptedStep
<1>5. ASSUME NEW f \in BOOLEAN, CmpctFilled(p, b, f) PROVE DownloadInv'
  <2> DEFINE d == MarkBlockAsInFlight(download, p, b, TRUE)
  <2>1. /\ MayStart(p, b) /\ CmpctAccepted(p, b) /\ status' = status /\ active' = active
        /\ download' = MarkBlockAsReceived(d, b)
    BY <1>5 DEF CmpctFilled
  <2>2. PICK k \in {0, 1} : download.count[p] + k <= MaxInTransit /\ Right(d) /\ Grown(download, d, p, k)
    BY <2>1, StartMarked
  <2> HIDE DEF d
  <2>3. Right(download') /\ Grown(download, download', p, k)
    BY <1>0, <2>1, <2>2, GrownReceived
  <2>4. Stays(p)
    BY <2>1 DEF Stays
  <2> QED BY <1>0, <1>2, <2>1, <2>2, <2>3, <2>4, PeerStep
<1>6. ASSUME NEW f \in BOOLEAN, CmpctStart(p, b, f) PROVE DownloadInv'
  <2> DEFINE d == MarkBlockAsInFlight(download, p, b, TRUE)
             e == [d EXCEPT !.partial = @ \cup {b}]
  <2>1. /\ CmpctAccepted(p, b) /\ MayStart(p, b) /\ CheckIfBanned(p) /\ active' = active
        /\ download' = e \/ download' = MarkBlockAsReceived(e, b)
    BY <1>6 DEF CmpctStart
  <2>2. PICK k \in {0, 1} : download.count[p] + k <= MaxInTransit /\ Right(e) /\ Grown(download, e, p, k)
    BY <2>1, StartMarked
  <2> HIDE DEF e
  <2>3. Right(download') /\ Grown(download, download', p, k)
    BY <1>0, <2>1, <2>2, GrownReceived
  <2>4. Stays(p)
    BY <1>0, <2>1, StaysChecked
  <2> QED BY <1>0, <1>2, <2>1, <2>2, <2>3, <2>4, PeerStep
<1> QED BY <1>1, <1>3, <1>4, <1>5, <1>6 DEF Compact

LEMMA MessageStep ==
    ASSUME NEW p \in Peer, DownloadInv, Message(p)
    PROVE  DownloadInv'
<1>0. /\ Types /\ Limits /\ active \in Block /\ best \in Known /\ unknown \in Known /\ common \in Known
      /\ \A b \in Announces[p] : b \in Block
  BY BlockDownloadAssumption DEF DownloadInv, Types
<1>1. ASSUME NEW b \in Announces[p], Announce(p, b) PROVE DownloadInv'
  <2>1. /\ status[p] = "up" /\ UpdateBlockAvailability(p, index, b)
        /\ status' = status /\ active' = active /\ common' = common /\ download' = download
    BY <1>1 DEF Announce, chainVars
  <2>2. best' \in Known /\ unknown' \in Known
    BY <1>0, <2>1, AvailabilityType
  <2>3. Stays(p)
    BY <2>1 DEF Stays
  <2> QED BY <1>0, <2>1, <2>2, <2>3, KnownStep
<1>2. ASSUME NEW b \in Announces[p], NEW first \in Chain[b], InvalidHeaders(p, first, b) PROVE DownloadInv'
  <2>1. /\ status[p] = "up" /\ active' = active /\ best' = best /\ unknown' = unknown
        /\ common' = common /\ download' = download
        /\ \E s \in {"closing", status[p]} : status' = [status EXCEPT ![p] = s]
    BY <1>2 DEF InvalidHeaders
  <2>2. Stays(p)
    BY <1>0, <2>1 DEF Stays, Types
  <2> QED BY <1>0, <2>1, <2>2, KnownStep
<1>3. ASSUME NEW b \in Announces[p], NEW first \in Chain[b], Headers(p, first, b) PROVE DownloadInv'
  <2>1. status[p] = "up" /\ status' = status /\ \E f \in BOOLEAN : HeadersAccepted(p, b, {}, f)
    BY <1>3 DEF Headers
  <2> QED BY <1>0, <2>1, AcceptedStep
<1>4. ASSUME NEW b \in Block, NEW body \in Bodies, ReceiveBlock(p, b, body) PROVE DownloadInv'
  <2>1. /\ status[p] = "up" /\ status' = status /\ active' = active
        /\ download' = MarkBlockAsReceived(download, b)
        /\ best' = best /\ unknown' = unknown /\ common' = common
    BY <1>4 DEF ReceiveBlock
  <2>2. Stays(p)
    BY <2>1 DEF Stays
  <2> QED BY <1>0, <2>1, <2>2, ReceivedStep
<1>5. ASSUME NEW b \in Block, Compact(p, b) PROVE DownloadInv'
  BY <1>5, CompactStep
<1>6. ASSUME NEW b \in Block, BlockTxn(p, b) PROVE DownloadInv'
  <2>1. /\ status[p] = "up" /\ CheckIfBanned(p) /\ best' = best /\ unknown' = unknown /\ common' = common
        /\ download' = download \/ download' = MarkBlockAsReceived(download, b)
        /\ active' = active
    BY <1>6 DEF BlockTxn, chainVars
  <2>2. Stays(p)
    BY <1>0, <2>1, StaysChecked
  <2> QED BY <1>0, <2>1, <2>2, KnownStep, ReceivedStep
<1> QED BY <1>1, <1>2, <1>3, <1>4, <1>5, <1>6 DEF Message

(* The rest of a handler: the block may be marked as received, whoever it  *)
(* is in flight from, and the peer given up.                               *)
LEMMA HandleStep ==
    ASSUME DownloadInv, HandlingRight, HandleBlock(handling)
    PROVE  DownloadInv'
<1> DEFINE b == handling.block
           p == handling.peer
<1>1. b \in Block /\ p \in Peer
  BY DEF HandlingRight, HandleBlock
<1>2. /\ ProcessNewBlock(b, handling.force, handling.body) /\ CheckIfBanned(p)
      /\ download' = download \/ download' = MarkBlockAsReceived(download, b)
      /\ best' = best /\ unknown' = unknown /\ common' = common
  BY DEF HandleBlock
<1> HIDE DEF b, p
<1>3. Types /\ Limits /\ status \in [Peer -> Statuses] /\ active' \in Block
  BY <1>1, <1>2, ActiveType DEF DownloadInv, Types
<1>4. status' \in [Peer -> Statuses] /\ \A q \in Peer : q \in Connected => q \in Connected'
  BY <1>1, <1>2, <1>3 DEF CheckIfBanned, Connected, Statuses
<1>5. Types'
  BY <1>2, <1>3, <1>4 DEF Types
<1>6. Right(download') /\ \A q \in Peer : download'.count[q] <= download.count[q]
  <2>1. CASE download' = download
    BY <1>3, <2>1 DEF Limits, Right, Downloads
  <2>2. CASE download' = MarkBlockAsReceived(download, b)
    BY <1>1, <1>3, <2>2, ReceivedRight DEF Limits
  <2> QED BY <1>2, <2>1, <2>2
<1>7. ASSUME NEW q \in Peer
      PROVE  download'.count[q] <= MaxInTransit /\ (download'.count[q] > 0 => q \in Connected')
  <2>1. download.count[q] \in Nat /\ download'.count[q] \in Nat /\ MaxInTransit \in Nat
    BY <1>3, <1>6, BlockDownloadAssumption DEF Limits, Right, Downloads
  <2>2. download.count[q] <= MaxInTransit /\ (download.count[q] > 0 => q \in Connected)
    BY <1>3 DEF Limits
  <2> QED BY <1>4, <1>6, <2>1, <2>2
<1> QED BY <1>5, <1>6, <1>7 DEF DownloadInv, Limits

LEMMA SendStep ==
    ASSUME NEW p \in Peer, DownloadInv, SendMessages(p)
    PROVE  DownloadInv'
<1> DEFINE r == Resolved(p, index)
           room == MaxInTransit - download.count[p]
           n == FindNextBlocksToDownload(p, r[1], room)
           d == AllInFlight(download, p, n.vBlocks)
<1>0. /\ Types /\ Limits /\ Right(download) /\ download \in Downloads /\ active \in Block
      /\ best \in Known /\ unknown \in Known /\ common \in Known
      /\ download.count[p] \in Nat /\ MaxInTransit \in Nat /\ download.count[p] <= MaxInTransit
  BY BlockDownloadAssumption DEF DownloadInv, Types, Limits, Right, Downloads
<1>1. /\ status[p] = "up" /\ status' = status /\ active' = active
      /\ best' = [best EXCEPT ![p] = r[1]] /\ unknown' = [unknown EXCEPT ![p] = r[2]]
  BY DEF SendMessages, chainVars
<1>2. Stays(p)
  BY <1>1 DEF Stays
<1>3. r[1] \in Block \cup {NoBlock} /\ r[2] \in Block \cup {NoBlock}
  BY <1>0, ResolvedType
<1>4. best' \in Known /\ unknown' \in Known
  BY <1>0, <1>1, <1>3 DEF Known
<1>5. CASE (fFetch(p) \/ ~ibd) /\ room > 0
  <2>1. /\ common' = [common EXCEPT ![p] = n.common]
        /\ download' = IF d.count[p] = 0 /\ n.staller # NoPeer
                       THEN [d EXCEPT !.stalling[n.staller] = TRUE] ELSE d
    BY <1>5 DEF SendMessages
  <2>2. PICK top \in Block \cup {NoBlock}, count \in Nat \ {0} : top = r[1] /\ count = room
    BY <1>0, <1>3, <1>5
  <2>3. common[p] \in Block \cup {NoBlock}
    BY <1>0 DEF Known
  <2>4. /\ n.common \in Block \cup {NoBlock} /\ n.vBlocks \in Seq(Block) /\ Len(n.vBlocks) <= room
        /\ n.staller \in Peer \cup {NoPeer}
        /\ n.staller # NoPeer => n.vBlocks = <<>> /\ Waiting(n.staller)
    <3> HIDE DEF r, room
    <3> QED BY <1>0, <2>2, <2>3, FindRight
  <2>5. Len(n.vBlocks) \in Nat
    BY <2>4, LenProperties
  <2> HIDE DEF n
  <2>6. Right(d) /\ Grown(download, d, p, Len(n.vBlocks)) /\ (n.vBlocks = <<>> => d = download)
    BY <1>0, <2>4, AllMarked
  <2>7. common' \in Known
    BY <1>0, <2>1, <2>4 DEF Known
  <2>8. download.count[p] + Len(n.vBlocks) <= MaxInTransit
    BY <1>0, <2>4, <2>5
  <2> HIDE DEF d
  <2>9. CASE download' = d
    BY <1>0, <1>1, <1>2, <1>4, <2>5, <2>6, <2>7, <2>8, <2>9, PeerStep
  <2>10. CASE n.staller # NoPeer /\ download' = [d EXCEPT !.stalling[n.staller] = TRUE]
    <3>1. PICK q \in Peer : q = n.staller /\ Waiting(q) /\ d = download
      BY <2>4, <2>6, <2>10
    <3>2. PICK b \in Block : b \in ToSet(download.queue[q])
      BY <1>0, <3>1 DEF Waiting, Right
    <3>3. download.count[q] > 0
      <4>1. download.queue[q] \in Seq(Block) /\ download.count[q] = Len(download.queue[q])
        BY <1>0 DEF Right, Downloads
      <4>2. download.queue[q] # <<>>
        BY <3>2 DEF ToSet
      <4> QED BY <4>1, <4>2, EmptySeq
    <3>4. /\ download'.inFlight = download.inFlight /\ download'.partial = download.partial
          /\ download'.peers = download.peers /\ download'.queue = download.queue
          /\ download'.count = download.count /\ download'.valid = download.valid
          /\ download'.stalling = [download.stalling EXCEPT ![q] = TRUE]
          /\ download' \in Downloads
      BY <1>0, <2>10, <3>1 DEF Downloads
    <3>5. \A x \in Peer : download'.stalling[x] => download'.count[x] > 0
      BY <1>0, <3>3, <3>4 DEF Right, Downloads
    <3>6. Right(download')
      BY <1>0, <3>4, <3>5 DEF Right, Downloading
    <3>7. Grown(download, download', p, 0) /\ download.count[p] + 0 <= MaxInTransit
      <4>1. Grown(download, download, p, 0) /\ download.count[p] + 0 <= MaxInTransit
        BY <1>0, SameGrown
      <4> QED BY <3>4, <4>1 DEF Grown
    <3> QED BY <1>0, <1>1, <1>2, <1>4, <2>7, <3>6, <3>7, PeerStep
  <2> QED BY <2>1, <2>9, <2>10
<1>6. CASE ~((fFetch(p) \/ ~ibd) /\ room > 0)
  <2>1. common' = common /\ download' = download
    BY <1>6 DEF SendMessages
  <2> QED BY <1>0, <1>1, <1>2, <1>4, <2>1, KnownStep
<1> QED BY <1>5, <1>6

(* FinalizeNode: everything in flight from p is forgotten. *)
LEMMA FinalizeStep ==
    ASSUME NEW p \in Peer, DownloadInv, FinalizeNode(p)
    PROVE  DownloadInv'
<1> DEFINE d == download
           e == download'
<1>0. Types /\ Limits /\ Right(download) /\ download \in Downloads
  BY DEF DownloadInv, Limits, Right
<1>1. /\ status' = [status EXCEPT ![p] = "gone"] /\ active' = active
      /\ best' = [best EXCEPT ![p] = NoBlock] /\ unknown' = [unknown EXCEPT ![p] = NoBlock]
      /\ common' = [common EXCEPT ![p] = NoBlock]
  BY DEF FinalizeNode, chainVars
<1>2. Types'
  BY <1>0, <1>1 DEF Types, Known, Statuses
<1>3. e = [inFlight |-> ErasedInFlight(p), partial |-> d.partial \ ToSet(d.queue[p]),
           peers |-> IF d.valid[p] # 0 THEN d.peers - 1 ELSE d.peers,
           queue |-> [d.queue EXCEPT ![p] = <<>>], count |-> [d.count EXCEPT ![p] = 0],
           valid |-> [d.valid EXCEPT ![p] = 0], stalling |-> [d.stalling EXCEPT ![p] = FALSE]]
  BY <1>0 DEF FinalizeNode, Downloads
<1>4. /\ \A b \in Block : e.inFlight[b] = IF d.inFlight[b] = p THEN NoPeer ELSE d.inFlight[b]
      /\ e.inFlight \in [Block -> Peer \cup {NoPeer}]
  BY <1>0, <1>3 DEF ErasedInFlight, Right, Downloads
<1>5. ASSUME NEW q \in Peer
      PROVE  /\ q = p => /\ e.queue[q] = <<>> /\ e.count[q] = 0 /\ e.valid[q] = 0 /\ e.stalling[q] = FALSE
             /\ q # p => /\ e.queue[q] = d.queue[q] /\ e.count[q] = d.count[q]
                         /\ e.valid[q] = d.valid[q] /\ e.stalling[q] = d.stalling[q]
  BY <1>0, <1>3 DEF Downloads
<1>6. Downloading(e) = Downloading(d) \ {p}
  <2>1. ASSUME NEW q \in Peer PROVE e.valid[q] > 0 <=> q # p /\ d.valid[q] > 0
    <3>1. CASE q = p
      <4>1. e.valid[q] = 0
        BY <1>5, <3>1
      <4>2. ~(0 > 0)
        OBVIOUS
      <4> QED BY <3>1, <4>1, <4>2
    <3>2. CASE q # p
      BY <1>5, <3>2
    <3> QED BY <3>1, <3>2
  <2> QED BY <2>1 DEF Downloading
<1>7. d.valid[p] \in Nat /\ d.peers \in Nat
  BY <1>0 DEF Downloads
<1>8. IsFiniteSet(Downloading(e)) /\ e.peers = Cardinality(Downloading(e)) /\ e.peers \in Nat
  <2>1. IsFiniteSet(Downloading(d)) /\ d.peers = Cardinality(Downloading(d))
    BY <1>0 DEF Right
  <2>2. p \in Downloading(d) <=> d.valid[p] # 0
    BY <1>7 DEF Downloading
  <2>3. /\ IsFiniteSet(Downloading(e))
        /\ Cardinality(Downloading(e)) =
               IF p \in Downloading(d) THEN Cardinality(Downloading(d)) - 1 ELSE Cardinality(Downloading(d))
    BY <1>6, <2>1, FS_RemoveElement
  <2>4. e.peers = IF d.valid[p] # 0 THEN d.peers - 1 ELSE d.peers
    BY <1>3
  <2>5. e.peers = Cardinality(Downloading(e))
    BY <2>1, <2>2, <2>3, <2>4
  <2> QED BY <2>3, <2>5, FS_CardinalityType
<1>9. e \in Downloads
  <2>1. <<>> \in Seq(Block)
    BY EmptySeq
  <2> QED BY <1>0, <1>3, <1>4, <1>8, <2>1 DEF Downloads
<1>10. ASSUME NEW b \in Block, NEW q \in Peer
       PROVE  e.inFlight[b] = q <=> b \in ToSet(e.queue[q])
  <2>1. ToSet(<<>>) = {}
    BY DEF ToSet
  <2>2. d.inFlight[b] = q <=> b \in ToSet(d.queue[q])
    BY <1>0 DEF Right
  <2>3. NoPeer # q
    BY BlockDownloadAssumption
  <2>4. CASE q = p
    <3>1. e.queue[q] = <<>>
      BY <1>5, <2>4
    <3>2. e.inFlight[b] # q
      BY <1>4, <2>3, <2>4
    <3> QED BY <2>1, <3>1, <3>2
  <2>5. CASE q # p
    <3>1. e.queue[q] = d.queue[q]
      BY <1>5, <2>5
    <3>2. e.inFlight[b] = q <=> d.inFlight[b] = q
      BY <1>4, <2>3, <2>5
    <3> QED BY <2>2, <3>1, <3>2
  <2> QED BY <2>4, <2>5
<1>11. ASSUME NEW q \in Peer
       PROVE  /\ IsInjective(e.queue[q])
              /\ e.count[q] = Len(e.queue[q]) /\ e.valid[q] = e.count[q]
              /\ e.stalling[q] => e.count[q] > 0
              /\ e.count[q] <= MaxInTransit
              /\ e.count[q] > 0 => q \in Connected'
  <2>1. CASE q = p
    <3>1. Len(<<>>) = 0 /\ IsInjective(<<>>) /\ MaxInTransit \in Nat
      BY EmptySeq, BlockDownloadAssumption DEF IsInjective
    <3>2. e.queue[q] = <<>> /\ e.count[q] = 0 /\ e.valid[q] = 0 /\ e.stalling[q] = FALSE
      BY <1>5, <2>1
    <3> QED BY <3>1, <3>2
  <2>2. CASE q # p
    <3>1. status'[q] = status[q]
      BY <1>0, <1>1, <2>2 DEF Types
    <3>2. q \in Connected => q \in Connected'
      BY <3>1 DEF Connected
    <3> QED BY <1>0, <1>5, <2>2, <3>2 DEF Right, Limits
  <2> QED BY <2>1, <2>2
<1>12. \A b \in e.partial : e.inFlight[b] # NoPeer
  <2>1. ASSUME NEW b \in e.partial PROVE e.inFlight[b] # NoPeer
    <3>1. b \in Block /\ b \in d.partial /\ b \notin ToSet(d.queue[p])
      BY <1>0, <1>3, <2>1 DEF Downloads
    <3>2. d.inFlight[b] # NoPeer /\ d.inFlight[b] # p
      BY <1>0, <3>1 DEF Right
    <3> QED BY <1>4, <3>1, <3>2
  <2> QED BY <2>1
<1>13. Right(download')
  BY <1>8, <1>9, <1>10, <1>11, <1>12 DEF Right
<1> QED BY <1>2, <1>11, <1>13 DEF DownloadInv, Limits

LEMMA DownloadStep ==
    ASSUME DownloadInv, HandlingRight, [Next]_vars
    PROVE  DownloadInv'
<1>0. /\ Types /\ Limits /\ active \in Block /\ best \in Known /\ unknown \in Known /\ common \in Known
  BY DEF DownloadInv, Types
<1>1. ASSUME NEW p \in Peer, Message(p) PROVE DownloadInv'
  BY <1>1, MessageStep
<1>2. ASSUME NEW p \in Peer, SendMessages(p) PROVE DownloadInv'
  BY <1>2, SendStep
<1>3. ASSUME NEW p \in Peer,
             Banned(p) \/ StallingTimeout(p) \/ Disconnect(p) \/ \E b \in Block : DownloadTimeout(p, b)
      PROVE  DownloadInv'
  <2>1. /\ status[p] = "up" /\ status' = [status EXCEPT ![p] = "closing"] /\ active' = active
        /\ best' = best /\ unknown' = unknown /\ common' = common /\ download' = download
    BY <1>3 DEF Banned, StallingTimeout, Disconnect, DownloadTimeout, TimedOut, chainVars
  <2>2. Stays(p)
    BY <2>1 DEF Stays
  <2> QED BY <1>0, <2>1, <2>2, KnownStep
<1>4. ASSUME active' \in Block, \A q \in Peer : q \in Connected => q \in Connected',
             status' \in [Peer -> Statuses],
             best' = best, unknown' = unknown, common' = common, download' = download
      PROVE  DownloadInv'
  BY <1>0, <1>4 DEF DownloadInv, Types, Limits
<1>5. ASSUME NEW p \in Peer, Connect(p) PROVE DownloadInv'
  <2>1. /\ status' = [status EXCEPT ![p] = "up"] /\ active' = active /\ status[p] = "new"
        /\ best' = best /\ unknown' = unknown /\ common' = common /\ download' = download
    BY <1>5 DEF Connect, chainVars
  <2>2. status' \in [Peer -> Statuses] /\ \A q \in Peer : q \in Connected => q \in Connected'
    BY <1>0, <2>1 DEF Types, Statuses, Connected
  <2> QED BY <1>0, <1>4, <2>1, <2>2
<1>6. ASSUME NEW p \in Peer, FinalizeNode(p) PROVE DownloadInv'
  BY <1>6, FinalizeStep
<1>7. ASSUME status' = status, active' \in Block,
             best' = best, unknown' = unknown, common' = common, download' = download
      PROVE  DownloadInv'
  <2>1. status' \in [Peer -> Statuses] /\ \A q \in Peer : q \in Connected => q \in Connected'
    BY <1>0, <1>7 DEF Types, Connected
  <2> QED BY <1>4, <1>7, <2>1
<1>8. ASSUME NEW b \in Block, SubmitBlock(b) PROVE DownloadInv'
  <2>1. active' \in Block
    BY <1>0, <1>8, ActiveType DEF SubmitBlock
  <2> QED BY <1>7, <1>8, <2>1 DEF SubmitBlock
<1>9. CASE LeaveIBD \/ UNCHANGED vars
  <2>1. /\ status' = status /\ active' = active /\ best' = best /\ unknown' = unknown
        /\ common' = common /\ download' = download
    BY <1>9 DEF LeaveIBD, vars, chainVars
  <2> QED BY <1>0, <1>7, <2>1
<1>10. CASE HandleBlock(handling)
  BY <1>10, HandleStep
<1> QED BY <1>1, <1>2, <1>3, <1>5, <1>6, <1>8, <1>9, <1>10 DEF Next, Serve

LEMMA DownloadStart == Init => DownloadInv
<1> SUFFICES ASSUME Init PROVE DownloadInv
  OBVIOUS
<1>1. Types
  BY TreeAssumption DEF Init, Types, Known, Statuses
<1>2. download = [inFlight |-> [b \in Block |-> NoPeer], partial |-> {}, peers |-> 0,
                  queue |-> [p \in Peer |-> <<>>], count |-> [p \in Peer |-> 0], valid |-> [p \in Peer |-> 0],
                  stalling |-> [p \in Peer |-> FALSE]]
  BY DEF Init, Nobody
<1>3. <<>> \in Seq(Block) /\ Len(<<>>) = 0 /\ ToSet(<<>>) = {} /\ IsInjective(<<>>)
  BY EmptySeq DEF ToSet, IsInjective
<1>4. download \in Downloads
  BY <1>2, <1>3 DEF Downloads
<1>5. Downloading(download) = {}
  BY <1>2 DEF Downloading
<1>6. Right(download)
  <2>1. IsFiniteSet(Downloading(download)) /\ download.peers = Cardinality(Downloading(download))
    BY <1>2, <1>5, FS_EmptySet
  <2>2. \A b \in Block, p \in Peer : download.inFlight[b] = p <=> b \in ToSet(download.queue[p])
    BY <1>2, <1>3, BlockDownloadAssumption
  <2>3. \A p \in Peer :
           /\ IsInjective(download.queue[p])
           /\ download.count[p] = Len(download.queue[p]) /\ download.valid[p] = download.count[p]
           /\ download.stalling[p] => download.count[p] > 0
    <3>1. ASSUME NEW p \in Peer
          PROVE  /\ download.queue[p] = <<>> /\ download.count[p] = 0
                 /\ download.valid[p] = 0 /\ download.stalling[p] = FALSE
      BY <1>2
    <3> QED BY <1>3, <3>1
  <2>4. \A b \in download.partial : download.inFlight[b] # NoPeer
    BY <1>2
  <2> QED BY <1>4, <2>1, <2>2, <2>3, <2>4 DEF Right
<1> QED BY <1>1, <1>2, <1>6, BlockDownloadAssumption DEF DownloadInv, Limits

(* For any number of peers and blocks, whatever the peers send and however *)
(* timeouts and disconnections strike: mapBlocksInFlight, the lists of     *)
(* each peer and all the counters agree, no peer has more blocks in flight *)
(* than it may, only connected peers have any, and only a peer with blocks *)
(* in flight is suspected of stalling.  In particular the assertions of    *)
(* FinalizeNode hold.                                                      *)
THEOREM InFlightCorrect == Spec => []InFlightRight
<1>1. DownloadInv /\ HandlingRight /\ [Next]_vars => DownloadInv'
  BY DownloadStep
<1> QED BY <1>1, DownloadStart, DownloadInvRight, HandlingCorrect, PTL DEF Spec
=============================================================================
