-------------------------- MODULE ChainStateProofs --------------------------
(***************************************************************************)
(* Chain selection, for any tree of blocks, any work, any verdicts and any *)
(* number of threads.                                                      *)
(***************************************************************************)
EXTENDS ChainState, BlockTreeProofs

-----------------------------------------------------------------------------
(* CBlockIndexWorkComparator is a strict total order: work, then sequence  *)
(* id, then address.                                                       *)
LEMMA WorseIrreflexive ==
    ASSUME NEW s \in [Block -> Int], NEW a \in Block
    PROVE  ~Worse(s, a, a)
BY ChainAssumption DEF Worse

LEMMA WorseTransitive ==
    ASSUME NEW s \in [Block -> Int], NEW a \in Block, NEW b \in Block, NEW c \in Block,
           Worse(s, a, b), Worse(s, b, c)
    PROVE  Worse(s, a, c)
<1>1. /\ Work[a] \in Nat /\ Work[b] \in Nat /\ Work[c] \in Nat
      /\ Addr[a] \in Nat /\ Addr[b] \in Nat /\ Addr[c] \in Nat
      /\ s[a] \in Int /\ s[b] \in Int /\ s[c] \in Int
  BY ChainAssumption
<1> QED BY <1>1 DEF Worse

LEMMA WorseTotal ==
    ASSUME NEW s \in [Block -> Int], NEW a \in Block, NEW b \in Block, a # b
    PROVE  Worse(s, a, b) \/ Worse(s, b, a)
<1>1. /\ Work[a] \in Nat /\ Work[b] \in Nat
      /\ Addr[a] \in Nat /\ Addr[b] \in Nat /\ Addr[a] # Addr[b]
      /\ s[a] \in Int /\ s[b] \in Int
  BY ChainAssumption
<1> QED BY <1>1 DEF Worse

(* As good as, likewise. *)
LEMMA NotWorseTransitive ==
    ASSUME NEW s \in [Block -> Int], NEW a \in Block, NEW b \in Block, NEW c \in Block,
           ~Worse(s, b, a), ~Worse(s, c, b)
    PROVE  ~Worse(s, c, a)
<1> SUFFICES ASSUME Worse(s, c, a) PROVE FALSE
  OBVIOUS
<1>1. CASE a = b
  BY <1>1
<1>2. CASE a # b
  <2>1. Worse(s, a, b)
    BY <1>2, WorseTotal
  <2> QED BY <2>1, WorseTransitive
<1> QED BY <1>1, <1>2

(* An ancestor has less work, and sorts before its descendant. *)
LEMMA WorkOfAncestor ==
    ASSUME NEW b \in Block, NEW a \in Chain[b], a # b
    PROVE  a \in Block /\ Work[a] < Work[b]
<1> DEFINE S == {x \in Block : \A u \in Chain[x] : u = x \/ Work[u] < Work[x]}
<1>1. Genesis \in S
  BY ChainStep, TreeAssumption
<1>2. ASSUME NEW x \in Block \ {Genesis}, Parent[x] \in S PROVE x \in S
  <2> SUFFICES ASSUME NEW u \in Chain[x], u # x PROVE Work[u] < Work[x]
    OBVIOUS
  <2>1. u \in Chain[Parent[x]] /\ Parent[x] \in Block /\ u \in Block
    BY ChainStep, ParentBlock, ChainLeast
  <2>2. u = Parent[x] \/ Work[u] < Work[Parent[x]]
    BY <1>2, <2>1
  <2>3. /\ Work[u] \in Nat /\ Work[Parent[x]] \in Nat /\ Work[x] \in Nat
        /\ Work[Parent[x]] < Work[x]
    BY <2>1, ChainAssumption
  <2> QED BY <2>2, <2>3
<1>3. S \in SUBSET Block
  OBVIOUS
<1>4. S = Block
  <2> HIDE DEF S
  <2> QED BY <1>1, <1>2, <1>3, TreeInduction
<1>5. a \in Block
  BY ChainLeast
<1> QED BY <1>4, <1>5

LEMMA AncestorNotBetter ==
    ASSUME NEW s \in [Block -> Int], NEW b \in Block, NEW a \in Chain[b]
    PROVE  a \in Block /\ ~Worse(s, b, a)
<1>1. CASE a = b
  BY <1>1, WorseIrreflexive
<1>2. CASE a # b
  <2>1. a \in Block /\ Work[a] < Work[b]
    BY <1>2, WorkOfAncestor
  <2>2. Work[a] \in Nat /\ Work[b] \in Nat
    BY <2>1, ChainAssumption
  <2> QED BY <2>1, <2>2 DEF Worse
<1> QED BY <1>1, <1>2

(* A finite set of blocks has a best one. *)
LEMMA BestExists ==
    ASSUME NEW s \in [Block -> Int], NEW T \in SUBSET Block, IsFiniteSet(T), T # {}
    PROVE  \E m \in T : \A c \in T \ {m} : Worse(s, c, m)
<1> DEFINE Wrong(n) == \E U \in SUBSET Block :
               /\ IsFiniteSet(U) /\ U # {} /\ Cardinality(U) = n
               /\ ~\E m \in U : \A c \in U \ {m} : Worse(s, c, m)
           N == {n \in Nat : Wrong(n)}
<1> SUFFICES ASSUME N # {} PROVE FALSE
  BY FS_CardinalityType
<1>1. PICK n \in N : \A k \in N : n <= k
  <2>1. N \in SUBSET Nat
    OBVIOUS
  <2> HIDE DEF N
  <2> QED BY <2>1, LeastNatural
<1>2. PICK U \in SUBSET Block : /\ IsFiniteSet(U) /\ U # {} /\ Cardinality(U) = n
                                /\ ~\E m \in U : \A c \in U \ {m} : Worse(s, c, m)
  BY <1>1
<1>3. PICK x \in U : TRUE
  BY <1>2
<1> DEFINE V == U \ {x}
<1>4. IsFiniteSet(V) /\ Cardinality(V) = n - 1 /\ n \in Nat
  BY <1>1, <1>2, FS_RemoveElement
<1>5. V # {}
  BY <1>2
<1>6. n - 1 \in Nat
  BY <1>4, FS_CardinalityType
<1>7. n - 1 \notin N
  BY <1>1, <1>4, <1>6
<1>8. PICK m \in V : \A c \in V \ {m} : Worse(s, c, m)
  BY <1>4, <1>5, <1>6, <1>7
<1>9. m # x /\ m \in Block /\ x \in Block
  OBVIOUS
<1>10. CASE Worse(s, x, m)
  BY <1>2, <1>8, <1>10
<1>11. CASE Worse(s, m, x)
  <2>1. \A c \in U \ {x} : Worse(s, c, x)
    BY <1>8, <1>9, <1>11, WorseTransitive
  <2> QED BY <1>2, <2>1
<1> QED BY <1>9, <1>10, <1>11, WorseTotal

-----------------------------------------------------------------------------
(* A turn of ActivateBestChain from tip a towards m. *)

(* The number of blocks it connects. *)
LEMMA ConnectsCount ==
    ASSUME NEW a \in Block, NEW m \in Block
    PROVE  LET path == Branch(m, Height[LastCommonAncestor(a, m)] + 1)
           IN  \E k \in 0..Len(path) :
                 /\ Connects[a][m] = SubSeq(path, 1, k)
                 /\ \A i \in 1..k : path[i] \notin BadScripts
<1> DEFINE path == Branch(m, Height[LastCommonAncestor(a, m)] + 1)
           T == {k \in 0..Len(path) :
                    /\ \A i \in 1..k : path[i] \notin BadScripts
                    /\ \A i \in 1..(k - 1) : Work[path[i]] <= Work[a]}
<1>1. LastCommonAncestor(a, m) \in Chain[m]
  BY CommonChain
<1>2. /\ Height[LastCommonAncestor(a, m)] \in Nat /\ Height[m] \in Nat
      /\ Height[LastCommonAncestor(a, m)] <= Height[m]
  BY <1>1, HeightOfAncestor
<1>3. Height[LastCommonAncestor(a, m)] + 1 \in 0..(Height[m] + 1)
  BY <1>2
<1>4. Len(path) \in Nat
  BY <1>3, <1>2, BranchRight
<1>5. T \in SUBSET (0..Len(path)) /\ T # {}
  <2>1. 0 \in T
    BY <1>4
  <2> QED BY <2>1
<1>6. Connects[a][m] = SubSeq(path, 1, Max(T))
  BY DEF Connects
<1>7. \E k \in T : \A l \in T : l <= k
  <2> HIDE DEF T, path
  <2> QED BY <1>4, <1>5, GreatestNatural
<1>8. \A k, l \in T : l <= k <=> k >= l
  BY <1>4
<1>9. Max(T) \in T
  <2> HIDE DEF T
  <2>1. \E k \in T : \A l \in T : k >= l
    BY <1>7, <1>8
  <2> QED BY <2>1 DEF Max
<1> QED BY <1>6, <1>9

(* It ends at an ancestor of m, and connects the blocks between the fork   *)
(* and there, none of which fails.                                         *)
LEMMA TurnConnects ==
    ASSUME NEW a \in Block, NEW m \in Block
    PROVE  LET f == LastCommonAncestor(a, m)
               tip == NewTip[a][m]
           IN  /\ f \in Chain[a] /\ f \in Chain[m] /\ f \in Chain[tip]
               /\ tip \in Block /\ tip \in Chain[m]
               /\ Range(Connects[a][m]) = Chain[tip] \ Chain[f]
               /\ Range(Connects[a][m]) \cap BadScripts = {}
<1> DEFINE f == LastCommonAncestor(a, m)
           path == Branch(m, Height[f] + 1)
           tip == NewTip[a][m]
<1>1. f \in Chain[a] /\ f \in Chain[m] /\ f \in Block
  BY CommonChain
<1>2. Height[f] \in Nat /\ Height[m] \in Nat /\ Height[f] <= Height[m]
  BY <1>1, HeightOfAncestor
<1> HIDE DEF f
<1>3. Height[f] + 1 \in 0..(Height[m] + 1) /\ Height[m] + 1 - (Height[f] + 1) \in Nat
  BY <1>2
<1>4. /\ path \in Seq(Block) /\ Len(path) = Height[m] - Height[f]
      /\ \A i \in 1..Len(path) : path[i] \in Chain[m] /\ Height[path[i]] = Height[f] + i
  BY <1>2, <1>3, BranchRight
<1>5. PICK k \in 0..Len(path) : /\ Connects[a][m] = SubSeq(path, 1, k)
                                /\ \A i \in 1..k : path[i] \notin BadScripts
  BY ConnectsCount DEF f
<1> HIDE DEF path
<1>6. /\ Len(Connects[a][m]) = k /\ DOMAIN Connects[a][m] = 1..k
      /\ \A i \in 1..k : Connects[a][m][i] = path[i]
  BY <1>4, <1>5
<1>7. tip = IF k = 0 THEN f ELSE path[k]
  BY <1>6 DEF NewTip, f
<1>8. k \in Nat /\ \A i \in 1..k : i \in 1..Len(path)
  BY <1>4
<1> HIDE DEF tip
<1>9. tip \in Chain[m] /\ Height[tip] = Height[f] + k
  <2>1. CASE k = 0
    BY <2>1, <1>1, <1>2, <1>7
  <2>2. CASE k # 0
    <3>1. k \in 1..k
      BY <1>8, <2>2
    <3> QED BY <3>1, <2>2, <1>4, <1>7, <1>8
  <2> QED BY <2>1, <2>2
<1>10. tip \in Block
  BY <1>9, ChainLeast
<1>11. f \in Chain[tip]
  BY <1>1, <1>2, <1>8, <1>9, AncestorByHeight
<1>12. ASSUME NEW i \in 1..k PROVE path[i] \in Chain[tip] \ Chain[f]
  <2>1. path[i] \in Chain[m] /\ Height[path[i]] = Height[f] + i
    BY <1>4, <1>8
  <2>2. Height[path[i]] <= Height[tip] /\ ~(Height[path[i]] <= Height[f])
    BY <2>1, <1>2, <1>8, <1>9
  <2> QED BY <1>1, <1>9, <2>1, <2>2, AncestorByHeight
<1>13. ASSUME NEW x \in Chain[tip] \ Chain[f] PROVE \E i \in 1..k : x = path[i]
  <2>1. x \in Chain[m] /\ x \in Block
    BY <1>9, <1>10, ChainOfAncestor
  <2>2. Height[x] \in Nat /\ Height[x] <= Height[tip] /\ ~(Height[x] <= Height[f])
    BY <2>1, <1>1, <1>9, AncestorByHeight, HeightStep
  <2>3. PICK i \in 1..k : Height[x] = Height[f] + i
    <3>1. Height[x] - Height[f] \in 1..k /\ Height[x] = Height[f] + (Height[x] - Height[f])
      BY <2>2, <1>2, <1>8, <1>9
    <3> QED BY <3>1
  <2>4. Height[path[i]] = Height[x] /\ path[i] \in Chain[m]
    BY <2>3, <1>4, <1>8
  <2> QED BY <2>1, <2>4, SameHeight
<1>14. Range(Connects[a][m]) = {path[i] : i \in 1..k}
  BY <1>6 DEF Range
<1>15. Range(Connects[a][m]) = Chain[tip] \ Chain[f]
  BY <1>12, <1>13, <1>14
<1>16. Range(Connects[a][m]) \cap BadScripts = {}
  BY <1>5, <1>14
<1> QED BY <1>1, <1>9, <1>10, <1>11, <1>15, <1>16 DEF f, tip

(* The block it fails on is the next one. *)
LEMMA TurnFails ==
    ASSUME NEW a \in Block, NEW m \in Block, NEW b \in Invalid[a][m]
    PROVE  b \in Block /\ b \in BadScripts /\ b \in Chain[m] /\ Parent[b] = NewTip[a][m]
<1>1. b \in BadScripts \cap Chain[m] /\ Parent[b] = NewTip[a][m]
  BY DEF Invalid
<1> QED BY <1>1, ChainLeast

-----------------------------------------------------------------------------
(* What holds of any calls in any order, also of calls that overlap.       *)
(* Chains of known and of linked blocks are complete, no thread works      *)
(* towards a block that is not linked, blocks that fail                    *)
(* ContextualCheckBlock are never stored and blocks that fail ConnectBlock *)
(* never active.                                                           *)
Basic ==
    /\ TypeOK
    /\ IsFiniteSet(known)
    /\ \A b \in known : Chain[b] \subseteq known
    /\ \A b \in linked : Chain[b] \subseteq linked
    /\ unlinked \cap linked = {}
    /\ \A t \in Thread : most[t] \in linked \cup {NoBlock}
    /\ data \cap BadContext = {}
    /\ Chain[active] \cap BadScripts = {}
    /\ \A b \in Block \ linked : seq[b] <= 0

LEMMA BasicInit == Init => Basic
<1> SUFFICES ASSUME Init PROVE Basic
  OBVIOUS
<1>1. Genesis \in Block /\ Chain[Genesis] = {Genesis} /\ NoBlock \notin Block
  BY TreeAssumption, ChainStep
<1>2. TypeOK
  <2>1. seq \in [Block -> Int] /\ nextSeq \in Nat
    BY DEF Init
  <2>2. reverseSeq \in MinSequenceId..(-1) /\ lastPrecious \in Nat
    BY ChainAssumption DEF Init
  <2>3. aborted \in BOOLEAN
    BY DEF Init
  <2>4. /\ pc \in [Thread -> {"idle", "called", "activating"}]
        /\ most \in [Thread -> Block \cup {NoBlock}]
    BY DEF Init
  <2> QED BY <1>1, <2>1, <2>2, <2>3, <2>4 DEF Init, TypeOK, failed
<1>3. IsFiniteSet(known)
  BY FS_Singleton DEF Init
<1>4. Chain[active] \cap BadScripts = {} /\ data \cap BadContext = {}
  BY <1>1, ChainAssumption DEF Init
<1> QED BY <1>1, <1>2, <1>3, <1>4 DEF Init, Basic

(* The sets of blocks, and Genesis in all of them. *)
LEMMA BasicSets ==
    ASSUME Basic
    PROVE  /\ known \subseteq Block /\ data \subseteq known /\ linked \subseteq data
           /\ candidates \subseteq linked /\ unlinked \subseteq data /\ failed \subseteq known
           /\ active \in linked /\ Genesis \in linked /\ Chain[active] \subseteq linked
           /\ seq \in [Block -> Int]
<1>1. /\ known \subseteq Block /\ data \subseteq known /\ linked \subseteq data
      /\ candidates \subseteq linked /\ unlinked \subseteq data /\ failed \subseteq known
      /\ active \in linked /\ Chain[active] \subseteq linked /\ seq \in [Block -> Int]
  BY DEF Basic, TypeOK
<1>2. Genesis \in Chain[active]
  BY <1>1, ChainLeast
<1> QED BY <1>1, <1>2

(* FindMostWorkChain: no usable candidate is better. *)
LEMMA MostWork ==
    ASSUME Basic
    PROVE  LET m == FindMostWorkChain
           IN  \/ m = NoBlock /\ \A c \in candidates : Path(c) \cap failed # {}
               \/ /\ m \in candidates /\ Path(m) \cap failed = {}
                  /\ \A c \in candidates : Path(c) \cap failed = {} => ~Worse(seq, m, c)
<1> DEFINE usable == {c \in candidates : Path(c) \cap failed = {}}
<1>1. /\ usable \in SUBSET known /\ usable \in SUBSET Block /\ seq \in [Block -> Int]
      /\ IsFiniteSet(known)
  BY BasicSets DEF Basic
<1>2. CASE usable = {}
  BY <1>2 DEF FindMostWorkChain
<1>3. CASE usable # {}
  <2> DEFINE m == Best(usable)
  <2>1. FindMostWorkChain = m
    BY <1>3 DEF FindMostWorkChain
  <2>2. IsFiniteSet(usable)
    <3> HIDE DEF usable
    <3> QED BY <1>1, FS_Subset
  <2>3. m \in usable /\ \A c \in usable \ {m} : Worse(seq, c, m)
    <3> HIDE DEF usable
    <3>1. \E x \in usable : \A c \in usable \ {x} : Worse(seq, c, x)
      BY <1>1, <1>3, <2>2, BestExists
    <3> QED BY <3>1 DEF Best
  <2>4. \A c \in usable : ~Worse(seq, m, c)
    <3> HIDE DEF usable, m
    <3> SUFFICES ASSUME NEW c \in usable, Worse(seq, m, c) PROVE FALSE
      OBVIOUS
    <3>1. m \in Block /\ c \in Block
      BY <1>1, <2>3
    <3>2. CASE c = m
      BY <3>1, <3>2, <1>1, WorseIrreflexive
    <3>3. CASE c # m
      <4>1. Worse(seq, c, m)
        BY <2>3, <3>3
      <4>2. Worse(seq, m, m)
        BY <3>1, <4>1, <1>1, WorseTransitive
      <4> QED BY <3>1, <4>2, <1>1, WorseIrreflexive
    <3> QED BY <3>2, <3>3
  <2> QED BY <2>1, <2>3, <2>4
<1> QED BY <1>2, <1>3

(* What it skips is not on the active chain, and has a failed ancestor     *)
(* that is not either.                                                     *)
LEMMA SkippedFailed ==
    ASSUME Basic, NEW x \in Skipped(FindMostWorkChain)
    PROVE  /\ x \in linked /\ x \in Block /\ x \notin Chain[active]
           /\ \E y \in failed : y \in Chain[x] /\ y \notin Chain[active]
<1> DEFINE m == FindMostWorkChain
<1>1. PICK c \in candidates : (m = NoBlock \/ Worse(seq, m, c)) /\ x \in Doomed(c)
  BY DEF Skipped
<1>2. c \in Block /\ c \in linked /\ NoBlock \notin candidates
  BY BasicSets, TreeAssumption
<1>3. x \in Chain[c] /\ x \notin Chain[active]
  BY <1>1 DEF Doomed, Path
<1>4. x \in Block /\ x \in linked
  BY <1>2, <1>3, ChainLeast DEF Basic
<1>5. Path(c) \cap failed # {}
  BY <1>1, <1>2, MostWork
<1>6. PICK y \in failed : y \in Chain[c] /\ y \notin Chain[active]
  BY <1>5 DEF Path
<1>7. Height[y] <= Height[x]
  BY <1>1, <1>6 DEF Doomed, Path
<1>8. y \in Chain[x]
  BY <1>2, <1>3, <1>6, <1>7, AncestorByHeight
<1> QED BY <1>3, <1>4, <1>6, <1>8

(* The queue of ReceivedBlockTransactions visits every block. *)
LEMMA VisitsAll ==
    ASSUME NEW S, IsFiniteSet(S), NEW q \in Visits(S), NEW x \in S
    PROVE  (CHOOSE i \in DOMAIN q : q[i] = x) \in 1..Cardinality(S)
<1> DEFINE n == Cardinality(S)
<1>1. n \in Nat
  BY FS_CardinalityType
<1>2. q \in [1..n -> S] /\ \A i, j \in 1..n : i < j => q[i] # q[j]
  BY DEF Visits
<1> HIDE DEF n
<1>3. \A i, j \in 1..n : q[i] = q[j] => i = j
  <2> SUFFICES ASSUME NEW i \in 1..n, NEW j \in 1..n, q[i] = q[j] PROVE i = j
    OBVIOUS
  <2>1. ~(i < j) /\ ~(j < i)
    BY <1>2
  <2> QED BY <2>1, <1>1
<1>4. q \in Injection(1..n, S)
  BY <1>2, <1>3 DEF Injection, IsInjective
<1>5. Cardinality(1..n) = n
  <2>1. 1 \in Int /\ n \in Int
    BY <1>1
  <2>2. Cardinality(1..n) = IF 1 > n THEN 0 ELSE n - 1 + 1
    BY <2>1, FS_Interval
  <2> QED BY <1>1, <2>2
<1>6. q \in Surjection(1..n, S)
  BY <1>4, <1>5, FS_Injection DEF n
<1>7. \E i \in 1..n : q[i] = x
  BY <1>6 DEF Surjection
<1> QED BY <1>2, <1>7 DEF n

(* ReceivedBlockTransactions links blocks, each with all its ancestors,    *)
(* numbers them, and makes candidates of those as good as the tip.         *)
LEMMA Received ==
    ASSUME Basic, NEW b \in Block, b \notin data, ReceivedBlockTransactions(b)
    PROVE  /\ data' = data \cup {b} /\ linked \subseteq linked' /\ linked' \subseteq data'
           /\ unlinked' \subseteq data' /\ unlinked' \cap linked' = {}
           /\ \A x \in linked' : Chain[x] \subseteq linked'
           /\ seq' \in [Block -> Int] /\ nextSeq' \in Nat
           /\ \A x \in Block : x \notin linked' \/ x \in linked => seq'[x] = seq[x]
           /\ \A x \in linked' \ linked : seq'[x] >= 0
           /\ candidates' = candidates \cup {x \in linked' \ linked : ~Worse(seq', x, active)}
<1>0. /\ known \subseteq Block /\ data \subseteq known /\ linked \subseteq data
      /\ unlinked \subseteq data /\ Genesis \in linked /\ seq \in [Block -> Int]
      /\ nextSeq \in Nat /\ unlinked \cap linked = {} /\ IsFiniteSet(known)
      /\ \A x \in linked : Chain[x] \subseteq linked
  BY BasicSets DEF Basic, TypeOK
<1>1. CASE Parent[b] \in linked
  <2> DEFINE S == Unblocked(b)
  <2>1. /\ data' = data \cup {b} /\ linked' = linked \cup S /\ unlinked' = unlinked \ S
        /\ nextSeq' = nextSeq + Cardinality(S)
        /\ candidates' = candidates \cup {x \in S : ~Worse(seq', x, active)}
    BY <1>1 DEF ReceivedBlockTransactions
  <2>2. PICK q \in Visits(S) :
            seq' = [x \in Block |-> IF x \in S
                       THEN nextSeq - 1 + (CHOOSE i \in DOMAIN q : q[i] = x)
                       ELSE seq[x]]
    BY <1>1 DEF ReceivedBlockTransactions
  <2>3. S \subseteq unlinked \cup {b} /\ b # Genesis
    BY <1>0 DEF Unblocked
  <2>4. S \in SUBSET (known \cup {b}) /\ IsFiniteSet(known \cup {b})
    BY <1>0, <2>3, FS_AddElement
  <2>5. IsFiniteSet(S) /\ Cardinality(S) \in Nat
    <3> HIDE DEF S
    <3> QED BY <2>4, FS_Subset, FS_CardinalityType
  <2>6. S \cap linked = {} /\ S \subseteq Block
    BY <1>0, <2>3
  <2>7. ASSUME NEW x \in S
        PROVE  /\ nextSeq - 1 + (CHOOSE i \in DOMAIN q : q[i] = x) \in Int
               /\ nextSeq - 1 + (CHOOSE i \in DOMAIN q : q[i] = x) >= 0
    <3> DEFINE i == CHOOSE i \in DOMAIN q : q[i] = x
    <3>1. i \in 1..Cardinality(S)
      <4> HIDE DEF S
      <4> QED BY <2>2, <2>5, VisitsAll
    <3> HIDE DEF i
    <3>2. i \in Nat /\ i >= 1
      BY <3>1, <2>5
    <3> QED BY <3>2, <1>0 DEF i
  <2>8. ASSUME NEW x \in S, NEW y \in Chain[x] PROVE y \in linked \cup S
    <3>1. x \in Block /\ b \in Chain[x] /\ Chain[x] \ Chain[b] \subseteq unlinked
      BY <2>6 DEF Unblocked
    <3>2. y \in Block
      BY <3>1, ChainLeast
    <3>3. CASE y \in Chain[b]
      <4>1. y = b \/ y \in Chain[Parent[b]]
        BY <3>3, <2>3, ChainStep
      <4>2. b \in S
        BY ChainLeast DEF Unblocked
      <4> QED BY <4>1, <4>2, <1>0, <1>1
    <3>4. CASE y \notin Chain[b]
      <4>1. b \in Chain[y]
        BY <3>1, <3>4, ChainLinear
      <4>2. y \in unlinked /\ Chain[y] \subseteq Chain[x]
        BY <3>1, <3>4, ChainOfAncestor
      <4> QED BY <3>1, <4>1, <4>2 DEF Unblocked
    <3> QED BY <3>3, <3>4
  <2>9. linked' \ linked = S
    BY <2>1, <2>6
  <2> HIDE DEF S
  <2>10. seq' \in [Block -> Int] /\ nextSeq' \in Nat
    BY <1>0, <2>1, <2>2, <2>5, <2>7
  <2>11. \A x \in Block : x \notin linked' \/ x \in linked => seq'[x] = seq[x]
    BY <2>1, <2>2, <2>6
  <2>12. \A x \in linked' \ linked : seq'[x] >= 0
    BY <2>2, <2>6, <2>7, <2>9
  <2>13. \A x \in linked' : Chain[x] \subseteq linked'
    BY <1>0, <2>1, <2>8
  <2> QED BY <1>0, <2>1, <2>3, <2>6, <2>9, <2>10, <2>11, <2>12, <2>13
<1>2. CASE Parent[b] \notin linked
  <2>1. /\ data' = data \cup {b} /\ linked' = linked /\ seq' = seq /\ nextSeq' = nextSeq
        /\ candidates' = candidates /\ unlinked' \subseteq unlinked \cup {b}
    BY <1>2 DEF ReceivedBlockTransactions, sequence
  <2> QED BY <2>1, <1>0
<1> QED BY <1>1, <1>2

(* A turn works towards a linked block, and skips linked blocks. *)
LEMMA Turn ==
    ASSUME Basic, NEW t \in Thread, ActivateBestChain(t)
    PROVE  \E m \in Block \cup {NoBlock}, skip \in SUBSET Block :
              /\ m \in linked \cup {NoBlock} /\ skip \subseteq linked \ Chain[active]
              /\ most[t] = NoBlock => m = FindMostWorkChain /\ skip = Skipped(FindMostWorkChain)
              /\ most[t] # NoBlock => m = most[t] /\ skip = {}
              /\ \/ m \in {NoBlock, active} /\ ActivateNothing(t, skip)
                 \/ m \in linked /\ m # active /\ ActivateBestChainStep(t, m, skip)
<1>1. PICK m \in Block \cup {NoBlock} :
          /\ m = IF most[t] = NoBlock THEN FindMostWorkChain ELSE most[t]
          /\ LET skip == IF most[t] = NoBlock THEN Skipped(m) ELSE {}
             IN  IF m \in {NoBlock, active} THEN ActivateNothing(t, skip)
                 ELSE ActivateBestChainStep(t, m, skip)
  BY DEF ActivateBestChain
<1>2. FindMostWorkChain \in linked \cup {NoBlock}
  BY MostWork, BasicSets
<1>3. most[t] \in linked \cup {NoBlock}
  BY DEF Basic
<1>4. \A x \in Skipped(FindMostWorkChain) : x \in linked /\ x \in Block /\ x \notin Chain[active]
  BY SkippedFailed
<1>5. CASE most[t] = NoBlock
  <2>1. PICK skip \in SUBSET Block : skip = Skipped(FindMostWorkChain)
    BY <1>4
  <2>2. IF m \in {NoBlock, active} THEN ActivateNothing(t, skip)
        ELSE ActivateBestChainStep(t, m, skip)
    BY <1>1, <1>5, <2>1
  <2> QED BY <1>1, <1>2, <1>4, <1>5, <2>1, <2>2
<1>6. CASE most[t] # NoBlock
  <2>1. PICK skip \in SUBSET Block : skip = {}
    OBVIOUS
  <2>2. IF m \in {NoBlock, active} THEN ActivateNothing(t, skip)
        ELSE ActivateBestChainStep(t, m, skip)
    BY <1>1, <1>6, <2>1
  <2> QED BY <1>1, <1>3, <1>6, <2>1, <2>2
<1> QED BY <1>5, <1>6

LEMMA BasicTurn ==
    ASSUME Basic, NEW t \in Thread, ActivateBestChain(t)
    PROVE  Basic'
<1>1. PICK m \in Block \cup {NoBlock}, skip \in SUBSET Block :
          /\ m \in linked \cup {NoBlock} /\ skip \subseteq linked \ Chain[active]
          /\ \/ m \in {NoBlock, active} /\ ActivateNothing(t, skip)
             \/ m \in linked /\ m # active /\ ActivateBestChainStep(t, m, skip)
  BY Turn
<1>2. /\ known \subseteq Block /\ data \subseteq known /\ linked \subseteq data
      /\ candidates \subseteq linked /\ failed \subseteq known
      /\ active \in linked /\ active \in Block /\ Chain[active] \subseteq linked
  BY BasicSets
<1>3. CASE ActivateNothing(t, skip)
  <2>1. /\ UNCHANGED <<known, data, linked, scripts, failedValid, failedBlocks, seq, nextSeq,
                        reverseSeq, lastPrecious, unlinked, active, aborted>>
        /\ failedChild' = failedChild \cup (skip \ failed) /\ candidates' = candidates \ skip
        /\ pc' = [pc EXCEPT ![t] = "idle"] /\ most' = [most EXCEPT ![t] = NoBlock]
    BY <1>3 DEF ActivateNothing, index, sequence, precious
  <2>2. failed' \subseteq known
    BY <1>1, <1>2, <2>1 DEF failed
  <2>3. TypeOK'
    BY <2>1, <2>2 DEF Basic, TypeOK
  <2>4. \A u \in Thread : most'[u] \in linked \cup {NoBlock}
    BY <2>1 DEF Basic, TypeOK
  <2> QED BY <2>1, <2>3, <2>4 DEF Basic
<1>4. CASE m \in linked /\ ActivateBestChainStep(t, m, skip)
  <2> DEFINE tip == NewTip[active][m]
             connected == Range(Connects[active][m])
             left == IF connected = {} THEN candidates \ skip
                     ELSE PruneBlockIndexCandidates(seq, candidates \ skip, tip)
             cached == CachedMostWork(m, Invalid[active][m] # {})
  <2>1. /\ active' = tip /\ scripts' = scripts \cup (connected \ failed)
        /\ failedChild' = failedChild \cup (skip \ failed)
        /\ failedValid' = failedValid \cup Invalid[active][m]
        /\ failedBlocks' = failedBlocks \cup Invalid[active][m]
        /\ candidates' = left \ Invalid[active][m]
        /\ aborted' = (connected # {} /\ left = {})
        /\ most' = [most EXCEPT ![t] = IF Finished(tip, cached) THEN NoBlock ELSE cached]
        /\ pc' = [pc EXCEPT ![t] = IF Finished(tip, cached) THEN "idle" ELSE "activating"]
        /\ UNCHANGED <<known, data, linked, seq, nextSeq, reverseSeq, lastPrecious, unlinked>>
    BY <1>4 DEF ActivateBestChainStep, InvalidBlockFound, sequence, precious
  <2>2. m \in Block /\ Chain[m] \subseteq linked
    BY <1>2, <1>4 DEF Basic
  <2>3. /\ LastCommonAncestor(active, m) \in Chain[active]
        /\ tip \in Block /\ tip \in Chain[m] /\ connected = Chain[tip] \ Chain[LastCommonAncestor(active, m)]
        /\ connected \cap BadScripts = {}
    BY <1>2, <2>2, TurnConnects
  <2>4. Invalid[active][m] \subseteq Chain[m]
    BY <1>2, <2>2, TurnFails
  <2>5. cached \in {m, NoBlock} /\ left \subseteq candidates
    BY DEF CachedMostWork, PruneBlockIndexCandidates
  <2>6. tip \in linked /\ connected \subseteq linked
    BY <2>2, <2>3, ChainOfAncestor
  <2>7. Chain[tip] \cap BadScripts = {}
    <3>1. Chain[LastCommonAncestor(active, m)] \subseteq Chain[active]
      BY <1>2, <2>3, ChainOfAncestor
    <3> QED BY <2>3, <3>1 DEF Basic
  <2> HIDE DEF tip, connected, left, cached
  <2>8. failed' \subseteq known /\ failedBlocks' \subseteq known
    BY <1>1, <1>2, <2>1, <2>2, <2>4 DEF failed, Basic, TypeOK
  <2>9. aborted' \in BOOLEAN
    BY <2>1
  <2>10. /\ pc' \in [Thread -> {"idle", "called", "activating"}]
         /\ most' \in [Thread -> Block \cup {NoBlock}]
         /\ \A u \in Thread : most'[u] \in linked \cup {NoBlock}
    BY <1>4, <2>1, <2>2, <2>5 DEF Basic, TypeOK
  <2>11. candidates' \subseteq linked /\ scripts' \subseteq linked
    BY <1>2, <2>1, <2>5, <2>6 DEF Basic, TypeOK
  <2>12. TypeOK'
    BY <2>1, <2>6, <2>8, <2>9, <2>10, <2>11 DEF Basic, TypeOK
  <2> QED BY <2>1, <2>7, <2>10, <2>12 DEF Basic
<1> QED BY <1>1, <1>3, <1>4

(* The chain of a header that is accepted is known. *)
LEMMA KnownChain ==
    ASSUME Basic, NEW b \in Block, b \in known \/ Parent[b] \in known
    PROVE  \A x \in known \cup {b} : Chain[x] \subseteq known \cup {b}
<1>1. Genesis \in known /\ \A x \in known : Chain[x] \subseteq known
  BY BasicSets DEF Basic
<1>2. CASE b \in known
  BY <1>1, <1>2
<1>3. CASE b \notin known
  <2>1. Chain[b] = {b} \cup Chain[Parent[b]]
    BY <1>1, <1>3, ChainStep
  <2> QED BY <1>1, <1>3, <2>1
<1> QED BY <1>2, <1>3

LEMMA BasicAccept ==
    ASSUME Basic, NEW t \in Thread, NEW b \in Block, NEW fRequested \in BOOLEAN,
           AcceptBlock(t, b, fRequested)
    PROVE  Basic'
<1>1. /\ b \notin data /\ (b \in known \/ Parent[b] \in known)
      /\ known' = known \cup {b}
      /\ UNCHANGED <<scripts, failedChild, failedBlocks, reverseSeq, lastPrecious, active, aborted>>
  BY DEF AcceptBlock, HeaderAcceptable, precious
<1>2. IsFiniteSet(known')
  BY <1>1, FS_AddElement DEF Basic
<1>3. \A x \in known' : Chain[x] \subseteq known'
  BY <1>1, KnownChain
<1>4. /\ known \subseteq Block /\ data \subseteq known /\ linked \subseteq data
      /\ candidates \subseteq linked /\ failed \subseteq known /\ active \in linked
  BY BasicSets
<1>5. CASE b \in BadContext
  <2>1. /\ failedValid' = failedValid \cup {b}
        /\ UNCHANGED <<data, linked, seq, nextSeq, candidates, unlinked, pc, most>>
    BY <1>5 DEF AcceptBlock, sequence, threads
  <2>2. failed' \subseteq known'
    BY <1>1, <1>4, <2>1 DEF failed
  <2>3. TypeOK'
    BY <1>1, <2>1, <2>2 DEF Basic, TypeOK
  <2> QED BY <1>1, <1>2, <1>3, <2>1, <2>3 DEF Basic
<1>6. CASE b \notin BadContext
  <2>1. /\ ReceivedBlockTransactions(b) /\ failedValid' = failedValid
        /\ pc' = [pc EXCEPT ![t] = "called"] /\ most' = most
    BY <1>6 DEF AcceptBlock, Calls
  <2>2. /\ data' = data \cup {b} /\ linked \subseteq linked' /\ linked' \subseteq data'
        /\ unlinked' \subseteq data' /\ unlinked' \cap linked' = {}
        /\ \A x \in linked' : Chain[x] \subseteq linked'
        /\ seq' \in [Block -> Int] /\ nextSeq' \in Nat
        /\ \A x \in Block : x \notin linked' \/ x \in linked => seq'[x] = seq[x]
        /\ candidates' = candidates \cup {x \in linked' \ linked : ~Worse(seq', x, active)}
    BY <1>1, <2>1, Received
  <2>3. failed' = failed
    BY <1>1, <2>1 DEF failed
  <2>4. candidates' \subseteq linked'
    BY <1>4, <2>2
  <2>5. TypeOK'
    BY <1>1, <1>4, <2>1, <2>2, <2>3, <2>4 DEF Basic, TypeOK
  <2>6. \A x \in Block \ linked' : seq'[x] <= 0
    BY <2>2 DEF Basic
  <2> QED BY <1>1, <1>2, <1>3, <1>6, <2>1, <2>2, <2>5, <2>6 DEF Basic
<1> QED BY <1>5, <1>6

LEMMA BasicHeaders ==
    ASSUME Basic, NEW b \in Block, AcceptBlockHeader(b) \/ RefuseBlockHeader(b)
    PROVE  Basic'
<1>1. CASE AcceptBlockHeader(b)
  <2>1. /\ known' = known \cup {b} /\ Parent[b] \in known
        /\ UNCHANGED <<data, linked, scripts, failedValid, failedChild, failedBlocks, seq, nextSeq,
                       reverseSeq, lastPrecious, candidates, unlinked, active, pc, most, aborted>>
    BY <1>1 DEF AcceptBlockHeader, HeaderAcceptable, failures, sequence, precious, threads
  <2>2. IsFiniteSet(known')
    BY <2>1, FS_AddElement DEF Basic
  <2>3. \A x \in known' : Chain[x] \subseteq known'
    BY <2>1, KnownChain
  <2>4. TypeOK'
    BY <2>1 DEF Basic, TypeOK, failed
  <2> QED BY <2>1, <2>2, <2>3, <2>4 DEF Basic
<1>2. CASE RefuseBlockHeader(b)
  <2>1. /\ UNCHANGED <<known, data, linked, scripts, failedValid, failedBlocks, seq, nextSeq,
                        reverseSeq, lastPrecious, candidates, unlinked, active, pc, most>>
        /\ Parent[b] \in known
    BY <1>2 DEF RefuseBlockHeader, index, sequence, precious, threads
  <2>2. PICK f \in KnownFailures(Parent[b]) :
           IF f \in failedValid
           THEN /\ failedChild' = failedChild \cup (Chain[Parent[b]] \ Chain[f])
                /\ UNCHANGED aborted
           ELSE aborted' = TRUE /\ UNCHANGED failedChild
    BY <1>2 DEF RefuseBlockHeader
  <2>3. failedChild' \subseteq failedChild \cup Chain[Parent[b]]
    BY <2>2
  <2>4. aborted' \in BOOLEAN
    BY <2>2 DEF Basic, TypeOK
  <2>5. failed' \subseteq known
    BY <2>1, <2>3 DEF failed, Basic, TypeOK
  <2>6. TypeOK'
    BY <2>1, <2>4, <2>5 DEF Basic, TypeOK
  <2> QED BY <2>1, <2>6 DEF Basic
<1> QED BY <1>1, <1>2

LEMMA BasicPrecious ==
    ASSUME Basic, NEW t \in Thread, NEW b \in Precious, PreciousBlock(t, b)
    PROVE  Basic'
<1> DEFINE id == IF Work[active] > lastPrecious THEN -1 ELSE reverseSeq
           s == [seq EXCEPT ![b] = id]
           cands == PruneBlockIndexCandidates(s, candidates \cup {b}, active)
<1>1. /\ UNCHANGED <<known, data, linked, scripts, failedValid, failedChild, failedBlocks, nextSeq,
                     unlinked, active, most>>
      /\ seq' = s /\ reverseSeq' = (IF id > MinSequenceId THEN id - 1 ELSE id)
      /\ lastPrecious' = Work[active] /\ pc' = [pc EXCEPT ![t] = "called"]
      /\ IF Eligible(b, failed)
         THEN candidates' = cands /\ aborted' = (cands = {})
         ELSE candidates' = candidates \ {b} /\ aborted' = aborted
  BY DEF PreciousBlock, Calls, index, failures
<1>2. active \in Block /\ b \in Block /\ candidates \subseteq linked
  BY BasicSets, ChainAssumption
<1>3. id \in MinSequenceId..(-1) /\ id \in Int /\ MinSequenceId \in Int
  BY ChainAssumption DEF Basic, TypeOK
<1>4. cands \subseteq candidates \cup {b}
  BY DEF PruneBlockIndexCandidates
<1> HIDE DEF id, cands
<1>5. seq' \in [Block -> Int] /\ \A x \in Block \ linked : seq'[x] <= 0
  <2>1. /\ seq \in [Block -> Int] /\ \A x \in Block \ linked : seq[x] <= 0
        /\ id \in Int /\ id <= 0
    BY <1>3 DEF Basic, TypeOK
  <2> QED BY <1>1, <2>1
<1>6. reverseSeq' \in MinSequenceId..(-1) /\ lastPrecious' \in Nat
  BY <1>1, <1>2, <1>3, ChainAssumption
<1>7. aborted' \in BOOLEAN
  BY <1>1 DEF Basic, TypeOK
<1>8. candidates' \subseteq linked
  BY <1>1, <1>2, <1>4 DEF Eligible
<1>9. pc' \in [Thread -> {"idle", "called", "activating"}]
  BY <1>1 DEF Basic, TypeOK
<1>10. TypeOK'
  BY <1>1, <1>5, <1>6, <1>7, <1>8, <1>9 DEF Basic, TypeOK, failed
<1> QED BY <1>1, <1>5, <1>10 DEF Basic

LEMMA BasicInvalidate ==
    ASSUME Basic, NEW t \in Thread, NEW b \in Manual, InvalidateBlock(t, b)
    PROVE  Basic'
<1> DEFINE undone == IF b \in Chain[active] THEN Chain[active] \ Chain[b] ELSE {}
           tip == IF b \in Chain[active] THEN Parent[b] ELSE active
           bad == failed \cup undone \cup {b}
<1>1. /\ UNCHANGED <<known, data, linked, scripts, seq, nextSeq, reverseSeq, lastPrecious, unlinked,
                     aborted, most>>
      /\ b \in known
      /\ active' = tip /\ failedChild' = failedChild \cup undone
      /\ failedValid' = failedValid \cup {b} /\ failedBlocks' = failedBlocks \cup {b}
      /\ candidates' = (candidates \ (undone \cup {b}))
            \cup {x \in known : Eligible(x, bad) /\ ~Worse(seq, x, tip)}
      /\ pc' = [pc EXCEPT ![t] = "called"]
  BY DEF InvalidateBlock, Calls, index, sequence, precious
<1>2. /\ candidates \subseteq linked /\ active \in linked /\ active \in Block /\ linked \subseteq known
      /\ Chain[active] \subseteq linked /\ failed \subseteq known /\ b \in Block \ {Genesis}
  BY BasicSets, ChainAssumption
<1>3. tip \in Chain[active]
  <2>1. CASE b \in Chain[active]
    BY <2>1, <1>2, ChainLeast DEF Closed
  <2>2. CASE b \notin Chain[active]
    BY <2>2, <1>2, ChainLeast
  <2> QED BY <2>1, <2>2
<1>4. Chain[tip] \subseteq Chain[active]
  BY <1>2, <1>3, ChainOfAncestor
<1>5. undone \subseteq known
  BY <1>2
<1>6. candidates' \subseteq linked
  BY <1>1, <1>2 DEF Eligible
<1> HIDE DEF undone, tip, bad
<1>7. failed' \subseteq known /\ failedBlocks' \subseteq known
  BY <1>1, <1>2, <1>5 DEF failed, Basic, TypeOK
<1>8. pc' \in [Thread -> {"idle", "called", "activating"}] /\ active' \in linked
  BY <1>1, <1>2, <1>3 DEF Basic, TypeOK
<1>9. TypeOK'
  BY <1>1, <1>6, <1>7, <1>8 DEF Basic, TypeOK
<1> QED BY <1>1, <1>4, <1>9 DEF Basic

LEMMA BasicReset ==
    ASSUME Basic, NEW t \in Thread, NEW b \in Manual, ResetBlockFailureFlags(t, b)
    PROVE  Basic'
<1>1. /\ UNCHANGED <<known, data, linked, scripts, seq, nextSeq, reverseSeq, lastPrecious, unlinked,
                     active, aborted, most>>
      /\ failedValid' \subseteq failedValid /\ failedChild' \subseteq failedChild
      /\ failedBlocks' \subseteq failedBlocks
      /\ candidates' = candidates \cup
            {x \in Reconsidered(b) : Eligible(x, {}) /\ Worse(seq, active, x)}
      /\ pc' = [pc EXCEPT ![t] = "called"]
  BY DEF ResetBlockFailureFlags, Calls, index, sequence, precious
<1>2. candidates' \subseteq linked
  BY <1>1, BasicSets DEF Eligible
<1>3. pc' \in [Thread -> {"idle", "called", "activating"}]
  BY <1>1 DEF Basic, TypeOK
<1>4. failed' \subseteq known /\ failedBlocks' \subseteq known
  BY <1>1 DEF failed, Basic, TypeOK
<1>5. TypeOK'
  BY <1>1, <1>2, <1>3, <1>4 DEF Basic, TypeOK
<1> QED BY <1>1, <1>5 DEF Basic

LEMMA BasicStep == Basic /\ [Next]_vars => Basic'
<1> SUFFICES ASSUME Basic, [Next]_vars PROVE Basic'
  OBVIOUS
<1>1. CASE \E b \in Block : AcceptBlockHeader(b) \/ RefuseBlockHeader(b)
  BY <1>1, BasicHeaders
<1>2. ASSUME NEW t \in Thread, CallActivateBestChain(t) PROVE Basic'
  <2>1. /\ UNCHANGED <<known, data, linked, scripts, failedValid, failedChild, failedBlocks, seq,
                       nextSeq, reverseSeq, lastPrecious, candidates, unlinked, active, aborted, most>>
        /\ pc' = [pc EXCEPT ![t] = "called"]
    BY <1>2 DEF CallActivateBestChain, Calls, index, failures, sequence, precious
  <2>2. TypeOK'
    BY <2>1 DEF Basic, TypeOK, failed
  <2> QED BY <2>1, <2>2 DEF Basic
<1>3. CASE UNCHANGED vars
  <2>1. TypeOK'
    BY <1>3 DEF Basic, TypeOK, failed, vars, index, failures, sequence, precious, threads
  <2> QED BY <1>3, <2>1 DEF Basic, vars, index, failures, sequence, precious, threads
<1> QED BY <1>1, <1>2, <1>3, BasicTurn, BasicAccept, BasicPrecious, BasicInvalidate, BasicReset
        DEF Next

LEMMA BasicHolds == Spec => []Basic
BY BasicInit, BasicStep, PTL DEF Spec

(* Every variable keeps its type, whatever overlaps: candidates and the    *)
(* tip are linked blocks, and the reverse sequence ids stay in their       *)
(* range.                                                                  *)
THEOREM TypeCorrect == Spec => []TypeOK
<1>1. Basic => TypeOK
  BY DEF Basic
<1> QED BY <1>1, BasicHolds, PTL

(* No block that fails ContextualCheckBlock or ConnectBlock is ever part   *)
(* of the active chain, whatever threads, invalidateblock and              *)
(* reconsiderblock do at the same time.                                    *)
ValidationNotBypassed == Chain[active] \cap (BadScripts \cup BadContext) = {}

THEOREM NoInvalidBlockActive == Spec => []ValidationNotBypassed
<1>1. Basic => ValidationNotBypassed
  BY BasicSets DEF Basic, ValidationNotBypassed
<1> QED BY <1>1, BasicHolds, PTL

-----------------------------------------------------------------------------
(* What holds as long as reconsiderblock only undoes an invalidateblock,   *)
(* also of calls that overlap: g_failed_blocks are marked, every mark has  *)
(* its reason, and a block that is neither linked nor waiting for its      *)
(* ancestors has a failed one.                                             *)
Marks ==
    /\ failedBlocks \subseteq failedValid
    /\ \A b \in failed : Chain[b] \cap failedValid # {}
    /\ \A b \in known \ linked : Chain[b] \subseteq data => Chain[b] \cap failedValid # {}
    /\ \A b \in data \ linked : Chain[b] \cap failedValid = {} => b \in unlinked

LEMMA MarksInit == Init => Marks
<1> SUFFICES ASSUME Init PROVE Marks
  OBVIOUS
<1> QED BY ChainStep DEF Init, Marks, failed

LEMMA MarksAccept ==
    ASSUME Basic, Marks, NEW t \in Thread, NEW b \in Block, NEW fRequested \in BOOLEAN,
           AcceptBlock(t, b, fRequested)
    PROVE  Marks'
<1>1. b \notin data /\ known' = known \cup {b} /\ failedChild' = failedChild
      /\ failedBlocks' = failedBlocks
  BY DEF AcceptBlock
<1>2. /\ known \subseteq Block /\ data \subseteq known /\ linked \subseteq data
      /\ unlinked \subseteq data /\ Genesis \in linked
      /\ \A x \in linked : Chain[x] \subseteq linked
  BY BasicSets DEF Basic
<1>3. CASE b \in BadContext
  <2>1. /\ failedValid' = failedValid \cup {b}
        /\ UNCHANGED <<data, linked, unlinked>>
    BY <1>3 DEF AcceptBlock
  <2>2. b \in Chain[b]
    BY ChainLeast
  <2> QED BY <1>1, <2>1, <2>2 DEF Marks, failed
<1>4. CASE b \notin BadContext
  <2>1. ReceivedBlockTransactions(b) /\ failedValid' = failedValid
    BY <1>4 DEF AcceptBlock
  <2>2. data' = data \cup {b} /\ linked \subseteq linked'
    BY <1>1, <2>1, Received
  <2>3. Parent[b] \in linked =>
          linked' = linked \cup Unblocked(b) /\ unlinked' = unlinked \ Unblocked(b)
    BY <2>1 DEF ReceivedBlockTransactions
  <2>4. Parent[b] \notin linked => unlinked' = unlinked \cup ({b} \ {x \in Block : Parent[x] \in failed})
    BY <2>1 DEF ReceivedBlockTransactions
  <2>5. b \in Unblocked(b)
    BY ChainLeast DEF Unblocked
  <2>6. b # Genesis /\ Chain[b] = {b} \cup Chain[Parent[b]]
    BY <1>1, <1>2, ChainStep
  <2>7. ASSUME NEW x \in known', x \notin linked', Chain[x] \subseteq data',
               Chain[x] \cap failedValid = {}
        PROVE  FALSE
    <3>1. x \in Block /\ x \notin linked /\ x \in Chain[x]
      BY <1>1, <1>2, <2>2, <2>7, ChainLeast
    <3>2. CASE b \notin Chain[x]
      BY <3>1, <3>2, <1>1, <2>2, <2>7 DEF Marks
    <3>3. CASE b \in Chain[x]
      <4>1. Chain[b] \subseteq Chain[x]
        BY <3>1, <3>3, ChainOfAncestor
      <4>2. Parent[b] \in linked
        <5>1. Parent[b] \in Block /\ b \notin Chain[Parent[b]]
          BY <2>6, ParentBlock, NotOwnAncestor
        <5>2. Chain[Parent[b]] \subseteq data /\ Chain[Parent[b]] \cap failedValid = {}
          BY <5>1, <4>1, <2>2, <2>6, <2>7
        <5>3. Parent[b] \in known
          BY <5>1, <5>2, <1>2, ChainLeast
        <5> QED BY <5>2, <5>3 DEF Marks
      <4>3. ASSUME NEW y \in Chain[x] \ Chain[b] PROVE y \in unlinked
        <5>1. y \in Block /\ b \in Chain[y] /\ Chain[y] \subseteq Chain[x] /\ y \in data
          BY <3>1, <3>3, <2>2, <2>7, <2>6, ChainLinear, ChainOfAncestor
        <5>2. y \notin linked
          BY <5>1, <1>1, <1>2
        <5>3. Chain[y] \cap failedValid = {}
          BY <5>1, <2>7
        <5> QED BY <5>1, <5>2, <5>3 DEF Marks
      <4>4. x = b \/ x \in unlinked
        <5>1. CASE x \in Chain[b]
          BY <5>1, <3>1, <3>3, ChainAntisymmetric
        <5>2. CASE x \notin Chain[b]
          BY <5>2, <3>1, <4>3
        <5> QED BY <5>1, <5>2
      <4>5. x \in Unblocked(b)
        BY <3>3, <4>3, <4>4 DEF Unblocked
      <4> QED BY <4>2, <4>5, <2>3, <2>7
    <3> QED BY <3>2, <3>3
  <2>8. ASSUME NEW x \in data', x \notin linked', Chain[x] \cap failedValid = {}
        PROVE  x \in unlinked'
    <3>1. CASE x = b
      <4>1. Parent[b] \notin linked
        BY <3>1, <2>3, <2>5, <2>8
      <4>2. Parent[b] \notin failed
        BY <3>1, <2>6, <2>8 DEF Marks
      <4> QED BY <3>1, <4>1, <4>2, <2>4
    <3>2. CASE x # b
      <4>1. x \in data /\ x \notin linked
        BY <3>2, <2>2, <2>8
      <4>2. x \in unlinked
        BY <4>1, <2>8 DEF Marks
      <4> QED BY <4>2, <2>3, <2>4, <2>8
    <3> QED BY <3>1, <3>2
  <2>9. failed' = failed
    BY <1>1, <2>1 DEF failed
  <2> QED BY <1>1, <2>1, <2>7, <2>8, <2>9 DEF Marks
<1> QED BY <1>3, <1>4

(* A header that is refused for an ancestor finds it marked: the assert of *)
(* AcceptBlockHeader holds.                                                *)
LEMMA RefuseMarks ==
    ASSUME Basic, Marks, NEW b \in Block, RefuseBlockHeader(b)
    PROVE  /\ aborted' = aborted
           /\ \E f \in failedValid : f \in Block /\ \A x \in failedChild' \ failedChild : f \in Chain[x]
<1>1. Parent[b] \in known /\ Parent[b] \in Block
  BY BasicSets DEF RefuseBlockHeader
<1>2. PICK f \in KnownFailures(Parent[b]) :
           IF f \in failedValid
           THEN /\ failedChild' = failedChild \cup (Chain[Parent[b]] \ Chain[f])
                /\ UNCHANGED aborted
           ELSE aborted' = TRUE /\ UNCHANGED failedChild
  BY DEF RefuseBlockHeader
<1>3. f \in failedBlocks /\ f \in Chain[Parent[b]]
  BY DEF KnownFailures
<1>4. f \in failedValid /\ f \in Block
  BY <1>1, <1>3, ChainLeast DEF Marks
<1>5. \A x \in Chain[Parent[b]] \ Chain[f] : f \in Chain[x]
  BY <1>1, <1>3, ChainLinear
<1> QED BY <1>2, <1>4, <1>5

LEMMA MarksHeaders ==
    ASSUME Basic, Marks, NEW b \in Block, AcceptBlockHeader(b) \/ RefuseBlockHeader(b)
    PROVE  Marks'
<1>1. CASE AcceptBlockHeader(b)
  <2>1. /\ known' = known \cup {b} /\ b \notin known
        /\ UNCHANGED <<data, linked, failedValid, failedChild, failedBlocks, unlinked>>
    BY <1>1 DEF AcceptBlockHeader, failures
  <2>2. b \in Chain[b] /\ b \notin data
    BY <2>1, ChainLeast, BasicSets
  <2> QED BY <2>1, <2>2 DEF Marks, failed
<1>2. CASE RefuseBlockHeader(b)
  <2>1. UNCHANGED <<known, data, linked, failedValid, failedBlocks, unlinked>>
    BY <1>2 DEF RefuseBlockHeader, index
  <2>2. \A x \in failedChild' : x \in failedChild \/ Chain[x] \cap failedValid # {}
    BY <1>2, RefuseMarks
  <2> QED BY <2>1, <2>2 DEF Marks, failed
<1> QED BY <1>1, <1>2

(* What FindMostWorkChain marks has a reason. *)
LEMMA SkippedReason ==
    ASSUME Basic, Marks, NEW x \in Skipped(FindMostWorkChain)
    PROVE  Chain[x] \cap failedValid # {}
<1>1. x \in Block
  BY SkippedFailed
<1>2. PICK y \in failed : y \in Chain[x]
  BY SkippedFailed
<1>3. Chain[y] \subseteq Chain[x]
  BY <1>1, <1>2, ChainOfAncestor
<1> QED BY <1>2, <1>3 DEF Marks

LEMMA MarksTurn ==
    ASSUME Basic, Marks, NEW t \in Thread, ActivateBestChain(t)
    PROVE  Marks'
<1>1. PICK m \in Block \cup {NoBlock}, skip \in SUBSET Block :
          /\ most[t] = NoBlock => skip = Skipped(FindMostWorkChain)
          /\ most[t] # NoBlock => skip = {}
          /\ \/ m \in {NoBlock, active} /\ ActivateNothing(t, skip)
             \/ m \in linked /\ m # active /\ ActivateBestChainStep(t, m, skip)
  BY Turn
<1>2. \A x \in skip : Chain[x] \cap failedValid # {}
  BY <1>1, SkippedReason
<1>3. /\ UNCHANGED <<known, data, linked, unlinked>>
      /\ failedChild' = failedChild \cup (skip \ failed)
  BY <1>1 DEF ActivateNothing, ActivateBestChainStep, index
<1>4. PICK I \in SUBSET Block : failedValid' = failedValid \cup I /\ failedBlocks' = failedBlocks \cup I
  <2>1. CASE ActivateNothing(t, skip)
    <3>1. PICK I \in SUBSET Block : I = {}
      OBVIOUS
    <3>2. failedValid' = failedValid \cup I /\ failedBlocks' = failedBlocks \cup I
      BY <2>1, <3>1 DEF ActivateNothing
    <3> QED BY <3>2
  <2>2. CASE m \in linked /\ ActivateBestChainStep(t, m, skip)
    <3>1. active \in Block /\ m \in Block
      BY <2>2, BasicSets
    <3>2. Invalid[active][m] \subseteq Block
      BY <3>1, TurnFails
    <3> QED BY <2>2, <3>2 DEF ActivateBestChainStep, InvalidBlockFound
  <2> QED BY <1>1, <2>1, <2>2
<1>5. \A b \in I : b \in Chain[b]
  BY ChainLeast
<1>6. \A b \in failed' : Chain[b] \cap failedValid' # {}
  BY <1>2, <1>3, <1>4, <1>5 DEF Marks, failed
<1> QED BY <1>3, <1>4, <1>6 DEF Marks

LEMMA MarksInvalidate ==
    ASSUME Basic, Marks, NEW t \in Thread, NEW b \in Manual, InvalidateBlock(t, b)
    PROVE  Marks'
<1> DEFINE undone == IF b \in Chain[active] THEN Chain[active] \ Chain[b] ELSE {}
<1>1. /\ UNCHANGED <<known, data, linked, unlinked>>
      /\ failedChild' = failedChild \cup undone
      /\ failedValid' = failedValid \cup {b} /\ failedBlocks' = failedBlocks \cup {b}
  BY DEF InvalidateBlock, index
<1>2. active \in Block /\ b \in Block
  BY BasicSets, ChainAssumption
<1>3. \A x \in undone \cup {b} : b \in Chain[x]
  BY <1>2, ChainLinear, ChainLeast
<1> HIDE DEF undone
<1> QED BY <1>1, <1>3 DEF Marks, failed

(* The marks that an undone invalidateblock takes back. *)
LEMMA ResetMarks ==
    ASSUME Basic, Marks, NEW b \in Manual, UndoesInvalidation(b)
    PROVE  /\ b \in Block /\ b \in Reconsidered(b)
           /\ failedValid \cap (Reconsidered(b) \cup Chain[b]) = {b}
           /\ \A x \in failed : b \in Chain[x] => x \in Reconsidered(b)
           /\ \A x \in known : b \in Chain[x] => x \in linked
<1>1. /\ b \in Block /\ b \in known /\ b \in failedValid /\ failedValid \subseteq known
      /\ failed \subseteq known /\ failedValid \subseteq failed
  BY ChainAssumption, BasicSets DEF UndoesInvalidation, Marks, Basic, TypeOK, failed
<1>2. b \in Chain[b] /\ Chain[b] \subseteq known
  BY <1>1, ChainLeast DEF Basic
<1>3. b \in Reconsidered(b)
  BY <1>1, <1>2 DEF Reconsidered
<1>4. \A x \in failedValid : x \in Reconsidered(b) \cup Chain[b] => x = b
  BY <1>1, <1>2 DEF UndoesInvalidation, Reconsidered
<1>5. \A x \in failed : b \in Chain[x] => x \in Reconsidered(b)
  BY <1>1 DEF Reconsidered
<1>6. \A x \in known : b \in Chain[x] => x \in linked
  BY DEF UndoesInvalidation
<1> QED BY <1>1, <1>3, <1>4, <1>5, <1>6

LEMMA MarksReset ==
    ASSUME Basic, Marks, NEW t \in Thread, NEW b \in Manual, ~AnyReconsider,
           ResetBlockFailureFlags(t, b)
    PROVE  Marks'
<1>1. /\ UNCHANGED <<known, data, linked, unlinked>> /\ UndoesInvalidation(b)
      /\ failedValid' = failedValid \ (Reconsidered(b) \cup Chain[b])
      /\ failedChild' = failedChild \ (Reconsidered(b) \cup Chain[b])
      /\ failedBlocks' = failedBlocks \ Reconsidered(b)
  BY DEF ResetBlockFailureFlags, index
<1>2. /\ b \in Block /\ b \in Reconsidered(b)
      /\ failedValid \cap (Reconsidered(b) \cup Chain[b]) = {b}
      /\ \A x \in failed : b \in Chain[x] => x \in Reconsidered(b)
      /\ \A x \in known : b \in Chain[x] => x \in linked
  BY <1>1, ResetMarks
<1>3. failedValid' = failedValid \ {b}
  BY <1>1, <1>2
<1>4. failedBlocks' \subseteq failedValid'
  BY <1>1, <1>2, <1>3 DEF Marks
<1>5. ASSUME NEW x \in failed' PROVE Chain[x] \cap failedValid' # {}
  <2>1. x \in failed /\ x \notin Reconsidered(b)
    BY <1>1, <1>2, <1>5 DEF failed
  <2>2. b \notin Chain[x]
    BY <2>1, <1>2
  <2> QED BY <2>1, <2>2, <1>3 DEF Marks
<1>6. \A x \in known \ linked : b \notin Chain[x]
  BY <1>2
<1>7. data \subseteq known
  BY BasicSets
<1> QED BY <1>1, <1>3, <1>4, <1>5, <1>6, <1>7 DEF Marks

LEMMA MarksStep == ~AnyReconsider /\ Basic /\ Marks /\ [Next]_vars => Marks'
<1> SUFFICES ASSUME ~AnyReconsider, Basic, Marks, [Next]_vars PROVE Marks'
  OBVIOUS
<1>1. CASE \E b \in Block : AcceptBlockHeader(b) \/ RefuseBlockHeader(b)
  BY <1>1, MarksHeaders
<1>2. ASSUME NEW t \in Thread, CallActivateBestChain(t) \/ \E b \in Precious : PreciousBlock(t, b)
      PROVE  Marks'
  BY <1>2 DEF CallActivateBestChain, PreciousBlock, Marks, failed, index, failures
<1>3. CASE UNCHANGED vars
  BY <1>3 DEF Marks, failed, vars, index, failures
<1> QED BY <1>1, <1>2, <1>3, MarksTurn, MarksAccept, MarksInvalidate, MarksReset DEF Next

LEMMA MarksHold == ~AnyReconsider => (Spec => []Marks)
<1> SUFFICES ASSUME ~AnyReconsider PROVE Spec => []Marks
  OBVIOUS
<1>1. Basic /\ Marks /\ [Next]_vars => Marks'
  BY MarksStep
<1> QED BY <1>1, MarksInit, BasicHolds, PTL DEF Spec

(* Every member of g_failed_blocks is marked BLOCK_FAILED_VALID: what      *)
(* AcceptBlockHeader asserts of the one it meets, also when calls overlap. *)
FailedBlocksMarked == failedBlocks \subseteq failedValid

THEOREM FailedBlocksCorrect == ~AnyReconsider => (Spec => []FailedBlocksMarked)
<1>1. Marks => FailedBlocksMarked
  BY DEF Marks, FailedBlocksMarked
<1> QED BY <1>1, MarksHold, PTL

-----------------------------------------------------------------------------
(* What needs calls one at a time.  One call of ActivateBestChain at a     *)
(* time and none of the RPCs during it, reconsiderblock only to undo an    *)
(* invalidateblock, and preciousblock for at most one of several tips with *)
(* the same work.  Without the first two the runs stale_invalid,           *)
(* stale_mostwork and reconsider show what fails; without the last, a      *)
(* second preciousblock of a tip that was preferred before lifts its       *)
(* nSequenceId back to -1, and the other tip becomes the better one        *)
(* without being a candidate.                                              *)
OneAtATime ==
    /\ ~Overlap /\ ~AnyReconsider
    /\ \A a, b \in Precious : Work[a] = Work[b] => a = b

(* The active chain is sound and its scripts are checked; no candidate     *)
(* sorts before the tip; only preciousblock gives negative ids.            *)
TipRight ==
    /\ Chain[active] \cap failed = {} /\ Chain[active] \subseteq scripts
    /\ \A b \in scripts : Chain[b] \subseteq scripts
    /\ \A b \in candidates : ~Worse(seq, b, active)
    /\ \A b \in Block : seq[b] < 0 => b \in Precious

(* One thread at a time is in ActivateBestChain, and pindexMostWork, kept  *)
(* over the release of cs_main, is still a sound candidate.                *)
CallsRight ==
    /\ \A t, u \in Thread : pc[t] = "activating" /\ pc[u] = "activating" => t = u
    /\ \A t \in Thread : most[t] # NoBlock =>
          pc[t] = "activating" /\ most[t] \in candidates /\ Chain[most[t]] \cap failed = {}

(* z is what the candidates were last pruned for: all blocks as good as z  *)
(* are candidates, and z, a candidate that will connect, is a reason for   *)
(* the search to succeed.  Once no call is under way it is the tip.        *)
Threshold(z) ==
    /\ Chain[z] \cap failed = {} /\ Chain[z] \cap BadScripts = {}
    /\ ~Worse(seq, z, active)
    /\ \A b \in linked : b \notin failed /\ ~Worse(seq, b, z) => b \in candidates
    /\ (\A t \in Thread : pc[t] # "activating") => z = active
    /\ \A t \in Thread : most[t] # NoBlock => ~Worse(seq, most[t], z)

(* Nothing sound is better than m. *)
NoneBetter(m) == \A b \in linked : Worse(seq, m, b) => Chain[b] \cap failed # {}

(* No call is about to start: nothing is better than what the one under    *)
(* way works towards, nor, when none is, than the tip.                     *)
BestFound ==
    (\A t \in Thread : pc[t] # "called") =>
        /\ \A t \in Thread : most[t] # NoBlock => NoneBetter(most[t])
        /\ (\A t \in Thread : pc[t] = "idle") => NoneBetter(active)

Turns == /\ TipRight /\ CallsRight /\ BestFound /\ ~aborted
         /\ \E z \in candidates : Threshold(z)

LEMMA TurnsInit == Init => Turns
<1> SUFFICES ASSUME Init PROVE Turns
  OBVIOUS
<1>1. /\ Genesis \in Block /\ Chain[Genesis] = {Genesis} /\ failed = {}
      /\ linked = {Genesis} /\ candidates = {Genesis} /\ active = Genesis /\ scripts = {Genesis}
      /\ \A t \in Thread : pc[t] = "idle" /\ most[t] = NoBlock
  BY TreeAssumption, ChainStep DEF Init, failed
<1>2. seq \in [Block -> Int] /\ \A b \in Block : seq[b] >= 0
  BY DEF Init
<1>3. ~Worse(seq, Genesis, Genesis)
  BY <1>1, <1>2, WorseIrreflexive
<1>4. TipRight /\ CallsRight
  BY <1>1, <1>2, <1>3 DEF TipRight, CallsRight
<1>5. BestFound
  BY <1>1, <1>3 DEF BestFound, NoneBetter
<1>6. Threshold(Genesis)
  BY <1>1, <1>3, ChainAssumption DEF Threshold
<1>7. ~aborted
  BY DEF Init
<1> QED BY <1>1, <1>4, <1>5, <1>6, <1>7 DEF Turns

(* Marks for blocks that already have a failed ancestor make no more       *)
(* chains unsound.                                                         *)
LEMMA SoundKept ==
    ASSUME NEW F \in SUBSET Block, NEW G \in SUBSET Block,
           \A x \in G \ F : Chain[x] \cap F # {}, NEW b \in Block, Chain[b] \cap F = {}
    PROVE  Chain[b] \cap G = {}
<1> SUFFICES ASSUME NEW x \in G, x \in Chain[b] PROVE FALSE
  OBVIOUS
<1>1. Chain[x] \subseteq Chain[b]
  BY ChainOfAncestor
<1> QED BY <1>1

LEMMA TurnsHeaders ==
    ASSUME Basic, Marks, Turns, NEW b \in Block, AcceptBlockHeader(b) \/ RefuseBlockHeader(b)
    PROVE  Turns'
<1>1. CASE AcceptBlockHeader(b)
  <2>1. UNCHANGED <<linked, scripts, failedValid, failedChild, seq, candidates, active, pc, most, aborted>>
    BY <1>1 DEF AcceptBlockHeader, failures, sequence, threads
  <2> QED BY <2>1 DEF Turns, TipRight, CallsRight, BestFound, NoneBetter, Threshold, failed
<1>2. CASE RefuseBlockHeader(b)
  <2>1. UNCHANGED <<linked, scripts, failedValid, seq, candidates, active, pc, most>>
    BY <1>2 DEF RefuseBlockHeader, index, sequence, threads
  <2>2. aborted' = aborted /\ \A x \in failedChild' \ failedChild : Chain[x] \cap failedValid # {}
    BY <1>2, RefuseMarks
  <2>3. failed \subseteq Block /\ failed' \subseteq Block /\ linked \subseteq Block
        /\ candidates \subseteq Block /\ active \in Block
    <3>1. Basic'
      BY BasicHeaders
    <3>2. (failed \subseteq known /\ known \subseteq Block)'
      BY <3>1 DEF Basic, TypeOK
    <3> QED BY <3>2, BasicSets
  <2>4. failed \subseteq failed' /\ \A x \in failed' \ failed : Chain[x] \cap failed # {}
    <3>1. failedChild \subseteq failedChild'
      BY <1>2 DEF RefuseBlockHeader
    <3> QED BY <3>1, <2>1, <2>2 DEF failed
  <2>5. \A x \in Block : Chain[x] \cap failed = {} => Chain[x] \cap failed' = {}
    BY <2>3, <2>4, SoundKept
  <2>6. TipRight' /\ CallsRight'
    BY <2>1, <2>3, <2>5, TreeAssumption DEF Turns, TipRight, CallsRight
  <2>7. BestFound'
    BY <2>1, <2>4 DEF Turns, BestFound, NoneBetter
  <2>8. ASSUME NEW z \in candidates, Threshold(z) PROVE Threshold(z)'
    BY <2>1, <2>3, <2>4, <2>5, <2>8 DEF Threshold
  <2> QED BY <2>1, <2>2, <2>6, <2>7, <2>8 DEF Turns
<1> QED BY <1>1, <1>2

LEMMA TurnsCall ==
    ASSUME Basic, Turns, NEW t \in Thread, CallActivateBestChain(t)
    PROVE  Turns'
<1>1. /\ UNCHANGED <<linked, scripts, failedValid, failedChild, seq, candidates, active, most, aborted>>
      /\ pc[t] = "idle" /\ pc' = [pc EXCEPT ![t] = "called"] /\ pc \in [Thread -> {"idle", "called", "activating"}]
  BY DEF CallActivateBestChain, Calls, index, failures, sequence, Basic, TypeOK
<1>2. \A u \in Thread : pc'[u] = "activating" <=> pc[u] = "activating"
  BY <1>1
<1>3. pc'[t] = "called"
  BY <1>1
<1>4. TipRight' /\ CallsRight' /\ BestFound'
  BY <1>1, <1>2, <1>3 DEF Turns, TipRight, CallsRight, BestFound, failed
<1>5. ASSUME NEW z \in candidates, Threshold(z) PROVE Threshold(z)'
  BY <1>1, <1>2, <1>5 DEF Threshold, failed
<1> QED BY <1>1, <1>4, <1>5 DEF Turns

LEMMA TurnsAccept ==
    ASSUME Basic, Turns, NEW t \in Thread, NEW b \in Block, NEW fRequested \in BOOLEAN,
           AcceptBlock(t, b, fRequested)
    PROVE  Turns'
<1>1. /\ pc[t] = "idle" /\ b \notin data
      /\ UNCHANGED <<scripts, failedChild, active, aborted>>
  BY DEF AcceptBlock
<1>2. /\ linked \subseteq data /\ linked \subseteq Block /\ candidates \subseteq linked
      /\ active \in linked /\ seq \in [Block -> Int]
      /\ \A x \in linked : Chain[x] \subseteq linked
      /\ pc \in [Thread -> {"idle", "called", "activating"}]
      /\ \A u \in Thread : most[u] \in linked \cup {NoBlock}
  BY BasicSets DEF Basic, TypeOK
<1>3. CASE b \in BadContext
  <2>1. /\ failedValid' = failedValid \cup {b}
        /\ UNCHANGED <<linked, seq, candidates, pc, most>>
    BY <1>3 DEF AcceptBlock, sequence, threads
  <2>2. failed' = failed \cup {b} /\ b \notin linked
    BY <1>1, <1>2, <2>1 DEF failed
  <2>3. \A x \in linked : Chain[x] \cap failed' = Chain[x] \cap failed
    BY <1>2, <2>2
  <2>4. TipRight' /\ CallsRight'
    BY <1>1, <1>2, <2>1, <2>3 DEF Turns, TipRight, CallsRight
  <2>5. BestFound'
    BY <1>1, <2>1, <2>3 DEF Turns, BestFound, NoneBetter
  <2>6. ASSUME NEW z \in candidates, Threshold(z) PROVE Threshold(z)'
    BY <1>1, <1>2, <2>1, <2>2, <2>3, <2>6 DEF Threshold
  <2> QED BY <1>1, <2>1, <2>4, <2>5, <2>6 DEF Turns
<1>4. CASE b \notin BadContext
  <2>1. /\ ReceivedBlockTransactions(b) /\ failedValid' = failedValid
        /\ pc' = [pc EXCEPT ![t] = "called"] /\ most' = most
    BY <1>4 DEF AcceptBlock, Calls
  <2>2. /\ linked \subseteq linked' /\ seq' \in [Block -> Int]
        /\ \A x \in Block : x \notin linked' \/ x \in linked => seq'[x] = seq[x]
        /\ \A x \in linked' \ linked : seq'[x] >= 0
        /\ candidates' = candidates \cup {x \in linked' \ linked : ~Worse(seq', x, active)}
    BY <1>1, <2>1, Received
  <2>3. failed' = failed /\ linked' \subseteq Block
    <3>1. Basic'
      BY BasicAccept
    <3>2. (linked \subseteq Block)'
      BY <3>1 DEF Basic, TypeOK
    <3> QED BY <1>1, <2>1, <3>2 DEF failed
  <2>4. \A x, y \in linked : Worse(seq', x, y) <=> Worse(seq, x, y)
    BY <1>2, <2>2 DEF Worse
  <2>5. pc'[t] = "called" /\ \A u \in Thread : pc'[u] = "activating" <=> pc[u] = "activating"
    BY <1>1, <1>2, <2>1
  <2>6. \A x \in Block : seq'[x] < 0 => x \in Precious
    <3> SUFFICES ASSUME NEW x \in Block, seq'[x] < 0 PROVE x \in Precious
      OBVIOUS
    <3>1. seq'[x] \in Int
      BY <2>2
    <3>2. ~(x \in linked' \ linked)
      BY <2>2, <3>1
    <3>3. seq'[x] = seq[x]
      BY <2>2, <3>2
    <3> QED BY <3>3 DEF Turns, TipRight
  <2>7. TipRight'
    BY <1>1, <1>2, <2>2, <2>3, <2>4, <2>6 DEF Turns, TipRight
  <2>8. CallsRight' /\ BestFound'
    BY <2>1, <2>2, <2>3, <2>5 DEF Turns, CallsRight, BestFound
  <2>9. ASSUME NEW z \in candidates, Threshold(z) PROVE Threshold(z)'
    <3>1. ASSUME NEW x \in linked', x \notin failed, ~Worse(seq', x, z) PROVE x \in candidates'
      <4>1. CASE x \in linked
        <5>1. ~Worse(seq, x, z)
          BY <3>1, <4>1, <1>2, <2>4
        <5> QED BY <3>1, <4>1, <5>1, <2>2, <2>9 DEF Threshold
      <4>2. CASE x \notin linked
        <5>1. ~Worse(seq', z, active)
          BY <1>2, <2>4, <2>9 DEF Threshold
        <5>2. x \in Block /\ z \in Block /\ active \in Block
          BY <1>2, <2>3
        <5>3. ~Worse(seq', x, active)
          BY <3>1, <5>1, <5>2, <2>2, NotWorseTransitive
        <5> QED BY <3>1, <4>2, <5>3, <2>2
      <4> QED BY <4>1, <4>2
    <3>2. ~Worse(seq', z, active) /\ \A u \in Thread : most[u] # NoBlock => ~Worse(seq', most[u], z)
      BY <1>2, <2>4, <2>9 DEF Threshold
    <3> QED BY <1>1, <2>1, <2>3, <2>5, <2>9, <3>1, <3>2 DEF Threshold
  <2> QED BY <1>1, <2>2, <2>7, <2>8, <2>9 DEF Turns
<1> QED BY <1>3, <1>4

(* When a manual call starts, none of ActivateBestChain is under way: the  *)
(* candidates are those as good as the tip.                                *)
LEMMA Quiet ==
    ASSUME Basic, Turns, OneAtATime, NEW t \in Thread, MayManipulate(t)
    PROVE  /\ \A u \in Thread : pc[u] = "idle" /\ most[u] = NoBlock
           /\ active \in candidates /\ Threshold(active)
<1>1. \A u \in Thread : pc[u] = "idle"
  BY DEF MayManipulate, OneAtATime
<1>2. \A u \in Thread : most[u] = NoBlock
  BY <1>1 DEF Turns, CallsRight
<1>3. PICK z \in candidates : Threshold(z)
  BY DEF Turns
<1>4. z = active
  BY <1>1, <1>3 DEF Threshold
<1> QED BY <1>1, <1>2, <1>3, <1>4

(* The call of ActivateBestChain that follows it. *)
LEMMA QuietCall ==
    ASSUME Basic, NEW t \in Thread, \A u \in Thread : pc[u] = "idle" /\ most[u] = NoBlock,
           pc' = [pc EXCEPT ![t] = "called"], most' = most
    PROVE  CallsRight' /\ BestFound' /\ \A u \in Thread : pc'[u] # "activating"
<1>1. pc \in [Thread -> {"idle", "called", "activating"}]
  BY DEF Basic, TypeOK
<1>2. pc'[t] = "called" /\ \A u \in Thread : pc'[u] # "activating"
  BY <1>1
<1> QED BY <1>2 DEF CallsRight, BestFound

LEMMA TurnsPrecious ==
    ASSUME Basic, Turns, OneAtATime, NEW t \in Thread, NEW b \in Precious, PreciousBlock(t, b)
    PROVE  Turns'
<1> DEFINE id == IF Work[active] > lastPrecious THEN -1 ELSE reverseSeq
           s == [seq EXCEPT ![b] = id]
           cands == PruneBlockIndexCandidates(s, candidates \cup {b}, active)
<1>1. /\ UNCHANGED <<linked, scripts, failedValid, failedChild, active, most>>
      /\ seq' = s /\ pc' = [pc EXCEPT ![t] = "called"] /\ MayManipulate(t)
      /\ IF Eligible(b, failed)
         THEN candidates' = cands /\ aborted' = (cands = {})
         ELSE candidates' = candidates \ {b} /\ aborted' = aborted
  BY DEF PreciousBlock, Calls, index, failures
<1>2. /\ active \in linked /\ active \in Block /\ b \in Block /\ candidates \subseteq linked
      /\ linked \subseteq Block /\ linked \subseteq data /\ seq \in [Block -> Int] /\ failed' = failed
  BY <1>1, BasicSets, ChainAssumption DEF failed
<1>3. id \in Int /\ id < 0
  BY ChainAssumption DEF Basic, TypeOK
<1>4. /\ \A u \in Thread : pc[u] = "idle" /\ most[u] = NoBlock
      /\ active \in candidates /\ Threshold(active)
  BY <1>1, Quiet
<1>5. CallsRight' /\ BestFound' /\ \A u \in Thread : pc'[u] # "activating"
  BY <1>1, <1>4, QuietCall
<1> HIDE DEF id
<1>6. /\ s \in [Block -> Int] /\ s[b] = id /\ \A x \in Block : x # b => s[x] = seq[x]
  BY <1>2, <1>3
<1>7. cands = {c \in candidates \cup {b} : ~Worse(s, c, active)}
  BY DEF PruneBlockIndexCandidates
<1> HIDE DEF s, cands
<1>8. active \notin failed
  <2>1. active \in Chain[active]
    BY <1>2, ChainLeast
  <2> QED BY <2>1 DEF Turns, TipRight
<1>9. ~Eligible(b, failed) => b \notin linked \/ b \in failed
  BY <1>2 DEF Eligible
<1>10. ~Worse(s, active, active)
  BY <1>2, <1>6, WorseIrreflexive
<1>11. ASSUME NEW x \in Block, x # b PROVE Worse(seq, x, active) => Worse(s, x, active)
  <2>1. CASE b # active
    BY <1>2, <1>6, <1>11, <2>1 DEF Worse
  <2>2. CASE b = active
    <3> SUFFICES ASSUME Worse(seq, x, active) PROVE Worse(s, x, active)
      OBVIOUS
    <3>1. Work[x] \in Nat /\ Work[active] \in Nat
      BY <1>2, ChainAssumption
    <3>2. CASE Work[x] < Work[active]
      BY <3>2 DEF Worse
    <3>3. CASE Work[x] = Work[active]
      <4>1. x \notin Precious
        BY <2>2, <3>3, <1>11 DEF OneAtATime
      <4>2. ~(seq[x] < 0) /\ seq[x] \in Int
        BY <4>1, <1>2 DEF Turns, TipRight
      <4>3. s[x] > s[active]
        BY <4>2, <2>2, <1>3, <1>6, <1>11
      <4> QED BY <4>3, <3>3 DEF Worse
    <3> QED BY <3>1, <3>2, <3>3 DEF Worse
  <2> QED BY <2>1, <2>2
<1>12. ASSUME NEW x \in linked, x \notin failed, ~Worse(s, x, active) PROVE x \in candidates'
  <2>1. CASE x = b
    BY <2>1, <1>1, <1>7, <1>9, <1>12
  <2>2. CASE x # b
    <3>1. ~Worse(seq, x, active)
      BY <2>2, <1>2, <1>11, <1>12
    <3>2. x \in candidates
      BY <3>1, <1>4, <1>12 DEF Threshold
    <3> QED BY <3>2, <2>2, <1>1, <1>7, <1>12
  <2> QED BY <2>1, <2>2
<1>13. active \in candidates'
  BY <1>2, <1>8, <1>10, <1>12
<1>14. ~aborted'
  BY <1>1, <1>13 DEF Turns
<1>15. ASSUME NEW x \in candidates' PROVE ~Worse(s, x, active)
  <2>1. CASE Eligible(b, failed)
    BY <2>1, <1>1, <1>7
  <2>2. CASE ~Eligible(b, failed)
    <3>1. x \in candidates /\ x # b /\ b # active
      BY <2>2, <1>1, <1>2, <1>8, <1>9
    <3>2. ~Worse(seq, x, active) /\ x \in Block
      BY <3>1, <1>2 DEF Turns, TipRight
    <3> QED BY <3>1, <3>2, <1>2, <1>6 DEF Worse
  <2> QED BY <2>1, <2>2
<1>16. \A x \in Block : seq'[x] < 0 => x \in Precious
  BY <1>1, <1>6 DEF Turns, TipRight
<1>17. TipRight'
  BY <1>1, <1>2, <1>15, <1>16 DEF Turns, TipRight
<1>18. PICK z \in Block : z = active
  BY <1>2
<1>19. Threshold(z)'
  BY <1>1, <1>2, <1>4, <1>5, <1>10, <1>12, <1>18 DEF Threshold
<1> QED BY <1>1, <1>5, <1>13, <1>14, <1>17, <1>18, <1>19 DEF Turns

LEMMA TurnsInvalidate ==
    ASSUME Basic, Turns, OneAtATime, NEW t \in Thread, NEW b \in Manual, InvalidateBlock(t, b)
    PROVE  Turns'
<1> DEFINE undone == IF b \in Chain[active] THEN Chain[active] \ Chain[b] ELSE {}
           tip == IF b \in Chain[active] THEN Parent[b] ELSE active
           bad == failed \cup undone \cup {b}
<1>1. /\ UNCHANGED <<linked, scripts, seq, aborted, most>> /\ MayManipulate(t)
      /\ active' = tip /\ failedChild' = failedChild \cup undone
      /\ failedValid' = failedValid \cup {b}
      /\ candidates' = (candidates \ (undone \cup {b}))
            \cup {x \in known : Eligible(x, bad) /\ ~Worse(seq, x, tip)}
      /\ pc' = [pc EXCEPT ![t] = "called"]
  BY DEF InvalidateBlock, Calls, index, sequence
<1>2. /\ candidates \subseteq linked /\ active \in linked /\ active \in Block /\ linked \subseteq known
      /\ linked \subseteq data /\ known \subseteq Block /\ seq \in [Block -> Int]
      /\ Chain[active] \subseteq linked /\ b \in Block \ {Genesis}
  BY BasicSets, ChainAssumption
<1>3. tip \in Chain[active] /\ Chain[tip] \cap (undone \cup {b}) = {}
  <2>1. CASE b \in Chain[active]
    <3>1. Parent[b] \in Chain[active]
      BY <2>1, <1>2, ChainLeast DEF Closed
    <3>2. b \notin Chain[Parent[b]] /\ Chain[Parent[b]] \subseteq Chain[b]
      BY <1>2, NotOwnAncestor, ChainStep
    <3> QED BY <2>1, <3>1, <3>2
  <2>2. CASE b \notin Chain[active]
    BY <2>2, <1>2, ChainLeast
  <2> QED BY <2>1, <2>2
<1>4. Chain[tip] \subseteq Chain[active] /\ tip \in Block /\ tip \in linked
  BY <1>2, <1>3, ChainOfAncestor
<1>5. failed' = bad
  BY <1>1 DEF failed
<1> HIDE DEF undone, tip
<1>6. Chain[tip] \cap bad = {} /\ Chain[tip] \cap BadScripts = {} /\ Chain[tip] \subseteq scripts
  BY <1>3, <1>4 DEF Turns, TipRight, Basic
<1> HIDE DEF bad
<1>7. /\ \A u \in Thread : pc[u] = "idle" /\ most[u] = NoBlock
  BY <1>1, Quiet
<1>8. CallsRight' /\ BestFound' /\ \A u \in Thread : pc'[u] # "activating"
  BY <1>1, <1>7, QuietCall
<1>9. ASSUME NEW x \in candidates' PROVE ~Worse(seq, x, tip)
  <2>1. CASE x \in candidates
    <3>1. ~Worse(seq, x, active) /\ x \in Block
      BY <2>1, <1>2 DEF Turns, TipRight
    <3>2. ~Worse(seq, active, tip)
      BY <1>2, <1>3, AncestorNotBetter
    <3> QED BY <3>1, <3>2, <1>2, <1>4, NotWorseTransitive
  <2>2. CASE x \notin candidates
    BY <2>2, <1>1, <1>9
  <2> QED BY <2>1, <2>2
<1>10. TipRight'
  BY <1>1, <1>5, <1>6, <1>9 DEF Turns, TipRight
<1>11. \A x \in linked : x \notin bad /\ ~Worse(seq, x, tip) => x \in candidates'
  BY <1>1, <1>2 DEF Eligible
<1>12. ~Worse(seq, tip, tip) /\ tip \in Chain[tip]
  BY <1>2, <1>4, WorseIrreflexive, ChainLeast
<1>13. tip \in candidates'
  BY <1>4, <1>6, <1>11, <1>12
<1>14. PICK z \in Block : z = tip
  BY <1>4
<1>15. Threshold(z)'
  BY <1>1, <1>5, <1>6, <1>7, <1>8, <1>11, <1>12, <1>14 DEF Threshold
<1> QED BY <1>1, <1>8, <1>10, <1>13, <1>14, <1>15 DEF Turns

LEMMA TurnsReset ==
    ASSUME Basic, Marks, Turns, OneAtATime, NEW t \in Thread, NEW b \in Manual,
           ResetBlockFailureFlags(t, b)
    PROVE  Turns'
<1> DEFINE below == Reconsidered(b)
<1>1. /\ UNCHANGED <<linked, scripts, seq, active, aborted, most>> /\ MayManipulate(t)
      /\ failedValid' = failedValid \ (below \cup Chain[b])
      /\ failedChild' = failedChild \ (below \cup Chain[b])
      /\ candidates' = candidates \cup {x \in below : Eligible(x, {}) /\ Worse(seq, active, x)}
      /\ pc' = [pc EXCEPT ![t] = "called"] /\ UndoesInvalidation(b)
  BY DEF ResetBlockFailureFlags, Calls, index, sequence, OneAtATime
<1>2. /\ b \in Block /\ failedValid \cap (below \cup Chain[b]) = {b}
      /\ \A x \in failed : b \in Chain[x] => x \in below
  BY <1>1, ResetMarks
<1>3. /\ active \in linked /\ active \in Block /\ linked \subseteq data /\ linked \subseteq Block
      /\ candidates \subseteq linked /\ seq \in [Block -> Int] /\ below \subseteq Block
  BY BasicSets DEF Reconsidered
<1> HIDE DEF below
<1>4. failed' = failed \ (below \cup Chain[b])
  BY <1>1 DEF failed
<1>5. /\ \A u \in Thread : pc[u] = "idle" /\ most[u] = NoBlock
      /\ active \in candidates /\ Threshold(active)
  BY <1>1, Quiet
<1>6. CallsRight' /\ BestFound' /\ \A u \in Thread : pc'[u] # "activating"
  BY <1>1, <1>5, QuietCall
<1>7. ASSUME NEW x \in candidates' PROVE ~Worse(seq, x, active)
  <2>1. CASE x \in candidates
    BY <2>1 DEF Turns, TipRight
  <2>2. CASE x \notin candidates
    <3>1. Worse(seq, active, x) /\ x \in Block
      BY <2>2, <1>1, <1>3, <1>7
    <3>2. Worse(seq, x, active) => Worse(seq, active, active)
      BY <3>1, <1>3, WorseTransitive
    <3> QED BY <3>2, <1>3, WorseIrreflexive
  <2> QED BY <2>1, <2>2
<1>8. TipRight'
  BY <1>1, <1>4, <1>7 DEF Turns, TipRight
<1>9. ASSUME NEW x \in linked, x \notin failed', ~Worse(seq, x, active) PROVE x \in candidates'
  <2>1. CASE x \notin failed
    BY <2>1, <1>1, <1>5, <1>9 DEF Threshold
  <2>2. CASE x \in failed
    <3>1. x \in Block /\ x # active
      <4>1. active \in Chain[active]
        BY <1>3, ChainLeast
      <4> QED BY <4>1, <2>2, <1>3 DEF Turns, TipRight
    <3>2. x \in below
      <4>1. CASE x \in Chain[b]
        <5>1. PICK y \in failedValid : y \in Chain[x]
          BY <2>2 DEF Marks
        <5>2. y \in Chain[b]
          BY <5>1, <4>1, <1>2, ChainOfAncestor
        <5>3. y = b
          BY <5>1, <5>2, <1>2
        <5> QED BY <5>1, <5>3, <2>2, <1>2
      <4> QED BY <4>1, <2>2, <1>4, <1>9
    <3>3. Worse(seq, active, x)
      BY <3>1, <1>3, <1>9, WorseTotal
    <3> QED BY <3>2, <3>3, <1>1, <1>3 DEF Eligible
  <2> QED BY <2>1, <2>2
<1>10. PICK z \in Block : z = active
  BY <1>3
<1>11. Threshold(z)'
  BY <1>1, <1>4, <1>5, <1>6, <1>9, <1>10 DEF Threshold
<1> QED BY <1>1, <1>5, <1>6, <1>8, <1>10, <1>11 DEF Turns

(* What a turn works towards: a sound candidate as good as the threshold,  *)
(* which a search finds and no sound block beats.                          *)
LEMMA Target ==
    ASSUME Basic, Turns, OneAtATime, NEW t \in Thread, ActivateBestChain(t),
           NEW z \in candidates, Threshold(z)
    PROVE  \E m \in Block, skip \in SUBSET Block :
              /\ m \in candidates /\ Chain[m] \cap failed = {} /\ ~Worse(seq, m, z)
              /\ \A x \in skip : Chain[x] \cap failed # {}
              /\ skip \subseteq linked \ Chain[active]
              /\ (\A u \in Thread \ {t} : pc[u] # "called") => NoneBetter(m)
              /\ \/ m = active /\ ActivateNothing(t, skip)
                 \/ m # active /\ ActivateBestChainStep(t, m, skip)
<1>1. PICK m \in Block \cup {NoBlock}, skip \in SUBSET Block :
          /\ m \in linked \cup {NoBlock} /\ skip \subseteq linked \ Chain[active]
          /\ most[t] = NoBlock => m = FindMostWorkChain /\ skip = Skipped(FindMostWorkChain)
          /\ most[t] # NoBlock => m = most[t] /\ skip = {}
          /\ \/ m \in {NoBlock, active} /\ ActivateNothing(t, skip)
             \/ m \in linked /\ m # active /\ ActivateBestChainStep(t, m, skip)
  BY Turn
<1>2. /\ candidates \subseteq linked /\ linked \subseteq Block /\ seq \in [Block -> Int]
      /\ active \in Block /\ NoBlock \notin Block
  BY BasicSets, TreeAssumption
<1>3. /\ m \in candidates /\ Chain[m] \cap failed = {} /\ ~Worse(seq, m, z)
      /\ (\A u \in Thread \ {t} : pc[u] # "called") => NoneBetter(m)
      /\ \A x \in skip : Chain[x] \cap failed # {}
  <2>1. CASE most[t] # NoBlock
    <3>1. m = most[t] /\ skip = {} /\ pc[t] = "activating"
      BY <2>1, <1>1 DEF Turns, CallsRight
    <3>2. m \in candidates /\ Chain[m] \cap failed = {} /\ ~Worse(seq, m, z)
      BY <2>1, <3>1 DEF Turns, CallsRight, Threshold
    <3>3. (\A u \in Thread \ {t} : pc[u] # "called") => \A u \in Thread : pc[u] # "called"
      BY <3>1
    <3> QED BY <2>1, <3>1, <3>2, <3>3 DEF Turns, BestFound
  <2>2. CASE most[t] = NoBlock
    <3>1. m = FindMostWorkChain /\ skip = Skipped(FindMostWorkChain)
      BY <2>2, <1>1
    <3>2. \A c \in candidates : Chain[c] \cap failed = {} => Path(c) \cap failed = {}
      BY DEF Path
    <3>3. Path(z) \cap failed = {}
      BY <3>2 DEF Threshold
    <3>4. /\ m \in candidates /\ Path(m) \cap failed = {}
          /\ \A c \in candidates : Path(c) \cap failed = {} => ~Worse(seq, m, c)
      BY <3>1, <3>3, MostWork
    <3>5. Chain[m] \cap failed = {} /\ ~Worse(seq, m, z)
      BY <3>3, <3>4 DEF Path, Turns, TipRight
    <3>6. ASSUME NEW b \in linked, Worse(seq, m, b), Chain[b] \cap failed = {} PROVE FALSE
      <4>1. b \in Block /\ z \in Block /\ m \in Block /\ b \in Chain[b]
        BY <1>2, <3>4, ChainLeast
      <4>2. ~Worse(seq, b, m)
        <5>1. Worse(seq, b, m) => Worse(seq, b, b)
          BY <1>2, <3>6, <4>1, WorseTransitive
        <5> QED BY <1>2, <4>1, <5>1, WorseIrreflexive
      <4>3. ~Worse(seq, b, z)
        BY <1>2, <3>5, <4>1, <4>2, NotWorseTransitive
      <4>4. b \in candidates
        BY <3>6, <4>1, <4>3 DEF Threshold
      <4> QED BY <3>2, <3>4, <3>6, <4>4
    <3>7. \A x \in skip : Chain[x] \cap failed # {}
      BY <3>1, SkippedFailed
    <3> QED BY <3>4, <3>5, <3>6, <3>7 DEF NoneBetter
  <2> QED BY <2>1, <2>2
<1> QED BY <1>1, <1>2, <1>3

(* The others are outside ActivateBestChain. *)
LEMMA OthersWait ==
    ASSUME Turns, OneAtATime, NEW t \in Thread, ActivateBestChain(t)
    PROVE  ~aborted /\ \A u \in Thread \ {t} : pc[u] # "activating" /\ most[u] = NoBlock
<1>1. \A u \in Thread \ {t} : pc[u] # "activating"
  BY DEF ActivateBestChain, MayActivate, OneAtATime, Turns, CallsRight
<1> QED BY <1>1 DEF Turns, CallsRight

(* A turn that finds the tip the best already. *)
LEMMA TurnsNothing ==
    ASSUME Basic, Turns, NEW t \in Thread, NEW skip \in SUBSET Block, ActivateNothing(t, skip),
           \A x \in skip : Chain[x] \cap failed # {}, skip \subseteq linked \ Chain[active],
           \A u \in Thread \ {t} : pc[u] # "activating" /\ most[u] = NoBlock,
           (\A u \in Thread \ {t} : pc[u] # "called") => NoneBetter(active),
           NEW z \in candidates, Threshold(z), ~Worse(seq, active, z)
    PROVE  Turns'
<1>1. /\ UNCHANGED <<linked, scripts, failedValid, seq, active, aborted>>
      /\ failedChild' = failedChild \cup (skip \ failed) /\ candidates' = candidates \ skip
      /\ pc' = [pc EXCEPT ![t] = "idle"] /\ most' = [most EXCEPT ![t] = NoBlock]
  BY DEF ActivateNothing, index, sequence
<1>2. /\ candidates \subseteq linked /\ linked \subseteq Block /\ seq \in [Block -> Int]
      /\ active \in Block /\ failed \subseteq Block
      /\ pc \in [Thread -> {"idle", "called", "activating"}]
      /\ most \in [Thread -> Block \cup {NoBlock}]
  BY BasicSets DEF Basic, TypeOK
<1>3. failed' = failed \cup skip
  BY <1>1 DEF failed
<1>4. \A x \in Block : Chain[x] \cap failed = {} => Chain[x] \cap failed' = {}
  BY <1>2, <1>3, SoundKept
<1>5. /\ \A u \in Thread : pc'[u] # "activating" /\ most'[u] = NoBlock
      /\ \A u \in Thread \ {t} : pc'[u] = pc[u]
  BY <1>1, <1>2
<1>6. z = active /\ z \notin skip
  <2>1. ~Worse(seq, z, active) /\ z \in Block /\ z \in Chain[z]
    BY <1>2, ChainLeast DEF Threshold
  <2>2. z = active
    BY <1>2, <2>1, WorseTotal
  <2> QED BY <2>1, <2>2
<1>7. TipRight' /\ CallsRight'
  BY <1>1, <1>2, <1>4, <1>5 DEF Turns, TipRight, CallsRight
<1>8. BestFound'
  BY <1>1, <1>3, <1>5 DEF BestFound, NoneBetter
<1>9. Threshold(z)'
  BY <1>1, <1>2, <1>3, <1>4, <1>5, <1>6 DEF Threshold
<1> QED BY <1>1, <1>6, <1>7, <1>8, <1>9 DEF Turns

(* A turn that moves the tip. *)
LEMMA TurnsStep ==
    ASSUME Basic, Turns, NEW t \in Thread, NEW m \in Block, NEW skip \in SUBSET Block,
           ActivateBestChain(t), m # active, ActivateBestChainStep(t, m, skip),
           m \in candidates, Chain[m] \cap failed = {},
           \A x \in skip : Chain[x] \cap failed # {},
           \A u \in Thread \ {t} : pc[u] # "activating" /\ most[u] = NoBlock,
           (\A u \in Thread \ {t} : pc[u] # "called") => NoneBetter(m),
           NEW z \in candidates, Threshold(z), ~Worse(seq, m, z)
    PROVE  Turns'
<1> DEFINE tip == NewTip[active][m]
           connected == Range(Connects[active][m])
           fork == LastCommonAncestor(active, m)
           left == IF connected = {} THEN candidates \ skip
                   ELSE PruneBlockIndexCandidates(seq, candidates \ skip, tip)
           I == Invalid[active][m]
           cached == CachedMostWork(m, I # {})
           done == Finished(tip, cached)
<1>1. /\ active' = tip /\ scripts' = scripts \cup (connected \ failed)
      /\ failedChild' = failedChild \cup (skip \ failed)
      /\ failedValid' = failedValid \cup I
      /\ candidates' = left \ I /\ aborted' = (connected # {} /\ left = {})
      /\ most' = [most EXCEPT ![t] = IF done THEN NoBlock ELSE cached]
      /\ pc' = [pc EXCEPT ![t] = IF done THEN "idle" ELSE "activating"]
      /\ UNCHANGED <<linked, seq>>
  BY DEF ActivateBestChainStep, InvalidBlockFound, sequence
<1>2. /\ candidates \subseteq linked /\ linked \subseteq Block /\ seq \in [Block -> Int]
      /\ active \in Block /\ failed \subseteq Block /\ NoBlock \notin Block
      /\ pc \in [Thread -> {"idle", "called", "activating"}]
      /\ most \in [Thread -> Block \cup {NoBlock}]
      /\ \A x \in linked : Chain[x] \subseteq linked
  BY BasicSets, TreeAssumption DEF Basic, TypeOK
<1>3. /\ fork \in Chain[active] /\ fork \in Chain[tip] /\ tip \in Block /\ tip \in Chain[m]
      /\ connected = Chain[tip] \ Chain[fork] /\ fork \in Block
  BY <1>2, TurnConnects, ChainLeast
<1>4. I \subseteq BadScripts /\ I \subseteq Block
  BY <1>2, TurnFails
<1>5. left \subseteq candidates \ skip /\ (connected = {} => left = candidates \ skip)
      /\ (connected # {} => left = {c \in candidates \ skip : ~Worse(seq, c, tip)})
  BY DEF PruneBlockIndexCandidates
<1>6. /\ I = {} => cached = m
      /\ I # {} => cached = NoBlock
      /\ done <=> I = {} /\ tip = m
  BY <1>2, <1>3 DEF CachedMostWork, Finished
<1>7. Chain[tip] \cap BadScripts = {}
  <2>1. Basic'
    BY BasicTurn
  <2> QED BY <1>1, <2>1 DEF Basic
<1> HIDE DEF tip, connected, fork, left, I, cached, done
<1>8. failed' = failed \cup skip \cup I
  BY <1>1 DEF failed
<1>9. ASSUME NEW x \in Block, Chain[x] \cap failed = {} PROVE x \notin skip /\ Chain[x] \cap failed' \subseteq I
  <2>1. Chain[x] \cap (failed \cup skip) = {}
    BY <1>2, <1>9, SoundKept
  <2> QED BY <1>8, <1>9, <2>1
<1>10. Chain[tip] \subseteq Chain[m] /\ tip \in linked /\ Chain[tip] \cap failed = {}
       /\ tip \in Chain[tip] /\ ~Worse(seq, m, tip) /\ ~Worse(seq, tip, tip)
  BY <1>2, <1>3, ChainOfAncestor, ChainLeast, AncestorNotBetter, WorseIrreflexive
<1>11. Chain[tip] \cap failed' = {}
  BY <1>3, <1>4, <1>7, <1>9, <1>10
<1>12. Chain[tip] \subseteq scripts' /\ \A b \in scripts' : Chain[b] \subseteq scripts'
  <2>1. scripts' = scripts \cup connected
    BY <1>1, <1>3, <1>10
  <2>2. Chain[fork] \subseteq scripts
    BY <1>2, <1>3, ChainOfAncestor DEF Turns, TipRight
  <2>3. Chain[tip] \subseteq scripts'
    BY <2>1, <2>2, <1>3
  <2>4. \A b \in connected : Chain[b] \subseteq Chain[tip]
    BY <1>3, ChainOfAncestor
  <2> QED BY <2>1, <2>3, <2>4 DEF Turns, TipRight
(* Without a block connected the tip is back at the fork. *)
<1>13. connected = {} => tip \in Chain[active] /\ tip # m
  <2> SUFFICES ASSUME connected = {} PROVE tip \in Chain[active] /\ tip # m
    OBVIOUS
  <2>1. tip = fork
    BY <1>3, <1>10, ChainAntisymmetric
  <2>2. ASSUME tip = m PROVE FALSE
    <3>1. m \in Chain[active] /\ m # active
      BY <2>1, <2>2, <1>3
    <3>2. Worse(seq, m, active)
      BY <3>1, <1>2, WorkOfAncestor DEF Worse
    <3> QED BY <3>2 DEF Turns, TipRight
  <2> QED BY <2>1, <2>2, <1>3
<1>14. ASSUME NEW x \in left PROVE ~Worse(seq, x, tip)
  <2>1. CASE connected # {}
    BY <2>1, <1>5, <1>14
  <2>2. CASE connected = {}
    <3>1. ~Worse(seq, active, tip)
      BY <2>2, <1>2, <1>13, AncestorNotBetter
    <3>2. ~Worse(seq, x, active) /\ x \in Block
      BY <1>2, <1>5, <1>14 DEF Turns, TipRight
    <3> QED BY <3>1, <3>2, <1>2, <1>3, NotWorseTransitive
  <2> QED BY <2>1, <2>2
<1>15. TipRight'
  BY <1>1, <1>11, <1>12, <1>14 DEF Turns, TipRight
<1>16. m \in left /\ m \in Chain[m]
  BY <1>5, <1>9, <1>10, ChainLeast
<1>17. /\ pc'[t] = IF done THEN "idle" ELSE "activating"
       /\ most'[t] = IF done THEN NoBlock ELSE cached
       /\ \A u \in Thread \ {t} : pc'[u] = pc[u] /\ most'[u] = NoBlock
  BY <1>1, <1>2
<1>18. CallsRight'
  <2>1. \A u \in Thread : pc'[u] = "activating" => u = t
    BY <1>17
  <2>2. ASSUME NEW u \in Thread, most'[u] # NoBlock
        PROVE  /\ pc'[u] = "activating" /\ most'[u] \in candidates'
               /\ Chain[most'[u]] \cap failed' = {}
    <3>1. u = t /\ ~done /\ I = {} /\ most'[t] = m
      BY <1>6, <1>17, <2>2
    <3>2. m \in candidates' /\ Chain[m] \cap failed' = {}
      BY <3>1, <1>1, <1>9, <1>16
    <3> QED BY <3>1, <3>2, <1>17
  <2> QED BY <2>1, <2>2 DEF CallsRight
<1>19. BestFound'
  <2> SUFFICES ASSUME \A u \in Thread : pc'[u] # "called"
               PROVE  /\ \A u \in Thread : most'[u] # NoBlock => NoneBetter(most[u])'
                      /\ (\A u \in Thread : pc'[u] = "idle") => NoneBetter(active)'
    BY DEF BestFound
  <2>1. NoneBetter(m)
    BY <1>17
  <2>2. NoneBetter(m)'
    BY <2>1, <1>1, <1>8 DEF NoneBetter
  <2>3. ASSUME NEW u \in Thread, most'[u] # NoBlock PROVE NoneBetter(most[u])'
    <3>1. most'[u] = m
      BY <2>3, <1>6, <1>17
    <3> QED BY <2>2, <3>1 DEF NoneBetter
  <2>4. ASSUME \A u \in Thread : pc'[u] = "idle" PROVE NoneBetter(active)'
    <3>1. active' = m
      BY <2>4, <1>1, <1>6, <1>17
    <3> QED BY <2>2, <3>1 DEF NoneBetter
  <2> QED BY <2>3, <2>4
(* The new threshold: the old one, or the tip where that is better. *)
<1>20. PICK y \in {z, tip} : ~Worse(seq, y, z) /\ ~Worse(seq, y, tip)
  <2>1. z \in Block /\ ~Worse(seq, z, z)
    BY <1>2, WorseIrreflexive
  <2>2. CASE ~Worse(seq, z, tip)
    BY <2>1, <2>2
  <2>3. CASE Worse(seq, z, tip)
    <3>1. ~Worse(seq, tip, z)
      <4>1. Worse(seq, tip, z) => Worse(seq, z, z)
        BY <2>1, <2>3, <1>2, <1>3, WorseTransitive
      <4> QED BY <4>1, <2>1
    <3> QED BY <3>1, <1>10
  <2> QED BY <2>2, <2>3
<1>21. /\ y \in Block /\ y \in linked /\ y \in Chain[y] /\ Chain[y] \cap failed = {}
       /\ Chain[y] \cap BadScripts = {}
  BY <1>2, <1>3, <1>7, <1>10, <1>20, ChainLeast DEF Threshold
<1>22. y \notin skip /\ y \notin failed' /\ Chain[y] \cap failed' = {} /\ y \notin I
  BY <1>4, <1>9, <1>21
<1>23. ASSUME NEW x \in linked, x \notin failed', ~Worse(seq, x, y) PROVE x \in left /\ x \in candidates'
  <2>1. x \in Block /\ z \in Block /\ x \notin skip /\ x \notin I /\ x \notin failed
    BY <1>2, <1>8, <1>23
  <2>2. ~Worse(seq, x, z) /\ ~Worse(seq, x, tip)
    BY <1>2, <1>3, <1>20, <1>21, <1>23, <2>1, NotWorseTransitive
  <2>3. x \in candidates
    BY <2>1, <2>2 DEF Threshold
  <2> QED BY <2>1, <2>2, <2>3, <1>1, <1>5
<1>24. y \in left /\ y \in candidates'
  BY <1>2, <1>21, <1>22, <1>23, WorseIrreflexive
<1>25. ~aborted'
  BY <1>1, <1>24
<1>26. (\A u \in Thread : pc'[u] # "activating") => y = tip
  <2> SUFFICES ASSUME \A u \in Thread : pc'[u] # "activating", y # tip PROVE FALSE
    OBVIOUS
  <2>1. done /\ tip = m /\ y = z
    BY <1>6, <1>17, <1>20
  <2>2. ~Worse(seq, z, m) /\ z \in Block
    BY <2>1, <1>2, <1>20
  <2> QED BY <2>1, <2>2, <1>2, WorseTotal
<1>27. \A u \in Thread : most'[u] # NoBlock => ~Worse(seq, most'[u], y)
  <2>1. ~Worse(seq, m, y)
    BY <1>10, <1>20
  <2> QED BY <2>1, <1>6, <1>17
<1>28. Threshold(y)'
  BY <1>1, <1>20, <1>21, <1>22, <1>23, <1>26, <1>27 DEF Threshold
<1> QED BY <1>15, <1>18, <1>19, <1>24, <1>25, <1>28 DEF Turns

LEMMA TurnsKept == OneAtATime /\ Basic /\ Marks /\ Turns /\ [Next]_vars => Turns'
<1> SUFFICES ASSUME OneAtATime, Basic, Marks, Turns, [Next]_vars PROVE Turns'
  OBVIOUS
<1>1. CASE \E b \in Block : AcceptBlockHeader(b) \/ RefuseBlockHeader(b)
  BY <1>1, TurnsHeaders
<1>2. ASSUME NEW t \in Thread, ActivateBestChain(t) PROVE Turns'
  <2>1. PICK z \in candidates : Threshold(z)
    BY DEF Turns
  <2>2. PICK m \in Block, skip \in SUBSET Block :
              /\ m \in candidates /\ Chain[m] \cap failed = {} /\ ~Worse(seq, m, z)
              /\ \A x \in skip : Chain[x] \cap failed # {}
              /\ skip \subseteq linked \ Chain[active]
              /\ (\A u \in Thread \ {t} : pc[u] # "called") => NoneBetter(m)
              /\ \/ m = active /\ ActivateNothing(t, skip)
                 \/ m # active /\ ActivateBestChainStep(t, m, skip)
    BY <1>2, <2>1, Target
  <2>3. \A u \in Thread \ {t} : pc[u] # "activating" /\ most[u] = NoBlock
    BY <1>2, OthersWait
  <2>4. CASE m = active /\ ActivateNothing(t, skip)
    BY <2>1, <2>2, <2>3, <2>4, TurnsNothing
  <2>5. CASE m # active /\ ActivateBestChainStep(t, m, skip)
    BY <1>2, <2>1, <2>2, <2>3, <2>5, TurnsStep
  <2> QED BY <2>2, <2>4, <2>5
<1>3. CASE UNCHANGED vars
  BY <1>3 DEF Turns, TipRight, CallsRight, BestFound, NoneBetter, Threshold, failed, vars, index,
              failures, sequence, threads
<1> QED BY <1>1, <1>2, <1>3, TurnsCall, TurnsAccept, TurnsPrecious, TurnsInvalidate, TurnsReset
        DEF Next

LEMMA TurnsHold == OneAtATime => (Spec => [](Basic /\ Marks /\ Turns))
<1> SUFFICES ASSUME OneAtATime PROVE Spec => [](Basic /\ Marks /\ Turns)
  OBVIOUS
<1>1. Basic /\ Marks /\ Turns /\ [Next]_vars => Turns'
  BY TurnsKept
<1>2. Spec => []Marks
  BY MarksHold DEF OneAtATime
<1> QED BY <1>1, <1>2, TurnsInit, BasicHolds, PTL DEF Spec

-----------------------------------------------------------------------------
(* No assert of PruneBlockIndexCandidates or AcceptBlockHeader fails: the  *)
(* threshold is a candidate that no pruning and no mark takes away.        *)
THEOREM AssertsHold == OneAtATime => (Spec => []NoAssertFails)
<1>1. Turns => NoAssertFails
  BY DEF Turns, NoAssertFails
<1> QED BY <1>1, TurnsHold, PTL

(* The active chain holds no block that fails validation or that is marked *)
(* as failed: invalidateblock, headers refused and blocks found invalid    *)
(* never leave the tip above a failed one.                                 *)
THEOREM ActiveChainSound == OneAtATime => (Spec => []ActiveChainValid)
<1>1. Basic /\ Turns => ActiveChainValid
  BY BasicSets DEF Basic, Turns, TipRight, ActiveChainValid
<1> QED BY <1>1, TurnsHold, PTL

(* nChainTx, mapBlocksUnlinked and the failure marks agree with the data   *)
(* received, in whatever order headers and blocks come.                    *)
THEOREM LinksCorrect == OneAtATime => (Spec => []LinksRight)
<1>1. ASSUME Basic, Marks, Turns PROVE LinksRight
  <2>1. /\ linked \subseteq data /\ unlinked \subseteq data /\ unlinked \cap linked = {}
        /\ known \subseteq Block
        /\ \A b \in linked : Chain[b] \subseteq linked
        /\ \A b \in Block \ linked : seq[b] <= 0
    BY <1>1, BasicSets DEF Basic
  <2> QED BY <1>1, <2>1 DEF LinksRight, Marks, Turns, TipRight
<1> QED BY <1>1, TurnsHold, PTL

(* setBlockIndexCandidates has only linked blocks that are not worse than  *)
(* the tip, perhaps marked as failed, and among them a chain to fall back  *)
(* to.  Every linked block that is not worse and has no failed ancestor is *)
(* a candidate while no thread is in ActivateBestChain; during a call the  *)
(* theorem does not say so.                                                *)
THEOREM CandidatesCorrect == OneAtATime => (Spec => []CandidatesRight)
<1>1. ASSUME Basic, Marks, Turns PROVE CandidatesRight
  <2>1. PICK z \in candidates : Threshold(z)
    BY <1>1 DEF Turns
  <2>2. \A b \in candidates : b \in linked /\ ~Worse(seq, b, active)
    BY <1>1, BasicSets DEF Turns, TipRight
  <2>3. ASSUME \A t \in Thread : pc[t] # "activating", NEW b \in linked, ~Worse(seq, b, active),
               Chain[b] \cap failedValid = {}
        PROVE  b \in candidates
    <3>1. b \notin failed
      BY <1>1, <2>3 DEF Marks
    <3>2. z = active
      BY <2>1, <2>3 DEF Threshold
    <3> QED BY <2>1, <2>3, <3>1, <3>2 DEF Threshold
  <2>4. Chain[z] \cap failed = {}
    BY <2>1 DEF Threshold
  <2> QED BY <2>2, <2>3, <2>4 DEF CandidatesRight
<1> QED BY <1>1, TurnsHold, PTL

(* When no call is under way the best chain is active: the early ends of   *)
(* ActivateBestChainStep, the fall back from an invalid branch and the     *)
(* pruning never make a thread return below a sound better chain.          *)
THEOREM BestChainReached == OneAtATime => (Spec => []BestChainActivated)
<1>1. ASSUME Turns PROVE BestChainActivated
  <2> SUFFICES ASSUME \A t \in Thread : pc[t] = "idle" PROVE NoneBetter(active)
    BY DEF BestChainActivated, NoneBetter
  <2> QED BY <1>1 DEF Turns, BestFound
<1> QED BY <1>1, TurnsHold, PTL
=============================================================================
