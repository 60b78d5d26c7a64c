--------------------------- MODULE BlockTreeProofs ---------------------------
(***************************************************************************)
(* The tree of blocks, for any tree: what the modules that walk it rely    *)
(* on.  Induction over the tree is stated with a set of blocks.            *)
(***************************************************************************)
EXTENDS BlockTree, Integers, Sequences, FiniteSetTheorems, WellFoundedInduction, TLAPS

-----------------------------------------------------------------------------
(* Chains. *)

(* A chain is the least set with its tip that is closed under pprev. *)
LEMMA ChainLeast ==
    ASSUME NEW b \in Block
    PROVE  /\ b \in Chain[b] /\ Genesis \in Chain[b] /\ Chain[b] \subseteq Block
           /\ Closed(Chain[b])
           /\ \A S \in SUBSET Block : b \in S /\ Closed(S) => Chain[b] \subseteq S
<1>1. Chain[b] = {a \in Block : \A S \in SUBSET Block : b \in S /\ Closed(S) => a \in S}
  BY TreeAssumption DEF Chain
<1>2. b \in Chain[b] /\ Chain[b] \subseteq Block /\ Genesis \in Chain[b]
  BY <1>1, TreeAssumption
<1>3. \A S \in SUBSET Block : b \in S /\ Closed(S) => Chain[b] \subseteq S
  BY <1>1
<1>4. Closed(Chain[b])
  <2> SUFFICES ASSUME NEW c \in Chain[b] \ {Genesis} PROVE Parent[c] \in Chain[b]
    BY DEF Closed
  <2>1. Parent[c] \in Block
    BY <1>2, TreeAssumption
  <2>2. \A S \in SUBSET Block : b \in S /\ Closed(S) => Parent[c] \in S
    BY <1>3 DEF Closed
  <2> QED BY <2>1, <2>2, <1>1
<1> QED BY <1>2, <1>3, <1>4

LEMMA ChainOfNone == Chain[NoBlock] = {}
BY DEF Chain

(* The chain of an ancestor is part of the chain. *)
LEMMA ChainOfAncestor ==
    ASSUME NEW b \in Block, NEW a \in Chain[b]
    PROVE  a \in Block /\ Chain[a] \subseteq Chain[b]
<1>1. a \in Block /\ Closed(Chain[b]) /\ Chain[b] \in SUBSET Block
  BY ChainLeast
<1> QED BY <1>1, ChainLeast

(* The parent of a block. *)
LEMMA ParentBlock ==
    ASSUME NEW b \in Block, b # Genesis
    PROVE  Parent[b] \in Block /\ Parent[b] # NoBlock
BY TreeAssumption

(* A chain, one block at a time. *)
LEMMA ChainStep ==
    /\ Chain[Genesis] = {Genesis}
    /\ \A b \in Block \ {Genesis} : Chain[b] = {b} \cup Chain[Parent[b]]
<1>1. Chain[Genesis] = {Genesis}
  <2>1. Genesis \in Block /\ {Genesis} \in SUBSET Block /\ Closed({Genesis})
    BY TreeAssumption DEF Closed
  <2> QED BY <2>1, ChainLeast
<1>2. ASSUME NEW b \in Block \ {Genesis}
      PROVE  Chain[b] = {b} \cup Chain[Parent[b]]
  <2>1. Parent[b] \in Block
    BY ParentBlock
  <2>2. /\ Chain[Parent[b]] \subseteq Block /\ Closed(Chain[Parent[b]])
        /\ Parent[b] \in Chain[Parent[b]]
    BY <2>1, ChainLeast
  <2>3. Closed({b} \cup Chain[Parent[b]])
    BY <2>2 DEF Closed
  <2>4. Chain[b] \subseteq {b} \cup Chain[Parent[b]]
    BY <2>2, <2>3, ChainLeast
  <2>5. b \in Chain[b] /\ Parent[b] \in Chain[b]
    BY ChainLeast DEF Closed
  <2>6. Chain[Parent[b]] \subseteq Chain[b]
    BY <2>5, ChainOfAncestor
  <2> QED BY <2>4, <2>5, <2>6
<1> QED BY <1>1, <1>2

(* Induction along the tree. *)
LEMMA TreeInduction ==
    ASSUME NEW S \in SUBSET Block, Genesis \in S,
           \A b \in Block \ {Genesis} : Parent[b] \in S => b \in S
    PROVE  S = Block
<1> SUFFICES ASSUME NEW b \in Block, b \notin S PROVE FALSE
  OBVIOUS
<1>1. Closed(Block \ S)
  BY ParentBlock DEF Closed
<1>2. Chain[b] \subseteq Block \ S
  BY <1>1, ChainLeast
<1> QED BY <1>2, ChainLeast

(* There are no cycles. *)
LEMMA NotOwnAncestor ==
    \A b \in Block \ {Genesis} : b \notin Chain[Parent[b]]
<1> DEFINE S == {b \in Block : b # Genesis => b \notin Chain[Parent[b]]}
<1>1. Genesis \in S
  BY TreeAssumption
<1>2. ASSUME NEW b \in Block \ {Genesis}, Parent[b] \in S, b \in Chain[Parent[b]]
      PROVE  FALSE
  <2>1. Parent[b] \in Block /\ Parent[b] # Genesis
    BY <1>2, ParentBlock, ChainStep
  <2>2. Chain[Parent[b]] = {Parent[b]} \cup Chain[Parent[Parent[b]]]
    BY <2>1, ChainStep
  <2>3. Parent[b] \notin Chain[Parent[Parent[b]]] /\ Parent[Parent[b]] \in Block
    BY <1>2, <2>1, ParentBlock
  <2>4. CASE b = Parent[b]
    <3>1. Parent[Parent[b]] = Parent[b]
      BY <2>4
    <3> QED BY <3>1, <2>1, <2>3, ChainLeast
  <2>5. CASE b # Parent[b]
    <3>1. Chain[b] \subseteq Chain[Parent[Parent[b]]]
      BY <1>2, <2>2, <2>3, <2>5, ChainOfAncestor
    <3>2. Parent[b] \in Chain[b]
      BY ChainLeast DEF Closed
    <3> QED BY <3>1, <3>2, <2>3
  <2> QED BY <2>4, <2>5
<1>3. \A b \in Block \ {Genesis} : Parent[b] \in S => b \in S
  BY <1>2
<1>4. S \in SUBSET Block
  OBVIOUS
<1> HIDE DEF S
<1>5. S = Block
  BY <1>1, <1>3, <1>4, TreeInduction
<1> QED BY <1>5 DEF S

(* Of two different blocks at most one descends from the other. *)
LEMMA ChainAntisymmetric ==
    ASSUME NEW a \in Block, NEW b \in Block, a \in Chain[b], b \in Chain[a]
    PROVE  a = b
<1> SUFFICES ASSUME a # b PROVE FALSE
  OBVIOUS
<1>1. b # Genesis
  BY ChainStep
<1>2. a \in Chain[Parent[b]] /\ Parent[b] \in Block
  BY <1>1, ChainStep, ParentBlock
<1>3. b \in Chain[Parent[b]]
  BY <1>2, ChainOfAncestor
<1> QED BY <1>1, <1>3, NotOwnAncestor

(* The ancestors of a block are in a line. *)
LEMMA ChainLinear ==
    ASSUME NEW c \in Block, NEW a \in Chain[c], NEW b \in Chain[c]
    PROVE  a \in Chain[b] \/ b \in Chain[a]
<1> DEFINE S == {x \in Block : \A u, v \in Chain[x] : u \in Chain[v] \/ v \in Chain[u]}
<1>1. Genesis \in S
  BY ChainStep, TreeAssumption
<1>2. ASSUME NEW x \in Block \ {Genesis}, Parent[x] \in S PROVE x \in S
  <2> SUFFICES ASSUME NEW u \in Chain[x], NEW v \in Chain[x]
               PROVE  u \in Chain[v] \/ v \in Chain[u]
    OBVIOUS
  <2>1. CASE u = x \/ v = x
    BY <2>1, ChainLeast
  <2>2. CASE u # x /\ v # x
    <3>1. u \in Chain[Parent[x]] /\ v \in Chain[Parent[x]]
      BY <2>2, ChainStep
    <3> QED BY <3>1, <1>2
  <2> QED BY <2>1, <2>2
<1>3. S \in SUBSET Block
  OBVIOUS
<1> HIDE DEF S
<1>4. S = Block
  BY <1>1, <1>2, <1>3, TreeInduction
<1> QED BY <1>4 DEF S

-----------------------------------------------------------------------------
(* Heights. *)

(* Chains are finite. *)
LEMMA ChainFinite ==
    \A b \in Block : IsFiniteSet(Chain[b])
<1> DEFINE S == {b \in Block : IsFiniteSet(Chain[b])}
<1>1. Genesis \in S
  <2>1. IsFiniteSet({Genesis})
    BY FS_Singleton
  <2> QED BY <2>1, ChainStep, TreeAssumption
<1>2. ASSUME NEW b \in Block \ {Genesis}, Parent[b] \in S PROVE b \in S
  <2>1. IsFiniteSet(Chain[Parent[b]] \cup {b})
    BY <1>2, FS_AddElement
  <2>2. Chain[b] = Chain[Parent[b]] \cup {b}
    BY ChainStep
  <2> QED BY <2>1, <2>2
<1>3. S \in SUBSET Block
  OBVIOUS
<1> HIDE DEF S
<1>4. S = Block
  BY <1>1, <1>2, <1>3, TreeInduction
<1> QED BY <1>4 DEF S

(* nHeight, one block at a time. *)
LEMMA HeightStep ==
    /\ Height[Genesis] = 0
    /\ \A b \in Block : Height[b] \in Nat
    /\ \A b \in Block \ {Genesis} : Height[b] = Height[Parent[b]] + 1
<1>1. \A b \in Block : Height[b] = Cardinality(Chain[b]) - 1
  BY DEF Height
<1>2. Cardinality(Chain[Genesis]) = 1
  BY ChainStep, FS_Singleton
<1>3. \A b \in Block : Cardinality(Chain[b]) \in Nat
  BY ChainFinite, FS_CardinalityType
<1>4. ASSUME NEW b \in Block \ {Genesis}
      PROVE  Cardinality(Chain[b]) = Cardinality(Chain[Parent[b]]) + 1
  <2>1. Parent[b] \in Block /\ b \notin Chain[Parent[b]]
    BY ParentBlock, NotOwnAncestor
  <2>2. Chain[b] = Chain[Parent[b]] \cup {b}
    BY ChainStep
  <2> QED BY <2>1, <2>2, ChainFinite, FS_AddElement
<1>5. \A b \in Block : Cardinality(Chain[b]) # 0
  BY ChainFinite, ChainLeast, FS_EmptySet
<1>6. \A b \in Block : Height[b] \in Nat
  BY <1>1, <1>3, <1>5
<1>7. \A b \in Block \ {Genesis} : Height[b] = Height[Parent[b]] + 1
  BY <1>1, <1>3, <1>4, ParentBlock
<1> QED BY <1>1, <1>2, <1>6, <1>7, TreeAssumption

(* An ancestor is lower. *)
LEMMA HeightOfAncestor ==
    ASSUME NEW b \in Block, NEW a \in Chain[b]
    PROVE  /\ a \in Block /\ Height[a] \in Nat /\ Height[b] \in Nat
           /\ Height[a] <= Height[b] /\ (Height[a] = Height[b] => a = b)
<1> DEFINE S == {x \in Block : \A u \in Chain[x] : u = x \/ Height[u] < Height[x]}
<1>1. Genesis \in S
  BY ChainStep, TreeAssumption
<1>2. ASSUME NEW x \in Block \ {Genesis}, Parent[x] \in S PROVE x \in S
  <2> SUFFICES ASSUME NEW u \in Chain[x], u # x PROVE Height[u] < Height[x]
    OBVIOUS
  <2>1. u \in Chain[Parent[x]] /\ Parent[x] \in Block /\ u \in Block
    BY ChainStep, ParentBlock, ChainLeast
  <2>2. u = Parent[x] \/ Height[u] < Height[Parent[x]]
    BY <1>2, <2>1
  <2>3. Height[u] \in Nat /\ Height[Parent[x]] \in Nat /\ Height[x] = Height[Parent[x]] + 1
    BY <2>1, HeightStep
  <2> QED BY <2>2, <2>3
<1>3. S \in SUBSET Block
  OBVIOUS
<1>4. S = Block
  <2> HIDE DEF S
  <2> QED BY <1>1, <1>2, <1>3, TreeInduction
<1>5. a = b \/ Height[a] < Height[b]
  BY <1>4
<1>6. a \in Block
  BY ChainLeast
<1>7. Height[a] \in Nat /\ Height[b] \in Nat
  BY <1>6, HeightStep
<1> QED BY <1>5, <1>6, <1>7

(* GetAncestor finds one block at every height up to that of the block. *)
LEMMA AncestorAt ==
    ASSUME NEW b \in Block, NEW h \in 0..Height[b]
    PROVE  \E a \in Chain[b] : Height[a] = h /\ \A c \in Chain[b] : Height[c] = h => c = a
<1> DEFINE S == {x \in Block : \A k \in 0..Height[x] : \E a \in Chain[x] : Height[a] = k}
<1>1. Genesis \in S
  BY ChainStep, HeightStep, TreeAssumption
<1>2. ASSUME NEW x \in Block \ {Genesis}, Parent[x] \in S PROVE x \in S
  <2> SUFFICES ASSUME NEW k \in 0..Height[x] PROVE \E a \in Chain[x] : Height[a] = k
    OBVIOUS
  <2>1. Height[x] = Height[Parent[x]] + 1 /\ Parent[x] \in Block /\ Height[Parent[x]] \in Nat
    BY HeightStep, ParentBlock
  <2>2. CASE k = Height[x]
    BY <2>2, ChainLeast
  <2>3. CASE k # Height[x]
    <3>1. k \in 0..Height[Parent[x]]
      BY <2>1, <2>3
    <3> QED BY <3>1, <1>2, ChainStep
  <2> QED BY <2>2, <2>3
<1>3. S \in SUBSET Block
  OBVIOUS
<1>4. S = Block
  <2> HIDE DEF S
  <2> QED BY <1>1, <1>2, <1>3, TreeInduction
<1>5. PICK a \in Chain[b] : Height[a] = h
  BY <1>4
<1>6. ASSUME NEW c \in Chain[b], Height[c] = h PROVE c = a
  <2>1. a \in Block /\ c \in Block
    BY ChainLeast
  <2>2. c \in Chain[a] \/ a \in Chain[c]
    BY ChainLinear
  <2> QED BY <2>1, <2>2, <1>5, <1>6, HeightOfAncestor
<1> QED BY <1>5, <1>6

(* Of two ancestors of a block, the lower one is an ancestor of the other. *)
LEMMA AncestorByHeight ==
    ASSUME NEW c \in Block, NEW a \in Chain[c], NEW b \in Chain[c]
    PROVE  a \in Chain[b] <=> Height[a] <= Height[b]
<1>1. a \in Block /\ b \in Block /\ (a \in Chain[b] \/ b \in Chain[a])
  BY ChainLeast, ChainLinear
<1>2. a \in Chain[b] => Height[a] <= Height[b]
  BY <1>1, HeightOfAncestor
<1>3. ASSUME b \in Chain[a], Height[a] <= Height[b] PROVE a \in Chain[b]
  <2>1. Height[a] \in Nat /\ Height[b] \in Nat /\ Height[b] <= Height[a]
    BY <1>1, <1>3, HeightOfAncestor
  <2>2. Height[a] = Height[b]
    BY <2>1, <1>3
  <2>3. a = b
    BY <1>1, <1>3, <2>2, HeightOfAncestor
  <2> QED BY <1>1, <2>3, ChainLeast
<1> QED BY <1>1, <1>2, <1>3

(* A set of natural numbers has a least element, *)
LEMMA LeastNatural ==
    ASSUME NEW T \in SUBSET Nat, T # {}
    PROVE  \E x \in T : \A y \in T : x <= y
<1> DEFINE R == OpToRel(<, Nat)
<1>1. IsWellFoundedOn(R, Nat)
  BY NatLessThanWellFounded
<1>2. PICK x \in T : \A y \in T : <<y, x>> \notin R
  BY <1>1, WFMin
<1>3. \A y \in T : ~(y < x)
  BY <1>2 DEF OpToRel
<1>4. x \in Nat /\ \A y \in T : y \in Nat
  OBVIOUS
<1>5. \A y \in T : x <= y
  BY <1>3, <1>4
<1> HIDE DEF R
<1> QED BY <1>5

(* and a greatest one if it is bounded. *)
LEMMA GreatestNatural ==
    ASSUME NEW n \in Nat, NEW T \in SUBSET (0..n), T # {}
    PROVE  \E x \in T : \A y \in T : y <= x
<1> DEFINE U == {n - x : x \in T}
<1>1. \A x \in T : n - x \in Nat
  OBVIOUS
<1>0. U \in SUBSET Nat /\ U # {}
  BY <1>1
<1> HIDE DEF U
<1>2. PICK u \in U : \A v \in U : u <= v
  BY <1>0, LeastNatural
<1>3. PICK x \in T : u = n - x
  BY DEF U
<1>4. ASSUME NEW y \in T PROVE y <= x
  <2>1. n - y \in U
    BY DEF U
  <2>2. n - x <= n - y
    BY <2>1, <1>2, <1>3
  <2> QED BY <2>2
<1> QED BY <1>4

(* LastCommonAncestor is the tip of what two chains have in common. *)
LEMMA CommonChain ==
    ASSUME NEW a \in Block, NEW b \in Block
    PROVE  LET f == LastCommonAncestor(a, b)
           IN  f \in Block /\ f \in Chain[a] /\ f \in Chain[b] /\ Chain[a] \cap Chain[b] = Chain[f]
<1> DEFINE both == Chain[a] \cap Chain[b]
           T == {Height[f] : f \in both}
<1>1. \A f \in both : Height[f] \in Nat /\ Height[f] <= Height[a]
  BY HeightOfAncestor
<1>2. Height[a] \in Nat /\ Genesis \in both
  BY HeightStep, ChainLeast
<1>3. T \in SUBSET (0..Height[a]) /\ T # {}
  BY <1>1, <1>2
<1>4. PICK h \in T : \A k \in T : k <= h
  <2> HIDE DEF T
  <2> QED BY <1>2, <1>3, GreatestNatural
<1>5. \E f \in both : \A g \in both : Height[g] <= Height[f]
  BY <1>4
<1> DEFINE f == LastCommonAncestor(a, b)
<1>6. f \in both /\ \A g \in both : Height[g] <= Height[f]
  BY <1>5 DEF LastCommonAncestor
<1>7. f \in Block /\ Chain[f] \subseteq both
  BY <1>6, ChainOfAncestor
<1>8. ASSUME NEW g \in both PROVE g \in Chain[f]
  <2> HIDE DEF f
  <2>1. g \in Chain[a] /\ f \in Chain[a] /\ Height[g] <= Height[f]
    BY <1>6
  <2> QED BY <2>1, AncestorByHeight
<1> QED BY <1>6, <1>7, <1>8

(* Two ancestors of a block at the same height are the same. *)
LEMMA SameHeight ==
    ASSUME NEW c \in Block, NEW a \in Chain[c], NEW b \in Chain[c], Height[a] = Height[b]
    PROVE  a = b
<1>1. a \in Block /\ b \in Block /\ (a \in Chain[b] \/ b \in Chain[a])
  BY ChainLeast, ChainLinear
<1> QED BY <1>1, HeightOfAncestor

(* The ancestors that Branch lists are those of the heights it goes through. *)
LEMMA BranchRight ==
    ASSUME NEW b \in Block, NEW low \in 0..(Height[b] + 1)
    PROVE  /\ Branch(b, low) \in Seq(Block)
           /\ Len(Branch(b, low)) = Height[b] + 1 - low
           /\ \A i \in 1..(Height[b] + 1 - low) :
                 Branch(b, low)[i] \in Chain[b] /\ Height[Branch(b, low)[i]] = low + i - 1
<1> DEFINE n == Height[b] + 1 - low
           pick(i) == CHOOSE a \in Chain[b] : Height[a] = low + i - 1
<1>1. Height[b] \in Nat
  BY HeightStep
<1>2. n \in Nat
  BY <1>1
<1>3. ASSUME NEW i \in 1..n PROVE pick(i) \in Chain[b] /\ Height[pick(i)] = low + i - 1
  <2>1. low + i - 1 \in 0..Height[b]
    BY <1>1
  <2>2. \E a \in Chain[b] : Height[a] = low + i - 1
    BY <2>1, AncestorAt
  <2> QED BY <2>2
<1>4. \A i \in 1..n : pick(i) \in Block
  BY <1>3, ChainLeast
<1>5. Branch(b, low) = [i \in 1..n |-> pick(i)]
  BY DEF Branch
<1> HIDE DEF n, pick
<1>6. Branch(b, low) \in Seq(Block) /\ Len(Branch(b, low)) = n
  BY <1>2, <1>4, <1>5
<1>7. \A i \in 1..n : Branch(b, low)[i] \in Chain[b] /\ Height[Branch(b, low)[i]] = low + i - 1
  BY <1>3, <1>5
<1> QED BY <1>6, <1>7 DEF n
-----------------------------------------------------------------------------
(* Loops: what the modules that apply a block step by step rely on. *)

(* Induction over the rounds of a loop, up and down. *)
LEMMA RoundsUp ==
    ASSUME NEW n \in Nat, NEW T, 0 \in T, \A i \in 1..n : i - 1 \in T => i \in T
    PROVE  0..n \subseteq T
<1> DEFINE N == {k \in 0..n : k \notin T}
<1> SUFFICES ASSUME N # {} PROVE FALSE
  OBVIOUS
<1>1. PICK k \in N : \A l \in N : k <= l
  <2>1. N \in SUBSET Nat
    OBVIOUS
  <2> HIDE DEF N
  <2> QED BY <2>1, LeastNatural
<1>2. k # 0 /\ k \in 0..n /\ k \notin T
  BY <1>1
<1>3. k - 1 \in 0..n /\ ~(k <= k - 1) /\ k \in 1..n
  BY <1>2
<1>4. k - 1 \in T
  BY <1>1, <1>3
<1> QED BY <1>2, <1>3, <1>4

LEMMA RoundsDown ==
    ASSUME NEW n \in Nat, NEW T, n + 1 \in T, \A i \in 1..n : i + 1 \in T => i \in T
    PROVE  1..(n + 1) \subseteq T
<1> DEFINE U == {k \in 0..n : n + 1 - k \in T}
<1>1. 0 \in U
  OBVIOUS
<1>2. ASSUME NEW i \in 1..n, i - 1 \in U PROVE i \in U
  <2>1. n + 1 - i \in 1..n /\ n + 1 - (i - 1) = (n + 1 - i) + 1
    OBVIOUS
  <2>2. n + 1 - (i - 1) \in T
    BY <1>2
  <2> QED BY <2>1, <2>2
<1>3. 0..n \subseteq U
  <2> HIDE DEF U
  <2> QED BY <1>1, <1>2, RoundsUp
<1>4. ASSUME NEW i \in 1..(n + 1) PROVE i \in T
  <2>1. n + 1 - i \in 0..n /\ n + 1 - (n + 1 - i) = i
    OBVIOUS
  <2>2. n + 1 - i \in U
    BY <1>3, <2>1
  <2> QED BY <2>1, <2>2
<1> QED BY <1>4

(* A loop of n rounds over values of V: step[i] is its body in round i,    *)
(* and f its run, up from round 1 or down from round n.                    *)
Body(step, n, V) == \A i \in 1..n : \A x \in V : step[i][x] \in V

RunUp(f, step, n, V, v) ==
    f \in [0..n -> V] /\ f[0] = v /\ \A i \in 1..n : f[i] = step[i][f[i - 1]]

RunDown(f, step, n, V, v) ==
    f \in [1..(n + 1) -> V] /\ f[n + 1] = v /\ \A i \in 1..n : f[i] = step[i][f[i + 1]]

LEMMA LoopRuns ==
    ASSUME NEW n \in Nat, NEW V, NEW v \in V, NEW step, Body(step, n, V)
    PROVE  \E f : RunUp(f, step, n, V, v)
<1> DEFINE T == {k \in 0..n : \E f : RunUp(f, step, k, V, v)}
<1>1. 0 \in T
  <2> DEFINE g == [i \in 0..0 |-> v]
  <2>1. RunUp(g, step, 0, V, v) /\ 0 \in 0..n
    BY DEF RunUp
  <2> HIDE DEF g
  <2> QED BY <2>1
<1>2. ASSUME NEW k \in 1..n, k - 1 \in T PROVE k \in T
  <2>1. PICK f : RunUp(f, step, k - 1, V, v)
    BY <1>2
  <2>0. f \in [0..(k - 1) -> V] /\ f[0] = v /\ \A i \in 1..(k - 1) : f[i] = step[i][f[i - 1]]
    BY <2>1 DEF RunUp
  <2> DEFINE g == [i \in 0..k |-> IF i = k THEN step[k][f[k - 1]] ELSE f[i]]
  <2>2. f[k - 1] \in V /\ k \in Nat /\ k - 1 \in 0..(k - 1)
    BY <2>0
  <2>3. step[k][f[k - 1]] \in V
    BY <2>2 DEF Body
  <2>4. \A i \in 0..k : i # k => i \in 0..(k - 1)
    BY <2>2
  <2>5. g \in [0..k -> V]
    BY <2>0, <2>3, <2>4
  <2>6. g[0] = v
    BY <2>0, <2>2
  <2>7. ASSUME NEW i \in 1..k PROVE g[i] = step[i][g[i - 1]]
    <3>1. i - 1 \in 0..k /\ i - 1 # k /\ i \in 0..k
      BY <2>2
    <3>2. g[i - 1] = f[i - 1]
      BY <3>1
    <3>3. CASE i = k
      BY <3>1, <3>2, <3>3
    <3>4. CASE i # k
      <4>1. i \in 1..(k - 1)
        BY <3>4, <2>2
      <4>2. g[i] = f[i]
        BY <3>1, <3>4
      <4> QED BY <4>1, <4>2, <3>2, <2>0
    <3> QED BY <3>3, <3>4
  <2>8. RunUp(g, step, k, V, v)
    <3> HIDE DEF g
    <3> QED BY <2>5, <2>6, <2>7 DEF RunUp
  <2>9. k \in 0..n
    OBVIOUS
  <2> HIDE DEF g
  <2> QED BY <2>8, <2>9
<1>3. n \in T
  <2> HIDE DEF T
  <2>1. n \in 0..n
    OBVIOUS
  <2> QED BY <1>1, <1>2, <2>1, RoundsUp
<1> QED BY <1>3

LEMMA LoopRunsDown ==
    ASSUME NEW n \in Nat, NEW V, NEW v \in V, NEW step, Body(step, n, V)
    PROVE  \E f : RunDown(f, step, n, V, v)
<1> DEFINE back == [i \in 1..n |-> step[n + 1 - i]]
<1>1. \A i \in 1..n : n + 1 - i \in 1..n
  OBVIOUS
<1>2. Body(back, n, V)
  BY <1>1 DEF Body
<1>3. PICK g : RunUp(g, back, n, V, v)
  <2> HIDE DEF back
  <2> QED BY <1>2, LoopRuns
<1>0. g \in [0..n -> V] /\ g[0] = v /\ \A i \in 1..n : g[i] = back[i][g[i - 1]]
  <2> HIDE DEF back
  <2> QED BY <1>3 DEF RunUp
<1> DEFINE f == [i \in 1..(n + 1) |-> g[n + 1 - i]]
<1>4. f \in [1..(n + 1) -> V]
  <2>1. \A i \in 1..(n + 1) : n + 1 - i \in 0..n
    OBVIOUS
  <2> QED BY <1>0, <2>1
<1>5. f[n + 1] = v
  <2>1. n + 1 \in 1..(n + 1) /\ n + 1 - (n + 1) = 0
    OBVIOUS
  <2> QED BY <2>1, <1>0
<1>6. ASSUME NEW i \in 1..n PROVE f[i] = step[i][f[i + 1]]
  <2>1. /\ n + 1 - i \in 1..n /\ n + 1 - (n + 1 - i) = i /\ n + 1 - i - 1 = n + 1 - (i + 1)
        /\ i \in 1..(n + 1) /\ i + 1 \in 1..(n + 1)
    OBVIOUS
  <2>2. f[i] = g[n + 1 - i] /\ f[i + 1] = g[n + 1 - (i + 1)]
    BY <2>1
  <2>3. g[n + 1 - i] = back[n + 1 - i][g[n + 1 - i - 1]]
    BY <2>1, <1>0
  <2>4. back[n + 1 - i] = step[i]
    BY <2>1
  <2> QED BY <2>1, <2>2, <2>3, <2>4
<1> HIDE DEF f
<1> QED BY <1>4, <1>5, <1>6 DEF RunDown
=============================================================================
