---------------------------- MODULE MempoolProofs ----------------------------
(***************************************************************************)
(* The memory pool, for any transactions, any limits and any tree of valid *)
(* blocks: its indexes are those of its entries, and every input of an     *)
(* entry is available.                                                     *)
(***************************************************************************)
EXTENDS Mempool, BlockTreeProofs, SequenceTheorems

-----------------------------------------------------------------------------
(* Sums over sets. *)

SumRun(g, f, S) ==
    g = [s \in SUBSET S |-> IF s = {} THEN 0
                            ELSE LET x == CHOOSE x \in s : TRUE IN f[x] + g[s \ {x}]]

Sum(f, S) == (CHOOSE g : SumRun(g, f, S))[S]

(* The subsets with at most n members, and a sum defined on them. *)
UpTo(S, n) == {s \in SUBSET S : Cardinality(s) <= n}
SumUpTo(g, f, S, n) ==
    /\ g \in [UpTo(S, n) -> Int]
    /\ \A s \in UpTo(S, n) :
          g[s] = IF s = {} THEN 0 ELSE f[CHOOSE x \in s : TRUE] + g[s \ {CHOOSE x \in s : TRUE}]

LEMMA SumExtends ==
    ASSUME NEW S, IsFiniteSet(S), NEW f, \A x \in S : f[x] \in Int, NEW n \in Nat \ {0},
           NEW g, SumUpTo(g, f, S, n - 1)
    PROVE  \E h : SumUpTo(h, f, S, n)
<1> DEFINE c(s) == CHOOSE x \in s : TRUE
           h == [s \in UpTo(S, n) |-> IF s = {} THEN 0 ELSE f[c(s)] + g[s \ {c(s)}]]
<1>1. ASSUME NEW s \in SUBSET S, s # {}
      PROVE  c(s) \in s /\ c(s) \in S /\ f[c(s)] \in Int
  BY <1>1
<1>2. ASSUME NEW s \in UpTo(S, n), s # {}
      PROVE  s \ {c(s)} \in UpTo(S, n - 1) /\ s \ {c(s)} \in UpTo(S, n) /\ g[s \ {c(s)}] \in Int
  <2>1. s \in SUBSET S /\ Cardinality(s) <= n /\ c(s) \in s
    BY <1>1, <1>2 DEF UpTo
  <2>2. IsFiniteSet(s) /\ Cardinality(s) \in Nat
    BY <2>1, FS_Subset, FS_CardinalityType
  <2>3. Cardinality(s \ {c(s)}) = Cardinality(s) - 1
    <3> HIDE DEF c
    <3> QED BY <2>1, <2>2, FS_RemoveElement
  <2>4. s \ {c(s)} \in UpTo(S, n - 1) /\ s \ {c(s)} \in UpTo(S, n)
    <3> HIDE DEF c
    <3> QED BY <2>1, <2>2, <2>3 DEF UpTo
  <2> QED BY <2>4 DEF SumUpTo
<1>3. h \in [UpTo(S, n) -> Int]
  <2> SUFFICES ASSUME NEW s \in UpTo(S, n), s # {} PROVE f[c(s)] + g[s \ {c(s)}] \in Int
    OBVIOUS
  <2>1. s \in SUBSET S
    BY DEF UpTo
  <2>2. f[c(s)] \in Int /\ g[s \ {c(s)}] \in Int
    <3> HIDE DEF c
    <3> QED BY <1>1, <1>2, <2>1
  <2> HIDE DEF c
  <2> QED BY <2>2
<1>4. ASSUME NEW s \in UpTo(S, n - 1) PROVE s \in UpTo(S, n) /\ h[s] = g[s]
  <2>1. s \in UpTo(S, n)
    <3>1. s \in SUBSET S /\ Cardinality(s) <= n - 1
      BY DEF UpTo
    <3>2. Cardinality(s) \in Nat
      BY <3>1, FS_Subset, FS_CardinalityType
    <3> QED BY <3>1, <3>2 DEF UpTo
  <2> QED BY <2>1 DEF SumUpTo
<1>5. ASSUME NEW s \in UpTo(S, n)
      PROVE  h[s] = IF s = {} THEN 0 ELSE f[c(s)] + h[s \ {c(s)}]
  <2>1. CASE s = {}
    BY <2>1
  <2>2. CASE s # {}
    <3>1. h[s \ {c(s)}] = g[s \ {c(s)}]
      <4> HIDE DEF c, h
      <4> QED BY <1>2, <1>4, <2>2
    <3> QED BY <2>2, <3>1
  <2> QED BY <2>1, <2>2
<1>6. SumUpTo(h, f, S, n)
  <2> HIDE DEF h
  <2> QED BY <1>3, <1>5 DEF SumUpTo
<1> HIDE DEF h
<1> QED BY <1>6

LEMMA SumRuns ==
    ASSUME NEW S, IsFiniteSet(S), NEW f, \A x \in S : f[x] \in Int
    PROVE  \E g \in [SUBSET S -> Int] : SumRun(g, f, S)
<1> DEFINE N == Cardinality(S)
           T == {n \in 0..N : \E g : SumUpTo(g, f, S, n)}
<1>1. N \in Nat
  BY FS_CardinalityType
<1>2. 0 \in T
  <2> DEFINE g == [s \in UpTo(S, 0) |-> 0]
  <2>1. ASSUME NEW s \in UpTo(S, 0) PROVE s = {}
    <3>1. s \in SUBSET S /\ Cardinality(s) <= 0
      BY DEF UpTo
    <3>2. IsFiniteSet(s) /\ Cardinality(s) \in Nat
      BY <3>1, FS_Subset, FS_CardinalityType
    <3> QED BY <3>1, <3>2, FS_EmptySet
  <2>2. SumUpTo(g, f, S, 0)
    BY <2>1 DEF SumUpTo
  <2> HIDE DEF g
  <2> QED BY <1>1, <2>2
<1>3. ASSUME NEW n \in 1..N, n - 1 \in T PROVE n \in T
  <2>1. PICK g : SumUpTo(g, f, S, n - 1)
    BY <1>3
  <2>2. n \in Nat \ {0} /\ n \in 0..N
    BY <1>1
  <2> QED BY <2>1, <2>2, SumExtends
<1>4. N \in T
  <2>1. 0..N \subseteq T
    <3> HIDE DEF N, T
    <3> QED BY <1>1, <1>2, <1>3, RoundsUp
  <2> QED BY <1>1, <2>1
<1>5. PICK g : SumUpTo(g, f, S, N)
  BY <1>4
<1>6. UpTo(S, N) = SUBSET S
  BY FS_Subset DEF UpTo
<1>7. g \in [SUBSET S -> Int] /\ SumRun(g, f, S)
  BY <1>5, <1>6 DEF SumUpTo, SumRun
<1> QED BY <1>7

(* Induction over the subsets of a finite set. *)
LEMMA SubsetInduction ==
    ASSUME NEW S, IsFiniteSet(S), NEW T, {} \in T,
           \A s \in SUBSET S : s # {} /\ (\A x \in s : s \ {x} \in T) => s \in T
    PROVE  SUBSET S \subseteq T
<1> DEFINE N == Cardinality(S)
           I == {n \in 0..N : UpTo(S, n) \subseteq T}
<1>1. N \in Nat
  BY FS_CardinalityType
<1>2. ASSUME NEW s \in SUBSET S PROVE IsFiniteSet(s) /\ Cardinality(s) \in Nat /\ Cardinality(s) <= N
  BY FS_Subset, FS_CardinalityType
<1>3. 0 \in I
  <2>1. ASSUME NEW s \in UpTo(S, 0) PROVE s = {}
    <3>1. s \in SUBSET S /\ Cardinality(s) <= 0
      BY DEF UpTo
    <3> QED BY <1>2, <3>1, FS_EmptySet
  <2>2. 0 \in 0..N
    BY <1>1
  <2>3. UpTo(S, 0) \subseteq T
    BY <2>1
  <2> QED BY <2>2, <2>3
<1>4. ASSUME NEW n \in 1..N, n - 1 \in I PROVE n \in I
  <2>1. ASSUME NEW s \in UpTo(S, n), s # {}, NEW x \in s PROVE s \ {x} \in T
    <3>1. s \in SUBSET S /\ Cardinality(s) <= n
      BY DEF UpTo
    <3>2. IsFiniteSet(s) /\ Cardinality(s) \in Nat /\ Cardinality(s \ {x}) = Cardinality(s) - 1
      BY <1>2, <3>1, FS_RemoveElement
    <3>3. s \ {x} \in UpTo(S, n - 1)
      BY <1>1, <3>1, <3>2 DEF UpTo
    <3> QED BY <1>4, <3>3
  <2>2. UpTo(S, n) \subseteq SUBSET S
    BY DEF UpTo
  <2>3. UpTo(S, n) \subseteq T
    BY <2>1, <2>2
  <2>4. n \in 0..N
    BY <1>1
  <2> QED BY <2>3, <2>4
<1>5. N \in I
  <2>1. 0..N \subseteq I
    <3> HIDE DEF N, I
    <3> QED BY <1>1, <1>3, <1>4, RoundsUp
  <2> QED BY <1>1, <2>1
<1> QED BY <1>2, <1>5 DEF UpTo

(* The recursion has one solution. *)
Adds(g, f, S) ==
    \A s \in SUBSET S : g[s] = IF s = {} THEN 0 ELSE f[CHOOSE x \in s : TRUE] + g[s \ {CHOOSE x \in s : TRUE}]

LEMMA SumUnique ==
    ASSUME NEW S, IsFiniteSet(S), NEW f, NEW g, Adds(g, f, S), NEW h, Adds(h, f, S)
    PROVE  \A s \in SUBSET S : g[s] = h[s]
<1> DEFINE T == {s \in SUBSET S : g[s] = h[s]}
           c(s) == CHOOSE x \in s : TRUE
<1>1. \A s \in SUBSET S : /\ g[s] = IF s = {} THEN 0 ELSE f[c(s)] + g[s \ {c(s)}]
                          /\ h[s] = IF s = {} THEN 0 ELSE f[c(s)] + h[s \ {c(s)}]
  BY DEF Adds
<1>2. ASSUME NEW s \in SUBSET S, s # {}, \A x \in s : s \ {x} \in T PROVE s \in T
  <2>1. c(s) \in s
    BY <1>2
  <2> HIDE DEF c
  <2>2. g[s \ {c(s)}] = h[s \ {c(s)}]
    BY <1>2, <2>1
  <2> QED BY <1>1, <1>2, <2>2
<1>3. {} \in T
  BY <1>1
<1> HIDE DEF T
<1>4. SUBSET S \subseteq T
  BY <1>2, <1>3, SubsetInduction
<1> QED BY <1>4 DEF T

(* The recursion that Sum unfolds to, on any set. *)
LEMMA SumFacts ==
    ASSUME NEW S, IsFiniteSet(S), NEW f, \A x \in S : f[x] \in Int
    PROVE  LET g == CHOOSE g : SumRun(g, f, S)
           IN  SumRun(g, f, S) /\ Adds(g, f, S) /\ \A s \in SUBSET S : g[s] \in Int
<1> DEFINE g == CHOOSE g : SumRun(g, f, S)
<1>1. SumRun(g, f, S)
  BY SumRuns
<1> HIDE DEF g
<1>2. PICK h \in [SUBSET S -> Int] : SumRun(h, f, S)
  BY SumRuns
<1>3. Adds(g, f, S) /\ Adds(h, f, S)
  BY <1>1, <1>2 DEF SumRun, Adds
<1>4. \A s \in SUBSET S : g[s] = h[s]
  BY <1>3, SumUnique
<1> QED BY <1>1, <1>2, <1>3, <1>4 DEF g

(* A sum over a subset is a value of the same recursion. *)
LEMMA SumWithin ==
    ASSUME NEW U, IsFiniteSet(U), NEW f, \A x \in U : f[x] \in Int, NEW S \in SUBSET U
    PROVE  Sum(f, S) = (CHOOSE g : SumRun(g, f, U))[S]
<1> DEFINE g == CHOOSE g : SumRun(g, f, U)
           h == CHOOSE h : SumRun(h, f, S)
<1>1. IsFiniteSet(S)
  BY FS_Subset
<1>2. Adds(g, f, U) /\ Adds(h, f, S)
  BY <1>1, SumFacts
<1> HIDE DEF g, h
<1>3. Adds(g, f, S)
  BY <1>2 DEF Adds
<1>4. h[S] = g[S]
  BY <1>1, <1>2, <1>3, SumUnique
<1> QED BY <1>4 DEF g, h, Sum

(* Any member may be added last. *)
AddsLast(g, f, S) == \A s \in SUBSET S : \A x \in s : g[s] = f[x] + g[s \ {x}]

LEMMA SumMember ==
    ASSUME NEW S, IsFiniteSet(S), NEW f, \A x \in S : f[x] \in Int
    PROVE  AddsLast(CHOOSE g : SumRun(g, f, S), f, S)
<1> DEFINE g == CHOOSE g : SumRun(g, f, S)
<1>0. Adds(g, f, S) /\ \A s \in SUBSET S : g[s] \in Int
  BY SumFacts
<1> HIDE DEF g
<1> DEFINE T == {s \in SUBSET S : \A x \in s : g[s] = f[x] + g[s \ {x}]}
           c(s) == CHOOSE x \in s : TRUE
<1>1. \A s \in SUBSET S : s # {} => c(s) \in s /\ g[s] = f[c(s)] + g[s \ {c(s)}]
  BY <1>0 DEF Adds
<1> HIDE DEF c
<1>2. ASSUME NEW s \in SUBSET S, s # {}, \A x \in s : s \ {x} \in T PROVE s \in T
  <2> SUFFICES ASSUME NEW x \in s PROVE g[s] = f[x] + g[s \ {x}]
    OBVIOUS
  <2> DEFINE y == c(s)
  <2>1. y \in s /\ g[s] = f[y] + g[s \ {y}]
    BY <1>1, <1>2
  <2> HIDE DEF y
  <2>2. CASE x = y
    BY <2>1, <2>2
  <2>3. CASE x # y
    <3>1. g[s \ {y}] = f[x] + g[(s \ {y}) \ {x}]
      BY <1>2, <2>1, <2>3
    <3>2. g[s \ {x}] = f[y] + g[(s \ {x}) \ {y}]
      BY <1>2, <2>1, <2>3
    <3>3. (s \ {y}) \ {x} = (s \ {x}) \ {y}
      OBVIOUS
    <3> DEFINE z == g[(s \ {x}) \ {y}]
    <3>4. f[x] \in Int /\ f[y] \in Int /\ z \in Int
      BY <1>0, <2>1
    <3>5. g[s] = f[y] + (f[x] + z) /\ g[s \ {x}] = f[y] + z
      BY <2>1, <3>1, <3>2, <3>3
    <3> HIDE DEF z
    <3> QED BY <3>4, <3>5
  <2> QED BY <2>2, <2>3
<1>3. {} \in T
  OBVIOUS
<1> HIDE DEF T
<1>4. SUBSET S \subseteq T
  BY <1>2, <1>3, SubsetInduction
<1> QED BY <1>4 DEF T, g, AddsLast

LEMMA SumUnion ==
    ASSUME NEW A, IsFiniteSet(A), NEW B, IsFiniteSet(B), A \cap B = {},
           NEW f, \A x \in A \cup B : f[x] \in Int
    PROVE  Sum(f, A \cup B) = Sum(f, A) + Sum(f, B)
<1> DEFINE U == A \cup B
           g == CHOOSE g : SumRun(g, f, U)
           T == {s \in SUBSET B : g[A \cup s] = g[A] + g[s]}
<1>1. IsFiniteSet(U)
  BY FS_Union
<1>2. Adds(g, f, U) /\ \A s \in SUBSET U : g[s] \in Int
  BY <1>1, SumFacts
<1>3. Sum(f, U) = g[U] /\ Sum(f, A) = g[A] /\ Sum(f, B) = g[B]
  <2>1. A \in SUBSET U /\ B \in SUBSET U /\ U \in SUBSET U /\ \A x \in U : f[x] \in Int
    OBVIOUS
  <2> HIDE DEF U
  <2> QED BY <1>1, <2>1, SumWithin
<1>4. AddsLast(g, f, U)
  <2>1. \A x \in U : f[x] \in Int
    OBVIOUS
  <2> HIDE DEF U
  <2> QED BY <1>1, <2>1, SumMember
<1> HIDE DEF g
<1>5. {} \in T
  <2>1. g[{}] = 0 /\ g[A] \in Int /\ A \cup {} = A
    BY <1>2 DEF Adds
  <2> QED BY <2>1
<1>6. ASSUME NEW s \in SUBSET B, s # {}, \A x \in s : s \ {x} \in T PROVE s \in T
  <2>1. PICK x \in s : TRUE
    BY <1>6
  <2>2. g[A \cup (s \ {x})] = g[A] + g[s \ {x}]
    BY <1>6, <2>1
  <2>3. (A \cup s) \ {x} = A \cup (s \ {x})
    BY <2>1
  <2>4. g[A \cup s] = f[x] + g[A \cup (s \ {x})] /\ g[s] = f[x] + g[s \ {x}]
    <3>1. A \cup s \in SUBSET U /\ s \in SUBSET U /\ x \in A \cup s
      BY <2>1
    <3> HIDE DEF U
    <3> QED BY <1>4, <2>1, <2>3, <3>1 DEF AddsLast
  <2>5. g[A] \in Int /\ g[s \ {x}] \in Int /\ f[x] \in Int
    BY <1>2, <2>1
  <2> QED BY <2>2, <2>4, <2>5
<1> HIDE DEF T
<1>7. SUBSET B \subseteq T
  BY <1>5, <1>6, SubsetInduction
<1> QED BY <1>3, <1>7 DEF T, U

(* A sum depends on the summands only. *)
LEMMA SumSame ==
    ASSUME NEW S, NEW f, NEW h, \A x \in S : f[x] = h[x]
    PROVE  Sum(f, S) = Sum(h, S)
<1> DEFINE c(s) == CHOOSE x \in s : TRUE
<1>1. \A s \in SUBSET S : s # {} => f[c(s)] = h[c(s)]
  OBVIOUS
<1>2. ASSUME NEW g PROVE SumRun(g, f, S) <=> SumRun(g, h, S)
  <2>1. [s \in SUBSET S |-> IF s = {} THEN 0 ELSE f[c(s)] + g[s \ {c(s)}]]
          = [s \in SUBSET S |-> IF s = {} THEN 0 ELSE h[c(s)] + g[s \ {c(s)}]]
    <3> HIDE DEF c
    <3> QED BY <1>1
  <2> QED BY <2>1 DEF SumRun
<1>3. (CHOOSE g : SumRun(g, f, S)) = (CHOOSE g : SumRun(g, h, S))
  BY <1>2
<1> QED BY <1>3 DEF Sum

LEMMA SumEmpty ==
    ASSUME NEW f
    PROVE  Sum(f, {}) = 0
<1>1. IsFiniteSet({})
  BY FS_EmptySet
<1>2. Adds(CHOOSE g : SumRun(g, f, {}), f, {})
  BY <1>1, SumFacts
<1> QED BY <1>2 DEF Adds, Sum

LEMMA SumType ==
    ASSUME NEW S, IsFiniteSet(S), NEW f, \A x \in S : f[x] \in Int
    PROVE  Sum(f, S) \in Int
BY SumFacts DEF Sum

LEMMA SumNat ==
    ASSUME NEW S, IsFiniteSet(S), NEW f, \A x \in S : f[x] \in Nat
    PROVE  Sum(f, S) \in Nat
<1> DEFINE g == CHOOSE g : SumRun(g, f, S)
           T == {s \in SUBSET S : g[s] \in Nat}
           c(s) == CHOOSE x \in s : TRUE
<1>1. Adds(g, f, S)
  BY SumFacts
<1> HIDE DEF g
<1>2. \A s \in SUBSET S : g[s] = IF s = {} THEN 0 ELSE f[c(s)] + g[s \ {c(s)}]
  BY <1>1 DEF Adds
<1>3. ASSUME NEW s \in SUBSET S, s # {}, \A x \in s : s \ {x} \in T PROVE s \in T
  <2>1. c(s) \in s
    BY <1>3
  <2> HIDE DEF c
  <2>2. f[c(s)] \in Nat /\ g[s \ {c(s)}] \in Nat
    BY <1>3, <2>1
  <2>3. g[s] = f[c(s)] + g[s \ {c(s)}]
    BY <1>2, <1>3
  <2>4. g[s] \in Nat
    BY <2>2, <2>3
  <2> QED BY <2>4
<1>4. {} \in T
  BY <1>2
<1> HIDE DEF T
<1>5. SUBSET S \subseteq T
  BY <1>3, <1>4, SubsetInduction
<1>6. g[S] \in Nat
  BY <1>5 DEF T
<1> QED BY <1>6 DEF Sum, g

LEMMA SizeSum ==
    ASSUME NEW S \in SUBSET Tx
    PROVE  SizeOf(S) = Sum(Size, S) /\ SizeOf(S) \in Int
<1>1. SizeOf(S) = Sum(Size, S)
  BY DEF SizeOf, Sum, SumRun, MapThenSumSet, MapThenFoldSet
<1>2. IsFiniteSet(S) /\ \A x \in S : Size[x] \in Int
  BY MempoolAssumption, FS_Subset
<1> QED BY <1>1, <1>2, SumType

ModifiedFees(p) == [t \in Tx |-> GetModifiedFee(p, t)]

LEMMA FeesSum ==
    ASSUME NEW p, NEW S \in SUBSET Tx, p.delta \in [Tx -> Int]
    PROVE  FeesOf(p, S) = Sum(ModifiedFees(p), S) /\ FeesOf(p, S) \in Int
<1> DEFINE f == ModifiedFees(p)
           R(g) == g = [s \in SUBSET S |-> IF s = {} THEN 0
                           ELSE LET x == CHOOSE x \in s : TRUE IN Fee[x] + p.delta[x] + g[s \ {x}]]
<1>1. FeesOf(p, S) = (CHOOSE g : R(g))[S]
  BY DEF FeesOf, GetModifiedFee, MapThenSumSet, MapThenFoldSet
<1>2. \A g : R(g) <=> SumRun(g, f, S)
  <2> SUFFICES ASSUME NEW g PROVE R(g) <=> SumRun(g, f, S)
    OBVIOUS
  <2> DEFINE c(s) == CHOOSE x \in s : TRUE
  <2>1. \A s \in SUBSET S : s # {} => c(s) \in Tx
    OBVIOUS
  <2>2. \A s \in SUBSET S : s # {} => f[c(s)] = Fee[c(s)] + p.delta[c(s)]
    <3> HIDE DEF c
    <3> QED BY <2>1 DEF ModifiedFees, GetModifiedFee
  <2>3. [s \in SUBSET S |-> IF s = {} THEN 0 ELSE Fee[c(s)] + p.delta[c(s)] + g[s \ {c(s)}]]
          = [s \in SUBSET S |-> IF s = {} THEN 0 ELSE f[c(s)] + g[s \ {c(s)}]]
    <3> HIDE DEF c, f
    <3> QED BY <2>2
  <2> QED BY <2>3 DEF SumRun
<1>3. (CHOOSE g : R(g)) = (CHOOSE g : SumRun(g, f, S))
  <2> HIDE DEF R, f
  <2> QED BY <1>2
<1>4. FeesOf(p, S) = Sum(f, S)
  BY <1>1, <1>3 DEF Sum
<1>5. IsFiniteSet(S) /\ \A x \in S : f[x] \in Int
  BY MempoolAssumption, FS_Subset DEF ModifiedFees, GetModifiedFee
<1> QED BY <1>4, <1>5, SumType

Totals == [count : Int, size : Int, fees : Int]

LEMMA TotalType ==
    ASSUME NEW p, NEW S \in SUBSET Tx, p.delta \in [Tx -> Int]
    PROVE  Total(p, S) \in Totals
<1>1. Cardinality(S) \in Int
  BY MempoolAssumption, FS_Subset, FS_CardinalityType
<1> QED BY <1>1, SizeSum, FeesSum DEF Total, Totals

LEMMA TotalsAdd ==
    ASSUME NEW a \in Totals, NEW b \in Totals
    PROVE  Plus(a, b) \in Totals /\ Minus(a, b) \in Totals /\ Nothing \in Totals
BY DEF Totals, Plus, Minus, Nothing

LEMMA TotalUnion ==
    ASSUME NEW p, p.delta \in [Tx -> Int], NEW A \in SUBSET Tx, NEW B \in SUBSET Tx, A \cap B = {}
    PROVE  Total(p, A \cup B) = Plus(Total(p, A), Total(p, B)) /\ SizeOf(A \cup B) = SizeOf(A) + SizeOf(B)
<1> DEFINE f == ModifiedFees(p)
<1>1. IsFiniteSet(A) /\ IsFiniteSet(B) /\ A \cup B \in SUBSET Tx
  BY MempoolAssumption, FS_Subset
<1>2. \A x \in Tx : f[x] \in Int /\ Size[x] \in Int
  BY MempoolAssumption DEF ModifiedFees, GetModifiedFee
<1>3. Cardinality(A \cup B) = Cardinality(A) + Cardinality(B)
  <2>1. Cardinality(A \cap B) = 0 /\ Cardinality(A) \in Nat /\ Cardinality(B) \in Nat
    BY <1>1, FS_EmptySet, FS_CardinalityType
  <2>2. Cardinality(A \cup B) = Cardinality(A) + Cardinality(B) - Cardinality(A \cap B)
    BY <1>1, FS_Union
  <2> QED BY <2>1, <2>2
<1> HIDE DEF f
<1>4. Sum(Size, A \cup B) = Sum(Size, A) + Sum(Size, B) /\ Sum(f, A \cup B) = Sum(f, A) + Sum(f, B)
  BY <1>1, <1>2, SumUnion
<1>5. SizeOf(A \cup B) = SizeOf(A) + SizeOf(B)
  BY <1>1, <1>4, SizeSum
<1>6. FeesOf(p, A \cup B) = FeesOf(p, A) + FeesOf(p, B)
  BY <1>1, <1>4, FeesSum DEF f
<1> QED BY <1>3, <1>5, <1>6 DEF Total, Plus

LEMMA TotalWithout ==
    ASSUME NEW p, p.delta \in [Tx -> Int], NEW A \in SUBSET Tx, NEW B \in SUBSET A
    PROVE  Total(p, A \ B) = Minus(Total(p, A), Total(p, B)) /\ SizeOf(A \ B) = SizeOf(A) - SizeOf(B)
<1>1. A \ B \in SUBSET Tx /\ B \in SUBSET Tx /\ (A \ B) \cap B = {} /\ (A \ B) \cup B = A
  OBVIOUS
<1>2. Total(p, A) = Plus(Total(p, A \ B), Total(p, B)) /\ SizeOf(A) = SizeOf(A \ B) + SizeOf(B)
  BY <1>1, TotalUnion
<1>3. Total(p, A \ B) \in Totals /\ Total(p, B) \in Totals
  BY <1>1, TotalType
<1>4. ASSUME NEW a \in Totals, NEW b \in Totals PROVE Minus(Plus(a, b), b) = a
  BY DEF Totals, Plus, Minus
<1>5. SizeOf(A \ B) \in Int /\ SizeOf(B) \in Int
  BY <1>1, SizeSum
<1> QED BY <1>2, <1>3, <1>4, <1>5

LEMMA TotalSame ==
    ASSUME NEW p, NEW q, p.delta \in [Tx -> Int], q.delta \in [Tx -> Int], NEW S \in SUBSET Tx,
           \A t \in S : p.delta[t] = q.delta[t]
    PROVE  Total(p, S) = Total(q, S)
<1>1. \A t \in S : ModifiedFees(p)[t] = ModifiedFees(q)[t]
  BY DEF ModifiedFees, GetModifiedFee
<1>2. FeesOf(p, S) = FeesOf(q, S)
  BY <1>1, FeesSum, SumSame
<1> QED BY <1>2 DEF Total

(* The totals are those of the parts. *)
LEMMA FeesUnion ==
    ASSUME NEW p, p.delta \in [Tx -> Int], NEW A \in SUBSET Tx, NEW B \in SUBSET Tx, A \cap B = {}
    PROVE  FeesOf(p, A \cup B) = FeesOf(p, A) + FeesOf(p, B)
<1>1. Total(p, A \cup B) = Plus(Total(p, A), Total(p, B))
  BY TotalUnion
<1>2. Total(p, A \cup B).fees = Total(p, A).fees + Total(p, B).fees
  BY <1>1 DEF Plus
<1> QED BY <1>2 DEF Total

LEMMA FeesSame ==
    ASSUME NEW p, NEW q, p.delta \in [Tx -> Int], q.delta \in [Tx -> Int], NEW S \in SUBSET Tx,
           \A t \in S : p.delta[t] = q.delta[t]
    PROVE  FeesOf(p, S) = FeesOf(q, S)
<1>1. Total(p, S) = Total(q, S)
  BY TotalSame
<1>2. Total(p, S).fees = Total(q, S).fees
  BY <1>1
<1> QED BY <1>2 DEF Total

LEMMA SizeWithin ==
    ASSUME NEW B \in SUBSET Tx, NEW A \in SUBSET B
    PROVE  SizeOf(A) <= SizeOf(B) /\ SizeOf(A) \in Int /\ SizeOf(B) \in Int
<1> DEFINE C == B \ A
<1>1. A \in SUBSET Tx /\ C \in SUBSET Tx /\ A \cap C = {} /\ A \cup C = B
  OBVIOUS
<1>2. IsFiniteSet(A) /\ IsFiniteSet(C) /\ \A x \in Tx : Size[x] \in Nat
  BY <1>1, MempoolAssumption, FS_Subset
<1> HIDE DEF C
<1>3. Sum(Size, A \cup C) = Sum(Size, A) + Sum(Size, C)
  BY <1>1, <1>2, SumUnion
<1>4. Sum(Size, A) \in Nat /\ Sum(Size, C) \in Nat
  BY <1>1, <1>2, SumNat
<1>5. SizeOf(A) = Sum(Size, A) /\ SizeOf(B) = Sum(Size, A \cup C)
  BY <1>1, SizeSum
<1> QED BY <1>3, <1>4, <1>5

LEMMA SumOne ==
    ASSUME NEW t \in Tx, NEW f, f[t] \in Int
    PROVE  Sum(f, {t}) = f[t]
<1> DEFINE g == CHOOSE g : SumRun(g, f, {t})
<1>1. IsFiniteSet({t})
  BY FS_Singleton, Zenon
<1>2. Adds(g, f, {t})
  BY <1>1, SumFacts
<1> HIDE DEF g
<1>3. (CHOOSE x \in {t} : TRUE) = t
  OBVIOUS
<1>4. {t} \ {t} = {} /\ {t} # {} /\ {} \in SUBSET {t} /\ {t} \in SUBSET {t}
  OBVIOUS
<1>5. g[{t}] = f[t] + g[{}] /\ g[{}] = 0
  BY <1>2, <1>3, <1>4 DEF Adds
<1>6. Sum(f, {t}) = g[{t}]
  BY DEF Sum, g
<1> QED BY <1>5, <1>6

LEMMA SizeOne ==
    ASSUME NEW t \in Tx
    PROVE  SizeOf({t}) = Size[t]
<1>1. {t} \in SUBSET Tx /\ Size[t] \in Int
  BY MempoolAssumption
<1> QED BY <1>1, SizeSum, SumOne

LEMMA FeesOne ==
    ASSUME NEW p, p.delta \in [Tx -> Int], NEW t \in Tx
    PROVE  FeesOf(p, {t}) = GetModifiedFee(p, t)
<1> DEFINE f == ModifiedFees(p)
<1>1. f[t] = GetModifiedFee(p, t) /\ f[t] \in Int
  BY MempoolAssumption DEF ModifiedFees, GetModifiedFee
<1>2. {t} \in SUBSET Tx
  OBVIOUS
<1>3. FeesOf(p, {t}) = Sum(f, {t})
  BY <1>2, FeesSum
<1> HIDE DEF f
<1>4. Sum(f, {t}) = f[t]
  BY <1>1, SumOne
<1> QED BY <1>1, <1>3, <1>4

LEMMA TotalEmpty ==
    ASSUME NEW p, p.delta \in [Tx -> Int]
    PROVE  Total(p, {}) = Nothing /\ SizeOf({}) = 0 /\ \A a \in Totals : Minus(a, Nothing) = a
<1>1. {} \in SUBSET Tx /\ Cardinality({}) = 0
  BY FS_EmptySet
<1>2. SizeOf({}) = 0 /\ FeesOf(p, {}) = 0
  BY <1>1, SizeSum, FeesSum, SumEmpty
<1>3. \A a \in Totals : Minus(a, Nothing) = a
  BY DEF Totals, Minus, Nothing
<1> QED BY <1>1, <1>2, <1>3 DEF Total, Nothing

-----------------------------------------------------------------------------
(* Walks along the links. *)

ClosedUnder(links, X) == \A t \in X : links[t] \subseteq X

(* Reach is the least set with S that is closed under links: as many turns *)
(* as there are transactions are enough.                                   *)
LEMMA ReachFacts ==
    ASSUME NEW links \in [Tx -> SUBSET Tx], NEW S \in SUBSET Tx
    PROVE  LET R == Reach(links, S)
           IN  /\ S \subseteq R /\ R \subseteq Tx /\ ClosedUnder(links, R)
               /\ \A X \in SUBSET Tx : S \subseteq X /\ ClosedUnder(links, X) => R \subseteq X
<1> DEFINE N == Cardinality(Tx)
           V == SUBSET Tx
           F(R) == R \cup UNION {links[t] : t \in R}
           Run(f) == f = [n \in 0..N |-> IF n = 0 THEN S ELSE F(f[n - 1])]
           step == [n \in 1..N |-> [R \in V |-> F(R)]]
           w == CHOOSE f : Run(f)
<1>1. Reach(links, S) = w[N]
  BY DEF Reach
<1>2. N \in Nat /\ IsFiniteSet(Tx)
  BY MempoolAssumption, FS_CardinalityType
<1>3. \A R \in V : F(R) \in V /\ R \subseteq F(R) /\ (F(R) = R <=> ClosedUnder(links, R))
  BY DEF ClosedUnder
<1>4. Body(step, N, V)
  <2> HIDE DEF N, F, V
  <2> QED BY <1>3 DEF Body
<1>5. PICK f : RunUp(f, step, N, V, S)
  <2> HIDE DEF N, step, F
  <2> QED BY <1>2, <1>4, LoopRuns
<1>6. f \in [0..N -> V] /\ f[0] = S /\ \A n \in 1..N : f[n] = step[n][f[n - 1]]
  <2> HIDE DEF N, step, F, V
  <2> QED BY <1>5 DEF RunUp
<1>7. \A n \in 1..N : n - 1 \in 0..N /\ f[n] = F(f[n - 1])
  <2> SUFFICES ASSUME NEW n \in 1..N PROVE n - 1 \in 0..N /\ f[n] = F(f[n - 1])
    OBVIOUS
  <2>1. n - 1 \in 0..N
    BY <1>2
  <2>2. f[n - 1] \in V /\ f[n] = step[n][f[n - 1]]
    BY <1>6, <2>1
  <2> HIDE DEF F
  <2> QED BY <2>1, <2>2
<1>8. Run(f)
  <2>1. \A n \in 0..N : n # 0 => n \in 1..N
    BY <1>2
  <2> HIDE DEF N, F
  <2>2. \A n \in 0..N : f[n] = IF n = 0 THEN S ELSE F(f[n - 1])
    BY <1>6, <1>7, <2>1
  <2>3. f = [n \in 0..N |-> f[n]]
    BY <1>6
  <2> QED BY <2>2, <2>3
<1>9. Run(w)
  <2> HIDE DEF Run
  <2> QED BY <1>8
<1> HIDE DEF w, step, F
<1>10. w[0] = S /\ \A n \in 1..N : w[n] = F(w[n - 1])
  <2>1. 0 \in 0..N /\ \A n \in 1..N : n \in 0..N /\ n # 0
    BY <1>2
  <2> HIDE DEF N
  <2> QED BY <1>9, <2>1
<1> HIDE DEF Run
<1>11. ASSUME NEW T, 0 \in T, \A n \in 1..N : n - 1 \in T => n \in T PROVE N \in T
  <2>1. 0..N \subseteq T
    <3> HIDE DEF N
    <3> QED BY <1>2, <1>11, RoundsUp
  <2> QED BY <1>2, <2>1
<1>12. ASSUME NEW n \in 1..N PROVE n - 1 \in 0..N /\ n \in 0..N /\ n - 1 \in Nat
  BY <1>2
<1> HIDE DEF N
<1>13. w[N] \in V /\ S \subseteq w[N]
  <2> DEFINE T == {n \in 0..N : w[n] \in V /\ S \subseteq w[n]}
  <2>1. 0 \in T
    BY <1>2, <1>10
  <2>2. ASSUME NEW n \in 1..N, n - 1 \in T PROVE n \in T
    BY <2>2, <1>3, <1>10, <1>12
  <2> QED BY <2>1, <2>2, <1>11
<1>14. ASSUME NEW X \in SUBSET Tx, S \subseteq X, ClosedUnder(links, X) PROVE w[N] \subseteq X
  <2> DEFINE T == {n \in 0..N : w[n] \subseteq X}
  <2>1. 0 \in T
    BY <1>2, <1>10, <1>14
  <2>2. ASSUME NEW n \in 1..N, n - 1 \in T PROVE n \in T
    <3>1. w[n - 1] \subseteq X
      BY <2>2
    <3>2. F(w[n - 1]) \subseteq X
      BY <3>1, <1>14 DEF F, ClosedUnder
    <3> QED BY <3>2, <1>10, <1>12
  <2> HIDE DEF T
  <2>3. N \in T
    BY <2>1, <2>2, <1>11
  <2> QED BY <2>3 DEF T
<1>15. ClosedUnder(links, w[N])
  <2> DEFINE T == {n \in 0..N : /\ w[n] \in V
                                /\ ClosedUnder(links, w[n]) \/ Cardinality(w[n]) > n}
  <2>1. 0 \in T
    <3>1. CASE S = {}
      BY <3>1, <1>2, <1>10 DEF ClosedUnder
    <3>2. CASE S # {}
      <4>1. IsFiniteSet(S) /\ Cardinality(S) \in Nat /\ Cardinality(S) # 0
        BY <3>2, <1>2, FS_Subset, FS_CardinalityType, FS_EmptySet
      <4>2. Cardinality(S) > 0
        BY <4>1
      <4> QED BY <4>2, <1>2, <1>10
    <3> QED BY <3>1, <3>2
  <2>2. ASSUME NEW n \in 1..N, n - 1 \in T PROVE n \in T
    <3>1. /\ w[n - 1] \in V /\ w[n] = F(w[n - 1]) /\ w[n] \in V /\ w[n - 1] \subseteq w[n]
          /\ ClosedUnder(links, w[n - 1]) \/ Cardinality(w[n - 1]) > n - 1
      BY <2>2, <1>3, <1>10
    <3>2. CASE ClosedUnder(links, w[n - 1])
      <4>1. w[n] = w[n - 1]
        BY <3>1, <3>2, <1>3
      <4> QED BY <4>1, <3>1, <3>2, <1>12
    <3>3. CASE ~ClosedUnder(links, w[n - 1])
      <4>1. w[n] # w[n - 1]
        BY <3>1, <3>3, <1>3
      <4>2. /\ IsFiniteSet(w[n]) /\ Cardinality(w[n]) \in Nat /\ Cardinality(w[n - 1]) \in Nat
            /\ Cardinality(w[n - 1]) <= Cardinality(w[n])
            /\ Cardinality(w[n - 1]) # Cardinality(w[n])
        <5>1. IsFiniteSet(w[n]) /\ IsFiniteSet(w[n - 1])
          BY <3>1, <1>2, FS_Subset
        <5> QED BY <5>1, <4>1, <3>1, FS_Subset, FS_CardinalityType
      <4>3. Cardinality(w[n]) > n
        BY <4>2, <3>1, <3>3, <1>12
      <4> QED BY <4>3, <3>1, <1>12
    <3> QED BY <3>2, <3>3
  <2> HIDE DEF T
  <2>3. N \in T
    BY <2>1, <2>2, <1>11
  <2>4. Cardinality(w[N]) <= N
    BY <1>2, <1>13, FS_Subset DEF N
  <2>5. Cardinality(w[N]) \in Nat
    BY <1>2, <1>13, FS_Subset, FS_CardinalityType
  <2> QED BY <2>3, <2>4, <2>5, <1>2 DEF T
<1> QED BY <1>1, <1>13, <1>14, <1>15

(* No link leads from outside S into it. *)
LEMMA ReachOutside ==
    ASSUME NEW K \in [Tx -> SUBSET Tx], NEW L \in [Tx -> SUBSET Tx], NEW S \in SUBSET Tx,
           \A x \in Tx \ S : K[x] = L[x] /\ L[x] \cap S = {}, NEW X \in SUBSET (Tx \ S)
    PROVE  Reach(K, X) = Reach(L, X) /\ Reach(L, X) \cap S = {}
<1> DEFINE A == Reach(K, X)
           B == Reach(L, X)
           Y == Tx \ S
<1>1. /\ X \subseteq A /\ A \subseteq Tx /\ ClosedUnder(K, A)
      /\ \A Z \in SUBSET Tx : X \subseteq Z /\ ClosedUnder(K, Z) => A \subseteq Z
  BY ReachFacts
<1>2. /\ X \subseteq B /\ B \subseteq Tx /\ ClosedUnder(L, B)
      /\ \A Z \in SUBSET Tx : X \subseteq Z /\ ClosedUnder(L, Z) => B \subseteq Z
  BY ReachFacts
<1> HIDE DEF A, B
<1>3. ClosedUnder(K, Y) /\ ClosedUnder(L, Y)
  BY DEF ClosedUnder
<1>4. A \subseteq Y /\ B \subseteq Y
  BY <1>1, <1>2, <1>3
<1>5. ClosedUnder(L, A) /\ ClosedUnder(K, B)
  BY <1>1, <1>2, <1>4 DEF ClosedUnder
<1>6. A = B
  BY <1>1, <1>2, <1>5
<1> QED BY <1>4, <1>6 DEF A, B

(* No link leads out of S. *)
LEMMA ReachCut ==
    ASSUME NEW K \in [Tx -> SUBSET Tx], NEW L \in [Tx -> SUBSET Tx], NEW S \in SUBSET Tx,
           ClosedUnder(L, S), \A x \in Tx \ S : K[x] = L[x] \ S, NEW X \in SUBSET (Tx \ S)
    PROVE  Reach(K, X) = Reach(L, X) \ S
<1> DEFINE A == Reach(K, X)
           B == Reach(L, X)
<1>1. /\ X \subseteq A /\ A \subseteq Tx /\ ClosedUnder(K, A)
      /\ \A Z \in SUBSET Tx : X \subseteq Z /\ ClosedUnder(K, Z) => A \subseteq Z
  BY ReachFacts
<1>2. /\ X \subseteq B /\ B \subseteq Tx /\ ClosedUnder(L, B)
      /\ \A Z \in SUBSET Tx : X \subseteq Z /\ ClosedUnder(L, Z) => B \subseteq Z
  BY ReachFacts
<1> HIDE DEF A, B
<1>3. A \subseteq B \ S
  <2>1. ClosedUnder(K, B \ S) /\ X \subseteq B \ S /\ B \ S \in SUBSET Tx
    BY <1>2 DEF ClosedUnder
  <2> QED BY <1>1, <2>1
<1>4. B \subseteq A \cup S
  <2>1. ClosedUnder(L, A \cup S)
    <3> SUFFICES ASSUME NEW x \in A \cup S, NEW y \in L[x], y \notin S PROVE y \in A
      BY DEF ClosedUnder
    <3>1. x \notin S /\ x \in A /\ x \in Tx
      BY <1>1 DEF ClosedUnder
    <3>2. y \in K[x]
      BY <3>1
    <3> QED BY <1>1, <3>1, <3>2 DEF ClosedUnder
  <2>2. X \subseteq A \cup S /\ A \cup S \in SUBSET Tx
    BY <1>1
  <2> QED BY <1>2, <2>1, <2>2
<1> QED BY <1>3, <1>4 DEF A, B

LEMMA ReachMore ==
    ASSUME NEW K \in [Tx -> SUBSET Tx], NEW L \in [Tx -> SUBSET Tx],
           \A x \in Tx : K[x] \subseteq L[x], NEW X \in SUBSET Tx
    PROVE  Reach(K, X) \subseteq Reach(L, X)
<1> DEFINE B == Reach(L, X)
<1>1. X \subseteq B /\ B \subseteq Tx /\ ClosedUnder(L, B)
  BY ReachFacts
<1>2. \A Z \in SUBSET Tx : X \subseteq Z /\ ClosedUnder(K, Z) => Reach(K, X) \subseteq Z
  BY ReachFacts
<1> HIDE DEF B
<1>3. ClosedUnder(K, B)
  BY <1>1 DEF ClosedUnder
<1> QED BY <1>1, <1>2, <1>3 DEF B

(* The links in one direction lead back along those in the other. *)
LEMMA ReachBackOnce ==
    ASSUME NEW K \in [Tx -> SUBSET Tx], NEW L \in [Tx -> SUBSET Tx],
           \A x, y \in Tx : y \in K[x] <=> x \in L[y],
           NEW t \in Tx, NEW u \in Reach(K, {t})
    PROVE  t \in Reach(L, {u})
<1> DEFINE R(v) == Reach(L, {v})
           X == {v \in Tx : t \in R(v)}
<1>1. ASSUME NEW v \in Tx
      PROVE  /\ v \in R(v) /\ R(v) \subseteq Tx /\ ClosedUnder(L, R(v))
             /\ \A Z \in SUBSET Tx : v \in Z /\ ClosedUnder(L, Z) => R(v) \subseteq Z
  <2>1. {v} \in SUBSET Tx
    OBVIOUS
  <2>2. /\ {v} \subseteq R(v) /\ R(v) \subseteq Tx /\ ClosedUnder(L, R(v))
        /\ \A Z \in SUBSET Tx : {v} \subseteq Z /\ ClosedUnder(L, Z) => R(v) \subseteq Z
    BY <2>1, ReachFacts
  <2> HIDE DEF R
  <2> QED BY <2>2
<1> HIDE DEF R
<1>2. t \in X
  BY <1>1
<1>3. ClosedUnder(K, X)
  <2> SUFFICES ASSUME NEW v \in X, NEW w \in K[v] PROVE w \in X
    BY DEF ClosedUnder
  <2>1. v \in Tx /\ w \in Tx /\ v \in L[w]
    OBVIOUS
  <2>2. v \in R(w)
    BY <1>1, <2>1 DEF ClosedUnder
  <2>3. R(v) \subseteq R(w)
    BY <1>1, <2>1, <2>2
  <2> QED BY <2>1, <2>3
<1>4. Reach(K, {t}) \subseteq X
  <2>1. {t} \in SUBSET Tx /\ {t} \subseteq X /\ X \in SUBSET Tx
    BY <1>2
  <2> HIDE DEF X
  <2> QED BY <1>3, <2>1, ReachFacts
<1> QED BY <1>4 DEF R

LEMMA ReachBack ==
    ASSUME NEW K \in [Tx -> SUBSET Tx], NEW L \in [Tx -> SUBSET Tx],
           \A x, y \in Tx : y \in K[x] <=> x \in L[y],
           NEW t \in Tx, NEW u \in Tx
    PROVE  u \in Reach(K, {t}) <=> t \in Reach(L, {u})
<1>1. \A x, y \in Tx : y \in L[x] <=> x \in K[y]
  OBVIOUS
<1> QED BY <1>1, ReachBackOnce

(* The first step of a walk. *)
LEMMA ReachFirst ==
    ASSUME NEW L \in [Tx -> SUBSET Tx], NEW t \in Tx
    PROVE  /\ Reach(L, {t}) = {t} \cup Reach(L, L[t]) /\ Reach(L, {t}) \subseteq Tx
           /\ ClosedUnder(L, Reach(L, {t}))
           /\ \A X \in SUBSET Tx : t \in X /\ ClosedUnder(L, X) => Reach(L, {t}) \subseteq X
<1> DEFINE A == Reach(L, {t})
           B == Reach(L, L[t])
<1>1. /\ t \in A /\ A \subseteq Tx /\ ClosedUnder(L, A)
      /\ \A Z \in SUBSET Tx : {t} \subseteq Z /\ ClosedUnder(L, Z) => A \subseteq Z
  <2>1. {t} \in SUBSET Tx
    OBVIOUS
  <2> QED BY <2>1, ReachFacts
<1>2. /\ L[t] \subseteq B /\ B \subseteq Tx /\ ClosedUnder(L, B)
      /\ \A Z \in SUBSET Tx : L[t] \subseteq Z /\ ClosedUnder(L, Z) => B \subseteq Z
  <2>1. L[t] \in SUBSET Tx
    OBVIOUS
  <2> QED BY <2>1, ReachFacts
<1> HIDE DEF A, B
<1>3. B \subseteq A
  BY <1>1, <1>2 DEF ClosedUnder
<1>4. A \subseteq {t} \cup B
  <2>1. ClosedUnder(L, {t} \cup B)
    BY <1>2 DEF ClosedUnder
  <2> QED BY <1>1, <1>2, <2>1
<1>5. \A X \in SUBSET Tx : t \in X /\ ClosedUnder(L, X) => A \subseteq X
  BY <1>1
<1> QED BY <1>1, <1>3, <1>4, <1>5 DEF A, B

-----------------------------------------------------------------------------
(* Pools, and what the operations make of their fields. *)

Pools == [tx : SUBSET Tx, delta : [Tx -> Int],
          anc : [Tx -> Totals], desc : [Tx -> Totals],
          parents : [Tx -> SUBSET Tx], children : [Tx -> SUBSET Tx],
          next : [Outpoint -> Tx \cup {NoTx}], size : Int, mapDeltas : [Tx -> Int]]

LEMMA TxFacts ==
    ASSUME NEW t \in Tx
    PROVE  /\ Len(Vin[t]) \in Nat /\ DOMAIN Vin[t] = 1..Len(Vin[t])
           /\ Spends(t) \subseteq Outpoint /\ Spends(t) = {Vin[t][i] : i \in 1..Len(Vin[t])}
           /\ \A o \in Spends(t) : o[1] \in Tx /\ o \in Outputs(o[1])
           /\ \A o \in Outputs(t) : o \in Outpoint /\ o[1] = t
<1>1. Vin[t] \in Seq(Outpoint)
  BY MempoolAssumption DEF Outpoint, Outputs
<1>2. /\ Len(Vin[t]) \in Nat /\ DOMAIN Vin[t] = 1..Len(Vin[t])
      /\ \A i \in 1..Len(Vin[t]) : Vin[t][i] \in Outpoint
  BY <1>1, LenProperties, ElementOfSeq
<1>3. Spends(t) = {Vin[t][i] : i \in 1..Len(Vin[t])} /\ Spends(t) \subseteq Outpoint
  BY <1>2 DEF Spends, ToSet
<1>4. ASSUME NEW o \in Outpoint PROVE o[1] \in Tx /\ o \in Outputs(o[1])
  <2>1. PICK u \in Tx : o \in Outputs(u)
    BY DEF Outpoint
  <2>2. PICK n \in 1..NOut[u] : o = <<u, n>>
    BY <2>1 DEF Outputs
  <2> QED BY <2>1, <2>2
<1>5. \A o \in Outputs(t) : o \in Outpoint /\ o[1] = t
  BY DEF Outputs, Outpoint
<1> QED BY <1>2, <1>3, <1>4, <1>5

LEMMA PoolFields ==
    ASSUME NEW p \in Pools
    PROVE  /\ p.tx \subseteq Tx /\ p.delta \in [Tx -> Int] /\ p.mapDeltas \in [Tx -> Int]
           /\ p.anc \in [Tx -> Totals] /\ p.desc \in [Tx -> Totals] /\ p.size \in Int
           /\ p.parents \in [Tx -> SUBSET Tx] /\ p.children \in [Tx -> SUBSET Tx]
           /\ p.next \in [Outpoint -> Tx \cup {NoTx}]
BY DEF Pools

(* q is p without the entries of S. *)
Without(p, S, q) ==
    /\ q \in Pools /\ q.tx = p.tx \ S /\ q.mapDeltas = p.mapDeltas
    /\ \A t \in Tx :
          /\ q.parents[t] = IF t \in S THEN {} ELSE p.parents[t] \ {r \in S : t \in p.children[r]}
          /\ q.children[t] = IF t \in S THEN {} ELSE p.children[t] \ {r \in S : t \in p.parents[r]}
    /\ \A o \in Outpoint :
          q.next[o] = IF \E t \in S : o \in Spends(t) THEN NoTx ELSE p.next[o]

(* What the entries that stay are told. *)
Told(p, S, upd, q) ==
    /\ q.size = p.size - SizeOf(S)
    /\ \A t \in Tx \ S :
          /\ q.delta[t] = p.delta[t]
          /\ q.desc[t] = Minus(p.desc[t], Total(p, {r \in S : t \in Ancestors(p, r)}))
          /\ q.anc[t] = IF upd THEN Minus(p.anc[t], Total(p, {r \in S : t \in Descendants(p, r)}))
                        ELSE p.anc[t]

LEMMA Removed ==
    ASSUME NEW p \in Pools, NEW S \in SUBSET Tx, NEW upd \in BOOLEAN
    PROVE  Without(p, S, RemoveStaged(p, S, upd)) /\ Told(p, S, upd, RemoveStaged(p, S, upd))
<1> DEFINE delta == [t \in Tx |-> IF t \in S THEN 0 ELSE p.delta[t]]
           anc == [t \in Tx |->
                      IF t \in S THEN Nothing
                      ELSE IF ~upd THEN p.anc[t]
                      ELSE Minus(p.anc[t], Total(p, {r \in S : t \in Descendants(p, r)}))]
           desc == [t \in Tx |->
                      IF t \in S THEN Nothing
                      ELSE Minus(p.desc[t], Total(p, {r \in S : t \in Ancestors(p, r)}))]
           parents == [t \in Tx |->
                      IF t \in S THEN {} ELSE p.parents[t] \ {r \in S : t \in p.children[r]}]
           children == [t \in Tx |->
                      IF t \in S THEN {} ELSE p.children[t] \ {r \in S : t \in p.parents[r]}]
           next == [o \in Outpoint |-> IF \E t \in S : o \in Spends(t) THEN NoTx ELSE p.next[o]]
           size == p.size - SizeOf(S)
           q == [tx |-> p.tx \ S, delta |-> delta, anc |-> anc, desc |-> desc,
                 parents |-> parents, children |-> children, next |-> next, size |-> size,
                 mapDeltas |-> p.mapDeltas]
<1>1. RemoveStaged(p, S, upd) = q
  <2>1. p = [tx |-> p.tx, delta |-> p.delta, anc |-> p.anc, desc |-> p.desc,
             parents |-> p.parents, children |-> p.children, next |-> p.next, size |-> p.size,
             mapDeltas |-> p.mapDeltas]
    BY DEF Pools
  <2>2. RemoveStaged(p, S, upd) =
           [p EXCEPT !.tx = p.tx \ S, !.delta = delta, !.anc = anc, !.desc = desc,
                     !.parents = parents, !.children = children, !.next = next, !.size = size]
    BY DEF RemoveStaged
  <2> HIDE DEF delta, anc, desc, parents, children, next, size
  <2> QED BY <2>1, <2>2
<1>2. delta \in [Tx -> Int] /\ size \in Int
  BY PoolFields, SizeSum
<1>3. anc \in [Tx -> Totals] /\ desc \in [Tx -> Totals]
  <2>1. ASSUME NEW X \in SUBSET Tx, NEW a \in Totals PROVE Minus(a, Total(p, X)) \in Totals
    BY PoolFields, TotalType, TotalsAdd
  <2>2. Nothing \in Totals
    BY DEF Nothing, Totals
  <2>3. ASSUME NEW t \in Tx
        PROVE  /\ Minus(p.anc[t], Total(p, {r \in S : t \in Descendants(p, r)})) \in Totals
               /\ Minus(p.desc[t], Total(p, {r \in S : t \in Ancestors(p, r)})) \in Totals
    <3>1. /\ {r \in S : t \in Descendants(p, r)} \in SUBSET Tx
          /\ {r \in S : t \in Ancestors(p, r)} \in SUBSET Tx
      OBVIOUS
    <3>2. p.anc[t] \in Totals /\ p.desc[t] \in Totals
      BY PoolFields
    <3> QED BY <2>1, <3>1, <3>2
  <2> QED BY <2>2, <2>3, PoolFields
<1>4. parents \in [Tx -> SUBSET Tx] /\ children \in [Tx -> SUBSET Tx]
  BY PoolFields
<1>5. next \in [Outpoint -> Tx \cup {NoTx}]
  BY PoolFields
<1>6. q \in Pools
  <2> HIDE DEF delta, anc, desc, parents, children, next, size
  <2> QED BY <1>2, <1>3, <1>4, <1>5, PoolFields DEF Pools
<1>7. q.tx = p.tx \ S /\ q.mapDeltas = p.mapDeltas /\ q.parents = parents /\ q.children = children /\ q.next = next
      /\ q.delta = delta /\ q.anc = anc /\ q.desc = desc /\ q.size = size
  <2> HIDE DEF delta, anc, desc, parents, children, next, size
  <2> QED OBVIOUS
<1> HIDE DEF q
<1>8. Told(p, S, upd, q)
  BY <1>7 DEF Told
<1> QED BY <1>1, <1>6, <1>7, <1>8 DEF Without

(* q is p with the entry t. *)
With(p, t, q) ==
    /\ q \in Pools /\ q.tx = p.tx \cup {t} /\ q.mapDeltas = p.mapDeltas
    /\ \A u \in Tx :
          /\ q.parents[u] = IF u = t THEN InPoolParents(p, t) ELSE p.parents[u]
          /\ q.children[u] = IF u \in InPoolParents(p, t) THEN p.children[u] \cup {t} ELSE p.children[u]
    /\ \A o \in Outpoint :
          q.next[o] = IF o \in Spends(t) /\ p.next[o] = NoTx THEN t ELSE p.next[o]

(* What the entry and its ancestors A are told. *)
ToldOf(p, t, A, q) ==
    /\ q.size = p.size + Size[t]
    /\ q.delta[t] = p.mapDeltas[t] /\ q.desc[t] = Total(q, {t})
    /\ q.anc[t] = Plus(Total(q, {t}), Total(q, A))
    /\ \A u \in Tx \ {t} :
          /\ q.delta[u] = p.delta[u] /\ q.anc[u] = p.anc[u]
          /\ q.desc[u] = IF u \in A THEN Plus(p.desc[u], Total(q, {t})) ELSE p.desc[u]

LEMMA Added ==
    ASSUME NEW p \in Pools, NEW t \in Tx, NEW A \in SUBSET Tx
    PROVE  With(p, t, AddUnchecked(p, t, A)) /\ ToldOf(p, t, A, AddUnchecked(p, t, A))
<1> DEFINE P == InPoolParents(p, t)
           delta == [p.delta EXCEPT ![t] = p.mapDeltas[t]]
           r == [p EXCEPT !.delta = delta]
           own == Total(r, {t})
           next == [o \in Outpoint |-> IF o \in Spends(t) /\ p.next[o] = NoTx THEN t ELSE p.next[o]]
           parents == [p.parents EXCEPT ![t] = P]
           children == [u \in Tx |-> IF u \in P THEN p.children[u] \cup {t} ELSE p.children[u]]
           desc == [u \in Tx |-> IF u = t THEN own
                                 ELSE IF u \in A THEN Plus(p.desc[u], own) ELSE p.desc[u]]
           anc == [p.anc EXCEPT ![t] = Plus(own, Total(r, A))]
           size == p.size + Size[t]
           q == [r EXCEPT !.tx = p.tx \cup {t}, !.next = next, !.parents = parents,
                          !.children = children, !.desc = desc, !.anc = anc, !.size = size]
<1>1. delta \in [Tx -> Int] /\ size \in Int
  BY PoolFields, MempoolAssumption
<1> HIDE DEF delta
<1>2. /\ r.tx = p.tx /\ r.delta = delta /\ r.anc = p.anc /\ r.desc = p.desc
      /\ r.parents = p.parents /\ r.children = p.children /\ r.next = p.next /\ r.size = p.size
      /\ r.mapDeltas = p.mapDeltas /\ r \in Pools
  BY <1>1 DEF Pools
<1>3. AddUnchecked(p, t, A) = q
  <2>1. AddUnchecked(p, t, A) =
           [r EXCEPT !.tx = r.tx \cup {t},
                     !.next = [o \in Outpoint |->
                                  IF o \in Spends(t) /\ r.next[o] = NoTx THEN t ELSE r.next[o]],
                     !.parents = [r.parents EXCEPT ![t] = P],
                     !.children = [u \in Tx |-> IF u \in P THEN r.children[u] \cup {t} ELSE r.children[u]],
                     !.desc = [u \in Tx |-> IF u = t THEN own
                                   ELSE IF u \in A THEN Plus(r.desc[u], own) ELSE r.desc[u]],
                     !.anc = [r.anc EXCEPT ![t] = Plus(own, Total(r, A))],
                     !.size = r.size + Size[t]]
    BY DEF AddUnchecked, delta
  <2> HIDE DEF r, P, own
  <2> QED BY <1>2, <2>1
<1>4. P \subseteq Tx
  BY PoolFields DEF InPoolParents
<1> HIDE DEF r, P
<1>5. own \in Totals /\ Plus(own, Total(r, A)) \in Totals
  <2>1. r.delta \in [Tx -> Int] /\ {t} \in SUBSET Tx
    BY <1>1, <1>2
  <2>2. own \in Totals /\ Total(r, A) \in Totals
    BY <2>1, TotalType
  <2> QED BY <2>2, TotalsAdd
<1> HIDE DEF own
<1>6. anc \in [Tx -> Totals] /\ desc \in [Tx -> Totals]
  <2>1. \A u \in Tx : p.desc[u] \in Totals /\ Plus(p.desc[u], own) \in Totals
    BY <1>5, PoolFields, TotalsAdd
  <2>2. desc \in [Tx -> Totals]
    BY <1>5, <2>1
  <2>3. anc \in [Tx -> Totals]
    BY <1>5, PoolFields
  <2> QED BY <2>2, <2>3
<1>7. parents \in [Tx -> SUBSET Tx] /\ children \in [Tx -> SUBSET Tx]
  BY <1>4, PoolFields
<1>8. next \in [Outpoint -> Tx \cup {NoTx}]
  BY PoolFields
<1>9. p.tx \cup {t} \in SUBSET Tx
  BY PoolFields
<1>10. \A u \in Tx : parents[u] = IF u = t THEN P ELSE p.parents[u]
  BY PoolFields
<1>11. /\ q \in Pools /\ q.tx = p.tx \cup {t} /\ q.mapDeltas = p.mapDeltas /\ q.parents = parents
       /\ q.children = children /\ q.next = next
       /\ q.delta = delta /\ q.anc = anc /\ q.desc = desc /\ q.size = size
  <2> HIDE DEF anc, desc, parents, children, next, size
  <2> QED BY <1>1, <1>2, <1>6, <1>7, <1>8, <1>9 DEF Pools
<1> HIDE DEF q, parents
<1>12. ToldOf(p, t, A, q)
  <2>1. Total(q, {t}) = own /\ Total(q, A) = Total(r, A)
    <3>1. {t} \in SUBSET Tx /\ q.delta = r.delta /\ q.delta \in [Tx -> Int]
      BY <1>1, <1>2, <1>11
    <3>2. Total(q, {t}) = Total(r, {t}) /\ Total(q, A) = Total(r, A)
      BY <3>1, TotalSame
    <3> QED BY <3>2 DEF own
  <2>2. delta[t] = p.mapDeltas[t] /\ \A u \in Tx \ {t} : delta[u] = p.delta[u]
    BY PoolFields DEF delta
  <2>3. anc[t] = Plus(own, Total(r, A)) /\ \A u \in Tx \ {t} : anc[u] = p.anc[u]
    BY PoolFields
  <2> HIDE DEF anc
  <2> QED BY <1>11, <2>1, <2>2, <2>3 DEF ToldOf
<1> QED BY <1>3, <1>10, <1>11, <1>12 DEF P, With

LEMMA Cleared ==
    ASSUME NEW p \in Pools, NEW t \in Tx
    PROVE  LET q == ClearPrioritisation(p, t)
           IN  /\ q \in Pools /\ q.tx = p.tx /\ q.parents = p.parents /\ q.children = p.children
               /\ q.next = p.next /\ q.delta = p.delta /\ q.anc = p.anc /\ q.desc = p.desc
               /\ q.size = p.size /\ \A u \in Tx \ {t} : q.mapDeltas[u] = p.mapDeltas[u]
<1> DEFINE deltas == [p.mapDeltas EXCEPT ![t] = 0]
<1>1. deltas \in [Tx -> Int] /\ \A u \in Tx \ {t} : deltas[u] = p.mapDeltas[u]
  BY PoolFields
<1>2. ClearPrioritisation(p, t) = [p EXCEPT !.mapDeltas = deltas]
  BY DEF ClearPrioritisation
<1> HIDE DEF deltas
<1> QED BY <1>1, <1>2 DEF Pools

(* The children that an entry put back has in the pool. *)
LateChildren(p, t) == ({p.next[o] : o \in Outputs(t)} \ {NoTx}) \ ToSet(vHashUpdate)

(* q is p with these links, and the totals that go with them. *)
LateLinked(p, t, q) ==
    LET C == LateChildren(p, t)
        D == (Reach(q.children, {t}) \ {t}) \ ToSet(vHashUpdate)
    IN  /\ q \in Pools /\ q.tx = p.tx /\ q.next = p.next /\ q.delta = p.delta /\ q.size = p.size
        /\ q.mapDeltas = p.mapDeltas
        /\ IF t \notin p.tx THEN q = p
           ELSE \A u \in Tx :
                   /\ q.children[u] = IF u = t THEN p.children[u] \cup C ELSE p.children[u]
                   /\ q.parents[u] = IF u \in C THEN p.parents[u] \cup {t} ELSE p.parents[u]
                   /\ q.desc[u] = IF u = t THEN Plus(p.desc[u], Total(p, D)) ELSE p.desc[u]
                   /\ q.anc[u] = IF u \in D THEN Plus(p.anc[u], Total(p, {t})) ELSE p.anc[u]

LEMMA BlockUpdated ==
    ASSUME NEW p \in Pools, NEW t \in Tx
    PROVE  LateLinked(p, t, UpdateFromBlock(p, t))
<1>1. CASE t \notin p.tx
  BY <1>1 DEF UpdateFromBlock, LateLinked
<1>2. CASE t \in p.tx
  <2> DEFINE C == LateChildren(p, t)
             parents == [u \in Tx |-> IF u \in C THEN p.parents[u] \cup {t} ELSE p.parents[u]]
             children == [p.children EXCEPT ![t] = p.children[t] \cup C]
             r == [p EXCEPT !.children = children, !.parents = parents]
             D == Descendants(r, t) \ ToSet(vHashUpdate)
             desc == [p.desc EXCEPT ![t] = Plus(p.desc[t], Total(r, D))]
             anc == [u \in Tx |-> IF u \in D THEN Plus(p.anc[u], Total(r, {t})) ELSE p.anc[u]]
             q == [r EXCEPT !.desc = desc, !.anc = anc]
  <2>1. C \subseteq Tx
    <3>1. \A o \in Outputs(t) : p.next[o] \in Tx \cup {NoTx}
      BY TxFacts, PoolFields
    <3> QED BY <3>1 DEF LateChildren
  <2>2. parents \in [Tx -> SUBSET Tx] /\ children \in [Tx -> SUBSET Tx]
    BY <2>1, PoolFields
  <2>3. /\ r.tx = p.tx /\ r.next = p.next /\ r.parents = parents /\ r.children = children
        /\ r.delta = p.delta /\ r.desc = p.desc /\ r.anc = p.anc /\ r.size = p.size /\ r \in Pools
        /\ r.mapDeltas = p.mapDeltas
    <3> HIDE DEF parents, children
    <3> QED BY <2>2 DEF Pools
  <2>4. UpdateFromBlock(p, t) = q
    <3>1. UpdateFromBlock(p, t) =
             [r EXCEPT !.desc = [r.desc EXCEPT ![t] = Plus(r.desc[t], Total(r, D))],
                       !.anc = [u \in Tx |-> IF u \in D THEN Plus(r.anc[u], Total(r, {t})) ELSE r.anc[u]]]
      BY <1>2 DEF UpdateFromBlock, LateChildren
    <3> HIDE DEF r, D
    <3> QED BY <2>3, <3>1
  <2> HIDE DEF r
  <2>5. D \in SUBSET Tx
    <3> HIDE DEF children
    <3>1. {t} \in SUBSET Tx /\ r.children \in [Tx -> SUBSET Tx]
      BY <2>2, <2>3
    <3>2. Reach(r.children, {t}) \subseteq Tx
      BY <3>1, ReachFacts
    <3> QED BY <3>2 DEF Descendants, CalculateDescendants
  <2> HIDE DEF D
  <2>6. Total(r, D) \in Totals /\ Total(r, {t}) \in Totals
    <3>1. r.delta \in [Tx -> Int] /\ {t} \in SUBSET Tx
      BY <2>3, PoolFields
    <3> QED BY <2>5, <3>1, TotalType
  <2>7. desc \in [Tx -> Totals] /\ anc \in [Tx -> Totals]
    <3>1. \A u \in Tx : Plus(p.desc[u], Total(r, D)) \in Totals /\ Plus(p.anc[u], Total(r, {t})) \in Totals
      BY <2>6, PoolFields, TotalsAdd
    <3> QED BY <3>1, PoolFields
  <2>8. /\ q \in Pools /\ q.tx = p.tx /\ q.next = p.next /\ q.parents = parents /\ q.children = children
        /\ q.delta = p.delta /\ q.size = p.size /\ q.desc = desc /\ q.anc = anc
        /\ q.mapDeltas = p.mapDeltas
    <3> HIDE DEF parents, children, desc, anc
    <3> QED BY <2>3, <2>7 DEF Pools
  <2> HIDE DEF q
  <2>9. \A u \in Tx : /\ children[u] = IF u = t THEN p.children[u] \cup C ELSE p.children[u]
                      /\ parents[u] = IF u \in C THEN p.parents[u] \cup {t} ELSE p.parents[u]
    BY PoolFields
  <2>10. D = (Reach(q.children, {t}) \ {t}) \ ToSet(vHashUpdate)
    BY <2>3, <2>8 DEF D, Descendants, CalculateDescendants
  <2>11. Total(r, D) = Total(p, D) /\ Total(r, {t}) = Total(p, {t})
    <3>1. {t} \in SUBSET Tx /\ p.delta \in [Tx -> Int] /\ r.delta = p.delta
      BY <2>3, PoolFields
    <3> QED BY <2>5, <3>1, TotalSame
  <2>12. \A u \in Tx : /\ desc[u] = IF u = t THEN Plus(p.desc[u], Total(p, D)) ELSE p.desc[u]
                       /\ anc[u] = IF u \in D THEN Plus(p.anc[u], Total(p, {t})) ELSE p.anc[u]
    BY <2>11, PoolFields
  <2> HIDE DEF parents, children, desc, anc
  <2>13. \A u \in Tx : /\ q.desc[u] = IF u = t THEN Plus(p.desc[u], Total(p, D)) ELSE p.desc[u]
                       /\ q.anc[u] = IF u \in D THEN Plus(p.anc[u], Total(p, {t})) ELSE p.anc[u]
    BY <2>8, <2>12
  <2> QED BY <1>2, <2>4, <2>8, <2>9, <2>10, <2>13 DEF LateLinked
<1> QED BY <1>1, <1>2

-----------------------------------------------------------------------------
(* Sound pools. *)

(* The transactions whose outputs t spends. *)
From(t) == {o[1] : o \in Spends(t)}

(* mapNextTx is that of the entries; mapLinks is symmetric and has only    *)
(* links between an entry and an entry it spends.                          *)
LinksSound(p) ==
    /\ \A o \in Outpoint, t \in Tx : p.next[o] = t <=> t \in p.tx /\ o \in Spends(t)
    /\ \A t, u \in Tx : u \in p.parents[t] => t \in p.tx /\ u \in From(t) \cap p.tx
    /\ \A t, u \in Tx : u \in p.parents[t] <=> t \in p.children[u]

LEMMA LinksBack ==
    ASSUME NEW p \in Pools, LinksSound(p)
    PROVE  /\ p.parents \in [Tx -> SUBSET Tx] /\ p.children \in [Tx -> SUBSET Tx] /\ p.tx \subseteq Tx
           /\ \A t, u \in Tx : u \in p.parents[t] <=> t \in p.children[u]
           /\ \A t, u \in Tx : u \in Reach(p.parents, {t}) <=> t \in Reach(p.children, {u})
           /\ \A t \in p.tx : Reach(p.parents, {t}) \subseteq p.tx /\ Reach(p.children, {t}) \subseteq p.tx
<1>1. p.parents \in [Tx -> SUBSET Tx] /\ p.children \in [Tx -> SUBSET Tx] /\ p.tx \subseteq Tx
  BY PoolFields
<1>2. \A t, u \in Tx : u \in p.parents[t] <=> t \in p.children[u]
  BY DEF LinksSound
<1>3. \A t, u \in Tx : u \in Reach(p.parents, {t}) <=> t \in Reach(p.children, {u})
  BY <1>1, <1>2, ReachBack
<1>4. ClosedUnder(p.parents, p.tx) /\ ClosedUnder(p.children, p.tx)
  BY <1>1 DEF LinksSound, ClosedUnder
<1>5. \A t \in p.tx : Reach(p.parents, {t}) \subseteq p.tx /\ Reach(p.children, {t}) \subseteq p.tx
  BY <1>1, <1>4, ReachFirst
<1> QED BY <1>1, <1>2, <1>3, <1>5

(* The totals are the sums over what the links reach. *)
Summed(p) ==
    /\ p.size = SizeOf(p.tx)
    /\ \A t \in p.tx : /\ p.desc[t] = Total(p, Reach(p.children, {t}))
                       /\ p.anc[t] = Total(p, Reach(p.parents, {t}))

(* Entries go with all their descendants, and their ancestors are told; or *)
(* with all their ancestors, and their descendants are told.               *)
LEMMA RemovedSummed ==
    ASSUME NEW p \in Pools, LinksSound(p), Summed(p), NEW S \in SUBSET p.tx, NEW upd \in BOOLEAN,
           IF upd THEN ClosedUnder(p.parents, S) ELSE ClosedUnder(p.children, S)
    PROVE  Summed(RemoveStaged(p, S, upd))
<1> DEFINE q == RemoveStaged(p, S, upd)
           Up(t) == Reach(p.parents, {t})
           Down(t) == Reach(p.children, {t})
<1>1. /\ p.parents \in [Tx -> SUBSET Tx] /\ p.children \in [Tx -> SUBSET Tx] /\ p.tx \subseteq Tx
      /\ \A t, u \in Tx : u \in p.parents[t] <=> t \in p.children[u]
      /\ \A t, u \in Tx : u \in Up(t) <=> t \in Down(u)
      /\ \A t \in p.tx : Up(t) \subseteq p.tx /\ Down(t) \subseteq p.tx
  BY LinksBack
<1>2. S \in SUBSET Tx
  BY <1>1
<1>3. Without(p, S, q) /\ Told(p, S, upd, q)
  BY <1>2, Removed
<1> HIDE DEF q
<1>4. /\ q \in Pools /\ q.tx = p.tx \ S
      /\ \A t \in Tx \ S : /\ q.parents[t] = p.parents[t] \ {r \in S : t \in p.children[r]}
                            /\ q.children[t] = p.children[t] \ {r \in S : t \in p.parents[r]}
  BY <1>3 DEF Without
<1>5. \A t \in Tx \ S : q.parents[t] = p.parents[t] \ S /\ q.children[t] = p.children[t] \ S
  BY <1>1, <1>2, <1>4
<1>6. /\ q.parents \in [Tx -> SUBSET Tx] /\ q.children \in [Tx -> SUBSET Tx]
      /\ q.delta \in [Tx -> Int] /\ p.delta \in [Tx -> Int]
      /\ p.desc \in [Tx -> Totals] /\ p.anc \in [Tx -> Totals]
  BY <1>4, PoolFields
<1>7. q.size = SizeOf(q.tx)
  <2>1. q.size = p.size - SizeOf(S) /\ p.size = SizeOf(p.tx)
    BY <1>3 DEF Told, Summed
  <2>2. SizeOf(p.tx \ S) = SizeOf(p.tx) - SizeOf(S)
    <3>1. p.tx \in SUBSET Tx
      BY <1>1
    <3> QED BY <1>6, <3>1, TotalWithout
  <2> QED BY <1>4, <2>1, <2>2
<1>8. \A X \in SUBSET Tx : X \cap S = {} => Total(q, X) = Total(p, X)
  <2> SUFFICES ASSUME NEW X \in SUBSET Tx, X \cap S = {} PROVE Total(q, X) = Total(p, X)
    OBVIOUS
  <2>1. \A t \in X : q.delta[t] = p.delta[t]
    BY <1>3 DEF Told
  <2> QED BY <1>6, <2>1, TotalSame
<1>9. ASSUME NEW t \in q.tx
      PROVE  /\ t \in Tx /\ t \in p.tx /\ t \notin S /\ {t} \in SUBSET (Tx \ S)
             /\ {r \in S : t \in Ancestors(p, r)} = Down(t) \cap S
             /\ {r \in S : t \in Descendants(p, r)} = Up(t) \cap S
             /\ p.desc[t] = Total(p, Down(t)) /\ p.anc[t] = Total(p, Up(t))
             /\ Down(t) \in SUBSET Tx /\ Up(t) \in SUBSET Tx
             /\ q.desc[t] = Minus(p.desc[t], Total(p, Down(t) \cap S))
             /\ q.anc[t] = IF upd THEN Minus(p.anc[t], Total(p, Up(t) \cap S)) ELSE p.anc[t]
  <2>1. t \in Tx /\ t \in p.tx /\ t \notin S
    BY <1>1, <1>4
  <2>2. {r \in S : t \in Ancestors(p, r)} = Down(t) \cap S
    BY <1>1, <1>2, <2>1 DEF Ancestors
  <2>3. {r \in S : t \in Descendants(p, r)} = Up(t) \cap S
    BY <1>1, <1>2, <2>1 DEF Descendants, CalculateDescendants
  <2>4. p.desc[t] = Total(p, Down(t)) /\ p.anc[t] = Total(p, Up(t))
    BY <2>1 DEF Summed
  <2>5. Down(t) \in SUBSET Tx /\ Up(t) \in SUBSET Tx
    BY <1>1, <2>1
  <2>6. /\ q.desc[t] = Minus(p.desc[t], Total(p, Down(t) \cap S))
        /\ q.anc[t] = IF upd THEN Minus(p.anc[t], Total(p, Up(t) \cap S)) ELSE p.anc[t]
    <3> HIDE DEF Down, Up
    <3> QED BY <1>3, <2>1, <2>2, <2>3 DEF Told
  <2> QED BY <2>1, <2>2, <2>3, <2>4, <2>5, <2>6
<1>10. ASSUME NEW X \in SUBSET Tx PROVE Minus(Total(p, X), Total(p, X \cap S)) = Total(p, X \ S)
  <2>1. X \cap S \in SUBSET X /\ X \ (X \cap S) = X \ S
    OBVIOUS
  <2> QED BY <1>6, <2>1, TotalWithout
<1>11. ASSUME NEW X \in SUBSET Tx, X \cap S = {} PROVE Total(p, X) = Total(p, X \ S)
  <2>1. X \ S = X
    BY <1>11
  <2> QED BY <2>1
<1>12. CASE ~upd
  <2>1. ClosedUnder(p.children, S)
    BY <1>12
  <2>2. ASSUME NEW x \in Tx \ S PROVE q.parents[x] = p.parents[x] /\ p.parents[x] \cap S = {}
    <3>1. \A y \in S : x \notin p.children[y]
      BY <2>1 DEF ClosedUnder
    <3>2. p.parents[x] \cap S = {}
      BY <1>1, <1>2, <3>1
    <3> QED BY <1>5, <3>2
  <2>3. ASSUME NEW t \in q.tx
        PROVE  /\ Reach(q.children, {t}) = Down(t) \ S
               /\ Reach(q.parents, {t}) = Up(t) /\ Up(t) \cap S = {}
    <3>1. {t} \in SUBSET (Tx \ S)
      BY <1>9
    <3>2. Reach(q.children, {t}) = Down(t) \ S
      BY <1>1, <1>2, <1>5, <1>6, <2>1, <3>1, ReachCut
    <3>3. p.parents \in [Tx -> SUBSET Tx] /\ q.parents \in [Tx -> SUBSET Tx]
      BY <1>1, <1>6
    <3>4. \A x \in Tx \ S : q.parents[x] = p.parents[x] /\ p.parents[x] \cap S = {}
      BY <2>2
    <3>5. Reach(q.parents, {t}) = Up(t) /\ Up(t) \cap S = {}
      BY <1>2, <3>1, <3>3, <3>4, ReachOutside, Zenon
    <3> QED BY <3>2, <3>5
  <2> HIDE DEF Down, Up
  <2>4. ASSUME NEW t \in q.tx
        PROVE  /\ q.desc[t] = Total(q, Reach(q.children, {t}))
               /\ q.anc[t] = Total(q, Reach(q.parents, {t}))
    <3>1. q.desc[t] = Total(p, Down(t) \ S)
      BY <1>9, <1>10
    <3>2. Total(p, Down(t) \ S) = Total(q, Down(t) \ S) /\ Total(p, Up(t)) = Total(q, Up(t))
      BY <1>8, <1>9, <2>3
    <3> QED BY <1>9, <1>12, <2>3, <3>1, <3>2
  <2> QED BY <1>7, <2>4 DEF Summed, q
<1>13. CASE upd
  <2>1. ClosedUnder(p.parents, S)
    BY <1>13
  <2>2. ASSUME NEW x \in Tx \ S PROVE q.children[x] = p.children[x] /\ p.children[x] \cap S = {}
    <3>1. \A y \in S : x \notin p.parents[y]
      BY <2>1 DEF ClosedUnder
    <3>2. p.children[x] \cap S = {}
      BY <1>1, <1>2, <3>1
    <3> QED BY <1>5, <3>2
  <2>3. ASSUME NEW t \in q.tx
        PROVE  /\ Reach(q.parents, {t}) = Up(t) \ S
               /\ Reach(q.children, {t}) = Down(t) /\ Down(t) \cap S = {}
    <3>1. {t} \in SUBSET (Tx \ S)
      BY <1>9
    <3>2. Reach(q.parents, {t}) = Up(t) \ S
      BY <1>1, <1>2, <1>5, <1>6, <2>1, <3>1, ReachCut
    <3>3. p.children \in [Tx -> SUBSET Tx] /\ q.children \in [Tx -> SUBSET Tx]
      BY <1>1, <1>6
    <3>4. \A x \in Tx \ S : q.children[x] = p.children[x] /\ p.children[x] \cap S = {}
      BY <2>2
    <3>5. Reach(q.children, {t}) = Down(t) /\ Down(t) \cap S = {}
      BY <1>2, <3>1, <3>3, <3>4, ReachOutside, Zenon
    <3> QED BY <3>2, <3>5
  <2> HIDE DEF Down, Up
  <2>4. ASSUME NEW t \in q.tx
        PROVE  /\ q.desc[t] = Total(q, Reach(q.children, {t}))
               /\ q.anc[t] = Total(q, Reach(q.parents, {t}))
    <3>1. q.anc[t] = Total(p, Up(t) \ S) /\ q.desc[t] = Total(p, Down(t) \ S)
      BY <1>9, <1>10, <1>13
    <3>2. Total(p, Up(t) \ S) = Total(q, Up(t) \ S) /\ Total(p, Down(t) \ S) = Total(q, Down(t) \ S)
      BY <1>8, <1>9
    <3>3. Down(t) \ S = Down(t)
      BY <2>3
    <3> QED BY <2>3, <3>1, <3>2, <3>3
  <2> QED BY <1>7, <2>4 DEF Summed, q
<1> QED BY <1>12, <1>13

(* A new entry.  No entry spends it yet, as far as the links go. *)
LEMMA AddedSummed ==
    ASSUME NEW p \in Pools, LinksSound(p), Summed(p), NEW t \in Tx, t \notin p.tx,
           LinksSound(AddUnchecked(p, t, Reach(p.parents, InPoolParents(p, t))))
    PROVE  Summed(AddUnchecked(p, t, Reach(p.parents, InPoolParents(p, t))))
<1> DEFINE P == InPoolParents(p, t)
           A == Reach(p.parents, P)
           q == AddUnchecked(p, t, A)
           Up(u) == Reach(p.parents, {u})
           Down(u) == Reach(p.children, {u})
<1>1. /\ p.parents \in [Tx -> SUBSET Tx] /\ p.children \in [Tx -> SUBSET Tx] /\ p.tx \subseteq Tx
      /\ \A x, u \in Tx : u \in Up(x) <=> x \in Down(u)
      /\ \A x \in p.tx : Up(x) \subseteq p.tx /\ Down(x) \subseteq p.tx
  BY LinksBack
<1>2. P \in SUBSET p.tx /\ P \in SUBSET Tx
  BY <1>1 DEF InPoolParents
<1>3. A \subseteq p.tx
  <2>1. ClosedUnder(p.parents, p.tx)
    BY <1>1 DEF LinksSound, ClosedUnder
  <2> HIDE DEF P
  <2> QED BY <1>1, <1>2, <2>1, ReachFacts
<1>4. With(p, t, q) /\ ToldOf(p, t, A, q)
  BY <1>1, <1>3, Added
<1>5. LinksSound(q)
  OBVIOUS
<1> HIDE DEF q
<1>6. /\ q \in Pools /\ q.tx = p.tx \cup {t}
      /\ \A u \in Tx : q.parents[u] = IF u = t THEN P ELSE p.parents[u]
  BY <1>4 DEF With
<1>7. /\ q.parents \in [Tx -> SUBSET Tx] /\ q.children \in [Tx -> SUBSET Tx]
      /\ \A x, u \in Tx : u \in Reach(q.parents, {x}) <=> x \in Reach(q.children, {u})
      /\ q.delta \in [Tx -> Int] /\ p.delta \in [Tx -> Int]
  BY <1>5, <1>6, LinksBack, PoolFields
<1>8. \A x \in Tx \ {t} : q.parents[x] = p.parents[x] /\ p.parents[x] \cap {t} = {}
  BY <1>1, <1>6 DEF LinksSound
<1>9. /\ \A x \in Tx \ {t} : Reach(q.parents, {x}) = Up(x) /\ t \notin Up(x)
      /\ Reach(q.parents, P) = A
  <2>1. {t} \in SUBSET Tx /\ P \in SUBSET (Tx \ {t}) /\ \A x \in Tx \ {t} : {x} \in SUBSET (Tx \ {t})
    BY <1>2
  <2> DEFINE S == {t}
  <2>2. S \in SUBSET Tx /\ P \in SUBSET (Tx \ S) /\ \A x \in Tx \ S : {x} \in SUBSET (Tx \ S)
    BY <2>1
  <2>3. \A x \in Tx \ S : q.parents[x] = p.parents[x] /\ p.parents[x] \cap S = {}
    BY <1>8
  <2> HIDE DEF S, P
  <2>5. Reach(q.parents, P) = A /\ \A x \in Tx \ S : Reach(q.parents, {x}) = Up(x) /\ Up(x) \cap S = {}
    <3>0. p.parents \in [Tx -> SUBSET Tx] /\ q.parents \in [Tx -> SUBSET Tx]
      BY <1>1, <1>7
    <3>1. Reach(q.parents, P) = A
      <4>1. P \in SUBSET (Tx \ S) /\ S \in SUBSET Tx
        BY <2>2
      <4> DEFINE K == q.parents
                 L == p.parents
      <4>2. K \in [Tx -> SUBSET Tx] /\ L \in [Tx -> SUBSET Tx] /\ \A x \in Tx \ S : K[x] = L[x] /\ L[x] \cap S = {}
        BY <2>3, <3>0
      <4> HIDE DEF K, L
      <4>3. Reach(K, P) = Reach(L, P)
        BY <4>1, <4>2, ReachOutside
      <4> QED BY <4>3 DEF K, L
    <3>2. ASSUME NEW x \in Tx \ S PROVE Reach(q.parents, {x}) = Up(x) /\ Up(x) \cap S = {}
      <4>1. {x} \in SUBSET (Tx \ S) /\ S \in SUBSET Tx
        BY <2>2
      <4> QED BY <2>3, <3>0, <4>1, ReachOutside, Zenon
    <3> QED BY <3>1, <3>2
  <2> HIDE DEF Up
  <2> QED BY <2>5 DEF S
<1> HIDE DEF A
<1>10. Reach(q.parents, {t}) = {t} \cup A
  <2>1. q.parents[t] = P
    BY <1>6
  <2> QED BY <1>7, <1>9, <2>1, ReachFirst
<1>11. ASSUME NEW u \in p.tx
       PROVE  Reach(q.children, {u}) = Down(u) \cup (IF u \in A THEN {t} ELSE {}) /\ t \notin Down(u)
  <2>1. u \in Tx /\ u # t /\ Down(u) \subseteq p.tx
    BY <1>1
  <2>2. \A x \in Tx : x \in Reach(q.children, {u}) <=> u \in Reach(q.parents, {x})
    BY <1>7, <2>1
  <2>3. \A x \in Tx \ {t} : x \in Reach(q.children, {u}) <=> x \in Down(u)
    BY <1>1, <1>9, <2>1, <2>2
  <2>4. t \in Reach(q.children, {u}) <=> u \in A
    BY <1>10, <2>1, <2>2
  <2>5. Reach(q.children, {u}) \subseteq Tx
    BY <1>7, <2>1, ReachFirst
  <2> HIDE DEF Down
  <2>6. t \notin Down(u) /\ Down(u) \subseteq Tx
    BY <1>1, <2>1
  <2>7. CASE u \in A
    BY <2>3, <2>4, <2>5, <2>6, <2>7
  <2>8. CASE u \notin A
    BY <2>3, <2>4, <2>5, <2>6, <2>8
  <2> QED BY <2>6, <2>7, <2>8
<1>12. Reach(q.children, {t}) = {t}
  <2>1. \A x \in Tx : x \in Reach(q.children, {t}) <=> t \in Reach(q.parents, {x})
    BY <1>7
  <2>2. \A x \in Tx \ {t} : x \notin Reach(q.children, {t})
    BY <1>9, <2>1
  <2>3. Reach(q.children, {t}) \subseteq Tx /\ t \in Reach(q.children, {t})
    BY <1>7, ReachFirst
  <2> QED BY <2>2, <2>3
<1>13. \A X \in SUBSET p.tx : Total(q, X) = Total(p, X)
  <2> SUFFICES ASSUME NEW X \in SUBSET p.tx PROVE Total(q, X) = Total(p, X)
    OBVIOUS
  <2>1. X \in SUBSET Tx /\ \A x \in X : q.delta[x] = p.delta[x]
    BY <1>1, <1>4 DEF ToldOf
  <2> QED BY <1>7, <2>1, TotalSame
<1>14. ASSUME NEW X \in SUBSET p.tx
       PROVE  /\ Total(q, X \cup {t}) = Plus(Total(q, X), Total(q, {t}))
              /\ Total(q, {t} \cup X) = Plus(Total(q, {t}), Total(q, X))
              /\ SizeOf(X \cup {t}) = SizeOf(X) + SizeOf({t})
  <2>1. X \in SUBSET Tx /\ {t} \in SUBSET Tx /\ X \cap {t} = {} /\ {t} \cap X = {}
    BY <1>1
  <2> QED BY <1>7, <2>1, TotalUnion
<1>15. q.size = SizeOf(q.tx)
  <2>1. q.size = p.size + Size[t] /\ p.size = SizeOf(p.tx)
    BY <1>4 DEF ToldOf, Summed
  <2>2. SizeOf({t}) = Size[t]
    BY SizeOne
  <2> QED BY <1>6, <1>14, <2>1, <2>2
<1>16. q.desc[t] = Total(q, Reach(q.children, {t})) /\ q.anc[t] = Total(q, Reach(q.parents, {t}))
  BY <1>3, <1>4, <1>10, <1>12, <1>14 DEF ToldOf
<1>17. ASSUME NEW u \in p.tx
       PROVE  q.desc[u] = Total(q, Reach(q.children, {u})) /\ q.anc[u] = Total(q, Reach(q.parents, {u}))
  <2>1. u \in Tx \ {t} /\ Down(u) \in SUBSET p.tx /\ Up(u) \in SUBSET p.tx
    BY <1>1
  <2>2. /\ q.anc[u] = p.anc[u] /\ q.desc[u] = IF u \in A THEN Plus(p.desc[u], Total(q, {t})) ELSE p.desc[u]
        /\ p.desc[u] = Total(p, Down(u)) /\ p.anc[u] = Total(p, Up(u))
    BY <1>4, <2>1 DEF ToldOf, Summed
  <2>3. Reach(q.parents, {u}) = Up(u)
    BY <1>9, <2>1
  <2>4. Reach(q.children, {u}) = Down(u) \cup (IF u \in A THEN {t} ELSE {})
    BY <1>11
  <2> HIDE DEF Down, Up
  <2>5. Total(q, Down(u)) = Total(p, Down(u)) /\ Total(q, Up(u)) = Total(p, Up(u))
    BY <1>13, <2>1
  <2>6. Total(q, Down(u) \cup {t}) = Plus(Total(q, Down(u)), Total(q, {t}))
    BY <1>14, <2>1
  <2>7. Down(u) \cup {} = Down(u)
    OBVIOUS
  <2>8. CASE u \in A
    BY <2>2, <2>3, <2>4, <2>5, <2>6, <2>8
  <2>9. CASE u \notin A
    BY <2>2, <2>3, <2>4, <2>5, <2>7, <2>9
  <2> QED BY <2>8, <2>9
<1> QED BY <1>6, <1>15, <1>16, <1>17 DEF Summed, q, A, P

(* All such links are there, but for those from an entry of H, put back,   *)
(* to its children that were never confirmed; and an entry of H has no     *)
(* parents in the pool but those of H.                                     *)
Sound(p, H) ==
    /\ p \in Pools /\ LinksSound(p) /\ Summed(p) /\ p.tx \cap Coinbase = {}
    /\ \A t \in p.tx : \A u \in From(t) \cap p.tx : u \in p.parents[t] <=> (u \in H => t \in H)
    /\ \A t \in p.tx \cap H : From(t) \cap p.tx \subseteq H

(* The entries that p and q share are prioritised as they were. *)
Kept(p, q) == \A t \in q.tx \cap p.tx : q.delta[t] = p.delta[t] /\ q.mapDeltas[t] = p.mapDeltas[t]

(* q is what is left of p when entries have gone with their descendants. *)
Pruned(p, q) ==
    q.tx \subseteq p.tx /\ Kept(p, q) /\ \A t \in q.tx : From(t) \cap p.tx \subseteq q.tx

LEMMA PrunedTwice ==
    ASSUME NEW p, NEW q, NEW r, Pruned(p, q), Pruned(q, r)
    PROVE  Pruned(p, r)
BY DEF Pruned, Kept

LEMMA RemovedSound ==
    ASSUME NEW p, NEW H, Sound(p, H), NEW S \in SUBSET p.tx, NEW upd \in BOOLEAN,
           IF upd THEN ClosedUnder(p.parents, S) ELSE ClosedUnder(p.children, S)
    PROVE  LET q == RemoveStaged(p, S, upd)
           IN  Sound(q, H) /\ q.tx = p.tx \ S /\ Kept(p, q) /\ q.mapDeltas = p.mapDeltas
<1> DEFINE q == RemoveStaged(p, S, upd)
<1>1. p \in Pools /\ S \in SUBSET Tx /\ p.tx \subseteq Tx
  BY PoolFields DEF Sound
<1>2. /\ q \in Pools /\ q.tx = p.tx \ S
      /\ \A t \in Tx :
            /\ q.parents[t] = IF t \in S THEN {} ELSE p.parents[t] \ {r \in S : t \in p.children[r]}
            /\ q.children[t] = IF t \in S THEN {} ELSE p.children[t] \ {r \in S : t \in p.parents[r]}
      /\ \A o \in Outpoint :
            q.next[o] = IF \E t \in S : o \in Spends(t) THEN NoTx ELSE p.next[o]
      /\ q.mapDeltas = p.mapDeltas /\ \A t \in Tx \ S : q.delta[t] = p.delta[t]
  <2>1. Without(p, S, q) /\ Told(p, S, upd, q)
    BY <1>1, Removed
  <2> HIDE DEF q
  <2> QED BY <2>1 DEF Without, Told
<1> HIDE DEF q
<1>3. /\ \A o \in Outpoint, t \in Tx : p.next[o] = t <=> t \in p.tx /\ o \in Spends(t)
      /\ \A t, u \in Tx : u \in p.parents[t] => t \in p.tx /\ u \in From(t) \cap p.tx
      /\ \A t, u \in Tx : u \in p.parents[t] <=> t \in p.children[u]
  BY DEF Sound, LinksSound
<1>4. ASSUME NEW o \in Outpoint, NEW t \in Tx
      PROVE  q.next[o] = t <=> t \in q.tx /\ o \in Spends(t)
  <2>1. CASE \E s \in S : o \in Spends(s)
    <3>1. PICK s \in S : o \in Spends(s)
      BY <2>1
    <3>2. p.next[o] = s
      BY <1>1, <1>3, <3>1
    <3>3. q.next[o] = NoTx /\ NoTx # t
      BY <1>2, <2>1, MempoolAssumption
    <3>4. t \in p.tx /\ o \in Spends(t) => t = s
      BY <1>3, <3>2
    <3> QED BY <1>2, <3>1, <3>3, <3>4
  <2>2. CASE ~ \E s \in S : o \in Spends(s)
    BY <1>2, <1>3, <2>2
  <2> QED BY <2>1, <2>2
<1>5. ASSUME NEW t \in Tx, NEW u \in Tx
      PROVE  u \in q.parents[t] <=> u \in p.parents[t] /\ t \notin S /\ u \notin S
  <2>1. t \in p.children[u] <=> u \in p.parents[t]
    BY <1>3
  <2>2. q.parents[t] = IF t \in S THEN {} ELSE p.parents[t] \ {r \in S : t \in p.children[r]}
    BY <1>2
  <2> QED BY <2>1, <2>2
<1>6. ASSUME NEW t \in Tx, NEW u \in Tx
      PROVE  t \in q.children[u] <=> t \in p.children[u] /\ t \notin S /\ u \notin S
  <2>1. t \in p.children[u] <=> u \in p.parents[t]
    BY <1>3
  <2>2. q.children[u] = IF u \in S THEN {} ELSE p.children[u] \ {r \in S : u \in p.parents[r]}
    BY <1>2
  <2> QED BY <2>1, <2>2
<1>7. LinksSound(q)
  <2>1. \A t, u \in Tx : u \in q.parents[t] => t \in q.tx /\ u \in From(t) \cap q.tx
    BY <1>2, <1>3, <1>5
  <2>2. \A t, u \in Tx : u \in q.parents[t] <=> t \in q.children[u]
    BY <1>3, <1>5, <1>6
  <2> QED BY <1>4, <2>1, <2>2 DEF LinksSound
<1>8. \A t \in q.tx : \A u \in From(t) \cap q.tx : u \in q.parents[t] <=> (u \in H => t \in H)
  <2> SUFFICES ASSUME NEW t \in q.tx, NEW u \in From(t) \cap q.tx
               PROVE  u \in q.parents[t] <=> (u \in H => t \in H)
    OBVIOUS
  <2>1. t \in p.tx /\ u \in From(t) \cap p.tx /\ t \in Tx /\ u \in Tx /\ t \notin S /\ u \notin S
    BY <1>1, <1>2
  <2>2. u \in p.parents[t] <=> (u \in H => t \in H)
    BY <2>1 DEF Sound
  <2> QED BY <1>5, <2>1, <2>2
<1>9. q.tx \cap Coinbase = {} /\ \A t \in q.tx \cap H : From(t) \cap q.tx \subseteq H
  BY <1>2 DEF Sound
<1>10. Summed(q)
  BY RemovedSummed DEF Sound, q
<1>11. Sound(q, H)
  BY <1>2, <1>7, <1>8, <1>9, <1>10 DEF Sound
<1>12. Kept(p, q)
  BY <1>1, <1>2 DEF Kept
<1> QED BY <1>2, <1>11, <1>12 DEF q

(* What CalculateDescendants finds is closed under spending, if it starts  *)
(* outside H.                                                              *)
LEMMA DescendantsClosed ==
    ASSUME NEW p, NEW H, Sound(p, H), NEW S \in SUBSET p.tx, S \cap H = {}
    PROVE  LET R == CalculateDescendants(p, S)
           IN  /\ S \subseteq R /\ R \subseteq p.tx /\ R \cap H = {} /\ ClosedUnder(p.children, R)
               /\ \A t \in p.tx : From(t) \cap R # {} => t \in R
<1> DEFINE R == CalculateDescendants(p, S)
           X == p.tx \ H
<1>1. p.children \in [Tx -> SUBSET Tx] /\ S \in SUBSET Tx /\ X \in SUBSET Tx /\ S \subseteq X
      /\ p.tx \subseteq Tx
  BY PoolFields DEF Sound
<1>2. /\ S \subseteq R /\ R \subseteq Tx /\ ClosedUnder(p.children, R)
      /\ \A Y \in SUBSET Tx : S \subseteq Y /\ ClosedUnder(p.children, Y) => R \subseteq Y
  BY <1>1, ReachFacts DEF CalculateDescendants
<1> HIDE DEF R
<1>3. ClosedUnder(p.children, X)
  <2> SUFFICES ASSUME NEW x \in X, NEW y \in p.children[x] PROVE y \in X
    BY DEF ClosedUnder
  <2>1. x \in Tx /\ y \in Tx
    BY <1>1
  <2>2. y \in p.tx /\ x \in From(y) \cap p.tx
    BY <2>1 DEF Sound, LinksSound
  <2> QED BY <2>2 DEF Sound
<1>4. R \subseteq X
  BY <1>1, <1>2, <1>3
<1>5. ASSUME NEW t \in p.tx, NEW u \in From(t) \cap R PROVE t \in R
  <2>1. u \in p.tx /\ u \notin H /\ t \in Tx /\ u \in Tx
    BY <1>1, <1>4
  <2>2. u \in p.parents[t]
    BY <2>1 DEF Sound
  <2>3. t \in p.children[u]
    BY <2>1, <2>2 DEF Sound, LinksSound
  <2> QED BY <1>2, <2>3 DEF ClosedUnder
<1> QED BY <1>2, <1>4, <1>5 DEF R

(* Removing entries with their descendants. *)
LEMMA DescendantsRemoved ==
    ASSUME NEW p, NEW H, Sound(p, H), NEW S \in SUBSET p.tx, S \cap H = {}
    PROVE  LET q == RemoveStaged(p, CalculateDescendants(p, S), FALSE)
           IN  Sound(q, H) /\ Pruned(p, q) /\ q.tx \cap S = {} /\ p.tx \cap H \subseteq q.tx
<1> DEFINE R == CalculateDescendants(p, S)
<1>1. /\ S \subseteq R /\ R \subseteq p.tx /\ R \cap H = {} /\ ClosedUnder(p.children, R)
      /\ \A t \in p.tx : From(t) \cap R # {} => t \in R
  BY DescendantsClosed
<1> HIDE DEF R
<1>2. /\ Sound(RemoveStaged(p, R, FALSE), H) /\ RemoveStaged(p, R, FALSE).tx = p.tx \ R
      /\ Kept(p, RemoveStaged(p, R, FALSE))
  BY <1>1, RemovedSound
<1>3. Pruned(p, RemoveStaged(p, R, FALSE))
  BY <1>1, <1>2 DEF Pruned
<1> QED BY <1>1, <1>2, <1>3 DEF R

(* The same outside reorganisations. *)
LEMMA BranchRemoved ==
    ASSUME NEW p, Sound(p, {}), NEW S \in SUBSET p.tx
    PROVE  LET q == RemoveStaged(p, CalculateDescendants(p, S), FALSE)
           IN  Sound(q, {}) /\ Pruned(p, q) /\ q.tx \cap S = {}
<1> DEFINE H == {}
           q == RemoveStaged(p, CalculateDescendants(p, S), FALSE)
<1>1. Sound(p, H) /\ S \cap H = {}
  OBVIOUS
<1>2. Sound(q, H) /\ Pruned(p, q) /\ q.tx \cap S = {}
  <2> HIDE DEF H
  <2> QED BY <1>1, DescendantsRemoved
<1> QED BY <1>2

(* removeRecursive of a transaction whose spenders are outside H. *)
LEMMA RecursivelyRemoved ==
    ASSUME NEW p, NEW H, Sound(p, H), NEW t \in Tx, t \notin p.tx \cap H,
           \A u \in p.tx \cap H : t \notin From(u)
    PROVE  LET q == RemoveRecursive(p, t)
           IN  /\ Sound(q, H) /\ Pruned(p, q) /\ p.tx \cap H \subseteq q.tx
               /\ t \notin q.tx /\ \A u \in q.tx : t \notin From(u)
<1> DEFINE S == IF t \in p.tx THEN {t} ELSE {p.next[o] : o \in Outputs(t)} \ {NoTx}
<1>1. RemoveRecursive(p, t) = RemoveStaged(p, CalculateDescendants(p, S), FALSE)
  BY DEF RemoveRecursive
<1>2. ASSUME NEW o \in Outputs(t), p.next[o] # NoTx
      PROVE  p.next[o] \in p.tx /\ t \in From(p.next[o])
  <2>1. o \in Outpoint /\ o[1] = t /\ p.next[o] \in Tx
    BY <1>2, TxFacts, PoolFields DEF Sound
  <2>2. p.next[o] \in p.tx /\ o \in Spends(p.next[o])
    BY <2>1 DEF Sound, LinksSound
  <2> QED BY <2>1, <2>2 DEF From
<1>3. ASSUME NEW u \in p.tx, t \in From(u), t \notin p.tx PROVE u \in S
  <2>1. u \in Tx
    BY PoolFields DEF Sound
  <2>2. PICK o \in Spends(u) : o[1] = t
    BY <1>3 DEF From
  <2>3. o \in Outputs(t) /\ o \in Outpoint
    BY <2>1, <2>2, TxFacts
  <2>4. p.next[o] = u /\ u # NoTx
    BY <2>1, <2>2, <2>3, MempoolAssumption DEF Sound, LinksSound
  <2> QED BY <1>3, <2>3, <2>4
<1>4. S \in SUBSET p.tx /\ S \cap H = {}
  BY <1>2
<1> HIDE DEF S
<1> DEFINE q == RemoveStaged(p, CalculateDescendants(p, S), FALSE)
<1>5. Sound(q, H) /\ Pruned(p, q) /\ q.tx \cap S = {} /\ p.tx \cap H \subseteq q.tx
  BY <1>4, DescendantsRemoved
<1> HIDE DEF q
<1>6. t \notin q.tx
  BY <1>5 DEF S, Pruned
<1>7. ASSUME NEW u \in q.tx, t \in From(u) PROVE FALSE
  <2>1. u \in p.tx
    BY <1>5 DEF Pruned
  <2>2. CASE t \in p.tx
    BY <1>5, <1>6, <1>7, <2>2 DEF Pruned
  <2>3. CASE t \notin p.tx
    BY <1>3, <1>5, <1>7, <2>1, <2>3
  <2> QED BY <2>2, <2>3
<1> QED BY <1>1, <1>5, <1>6, <1>7 DEF q

-----------------------------------------------------------------------------
(* What is confirmed on a chain. *)

LEMMA VtxFacts ==
    ASSUME NEW b \in Block
    PROVE  /\ Vtx[b] \in Seq(Tx) /\ Len(Vtx[b]) \in Nat /\ DOMAIN Vtx[b] = 1..Len(Vtx[b])
           /\ ToSet(Vtx[b]) \subseteq Tx /\ ToSet(Vtx[b]) = {Vtx[b][i] : i \in 1..Len(Vtx[b])}
<1>1. Vtx[b] \in Seq(Tx)
  BY MempoolAssumption
<1>2. /\ Len(Vtx[b]) \in Nat /\ DOMAIN Vtx[b] = 1..Len(Vtx[b])
      /\ \A i \in 1..Len(Vtx[b]) : Vtx[b][i] \in Tx
  BY <1>1, LenProperties, ElementOfSeq
<1> QED BY <1>1, <1>2 DEF ToSet

LEMMA ConfirmedStep ==
    ASSUME NEW b \in Block
    PROVE  /\ Confirmed[b] \subseteq Tx
           /\ Confirmed[b] = (IF b = Genesis THEN {} ELSE Confirmed[Parent[b]]) \cup ToSet(Vtx[b])
           /\ \A a \in Chain[b] : a \in Block /\ Confirmed[a] \subseteq Confirmed[b]
<1>1. \A c \in Block : Confirmed[c] = UNION {ToSet(Vtx[x]) : x \in Chain[c]}
  BY DEF Confirmed
<1>2. Confirmed[b] \subseteq Tx
  <2>1. \A c \in Chain[b] : ToSet(Vtx[c]) \subseteq Tx
    BY ChainLeast, VtxFacts
  <2> QED BY <1>1, <2>1
<1>3. Confirmed[b] = (IF b = Genesis THEN {} ELSE Confirmed[Parent[b]]) \cup ToSet(Vtx[b])
  <2>1. CASE b = Genesis
    <3>1. Chain[b] = {b}
      BY <2>1, ChainStep
    <3> QED BY <1>1, <2>1, <3>1
  <2>2. CASE b # Genesis
    <3>1. Chain[b] = {b} \cup Chain[Parent[b]] /\ Parent[b] \in Block
      BY <2>2, ChainStep, ParentBlock
    <3>2. Confirmed[b] = UNION {ToSet(Vtx[x]) : x \in Chain[b]}
      BY <1>1
    <3>3. Confirmed[Parent[b]] = UNION {ToSet(Vtx[x]) : x \in Chain[Parent[b]]}
      BY <1>1, <3>1
    <3> QED BY <2>2, <3>1, <3>2, <3>3
  <2> QED BY <2>1, <2>2
<1>4. ASSUME NEW a \in Chain[b] PROVE a \in Block /\ Confirmed[a] \subseteq Confirmed[b]
  <2>1. a \in Block /\ Chain[a] \subseteq Chain[b]
    BY ChainOfAncestor
  <2> QED BY <1>1, <2>1
<1> QED BY <1>2, <1>3, <1>4

(* A transaction is confirmed once on a chain. *)
LEMMA ConfirmedOnce ==
    ASSUME NEW b \in Block
    PROVE  /\ \A i, j \in 1..Len(Vtx[b]) : Vtx[b][i] = Vtx[b][j] => i = j
           /\ b # Genesis => ToSet(Vtx[b]) \cap Confirmed[Parent[b]] = {}
<1>1. ASSUME NEW i \in 1..Len(Vtx[b]) PROVE Vtx[b][i] \notin Before(b, i)
  BY VtxFacts, BlocksAssumption
<1>2. ASSUME NEW i \in 1..Len(Vtx[b]), NEW j \in 1..Len(Vtx[b]), j < i
      PROVE  Vtx[b][j] \in Before(b, i)
  <2>1. j \in 1..(i - 1)
    BY <1>2, VtxFacts
  <2> QED BY <2>1 DEF Before
<1>3. \A i, j \in 1..Len(Vtx[b]) : Vtx[b][i] = Vtx[b][j] => i = j
  <2> SUFFICES ASSUME NEW i \in 1..Len(Vtx[b]), NEW j \in 1..Len(Vtx[b]),
                      Vtx[b][i] = Vtx[b][j], i # j
               PROVE  FALSE
    OBVIOUS
  <2>1. i < j \/ j < i
    BY VtxFacts
  <2> QED BY <1>1, <1>2, <2>1
<1>4. ASSUME b # Genesis, NEW t \in ToSet(Vtx[b]) PROVE t \notin Confirmed[Parent[b]]
  <2>1. PICK i \in 1..Len(Vtx[b]) : t = Vtx[b][i]
    BY VtxFacts
  <2> QED BY <1>1, <1>4, <2>1 DEF Before
<1> QED BY <1>3, <1>4

(* What is confirmed spends what is confirmed, and nothing is spent twice. *)
ChainSpends(b) ==
    /\ \A t \in Confirmed[b] : From(t) \subseteq Confirmed[b]
    /\ \A t, u \in Confirmed[b] : t # u => Spends(t) \cap Spends(u) = {}

LEMMA ConfirmedSpends ==
    \A b \in Block : ChainSpends(b)
<1> DEFINE S == {b \in Block : ChainSpends(b)}
           Below(b) == IF b = Genesis THEN {} ELSE Confirmed[Parent[b]]
<1>1. ASSUME NEW b \in Block, b # Genesis => ChainSpends(Parent[b]) PROVE b \in S
  <2>1. Confirmed[b] = Below(b) \cup ToSet(Vtx[b])
    BY ConfirmedStep
  <2>2. /\ \A t \in Below(b) : From(t) \subseteq Below(b)
        /\ \A t, u \in Below(b) : t # u => Spends(t) \cap Spends(u) = {}
    BY <1>1 DEF ChainSpends
  <2>3. ASSUME NEW i \in 1..Len(Vtx[b])
        PROVE  /\ Before(b, i) \subseteq Confirmed[b] /\ Below(b) \subseteq Before(b, i)
               /\ \A j \in 1..Len(Vtx[b]) : j < i => Vtx[b][j] \in Before(b, i)
    <3>1. \A j \in 1..(i - 1) : j \in 1..Len(Vtx[b])
      BY VtxFacts
    <3>2. \A j \in 1..Len(Vtx[b]) : j < i => j \in 1..(i - 1)
      BY VtxFacts
    <3> QED BY <2>1, <3>1, <3>2, VtxFacts DEF Before
  <2>4. ASSUME NEW i \in 1..Len(Vtx[b])
        PROVE  /\ From(Vtx[b][i]) \subseteq Before(b, i)
               /\ \A u \in Before(b, i) : Spends(Vtx[b][i]) \cap Spends(u) = {}
    <3>1. /\ Spends(Vtx[b][i]) \subseteq UNION {Outputs(u) : u \in Before(b, i)}
          /\ \A u \in Before(b, i) : Spends(Vtx[b][i]) \cap Spends(u) = {}
      BY VtxFacts, BlocksAssumption
    <3>2. Before(b, i) \subseteq Tx
      BY <2>3, ConfirmedStep
    <3>3. ASSUME NEW o \in Spends(Vtx[b][i]) PROVE o[1] \in Before(b, i)
      <4>1. PICK u \in Before(b, i) : o \in Outputs(u)
        BY <3>1
      <4> QED BY <3>2, <4>1, TxFacts
    <3> QED BY <3>1, <3>3 DEF From
  <2>5. ASSUME NEW t \in ToSet(Vtx[b])
        PROVE  /\ From(t) \subseteq Confirmed[b]
               /\ \A u \in Below(b) : Spends(t) \cap Spends(u) = {}
    <3>1. PICK i \in 1..Len(Vtx[b]) : t = Vtx[b][i]
      BY VtxFacts
    <3> HIDE DEF Below
    <3> QED BY <2>3, <2>4, <3>1
  <2>6. ASSUME NEW t \in ToSet(Vtx[b]), NEW u \in ToSet(Vtx[b]), t # u
        PROVE  Spends(t) \cap Spends(u) = {}
    <3>1. PICK i \in 1..Len(Vtx[b]) : t = Vtx[b][i]
      BY VtxFacts
    <3>2. PICK j \in 1..Len(Vtx[b]) : u = Vtx[b][j]
      BY VtxFacts
    <3>3. i < j \/ j < i
      BY <2>6, <3>1, <3>2, VtxFacts
    <3>4. t \in Before(b, j) \/ u \in Before(b, i)
      BY <2>3, <3>1, <3>2, <3>3
    <3> QED BY <2>4, <3>1, <3>2, <3>4
  <2>7. \A t \in Confirmed[b] : From(t) \subseteq Confirmed[b]
    <3> HIDE DEF Below
    <3> QED BY <2>1, <2>2, <2>5
  <2>8. \A t, u \in Confirmed[b] : t # u => Spends(t) \cap Spends(u) = {}
    <3> HIDE DEF Below
    <3>1. ASSUME NEW t \in Confirmed[b], NEW u \in Confirmed[b], t # u
          PROVE  Spends(t) \cap Spends(u) = {}
      <4>1. CASE t \in Below(b) /\ u \in Below(b)
        BY <2>2, <3>1, <4>1
      <4>2. CASE t \in Below(b) /\ u \in ToSet(Vtx[b])
        BY <2>5, <4>2
      <4>3. CASE t \in ToSet(Vtx[b]) /\ u \in Below(b)
        BY <2>5, <4>3
      <4>4. CASE t \in ToSet(Vtx[b]) /\ u \in ToSet(Vtx[b])
        BY <2>6, <3>1, <4>4
      <4> QED BY <2>1, <4>1, <4>2, <4>3, <4>4
    <3> QED BY <3>1
  <2> QED BY <2>7, <2>8 DEF ChainSpends
<1>2. S = Block
  <2>1. Genesis \in S
    BY <1>1, TreeAssumption
  <2>2. \A b \in Block \ {Genesis} : Parent[b] \in S => b \in S
    BY <1>1
  <2> HIDE DEF S
  <2>3. S \in SUBSET Block
    BY DEF S
  <2> QED BY <2>1, <2>2, <2>3, TreeInduction
<1> QED BY <1>2

(* An output is unspent when it is there and nothing confirmed spends it. *)
LEMMA UtxoFacts ==
    ASSUME NEW b \in Block, NEW o \in Outpoint
    PROVE  o \in Utxo[b] <=> o[1] \in Confirmed[b] /\ \A t \in Confirmed[b] : o \notin Spends(t)
<1>1. Utxo[b] = (UNION {Outputs(t) : t \in Confirmed[b]}) \ (UNION {Spends(t) : t \in Confirmed[b]})
  BY DEF Utxo
<1>2. PICK u \in Tx : o \in Outputs(u)
  BY DEF Outpoint
<1>3. u = o[1] /\ \A t \in Tx : o \in Outputs(t) => t = u
  BY <1>2, TxFacts
<1>4. Confirmed[b] \subseteq Tx
  BY ConfirmedStep
<1> QED BY <1>1, <1>2, <1>3, <1>4

(* Where a confirmed output's coin is found: on a longer chain it is the   *)
(* same block.                                                             *)
LEMMA CoinPlace ==
    ASSUME NEW b \in Block, b # Genesis, NEW t \in Confirmed[Parent[b]]
    PROVE  (CHOOSE c \in Chain[b] : t \in ToSet(Vtx[c]))
               = (CHOOSE c \in Chain[Parent[b]] : t \in ToSet(Vtx[c]))
<1>1. Chain[b] = {b} \cup Chain[Parent[b]] /\ Parent[b] \in Block
  BY ChainStep, ParentBlock
<1>2. t \notin ToSet(Vtx[b])
  BY ConfirmedOnce
<1>3. \A c : c \in Chain[b] /\ t \in ToSet(Vtx[c]) <=> c \in Chain[Parent[b]] /\ t \in ToSet(Vtx[c])
  BY <1>1, <1>2
<1> QED BY <1>3

-----------------------------------------------------------------------------
(* The loops over blocks and inputs.                                       *)
(*                                                                         *)
(* A loop's function is the one that its turns say: the lemmas on turns    *)
(* show that it exists.                                                    *)

LEMMA RecursiveType ==
    ASSUME NEW p \in Pools, NEW t \in Tx
    PROVE  RemoveRecursive(p, t) \in Pools
<1> DEFINE S == IF t \in p.tx THEN {t} ELSE {p.next[o] : o \in Outputs(t)} \ {NoTx}
<1>1. RemoveRecursive(p, t) = RemoveStaged(p, Reach(p.children, S), FALSE)
  BY DEF RemoveRecursive, CalculateDescendants
<1>2. \A o \in Outputs(t) : p.next[o] \in Tx \cup {NoTx}
  BY TxFacts, PoolFields
<1>3. S \in SUBSET Tx
  BY <1>2
<1> HIDE DEF S
<1>4. Reach(p.children, S) \in SUBSET Tx
  BY <1>3, PoolFields, ReachFacts
<1>5. Without(p, Reach(p.children, S), RemoveStaged(p, Reach(p.children, S), FALSE))
  BY <1>4, Removed
<1> QED BY <1>1, <1>5 DEF Without

(* The dropped transactions of disconnected blocks. *)
LEMMA RecursiveSteps ==
    ASSUME NEW p \in Pools, NEW txs \in Seq(Tx)
    PROVE  LET w == RecursiveTurns(p, txs)
           IN  w[0] = p /\ \A i \in 1..Len(txs) : w[i] = RemoveRecursive(w[i - 1], txs[i])
<1> DEFINE N == Len(txs)
           F(i, x) == RemoveRecursive(x, txs[i])
           Run(f) == f = [i \in 0..N |-> IF i = 0 THEN p ELSE F(i, f[i - 1])]
           step == [i \in 1..N |-> [x \in Pools |-> F(i, x)]]
           w == CHOOSE f : Run(f)
<1>1. RecursiveTurns(p, txs) = w
  BY DEF RecursiveTurns
<1>2. N \in Nat /\ \A i \in 1..N : txs[i] \in Tx
  BY LenProperties, ElementOfSeq
<1>3. \A i \in 1..N : \A x \in Pools : F(i, x) \in Pools
  BY <1>2, RecursiveType
<1> HIDE DEF N, F
<1>4. Body(step, N, Pools)
  BY <1>3 DEF Body
<1>5. PICK f : RunUp(f, step, N, Pools, p)
  <2> HIDE DEF step
  <2> QED BY <1>2, <1>4, LoopRuns
<1>6. f \in [0..N -> Pools] /\ f[0] = p /\ \A i \in 1..N : f[i] = step[i][f[i - 1]]
  <2> HIDE DEF step
  <2> QED BY <1>5 DEF RunUp
<1>7. \A i \in 0..N : i # 0 => i \in 1..N /\ i - 1 \in 0..N
  BY <1>2
<1>8. Run(f)
  <2>1. \A i \in 0..N : f[i] = IF i = 0 THEN p ELSE F(i, f[i - 1])
    BY <1>6, <1>7
  <2>2. f = [i \in 0..N |-> f[i]]
    BY <1>6
  <2> QED BY <2>1, <2>2
<1>9. Run(w)
  <2> HIDE DEF Run
  <2> QED BY <1>8
<1> HIDE DEF w, step
<1>10. w[0] = p /\ \A i \in 1..N : w[i] = F(i, w[i - 1])
  <2>1. 0 \in 0..N /\ \A i \in 1..N : i \in 0..N /\ i # 0
    BY <1>2
  <2> QED BY <1>9, <2>1
<1> QED BY <1>1, <1>10 DEF N, F

LEMMA RecursivelyDropped ==
    ASSUME NEW p, Sound(p, {}), NEW txs \in Seq(Tx)
    PROVE  LET q == RecursiveTurns(p, txs)[Len(txs)]
           IN  /\ Sound(q, {}) /\ Pruned(p, q)
               /\ \A t \in ToSet(txs) : t \notin q.tx /\ \A u \in q.tx : t \notin From(u)
<1> DEFINE w == RecursiveTurns(p, txs)
           N == Len(txs)
           Gone(q, t) == t \notin q.tx /\ \A u \in q.tx : t \notin From(u)
           T == {i \in 0..N : /\ Sound(w[i], {}) /\ Pruned(p, w[i])
                              /\ \A j \in 1..i : Gone(w[i], txs[j])}
<1>1. w[0] = p /\ \A i \in 1..N : w[i] = RemoveRecursive(w[i - 1], txs[i])
  BY RecursiveSteps DEF Sound
<1>2. N \in Nat /\ (\A i \in 1..N : txs[i] \in Tx) /\ ToSet(txs) = {txs[i] : i \in 1..N}
  BY LenProperties, ElementOfSeq DEF ToSet
<1> HIDE DEF w, N
<1>3. 0 \in T
  BY <1>1, <1>2 DEF Pruned, Kept
<1>4. ASSUME NEW i \in 1..N, i - 1 \in T PROVE i \in T
  <2>1. /\ Sound(w[i - 1], {}) /\ Pruned(p, w[i - 1])
        /\ \A j \in 1..(i - 1) : Gone(w[i - 1], txs[j])
    BY <1>4
  <2>2. w[i] = RemoveRecursive(w[i - 1], txs[i]) /\ txs[i] \in Tx
    BY <1>1, <1>2
  <2>3. Sound(w[i], {}) /\ Pruned(w[i - 1], w[i]) /\ Gone(w[i], txs[i])
    BY <2>1, <2>2, RecursivelyRemoved
  <2>4. Pruned(p, w[i])
    BY <2>1, <2>3, PrunedTwice
  <2>5. ASSUME NEW j \in 1..i PROVE Gone(w[i], txs[j])
    <3>1. CASE j = i
      BY <2>3, <3>1
    <3>2. CASE j # i
      <4>1. j \in 1..(i - 1)
        BY <3>2, <1>2
      <4> QED BY <2>1, <2>3, <4>1 DEF Pruned
    <3> QED BY <3>1, <3>2
  <2>6. i \in 0..N
    BY <1>2
  <2> QED BY <2>3, <2>4, <2>5, <2>6
<1>5. N \in T
  <2>1. 0..N \subseteq T
    <3> HIDE DEF T
    <3> QED BY <1>2, <1>3, <1>4, RoundsUp
  <2> QED BY <1>2, <2>1
<1> QED BY <1>2, <1>5 DEF w, N

(* removeConflicts, one input at a time. *)
ConflictTurn(q, t, i) ==
    LET c == q.next[Vin[t][i]]
    IN  IF c \in {NoTx, t} THEN q ELSE RemoveRecursive(ClearPrioritisation(q, c), c)

LEMMA ConflictSteps ==
    ASSUME NEW p \in Pools, NEW t \in Tx
    PROVE  LET w == ConflictTurns(p, t)
           IN  /\ w[0] = p /\ \A i \in 1..Len(Vin[t]) : w[i] = ConflictTurn(w[i - 1], t, i)
               /\ w[Len(Vin[t])] \in Pools
<1> DEFINE N == Len(Vin[t])
           F(i, x) == ConflictTurn(x, t, i)
           Run(f) == f = [i \in 0..N |-> IF i = 0 THEN p ELSE F(i, f[i - 1])]
           step == [i \in 1..N |-> [x \in Pools |-> F(i, x)]]
           w == CHOOSE f : Run(f)
<1>1. ConflictTurns(p, t) = w
  BY DEF ConflictTurns, ConflictTurn
<1>2. N \in Nat /\ \A i \in 1..N : Vin[t][i] \in Outpoint
  BY TxFacts
<1>3. ASSUME NEW i \in 1..N, NEW x \in Pools PROVE F(i, x) \in Pools
  <2> DEFINE c == x.next[Vin[t][i]]
  <2>1. c \in Tx \cup {NoTx}
    BY <1>2, PoolFields
  <2>2. F(i, x) = IF c \in {NoTx, t} THEN x ELSE RemoveRecursive(ClearPrioritisation(x, c), c)
    BY DEF ConflictTurn
  <2> HIDE DEF c, F
  <2>3. CASE c \in {NoTx, t}
    BY <2>2, <2>3
  <2>4. CASE c \notin {NoTx, t}
    <3>1. c \in Tx
      BY <2>1, <2>4
    <3>2. ClearPrioritisation(x, c) \in Pools
      BY <3>1, Cleared
    <3> QED BY <2>2, <2>4, <3>1, <3>2, RecursiveType
  <2> QED BY <2>3, <2>4
<1> HIDE DEF N, F
<1>4. Body(step, N, Pools)
  BY <1>3 DEF Body
<1>5. PICK f : RunUp(f, step, N, Pools, p)
  <2> HIDE DEF step
  <2> QED BY <1>2, <1>4, LoopRuns
<1>6. f \in [0..N -> Pools] /\ f[0] = p /\ \A i \in 1..N : f[i] = step[i][f[i - 1]]
  <2> HIDE DEF step
  <2> QED BY <1>5 DEF RunUp
<1>7. \A i \in 0..N : i # 0 => i \in 1..N /\ i - 1 \in 0..N
  BY <1>2
<1>8. Run(f)
  <2>1. \A i \in 0..N : f[i] = IF i = 0 THEN p ELSE F(i, f[i - 1])
    BY <1>6, <1>7
  <2>2. f = [i \in 0..N |-> f[i]]
    BY <1>6
  <2> QED BY <2>1, <2>2
<1>9. Run(w)
  <2> HIDE DEF Run
  <2> QED BY <1>8
<1> HIDE DEF w, step
<1>10. w[0] = p /\ \A i \in 1..N : w[i] = F(i, w[i - 1])
  <2>1. 0 \in 0..N /\ \A i \in 1..N : i \in 0..N /\ i # 0
    BY <1>2
  <2> QED BY <1>9, <2>1
<1> HIDE DEF Run
<1> DEFINE T == {i \in 0..N : w[i] \in Pools}
<1>11. N \in T
  <2>1. 0 \in T
    BY <1>2, <1>10
  <2>2. ASSUME NEW i \in 1..N, i - 1 \in T PROVE i \in T
    BY <1>2, <1>3, <1>10, <2>2
  <2>3. 0..N \subseteq T
    <3> HIDE DEF T
    <3> QED BY <1>2, <2>1, <2>2, RoundsUp
  <2> QED BY <1>2, <2>3
<1> QED BY <1>1, <1>10, <1>11 DEF N, F

LEMMA ClearedSound ==
    ASSUME NEW p, NEW H, Sound(p, H), NEW t \in Tx
    PROVE  LET q == ClearPrioritisation(p, t)
           IN  /\ Sound(q, H) /\ q.tx = p.tx /\ q.tx \subseteq Tx /\ q.delta = p.delta
               /\ \A u \in Tx \ {t} : q.mapDeltas[u] = p.mapDeltas[u]
<1> DEFINE q == ClearPrioritisation(p, t)
<1>1. /\ q \in Pools /\ q.tx = p.tx /\ q.parents = p.parents /\ q.children = p.children
      /\ q.next = p.next /\ q.delta = p.delta /\ q.anc = p.anc /\ q.desc = p.desc /\ q.size = p.size
      /\ q.tx \subseteq Tx /\ \A u \in Tx \ {t} : q.mapDeltas[u] = p.mapDeltas[u]
  BY Cleared, PoolFields DEF Sound
<1> HIDE DEF q
<1>2. LinksSound(q)
  BY <1>1 DEF Sound, LinksSound
<1>3. Summed(q)
  <2>1. p \in Pools /\ LinksSound(p) /\ Summed(p)
    BY DEF Sound
  <2>2. q.delta \in [Tx -> Int] /\ p.delta \in [Tx -> Int]
    BY <1>1, <2>1, PoolFields
  <2>3. \A X \in SUBSET Tx : Total(q, X) = Total(p, X)
    BY <1>1, <2>2, TotalSame
  <2>4. \A u \in p.tx : Reach(p.children, {u}) \in SUBSET Tx /\ Reach(p.parents, {u}) \in SUBSET Tx
    BY <2>1, LinksBack
  <2> QED BY <1>1, <2>1, <2>3, <2>4 DEF Summed
<1>4. Sound(q, H)
  BY <1>1, <1>2, <1>3 DEF Sound
<1> QED BY <1>1, <1>4 DEF q

LEMMA ConflictsRemoved ==
    ASSUME NEW p, Sound(p, {}), NEW t \in Tx, t \notin p.tx
    PROVE  LET q == RemoveConflicts(p, t)
           IN  /\ Sound(q, {}) /\ Pruned(p, q)
               /\ \A u \in q.tx : Spends(u) \cap Spends(t) = {}
<1> DEFINE w == ConflictTurns(p, t)
           N == Len(Vin[t])
           T == {i \in 0..N : /\ Sound(w[i], {}) /\ Pruned(p, w[i])
                              /\ \A j \in 1..i : \A u \in w[i].tx : Vin[t][j] \notin Spends(u)}
<1>1. w[0] = p /\ \A i \in 1..N : w[i] = ConflictTurn(w[i - 1], t, i)
  BY ConflictSteps DEF Sound
<1>2. N \in Nat /\ Spends(t) = {Vin[t][i] : i \in 1..N} /\ \A i \in 1..N : Vin[t][i] \in Outpoint
  BY TxFacts
<1>3. RemoveConflicts(p, t) = w[N]
  BY DEF RemoveConflicts
<1> HIDE DEF w, N
<1>4. 0 \in T
  BY <1>1, <1>2 DEF Pruned, Kept
<1>5. ASSUME NEW i \in 1..N, i - 1 \in T PROVE i \in T
  <2> DEFINE q == w[i - 1]
             o == Vin[t][i]
             c == q.next[o]
  <2>1. /\ Sound(q, {}) /\ Pruned(p, q)
        /\ \A j \in 1..(i - 1) : \A u \in q.tx : Vin[t][j] \notin Spends(u)
    BY <1>5
  <2>2. o \in Outpoint /\ w[i] = ConflictTurn(q, t, i)
    BY <1>1, <1>2
  <2>3. w[i] = IF c \in {NoTx, t} THEN q ELSE RemoveRecursive(ClearPrioritisation(q, c), c)
    BY <2>2 DEF ConflictTurn
  <2>4. q \in Pools /\ c \in Tx \cup {NoTx} /\ q.tx \subseteq Tx
    BY <2>1, <2>2, PoolFields DEF Sound
  <2> HIDE DEF q, o
  <2>5. \A u \in q.tx : o \in Spends(u) => c = u
    BY <2>1, <2>2, <2>4 DEF Sound, LinksSound
  <2> HIDE DEF c
  <2>6. Sound(w[i], {}) /\ Pruned(q, w[i]) /\ \A u \in w[i].tx : o \notin Spends(u)
    <3>1. CASE c \in {NoTx, t}
      <4>1. w[i] = q /\ Pruned(q, q)
        BY <2>3, <3>1 DEF Pruned, Kept
      <4>2. t \notin q.tx /\ NoTx \notin q.tx
        BY <2>1, <2>4, MempoolAssumption DEF Pruned
      <4> QED BY <2>1, <2>5, <3>1, <4>1, <4>2
    <3>2. CASE c \notin {NoTx, t}
      <4>1. c \in Tx /\ w[i] = RemoveRecursive(ClearPrioritisation(q, c), c)
        BY <2>3, <2>4, <3>2
      <4> DEFINE r == ClearPrioritisation(q, c)
      <4>2. /\ Sound(r, {}) /\ r.tx = q.tx /\ r.delta = q.delta
            /\ \A u \in Tx \ {c} : r.mapDeltas[u] = q.mapDeltas[u]
        BY <2>1, <4>1, ClearedSound
      <4>3. Sound(w[i], {}) /\ Pruned(ClearPrioritisation(q, c), w[i]) /\ c \notin w[i].tx
        BY <4>1, <4>2, RecursivelyRemoved
      <4>4. Pruned(q, w[i])
        <5> HIDE DEF r
        <5>1. Pruned(r, w[i])
          BY <4>3 DEF r
        <5>2. Kept(q, w[i])
          BY <2>4, <4>2, <4>3, <5>1 DEF Pruned, Kept
        <5> QED BY <4>2, <5>1, <5>2 DEF Pruned
      <4> QED BY <2>5, <4>3, <4>4 DEF Pruned
    <3> QED BY <3>1, <3>2
  <2>7. Pruned(p, w[i])
    BY <2>1, <2>6, PrunedTwice
  <2>8. ASSUME NEW j \in 1..i, NEW u \in w[i].tx PROVE Vin[t][j] \notin Spends(u)
    <3>1. CASE j = i
      BY <2>6, <3>1 DEF o
    <3>2. CASE j # i
      <4>1. j \in 1..(i - 1)
        BY <3>2, <1>2
      <4> QED BY <2>1, <2>6, <4>1 DEF Pruned
    <3> QED BY <3>1, <3>2
  <2>9. i \in 0..N
    BY <1>2
  <2> QED BY <2>6, <2>7, <2>8, <2>9
<1>6. N \in T
  <2>1. 0..N \subseteq T
    <3> HIDE DEF T
    <3> QED BY <1>2, <1>4, <1>5, RoundsUp
  <2> QED BY <1>2, <2>1
<1> QED BY <1>2, <1>3, <1>6

(* q is what a block with the transactions of B leaves of p: an entry that *)
(* loses a parent loses it to the block.                                   *)
AfterBlock(p, B, q) ==
    /\ q.tx \subseteq p.tx \ B /\ Kept(p, q)
    /\ \A u \in q.tx : From(u) \cap p.tx \subseteq q.tx \cup B
    /\ \A u \in q.tx, t \in B : Spends(u) \cap Spends(t) = {}

LEMMA ConfirmedRemoved ==
    ASSUME NEW p, Sound(p, {}), NEW t \in Tx, From(t) \cap p.tx = {}
    PROVE  Sound(RemoveConfirmed(p, t), {}) /\ AfterBlock(p, {t}, RemoveConfirmed(p, t))
<1> DEFINE r == RemoveStaged(p, {t} \cap p.tx, TRUE)
           s == RemoveConflicts(r, t)
           q == ClearPrioritisation(s, t)
<1>1. Sound(r, {}) /\ r.tx = p.tx \ {t} /\ Kept(p, r)
  <2> DEFINE S == {t} \cap p.tx
  <2>1. S \in SUBSET p.tx
    OBVIOUS
  <2>2. ClosedUnder(p.parents, S)
    <3>1. p.parents[t] \subseteq Tx
      BY PoolFields DEF Sound
    <3>2. p.parents[t] = {}
      BY <3>1 DEF Sound, LinksSound
    <3> QED BY <3>2 DEF ClosedUnder
  <2> HIDE DEF S
  <2>3. /\ Sound(RemoveStaged(p, S, TRUE), {}) /\ RemoveStaged(p, S, TRUE).tx = p.tx \ S
        /\ Kept(p, RemoveStaged(p, S, TRUE))
    BY <2>1, <2>2, RemovedSound
  <2> QED BY <2>3 DEF S
<1>2. RemoveConfirmed(p, t) = q
  BY DEF RemoveConfirmed
<1> HIDE DEF r
<1>3. Sound(s, {}) /\ Pruned(r, s) /\ \A u \in s.tx : Spends(u) \cap Spends(t) = {}
  BY <1>1, ConflictsRemoved
<1> HIDE DEF s
<1>4. /\ Sound(q, {}) /\ q.tx = s.tx /\ q.tx \subseteq Tx /\ q.delta = s.delta
      /\ \A u \in Tx \ {t} : q.mapDeltas[u] = s.mapDeltas[u]
  BY <1>3, ClearedSound
<1> HIDE DEF q
<1>5. AfterBlock(p, {t}, q)
  <2>1. Kept(p, q)
    BY <1>1, <1>3, <1>4 DEF Pruned, Kept
  <2> QED BY <1>1, <1>3, <1>4, <2>1 DEF AfterBlock, Pruned
<1> QED BY <1>2, <1>4, <1>5

LEMMA ConfirmedType ==
    ASSUME NEW p \in Pools, NEW t \in Tx
    PROVE  RemoveConfirmed(p, t) \in Pools
<1> DEFINE S == {t} \cap p.tx
           r == RemoveStaged(p, S, TRUE)
           s == RemoveConflicts(r, t)
<1>1. RemoveConfirmed(p, t) = ClearPrioritisation(s, t)
  BY DEF RemoveConfirmed
<1>2. r \in Pools
  <2>1. S \in SUBSET Tx
    OBVIOUS
  <2> HIDE DEF S
  <2>2. Without(p, S, r)
    BY <2>1, Removed
  <2> HIDE DEF r
  <2> QED BY <2>2 DEF Without
<1> HIDE DEF r
<1>3. s \in Pools
  BY <1>2, ConflictSteps DEF RemoveConflicts
<1> HIDE DEF s
<1> QED BY <1>1, <1>3, Cleared

LEMMA BlockSteps ==
    ASSUME NEW p \in Pools, NEW vtx \in Seq(Tx)
    PROVE  LET w == BlockTurns(p, vtx)
           IN  w[0] = p /\ \A i \in 1..Len(vtx) : w[i] = RemoveConfirmed(w[i - 1], vtx[i])
<1> DEFINE N == Len(vtx)
           F(i, x) == RemoveConfirmed(x, vtx[i])
           Run(f) == f = [i \in 0..N |-> IF i = 0 THEN p ELSE F(i, f[i - 1])]
           step == [i \in 1..N |-> [x \in Pools |-> F(i, x)]]
           w == CHOOSE f : Run(f)
<1>1. BlockTurns(p, vtx) = w
  BY DEF BlockTurns
<1>2. N \in Nat /\ (\A i \in 1..N : vtx[i] \in Tx)
  BY LenProperties, ElementOfSeq
<1>3. ASSUME NEW i \in 1..N, NEW x \in Pools PROVE F(i, x) \in Pools
  BY <1>2, ConfirmedType
<1> HIDE DEF N, F
<1>4. Body(step, N, Pools)
  BY <1>3 DEF Body
<1>5. PICK f : RunUp(f, step, N, Pools, p)
  <2> HIDE DEF step
  <2> QED BY <1>2, <1>4, LoopRuns
<1>6. f \in [0..N -> Pools] /\ f[0] = p /\ \A i \in 1..N : f[i] = step[i][f[i - 1]]
  <2> HIDE DEF step
  <2> QED BY <1>5 DEF RunUp
<1>7. \A i \in 0..N : i # 0 => i \in 1..N /\ i - 1 \in 0..N
  BY <1>2
<1>8. Run(f)
  <2>1. \A i \in 0..N : f[i] = IF i = 0 THEN p ELSE F(i, f[i - 1])
    BY <1>6, <1>7
  <2>2. f = [i \in 0..N |-> f[i]]
    BY <1>6
  <2> QED BY <2>1, <2>2
<1>9. Run(w)
  <2> HIDE DEF Run
  <2> QED BY <1>8
<1> HIDE DEF w, step
<1>10. w[0] = p /\ \A i \in 1..N : w[i] = F(i, w[i - 1])
  <2>1. 0 \in 0..N /\ \A i \in 1..N : i \in 0..N /\ i # 0
    BY <1>2
  <2> QED BY <1>9, <2>1
<1> QED BY <1>1, <1>10 DEF N, F

LEMMA BlockRemoved ==
    ASSUME NEW p, Sound(p, {}), NEW vtx \in Seq(Tx),
           \A i \in 1..Len(vtx) : From(vtx[i]) \cap p.tx \subseteq {vtx[j] : j \in 1..(i - 1)}
    PROVE  Sound(RemoveForBlock(p, vtx), {}) /\ AfterBlock(p, ToSet(vtx), RemoveForBlock(p, vtx))
<1> DEFINE w == BlockTurns(p, vtx)
           N == Len(vtx)
           B(i) == {vtx[j] : j \in 1..i}
           T == {i \in 0..N : Sound(w[i], {}) /\ AfterBlock(p, B(i), w[i])}
<1>1. w[0] = p /\ \A i \in 1..N : w[i] = RemoveConfirmed(w[i - 1], vtx[i])
  BY BlockSteps DEF Sound
<1>2. N \in Nat /\ (\A i \in 1..N : vtx[i] \in Tx) /\ ToSet(vtx) = B(N)
  BY LenProperties, ElementOfSeq DEF ToSet
<1>3. RemoveForBlock(p, vtx) = w[N]
  BY DEF RemoveForBlock
<1>4. B(0) = {} /\ \A i \in 1..N : B(i) = B(i - 1) \cup {vtx[i]}
  <2>1. ASSUME NEW i \in 1..N PROVE 1..i = 1..(i - 1) \cup {i}
    BY <1>2
  <2>2. ASSUME NEW i \in 1..N PROVE B(i) = B(i - 1) \cup {vtx[i]}
    BY <2>1
  <2> QED BY <2>2
<1> HIDE DEF w, N, B
<1>5. 0 \in T
  BY <1>1, <1>2, <1>4 DEF AfterBlock, Kept
<1>6. ASSUME NEW i \in 1..N, i - 1 \in T PROVE i \in T
  <2> DEFINE q == w[i - 1]
             r == w[i]
             X == B(i - 1)
             t == vtx[i]
  <2>1. Sound(q, {}) /\ AfterBlock(p, X, q)
    BY <1>6
  <2>2. r = RemoveConfirmed(q, t) /\ t \in Tx
    BY <1>1, <1>2
  <2>3. Sound(r, {}) /\ AfterBlock(q, {t}, r)
    <3>1. From(t) \cap p.tx \subseteq X
      BY DEF N, B
    <3>2. From(t) \cap q.tx = {}
      BY <2>1, <3>1 DEF AfterBlock
    <3> QED BY <2>1, <2>2, <3>2, ConfirmedRemoved
  <2> HIDE DEF q, r, X, t
  <2>4. AfterBlock(p, X \cup {t}, r)
    <3>1. r.tx \subseteq q.tx \ {t} /\ q.tx \subseteq p.tx \ X
      BY <2>1, <2>3 DEF AfterBlock
    <3>11. Kept(p, r)
      BY <2>1, <2>3, <3>1 DEF AfterBlock, Kept
    <3>2. ASSUME NEW u \in r.tx PROVE From(u) \cap p.tx \subseteq r.tx \cup (X \cup {t})
      BY <2>1, <2>3, <3>1 DEF AfterBlock
    <3>3. ASSUME NEW u \in r.tx, NEW y \in X \cup {t} PROVE Spends(u) \cap Spends(y) = {}
      BY <2>1, <2>3, <3>1 DEF AfterBlock
    <3> QED BY <3>1, <3>11, <3>2, <3>3 DEF AfterBlock
  <2>5. i \in 0..N
    BY <1>2
  <2> QED BY <1>4, <2>3, <2>4, <2>5 DEF r, X, t
<1>7. N \in T
  <2>1. 0..N \subseteq T
    <3> HIDE DEF T
    <3> QED BY <1>2, <1>5, <1>6, RoundsUp
  <2> QED BY <1>2, <2>1
<1> QED BY <1>2, <1>3, <1>7

(* removeForBlock of disconnectpool *)
Injective(s) == \A i, j \in DOMAIN s : s[i] = s[j] => i = j

LEMMA QueueSteps ==
    ASSUME NEW queue \in Seq(Tx), NEW vtx
    PROVE  LET w == QueueTurns(queue, vtx)
           IN  /\ w[0] = <<>>
               /\ \A i \in 1..Len(queue) :
                     w[i] = IF queue[i] \in ToSet(vtx) THEN w[i - 1] ELSE Append(w[i - 1], queue[i])
<1> DEFINE N == Len(queue)
           F(i, x) == IF queue[i] \in ToSet(vtx) THEN x ELSE Append(x, queue[i])
           Run(f) == f = [i \in 0..N |-> IF i = 0 THEN <<>> ELSE F(i, f[i - 1])]
           step == [i \in 1..N |-> [x \in Seq(Tx) |-> F(i, x)]]
           w == CHOOSE f : Run(f)
<1>1. QueueTurns(queue, vtx) = w
  BY DEF QueueTurns
<1>2. N \in Nat /\ (\A i \in 1..N : queue[i] \in Tx) /\ <<>> \in Seq(Tx)
  BY LenProperties, ElementOfSeq, EmptySeq
<1>3. ASSUME NEW i \in 1..N, NEW x \in Seq(Tx) PROVE F(i, x) \in Seq(Tx)
  BY <1>2, AppendProperties
<1> HIDE DEF N, F
<1>4. Body(step, N, Seq(Tx))
  BY <1>3 DEF Body
<1>5. PICK f : RunUp(f, step, N, Seq(Tx), <<>>)
  <2> HIDE DEF step
  <2> QED BY <1>2, <1>4, LoopRuns
<1>6. f \in [0..N -> Seq(Tx)] /\ f[0] = <<>> /\ \A i \in 1..N : f[i] = step[i][f[i - 1]]
  <2> HIDE DEF step
  <2> QED BY <1>5 DEF RunUp
<1>7. \A i \in 0..N : i # 0 => i \in 1..N /\ i - 1 \in 0..N
  BY <1>2
<1>8. Run(f)
  <2>1. \A i \in 0..N : f[i] = IF i = 0 THEN <<>> ELSE F(i, f[i - 1])
    BY <1>6, <1>7
  <2>2. f = [i \in 0..N |-> f[i]]
    BY <1>6
  <2> QED BY <2>1, <2>2
<1>9. Run(w)
  <2> HIDE DEF Run
  <2> QED BY <1>8
<1> HIDE DEF w, step
<1>10. w[0] = <<>> /\ \A i \in 1..N : w[i] = F(i, w[i - 1])
  <2>1. 0 \in 0..N /\ \A i \in 1..N : i \in 0..N /\ i # 0
    BY <1>2
  <2> QED BY <1>9, <2>1
<1> QED BY <1>1, <1>10 DEF N, F

LEMMA QueueConfirmed ==
    ASSUME NEW queue \in Seq(Tx), Injective(queue), NEW vtx
    PROVE  LET r == Unconfirmed(queue, vtx)
           IN  r \in Seq(Tx) /\ Injective(r) /\ ToSet(r) = ToSet(queue) \ ToSet(vtx)
<1> DEFINE w == QueueTurns(queue, vtx)
           N == Len(queue)
           X == ToSet(vtx)
           Q(i) == {queue[j] : j \in 1..i}
           T == {i \in 0..N : w[i] \in Seq(Tx) /\ Injective(w[i]) /\ ToSet(w[i]) = Q(i) \ X}
<1>1. w[0] = <<>> /\ \A i \in 1..N : w[i] = IF queue[i] \in X THEN w[i - 1] ELSE Append(w[i - 1], queue[i])
  BY QueueSteps
<1>2. /\ N \in Nat /\ (\A i \in 1..N : queue[i] \in Tx) /\ ToSet(queue) = Q(N)
      /\ DOMAIN queue = 1..N
  BY LenProperties, ElementOfSeq DEF ToSet
<1>3. Unconfirmed(queue, vtx) = w[N]
  BY DEF Unconfirmed
<1>4. Q(0) = {} /\ \A i \in 1..N : Q(i) = Q(i - 1) \cup {queue[i]} /\ queue[i] \notin Q(i - 1)
  <2>1. ASSUME NEW i \in 1..N PROVE 1..i = 1..(i - 1) \cup {i}
    BY <1>2
  <2>2. ASSUME NEW i \in 1..N PROVE Q(i) = Q(i - 1) \cup {queue[i]}
    BY <2>1
  <2>3. ASSUME NEW i \in 1..N, NEW j \in 1..(i - 1) PROVE queue[i] # queue[j]
    <3>1. j \in 1..N /\ i # j
      BY <1>2
    <3> QED BY <1>2, <3>1 DEF Injective
  <2> QED BY <2>2, <2>3
<1> HIDE DEF w, N, X, Q
<1>5. 0 \in T
  <2>1. <<>> \in Seq(Tx) /\ DOMAIN <<>> = {}
    BY EmptySeq
  <2>2. Injective(<<>>) /\ ToSet(<<>>) = {}
    BY <2>1 DEF Injective, ToSet
  <2>3. 0 \in 0..N
    BY <1>2
  <2> QED BY <1>1, <1>4, <2>1, <2>2, <2>3
<1>6. ASSUME NEW i \in 1..N, i - 1 \in T PROVE i \in T
  <2> DEFINE s == w[i - 1]
             t == queue[i]
  <2>1. s \in Seq(Tx) /\ Injective(s) /\ ToSet(s) = Q(i - 1) \ X /\ t \in Tx /\ i \in 0..N
    BY <1>2, <1>6
  <2>2. w[i] = IF t \in X THEN s ELSE Append(s, t)
    BY <1>1
  <2>3. Q(i) = Q(i - 1) \cup {t} /\ t \notin Q(i - 1)
    BY <1>4
  <2> HIDE DEF s, t
  <2>4. CASE t \in X
    BY <2>1, <2>2, <2>3, <2>4
  <2>5. CASE t \notin X
    <3> DEFINE r == Append(s, t)
    <3>1. /\ r \in Seq(Tx) /\ Len(s) \in Nat /\ Len(r) = Len(s) + 1
          /\ (\A j \in 1..Len(s) : r[j] = s[j]) /\ r[Len(s) + 1] = t
          /\ DOMAIN r = 1..(Len(s) + 1) /\ DOMAIN s = 1..Len(s)
      BY <2>1, AppendProperties, LenProperties
    <3> HIDE DEF r
    <3>2. ToSet(r) = ToSet(s) \cup {t}
      <4>1. 1..(Len(s) + 1) = 1..Len(s) \cup {Len(s) + 1}
        BY <3>1
      <4> QED BY <3>1, <4>1 DEF ToSet
    <3>3. t \notin ToSet(s)
      BY <2>1, <2>3
    <3>4. Injective(r)
      <4> SUFFICES ASSUME NEW j \in 1..(Len(s) + 1), NEW k \in 1..(Len(s) + 1), r[j] = r[k], j # k
                   PROVE  FALSE
        BY <3>1 DEF Injective
      <4>1. \A l \in 1..Len(s) : r[l] = s[l] /\ r[l] # t
        BY <3>1, <3>3 DEF ToSet
      <4>2. \A l \in 1..(Len(s) + 1) : l \in 1..Len(s) \/ l = Len(s) + 1
        BY <3>1
      <4>3. j \in 1..Len(s) /\ k \in 1..Len(s)
        BY <3>1, <4>1, <4>2
      <4>4. s[j] = s[k]
        BY <4>1, <4>3
      <4> QED BY <2>1, <3>1, <4>3, <4>4 DEF Injective
    <3>5. w[i] = r
      BY <2>2, <2>5 DEF r
    <3> QED BY <2>1, <2>3, <2>5, <3>1, <3>2, <3>4, <3>5
  <2> QED BY <2>4, <2>5
<1>7. N \in T
  <2>1. 0..N \subseteq T
    <3> HIDE DEF T
    <3> QED BY <1>2, <1>5, <1>6, RoundsUp
  <2> QED BY <1>2, <2>1
<1> QED BY <1>2, <1>3, <1>7 DEF X

(* The links that UpdateTransactionsFromBlock adds, from the latest entry  *)
(* put back to the earliest.                                               *)
LEMMA UpdateSteps ==
    ASSUME NEW p \in Pools, vHashUpdate \in Seq(Tx)
    PROVE  LET w == UpdateTurns(p)
               n == Len(vHashUpdate)
           IN  w[n + 1] = p /\ \A i \in 1..n : w[i] = UpdateFromBlock(w[i + 1], vHashUpdate[i])
<1> DEFINE N == Len(vHashUpdate)
           F(i, x) == UpdateFromBlock(x, vHashUpdate[i])
           Run(f) == f = [i \in 1..(N + 1) |-> IF i = N + 1 THEN p ELSE F(i, f[i + 1])]
           step == [i \in 1..N |-> [x \in Pools |-> F(i, x)]]
           w == CHOOSE f : Run(f)
<1>1. UpdateTurns(p) = w
  BY DEF UpdateTurns
<1>2. N \in Nat /\ \A i \in 1..N : vHashUpdate[i] \in Tx
  BY LenProperties, ElementOfSeq
<1>3. \A i \in 1..N : \A x \in Pools : F(i, x) \in Pools
  BY <1>2, BlockUpdated DEF LateLinked
<1> HIDE DEF N, F
<1>4. Body(step, N, Pools)
  BY <1>3 DEF Body
<1>5. PICK f : RunDown(f, step, N, Pools, p)
  <2> HIDE DEF step
  <2> QED BY <1>2, <1>4, LoopRunsDown
<1>6. f \in [1..(N + 1) -> Pools] /\ f[N + 1] = p /\ \A i \in 1..N : f[i] = step[i][f[i + 1]]
  <2> HIDE DEF step
  <2> QED BY <1>5 DEF RunDown
<1>7. \A i \in 1..(N + 1) : i # N + 1 => i \in 1..N /\ i + 1 \in 1..(N + 1)
  BY <1>2
<1>8. Run(f)
  <2>1. \A i \in 1..(N + 1) : f[i] = IF i = N + 1 THEN p ELSE F(i, f[i + 1])
    BY <1>6, <1>7
  <2>2. f = [i \in 1..(N + 1) |-> f[i]]
    BY <1>6
  <2> QED BY <2>1, <2>2
<1>9. Run(w)
  <2> HIDE DEF Run
  <2> QED BY <1>8
<1> HIDE DEF w, step
<1>10. w[N + 1] = p /\ \A i \in 1..N : w[i] = F(i, w[i + 1])
  <2>1. N + 1 \in 1..(N + 1) /\ \A i \in 1..N : i \in 1..(N + 1) /\ i # N + 1
    BY <1>2
  <2> QED BY <1>9, <2>1
<1> QED BY <1>1, <1>10 DEF N, F

(* R of the entries H that were put back have still to be linked to their  *)
(* children that were never confirmed.  These do not count them yet, nor   *)
(* do they count these.                                                    *)
PartlySummed(p, R, H) ==
    /\ p.size = SizeOf(p.tx)
    /\ \A t \in p.tx :
          /\ p.desc[t] = Total(p, IF t \in R THEN Reach(p.children, {t}) \cap H ELSE Reach(p.children, {t}))
          /\ p.anc[t] = Total(p, IF t \in H THEN Reach(p.parents, {t}) ELSE Reach(p.parents, {t}) \ R)
Linked(p, R, H) ==
    /\ p \in Pools /\ LinksSound(p) /\ p.tx \cap Coinbase = {} /\ R \subseteq H /\ H \subseteq p.tx
    /\ \A t \in p.tx : \A u \in From(t) \cap p.tx : u \in p.parents[t] \/ (u \in R /\ t \notin H)
    /\ \A t \in H : From(t) \cap p.tx \subseteq H
    /\ PartlySummed(p, R, H)

(* The links that a turn makes: K and L are the parents before and after   *)
(* it, x is linked to C.                                                   *)
SameOutside(K, L, u, R) == Reach(L, {u}) \ R = Reach(K, {u}) \ R

LEMMA LateLinks ==
    ASSUME NEW K \in [Tx -> SUBSET Tx], NEW L \in [Tx -> SUBSET Tx], NEW x \in Tx, NEW C,
           \A u \in Tx : L[u] = IF u \in C THEN K[u] \cup {x} ELSE K[u],
           NEW R \in SUBSET Tx, x \in R, ClosedUnder(K, R), NEW u \in Tx
    PROVE  SameOutside(K, L, u, R)
<1> DEFINE A == Reach(K, {u})
           B == Reach(L, {u})
           Y == A \cup R
<1>1. u \in A /\ A \subseteq Tx /\ ClosedUnder(K, A)
  BY ReachFirst
<1>2. \A X \in SUBSET Tx : u \in X /\ ClosedUnder(L, X) => B \subseteq X
  BY ReachFirst
<1>3. A \subseteq B
  <2>1. {u} \in SUBSET Tx /\ \A y \in Tx : K[y] \subseteq L[y]
    OBVIOUS
  <2> QED BY <2>1, ReachMore
<1> HIDE DEF A, B
<1>4. ClosedUnder(L, Y)
  <2> SUFFICES ASSUME NEW y \in Y PROVE L[y] \subseteq Y
    BY DEF ClosedUnder
  <2>1. y \in Tx /\ L[y] \subseteq K[y] \cup {x}
    BY <1>1
  <2>2. K[y] \subseteq Y
    BY <1>1 DEF ClosedUnder
  <2> QED BY <2>1, <2>2
<1>5. B \subseteq Y
  BY <1>1, <1>2, <1>4
<1> QED BY <1>3, <1>5 DEF A, B, SameOutside

LEMMA BlockSummed ==
    ASSUME NEW p, NEW R, Linked(p, R, ToSet(vHashUpdate)), NEW x \in R,
           \A t \in R : From(t) \cap p.tx \subseteq R \ {x}, LinksSound(UpdateFromBlock(p, x))
    PROVE  PartlySummed(UpdateFromBlock(p, x), R \ {x}, ToSet(vHashUpdate))
<1> DEFINE q == UpdateFromBlock(p, x)
           H == ToSet(vHashUpdate)
           C == LateChildren(p, x)
           D == (Reach(q.children, {x}) \ {x}) \ H
           Up(u) == Reach(p.parents, {u})
           Down(u) == Reach(p.children, {u})
           UpQ(u) == Reach(q.parents, {u})
           DownQ(u) == Reach(q.children, {u})
<1>1. /\ p \in Pools /\ LinksSound(p) /\ R \subseteq H /\ H \subseteq p.tx /\ PartlySummed(p, R, H)
      /\ \A t \in H : From(t) \cap p.tx \subseteq H
  BY DEF Linked
<1>2. p.tx \subseteq Tx /\ x \in p.tx /\ x \in Tx /\ x \in H /\ R \in SUBSET Tx /\ H \in SUBSET Tx
  BY <1>1, PoolFields
<1>3. /\ q \in Pools /\ q.tx = p.tx /\ q.delta = p.delta /\ q.size = p.size
      /\ \A u \in Tx :
            /\ q.parents[u] = IF u \in C THEN p.parents[u] \cup {x} ELSE p.parents[u]
            /\ q.desc[u] = IF u = x THEN Plus(p.desc[u], Total(p, D)) ELSE p.desc[u]
            /\ q.anc[u] = IF u \in D THEN Plus(p.anc[u], Total(p, {x})) ELSE p.anc[u]
  <2>1. LateLinked(p, x, q)
    BY <1>1, <1>2, BlockUpdated
  <2> HIDE DEF q
  <2> QED BY <1>2, <2>1 DEF LateLinked
<1>4. LinksSound(q) /\ C \cap H = {}
  BY DEF LateChildren
<1> HIDE DEF q, C, H
<1>5. /\ p.parents \in [Tx -> SUBSET Tx] /\ p.children \in [Tx -> SUBSET Tx]
      /\ \A t, u \in Tx : u \in Up(t) <=> t \in Down(u)
      /\ \A t \in p.tx : Up(t) \subseteq p.tx /\ Down(t) \subseteq p.tx
  BY <1>1, LinksBack
<1>6. /\ q.parents \in [Tx -> SUBSET Tx] /\ q.children \in [Tx -> SUBSET Tx]
      /\ \A t, u \in Tx : u \in UpQ(t) <=> t \in DownQ(u)
      /\ \A t \in p.tx : UpQ(t) \subseteq p.tx /\ DownQ(t) \subseteq p.tx
  BY <1>3, <1>4, LinksBack
<1>7. \A t \in Tx : p.parents[t] \subseteq From(t) \cap p.tx
  BY <1>1, <1>5 DEF LinksSound
<1>8. ASSUME NEW u \in Tx PROVE UpQ(u) \ R = Up(u) \ R
  <2>1. ClosedUnder(p.parents, R)
    BY <1>2, <1>7 DEF ClosedUnder
  <2> DEFINE K == p.parents
             L == q.parents
  <2>2. K \in [Tx -> SUBSET Tx] /\ ClosedUnder(K, R)
    BY <1>5, <2>1
  <2>21. L \in [Tx -> SUBSET Tx]
    BY <1>6
  <2>3. \A y \in Tx : L[y] = IF y \in C THEN K[y] \cup {x} ELSE K[y]
    BY <1>3
  <2>4. UpQ(u) = Reach(L, {u}) /\ Up(u) = Reach(K, {u})
    OBVIOUS
  <2> HIDE DEF K, L, Up, UpQ
  <2>5. SameOutside(K, L, u, R)
    BY <1>2, <2>2, <2>21, <2>3, LateLinks
  <2> QED BY <2>4, <2>5 DEF SameOutside
<1>9. ASSUME NEW u \in H PROVE UpQ(u) = Up(u)
  <2> DEFINE K == q.parents
             L == p.parents
             S == Tx \ H
  <2>1. K \in [Tx -> SUBSET Tx] /\ L \in [Tx -> SUBSET Tx] /\ S \in SUBSET Tx /\ {u} \in SUBSET (Tx \ S)
    BY <1>2, <1>5, <1>6
  <2>2. \A y \in Tx \ S : K[y] = L[y] /\ L[y] \cap S = {}
    BY <1>1, <1>3, <1>4, <1>7
  <2>3. UpQ(u) = Reach(K, {u}) /\ Up(u) = Reach(L, {u})
    OBVIOUS
  <2> HIDE DEF K, L, S, Up, UpQ
  <2>4. Reach(K, {u}) = Reach(L, {u})
    BY <2>1, <2>2, ReachOutside
  <2> QED BY <2>3, <2>4
<1>10. D = (DownQ(x) \ {x}) \ H
  OBVIOUS
<1> HIDE DEF Up, Down, UpQ, DownQ, D
<1>11. p.delta \in [Tx -> Int] /\ q.delta \in [Tx -> Int]
  BY <1>1, <1>3, PoolFields
<1>12. \A X \in SUBSET Tx : Total(q, X) = Total(p, X)
  BY <1>3, <1>11, TotalSame
<1>13. ASSUME NEW A \in SUBSET Tx, NEW B \in SUBSET Tx, A \cap B = {}
       PROVE  Plus(Total(p, A), Total(p, B)) = Total(q, A \cup B)
  <2>1. A \cup B \in SUBSET Tx
    OBVIOUS
  <2> QED BY <1>11, <1>12, <1>13, <2>1, TotalUnion
<1>14. ASSUME NEW t \in p.tx
       PROVE  /\ p.desc[t] = Total(p, IF t \in R THEN Down(t) \cap H ELSE Down(t))
              /\ p.anc[t] = Total(p, IF t \in H THEN Up(t) ELSE Up(t) \ R)
  BY <1>1 DEF PartlySummed, Up, Down
<1>15. ASSUME NEW t \in p.tx
       PROVE  q.anc[t] = Total(q, IF t \in H THEN UpQ(t) ELSE UpQ(t) \ (R \ {x}))
  <2>1. t \in Tx /\ Up(t) \in SUBSET Tx /\ UpQ(t) \in SUBSET Tx
    BY <1>2, <1>5, <1>6
  <2>2. q.anc[t] = IF t \in D THEN Plus(p.anc[t], Total(p, {x})) ELSE p.anc[t]
    BY <1>3, <2>1
  <2>3. CASE t \in H
    <3>1. t \notin D /\ p.anc[t] = Total(p, Up(t))
      BY <1>10, <1>14, <2>3
    <3> QED BY <1>9, <1>12, <2>1, <2>2, <2>3, <3>1
  <2>4. CASE t \notin H
    <3>1. t \in D <=> x \in UpQ(t)
      BY <1>2, <1>6, <1>10, <2>1, <2>4
    <3>2. p.anc[t] = Total(p, Up(t) \ R) /\ Up(t) \ R = UpQ(t) \ R
      BY <1>8, <1>14, <2>1, <2>4
    <3>3. CASE t \in D
      <4>1. UpQ(t) \ (R \ {x}) = (UpQ(t) \ R) \cup {x} /\ (UpQ(t) \ R) \cap {x} = {}
        BY <3>1, <3>3
      <4>2. UpQ(t) \ R \in SUBSET Tx /\ {x} \in SUBSET Tx
        BY <1>2, <2>1
      <4>3. Plus(Total(p, UpQ(t) \ R), Total(p, {x})) = Total(q, (UpQ(t) \ R) \cup {x})
        BY <1>13, <4>1, <4>2
      <4> QED BY <2>2, <2>4, <3>2, <3>3, <4>1, <4>3
    <3>4. CASE t \notin D
      <4>1. UpQ(t) \ (R \ {x}) = UpQ(t) \ R /\ UpQ(t) \ R \in SUBSET Tx
        BY <2>1, <3>1, <3>4
      <4> QED BY <1>12, <2>2, <2>4, <3>2, <3>4, <4>1
    <3> QED BY <3>3, <3>4
  <2> QED BY <2>3, <2>4
<1>16. ASSUME NEW t \in p.tx
       PROVE  q.desc[t] = Total(q, IF t \in R \ {x} THEN DownQ(t) \cap H ELSE DownQ(t))
  <2>1. t \in Tx /\ Down(t) \in SUBSET Tx /\ DownQ(t) \in SUBSET Tx
    BY <1>2, <1>5, <1>6
  <2>2. q.desc[t] = IF t = x THEN Plus(p.desc[t], Total(p, D)) ELSE p.desc[t]
    BY <1>3, <2>1
  <2>3. DownQ(t) \cap H = Down(t) \cap H
    BY <1>2, <1>5, <1>6, <1>9, <2>1
  <2>4. CASE t = x
    <3>1. p.desc[t] = Total(p, DownQ(t) \cap H) /\ D = DownQ(t) \ H
      BY <1>2, <1>10, <1>14, <2>3, <2>4
    <3>2. /\ DownQ(t) \cap H \in SUBSET Tx /\ DownQ(t) \ H \in SUBSET Tx
          /\ (DownQ(t) \cap H) \cap (DownQ(t) \ H) = {} /\ (DownQ(t) \cap H) \cup (DownQ(t) \ H) = DownQ(t)
      BY <2>1
    <3>3. Plus(Total(p, DownQ(t) \cap H), Total(p, DownQ(t) \ H)) = Total(q, DownQ(t))
      BY <1>13, <3>2
    <3> QED BY <2>2, <2>4, <3>1, <3>3
  <2>5. CASE t # x /\ t \in R
    <3>1. DownQ(t) \cap H \in SUBSET Tx
      BY <2>1
    <3> QED BY <1>12, <1>14, <2>2, <2>3, <2>5, <3>1
  <2>6. CASE t \notin R
    <3>1. t # x
      BY <2>6
    <3>2. \A u \in Tx : t \in UpQ(u) <=> t \in Up(u)
      BY <1>8, <2>6
    <3>3. DownQ(t) = Down(t)
      <4>1. \A u \in Tx : u \in DownQ(t) <=> t \in UpQ(u)
        BY <1>6, <2>1
      <4>2. \A u \in Tx : u \in Down(t) <=> t \in Up(u)
        BY <1>5, <2>1
      <4> QED BY <2>1, <3>2, <4>1, <4>2
    <3> QED BY <1>12, <1>14, <2>1, <2>2, <2>6, <3>1, <3>3
  <2> QED BY <2>4, <2>5, <2>6
<1>17. q.size = SizeOf(q.tx)
  BY <1>1, <1>3 DEF PartlySummed
<1> QED BY <1>3, <1>15, <1>16, <1>17 DEF PartlySummed, q, H, UpQ, DownQ

LEMMA BlockLinked ==
    ASSUME NEW p, NEW R, Linked(p, R, ToSet(vHashUpdate)), NEW x \in R,
           \A t \in R : From(t) \cap p.tx \subseteq R \ {x}
    PROVE  LET q == UpdateFromBlock(p, x)
           IN  q.tx = p.tx /\ Kept(p, q) /\ Linked(q, R \ {x}, ToSet(vHashUpdate))
<1> DEFINE q == UpdateFromBlock(p, x)
           C == LateChildren(p, x)
           H == ToSet(vHashUpdate)
<1>1. p \in Pools /\ p.tx \subseteq Tx /\ R \subseteq H /\ H \subseteq p.tx /\ x \in p.tx /\ x \in Tx
  BY PoolFields DEF Linked
<1>2. /\ q \in Pools /\ q.tx = p.tx /\ q.next = p.next /\ q.delta = p.delta
      /\ q.mapDeltas = p.mapDeltas
      /\ \A u \in Tx :
            /\ q.children[u] = IF u = x THEN p.children[u] \cup C ELSE p.children[u]
            /\ q.parents[u] = IF u \in C THEN p.parents[u] \cup {x} ELSE p.parents[u]
  <2>1. LateLinked(p, x, q)
    BY <1>1, BlockUpdated
  <2> HIDE DEF q
  <2> QED BY <1>1, <2>1 DEF LateLinked
<1>3. /\ \A o \in Outpoint, t \in Tx : p.next[o] = t <=> t \in p.tx /\ o \in Spends(t)
      /\ \A t, u \in Tx : u \in p.parents[t] => t \in p.tx /\ u \in From(t) \cap p.tx
      /\ \A t, u \in Tx : u \in p.parents[t] <=> t \in p.children[u]
  BY DEF Linked, LinksSound
<1>4. \A t \in p.tx : \A u \in From(t) \cap p.tx : u \in p.parents[t] \/ (u \in R /\ t \notin H)
  BY DEF Linked
<1>5. p.tx \cap Coinbase = {}
  BY DEF Linked
<1>6. C = {u \in p.tx : x \in From(u)} \ H
  <2>1. ASSUME NEW u \in C PROVE u \in p.tx /\ x \in From(u) /\ u \notin H
    <3>1. PICK o \in Outputs(x) : u = p.next[o] /\ u # NoTx /\ u \notin H
      BY DEF LateChildren
    <3>2. o \in Outpoint /\ o[1] = x
      BY <1>1, TxFacts
    <3>3. u \in Tx
      BY <1>1, <3>1, <3>2, PoolFields
    <3>4. u \in p.tx /\ o \in Spends(u)
      BY <1>3, <3>1, <3>2, <3>3
    <3> QED BY <3>1, <3>2, <3>4 DEF From
  <2>2. ASSUME NEW u \in p.tx, x \in From(u), u \notin H PROVE u \in C
    <3>1. u \in Tx
      BY <1>1
    <3>2. PICK o \in Spends(u) : o[1] = x
      BY <2>2 DEF From
    <3>3. o \in Outputs(x) /\ o \in Outpoint
      BY <3>1, <3>2, TxFacts
    <3>4. p.next[o] = u /\ u # NoTx
      BY <1>3, <3>1, <3>2, <3>3, MempoolAssumption
    <3> QED BY <2>2, <3>3, <3>4 DEF LateChildren
  <2> QED BY <2>1, <2>2
<1> HIDE DEF q, C, H
<1>7. \A t, u \in Tx : u \in q.parents[t] <=> u \in p.parents[t] \/ (t \in C /\ u = x)
  BY <1>2
<1>8. \A t, u \in Tx : t \in q.children[u] <=> t \in p.children[u] \/ (t \in C /\ u = x)
  BY <1>2
<1>9. \A t, u \in Tx : u \in q.parents[t] => t \in q.tx /\ u \in From(t) \cap q.tx
  BY <1>1, <1>2, <1>3, <1>6, <1>7
<1>10. LinksSound(q)
  BY <1>2, <1>3, <1>7, <1>8, <1>9 DEF LinksSound
<1>11. ASSUME NEW t \in q.tx, NEW u \in From(t) \cap q.tx
       PROVE  u \in q.parents[t] \/ (u \in R \ {x} /\ t \notin H)
  <2>1. t \in p.tx /\ u \in p.tx /\ t \in Tx /\ u \in Tx
    BY <1>1, <1>2
  <2>2. u \in p.parents[t] \/ (u \in R /\ t \notin H)
    BY <1>4, <2>1
  <2>3. u = x /\ t \notin H => t \in C
    BY <1>6, <2>1
  <2> QED BY <1>7, <2>1, <2>2, <2>3
<1>12. PartlySummed(q, R \ {x}, H)
  BY <1>10, BlockSummed DEF q, H
<1>13. \A t \in H : From(t) \cap q.tx \subseteq H
  BY <1>2 DEF Linked, H
<1>14. Linked(q, R \ {x}, H)
  BY <1>1, <1>2, <1>5, <1>10, <1>11, <1>12, <1>13 DEF Linked
<1>15. Kept(p, q)
  BY <1>2 DEF Kept
<1> QED BY <1>2, <1>14, <1>15 DEF q, H

LEMMA QueueFacts ==
    ASSUME NEW s \in Seq(Tx)
    PROVE  /\ Len(s) \in Nat /\ DOMAIN s = 1..Len(s) /\ ToSet(s) = {s[i] : i \in 1..Len(s)}
           /\ ToSet(s) \subseteq Tx /\ (s = <<>> <=> ToSet(s) = {})
<1>1. Len(s) \in Nat /\ DOMAIN s = 1..Len(s) /\ \A i \in 1..Len(s) : s[i] \in Tx
  BY LenProperties, ElementOfSeq
<1>2. ToSet(s) = {s[i] : i \in 1..Len(s)} /\ ToSet(s) \subseteq Tx
  BY <1>1 DEF ToSet
<1>3. s = <<>> <=> Len(s) = 0
  BY EmptySeq
<1>4. ToSet(s) = {} <=> Len(s) = 0
  <2>1. Len(s) # 0 => 1 \in 1..Len(s)
    BY <1>1
  <2> QED BY <1>2, <2>1
<1> QED BY <1>1, <1>2, <1>3, <1>4

(* What is put back comes in the order of the chain. *)
InOrder(s) == Injective(s) /\ \A i, j \in DOMAIN s : s[j] \in From(s[i]) => j < i

LEMMA NoneInOrder == InOrder(<<>>)
BY DEF InOrder, Injective

LEMMA SoundLinked ==
    ASSUME NEW p, NEW H, Sound(p, H), H \subseteq p.tx
    PROVE  Linked(p, H, H)
<1>1. p \in Pools /\ LinksSound(p) /\ Summed(p) /\ p.tx \subseteq Tx
  BY PoolFields DEF Sound
<1>2. /\ p.parents \in [Tx -> SUBSET Tx] /\ p.children \in [Tx -> SUBSET Tx]
      /\ \A t, u \in Tx : u \in Reach(p.parents, {t}) <=> t \in Reach(p.children, {u})
      /\ \A t \in p.tx : Reach(p.parents, {t}) \subseteq p.tx /\ Reach(p.children, {t}) \subseteq p.tx
  BY <1>1, LinksBack
<1>3. \A t, u \in Tx : u \in p.parents[t] <=> t \in p.children[u]
  BY <1>1 DEF LinksSound
<1>4. ClosedUnder(p.children, H)
  <2> SUFFICES ASSUME NEW t \in H, NEW u \in p.children[t] PROVE u \in H
    BY DEF ClosedUnder
  <2>1. t \in Tx /\ u \in Tx /\ t \in p.parents[u]
    BY <1>1, <1>2, <1>3
  <2>2. u \in p.tx /\ t \in From(u) \cap p.tx
    BY <1>1, <2>1 DEF LinksSound
  <2> QED BY <2>1, <2>2 DEF Sound
<1>5. ASSUME NEW t \in H PROVE Reach(p.children, {t}) \subseteq H
  <2>1. t \in Tx /\ H \in SUBSET Tx
    BY <1>1
  <2> QED BY <1>2, <1>4, <2>1, ReachFirst
<1>6. ASSUME NEW t \in p.tx \ H PROVE Reach(p.parents, {t}) \cap H = {}
  <2> SUFFICES ASSUME NEW u \in H, u \in Reach(p.parents, {t}) PROVE FALSE
    OBVIOUS
  <2>1. t \in Reach(p.children, {u})
    BY <1>1, <1>2
  <2> QED BY <1>5, <2>1
<1>7. \A t \in p.tx : IF t \in H THEN Reach(p.children, {t}) \cap H = Reach(p.children, {t})
                      ELSE Reach(p.parents, {t}) \ H = Reach(p.parents, {t})
  BY <1>5, <1>6
<1>8. PartlySummed(p, H, H)
  BY <1>1, <1>7 DEF Summed, PartlySummed
<1>9. /\ \A t \in p.tx : \A u \in From(t) \cap p.tx : u \in p.parents[t] \/ (u \in H /\ t \notin H)
      /\ \A t \in H : From(t) \cap p.tx \subseteq H
      /\ p.tx \cap Coinbase = {}
  BY DEF Sound
<1> QED BY <1>1, <1>8, <1>9 DEF Linked

LEMMA AllLinked ==
    ASSUME NEW p, vHashUpdate \in Seq(Tx), InOrder(vHashUpdate),
           Sound(p, ToSet(vHashUpdate)), ToSet(vHashUpdate) \subseteq p.tx
    PROVE  LET q == UpdateTransactionsFromBlock(p)
           IN  q.tx = p.tx /\ Kept(p, q) /\ Sound(q, {})
<1> DEFINE w == UpdateTurns(p)
           N == Len(vHashUpdate)
           H == ToSet(vHashUpdate)
           R(i) == {vHashUpdate[j] : j \in 1..(i - 1)}
           T == {i \in 1..(N + 1) : w[i].tx = p.tx /\ Kept(p, w[i]) /\ Linked(w[i], R(i), H)}
<1>1. w[N + 1] = p /\ \A i \in 1..N : w[i] = UpdateFromBlock(w[i + 1], vHashUpdate[i])
  BY UpdateSteps DEF Sound
<1>2. N \in Nat /\ (\A i \in 1..N : vHashUpdate[i] \in Tx) /\ H = R(N + 1)
  <2>1. N \in Nat /\ (\A i \in 1..N : vHashUpdate[i] \in Tx) /\ H = {vHashUpdate[j] : j \in 1..N}
    BY LenProperties, ElementOfSeq DEF ToSet
  <2>2. 1..N = 1..((N + 1) - 1)
    BY <2>1
  <2> QED BY <2>1, <2>2
<1>3. R(1) = {} /\ \A i \in 1..N : vHashUpdate[i] \in R(i + 1) /\ R(i + 1) \ {vHashUpdate[i]} = R(i)
  <2>1. ASSUME NEW i \in 1..N PROVE 1..((i + 1) - 1) = 1..(i - 1) \cup {i}
    BY <1>2
  <2>2. ASSUME NEW i \in 1..N PROVE R(i + 1) = R(i) \cup {vHashUpdate[i]}
    BY <2>1
  <2>3. ASSUME NEW i \in 1..N PROVE vHashUpdate[i] \notin R(i)
    <3>1. \A j \in 1..(i - 1) : j \in 1..N /\ j # i
      BY <1>2
    <3>2. DOMAIN vHashUpdate = 1..N
      BY LenProperties
    <3> QED BY <3>1, <3>2 DEF InOrder, Injective
  <2> QED BY <2>2, <2>3
<1>31. ASSUME NEW i \in 1..N, NEW t \in R(i + 1)
       PROVE  From(t) \cap p.tx \subseteq R(i + 1) \ {vHashUpdate[i]}
  <2> SUFFICES ASSUME NEW u \in From(t) \cap p.tx PROVE u \in R(i)
    BY <1>3
  <2>1. PICK k \in 1..((i + 1) - 1) : t = vHashUpdate[k]
    OBVIOUS
  <2>2. k \in 1..N /\ k <= i
    BY <1>2
  <2>3. t \in p.tx \cap H
    BY <1>2, <2>1, <2>2, QueueFacts
  <2>4. u \in H
    BY <2>3 DEF Sound
  <2>5. PICK j \in 1..N : u = vHashUpdate[j]
    BY <2>4, QueueFacts
  <2>6. j < k
    BY <2>1, <2>2, <2>5, QueueFacts DEF InOrder
  <2>7. j \in 1..(i - 1)
    BY <1>2, <2>2, <2>6
  <2> QED BY <2>5, <2>7
<1>4. UpdateTransactionsFromBlock(p) = w[1]
  BY DEF UpdateTransactionsFromBlock
<1> HIDE DEF w, N, R
<1>5. N + 1 \in T
  <2>1. Linked(p, H, H) /\ Kept(p, p)
    BY SoundLinked DEF Kept
  <2>2. N + 1 \in 1..(N + 1)
    BY <1>2
  <2> HIDE DEF H
  <2> QED BY <1>1, <1>2, <2>1, <2>2
<1>6. ASSUME NEW i \in 1..N, i + 1 \in T PROVE i \in T
  <2> DEFINE x == vHashUpdate[i]
  <2>1. w[i + 1].tx = p.tx /\ Kept(p, w[i + 1]) /\ Linked(w[i + 1], R(i + 1), H) /\ x \in R(i + 1)
    BY <1>3, <1>6
  <2>2. w[i] = UpdateFromBlock(w[i + 1], x)
    BY <1>1
  <2>3. w[i].tx = p.tx /\ Kept(w[i + 1], w[i]) /\ Linked(w[i], R(i + 1) \ {x}, H)
    <3> DEFINE r == w[i + 1]
               Q == R(i + 1)
    <3>1. /\ r.tx = p.tx /\ Linked(r, Q, ToSet(vHashUpdate)) /\ x \in Q
          /\ \A t \in Q : From(t) \cap r.tx \subseteq Q \ {x}
      BY <1>31, <2>1
    <3> HIDE DEF x, r, Q
    <3>2. /\ UpdateFromBlock(r, x).tx = p.tx /\ Kept(r, UpdateFromBlock(r, x))
          /\ Linked(UpdateFromBlock(r, x), Q \ {x}, ToSet(vHashUpdate))
      BY <3>1, BlockLinked
    <3> QED BY <2>2, <3>2 DEF r, Q
  <2>4. Linked(w[i], R(i), H) /\ Kept(p, w[i])
    <3>1. Kept(p, w[i])
      BY <2>1, <2>3 DEF Kept
    <3> HIDE DEF H
    <3> QED BY <1>3, <2>3, <3>1
  <2>5. i \in 1..(N + 1)
    BY <1>2
  <2> QED BY <2>3, <2>4, <2>5
<1>7. 1 \in T
  <2>1. 1..(N + 1) \subseteq T
    <3> HIDE DEF T
    <3> QED BY <1>2, <1>5, <1>6, RoundsDown
  <2> QED BY <1>2, <2>1
<1>8. w[1].tx = p.tx /\ Kept(p, w[1]) /\ Linked(w[1], {}, H)
  BY <1>3, <1>7
<1>9. Sound(w[1], {})
  <2> HIDE DEF H
  <2>1. Summed(w[1])
    <3> DEFINE q == w[1]
    <3>1. PartlySummed(q, {}, H)
      BY <1>8 DEF Linked
    <3>2. \A X : X \ {} = X
      OBVIOUS
    <3> HIDE DEF q
    <3>3. Summed(q)
      BY <3>1, <3>2 DEF PartlySummed, Summed
    <3> QED BY <3>3 DEF q
  <2> QED BY <1>8, <2>1 DEF Linked, Sound
<1> QED BY <1>4, <1>8, <1>9

-----------------------------------------------------------------------------
(* Removing what may not stay. *)

(* With the tip b: every input of an entry is an output of another or      *)
(* mature, and the next block may have the entry.                          *)
ImmatureOn(b, o) ==
    /\ o[1] \in Coinbase
    /\ Height[b] + 1 - Height[CHOOSE c \in Chain[b] : o[1] \in ToSet(Vtx[c])] < Maturity
Ripe(b, q) ==
    \A t \in q.tx : /\ Height[b] + 1 >= LockHeight[t]
                    /\ \A o \in Spends(t) : o[1] \in q.tx \/ ~ImmatureOn(b, o)

LEMMA ReorgRemoved ==
    ASSUME NEW p, Sound(p, {})
    PROVE  LET q == RemoveForReorg(p)
           IN  Sound(q, {}) /\ Pruned(p, q) /\ Ripe(tip, q)
<1> DEFINE unripe(t) == \E o \in Spends(t) : o[1] \notin p.tx /\ (o \notin Utxo[tip] \/ Immature(o))
           spendsCoinbase(t) == \E o \in Spends(t) : o[1] \in Coinbase
           S == {t \in p.tx : ~Final(t) \/ (spendsCoinbase(t) /\ unripe(t))}
           q == RemoveStaged(p, CalculateDescendants(p, S), FALSE)
<1>1. RemoveForReorg(p) = q
  BY DEF RemoveForReorg
<1>2. S \in SUBSET p.tx
  OBVIOUS
<1>3. Sound(q, {}) /\ Pruned(p, q) /\ q.tx \cap S = {}
  <2> HIDE DEF S
  <2> QED BY <1>2, BranchRemoved
<1> HIDE DEF q
<1>4. ASSUME NEW t \in q.tx PROVE Final(t) /\ \A o \in Spends(t) : o[1] \in q.tx \/ ~Immature(o)
  <2>1. t \in p.tx /\ t \notin S
    BY <1>3 DEF Pruned
  <2>2. Final(t) /\ ~(spendsCoinbase(t) /\ unripe(t))
    BY <2>1
  <2>3. ASSUME NEW o \in Spends(t), o[1] \notin q.tx, Immature(o) PROVE FALSE
    <3>1. o[1] \in Coinbase
      BY <2>3 DEF Immature
    <3>2. o[1] \notin p.tx
      BY <1>3, <2>3 DEF Pruned, From
    <3> QED BY <2>2, <2>3, <3>1, <3>2
  <2> QED BY <2>2, <2>3
<1>5. Ripe(tip, q)
  BY <1>4 DEF Ripe, ImmatureOn, Immature, CoinHeight, Final
<1> QED BY <1>1, <1>3, <1>5

LEMMA Trimmed ==
    ASSUME NEW p, Sound(p, {}), NEW q \in TrimToSize(p)
    PROVE  Sound(q, {}) /\ Pruned(p, q) /\ (p.size <= MaxSize => q = p)
<1> DEFINE N == Cardinality(Tx)
           V == SUBSET {x \in Pools : Sound(x, {}) /\ Pruned(p, x)}
           G(x) == IF x.size <= MaxSize THEN {x}
                   ELSE {RemoveStaged(x, CalculateDescendants(x, {t}), FALSE) : t \in Worst(x)}
           F(X) == UNION {G(x) : x \in X}
           Run(f) == f = [n \in 0..N |-> IF n = 0 THEN {p} ELSE F(f[n - 1])]
           step == [n \in 1..N |-> [X \in V |-> F(X)]]
           w == CHOOSE f : Run(f)
<1>1. TrimToSize(p) = w[N]
  BY DEF TrimToSize
<1>2. N \in Nat /\ {p} \in V
  BY MempoolAssumption, FS_CardinalityType DEF Sound, Pruned, Kept
<1>3. ASSUME NEW X \in V PROVE F(X) \in V
  <2>1. ASSUME NEW x \in X, NEW y \in G(x) PROVE y \in Pools /\ Sound(y, {}) /\ Pruned(p, y)
    <3>1. x \in Pools /\ Sound(x, {}) /\ Pruned(p, x)
      OBVIOUS
    <3>2. CASE y = x
      BY <3>1, <3>2
    <3>3. CASE y # x
      <4>1. PICK t \in Worst(x) : y = RemoveStaged(x, CalculateDescendants(x, {t}), FALSE)
        BY <2>1, <3>3
      <4>2. {t} \in SUBSET x.tx
        BY DEF Worst
      <4>3. Sound(y, {}) /\ Pruned(x, y)
        BY <3>1, <4>1, <4>2, BranchRemoved
      <4>4. Pruned(p, y)
        BY <3>1, <4>3, PrunedTwice
      <4> QED BY <4>3, <4>4 DEF Sound
    <3> QED BY <3>2, <3>3
  <2> HIDE DEF G
  <2> QED BY <2>1
<1>31. p.size <= MaxSize => F({p}) = {p}
  OBVIOUS
<1> HIDE DEF N, F, V
<1>4. Body(step, N, V)
  BY <1>3 DEF Body
<1>5. PICK f : RunUp(f, step, N, V, {p})
  <2> HIDE DEF step
  <2> QED BY <1>2, <1>4, LoopRuns
<1>6. f \in [0..N -> V] /\ f[0] = {p} /\ \A i \in 1..N : f[i] = step[i][f[i - 1]]
  <2> HIDE DEF step
  <2> QED BY <1>5 DEF RunUp
<1>7. \A i \in 0..N : i # 0 => i \in 1..N /\ i - 1 \in 0..N
  BY <1>2
<1>8. Run(f)
  <2>1. \A i \in 0..N : f[i] = IF i = 0 THEN {p} ELSE F(f[i - 1])
    BY <1>6, <1>7
  <2>2. f = [i \in 0..N |-> f[i]]
    BY <1>6
  <2> QED BY <2>1, <2>2
<1>9. Run(w)
  <2> HIDE DEF Run
  <2> QED BY <1>8
<1> HIDE DEF w, step
<1>10. w[0] = {p} /\ \A i \in 1..N : w[i] = F(w[i - 1])
  <2>1. 0 \in 0..N /\ \A i \in 1..N : i \in 0..N /\ i # 0
    BY <1>2
  <2> QED BY <1>9, <2>1
<1> HIDE DEF Run
<1> DEFINE T == {i \in 0..N : w[i] \in V /\ (p.size <= MaxSize => w[i] = {p})}
<1>11. N \in T
  <2>1. 0 \in T
    BY <1>2, <1>10
  <2>2. ASSUME NEW i \in 1..N, i - 1 \in T PROVE i \in T
    <3>1. w[i - 1] \in V /\ (p.size <= MaxSize => w[i - 1] = {p}) /\ i \in 0..N
      BY <1>2, <2>2
    <3>2. w[i] = F(w[i - 1])
      BY <1>10
    <3> QED BY <1>3, <1>31, <3>1, <3>2
  <2>3. 0..N \subseteq T
    <3> HIDE DEF T
    <3> QED BY <1>2, <2>1, <2>2, RoundsUp
  <2> QED BY <1>2, <2>3
<1>12. w[N] \in V /\ (p.size <= MaxSize => w[N] = {p})
  BY <1>11
<1> QED BY <1>1, <1>12 DEF V

(* The pool with all its entries may be of another record: Expire writes   *)
(* the fields anew.                                                        *)
LEMMA Limited ==
    ASSUME NEW p, Sound(p, {}), NEW q \in LimitMempoolSize(p)
    PROVE  /\ Sound(q, {}) /\ Pruned(p, q)
           /\ old = {} /\ p.size <= MaxSize => q.tx = p.tx
<1> DEFINE S == old \cap p.tx
           R == CalculateDescendants(p, S)
           r == RemoveStaged(p, R, FALSE)
<1>1. r = Expire(p) /\ q \in TrimToSize(r)
  BY DEF LimitMempoolSize, Expire
<1>2. Sound(r, {}) /\ Pruned(p, r)
  <2>1. S \in SUBSET p.tx
    OBVIOUS
  <2> HIDE DEF S
  <2> QED BY <2>1, BranchRemoved
<1>3. ASSUME old = {} PROVE r.tx = p.tx /\ r.size = p.size
  <2>1. S = {} /\ p \in Pools /\ p.children \in [Tx -> SUBSET Tx]
    BY <1>3, PoolFields DEF Sound
  <2>2. R = {}
    <3>1. ClosedUnder(p.children, {}) /\ {} \in SUBSET Tx
      BY DEF ClosedUnder
    <3>2. Reach(p.children, {}) \subseteq {}
      BY <2>1, <3>1, ReachFacts
    <3> QED BY <2>1, <3>2 DEF CalculateDescendants
  <2> HIDE DEF R
  <2>3. Without(p, R, r)
    BY <2>1, <2>2, Removed
  <2> HIDE DEF r
  <2>4. r.tx = p.tx
    BY <2>2, <2>3 DEF Without
  <2> QED BY <1>2, <2>4 DEF Sound, Summed
<1> HIDE DEF r
<1>4. Sound(q, {}) /\ Pruned(r, q) /\ (r.size <= MaxSize => q = r)
  BY <1>1, <1>2, Trimmed
<1> QED BY <1>2, <1>3, <1>4, PrunedTwice

-----------------------------------------------------------------------------
(* Accepting a transaction. *)

(* q is p with t, without some entries and their descendants, none of them *)
(* a parent of t.                                                          *)
Grown(p, t, q) ==
    /\ t \in q.tx /\ q.tx \subseteq p.tx \cup {t} /\ Kept(p, q)
    /\ q.mapDeltas = p.mapDeltas /\ q.delta[t] = p.mapDeltas[t]
    /\ \A u \in q.tx : From(u) \cap p.tx \subseteq q.tx

(* The rules of replacement keep the parents of t: what is replaced is not *)
(* an ancestor, and neither are its descendants.                           *)
LEMMA ParentsKept ==
    ASSUME NEW p, NEW H, Sound(p, H), NEW t \in Tx, NEW S \in SUBSET p.tx,
           S \cap SearchedAncestors(p, t) = {}
    PROVE  From(t) \cap p.tx \cap CalculateDescendants(p, S) = {}
<1> DEFINE P == From(t) \cap p.tx
           A == SearchedAncestors(p, t)
           R == CalculateDescendants(p, S)
           X == p.tx \ A
<1>1. /\ p.children \in [Tx -> SUBSET Tx] /\ p.parents \in [Tx -> SUBSET Tx]
      /\ P \in SUBSET Tx /\ S \in SUBSET Tx /\ X \in SUBSET Tx /\ S \subseteq X /\ p.tx \subseteq Tx
  BY PoolFields DEF Sound
<1>2. P \subseteq A /\ ClosedUnder(p.parents, A)
  <2>1. A = Reach(p.parents, P)
    BY DEF SearchedAncestors, InPoolParents, From
  <2> HIDE DEF A, P
  <2> QED BY <1>1, <2>1, ReachFacts
<1>3. \A Y \in SUBSET Tx : S \subseteq Y /\ ClosedUnder(p.children, Y) => R \subseteq Y
  BY <1>1, ReachFacts DEF CalculateDescendants
<1> HIDE DEF A, R
<1>4. ClosedUnder(p.children, X)
  <2> SUFFICES ASSUME NEW x \in X, NEW y \in p.children[x] PROVE y \in X
    BY DEF ClosedUnder
  <2>1. x \in Tx /\ y \in Tx
    BY <1>1
  <2>2. x \in p.parents[y] /\ y \in p.tx
    BY <2>1 DEF Sound, LinksSound
  <2> QED BY <1>2, <2>2 DEF ClosedUnder
<1>5. R \subseteq X
  BY <1>1, <1>3, <1>4
<1> QED BY <1>2, <1>5 DEF R

(* Nor does replacing change what the ancestors of t are. *)
SameAncestors(p, r, t) == SearchedAncestors(p, t) = SearchedAncestors(r, t)

LEMMA AncestorsKept ==
    ASSUME NEW p, NEW H, Sound(p, H), NEW t \in Tx, NEW S \in SUBSET p.tx, S \cap H = {},
           S \cap SearchedAncestors(p, t) = {}
    PROVE  LET r == RemoveStaged(p, CalculateDescendants(p, S), FALSE)
           IN  SameAncestors(p, r, t)
<1> DEFINE R == CalculateDescendants(p, S)
           r == RemoveStaged(p, R, FALSE)
           P == InPoolParents(p, t)
<1>1. R \subseteq p.tx /\ ClosedUnder(p.children, R)
  BY DescendantsClosed
<1>2. From(t) \cap p.tx \cap R = {}
  BY ParentsKept
<1>3. p \in Pools /\ p.tx \subseteq Tx /\ p.parents \in [Tx -> SUBSET Tx]
  BY PoolFields DEF Sound
<1> HIDE DEF R
<1>4. Without(p, R, r)
  BY <1>1, <1>3, Removed
<1> HIDE DEF r
<1>5. /\ r \in Pools /\ r.tx = p.tx \ R
      /\ \A x \in Tx \ R : r.parents[x] = p.parents[x] \ {y \in R : x \in p.children[y]}
  BY <1>4 DEF Without
<1>6. P = InPoolParents(r, t) /\ P \in SUBSET (Tx \ R)
  BY <1>2, <1>3, <1>5 DEF InPoolParents, From
<1>7. \A x \in Tx \ R : r.parents[x] = p.parents[x] /\ p.parents[x] \cap R = {}
  <2> SUFFICES ASSUME NEW x \in Tx \ R
               PROVE  r.parents[x] = p.parents[x] /\ p.parents[x] \cap R = {}
    OBVIOUS
  <2>1. \A y \in R : x \notin p.children[y]
    BY <1>1 DEF ClosedUnder
  <2>2. p.parents[x] \cap R = {}
    BY <1>1, <1>3, <2>1 DEF Sound, LinksSound
  <2> QED BY <1>5, <2>1, <2>2
<1> DEFINE K == r.parents
           L == p.parents
<1>8. K \in [Tx -> SUBSET Tx] /\ L \in [Tx -> SUBSET Tx] /\ R \in SUBSET Tx
  BY <1>1, <1>3, <1>5, PoolFields
<1>9. \A x \in Tx \ R : K[x] = L[x] /\ L[x] \cap R = {}
  BY <1>7
<1>10. SearchedAncestors(p, t) = Reach(L, P) /\ SearchedAncestors(r, t) = Reach(K, P)
  BY <1>6 DEF SearchedAncestors
<1> HIDE DEF K, L, P
<1>11. Reach(K, P) = Reach(L, P)
  <2>1. P \in SUBSET (Tx \ R)
    BY <1>6
  <2>2. K \in [Tx -> SUBSET Tx]
    BY <1>8
  <2>3. L \in [Tx -> SUBSET Tx]
    BY <1>8
  <2>4. R \in SUBSET Tx
    BY <1>8
  <2> QED BY <2>1, <2>2, <2>3, <2>4, <1>9, ReachOutside
<1> QED BY <1>10, <1>11 DEF r, R, SameAncestors

LEMMA AcceptedSound ==
    ASSUME NEW p, NEW H, Sound(p, H), NEW t \in Tx, t \notin p.tx \cup Coinbase \cup From(t),
           Conflicts(p, t) \cap SearchedAncestors(p, t) = {}, Conflicts(p, t) \cap H = {},
           NEW G, H \subseteq G, G \subseteq H \cup {t}, t \in G => From(t) \cap p.tx \subseteq H,
           t \notin G => H = {},
           \A u \in p.tx : t \in From(u) => t \in G /\ u \notin H
    PROVE  LET q == Accepted(p, t)
           IN  Sound(q, G) /\ Grown(p, t, q) /\ p.tx \cap H \subseteq q.tx
<1> DEFINE C == Conflicts(p, t)
           r == RemoveStaged(p, CalculateDescendants(p, C), FALSE)
           A == SearchedAncestors(p, t)
           q == AddUnchecked(r, t, A)
           P == InPoolParents(r, t)
<1>1. p \in Pools /\ p.tx \subseteq Tx
  BY PoolFields DEF Sound
<1>2. ASSUME NEW o \in Spends(t), p.next[o] # NoTx
      PROVE  p.next[o] \in p.tx /\ o \in Spends(p.next[o])
  <2>1. o \in Outpoint /\ p.next[o] \in Tx
    BY <1>1, <1>2, TxFacts, PoolFields
  <2> QED BY <2>1 DEF Sound, LinksSound
<1>3. C \in SUBSET p.tx
  BY <1>2 DEF Conflicts
<1>4. Sound(r, H) /\ Pruned(p, r) /\ r.tx \cap C = {} /\ p.tx \cap H \subseteq r.tx
  <2> HIDE DEF C
  <2>1. C \cap H = {}
    BY DEF C
  <2> QED BY <1>3, <2>1, DescendantsRemoved
<1>5. r.tx = p.tx \ CalculateDescendants(p, C) /\ r.mapDeltas = p.mapDeltas
  <2> HIDE DEF C
  <2>1. C \cap H = {}
    BY DEF C
  <2>2. CalculateDescendants(p, C) \in SUBSET p.tx /\ ClosedUnder(p.children, CalculateDescendants(p, C))
    BY <1>3, <2>1, DescendantsClosed
  <2> QED BY <2>2, RemovedSound
<1>6. From(t) \cap p.tx \subseteq r.tx
  <2> HIDE DEF C
  <2>1. C \cap SearchedAncestors(p, t) = {}
    BY DEF C
  <2>2. From(t) \cap p.tx \cap CalculateDescendants(p, C) = {}
    BY <1>3, <2>1, ParentsKept
  <2> QED BY <1>5, <2>2
<1>7. Accepted(p, t) = q
  BY DEF Accepted, AllConflicting
<1>8. A \in SUBSET Tx
  <2>1. InPoolParents(p, t) \in SUBSET Tx /\ p.parents \in [Tx -> SUBSET Tx]
    BY <1>1, PoolFields DEF InPoolParents
  <2> QED BY <2>1, ReachFacts DEF SearchedAncestors
<1>9. r \in Pools
  BY <1>4 DEF Sound
<1>91. A = Reach(r.parents, P)
  <2> HIDE DEF C
  <2>1. C \cap H = {} /\ C \cap SearchedAncestors(p, t) = {}
    BY DEF C
  <2>2. SameAncestors(p, RemoveStaged(p, CalculateDescendants(p, C), FALSE), t)
    BY <1>3, <2>1, AncestorsKept
  <2> HIDE DEF r, A
  <2>3. A = SearchedAncestors(r, t)
    BY <2>2 DEF r, A, SameAncestors
  <2> QED BY <2>3 DEF SearchedAncestors
<1> HIDE DEF r, A
<1>10. /\ q \in Pools /\ q.tx = r.tx \cup {t}
       /\ \A u \in Tx :
             /\ q.parents[u] = IF u = t THEN P ELSE r.parents[u]
             /\ q.children[u] = IF u \in P THEN r.children[u] \cup {t} ELSE r.children[u]
       /\ \A o \in Outpoint :
             q.next[o] = IF o \in Spends(t) /\ r.next[o] = NoTx THEN t ELSE r.next[o]
       /\ q.mapDeltas = r.mapDeltas /\ q.delta[t] = r.mapDeltas[t]
       /\ \A u \in Tx \ {t} : q.delta[u] = r.delta[u]
  <2>1. With(r, t, q) /\ ToldOf(r, t, A, q)
    BY <1>8, <1>9, Added
  <2> HIDE DEF q
  <2> QED BY <2>1 DEF With, ToldOf
<1> HIDE DEF q
<1>11. P = From(t) \cap r.tx
  BY DEF InPoolParents, From
<1> HIDE DEF P
<1>12. /\ \A o \in Outpoint, u \in Tx : r.next[o] = u <=> u \in r.tx /\ o \in Spends(u)
       /\ \A x, u \in Tx : u \in r.parents[x] => x \in r.tx /\ u \in From(x) \cap r.tx
       /\ \A x, u \in Tx : u \in r.parents[x] <=> x \in r.children[u]
  BY <1>4 DEF Sound, LinksSound
<1>13. r.tx \subseteq p.tx /\ r.tx \subseteq Tx /\ t \notin r.tx /\ P \subseteq Tx
  BY <1>1, <1>4, <1>11 DEF Pruned
<1>14. ASSUME NEW o \in Spends(t) PROVE o \in Outpoint /\ r.next[o] = NoTx
  <2>1. o \in Outpoint /\ r.next[o] \in Tx \cup {NoTx}
    BY <1>9, TxFacts, PoolFields
  <2>2. ASSUME r.next[o] \in Tx PROVE FALSE
    <3>1. r.next[o] \in r.tx /\ o \in Spends(r.next[o])
      BY <1>12, <2>1, <2>2
    <3>2. p.next[o] = r.next[o]
      <4>1. r.next[o] \in p.tx
        BY <1>13, <3>1
      <4>2. \A u \in Tx : u \in p.tx /\ o \in Spends(u) => p.next[o] = u
        BY <2>1 DEF Sound, LinksSound
      <4> QED BY <2>2, <3>1, <4>1, <4>2
    <3>3. r.next[o] \in C
      BY <2>2, <3>2, MempoolAssumption DEF Conflicts
    <3> QED BY <1>4, <3>1, <3>3
  <2> QED BY <2>1, <2>2
<1>15. \A o \in Outpoint, u \in Tx : q.next[o] = u <=> u \in q.tx /\ o \in Spends(u)
  <2> SUFFICES ASSUME NEW o \in Outpoint, NEW u \in Tx
               PROVE  q.next[o] = u <=> u \in q.tx /\ o \in Spends(u)
    OBVIOUS
  <2>1. CASE o \in Spends(t)
    <3>1. q.next[o] = t /\ r.next[o] = NoTx
      BY <1>10, <1>14, <2>1
    <3>2. u \in r.tx => o \notin Spends(u)
      BY <1>12, <3>1, MempoolAssumption
    <3> QED BY <1>10, <2>1, <3>1, <3>2
  <2>2. CASE o \notin Spends(t)
    <3>1. q.next[o] = r.next[o]
      BY <1>10, <2>2
    <3> QED BY <1>10, <1>12, <2>2, <3>1
  <2> QED BY <2>1, <2>2
<1>16. \A x, u \in Tx : u \in q.parents[x] <=> (x = t /\ u \in P) \/ (x # t /\ u \in r.parents[x])
  BY <1>10
<1>17. \A x, u \in Tx : x \in q.children[u] <=> (x = t /\ u \in P) \/ x \in r.children[u]
  <2>1. \A u \in Tx : q.children[u] = IF u \in P THEN r.children[u] \cup {t} ELSE r.children[u]
    BY <1>10
  <2> QED BY <2>1
<1>18. \A u \in Tx : t \notin r.children[u]
  BY <1>12, <1>13
<1>19. LinksSound(q)
  <2>1. \A x, u \in Tx : u \in q.parents[x] => x \in q.tx /\ u \in From(x) \cap q.tx
    BY <1>10, <1>11, <1>12, <1>16
  <2>2. \A x, u \in Tx : u \in q.parents[x] <=> x \in q.children[u]
    BY <1>12, <1>16, <1>17, <1>18
  <2> QED BY <1>15, <2>1, <2>2 DEF LinksSound
<1>20. ASSUME NEW x \in q.tx, NEW u \in From(x) \cap q.tx
       PROVE  u \in q.parents[x] <=> (u \in G => x \in G)
  <2>1. x \in Tx /\ u \in Tx /\ (x = t \/ x \in r.tx) /\ (u = t \/ u \in r.tx)
    BY <1>10, <1>13
  <2>2. CASE x = t
    <3>1. u \in From(t) \cap r.tx
      BY <1>10, <2>1, <2>2
    <3>2. u \in q.parents[x] /\ u # t
      BY <1>11, <1>13, <1>16, <2>1, <2>2, <3>1
    <3> QED BY <2>2, <3>2
  <2>3. CASE x # t /\ u = t
    <3>1. x \in p.tx /\ t \in From(x)
      BY <1>13, <2>1, <2>3
    <3>2. t \in G /\ x \notin H
      BY <3>1
    <3>3. u \notin q.parents[x]
      BY <1>12, <1>13, <1>16, <2>1, <2>3
    <3> QED BY <2>3, <3>2, <3>3
  <2>4. CASE x # t /\ u # t
    <3>1. u \in r.parents[x] <=> (u \in H => x \in H)
      BY <1>4, <2>1, <2>4 DEF Sound
    <3> QED BY <1>16, <2>1, <2>4, <3>1
  <2> QED BY <2>2, <2>3, <2>4
<1>21. ASSUME NEW x \in q.tx \cap G PROVE From(x) \cap q.tx \subseteq G
  <2>1. CASE x = t
    <3>1. From(t) \cap p.tx \subseteq H
      BY <2>1
    <3> QED BY <1>10, <1>13, <2>1, <3>1
  <2>2. CASE x # t
    <3>1. x \in r.tx \cap H
      BY <1>10, <2>2
    <3>2. From(x) \cap r.tx \subseteq H
      BY <1>4, <3>1 DEF Sound
    <3>3. t \notin From(x)
      BY <1>13, <3>1
    <3> QED BY <1>10, <3>2, <3>3
  <2> QED BY <2>1, <2>2
<1>22. q.tx \cap Coinbase = {}
  BY <1>4, <1>10 DEF Sound
<1>221. Summed(q)
  <2>1. q = AddUnchecked(r, t, Reach(r.parents, InPoolParents(r, t)))
    BY <1>91 DEF q, P
  <2>2. LinksSound(r) /\ Summed(r)
    BY <1>4 DEF Sound
  <2> QED BY <1>9, <1>13, <1>19, <2>1, <2>2, AddedSummed
<1>23. Sound(q, G)
  BY <1>10, <1>19, <1>20, <1>21, <1>22, <1>221 DEF Sound
<1>24. Grown(p, t, q)
  <2>1. \A u \in r.tx : From(u) \cap p.tx \subseteq r.tx
    BY <1>4 DEF Pruned
  <2>2. Kept(p, r)
    BY <1>4 DEF Pruned
  <2>3. Kept(p, q)
    BY <1>10, <1>13, <2>2 DEF Kept
  <2> QED BY <1>5, <1>6, <1>10, <1>13, <2>1, <2>3 DEF Grown
<1> QED BY <1>4, <1>7, <1>10, <1>23, <1>24

-----------------------------------------------------------------------------
(* Queues. *)

LEMMA QueueSplit ==
    ASSUME NEW s \in Seq(Tx), Injective(s), NEW e \in 0..Len(s)
    PROVE  LET a == SubSeq(s, 1, e)
               b == SubSeq(s, e + 1, Len(s))
           IN  /\ a \in Seq(Tx) /\ b \in Seq(Tx) /\ Len(a) = e /\ Injective(a) /\ Injective(b)
               /\ ToSet(a) \cup ToSet(b) = ToSet(s) /\ ToSet(a) \cap ToSet(b) = {}
<1> DEFINE n == Len(s)
           a == SubSeq(s, 1, e)
           b == SubSeq(s, e + 1, n)
<1>1. n \in Nat /\ DOMAIN s = 1..n /\ (\A i \in 1..n : s[i] \in Tx) /\ ToSet(s) = {s[i] : i \in 1..n}
  BY QueueFacts, ElementOfSeq
<1>2. e \in Nat /\ e <= n /\ e \in Int /\ e + 1 \in Int /\ n \in Int
  BY <1>1
<1> HIDE DEF n
<1>3. /\ a \in Seq(Tx) /\ Len(a) = e /\ \A i \in 1..e : a[i] = s[i]
  <2>1. \A i \in 1..e : s[i] \in Tx
    BY <1>1, <1>2
  <2>2. /\ a \in Seq(Tx) /\ Len(a) = (IF 1 <= e THEN e - 1 + 1 ELSE 0)
        /\ \A i \in 1..(e - 1 + 1) : a[i] = s[1 + i - 1]
    BY <1>2, <2>1, SubSeqProperties
  <2>3. e - 1 + 1 = e /\ \A i \in 1..e : 1 + i - 1 = i
    BY <1>2
  <2>4. Len(a) = e
    BY <1>2, <2>2
  <2> HIDE DEF a
  <2> QED BY <2>2, <2>3, <2>4
<1>4. /\ b \in Seq(Tx) /\ Len(b) = n - e /\ \A i \in 1..(n - e) : b[i] = s[e + i]
  <2>1. \A i \in (e + 1)..n : s[i] \in Tx
    BY <1>1, <1>2
  <2>2. /\ b \in Seq(Tx) /\ Len(b) = (IF e + 1 <= n THEN n - (e + 1) + 1 ELSE 0)
        /\ \A i \in 1..(n - (e + 1) + 1) : b[i] = s[(e + 1) + i - 1]
    BY <1>2, <2>1, SubSeqProperties
  <2>3. n - (e + 1) + 1 = n - e /\ \A i \in 1..(n - e) : (e + 1) + i - 1 = e + i
    BY <1>2
  <2>4. Len(b) = n - e
    BY <1>2, <2>2
  <2> HIDE DEF b
  <2> QED BY <2>2, <2>3, <2>4
<1> HIDE DEF a, b
<1>5. ToSet(a) = {s[i] : i \in 1..e} /\ DOMAIN a = 1..e
  BY <1>3, QueueFacts
<1>6. ToSet(b) = {s[i] : i \in (e + 1)..n} /\ DOMAIN b = 1..(n - e)
  <2>1. ToSet(b) = {b[i] : i \in 1..(n - e)} /\ DOMAIN b = 1..(n - e)
    BY <1>4, QueueFacts
  <2>2. \A i \in 1..(n - e) : e + i \in (e + 1)..n /\ b[i] = s[e + i]
    BY <1>2, <1>4
  <2>3. \A i \in (e + 1)..n : i - e \in 1..(n - e) /\ s[i] = b[i - e]
    <3>1. \A i \in (e + 1)..n : i - e \in 1..(n - e) /\ e + (i - e) = i
      BY <1>2
    <3> QED BY <1>4, <3>1
  <2> QED BY <2>1, <2>2, <2>3
<1>7. \A i, j \in 1..n : s[i] = s[j] => i = j
  BY <1>1 DEF Injective
<1>8. Injective(a)
  <2>1. \A i \in 1..e : i \in 1..n
    BY <1>2
  <2> QED BY <1>3, <1>5, <1>7, <2>1 DEF Injective
<1>9. Injective(b)
  <2>1. \A i \in 1..(n - e) : e + i \in 1..n
    BY <1>2
  <2>2. \A i, j \in 1..(n - e) : e + i = e + j => i = j
    BY <1>2
  <2> QED BY <1>4, <1>6, <1>7, <2>1, <2>2 DEF Injective
<1>10. ToSet(a) \cup ToSet(b) = ToSet(s)
  <2>1. 1..e \cup (e + 1)..n = 1..n
    BY <1>2
  <2> QED BY <1>1, <1>5, <1>6, <2>1
<1>11. ToSet(a) \cap ToSet(b) = {}
  <2>1. \A i \in 1..e : \A j \in (e + 1)..n : i \in 1..n /\ j \in 1..n /\ i # j
    BY <1>2
  <2> QED BY <1>5, <1>6, <1>7, <2>1
<1> QED BY <1>3, <1>4, <1>8, <1>9, <1>10, <1>11 DEF a, b, n

(* A disconnected block's transactions come after those that wait. *)
LEMMA QueueGrown ==
    ASSUME NEW s \in Seq(Tx), Injective(s), NEW b \in Block, ToSet(s) \cap ToSet(Vtx[b]) = {}
    PROVE  LET queue == s \o Reverse(Vtx[b])
           IN  queue \in Seq(Tx) /\ Injective(queue) /\ ToSet(queue) = ToSet(s) \cup ToSet(Vtx[b])
<1> DEFINE v == Vtx[b]
           n == Len(v)
           r == Reverse(v)
           m == Len(s)
           q == s \o r
<1>1. /\ v \in Seq(Tx) /\ n \in Nat /\ (\A i \in 1..n : v[i] \in Tx)
      /\ ToSet(v) = {v[i] : i \in 1..n} /\ \A i, j \in 1..n : v[i] = v[j] => i = j
  BY VtxFacts, ConfirmedOnce, ElementOfSeq
<1>2. /\ m \in Nat /\ ToSet(s) = {s[i] : i \in 1..m}
      /\ \A i, j \in 1..m : s[i] = s[j] => i = j
  BY QueueFacts DEF Injective
<1>3. r = [i \in 1..n |-> v[(n - i) + 1]]
  BY DEF Reverse
<1> HIDE DEF v, n, r, m
<1>4. \A i \in 1..n : (n - i) + 1 \in 1..n
  BY <1>1
<1>5. r \in [1..n -> Tx]
  BY <1>1, <1>3, <1>4
<1>6. r \in Seq(Tx) /\ Len(r) = n
  <2>1. r \in Seq(Tx)
    BY <1>1, <1>5, SeqDef
  <2>2. DOMAIN r = 1..n /\ DOMAIN r = 1..Len(r) /\ Len(r) \in Nat
    BY <1>5, <2>1, LenProperties
  <2> QED BY <1>1, <2>1, <2>2
<1>7. /\ q \in Seq(Tx) /\ Len(q) = m + n
      /\ \A i \in 1..(m + n) : q[i] = IF i <= m THEN s[i] ELSE r[i - m]
  BY <1>6, ConcatProperties DEF m
<1> HIDE DEF q
<1>8. /\ \A i \in 1..m : i \in 1..(m + n) /\ q[i] = s[i]
      /\ \A i \in 1..n : m + ((n - i) + 1) \in 1..(m + n) /\ q[m + ((n - i) + 1)] = v[i]
  <2>1. \A i \in 1..m : i \in 1..(m + n) /\ i <= m
    BY <1>1, <1>2
  <2>2. ASSUME NEW i \in 1..n
        PROVE  m + ((n - i) + 1) \in 1..(m + n) /\ q[m + ((n - i) + 1)] = v[i]
    <3> DEFINE k == (n - i) + 1
    <3>1. k \in 1..n /\ m + k \in 1..(m + n) /\ ~(m + k <= m) /\ (m + k) - m = k /\ (n - k) + 1 = i
      BY <1>1, <1>2
    <3> HIDE DEF k
    <3>2. q[m + k] = r[k]
      BY <1>7, <3>1
    <3>3. r[k] = v[i]
      BY <1>3, <3>1
    <3> QED BY <3>1, <3>2, <3>3 DEF k
  <2> QED BY <1>7, <2>1, <2>2
<1>9. ASSUME NEW j \in 1..(m + n)
      PROVE  \/ j \in 1..m /\ q[j] = s[j]
             \/ \E i \in 1..n : j = m + ((n - i) + 1) /\ q[j] = v[i]
  <2>1. CASE j \in 1..m
    BY <1>8, <2>1
  <2>2. CASE j \notin 1..m
    <3> DEFINE i == (n - (j - m)) + 1
    <3>1. i \in 1..n /\ j = m + ((n - i) + 1)
      BY <1>1, <1>2, <2>2
    <3> HIDE DEF i
    <3> QED BY <1>8, <3>1
  <2> QED BY <2>1, <2>2
<1>10. ToSet(q) = {q[j] : j \in 1..(m + n)} /\ DOMAIN q = 1..(m + n)
  BY <1>7, QueueFacts
<1>11. ToSet(q) = ToSet(s) \cup ToSet(v)
  BY <1>1, <1>2, <1>8, <1>9, <1>10
<1>12. Injective(q)
  <2> SUFFICES ASSUME NEW j \in 1..(m + n), NEW k \in 1..(m + n), q[j] = q[k] PROVE j = k
    BY <1>10 DEF Injective
  <2>1. ToSet(s) \cap ToSet(v) = {}
    BY DEF v
  <2>2. CASE j \in 1..m /\ q[j] = s[j] /\ k \in 1..m /\ q[k] = s[k]
    BY <1>2, <2>2
  <2>3. ASSUME NEW i \in 1..n, j = m + ((n - i) + 1), q[j] = v[i],
               NEW l \in 1..n, k = m + ((n - l) + 1), q[k] = v[l]
        PROVE  j = k
    BY <1>1, <2>3
  <2>4. ASSUME j \in 1..m, q[j] = s[j], NEW l \in 1..n, q[k] = v[l] PROVE FALSE
    <3>1. s[j] \in ToSet(s) /\ v[l] \in ToSet(v)
      BY <1>1, <1>2, <2>4
    <3> QED BY <2>1, <2>4, <3>1
  <2>5. ASSUME k \in 1..m, q[k] = s[k], NEW l \in 1..n, q[j] = v[l] PROVE FALSE
    <3>1. s[k] \in ToSet(s) /\ v[l] \in ToSet(v)
      BY <1>1, <1>2, <2>5
    <3> QED BY <2>1, <2>5, <3>1
  <2> QED BY <1>9, <2>2, <2>3, <2>4, <2>5
<1> QED BY <1>7, <1>11, <1>12 DEF q, r, v

-----------------------------------------------------------------------------
(* The inductive invariant.                                                *)
(*                                                                         *)
(* H are the transactions put back, W those that wait in disconnectpool, b *)
(* is the tip.                                                             *)

Funded(p, W, b) ==
    \A t \in p.tx : \A o \in Spends(t) : o[1] \in p.tx \cup W \/ o \in Utxo[b]

Apart(p, W, b) ==
    p.tx \cap Confirmed[b] = {} /\ p.tx \cap W = {} /\ W \cap Confirmed[b] = {}

(* What is put back stays.  It spends nothing that waits, and what waits   *)
(* spends only what is put back: the earliest is put back first.           *)
Ordered(p, H, W) ==
    /\ H \subseteq p.tx
    /\ \A t \in p.tx \cap H : From(t) \cap W = {}
    /\ \A t \in W : From(t) \cap p.tx \subseteq H

(* They were together on one chain, which ends above the tip as long as    *)
(* blocks are disconnected.                                                *)
OneChain(H, W, b, ph) ==
    \E c \in Block : H \cup W \subseteq Confirmed[c] /\ (ph \in {"idle", "disconnect"} => b \in Chain[c])

(* Entries have the priority that mapDeltas says. *)
Known(p) == \A t \in p.tx : p.delta[t] = p.mapDeltas[t]

PoolRight(p, H, W, b) ==
    Sound(p, H) /\ Known(p) /\ Funded(p, W, b) /\ Apart(p, W, b) /\ Ordered(p, H, W)

Inv ==
    /\ tip \in Block /\ phase \in {"idle", "disconnect", "connect", "update"}
    /\ disconnectpool \in Seq(Tx) /\ Injective(disconnectpool) /\ vHashUpdate \in Seq(Tx)
    /\ PoolRight(pool, ToSet(vHashUpdate), ToSet(disconnectpool), tip)
    /\ OneChain(ToSet(vHashUpdate), ToSet(disconnectpool), tip, phase) /\ InOrder(vHashUpdate)
    /\ phase # "update" => vHashUpdate = <<>>
    /\ phase = "idle" => disconnectpool = <<>> /\ Ripe(tip, pool)

(* A tip that grows by a block. *)
LEMMA BlockConnected ==
    ASSUME NEW b \in Block, b # Genesis, NEW p, NEW W, PoolRight(p, {}, W, Parent[b]),
           NEW q, Sound(q, {}), AfterBlock(p, ToSet(Vtx[b]), q)
    PROVE  /\ PoolRight(q, {}, W \ ToSet(Vtx[b]), b)
           /\ W = {} /\ Ripe(Parent[b], p) => Ripe(b, q)
<1> DEFINE a == Parent[b]
           B == ToSet(Vtx[b])
           V == W \ B
<1>1. a \in Block /\ Confirmed[b] = Confirmed[a] \cup B /\ Confirmed[a] \subseteq Tx
  BY ParentBlock, ConfirmedStep
<1>2. Sound(p, {}) /\ Funded(p, W, a) /\ Apart(p, W, a) /\ Ordered(p, {}, W)
  BY DEF PoolRight
<1>3. /\ q.tx \subseteq p.tx \ B
      /\ \A u \in q.tx : From(u) \cap p.tx \subseteq q.tx \cup B
      /\ \A u \in q.tx, t \in B : Spends(u) \cap Spends(t) = {}
  BY DEF AfterBlock
<1>4. p.tx \subseteq Tx
  BY <1>2, PoolFields DEF Sound
<1>5. Apart(q, V, b) /\ Known(q)
  <2>1. Known(q)
    BY <1>3 DEF PoolRight, AfterBlock, Kept, Known
  <2> QED BY <1>1, <1>2, <1>3, <2>1 DEF Apart
<1>6. Ordered(q, {}, V)
  BY <1>2, <1>3 DEF Ordered
<1>7. Funded(q, V, b)
  <2> SUFFICES ASSUME NEW t \in q.tx, NEW o \in Spends(t), o[1] \notin q.tx \cup V
               PROVE  o \in Utxo[b]
    BY DEF Funded
  <2>1. o \in Outpoint /\ t \in Tx /\ t \in p.tx
    BY <1>3, <1>4, TxFacts
  <2>2. o[1] \in p.tx \cup W \/ o \in Utxo[a]
    BY <1>2, <2>1 DEF Funded
  <2>3. \A u \in B : o \notin Spends(u)
    BY <1>3
  <2>4. CASE o \in Utxo[a]
    <3>1. o[1] \in Confirmed[a] /\ \A u \in Confirmed[a] : o \notin Spends(u)
      BY <1>1, <2>1, <2>4, UtxoFacts
    <3> QED BY <1>1, <2>1, <2>3, <3>1, UtxoFacts
  <2>5. CASE o[1] \in p.tx \cup W
    <3>1. o[1] \in B
      BY <1>3, <2>5 DEF From
    <3>2. o[1] \notin Confirmed[a]
      BY <1>2, <2>5 DEF Apart
    <3>3. ASSUME NEW u \in Confirmed[a] PROVE o \notin Spends(u)
      <4>1. From(u) \subseteq Confirmed[a]
        BY <1>1, ConfirmedSpends DEF ChainSpends
      <4> QED BY <3>2, <4>1 DEF From
    <3> QED BY <1>1, <2>1, <2>3, <3>1, <3>3, UtxoFacts
  <2> QED BY <2>2, <2>4, <2>5
<1>8. ASSUME W = {}, Ripe(a, p) PROVE Ripe(b, q)
  <2>1. Height[b] = Height[a] + 1 /\ Height[a] \in Nat
    BY <1>1, HeightStep
  <2>2. ASSUME NEW t \in q.tx PROVE Height[b] + 1 >= LockHeight[t]
    <3>1. Height[a] + 1 >= LockHeight[t] /\ LockHeight[t] \in Nat
      BY <1>3, <1>4, <1>8, MempoolAssumption DEF Ripe
    <3> QED BY <2>1, <3>1
  <2>3. ASSUME NEW t \in q.tx, NEW o \in Spends(t), o[1] \notin q.tx, ImmatureOn(b, o) PROVE FALSE
    <3>1. t \in p.tx /\ t \in Tx /\ o \in Outpoint
      BY <1>3, <1>4, TxFacts
    <3>2. o[1] \in Coinbase
      BY <2>3 DEF ImmatureOn
    <3>3. o[1] \notin p.tx
      BY <1>2, <3>2 DEF Sound
    <3>4. ~ImmatureOn(a, o)
      BY <1>8, <3>1, <3>3 DEF Ripe
    <3>5. o[1] \in Confirmed[a]
      BY <1>1, <1>2, <1>8, <3>1, <3>3, UtxoFacts DEF Funded
    <3> DEFINE c == CHOOSE x \in Chain[a] : o[1] \in ToSet(Vtx[x])
               d == CHOOSE x \in Chain[b] : o[1] \in ToSet(Vtx[x])
    <3>6. d = c
      BY <3>5, CoinPlace
    <3>7. c \in Block /\ Height[c] \in Nat
      <4>1. PICK x \in Chain[a] : o[1] \in ToSet(Vtx[x])
        BY <1>1, <3>5 DEF Confirmed
      <4>2. c \in Chain[a]
        BY <4>1
      <4>3. c \in Block
        BY <1>1, <4>2, ChainLeast
      <4> HIDE DEF c
      <4> QED BY <4>3, HeightStep
    <3>8. Height[b] + 1 - Height[d] < Maturity
      BY <2>3 DEF ImmatureOn
    <3>9. ~(Height[a] + 1 - Height[c] < Maturity)
      BY <3>2, <3>4 DEF ImmatureOn
    <3>10. Maturity \in Nat
      BY MempoolAssumption
    <3> HIDE DEF a, c, d
    <3> QED BY <2>1, <3>6, <3>7, <3>8, <3>9, <3>10
  <2> QED BY <2>2, <2>3 DEF Ripe
<1> QED BY <1>5, <1>6, <1>7, <1>8 DEF PoolRight

(* A tip that loses a block.  X are the transactions that are dropped. *)
LEMMA BlockDisconnected ==
    ASSUME NEW b \in Block, b # Genesis, NEW p, NEW W, PoolRight(p, {}, W, b),
           NEW V, NEW X, V \cup X = W \cup ToSet(Vtx[b]),
           NEW q, Sound(q, {}), Pruned(p, q), \A t \in X : \A u \in q.tx : t \notin From(u)
    PROVE  PoolRight(q, {}, V, Parent[b])
<1> DEFINE a == Parent[b]
           B == ToSet(Vtx[b])
<1>1. /\ a \in Block /\ Confirmed[b] = Confirmed[a] \cup B /\ Confirmed[b] \subseteq Tx
      /\ B \cap Confirmed[a] = {}
  BY ParentBlock, ConfirmedStep, ConfirmedOnce
<1>2. Sound(p, {}) /\ Funded(p, W, b) /\ Apart(p, W, b) /\ Ordered(p, {}, W)
  BY DEF PoolRight
<1>3. q.tx \subseteq p.tx /\ p.tx \subseteq Tx /\ V \subseteq W \cup B
  BY <1>2, PoolFields DEF Sound, Pruned
<1>4. Apart(q, V, a)
  BY <1>1, <1>2, <1>3 DEF Apart
<1>5. Ordered(q, {}, V)
  <2> SUFFICES ASSUME NEW t \in V PROVE From(t) \cap q.tx = {}
    BY DEF Ordered
  <2>1. CASE t \in W
    BY <1>2, <1>3, <2>1 DEF Ordered
  <2>2. CASE t \in B
    <3>1. From(t) \subseteq Confirmed[b]
      BY <1>1, <2>2, ConfirmedSpends DEF ChainSpends
    <3> QED BY <1>2, <1>3, <3>1 DEF Apart
  <2> QED BY <1>3, <2>1, <2>2
<1>6. Funded(q, V, a)
  <2> SUFFICES ASSUME NEW t \in q.tx, NEW o \in Spends(t), o[1] \notin q.tx \cup V
               PROVE  o \in Utxo[a]
    BY DEF Funded
  <2>1. o \in Outpoint /\ t \in p.tx /\ o[1] \in From(t)
    BY <1>3, TxFacts DEF From
  <2>2. o[1] \notin p.tx /\ o[1] \notin X /\ o[1] \notin W \cup B
    BY <2>1 DEF Pruned
  <2>3. o \in Utxo[b]
    BY <1>2, <2>1, <2>2 DEF Funded
  <2>4. o[1] \in Confirmed[b] /\ \A u \in Confirmed[b] : o \notin Spends(u)
    BY <2>1, <2>3, UtxoFacts
  <2> QED BY <1>1, <2>1, <2>2, <2>4, UtxoFacts
<1>7. Known(q)
  BY DEF PoolRight, Known, Pruned, Kept
<1> QED BY <1>4, <1>5, <1>6, <1>7 DEF PoolRight

(* Entries go with their descendants. *)
LEMMA PoolPruned ==
    ASSUME NEW p, NEW W, NEW b \in Block, Funded(p, W, b), Apart(p, W, b),
           NEW q, Pruned(p, q), Known(p)
    PROVE  Funded(q, W, b) /\ Apart(q, W, b) /\ Known(q)
<1>1. Apart(q, W, b)
  BY DEF Apart, Pruned
<1>2. Funded(q, W, b)
  BY DEF Funded, Pruned, From
<1>3. Known(q)
  BY DEF Known, Pruned, Kept
<1> QED BY <1>1, <1>2, <1>3

-----------------------------------------------------------------------------
(* Transactions that enter the pool. *)

LEMMA AcceptableFacts ==
    ASSUME tip \in Block, NEW p, NEW H, NEW W, PoolRight(p, H, W, tip), NEW t \in Tx, Acceptable(p, t)
    PROVE  /\ t \notin p.tx \cup Coinbase \cup From(t) /\ t \notin Confirmed[tip]
           /\ From(t) \subseteq p.tx \cup Confirmed[tip]
           /\ Conflicts(p, t) \cap SearchedAncestors(p, t) = {}
           /\ Conflicts(p, t) \subseteq p.tx
           /\ \A c \in Conflicts(p, t) : Spends(c) \cap Spends(t) # {}
<1>1. t \notin Coinbase /\ t \notin p.tx /\ HaveInputs(p, t) /\ MayReplace(p, t)
  BY DEF Acceptable
<1>2. \A o \in Spends(t) : o \in Outpoint /\ (o[1] \in p.tx \/ o \in Utxo[tip])
  BY <1>1, TxFacts DEF HaveInputs
<1>3. From(t) \subseteq p.tx \cup Confirmed[tip]
  BY <1>2, UtxoFacts DEF From
<1>4. p.tx \cap Confirmed[tip] = {}
  BY DEF PoolRight, Apart
<1>5. t \notin Confirmed[tip]
  <2> SUFFICES ASSUME t \in Confirmed[tip] PROVE FALSE
    OBVIOUS
  <2>1. PICK o \in Spends(t) : TRUE
    <3>1. Vin[t] # <<>>
      BY <1>1, MempoolAssumption
    <3>2. Vin[t] \in Seq(Outpoint)
      BY MempoolAssumption DEF Outpoint, Outputs
    <3>3. Len(Vin[t]) # 0 /\ Len(Vin[t]) \in Nat
      BY <3>1, <3>2, EmptySeq, LenProperties
    <3>4. 1 \in 1..Len(Vin[t])
      BY <3>3
    <3>5. Spends(t) = {Vin[t][i] : i \in 1..Len(Vin[t])}
      BY TxFacts
    <3>6. Vin[t][1] \in Spends(t)
      BY <3>4, <3>5
    <3> QED BY <3>6
  <2>2. CASE o \in Utxo[tip]
    BY <1>2, <2>2, UtxoFacts
  <2>3. CASE o[1] \in p.tx
    <3>1. o[1] \in Confirmed[tip]
      BY ConfirmedSpends DEF ChainSpends, From
    <3> QED BY <1>4, <2>3, <3>1
  <2> QED BY <1>2, <2>2, <2>3
<1>6. Conflicts(p, t) \cap SearchedAncestors(p, t) = {}
  BY <1>1 DEF MayReplace
<1>7. ASSUME NEW c \in Conflicts(p, t) PROVE c \in p.tx /\ Spends(c) \cap Spends(t) # {}
  <2>1. PICK o \in Spends(t) : c = p.next[o] /\ c # NoTx
    BY DEF Conflicts
  <2>2. o \in Outpoint /\ c \in Tx
    <3>1. o \in Outpoint /\ p.next \in [Outpoint -> Tx \cup {NoTx}]
      BY <1>2, PoolFields DEF PoolRight, Sound
    <3> QED BY <2>1, <3>1
  <2>3. c \in p.tx /\ o \in Spends(c)
    BY <2>1, <2>2 DEF PoolRight, Sound, LinksSound
  <2> QED BY <2>3
<1> QED BY <1>1, <1>3, <1>5, <1>6, <1>7

LEMMA AcceptedIdle ==
    ASSUME tip \in Block, NEW p, PoolRight(p, {}, {}, tip), Ripe(tip, p),
           NEW t \in Tx, Acceptable(p, t)
    PROVE  LET q == Accepted(p, t)
           IN  /\ Sound(q, {}) /\ Known(q) /\ Funded(q, {}, tip) /\ Apart(q, {}, tip)
               /\ Ripe(tip, q) /\ Grown(p, t, q)
<1> DEFINE q == Accepted(p, t)
           H == {}
<1>1. /\ t \notin p.tx \cup Coinbase \cup From(t) /\ t \notin Confirmed[tip]
      /\ Conflicts(p, t) \cap SearchedAncestors(p, t) = {}
  BY AcceptableFacts
<1>2. Sound(p, {}) /\ Funded(p, {}, tip) /\ Apart(p, {}, tip) /\ p.tx \subseteq Tx
  BY PoolFields DEF PoolRight, Sound
<1>3. ASSUME NEW u \in p.tx PROVE t \notin From(u)
  <2> SUFFICES ASSUME NEW o \in Spends(u), o[1] = t PROVE FALSE
    BY DEF From
  <2>1. o \in Utxo[tip] /\ o \in Outpoint
    BY <1>1, <1>2, TxFacts DEF Funded
  <2> QED BY <1>1, <2>1, UtxoFacts
<1>4. Sound(q, {}) /\ Grown(p, t, q)
  <2>1. Sound(p, H) /\ Conflicts(p, t) \cap H = {} /\ H \subseteq H \cup {t} /\ t \notin H /\ H = {}
    BY <1>2
  <2> HIDE DEF H, q
  <2>2. Sound(q, H) /\ Grown(p, t, q)
    BY <1>1, <1>3, <2>1, AcceptedSound DEF q
  <2> QED BY <2>2 DEF H
<1> HIDE DEF q
<1>5. t \in q.tx /\ q.tx \subseteq p.tx \cup {t} /\ \A u \in q.tx : From(u) \cap p.tx \subseteq q.tx
  BY <1>4 DEF Grown
<1>51. Known(q)
  BY <1>4 DEF PoolRight, Known, Grown, Kept
<1>6. Apart(q, {}, tip)
  BY <1>1, <1>2, <1>5 DEF Apart
<1>7. \A o \in Spends(t) : o[1] \in p.tx \/ (o \in Utxo[tip] /\ ~ImmatureOn(tip, o))
  BY DEF Acceptable, HaveInputs, ImmatureOn, Immature, CoinHeight
<1>8. Funded(q, {}, tip)
  <2> SUFFICES ASSUME NEW u \in q.tx, NEW o \in Spends(u), o[1] \notin q.tx
               PROVE  o \in Utxo[tip]
    BY DEF Funded
  <2>1. o[1] \notin p.tx
    BY <1>5 DEF From
  <2> QED BY <1>2, <1>5, <1>7, <2>1 DEF Funded
<1>9. Ripe(tip, q)
  <2>1. ASSUME NEW u \in q.tx PROVE Height[tip] + 1 >= LockHeight[u]
    <3>1. CASE u = t
      BY <3>1 DEF Acceptable, Final
    <3>2. CASE u # t
      BY <1>5, <3>2 DEF Ripe
    <3> QED BY <3>1, <3>2
  <2>2. ASSUME NEW u \in q.tx, NEW o \in Spends(u), o[1] \notin q.tx PROVE ~ImmatureOn(tip, o)
    <3>1. o[1] \notin p.tx
      BY <1>5, <2>2 DEF From
    <3>2. CASE u = t
      BY <1>7, <3>1, <3>2
    <3>3. CASE u # t
      BY <1>5, <3>1, <3>3 DEF Ripe
    <3> QED BY <3>2, <3>3
  <2> QED BY <2>1, <2>2 DEF Ripe
<1> QED BY <1>4, <1>51, <1>6, <1>8, <1>9 DEF q

(* A transaction of a disconnected block is put back.  What it conflicts   *)
(* with was not put back: it was on the same chain.                        *)
LEMMA AcceptedAgain ==
    ASSUME tip \in Block, NEW p, NEW H, NEW W, PoolRight(p, H, W, tip),
           NEW c \in Block, H \cup W \subseteq Confirmed[c],
           NEW t \in W, Acceptable(p, t)
    PROVE  PoolRight(Accepted(p, t), H \cup {t}, W \ {t}, tip)
<1> DEFINE q == Accepted(p, t)
           G == H \cup {t}
           V == W \ {t}
<1>0. t \in Tx /\ t \in Confirmed[c]
  BY ConfirmedStep
<1>1. /\ t \notin p.tx \cup Coinbase \cup From(t) /\ t \notin Confirmed[tip]
      /\ From(t) \subseteq p.tx \cup Confirmed[tip]
      /\ Conflicts(p, t) \cap SearchedAncestors(p, t) = {}
      /\ Conflicts(p, t) \subseteq p.tx
      /\ \A x \in Conflicts(p, t) : Spends(x) \cap Spends(t) # {}
  BY <1>0, AcceptableFacts
<1>2. Sound(p, H) /\ Funded(p, W, tip) /\ Apart(p, W, tip) /\ Ordered(p, H, W)
  BY DEF PoolRight
<1>3. Conflicts(p, t) \cap H = {}
  <2> SUFFICES ASSUME NEW x \in Conflicts(p, t), x \in H PROVE FALSE
    OBVIOUS
  <2>1. x \in Confirmed[c] /\ x # t
    BY <1>1
  <2>2. Spends(x) \cap Spends(t) = {}
    BY <1>0, <2>1, ConfirmedSpends DEF ChainSpends
  <2> QED BY <1>1, <2>2
<1>4. Sound(q, G) /\ Grown(p, t, q) /\ p.tx \cap H \subseteq q.tx
  <2>1. From(t) \cap p.tx \subseteq H
    BY <1>2 DEF Ordered
  <2>2. \A u \in p.tx : t \in From(u) => t \in G /\ u \notin H
    BY <1>2 DEF Ordered
  <2>3. H \subseteq G /\ G \subseteq H \cup {t} /\ t \in G
    OBVIOUS
  <2> HIDE DEF G
  <2> QED BY <1>0, <1>1, <1>2, <1>3, <2>1, <2>2, <2>3, AcceptedSound
<1> HIDE DEF q
<1>5. t \in q.tx /\ q.tx \subseteq p.tx \cup {t} /\ \A u \in q.tx : From(u) \cap p.tx \subseteq q.tx
  BY <1>4 DEF Grown
<1>51. Known(q)
  BY <1>4 DEF PoolRight, Known, Grown, Kept
<1>6. Apart(q, V, tip)
  BY <1>1, <1>2, <1>5 DEF Apart
<1>7. Ordered(q, G, V)
  <2>1. ASSUME NEW u \in q.tx \cap G PROVE From(u) \cap V = {}
    <3>1. CASE u = t
      BY <1>1, <1>2, <3>1 DEF Apart
    <3>2. CASE u # t
      BY <1>2, <1>5, <3>2 DEF Ordered
    <3> QED BY <3>1, <3>2
  <2>2. ASSUME NEW u \in V PROVE From(u) \cap q.tx \subseteq G
    BY <1>2, <1>5 DEF Ordered
  <2>3. G \subseteq q.tx
    BY <1>2, <1>4, <1>5 DEF Ordered
  <2> QED BY <2>1, <2>2, <2>3 DEF Ordered
<1>8. Funded(q, V, tip)
  <2> SUFFICES ASSUME NEW u \in q.tx, NEW o \in Spends(u), o[1] \notin q.tx \cup V
               PROVE  o \in Utxo[tip]
    BY DEF Funded
  <2>1. o[1] \notin p.tx /\ o[1] \notin W
    BY <1>5 DEF From
  <2>2. CASE u = t
    BY <2>1, <2>2 DEF Acceptable, HaveInputs
  <2>3. CASE u # t
    BY <1>2, <1>5, <2>1, <2>3 DEF Funded
  <2> QED BY <2>2, <2>3
<1> QED BY <1>4, <1>51, <1>6, <1>7, <1>8 DEF PoolRight, q

(* Or it is not, and what spends it goes. *)
LEMMA DroppedAgain ==
    ASSUME tip \in Block, NEW p, NEW H, NEW W, PoolRight(p, H, W, tip), NEW t \in W, t \in Tx
    PROVE  PoolRight(RemoveRecursive(p, t), H, W \ {t}, tip)
<1> DEFINE q == RemoveRecursive(p, t)
           V == W \ {t}
<1>1. Sound(p, H) /\ Known(p) /\ Funded(p, W, tip) /\ Apart(p, W, tip) /\ Ordered(p, H, W)
  BY DEF PoolRight
<1>2. t \notin p.tx
  BY <1>1 DEF Apart
<1>3. \A u \in p.tx \cap H : t \notin From(u)
  BY <1>1 DEF Ordered
<1>4. /\ Sound(q, H) /\ Pruned(p, q) /\ p.tx \cap H \subseteq q.tx
      /\ \A u \in q.tx : t \notin From(u)
  BY <1>1, <1>2, <1>3, RecursivelyRemoved
<1> HIDE DEF q
<1>5. Funded(q, W, tip) /\ Apart(q, W, tip) /\ Known(q)
  BY <1>1, <1>4, PoolPruned
<1>6. Apart(q, V, tip)
  BY <1>5 DEF Apart
<1>7. Funded(q, V, tip)
  BY <1>4, <1>5 DEF Funded, From
<1>8. Ordered(q, H, V)
  BY <1>1, <1>4 DEF Ordered, Pruned
<1> QED BY <1>4, <1>5, <1>6, <1>7, <1>8 DEF PoolRight, q

-----------------------------------------------------------------------------
(* The actions. *)

(* A total with d more fees. *)
Paid(f, d) == [f EXCEPT !.fees = f.fees + d]

(* Two pools with the same entries and links. *)
SameLinks(p, q) ==
    /\ q \in Pools /\ q.tx = p.tx /\ q.parents = p.parents /\ q.children = p.children
    /\ q.next = p.next /\ q.size = p.size

(* q is p with the entry t prioritised by d more. *)
MorePaid(p, t, d, q) ==
    /\ q.delta = [p.delta EXCEPT ![t] = p.mapDeltas[t] + d]
    /\ q.mapDeltas = [p.mapDeltas EXCEPT ![t] = p.mapDeltas[t] + d]
    /\ \A u \in Tx :
          /\ q.desc[u] = IF u \in Ancestors(p, t) \cup {t} THEN Paid(p.desc[u], d) ELSE p.desc[u]
          /\ q.anc[u] = IF u \in Descendants(p, t) \cup {t} THEN Paid(p.anc[u], d) ELSE p.anc[u]

(* q is p with something prioritised that is not in the pool. *)
SameTotals(p, t, q) ==
    /\ q.delta = p.delta /\ q.desc = p.desc /\ q.anc = p.anc
    /\ \A u \in Tx \ {t} : q.mapDeltas[u] = p.mapDeltas[u]

LEMMA Prioritised ==
    ASSUME pool \in Pools, NEW t \in Tx, NEW d \in Int, PrioritiseTransaction(t, d)
    PROVE  /\ SameLinks(pool, pool')
           /\ IF t \in pool.tx THEN MorePaid(pool, t, d, pool') ELSE SameTotals(pool, t, pool')
<1> DEFINE paid(f) == [f EXCEPT !.fees = f.fees + d]
           deltas == [pool.mapDeltas EXCEPT ![t] = pool.mapDeltas[t] + d]
           delta == [pool.delta EXCEPT ![t] = pool.mapDeltas[t] + d]
           desc == [u \in Tx |-> IF u \in Ancestors(pool, t) \cup {t}
                                 THEN paid(pool.desc[u]) ELSE pool.desc[u]]
           anc == [u \in Tx |-> IF u \in Descendants(pool, t) \cup {t}
                                THEN paid(pool.anc[u]) ELSE pool.anc[u]]
<1>1. \A f \in Totals : paid(f) \in Totals
  BY DEF Totals
<1>2. deltas \in [Tx -> Int] /\ delta \in [Tx -> Int] /\ \A u \in Tx \ {t} : deltas[u] = pool.mapDeltas[u]
  BY PoolFields
<1>3. desc \in [Tx -> Totals] /\ anc \in [Tx -> Totals]
  <2> HIDE DEF paid
  <2> QED BY <1>1, PoolFields
<1>4. CASE t \notin pool.tx
  <2>1. pool' = [pool EXCEPT !.mapDeltas = deltas]
    BY <1>4 DEF PrioritiseTransaction
  <2> HIDE DEF deltas
  <2> QED BY <1>2, <1>4, <2>1 DEF Pools, SameLinks, SameTotals
<1>5. CASE t \in pool.tx
  <2>1. pool' = [pool EXCEPT !.mapDeltas = deltas, !.delta = delta, !.desc = desc, !.anc = anc]
    BY <1>5 DEF PrioritiseTransaction
  <2>2. /\ SameLinks(pool, pool') /\ pool'.delta = delta /\ pool'.mapDeltas = deltas
        /\ pool'.desc = desc /\ pool'.anc = anc
    <3> HIDE DEF deltas, delta, desc, anc
    <3> QED BY <1>2, <1>3, <2>1 DEF Pools, SameLinks
  <2>3. \A u \in Tx :
           /\ desc[u] = IF u \in Ancestors(pool, t) \cup {t} THEN Paid(pool.desc[u], d) ELSE pool.desc[u]
           /\ anc[u] = IF u \in Descendants(pool, t) \cup {t} THEN Paid(pool.anc[u], d) ELSE pool.anc[u]
    BY DEF Paid
  <2> HIDE DEF desc, anc
  <2> QED BY <1>5, <2>2, <2>3 DEF MorePaid
<1> QED BY <1>4, <1>5

(* The fees of the entries with t rise by d, those of the others stay. *)
LEMMA TotalPaid ==
    ASSUME NEW p \in Pools, NEW q \in Pools, NEW t \in p.tx, NEW d \in Int,
           q.delta = [p.delta EXCEPT ![t] = p.delta[t] + d], NEW X \in SUBSET Tx
    PROVE  Total(q, X) = IF t \in X THEN Paid(Total(p, X), d) ELSE Total(p, X)
<1>1. t \in Tx /\ p.delta \in [Tx -> Int] /\ q.delta \in [Tx -> Int]
  BY PoolFields
<1>2. q.delta[t] = p.delta[t] + d /\ \A u \in Tx \ {t} : q.delta[u] = p.delta[u]
  BY <1>1
<1>3. \A Y \in SUBSET Tx : t \notin Y => Total(q, Y) = Total(p, Y)
  <2> SUFFICES ASSUME NEW Y \in SUBSET Tx, t \notin Y PROVE Total(q, Y) = Total(p, Y)
    OBVIOUS
  <2>1. \A u \in Y : q.delta[u] = p.delta[u]
    BY <1>2
  <2> QED BY <1>1, <2>1, TotalSame
<1>4. ASSUME t \in X PROVE Total(q, X) = Paid(Total(p, X), d)
  <2> DEFINE Y == X \ {t}
             a == Total(p, Y)
  <2>1. Y \in SUBSET Tx /\ {t} \in SUBSET Tx /\ Y \cap {t} = {} /\ Y \cup {t} = X /\ t \notin Y
    BY <1>1, <1>4
  <2> HIDE DEF Y
  <2>2. /\ Total(p, X) = Plus(a, Total(p, {t})) /\ Total(q, X) = Plus(Total(q, Y), Total(q, {t}))
        /\ a \in Totals /\ Total(p, {t}) \in Totals
    BY <1>1, <2>1, TotalUnion, TotalType
  <2>3. Total(q, Y) = a
    BY <1>3, <2>1
  <2>4. FeesOf(q, {t}) = FeesOf(p, {t}) + d
    <3>1. FeesOf(q, {t}) = GetModifiedFee(q, t) /\ FeesOf(p, {t}) = GetModifiedFee(p, t)
      BY <1>1, FeesOne
    <3>2. Fee[t] \in Int /\ p.delta[t] \in Int
      BY <1>1, MempoolAssumption
    <3> QED BY <1>2, <3>1, <3>2 DEF GetModifiedFee
  <2>5. Total(q, {t}) = Paid(Total(p, {t}), d)
    <3>1. \A n, z, x : Paid([count |-> n, size |-> z, fees |-> x], d)
                         = [count |-> n, size |-> z, fees |-> x + d]
      BY DEF Paid
    <3> QED BY <2>4, <3>1 DEF Total
  <2> HIDE DEF a
  <2>6. \A x, y \in Totals : Plus(x, Paid(y, d)) = Paid(Plus(x, y), d)
    BY DEF Totals, Plus, Paid
  <2> QED BY <2>2, <2>3, <2>5, <2>6
<1> QED BY <1>3, <1>4

LEMMA PrioritisedSound ==
    ASSUME NEW p, NEW H, Sound(p, H), Known(p), NEW t \in Tx, NEW d \in Int, NEW q, SameLinks(p, q),
           IF t \in p.tx THEN MorePaid(p, t, d, q) ELSE SameTotals(p, t, q)
    PROVE  Sound(q, H) /\ Known(q) /\ q.tx = p.tx
<1>1. /\ q \in Pools /\ q.tx = p.tx /\ q.parents = p.parents /\ q.children = p.children
      /\ q.next = p.next /\ q.size = p.size
  BY DEF SameLinks
<1>2. LinksSound(q)
  BY <1>1 DEF Sound, LinksSound
<1>3. p \in Pools /\ LinksSound(p) /\ Summed(p)
  BY DEF Sound
<1>4. /\ p.tx \subseteq Tx
      /\ \A x, u \in Tx : u \in Reach(p.parents, {x}) <=> x \in Reach(p.children, {u})
      /\ \A x \in p.tx : Reach(p.parents, {x}) \subseteq p.tx /\ Reach(p.children, {x}) \subseteq p.tx
  BY <1>3, LinksBack
<1>5. p.delta \in [Tx -> Int] /\ q.delta \in [Tx -> Int] /\ p.mapDeltas \in [Tx -> Int]
  BY <1>1, <1>3, PoolFields
<1>6. CASE t \notin p.tx
  <2>1. SameTotals(p, t, q)
    BY <1>6
  <2>2. q.delta = p.delta /\ q.desc = p.desc /\ q.anc = p.anc /\ \A u \in Tx \ {t} : q.mapDeltas[u] = p.mapDeltas[u]
    BY <2>1 DEF SameTotals
  <2>3. \A X \in SUBSET Tx : Total(q, X) = Total(p, X)
    BY <1>5, <2>2, TotalSame
  <2>4. \A x \in p.tx : Reach(p.parents, {x}) \in SUBSET Tx /\ Reach(p.children, {x}) \in SUBSET Tx
    BY <1>4
  <2>5. Summed(q)
    BY <1>1, <1>3, <2>2, <2>3, <2>4 DEF Summed
  <2>6. Known(q)
    BY <1>1, <1>4, <1>6, <2>2 DEF Known
  <2> QED BY <1>1, <1>2, <2>5, <2>6 DEF Sound
<1>7. CASE t \in p.tx
  <2>1. MorePaid(p, t, d, q)
    BY <1>7
  <2>2. /\ q.delta = [p.delta EXCEPT ![t] = p.mapDeltas[t] + d]
        /\ q.mapDeltas = [p.mapDeltas EXCEPT ![t] = p.mapDeltas[t] + d]
        /\ \A u \in Tx :
              /\ q.desc[u] = IF u \in Ancestors(p, t) \cup {t} THEN Paid(p.desc[u], d) ELSE p.desc[u]
              /\ q.anc[u] = IF u \in Descendants(p, t) \cup {t} THEN Paid(p.anc[u], d) ELSE p.anc[u]
    BY <2>1 DEF MorePaid
  <2>3. p.delta[t] = p.mapDeltas[t]
    BY <1>7 DEF Known
  <2>4. Known(q)
    BY <1>1, <1>4, <1>5, <2>2 DEF Known
  <2>5. q.delta = [p.delta EXCEPT ![t] = p.delta[t] + d]
    BY <2>2, <2>3
  <2>6. \A X \in SUBSET Tx : Total(q, X) = IF t \in X THEN Paid(Total(p, X), d) ELSE Total(p, X)
    BY <1>1, <1>3, <1>7, <2>5, TotalPaid
  <2>7. ASSUME NEW u \in q.tx
        PROVE  /\ q.desc[u] = Total(q, Reach(q.children, {u}))
               /\ q.anc[u] = Total(q, Reach(q.parents, {u}))
    <3> DEFINE Up == Reach(p.parents, {u})
               Down == Reach(p.children, {u})
    <3>1. u \in p.tx /\ u \in Tx /\ t \in Tx /\ Up \in SUBSET Tx /\ Down \in SUBSET Tx
      BY <1>1, <1>4
    <3>2. Reach(q.children, {u}) = Down /\ Reach(q.parents, {u}) = Up
      BY <1>1
    <3>3. p.desc[u] = Total(p, Down) /\ p.anc[u] = Total(p, Up)
      BY <1>3, <3>1 DEF Summed
    <3>4. u \in Reach(p.children, {u}) /\ u \in Reach(p.parents, {u})
      BY <1>3, <3>1, PoolFields, ReachFirst
    <3>5. u \in Ancestors(p, t) \cup {t} <=> t \in Down
      BY <1>4, <3>1, <3>4 DEF Ancestors
    <3>6. u \in Descendants(p, t) \cup {t} <=> t \in Up
      BY <1>4, <3>1, <3>4 DEF Descendants, CalculateDescendants
    <3> HIDE DEF Up, Down
    <3> QED BY <2>2, <2>6, <3>1, <3>2, <3>3, <3>5, <3>6
  <2>8. Summed(q)
    BY <1>1, <1>3, <2>7 DEF Summed
  <2> QED BY <1>1, <1>2, <2>4, <2>8 DEF Sound
<1> QED BY <1>6, <1>7

(* In the phase "idle" no transaction waits and none has been put back. *)
LEMMA IdleFacts ==
    ASSUME Inv, phase = "idle"
    PROVE  /\ tip \in Block /\ PoolRight(pool, {}, {}, tip) /\ Ripe(tip, pool)
           /\ ToSet(vHashUpdate) = {} /\ ToSet(disconnectpool) = {}
<1>1. disconnectpool = <<>> /\ vHashUpdate = <<>>
  BY DEF Inv
<1>2. ToSet(vHashUpdate) = {} /\ ToSet(disconnectpool) = {}
  BY <1>1, QueueFacts DEF Inv
<1> QED BY <1>2 DEF Inv

(* What may be done in that phase: the pool is made anew, on the same tip. *)
LEMMA IdleStep ==
    ASSUME Inv, phase = "idle", UNCHANGED reorgVars,
           Sound(pool', {}), Known(pool'), Funded(pool', {}, tip), Apart(pool', {}, tip),
           Ripe(tip, pool')
    PROVE  Inv'
<1>1. ToSet(vHashUpdate) = {} /\ ToSet(disconnectpool) = {} /\ tip \in Block
  BY IdleFacts
<1>2. Ordered(pool', {}, {})
  BY DEF Ordered
<1>3. PoolRight(pool', {}, {}, tip)
  BY <1>2 DEF PoolRight
<1>4. PoolRight(pool', ToSet(vHashUpdate), ToSet(disconnectpool), tip)
  BY <1>1, <1>3
<1>5. tip' = tip /\ disconnectpool' = disconnectpool /\ phase' = phase /\ vHashUpdate' = vHashUpdate
  BY DEF reorgVars
<1> QED BY <1>4, <1>5 DEF Inv

LEMMA AcceptInv ==
    ASSUME Inv, NEW t \in Tx, AcceptToMemoryPool(t)
    PROVE  Inv'
<1> DEFINE p == Accepted(pool, t)
<1>1. phase = "idle" /\ Acceptable(pool, t) /\ pool' \in LimitMempoolSize(p) /\ UNCHANGED reorgVars
  BY DEF AcceptToMemoryPool
<1>2. tip \in Block /\ PoolRight(pool, {}, {}, tip) /\ Ripe(tip, pool)
  BY <1>1, IdleFacts
<1>3. Sound(p, {}) /\ Known(p) /\ Funded(p, {}, tip) /\ Apart(p, {}, tip) /\ Ripe(tip, p)
  BY <1>1, <1>2, AcceptedIdle
<1> HIDE DEF p
<1>4. Sound(pool', {}) /\ Pruned(p, pool')
  BY <1>1, <1>3, Limited
<1>5. Funded(pool', {}, tip) /\ Apart(pool', {}, tip) /\ Known(pool')
  BY <1>2, <1>3, <1>4, PoolPruned
<1>6. Ripe(tip, pool')
  BY <1>3, <1>4 DEF Ripe, Pruned, From
<1> QED BY <1>1, <1>4, <1>5, <1>6, IdleStep

LEMMA PrioritiseInv ==
    ASSUME Inv, NEW t \in Tx, NEW d \in Int, PrioritiseTransaction(t, d)
    PROVE  Inv'
<1>1. phase = "idle" /\ UNCHANGED reorgVars
  BY DEF PrioritiseTransaction
<1>2. PoolRight(pool, {}, {}, tip) /\ Ripe(tip, pool)
  BY <1>1, IdleFacts
<1>3. /\ Sound(pool, {}) /\ Known(pool) /\ Funded(pool, {}, tip) /\ Apart(pool, {}, tip)
      /\ pool \in Pools
  BY <1>2 DEF PoolRight, Sound
<1>4. Sound(pool', {}) /\ Known(pool') /\ pool'.tx = pool.tx
  <2>1. /\ SameLinks(pool, pool')
        /\ IF t \in pool.tx THEN MorePaid(pool, t, d, pool') ELSE SameTotals(pool, t, pool')
    BY <1>3, Prioritised
  <2> QED BY <1>3, <2>1, PrioritisedSound
<1>5. Funded(pool', {}, tip) /\ Apart(pool', {}, tip) /\ Ripe(tip, pool')
  BY <1>2, <1>3, <1>4 DEF Funded, Apart, Ripe
<1> QED BY <1>1, <1>4, <1>5, IdleStep

LEMMA TipRemoved ==
    ASSUME Inv, NEW b \in Block, ConnectTip(b)
    PROVE  Sound(pool', {}) /\ AfterBlock(pool, ToSet(Vtx[b]), pool')
<1>1. /\ phase \in {"idle", "disconnect", "connect"} /\ Parent[b] = tip
      /\ pool' = RemoveForBlock(pool, Vtx[b])
  BY DEF ConnectTip
<1>2. b # Genesis /\ tip \in Block
  BY <1>1, TreeAssumption DEF Inv
<1>3. vHashUpdate = <<>> /\ ToSet(vHashUpdate) = {}
  BY <1>1, QueueFacts DEF Inv
<1>4. PoolRight(pool, {}, ToSet(disconnectpool), Parent[b])
  BY <1>1, <1>3 DEF Inv
<1>5. Sound(pool, {}) /\ Vtx[b] \in Seq(Tx)
  BY <1>4, VtxFacts DEF PoolRight
<1>6. ASSUME NEW i \in 1..Len(Vtx[b])
      PROVE  From(Vtx[b][i]) \cap pool.tx \subseteq {Vtx[b][j] : j \in 1..(i - 1)}
  <2> DEFINE E == Before(b, i)
  <2>1. Spends(Vtx[b][i]) \subseteq UNION {Outputs(u) : u \in E}
    BY VtxFacts, BlocksAssumption
  <2>2. E = Confirmed[tip] \cup {Vtx[b][j] : j \in 1..(i - 1)}
    BY <1>1, <1>2 DEF Before
  <2>3. From(Vtx[b][i]) \subseteq E
    <3> HIDE DEF E
    <3> QED BY <2>1 DEF From, Outputs
  <2>4. pool.tx \cap Confirmed[tip] = {}
    BY <1>1, <1>4 DEF PoolRight, Apart
  <2> QED BY <2>2, <2>3, <2>4
<1> QED BY <1>1, <1>5, <1>6, BlockRemoved

LEMMA ConnectInv ==
    ASSUME Inv, NEW b \in Block, ConnectTip(b)
    PROVE  Inv'
<1> DEFINE W == ToSet(disconnectpool)
           V == ToSet(disconnectpool')
           B == ToSet(Vtx[b])
<1>1. /\ phase \in {"idle", "disconnect", "connect"} /\ Parent[b] = tip
      /\ pool' = RemoveForBlock(pool, Vtx[b])
      /\ disconnectpool' = Unconfirmed(disconnectpool, Vtx[b])
      /\ tip' = b /\ phase' = (IF phase = "idle" THEN "idle" ELSE "connect")
      /\ vHashUpdate' = vHashUpdate
  BY DEF ConnectTip
<1>2. b # Genesis /\ tip \in Block
  BY <1>1, TreeAssumption DEF Inv
<1>3. vHashUpdate = <<>> /\ ToSet(vHashUpdate) = {} /\ <<>> \in Seq(Tx)
  BY <1>1, QueueFacts DEF Inv
<1>4. PoolRight(pool, {}, W, Parent[b])
  BY <1>1, <1>3 DEF Inv
<1>5. disconnectpool' \in Seq(Tx) /\ Injective(disconnectpool') /\ V = W \ B
  BY <1>1, QueueConfirmed DEF Inv
<1>6. Sound(pool', {}) /\ AfterBlock(pool, B, pool')
  BY TipRemoved
<1>7. PoolRight(pool', {}, V, b) /\ (W = {} /\ Ripe(Parent[b], pool) => Ripe(b, pool'))
  <2>1. PoolRight(pool', {}, W \ B, b) /\ (W = {} /\ Ripe(Parent[b], pool) => Ripe(b, pool'))
    BY <1>2, <1>4, <1>6, BlockConnected
  <2> QED BY <1>5, <2>1
<1>8. phase = "idle" => W = {} /\ V = {} /\ disconnectpool' = <<>> /\ Ripe(b, pool')
  <2> SUFFICES ASSUME phase = "idle" PROVE W = {} /\ V = {} /\ disconnectpool' = <<>> /\ Ripe(b, pool')
    OBVIOUS
  <2>1. W = {} /\ Ripe(tip, pool)
    BY IdleFacts
  <2>2. V = {}
    BY <1>5, <2>1
  <2>3. disconnectpool' = <<>>
    BY <1>5, <2>2, QueueFacts
  <2> QED BY <1>1, <1>7, <2>1, <2>2, <2>3
<1>9. OneChain({}, V, b, phase')
  <2>1. CASE phase = "idle"
    <3>1. b \in Chain[b] /\ V = {}
      BY <1>8, <2>1, ChainLeast
    <3> QED BY <3>1 DEF OneChain
  <2>2. CASE phase # "idle"
    <3>1. phase' = "connect"
      BY <1>1, <2>2
    <3>2. PICK c \in Block : W \subseteq Confirmed[c]
      BY DEF Inv, OneChain
    <3>3. V \subseteq Confirmed[c]
      BY <1>5, <3>2
    <3> QED BY <3>1, <3>3 DEF OneChain
  <2> QED BY <2>1, <2>2
<1>10. phase' \in {"idle", "connect"} /\ (phase' = "idle" => phase = "idle")
  BY <1>1
<1>11. ToSet(vHashUpdate') = {} /\ vHashUpdate' = <<>> /\ InOrder(vHashUpdate')
  BY <1>1, <1>3, NoneInOrder
<1> QED BY <1>1, <1>3, <1>5, <1>7, <1>8, <1>9, <1>10, <1>11 DEF Inv

LEMMA DisconnectInv ==
    ASSUME Inv, DisconnectTip
    PROVE  Inv'
<1> DEFINE queue == disconnectpool \o Reverse(Vtx[tip])
           n == Len(queue)
           excess == IF n > MaxDisconnected THEN n - MaxDisconnected ELSE 0
           dropped == SubSeq(queue, 1, excess)
           W == ToSet(disconnectpool)
           V == ToSet(disconnectpool')
           X == ToSet(dropped)
           B == ToSet(Vtx[tip])
<1>1. /\ phase \in {"idle", "disconnect"} /\ tip # Genesis
      /\ disconnectpool' = SubSeq(queue, excess + 1, n)
      /\ pool' = RecursiveTurns(pool, dropped)[excess]
      /\ tip' = Parent[tip] /\ phase' = "disconnect" /\ vHashUpdate' = vHashUpdate
  BY DEF DisconnectTip
<1>2. tip \in Block /\ Parent[tip] \in Block /\ disconnectpool \in Seq(Tx) /\ Injective(disconnectpool)
  BY <1>1, ParentBlock DEF Inv
<1>3. vHashUpdate = <<>> /\ ToSet(vHashUpdate) = {} /\ vHashUpdate \in Seq(Tx)
  BY <1>1, QueueFacts DEF Inv
<1>4. PoolRight(pool, {}, W, tip)
  BY <1>3 DEF Inv
<1>5. B \subseteq Confirmed[tip]
  BY <1>2, ConfirmedStep
<1>6. queue \in Seq(Tx) /\ Injective(queue) /\ ToSet(queue) = W \cup B
  <2>1. W \cap B = {}
    BY <1>4, <1>5 DEF PoolRight, Apart
  <2> QED BY <1>2, <2>1, QueueGrown
<1> HIDE DEF queue
<1>7. n \in Nat /\ excess \in 0..n
  <2>1. n \in Nat
    BY <1>6, QueueFacts
  <2>2. MaxDisconnected \in Nat
    BY MempoolAssumption
  <2> HIDE DEF n
  <2> QED BY <2>1, <2>2
<1> HIDE DEF excess
<1>8. /\ dropped \in Seq(Tx) /\ Len(dropped) = excess
      /\ disconnectpool' \in Seq(Tx) /\ Injective(disconnectpool') /\ V \cup X = W \cup B
  BY <1>1, <1>6, <1>7, QueueSplit
<1> HIDE DEF dropped
<1>9. Sound(pool', {}) /\ Pruned(pool, pool') /\ \A t \in X : \A u \in pool'.tx : t \notin From(u)
  <2>1. Sound(pool, {})
    BY <1>4 DEF PoolRight
  <2>2. pool' = RecursiveTurns(pool, dropped)[Len(dropped)]
    BY <1>1, <1>8
  <2> QED BY <1>8, <2>1, <2>2, RecursivelyDropped
<1>10. PoolRight(pool', {}, V, Parent[tip])
  BY <1>1, <1>2, <1>4, <1>8, <1>9, BlockDisconnected
<1>11. OneChain({}, V, Parent[tip], "disconnect")
  <2>1. PICK c \in Block : W \subseteq Confirmed[c] /\ tip \in Chain[c]
    BY <1>1 DEF Inv, OneChain
  <2>2. Confirmed[tip] \subseteq Confirmed[c] /\ Chain[tip] \subseteq Chain[c]
    BY <2>1, ConfirmedStep, ChainOfAncestor
  <2>3. Parent[tip] \in Chain[tip]
    BY <1>1, <1>2, ChainStep, ChainLeast
  <2>4. V \subseteq Confirmed[c] /\ Parent[tip] \in Chain[c]
    BY <1>5, <1>8, <2>1, <2>2, <2>3
  <2> QED BY <2>4 DEF OneChain
<1>12. /\ ToSet(vHashUpdate') = {} /\ vHashUpdate' = <<>> /\ vHashUpdate' \in Seq(Tx)
       /\ InOrder(vHashUpdate')
  BY <1>1, <1>3, NoneInOrder
<1> QED BY <1>1, <1>2, <1>8, <1>10, <1>11, <1>12 DEF Inv

LEMMA BeginInv ==
    ASSUME Inv, NEW fAdd \in BOOLEAN, BeginUpdate(fAdd)
    PROVE  Inv'
<1>1. /\ phase \in {"disconnect", "connect"} /\ phase' = "update" /\ vHashUpdate' = <<>>
      /\ pool' = pool /\ tip' = tip /\ disconnectpool' = disconnectpool
  BY DEF BeginUpdate
<1>2. vHashUpdate = <<>>
  BY <1>1 DEF Inv
<1>3. OneChain(ToSet(vHashUpdate), ToSet(disconnectpool), tip, "update")
  BY DEF Inv, OneChain
<1>4. vHashUpdate' = vHashUpdate
  BY <1>1, <1>2
<1> QED BY <1>1, <1>3, <1>4 DEF Inv

LEMMA UpdateNextInv ==
    ASSUME Inv, UpdateNext
    PROVE  Inv'
<1> DEFINE t == Last(disconnectpool)
           again == fAddToMempool /\ Acceptable(pool, t)
           H == ToSet(vHashUpdate)
           W == ToSet(disconnectpool)
           n == Len(disconnectpool)
<1>1. /\ phase = "update" /\ disconnectpool # <<>>
      /\ pool' = IF again THEN Accepted(pool, t) ELSE RemoveRecursive(pool, t)
      /\ vHashUpdate' = IF again THEN Append(vHashUpdate, t) ELSE vHashUpdate
      /\ disconnectpool' = Front(disconnectpool) /\ tip' = tip /\ phase' = phase
  BY DEF UpdateNext
<1>2. /\ tip \in Block /\ disconnectpool \in Seq(Tx) /\ Injective(disconnectpool)
      /\ vHashUpdate \in Seq(Tx) /\ PoolRight(pool, H, W, tip)
  BY DEF Inv
<1>3. PICK c \in Block : H \cup W \subseteq Confirmed[c]
  BY DEF Inv, OneChain
<1>4. n \in Nat /\ n # 0 /\ n - 1 \in 0..n /\ n \in 1..n /\ (n - 1) + 1 = n
  <2>1. n \in Nat /\ n # 0
    BY <1>1, <1>2, QueueFacts, EmptySeq
  <2> QED BY <2>1
<1>5. /\ disconnectpool' \in Seq(Tx) /\ Injective(disconnectpool') /\ ToSet(disconnectpool') = W \ {t}
      /\ t \in W /\ t \in Tx
  <2> DEFINE a == SubSeq(disconnectpool, 1, n - 1)
             b == SubSeq(disconnectpool, n, n)
  <2>1. /\ a \in Seq(Tx) /\ Injective(a) /\ ToSet(a) \cup ToSet(b) = W /\ ToSet(a) \cap ToSet(b) = {}
        /\ b \in Seq(Tx)
    BY <1>2, <1>4, QueueSplit
  <2>2. disconnectpool' = a
    BY <1>1 DEF Front
  <2>3. t = disconnectpool[n] /\ t \in Tx
    BY <1>2, <1>4, ElementOfSeq DEF Last
  <2>4. ToSet(b) = {t}
    <3>1. \A i \in n..n : disconnectpool[i] \in Tx
      BY <1>2, <1>4, ElementOfSeq
    <3>2. Len(b) = (IF n <= n THEN n - n + 1 ELSE 0) /\ \A i \in 1..(n - n + 1) : b[i] = disconnectpool[n + i - 1]
      BY <1>4, <3>1, SubSeqProperties
    <3>3. Len(b) = 1 /\ b[1] = disconnectpool[n]
      <4> HIDE DEF b
      <4>1. 1 \in 1..(n - n + 1) /\ n + 1 - 1 = n /\ n - n + 1 = 1
        BY <1>4
      <4> QED BY <3>2, <4>1
    <3>4. ToSet(b) = {b[i] : i \in 1..1}
      BY <2>1, <3>3, QueueFacts
    <3> HIDE DEF b, t
    <3>5. 1..1 = {1}
      OBVIOUS
    <3> QED BY <2>3, <3>3, <3>4, <3>5
  <2> HIDE DEF a, b, t
  <2> QED BY <2>1, <2>2, <2>3, <2>4
<1> HIDE DEF t
<1>6. CASE again
  <2>1. PoolRight(pool', H \cup {t}, W \ {t}, tip)
    BY <1>1, <1>2, <1>3, <1>5, <1>6, AcceptedAgain
  <2>2. vHashUpdate' \in Seq(Tx) /\ ToSet(vHashUpdate') = H \cup {t} /\ InOrder(vHashUpdate')
    <3> DEFINE r == Append(vHashUpdate, t)
               k == Len(vHashUpdate)
    <3>1. /\ r \in Seq(Tx) /\ k \in Nat /\ Len(r) = k + 1 /\ (\A i \in 1..k : r[i] = vHashUpdate[i])
          /\ r[k + 1] = t
      BY <1>2, <1>5, AppendProperties, LenProperties
    <3> HIDE DEF r, k
    <3>2. ToSet(r) = {r[i] : i \in 1..(k + 1)}
      BY <3>1, QueueFacts
    <3>3. H = {vHashUpdate[i] : i \in 1..k}
      BY <1>2, QueueFacts DEF k
    <3>4. 1..(k + 1) = 1..k \cup {k + 1}
      BY <3>1
    <3>5. ToSet(r) = H \cup {t}
      BY <3>1, <3>2, <3>3, <3>4
    <3>6. \A i \in 1..(k + 1) : i \in 1..k \/ i = k + 1
      BY <3>4
    <3>7. t \notin H /\ t \notin From(t) /\ \A u \in H : t \notin From(u)
      <4>1. t \notin From(t)
        BY <1>2, <1>5, <1>6, AcceptableFacts
      <4> QED BY <1>2, <1>5, <4>1 DEF PoolRight, Apart, Ordered
    <3>8. \A i \in 1..k : vHashUpdate[i] \in H /\ i < k + 1
      BY <3>1, <3>3
    <3>9. /\ DOMAIN r = 1..(k + 1)
          /\ \A i, j \in 1..k : vHashUpdate[i] = vHashUpdate[j] => i = j
          /\ \A i, j \in 1..k : vHashUpdate[j] \in From(vHashUpdate[i]) => j < i
      <4>1. DOMAIN r = 1..(k + 1)
        BY <3>1, QueueFacts
      <4>2. DOMAIN vHashUpdate = 1..k /\ InOrder(vHashUpdate)
        BY <1>2, QueueFacts DEF Inv, k
      <4> QED BY <4>1, <4>2 DEF InOrder, Injective
    <3>10. ASSUME NEW i \in 1..(k + 1), NEW j \in 1..(k + 1)
           PROVE  (r[i] = r[j] => i = j) /\ (r[j] \in From(r[i]) => j < i)
      <4>1. CASE i \in 1..k /\ j \in 1..k
        BY <3>1, <3>9, <4>1
      <4>2. CASE i \in 1..k /\ j = k + 1
        BY <3>1, <3>7, <3>8, <4>2
      <4>3. CASE i = k + 1 /\ j \in 1..k
        BY <3>1, <3>7, <3>8, <4>3
      <4>4. CASE i = k + 1 /\ j = k + 1
        BY <3>1, <3>7, <4>4
      <4> QED BY <3>6, <4>1, <4>2, <4>3, <4>4
    <3>11. InOrder(r)
      BY <3>9, <3>10 DEF InOrder, Injective
    <3> QED BY <1>1, <1>6, <3>1, <3>5, <3>11 DEF r
  <2>3. OneChain(H \cup {t}, W \ {t}, tip, "update")
    BY <1>3, <1>5 DEF OneChain
  <2> HIDE DEF again, H, W
  <2> QED BY <1>1, <1>2, <1>5, <2>1, <2>2, <2>3 DEF Inv
<1>7. CASE ~again
  <2>1. PoolRight(pool', H, W \ {t}, tip)
    BY <1>1, <1>2, <1>5, <1>7, DroppedAgain
  <2>2. vHashUpdate' = vHashUpdate
    BY <1>1, <1>7
  <2>3. OneChain(H, W \ {t}, tip, "update")
    BY <1>3 DEF OneChain
  <2> QED BY <1>1, <1>2, <1>5, <2>1, <2>2, <2>3 DEF Inv
<1> QED BY <1>6, <1>7

LEMMA EndInv ==
    ASSUME Inv, EndUpdate
    PROVE  Inv'
<1> DEFINE p == UpdateTransactionsFromBlock(pool)
           r == RemoveForReorg(p)
<1>1. /\ disconnectpool = <<>> /\ pool' \in LimitMempoolSize(r)
      /\ phase' = "idle" /\ vHashUpdate' = <<>> /\ tip' = tip /\ disconnectpool' = disconnectpool
  BY DEF EndUpdate
<1>2. tip \in Block /\ <<>> \in Seq(Tx) /\ Injective(<<>>) /\ ToSet(<<>>) = {}
  BY <1>1, QueueFacts DEF Inv
<1>3. /\ PoolRight(pool, ToSet(vHashUpdate), {}, tip) /\ vHashUpdate \in Seq(Tx)
      /\ InOrder(vHashUpdate)
  BY <1>1, <1>2 DEF Inv
<1>4. p.tx = pool.tx /\ Kept(pool, p) /\ Sound(p, {})
  BY <1>3, AllLinked DEF PoolRight, Ordered
<1>5. Funded(p, {}, tip) /\ Apart(p, {}, tip) /\ Known(p)
  BY <1>3, <1>4 DEF PoolRight, Funded, Apart, Known, Kept
<1> HIDE DEF p
<1>6. Sound(r, {}) /\ Pruned(p, r) /\ Ripe(tip, r)
  BY <1>4, ReorgRemoved
<1>7. Funded(r, {}, tip) /\ Apart(r, {}, tip) /\ Known(r)
  BY <1>2, <1>5, <1>6, PoolPruned
<1> HIDE DEF r
<1>8. Sound(pool', {}) /\ Pruned(r, pool')
  BY <1>1, <1>6, Limited
<1>9. Funded(pool', {}, tip) /\ Apart(pool', {}, tip) /\ Known(pool')
  BY <1>2, <1>7, <1>8, PoolPruned
<1>10. Ripe(tip, pool')
  BY <1>6, <1>8 DEF Ripe, Pruned, From
<1>11. Ordered(pool', {}, {})
  BY DEF Ordered
<1>12. PoolRight(pool', {}, {}, tip)
  BY <1>8, <1>9, <1>11 DEF PoolRight
<1>13. OneChain({}, {}, tip, "idle")
  BY <1>2, ChainLeast DEF OneChain
<1>14. vHashUpdate' = <<>> /\ disconnectpool' = <<>> /\ phase' = "idle" /\ tip' = tip
  BY <1>1
<1> QED BY <1>2, <1>10, <1>12, <1>13, <1>14, NoneInOrder DEF Inv

LEMMA InitInv == Init => Inv
<1> SUFFICES ASSUME Init PROVE Inv
  OBVIOUS
<1>1. /\ pool = EmptyPool /\ tip = Genesis /\ disconnectpool = <<>> /\ phase = "idle"
      /\ vHashUpdate = <<>> /\ Genesis \in Block
  BY TreeAssumption DEF Init
<1>2. <<>> \in Seq(Tx) /\ ToSet(<<>>) = {} /\ Injective(<<>>)
  <2>1. <<>> \in Seq(Tx) /\ DOMAIN <<>> = {}
    BY EmptySeq
  <2> QED BY <2>1, QueueFacts DEF Injective
<1>3. pool \in Pools
  <2> DEFINE z == [t \in Tx |-> 0]
             y == [t \in Tx |-> Nothing]
             e == [t \in Tx |-> {}]
             x == [o \in Outpoint |-> NoTx]
  <2>1. z \in [Tx -> Int] /\ y \in [Tx -> Totals] /\ e \in [Tx -> SUBSET Tx]
        /\ x \in [Outpoint -> Tx \cup {NoTx}]
    BY DEF Nothing, Totals
  <2>2. pool = [tx |-> {}, delta |-> z, anc |-> y, desc |-> y, parents |-> e, children |-> e,
                next |-> x, size |-> 0, mapDeltas |-> z]
    BY <1>1 DEF EmptyPool
  <2> HIDE DEF z, y, e, x
  <2> QED BY <2>1, <2>2 DEF Pools
<1>4. /\ pool.tx = {} /\ (\A t \in Tx : pool.parents[t] = {} /\ pool.children[t] = {})
      /\ \A o \in Outpoint : pool.next[o] = NoTx
  BY <1>1 DEF EmptyPool
<1>5. LinksSound(pool)
  BY <1>4, MempoolAssumption DEF LinksSound
<1>6. Sound(pool, {})
  <2>1. Summed(pool)
    <3>1. pool.size = 0
      BY <1>1 DEF EmptyPool
    <3>2. SizeOf({}) = 0
      BY <1>3, TotalEmpty, PoolFields
    <3> QED BY <1>4, <3>1, <3>2 DEF Summed
  <2> QED BY <1>3, <1>4, <1>5, <2>1 DEF Sound
<1>7. /\ Known(pool) /\ Funded(pool, {}, tip) /\ Apart(pool, {}, tip) /\ Ordered(pool, {}, {})
      /\ Ripe(tip, pool)
  BY <1>4 DEF Known, Funded, Apart, Ordered, Ripe
<1>8. PoolRight(pool, {}, {}, tip)
  BY <1>6, <1>7 DEF PoolRight
<1>9. OneChain({}, {}, tip, phase)
  BY <1>1, ChainLeast DEF OneChain
<1> QED BY <1>1, <1>2, <1>7, <1>8, <1>9, NoneInOrder DEF Inv

LEMMA NextInv == Inv /\ [Next]_vars => Inv'
<1> SUFFICES ASSUME Inv, [Next]_vars PROVE Inv'
  OBVIOUS
<1>1. ASSUME NEW t \in Tx, AcceptToMemoryPool(t) PROVE Inv'
  BY <1>1, AcceptInv
<1>2. ASSUME NEW t \in Tx, GrowOld(t) PROVE Inv'
  BY <1>2 DEF GrowOld, reorgVars, Inv
<1>3. ASSUME NEW t \in Tx \ Coinbase, NEW d \in Deltas \cup {0 - e : e \in Deltas},
             PrioritiseTransaction(t, d)
      PROVE  Inv'
  <2>0. Deltas \subseteq Int
    BY MempoolAssumption
  <2>1. d \in Int
    BY <2>0
  <2> QED BY <1>3, <2>1, PrioritiseInv
<1>4. CASE DisconnectTip
  BY <1>4, DisconnectInv
<1>5. CASE UpdateNext
  BY <1>5, UpdateNextInv
<1>6. CASE EndUpdate
  BY <1>6, EndInv
<1>7. ASSUME NEW b \in Block, ConnectTip(b) PROVE Inv'
  BY <1>7, ConnectInv
<1>8. ASSUME NEW fAdd \in BOOLEAN, BeginUpdate(fAdd) PROVE Inv'
  BY <1>8, BeginInv
<1>9. CASE UNCHANGED vars
  BY <1>9 DEF vars, reorgVars, Inv
<1> QED BY <1>1, <1>2, <1>3, <1>4, <1>5, <1>6, <1>7, <1>8, <1>9 DEF Next

(* The invariant holds in every reachable state: mapLinks and mapNextTx    *)
(* are right up to the links that UpdateTransactionsFromBlock has still to *)
(* make, inputs are available, and what a reorganisation puts back comes   *)
(* from one chain.                                                         *)
THEOREM InvHolds == Spec => []Inv
BY InitInv, NextInv, PTL DEF Spec

(* CTxMemPool::check of the indexes. *)
THEOREM IndexesCorrect == Spec => []IndexesRight
<1>1. Inv => IndexesRight
  <2> SUFFICES ASSUME Inv PROVE IndexesRight
    OBVIOUS
  <2> DEFINE H == ToSet(vHashUpdate)
  <2>1. Sound(pool, H) /\ pool \in Pools /\ LinksSound(pool)
    BY DEF Inv, PoolRight, Sound
  <2>2. pool.tx \subseteq Tx /\ pool.parents \in [Tx -> SUBSET Tx] /\ pool.children \in [Tx -> SUBSET Tx]
    BY <2>1, PoolFields
  <2>3. /\ \A o \in Outpoint, t \in Tx : pool.next[o] = t <=> t \in pool.tx /\ o \in Spends(t)
        /\ \A t, u \in Tx : u \in pool.parents[t] => t \in pool.tx /\ u \in From(t) \cap pool.tx
        /\ \A t, u \in Tx : u \in pool.parents[t] <=> t \in pool.children[u]
    BY <2>1 DEF LinksSound
  <2>4. ASSUME NEW t \in Tx \ pool.tx
        PROVE  /\ pool.parents[t] = {} /\ pool.children[t] = {}
               /\ \A u \in pool.tx : t \notin pool.parents[u] \cup pool.children[u]
    BY <2>2, <2>3
  <2>5. ASSUME phase = "idle"
        PROVE  /\ disconnectpool = <<>> /\ vHashUpdate = <<>>
               /\ \A t \in pool.tx :
                     /\ pool.parents[t] = InPoolParents(pool, t)
                     /\ pool.children[t] = {u \in pool.tx : t \in InPoolParents(pool, u)}
    <3>1. disconnectpool = <<>> /\ vHashUpdate = <<>>
      BY <2>5 DEF Inv
    <3>2. PoolRight(pool, {}, {}, tip)
      BY <2>5, IdleFacts
    <3>3. \A t \in pool.tx : \A u \in From(t) \cap pool.tx : u \in pool.parents[t]
      BY <3>2 DEF PoolRight, Sound
    <3>4. \A t \in Tx : InPoolParents(pool, t) = From(t) \cap pool.tx
      BY DEF InPoolParents, From
    <3>5. ASSUME NEW t \in pool.tx PROVE pool.parents[t] = InPoolParents(pool, t)
      <4>1. t \in Tx /\ pool.parents[t] \subseteq Tx
        BY <2>2
      <4>2. \A u \in pool.parents[t] : u \in From(t) \cap pool.tx
        BY <2>3, <4>1
      <4>3. \A u \in From(t) \cap pool.tx : u \in pool.parents[t]
        BY <3>3
      <4>4. pool.parents[t] = From(t) \cap pool.tx
        BY <4>2, <4>3
      <4> QED BY <3>4, <4>1, <4>4
    <3>6. ASSUME NEW t \in pool.tx
          PROVE  pool.children[t] = {u \in pool.tx : t \in InPoolParents(pool, u)}
      <4>1. pool.children[t] \subseteq Tx
        BY <2>2
      <4>2. \A u \in Tx : u \in pool.children[t] <=> t \in pool.parents[u]
        BY <2>2, <2>3
      <4>3. \A u \in Tx : t \in pool.parents[u] => u \in pool.tx
        BY <2>2, <2>3
      <4>4. \A u \in pool.tx : pool.parents[u] = InPoolParents(pool, u)
        BY <3>5
      <4> QED BY <2>2, <4>1, <4>2, <4>3, <4>4
    <3> QED BY <3>1, <3>5, <3>6
  <2> QED BY <2>3, <2>4, <2>5 DEF IndexesRight
<1> QED BY <1>1, InvHolds, PTL

(* CTxMemPool::check of the coins. *)
THEOREM InputsCorrect == Spec => []InputsAvailable
<1>1. Inv => InputsAvailable
  <2> SUFFICES ASSUME Inv, NEW t \in pool.tx
               PROVE  /\ t \notin Confirmed[tip]
                      /\ \A o \in Spends(t) :
                             \/ o[1] \in pool.tx \cup ToSet(disconnectpool)
                             \/ o \in Utxo[tip] /\ (phase = "idle" => ~Immature(o))
                      /\ phase = "idle" => Final(t)
    BY DEF InputsAvailable
  <2>1. t \notin Confirmed[tip]
    BY DEF Inv, PoolRight, Apart
  <2>2. ASSUME phase = "idle"
        PROVE  Final(t) /\ \A o \in Spends(t) : o[1] \in pool.tx \/ ~Immature(o)
    BY <2>2 DEF Inv, Ripe, ImmatureOn, Immature, CoinHeight, Final
  <2>3. \A o \in Spends(t) : o[1] \in pool.tx \cup ToSet(disconnectpool) \/ o \in Utxo[tip]
    BY DEF Inv, PoolRight, Funded
  <2> QED BY <2>1, <2>2, <2>3
<1> QED BY <1>1, InvHolds, PTL

(* The size of the pool and the totals of ancestors and descendants of     *)
(* every entry are the sums over what mapLinks reaches, also between the   *)
(* steps of a reorganisation.  UpdateForRemoveFromMempool needs it: what   *)
(* it subtracts was counted.                                               *)
THEOREM TotalsCorrect == Spec => []TotalsFollowLinks
<1>1. Inv => TotalsFollowLinks
  <2> SUFFICES ASSUME Inv PROVE TotalsFollowLinks
    OBVIOUS
  <2>1. pool \in Pools /\ Summed(pool)
    BY DEF Inv, PoolRight, Sound
  <2>2. pool.tx \subseteq Tx /\ pool.parents \in [Tx -> SUBSET Tx] /\ pool.children \in [Tx -> SUBSET Tx]
    BY <2>1, PoolFields
  <2>3. ASSUME NEW t \in pool.tx
        PROVE  /\ Descendants(pool, t) \cup {t} = Reach(pool.children, {t})
               /\ Ancestors(pool, t) \cup {t} = Reach(pool.parents, {t})
    <3>1. t \in Reach(pool.children, {t}) /\ t \in Reach(pool.parents, {t})
      BY <2>2, ReachFirst
    <3> QED BY <3>1 DEF Descendants, CalculateDescendants, Ancestors
  <2> QED BY <2>1, <2>3 DEF Summed, TotalsFollowLinks
<1> QED BY <1>1, InvHolds, PTL

(* What a step must add to the fees when it replaces entries. *)
PaysForRelay ==
    \A t \in pool'.tx \ pool.tx :
        /\ phase = "idle" /\ phase' = "idle"
        /\ ~ pool.tx \subseteq pool'.tx
        /\ old = {} /\ SizeOf(pool.tx \cup {t}) <= MaxSize
        => FeesOf(pool', pool'.tx) >= FeesOf(pool, pool.tx) + IncrementalFee * Size[t]

LEMMA AcceptedTx ==
    ASSUME NEW p, Sound(p, {}), NEW t \in Tx, Conflicts(p, t) \subseteq p.tx
    PROVE  LET R == AllConflicting(p, t)
               q == Accepted(p, t)
           IN  /\ R \subseteq p.tx /\ (R # {} => Conflicts(p, t) # {})
               /\ q.tx = (p.tx \ R) \cup {t}
<1> DEFINE R == AllConflicting(p, t)
           A == SearchedAncestors(p, t)
           r == RemoveStaged(p, R, FALSE)
           C == Conflicts(p, t)
<1>1. p \in Pools /\ p.tx \subseteq Tx /\ p.parents \in [Tx -> SUBSET Tx] /\ p.children \in [Tx -> SUBSET Tx]
  BY PoolFields DEF Sound
<1>2. R = CalculateDescendants(p, C) /\ C \in SUBSET p.tx
  BY DEF AllConflicting
<1> HIDE DEF C, R
<1>3. R \subseteq p.tx
  BY <1>2, DescendantsClosed
<1>4. ASSUME C = {} PROVE R = {}
  <2>1. ClosedUnder(p.children, {}) /\ {} \in SUBSET Tx
    BY DEF ClosedUnder
  <2>2. Reach(p.children, {}) \subseteq {}
    BY <1>1, <2>1, ReachFacts
  <2> QED BY <1>2, <1>4, <2>2 DEF CalculateDescendants
<1>5. A \in SUBSET Tx
  <2>1. InPoolParents(p, t) \in SUBSET Tx
    BY <1>1 DEF InPoolParents
  <2> QED BY <1>1, <2>1, ReachFacts DEF SearchedAncestors
<1>6. Accepted(p, t) = AddUnchecked(r, t, A)
  BY DEF Accepted, R
<1> HIDE DEF A
<1>7. Without(p, R, r)
  BY <1>1, <1>3, Removed
<1> HIDE DEF r
<1>8. r \in Pools /\ r.tx = p.tx \ R
  BY <1>7 DEF Without
<1>9. With(r, t, AddUnchecked(r, t, A))
  BY <1>5, <1>8, Added
<1>10. AddUnchecked(r, t, A).tx = r.tx \cup {t}
  BY <1>9 DEF With
<1> QED BY <1>3, <1>4, <1>6, <1>8, <1>10 DEF C, R

LEMMA AcceptPays ==
    ASSUME Inv, NEW t \in Tx, AcceptToMemoryPool(t)
    PROVE  PaysForRelay
<1> DEFINE p == Accepted(pool, t)
           R == AllConflicting(pool, t)
           X == pool.tx \ R
           fee == Fee[t] + pool.mapDeltas[t]
<1>1. phase = "idle" /\ Acceptable(pool, t) /\ pool' \in LimitMempoolSize(p)
  BY DEF AcceptToMemoryPool
<1>2. tip \in Block /\ PoolRight(pool, {}, {}, tip) /\ Ripe(tip, pool)
  BY <1>1, IdleFacts
<1>3. /\ t \notin pool.tx \cup Coinbase \cup From(t) /\ Conflicts(pool, t) \subseteq pool.tx
      /\ Conflicts(pool, t) \cap SearchedAncestors(pool, t) = {}
  BY <1>1, <1>2, AcceptableFacts
<1>4. Sound(pool, {}) /\ pool \in Pools /\ pool.tx \subseteq Tx /\ pool.delta \in [Tx -> Int]
      /\ pool.mapDeltas \in [Tx -> Int]
  BY <1>2, PoolFields DEF PoolRight, Sound
<1>5. R \subseteq pool.tx /\ (R # {} => Conflicts(pool, t) # {}) /\ p.tx = X \cup {t}
  BY <1>3, <1>4, AcceptedTx
<1>6. Sound(p, {}) /\ Known(p)
  BY <1>1, <1>2, AcceptedIdle
<1>7. p.delta[t] = pool.mapDeltas[t] /\ Kept(pool, p)
  <2>1. Grown(pool, t, p)
    BY <1>1, <1>2, AcceptedIdle
  <2> HIDE DEF p
  <2> QED BY <2>1 DEF Grown
<1>8. /\ Sound(pool', {}) /\ Pruned(p, pool')
      /\ old = {} /\ p.size <= MaxSize => pool'.tx = p.tx
  BY <1>1, <1>6, Limited
<1>9. p.size = SizeOf(p.tx)
  BY <1>6 DEF Sound, Summed
<1>10. R # {} => /\ fee - FeesOf(pool, R) >= IncrementalFee * Size[t]
  BY <1>1, <1>5 DEF Acceptable, MayReplace
<1>11. pool'.delta \in [Tx -> Int]
  BY <1>8, PoolFields DEF Sound
<1> HIDE DEF p, R
<1> SUFFICES ASSUME NEW u \in pool'.tx \ pool.tx, ~ pool.tx \subseteq pool'.tx,
                    old = {}, SizeOf(pool.tx \cup {u}) <= MaxSize
             PROVE  FeesOf(pool', pool'.tx) >= FeesOf(pool, pool.tx) + IncrementalFee * Size[u]
  BY DEF PaysForRelay
<1>12. u = t /\ X \cup {t} \subseteq pool.tx \cup {t} /\ pool.tx \cup {t} \in SUBSET Tx
  BY <1>4, <1>5, <1>8 DEF Pruned
<1>13. p.size <= MaxSize
  <2>1. SizeOf(X \cup {t}) <= SizeOf(pool.tx \cup {t}) /\ SizeOf(X \cup {t}) \in Int
        /\ SizeOf(pool.tx \cup {t}) \in Int
    <3> HIDE DEF X
    <3> QED BY <1>12, SizeWithin
  <2> QED BY <1>5, <1>9, <1>12, <2>1, LimitsAssumption
<1>14. pool'.tx = X \cup {t} /\ R # {}
  <2>1. pool'.tx = X \cup {t}
    BY <1>5, <1>8, <1>13
  <2> QED BY <2>1
<1>15. \A y \in X : pool'.delta[y] = pool.delta[y]
  BY <1>5, <1>7, <1>8, <1>14 DEF Pruned, Kept
<1>16. pool'.delta[t] = pool.mapDeltas[t]
  BY <1>5, <1>7, <1>8, <1>14 DEF Pruned, Kept
<1>17. /\ X \in SUBSET Tx /\ R \in SUBSET Tx /\ {t} \in SUBSET Tx
       /\ X \cap R = {} /\ X \cup R = pool.tx /\ X \cap {t} = {}
  BY <1>3, <1>4, <1>5
<1> HIDE DEF X
<1>18. FeesOf(pool, pool.tx) = FeesOf(pool, X) + FeesOf(pool, R)
  BY <1>4, <1>17, FeesUnion
<1>19. FeesOf(pool', pool'.tx) = FeesOf(pool', X) + FeesOf(pool', {t})
  BY <1>11, <1>14, <1>17, FeesUnion
<1>20. FeesOf(pool', X) = FeesOf(pool, X)
  BY <1>4, <1>11, <1>15, <1>17, FeesSame
<1>21. FeesOf(pool', {t}) = fee
  BY <1>11, <1>16, FeesOne DEF GetModifiedFee
<1>22. /\ FeesOf(pool, X) \in Int /\ FeesOf(pool, R) \in Int /\ fee \in Int
       /\ IncrementalFee * Size[t] \in Int
  <2>1. FeesOf(pool, X) \in Int /\ FeesOf(pool, R) \in Int
    BY <1>4, <1>17, FeesSum
  <2>2. Fee[t] \in Int /\ pool.mapDeltas[t] \in Int /\ Size[t] \in Nat /\ IncrementalFee \in Nat
    BY <1>4, MempoolAssumption, LimitsAssumption
  <2> QED BY <2>1, <2>2
<1> HIDE DEF fee
<1> DEFINE price == IncrementalFee * Size[t]
<1>23. price \in Int /\ fee - FeesOf(pool, R) >= price
  BY <1>10, <1>14, <1>22
<1> HIDE DEF price
<1>24. FeesOf(pool', pool'.tx) >= FeesOf(pool, pool.tx) + price
  BY <1>18, <1>19, <1>20, <1>21, <1>22, <1>23
<1> QED BY <1>12, <1>24 DEF price

(* Only AcceptToMemoryPool replaces entries, and by the rules of BIP 125   *)
(* the pool then offers at least IncrementalFee per byte more.             *)
THEOREM ReplacementsPay == Spec => ReplacementPays
<1>1. Inv /\ [Next]_vars => [PaysForRelay]_vars
  <2> SUFFICES ASSUME Inv, Next PROVE PaysForRelay
    OBVIOUS
  <2>1. ASSUME NEW t \in Tx, AcceptToMemoryPool(t) PROVE PaysForRelay
    BY <2>1, AcceptPays
  <2>2. ASSUME NEW t \in Tx, GrowOld(t) PROVE PaysForRelay
    BY <2>2 DEF GrowOld, PaysForRelay
  <2>3. ASSUME NEW t \in Tx, NEW d \in Int, PrioritiseTransaction(t, d) PROVE PaysForRelay
    <3>1. pool \in Pools
      BY DEF Inv, PoolRight, Sound
    <3>2. pool'.tx = pool.tx
      BY <2>3, <3>1, Prioritised DEF SameLinks
    <3> QED BY <3>2 DEF PaysForRelay
  <2>4. CASE DisconnectTip \/ UpdateNext \/ EndUpdate
    BY <2>4 DEF DisconnectTip, UpdateNext, EndUpdate, PaysForRelay
  <2>5. ASSUME NEW b \in Block, ConnectTip(b) PROVE PaysForRelay
    <3>1. pool'.tx \subseteq pool.tx
      BY <2>5, TipRemoved DEF AfterBlock
    <3> QED BY <3>1 DEF PaysForRelay
  <2>6. ASSUME NEW fAdd \in BOOLEAN, BeginUpdate(fAdd) PROVE PaysForRelay
    BY <2>6 DEF BeginUpdate, PaysForRelay
  <2>7. \A d \in Deltas \cup {0 - e : e \in Deltas} : d \in Int
    <3>1. Deltas \subseteq Int
      BY MempoolAssumption
    <3> QED BY <3>1
  <2> QED BY <2>1, <2>2, <2>3, <2>4, <2>5, <2>6, <2>7 DEF Next
<1> QED BY <1>1, InvHolds, PTL DEF Spec, ReplacementPays, PaysForRelay
=============================================================================
