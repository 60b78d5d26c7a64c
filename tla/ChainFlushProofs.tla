-------------------------- MODULE ChainFlushProofs --------------------------
(***************************************************************************)
(* The UTXO set over any sequence of connections, disconnections, flushes, *)
(* crashes and restarts, for any tree of blocks and any transactions.      *)
(*                                                                         *)
(* The argument rests on two facts about a block that ConnectBlock has     *)
(* accepted.  Applying it gives every outpoint it touches the value that   *)
(* the outpoint has in the UTXO set of the block, and undoing it the value *)
(* in the UTXO set of its parent, whatever was there before; the others    *)
(* stay.  So rolling a half-written database back along one branch and     *)
(* forward along the other ends in one well-defined state.                 *)
(***************************************************************************)
EXTENDS ChainFlush, BlockTreeProofs

-----------------------------------------------------------------------------
(* Transactions, outpoints and coins. *)

LEMMA TxFacts ==
    ASSUME NEW b \in Block
    PROVE  /\ Len(Vtx[b]) \in Nat /\ Len(Vtx[b]) >= 1 /\ DOMAIN Vtx[b] = 1..Len(Vtx[b])
           /\ \A i \in 1..Len(Vtx[b]) : Vtx[b][i] \in DOMAIN Vin
           /\ Txs[b] = {Vtx[b][i] : i \in 1..Len(Vtx[b])}
<1>1. Vtx[b] \in Seq(DOMAIN Vin) /\ Vtx[b] # <<>>
  BY TxAssumption
<1>2. /\ Len(Vtx[b]) \in Nat /\ DOMAIN Vtx[b] = 1..Len(Vtx[b])
      /\ \A i \in 1..Len(Vtx[b]) : Vtx[b][i] \in DOMAIN Vin
  BY <1>1
<1>3. Len(Vtx[b]) >= 1
  BY <1>1, <1>2
<1> QED BY <1>2, <1>3 DEF Txs, ToSet

LEMMA InputFacts ==
    ASSUME NEW t \in DOMAIN Vin
    PROVE  /\ Len(Vin[t]) \in Nat /\ DOMAIN Vin[t] = 1..Len(Vin[t])
           /\ \A j \in 1..Len(Vin[t]) : Vin[t][j] \in Outpoints
           /\ \A i, j \in 1..Len(Vin[t]) : Vin[t][i] = Vin[t][j] => i = j
           /\ Inputs[t] = {Vin[t][j] : j \in 1..Len(Vin[t])} /\ Inputs[t] \subseteq Outpoints
<1>1. Outpoints = UNION {{<<s, n>> : n \in 1..NOut[s]} : s \in DOMAIN Vin}
  BY DEF Outpoints, Outputs
<1>2. Vin[t] \in Seq(Outpoints) /\ \A i, j \in DOMAIN Vin[t] : Vin[t][i] = Vin[t][j] => i = j
  BY <1>1, TxAssumption
<1>3. Inputs[t] = {Vin[t][j] : j \in DOMAIN Vin[t]}
  BY DEF Inputs, ToSet
<1> QED BY <1>2, <1>3

LEMMA CoinbaseFacts ==
    ASSUME NEW b \in Block
    PROVE  Inputs[Vtx[b][1]] = {}
<1>1. Vtx[b][1] \in DOMAIN Vin /\ Vin[Vtx[b][1]] = <<>>
  BY TxFacts, TxAssumption
<1> QED BY <1>1 DEF Inputs, ToSet

CoinView == [Outpoints -> CoinType]

LEMMA CoinFacts ==
    /\ Spent \in CoinType /\ NoCoins \in CoinView
    /\ \A b \in Block : \A t : NewCoin(b, t) \in CoinType /\ NewCoin(b, t) # Spent
                           /\ NewCoin(b, t).height = Height[b]
<1>1. Spent \in CoinType
  BY DEF Spent, CoinType
<1>2. ASSUME NEW b \in Block, NEW t
      PROVE  NewCoin(b, t) \in CoinType /\ NewCoin(b, t).height = Height[b]
  BY HeightStep DEF NewCoin, CoinType, Coinbase
<1>3. ASSUME NEW b \in Block, NEW t PROVE NewCoin(b, t) # Spent
  <2>1. NewCoin(b, t).height \in Nat /\ Spent.height = -1
    BY <1>2, HeightStep DEF Spent
  <2> QED BY <2>1
<1> QED BY <1>1, <1>2, <1>3 DEF NoCoins, CoinView

(* A transaction is on a chain once. *)
LEMMA NoRepeat ==
    ASSUME NEW b \in Block, NEW a \in Chain[b], NEW i \in DOMAIN Vtx[a], NEW j \in DOMAIN Vtx[b],
           Vtx[a][i] = Vtx[b][j]
    PROVE  a = b /\ i = j
<1>1. \A d \in Block : \A c \in Chain[d] : \A k \in DOMAIN Vtx[c], l \in DOMAIN Vtx[d] :
          Vtx[c][k] = Vtx[d][l] => c = d /\ k = l
  BY TxAssumption, Zenon
<1> QED BY <1>1, Zenon

LEMMA TxOnce ==
    ASSUME NEW b \in Block, NEW a \in Chain[b], NEW c \in Chain[b], NEW t \in Txs[a], t \in Txs[c]
    PROVE  a = c
<1>1. a \in Block /\ c \in Block
  BY ChainLeast
<1>2. PICK i \in DOMAIN Vtx[a] : t = Vtx[a][i]
  BY <1>1, TxFacts
<1>3. PICK j \in DOMAIN Vtx[c] : t = Vtx[c][j]
  BY <1>1, TxFacts
<1>4. a \in Chain[c] \/ c \in Chain[a]
  BY ChainLinear
<1>5. CASE a \in Chain[c]
  BY <1>1, <1>2, <1>3, <1>5, NoRepeat
<1>6. CASE c \in Chain[a]
  BY <1>1, <1>2, <1>3, <1>6, NoRepeat
<1> QED BY <1>4, <1>5, <1>6

LEMMA TxOnceInBlock ==
    ASSUME NEW b \in Block, NEW i \in 1..Len(Vtx[b]), NEW j \in 1..Len(Vtx[b]), Vtx[b][i] = Vtx[b][j]
    PROVE  i = j
<1>1. b \in Chain[b] /\ DOMAIN Vtx[b] = 1..Len(Vtx[b])
  BY ChainLeast, TxFacts
<1> QED BY <1>1, NoRepeat

(* The chain below a block, for the genesis block too. *)
LEMMA ChainBelow ==
    ASSUME NEW b \in Block
    PROVE  /\ Parent[b] \in Block \cup {NoBlock}
           /\ Chain[b] = Chain[Parent[b]] \cup {b} /\ b \notin Chain[Parent[b]]
           /\ Chain[Parent[b]] \subseteq Block
<1>1. CASE b = Genesis
  <2>1. Parent[b] = NoBlock
    BY <1>1, TreeAssumption
  <2> QED BY <1>1, <2>1, ChainStep, ChainOfNone
<1>2. CASE b # Genesis
  BY <1>2, ParentBlock, ChainStep, NotOwnAncestor, ChainLeast
<1> QED BY <1>1, <1>2

-----------------------------------------------------------------------------
(* The UTXO set of a chain. *)

SpentOn(b, o) == \E a \in Chain[b] : \E t \in Txs[a] : o \in Inputs[t]

(* An outpoint whose transaction is on the chain. *)
LEMMA UtxoOf ==
    ASSUME NEW b \in Block, NEW a \in Chain[b], NEW o \in Outpoints, o[1] \in Txs[a]
    PROVE  UtxoAt[b][o] = IF SpentOn(b, o) THEN Spent ELSE NewCoin(a, o[1])
<1> DEFINE x == CHOOSE x \in Chain[b] : o[1] \in Txs[x]
<1>1. x \in Chain[b] /\ o[1] \in Txs[x]
  OBVIOUS
<1>2. x = a
  <2> HIDE DEF x
  <2> QED BY <1>1, TxOnce
<1>3. UtxoAt[b][o] = IF /\ \E y \in Chain[b] : o[1] \in Txs[y]
                        /\ \A y \in Chain[b] : \A t \in Txs[y] : o \notin Inputs[t]
                     THEN NewCoin(x, o[1]) ELSE Spent
  BY DEF UtxoAt
<1> QED BY <1>2, <1>3 DEF SpentOn

(* Any other. *)
LEMMA UtxoNone ==
    ASSUME NEW b \in Block \cup {NoBlock}, NEW o \in Outpoints,
           \A a \in Chain[b] : o[1] \notin Txs[a]
    PROVE  UtxoAt[b][o] = Spent
BY DEF UtxoAt

LEMMA UtxoType ==
    ASSUME NEW b \in Block \cup {NoBlock}
    PROVE  UtxoAt[b] \in CoinView
<1>1. UtxoAt[b] = [o \in Outpoints |-> UtxoAt[b][o]]
  BY DEF UtxoAt
<1>2. ASSUME NEW o \in Outpoints PROVE UtxoAt[b][o] \in CoinType
  <2>1. CASE \A a \in Chain[b] : o[1] \notin Txs[a]
    BY <2>1, UtxoNone, CoinFacts
  <2>2. CASE \E a \in Chain[b] : o[1] \in Txs[a]
    <3>1. PICK a \in Chain[b] : o[1] \in Txs[a]
      BY <2>2
    <3>2. b \in Block
      BY <3>1, ChainOfNone
    <3>3. a \in Block
      BY <3>2, ChainLeast
    <3> QED BY <3>1, <3>2, <3>3, UtxoOf, CoinFacts
  <2> QED BY <2>1, <2>2
<1> QED BY <1>1, <1>2 DEF CoinView

(* What an unspent coin of it is. *)
LEMMA UtxoCreated ==
    ASSUME NEW b \in Block \cup {NoBlock}, NEW o \in Outpoints, UtxoAt[b][o] # Spent
    PROVE  \E a \in Chain[b] : o[1] \in Txs[a] /\ UtxoAt[b][o] = NewCoin(a, o[1])
<1>1. PICK a \in Chain[b] : o[1] \in Txs[a]
  BY UtxoNone
<1>2. b \in Block
  BY <1>1, ChainOfNone
<1> QED BY <1>1, <1>2, UtxoOf

-----------------------------------------------------------------------------
(* Applying a block. *)

LEMMA AfterTxType ==
    ASSUME NEW c \in CoinView, NEW b \in Block, NEW t
    PROVE  AfterTx(c, b, t) \in CoinView
BY CoinFacts DEF AfterTx, CoinView

(* The loop over the transactions of b runs from c to the end. *)
LEMMA AfterTxsRuns ==
    ASSUME NEW b \in Block, NEW c \in CoinView
    PROVE  /\ AfterTxs(c, b) \in [0..Len(Vtx[b]) -> CoinView]
           /\ AfterTxs(c, b)[0] = c
           /\ \A n \in 1..Len(Vtx[b]) : AfterTxs(c, b)[n] = AfterTx(AfterTxs(c, b)[n - 1], b, Vtx[b][n])
<1> DEFINE N == Len(Vtx[b])
           Run(d) == d = [n \in 0..N |-> IF n = 0 THEN c ELSE AfterTx(d[n - 1], b, Vtx[b][n])]
           step == [n \in 1..N |-> [x \in CoinView |-> AfterTx(x, b, Vtx[b][n])]]
           after == AfterTxs(c, b)
<1>1. after = CHOOSE d : Run(d)
  BY DEF AfterTxs
<1>2. N \in Nat /\ Body(step, N, CoinView)
  BY TxFacts, AfterTxType DEF Body
<1>3. PICK f : RunUp(f, step, N, CoinView, c)
  <2> HIDE DEF N, step
  <2> QED BY <1>2, LoopRuns
<1>0. f \in [0..N -> CoinView] /\ f[0] = c /\ \A n \in 1..N : f[n] = step[n][f[n - 1]]
  <2> HIDE DEF N, step
  <2> QED BY <1>3 DEF RunUp
<1>4. Run(f)
  <2>1. \A n \in 0..N : n # 0 => n \in 1..N /\ n - 1 \in 0..N
    BY <1>2
  <2>2. \A n \in 1..N : f[n] = AfterTx(f[n - 1], b, Vtx[b][n])
    <3> SUFFICES ASSUME NEW n \in 1..N PROVE f[n] = AfterTx(f[n - 1], b, Vtx[b][n])
      OBVIOUS
    <3>1. n - 1 \in 0..N
      BY <1>2
    <3>2. f[n - 1] \in CoinView /\ f[n] = step[n][f[n - 1]]
      BY <1>0, <3>1
    <3> QED BY <3>2
  <2>3. \A n \in 0..N : f[n] = IF n = 0 THEN c ELSE AfterTx(f[n - 1], b, Vtx[b][n])
    BY <1>0, <2>1, <2>2
  <2>4. f = [n \in 0..N |-> f[n]]
    BY <1>0
  <2> HIDE DEF N
  <2> QED BY <2>3, <2>4
<1>5. Run(after)
  <2> HIDE DEF Run, after
  <2> QED BY <1>1, <1>4
<1> HIDE DEF after
<1>6. 0 \in 0..N /\ \A n \in 1..N : n \in 0..N /\ n # 0
  BY <1>2
<1>7. after[0] = c /\ \A n \in 1..N : after[n] = AfterTx(after[n - 1], b, Vtx[b][n])
  <2> HIDE DEF N
  <2>1. after = [n \in 0..N |-> IF n = 0 THEN c ELSE AfterTx(after[n - 1], b, Vtx[b][n])]
    BY <1>5
  <2> QED BY <2>1, <1>6
<1>8. DOMAIN after = 0..N /\ after = [n \in 0..N |-> after[n]]
  <2> HIDE DEF N
  <2> QED BY <1>5
<1> DEFINE T == {n \in 0..N : after[n] \in CoinView}
<1>9. 0 \in T /\ \A n \in 1..N : n - 1 \in T => n \in T
  BY <1>6, <1>7, AfterTxType
<1>10. 0..N \subseteq T
  <2> HIDE DEF T, N
  <2> QED BY <1>2, <1>9, RoundsUp
<1> QED BY <1>7, <1>8, <1>10 DEF after

(* One round, one outpoint. *)
LEMMA AfterTxsAt ==
    ASSUME NEW b \in Block, NEW c \in CoinView, NEW n \in 1..Len(Vtx[b]), NEW o \in Outpoints
    PROVE  AfterTxs(c, b)[n][o] = IF o[1] = Vtx[b][n] THEN NewCoin(b, o[1])
                                  ELSE IF o \in Inputs[Vtx[b][n]] THEN Spent
                                  ELSE AfterTxs(c, b)[n - 1][o]
<1>1. AfterTxs(c, b)[n] = AfterTx(AfterTxs(c, b)[n - 1], b, Vtx[b][n])
  BY AfterTxsRuns
<1> QED BY <1>1 DEF AfterTx

TouchedBy(t, o) == o[1] = t \/ o \in Inputs[t]

(* The block creates or spends o. *)
Touches(b, o) == \E i \in 1..Len(Vtx[b]) : TouchedBy(Vtx[b][i], o)

(* What is not touched stays, and what is touched is the same from         *)
(* whatever view.                                                          *)
LEMMA AfterTxsSame ==
    ASSUME NEW b \in Block, NEW c \in CoinView, NEW d \in CoinView, NEW o \in Outpoints,
           NEW n \in 0..Len(Vtx[b])
    PROVE  IF \E i \in 1..n : TouchedBy(Vtx[b][i], o)
           THEN AfterTxs(c, b)[n][o] = AfterTxs(d, b)[n][o]
           ELSE AfterTxs(c, b)[n][o] = c[o]
<1> DEFINE N == Len(Vtx[b])
           Same(k) == IF \E i \in 1..k : TouchedBy(Vtx[b][i], o)
                      THEN AfterTxs(c, b)[k][o] = AfterTxs(d, b)[k][o]
                      ELSE AfterTxs(c, b)[k][o] = c[o]
           T == {k \in 0..N : Same(k)}
<1>1. N \in Nat /\ AfterTxs(c, b)[0] = c
  BY TxFacts, AfterTxsRuns
<1>2. 0 \in T
  <2>1. ~\E i \in 1..0 : TouchedBy(Vtx[b][i], o)
    OBVIOUS
  <2> QED BY <1>1, <2>1
<1>3. ASSUME NEW k \in 1..N, k - 1 \in T PROVE k \in T
  <2>1. k \in 0..N /\ \A i \in 1..k : i = k \/ i \in 1..(k - 1)
    BY <1>1
  <2>2. k \in 1..k /\ \A i \in 1..(k - 1) : i \in 1..k
    BY <1>1
  <2>3. CASE TouchedBy(Vtx[b][k], o)
    <3>1. AfterTxs(c, b)[k][o] = AfterTxs(d, b)[k][o]
      BY <2>3, AfterTxsAt DEF TouchedBy
    <3> QED BY <2>1, <2>2, <2>3, <3>1
  <2>4. CASE ~TouchedBy(Vtx[b][k], o)
    <3>1. /\ AfterTxs(c, b)[k][o] = AfterTxs(c, b)[k - 1][o]
          /\ AfterTxs(d, b)[k][o] = AfterTxs(d, b)[k - 1][o]
      BY <2>4, AfterTxsAt DEF TouchedBy
    <3>2. Same(k - 1)
      BY <1>3
    <3>3. (\E i \in 1..k : TouchedBy(Vtx[b][i], o)) <=> \E i \in 1..(k - 1) : TouchedBy(Vtx[b][i], o)
      BY <2>1, <2>2, <2>4
    <3>4. Same(k)
      BY <3>1, <3>2, <3>3
    <3> QED BY <2>1, <3>4
  <2> QED BY <2>3, <2>4
<1>4. 0..N \subseteq T
  <2> HIDE DEF T, N
  <2> QED BY <1>1, <1>2, <1>3, RoundsUp
<1> QED BY <1>4

(* From round k on nothing creates o; then, if nothing spends it either it *)
(* stays, and if it is spent it stays spent.                               *)
LEMMA AfterTxsStays ==
    ASSUME NEW b \in Block, NEW c \in CoinView, NEW o \in Outpoints, NEW k \in 0..Len(Vtx[b]),
           \A i \in (k + 1)..Len(Vtx[b]) : o[1] # Vtx[b][i],
           \/ AfterTxs(c, b)[k][o] = Spent
           \/ \A i \in (k + 1)..Len(Vtx[b]) : o \notin Inputs[Vtx[b][i]]
    PROVE  AfterBlock(c, b)[o] = AfterTxs(c, b)[k][o]
<1> DEFINE N == Len(Vtx[b])
           T == {n \in 0..N : n >= k => AfterTxs(c, b)[n][o] = AfterTxs(c, b)[k][o]}
<1>1. N \in Nat /\ k \in Nat
  BY TxFacts
<1>2. 0 \in T
  BY <1>1
<1>3. ASSUME NEW n \in 1..N, n - 1 \in T PROVE n \in T
  <2>1. CASE n > k
    <3>1. n \in (k + 1)..N /\ n - 1 >= k /\ n \in 0..N
      BY <1>1, <2>1
    <3>2. AfterTxs(c, b)[n - 1][o] = AfterTxs(c, b)[k][o]
      BY <1>3, <3>1
    <3>3. AfterTxs(c, b)[n][o] = AfterTxs(c, b)[k][o]
      BY <3>1, <3>2, AfterTxsAt
    <3> QED BY <3>1, <3>3
  <2>2. CASE ~(n > k)
    BY <1>1, <2>2
  <2> QED BY <2>1, <2>2
<1>4. 0..N \subseteq T
  <2> HIDE DEF T, N
  <2> QED BY <1>1, <1>2, <1>3, RoundsUp
<1>5. N \in 0..N /\ N >= k
  BY <1>1
<1> QED BY <1>4, <1>5 DEF AfterBlock

-----------------------------------------------------------------------------
(* A block that ConnectBlock accepts on the UTXO set of its parent, and a  *)
(* chain of such blocks.                                                   *)
Connected(b) == Connectable(UtxoAt[Parent[b]], b)

Valid(b) == \A a \in Chain[b] : Connected(a)

(* The views that ConnectBlock goes through. *)
Views(b) == AfterTxs(UtxoAt[Parent[b]], b)

LEMMA ViewsRuns ==
    ASSUME NEW b \in Block
    PROVE  /\ UtxoAt[Parent[b]] \in CoinView
           /\ Views(b) \in [0..Len(Vtx[b]) -> CoinView] /\ Views(b)[0] = UtxoAt[Parent[b]]
           /\ \A n \in 1..Len(Vtx[b]), o \in Outpoints :
                 Views(b)[n][o] = IF o[1] = Vtx[b][n] THEN NewCoin(b, o[1])
                                  ELSE IF o \in Inputs[Vtx[b][n]] THEN Spent
                                  ELSE Views(b)[n - 1][o]
<1>1. UtxoAt[Parent[b]] \in CoinView
  BY ChainBelow, UtxoType
<1> QED BY <1>1, AfterTxsRuns, AfterTxsAt DEF Views

(* What is unspent after n transactions was created before. *)
LEMMA ViewsCreated ==
    ASSUME NEW b \in Block, NEW n \in 0..Len(Vtx[b]), NEW o \in Outpoints, Views(b)[n][o] # Spent
    PROVE  \E a \in Chain[b] : /\ o[1] \in Txs[a] /\ Views(b)[n][o] = NewCoin(a, o[1])
                               /\ a = b => \E i \in 1..n : o[1] = Vtx[b][i]
<1> DEFINE N == Len(Vtx[b])
           From(k) == \E a \in Chain[b] : /\ o[1] \in Txs[a] /\ Views(b)[k][o] = NewCoin(a, o[1])
                                          /\ a = b => \E i \in 1..k : o[1] = Vtx[b][i]
           T == {k \in 0..N : Views(b)[k][o] # Spent => From(k)}
<1>1. N \in Nat /\ b \in Chain[b]
  BY TxFacts, ChainLeast
<1>2. 0 \in T
  <2> SUFFICES ASSUME Views(b)[0][o] # Spent PROVE From(0)
    BY <1>1
  <2>1. /\ Parent[b] \in Block \cup {NoBlock} /\ Chain[b] = Chain[Parent[b]] \cup {b}
        /\ b \notin Chain[Parent[b]]
    BY ChainBelow
  <2>2. UtxoAt[Parent[b]][o] # Spent /\ Views(b)[0] = UtxoAt[Parent[b]]
    BY ViewsRuns
  <2>3. PICK a \in Chain[Parent[b]] : o[1] \in Txs[a] /\ UtxoAt[Parent[b]][o] = NewCoin(a, o[1])
    BY <2>1, <2>2, UtxoCreated
  <2> QED BY <2>1, <2>2, <2>3
<1>3. ASSUME NEW k \in 1..N, k - 1 \in T PROVE k \in T
  <2>0. k \in 0..N /\ k \in 1..k /\ \A i \in 1..(k - 1) : i \in 1..k
    BY <1>1
  <2> SUFFICES ASSUME Views(b)[k][o] # Spent PROVE From(k)
    BY <2>0
  <2>1. CASE o[1] = Vtx[b][k]
    <3>1. Views(b)[k][o] = NewCoin(b, o[1]) /\ o[1] \in Txs[b]
      BY <2>1, ViewsRuns, TxFacts
    <3> QED BY <1>1, <2>0, <2>1, <3>1
  <2>2. CASE o[1] # Vtx[b][k]
    <3>1. Views(b)[k][o] = Views(b)[k - 1][o]
      BY <2>2, ViewsRuns
    <3>2. From(k - 1)
      BY <1>3, <3>1
    <3> QED BY <2>0, <3>1, <3>2
  <2> QED BY <2>1, <2>2
<1>4. 0..N \subseteq T
  <2> HIDE DEF T, N
  <2> QED BY <1>1, <1>2, <1>3, RoundsUp
<1> QED BY <1>4

(* Nothing is spent before it is created, nor created later. *)
LEMMA InputOrigin ==
    ASSUME NEW b \in Block, Connected(b), NEW i \in 1..Len(Vtx[b]), NEW o \in Inputs[Vtx[b][i]]
    PROVE  /\ o \in Outpoints /\ i >= 2 /\ i - 1 \in 0..Len(Vtx[b]) /\ Views(b)[i - 1][o] # Spent
           /\ \E a \in Chain[b] : o[1] \in Txs[a] /\ Views(b)[i - 1][o] = NewCoin(a, o[1])
           /\ \A k \in i..Len(Vtx[b]) : o[1] # Vtx[b][k]
<1> DEFINE N == Len(Vtx[b])
<1>1. N \in Nat /\ Vtx[b][i] \in DOMAIN Vin
  BY TxFacts
<1>2. i # 1 /\ o \in Outpoints
  BY <1>1, CoinbaseFacts, InputFacts
<1>3. i \in 2..N /\ i - 1 \in 0..N /\ i >= 2
  BY <1>1, <1>2
<1>4. Views(b)[i - 1][o] # Spent
  BY <1>3 DEF Connected, Connectable, CheckTxInputs, Views
<1>5. PICK a \in Chain[b] : /\ o[1] \in Txs[a] /\ Views(b)[i - 1][o] = NewCoin(a, o[1])
                            /\ a = b => \E l \in 1..(i - 1) : o[1] = Vtx[b][l]
  BY <1>2, <1>3, <1>4, ViewsCreated
<1>6. ASSUME NEW k \in i..N, o[1] = Vtx[b][k] PROVE FALSE
  <2>1. k \in 1..N
    BY <1>1, <1>3
  <2>2. o[1] \in Txs[b] /\ b \in Chain[b]
    BY <2>1, <1>6, TxFacts, ChainLeast
  <2>3. a = b
    BY <2>2, <1>5, TxOnce
  <2>4. PICK l \in 1..(i - 1) : o[1] = Vtx[b][l]
    BY <2>3, <1>5
  <2>5. l \in 1..N /\ l # k
    BY <1>1, <1>3
  <2> QED BY <2>1, <2>4, <2>5, <1>6, TxOnceInBlock
<1> QED BY <1>2, <1>3, <1>4, <1>5, <1>6

(* Before its transaction an outpoint is spent. *)
LEMMA NotYetCreated ==
    ASSUME NEW b \in Block, NEW i \in 1..Len(Vtx[b]), NEW o \in Outpoints, o[1] = Vtx[b][i]
    PROVE  Views(b)[i - 1][o] = Spent
<1> SUFFICES ASSUME Views(b)[i - 1][o] # Spent PROVE FALSE
  OBVIOUS
<1>1. Len(Vtx[b]) \in Nat /\ i - 1 \in 0..Len(Vtx[b]) /\ b \in Chain[b] /\ o[1] \in Txs[b]
  BY TxFacts, ChainLeast
<1>2. PICK a \in Chain[b] : o[1] \in Txs[a] /\ (a = b => \E l \in 1..(i - 1) : o[1] = Vtx[b][l])
  BY <1>1, ViewsCreated
<1>3. a = b
  BY <1>1, <1>2, TxOnce
<1>4. PICK l \in 1..(i - 1) : o[1] = Vtx[b][l]
  BY <1>2, <1>3
<1>5. l \in 1..Len(Vtx[b]) /\ l # i
  BY <1>1
<1> QED BY <1>4, <1>5, TxOnceInBlock

(* A block spends only what its own chain created. *)
LEMMA SpendsOwnChain ==
    ASSUME NEW b \in Block, Connected(b), NEW t \in Txs[b], NEW o \in Inputs[t]
    PROVE  o \in Outpoints /\ \E a \in Chain[b] : o[1] \in Txs[a]
<1>1. PICK i \in 1..Len(Vtx[b]) : t = Vtx[b][i]
  BY TxFacts
<1> QED BY <1>1, InputOrigin

(* Applying a valid block to the UTXO set of its parent gives its own. *)
LEMMA BlockApplied ==
    ASSUME NEW b \in Block, Valid(b)
    PROVE  AfterBlock(UtxoAt[Parent[b]], b) = UtxoAt[b]
<1> DEFINE N == Len(Vtx[b])
           p == Parent[b]
           base == UtxoAt[p]
<1>1. N \in Nat /\ N >= 1 /\ b \in Chain[b] /\ Connected(b)
  BY TxFacts, ChainLeast DEF Valid
<1>2. /\ p \in Block \cup {NoBlock} /\ Chain[b] = Chain[p] \cup {b} /\ b \notin Chain[p]
      /\ Chain[p] \subseteq Block
  BY ChainBelow
<1>3. base \in CoinView /\ UtxoAt[b] \in CoinView
  BY ViewsRuns, UtxoType
<1>4. AfterBlock(base, b) \in CoinView
  BY <1>1, <1>3, AfterTxsRuns DEF AfterBlock
<1>5. ASSUME NEW o \in Outpoints PROVE AfterBlock(base, b)[o] = UtxoAt[b][o]
  (* A transaction of b spends o. *)
  <2>1. ASSUME NEW i \in 1..N, o \in Inputs[Vtx[b][i]] PROVE AfterBlock(base, b)[o] = UtxoAt[b][o]
    <3>1. \A k \in i..N : o[1] # Vtx[b][k]
      BY <1>1, <2>1, InputOrigin
    <3>2. i \in i..N /\ i \in 0..N /\ \A k \in (i + 1)..N : k \in i..N
      BY <1>1
    <3>3. AfterTxs(base, b)[i][o] = Spent
      BY <1>3, <2>1, <3>1, <3>2, AfterTxsAt
    <3>4. AfterBlock(base, b)[o] = Spent
      BY <1>3, <3>1, <3>2, <3>3, AfterTxsStays
    <3>5. PICK a \in Chain[b] : o[1] \in Txs[a]
      BY <1>1, <2>1, InputOrigin
    <3>6. SpentOn(b, o)
      BY <1>1, <2>1, TxFacts DEF SpentOn
    <3> QED BY <3>4, <3>5, <3>6, UtxoOf
  (* None does, and one creates it. *)
  <2>2. ASSUME NEW i \in 1..N, o[1] = Vtx[b][i], \A k \in 1..N : o \notin Inputs[Vtx[b][k]]
        PROVE  AfterBlock(base, b)[o] = UtxoAt[b][o]
    <3>1. i \in 0..N /\ \A k \in (i + 1)..N : k \in 1..N /\ k # i
      BY <1>1
    <3>2. \A k \in (i + 1)..N : o[1] # Vtx[b][k]
      BY <2>2, <3>1, TxOnceInBlock
    <3>3. AfterTxs(base, b)[i][o] = NewCoin(b, o[1])
      BY <1>3, <2>2, AfterTxsAt
    <3>4. AfterBlock(base, b)[o] = NewCoin(b, o[1])
      BY <1>3, <2>2, <3>1, <3>2, <3>3, AfterTxsStays
    <3>5. o[1] \in Txs[b]
      BY <2>2, TxFacts
    <3>6. ASSUME NEW a \in Chain[b], NEW t \in Txs[a], o \in Inputs[t] PROVE FALSE
      <4>1. a # b
        BY <2>2, <3>6, TxFacts
      <4>2. a \in Block /\ Connected(a) /\ Chain[a] \subseteq Chain[b] /\ a \in Chain[p]
        BY <1>2, <4>1, ChainOfAncestor DEF Valid
      <4>3. PICK d \in Chain[a] : o[1] \in Txs[d]
        BY <3>6, <4>2, SpendsOwnChain
      <4>4. d = b
        BY <1>1, <3>5, <4>2, <4>3, TxOnce
      <4> QED BY <4>1, <4>2, <4>3, <4>4, ChainAntisymmetric
    <3>7. ~SpentOn(b, o)
      BY <3>6 DEF SpentOn
    <3> QED BY <1>1, <3>4, <3>5, <3>7, UtxoOf
  (* b has nothing to do with o. *)
  <2>3. ASSUME \A k \in 1..N : o[1] # Vtx[b][k] /\ o \notin Inputs[Vtx[b][k]]
        PROVE  AfterBlock(base, b)[o] = UtxoAt[b][o]
    <3>1. 0 \in 0..N /\ AfterTxs(base, b)[0] = base /\ \A k \in (0 + 1)..N : k \in 1..N
      BY <1>1, <1>3, AfterTxsRuns
    <3>2. AfterBlock(base, b)[o] = base[o]
      BY <1>3, <2>3, <3>1, AfterTxsStays
    <3>3. o[1] \notin Txs[b] /\ \A t \in Txs[b] : o \notin Inputs[t]
      BY <2>3, TxFacts
    <3>4. CASE \A a \in Chain[p] : o[1] \notin Txs[a]
      <4>1. \A a \in Chain[b] : o[1] \notin Txs[a]
        BY <1>2, <3>3, <3>4
      <4> QED BY <1>2, <3>2, <3>4, <4>1, UtxoNone
    <3>5. CASE \E a \in Chain[p] : o[1] \in Txs[a]
      <4>1. PICK a \in Chain[p] : o[1] \in Txs[a]
        BY <3>5
      <4>2. p \in Block
        BY <1>2, <4>1, ChainOfNone
      <4>3. SpentOn(b, o) <=> SpentOn(p, o)
        BY <1>2, <3>3 DEF SpentOn
      <4>4. UtxoAt[b][o] = IF SpentOn(b, o) THEN Spent ELSE NewCoin(a, o[1])
        BY <1>2, <4>1, UtxoOf
      <4>5. base[o] = IF SpentOn(p, o) THEN Spent ELSE NewCoin(a, o[1])
        BY <4>1, <4>2, UtxoOf
      <4> QED BY <3>2, <4>3, <4>4, <4>5
    <3> QED BY <3>4, <3>5
  <2> QED BY <2>1, <2>2, <2>3
<1> QED BY <1>3, <1>4, <1>5 DEF CoinView

(* Applied to whatever view, a valid block gives what it touches the value *)
(* of its UTXO set.                                                        *)
LEMMA BlockEffect ==
    ASSUME NEW b \in Block, Valid(b), NEW c \in CoinView
    PROVE  /\ AfterBlock(c, b) \in CoinView
           /\ \A o \in Outpoints :
                 AfterBlock(c, b)[o] = IF Touches(b, o) THEN UtxoAt[b][o] ELSE c[o]
<1>1. UtxoAt[Parent[b]] \in CoinView /\ Len(Vtx[b]) \in 0..Len(Vtx[b])
  BY ViewsRuns, TxFacts
<1>2. AfterBlock(c, b) \in CoinView
  BY <1>1, AfterTxsRuns DEF AfterBlock
<1>3. ASSUME NEW o \in Outpoints
      PROVE  AfterBlock(c, b)[o] = IF Touches(b, o) THEN AfterBlock(UtxoAt[Parent[b]], b)[o] ELSE c[o]
  BY <1>1, AfterTxsSame DEF AfterBlock, Touches
<1> QED BY <1>2, <1>3, BlockApplied

LEMMA Untouched ==
    ASSUME NEW b \in Block, Valid(b), NEW o \in Outpoints, ~Touches(b, o)
    PROVE  UtxoAt[b][o] = UtxoAt[Parent[b]][o]
<1>1. UtxoAt[Parent[b]] \in CoinView
  BY ViewsRuns
<1> QED BY <1>1, BlockEffect, BlockApplied

-----------------------------------------------------------------------------
(* Undoing a block. *)

(* The outputs of the genesis block, whose height of 0 ApplyTxInUndo takes *)
(* for missing metadata, are never spent, and the database is not empty.   *)
GenesisKept ==
    /\ ~FirstRun
    /\ \A t \in DOMAIN Vin : \A o \in Inputs[t] : o[1] \notin Txs[Genesis]

(* The views of DisconnectBlock that have not failed. *)
OkView == [coins : CoinView, clean : BOOLEAN, failed : {FALSE}]

LEMMA RestoreOne ==
    ASSUME NEW v \in OkView, NEW u \in CoinType, u.height # 0, NEW o \in Outpoints
    PROVE  /\ ApplyTxInUndo(v, u, o) \in OkView
           /\ \A p \in Outpoints : ApplyTxInUndo(v, u, o).coins[p] = IF p = o THEN u ELSE v.coins[p]
           /\ ApplyTxInUndo(v, u, o).clean = (v.clean /\ v.coins[o] = Spent)
<1>1. ApplyTxInUndo(v, u, o) = [coins |-> [v.coins EXCEPT ![o] = u],
                                clean |-> v.clean /\ v.coins[o] = Spent,
                                failed |-> FALSE]
  BY DEF ApplyTxInUndo, OkView
<1>2. [v.coins EXCEPT ![o] = u] \in CoinView
  BY DEF OkView, CoinView
<1>3. (v.clean /\ v.coins[o] = Spent) \in BOOLEAN
  BY DEF OkView
<1>4. \A p \in Outpoints : [v.coins EXCEPT ![o] = u][p] = IF p = o THEN u ELSE v.coins[p]
  BY DEF OkView, CoinView
<1> QED BY <1>1, <1>2, <1>3, <1>4 DEF OkView

(* An undo record that ApplyTxInUndo takes as it is. *)
Complete(spent, n) == \A j \in 1..n : spent[j] \in CoinType /\ spent[j].height # 0

LEMMA RestoredRuns ==
    ASSUME NEW v \in OkView, NEW t \in DOMAIN Vin, NEW spent, Complete(spent, Len(Vin[t]))
    PROVE  /\ Restored(v, t, spent) \in [1..(Len(Vin[t]) + 1) -> OkView]
           /\ Restored(v, t, spent)[Len(Vin[t]) + 1] = v
           /\ \A j \in 1..Len(Vin[t]) :
                 Restored(v, t, spent)[j] = ApplyTxInUndo(Restored(v, t, spent)[j + 1], spent[j], Vin[t][j])
<1> DEFINE N == Len(Vin[t])
           Run(d) == d = [j \in 1..(N + 1) |-> IF j = N + 1 THEN v
                                               ELSE ApplyTxInUndo(d[j + 1], spent[j], Vin[t][j])]
           step == [j \in 1..N |-> [x \in OkView |-> ApplyTxInUndo(x, spent[j], Vin[t][j])]]
           w == Restored(v, t, spent)
<1>1. w = CHOOSE d : Run(d)
  BY DEF Restored
<1>2. N \in Nat /\ \A j \in 1..N : Vin[t][j] \in Outpoints
  BY InputFacts
<1>3. ASSUME NEW j \in 1..N, NEW x \in OkView PROVE ApplyTxInUndo(x, spent[j], Vin[t][j]) \in OkView
  BY <1>2, RestoreOne DEF Complete
<1>4. Body(step, N, OkView)
  BY <1>3 DEF Body
<1>5. PICK f : RunDown(f, step, N, OkView, v)
  <2> HIDE DEF N, step
  <2> QED BY <1>2, <1>4, LoopRunsDown
<1>6. /\ f \in [1..(N + 1) -> OkView] /\ f[N + 1] = v
      /\ \A j \in 1..N : f[j] = step[j][f[j + 1]]
  <2> HIDE DEF N, step
  <2> QED BY <1>5 DEF RunDown
<1>7. \A j \in 1..N : f[j] = ApplyTxInUndo(f[j + 1], spent[j], Vin[t][j])
  <2> SUFFICES ASSUME NEW j \in 1..N PROVE f[j] = ApplyTxInUndo(f[j + 1], spent[j], Vin[t][j])
    OBVIOUS
  <2>1. j + 1 \in 1..(N + 1)
    BY <1>2
  <2>2. f[j + 1] \in OkView /\ f[j] = step[j][f[j + 1]]
    BY <1>6, <2>1
  <2> QED BY <2>2
<1>8. Run(f)
  <2>1. \A j \in 1..(N + 1) : j # N + 1 => j \in 1..N
    BY <1>2
  <2>2. \A j \in 1..(N + 1) : f[j] = IF j = N + 1 THEN v ELSE ApplyTxInUndo(f[j + 1], spent[j], Vin[t][j])
    BY <1>6, <1>7, <2>1
  <2>3. f = [j \in 1..(N + 1) |-> f[j]]
    BY <1>6
  <2> HIDE DEF N
  <2> QED BY <2>2, <2>3
<1>9. Run(w)
  <2> HIDE DEF Run, w
  <2> QED BY <1>1, <1>8
<1> HIDE DEF w
<1>10. N + 1 \in 1..(N + 1) /\ \A j \in 1..N : j \in 1..(N + 1) /\ j # N + 1
  BY <1>2
<1>11. /\ w[N + 1] = v
       /\ \A j \in 1..N : w[j] = ApplyTxInUndo(w[j + 1], spent[j], Vin[t][j])
  <2> HIDE DEF N
  <2>1. w = [j \in 1..(N + 1) |-> IF j = N + 1 THEN v ELSE ApplyTxInUndo(w[j + 1], spent[j], Vin[t][j])]
    BY <1>9
  <2> QED BY <2>1, <1>10
<1>12. DOMAIN w = 1..(N + 1) /\ w = [j \in 1..(N + 1) |-> w[j]]
  <2> HIDE DEF N
  <2> QED BY <1>9
<1> DEFINE T == {j \in 1..(N + 1) : w[j] \in OkView}
<1>13. N + 1 \in T /\ \A j \in 1..N : j + 1 \in T => j \in T
  BY <1>3, <1>10, <1>11
<1>14. 1..(N + 1) \subseteq T
  <2> HIDE DEF T, N
  <2> QED BY <1>2, <1>13, RoundsDown
<1> QED BY <1>11, <1>12, <1>14 DEF w

(* Restoring the inputs of a transaction. *)
LEMMA RestoredEffect ==
    ASSUME NEW v \in OkView, NEW t \in DOMAIN Vin, NEW spent, Complete(spent, Len(Vin[t]))
    PROVE  LET r == Restored(v, t, spent)[1]
           IN  /\ r \in OkView
               /\ \A j \in 1..Len(Vin[t]) : r.coins[Vin[t][j]] = spent[j]
               /\ \A o \in Outpoints \ Inputs[t] : r.coins[o] = v.coins[o]
               /\ v.clean /\ (\A o \in Inputs[t] : v.coins[o] = Spent) => r.clean
<1> DEFINE N == Len(Vin[t])
           w == Restored(v, t, spent)
           Good(k) == /\ \A j \in 1..N : w[k].coins[Vin[t][j]] = IF j >= k THEN spent[j] ELSE v.coins[Vin[t][j]]
                      /\ \A o \in Outpoints \ Inputs[t] : w[k].coins[o] = v.coins[o]
                      /\ v.clean /\ (\A o \in Inputs[t] : v.coins[o] = Spent) => w[k].clean
           T == {k \in 1..(N + 1) : Good(k)}
<1>1. /\ N \in Nat /\ \A j \in 1..N : Vin[t][j] \in Outpoints /\ Vin[t][j] \in Inputs[t]
      /\ \A i, j \in 1..N : Vin[t][i] = Vin[t][j] => i = j
  BY InputFacts
<1>2. /\ w \in [1..(N + 1) -> OkView] /\ w[N + 1] = v
      /\ \A j \in 1..N : w[j] = ApplyTxInUndo(w[j + 1], spent[j], Vin[t][j])
  BY RestoredRuns
<1> HIDE DEF w
<1>3. N + 1 \in T
  BY <1>1, <1>2
<1>4. ASSUME NEW k \in 1..N, k + 1 \in T PROVE k \in T
  <2>0. k \in 1..(N + 1) /\ k + 1 \in 1..(N + 1) /\ Good(k + 1) /\ Vin[t][k] \in Outpoints
    BY <1>1, <1>4
  <2>1. w[k + 1] \in OkView /\ spent[k] \in CoinType /\ spent[k].height # 0
    BY <1>2, <2>0 DEF Complete
  <2>2. w[k] = ApplyTxInUndo(w[k + 1], spent[k], Vin[t][k])
    BY <1>2
  <2>3. /\ \A p \in Outpoints : w[k].coins[p] = IF p = Vin[t][k] THEN spent[k] ELSE w[k + 1].coins[p]
        /\ w[k].clean = (w[k + 1].clean /\ w[k + 1].coins[Vin[t][k]] = Spent)
    <3> HIDE DEF Good, N
    <3> QED BY <2>0, <2>1, <2>2, RestoreOne
  <2>4. ASSUME NEW j \in 1..N
        PROVE  w[k].coins[Vin[t][j]] = IF j >= k THEN spent[j] ELSE v.coins[Vin[t][j]]
    <3>1. CASE j = k
      BY <1>1, <2>2, <2>3, <3>1
    <3>2. CASE j # k
      <4>1. Vin[t][j] # Vin[t][k] /\ Vin[t][j] \in Outpoints
        BY <1>1, <3>2
      <4>2. w[k].coins[Vin[t][j]] = w[k + 1].coins[Vin[t][j]]
        BY <2>2, <2>3, <4>1
      <4>3. j >= k <=> j >= k + 1
        BY <1>1, <3>2
      <4> QED BY <2>0, <4>2, <4>3
    <3> QED BY <3>1, <3>2
  <2>5. ASSUME NEW o \in Outpoints \ Inputs[t] PROVE w[k].coins[o] = v.coins[o]
    <3>1. o # Vin[t][k]
      BY <1>1
    <3> QED BY <2>0, <2>2, <2>3, <3>1
  <2>6. ASSUME v.clean, \A o \in Inputs[t] : v.coins[o] = Spent PROVE w[k].clean
    <3>1. w[k + 1].clean
      BY <2>0, <2>6
    <3>2. w[k + 1].coins[Vin[t][k]] = v.coins[Vin[t][k]]
      BY <1>1, <2>0
    <3> QED BY <1>1, <2>3, <2>6, <3>1, <3>2
  <2> QED BY <2>0, <2>4, <2>5, <2>6
<1>5. 1 \in T
  <2>1. 1 \in 1..(N + 1)
    BY <1>1
  <2> HIDE DEF T, N
  <2> QED BY <1>1, <1>3, <1>4, <2>1, RoundsDown
<1>6. Restored(v, t, spent)[1] = w[1] /\ w[1] \in OkView
  BY <1>1, <1>2 DEF w
<1> QED BY <1>1, <1>5, <1>6
(* What ConnectBlock writes as undo data is complete. *)
LEMMA UndoComplete ==
    ASSUME NEW b \in Block, Connected(b), GenesisKept, NEW i \in 2..Len(Vtx[b])
    PROVE  LET u == BlockUndo(UtxoAt[Parent[b]], b)
               t == Vtx[b][i]
           IN  /\ Complete(u[i - 1], Len(Vin[t]))
               /\ \A j \in 1..Len(Vin[t]) : u[i - 1][j] = Views(b)[i - 1][Vin[t][j]]
<1> DEFINE N == Len(Vtx[b])
           t == Vtx[b][i]
           u == BlockUndo(UtxoAt[Parent[b]], b)
<1>1. N \in Nat /\ i \in 1..N /\ i - 1 \in 1..(N - 1) /\ (i - 1) + 1 = i /\ i - 1 \in 0..N
  BY TxFacts
<1>2. t \in DOMAIN Vin /\ DOMAIN Vin[t] = 1..Len(Vin[t])
  BY <1>1, TxFacts, InputFacts
<1>3. u[i - 1] = [j \in DOMAIN Vin[t] |-> Views(b)[i - 1][Vin[t][j]]]
  BY <1>1 DEF BlockUndo, Views
<1>4. ASSUME NEW j \in 1..Len(Vin[t])
      PROVE  /\ u[i - 1][j] = Views(b)[i - 1][Vin[t][j]]
             /\ u[i - 1][j] \in CoinType /\ u[i - 1][j].height # 0
  <2> DEFINE o == Vin[t][j]
  <2>1. u[i - 1][j] = Views(b)[i - 1][o]
    BY <1>2, <1>3
  <2>2. o \in Inputs[t] /\ o \in Outpoints
    BY <1>2, InputFacts
  <2>3. PICK a \in Chain[b] : o[1] \in Txs[a] /\ Views(b)[i - 1][o] = NewCoin(a, o[1])
    <3> HIDE DEF o
    <3> QED BY <1>1, <2>2, InputOrigin
  <2>4. a \in Block /\ a # Genesis
    BY <1>2, <2>2, <2>3, ChainLeast DEF GenesisKept
  <2>5. Height[a] # 0
    BY <2>4, HeightStep, ParentBlock
  <2> QED BY <2>1, <2>3, <2>4, <2>5, CoinFacts
<1> QED BY <1>4 DEF Complete

(* One turn of DisconnectBlock's loop, from whatever view. *)
LEMMA UndoTxEffect ==
    ASSUME NEW b \in Block, Connected(b), GenesisKept, NEW i \in 1..Len(Vtx[b]), NEW v \in OkView
    PROVE  LET r == UndoTx(v, b, i, BlockUndo(UtxoAt[Parent[b]], b))
           IN  /\ r \in OkView
               /\ \A o \in Outpoints :
                     r.coins[o] = IF TouchedBy(Vtx[b][i], o) THEN Views(b)[i - 1][o] ELSE v.coins[o]
               /\ v.clean /\ v.coins = Views(b)[i] => r.clean
<1> DEFINE u == BlockUndo(UtxoAt[Parent[b]], b)
           t == Vtx[b][i]
           removed == [coins |-> [o \in Outpoints |-> IF o[1] = t THEN Spent ELSE v.coins[o]],
                       clean |-> v.clean /\ \A o \in Outputs(t) : v.coins[o] = NewCoin(b, t),
                       failed |-> v.failed]
           r == UndoTx(v, b, i, u)
<1>1. v.coins \in CoinView /\ v.clean \in BOOLEAN /\ v.failed = FALSE
  BY DEF OkView
<1>2. removed \in OkView
  BY <1>1, CoinFacts DEF OkView, CoinView
<1>3. /\ \A o \in Outpoints : removed.coins[o] = IF o[1] = t THEN Spent ELSE v.coins[o]
      /\ removed.clean = (v.clean /\ \A o \in Outputs(t) : v.coins[o] = NewCoin(b, t))
  OBVIOUS
<1>4. r = IF i = 1 THEN removed ELSE Restored(removed, t, u[i - 1])[1]
  <2> HIDE DEF u
  <2> QED BY <1>1 DEF UndoTx
<1>5. t \in DOMAIN Vin /\ Inputs[t] \subseteq Outpoints
  BY TxFacts, InputFacts
<1>6. \A o \in Outpoints : o[1] = t => Views(b)[i - 1][o] = Spent
  BY NotYetCreated
<1>7. \A o \in Outputs(t) : o \in Outpoints /\ o[1] = t
  BY <1>5 DEF Outputs, Outpoints
<1>8. \A o \in Outpoints : o[1] = t => Views(b)[i][o] = NewCoin(b, t)
  BY ViewsRuns
<1>9. v.clean /\ v.coins = Views(b)[i] => removed.clean
  BY <1>3, <1>7, <1>8
<1> HIDE DEF removed, r, u
<1>10. CASE i = 1
  <2>1. Inputs[t] = {} /\ r = removed
    BY <1>4, <1>10, CoinbaseFacts
  <2> QED BY <1>2, <1>3, <1>6, <1>9, <2>1 DEF TouchedBy, r, u
<1>11. CASE i # 1
  <2>0. i \in 2..Len(Vtx[b])
    BY <1>11, TxFacts
  <2>1. /\ Complete(u[i - 1], Len(Vin[t]))
        /\ \A j \in 1..Len(Vin[t]) : u[i - 1][j] = Views(b)[i - 1][Vin[t][j]]
    BY <2>0, UndoComplete DEF u
  <2>2. /\ r \in OkView
        /\ \A j \in 1..Len(Vin[t]) : r.coins[Vin[t][j]] = u[i - 1][j]
        /\ \A o \in Outpoints \ Inputs[t] : r.coins[o] = removed.coins[o]
        /\ removed.clean /\ (\A o \in Inputs[t] : removed.coins[o] = Spent) => r.clean
    <3>1. r = Restored(removed, t, u[i - 1])[1]
      BY <1>4, <1>11
    <3> HIDE DEF t
    <3> QED BY <1>2, <1>5, <2>1, <3>1, RestoredEffect
  <2>3. ASSUME NEW o \in Inputs[t] PROVE r.coins[o] = Views(b)[i - 1][o]
    <3>1. PICK j \in 1..Len(Vin[t]) : o = Vin[t][j]
      BY <1>5, InputFacts
    <3> QED BY <2>1, <2>2, <3>1
  <2>4. ASSUME NEW o \in Outpoints
        PROVE  r.coins[o] = IF TouchedBy(t, o) THEN Views(b)[i - 1][o] ELSE v.coins[o]
    BY <1>3, <1>6, <2>2, <2>3 DEF TouchedBy
  <2>5. ASSUME v.clean, v.coins = Views(b)[i] PROVE r.clean
    <3>1. ASSUME NEW o \in Inputs[t] PROVE removed.coins[o] = Spent
      <4>1. o \in Outpoints /\ o[1] # t
        BY InputOrigin, TxFacts
      <4>2. Views(b)[i][o] = Spent
        BY <4>1, ViewsRuns
      <4> QED BY <1>3, <2>5, <4>1, <4>2
    <3> QED BY <1>9, <2>2, <2>5, <3>1
  <2> QED BY <2>2, <2>4, <2>5 DEF r, u
<1> QED BY <1>10, <1>11
(* The loop of DisconnectBlock runs to the end. *)
LEMMA UndoneRuns ==
    ASSUME NEW b \in Block, Connected(b), GenesisKept, NEW c \in CoinView
    PROVE  LET u == BlockUndo(UtxoAt[Parent[b]], b)
               w == Undone(c, b, u)
           IN  /\ w \in [1..(Len(Vtx[b]) + 1) -> OkView]
               /\ w[Len(Vtx[b]) + 1].coins = c /\ w[Len(Vtx[b]) + 1].clean
               /\ \A i \in 1..Len(Vtx[b]) : w[i] = UndoTx(w[i + 1], b, i, u)
<1> DEFINE N == Len(Vtx[b])
           u == BlockUndo(UtxoAt[Parent[b]], b)
           v == [coins |-> c, clean |-> TRUE, failed |-> FALSE]
           Run(d) == d = [i \in 1..(N + 1) |-> IF i = N + 1 THEN v ELSE UndoTx(d[i + 1], b, i, u)]
           step == [i \in 1..N |-> [x \in OkView |-> UndoTx(x, b, i, u)]]
           w == Undone(c, b, u)
<1>1. w = CHOOSE d : Run(d)
  BY DEF Undone
<1>2. N \in Nat
  BY TxFacts
<1>3. ASSUME NEW i \in 1..N, NEW x \in OkView PROVE UndoTx(x, b, i, u) \in OkView
  BY UndoTxEffect
<1>0. v \in OkView /\ v.coins = c /\ v.clean
  BY DEF OkView
<1> HIDE DEF u, v
<1>4. Body(step, N, OkView)
  BY <1>3 DEF Body
<1>5. PICK f : RunDown(f, step, N, OkView, v)
  <2> HIDE DEF N, step
  <2> QED BY <1>0, <1>2, <1>4, LoopRunsDown
<1>6. /\ f \in [1..(N + 1) -> OkView] /\ f[N + 1] = v
      /\ \A i \in 1..N : f[i] = step[i][f[i + 1]]
  <2> HIDE DEF N, step
  <2> QED BY <1>5 DEF RunDown
<1>7. \A i \in 1..N : f[i] = UndoTx(f[i + 1], b, i, u)
  <2> SUFFICES ASSUME NEW i \in 1..N PROVE f[i] = UndoTx(f[i + 1], b, i, u)
    OBVIOUS
  <2>1. i + 1 \in 1..(N + 1)
    BY <1>2
  <2>2. f[i + 1] \in OkView /\ f[i] = step[i][f[i + 1]]
    BY <1>6, <2>1
  <2> QED BY <2>2
<1>8. Run(f)
  <2>1. \A i \in 1..(N + 1) : i # N + 1 => i \in 1..N
    BY <1>2
  <2>2. \A i \in 1..(N + 1) : f[i] = IF i = N + 1 THEN v ELSE UndoTx(f[i + 1], b, i, u)
    BY <1>6, <1>7, <2>1
  <2>3. f = [i \in 1..(N + 1) |-> f[i]]
    BY <1>6
  <2> HIDE DEF N
  <2> QED BY <2>2, <2>3
<1>9. Run(w)
  <2> HIDE DEF Run, w
  <2> QED BY <1>1, <1>8
<1> HIDE DEF w
<1>10. N + 1 \in 1..(N + 1) /\ \A i \in 1..N : i \in 1..(N + 1) /\ i # N + 1
  BY <1>2
<1>11. /\ w[N + 1] = v
       /\ \A i \in 1..N : w[i] = UndoTx(w[i + 1], b, i, u)
  <2> HIDE DEF N
  <2>1. w = [i \in 1..(N + 1) |-> IF i = N + 1 THEN v ELSE UndoTx(w[i + 1], b, i, u)]
    BY <1>9
  <2> QED BY <2>1, <1>10
<1>12. DOMAIN w = 1..(N + 1) /\ w = [i \in 1..(N + 1) |-> w[i]]
  <2> HIDE DEF N
  <2> QED BY <1>9
<1> DEFINE T == {i \in 1..(N + 1) : w[i] \in OkView}
<1>13. N + 1 \in T /\ \A i \in 1..N : i + 1 \in T => i \in T
  BY <1>0, <1>3, <1>10, <1>11
<1>14. 1..(N + 1) \subseteq T
  <2> HIDE DEF T, N
  <2> QED BY <1>2, <1>13, RoundsDown
<1> QED BY <1>0, <1>11, <1>12, <1>14 DEF w, u

(* The undo data of b is what its connection on its parent wrote. *)
HasUndo(b, undodata) == b \in DOMAIN undodata /\ undodata[b] = BlockUndo(UtxoAt[Parent[b]], b)

(* Undoing a valid block gives every outpoint it touches the value of the  *)
(* UTXO set of its parent; from its own UTXO set it is clean.              *)
LEMMA DisconnectEffect ==
    ASSUME NEW b \in Block, Valid(b), GenesisKept, NEW c \in CoinView,
           NEW undodata, HasUndo(b, undodata)
    PROVE  LET r == DisconnectBlock(c, b, undodata)
           IN  /\ r \in OkView
               /\ \A o \in Outpoints :
                     r.coins[o] = IF Touches(b, o) THEN UtxoAt[Parent[b]][o] ELSE c[o]
               /\ c = UtxoAt[b] => r.clean /\ r.coins = UtxoAt[Parent[b]]
<1> DEFINE N == Len(Vtx[b])
           u == BlockUndo(UtxoAt[Parent[b]], b)
           w == Undone(c, b, u)
           Hit(k, o) == \E i \in k..N : TouchedBy(Vtx[b][i], o)
           Good(k) == /\ \A o \in Outpoints : w[k].coins[o] = IF Hit(k, o) THEN Views(b)[k - 1][o] ELSE c[o]
                      /\ c = UtxoAt[b] => w[k].clean /\ w[k].coins = Views(b)[k - 1]
           T == {k \in 1..(N + 1) : Good(k)}
<1>1. N \in Nat /\ N >= 1 /\ Connected(b)
  BY TxFacts, ChainLeast DEF Valid
<1>2. /\ w \in [1..(N + 1) -> OkView]
      /\ w[N + 1].coins = c /\ w[N + 1].clean
      /\ \A i \in 1..N : w[i] = UndoTx(w[i + 1], b, i, u)
  BY <1>1, UndoneRuns
<1>3. /\ Views(b) \in [0..N -> CoinView] /\ Views(b)[0] = UtxoAt[Parent[b]]
      /\ Views(b)[N] = UtxoAt[b]
  BY ViewsRuns, BlockApplied DEF Views, AfterBlock
<1>4. DisconnectBlock(c, b, undodata) = w[1]
  BY DEF HasUndo, DisconnectBlock
<1> HIDE DEF w
<1>5. N + 1 \in T
  <2>1. \A o : ~Hit(N + 1, o)
    BY <1>1
  <2>2. N + 1 \in 1..(N + 1) /\ (N + 1) - 1 = N
    BY <1>1
  <2> HIDE DEF N, Hit
  <2> QED BY <1>2, <1>3, <2>1, <2>2
<1>6. ASSUME NEW k \in 1..N, k + 1 \in T PROVE k \in T
  <2>0. /\ k \in 1..(N + 1) /\ k + 1 \in 1..(N + 1) /\ (k + 1) - 1 = k /\ k - 1 \in 0..N /\ k \in 0..N
        /\ Good(k + 1)
    BY <1>1, <1>6
  <2>1. w[k] = UndoTx(w[k + 1], b, k, u) /\ w[k + 1] \in OkView /\ w[k] \in OkView
    BY <1>2, <2>0
  <2>2. /\ \A o \in Outpoints :
              w[k].coins[o] = IF TouchedBy(Vtx[b][k], o) THEN Views(b)[k - 1][o] ELSE w[k + 1].coins[o]
        /\ w[k + 1].clean /\ w[k + 1].coins = Views(b)[k] => w[k].clean
    <3>1. PICK x \in OkView : x = w[k + 1]
      BY <2>1
    <3>2. /\ \A o \in Outpoints : UndoTx(x, b, k, u).coins[o] =
                 IF TouchedBy(Vtx[b][k], o) THEN Views(b)[k - 1][o] ELSE x.coins[o]
          /\ x.clean /\ x.coins = Views(b)[k] => UndoTx(x, b, k, u).clean
      BY <1>1, UndoTxEffect
    <3> HIDE DEF Good, N, u
    <3> QED BY <2>1, <3>1, <3>2
  <2>3. \A o \in Outpoints : ~TouchedBy(Vtx[b][k], o) => Views(b)[k][o] = Views(b)[k - 1][o]
    BY ViewsRuns DEF TouchedBy
  <2>4. \A o : Hit(k, o) <=> Hit(k + 1, o) \/ TouchedBy(Vtx[b][k], o)
    <3>1. \A i : i \in k..N <=> i \in (k + 1)..N \/ i = k
      BY <1>1
    <3> QED BY <3>1
  <2>5. \A o \in Outpoints : w[k].coins[o] = IF Hit(k, o) THEN Views(b)[k - 1][o] ELSE c[o]
    <3>1. \A o \in Outpoints : w[k + 1].coins[o] = IF Hit(k + 1, o) THEN Views(b)[k][o] ELSE c[o]
      BY <2>0
    <3> HIDE DEF Hit
    <3> QED BY <2>2, <2>3, <2>4, <3>1
  <2>6. ASSUME c = UtxoAt[b] PROVE w[k].clean /\ w[k].coins = Views(b)[k - 1]
    <3>1. w[k + 1].clean /\ w[k + 1].coins = Views(b)[k]
      BY <2>0, <2>6
    <3>2. \A o \in Outpoints : w[k].coins[o] = Views(b)[k - 1][o]
      BY <2>2, <2>3, <3>1
    <3>3. w[k].coins \in CoinView /\ Views(b)[k - 1] \in CoinView
      BY <1>3, <2>0, <2>1 DEF OkView
    <3> QED BY <2>2, <3>1, <3>2, <3>3 DEF CoinView
  <2> HIDE DEF Hit
  <2> QED BY <2>0, <2>5, <2>6
<1>7. 1 \in T
  <2>1. 1 \in 1..(N + 1)
    BY <1>1
  <2> HIDE DEF T, N
  <2> QED BY <1>1, <1>5, <1>6, <2>1, RoundsDown
<1>8. w[1] \in OkView
  BY <1>1, <1>2
<1>9. \A o : Hit(1, o) <=> Touches(b, o)
  BY DEF Touches
<1> HIDE DEF Hit
<1> QED BY <1>3, <1>4, <1>7, <1>8, <1>9
-----------------------------------------------------------------------------
(* Branches, and rolling along them. *)

(* The tip below block k + 1 of a branch that starts above bottom. *)
TipAt(branch, bottom, k) == IF k = 0 THEN bottom ELSE branch[k]

(* A branch from above bottom up to top. *)
Linked(branch, bottom, top) ==
    /\ Len(branch) \in Nat /\ bottom \in Block /\ top = TipAt(branch, bottom, Len(branch))
    /\ \A k \in 1..Len(branch) : branch[k] \in Block /\ Parent[branch[k]] = TipAt(branch, bottom, k - 1)

LEMMA BranchLinked ==
    ASSUME NEW b \in Block, NEW f \in Chain[b]
    PROVE  /\ Linked(Branch(b, Height[f] + 1), f, b)
           /\ Branch(b, Height[f] + 1) \in Seq(Block)
           /\ \A k \in 1..Len(Branch(b, Height[f] + 1)) :
                 Branch(b, Height[f] + 1)[k] \in Chain[b] \ {Genesis}
<1> DEFINE low == Height[f] + 1
           br == Branch(b, low)
           n == Height[b] + 1 - low
<1>1. f \in Block /\ Height[f] \in Nat /\ Height[b] \in Nat /\ Height[f] <= Height[b]
  BY HeightOfAncestor
<1>2. low \in 0..(Height[b] + 1) /\ n \in Nat
  BY <1>1
<1>3. /\ br \in Seq(Block) /\ Len(br) = n
      /\ \A i \in 1..n : br[i] \in Chain[b] /\ Height[br[i]] = low + i - 1
  BY <1>2, BranchRight
<1> HIDE DEF br
<1>4. ASSUME NEW k \in 1..n
      PROVE  br[k] \in Block /\ br[k] # Genesis /\ Parent[br[k]] = TipAt(br, f, k - 1)
  <2>1. br[k] \in Chain[b] /\ br[k] \in Block /\ Height[br[k]] = low + k - 1
    BY <1>3, ChainLeast
  <2>2. br[k] # Genesis
    BY <1>1, <1>2, <2>1, HeightStep
  <2>3. /\ Parent[br[k]] \in Block /\ Parent[br[k]] \in Chain[b]
        /\ Height[Parent[br[k]]] = low + k - 2
    <3>1. Parent[br[k]] \in Chain[b] /\ Parent[br[k]] \in Block
      BY <2>1, <2>2, ChainLeast DEF Closed
    <3>2. Height[br[k]] = Height[Parent[br[k]]] + 1 /\ Height[Parent[br[k]]] \in Nat
      BY <2>1, <2>2, <3>1, HeightStep
    <3> QED BY <1>1, <2>1, <3>1, <3>2
  <2>4. TipAt(br, f, k - 1) \in Chain[b] /\ Height[TipAt(br, f, k - 1)] = low + k - 2
    <3>1. CASE k = 1
      BY <1>1, <3>1 DEF TipAt
    <3>2. CASE k # 1
      <4>1. k - 1 \in 1..n /\ k - 1 # 0
        BY <1>2, <3>2
      <4>2. br[k - 1] \in Chain[b] /\ Height[br[k - 1]] = low + (k - 1) - 1
        BY <1>3, <4>1
      <4> QED BY <1>1, <4>1, <4>2 DEF TipAt
    <3> QED BY <3>1, <3>2
  <2> QED BY <2>1, <2>2, <2>3, <2>4, SameHeight
<1>5. b = TipAt(br, f, n)
  <2>1. CASE n = 0
    <3>1. Height[f] = Height[b]
      BY <1>1, <2>1
    <3> QED BY <2>1, <3>1, HeightOfAncestor DEF TipAt
  <2>2. CASE n # 0
    <3>1. n \in 1..n
      BY <1>2, <2>2
    <3>2. br[n] \in Chain[b] /\ Height[br[n]] = Height[b]
      BY <1>1, <1>3, <3>1
    <3> QED BY <2>2, <3>2, HeightOfAncestor DEF TipAt
  <2> QED BY <2>1, <2>2
<1> QED BY <1>1, <1>2, <1>3, <1>4, <1>5 DEF Linked, br

(* Every block of the branch can be undone with undodata. *)
Undoable(branch, undodata) ==
    \A k \in 1..Len(branch) : Valid(branch[k]) /\ HasUndo(branch[k], undodata)

(* A view that follows the chain down a branch: every outpoint has its     *)
(* value in the UTXO set of b, or is still as in c, nothing on the way     *)
(* having changed it.                                                      *)
Between(x, c, b, top) ==
    \A o \in Outpoints : \/ x[o] = UtxoAt[b][o]
                         \/ x[o] = c[o] /\ UtxoAt[b][o] = UtxoAt[top][o]

LEMMA RolledBackRuns ==
    ASSUME NEW c \in CoinView, NEW branch, Len(branch) \in Nat, GenesisKept,
           \A k \in 1..Len(branch) : branch[k] \in Block, Undoable(branch, diskUndo)
    PROVE  /\ RolledBack(c, branch) \in [1..(Len(branch) + 1) -> OkView]
           /\ RolledBack(c, branch)[Len(branch) + 1].coins = c /\ RolledBack(c, branch)[Len(branch) + 1].clean
           /\ \A k \in 1..Len(branch) :
                 LET x == RolledBack(c, branch)[k + 1]
                 IN  RolledBack(c, branch)[k] = IF x.failed THEN x ELSE DisconnectBlock(x.coins, branch[k], diskUndo)
<1> DEFINE N == Len(branch)
           v == [coins |-> c, clean |-> TRUE, failed |-> FALSE]
           Turn(x, k) == IF x.failed THEN x ELSE DisconnectBlock(x.coins, branch[k], diskUndo)
           Run(d) == d = [k \in 1..(N + 1) |-> IF k = N + 1 THEN v ELSE Turn(d[k + 1], k)]
           step == [k \in 1..N |-> [x \in OkView |-> Turn(x, k)]]
           w == RolledBack(c, branch)
<1>1. w = CHOOSE d : Run(d)
  BY DEF RolledBack
<1>2. v \in OkView /\ v.coins = c /\ v.clean
  BY DEF OkView
<1>3. ASSUME NEW k \in 1..N, NEW x \in OkView PROVE Turn(x, k) \in OkView
  <2>1. branch[k] \in Block /\ Valid(branch[k]) /\ HasUndo(branch[k], diskUndo)
    BY DEF Undoable
  <2>2. x.coins \in CoinView
    BY DEF OkView
  <2>3. DisconnectBlock(x.coins, branch[k], diskUndo) \in OkView
    BY <2>1, <2>2, DisconnectEffect
  <2> QED BY <2>3
<1> HIDE DEF v, Turn
<1>4. Body(step, N, OkView)
  BY <1>3 DEF Body
<1>5. PICK f : RunDown(f, step, N, OkView, v)
  <2> HIDE DEF N, step
  <2> QED BY <1>2, <1>4, LoopRunsDown DEF N
<1>6. /\ f \in [1..(N + 1) -> OkView] /\ f[N + 1] = v
      /\ \A k \in 1..N : f[k] = step[k][f[k + 1]]
  <2> HIDE DEF N, step
  <2> QED BY <1>5 DEF RunDown
<1>7. \A k \in 1..N : f[k] = Turn(f[k + 1], k)
  <2> SUFFICES ASSUME NEW k \in 1..N PROVE f[k] = Turn(f[k + 1], k)
    OBVIOUS
  <2>1. k + 1 \in 1..(N + 1)
    OBVIOUS
  <2>2. f[k + 1] \in OkView /\ f[k] = step[k][f[k + 1]]
    BY <1>6, <2>1
  <2> QED BY <2>2
<1>8. Run(f)
  <2>1. \A k \in 1..(N + 1) : k # N + 1 => k \in 1..N
    OBVIOUS
  <2>2. \A k \in 1..(N + 1) : f[k] = IF k = N + 1 THEN v ELSE Turn(f[k + 1], k)
    BY <1>6, <1>7, <2>1
  <2>3. f = [k \in 1..(N + 1) |-> f[k]]
    BY <1>6
  <2> HIDE DEF N
  <2> QED BY <2>2, <2>3
<1>9. Run(w)
  <2> HIDE DEF Run, w
  <2> QED BY <1>1, <1>8
<1> HIDE DEF w
<1>10. N + 1 \in 1..(N + 1) /\ \A k \in 1..N : k \in 1..(N + 1) /\ k # N + 1
  OBVIOUS
<1>11. w[N + 1] = v /\ \A k \in 1..N : w[k] = Turn(w[k + 1], k)
  <2> HIDE DEF N
  <2>1. w = [k \in 1..(N + 1) |-> IF k = N + 1 THEN v ELSE Turn(w[k + 1], k)]
    BY <1>9
  <2> QED BY <2>1, <1>10
<1>12. w = [k \in 1..(N + 1) |-> w[k]]
  <2> HIDE DEF N
  <2> QED BY <1>9
<1> DEFINE T == {k \in 1..(N + 1) : w[k] \in OkView}
<1>13. N + 1 \in T /\ \A k \in 1..N : k + 1 \in T => k \in T
  BY <1>2, <1>3, <1>10, <1>11
<1>14. 1..(N + 1) \subseteq T
  <2> HIDE DEF T, N
  <2> QED BY <1>13, RoundsDown DEF N
<1> QED BY <1>2, <1>11, <1>12, <1>14 DEF w, Turn

(* A roll back never fails, and from any view on top leaves one that       *)
(* follows the chain at the bottom.                                        *)
LEMMA RollbackEffect ==
    ASSUME NEW c \in CoinView, NEW branch, NEW f, NEW top, Linked(branch, f, top),
           GenesisKept, Undoable(branch, diskUndo)
    PROVE  Rollback(c, branch) \in OkView /\ Between(Rollback(c, branch).coins, c, f, top)
<1> DEFINE N == Len(branch)
           w == RolledBack(c, branch)
           tip(k) == TipAt(branch, f, k)
           T == {k \in 1..(N + 1) : Between(w[k].coins, c, tip(k - 1), top)}
<1>1. N \in Nat /\ top = tip(N) /\ \A k \in 1..N : branch[k] \in Block /\ Parent[branch[k]] = tip(k - 1)
  BY DEF Linked
<1>2. /\ w \in [1..(N + 1) -> OkView] /\ w[N + 1].coins = c
      /\ \A k \in 1..N : w[k] = IF w[k + 1].failed THEN w[k + 1]
                                ELSE DisconnectBlock(w[k + 1].coins, branch[k], diskUndo)
  BY <1>1, RolledBackRuns
<1> HIDE DEF w, tip
<1>3. N + 1 \in T
  <2>1. N + 1 \in 1..(N + 1) /\ (N + 1) - 1 = N
    BY <1>1
  <2> HIDE DEF N
  <2> QED BY <1>1, <1>2, <2>1 DEF Between
<1>4. ASSUME NEW k \in 1..N, k + 1 \in T PROVE k \in T
  <2>1. k + 1 \in 1..(N + 1) /\ k \in 1..(N + 1) /\ (k + 1) - 1 = k /\ k # 0
    BY <1>1
  <2>2. PICK b \in Block : b = branch[k] /\ Parent[b] = tip(k - 1) /\ b = tip(k)
    BY <1>1, <2>1 DEF tip, TipAt
  <2>3. Valid(b) /\ HasUndo(b, diskUndo)
    BY <2>2 DEF Undoable
  <2>4. w[k + 1] \in OkView /\ w[k + 1].coins \in CoinView /\ ~w[k + 1].failed
    BY <1>2, <2>1 DEF OkView
  <2>5. w[k] = DisconnectBlock(w[k + 1].coins, b, diskUndo)
    BY <1>2, <2>2, <2>4
  <2>6. \A o \in Outpoints :
            w[k].coins[o] = IF Touches(b, o) THEN UtxoAt[Parent[b]][o] ELSE w[k + 1].coins[o]
    BY <2>3, <2>4, <2>5, DisconnectEffect
  <2>7. \A o \in Outpoints : ~Touches(b, o) => UtxoAt[b][o] = UtxoAt[Parent[b]][o]
    BY <2>3, Untouched
  <2>8. Between(w[k + 1].coins, c, b, top)
    BY <1>4, <2>1, <2>2
  <2>9. Between(w[k].coins, c, Parent[b], top)
    BY <2>6, <2>7, <2>8 DEF Between
  <2> QED BY <2>1, <2>2, <2>9
<1>5. 1 \in T
  <2>1. 1 \in 1..(N + 1)
    BY <1>1
  <2> HIDE DEF T, N
  <2> QED BY <1>1, <1>3, <1>4, <2>1, RoundsDown
<1>6. Rollback(c, branch) = w[1] /\ w[1] \in OkView /\ tip(1 - 1) = f
  BY <1>1, <1>2 DEF Rollback, w, tip, TipAt
<1> QED BY <1>5, <1>6

LEMMA VerifiedRuns ==
    ASSUME NEW c \in CoinView, NEW branch, Len(branch) \in Nat, GenesisKept,
           \A k \in 1..Len(branch) : branch[k] \in Block, Undoable(branch, undo)
    PROVE  /\ Verified(c, branch) \in [1..(Len(branch) + 1) -> OkView]
           /\ Verified(c, branch)[Len(branch) + 1].coins = c /\ Verified(c, branch)[Len(branch) + 1].clean
           /\ \A k \in 1..Len(branch) :
                 LET x == Verified(c, branch)[k + 1]
                 IN  Verified(c, branch)[k] = IF DisconnectOK(x) THEN DisconnectBlock(x.coins, branch[k], undo) ELSE x
<1> DEFINE N == Len(branch)
           v == [coins |-> c, clean |-> TRUE, failed |-> FALSE]
           Turn(x, k) == IF DisconnectOK(x) THEN DisconnectBlock(x.coins, branch[k], undo) ELSE x
           Run(d) == d = [k \in 1..(N + 1) |-> IF k = N + 1 THEN v ELSE Turn(d[k + 1], k)]
           step == [k \in 1..N |-> [x \in OkView |-> Turn(x, k)]]
           w == Verified(c, branch)
<1>1. w = CHOOSE d : Run(d)
  BY DEF Verified
<1>2. v \in OkView /\ v.coins = c /\ v.clean
  BY DEF OkView
<1>3. ASSUME NEW k \in 1..N, NEW x \in OkView PROVE Turn(x, k) \in OkView
  <2>1. branch[k] \in Block /\ Valid(branch[k]) /\ HasUndo(branch[k], undo)
    BY DEF Undoable
  <2>2. x.coins \in CoinView
    BY DEF OkView
  <2>3. DisconnectBlock(x.coins, branch[k], undo) \in OkView
    BY <2>1, <2>2, DisconnectEffect
  <2> QED BY <2>3
<1> HIDE DEF v, Turn
<1>4. Body(step, N, OkView)
  BY <1>3 DEF Body
<1>5. PICK f : RunDown(f, step, N, OkView, v)
  <2> HIDE DEF N, step
  <2> QED BY <1>2, <1>4, LoopRunsDown DEF N
<1>6. /\ f \in [1..(N + 1) -> OkView] /\ f[N + 1] = v
      /\ \A k \in 1..N : f[k] = step[k][f[k + 1]]
  <2> HIDE DEF N, step
  <2> QED BY <1>5 DEF RunDown
<1>7. \A k \in 1..N : f[k] = Turn(f[k + 1], k)
  <2> SUFFICES ASSUME NEW k \in 1..N PROVE f[k] = Turn(f[k + 1], k)
    OBVIOUS
  <2>1. k + 1 \in 1..(N + 1)
    OBVIOUS
  <2>2. f[k + 1] \in OkView /\ f[k] = step[k][f[k + 1]]
    BY <1>6, <2>1
  <2> QED BY <2>2
<1>8. Run(f)
  <2>1. \A k \in 1..(N + 1) : k # N + 1 => k \in 1..N
    OBVIOUS
  <2>2. \A k \in 1..(N + 1) : f[k] = IF k = N + 1 THEN v ELSE Turn(f[k + 1], k)
    BY <1>6, <1>7, <2>1
  <2>3. f = [k \in 1..(N + 1) |-> f[k]]
    BY <1>6
  <2> HIDE DEF N
  <2> QED BY <2>2, <2>3
<1>9. Run(w)
  <2> HIDE DEF Run, w
  <2> QED BY <1>1, <1>8
<1> HIDE DEF w
<1>10. N + 1 \in 1..(N + 1) /\ \A k \in 1..N : k \in 1..(N + 1) /\ k # N + 1
  OBVIOUS
<1>11. w[N + 1] = v /\ \A k \in 1..N : w[k] = Turn(w[k + 1], k)
  <2> HIDE DEF N
  <2>1. w = [k \in 1..(N + 1) |-> IF k = N + 1 THEN v ELSE Turn(w[k + 1], k)]
    BY <1>9
  <2> QED BY <2>1, <1>10
<1>12. w = [k \in 1..(N + 1) |-> w[k]]
  <2> HIDE DEF N
  <2> QED BY <1>9
<1> DEFINE T == {k \in 1..(N + 1) : w[k] \in OkView}
<1>13. N + 1 \in T /\ \A k \in 1..N : k + 1 \in T => k \in T
  BY <1>2, <1>3, <1>10, <1>11
<1>14. 1..(N + 1) \subseteq T
  <2> HIDE DEF T, N
  <2> QED BY <1>13, RoundsDown DEF N
<1> QED BY <1>2, <1>11, <1>12, <1>14 DEF w, Turn

(* From the UTXO set on top, every block of the branch is disconnected     *)
(* cleanly.                                                                *)
LEMMA VerifiedEffect ==
    ASSUME NEW branch, NEW f, NEW top \in Block, Linked(branch, f, top),
           GenesisKept, Undoable(branch, undo)
    PROVE  DisconnectOK(Verified(UtxoAt[top], branch)[1])
<1> DEFINE N == Len(branch)
           c == UtxoAt[top]
           w == Verified(c, branch)
           tip(k) == TipAt(branch, f, k)
           T == {k \in 1..(N + 1) : w[k].clean /\ w[k].coins = UtxoAt[tip(k - 1)]}
<1>1. /\ N \in Nat /\ top = tip(N) /\ c \in CoinView
      /\ \A k \in 1..N : branch[k] \in Block /\ Parent[branch[k]] = tip(k - 1)
  BY UtxoType DEF Linked
<1>2. /\ w \in [1..(N + 1) -> OkView] /\ w[N + 1].coins = c /\ w[N + 1].clean
      /\ \A k \in 1..N : w[k] = IF DisconnectOK(w[k + 1])
                                THEN DisconnectBlock(w[k + 1].coins, branch[k], undo)
                                ELSE w[k + 1]
  <2> HIDE DEF c
  <2> QED BY <1>1, VerifiedRuns
<1> HIDE DEF w, tip
<1>3. N + 1 \in T
  <2>1. N + 1 \in 1..(N + 1) /\ (N + 1) - 1 = N
    BY <1>1
  <2> HIDE DEF N
  <2> QED BY <1>1, <1>2, <2>1
<1>4. ASSUME NEW k \in 1..N, k + 1 \in T PROVE k \in T
  <2>1. k + 1 \in 1..(N + 1) /\ k \in 1..(N + 1) /\ (k + 1) - 1 = k /\ k # 0
    BY <1>1
  <2>2. PICK b \in Block : b = branch[k] /\ Parent[b] = tip(k - 1) /\ b = tip(k)
    BY <1>1, <2>1 DEF tip, TipAt
  <2>3. Valid(b) /\ HasUndo(b, undo) /\ UtxoAt[b] \in CoinView
    BY <2>2, UtxoType DEF Undoable
  <2>4. w[k + 1].clean /\ w[k + 1].coins = UtxoAt[b] /\ ~w[k + 1].failed
    BY <1>2, <1>4, <2>1, <2>2 DEF OkView
  <2>5. w[k] = DisconnectBlock(UtxoAt[b], b, undo)
    BY <1>2, <2>2, <2>4 DEF DisconnectOK
  <2>6. w[k].clean /\ w[k].coins = UtxoAt[Parent[b]]
    BY <2>3, <2>5, DisconnectEffect
  <2> QED BY <2>1, <2>2, <2>6
<1>5. 1 \in T
  <2>1. 1 \in 1..(N + 1)
    BY <1>1
  <2> HIDE DEF T, N
  <2> QED BY <1>1, <1>3, <1>4, <2>1, RoundsDown
<1>6. w[1] \in OkView
  BY <1>1, <1>2
<1> QED BY <1>5, <1>6 DEF DisconnectOK, OkView, w

LEMMA RolledForwardRuns ==
    ASSUME NEW c \in CoinView, NEW branch, Len(branch) \in Nat,
           \A k \in 1..Len(branch) : branch[k] \in Block /\ Valid(branch[k])
    PROVE  /\ RolledForward(c, branch) \in [0..Len(branch) -> CoinView]
           /\ RolledForward(c, branch)[0] = c
           /\ \A k \in 1..Len(branch) :
                 RolledForward(c, branch)[k] = AfterBlock(RolledForward(c, branch)[k - 1], branch[k])
<1> DEFINE N == Len(branch)
           Run(d) == d = [k \in 0..N |-> IF k = 0 THEN c ELSE AfterBlock(d[k - 1], branch[k])]
           step == [k \in 1..N |-> [x \in CoinView |-> AfterBlock(x, branch[k])]]
           after == RolledForward(c, branch)
<1>1. after = CHOOSE d : Run(d)
  BY DEF RolledForward
<1>2. \A k \in 1..N, x \in CoinView : AfterBlock(x, branch[k]) \in CoinView
  BY BlockEffect
<1>3. Body(step, N, CoinView)
  BY <1>2 DEF Body
<1>4. PICK f : RunUp(f, step, N, CoinView, c)
  <2> HIDE DEF N, step
  <2> QED BY <1>3, LoopRuns DEF N
<1>5. f \in [0..N -> CoinView] /\ f[0] = c /\ \A k \in 1..N : f[k] = step[k][f[k - 1]]
  <2> HIDE DEF N, step
  <2> QED BY <1>4 DEF RunUp
<1>6. \A k \in 1..N : f[k] = AfterBlock(f[k - 1], branch[k])
  <2> SUFFICES ASSUME NEW k \in 1..N PROVE f[k] = AfterBlock(f[k - 1], branch[k])
    OBVIOUS
  <2>1. k - 1 \in 0..N
    OBVIOUS
  <2>2. f[k - 1] \in CoinView /\ f[k] = step[k][f[k - 1]]
    BY <1>5, <2>1
  <2> QED BY <2>2
<1>7. Run(f)
  <2>1. \A k \in 0..N : k # 0 => k \in 1..N
    OBVIOUS
  <2>2. \A k \in 0..N : f[k] = IF k = 0 THEN c ELSE AfterBlock(f[k - 1], branch[k])
    BY <1>5, <1>6, <2>1
  <2>3. f = [k \in 0..N |-> f[k]]
    BY <1>5
  <2> HIDE DEF N
  <2> QED BY <2>2, <2>3
<1>8. Run(after)
  <2> HIDE DEF Run, after
  <2> QED BY <1>1, <1>7
<1> HIDE DEF after
<1>9. 0 \in 0..N /\ \A k \in 1..N : k \in 0..N /\ k # 0
  OBVIOUS
<1>10. after[0] = c /\ \A k \in 1..N : after[k] = AfterBlock(after[k - 1], branch[k])
  <2> HIDE DEF N
  <2>1. after = [k \in 0..N |-> IF k = 0 THEN c ELSE AfterBlock(after[k - 1], branch[k])]
    BY <1>8
  <2> QED BY <2>1, <1>9
<1>11. after = [k \in 0..N |-> after[k]]
  <2> HIDE DEF N
  <2> QED BY <1>8
<1> DEFINE T == {k \in 0..N : after[k] \in CoinView}
<1>12. 0 \in T /\ \A k \in 1..N : k - 1 \in T => k \in T
  BY <1>2, <1>9, <1>10
<1>13. 0..N \subseteq T
  <2> HIDE DEF T, N
  <2> QED BY <1>12, RoundsUp DEF N
<1> QED BY <1>10, <1>11, <1>13 DEF after

(* Rolling forward from a mixture of the UTXO sets of the two ends leaves  *)
(* the upper one.                                                          *)
LEMMA RollforwardEffect ==
    ASSUME NEW c \in CoinView, NEW branch, NEW f, NEW top \in Block, Linked(branch, f, top),
           \A k \in 1..Len(branch) : Valid(branch[k]),
           \A o \in Outpoints : c[o] \in {UtxoAt[f][o], UtxoAt[top][o]}
    PROVE  Rollforward(c, branch) = UtxoAt[top]
<1> DEFINE N == Len(branch)
           d == RolledForward(c, branch)
           tip(k) == TipAt(branch, f, k)
           T == {k \in 0..N : \A o \in Outpoints : d[k][o] \in {UtxoAt[tip(k)][o], UtxoAt[top][o]}}
<1>1. /\ N \in Nat /\ top = tip(N) /\ tip(0) = f
      /\ \A k \in 1..N : branch[k] \in Block /\ Parent[branch[k]] = tip(k - 1)
  BY DEF Linked, TipAt
<1>2. /\ d \in [0..N -> CoinView] /\ d[0] = c
      /\ \A k \in 1..N : d[k] = AfterBlock(d[k - 1], branch[k])
  BY <1>1, RolledForwardRuns
<1> HIDE DEF d, tip
<1>3. 0 \in T
  BY <1>1, <1>2
<1>4. ASSUME NEW k \in 1..N, k - 1 \in T PROVE k \in T
  <2>1. k \in 0..N /\ k - 1 \in 0..N /\ k # 0
    BY <1>1
  <2>2. PICK b \in Block : b = branch[k] /\ Parent[b] = tip(k - 1) /\ b = tip(k)
    BY <1>1, <2>1 DEF tip, TipAt
  <2>3. Valid(b) /\ d[k - 1] \in CoinView /\ d[k] = AfterBlock(d[k - 1], b)
    BY <1>2, <2>1, <2>2
  <2>4. \A o \in Outpoints : d[k][o] = IF Touches(b, o) THEN UtxoAt[b][o] ELSE d[k - 1][o]
    BY <2>3, BlockEffect
  <2>5. \A o \in Outpoints : ~Touches(b, o) => UtxoAt[b][o] = UtxoAt[Parent[b]][o]
    BY <2>3, Untouched
  <2>6. \A o \in Outpoints : d[k - 1][o] \in {UtxoAt[Parent[b]][o], UtxoAt[top][o]}
    BY <1>4, <2>2
  <2>7. \A o \in Outpoints : d[k][o] \in {UtxoAt[b][o], UtxoAt[top][o]}
    BY <2>4, <2>5, <2>6
  <2> QED BY <2>1, <2>2, <2>7
<1>5. N \in T /\ N \in 0..N
  <2>1. N \in 0..N
    BY <1>1
  <2> HIDE DEF T, N
  <2> QED BY <1>1, <1>3, <1>4, <2>1, RoundsUp
<1>6. \A o \in Outpoints : d[N][o] = UtxoAt[top][o]
  BY <1>1, <1>5
<1>7. d[N] \in CoinView /\ UtxoAt[top] \in CoinView
  BY <1>2, <1>5, UtxoType
<1> QED BY <1>6, <1>7 DEF Rollforward, d, CoinView

(* ReplayBlocks brings a database torn between the UTXO sets of old and    *)
(* new to that of new.                                                     *)
LEMMA ReplayEffect ==
    ASSUME NEW old \in Block, NEW new \in Block, NEW c \in CoinView, GenesisKept,
           \A b \in (Chain[old] \cup Chain[new]) \ {Genesis} : Valid(b) /\ HasUndo(b, diskUndo),
           \A o \in Outpoints : c[o] \in {UtxoAt[new][o], UtxoAt[old][o]}
    PROVE  LET v == Rollback(c, OldBranch(old, new))
           IN  /\ v \in OkView
               /\ Rollforward(v.coins, NewBranch(old, new)) = UtxoAt[new]
               /\ ToSet(OldBranch(old, new) \o NewBranch(old, new)) \subseteq Chain[old] \cup Chain[new]
<1> DEFINE f == LastCommonAncestor(old, new)
           ob == Branch(old, Height[f] + 1)
           nb == Branch(new, Height[f] + 1)
           v == Rollback(c, ob)
<1>1. f \in Block /\ f \in Chain[old] /\ f \in Chain[new]
  BY CommonChain
<1>2. OldBranch(old, new) = ob /\ NewBranch(old, new) = nb
  BY TreeAssumption DEF OldBranch, NewBranch, ForkHeight
<1> HIDE DEF f
<1>3. Linked(ob, f, old) /\ ob \in Seq(Block) /\ \A k \in 1..Len(ob) : ob[k] \in Chain[old] \ {Genesis}
  BY <1>1, BranchLinked
<1>4. Linked(nb, f, new) /\ nb \in Seq(Block) /\ \A k \in 1..Len(nb) : nb[k] \in Chain[new] \ {Genesis}
  BY <1>1, BranchLinked
<1> HIDE DEF ob, nb
<1>5. Undoable(ob, diskUndo) /\ \A k \in 1..Len(nb) : Valid(nb[k])
  BY <1>3, <1>4 DEF Undoable
<1>6. v \in OkView /\ Between(v.coins, c, f, old)
  BY <1>3, <1>5, RollbackEffect
<1> HIDE DEF v
<1>7. v.coins \in CoinView /\ \A o \in Outpoints : v.coins[o] \in {UtxoAt[f][o], UtxoAt[new][o]}
  BY <1>6 DEF Between, OkView
<1>8. Rollforward(v.coins, nb) = UtxoAt[new]
  BY <1>4, <1>5, <1>7, RollforwardEffect
<1>9. ToSet(ob \o nb) \subseteq Chain[old] \cup Chain[new]
  <2>1. ASSUME NEW i \in DOMAIN (ob \o nb) PROVE (ob \o nb)[i] \in Chain[old] \cup Chain[new]
    <3>1. /\ Len(ob) \in Nat /\ Len(nb) \in Nat /\ i \in 1..(Len(ob) + Len(nb))
          /\ (ob \o nb)[i] = IF i <= Len(ob) THEN ob[i] ELSE nb[i - Len(ob)]
      BY <1>3, <1>4
    <3>2. CASE i <= Len(ob)
      <4>1. i \in 1..Len(ob)
        BY <3>1, <3>2
      <4> QED BY <1>3, <3>1, <3>2, <4>1
    <3>3. CASE ~(i <= Len(ob))
      <4>1. i - Len(ob) \in 1..Len(nb)
        BY <3>1, <3>3
      <4> QED BY <1>4, <3>1, <3>3, <4>1
    <3> QED BY <3>2, <3>3
  <2> QED BY <2>1 DEF ToSet
<1> QED BY <1>2, <1>6, <1>8, <1>9 DEF v

(* VerifyDB accepts the UTXO set of a chain it can undo. *)
LEMMA VerifyEffect ==
    ASSUME NEW b \in Block, GenesisKept,
           \A a \in Chain[b] \ {Genesis} : Valid(a) /\ HasUndo(a, undo)
    PROVE  VerifyDB(UtxoAt[b], b)
<1> DEFINE h == Height[b] + 1 - CheckBlocks
           low == Max({1, h})
<1>1. Height[b] \in Nat /\ CheckBlocks \in Nat
  BY HeightStep, BoundsAssumption
<1>2. low \in {1, h} /\ \A y \in {1, h} : low >= y
  <2>1. \E x \in {1, h} : \A y \in {1, h} : x >= y
    BY <1>1
  <2> HIDE DEF h
  <2> QED BY <2>1 DEF Max
<1> HIDE DEF low
<1>3. low - 1 \in 0..Height[b]
  BY <1>1, <1>2
<1>4. PICK f \in Chain[b] : Height[f] = low - 1
  BY <1>3, AncestorAt
<1>5. Height[f] + 1 = low
  BY <1>1, <1>2, <1>4
<1> DEFINE br == Branch(b, low)
<1>6. Linked(br, f, b) /\ \A k \in 1..Len(br) : br[k] \in Chain[b] \ {Genesis}
  BY <1>5, BranchLinked
<1> HIDE DEF br
<1>7. Undoable(br, undo)
  BY <1>6 DEF Undoable
<1> QED BY <1>6, <1>7, VerifiedEffect DEF VerifyDB, br, low, h
-----------------------------------------------------------------------------
(* The inductive invariant. *)

(* Undo data of valid blocks, of whole chains, whose blocks are there. *)
UndoRight(u, idx) ==
    /\ Genesis \in DOMAIN u /\ DOMAIN u \subseteq idx /\ idx \subseteq Block
    /\ Closed(DOMAIN u)
    /\ \A b \in DOMAIN u \ {Genesis} : Connected(b) /\ u[b] = BlockUndo(UtxoAt[Parent[b]], b)

Phases == {"running", "flushing", "down", "replaying", "loading"}

Types ==
    /\ coins \in CoinView /\ db \in CoinView
    /\ pending \subseteq Outpoints /\ pc \in Phases

(* What the process knows, beyond the disk, while it is up. *)
MemoryRight ==
    /\ IF pc = "down" THEN index = {} /\ undo = <<>>
       ELSE UndoRight(undo, index) /\ DOMAIN diskUndo \subseteq DOMAIN undo
    /\ IF pc \in {"running", "flushing"} THEN active \in DOMAIN undo /\ coins = UtxoAt[active]
       ELSE active = NoBlock

(* The database holds one UTXO set, or is between two. *)
DbRight ==
    /\ UndoRight(diskUndo, diskIndex)
    /\ IF heads = <<>> THEN best \in DOMAIN diskUndo /\ db = UtxoAt[best]
       ELSE /\ best = NoBlock /\ heads \in (DOMAIN diskUndo) \X (DOMAIN diskUndo)
            /\ \A o \in Outpoints : db[o] \in {UtxoAt[heads[1]][o], UtxoAt[heads[2]][o]}
    /\ pc \in {"running", "loading"} => heads = <<>>

(* A BatchWrite moves it to the UTXO set of its target, named first among  *)
(* the heads from the first batch on.                                      *)
WriteRight ==
    IF pc \in {"flushing", "replaying"}
    THEN /\ target \in DOMAIN diskUndo /\ coins = UtxoAt[target]
         /\ heads # <<>> => heads[1] = target
         /\ \A o \in Outpoints : o \notin pending => db[o] = coins[o]
         /\ pc = "flushing" => target = active
         /\ pc = "replaying" => heads # <<>>
    ELSE target = NoBlock

Inv == Types /\ MemoryRight /\ DbRight /\ WriteRight
(* What the undo data of a set of blocks gives. *)
LEMMA UndoFacts ==
    ASSUME NEW u, NEW idx, UndoRight(u, idx), NEW b \in DOMAIN u
    PROVE  /\ b \in Block /\ b # NoBlock /\ Chain[b] \subseteq DOMAIN u /\ Chain[b] \subseteq idx
           /\ Valid(b) /\ UtxoAt[b] \in CoinView
           /\ b # Genesis => HasUndo(b, u)
           /\ \A a \in Chain[b] \ {Genesis} : Valid(a) /\ HasUndo(a, u)
<1>1. /\ DOMAIN u \in SUBSET Block /\ Closed(DOMAIN u)
      /\ \A a \in DOMAIN u \ {Genesis} : Connected(a) /\ u[a] = BlockUndo(UtxoAt[Parent[a]], a)
      /\ DOMAIN u \subseteq idx
  BY DEF UndoRight
<1>2. Connected(Genesis)
  <2>1. 2..Len(Vtx[Genesis]) = {}
    BY TxAssumption
  <2> QED BY <2>1 DEF Connected, Connectable
<1>3. ASSUME NEW a \in DOMAIN u PROVE a \in Block /\ Chain[a] \subseteq DOMAIN u /\ Valid(a)
  <2>1. a \in Block /\ Chain[a] \subseteq DOMAIN u
    BY <1>1, ChainLeast
  <2> QED BY <1>1, <1>2, <2>1 DEF Valid
<1>4. b # NoBlock /\ UtxoAt[b] \in CoinView
  BY <1>3, TreeAssumption, UtxoType
<1> QED BY <1>1, <1>3, <1>4 DEF HasUndo

LEMMA InvInit ==
    ASSUME GenesisKept, Init PROVE Inv
<1>1. /\ index = {Genesis} /\ diskIndex = index /\ undo = [b \in {Genesis} |-> <<>>] /\ diskUndo = undo
      /\ active = Genesis /\ coins = AfterBlock(NoCoins, Genesis) /\ db = coins /\ best = active
      /\ heads = <<>> /\ target = NoBlock /\ pending = {} /\ pc = "running"
  BY DEF GenesisKept, Init
<1>2. Genesis \in Block /\ Parent[Genesis] = NoBlock
  BY TreeAssumption
<1>3. DOMAIN undo = {Genesis} /\ UndoRight(undo, index)
  BY <1>1, <1>2 DEF UndoRight, Closed
<1>4. Valid(Genesis)
  BY <1>3, UndoFacts
<1>5. UtxoAt[NoBlock] = NoCoins
  <2>1. \A o \in Outpoints : UtxoAt[NoBlock][o] = Spent
    BY ChainOfNone, UtxoNone
  <2>2. UtxoAt[NoBlock] \in CoinView
    BY UtxoType
  <2> QED BY <2>1, <2>2 DEF CoinView, NoCoins
<1>6. coins = UtxoAt[Genesis] /\ UtxoAt[Genesis] \in CoinView
  BY <1>1, <1>2, <1>4, <1>5, BlockApplied, UtxoType
<1> QED BY <1>1, <1>3, <1>6 DEF Inv, Types, Phases, MemoryRight, DbRight, WriteRight

LEMMA AcceptKept ==
    ASSUME Inv, NEW b \in Block, AcceptBlock(b) PROVE Inv'
<1>1. UndoRight(undo, index)'
  BY DEF Inv, MemoryRight, UndoRight, AcceptBlock
<1>2. DbRight'
  BY DEF Inv, DbRight, UndoRight, AcceptBlock, disk, database
<1> QED BY <1>1, <1>2 DEF Inv, Types, MemoryRight, WriteRight, AcceptBlock, disk, database, writing

LEMMA ConnectKept ==
    ASSUME Inv, NEW b \in Block, ConnectTip(b) PROVE Inv'
<1>1. /\ pc = "running" /\ b \in index /\ Parent[b] = active /\ Connectable(coins, b)
      /\ coins' = AfterBlock(coins, b) /\ undo' = WriteUndoDataForBlock(b) /\ active' = b
      /\ index' = index /\ pc' = pc /\ target' = target /\ pending' = pending
      /\ diskIndex' = diskIndex /\ diskUndo' = diskUndo /\ db' = db /\ best' = best /\ heads' = heads
  BY DEF ConnectTip, disk, database, writing
<1>2. /\ UndoRight(undo, index) /\ DOMAIN diskUndo \subseteq DOMAIN undo
      /\ active \in DOMAIN undo /\ coins = UtxoAt[active]
  BY <1>1 DEF Inv, MemoryRight
<1>3. active \in Block /\ active # NoBlock /\ Valid(active)
  BY <1>2, UndoFacts
<1>4. b # Genesis /\ Connected(b) /\ Valid(b)
  <2>1. b # Genesis
    BY <1>1, <1>3, TreeAssumption
  <2>2. Connected(b)
    BY <1>1, <1>2 DEF Connected
  <2>3. Chain[b] = Chain[active] \cup {b}
    BY <1>1, ChainBelow
  <2> QED BY <2>1, <2>2, <2>3, <1>3 DEF Valid
<1>5. coins' = UtxoAt[b] /\ coins' \in CoinView
  BY <1>1, <1>2, <1>4, BlockApplied, UtxoType
<1>6. /\ DOMAIN undo' = DOMAIN undo \cup {b}
      /\ \A a \in DOMAIN undo : undo'[a] = undo[a]
      /\ b \notin DOMAIN undo => undo'[b] = BlockUndo(UtxoAt[Parent[b]], b)
  BY <1>1, <1>2 DEF WriteUndoDataForBlock
<1>7. UndoRight(undo, index)'
  <2>1. Closed(DOMAIN undo')
    BY <1>1, <1>2, <1>6 DEF UndoRight, Closed
  <2>2. \A a \in DOMAIN undo' \ {Genesis} : Connected(a) /\ undo'[a] = BlockUndo(UtxoAt[Parent[a]], a)
    BY <1>2, <1>4, <1>6 DEF UndoRight
  <2> QED BY <1>1, <1>2, <1>6, <2>1, <2>2 DEF UndoRight
<1>8. MemoryRight'
  BY <1>1, <1>2, <1>5, <1>6, <1>7 DEF MemoryRight
<1>9. DbRight' /\ WriteRight'
  BY <1>1 DEF Inv, DbRight, UndoRight, WriteRight
<1> QED BY <1>1, <1>5, <1>8, <1>9 DEF Inv, Types

LEMMA DisconnectKept ==
    ASSUME GenesisKept, Inv, DisconnectTip PROVE Inv'
<1>1. /\ pc = "running" /\ active \notin {NoBlock, Genesis}
      /\ coins' = DisconnectBlock(coins, active, undo).coins /\ active' = Parent[active]
      /\ index' = index /\ undo' = undo /\ pc' = pc /\ target' = target /\ pending' = pending
      /\ diskIndex' = diskIndex /\ diskUndo' = diskUndo /\ db' = db /\ best' = best /\ heads' = heads
  BY DEF DisconnectTip, disk, database, writing
<1>2. /\ UndoRight(undo, index) /\ DOMAIN diskUndo \subseteq DOMAIN undo
      /\ active \in DOMAIN undo /\ coins = UtxoAt[active]
  BY <1>1 DEF Inv, MemoryRight
<1>3. active \in Block /\ Valid(active) /\ HasUndo(active, undo) /\ UtxoAt[active] \in CoinView
  BY <1>1, <1>2, UndoFacts
<1>4. coins' = UtxoAt[Parent[active]]
  BY <1>1, <1>2, <1>3, DisconnectEffect
<1>5. Parent[active] \in DOMAIN undo
  BY <1>1, <1>2 DEF UndoRight, Closed
<1>6. UtxoAt[Parent[active]] \in CoinView
  BY <1>2, <1>5, UndoFacts
<1>7. MemoryRight'
  BY <1>1, <1>2, <1>4, <1>5 DEF MemoryRight, UndoRight
<1>8. DbRight' /\ WriteRight'
  BY <1>1 DEF Inv, DbRight, UndoRight, WriteRight
<1> QED BY <1>1, <1>4, <1>6, <1>7, <1>8 DEF Inv, Types

(* The index and the undo data go to the disk: whatever the database names *)
(* stays there.                                                            *)
LEMMA IndexWritten ==
    ASSUME Inv, pc = "running", WriteBlockIndex, UNCHANGED <<memory, database>>
    PROVE  /\ UndoRight(diskUndo, diskIndex)' /\ DOMAIN diskUndo' \subseteq DOMAIN undo'
           /\ UndoRight(undo, index)' /\ best' \in DOMAIN diskUndo' /\ active' \in DOMAIN diskUndo'
           /\ db' = UtxoAt[best'] /\ heads' = <<>> /\ coins' = UtxoAt[active']
<1>1. /\ diskIndex' = index /\ diskUndo' = undo /\ index' = index /\ undo' = undo
      /\ active' = active /\ coins' = coins /\ db' = db /\ best' = best /\ heads' = heads
  BY DEF WriteBlockIndex, memory, database
<1>2. /\ UndoRight(undo, index) /\ DOMAIN diskUndo \subseteq DOMAIN undo
      /\ active \in DOMAIN undo /\ coins = UtxoAt[active]
      /\ heads = <<>> /\ best \in DOMAIN diskUndo /\ db = UtxoAt[best]
  BY DEF Inv, MemoryRight, DbRight
<1> QED BY <1>1, <1>2 DEF UndoRight

LEMMA PeriodicKept ==
    ASSUME Inv, PeriodicWrite PROVE Inv'
<1>1. /\ pc = "running" /\ pc' = pc /\ target' = target /\ pending' = pending /\ coins' = coins /\ db' = db
      /\ active' = active
  BY DEF PeriodicWrite, memory, database, writing
<1>2. /\ UndoRight(diskUndo, diskIndex)' /\ DOMAIN diskUndo' \subseteq DOMAIN undo'
      /\ UndoRight(undo, index)' /\ best' \in DOMAIN diskUndo' /\ active' \in DOMAIN diskUndo'
      /\ db' = UtxoAt[best'] /\ heads' = <<>> /\ coins' = UtxoAt[active']
  BY <1>1, IndexWritten DEF PeriodicWrite
<1> QED BY <1>1, <1>2 DEF Inv, Types, MemoryRight, DbRight, WriteRight

LEMMA FlushKept ==
    ASSUME Inv, FlushStateToDisk PROVE Inv'
<1>1. /\ pc = "running" /\ pc' = "flushing" /\ target' = active /\ coins' = coins /\ db' = db
      /\ active' = active /\ pending' = {o \in Outpoints : coins[o] # db[o]}
  BY DEF FlushStateToDisk, BeginBatchWrite, memory, database
<1>2. /\ UndoRight(diskUndo, diskIndex)' /\ DOMAIN diskUndo' \subseteq DOMAIN undo'
      /\ UndoRight(undo, index)' /\ best' \in DOMAIN diskUndo' /\ active' \in DOMAIN diskUndo'
      /\ db' = UtxoAt[best'] /\ heads' = <<>> /\ coins' = UtxoAt[active']
  BY <1>1, IndexWritten DEF FlushStateToDisk
<1>3. \A o \in Outpoints : o \notin pending' => db'[o] = coins'[o]
  BY <1>1
<1>4. pending' \subseteq Outpoints
  BY <1>1
<1> QED BY <1>1, <1>2, <1>3, <1>4 DEF Inv, Types, Phases, MemoryRight, DbRight, WriteRight

(* What a batch writes. *)
LEMMA WrittenRight ==
    ASSUME Types, NEW S \in SUBSET pending
    PROVE  Written(S) \in CoinView /\ \A o \in Outpoints : Written(S)[o] = IF o \in S THEN coins[o] ELSE db[o]
BY DEF Types, CoinView, Written

LEMMA PartialKept ==
    ASSUME Inv, NEW S \in SUBSET pending, PartialBatch(S) PROVE Inv'
<1>1. /\ pc \in {"flushing", "replaying"} /\ db' = Written(S) /\ heads' = <<target, OldTip>> /\ best' = NoBlock
      /\ pending' = pending \ S /\ index' = index /\ undo' = undo /\ active' = active /\ coins' = coins
      /\ diskIndex' = diskIndex /\ diskUndo' = diskUndo /\ target' = target /\ pc' = pc
  BY DEF PartialBatch, memory, disk
<1>2. db' \in CoinView /\ \A o \in Outpoints : db'[o] = IF o \in S THEN coins[o] ELSE db[o]
  BY <1>1, WrittenRight DEF Inv
<1>3. /\ target \in DOMAIN diskUndo /\ coins = UtxoAt[target]
      /\ heads # <<>> => heads[1] = target
      /\ \A o \in Outpoints : o \notin pending => db[o] = coins[o]
  BY <1>1 DEF Inv, WriteRight
<1>4. OldTip \in DOMAIN diskUndo /\ \A o \in Outpoints : db[o] \in {UtxoAt[target][o], UtxoAt[OldTip][o]}
  <2>1. CASE heads = <<>>
    <3>1. best \in DOMAIN diskUndo /\ db = UtxoAt[best]
      BY <2>1 DEF Inv, DbRight
    <3>2. best # NoBlock
      BY <3>1, UndoFacts DEF Inv, DbRight
    <3> QED BY <3>1, <3>2 DEF OldTip
  <2>2. CASE heads # <<>>
    <3>1. /\ best = NoBlock /\ heads[2] \in DOMAIN diskUndo
          /\ \A o \in Outpoints : db[o] \in {UtxoAt[heads[1]][o], UtxoAt[heads[2]][o]}
      BY <2>2 DEF Inv, DbRight
    <3> QED BY <1>3, <2>2, <3>1 DEF OldTip
  <2> QED BY <2>1, <2>2
<1>5. heads' # <<>> /\ heads'[1] = target /\ heads'[2] = OldTip /\ heads' \in (DOMAIN diskUndo) \X (DOMAIN diskUndo)
  BY <1>1, <1>3, <1>4
<1>6. \A o \in Outpoints : db'[o] \in {UtxoAt[target][o], UtxoAt[OldTip][o]}
  BY <1>2, <1>3, <1>4
<1>7. \A o \in Outpoints : o \notin pending' => db'[o] = coins'[o]
  BY <1>1, <1>2, <1>3
<1>8. Types'
  BY <1>1, <1>2 DEF Inv, Types
<1>9. MemoryRight'
  BY <1>1 DEF Inv, MemoryRight, UndoRight
<1>10. DbRight'
  <2>1. UndoRight(diskUndo, diskIndex)'
    BY <1>1 DEF Inv, DbRight, UndoRight
  <2> QED BY <1>1, <1>5, <1>6, <2>1 DEF DbRight
<1>11. WriteRight'
  BY <1>1, <1>3, <1>5, <1>7 DEF Inv, WriteRight
<1> QED BY <1>8, <1>9, <1>10, <1>11 DEF Inv

LEMMA FinalKept ==
    ASSUME Inv, FinalBatch PROVE Inv'
<1>1. /\ pc \in {"flushing", "replaying"} /\ db' = Written(pending) /\ heads' = <<>> /\ best' = target
      /\ pending' = {} /\ target' = NoBlock /\ pc' = IF pc = "flushing" THEN "running" ELSE "loading"
      /\ index' = index /\ undo' = undo /\ active' = active /\ coins' = coins
      /\ diskIndex' = diskIndex /\ diskUndo' = diskUndo
  BY DEF FinalBatch, memory, disk
<1>2. /\ target \in DOMAIN diskUndo /\ coins = UtxoAt[target]
      /\ \A o \in Outpoints : o \notin pending => db[o] = coins[o]
  BY <1>1 DEF Inv, WriteRight
<1>3. db' \in CoinView /\ \A o \in Outpoints : db'[o] = IF o \in pending THEN coins[o] ELSE db[o]
  BY <1>1, WrittenRight DEF Inv
<1>4. db' = UtxoAt[target]
  <2>1. \A o \in Outpoints : db'[o] = coins[o]
    BY <1>2, <1>3
  <2>2. coins \in CoinView
    BY DEF Inv, Types
  <2> QED BY <1>2, <1>3, <2>1, <2>2 DEF CoinView
<1>5. Types'
  BY <1>1, <1>3 DEF Inv, Types, Phases
<1>6. MemoryRight'
  BY <1>1 DEF Inv, MemoryRight, UndoRight
<1>7. DbRight'
  BY <1>1, <1>2, <1>4 DEF Inv, DbRight, UndoRight
<1>8. WriteRight'
  BY <1>1 DEF WriteRight
<1> QED BY <1>5, <1>6, <1>7, <1>8 DEF Inv

LEMMA CrashKept ==
    ASSUME Inv, Crash PROVE Inv'
<1>1. /\ pc' = "down" /\ index' = {} /\ undo' = <<>> /\ active' = NoBlock /\ coins' = NoCoins
      /\ target' = NoBlock /\ pending' = {} /\ diskIndex' = diskIndex /\ diskUndo' = diskUndo
      /\ db' = db /\ best' = best /\ heads' = heads
  BY DEF Crash, disk, database
<1>2. Types'
  BY <1>1, CoinFacts DEF Inv, Types, Phases
<1>3. DbRight'
  BY <1>1 DEF Inv, DbRight, UndoRight
<1> QED BY <1>1, <1>2, <1>3 DEF Inv, MemoryRight, WriteRight

LEMMA RestartKept ==
    ASSUME GenesisKept, Inv, Restart PROVE Inv'
<1>1. /\ pc = "down" /\ index' = diskIndex /\ undo' = diskUndo /\ active' = active
      /\ diskIndex' = diskIndex /\ diskUndo' = diskUndo /\ db' = db /\ best' = best /\ heads' = heads
  BY DEF Restart, disk, database
<1>2. /\ UndoRight(diskUndo, diskIndex) /\ active = NoBlock /\ target = NoBlock
      /\ coins \in CoinView /\ db \in CoinView /\ pending \subseteq Outpoints
  BY <1>1 DEF Inv, DbRight, MemoryRight, WriteRight, Types
<1>3. UndoRight(undo, index)' /\ UndoRight(diskUndo, diskIndex)' /\ DOMAIN diskUndo' \subseteq DOMAIN undo'
  BY <1>1, <1>2 DEF UndoRight
<1>4. CASE heads = <<>>
  <2>1. pc' = "loading" /\ coins' = coins /\ target' = target /\ pending' = pending
    BY <1>4 DEF Restart, writing
  <2>2. Types' /\ MemoryRight' /\ WriteRight'
    BY <1>1, <1>2, <1>3, <2>1 DEF Types, Phases, MemoryRight, WriteRight
  <2>3. DbRight'
    BY <1>1, <1>3, <1>4 DEF Inv, DbRight
  <2> QED BY <2>2, <2>3 DEF Inv
<1>5. CASE heads # <<>>
  <2> DEFINE new == heads[1]
             old == heads[2]
             v == Rollback(db, OldBranch(old, new))
             c == Rollforward(v.coins, NewBranch(old, new))
  <2>1. /\ new \in DOMAIN diskUndo /\ old \in DOMAIN diskUndo /\ best = NoBlock
        /\ heads \in (DOMAIN diskUndo) \X (DOMAIN diskUndo)
        /\ \A o \in Outpoints : db[o] \in {UtxoAt[new][o], UtxoAt[old][o]}
    BY <1>5 DEF Inv, DbRight
  <2>2. /\ new \in Block /\ old \in Block
        /\ Chain[new] \subseteq diskIndex /\ Chain[old] \subseteq diskIndex
        /\ new \in diskIndex /\ old \in diskIndex
        /\ \A b \in (Chain[old] \cup Chain[new]) \ {Genesis} : Valid(b) /\ HasUndo(b, diskUndo)
        /\ UtxoAt[new] \in CoinView
    <3> HIDE DEF new, old
    <3>1. new \in diskIndex /\ old \in diskIndex
      BY <1>2, <2>1 DEF UndoRight
    <3> QED BY <1>2, <2>1, <3>1, UndoFacts
  <2>3. /\ v \in OkView /\ c = UtxoAt[new]
        /\ ToSet(OldBranch(old, new) \o NewBranch(old, new)) \subseteq Chain[old] \cup Chain[new]
    <3> HIDE DEF new, old
    <3> QED BY <1>2, <2>1, <2>2, ReplayEffect
  <2>4. ~v.failed
    BY <2>3 DEF OkView
  <2>5. coins' = c /\ target' = new /\ pending' = {o \in Outpoints : c[o] # db[o]} /\ pc' = "replaying"
    <3>1. /\ {new, old} \subseteq diskIndex \cup {NoBlock}
          /\ ToSet(OldBranch(old, new) \o NewBranch(old, new)) \subseteq diskIndex
      BY <2>2, <2>3
    <3> QED BY <1>5, <2>4, <3>1 DEF Restart, BeginBatchWrite
  <2> HIDE DEF c, v
  <2>6. Types'
    BY <1>1, <1>2, <2>2, <2>3, <2>5 DEF Types, Phases
  <2>7. MemoryRight'
    BY <1>1, <1>2, <1>3, <2>5 DEF MemoryRight
  <2>8. DbRight'
    BY <1>1, <1>3, <1>5, <2>1, <2>5 DEF DbRight
  <2>9. WriteRight'
    <3>1. \A o \in Outpoints : o \notin pending' => db'[o] = coins'[o]
      BY <1>1, <2>5
    <3> QED BY <1>1, <1>5, <2>1, <2>3, <2>5, <3>1 DEF WriteRight
  <2> QED BY <2>6, <2>7, <2>8, <2>9 DEF Inv
<1> QED BY <1>4, <1>5

LEMMA LoadKept ==
    ASSUME GenesisKept, Inv, LoadChainTip PROVE Inv'
<1>1. /\ pc = "loading" /\ coins' = db /\ active' = best
      /\ pc' = IF best = NoBlock \/ (best \in index /\ VerifyDB(db, best)) THEN "running" ELSE "stuck"
      /\ index' = index /\ undo' = undo /\ diskIndex' = diskIndex /\ diskUndo' = diskUndo
      /\ db' = db /\ best' = best /\ heads' = heads /\ target' = target /\ pending' = pending
  BY DEF LoadChainTip, disk, database, writing
<1>2. /\ heads = <<>> /\ best \in DOMAIN diskUndo /\ db = UtxoAt[best] /\ UndoRight(undo, index)
      /\ DOMAIN diskUndo \subseteq DOMAIN undo /\ target = NoBlock
  BY <1>1 DEF Inv, DbRight, MemoryRight, WriteRight
<1>3. /\ best \in DOMAIN undo /\ best \in index /\ best \in Block
      /\ \A a \in Chain[best] \ {Genesis} : Valid(a) /\ HasUndo(a, undo)
  <2>1. best \in DOMAIN undo /\ best \in index
    BY <1>2 DEF UndoRight
  <2> QED BY <1>2, <2>1, UndoFacts
<1>4. VerifyDB(db, best)
  BY <1>2, <1>3, VerifyEffect
<1>5. pc' = "running"
  BY <1>1, <1>3, <1>4
<1>6. Types'
  BY <1>1, <1>5 DEF Inv, Types, Phases
<1>7. MemoryRight'
  BY <1>1, <1>2, <1>3, <1>5 DEF MemoryRight, UndoRight
<1>8. DbRight' /\ WriteRight'
  BY <1>1, <1>2, <1>5 DEF Inv, DbRight, UndoRight, WriteRight
<1> QED BY <1>6, <1>7, <1>8 DEF Inv

LEMMA InvKept ==
    ASSUME GenesisKept, Inv, [Next]_vars PROVE Inv'
<1>1. CASE UNCHANGED vars
  BY <1>1 DEF vars, memory, disk, database, writing, Inv, Types, MemoryRight, DbRight, WriteRight, UndoRight
<1>2. CASE Next
  BY <1>2, AcceptKept, ConnectKept, DisconnectKept, PeriodicKept, FlushKept, PartialKept, FinalKept,
     CrashKept, RestartKept, LoadKept DEF Next
<1> QED BY <1>1, <1>2

LEMMA InvHolds == GenesisKept => (Spec => []Inv)
<1> SUFFICES ASSUME GenesisKept PROVE Spec => []Inv
  OBVIOUS
<1>1. Init => Inv
  BY InvInit
<1>2. Inv /\ [Next]_vars => Inv'
  BY InvKept
<1> QED BY <1>1, <1>2, PTL DEF Spec

-----------------------------------------------------------------------------
(* The properties. *)

(* Every variable keeps its type. *)
THEOREM TypeCorrect == GenesisKept => (Spec => []TypeOK)
<1>1. ASSUME Inv PROVE TypeOK
  <2>1. \A o \in Outpoints : coins[o] \in CoinType /\ db[o] \in CoinType
    BY <1>1 DEF Inv, Types, CoinView
  <2>2. DOMAIN diskUndo \subseteq Block /\ DOMAIN diskUndo \subseteq diskIndex /\ diskIndex \subseteq Block
    BY <1>1 DEF Inv, DbRight, UndoRight
  <2>3. index \subseteq Block /\ DOMAIN undo \subseteq index /\ active \in Block \cup {NoBlock}
    <3>1. CASE pc = "down"
      <4>1. DOMAIN undo = {}
        BY <1>1, <3>1 DEF Inv, MemoryRight
      <4> QED BY <1>1, <3>1, <4>1 DEF Inv, MemoryRight
    <3>2. CASE pc # "down"
      BY <1>1, <3>2 DEF Inv, MemoryRight, UndoRight
    <3> QED BY <3>1, <3>2
  <2>4. best \in Block \cup {NoBlock} /\ (heads = <<>> \/ heads \in Block \X (Block \cup {NoBlock}))
    BY <1>1, <2>2 DEF Inv, DbRight
  <2>5. target \in Block \cup {NoBlock}
    BY <1>1, <2>2 DEF Inv, WriteRight
  <2> QED BY <1>1, <2>1, <2>2, <2>3, <2>4, <2>5 DEF TypeOK, Inv, Types, Phases
<1> QED BY <1>1, InvHolds, PTL

(* Connections, disconnections, crashes and recoveries, in whatever order, *)
(* leave pcoinsTip equal to the UTXO set of the active chain.              *)
THEOREM UtxoSetCorrect == GenesisKept => (Spec => []UtxoCorrect)
<1>1. Inv => UtxoCorrect
  BY DEF Inv, MemoryRight, UtxoCorrect
<1> QED BY <1>1, InvHolds, PTL

(* A chainstate database that names a best block holds its UTXO set.       *)
THEOREM DatabaseCorrect == GenesisKept => (Spec => []DbConsistent)
<1>1. Inv => DbConsistent
  BY DEF Inv, DbRight, DbConsistent
<1> QED BY <1>1, InvHolds, PTL

(* In the middle of BatchWrite, or of a replay cut short, it mixes the     *)
(* UTXO sets of the two head blocks and nothing else.                      *)
THEOREM TornDatabaseCorrect == GenesisKept => (Spec => []TornDbBetweenHeads)
<1>1. Inv => TornDbBetweenHeads
  BY DEF Inv, DbRight, TornDbBetweenHeads
<1> QED BY <1>1, InvHolds, PTL

(* FlushStateToDisk never lets the chainstate database run ahead of the    *)
(* block index and the undo data on disk.                                  *)
THEOREM DiskOrdered == GenesisKept => (Spec => []DiskOrdering)
<1>1. ASSUME Inv PROVE DiskOrdering
  <2>1. UndoRight(diskUndo, diskIndex)
    BY <1>1 DEF Inv, DbRight
  <2>2. \A h \in DOMAIN diskUndo : Chain[h] \subseteq diskIndex /\ Chain[h] \subseteq DOMAIN diskUndo
    BY <2>1, UndoFacts
  <2>3. \A h \in ToSet(heads) : h \in DOMAIN diskUndo
    <3>1. CASE heads = <<>>
      BY <3>1 DEF ToSet
    <3>2. CASE heads # <<>>
      <4>1. heads \in (DOMAIN diskUndo) \X (DOMAIN diskUndo)
        BY <1>1, <3>2 DEF Inv, DbRight
      <4> QED BY <4>1 DEF ToSet
    <3> QED BY <3>1, <3>2
  <2>4. best # NoBlock => best \in DOMAIN diskUndo
    BY <1>1 DEF Inv, DbRight
  <2>5. target # NoBlock => target \in DOMAIN diskUndo
    BY <1>1 DEF Inv, WriteRight
  <2> QED BY <2>2, <2>3, <2>4, <2>5 DEF DiskOrdering
<1> QED BY <1>1, InvHolds, PTL

(* Whatever a crash leaves behind, ReplayBlocks and VerifyDB succeed.      *)
THEOREM RecoveryNeverStuck == GenesisKept => (Spec => []NeverStuck)
<1>1. Inv => NeverStuck
  BY DEF Inv, Types, Phases, NeverStuck
<1> QED BY <1>1, InvHolds, PTL

(* Every connected block but the genesis block can be disconnected again,  *)
(* cleanly, with the undo data that was written for it.                    *)
THEOREM TipUndoable == GenesisKept => (Spec => []TipDisconnectable)
<1> SUFFICES ASSUME GenesisKept PROVE Spec => []TipDisconnectable
  OBVIOUS
<1>1. ASSUME Inv PROVE TipDisconnectable
  <2> SUFFICES ASSUME pc = "running", active \notin {NoBlock, Genesis}
               PROVE  DisconnectOK(DisconnectBlock(coins, active, undo))
    BY DEF TipDisconnectable
  <2>1. UndoRight(undo, index) /\ active \in DOMAIN undo /\ coins = UtxoAt[active]
    BY <1>1 DEF Inv, MemoryRight
  <2>2. active \in Block /\ Valid(active) /\ HasUndo(active, undo) /\ UtxoAt[active] \in CoinView
    BY <2>1, UndoFacts
  <2>3. /\ DisconnectBlock(coins, active, undo) \in OkView
        /\ DisconnectBlock(coins, active, undo).clean
    BY <1>1, <2>1, <2>2, DisconnectEffect
  <2> QED BY <2>3 DEF DisconnectOK, OkView
<1> QED BY <1>1, InvHolds, PTL
=============================================================================
