-------------------------- MODULE CheckQueueProofs --------------------------
(***************************************************************************)
(* Proofs about module CheckQueue, for any number of workers and checks    *)
(* and any batch size: the counters are exact, and Wait returns the        *)
(* conjunction of all checks of the block, after the last of them.         *)
(***************************************************************************)
EXTENDS CheckQueue, FiniteSetTheorems, TLAPS

-----------------------------------------------------------------------------
(* The inductive invariant. *)

(* What links the result so far to the checks that were run: fAllOk is the *)
(* conjunction of the checks done since the control was opened, and a      *)
(* thread that skips its batch (fOk is false) does so only after another   *)
(* check has failed.                                                       *)
ResultSoFar ==
    /\ Outstanding \subseteq added
    /\ control = "open" => (fAllOk <=> (added \ Outstanding) \cap Failing = {})
    /\ control # "open" => Outstanding = {} /\ fAllOk
    /\ \A t \in Thread : pc[t] = "checking" => batch[t] # {}
    /\ \A t \in Thread : pc[t] = "checking" /\ fAllOk => fOk[t]
    /\ control = "done" => (fRet <=> added \cap Failing = {})

Inv == TypeOK /\ TodoCounts /\ CountersRight /\ ResultSoFar

-----------------------------------------------------------------------------
(* Counting. *)

State == {"out", "waiting", "woken", "checking"}
Idle == {"waiting", "woken"}
InLoop == {"waiting", "woken", "checking"}

Count(p, W, T) == Cardinality({u \in T : p[u] \in W})

(* There are finitely many threads. *)
LEMMA ThreadFinite == IsFiniteSet(Thread)
BY FS_AddElement, QueueAssumption DEF Thread

(* The master is one of them. *)
LEMMA MasterThread == Master \in Thread
BY DEF Thread

(* Taking a subset away. *)
LEMMA CardinalityDifference ==
    ASSUME NEW A, IsFiniteSet(A), NEW B \in SUBSET A
    PROVE  /\ IsFiniteSet(A \ B) /\ IsFiniteSet(B)
           /\ Cardinality(A \ B) = Cardinality(A) - Cardinality(B)
           /\ Cardinality(A \ B) \in Nat
<1>1. IsFiniteSet(A \ B) /\ IsFiniteSet(B)
  BY FS_Subset
<1>2. Cardinality((A \ B) \cup B)
        = Cardinality(A \ B) + Cardinality(B) - Cardinality((A \ B) \cap B)
  BY <1>1, FS_Union
<1>3. (A \ B) \cup B = A /\ (A \ B) \cap B = {}
  OBVIOUS
<1>4. Cardinality(A \ B) \in Nat /\ Cardinality(B) \in Nat /\ Cardinality({}) = 0
  BY <1>1, FS_CardinalityType, FS_EmptySet
<1>5. Cardinality(A) = Cardinality(A \ B) + Cardinality(B) - Cardinality({})
  BY <1>2, <1>3, Zenon
<1>6. Cardinality(A \ B) = Cardinality(A) - Cardinality(B)
  BY <1>4, <1>5
<1> QED BY <1>1, <1>4, <1>6, Zenon

(* Adding a disjoint set. *)
LEMMA CardinalityUnion ==
    ASSUME NEW A, IsFiniteSet(A), NEW B, IsFiniteSet(B), A \cap B = {}
    PROVE  Cardinality(A \cup B) = Cardinality(A) + Cardinality(B)
<1>1. Cardinality(A \cup B) = Cardinality(A) + Cardinality(B) - Cardinality(A \cap B)
  BY FS_Union
<1>2. Cardinality(A) \in Nat /\ Cardinality(B) \in Nat /\ Cardinality({}) = 0
  BY FS_CardinalityType, FS_EmptySet
<1>3. Cardinality(A \cup B) = Cardinality(A) + Cardinality(B) - Cardinality({})
  BY <1>1, Zenon
<1> QED BY <1>2, <1>3

(* A thread is counted apart from the others. *)
LEMMA CountSplit ==
    ASSUME NEW p, NEW W, NEW t \in Thread
    PROVE  /\ Count(p, W, Thread \ {t}) \in Nat
           /\ p[t] \in W => Count(p, W, Thread) = Count(p, W, Thread \ {t}) + 1
           /\ p[t] \notin W => Count(p, W, Thread) = Count(p, W, Thread \ {t})
<1> DEFINE O == {u \in Thread \ {t} : p[u] \in W}
           A == {u \in Thread : p[u] \in W}
<1>1. IsFiniteSet(O)
  <2>1. O \in SUBSET Thread
    OBVIOUS
  <2> QED BY <2>1, ThreadFinite, FS_Subset
<1>2. Cardinality(O) \in Nat
  BY <1>1, FS_CardinalityType
<1>3. ASSUME p[t] \in W PROVE Cardinality(A) = Cardinality(O) + 1
  <2>1. A = O \cup {t} /\ t \notin O
    BY <1>3
  <2> QED BY <2>1, <1>1, FS_AddElement
<1>4. ASSUME p[t] \notin W PROVE A = O
  BY <1>4
<1> QED BY <1>2, <1>3, <1>4 DEF Count

(* CountersRight in terms of Count. *)
LEMMA CountersAsCounts ==
    ASSUME pc \in [Thread -> State]
    PROVE  CountersRight <=> nIdle = Count(pc, Idle, Thread) /\ nTotal = Count(pc, InLoop, Thread)
<1>1. {t \in Thread : pc[t] # "out"} = {t \in Thread : pc[t] \in InLoop}
  BY DEF State, InLoop
<1> QED BY <1>1 DEF CountersRight, Count, Idle

-----------------------------------------------------------------------------
(* Outstanding checks. *)

(* The checks that are outstanding apart from the batch of t. *)
Rest(t) == queue \cup UNION {batch[u] : u \in Thread \ {t}}

(* nTodo less the batch of t counts the other outstanding checks. *)
LEMMA RestFacts ==
    ASSUME Inv, NEW t \in Thread
    PROVE  /\ Rest(t) = Outstanding \ batch[t]
           /\ Outstanding = Rest(t) \cup batch[t]
           /\ IsFiniteSet(Outstanding) /\ Outstanding \subseteq Check
           /\ nTodo - Cardinality(batch[t]) = Cardinality(Rest(t))
           /\ Cardinality(Rest(t)) \in Nat
<1>1. Outstanding \subseteq Check
  BY DEF Inv, TypeOK, Outstanding
<1>2. IsFiniteSet(Outstanding)
  BY <1>1, FS_Subset, QueueAssumption
<1>3. batch[t] \in SUBSET Outstanding
  BY DEF Outstanding
<1>4. Rest(t) = Outstanding \ batch[t]
  BY DEF Rest, Outstanding, Inv, TodoCounts
<1>5. nTodo = Cardinality(Outstanding)
  BY DEF Inv, TodoCounts
<1>6. /\ Cardinality(Outstanding \ batch[t]) = Cardinality(Outstanding) - Cardinality(batch[t])
      /\ Cardinality(Outstanding \ batch[t]) \in Nat
  BY <1>2, <1>3, CardinalityDifference
<1> QED BY <1>1, <1>2, <1>3, <1>4, <1>5, <1>6

(* A critical section of Loop after its clean-up, before the thread t goes *)
(* on: p, idle, total, ok and todo are right for everything but t's batch. *)
Ready(t, p, idle, total, ok, todo) ==
    /\ p \in [Thread -> State]
    /\ \A u \in Thread \ {t} : p[u] = "checking" <=> pc[u] = "checking"
    /\ \A u \in Thread \ {t} : p[u] = "out" <=> pc[u] = "out"
    /\ idle = Count(p, Idle, Thread \ {t})
    /\ total = Count(p, InLoop, Thread \ {t}) + 1
    /\ todo = Cardinality(Rest(t))
    /\ ok \in BOOLEAN
    /\ control = "open" => (ok <=> (added \ Rest(t)) \cap Failing = {})
    /\ control # "open" => ok /\ Rest(t) = {}
    /\ \A u \in Thread \ {t} : pc[u] = "checking" /\ ok => fOk[u]
    /\ t = Master => control = "open"

(* The counters after t has gone to state v. *)
LEMMA CountersAfter ==
    ASSUME NEW t \in Thread, NEW p \in [Thread -> State], NEW v \in State,
           pc' = [p EXCEPT ![t] = v],
           nIdle' = Count(p, Idle, Thread \ {t}) + (IF v \in Idle THEN 1 ELSE 0),
           nTotal' = Count(p, InLoop, Thread \ {t}) + (IF v \in InLoop THEN 1 ELSE 0)
    PROVE  CountersRight' /\ nIdle' \in Nat /\ nTotal' \in Nat /\ pc' \in [Thread -> State]
<1>1. pc' \in [Thread -> State] /\ pc'[t] = v /\ \A u \in Thread \ {t} : pc'[u] = p[u]
  OBVIOUS
<1>2. /\ Count(pc', Idle, Thread \ {t}) = Count(p, Idle, Thread \ {t})
      /\ Count(pc', InLoop, Thread \ {t}) = Count(p, InLoop, Thread \ {t})
  <2>1. ASSUME NEW W PROVE Count(pc', W, Thread \ {t}) = Count(p, W, Thread \ {t})
    <3>1. {u \in Thread \ {t} : pc'[u] \in W} = {u \in Thread \ {t} : p[u] \in W}
      BY <1>1
    <3> QED BY <3>1 DEF Count
  <2> QED BY <2>1
<1>3. /\ Count(p, Idle, Thread \ {t}) \in Nat
      /\ Count(p, InLoop, Thread \ {t}) \in Nat
  BY CountSplit
<1>4. nIdle' = Count(pc', Idle, Thread)
  <2>1. CASE v \in Idle
    <3>1. Count(pc', Idle, Thread) = Count(pc', Idle, Thread \ {t}) + 1
      BY <1>1, <2>1, CountSplit
    <3> QED BY <1>2, <2>1, <3>1
  <2>2. CASE v \notin Idle
    <3>1. Count(pc', Idle, Thread) = Count(pc', Idle, Thread \ {t})
      BY <1>1, <2>2, CountSplit
    <3> QED BY <1>2, <1>3, <2>2, <3>1
  <2> QED BY <2>1, <2>2
<1>5. nTotal' = Count(pc', InLoop, Thread)
  <2>1. CASE v \in InLoop
    <3>1. Count(pc', InLoop, Thread) = Count(pc', InLoop, Thread \ {t}) + 1
      BY <1>1, <2>1, CountSplit
    <3> QED BY <1>2, <2>1, <3>1
  <2>2. CASE v \notin InLoop
    <3>1. Count(pc', InLoop, Thread) = Count(pc', InLoop, Thread \ {t})
      BY <1>1, <2>2, CountSplit
    <3> QED BY <1>2, <1>3, <2>2, <3>1
  <2> QED BY <2>1, <2>2
<1>6. {u \in Thread : pc'[u] # "out"} = {u \in Thread : pc'[u] \in InLoop}
  BY <1>1 DEF State, InLoop
<1>7. CountersRight'
  BY <1>4, <1>5, <1>6 DEF CountersRight, Count, Idle
<1>8. nIdle' \in Nat /\ nTotal' \in Nat
  BY <1>3
<1> QED BY <1>1, <1>7, <1>8

(* The checks after t has replaced its batch by S, taken from the queue. *)
LEMMA OutstandingAfter ==
    ASSUME Inv, NEW t \in Thread, NEW S \in SUBSET queue,
           queue' = queue \ S, batch' = [batch EXCEPT ![t] = S]
    PROVE  /\ Outstanding' = Rest(t)
           /\ queue' \subseteq Check /\ batch' \in [Thread -> SUBSET Check]
           /\ batch'[t] = S /\ \A u \in Thread \ {t} : batch'[u] = batch[u]
           /\ \A u \in Thread : batch'[u] \cap queue' = {}
           /\ \A u, v \in Thread : u # v => batch'[u] \cap batch'[v] = {}
<1>1. queue \subseteq Check /\ batch \in [Thread -> SUBSET Check]
  BY DEF Inv, TypeOK
<1>2. /\ \A u \in Thread : batch[u] \cap queue = {}
      /\ \A u, v \in Thread : u # v => batch[u] \cap batch[v] = {}
  BY DEF Inv, TodoCounts
<1>3. batch'[t] = S /\ \A u \in Thread \ {t} : batch'[u] = batch[u]
  BY <1>1
<1>4. batch' \in [Thread -> SUBSET Check] /\ queue' \subseteq Check
  BY <1>1
<1>5. Outstanding' = Rest(t)
  BY <1>3 DEF Outstanding, Rest
<1>6. \A u \in Thread : batch'[u] \cap queue' = {}
  BY <1>2, <1>3
<1>7. \A u, v \in Thread : u # v => batch'[u] \cap batch'[v] = {}
  BY <1>2, <1>3
<1> QED BY <1>3, <1>4, <1>5, <1>6, <1>7

-----------------------------------------------------------------------------
(* The three ways in which a critical section of Loop ends. *)

(* The master's return from Loop keeps the invariant. *)
LEMMA LeaveLoopKeeps ==
    ASSUME Inv, NEW t \in Thread, NEW p, NEW idle, NEW total, NEW ok, NEW todo,
           Ready(t, p, idle, total, ok, todo),
           LeaveLoop(t, p, idle, total, ok, todo), nTodo' = todo, added' = added
    PROVE  Inv'
<1>1. /\ t = Master /\ todo = 0 /\ queue = {} /\ queue' = queue \ {}
      /\ batch' = [batch EXCEPT ![t] = {}] /\ pc' = [p EXCEPT ![t] = "out"]
      /\ nTotal' = total - 1 /\ nIdle' = idle
      /\ fRet' = ok /\ fAllOk' = TRUE /\ control' = "done" /\ fOk' = fOk
  BY DEF LeaveLoop
<1>2. /\ Outstanding' = Rest(t)
      /\ queue' \subseteq Check /\ batch' \in [Thread -> SUBSET Check]
      /\ batch'[t] = {} /\ \A u \in Thread \ {t} : batch'[u] = batch[u]
      /\ \A u \in Thread : batch'[u] \cap queue' = {}
      /\ \A u, v \in Thread : u # v => batch'[u] \cap batch'[v] = {}
  BY <1>1, OutstandingAfter
<1>3. Rest(t) = {}
  <2>1. IsFiniteSet(Rest(t))
    BY RestFacts, FS_Subset
  <2>2. Cardinality(Rest(t)) = 0
    BY <1>1 DEF Ready
  <2> QED BY <2>1, <2>2, FS_EmptySet
<1>4. control = "open" /\ (ok <=> added \cap Failing = {}) /\ ok \in BOOLEAN
  <2>1. added \ Rest(t) = added
    BY <1>3
  <2>2. control = "open" /\ ok \in BOOLEAN
    BY <1>1 DEF Ready
  <2>3. ok <=> (added \ Rest(t)) \cap Failing = {}
    BY <2>2 DEF Ready
  <2> QED BY <2>1, <2>2, <2>3, Zenon
<1>5. p \in [Thread -> State] /\ idle = Count(p, Idle, Thread \ {t})
      /\ total = Count(p, InLoop, Thread \ {t}) + 1
  BY DEF Ready
<1>6. CountersRight' /\ nIdle' \in Nat /\ nTotal' \in Nat /\ pc' \in [Thread -> State]
  <2>1. Count(p, Idle, Thread \ {t}) \in Nat /\ Count(p, InLoop, Thread \ {t}) \in Nat
    BY CountSplit
  <2>2. "out" \in State /\ "out" \notin Idle /\ "out" \notin InLoop
    BY DEF State, Idle, InLoop
  <2>3. /\ nIdle' = Count(p, Idle, Thread \ {t}) + (IF "out" \in Idle THEN 1 ELSE 0)
        /\ nTotal' = Count(p, InLoop, Thread \ {t}) + (IF "out" \in InLoop THEN 1 ELSE 0)
    BY <1>1, <1>5, <2>1, <2>2
  <2> QED BY <1>1, <1>5, <2>2, <2>3, CountersAfter
<1>7. \A u \in Thread : batch'[u] = {} /\ pc'[u] # "checking"
  <2>1. \A u \in Thread \ {t} : batch[u] = {}
    BY <1>3 DEF Rest
  <2>2. \A u \in Thread \ {t} : pc[u] # "checking"
    BY <2>1 DEF Inv, ResultSoFar
  <2>3. \A u \in Thread \ {t} : p[u] # "checking"
    BY <2>2 DEF Ready
  <2> QED BY <1>1, <1>2, <1>5, <2>1, <2>3
<1>8. TypeOK'
  <2>1. added' \subseteq Check /\ nTodo' \in Nat /\ fOk' \in [Thread -> BOOLEAN]
    BY <1>1 DEF Inv, TypeOK
  <2>2. pc'[Master] = "out"
    BY <1>1, <1>5
  <2> QED BY <1>1, <1>2, <1>4, <1>6, <1>7, <2>1, <2>2 DEF TypeOK, State
<1>9. TodoCounts'
  BY <1>2 DEF TodoCounts, Ready
<1>10. ResultSoFar'
  BY <1>1, <1>2, <1>3, <1>4, <1>7 DEF ResultSoFar
<1> QED BY <1>6, <1>8, <1>9, <1>10 DEF Inv

(* Waiting on the condition variable keeps the invariant. *)
LEMMA StartWaitingKeeps ==
    ASSUME Inv, NEW t \in Thread, NEW p, NEW idle, NEW total, NEW ok, NEW todo,
           Ready(t, p, idle, total, ok, todo),
           StartWaiting(t, p, idle, total, ok, todo), nTodo' = todo, added' = added
    PROVE  Inv'
<1>1. /\ queue' = queue \ {} /\ batch' = [batch EXCEPT ![t] = {}]
      /\ pc' = [p EXCEPT ![t] = "waiting"]
      /\ nIdle' = idle + 1 /\ nTotal' = total /\ fAllOk' = ok
      /\ fOk' = fOk /\ control' = control /\ fRet' = fRet
  BY DEF StartWaiting
<1>2. /\ Outstanding' = Rest(t)
      /\ queue' \subseteq Check /\ batch' \in [Thread -> SUBSET Check]
      /\ batch'[t] = {} /\ \A u \in Thread \ {t} : batch'[u] = batch[u]
      /\ \A u \in Thread : batch'[u] \cap queue' = {}
      /\ \A u, v \in Thread : u # v => batch'[u] \cap batch'[v] = {}
  BY <1>1, OutstandingAfter
<1>3. p \in [Thread -> State] /\ idle = Count(p, Idle, Thread \ {t})
      /\ total = Count(p, InLoop, Thread \ {t}) + 1 /\ ok \in BOOLEAN
  BY DEF Ready
<1>4. CountersRight' /\ nIdle' \in Nat /\ nTotal' \in Nat /\ pc' \in [Thread -> State]
  <2>1. "waiting" \in State /\ "waiting" \in Idle /\ "waiting" \in InLoop
    BY DEF State, Idle, InLoop
  <2>2. /\ nIdle' = Count(p, Idle, Thread \ {t}) + (IF "waiting" \in Idle THEN 1 ELSE 0)
        /\ nTotal' = Count(p, InLoop, Thread \ {t}) + (IF "waiting" \in InLoop THEN 1 ELSE 0)
    BY <1>1, <1>3, <2>1
  <2> QED BY <1>1, <1>3, <2>1, <2>2, CountersAfter
<1>5. pc'[t] = "waiting" /\ \A u \in Thread \ {t} : pc'[u] = p[u]
  BY <1>1, <1>3
<1>6. TypeOK'
  <2>1. added' \subseteq Check /\ fOk' \in [Thread -> BOOLEAN] /\ fRet' \in BOOLEAN
        /\ control' \in {"free", "open", "done"}
    BY <1>1 DEF Inv, TypeOK
  <2>2. nTodo' \in Nat
    BY RestFacts DEF Ready
  <2>3. \A u \in Thread : pc'[u] # "checking" => batch'[u] = {}
    BY <1>2, <1>5 DEF Ready, Inv, TypeOK
  <2>4. control' # "open" => pc'[Master] = "out"
    <3> SUFFICES ASSUME control # "open" PROVE pc'[Master] = "out"
      BY <1>1
    <3>1. t # Master /\ pc[Master] = "out"
      BY DEF Ready, Inv, TypeOK
    <3> QED BY <3>1, <1>5, MasterThread DEF Ready
  <2> QED BY <1>1, <1>2, <1>3, <1>4, <2>1, <2>2, <2>3, <2>4 DEF TypeOK, State
<1>7. TodoCounts'
  BY <1>2 DEF TodoCounts, Ready
<1>8. ResultSoFar'
  <2>1. Outstanding' \subseteq added'
    BY <1>2, RestFacts DEF Inv, ResultSoFar
  <2>2. control' = "open" => (fAllOk' <=> (added' \ Outstanding') \cap Failing = {})
    BY <1>1, <1>2 DEF Ready
  <2>3. control' # "open" => Outstanding' = {} /\ fAllOk'
    BY <1>1, <1>2 DEF Ready
  <2>4. \A u \in Thread : pc'[u] = "checking" => batch'[u] # {}
    BY <1>2, <1>5 DEF Ready, Inv, ResultSoFar
  <2>5. \A u \in Thread : pc'[u] = "checking" /\ fAllOk' => fOk'[u]
    BY <1>1, <1>5 DEF Ready
  <2>6. control' = "done" => (fRet' <=> added' \cap Failing = {})
    BY <1>1 DEF Inv, ResultSoFar
  <2> QED BY <2>1, <2>2, <2>3, <2>4, <2>5, <2>6 DEF ResultSoFar
<1> QED BY <1>4, <1>6, <1>7, <1>8 DEF Inv

(* Taking a batch from the queue keeps the invariant. *)
LEMMA TakeBatchKeeps ==
    ASSUME Inv, NEW t \in Thread, NEW p, NEW idle, NEW total, NEW ok, NEW todo,
           NEW S \in SUBSET queue,
           Ready(t, p, idle, total, ok, todo),
           TakeBatch(t, p, idle, total, ok, S), nTodo' = todo, added' = added
    PROVE  Inv'
<1>1. /\ queue # {} /\ queue' = queue \ S /\ batch' = [batch EXCEPT ![t] = S]
      /\ pc' = [p EXCEPT ![t] = "checking"]
      /\ nIdle' = idle /\ nTotal' = total /\ fAllOk' = ok
      /\ fOk' = [fOk EXCEPT ![t] = ok] /\ control' = control /\ fRet' = fRet
  BY DEF TakeBatch
<1>2. /\ Outstanding' = Rest(t)
      /\ queue' \subseteq Check /\ batch' \in [Thread -> SUBSET Check]
      /\ batch'[t] = S /\ \A u \in Thread \ {t} : batch'[u] = batch[u]
      /\ \A u \in Thread : batch'[u] \cap queue' = {}
      /\ \A u, v \in Thread : u # v => batch'[u] \cap batch'[v] = {}
  BY <1>1, OutstandingAfter
<1>3. p \in [Thread -> State] /\ idle = Count(p, Idle, Thread \ {t})
      /\ total = Count(p, InLoop, Thread \ {t}) + 1 /\ ok \in BOOLEAN
  BY DEF Ready
<1>4. S # {}
  <2>1. BatchSize(total, idle) # 0
    BY DEF BatchSize
  <2>2. Cardinality(S) = BatchSize(total, idle)
    BY DEF TakeBatch
  <2> QED BY <2>1, <2>2, FS_EmptySet
<1>5. control = "open"
  <2>1. Rest(t) # {}
    BY <1>1 DEF Rest
  <2> QED BY <2>1 DEF Ready
<1>6. CountersRight' /\ nIdle' \in Nat /\ nTotal' \in Nat /\ pc' \in [Thread -> State]
  <2>1. "checking" \in State /\ "checking" \notin Idle /\ "checking" \in InLoop
    BY DEF State, Idle, InLoop
  <2>2. Count(p, Idle, Thread \ {t}) \in Nat
    BY CountSplit
  <2>3. /\ nIdle' = Count(p, Idle, Thread \ {t}) + (IF "checking" \in Idle THEN 1 ELSE 0)
        /\ nTotal' = Count(p, InLoop, Thread \ {t}) + (IF "checking" \in InLoop THEN 1 ELSE 0)
    BY <1>1, <1>3, <2>1, <2>2
  <2> QED BY <1>1, <1>3, <2>1, <2>3, CountersAfter
<1>7. pc'[t] = "checking" /\ \A u \in Thread \ {t} : pc'[u] = p[u]
  BY <1>1, <1>3
<1>8. fOk' \in [Thread -> BOOLEAN] /\ fOk'[t] = ok /\ \A u \in Thread \ {t} : fOk'[u] = fOk[u]
  <2>1. fOk \in [Thread -> BOOLEAN]
    BY DEF Inv, TypeOK
  <2> QED BY <2>1, <1>1, <1>3
<1>9. TypeOK'
  <2>1. added' \subseteq Check /\ fRet' \in BOOLEAN
    BY <1>1 DEF Inv, TypeOK
  <2>2. nTodo' \in Nat
    BY RestFacts DEF Ready
  <2>3. \A u \in Thread : pc'[u] # "checking" => batch'[u] = {}
    BY <1>2, <1>7 DEF Ready, Inv, TypeOK
  <2> QED BY <1>1, <1>2, <1>3, <1>5, <1>6, <1>8, <2>1, <2>2, <2>3 DEF TypeOK, State
<1>10. TodoCounts'
  BY <1>2 DEF TodoCounts, Ready
<1>11. ResultSoFar'
  <2>1. Outstanding' \subseteq added'
    BY <1>2, RestFacts DEF Inv, ResultSoFar
  <2>2. fAllOk' <=> (added' \ Outstanding') \cap Failing = {}
    BY <1>1, <1>2, <1>5 DEF Ready
  <2>3. \A u \in Thread : pc'[u] = "checking" => batch'[u] # {}
    BY <1>2, <1>4, <1>7 DEF Ready, Inv, ResultSoFar
  <2>4. \A u \in Thread : pc'[u] = "checking" /\ fAllOk' => fOk'[u]
    BY <1>1, <1>7, <1>8 DEF Ready
  <2> QED BY <1>1, <1>5, <2>1, <2>2, <2>3, <2>4 DEF ResultSoFar
<1> QED BY <1>6, <1>9, <1>10, <1>11 DEF Inv

(* However a critical section of Loop ends, it keeps the invariant. *)
LEMMA ProceedKeeps ==
    ASSUME Inv, NEW t \in Thread, NEW p, NEW idle, NEW total, NEW ok, NEW todo,
           Ready(t, p, idle, total, ok, todo),
           Proceed(t, p, idle, total, ok, todo)
    PROVE  Inv'
BY LeaveLoopKeeps, StartWaitingKeeps, TakeBatchKeeps DEF Proceed

-----------------------------------------------------------------------------
(* The actions. *)

(* The clean-up of a thread without a batch has nothing to do. *)
LEMMA ReadyWithoutBatch ==
    ASSUME Inv, NEW t \in Thread, pc[t] # "checking", t = Master => control = "open"
    PROVE  /\ pc[t] = "out" => Ready(t, pc, nIdle, nTotal + 1, fAllOk, nTodo)
           /\ pc[t] = "woken" => Ready(t, pc, nIdle - 1, nTotal, fAllOk, nTodo)
<1>1. pc \in [Thread -> State]
  BY DEF Inv, TypeOK, State
<1>2. Rest(t) = Outstanding /\ nTodo = Cardinality(Rest(t))
  <2>1. batch[t] = {}
    BY DEF Inv, TypeOK
  <2>2. Rest(t) = Outstanding
    BY <2>1, RestFacts
  <2> QED BY <2>2 DEF Inv, TodoCounts
<1>3. nIdle = Count(pc, Idle, Thread) /\ nTotal = Count(pc, InLoop, Thread)
  BY <1>1, CountersAsCounts DEF Inv
<1>4. /\ Count(pc, Idle, Thread \ {t}) \in Nat
      /\ Count(pc, InLoop, Thread \ {t}) \in Nat
      /\ pc[t] = "out" => /\ nIdle = Count(pc, Idle, Thread \ {t})
                          /\ nTotal = Count(pc, InLoop, Thread \ {t})
      /\ pc[t] = "woken" => /\ nIdle = Count(pc, Idle, Thread \ {t}) + 1
                            /\ nTotal = Count(pc, InLoop, Thread \ {t}) + 1
  <2>1. "out" \notin Idle /\ "out" \notin InLoop /\ "woken" \in Idle /\ "woken" \in InLoop
    BY DEF Idle, InLoop
  <2> QED BY <1>3, <2>1, CountSplit
<1>5. fAllOk \in BOOLEAN
  BY DEF Inv, TypeOK
<1>6. /\ control = "open" => (fAllOk <=> (added \ Rest(t)) \cap Failing = {})
      /\ control # "open" => fAllOk /\ Rest(t) = {}
      /\ \A u \in Thread \ {t} : pc[u] = "checking" /\ fAllOk => fOk[u]
  BY <1>2 DEF Inv, ResultSoFar
<1>7. CASE pc[t] = "out"
  BY <1>1, <1>2, <1>4, <1>5, <1>6, <1>7 DEF Ready
<1>8. CASE pc[t] = "woken"
  <2>1. nIdle - 1 = Count(pc, Idle, Thread \ {t})
    BY <1>4, <1>8
  <2> QED BY <1>1, <1>2, <1>4, <1>5, <1>6, <1>8, <2>1 DEF Ready
<1> QED BY <1>7, <1>8

(* Entering Loop keeps the invariant. *)
LEMMA EnterLoopKeeps == ASSUME Inv, NEW t \in Thread, EnterLoop(t) PROVE Inv'
<1>1. pc[t] = "out" /\ (t = Master => control = "open")
  BY DEF EnterLoop
<1>2. Ready(t, pc, nIdle, nTotal + 1, fAllOk, nTodo)
  BY <1>1, ReadyWithoutBatch
<1>3. Proceed(t, pc, nIdle, nTotal + 1, fAllOk, nTodo)
  BY DEF EnterLoop
<1> QED BY <1>2, <1>3, ProceedKeeps

(* Returning from cond.wait keeps the invariant. *)
LEMMA WakeUpKeeps == ASSUME Inv, NEW t \in Thread, WakeUp(t) PROVE Inv'
<1>1. pc[t] = "woken"
  BY DEF WakeUp
<1>2. t = Master => control = "open"
  BY <1>1 DEF Inv, TypeOK
<1>3. Ready(t, pc, nIdle - 1, nTotal, fAllOk, nTodo)
  BY <1>1, <1>2, ReadyWithoutBatch
<1>4. Proceed(t, pc, nIdle - 1, nTotal, fAllOk, nTodo)
  BY DEF WakeUp
<1> QED BY <1>3, <1>4, ProceedKeeps

(* Waking threads that wait changes neither who is idle nor who is in Loop. *)
LEMMA NotifyFacts ==
    ASSUME pc \in [Thread -> State], NEW W, \A u \in W : pc[u] = "waiting"
    PROVE  /\ Notify(pc, W) \in [Thread -> State]
           /\ \A u \in Thread : /\ Notify(pc, W)[u] \in Idle <=> pc[u] \in Idle
                                /\ Notify(pc, W)[u] \in InLoop <=> pc[u] \in InLoop
                                /\ Notify(pc, W)[u] = "checking" <=> pc[u] = "checking"
                                /\ Notify(pc, W)[u] = "out" <=> pc[u] = "out"
BY DEF Notify, State, Idle, InLoop

(* The same for the wake-up of the master after the last check. *)
LEMMA NotifiedFacts ==
    ASSUME pc \in [Thread -> State], NEW t \in Thread, NEW todo
    PROVE  /\ Notified(t, todo) \in [Thread -> State]
           /\ \A u \in Thread : /\ Notified(t, todo)[u] \in Idle <=> pc[u] \in Idle
                                /\ Notified(t, todo)[u] \in InLoop <=> pc[u] \in InLoop
                                /\ Notified(t, todo)[u] = "checking" <=> pc[u] = "checking"
                                /\ Notified(t, todo)[u] = "out" <=> pc[u] = "out"
<1>1. CASE todo = 0 /\ t # Master
  <2> DEFINE W == Waiting(pc, {Master})
  <2>1. \A u \in W : pc[u] = "waiting"
    BY DEF Waiting
  <2>2. Notified(t, todo) = Notify(pc, W)
    BY <1>1 DEF Notified
  <2> HIDE DEF W
  <2> QED BY <2>1, <2>2, NotifyFacts
<1>2. CASE ~(todo = 0 /\ t # Master)
  <2>1. Notified(t, todo) = pc
    BY <1>2 DEF Notified
  <2> QED BY <2>1
<1> QED BY <1>1, <1>2

(* Cleaning up after a batch, and going on, keeps the invariant. *)
LEMMA FinishBatchKeeps == ASSUME Inv, NEW t \in Thread, FinishBatch(t) PROVE Inv'
<1> DEFINE todo == nTodo - Cardinality(batch[t])
           p == Notified(t, todo)
<1>1. pc[t] = "checking" /\ Proceed(t, p, nIdle, nTotal, BatchResult(t), todo)
  BY DEF FinishBatch
<1>2. pc \in [Thread -> State] /\ fAllOk \in BOOLEAN
  BY DEF Inv, TypeOK, State
<1>3. /\ p \in [Thread -> State]
      /\ \A u \in Thread : /\ p[u] \in Idle <=> pc[u] \in Idle
                           /\ p[u] \in InLoop <=> pc[u] \in InLoop
                           /\ p[u] = "checking" <=> pc[u] = "checking"
                           /\ p[u] = "out" <=> pc[u] = "out"
  BY <1>2, NotifiedFacts
<1>4. todo = Cardinality(Rest(t)) /\ Rest(t) = Outstanding \ batch[t]
      /\ Outstanding = Rest(t) \cup batch[t]
  BY RestFacts
<1>5. batch[t] # {} /\ batch[t] \subseteq added /\ control = "open"
  BY <1>1, <1>4 DEF Inv, ResultSoFar
<1>6. (fAllOk => fOk[t]) /\ (fAllOk <=> (added \ Outstanding) \cap Failing = {})
  BY <1>1, <1>5 DEF Inv, ResultSoFar
<1>7. BatchResult(t) \in BOOLEAN /\ (BatchResult(t) => fAllOk)
  BY DEF BatchResult
<1>8. BatchResult(t) <=> (added \ Rest(t)) \cap Failing = {}
  <2>1. added \ Rest(t) = (added \ Outstanding) \cup batch[t]
    BY <1>4, <1>5
  <2>2. BatchResult(t) <=> fAllOk /\ batch[t] \cap Failing = {}
    BY <1>6 DEF BatchResult
  <2>3. (added \ Rest(t)) \cap Failing = {}
          <=> (added \ Outstanding) \cap Failing = {} /\ batch[t] \cap Failing = {}
    BY <2>1
  <2> QED BY <1>6, <2>2, <2>3, Zenon
<1>9. nIdle = Count(p, Idle, Thread \ {t}) /\ nTotal = Count(p, InLoop, Thread \ {t}) + 1
  <2>1. nIdle = Count(pc, Idle, Thread) /\ nTotal = Count(pc, InLoop, Thread)
    BY <1>2, CountersAsCounts DEF Inv
  <2>2. "checking" \notin Idle /\ "checking" \in InLoop
    BY DEF Idle, InLoop
  <2>3. /\ nIdle = Count(pc, Idle, Thread \ {t})
        /\ nTotal = Count(pc, InLoop, Thread \ {t}) + 1
    BY <1>1, <2>1, <2>2, CountSplit
  <2> HIDE DEF p
  <2>4. /\ Count(p, Idle, Thread \ {t}) = Count(pc, Idle, Thread \ {t})
        /\ Count(p, InLoop, Thread \ {t}) = Count(pc, InLoop, Thread \ {t})
    <3>1. /\ {u \in Thread \ {t} : p[u] \in Idle} = {u \in Thread \ {t} : pc[u] \in Idle}
          /\ {u \in Thread \ {t} : p[u] \in InLoop} = {u \in Thread \ {t} : pc[u] \in InLoop}
      BY <1>3
    <3> QED BY <3>1 DEF Count
  <2> QED BY <2>3, <2>4
<1>10. \A u \in Thread \ {t} : pc[u] = "checking" /\ BatchResult(t) => fOk[u]
  BY <1>7 DEF Inv, ResultSoFar
<1> HIDE DEF p, todo
<1>11. Ready(t, p, nIdle, nTotal, BatchResult(t), todo)
  BY <1>3, <1>4, <1>5, <1>7, <1>8, <1>9, <1>10 DEF Ready
<1> QED BY <1>1, <1>11, ProceedKeeps

(* Waking threads that wait keeps the counters. *)
LEMMA NotifyKeepsCounters ==
    ASSUME Inv, NEW W, \A u \in W : pc[u] = "waiting", pc' = Notify(pc, W),
           nIdle' = nIdle, nTotal' = nTotal
    PROVE  /\ CountersRight' /\ pc' \in [Thread -> State]
           /\ \A u \in Thread : /\ pc'[u] = "checking" <=> pc[u] = "checking"
                                /\ pc'[u] = "out" <=> pc[u] = "out"
<1>1. pc \in [Thread -> State]
  BY DEF Inv, TypeOK, State
<1>2. /\ pc' \in [Thread -> State]
      /\ \A u \in Thread : /\ pc'[u] \in Idle <=> pc[u] \in Idle
                           /\ pc'[u] = "checking" <=> pc[u] = "checking"
                           /\ pc'[u] = "out" <=> pc[u] = "out"
  BY <1>1, NotifyFacts
<1>3. /\ {u \in Thread : pc'[u] \in Idle} = {u \in Thread : pc[u] \in Idle}
      /\ {u \in Thread : pc'[u] # "out"} = {u \in Thread : pc[u] # "out"}
  BY <1>2
<1>4. CountersRight
  BY DEF Inv
<1>5. CountersRight'
  BY <1>3, <1>4 DEF CountersRight, Idle
<1> QED BY <1>2, <1>5

(* A wait that ends without a notification keeps the invariant. *)
LEMMA SpuriousWakeUpKeeps == ASSUME Inv, NEW t \in Thread, SpuriousWakeUp(t) PROVE Inv'
<1>1. /\ pc[t] = "waiting" /\ pc' = Notify(pc, {t})
      /\ queue' = queue /\ nIdle' = nIdle /\ nTotal' = nTotal /\ nTodo' = nTodo
      /\ fAllOk' = fAllOk /\ batch' = batch /\ fOk' = fOk /\ control' = control
      /\ fRet' = fRet /\ added' = added
  BY DEF SpuriousWakeUp, counters
<1>2. /\ CountersRight' /\ pc' \in [Thread -> State]
      /\ \A u \in Thread : /\ pc'[u] = "checking" <=> pc[u] = "checking"
                           /\ pc'[u] = "out" <=> pc[u] = "out"
  BY <1>1, NotifyKeepsCounters
<1>3. TypeOK'
  BY <1>1, <1>2, MasterThread DEF Inv, TypeOK, State
<1>4. Outstanding' = Outstanding
  BY <1>1 DEF Outstanding
<1>5. TodoCounts'
  BY <1>1, <1>4 DEF Inv, TodoCounts
<1>6. ResultSoFar'
  BY <1>1, <1>2, <1>4 DEF Inv, ResultSoFar
<1> QED BY <1>2, <1>3, <1>5, <1>6 DEF Inv

(* Adding checks that were not added before keeps the invariant. *)
LEMMA AddKeeps == ASSUME Inv, NEW S \in SUBSET (Check \ added), Add(S) PROVE Inv'
<1>1. /\ control = "open" /\ pc[Master] = "out"
      /\ queue' = queue \cup S /\ nTodo' = nTodo + Cardinality(S)
      /\ added' = added \cup S
      /\ nIdle' = nIdle /\ nTotal' = nTotal /\ fAllOk' = fAllOk
      /\ batch' = batch /\ fOk' = fOk /\ control' = control /\ fRet' = fRet
  BY DEF Add
<1>2. PICK W \in Wakes(Cardinality(S)) : pc' = Notify(pc, W)
  BY DEF Add
<1>3. \A u \in W : pc[u] = "waiting"
  BY DEF Wakes, Waiting
<1>4. /\ CountersRight' /\ pc' \in [Thread -> State]
      /\ \A u \in Thread : /\ pc'[u] = "checking" <=> pc[u] = "checking"
                           /\ pc'[u] = "out" <=> pc[u] = "out"
  BY <1>1, <1>2, <1>3, NotifyKeepsCounters
<1>5. /\ IsFiniteSet(S) /\ IsFiniteSet(Outstanding)
      /\ Outstanding \cap S = {} /\ Outstanding' = Outstanding \cup S
  <2>1. IsFiniteSet(S)
    BY FS_Subset, QueueAssumption
  <2>2. IsFiniteSet(Outstanding)
    BY RestFacts, MasterThread
  <2>3. Outstanding \cap S = {}
    BY DEF Inv, ResultSoFar
  <2>4. Outstanding' = Outstanding \cup S
    BY <1>1 DEF Outstanding
  <2> QED BY <2>1, <2>2, <2>3, <2>4
<1>6. Cardinality(S) \in Nat
  BY <1>5, FS_CardinalityType
<1>7. TypeOK'
  <2>1. nTodo' \in Nat
    BY <1>1, <1>6 DEF Inv, TypeOK
  <2> QED BY <1>1, <1>4, <2>1 DEF Inv, TypeOK, State
<1>8. TodoCounts'
  <2>1. Cardinality(Outstanding \cup S) = Cardinality(Outstanding) + Cardinality(S)
    BY <1>5, CardinalityUnion
  <2>2. nTodo' = Cardinality(Outstanding')
    BY <1>1, <1>5, <2>1 DEF Inv, TodoCounts
  <2>3. \A u \in Thread : batch[u] \cap S = {} /\ batch[u] \cap queue = {}
    BY <1>5 DEF Outstanding, Inv, TodoCounts
  <2>4. \A u, v \in Thread : u # v => batch[u] \cap batch[v] = {}
    BY DEF Inv, TodoCounts
  <2> QED BY <1>1, <2>2, <2>3, <2>4 DEF TodoCounts
<1>9. ResultSoFar'
  <2>1. added' \ Outstanding' = added \ Outstanding
    BY <1>1, <1>5
  <2>2. Outstanding' \subseteq added'
    BY <1>1, <1>5 DEF Inv, ResultSoFar
  <2> QED BY <1>1, <1>4, <2>1, <2>2 DEF Inv, ResultSoFar
<1> QED BY <1>4, <1>7, <1>8, <1>9 DEF Inv

(* Taking and releasing ControlMutex keep the invariant. *)
LEMMA ControlKeeps == ASSUME Inv, OpenControl \/ CloseControl PROVE Inv'
<1>1. /\ queue' = queue /\ nIdle' = nIdle /\ nTotal' = nTotal /\ nTodo' = nTodo
      /\ fAllOk' = fAllOk /\ pc' = pc /\ batch' = batch /\ fOk' = fOk /\ fRet' = fRet
  BY DEF OpenControl, CloseControl, counters, local
<1>2. /\ control # "open" /\ control' \in {"free", "open"} /\ pc[Master] = "out"
      /\ added' = {} \/ (added' = added /\ control' = "free")
  BY DEF OpenControl, CloseControl, Inv, TypeOK
<1>3. Outstanding = {} /\ fAllOk /\ Outstanding' = Outstanding
  BY <1>1, <1>2 DEF Inv, ResultSoFar, Outstanding
<1>4. TypeOK'
  BY <1>1, <1>2 DEF Inv, TypeOK
<1>5. TodoCounts' /\ CountersRight'
  BY <1>1, <1>3 DEF Inv, TodoCounts, CountersRight
<1>6. ResultSoFar'
  BY <1>1, <1>2, <1>3 DEF Inv, ResultSoFar
<1> QED BY <1>4, <1>5, <1>6 DEF Inv

(* The queue starts empty, with no thread in Loop. *)
LEMMA InitInv == Init => Inv
<1> SUFFICES ASSUME Init PROVE Inv
  OBVIOUS
<1>1. Outstanding = {}
  BY DEF Init, Outstanding
<1>2. Cardinality({}) = 0
  BY FS_EmptySet
<1>3. TypeOK
  BY MasterThread DEF Init, TypeOK
<1>4. TodoCounts
  BY <1>1, <1>2 DEF Init, TodoCounts
<1>5. CountersRight
  <2>1. {t \in Thread : pc[t] \in {"waiting", "woken"}} = {}
        /\ {t \in Thread : pc[t] # "out"} = {}
    BY DEF Init
  <2> QED BY <1>2, <2>1 DEF Init, CountersRight
<1>6. ResultSoFar
  BY <1>1 DEF Init, ResultSoFar
<1> QED BY <1>3, <1>4, <1>5, <1>6 DEF Inv

-----------------------------------------------------------------------------
(* The theorems. *)

(* The inductive invariant holds of CCheckQueue for any number of workers, *)
(* any checks and any batch size.                                          *)
THEOREM InvHolds == Spec => []Inv
<1>1. Inv /\ [Next]_vars => Inv'
  <2> SUFFICES ASSUME Inv, [Next]_vars PROVE Inv'
    OBVIOUS
  <2>1. CASE OpenControl \/ CloseControl
    BY <2>1, ControlKeeps
  <2>2. ASSUME NEW S \in SUBSET (Check \ added), Add(S) PROVE Inv'
    BY <2>2, AddKeeps
  <2>3. ASSUME NEW t \in Thread, EnterLoop(t) PROVE Inv'
    BY <2>3, EnterLoopKeeps
  <2>4. ASSUME NEW t \in Thread, WakeUp(t) PROVE Inv'
    BY <2>4, WakeUpKeeps
  <2>5. ASSUME NEW t \in Thread, FinishBatch(t) PROVE Inv'
    BY <2>5, FinishBatchKeeps
  <2>6. ASSUME NEW t \in Thread, SpuriousWakeUp(t) PROVE Inv'
    BY <2>6, SpuriousWakeUpKeeps
  <2>7. CASE UNCHANGED vars
    BY <2>7 DEF Inv, TypeOK, TodoCounts, CountersRight, ResultSoFar, Outstanding,
                vars, counters, local
  <2> QED BY <2>1, <2>2, <2>3, <2>4, <2>5, <2>6, <2>7 DEF Next, Run
<1> QED BY <1>1, InitInv, PTL DEF Spec

(* The queue's variables keep their types; in particular no unsigned       *)
(* counter goes below zero.                                                *)
THEOREM TypeCorrect == Spec => []TypeOK
<1>1. Inv => TypeOK
  BY DEF Inv
<1> QED BY <1>1, InvHolds, PTL

(* nTodo is the number of checks queued or in a batch, and no check is in  *)
(* two places: none is run twice.                                          *)
THEOREM TodoCorrect == Spec => []TodoCounts
<1>1. Inv => TodoCounts
  BY DEF Inv
<1> QED BY <1>1, InvHolds, PTL

(* nIdle and nTotal count the threads that wait and that are in Loop. *)
THEOREM CountersCorrect == Spec => []CountersRight
<1>1. Inv => CountersRight
  BY DEF Inv
<1> QED BY <1>1, InvHolds, PTL

(* When Wait has returned, every check of the block has been run and the   *)
(* result is their conjunction.                                            *)
THEOREM WaitCorrect == Spec => []WaitRight
<1>1. Inv => WaitRight
  BY DEF Inv, ResultSoFar, WaitRight
<1> QED BY <1>1, InvHolds, PTL
=============================================================================
