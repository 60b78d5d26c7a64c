--------------------------- MODULE SchedulerProofs ---------------------------
(***************************************************************************)
(* Proofs about module Scheduler, for any number of service threads,       *)
(* producers and callbacks.                                                *)
(***************************************************************************)
EXTENDS Scheduler, SequenceTheorems, FiniteSetTheorems, TLAPS

-----------------------------------------------------------------------------
(* taskQueue. *)

Task == [task : {"process", "repeat"}, in : 0..Delta]

Sorted(q) == \A i, j \in DOMAIN q : i < j => q[i].in <= q[j].in

(* A set of natural numbers that is not empty has a least one. *)
LEMMA LeastNatural ==
    ASSUME NEW T \in SUBSET Nat, T # {}
    PROVE  \E x \in T : \A y \in T : x <= y
<1> DEFINE R == OpToRel(<, Nat)
<1>1. IsWellFoundedOn(R, Nat)
  BY NatLessThanWellFounded
<1>2. PICK x \in T : \A y \in T : <<y, x>> \notin R
  BY <1>1, WFMin
<1>3. \A y \in T : ~(y < x)
  BY <1>2 DEF OpToRel
<1>4. x \in Nat /\ \A y \in T : y \in Nat
  OBVIOUS
<1>5. \A y \in T : x <= y
  BY <1>3, <1>4
<1> HIDE DEF R
<1> QED BY <1>5

(* The fields of a task. *)
LEMMA TaskFields ==
    /\ \A x \in Task : x.task \in {"process", "repeat"} /\ x.in \in 0..Delta /\ x.in \in Nat
    /\ \A f \in {"process", "repeat"}, d \in 0..Delta : [task |-> f, in |-> d] \in Task
BY SchedulerAssumption DEF Task

(* The place of a new task in the queue. *)
Before(d) == {i \in DOMAIN taskQueue : taskQueue[i].in <= d}

LEMMA BeforeInterval ==
    ASSUME taskQueue \in Seq(Task), Sorted(taskQueue), NEW d \in 0..Delta
    PROVE  \E k \in 0..Len(taskQueue) : Before(d) = 1..k /\ Cardinality(Before(d)) = k
<1> DEFINE T == DOMAIN taskQueue \ Before(d)
<1>0. Delta \in Nat /\ Len(taskQueue) \in Nat /\ DOMAIN taskQueue = 1..Len(taskQueue)
  BY SchedulerAssumption
<1>1. \A i \in DOMAIN taskQueue : taskQueue[i].in \in Nat
  BY <1>0, TaskFields
<1>2. \E k \in 0..Len(taskQueue) : Before(d) = 1..k
  <2>1. CASE T = {}
    BY <2>1, <1>0 DEF Before
  <2>2. CASE T # {}
    <3>1. PICK m \in T : \A y \in T : m <= y
      <4>1. T \in SUBSET Nat
        BY <1>0
      <4> HIDE DEF T
      <4> QED BY <2>2, <4>1, LeastNatural
    <3>2. m \in 1..Len(taskQueue) /\ ~(taskQueue[m].in <= d)
      BY <1>0 DEF Before
    <3>3. \A i \in DOMAIN taskQueue : i < m => i \in Before(d)
      BY <3>1, <1>0
    <3>4. \A i \in DOMAIN taskQueue : m <= i => i \notin Before(d)
      <4> SUFFICES ASSUME NEW i \in DOMAIN taskQueue, m <= i PROVE ~(taskQueue[i].in <= d)
        BY DEF Before
      <4>1. taskQueue[m].in <= taskQueue[i].in
        BY <1>0, <1>1, <3>2 DEF Sorted
      <4> QED BY <4>1, <3>2, <1>0, <1>1
    <3>5. Before(d) = 1..(m - 1)
      BY <3>2, <3>3, <3>4, <1>0 DEF Before
    <3> QED BY <3>2, <3>5, <1>0
  <2> QED BY <2>1, <2>2
<1>3. PICK k \in 0..Len(taskQueue) : Before(d) = 1..k
  BY <1>2
<1>4. Cardinality(1..k) = k
  BY <1>0, FS_Interval
<1> QED BY <1>3, <1>4

(* What Inserted returns. *)
LEMMA InsertedFacts ==
    ASSUME taskQueue \in Seq(Task), Sorted(taskQueue),
           NEW f \in {"process", "repeat"}, NEW d \in 0..Delta
    PROVE  /\ Inserted(f, d) \in Seq(Task) /\ Sorted(Inserted(f, d))
           /\ Len(Inserted(f, d)) = Len(taskQueue) + 1
           /\ \E i \in DOMAIN Inserted(f, d) : Inserted(f, d)[i].task = f
           /\ \A i \in DOMAIN taskQueue :
                  \E j \in DOMAIN Inserted(f, d) : Inserted(f, d)[j] = taskQueue[i]
<1> DEFINE n == Len(taskQueue)
           new == [task |-> f, in |-> d]
           q == Inserted(f, d)
<1>0. Delta \in Nat /\ n \in Nat /\ DOMAIN taskQueue = 1..n /\ new \in Task
  BY SchedulerAssumption, TaskFields
<1>1. PICK k \in 0..n : Before(d) = 1..k /\ Cardinality(Before(d)) = k
  BY BeforeInterval
<1>2. q = SubSeq(taskQueue, 1, k) \o <<new>> \o SubSeq(taskQueue, k + 1, n)
  BY <1>1 DEF Inserted, Before
<1>3. /\ SubSeq(taskQueue, 1, k) \in Seq(Task) /\ Len(SubSeq(taskQueue, 1, k)) = k
      /\ \A i \in 1..k : SubSeq(taskQueue, 1, k)[i] = taskQueue[i]
  BY <1>0
<1>4. /\ SubSeq(taskQueue, k + 1, n) \in Seq(Task)
      /\ Len(SubSeq(taskQueue, k + 1, n)) = n - k
      /\ \A i \in 1..(n - k) : SubSeq(taskQueue, k + 1, n)[i] = taskQueue[i + k]
  <2>1. \A i \in (k + 1)..n : taskQueue[i] \in Task
    BY <1>0
  <2>2. k + 1 \in Int /\ n \in Int /\ (IF k + 1 <= n THEN n - (k + 1) + 1 ELSE 0) = n - k
    <3> HIDE DEF n
    <3>1. k \in Nat /\ k <= n /\ n \in Nat
      BY <1>0
    <3> QED BY <3>1
  <2>3. /\ SubSeq(taskQueue, k + 1, n) \in Seq(Task)
        /\ Len(SubSeq(taskQueue, k + 1, n)) = n - k
        /\ \A i \in 1..(n - (k + 1) + 1) :
               SubSeq(taskQueue, k + 1, n)[i] = taskQueue[(k + 1) + i - 1]
    BY <2>1, <2>2, SubSeqProperties
  <2>4. n - (k + 1) + 1 = n - k /\ \A i \in 1..(n - k) : (k + 1) + i - 1 = i + k
    BY <1>0
  <2> QED BY <2>3, <2>4
<1>5. <<new>> \in Seq(Task) /\ Len(<<new>>) = 1 /\ <<new>>[1] = new
  BY <1>0
<1> HIDE DEF new, n, q
<1> DEFINE a == SubSeq(taskQueue, 1, k)
           b == <<new>>
           c == SubSeq(taskQueue, k + 1, n)
<1>6a. a \o b \in Seq(Task) /\ Len(a \o b) = k + 1
  BY <1>0, <1>3, <1>5
<1>6b. (\A i \in 1..k : (a \o b)[i] = taskQueue[i]) /\ (a \o b)[k + 1] = new
  BY <1>0, <1>3, <1>5
<1> DEFINE ab == a \o b
<1> HIDE DEF a, b, c, ab
<1>6c. q = ab \o c
  BY <1>2 DEF a, b, c, ab
<1>6d. ab \in Seq(Task) /\ Len(ab) = k + 1 /\ c \in Seq(Task) /\ Len(c) = n - k
  BY <1>4, <1>6a DEF ab, c
<1>6. q \in Seq(Task) /\ Len(q) = n + 1 /\ DOMAIN q = 1..(n + 1)
  BY <1>0, <1>6c, <1>6d
<1>7. /\ \A i \in 1..k : q[i] = taskQueue[i]
      /\ q[k + 1] = new
      /\ \A i \in (k + 2)..(n + 1) : q[i] = taskQueue[i - 1]
  <2>1. \A i \in 1..(k + 1) : q[i] = ab[i]
    BY <1>0, <1>6c, <1>6d
  <2>2. \A i \in (k + 2)..(n + 1) : q[i] = c[i - (k + 1)]
    BY <1>0, <1>6c, <1>6d
  <2>3. \A i \in (k + 2)..(n + 1) : c[i - (k + 1)] = taskQueue[i - 1]
    <3> SUFFICES ASSUME NEW i \in (k + 2)..(n + 1)
                 PROVE  c[i - (k + 1)] = taskQueue[i - 1]
      OBVIOUS
    <3>1. i - (k + 1) \in 1..(n - k) /\ (i - (k + 1)) + k = i - 1
      BY <1>0
    <3> QED BY <3>1, <1>4 DEF c
  <2>4. k + 1 \in 1..(k + 1) /\ \A i \in 1..k : i \in 1..(k + 1)
    BY <1>0
  <2> QED BY <2>1, <2>2, <2>3, <2>4, <1>6b DEF ab
<1>8. Sorted(q)
  <2> SUFFICES ASSUME NEW i \in 1..(n + 1), NEW j \in 1..(n + 1), i < j
               PROVE  q[i].in <= q[j].in
    BY <1>6 DEF Sorted
  <2>1. \A x, y \in 1..n : x < y => taskQueue[x].in <= taskQueue[y].in
    BY <1>0 DEF Sorted
  <2>2. new.in = d /\ \A x \in 1..n : taskQueue[x].in \in Nat /\ (taskQueue[x].in <= d <=> x <= k)
    <3>1. \A x \in 1..n : taskQueue[x] \in Task
      BY <1>0
    <3>2. \A x \in 1..n : x \in Before(d) <=> x <= k
      BY <1>0, <1>1
    <3> QED BY <3>1, <3>2, <1>0, TaskFields DEF Before, new
  <2>3. CASE j <= k
    BY <2>3, <2>1, <1>0, <1>7
  <2>4. CASE j = k + 1
    BY <2>4, <2>2, <1>0, <1>7
  <2>5. CASE j > k + 1
    <3>1. CASE i <= k
      BY <3>1, <2>5, <2>1, <1>0, <1>7
    <3>2. CASE i = k + 1
      BY <3>2, <2>5, <2>2, <1>0, <1>7
    <3>3. CASE i > k + 1
      BY <3>3, <2>5, <2>1, <1>0, <1>7
    <3> QED BY <3>1, <3>2, <3>3, <1>0
  <2> QED BY <2>3, <2>4, <2>5, <1>0
<1>9. \E i \in DOMAIN q : q[i].task = f
  BY <1>0, <1>6, <1>7 DEF new
<1>10. \A i \in 1..n : \E j \in 1..(n + 1) : q[j] = taskQueue[i]
  <2> SUFFICES ASSUME NEW i \in 1..n PROVE \E j \in 1..(n + 1) : q[j] = taskQueue[i]
    OBVIOUS
  <2>1. CASE i <= k
    BY <2>1, <1>0, <1>7
  <2>2. CASE i > k
    <3>1. i + 1 \in (k + 2)..(n + 1) /\ i + 1 \in 1..(n + 1) /\ (i + 1) - 1 = i
      BY <2>2, <1>0
    <3> QED BY <3>1, <1>7
  <2> QED BY <2>1, <2>2, <1>0
<1> QED BY <1>0, <1>6, <1>8, <1>9, <1>10 DEF q, n

-----------------------------------------------------------------------------
(* The inductive invariant. *)

Alive(p) == {t \in Thread : p[t] \notin {"new", "gone"}}
Running == {"callback", "finish"}

(* m_are_callbacks_running is set exactly while one actor is in            *)
(* ProcessQueue between taking a callback and ~RAIICallbacksRunning.       *)
OneRuns ==
    /\ m_are_callbacks_running <=> \E a \in Actor : pc[a] \in Running
    /\ \A a, b \in Actor : pc[a] \in Running /\ pc[b] \in Running => a = b

(* While the node runs, no thread has been told to end and none has; once  *)
(* the main thread has joined the others, all have.                        *)
Phases ==
    /\ pc[Main] \in {"boot", "up"} =>
           /\ ~interrupted /\ ~stopRequested /\ ~stopWhenEmpty
           /\ \A t \in Thread : pc[t] # "gone"
    /\ ~interrupted => thrown = {} /\ \A t \in Thread : pc[t] # "throw"
    /\ pc[Main] \in {"joined", "empty", "end"} \cup ClientPcs =>
           \A t \in Thread : pc[t] \in {"new", "gone"}

(* After stop(drain = true) nobody but a service thread adds work, and a   *)
(* thread that has gone left no task that no other thread will see.        *)
Draining ==
    stopWhenEmpty =>
        /\ ~interrupted /\ ~stopRequested
        /\ \A p \in Producer : pc[p] = "idle"
        /\ /\ pc[Main] = "stopping" /\ taskQueue # <<>>
           /\ \E t \in Thread : pc[t] = "gone"
           => Alive(pc) # {}

(* A single thread that waits until a time wakes up in time for the first  *)
(* task: what was scheduled since would have notified it.                  *)
TimedRight ==
    \A t \in Thread :
        /\ pc[t] = "timed" /\ ~interrupted /\ taskQueue # <<>>
        /\ \A u \in Thread \ {t} : pc[u] \in {"new", "gone"}
        => Head(taskQueue).in <= until[t]

Inv ==
    /\ TypeOK /\ ThreadsCounted /\ OneRuns /\ Phases /\ NeverForgotten
    /\ Draining /\ DrainRunsAll /\ TimedRight

-----------------------------------------------------------------------------
(* How pc changes. *)

(* Every step moves one actor a, and may notify the waiting threads of S. *)
Moved(a, next, S) ==
    /\ pc' \in [Actor -> Pcs] /\ pc'[a] = next
    /\ \A b \in Actor \ {a} : b \notin S => pc'[b] = pc[b]
    /\ \A b \in Actor \ {a} : b \in S =>
           /\ b \in Thread
           /\ \/ pc[b] = "wait" /\ pc'[b] = "wake"
              \/ pc[b] = "timed" /\ pc'[b] = "top"

LEMMA MovedPlain ==
    ASSUME pc \in [Actor -> Pcs], NEW a \in Actor, NEW next \in Pcs,
           pc' = [pc EXCEPT ![a] = next]
    PROVE  Moved(a, next, {})
BY DEF Moved

LEMMA MovedNotified ==
    ASSUME pc \in [Actor -> Pcs], NEW a \in Actor, NEW next \in Pcs,
           NEW S \in SUBSET Waiting(pc),
           pc' = [Notified(pc, S) EXCEPT ![a] = next]
    PROVE  Moved(a, next, S)
<1>1. S \subseteq Thread /\ \A b \in S : pc[b] \in {"wait", "timed"}
  BY DEF Waiting
<1>2. /\ Notified(pc, S) \in [Actor -> Pcs]
      /\ \A b \in Actor : b \notin S => Notified(pc, S)[b] = pc[b]
      /\ \A b \in Actor : b \in S =>
             Notified(pc, S)[b] = IF pc[b] = "wait" THEN "wake" ELSE "top"
  BY DEF Notified, Pcs, ThreadPcs
<1> HIDE DEF Notified
<1> QED BY <1>1, <1>2 DEF Moved

(* notify_one wakes a thread if one waits. *)
LEMMA OneFacts ==
    ASSUME NEW p, NEW S \in One(p)
    PROVE  S \in SUBSET Waiting(p) /\ (Waiting(p) # {} => S # {})
BY DEF One

(* The threads are finitely many, and apart from the other actors. *)
LEMMA ActorFacts ==
    /\ Thread \subseteq Actor /\ Producer \subseteq Actor /\ Main \in Actor
    /\ Main \notin Thread /\ Main \notin Producer
    /\ \A t \in Thread : t \notin Producer
    /\ Actor = Thread \cup Producer \cup {Main}
BY SchedulerAssumption DEF Actor

(* What the calls of a step do: schedule, *)
LEMMA ScheduleFacts ==
    ASSUME TypeOK, NEW a \in Actor, NEW f \in {"process", "repeat"},
           NEW d \in 0..Delta, NEW next \in Pcs, Schedule(a, f, d, next)
    PROVE  \E S \in One(pc) : Moved(a, next, S)
<1>1. PICK S \in One(pc) : pc' = [Notified(pc, S) EXCEPT ![a] = next]
  BY DEF Schedule
<1>2. S \in SUBSET Waiting(pc)
  BY OneFacts
<1> QED BY <1>1, <1>2, MovedNotified DEF TypeOK

(* and the parts of serviceQueue's loop. *)
LEMMA LeaveFacts ==
    ASSUME TypeOK, NEW t \in Thread, NEW n, Leave(t, n)
    PROVE  \E S \in One([pc EXCEPT ![t] = "gone"]) : t \notin S /\ Moved(t, "gone", S)
<1> DEFINE p == [pc EXCEPT ![t] = "gone"]
<1>1. PICK S \in One(p) : pc' = Notified(p, S)
  BY DEF Leave
<1>2. S \in SUBSET Waiting(p)
  BY OneFacts
<1>3. pc \in [Actor -> Pcs] /\ t \in Actor /\ "gone" \in Pcs
  BY ActorFacts DEF TypeOK, Pcs, ThreadPcs
<1>4. t \notin S /\ S \in SUBSET Waiting(pc)
  BY <1>2, <1>3 DEF Waiting
<1>5. pc' = [Notified(pc, S) EXCEPT ![t] = "gone"]
  BY <1>1, <1>3, <1>4 DEF Notified
<1>6. Moved(t, "gone", S)
  BY <1>3, <1>4, <1>5, MovedNotified
<1> QED BY <1>1, <1>4, <1>6

(* Where Returned leads. *)
LEMMA ReturnedFacts ==
    ASSUME NEW a \in Actor
    PROVE  /\ Returned(a) \in Pcs /\ Returned(a) \notin ClientPcs
           /\ Returned(a) \notin {"new", "gone", "wait", "timed", "wake"}
           /\ a = Main => Returned(a) = "empty"
           /\ a \in Producer => Returned(a) = IF awaited[a] # 0 THEN "sync" ELSE "idle"
           /\ a \in Thread => Returned(a) = IF a \in thrown THEN "throw" ELSE "top"
BY ActorFacts DEF Returned, Pcs, ThreadPcs, MainPcs, ClientPcs

(* The four ways into a critical section of serviceQueue. *)
InService(t, n) ==
    /\ \/ pc[t] = "new" /\ pc[Main] \in {"boot", "up"} /\ n = nThreadsServicingQueue + 1
       \/ pc[t] \in {"top", "wake", "timed"} /\ n = nThreadsServicingQueue
    /\ serviceUnchanged

LEMMA ServiceSteps ==
    ASSUME NEW t \in Thread,
           StartThread(t) \/ LoopAgain(t) \/ WakeUp(t) \/ Timeout(t)
    PROVE  \E n : /\ InService(t, n)
                  /\ \/ Leave(t, n) \/ WaitUntilFirst(t, n)
                     \/ SleepWhenEmpty(t, n) \/ WaitWhenEmpty(t, n)
                     \/ /\ pc[t] = "timed" /\ until[t] = 0 /\ ~interrupted
                        /\ TakeTask(t)
<1>1. CASE StartThread(t)
  BY <1>1, Zenon DEF StartThread, InService, Loop
<1>2. CASE LoopAgain(t)
  BY <1>2, Zenon DEF LoopAgain, InService, Loop
<1>3. CASE WakeUp(t)
  BY <1>3, Zenon DEF WakeUp, InService
<1>4. CASE Timeout(t)
  BY <1>4, Zenon DEF Timeout, InService, Loop
<1> QED BY <1>1, <1>2, <1>3, <1>4

(* How each action moves its actor. *)
LEMMA PcStepsMain ==
    ASSUME TypeOK
    PROVE  /\ ScheduleEvery => \E S \in One(pc) : Moved(Main, "up", S)
           /\ InterruptAll => Moved(Main, "stopping", {})
           /\ \A drain \in BOOLEAN : Stop(drain) => Moved(Main, "stopping", Waiting(pc))
           /\ JoinAll => Moved(Main, "joined", {})
           /\ LastSignal => Moved(Main, "maybe", {})
           /\ EmptyQueue => Moved(Main, IF m_callbacks_pending # <<>> THEN "process" ELSE "end", {})
<1>0. /\ Main \in Actor /\ pc \in [Actor -> Pcs] /\ Delta \in 0..Delta
      /\ {"up", "stopping", "joined", "maybe", "process", "end"} \subseteq Pcs
  BY ActorFacts, SchedulerAssumption DEF TypeOK, Pcs, ThreadPcs, MainPcs, ClientPcs
<1>1. ScheduleEvery => \E S \in One(pc) : Moved(Main, "up", S)
  BY <1>0, ScheduleFacts DEF ScheduleEvery
<1>2. InterruptAll => Moved(Main, "stopping", {})
  BY <1>0, MovedPlain DEF InterruptAll
<1>3. \A drain \in BOOLEAN : Stop(drain) => Moved(Main, "stopping", Waiting(pc))
  BY <1>0, MovedNotified DEF Stop
<1>4. JoinAll => Moved(Main, "joined", {})
  BY <1>0, MovedPlain DEF JoinAll
<1>5. LastSignal => Moved(Main, "maybe", {})
  BY <1>0, MovedPlain DEF LastSignal, AppendCallback
<1>6. EmptyQueue => Moved(Main, IF m_callbacks_pending # <<>> THEN "process" ELSE "end", {})
  BY <1>0, MovedPlain DEF EmptyQueue
<1> QED BY <1>1, <1>2, <1>3, <1>4, <1>5, <1>6

LEMMA PcStepsThread ==
    ASSUME TypeOK, NEW t \in Thread
    PROVE  /\ \A n : Leave(t, n) => \E S : Moved(t, "gone", S)
           /\ \A n : WaitUntilFirst(t, n) => Moved(t, "timed", {})
           /\ \A n : SleepWhenEmpty(t, n) => Moved(t, "wake", {})
           /\ \A n : WaitWhenEmpty(t, n) => Moved(t, "wait", {})
           /\ TakeTask(t) => /\ Head(taskQueue).task \in {"process", "repeat"}
                             /\ Moved(t, Head(taskQueue).task, {})
           /\ Interrupted(t) => Moved(t, "gone", {})
           /\ Repeat(t) => \E S \in One(pc) : Moved(t, "top", S)
           /\ RepeatInterrupted(t) => Moved(t, "throw", {})
           /\ SpuriousWakeUp(t) =>
                  /\ pc[t] \in {"wait", "timed"}
                  /\ Moved(t, IF pc[t] = "wait" THEN "wake" ELSE "top", {})
<1>0. /\ t \in Actor /\ pc \in [Actor -> Pcs] /\ Delta \in 0..Delta
      /\ {"gone", "timed", "wake", "wait", "top", "throw", "process", "repeat"} \subseteq Pcs
  BY ActorFacts, SchedulerAssumption DEF TypeOK, Pcs, ThreadPcs, MainPcs, ClientPcs
<1>1. \A n : Leave(t, n) => \E S : Moved(t, "gone", S)
  BY LeaveFacts
<1>2. \A n : WaitUntilFirst(t, n) => Moved(t, "timed", {})
  BY <1>0, MovedPlain DEF WaitUntilFirst
<1>3. \A n : SleepWhenEmpty(t, n) => Moved(t, "wake", {})
  BY <1>0, MovedPlain DEF SleepWhenEmpty
<1>4. \A n : WaitWhenEmpty(t, n) => Moved(t, "wait", {})
  BY <1>0, MovedPlain DEF WaitWhenEmpty
<1>5. ASSUME TakeTask(t)
      PROVE  /\ Head(taskQueue).task \in {"process", "repeat"}
             /\ Moved(t, Head(taskQueue).task, {})
  <2>1. taskQueue \in Seq(Task) /\ taskQueue # <<>>
    BY <1>5 DEF TypeOK, Task, TakeTask
  <2>2. Head(taskQueue) \in Task
    BY <2>1
  <2>3. Head(taskQueue).task \in {"process", "repeat"}
    BY <2>2, TaskFields
  <2> QED BY <2>3, <1>0, <1>5, MovedPlain DEF TakeTask
<1>6. Interrupted(t) => Moved(t, "gone", {})
  BY <1>0, MovedPlain DEF Interrupted
<1>7. Repeat(t) => \E S \in One(pc) : Moved(t, "top", S)
  BY <1>0, ScheduleFacts DEF Repeat
<1>8. RepeatInterrupted(t) => Moved(t, "throw", {})
  BY <1>0, MovedPlain DEF RepeatInterrupted
<1>9. ASSUME SpuriousWakeUp(t)
      PROVE  /\ pc[t] \in {"wait", "timed"}
             /\ Moved(t, IF pc[t] = "wait" THEN "wake" ELSE "top", {})
  <2>1. pc[t] \in {"wait", "timed"} /\ pc' = Notified(pc, {t})
    BY <1>9 DEF SpuriousWakeUp, Waiting
  <2>2. pc' = [pc EXCEPT ![t] = IF pc[t] = "wait" THEN "wake" ELSE "top"]
    BY <2>1, <1>0 DEF Notified
  <2> QED BY <2>1, <2>2, <1>0, MovedPlain
<1> QED BY <1>1, <1>2, <1>3, <1>4, <1>5, <1>6, <1>7, <1>8, <1>9

LEMMA PcStepsClient ==
    ASSUME TypeOK, NEW a \in Actor
    PROVE  /\ ProcessQueue(a) => \/ Moved(a, Returned(a), {}) /\ UNCHANGED clientVars
                                 \/ Moved(a, "callback", {})
           /\ CallbackEnds(a) => Moved(a, "finish", {})
           /\ FinishProcessQueue(a) => Moved(a, "maybe", {})
           /\ MaybeScheduleProcessQueue(a) =>
                  Moved(a, IF m_are_callbacks_running \/ m_callbacks_pending = <<>>
                           THEN Returned(a) ELSE "schedule", {})
           /\ ScheduleProcessQueue(a) => \E S \in One(pc) : Moved(a, Returned(a), S)
           /\ AddToProcessQueue(a) => Moved(a, "maybe", {})
           /\ SyncReturns(a) => Moved(a, "idle", {})
<1>0. /\ pc \in [Actor -> Pcs] /\ Returned(a) \in Pcs /\ 0 \in 0..Delta
      /\ {"callback", "finish", "maybe", "schedule", "idle"} \subseteq Pcs
  BY ReturnedFacts, SchedulerAssumption DEF TypeOK, Pcs, ThreadPcs, MainPcs, ClientPcs
<1>1. ProcessQueue(a) => \/ Moved(a, Returned(a), {}) /\ UNCHANGED clientVars
                         \/ Moved(a, "callback", {})
  BY <1>0, MovedPlain DEF ProcessQueue
<1>2. CallbackEnds(a) => Moved(a, "finish", {})
  BY <1>0, MovedPlain DEF CallbackEnds
<1>3. FinishProcessQueue(a) => Moved(a, "maybe", {})
  BY <1>0, MovedPlain DEF FinishProcessQueue
<1>4. MaybeScheduleProcessQueue(a) =>
          Moved(a, IF m_are_callbacks_running \/ m_callbacks_pending = <<>>
                   THEN Returned(a) ELSE "schedule", {})
  BY <1>0, MovedPlain DEF MaybeScheduleProcessQueue
<1>5. ScheduleProcessQueue(a) => \E S \in One(pc) : Moved(a, Returned(a), S)
  BY <1>0, ScheduleFacts DEF ScheduleProcessQueue
<1>6. AddToProcessQueue(a) => Moved(a, "maybe", {})
  BY <1>0, MovedPlain DEF AddToProcessQueue, AppendCallback
<1>7. SyncReturns(a) => Moved(a, "idle", {})
  BY <1>0, MovedPlain DEF SyncReturns
<1> QED BY <1>1, <1>2, <1>3, <1>4, <1>5, <1>6, <1>7

-----------------------------------------------------------------------------
(* TypeOK is inductive, given that the threads are counted. *)

PcTyped ==
    /\ pc \in [Actor -> Pcs]
    /\ \A t \in Thread : pc[t] \in ThreadPcs \cup ClientPcs
    /\ \A p \in Producer : pc[p] \in {"idle", "maybe", "schedule", "sync"}
    /\ pc[Main] \in MainPcs \cup ClientPcs

LEMMA MovedTyped ==
    ASSUME PcTyped, NEW a \in Actor, NEW next, NEW S, Moved(a, next, S),
           a \in Thread => next \in ThreadPcs \cup ClientPcs,
           a \in Producer => next \in {"idle", "maybe", "schedule", "sync"},
           a = Main => next \in MainPcs \cup ClientPcs
    PROVE  PcTyped'
BY ActorFacts DEF PcTyped, Moved, ThreadPcs

(* The parts of TypeOK about pc. *)
LEMMA PcTypedStep ==
    ASSUME TypeOK, [Next]_vars
    PROVE  PcTyped'
<1>0. /\ PcTyped
      /\ Thread \subseteq Actor /\ Producer \subseteq Actor /\ Main \in Actor
      /\ Main \notin Thread /\ Main \notin Producer /\ Thread \cap Producer = {}
      /\ Actor = Thread \cup Producer \cup {Main}
      /\ {"boot", "up", "stopping", "joined", "empty", "end"} \subseteq MainPcs
      /\ {"process", "callback", "finish", "maybe", "schedule"} = ClientPcs
      /\ {"new", "top", "wake", "wait", "timed", "repeat", "throw", "gone"} = ThreadPcs
  BY SchedulerAssumption, ActorFacts DEF TypeOK, PcTyped, MainPcs, ThreadPcs, ClientPcs
<1>1. CASE Tick
  BY <1>1, <1>0 DEF Tick, PcTyped
<1>2. CASE ScheduleEvery
  BY <1>2, <1>0, PcStepsMain DEF PcTyped, Moved
<1>3. CASE InterruptAll
  BY <1>3, <1>0, PcStepsMain DEF PcTyped, Moved
<1>4. ASSUME NEW drain \in BOOLEAN, Stop(drain)
      PROVE  PcTyped'
  BY <1>4, <1>0, PcStepsMain DEF PcTyped, Moved
<1>5. CASE JoinAll
  BY <1>5, <1>0, PcStepsMain DEF PcTyped, Moved
<1>6. CASE LastSignal
  BY <1>6, <1>0, PcStepsMain DEF PcTyped, Moved
<1>7. CASE EmptyQueue
  BY <1>7, <1>0, PcStepsMain DEF PcTyped, Moved
<1>8. ASSUME NEW t \in Thread, StartThread(t) \/ LoopAgain(t) \/ WakeUp(t) \/ Timeout(t)
      PROVE  PcTyped'
  <2>0. PICK n : /\ InService(t, n)
                 /\ \/ Leave(t, n) \/ WaitUntilFirst(t, n)
                    \/ SleepWhenEmpty(t, n) \/ WaitWhenEmpty(t, n)
                    \/ /\ pc[t] = "timed" /\ until[t] = 0 /\ ~interrupted
                       /\ TakeTask(t)
    BY <1>8, ServiceSteps
  <2>1. CASE Leave(t, n)
    BY <2>1, <2>0, <1>0, PcStepsThread DEF PcTyped, Moved
  <2>2. CASE WaitUntilFirst(t, n)
    BY <2>2, <2>0, <1>0, PcStepsThread DEF PcTyped, Moved
  <2>3. CASE SleepWhenEmpty(t, n)
    BY <2>3, <2>0, <1>0, PcStepsThread DEF PcTyped, Moved
  <2>4. CASE WaitWhenEmpty(t, n)
    BY <2>4, <2>0, <1>0, PcStepsThread DEF PcTyped, Moved
  <2>5. CASE pc[t] = "timed" /\ until[t] = 0 /\ ~interrupted /\ TakeTask(t)
    BY <2>5, <2>0, <1>0, PcStepsThread DEF PcTyped, Moved
  <2> QED BY <2>0, <2>1, <2>2, <2>3, <2>4, <2>5
<1>9. ASSUME NEW t \in Thread, Interrupted(t)
      PROVE  PcTyped'
  BY <1>9, <1>0, PcStepsThread DEF PcTyped, Moved
<1>10. ASSUME NEW t \in Thread, Repeat(t)
      PROVE  PcTyped'
  BY <1>10, <1>0, PcStepsThread DEF PcTyped, Moved
<1>11. ASSUME NEW t \in Thread, SpuriousWakeUp(t)
      PROVE  PcTyped'
  BY <1>11, <1>0, PcStepsThread DEF PcTyped, Moved
<1>12. ASSUME NEW t \in Thread, RepeatInterrupted(t)
      PROVE  PcTyped'
  BY <1>12, <1>0, PcStepsThread DEF PcTyped, Moved
<1>13. ASSUME NEW p \in Producer, AddToProcessQueue(p)
      PROVE  PcTyped'
  BY <1>13, <1>0, PcStepsClient DEF PcTyped, Moved
<1>14. ASSUME NEW p \in Producer, SyncReturns(p)
      PROVE  PcTyped'
  BY <1>14, <1>0, PcStepsClient DEF PcTyped, Moved
<1>15. ASSUME NEW a \in Actor, ProcessQueue(a)
      PROVE  PcTyped'
  <2>1. a \notin Producer \/ pc[a] # "process"
    BY <1>0 DEF PcTyped
  <2>2. PICK next : /\ Moved(a, next, {})
                    /\ next \in {Returned(a)} \cup (IF pc[a] = "process" THEN {"callback"} ELSE {"schedule"})
    BY <1>15, PcStepsClient DEF ProcessQueue
  <2>3. pc[a] \in {"process", "maybe"}
    BY <1>15 DEF ProcessQueue
  <2>4. /\ a \in Thread => next \in ThreadPcs \cup ClientPcs
        /\ a \in Producer => next \in {"idle", "maybe", "schedule", "sync"}
        /\ a = Main => next \in MainPcs \cup ClientPcs
    BY <2>1, <2>2, <2>3, <1>0, ReturnedFacts
  <2> QED BY <2>2, <2>4, <1>0, MovedTyped
<1>16. ASSUME NEW a \in Actor, CallbackEnds(a)
      PROVE  PcTyped'
  BY <1>16, <1>0, PcStepsClient, ReturnedFacts DEF PcTyped, Moved, CallbackEnds
<1>17. ASSUME NEW a \in Actor, FinishProcessQueue(a)
      PROVE  PcTyped'
  BY <1>17, <1>0, PcStepsClient, ReturnedFacts DEF PcTyped, Moved, FinishProcessQueue
<1>18. ASSUME NEW a \in Actor, MaybeScheduleProcessQueue(a)
      PROVE  PcTyped'
  <2>1. a \notin Producer \/ pc[a] # "process"
    BY <1>0 DEF PcTyped
  <2>2. PICK next : /\ Moved(a, next, {})
                    /\ next \in {Returned(a)} \cup (IF pc[a] = "process" THEN {"callback"} ELSE {"schedule"})
    BY <1>18, PcStepsClient DEF MaybeScheduleProcessQueue
  <2>3. pc[a] \in {"process", "maybe"}
    BY <1>18 DEF MaybeScheduleProcessQueue
  <2>4. /\ a \in Thread => next \in ThreadPcs \cup ClientPcs
        /\ a \in Producer => next \in {"idle", "maybe", "schedule", "sync"}
        /\ a = Main => next \in MainPcs \cup ClientPcs
    BY <2>1, <2>2, <2>3, <1>0, ReturnedFacts
  <2> QED BY <2>2, <2>4, <1>0, MovedTyped
<1>19. ASSUME NEW a \in Actor, ScheduleProcessQueue(a)
      PROVE  PcTyped'
  BY <1>19, <1>0, PcStepsClient, ReturnedFacts DEF PcTyped, Moved, ScheduleProcessQueue
<1>20. ASSUME NEW a \in Actor, CallbackAdds(a)
      PROVE  PcTyped'
  BY <1>20, <1>0 DEF CallbackAdds, PcTyped
<1>21. CASE UNCHANGED vars
  BY <1>21, <1>0 DEF vars, PcTyped
<1> QED
  BY <1>1, <1>2, <1>3, <1>4, <1>5, <1>6, <1>7, <1>8, <1>9, <1>10, <1>11,
     <1>12, <1>13, <1>14, <1>15, <1>16, <1>17, <1>18, <1>19, <1>20, <1>21
  DEF Next, Service, Client, Ended

QueueTyped ==
    /\ taskQueue \in Seq(Task) /\ Sorted(taskQueue)
    /\ until \in [Thread -> 0..Delta]

(* What Tail leaves of the queue. *)
LEMMA TailFacts ==
    ASSUME QueueTyped, taskQueue # <<>>
    PROVE  /\ Tail(taskQueue) \in Seq(Task) /\ Sorted(Tail(taskQueue))
           /\ Len(Tail(taskQueue)) = Len(taskQueue) - 1
           /\ Head(taskQueue) = taskQueue[1] /\ Head(taskQueue) \in Task
           /\ \A i \in DOMAIN taskQueue : i # 1 =>
                  \E j \in DOMAIN Tail(taskQueue) : Tail(taskQueue)[j] = taskQueue[i]
<1> DEFINE n == Len(taskQueue)
<1>1. taskQueue \in Seq(Task) /\ n \in Nat \ {0} /\ DOMAIN taskQueue = 1..n
  BY DEF QueueTyped
<1>2. /\ Tail(taskQueue) \in Seq(Task) /\ Len(Tail(taskQueue)) = n - 1
      /\ DOMAIN Tail(taskQueue) = 1..(n - 1)
      /\ \A i \in 1..(n - 1) : Tail(taskQueue)[i] = taskQueue[i + 1]
      /\ Head(taskQueue) = taskQueue[1] /\ Head(taskQueue) \in Task
  BY <1>1
<1> HIDE DEF n
<1>3. Sorted(Tail(taskQueue))
  <2>1. \A i \in 1..(n - 1) : i + 1 \in 1..n
    BY <1>1
  <2>2. \A i, j \in 1..(n - 1) : i < j => taskQueue[i + 1].in <= taskQueue[j + 1].in
    BY <2>1, <1>1 DEF QueueTyped, Sorted
  <2> QED BY <2>2, <1>2 DEF Sorted
<1>4. \A i \in 1..n : i # 1 => \E j \in 1..(n - 1) : Tail(taskQueue)[j] = taskQueue[i]
  <2> SUFFICES ASSUME NEW i \in 1..n, i # 1
               PROVE  \E j \in 1..(n - 1) : Tail(taskQueue)[j] = taskQueue[i]
    OBVIOUS
  <2>1. i - 1 \in 1..(n - 1) /\ (i - 1) + 1 = i
    BY <1>1
  <2> QED BY <2>1, <1>2
<1> QED BY <1>1, <1>2, <1>3, <1>4 DEF n

(* What a unit of time does to the queue. *)
LEMMA TickFacts ==
    ASSUME QueueTyped, Tick
    PROVE  /\ QueueTyped'
           /\ Len(taskQueue') = Len(taskQueue) /\ DOMAIN taskQueue' = DOMAIN taskQueue
           /\ \A i \in DOMAIN taskQueue : /\ taskQueue'[i].task = taskQueue[i].task
                                          /\ taskQueue'[i].in = Less(taskQueue[i].in)
           /\ \A t \in Thread : until'[t] = Less(until[t])
<1>0. Delta \in Nat /\ \A n \in 0..Delta : Less(n) \in 0..Delta
  BY SchedulerAssumption DEF Less
<1>1. \A m, n \in 0..Delta : m <= n => Less(m) <= Less(n)
  BY <1>0 DEF Less
<1>2. /\ taskQueue' = [i \in DOMAIN taskQueue |-> [taskQueue[i] EXCEPT !.in = Less(@)]]
      /\ until' = [t \in Thread |-> Less(until[t])]
  BY DEF Tick
<1> HIDE DEF Less
<1>3. taskQueue \in Seq(Task) /\ DOMAIN taskQueue = 1..Len(taskQueue) /\ Len(taskQueue) \in Nat
  BY DEF QueueTyped
<1>4. \A i \in DOMAIN taskQueue : taskQueue[i] \in Task
  BY <1>3
<1>5. \A x \in Task : /\ [x EXCEPT !.in = Less(@)] \in Task
                      /\ [x EXCEPT !.in = Less(@)].task = x.task
                      /\ [x EXCEPT !.in = Less(@)].in = Less(x.in)
  BY <1>0 DEF Task
<1>6. \A i \in DOMAIN taskQueue : /\ taskQueue'[i] \in Task
                                  /\ taskQueue'[i].task = taskQueue[i].task
                                  /\ taskQueue'[i].in = Less(taskQueue[i].in)
  BY <1>2, <1>4, <1>5
<1>7. taskQueue' \in [1..Len(taskQueue) -> Task] /\ DOMAIN taskQueue' = DOMAIN taskQueue
  BY <1>2, <1>3, <1>6
<1>8. taskQueue' \in Seq(Task) /\ Len(taskQueue') = Len(taskQueue)
  BY <1>3, <1>7
<1>9. Sorted(taskQueue)'
  <2> SUFFICES ASSUME NEW i \in DOMAIN taskQueue, NEW j \in DOMAIN taskQueue, i < j
               PROVE  taskQueue'[i].in <= taskQueue'[j].in
    BY <1>7 DEF Sorted
  <2>1. taskQueue[i].in \in 0..Delta /\ taskQueue[j].in \in 0..Delta
    BY <1>4, TaskFields
  <2>2. taskQueue[i].in <= taskQueue[j].in
    BY DEF QueueTyped, Sorted
  <2> QED BY <2>1, <2>2, <1>1, <1>6
<1>10. until' \in [Thread -> 0..Delta] /\ \A t \in Thread : until'[t] = Less(until[t])
  BY <1>0, <1>2 DEF QueueTyped
<1> QED BY <1>6, <1>7, <1>8, <1>9, <1>10 DEF QueueTyped

(* What schedule does to the queue. *)
LEMMA ScheduleQueue ==
    ASSUME QueueTyped, NEW a, NEW f \in {"process", "repeat"}, NEW d \in 0..Delta, NEW next,
           Schedule(a, f, d, next)
    PROVE  /\ QueueTyped' /\ taskQueue' # <<>> /\ until' = until
           /\ Len(taskQueue') = Len(taskQueue) + 1
           /\ \E i \in DOMAIN taskQueue' : taskQueue'[i].task = f
           /\ \A i \in DOMAIN taskQueue :
                  \E j \in DOMAIN taskQueue' : taskQueue'[j] = taskQueue[i]
<1>1. taskQueue' = Inserted(f, d) /\ until' = until
  BY DEF Schedule
<1>2. /\ taskQueue' \in Seq(Task) /\ Sorted(taskQueue')
      /\ Len(taskQueue') = Len(taskQueue) + 1
      /\ \E i \in DOMAIN taskQueue' : taskQueue'[i].task = f
      /\ \A i \in DOMAIN taskQueue :
             \E j \in DOMAIN taskQueue' : taskQueue'[j] = taskQueue[i]
  BY <1>1, InsertedFacts DEF QueueTyped
<1>3. taskQueue' # <<>>
  BY <1>2
<1> QED BY <1>1, <1>2, <1>3 DEF QueueTyped, Sorted

(* The parts of TypeOK about taskQueue and until. *)
LEMMA QueueTypedStep ==
    ASSUME TypeOK, [Next]_vars
    PROVE  QueueTyped'
<1>0. QueueTyped /\ Delta \in 0..Delta /\ 0 \in 0..Delta
  BY SchedulerAssumption DEF TypeOK, QueueTyped, Sorted, Task
<1>U. ASSUME UNCHANGED queueVars PROVE QueueTyped'
  BY <1>0, <1>U DEF QueueTyped, queueVars, Sorted
<1>1. CASE Tick
  BY <1>1, <1>0, TickFacts
<1>2. CASE ScheduleEvery
  BY <1>2, <1>0, ScheduleQueue DEF ScheduleEvery
<1>3. CASE InterruptAll
  BY <1>3, <1>U DEF InterruptAll
<1>4. ASSUME NEW drain \in BOOLEAN, Stop(drain)
      PROVE  QueueTyped'
  BY <1>4, <1>U DEF Stop
<1>5. CASE JoinAll
  BY <1>5, <1>U DEF JoinAll
<1>6. CASE LastSignal
  BY <1>6, <1>U DEF LastSignal, AppendCallback
<1>7. CASE EmptyQueue
  BY <1>7, <1>U DEF EmptyQueue
<1>8. ASSUME NEW t \in Thread, StartThread(t) \/ LoopAgain(t) \/ WakeUp(t) \/ Timeout(t)
      PROVE  QueueTyped'
  <2>0. PICK n : /\ InService(t, n)
                 /\ \/ Leave(t, n) \/ WaitUntilFirst(t, n)
                    \/ SleepWhenEmpty(t, n) \/ WaitWhenEmpty(t, n)
                    \/ /\ pc[t] = "timed" /\ until[t] = 0 /\ ~interrupted
                       /\ TakeTask(t)
    BY <1>8, ServiceSteps
  <2>1. CASE Leave(t, n)
    BY <2>1, <2>0, <1>U DEF Leave
  <2>2. CASE WaitUntilFirst(t, n)
    <3>1. Head(taskQueue).in \in 0..Delta
      BY <2>2, <2>0, <1>0, TailFacts, TaskFields DEF WaitUntilFirst
    <3> QED BY <2>2, <2>0, <3>1, <1>0 DEF WaitUntilFirst, QueueTyped, Sorted
  <2>3. CASE SleepWhenEmpty(t, n)
    BY <2>3, <2>0, <1>U DEF SleepWhenEmpty
  <2>4. CASE WaitWhenEmpty(t, n)
    BY <2>4, <2>0, <1>U DEF WaitWhenEmpty
  <2>5. CASE pc[t] = "timed" /\ until[t] = 0 /\ ~interrupted /\ TakeTask(t)
    BY <2>5, <2>0, <1>0, TailFacts DEF TakeTask, QueueTyped, Sorted
  <2> QED BY <2>0, <2>1, <2>2, <2>3, <2>4, <2>5
<1>9. ASSUME NEW t \in Thread, Interrupted(t)
      PROVE  QueueTyped'
  BY <1>9, <1>U DEF Interrupted
<1>10. ASSUME NEW t \in Thread, Repeat(t)
      PROVE  QueueTyped'
  BY <1>10, <1>0, ScheduleQueue DEF Repeat
<1>11. ASSUME NEW t \in Thread, SpuriousWakeUp(t)
      PROVE  QueueTyped'
  BY <1>11, <1>U DEF SpuriousWakeUp
<1>12. ASSUME NEW t \in Thread, RepeatInterrupted(t)
      PROVE  QueueTyped'
  BY <1>12, <1>U DEF RepeatInterrupted
<1>13. ASSUME NEW p \in Producer, AddToProcessQueue(p)
      PROVE  QueueTyped'
  BY <1>13, <1>U DEF AddToProcessQueue, AppendCallback
<1>14. ASSUME NEW p \in Producer, SyncReturns(p)
      PROVE  QueueTyped'
  BY <1>14, <1>U DEF SyncReturns
<1>15. ASSUME NEW a \in Actor, ProcessQueue(a)
      PROVE  QueueTyped'
  BY <1>15, <1>U DEF ProcessQueue
<1>16. ASSUME NEW a \in Actor, CallbackEnds(a)
      PROVE  QueueTyped'
  BY <1>16, <1>U DEF CallbackEnds
<1>17. ASSUME NEW a \in Actor, FinishProcessQueue(a)
      PROVE  QueueTyped'
  BY <1>17, <1>U DEF FinishProcessQueue
<1>18. ASSUME NEW a \in Actor, MaybeScheduleProcessQueue(a)
      PROVE  QueueTyped'
  BY <1>18, <1>U DEF MaybeScheduleProcessQueue
<1>19. ASSUME NEW a \in Actor, ScheduleProcessQueue(a)
      PROVE  QueueTyped'
  BY <1>19, <1>0, ScheduleQueue DEF ScheduleProcessQueue
<1>20. ASSUME NEW a \in Actor, CallbackAdds(a)
      PROVE  QueueTyped'
  BY <1>20, <1>U DEF CallbackAdds
<1>21. CASE UNCHANGED vars
  BY <1>21, <1>U DEF vars
<1> QED
  BY <1>1, <1>2, <1>3, <1>4, <1>5, <1>6, <1>7, <1>8, <1>9, <1>10, <1>11,
     <1>12, <1>13, <1>14, <1>15, <1>16, <1>17, <1>18, <1>19, <1>20, <1>21
  DEF Next, Service, Client, Ended

ClientTyped ==
    /\ stopRequested \in BOOLEAN /\ stopWhenEmpty \in BOOLEAN
    /\ interrupted \in BOOLEAN /\ thrown \subseteq Thread
    /\ m_callbacks_pending \in Seq(Callback) /\ m_are_callbacks_running \in BOOLEAN
    /\ done \in Seq(Callback) /\ added \in 0..MaxCallbacks
    /\ callback \in [Actor -> 0..MaxCallbacks]
    /\ awaited \in [Producer -> 0..MaxCallbacks]

(* The parts of TypeOK about the flags and the client. *)
LEMMA ClientTypedStep ==
    ASSUME TypeOK, [Next]_vars
    PROVE  ClientTyped'
<1>0. ClientTyped /\ MaxCallbacks \in Nat
  BY SchedulerAssumption DEF TypeOK, ClientTyped
<1>A. ASSUME added < MaxCallbacks
      PROVE  added + 1 \in Callback /\ added + 1 \in 0..MaxCallbacks
  BY <1>A, <1>0 DEF ClientTyped, Callback
<1>U. ASSUME UNCHANGED <<stopRequested, stopWhenEmpty, interrupted, thrown, clientVars, addVars>>
      PROVE  ClientTyped'
  BY <1>0, <1>U DEF ClientTyped, clientVars, addVars
<1>1. CASE Tick
  BY <1>1, <1>U DEF Tick, stopVars, clientVars, addVars
<1>2. CASE ScheduleEvery
  BY <1>2, <1>U DEF ScheduleEvery, stopVars, clientVars, addVars
<1>3. CASE InterruptAll
  BY <1>3, <1>0 DEF InterruptAll, ClientTyped, stopVars, clientVars, addVars
<1>4. ASSUME NEW drain \in BOOLEAN, Stop(drain)
      PROVE  ClientTyped'
  BY <1>4, <1>0 DEF Stop, ClientTyped, stopVars, clientVars, addVars
<1>5. CASE JoinAll
  BY <1>5, <1>U DEF JoinAll, stopVars, clientVars, addVars
<1>6. CASE LastSignal
  BY <1>6, <1>0, <1>A DEF LastSignal, AppendCallback, ClientTyped, stopVars, clientVars, addVars
<1>7. CASE EmptyQueue
  BY <1>7, <1>U DEF EmptyQueue, stopVars, clientVars, addVars
<1>8. ASSUME NEW t \in Thread, StartThread(t) \/ LoopAgain(t) \/ WakeUp(t) \/ Timeout(t)
      PROVE  ClientTyped'
  <2>0. PICK n : /\ InService(t, n)
                 /\ \/ Leave(t, n) \/ WaitUntilFirst(t, n)
                    \/ SleepWhenEmpty(t, n) \/ WaitWhenEmpty(t, n)
                    \/ /\ pc[t] = "timed" /\ until[t] = 0 /\ ~interrupted
                       /\ TakeTask(t)
    BY <1>8, ServiceSteps
  <2>1. CASE Leave(t, n)
    BY <2>1, <2>0, <1>U DEF InService, serviceUnchanged
  <2>2. CASE WaitUntilFirst(t, n)
    BY <2>2, <2>0, <1>U DEF InService, serviceUnchanged
  <2>3. CASE SleepWhenEmpty(t, n)
    BY <2>3, <2>0, <1>U DEF InService, serviceUnchanged
  <2>4. CASE WaitWhenEmpty(t, n)
    BY <2>4, <2>0, <1>U DEF InService, serviceUnchanged
  <2>5. CASE pc[t] = "timed" /\ until[t] = 0 /\ ~interrupted /\ TakeTask(t)
    BY <2>5, <2>0, <1>U DEF InService, serviceUnchanged
  <2> QED BY <2>0, <2>1, <2>2, <2>3, <2>4, <2>5
<1>9. ASSUME NEW t \in Thread, Interrupted(t)
      PROVE  ClientTyped'
  BY <1>9, <1>U DEF Interrupted, stopVars, clientVars, addVars
<1>10. ASSUME NEW t \in Thread, Repeat(t)
      PROVE  ClientTyped'
  BY <1>10, <1>U DEF Repeat, stopVars, clientVars, addVars
<1>11. ASSUME NEW t \in Thread, SpuriousWakeUp(t)
      PROVE  ClientTyped'
  BY <1>11, <1>U DEF SpuriousWakeUp, stopVars, clientVars, addVars
<1>12. ASSUME NEW t \in Thread, RepeatInterrupted(t)
      PROVE  ClientTyped'
  BY <1>12, <1>U DEF RepeatInterrupted, stopVars, clientVars, addVars
<1>13. ASSUME NEW p \in Producer, AddToProcessQueue(p)
      PROVE  ClientTyped'
  <2>1. added < MaxCallbacks /\ added + 1 \in Callback /\ added + 1 \in 0..MaxCallbacks
    BY <1>13, <1>A DEF AddToProcessQueue, AppendCallback
  <2>2. awaited' = awaited \/ awaited' = [awaited EXCEPT ![p] = added + 1]
    BY <1>13 DEF AddToProcessQueue
  <2>3. awaited' \in [Producer -> 0..MaxCallbacks]
    BY <2>1, <2>2, <1>0 DEF ClientTyped
  <2>4. m_callbacks_pending' \in Seq(Callback) /\ added' \in 0..MaxCallbacks
    BY <1>13, <2>1, <1>0 DEF AddToProcessQueue, AppendCallback, ClientTyped
  <2> QED BY <1>13, <2>3, <2>4, <1>0 DEF AddToProcessQueue, AppendCallback, ClientTyped, stopVars
<1>14. ASSUME NEW p \in Producer, SyncReturns(p)
      PROVE  ClientTyped'
  BY <1>14, <1>0 DEF SyncReturns, ClientTyped, stopVars, clientVars, addVars
<1>15. ASSUME NEW a \in Actor, ProcessQueue(a)
      PROVE  ClientTyped'
  <2>1. CASE UNCHANGED clientVars
    BY <1>15, <2>1, <1>U DEF ProcessQueue, stopVars, addVars
  <2>2. CASE /\ m_callbacks_pending # <<>> /\ m_are_callbacks_running' = TRUE
             /\ callback' = [callback EXCEPT ![a] = Head(m_callbacks_pending)]
             /\ m_callbacks_pending' = Tail(m_callbacks_pending) /\ UNCHANGED done
    <3>1. Head(m_callbacks_pending) \in Callback /\ Tail(m_callbacks_pending) \in Seq(Callback)
      BY <2>2, <1>0 DEF ClientTyped
    <3>2. Head(m_callbacks_pending) \in 0..MaxCallbacks
      BY <3>1, <1>0 DEF Callback
    <3> QED BY <1>15, <2>2, <3>1, <3>2, <1>0 DEF ProcessQueue, ClientTyped, stopVars, addVars
  <2> QED BY <1>15, <2>1, <2>2 DEF ProcessQueue
<1>16. ASSUME NEW a \in Actor, CallbackEnds(a)
      PROVE  ClientTyped'
  <2>1. callback[a] \in Callback
    BY <1>16, <1>0 DEF CallbackEnds, ClientTyped, Callback, TypeOK
  <2> QED BY <1>16, <2>1, <1>0 DEF CallbackEnds, ClientTyped, stopVars, addVars
<1>17. ASSUME NEW a \in Actor, FinishProcessQueue(a)
      PROVE  ClientTyped'
  BY <1>17, <1>0 DEF FinishProcessQueue, ClientTyped, stopVars, clientVars, addVars
<1>18. ASSUME NEW a \in Actor, MaybeScheduleProcessQueue(a)
      PROVE  ClientTyped'
  BY <1>18, <1>U DEF MaybeScheduleProcessQueue, stopVars, clientVars, addVars
<1>19. ASSUME NEW a \in Actor, ScheduleProcessQueue(a)
      PROVE  ClientTyped'
  BY <1>19, <1>U DEF ScheduleProcessQueue, stopVars, clientVars, addVars
<1>20. ASSUME NEW a \in Actor, CallbackAdds(a)
      PROVE  ClientTyped'
  BY <1>20, <1>0, <1>A DEF CallbackAdds, ClientTyped, stopVars, clientVars, addVars
<1>21. CASE UNCHANGED vars
  BY <1>21, <1>U DEF vars, stopVars
<1> QED
  BY <1>1, <1>2, <1>3, <1>4, <1>5, <1>6, <1>7, <1>8, <1>9, <1>10, <1>11,
     <1>12, <1>13, <1>14, <1>15, <1>16, <1>17, <1>18, <1>19, <1>20, <1>21
  DEF Next, Service, Client, Ended

(* The callback an actor runs and the one a producer waits for. *)
ClientPc ==
    /\ \A a \in Actor : callback[a] # 0 <=> pc[a] = "callback"
    /\ \A p \in Producer : pc[p] = "sync" => awaited[p] # 0

LEMMA ClientPcKept ==
    ASSUME ClientPc, NEW a \in Actor, NEW next, NEW S, Moved(a, next, S),
           pc[a] # "callback", next # "callback", callback' = callback, awaited' = awaited,
           a \in Producer /\ next = "sync" => awaited[a] # 0
    PROVE  ClientPc'
BY ActorFacts DEF ClientPc, Moved

(* The parts of TypeOK about both. *)
LEMMA ClientPcStep ==
    ASSUME TypeOK, [Next]_vars
    PROVE  ClientPc'
<1>0. ClientPc /\ ClientTyped
  BY DEF TypeOK, ClientPc, ClientTyped
<1>1a. pc[Main] \in MainPcs \cup ClientPcs /\ pc \in [Actor -> Pcs]
  BY DEF TypeOK
<1>K. ASSUME NEW b \in Actor, NEW next, NEW S, Moved(b, next, S),
             pc[b] # "callback", next # "callback", UNCHANGED <<callback, awaited>>,
             b \in Producer /\ next = "sync" => awaited[b] # 0
      PROVE  ClientPc'
  BY <1>K, <1>0, ClientPcKept
<1>M. ASSUME NEW next \in Pcs \ {"callback", "sync"}, NEW S, Moved(Main, next, S), pc[Main] # "callback",
             UNCHANGED <<callback, awaited>>
      PROVE  ClientPc'
  BY <1>M, <1>K, ActorFacts
<1>T. ASSUME NEW t \in Thread, NEW next \in Pcs \ {"callback", "sync"}, NEW S, Moved(t, next, S),
             pc[t] # "callback", UNCHANGED <<callback, awaited>>
      PROVE  ClientPc'
  BY <1>T, <1>K, ActorFacts
<1>P. {"up", "stopping", "joined", "maybe", "process", "repeat", "end", "top", "wake", "wait",
       "timed", "throw", "gone"} \subseteq Pcs \ {"callback", "sync"}
  BY DEF Pcs, ThreadPcs, MainPcs, ClientPcs
<1>Q. pc[Main] \in {"boot", "up", "stopping", "joined", "empty"} => pc[Main] # "callback"
  OBVIOUS
<1>1. CASE Tick
  BY <1>1, <1>0 DEF Tick, ClientPc, stopVars, clientVars, addVars
<1>2. CASE ScheduleEvery
  BY <1>2, <1>M, <1>P, <1>Q, PcStepsMain DEF ScheduleEvery, AppendCallback, stopVars, clientVars, addVars
<1>3. CASE InterruptAll
  BY <1>3, <1>M, <1>P, <1>Q, PcStepsMain DEF InterruptAll, AppendCallback, stopVars, clientVars, addVars
<1>4. ASSUME NEW drain \in BOOLEAN, Stop(drain)
      PROVE  ClientPc'
  BY <1>4, <1>M, <1>P, <1>Q, PcStepsMain DEF Stop, AppendCallback, stopVars, clientVars, addVars
<1>5. CASE JoinAll
  BY <1>5, <1>M, <1>P, <1>Q, PcStepsMain DEF JoinAll, AppendCallback, stopVars, clientVars, addVars
<1>6. CASE LastSignal
  BY <1>6, <1>M, <1>P, <1>Q, PcStepsMain DEF LastSignal, AppendCallback, stopVars, clientVars, addVars
<1>7. CASE EmptyQueue
  BY <1>7, <1>M, <1>P, <1>Q, PcStepsMain DEF EmptyQueue, AppendCallback, stopVars, clientVars, addVars
<1>8. ASSUME NEW t \in Thread, StartThread(t) \/ LoopAgain(t) \/ WakeUp(t) \/ Timeout(t)
      PROVE  ClientPc'
  <2>0. PICK n : /\ InService(t, n)
                 /\ \/ Leave(t, n) \/ WaitUntilFirst(t, n)
                    \/ SleepWhenEmpty(t, n) \/ WaitWhenEmpty(t, n)
                    \/ /\ pc[t] = "timed" /\ until[t] = 0 /\ ~interrupted
                       /\ TakeTask(t)
    BY <1>8, ServiceSteps
  <2>1. CASE Leave(t, n)
    BY <2>1, <2>0, <1>T, <1>P, PcStepsThread DEF InService, serviceUnchanged, stopVars, clientVars, addVars
  <2>2. CASE WaitUntilFirst(t, n)
    BY <2>2, <2>0, <1>T, <1>P, PcStepsThread DEF InService, serviceUnchanged, stopVars, clientVars, addVars
  <2>3. CASE SleepWhenEmpty(t, n)
    BY <2>3, <2>0, <1>T, <1>P, PcStepsThread DEF InService, serviceUnchanged, stopVars, clientVars, addVars
  <2>4. CASE WaitWhenEmpty(t, n)
    BY <2>4, <2>0, <1>T, <1>P, PcStepsThread DEF InService, serviceUnchanged, stopVars, clientVars, addVars
  <2>5. CASE pc[t] = "timed" /\ until[t] = 0 /\ ~interrupted /\ TakeTask(t)
    BY <2>5, <2>0, <1>T, <1>P, PcStepsThread DEF InService, serviceUnchanged, stopVars, clientVars, addVars
  <2> QED BY <2>0, <2>1, <2>2, <2>3, <2>4, <2>5
<1>9. ASSUME NEW t \in Thread, Interrupted(t)
      PROVE  ClientPc'
  BY <1>9, <1>T, <1>P, PcStepsThread DEF Interrupted, stopVars, clientVars, addVars
<1>10. ASSUME NEW t \in Thread, Repeat(t)
      PROVE  ClientPc'
  BY <1>10, <1>T, <1>P, PcStepsThread DEF Repeat, stopVars, clientVars, addVars
<1>11. ASSUME NEW t \in Thread, SpuriousWakeUp(t)
      PROVE  ClientPc'
  BY <1>11, <1>T, <1>P, PcStepsThread DEF SpuriousWakeUp, stopVars, clientVars, addVars
<1>12. ASSUME NEW t \in Thread, RepeatInterrupted(t)
      PROVE  ClientPc'
  BY <1>12, <1>T, <1>P, PcStepsThread DEF RepeatInterrupted, stopVars, clientVars, addVars
<1>13. ASSUME NEW p \in Producer, AddToProcessQueue(p)
      PROVE  ClientPc'
  <2>1. Moved(p, "maybe", {}) /\ callback' = callback /\ p \in Actor /\ pc[p] = "idle"
    BY <1>13, ActorFacts, PcStepsClient DEF AddToProcessQueue, AppendCallback
  <2>2. \A q \in Producer : q # p => awaited'[q] = awaited[q]
    BY <1>13, <1>0 DEF AddToProcessQueue, ClientTyped
  <2> QED BY <2>1, <2>2, <1>0, ActorFacts DEF ClientPc, Moved
<1>14. ASSUME NEW p \in Producer, SyncReturns(p)
      PROVE  ClientPc'
  <2>1. Moved(p, "idle", {}) /\ callback' = callback /\ p \in Actor /\ pc[p] = "sync"
    BY <1>14, ActorFacts, PcStepsClient DEF SyncReturns, clientVars
  <2>2. \A q \in Producer : q # p => awaited'[q] = awaited[q]
    BY <1>14, <1>0 DEF SyncReturns, ClientTyped
  <2> QED BY <2>1, <2>2, <1>0, ActorFacts DEF ClientPc, Moved
<1>15. ASSUME NEW a \in Actor, ProcessQueue(a)
      PROVE  ClientPc'
  <2>1. CASE Moved(a, Returned(a), {}) /\ UNCHANGED clientVars
    BY <1>15, <2>1, <1>K, ReturnedFacts DEF ProcessQueue, ClientPcs, clientVars, addVars
  <2>2. CASE ~ (UNCHANGED clientVars)
    <3>1. /\ pc' = [pc EXCEPT ![a] = "callback"]
          /\ callback' = [callback EXCEPT ![a] = Head(m_callbacks_pending)]
          /\ m_callbacks_pending # <<>> /\ awaited' = awaited /\ pc[a] = "process"
      BY <1>15, <2>2 DEF ProcessQueue, addVars
    <3>2. Head(m_callbacks_pending) \in Callback
      BY <3>1, <1>0 DEF ClientTyped
    <3>3. Head(m_callbacks_pending) # 0
      BY <3>2, SchedulerAssumption DEF Callback
    <3> QED BY <3>1, <3>3, <1>0, <1>1a, ActorFacts DEF ClientPc, ClientTyped
  <2>3. CASE UNCHANGED clientVars
    <3>1. pc' = [pc EXCEPT ![a] = Returned(a)] \/ (m_callbacks_pending # <<>> /\ m_callbacks_pending' = Tail(m_callbacks_pending))
      BY <1>15 DEF ProcessQueue
    <3>2. m_callbacks_pending \in Seq(Callback) /\ m_callbacks_pending' = m_callbacks_pending
      BY <2>3, <1>0 DEF clientVars, ClientTyped
    <3>3. pc' = [pc EXCEPT ![a] = Returned(a)]
      <4>1. m_callbacks_pending # <<>> => Tail(m_callbacks_pending) # m_callbacks_pending
        BY <3>2
      <4> QED BY <3>1, <3>2, <4>1
    <3>4. Moved(a, Returned(a), {})
      BY <3>3, <1>1a, ReturnedFacts, MovedPlain
    <3> QED BY <3>4, <2>1, <2>3
  <2> QED BY <2>2, <2>3
<1>16. ASSUME NEW a \in Actor, CallbackEnds(a)
      PROVE  ClientPc'
  <2>1. /\ pc' = [pc EXCEPT ![a] = "finish"] /\ callback' = [callback EXCEPT ![a] = 0]
        /\ awaited' = awaited
    BY <1>16 DEF CallbackEnds, addVars
  <2> QED BY <2>1, <1>0, <1>1a, ActorFacts DEF ClientPc, ClientTyped
<1>17. ASSUME NEW a \in Actor, FinishProcessQueue(a)
      PROVE  ClientPc'
  BY <1>17, <1>K, ReturnedFacts, PcStepsClient DEF FinishProcessQueue, ClientPcs, stopVars, clientVars, addVars
<1>18. ASSUME NEW a \in Actor, MaybeScheduleProcessQueue(a)
      PROVE  ClientPc'
  BY <1>18, <1>K, ReturnedFacts, PcStepsClient DEF MaybeScheduleProcessQueue, ClientPcs, stopVars, clientVars, addVars
<1>19. ASSUME NEW a \in Actor, ScheduleProcessQueue(a)
      PROVE  ClientPc'
  BY <1>19, <1>K, ReturnedFacts, PcStepsClient DEF ScheduleProcessQueue, ClientPcs, stopVars, clientVars, addVars
<1>20. ASSUME NEW a \in Actor, CallbackAdds(a)
      PROVE  ClientPc'
  BY <1>20, <1>0 DEF CallbackAdds, ClientPc, stopVars, clientVars, addVars
<1>21. CASE UNCHANGED vars
  BY <1>21, <1>0 DEF vars, ClientPc, stopVars, clientVars, addVars
<1> QED
  BY <1>1, <1>2, <1>3, <1>4, <1>5, <1>6, <1>7, <1>8, <1>9, <1>10, <1>11,
     <1>12, <1>13, <1>14, <1>15, <1>16, <1>17, <1>18, <1>19, <1>20, <1>21
  DEF Next, Service, Client, Ended

(* TypeOK, but for the counter. *)
LEMMA TypeParts ==
    TypeOK <=> PcTyped /\ QueueTyped /\ ClientTyped /\ ClientPc /\ nThreadsServicingQueue \in Nat
BY DEF TypeOK, PcTyped, QueueTyped, ClientTyped, ClientPc, Task, Sorted

-----------------------------------------------------------------------------
(* The counter of service threads. *)

Counted == nThreadsServicingQueue = Cardinality(Alive(pc))

(* How a step changes the number of service threads. *)
LEMMA CountMoved ==
    ASSUME NEW a \in Actor, NEW next, NEW S, Moved(a, next, S)
    PROVE  /\ Cardinality(Alive(pc)) \in Nat /\ Cardinality(Alive(pc')) \in Nat
           /\ a \notin Thread => Cardinality(Alive(pc')) = Cardinality(Alive(pc))
           /\ a \in Thread /\ pc[a] \in {"new", "gone"} =>
                  Cardinality(Alive(pc')) =
                      IF next \in {"new", "gone"} THEN Cardinality(Alive(pc))
                      ELSE Cardinality(Alive(pc)) + 1
           /\ a \in Thread /\ pc[a] \notin {"new", "gone"} =>
                  Cardinality(Alive(pc')) =
                      IF next \in {"new", "gone"} THEN Cardinality(Alive(pc)) - 1
                      ELSE Cardinality(Alive(pc))
<1>1. IsFiniteSet(Alive(pc)) /\ IsFiniteSet(Alive(pc'))
  <2>1. Alive(pc) \in SUBSET Thread /\ Alive(pc') \in SUBSET Thread
    BY DEF Alive
  <2> QED BY <2>1, SchedulerAssumption, FS_Subset
<1>2. Cardinality(Alive(pc)) \in Nat /\ Cardinality(Alive(pc')) \in Nat
  BY <1>1, FS_CardinalityType
<1>3. \A b \in Thread : b # a => (b \in Alive(pc') <=> b \in Alive(pc))
  BY ActorFacts DEF Moved, Alive
<1>4. a \in Thread => /\ a \in Alive(pc) <=> pc[a] \notin {"new", "gone"}
                      /\ a \in Alive(pc') <=> next \notin {"new", "gone"}
  BY DEF Moved, Alive
<1>5. Alive(pc) \subseteq Thread /\ Alive(pc') \subseteq Thread
  BY DEF Alive
<1>6. CASE a \notin Thread
  <2>1. Alive(pc') = Alive(pc)
    BY <1>3, <1>5, <1>6
  <2> QED BY <2>1, <1>2, <1>6
<1>7. CASE a \in Thread /\ a \notin Alive(pc) /\ a \in Alive(pc')
  <2>1. Alive(pc') = Alive(pc) \cup {a}
    BY <1>3, <1>5, <1>7
  <2>2. Cardinality(Alive(pc')) = Cardinality(Alive(pc)) + 1
    BY <2>1, <1>1, <1>7, FS_AddElement
  <2> QED BY <2>2, <1>2, <1>4, <1>7
<1>8. CASE a \in Thread /\ a \in Alive(pc) /\ a \notin Alive(pc')
  <2>1. Alive(pc') = Alive(pc) \ {a}
    BY <1>3, <1>5, <1>8
  <2>2. Cardinality(Alive(pc')) = Cardinality(Alive(pc)) - 1
    BY <2>1, <1>1, <1>8, FS_RemoveElement
  <2> QED BY <2>2, <1>2, <1>4, <1>8
<1>9. CASE a \in Thread /\ (a \in Alive(pc) <=> a \in Alive(pc'))
  <2>1. Alive(pc') = Alive(pc)
    BY <1>3, <1>5, <1>9
  <2> QED BY <2>1, <1>2, <1>4, <1>9
<1> QED BY <1>6, <1>7, <1>8, <1>9

(* nThreadsServicingQueue counts the service threads. *)
LEMMA CountedStep ==
    ASSUME TypeOK, Counted, [Next]_vars
    PROVE  Counted'
<1>0. Counted /\ nThreadsServicingQueue \in Nat
  BY DEF TypeOK
<1>G. Counted' <=> nThreadsServicingQueue' = Cardinality(Alive(pc'))
  BY DEF Counted, Alive
<1>O. ASSUME NEW b \in Actor \ Thread, NEW next, NEW S, Moved(b, next, S),
             nThreadsServicingQueue' = nThreadsServicingQueue
      PROVE  Counted'
  BY <1>O, <1>0, <1>G, CountMoved DEF Counted
<1>T. ASSUME NEW t \in Thread, NEW next, NEW S, Moved(t, next, S),
             pc[t] \notin {"new", "gone"}, next \notin {"new", "gone"},
             nThreadsServicingQueue' = nThreadsServicingQueue
      PROVE  Counted'
  BY <1>T, <1>0, <1>G, CountMoved, ActorFacts DEF Counted
<1>E. ASSUME NEW t \in Thread, NEW n, InService(t, n), NEW next, NEW S, Moved(t, next, S),
             nThreadsServicingQueue' = IF next \in {"new", "gone"} THEN n - 1 ELSE n
      PROVE  Counted'
  BY <1>E, <1>0, <1>G, CountMoved, ActorFacts DEF Counted, InService
<1>1. CASE Tick
  BY <1>1, <1>0 DEF Tick, Counted, Alive, stopVars, clientVars, addVars
<1>2. CASE ScheduleEvery
  BY <1>2, <1>O, ActorFacts, PcStepsMain DEF ScheduleEvery, AppendCallback, stopVars
<1>3. CASE InterruptAll
  BY <1>3, <1>O, ActorFacts, PcStepsMain DEF InterruptAll, AppendCallback, stopVars
<1>4. ASSUME NEW drain \in BOOLEAN, Stop(drain)
      PROVE  Counted'
  BY <1>4, <1>O, ActorFacts, PcStepsMain DEF Stop, AppendCallback, stopVars
<1>5. CASE JoinAll
  BY <1>5, <1>O, ActorFacts, PcStepsMain DEF JoinAll, AppendCallback, stopVars
<1>6. CASE LastSignal
  BY <1>6, <1>O, ActorFacts, PcStepsMain DEF LastSignal, AppendCallback, stopVars
<1>7. CASE EmptyQueue
  BY <1>7, <1>O, ActorFacts, PcStepsMain DEF EmptyQueue, AppendCallback, stopVars
<1>8. ASSUME NEW t \in Thread, StartThread(t) \/ LoopAgain(t) \/ WakeUp(t) \/ Timeout(t)
      PROVE  Counted'
  <2>0. PICK n : /\ InService(t, n)
                 /\ \/ Leave(t, n) \/ WaitUntilFirst(t, n)
                    \/ SleepWhenEmpty(t, n) \/ WaitWhenEmpty(t, n)
                    \/ /\ pc[t] = "timed" /\ until[t] = 0 /\ ~interrupted
                       /\ TakeTask(t)
    BY <1>8, ServiceSteps
  <2>1. CASE Leave(t, n)
    BY <2>1, <2>0, <1>E, PcStepsThread DEF Leave
  <2>2. CASE WaitUntilFirst(t, n)
    BY <2>2, <2>0, <1>E, PcStepsThread DEF WaitUntilFirst
  <2>3. CASE SleepWhenEmpty(t, n)
    BY <2>3, <2>0, <1>E, PcStepsThread DEF SleepWhenEmpty
  <2>4. CASE WaitWhenEmpty(t, n)
    BY <2>4, <2>0, <1>E, PcStepsThread DEF WaitWhenEmpty
  <2>5. CASE pc[t] = "timed" /\ until[t] = 0 /\ ~interrupted /\ TakeTask(t)
    BY <2>5, <2>0, <1>T, PcStepsThread DEF TakeTask
  <2> QED BY <2>0, <2>1, <2>2, <2>3, <2>4, <2>5
<1>9. ASSUME NEW t \in Thread, Interrupted(t)
      PROVE  Counted'
  BY <1>9, <1>0, <1>G, CountMoved, ActorFacts, PcStepsThread DEF Interrupted, Counted
<1>10. ASSUME NEW t \in Thread, Repeat(t)
      PROVE  Counted'
  BY <1>10, <1>T, PcStepsThread DEF Repeat, stopVars
<1>11. ASSUME NEW t \in Thread, SpuriousWakeUp(t)
      PROVE  Counted'
  BY <1>11, <1>T, PcStepsThread DEF SpuriousWakeUp, stopVars
<1>12. ASSUME NEW t \in Thread, RepeatInterrupted(t)
      PROVE  Counted'
  BY <1>12, <1>T, PcStepsThread DEF RepeatInterrupted, stopVars
<1>13. ASSUME NEW p \in Producer, AddToProcessQueue(p)
      PROVE  Counted'
  BY <1>13, <1>O, ActorFacts, PcStepsClient DEF AddToProcessQueue, AppendCallback, stopVars
<1>14. ASSUME NEW p \in Producer, SyncReturns(p)
      PROVE  Counted'
  BY <1>14, <1>O, ActorFacts, PcStepsClient DEF SyncReturns, AppendCallback, stopVars
<1>15. ASSUME NEW a \in Actor, ProcessQueue(a)
      PROVE  Counted'
  BY <1>15, <1>T, <1>O, PcStepsClient, ReturnedFacts DEF ProcessQueue, stopVars
<1>16. ASSUME NEW a \in Actor, CallbackEnds(a)
      PROVE  Counted'
  BY <1>16, <1>T, <1>O, PcStepsClient, ReturnedFacts DEF CallbackEnds, stopVars
<1>17. ASSUME NEW a \in Actor, FinishProcessQueue(a)
      PROVE  Counted'
  BY <1>17, <1>T, <1>O, PcStepsClient, ReturnedFacts DEF FinishProcessQueue, stopVars
<1>18. ASSUME NEW a \in Actor, MaybeScheduleProcessQueue(a)
      PROVE  Counted'
  BY <1>18, <1>T, <1>O, PcStepsClient, ReturnedFacts DEF MaybeScheduleProcessQueue, stopVars
<1>19. ASSUME NEW a \in Actor, ScheduleProcessQueue(a)
      PROVE  Counted'
  BY <1>19, <1>T, <1>O, PcStepsClient, ReturnedFacts DEF ScheduleProcessQueue, stopVars
<1>20. ASSUME NEW a \in Actor, CallbackAdds(a)
      PROVE  Counted'
  BY <1>20, <1>0 DEF CallbackAdds, Counted, Alive, stopVars, clientVars, addVars
<1>21. CASE UNCHANGED vars
  BY <1>21, <1>0 DEF vars, Counted, Alive, stopVars, clientVars, addVars
<1> QED
  BY <1>1, <1>2, <1>3, <1>4, <1>5, <1>6, <1>7, <1>8, <1>9, <1>10, <1>11,
     <1>12, <1>13, <1>14, <1>15, <1>16, <1>17, <1>18, <1>19, <1>20, <1>21
  DEF Next, Service, Client, Ended

LEMMA TypeOKStep ==
    ASSUME TypeOK, Counted, [Next]_vars
    PROVE  TypeOK' /\ Counted'
<1>1. PcTyped' /\ QueueTyped' /\ ClientTyped' /\ ClientPc' /\ Counted'
  BY PcTypedStep, QueueTypedStep, ClientTypedStep, ClientPcStep, CountedStep
<1>2. nThreadsServicingQueue' \in Nat
  <2>1. Alive(pc') \in SUBSET Thread
    BY DEF Alive
  <2>2. Cardinality(Alive(pc')) \in Nat
    BY <2>1, SchedulerAssumption, FS_Subset, FS_CardinalityType
  <2> QED BY <2>2, <1>1 DEF Counted, Alive
<1>3. TypeOK' <=> (PcTyped /\ QueueTyped /\ ClientTyped /\ ClientPc /\ nThreadsServicingQueue \in Nat)'
  BY DEF TypeOK, PcTyped, QueueTyped, ClientTyped, ClientPc, Task, Sorted
<1> QED BY <1>1, <1>2, <1>3

(* What the actions of the client have in common. *)
LEMMA ClientSteps ==
    ASSUME TypeOK, NEW a \in Actor, Client(a)
    PROVE  /\ pc[a] \in ClientPcs
           /\ \E next \in {Returned(a)} \cup ClientPcs : \E S : Moved(a, next, S)
           /\ UNCHANGED <<interrupted, stopRequested, stopWhenEmpty, nThreadsServicingQueue>>
           /\ thrown' # thrown => interrupted /\ a \in Thread
<1>C. ClientPcs = {"process", "callback", "finish", "maybe", "schedule"}
  BY DEF ClientPcs
<1>1. pc[a] \in ClientPcs
  BY <1>C DEF Client, ProcessQueue, CallbackEnds, FinishProcessQueue,
     MaybeScheduleProcessQueue, ScheduleProcessQueue
<1>2. \E next \in {Returned(a)} \cup ClientPcs : \E S : Moved(a, next, S)
  BY <1>C, PcStepsClient DEF Client
<1>3. UNCHANGED <<interrupted, stopRequested, stopWhenEmpty, nThreadsServicingQueue>>
  BY DEF Client, ProcessQueue, CallbackEnds, FinishProcessQueue,
     MaybeScheduleProcessQueue, ScheduleProcessQueue, stopVars
<1>4. thrown' # thrown => interrupted /\ a \in Thread
  BY DEF Client, ProcessQueue, CallbackEnds, FinishProcessQueue,
     MaybeScheduleProcessQueue, ScheduleProcessQueue
<1> QED BY <1>1, <1>2, <1>3, <1>4

(* What the other actions of a service thread have in common. *)
LEMMA ThreadSteps ==
    ASSUME TypeOK, NEW t \in Thread,
           Repeat(t) \/ SpuriousWakeUp(t) \/ RepeatInterrupted(t)
    PROVE  /\ pc[t] \in {"repeat", "wait", "timed"}
           /\ \E next \in {"top", "wake", "throw"} : \E S :
                  Moved(t, next, S) /\ (next = "throw" => interrupted)
           /\ UNCHANGED <<stopVars, thrown, clientVars, addVars>>
<1>1. pc[t] \in {"repeat", "wait", "timed"}
  BY PcStepsThread DEF Repeat, RepeatInterrupted
<1>2. CASE Repeat(t)
  BY <1>1, <1>2, PcStepsThread DEF Repeat
<1>3. CASE SpuriousWakeUp(t)
  BY <1>1, <1>3, PcStepsThread DEF SpuriousWakeUp
<1>4. CASE RepeatInterrupted(t)
  BY <1>1, <1>4, PcStepsThread DEF RepeatInterrupted
<1> QED BY <1>2, <1>3, <1>4

-----------------------------------------------------------------------------
(* One callback at a time. *)

LEMMA OneRunsKept ==
    ASSUME OneRuns, NEW a \in Actor, NEW next, NEW S, Moved(a, next, S),
           next \in Running <=> pc[a] \in Running,
           m_are_callbacks_running' = m_are_callbacks_running
    PROVE  OneRuns'
<1>1. \A b \in Actor : pc'[b] \in Running <=> pc[b] \in Running
  BY DEF Moved, Running
<1> QED BY <1>1 DEF OneRuns

(* OneRuns is inductive. *)
LEMMA OneRunsStep ==
    ASSUME TypeOK, OneRuns, [Next]_vars
    PROVE  OneRuns'
<1>R. Running = {"callback", "finish"}
  BY DEF Running
<1>M. ASSUME NEW next, NEW S, Moved(Main, next, S), pc[Main] \notin Running, next \notin Running,
             UNCHANGED m_are_callbacks_running
      PROVE  OneRuns'
  BY <1>M, OneRunsKept, ActorFacts
<1>T. ASSUME NEW t \in Thread, NEW next, NEW S, Moved(t, next, S), pc[t] \notin Running, next \notin Running,
             UNCHANGED m_are_callbacks_running
      PROVE  OneRuns'
  BY <1>T, OneRunsKept, ActorFacts
<1>1. CASE Tick
  BY <1>1 DEF Tick, OneRuns, stopVars, clientVars, addVars
<1>2. CASE ScheduleEvery
  BY <1>2, <1>M, <1>R, PcStepsMain DEF ScheduleEvery, AppendCallback, clientVars
<1>3. CASE InterruptAll
  BY <1>3, <1>M, <1>R, PcStepsMain DEF InterruptAll, AppendCallback, clientVars
<1>4. ASSUME NEW drain \in BOOLEAN, Stop(drain)
      PROVE  OneRuns'
  BY <1>4, <1>M, <1>R, PcStepsMain DEF Stop, AppendCallback, clientVars
<1>5. CASE JoinAll
  BY <1>5, <1>M, <1>R, PcStepsMain DEF JoinAll, AppendCallback, clientVars
<1>6. CASE LastSignal
  BY <1>6, <1>M, <1>R, PcStepsMain DEF LastSignal, AppendCallback, clientVars
<1>7. CASE EmptyQueue
  BY <1>7, <1>M, <1>R, PcStepsMain DEF EmptyQueue, AppendCallback, clientVars
<1>8. ASSUME NEW t \in Thread, StartThread(t) \/ LoopAgain(t) \/ WakeUp(t) \/ Timeout(t)
      PROVE  OneRuns'
  <2>0. PICK n : /\ InService(t, n)
                 /\ \/ Leave(t, n) \/ WaitUntilFirst(t, n)
                    \/ SleepWhenEmpty(t, n) \/ WaitWhenEmpty(t, n)
                    \/ /\ pc[t] = "timed" /\ until[t] = 0 /\ ~interrupted
                       /\ TakeTask(t)
    BY <1>8, ServiceSteps
  <2>1. CASE Leave(t, n)
    BY <2>1, <2>0, <1>T, <1>R, PcStepsThread DEF InService, serviceUnchanged, clientVars
  <2>2. CASE WaitUntilFirst(t, n)
    BY <2>2, <2>0, <1>T, <1>R, PcStepsThread DEF InService, serviceUnchanged, clientVars
  <2>3. CASE SleepWhenEmpty(t, n)
    BY <2>3, <2>0, <1>T, <1>R, PcStepsThread DEF InService, serviceUnchanged, clientVars
  <2>4. CASE WaitWhenEmpty(t, n)
    BY <2>4, <2>0, <1>T, <1>R, PcStepsThread DEF InService, serviceUnchanged, clientVars
  <2>5. CASE pc[t] = "timed" /\ until[t] = 0 /\ ~interrupted /\ TakeTask(t)
    BY <2>5, <2>0, <1>T, <1>R, PcStepsThread DEF InService, serviceUnchanged, clientVars
  <2> QED BY <2>0, <2>1, <2>2, <2>3, <2>4, <2>5
<1>9. ASSUME NEW t \in Thread, Interrupted(t)
      PROVE  OneRuns'
  <2>1. Moved(t, "gone", {}) /\ pc[t] \notin Running /\ "gone" \notin Running
    BY <1>9, <1>R, PcStepsThread DEF Interrupted
  <2>2. UNCHANGED m_are_callbacks_running
    BY <1>9 DEF Interrupted, clientVars
  <2> QED BY <2>1, <2>2, <1>T
<1>10. ASSUME NEW t \in Thread, Repeat(t) \/ SpuriousWakeUp(t) \/ RepeatInterrupted(t)
      PROVE  OneRuns'
  <2>1. PICK next, S : Moved(t, next, S) /\ next \in {"top", "wake", "throw"}
    BY <1>10, ThreadSteps
  <2>2. pc[t] \notin Running /\ next \notin Running
    BY <1>10, <2>1, <1>R, ThreadSteps
  <2>3. UNCHANGED m_are_callbacks_running
    BY <1>10, ThreadSteps DEF clientVars
  <2> QED BY <2>1, <2>2, <2>3, <1>T
<1>11. ASSUME NEW p \in Producer, AddToProcessQueue(p)
      PROVE  OneRuns'
  BY <1>11, <1>R, ActorFacts, OneRunsKept, PcStepsClient DEF AddToProcessQueue, AppendCallback, clientVars
<1>12. ASSUME NEW p \in Producer, SyncReturns(p)
      PROVE  OneRuns'
  BY <1>12, <1>R, ActorFacts, OneRunsKept, PcStepsClient DEF SyncReturns, AppendCallback, clientVars
<1>13. ASSUME NEW a \in Actor, ProcessQueue(a)
      PROVE  OneRuns'
  <2>1. CASE pc' = [pc EXCEPT ![a] = Returned(a)] /\ UNCHANGED clientVars
    <3>1. Moved(a, Returned(a), {})
      BY <2>1, ReturnedFacts, MovedPlain DEF TypeOK
    <3> QED BY <1>13, <2>1, <3>1, <1>R, OneRunsKept, ReturnedFacts DEF ProcessQueue, ClientPcs, clientVars
  <2>2. CASE /\ ~m_are_callbacks_running /\ m_are_callbacks_running' = TRUE
             /\ pc' = [pc EXCEPT ![a] = "callback"]
    BY <2>2, <1>R DEF OneRuns, TypeOK
  <2> QED BY <1>13, <2>1, <2>2 DEF ProcessQueue
<1>14. ASSUME NEW a \in Actor, CallbackEnds(a)
      PROVE  OneRuns'
  BY <1>14, <1>R, OneRunsKept, ReturnedFacts, PcStepsClient DEF CallbackEnds, ClientPcs, clientVars
<1>15. ASSUME NEW a \in Actor, FinishProcessQueue(a)
      PROVE  OneRuns'
  <2>1. Moved(a, "maybe", {}) /\ pc[a] \in Running /\ m_are_callbacks_running' = FALSE
    BY <1>15, <1>R, PcStepsClient DEF FinishProcessQueue
  <2>2. \A b \in Actor : pc'[b] \notin Running
    BY <2>1, <1>R DEF OneRuns, Moved
  <2> QED BY <2>1, <2>2 DEF OneRuns
<1>16. ASSUME NEW a \in Actor, MaybeScheduleProcessQueue(a)
      PROVE  OneRuns'
  BY <1>16, <1>R, OneRunsKept, ReturnedFacts, PcStepsClient DEF MaybeScheduleProcessQueue, ClientPcs, clientVars
<1>17. ASSUME NEW a \in Actor, ScheduleProcessQueue(a)
      PROVE  OneRuns'
  BY <1>17, <1>R, OneRunsKept, ReturnedFacts, PcStepsClient DEF ScheduleProcessQueue, ClientPcs, clientVars
<1>18. ASSUME NEW a \in Actor, CallbackAdds(a)
      PROVE  OneRuns'
  BY <1>18 DEF CallbackAdds, OneRuns, stopVars, clientVars, addVars
<1>19. CASE UNCHANGED vars
  BY <1>19 DEF vars, OneRuns, stopVars, clientVars, addVars
<1> QED
  BY <1>1, <1>2, <1>3, <1>4, <1>5, <1>6, <1>7, <1>8, <1>9, <1>10, <1>11,
     <1>12, <1>13, <1>14, <1>15, <1>16, <1>17, <1>18, <1>19
  DEF Next, Service, Client, Ended

-----------------------------------------------------------------------------
(* The phases of the node. *)

LEMMA PhasesThread ==
    ASSUME Phases, NEW t \in Thread, NEW next, NEW S, Moved(t, next, S),
           pc[t] \in {"new", "gone"} => pc[Main] \in {"boot", "up"},
           next = "gone" => pc[Main] \notin {"boot", "up"},
           next = "throw" => interrupted,
           ~interrupted => thrown' = thrown,
           UNCHANGED <<interrupted, stopRequested, stopWhenEmpty>>
    PROVE  Phases'
<1>1. pc'[Main] = pc[Main]
  BY ActorFacts DEF Moved
<1>2. \A u \in Thread : \/ u = t /\ pc'[u] = next
                        \/ pc'[u] = pc[u]
                        \/ pc[u] \in {"wait", "timed"} /\ pc'[u] \in {"wake", "top"}
  BY ActorFacts DEF Moved
<1>3. pc[Main] \notin {"joined", "empty", "end"} \cup ClientPcs
      \/ \A u \in Thread : u # t => pc'[u] = pc[u]
  BY <1>2 DEF Phases
<1>4. pc[Main] \in {"joined", "empty", "end"} \cup ClientPcs => pc[t] \in {"new", "gone"}
  BY DEF Phases
<1>5. pc[Main] \notin {"joined", "empty", "end"} \cup ClientPcs
  BY <1>4 DEF ClientPcs
<1> QED BY <1>1, <1>2, <1>5 DEF Phases

LEMMA PhasesOther ==
    ASSUME Phases, NEW a \in Actor \ Thread, NEW next, NEW S, Moved(a, next, S),
           a = Main =>
               /\ pc[Main] = "boot" \/ next \notin {"boot", "up"}
               /\ next \in {"joined", "empty", "end"} \cup ClientPcs =>
                      \A t \in Thread : pc[t] \in {"new", "gone"},
           thrown' = thrown,
           UNCHANGED <<interrupted, stopRequested, stopWhenEmpty>>
    PROVE  Phases'
<1>1. \A u \in Thread : \/ pc'[u] = pc[u]
                        \/ pc[u] \in {"wait", "timed"} /\ pc'[u] \in {"wake", "top"}
  BY ActorFacts DEF Moved
<1>2. CASE a # Main
  <2>1. pc'[Main] = pc[Main]
    BY <1>2, ActorFacts DEF Moved
  <2> QED BY <2>1, <1>1 DEF Phases
<1>3. CASE a = Main
  <2>1. pc'[Main] = next
    BY <1>3 DEF Moved
  <2> QED BY <2>1, <1>1, <1>3 DEF Phases
<1> QED BY <1>2, <1>3

(* Phases is inductive. *)
LEMMA PhasesStep ==
    ASSUME TypeOK, Phases, [Next]_vars
    PROVE  Phases'
<1>C. ClientPcs = {"process", "callback", "finish", "maybe", "schedule"}
  BY DEF ClientPcs
<1>F. pc[Main] \in MainPcs \cup ClientPcs
  BY DEF TypeOK
<1>N. \A a \in Actor : a \in Thread \/ a \in Producer \/ a = Main
  BY ActorFacts
<1>S. ShouldStop => pc[Main] \notin {"boot", "up"}
  BY DEF ShouldStop, Phases
<1>T. \A p \in Producer : pc[p] \in {"idle", "maybe", "schedule", "sync"}
  BY DEF TypeOK
<1>1. CASE Tick
  BY <1>1 DEF Tick, Phases, stopVars, clientVars, addVars
<1>2. CASE ScheduleEvery \/ JoinAll \/ LastSignal \/ EmptyQueue
  <2>1. PICK next, S : /\ Moved(Main, next, S)
                       /\ pc[Main] = "boot" \/ next \notin {"boot", "up"}
                       /\ next \in {"joined", "empty", "end"} \cup ClientPcs =>
                              \A t \in Thread : pc[t] \in {"new", "gone"}
    <3>1. CASE ScheduleEvery
      BY <3>1, <1>C, PcStepsMain DEF ScheduleEvery
    <3>2. CASE JoinAll
      BY <3>2, <1>C, PcStepsMain DEF JoinAll
    <3>3. CASE LastSignal
      BY <3>3, <1>C, PcStepsMain DEF LastSignal, Phases
    <3>4. CASE EmptyQueue
      BY <3>4, <1>C, PcStepsMain DEF EmptyQueue, Phases
    <3> QED BY <1>2, <3>1, <3>2, <3>3, <3>4
  <2>2. UNCHANGED <<thrown, interrupted, stopRequested, stopWhenEmpty>>
    BY <1>2 DEF ScheduleEvery, JoinAll, LastSignal, EmptyQueue, AppendCallback, stopVars
  <2> QED BY <2>1, <2>2, ActorFacts, PhasesOther
<1>3. CASE InterruptAll
  <2>1. Moved(Main, "stopping", {}) /\ interrupted'
    BY <1>3, PcStepsMain DEF InterruptAll
  <2> QED BY <2>1, <1>C, ActorFacts DEF Phases, Moved
<1>4. ASSUME NEW drain \in BOOLEAN, Stop(drain)
      PROVE  Phases'
  <2>1. Moved(Main, "stopping", Waiting(pc)) /\ UNCHANGED <<interrupted, thrown>>
    BY <1>4, PcStepsMain DEF Stop
  <2>2. \A u \in Thread : pc'[u] = "throw" => pc[u] = "throw"
    BY <2>1, ActorFacts DEF Moved
  <2> QED BY <2>1, <2>2, <1>C, ActorFacts DEF Phases, Moved
<1>5. ASSUME NEW t \in Thread, StartThread(t) \/ LoopAgain(t) \/ WakeUp(t) \/ Timeout(t)
      PROVE  Phases'
  <2>0. PICK n : /\ InService(t, n)
                 /\ \/ Leave(t, n) \/ WaitUntilFirst(t, n)
                    \/ SleepWhenEmpty(t, n) \/ WaitWhenEmpty(t, n)
                    \/ /\ pc[t] = "timed" /\ until[t] = 0 /\ ~interrupted
                       /\ TakeTask(t)
    BY <1>5, ServiceSteps
  <2>1. CASE Leave(t, n)
    BY <2>1, <2>0, <1>S, PhasesThread, PcStepsThread DEF InService, serviceUnchanged, Leave
  <2>2. CASE WaitUntilFirst(t, n)
    BY <2>2, <2>0, <1>S, PhasesThread, PcStepsThread DEF InService, serviceUnchanged, WaitUntilFirst
  <2>3. CASE SleepWhenEmpty(t, n)
    BY <2>3, <2>0, <1>S, PhasesThread, PcStepsThread DEF InService, serviceUnchanged, SleepWhenEmpty
  <2>4. CASE WaitWhenEmpty(t, n)
    BY <2>4, <2>0, <1>S, PhasesThread, PcStepsThread DEF InService, serviceUnchanged, WaitWhenEmpty
  <2>5. CASE pc[t] = "timed" /\ until[t] = 0 /\ ~interrupted /\ TakeTask(t)
    BY <2>5, <2>0, <1>S, PhasesThread, PcStepsThread DEF InService, serviceUnchanged, TakeTask
  <2> QED BY <2>0, <2>1, <2>2, <2>3, <2>4, <2>5
<1>6. ASSUME NEW t \in Thread, Interrupted(t)
      PROVE  Phases'
  <2>1. pc[Main] \notin {"boot", "up"} /\ Moved(t, "gone", {}) /\ pc[t] \notin {"new", "gone"}
    BY <1>6, PcStepsThread DEF Interrupted, Phases
  <2>2. UNCHANGED <<thrown, interrupted, stopRequested, stopWhenEmpty>>
    BY <1>6 DEF Interrupted
  <2> QED BY <2>1, <2>2, PhasesThread
<1>7. ASSUME NEW t \in Thread, Repeat(t) \/ SpuriousWakeUp(t) \/ RepeatInterrupted(t)
      PROVE  Phases'
  <2>1. PICK next, S : /\ Moved(t, next, S) /\ next \in {"top", "wake", "throw"}
                       /\ next = "throw" => interrupted
    BY <1>7, ThreadSteps
  <2>2. pc[t] \notin {"new", "gone"} /\ next # "gone"
    BY <1>7, <2>1, ThreadSteps
  <2>3. UNCHANGED <<thrown, interrupted, stopRequested, stopWhenEmpty>>
    BY <1>7, ThreadSteps DEF stopVars
  <2> QED BY <2>1, <2>2, <2>3, PhasesThread
<1>8. ASSUME NEW p \in Producer, AddToProcessQueue(p)
      PROVE  Phases'
  BY <1>8, ActorFacts, PhasesOther, PcStepsClient DEF AddToProcessQueue, AppendCallback, stopVars, clientVars, addVars
<1>9. ASSUME NEW p \in Producer, SyncReturns(p)
      PROVE  Phases'
  BY <1>9, ActorFacts, PhasesOther, PcStepsClient DEF SyncReturns, AppendCallback, stopVars, clientVars, addVars
<1>10. ASSUME NEW a \in Actor, Client(a)
      PROVE  Phases'
  <2>1. PICK next, S : Moved(a, next, S) /\ next \in {Returned(a)} \cup ClientPcs
    BY <1>10, ClientSteps
  <2>2. /\ pc[a] \in ClientPcs /\ UNCHANGED <<interrupted, stopRequested, stopWhenEmpty>>
        /\ thrown' # thrown => interrupted /\ a \in Thread
    BY <1>10, ClientSteps
  <2>3. CASE a \in Thread
    <3>1. next \notin {"gone", "new"} /\ (next = "throw" => a \in thrown)
      BY <2>1, <2>3, <1>C, ReturnedFacts
    <3>2. a \in thrown => interrupted
      BY DEF Phases
    <3> QED BY <2>1, <2>2, <2>3, <3>1, <3>2, <1>C, PhasesThread
  <2>4. CASE a \notin Thread
    <3>1. a = Main => next \in {"empty"} \cup ClientPcs
      BY <2>1, ReturnedFacts
    <3>2. a = Main => \A t \in Thread : pc[t] \in {"new", "gone"}
      BY <2>2 DEF Phases
    <3>3. a = Main => next \notin {"boot", "up"}
      BY <3>1, <1>C
    <3> QED BY <2>1, <2>2, <2>4, <3>2, <3>3, PhasesOther
  <2> QED BY <2>3, <2>4
<1>11. ASSUME NEW a \in Actor, CallbackAdds(a)
      PROVE  Phases'
  BY <1>11 DEF CallbackAdds, Phases, stopVars, clientVars, addVars
<1>12. CASE UNCHANGED vars
  BY <1>12 DEF vars, Phases, stopVars, clientVars, addVars
<1> QED
  BY <1>1, <1>2, <1>3, <1>4, <1>5, <1>6, <1>7, <1>8, <1>9, <1>10, <1>11,
     <1>12
  DEF Next, Service, Ended

-----------------------------------------------------------------------------
(* No callback is forgotten. *)

HasProcess(q) == \E i \in DOMAIN q : q[i].task = "process"

LEMMA ForgottenKept ==
    ASSUME NeverForgotten, NEW a \in Actor, NEW next, NEW S, Moved(a, next, S),
           m_callbacks_pending' = m_callbacks_pending,
           HasProcess(taskQueue) => HasProcess(taskQueue'),
           pc[a] \notin ClientPcs,
           a = Main => pc[Main] \notin {"joined", "empty"}
    PROVE  NeverForgotten'
<1>1. \A b \in Actor : pc[b] \in ClientPcs => pc'[b] \in ClientPcs
  BY DEF Moved, ClientPcs
<1>2. pc[Main] \in {"joined", "empty"} => pc'[Main] \in {"joined", "empty"}
  BY ActorFacts DEF Moved
<1>3. NeverForgotten' <=>
        (m_callbacks_pending' # <<>> =>
           \/ HasProcess(taskQueue')
           \/ \E b \in Actor : pc'[b] \in ClientPcs
           \/ pc'[Main] \in {"joined", "empty"})
  BY DEF NeverForgotten, HasProcess
<1> QED BY <1>1, <1>2, <1>3 DEF NeverForgotten, HasProcess

(* An actor that is still in the client answers for all callbacks. *)
LEMMA ForgottenClient ==
    ASSUME NEW a \in Actor, pc'[a] \in ClientPcs
    PROVE  NeverForgotten'
BY DEF NeverForgotten

(* NeverForgotten is inductive, given OneRuns. *)
LEMMA ForgottenStep ==
    ASSUME TypeOK, OneRuns, NeverForgotten, [Next]_vars
    PROVE  NeverForgotten'
<1>C. ClientPcs = {"process", "callback", "finish", "maybe", "schedule"} /\ Main \in Actor
      /\ Thread \subseteq Actor /\ Producer \subseteq Actor /\ Running = {"callback", "finish"}
  BY ActorFacts DEF ClientPcs, Running
<1>Q. QueueTyped /\ Delta \in 0..Delta /\ 0 \in 0..Delta
  BY TypeParts, SchedulerAssumption
<1>U. UNCHANGED taskQueue => (HasProcess(taskQueue) => HasProcess(taskQueue'))
  BY DEF HasProcess
<1>S. ASSUME NEW b, NEW f \in {"process", "repeat"}, NEW d \in 0..Delta, NEW next, Schedule(b, f, d, next)
      PROVE  HasProcess(taskQueue) \/ f = "process" => HasProcess(taskQueue')
  BY <1>S, <1>Q, ScheduleQueue DEF HasProcess
<1>R. ASSUME NEW a \in Actor, NEW next, NEW S, Moved(a, next, S), pc[a] \notin Running,
             m_are_callbacks_running \/ m_callbacks_pending = <<>>,
             UNCHANGED m_callbacks_pending
      PROVE  NeverForgotten'
  <2>1. CASE m_are_callbacks_running
    <3>1. PICK b \in Actor : pc[b] \in Running
      BY <2>1 DEF OneRuns
    <3>2. pc'[b] = pc[b]
      BY <3>1, <1>R, <1>C DEF Moved
    <3> QED BY <3>1, <3>2, <1>C, ForgottenClient
  <2>2. CASE m_callbacks_pending = <<>>
    BY <2>2, <1>R DEF NeverForgotten
  <2> QED BY <1>R, <2>1, <2>2
<1>1. CASE Tick
  <2>1. HasProcess(taskQueue) => HasProcess(taskQueue')
    BY <1>1, <1>Q, TickFacts DEF HasProcess
  <2>2. UNCHANGED <<pc, m_callbacks_pending>>
    BY <1>1 DEF Tick, clientVars
  <2> QED BY <2>1, <2>2 DEF NeverForgotten, HasProcess
<1>2. CASE ScheduleEvery
  <2>1. (HasProcess(taskQueue) => HasProcess(taskQueue')) /\ UNCHANGED m_callbacks_pending
    BY <1>2, <1>S, <1>Q DEF ScheduleEvery, clientVars
  <2>2. pc[Main] \notin ClientPcs \cup {"joined", "empty"}
    BY <1>2, <1>C DEF ScheduleEvery
  <2> QED BY <1>2, <2>1, <2>2, <1>C, ForgottenKept, PcStepsMain
<1>3. CASE InterruptAll
  <2>1. UNCHANGED <<taskQueue, m_callbacks_pending>>
    BY <1>3 DEF InterruptAll, queueVars, clientVars
  <2>2. pc[Main] \notin ClientPcs \cup {"joined", "empty"}
    BY <1>3, <1>C DEF InterruptAll
  <2> QED BY <1>3, <2>1, <2>2, <1>C, <1>U, ForgottenKept, PcStepsMain
<1>4. ASSUME NEW drain \in BOOLEAN, Stop(drain)
      PROVE  NeverForgotten'
  <2>1. UNCHANGED <<taskQueue, m_callbacks_pending>>
    BY <1>4 DEF Stop, queueVars, clientVars
  <2>2. pc[Main] \notin ClientPcs \cup {"joined", "empty"}
    BY <1>4, <1>C DEF Stop
  <2> QED BY <1>4, <2>1, <2>2, <1>C, <1>U, ForgottenKept, PcStepsMain
<1>5. CASE JoinAll
  BY <1>5, PcStepsMain DEF NeverForgotten, Moved
<1>6. CASE LastSignal
  <2>1. pc'[Main] \in ClientPcs
    BY <1>6, <1>C, PcStepsMain DEF Moved
  <2> QED BY <2>1, <1>C, ForgottenClient
<1>7. CASE EmptyQueue
  <2>1. CASE m_callbacks_pending # <<>>
    <3>1. pc'[Main] \in ClientPcs
      BY <1>7, <2>1, <1>C, PcStepsMain DEF Moved
    <3> QED BY <3>1, <1>C, ForgottenClient
  <2>2. CASE m_callbacks_pending = <<>>
    BY <1>7, <2>2 DEF NeverForgotten, EmptyQueue, clientVars
  <2> QED BY <2>1, <2>2
<1>8. ASSUME NEW t \in Thread, StartThread(t) \/ LoopAgain(t) \/ WakeUp(t) \/ Timeout(t)
      PROVE  NeverForgotten'
  <2>0. PICK n : /\ InService(t, n)
                 /\ \/ Leave(t, n) \/ WaitUntilFirst(t, n)
                    \/ SleepWhenEmpty(t, n) \/ WaitWhenEmpty(t, n)
                    \/ /\ pc[t] = "timed" /\ until[t] = 0 /\ ~interrupted
                       /\ TakeTask(t)
    BY <1>8, ServiceSteps
  <2>a. /\ pc[t] \notin ClientPcs /\ t \in Actor /\ t # Main
        /\ UNCHANGED m_callbacks_pending
    BY <2>0, <1>C, ActorFacts DEF InService, serviceUnchanged, clientVars
  <2>1. CASE Leave(t, n)
    <3>1. UNCHANGED taskQueue
      BY <2>1, <2>0 DEF Leave, queueVars
    <3> QED BY <2>1, <2>0, <3>1, <2>a, <1>U, ForgottenKept, PcStepsThread
  <2>2. CASE WaitUntilFirst(t, n)
    <3>1. UNCHANGED taskQueue
      BY <2>2, <2>0 DEF WaitUntilFirst, queueVars
    <3> QED BY <2>2, <2>0, <3>1, <2>a, <1>U, ForgottenKept, PcStepsThread
  <2>3. CASE SleepWhenEmpty(t, n)
    <3>1. UNCHANGED taskQueue
      BY <2>3, <2>0 DEF SleepWhenEmpty, queueVars
    <3> QED BY <2>3, <2>0, <3>1, <2>a, <1>U, ForgottenKept, PcStepsThread
  <2>4. CASE WaitWhenEmpty(t, n)
    <3>1. UNCHANGED taskQueue
      BY <2>4, <2>0 DEF WaitWhenEmpty, queueVars
    <3> QED BY <2>4, <2>0, <3>1, <2>a, <1>U, ForgottenKept, PcStepsThread
  <2>5. CASE pc[t] = "timed" /\ until[t] = 0 /\ ~interrupted /\ TakeTask(t)
    <3>1. /\ Moved(t, Head(taskQueue).task, {})
          /\ Head(taskQueue) = taskQueue[1] /\ taskQueue' = Tail(taskQueue)
      BY <2>5, <2>0, <1>Q, TailFacts, PcStepsThread DEF TakeTask
    <3>2. CASE Head(taskQueue).task = "process"
      <4>1. pc'[t] \in ClientPcs
        BY <3>1, <3>2, <1>C DEF Moved
      <4> QED BY <4>1, <2>a, ForgottenClient
    <3>3. CASE Head(taskQueue).task # "process"
      <4>1. HasProcess(taskQueue) => HasProcess(taskQueue')
        BY <2>5, <2>0, <3>1, <3>3, <1>Q, TailFacts DEF HasProcess, TakeTask
      <4> QED BY <3>1, <4>1, <2>a, ForgottenKept
    <3> QED BY <3>2, <3>3
  <2> QED BY <2>0, <2>1, <2>2, <2>3, <2>4, <2>5
<1>9. ASSUME NEW t \in Thread, Interrupted(t)
      PROVE  NeverForgotten'
  <2>1. pc[t] \notin ClientPcs /\ t \in Actor /\ t # Main
    BY <1>9, <1>C, ActorFacts DEF Interrupted
  <2>2. UNCHANGED <<taskQueue, m_callbacks_pending>>
    BY <1>9 DEF Interrupted, queueVars, clientVars
  <2> QED BY <1>9, <2>1, <2>2, <1>U, ForgottenKept, PcStepsThread
<1>10. ASSUME NEW t \in Thread, Repeat(t) \/ SpuriousWakeUp(t) \/ RepeatInterrupted(t)
      PROVE  NeverForgotten'
  <2>1. HasProcess(taskQueue) => HasProcess(taskQueue')
    BY <1>10, <1>S, <1>U, <1>Q DEF Repeat, SpuriousWakeUp, RepeatInterrupted, queueVars
  <2>2. pc[t] \notin ClientPcs /\ t \in Actor /\ t # Main /\ UNCHANGED m_callbacks_pending
    BY <1>10, <1>C, ActorFacts, ThreadSteps DEF clientVars
  <2> QED BY <1>10, <2>1, <2>2, ForgottenKept, ThreadSteps
<1>11. ASSUME NEW p \in Producer, AddToProcessQueue(p)
      PROVE  NeverForgotten'
  <2>1. pc'[p] \in ClientPcs
    BY <1>11, <1>C, PcStepsClient DEF Moved
  <2> QED BY <2>1, <1>C, ForgottenClient
<1>12. ASSUME NEW p \in Producer, SyncReturns(p)
      PROVE  NeverForgotten'
  <2>1. pc[p] \notin ClientPcs /\ p \in Actor /\ p # Main
    BY <1>12, <1>C, ActorFacts DEF SyncReturns
  <2>2. UNCHANGED <<taskQueue, m_callbacks_pending>>
    BY <1>12 DEF SyncReturns, queueVars, clientVars
  <2> QED BY <1>12, <2>1, <2>2, <1>U, ForgottenKept, PcStepsClient
<1>13. ASSUME NEW a \in Actor, ProcessQueue(a)
      PROVE  NeverForgotten'
  <2>1. CASE /\ m_are_callbacks_running \/ m_callbacks_pending = <<>>
             /\ pc' = [pc EXCEPT ![a] = Returned(a)] /\ UNCHANGED clientVars
    <3>1. Moved(a, Returned(a), {})
      BY <2>1, ReturnedFacts, MovedPlain DEF TypeOK
    <3> QED BY <1>13, <2>1, <3>1, <1>C, <1>R DEF ProcessQueue, clientVars
  <2>2. CASE pc' = [pc EXCEPT ![a] = "callback"]
    <3>1. pc'[a] \in ClientPcs
      BY <2>2, <1>C DEF TypeOK
    <3> QED BY <3>1, ForgottenClient
  <2> QED BY <1>13, <2>1, <2>2 DEF ProcessQueue
<1>14. ASSUME NEW a \in Actor, CallbackEnds(a)
      PROVE  NeverForgotten'
  <2>1. pc'[a] \in ClientPcs
    BY <1>14, <1>C, PcStepsClient DEF Moved
  <2> QED BY <2>1, ForgottenClient
<1>15. ASSUME NEW a \in Actor, FinishProcessQueue(a)
      PROVE  NeverForgotten'
  <2>1. pc'[a] \in ClientPcs
    BY <1>15, <1>C, PcStepsClient DEF Moved
  <2> QED BY <2>1, ForgottenClient
<1>16. ASSUME NEW a \in Actor, MaybeScheduleProcessQueue(a)
      PROVE  NeverForgotten'
  <2>0. Moved(a, IF m_are_callbacks_running \/ m_callbacks_pending = <<>>
                  THEN Returned(a) ELSE "schedule", {})
    BY <1>16, PcStepsClient
  <2>1. CASE m_are_callbacks_running \/ m_callbacks_pending = <<>>
    <3>1. pc[a] \notin Running /\ UNCHANGED m_callbacks_pending
      BY <1>16, <1>C DEF MaybeScheduleProcessQueue, clientVars
    <3> QED BY <2>0, <2>1, <3>1, <1>R
  <2>2. CASE ~(m_are_callbacks_running \/ m_callbacks_pending = <<>>)
    <3>1. pc'[a] \in ClientPcs
      BY <2>0, <2>2, <1>C DEF Moved
    <3> QED BY <3>1, ForgottenClient
  <2> QED BY <2>1, <2>2
<1>17. ASSUME NEW a \in Actor, ScheduleProcessQueue(a)
      PROVE  NeverForgotten'
  <2>1. HasProcess(taskQueue')
    BY <1>17, <1>S, <1>Q DEF ScheduleProcessQueue
  <2> QED BY <2>1 DEF NeverForgotten, HasProcess
<1>18. ASSUME NEW a \in Actor, CallbackAdds(a)
      PROVE  NeverForgotten'
  <2>1. pc' = pc /\ pc[a] \in ClientPcs
    BY <1>18, <1>C DEF CallbackAdds
  <2> QED BY <2>1, ForgottenClient
<1>19. CASE UNCHANGED vars
  BY <1>19 DEF vars, queueVars, clientVars, NeverForgotten
<1> QED
  BY <1>1, <1>2, <1>3, <1>4, <1>5, <1>6, <1>7, <1>8, <1>9, <1>10, <1>11,
     <1>12, <1>13, <1>14, <1>15, <1>16, <1>17, <1>18, <1>19
  DEF Next, Service, Client, Ended

-----------------------------------------------------------------------------
(* Draining. *)

(* A step of a service thread that stays. *)
LEMMA DrainingThread ==
    ASSUME Draining, NEW t \in Thread, NEW next, NEW S, Moved(t, next, S),
           next \notin {"new", "gone"},
           UNCHANGED <<interrupted, stopRequested, stopWhenEmpty>>
    PROVE  Draining'
<1>1. Alive(pc') # {}
  BY DEF Moved, Alive
<1>2. \A p \in Producer : pc'[p] = pc[p]
  BY ActorFacts DEF Moved
<1>3. Alive(pc)' = Alive(pc')
  BY DEF Alive
<1> QED BY <1>1, <1>2, <1>3 DEF Draining

(* A step of the main thread at which it does not wait for the others. *)
LEMMA DrainingMain ==
    ASSUME Draining, NEW next, NEW S, Moved(Main, next, S), next # "stopping",
           UNCHANGED <<interrupted, stopRequested, stopWhenEmpty>>
    PROVE  Draining'
<1>1. \A p \in Producer : pc'[p] = pc[p]
  BY ActorFacts DEF Moved
<1>2. pc'[Main] # "stopping"
  BY DEF Moved
<1> QED BY <1>1, <1>2 DEF Draining

(* Draining is inductive. *)
LEMMA DrainingStep ==
    ASSUME TypeOK, Phases, Draining, [Next]_vars
    PROVE  Draining'
<1>Q. QueueTyped /\ ClientTyped
  BY TypeParts
<1>C. ClientPcs = {"process", "callback", "finish", "maybe", "schedule"}
  BY DEF ClientPcs
<1>N. ASSUME ~stopWhenEmpty, UNCHANGED stopWhenEmpty
      PROVE  Draining'
  BY <1>N DEF Draining
<1>1. CASE Tick
  <2>1. taskQueue' # <<>> => taskQueue # <<>>
    BY <1>1, <1>Q, TickFacts DEF QueueTyped
  <2> QED BY <1>1, <2>1 DEF Tick, Draining, Alive, stopVars
<1>2. CASE ScheduleEvery
  BY <1>2, <1>N DEF ScheduleEvery, Phases, stopVars
<1>3. CASE InterruptAll
  BY <1>3, <1>N DEF InterruptAll, Phases
<1>4. ASSUME NEW drain \in BOOLEAN, Stop(drain)
      PROVE  Draining'
  <2>1. Moved(Main, "stopping", Waiting(pc)) /\ Quiet(Producer) /\ pc[Main] \in {"boot", "up"}
    BY <1>4, PcStepsMain DEF Stop
  <2>2. ~interrupted' /\ (stopWhenEmpty' => ~stopRequested')
    BY <1>4, <2>1 DEF Stop, Phases
  <2>3. \A u \in Thread : pc'[u] # "gone"
    BY <2>1, ActorFacts DEF Moved, Phases
  <2>4. \A p \in Producer : pc'[p] = "idle"
    BY <2>1, ActorFacts DEF Moved, Quiet
  <2> QED BY <2>2, <2>3, <2>4 DEF Draining
<1>5. CASE JoinAll
  BY <1>5, DrainingMain, PcStepsMain DEF JoinAll, AppendCallback, stopVars
<1>6. CASE LastSignal
  BY <1>6, DrainingMain, PcStepsMain DEF LastSignal, AppendCallback, stopVars
<1>7. CASE EmptyQueue
  <2>1. PICK next : Moved(Main, next, {}) /\ next \in {"process", "end"}
    BY <1>7, PcStepsMain
  <2> QED BY <1>7, <2>1, DrainingMain DEF EmptyQueue, stopVars
<1>8. ASSUME NEW t \in Thread, StartThread(t) \/ LoopAgain(t) \/ WakeUp(t) \/ Timeout(t)
      PROVE  Draining'
  <2>0. PICK n : /\ InService(t, n)
                 /\ \/ Leave(t, n) \/ WaitUntilFirst(t, n)
                    \/ SleepWhenEmpty(t, n) \/ WaitWhenEmpty(t, n)
                    \/ /\ pc[t] = "timed" /\ until[t] = 0 /\ ~interrupted
                       /\ TakeTask(t)
    BY <1>8, ServiceSteps
  <2>1. CASE Leave(t, n)
    <3>1. UNCHANGED <<taskQueue, interrupted, stopRequested, stopWhenEmpty>> /\ ShouldStop
      BY <2>1, <2>0 DEF Leave, queueVars, InService, serviceUnchanged
    <3>2. \A p \in Producer : pc'[p] = pc[p]
      BY <2>1, <2>0, ActorFacts, PcStepsThread DEF Moved
    <3>3. stopWhenEmpty => taskQueue = <<>>
      BY <3>1 DEF ShouldStop, Draining
    <3> QED BY <3>1, <3>2, <3>3 DEF Draining
  <2>2. CASE WaitUntilFirst(t, n)
    BY <2>2, <2>0, DrainingThread, PcStepsThread DEF InService, serviceUnchanged
  <2>3. CASE SleepWhenEmpty(t, n)
    BY <2>3, <2>0, DrainingThread, PcStepsThread DEF InService, serviceUnchanged
  <2>4. CASE WaitWhenEmpty(t, n)
    BY <2>4, <2>0, DrainingThread, PcStepsThread DEF InService, serviceUnchanged
  <2>5. CASE pc[t] = "timed" /\ until[t] = 0 /\ ~interrupted /\ TakeTask(t)
    BY <2>5, <2>0, DrainingThread, PcStepsThread DEF InService, serviceUnchanged
  <2> QED BY <2>0, <2>1, <2>2, <2>3, <2>4, <2>5
<1>9. ASSUME NEW t \in Thread, Interrupted(t)
      PROVE  Draining'
  BY <1>9, <1>N DEF Interrupted, Draining
<1>10. ASSUME NEW t \in Thread, Repeat(t) \/ SpuriousWakeUp(t) \/ RepeatInterrupted(t)
      PROVE  Draining'
  <2>1. PICK next, S : Moved(t, next, S) /\ next \in {"top", "wake", "throw"}
    BY <1>10, ThreadSteps
  <2>2. UNCHANGED <<interrupted, stopRequested, stopWhenEmpty>>
    BY <1>10, ThreadSteps DEF stopVars
  <2> QED BY <2>1, <2>2, DrainingThread
<1>11. ASSUME NEW p \in Producer, AddToProcessQueue(p)
      PROVE  Draining'
  <2>1. ~stopWhenEmpty
    BY <1>11 DEF AddToProcessQueue, Phases, Draining
  <2>2. UNCHANGED stopWhenEmpty
    BY <1>11 DEF AddToProcessQueue, AppendCallback, stopVars
  <2> QED BY <2>1, <2>2, <1>N
<1>12. ASSUME NEW p \in Producer, SyncReturns(p)
      PROVE  Draining'
  <2>1. ~stopWhenEmpty
    BY <1>12 DEF SyncReturns, Draining
  <2>2. UNCHANGED stopWhenEmpty
    BY <1>12 DEF SyncReturns, stopVars
  <2> QED BY <2>1, <2>2, <1>N
<1>13. ASSUME NEW a \in Actor, Client(a)
      PROVE  Draining'
  <2>1. PICK next, S : Moved(a, next, S) /\ next \in {Returned(a)} \cup ClientPcs
    BY <1>13, ClientSteps
  <2>2. pc[a] \in ClientPcs /\ UNCHANGED <<interrupted, stopRequested, stopWhenEmpty>>
    BY <1>13, ClientSteps
  <2>3. CASE a \in Thread
    BY <2>1, <2>2, <2>3, <1>C, ReturnedFacts, DrainingThread
  <2>4. CASE a \in Producer
    <3>1. ~stopWhenEmpty
      BY <2>2, <2>4, <1>C DEF Draining
    <3> QED BY <2>2, <3>1, <1>N
  <2>5. CASE a = Main
    BY <2>1, <2>2, <2>5, <1>C, ReturnedFacts, DrainingMain
  <2> QED BY <2>3, <2>4, <2>5, ActorFacts
<1>14. ASSUME NEW a \in Actor, CallbackAdds(a)
      PROVE  Draining'
  BY <1>14 DEF CallbackAdds, queueVars, stopVars, Draining, Alive
<1>15. CASE UNCHANGED vars
  BY <1>15 DEF vars, queueVars, stopVars, Draining, Alive
<1> QED
  BY <1>1, <1>2, <1>3, <1>4, <1>5, <1>6, <1>7, <1>8, <1>9, <1>10, <1>11,
     <1>12, <1>13, <1>14, <1>15
  DEF Next, Service, Ended

(* Once the threads have been joined after stop(drain = true), only time   *)
(* and the main thread go on.                                              *)
LEMMA DrainedStep ==
    ASSUME TypeOK, Phases, NeverForgotten, Draining, DrainRunsAll, [Next]_vars
    PROVE  DrainRunsAll'
<1>C. /\ ClientPcs = {"process", "callback", "finish", "maybe", "schedule"} /\ QueueTyped
      /\ Main \in Actor /\ Thread \subseteq Actor /\ Producer \subseteq Actor
  BY ActorFacts, TypeParts DEF ClientPcs
<1> SUFFICES ASSUME stopWhenEmpty', pc'[Main] = "joined", NEW g \in Thread, pc'[g] = "gone"
             PROVE  m_callbacks_pending' = <<>> /\ taskQueue' = <<>>
  BY DEF DrainRunsAll
<1>1. CASE JoinAll
  <2>1. /\ UNCHANGED <<taskQueue, m_callbacks_pending, stopWhenEmpty>>
        /\ pc[Main] = "stopping" /\ \A t \in Thread : pc[t] \in {"new", "gone"}
    BY <1>1 DEF JoinAll, queueVars, stopVars, clientVars
  <2>2. \A t \in Thread : pc'[t] = pc[t]
    BY <1>1, ActorFacts, PcStepsMain DEF Moved
  <2>3. Alive(pc) = {} /\ pc[g] = "gone"
    BY <2>1, <2>2 DEF Alive
  <2>4. taskQueue = <<>> /\ \A p \in Producer : pc[p] = "idle"
    BY <2>1, <2>3 DEF Draining
  <2>5. \A a \in Actor : pc[a] \notin ClientPcs
    BY <2>1, <2>4, <1>C, ActorFacts
  <2>6. m_callbacks_pending = <<>>
    BY <2>1, <2>4, <2>5 DEF NeverForgotten
  <2> QED BY <2>1, <2>4, <2>6
<1>2. CASE ~JoinAll /\ pc[Main] # "joined"
  <2>1. pc'[Main] = pc[Main]
    <3>1. CASE Tick \/ UNCHANGED vars \/ \E a \in Actor : CallbackAdds(a)
      BY <3>1 DEF Tick, vars, CallbackAdds
    <3>2. CASE \E next, S : Moved(Main, next, S) /\ next # "joined"
      BY <3>2 DEF Moved
    <3>3. CASE \E b \in Actor \ {Main} : \E next, S : Moved(b, next, S)
      BY <3>3, <1>C DEF Moved
    <3>4. CASE \/ ScheduleEvery \/ InterruptAll \/ LastSignal \/ EmptyQueue
               \/ \E drain \in BOOLEAN : Stop(drain)
      BY <3>4, <3>2, PcStepsMain
    <3>5. CASE \E t \in Thread : StartThread(t) \/ LoopAgain(t) \/ WakeUp(t) \/ Timeout(t)
      <4>1. PICK t \in Thread : StartThread(t) \/ LoopAgain(t) \/ WakeUp(t) \/ Timeout(t)
        BY <3>5
      <4>2. \E next, S : Moved(t, next, S)
        BY <4>1, ServiceSteps, PcStepsThread
      <4> QED BY <4>2, <3>3, ActorFacts
    <3>6. CASE \E t \in Thread : Interrupted(t) \/ Repeat(t) \/ SpuriousWakeUp(t) \/ RepeatInterrupted(t)
      BY <3>6, <3>3, ActorFacts, PcStepsThread
    <3>7. CASE \E p \in Producer : AddToProcessQueue(p) \/ SyncReturns(p)
      BY <3>7, <3>3, ActorFacts, PcStepsClient
    <3>8. CASE \E a \in Actor : Client(a)
      <4>1. PICK a \in Actor : Client(a)
        BY <3>8
      <4>2. PICK next, S : Moved(a, next, S) /\ next \in {Returned(a)} \cup ClientPcs
        BY <4>1, ClientSteps
      <4>3. a = Main => next # "joined"
        BY <4>2, <1>C, ReturnedFacts
      <4> QED BY <4>2, <4>3, <3>2, <3>3
    <3> QED BY <1>2, <3>1, <3>4, <3>5, <3>6, <3>7, <3>8 DEF Next, Service, Ended
  <2> QED BY <2>1, <1>2
<1>3. CASE pc[Main] = "joined"
  <2>1. /\ \A t \in Thread : pc[t] \in {"new", "gone"}
        /\ pc[Main] \notin {"boot", "up", "stopping"}
    BY <1>3 DEF Phases
  <2>2. Tick \/ UNCHANGED vars
    <3>1. ~InterruptAll /\ ~ScheduleEvery /\ ~JoinAll /\ \A drain \in BOOLEAN : ~Stop(drain)
      BY <2>1 DEF InterruptAll, ScheduleEvery, JoinAll, Stop
    <3>2. ~LastSignal /\ ~EmptyQueue
      BY PcStepsMain DEF Moved
    <3>3. \A t \in Thread : ~(StartThread(t) \/ LoopAgain(t) \/ WakeUp(t) \/ Timeout(t))
      BY <2>1 DEF StartThread, LoopAgain, WakeUp, Timeout
    <3>4. \A t \in Thread : ~(Interrupted(t) \/ Repeat(t) \/ SpuriousWakeUp(t) \/ RepeatInterrupted(t))
      BY <2>1 DEF Interrupted, Repeat, SpuriousWakeUp, Waiting, RepeatInterrupted
    <3>5. stopWhenEmpty => \A p \in Producer : pc[p] = "idle"
      BY DEF Draining
    <3>6. ASSUME NEW p \in Producer, AddToProcessQueue(p) \/ SyncReturns(p) PROVE FALSE
      <4>1. ~AddToProcessQueue(p)
        BY <2>1 DEF AddToProcessQueue
      <4>2. SyncReturns(p) => stopWhenEmpty' = stopWhenEmpty /\ pc[p] = "sync"
        BY DEF SyncReturns, stopVars
      <4> QED BY <3>5, <3>6, <4>1, <4>2
    <3>7. ASSUME NEW a \in Actor, Client(a) \/ CallbackAdds(a) PROVE FALSE
      <4>1. pc[a] \in ClientPcs /\ stopWhenEmpty' = stopWhenEmpty
        BY <3>7, <1>C, ClientSteps DEF CallbackAdds, stopVars
      <4>2. a \in Thread \/ a \in Producer \/ a = Main
        BY ActorFacts
      <4> QED BY <4>1, <4>2, <3>5, <2>1, <1>3, <1>C
    <3> QED BY <3>1, <3>2, <3>3, <3>4, <3>6, <3>7 DEF Next, Service, Ended
  <2>3. UNCHANGED <<pc, stopWhenEmpty, m_callbacks_pending>>
    BY <2>2 DEF Tick, vars, stopVars, clientVars
  <2>4. m_callbacks_pending = <<>> /\ taskQueue = <<>>
    BY <2>3, <1>3 DEF DrainRunsAll
  <2>5. CASE Tick
    BY <2>3, <2>4, <2>5, <1>C, TickFacts DEF QueueTyped
  <2>6. CASE UNCHANGED vars
    BY <2>3, <2>4, <2>6 DEF vars, queueVars
  <2> QED BY <2>2, <2>5, <2>6
<1> QED BY <1>1, <1>2, <1>3

-----------------------------------------------------------------------------
(* Waking up in time. *)

Single(p, t) == p[t] = "timed" /\ \A u \in Thread \ {t} : p[u] \in {"new", "gone"}

(* After a thread has moved, but not to a timed wait, none waits alone; if *)
(* another actor moved and the queue is as it was, nothing is new.         *)
LEMMA TimedMoved ==
    ASSUME TimedRight, NEW a \in Actor, NEW next, NEW S, Moved(a, next, S),
           \/ a \in Thread /\ next \notin {"timed", "new", "gone"}
           \/ a \notin Thread /\ UNCHANGED <<queueVars, interrupted>>
           \/ S # {} /\ S \subseteq Thread \ {a}
    PROVE  TimedRight'
<1> SUFFICES ASSUME NEW t \in Thread, Single(pc', t), ~interrupted', taskQueue' # <<>>
             PROVE  Head(taskQueue').in <= until'[t]
  BY DEF TimedRight, Single
<1>1. \A u \in S : u \in Actor /\ u # a => u \in Thread /\ pc'[u] \in {"wake", "top"}
  BY DEF Moved
<1>2. CASE a \in Thread /\ next \notin {"timed", "new", "gone"}
  BY <1>2 DEF Moved, Single
<1>3. CASE a \notin Thread /\ UNCHANGED <<queueVars, interrupted>>
  <2>1. \A u \in Thread : pc'[u] \in {"timed", "new", "gone"} => pc'[u] = pc[u]
    BY <1>3, ActorFacts DEF Moved
  <2>2. Single(pc, t)
    BY <2>1 DEF Single
  <2> QED BY <2>2, <1>3 DEF TimedRight, Single, queueVars
<1>4. CASE S # {} /\ S \subseteq Thread \ {a}
  BY <1>1, <1>4, ActorFacts DEF Single
<1> QED BY <1>2, <1>3, <1>4

(* A step that notifies a waiting thread leaves none waiting alone. *)
LEMMA TimedNotified ==
    ASSUME TypeOK, TimedRight, NEW a \in Actor, NEW next, next # "timed",
           NEW S \in One([pc EXCEPT ![a] = next]), a \notin S, Moved(a, next, S)
    PROVE  TimedRight'
<1> DEFINE p == [pc EXCEPT ![a] = next]
<1>1. S \subseteq Waiting(p) /\ (Waiting(p) # {} => S # {})
  BY OneFacts
<1>2. CASE S # {}
  <2>1. S \subseteq Thread \ {a}
    BY <1>1 DEF Waiting
  <2> QED BY <1>2, <2>1, TimedMoved
<1>3. CASE S = {}
  <2>1. \A t \in Thread \ {a} : pc[t] # "timed"
    BY <1>1, <1>3, ActorFacts DEF Waiting, TypeOK
  <2>2. \A t \in Thread : pc'[t] # "timed"
    BY <2>1, <1>3, ActorFacts DEF Moved
  <2> QED BY <2>2 DEF TimedRight
<1> QED BY <1>2, <1>3

LEMMA TimedScheduled ==
    ASSUME TypeOK, TimedRight, NEW a \in Actor, NEW next, next \notin {"wait", "timed"},
           pc[a] \notin {"wait", "timed"}, NEW S \in One(pc), Moved(a, next, S)
    PROVE  TimedRight'
<1>1. Waiting([pc EXCEPT ![a] = next]) = Waiting(pc)
  BY ActorFacts DEF Waiting, TypeOK
<1>2. S \in One([pc EXCEPT ![a] = next])
  BY <1>1 DEF One
<1>3. a \notin S
  BY OneFacts DEF Waiting
<1> QED BY <1>2, <1>3, TimedNotified

(* TimedRight is inductive. *)
LEMMA TimedStep ==
    ASSUME TypeOK, TimedRight, [Next]_vars
    PROVE  TimedRight'
<1>C. ClientPcs = {"process", "callback", "finish", "maybe", "schedule"}
  BY DEF ClientPcs
<1>Q. QueueTyped /\ Thread \subseteq Actor /\ Producer \subseteq Actor /\ Main \in Actor /\ Main \notin Thread
      /\ \A p \in Producer : p \notin Thread
  BY TypeParts, ActorFacts
<1>1. CASE Tick
  <2> SUFFICES ASSUME NEW t \in Thread, Single(pc', t), ~interrupted', taskQueue' # <<>>
               PROVE  Head(taskQueue').in <= until'[t]
    BY DEF TimedRight, Single
  <2>1. UNCHANGED <<pc, interrupted>>
    BY <1>1 DEF Tick, stopVars
  <2>2. /\ QueueTyped' /\ Len(taskQueue') = Len(taskQueue) /\ until'[t] = Less(until[t])
        /\ \A i \in DOMAIN taskQueue : taskQueue'[i].in = Less(taskQueue[i].in)
    BY <1>1, <1>Q, TickFacts
  <2>3. taskQueue # <<>> /\ 1 \in DOMAIN taskQueue /\ Head(taskQueue) = taskQueue[1]
        /\ Head(taskQueue') = taskQueue'[1]
    BY <2>2, <1>Q DEF QueueTyped
  <2>4. Head(taskQueue).in <= until[t]
    BY <2>1, <2>3 DEF TimedRight, Single
  <2>5. Head(taskQueue).in \in Nat /\ until[t] \in Nat
    BY <2>3, <1>Q, TailFacts, TaskFields, SchedulerAssumption DEF QueueTyped
  <2>6. Less(Head(taskQueue).in) <= Less(until[t])
    BY <2>4, <2>5 DEF Less
  <2> QED BY <2>2, <2>3, <2>6
<1>2. CASE ScheduleEvery
  BY <1>2, <1>Q, TimedScheduled, PcStepsMain DEF ScheduleEvery
<1>3. CASE InterruptAll
  BY <1>3 DEF InterruptAll, TimedRight
<1>4. ASSUME NEW drain \in BOOLEAN, Stop(drain)
      PROVE  TimedRight'
  <2>1. Moved(Main, "stopping", Waiting(pc))
    BY <1>4, PcStepsMain
  <2>2. \A t \in Thread : pc'[t] # "timed"
    BY <2>1, ActorFacts DEF Moved, Waiting
  <2> QED BY <2>2 DEF TimedRight
<1>5. CASE JoinAll
  BY <1>5, <1>Q, TimedMoved, PcStepsMain DEF JoinAll, AppendCallback, stopVars
<1>6. CASE LastSignal
  BY <1>6, <1>Q, TimedMoved, PcStepsMain DEF LastSignal, AppendCallback, stopVars
<1>7. CASE EmptyQueue
  BY <1>7, <1>Q, TimedMoved, PcStepsMain DEF EmptyQueue, AppendCallback, stopVars
<1>8. ASSUME NEW t \in Thread, StartThread(t) \/ LoopAgain(t) \/ WakeUp(t) \/ Timeout(t)
      PROVE  TimedRight'
  <2>0. PICK n : /\ InService(t, n)
                 /\ \/ Leave(t, n) \/ WaitUntilFirst(t, n)
                    \/ SleepWhenEmpty(t, n) \/ WaitWhenEmpty(t, n)
                    \/ /\ pc[t] = "timed" /\ until[t] = 0 /\ ~interrupted
                       /\ TakeTask(t)
    BY <1>8, ServiceSteps
  <2>1. CASE Leave(t, n)
    BY <2>1, <2>0, <1>Q, LeaveFacts, TimedNotified
  <2>2. CASE WaitUntilFirst(t, n)
    <3> SUFFICES ASSUME NEW u \in Thread, Single(pc', u), taskQueue' # <<>>
                 PROVE  Head(taskQueue').in <= until'[u]
      BY DEF TimedRight, Single
    <3>1. Moved(t, "timed", {}) /\ taskQueue' = taskQueue /\ until' = [until EXCEPT ![t] = Head(taskQueue).in]
      BY <2>2, <2>0, PcStepsThread DEF WaitUntilFirst
    <3>2. u = t
      BY <3>1 DEF Single, Moved
    <3>3. until'[u] = Head(taskQueue).in /\ Head(taskQueue).in \in Nat
      BY <3>1, <3>2, <1>Q, TailFacts, TaskFields DEF QueueTyped
    <3> QED BY <3>1, <3>3
  <2>3. CASE SleepWhenEmpty(t, n)
    BY <2>3, <2>0, <1>Q, TimedMoved, PcStepsThread
  <2>4. CASE WaitWhenEmpty(t, n)
    BY <2>4, <2>0, <1>Q, TimedMoved, PcStepsThread
  <2>5. CASE pc[t] = "timed" /\ until[t] = 0 /\ ~interrupted /\ TakeTask(t)
    BY <2>5, <2>0, <1>Q, TimedMoved, PcStepsThread
  <2> QED BY <2>0, <2>1, <2>2, <2>3, <2>4, <2>5
<1>9. ASSUME NEW t \in Thread, Interrupted(t)
      PROVE  TimedRight'
  BY <1>9 DEF Interrupted, TimedRight
<1>10. ASSUME NEW t \in Thread, Repeat(t) \/ SpuriousWakeUp(t) \/ RepeatInterrupted(t)
      PROVE  TimedRight'
  <2>1. PICK next, S : Moved(t, next, S) /\ next \in {"top", "wake", "throw"}
    BY <1>10, ThreadSteps
  <2> QED BY <2>1, <1>Q, TimedMoved
<1>11. ASSUME NEW p \in Producer, AddToProcessQueue(p)
      PROVE  TimedRight'
  BY <1>11, <1>Q, TimedMoved, PcStepsClient DEF AddToProcessQueue, AppendCallback, stopVars
<1>12. ASSUME NEW p \in Producer, SyncReturns(p)
      PROVE  TimedRight'
  BY <1>12, <1>Q, TimedMoved, PcStepsClient DEF SyncReturns, AppendCallback, stopVars
<1>13. ASSUME NEW a \in Actor, Client(a)
      PROVE  TimedRight'
  <2>1. PICK next, S : Moved(a, next, S) /\ next \in {Returned(a)} \cup ClientPcs
    BY <1>13, ClientSteps
  <2>2. CASE a \in Thread
    <3>1. next \notin {"timed", "new", "gone"}
      BY <2>1, <2>2, <1>C, ReturnedFacts
    <3> QED BY <2>1, <2>2, <3>1, TimedMoved
  <2>3. CASE a \notin Thread /\ ScheduleProcessQueue(a)
    <3>1. pc[a] = "schedule" /\ Returned(a) \notin {"wait", "timed"}
      BY <2>3, ReturnedFacts DEF ScheduleProcessQueue
    <3> QED BY <2>3, <3>1, TimedScheduled, PcStepsClient
  <2>4. CASE a \notin Thread /\ ~ScheduleProcessQueue(a)
    <3>1. UNCHANGED <<queueVars, interrupted>>
      BY <1>13, <2>4 DEF Client, ProcessQueue, CallbackEnds, FinishProcessQueue,
         MaybeScheduleProcessQueue, stopVars
    <3> QED BY <2>1, <2>4, <3>1, TimedMoved
  <2> QED BY <2>2, <2>3, <2>4
<1>14. ASSUME NEW a \in Actor, CallbackAdds(a)
      PROVE  TimedRight'
  BY <1>14 DEF CallbackAdds, queueVars, stopVars, TimedRight
<1>15. CASE UNCHANGED vars
  BY <1>15 DEF vars, queueVars, stopVars, TimedRight
<1> QED
  BY <1>1, <1>2, <1>3, <1>4, <1>5, <1>6, <1>7, <1>8, <1>9, <1>10, <1>11,
     <1>12, <1>13, <1>14, <1>15
  DEF Next, Service, Ended

-----------------------------------------------------------------------------
(* The theorems. *)

LEMMA CountedThreads ==
    ASSUME Counted, Phases, pc \in [Actor -> Pcs]
    PROVE  ThreadsCounted
<1>1. nThreadsServicingQueue = Cardinality({t \in Thread : pc[t] \notin {"new", "gone"}})
  BY DEF Counted, Alive
<1>2. ASSUME pc[Main] \in {"joined", "empty", "end"} \cup ClientPcs
      PROVE  nThreadsServicingQueue = 0
  <2>1. {t \in Thread : pc[t] \notin {"new", "gone"}} = {}
    BY <1>2 DEF Phases
  <2> QED BY <2>1, <1>1, FS_EmptySet
<1> QED BY <1>1, <1>2 DEF ThreadsCounted

LEMMA InitInv == ASSUME Init PROVE Inv
<1>0. Main \notin Thread /\ Main \notin Producer /\ Main \in Actor /\ 0 \in 0..Delta
      /\ 0 \in 0..MaxCallbacks
  BY ActorFacts, SchedulerAssumption
<1>1. \A a \in Actor : pc[a] = CASE a \in Thread -> "new" [] a \in Producer -> "idle" [] OTHER -> "boot"
  BY DEF Init
<1>2. /\ \A t \in Thread : pc[t] = "new"
      /\ \A p \in Producer : pc[p] = "idle"
      /\ pc[Main] = "boot" /\ pc \in [Actor -> Pcs]
  <2>1. \A t \in Thread : pc[t] = "new"
    BY <1>1, ActorFacts
  <2>2. \A p \in Producer : pc[p] = "idle"
    BY <1>1, ActorFacts
  <2>3. pc[Main] = "boot"
    BY <1>1, <1>0
  <2>4. {"new", "idle", "boot"} \subseteq Pcs
    BY DEF Pcs, ThreadPcs, MainPcs
  <2>5. \A a \in Actor : pc[a] \in Pcs
    BY <2>1, <2>2, <2>3, <2>4, ActorFacts
  <2>6. pc \in [Actor -> Pcs]
    BY <2>5 DEF Init
  <2> QED BY <2>1, <2>2, <2>3, <2>6
<1>3. \A a \in Actor : pc[a] \in {"new", "idle", "boot"}
  BY <1>2, ActorFacts
<1>4. PcTyped
  BY <1>2 DEF PcTyped, ThreadPcs, MainPcs
<1>5. QueueTyped
  BY <1>0 DEF Init, QueueTyped, Sorted
<1>6. ClientTyped /\ ClientPc
  <2>1. callback \in [Actor -> 0..MaxCallbacks] /\ awaited \in [Producer -> 0..MaxCallbacks]
    BY <1>0 DEF Init
  <2>2. \A a \in Actor : callback[a] = 0 /\ pc[a] # "callback"
    BY <1>3 DEF Init
  <2>3. ClientPc
    BY <2>2, <1>2 DEF ClientPc
  <2>4. added \in 0..MaxCallbacks
    BY <1>0 DEF Init
  <2>5. m_callbacks_pending \in Seq(Callback) /\ done \in Seq(Callback) /\ thrown \subseteq Thread
    BY DEF Init
  <2>6. /\ stopRequested \in BOOLEAN /\ stopWhenEmpty \in BOOLEAN
        /\ interrupted \in BOOLEAN /\ m_are_callbacks_running \in BOOLEAN
    BY Zenon DEF Init
  <2>7. ClientTyped
    BY <2>1, <2>4, <2>5, <2>6, Zenon DEF ClientTyped
  <2> QED BY <2>3, <2>7
<1>7. Alive(pc) = {} /\ nThreadsServicingQueue = 0
  BY <1>2 DEF Alive, Init
<1>8. Counted
  BY <1>7, FS_EmptySet DEF Counted
<1>9. TypeOK
  BY <1>4, <1>5, <1>6, <1>7, TypeParts
<1>10. Phases
  BY <1>2 DEF Phases, Init, ClientPcs
<1>11. OneRuns
  BY <1>3 DEF OneRuns, Running, Init
<1>12. NeverForgotten /\ Draining /\ DrainRunsAll /\ TimedRight
  BY DEF Init, NeverForgotten, Draining, DrainRunsAll, TimedRight
<1>13. ThreadsCounted
  BY <1>2, <1>8, <1>10, CountedThreads
<1> QED BY <1>9, <1>10, <1>11, <1>12, <1>13 DEF Inv

LEMMA InvStep == ASSUME Inv, [Next]_vars PROVE Inv'
<1>1. Counted
  BY DEF Inv, ThreadsCounted, Counted, Alive
<1>2. TypeOK' /\ Counted'
  BY <1>1, TypeOKStep DEF Inv
<1>3. OneRuns' /\ Phases' /\ NeverForgotten' /\ Draining' /\ DrainRunsAll' /\ TimedRight'
  BY OneRunsStep, PhasesStep, ForgottenStep, DrainingStep, DrainedStep, TimedStep DEF Inv
<1>4. ThreadsCounted'
  <2>1. nThreadsServicingQueue' = Cardinality({t \in Thread : pc'[t] \notin {"new", "gone"}})
    BY <1>2 DEF Counted, Alive
  <2>2. ASSUME pc'[Main] \in {"joined", "empty", "end"} \cup ClientPcs
        PROVE  nThreadsServicingQueue' = 0
    <3>1. {t \in Thread : pc'[t] \notin {"new", "gone"}} = {}
      BY <1>3, <2>2 DEF Phases
    <3> QED BY <3>1, <2>1, FS_EmptySet
  <2> QED BY <2>1, <2>2 DEF ThreadsCounted
<1> QED BY <1>2, <1>3, <1>4 DEF Inv

(* The inductive invariant holds throughout. *)
THEOREM InvHolds == Spec => []Inv
<1>1. Init => Inv
  BY InitInv
<1>2. Inv /\ [Next]_vars => Inv'
  BY InvStep
<1> QED BY <1>1, <1>2, PTL DEF Spec

(* The tasks stay in the order of their times, whoever schedules them, and *)
(* an actor has a callback exactly while it runs one.                      *)
THEOREM TypeCorrect == Spec => []TypeOK
<1>1. Inv => TypeOK
  BY DEF Inv
<1> QED BY <1>1, InvHolds, PTL

(* A waiting callback always has a ProcessQueue task, or a thread on its   *)
(* way to schedule or to run it, in spite of the unlocked step between     *)
(* MaybeScheduleProcessQueue's check and its call of schedule.             *)
THEOREM NothingForgotten == Spec => []NeverForgotten
<1>1. Inv => NeverForgotten
  BY DEF Inv
<1> QED BY <1>1, InvHolds, PTL

(* nThreadsServicingQueue is exact, and 0 once the threads are joined: the *)
(* assertions of ~CScheduler and EmptyQueue cannot fail.                   *)
THEOREM CounterCorrect == Spec => []ThreadsCounted
<1>1. Inv => ThreadsCounted
  BY DEF Inv
<1> QED BY <1>1, InvHolds, PTL

(* stop(drain = true) leaves neither a task nor a callback behind. *)
THEOREM DrainCorrect == Spec => []DrainRunsAll
<1>1. Inv => DrainRunsAll
  BY DEF Inv
<1> QED BY <1>1, InvHolds, PTL

(* Only TakeTask shortens the queue. *)
LEMMA QueueShrinks ==
    ASSUME Inv, [Next]_vars, Len(taskQueue') < Len(taskQueue)
    PROVE  \E t \in Thread : pc[t] = "timed" /\ until[t] = 0 /\ ~interrupted /\ TakeTask(t)
<1>0. QueueTyped /\ Len(taskQueue) \in Nat /\ Delta \in 0..Delta /\ 0 \in 0..Delta
  BY TypeParts, SchedulerAssumption DEF Inv, QueueTyped
<1>1. UNCHANGED queueVars => FALSE
  BY <1>0 DEF queueVars
<1>2. ASSUME NEW a, NEW f \in {"process", "repeat"}, NEW d \in 0..Delta, NEW next,
             Schedule(a, f, d, next)
      PROVE  FALSE
  <2>1. Len(taskQueue') = Len(taskQueue) + 1
    BY <1>2, <1>0, ScheduleQueue
  <2> QED BY <2>1, <1>0
<1>3. ~Tick
  BY <1>0, TickFacts
<1>4. ~ScheduleEvery /\ (\A t \in Thread : ~Repeat(t)) /\ (\A a \in Actor : ~ScheduleProcessQueue(a))
  BY <1>0, <1>2 DEF ScheduleEvery, Repeat, ScheduleProcessQueue
<1>5. ~InterruptAll /\ ~JoinAll /\ ~LastSignal /\ ~EmptyQueue /\ (\A drain \in BOOLEAN : ~Stop(drain))
      /\ ~(UNCHANGED vars)
  BY <1>1 DEF InterruptAll, JoinAll, LastSignal, AppendCallback, EmptyQueue, Stop, vars
<1>6. \A t \in Thread : ~Interrupted(t) /\ ~SpuriousWakeUp(t) /\ ~RepeatInterrupted(t)
  BY <1>1 DEF Interrupted, SpuriousWakeUp, RepeatInterrupted
<1>7. \A p \in Producer : ~AddToProcessQueue(p) /\ ~SyncReturns(p)
  BY <1>1 DEF AddToProcessQueue, AppendCallback, SyncReturns
<1>8. \A a \in Actor : ~Client(a) /\ ~CallbackAdds(a)
  BY <1>1, <1>4 DEF Client, ProcessQueue, CallbackEnds, FinishProcessQueue,
     MaybeScheduleProcessQueue, CallbackAdds
<1>9. PICK t \in Thread : StartThread(t) \/ LoopAgain(t) \/ WakeUp(t) \/ Timeout(t)
  BY <1>3, <1>4, <1>5, <1>6, <1>7, <1>8 DEF Next, Service, Ended
<1>10. \A n : ~Leave(t, n) /\ ~WaitUntilFirst(t, n) /\ ~SleepWhenEmpty(t, n) /\ ~WaitWhenEmpty(t, n)
  BY <1>0, <1>1 DEF Leave, WaitUntilFirst, SleepWhenEmpty, WaitWhenEmpty
<1> QED BY <1>9, <1>10, ServiceSteps

(* With one service thread a task never starts before its time: whoever    *)
(* schedules an earlier one wakes the thread that waits for a later one.   *)
THEOREM TasksOnTime == Spec => OnTime
<1>1. Inv /\ [Next]_vars =>
          (nThreadsServicingQueue = 1 /\ Len(taskQueue') < Len(taskQueue) => Head(taskQueue).in = 0)
  <2> SUFFICES ASSUME Inv, [Next]_vars, nThreadsServicingQueue = 1,
                      Len(taskQueue') < Len(taskQueue)
               PROVE  Head(taskQueue).in = 0
    OBVIOUS
  <2>1. PICK t \in Thread : pc[t] = "timed" /\ until[t] = 0 /\ ~interrupted /\ TakeTask(t)
    BY QueueShrinks
  <2>2. Cardinality(Alive(pc)) = 1 /\ IsFiniteSet(Alive(pc))
    <3>1. Alive(pc) \in SUBSET Thread
      BY DEF Alive
    <3> QED BY <3>1, SchedulerAssumption, FS_Subset DEF Inv, ThreadsCounted, Alive
  <2>3. PICK x : Alive(pc) = {x}
    BY <2>2, FS_Singleton
  <2>4. \A u \in Thread \ {t} : pc[u] \in {"new", "gone"}
    BY <2>1, <2>3 DEF Alive
  <2>5. taskQueue # <<>>
    BY <2>1 DEF TakeTask
  <2>6. Head(taskQueue).in <= 0
    BY <2>1, <2>4, <2>5 DEF Inv, TimedRight
  <2>7. Head(taskQueue).in \in Nat
    BY <2>5, TypeParts, TailFacts, TaskFields DEF Inv
  <2> QED BY <2>6, <2>7
<1> QED BY <1>1, InvHolds, PTL DEF OnTime, Spec

-----------------------------------------------------------------------------
(* The refinement. *)

Current == {callback[a] : a \in Actor} \ {0}

(* The actor that runs a callback is the only one. *)
LEMMA CurrentFacts ==
    ASSUME Inv
    PROVE  /\ ~m_are_callbacks_running => Current = {}
           /\ \A a \in Actor : pc[a] = "callback" =>
                  Current = {callback[a]} /\ callback[a] \in Callback
<1>1. \A a \in Actor : callback[a] # 0 <=> pc[a] = "callback"
  BY DEF Inv, TypeOK
<1>2. ~m_are_callbacks_running => \A a \in Actor : callback[a] = 0
  BY <1>1 DEF Inv, OneRuns, Running
<1>3. ASSUME NEW a \in Actor, pc[a] = "callback"
      PROVE  Current = {callback[a]} /\ callback[a] \in Callback
  <2>1. \A b \in Actor : b # a => callback[b] = 0
    BY <1>1, <1>3 DEF Inv, OneRuns, Running
  <2>2. callback[a] # 0 /\ callback[a] \in 0..MaxCallbacks
    BY <1>1, <1>3 DEF Inv, TypeOK
  <2>3. callback[a] \in Callback
    BY <2>2, SchedulerAssumption DEF Callback
  <2> QED BY <2>1, <2>2, <2>3 DEF Current
<1> QED BY <1>2, <1>3 DEF Current

(* Every step is a step of CallbackQueue or changes nothing it sees. *)
LEMMA RefinementStep ==
    ASSUME Inv, [Next]_vars
    PROVE  [CQ!Next]_(CQ!vars)
<1>0. CQ!Next \/ UNCHANGED <<m_callbacks_pending, Current, done>> => [CQ!Next]_(CQ!vars)
  BY DEF CQ!vars, Current
<1>T. TypeOK /\ ClientTyped
  BY TypeParts DEF Inv
<1>U. UNCHANGED clientVars => [CQ!Next]_(CQ!vars)
  BY DEF clientVars, CQ!vars
<1>A. ASSUME added < MaxCallbacks, m_callbacks_pending' = Append(m_callbacks_pending, added + 1),
             UNCHANGED <<callback, done>>
      PROVE  [CQ!Next]_(CQ!vars)
  <2>1. added + 1 \in Callback
    BY <1>A, <1>T, SchedulerAssumption DEF ClientTyped, Callback
  <2>2. CQ!Add(added + 1)
    BY <1>A DEF CQ!Add
  <2> QED BY <2>1, <2>2 DEF CQ!Next
<1>1. CASE Tick
  BY <1>1, <1>U DEF Tick
<1>2. CASE ScheduleEvery
  BY <1>2, <1>U DEF ScheduleEvery
<1>3. CASE InterruptAll
  BY <1>3, <1>U DEF InterruptAll
<1>4. ASSUME NEW drain \in BOOLEAN, Stop(drain)
      PROVE  [CQ!Next]_(CQ!vars)
  BY <1>4, <1>U DEF Stop
<1>5. CASE JoinAll
  BY <1>5, <1>U DEF JoinAll
<1>6. CASE LastSignal
  BY <1>6, <1>A DEF LastSignal, AppendCallback
<1>7. CASE EmptyQueue
  BY <1>7, <1>U DEF EmptyQueue
<1>8. ASSUME NEW t \in Thread, StartThread(t) \/ LoopAgain(t) \/ WakeUp(t) \/ Timeout(t)
      PROVE  [CQ!Next]_(CQ!vars)
  <2>0. PICK n : /\ InService(t, n)
                 /\ \/ Leave(t, n) \/ WaitUntilFirst(t, n)
                    \/ SleepWhenEmpty(t, n) \/ WaitWhenEmpty(t, n)
                    \/ /\ pc[t] = "timed" /\ until[t] = 0 /\ ~interrupted
                       /\ TakeTask(t)
    BY <1>8, ServiceSteps
  <2>1. CASE Leave(t, n)
    BY <2>1, <2>0, <1>U DEF InService, serviceUnchanged
  <2>2. CASE WaitUntilFirst(t, n)
    BY <2>2, <2>0, <1>U DEF InService, serviceUnchanged
  <2>3. CASE SleepWhenEmpty(t, n)
    BY <2>3, <2>0, <1>U DEF InService, serviceUnchanged
  <2>4. CASE WaitWhenEmpty(t, n)
    BY <2>4, <2>0, <1>U DEF InService, serviceUnchanged
  <2>5. CASE pc[t] = "timed" /\ until[t] = 0 /\ ~interrupted /\ TakeTask(t)
    BY <2>5, <2>0, <1>U DEF InService, serviceUnchanged
  <2> QED BY <2>0, <2>1, <2>2, <2>3, <2>4, <2>5
<1>9. ASSUME NEW t \in Thread, Interrupted(t)
      PROVE  [CQ!Next]_(CQ!vars)
  BY <1>9, <1>U DEF Interrupted
<1>10. ASSUME NEW t \in Thread, Repeat(t) \/ SpuriousWakeUp(t) \/ RepeatInterrupted(t)
      PROVE  [CQ!Next]_(CQ!vars)
  BY <1>10, <1>U, <1>T, ThreadSteps
<1>11. ASSUME NEW p \in Producer, AddToProcessQueue(p)
      PROVE  [CQ!Next]_(CQ!vars)
  BY <1>11, <1>A DEF AddToProcessQueue, AppendCallback
<1>12. ASSUME NEW p \in Producer, SyncReturns(p)
      PROVE  [CQ!Next]_(CQ!vars)
  BY <1>12, <1>U DEF SyncReturns
<1>13. ASSUME NEW a \in Actor, ProcessQueue(a)
      PROVE  [CQ!Next]_(CQ!vars)
  <2>1. CASE UNCHANGED clientVars
    BY <2>1, <1>U
  <2>2. CASE /\ ~m_are_callbacks_running /\ m_callbacks_pending # <<>>
             /\ callback' = [callback EXCEPT ![a] = Head(m_callbacks_pending)]
             /\ m_callbacks_pending' = Tail(m_callbacks_pending) /\ UNCHANGED done
    <3>1. Current = {} /\ \A b \in Actor : callback[b] = 0
      BY <2>2, CurrentFacts DEF Current
    <3>2. Head(m_callbacks_pending) \in Callback
      BY <2>2, <1>T DEF ClientTyped
    <3>3. Head(m_callbacks_pending) # 0
      BY <3>2, SchedulerAssumption DEF Callback
    <3>4. Current' = {Head(m_callbacks_pending)}
      BY <2>2, <3>1, <3>3, <1>T DEF Current, ClientTyped
    <3>5. CQ!Start
      BY <2>2, <3>1, <3>4 DEF CQ!Start, Current
    <3> QED BY <3>5 DEF CQ!Next
  <2> QED BY <1>13, <2>1, <2>2 DEF ProcessQueue
<1>14. ASSUME NEW a \in Actor, CallbackEnds(a)
      PROVE  [CQ!Next]_(CQ!vars)
  <2>1. Current = {callback[a]} /\ callback[a] \in Callback /\ pc[a] = "callback"
    BY <1>14, CurrentFacts DEF CallbackEnds
  <2>2. callback' = [callback EXCEPT ![a] = 0] /\ done' = Append(done, callback[a])
        /\ UNCHANGED m_callbacks_pending
    BY <1>14 DEF CallbackEnds
  <2>3. \A b \in Actor : b # a => callback[b] = 0
    BY <2>1, <1>T DEF TypeOK, Inv, OneRuns, Running
  <2>4. Current' = {}
    BY <2>2, <2>3, <1>T DEF Current, ClientTyped
  <2>c. PICK c \in Callback : c = callback[a]
    BY <2>1
  <2>5. CQ!Finish(c)
    BY <2>1, <2>2, <2>4, <2>c DEF CQ!Finish, Current
  <2>6. \E d \in Callback : CQ!Add(d) \/ CQ!Finish(d)
    BY <2>5, Zenon
  <2>7. CQ!Next
    BY <2>6, Zenon DEF CQ!Next
  <2> QED BY <2>7, Zenon
<1>15. ASSUME NEW a \in Actor, FinishProcessQueue(a)
      PROVE  [CQ!Next]_(CQ!vars)
  BY <1>15 DEF FinishProcessQueue, CQ!vars
<1>16. ASSUME NEW a \in Actor, MaybeScheduleProcessQueue(a)
      PROVE  [CQ!Next]_(CQ!vars)
  BY <1>16, <1>U DEF MaybeScheduleProcessQueue
<1>17. ASSUME NEW a \in Actor, ScheduleProcessQueue(a)
      PROVE  [CQ!Next]_(CQ!vars)
  BY <1>17, <1>U DEF ScheduleProcessQueue
<1>18. ASSUME NEW a \in Actor, CallbackAdds(a)
      PROVE  [CQ!Next]_(CQ!vars)
  BY <1>18, <1>A DEF CallbackAdds
<1>19. CASE UNCHANGED vars
  BY <1>19, <1>U DEF vars
<1> QED
  BY <1>1, <1>2, <1>3, <1>4, <1>5, <1>6, <1>7, <1>8, <1>9, <1>10, <1>11,
     <1>12, <1>13, <1>14, <1>15, <1>16, <1>17, <1>18, <1>19
  DEF Next, Service, Client, Ended

(* The callbacks are run one at a time, each once and in order: the client *)
(* implements CallbackQueue, with any number of service threads.           *)
THEOREM SchedulerImplementsQueue == Spec => ImplementsCallbackQueue
<1>1. Init => Inv /\ CQ!Init
  <2>1. ASSUME Init PROVE CQ!Init
    <3>1. \A a \in Actor : callback[a] = 0
      BY <2>1 DEF Init
    <3> QED BY <2>1, <3>1 DEF Init, CQ!Init
  <2> QED BY <2>1, InitInv
<1>2. Inv /\ [Next]_vars => Inv' /\ [CQ!Next]_(CQ!vars)
  BY InvStep, RefinementStep
<1> QED BY <1>1, <1>2, PTL DEF Spec, ImplementsCallbackQueue, CQ!Spec
=============================================================================
