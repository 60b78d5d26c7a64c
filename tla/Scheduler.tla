------------------------------ MODULE Scheduler ------------------------------
(***************************************************************************)
(* CScheduler with its service threads, SingleThreadedSchedulerClient (the *)
(* queue of the validation interface's callbacks), the threads that add    *)
(* callbacks or wait for the queue to drain, and Shutdown's handling of    *)
(* them.                                                                   *)
(*                                                                         *)
(* A step is a critical section of newTaskMutex or m_cs_callbacks_pending, *)
(* up to where the thread unlocks it, or the end of a task or callback,    *)
(* which run without these locks.  A notification belongs to the critical  *)
(* section before it.  Waits may end without one.                          *)
(*                                                                         *)
(* Times are relative to the clock: .in of a task says how far away it is, *)
(* 0 once its time has come.  taskQueue is ordered by time and, being a    *)
(* multimap, keeps equal times in the order of insertion; what is already  *)
(* due stays before what is scheduled for now.                             *)
(*                                                                         *)
(* Abstracted: a callback is the number of its AddToProcessQueue call; all *)
(* signals of the validation interface add callbacks in the same way.  The *)
(* client is the only source of tasks besides one periodic task.           *)
(***************************************************************************)
EXTENDS Naturals, Sequences, FiniteSets

CONSTANTS
    Thread,        \* the threads that may call serviceQueue
    Producer,      \* the threads that call AddToProcessQueue
    InGroup,       \* the producers of init.cpp's threadGroup (ThreadImport)
    MaySync,       \* the producers that call SyncWithValidationInterfaceQueue
    Main,          \* the thread that starts and shuts down the node
    Delta,         \* the period of the periodic task
    MaxCallbacks   \* bound: callbacks added

ASSUME SchedulerAssumption ==
    /\ IsFiniteSet(Thread) /\ Thread \cap Producer = {}
    /\ Main \notin Thread \cup Producer
    /\ InGroup \subseteq Producer /\ MaySync \subseteq Producer
    /\ Delta \in Nat \ {0} /\ MaxCallbacks \in Nat

Actor == Thread \cup Producer \cup {Main}
Callback == 1..MaxCallbacks

VARIABLES
    taskQueue,               \* [task, in] in the order of their times
    nThreadsServicingQueue,
    stopRequested, stopWhenEmpty,
    until,                   \* of a thread: the time its wait_until ends
    interrupted,             \* threadGroup.interrupt_all has been called
    thrown,                  \* the threads unwound by an interruption
    m_callbacks_pending, m_are_callbacks_running,
    pc,                      \* where an actor is, see PcValues
    callback,                \* the callback an actor runs, or 0
    awaited,                 \* the callback a producer waits for, or 0
    added,                   \* the number of callbacks added
    done                     \* history: the callbacks run, in order

queueVars == <<taskQueue, until>>
stopVars == <<nThreadsServicingQueue, stopRequested, stopWhenEmpty, interrupted>>
clientVars == <<m_callbacks_pending, m_are_callbacks_running, callback, done>>
addVars == <<awaited, added>>
vars == <<queueVars, stopVars, thrown, clientVars, addVars, pc>>

Init ==
    /\ taskQueue = <<>> /\ until = [t \in Thread |-> 0]
    /\ nThreadsServicingQueue = 0
    /\ stopRequested = FALSE /\ stopWhenEmpty = FALSE
    /\ interrupted = FALSE /\ thrown = {}
    /\ m_callbacks_pending = <<>> /\ m_are_callbacks_running = FALSE
    /\ pc = [a \in Actor |-> CASE a \in Thread -> "new"
                               [] a \in Producer -> "idle"
                               [] OTHER -> "boot"]
    /\ callback = [a \in Actor |-> 0] /\ awaited = [p \in Producer |-> 0]
    /\ added = 0 /\ done = <<>>

-----------------------------------------------------------------------------
(* taskQueue and newTaskScheduled. *)

(* Mutant: the new task goes to the end, whatever its time. *)
InsertedLast(f, d) == Append(taskQueue, [task |-> f, in |-> d])

(* taskQueue with f inserted, d from now. *)
Inserted(f, d) ==
    LET before == Cardinality({i \in DOMAIN taskQueue : taskQueue[i].in <= d})
    IN  SubSeq(taskQueue, 1, before) \o <<[task |-> f, in |-> d]>>
            \o SubSeq(taskQueue, before + 1, Len(taskQueue))

Waiting(p) == {t \in Thread : p[t] \in {"wait", "timed"}}

(* A thread that is notified goes back to the loop it waits in. *)
Notified(p, S) ==
    [a \in Actor |-> IF a \notin S THEN p[a]
                     ELSE IF p[a] = "wait" THEN "wake" ELSE "top"]

(* The sets of threads that notify_one may wake. *)
One(p) == IF Waiting(p) = {} THEN {{}} ELSE {{t} : t \in Waiting(p)}

(* Mutant: a new task is not announced. *)
ScheduleQuiet(a, f, d, next) ==
    /\ taskQueue' = Inserted(f, d)
    /\ pc' = [pc EXCEPT ![a] = next]
    /\ UNCHANGED until

(* schedule(f, now + d), called by a, who goes on at next. *)
Schedule(a, f, d, next) ==
    /\ taskQueue' = Inserted(f, d)
    /\ \E S \in One(pc) : pc' = [Notified(pc, S) EXCEPT ![a] = next]
    /\ UNCHANGED until

(* Mutant: with stopWhenEmpty, tasks still queued are forgotten. *)
ShouldStopEarly == stopRequested \/ stopWhenEmpty

ShouldStop == stopRequested \/ (stopWhenEmpty /\ taskQueue = <<>>)

(* The clock advances by a unit. *)
Less(n) == IF n = 0 THEN 0 ELSE n - 1

Tick ==
    /\ \/ \E i \in DOMAIN taskQueue : taskQueue[i].in > 0
       \/ \E t \in Thread : until[t] > 0
    /\ taskQueue' = [i \in DOMAIN taskQueue |->
                        [taskQueue[i] EXCEPT !.in = Less(@)]]
    /\ until' = [t \in Thread |-> Less(until[t])]
    /\ UNCHANGED <<stopVars, thrown, clientVars, addVars, pc>>

-----------------------------------------------------------------------------
(* serviceQueue.  n is nThreadsServicingQueue so far. *)

(* The thread leaves, and wakes another one to see why. *)
Leave(t, n) ==
    LET p == [pc EXCEPT ![t] = "gone"]
    IN  /\ ShouldStop
        /\ nThreadsServicingQueue' = n - 1
        /\ \E S \in One(p) : pc' = Notified(p, S)
        /\ UNCHANGED queueVars

WaitUntilFirst(t, n) ==
    /\ ~ShouldStop /\ taskQueue # <<>>
    /\ until' = [until EXCEPT ![t] = Head(taskQueue).in]
    /\ pc' = [pc EXCEPT ![t] = "timed"]
    /\ nThreadsServicingQueue' = n /\ UNCHANGED taskQueue

(* The lock is dropped for RandAddSeedSleep. *)
SleepWhenEmpty(t, n) ==
    /\ ~ShouldStop /\ taskQueue = <<>>
    /\ pc' = [pc EXCEPT ![t] = "wake"]
    /\ nThreadsServicingQueue' = n /\ UNCHANGED queueVars

WaitWhenEmpty(t, n) ==
    /\ ~ShouldStop /\ taskQueue = <<>>
    /\ pc' = [pc EXCEPT ![t] = "wait"]
    /\ nThreadsServicingQueue' = n /\ UNCHANGED queueVars

Loop(t, n) == Leave(t, n) \/ WaitUntilFirst(t, n) \/ SleepWhenEmpty(t, n)

serviceUnchanged ==
    UNCHANGED <<stopRequested, stopWhenEmpty, interrupted, thrown, clientVars,
                addVars>>

StartThread(t) ==
    /\ pc[t] = "new" /\ pc[Main] \in {"boot", "up"}
    /\ Loop(t, nThreadsServicingQueue + 1)
    /\ serviceUnchanged

(* From a task that has ended, or a timed wait that was notified. *)
LoopAgain(t) ==
    /\ pc[t] = "top"
    /\ Loop(t, nThreadsServicingQueue)
    /\ serviceUnchanged

(* From RandAddSeedSleep, or an untimed wait that was notified. *)
WakeUp(t) ==
    /\ pc[t] = "wake"
    /\ \/ Leave(t, nThreadsServicingQueue)
       \/ WaitUntilFirst(t, nThreadsServicingQueue)
       \/ WaitWhenEmpty(t, nThreadsServicingQueue)
    /\ serviceUnchanged

SpuriousWakeUp(t) ==
    /\ t \in Waiting(pc) /\ ~interrupted
    /\ pc' = Notified(pc, {t})
    /\ UNCHANGED <<queueVars, stopVars, thrown, clientVars, addVars>>

(* The task at the front is taken and the lock dropped. *)
TakeTask(t) ==
    /\ ~ShouldStop /\ taskQueue # <<>>
    /\ pc' = [pc EXCEPT ![t] = Head(taskQueue).task]
    /\ taskQueue' = Tail(taskQueue)
    /\ UNCHANGED <<until, nThreadsServicingQueue>>

(* Mutant: the wait is not repeated when it ends before its time. *)
TimeoutAnyWake(t) ==
    /\ pc[t] = "timed" /\ ~interrupted
    /\ \/ TakeTask(t)
       \/ (ShouldStop \/ taskQueue = <<>>) /\ Loop(t, nThreadsServicingQueue)
    /\ serviceUnchanged

(* The timed wait ends because its time has come.  Another thread may have *)
(* changed the queue meanwhile.                                            *)
Timeout(t) ==
    /\ pc[t] = "timed" /\ until[t] = 0 /\ ~interrupted
    /\ \/ TakeTask(t)
       \/ (ShouldStop \/ taskQueue = <<>>) /\ Loop(t, nThreadsServicingQueue)
    /\ serviceUnchanged

(* Mutant: the thread that is interrupted still counts. *)
InterruptedUncounted(t) ==
    /\ interrupted /\ pc[t] \in {"wait", "timed", "throw"}
    /\ pc' = [pc EXCEPT ![t] = "gone"]
    /\ UNCHANGED <<queueVars, stopVars, thrown, clientVars, addVars>>

(* catch (...): a wait is interrupted, or the exception of an interrupted  *)
(* task arrives.                                                           *)
Interrupted(t) ==
    /\ interrupted /\ pc[t] \in {"wait", "timed", "throw"}
    /\ nThreadsServicingQueue' = nThreadsServicingQueue - 1
    /\ pc' = [pc EXCEPT ![t] = "gone"]
    /\ UNCHANGED <<queueVars, stopRequested, stopWhenEmpty, interrupted, thrown,
                   clientVars, addVars>>

-----------------------------------------------------------------------------
(* The periodic task. *)

(* scheduleEvery, at start-up. *)
ScheduleEvery ==
    /\ pc[Main] = "boot"
    /\ Schedule(Main, "repeat", Delta, "up")
    /\ UNCHANGED <<stopVars, thrown, clientVars, addVars>>

(* Repeat: f ends, and the task is scheduled again. *)
Repeat(t) ==
    /\ pc[t] = "repeat"
    /\ Schedule(t, "repeat", Delta, "top")
    /\ UNCHANGED <<stopVars, thrown, clientVars, addVars>>

(* f is interrupted. *)
RepeatInterrupted(t) ==
    /\ pc[t] = "repeat" /\ interrupted
    /\ pc' = [pc EXCEPT ![t] = "throw"]
    /\ UNCHANGED <<queueVars, stopVars, thrown, clientVars, addVars>>

-----------------------------------------------------------------------------
(* SingleThreadedSchedulerClient. *)

(* Where an actor goes on after AddToProcessQueue or ProcessQueue. *)
Returned(a) ==
    CASE a = Main -> "empty"
      [] a \in Producer -> IF awaited[a] # 0 THEN "sync" ELSE "idle"
      [] a \in Thread -> IF a \in thrown THEN "throw" ELSE "top"

(* Mutant: another callback may run beside this one. *)
ProcessQueueParallel(a) ==
    /\ pc[a] = "process"
    /\ \/ /\ m_callbacks_pending = <<>>
          /\ pc' = [pc EXCEPT ![a] = Returned(a)]
          /\ UNCHANGED clientVars
       \/ /\ m_callbacks_pending # <<>>
          /\ m_are_callbacks_running' = TRUE
          /\ callback' = [callback EXCEPT ![a] = Head(m_callbacks_pending)]
          /\ m_callbacks_pending' = Tail(m_callbacks_pending)
          /\ pc' = [pc EXCEPT ![a] = "callback"]
          /\ UNCHANGED done
    /\ UNCHANGED <<queueVars, stopVars, thrown, addVars>>

(* ProcessQueue up to the callback: nothing to do, or the first callback   *)
(* is taken.                                                               *)
ProcessQueue(a) ==
    /\ pc[a] = "process"
    /\ \/ /\ m_are_callbacks_running \/ m_callbacks_pending = <<>>
          /\ pc' = [pc EXCEPT ![a] = Returned(a)]
          /\ UNCHANGED clientVars
       \/ /\ ~m_are_callbacks_running /\ m_callbacks_pending # <<>>
          /\ m_are_callbacks_running' = TRUE
          /\ callback' = [callback EXCEPT ![a] = Head(m_callbacks_pending)]
          /\ m_callbacks_pending' = Tail(m_callbacks_pending)
          /\ pc' = [pc EXCEPT ![a] = "callback"]
          /\ UNCHANGED done
    /\ UNCHANGED <<queueVars, stopVars, thrown, addVars>>

(* The callback returns, or is interrupted: it has run in either case, and *)
(* the destructor of RAIICallbacksRunning goes on.                         *)
CallbackEnds(a) ==
    /\ pc[a] = "callback"
    /\ done' = Append(done, callback[a])
    /\ callback' = [callback EXCEPT ![a] = 0]
    /\ pc' = [pc EXCEPT ![a] = "finish"]
    /\ \/ UNCHANGED thrown
       \/ interrupted /\ a \in Thread /\ thrown' = thrown \cup {a}
    /\ UNCHANGED <<queueVars, stopVars, m_callbacks_pending,
                   m_are_callbacks_running, addVars>>

(* A callback adds another one.  MaybeScheduleProcessQueue sees that       *)
(* callbacks are running and returns.                                      *)
CallbackAdds(a) ==
    /\ pc[a] = "callback" /\ added < MaxCallbacks
    /\ added' = added + 1
    /\ m_callbacks_pending' = Append(m_callbacks_pending, added + 1)
    /\ UNCHANGED <<queueVars, stopVars, thrown, m_are_callbacks_running,
                   callback, done, awaited, pc>>

(* Mutant: nobody looks for callbacks added while one was running. *)
FinishQuietly(a) ==
    /\ pc[a] = "finish"
    /\ m_are_callbacks_running' = FALSE
    /\ pc' = [pc EXCEPT ![a] = Returned(a)]
    /\ UNCHANGED <<queueVars, stopVars, thrown, m_callbacks_pending, callback,
                   done, addVars>>

(* ~RAIICallbacksRunning. *)
FinishProcessQueue(a) ==
    /\ pc[a] = "finish"
    /\ m_are_callbacks_running' = FALSE
    /\ pc' = [pc EXCEPT ![a] = "maybe"]
    /\ UNCHANGED <<queueVars, stopVars, thrown, m_callbacks_pending, callback,
                   done, addVars>>

(* MaybeScheduleProcessQueue: the check, *)
MaybeScheduleProcessQueue(a) ==
    /\ pc[a] = "maybe"
    /\ pc' = [pc EXCEPT ![a] =
                  IF m_are_callbacks_running \/ m_callbacks_pending = <<>>
                  THEN Returned(a) ELSE "schedule"]
    /\ UNCHANGED <<queueVars, stopVars, thrown, clientVars, addVars>>

(* and the call of schedule. *)
ScheduleProcessQueue(a) ==
    /\ pc[a] = "schedule"
    /\ Schedule(a, "process", 0, Returned(a))
    /\ UNCHANGED <<stopVars, thrown, clientVars, addVars>>

(* AddToProcessQueue(func), up to MaybeScheduleProcessQueue. *)
AppendCallback(a) ==
    /\ added < MaxCallbacks
    /\ added' = added + 1
    /\ m_callbacks_pending' = Append(m_callbacks_pending, added + 1)
    /\ pc' = [pc EXCEPT ![a] = "maybe"]
    /\ UNCHANGED <<queueVars, stopVars, thrown, m_are_callbacks_running,
                   callback, done>>

(* A signal of the validation interface, from a thread that is still       *)
(* running; SyncWithValidationInterfaceQueue waits for its callback.       *)
AddToProcessQueue(p) ==
    /\ pc[p] = "idle"
    /\ \/ pc[Main] \in {"boot", "up"}
       \/ p \in InGroup /\ interrupted /\ pc[Main] = "stopping"
    /\ AppendCallback(p)
    /\ \/ UNCHANGED awaited
       \/ p \in MaySync /\ awaited' = [awaited EXCEPT ![p] = added + 1]

SyncReturns(p) ==
    /\ pc[p] = "sync"
    /\ \E i \in DOMAIN done : done[i] = awaited[p]
    /\ awaited' = [awaited EXCEPT ![p] = 0]
    /\ pc' = [pc EXCEPT ![p] = "idle"]
    /\ UNCHANGED <<queueVars, stopVars, thrown, clientVars, added>>

-----------------------------------------------------------------------------
(* Shutdown, on the main thread: RPC, network and miner threads have been  *)
(* stopped, those of threadGroup have not.                                 *)
Quiet(P) == \A p \in P : pc[p] = "idle"

InterruptAll ==
    /\ pc[Main] \in {"boot", "up"} /\ Quiet(Producer \ InGroup)
    /\ interrupted' = TRUE
    /\ pc' = [pc EXCEPT ![Main] = "stopping"]
    /\ UNCHANGED <<queueVars, nThreadsServicingQueue, stopRequested,
                   stopWhenEmpty, thrown, clientVars, addVars>>

(* Mutant: the waiting threads are not told to stop. *)
StopQuietly(drain) ==
    /\ pc[Main] \in {"boot", "up"} /\ Quiet(Producer)
    /\ stopWhenEmpty' = drain /\ stopRequested' = ~drain
    /\ pc' = [pc EXCEPT ![Main] = "stopping"]
    /\ UNCHANGED <<queueVars, nThreadsServicingQueue, interrupted, thrown,
                   clientVars, addVars>>

(* stop(drain), the other way to end the threads, once all else is quiet. *)
Stop(drain) ==
    /\ pc[Main] \in {"boot", "up"} /\ Quiet(Producer)
    /\ stopWhenEmpty' = drain /\ stopRequested' = ~drain
    /\ pc' = [Notified(pc, Waiting(pc)) EXCEPT ![Main] = "stopping"]
    /\ UNCHANGED <<queueVars, nThreadsServicingQueue, interrupted, thrown,
                   clientVars, addVars>>

JoinAll ==
    /\ pc[Main] = "stopping"
    /\ \A t \in Thread : pc[t] \in {"new", "gone"}
    /\ Quiet(InGroup)
    /\ pc' = [pc EXCEPT ![Main] = "joined"]
    /\ UNCHANGED <<queueVars, stopVars, thrown, clientVars, addVars>>

(* FlushStateToDisk emits SetBestChain. *)
LastSignal ==
    /\ pc[Main] = "joined"
    /\ AppendCallback(Main)
    /\ UNCHANGED awaited

(* EmptyQueue: its loop, in which ProcessQueue runs on the main thread. *)
EmptyQueue ==
    /\ pc[Main] \in {"joined", "empty"}
    /\ pc' = [pc EXCEPT ![Main] =
                  IF m_callbacks_pending # <<>> THEN "process" ELSE "end"]
    /\ UNCHANGED <<queueVars, stopVars, thrown, clientVars, addVars>>

-----------------------------------------------------------------------------
Client(a) ==
    \/ ProcessQueue(a) \/ CallbackEnds(a) \/ FinishProcessQueue(a)
    \/ MaybeScheduleProcessQueue(a) \/ ScheduleProcessQueue(a)

Service(t) ==
    LoopAgain(t) \/ WakeUp(t) \/ Timeout(t) \/ Interrupted(t) \/ Repeat(t)

(* The process has ended. *)
Ended == pc[Main] = "end" /\ UNCHANGED vars

Next ==
    \/ Tick \/ ScheduleEvery \/ InterruptAll \/ JoinAll \/ LastSignal
    \/ EmptyQueue \/ Ended
    \/ \E drain \in BOOLEAN : Stop(drain)
    \/ \E t \in Thread : \/ StartThread(t) \/ Service(t)
                         \/ SpuriousWakeUp(t) \/ RepeatInterrupted(t)
    \/ \E p \in Producer : AddToProcessQueue(p) \/ SyncReturns(p)
    \/ \E a \in Actor : Client(a) \/ CallbackAdds(a)

Spec == Init /\ [][Next]_vars

StartFirstThread ==
    nThreadsServicingQueue = 0 /\ \E t \in Thread : StartThread(t)

(* Every thread goes on, the clock too, callbacks and tasks end, and the   *)
(* node starts at least one service thread.  A wait whose time has come is *)
(* not ended by spurious wake-ups for ever.                                *)
FairSpec ==
    /\ Spec
    /\ WF_vars(Tick) /\ WF_vars(JoinAll) /\ WF_vars(EmptyQueue)
    /\ WF_vars(StartFirstThread)
    /\ \A t \in Thread : WF_vars(Service(t)) /\ SF_vars(Timeout(t))
    /\ \A p \in Producer : WF_vars(SyncReturns(p))
    /\ \A a \in Actor : WF_vars(Client(a))

-----------------------------------------------------------------------------
(* Properties. *)

ClientPcs == {"process", "callback", "finish", "maybe", "schedule"}
ThreadPcs == {"new", "top", "wake", "wait", "timed", "repeat", "throw", "gone"}
MainPcs == {"boot", "up", "stopping", "joined", "empty", "end"}
Pcs == ClientPcs \cup ThreadPcs \cup MainPcs \cup {"idle", "sync"}

(* Every variable has its type.  An actor has a callback exactly while it  *)
(* runs one, the tasks are in the order of their times, and a producer     *)
(* that waits in SyncWithValidationInterfaceQueue knows for what.          *)
TypeOK ==
    /\ taskQueue \in Seq([task : {"process", "repeat"}, in : 0..Delta])
    /\ \A i, j \in DOMAIN taskQueue : i < j => taskQueue[i].in <= taskQueue[j].in
    /\ until \in [Thread -> 0..Delta]
    /\ nThreadsServicingQueue \in Nat
    /\ stopRequested \in BOOLEAN /\ stopWhenEmpty \in BOOLEAN
    /\ interrupted \in BOOLEAN /\ thrown \subseteq Thread
    /\ m_callbacks_pending \in Seq(Callback) /\ m_are_callbacks_running \in BOOLEAN
    /\ done \in Seq(Callback) /\ added \in 0..MaxCallbacks
    /\ callback \in [Actor -> 0..MaxCallbacks]
    /\ awaited \in [Producer -> 0..MaxCallbacks]
    /\ pc \in [Actor -> Pcs]
    /\ \A t \in Thread : pc[t] \in ThreadPcs \cup ClientPcs
    /\ \A p \in Producer : pc[p] \in {"idle", "maybe", "schedule", "sync"}
    /\ pc[Main] \in MainPcs \cup ClientPcs
    /\ \A a \in Actor : callback[a] # 0 <=> pc[a] = "callback"
    /\ \A p \in Producer : pc[p] = "sync" => awaited[p] # 0

(* Callbacks are run one at a time, each once and in the order in which    *)
(* they were added, by whichever threads service the queue and, in the     *)
(* end, by EmptyQueue.                                                     *)
CQ == INSTANCE CallbackQueue WITH
          waiting <- m_callbacks_pending,
          current <- {callback[a] : a \in Actor} \ {0}
ImplementsCallbackQueue == CQ!Spec

(* A callback that waits is never forgotten: a ProcessQueue is scheduled,  *)
(* or a thread is on the way from adding it, or from another callback, to  *)
(* where one is scheduled, or the main thread is going to empty the queue. *)
NeverForgotten ==
    m_callbacks_pending # <<>> =>
        \/ \E i \in DOMAIN taskQueue : taskQueue[i].task = "process"
        \/ \E a \in Actor : pc[a] \in ClientPcs
        \/ pc[Main] \in {"joined", "empty"}

(* nThreadsServicingQueue is the number of threads in serviceQueue: the    *)
(* assertions of EmptyQueue and ~CScheduler hold after every kind of stop. *)
ThreadsCounted ==
    /\ nThreadsServicingQueue =
           Cardinality({t \in Thread : pc[t] \notin {"new", "gone"}})
    /\ pc[Main] \in {"joined", "empty", "end"} \cup ClientPcs =>
           nThreadsServicingQueue = 0

(* stop(drain = true) leaves no work behind: when all threads have left,   *)
(* every callback has been run, though each of them left on its own when   *)
(* it found no task.                                                       *)
DrainRunsAll ==
    /\ stopWhenEmpty /\ pc[Main] = "joined"
    /\ \E t \in Thread : pc[t] = "gone"
    => m_callbacks_pending = <<>> /\ taskQueue = <<>>

(* With one thread servicing the queue, as in the node, a task never runs  *)
(* before its time.                                                        *)
OnTime ==
    [][nThreadsServicingQueue = 1 /\ Len(taskQueue') < Len(taskQueue)
       => Head(taskQueue).in = 0]_vars

(* Every callback that is added is run in the end. *)
CallbacksRun ==
    \A c \in Callback : added = c ~> \E i \in DOMAIN done : done[i] = c

(* Shutdown ends after every kind of stop; with drain = true only if there *)
(* is no periodic task, which reschedules itself for ever.                 *)
Periodic ==
    \/ \E i \in DOMAIN taskQueue : taskQueue[i].task = "repeat"
    \/ \E t \in Thread : pc[t] = "repeat"
ShutdownEnds ==
    pc[Main] = "stopping" /\ ~(stopWhenEmpty /\ Periodic) ~> pc[Main] = "end"
=============================================================================
