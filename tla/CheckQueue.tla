----------------------------- MODULE CheckQueue -----------------------------
(***************************************************************************)
(* CCheckQueue and CCheckQueueControl: script checks of the block being    *)
(* connected, spread over worker threads.  The master (ConnectBlock) adds  *)
(* batches of checks, then joins the workers until all checks are done,    *)
(* and is told whether all of them succeeded.                              *)
(*                                                                         *)
(* A step is a critical section of the queue's mutex, up to where the      *)
(* thread unlocks it: to run its batch, to wait on its condition variable, *)
(* or to return.  A batch runs outside the mutex; as checks share nothing, *)
(* its result is taken when the thread locks the mutex again.  A wait may  *)
(* end without a notification.                                             *)
(*                                                                         *)
(* Abstracted: a check is an identity with a fixed outcome, and the stack  *)
(* of checks is a set ("the order of booleans doesn't matter"), from which *)
(* a batch is any subset of the right size.  Interruption at shutdown is   *)
(* left out.                                                               *)
(***************************************************************************)
EXTENDS Naturals, FiniteSets

CONSTANTS
    Worker,     \* the threads in Thread()
    Master,     \* the thread that holds ControlMutex, one at a time
    Check,      \* the checks there may be
    Failing,    \* the checks that return false
    nBatchSize  \* the largest batch

ASSUME QueueAssumption ==
    /\ Master \notin Worker /\ IsFiniteSet(Worker)
    /\ IsFiniteSet(Check) /\ Failing \subseteq Check
    /\ nBatchSize \in Nat \ {0}

Thread == Worker \cup {Master}

VARIABLES
    queue,   \* the checks nobody has taken
    nIdle,   \* threads waiting
    nTotal,  \* threads in Loop
    fAllOk,  \* the result so far
    nTodo,   \* checks not completed
    pc,      \* of a thread: "out" of Loop, "waiting" on its condition variable,
             \* "woken" from it, or running a batch ("checking")
    batch,   \* its vChecks
    fOk,     \* its fOk
    control, \* of the CCheckQueueControl: "free" (none), "open", or "done"
             \* (Wait has returned)
    fRet,    \* what Wait returned
    added    \* history: the checks added since the control was opened

counters == <<nIdle, nTotal, nTodo>>
local == <<pc, batch, fOk>>
vars == <<queue, counters, fAllOk, local, control, fRet, added>>

Least(a, b) == IF a < b THEN a ELSE b

(* Wake a set of waiting threads. *)
Notify(p, S) == [t \in Thread |-> IF t \in S THEN "woken" ELSE p[t]]

Waiting(p, S) == {t \in S : p[t] = "waiting"}

(* The sets of workers that Add of n checks may wake: notify_one or        *)
(* notify_all on condWorker.                                               *)
Wakes(n) ==
    LET idle == Waiting(pc, Worker)
    IN  CASE n = 0 -> {{}}
          [] n = 1 /\ idle # {} -> {{w} : w \in idle}
          [] OTHER -> {idle}

Init ==
    /\ queue = {} /\ nIdle = 0 /\ nTotal = 0 /\ fAllOk = TRUE /\ nTodo = 0
    /\ pc = [t \in Thread |-> "out"]
    /\ batch = [t \in Thread |-> {}] /\ fOk = [t \in Thread |-> TRUE]
    /\ control = "free" /\ fRet = TRUE /\ added = {}

-----------------------------------------------------------------------------
(* The master outside Loop. *)

(* CCheckQueueControl(pqueue) takes ControlMutex. *)
OpenControl ==
    /\ control = "free" /\ control' = "open"
    /\ added' = {}
    /\ UNCHANGED <<queue, counters, fAllOk, local, fRet>>

(* Mutant: the checks still to do from earlier batches are forgotten. *)
AddUncounted(S) ==
    /\ control = "open" /\ pc[Master] = "out"
    /\ queue' = queue \cup S /\ nTodo' = Cardinality(S)
    /\ pc' = Notify(pc, Waiting(pc, Worker))
    /\ added' = added \cup S
    /\ UNCHANGED <<nIdle, nTotal, fAllOk, batch, fOk, control, fRet>>

(* Add(vChecks): a single check wakes one worker, more wake all. *)
Add(S) ==
    /\ control = "open" /\ pc[Master] = "out"
    /\ queue' = queue \cup S /\ nTodo' = nTodo + Cardinality(S)
    /\ \E W \in Wakes(Cardinality(S)) : pc' = Notify(pc, W)
    /\ added' = added \cup S
    /\ UNCHANGED <<nIdle, nTotal, fAllOk, batch, fOk, control, fRet>>

(* The destructor, once Wait has returned: ControlMutex is released.  (The *)
(* destructor calls Wait itself where nobody has.)                         *)
CloseControl ==
    /\ control = "done" /\ control' = "free"
    /\ UNCHANGED <<queue, counters, fAllOk, local, fRet, added>>

-----------------------------------------------------------------------------
(* Loop: the rest of a critical section after the clean-up.  p is pc after *)
(* any notification; idle, total, ok and todo are nIdle, nTotal, fAllOk    *)
(* and nTodo so far.                                                       *)

(* nNow, the size of the next batch. *)
BatchSize(total, idle) ==
    LET share == Least(nBatchSize, Cardinality(queue) \div (total + idle + 1))
    IN  IF share = 0 THEN 1 ELSE share

(* Mutant: the result is not reset for the next block. *)
LeaveLoopUnreset(t, p, idle, total, ok, todo) ==
    /\ queue = {} /\ t = Master /\ todo = 0
    /\ nTotal' = total - 1 /\ nIdle' = idle
    /\ fRet' = ok /\ fAllOk' = ok
    /\ control' = "done"
    /\ pc' = [p EXCEPT ![t] = "out"] /\ batch' = [batch EXCEPT ![t] = {}]
    /\ UNCHANGED <<queue, fOk>>

(* The master returns the result and resets it. *)
LeaveLoop(t, p, idle, total, ok, todo) ==
    /\ queue = {} /\ t = Master /\ todo = 0
    /\ nTotal' = total - 1 /\ nIdle' = idle
    /\ fRet' = ok /\ fAllOk' = TRUE
    /\ control' = "done"
    /\ pc' = [p EXCEPT ![t] = "out"] /\ batch' = [batch EXCEPT ![t] = {}]
    /\ UNCHANGED <<queue, fOk>>

(* Mutant: vChecks is not cleared. *)
StartWaitingUncleared(t, p, idle, total, ok, todo) ==
    /\ queue = {} /\ ~(t = Master /\ todo = 0)
    /\ nIdle' = idle + 1 /\ nTotal' = total /\ fAllOk' = ok
    /\ pc' = [p EXCEPT ![t] = "waiting"]
    /\ UNCHANGED <<queue, batch, fOk, control, fRet>>

StartWaiting(t, p, idle, total, ok, todo) ==
    /\ queue = {} /\ ~(t = Master /\ todo = 0)
    /\ nIdle' = idle + 1 /\ nTotal' = total /\ fAllOk' = ok
    /\ pc' = [p EXCEPT ![t] = "waiting"] /\ batch' = [batch EXCEPT ![t] = {}]
    /\ UNCHANGED <<queue, fOk, control, fRet>>

TakeBatch(t, p, idle, total, ok, S) ==
    /\ queue # {}
    /\ Cardinality(S) = BatchSize(total, idle)
    /\ queue' = queue \ S /\ batch' = [batch EXCEPT ![t] = S]
    /\ nIdle' = idle /\ nTotal' = total /\ fAllOk' = ok
    /\ fOk' = [fOk EXCEPT ![t] = ok]
    /\ pc' = [p EXCEPT ![t] = "checking"]
    /\ UNCHANGED <<control, fRet>>

Proceed(t, p, idle, total, ok, todo) ==
    /\ \/ LeaveLoop(t, p, idle, total, ok, todo)
       \/ StartWaiting(t, p, idle, total, ok, todo)
       \/ \E S \in SUBSET queue : TakeBatch(t, p, idle, total, ok, S)
    /\ nTodo' = todo
    /\ UNCHANGED added

-----------------------------------------------------------------------------
(* The first critical section of Loop: a worker thread starts, or the      *)
(* master calls Wait.                                                      *)
EnterLoop(t) ==
    /\ pc[t] = "out"
    /\ t = Master => control = "open"
    /\ Proceed(t, pc, nIdle, nTotal + 1, fAllOk, nTodo)

(* Mutant: nIdle is not decremented. *)
WakeUpUncounted(t) ==
    /\ pc[t] = "woken"
    /\ Proceed(t, pc, nIdle, nTotal, fAllOk, nTodo)

(* The thread returns from cond.wait with the mutex. *)
WakeUp(t) ==
    /\ pc[t] = "woken"
    /\ Proceed(t, pc, nIdle - 1, nTotal, fAllOk, nTodo)

(* cond.wait ends without a notification. *)
SpuriousWakeUp(t) ==
    /\ pc[t] = "waiting"
    /\ pc' = Notify(pc, {t})
    /\ UNCHANGED <<queue, counters, fAllOk, batch, fOk, control, fRet, added>>

(* Mutant: the last worker does not tell the master. *)
NotifiedQuiet(t, todo) == pc

(* pc after the worker that completed the last check has told the master.  *)
Notified(t, todo) ==
    IF todo = 0 /\ t # Master THEN Notify(pc, Waiting(pc, {Master})) ELSE pc

(* fAllOk &= fOk, after the checks of the batch. *)
BatchResult(t) == fAllOk /\ fOk[t] /\ batch[t] \cap Failing = {}

(* A batch has been run: clean up, and go on. *)
FinishBatch(t) ==
    /\ pc[t] = "checking"
    /\ LET todo == nTodo - Cardinality(batch[t])
       IN  Proceed(t, Notified(t, todo), nIdle, nTotal, BatchResult(t), todo)

Run(t) == EnterLoop(t) \/ WakeUp(t) \/ FinishBatch(t)

Next ==
    \/ OpenControl \/ CloseControl
    \/ \E S \in SUBSET (Check \ added) : Add(S)
    \/ \E t \in Thread : Run(t) \/ SpuriousWakeUp(t)

Spec == Init /\ [][Next]_vars

(* A thread that can lock the mutex does so in the end, and ConnectBlock   *)
(* goes on to Wait.                                                        *)
FairSpec == Spec /\ \A t \in Thread : WF_vars(Run(t))

-----------------------------------------------------------------------------
(* Properties. *)

Outstanding == queue \cup UNION {batch[t] : t \in Thread}

(* Every variable has its type; a thread has a batch only while it runs    *)
(* it, and the master is in Loop only under an open control.               *)
TypeOK ==
    /\ queue \subseteq Check /\ added \subseteq Check
    /\ nIdle \in Nat /\ nTotal \in Nat /\ nTodo \in Nat
    /\ fAllOk \in BOOLEAN /\ fRet \in BOOLEAN
    /\ pc \in [Thread -> {"out", "waiting", "woken", "checking"}]
    /\ batch \in [Thread -> SUBSET Check] /\ fOk \in [Thread -> BOOLEAN]
    /\ control \in {"free", "open", "done"}
    /\ \A t \in Thread : pc[t] # "checking" => batch[t] = {}
    /\ control # "open" => pc[Master] = "out"

(* nTodo counts the checks that are queued or in a batch, each of which is *)
(* in one place only: the unsigned counter never wraps, and the master     *)
(* leaves neither early nor never.                                         *)
TodoCounts ==
    /\ nTodo = Cardinality(Outstanding)
    /\ \A t \in Thread : batch[t] \cap queue = {}
    /\ \A t, u \in Thread : t # u => batch[t] \cap batch[u] = {}

(* nIdle and nTotal, from which batch sizes are computed, count the        *)
(* threads that wait and the threads that are in Loop.                     *)
CountersRight ==
    /\ nIdle = Cardinality({t \in Thread : pc[t] \in {"waiting", "woken"}})
    /\ nTotal = Cardinality({t \in Thread : pc[t] # "out"})

(* When Wait has returned, no check of this block is queued or running any *)
(* more, and the result is true exactly if every check added for it        *)
(* succeeds: nothing of an earlier block's result is left.                 *)
WaitRight ==
    control = "done" => /\ Outstanding = {}
                        /\ fRet <=> added \cap Failing = {}

(* Wait returns: no wake-up is lost. *)
WaitReturns == pc[Master] # "out" ~> control = "done"
=============================================================================
