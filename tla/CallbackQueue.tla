---------------------------- MODULE CallbackQueue ----------------------------
(***************************************************************************)
(* What SingleThreadedSchedulerClient promises (src/src/scheduler.h): its  *)
(* callbacks are "run serially", each once and in the order in which they  *)
(* were added, whichever threads run them.                                 *)
(***************************************************************************)
EXTENDS Naturals, Sequences

CONSTANT Callback  \* the callbacks there may be

VARIABLES
    waiting,  \* added and not started, in order
    current,  \* the callbacks being run
    done      \* the callbacks that have been run, in order

vars == <<waiting, current, done>>

Init == waiting = <<>> /\ current = {} /\ done = <<>>

Add(c) ==
    /\ waiting' = Append(waiting, c)
    /\ UNCHANGED <<current, done>>

Start ==
    /\ waiting # <<>> /\ current = {}
    /\ current' = {Head(waiting)} /\ waiting' = Tail(waiting)
    /\ UNCHANGED done

Finish(c) ==
    /\ c \in current
    /\ current' = current \ {c} /\ done' = Append(done, c)
    /\ UNCHANGED waiting

Next ==
    \/ Start
    \/ \E c \in Callback : Add(c) \/ Finish(c)

Spec == Init /\ [][Next]_vars
=============================================================================
