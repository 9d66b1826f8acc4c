------------------------------- MODULE Threads -------------------------------
(***************************************************************************)
(* The threads that service queues in poll mode (thread.c, qdma_thread.c), *)
(* shared by all queues of all devices: how a queue is given to one and    *)
(* taken from it, how they sleep and are woken, and how the module ends    *)
(* them.  A queue is reduced to whether it has requests out, and whether   *)
(* the hardware has finished them; QdmaDescq has the rest.                 *)
(*                                                                         *)
(* Each queue has a control thread of its own, those of different devices  *)
(* start and stop queues at the same time.  A thread's lock is held by the *)
(* thread in "scan", "hit" and "proc"; everyone else takes it for a step.  *)
(***************************************************************************)
EXTENDS Integers, Sequences

CONSTANTS
    ThreadCnt,      \* thread_cnt
    Queues,         \* the queues of all devices
    StopSignals     \* kthread_stop ends an interruptible wait: kernels from 6.0 on

ASSUME ThreadsAssumption == ThreadCnt \in Nat \ {0} /\ StopSignals \in BOOLEAN

Thread == 1 .. ThreadCnt

VARIABLES
    kth,        \* the threads: pc, schedule, work_list, what is left of it in a
                \* walk, and whether kthread_stop was called
    ctl,        \* the control thread of each queue, with the locals of add_work
    requests,   \* of each queue: "none", "hw" has them, or "done"
    cmplthp,    \* the thread a queue's submitters wake, 0 for NULL
    waking,     \* queues whose submitter has yet to wake the thread
    unload      \* the module's exit: its step, and the thread it is about

threadVars == << kth, ctl, requests, cmplthp, waking, unload >>

work_cnt(t) == Len(kth[t].work_list)
Locked(t)   == kth[t].pc \in {"scan", "hit", "proc"}

NoLocals == [i |-> 1, idx |-> 0, v |-> 0]

ThreadsInit ==
    /\ \E pc \in {"check", "asleep"} :     \* started, or asleep by now
         kth = [t \in Thread |-> [pc |-> pc, schedule |-> FALSE, work_list |-> << >>,
                                 rest |-> << >>, should_stop |-> FALSE]]
    /\ ctl = [q \in Queues |-> [pc |-> "off", loc |-> NoLocals]]
    /\ requests = [q \in Queues |-> "none"]
    /\ cmplthp = [q \in Queues |-> 0]
    /\ waking = {}
    /\ unload = [pc |-> "up", t |-> 1]

-----------------------------------------------------------------------------
(* xthread_main.                                                           *)

SetThread(t, r) == kth' = [kth EXCEPT ![t] = r]

\* The top of the loop: the lock is taken for the walk of xthread_work_pending.
Check(t) ==
    /\ kth[t].pc = "check"
    /\ SetThread(t, IF kth[t].should_stop THEN [kth[t] EXCEPT !.pc = "ended"]
                    ELSE [kth[t] EXCEPT !.pc = "scan", !.rest = kth[t].work_list])
    /\ UNCHANGED requests

\* Mutant: the flag is reset on the way to sleep.
NothingPendsFresh(r) == [r EXCEPT !.pc = "wait", !.schedule = FALSE]

NothingPends(r) == [r EXCEPT !.pc = "wait"]

\* One queue of the walk: qdma_thread_cmpl_status_pend.
Scan(t) ==
    /\ kth[t].pc = "scan"
    /\ SetThread(t, IF kth[t].rest = << >> THEN NothingPends(kth[t])
                    ELSE IF requests[Head(kth[t].rest)] # "none" THEN [kth[t] EXCEPT !.pc = "hit"]
                    ELSE [kth[t] EXCEPT !.rest = Tail(@)])
    /\ UNCHANGED requests

\* wait_event_interruptible looks at its condition each time it is woken.
Wait(t) == IF kth[t].schedule \/ (StopSignals /\ kth[t].should_stop)
           THEN [kth[t] EXCEPT !.pc = "woken"]
           ELSE [kth[t] EXCEPT !.pc = "asleep"]

Reschedule(t) == kth[t].pc = "wait" /\ SetThread(t, Wait(t)) /\ UNCHANGED requests

Begin(t) ==
    /\ kth[t].pc \in {"hit", "woken"}
    /\ SetThread(t, [kth[t] EXCEPT !.pc = "proc", !.schedule = FALSE, !.rest = kth[t].work_list])
    /\ UNCHANGED requests

\* One queue of the second walk: what the hardware has finished is completed.
Proc(t) ==
    /\ kth[t].pc = "proc"
    /\ IF kth[t].rest = << >>
       THEN SetThread(t, [kth[t] EXCEPT !.pc = "check"]) /\ UNCHANGED requests
       ELSE LET q == Head(kth[t].rest)
            IN  /\ SetThread(t, [kth[t] EXCEPT !.rest = Tail(@)])
                /\ requests' = [requests EXCEPT ![q] = IF @ = "done" THEN "none" ELSE @]

XthreadMain(t) == /\ Check(t) \/ Scan(t) \/ Reschedule(t) \/ Begin(t) \/ Proc(t)
                  /\ UNCHANGED << ctl, cmplthp, waking, unload >>

\* A thread that sleeps runs again, for one look at its condition.
Woken(r) == IF r.pc = "asleep" THEN [r EXCEPT !.pc = "wait"] ELSE r

-----------------------------------------------------------------------------
(* Requests.                                                               *)

\* A submitter has written descriptors and given back the queue's lock ...
Submit(q) ==
    /\ ctl[q].pc = "on" /\ requests[q] = "none" /\ q \notin waking
    /\ requests' = [requests EXCEPT ![q] = "hw"]
    /\ waking' = waking \union {q}
    /\ UNCHANGED << kth, ctl, cmplthp, unload >>

\* ... and wakes the thread the queue has by now, if it has one.
Wakeup(q) ==
    /\ q \in waking
    /\ waking' = waking \ {q}
    /\ IF cmplthp[q] = 0 THEN UNCHANGED kth
       ELSE SetThread(cmplthp[q], Woken([kth[cmplthp[q]] EXCEPT !.schedule = TRUE]))
    /\ UNCHANGED << ctl, requests, cmplthp, unload >>

HwDone(q) ==
    /\ requests[q] = "hw"
    /\ requests' = [requests EXCEPT ![q] = "done"]
    /\ UNCHANGED << kth, ctl, cmplthp, waking, unload >>

-----------------------------------------------------------------------------
(* qdma_thread_add_work and qdma_thread_remove_work, in a start and a stop. *)

Goto(q, pc) == ctl' = [ctl EXCEPT ![q].pc = pc]

StartQueue(q) ==
    /\ ctl[q].pc = "off" /\ unload.pc = "up"
    /\ ctl' = [ctl EXCEPT ![q] = [pc |-> "pick", loc |-> NoLocals]]
    /\ UNCHANGED << kth, requests, cmplthp, waking, unload >>

\* One thread of the search: one without work ends it, unless it is the first;
\* v stays what the first one has.
Picked(l) ==
    LET n == work_cnt(l.i)
    IN  IF l.idx = 0 THEN [i |-> l.i + 1, idx |-> l.i, v |-> n]
        ELSE IF n = 0 THEN [l EXCEPT !.i = ThreadCnt + 1, !.idx = l.i]
        ELSE [l EXCEPT !.i = @ + 1, !.idx = IF n < l.v THEN l.i ELSE @]

Pick(q) ==
    /\ ctl[q].pc = "pick" /\ ctl[q].loc.i <= ThreadCnt /\ ~Locked(ctl[q].loc.i)
    /\ ctl' = [ctl EXCEPT ![q].loc = Picked(@)]
    /\ UNCHANGED << kth, requests, cmplthp, waking, unload >>

\* The queue joins the thread's list as it is by now.
Link(q) ==
    LET t == ctl[q].loc.idx
    IN  /\ ctl[q].pc = "pick" /\ ctl[q].loc.i > ThreadCnt /\ ~Locked(t)
        /\ SetThread(t, [kth[t] EXCEPT !.work_list = Append(@, q)])
        /\ Goto(q, "linked")
        /\ UNCHANGED << requests, cmplthp, waking, unload >>

\* Until the queue is online nobody looks at its thread.
Online(q) ==
    /\ ctl[q].pc = "linked"
    /\ cmplthp' = [cmplthp EXCEPT ![q] = ctl[q].loc.idx]
    /\ ctl' = [ctl EXCEPT ![q] = [pc |-> "on", loc |-> NoLocals]]
    /\ UNCHANGED << kth, requests, waking, unload >>

\* q_stop_wait: no requests are taken from here on.
StopQueue(q) ==
    /\ ctl[q].pc = "on"
    /\ Goto(q, "draining")
    /\ UNCHANGED << kth, requests, cmplthp, waking, unload >>

\* The wait ends; what is left, after a timeout, is answered with an error.
Drained(q) ==
    /\ ctl[q].pc = "draining"
    /\ requests' = [requests EXCEPT ![q] = "none"]
    /\ Goto(q, "offline")
    /\ UNCHANGED << kth, cmplthp, waking, unload >>

\* The thread is remembered and taken from the queue under the queue's lock ...
RemoveWork(q) ==
    /\ ctl[q].pc = "offline"
    /\ cmplthp' = [cmplthp EXCEPT ![q] = 0]
    /\ ctl' = [ctl EXCEPT ![q] = [pc |-> "unlink", loc |-> [NoLocals EXCEPT !.idx = cmplthp[q]]]]
    /\ UNCHANGED << kth, requests, waking, unload >>

\* ... and the queue from the thread under the thread's.
Unlink(q) ==
    LET t == ctl[q].loc.idx
    IN  /\ ctl[q].pc = "unlink" /\ ~Locked(t)
        /\ SetThread(t, [kth[t] EXCEPT !.work_list = SelectSeq(@, LAMBDA p : p # q)])
        /\ ctl' = [ctl EXCEPT ![q] = [pc |-> "off", loc |-> NoLocals]]
        /\ UNCHANGED << requests, cmplthp, waking, unload >>

Control(q) == StartQueue(q) \/ StopQueue(q) \/ Pick(q) \/ Link(q) \/ Online(q)
              \/ Drained(q) \/ RemoveWork(q) \/ Unlink(q)

-----------------------------------------------------------------------------
(* qdma_threads_destroy, once no device is left.                           *)

BeginUnload ==
    /\ unload.pc = "up" /\ waking = {} /\ \A q \in Queues : ctl[q].pc = "off"
    /\ unload' = [pc |-> "raise", t |-> 1]
    /\ UNCHANGED << kth, ctl, requests, cmplthp, waking >>

\* qdma_kthread_stop sets the flag without waking the thread ...
SetSchedule ==
    /\ unload.pc = "raise"
    /\ SetThread(unload.t, [kth[unload.t] EXCEPT !.schedule = TRUE])
    /\ unload' = [unload EXCEPT !.pc = "stop"]
    /\ UNCHANGED << ctl, requests, cmplthp, waking >>

\* ... and kthread_stop wakes it ...
KthreadStop ==
    /\ unload.pc = "stop"
    /\ SetThread(unload.t, Woken([kth[unload.t] EXCEPT !.should_stop = TRUE]))
    /\ unload' = [unload EXCEPT !.pc = "join"]
    /\ UNCHANGED << ctl, requests, cmplthp, waking >>

\* ... and waits for its end.
Join ==
    /\ unload.pc = "join" /\ kth[unload.t].pc = "ended"
    /\ unload' = IF unload.t < ThreadCnt THEN [pc |-> "raise", t |-> unload.t + 1]
                 ELSE [unload EXCEPT !.pc = "gone"]
    /\ UNCHANGED << kth, ctl, requests, cmplthp, waking >>

Unload == BeginUnload \/ SetSchedule \/ KthreadStop \/ Join

ThreadsGone == unload.pc = "gone" /\ UNCHANGED threadVars

ThreadsNext == \/ \E t \in Thread : XthreadMain(t)
               \/ \E q \in Queues : Submit(q) \/ Wakeup(q) \/ HwDone(q) \/ Control(q)
               \/ Unload \/ ThreadsGone

\* Threads run, submitters finish their calls, the hardware finishes its work,
\* and an exit that has begun goes on.  Nobody has to start or stop a queue.
ThreadsFairness ==
    /\ \A t \in Thread : WF_threadVars(XthreadMain(t))
    /\ \A q \in Queues : WF_threadVars(Wakeup(q)) /\ WF_threadVars(HwDone(q))
    /\ WF_threadVars(SetSchedule \/ KthreadStop \/ Join)

ThreadsSpec == ThreadsInit /\ [][ThreadsNext]_threadVars /\ ThreadsFairness

-----------------------------------------------------------------------------
\* What the hardware has finished is completed, or the queue is stopped.
QueueServed == \A q \in Queues : requests[q] = "done" ~> requests[q] = "none"

\* The "handler to stop the kernel thread" (thread.h) stops it, and a module that is
\* removed is gone in the end.
ThreadsEnd == unload.pc = "raise" ~> unload.pc = "gone"

\* No wakeup is lost between a thread's walk over its queues and its sleep: not those
\* of the submitters of several queues, some of which come and go meanwhile, and not
\* that of the module's exit (xthread_main, qdma_descq_proc_sgt_request,
\* qdma_kthread_stop).
NoWakeupLost == QueueServed /\ ThreadsEnd
=============================================================================
