----------------------------- MODULE QdmaDescq -----------------------------
(***************************************************************************)
(* One memory-mapped or ST-H2C descriptor queue of libqdma: the request    *)
(* lists, the descriptor ring, the completion credits, the drain done by   *)
(* qdma_queue_stop, and the hardware that consumes the ring.               *)
(*                                                                         *)
(* Every critical section of the code runs under descq->lock.  Here the    *)
(* section is a chain of small steps of the thread that holds the lock     *)
(* (at # "free"), because the hardware writes its consumer index back      *)
(* between the steps, and because waiters read cb->done, and the stopper   *)
(* pend_list_empty, without the lock.                                      *)
(*                                                                         *)
(* A request is counted in descriptors: NDesc[r] is how many its scatter   *)
(* list needs.  Sizes, addresses and the SOP/EOP flags are left out, and   *)
(* so is the user bypass path (fp_bypass_desc_fill).                       *)
(***************************************************************************)
EXTENDS Integers, Sequences

CONSTANTS
    Req,          \* requests (struct qdma_request)
    Sync,         \* those without fp_done: the submitter sleeps until done
    Timed,        \* those of Sync with timeout_ms # 0
    BatchSeq,     \* requests of the one qdma_batch_request_submit call
    NDesc,        \* descriptors each request needs
    RngSz,        \* conf.rngsz
    Modes,        \* driver modes to consider, of "POLL" and "INTR"
    Shared,       \* the vector, or the thread, also serves other queues
    MapMayFail,   \* sgl_map may fail
    HwInTime,     \* the drain timeout only expires on an idle queue
    MaxStart,     \* bound on calls of qdma_queue_start
    MaxStop,      \* bound on calls of qdma_queue_stop
    Svc,          \* the interrupt work, or the kernel thread
    Stp,          \* the thread that starts and stops the queue
    Nobody        \* holds the free lock; owns a slot without descriptor

Batch == {BatchSeq[i] : i \in 1..Len(BatchSeq)}

ASSUME ReqAssumption ==
    /\ Timed \subseteq Sync /\ Sync \subseteq Req
    /\ BatchSeq \in Seq(Req \ Sync)
    /\ \A i, j \in 1 .. Len(BatchSeq) : BatchSeq[i] = BatchSeq[j] => i = j
    /\ {Svc, Stp, Nobody} \cap Req = {} /\ Svc # Stp
    /\ Nobody \notin {Svc, Stp}
ASSUME SizeAssumption ==
    /\ RngSz \in Nat /\ RngSz > 1
    /\ NDesc \in [Req -> Nat \ {0}]
    /\ MaxStart \in Nat /\ MaxStop \in Nat
ASSUME ModeAssumption ==
    /\ Modes \subseteq {"POLL", "INTR"}
    /\ {Shared, MapMayFail, HwInTime} \subseteq BOOLEAN

VARIABLES
    \* the queue (struct qdma_descq)
    qState,       \* q_state: "ENABLED" or "ONLINE"
    stopWait,     \* q_stop_wait
    pendEmpty,    \* pend_list_empty, the flag the stopper waits for
    work, pend,   \* work_list and pend_list
    workReqPend,  \* work_req_pend
    avail, pidx, cidx, credit,
    infoPidx,     \* pidx_info.pidx, the value the next doorbell carries
    procRunning,  \* proc_req_running
    live,         \* the ring is allocated and the context programmed
    schedule,     \* the kernel thread's schedule flag
    \* the lock holder
    at,           \* "free", or where the holder is in its section
    cur,          \* the holder
    ret,          \* where it goes once the completions are processed
    written,      \* desc_written # 0
    pos,          \* the list position the drain loops have reached
    \* the hardware (external)
    ring,         \* whose descriptor each slot holds
    doorbell, hwc,\* the producer index it was told, its consumer index
    wb,           \* the consumer index in the status page
    armed, pnd,   \* interrupt armed; a writeback came while it was not
    moved,        \* descriptors of each request it has executed
    \* the requests and the threads
    offset,       \* descriptors of r written so far (cb->offset)
    descNr,       \* cb->desc_nr
    done, status, \* cb->done, cb->status
    result,       \* what the caller was told; "none" until then
    pc,           \* where each thread is (r: the call that carries r)
    svcQueued,    \* the interrupt work is queued
    starts, stops,\* calls of qdma_queue_start and qdma_queue_stop so far
    mode          \* conf.qdma_drv_mode: "POLL", or "INTR" for the modes
                  \* that only work on interrupts

qVars   == <<qState, stopWait, pendEmpty, work, pend, workReqPend, avail,
             pidx, cidx, credit, infoPidx, procRunning, live, schedule>>
lockVars == <<at, cur, ret, written, pos>>
hwVars  == <<ring, doorbell, hwc, wb, armed, pnd, moved>>
reqVars == <<offset, descNr, done, status, result>>
runVars == <<starts, stops, mode>>
thrVars == <<pc, svcQueued, runVars>>
vars    == <<qVars, lockVars, hwVars, reqVars, thrVars>>

PollMode == mode = "POLL"
Slot   == 0 .. RngSz - 1
Thread == Req \cup {Svc, Stp}
Outcome == {"ok", "EIO", "EINVAL", "ENXIO", "ENOMAP"}

QueueType ==
    /\ qState \in {"ENABLED", "ONLINE"}
    /\ stopWait \in BOOLEAN /\ pendEmpty \in BOOLEAN
    /\ work \in Seq(Req) /\ pend \in Seq(Req)
    /\ workReqPend \in Int
    /\ avail \in Nat /\ credit \in Nat
    /\ pidx \in Slot /\ cidx \in Slot /\ infoPidx \in Slot
    /\ procRunning \in BOOLEAN /\ live \in BOOLEAN /\ schedule \in BOOLEAN

LockType ==
    /\ at \in {"free", "cmpl", "loop", "full", "exit", "svc", "stop",
              "drainPend", "drainWork"}
    /\ cur \in Thread \cup {Nobody}
    /\ ret \in {"none", "loop", "full", "exit", "svc", "stop"}
    /\ written \in BOOLEAN /\ pos \in Nat \ {0}

HwType ==
    /\ ring \in [Slot -> Req \cup {Nobody}]
    /\ doorbell \in Slot /\ hwc \in Slot /\ wb \in Slot
    /\ armed \in BOOLEAN /\ pnd \in BOOLEAN
    /\ moved \in [Req -> Nat]

ReqType ==
    /\ offset \in [Req -> Nat] /\ descNr \in [Req -> Int]
    /\ done \in [Req -> BOOLEAN]
    /\ status \in [Req -> {"0", "ENXIO"}]
    /\ result \in [Req -> Outcome \cup {"none"}]

ThreadType ==
    /\ pc \in [Thread -> {"new", "mapped", "proc", "wait", "woken", "end",
                          "idle", "sleep", "drained", "expired",
                          "teardown", "prog"}]
    /\ svcQueued \in BOOLEAN
    /\ starts \in 0 .. MaxStart /\ stops \in 0 .. MaxStop
    /\ mode \in Modes

TypeOK == QueueType /\ LockType /\ HwType /\ ReqType /\ ThreadType
-----------------------------------------------------------------------------
(* Ring arithmetic.                                                        *)

\* Mutant: a consumer index that has wrapped is not corrected.
DeltaNoWrap(new, old) == new - old
Delta(new, old) == IF new >= old THEN new - old ELSE new + (RngSz - old)
Incr(idx, n)    == IF idx + n >= RngSz THEN idx + n - RngSz ELSE idx + n
Lesser(a, b)    == IF a < b THEN a ELSE b

\* Mutant: a request that times out stays on its list.
WithoutNone(list, r) == list

\* list_del of the entry at position i, or of the entry r if it is there.
RemoveAt(list, i) == SubSeq(list, 1, i - 1) \o SubSeq(list, i + 1, Len(list))
Without(list, r) ==
    IF \E i \in 1 .. Len(list) : list[i] = r
    THEN RemoveAt(list, CHOOSE i \in 1 .. Len(list) : list[i] = r)
    ELSE list

\* qdma_work_queue_add; qdma_work_queue_del of the entry at position i.
WorkAdd(r) == work' = Append(work, r) /\ workReqPend' = workReqPend + 1
\* Mutant: the count is not taken back.
WorkDelNoCount(i) == work' = RemoveAt(work, i) /\ UNCHANGED workReqPend
WorkDel(i) == work' = RemoveAt(work, i) /\ workReqPend' = workReqPend - 1

Init ==
    /\ qState = "ENABLED" /\ stopWait = FALSE /\ pendEmpty = TRUE
    /\ work = <<>> /\ pend = <<>> /\ workReqPend = 0
    /\ avail = RngSz - 1 /\ pidx = 0 /\ cidx = 0 /\ credit = 0
    /\ infoPidx = 0 /\ procRunning = FALSE /\ live = FALSE
    /\ schedule = FALSE
    /\ at = "free" /\ cur = Nobody /\ ret = "none"
    /\ written = FALSE /\ pos = 1
    /\ ring = [i \in Slot |-> Nobody] /\ doorbell = 0 /\ hwc = 0 /\ wb = 0
    /\ armed = FALSE /\ pnd = FALSE
    /\ moved = [r \in Req |-> 0] /\ offset = [r \in Req |-> 0]
    /\ descNr = [r \in Req |-> 0] /\ done = [r \in Req |-> FALSE]
    /\ status = [r \in Req |-> "0"] /\ result = [r \in Req |-> "none"]
    /\ pc = [t \in Thread |-> IF t \in Req THEN "new" ELSE "idle"]
    /\ svcQueued = FALSE /\ starts = 0 /\ stops = 0
    /\ mode \in Modes
-----------------------------------------------------------------------------
(* Completions: descq_mm_n_h2c_cmpl_status.                                *)

\* Its first half: nothing to do, or take the credits and start the loop.
Reap(next) ==
    IF pidx = cidx \/ wb = cidx
    THEN /\ at' = next
         /\ UNCHANGED <<cidx, avail, credit, ret>>
    ELSE /\ cidx' = wb
         /\ avail' = avail + Delta(wb, cidx)
         /\ credit' = credit + Delta(wb, cidx)
         /\ ret' = next
         /\ at' = "cmpl"

\* A doorbell write.  With irq_en it arms the interrupt, which fires at
\* once for a writeback that came unarmed.  A cleared context ignores it.
Ring(p) ==
    IF live
    THEN /\ doorbell' = p
         /\ armed' = (~PollMode /\ ~pnd)
         /\ pnd' = FALSE
         /\ svcQueued' = (svcQueued \/ pnd)
    ELSE UNCHANGED <<doorbell, armed, pnd, svcQueued>>

\* qdma_sgt_req_done: the outcome, by callback or for the waiter, and
\* whether the ring has drained.
\* Mutant: drained means that the pending list is empty.
LastPending == Len(pend) = 1
RingDrained == avail = RngSz - 1
Answer(r) ==
    /\ done' = [done EXCEPT ![r] = TRUE]
    /\ status' = [status EXCEPT ![r] = "0"]
    /\ result' = IF r \in Sync THEN result
                 ELSE [result EXCEPT ![r] = "ok"]
    /\ pendEmpty' = RingDrained
\* Mutant: the request is answered but stays on the list.
SgtReqDoneKeep(r) == Answer(r) /\ UNCHANGED pend
SgtReqDone(r) == Answer(r) /\ pend' = Tail(pend)

\* The credits cover all the descriptors of r.
\* Mutant: any credit completes it.
CoveredByAny(r) == credit > 0
Covered(r) == credit >= descNr[r]

CmplDone ==
    /\ at = "cmpl" /\ pend # <<>> /\ credit > 0
    /\ LET r == Head(pend) IN
       /\ Covered(r)
       /\ credit' = credit - descNr[r]
       /\ SgtReqDone(r)
    /\ UNCHANGED <<qState, stopWait, work, workReqPend, avail, pidx, cidx,
                   infoPidx, procRunning, live, schedule, lockVars, hwVars,
                   offset, descNr, thrVars>>

\* The credits cover part of the first pending request.
CmplPart ==
    /\ at = "cmpl" /\ pend # <<>> /\ credit > 0
    /\ LET r == Head(pend) IN
       /\ ~Covered(r)
       /\ descNr' = [descNr EXCEPT ![r] = @ - credit]
    /\ credit' = 0
    /\ UNCHANGED <<qState, stopWait, pendEmpty, work, pend, workReqPend,
                   avail, pidx, cidx, infoPidx, procRunning, live, schedule,
                   lockVars, hwVars, offset, done, status, result, thrVars>>

\* The loop ends and qdma_pidx_update(descq, 1) re-arms the interrupt.
CmplEnd ==
    /\ at = "cmpl" /\ (pend = <<>> \/ credit = 0)
    /\ Ring(infoPidx)
    /\ at' = ret /\ ret' = "none"
    /\ UNCHANGED <<qVars, cur, written, pos, ring, hwc, wb, moved, reqVars,
                   pc, runVars>>
-----------------------------------------------------------------------------
(* Descriptor writing: descq_mm_proc_request, descq_proc_st_h2c_request.   *)

\* Where a thread goes when the routine returns.
After(t) == IF t \in Sync THEN "wait" ELSE IF t \in Req THEN "end" ELSE "idle"

Unlock(next) ==
    /\ at' = "free" /\ cur' = Nobody
    /\ pc' = [pc EXCEPT ![cur] = next]

\* q_stop_wait: only reap.
ProcStopWait(t) ==
    /\ pc[t] = "proc" /\ at = "free" /\ stopWait
    /\ cur' = t
    /\ Reap("stop")
    /\ UNCHANGED <<qState, stopWait, pendEmpty, work, pend, workReqPend, pidx,
                   infoPidx, procRunning, live, schedule, written, pos,
                   hwVars, reqVars, thrVars>>

ProcSkip(t) ==
    /\ pc[t] = "proc" /\ at = "free" /\ ~stopWait
    /\ qState # "ONLINE" \/ procRunning
    /\ pc' = [pc EXCEPT ![t] = After(t)]
    /\ UNCHANGED <<qVars, lockVars, hwVars, reqVars, svcQueued, runVars>>

\* In poll mode descq_poll_mm_n_h2c_cmpl_status reaps first.
\* ProcBegin as Begin is a mutant: a queue that is stopping takes more.
Begin(t) ==
    /\ pc[t] = "proc" /\ at = "free"
    /\ qState = "ONLINE" /\ ~procRunning
    /\ cur' = t
    /\ written' = FALSE
    /\ IF PollMode
       THEN procRunning' = TRUE /\ Reap("loop")
       ELSE /\ at' = "loop"
            /\ UNCHANGED <<procRunning, cidx, avail, credit, ret>>
    /\ UNCHANGED <<qState, stopWait, pendEmpty, work, pend, workReqPend, pidx,
                   infoPidx, live, schedule, pos, hwVars, reqVars, thrVars>>
ProcBegin(t) == ~stopWait /\ Begin(t)

\* One turn of the loop: as many descriptors of the first request as fit,
\* then qdma_update_request.
ProcFill ==
    /\ at \in {"loop", "full"} /\ work # <<>> /\ avail > 0
    /\ at' = "loop"
    /\ LET r == Head(work)
           n == Lesser(avail, NDesc[r] - offset[r])
       IN
       /\ ring' = [i \in Slot |-> IF Delta(i, pidx) < n THEN r ELSE ring[i]]
       /\ pidx' = Incr(pidx, n)
       /\ avail' = avail - n
       /\ descNr' = [descNr EXCEPT ![r] = @ + n]
       /\ offset' = [offset EXCEPT ![r] = @ + n]
       /\ IF offset[r] + n >= NDesc[r]
          THEN WorkDel(1) /\ pend' = Append(pend, r)
          ELSE UNCHANGED <<work, workReqPend, pend>>
    /\ written' = TRUE
    /\ UNCHANGED <<qState, stopWait, pendEmpty, cidx, credit, infoPidx,
                   procRunning, live, schedule, cur, ret, pos, doorbell,
                   hwc, wb, armed, pnd, moved, done, status, result, thrVars>>

\* No descriptor is free: in poll mode reap and look again.
ProcFull ==
    /\ at = "loop" /\ work # <<>> /\ avail = 0 /\ PollMode
    /\ procRunning' = TRUE
    /\ Reap("full")
    /\ UNCHANGED <<qState, stopWait, pendEmpty, work, pend, workReqPend, pidx,
                   infoPidx, live, schedule, cur, written, pos, hwVars,
                   reqVars, thrVars>>

LoopOver ==
    \/ at = "loop" /\ (work = <<>> \/ (avail = 0 /\ ~PollMode))
    \/ at = "full" /\ avail = 0

\* After the loop: the doorbell if anything was written, and a last reap.
ProcRing ==
    /\ LoopOver
    /\ IF written
       THEN /\ pendEmpty' = FALSE
            /\ infoPidx' = pidx
            /\ Ring(pidx)
            /\ IF PollMode
               THEN procRunning' = TRUE /\ Reap("exit")
               ELSE /\ at' = "exit"
                    /\ UNCHANGED <<procRunning, cidx, avail, credit, ret>>
       ELSE /\ at' = "exit"
            /\ UNCHANGED <<pendEmpty, infoPidx, procRunning, cidx, avail,
                           credit, ret, doorbell, armed, pnd, svcQueued>>
    /\ UNCHANGED <<qState, stopWait, work, pend, workReqPend, pidx, live,
                   schedule, cur, written, pos, ring, hwc, wb, moved, reqVars,
                   pc, runVars>>

\* Unlock, and wake the kernel thread of a queue that has one.
ProcExit ==
    /\ at = "exit"
    /\ procRunning' = FALSE
    /\ schedule' = (schedule \/ (written /\ PollMode /\ live))
    /\ Unlock(After(cur))
    /\ written' = FALSE
    /\ UNCHANGED <<qState, stopWait, pendEmpty, work, pend, workReqPend,
                   avail, pidx, cidx, credit, infoPidx, live, ret, pos, hwVars,
                   reqVars, svcQueued, runVars>>

ProcStopExit ==
    /\ at = "stop"
    /\ Unlock(After(cur))
    /\ UNCHANGED <<qVars, ret, written, pos, hwVars, reqVars, svcQueued,
                   runVars>>
-----------------------------------------------------------------------------
(* qdma_descq_service_cmpl_update: the interrupt work, the kernel thread.  *)

SvcStart ==
    /\ ~PollMode /\ svcQueued /\ pc[Svc] = "idle" /\ at = "free"
    /\ svcQueued' = FALSE
    /\ cur' = Svc
    /\ Reap("svc")
    /\ UNCHANGED <<qState, stopWait, pendEmpty, work, pend, workReqPend, pidx,
                   infoPidx, procRunning, live, schedule, written, pos,
                   hwVars, reqVars, pc, runVars>>

\* qdma_work_queue_len decides whether there is work to write.
\* Mutant: off by one.
MoreWorkThanOne == workReqPend > 1
MoreWork == workReqPend # 0

SvcCheck ==
    /\ at = "svc"
    /\ Unlock(IF MoreWork THEN "proc" ELSE "idle")
    /\ UNCHANGED <<qVars, ret, written, pos, hwVars, reqVars, svcQueued,
                   runVars>>

\* xthread_main: with something pending process it, else go to sleep.
KthCheck ==
    /\ PollMode /\ pc[Svc] = "idle" /\ at = "free"
    /\ IF live /\ (pend # <<>> \/ work # <<>>)
       THEN /\ pc' = [pc EXCEPT ![Svc] = "proc"]
            /\ schedule' = FALSE
       ELSE /\ pc' = [pc EXCEPT ![Svc] = "sleep"]
            /\ UNCHANGED schedule
    /\ UNCHANGED <<qState, stopWait, pendEmpty, work, pend, workReqPend,
                   avail, pidx, cidx, credit, infoPidx, procRunning, live,
                   lockVars, hwVars, reqVars, svcQueued, runVars>>

\* Once woken it processes every queue it has, this one included.
KthWake ==
    /\ PollMode /\ pc[Svc] = "sleep" /\ (schedule \/ Shared)
    /\ schedule' = FALSE
    /\ pc' = [pc EXCEPT ![Svc] = IF live THEN "proc" ELSE "idle"]
    /\ UNCHANGED <<qState, stopWait, pendEmpty, work, pend, workReqPend,
                   avail, pidx, cidx, credit, infoPidx, procRunning, live,
                   lockVars, hwVars, reqVars, svcQueued, runVars>>
-----------------------------------------------------------------------------
(* qdma_request_submit, qdma_batch_request_submit and the wait.            *)

\* sgl_map comes first; then the request is queued if the queue is online.
Submit(r) ==
    /\ r \notin Batch /\ pc[r] = "new" /\ at = "free"
    /\ IF qState = "ONLINE"
       THEN /\ WorkAdd(r)
            /\ pc' = [pc EXCEPT ![r] = "proc"]
            /\ UNCHANGED result
       ELSE /\ pc' = [pc EXCEPT ![r] = "end"]
            /\ result' = [result EXCEPT ![r] = "EINVAL"]
            /\ UNCHANGED <<work, workReqPend>>
    /\ UNCHANGED <<qState, stopWait, pendEmpty, pend, avail, pidx, cidx,
                   credit, infoPidx, procRunning, live, schedule, lockVars,
                   hwVars, offset, descNr, done, status, svcQueued, runVars>>

SubmitNoMap(r) ==
    /\ MapMayFail /\ r \notin Batch /\ pc[r] = "new"
    /\ pc' = [pc EXCEPT ![r] = "end"]
    /\ result' = [result EXCEPT ![r] = "ENOMAP"]
    /\ UNCHANGED <<qVars, lockVars, hwVars, offset, descNr, done, status,
                   svcQueued, runVars>>

\* A batch maps every request; fp_done reports a mapping that failed, and
\* the loop goes on.
BatchMap ==
    /\ BatchSeq # <<>> /\ pc[BatchSeq[1]] = "new"
    /\ pc' = [t \in Thread |-> IF t = BatchSeq[1] THEN "mapped"
                               ELSE IF t \in Batch THEN "end" ELSE pc[t]]
    /\ \E bad \in IF MapMayFail THEN SUBSET Batch ELSE {{}} :
         result' = [r \in Req |-> IF r \in bad THEN "ENOMAP" ELSE result[r]]
    /\ UNCHANGED <<qVars, lockVars, hwVars, offset, descNr, done, status,
                   svcQueued, runVars>>

\* All of them are queued at once, with a plain list_add_tail.
BatchQueue ==
    /\ BatchSeq # <<>> /\ pc[BatchSeq[1]] = "mapped" /\ at = "free"
    /\ IF qState = "ONLINE"
       THEN /\ work' = work \o BatchSeq
            /\ pc' = [pc EXCEPT ![BatchSeq[1]] = "proc"]
            /\ UNCHANGED result
       ELSE /\ pc' = [pc EXCEPT ![BatchSeq[1]] = "end"]
            /\ result' = [r \in Req |-> IF r \in Batch THEN "EINVAL"
                                        ELSE result[r]]
            /\ UNCHANGED work
    /\ UNCHANGED <<qState, stopWait, pendEmpty, pend, workReqPend, avail,
                   pidx, cidx, credit, infoPidx, procRunning, live, schedule,
                   lockVars, hwVars, offset, descNr, done, status, svcQueued,
                   runVars>>

\* qdma_request_wait_for_cmpl: cb->done is read without the lock ...
WaitWake(r) ==
    /\ pc[r] = "wait" /\ (done[r] \/ r \in Timed)
    /\ pc' = [pc EXCEPT ![r] = "woken"]
    /\ UNCHANGED <<qVars, lockVars, hwVars, reqVars, svcQueued, runVars>>

\* ... and again under it: a request not done has timed out.
WaitFinish(r) ==
    /\ pc[r] = "woken" /\ at = "free"
    /\ IF done[r] THEN UNCHANGED <<work, pend>>
       ELSE work' = Without(work, r) /\ pend' = Without(pend, r)
    /\ result' = [result EXCEPT ![r] = IF done[r] /\ status[r] = "0"
                                       THEN "ok" ELSE "EIO"]
    /\ pc' = [pc EXCEPT ![r] = "end"]
    /\ UNCHANGED <<qState, stopWait, pendEmpty, workReqPend, avail, pidx, cidx,
                   credit, infoPidx, procRunning, live, schedule, lockVars,
                   hwVars, offset, descNr, done, status, svcQueued, runVars>>
-----------------------------------------------------------------------------
(* qdma_queue_stop.                                                        *)

\* The condition of the wait.  Mutant: the stop does not wait.
DontWait == TRUE
Drained == pendEmpty

StopBegin ==
    /\ pc[Stp] = "idle" /\ at = "free" /\ qState = "ONLINE"
    /\ stops < MaxStop
    /\ stops' = stops + 1
    /\ stopWait' = TRUE
    /\ pc' = [pc EXCEPT ![Stp] = IF Drained THEN "drained" ELSE "wait"]
    /\ UNCHANGED <<qState, pendEmpty, work, pend, workReqPend, avail, pidx,
                   cidx, credit, infoPidx, procRunning, live, schedule,
                   lockVars, hwVars, reqVars, svcQueued, starts, mode>>

StopWake ==
    /\ pc[Stp] = "wait" /\ Drained
    /\ pc' = [pc EXCEPT ![Stp] = "drained"]
    /\ UNCHANGED <<qVars, lockVars, hwVars, reqVars, svcQueued, runVars>>

\* The hardware has finished and no service is about to see it.
Quiet == at = "free" /\ wb = doorbell /\ (cidx = wb \/ pc[Svc] = "sleep")

\* Mutant: the wait has no timeout.
WaitForEver == FALSE
StopExpire ==
    /\ pc[Stp] = "wait" /\ ~Drained
    /\ HwInTime => Quiet
    /\ pc' = [pc EXCEPT ![Stp] = "expired"]
    /\ UNCHANGED <<qVars, lockVars, hwVars, reqVars, svcQueued, runVars>>

StopDrain ==
    /\ pc[Stp] \in {"drained", "expired"} /\ at = "free"
    /\ qState' = "ENABLED"
    /\ stopWait' = FALSE
    /\ at' = "drainPend" /\ cur' = Stp /\ pos' = 1
    /\ UNCHANGED <<pendEmpty, work, pend, workReqPend, avail, pidx, cidx,
                   credit, infoPidx, procRunning, live, schedule, ret,
                   written, hwVars, reqVars, thrVars>>

\* A request with fp_done leaves the list and is called back; a waiter is
\* woken and its entry stays.
DrainOne(list) ==
    LET r == list[pos] IN
    /\ pos <= Len(list)
    /\ done' = [done EXCEPT ![r] = TRUE]
    /\ status' = [status EXCEPT ![r] = "ENXIO"]
    /\ result' = IF r \in Sync THEN result
                 ELSE [result EXCEPT ![r] = "ENXIO"]
    /\ pos' = IF r \in Sync THEN pos + 1 ELSE pos

AfterDrainOne(list) == IF list[pos] \in Sync THEN list ELSE RemoveAt(list, pos)

DrainPend ==
    /\ at = "drainPend"
    /\ DrainOne(pend)
    /\ pend' = AfterDrainOne(pend)
    /\ UNCHANGED <<qState, stopWait, pendEmpty, work, workReqPend, avail, pidx,
                   cidx, credit, infoPidx, procRunning, live, schedule, at,
                   cur, ret, written, hwVars, offset, descNr, thrVars>>

DrainNext ==
    /\ at = "drainPend" /\ pos > Len(pend)
    /\ at' = "drainWork" /\ pos' = 1
    /\ UNCHANGED <<qVars, cur, ret, written, hwVars, reqVars, thrVars>>

DrainWork ==
    /\ at = "drainWork"
    /\ DrainOne(work)
    /\ IF work[pos] \in Sync THEN UNCHANGED <<work, workReqPend>>
       ELSE WorkDel(pos)
    /\ UNCHANGED <<qState, stopWait, pendEmpty, pend, avail, pidx, cidx,
                   credit, infoPidx, procRunning, live, schedule, at, cur,
                   ret, written, hwVars, offset, descNr, thrVars>>

DrainEnd ==
    /\ at = "drainWork" /\ pos > Len(work)
    /\ Unlock("teardown")
    /\ pos' = 1
    /\ UNCHANGED <<qVars, ret, written, hwVars, reqVars, svcQueued,
                   runVars>>

\* qdma_thread_remove_work waits for the kernel thread, not for a queued
\* interrupt work; then the context is cleared and the ring freed.
Teardown ==
    /\ pc[Stp] = "teardown"
    /\ PollMode => pc[Svc] # "proc"
    /\ live' = FALSE
    /\ armed' = FALSE /\ pnd' = FALSE
    /\ pc' = [pc EXCEPT ![Stp] = "idle"]
    /\ UNCHANGED <<qState, stopWait, pendEmpty, work, pend, workReqPend,
                   avail, pidx, cidx, credit, infoPidx, procRunning,
                   schedule, lockVars, ring, doorbell, hwc, wb, moved,
                   reqVars, svcQueued, runVars>>
-----------------------------------------------------------------------------
(* qdma_queue_start.                                                       *)

\* qdma_descq_config_complete: the indices, not the lists.
\* Mutants: the consumer index, or the credits, survive a restart.
ResetAllButCidx ==
    /\ avail' = RngSz - 1 /\ pidx' = 0 /\ UNCHANGED cidx /\ credit' = 0
ResetAllButCredit ==
    /\ avail' = RngSz - 1 /\ pidx' = 0 /\ cidx' = 0 /\ UNCHANGED credit
ResetIndices ==
    /\ avail' = RngSz - 1 /\ pidx' = 0 /\ cidx' = 0 /\ credit' = 0

StartConfig ==
    /\ pc[Stp] = "idle" /\ at = "free" /\ qState = "ENABLED"
    /\ starts < MaxStart
    /\ starts' = starts + 1
    /\ ResetIndices
    /\ pendEmpty' = TRUE /\ workReqPend' = 0
    /\ pc' = [pc EXCEPT ![Stp] = "prog"]
    /\ UNCHANGED <<qState, stopWait, work, pend, infoPidx, procRunning, live,
                   schedule, lockVars, hwVars, reqVars, svcQueued, stops, mode>>

\* A fresh ring, a fresh context, and the queue goes online.
StartOnline ==
    /\ pc[Stp] = "prog" /\ at = "free"
    /\ live' = TRUE
    /\ ring' = [i \in Slot |-> Nobody]
    /\ doorbell' = 0 /\ hwc' = 0 /\ wb' = 0
    /\ armed' = ~PollMode /\ pnd' = FALSE
    /\ qState' = "ONLINE"
    /\ pc' = [pc EXCEPT ![Stp] = "idle"]
    /\ UNCHANGED <<stopWait, pendEmpty, work, pend, workReqPend, avail, pidx,
                   cidx, credit, infoPidx, procRunning, schedule, lockVars,
                   moved, reqVars, svcQueued, runVars>>

\* The allocation or the context programming fails and is undone.
StartFail ==
    /\ pc[Stp] = "prog"
    /\ pc' = [pc EXCEPT ![Stp] = "idle"]
    /\ UNCHANGED <<qVars, lockVars, hwVars, reqVars, svcQueued, runVars>>
-----------------------------------------------------------------------------
(* The hardware (external): it executes descriptors in ring order up to    *)
(* the doorbell, and writes its consumer index back some time later with   *)
(* an interrupt if one is armed.                                           *)

HwExec ==
    /\ live /\ hwc # doorbell
    /\ moved' = [r \in Req |-> IF r = ring[hwc] THEN moved[r] + 1
                               ELSE moved[r]]
    /\ hwc' = Incr(hwc, 1)
    /\ UNCHANGED <<qVars, lockVars, ring, doorbell, wb, armed, pnd, reqVars,
                   thrVars>>

HwWriteback ==
    /\ live /\ wb # hwc
    /\ wb' = hwc
    /\ armed' = FALSE
    /\ svcQueued' = (svcQueued \/ armed)
    /\ pnd' = (~PollMode /\ ~armed)
    /\ UNCHANGED <<qVars, lockVars, ring, doorbell, hwc, moved, reqVars, pc,
                   runVars>>

\* data_intr_direct schedules every queue of the vector.
IrqShared ==
    /\ Shared /\ ~PollMode /\ live /\ ~svcQueued
    /\ svcQueued' = TRUE
    /\ UNCHANGED <<qVars, lockVars, hwVars, reqVars, pc, runVars>>
-----------------------------------------------------------------------------
Cmpl   == CmplDone \/ CmplPart \/ CmplEnd
Loop   == ProcFill \/ ProcFull \/ ProcRing
Drain  == DrainPend \/ DrainNext \/ DrainWork \/ DrainEnd
Holder == Cmpl \/ Loop \/ ProcExit \/ ProcStopExit \/ SvcCheck \/ Drain
Proc(t) == ProcStopWait(t) \/ ProcSkip(t) \/ ProcBegin(t)
Service == SvcStart \/ KthCheck \/ KthWake
Call(r) == Submit(r) \/ SubmitNoMap(r) \/ WaitWake(r) \/ WaitFinish(r)
Stop    == StopBegin \/ StopWake \/ StopExpire \/ StopDrain \/ Teardown
Start   == StartConfig \/ StartOnline \/ StartFail
Hw      == HwExec \/ HwWriteback \/ IrqShared

Next ==
    \/ Holder \/ Service \/ Hw \/ Stop \/ Start \/ BatchMap \/ BatchQueue
    \/ \E t \in Req \cup {Svc} : Proc(t)
    \/ \E r \in Req : Call(r)

Spec == Init /\ [][Next]_vars

(***************************************************************************)
(* Fairness: the hardware makes progress, the lock is released, a queued   *)
(* work and a woken thread run, a caller goes on.  The control thread      *)
(* competes for the lock with a kernel thread that may poll for ever, so   *)
(* it needs the lock to be granted in turn (a queued spin lock).  Nobody   *)
(* has to submit, start or stop, and no request has to time out.           *)
(***************************************************************************)
Resume(r) ==
    \/ Proc(r) \/ (done[r] /\ WaitWake(r)) \/ WaitFinish(r)
    \/ Batch # {} /\ r = BatchSeq[1] /\ BatchQueue

Fairness ==
    /\ WF_vars(Holder)
    /\ WF_vars(HwExec \/ HwWriteback)
    /\ WF_vars(Service \/ Proc(Svc))
    /\ \A r \in Req : WF_vars(Resume(r))
    /\ SF_vars(StopWake \/ StopExpire \/ StopDrain \/ Teardown)

FairSpec == Spec /\ Fairness
=============================================================================
