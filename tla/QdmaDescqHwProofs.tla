------------------------- MODULE QdmaDescqHwProofs -------------------------
(***************************************************************************)
(* What the driver may conclude about the hardware, for every ring size,   *)
(* set of requests and mode.                                               *)
(*                                                                         *)
(* The first part is about a stop: the flag pend_list_empty, which the     *)
(* control thread reads without the lock, is never stale when it matters,  *)
(* so that a drained queue has an idle hardware and no interrupt work that *)
(* is still queued reads the status page after it was freed.               *)
(*                                                                         *)
(* The second part is about the ring: the descriptors between cidx and     *)
(* pidx are those of pend_list, in its order, and then those of the first  *)
(* request of work_list.  The driver completes a request by counting; the  *)
(* layout is why counting is enough, so that a request that succeeds has   *)
(* had all its descriptors executed, and an answered request has none left *)
(* that the hardware could still read.                                     *)
(***************************************************************************)
EXTENDS QdmaDescqProofs, FiniteSetTheorems, FunctionTheorems

-----------------------------------------------------------------------------
(* The stop of a queue. *)

\* A section that may have written descriptors it has not rung for.
Filling == \/ at \in {"loop", "full"}
           \/ at = "cmpl" /\ ret \in {"loop", "full"}

\* Outside of it the hardware has been told of every descriptor ...
RungOK == live /\ pidx # doorbell => written /\ Filling

\* ... and pend_list_empty is only set while the ring has drained.
EmptyOK == pendEmpty /\ pidx # cidx => written /\ Filling

\* From the start of a stop on, nobody writes.
WaitOK == /\ pc[Stp] \in {"wait", "drained", "expired"} => stopWait \/ qState = "ENABLED"
          /\ stopWait => ~Filling

\* A queue that has been drained, or stopped after all its interrupts were
\* served, has no descriptor outstanding.
IdleOK == /\ pc[Stp] = "drained" => pidx = cidx
          /\ HwInTime /\ (~live \/ pc[Stp] \in {"expired", "teardown"})
                => pidx = cidx \/ PollMode

\* In poll mode there are no interrupts; only poll mode has a thread that sleeps.
PollOK == /\ PollMode => ~svcQueued /\ ~armed /\ ~pnd
          /\ pc[Svc] = "sleep" => PollMode

DrainInv == RungOK /\ EmptyOK /\ WaitOK /\ IdleOK /\ PollOK

-----------------------------------------------------------------------------
\* A reap with nothing outstanding takes nothing.
LEMMA ReapNothing ==
    ASSUME NEW next, Reap(next)
    PROVE  pidx = cidx => cidx' = cidx
BY DEF Reap

\* A section that has just been entered, or goes on, without writing.
LEMMA SectionFrame ==
    ASSUME Inv, DrainInv, pidx = cidx => cidx' = cidx,
           UNCHANGED << live, pidx, doorbell, pendEmpty, stopWait, qState >>,
           Filling /\ written => Filling' /\ written',
           stopWait => ~Filling', pc'[Stp] = pc[Stp], UNCHANGED mode
    PROVE  RungOK' /\ EmptyOK' /\ WaitOK' /\ IdleOK'
<1>1. RungOK' /\ WaitOK'
  BY DEF DrainInv, RungOK, WaitOK
<1>2. EmptyOK'
  <2>1. CASE pidx = cidx
    BY <2>1 DEF EmptyOK
  <2>2. CASE pidx # cidx
    BY <2>2 DEF DrainInv, EmptyOK
  <2>. QED BY <2>1, <2>2
<1>3. IdleOK'
  BY DEF DrainInv, IdleOK, PollMode
<1>. QED BY <1>1, <1>2, <1>3

\* A doorbell raises no interrupt in poll mode.
LEMMA RingPoll ==
    ASSUME TypeOK, PollOK, NEW p, Ring(p), UNCHANGED mode, pc'[Svc] = pc[Svc]
    PROVE  PollOK'
BY DEF Ring, PollOK, PollMode, TypeOK, HwType, ThreadType

\* What is written or reaped concerns an online queue that no stop waits for.
LEMMA FillingMeans ==
    ASSUME Inv, DrainInv, Filling
    PROVE  /\ live /\ qState = "ONLINE" /\ ~stopWait
           /\ pc[Stp] \notin {"wait", "drained", "expired", "teardown"}
<1>1. live /\ qState = "ONLINE"
  BY DEF Inv, LockOK, StopOK, Writing, Filling
<1>2. ~stopWait /\ pc[Stp] \notin {"wait", "drained", "expired"}
  BY <1>1 DEF DrainInv, WaitOK
<1>. QED BY <1>1, <1>2 DEF Inv, StopOK

\* A step of a writing section says nothing of stops and torn down rings.
LEMMA FillingFrame ==
    ASSUME Inv, DrainInv, Filling, UNCHANGED << live, stopWait, qState, pc >>
    PROVE  WaitOK' /\ IdleOK'
BY FillingMeans DEF WaitOK, IdleOK

LEMMA SectionDrain ==
    ASSUME Inv, DrainInv, Cmpl \/ Loop \/ ProcExit \/ ProcStopExit \/ SvcCheck
    PROVE  DrainInv'
<1>. TypeOK /\ LockOK /\ StopOK /\ RingOK
  BY DEF Inv
<1>1. CASE CmplDone
  <2>1. UNCHANGED << live, pidx, cidx, avail, doorbell, stopWait, qState, at, ret, written,
                     pc, svcQueued, armed, pnd, mode >>
    BY <1>1 DEF CmplDone, SgtReqDone, Answer, lockVars, hwVars, thrVars, runVars
  <2>2. pendEmpty' => pidx = cidx
    <3>1. pendEmpty' => avail = RngSz - 1
      BY <1>1 DEF CmplDone, SgtReqDone, Answer, RingDrained
    <3>2. avail + Delta(pidx, cidx) = RngSz - 1 /\ pidx \in Slot /\ cidx \in Slot /\ avail \in Nat
      BY DEF RingOK, TypeOK, QueueType
    <3>. QED BY <3>1, <3>2, DeltaType, SizeFacts
  <2>. QED BY <2>1, <2>2
           DEF DrainInv, RungOK, EmptyOK, WaitOK, IdleOK, PollOK, PollMode, Filling
<1>2. CASE CmplPart
  <2>1. UNCHANGED << live, pidx, cidx, pendEmpty, doorbell, stopWait, qState, at, ret, written,
                     pc, svcQueued, armed, pnd, mode >>
    BY <1>2 DEF CmplPart, lockVars, hwVars, thrVars, runVars
  <2>. QED BY <2>1 DEF DrainInv, RungOK, EmptyOK, WaitOK, IdleOK, PollOK, PollMode, Filling
<1>3. CASE CmplEnd
  <2>1. /\ UNCHANGED << live, pidx, cidx, pendEmpty, stopWait, qState, written, pc, mode >>
        /\ Ring(infoPidx) /\ at = "cmpl" /\ at' = ret
    BY <1>3 DEF CmplEnd, qVars, runVars
  <2>2. doorbell' = doorbell
    BY <2>1 DEF Ring, RingOK
  <2>3. Filling' => Filling
    BY <1>3 DEF CmplEnd, Filling
  <2>4. Filling => Filling'
    BY <2>1 DEF Filling
  <2>5. PollOK'
    BY <2>1, RingPoll DEF DrainInv
  <2>. QED BY <2>1, <2>2, <2>3, <2>4, <2>5, SectionFrame DEF DrainInv, WaitOK
<1>4. CASE ProcFill
  <2>1. Filling /\ Filling' /\ written'
    BY <1>4 DEF ProcFill, Filling
  <2>2. UNCHANGED << live, stopWait, qState, pc, svcQueued, armed, pnd, mode >>
    BY <1>4 DEF ProcFill, thrVars, runVars
  <2>3. RungOK' /\ EmptyOK'
    BY <2>1 DEF RungOK, EmptyOK
  <2>4. PollOK'
    BY <2>2 DEF DrainInv, PollOK, PollMode
  <2>. QED BY <2>1, <2>2, <2>3, <2>4, FillingFrame DEF DrainInv
<1>5. CASE ProcFull
  <2>1. /\ Reap("full") /\ Filling
        /\ UNCHANGED << live, pidx, doorbell, pendEmpty, stopWait, qState, written, pc,
                        svcQueued, armed, pnd, mode >>
    BY <1>5 DEF ProcFull, hwVars, thrVars, runVars, Filling
  <2>2. Filling'
    BY <2>1 DEF Reap, Filling
  <2>3. stopWait => ~Filling'
    BY <2>1, FillingMeans
  <2>4. PollOK'
    BY <2>1 DEF DrainInv, PollOK, PollMode
  <2>5. pidx = cidx => cidx' = cidx
    BY <2>1, ReapNothing
  <2>. QED BY <2>1, <2>2, <2>3, <2>4, <2>5, SectionFrame DEF DrainInv
<1>6. CASE ProcRing
  <2>1. /\ Filling /\ live
        /\ UNCHANGED << live, pidx, stopWait, qState, written, pc, mode >>
    BY <1>6, FillingMeans DEF ProcRing, LoopOver, runVars, Filling
  <2>2. WaitOK' /\ IdleOK'
    BY <2>1, FillingFrame
  <2>3. CASE written
    <3>1. Ring(pidx) /\ pendEmpty' = FALSE
      BY <1>6, <2>3 DEF ProcRing
    <3>2. RungOK' /\ EmptyOK'
      BY <2>1, <3>1 DEF Ring, RungOK, EmptyOK
    <3>3. PollOK'
      BY <2>1, <3>1, RingPoll DEF DrainInv
    <3>. QED BY <2>2, <3>2, <3>3 DEF DrainInv
  <2>4. CASE ~written
    <3>1. UNCHANGED << doorbell, pendEmpty, cidx, armed, pnd, svcQueued >>
      BY <1>6, <2>4 DEF ProcRing
    <3>2. RungOK' /\ EmptyOK'
      BY <2>1, <2>4, <3>1 DEF DrainInv, RungOK, EmptyOK
    <3>3. PollOK'
      BY <2>1, <3>1 DEF DrainInv, PollOK, PollMode
    <3>. QED BY <2>2, <3>2, <3>3 DEF DrainInv
  <2>. QED BY <2>3, <2>4
<1>7. CASE ProcExit \/ ProcStopExit \/ SvcCheck
  <2>1. /\ cur \in Req \cup {Svc} /\ ~Filling /\ ~Filling'
        /\ \E next \in {"wait", "end", "idle", "proc"} : pc' = [pc EXCEPT ![cur] = next]
    BY <1>7 DEF ProcExit, ProcStopExit, SvcCheck, Unlock, LockOK, Filling, After
  <2>2. pc'[Stp] = pc[Stp] /\ (pc'[Svc] = pc[Svc] \/ pc'[Svc] \in {"wait", "end", "idle", "proc"})
    BY <2>1, PcStp, ReqAssumption DEF TypeOK, ThreadType, Thread
  <2>3. UNCHANGED << live, pidx, cidx, pendEmpty, doorbell, stopWait, qState, svcQueued, armed,
                     pnd, mode >>
    BY <1>7 DEF ProcExit, ProcStopExit, SvcCheck, qVars, hwVars, runVars
  <2>4. PollOK'
    BY <2>2, <2>3 DEF DrainInv, PollOK, PollMode
  <2>. QED BY <2>1, <2>2, <2>3, <2>4, SectionFrame DEF DrainInv
<1>. QED BY <1>1, <1>2, <1>3, <1>4, <1>5, <1>6, <1>7 DEF Cmpl, Loop

LEMMA EntryDrain ==
    ASSUME Inv, DrainInv, SvcStart \/ \E t \in Req \cup {Svc} : Proc(t)
    PROVE  DrainInv'
<1>. TypeOK /\ LockOK
  BY DEF Inv
<1>1. ASSUME NEW t \in Req \cup {Svc}, ProcStopWait(t)
      PROVE  DrainInv'
  <2>1. /\ Reap("stop") /\ at = "free"
        /\ UNCHANGED << live, pidx, doorbell, pendEmpty, stopWait, qState, written, pc,
                        svcQueued, armed, pnd, mode >>
    BY <1>1 DEF ProcStopWait, hwVars, thrVars, runVars
  <2>2. ~Filling /\ ~Filling' /\ (pidx = cidx => cidx' = cidx)
    BY <2>1, ReapNothing DEF Reap, Filling
  <2>3. PollOK'
    BY <2>1 DEF DrainInv, PollOK, PollMode
  <2>. QED BY <2>1, <2>2, <2>3, SectionFrame DEF DrainInv
<1>2. ASSUME NEW t \in Req \cup {Svc}, ProcSkip(t)
      PROVE  DrainInv'
  <2>1. /\ pc' = [pc EXCEPT ![t] = After(t)]
        /\ UNCHANGED << live, pidx, cidx, doorbell, pendEmpty, stopWait, qState, written, at, ret,
                        svcQueued, armed, pnd, mode >>
    BY <1>2 DEF ProcSkip, qVars, lockVars, hwVars, runVars
  <2>2. pc'[Stp] = pc[Stp] /\ (pc'[Svc] = pc[Svc] \/ pc'[Svc] \in {"wait", "end", "idle"})
    BY <2>1, PcStp, ReqAssumption DEF TypeOK, ThreadType, Thread, After
  <2>3. Filling' <=> Filling
    BY <2>1 DEF Filling
  <2>4. PollOK'
    BY <2>1, <2>2 DEF DrainInv, PollOK, PollMode
  <2>. QED BY <2>1, <2>2, <2>3, <2>4, SectionFrame DEF DrainInv, WaitOK
<1>3. ASSUME NEW t \in Req \cup {Svc}, ProcBegin(t)
      PROVE  DrainInv'
  <2>1. /\ at = "free" /\ ~stopWait
        /\ UNCHANGED << live, pidx, doorbell, pendEmpty, stopWait, qState, pc,
                        svcQueued, armed, pnd, mode >>
    BY <1>3 DEF ProcBegin, Begin, hwVars, thrVars, runVars
  <2>2. ~Filling /\ (pidx = cidx => cidx' = cidx)
    BY <1>3, <2>1 DEF ProcBegin, Begin, Reap, Filling
  <2>3. PollOK'
    BY <2>1 DEF DrainInv, PollOK, PollMode
  <2>. QED BY <2>1, <2>2, <2>3, SectionFrame DEF DrainInv
<1>4. CASE SvcStart
  <2>1. /\ Reap("svc") /\ at = "free" /\ ~PollMode /\ svcQueued' = FALSE
        /\ UNCHANGED << live, pidx, doorbell, pendEmpty, stopWait, qState, written, pc,
                        armed, pnd, mode >>
    BY <1>4 DEF SvcStart, hwVars, runVars
  <2>2. ~Filling /\ ~Filling' /\ (pidx = cidx => cidx' = cidx)
    BY <2>1, ReapNothing DEF Reap, Filling
  <2>3. PollOK'
    BY <2>1 DEF DrainInv, PollOK, PollMode
  <2>. QED BY <2>1, <2>2, <2>3, SectionFrame DEF DrainInv
<1>. QED BY <1>1, <1>2, <1>3, <1>4 DEF Proc

LEMMA CallDrain ==
    ASSUME Inv, DrainInv,
           \/ \E r \in Req : Call(r)
           \/ BatchMap \/ BatchQueue \/ KthCheck \/ KthWake \/ Hw
    PROVE  DrainInv'
<1>. TypeOK /\ Stp \notin Req \cup {Svc} /\ Stp \in Thread /\ Svc \in Thread /\ Svc \notin Req
  BY ReqAssumption DEF Inv, Thread
<1>1. UNCHANGED << at, ret, written, qState, stopWait, pendEmpty, live, pidx, cidx, doorbell, mode >>
  BY DEF Call, Submit, SubmitNoMap, WaitWake, WaitFinish, BatchMap, BatchQueue, KthCheck,
         KthWake, Hw, HwExec, HwWriteback, IrqShared, WorkAdd, qVars, lockVars, hwVars, thrVars,
         runVars
<1>2. pc'[Stp] = pc[Stp] /\ PollOK'
  <2>1. CASE BatchMap
    <3>1. Stp \notin Batch /\ Svc \notin Batch /\ BatchSeq[1] \in Batch
      BY <2>1, BatchType DEF BatchMap, Batch
    <3>2. /\ pc' = [t \in Thread |-> IF t = BatchSeq[1] THEN "mapped"
                                     ELSE IF t \in Batch THEN "end" ELSE pc[t]]
          /\ UNCHANGED << svcQueued, armed, pnd >>
      BY <2>1 DEF BatchMap, hwVars
    <3>. QED BY <1>1, <3>1, <3>2 DEF DrainInv, PollOK, PollMode
  <2>2. CASE BatchQueue
    <3>1. BatchSeq[1] \in Req
      BY <2>2, BatchType DEF BatchQueue
    <3>2. (\E x : pc' = [pc EXCEPT ![BatchSeq[1]] = x]) /\ UNCHANGED << svcQueued, armed, pnd >>
      BY <2>2 DEF BatchQueue, hwVars
    <3>3. pc'[Stp] = pc[Stp] /\ pc'[Svc] = pc[Svc]
      BY <3>1, <3>2 DEF TypeOK, ThreadType
    <3>. QED BY <1>1, <3>2, <3>3 DEF DrainInv, PollOK, PollMode
  <2>3. CASE KthCheck \/ KthWake
    <3>1. PollMode /\ (\E x : pc' = [pc EXCEPT ![Svc] = x]) /\ UNCHANGED << svcQueued, armed, pnd >>
      BY <2>3 DEF KthCheck, KthWake, hwVars
    <3>2. pc'[Stp] = pc[Stp]
      BY <3>1, PcStp
    <3>. QED BY <1>1, <3>1, <3>2 DEF DrainInv, PollOK, PollMode
  <2>4. CASE Hw
    BY <1>1, <2>4
       DEF Hw, HwExec, HwWriteback, IrqShared, thrVars, DrainInv, PollOK, PollMode, TypeOK, HwType
  <2>5. ASSUME NEW r \in Req, Call(r)
        PROVE  pc'[Stp] = pc[Stp] /\ PollOK'
    <3>1. (\E x : pc' = [pc EXCEPT ![r] = x]) /\ UNCHANGED << svcQueued, armed, pnd >>
      BY <2>5 DEF Call, Submit, SubmitNoMap, WaitWake, WaitFinish, hwVars
    <3>2. pc'[Stp] = pc[Stp] /\ pc'[Svc] = pc[Svc]
      BY <3>1 DEF TypeOK, ThreadType
    <3>. QED BY <1>1, <3>1, <3>2 DEF DrainInv, PollOK, PollMode
  <2>. QED BY <2>1, <2>2, <2>3, <2>4, <2>5
<1>3. Filling' <=> Filling
  BY <1>1 DEF Filling
<1>. QED BY <1>1, <1>2, <1>3, SectionFrame DEF DrainInv, WaitOK

LEMMA StopDrainInv ==
    ASSUME Inv, DrainInv, Stop \/ Drain \/ Start
    PROVE  DrainInv'
<1>. TypeOK /\ LockOK /\ StopOK /\ RingOK
  BY DEF Inv
<1>0. \A x : pc' = [pc EXCEPT ![Stp] = x] => pc'[Stp] = x /\ pc'[Svc] = pc[Svc]
  BY PcStp, ReqAssumption DEF TypeOK, ThreadType, Thread
<1>1. CASE StopBegin \/ StopWake \/ StopExpire
  <2>1. /\ UNCHANGED << at, ret, written, qState, pendEmpty, live, pidx, cidx, doorbell, mode,
                        svcQueued, armed, pnd >>
        /\ ~Filling /\ ~Filling' /\ qState = "ONLINE" /\ live /\ stopWait'
    BY <1>1 DEF StopBegin, StopWake, StopExpire, qVars, lockVars, hwVars, runVars, Filling,
                DrainInv, WaitOK, StopOK
  <2>2. pc'[Svc] = pc[Svc] /\ pc'[Stp] \in {"drained", "wait", "expired"}
    BY <1>0, <1>1 DEF StopBegin, StopWake, StopExpire
  <2>3. pc'[Stp] = "drained" => pidx = cidx
    <3>1. pc'[Stp] = "drained" => pendEmpty
      BY <1>0, <1>1 DEF StopBegin, StopWake, StopExpire, Drained
    <3>. QED BY <2>1, <3>1 DEF DrainInv, EmptyOK
  <2>4. HwInTime /\ pc'[Stp] = "expired" => pidx = cidx \/ PollMode
    <3>1. HwInTime /\ pc'[Stp] = "expired" => Quiet
      BY <1>0, <1>1 DEF StopBegin, StopWake, StopExpire
    <3>. QED BY <2>1, <3>1 DEF Quiet, DrainInv, RungOK, PollOK
  <2>. QED BY <2>1, <2>2, <2>3, <2>4
           DEF DrainInv, RungOK, EmptyOK, WaitOK, IdleOK, PollOK, PollMode
<1>2. CASE StopDrain
  <2>1. /\ UNCHANGED << pendEmpty, live, pidx, cidx, doorbell, mode, svcQueued, armed, pnd, pc >>
        /\ ~Filling /\ ~Filling' /\ qState' = "ENABLED" /\ stopWait' = FALSE
    BY <1>2 DEF StopDrain, hwVars, thrVars, runVars, Filling
  <2>. QED BY <2>1 DEF DrainInv, RungOK, EmptyOK, WaitOK, IdleOK, PollOK, PollMode
<1>3. CASE Drain
  <2>1. /\ UNCHANGED << pendEmpty, live, pidx, cidx, doorbell, mode, svcQueued, armed, pnd,
                        qState, stopWait >>
        /\ ~Filling /\ ~Filling' /\ qState = "ENABLED"
        /\ cur = Stp /\ pc[Stp] \in {"drained", "expired"}
    BY <1>3 DEF Drain, DrainPend, DrainNext, DrainWork, DrainEnd, Unlock, qVars, hwVars, thrVars,
                runVars, Filling, LockOK
  <2>2. pc' = pc \/ (pc'[Stp] = "teardown" /\ pc'[Svc] = pc[Svc])
    BY <1>0, <1>3, <2>1 DEF Drain, DrainPend, DrainNext, DrainWork, DrainEnd, Unlock, thrVars
  <2>. QED BY <2>1, <2>2 DEF DrainInv, RungOK, EmptyOK, WaitOK, IdleOK, PollOK, PollMode
<1>4. CASE Teardown
  <2>1. /\ UNCHANGED << at, ret, written, pendEmpty, pidx, cidx, mode, svcQueued, qState, stopWait >>
        /\ live' = FALSE /\ armed' = FALSE /\ pnd' = FALSE
        /\ pc[Stp] = "teardown" /\ pc'[Stp] = "idle" /\ pc'[Svc] = pc[Svc]
    BY <1>0, <1>4 DEF Teardown, lockVars, runVars
  <2>2. Filling' <=> Filling
    BY <2>1 DEF Filling
  <2>. QED BY <2>1, <2>2 DEF DrainInv, RungOK, EmptyOK, WaitOK, IdleOK, PollOK, PollMode
<1>5. CASE StartConfig
  <2>1. /\ UNCHANGED << at, ret, live, doorbell, mode, svcQueued, armed, pnd, stopWait, qState >>
        /\ pidx' = 0 /\ cidx' = 0 /\ ~live /\ ~Filling
        /\ pc'[Stp] = "prog" /\ pc'[Svc] = pc[Svc]
    BY <1>0, <1>5 DEF StartConfig, ResetIndices, lockVars, hwVars, StopOK, Filling
  <2>2. ~Filling'
    BY <2>1 DEF Filling
  <2>. QED BY <2>1, <2>2 DEF DrainInv, RungOK, EmptyOK, WaitOK, IdleOK, PollOK, PollMode
<1>6. CASE StartOnline
  <2>1. /\ UNCHANGED << at, ret, pendEmpty, pidx, cidx, mode, svcQueued, stopWait >>
        /\ pidx = 0 /\ cidx = 0 /\ doorbell' = 0 /\ live' /\ ~Filling
        /\ armed' = ~PollMode /\ pnd' = FALSE
        /\ pc'[Stp] = "idle" /\ pc'[Svc] = pc[Svc]
    BY <1>0, <1>6 DEF StartOnline, lockVars, runVars, StopOK, Filling
  <2>2. ~Filling'
    BY <2>1 DEF Filling
  <2>. QED BY <2>1, <2>2 DEF DrainInv, RungOK, EmptyOK, WaitOK, IdleOK, PollOK, PollMode
<1>7. CASE StartFail
  <2>1. /\ UNCHANGED << at, ret, written, pendEmpty, pidx, cidx, doorbell, live, mode, svcQueued,
                        armed, pnd, stopWait, qState >>
        /\ pc'[Stp] = "idle" /\ pc'[Svc] = pc[Svc]
    BY <1>0, <1>7 DEF StartFail, qVars, lockVars, hwVars, runVars
  <2>2. Filling' <=> Filling
    BY <2>1 DEF Filling
  <2>. QED BY <2>1, <2>2 DEF DrainInv, RungOK, EmptyOK, WaitOK, IdleOK, PollOK, PollMode
<1>. QED BY <1>1, <1>2, <1>3, <1>4, <1>5, <1>6, <1>7 DEF Stop, Start

LEMMA DrainStep ==
    ASSUME Inv, DrainInv, [Next]_vars
    PROVE  DrainInv'
<1>1. CASE UNCHANGED vars
  BY <1>1 DEF vars, qVars, lockVars, hwVars, thrVars, runVars,
              DrainInv, RungOK, EmptyOK, WaitOK, IdleOK, PollOK, PollMode, Filling
<1>. QED BY <1>1, SectionDrain, EntryDrain, CallDrain, StopDrainInv DEF Next, Holder, Service

LEMMA InitDrain == Init => DrainInv
<1> SUFFICES ASSUME Init PROVE DrainInv
  OBVIOUS
<1>1. pc[Stp] = "idle" /\ pc[Svc] = "idle"
  BY ReqAssumption DEF Init, Thread
<1>. QED BY <1>1 DEF Init, DrainInv, RungOK, EmptyOK, WaitOK, IdleOK, PollOK, Filling

(***************************************************************************)
(* The flag that the control thread waits for means what it is taken for.  *)
(***************************************************************************)
THEOREM DrainInvHolds == Spec => []DrainInv
<1>1. Inv /\ DrainInv /\ [Next]_vars => DrainInv'
  BY DrainStep
<1>. QED BY <1>1, InitDrain, InvHolds, PTL DEF Spec

(***************************************************************************)
(* A stop whose wait was satisfied takes the queue offline when the        *)
(* hardware has executed every descriptor (StopQuiesces), for any ring     *)
(* size, requests and mode.                                                *)
(***************************************************************************)
THEOREM StopsQuiet == Spec => StopQuiesces
<1>1. ASSUME Inv, DrainInv, [Next]_vars,
             qState = "ONLINE", qState' = "ENABLED", pc[Stp] = "drained"
      PROVE  hwc = doorbell
  <2>1. StopDrain
    BY <1>1 DEF Next, vars, qVars, Holder, Cmpl, CmplDone, CmplPart, CmplEnd, Loop, ProcFill,
                ProcFull, ProcRing, ProcExit, ProcStopExit, SvcCheck, Drain, DrainPend, DrainNext,
                DrainWork, DrainEnd, Service, SvcStart, KthCheck, KthWake, Hw, HwExec, HwWriteback,
                IrqShared, Stop, StopBegin, StopWake, StopExpire, Teardown, Start, StartConfig,
                StartOnline, StartFail, BatchMap, BatchQueue, Proc, ProcStopWait, ProcSkip,
                ProcBegin, Begin, Call, Submit, SubmitNoMap, WaitWake, WaitFinish
  <2>2. ~Filling /\ live /\ pidx = cidx
    BY <1>1, <2>1 DEF StopDrain, Filling, Inv, StopOK, DrainInv, IdleOK
  <2>3. doorbell = cidx
    BY <1>1, <2>2 DEF DrainInv, RungOK
  <2>4. Delta(hwc, cidx) <= Delta(doorbell, cidx) /\ hwc \in Slot /\ cidx \in Slot
    BY <1>1, <2>2 DEF Inv, RingOK, Chain, TypeOK, QueueType, HwType
  <2>. QED BY <2>3, <2>4, DeltaType, SizeFacts
<1>2. Inv /\ DrainInv /\ [Next]_vars =>
        [qState = "ONLINE" /\ qState' = "ENABLED" /\ pc[Stp] = "drained" => hwc = doorbell]_vars
  BY <1>1
<1>. QED BY <1>2, InvHolds, DrainInvHolds, PTL DEF Spec, StopQuiesces

(***************************************************************************)
(* An interrupt work that is still queued when the ring has been freed     *)
(* finds nothing outstanding and leaves the status page alone              *)
(* (StatusPageMapped), provided the drain only times out on a queue that   *)
(* the hardware and the service are done with (HwInTime).                  *)
(***************************************************************************)
THEOREM FreedPageUnread ==
    ASSUME HwInTime PROVE Spec => []StatusPageMapped
<1>1. DrainInv => StatusPageMapped
  BY DEF DrainInv, IdleOK, PollOK, StatusPageMapped
<1>. QED BY <1>1, DrainInvHolds, PTL

-----------------------------------------------------------------------------
(* Whose descriptor is where.  Positions are counted from cidx: a request  *)
(* on pend_list lies at f[r] .. f[r] + desc_nr - 1, the first one begins   *)
(* behind what has been reaped for it (-credit), the others follow one     *)
(* another up to e, and the first request of work_list has what is left.   *)

\* Descriptors between a and b that lie at h or behind.
Ahead(a, b, h) == IF b <= h THEN 0 ELSE IF a >= h THEN b - a ELSE b - h

Outstanding == Delta(pidx, cidx)
Executed    == Delta(hwc, cidx)
Begun       == IF work = <<>> THEN 0 ELSE descNr[work[1]]
End(f, r)   == f[r] + descNr[r]

Packed(f, e) ==
    /\ pend = <<>> => e + credit = 0
    /\ pend # <<>> => f[pend[1]] + credit = 0 /\ End(f, pend[Len(pend)]) = e
    /\ \A k \in 1 .. Len(pend) - 1 : f[pend[k + 1]] = End(f, pend[k])
    /\ \A j, k \in 1 .. Len(pend) : j < k => End(f, pend[j]) <= f[pend[k]]
    /\ \A k \in 1 .. Len(pend) : descNr[pend[k]] >= 0 /\ End(f, pend[k]) <= e
    /\ Begun >= 0 /\ Outstanding = e + Begun

\* Each slot not reaped yet holds a descriptor of the request that lies there.
Owned(f, e) ==
    \A i \in Slot : Delta(i, cidx) < Outstanding =>
        IF Delta(i, cidx) < e
        THEN /\ ring[i] \in Listed(pend)
             /\ f[ring[i]] <= Delta(i, cidx) /\ Delta(i, cidx) < End(f, ring[i])
        ELSE work # <<>> /\ ring[i] = work[1]

\* The hardware has executed of a request what does not lie ahead of it.
Moves(f, e) ==
    /\ \A r \in Listed(pend) : moved[r] = NDesc[r] - Ahead(f[r], End(f, r), Executed)
    /\ work # <<>> => moved[work[1]] = offset[work[1]] - Ahead(e, Outstanding, Executed)

LaidOut(f, e) == Packed(f, e) /\ Owned(f, e) /\ Moves(f, e)

layVars == <<pend, work, credit, descNr, pidx, cidx, ring, hwc, moved, offset>>

LayoutOK == qState = "ONLINE" => \E f \in [Req -> Int], e \in Int : LaidOut(f, e)

-----------------------------------------------------------------------------
(* The layout, operation by operation. *)

\* The indices and the counts as numbers.
LEMMA LayFacts ==
    ASSUME TypeOK
    PROVE  /\ Outstanding \in 0 .. RngSz - 1 /\ Executed \in 0 .. RngSz - 1
           /\ \A i \in Slot : Delta(i, cidx) \in 0 .. RngSz - 1
           /\ RngSz \in Nat /\ credit \in Nat /\ avail \in Nat /\ Begun \in Int
           /\ pend \in Seq(Req) /\ work \in Seq(Req)
           /\ Len(pend) \in Nat /\ Len(work) \in Nat
           /\ \A k \in 1 .. Len(pend) : pend[k] \in Req
           /\ \A k \in 1 .. Len(work) : work[k] \in Req
           /\ pend # <<>> => 1 \in 1 .. Len(pend) /\ Len(pend) \in 1 .. Len(pend)
           /\ work # <<>> => 1 \in 1 .. Len(work) /\ Len(work) \in 1 .. Len(work)
           /\ descNr \in [Req -> Int] /\ offset \in [Req -> Nat] /\ moved \in [Req -> Nat]
           /\ ring \in [Slot -> Req \cup {Nobody}]
           /\ pidx \in Slot /\ cidx \in Slot /\ hwc \in Slot /\ wb \in Slot /\ doorbell \in Slot
<1>1. pend \in Seq(Req) /\ work \in Seq(Req)
  BY DEF TypeOK, QueueType
<1>2. /\ Len(pend) \in Nat /\ Len(work) \in Nat
      /\ \A k \in 1 .. Len(pend) : pend[k] \in Req
      /\ \A k \in 1 .. Len(work) : work[k] \in Req
      /\ pend # <<>> => 1 \in 1 .. Len(pend) /\ Len(pend) \in 1 .. Len(pend)
      /\ work # <<>> => 1 \in 1 .. Len(work) /\ Len(work) \in 1 .. Len(work)
  BY <1>1
<1>3. pidx \in Slot /\ cidx \in Slot /\ hwc \in Slot /\ wb \in Slot /\ doorbell \in Slot
  BY DEF TypeOK, QueueType, HwType
<1>4. /\ Outstanding \in 0 .. RngSz - 1 /\ Executed \in 0 .. RngSz - 1
      /\ \A i \in Slot : Delta(i, cidx) \in 0 .. RngSz - 1
  BY <1>3, DeltaType DEF Outstanding, Executed
<1>5. Begun \in Int
  BY <1>2 DEF Begun, TypeOK, ReqType
<1>. QED
  BY <1>1, <1>2, <1>3, <1>4, <1>5, SizeFacts DEF TypeOK, QueueType, HwType, ReqType

LEMMA LaidFrame ==
    ASSUME NEW f, NEW e, LaidOut(f, e), UNCHANGED layVars
    PROVE  LaidOut(f, e)'
<1>1. Outstanding' = Outstanding /\ Executed' = Executed /\ Begun' = Begun
      /\ \A r : End(f, r)' = End(f, r)
  BY DEF layVars, Outstanding, Executed, Begun, End, Delta
<1>2. \A i : Delta(i, cidx)' = Delta(i, cidx)
  BY DEF layVars, Delta
<1>3. Packed(f, e)'
  BY <1>1 DEF LaidOut, Packed, layVars
<1>4. Owned(f, e)'
  BY <1>1, <1>2 DEF LaidOut, Owned, layVars, Listed
<1>5. Moves(f, e)'
  BY <1>1 DEF LaidOut, Moves, layVars, Listed
<1>. QED
  BY <1>3, <1>4, <1>5 DEF LaidOut

LEMMA LayoutFrame ==
    ASSUME LayoutOK, UNCHANGED layVars, qState' = "ONLINE" => qState = "ONLINE"
    PROVE  LayoutOK'
BY LaidFrame DEF LayoutOK

\* The positions move down as the consumer index moves up.
LEMMA LaidReap ==
    ASSUME TypeOK, NEW f \in [Req -> Int], NEW e \in Int, LaidOut(f, e), NEW next, Reap(next),
           live \/ pidx # cidx => Delta(wb, cidx) <= Executed /\ Executed <= Outstanding,
           UNCHANGED <<pend, work, descNr, pidx, ring, hwc, moved, offset>>
    PROVE  \E g \in [Req -> Int], d \in Int : LaidOut(g, d)'
<1>0. /\ Outstanding \in Int /\ Executed \in Int /\ credit \in Int /\ RngSz \in Nat /\ Begun \in Int
      /\ pidx \in Slot /\ cidx \in Slot /\ hwc \in Slot /\ wb \in Slot
  BY LayFacts
<1>3. /\ Len(pend) \in Nat /\ \A k \in 1 .. Len(pend) : pend[k] \in Req
      /\ pend # <<>> => 1 \in 1 .. Len(pend) /\ Len(pend) \in 1 .. Len(pend)
      /\ descNr \in [Req -> Int]
  BY LayFacts
<1>1. CASE pidx = cidx \/ wb = cidx
  <2>1. UNCHANGED <<cidx, credit>>
    BY <1>1 DEF Reap
  <2>2. LaidOut(f, e)'
    BY <2>1, LaidFrame DEF layVars
  <2>. QED
    BY <2>2
<1>2. CASE ~(pidx = cidx \/ wb = cidx)
  <2>0. PICK D \in Nat : D = Delta(wb, cidx)
    BY <1>0, LayFacts
  <2>. DEFINE g == [r \in Req |-> f[r] - D]
              d == e - D
  <2>1. cidx' = wb /\ credit' = credit + D /\ D <= Executed /\ Executed <= Outstanding
    BY <1>2, <2>0 DEF Reap
  <2>2. Outstanding' = Outstanding - D /\ Executed' = Executed - D
    <3>1. D <= Outstanding
      BY <1>0, <2>1
    <3>2. Delta(pidx, wb) = Outstanding - D /\ Delta(hwc, wb) = Executed - D
      BY <1>0, <2>0, <2>1, <3>1, DeltaSplit DEF Outstanding, Executed
    <3>. QED
      BY <2>1, <3>2 DEF Outstanding, Executed, Delta
  <2>3. \A i \in Slot : Delta(i, cidx)' = Delta(i, wb) /\ Delta(i, wb) \in Nat
    BY <1>0, <2>1, DeltaType, SizeFacts DEF Delta
  <2>4. ASSUME NEW i \in Slot, Delta(i, wb) < Outstanding - D
        PROVE  Delta(i, cidx) = Delta(i, wb) + D
    <3>1. Delta(i, wb) + D < RngSz
      <4>1. Outstanding <= RngSz - 1
        BY LayFacts
      <4>2. Delta(i, wb) \in Nat
        BY <2>3
      <4>. QED
        BY <1>0, <2>4, <4>1, <4>2
    <3>2. i \in 0 .. RngSz - 1 /\ wb \in 0 .. RngSz - 1 /\ cidx \in 0 .. RngSz - 1
      BY <1>0 DEF Slot
    <3>. QED
      BY <2>0, <3>1, <3>2, SizeFacts, SMTT(30) DEF Delta
  <2>5. \A r \in Req : /\ g[r] = f[r] - D /\ g[r] \in Int /\ End(f, r) \in Int
                       /\ End(g, r)' = End(f, r) - D
    BY <1>3 DEF End
  <2>6. Begun' = Begun
    BY DEF Begun
  <2>7. g \in [Req -> Int] /\ d \in Int
    BY DEF g
  <2>. HIDE DEF g
  <2>8. Packed(g, d)'
    <3>0. \A k \in 1 .. Len(pend) :
             /\ f[pend[k]] \in Int /\ End(f, pend[k]) \in Int
             /\ g[pend[k]] = f[pend[k]] - D /\ End(g, pend[k])' = End(f, pend[k]) - D
      BY <1>3, <2>5
    <3>1. /\ pend = <<>> => d + credit' = 0
          /\ pend # <<>> => g[pend[1]] + credit' = 0 /\ End(g, pend[Len(pend)])' = d
      <4>1. CASE pend = <<>>
        BY <1>0, <2>1, <4>1 DEF LaidOut, Packed
      <4>2. CASE pend # <<>>
        <5>1. f[pend[1]] + credit = 0 /\ End(f, pend[Len(pend)]) = e
          BY <4>2 DEF LaidOut, Packed
        <5>2. 1 \in 1 .. Len(pend) /\ Len(pend) \in 1 .. Len(pend) /\ pend[1] \in Req
          BY <1>3, <4>2
        <5>3. g[pend[1]] \in Int /\ g[pend[1]] = f[pend[1]] - D /\ f[pend[1]] \in Int
          BY <2>5, <5>2
        <5>4. g[pend[1]] + (credit + D) = 0
          BY <1>0, <5>1, <5>3
        <5>5. End(g, pend[Len(pend)])' = e - D
          BY <3>0, <5>1, <5>2
        <5>. QED
          BY <2>1, <4>2, <5>4, <5>5
      <4>. QED
        BY <4>1, <4>2
    <3>2. \A k \in 1 .. Len(pend) - 1 : g[pend[k + 1]] = End(g, pend[k])'
      <4>. TAKE k \in 1 .. Len(pend) - 1
      <4>1. k \in 1 .. Len(pend) /\ k + 1 \in 1 .. Len(pend) /\ f[pend[k + 1]] = End(f, pend[k])
        BY <1>3 DEF LaidOut, Packed
      <4>. QED
        BY <1>3, <2>5, <4>1
    <3>3. \A j, k \in 1 .. Len(pend) : j < k => End(g, pend[j])' <= g[pend[k]]
      <4>. TAKE j, k \in 1 .. Len(pend)
      <4>1. j < k => End(f, pend[j]) <= f[pend[k]]
        BY DEF LaidOut, Packed
      <4>. QED
        BY <3>0, <4>1
    <3>4. \A k \in 1 .. Len(pend) : descNr[pend[k]] >= 0 /\ End(g, pend[k])' <= d
      <4>. TAKE k \in 1 .. Len(pend)
      <4>1. descNr[pend[k]] >= 0 /\ End(f, pend[k]) <= e
        BY DEF LaidOut, Packed
      <4>. QED
        BY <3>0, <4>1
    <3>5. Begun' >= 0 /\ Outstanding' = d + Begun'
      BY <1>0, <2>2, <2>6 DEF LaidOut, Packed
    <3>. QED
      BY <3>1, <3>2, <3>3, <3>4, <3>5 DEF Packed
  <2>9. Owned(g, d)'
    <3>. SUFFICES ASSUME NEW i \in Slot, Delta(i, wb) < Outstanding - D
                  PROVE  IF Delta(i, wb) < d
                         THEN /\ ring[i] \in Listed(pend)
                              /\ g[ring[i]] <= Delta(i, wb) /\ Delta(i, wb) < End(g, ring[i])'
                         ELSE work # <<>> /\ ring[i] = work[1]
      BY <2>2, <2>3 DEF Owned, Listed
    <3>1. Delta(i, cidx) = Delta(i, wb) + D /\ Delta(i, wb) \in Nat
      BY <2>3, <2>4
    <3>2. Delta(i, cidx) < Outstanding /\ (Delta(i, cidx) < e <=> Delta(i, wb) < d)
      BY <1>0, <3>1
    <3>3. CASE Delta(i, wb) < d
      <4>1. /\ ring[i] \in Listed(pend)
            /\ f[ring[i]] <= Delta(i, cidx) /\ Delta(i, cidx) < End(f, ring[i])
        BY <3>2, <3>3 DEF LaidOut, Owned
      <4>2. ring[i] \in Req
        BY <1>3, <4>1 DEF Listed
      <4>. QED
        BY <2>5, <3>1, <3>3, <4>1, <4>2
    <3>4. CASE ~(Delta(i, wb) < d)
      BY <3>2, <3>4 DEF LaidOut, Owned
    <3>. QED
      BY <3>3, <3>4
  <2>10. Moves(g, d)'
    <3>1. \A r \in Listed(pend) :
             Ahead(g[r], End(g, r)', Executed') = Ahead(f[r], End(f, r), Executed)
      <4>. TAKE r \in Listed(pend)
      <4>1. r \in Req
        BY <1>3 DEF Listed
      <4>. QED
        BY <1>0, <2>2, <2>5, <4>1 DEF Ahead
    <3>2. Ahead(d, Outstanding', Executed') = Ahead(e, Outstanding, Executed)
      BY <1>0, <2>2 DEF Ahead
    <3>. QED
      BY <3>1, <3>2 DEF LaidOut, Moves, Ahead, Listed
  <2>. QED
    BY <2>7, <2>8, <2>9, <2>10 DEF LaidOut
<1>. QED
  BY <1>1, <1>2

\* A slot of a listed request lies between the consumer index and e.
LEMMA PackedFacts ==
    ASSUME TypeOK, NEW f \in [Req -> Int], NEW e \in Int, Packed(f, e),
           NEW k \in 1 .. Len(pend)
    PROVE  /\ pend[k] \in Req /\ f[pend[k]] \in Int /\ descNr[pend[k]] \in Nat
           /\ End(f, pend[k]) = f[pend[k]] + descNr[pend[k]]
           /\ End(f, pend[k]) \in Int /\ End(f, pend[k]) <= e
<1>1. pend[k] \in Req /\ descNr \in [Req -> Int]
  BY LayFacts
<1>2. descNr[pend[k]] >= 0 /\ End(f, pend[k]) <= e
  BY DEF Packed
<1>. QED
  BY <1>1, <1>2 DEF End

\* A covered request leaves the front of the ring, executed.
LEMMA LaidDone ==
    ASSUME Inv, AnswerInv, NEW f \in [Req -> Int], NEW e \in Int, LaidOut(f, e), CmplDone
    PROVE  LaidOut(f, e)' /\ moved[Head(pend)] = NDesc[Head(pend)]
<1>. TypeOK
  BY DEF Inv
<1>. DEFINE r == Head(pend)
<1>1. /\ pend # <<>> /\ credit' = credit - descNr[r] /\ pend' = Tail(pend)
      /\ credit >= descNr[r]
      /\ UNCHANGED <<work, descNr, pidx, cidx, ring, hwc, moved, offset>>
  BY DEF CmplDone, SgtReqDone, Covered, hwVars
<1>2. /\ r = pend[1] /\ 1 \in 1 .. Len(pend) /\ Len(pend) \in 1 .. Len(pend) /\ Len(pend) \in Nat
      /\ Len(pend') = Len(pend) - 1 /\ \A k \in 1 .. Len(pend') : pend'[k] = pend[k + 1]
      /\ \A k \in 1 .. Len(pend') : k + 1 \in 1 .. Len(pend)
  BY <1>1, LayFacts
<1>3. credit \in Nat /\ Executed \in Nat /\ Begun \in Int
  BY LayFacts
<1>4. f[r] + credit = 0 /\ f[r] \in Int /\ End(f, r) = f[r] + descNr[r] /\ r \in Req
      /\ descNr[r] \in Nat /\ End(f, r) \in Int
  BY <1>1, <1>2, PackedFacts DEF LaidOut, Packed
<1>5. End(f, r) + credit' = 0 /\ End(f, r) <= 0
  BY <1>1, <1>3, <1>4
<1>6. /\ Outstanding' = Outstanding /\ Executed' = Executed /\ Begun' = Begun
      /\ \A q : End(f, q)' = End(f, q)
  BY <1>1 DEF Outstanding, Executed, Begun, End, Delta
<1>7. \A i : Delta(i, cidx)' = Delta(i, cidx)
  BY <1>1 DEF Delta
<1>. HIDE DEF r
<1>8. Listed(pend)' = Listed(pend) \ {r}
  BY <1>1, TailListed DEF AnswerInv, ListsOK, TypeOK, QueueType, r
<1>9. Packed(f, e)'
  <2>1. pend' = <<>> => e + credit' = 0
    <3>. SUFFICES ASSUME pend' = <<>> PROVE e + credit' = 0
      OBVIOUS
    <3>1. Len(pend) = 1
      BY <1>2
    <3>2. End(f, pend[Len(pend)]) = e
      BY <1>1 DEF LaidOut, Packed
    <3>. QED BY <1>2, <1>5, <3>1, <3>2
  <2>2. pend' # <<>> => f[pend'[1]] + credit' = 0 /\ End(f, pend'[Len(pend')]) = e
    <3>. SUFFICES ASSUME pend' # <<>>
                  PROVE  f[pend'[1]] + credit' = 0 /\ End(f, pend'[Len(pend')]) = e
      OBVIOUS
    <3>1. 1 \in 1 .. Len(pend') /\ Len(pend') \in 1 .. Len(pend')
      <4>1. pend' \in Seq(Req)
        BY <1>1 DEF TypeOK, QueueType
      <4>. QED BY <4>1
    <3>2. pend'[1] = pend[2] /\ pend'[Len(pend')] = pend[Len(pend)] /\ 1 \in 1 .. Len(pend) - 1
      BY <1>2, <3>1
    <3>3. f[pend[1 + 1]] = End(f, pend[1]) /\ End(f, pend[Len(pend)]) = e
      BY <1>1, <3>2 DEF LaidOut, Packed
    <3>. QED BY <1>2, <1>5, <3>2, <3>3
  <2>3. \A k \in 1 .. Len(pend') - 1 : f[pend'[k + 1]] = End(f, pend'[k])
    <3>. TAKE k \in 1 .. Len(pend') - 1
    <3>1. k + 1 \in 1 .. Len(pend) - 1 /\ k \in 1 .. Len(pend') /\ k + 1 \in 1 .. Len(pend')
      BY <1>2
    <3>2. f[pend[(k + 1) + 1]] = End(f, pend[k + 1])
      BY <3>1 DEF LaidOut, Packed
    <3>. QED BY <1>2, <3>1, <3>2
  <2>4. \A j, k \in 1 .. Len(pend') : j < k => End(f, pend'[j]) <= f[pend'[k]]
    <3>. TAKE j, k \in 1 .. Len(pend')
    <3>1. j + 1 \in 1 .. Len(pend) /\ k + 1 \in 1 .. Len(pend)
      BY <1>2
    <3>2. j + 1 < k + 1 => End(f, pend[j + 1]) <= f[pend[k + 1]]
      BY <3>1 DEF LaidOut, Packed
    <3>. QED BY <1>2, <3>2
  <2>5. \A k \in 1 .. Len(pend') : descNr[pend'[k]] >= 0 /\ End(f, pend'[k]) <= e
    BY <1>2 DEF LaidOut, Packed
  <2>6. Begun >= 0 /\ Outstanding = e + Begun
    BY DEF LaidOut, Packed
  <2>. QED BY <1>1, <1>6, <2>1, <2>2, <2>3, <2>4, <2>5, <2>6 DEF Packed
<1>10. Owned(f, e)'
  <2>. SUFFICES ASSUME NEW i \in Slot, Delta(i, cidx) < Outstanding
                PROVE  IF Delta(i, cidx) < e
                       THEN /\ ring[i] \in Listed(pend) \ {r}
                            /\ f[ring[i]] <= Delta(i, cidx) /\ Delta(i, cidx) < End(f, ring[i])
                       ELSE work # <<>> /\ ring[i] = work[1]
    BY <1>1, <1>6, <1>7, <1>8 DEF Owned
  <2>1. CASE Delta(i, cidx) < e
    <3>1. /\ ring[i] \in Listed(pend)
          /\ f[ring[i]] <= Delta(i, cidx) /\ Delta(i, cidx) < End(f, ring[i])
      BY <2>1 DEF LaidOut, Owned
    <3>2. Delta(i, cidx) \in Nat
      BY LayFacts
    <3>3. ring[i] # r
      BY <1>4, <1>5, <3>1, <3>2
    <3>. QED BY <2>1, <3>1, <3>3
  <2>2. CASE ~(Delta(i, cidx) < e)
    BY <2>2 DEF LaidOut, Owned
  <2>. QED BY <2>1, <2>2
<1>11. Moves(f, e)'
  BY <1>1, <1>6, <1>8 DEF LaidOut, Moves
<1>12. moved[r] = NDesc[r]
  <2>1. r \in Listed(pend)
    BY <1>2 DEF Listed
  <2>2. Ahead(f[r], End(f, r), Executed) = 0
    BY <1>3, <1>4, <1>5 DEF Ahead
  <2>3. moved[r] = NDesc[r] - 0
    BY <2>1, <2>2 DEF LaidOut, Moves
  <2>. QED BY <1>4, <2>3, SizeFacts
<1>. QED
  BY <1>9, <1>10, <1>11, <1>12 DEF LaidOut, r

\* The rest of a request covered in part begins at the consumer index.
LEMMA LaidPart ==
    ASSUME Inv, AnswerInv, NEW f \in [Req -> Int], NEW e \in Int, LaidOut(f, e), CmplPart
    PROVE  \E g \in [Req -> Int] : LaidOut(g, e)'
<1>. TypeOK
  BY DEF Inv
<1>0. PICK r \in Req : pend # <<>> => r = Head(pend)
  <2>1. pend # <<>> /\ pend \in Seq(Req)
    BY DEF CmplPart, TypeOK, QueueType
  <2>2. Head(pend) \in Req
    BY <2>1
  <2>. QED BY <2>2
<1>. DEFINE g == [f EXCEPT ![r] = 0]
<1>1. /\ pend # <<>> /\ credit' = 0 /\ descNr' = [descNr EXCEPT ![r] = @ - credit]
      /\ credit > 0 /\ ~(credit >= descNr[r])
      /\ UNCHANGED <<pend, work, pidx, cidx, ring, hwc, moved, offset>>
  BY <1>0 DEF CmplPart, Covered, hwVars
<1>2. /\ r = pend[1] /\ 1 \in 1 .. Len(pend) /\ Len(pend) \in 1 .. Len(pend) /\ Len(pend) \in Nat
      /\ work # <<>> => 1 \in 1 .. Len(work) /\ work[1] \in Req
  BY <1>0, <1>1, LayFacts
<1>3. credit \in Nat /\ Executed \in Nat /\ Begun \in Int /\ descNr \in [Req -> Int]
  BY LayFacts
<1>4. f[r] + credit = 0 /\ f[r] \in Int /\ End(f, r) = f[r] + descNr[r] /\ r \in Req
      /\ descNr[r] \in Nat /\ End(f, r) \in Int
  BY <1>1, <1>2, PackedFacts DEF LaidOut, Packed
<1>5. /\ g \in [Req -> Int] /\ g[r] = 0 /\ \A q \in Req : q # r => g[q] = f[q]
      /\ descNr'[r] = descNr[r] - credit /\ \A q \in Req : q # r => descNr'[q] = descNr[q]
  BY <1>1, <1>3, <1>4 DEF g
<1>. HIDE DEF g
<1>6. \A q \in Req : End(g, q)' = End(f, q)
  <2>1. \A q \in Req : End(g, q)' = g[q] + descNr'[q] /\ End(f, q) = f[q] + descNr[q]
    BY DEF End
  <2>2. g[r] + descNr'[r] = f[r] + descNr[r]
    BY <1>3, <1>4, <1>5
  <2>. QED BY <1>5, <2>1, <2>2
<1>7. work # <<>> => work[1] # r
  <2>1. r \in Listed(pend) /\ (work # <<>> => work[1] \in Listed(work))
    BY <1>2 DEF Listed
  <2>. QED BY <2>1 DEF AnswerInv, ListsOK
<1>8. /\ Outstanding' = Outstanding /\ Executed' = Executed
      /\ \A i : Delta(i, cidx)' = Delta(i, cidx)
  BY <1>1 DEF Outstanding, Executed, Delta
<1>9. Begun' = Begun
  BY <1>1, <1>2, <1>5, <1>7 DEF Begun
<1>10. \A k \in 1 .. Len(pend) : pend[k] \in Req /\ (k # 1 => pend[k] # r)
  <2>1. \A k \in 1 .. Len(pend) : pend[k] \in Req
    BY LayFacts
  <2>. QED BY <1>2, <2>1 DEF AnswerInv, ListsOK, NoRepeat
<1>11. Packed(g, e)'
  <2>1. g[pend[1]] + credit' = 0 /\ End(g, pend[Len(pend)])' = e
    <3>1. End(f, pend[Len(pend)]) = e
      BY <1>1 DEF LaidOut, Packed
    <3>2. End(g, pend[Len(pend)])' = End(f, pend[Len(pend)])
      BY <1>1, <1>2, <1>6, <1>10
    <3>3. g[pend[1]] + credit' = 0
      <4>1. credit' = 0 /\ credit' \in Int
        BY <1>1
      <4>2. g[pend[1]] = 0
        BY <1>2, <1>5
      <4>. QED BY <4>1, <4>2
    <3>4. End(g, pend[Len(pend)])' = e
      BY <3>1, <3>2
    <3>. QED BY <3>3, <3>4
  <2>2. \A k \in 1 .. Len(pend) - 1 : g[pend[k + 1]] = End(g, pend[k])'
    <3>. TAKE k \in 1 .. Len(pend) - 1
    <3>1. k \in 1 .. Len(pend) /\ k + 1 \in 1 .. Len(pend) /\ k + 1 # 1
      BY <1>2
    <3>2. f[pend[k + 1]] = End(f, pend[k])
      BY DEF LaidOut, Packed
    <3>. QED BY <1>1, <1>5, <1>6, <1>10, <3>1, <3>2
  <2>3. \A j, k \in 1 .. Len(pend) : j < k => End(g, pend[j])' <= g[pend[k]]
    <3>. TAKE j, k \in 1 .. Len(pend)
    <3>1. j < k => End(f, pend[j]) <= f[pend[k]] /\ k # 1
      BY DEF LaidOut, Packed
    <3>. QED BY <1>1, <1>5, <1>6, <1>10, <3>1
  <2>4. \A k \in 1 .. Len(pend) : descNr'[pend[k]] >= 0 /\ End(g, pend[k])' <= e
    <3>. TAKE k \in 1 .. Len(pend)
    <3>1. descNr[pend[k]] \in Nat /\ End(f, pend[k]) <= e /\ pend[k] \in Req
      BY PackedFacts DEF LaidOut
    <3>2. descNr'[pend[k]] >= 0
      <4>1. CASE pend[k] = r
        BY <1>1, <1>3, <1>4, <1>5, <4>1
      <4>2. CASE pend[k] # r
        BY <1>5, <3>1, <4>2
      <4>. QED BY <4>1, <4>2
    <3>. QED BY <1>1, <1>6, <3>1, <3>2
  <2>5. Begun >= 0 /\ Outstanding = e + Begun
    BY DEF LaidOut, Packed
  <2>. QED BY <1>1, <1>8, <1>9, <2>1, <2>2, <2>3, <2>4, <2>5 DEF Packed
<1>12. Owned(g, e)'
  <2>. SUFFICES ASSUME NEW i \in Slot, Delta(i, cidx) < Outstanding
                PROVE  IF Delta(i, cidx) < e
                       THEN /\ ring[i] \in Listed(pend)
                            /\ g[ring[i]] <= Delta(i, cidx) /\ Delta(i, cidx) < End(g, ring[i])'
                       ELSE work # <<>> /\ ring[i] = work[1]
    BY <1>1, <1>8 DEF Owned, Listed
  <2>1. CASE Delta(i, cidx) < e
    <3>1. /\ ring[i] \in Listed(pend)
          /\ f[ring[i]] <= Delta(i, cidx) /\ Delta(i, cidx) < End(f, ring[i])
      BY <2>1 DEF LaidOut, Owned
    <3>2. Delta(i, cidx) \in Nat
      BY LayFacts
    <3>3. ring[i] \in Req
      BY <1>10, <3>1 DEF Listed
    <3>4. g[ring[i]] <= Delta(i, cidx)
      <4>1. CASE ring[i] = r
        BY <1>5, <3>2, <4>1
      <4>2. CASE ring[i] # r
        BY <1>5, <3>1, <3>3, <4>2
      <4>. QED BY <4>1, <4>2
    <3>5. End(g, ring[i])' = End(f, ring[i])
      BY <1>1, <1>6, <3>3
    <3>. QED BY <2>1, <3>1, <3>4, <3>5
  <2>2. CASE ~(Delta(i, cidx) < e)
    BY <2>2 DEF LaidOut, Owned
  <2>. QED BY <2>1, <2>2
<1>13. Moves(g, e)'
  <2>1. \A q \in Listed(pend) : Ahead(g[q], End(g, q)', Executed) = Ahead(f[q], End(f, q), Executed)
    <3>. TAKE q \in Listed(pend)
    <3>1. q \in Req
      BY <1>10 DEF Listed
    <3>2. CASE q = r
      BY <1>1, <1>3, <1>4, <1>5, <1>6, <3>2 DEF Ahead
    <3>3. CASE q # r
      BY <1>5, <1>6, <3>1, <3>3
    <3>. QED BY <3>2, <3>3
  <2>. QED BY <1>1, <1>8, <2>1 DEF LaidOut, Moves, Listed, Ahead
<1>. QED
  BY <1>5, <1>11, <1>12, <1>13 DEF LaidOut

\* Nothing has been written for r yet.
Untouched(r) == offset[r] = 0 /\ descNr[r] = 0 /\ moved[r] = 0

\* That holds of what is not submitted, and of what waits behind the first
\* request of work_list.
WorkFresh == /\ \A r \in Req : Unsent(r) => Untouched(r)
             /\ qState = "ONLINE" => \A k \in 2 .. Len(work) : Untouched(work[k])

\* The slots that n more descriptors take are those from the producer index on.
LEMMA DeltaWindow ==
    ASSUME NEW i \in Slot, NEW p \in Slot, NEW c \in Slot, NEW n \in Nat,
           Delta(p, c) + n < RngSz, Delta(i, c) < Delta(p, c) + n
    PROVE  Delta(i, p) < n <=> Delta(i, c) >= Delta(p, c)
BY SizeFacts DEF Delta, Slot

LEMMA AheadGrows ==
    ASSUME NEW a \in Int, NEW b \in Int, NEW h \in Int, NEW n \in Nat, a <= b, h <= b
    PROVE  Ahead(a, b + n, h) = Ahead(a, b, h) + n
BY DEF Ahead

\* The hardware is not ahead of the writer.
LEMMA ExecutedFits ==
    ASSUME Inv, live \/ pidx # cidx
    PROVE  /\ Delta(wb, cidx) <= Executed
           /\ Executed <= Delta(doorbell, cidx) /\ Delta(doorbell, cidx) <= Outstanding
           /\ Delta(wb, cidx) \in Nat /\ Delta(doorbell, cidx) \in Nat
           /\ Executed \in Nat /\ Outstanding \in Nat
<1>1. TypeOK /\ Chain
  BY DEF Inv, RingOK
<1>2. wb \in Slot /\ doorbell \in Slot /\ cidx \in Slot
  BY <1>1 DEF TypeOK, QueueType, HwType
<1>3. Delta(wb, cidx) \in Nat /\ Delta(doorbell, cidx) \in Nat
  BY <1>2, DeltaType, SizeFacts
<1>4. Executed \in Nat /\ Outstanding \in Nat
  BY <1>1, LayFacts
<1>. QED BY <1>1, <1>3, <1>4 DEF Chain, Executed, Outstanding

\* What one turn of the writing loop does to the ring.
LEMMA FillRing ==
    ASSUME Inv, ProcFill,
           NEW r, r = Head(work),
           NEW n, n = Lesser(avail, NDesc[r] - offset[r])
    PROVE  /\ r \in Req /\ n \in Nat /\ r = work[1] /\ work # <<>>
           /\ Outstanding' = Outstanding + n /\ Executed' = Executed
           /\ \A i : Delta(i, cidx)' = Delta(i, cidx)
           /\ \A i \in Slot : Delta(i, cidx) < Outstanding + n =>
                 ring'[i] = IF Delta(i, cidx) < Outstanding THEN ring[i] ELSE r
           /\ descNr' = [descNr EXCEPT ![r] = @ + n]
           /\ offset' = [offset EXCEPT ![r] = @ + n]
           /\ offset[r] + n <= NDesc[r]
           /\ IF offset[r] + n >= NDesc[r]
              THEN work' = RemoveAt(work, 1) /\ pend' = Append(pend, r)
              ELSE UNCHANGED <<work, pend>>
           /\ Executed <= Outstanding /\ qState = "ONLINE"
           /\ UNCHANGED <<cidx, credit, hwc, moved, qState>>
<1>1. TypeOK
  BY DEF Inv
<1>2. /\ r \in Req /\ n \in Nat /\ n <= avail /\ offset[r] + n <= NDesc[r]
      /\ Delta(Incr(pidx, n), cidx) = Delta(pidx, cidx) + n
  BY FillFacts
<1>3. /\ ring' = [i \in Slot |-> IF Delta(i, pidx) < n THEN r ELSE ring[i]]
      /\ pidx' = Incr(pidx, n) /\ work # <<>>
      /\ descNr' = [descNr EXCEPT ![r] = @ + n]
      /\ offset' = [offset EXCEPT ![r] = @ + n]
      /\ IF offset[r] + n >= NDesc[r]
         THEN work' = RemoveAt(work, 1) /\ pend' = Append(pend, r)
         ELSE UNCHANGED <<work, pend>>
      /\ UNCHANGED <<cidx, credit, hwc, moved, qState>>
  BY DEF ProcFill, WorkDel
<1>4. pidx \in Slot /\ cidx \in Slot /\ avail \in Nat
  BY <1>1, LayFacts
<1>5. Outstanding' = Outstanding + n /\ Executed' = Executed
      /\ \A i : Delta(i, cidx)' = Delta(i, cidx)
  BY <1>2, <1>3 DEF Outstanding, Executed, Delta
<1>6. Delta(pidx, cidx) + n < RngSz
  <2>1. avail + Delta(pidx, cidx) = RngSz - 1 /\ Delta(pidx, cidx) \in Nat
    BY <1>4, DeltaType, SizeFacts DEF Inv, RingOK
  <2>. QED BY <1>2, <1>4, <2>1, SizeFacts
<1>7. ASSUME NEW i \in Slot, Delta(i, cidx) < Outstanding + n
      PROVE  ring'[i] = IF Delta(i, cidx) < Outstanding THEN ring[i] ELSE r
  <2>1. Delta(i, pidx) < n <=> Delta(i, cidx) >= Outstanding
    BY <1>2, <1>4, <1>6, <1>7, DeltaWindow DEF Outstanding
  <2>2. Delta(i, cidx) \in Int /\ Outstanding \in Int
    BY <1>1, LayFacts
  <2>. QED BY <1>3, <2>1, <2>2
<1>8. qState = "ONLINE" /\ live
  BY DEF Inv, LockOK, StopOK, Writing, ProcFill
<1>9. Executed <= Outstanding
  BY <1>8, ExecutedFits
<1>10. r = work[1]
  BY <1>1, <1>3 DEF TypeOK, QueueType
<1>. QED
  BY <1>2, <1>3, <1>5, <1>7, <1>8, <1>9, <1>10

\* A request that is not written to its end stays the first of work_list.
LEMMA LaidFillMore ==
    ASSUME Inv, AnswerInv, NEW f \in [Req -> Int], NEW e \in Int, LaidOut(f, e), ProcFill,
           NEW r \in Req, r = Head(work),
           NEW n \in Nat, n = Lesser(avail, NDesc[r] - offset[r]), offset[r] + n < NDesc[r]
    PROVE  LaidOut(f, e)'
<1>. TypeOK
  BY DEF Inv
<1>1. /\ r = work[1] /\ work # <<>>
      /\ Outstanding' = Outstanding + n /\ Executed' = Executed
      /\ \A i : Delta(i, cidx)' = Delta(i, cidx)
      /\ descNr' = [descNr EXCEPT ![r] = @ + n]
      /\ offset' = [offset EXCEPT ![r] = @ + n]
      /\ Executed <= Outstanding
      /\ UNCHANGED <<cidx, credit, hwc, moved>>
  BY FillRing
<1>2. \A i \in Slot : Delta(i, cidx) < Outstanding + n =>
                 ring'[i] = IF Delta(i, cidx) < Outstanding THEN ring[i] ELSE r
  BY FillRing
<1>3. UNCHANGED <<work, pend>>
  <2>1. offset[r] \in Nat /\ NDesc[r] \in Nat
    BY SizeFacts DEF TypeOK, ReqType
  <2>. QED BY <2>1, FillRing
<1>4. /\ descNr \in [Req -> Int] /\ offset \in [Req -> Nat] /\ Len(pend) \in Nat
      /\ \A k \in 1 .. Len(pend) : pend[k] \in Req
      /\ 1 \in 1 .. Len(work) /\ Begun \in Int /\ Outstanding \in Nat /\ Executed \in Nat
      /\ pend # <<>> => 1 \in 1 .. Len(pend) /\ Len(pend) \in 1 .. Len(pend)
  <2>1. Outstanding \in Nat /\ Executed \in Nat
    BY LayFacts
  <2>2. work # <<>>
    BY <1>1
  <2>. QED BY <2>1, <2>2, LayFacts
<1>5. r \notin Listed(pend) /\ \A k \in 1 .. Len(pend) : pend[k] # r
  <2>1. r \in Listed(work)
    BY <1>1, <1>4 DEF Listed
  <2>2. r \notin Listed(pend)
    BY <2>1 DEF AnswerInv, ListsOK
  <2>. QED BY <2>2 DEF Listed
<1>6. \A q \in Req : q # r => End(f, q)' = End(f, q)
  BY <1>1, <1>4 DEF End
<1>7. Begun = descNr[r] /\ Begun' = Begun + n /\ descNr'[r] = descNr[r] + n /\ offset'[r] = offset[r] + n
  BY <1>1, <1>3, <1>4 DEF Begun
<1>8. Begun >= 0 /\ Outstanding = e + Begun /\ e <= Outstanding
  <2>1. Begun >= 0 /\ Outstanding = e + Begun
    BY DEF LaidOut, Packed
  <2>. QED BY <1>4, <2>1
<1>9. Packed(f, e)'
  <2>1. /\ pend = <<>> => e + credit = 0
        /\ pend # <<>> => f[pend[1]] + credit = 0 /\ End(f, pend[Len(pend)])' = e
    BY <1>3, <1>4, <1>5, <1>6 DEF LaidOut, Packed
  <2>2. \A k \in 1 .. Len(pend) - 1 : f[pend[k + 1]] = End(f, pend[k])'
    <3>. TAKE k \in 1 .. Len(pend) - 1
    <3>1. k \in 1 .. Len(pend) /\ f[pend[k + 1]] = End(f, pend[k])
      BY <1>4 DEF LaidOut, Packed
    <3>. QED BY <1>3, <1>4, <1>5, <1>6, <3>1
  <2>3. \A j, k \in 1 .. Len(pend) : j < k => End(f, pend[j])' <= f[pend[k]]
    <3>. TAKE j, k \in 1 .. Len(pend)
    <3>1. j < k => End(f, pend[j]) <= f[pend[k]]
      BY DEF LaidOut, Packed
    <3>. QED BY <1>3, <1>4, <1>5, <1>6, <3>1
  <2>4. \A k \in 1 .. Len(pend) : descNr'[pend[k]] >= 0 /\ End(f, pend[k])' <= e
    <3>. TAKE k \in 1 .. Len(pend)
    <3>1. descNr[pend[k]] >= 0 /\ End(f, pend[k]) <= e
      BY DEF LaidOut, Packed
    <3>2. descNr'[pend[k]] = descNr[pend[k]] /\ End(f, pend[k])' = End(f, pend[k])
      BY <1>1, <1>3, <1>4, <1>5, <1>6
    <3>. QED BY <3>1, <3>2
  <2>5. Begun' >= 0 /\ Outstanding' = e + Begun'
    <3>1. Begun' = Begun + n /\ Outstanding' = Outstanding + n
      BY <1>1, <1>7
    <3>2. Begun \in Int /\ Outstanding \in Int
      BY <1>4
    <3>. QED BY <1>8, <3>1, <3>2
  <2>. QED BY <1>1, <1>3, <2>1, <2>2, <2>3, <2>4, <2>5 DEF Packed
<1>10. Owned(f, e)'
  <2>. SUFFICES ASSUME NEW i \in Slot, Delta(i, cidx) < Outstanding + n
                PROVE  IF Delta(i, cidx) < e
                       THEN /\ ring'[i] \in Listed(pend)
                            /\ f[ring'[i]] <= Delta(i, cidx) /\ Delta(i, cidx) < End(f, ring[i])'
                       ELSE work # <<>> /\ ring'[i] = work[1]
    BY <1>1, <1>3 DEF Owned, Listed
  <2>0. Delta(i, cidx) \in Nat
    BY LayFacts
  <2>1. CASE Delta(i, cidx) < e
    <3>1. Delta(i, cidx) < Outstanding
      BY <1>4, <1>8, <2>0, <2>1
    <3>2. /\ ring[i] \in Listed(pend) /\ ring'[i] = ring[i]
          /\ f[ring[i]] <= Delta(i, cidx) /\ Delta(i, cidx) < End(f, ring[i])
      BY <1>2, <2>1, <3>1 DEF LaidOut, Owned
    <3>3. ring[i] \in Req /\ ring[i] # r
      BY <1>4, <1>5, <3>2 DEF Listed
    <3>4. End(f, ring[i])' = End(f, ring[i])
      BY <1>6, <3>2, <3>3
    <3>. QED BY <2>1, <3>2, <3>4
  <2>2. CASE ~(Delta(i, cidx) < e)
    <3>1. Delta(i, cidx) < Outstanding => ring[i] = work[1]
      BY <2>2 DEF LaidOut, Owned
    <3>. QED BY <1>1, <1>2, <2>2, <3>1
  <2>. QED BY <2>1, <2>2
<1>11. Moves(f, e)'
  <2>1. \A q \in Listed(pend) : q \in Req /\ End(f, q)' = End(f, q)
    BY <1>4, <1>5, <1>6 DEF Listed
  <2>2. Ahead(e, Outstanding', Executed') = Ahead(e, Outstanding, Executed) + n
    BY <1>1, <1>4, <1>8, AheadGrows
  <2>3. moved[work[1]] = offset'[work[1]] - Ahead(e, Outstanding, Executed)'
    <3>1. moved[work[1]] = offset[work[1]] - Ahead(e, Outstanding, Executed)
      BY <1>1 DEF LaidOut, Moves
    <3>2. Ahead(e, Outstanding, Executed)' = Ahead(e, Outstanding', Executed')
      BY DEF Ahead
    <3>3. Ahead(e, Outstanding, Executed) \in Int
      BY <1>4 DEF Ahead
    <3>4. offset[r] \in Int
      BY <1>4
    <3>. QED BY <1>1, <1>7, <2>2, <3>1, <3>2, <3>3, <3>4
  <2>4. \A q \in Listed(pend) : moved[q] = NDesc[q] - Ahead(f[q], End(f, q), Executed)
    BY DEF LaidOut, Moves
  <2>5. \A q \in Listed(pend) : moved'[q] = NDesc[q] - Ahead(f[q], End(f, q)', Executed')
    BY <1>1, <2>1, <2>4
  <2>. QED BY <1>1, <1>3, <2>3, <2>5 DEF Moves, Listed, Ahead
<1>. QED
  BY <1>9, <1>10, <1>11 DEF LaidOut

LEMMA RemoveAtElements ==
    ASSUME NEW s \in Seq(Req), NEW i \in 1 .. Len(s)
    PROVE  /\ Len(RemoveAt(s, i)) = Len(s) - 1
           /\ \A k \in 1 .. Len(s) - 1 : RemoveAt(s, i)[k] = IF k < i THEN s[k] ELSE s[k + 1]
<1>1. Len(s) \in Nat /\ \A k \in 1 .. Len(s) : s[k] \in Req
  OBVIOUS
<1>. DEFINE a == SubSeq(s, 1, i - 1)
            b == SubSeq(s, i + 1, Len(s))
<1>2. a \in Seq(Req) /\ Len(a) = i - 1 /\ \A k \in 1 .. i - 1 : a[k] = s[k]
  BY <1>1, SubSeqProperties
<1>3. b \in Seq(Req) /\ Len(b) = Len(s) - i /\ \A k \in 1 .. Len(s) - i : b[k] = s[k + i]
  BY <1>1, SubSeqProperties
<1>4. RemoveAt(s, i) = a \o b
  BY DEF RemoveAt
<1>. HIDE DEF a, b
<1>5. /\ Len(a \o b) = Len(a) + Len(b)
      /\ \A k \in 1 .. Len(a \o b) : (a \o b)[k] = IF k <= Len(a) THEN a[k] ELSE b[k - Len(a)]
  <2>1. a \in Seq(Req) /\ b \in Seq(Req)
    BY <1>2, <1>3
  <2>. QED BY <2>1, ConcatProperties
<1>6. Len(a \o b) = Len(s) - 1
  BY <1>1, <1>2, <1>3, <1>5
<1>7. ASSUME NEW k \in 1 .. Len(s) - 1
      PROVE  (a \o b)[k] = IF k < i THEN s[k] ELSE s[k + 1]
  <2>1. (a \o b)[k] = IF k <= i - 1 THEN a[k] ELSE b[k - (i - 1)]
    BY <1>2, <1>5, <1>6
  <2>2. CASE k < i
    <3>1. k \in 1 .. i - 1
      BY <1>1, <2>2
    <3>. QED BY <1>2, <2>1, <2>2, <3>1
  <2>3. CASE ~(k < i)
    <3>1. k - (i - 1) \in 1 .. Len(s) - i /\ (k - (i - 1)) + i = k + 1 /\ ~(k <= i - 1)
      BY <1>1, <2>3
    <3>. QED BY <1>3, <2>1, <2>3, <3>1
  <2>. QED BY <2>2, <2>3
<1>. QED
  BY <1>4, <1>6, <1>7

\* A request written to its end lies behind the others.
LEMMA LaidFillLast ==
    ASSUME Inv, AnswerInv, WorkFresh,
           NEW f \in [Req -> Int], NEW e \in Int, LaidOut(f, e), ProcFill,
           NEW r \in Req, r = Head(work),
           NEW n \in Nat, n = Lesser(avail, NDesc[r] - offset[r]), offset[r] + n >= NDesc[r]
    PROVE  \E g \in [Req -> Int], d \in Int : LaidOut(g, d)'
<1>. TypeOK
  BY DEF Inv
<1>1. /\ r = work[1] /\ work # <<>>
      /\ Outstanding' = Outstanding + n /\ Executed' = Executed
      /\ \A i : Delta(i, cidx)' = Delta(i, cidx)
      /\ descNr' = [descNr EXCEPT ![r] = @ + n]
      /\ offset' = [offset EXCEPT ![r] = @ + n]
      /\ Executed <= Outstanding /\ offset[r] + n <= NDesc[r]
      /\ UNCHANGED <<cidx, credit, hwc, moved>>
  BY FillRing
<1>2. \A i \in Slot : Delta(i, cidx) < Outstanding + n =>
                 ring'[i] = IF Delta(i, cidx) < Outstanding THEN ring[i] ELSE r
  BY FillRing
<1>3. work' = RemoveAt(work, 1) /\ pend' = Append(pend, r) /\ qState = "ONLINE"
  BY FillRing
<1>4. /\ descNr \in [Req -> Int] /\ offset \in [Req -> Nat] /\ moved \in [Req -> Nat]
      /\ pend \in Seq(Req) /\ work \in Seq(Req)
      /\ Len(pend) \in Nat /\ Len(work) \in Nat
      /\ \A k \in 1 .. Len(pend) : pend[k] \in Req
      /\ \A k \in 1 .. Len(work) : work[k] \in Req
  BY LayFacts
<1>5. Begun \in Int /\ Outstanding \in Nat /\ Executed \in Nat /\ credit \in Nat
  BY LayFacts
<1>6. /\ 1 \in 1 .. Len(work)
      /\ pend # <<>> => 1 \in 1 .. Len(pend) /\ Len(pend) \in 1 .. Len(pend)
  BY <1>1, <1>4
<1>7. r \notin Listed(pend) /\ \A k \in 1 .. Len(pend) : pend[k] # r
  <2>1. r \in Listed(work)
    BY <1>1, <1>6 DEF Listed
  <2>2. r \notin Listed(pend)
    BY <2>1 DEF AnswerInv, ListsOK
  <2>. QED BY <2>2 DEF Listed
<1>8. Begun = descNr[r] /\ descNr'[r] = descNr[r] + n /\ offset'[r] = offset[r] + n
  BY <1>1, <1>4 DEF Begun
<1>9. Begun >= 0 /\ Outstanding = e + Begun /\ e <= Outstanding
  <2>1. Begun >= 0 /\ Outstanding = e + Begun
    BY DEF LaidOut, Packed
  <2>. QED BY <1>5, <2>1
<1>10. /\ Len(pend') = Len(pend) + 1 /\ pend'[Len(pend) + 1] = r
       /\ \A k \in 1 .. Len(pend) : pend'[k] = pend[k]
       /\ Listed(pend)' = Listed(pend) \cup {r}
  <2>1. Listed(Append(pend, r)) = Listed(pend) \cup {r}
    BY <1>4, <1>7, AppendListed DEF AnswerInv, ListsOK
  <2>. QED BY <1>3, <1>4, <2>1
<1>11. Len(work') = Len(work) - 1 /\ \A k \in 1 .. Len(work) - 1 : work'[k] = work[k + 1]
  <2>1. /\ Len(RemoveAt(work, 1)) = Len(work) - 1
        /\ \A k \in 1 .. Len(work) - 1 :
              RemoveAt(work, 1)[k] = IF k < 1 THEN work[k] ELSE work[k + 1]
    BY <1>4, <1>6, RemoveAtElements
  <2>2. \A k \in 1 .. Len(work) - 1 : ~(k < 1)
    BY <1>4
  <2>. QED BY <1>3, <2>1, <2>2
<1>12. work' # <<>> => /\ 2 \in 2 .. Len(work) /\ work'[1] = work[2] /\ work[2] \in Req
                       /\ work[2] # r /\ Untouched(work[2])
  <2>. SUFFICES ASSUME work' # <<>>
                PROVE  /\ 2 \in 2 .. Len(work) /\ work'[1] = work[2] /\ work[2] \in Req
                       /\ work[2] # r /\ Untouched(work[2])
    OBVIOUS
  <2>1. work' \in Seq(Req)
    BY <1>3, <1>4, <1>6, RemoveAtType
  <2>2. Len(work') # 0 /\ Len(work') \in Nat
    BY <2>1
  <2>3. 2 \in 2 .. Len(work) /\ 1 \in 1 .. Len(work) - 1 /\ 2 \in 1 .. Len(work)
    BY <1>4, <1>11, <2>2
  <2>4. work'[1] = work[2] /\ work[2] \in Req
    BY <1>4, <1>11, <2>3
  <2>5. work[2] # r
    BY <1>1, <1>6, <2>3 DEF AnswerInv, ListsOK, NoRepeat
  <2>. QED BY <1>3, <2>3, <2>4, <2>5 DEF WorkFresh
<1>. DEFINE g == [f EXCEPT ![r] = e]
            d == e + (descNr[r] + n)
<1>13. PICK D \in Int : D = d
  BY <1>4
<1>14. D = Outstanding + n /\ e <= D
  BY <1>4, <1>5, <1>8, <1>9, <1>13
<1>15. g \in [Req -> Int] /\ g[r] = e /\ \A q \in Req : q # r => g[q] = f[q]
  BY DEF g
<1>. HIDE DEF g, d
<1>16. PICK H \in [Req -> Int] : /\ H[r] = D /\ \A q \in Req : q # r => H[q] = End(f, q)
                                 /\ \A q \in Req : End(g, q)' = H[q]
  <2>1. g[r] + descNr'[r] = D
    BY <1>8, <1>13, <1>15 DEF d
  <2>2. \A q \in Req : q # r => g[q] + descNr'[q] = f[q] + descNr[q]
    BY <1>1, <1>4, <1>15
  <2>. DEFINE H == [q \in Req |-> IF q = r THEN D ELSE f[q] + descNr[q]]
  <2>3. H \in [Req -> Int]
    BY <1>4
  <2>4. H[r] = D /\ \A q \in Req : q # r => H[q] = End(f, q)
    BY DEF End
  <2>5. \A q \in Req : End(g, q)' = H[q]
    BY <2>1, <2>2 DEF End
  <2>. HIDE DEF H
  <2>. QED BY <2>3, <2>4, <2>5
<1>17. Begun' = 0
  BY <1>1, <1>4, <1>12 DEF Begun, Untouched
<1>18. Packed(g, D)'
  <2>1. \A k \in 1 .. Len(pend) : /\ pend'[k] = pend[k] /\ pend[k] \in Req /\ pend[k] # r
                                  /\ H[pend'[k]] = End(f, pend[k]) /\ g[pend'[k]] = f[pend[k]]
    BY <1>4, <1>7, <1>10, <1>15, <1>16
  <2>2. /\ pend'[Len(pend) + 1] = r /\ g[pend'[Len(pend) + 1]] = e
        /\ H[pend'[Len(pend) + 1]] = D
    BY <1>10, <1>15, <1>16
  <2>3. /\ pend' # <<>> /\ Len(pend') = Len(pend) + 1
        /\ \A k \in 1 .. Len(pend') : k \in 1 .. Len(pend) \/ k = Len(pend) + 1
    <3>1. Len(pend') = Len(pend) + 1
      BY <1>10
    <3>2. pend' # <<>>
      BY <1>4, <3>1
    <3>3. Len(pend) \in Nat
      BY <1>4
    <3>4. \A k \in 1 .. Len(pend) + 1 : k \in 1 .. Len(pend) \/ k = Len(pend) + 1
      BY <3>3
    <3>. QED BY <3>1, <3>2, <3>4
  <2>4. g[pend'[1]] + credit = 0
    <3>1. CASE pend = <<>>
      <4>1. e + credit = 0 /\ Len(pend) + 1 = 1
        BY <1>4, <3>1 DEF LaidOut, Packed
      <4>. QED BY <2>2, <4>1
    <3>2. CASE pend # <<>>
      BY <1>6, <2>1, <3>2 DEF LaidOut, Packed
    <3>. QED BY <3>1, <3>2
  <2>5. \A k \in 1 .. Len(pend') - 1 : g[pend'[k + 1]] = H[pend'[k]]
    <3>. TAKE k \in 1 .. Len(pend') - 1
    <3>1. k \in 1 .. Len(pend)
      BY <1>4, <2>3
    <3>2. CASE k + 1 \in 1 .. Len(pend)
      <4>1. k \in 1 .. Len(pend) - 1
        BY <1>4, <3>2
      <4>2. f[pend[k + 1]] = End(f, pend[k])
        BY <4>1 DEF LaidOut, Packed
      <4>. QED BY <2>1, <3>1, <3>2, <4>2
    <3>3. CASE k = Len(pend)
      <4>1. pend # <<>> /\ End(f, pend[k]) = e
        BY <3>1, <3>3 DEF LaidOut, Packed
      <4>. QED BY <2>1, <2>2, <3>1, <3>3, <4>1
    <3>4. k + 1 \in 1 .. Len(pend) \/ k = Len(pend)
      <4>1. Len(pend) \in Nat
        BY <1>4
      <4>. QED BY <3>1, <4>1
    <3>. QED BY <3>2, <3>3, <3>4
  <2>6. \A j, k \in 1 .. Len(pend') : j < k => H[pend'[j]] <= g[pend'[k]]
    <3>. TAKE j, k \in 1 .. Len(pend')
    <3>. SUFFICES ASSUME j < k PROVE H[pend'[j]] <= g[pend'[k]]
      OBVIOUS
    <3>1. j \in 1 .. Len(pend)
      BY <1>4, <2>3
    <3>2. End(f, pend[j]) <= e
      BY <3>1 DEF LaidOut, Packed
    <3>3. CASE k \in 1 .. Len(pend)
      <4>1. End(f, pend[j]) <= f[pend[k]]
        BY <3>1, <3>3 DEF LaidOut, Packed
      <4>. QED BY <2>1, <3>1, <3>3, <4>1
    <3>4. CASE k = Len(pend) + 1
      BY <2>1, <2>2, <3>1, <3>2, <3>4
    <3>. QED BY <2>3, <3>3, <3>4
  <2>7. \A k \in 1 .. Len(pend') : descNr'[pend'[k]] >= 0 /\ H[pend'[k]] <= D
    <3>. TAKE k \in 1 .. Len(pend')
    <3>1. CASE k \in 1 .. Len(pend)
      <4>1. /\ descNr[pend[k]] \in Nat /\ End(f, pend[k]) \in Int /\ End(f, pend[k]) <= e
        BY <3>1, PackedFacts DEF LaidOut
      <4>2. descNr'[pend'[k]] = descNr[pend[k]]
        BY <1>1, <1>4, <2>1, <3>1
      <4>3. H[pend'[k]] = End(f, pend[k])
        BY <2>1, <3>1
      <4>. QED BY <1>14, <4>1, <4>2, <4>3
    <3>2. CASE k = Len(pend) + 1
      <4>1. descNr'[r] >= 0
        <5>1. descNr[r] \in Int /\ descNr[r] >= 0
          BY <1>4, <1>8, <1>9
        <5>. QED BY <1>8, <5>1
      <4>2. H[pend'[k]] = D /\ pend'[k] = r
        BY <2>2, <3>2
      <4>. QED BY <4>1, <4>2
    <3>. QED BY <2>3, <3>1, <3>2
  <2>8. Begun' >= 0 /\ Outstanding' = D + Begun'
    BY <1>1, <1>14, <1>17
  <2>9. H[pend'[Len(pend')]] = D
    BY <2>2, <2>3
  <2>10. \A k \in 1 .. Len(pend') : pend'[k] \in Req /\ End(g, pend[k])' = H[pend'[k]]
    <3>1. \A k \in 1 .. Len(pend') : pend'[k] \in Req
      BY <2>1, <2>2, <2>3
    <3>. QED BY <1>16, <3>1
  <2>11. Len(pend') \in 1 .. Len(pend') /\ \A k \in 1 .. Len(pend') - 1 : k \in 1 .. Len(pend')
    BY <1>4, <2>3
  <2>. QED BY <1>1, <2>3, <2>4, <2>5, <2>6, <2>7, <2>8, <2>9, <2>10, <2>11 DEF Packed
<1>19. Owned(g, D)'
  <2>. SUFFICES ASSUME NEW i \in Slot, Delta(i, cidx) < Outstanding + n
                PROVE  /\ ring'[i] \in Listed(pend) \cup {r}
                       /\ g[ring'[i]] <= Delta(i, cidx) /\ Delta(i, cidx) < H[ring'[i]]
    <3>0. \A q \in Listed(pend) : q \in Req
      BY <1>4 DEF Listed
    <3>1. \A q \in Listed(pend)' : q \in Req
      BY <1>10, <3>0
    <3>. QED BY <1>1, <1>10, <1>14, <1>16, <3>1 DEF Owned
  <2>0. Delta(i, cidx) \in Nat
    BY LayFacts
  <2>1. CASE Delta(i, cidx) < e
    <3>1. Delta(i, cidx) < Outstanding
      BY <1>5, <1>9, <2>0, <2>1
    <3>2. /\ ring[i] \in Listed(pend) /\ ring'[i] = ring[i]
          /\ f[ring[i]] <= Delta(i, cidx) /\ Delta(i, cidx) < End(f, ring[i])
      BY <1>2, <2>1, <3>1 DEF LaidOut, Owned
    <3>3. ring[i] \in Req /\ ring[i] # r
      BY <1>4, <1>7, <3>2 DEF Listed
    <3>4. H[ring'[i]] = End(f, ring[i]) /\ g[ring'[i]] = f[ring[i]]
      BY <1>15, <1>16, <3>2, <3>3
    <3>. QED BY <3>2, <3>4
  <2>2. CASE ~(Delta(i, cidx) < e)
    <3>1. Delta(i, cidx) < Outstanding => ring[i] = work[1]
      BY <2>2 DEF LaidOut, Owned
    <3>2. ring'[i] = r
      BY <1>1, <1>2, <3>1
    <3>3. H[ring'[i]] = D /\ g[ring'[i]] = e
      BY <1>15, <1>16, <3>2
    <3>. QED BY <1>14, <2>0, <2>2, <3>2, <3>3
  <2>. QED BY <2>1, <2>2
<1>20. Moves(g, D)'
  <2>1. \A q \in Listed(pend) : /\ q \in Req /\ q # r /\ H[q] = End(f, q) /\ g[q] = f[q]
                               /\ moved[q] = NDesc[q] - Ahead(f[q], End(f, q), Executed)
    BY <1>4, <1>7, <1>15, <1>16 DEF Listed, LaidOut, Moves
  <2>2. moved[r] = NDesc[r] - Ahead(g[r], H[r], Executed)
    <3>1. moved[r] = offset[r] - Ahead(e, Outstanding, Executed)
      BY <1>1 DEF LaidOut, Moves
    <3>2. Ahead(e, D, Executed) = Ahead(e, Outstanding, Executed) + n
      BY <1>1, <1>5, <1>9, <1>14, AheadGrows
    <3>3. Ahead(e, Outstanding, Executed) \in Int /\ offset[r] \in Int
      BY <1>4, <1>5 DEF Ahead
    <3>4. NDesc[r] = offset[r] + n
      <4>1. NDesc[r] \in Int /\ offset[r] \in Int
        BY <1>4, SizeFacts
      <4>2. offset[r] + n <= NDesc[r]
        BY <1>1
      <4>. QED BY <4>1, <4>2
    <3>5. g[r] = e /\ H[r] = D
      BY <1>15, <1>16
    <3>. QED BY <3>1, <3>2, <3>3, <3>4, <3>5
  <2>3. work' # <<>> => moved[work'[1]] = offset'[work'[1]] - Ahead(D, D, Executed)
    <3>1. Ahead(D, D, Executed) = 0
      BY <1>5 DEF Ahead
    <3>. SUFFICES ASSUME work' # <<>>
                  PROVE  moved[work'[1]] = offset'[work'[1]] - Ahead(D, D, Executed)
      OBVIOUS
    <3>2. moved[work[2]] = 0 /\ offset[work[2]] = 0 /\ work'[1] = work[2]
      BY <1>12 DEF Untouched
    <3>3. offset'[work[2]] = offset[work[2]]
      BY <1>1, <1>4, <1>12
    <3>. QED BY <3>1, <3>2, <3>3
  <2>4. D = Outstanding' /\ Executed' = Executed /\ moved' = moved
    BY <1>1, <1>14
  <2>5. \A q \in Listed(pend) \cup {r} : moved'[q] = NDesc[q] - Ahead(g[q], H[q], Executed')
    BY <2>1, <2>2, <2>4
  <2>6. \A q \in Listed(pend) \cup {r} : moved'[q] = NDesc[q] - Ahead(g[q], End(g, q), Executed)'
    BY <1>16, <2>1, <2>5 DEF Ahead
  <2>. QED BY <1>10, <2>3, <2>4, <2>6 DEF Moves, Ahead
<1>. QED
  BY <1>15, <1>18, <1>19, <1>20 DEF LaidOut

\* Requests of which nothing has been written join the end of work_list.
LEMMA LaidGrow ==
    ASSUME TypeOK, NEW f \in [Req -> Int], NEW e \in Int, LaidOut(f, e),
           UNCHANGED <<pend, credit, descNr, pidx, cidx, ring, hwc, moved, offset>>,
           work # <<>> => work' # <<>> /\ work'[1] = work[1],
           work = <<>> /\ work' # <<>> => Untouched(work'[1])
    PROVE  LaidOut(f, e)'
<1>1. /\ Outstanding' = Outstanding /\ Executed' = Executed
      /\ \A q : End(f, q)' = End(f, q)
  BY DEF Outstanding, Executed, End, Delta
<1>2. \A i : Delta(i, cidx)' = Delta(i, cidx)
  BY DEF Delta
<1>3. Begun' = Begun
  BY DEF Begun, Untouched
<1>4. Packed(f, e)'
  BY <1>1, <1>3 DEF LaidOut, Packed
<1>5. Begun \in Int /\ Outstanding \in Nat /\ Executed \in Nat
  BY LayFacts
<1>6. work = <<>> => Outstanding = e
  <2>1. work = <<>> => Begun = 0
    BY DEF Begun
  <2>2. Outstanding = e + Begun
    BY DEF LaidOut, Packed
  <2>. QED BY <2>1, <2>2
<1>7. Owned(f, e)'
  <2>. SUFFICES ASSUME NEW i \in Slot, Delta(i, cidx) < Outstanding
                PROVE  IF Delta(i, cidx) < e
                       THEN /\ ring[i] \in Listed(pend)
                            /\ f[ring[i]] <= Delta(i, cidx) /\ Delta(i, cidx) < End(f, ring[i])
                       ELSE work' # <<>> /\ ring[i] = work'[1]
    BY <1>1, <1>2 DEF Owned, Listed
  <2>. QED BY <1>6 DEF LaidOut, Owned
<1>8. Moves(f, e)'
  <2>1. \A r \in Listed(pend) : moved[r] = NDesc[r] - Ahead(f[r], End(f, r), Executed)
    BY DEF LaidOut, Moves
  <2>2. work' # <<>> => moved[work'[1]] = offset[work'[1]] - Ahead(e, Outstanding, Executed)
    <3>1. CASE work # <<>>
      BY <3>1 DEF LaidOut, Moves
    <3>2. CASE work = <<>>
      <4>1. Ahead(e, Outstanding, Executed) = 0
        BY <1>5, <1>6, <3>2 DEF Ahead
      <4>. QED BY <3>2, <4>1 DEF Untouched
    <3>. QED BY <3>1, <3>2
  <2>. QED BY <1>1, <2>1, <2>2 DEF Moves, Listed, Ahead
<1>. QED
  BY <1>4, <1>7, <1>8 DEF LaidOut

\* What lies at the hardware's index belongs to a request on a list.
LEMMA ExecOwner ==
    ASSUME Inv, NEW f \in [Req -> Int], NEW e \in Int, LaidOut(f, e), HwExec
    PROVE  /\ ring[hwc] \in Req /\ ring[hwc] \in Queued
           /\ IF Executed < e
              THEN /\ ring[hwc] \in Listed(pend)
                   /\ f[ring[hwc]] <= Executed /\ Executed < End(f, ring[hwc])
              ELSE work # <<>> /\ ring[hwc] = work[1]
           /\ Executed' = Executed + 1 /\ Executed < Outstanding
<1>. TypeOK
  BY DEF Inv
<1>1. live /\ hwc # doorbell /\ hwc' = Incr(hwc, 1) /\ cidx' = cidx
  BY DEF HwExec, qVars
<1>2. hwc \in Slot /\ doorbell \in Slot /\ cidx \in Slot
  BY DEF TypeOK, QueueType, HwType
<1>3. Executed < Delta(doorbell, cidx)
  <2>1. Executed # Delta(doorbell, cidx)
    BY <1>1, <1>2, SizeFacts DEF Executed, Delta, Slot
  <2>. QED BY <1>1, <2>1, ExecutedFits
<1>4. Executed < Outstanding /\ Executed \in Nat
  BY <1>1, <1>3, ExecutedFits
<1>5. Executed' = Executed + 1
  <2>1. Executed + 1 < RngSz
    <3>1. Outstanding \in 0 .. RngSz - 1
      BY LayFacts
    <3>. QED BY <1>4, <3>1, SizeFacts
  <2>2. Delta(Incr(hwc, 1), cidx) = Delta(hwc, cidx) + 1
    BY <1>2, <2>1, DeltaIncr DEF Executed
  <2>. QED BY <1>1, <2>2 DEF Executed, Delta
<1>6. IF Executed < e
      THEN /\ ring[hwc] \in Listed(pend)
           /\ f[ring[hwc]] <= Executed /\ Executed < End(f, ring[hwc])
      ELSE work # <<>> /\ ring[hwc] = work[1]
  BY <1>2, <1>4 DEF LaidOut, Owned, Executed
<1>7. ring[hwc] \in Queued /\ ring[hwc] \in Req
  <2>1. \A k \in 1 .. Len(pend) : pend[k] \in Req
    BY LayFacts
  <2>2. work # <<>> => work[1] \in Req /\ 1 \in 1 .. Len(work)
    BY LayFacts
  <2>. QED BY <1>6, <2>1, <2>2 DEF Queued, Listed
<1>. QED
  BY <1>4, <1>5, <1>6, <1>7

\* The hardware executes the next descriptor, of the request that lies there.
LEMMA LaidExec ==
    ASSUME Inv, AnswerInv, NEW f \in [Req -> Int], NEW e \in Int, LaidOut(f, e), HwExec
    PROVE  LaidOut(f, e)'
<1>. TypeOK
  BY DEF Inv
<1>0. UNCHANGED <<pend, work, credit, descNr, pidx, cidx, ring, offset>>
      /\ moved' = [r \in Req |-> IF r = ring[hwc] THEN moved[r] + 1 ELSE moved[r]]
  BY DEF HwExec, qVars, reqVars
<1>1. /\ Outstanding' = Outstanding /\ Begun' = Begun
      /\ \A q : End(f, q)' = End(f, q)
  BY <1>0 DEF Outstanding, Begun, End, Delta
<1>2. \A i : Delta(i, cidx)' = Delta(i, cidx)
  BY <1>0 DEF Delta
<1>3. Packed(f, e)'
  BY <1>0, <1>1 DEF LaidOut, Packed
<1>4. Owned(f, e)'
  BY <1>0, <1>1, <1>2 DEF LaidOut, Owned, Listed
<1>5. Begun \in Int /\ Outstanding \in Nat /\ Executed \in Nat
  BY LayFacts
<1>6. Outstanding = e + Begun /\ Begun >= 0
  BY DEF LaidOut, Packed
<1>7. PICK r \in Req : r = ring[hwc]
  BY ExecOwner
<1>8. /\ IF Executed < e
         THEN r \in Listed(pend) /\ f[r] <= Executed /\ Executed < End(f, r)
         ELSE work # <<>> /\ r = work[1]
      /\ Executed' = Executed + 1 /\ Executed < Outstanding
  BY <1>7, ExecOwner
<1>9. \A q \in Req : moved'[q] = IF q = r THEN moved[q] + 1 ELSE moved[q]
  BY <1>0, <1>7
<1>10. ASSUME NEW q \in Listed(pend)
       PROVE  moved'[q] = NDesc[q] - Ahead(f[q], End(f, q), Executed')
  <2>1. PICK k \in 1 .. Len(pend) : q = pend[k]
    BY DEF Listed
  <2>2. /\ q \in Req /\ f[q] \in Int /\ End(f, q) \in Int /\ End(f, q) <= e
        /\ f[q] <= End(f, q)
    <3>1. /\ pend[k] \in Req /\ f[pend[k]] \in Int /\ descNr[pend[k]] \in Nat
          /\ End(f, pend[k]) = f[pend[k]] + descNr[pend[k]]
          /\ End(f, pend[k]) \in Int /\ End(f, pend[k]) <= e
      BY PackedFacts DEF LaidOut
    <3>. QED BY <2>1, <3>1
  <2>3. moved[q] = NDesc[q] - Ahead(f[q], End(f, q), Executed)
    BY DEF LaidOut, Moves
  <2>4. NDesc[q] \in Nat
    BY <2>2, SizeFacts
  <2>5. CASE q = r
    <3>1. f[q] <= Executed /\ Executed < End(f, q)
      <4>1. Executed < e
        <5>1. r \in Listed(pend)
          BY <2>5
        <5>2. work # <<>> => work[1] \in Listed(work)
          BY LayFacts DEF Listed
        <5>. QED BY <1>8, <5>1, <5>2 DEF AnswerInv, ListsOK
      <4>. QED BY <1>8, <2>5, <4>1
    <3>2. Ahead(f[q], End(f, q), Executed + 1) = Ahead(f[q], End(f, q), Executed) - 1
      BY <1>5, <2>2, <3>1 DEF Ahead
    <3>3. Ahead(f[q], End(f, q), Executed) \in Int
      BY <1>5, <2>2 DEF Ahead
    <3>. QED BY <1>8, <1>9, <2>2, <2>3, <2>4, <2>5, <3>2, <3>3
  <2>6. CASE q # r
    <3>1. End(f, q) <= Executed \/ f[q] > Executed
      <4>1. CASE Executed < e
        <5>1. PICK j \in 1 .. Len(pend) : r = pend[j]
          BY <1>8, <4>1 DEF Listed
        <5>2. j # k
          BY <2>1, <2>6, <5>1
        <5>3. j < k \/ k < j
          <6>1. Len(pend) \in Nat
            BY LayFacts
          <6>. QED BY <5>2, <6>1
        <5>4. /\ f[r] \in Int /\ End(f, r) \in Int
              /\ f[r] <= Executed /\ Executed < End(f, r)
          BY <1>8, <4>1, <5>1, PackedFacts DEF LaidOut
        <5>5. CASE j < k
          <6>1. End(f, r) <= f[q]
            BY <2>1, <5>1, <5>5 DEF LaidOut, Packed
          <6>. QED BY <1>5, <2>2, <5>4, <6>1
        <5>6. CASE k < j
          <6>1. End(f, q) <= f[r]
            BY <2>1, <5>1, <5>6 DEF LaidOut, Packed
          <6>. QED BY <1>5, <2>2, <5>4, <6>1
        <5>. QED BY <5>3, <5>5, <5>6
      <4>2. CASE ~(Executed < e)
        BY <1>5, <2>2, <4>2
      <4>. QED BY <4>1, <4>2
    <3>2. Ahead(f[q], End(f, q), Executed + 1) = Ahead(f[q], End(f, q), Executed)
      BY <1>5, <2>2, <3>1 DEF Ahead
    <3>. QED BY <1>8, <1>9, <2>2, <2>3, <2>6, <3>2
  <2>. QED BY <2>5, <2>6
<1>11. ASSUME work # <<>>
       PROVE  moved'[work[1]] = offset[work[1]] - Ahead(e, Outstanding, Executed')
  <2>1. work[1] \in Req /\ work[1] \in Listed(work)
    BY <1>11, LayFacts DEF Listed
  <2>2. moved[work[1]] = offset[work[1]] - Ahead(e, Outstanding, Executed)
    BY <1>11 DEF LaidOut, Moves
  <2>3. CASE Executed < e
    <3>1. work[1] # r
      BY <1>8, <2>1, <2>3 DEF AnswerInv, ListsOK
    <3>2. Ahead(e, Outstanding, Executed + 1) = Ahead(e, Outstanding, Executed)
      BY <1>5, <1>6, <2>3 DEF Ahead
    <3>. QED BY <1>8, <1>9, <2>1, <2>2, <3>1, <3>2
  <2>4. CASE ~(Executed < e)
    <3>1. work[1] = r
      BY <1>8, <2>4
    <3>2. Ahead(e, Outstanding, Executed + 1) = Ahead(e, Outstanding, Executed) - 1
      BY <1>5, <1>6, <1>8, <2>4 DEF Ahead
    <3>3. Ahead(e, Outstanding, Executed) \in Int /\ offset[work[1]] \in Int
      BY <1>5, <2>1 DEF Ahead, TypeOK, ReqType
    <3>. QED BY <1>8, <1>9, <2>1, <2>2, <3>1, <3>2, <3>3
  <2>. QED BY <2>3, <2>4
<1>12. Moves(f, e)'
  <2>1. \A q \in Listed(pend) : moved'[q] = NDesc[q] - Ahead(f[q], End(f, q), Executed)'
    BY <1>1, <1>10 DEF Ahead
  <2>2. Listed(pend)' = Listed(pend)
    BY <1>0 DEF Listed
  <2>3. work # <<>> => moved'[work[1]] = offset[work[1]] - Ahead(e, Outstanding, Executed)'
    BY <1>1, <1>11 DEF Ahead
  <2>. QED BY <1>0, <2>1, <2>2, <2>3 DEF Moves
<1>. QED
  BY <1>3, <1>4, <1>12 DEF LaidOut

\* A fresh ring holds nothing.
LEMMA LaidStart ==
    ASSUME Inv, StartOnline, work = <<>>, pend = <<>>, credit = 0
    PROVE  LayoutOK'
<1>1. work' = <<>> /\ pend' = <<>> /\ credit' = 0 /\ pidx' = 0 /\ cidx' = 0 /\ hwc' = 0
  BY DEF StartOnline, Inv, StopOK
<1>2. Delta(0, 0) = 0
  BY DEF Delta
<1>3. Outstanding' = 0 /\ Begun' = 0
  BY <1>1, <1>2 DEF Outstanding, Begun, Delta
<1>4. PICK f \in [Req -> Int] : TRUE
  <2>1. [r \in Req |-> 0] \in [Req -> Int]
    OBVIOUS
  <2>. QED BY <2>1
<1>5. Packed(f, 0)'
  BY <1>1, <1>3 DEF Packed
<1>6. Owned(f, 0)'
  <2>1. \A i \in Slot : Delta(i, 0) >= 0 /\ Delta(i, 0) \in Int
    BY SizeFacts DEF Delta, Slot
  <2>2. \A i \in Slot : ~(Delta(i, cidx)' < Outstanding')
    BY <1>1, <1>3, <2>1 DEF Delta
  <2>. QED BY <2>2 DEF Owned
<1>7. Moves(f, 0)'
  BY <1>1 DEF Moves, Listed
<1>. QED
  BY <1>4, <1>5, <1>6, <1>7 DEF LayoutOK, LaidOut

-----------------------------------------------------------------------------
(* The invariant around the layout.                                        *)

\* A caller is only told of success, and a waiter only woken, once the data
\* of its request has moved.
DoneOK == /\ \A r \in Req : done[r] /\ status[r] = "0" => moved[r] = NDesc[r]
          /\ \A r \in Req : result[r] = "ok" => done[r] /\ status[r] = "0"
          /\ \A r \in Req : pc[r] = "woken" => done[r]

\* What a stopping queue leaves to the hardware is of requests not completed.
StaleOK == live /\ qState # "ONLINE" =>
    \A i \in Slot : Delta(i, hwc) < Delta(doorbell, hwc) =>
        /\ ring[i] \in Req /\ ~Unsent(ring[i])
        /\ ~(done[ring[i]] /\ status[ring[i]] = "0")

\* The lists of a queue that is offline and drained are empty, and a queue
\* that is being started has no credits.
Draining == at \in {"drainPend", "drainWork"}
OffOK == /\ qState = "ENABLED" /\ ~Draining => work = <<>> /\ pend = <<>>
         /\ Draining => pos = 1
         /\ at = "drainWork" => pend = <<>>
         /\ pc[Stp] = "prog" => credit = 0

LayInv == LayoutOK /\ WorkFresh /\ DoneOK /\ StaleOK /\ OffOK

\* The queue has been told to go offline and waits for nothing more.
Halted == pc[Stp] \in {"drained", "expired", "teardown"}

\* Where a step may send a thread.
Sends(t, x) == /\ pc' = [pc EXCEPT ![t] = x]
               /\ x \notin {"new", "mapped"}
               /\ x = "woken" => t \in Req /\ WaitWake(t)
               /\ x = "prog" => t = Stp /\ StartConfig
               /\ x \in {"drained", "expired", "teardown"} =>
                     t = Stp /\ (Halted \/ StopBegin \/ StopWake \/ StopExpire)

LEMMA PcStep ==
    ASSUME Inv, Next
    PROVE  pc' = pc \/ BatchMap \/ \E t \in Thread : \E x : Sends(t, x)
<1>0. /\ Stp \in Thread /\ Svc \in Thread /\ \A r \in Req : r \in Thread
      /\ BatchSeq # <<>> => BatchSeq[1] \in Thread
  BY BatchFacts DEF Thread
<1>1. CASE Cmpl \/ Loop
  BY <1>1 DEF Cmpl, CmplDone, CmplPart, CmplEnd, Loop, ProcFill, ProcFull, ProcRing, thrVars
<1>2. CASE ProcExit \/ ProcStopExit \/ SvcCheck
  <2>1. cur \in Thread
    BY <1>0, <1>2 DEF ProcExit, ProcStopExit, SvcCheck, Inv, LockOK
  <2>2. \/ pc' = [pc EXCEPT ![cur] = After(cur)] \/ pc' = [pc EXCEPT ![cur] = "proc"]
        \/ pc' = [pc EXCEPT ![cur] = "idle"]
    BY <1>2 DEF ProcExit, ProcStopExit, SvcCheck, Unlock
  <2>3. After(cur) \in {"wait", "end", "idle"}
    BY DEF After
  <2>4. Sends(cur, After(cur)) \/ Sends(cur, "proc") \/ Sends(cur, "idle")
    BY <2>2, <2>3 DEF Sends
  <2>. QED BY <2>1, <2>4
<1>3. CASE Service \/ Hw
  <2>1. \/ pc' = pc \/ Sends(Svc, "proc") \/ Sends(Svc, "sleep") \/ Sends(Svc, "idle")
    BY <1>3 DEF Service, SvcStart, KthCheck, KthWake, Hw, HwExec, HwWriteback, IrqShared,
                thrVars, Sends
  <2>. QED BY <1>0, <2>1
<1>4. CASE BatchQueue
  <2>1. BatchSeq # <<>> /\ (Sends(BatchSeq[1], "proc") \/ Sends(BatchSeq[1], "end"))
    BY <1>4 DEF BatchQueue, Sends
  <2>. QED BY <1>0, <2>1
<1>5. CASE \E t \in Req \cup {Svc} : Proc(t)
  <2>1. PICK t \in Req \cup {Svc} : Proc(t)
    BY <1>5
  <2>2. t \in Thread /\ After(t) \in {"wait", "end", "idle"}
    BY <1>0 DEF After
  <2>3. pc' = pc \/ pc' = [pc EXCEPT ![t] = After(t)]
    BY <2>1 DEF Proc, ProcStopWait, ProcSkip, ProcBegin, Begin, thrVars
  <2>4. pc' = pc \/ Sends(t, After(t))
    BY <2>2, <2>3 DEF Sends
  <2>. QED BY <2>2, <2>4
<1>6. CASE \E r \in Req : Call(r)
  <2>1. PICK r \in Req : Call(r)
    BY <1>6
  <2>2. CASE WaitWake(r)
    <3>1. pc' = [pc EXCEPT ![r] = "woken"]
      BY <2>2 DEF WaitWake
    <3>2. Sends(r, "woken")
      BY <2>2, <3>1 DEF Sends
    <3>. QED BY <1>0, <3>2
  <2>3. CASE ~WaitWake(r)
    <3>1. pc' = [pc EXCEPT ![r] = "proc"] \/ pc' = [pc EXCEPT ![r] = "end"]
      BY <2>1, <2>3 DEF Call, Submit, SubmitNoMap, WaitFinish
    <3>2. Sends(r, "proc") \/ Sends(r, "end")
      BY <3>1 DEF Sends
    <3>. QED BY <1>0, <3>2
  <2>. QED BY <2>2, <2>3
<1>7. CASE Stop \/ Drain
  <2>1. CASE StopBegin \/ StopWake \/ StopExpire
    <3>1. \/ Sends(Stp, "drained") \/ Sends(Stp, "wait") \/ Sends(Stp, "expired")
      BY <2>1 DEF StopBegin, StopWake, StopExpire, Sends
    <3>. QED BY <1>0, <3>1
  <2>2. CASE DrainEnd
    <3>1. pc' = [pc EXCEPT ![Stp] = "teardown"] /\ Halted
      BY <2>2 DEF DrainEnd, Unlock, Inv, LockOK, Halted
    <3>2. Sends(Stp, "teardown")
      BY <3>1 DEF Sends
    <3>. QED BY <1>0, <3>2
  <2>3. CASE Teardown
    <3>1. Sends(Stp, "idle")
      BY <2>3 DEF Teardown, Sends
    <3>. QED BY <1>0, <3>1
  <2>4. CASE StopDrain \/ DrainPend \/ DrainNext \/ DrainWork
    BY <2>4 DEF StopDrain, thrVars, DrainPend, DrainNext, DrainWork
  <2>. QED BY <1>7, <2>1, <2>2, <2>3, <2>4 DEF Stop, Drain
<1>8. CASE Start
  <2>1. CASE StartConfig
    <3>1. pc' = [pc EXCEPT ![Stp] = "prog"]
      BY <2>1 DEF StartConfig
    <3>2. Sends(Stp, "prog")
      BY <2>1, <3>1 DEF Sends
    <3>. QED BY <1>0, <3>2
  <2>2. CASE StartOnline \/ StartFail
    <3>1. pc' = [pc EXCEPT ![Stp] = "idle"]
      BY <2>2 DEF StartOnline, StartFail
    <3>2. Sends(Stp, "idle")
      BY <3>1 DEF Sends
    <3>. QED BY <1>0, <3>2
  <2>. QED BY <1>8, <2>1, <2>2 DEF Start
<1>. QED
  BY <1>1, <1>2, <1>3, <1>4, <1>5, <1>6, <1>7, <1>8 DEF Next, Holder

\* A call that has reached the lists has; only a waiter is woken, and only
\* qdma_queue_start starts.
LEMMA PcFacts ==
    ASSUME Inv, Next
    PROVE  /\ \A r \in Req : Unsent(r)' => Unsent(r)
           /\ \A r \in Req : pc'[r] = "woken" =>
                pc[r] = "woken" \/ (WaitWake(r) /\ pc' = [pc EXCEPT ![r] = "woken"])
           /\ pc'[Stp] = "prog" => pc[Stp] = "prog" \/ StartConfig
           /\ Halted' => Halted \/ StopBegin \/ StopWake \/ StopExpire
<1>0. pc \in [Thread -> {"new", "mapped", "proc", "wait", "woken", "end", "idle", "sleep",
                         "drained", "expired", "teardown", "prog"}]
  BY DEF Inv, TypeOK, ThreadType
<1>1. /\ Stp \in Thread /\ \A r \in Req : r \in Thread
      /\ \A r \in Batch : BatchSeq[1] \in Thread /\ BatchSeq[1] \in Batch /\ BatchSeq # <<>>
  BY BatchFacts DEF Thread, Batch
<1>2. CASE pc' = pc
  BY <1>2 DEF Unsent, Halted
<1>3. CASE BatchMap
  <2>1. /\ pc' = [t \in Thread |-> IF t = BatchSeq[1] THEN "mapped"
                                   ELSE IF t \in Batch THEN "end" ELSE pc[t]]
        /\ pc[BatchSeq[1]] = "new" /\ BatchSeq # <<>>
    BY <1>3 DEF BatchMap
  <2>2. \A t \in Thread : t \notin Batch => pc'[t] = pc[t]
    BY <2>1, BatchFacts
  <2>3. \A t \in Thread : pc'[t] \in {"woken", "prog", "drained", "expired", "teardown"}
           => pc[t] = pc'[t]
    BY <2>1
  <2>4. \A r \in Req : Unsent(r)' => Unsent(r)
    <3>1. TAKE r \in Req
    <3>2. CASE r \in Batch
      BY <2>1, <3>2 DEF Unsent
    <3>3. CASE r \notin Batch
      BY <1>1, <2>2, <3>3 DEF Unsent
    <3>. QED BY <3>2, <3>3
  <2>. QED BY <1>1, <2>3, <2>4 DEF Halted
<1>4. CASE \E t \in Thread : \E x : Sends(t, x)
  <2>1. PICK t \in Thread : \E x : Sends(t, x)
    BY <1>4
  <2>2. PICK x : /\ pc' = [pc EXCEPT ![t] = x]
                 /\ x \notin {"new", "mapped"}
                 /\ x = "woken" => t \in Req /\ WaitWake(t)
                 /\ x = "prog" => t = Stp /\ StartConfig
                 /\ x \in {"drained", "expired", "teardown"} =>
                       t = Stp /\ (Halted \/ StopBegin \/ StopWake \/ StopExpire)
    BY <2>1 DEF Sends
  <2>3. \A s \in Thread : pc'[s] = IF s = t THEN x ELSE pc[s]
    BY <1>0, <2>2
  <2>4. \A r \in Req : Unsent(r)' => Unsent(r)
    <3>1. TAKE r \in Req
    <3>2. CASE r \in Batch
      BY <1>1, <2>2, <2>3, <3>2 DEF Unsent
    <3>3. CASE r \notin Batch
      BY <1>1, <2>2, <2>3, <3>3 DEF Unsent
    <3>. QED BY <3>2, <3>3
  <2>. QED BY <1>1, <2>2, <2>3, <2>4 DEF Halted
<1>. QED
  BY <1>2, <1>3, <1>4, PcStep

\* A step that leaves the lists, the requests and the ring as they are.
LEMMA LayFrame ==
    ASSUME Inv, LayInv, Next, LayoutOK',
           UNCHANGED <<work, pend, offset, descNr, moved, ring, hwc, done, status, qState>>,
           doorbell' = doorbell \/ qState = "ONLINE",
           live' => live,
           \A r \in Req : result'[r] = "ok" => result[r] = "ok" \/ (done[r] /\ status[r] = "0"),
           \A r \in Req : WaitWake(r) => done[r],
           pc'[Stp] = "prog" => credit' = 0,
           (at' = at /\ pos' = pos) \/ (~Draining /\ ~Draining')
    PROVE  LayInv'
<1>1. WorkFresh'
  BY PcFacts DEF LayInv, WorkFresh, Untouched
<1>2. DoneOK'
  BY PcFacts DEF LayInv, DoneOK
<1>3. StaleOK'
  BY PcFacts DEF LayInv, StaleOK, Delta
<1>4. OffOK'
  BY DEF LayInv, OffOK, Draining
<1>. QED BY <1>1, <1>2, <1>3, <1>4 DEF LayInv

\* Steps that keep the credits and the indices too.
LEMMA QuietLay ==
    ASSUME Inv, LayInv, Next, Timed = {}, UNCHANGED layVars,
           UNCHANGED <<doorbell, done, status, qState>>, live' => live,
           \A r \in Req : result'[r] = "ok" => result[r] = "ok" \/ (done[r] /\ status[r] = "0"),
           (at' = at /\ pos' = pos) \/ (~Draining /\ ~Draining')
    PROVE  LayInv'
<1>1. LayoutOK'
  BY LayoutFrame DEF LayInv
<1>2. \A r \in Req : WaitWake(r) => done[r]
  BY DEF WaitWake
<1>3. pc'[Stp] = "prog" => credit' = 0
  BY PcFacts DEF LayInv, OffOK, StartConfig, ResetIndices, layVars
<1>. QED BY <1>1, <1>2, <1>3, LayFrame DEF layVars

LEMMA CallerLay ==
    ASSUME Inv, LayInv, Next, Timed = {}, NEW r \in Req,
           SubmitNoMap(r) \/ WaitWake(r) \/ WaitFinish(r)
    PROVE  LayInv'
<1>1. CASE SubmitNoMap(r) \/ WaitWake(r)
  <2>1. UNCHANGED <<qVars, lockVars, hwVars, offset, descNr, done, status>>
    BY <1>1 DEF SubmitNoMap, WaitWake, reqVars
  <2>2. \A q \in Req : result'[q] = "ok" => result[q] = "ok"
    BY <1>1 DEF SubmitNoMap, WaitWake, reqVars, Inv, TypeOK, ReqType
  <2>. QED BY <2>1, <2>2, QuietLay DEF layVars, qVars, lockVars, hwVars
<1>2. CASE WaitFinish(r)
  <2>1. done[r]
    BY <1>2 DEF WaitFinish, LayInv, DoneOK
  <2>2. /\ UNCHANGED <<work, pend, avail, pidx, cidx, credit, qState, live, lockVars, hwVars>>
        /\ UNCHANGED <<offset, descNr, done, status>>
        /\ result' = [result EXCEPT ![r] = IF done[r] /\ status[r] = "0" THEN "ok" ELSE "EIO"]
    BY <1>2, <2>1 DEF WaitFinish
  <2>3. \A q \in Req : result'[q] = "ok" => result[q] = "ok" \/ (done[q] /\ status[q] = "0")
    BY <2>2 DEF Inv, TypeOK, ReqType
  <2>. QED BY <2>2, <2>3, QuietLay DEF layVars, lockVars, hwVars
<1>. QED BY <1>1, <1>2

LEMMA OthersLay ==
    ASSUME Inv, LayInv, Next, Timed = {},
           \/ CmplEnd \/ ProcExit \/ ProcStopExit \/ SvcCheck \/ KthCheck \/ KthWake
           \/ \E t \in Req \cup {Svc} : ProcSkip(t)
           \/ BatchMap \/ StopBegin \/ StopWake \/ StopExpire \/ Teardown \/ StartFail
           \/ HwWriteback \/ IrqShared
    PROVE  LayInv'
<1>1. UNCHANGED layVars /\ UNCHANGED <<done, status, qState>> /\ (live' => live)
  <2>1. CASE CmplEnd \/ ProcExit \/ ProcStopExit \/ SvcCheck
    BY <2>1 DEF CmplEnd, ProcExit, ProcStopExit, SvcCheck, layVars, qVars, hwVars, reqVars
  <2>2. CASE KthCheck \/ KthWake \/ \E t \in Req \cup {Svc} : ProcSkip(t)
    BY <2>2 DEF KthCheck, KthWake, ProcSkip, layVars, qVars, hwVars, reqVars
  <2>3. CASE BatchMap \/ StopBegin \/ StopWake \/ StopExpire
    BY <2>3 DEF BatchMap, StopBegin, StopWake, StopExpire, layVars, qVars, hwVars, reqVars
  <2>4. CASE Teardown \/ StartFail \/ HwWriteback \/ IrqShared
    BY <2>4 DEF Teardown, StartFail, HwWriteback, IrqShared, layVars, qVars, hwVars, reqVars
  <2>. QED BY <2>1, <2>2, <2>3, <2>4
<1>2. doorbell' = doorbell
  <2>1. CASE CmplEnd
    BY <2>1 DEF CmplEnd, Ring, Inv, RingOK
  <2>2. CASE ~CmplEnd
    BY <2>2 DEF ProcExit, ProcStopExit, SvcCheck, KthCheck, KthWake, ProcSkip, BatchMap, StopBegin,
                StopWake, StopExpire, Teardown, StartFail, HwWriteback, IrqShared, hwVars
  <2>. QED BY <2>1, <2>2
<1>3. \A q \in Req : result'[q] = "ok" => result[q] = "ok"
  <2>1. CASE BatchMap
    <3>1. PICK bad \in SUBSET Req :
             result' = [r \in Req |-> IF r \in bad THEN "ENOMAP" ELSE result[r]]
      <4>1. \A bad \in (IF MapMayFail THEN SUBSET Batch ELSE {{}}) : bad \in SUBSET Req
        BY BatchFacts
      <4>. QED BY <2>1, <4>1 DEF BatchMap
    <3>. QED BY <3>1
  <2>2. CASE ~BatchMap
    <3>1. result' = result
      BY <2>2 DEF CmplEnd, ProcExit, ProcStopExit, SvcCheck, KthCheck, KthWake, ProcSkip, StopBegin,
                StopWake, StopExpire, Teardown, StartFail, HwWriteback, IrqShared, reqVars
    <3>. QED BY <3>1
  <2>. QED BY <2>1, <2>2
<1>4. (at' = at /\ pos' = pos) \/ (~Draining /\ ~Draining')
  <2>1. CASE CmplEnd
    BY <2>1 DEF CmplEnd, Draining, Inv, LockOK
  <2>2. CASE ProcExit \/ ProcStopExit \/ SvcCheck
    BY <2>2 DEF ProcExit, ProcStopExit, SvcCheck, Unlock, Draining
  <2>3. CASE ~(CmplEnd \/ ProcExit \/ ProcStopExit \/ SvcCheck)
    BY <2>3 DEF KthCheck, KthWake, ProcSkip, BatchMap, StopBegin,
                StopWake, StopExpire, Teardown, StartFail, HwWriteback, IrqShared, lockVars
  <2>. QED BY <2>1, <2>2, <2>3
<1>. QED BY <1>1, <1>2, <1>3, <1>4, QuietLay

\* Steps that reap.
LEMMA ReapLay ==
    ASSUME Inv, LayInv, Next, Timed = {}, NEW next, Reap(next), next \notin {"drainPend", "drainWork"},
           ~Draining,
           UNCHANGED <<pend, work, descNr, pidx, ring, hwc, moved, offset>>,
           UNCHANGED <<done, status, result, qState, live>>,
           doorbell' = doorbell \/ qState = "ONLINE"
    PROVE  LayInv'
<1>. TypeOK
  BY DEF Inv
<1>1. LayoutOK'
  <2>. SUFFICES ASSUME qState' = "ONLINE" PROVE \E f \in [Req -> Int], e \in Int : LaidOut(f, e)'
    BY DEF LayoutOK
  <2>1. qState = "ONLINE"
    OBVIOUS
  <2>2. PICK f \in [Req -> Int], e \in Int : LaidOut(f, e)
    BY <2>1 DEF LayInv, LayoutOK
  <2>3. live \/ pidx # cidx => Delta(wb, cidx) <= Executed /\ Executed <= Outstanding
    <3>. SUFFICES ASSUME live \/ pidx # cidx
                  PROVE  Delta(wb, cidx) <= Executed /\ Executed <= Outstanding
      OBVIOUS
    <3>. QED BY ExecutedFits
  <2>. QED BY <2>2, <2>3, LaidReap
<1>2. \A r \in Req : WaitWake(r) => done[r]
  BY DEF WaitWake
<1>3. pc'[Stp] = "prog" => credit' = 0
  <2>1. CASE StartConfig
    BY <2>1 DEF StartConfig, ResetIndices
  <2>2. CASE ~StartConfig
    <3>1. pc'[Stp] = "prog" => pc[Stp] = "prog"
      BY <2>2, PcFacts
    <3>2. pc[Stp] = "prog" => credit = 0 /\ pidx = cidx
      BY DEF LayInv, OffOK, Inv, StopOK
    <3>. QED BY <3>1, <3>2 DEF Reap
  <2>. QED BY <2>1, <2>2
<1>4. ~Draining'
  BY DEF Reap, Draining
<1>. QED BY <1>1, <1>2, <1>3, <1>4, LayFrame

LEMMA ReapersLay ==
    ASSUME Inv, LayInv, Next, Timed = {},
           \/ \E t \in Req \cup {Svc} : ProcStopWait(t) \/ ProcBegin(t)
           \/ SvcStart \/ ProcFull \/ ProcRing
    PROVE  LayInv'
<1>1. CASE (\E t \in Req \cup {Svc} : ProcStopWait(t)) \/ SvcStart \/ ProcFull
  <2>1. \E next \in {"stop", "svc", "full"} : Reap(next)
    BY <1>1 DEF ProcStopWait, SvcStart, ProcFull
  <2>2. /\ ~Draining
        /\ UNCHANGED <<pend, work, descNr, pidx, ring, hwc, moved, offset>>
        /\ UNCHANGED <<done, status, result, qState, live, doorbell>>
    BY <1>1 DEF ProcStopWait, SvcStart, ProcFull, Draining, hwVars, reqVars
  <2>. QED BY <2>1, <2>2, ReapLay
<1>2. CASE \E t \in Req \cup {Svc} : ProcBegin(t)
  <2>1. /\ UNCHANGED <<pend, work, descNr, pidx, ring, hwc, moved, offset>>
        /\ UNCHANGED <<done, status, result, qState, live, doorbell>>
        /\ Reap("loop") \/ (UNCHANGED <<cidx, credit>> /\ at' = "loop")
    BY <1>2 DEF ProcBegin, Begin, Draining, hwVars, reqVars
  <2>2. ~Draining
    BY <1>2 DEF ProcBegin, Begin, Draining
  <2>3. CASE Reap("loop")
    BY <2>1, <2>2, <2>3, ReapLay
  <2>4. CASE UNCHANGED <<cidx, credit>> /\ at' = "loop"
    BY <2>1, <2>2, <2>4, QuietLay DEF layVars, Draining
  <2>. QED BY <2>1, <2>3, <2>4
<1>3. CASE ProcRing
  <2>1. /\ UNCHANGED <<pend, work, descNr, pidx, ring, hwc, moved, offset>>
        /\ UNCHANGED <<done, status, result, qState, live>>
        /\ Reap("exit") \/ (UNCHANGED <<cidx, credit>> /\ at' = "exit")
    BY <1>3 DEF ProcRing, reqVars
  <2>2. ~Draining /\ qState = "ONLINE"
    BY <1>3 DEF ProcRing, LoopOver, Draining, Inv, LockOK, Writing
  <2>3. CASE Reap("exit")
    BY <2>1, <2>2, <2>3, ReapLay
  <2>4. CASE UNCHANGED <<cidx, credit>> /\ at' = "exit"
    <3>1. LayoutOK'
      BY <2>1, <2>4, LayoutFrame DEF LayInv, layVars
    <3>2. \A r \in Req : WaitWake(r) => done[r]
      BY DEF WaitWake
    <3>3. pc'[Stp] = "prog" => credit' = 0
      <4>1. pc' = pc
        BY <1>3 DEF ProcRing
      <4>. QED BY <2>4, <4>1 DEF LayInv, OffOK
    <3>4. ~Draining'
      BY <2>4 DEF Draining
    <3>. QED BY <2>1, <2>2, <3>1, <3>2, <3>3, <3>4, LayFrame
  <2>. QED BY <2>1, <2>3, <2>4
<1>. QED BY <1>1, <1>2, <1>3

\* A request is completed, or the credits cover part of it.
LEMMA CmplLay ==
    ASSUME Inv, AnswerInv, LayInv, Next, CmplDone \/ CmplPart
    PROVE  LayInv'
<1>. TypeOK
  BY DEF Inv
<1>. DEFINE r == Head(pend)
<1>1. pend # <<>> /\ at = "cmpl" /\ r = pend[1] /\ 1 \in 1 .. Len(pend) /\ r \in Req
  <2>1. pend # <<>> /\ at = "cmpl"
    BY DEF CmplDone, CmplPart
  <2>. QED BY <2>1, LayFacts
<1>2. qState = "ONLINE"
  BY <1>1 DEF LayInv, OffOK, Draining, TypeOK, QueueType
<1>3. PICK f \in [Req -> Int], e \in Int : LaidOut(f, e)
  BY <1>2 DEF LayInv, LayoutOK
<1>4. r \in Listed(pend) /\ r \in Queued
  BY <1>1 DEF Listed, Queued
<1>5. UNCHANGED <<work, offset, moved, qState, at, pc>>
  BY DEF CmplDone, CmplPart, lockVars, hwVars, thrVars
<1>6. LayoutOK'
  <2>1. CASE CmplDone
    BY <1>3, <2>1, LaidDone DEF LayoutOK
  <2>2. CASE CmplPart
    BY <1>3, <2>2, LaidPart DEF LayoutOK
  <2>. QED BY <2>1, <2>2
<1>7. OffOK' /\ StaleOK'
  BY <1>1, <1>2, <1>5 DEF LayInv, OffOK, StaleOK, Draining, Inv, StopOK
<1>8. WorkFresh'
  <2>0. descNr' = descNr \/ \E n : descNr' = [descNr EXCEPT ![r] = n]
    BY DEF CmplDone, CmplPart
  <2>1. \A q \in Req : q # r => descNr'[q] = descNr[q]
    BY <2>0 DEF TypeOK, ReqType
  <2>2. ~Unsent(r)
    BY <1>1, <1>4 DEF AnswerInv, FreshOK
  <2>3. \A k \in 2 .. Len(work) : work[k] \in Req /\ work[k] # r
    <3>1. TAKE k \in 2 .. Len(work)
    <3>2. k \in 1 .. Len(work)
      BY LayFacts
    <3>3. work[k] \in Req
      BY <3>2, LayFacts
    <3>. QED BY <1>4, <3>2, <3>3 DEF AnswerInv, ListsOK, Listed
  <2>. HIDE DEF r
  <2>4. \A q \in Req : Unsent(q)' => Unsent(q)
    BY PcFacts
  <2>. QED BY <1>2, <1>5, <2>1, <2>2, <2>3, <2>4 DEF LayInv, WorkFresh, Untouched
<1>9. DoneOK'
  <2>1. CASE CmplDone
    <3>1. moved[r] = NDesc[r]
      BY <1>3, <2>1, LaidDone
    <3>2. /\ done' = [done EXCEPT ![r] = TRUE]
          /\ status' = [status EXCEPT ![r] = "0"]
          /\ result' = result \/ result' = [result EXCEPT ![r] = "ok"]
      BY <2>1 DEF CmplDone, SgtReqDone, Answer
    <3>. HIDE DEF r
    <3>3. done'[r] = TRUE /\ status'[r] = "0"
      BY <1>1, <3>2 DEF TypeOK, ReqType
    <3>4. \A q \in Req : q # r => done'[q] = done[q] /\ status'[q] = status[q] /\ result'[q] = result[q]
      BY <1>1, <3>2 DEF TypeOK, ReqType
    <3>. QED BY <1>5, <3>1, <3>3, <3>4 DEF LayInv, DoneOK
  <2>2. CASE CmplPart
    BY <1>5, <2>2 DEF CmplPart, LayInv, DoneOK
  <2>. QED BY <2>1, <2>2
<1>. QED BY <1>6, <1>7, <1>8, <1>9 DEF LayInv

\* Descriptors of the first request of work_list are written.
LEMMA FillLay ==
    ASSUME Inv, AnswerInv, LayInv, Next, ProcFill
    PROVE  LayInv'
<1>. TypeOK
  BY DEF Inv
<1>1. PICK r \in Req : r = Head(work)
  <2>1. work # <<>> /\ work \in Seq(Req)
    BY DEF ProcFill, TypeOK, QueueType
  <2>. QED BY <2>1
<1>2. PICK n \in Nat : n = Lesser(avail, NDesc[r] - offset[r])
  BY <1>1, FillRing
<1>3. /\ r = work[1] /\ work # <<>> /\ qState = "ONLINE"
      /\ descNr' = [descNr EXCEPT ![r] = @ + n]
      /\ offset' = [offset EXCEPT ![r] = @ + n]
      /\ IF offset[r] + n >= NDesc[r]
         THEN work' = RemoveAt(work, 1) /\ pend' = Append(pend, r)
         ELSE UNCHANGED <<work, pend>>
      /\ UNCHANGED <<moved, qState>>
  BY <1>1, <1>2, FillRing
<1>4. /\ work \in Seq(Req) /\ 1 \in 1 .. Len(work) /\ Len(work) \in Nat
      /\ \A k \in 1 .. Len(work) : work[k] \in Req
  BY <1>3, LayFacts
<1>5. UNCHANGED <<done, status, result, pc>> /\ at' = "loop" /\ ~Draining
  BY DEF ProcFill, thrVars, Draining
<1>6. LayoutOK'
  <2>1. PICK f \in [Req -> Int], e \in Int : LaidOut(f, e)
    BY <1>3 DEF LayInv, LayoutOK
  <2>2. CASE offset[r] + n < NDesc[r]
    BY <1>1, <1>2, <2>1, <2>2, LaidFillMore DEF LayoutOK
  <2>3. CASE offset[r] + n >= NDesc[r]
    BY <1>1, <1>2, <2>1, <2>3, LaidFillLast DEF LayoutOK, LayInv
  <2>4. offset[r] + n < NDesc[r] \/ offset[r] + n >= NDesc[r]
    <3>1. offset[r] \in Int /\ NDesc[r] \in Int
      BY SizeFacts DEF TypeOK, ReqType
    <3>. QED BY <3>1
  <2>. QED BY <2>2, <2>3, <2>4
<1>7. OffOK' /\ StaleOK'
  <2>1. pc[Stp] # "prog"
    BY <1>3 DEF Inv, StopOK
  <2>. QED BY <1>3, <1>5, <2>1 DEF OffOK, StaleOK, Draining
<1>8. DoneOK'
  BY <1>3, <1>5 DEF LayInv, DoneOK
<1>9. WorkFresh'
  <2>1. \A q \in Req : q # r => Untouched(q)' = Untouched(q)
    BY <1>3 DEF Untouched, TypeOK, ReqType
  <2>2. ~Unsent(r)
    <3>1. r \in Queued
      BY <1>3, <1>4 DEF Queued
    <3>. QED BY <3>1 DEF AnswerInv, FreshOK
  <2>3. \A q \in Req : Unsent(q)' => Unsent(q)
    BY PcFacts
  <2>4. \A k \in 2 .. Len(work') : \E j \in 2 .. Len(work) : work'[k] = work[j]
    <3>1. CASE work' = work
      BY <3>1
    <3>2. CASE work' = RemoveAt(work, 1)
      <4>1. TAKE k \in 2 .. Len(work')
      <4>2. /\ Len(RemoveAt(work, 1)) = Len(work) - 1
            /\ \A i \in 1 .. Len(work) - 1 :
                  RemoveAt(work, 1)[i] = IF i < 1 THEN work[i] ELSE work[i + 1]
        BY <1>4, RemoveAtElements
      <4>3. k + 1 \in 2 .. Len(work) /\ k \in 1 .. Len(work) - 1 /\ ~(k < 1)
        BY <1>4, <3>2, <4>2
      <4>4. work'[k] = work[k + 1]
        BY <3>2, <4>2, <4>3
      <4>. QED BY <4>3, <4>4
    <3>. QED BY <1>3, <3>1, <3>2
  <2>5. \A j \in 2 .. Len(work) : work[j] \in Req /\ work[j] # r /\ Untouched(work[j])
    <3>1. TAKE j \in 2 .. Len(work)
    <3>2. j \in 1 .. Len(work) /\ j # 1
      BY <1>4
    <3>. QED BY <1>3, <1>4, <3>2 DEF AnswerInv, ListsOK, NoRepeat, LayInv, WorkFresh
  <2>6. \A q \in Req : q # r /\ Untouched(q) => offset'[q] = 0 /\ descNr'[q] = 0 /\ moved'[q] = 0
    BY <2>1 DEF Untouched
  <2>7. \A k \in 2 .. Len(work') : offset'[work'[k]] = 0 /\ descNr'[work'[k]] = 0 /\ moved'[work'[k]] = 0
    BY <2>4, <2>5, <2>6
  <2>8. \A q \in Req : Unsent(q)' => offset'[q] = 0 /\ descNr'[q] = 0 /\ moved'[q] = 0
    BY <2>2, <2>3, <2>6 DEF LayInv, WorkFresh
  <2>. QED BY <2>7, <2>8 DEF WorkFresh, Untouched
<1>. QED BY <1>6, <1>7, <1>8, <1>9 DEF LayInv

\* Requests join work_list, of which nothing has been written.
LEMMA GrowLay ==
    ASSUME Inv, LayInv, Next, Timed = {}, qState = "ONLINE", work' \in Seq(Req),
           UNCHANGED <<pend, credit, descNr, pidx, cidx, ring, hwc, moved, offset>>,
           UNCHANGED <<qState, at, pos, done, status, result>>,
           work # <<>> => work' # <<>> /\ work'[1] = work[1],
           work = <<>> /\ work' # <<>> => Untouched(work'[1]),
           \A k \in 2 .. Len(work') : Untouched(work'[k])
    PROVE  LayInv'
<1>1. LayoutOK'
  <2>1. PICK f \in [Req -> Int], e \in Int : LaidOut(f, e)
    BY DEF LayInv, LayoutOK
  <2>. QED BY <2>1, LaidGrow DEF LayoutOK, Inv
<1>2. pc[Stp] # "prog" /\ pc'[Stp] # "prog"
  BY PcFacts DEF StartConfig, Inv, StopOK
<1>3. OffOK' /\ StaleOK'
  BY <1>2 DEF LayInv, OffOK, StaleOK, Draining, Inv, LockOK
<1>4. DoneOK'
  <2>1. \A r \in Req : WaitWake(r) => done[r]
    BY DEF WaitWake
  <2>. QED BY <2>1, PcFacts DEF LayInv, DoneOK
<1>5. WorkFresh'
  <2>1. \A r \in Req : Unsent(r)' => Unsent(r)
    BY PcFacts
  <2>. QED BY <2>1 DEF LayInv, WorkFresh, Untouched
<1>. QED BY <1>1, <1>3, <1>4, <1>5 DEF LayInv

LEMMA SubmitLay ==
    ASSUME Inv, AnswerInv, LayInv, Next, Timed = {}, NEW r \in Req, Submit(r)
    PROVE  LayInv'
<1>1. CASE qState = "ONLINE"
  <2>1. /\ work' = Append(work, r) /\ r \notin Batch /\ pc[r] = "new"
        /\ UNCHANGED <<pend, credit, descNr, pidx, cidx, ring, hwc, moved, offset>>
        /\ UNCHANGED <<qState, at, pos, done, status, result>>
    BY <1>1 DEF Submit, WorkAdd, lockVars, hwVars
  <2>2. work \in Seq(Req) /\ work' \in Seq(Req) /\ work' # <<>>
    BY <2>1 DEF Inv, TypeOK, QueueType
  <2>3. Untouched(r)
    BY <2>1 DEF LayInv, WorkFresh, Unsent
  <2>4. /\ Len(work') = Len(work) + 1 /\ Len(work) \in Nat /\ work'[Len(work) + 1] = r
        /\ \A k \in 1 .. Len(work) : work'[k] = work[k]
    BY <2>1, <2>2
  <2>5. work # <<>> => work'[1] = work[1]
    BY <2>2, <2>4
  <2>6. work = <<>> => Untouched(work'[1])
    BY <2>3, <2>4
  <2>7. \A k \in 2 .. Len(work') : Untouched(work'[k])
    <3>1. TAKE k \in 2 .. Len(work')
    <3>2. CASE k = Len(work) + 1
      BY <2>3, <2>4, <3>2
    <3>3. CASE k # Len(work) + 1
      <4>1. k \in 2 .. Len(work) /\ k \in 1 .. Len(work)
        BY <2>4, <3>3
      <4>. QED BY <1>1, <2>4, <4>1 DEF LayInv, WorkFresh
    <3>. QED BY <3>2, <3>3
  <2>. QED BY <1>1, <2>1, <2>2, <2>5, <2>6, <2>7, GrowLay
<1>2. CASE qState # "ONLINE"
  <2>1. /\ UNCHANGED <<qState, work, pend, avail, pidx, cidx, credit, live, lockVars, hwVars>>
        /\ UNCHANGED <<offset, descNr, done, status>>
        /\ result' = [result EXCEPT ![r] = "EINVAL"]
    BY <1>2 DEF Submit
  <2>2. \A q \in Req : result'[q] = "ok" => result[q] = "ok"
    BY <2>1 DEF Inv, TypeOK, ReqType
  <2>. QED BY <2>1, <2>2, QuietLay DEF layVars, lockVars, hwVars
<1>. QED BY <1>1, <1>2

LEMMA BatchLay ==
    ASSUME Inv, AnswerInv, LayInv, Next, Timed = {}, BatchQueue
    PROVE  LayInv'
<1>1. CASE qState = "ONLINE"
  <2>1. /\ work' = work \o BatchSeq /\ BatchSeq # <<>> /\ pc[BatchSeq[1]] = "mapped"
        /\ UNCHANGED <<pend, credit, descNr, pidx, cidx, ring, hwc, moved, offset>>
        /\ UNCHANGED <<qState, at, pos, done, status, result>>
    BY <1>1 DEF BatchQueue, lockVars, hwVars
  <2>2. work \in Seq(Req) /\ BatchSeq \in Seq(Req) /\ work' \in Seq(Req)
    BY <2>1, BatchFacts, ConcatType DEF Inv, TypeOK, QueueType
  <2>3. \A k \in 1 .. Len(BatchSeq) : Untouched(BatchSeq[k])
    <3>1. \A k \in 1 .. Len(BatchSeq) : BatchSeq[k] \in Batch /\ BatchSeq[k] \in Req
      BY <2>2 DEF Batch
    <3>. QED BY <2>1, <3>1 DEF LayInv, WorkFresh, Unsent
  <2>4. /\ Len(work') = Len(work) + Len(BatchSeq)
        /\ \A k \in 1 .. Len(work') :
              work'[k] = IF k <= Len(work) THEN work[k] ELSE BatchSeq[k - Len(work)]
    BY <2>1, <2>2, ConcatProperties
  <2>5. Len(work) \in Nat /\ Len(BatchSeq) \in Nat /\ Len(BatchSeq) # 0
    BY <2>1, <2>2
  <2>6. work' # <<>>
    BY <2>2, <2>4, <2>5
  <2>7. work # <<>> => work'[1] = work[1]
    <3>1. work # <<>> => 1 <= Len(work)
      BY <2>2
    <3>. QED BY <2>4, <2>5, <3>1
  <2>8. work = <<>> => Untouched(work'[1])
    <3>. SUFFICES ASSUME work = <<>> PROVE Untouched(work'[1])
      OBVIOUS
    <3>1. Len(work) = 0 /\ 1 \in 1 .. Len(work') /\ 1 \in 1 .. Len(BatchSeq)
      BY <2>4, <2>5
    <3>2. work'[1] = BatchSeq[1]
      BY <2>4, <3>1
    <3>. QED BY <2>3, <3>1, <3>2
  <2>9. \A k \in 2 .. Len(work') : Untouched(work'[k])
    <3>1. TAKE k \in 2 .. Len(work')
    <3>2. CASE k <= Len(work)
      <4>1. k \in 2 .. Len(work) /\ k \in 1 .. Len(work')
        BY <2>4, <2>5, <3>2
      <4>. QED BY <1>1, <2>4, <3>2, <4>1 DEF LayInv, WorkFresh
    <3>3. CASE ~(k <= Len(work))
      <4>1. k - Len(work) \in 1 .. Len(BatchSeq) /\ k \in 1 .. Len(work')
        BY <2>4, <2>5, <3>3
      <4>. QED BY <2>3, <2>4, <3>3, <4>1
    <3>. QED BY <3>2, <3>3
  <2>. QED BY <1>1, <2>1, <2>2, <2>6, <2>7, <2>8, <2>9, GrowLay
<1>2. CASE qState # "ONLINE"
  <2>1. /\ UNCHANGED <<qState, work, pend, avail, pidx, cidx, credit, live, lockVars, hwVars>>
        /\ UNCHANGED <<offset, descNr, done, status>>
        /\ result' = [r \in Req |-> IF r \in Batch THEN "EINVAL" ELSE result[r]]
    BY <1>2 DEF BatchQueue
  <2>2. \A q \in Req : result'[q] = "ok" => result[q] = "ok"
    BY <2>1
  <2>. QED BY <2>1, <2>2, QuietLay DEF layVars, lockVars, hwVars
<1>. QED BY <1>1, <1>2

\* The queue goes offline: what the hardware has left is of open requests.
LEMMA StopLay ==
    ASSUME Inv, AnswerInv, LayInv, Next, Timed = {}, StopDrain
    PROVE  LayInv'
<1>. TypeOK
  BY DEF Inv
<1>1. /\ qState' = "ENABLED" /\ at' = "drainPend" /\ pos' = 1
      /\ UNCHANGED <<work, pend, offset, descNr, moved, ring, hwc, doorbell, done, status>>
      /\ UNCHANGED <<result, pc, live>> /\ pc[Stp] \in {"drained", "expired"} /\ at = "free"
  BY DEF StopDrain, hwVars, reqVars, thrVars
<1>2. LayoutOK'
  BY <1>1 DEF LayoutOK
<1>3. OffOK'
  BY <1>1 DEF OffOK, Draining
<1>4. WorkFresh' /\ DoneOK'
  BY <1>1, PcFacts DEF LayInv, WorkFresh, DoneOK, Untouched
<1>5. StaleOK'
  <2>. SUFFICES ASSUME live, NEW i \in Slot, Delta(i, hwc) < Delta(doorbell, hwc)
                PROVE  /\ ring[i] \in Req /\ ~Unsent(ring[i])
                       /\ ~(done[ring[i]] /\ status[ring[i]] = "0")
    BY <1>1 DEF StaleOK, Delta, Unsent
  <2>1. CASE qState # "ONLINE"
    BY <2>1 DEF LayInv, StaleOK
  <2>2. CASE qState = "ONLINE"
    <3>1. PICK f \in [Req -> Int], e \in Int : LaidOut(f, e)
      BY <2>2 DEF LayInv, LayoutOK
    <3>2. hwc \in Slot /\ doorbell \in Slot /\ cidx \in Slot
      BY LayFacts
    <3>3. /\ Executed <= Delta(doorbell, cidx) /\ Delta(doorbell, cidx) <= Outstanding
          /\ Executed \in Nat /\ Outstanding \in Nat /\ Delta(doorbell, cidx) \in Nat
      BY ExecutedFits
    <3>4. Delta(doorbell, hwc) = Delta(doorbell, cidx) - Executed
      BY <3>2, <3>3, DeltaSplit DEF Executed
    <3>5. Delta(i, cidx) < Outstanding
      <4>1. Delta(i, hwc) \in Nat /\ Delta(doorbell, cidx) < RngSz
        BY <3>2, DeltaType, SizeFacts
      <4>2. Delta(i, cidx) = Executed + Delta(i, hwc)
        <5>1. Executed + Delta(i, hwc) < RngSz
          BY <3>3, <3>4, <4>1, SizeFacts
        <5>. QED BY <3>2, <5>1, SizeFacts, SMTT(30) DEF Executed, Delta, Slot
      <4>. QED BY <3>3, <3>4, <4>1, <4>2
    <3>6. ring[i] \in Queued /\ ring[i] \in Req
      <4>1. \A k \in 1 .. Len(pend) : pend[k] \in Req
        BY LayFacts
      <4>2. work # <<>> => work[1] \in Req /\ 1 \in 1 .. Len(work)
        BY LayFacts
      <4>. QED BY <3>1, <3>5, <4>1, <4>2 DEF LaidOut, Owned, Queued, Listed
    <3>. QED BY <3>6 DEF AnswerInv, OpenOK, FreshOK
  <2>. QED BY <2>1, <2>2
<1>. QED BY <1>2, <1>3, <1>4, <1>5 DEF LayInv

\* The drain of the two lists.
LEMMA DrainLay ==
    ASSUME Inv, AnswerInv, LayInv, Next, Timed = {}, Drain
    PROVE  LayInv'
<1>. TypeOK
  BY DEF Inv
<1>1. /\ Draining /\ pos = 1 /\ Sync = {} /\ qState = "ENABLED" /\ cur = Stp
      /\ pc[Stp] \in {"drained", "expired"}
  <2>1. Draining
    BY DEF Drain, DrainPend, DrainNext, DrainWork, DrainEnd, Draining
  <2>. QED BY <2>1 DEF Draining, Inv, LockOK, LayInv, OffOK, AnswerInv, CalmOK
<1>2. /\ UNCHANGED <<qState, offset, descNr, moved, ring, hwc, doorbell, live>>
      /\ pc' = pc \/ pc' = [pc EXCEPT ![Stp] = "teardown"]
  BY <1>1 DEF Drain, DrainPend, DrainNext, DrainWork, DrainEnd, Unlock, hwVars, thrVars, qVars, reqVars
<1>3. LayoutOK'
  BY <1>1, <1>2 DEF LayoutOK
<1>4. WorkFresh'
  BY <1>1, <1>2, PcFacts DEF LayInv, WorkFresh, Untouched
<1>5. pc'[Stp] # "prog"
  BY <1>1, PcFacts DEF StartConfig
<1>6. \/ UNCHANGED <<done, status, result>>
      \/ \E r \in Req : /\ done' = [done EXCEPT ![r] = TRUE]
                        /\ status' = [status EXCEPT ![r] = "ENXIO"]
                        /\ result' = [result EXCEPT ![r] = "ENXIO"] /\ result[r] = "none"
  <2>1. CASE DrainPend
    <3>1. pend[1] \in Req /\ pend[1] \in Queued
      <4>1. 1 \in 1 .. Len(pend)
        BY <1>1, <2>1, LayFacts DEF DrainPend, DrainOne
      <4>. QED BY <4>1, LayFacts DEF Queued
    <3>. QED BY <1>1, <2>1, <3>1 DEF DrainPend, DrainOne, AnswerInv, OpenOK
  <2>2. CASE DrainWork
    <3>1. work[1] \in Req /\ work[1] \in Queued
      <4>1. 1 \in 1 .. Len(work)
        BY <1>1, <2>2, LayFacts DEF DrainWork, DrainOne
      <4>. QED BY <4>1, LayFacts DEF Queued
    <3>. QED BY <1>1, <2>2, <3>1 DEF DrainWork, DrainOne, AnswerInv, OpenOK
  <2>3. CASE DrainNext \/ DrainEnd
    BY <2>3 DEF DrainNext, DrainEnd, reqVars
  <2>. QED BY <2>1, <2>2, <2>3 DEF Drain
<1>7. /\ \A r \in Req : done'[r] /\ status'[r] = "0" => done[r] /\ status[r] = "0"
      /\ \A r \in Req : done[r] => done'[r]
      /\ \A r \in Req : result'[r] = "ok" => result[r] = "ok" /\ done'[r] = done[r]
                                             /\ status'[r] = status[r]
  <2>1. CASE UNCHANGED <<done, status, result>>
    BY <2>1
  <2>2. CASE \E r \in Req : /\ done' = [done EXCEPT ![r] = TRUE]
                            /\ status' = [status EXCEPT ![r] = "ENXIO"]
                            /\ result' = [result EXCEPT ![r] = "ENXIO"] /\ result[r] = "none"
    <3>1. PICK r \in Req : /\ done' = [done EXCEPT ![r] = TRUE]
                           /\ status' = [status EXCEPT ![r] = "ENXIO"]
                           /\ result' = [result EXCEPT ![r] = "ENXIO"] /\ result[r] = "none"
      BY <2>2
    <3>2. done'[r] = TRUE /\ status'[r] = "ENXIO" /\ result'[r] = "ENXIO"
      BY <3>1 DEF TypeOK, ReqType
    <3>3. \A q \in Req : q # r => done'[q] = done[q] /\ status'[q] = status[q] /\ result'[q] = result[q]
      BY <3>1 DEF TypeOK, ReqType
    <3>. QED BY <3>2, <3>3
  <2>. QED BY <1>6, <2>1, <2>2
<1>8. DoneOK'
  <2>1. \A r \in Req : WaitWake(r) => done[r]
    BY DEF WaitWake
  <2>. QED BY <1>2, <1>7, <2>1, PcFacts DEF LayInv, DoneOK
<1>9. StaleOK'
  BY <1>1, <1>2, <1>7, PcFacts DEF LayInv, StaleOK, Delta
<1>10. OffOK'
  <2>1. CASE DrainPend
    BY <1>1, <1>5, <2>1 DEF DrainPend, DrainOne, OffOK, Draining
  <2>2. CASE DrainNext
    <3>1. pend = <<>>
      BY <1>1, <2>2 DEF DrainNext, TypeOK, QueueType
    <3>. QED BY <1>5, <2>2, <3>1 DEF DrainNext, OffOK, Draining, qVars
  <2>3. CASE DrainWork
    BY <1>1, <1>5, <2>3 DEF DrainWork, DrainOne, LayInv, OffOK, Draining
  <2>4. CASE DrainEnd
    <3>1. work = <<>> /\ pend = <<>>
      BY <1>1, <2>4 DEF DrainEnd, LayInv, OffOK, TypeOK, QueueType
    <3>. QED BY <1>5, <2>4, <3>1 DEF DrainEnd, Unlock, OffOK, Draining, qVars
  <2>. QED BY <2>1, <2>2, <2>3, <2>4 DEF Drain
<1>. QED BY <1>3, <1>4, <1>8, <1>9, <1>10 DEF LayInv

\* The queue is configured and goes online again.
LEMMA StartLay ==
    ASSUME Inv, AnswerInv, LayInv, Next, Timed = {}, StartConfig \/ StartOnline
    PROVE  LayInv'
<1>1. CASE StartConfig
  <2>1. /\ qState = "ENABLED" /\ qState' = "ENABLED" /\ credit' = 0
        /\ UNCHANGED <<work, pend, live, lockVars, hwVars, reqVars>>
    BY <1>1 DEF StartConfig, ResetIndices
  <2>2. LayoutOK'
    BY <2>1 DEF LayoutOK
  <2>3. \A r \in Req : WaitWake(r) => done[r]
    BY DEF WaitWake
  <2>. QED BY <2>1, <2>2, <2>3, LayFrame DEF lockVars, hwVars, reqVars
<1>2. CASE StartOnline
  <2>1. /\ pc[Stp] = "prog" /\ at = "free" /\ qState' = "ONLINE"
        /\ UNCHANGED <<work, pend, credit, lockVars, moved, reqVars>>
        /\ pc' = [pc EXCEPT ![Stp] = "idle"]
    BY <1>2 DEF StartOnline
  <2>2. work = <<>> /\ pend = <<>> /\ credit = 0
    BY <2>1 DEF LayInv, OffOK, Draining, Inv, StopOK
  <2>3. LayoutOK'
    BY <1>2, <2>2, LaidStart
  <2>4. WorkFresh'
    BY <2>1, <2>2, PcFacts DEF LayInv, WorkFresh, Untouched, reqVars
  <2>5. DoneOK'
    <3>1. \A r \in Req : WaitWake(r) => done[r]
      BY DEF WaitWake
    <3>. QED BY <2>1, <3>1, PcFacts DEF LayInv, DoneOK, reqVars
  <2>6. StaleOK' /\ OffOK'
    BY <2>1, <2>2 DEF StaleOK, OffOK, Draining, lockVars
  <2>. QED BY <2>3, <2>4, <2>5, <2>6 DEF LayInv
<1>. QED BY <1>1, <1>2

\* Whose descriptor the hardware executes: that of an open request.
LEMMA ExecOpen ==
    ASSUME Inv, AnswerInv, LayInv, HwExec
    PROVE  /\ ring[hwc] \in Req /\ ~Unsent(ring[hwc])
           /\ ~(done[ring[hwc]] /\ status[ring[hwc]] = "0")
           /\ qState = "ONLINE" => ring[hwc] \in Queued
<1>1. live /\ hwc # doorbell /\ hwc \in Slot /\ doorbell \in Slot
  BY DEF HwExec, Inv, TypeOK, HwType
<1>2. CASE qState = "ONLINE"
  <2>1. PICK f \in [Req -> Int], e \in Int : LaidOut(f, e)
    BY <1>2 DEF LayInv, LayoutOK
  <2>2. ring[hwc] \in Req /\ ring[hwc] \in Queued
    BY <2>1, ExecOwner
  <2>. QED BY <2>2 DEF AnswerInv, OpenOK, FreshOK
<1>3. CASE qState # "ONLINE"
  <2>1. Delta(hwc, hwc) = 0 /\ Delta(doorbell, hwc) \in Nat /\ Delta(doorbell, hwc) # 0
    BY <1>1, DeltaType, SizeFacts
  <2>2. Delta(hwc, hwc) < Delta(doorbell, hwc)
    BY <2>1
  <2>. QED BY <1>1, <1>3, <2>2 DEF LayInv, StaleOK
<1>. QED BY <1>2, <1>3

LEMMA ExecLay ==
    ASSUME Inv, AnswerInv, LayInv, Next, Timed = {}, HwExec
    PROVE  LayInv'
<1>. TypeOK
  BY DEF Inv
<1>1. /\ UNCHANGED <<qVars, lockVars, ring, doorbell, reqVars, thrVars>>
      /\ hwc' = Incr(hwc, 1) /\ hwc # doorbell /\ live
      /\ moved' = [r \in Req |-> IF r = ring[hwc] THEN moved[r] + 1 ELSE moved[r]]
  BY DEF HwExec
<1>2. PICK r \in Req : r = ring[hwc]
  BY ExecOpen
<1>3. ~Unsent(r) /\ ~(done[r] /\ status[r] = "0") /\ (qState = "ONLINE" => r \in Queued)
  BY <1>2, ExecOpen
<1>4. \A q \in Req : q # r => moved'[q] = moved[q]
  BY <1>1, <1>2
<1>5. LayoutOK'
  BY <1>1, LaidExec DEF LayInv, LayoutOK, qVars
<1>6. DoneOK'
  BY <1>1, <1>3, <1>4 DEF LayInv, DoneOK, reqVars, thrVars
<1>7. OffOK'
  BY <1>1 DEF LayInv, OffOK, Draining, qVars, lockVars, thrVars
<1>8. WorkFresh'
  <2>1. \A q \in Req : Unsent(q)' <=> Unsent(q)
    BY <1>1, UnsentFrame DEF thrVars
  <2>2. qState = "ONLINE" => \A k \in 2 .. Len(work) : work[k] \in Req /\ work[k] # r
    <3>. SUFFICES ASSUME qState = "ONLINE", NEW k \in 2 .. Len(work)
                  PROVE  work[k] \in Req /\ work[k] # r
      OBVIOUS
    <3>0. Len(work) \in Nat
      BY LayFacts
    <3>1. k \in 1 .. Len(work) /\ 1 \in 1 .. Len(work) /\ k # 1
      BY <3>0
    <3>2. work[k] \in Req
      BY <3>1, LayFacts
    <3>3. PICK f \in [Req -> Int], e \in Int : LaidOut(f, e)
      BY DEF LayInv, LayoutOK
    <3>4. r \in Listed(pend) \/ r = work[1]
      BY <1>2, <3>3, ExecOwner
    <3>. QED BY <3>1, <3>2, <3>4 DEF AnswerInv, ListsOK, NoRepeat, Listed
  <2>. QED BY <1>1, <1>3, <1>4, <2>1, <2>2 DEF LayInv, WorkFresh, Untouched, qVars, reqVars
<1>9. StaleOK'
  <2>. SUFFICES ASSUME qState # "ONLINE", NEW i \in Slot,
                       Delta(i, Incr(hwc, 1)) < Delta(doorbell, Incr(hwc, 1))
                PROVE  Delta(i, hwc) < Delta(doorbell, hwc)
    BY <1>1, UnsentFrame DEF LayInv, StaleOK, Delta, Unsent, qVars, reqVars, thrVars
  <2>1. hwc \in Slot /\ doorbell \in Slot
    BY DEF TypeOK, HwType
  <2>. QED BY <1>1, <2>1, SizeFacts, SMTT(30) DEF Delta, Incr, Slot
<1>. QED BY <1>5, <1>6, <1>7, <1>8, <1>9 DEF LayInv

\* Every step keeps the layout.
LEMMA LayStep ==
    ASSUME Inv, AnswerInv, LayInv, Timed = {}, [Next]_vars
    PROVE  LayInv'
<1>1. CASE UNCHANGED vars
  <2>1. UNCHANGED layVars /\ UNCHANGED <<qState, live, at, pos, doorbell, done, status, result, pc>>
    BY <1>1 DEF vars, qVars, lockVars, hwVars, reqVars, thrVars, layVars
  <2>2. LayoutOK'
    BY <2>1, LayoutFrame DEF LayInv
  <2>3. WorkFresh' /\ DoneOK' /\ OffOK'
    BY <2>1 DEF LayInv, WorkFresh, DoneOK, OffOK, Untouched, Unsent, Draining, layVars
  <2>4. StaleOK'
    BY <2>1 DEF LayInv, StaleOK, Unsent, Delta, layVars
  <2>. QED BY <2>2, <2>3, <2>4 DEF LayInv
<1>2. CASE Next
  <2>1. CASE Cmpl \/ Loop \/ ProcExit \/ ProcStopExit \/ SvcCheck
    BY <1>2, <2>1, CmplLay, FillLay, ReapersLay, OthersLay DEF Cmpl, Loop
  <2>2. CASE Drain
    BY <1>2, <2>2, DrainLay
  <2>3. CASE Service \/ \E t \in Req \cup {Svc} : Proc(t)
    BY <1>2, <2>3, ReapersLay, OthersLay DEF Service, Proc
  <2>4. CASE Hw
    BY <1>2, <2>4, ExecLay, OthersLay DEF Hw
  <2>5. CASE Stop \/ Start
    BY <1>2, <2>5, StopLay, StartLay, OthersLay DEF Stop, Start
  <2>6. CASE BatchMap \/ BatchQueue
    BY <1>2, <2>6, OthersLay, BatchLay
  <2>7. CASE \E r \in Req : Call(r)
    BY <1>2, <2>7, SubmitLay, CallerLay DEF Call
  <2>. QED BY <1>2, <2>1, <2>2, <2>3, <2>4, <2>5, <2>6, <2>7 DEF Next, Holder
<1>. QED BY <1>1, <1>2

LEMMA InitLay == Init => LayInv
<1>. SUFFICES ASSUME Init PROVE LayInv
  OBVIOUS
<1>1. pc[Stp] = "idle" /\ \A r \in Req : pc[r] = "new"
  BY ReqAssumption DEF Init, Thread
<1>2. LayoutOK /\ OffOK /\ StaleOK
  BY <1>1 DEF Init, LayoutOK, OffOK, StaleOK, Draining
<1>3. WorkFresh
  BY DEF Init, WorkFresh, Untouched
<1>4. DoneOK
  BY <1>1 DEF Init, DoneOK
<1>. QED BY <1>2, <1>3, <1>4 DEF LayInv

(***************************************************************************)
(* The inductive invariant of the layout: where each request lies, that a  *)
(* request not begun has no descriptor yet, what a finished request and a  *)
(* failed one have had executed, and what the lists hold while the queue   *)
(* is offline (descq_mm_proc_request, descq_proc_st_h2c_request,           *)
(* qdma_update_request, qdma_sgt_req_done, qdma_queue_stop).               *)
(***************************************************************************)
THEOREM LayInvHolds == ASSUME CalmUse, Timed = {} PROVE Spec => []LayInv
<1>1. Inv /\ AnswerInv /\ LayInv /\ [Next]_vars => LayInv'
  BY LayStep
<1>. QED BY <1>1, InitLay, InvHolds, AnswerInvHolds, PTL DEF Spec

(***************************************************************************)
(* While a queue is online, the slots between cidx and pidx hold the       *)
(* descriptors of pend_list in its order and then those of the first       *)
(* request of work_list: the completions, which descq_mm_n_h2c_cmpl_status *)
(* counts off from the head of pend_list, are those of the right request.  *)
(***************************************************************************)
THEOREM LaidInOrder == ASSUME CalmUse, Timed = {} PROVE Spec => []LayoutOK
<1>1. LayInv => LayoutOK
  BY DEF LayInv
<1>. QED BY <1>1, LayInvHolds, PTL

(***************************************************************************)
(* A request that is answered with success has had every one of its        *)
(* descriptors executed (descq_mm_n_h2c_cmpl_status, qdma_sgt_req_done):   *)
(* neither the credit carried between two reaps nor a wrap of the ring     *)
(* completes one early.                                                    *)
(***************************************************************************)
THEOREM SuccessMeansMoved == ASSUME CalmUse, Timed = {} PROVE Spec => []NoEarlyCompletion
<1>1. LayInv => NoEarlyCompletion
  BY DEF LayInv, DoneOK, NoEarlyCompletion
<1>. QED BY <1>1, LayInvHolds, PTL

-----------------------------------------------------------------------------
(* The credits.  The descriptors waited for lie side by side, from the     *)
(* first one not reaped or not credited yet to the producer index: there   *)
(* is one for each number from -credit to Outstanding - 1.                 *)

\* A position before e is that of a request on pend_list.
LEMMA PendCovers ==
    ASSUME TypeOK, NEW f \in [Req -> Int], NEW e \in Int, Packed(f, e),
           NEW p \in Int, -credit <= p, p < e
    PROVE  \E k \in 1 .. Len(pend) : f[pend[k]] <= p /\ p < End(f, pend[k])
<1>. DEFINE n == Len(pend)
            T == {j \in Nat : j < n /\ f[pend[n - j]] <= p}
<1>1. credit \in Nat /\ n \in Nat /\ \A k \in 1 .. n : pend[k] \in Req
  BY LayFacts
<1>2. pend # <<>>
  BY <1>1 DEF Packed
<1>3. 1 \in 1 .. n /\ f[pend[1]] + credit = 0 /\ f[pend[1]] \in Int
  BY <1>1, <1>2, LayFacts DEF Packed
<1>4. n - 1 \in T
  <2>1. n - 1 \in Nat /\ n - 1 < n /\ n - (n - 1) = 1
    BY <1>1, <1>3
  <2>2. f[pend[1]] <= p
    BY <1>1, <1>3
  <2>. QED BY <2>1, <2>2
<1>5. PICK j \in T : \A i \in T : ~(<< i, j >> \in OpToRel(<, Nat))
  <2>1. T \subseteq Nat /\ T # {}
    BY <1>4
  <2>. HIDE DEF T
  <2>. QED BY <2>1, WFMin, NatLessThanWellFounded
<1>6. \A i \in T : ~(i < j)
  BY <1>5 DEF OpToRel
<1>. DEFINE k == n - j
<1>7. j \in Nat /\ j < n /\ k \in 1 .. n /\ f[pend[k]] <= p
  <2>1. j \in Nat /\ j < n /\ f[pend[n - j]] <= p
    OBVIOUS
  <2>2. n - j \in 1 .. n
    BY <1>1, <2>1
  <2>. QED BY <2>1, <2>2
<1>8. p < End(f, pend[k])
  <2>1. CASE j = 0
    BY <1>1, <1>2, <1>7, <2>1 DEF Packed
  <2>2. CASE j # 0
    <3>1. j - 1 \in Nat /\ j - 1 < j /\ j - 1 < n /\ n - (j - 1) = k + 1 /\ k \in 1 .. n - 1
          /\ k + 1 \in 1 .. n
      BY <1>1, <1>7, <2>2
    <3>2. j - 1 \notin T
      BY <1>6, <3>1
    <3>3. ~(f[pend[k + 1]] <= p)
      BY <3>1, <3>2
    <3>4. f[pend[k + 1]] = End(f, pend[k])
      BY <3>1 DEF Packed
    <3>5. f[pend[k + 1]] \in Int
      BY <1>1, <3>1
    <3>. QED BY <3>3, <3>4, <3>5
  <2>. QED BY <2>1, <2>2
<1>. QED BY <1>7, <1>8

LEMMA CreditsCover ==
    ASSUME TypeOK, AnswerInv, WorkFresh, qState = "ONLINE",
           NEW f \in [Req -> Int], NEW e \in Int, Packed(f, e)
    PROVE  /\ \A r \in Queued : descNr[r] >= 0
           /\ Cardinality(Awaited) = Outstanding + credit
<1>. DEFINE F == [r \in Req |-> IF work # <<>> /\ r = work[1] THEN e ELSE f[r]]
            Places == -credit .. Outstanding - 1
            m == [x \in Awaited |-> F[x[1]] + x[2] - 1]
<1>1. /\ credit \in Nat /\ Outstanding \in Nat /\ Begun \in Int /\ Begun >= 0
      /\ Outstanding = e + Begun
      /\ descNr \in [Req -> Int] /\ Queued \subseteq Req /\ F \in [Req -> Int]
  <2>1. credit \in Nat /\ Outstanding \in Nat /\ Begun \in Int /\ descNr \in [Req -> Int]
    BY LayFacts
  <2>2. Begun >= 0 /\ Outstanding = e + Begun
    BY DEF Packed
  <2>3. Queued \subseteq Req
    BY LayFacts DEF Queued
  <2>4. F \in [Req -> Int]
    OBVIOUS
  <2>. QED BY <2>1, <2>2, <2>3, <2>4
<1>2. \A k \in 1 .. Len(pend) : pend[k] \in Queued /\ F[pend[k]] = f[pend[k]]
  <2>1. \A k \in 1 .. Len(pend) : work # <<>> => pend[k] # work[1]
    <3>1. work # <<>> => work[1] \in Listed(work)
      BY LayFacts DEF Listed
    <3>2. \A k \in 1 .. Len(pend) : pend[k] \in Listed(pend)
      BY DEF Listed
    <3>. QED BY <3>1, <3>2 DEF AnswerInv, ListsOK
  <2>2. \A k \in 1 .. Len(pend) : pend[k] \in Queued /\ pend[k] \in Req
    BY LayFacts DEF Queued
  <2>. QED BY <2>1, <2>2
<1>3. work # <<>> => /\ work[1] \in Queued /\ F[work[1]] = e /\ descNr[work[1]] = Begun
  BY LayFacts DEF Begun, Queued
<1>4. \A r \in Queued : \/ \E k \in 1 .. Len(pend) : r = pend[k]
                        \/ work # <<>> /\ r = work[1]
                        \/ descNr[r] = 0
  <2>. TAKE r \in Queued
  <2>1. CASE \E k \in 1 .. Len(work) : r = work[k]
    <3>1. PICK k \in 1 .. Len(work) : r = work[k]
      BY <2>1
    <3>2. Len(work) \in Nat /\ (k = 1 \/ k \in 2 .. Len(work)) /\ work # <<>>
      BY <3>1, LayFacts
    <3>. QED BY <3>1, <3>2 DEF WorkFresh, Untouched
  <2>. QED BY <2>1 DEF Queued
<1>5. \A k \in 1 .. Len(pend) : /\ descNr[pend[k]] \in Nat /\ F[pend[k]] \in Int
                                /\ -credit <= F[pend[k]]
                                /\ F[pend[k]] + descNr[pend[k]] <= e
  <2>. TAKE k \in 1 .. Len(pend)
  <2>1. /\ f[pend[k]] \in Int /\ descNr[pend[k]] \in Nat
        /\ End(f, pend[k]) = f[pend[k]] + descNr[pend[k]] /\ End(f, pend[k]) <= e
    BY PackedFacts
  <2>2. pend # <<>> /\ 1 \in 1 .. Len(pend) /\ Len(pend) \in Nat
    BY LayFacts
  <2>3. f[pend[1]] + credit = 0
    BY <2>2 DEF Packed
  <2>4. /\ f[pend[1]] \in Int /\ descNr[pend[1]] \in Nat
        /\ End(f, pend[1]) = f[pend[1]] + descNr[pend[1]]
    BY <2>2, PackedFacts
  <2>5. 1 < k => End(f, pend[1]) <= f[pend[k]]
    BY <2>2 DEF Packed
  <2>6. -credit <= f[pend[k]]
    BY <1>1, <2>1, <2>2, <2>3, <2>4, <2>5
  <2>. QED BY <1>2, <2>1, <2>6
<1>6. -credit <= e
  <2>1. CASE pend = <<>>
    BY <1>1, <2>1 DEF Packed
  <2>2. CASE pend # <<>>
    <3>1. 1 \in 1 .. Len(pend)
      BY <2>2, LayFacts
    <3>2. /\ descNr[pend[1]] \in Nat /\ F[pend[1]] \in Int /\ -credit <= F[pend[1]]
          /\ F[pend[1]] + descNr[pend[1]] <= e
      BY <1>5, <3>1
    <3>. QED BY <1>1, <3>2
  <2>. QED BY <2>1, <2>2
<1>7. \A r \in Queued : descNr[r] >= 0
  <2>. TAKE r \in Queued
  <2>1. CASE \E k \in 1 .. Len(pend) : r = pend[k]
    <3>1. PICK k \in 1 .. Len(pend) : r = pend[k]
      BY <2>1
    <3>2. descNr[pend[k]] >= 0
      BY DEF Packed
    <3>. QED BY <3>1, <3>2
  <2>2. CASE work # <<>> /\ r = work[1]
    BY <1>1, <1>3, <2>2
  <2>. QED BY <1>4, <2>1, <2>2
\* Each request lies within the interval, ...
<1>8. \A r \in Queued : descNr[r] > 0 => /\ -credit <= F[r]
                                         /\ F[r] + descNr[r] <= Outstanding
  <2>. TAKE r \in Queued
  <2>1. CASE \E k \in 1 .. Len(pend) : r = pend[k]
    <3>1. /\ descNr[r] \in Nat /\ F[r] \in Int /\ -credit <= F[r] /\ F[r] + descNr[r] <= e
      BY <1>5, <2>1
    <3>. QED BY <1>1, <3>1
  <2>2. CASE work # <<>> /\ r = work[1]
    BY <1>1, <1>3, <1>6, <2>2
  <2>. QED BY <1>4, <2>1, <2>2
\* ... and two of them do not overlap.
<1>9. \A r, s \in Queued : r # s /\ descNr[r] > 0 /\ descNr[s] > 0 =>
          F[r] + descNr[r] <= F[s] \/ F[s] + descNr[s] <= F[r]
  <2>. TAKE r, s \in Queued
  <2>. SUFFICES ASSUME r # s, descNr[r] > 0, descNr[s] > 0
                PROVE  F[r] + descNr[r] <= F[s] \/ F[s] + descNr[s] <= F[r]
    OBVIOUS
  <2>1. CASE \E j, k \in 1 .. Len(pend) : r = pend[j] /\ s = pend[k]
    <3>1. PICK j, k \in 1 .. Len(pend) : r = pend[j] /\ s = pend[k]
      BY <2>1
    <3>2. j \in Int /\ k \in Int /\ j # k
      BY <3>1
    <3>3. (j < k => End(f, r) <= f[s]) /\ (k < j => End(f, s) <= f[r])
      BY <3>1 DEF Packed
    <3>4. End(f, r) = F[r] + descNr[r] /\ End(f, s) = F[s] + descNr[s] /\ f[r] = F[r] /\ f[s] = F[s]
      BY <1>2, <3>1 DEF End
    <3>5. j < k \/ k < j
      BY <3>2
    <3>. QED BY <3>3, <3>4, <3>5
  <2>2. CASE (\E j \in 1 .. Len(pend) : r = pend[j]) /\ work # <<>> /\ s = work[1]
    BY <1>3, <1>5, <2>2
  <2>3. CASE (\E j \in 1 .. Len(pend) : s = pend[j]) /\ work # <<>> /\ r = work[1]
    BY <1>3, <1>5, <2>3
  <2>. QED BY <1>4, <2>1, <2>2, <2>3
\* And they fill it.
<1>10. \A p \in Places : \E r \in Queued : F[r] <= p /\ p < F[r] + descNr[r]
  <2>. TAKE p \in Places
  <2>0. p \in Int /\ -credit <= p /\ p < Outstanding
    BY <1>1
  <2>1. CASE p < e
    <3>1. PICK k \in 1 .. Len(pend) : f[pend[k]] <= p /\ p < End(f, pend[k])
      BY <2>0, <2>1, PendCovers
    <3>2. pend[k] \in Queued /\ F[pend[k]] = f[pend[k]]
      BY <1>2
    <3>. QED BY <3>1, <3>2 DEF End
  <2>2. CASE ~(p < e)
    <3>1. Begun # 0
      BY <1>1, <2>0, <2>2
    <3>2. work # <<>>
      BY <3>1 DEF Begun
    <3>3. work[1] \in Queued /\ F[work[1]] = e /\ descNr[work[1]] = Begun
      BY <1>3, <3>2
    <3>4. e <= p /\ p < e + Begun
      BY <1>1, <2>0, <2>2
    <3>5. F[work[1]] <= p /\ p < F[work[1]] + descNr[work[1]]
      BY <3>3, <3>4
    <3>. QED BY <3>3, <3>5
  <2>. QED BY <2>1, <2>2
<1>. HIDE DEF F
<1>11. ASSUME NEW x \in Awaited
       PROVE  /\ x[1] \in Queued /\ x[2] \in Int /\ 1 <= x[2] /\ x[2] <= descNr[x[1]]
              /\ x = << x[1], x[2] >> /\ descNr[x[1]] \in Int /\ F[x[1]] \in Int
  <2>1. PICK r \in Queued : x \in {r} \X (1 .. descNr[r])
    BY DEF Awaited
  <2>2. x[1] = r /\ x[2] \in 1 .. descNr[r] /\ x = << x[1], x[2] >>
    BY <2>1
  <2>. QED BY <1>1, <2>2
<1>12. m \in Bijection(Awaited, Places)
  <2>1. m \in [Awaited -> Places]
    <3>. SUFFICES ASSUME NEW x \in Awaited PROVE F[x[1]] + x[2] - 1 \in Places
      OBVIOUS
    <3>1. /\ x[1] \in Queued /\ x[2] \in Int /\ 1 <= x[2] /\ x[2] <= descNr[x[1]]
          /\ descNr[x[1]] \in Int /\ F[x[1]] \in Int
      BY <1>11
    <3>2. -credit <= F[x[1]] /\ F[x[1]] + descNr[x[1]] <= Outstanding
      BY <1>8, <3>1
    <3>. QED BY <1>1, <3>1, <3>2
  <2>2. ASSUME NEW x \in Awaited, NEW y \in Awaited, m[x] = m[y]
        PROVE  x = y
    <3>1. /\ x[1] \in Queued /\ x[2] \in Int /\ 1 <= x[2] /\ x[2] <= descNr[x[1]]
          /\ x = << x[1], x[2] >> /\ descNr[x[1]] \in Int /\ F[x[1]] \in Int
      BY <1>11
    <3>2. /\ y[1] \in Queued /\ y[2] \in Int /\ 1 <= y[2] /\ y[2] <= descNr[y[1]]
          /\ y = << y[1], y[2] >> /\ descNr[y[1]] \in Int /\ F[y[1]] \in Int
      BY <1>11
    <3>3. F[x[1]] + x[2] = F[y[1]] + y[2]
      BY <2>2, <3>1, <3>2
    <3>4. x[1] = y[1]
      <4>. SUFFICES ASSUME x[1] # y[1] PROVE FALSE
        OBVIOUS
      <4>1. F[x[1]] + descNr[x[1]] <= F[y[1]] \/ F[y[1]] + descNr[y[1]] <= F[x[1]]
        BY <1>9, <3>1, <3>2
      <4>. QED BY <3>1, <3>2, <3>3, <4>1
    <3>5. x[2] = y[2]
      BY <3>1, <3>2, <3>3, <3>4
    <3>. QED BY <3>1, <3>2, <3>4, <3>5
  <2>3. ASSUME NEW p \in Places PROVE \E x \in Awaited : m[x] = p
    <3>1. PICK r \in Queued : F[r] <= p /\ p < F[r] + descNr[r]
      BY <1>10
    <3>2. p \in Int /\ r \in Req /\ F[r] \in Int /\ descNr[r] \in Int
      BY <1>1
    <3>3. p - F[r] + 1 \in 1 .. descNr[r]
      BY <3>1, <3>2
    <3>. DEFINE x == << r, p - F[r] + 1 >>
    <3>4. x \in Awaited
      BY <3>3 DEF Awaited
    <3>5. F[x[1]] + x[2] - 1 = p
      BY <3>2
    <3>. QED BY <3>4, <3>5
  <2>. QED BY <2>1, <2>2, <2>3, Fun_IsBij
<1>. HIDE DEF m
<1>13. IsFiniteSet(Places) /\ Cardinality(Places) = Outstanding + credit
  <2>1. -credit \in Int /\ Outstanding - 1 \in Int
    BY <1>1
  <2>2. /\ IsFiniteSet(Places)
        /\ Cardinality(Places) = IF -credit > Outstanding - 1 THEN 0
                                 ELSE Outstanding - 1 - (-credit) + 1
    BY <2>1, FS_Interval
  <2>3. Outstanding + credit = IF -credit > Outstanding - 1 THEN 0
                               ELSE Outstanding - 1 - (-credit) + 1
    BY <1>1
  <2>. QED BY <2>2, <2>3
<1>. HIDE DEF Places
<1>14. ExistsBijection(Places, Awaited)
  BY <1>12, Fun_ExistsBijSymmetric DEF ExistsBijection
<1>. QED BY <1>7, <1>13, <1>14, FS_Bijection

(***************************************************************************)
(* The descriptors the requests of an online queue wait for are those not  *)
(* reaped yet and the credits: none is counted twice or lost by            *)
(* qdma_update_request, descq_mm_n_h2c_cmpl_status and the completion loop *)
(* between them, in whatever order the ring fills, wraps and drains.       *)
(***************************************************************************)
THEOREM CreditsAccounted == ASSUME CalmUse, Timed = {} PROVE Spec => []CreditAccounting
<1>1. Inv /\ AnswerInv /\ LayInv => CreditAccounting
  <2>. SUFFICES ASSUME Inv, AnswerInv, LayInv, qState = "ONLINE"
                PROVE  /\ \A r \in Queued : descNr[r] >= 0
                       /\ Cardinality(Awaited) = Delta(pidx, cidx) + credit
    BY DEF CreditAccounting
  <2>1. PICK f \in [Req -> Int], e \in Int : LaidOut(f, e)
    BY DEF LayInv, LayoutOK
  <2>. QED BY <2>1, CreditsCover DEF Inv, LayInv, LaidOut, Outstanding
<1>. QED BY <1>1, InvHolds, AnswerInvHolds, LayInvHolds, PTL

-----------------------------------------------------------------------------
(* The buffers of an answered request.                                     *)

\* If the drain only times out on an idle queue, the hardware has finished
\* when the queue goes offline.
QuietOK == HwInTime /\ Halted => hwc = doorbell

LEMMA QuietStep ==
    ASSUME Inv, DrainInv, QuietOK, [Next]_vars
    PROVE  QuietOK'
<1>. TypeOK
  BY DEF Inv
<1>1. CASE UNCHANGED vars
  BY <1>1 DEF vars, hwVars, thrVars, QuietOK, Halted
<1>2. CASE Next
  <2>. SUFFICES ASSUME HwInTime, Halted' PROVE hwc' = doorbell'
    BY DEF QuietOK
  <2>0. hwc \in Slot /\ doorbell \in Slot /\ cidx \in Slot /\ wb \in Slot /\ pidx \in Slot
    BY LayFacts
  <2>1. live => /\ Delta(wb, cidx) <= Delta(hwc, cidx)
                /\ Delta(hwc, cidx) <= Delta(doorbell, cidx)
                /\ Delta(doorbell, cidx) <= Delta(pidx, cidx)
    BY DEF Inv, RingOK, Chain
  <2>2. CASE StopBegin \/ StopWake
    <3>1. pendEmpty /\ live /\ ~Filling /\ UNCHANGED <<hwc, doorbell>>
      <4>1. pendEmpty
        BY <2>2, PcStp DEF StopBegin, StopWake, Drained, Halted, Inv
      <4>2. qState = "ONLINE" /\ live
        BY <2>2 DEF StopBegin, StopWake, Inv, StopOK
      <4>3. ~Filling
        BY <2>2, <4>2 DEF StopBegin, StopWake, Filling, DrainInv, WaitOK
      <4>. QED BY <2>2, <4>1, <4>2, <4>3 DEF StopBegin, StopWake, hwVars
    <3>2. pidx = cidx
      BY <3>1 DEF DrainInv, EmptyOK
    <3>3. Delta(pidx, cidx) = 0 /\ Delta(hwc, cidx) \in Nat /\ Delta(doorbell, cidx) \in Nat
      BY <2>0, <3>2, DeltaType, SizeFacts
    <3>4. Delta(hwc, cidx) = 0 /\ Delta(doorbell, cidx) = 0
      BY <2>1, <3>1, <3>3
    <3>. QED BY <2>0, <3>1, <3>4, DeltaType
  <2>3. CASE StopExpire
    <3>1. wb = doorbell /\ live /\ UNCHANGED <<hwc, doorbell>>
      BY <2>3 DEF StopExpire, Quiet, Inv, StopOK, hwVars
    <3>2. Delta(hwc, cidx) = Delta(doorbell, cidx)
      <4>1. Delta(hwc, cidx) \in Int /\ Delta(doorbell, cidx) \in Int
        BY <2>0, DeltaType, SizeFacts
      <4>. QED BY <2>1, <3>1, <4>1
    <3>3. hwc = doorbell
      BY <2>0, <3>2, SizeFacts DEF Delta, Slot
    <3>. QED BY <3>1, <3>3
  <2>4. CASE ~(StopBegin \/ StopWake \/ StopExpire)
    <3>1. Halted /\ hwc = doorbell
      BY <1>2, <2>4, PcFacts DEF QuietOK
    <3>2. CASE UNCHANGED <<hwc, doorbell>>
      BY <3>1, <3>2
    <3>3. ~HwExec
      BY <3>1 DEF HwExec
    <3>4. CASE CmplEnd
      BY <3>1, <3>4 DEF CmplEnd, Ring, Inv, RingOK
    <3>5. ~ProcRing
      <4>1. ProcRing => Filling
        BY DEF ProcRing, LoopOver, Filling
      <4>. QED BY <3>1, <4>1, FillingMeans DEF Halted
    <3>6. CASE StartOnline
      BY <3>6 DEF StartOnline
    <3>7. CASE ~(HwExec \/ CmplEnd \/ ProcRing \/ StartOnline)
      <4>1. UNCHANGED <<hwc, doorbell>>
        <5>1. CASE Holder
          BY <3>7, <5>1 DEF Holder, Cmpl, CmplDone, CmplPart, Loop, ProcFill, ProcFull, ProcExit,
                            ProcStopExit, SvcCheck, Drain, DrainPend, DrainNext, DrainWork, DrainEnd,
                            hwVars
        <5>2. CASE Service \/ Hw
          BY <3>7, <5>2 DEF Service, SvcStart, KthCheck, KthWake, Hw, HwWriteback, IrqShared, hwVars
        <5>3. CASE Stop \/ Start
          BY <3>7, <5>3 DEF Stop, StopBegin, StopWake, StopExpire, StopDrain, Teardown, Start,
                            StartConfig, StartFail, hwVars
        <5>4. CASE BatchMap \/ BatchQueue \/ \E r \in Req : Call(r)
          BY <5>4 DEF BatchMap, BatchQueue, Call, Submit, SubmitNoMap, WaitWake, WaitFinish, hwVars
        <5>5. CASE \E t \in Req \cup {Svc} : Proc(t)
          BY <5>5 DEF Proc, ProcStopWait, ProcSkip, ProcBegin, Begin, hwVars
        <5>. QED BY <1>2, <5>1, <5>2, <5>3, <5>4, <5>5 DEF Next
      <4>. QED BY <3>1, <4>1
    <3>. QED BY <3>2, <3>3, <3>4, <3>5, <3>6, <3>7
  <2>. QED BY <2>2, <2>3, <2>4
<1>. QED BY <1>1, <1>2

(***************************************************************************)
(* The hardware executes no descriptor of a request that was answered: the *)
(* pages that qdma_sgt_req_done unmaps are not written any more, neither by*)
(* a late descriptor nor by one that a stop and a restart left in the ring *)
(* (qdma_queue_stop, qdma_queue_start).                                    *)
(***************************************************************************)
THEOREM BuffersUntouched ==
    ASSUME CalmUse, Timed = {}, HwInTime PROVE Spec => NoDmaAfterAnswer
<1>1. Init => QuietOK
  <2>1. Init => pc[Stp] = "idle"
    BY ReqAssumption DEF Init, Thread
  <2>. QED BY <2>1 DEF QuietOK, Halted
<1>2. Inv /\ DrainInv /\ QuietOK /\ [Next]_vars => QuietOK'
  BY QuietStep
<1>3. ASSUME Inv, AnswerInv, LayInv, QuietOK, [Next]_vars
      PROVE  [\A r \in Req : moved'[r] # moved[r] => result[r] = "none"]_moved
  <2>1. CASE HwExec
    <3>1. qState = "ONLINE"
      <4>1. live /\ hwc # doorbell
        BY <2>1 DEF HwExec
      <4>. QED BY <1>3, <4>1 DEF QuietOK, Halted, Inv, StopOK
    <3>2. ring[hwc] \in Queued
      BY <1>3, <2>1, <3>1, ExecOpen
    <3>3. result[ring[hwc]] = "none"
      BY <1>3, <3>2 DEF AnswerInv, OpenOK
    <3>4. \A r \in Req : moved'[r] # moved[r] => r = ring[hwc]
      BY <2>1 DEF HwExec
    <3>. QED BY <3>3, <3>4
  <2>2. CASE ~HwExec
    <3>1. UNCHANGED moved
      <4>1. CASE UNCHANGED vars
        BY <4>1 DEF vars, hwVars
      <4>2. CASE Holder
        BY <4>2 DEF Holder, Cmpl, CmplDone, CmplPart, CmplEnd, Loop, ProcFill, ProcFull, ProcRing,
                    ProcExit, ProcStopExit, SvcCheck, Drain, DrainPend, DrainNext, DrainWork,
                    DrainEnd, hwVars
      <4>3. CASE Service \/ Hw
        BY <2>2, <4>3 DEF Service, SvcStart, KthCheck, KthWake, Hw, HwWriteback, IrqShared, hwVars
      <4>4. CASE Stop \/ Start
        BY <4>4 DEF Stop, StopBegin, StopWake, StopExpire, StopDrain, Teardown, Start,
                    StartConfig, StartOnline, StartFail, hwVars
      <4>5. CASE BatchMap \/ BatchQueue \/ \E r \in Req : Call(r)
        BY <4>5 DEF BatchMap, BatchQueue, Call, Submit, SubmitNoMap, WaitWake, WaitFinish, hwVars
      <4>6. CASE \E t \in Req \cup {Svc} : Proc(t)
        BY <4>6 DEF Proc, ProcStopWait, ProcSkip, ProcBegin, Begin, hwVars
      <4>. QED BY <1>3, <4>1, <4>2, <4>3, <4>4, <4>5, <4>6 DEF Next
    <3>. QED BY <3>1
  <2>. QED BY <2>1, <2>2
<1>. QED BY <1>1, <1>2, <1>3, LayInvHolds, InvHolds, AnswerInvHolds, DrainInvHolds, PTL
         DEF Spec, NoDmaAfterAnswer
=============================================================================
