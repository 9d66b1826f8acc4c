-------------------------- MODULE QdmaDescqProofs --------------------------
(***************************************************************************)
(* Type correctness, the ring accounting and the answers to the requests   *)
(* of QdmaDescq, for every ring size, every set of requests and both       *)
(* driver modes.                                                           *)
(*                                                                         *)
(* The first two are not inductive alone.  That the descriptors written    *)
(* fit the ring needs the accounting of avail; that the accounting         *)
(* survives a reap needs the writeback to lie between cidx and pidx; that  *)
(* it still does after a stop and a restart needs to know when a thread    *)
(* can be writing, and what the stale indices of a torn down queue can be. *)
(***************************************************************************)
EXTENDS QdmaDescqProps, SequenceTheorems, TLAPS

\* A thread is between the checks of q_state and the end of the routine.
Writing == \/ at \in {"loop", "full", "exit"}
           \/ at = "cmpl" /\ ret \in {"loop", "full", "exit"}

\* Who holds the lock, and what it knows.
LockOK ==
    /\ at = "cmpl" => ret \in {"loop", "full", "exit", "svc", "stop"}
    /\ at \in {"drainPend", "drainWork"} =>
         /\ cur = Stp
         /\ pc[Stp] \in {"drained", "expired"}
         /\ qState = "ENABLED"
    /\ at \notin {"free", "drainPend", "drainWork"} => cur \in Req \cup {Svc}
    /\ Writing => qState = "ONLINE"

\* The ring exists from the start to the teardown that ends the stop.
StopOK ==
    /\ qState = "ONLINE" => live
    /\ live => \/ qState = "ONLINE"
               \/ pc[Stp] \in {"drained", "expired", "teardown"}
    /\ pc[Stp] \in {"drained", "expired", "teardown"} => live
    /\ pc[Stp] = "wait" => qState = "ONLINE"
    /\ pc[Stp] \in {"prog", "teardown"} => qState = "ENABLED"
    /\ pc[Stp] = "prog" => pidx = 0 /\ cidx = 0

\* The order of the indices, counted from cidx.
Chain ==
    /\ Delta(wb, cidx) <= Delta(hwc, cidx)
    /\ Delta(hwc, cidx) <= Delta(doorbell, cidx)
    /\ Delta(doorbell, cidx) <= Delta(pidx, cidx)

\* RingAccounting, for a torn down ring too, and the index that the next
\* doorbell will carry.
RingOK ==
    /\ avail + Delta(pidx, cidx) = RngSz - 1
    /\ live \/ pidx # cidx => Chain
    /\ live /\ (doorbell # cidx \/ at = "cmpl") => infoPidx = doorbell

\* No request has more descriptors than it needs.
FillOK == \A r \in Req : offset[r] <= NDesc[r]

Inv == TypeOK /\ LockOK /\ StopOK /\ RingOK /\ FillOK
-----------------------------------------------------------------------------
(* The lists.                                                              *)

LEMMA ConcatType ==
  ASSUME NEW S, NEW a \in Seq(S), NEW b \in Seq(S)
  PROVE  a \o b \in Seq(S) /\ Len(a \o b) = Len(a) + Len(b)
BY ConcatProperties

LEMMA RemoveAtType ==
  ASSUME NEW S, NEW s \in Seq(S), NEW i \in 1 .. Len(s)
  PROVE  /\ RemoveAt(s, i) \in Seq(S)
         /\ Len(RemoveAt(s, i)) = Len(s) - 1
<1>1. Len(s) \in Nat /\ \A k \in 1 .. Len(s) : s[k] \in S
  OBVIOUS
<1> DEFINE a == SubSeq(s, 1, i - 1)
           b == SubSeq(s, i + 1, Len(s))
<1>2. a \in Seq(S) /\ Len(a) = i - 1
  BY <1>1, SubSeqProperties
<1>3. b \in Seq(S) /\ Len(b) = Len(s) - i
  BY <1>1, SubSeqProperties
<1>4. RemoveAt(s, i) = a \o b
  BY DEF RemoveAt
<1> HIDE DEF a, b
<1>5. a \o b \in Seq(S) /\ Len(a \o b) = Len(a) + Len(b)
  BY <1>2, <1>3, ConcatType
<1>6. QED BY <1>1, <1>2, <1>3, <1>4, <1>5

LEMMA WithoutType ==
  ASSUME NEW S, NEW s \in Seq(S), NEW r
  PROVE  Without(s, r) \in Seq(S)
<1>1. CASE \E i \in 1 .. Len(s) : s[i] = r
  <2>1. (CHOOSE i \in 1 .. Len(s) : s[i] = r) \in 1 .. Len(s)
    BY <1>1
  <2>2. QED BY <1>1, <2>1, RemoveAtType DEF Without
<1>2. CASE ~ \E i \in 1 .. Len(s) : s[i] = r
  BY <1>2 DEF Without
<1>3. QED BY <1>1, <1>2

LEMMA BatchType == BatchSeq \in Seq(Req) /\ Batch \subseteq Req
<1>1. BatchSeq \in Seq(Req)
  BY ReqAssumption, SeqMonotonic
<1>2. QED BY <1>1 DEF Batch

LEMMA DrainType ==
  ASSUME NEW s \in Seq(Req), pos \in Nat \ {0}, pos <= Len(s)
  PROVE  s[pos] \in Req /\ AfterDrainOne(s) \in Seq(Req)
<1>1. pos \in 1 .. Len(s) OBVIOUS
<1>2. QED BY <1>1, RemoveAtType DEF AfterDrainOne
-----------------------------------------------------------------------------
(* The ring.                                                               *)

LEMMA SizeFacts == RngSz \in Nat /\ RngSz > 1 /\ NDesc \in [Req -> Nat \ {0}]
BY SizeAssumption

LEMMA DeltaType ==
  ASSUME NEW a \in Slot, NEW b \in Slot
  PROVE  /\ Delta(a, b) \in 0 .. RngSz - 1
         /\ Delta(a, b) = 0 <=> a = b
BY SizeFacts DEF Delta, Slot

\* Moving the base of the interval up to c.
LEMMA DeltaSplit ==
  ASSUME NEW a \in Slot, NEW b \in Slot, NEW c \in Slot,
         Delta(c, b) <= Delta(a, b)
  PROVE  Delta(a, c) = Delta(a, b) - Delta(c, b)
BY SizeFacts DEF Delta, Slot

\* Moving the end of the interval up by n.
LEMMA DeltaIncr ==
  ASSUME NEW a \in Slot, NEW b \in Slot, NEW n \in Nat,
         Delta(a, b) + n < RngSz
  PROVE  /\ Incr(a, n) \in Slot
         /\ Delta(Incr(a, n), b) = Delta(a, b) + n
BY SizeFacts DEF Delta, Incr, Slot
-----------------------------------------------------------------------------
(* Type correctness, action by action.                                     *)

LEMMA Frame ==
  ASSUME TypeOK
  PROVE  /\ UNCHANGED qVars => QueueType'
         /\ UNCHANGED lockVars => LockType'
         /\ UNCHANGED hwVars => HwType'
         /\ UNCHANGED reqVars => ReqType'
         /\ UNCHANGED thrVars => ThreadType'
<1>1. UNCHANGED qVars => QueueType'
  BY DEF TypeOK, QueueType, qVars
<1>2. UNCHANGED lockVars => LockType'
  BY DEF TypeOK, LockType, lockVars
<1>3. UNCHANGED hwVars => HwType'
  BY DEF TypeOK, HwType, hwVars
<1>4. UNCHANGED reqVars => ReqType'
  BY DEF TypeOK, ReqType, reqVars
<1>5. UNCHANGED thrVars => ThreadType'
  BY DEF TypeOK, ThreadType, thrVars, runVars
<1>6. QED BY <1>1, <1>2, <1>3, <1>4, <1>5

\* A doorbell leaves the hardware's state well typed.
LEMMA RingType ==
  ASSUME TypeOK, NEW p \in Slot, Ring(p), UNCHANGED <<ring, hwc, wb, moved>>
  PROVE  HwType' /\ svcQueued' \in BOOLEAN
<1>1. HwType'
  BY DEF TypeOK, HwType, Ring, PollMode
<1>2. svcQueued' \in BOOLEAN
  BY DEF TypeOK, HwType, ThreadType, Ring
<1>3. QED BY <1>1, <1>2

\* So does a reap the queue's.
LEMMA ReapType ==
  ASSUME TypeOK, NEW next \in {"loop", "full", "exit", "svc", "stop"},
         Reap(next)
  PROVE  /\ cidx' \in Slot /\ avail' \in Nat /\ credit' \in Nat
         /\ at' \in {next, "cmpl"}
         /\ ret' \in {"none", "loop", "full", "exit", "svc", "stop"}
<1>1. cidx \in Slot /\ wb \in Slot /\ avail \in Nat /\ credit \in Nat
  BY DEF TypeOK, QueueType, HwType
<1>2. Delta(wb, cidx) \in Nat
  BY <1>1, DeltaType
<1>3. QED BY <1>1, <1>2 DEF Reap, TypeOK, LockType

\* A thread leaves its section for one of its own control points.
LEMMA UnlockType ==
  ASSUME TypeOK, cur \in Thread,
         NEW next \in {"wait", "end", "idle", "proc", "teardown"},
         Unlock(next)
  PROVE  /\ at' = "free" /\ cur' = Nobody
         /\ pc' \in [Thread -> {"new", "mapped", "proc", "wait", "woken",
                                "end", "idle", "sleep", "drained", "expired",
                                "teardown", "prog"}]
BY DEF TypeOK, ThreadType, Unlock

LEMMA CmplType ==
  ASSUME Inv, Cmpl
  PROVE  TypeOK'
<1> TypeOK /\ LockOK
  BY DEF Inv
<1>1. CASE CmplDone
  <2> DEFINE r == Head(pend)
  <2>1. r \in Req /\ Tail(pend) \in Seq(Req)
    BY <1>1 DEF CmplDone, TypeOK, QueueType
  <2>2. credit - descNr[r] \in Nat
    BY <1>1, <2>1 DEF CmplDone, Covered, TypeOK, QueueType, ReqType
  <2>3. QueueType'
    BY <1>1, <2>1, <2>2
       DEF CmplDone, SgtReqDone, Answer, RingDrained, TypeOK, QueueType
  <2>4. /\ done' = [done EXCEPT ![r] = TRUE]
        /\ status' = [status EXCEPT ![r] = "0"]
        /\ result' \in {result, [result EXCEPT ![r] = "ok"]}
        /\ UNCHANGED <<offset, descNr>>
    BY <1>1 DEF CmplDone, SgtReqDone, Answer
  <2> HIDE DEF r
  <2>5. ReqType'
    BY <2>1, <2>4 DEF TypeOK, ReqType, Outcome
  <2>6. UNCHANGED <<lockVars, hwVars, thrVars>>
    BY <1>1 DEF CmplDone
  <2>7. QED BY <2>3, <2>5, <2>6, Frame DEF TypeOK
<1>2. CASE CmplPart
  <2>1. QueueType'
    BY <1>2 DEF CmplPart, TypeOK, QueueType
  <2> DEFINE r == Head(pend)
  <2>2. r \in Req /\ credit \in Nat
    BY <1>2 DEF CmplPart, TypeOK, QueueType
  <2>3. /\ descNr' = [descNr EXCEPT ![r] = @ - credit]
        /\ UNCHANGED <<offset, done, status, result>>
    BY <1>2 DEF CmplPart
  <2> HIDE DEF r
  <2>4. ReqType'
    BY <2>2, <2>3 DEF TypeOK, ReqType
  <2>5. UNCHANGED <<lockVars, hwVars, thrVars>>
    BY <1>2 DEF CmplPart
  <2>6. QED BY <2>1, <2>4, <2>5, Frame DEF TypeOK
<1>3. CASE CmplEnd
  <2>1. infoPidx \in Slot
    BY DEF TypeOK, QueueType
  <2>2. Ring(infoPidx) /\ UNCHANGED <<ring, hwc, wb, moved>>
    BY <1>3 DEF CmplEnd
  <2>3. HwType' /\ svcQueued' \in BOOLEAN
    BY <2>1, <2>2, RingType
  <2>4. LockType'
    BY <1>3 DEF CmplEnd, TypeOK, LockType, LockOK
  <2>5. ThreadType'
    BY <1>3, <2>3 DEF CmplEnd, TypeOK, ThreadType, runVars
  <2>6. UNCHANGED <<qVars, reqVars>>
    BY <1>3 DEF CmplEnd
  <2>7. QED BY <2>3, <2>4, <2>5, <2>6, Frame DEF TypeOK
<1>4. QED BY <1>1, <1>2, <1>3 DEF Cmpl

\* What one turn of the writing loop writes: it fits the ring and the
\* request.
LEMMA FillFacts ==
  ASSUME Inv, ProcFill,
         NEW r, r = Head(work),
         NEW n, n = Lesser(avail, NDesc[r] - offset[r])
  PROVE  /\ r \in Req /\ n \in Nat /\ n <= avail
         /\ offset[r] + n <= NDesc[r]
         /\ Incr(pidx, n) \in Slot
         /\ Delta(Incr(pidx, n), cidx) = Delta(pidx, cidx) + n
<1>1. r \in Req /\ avail \in Nat /\ pidx \in Slot /\ cidx \in Slot
  BY DEF Inv, TypeOK, QueueType, ProcFill
<1>2. offset[r] \in Nat /\ NDesc[r] \in Nat /\ offset[r] <= NDesc[r]
  BY <1>1, SizeFacts DEF Inv, TypeOK, ReqType, FillOK
<1>3. n \in Nat /\ n <= avail /\ offset[r] + n <= NDesc[r]
  BY <1>1, <1>2 DEF Lesser
<1>4. avail + Delta(pidx, cidx) = RngSz - 1 /\ Delta(pidx, cidx) \in Nat
  BY <1>1, DeltaType DEF Inv, RingOK
<1>5. Delta(pidx, cidx) + n < RngSz
  BY <1>1, <1>3, <1>4, SizeFacts
<1>6. QED BY <1>1, <1>3, <1>5, DeltaIncr

LEMMA FillType ==
  ASSUME Inv, ProcFill
  PROVE  TypeOK'
<1> TypeOK
  BY DEF Inv
<1> DEFINE r == Head(work)
           n == Lesser(avail, NDesc[r] - offset[r])
<1>1. /\ r \in Req /\ n \in Nat /\ n <= avail
      /\ Incr(pidx, n) \in Slot
  BY FillFacts
<1>2. work \in Seq(Req) /\ work # <<>> /\ pend \in Seq(Req)
  BY DEF ProcFill, TypeOK, QueueType
<1>3. Len(work) \in Nat \ {0} /\ 1 \in 1 .. Len(work)
  BY <1>2
<1>4. RemoveAt(work, 1) \in Seq(Req)
  BY <1>2, <1>3, RemoveAtType
<1>5. Append(pend, r) \in Seq(Req)
  BY <1>1, <1>2
<1>6. /\ ring' = [i \in Slot |-> IF Delta(i, pidx) < n THEN r ELSE ring[i]]
      /\ pidx' = Incr(pidx, n)
      /\ avail' = avail - n
      /\ descNr' = [descNr EXCEPT ![r] = @ + n]
      /\ offset' = [offset EXCEPT ![r] = @ + n]
      /\ IF offset[r] + n >= NDesc[r]
         THEN WorkDel(1) /\ pend' = Append(pend, r)
         ELSE UNCHANGED <<work, workReqPend, pend>>
  BY DEF ProcFill
<1>7. /\ at' = "loop" /\ written' = TRUE
      /\ UNCHANGED <<cur, ret, pos>>
      /\ UNCHANGED <<qState, stopWait, pendEmpty, cidx, credit, infoPidx>>
      /\ UNCHANGED <<procRunning, live, schedule>>
      /\ UNCHANGED <<doorbell, hwc, wb, armed, pnd, moved>>
      /\ UNCHANGED <<done, status, result>>
      /\ UNCHANGED thrVars
  BY DEF ProcFill
<1> HIDE DEF r, n
<1>8. work' \in Seq(Req) /\ pend' \in Seq(Req) /\ workReqPend' \in Int
  <2>1. workReqPend \in Int
    BY DEF TypeOK, QueueType
  <2>2. CASE offset[r] + n >= NDesc[r]
    <3>1. work' = RemoveAt(work, 1) /\ workReqPend' = workReqPend - 1
      BY <1>6, <2>2 DEF WorkDel
    <3>2. QED BY <1>4, <1>5, <1>6, <2>1, <2>2, <3>1
  <2>3. CASE ~(offset[r] + n >= NDesc[r])
    BY <1>2, <1>6, <2>1, <2>3
  <2>4. QED BY <2>2, <2>3
<1>9. avail' \in Nat
  BY <1>1, <1>6 DEF TypeOK, QueueType
<1>10. QueueType'
  BY <1>1, <1>6, <1>7, <1>8, <1>9 DEF TypeOK, QueueType
<1>11. LockType'
  BY <1>7 DEF TypeOK, LockType
<1>12. ring' \in [Slot -> Req \cup {Nobody}]
  BY <1>1, <1>6 DEF TypeOK, HwType
<1>13. HwType'
  BY <1>7, <1>12 DEF TypeOK, HwType
<1>14. descNr' \in [Req -> Int] /\ offset' \in [Req -> Nat]
  BY <1>1, <1>6 DEF TypeOK, ReqType
<1>15. ReqType'
  BY <1>7, <1>14 DEF TypeOK, ReqType
<1>16. QED BY <1>7, <1>10, <1>11, <1>13, <1>15, Frame DEF TypeOK

LEMMA LoopType ==
  ASSUME Inv, Loop
  PROVE  TypeOK'
<1> TypeOK
  BY DEF Inv
<1>1. CASE ProcFill
  BY <1>1, FillType
<1>2. CASE ProcFull
  <2>1. Reap("full")
    BY <1>2 DEF ProcFull
  <2>2. /\ cidx' \in Slot /\ avail' \in Nat /\ credit' \in Nat
        /\ at' \in {"full", "cmpl"}
        /\ ret' \in {"none", "loop", "full", "exit", "svc", "stop"}
    BY <2>1, ReapType
  <2>3. QueueType'
    BY <1>2, <2>2 DEF ProcFull, TypeOK, QueueType
  <2>4. LockType'
    BY <1>2, <2>2 DEF ProcFull, TypeOK, LockType
  <2>5. UNCHANGED <<hwVars, reqVars, thrVars>>
    BY <1>2 DEF ProcFull
  <2>6. QED BY <2>3, <2>4, <2>5, Frame DEF TypeOK
<1>3. CASE ProcRing
  <2>1. /\ pidx \in Slot
        /\ avail \in Nat /\ cidx \in Slot /\ credit \in Nat
        /\ ret \in {"none", "loop", "full", "exit", "svc", "stop"}
    BY DEF TypeOK, QueueType, LockType
  <2>2. /\ cidx' \in Slot /\ avail' \in Nat /\ credit' \in Nat
        /\ at' \in {"exit", "cmpl"}
        /\ ret' \in {"none", "loop", "full", "exit", "svc", "stop"}
    <3>1. CASE Reap("exit")
      BY <3>1, ReapType
    <3>2. CASE ~Reap("exit")
      BY <1>3, <2>1, <3>2 DEF ProcRing
    <3>3. QED BY <3>1, <3>2
  <2>3. QueueType'
    BY <1>3, <2>2 DEF ProcRing, TypeOK, QueueType
  <2>4. LockType'
    BY <1>3, <2>2 DEF ProcRing, TypeOK, LockType
  <2>5. HwType' /\ svcQueued' \in BOOLEAN
    <3>1. CASE written
      BY <1>3, <2>1, <3>1, RingType DEF ProcRing
    <3>2. CASE ~written
      <4>1. UNCHANGED <<ring, doorbell, hwc, wb, armed, pnd, moved>>
        BY <1>3, <3>2 DEF ProcRing
      <4>2. UNCHANGED svcQueued
        BY <1>3, <3>2 DEF ProcRing
      <4>3. QED BY <4>1, <4>2 DEF TypeOK, HwType, ThreadType
    <3>3. QED BY <3>1, <3>2
  <2>6. ThreadType'
    BY <1>3, <2>5 DEF ProcRing, TypeOK, ThreadType, runVars
  <2>7. UNCHANGED reqVars
    BY <1>3 DEF ProcRing
  <2>8. QED BY <2>3, <2>4, <2>5, <2>6, <2>7, Frame DEF TypeOK
<1>4. QED BY <1>1, <1>2, <1>3 DEF Loop

LEMMA ProcType ==
  ASSUME Inv, NEW t \in Req \cup {Svc}, Proc(t)
  PROVE  TypeOK'
<1> TypeOK /\ t \in Thread
  BY DEF Inv, Thread
<1>1. CASE ProcStopWait(t)
  <2>1. Reap("stop")
    BY <1>1 DEF ProcStopWait
  <2>2. /\ cidx' \in Slot /\ avail' \in Nat /\ credit' \in Nat
        /\ at' \in {"stop", "cmpl"}
        /\ ret' \in {"none", "loop", "full", "exit", "svc", "stop"}
    BY <2>1, ReapType
  <2>3. QueueType'
    BY <1>1, <2>2 DEF ProcStopWait, TypeOK, QueueType
  <2>4. LockType'
    BY <1>1, <2>2 DEF ProcStopWait, TypeOK, LockType
  <2>5. UNCHANGED <<hwVars, reqVars, thrVars>>
    BY <1>1 DEF ProcStopWait
  <2>6. QED BY <2>3, <2>4, <2>5, Frame DEF TypeOK
<1>2. CASE ProcSkip(t)
  <2>1. ThreadType'
    BY <1>2 DEF ProcSkip, After, TypeOK, ThreadType, runVars
  <2>2. UNCHANGED <<qVars, lockVars, hwVars, reqVars>>
    BY <1>2 DEF ProcSkip
  <2>3. QED BY <2>1, <2>2, Frame DEF TypeOK
<1>3. CASE ProcBegin(t)
  <2>1. /\ cidx' \in Slot /\ avail' \in Nat /\ credit' \in Nat
        /\ at' \in {"loop", "cmpl"}
        /\ ret' \in {"none", "loop", "full", "exit", "svc", "stop"}
        /\ procRunning' \in BOOLEAN
    <3>1. CASE PollMode
      <4>1. Reap("loop") /\ procRunning' = TRUE
        BY <1>3, <3>1 DEF ProcBegin, Begin
      <4>2. QED BY <4>1, ReapType
    <3>2. CASE ~PollMode
      <4>1. at' = "loop" /\ UNCHANGED <<procRunning, cidx, avail, credit, ret>>
        BY <1>3, <3>2 DEF ProcBegin, Begin
      <4>2. QED BY <4>1 DEF TypeOK, QueueType, LockType
    <3>3. QED BY <3>1, <3>2
  <2>2. QueueType'
    BY <1>3, <2>1 DEF ProcBegin, Begin, TypeOK, QueueType
  <2>3. cur' = t /\ written' = FALSE /\ pos' = pos
    BY <1>3 DEF ProcBegin, Begin
  <2>4. LockType'
    BY <2>1, <2>3 DEF TypeOK, LockType
  <2>5. UNCHANGED <<hwVars, reqVars, thrVars>>
    BY <1>3 DEF ProcBegin, Begin
  <2>6. QED BY <2>2, <2>4, <2>5, Frame DEF TypeOK
<1>4. QED BY <1>1, <1>2, <1>3 DEF Proc

\* The ends of the sections of threads other than the stopper.
LEMMA ExitType ==
  ASSUME Inv, ProcExit \/ ProcStopExit \/ SvcCheck
  PROVE  TypeOK'
<1> TypeOK
  BY DEF Inv
<1>1. cur \in Thread
  BY DEF Inv, LockOK, ProcExit, ProcStopExit, SvcCheck, Thread
<1>2. PICK next \in {"wait", "end", "idle", "proc"} : Unlock(next)
  BY <1>1 DEF ProcExit, ProcStopExit, SvcCheck, After
<1>3. /\ at' = "free" /\ cur' = Nobody
      /\ pc' \in [Thread -> {"new", "mapped", "proc", "wait", "woken",
                             "end", "idle", "sleep", "drained", "expired",
                             "teardown", "prog"}]
  BY <1>1, <1>2, UnlockType
<1>4. /\ written' \in BOOLEAN
      /\ UNCHANGED <<ret, pos, svcQueued, runVars, hwVars, reqVars>>
  BY DEF ProcExit, ProcStopExit, SvcCheck, TypeOK, LockType
<1>5. LockType'
  BY <1>3, <1>4 DEF TypeOK, LockType
<1>6. ThreadType'
  BY <1>3, <1>4 DEF TypeOK, ThreadType, runVars
<1>7. QueueType'
  <2>1. CASE ProcExit
    <3>1. live \in BOOLEAN /\ schedule \in BOOLEAN /\ written \in BOOLEAN
      BY DEF TypeOK, QueueType, LockType
    <3>2. schedule' \in BOOLEAN
      BY <2>1, <3>1 DEF ProcExit, PollMode
    <3>3. QED BY <2>1, <3>2 DEF ProcExit, TypeOK, QueueType
  <2>2. CASE ProcStopExit \/ SvcCheck
    BY <2>2, Frame DEF ProcStopExit, SvcCheck
  <2>3. QED BY <2>1, <2>2
<1>8. QED BY <1>4, <1>5, <1>6, <1>7, Frame DEF TypeOK

LEMMA ServiceType ==
  ASSUME Inv, Service
  PROVE  TypeOK'
<1> TypeOK /\ Svc \in Thread
  BY DEF Inv, Thread
<1>1. CASE SvcStart
  <2>1. Reap("svc")
    BY <1>1 DEF SvcStart
  <2>2. /\ cidx' \in Slot /\ avail' \in Nat /\ credit' \in Nat
        /\ at' \in {"svc", "cmpl"}
        /\ ret' \in {"none", "loop", "full", "exit", "svc", "stop"}
    BY <2>1, ReapType
  <2>3. QueueType'
    BY <1>1, <2>2 DEF SvcStart, TypeOK, QueueType
  <2>4. LockType'
    BY <1>1, <2>2 DEF SvcStart, TypeOK, LockType
  <2>5. svcQueued' = FALSE /\ UNCHANGED <<pc, runVars>>
    BY <1>1 DEF SvcStart
  <2>6. ThreadType'
    BY <2>5 DEF TypeOK, ThreadType, runVars
  <2>7. UNCHANGED <<hwVars, reqVars>>
    BY <1>1 DEF SvcStart
  <2>8. QED BY <2>3, <2>4, <2>6, <2>7, Frame DEF TypeOK
<1>2. CASE KthCheck \/ KthWake
  <2>1. PICK next \in {"proc", "sleep", "idle"} :
          pc' = [pc EXCEPT ![Svc] = next]
    BY <1>2 DEF KthCheck, KthWake
  <2>2. schedule' \in {schedule, FALSE}
    BY <1>2 DEF KthCheck, KthWake
  <2>3. /\ UNCHANGED <<qState, stopWait, pendEmpty, work, pend, workReqPend>>
        /\ UNCHANGED <<avail, pidx, cidx, credit, infoPidx, procRunning>>
        /\ UNCHANGED <<live, svcQueued, runVars>>
        /\ UNCHANGED <<lockVars, hwVars, reqVars>>
    BY <1>2 DEF KthCheck, KthWake
  <2>4. QueueType'
    BY <2>2, <2>3 DEF TypeOK, QueueType
  <2>5. ThreadType'
    BY <2>1, <2>3 DEF TypeOK, ThreadType, runVars
  <2>6. QED BY <2>3, <2>4, <2>5, Frame DEF TypeOK
<1>3. QED BY <1>1, <1>2 DEF Service

LEMMA CallType ==
  ASSUME Inv, NEW r \in Req, Call(r)
  PROVE  TypeOK'
<1> TypeOK /\ r \in Thread
  BY DEF Inv, Thread
<1>1. CASE Submit(r)
  <2>1. work \in Seq(Req) /\ workReqPend \in Int
    BY DEF TypeOK, QueueType
  <2>2. work' \in Seq(Req) /\ workReqPend' \in Int
    <3>1. CASE qState = "ONLINE"
      BY <1>1, <2>1, <3>1 DEF Submit, WorkAdd
    <3>2. CASE qState # "ONLINE"
      BY <1>1, <2>1, <3>2 DEF Submit
    <3>3. QED BY <3>1, <3>2
  <2>3. QueueType'
    BY <1>1, <2>2 DEF Submit, TypeOK, QueueType
  <2>4. /\ result' \in {result, [result EXCEPT ![r] = "EINVAL"]}
        /\ UNCHANGED <<offset, descNr, done, status>>
    BY <1>1 DEF Submit
  <2>5. ReqType'
    BY <2>4 DEF TypeOK, ReqType, Outcome
  <2>6. /\ pc' \in {[pc EXCEPT ![r] = "proc"], [pc EXCEPT ![r] = "end"]}
        /\ UNCHANGED <<svcQueued, runVars>>
    BY <1>1 DEF Submit
  <2>7. ThreadType'
    BY <2>6 DEF TypeOK, ThreadType, runVars
  <2>8. UNCHANGED <<lockVars, hwVars>>
    BY <1>1 DEF Submit
  <2>9. QED BY <2>3, <2>5, <2>7, <2>8, Frame DEF TypeOK
<1>2. CASE SubmitNoMap(r)
  <2>1. ReqType'
    BY <1>2 DEF SubmitNoMap, TypeOK, ReqType, Outcome
  <2>2. ThreadType'
    BY <1>2 DEF SubmitNoMap, TypeOK, ThreadType, runVars
  <2>3. UNCHANGED <<qVars, lockVars, hwVars>>
    BY <1>2 DEF SubmitNoMap
  <2>4. QED BY <2>1, <2>2, <2>3, Frame DEF TypeOK
<1>3. CASE WaitWake(r)
  <2>1. ThreadType'
    BY <1>3 DEF WaitWake, TypeOK, ThreadType, runVars
  <2>2. UNCHANGED <<qVars, lockVars, hwVars, reqVars>>
    BY <1>3 DEF WaitWake
  <2>3. QED BY <2>1, <2>2, Frame DEF TypeOK
<1>4. CASE WaitFinish(r)
  <2>1. work' \in Seq(Req) /\ pend' \in Seq(Req)
    BY <1>4, WithoutType DEF WaitFinish, TypeOK, QueueType
  <2>2. QueueType'
    BY <1>4, <2>1 DEF WaitFinish, TypeOK, QueueType
  <2>3. /\ result' \in {[result EXCEPT ![r] = "ok"],
                        [result EXCEPT ![r] = "EIO"]}
        /\ UNCHANGED <<offset, descNr, done, status>>
    BY <1>4 DEF WaitFinish
  <2>4. ReqType'
    BY <2>3 DEF TypeOK, ReqType, Outcome
  <2>5. pc' = [pc EXCEPT ![r] = "end"] /\ UNCHANGED <<svcQueued, runVars>>
    BY <1>4 DEF WaitFinish
  <2>6. ThreadType'
    BY <2>5 DEF TypeOK, ThreadType, runVars
  <2>7. UNCHANGED <<lockVars, hwVars>>
    BY <1>4 DEF WaitFinish
  <2>8. QED BY <2>2, <2>4, <2>6, <2>7, Frame DEF TypeOK
<1>5. QED BY <1>1, <1>2, <1>3, <1>4 DEF Call

LEMMA BatchCallType ==
  ASSUME Inv, BatchMap \/ BatchQueue
  PROVE  TypeOK'
<1> TypeOK
  BY DEF Inv
<1>1. CASE BatchMap
  <2>1. ReqType'
    BY <1>1 DEF BatchMap, TypeOK, ReqType, Outcome
  <2>2. ThreadType'
    BY <1>1 DEF BatchMap, TypeOK, ThreadType, runVars
  <2>3. UNCHANGED <<qVars, lockVars, hwVars>>
    BY <1>1 DEF BatchMap
  <2>4. QED BY <2>1, <2>2, <2>3, Frame DEF TypeOK
<1>2. CASE BatchQueue
  <2>1. work \in Seq(Req) /\ BatchSeq \in Seq(Req)
    BY BatchType DEF TypeOK, QueueType
  <2>2. work \o BatchSeq \in Seq(Req)
    BY <2>1, ConcatType
  <2>3. work' \in Seq(Req)
    BY <1>2, <2>1, <2>2 DEF BatchQueue
  <2>4. QueueType'
    BY <1>2, <2>3 DEF BatchQueue, TypeOK, QueueType
  <2>5. /\ \/ result' = result
           \/ result' = [r \in Req |-> IF r \in Batch THEN "EINVAL"
                                       ELSE result[r]]
        /\ UNCHANGED <<offset, descNr, done, status>>
    BY <1>2 DEF BatchQueue
  <2>6. ReqType'
    BY <2>5 DEF TypeOK, ReqType, Outcome
  <2>7. BatchSeq[1] \in Thread
    BY <1>2, <2>1 DEF BatchQueue, Thread
  <2>8. /\ pc' \in {[pc EXCEPT ![BatchSeq[1]] = "proc"],
                    [pc EXCEPT ![BatchSeq[1]] = "end"]}
        /\ UNCHANGED <<svcQueued, runVars>>
    BY <1>2 DEF BatchQueue
  <2>9. ThreadType'
    BY <2>7, <2>8 DEF TypeOK, ThreadType, runVars
  <2>10. UNCHANGED <<lockVars, hwVars>>
    BY <1>2 DEF BatchQueue
  <2>11. QED BY <2>4, <2>6, <2>9, <2>10, Frame DEF TypeOK
<1>3. QED BY <1>1, <1>2

LEMMA StopType ==
  ASSUME Inv, Stop
  PROVE  TypeOK'
<1> TypeOK /\ Stp \in Thread
  BY DEF Inv, Thread
<1>1. CASE StopBegin
  <2>1. QueueType'
    BY <1>1 DEF StopBegin, TypeOK, QueueType
  <2>2. stops' \in 0 .. MaxStop
    BY <1>1, SizeAssumption DEF StopBegin, TypeOK, ThreadType
  <2>3. /\ pc' \in {[pc EXCEPT ![Stp] = "drained"],
                    [pc EXCEPT ![Stp] = "wait"]}
        /\ UNCHANGED <<svcQueued, starts, mode>>
    BY <1>1 DEF StopBegin
  <2>4. ThreadType'
    BY <2>2, <2>3 DEF TypeOK, ThreadType
  <2>5. UNCHANGED <<lockVars, hwVars, reqVars>>
    BY <1>1 DEF StopBegin
  <2>6. QED BY <2>1, <2>4, <2>5, Frame DEF TypeOK
<1>2. CASE StopWake \/ StopExpire
  <2>1. ThreadType'
    BY <1>2 DEF StopWake, StopExpire, TypeOK, ThreadType, runVars
  <2>2. UNCHANGED <<qVars, lockVars, hwVars, reqVars>>
    BY <1>2 DEF StopWake, StopExpire
  <2>3. QED BY <2>1, <2>2, Frame DEF TypeOK
<1>3. CASE StopDrain
  <2>1. QueueType'
    BY <1>3 DEF StopDrain, TypeOK, QueueType
  <2>2. LockType'
    BY <1>3 DEF StopDrain, TypeOK, LockType
  <2>3. UNCHANGED <<hwVars, reqVars, thrVars>>
    BY <1>3 DEF StopDrain
  <2>4. QED BY <2>1, <2>2, <2>3, Frame DEF TypeOK
<1>4. CASE Teardown
  <2>1. QueueType'
    BY <1>4 DEF Teardown, TypeOK, QueueType
  <2>2. /\ armed' = FALSE /\ pnd' = FALSE
        /\ UNCHANGED <<ring, doorbell, hwc, wb, moved>>
    BY <1>4 DEF Teardown
  <2>3. HwType'
    BY <2>2 DEF TypeOK, HwType
  <2>4. ThreadType'
    BY <1>4 DEF Teardown, TypeOK, ThreadType, runVars
  <2>5. UNCHANGED <<lockVars, reqVars>>
    BY <1>4 DEF Teardown
  <2>6. QED BY <2>1, <2>3, <2>4, <2>5, Frame DEF TypeOK
<1>5. QED BY <1>1, <1>2, <1>3, <1>4 DEF Stop

\* One entry handled by a drain loop.
LEMMA DrainOneType ==
  ASSUME TypeOK, NEW list \in Seq(Req), DrainOne(list),
         UNCHANGED <<offset, descNr>>
  PROVE  /\ ReqType' /\ pos' \in Nat \ {0}
         /\ AfterDrainOne(list) \in Seq(Req)
         /\ list[pos] \in Req /\ pos \in 1 .. Len(list)
<1>1. pos \in Nat \ {0} /\ pos <= Len(list)
  BY DEF DrainOne, TypeOK, LockType
<1>2. list[pos] \in Req /\ AfterDrainOne(list) \in Seq(Req)
  BY <1>1, DrainType
<1>3. pos' \in Nat \ {0}
  BY <1>1 DEF DrainOne
<1> DEFINE r == list[pos]
<1>4. /\ done' = [done EXCEPT ![r] = TRUE]
      /\ status' = [status EXCEPT ![r] = "ENXIO"]
      /\ result' \in {result, [result EXCEPT ![r] = "ENXIO"]}
  BY DEF DrainOne
<1>5. r \in Req
  BY <1>2
<1> HIDE DEF r
<1>6. ReqType'
  BY <1>4, <1>5 DEF TypeOK, ReqType, Outcome
<1>7. pos \in 1 .. Len(list)
  BY <1>1
<1>8. QED BY <1>2, <1>3, <1>6, <1>7

LEMMA DrainStepType ==
  ASSUME Inv, Drain
  PROVE  TypeOK'
<1> TypeOK
  BY DEF Inv
<1>1. work \in Seq(Req) /\ pend \in Seq(Req) /\ workReqPend \in Int
  BY DEF TypeOK, QueueType
<1>2. CASE DrainPend
  <2>1. DrainOne(pend) /\ UNCHANGED <<offset, descNr>>
    BY <1>2 DEF DrainPend
  <2>2. ReqType' /\ pos' \in Nat \ {0} /\ AfterDrainOne(pend) \in Seq(Req)
    BY <1>1, <2>1, DrainOneType
  <2>3. QueueType'
    BY <1>2, <2>2 DEF DrainPend, TypeOK, QueueType
  <2>4. LockType'
    BY <1>2, <2>2 DEF DrainPend, TypeOK, LockType
  <2>5. UNCHANGED <<hwVars, thrVars>>
    BY <1>2 DEF DrainPend
  <2>6. QED BY <2>2, <2>3, <2>4, <2>5, Frame DEF TypeOK
<1>3. CASE DrainNext
  <2>1. LockType'
    BY <1>3 DEF DrainNext, TypeOK, LockType
  <2>2. UNCHANGED <<qVars, hwVars, reqVars, thrVars>>
    BY <1>3 DEF DrainNext
  <2>3. QED BY <2>1, <2>2, Frame DEF TypeOK
<1>4. CASE DrainWork
  <2>1. DrainOne(work) /\ UNCHANGED <<offset, descNr>>
    BY <1>4 DEF DrainWork
  <2>2. /\ ReqType' /\ pos' \in Nat \ {0}
        /\ pos \in 1 .. Len(work)
    BY <1>1, <2>1, DrainOneType
  <2>3. RemoveAt(work, pos) \in Seq(Req)
    BY <1>1, <2>2, RemoveAtType
  <2>4. work' \in Seq(Req) /\ workReqPend' \in Int
    <3>1. CASE work[pos] \in Sync
      BY <1>1, <1>4, <3>1 DEF DrainWork
    <3>2. CASE work[pos] \notin Sync
      <4>1. work' = RemoveAt(work, pos) /\ workReqPend' = workReqPend - 1
        BY <1>4, <3>2 DEF DrainWork, WorkDel
      <4>2. QED BY <1>1, <2>3, <4>1
    <3>3. QED BY <3>1, <3>2
  <2>5. QueueType'
    BY <1>4, <2>4 DEF DrainWork, TypeOK, QueueType
  <2>6. LockType'
    BY <1>4, <2>2 DEF DrainWork, TypeOK, LockType
  <2>7. UNCHANGED <<hwVars, thrVars>>
    BY <1>4 DEF DrainWork
  <2>8. QED BY <2>2, <2>5, <2>6, <2>7, Frame DEF TypeOK
<1>5. CASE DrainEnd
  <2>1. Unlock("teardown") /\ cur \in Thread
    BY <1>5 DEF DrainEnd, Inv, LockOK, Thread
  <2>2. /\ at' = "free" /\ cur' = Nobody
        /\ pc' \in [Thread -> {"new", "mapped", "proc", "wait", "woken",
                               "end", "idle", "sleep", "drained", "expired",
                               "teardown", "prog"}]
    BY <2>1, UnlockType
  <2>3. LockType'
    BY <1>5, <2>2 DEF DrainEnd, TypeOK, LockType
  <2>4. ThreadType'
    BY <1>5, <2>2 DEF DrainEnd, TypeOK, ThreadType, runVars
  <2>5. UNCHANGED <<qVars, hwVars, reqVars>>
    BY <1>5 DEF DrainEnd
  <2>6. QED BY <2>3, <2>4, <2>5, Frame DEF TypeOK
<1>6. QED BY <1>2, <1>3, <1>4, <1>5 DEF Drain

LEMMA StartType ==
  ASSUME Inv, Start
  PROVE  TypeOK'
<1> TypeOK /\ Stp \in Thread
  BY DEF Inv, Thread
<1> 0 \in Slot /\ RngSz - 1 \in Nat
  BY SizeFacts DEF Slot
<1>1. CASE StartConfig
  <2>1. QueueType'
    BY <1>1 DEF StartConfig, ResetIndices, TypeOK, QueueType
  <2>2. starts' \in 0 .. MaxStart
    BY <1>1, SizeAssumption DEF StartConfig, TypeOK, ThreadType
  <2>3. /\ pc' = [pc EXCEPT ![Stp] = "prog"]
        /\ UNCHANGED <<svcQueued, stops, mode>>
    BY <1>1 DEF StartConfig
  <2>4. ThreadType'
    BY <2>2, <2>3 DEF TypeOK, ThreadType
  <2>5. UNCHANGED <<lockVars, hwVars, reqVars>>
    BY <1>1 DEF StartConfig
  <2>6. QED BY <2>1, <2>4, <2>5, Frame DEF TypeOK
<1>2. CASE StartOnline
  <2>1. QueueType'
    BY <1>2 DEF StartOnline, TypeOK, QueueType
  <2>2. /\ ring' = [i \in Slot |-> Nobody]
        /\ doorbell' = 0 /\ hwc' = 0 /\ wb' = 0
        /\ armed' \in BOOLEAN /\ pnd' = FALSE
        /\ moved' = moved
    BY <1>2 DEF StartOnline, PollMode
  <2>3. HwType'
    BY <2>2 DEF TypeOK, HwType
  <2>4. ThreadType'
    BY <1>2 DEF StartOnline, TypeOK, ThreadType, runVars
  <2>5. UNCHANGED <<lockVars, reqVars>>
    BY <1>2 DEF StartOnline
  <2>6. QED BY <2>1, <2>3, <2>4, <2>5, Frame DEF TypeOK
<1>3. CASE StartFail
  <2>1. ThreadType'
    BY <1>3 DEF StartFail, TypeOK, ThreadType, runVars
  <2>2. UNCHANGED <<qVars, lockVars, hwVars, reqVars>>
    BY <1>3 DEF StartFail
  <2>3. QED BY <2>1, <2>2, Frame DEF TypeOK
<1>4. QED BY <1>1, <1>2, <1>3 DEF Start

LEMMA HwStepType ==
  ASSUME Inv, Hw
  PROVE  TypeOK'
<1> TypeOK
  BY DEF Inv
<1>1. CASE HwExec
  <2>1. hwc \in Slot /\ doorbell \in Slot
    BY DEF TypeOK, HwType
  <2>2. Incr(hwc, 1) \in Slot
    BY <2>1, SizeFacts DEF Incr, Slot
  <2>3. moved' \in [Req -> Nat]
    <3>1. moved \in [Req -> Nat]
      BY DEF TypeOK, HwType
    <3>2. moved' = [r \in Req |-> IF r = ring[hwc] THEN moved[r] + 1
                                  ELSE moved[r]]
      BY <1>1 DEF HwExec
    <3>3. QED BY <3>1, <3>2
  <2>4. hwc' = Incr(hwc, 1) /\ UNCHANGED <<ring, doorbell, wb, armed, pnd>>
    BY <1>1 DEF HwExec
  <2>5. HwType'
    BY <2>2, <2>3, <2>4 DEF TypeOK, HwType
  <2>6. UNCHANGED <<qVars, lockVars, reqVars, thrVars>>
    BY <1>1 DEF HwExec
  <2>7. QED BY <2>5, <2>6, Frame DEF TypeOK
<1>2. CASE HwWriteback
  <2>1. /\ wb' = hwc /\ armed' = FALSE /\ pnd' \in BOOLEAN
        /\ UNCHANGED <<ring, doorbell, hwc, moved>>
    BY <1>2 DEF HwWriteback, PollMode, TypeOK, HwType
  <2>2. HwType'
    BY <2>1 DEF TypeOK, HwType
  <2>3. svcQueued' \in BOOLEAN
    BY <1>2 DEF HwWriteback, TypeOK, ThreadType, HwType
  <2>4. UNCHANGED <<pc, runVars>>
    BY <1>2 DEF HwWriteback
  <2>5. ThreadType'
    BY <2>3, <2>4 DEF TypeOK, ThreadType, runVars
  <2>6. UNCHANGED <<qVars, lockVars, reqVars>>
    BY <1>2 DEF HwWriteback
  <2>7. QED BY <2>2, <2>5, <2>6, Frame DEF TypeOK
<1>3. CASE IrqShared
  <2>1. ThreadType'
    BY <1>3 DEF IrqShared, TypeOK, ThreadType, runVars
  <2>2. UNCHANGED <<qVars, lockVars, hwVars, reqVars>>
    BY <1>3 DEF IrqShared
  <2>3. QED BY <2>1, <2>2, Frame DEF TypeOK
<1>4. QED BY <1>1, <1>2, <1>3 DEF Hw

LEMMA TypeStep ==
  ASSUME Inv, [Next]_vars
  PROVE  TypeOK'
<1>1. CASE UNCHANGED vars
  BY <1>1, Frame DEF Inv, TypeOK, vars
<1>2. ASSUME Holder
      PROVE  TypeOK'
  BY <1>2, CmplType, LoopType, ExitType, DrainStepType DEF Holder
<1>3. QED
  BY <1>1, <1>2, ServiceType, HwStepType, StopType, StartType,
     BatchCallType, ProcType, CallType DEF Next
-----------------------------------------------------------------------------
(* The lock holder and the life of the queue, action by action.            *)

LEMMA PcStp ==
  ASSUME TypeOK, NEW x
  PROVE  /\ [pc EXCEPT ![Stp] = x][Stp] = x
         /\ \A t \in Req \cup {Svc} : [pc EXCEPT ![t] = x][Stp] = pc[Stp]
BY ReqAssumption DEF TypeOK, ThreadType, Thread

\* Steps that move neither the holder nor the control thread.
LEMMA ControlFrame ==
  ASSUME LockOK, StopOK, UNCHANGED <<at, cur, ret, qState, live, pidx, cidx>>,
         pc'[Stp] = pc[Stp]
  PROVE  LockOK' /\ StopOK'
BY DEF LockOK, StopOK, Writing

LEMMA SectionControl ==
  ASSUME Inv, Cmpl \/ Loop \/ ProcExit \/ ProcStopExit \/ SvcCheck
  PROVE  LockOK' /\ StopOK'
<1> TypeOK /\ LockOK /\ StopOK
  BY DEF Inv
<1>1. CASE CmplDone \/ CmplPart
  <2>1. UNCHANGED <<at, cur, ret, qState, live, pidx, cidx, pc>>
    BY <1>1 DEF CmplDone, CmplPart, lockVars, thrVars
  <2>2. QED BY <2>1, ControlFrame
<1>2. CASE CmplEnd
  <2>1. LockOK'
    BY <1>2 DEF CmplEnd, qVars, LockOK, Writing
  <2>2. StopOK'
    BY <1>2 DEF CmplEnd, qVars, StopOK
  <2>3. QED BY <2>1, <2>2
<1>3. CASE ProcFill
  <2>1. LockOK'
    BY <1>3 DEF ProcFill, thrVars, LockOK, Writing
  <2>2. qState = "ONLINE"
    BY <1>3 DEF ProcFill, LockOK, Writing
  <2>3. UNCHANGED <<qState, live, pc>>
    BY <1>3 DEF ProcFill, thrVars
  <2>4. StopOK'
    BY <2>2, <2>3 DEF StopOK
  <2>5. QED BY <2>1, <2>4
<1>4. CASE ProcFull
  <2>1. LockOK'
    BY <1>4 DEF ProcFull, Reap, thrVars, LockOK, Writing
  <2>2. qState = "ONLINE" /\ UNCHANGED <<qState, live, pc>>
    BY <1>4 DEF ProcFull, thrVars, LockOK, Writing
  <2>3. QED BY <2>1, <2>2 DEF StopOK
<1>5. CASE ProcRing
  <2>1. LockOK'
    BY <1>5 DEF ProcRing, LoopOver, Reap, LockOK, Writing
  <2>2. qState = "ONLINE" /\ UNCHANGED <<qState, live, pc>>
    BY <1>5 DEF ProcRing, LoopOver, LockOK, Writing
  <2>3. QED BY <2>1, <2>2 DEF StopOK
<1>6. CASE ProcExit \/ ProcStopExit \/ SvcCheck
  <2>1. cur \in Req \cup {Svc} /\ \E x : pc' = [pc EXCEPT ![cur] = x]
    BY <1>6 DEF ProcExit, ProcStopExit, SvcCheck, Unlock, LockOK
  <2>2. pc'[Stp] = pc[Stp]
    BY <2>1, PcStp
  <2>3. UNCHANGED <<qState, live, pidx, cidx>> /\ at' = "free"
    BY <1>6 DEF ProcExit, ProcStopExit, SvcCheck, Unlock, qVars
  <2>4. QED BY <2>2, <2>3 DEF LockOK, StopOK, Writing
<1>7. QED BY <1>1, <1>2, <1>3, <1>4, <1>5, <1>6 DEF Cmpl, Loop

LEMMA EntryControl ==
  ASSUME Inv, \/ \E t \in Req \cup {Svc} : Proc(t)
              \/ SvcStart
  PROVE  LockOK' /\ StopOK'
<1> TypeOK /\ LockOK /\ StopOK
  BY DEF Inv
<1>1. ASSUME NEW t \in Req \cup {Svc}, ProcStopWait(t)
      PROVE  LockOK' /\ StopOK'
  <2>1. LockOK'
    BY <1>1 DEF ProcStopWait, Reap, thrVars, LockOK, Writing
  <2>2. StopOK'
    BY <1>1 DEF ProcStopWait, Reap, thrVars, StopOK
  <2>3. QED BY <2>1, <2>2
<1>2. ASSUME NEW t \in Req \cup {Svc}, ProcSkip(t)
      PROVE  LockOK' /\ StopOK'
  BY <1>2, PcStp, ControlFrame DEF ProcSkip, qVars, lockVars
<1>3. ASSUME NEW t \in Req \cup {Svc}, ProcBegin(t)
      PROVE  LockOK' /\ StopOK'
  <2>1. LockOK'
    BY <1>3 DEF ProcBegin, Begin, Reap, thrVars, LockOK, Writing
  <2>2. StopOK'
    BY <1>3 DEF ProcBegin, Begin, Reap, thrVars, StopOK
  <2>3. QED BY <2>1, <2>2
<1>4. ASSUME SvcStart
      PROVE  LockOK' /\ StopOK'
  <2>1. LockOK'
    BY <1>4 DEF SvcStart, Reap, LockOK, Writing
  <2>2. StopOK'
    BY <1>4 DEF SvcStart, Reap, StopOK
  <2>3. QED BY <2>1, <2>2
<1>5. QED BY <1>1, <1>2, <1>3, <1>4 DEF Proc

LEMMA CallControl ==
  ASSUME Inv, \/ \E r \in Req : Call(r)
              \/ BatchMap \/ BatchQueue \/ KthCheck \/ KthWake \/ Hw
  PROVE  LockOK' /\ StopOK'
<1> TypeOK /\ LockOK /\ StopOK /\ Stp \notin Req \cup {Svc} /\ Stp \in Thread
  BY ReqAssumption DEF Inv, Thread
<1>1. UNCHANGED <<at, cur, ret, qState, live, pidx, cidx>>
  BY DEF Call, Submit, SubmitNoMap, WaitWake, WaitFinish, BatchMap,
         BatchQueue, KthCheck, KthWake, Hw, HwExec, HwWriteback, IrqShared,
         WorkAdd, qVars, lockVars
<1>2. pc'[Stp] = pc[Stp]
  <2>1. CASE BatchMap
    <3>1. Stp \notin Batch /\ BatchSeq[1] \in Batch
      BY <2>1, BatchType DEF BatchMap, Batch
    <3>2. pc' = [t \in Thread |-> IF t = BatchSeq[1] THEN "mapped"
                                  ELSE IF t \in Batch THEN "end" ELSE pc[t]]
      BY <2>1 DEF BatchMap
    <3>3. QED BY <3>1, <3>2
  <2>2. CASE BatchQueue
    <3>1. BatchSeq[1] \in Req
      BY <2>2, BatchType DEF BatchQueue
    <3>2. \E x : pc' = [pc EXCEPT ![BatchSeq[1]] = x]
      BY <2>2 DEF BatchQueue
    <3>3. QED BY <3>1, <3>2, PcStp
  <2>3. CASE KthCheck \/ KthWake
    <3>1. \E x : pc' = [pc EXCEPT ![Svc] = x]
      BY <2>3 DEF KthCheck, KthWake
    <3>2. QED BY <3>1, PcStp
  <2>4. CASE Hw
    BY <2>4 DEF Hw, HwExec, HwWriteback, IrqShared, thrVars
  <2>5. ASSUME NEW r \in Req, Call(r)
        PROVE  pc'[Stp] = pc[Stp]
    <3>1. \E x : pc' = [pc EXCEPT ![r] = x]
      BY <2>5 DEF Call, Submit, SubmitNoMap, WaitWake, WaitFinish
    <3>2. QED BY <3>1, PcStp
  <2>6. QED BY <2>1, <2>2, <2>3, <2>4, <2>5
<1>3. QED BY <1>1, <1>2, ControlFrame

LEMMA StopControl ==
  ASSUME Inv, Stop \/ Drain \/ Start
  PROVE  LockOK' /\ StopOK'
<1> TypeOK /\ LockOK /\ StopOK
  BY DEF Inv
<1>0. \A x : pc' = [pc EXCEPT ![Stp] = x] => pc'[Stp] = x
  BY PcStp
<1>1. CASE StopBegin
  <2>1. pc'[Stp] \in {"drained", "wait"} /\ pc[Stp] = "idle"
    BY <1>0, <1>1 DEF StopBegin
  <2>2. /\ qState = "ONLINE" /\ at = "free"
        /\ UNCHANGED <<at, cur, ret, qState, live, pidx, cidx>>
    BY <1>1 DEF StopBegin, lockVars
  <2>3. QED BY <2>1, <2>2 DEF LockOK, StopOK, Writing
<1>2. CASE StopWake \/ StopExpire
  <2>1. pc'[Stp] \in {"drained", "expired"} /\ pc[Stp] = "wait"
    BY <1>0, <1>2 DEF StopWake, StopExpire
  <2>2. UNCHANGED <<at, cur, ret, qState, live, pidx, cidx>>
    BY <1>2 DEF StopWake, StopExpire, qVars, lockVars
  <2>3. QED BY <2>1, <2>2 DEF LockOK, StopOK, Writing
<1>3. CASE StopDrain
  <2>1. /\ pc[Stp] \in {"drained", "expired"} /\ qState' = "ENABLED"
        /\ at' = "drainPend" /\ cur' = Stp
        /\ UNCHANGED <<ret, live, pidx, cidx, pc>>
    BY <1>3 DEF StopDrain, thrVars
  <2>2. QED BY <2>1 DEF LockOK, StopOK, Writing
<1>4. CASE DrainPend \/ DrainWork
  <2>1. UNCHANGED <<at, cur, ret, qState, live, pidx, cidx, pc>>
    BY <1>4 DEF DrainPend, DrainWork, thrVars
  <2>2. QED BY <2>1, ControlFrame
<1>5. CASE DrainNext
  <2>1. /\ at = "drainPend" /\ at' = "drainWork"
        /\ UNCHANGED <<cur, ret, qState, live, pidx, cidx, pc>>
    BY <1>5 DEF DrainNext, qVars, thrVars
  <2>2. QED BY <2>1 DEF LockOK, StopOK, Writing
<1>6. CASE DrainEnd
  <2>1. cur = Stp /\ qState = "ENABLED" /\ pc[Stp] \in {"drained", "expired"}
    BY <1>6 DEF DrainEnd, LockOK
  <2>2. pc'[Stp] = "teardown"
    BY <1>0, <1>6, <2>1 DEF DrainEnd, Unlock
  <2>3. at' = "free" /\ UNCHANGED <<qState, live, pidx, cidx>>
    BY <1>6 DEF DrainEnd, Unlock, qVars
  <2>4. QED BY <2>1, <2>2, <2>3 DEF LockOK, StopOK, Writing
<1>7. CASE Teardown
  <2>1. /\ pc[Stp] = "teardown" /\ pc'[Stp] = "idle" /\ live' = FALSE
        /\ UNCHANGED <<at, cur, ret, qState>>
    BY <1>0, <1>7 DEF Teardown, lockVars
  <2>2. QED BY <2>1 DEF LockOK, StopOK, Writing
<1>8. CASE StartConfig
  <2>1. /\ pc[Stp] = "idle" /\ pc'[Stp] = "prog" /\ qState = "ENABLED"
        /\ pidx' = 0 /\ cidx' = 0
        /\ UNCHANGED <<at, cur, ret, qState, live>>
    BY <1>0, <1>8 DEF StartConfig, ResetIndices, lockVars
  <2>2. QED BY <2>1 DEF LockOK, StopOK, Writing
<1>9. CASE StartOnline
  <2>1. /\ at = "free" /\ pc'[Stp] = "idle"
        /\ live' = TRUE /\ qState' = "ONLINE" /\ UNCHANGED at
    BY <1>0, <1>9 DEF StartOnline, lockVars
  <2>2. QED BY <2>1 DEF LockOK, StopOK, Writing
<1>10. CASE StartFail
  <2>1. /\ pc[Stp] = "prog" /\ pc'[Stp] = "idle"
        /\ UNCHANGED <<at, cur, ret, qState, live, pidx, cidx>>
    BY <1>0, <1>10 DEF StartFail, qVars, lockVars
  <2>2. QED BY <2>1 DEF LockOK, StopOK, Writing
<1>11. QED
  BY <1>1, <1>2, <1>3, <1>4, <1>5, <1>6, <1>7, <1>8, <1>9, <1>10
     DEF Stop, Drain, Start

LEMMA ControlStep ==
  ASSUME Inv, [Next]_vars
  PROVE  LockOK' /\ StopOK'
<1>1. CASE UNCHANGED vars
  <2>1. UNCHANGED <<at, cur, ret, qState, live, pidx, cidx, pc>>
    BY <1>1 DEF vars, qVars, lockVars, thrVars
  <2>2. QED BY <2>1, ControlFrame DEF Inv
<1>2. QED
  BY <1>1, SectionControl, EntryControl, CallControl, StopControl
     DEF Next, Holder, Service
-----------------------------------------------------------------------------
(* The indices.                                                            *)

\* A step that moves no index, and does not start to process completions.
LEMMA RingFrame ==
  ASSUME RingOK,
         UNCHANGED <<avail, pidx, cidx, live, doorbell, wb, hwc, infoPidx>>,
         at' = at \/ at' # "cmpl"
  PROVE  RingOK'
BY DEF RingOK, Chain, Delta

\* A reap, by a thread that may just have written the doorbell d: the
\* consumer index moves up to the writeback, which lies before d and pidx.
LEMMA ReapRing ==
  ASSUME TypeOK,
         NEW d \in Slot, NEW next \in {"loop", "full", "exit", "svc", "stop"},
         Reap(next), doorbell' = d, UNCHANGED <<pidx, live, wb, hwc>>,
         avail + Delta(pidx, cidx) = RngSz - 1,
         live \/ pidx # cidx =>
            /\ Delta(wb, cidx) <= Delta(hwc, cidx)
            /\ Delta(hwc, cidx) <= Delta(d, cidx)
            /\ Delta(d, cidx) <= Delta(pidx, cidx),
         live /\ d # cidx => infoPidx' = d
  PROVE  RingOK'
<1>1. /\ pidx \in Slot /\ cidx \in Slot /\ wb \in Slot /\ hwc \in Slot
      /\ avail \in Nat
  BY DEF TypeOK, QueueType, HwType
<1>2. CASE pidx = cidx \/ wb = cidx
  <2>1. at' # "cmpl" /\ UNCHANGED <<cidx, avail>>
    BY <1>2 DEF Reap
  <2>2. QED BY <2>1 DEF RingOK, Chain, Delta
<1>3. CASE ~(pidx = cidx \/ wb = cidx)
  <2>1. cidx' = wb /\ avail' = avail + Delta(wb, cidx)
    BY <1>3 DEF Reap
  <2>2. /\ Delta(wb, cidx) <= Delta(hwc, cidx)
        /\ Delta(hwc, cidx) <= Delta(d, cidx)
        /\ Delta(d, cidx) <= Delta(pidx, cidx)
    BY <1>3
  <2>3. /\ Delta(wb, cidx) \in 0 .. RngSz - 1
        /\ Delta(hwc, cidx) \in 0 .. RngSz - 1
        /\ Delta(d, cidx) \in 0 .. RngSz - 1
        /\ Delta(pidx, cidx) \in 0 .. RngSz - 1
        /\ RngSz \in Nat
    BY <1>1, DeltaType, SizeFacts
  <2>4. /\ Delta(wb, cidx) # 0
        /\ Delta(d, cidx) = 0 <=> d = cidx
    BY <1>1, <1>3, DeltaType
  <2>5. d # cidx
    BY <2>2, <2>3, <2>4
  <2>6. /\ Delta(hwc, wb) = Delta(hwc, cidx) - Delta(wb, cidx)
        /\ Delta(wb, wb) = 0
    BY <1>1, <2>2, DeltaSplit, DeltaType
  <2>7. Delta(wb, cidx) <= Delta(d, cidx) /\ Delta(wb, cidx) <= Delta(pidx, cidx)
    BY <2>2, <2>3
  <2>8. /\ Delta(d, wb) = Delta(d, cidx) - Delta(wb, cidx)
        /\ Delta(pidx, wb) = Delta(pidx, cidx) - Delta(wb, cidx)
    BY <1>1, <2>7, DeltaSplit
  <2>9. /\ Delta(wb, wb) <= Delta(hwc, wb)
        /\ Delta(hwc, wb) <= Delta(d, wb)
        /\ Delta(d, wb) <= Delta(pidx, wb)
        /\ avail + Delta(wb, cidx) + Delta(pidx, wb) = RngSz - 1
    BY <1>1, <2>2, <2>3, <2>6, <2>8
  <2>10. avail' + Delta(pidx, cidx)' = RngSz - 1
    BY <2>1, <2>9 DEF Delta
  <2>11. Chain'
    BY <2>1, <2>9 DEF Chain, Delta
  <2>12. live' => infoPidx' = doorbell'
    BY <2>5
  <2>13. QED BY <2>10, <2>11, <2>12 DEF RingOK
<1>4. QED BY <1>2, <1>3

\* The same for a reap without a doorbell.
LEMMA PlainReapRing ==
  ASSUME Inv, NEW next \in {"loop", "full", "exit", "svc", "stop"},
         Reap(next), UNCHANGED <<pidx, live, wb, hwc, doorbell, infoPidx>>
  PROVE  RingOK'
<1>1. TypeOK /\ doorbell \in Slot
  BY DEF Inv, TypeOK, HwType
<1>2. QED BY <1>1, ReapRing DEF Inv, RingOK, Chain

LEMMA ProcFillRing ==
  ASSUME Inv, ProcFill
  PROVE  RingOK'
<1> DEFINE r == Head(work)
           n == Lesser(avail, NDesc[r] - offset[r])
<1>1. /\ r \in Req /\ n \in Nat /\ n <= avail
      /\ Delta(Incr(pidx, n), cidx) = Delta(pidx, cidx) + n
  BY FillFacts
<1>2. /\ pidx' = Incr(pidx, n) /\ avail' = avail - n /\ at' = "loop"
      /\ UNCHANGED <<cidx, live, doorbell, wb, hwc, infoPidx>>
  BY DEF ProcFill
<1> HIDE DEF n, r
<1>3. live /\ TypeOK /\ RingOK
  BY DEF ProcFill, Inv, LockOK, StopOK, Writing
<1>4. /\ avail \in Nat /\ Delta(pidx, cidx) \in Nat
      /\ Delta(doorbell, cidx) \in Nat /\ RngSz \in Nat
  BY <1>3, DeltaType, SizeFacts DEF TypeOK, QueueType, HwType
<1>5. Chain /\ avail + Delta(pidx, cidx) = RngSz - 1
  BY <1>3 DEF RingOK
<1>6. Delta(pidx, cidx)' = Delta(pidx, cidx) + n
  BY <1>1, <1>2 DEF Delta
<1>7. avail' + Delta(pidx, cidx)' = RngSz - 1
  BY <1>1, <1>2, <1>4, <1>5, <1>6
<1>8. /\ Delta(wb, cidx)' = Delta(wb, cidx)
      /\ Delta(hwc, cidx)' = Delta(hwc, cidx)
      /\ Delta(doorbell, cidx)' = Delta(doorbell, cidx)
  BY <1>2 DEF Delta
<1>9. Chain'
  BY <1>1, <1>4, <1>5, <1>6, <1>8 DEF Chain
<1>10. live' /\ (doorbell' # cidx' \/ at' = "cmpl") => infoPidx' = doorbell'
  BY <1>2, <1>3 DEF RingOK
<1>11. QED BY <1>7, <1>9, <1>10 DEF RingOK

\* The doorbell announces pidx, and the thread may reap at once.
LEMMA ProcRingRing ==
  ASSUME Inv, ProcRing
  PROVE  RingOK'
<1>1. live /\ TypeOK /\ RingOK
  BY DEF ProcRing, LoopOver, Inv, LockOK, StopOK, Writing
<1>2. /\ pidx \in Slot /\ cidx \in Slot /\ wb \in Slot /\ hwc \in Slot
      /\ doorbell \in Slot
  BY <1>1 DEF TypeOK, QueueType, HwType
<1>3. UNCHANGED <<pidx, live, wb, hwc>>
  BY DEF ProcRing
<1>4. CASE ~written
  BY <1>1, <1>4, RingFrame DEF ProcRing
<1>5. CASE written
  <2>1. doorbell' = pidx /\ infoPidx' = pidx
    BY <1>1, <1>5 DEF ProcRing, Ring
  <2>2. /\ Delta(wb, cidx) <= Delta(hwc, cidx)
        /\ Delta(hwc, cidx) <= Delta(pidx, cidx)
        /\ Delta(pidx, cidx) <= Delta(pidx, cidx)
        /\ avail + Delta(pidx, cidx) = RngSz - 1
    BY <1>1, <1>2, DeltaType, SizeFacts DEF RingOK, Chain
  <2>3. CASE PollMode
    <3>1. Reap("exit")
      BY <1>5, <2>3 DEF ProcRing
    <3>2. QED BY <1>1, <1>2, <1>3, <2>1, <2>2, <3>1, ReapRing
  <2>4. CASE ~PollMode
    <3>1. UNCHANGED <<cidx, avail>>
      BY <1>5, <2>4 DEF ProcRing
    <3>2. QED BY <1>3, <2>1, <2>2, <3>1 DEF RingOK, Chain, Delta
  <2>5. QED BY <2>3, <2>4
<1>6. QED BY <1>4, <1>5

\* The re-arming doorbell repeats the last one.
LEMMA CmplEndRing ==
  ASSUME Inv, CmplEnd
  PROVE  RingOK'
<1>1. UNCHANGED <<avail, pidx, cidx, live, wb, hwc, infoPidx>>
  BY DEF CmplEnd, qVars
<1>2. doorbell' = doorbell
  BY DEF CmplEnd, Ring, Inv, RingOK
<1>3. at' # "cmpl"
  BY DEF CmplEnd, Inv, LockOK
<1>4. QED BY <1>1, <1>2, <1>3, RingFrame DEF Inv

LEMMA HwExecRing ==
  ASSUME Inv, HwExec
  PROVE  RingOK'
<1>1. /\ hwc # doorbell /\ live /\ hwc' = Incr(hwc, 1)
      /\ UNCHANGED <<at, avail, pidx, cidx, live, doorbell, wb, infoPidx>>
  BY DEF HwExec, qVars, lockVars
<1>2. TypeOK /\ RingOK /\ Chain
  BY <1>1 DEF Inv, RingOK
<1>3. /\ pidx \in Slot /\ cidx \in Slot /\ wb \in Slot /\ hwc \in Slot
      /\ doorbell \in Slot
  BY <1>2 DEF TypeOK, QueueType, HwType
<1>4. /\ Delta(hwc, cidx) \in 0 .. RngSz - 1
      /\ Delta(doorbell, cidx) \in 0 .. RngSz - 1
      /\ Delta(wb, cidx) \in 0 .. RngSz - 1
      /\ RngSz \in Nat
  BY <1>3, DeltaType, SizeFacts
<1>5. Delta(hwc, cidx) # Delta(doorbell, cidx)
  BY <1>1, <1>3, SizeFacts DEF Delta, Slot
<1>6. Delta(hwc, cidx) + 1 <= Delta(doorbell, cidx)
  BY <1>2, <1>4, <1>5 DEF Chain
<1>7. Delta(Incr(hwc, 1), cidx) = Delta(hwc, cidx) + 1
  BY <1>3, <1>4, <1>6, DeltaIncr
<1>8. /\ Delta(hwc, cidx)' = Delta(hwc, cidx) + 1
      /\ Delta(wb, cidx)' = Delta(wb, cidx)
      /\ Delta(doorbell, cidx)' = Delta(doorbell, cidx)
      /\ Delta(pidx, cidx)' = Delta(pidx, cidx)
  BY <1>1, <1>7 DEF Delta
<1>9. Chain'
  BY <1>2, <1>4, <1>6, <1>8 DEF Chain
<1>10. QED BY <1>1, <1>2, <1>8, <1>9 DEF RingOK

LEMMA HwWritebackRing ==
  ASSUME Inv, HwWriteback
  PROVE  RingOK'
<1>1. /\ live /\ wb' = hwc
      /\ UNCHANGED <<at, avail, pidx, cidx, live, doorbell, hwc, infoPidx>>
  BY DEF HwWriteback, qVars, lockVars
<1>2. RingOK /\ Chain
  BY <1>1 DEF Inv, RingOK
<1>3. Delta(hwc, cidx) \in Nat
  BY DeltaType, SizeFacts DEF Inv, TypeOK, QueueType, HwType
<1>4. QED BY <1>1, <1>2, <1>3 DEF RingOK, Chain, Delta

\* A restart: the ring and the indices are fresh.
LEMMA StartRing ==
  ASSUME Inv, Start
  PROVE  RingOK'
<1>1. 0 \in Slot /\ Delta(0, 0) = 0 /\ RngSz \in Nat
  BY SizeFacts, DeltaType DEF Slot
<1>2. CASE StartConfig
  <2>1. ~live
    BY <1>2 DEF StartConfig, Inv, StopOK
  <2>2. /\ avail' = RngSz - 1 /\ pidx' = 0 /\ cidx' = 0 /\ live' = live
    BY <1>2 DEF StartConfig, ResetIndices
  <2>3. QED BY <1>1, <2>1, <2>2 DEF RingOK, Delta
<1>3. CASE StartOnline
  <2>1. pidx = 0 /\ cidx = 0 /\ avail + Delta(pidx, cidx) = RngSz - 1
    BY <1>3 DEF StartOnline, Inv, StopOK, RingOK
  <2>2. /\ UNCHANGED <<avail, pidx, cidx, at>> /\ at = "free"
        /\ doorbell' = 0 /\ hwc' = 0 /\ wb' = 0
    BY <1>3 DEF StartOnline, lockVars
  <2>3. QED BY <1>1, <2>1, <2>2 DEF RingOK, Chain, Delta
<1>4. CASE StartFail
  BY <1>4, RingFrame DEF StartFail, Inv, qVars, lockVars, hwVars
<1>5. QED BY <1>2, <1>3, <1>4 DEF Start

LEMMA StopRing ==
  ASSUME Inv, Stop
  PROVE  RingOK'
<1>1. CASE Teardown
  <2>1. /\ live' = FALSE
        /\ UNCHANGED <<at, avail, pidx, cidx, doorbell, wb, hwc, infoPidx>>
    BY <1>1 DEF Teardown, lockVars
  <2>2. QED BY <2>1 DEF Inv, RingOK, Chain, Delta
<1>2. CASE StopBegin
  BY <1>2, RingFrame DEF StopBegin, Inv, lockVars, hwVars
<1>3. CASE StopWake
  BY <1>3, RingFrame DEF StopWake, Inv, qVars, lockVars, hwVars
<1>4. CASE StopExpire
  BY <1>4, RingFrame DEF StopExpire, Inv, qVars, lockVars, hwVars
<1>5. CASE StopDrain
  BY <1>5, RingFrame DEF StopDrain, Inv, hwVars
<1>6. QED BY <1>1, <1>2, <1>3, <1>4, <1>5 DEF Stop

LEMMA HolderRing ==
  ASSUME Inv, Holder
  PROVE  RingOK'
<1>1. CASE Cmpl
  <2>1. CASE CmplDone
    BY <2>1, RingFrame DEF CmplDone, Inv, lockVars, hwVars
  <2>2. CASE CmplPart
    BY <2>2, RingFrame DEF CmplPart, Inv, lockVars, hwVars
  <2>3. QED BY <1>1, <2>1, <2>2, CmplEndRing DEF Cmpl
<1>2. CASE Loop
  <2>1. CASE ProcFull
    <3>1. Reap("full") /\ UNCHANGED <<pidx, live, wb, hwc, doorbell, infoPidx>>
      BY <2>1 DEF ProcFull, hwVars
    <3>2. QED BY <3>1, PlainReapRing
  <2>2. QED BY <1>2, <2>1, ProcFillRing, ProcRingRing DEF Loop
<1>3. CASE ProcExit \/ ProcStopExit \/ SvcCheck
  BY <1>3, RingFrame
     DEF ProcExit, ProcStopExit, SvcCheck, Unlock, Inv, qVars, hwVars
<1>4. CASE Drain
  <2>1. CASE DrainPend
    BY <2>1, RingFrame DEF DrainPend, Inv, hwVars
  <2>2. CASE DrainNext
    BY <2>2, RingFrame DEF DrainNext, Inv, qVars, hwVars
  <2>3. CASE DrainWork
    BY <2>3, RingFrame DEF DrainWork, Inv, hwVars
  <2>4. CASE DrainEnd
    BY <2>4, RingFrame DEF DrainEnd, Unlock, Inv, qVars, hwVars
  <2>5. QED BY <1>4, <2>1, <2>2, <2>3, <2>4 DEF Drain
<1>5. QED BY <1>1, <1>2, <1>3, <1>4 DEF Holder

\* The steps that enter a section.
LEMMA EntryRing ==
  ASSUME Inv, Service \/ \E t \in Req \cup {Svc} : Proc(t)
  PROVE  RingOK'
<1>1. CASE SvcStart
  <2>1. Reap("svc") /\ UNCHANGED <<pidx, live, wb, hwc, doorbell, infoPidx>>
    BY <1>1 DEF SvcStart, hwVars
  <2>2. QED BY <2>1, PlainReapRing
<1>2. CASE KthCheck \/ KthWake
  BY <1>2, RingFrame DEF KthCheck, KthWake, Inv, lockVars, hwVars
<1>3. CASE \E t \in Req \cup {Svc} : Proc(t)
  <2>1. PICK t \in Req \cup {Svc} : Proc(t)
    BY <1>3
  <2>2. CASE ProcStopWait(t)
    <3>1. Reap("stop") /\ UNCHANGED <<pidx, live, wb, hwc, doorbell, infoPidx>>
      BY <2>2 DEF ProcStopWait, hwVars
    <3>2. QED BY <3>1, PlainReapRing
  <2>3. CASE ProcSkip(t)
    BY <2>3, RingFrame DEF ProcSkip, Inv, qVars, lockVars, hwVars
  <2>4. CASE ProcBegin(t)
    <3>1. UNCHANGED <<pidx, live, wb, hwc, doorbell, infoPidx>>
      BY <2>4 DEF ProcBegin, Begin, hwVars
    <3>2. CASE PollMode
      BY <2>4, <3>1, <3>2, PlainReapRing DEF ProcBegin, Begin
    <3>3. CASE ~PollMode
      BY <2>4, <3>1, <3>3, RingFrame DEF ProcBegin, Begin, Inv
    <3>4. QED BY <3>2, <3>3
  <2>5. QED BY <2>1, <2>2, <2>3, <2>4 DEF Proc
<1>4. QED BY <1>1, <1>2, <1>3 DEF Service

LEMMA CallRing ==
  ASSUME Inv, BatchMap \/ BatchQueue \/ \E r \in Req : Call(r)
  PROVE  RingOK'
<1>1. CASE BatchMap
  BY <1>1, RingFrame DEF BatchMap, Inv, qVars, lockVars, hwVars
<1>2. CASE BatchQueue
  BY <1>2, RingFrame DEF BatchQueue, Inv, lockVars, hwVars
<1>3. CASE \E r \in Req : Call(r)
  <2>1. PICK r \in Req : Call(r)
    BY <1>3
  <2>2. CASE Submit(r)
    BY <2>2, RingFrame DEF Submit, Inv, lockVars, hwVars
  <2>3. CASE SubmitNoMap(r)
    BY <2>3, RingFrame DEF SubmitNoMap, Inv, qVars, lockVars, hwVars
  <2>4. CASE WaitWake(r)
    BY <2>4, RingFrame DEF WaitWake, Inv, qVars, lockVars, hwVars
  <2>5. CASE WaitFinish(r)
    BY <2>5, RingFrame DEF WaitFinish, Inv, lockVars, hwVars
  <2>6. QED BY <2>1, <2>2, <2>3, <2>4, <2>5 DEF Call
<1>4. QED BY <1>1, <1>2, <1>3

LEMMA RingStep ==
  ASSUME Inv, [Next]_vars
  PROVE  RingOK'
<1>1. CASE Hw
  <2>1. CASE IrqShared
    BY <2>1, RingFrame DEF IrqShared, Inv, qVars, lockVars, hwVars
  <2>2. QED BY <1>1, <2>1, HwExecRing, HwWritebackRing DEF Hw
<1>2. CASE UNCHANGED vars
  BY <1>2, RingFrame DEF vars, Inv, qVars, lockVars, hwVars
<1>3. QED BY <1>1, <1>2, HolderRing, EntryRing, StopRing, StartRing, CallRing
         DEF Next

LEMMA FillStep ==
  ASSUME Inv, [Next]_vars
  PROVE  FillOK'
<1>1. CASE ProcFill
  <2> DEFINE r == Head(work)
             n == Lesser(avail, NDesc[r] - offset[r])
  <2>1. r \in Req /\ n \in Nat /\ offset[r] + n <= NDesc[r]
    BY <1>1, FillFacts
  <2>2. offset' = [offset EXCEPT ![r] = @ + n]
    BY <1>1 DEF ProcFill
  <2>3. offset \in [Req -> Nat] /\ FillOK
    BY DEF Inv, TypeOK, ReqType
  <2> HIDE DEF r, n
  <2>4. QED BY <2>1, <2>2, <2>3 DEF FillOK
<1>2. CASE UNCHANGED offset
  BY <1>2 DEF Inv, FillOK
<1>3. Cmpl \/ ProcFull \/ ProcRing \/ ProcExit \/ ProcStopExit \/ SvcCheck
      => UNCHANGED offset
  BY DEF Cmpl, CmplDone, CmplPart, CmplEnd, ProcFull, ProcRing, ProcExit,
         ProcStopExit, SvcCheck, reqVars
<1>4. Drain \/ Service \/ Hw => UNCHANGED offset
  BY DEF Drain, DrainPend, DrainNext, DrainWork, DrainEnd, Service, SvcStart,
         KthCheck, KthWake, Hw, HwExec, HwWriteback, IrqShared, reqVars
<1>5. Stop \/ Start \/ BatchMap \/ BatchQueue => UNCHANGED offset
  BY DEF Stop, StopBegin, StopWake, StopExpire, StopDrain, Teardown, Start,
         StartConfig, StartOnline, StartFail, BatchMap, BatchQueue, reqVars
<1>6. ASSUME NEW t, Proc(t) PROVE UNCHANGED offset
  BY <1>6 DEF Proc, ProcStopWait, ProcSkip, ProcBegin, Begin, reqVars
<1>7. ASSUME NEW r, Call(r) PROVE UNCHANGED offset
  BY <1>7 DEF Call, Submit, SubmitNoMap, WaitWake, WaitFinish, reqVars
<1>8. UNCHANGED vars => UNCHANGED offset
  BY DEF vars, reqVars
<1>9. QED BY <1>1, <1>2, <1>3, <1>4, <1>5, <1>6, <1>7, <1>8
         DEF Next, Holder, Loop
-----------------------------------------------------------------------------
(* The theorems.                                                           *)

LEMMA InitInv == Init => Inv
<1> SUFFICES ASSUME Init PROVE Inv
  OBVIOUS
<1>1. 0 \in Slot /\ RngSz - 1 \in Nat /\ Delta(0, 0) = 0
  BY SizeFacts DEF Slot, Delta
<1>2. QueueType
  <2>1. /\ qState = "ENABLED" /\ stopWait = FALSE /\ pendEmpty = TRUE
        /\ work = <<>> /\ pend = <<>> /\ workReqPend = 0
        /\ avail = RngSz - 1 /\ pidx = 0 /\ cidx = 0 /\ credit = 0
        /\ infoPidx = 0 /\ procRunning = FALSE /\ live = FALSE
        /\ schedule = FALSE
    BY DEF Init
  <2>2. /\ work \in Seq(Req) /\ pend \in Seq(Req)
    BY <2>1, EmptySeq
  <2>3. /\ avail \in Nat /\ credit \in Nat /\ workReqPend \in Int
        /\ pidx \in Slot /\ cidx \in Slot /\ infoPidx \in Slot
    BY <1>1, <2>1
  <2>4. /\ stopWait \in BOOLEAN /\ pendEmpty \in BOOLEAN
        /\ procRunning \in BOOLEAN /\ live \in BOOLEAN
        /\ schedule \in BOOLEAN /\ qState \in {"ENABLED", "ONLINE"}
    BY <2>1
  <2>5. QED BY <2>2, <2>3, <2>4 DEF QueueType
<1>3. LockType
  <2>1. /\ at = "free" /\ cur = Nobody /\ ret = "none"
        /\ written = FALSE /\ pos = 1
    BY DEF Init
  <2>2. pos \in Nat \ {0}
    BY <2>1
  <2>3. written \in BOOLEAN
    BY <2>1
  <2>4. cur \in Thread \cup {Nobody}
    BY <2>1
  <2>5. QED BY <2>1, <2>2, <2>3, <2>4 DEF LockType
<1>4. HwType
  <2>1. /\ ring = [i \in Slot |-> Nobody]
        /\ doorbell = 0 /\ hwc = 0 /\ wb = 0
        /\ armed = FALSE /\ pnd = FALSE /\ moved = [r \in Req |-> 0]
    BY DEF Init
  <2>2. QED BY <1>1, <2>1 DEF HwType
<1>5. ReqType /\ FillOK
  <2>1. /\ offset = [r \in Req |-> 0] /\ descNr = [r \in Req |-> 0]
        /\ done = [r \in Req |-> FALSE]
        /\ status = [r \in Req |-> "0"] /\ result = [r \in Req |-> "none"]
    BY DEF Init
  <2>2. ReqType
    BY <2>1 DEF ReqType
  <2>3. FillOK
    <3>1. SUFFICES ASSUME NEW r \in Req PROVE offset[r] <= NDesc[r]
      BY DEF FillOK
    <3>2. offset[r] = 0
      BY <2>1
    <3>3. NDesc[r] \in Nat
      BY SizeFacts
    <3>4. QED BY <3>2, <3>3
  <2>4. QED BY <2>2, <2>3
<1>6. ThreadType
  <2>1. /\ pc = [t \in Thread |-> IF t \in Req THEN "new" ELSE "idle"]
        /\ svcQueued = FALSE /\ starts = 0 /\ stops = 0 /\ mode \in Modes
    BY DEF Init
  <2>2. MaxStart \in Nat /\ MaxStop \in Nat
    BY SizeAssumption
  <2>3. starts \in 0 .. MaxStart /\ stops \in 0 .. MaxStop
    BY <2>1, <2>2
  <2>4. svcQueued \in BOOLEAN
    BY <2>1
  <2>5. pc \in [Thread -> {"new", "mapped", "proc", "wait", "woken", "end",
                          "idle", "sleep", "drained", "expired",
                          "teardown", "prog"}]
    BY <2>1
  <2>6. QED BY <2>1, <2>3, <2>4, <2>5 DEF ThreadType
<1>7. LockOK
  BY DEF Init, LockOK, Writing
<1>8. StopOK
  <2>1. pc[Stp] = "idle"
    BY ReqAssumption DEF Init, Thread
  <2>2. QED BY <2>1 DEF Init, StopOK
<1>9. RingOK
  BY <1>1, SizeFacts DEF Init, RingOK, Chain
<1>10. QED BY <1>2, <1>3, <1>4, <1>5, <1>6, <1>7, <1>8, <1>9
          DEF Inv, TypeOK

(***************************************************************************)
(* The queue's lists, indices, lock and threads never leave the relations  *)
(* that its functions rely on when they take descq->lock.                  *)
(***************************************************************************)
THEOREM InvHolds == Spec => []Inv
<1>1. Inv /\ [Next]_vars => Inv'
  BY TypeStep, ControlStep, RingStep, FillStep DEF Inv
<1>2. QED BY <1>1, InitInv, PTL DEF Spec

(***************************************************************************)
(* Every index stays inside the ring, the counts of free descriptors and   *)
(* of credits never go negative, and the lists only hold requests.         *)
(***************************************************************************)
THEOREM TypeCorrect == Spec => []TypeOK
<1>1. Inv => TypeOK
  BY DEF Inv
<1>2. QED BY <1>1, InvHolds, PTL

(***************************************************************************)
(* The free and the outstanding descriptors make up the ring less one      *)
(* slot, and the written-back, the hardware's and the doorbell index lie   *)
(* in order between cidx and pidx: no descriptor is overwritten before it  *)
(* was executed, and none is reaped before.                                *)
(***************************************************************************)
THEOREM RingSafe == Spec => []RingAccounting
<1>1. Inv => RingAccounting
  BY DEF Inv, RingOK, Chain, RingAccounting
<1>2. QED BY <1>1, InvHolds, PTL

-----------------------------------------------------------------------------
(* Who is told what of a request, for every ring size, set of requests and *)
(* mode: that a list never holds a request whose owner has been answered,  *)
(* and that an answer is never replaced.  Both fail when a queue is        *)
(* stopped that a caller sleeps on (run descq_stop_wait), and when a batch *)
(* fails to map a request and queues it nevertheless, which is what the    *)
(* theorems assume away.                                                   *)


\* No caller sleeps on a queue that may stop, and no batch fails to map.
CalmUse == /\ Sync = {} \/ MaxStop = 0
           /\ ~MapMayFail \/ BatchSeq = <<>>

\* What a list holds, and that it holds nothing twice.
Listed(list)   == {list[i] : i \in 1 .. Len(list)}
NoRepeat(list) == \A i, j \in 1 .. Len(list) : list[i] = list[j] => i = j

\* A request is on one list at most, and at one place.
ListsOK == /\ NoRepeat(work) /\ NoRepeat(pend)
           /\ Listed(work) \cap Listed(pend) = {}

\* What is on a list is open: nobody has finished it or answered for it.
OpenOK == \A r \in Queued : result[r] = "none" /\ ~done[r]

\* The call that carries r has not reached the lists yet.
Unsent(r) == pc[IF r \in Batch THEN BatchSeq[1] ELSE r] \in {"new", "mapped"}
FreshOK == \A r \in Req : Unsent(r) => r \notin Queued /\ result[r] = "none" /\ ~done[r]

\* Only a caller without fp_done sleeps, and it has no result before it returns.
WaiterOK ==
    /\ \A r \in Req : pc[r] \in {"wait", "woken"} => r \in Sync
    /\ \A r \in Sync : pc[r] # "end" => result[r] = "none"
    /\ at # "free" /\ cur \in Sync => pc[cur] = "proc"

\* A queue with sleeping callers is never stopped.
CalmOK == Sync = {} \/ pc[Stp] \notin {"wait", "drained", "expired"}

AnswerInv == ListsOK /\ OpenOK /\ FreshOK /\ WaiterOK /\ CalmOK

\* The request count, and what a queue that is not online has left.
CountOK ==
    /\ workReqPend = Len(work)
    /\ qState = "ENABLED" /\ at \notin {"drainPend", "drainWork"} => work = <<>>
    /\ at \in {"drainPend", "drainWork"} => pos = 1

-----------------------------------------------------------------------------
(* The lists.                                                              *)

LEMMA AppendListed ==
    ASSUME NEW s \in Seq(Req), NEW r \in Req, NoRepeat(s), r \notin Listed(s)
    PROVE  NoRepeat(Append(s, r)) /\ Listed(Append(s, r)) = Listed(s) \cup {r}
<1>1. /\ Len(Append(s, r)) = Len(s) + 1 /\ Len(s) \in Nat
      /\ \A i \in 1 .. Len(s) : Append(s, r)[i] = s[i]
      /\ Append(s, r)[Len(s) + 1] = r
  OBVIOUS
<1> DEFINE t == Append(s, r)
<1> HIDE DEF t
<1>2. \A i \in 1 .. Len(t) : i \in 1 .. Len(s) \/ i = Len(s) + 1
  BY <1>1 DEF t
<1>3. NoRepeat(t)
  BY <1>1, <1>2 DEF NoRepeat, Listed, t
<1>4. Listed(t) = Listed(s) \cup {r}
  <2>1. Listed(t) \subseteq Listed(s) \cup {r}
    BY <1>1, <1>2 DEF Listed, t
  <2>2. \A i \in 1 .. Len(s) : i \in 1 .. Len(t) /\ t[i] = s[i]
    BY <1>1 DEF t
  <2>3. Len(s) + 1 \in 1 .. Len(t) /\ t[Len(s) + 1] = r
    BY <1>1 DEF t
  <2>. QED BY <2>1, <2>2, <2>3 DEF Listed
<1>. QED BY <1>3, <1>4 DEF t

LEMMA ConcatListed ==
    ASSUME NEW a \in Seq(Req), NEW b \in Seq(Req), NoRepeat(a), NoRepeat(b),
           Listed(a) \cap Listed(b) = {}
    PROVE  NoRepeat(a \o b) /\ Listed(a \o b) = Listed(a) \cup Listed(b)
<1> DEFINE t == a \o b
<1>1. /\ t \in Seq(Req) /\ Len(t) = Len(a) + Len(b)
      /\ \A i \in 1 .. Len(t) : t[i] = IF i <= Len(a) THEN a[i] ELSE b[i - Len(a)]
  BY ConcatProperties
<1> HIDE DEF t
<1>2. Len(a) \in Nat /\ Len(b) \in Nat
  OBVIOUS
<1>3. \A i \in 1 .. Len(t) : \/ i \in 1 .. Len(a) /\ t[i] = a[i]
                             \/ i - Len(a) \in 1 .. Len(b) /\ t[i] = b[i - Len(a)]
  BY <1>1, <1>2
<1>4. \A i \in 1 .. Len(a) : i \in 1 .. Len(t) /\ t[i] = a[i]
  BY <1>1, <1>2
<1>5. ASSUME NEW i \in 1 .. Len(b)
      PROVE  i + Len(a) \in 1 .. Len(t) /\ t[i + Len(a)] = b[i]
  <2>1. i + Len(a) \in 1 .. Len(t) /\ ~(i + Len(a) <= Len(a)) /\ (i + Len(a)) - Len(a) = i
    BY <1>1, <1>2
  <2>. QED BY <1>1, <2>1
<1>6. NoRepeat(t)
  <2> SUFFICES ASSUME NEW i \in 1 .. Len(t), NEW j \in 1 .. Len(t), t[i] = t[j]
               PROVE  i = j
    BY DEF NoRepeat
  <2>1. \A k \in 1 .. Len(a), m \in 1 .. Len(b) : a[k] # b[m]
    BY DEF Listed
  <2>2. i \in Int /\ j \in Int
    BY <1>1, <1>2
  <2>. QED BY <1>2, <1>3, <2>1, <2>2 DEF NoRepeat
<1>7. Listed(t) = Listed(a) \cup Listed(b)
  <2>1. Listed(t) \subseteq Listed(a) \cup Listed(b)
    BY <1>3 DEF Listed
  <2>2. Listed(a) \subseteq Listed(t)
    BY <1>4 DEF Listed
  <2>3. Listed(b) \subseteq Listed(t)
    BY <1>5 DEF Listed
  <2>. QED BY <2>1, <2>2, <2>3
<1>. QED BY <1>6, <1>7 DEF t

LEMMA RemoveListed ==
    ASSUME NEW s \in Seq(Req), NoRepeat(s), NEW i \in 1 .. Len(s)
    PROVE  NoRepeat(RemoveAt(s, i)) /\ Listed(RemoveAt(s, i)) = Listed(s) \ {s[i]}
<1> DEFINE a == SubSeq(s, 1, i - 1)
           b == SubSeq(s, i + 1, Len(s))
<1>1. Len(s) \in Nat /\ \A k \in 1 .. Len(s) : s[k] \in Req
  OBVIOUS
<1>2. a \in Seq(Req) /\ Len(a) = i - 1 /\ \A k \in 1 .. i - 1 : a[k] = s[k]
  BY <1>1, SubSeqProperties
<1>3. b \in Seq(Req) /\ Len(b) = Len(s) - i /\ \A k \in 1 .. Len(s) - i : b[k] = s[k + i]
  BY <1>1, SubSeqProperties
<1>4. RemoveAt(s, i) = a \o b
  BY DEF RemoveAt
<1> HIDE DEF a, b
<1>5. NoRepeat(a) /\ NoRepeat(b)
  <2>1. \A j, k \in 1 .. Len(s) : s[j] = s[k] => j = k
    BY DEF NoRepeat
  <2>2. NoRepeat(a)
    <3>1. \A k \in 1 .. Len(a) : k \in 1 .. Len(s) /\ a[k] = s[k]
      BY <1>1, <1>2
    <3>. QED BY <2>1, <3>1 DEF NoRepeat
  <2>3. NoRepeat(b)
    <3>1. \A k \in 1 .. Len(b) : k + i \in 1 .. Len(s) /\ b[k] = s[k + i]
      BY <1>1, <1>3
    <3>2. \A j, k \in 1 .. Len(b) : j + i = k + i => j = k
      BY <1>1
    <3>. QED BY <2>1, <3>1, <3>2 DEF NoRepeat
  <2>. QED BY <2>2, <2>3
<1>6. Listed(a) \cap Listed(b) = {}
  BY <1>1, <1>2, <1>3 DEF NoRepeat, Listed
<1>7. Listed(a) \cup Listed(b) = Listed(s) \ {s[i]}
  <2>1. Listed(a) \cup Listed(b) \subseteq Listed(s) \ {s[i]}
    BY <1>1, <1>2, <1>3 DEF NoRepeat, Listed
  <2>2. ASSUME NEW k \in 1 .. Len(s), s[k] # s[i]
        PROVE  s[k] \in Listed(a) \cup Listed(b)
    <3>1. CASE k < i
      BY <1>1, <1>2, <3>1 DEF Listed
    <3>2. CASE k > i
      <4>1. k - i \in 1 .. Len(b) /\ b[k - i] = s[k]
        BY <1>1, <1>3, <3>2
      <4>. QED BY <4>1 DEF Listed
    <3>. QED BY <2>2, <3>1, <3>2
  <2>. QED BY <2>1, <2>2 DEF Listed
<1>. QED BY <1>2, <1>3, <1>4, <1>5, <1>6, <1>7, ConcatListed

LEMMA WithoutListed ==
    ASSUME NEW s \in Seq(Req), NoRepeat(s), NEW r
    PROVE  NoRepeat(Without(s, r)) /\ Listed(Without(s, r)) = Listed(s) \ {r}
<1>1. CASE \E i \in 1 .. Len(s) : s[i] = r
  <2> DEFINE k == CHOOSE i \in 1 .. Len(s) : s[i] = r
  <2>1. k \in 1 .. Len(s) /\ s[k] = r
    BY <1>1
  <2>. QED BY <1>1, <2>1, RemoveListed DEF Without
<1>2. CASE ~ \E i \in 1 .. Len(s) : s[i] = r
  BY <1>2 DEF Without, Listed
<1>. QED BY <1>1, <1>2

LEMMA TailListed ==
    ASSUME NEW s \in Seq(Req), NoRepeat(s), s # <<>>
    PROVE  /\ Head(s) \in Listed(s) /\ NoRepeat(Tail(s))
           /\ Listed(Tail(s)) = Listed(s) \ {Head(s)}
<1>1. 1 \in 1 .. Len(s) /\ Head(s) = s[1] /\ Len(s) \in Nat
  OBVIOUS
<1>2. /\ Len(Tail(s)) = Len(s) - 1
      /\ \A i \in 1 .. Len(Tail(s)) : Tail(s)[i] = s[i + 1]
  OBVIOUS
<1> DEFINE t == Tail(s)
<1> HIDE DEF t
<1>3. \A i \in 1 .. Len(t) : i + 1 \in 1 .. Len(s) /\ t[i] = s[i + 1] /\ i + 1 # 1
  BY <1>1, <1>2 DEF t
<1>4. \A i \in 1 .. Len(s) : i = 1 \/ (i - 1 \in 1 .. Len(t) /\ t[i - 1] = s[i])
  BY <1>1, <1>2 DEF t
<1>5. NoRepeat(t)
  <2> SUFFICES ASSUME NEW i \in 1 .. Len(t), NEW j \in 1 .. Len(t), t[i] = t[j]
               PROVE  i = j
    BY DEF NoRepeat
  <2>1. i + 1 = j + 1 /\ i \in Int /\ j \in Int
    BY <1>3 DEF NoRepeat
  <2>. QED BY <2>1
<1>6. Listed(t) = Listed(s) \ {s[1]}
  <2>1. Listed(t) \subseteq Listed(s) \ {s[1]}
    BY <1>1, <1>3 DEF Listed, NoRepeat
  <2>2. \A x \in Listed(s) : x = s[1] \/ x \in Listed(t)
    BY <1>4 DEF Listed
  <2>. QED BY <2>1, <2>2
<1>. QED BY <1>1, <1>5, <1>6 DEF Listed, t
-----------------------------------------------------------------------------
(* The requests.                                                           *)

\* The batch goes through asynchronous calls; its head carries it.
LEMMA BatchFacts ==
    /\ Batch \subseteq Req /\ Batch \cap Sync = {} /\ NoRepeat(BatchSeq)
    /\ Listed(BatchSeq) = Batch /\ BatchSeq \in Seq(Req)
    /\ BatchSeq # <<>> => BatchSeq[1] \in Batch
<1>1. BatchSeq \in Seq(Req \ Sync)
  BY ReqAssumption
<1>2. \A i \in 1 .. Len(BatchSeq) : BatchSeq[i] \in Req \ Sync
  BY <1>1
<1>3. BatchSeq # <<>> => 1 \in 1 .. Len(BatchSeq)
  BY <1>1
<1>. QED BY <1>2, <1>3, BatchType, ReqAssumption DEF Batch, Listed, NoRepeat

LEMMA QueuedListed == Queued = Listed(work) \cup Listed(pend)
BY DEF Queued, Listed

\* The lists only take up what is fresh, and what is answered has left them.
LEMMA ListStep ==
    ASSUME AnswerInv,
           \A r \in Queued' : /\ r \in Queued \/ (r \in Req /\ Unsent(r))
                              /\ ~Unsent(r)'
                              /\ result'[r] = result[r] /\ done'[r] = done[r],
           \A r \in Req : Unsent(r)' => /\ Unsent(r)
                                        /\ result'[r] = result[r] /\ done'[r] = done[r]
    PROVE  OpenOK' /\ FreshOK'
<1>1. OpenOK'
  BY DEF AnswerInv, OpenOK, FreshOK
<1>2. FreshOK'
  BY DEF AnswerInv, FreshOK
<1>. QED BY <1>1, <1>2

\* A step that leaves the lists and the answers as they are.
LEMMA ListFrame ==
    ASSUME AnswerInv, UNCHANGED << work, pend, result, done >>,
           \A r \in Req : Unsent(r)' => Unsent(r)
    PROVE  ListsOK' /\ OpenOK' /\ FreshOK'
BY DEF AnswerInv, ListsOK, OpenOK, FreshOK, Queued

\* A step during which every caller stays where it is.
LEMMA UnsentFrame ==
    ASSUME \A r \in Req : pc'[r] = pc[r]
    PROVE  \A r \in Req : Unsent(r)' <=> Unsent(r)
<1>1. \A r \in Batch : BatchSeq[1] \in Req
  BY BatchFacts DEF Batch
<1>. QED BY <1>1 DEF Unsent

LEMMA CallerFrame ==
    ASSUME AnswerInv, \A r \in Req : pc'[r] = pc[r],
           \A r \in Sync : result'[r] = result[r],
           at' # "free" /\ cur' \in Sync =>
               (at # "free" /\ cur' = cur) \/ pc[cur'] = "proc"
    PROVE  WaiterOK'
BY ReqAssumption DEF AnswerInv, WaiterOK

\* A caller moves on, and leaves the lock to whom it was.
LEMMA CallerStep ==
    ASSUME TypeOK, AnswerInv, NEW r \in Req, NEW next, pc' = [pc EXCEPT ![r] = next],
           next \notin {"new", "mapped"},
           next \in {"wait", "woken"} => r \in Sync,
           r \in Sync /\ next # "end" => pc[r] # "end",
           \A q \in Sync \ {r} : result'[q] = result[q],
           r \in Sync /\ next # "end" => result'[r] = result[r],
           at' # "free" => UNCHANGED << at, cur >> /\ (r = cur => r \notin Sync)
    PROVE  WaiterOK' /\ \A q \in Req : Unsent(q)' => Unsent(q)
<1>1. \A q \in Req : pc'[q] = IF q = r THEN next ELSE pc[q]
  BY DEF TypeOK, ThreadType, Thread
<1>2. \A q \in Batch : BatchSeq[1] \in Req
  BY BatchFacts DEF Batch
<1>3. \A q \in Req : Unsent(q)' => Unsent(q)
  BY <1>1, <1>2 DEF Unsent
<1>4. WaiterOK'
  BY <1>1, ReqAssumption DEF AnswerInv, WaiterOK
<1>. QED BY <1>3, <1>4

-----------------------------------------------------------------------------
(* The sections.                                                           *)

LEMMA CmplAnswer ==
    ASSUME Inv, AnswerInv, Cmpl
    PROVE  ListsOK' /\ OpenOK' /\ FreshOK' /\ WaiterOK'
<1>1. CASE CmplDone
  <2> DEFINE r == Head(pend)
  <2>1. /\ pend \in Seq(Req) /\ pend # <<>> /\ pend' = Tail(pend)
        /\ done' = [done EXCEPT ![r] = TRUE]
        /\ result' = IF r \in Sync THEN result ELSE [result EXCEPT ![r] = "ok"]
        /\ UNCHANGED << work, pc, at, cur >>
    BY <1>1 DEF CmplDone, SgtReqDone, Answer, Inv, TypeOK, QueueType, lockVars, thrVars
  <2>2. /\ r \in Listed(pend) /\ NoRepeat(pend') /\ Listed(pend') = Listed(pend) \ {r}
    BY <2>1, TailListed DEF AnswerInv, ListsOK
  <2> HIDE DEF r
  <2>3. ListsOK'
    BY <2>1, <2>2 DEF AnswerInv, ListsOK
  <2>4. Queued' = Queued \ {r} /\ r \in Queued
    <3>1. Queued' = Listed(work) \cup Listed(pend')
      BY <2>1 DEF Queued, Listed
    <3>. QED BY <2>2, <3>1, QueuedListed DEF AnswerInv, ListsOK
  <2>5. \A q : q # r => result'[q] = result[q] /\ done'[q] = done[q]
    BY <2>1 DEF Inv, TypeOK, ReqType
  <2>6. \A q \in Req : Unsent(q)' <=> Unsent(q)
    BY <2>1, UnsentFrame
  <2>7. OpenOK' /\ FreshOK'
    <3>1. Queued \subseteq Req
      BY DEF Queued, Inv, TypeOK, QueueType
    <3>2. \A q \in Queued' : /\ q \in Queued /\ ~Unsent(q)'
                             /\ result'[q] = result[q] /\ done'[q] = done[q]
      BY <2>4, <2>5, <2>6, <3>1 DEF AnswerInv, FreshOK
    <3>3. \A q \in Req : Unsent(q)' => /\ Unsent(q)
                                       /\ result'[q] = result[q] /\ done'[q] = done[q]
      BY <2>4, <2>5, <2>6 DEF AnswerInv, FreshOK
    <3>. QED BY <3>2, <3>3, ListStep
  <2>8. WaiterOK'
    <3>1. \A q \in Sync : result'[q] = result[q]
      BY <2>1, <2>5
    <3>. QED BY <2>1, <3>1, CallerFrame
  <2>. QED BY <2>3, <2>7, <2>8
<1>2. CASE CmplPart \/ CmplEnd
  <2>1. UNCHANGED << work, pend, result, done, pc, cur >> /\ at # "free"
    BY <1>2 DEF CmplPart, CmplEnd, qVars, reqVars, lockVars, thrVars
  <2>2. \A q \in Req : Unsent(q)' <=> Unsent(q)
    BY <2>1, UnsentFrame
  <2>. QED BY <2>1, <2>2, ListFrame, CallerFrame
<1>. QED BY <1>1, <1>2 DEF Cmpl

LEMMA LoopAnswer ==
    ASSUME Inv, AnswerInv, Loop
    PROVE  ListsOK' /\ OpenOK' /\ FreshOK' /\ WaiterOK'
<1>1. CASE ProcFill
  <2> DEFINE r == Head(work)
  <2>1. /\ UNCHANGED << result, done, pc, cur >> /\ at # "free"
        /\ work \in Seq(Req) /\ pend \in Seq(Req) /\ work # <<>>
        /\ \/ work' = RemoveAt(work, 1) /\ pend' = Append(pend, r)
           \/ UNCHANGED << work, pend >>
    BY <1>1 DEF ProcFill, WorkDel, thrVars, Inv, TypeOK, QueueType
  <2>2. \A q \in Req : Unsent(q)' <=> Unsent(q)
    BY <2>1, UnsentFrame
  <2>3. WaiterOK'
    BY <2>1, CallerFrame
  <2>4. CASE work' = RemoveAt(work, 1) /\ pend' = Append(pend, r)
    <3>1. 1 \in 1 .. Len(work) /\ r = work[1] /\ r \in Req /\ r \in Listed(work)
      BY <2>1 DEF Listed
    <3>2. NoRepeat(work') /\ Listed(work') = Listed(work) \ {r}
      BY <2>1, <2>4, <3>1, RemoveListed DEF AnswerInv, ListsOK
    <3> HIDE DEF r
    <3>3. NoRepeat(pend') /\ Listed(pend') = Listed(pend) \cup {r}
      BY <2>1, <2>4, <3>1, AppendListed DEF AnswerInv, ListsOK
    <3>4. ListsOK'
      BY <3>2, <3>3 DEF AnswerInv, ListsOK
    <3>5. Queued' = Queued
      <4>1. Queued' = Listed(work') \cup Listed(pend')
        BY DEF Queued, Listed
      <4>. QED BY <3>1, <3>2, <3>3, <4>1, QueuedListed
    <3>6. OpenOK' /\ FreshOK'
      BY <2>1, <2>2, <3>5 DEF AnswerInv, OpenOK, FreshOK
    <3>. QED BY <2>3, <3>4, <3>6
  <2>5. CASE UNCHANGED << work, pend >>
    BY <2>1, <2>2, <2>3, <2>5, ListFrame
  <2>. QED BY <2>1, <2>4, <2>5
<1>2. CASE ProcFull \/ ProcRing
  <2>1. UNCHANGED << work, pend, result, done, pc, cur >> /\ at # "free"
    BY <1>2 DEF ProcFull, ProcRing, LoopOver, reqVars, thrVars
  <2>2. \A q \in Req : Unsent(q)' <=> Unsent(q)
    BY <2>1, UnsentFrame
  <2>. QED BY <2>1, <2>2, ListFrame, CallerFrame
<1>. QED BY <1>1, <1>2 DEF Loop

\* The holder returns to its caller.
LEMMA ExitAnswer ==
    ASSUME Inv, AnswerInv, ProcExit \/ ProcStopExit \/ SvcCheck
    PROVE  ListsOK' /\ OpenOK' /\ FreshOK' /\ WaiterOK'
<1>1. /\ UNCHANGED << work, pend, result, done >> /\ at # "free" /\ at' = "free"
      /\ cur \in Req \cup {Svc}
  BY DEF ProcExit, ProcStopExit, SvcCheck, Unlock, qVars, reqVars, Inv, LockOK
<1>2. PICK next : /\ pc' = [pc EXCEPT ![cur] = next]
                  /\ next \in {After(cur), "proc", "idle"}
  BY DEF ProcExit, ProcStopExit, SvcCheck, Unlock
<1>3. CASE cur \in Req
  <2>1. /\ next \notin {"new", "mapped"}
        /\ next \in {"wait", "woken"} => cur \in Sync
        /\ cur \in Sync => pc[cur] # "end"
    BY <1>1, <1>2 DEF After, AnswerInv, WaiterOK
  <2>2. WaiterOK' /\ \A q \in Req : Unsent(q)' => Unsent(q)
    BY <1>1, <1>2, <1>3, <2>1, CallerStep DEF Inv
  <2>. QED BY <1>1, <2>2, ListFrame
<1>4. CASE cur \notin Req
  <2>1. \A q \in Req : pc'[q] = pc[q]
    BY <1>2, <1>4 DEF Inv, TypeOK, ThreadType, Thread
  <2>2. \A q \in Req : Unsent(q)' <=> Unsent(q)
    BY <2>1, UnsentFrame
  <2>. QED BY <1>1, <2>1, <2>2, ListFrame, CallerFrame
<1>. QED BY <1>3, <1>4

LEMMA ProcAnswer ==
    ASSUME Inv, AnswerInv, NEW t \in Req \cup {Svc}, Proc(t)
    PROVE  ListsOK' /\ OpenOK' /\ FreshOK' /\ WaiterOK'
<1>1. CASE ProcStopWait(t) \/ ProcBegin(t)
  <2>1. UNCHANGED << work, pend, result, done, pc >> /\ cur' = t /\ pc[t] = "proc"
    BY <1>1 DEF ProcStopWait, ProcBegin, Begin, reqVars, thrVars
  <2>2. \A q \in Req : Unsent(q)' <=> Unsent(q)
    BY <2>1, UnsentFrame
  <2>. QED BY <2>1, <2>2, ListFrame, CallerFrame
<1>2. CASE ProcSkip(t)
  <2>1. /\ UNCHANGED << work, pend, result, done, at, cur >> /\ pc[t] = "proc" /\ at = "free"
        /\ pc' = [pc EXCEPT ![t] = After(t)]
    BY <1>2 DEF ProcSkip, qVars, lockVars, reqVars
  <2>2. CASE t \in Req
    <3>1. WaiterOK' /\ \A q \in Req : Unsent(q)' => Unsent(q)
      <4>1. /\ After(t) \notin {"new", "mapped"}
            /\ After(t) \in {"wait", "woken"} => t \in Sync
        BY DEF After
      <4> DEFINE next == After(t)
      <4>2. pc' = [pc EXCEPT ![t] = next] /\ next \notin {"new", "mapped"}
            /\ (next \in {"wait", "woken"} => t \in Sync)
        BY <2>1, <4>1
      <4> HIDE DEF next
      <4>. QED BY <2>1, <2>2, <4>2, CallerStep DEF Inv
    <3>. QED BY <2>1, <3>1, ListFrame
  <2>3. CASE t \notin Req
    <3>1. \A q \in Req : pc'[q] = pc[q]
      BY <2>1, <2>3 DEF Inv, TypeOK, ThreadType, Thread
    <3>2. \A q \in Req : Unsent(q)' <=> Unsent(q)
      BY <3>1, UnsentFrame
    <3>. QED BY <2>1, <3>1, <3>2, ListFrame, CallerFrame
  <2>. QED BY <2>2, <2>3
<1>. QED BY <1>1, <1>2 DEF Proc

\* What other threads and the hardware do to the callers: nothing.
LEMMA OthersAnswer ==
    ASSUME Inv, AnswerInv, Service \/ Hw \/ Stop \/ Start \/ DrainNext \/ DrainEnd
    PROVE  ListsOK' /\ OpenOK' /\ FreshOK' /\ WaiterOK'
<1>1. UNCHANGED << work, pend, result, done >>
  BY DEF Service, SvcStart, KthCheck, KthWake, Hw, HwExec, HwWriteback, IrqShared, Stop,
         StopBegin, StopWake, StopExpire, StopDrain, Teardown, Start, StartConfig, StartOnline,
         StartFail, DrainNext, DrainEnd, qVars, reqVars
<1>2. pc' = pc \/ \E t \in {Svc, Stp} : \E x : pc' = [pc EXCEPT ![t] = x]
  BY DEF Service, SvcStart, KthCheck, KthWake, Hw, HwExec, HwWriteback, IrqShared, Stop,
         StopBegin, StopWake, StopExpire, StopDrain, Teardown, Start, StartConfig, StartOnline,
         StartFail, DrainNext, DrainEnd, Unlock, thrVars, Inv, LockOK
<1>3. \A q \in Req : pc'[q] = pc[q]
  BY <1>2, ReqAssumption DEF Inv, TypeOK, ThreadType, Thread
<1>4. \/ UNCHANGED << at, cur >> \/ at' = "free" \/ cur' \in {Svc, Stp}
  BY DEF Service, SvcStart, KthCheck, KthWake, Hw, HwExec, HwWriteback, IrqShared, Stop,
         StopBegin, StopWake, StopExpire, StopDrain, Teardown, Start, StartConfig, StartOnline,
         StartFail, DrainNext, DrainEnd, Unlock, lockVars, Inv, LockOK
<1>5. \A q \in Req : Unsent(q)' <=> Unsent(q)
  BY <1>3, UnsentFrame
<1>6. WaiterOK'
  BY <1>1, <1>3, <1>4, CallerFrame, ReqAssumption
<1>. QED BY <1>1, <1>5, <1>6, ListFrame

\* The drain calls an asynchronous request back and deletes it from its list.
LEMMA DrainOneAnswer ==
    ASSUME Inv, AnswerInv, Sync = {}, UNCHANGED << pc, at, cur >>, at # "free",
           NEW list \in Seq(Req), NEW kept \in Seq(Req), DrainOne(list),
           NoRepeat(list), Listed(list) \cap Listed(kept) = {},
           Queued = Listed(list) \cup Listed(kept),
           Queued' = Listed(RemoveAt(list, pos)) \cup Listed(kept)
    PROVE  /\ NoRepeat(RemoveAt(list, pos)) /\ Listed(RemoveAt(list, pos)) \cap Listed(kept) = {}
           /\ OpenOK' /\ FreshOK' /\ WaiterOK'
<1> DEFINE r == list[pos]
<1>1. pos \in 1 .. Len(list)
  BY DEF DrainOne, Inv, TypeOK, LockType
<1>2. /\ done' = [done EXCEPT ![r] = TRUE]
      /\ result' \in {result, [result EXCEPT ![r] = "ENXIO"]}
      /\ r \in Listed(list)
  BY <1>1 DEF DrainOne, Listed
<1>3. NoRepeat(RemoveAt(list, pos)) /\ Listed(RemoveAt(list, pos)) = Listed(list) \ {r}
  BY <1>1, RemoveListed
<1> HIDE DEF r
<1>4. Queued' = Queued \ {r} /\ r \in Queued
  BY <1>2, <1>3
<1>5. \A q \in Req : q # r => result'[q] = result[q] /\ done'[q] = done[q]
  BY <1>2 DEF Inv, TypeOK, ReqType
<1>6. \A q \in Req : Unsent(q)' <=> Unsent(q)
  BY UnsentFrame
<1>7. Queued \subseteq Req
  BY DEF Queued, Inv, TypeOK, QueueType
<1>8. \A q \in Queued' : /\ q \in Queued /\ ~Unsent(q)'
                         /\ result'[q] = result[q] /\ done'[q] = done[q]
  BY <1>4, <1>5, <1>6, <1>7 DEF AnswerInv, FreshOK
<1>9. \A q \in Req : Unsent(q)' => /\ Unsent(q)
                                   /\ result'[q] = result[q] /\ done'[q] = done[q]
  BY <1>4, <1>5, <1>6 DEF AnswerInv, FreshOK
<1>10. OpenOK' /\ FreshOK'
  BY <1>8, <1>9, ListStep
<1>11. WaiterOK'
  BY CallerFrame
<1>. QED BY <1>3, <1>10, <1>11

LEMMA DrainAnswer ==
    ASSUME Inv, AnswerInv, DrainPend \/ DrainWork
    PROVE  ListsOK' /\ OpenOK' /\ FreshOK' /\ WaiterOK'
<1>1. Sync = {} /\ pos \in Nat \ {0} /\ work \in Seq(Req) /\ pend \in Seq(Req)
  BY DEF DrainPend, DrainWork, Inv, LockOK, TypeOK, QueueType, LockType, AnswerInv, CalmOK
<1>2. UNCHANGED << pc, at, cur >> /\ at # "free"
  BY DEF DrainPend, DrainWork, thrVars
<1>3. Queued' = Listed(work') \cup Listed(pend')
  BY DEF Queued, Listed
<1>4. CASE DrainPend
  <2>1. DrainOne(pend) /\ work' = work /\ pend' = RemoveAt(pend, pos)
    <3>1. DrainOne(pend) /\ pos \in 1 .. Len(pend) /\ work' = work
      BY <1>1, <1>4 DEF DrainPend, DrainOne
    <3>. QED BY <1>1, <1>4, <3>1 DEF DrainPend, AfterDrainOne
  <2>2. Queued = Listed(pend) \cup Listed(work)
        /\ Queued' = Listed(RemoveAt(pend, pos)) \cup Listed(work)
    BY <1>3, <2>1, QueuedListed
  <2>. QED BY <1>1, <1>2, <2>1, <2>2, DrainOneAnswer DEF AnswerInv, ListsOK
<1>5. CASE DrainWork
  <2>1. DrainOne(work) /\ pend' = pend /\ work' = RemoveAt(work, pos)
    BY <1>1, <1>5 DEF DrainWork, DrainOne, WorkDel
  <2>2. Queued = Listed(work) \cup Listed(pend)
        /\ Queued' = Listed(RemoveAt(work, pos)) \cup Listed(pend)
    BY <1>3, <2>1, QueuedListed
  <2>. QED BY <1>1, <1>2, <2>1, <2>2, DrainOneAnswer DEF AnswerInv, ListsOK
<1>. QED BY <1>4, <1>5

-----------------------------------------------------------------------------
(* The calls.                                                              *)

LEMMA SubmitAnswer ==
    ASSUME Inv, AnswerInv, NEW r \in Req, Submit(r) \/ SubmitNoMap(r)
    PROVE  ListsOK' /\ OpenOK' /\ FreshOK' /\ WaiterOK'
<1>1. /\ r \notin Batch /\ pc[r] = "new" /\ Unsent(r) /\ UNCHANGED << pend, done, at, cur >>
      /\ work \in Seq(Req) /\ pend \in Seq(Req)
  BY DEF Submit, SubmitNoMap, Unsent, qVars, lockVars, Inv, TypeOK, QueueType
<1>2. r \notin Queued /\ result[r] = "none" /\ ~done[r]
  BY <1>1 DEF AnswerInv, FreshOK
<1>3. at # "free" /\ cur = r => r \notin Sync
  BY <1>1 DEF AnswerInv, WaiterOK
<1>4. \A q \in Req : Unsent(q)' => q # r
  <2>1. pc'[r] \in {"proc", "end"}
    BY <1>1 DEF Submit, SubmitNoMap, Inv, TypeOK, ThreadType, Thread
  <2>. QED BY <1>1, <2>1 DEF Unsent
<1>5. CASE work' = Append(work, r) /\ pc' = [pc EXCEPT ![r] = "proc"] /\ result' = result
  <2>1. WaiterOK' /\ \A q \in Req : Unsent(q)' => Unsent(q)
    BY <1>1, <1>3, <1>5, CallerStep DEF Inv
  <2>2. NoRepeat(work') /\ Listed(work') = Listed(work) \cup {r}
    BY <1>1, <1>2, <1>5, AppendListed, QueuedListed DEF AnswerInv, ListsOK
  <2>3. ListsOK'
    BY <1>1, <1>2, <2>2, QueuedListed DEF AnswerInv, ListsOK
  <2>4. Queued' = Queued \cup {r}
    <3>1. Queued' = Listed(work') \cup Listed(pend)
      BY <1>1 DEF Queued, Listed
    <3>. QED BY <2>2, <3>1, QueuedListed
  <2>5. Queued \subseteq Req
    BY DEF Queued, Inv, TypeOK, QueueType
  <2>6. \A q \in Queued' : (q \in Queued \/ (q \in Req /\ Unsent(q))) /\ ~Unsent(q)'
    BY <1>1, <1>4, <2>1, <2>4, <2>5 DEF AnswerInv, FreshOK
  <2>7. OpenOK' /\ FreshOK'
    BY <1>1, <1>5, <2>1, <2>6, ListStep
  <2>. QED BY <2>1, <2>3, <2>7
<1>6. CASE /\ work' = work /\ pc' = [pc EXCEPT ![r] = "end"]
           /\ \E e : result' = [result EXCEPT ![r] = e]
  <2>1. \A q : q # r => result'[q] = result[q]
    BY <1>6 DEF Inv, TypeOK, ReqType
  <2>2. WaiterOK' /\ \A q \in Req : Unsent(q)' => Unsent(q)
    <3>1. pc' = [pc EXCEPT ![r] = "end"] /\ \A q \in Sync \ {r} : result'[q] = result[q]
      BY <1>6, <2>1
    <3>2. (at' # "free" => UNCHANGED << at, cur >>) /\ (at # "free" /\ r = cur => r \notin Sync)
      BY <1>1, <1>3
    <3>3. "end" \notin {"new", "mapped"} /\ "end" \notin {"wait", "woken"}
      OBVIOUS
    <3>. QED BY <3>1, <3>2, <3>3, CallerStep, ZenonT(60) DEF Inv
  <2>3. ListsOK' /\ Queued' = Queued
    BY <1>1, <1>6 DEF AnswerInv, ListsOK, Queued
  <2>4. Queued \subseteq Req
    BY DEF Queued, Inv, TypeOK, QueueType
  <2>5. \A q \in Queued : ~Unsent(q)' /\ result'[q] = result[q]
    BY <1>2, <2>1, <2>2, <2>4 DEF AnswerInv, FreshOK
  <2>6. OpenOK' /\ FreshOK'
    BY <1>1, <1>4, <2>1, <2>2, <2>3, <2>5, ListStep
  <2>. QED BY <2>2, <2>3, <2>6
<1>. QED BY <1>1, <1>5, <1>6 DEF Submit, SubmitNoMap, WorkAdd, qVars

LEMMA WaitAnswer ==
    ASSUME Inv, AnswerInv, NEW r \in Req, WaitWake(r) \/ WaitFinish(r)
    PROVE  ListsOK' /\ OpenOK' /\ FreshOK' /\ WaiterOK'
<1>1. /\ pc[r] \in {"wait", "woken"} /\ r \in Sync /\ UNCHANGED << done, at, cur >>
      /\ work \in Seq(Req) /\ pend \in Seq(Req)
  BY DEF WaitWake, WaitFinish, AnswerInv, WaiterOK, Inv, TypeOK, QueueType, qVars, lockVars, reqVars
<1>2. r = cur => at = "free"
  BY <1>1 DEF AnswerInv, WaiterOK
<1>3. CASE WaitWake(r)
  <2>1. UNCHANGED << work, pend, result, done >> /\ pc' = [pc EXCEPT ![r] = "woken"]
    BY <1>3 DEF WaitWake, qVars, reqVars
  <2>2. WaiterOK' /\ \A q \in Req : Unsent(q)' => Unsent(q)
    <3>1. at' # "free" => UNCHANGED << at, cur >> /\ r # cur
      BY <1>1, <1>2
    <3>. QED BY <1>1, <2>1, <3>1, CallerStep DEF Inv
  <2>. QED BY <2>1, <2>2, ListFrame
<1>4. CASE WaitFinish(r)
  <2>1. /\ pc' = [pc EXCEPT ![r] = "end"] /\ at = "free"
        /\ \E e : result' = [result EXCEPT ![r] = e]
        /\ \/ done[r] /\ UNCHANGED << work, pend >>
           \/ work' = Without(work, r) /\ pend' = Without(pend, r)
    BY <1>4 DEF WaitFinish
  <2>2. \A q : q # r => result'[q] = result[q]
    BY <2>1 DEF Inv, TypeOK, ReqType
  <2>3. WaiterOK' /\ \A q \in Req : Unsent(q)' => Unsent(q)
    <3>1. TypeOK /\ pc' = [pc EXCEPT ![r] = "end"] /\ \A q \in Sync \ {r} : result'[q] = result[q]
      BY <2>1, <2>2 DEF Inv
    <3>2. at' = "free"
      BY <1>1, <2>1
    <3>. QED BY <3>1, <3>2, CallerStep
  <2>4. ListsOK' /\ Queued' = Queued \ {r}
    <3>1. Queued' = Listed(work') \cup Listed(pend')
      BY DEF Queued, Listed
    <3>2. CASE done[r] /\ UNCHANGED << work, pend >>
      BY <3>1, <3>2, QueuedListed DEF AnswerInv, ListsOK, OpenOK
    <3>3. CASE work' = Without(work, r) /\ pend' = Without(pend, r)
      <4>1. /\ NoRepeat(work') /\ Listed(work') = Listed(work) \ {r}
            /\ NoRepeat(pend') /\ Listed(pend') = Listed(pend) \ {r}
        BY <1>1, <3>3, WithoutListed DEF AnswerInv, ListsOK
      <4>. QED BY <3>1, <4>1, QueuedListed DEF AnswerInv, ListsOK
    <3>. QED BY <2>1, <3>2, <3>3
  <2>5. \A q \in Req : Unsent(q)' => q # r
    <3>1. pc'[r] = "end" /\ r \notin Batch
      BY <1>1, <2>1, BatchFacts DEF Inv, TypeOK, ThreadType, Thread
    <3>. QED BY <3>1 DEF Unsent
  <2>6. Queued \subseteq Req
    BY DEF Queued, Inv, TypeOK, QueueType
  <2>7. \A q \in Queued' : q \in Queued /\ ~Unsent(q)' /\ result'[q] = result[q]
    BY <2>2, <2>3, <2>4, <2>6 DEF AnswerInv, FreshOK
  <2>8. OpenOK' /\ FreshOK'
    BY <1>1, <2>2, <2>3, <2>5, <2>7, ListStep
  <2>. QED BY <2>3, <2>4, <2>8
<1>. QED BY <1>3, <1>4

LEMMA BatchAnswer ==
    ASSUME Inv, AnswerInv, CalmUse, BatchMap \/ BatchQueue
    PROVE  ListsOK' /\ OpenOK' /\ FreshOK' /\ WaiterOK'
<1> DEFINE head == BatchSeq[1]
<1>1. /\ head \in Batch /\ head \in Req /\ Batch \subseteq Req /\ Batch \cap Sync = {}
      /\ BatchSeq # <<>> /\ pc[head] \in {"new", "mapped"}
      /\ work \in Seq(Req) /\ pend \in Seq(Req) /\ UNCHANGED << pend, done, at, cur >>
  BY BatchFacts DEF BatchMap, BatchQueue, qVars, lockVars, Inv, TypeOK, QueueType
<1>2. \A q \in Batch : Unsent(q)
  BY <1>1 DEF Unsent
<1>3. \A q \in Batch : q \notin Queued /\ result[q] = "none" /\ ~done[q]
  BY <1>1, <1>2 DEF AnswerInv, FreshOK
<1>4. \A q \in Req \ Batch : pc'[q] = pc[q]
  BY <1>1 DEF BatchMap, BatchQueue, Inv, TypeOK, ThreadType, Thread
<1>5. \A q \in Req \ Batch : Unsent(q)' <=> Unsent(q)
  BY <1>4 DEF Unsent
<1>6. Queued \subseteq Req
  BY DEF Queued, Inv, TypeOK, QueueType
<1>7. ASSUME \A q \in Req \ Batch : result'[q] = result[q],
             \A q \in Batch : pc'[q] \in {"new", "mapped", "end", "proc"} \/ pc'[q] = pc[q]
      PROVE  WaiterOK'
  <2>1. \A q \in Req : pc'[q] \in {"wait", "woken"} => q \in Sync
    BY <1>4, <1>7 DEF AnswerInv, WaiterOK
  <2>2. \A q \in Sync : pc'[q] = pc[q] /\ result'[q] = result[q]
    BY <1>1, <1>4, <1>7, ReqAssumption
  <2>. QED BY <1>1, <2>1, <2>2 DEF AnswerInv, WaiterOK
<1>8. CASE BatchMap
  <2>1. UNCHANGED << work, pend, result, done >>
    <3>1. UNCHANGED << work, pend, done >>
      BY <1>8 DEF BatchMap, qVars
    <3>2. result' = [q \in Req |-> result[q]]
      BY <1>1, <1>8 DEF BatchMap, CalmUse
    <3>. QED BY <3>1, <3>2 DEF Inv, TypeOK, ReqType
  <2>2. \A q \in Batch : pc'[q] \in {"mapped", "end"}
    BY <1>1, <1>8 DEF BatchMap, Thread
  <2>3. \A q \in Req : Unsent(q)' => Unsent(q)
    BY <1>2, <1>5
  <2>. QED BY <1>7, <2>1, <2>2, <2>3, ListFrame
<1>9. CASE BatchQueue
  <2>1. pc'[head] \in {"proc", "end"} /\ \A q \in Batch \ {head} : pc'[q] = pc[q]
    BY <1>1, <1>9 DEF BatchQueue, Inv, TypeOK, ThreadType, Thread
  <2>2. \A q \in Req : Unsent(q)' => q \notin Batch /\ Unsent(q)
    BY <1>5, <2>1 DEF Unsent
  <2>3. \A q \in Req \ Batch : result'[q] = result[q]
    BY <1>9 DEF BatchQueue
  <2>4. WaiterOK'
    <3>1. \A q \in Batch : pc'[q] \in {"new", "mapped", "end", "proc"} \/ pc'[q] = pc[q]
      BY <2>1
    <3>. QED BY <1>7, <2>3, <3>1
  <2>5. CASE qState = "ONLINE"
    <3>1. work' = work \o BatchSeq /\ result' = result
      BY <1>9, <2>5 DEF BatchQueue
    <3>2. BatchSeq \in Seq(Req) /\ NoRepeat(BatchSeq) /\ Listed(BatchSeq) = Batch
      BY BatchFacts
    <3>3. NoRepeat(work') /\ Listed(work') = Listed(work) \cup Batch
      BY <1>1, <1>3, <3>1, <3>2, ConcatListed, QueuedListed DEF AnswerInv, ListsOK
    <3>4. ListsOK'
      BY <1>1, <1>3, <3>3, QueuedListed DEF AnswerInv, ListsOK
    <3>5. Queued' = Queued \cup Batch
      <4>1. Queued' = Listed(work') \cup Listed(pend)
        BY <1>1 DEF Queued, Listed
      <4>. QED BY <3>3, <4>1, QueuedListed
    <3>6. \A q \in Queued' : (q \in Queued \/ (q \in Req /\ Unsent(q))) /\ ~Unsent(q)'
      BY <1>1, <1>2, <1>6, <2>2, <3>5 DEF AnswerInv, FreshOK
    <3>7. OpenOK' /\ FreshOK'
      BY <1>1, <2>2, <3>1, <3>6, ListStep
    <3>. QED BY <2>4, <3>4, <3>7
  <2>6. CASE qState # "ONLINE"
    <3>1. work' = work
      BY <1>9, <2>6 DEF BatchQueue
    <3>2. ListsOK' /\ Queued' = Queued
      BY <1>1, <3>1 DEF AnswerInv, ListsOK, Queued
    <3>3. \A q \in Queued : ~Unsent(q)' /\ result'[q] = result[q]
      BY <1>3, <1>6, <2>2, <2>3 DEF AnswerInv, FreshOK
    <3>4. \A q \in Req : Unsent(q)' => Unsent(q) /\ result'[q] = result[q]
      BY <2>2, <2>3
    <3>5. OpenOK' /\ FreshOK'
      BY <1>1, <3>2, <3>3, <3>4, ListStep
    <3>. QED BY <2>4, <3>2, <3>5
  <2>. QED BY <2>5, <2>6
<1>. QED BY <1>8, <1>9

\* Without a stop the control thread never gets to a drain.
LEMMA CalmStep ==
    ASSUME Inv, AnswerInv, CalmUse, [Next]_vars
    PROVE  CalmOK'
<1> SUFFICES ASSUME Sync # {}, MaxStop = 0
             PROVE  pc'[Stp] \notin {"wait", "drained", "expired"}
  BY DEF CalmOK, CalmUse
<1>1. pc[Stp] \notin {"wait", "drained", "expired"} /\ stops = 0
  BY DEF AnswerInv, CalmOK, Inv, TypeOK, ThreadType
<1>2. CASE Stop \/ Start \/ Drain
  <2>1. \A x : pc' = [pc EXCEPT ![Stp] = x] => pc'[Stp] = x
    BY PcStp DEF Inv
  <2>2. ~(StopBegin \/ StopWake \/ StopExpire \/ StopDrain \/ Drain)
    BY <1>1 DEF StopBegin, StopWake, StopExpire, StopDrain, Drain, DrainPend, DrainNext, DrainWork,
                DrainEnd, Inv, LockOK
  <2>3. pc' = [pc EXCEPT ![Stp] = "idle"] \/ pc' = [pc EXCEPT ![Stp] = "prog"]
    BY <1>2, <2>2 DEF Stop, Start, Teardown, StartConfig, StartOnline, StartFail
  <2>. QED BY <2>1, <2>3
<1>3. CASE BatchMap
  <2>1. Stp \notin Batch /\ BatchSeq[1] \in Batch /\ Stp \in Thread
    BY <1>3, BatchFacts, ReqAssumption DEF BatchMap, Thread
  <2>2. pc'[Stp] = pc[Stp]
    BY <1>3, <2>1 DEF BatchMap
  <2>. QED BY <1>1, <2>2
<1>4. CASE ~(Stop \/ Start \/ Drain \/ BatchMap)
  <2>1. pc' = pc \/ \E t \in Req \cup {Svc} : \E x : pc' = [pc EXCEPT ![t] = x]
    <3>1. CASE UNCHANGED vars
      BY <3>1 DEF vars, thrVars
    <3>2. CASE Cmpl \/ Loop
      BY <3>2 DEF Cmpl, CmplDone, CmplPart, CmplEnd, Loop, ProcFill, ProcFull, ProcRing, thrVars
    <3>3. CASE ProcExit \/ ProcStopExit \/ SvcCheck
      BY <3>3 DEF ProcExit, ProcStopExit, SvcCheck, Unlock, Inv, LockOK
    <3>4. CASE Service \/ Hw
      BY <3>4 DEF Service, SvcStart, KthCheck, KthWake, Hw, HwExec, HwWriteback, IrqShared, thrVars
    <3>5. CASE BatchQueue
      BY <3>5, BatchFacts DEF BatchQueue
    <3>6. CASE \E t \in Req \cup {Svc} : Proc(t)
      BY <3>6 DEF Proc, ProcStopWait, ProcSkip, ProcBegin, Begin, thrVars
    <3>7. CASE \E r \in Req : Call(r)
      BY <3>7 DEF Call, Submit, SubmitNoMap, WaitWake, WaitFinish
    <3>. QED BY <1>4, <3>1, <3>2, <3>3, <3>4, <3>5, <3>6, <3>7 DEF Next, Holder
  <2>2. pc'[Stp] = pc[Stp]
    BY <2>1, PcStp DEF Inv
  <2>. QED BY <1>1, <2>2
<1>. QED BY <1>2, <1>3, <1>4

LEMMA AnswerStep ==
    ASSUME Inv, AnswerInv, CalmUse, [Next]_vars
    PROVE  AnswerInv'
<1>1. ListsOK' /\ OpenOK' /\ FreshOK' /\ WaiterOK'
  <2>1. CASE UNCHANGED vars
    BY <2>1, UnsentFrame, ListFrame, CallerFrame DEF vars, qVars, lockVars, reqVars, thrVars
  <2>2. CASE \E r \in Req : Call(r)
    BY <2>2, SubmitAnswer, WaitAnswer DEF Call
  <2>. QED BY <2>1, <2>2, CmplAnswer, LoopAnswer, ExitAnswer, ProcAnswer, OthersAnswer,
              DrainAnswer, BatchAnswer DEF Next, Holder, Drain
<1>. QED BY <1>1, CalmStep DEF AnswerInv

LEMMA InitAnswer == Init => AnswerInv
<1> SUFFICES ASSUME Init PROVE AnswerInv
  OBVIOUS
<1>1. pc[Stp] = "idle" /\ \A r \in Req : pc[r] = "new" /\ result[r] = "none" /\ ~done[r]
  BY ReqAssumption DEF Init, Thread
<1>2. Listed(work) = {} /\ Listed(pend) = {} /\ NoRepeat(work) /\ NoRepeat(pend) /\ Queued = {}
  BY DEF Init, Listed, NoRepeat, Queued
<1>3. at = "free"
  BY DEF Init
<1>. QED BY <1>1, <1>2, <1>3, ReqAssumption
         DEF AnswerInv, ListsOK, OpenOK, FreshOK, WaiterOK, CalmOK

(***************************************************************************)
(* Nothing is on two lists or twice on one, nor answered while it is on    *)
(* one, in a calm use of the queue.                                        *)
(***************************************************************************)
THEOREM AnswerInvHolds == ASSUME CalmUse PROVE Spec => []AnswerInv
<1>1. Inv /\ AnswerInv /\ [Next]_vars => AnswerInv'
  BY AnswerStep
<1>. QED BY <1>1, InitAnswer, InvHolds, PTL DEF Spec

(***************************************************************************)
(* Neither list holds a request whose owner was told its outcome, by a     *)
(* callback, a timeout, a drain or a failed call, and may have freed it    *)
(* (NoDanglingRequest), in a calm use of the queue.                        *)
(***************************************************************************)
THEOREM NothingDangles == ASSUME CalmUse PROVE Spec => []NoDanglingRequest
<1>1. AnswerInv => NoDanglingRequest
  BY DEF AnswerInv, OpenOK, NoDanglingRequest
<1>. QED BY <1>1, AnswerInvHolds, PTL

\* Only what is open is answered.
LEMMA AnswerOpen ==
    ASSUME Inv, AnswerInv, CalmUse, [Next]_vars,
           NEW r \in Req, result[r] # "none"
    PROVE  result'[r] = result[r]
<1>1. r \notin Queued /\ ~Unsent(r)
  BY DEF AnswerInv, OpenOK, FreshOK
<1>. TypeOK /\ result \in [Req -> Outcome \cup {"none"}]
  BY DEF Inv, TypeOK, ReqType
<1>2. CASE Cmpl
  <2>1. CASE CmplDone
    <3>1. Head(pend) \in Listed(pend)
      BY <2>1, TailListed DEF CmplDone, TypeOK, QueueType, AnswerInv, ListsOK
    <3>2. r # Head(pend)
      BY <1>1, <3>1, QueuedListed
    <3>. QED BY <2>1, <3>2 DEF CmplDone, SgtReqDone, Answer
  <2>. QED BY <1>2, <2>1 DEF Cmpl, CmplPart, CmplEnd, reqVars
<1>3. CASE DrainPend \/ DrainWork
  <2>1. pos \in Nat \ {0} /\ work \in Seq(Req) /\ pend \in Seq(Req)
    BY DEF TypeOK, LockType, QueueType
  <2>2. PICK list \in {work, pend} : DrainOne(list)
    BY <1>3 DEF DrainPend, DrainWork
  <2>3. pos \in 1 .. Len(list)
    BY <2>1, <2>2 DEF DrainOne
  <2>4. r # list[pos]
    BY <1>1, <2>2, <2>3 DEF Queued
  <2>. QED BY <2>2, <2>4 DEF DrainOne
<1>4. CASE BatchMap
  <2>1. result' = [q \in Req |-> result[q]]
    BY <1>4 DEF BatchMap, CalmUse
  <2>. QED BY <2>1
<1>5. CASE BatchQueue
  <2>1. r \notin Batch
    BY <1>1, <1>5 DEF BatchQueue, Unsent
  <2>. QED BY <1>5, <2>1 DEF BatchQueue
<1>6. CASE \E q \in Req : Call(q)
  <2>1. PICK q \in Req : Call(q)
    BY <1>6
  <2>2. CASE Submit(q) \/ SubmitNoMap(q)
    <3>1. q # r
      BY <1>1, <2>2 DEF Submit, SubmitNoMap, Unsent
    <3>. QED BY <2>2, <3>1 DEF Submit, SubmitNoMap
  <2>3. CASE WaitWake(q)
    BY <2>3 DEF WaitWake, reqVars
  <2>4. CASE WaitFinish(q)
    <3>1. q # r
      BY <2>4 DEF WaitFinish, AnswerInv, WaiterOK
    <3>. QED BY <2>4, <3>1 DEF WaitFinish
  <2>. QED BY <2>1, <2>2, <2>3, <2>4 DEF Call
<1>7. CASE \E t \in Req \cup {Svc} : Proc(t)
  BY <1>7 DEF Proc, ProcStopWait, ProcSkip, ProcBegin, Begin, reqVars
<1>8. CASE Loop \/ ProcExit \/ ProcStopExit \/ SvcCheck \/ DrainNext \/ DrainEnd
  BY <1>8 DEF Loop, ProcFill, ProcFull, ProcRing, ProcExit, ProcStopExit, SvcCheck, DrainNext,
              DrainEnd, reqVars
<1>9. CASE Service \/ Hw \/ Stop \/ Start
  BY <1>9 DEF Service, SvcStart, KthCheck, KthWake, Hw, HwExec, HwWriteback, IrqShared, Stop,
              StopBegin, StopWake, StopExpire, StopDrain, Teardown, Start, StartConfig,
              StartOnline, StartFail, reqVars
<1>10. CASE UNCHANGED vars
  BY <1>10 DEF vars, reqVars
<1>. QED BY <1>2, <1>3, <1>4, <1>5, <1>6, <1>7, <1>8, <1>9, <1>10 DEF Next, Holder, Drain

(***************************************************************************)
(* A request is answered once (AnsweredOnce): the completion, the drain of *)
(* a stop, a timeout and a failed call exclude each other, in a calm use   *)
(* of the queue.                                                           *)
(***************************************************************************)
THEOREM OneAnswer == ASSUME CalmUse PROVE Spec => AnsweredOnce
<1>1. Inv /\ AnswerInv /\ [Next]_vars =>
        [\A r \in Req : result[r] # "none" => result'[r] = result[r]]_result
  BY AnswerOpen
<1>. QED BY <1>1, InvHolds, AnswerInvHolds, PTL DEF Spec, AnsweredOnce

-----------------------------------------------------------------------------
(* The request count.                                                      *)

\* Batches queue without counting; entries of sleeping callers survive a stop.
CountedUse == Sync = {} /\ BatchSeq = <<>>

\* A step that leaves the work list to itself.
LEMMA CountFrame ==
    ASSUME CountOK, UNCHANGED << work, workReqPend, qState >>,
           \/ UNCHANGED << at, pos >>
           \/ at \notin {"drainPend", "drainWork"} /\ at' \notin {"drainPend", "drainWork"}
           \/ at = "drainPend" /\ at' = "drainWork" /\ pos' = 1
    PROVE  CountOK'
BY DEF CountOK

LEMMA CountStep ==
    ASSUME Inv, AnswerInv, CountedUse, CountOK, [Next]_vars
    PROVE  CountOK'
<1>. TypeOK /\ LockOK /\ work \in Seq(Req) /\ pend \in Seq(Req) /\ Len(work) \in Nat
     /\ workReqPend = Len(work) /\ Batch = {} /\ pos \in Nat \ {0}
  BY DEF Inv, TypeOK, QueueType, LockType, CountOK, CountedUse, Batch
<1>1. CASE Cmpl
  BY <1>1, CountFrame DEF Cmpl, CmplDone, CmplPart, CmplEnd, SgtReqDone, qVars, lockVars, LockOK
<1>2. CASE ProcFill
  <2>1. qState' = "ONLINE" /\ at' = "loop"
    BY <1>2 DEF ProcFill, LockOK, Writing
  <2>2. workReqPend' = Len(work')
    <3>1. work # <<>> => 1 \in 1 .. Len(work)
      OBVIOUS
    <3>2. CASE WorkDel(1)
      BY <1>2, <3>1, <3>2, RemoveAtType DEF ProcFill, WorkDel
    <3>. QED BY <1>2, <3>2 DEF ProcFill
  <2>. QED BY <2>1, <2>2 DEF CountOK
<1>3. CASE ProcFull \/ ProcRing
  BY <1>3, CountFrame DEF ProcFull, ProcRing, LoopOver, Reap, LockOK
<1>4. CASE ProcExit \/ ProcStopExit \/ SvcCheck
  BY <1>4, CountFrame DEF ProcExit, ProcStopExit, SvcCheck, Unlock, qVars
<1>5. CASE DrainPend \/ DrainNext
  BY <1>5 DEF DrainPend, DrainNext, DrainOne, CountedUse, CountOK, qVars
<1>6. CASE DrainWork
  <2>1. /\ work' = RemoveAt(work, pos) /\ workReqPend' = workReqPend - 1
        /\ pos \in 1 .. Len(work) /\ UNCHANGED << pos, at, qState >>
    BY <1>6 DEF DrainWork, DrainOne, WorkDel, CountedUse
  <2>2. Len(work') = Len(work) - 1
    BY <2>1, RemoveAtType
  <2>. QED BY <1>6, <2>1, <2>2 DEF CountOK, DrainWork
<1>7. CASE DrainEnd
  <2>1. pos = 1 /\ pos > Len(work) /\ UNCHANGED << work, workReqPend, qState >> /\ at' = "free"
    BY <1>7 DEF DrainEnd, Unlock, qVars, CountOK
  <2>2. work = <<>>
    BY <2>1
  <2>. QED BY <2>1, <2>2 DEF CountOK
<1>8. CASE Service
  BY <1>8, CountFrame DEF Service, SvcStart, KthCheck, KthWake, Reap, lockVars
<1>9. CASE Hw
  BY <1>9, CountFrame DEF Hw, HwExec, HwWriteback, IrqShared, qVars, lockVars
<1>10. CASE StopBegin \/ StopWake \/ StopExpire \/ Teardown \/ StartFail
  BY <1>10, CountFrame DEF StopBegin, StopWake, StopExpire, Teardown, StartFail, qVars, lockVars
<1>11. CASE StopDrain
  BY <1>11 DEF StopDrain, CountOK
<1>12. CASE StartConfig \/ StartOnline
  <2>1. UNCHANGED << work, at, pos >> /\ at = "free"
    BY <1>12 DEF StartConfig, StartOnline, lockVars
  <2>2. CASE StartConfig
    <3>1. work = <<>> /\ workReqPend' = 0 /\ qState' = qState
      BY <2>1, <2>2 DEF StartConfig, CountOK
    <3>. QED BY <2>1, <3>1 DEF CountOK
  <2>3. CASE StartOnline
    <3>1. workReqPend' = workReqPend /\ qState' = "ONLINE"
      BY <2>3 DEF StartOnline
    <3>. QED BY <2>1, <3>1 DEF CountOK
  <2>. QED BY <1>12, <2>2, <2>3
<1>13. CASE BatchMap \/ BatchQueue
  BY <1>13 DEF BatchMap, BatchQueue, CountedUse
<1>14. CASE \E t \in Req \cup {Svc} : Proc(t)
  BY <1>14, CountFrame DEF Proc, ProcStopWait, ProcSkip, ProcBegin, Begin, Reap, qVars, lockVars
<1>15. CASE \E r \in Req : Call(r)
  <2>1. PICK r \in Req : Call(r)
    BY <1>15
  <2>2. CASE Submit(r)
    <3>1. UNCHANGED << work, workReqPend >> \/ (WorkAdd(r) /\ qState = "ONLINE")
      BY <2>2 DEF Submit
    <3>2. UNCHANGED << at, pos, qState >> /\ at = "free"
      BY <2>2 DEF Submit, lockVars
    <3>3. workReqPend' = Len(work')
      BY <3>1 DEF WorkAdd
    <3>. QED BY <3>1, <3>2, <3>3 DEF CountOK
  <2>3. CASE SubmitNoMap(r)
    BY <2>3, CountFrame DEF SubmitNoMap, qVars, lockVars
  <2>4. ~WaitWake(r) /\ ~WaitFinish(r)
    BY DEF WaitWake, WaitFinish, CountedUse, AnswerInv, WaiterOK
  <2>. QED BY <2>1, <2>2, <2>3, <2>4 DEF Call
<1>16. CASE UNCHANGED vars
  BY <1>16, CountFrame DEF vars, qVars, lockVars
<1>. QED BY <1>1, <1>2, <1>3, <1>4, <1>5, <1>6, <1>7, <1>8, <1>9, <1>10, <1>11, <1>12, <1>13,
            <1>14, <1>15, <1>16 DEF Next, Holder, Loop, Drain, Stop, Start

(***************************************************************************)
(* work_req_pend, by which the interrupt work decides whether there is     *)
(* anything to write, is the length of the work list (WorkReqPendCounts)   *)
(* on a queue without batches and sleeping callers, through any number of  *)
(* stops and restarts.                                                     *)
(***************************************************************************)
THEOREM RequestsCounted == ASSUME CountedUse PROVE Spec => []WorkReqPendCounts
<1>1. Init => CountOK
  <2>1. Len(<<>>) = 0
    OBVIOUS
  <2>. QED BY <2>1 DEF Init, CountOK
<1>2. Inv /\ AnswerInv /\ CountOK /\ [Next]_vars => CountOK'
  BY CountStep
<1>3. CountOK => WorkReqPendCounts
  BY DEF CountOK, WorkReqPendCounts
<1>4. CalmUse
  BY DEF CalmUse, CountedUse
<1>5. Spec => []AnswerInv
  BY <1>4, AnswerInvHolds
<1>. QED BY <1>1, <1>2, <1>3, <1>5, InvHolds, PTL DEF Spec
=============================================================================
