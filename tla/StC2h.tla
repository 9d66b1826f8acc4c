-------------------------------- MODULE StC2h --------------------------------
(***************************************************************************)
(* A streaming receive queue (libqdma/qdma_st_c2h.c).  The hardware fills  *)
(* the buffers of the descriptor ring and writes a completion entry per    *)
(* packet; the driver turns completions into readable buffers, copies them *)
(* to read requests, and gives the buffers back by moving the ring's pidx. *)
(*                                                                         *)
(* A queue has a packet handler (fp_descq_c2h_packet: the network driver,  *)
(* served by NAPI) or none (the character device: requests read the        *)
(* data).  Driver operations run under the queue's lock and are one step   *)
(* each; the hardware's steps come between any two of them.                *)
(*                                                                         *)
(* Data is counted in units.  The units of the stream are numbered as the  *)
(* hardware receives them, and a buffer is the number of its first unit.   *)
(***************************************************************************)
EXTENDS Integers, Sequences, SequencesExt, FiniteSetsExt

CONSTANTS
    Handlers,   \* the kinds of queue looked at, a subset of BOOLEAN
    R,          \* rngsz, the descriptors of the ring
    RC,         \* rngsz_cmpt, the entries of the completion ring
    BufSz,      \* c2h_bufsz
    PktLens,    \* the lengths of the packets that arrive
    ReqLens,    \* the lengths of the read requests
    MaxPkts,    \* packets that arrive
    MaxReads,   \* read requests that wait at once
    Budget,     \* packets of one NAPI poll
    MayErr      \* whether the hardware may flag an error

ASSUME C2hAssumption ==
    /\ Handlers \subseteq BOOLEAN /\ MayErr \in BOOLEAN
    /\ R \in Nat /\ R > 1 /\ RC \in Nat /\ RC > 1
    /\ BufSz \in Nat \ {0}
    /\ PktLens \subseteq Nat /\ ReqLens \subseteq Nat
    /\ MaxPkts \in Nat /\ MaxReads \in Nat /\ Budget \in Nat

VARIABLES
    handler,    \* fp_descq_c2h_packet # NULL
    q,          \* the driver's record of the queue: descq and flq
    h,          \* the hardware's record of the queue
    cmpt,       \* the completion ring
    mem,        \* mem[s]: the number of the first unit in buffer s
    napi,       \* "idle", "sched", "update" or "done"; without handler, the
                \* interrupt's work item: "idle" or "sched"
    missed,     \* NAPIF_STATE_MISSED: scheduled while it ran
    rxWork        \* rx_work_done of the poll

c2hVars == << handler, q, h, cmpt, mem, napi, missed, rxWork >>

Slot == 0 .. R - 1

\* ring_idx_incr, ring_idx_decr and ring_idx_delta.
RingIncr(i, n, size) == IF i + n >= size THEN i + n - size ELSE i + n
RingDecr(i, n, size) == IF i >= n THEN i - n ELSE size - (n - i)
RingDelta(new, old, size) == IF new >= old THEN new - old ELSE new + (size - old)

SlotsFrom(i, n) == {RingIncr(i, k, R) : k \in 0 .. n - 1}

-----------------------------------------------------------------------------
(***************************************************************************)
(* The hardware                                                            *)
(***************************************************************************)
CeilDiv(a, b) == (a + b - 1) \div b

\* An empty packet takes a buffer too.
HwBufs(len) == Max({1, CeilDiv(len, BufSz)})

\* A packet arrives: its units go to the next buffers, its completion to the
\* next entry.  It needs that many buffers given and an entry not yet read.
HwPacket ==
    /\ h.pkts < MaxPkts
    /\ RingIncr(h.cmptPidx, 1, RC) # h.cmptCidx
    /\ \E len \in PktLens, err \in (IF MayErr THEN BOOLEAN ELSE {FALSE}) :
         LET n == HwBufs(len)
         IN  /\ RingDelta(h.pidx, h.cidx, R) >= n
             /\ mem' = [s \in Slot |->
                          IF s \in SlotsFrom(h.cidx, n)
                          THEN h.units + BufSz * RingDelta(s, h.cidx, R)
                          ELSE mem[s]]
             /\ cmpt' = [cmpt EXCEPT ![h.cmptPidx] =
                           [color |-> h.color, len |-> len, err |-> err]]
             /\ h' = [h EXCEPT !.cidx = RingIncr(@, n, R),
                               !.cmptPidx = RingIncr(@, 1, RC),
                               !.color = IF h.cmptPidx = RC - 1 THEN 1 - @ ELSE @,
                               !.units = @ + len,
                               !.pkts = @ + 1]
    /\ UNCHANGED << handler, q, napi, missed, rxWork >>

\* The status entry of the completion ring follows, for all entries so far.
HwStatus ==
    /\ h.status # h.cmptPidx
    /\ h' = [h EXCEPT !.status = h.cmptPidx]
    /\ UNCHANGED << handler, q, cmpt, mem, napi, missed, rxWork >>

\* An interrupt for entries the driver was not known to have read; the next
\* one needs another write of the completion cidx.  napi_schedule of a running
\* poll only marks it missed.
HwInterrupt ==
    /\ h.armed /\ h.status # h.cmptCidx
    /\ h' = [h EXCEPT !.armed = FALSE]
    /\ napi' = IF napi = "idle" THEN "sched" ELSE napi
    /\ missed' = (missed \/ (handler /\ napi # "idle"))
    /\ UNCHANGED << handler, q, cmpt, mem, rxWork >>

\* queue_cmpt_cidx_update and queue_pidx_update.
WriteCidx(hw, cidx) == [hw EXCEPT !.cmptCidx = cidx, !.armed = TRUE]
WritePidx(hw, pidx) == [hw EXCEPT !.pidx = pidx]

-----------------------------------------------------------------------------
(***************************************************************************)
(* Buffers: qdma_flq_refill and descq_st_c2h_read                          *)
(***************************************************************************)

\* Give `count` buffers from `idx` back: the same ones, whose length becomes a
\* buffer's again, or (to a handler, which kept them) fresh ones.
\* Mutant: the length stays what the packet left in it.
RefillLength(d, idx, count, recycle) ==
    LET back == SlotsFrom(idx, count)
    IN  [d EXCEPT !.offset = [s \in Slot |-> IF s \in back /\ ~recycle THEN 0 ELSE @[s]],
                  !.valid = @ \ back,
                  !.avail = @ + count,
                  !.pendEmpty = @ \/ d.list = << >>]
Refill(d, idx, count, recycle) ==
    LET back == SlotsFrom(idx, count)
    IN  [d EXCEPT !.len = [s \in Slot |-> IF s \in back THEN BufSz ELSE @[s]],
                  !.offset = [s \in Slot |-> IF s \in back /\ ~recycle THEN 0 ELSE @[s]],
                  !.valid = @ \ back,
                  !.avail = @ + count,
                  !.pendEmpty = @ \/ d.list = << >>]

\* The readable buffers, and the units they describe.
Readable(d) == RingDelta(d.pidx, d.pidxPend, R)
UnitsOf(d, s) == [j \in 1 .. d.len[s] |-> mem[s] + d.offset[s] + j - 1]
Unread(d) == FlattenSeq([k \in 1 .. Readable(d) |->
                            UnitsOf(d, RingIncr(d.pidxPend, k - 1, R))])

\* The units of the first k readable buffers.
Upto(d, k) ==
    LET sum[i \in 0 .. k] ==
            IF i = 0 THEN 0 ELSE sum[i - 1] + d.len[RingIncr(d.pidxPend, i - 1, R)]
    IN  sum[k]

\* One request of `left` units takes what is readable.  Buffers read to the end
\* are passed; of one read in part the offset moves and the length shrinks.
Read(d, left, refill) ==
    LET copied == Min({left, Len(Unread(d))})
        used   == Cardinality({k \in 1 .. Readable(d) :
                                  Upto(d, k - 1) < left /\ Upto(d, k) <= left})
        part   == copied - Upto(d, used)
        next   == RingIncr(d.pidxPend, used, R)
        e      == IF refill /\ used > 0 THEN Refill(d, d.pidxPend, used, TRUE) ELSE d
    IN  [e EXCEPT !.pidxPend = next,
                  !.offset[next] = @ + part,
                  !.len[next] = @ - part,
                  !.dlen = @ - copied,
                  !.got = @ \o SubSeq(Unread(d), 1, copied),
                  !.taken = @ + copied]

\* A waiting request of `left` units has been read: d before, r after.
Served(d, left, r) ==
    LET rest == left - (d.dlen - r.dlen)
    IN  IF rest = 0 THEN [r EXCEPT !.list = Tail(@), !.pendEmpty = (r.avail = 0)]
        ELSE [r EXCEPT !.list = << rest >> \o Tail(@), !.more = TRUE]

\* qdma_c2h_packets_proc_dflt: the waiting requests in their order, until one
\* is left with less than it asked for.
\* Mutant: one request only.
ReadFirst(d) ==
    IF d.list = << >> THEN d ELSE Served(d, Head(d.list), Read(d, Head(d.list), FALSE))
ReadNext(e, left) ==
    IF e.list = << >> \/ e.more THEN e ELSE Served(e, left, Read(e, left, FALSE))
ReadAll(d) ==
    LET after[i \in 0 .. Len(d.list)] ==
            IF i = 0 THEN [d EXCEPT !.more = FALSE] ELSE ReadNext(after[i - 1], d.list[i])
    IN  after[Len(d.list)]

-----------------------------------------------------------------------------
(***************************************************************************)
(* Completions: descq_process_completion_st_c2h                            *)
(***************************************************************************)

\* get_next_powof2 of the buffer size: what pg_shift and pg_mask divide by.
PageSz == CHOOSE p \in {2 ^ k : k \in 0 .. BufSz} : p >= BufSz /\ p < 2 * BufSz

IsPow2(len) == len = 0 \/ \E k \in 0 .. len : 2 ^ k = len

\* get_fl_nr: the buffers of a packet, and what its last one holds.
FlNr(len) ==
    IF IsPow2(len) THEN (IF len = 0 THEN 1 ELSE CeilDiv(len, PageSz))
    ELSE CeilDiv(len, BufSz)
\* Mutant: the last buffer counts as full.
LastLenWhole(len) == BufSz
LastLen(len) ==
    LET l == IF IsPow2(len) THEN len % PageSz ELSE len % BufSz
    IN  IF len = 0 THEN 0 ELSE IF l = 0 THEN BufSz ELSE l

\* rcv_pkt, and cmpt_next: the packet's buffers become readable, or go to the
\* handler at once.
RcvPkt(d, len) ==
    LET n     == FlNr(len)
        last  == RingIncr(d.next, n - 1, R)
        after == RingIncr(last, 1, R)
        e     == [d EXCEPT !.len[last] = LastLen(len)]
        f     == [e EXCEPT
                    !.avail = @ - n,
                    !.next = after,
                    !.cmptCidx = RingIncr(@, 1, RC),
                    !.color = IF d.cmptCidx = RC - 1 THEN 1 - @ ELSE @,
                    !.proc = @ + 1]
    IN  IF d.avail < n THEN [e EXCEPT !.stop = TRUE]
        ELSE IF handler
        THEN [f EXCEPT !.pidxPend = after,
                       !.got = @ \o FlattenSeq([k \in 1 .. n |->
                                   UnitsOf(f, RingIncr(d.next, k - 1, R))]),
                       !.taken = @ + len]
        ELSE [f EXCEPT !.valid = @ \union SlotsFrom(d.next, n),
                       !.overrun = @ \/ SlotsFrom(d.next, n) \intersect d.valid # {},
                       !.dlen = @ + len]

\* One entry of the loop; an error entry halts the queue for good.
Entry(d) ==
    LET e == cmpt[d.cmptCidx]
    IN  IF d.stop \/ d.err THEN d
        ELSE IF e.err THEN [d EXCEPT !.err = TRUE]
        ELSE IF e.color # d.color THEN [d EXCEPT !.stop = TRUE]
        ELSE RcvPkt(d, e.len)

Process(n) ==
    LET after[i \in 0 .. n] ==
            IF i = 0 THEN [q EXCEPT !.next = q.pidx, !.got = << >>] ELSE Entry(after[i - 1])
    IN  after[n]

\* Consumed buffers are refilled and the new ring pidx is prepared.
GiveBack(d) ==
    LET n == RingDelta(d.pidxPend, q.pidxPend, R)
    IN  IF n = 0 THEN d
        ELSE [Refill(d, q.pidxPend, n, ~handler) EXCEPT
                !.pidxInfo = RingDecr(d.pidxPend, 1, R)]

\* What follows the loop when entries were processed: waiting requests read.
Finish(d) ==
    LET e == [d EXCEPT !.pidx = d.next, !.wrbCidx = d.cmptCidx]
    IN  GiveBack(IF handler THEN e ELSE ReadAll(e))

\* The fields a pass works with mean nothing after it.
Clean(d) == [d EXCEPT !.next = 0, !.proc = 0, !.stop = FALSE, !.more = FALSE]

\* Entries were processed, with state d after the loop and f at the end.
\* Without a handler the loop's end writes the completion cidx, then the ring's
\* pidx when buffers were consumed; a handler's queue leaves both to
\* qdma_queue_update_pointers.
Processed(d, f) ==
    /\ rxWork' = d.proc
    /\ q' = Clean(f)
    /\ h' = IF handler THEN h
            ELSE IF f.pidxPend = q.pidxPend THEN WriteCidx(h, f.wrbCidx)
            ELSE WritePidx(WriteCidx(h, f.wrbCidx), f.pidxInfo)

\* With nothing to do the cidx is written again, to have the next interrupt.
Service(budget) ==
    LET pend == RingDelta(h.status, q.cmptCidx, RC)
    IN  CASE q.err -> rxWork' = 0 /\ UNCHANGED << q, h >>
          [] ~q.err /\ pend = 0 ->
                rxWork' = 0 /\ h' = WriteCidx(h, q.wrbCidx) /\ UNCHANGED q
          [] OTHER ->
                \E d \in {Process(IF budget = 0 THEN pend ELSE Min({budget, pend}))} :
                    IF d.err \/ d.proc = 0
                    THEN rxWork' = d.proc /\ q' = Clean(d) /\ UNCHANGED h
                    ELSE Processed(d, Finish(d))

\* The interrupt's work item, qdma_descq_service_cmpl_update(descq, 0, 1).
IntrWork ==
    /\ ~handler /\ napi = "sched"
    /\ Service(0)
    /\ napi' = "idle"
    /\ UNCHANGED << handler, cmpt, mem, missed >>

\* qdma_net_napi_poll, first half; the poll is paid per packet handed over.
NapiPoll ==
    /\ handler /\ napi = "sched"
    /\ Service(Budget)
    /\ napi' = "update"
    /\ UNCHANGED << handler, cmpt, mem, missed >>

\* qdma_queue_update_pointers.
NapiUpdate ==
    /\ handler /\ napi = "update"
    /\ h' = WritePidx(WriteCidx(h, q.wrbCidx), q.pidxInfo)
    /\ napi' = "done"
    /\ UNCHANGED << handler, q, cmpt, mem, missed, rxWork >>

\* Mutant: a poll that missed an interrupt ends.
NapiCompleteAlways ==
    /\ napi = "done"
    /\ napi' = IF rxWork >= Budget THEN "sched" ELSE "idle"
    /\ missed' = FALSE
    /\ UNCHANGED << handler, q, h, cmpt, mem, rxWork >>

\* A full budget polls on; napi_complete_done starts over when it was missed.
NapiComplete ==
    /\ napi = "done"
    /\ napi' = IF rxWork >= Budget \/ missed THEN "sched" ELSE "idle"
    /\ missed' = (missed /\ rxWork >= Budget)
    /\ UNCHANGED << handler, q, h, cmpt, mem, rxWork >>

\* qdma_request_submit_st_c2h: a request takes what is readable now, giving
\* the buffers back itself, and waits on the list for the rest.
SubmitRead ==
    /\ ~handler /\ Len(q.list) < MaxReads
    /\ \E left \in ReqLens :
         LET d    == [q EXCEPT !.got = << >>, !.list = Append(@, left)]
             r    == IF Readable(d) = 0 THEN d ELSE Read(d, left, TRUE)
             rest == left - (d.dlen - r.dlen)
             pidx == RingDecr(r.pidxPend, 1, R)
             e    == IF r.pidxPend = q.pidxPend THEN r ELSE [r EXCEPT !.pidxInfo = pidx]
         IN  /\ q' = IF rest = 0 THEN [e EXCEPT !.list = q.list]
                     ELSE [e EXCEPT !.list = Append(q.list, rest), !.pendEmpty = FALSE]
             /\ h' = IF r.pidxPend = q.pidxPend THEN h ELSE WritePidx(h, pidx)
    /\ UNCHANGED << handler, cmpt, mem, napi, missed, rxWork >>

\* All packets arrived, or the queue halted, and nothing is left to do.
C2hQuiet ==
    /\ h.pkts = MaxPkts \/ q.err
    /\ h.status = h.cmptPidx /\ napi = "idle"
    /\ UNCHANGED c2hVars

-----------------------------------------------------------------------------
\* qdma_descq_config_complete and qdma_descq_prog_hw: R-1 buffers are given.
C2hInit ==
    /\ handler \in Handlers
    /\ q = [ avail |-> R - 1, pidx |-> 0, pidxPend |-> 0, pidxInfo |-> R - 1,
             cmptCidx |-> 0, wrbCidx |-> 0, color |-> 1, dlen |-> 0,
             offset |-> [s \in Slot |-> 0], len |-> [s \in Slot |-> BufSz],
             valid |-> {}, overrun |-> FALSE, err |-> FALSE,
             list |-> << >>, pendEmpty |-> TRUE,
             next |-> 0, proc |-> 0, stop |-> FALSE, more |-> FALSE,
             got |-> << >>, taken |-> 0 ]
    /\ h = [ pidx |-> R - 1, cidx |-> 0, cmptPidx |-> 0, cmptCidx |-> 0, color |-> 1,
             status |-> 0, armed |-> TRUE, units |-> 0, pkts |-> 0 ]
    /\ cmpt = [i \in 0 .. RC - 1 |-> [color |-> 0, len |-> 0, err |-> FALSE]]
    /\ mem = [s \in Slot |-> 0]
    /\ napi = "idle" /\ missed = FALSE /\ rxWork = 0

C2hNext == HwPacket \/ HwStatus \/ HwInterrupt \/ IntrWork \/ NapiPoll
           \/ NapiUpdate \/ NapiComplete \/ SubmitRead \/ C2hQuiet

C2hSpec == C2hInit /\ [][C2hNext]_c2hVars

-----------------------------------------------------------------------------
\* What the readable buffers describe is the stream, from the first unit no
\* reader has got, and pkt_dlen, which qdma_queue_c2h_peek reports, is how much
\* it is; what the last reader got came just before.
ReadIsStream ==
    ~q.err =>
      /\ Unread(q) = [i \in 1 .. q.dlen |-> q.taken + i - 1]
      /\ q.got = [i \in 1 .. Len(q.got) |-> q.taken - Len(q.got) + i - 1]

\* Every buffer the hardware may fill or has filled unseen is one the driver
\* counts as available, and is empty and whole: the receive path never finds
\* too few (rcv_pkt, -EBUSY, which nothing would retry) and never a buffer
\* still being read (WARN_ON(sinfo->f.valid)).
Ahead == RingDelta(h.pidx, q.pidx, R)
BuffersCounted ==
    ~q.err => /\ Ahead <= q.avail
              /\ ~q.overrun
              /\ \A s \in SlotsFrom(q.pidx, Ahead) : s \notin q.valid
BuffersWhole ==
    ~q.err => \A s \in SlotsFrom(q.pidx, Ahead) : q.len[s] = BufSz /\ q.offset[s] = 0
BuffersCovered == BuffersCounted /\ BuffersWhole

\* A request waits only while nothing is readable, so requests get the stream
\* in the order they came (qdma_request_submit_st_c2h reads past the list);
\* and with none waiting a stop of the queue is not held up.
WaitsForData ==
    ~q.err => IF q.list = << >> THEN q.pendEmpty ELSE q.dlen = 0

\* No wakeup is lost: while the status shows a completion the driver has not
\* read, the work item or the poll is on its way or the interrupt is armed and
\* will be raised, whether the completion came before the pointers were
\* written, between that and napi_complete_done, or later.
WakeupNotLost ==
    ~q.err /\ h.status # q.cmptCidx =>
        napi # "idle" \/ (h.armed /\ h.status # h.cmptCidx)
=============================================================================
