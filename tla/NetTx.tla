------------------------------- MODULE NetTx -------------------------------
(***************************************************************************)
(* Transmission and the life of the interface in the network driver        *)
(* (net/qdma_net.c, net/qdma_net_txrx.c).                                  *)
(*                                                                         *)
(* Three threads meet: the stack, which transmits under the kernel's       *)
(* transmit lock and opens and closes under RTNL; the queue service, which *)
(* calls back the requests of the H2C queue in ring order; and, through    *)
(* both, the pool of transmit contexts, which has no lock.  Allocation     *)
(* scans the pool one block at a time, and a block is freed by two         *)
(* writes, so the scan sees pools that are changing.                       *)
(*                                                                         *)
(* External: the kernel lets no transmission overlap ndo_stop and holds    *)
(* one transmission at a time; the H2C queue answers the requests it       *)
(* accepted once each, in order, and all of them before a stop returns     *)
(* (QdmaDescqProps!AnsweredOnce and StopQuiesces).                         *)
(***************************************************************************)
EXTENDS Integers, Sequences, FiniteSets

CONSTANTS Skb,          \* packets of the network stack
          NoSkb,        \* none of them
          PoolSize,     \* QDMA_NET_TX_CTX_POOL_SIZE
          UIntMod       \* 2^32, the modulus of unsigned int

ASSUME NetAssumption ==
    /\ NoSkb \notin Skb
    /\ PoolSize \in Nat \ {0}
    /\ UIntMod \in Nat /\ UIntMod > 2 * PoolSize + 2

VARIABLES ifState,   \* "down", "opening", "up", "closing": what RTNL is doing
          poolUp,    \* tx_ctx_pool.mempool # NULL
          memptr,    \* mempool_info[b].memptr # NULL
          numBlks,   \* mempool_info[b].num_blks
          blkidx,    \* mempool_blkidx
          scan,      \* the locals of qdma_net_mempool_alloc
          xmit,      \* the transmitting thread: pc, packet, context
          cb,        \* the completion callback: pc and context
          ctx,       \* the packet a transmit context points to
          ring,      \* contexts of the requests the H2C queue has accepted
          owner,     \* who frees a packet: "stack" or "driver"
          hndl,      \* h2c_qhndl
          h2cq,      \* the H2C queue is added (and, but in an open, online)
          c2hq,      \* the C2H queue is added
          sendFailed,\* a submission failed since the pool was created
          refused,   \* outcome of the last allocation, for RefusedOnlyBehindBacklog
          stray      \* a pool was used after it had been freed

netIf   == <<ifState, hndl, h2cq, c2hq>>
netPool == <<poolUp, memptr, numBlks, blkidx>>
netTx   == <<scan, xmit, sendFailed, refused>>
netVars == <<netIf, netPool, netTx, cb, ctx, ring, owner, stray>>

Blk     == 0 .. PoolSize - 1
NumBlks == 1           \* what the driver asks of qdma_net_mempool_alloc
TxQid   == 0           \* qs[0].qid, the only queue: also the H2C queue's handle
UInt(n) == n % UIntMod

XmitIdle == [pc |-> "idle", skb |-> NoSkb, blk |-> 0]
CbIdle   == [pc |-> "idle", blk |-> 0]
NoScan   == [i |-> 0, max |-> 0, tmp |-> 0, avail |-> 0, last |-> FALSE]

(* A context is live from its allocation to the first write of its free.   *)
LiveCtx == {ring[k] : k \in DOMAIN ring}
             \cup (IF xmit.pc \in {"build", "submit", "free"}
                   THEN {xmit.blk} ELSE {})
             \cup (IF cb.pc \in {"called", "free"} THEN {cb.blk} ELSE {})

NetInit ==
    /\ ifState = "down" /\ hndl = 0
    /\ h2cq = FALSE /\ c2hq = FALSE
    /\ poolUp = FALSE
    /\ memptr = [b \in Blk |-> FALSE] /\ numBlks = [b \in Blk |-> 0]
    /\ blkidx = 0
    /\ scan = NoScan /\ xmit = XmitIdle /\ cb = CbIdle
    /\ sendFailed = FALSE /\ refused = "no"
    /\ ctx = [b \in Blk |-> NoSkb] /\ ring = <<>>
    /\ owner = [s \in Skb |-> "stack"]
    /\ stray = FALSE

-----------------------------------------------------------------------------
(* The pool. *)

MempoolCreate ==
    /\ poolUp' = TRUE
    /\ memptr' = [b \in Blk |-> FALSE] /\ numBlks' = [b \in Blk |-> 0]
    /\ blkidx' = 0

(* What one turn of the scan makes of its locals: it skips an allocation,  *)
(* counts a free block, and goes back to the front at the end of the pool. *)
(* Mutant: num_blks, which is cleared first, is what is looked at.         *)
ScanSkipCounted ==
    IF numBlks[scan.i] # 0
    THEN [scan EXCEPT !.max = UInt(scan.i + NumBlks + 1), !.tmp = UInt(scan.i + 1),
                      !.avail = 0]
    ELSE [scan EXCEPT !.avail = @ + 1]
ScanSkip ==
    IF memptr[scan.i]
    THEN LET i == UInt(scan.i + numBlks[scan.i] - 1 + UIntMod)
         IN  [i |-> i, max |-> UInt(i + NumBlks + 1),
              tmp |-> UInt(i + 1), avail |-> 0, last |-> scan.last]
    ELSE [scan EXCEPT !.avail = @ + 1]

ScanWrap(s) ==
    IF s.max > PoolSize
    THEN [s EXCEPT !.i = 0, !.avail = 0, !.max = NumBlks, !.tmp = 0]
    ELSE s

Refuse == /\ xmit' = [xmit EXCEPT !.pc = "drop"]
          /\ scan' = NoScan
          /\ refused' = (IF scan.last \/ sendFailed THEN "behind" ELSE "early")

(* Mutant: the scan begins behind the last allocation, even at the end. *)
ScanStartBehind ==
    scan' = [i |-> blkidx, max |-> blkidx + NumBlks, tmp |-> blkidx, avail |-> 0,
             last |-> blkidx > 0 /\ memptr[blkidx - 1]]

(* qdma_net_mempool_alloc, up to the first look at a block *)
ScanStart ==
    LET fits == blkidx + NumBlks <= PoolSize IN
    scan' = [i     |-> IF fits THEN blkidx ELSE 0,
             max   |-> IF fits THEN blkidx + NumBlks ELSE NumBlks,
             tmp   |-> IF fits THEN blkidx ELSE 0,
             avail |-> 0,
             last  |-> blkidx > 0 /\ memptr[blkidx - 1]]

NetScan ==
    /\ xmit.pc = "scan" /\ scan.i < PoolSize /\ scan.i < scan.max
    /\ LET s == ScanSkip
           w == ScanWrap(s)
       IN  \/ /\ s.max > PoolSize /\ NumBlks > blkidx
              /\ Refuse /\ UNCHANGED <<netPool, ctx>>
           \/ /\ s.max <= PoolSize \/ NumBlks <= blkidx
              /\ w.avail # NumBlks
              /\ scan' = [w EXCEPT !.i = UInt(@ + 1)]
              /\ UNCHANGED <<xmit, refused, netPool, ctx>>
           \/ /\ s.max <= PoolSize \/ NumBlks <= blkidx
              /\ w.avail = NumBlks
              /\ memptr' = [memptr EXCEPT ![w.tmp] = TRUE]
              /\ numBlks' = [numBlks EXCEPT ![w.tmp] = NumBlks]
              /\ blkidx' = w.i + 1
              /\ ctx' = [ctx EXCEPT ![w.tmp] = xmit.skb]
              /\ xmit' = [xmit EXCEPT !.pc = "build", !.blk = w.tmp]
              /\ refused' = "no" /\ scan' = NoScan /\ UNCHANGED poolUp
    /\ stray' = (stray \/ ~poolUp)
    /\ UNCHANGED <<netIf, sendFailed, cb, ring, owner>>

NetScanEnds ==
    /\ xmit.pc = "scan" /\ ~(scan.i < PoolSize /\ scan.i < scan.max)
    /\ Refuse
    /\ UNCHANGED <<netIf, netPool, sendFailed, cb, ctx, ring, owner, stray>>

-----------------------------------------------------------------------------
(* Transmission. *)

(* qdma_net_xmit_frame: the handle is never QDMA_QUEUE_IDX_INVALID *)
NetXmit(s) ==
    /\ ifState = "up" /\ xmit.pc = "idle" /\ owner[s] = "stack"
    /\ owner' = [owner EXCEPT ![s] = "driver"]
    /\ xmit' = [pc |-> "scan", skb |-> s, blk |-> 0]
    /\ ScanStart
    /\ UNCHANGED <<netIf, netPool, sendFailed, refused, cb, ctx, ring, stray>>

(* qdma_net_build_req_from_skb maps the packet or fails *)
NetBuild ==
    /\ xmit.pc = "build"
    /\ \E rv \in {"submit", "free"} :
          /\ xmit' = [xmit EXCEPT !.pc = rv]
          /\ sendFailed' = (sendFailed \/ rv = "free")
    /\ UNCHANGED <<netIf, netPool, scan, refused, cb, ctx, ring, owner, stray>>

(* Mutant: the submission fails when the request is queued already. *)
NetSubmitKept ==
    /\ xmit.pc = "submit"
    /\ ring' = Append(ring, xmit.blk)
    /\ \/ xmit' = XmitIdle /\ UNCHANGED sendFailed
       \/ xmit' = [xmit EXCEPT !.pc = "drop"] /\ sendFailed' = TRUE
    /\ UNCHANGED <<netIf, netPool, scan, refused, cb, ctx, owner, stray>>

(* qdma_request_submit: the callback may run before it returns *)
NetSubmit ==
    /\ xmit.pc = "submit"
    /\ \/ /\ ring' = Append(ring, xmit.blk)
          /\ xmit' = XmitIdle /\ UNCHANGED sendFailed
       \/ /\ xmit' = [xmit EXCEPT !.pc = "free"]
          /\ sendFailed' = TRUE /\ UNCHANGED ring
    /\ UNCHANGED <<netIf, netPool, scan, refused, cb, ctx, owner, stray>>

(* qdma_net_mempool_free after a failure: num_blks first, memptr second *)
NetUndo ==
    /\ \/ /\ xmit.pc = "free"
          /\ numBlks' = [numBlks EXCEPT ![xmit.blk] = 0]
          /\ xmit' = [xmit EXCEPT !.pc = "free2"] /\ UNCHANGED <<memptr, ctx>>
       \/ /\ xmit.pc = "free2"
          /\ memptr' = [memptr EXCEPT ![xmit.blk] = FALSE]
          /\ ctx' = [ctx EXCEPT ![xmit.blk] = NoSkb]
          /\ xmit' = [xmit EXCEPT !.pc = "drop"] /\ UNCHANGED numBlks
    /\ stray' = (stray \/ ~poolUp)
    /\ UNCHANGED <<netIf, poolUp, blkidx, scan, sendFailed, refused, cb, ring,
                   owner>>

(* Mutant: nobody frees it. *)
NetDropNot ==
    /\ xmit.pc = "drop" /\ xmit' = XmitIdle
    /\ UNCHANGED <<netIf, netPool, scan, sendFailed, refused, cb, ctx, ring, owner, stray>>

(* qdma_net_xmit_frame frees the packet that could not be enqueued *)
NetDrop ==
    /\ xmit.pc = "drop"
    /\ owner' = [owner EXCEPT ![xmit.skb] = "stack"]
    /\ xmit' = XmitIdle
    /\ UNCHANGED <<netIf, netPool, scan, sendFailed, refused, cb, ctx, ring, stray>>

-----------------------------------------------------------------------------
(* Completion, in the order of the ring. *)

(* the queue service or the drain of a stop takes the next request *)
NetComplete ==
    /\ cb.pc = "idle" /\ ring # <<>>
    /\ cb' = [pc |-> "called", blk |-> Head(ring)]
    /\ ring' = Tail(ring)
    /\ UNCHANGED <<netIf, netPool, netTx, ctx, owner, stray>>

(* qdma_net_tx_complete_cb frees the packet, then the context.  A context  *)
(* that was freed with its pool holds whatever is there now, so that the   *)
(* packet may be lost; its place is not found in a pool that is gone.      *)
NetCompleteCb ==
    /\ \/ /\ cb.pc = "called"
          /\ owner' \in {[owner EXCEPT ![ctx[cb.blk]] = "stack"]}
                          \cup (IF poolUp THEN {} ELSE {owner})
          /\ cb' \in {[cb EXCEPT !.pc = "free"]} \cup (IF poolUp THEN {} ELSE {CbIdle})
          /\ UNCHANGED <<memptr, numBlks, ctx>>
       \/ /\ cb.pc = "free"
          /\ IF poolUp THEN /\ numBlks' = [numBlks EXCEPT ![cb.blk] = 0]
                            /\ cb' = [cb EXCEPT !.pc = "free2"]
             ELSE cb' = CbIdle /\ UNCHANGED numBlks
          /\ UNCHANGED <<memptr, owner, ctx>>
       \/ /\ cb.pc = "free2"
          /\ memptr' = [memptr EXCEPT ![cb.blk] = FALSE]
          /\ ctx' = [ctx EXCEPT ![cb.blk] = NoSkb]
          /\ cb' = CbIdle /\ UNCHANGED <<numBlks, owner>>
    /\ stray' = (stray \/ ~poolUp)
    /\ UNCHANGED <<netIf, poolUp, blkidx, netTx, ring>>

-----------------------------------------------------------------------------
(* Opening and closing. *)

(* Mutant: a queue that is there already is taken as it is. *)
NetOpenTxAgain ==
    /\ ifState = "down" /\ MempoolCreate
    /\ h2cq' = TRUE /\ hndl' = TxQid /\ ifState' = "opening"
    /\ sendFailed' = FALSE
    /\ UNCHANGED <<c2hq, scan, xmit, refused, cb, ctx, ring, owner, stray>>

(* qdma_net_setup_tx_resources: no memory, a queue that cannot be added,   *)
(* and a queue that cannot be configured or started each undo what was     *)
(* done before; the handle is set as soon as the queue is there.           *)
NetOpenTx ==
    /\ ifState = "down"
    /\ \/ /\ ~h2cq
          /\ MempoolCreate
          /\ h2cq' = TRUE /\ hndl' = TxQid /\ ifState' = "opening"
          /\ sendFailed' = FALSE
       \/ /\ ~h2cq /\ hndl' \in {hndl, TxQid}   \* fails before, after the add
          /\ UNCHANGED <<ifState, h2cq, sendFailed, netPool>>
       \/ /\ h2cq                               \* xpdev_queue_add: in use
          /\ poolUp' = FALSE
          /\ UNCHANGED <<ifState, h2cq, hndl, sendFailed, memptr, numBlks, blkidx>>
    /\ UNCHANGED <<c2hq, scan, xmit, refused, cb, ctx, ring, owner, stray>>

(* qdma_net_setup_rx_resources; on success qdma_net_open starts the stack *)
NetOpenRx ==
    /\ ifState = "opening"
    /\ \/ ifState' = "up" /\ c2hq' = TRUE
       \/ ifState' = "closing" /\ UNCHANGED c2hq
    /\ UNCHANGED <<hndl, h2cq, netPool, netTx, cb, ctx, ring, owner, stray>>

(* qdma_net_close, qdma_net_down up to the queues *)
NetClose ==
    /\ ifState = "up" /\ xmit.pc = "idle"
    /\ ifState' = "closing"
    /\ UNCHANGED <<hndl, h2cq, c2hq, netPool, netTx, cb, ctx, ring,
                   owner, stray>>

(* qdma_net_free_tx_resources: the queue is stopped, which ends when every *)
(* request is answered, and deleted, if the handle is not 0.               *)
NetFreeTx ==
    /\ ifState = "closing" /\ poolUp
    /\ hndl # 0 => ring = <<>> /\ cb.pc = "idle"
    /\ h2cq' = (IF hndl # 0 THEN FALSE ELSE h2cq)
    /\ hndl' = 0
    /\ poolUp' = FALSE
    /\ UNCHANGED <<ifState, c2hq, memptr, numBlks, blkidx, netTx, cb,
                   ctx, ring, owner, stray>>

(* qdma_net_free_rx_resources: the handle of a C2H queue is never 0 *)
NetFreeRx ==
    /\ ifState = "closing" /\ ~poolUp
    /\ c2hq' = FALSE /\ ifState' = "down"
    /\ UNCHANGED <<hndl, h2cq, netPool, netTx, cb, ctx, ring, owner, stray>>

NetNext ==
    \/ \E s \in Skb : NetXmit(s)
    \/ NetScan \/ NetScanEnds \/ NetBuild \/ NetSubmit \/ NetUndo \/ NetDrop
    \/ NetComplete \/ NetCompleteCb
    \/ NetOpenTx \/ NetOpenRx \/ NetClose \/ NetFreeTx \/ NetFreeRx

(* The transmitting thread runs on; the queue answers what it accepted     *)
(* (QdmaDescqProps!EveryRequestAnswered).                                  *)
NetFairness ==
    /\ WF_netVars(NetScan \/ NetScanEnds \/ NetBuild \/ NetSubmit
                    \/ NetUndo \/ NetDrop)
    /\ WF_netVars(NetComplete \/ NetCompleteCb)

NetSpec == NetInit /\ [][NetNext]_netVars /\ NetFairness

-----------------------------------------------------------------------------
(* Properties. *)

(* No two users of the pool hold one block, and a block in use is marked:  *)
(* the scan, which reads what the callback is clearing, never hands out a  *)
(* context of a request in flight.  (Nothing can be said of the blocks     *)
(* once a pool has been used that is freed, see PoolOutlivesRequests.)     *)
ContextHeldOnce ==
    ~stray =>
        /\ \A b \in LiveCtx : memptr[b] /\ numBlks[b] = NumBlks
        /\ Cardinality(LiveCtx) =
             Len(ring) + Cardinality({t \in {"x", "c"} :
                 \/ t = "x" /\ xmit.pc \in {"build", "submit", "free"}
                 \/ t = "c" /\ cb.pc \in {"called", "free"}})

(* A packet in the driver is freed by exactly one of: the transmitting     *)
(* thread, the callback of the one context that points to it.              *)
SkbHeldOnce ==
    LET done  == {ring[k] : k \in DOMAIN ring}
                   \cup (IF cb.pc = "called" THEN {cb.blk} ELSE {})
        toXmit == IF xmit.pc = "idle" THEN {} ELSE {xmit.skb}
    IN  ~stray =>
          /\ \A s \in Skb : owner[s] = "driver" <=>
                 s \in toXmit \/ \E b \in done : ctx[b] = s
          /\ \A b, c \in done : ctx[b] = ctx[c] => b = c
          /\ \A b \in done : ctx[b] \notin toXmit

(* An allocation is refused only while the context handed out last was in   *)
(* use when the scan began: a scan gives up at the end of the pool without  *)
(* looking at the blocks in front of it, which is no harm as long as the    *)
(* queue completes in ring order, for then all the blocks it saw are older. *)
(* (The pool need not be full: a block passed over while it was being freed *)
(* stays out for a round.)  A submission that failed breaks the order.      *)
RefusedOnlyBehindBacklog == refused # "early"

(* No request of an earlier life of the interface meets a new pool: a      *)
(* close that left the queue behind with requests in it (the handle 0 is   *)
(* taken for none) also leaves its index in use, so that no later open     *)
(* comes past xpdev_queue_add; and a pool that is used after it was freed  *)
(* is never that of an interface which is up.                              *)
LivesApart ==
    /\ ifState = "opening" => ring = <<>> /\ cb.pc = "idle"
    /\ ifState \in {"opening", "up"} => ~stray

(* A request gives its context back to the pool it is from: the pool       *)
(* outlives the requests.  (It does not: see the README.)                  *)
PoolOutlivesRequests == ~stray

(* An interface that is down keeps no queue, whichever step of the open    *)
(* failed, so that it can be opened again.  (It does: see the README.)     *)
DownKeepsNoQueue == ifState = "down" => ~h2cq /\ ~c2hq

(* Every packet the driver takes is freed, or was behind a context of a    *)
(* pool that has been freed: the scan ends although others change the pool *)
(* under it, and a close loses nothing else.                               *)
EverySkbFreed ==
    \A s \in Skb : owner[s] = "driver" ~> (owner[s] = "stack" \/ stray)
=============================================================================
