---------------------------- MODULE NetTxProofs ----------------------------
(***************************************************************************)
(* Transmission in the network driver, for every set of packets and every  *)
(* size of the pool.  The pool has no lock, and what keeps it right is an  *)
(* order of writes: a block is marked before it is handed out and its mark *)
(* is the last thing a free clears, so that the marks are exactly the      *)
(* blocks some thread still works on (Marked), and the scan, which takes   *)
(* only a block without a mark, takes one that nobody has.                 *)
(***************************************************************************)
EXTENDS NetTx, FiniteSetTheorems, TLAPS

Scan == [i: Nat, max: Nat, tmp: Nat, avail: Nat, last: BOOLEAN]
Xmit == [pc: {"idle", "scan", "build", "submit", "free", "free2", "drop"},
         skb: Skb \cup {NoSkb}, blk: Blk]
Cb   == [pc: {"idle", "called", "free", "free2"}, blk: Blk]

NetType ==
    /\ ifState \in {"down", "opening", "up", "closing"}
    /\ hndl \in Nat /\ h2cq \in BOOLEAN /\ c2hq \in BOOLEAN /\ poolUp \in BOOLEAN
    /\ memptr \in [Blk -> BOOLEAN] /\ numBlks \in [Blk -> {0, 1}]
    /\ blkidx \in 0 .. PoolSize
    /\ scan \in Scan /\ xmit \in Xmit /\ cb \in Cb
    /\ ctx \in [Blk -> Skb \cup {NoSkb}] /\ ring \in Seq(Blk)
    /\ owner \in [Skb -> {"stack", "driver"}]
    /\ sendFailed \in BOOLEAN /\ refused \in {"no", "behind", "early"}
    /\ stray \in BOOLEAN

\* A thread works on a block until its mark is gone.
XmitHolds == xmit.pc \in {"build", "submit", "free", "free2"}
CbHolds   == cb.pc # "idle"
InRing(b) == \E k \in 1 .. Len(ring) : ring[k] = b

\* The scan looks at one block, the one it will hand out if it is free.
ScanOK ==
    xmit.pc = "scan" =>
        /\ scan.avail = 0 /\ scan.i \in 0 .. PoolSize /\ scan.max \in 0 .. PoolSize
        /\ scan.i < PoolSize /\ scan.i < scan.max => scan.max = scan.i + 1 /\ scan.tmp = scan.i

UsedOnce ==
    /\ \A j, k \in 1 .. Len(ring) : ring[j] = ring[k] => j = k
    /\ XmitHolds => ~InRing(xmit.blk)
    /\ CbHolds => ~InRing(cb.blk)
    /\ XmitHolds /\ CbHolds => xmit.blk # cb.blk

Marked ==
    \A b \in Blk :
        /\ memptr[b] <=> \/ InRing(b)
                         \/ XmitHolds /\ b = xmit.blk
                         \/ CbHolds /\ b = cb.blk
        /\ memptr[b] => numBlks[b] = IF \/ xmit.pc = "free2" /\ b = xmit.blk
                                        \/ cb.pc = "free2" /\ b = cb.blk
                                     THEN 0 ELSE 1

\* The packets behind the blocks: one each, and the driver's.
Done(b) == InRing(b) \/ (cb.pc = "called" /\ b = cb.blk)

SkbOK ==
    /\ xmit.pc # "idle" => xmit.skb \in Skb
    /\ XmitHolds => ctx[xmit.blk] = xmit.skb
    /\ \A b \in Blk : Done(b) => ctx[b] \in Skb
    /\ \A b, c \in Blk : Done(b) /\ Done(c) /\ ctx[b] = ctx[c] => b = c
    /\ \A b \in Blk : Done(b) /\ xmit.pc # "idle" => ctx[b] # xmit.skb
    /\ \A s \in Skb : owner[s] = "driver" <=>
           \/ xmit.pc # "idle" /\ s = xmit.skb
           \/ \E b \in Blk : Done(b) /\ ctx[b] = s

\* The interface: who may be at work in which state.
IfOK ==
    /\ ifState \in {"opening", "up"} => poolUp /\ h2cq /\ hndl = TxQid
    /\ xmit.pc # "idle" => ifState = "up"
    /\ ~h2cq \/ ifState = "opening" => ring = <<>> /\ cb.pc = "idle"

\* While no submission failed, the block handed out last is the youngest
\* one in use: if it has been freed, all have.
Youngest ==
    /\ xmit.pc \in {"free", "free2"} => sendFailed
    /\ ~sendFailed =>
          IF xmit.pc \in {"build", "submit"} THEN xmit.blk = blkidx - 1
          ELSE IF ring # <<>> THEN ring[Len(ring)] = blkidx - 1
          ELSE CbHolds => cb.blk = blkidx - 1
    /\ xmit.pc = "scan" /\ ~scan.last /\ ~sendFailed =>
          /\ \A b \in Blk : ~memptr[b]
          /\ scan.i < PoolSize /\ scan.i < scan.max
    /\ refused # "early"

PoolInv == NetType /\ ScanOK /\ UsedOnce /\ Marked /\ SkbOK /\ IfOK /\ Youngest

\* Once a freed pool has been used nothing is known of its blocks.  That is after
\* the last close: the queue is still in libqdma, so no open succeeds any more.
Gone == /\ h2cq /\ ~poolUp /\ ifState \in {"closing", "down"}
        /\ xmit.pc = "idle" /\ refused # "early"

\* The inductive invariant.
NetInv == /\ stray \in BOOLEAN
          /\ stray => Gone
          /\ ~stray => PoolInv

-----------------------------------------------------------------------------
(* unsigned int, and one turn of the scan. *)

LEMMA UIntSmall == \A n \in 0 .. UIntMod - 1 : UInt(n) = n
BY NetAssumption, SMT DEF UInt

LEMMA UIntOver == \A n \in UIntMod .. 2 * UIntMod - 1 : UInt(n) = n - UIntMod
<1>. SUFFICES ASSUME NEW n \in UIntMod .. 2 * UIntMod - 1
              PROVE  UInt(n) = n - UIntMod
  OBVIOUS
<1>. DEFINE k == n - UIntMod
<1>1. k \in 0 .. UIntMod - 1 /\ n = k + UIntMod * 1
  BY NetAssumption
<1>2. (k + UIntMod * 1) % UIntMod = k
  BY <1>1, NetAssumption, SMT
<1>. QED
  BY <1>1, <1>2 DEF UInt

-----------------------------------------------------------------------------
(* The initial state. *)

LEMMA NetInitInv == NetInit => NetInv
<1>. SUFFICES ASSUME NetInit PROVE NetInv
  OBVIOUS
<1>. USE NetAssumption DEF NetInit, XmitIdle, CbIdle, NoScan
<1>1. NetType
  <2>1. 0 \in Blk
    BY DEF Blk
  <2>2. xmit \in Xmit /\ cb \in Cb /\ scan \in Scan
    BY <2>1 DEF Scan, Xmit, Cb
  <2>3. ring \in Seq(Blk) /\ hndl \in Nat /\ blkidx \in 0 .. PoolSize
    OBVIOUS
  <2>. QED
    BY <2>2, <2>3 DEF NetType
<1>2. Len(ring) = 0 /\ \A b : ~InRing(b)
  BY DEF InRing
<1>3. ScanOK /\ IfOK
  BY DEF ScanOK, IfOK
<1>4. UsedOnce /\ Youngest
  BY <1>2 DEF UsedOnce, Youngest, XmitHolds, CbHolds
<1>5. Marked
  BY <1>2 DEF Marked, XmitHolds, CbHolds
<1>6. SkbOK
  BY <1>2 DEF SkbOK, XmitHolds, Done
<1>. QED
  BY <1>1, <1>3, <1>4, <1>5, <1>6 DEF PoolInv, NetInv

-----------------------------------------------------------------------------
(* The ring of requests. *)

LEMMA RingAppend ==
    ASSUME ring \in Seq(Blk), NEW b \in Blk, ring' = Append(ring, b)
    PROVE  /\ ring' \in Seq(Blk) /\ Len(ring') = Len(ring) + 1
           /\ \A k \in 1 .. Len(ring) : ring'[k] = ring[k]
           /\ ring'[Len(ring) + 1] = b
           /\ \A c : InRing(c)' <=> InRing(c) \/ c = b
<1>1. /\ ring' \in Seq(Blk) /\ Len(ring') = Len(ring) + 1 /\ Len(ring) \in Nat
      /\ \A k \in 1 .. Len(ring) : ring'[k] = ring[k]
      /\ ring'[Len(ring) + 1] = b
  OBVIOUS
<1>2. \A k : k \in 1 .. Len(ring') <=> k \in 1 .. Len(ring) \/ k = Len(ring) + 1
  BY <1>1
<1>. QED
  BY <1>1, <1>2 DEF InRing

LEMMA RingTail ==
    ASSUME ring \in Seq(Blk), ring # <<>>, ring' = Tail(ring),
           \A j, k \in 1 .. Len(ring) : ring[j] = ring[k] => j = k
    PROVE  /\ ring' \in Seq(Blk) /\ Len(ring') = Len(ring) - 1 /\ Len(ring) \in Nat \ {0}
           /\ \A k \in 1 .. Len(ring') : ring'[k] = ring[k + 1]
           /\ \A j, k \in 1 .. Len(ring') : ring'[j] = ring'[k] => j = k
           /\ Head(ring) = ring[1] /\ ring[1] \in Blk
           /\ \A c : InRing(c)' <=> InRing(c) /\ c # ring[1]
<1>1. /\ ring' \in Seq(Blk) /\ Len(ring') = Len(ring) - 1 /\ Len(ring) \in Nat \ {0}
      /\ \A k \in 1 .. Len(ring') : ring'[k] = ring[k + 1]
      /\ Head(ring) = ring[1] /\ ring[1] \in Blk
  OBVIOUS
<1>2. \A j, k \in 1 .. Len(ring') : ring'[j] = ring'[k] => j = k
  BY <1>1
<1>3. ASSUME NEW c, InRing(c)'
      PROVE  InRing(c) /\ c # ring[1]
  <2>1. PICK k \in 1 .. Len(ring') : ring'[k] = c
    BY <1>3 DEF InRing
  <2>2. k + 1 \in 1 .. Len(ring) /\ ring[k + 1] = c /\ 1 \in 1 .. Len(ring) /\ k + 1 # 1
    BY <1>1, <2>1
  <2>. QED
    BY <2>2 DEF InRing
<1>4. ASSUME NEW c, InRing(c), c # ring[1]
      PROVE  InRing(c)'
  <2>1. PICK k \in 1 .. Len(ring) : ring[k] = c
    BY <1>4 DEF InRing
  <2>2. k - 1 \in 1 .. Len(ring') /\ ring'[k - 1] = c
    BY <1>1, <1>4, <2>1
  <2>. QED
    BY <2>2 DEF InRing
<1>. QED
  BY <1>1, <1>2, <1>3, <1>4

\* A sequence without repetition has as many members as places.
LEMMA RingCount ==
    ASSUME ring \in Seq(Blk), \A j, k \in 1 .. Len(ring) : ring[j] = ring[k] => j = k
    PROVE  LET R == {ring[k] : k \in DOMAIN ring}
           IN  IsFiniteSet(R) /\ Cardinality(R) = Len(ring)
<1>. DEFINE R == {ring[k] : k \in DOMAIN ring}
            D == 1 .. Len(ring)
            f == [k \in D |-> ring[k]]
<1>1. Len(ring) \in Nat /\ DOMAIN ring = D
  OBVIOUS
<1>2. f \in Bijection(D, R)
  <2>1. f \in [D -> R] /\ \A r \in R : \E k \in D : f[k] = r
    BY <1>1
  <2>2. \A j, k \in D : f[j] = f[k] => j = k
    OBVIOUS
  <2>. QED
    BY <2>1, <2>2, Zenon DEF Bijection, Injection, Surjection, IsInjective
<1>3. IsFiniteSet(D) /\ Cardinality(D) = Len(ring)
  <2>1. 1 \in Int /\ Len(ring) \in Int
    BY <1>1
  <2>. QED
    BY <1>1, <2>1, FS_Interval
<1>. HIDE DEF f, D, R
<1>4. ExistsBijection(D, R)
  BY <1>2 DEF ExistsBijection
<1>5. IsFiniteSet(R) /\ Cardinality(R) = Len(ring)
  BY <1>3, <1>4, FS_Bijection
<1>. QED
  BY <1>5 DEF R

-----------------------------------------------------------------------------
(* Transmission keeps the pool. *)

\* Where nobody's work on a block begins or ends, who works on what is kept.
LEMMA SameBlocks ==
    ASSUME UsedOnce, Marked, UNCHANGED <<memptr, numBlks, cb, ring>>,
           XmitHolds' <=> XmitHolds, xmit.pc = "free2" <=> xmit'.pc = "free2",
           XmitHolds => xmit'.blk = xmit.blk
    PROVE  UsedOnce' /\ Marked' /\ \A b : (InRing(b)' <=> InRing(b)) /\ (Done(b)' <=> Done(b))
<1>1. \A b : InRing(b)' <=> InRing(b)
  BY DEF InRing
<1>2. CbHolds' <=> CbHolds
  BY DEF CbHolds
<1>3. \A b : Done(b)' <=> Done(b)
  BY <1>1 DEF Done
<1>4. UsedOnce'
  BY <1>1, <1>2 DEF UsedOnce
<1>5. Marked'
  BY <1>1, <1>2 DEF Marked, XmitHolds
<1>. QED
  BY <1>1, <1>3, <1>4, <1>5

LEMMA XmitFacts ==
    ASSUME NetType
    PROVE  /\ xmit.pc \in {"idle", "scan", "build", "submit", "free", "free2", "drop"}
           /\ xmit.skb \in Skb \cup {NoSkb} /\ xmit.blk \in Blk
           /\ cb.pc \in {"idle", "called", "free", "free2"} /\ cb.blk \in Blk
           /\ scan.i \in Nat /\ scan.max \in Nat /\ scan.tmp \in Nat
           /\ scan.avail \in Nat /\ scan.last \in BOOLEAN
BY DEF NetType, Xmit, Cb, Scan

\* A scan that follows the block handed out last finds that block free only
\* when all are.
LEMMA XmitPool ==
    ASSUME PoolInv, NEW s \in Skb, NetXmit(s)
    PROVE  PoolInv'
<1>. USE XmitFacts, NetAssumption DEF PoolInv
<1>0. /\ ifState = "up" /\ xmit.pc = "idle" /\ owner[s] = "stack"
      /\ owner' = [owner EXCEPT ![s] = "driver"]
      /\ xmit' = [pc |-> "scan", skb |-> s, blk |-> 0]
      /\ UNCHANGED <<netIf, netPool, sendFailed, refused, cb, ctx, ring, stray>>
  BY DEF NetXmit
<1>1. /\ scan' \in Scan /\ scan'.avail = 0
      /\ scan'.i \in 0 .. PoolSize - 1 /\ scan'.max = scan'.i + 1 /\ scan'.tmp = scan'.i
      /\ scan'.last = (blkidx > 0 /\ memptr[blkidx - 1])
  BY DEF NetXmit, ScanStart, Scan, NumBlks, NetType
<1>2. NetType'
  BY <1>0, <1>1 DEF NetType, netIf, netPool, Xmit, Blk
<1>3. ScanOK'
  BY <1>1 DEF ScanOK
<1>4. UsedOnce' /\ Marked' /\ \A b : (InRing(b)' <=> InRing(b)) /\ (Done(b)' <=> Done(b))
  BY <1>0, SameBlocks DEF XmitHolds, netPool
<1>5. SkbOK'
  <2>1. ~XmitHolds' /\ xmit'.pc # "idle" /\ xmit'.skb = s
    BY <1>0 DEF XmitHolds
  <2>2. \A b \in Blk : Done(b) => ctx[b] # s
    BY <1>0 DEF SkbOK
  <2>. QED
    BY <1>0, <1>4, <2>1, <2>2 DEF SkbOK, NetType
<1>6. IfOK'
  BY <1>0 DEF IfOK, netIf, netPool
<1>7. Youngest'
  <2>1. ~sendFailed /\ ~scan'.last => \A b \in Blk : ~memptr[b]
    <3>. SUFFICES ASSUME ~sendFailed, ~scan'.last
                  PROVE  \A b \in Blk : ~memptr[b]
      OBVIOUS
    <3>0. blkidx - 1 \notin Blk \/ ~memptr[blkidx - 1]
      <4>1. ~(blkidx > 0 /\ memptr[blkidx - 1])
        BY <1>1
      <4>2. blkidx - 1 \in Blk => blkidx > 0
        BY DEF Blk, NetType
      <4>. QED
        BY <4>1, <4>2
    <3>1. ring = <<>>
      <4>. SUFFICES ASSUME ring # <<>> PROVE FALSE
        OBVIOUS
      <4>1. Len(ring) \in 1 .. Len(ring) /\ ring[Len(ring)] \in Blk
        BY DEF NetType
      <4>2. memptr[ring[Len(ring)]]
        BY <4>1 DEF Marked, InRing
      <4>3. ring[Len(ring)] = blkidx - 1
        BY <1>0 DEF Youngest
      <4>. QED
        BY <3>0, <4>1, <4>2, <4>3
    <3>2. ~CbHolds
      <4>1. CbHolds => cb.blk = blkidx - 1
        BY <3>1, <1>0 DEF Youngest
      <4>2. CbHolds => memptr[cb.blk]
        BY DEF Marked
      <4>. QED
        BY <3>0, <4>1, <4>2
    <3>. QED
      BY <3>1, <3>2, <1>0 DEF Marked, InRing, XmitHolds
  <2>. QED
    BY <1>0, <1>1, <2>1 DEF Youngest, netPool, CbHolds
<1>. QED
  BY <1>2, <1>3, <1>4, <1>5, <1>6, <1>7

\* One turn of the scan: a free block is handed out; past a block in use the
\* scan steps to the next one, or to the front, or looks at this one again.
LEMMA ScanTurn ==
    ASSUME NetType, ScanOK, NetScan
    PROVE  /\ xmit.pc = "scan" /\ scan.i \in Blk
           /\ UNCHANGED <<netIf, poolUp, sendFailed, cb, ring, owner>>
           /\ stray' = (stray \/ ~poolUp)
           /\ IF memptr[scan.i]
              THEN /\ UNCHANGED <<memptr, numBlks, blkidx, ctx>>
                   /\ \/ Refuse
                      \/ /\ UNCHANGED <<xmit, refused>>
                         /\ scan' \in Scan /\ scan'.avail = 0
                         /\ scan'.i \in 0 .. PoolSize /\ scan'.max \in 0 .. PoolSize
                         /\ scan'.i < PoolSize /\ scan'.i < scan'.max =>
                               scan'.max = scan'.i + 1 /\ scan'.tmp = scan'.i
                         /\ scan'.last = scan.last
              ELSE /\ memptr' = [memptr EXCEPT ![scan.i] = TRUE]
                   /\ numBlks' = [numBlks EXCEPT ![scan.i] = 1]
                   /\ blkidx' = scan.i + 1
                   /\ ctx' = [ctx EXCEPT ![scan.i] = xmit.skb]
                   /\ xmit' = [xmit EXCEPT !.pc = "build", !.blk = scan.i]
                   /\ refused' = "no" /\ scan' = NoScan
<1>. DEFINE i == scan.i
            s == ScanSkip
            w == ScanWrap(s)
<1>1. /\ xmit.pc = "scan" /\ i \in Blk /\ scan \in Scan
      /\ scan.avail = 0 /\ scan.max = i + 1 /\ scan.tmp = i
      /\ UNCHANGED <<netIf, poolUp, sendFailed, cb, ring, owner>>
      /\ stray' = (stray \/ ~poolUp)
  BY XmitFacts, NetAssumption DEF NetScan, ScanOK, Blk, netPool, NetType
<1>2. CASE ~memptr[i]
  <2>1. s = [scan EXCEPT !.avail = 1]
    BY <1>1, <1>2 DEF ScanSkip
  <2>2. /\ s.i = i /\ s.max = i + 1 /\ s.tmp = i /\ s.avail = 1
    BY <1>1, <2>1 DEF Scan
  <2>3. s.max <= PoolSize /\ w = s
    BY <1>1, <2>2, NetAssumption DEF Blk, ScanWrap
  <2>4. /\ memptr' = [memptr EXCEPT ![w.tmp] = TRUE]
        /\ numBlks' = [numBlks EXCEPT ![w.tmp] = NumBlks]
        /\ blkidx' = w.i + 1
        /\ ctx' = [ctx EXCEPT ![w.tmp] = xmit.skb]
        /\ xmit' = [xmit EXCEPT !.pc = "build", !.blk = w.tmp]
        /\ refused' = "no" /\ scan' = NoScan
    BY <2>2, <2>3, NetAssumption, <1>1 DEF NetScan, NumBlks, Blk
  <2>. QED
    BY <1>1, <1>2, <2>2, <2>3, <2>4 DEF NumBlks
<1>3. CASE memptr[i]
  <2>1. numBlks[i] \in {0, 1} /\ i \in 0 .. PoolSize - 1
    BY <1>1 DEF NetType, Blk
  <2>2. /\ s = [i |-> s.i, max |-> s.max, tmp |-> s.tmp, avail |-> 0, last |-> scan.last]
        /\ \/ s.i = i /\ s.max = i + 2 /\ s.tmp = i + 1
           \/ i > 0 /\ s.i = i - 1 /\ s.max = i + 1 /\ s.tmp = i
           \/ i = 0 /\ s.i = UIntMod - 1 /\ s.max = 1 /\ s.tmp = 0
    <3>. DEFINE j == UInt(i + numBlks[i] - 1 + UIntMod)
    <3>1. s = [i |-> j, max |-> UInt(j + 2), tmp |-> UInt(j + 1), avail |-> 0,
               last |-> scan.last]
      <4>1. j + NumBlks + 1 = j + 2
        <5>1. j \in Int
          <6>1. i + numBlks[i] - 1 + UIntMod \in 0 .. 2 * UIntMod - 1
            BY <2>1, NetAssumption
          <6>. QED
            BY <6>1, UIntSmall, UIntOver, NetAssumption
        <5>. QED
          BY <5>1 DEF NumBlks
      <4>. QED
        BY <1>3, <4>1 DEF ScanSkip
    <3>2. CASE numBlks[i] = 1
      <4>1. i + numBlks[i] - 1 + UIntMod \in UIntMod .. 2 * UIntMod - 1
        BY <2>1, <3>2, NetAssumption
      <4>2. j = i
        BY <4>1, UIntOver, <2>1, <3>2, NetAssumption
      <4>3. j + 2 \in 0 .. UIntMod - 1 /\ j + 1 \in 0 .. UIntMod - 1
        BY <4>2, <2>1, NetAssumption
      <4>. QED
        BY <3>1, <4>2, <4>3, UIntSmall
    <3>3. CASE numBlks[i] = 0 /\ i > 0
      <4>1. i + numBlks[i] - 1 + UIntMod \in UIntMod .. 2 * UIntMod - 1
        BY <2>1, <3>3, NetAssumption
      <4>2. j = i - 1
        BY <4>1, UIntOver, <2>1, <3>3, NetAssumption
      <4>3. /\ j + 2 \in 0 .. UIntMod - 1 /\ j + 1 \in 0 .. UIntMod - 1
            /\ j + 2 = i + 1 /\ j + 1 = i
        BY <4>2, <2>1, NetAssumption
      <4>. QED
        BY <3>1, <3>3, <4>2, <4>3, UIntSmall
    <3>4. CASE numBlks[i] = 0 /\ i = 0
      <4>1. i + numBlks[i] - 1 + UIntMod \in 0 .. UIntMod - 1
        BY <2>1, <3>4, NetAssumption
      <4>2. j = UIntMod - 1
        BY <4>1, UIntSmall, <2>1, <3>4, NetAssumption
      <4>3. /\ j + 2 \in UIntMod .. 2 * UIntMod - 1 /\ j + 1 \in UIntMod .. 2 * UIntMod - 1
            /\ (j + 2) - UIntMod = 1 /\ (j + 1) - UIntMod = 0
        BY <4>2, <2>1, NetAssumption
      <4>. QED
        BY <3>1, <3>4, <4>2, <4>3, UIntOver
    <3>. QED
      BY <2>1, <3>2, <3>3, <3>4
  <2>. HIDE DEF s
  <2>3. w.avail = 0 /\ w.last = scan.last
    BY <2>2 DEF ScanWrap
  <2>4. UNCHANGED <<memptr, numBlks, blkidx, ctx>>
    BY <2>3, <1>1 DEF NetScan, NumBlks, netPool, s
  <2>5. \/ Refuse
        \/ scan' = [w EXCEPT !.i = UInt(@ + 1)] /\ UNCHANGED <<xmit, refused>>
    BY <2>3, <1>1 DEF NetScan, NumBlks, s
  <2>6. LET t == [w EXCEPT !.i = UInt(@ + 1)]
        IN  /\ t \in Scan /\ t.avail = 0 /\ t.last = scan.last
            /\ t.i \in 0 .. PoolSize /\ t.max \in 0 .. PoolSize
            /\ t.i < PoolSize /\ t.i < t.max => t.max = t.i + 1 /\ t.tmp = t.i
    <3>0. scan.last \in BOOLEAN
      BY XmitFacts
    <3>1. CASE s.max > PoolSize
      <4>1. w = [i |-> 0, max |-> 1, tmp |-> 0, avail |-> 0, last |-> scan.last]
        <5>1. w = [s EXCEPT !.i = 0, !.avail = 0, !.max = 1, !.tmp = 0]
          BY <3>1 DEF ScanWrap, NumBlks
        <5>2. PICK a, b, c : s = [i |-> a, max |-> b, tmp |-> c, avail |-> 0, last |-> scan.last]
          BY <2>2
        <5>. QED
          BY <5>1, <5>2
      <4>2. UInt(0 + 1) = 1
        BY UIntSmall, NetAssumption
      <4>. QED
        BY <3>0, <4>1, <4>2, NetAssumption DEF Scan
    <3>2. CASE ~(s.max > PoolSize)
      <4>1. w = s
        BY <3>2 DEF ScanWrap
      <4>2. /\ s.max \in 0 .. PoolSize /\ s.tmp \in Nat
            /\ \/ s.i + 1 \in 0 .. UIntMod - 1 /\ s.max = s.i + 2 /\ s.tmp = s.i + 1
                  /\ s.i \in 0 .. PoolSize
               \/ s.i = UIntMod - 1 /\ s.max = 1 /\ s.tmp = 0
        BY <2>1, <2>2, <3>2, NetAssumption
      <4>3. s.i + 1 = UIntMod => UInt(s.i + 1) = 0
        BY UIntOver, NetAssumption
      <4>4. s.i = UIntMod - 1 => s.i + 1 = UIntMod
        BY NetAssumption
      <4>5. s.max \in 1 .. PoolSize
        BY <4>2, NetAssumption
      <4>6. [s EXCEPT !.i = UInt(@ + 1)]
              = [i |-> s.max - 1, max |-> s.max, tmp |-> s.max - 1, avail |-> 0, last |-> scan.last]
        <5>1. UInt(s.i + 1) = s.max - 1 /\ s.tmp = s.max - 1
          <6>1. CASE s.i = UIntMod - 1 /\ s.max = 1 /\ s.tmp = 0
            BY <6>1, <4>3, <4>4
          <6>2. CASE /\ s.i + 1 \in 0 .. UIntMod - 1 /\ s.max = s.i + 2
                     /\ s.tmp = s.i + 1 /\ s.i \in 0 .. PoolSize
            BY <6>2, UIntSmall
          <6>. QED
            BY <4>2, <6>1, <6>2
        <5>2. [s EXCEPT !.i = UInt(@ + 1)]
                = [i |-> UInt(s.i + 1), max |-> s.max, tmp |-> s.tmp, avail |-> 0, last |-> scan.last]
          BY <2>2
        <5>. QED
          BY <5>1, <5>2
      <4>. QED
        BY <3>0, <4>1, <4>5, <4>6, NetAssumption DEF Scan
    <3>. QED
      BY <3>1, <3>2
  <2>. QED
    BY <1>1, <1>3, <2>4, <2>5, <2>6
<1>. QED
  BY <1>2, <1>3

\* A scan gives up only behind the block handed out last, or after a failure.
LEMMA RefusePool ==
    ASSUME PoolInv, xmit.pc = "scan", Refuse, scan.last \/ sendFailed,
           UNCHANGED <<netIf, netPool, sendFailed, cb, ctx, ring, owner>>, stray' \in BOOLEAN
    PROVE  PoolInv'
<1>. USE XmitFacts DEF PoolInv
<1>0. /\ xmit' = [xmit EXCEPT !.pc = "drop"] /\ scan' = NoScan /\ refused' = "behind"
      /\ xmit'.pc = "drop" /\ xmit'.skb = xmit.skb
  BY DEF Refuse, NetType, Xmit
<1>1. NetType'
  BY <1>0 DEF NetType, netIf, netPool, Xmit, NoScan, Scan
<1>2. ScanOK'
  BY <1>0 DEF ScanOK
<1>3. UsedOnce' /\ Marked' /\ \A b : (InRing(b)' <=> InRing(b)) /\ (Done(b)' <=> Done(b))
  BY <1>0, SameBlocks DEF XmitHolds, netPool
<1>4. SkbOK'
  BY <1>0, <1>3 DEF SkbOK, XmitHolds
<1>5. IfOK'
  BY <1>0 DEF IfOK, netIf, netPool
<1>6. Youngest'
  BY <1>0 DEF Youngest, netPool, CbHolds
<1>. QED
  BY <1>1, <1>2, <1>3, <1>4, <1>5, <1>6

LEMMA ScanPool ==
    ASSUME PoolInv, NetScan
    PROVE  PoolInv'
<1>. DEFINE i == scan.i
<1>. USE XmitFacts DEF PoolInv
<1>0. /\ xmit.pc = "scan" /\ i \in Blk
      /\ UNCHANGED <<netIf, poolUp, sendFailed, cb, ring, owner>>
      /\ stray' \in BOOLEAN /\ ~XmitHolds
  BY ScanTurn DEF XmitHolds, NetType
<1>1. \A b : InRing(b)' <=> InRing(b)
  BY <1>0 DEF InRing
<1>2. CbHolds' <=> CbHolds
  BY <1>0 DEF CbHolds
<1>3. \A b : Done(b)' <=> Done(b)
  BY <1>0, <1>1 DEF Done
<1>4. CASE memptr[i]
  <2>1. /\ UNCHANGED <<memptr, numBlks, blkidx, ctx>>
        /\ \/ Refuse
           \/ /\ UNCHANGED <<xmit, refused>>
              /\ scan' \in Scan /\ scan'.avail = 0
              /\ scan'.i \in 0 .. PoolSize /\ scan'.max \in 0 .. PoolSize
              /\ scan'.i < PoolSize /\ scan'.i < scan'.max =>
                    scan'.max = scan'.i + 1 /\ scan'.tmp = scan'.i
              /\ scan'.last = scan.last
    BY <1>4, ScanTurn
  <2>2. scan.last \/ sendFailed
    BY <1>0, <1>4 DEF Youngest
  <2>3. CASE Refuse
    BY <1>0, <2>1, <2>2, <2>3, RefusePool DEF netPool
  <2>4. CASE UNCHANGED <<xmit, refused>> /\ ~Refuse
    <3>1. NetType'
      BY <1>0, <2>1, <2>4 DEF NetType, netIf
    <3>2. ScanOK'
      BY <2>1, <2>4 DEF ScanOK
    <3>3. UsedOnce' /\ Marked'
      BY <1>0, <2>1, <2>4, SameBlocks DEF XmitHolds
    <3>4. SkbOK'
      BY <1>0, <1>3, <2>1, <2>4 DEF SkbOK, XmitHolds
    <3>5. IfOK'
      BY <1>0, <2>4 DEF IfOK, netIf
    <3>6. Youngest'
      BY <1>0, <2>1, <2>2, <2>4 DEF Youngest, CbHolds
    <3>. QED
      BY <3>1, <3>2, <3>3, <3>4, <3>5, <3>6
  <2>. QED
    BY <2>1, <2>3, <2>4
<1>5. CASE ~memptr[i]
  <2>1. /\ memptr' = [memptr EXCEPT ![i] = TRUE]
        /\ numBlks' = [numBlks EXCEPT ![i] = 1]
        /\ blkidx' = i + 1
        /\ ctx' = [ctx EXCEPT ![i] = xmit.skb]
        /\ xmit' = [xmit EXCEPT !.pc = "build", !.blk = i]
        /\ refused' = "no" /\ scan' = NoScan
    BY <1>5, ScanTurn
  <2>2. xmit'.pc = "build" /\ xmit'.blk = i /\ xmit'.skb = xmit.skb /\ XmitHolds'
    BY <2>1 DEF NetType, Xmit, XmitHolds
  <2>3. ~InRing(i) /\ (CbHolds => cb.blk # i)
    BY <1>0, <1>5 DEF Marked
  <2>4. NetType'
    <3>1. /\ memptr' \in [Blk -> BOOLEAN] /\ numBlks' \in [Blk -> {0, 1}]
          /\ ctx' \in [Blk -> Skb \cup {NoSkb}] /\ xmit' \in Xmit
      BY <1>0, <2>1 DEF NetType, Xmit
    <3>2. blkidx' \in 0 .. PoolSize /\ scan' \in Scan
      BY <1>0, <2>1, NetAssumption DEF Blk, NoScan, Scan
    <3>. QED
      BY <1>0, <2>1, <3>1, <3>2 DEF NetType, netIf
  <2>5. ScanOK'
    BY <2>2 DEF ScanOK
  <2>6. UsedOnce'
    BY <1>0, <1>1, <1>2, <2>2, <2>3 DEF UsedOnce
  <2>7. Marked'
    <3>1. \A b \in Blk : b # i => memptr'[b] = memptr[b] /\ numBlks'[b] = numBlks[b]
      BY <2>1 DEF NetType
    <3>2. memptr'[i] /\ numBlks'[i] = 1
      BY <1>0, <2>1 DEF NetType
    <3>. QED
      BY <1>0, <1>1, <1>2, <2>2, <2>3, <3>1, <3>2 DEF Marked, CbHolds
  <2>8. SkbOK'
    <3>1. \A b \in Blk : Done(b) => b # i
      BY <2>3 DEF Done, CbHolds
    <3>. QED
      BY <1>0, <1>3, <2>1, <2>2, <3>1 DEF SkbOK, NetType
  <2>9. IfOK'
    BY <1>0 DEF IfOK, netIf
  <2>10. Youngest'
    BY <1>0, <2>1, <2>2, NetAssumption DEF Youngest, Blk
  <2>. QED
    BY <2>4, <2>5, <2>6, <2>7, <2>8, <2>9, <2>10
<1>. QED
  BY <1>4, <1>5

LEMMA ScanEndsPool ==
    ASSUME PoolInv, NetScanEnds
    PROVE  PoolInv'
<1>1. scan.last \/ sendFailed
  BY XmitFacts DEF PoolInv, Youngest, NetScanEnds
<1>. QED
  BY <1>1, RefusePool DEF PoolInv, NetType, NetScanEnds

\* Whether the packet could be mapped changes no block.
LEMMA BuildPool ==
    ASSUME PoolInv, NetBuild
    PROVE  PoolInv'
<1>. USE XmitFacts DEF PoolInv
<1>0. /\ xmit.pc = "build" /\ xmit'.skb = xmit.skb /\ xmit'.blk = xmit.blk /\ xmit' \in Xmit
      /\ \/ xmit'.pc = "submit" /\ sendFailed' = sendFailed
         \/ xmit'.pc = "free" /\ sendFailed' = TRUE
      /\ UNCHANGED <<netIf, netPool, scan, refused, cb, ctx, ring, owner, stray>>
  BY DEF NetBuild, NetType, Xmit
<1>1. NetType'
  BY <1>0 DEF NetType, netIf, netPool
<1>2. ScanOK'
  BY <1>0 DEF ScanOK
<1>3. UsedOnce' /\ Marked' /\ \A b : (InRing(b)' <=> InRing(b)) /\ (Done(b)' <=> Done(b))
  BY <1>0, SameBlocks DEF XmitHolds, netPool
<1>4. SkbOK'
  BY <1>0, <1>3 DEF SkbOK, XmitHolds
<1>5. IfOK'
  BY <1>0 DEF IfOK, netIf, netPool
<1>6. Youngest'
  BY <1>0 DEF Youngest, netPool, CbHolds
<1>. QED
  BY <1>1, <1>2, <1>3, <1>4, <1>5, <1>6

\* A submission hands the block from the thread to the ring, or to the free.
LEMMA SubmitPool ==
    ASSUME PoolInv, NetSubmit
    PROVE  PoolInv'
<1>. USE XmitFacts DEF PoolInv
<1>0. /\ xmit.pc = "submit" /\ XmitHolds
      /\ UNCHANGED <<netIf, netPool, scan, refused, cb, ctx, owner, stray>>
  BY DEF NetSubmit, XmitHolds
<1>1. CASE ring' = Append(ring, xmit.blk) /\ xmit' = XmitIdle /\ UNCHANGED sendFailed
  <2>0. xmit'.pc = "idle" /\ ~XmitHolds' /\ xmit' \in Xmit
    BY <1>1, NetAssumption DEF XmitIdle, XmitHolds, Xmit, Blk
  <2>1. /\ ring' \in Seq(Blk) /\ Len(ring') = Len(ring) + 1 /\ Len(ring) \in Nat
        /\ \A k \in 1 .. Len(ring) : ring'[k] = ring[k]
        /\ ring'[Len(ring) + 1] = xmit.blk
        /\ \A c : InRing(c)' <=> InRing(c) \/ c = xmit.blk
    BY <1>1, RingAppend DEF NetType
  <2>2. CbHolds' <=> CbHolds
    BY <1>0 DEF CbHolds
  <2>3. \A b : Done(b)' <=> Done(b) \/ b = xmit.blk
    BY <1>0, <2>1 DEF Done
  <2>4. NetType'
    BY <1>0, <1>1, <2>0, <2>1 DEF NetType, netIf, netPool
  <2>5. ScanOK'
    BY <2>0 DEF ScanOK
  <2>6. UsedOnce'
    <3>1. \A j, k \in 1 .. Len(ring') : ring'[j] = ring'[k] => j = k
      <4>. SUFFICES ASSUME NEW j \in 1 .. Len(ring'), NEW k \in 1 .. Len(ring'),
                           ring'[j] = ring'[k]
                    PROVE  j = k
        OBVIOUS
      <4>1. \A l \in 1 .. Len(ring) : ring[l] # xmit.blk
        BY <1>0 DEF UsedOnce, InRing
      <4>2. /\ j \in 1 .. Len(ring) \/ j = Len(ring) + 1
            /\ k \in 1 .. Len(ring) \/ k = Len(ring) + 1
        BY <2>1
      <4>. QED
        BY <2>1, <4>1, <4>2 DEF UsedOnce
    <3>2. CbHolds => cb.blk # xmit.blk
      BY <1>0 DEF UsedOnce
    <3>. QED
      BY <1>0, <2>0, <2>1, <2>2, <3>1, <3>2 DEF UsedOnce
  <2>7. Marked'
    BY <1>0, <2>0, <2>1, <2>2 DEF Marked, netPool
  <2>8. SkbOK'
    <3>1. ctx[xmit.blk] = xmit.skb /\ xmit.skb \in Skb /\ xmit.blk \in Blk
      BY <1>0 DEF SkbOK
    <3>. QED
      BY <1>0, <2>0, <2>3, <3>1 DEF SkbOK
  <2>9. IfOK'
    BY <1>0, <1>1, <2>0 DEF IfOK, netIf, netPool
  <2>10. Youngest'
    <3>1. ring' # <<>> /\ Len(ring') = Len(ring) + 1
      BY <2>1
    <3>. QED
      BY <1>0, <1>1, <2>0, <2>1, <3>1 DEF Youngest, netPool
  <2>. QED
    BY <2>4, <2>5, <2>6, <2>7, <2>8, <2>9, <2>10
<1>2. CASE xmit' = [xmit EXCEPT !.pc = "free"] /\ sendFailed' = TRUE /\ UNCHANGED ring
  <2>0. xmit'.pc = "free" /\ xmit'.skb = xmit.skb /\ xmit'.blk = xmit.blk /\ xmit' \in Xmit
    BY <1>2 DEF NetType, Xmit
  <2>1. NetType'
    BY <1>0, <1>2, <2>0 DEF NetType, netIf, netPool
  <2>2. ScanOK'
    BY <2>0 DEF ScanOK
  <2>3. UsedOnce' /\ Marked' /\ \A b : (InRing(b)' <=> InRing(b)) /\ (Done(b)' <=> Done(b))
    BY <1>0, <1>2, <2>0, SameBlocks DEF XmitHolds, netPool
  <2>4. SkbOK'
    BY <1>0, <2>0, <2>3 DEF SkbOK, XmitHolds
  <2>5. IfOK'
    BY <1>0, <1>2 DEF IfOK, netIf, netPool
  <2>6. Youngest'
    BY <1>0, <1>2, <2>0 DEF Youngest, netPool
  <2>. QED
    BY <2>1, <2>2, <2>3, <2>4, <2>5, <2>6
<1>. QED
  BY <1>1, <1>2 DEF NetSubmit

\* The free after a failure: the count is cleared first, the mark last.
LEMMA UndoPool ==
    ASSUME PoolInv, NetUndo
    PROVE  PoolInv'
<1>. DEFINE b == xmit.blk
<1>. USE XmitFacts DEF PoolInv
<1>0. /\ xmit.pc \in {"free", "free2"} /\ XmitHolds /\ b \in Blk /\ stray' \in BOOLEAN
      /\ UNCHANGED <<netIf, poolUp, blkidx, scan, sendFailed, refused, cb, ring, owner>>
  BY DEF NetUndo, XmitHolds, NetType
<1>1. /\ \A c : InRing(c)' <=> InRing(c)
      /\ CbHolds' <=> CbHolds
      /\ \A c : Done(c)' <=> Done(c)
  BY <1>0 DEF InRing, CbHolds, Done
<1>2. ~InRing(b) /\ (CbHolds => cb.blk # b)
  BY <1>0 DEF UsedOnce
<1>3. CASE /\ xmit.pc = "free" /\ numBlks' = [numBlks EXCEPT ![b] = 0]
           /\ xmit' = [xmit EXCEPT !.pc = "free2"] /\ UNCHANGED <<memptr, ctx>>
  <2>0. /\ xmit'.pc = "free2" /\ xmit'.skb = xmit.skb /\ xmit'.blk = b /\ XmitHolds'
        /\ xmit' \in Xmit /\ numBlks' \in [Blk -> {0, 1}]
    BY <1>0, <1>3 DEF NetType, Xmit, XmitHolds
  <2>1. NetType'
    BY <1>0, <1>3, <2>0 DEF NetType, netIf
  <2>2. ScanOK'
    BY <2>0 DEF ScanOK
  <2>3. UsedOnce'
    BY <1>0, <1>1, <2>0 DEF UsedOnce
  <2>4. Marked'
    <3>1. numBlks'[b] = 0 /\ \A c \in Blk : c # b => numBlks'[c] = numBlks[c]
      BY <1>0, <1>3 DEF NetType
    <3>. QED
      BY <1>0, <1>1, <1>2, <1>3, <2>0, <3>1 DEF Marked, CbHolds
  <2>5. SkbOK'
    BY <1>0, <1>1, <1>3, <2>0 DEF SkbOK
  <2>6. IfOK'
    BY <1>0, <1>3, <2>0 DEF IfOK, netIf
  <2>7. Youngest'
    BY <1>0, <1>1, <1>3, <2>0 DEF Youngest
  <2>. QED
    BY <2>1, <2>2, <2>3, <2>4, <2>5, <2>6, <2>7
<1>4. CASE /\ xmit.pc = "free2" /\ memptr' = [memptr EXCEPT ![b] = FALSE]
           /\ ctx' = [ctx EXCEPT ![b] = NoSkb]
           /\ xmit' = [xmit EXCEPT !.pc = "drop"] /\ UNCHANGED numBlks
  <2>0. /\ xmit'.pc = "drop" /\ xmit'.skb = xmit.skb /\ ~XmitHolds' /\ xmit' \in Xmit
        /\ memptr' \in [Blk -> BOOLEAN] /\ ctx' \in [Blk -> Skb \cup {NoSkb}]
    BY <1>0, <1>4 DEF NetType, Xmit, XmitHolds
  <2>1. NetType'
    BY <1>0, <1>4, <2>0 DEF NetType, netIf
  <2>2. ScanOK'
    BY <2>0 DEF ScanOK
  <2>3. UsedOnce'
    BY <1>0, <1>1, <2>0 DEF UsedOnce
  <2>4. Marked'
    <3>1. ~memptr'[b] /\ \A c \in Blk : c # b => (memptr'[c] <=> memptr[c])
      BY <1>0, <1>4 DEF NetType
    <3>. QED
      BY <1>0, <1>1, <1>2, <1>4, <2>0, <3>1 DEF Marked, CbHolds
  <2>5. SkbOK'
    <3>1. \A c \in Blk : Done(c) => ctx'[c] = ctx[c]
      BY <1>2, <1>4 DEF Done, CbHolds, NetType
    <3>. QED
      BY <1>0, <1>1, <2>0, <3>1 DEF SkbOK
  <2>6. IfOK'
    BY <1>0, <1>4, <2>0 DEF IfOK, netIf
  <2>7. Youngest'
    BY <1>0, <1>1, <1>4, <2>0 DEF Youngest
  <2>. QED
    BY <2>1, <2>2, <2>3, <2>4, <2>5, <2>6, <2>7
<1>. QED
  BY <1>3, <1>4 DEF NetUndo

\* The thread gives back the packet it could not send.
LEMMA DropPool ==
    ASSUME PoolInv, NetDrop
    PROVE  PoolInv'
<1>. USE XmitFacts DEF PoolInv
<1>0. /\ xmit.pc = "drop" /\ ~XmitHolds /\ owner' = [owner EXCEPT ![xmit.skb] = "stack"]
      /\ UNCHANGED <<netIf, netPool, scan, sendFailed, refused, cb, ctx, ring, stray>>
      /\ xmit'.pc = "idle" /\ ~XmitHolds' /\ xmit' \in Xmit
  BY NetAssumption DEF NetDrop, XmitHolds, XmitIdle, Xmit, Blk
<1>1. NetType'
  BY <1>0 DEF NetType, netIf, netPool
<1>2. ScanOK'
  BY <1>0 DEF ScanOK
<1>3. UsedOnce' /\ Marked' /\ \A b : (InRing(b)' <=> InRing(b)) /\ (Done(b)' <=> Done(b))
  BY <1>0, SameBlocks DEF XmitHolds, netPool
<1>4. SkbOK'
  BY <1>0, <1>3 DEF SkbOK, NetType
<1>5. IfOK'
  BY <1>0 DEF IfOK, netIf, netPool
<1>6. Youngest'
  BY <1>0 DEF Youngest, netPool, CbHolds
<1>. QED
  BY <1>1, <1>2, <1>3, <1>4, <1>5, <1>6

-----------------------------------------------------------------------------
(* Completion keeps it. *)

\* The callback takes over the oldest block of the ring.
LEMMA CompletePool ==
    ASSUME PoolInv, NetComplete
    PROVE  PoolInv'
<1>. USE XmitFacts DEF PoolInv
<1>0. /\ cb.pc = "idle" /\ ~CbHolds /\ ring # <<>> /\ ring \in Seq(Blk)
      /\ cb' = [pc |-> "called", blk |-> Head(ring)] /\ ring' = Tail(ring)
      /\ UNCHANGED <<netIf, netPool, netTx, ctx, owner, stray>>
      /\ cb'.pc = "called" /\ CbHolds'
  BY DEF NetComplete, CbHolds, NetType
<1>1. \A j, k \in 1 .. Len(ring) : ring[j] = ring[k] => j = k
  BY DEF UsedOnce
<1>2. /\ ring' \in Seq(Blk) /\ Len(ring') = Len(ring) - 1 /\ Len(ring) \in Nat \ {0}
      /\ \A k \in 1 .. Len(ring') : ring'[k] = ring[k + 1]
      /\ \A j, k \in 1 .. Len(ring') : ring'[j] = ring'[k] => j = k
      /\ Head(ring) = ring[1] /\ ring[1] \in Blk
      /\ \A c : InRing(c)' <=> InRing(c) /\ c # ring[1]
  BY <1>0, <1>1, RingTail
<1>3. cb'.blk = ring[1] /\ cb' \in Cb /\ InRing(ring[1])
  <2>1. 1 \in 1 .. Len(ring)
    BY <1>2
  <2>. QED
    BY <1>0, <1>2, <2>1 DEF InRing, Cb
<1>4. XmitHolds' <=> XmitHolds
  BY <1>0 DEF netTx, XmitHolds
<1>5. \A b : Done(b)' <=> Done(b)
  BY <1>0, <1>2, <1>3 DEF Done
<1>6. NetType'
  BY <1>0, <1>2, <1>3 DEF NetType, netIf, netPool, netTx
<1>7. ScanOK'
  BY <1>0 DEF ScanOK, netTx
<1>8. UsedOnce'
  BY <1>0, <1>2, <1>3, <1>4 DEF UsedOnce, netTx
<1>9. Marked'
  BY <1>0, <1>2, <1>3, <1>4 DEF Marked, netTx, netPool
<1>10. SkbOK'
  BY <1>0, <1>4, <1>5 DEF SkbOK, netTx
<1>11. IfOK'
  BY <1>0 DEF IfOK, netIf, netPool, netTx
<1>12. Youngest'
  <2>1. xmit.pc \notin {"build", "submit"} /\ ~sendFailed => ring[Len(ring)] = blkidx - 1
    BY <1>0 DEF Youngest
  <2>2. CASE Len(ring) = 1
    BY <1>0, <1>2, <1>3, <2>1, <2>2 DEF Youngest, netTx, netPool
  <2>3. CASE Len(ring) # 1
    <3>1. Len(ring') \in 1 .. Len(ring') /\ ring'[Len(ring')] = ring[Len(ring)] /\ ring' # <<>>
      <4>1. Len(ring') \in 1 .. Len(ring') /\ Len(ring') + 1 = Len(ring)
        BY <1>2, <2>3
      <4>. QED
        BY <1>2, <4>1
    <3>. QED
      BY <1>0, <2>1, <3>1 DEF Youngest, netTx, netPool
  <2>. QED
    BY <2>2, <2>3
<1>. QED
  BY <1>6, <1>7, <1>8, <1>9, <1>10, <1>11, <1>12

\* The callback frees the packet, then the count and the mark of the block.
LEMMA CompleteCbPool ==
    ASSUME PoolInv, NetCompleteCb, poolUp
    PROVE  PoolInv'
<1>. DEFINE b == cb.blk
<1>. USE XmitFacts DEF PoolInv
<1>0. /\ cb.pc \in {"called", "free", "free2"} /\ CbHolds /\ b \in Blk /\ stray' \in BOOLEAN
      /\ UNCHANGED <<netIf, poolUp, blkidx, netTx, ring>>
  BY DEF NetCompleteCb, CbHolds, NetType
<1>1. /\ \A c : InRing(c)' <=> InRing(c)
      /\ XmitHolds' <=> XmitHolds
  BY <1>0 DEF InRing, XmitHolds, netTx
<1>2. ~InRing(b) /\ (XmitHolds => xmit.blk # b)
  BY <1>0 DEF UsedOnce
<1>3. ScanOK'
  BY <1>0 DEF ScanOK, netTx
<1>4. CASE /\ cb.pc = "called" /\ owner' = [owner EXCEPT ![ctx[b]] = "stack"]
           /\ cb' = [cb EXCEPT !.pc = "free"] /\ UNCHANGED <<memptr, numBlks, ctx>>
  <2>0. cb'.pc = "free" /\ cb'.blk = b /\ cb' \in Cb /\ CbHolds'
    BY <1>4 DEF NetType, Cb, CbHolds
  <2>1. NetType'
    BY <1>0, <1>4, <2>0 DEF NetType, netIf, netTx
  <2>2. UsedOnce'
    BY <1>0, <1>1, <2>0 DEF UsedOnce, netTx
  <2>3. Marked'
    BY <1>0, <1>1, <1>4, <2>0 DEF Marked, netTx
  <2>4. SkbOK'
    <3>1. /\ Done(b) /\ ctx[b] \in Skb
          /\ \A c : Done(c)' <=> InRing(c)
          /\ \A c : Done(c) <=> InRing(c) \/ c = b
      BY <1>0, <1>1, <1>4, <2>0 DEF Done, SkbOK
    <3>2. \A s \in Skb : owner'[s] = IF s = ctx[b] THEN "stack" ELSE owner[s]
      BY <1>4, <3>1 DEF NetType
    <3>3. xmit.pc # "idle" => ctx[b] # xmit.skb
      BY <1>0, <3>1 DEF SkbOK
    <3>4. \A c \in Blk : InRing(c) => ctx[c] # ctx[b]
      BY <1>0, <1>2, <3>1 DEF SkbOK
    <3>5. xmit' = xmit /\ ctx' = ctx
      BY <1>0, <1>4 DEF netTx
    <3>6. \A s \in Skb : owner'[s] = "driver" <=>
             \/ xmit'.pc # "idle" /\ s = xmit'.skb
             \/ \E c \in Blk : Done(c)' /\ ctx'[c] = s
      <4>. TAKE s \in Skb
      <4>1. owner[s] = "driver" <=>
               \/ xmit.pc # "idle" /\ s = xmit.skb
               \/ \E c \in Blk : Done(c) /\ ctx[c] = s
        BY DEF SkbOK
      <4>2. CASE s = ctx[b]
        BY <3>1, <3>2, <3>3, <3>4, <3>5, <4>2
      <4>3. CASE s # ctx[b]
        BY <3>1, <3>2, <3>5, <4>1, <4>3
      <4>. QED
        BY <4>2, <4>3
    <3>. QED
      BY <1>1, <3>1, <3>5, <3>6 DEF SkbOK
  <2>5. IfOK'
    BY <1>0, <1>4, <2>0 DEF IfOK, netIf, netTx
  <2>6. Youngest'
    BY <1>0, <1>4, <2>0 DEF Youngest, netTx
  <2>. QED
    BY <1>3, <2>1, <2>2, <2>3, <2>4, <2>5, <2>6
<1>5. CASE /\ cb.pc = "free" /\ numBlks' = [numBlks EXCEPT ![b] = 0]
           /\ cb' = [cb EXCEPT !.pc = "free2"] /\ UNCHANGED <<memptr, owner, ctx>>
  <2>0. cb'.pc = "free2" /\ cb'.blk = b /\ cb' \in Cb /\ CbHolds'
    BY <1>5 DEF NetType, Cb, CbHolds
  <2>1. NetType'
    <3>1. numBlks' \in [Blk -> {0, 1}]
      BY <1>0, <1>5 DEF NetType
    <3>. QED
      BY <1>0, <1>5, <2>0, <3>1 DEF NetType, netIf, netTx
  <2>2. UsedOnce'
    BY <1>0, <1>1, <2>0 DEF UsedOnce, netTx
  <2>3. Marked'
    <3>1. numBlks'[b] = 0 /\ \A c \in Blk : c # b => numBlks'[c] = numBlks[c]
      BY <1>0, <1>5 DEF NetType
    <3>. QED
      BY <1>0, <1>1, <1>2, <1>5, <2>0, <3>1 DEF Marked, netTx, XmitHolds
  <2>4. SkbOK'
    <3>1. \A c : Done(c)' <=> Done(c)
      BY <1>1, <1>5, <2>0 DEF Done
    <3>. QED
      BY <1>0, <1>1, <1>5, <3>1 DEF SkbOK, netTx
  <2>5. IfOK'
    BY <1>0, <1>5, <2>0 DEF IfOK, netIf, netTx
  <2>6. Youngest'
    BY <1>0, <1>5, <2>0 DEF Youngest, netTx
  <2>. QED
    BY <1>3, <2>1, <2>2, <2>3, <2>4, <2>5, <2>6
<1>6. CASE /\ cb.pc = "free2" /\ memptr' = [memptr EXCEPT ![b] = FALSE]
           /\ ctx' = [ctx EXCEPT ![b] = NoSkb]
           /\ cb' = CbIdle /\ UNCHANGED <<numBlks, owner>>
  <2>0. cb'.pc = "idle" /\ cb' \in Cb /\ ~CbHolds'
    BY <1>6, NetAssumption DEF CbIdle, Cb, CbHolds, Blk
  <2>1. NetType'
    <3>1. memptr' \in [Blk -> BOOLEAN] /\ ctx' \in [Blk -> Skb \cup {NoSkb}]
      BY <1>0, <1>6 DEF NetType
    <3>. QED
      BY <1>0, <1>6, <2>0, <3>1 DEF NetType, netIf, netTx
  <2>2. UsedOnce'
    BY <1>0, <1>1, <2>0 DEF UsedOnce, netTx
  <2>3. Marked'
    <3>1. ~memptr'[b] /\ \A c \in Blk : c # b => (memptr'[c] <=> memptr[c])
      BY <1>0, <1>6 DEF NetType
    <3>. QED
      BY <1>0, <1>1, <1>2, <1>6, <2>0, <3>1 DEF Marked, netTx, XmitHolds
  <2>4. SkbOK'
    <3>1. \A c : Done(c)' <=> Done(c)
      BY <1>1, <1>6, <2>0 DEF Done
    <3>2. \A c \in Blk : c # b => ctx'[c] = ctx[c]
      BY <1>6 DEF NetType
    <3>3. ~Done(b)
      BY <1>2, <1>6 DEF Done
    <3>. QED
      BY <1>0, <1>1, <1>2, <1>6, <3>1, <3>2, <3>3 DEF SkbOK, netTx
  <2>5. IfOK'
    BY <1>0, <1>6, <2>0 DEF IfOK, netIf, netTx
  <2>6. Youngest'
    <3>1. \A c \in Blk : memptr'[c] => memptr[c]
      BY <1>0, <1>6 DEF NetType
    <3>. QED
      BY <1>0, <1>6, <2>0, <3>1 DEF Youngest, netTx
  <2>. QED
    BY <1>3, <2>1, <2>2, <2>3, <2>4, <2>5, <2>6
<1>. QED
  BY <1>4, <1>5, <1>6 DEF NetCompleteCb

-----------------------------------------------------------------------------
(* Opening and closing. *)

\* The steps of the interface leave every block to whom it belongs.
LEMMA StillBlocks ==
    ASSUME UNCHANGED <<xmit, cb, ring>>
    PROVE  /\ \A c : InRing(c)' <=> InRing(c)
           /\ XmitHolds' <=> XmitHolds
           /\ CbHolds' <=> CbHolds
           /\ \A c : Done(c)' <=> Done(c)
<1>1. \A c : InRing(c)' <=> InRing(c)
  BY DEF InRing
<1>2. XmitHolds' <=> XmitHolds
  BY DEF XmitHolds
<1>3. CbHolds' <=> CbHolds
  BY DEF CbHolds
<1>4. \A c : Done(c)' <=> Done(c)
  BY <1>1 DEF Done
<1>. QED
  BY <1>1, <1>2, <1>3, <1>4

LEMMA StillInv ==
    ASSUME PoolInv, UNCHANGED <<scan, xmit, cb, ring, ctx, owner>>
    PROVE  /\ ScanOK' /\ UsedOnce' /\ SkbOK'
           /\ UNCHANGED <<memptr, numBlks>> => Marked'
           /\ UNCHANGED <<memptr, blkidx, sendFailed, refused>> => Youngest'
<1>. USE StillBlocks DEF PoolInv
<1>1. ScanOK'
  BY DEF ScanOK
<1>2. UsedOnce'
  BY DEF UsedOnce
<1>3. SkbOK'
  BY DEF SkbOK
<1>4. ASSUME UNCHANGED <<memptr, numBlks>> PROVE Marked'
  BY <1>4 DEF Marked
<1>5. ASSUME UNCHANGED <<memptr, blkidx, sendFailed, refused>> PROVE Youngest'
  BY <1>5 DEF Youngest
<1>. QED
  BY <1>1, <1>2, <1>3, <1>4, <1>5

\* A pool is created only when nobody works on a block.
LEMMA OpenTxPool ==
    ASSUME PoolInv, NetOpenTx
    PROVE  PoolInv'
<1>. USE XmitFacts DEF PoolInv
<1>0. /\ ifState = "down" /\ xmit.pc = "idle" /\ ~XmitHolds
      /\ UNCHANGED <<c2hq, scan, xmit, refused, cb, ctx, ring, owner, stray>>
  BY DEF NetOpenTx, IfOK, XmitHolds
<1>2. ScanOK' /\ UsedOnce' /\ SkbOK'
  BY <1>0, StillInv
<1>4. CASE /\ ~h2cq /\ MempoolCreate
           /\ h2cq' = TRUE /\ hndl' = TxQid /\ ifState' = "opening"
           /\ sendFailed' = FALSE
  <2>0. ring = <<>> /\ cb.pc = "idle" /\ Len(ring) = 0
    BY <1>4 DEF IfOK
  <2>1. NetType'
    <3>1. /\ memptr' \in [Blk -> BOOLEAN] /\ numBlks' \in [Blk -> {0, 1}]
          /\ blkidx' \in 0 .. PoolSize /\ poolUp' = TRUE
      BY <1>4, NetAssumption DEF MempoolCreate
    <3>. QED
      BY <1>0, <1>4, <3>1, NetAssumption DEF NetType, TxQid
  <2>2. Marked'
    <3>1. \A b \in Blk : ~memptr'[b]
      BY <1>4 DEF MempoolCreate
    <3>2. \A b : ~InRing(b)
      BY <2>0 DEF InRing
    <3>3. ~XmitHolds' /\ ~CbHolds' /\ \A b : ~InRing(b)'
      BY <1>0, <2>0, <3>2, StillBlocks DEF CbHolds
    <3>. QED
      BY <3>1, <3>3 DEF Marked
  <2>3. IfOK'
    BY <1>0, <1>4 DEF IfOK, MempoolCreate
  <2>4. Youngest'
    BY <1>0, <1>4, <2>0, StillBlocks DEF Youngest, CbHolds
  <2>. QED
    BY <1>2, <2>1, <2>2, <2>3, <2>4
<1>5. CASE /\ hndl' \in {hndl, TxQid}
           /\ UNCHANGED <<ifState, h2cq, sendFailed, memptr, numBlks, blkidx>>
           /\ poolUp' \in {poolUp, FALSE}
  <2>1. NetType'
    <3>0. hndl' \in Nat
      BY <1>5 DEF NetType, TxQid
    <3>1. hndl' \in Nat /\ poolUp' \in BOOLEAN
      BY <1>5, <3>0, Zenon DEF NetType
    <3>2. UNCHANGED <<ifState, h2cq, sendFailed, memptr, numBlks, blkidx>>
      BY <1>5
    <3>. QED
      BY <1>0, <3>1, <3>2 DEF NetType
  <2>2. Marked' /\ Youngest'
    BY <1>0, <1>5, StillInv
  <2>3. IfOK'
    BY <1>0, <1>5 DEF IfOK
  <2>. QED
    BY <1>2, <2>1, <2>2, <2>3
<1>. QED
  BY <1>4, <1>5 DEF NetOpenTx, netPool

\* The other steps of an open or a close leave the blocks alone.
LEMMA IfPool ==
    ASSUME PoolInv, NetOpenRx \/ NetClose \/ NetFreeTx \/ NetFreeRx
    PROVE  PoolInv'
<1>. USE XmitFacts DEF PoolInv
<1>0. /\ UNCHANGED <<memptr, numBlks, blkidx, scan, xmit, sendFailed, refused>>
      /\ UNCHANGED <<cb, ctx, ring, owner, stray>>
  BY DEF NetOpenRx, NetClose, NetFreeTx, NetFreeRx, netPool, netTx
<1>1. /\ ifState' \in {"down", "opening", "up", "closing"}
      /\ hndl' \in Nat /\ h2cq' \in BOOLEAN /\ c2hq' \in BOOLEAN /\ poolUp' \in BOOLEAN
  <2>0. hndl \in Nat /\ h2cq \in BOOLEAN /\ c2hq \in BOOLEAN /\ poolUp \in BOOLEAN
    BY DEF NetType
  <2>1. CASE NetOpenRx
    BY <2>0, <2>1 DEF NetOpenRx, netPool
  <2>2. CASE NetClose
    BY <2>0, <2>2 DEF NetClose, netPool
  <2>3. CASE NetFreeTx
    <3>1. h2cq' = FALSE \/ h2cq' = h2cq
      BY <2>3 DEF NetFreeTx
    <3>. QED
      BY <2>0, <2>3, <3>1 DEF NetFreeTx
  <2>4. CASE NetFreeRx
    BY <2>0, <2>4 DEF NetFreeRx, netPool
  <2>. QED
    BY <2>1, <2>2, <2>3, <2>4
<1>2. NetType'
  BY <1>0, <1>1 DEF NetType
<1>3. ScanOK' /\ UsedOnce' /\ Marked' /\ SkbOK' /\ Youngest'
  BY <1>0, StillInv
<1>4. IfOK'
  <2>1. xmit' = xmit /\ cb' = cb /\ ring' = ring
    BY <1>0 DEF netTx
  <2>2. CASE NetOpenRx
    BY <2>1, <2>2 DEF NetOpenRx, IfOK, netPool
  <2>3. CASE NetClose
    BY <2>1, <2>3 DEF NetClose, IfOK, netPool
  <2>4. CASE NetFreeTx
    BY <2>1, <2>4 DEF NetFreeTx, IfOK
  <2>5. CASE NetFreeRx
    BY <2>1, <2>5 DEF NetFreeRx, IfOK, netPool
  <2>. QED
    BY <2>2, <2>3, <2>4, <2>5
<1>. QED
  BY <1>2, <1>3, <1>4

LEMMA PoolStep == PoolInv /\ [NetNext]_netVars /\ ~stray' => PoolInv'
<1>. SUFFICES ASSUME PoolInv, [NetNext]_netVars, ~stray'
              PROVE  PoolInv'
  OBVIOUS
<1>1. CASE \E s \in Skb : NetXmit(s)
  BY <1>1, XmitPool
<1>2. CASE NetScan
  BY <1>2, ScanPool
<1>3. CASE NetScanEnds
  BY <1>3, ScanEndsPool
<1>4. CASE NetBuild
  BY <1>4, BuildPool
<1>5. CASE NetSubmit
  BY <1>5, SubmitPool
<1>6. CASE NetUndo
  BY <1>6, UndoPool
<1>7. CASE NetDrop
  BY <1>7, DropPool
<1>8. CASE NetComplete
  BY <1>8, CompletePool
<1>9. CASE NetCompleteCb
  <2>1. poolUp
    BY <1>9 DEF NetCompleteCb, PoolInv, NetType
  <2>. QED
    BY <1>9, <2>1, CompleteCbPool
<1>10. CASE NetOpenTx
  BY <1>10, OpenTxPool
<1>11. CASE NetOpenRx \/ NetClose \/ NetFreeTx \/ NetFreeRx
  BY <1>11, IfPool
<1>12. CASE UNCHANGED netVars
  <2>0. /\ UNCHANGED <<ifState, hndl, h2cq, c2hq, poolUp, memptr, numBlks, blkidx>>
        /\ UNCHANGED <<scan, xmit, sendFailed, refused, cb, ctx, ring, owner, stray>>
    BY <1>12 DEF netVars, netIf, netPool, netTx
  <2>1. ScanOK' /\ UsedOnce' /\ Marked' /\ SkbOK' /\ Youngest'
    BY <2>0, StillInv
  <2>2. NetType' /\ IfOK'
    BY <2>0 DEF PoolInv, NetType, IfOK
  <2>. QED
    BY <2>1, <2>2 DEF PoolInv
<1>. QED
  BY <1>1, <1>2, <1>3, <1>4, <1>5, <1>6, <1>7, <1>8, <1>9, <1>10, <1>11, <1>12 DEF NetNext

\* The first use of a freed pool: only the callback comes to it.
LEMMA StrayStep ==
    ASSUME PoolInv, ~stray, [NetNext]_netVars, stray'
    PROVE  Gone'
<1>. USE DEF PoolInv
<1>1. ASSUME ~poolUp, xmit.pc # "idle"
      PROVE  FALSE
  BY <1>1 DEF IfOK
<1>2. ~poolUp /\ NetCompleteCb
  <2>1. stray' # stray
    OBVIOUS
  <2>2. CASE NetScan
    BY <1>1, <2>1, <2>2 DEF NetScan
  <2>3. CASE NetUndo
    BY <1>1, <2>1, <2>3 DEF NetUndo
  <2>4. CASE NetCompleteCb
    BY <2>1, <2>4 DEF NetCompleteCb
  <2>5. CASE \/ \E s \in Skb : NetXmit(s)
             \/ NetScanEnds \/ NetBuild \/ NetSubmit \/ NetDrop \/ NetComplete
    BY <2>1, <2>5 DEF NetXmit, NetScanEnds, NetBuild, NetSubmit, NetDrop, NetComplete
  <2>6. CASE NetOpenTx \/ NetOpenRx \/ NetClose \/ NetFreeTx \/ NetFreeRx
    BY <2>1, <2>6 DEF NetOpenTx, NetOpenRx, NetClose, NetFreeTx, NetFreeRx
  <2>7. CASE UNCHANGED netVars
    BY <2>1, <2>7 DEF netVars
  <2>. QED
    BY <2>2, <2>3, <2>4, <2>5, <2>6, <2>7 DEF NetNext
<1>3. cb.pc # "idle" /\ UNCHANGED <<ifState, h2cq, poolUp, xmit, refused>>
  BY <1>2 DEF NetCompleteCb, netIf, netTx
<1>4. h2cq /\ ifState \in {"closing", "down"} /\ xmit.pc = "idle" /\ refused # "early"
  <2>1. h2cq
    BY <1>3 DEF IfOK, NetType
  <2>2. ifState \in {"closing", "down"}
    BY <1>2 DEF IfOK, NetType
  <2>3. xmit.pc = "idle" /\ refused # "early"
    BY <1>1, <1>2 DEF Youngest
  <2>. QED
    BY <2>1, <2>2, <2>3
<1>. QED
  BY <1>2, <1>3, <1>4 DEF Gone

\* After it the interface stays down: its queue's index is in use for ever.
LEMMA GoneStays ==
    ASSUME Gone, stray, [NetNext]_netVars
    PROVE  Gone' /\ stray'
<1>. USE DEF Gone
<1>1. CASE \/ \E s \in Skb : NetXmit(s)
           \/ NetScan \/ NetScanEnds \/ NetBuild \/ NetSubmit \/ NetUndo \/ NetDrop
           \/ NetClose \/ NetOpenRx \/ NetFreeTx
  BY <1>1 DEF NetXmit, NetScan, NetScanEnds, NetBuild, NetSubmit, NetUndo, NetDrop,
              NetClose, NetOpenRx, NetFreeTx
<1>2. CASE NetComplete \/ NetCompleteCb
  <2>1. UNCHANGED <<ifState, h2cq, poolUp, xmit, refused>>
    BY <1>2 DEF NetComplete, NetCompleteCb, netIf, netPool, netTx
  <2>2. stray'
    BY <1>2 DEF NetComplete, NetCompleteCb
  <2>. QED
    BY <2>1, <2>2
<1>3. CASE NetOpenTx
  BY <1>3 DEF NetOpenTx
<1>4. CASE NetFreeRx
  BY <1>4 DEF NetFreeRx, netPool, netTx
<1>5. CASE UNCHANGED netVars
  BY <1>5 DEF netVars, netIf, netPool, netTx
<1>. QED
  BY <1>1, <1>2, <1>3, <1>4, <1>5 DEF NetNext

LEMMA StrayType ==
    ASSUME NetInv, [NetNext]_netVars
    PROVE  stray' \in BOOLEAN
BY DEF NetInv, NetNext, netVars, NetXmit, NetScan, NetScanEnds, NetBuild, NetSubmit,
       NetUndo, NetDrop, NetComplete, NetCompleteCb, NetOpenTx, NetOpenRx, NetClose,
       NetFreeTx, NetFreeRx

LEMMA NetStep == NetInv /\ [NetNext]_netVars => NetInv'
<1>. SUFFICES ASSUME NetInv, [NetNext]_netVars
              PROVE  NetInv'
  OBVIOUS
<1>1. stray' \in BOOLEAN
  BY StrayType
<1>2. CASE stray
  BY <1>2, GoneStays DEF NetInv
<1>3. CASE ~stray /\ stray'
  BY <1>3, <1>1, StrayStep DEF NetInv
<1>4. CASE ~stray /\ ~stray'
  BY <1>4, <1>1, PoolStep DEF NetInv
<1>. QED
  BY <1>1, <1>2, <1>3, <1>4 DEF NetInv

LEMMA NetInductive == NetSpec => []NetInv
BY NetInitInv, NetStep, PTL DEF NetSpec

-----------------------------------------------------------------------------
(* What follows of the pool. *)

LEMMA AddOne ==
    ASSUME NEW S, IsFiniteSet(S), NEW x, NEW p \in BOOLEAN, p => x \notin S
    PROVE  LET T == S \cup (IF p THEN {x} ELSE {})
           IN  IsFiniteSet(T) /\ Cardinality(T) = Cardinality(S) + (IF p THEN 1 ELSE 0)
<1>1. Cardinality(S) \in Nat
  BY FS_CardinalityType
<1>2. CASE p
  BY <1>2, FS_AddElement
<1>3. CASE ~p
  <2>1. S \cup {} = S
    OBVIOUS
  <2>. QED
    BY <1>1, <1>3, <2>1
<1>. QED
  BY <1>2, <1>3

LEMMA TwoUsers ==
    ASSUME NEW p \in BOOLEAN, NEW q \in BOOLEAN
    PROVE  Cardinality({t \in {"x", "c"} : (t = "x" /\ p) \/ (t = "c" /\ q)})
             = (IF p THEN 1 ELSE 0) + (IF q THEN 1 ELSE 0)
<1>. DEFINE U == {t \in {"x", "c"} : (t = "x" /\ p) \/ (t = "c" /\ q)}
            X == {} \cup (IF p THEN {"x"} ELSE {})
<1>1. U = X \cup (IF q THEN {"c"} ELSE {})
  OBVIOUS
<1>2. IsFiniteSet({}) /\ Cardinality({}) = 0
  BY FS_EmptySet
<1>3. IsFiniteSet(X) /\ Cardinality(X) = 0 + (IF p THEN 1 ELSE 0)
  BY <1>2, AddOne
<1>4. q => "c" \notin X
  OBVIOUS
<1>5. Cardinality(X \cup (IF q THEN {"c"} ELSE {})) = Cardinality(X) + (IF q THEN 1 ELSE 0)
  BY <1>3, <1>4, AddOne
<1>6. Cardinality(U) = (IF p THEN 1 ELSE 0) + (IF q THEN 1 ELSE 0)
  <2>. HIDE DEF U, X
  <2>. QED
    BY <1>1, <1>3, <1>5
<1>. QED
  BY <1>6

\* The pool and its users agree: what is live is marked and counted, and no
\* block is live twice.
LEMMA LiveOnce == PoolInv => ContextHeldOnce
<1>. SUFFICES ASSUME PoolInv PROVE ContextHeldOnce
  OBVIOUS
<1>. USE XmitFacts DEF PoolInv
<1>. DEFINE R == {ring[k] : k \in DOMAIN ring}
            p == xmit.pc \in {"build", "submit", "free"}
            q == cb.pc \in {"called", "free"}
            X == R \cup (IF p THEN {xmit.blk} ELSE {})
            L == X \cup (IF q THEN {cb.blk} ELSE {})
<1>1. ring \in Seq(Blk) /\ DOMAIN ring = 1 .. Len(ring) /\ Len(ring) \in Nat
  BY DEF NetType
<1>2. \A b : b \in R <=> InRing(b)
  BY <1>1 DEF InRing
<1>3. IsFiniteSet(R) /\ Cardinality(R) = Len(ring)
  BY <1>1, RingCount DEF UsedOnce
<1>4. p => xmit.blk \notin R
  BY <1>2 DEF UsedOnce, XmitHolds
<1>5. q => cb.blk \notin X
  BY <1>2 DEF UsedOnce, XmitHolds, CbHolds
<1>6. LiveCtx = L
  BY DEF LiveCtx
<1>7. IsFiniteSet(X) /\ Cardinality(X) = Len(ring) + (IF p THEN 1 ELSE 0)
  <2>. HIDE DEF R, p
  <2>1. p \in BOOLEAN
    BY DEF p
  <2>. QED
    BY <1>3, <1>4, <2>1, AddOne
<1>8. Cardinality(L) = Len(ring) + ((IF p THEN 1 ELSE 0) + (IF q THEN 1 ELSE 0))
  <2>. HIDE DEF X, p, q
  <2>1. q \in BOOLEAN
    BY DEF q
  <2>2. Cardinality(L) = Cardinality(X) + (IF q THEN 1 ELSE 0)
    BY <1>5, <1>7, <2>1, AddOne
  <2>3. Cardinality(X) = Len(ring) + (IF p THEN 1 ELSE 0)
    BY <1>7
  <2>. HIDE DEF L
  <2>4. CASE p
    BY <1>1, <2>2, <2>3, <2>4
  <2>5. CASE ~p
    BY <1>1, <2>2, <2>3, <2>5
  <2>. QED
    BY <2>4, <2>5
<1>9. Cardinality({t \in {"x", "c"} : (t = "x" /\ p) \/ (t = "c" /\ q)})
         = (IF p THEN 1 ELSE 0) + (IF q THEN 1 ELSE 0)
  BY TwoUsers
<1>10. \A b \in L : memptr[b] /\ numBlks[b] = NumBlks
  <2>. SUFFICES ASSUME NEW b \in L PROVE memptr[b] /\ numBlks[b] = 1
    BY DEF NumBlks
  <2>1. b \in Blk /\ (InRing(b) \/ (p /\ b = xmit.blk) \/ (q /\ b = cb.blk))
    BY <1>1, <1>2
  <2>2. InRing(b) \/ (XmitHolds /\ b = xmit.blk) \/ (CbHolds /\ b = cb.blk)
    BY <2>1 DEF XmitHolds, CbHolds
  <2>3. ~(xmit.pc = "free2" /\ b = xmit.blk) /\ ~(cb.pc = "free2" /\ b = cb.blk)
    BY <2>1 DEF UsedOnce, XmitHolds, CbHolds
  <2>. QED
    BY <2>1, <2>2, <2>3 DEF Marked
<1>11. \A b \in LiveCtx : memptr[b] /\ numBlks[b] = NumBlks
  BY <1>6, <1>10
<1>12. Cardinality(LiveCtx) = Len(ring) + Cardinality({t \in {"x", "c"} : (t = "x" /\ p) \/ (t = "c" /\ q)})
  BY <1>6, <1>8, <1>9
<1>. HIDE DEF L, X, R, p, q
<1>13. {t \in {"x", "c"} : (t = "x" /\ p) \/ (t = "c" /\ q)}
         = {t \in {"x", "c"} :
              \/ t = "x" /\ xmit.pc \in {"build", "submit", "free"}
              \/ t = "c" /\ cb.pc \in {"called", "free"}}
  BY DEF p, q
<1>. QED
  BY <1>11, <1>12, <1>13 DEF ContextHeldOnce

\* A packet in the driver is behind one block, or in the transmitting thread.
LEMMA SkbOnce == PoolInv => SkbHeldOnce
<1>. SUFFICES ASSUME PoolInv PROVE SkbHeldOnce
  OBVIOUS
<1>. USE XmitFacts DEF PoolInv
<1>. DEFINE done == {ring[k] : k \in DOMAIN ring}
                      \cup (IF cb.pc = "called" THEN {cb.blk} ELSE {})
            toXmit == IF xmit.pc = "idle" THEN {} ELSE {xmit.skb}
<1>1. ring \in Seq(Blk) /\ DOMAIN ring = 1 .. Len(ring)
  BY DEF NetType
<1>2. \A b : b \in done <=> b \in Blk /\ Done(b)
  BY <1>1 DEF Done, InRing
<1>3. \A s : s \in toXmit <=> xmit.pc # "idle" /\ s = xmit.skb
  OBVIOUS
<1>. HIDE DEF done, toXmit
<1>4. \A s \in Skb : owner[s] = "driver" <=> s \in toXmit \/ \E b \in done : ctx[b] = s
  BY <1>2, <1>3 DEF SkbOK
<1>5. \A b, c \in done : ctx[b] = ctx[c] => b = c
  BY <1>2 DEF SkbOK
<1>6. \A b \in done : ctx[b] \notin toXmit
  BY <1>2, <1>3 DEF SkbOK
<1>. QED
  BY <1>4, <1>5, <1>6 DEF SkbHeldOnce, done, toXmit

-----------------------------------------------------------------------------
(* The theorems. *)

\* No two users of the pool hold one block, and a block in use is marked: a
\* scan that runs while the callback clears the pool never hands out the
\* context of a request in flight.
THEOREM ContextIsHeldOnce == NetSpec => []ContextHeldOnce
<1>1. NetInv => ContextHeldOnce
  BY LiveOnce DEF NetInv, ContextHeldOnce
<1>. QED
  BY <1>1, NetInductive, PTL

\* A packet the driver took is freed by exactly one of the transmitting
\* thread and the callback of the one context that points to it.
THEOREM SkbIsHeldOnce == NetSpec => []SkbHeldOnce
<1>1. NetInv => SkbHeldOnce
  BY SkbOnce DEF NetInv, SkbHeldOnce
<1>. QED
  BY <1>1, NetInductive, PTL

\* Unless a submission failed, a packet is dropped for want of a context only
\* while the context handed out last is still in use.
THEOREM RefusesOnlyBehindBacklog == NetSpec => []RefusedOnlyBehindBacklog
<1>1. NetInv => RefusedOnlyBehindBacklog
  BY DEF NetInv, Gone, PoolInv, Youngest, RefusedOnlyBehindBacklog
<1>. QED
  BY <1>1, NetInductive, PTL

\* No request of an earlier life of the interface meets a new pool, although a
\* close leaves the queue with requests in it and frees the pool: the queue's
\* index stays in use, and no later open succeeds.
THEOREM LivesAreApart == NetSpec => []LivesApart
<1>1. NetInv => LivesApart
  BY DEF NetInv, Gone, PoolInv, IfOK, LivesApart
<1>. QED
  BY <1>1, NetInductive, PTL
=============================================================================
