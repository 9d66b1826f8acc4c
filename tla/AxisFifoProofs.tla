--------------------------- MODULE AxisFifoProofs ---------------------------
(***************************************************************************)
(* The packet FIFO is a queue of at most Depth beats, for every depth and  *)
(* every kind of beat.  The flags are exact because a write that fills and *)
(* a read that empties are the only steps after which the pointers meet;   *)
(* given that, each clock edge puts and gets what BeatQueue puts and gets. *)
(***************************************************************************)
EXTENDS AxisFifo, TLAPS

Fifo == [ mem: [Addr -> Beat], wr_ptr: Addr, rd_ptr: Addr,
          full: BOOLEAN, empty: BOOLEAN, tlast_rd: BOOLEAN ]

Exact(f) ==
    /\ ~(f.full /\ f.empty)
    /\ (f.full \/ f.empty) <=> f.wr_ptr = f.rd_ptr

\* The inductive invariant: the registers hold what they can, and the flags
\* tell what the pointers leave open.
FifoInv == fifo \in Fifo /\ Exact(fifo)

-----------------------------------------------------------------------------
(* The pointers. *)

LEMMA IncrType == \A p \in Addr : Incr(p) \in Addr
BY DepthAssumption, SMT DEF Incr, Addr

LEMMA PlaceType == \A p \in Addr, i \in 1 .. Depth : Place(p, i) \in Addr
BY DepthAssumption, SMT DEF Place, Addr

\* Walking on from the next word is walking one word further.
LEMMA PlaceIncr ==
    \A p \in Addr, i \in 1 .. Depth - 1 : Place(Incr(p), i) = Place(p, i + 1)
BY DepthAssumption, SMT DEF Place, Incr, Addr

LEMMA PlaceFirst == \A p \in Addr : Place(p, 1) = p
BY DepthAssumption, SMT DEF Place, Addr

\* Count is what the flags say at the two ends.
LEMMA CountBounds ==
    ASSUME NEW f \in Fifo, Exact(f)
    PROVE  /\ Count(f) \in 0 .. Depth
           /\ f.full <=> Count(f) = Depth
           /\ f.empty <=> Count(f) = 0
<1>1. f.wr_ptr \in Addr /\ f.rd_ptr \in Addr /\ f.full \in BOOLEAN /\ f.empty \in BOOLEAN
  BY DEF Fifo
<1>. QED
  BY <1>1, DepthAssumption, SMT DEF Count, Exact, Addr

\* The write pointer is the place behind the last beat, and no beat is there.
LEMMA PlaceLast ==
    ASSUME NEW f \in Fifo, Exact(f), ~f.full
    PROVE  /\ Place(f.rd_ptr, Count(f) + 1) = f.wr_ptr
           /\ \A i \in 1 .. Count(f) : Place(f.rd_ptr, i) # f.wr_ptr
<1>1. f.wr_ptr \in Addr /\ f.rd_ptr \in Addr /\ f.full \in BOOLEAN /\ f.empty \in BOOLEAN
  BY DEF Fifo
<1>. QED
  BY <1>1, DepthAssumption, SMT DEF Count, Exact, Addr, Place

-----------------------------------------------------------------------------
(* One clock edge. *)

\* What an edge needs to know of the registers before it.
LEMMA Registers ==
    ASSUME NEW f \in Fifo
    PROVE  /\ f.mem \in [Addr -> Beat]
           /\ f.wr_ptr \in Addr /\ f.rd_ptr \in Addr
           /\ f.full \in BOOLEAN /\ f.empty \in BOOLEAN /\ f.tlast_rd \in BOOLEAN
BY DEF Fifo

\* Nothing is written into a full memory and nothing read from an empty one.
LEMMA Handshakes ==
    ASSUME NEW f \in Fifo, NEW tvalid \in BOOLEAN, NEW tready \in BOOLEAN
    PROVE  /\ WriteEn(f, tvalid) \in BOOLEAN /\ ReadEn(f, tready) \in BOOLEAN
           /\ WriteEn(f, tvalid) => ~f.full
           /\ ReadEn(f, tready) => ~f.empty
BY Registers, Zenon DEF WriteEn, ReadEn, SReady, MValid

LEMMA ClockType ==
    ASSUME NEW f \in Fifo, NEW tvalid \in BOOLEAN, NEW tready \in BOOLEAN, NEW beat \in Beat
    PROVE  Clock(f, tvalid, beat, tready) \in Fifo
<1> DEFINE w == WriteEn(f, tvalid)
           r == ReadEn(f, tready)
<1>1. w \in BOOLEAN /\ r \in BOOLEAN
  BY Handshakes
<1>2. NextFull(f, w, r) \in BOOLEAN /\ NextEmpty(f, w, r) \in BOOLEAN
  <2> HIDE DEF w, r
  <2>. QED BY <1>1, Registers, Zenon DEF NextFull, NextEmpty
<1>3. /\ (IF w THEN Incr(f.wr_ptr) ELSE f.wr_ptr) \in Addr
      /\ (IF r THEN Incr(f.rd_ptr) ELSE f.rd_ptr) \in Addr
  <2> HIDE DEF w, r
  <2>. QED BY Registers, IncrType
<1>4. (IF w THEN [f.mem EXCEPT ![f.wr_ptr] = beat] ELSE f.mem) \in [Addr -> Beat]
  <2> HIDE DEF w, r
  <2>. QED BY Registers
<1>5. (r /\ f.mem[f.rd_ptr].tlast) \in BOOLEAN
  <2>1. f.mem[f.rd_ptr].tlast \in BOOLEAN
    BY Registers, BeatAssumption
  <2> HIDE DEF w, r
  <2>. QED BY <1>1, <2>1, Zenon
<1>6. Clock(f, tvalid, beat, tready) =
        [ mem      |-> IF w THEN [f.mem EXCEPT ![f.wr_ptr] = beat] ELSE f.mem,
          wr_ptr   |-> IF w THEN Incr(f.wr_ptr) ELSE f.wr_ptr,
          rd_ptr   |-> IF r THEN Incr(f.rd_ptr) ELSE f.rd_ptr,
          full     |-> NextFull(f, w, r),
          empty    |-> NextEmpty(f, w, r),
          tlast_rd |-> r /\ f.mem[f.rd_ptr].tlast ]
  BY DEF Clock
<1> HIDE DEF w, r
<1>. QED BY <1>2, <1>3, <1>4, <1>5, <1>6 DEF Fifo

\* The registers after an edge, by name.
LEMMA ClockFields ==
    ASSUME NEW f, NEW tvalid, NEW tready, NEW beat
    PROVE  LET g == Clock(f, tvalid, beat, tready)
               w == WriteEn(f, tvalid)
               r == ReadEn(f, tready)
           IN  /\ g.mem = IF w THEN [f.mem EXCEPT ![f.wr_ptr] = beat] ELSE f.mem
               /\ g.wr_ptr = IF w THEN Incr(f.wr_ptr) ELSE f.wr_ptr
               /\ g.rd_ptr = IF r THEN Incr(f.rd_ptr) ELSE f.rd_ptr
               /\ g.full = NextFull(f, w, r)
               /\ g.empty = NextEmpty(f, w, r)
BY Zenon DEF Clock

\* The flags after an edge, by the handshakes of the cycle.
LEMMA ClockFlags ==
    ASSUME NEW f \in Fifo,
           NEW tvalid \in BOOLEAN, NEW tready \in BOOLEAN, NEW beat \in Beat
    PROVE  LET g == Clock(f, tvalid, beat, tready)
               w == WriteEn(f, tvalid)
               r == ReadEn(f, tready)
           IN  /\ (w <=> r) => (g.full <=> f.full) /\ (g.empty <=> f.empty)
               /\ w /\ ~r => (g.full <=> Incr(f.wr_ptr) = f.rd_ptr) /\ ~g.empty
               /\ ~w /\ r => (g.empty <=> Incr(f.rd_ptr) = f.wr_ptr) /\ ~g.full
<1> DEFINE w == WriteEn(f, tvalid)
           r == ReadEn(f, tready)
           g == Clock(f, tvalid, beat, tready)
<1>1. g.full = NextFull(f, w, r) /\ g.empty = NextEmpty(f, w, r)
  BY Zenon DEF Clock
<1>2. w \in BOOLEAN /\ r \in BOOLEAN /\ (w => ~f.full) /\ (r => ~f.empty)
  BY Handshakes
<1>3. f.full \in BOOLEAN /\ f.empty \in BOOLEAN
  BY Registers
<1> HIDE DEF w, r, g
<1>4. (w <=> r) => (g.full <=> f.full) /\ (g.empty <=> f.empty)
  BY <1>1, <1>2, <1>3, Zenon DEF NextFull, NextEmpty
<1>5. w /\ ~r => (g.full <=> Incr(f.wr_ptr) = f.rd_ptr) /\ ~g.empty
  BY <1>1, <1>2, <1>3, Zenon DEF NextFull, NextEmpty
<1>6. ~w /\ r => (g.empty <=> Incr(f.rd_ptr) = f.wr_ptr) /\ ~g.full
  BY <1>1, <1>2, <1>3, Zenon DEF NextFull, NextEmpty
<1>. QED BY <1>4, <1>5, <1>6 DEF w, r, g

\* The prediction is exact: a write alone makes the pointers meet only when it
\* fills, a read alone only when it empties, both move them together.  The
\* number of beats goes up with a write and down with a read.
LEMMA ClockExact ==
    ASSUME NEW f \in Fifo, Exact(f),
           NEW tvalid \in BOOLEAN, NEW tready \in BOOLEAN, NEW beat \in Beat
    PROVE  /\ Exact(Clock(f, tvalid, beat, tready))
           /\ Count(Clock(f, tvalid, beat, tready)) =
                Count(f) + (IF WriteEn(f, tvalid) THEN 1 ELSE 0)
                         - (IF ReadEn(f, tready) THEN 1 ELSE 0)
<1> DEFINE w == WriteEn(f, tvalid)
           r == ReadEn(f, tready)
           g == Clock(f, tvalid, beat, tready)
           Result == Exact(g) /\ Count(g) = Count(f) + (IF w THEN 1 ELSE 0)
                                                     - (IF r THEN 1 ELSE 0)
<1>1. /\ g.wr_ptr = IF w THEN Incr(f.wr_ptr) ELSE f.wr_ptr
      /\ g.rd_ptr = IF r THEN Incr(f.rd_ptr) ELSE f.rd_ptr
  BY Zenon DEF Clock
<1>2. /\ (w <=> r) => (g.full <=> f.full) /\ (g.empty <=> f.empty)
      /\ w /\ ~r => (g.full <=> Incr(f.wr_ptr) = f.rd_ptr) /\ ~g.empty
      /\ ~w /\ r => (g.empty <=> Incr(f.rd_ptr) = f.wr_ptr) /\ ~g.full
  BY ClockFlags
<1>3. w \in BOOLEAN /\ r \in BOOLEAN /\ (w => ~f.full) /\ (r => ~f.empty)
  BY Handshakes
<1>4. /\ f.wr_ptr \in 0 .. Depth - 1 /\ f.rd_ptr \in 0 .. Depth - 1
      /\ f.full \in BOOLEAN /\ f.empty \in BOOLEAN /\ Depth \in Nat /\ Depth > 1
  BY Registers, DepthAssumption DEF Addr
<1>5. ~(f.full /\ f.empty) /\ ((f.full \/ f.empty) <=> f.wr_ptr = f.rd_ptr)
  BY DEF Exact
<1> HIDE DEF w, r, g
<1>6. ASSUME w, r PROVE Result
  <2>1. /\ g.wr_ptr = Incr(f.wr_ptr) /\ g.rd_ptr = Incr(f.rd_ptr)
        /\ g.full <=> f.full
        /\ g.empty <=> f.empty
    BY <1>1, <1>2, <1>6
  <2>. QED BY <2>1, <1>3, <1>4, <1>5, <1>6, SMT DEF Incr, Exact, Count
<1>7. ASSUME w, ~r PROVE Result
  <2>1. /\ g.wr_ptr = Incr(f.wr_ptr) /\ g.rd_ptr = f.rd_ptr
        /\ g.full <=> Incr(f.wr_ptr) = f.rd_ptr
        /\ ~g.empty
    BY <1>1, <1>2, <1>7
  <2>. QED BY <2>1, <1>3, <1>4, <1>5, <1>7, SMT DEF Incr, Exact, Count
<1>8. ASSUME ~w, r PROVE Result
  <2>1. /\ g.wr_ptr = f.wr_ptr /\ g.rd_ptr = Incr(f.rd_ptr)
        /\ g.empty <=> Incr(f.rd_ptr) = f.wr_ptr
        /\ ~g.full
    BY <1>1, <1>2, <1>8
  <2>. QED BY <2>1, <1>3, <1>4, <1>5, <1>8, SMT DEF Incr, Exact, Count
<1>9. ASSUME ~w, ~r PROVE Result
  <2>1. /\ g.wr_ptr = f.wr_ptr /\ g.rd_ptr = f.rd_ptr
        /\ g.full <=> f.full
        /\ g.empty <=> f.empty
    BY <1>1, <1>2, <1>9
  <2>. QED BY <2>1, <1>3, <1>4, <1>5, <1>9, SMT DEF Exact, Count
<1> HIDE DEF Result
<1>10. Result
  BY <1>3, <1>6, <1>7, <1>8, <1>9
<1>. QED BY <1>10 DEF Result, w, r, g

-----------------------------------------------------------------------------
(* The flags. *)

\* The inductive invariant holds initially and after every edge.
THEOREM FifoInvHolds == FifoSpec => []FifoInv
<1>1. FifoInit => FifoInv
  BY DepthAssumption, SMT DEF FifoInit, Reset, FifoInv, Fifo, Exact, Addr
<1>2. FifoInv /\ [FifoTick]_fifo => FifoInv'
  <2> SUFFICES ASSUME FifoInv, [FifoTick]_fifo PROVE FifoInv'
    OBVIOUS
  <2>1. CASE FifoTick
    <3>1. PICK tvalid \in BOOLEAN, tready \in BOOLEAN, beat \in Beat :
            fifo' = Clock(fifo, tvalid, beat, tready)
      BY <2>1 DEF FifoTick
    <3>2. Clock(fifo, tvalid, beat, tready) \in Fifo
      BY ClockType DEF FifoInv
    <3>3. Exact(Clock(fifo, tvalid, beat, tready))
      BY ClockExact DEF FifoInv
    <3>. QED BY <3>1, <3>2, <3>3 DEF FifoInv
  <2>2. CASE UNCHANGED fifo
    BY <2>2 DEF FifoInv
  <2>. QED BY <2>1, <2>2
<1>. QED BY <1>1, <1>2, PTL DEF FifoSpec

\* The predicted flags are the ones the pointers tell (FlagsExact), for every
\* depth of the memory: no cycle of axis_fifo.sv sets full_reg or empty_reg
\* although the pointers differ, or leaves both clear although they are equal.
THEOREM FlagsAreExact == FifoSpec => []FlagsExact
<1>1. FifoInv => FlagsExact
  BY DEF FifoInv, Exact, FlagsExact
<1>. QED BY <1>1, FifoInvHolds, PTL

-----------------------------------------------------------------------------
(* The beats. *)

\* The abstraction is a sequence of beats, as long as the count.
LEMMA ContentsSeq ==
    ASSUME NEW f \in Fifo, Exact(f)
    PROVE  /\ Contents(f) \in Seq(Beat)
           /\ Len(Contents(f)) = Count(f)
           /\ \A i \in 1 .. Count(f) : Contents(f)[i] = f.mem[Place(f.rd_ptr, i)]
<1>1. Count(f) \in Nat
  BY CountBounds, DepthAssumption, SMT
<1>2. \A i \in 1 .. Count(f) : f.mem[Place(f.rd_ptr, i)] \in Beat
  <2>1. \A i \in 1 .. Count(f) : i \in 1 .. Depth
    BY CountBounds, DepthAssumption, SMT
  <2>. QED BY <2>1, PlaceType, Registers
<1>. QED BY <1>1, <1>2, SMT DEF Contents

\* Two sequences of one length with the same elements are the same.
LEMMA SameSeq ==
    ASSUME NEW s \in Seq(Beat), NEW t \in Seq(Beat), Len(s) = Len(t),
           \A i \in 1 .. Len(s) : s[i] = t[i]
    PROVE  s = t
BY SMT

\* Where a beat of the sequence after an edge comes from: one place further on
\* if a beat was read, or from the write if it is the last.
LEMMA ClockContents ==
    ASSUME NEW f \in Fifo, Exact(f),
           NEW tvalid \in BOOLEAN, NEW tready \in BOOLEAN, NEW beat \in Beat,
           NEW i \in 1 .. Count(Clock(f, tvalid, beat, tready))
    PROVE  LET k == IF ReadEn(f, tready) THEN i + 1 ELSE i
           IN  Contents(Clock(f, tvalid, beat, tready))[i] =
                 IF k <= Count(f) THEN Contents(f)[k] ELSE beat
<1> DEFINE w == WriteEn(f, tvalid)
           r == ReadEn(f, tready)
           g == Clock(f, tvalid, beat, tready)
           k == IF r THEN i + 1 ELSE i
<1>1. /\ g.mem = IF w THEN [f.mem EXCEPT ![f.wr_ptr] = beat] ELSE f.mem
      /\ g.rd_ptr = IF r THEN Incr(f.rd_ptr) ELSE f.rd_ptr
  BY ClockFields
<1>2. w \in BOOLEAN /\ r \in BOOLEAN /\ (w => ~f.full) /\ (r => ~f.empty)
  BY Handshakes
<1>3. g \in Fifo /\ Exact(g)
  BY ClockType, ClockExact
<1>4. Count(g) = Count(f) + (IF w THEN 1 ELSE 0) - (IF r THEN 1 ELSE 0)
  BY ClockExact
<1>5. Count(f) \in 0 .. Depth /\ Count(g) \in 0 .. Depth /\ (f.full <=> Count(f) = Depth)
  BY <1>3, CountBounds
<1>6. Contents(g)[i] = g.mem[Place(g.rd_ptr, i)]
  BY <1>3, ContentsSeq
<1> HIDE DEF w, r, g
<1>7. i \in 1 .. Count(g)
  BY DEF g
<1>8. k \in 1 .. Depth /\ k <= Count(f) + (IF w THEN 1 ELSE 0) /\ i \in 1 .. Depth
  BY <1>2, <1>4, <1>5, <1>7, DepthAssumption, SMT
<1>9. Place(g.rd_ptr, i) = Place(f.rd_ptr, k)
  <2>1. CASE r
    <3>1. i \in 1 .. Depth - 1
      BY <2>1, <1>8, DepthAssumption, SMT
    <3>. QED BY <2>1, <3>1, <1>1, PlaceIncr, Registers
  <2>2. CASE ~r
    BY <2>2, <1>1
  <2>. QED BY <2>1, <2>2
<1>10. Place(f.rd_ptr, k) \in Addr
  BY <1>8, PlaceType, Registers
<1>11. CASE k <= Count(f)
  <2>1. k \in 1 .. Count(f)
    BY <1>8, <1>11, <1>5, SMT
  <2>2. w => Place(f.rd_ptr, k) # f.wr_ptr
    BY <1>2, <2>1, PlaceLast
  <2>3. g.mem[Place(f.rd_ptr, k)] = f.mem[Place(f.rd_ptr, k)]
    BY <2>2, <1>1, <1>2, <1>10, Registers
  <2>4. Contents(f)[k] = f.mem[Place(f.rd_ptr, k)]
    BY <2>1, ContentsSeq
  <2>. QED BY <1>6, <1>9, <2>3, <2>4, <1>11 DEF r, g
<1>12. CASE ~(k <= Count(f))
  <2>1. w /\ k = Count(f) + 1
    BY <1>8, <1>12, <1>5, <1>2, SMT
  <2>2. Place(f.rd_ptr, k) = f.wr_ptr
    BY <2>1, <1>2, PlaceLast
  <2>3. g.mem[f.wr_ptr] = beat
    BY <2>1, <1>1, Registers
  <2>. QED BY <1>6, <1>9, <2>2, <2>3, <1>12 DEF r, g
<1>. QED BY <1>11, <1>12

-----------------------------------------------------------------------------
(* The FIFO implements the queue. *)

\* An edge puts, gets, does both, or leaves the queue as it is.
LEMMA ClockQueue ==
    ASSUME NEW f \in Fifo, Exact(f),
           NEW tvalid \in BOOLEAN, NEW tready \in BOOLEAN, NEW beat \in Beat
    PROVE  LET w == WriteEn(f, tvalid)
               r == ReadEn(f, tready)
               s == Contents(f)
               t == Contents(Clock(f, tvalid, beat, tready))
           IN  /\ w => Len(s) < Depth
               /\ r => s # << >>
               /\ w /\ r => t = Append(Tail(s), beat)
               /\ w /\ ~r => t = Append(s, beat)
               /\ ~w /\ r => t = Tail(s)
               /\ ~w /\ ~r => t = s
<1> DEFINE w == WriteEn(f, tvalid)
           r == ReadEn(f, tready)
           g == Clock(f, tvalid, beat, tready)
           s == Contents(f)
           t == Contents(g)
<1>1. w \in BOOLEAN /\ r \in BOOLEAN /\ (w => ~f.full) /\ (r => ~f.empty)
  BY Handshakes
<1>2. g \in Fifo /\ Exact(g)
  BY ClockType, ClockExact
<1>3. s \in Seq(Beat) /\ Len(s) = Count(f) /\ t \in Seq(Beat) /\ Len(t) = Count(g)
  BY <1>2, ContentsSeq
<1>4. /\ Count(f) \in 0 .. Depth
      /\ f.full <=> Count(f) = Depth
      /\ f.empty <=> Count(f) = 0
  BY CountBounds
<1>5. Count(g) = Count(f) + (IF w THEN 1 ELSE 0) - (IF r THEN 1 ELSE 0)
  BY ClockExact
<1>6. \A i \in 1 .. Count(g) :
        t[i] = IF (IF r THEN i + 1 ELSE i) <= Count(f)
               THEN s[IF r THEN i + 1 ELSE i] ELSE beat
  BY ClockContents
<1> HIDE DEF w, r, g, s, t
<1>7. (w => Len(s) < Depth) /\ (r => s # << >>)
  BY <1>1, <1>3, <1>4, DepthAssumption, SMT
<1>8. ASSUME w, r PROVE t = Append(Tail(s), beat)
  <2>1. s # << >> /\ Len(s) \in Nat /\ Len(s) > 0
    BY <1>7, <1>3, <1>8, SMT
  <2>2. Tail(s) \in Seq(Beat) /\ Len(Tail(s)) = Len(s) - 1
    BY <1>3, <2>1, SMT
  <2>3. Append(Tail(s), beat) \in Seq(Beat) /\ Len(Append(Tail(s), beat)) = Len(t)
    BY <2>1, <2>2, <1>3, <1>5, <1>8, SMT
  <2>4. \A i \in 1 .. Len(t) : t[i] = Append(Tail(s), beat)[i]
    BY <2>1, <2>2, <1>3, <1>5, <1>6, <1>8, SMT
  <2>. QED BY <2>3, <2>4, <1>3, SameSeq
<1>9. ASSUME w, ~r PROVE t = Append(s, beat)
  <2>1. Append(s, beat) \in Seq(Beat) /\ Len(Append(s, beat)) = Len(t)
    BY <1>3, <1>4, <1>5, <1>9, SMT
  <2>2. \A i \in 1 .. Len(t) : t[i] = Append(s, beat)[i]
    BY <1>3, <1>4, <1>5, <1>6, <1>9, SMT
  <2>. QED BY <2>1, <2>2, <1>3, SameSeq
<1>10. ASSUME ~w, r PROVE t = Tail(s)
  <2>1. s # << >> /\ Len(s) \in Nat /\ Len(s) > 0
    BY <1>7, <1>3, <1>10, SMT
  <2>2. Tail(s) \in Seq(Beat) /\ Len(Tail(s)) = Len(t)
    BY <1>3, <1>5, <1>10, <2>1, SMT
  <2>3. \A i \in 1 .. Len(t) : t[i] = Tail(s)[i]
    BY <2>1, <1>3, <1>4, <1>5, <1>6, <1>10, SMT
  <2>. QED BY <2>2, <2>3, <1>3, SameSeq
<1>11. ASSUME ~w, ~r PROVE t = s
  <2>1. Len(t) = Len(s) /\ \A i \in 1 .. Len(t) : t[i] = s[i]
    BY <1>3, <1>4, <1>5, <1>6, <1>11, SMT
  <2>. QED BY <2>1, <1>3, SameSeq
<1>. QED BY <1>7, <1>8, <1>9, <1>10, <1>11 DEF w, r, g, s, t

\* axis_fifo.sv is a queue of at most Depth beats (FifoIsQueue), for every
\* depth, whether or not it is a power of two: it loses, repeats, reorders and
\* invents no beat whatever reads and writes fall into one cycle.
THEOREM FifoImplementsQueue == FifoSpec => FifoIsQueue
<1>1. FifoInit => Queue!QInit
  <2> SUFFICES ASSUME FifoInit PROVE Queue!QInit
    OBVIOUS
  <2>1. FifoInv
    BY DepthAssumption, SMT DEF FifoInit, Reset, FifoInv, Fifo, Exact, Addr
  <2>2. fifo.empty
    BY DEF FifoInit, Reset
  <2>3. Len(Contents(fifo)) = 0 /\ Contents(fifo) \in Seq(Beat)
    BY <2>1, <2>2, CountBounds, ContentsSeq DEF FifoInv
  <2>. QED BY <2>3, SMT DEF Queue!QInit
<1>2. FifoInv /\ [FifoTick]_fifo => [Queue!QNext]_(Contents(fifo))
  <2> SUFFICES ASSUME FifoInv, [FifoTick]_fifo PROVE [Queue!QNext]_(Contents(fifo))
    OBVIOUS
  <2>1. CASE FifoTick
    <3>1. PICK tvalid \in BOOLEAN, tready \in BOOLEAN, beat \in Beat :
            fifo' = Clock(fifo, tvalid, beat, tready)
      BY <2>1 DEF FifoTick
    <3>2. Contents(fifo)' = Contents(Clock(fifo, tvalid, beat, tready))
      BY <3>1 DEF Contents, Count
    <3> DEFINE w == WriteEn(fifo, tvalid)
               r == ReadEn(fifo, tready)
    <3>3. /\ w => Len(Contents(fifo)) < Depth
          /\ r => Contents(fifo) # << >>
          /\ w /\ r => Contents(fifo)' = Append(Tail(Contents(fifo)), beat)
          /\ w /\ ~r => Contents(fifo)' = Append(Contents(fifo), beat)
          /\ ~w /\ r => Contents(fifo)' = Tail(Contents(fifo))
          /\ ~w /\ ~r => Contents(fifo)' = Contents(fifo)
      BY <3>2, ClockQueue DEF FifoInv
    <3>4. w \in BOOLEAN /\ r \in BOOLEAN
      BY Handshakes DEF FifoInv
    <3> HIDE DEF w, r
    <3>5. CASE w /\ r
      BY <3>3, <3>5, Zenon DEF Queue!QNext, Queue!PutGet
    <3>6. CASE w /\ ~r
      BY <3>3, <3>6, Zenon DEF Queue!QNext, Queue!Put
    <3>7. CASE ~w /\ r
      BY <3>3, <3>7, Zenon DEF Queue!QNext, Queue!Get
    <3>8. CASE ~w /\ ~r
      BY <3>3, <3>8
    <3>. QED BY <3>4, <3>5, <3>6, <3>7, <3>8
  <2>2. CASE UNCHANGED fifo
    BY <2>2 DEF Contents, Count
  <2>. QED BY <2>1, <2>2
<1>. QED BY <1>1, <1>2, FifoInvHolds, PTL DEF FifoSpec, FifoIsQueue, Queue!QSpec
=============================================================================
