---------------------------- MODULE UserLogicProofs ----------------------------
(***************************************************************************)
(* The user logic of the card.                                             *)
(*                                                                         *)
(* The traffic generator for any number of flows, any depth of the FIFOs   *)
(* and any packets: the output never mixes two packets, every waiting flow *)
(* has its turn, and a generator keeps its pace.                           *)
(*                                                                         *)
(* The TCP engine's table of connections, for any size of the table, any   *)
(* hashes and headers in any cycle, until the last control block is given  *)
(* out: it stays one to one, and a connection is in it twice only if a     *)
(* header of it was compared with what the memory was read for by another. *)
(***************************************************************************)
EXTENDS FlowGen, TcpEngine, Sequences, FiniteSetTheorems, WellFoundedInduction, TLAPS

\* What is proved of one FIFO holds of each flow's.
P == INSTANCE AxisFifoProofs WITH Depth <- FifoDepth, Beat <- FlowBeat, fifo <- fifos

-----------------------------------------------------------------------------
(* One FIFO. *)

Good(f) == f \in P!Fifo /\ P!Exact(f)
Held(f) == P!Contents(f)

LEMMA FifoAssumptions ==
    /\ FifoDepth \in Nat /\ FifoDepth > 1
    /\ \A beat \in FlowBeat : beat.tlast \in BOOLEAN
BY FlowAssumption DEF FlowBeat

LEMMA SameOperators ==
    ASSUME NEW f, NEW tvalid, NEW beat, NEW tready
    PROVE  /\ F!Clock(f, tvalid, beat, tready) = P!Clock(f, tvalid, beat, tready)
           /\ F!ReadEn(f, tready) = P!ReadEn(f, tready)
           /\ F!SReady(f) = P!SReady(f)
           /\ F!MValid(f) = P!MValid(f)
BY Zenon DEF F!Clock, P!Clock, F!ReadEn, P!ReadEn, F!WriteEn, P!WriteEn,
    F!SReady, P!SReady, F!MValid, P!MValid, F!NextFull, P!NextFull, F!NextEmpty,
    P!NextEmpty, F!Incr, P!Incr

\* What the flags tell of the beats.
LEMMA HeldFacts ==
    ASSUME NEW f, Good(f)
    PROVE  /\ Held(f) \in Seq(FlowBeat)
           /\ f.full \in BOOLEAN /\ f.empty \in BOOLEAN /\ f.tlast_rd \in BOOLEAN
           /\ f.full <=> Len(Held(f)) = FifoDepth
           /\ f.empty <=> Held(f) = << >>
           /\ Held(f) # << >> => Held(f)[1] = f.mem[f.rd_ptr]
<1>1. f \in P!Fifo /\ P!Exact(f)
  BY DEF Good
<1>2. /\ Held(f) \in Seq(FlowBeat)
      /\ Len(Held(f)) = P!Count(f)
      /\ \A i \in 1 .. P!Count(f) : Held(f)[i] = f.mem[P!Place(f.rd_ptr, i)]
  BY <1>1, P!ContentsSeq, FifoAssumptions DEF Held
<1>3. /\ P!Count(f) \in 0 .. FifoDepth
      /\ f.full <=> P!Count(f) = FifoDepth
      /\ f.empty <=> P!Count(f) = 0
  BY <1>1, P!CountBounds, FifoAssumptions
<1>4. /\ f.rd_ptr \in P!Addr
      /\ f.full \in BOOLEAN /\ f.empty \in BOOLEAN /\ f.tlast_rd \in BOOLEAN
  BY <1>1, P!Registers, FifoAssumptions
<1>5. P!Place(f.rd_ptr, 1) = f.rd_ptr
  BY <1>4, P!PlaceFirst, FifoAssumptions
<1>6. f.empty <=> Held(f) = << >>
  BY <1>2, <1>3, SMT
<1>7. Held(f) # << >> => 1 \in 1 .. P!Count(f)
  BY <1>2, <1>3, SMT
<1>. QED BY <1>2, <1>3, <1>4, <1>5, <1>6, <1>7

LEMMA EdgeOfQueue ==
    ASSUME NEW f \in P!Fifo, P!Exact(f),
           NEW tvalid \in BOOLEAN, NEW tready \in BOOLEAN, NEW beat \in FlowBeat
    PROVE  LET w == P!WriteEn(f, tvalid)
               r == P!ReadEn(f, tready)
               s == P!Contents(f)
               t == P!Contents(P!Clock(f, tvalid, beat, tready))
           IN  /\ w => Len(s) < FifoDepth
               /\ r => s # << >>
               /\ w /\ r => t = Append(Tail(s), beat)
               /\ w /\ ~r => t = Append(s, beat)
               /\ ~w /\ r => t = Tail(s)
               /\ ~w /\ ~r => t = s
BY P!ClockQueue, FifoAssumptions

\* From the beats s to the beats t: b comes if w, the oldest leaves if r.
Moved(s, t, w, r, b) ==
    /\ w /\ r => t = Append(Tail(s), b)
    /\ w /\ ~r => t = Append(s, b)
    /\ ~w /\ r => t = Tail(s)
    /\ ~w /\ ~r => t = s

\* A clock edge, as FlowGen uses it.
LEMMA EdgeFacts ==
    ASSUME NEW f, Good(f),
           NEW tvalid \in BOOLEAN, NEW beat \in FlowBeat, NEW tready \in BOOLEAN
    PROVE  LET g == F!Clock(f, tvalid, beat, tready)
               w == tvalid /\ F!SReady(f)
               r == F!ReadEn(f, tready)
           IN  /\ Good(g)
               /\ r <=> tready /\ F!MValid(f)
               /\ r => Held(f) # << >>
               /\ Moved(Held(f), Held(g), w, r, beat)
               /\ g.tlast_rd <=> (r /\ f.mem[f.rd_ptr].tlast)
               /\ ~r => g.rd_ptr = f.rd_ptr
<1> DEFINE g == F!Clock(f, tvalid, beat, tready)
           w == tvalid /\ F!SReady(f)
           r == F!ReadEn(f, tready)
<1>1. g = P!Clock(f, tvalid, beat, tready) /\ r = P!ReadEn(f, tready)
  BY SameOperators
<1>2. w = P!WriteEn(f, tvalid)
  BY Zenon DEF P!WriteEn, P!SReady, F!SReady
<1>3. f \in P!Fifo /\ P!Exact(f)
  BY DEF Good
<1>4. Good(g)
  BY <1>1, <1>3, P!ClockType, P!ClockExact, FifoAssumptions DEF Good
<1>5. /\ r => Held(f) # << >>
      /\ w /\ r => Held(g) = Append(Tail(Held(f)), beat)
      /\ w /\ ~r => Held(g) = Append(Held(f), beat)
      /\ ~w /\ r => Held(g) = Tail(Held(f))
      /\ ~w /\ ~r => Held(g) = Held(f)
  <2> DEFINE pg == P!Clock(f, tvalid, beat, tready)
             pw == P!WriteEn(f, tvalid)
             pr == P!ReadEn(f, tready)
  <2>1. /\ pr => Held(f) # << >>
        /\ pw /\ pr => Held(pg) = Append(Tail(Held(f)), beat)
        /\ pw /\ ~pr => Held(pg) = Append(Held(f), beat)
        /\ ~pw /\ pr => Held(pg) = Tail(Held(f))
        /\ ~pw /\ ~pr => Held(pg) = Held(f)
    BY <1>3, EdgeOfQueue DEF Held
  <2>2. g = pg /\ w = pw /\ r = pr
    BY <1>1, <1>2
  <2> HIDE DEF g, w, r, pg, pw, pr
  <2>. QED BY <2>1, <2>2
<1>8. Moved(Held(f), Held(g), w, r, beat)
  <2> HIDE DEF g, w, r
  <2>. QED BY <1>5 DEF Moved
<1>6. /\ g.tlast_rd <=> (r /\ f.mem[f.rd_ptr].tlast)
      /\ ~r => g.rd_ptr = f.rd_ptr
  BY Zenon DEF F!Clock
<1>7. r <=> tready /\ F!MValid(f)
  BY DEF F!ReadEn
<1>. QED BY <1>4, <1>5, <1>6, <1>7, <1>8

-----------------------------------------------------------------------------
(* The counters have a bound. *)

\* A finite set of natural numbers has an upper bound.
LEMMA FiniteBound ==
    ASSUME NEW S, S \subseteq Nat, IsFiniteSet(S)
    PROVE  \E m \in Nat : \A k \in S : k <= m
<1>1. PICK n \in Nat : ExistsSurjection(1 .. n, S)
  BY FS_NatSurjection
<1>2. PICK f \in [1 .. n -> S] : \A k \in S : \E i \in 1 .. n : f[i] = k
  BY <1>1, Zenon DEF ExistsSurjection, Surjection
<1>9. \A i \in 1 .. n : f[i] \in Nat
  BY <1>2
<1> DEFINE Bounded(j) == \E m \in Nat : \A i \in 1 .. j : f[i] <= m
           T == {j \in 0 .. n : ~Bounded(j)}
<1>3. Bounded(0)
  <2>1. \A i \in 1 .. 0 : f[i] <= 0
    OBVIOUS
  <2>. QED BY <2>1
<1>4. ASSUME NEW j \in 0 .. n - 1, Bounded(j)
      PROVE  Bounded(j + 1)
  <2>1. PICK m \in Nat : \A i \in 1 .. j : f[i] <= m
    BY <1>4
  <2>6. j \in Nat /\ j + 1 \in 1 .. n /\ \A i \in 1 .. j : i \in 1 .. n
    BY SMT
  <2>2. j + 1 \in 1 .. n /\ f[j + 1] \in Nat
    BY <1>9, <2>6
  <2>3. m + f[j + 1] \in Nat /\ \A i \in 1 .. j + 1 : i \in 1 .. j \/ i = j + 1
    BY <2>2
  <2>4. \A i \in 1 .. j : f[i] \in Nat
    BY <1>9, <2>6
  <2>5. \A i \in 1 .. j + 1 : f[i] <= m + f[j + 1]
    BY <2>1, <2>2, <2>3, <2>4
  <2>. QED BY <2>3, <2>5
<1>5. T = {}
  <2>1. SUFFICES ASSUME T # {} PROVE FALSE
    OBVIOUS
  <2> HIDE DEF Bounded
  <2>2. T \subseteq Nat
    OBVIOUS
  <2>3. PICK j \in T : \A k \in T : ~(<< k, j >> \in OpToRel(<, Nat))
    <3> HIDE DEF T
    <3>. QED BY <2>1, <2>2, WFMin, NatLessThanWellFounded
  <2>4. \A k \in T : ~(k < j)
    BY <2>2, <2>3 DEF OpToRel
  <2>5. j # 0 /\ j \in 0 .. n
    BY <1>3
  <2>6. j - 1 \in 0 .. n - 1 /\ j - 1 + 1 = j
    BY <2>5
  <2>7. Bounded(j - 1)
    BY <2>4, <2>5, <2>6
  <2>8. Bounded(j - 1 + 1)
    BY <1>4, <2>6, <2>7
  <2>. QED BY <2>6, <2>8
<1>6. Bounded(n)
  <2> HIDE DEF Bounded
  <2>. QED BY <1>5
<1>7. PICK m \in Nat : \A i \in 1 .. n : f[i] <= m
  BY <1>6
<1>8. \A k \in S : k <= m
  BY <1>2, <1>7, Zenon
<1>. QED BY <1>8

Config == [pkt_size: Sizes, cycles_per_pkt: Rates]

\* The largest of some numbers that a bound exists for.
LEMMA MaxOf ==
    ASSUME NEW S, S \subseteq Nat, NEW m \in Nat, \A k \in S : k <= m, S # {}
    PROVE  Max(S) \in S /\ \A k \in S : k <= Max(S)
<1> DEFINE T == {m - k : k \in S}
<1>1. T \subseteq Nat /\ T # {}
  <2>1. \A k \in S : k \in Nat /\ k <= m
    OBVIOUS
  <2>2. \A k \in S : m - k \in Nat
    BY <2>1, SMT
  <2>. QED BY <2>2
<1>2. PICK t \in T : \A u \in T : ~(<< u, t >> \in OpToRel(<, Nat))
  <2> HIDE DEF T
  <2>. QED BY <1>1, WFMin, NatLessThanWellFounded
<1>3. \A u \in T : ~(u < t)
  BY <1>1, <1>2 DEF OpToRel
<1>4. PICK x \in S : t = m - x
  OBVIOUS
<1>5. \A k \in S : x >= k
  <2> SUFFICES ASSUME NEW k \in S PROVE x >= k
    OBVIOUS
  <2>1. ~(m - k < m - x)
    BY <1>3, <1>4
  <2>. QED BY <2>1
<1>6. \E y \in S : \A k \in S : y >= k
  BY <1>5
<1>7. Max(S) \in S /\ \A k \in S : Max(S) >= k
  <2>1. Max(S) = CHOOSE y \in S : \A k \in S : y >= k
    BY DEF Max
  <2>. QED BY <1>6, <2>1
<1>. QED BY <1>7

\* No generator waits longer than the counters of the model go.
LEMMA CountBound ==
    ASSUME NEW c \in Config
    PROVE  /\ MaxCount \in Nat
           /\ c.cycles_per_pkt \in 0 .. MaxCount
           /\ CyclesPkt(c) \in 0 .. MaxCount
<1> DEFINE Need(s) == s \div BPB + 2
           S == Rates \union {Need(s) : s \in Sizes}
<1>1. c.pkt_size \in Sizes /\ c.cycles_per_pkt \in Rates
  BY DEF Config
<1>2. \A s \in Sizes : s \in Nat /\ s < CntMod /\ Need(s) \in Nat /\ Need(s) <= CntMod + 2
  <2> SUFFICES ASSUME NEW s \in Sizes
               PROVE  s \in Nat /\ s < CntMod /\ Need(s) \in Nat /\ Need(s) <= CntMod + 2
    OBVIOUS
  <2>1. s \in Nat /\ s < CntMod /\ CntMod \in Nat /\ BPB \in Nat /\ BPB > 0
    BY FlowAssumption, SMT
  <2>2. s \div BPB \in Nat /\ s \div BPB <= s
    BY <2>1, SMT
  <2>. QED BY <2>1, <2>2, SMT
<1>3. PICK r \in Nat : \A k \in Rates : k <= r
  BY FiniteBound, FlowAssumption
<1>4. /\ S \subseteq Nat /\ S # {}
      /\ r + CntMod + 2 \in Nat /\ \A k \in S : k <= r + CntMod + 2
  <2> HIDE DEF Need
  <2>1. \A k \in Rates : k \in Nat /\ CntMod \in Nat
    BY FlowAssumption
  <2>2. r + CntMod + 2 \in Nat
    BY FlowAssumption
  <2>3. \A k \in Rates : k <= r + CntMod + 2
    BY <1>3, <2>1
  <2>4. \A s \in Sizes : Need(s) <= r + CntMod + 2 /\ Need(s) \in Nat
    <3>1. CntMod \in Nat
      BY FlowAssumption
    <3>. QED BY <1>2, <3>1
  <2>. QED BY <1>1, <2>1, <2>2, <2>3, <2>4
<1>5. MaxCount = Max(S)
  BY DEF MaxCount
<1>6. MaxCount \in S /\ \A k \in S : k <= MaxCount
  <2> HIDE DEF S
  <2>. QED BY <1>4, <1>5, MaxOf
<1>7. MaxCount \in Nat /\ c.cycles_per_pkt \in 0 .. MaxCount
  BY <1>1, <1>4, <1>6
<1>8. CyclesNeeded(c) \in 0 .. MaxCount
  <2>1. Need(c.pkt_size) \in Nat /\ Need(c.pkt_size) <= MaxCount
    BY <1>1, <1>2, <1>6
  <2>2. c.pkt_size \in Nat /\ BPB \in Nat /\ BPB > 0
    <3>1. BPB \in Nat /\ BPB > 0
      BY FlowAssumption, SMT
    <3>2. c.pkt_size \in Nat
      <4> HIDE DEF Need
      <4>. QED BY <1>1, <1>2
    <3>. QED BY <3>1, <3>2
  <2>3. CyclesNeeded(c) \in Nat /\ CyclesNeeded(c) <= Need(c.pkt_size)
    BY <2>2, SMT DEF CyclesNeeded
  <2>. QED BY <1>7, <2>1, <2>3
<1>9. CyclesPkt(c) \in 0 .. MaxCount
  <2> DEFINE D == {c.cycles_per_pkt, CyclesNeeded(c)}
  <2>1. D \subseteq Nat /\ D # {} /\ \A k \in D : k \in 0 .. MaxCount /\ k <= MaxCount
    BY <1>7, <1>8
  <2>2. Max(D) \in D
    <3> HIDE DEF D
    <3>. QED BY <1>7, <2>1, MaxOf
  <2>. QED BY <2>1, <2>2 DEF CyclesPkt
<1>. QED BY <1>7, <1>9

-----------------------------------------------------------------------------
(* One generator. *)

GenRegs == [ state: {"IDLE", "TRANSFER", "WAIT"}, wait: Nat, trans: Nat,
             is_header: BOOLEAN, cycles_pkt: 0 .. MaxCount ]

LEMMA UpType == ASSUME MaxCount \in Nat, NEW n \in Nat
                PROVE  Up(n) \in Nat /\ Up(n) <= n + 1 /\ (n < MaxCount => Up(n) = n + 1)
                       /\ (n >= MaxCount => Up(n) = n)
BY DEF Up

\* What a clock edge makes of the registers, by the state they are in.
LEMMA GenEdge ==
    ASSUME NEW g \in GenRegs, NEW c \in Config,
           NEW running \in BOOLEAN, NEW tready \in BOOLEAN
    PROVE  LET n == GenClock(g, c, running, tready)
           IN  /\ n \in GenRegs
               /\ g.state = "TRANSFER" /\ ~tready => n = g
               /\ g.state = "TRANSFER" /\ tready =>
                    /\ n.state = IF LastBeat(g, c) THEN "WAIT" ELSE "TRANSFER"
                    /\ ~n.is_header
                    /\ n.wait = Up(g.wait)
               /\ g.state # "TRANSFER" => n.is_header
               /\ g.state = "IDLE" => n.state # "WAIT" /\ n.wait = 0
               /\ g.state = "WAIT" =>
                    /\ n.state = "TRANSFER" => Elapsed(g) /\ n.wait = 0
                    /\ n.state = "WAIT" => n.wait = Up(g.wait) \/ n.wait = 0
<1> DEFINE n == GenClock(g, c, running, tready)
<1>1. /\ g.state \in {"IDLE", "TRANSFER", "WAIT"} /\ g.wait \in Nat /\ g.trans \in Nat
      /\ g.is_header \in BOOLEAN /\ g.cycles_pkt \in 0 .. MaxCount
  BY DEF GenRegs
<1>2. MaxCount \in Nat /\ CyclesPkt(c) \in 0 .. MaxCount /\ Up(g.wait) \in Nat
  BY <1>1, CountBound, UpType
<1>3. (g.trans + BPB) % CntMod \in Nat
  BY <1>1, FlowAssumption, SMT
<1>4. CASE g.state = "IDLE"
  <2>1. n = [ state      |-> IF tready /\ running THEN "TRANSFER" ELSE "IDLE",
              wait       |-> 0, trans |-> 0, is_header |-> TRUE,
              cycles_pkt |-> CyclesPkt(c) ]
    BY <1>4, Zenon DEF GenClock
  <2> HIDE DEF n
  <2>2. n \in GenRegs
    BY <2>1, <1>2 DEF GenRegs
  <2>. QED BY <2>1, <2>2, <1>4 DEF n
<1>5. CASE g.state = "TRANSFER" /\ ~tready
  <2>1. n = g
    BY <1>5, Zenon DEF GenClock
  <2>. QED BY <2>1, <1>5
<1>6. CASE g.state = "TRANSFER" /\ tready
  <2>1. n = [ g EXCEPT !.state     = IF LastBeat(g, c) THEN "WAIT" ELSE @,
                       !.trans     = IF LastBeat(g, c) THEN 0
                                     ELSE (@ + BPB) % CntMod,
                       !.wait      = Up(@),
                       !.is_header = FALSE ]
    BY <1>6, Zenon DEF GenClock
  <2> HIDE DEF n
  <2>2. n \in GenRegs
    BY <2>1, <1>1, <1>2, <1>3 DEF GenRegs
  <2>3. /\ n.state = IF LastBeat(g, c) THEN "WAIT" ELSE "TRANSFER"
        /\ n.is_header = FALSE /\ n.wait = Up(g.wait)
    BY <2>1, <1>6 DEF GenRegs
  <2>. QED BY <2>2, <2>3, <1>6 DEF n
<1>7. CASE g.state = "WAIT"
  <2>1. n = [ state      |-> IF ~running THEN "IDLE"
                             ELSE IF tready /\ Elapsed(g) THEN "TRANSFER" ELSE "WAIT",
              wait       |-> IF tready /\ Elapsed(g) THEN 0 ELSE Up(g.wait),
              trans      |-> 0, is_header |-> TRUE,
              cycles_pkt |-> IF tready /\ Elapsed(g) THEN CyclesPkt(c)
                             ELSE g.cycles_pkt ]
    BY <1>7, Zenon DEF GenClock
  <2> HIDE DEF n
  <2>2. n \in GenRegs
    BY <2>1, <1>1, <1>2 DEF GenRegs
  <2>. QED BY <2>1, <2>2, <1>7 DEF n
<1>. QED BY <1>1, <1>4, <1>5, <1>6, <1>7

-----------------------------------------------------------------------------
(* One generator and its FIFO. *)

\* The beat offered next begins a packet.
Begins(g) == g.state = "TRANSFER" => g.is_header

\* The oldest beat held continues a packet whose beginning has left.
Mid(f) == Held(f) # << >> /\ ~Held(f)[1].header

\* The beats held are those of whole packets in their order, but that the first
\* packet may have lost its beginning and the last one not have its end yet; and
\* while a packet is being generated its last beat so far is still there.
Framed(f, g) ==
    /\ \A k \in 1 .. Len(Held(f)) - 1 : Held(f)[k + 1].header <=> Held(f)[k].tlast
    /\ Held(f) # << >> => (Held(f)[Len(Held(f))].tlast <=> Begins(g))
    /\ Held(f) = << >> => Begins(g)
    /\ f.tlast_rd => ~Mid(f)

LEMMA FramedStep ==
    ASSUME NEW f, Good(f), NEW g \in GenRegs, Framed(f, g), NEW c \in Config,
           NEW running \in BOOLEAN, NEW tready \in BOOLEAN, NEW i \in Flow
    PROVE  LET beat == [flow |-> i, header |-> g.is_header, tlast |-> LastBeat(g, c)]
               n == GenClock(g, c, running, F!SReady(f))
               e == F!Clock(f, GenValid(g), beat, tready)
           IN  /\ Good(e) /\ n \in GenRegs /\ Framed(e, n)
               /\ F!ReadEn(f, tready) => (Mid(e) <=> ~f.mem[f.rd_ptr].tlast)
               /\ ~F!ReadEn(f, tready) => (Mid(e) <=> Mid(f))
<1> DEFINE beat == [flow |-> i, header |-> g.is_header, tlast |-> LastBeat(g, c)]
           n == GenClock(g, c, running, F!SReady(f))
           e == F!Clock(f, GenValid(g), beat, tready)
           w == GenValid(g) /\ F!SReady(f)
           r == F!ReadEn(f, tready)
           s == Held(f)
           t == Held(e)
<1>1. /\ g.state \in {"IDLE", "TRANSFER", "WAIT"} /\ g.is_header \in BOOLEAN
      /\ LastBeat(g, c) \in BOOLEAN
  BY Zenon DEF GenRegs, LastBeat
<1>2. beat \in FlowBeat /\ beat.header = g.is_header /\ beat.tlast = LastBeat(g, c)
  BY <1>1 DEF FlowBeat
<1>3. F!SReady(f) \in BOOLEAN /\ GenValid(g) \in BOOLEAN
  BY Zenon DEF F!SReady, GenValid
<1>4. /\ s \in Seq(FlowBeat)
      /\ f.full <=> Len(s) = FifoDepth
      /\ s # << >> => s[1] = f.mem[f.rd_ptr]
      /\ f.full \in BOOLEAN
  BY HeldFacts
<1>5. /\ Good(e)
      /\ r => s # << >>
      /\ Moved(s, t, w, r, beat)
      /\ e.tlast_rd <=> (r /\ f.mem[f.rd_ptr].tlast)
  <2> HIDE DEF beat
  <2>1. Good(e) /\ (r => s # << >>)
    BY <1>2, <1>3, EdgeFacts
  <2>2. Moved(s, t, w, r, beat)
    BY <1>2, <1>3, EdgeFacts
  <2>3. e.tlast_rd <=> (r /\ f.mem[f.rd_ptr].tlast)
    BY <1>2, <1>3, EdgeFacts, Zenon
  <2>. QED BY <2>1, <2>2, <2>3
<1>6. /\ n \in GenRegs
      /\ w => (Begins(n) <=> LastBeat(g, c)) /\ (Begins(g) <=> g.is_header)
      /\ ~w /\ g.state = "TRANSFER" => n = g
      /\ g.state # "TRANSFER" => Begins(n) /\ Begins(g)
      /\ g.state # "TRANSFER" => ~w
      /\ ~w /\ g.state = "TRANSFER" => f.full
  <2>1. w <=> g.state = "TRANSFER" /\ ~f.full
    BY DEF GenValid, F!SReady
  <2> HIDE DEF w
  <2>2. /\ n \in GenRegs
        /\ g.state = "TRANSFER" /\ f.full => n = g
        /\ g.state = "TRANSFER" /\ ~f.full =>
             /\ n.state = IF LastBeat(g, c) THEN "WAIT" ELSE "TRANSFER"
             /\ ~n.is_header
        /\ g.state # "TRANSFER" => n.is_header
    <3>1. F!SReady(f) <=> ~f.full
      BY DEF F!SReady
    <3>. QED BY <1>3, <3>1, GenEdge
  <2> HIDE DEF n
  <2>. QED BY <2>1, <2>2, <1>1, <1>4, Zenon DEF Begins
<1>7. /\ \A k \in 1 .. Len(s) - 1 : s[k + 1].header <=> s[k].tlast
      /\ s # << >> => (s[Len(s)].tlast <=> Begins(g))
      /\ s = << >> => Begins(g)
  BY Zenon DEF Framed
<1>8. FifoDepth \in Nat /\ FifoDepth > 1
  BY FifoAssumptions
<1>9. \A b \in FlowBeat : b.header \in BOOLEAN /\ b.tlast \in BOOLEAN
  BY DEF FlowBeat
<1>10. t \in Seq(FlowBeat)
  BY <1>5, HeldFacts
<1> DEFINE LastOK == t # << >> => (t[Len(t)].tlast <=> Begins(n))
           NextOK == \A k \in 1 .. Len(t) - 1 : t[k + 1].header <=> t[k].tlast
           NoneOK == t = << >> => Begins(n)
           MidOK  == IF r THEN t # << >> /\ ~t[1].header <=> ~s[1].tlast
                     ELSE t # << >> /\ ~t[1].header <=> s # << >> /\ ~s[1].header
<1>16. /\ w /\ r => t = Append(Tail(s), beat)
       /\ w /\ ~r => t = Append(s, beat)
       /\ ~w /\ r => t = Tail(s)
       /\ ~w /\ ~r => t = s
  <2> HIDE DEF beat, e, w, r, s, t
  <2>. QED BY <1>5 DEF Moved
<1>11. LastOK /\ NextOK /\ NoneOK /\ MidOK
  <2> HIDE DEF beat, n, e, w, r, s, t
  <2>1. CASE ~w /\ ~r
    <3>1. Begins(n) <=> Begins(g)
      BY <2>1, <1>6
    <3>. QED BY <2>1, <3>1, <1>5, <1>16, <1>7
  <2>2. CASE w /\ ~r
    <3>1. t = Append(s, beat) /\ Len(t) = Len(s) + 1 /\ t # << >> /\ t[Len(t)] = beat
          /\ \A k \in 1 .. Len(s) : t[k] = s[k]
      BY <2>2, <1>2, <1>4, <1>5, <1>16, SMT
    <3>2. LastOK /\ NoneOK
      BY <2>2, <3>1, <1>2, <1>6
    <3>3. NextOK
      <4> SUFFICES ASSUME NEW k \in 1 .. Len(t) - 1 PROVE t[k + 1].header <=> t[k].tlast
        OBVIOUS
      <4>1. CASE k \in 1 .. Len(s) - 1
        <5>1. k \in 1 .. Len(s) /\ k + 1 \in 1 .. Len(s)
          BY <4>1, <1>4, SMT
        <5>. QED BY <4>1, <5>1, <3>1, <1>7
      <4>2. CASE k = Len(s)
        <5>1. k \in 1 .. Len(s) /\ k + 1 = Len(t) /\ s # << >>
          BY <4>2, <3>1, <1>4, SMT
        <5>. QED BY <2>2, <4>2, <5>1, <3>1, <1>2, <1>6, <1>7
      <4>. QED BY <4>1, <4>2, <3>1, <1>4, SMT
    <3>4. MidOK
      <4>1. CASE s = << >>
        <5>1. t[1] = beat
          BY <4>1, <3>1, SMT
        <5>. QED BY <2>2, <4>1, <5>1, <1>2, <1>6, <1>7
      <4>2. CASE s # << >>
        <5>1. 1 \in 1 .. Len(s)
          BY <4>2, <1>4, SMT
        <5>. QED BY <2>2, <4>2, <5>1, <3>1
      <4>. QED BY <4>1, <4>2
    <3>. QED BY <3>2, <3>3, <3>4
  <2>3. CASE ~w /\ r
    <3>1. /\ s # << >> /\ t = Tail(s) /\ Len(s) \in Nat \ {0} /\ Len(t) = Len(s) - 1
          /\ \A k \in 1 .. Len(t) : t[k] = s[k + 1]
      BY <2>3, <1>4, <1>5, <1>16, SMT
    <3>2. Begins(n) <=> Begins(g)
      BY <2>3, <1>6
    <3>3. CASE Len(s) = 1
      <4>1. t = << >> /\ Len(t) = 0
        BY <3>1, <3>3, <1>10, SMT
      <4>2. ~f.full
        BY <3>3, <1>4, <1>8, SMT
      <4>3. Begins(g)
        BY <4>2, <2>3, <1>6
      <4>4. s[1].tlast
        BY <3>1, <3>3, <4>3, <1>7
      <4>5. NextOK
        BY <4>1
      <4>. QED BY <2>3, <4>1, <4>3, <4>4, <4>5, <3>2
    <3>4. CASE Len(s) # 1
      <4>1. t # << >> /\ Len(t) \in Nat /\ Len(t) >= 1 /\ 1 \in 1 .. Len(s) - 1
        <5>1. Len(s) \in Nat /\ Len(s) >= 2 /\ Len(t) = Len(s) - 1
          BY <3>1, <3>4
        <5>2. Len(t) \in Nat /\ Len(t) >= 1 /\ 1 \in 1 .. Len(s) - 1
          BY <5>1
        <5>3. t # << >>
          BY <5>2, <1>10
        <5>. QED BY <5>2, <5>3
      <4>2. t[Len(t)] = s[Len(s)] /\ t[1] = s[2]
        BY <3>1, <4>1, SMT
      <4>3. LastOK /\ NoneOK
        BY <3>1, <3>2, <4>1, <4>2, <1>7
      <4>4. MidOK
        <5>1. s[1 + 1].header <=> s[1].tlast
          BY <4>1, <1>7
        <5>. QED BY <2>3, <4>1, <4>2, <5>1, SMT
      <4>5. NextOK
        <5> SUFFICES ASSUME NEW k \in 1 .. Len(t) - 1 PROVE t[k + 1].header <=> t[k].tlast
          OBVIOUS
        <5>1. /\ k \in 1 .. Len(t) /\ k + 1 \in 1 .. Len(t)
              /\ k + 1 \in 1 .. Len(s) - 1
          BY <3>1, SMT
        <5>. QED BY <5>1, <3>1, <1>7
      <4>. QED BY <4>3, <4>4, <4>5
    <3>. QED BY <3>3, <3>4
  <2>4. CASE w /\ r
    <3>1. /\ s # << >> /\ Len(s) \in Nat \ {0} /\ Len(t) = Len(s) /\ t # << >>
          /\ t[Len(t)] = beat /\ \A k \in 1 .. Len(t) - 1 : t[k] = s[k + 1]
      <4>1. s # << >> /\ t = Append(Tail(s), beat)
        BY <2>4, <1>5, <1>16
      <4>2. Tail(s) \in Seq(FlowBeat) /\ Len(Tail(s)) = Len(s) - 1 /\ Len(s) \in Nat \ {0}
            /\ \A k \in 1 .. Len(s) - 1 : Tail(s)[k] = s[k + 1]
        BY <4>1, <1>4, SMT
      <4>. QED BY <4>1, <4>2, <1>2, SMT
    <3>2. LastOK /\ NoneOK
      BY <2>4, <3>1, <1>2, <1>6
    <3>3. NextOK
      <4> SUFFICES ASSUME NEW k \in 1 .. Len(t) - 1 PROVE t[k + 1].header <=> t[k].tlast
        OBVIOUS
      <4>1. CASE k + 1 \in 1 .. Len(s) - 1
        BY <4>1, <3>1, <1>7
      <4>2. CASE k + 1 = Len(s)
        <5>1. t[k + 1] = beat /\ t[k] = s[Len(s)]
          BY <4>2, <3>1
        <5>. QED BY <2>4, <5>1, <3>1, <1>2, <1>6, <1>7
      <4>. QED BY <4>1, <4>2, <3>1, SMT
    <3>4. MidOK
      <4>1. CASE Len(s) = 1
        BY <2>4, <4>1, <3>1, <1>2, <1>6, <1>7
      <4>2. CASE Len(s) # 1
        <5>1. 1 \in 1 .. Len(t) - 1 /\ 1 \in 1 .. Len(s) - 1
          BY <4>2, <3>1, SMT
        <5>2. t[1] = s[1 + 1] /\ (s[1 + 1].header <=> s[1].tlast)
          BY <5>1, <3>1, <1>7
        <5>. QED BY <2>4, <5>2, <3>1
      <4>. QED BY <4>1, <4>2
    <3>. QED BY <3>2, <3>3, <3>4
  <2>5. r \in BOOLEAN /\ w \in BOOLEAN
    BY Zenon DEF r, w, F!ReadEn
  <2>. QED BY <2>1, <2>2, <2>3, <2>4, <2>5
<1>12. r => (Mid(e) <=> ~f.mem[f.rd_ptr].tlast)
  <2>1. ASSUME r PROVE Mid(e) <=> ~f.mem[f.rd_ptr].tlast
    <3>1. t # << >> /\ ~t[1].header <=> ~s[1].tlast
      BY <1>11, <2>1
    <3>2. s[1] = f.mem[f.rd_ptr]
      BY <1>4, <1>5, <2>1
    <3> HIDE DEF s, t, e
    <3>3. Mid(e) <=> t # << >> /\ ~t[1].header
      BY Zenon DEF Mid, t
    <3>. QED BY <3>1, <3>2, <3>3
  <2>. QED BY <2>1
<1>13. ~r => (Mid(e) <=> Mid(f))
  <2>1. ASSUME ~r PROVE Mid(e) <=> Mid(f)
    <3>1. t # << >> /\ ~t[1].header <=> s # << >> /\ ~s[1].header
      BY <1>11, <2>1
    <3>. QED BY <3>1, Zenon DEF Mid
  <2>. QED BY <2>1
<1>14. e.tlast_rd => ~Mid(e)
  BY <1>5, <1>12, Zenon
<1>15. Framed(e, n)
  <2> HIDE DEF e, n
  <2>. QED BY <1>11, <1>14, Zenon DEF Framed
<1>. QED BY <1>5, <1>6, <1>12, <1>13, <1>15

-----------------------------------------------------------------------------
(* The scheduler. *)

\* The flows from c to i, in the order of the turns.
Dist1(c, i) == IF i >= c THEN i - c ELSE i - c + NumFlows

LEMMA Wrap ==
    ASSUME NEW a \in Flow, NEW j \in 0 .. NumFlows - 1
    PROVE  (a + j) % NumFlows = IF a + j < NumFlows THEN a + j ELSE a + j - NumFlows
<1>1. NumFlows \in Nat /\ NumFlows > 0 /\ a \in Nat /\ a < NumFlows /\ j \in Nat /\ j < NumFlows
  BY FlowAssumption, SMT DEF Flow
<1>2. CASE a + j < NumFlows
  BY <1>1, <1>2, SMT
<1>3. CASE ~(a + j < NumFlows)
  BY <1>1, <1>3, SMT
<1>. QED BY <1>2, <1>3

LEMMA MinOf ==
    ASSUME NEW S, S \subseteq Nat, S # {}
    PROVE  Min(S) \in S /\ \A k \in S : Min(S) <= k
<1>1. PICK t \in S : \A u \in S : ~(<< u, t >> \in OpToRel(<, Nat))
  BY WFMin, NatLessThanWellFounded
<1>2. \A u \in S : ~(u < t)
  BY <1>1 DEF OpToRel
<1>3. \A u \in S : t <= u
  BY <1>2, SMT
<1>4. Min(S) = CHOOSE y \in S : \A k \in S : y =< k
  BY DEF Min
<1>. QED BY <1>3, <1>4

\* A switch brings the turn nearer to every flow that waits, and not past it.
LEMMA Nearer ==
    ASSUME current_flow \in Flow
    PROVE  /\ NextFlow \in Flow
           /\ \A i \in Flow : i # current_flow /\ Valid(i) /\ flow_running[i] =>
                /\ Valid(NextFlow)
                /\ Dist1(NextFlow, i) < Dist1(current_flow, i)
<1>1. NumFlows \in Nat /\ NumFlows > 0 /\ Flow = 0 .. NumFlows - 1
  BY FlowAssumption, SMT DEF Flow
<1>2. Waiting \subseteq 1 .. NumFlows - 1 /\ Waiting \subseteq Nat
  BY <1>1 DEF Waiting
<1>3. CASE Waiting = {}
  <2>1. NextFlow = current_flow
    BY <1>3, Zenon DEF NextFlow
  <2>2. ASSUME NEW i \in Flow, i # current_flow, Valid(i), flow_running[i] PROVE FALSE
    <3> DEFINE d == Dist1(current_flow, i)
    <3>1. d \in 1 .. NumFlows - 1
      BY <1>1, <2>2, SMT DEF Dist1
    <3>2. (current_flow + d) % NumFlows = i
      <4>1. d \in 0 .. NumFlows - 1
        BY <3>1
      <4>. QED BY <1>1, <4>1, Wrap, SMT DEF Dist1
    <3>3. d \in Waiting
      <4> HIDE DEF d
      <4>. QED BY <3>1, <3>2, <2>2 DEF Waiting
    <3>. QED BY <3>3, <1>3
  <2>. QED BY <2>1, <2>2
<1>4. CASE Waiting # {}
  <2> DEFINE m == Min(Waiting)
  <2>1. m \in Waiting /\ \A k \in Waiting : m <= k
    BY <1>2, <1>4, MinOf
  <2>2. NextFlow = (current_flow + m) % NumFlows
    BY <1>4, Zenon DEF NextFlow
  <2> HIDE DEF m
  <2>3. m \in 1 .. NumFlows - 1 /\ m \in 0 .. NumFlows - 1
    BY <1>2, <2>1, <1>1
  <2>4. NextFlow = IF current_flow + m < NumFlows THEN current_flow + m
                   ELSE current_flow + m - NumFlows
    BY <2>2, <2>3, Wrap
  <2>5. NextFlow \in Flow
    BY <1>1, <2>3, <2>4, SMT
  <2>6. Valid(NextFlow)
    BY <2>1, <2>2 DEF Waiting
  <2>7. ASSUME NEW i \in Flow, i # current_flow, Valid(i), flow_running[i]
        PROVE  Dist1(NextFlow, i) < Dist1(current_flow, i)
    <3> DEFINE d == Dist1(current_flow, i)
    <3>1. d \in 1 .. NumFlows - 1
      BY <1>1, <2>7, SMT DEF Dist1
    <3>2. (current_flow + d) % NumFlows = i
      <4>1. d \in 0 .. NumFlows - 1
        BY <3>1
      <4>. QED BY <1>1, <4>1, Wrap, SMT DEF Dist1
    <3>3. d \in Waiting
      <4> HIDE DEF d
      <4>. QED BY <3>1, <3>2, <2>7 DEF Waiting
    <3>4. m <= d
      BY <2>1, <3>3
    <3>. QED BY <1>1, <2>3, <2>4, <3>1, <3>4, SMT DEF Dist1
  <2>. QED BY <2>5, <2>6, <2>7
<1>. QED BY <1>3, <1>4

-----------------------------------------------------------------------------
(* The invariant. *)

FlowType ==
    /\ config \in [Flow -> Config]
    /\ flow_running \in [Flow -> BOOLEAN]
    /\ gen \in [Flow -> GenRegs]
    /\ fifos \in [Flow -> P!Fifo]
    /\ current_flow \in Flow
    /\ open \in Flow \union {NoFlow}
    /\ over \in [Flow -> Nat]
    /\ since \in [Flow -> Nat]

\* The packet on its way out is the one whose rest its FIFO holds, and that
\* flow is being served.
Whole ==
    /\ \A i \in Flow : /\ Good(fifos[i]) /\ Framed(fifos[i], gen[i])
                       /\ open = i <=> Mid(fifos[i])
    /\ open # NoFlow => open = current_flow

\* The packets begun while a flow waits and the flows it still waits for: a
\* packet on its way counts, but its flow begins no other.
NextTurn ==
    \A i \in Flow :
      /\ over[i] < NumFlows
      /\ over[i] + Dist1(current_flow, i) <= IF open = NoFlow THEN NumFlows - 1 ELSE NumFlows

\* The counter of a generator never runs ahead of the clock.
Paced ==
    \A i \in Flow : gen[i].state # "IDLE" => since[i] > gen[i].wait \/ since[i] >= MaxCount

FlowInv == FlowType /\ Whole /\ NextTurn /\ Paced

-----------------------------------------------------------------------------
(* A clock edge. *)

Edge(accept) ==
    /\ gen' = [i \in Flow |-> GenClock(gen[i], config[i], flow_running[i],
                                       F!SReady(fifos[i]))]
    /\ fifos' = [i \in Flow |-> F!Clock(fifos[i], GenValid(gen[i]), GenBeat(i),
                                        FifoTready(i, accept))]
    /\ current_flow' = IF SwitchTrigger(accept) THEN NextFlow ELSE current_flow
    /\ Observe(accept)
    /\ UNCHANGED << config, flow_running >>

LEMMA TickIsEdge == ASSUME Tick PROVE \E accept \in BOOLEAN : Edge(accept)
BY Zenon DEF Tick, Edge

\* What an edge does to a flow: only the flow being served sends.
LEMMA EdgeOfFlow ==
    ASSUME FlowInv, NEW accept \in BOOLEAN, Edge(accept), NEW i \in Flow
    PROVE  /\ Good(fifos'[i]) /\ gen'[i] \in GenRegs /\ Framed(fifos'[i], gen'[i])
           /\ Sends(i, accept) => i = current_flow
           /\ Sends(i, accept) => (Mid(fifos'[i]) <=> ~FirstBeat(i).tlast)
           /\ ~Sends(i, accept) => (Mid(fifos'[i]) <=> Mid(fifos[i]))
           /\ Sends(i, accept) => (Mid(fifos[i]) <=> ~FirstBeat(i).header)
           /\ Mid(fifos[i]) => Valid(i)
           /\ ~Sends(i, accept) => fifos'[i].rd_ptr = fifos[i].rd_ptr
<1> DEFINE f == fifos[i]
           g == gen[i]
           beat == [flow |-> i, header |-> g.is_header, tlast |-> LastBeat(g, config[i])]
           tready == FifoTready(i, accept)
<1>1. /\ Good(f) /\ Framed(f, g) /\ g \in GenRegs
      /\ config[i] \in Config /\ flow_running[i] \in BOOLEAN
  BY DEF FlowInv, Whole, FlowType
<1>2. tready \in BOOLEAN /\ GenValid(g) \in BOOLEAN
  BY Zenon DEF FifoTready, GenValid
<1>3. /\ gen'[i] = GenClock(g, config[i], flow_running[i], F!SReady(f))
      /\ fifos'[i] = F!Clock(f, GenValid(g), beat, tready)
  BY Zenon DEF Edge, GenBeat
<1>4. beat \in FlowBeat
  <2>1. g.is_header \in BOOLEAN /\ LastBeat(g, config[i]) \in BOOLEAN
    BY <1>1, Zenon DEF GenRegs, LastBeat
  <2>. QED BY <2>1 DEF FlowBeat
<1>5. Sends(i, accept) <=> F!ReadEn(f, tready)
  BY Zenon DEF Sends, Valid, F!ReadEn
<1>6. /\ Good(fifos'[i]) /\ gen'[i] \in GenRegs /\ Framed(fifos'[i], gen'[i])
      /\ F!ReadEn(f, tready) => (Mid(fifos'[i]) <=> ~f.mem[f.rd_ptr].tlast)
      /\ ~F!ReadEn(f, tready) => (Mid(fifos'[i]) <=> Mid(f))
  <2> HIDE DEF tready, f, g
  <2>. QED BY <1>1, <1>2, <1>3, FramedStep
<1>7. /\ F!ReadEn(f, tready) => Held(f) # << >>
      /\ ~F!ReadEn(f, tready) => fifos'[i].rd_ptr = f.rd_ptr
  <2> HIDE DEF tready, f, g, beat
  <2>. QED BY <1>1, <1>2, <1>3, <1>4, EdgeFacts
<1>8. /\ f.empty <=> Held(f) = << >>
      /\ Held(f) # << >> => Held(f)[1] = f.mem[f.rd_ptr]
  <2> HIDE DEF f
  <2>. QED BY <1>1, HeldFacts
<1>9. Sends(i, accept) => i = current_flow
  BY Zenon DEF Sends, FifoTready
<1>10. Sends(i, accept) => (Mid(f) <=> ~FirstBeat(i).header)
  <2>1. FirstBeat(i) = f.mem[f.rd_ptr]
    BY Zenon DEF FirstBeat
  <2> HIDE DEF f, tready
  <2>. QED BY <2>1, <1>5, <1>7, <1>8, Zenon DEF Mid
<1>11. Mid(f) => Valid(i)
  <2>1. Mid(f) => Held(f) # << >> /\ ~f.tlast_rd
    BY <1>1, Zenon DEF Mid, Framed
  <2>2. Valid(i) <=> ~f.empty /\ ~f.tlast_rd
    BY Zenon DEF Valid, F!MValid
  <2>. QED BY <2>1, <2>2, <1>8, Zenon
<1>12. FirstBeat(i) = f.mem[f.rd_ptr]
  BY Zenon DEF FirstBeat
<1> HIDE DEF tready
<1>. QED BY <1>5, <1>6, <1>7, <1>9, <1>10, <1>11, <1>12, Zenon

\* No packet is left before its end: its flow has a beat to send in every cycle.
LEMMA EdgeWhole ==
    ASSUME FlowInv, NEW accept \in BOOLEAN, Edge(accept)
    PROVE  Whole'
<1> DEFINE cur == current_flow
<1>1. cur \in Flow /\ open \in Flow \union {NoFlow} /\ NoFlow \notin Flow
  BY FlowAssumption DEF FlowInv, FlowType, NoFlow, Flow
<1>2. /\ \A i \in Flow : open = i <=> Mid(fifos[i])
      /\ open # NoFlow => open = cur
  BY DEF FlowInv, Whole
<1>3. open' = IF Sends(cur, accept)
              THEN IF FirstBeat(cur).tlast THEN NoFlow ELSE cur
              ELSE open
  BY Zenon DEF Edge, Observe
<1>4. \A i \in Flow : Good(fifos'[i]) /\ Framed(fifos'[i], gen'[i])
  BY EdgeOfFlow
<1>5. ASSUME NEW i \in Flow PROVE open' = i <=> Mid(fifos'[i])
  <2>1. CASE Sends(cur, accept) /\ i = cur
    BY <2>1, <1>1, <1>3, EdgeOfFlow
  <2>2. CASE Sends(cur, accept) /\ i # cur
    <3>1. ~Sends(i, accept) /\ (Mid(fifos'[i]) <=> Mid(fifos[i]))
      BY <2>2, EdgeOfFlow
    <3>2. open # i /\ open' # i
      BY <2>2, <1>1, <1>2, <1>3
    <3>. QED BY <3>1, <3>2, <1>2
  <2>3. CASE ~Sends(cur, accept)
    <3>1. ~Sends(i, accept)
      BY <2>3, EdgeOfFlow
    <3>. QED BY <3>1, <2>3, <1>2, <1>3, EdgeOfFlow
  <2>. QED BY <2>1, <2>2, <2>3
<1>6. ASSUME open' # NoFlow PROVE open' = current_flow'
  <2>1. open' = cur
    BY <1>2, <1>3, <1>6
  <2>2. ~PacketComplete(accept) /\ Valid(cur)
    <3>1. CASE Sends(cur, accept)
      BY <3>1, <1>3, <1>6 DEF PacketComplete, Sends
    <3>2. CASE ~Sends(cur, accept)
      <4>1. Mid(fifos[cur])
        BY <3>2, <2>1, <1>1, <1>2, <1>3
      <4>. QED BY <3>2, <4>1, <1>1, EdgeOfFlow DEF PacketComplete
    <3>. QED BY <3>1, <3>2
  <2>3. ~SwitchTrigger(accept)
    BY <2>2, Zenon DEF SwitchTrigger
  <2>. QED BY <2>1, <2>3, Zenon DEF Edge
<1>. QED BY <1>4, <1>5, <1>6, Zenon DEF Whole

\* A waiting flow sees at most one packet begin in each of the turns before its.
LEMMA EdgeTurn ==
    ASSUME FlowInv, NEW accept \in BOOLEAN, Edge(accept)
    PROVE  NextTurn'
<1> DEFINE cur == current_flow
           next == current_flow'
<1>1. /\ NumFlows \in Nat /\ NumFlows > 0 /\ Flow = 0 .. NumFlows - 1
      /\ cur \in Flow /\ over \in [Flow -> Nat] /\ open \in Flow \union {NoFlow}
      /\ NoFlow \notin Flow
  BY FlowAssumption DEF FlowInv, FlowType, NoFlow, Flow
<1>2. NextFlow \in Flow
  BY <1>1, Nearer
<1>3. next = (IF SwitchTrigger(accept) THEN NextFlow ELSE cur) /\ next \in Flow
  BY <1>1, <1>2, Zenon DEF Edge
<1>4. open' = IF Sends(cur, accept)
              THEN IF FirstBeat(cur).tlast THEN NoFlow ELSE cur
              ELSE open
  BY Zenon DEF Edge, Observe
<1> SUFFICES ASSUME NEW i \in Flow
             PROVE  /\ over'[i] < NumFlows
                    /\ over'[i] + Dist1(next, i)
                         <= IF open' = NoFlow THEN NumFlows - 1 ELSE NumFlows
  BY Zenon DEF NextTurn
<1>5. over'[i] = IF i = cur \/ ~Valid(i) \/ ~flow_running[i] THEN 0
                 ELSE IF Sends(cur, accept) /\ FirstBeat(cur).header
                      THEN over[i] + 1 ELSE over[i]
  BY Zenon DEF Edge, Observe
<1>6. Dist1(next, i) \in 0 .. NumFlows - 1 /\ Dist1(cur, i) \in 0 .. NumFlows - 1
      /\ (i # cur => Dist1(cur, i) >= 1)
  BY <1>1, <1>3, SMT DEF Dist1
<1>7. /\ over[i] \in Nat /\ over[i] < NumFlows
      /\ over[i] + Dist1(cur, i) <= IF open = NoFlow THEN NumFlows - 1 ELSE NumFlows
  BY <1>1 DEF FlowInv, NextTurn
<1>8. CASE i = cur \/ ~Valid(i) \/ ~flow_running[i]
  <2>1. over'[i] = 0
    BY <1>5, <1>8
  <2> HIDE DEF next
  <2>. QED BY <2>1, <1>1, <1>6
<1>9. CASE ~(i = cur \/ ~Valid(i) \/ ~flow_running[i])
  <2>1. /\ Valid(NextFlow)
        /\ Dist1(NextFlow, i) < Dist1(cur, i)
    BY <1>1, <1>9, Nearer
  <2>2. SwitchTrigger(accept) <=> PacketComplete(accept) \/ ~Valid(cur)
    BY <2>1, Zenon DEF SwitchTrigger
  <2>3. PacketComplete(accept) <=> Sends(cur, accept) /\ FirstBeat(cur).tlast
    BY Zenon DEF PacketComplete
  <2>4. Sends(cur, accept) => Valid(cur)
    BY Zenon DEF Sends
  <2>5. /\ SwitchTrigger(accept) => Dist1(next, i) < Dist1(cur, i)
        /\ ~SwitchTrigger(accept) => Dist1(next, i) = Dist1(cur, i)
    BY <1>3, <2>1, Zenon
  <2>6. CASE Sends(cur, accept) /\ FirstBeat(cur).header
    <3>1. open = NoFlow
      <4>1. ~Mid(fifos[cur])
        BY <2>6, <1>1, EdgeOfFlow
      <4>. QED BY <4>1, <1>1 DEF FlowInv, Whole
    <3>2. over'[i] = over[i] + 1
      BY <1>5, <1>9, <2>6
    <3>3. CASE FirstBeat(cur).tlast
      <4>1. Dist1(next, i) < Dist1(cur, i) /\ open' = NoFlow
        BY <3>3, <2>2, <2>3, <2>5, <2>6, <1>4
      <4> HIDE DEF next, cur
      <4>. QED BY <3>1, <3>2, <4>1, <1>1, <1>6, <1>7, <1>9, SMTT(30)
    <3>4. CASE ~FirstBeat(cur).tlast
      <4>1. Dist1(next, i) = Dist1(cur, i) /\ open' # NoFlow
        BY <3>4, <2>2, <2>3, <2>4, <2>5, <2>6, <1>1, <1>4
      <4> HIDE DEF next, cur
      <4>. QED BY <3>1, <3>2, <4>1, <1>1, <1>6, <1>7, <1>9, SMTT(30)
    <3>. QED BY <3>3, <3>4
  <2>7. CASE ~(Sends(cur, accept) /\ FirstBeat(cur).header)
    <3>1. over'[i] = over[i]
      BY <1>5, <1>9, <2>7
    <3>2. CASE SwitchTrigger(accept)
      <4>1. Dist1(next, i) < Dist1(cur, i)
        BY <3>2, <2>5
      <4> HIDE DEF next, cur
      <4>. QED BY <3>1, <4>1, <1>1, <1>6, <1>7, SMTT(30)
    <3>3. CASE ~SwitchTrigger(accept)
      <4>1. Dist1(next, i) = Dist1(cur, i)
        BY <3>3, <2>5
      <4>2. open' = NoFlow => open = NoFlow
        BY <3>3, <2>2, <2>3, <1>1, <1>4
      <4> HIDE DEF next, cur
      <4>. QED BY <3>1, <4>1, <4>2, <1>1, <1>6, <1>7
    <3>. QED BY <3>2, <3>3
  <2>. QED BY <2>6, <2>7
<1>. QED BY <1>8, <1>9

\* A counter that goes up goes up no faster than the clock, and both begin with
\* the packet.
LEMMA EdgePaced ==
    ASSUME FlowInv, NEW accept \in BOOLEAN, Edge(accept), NEW i \in Flow
    PROVE  /\ gen'[i].state # "IDLE" => since'[i] > gen'[i].wait \/ since'[i] >= MaxCount
           /\ gen[i].state = "WAIT" /\ gen'[i].state = "TRANSFER"
                => since[i] >= gen[i].cycles_pkt
           /\ since'[i] \in Nat
<1> DEFINE g == gen[i]
           n == gen'[i]
           tready == F!SReady(fifos[i])
<1>1. /\ g \in GenRegs /\ config[i] \in Config /\ flow_running[i] \in BOOLEAN
      /\ since[i] \in Nat
  BY DEF FlowInv, FlowType
<1>2. tready \in BOOLEAN
  BY Zenon DEF F!SReady
<1>3. n = GenClock(g, config[i], flow_running[i], tready)
  BY Zenon DEF Edge
<1>4. since'[i] = IF Starts(i) THEN 1 ELSE Up(since[i])
  BY Zenon DEF Edge, Observe
<1>5. Starts(i) <=> g.state # "TRANSFER" /\ n.state = "TRANSFER"
  BY Zenon DEF Starts
<1>6. MaxCount \in Nat
  BY <1>1, CountBound
<1>7. g.state # "IDLE" => since[i] > g.wait \/ since[i] >= MaxCount
  BY Zenon DEF FlowInv, Paced
<1>8. /\ n \in GenRegs
      /\ g.state = "TRANSFER" /\ ~tready => n = g
      /\ g.state = "TRANSFER" /\ tready => n.wait = Up(g.wait)
      /\ g.state = "IDLE" => n.state # "WAIT" /\ n.wait = 0
      /\ g.state = "WAIT" =>
           /\ n.state = "TRANSFER" => Elapsed(g) /\ n.wait = 0
           /\ n.state = "WAIT" => n.wait = Up(g.wait) \/ n.wait = 0
  <2> HIDE DEF n, g, tready
  <2>. QED BY <1>1, <1>2, <1>3, GenEdge
<1>9. /\ g.state \in {"IDLE", "TRANSFER", "WAIT"} /\ n.state \in {"IDLE", "TRANSFER", "WAIT"}
      /\ g.wait \in Nat /\ n.wait \in Nat /\ g.cycles_pkt \in 0 .. MaxCount
  BY <1>1, <1>8 DEF GenRegs
<1> HIDE DEF g, n, tready
<1>10. since'[i] \in Nat
  BY <1>1, <1>4, <1>6, UpType
<1>11. /\ Up(g.wait) \in Nat /\ Up(g.wait) <= g.wait + 1
       /\ Up(since[i]) \in Nat
       /\ since[i] < MaxCount => Up(since[i]) = since[i] + 1
       /\ since[i] >= MaxCount => Up(since[i]) = since[i]
  BY <1>1, <1>6, <1>9, UpType
<1>12. ASSUME n.state # "IDLE" PROVE since'[i] > n.wait \/ since'[i] >= MaxCount
  <2>1. CASE Starts(i)
    <3>1. n.wait = 0
      BY <2>1, <1>5, <1>8, <1>9
    <3>. QED BY <2>1, <3>1, <1>4
  <2>2. CASE ~Starts(i)
    <3>1. g.state # "IDLE" /\ (n.wait = Up(g.wait) \/ n.wait = 0 \/ n.wait = g.wait)
      BY <2>2, <1>5, <1>8, <1>9, <1>12
    <3>2. since'[i] = Up(since[i])
      BY <2>2, <1>4
    <3>3. CASE since[i] >= MaxCount
      BY <3>2, <3>3, <1>11
    <3>4. CASE since[i] < MaxCount
      <4>1. since'[i] = since[i] + 1 /\ since[i] > g.wait
        BY <3>1, <3>2, <3>4, <1>1, <1>6, <1>7, <1>11
      <4>. QED BY <3>1, <4>1, <1>1, <1>9, <1>11
    <3>. QED BY <3>3, <3>4, <1>1, <1>6
  <2>. QED BY <2>1, <2>2
<1>13. ASSUME g.state = "WAIT", n.state = "TRANSFER" PROVE since[i] >= g.cycles_pkt
  <2>1. g.wait >= g.cycles_pkt - 1
    BY <1>8, <1>13 DEF Elapsed
  <2>2. since[i] > g.wait \/ since[i] >= MaxCount
    BY <1>7, <1>13
  <2>. QED BY <2>1, <2>2, <1>1, <1>6, <1>9
<1>. QED BY <1>10, <1>12, <1>13 DEF g, n

LEMMA EdgeType ==
    ASSUME FlowInv, NEW accept \in BOOLEAN, Edge(accept)
    PROVE  FlowType'
<1>1. config' = config /\ flow_running' = flow_running
  BY DEF Edge
<1>2. config \in [Flow -> Config] /\ flow_running \in [Flow -> BOOLEAN]
      /\ current_flow \in Flow /\ open \in Flow \union {NoFlow} /\ over \in [Flow -> Nat]
  BY DEF FlowInv, FlowType
<1>3. gen' \in [Flow -> GenRegs]
  <2> DEFINE S(i) == GenClock(gen[i], config[i], flow_running[i], F!SReady(fifos[i]))
  <2>1. gen' = [i \in Flow |-> S(i)]
    BY Zenon DEF Edge
  <2>2. \A i \in Flow : gen'[i] \in GenRegs
    BY EdgeOfFlow
  <2> HIDE DEF S
  <2>. QED BY <2>1, <2>2
<1>4. fifos' \in [Flow -> P!Fifo]
  <2> DEFINE S(i) == F!Clock(fifos[i], GenValid(gen[i]), GenBeat(i), FifoTready(i, accept))
  <2>1. fifos' = [i \in Flow |-> S(i)]
    BY Zenon DEF Edge
  <2>2. \A i \in Flow : fifos'[i] \in P!Fifo
    BY EdgeOfFlow DEF Good
  <2> HIDE DEF S
  <2>. QED BY <2>1, <2>2
<1>5. current_flow' \in Flow
  <2>1. NextFlow \in Flow
    BY <1>2, Nearer
  <2>. QED BY <2>1, <1>2, Zenon DEF Edge
<1>6. open' \in Flow \union {NoFlow}
  <2>1. open' = IF Sends(current_flow, accept)
                THEN IF FirstBeat(current_flow).tlast THEN NoFlow ELSE current_flow
                ELSE open
    BY Zenon DEF Edge, Observe
  <2>. QED BY <2>1, <1>2
<1>7. over' \in [Flow -> Nat]
  <2> DEFINE S(i) == IF i = current_flow \/ ~Valid(i) \/ ~flow_running[i] THEN 0
                     ELSE IF Sends(current_flow, accept) /\ FirstBeat(current_flow).header
                          THEN over[i] + 1 ELSE over[i]
  <2>1. over' = [i \in Flow |-> S(i)]
    BY Zenon DEF Edge, Observe
  <2>2. \A i \in Flow : S(i) \in Nat
    BY <1>2
  <2> HIDE DEF S
  <2>. QED BY <2>1, <2>2
<1>8. since' \in [Flow -> Nat]
  <2> DEFINE S(i) == IF Starts(i) THEN 1 ELSE Up(since[i])
  <2>1. since' = [i \in Flow |-> S(i)]
    BY Zenon DEF Edge, Observe
  <2>2. \A i \in Flow : since'[i] \in Nat
    BY EdgePaced
  <2> HIDE DEF S
  <2>. QED BY <2>1, <2>2
<1>. QED BY <1>1, <1>2, <1>3, <1>4, <1>5, <1>6, <1>7, <1>8 DEF FlowType

-----------------------------------------------------------------------------
(* Every step. *)

LEMMA FlowInitInv == ASSUME FlowInit PROVE FlowInv
<1>1. /\ NumFlows \in Nat /\ NumFlows > 0 /\ Flow = 0 .. NumFlows - 1 /\ NoFlow \notin Flow
      /\ FifoDepth \in Nat /\ FifoDepth > 1
  BY FlowAssumption, SMT DEF Flow, NoFlow
<1>2. config \in [Flow -> Config]
  BY DEF FlowInit, Config
<1>3. ASSUME NEW i \in Flow
      PROVE  gen[i] \in GenRegs /\ gen[i].state = "IDLE"
  <2>1. gen[i] = [ state |-> "IDLE", wait |-> 0, trans |-> 0, is_header |-> TRUE,
                   cycles_pkt |-> config[i].cycles_per_pkt ]
    BY Zenon DEF FlowInit
  <2>2. config[i].cycles_per_pkt \in 0 .. MaxCount
    BY <1>2, CountBound
  <2>. QED BY <2>1, <2>2 DEF GenRegs
<1>4. ASSUME NEW i \in Flow
      PROVE  Good(fifos[i]) /\ fifos[i].empty /\ ~fifos[i].tlast_rd
  <2> DEFINE mem == [a \in 0 .. FifoDepth - 1 |-> [flow |-> i, header |-> FALSE, tlast |-> FALSE]]
  <2>1. fifos[i] = [ mem |-> mem, wr_ptr |-> 0, rd_ptr |-> 0,
                     full |-> FALSE, empty |-> TRUE, tlast_rd |-> FALSE ]
    BY Zenon DEF FlowInit, F!Reset
  <2>2. mem \in [P!Addr -> FlowBeat]
    BY DEF P!Addr, FlowBeat
  <2>3. 0 \in P!Addr
    BY <1>1 DEF P!Addr
  <2> HIDE DEF mem
  <2>4. fifos[i] \in P!Fifo
    BY <2>1, <2>2, <2>3 DEF P!Fifo
  <2>5. P!Exact(fifos[i])
    BY <2>1 DEF P!Exact
  <2>. QED BY <2>1, <2>4, <2>5 DEF Good
<1>5. FlowType
  <2>1. gen \in [Flow -> GenRegs]
    <3>1. gen = [i \in Flow |-> gen[i]]
      BY Zenon DEF FlowInit
    <3>. QED BY <3>1, <1>3
  <2>2. fifos \in [Flow -> P!Fifo]
    <3>1. fifos = [i \in Flow |-> fifos[i]]
      BY Zenon DEF FlowInit
    <3>. QED BY <3>1, <1>4 DEF Good
  <2>3. /\ flow_running = [i \in Flow |-> FALSE] /\ current_flow = 0 /\ open = NoFlow
        /\ over = [i \in Flow |-> 0] /\ since = [i \in Flow |-> 0]
    BY Zenon DEF FlowInit
  <2>4. current_flow \in Flow
    BY <1>1, <2>3
  <2>. QED BY <1>2, <2>1, <2>2, <2>3, <2>4 DEF FlowType
<1>6. Whole
  <2>1. ASSUME NEW i \in Flow
        PROVE  Good(fifos[i]) /\ Framed(fifos[i], gen[i]) /\ (open = i <=> Mid(fifos[i]))
    <3>1. Held(fifos[i]) = << >>
      BY <1>4, HeldFacts
    <3>2. ~Mid(fifos[i]) /\ Begins(gen[i])
      BY <1>3, <3>1 DEF Mid, Begins
    <3>3. Framed(fifos[i], gen[i])
      <4>1. 1 .. Len(Held(fifos[i])) - 1 = {}
        BY <3>1
      <4>. QED BY <3>1, <3>2, <4>1 DEF Framed
    <3>. QED BY <1>1, <1>4, <3>2, <3>3 DEF FlowInit
  <2>. QED BY <2>1 DEF Whole, FlowInit
<1>7. NextTurn
  <2> SUFFICES ASSUME NEW i \in Flow
               PROVE  /\ over[i] < NumFlows
                      /\ over[i] + Dist1(current_flow, i)
                           <= IF open = NoFlow THEN NumFlows - 1 ELSE NumFlows
    BY DEF NextTurn
  <2>1. over[i] = 0 /\ current_flow = 0 /\ open = NoFlow
    BY DEF FlowInit
  <2>. QED BY <1>1, <2>1 DEF Dist1
<1>8. Paced
  BY <1>3 DEF Paced
<1>. QED BY <1>5, <1>6, <1>7, <1>8 DEF FlowInv

\* A register write of the driver touches nothing the invariant is about.
LEMMA WriteInv == ASSUME FlowInv, WriteConfig \/ WriteRunning PROVE FlowInv'
<1>1. UNCHANGED << gen, fifos, current_flow, open, over, since >>
  BY DEF WriteConfig, WriteRunning
<1>2. config' \in [Flow -> Config] /\ flow_running' \in [Flow -> BOOLEAN]
  <2>1. config \in [Flow -> Config] /\ flow_running \in [Flow -> BOOLEAN]
    BY DEF FlowInv, FlowType
  <2>2. CASE WriteConfig
    <3>1. PICK i \in Flow :
            \/ \E s \in Sizes : config' = [config EXCEPT ![i].pkt_size = s]
            \/ \E r \in Rates : config' = [config EXCEPT ![i].cycles_per_pkt = r]
      BY <2>2 DEF WriteConfig
    <3>2. config' \in [Flow -> Config]
      BY <2>1, <3>1 DEF Config
    <3>. QED BY <2>1, <2>2, <3>2 DEF WriteConfig
  <2>3. CASE WriteRunning
    BY <2>1, <2>3 DEF WriteRunning
  <2>. QED BY <2>2, <2>3
<1>3. FlowType'
  BY <1>1, <1>2 DEF FlowInv, FlowType
<1>4. Whole'
  BY <1>1 DEF FlowInv, Whole, Mid, Framed, Begins, Held, Good
<1>5. NextTurn' /\ Paced'
  BY <1>1 DEF FlowInv, NextTurn, Paced, Dist1
<1>. QED BY <1>3, <1>4, <1>5 DEF FlowInv

LEMMA FlowStep == ASSUME FlowInv, [FlowNext]_flowVars PROVE FlowInv'
<1>1. CASE Tick
  <2>1. PICK accept \in BOOLEAN : Edge(accept)
    BY <1>1, TickIsEdge
  <2>2. Paced'
    BY <2>1, EdgePaced, Zenon DEF Paced
  <2>. QED BY <2>1, <2>2, EdgeType, EdgeWhole, EdgeTurn DEF FlowInv
<1>2. CASE WriteConfig \/ WriteRunning
  BY <1>2, WriteInv
<1>3. CASE UNCHANGED flowVars
  BY <1>3 DEF flowVars, FlowInv, FlowType, Whole, NextTurn, Paced, Mid, Framed, Begins,
              Held, Good, Dist1
<1>. QED BY <1>1, <1>2, <1>3 DEF FlowNext

\* The registers hold what they can, and the invariant of FIFOs, scheduler and
\* pace is kept by every clock edge and every register write of the driver.
THEOREM FlowInvHolds == FlowSpec => []FlowInv
<1>1. FlowInit => FlowInv
  BY FlowInitInv
<1>2. FlowInv /\ [FlowNext]_flowVars => FlowInv'
  BY FlowStep
<1>. QED BY <1>1, <1>2, PTL DEF FlowSpec

\* From the moment a running flow has a beat to send, each other flow begins at
\* most one packet before it (RoundRobin), for any number of flows
\* (flow_gen.sv, next_flow and switch_trigger).
THEOREM TurnComes == FlowSpec => []RoundRobin
<1>1. FlowInv => RoundRobin
  BY DEF FlowInv, NextTurn, RoundRobin
<1>. QED BY <1>1, FlowInvHolds, PTL

\* The beats of two packets never mix on the output (PacketsWhole), for FIFOs of
\* any depth: a FIFO that holds the rest of a packet does not run empty before
\* its end, since the generator adds a beat in every cycle in which there is
\* room (flow_gen.sv, current_flow_empty; traffic_gen.sv, TRANSFER).
THEOREM PacketsNeverMix == FlowSpec => PacketsWhole
<1> DEFINE Begun == \A i \in Flow : fifos'[i].rd_ptr # fifos[i].rd_ptr =>
                       open = (IF FirstBeat(i).header THEN NoFlow ELSE i)
<1>1. FlowInv /\ [FlowNext]_flowVars => [Begun]_flowVars
  <2> SUFFICES ASSUME FlowInv, FlowNext PROVE Begun
    OBVIOUS
  <2>1. CASE Tick
    <3>1. PICK accept \in BOOLEAN : Edge(accept)
      BY <2>1, TickIsEdge
    <3> SUFFICES ASSUME NEW i \in Flow, fifos'[i].rd_ptr # fifos[i].rd_ptr
                 PROVE  open = (IF FirstBeat(i).header THEN NoFlow ELSE i)
      OBVIOUS
    <3>2. i = current_flow /\ (Mid(fifos[i]) <=> ~FirstBeat(i).header)
      BY <3>1, EdgeOfFlow
    <3>3. (open = i <=> Mid(fifos[i])) /\ (open # NoFlow => open = current_flow)
      BY DEF FlowInv, Whole
    <3>. QED BY <3>2, <3>3
  <2>2. CASE WriteConfig \/ WriteRunning
    BY <2>2 DEF WriteConfig, WriteRunning
  <2>. QED BY <2>1, <2>2 DEF FlowNext
<1>. QED BY <1>1, FlowInvHolds, PTL DEF FlowSpec, PacketsWhole

\* While a flow keeps running its packets begin at least cycles_pkt cycles apart
\* (Pace), whatever held them up (traffic_gen.sv, wait_counter).
THEOREM PaceKept == FlowSpec => Pace
<1> DEFINE Late == \A i \in Flow : gen[i].state = "WAIT" /\ gen'[i].state = "TRANSFER" =>
                      since[i] >= gen[i].cycles_pkt
<1>1. FlowInv /\ [FlowNext]_flowVars => [Late]_flowVars
  <2> SUFFICES ASSUME FlowInv, FlowNext PROVE Late
    OBVIOUS
  <2>1. CASE Tick
    <3>1. PICK accept \in BOOLEAN : Edge(accept)
      BY <2>1, TickIsEdge
    <3>. QED BY <3>1, EdgePaced
  <2>2. CASE WriteConfig \/ WriteRunning
    BY <2>2 DEF WriteConfig, WriteRunning
  <2>. QED BY <2>1, <2>2 DEF FlowNext
<1>. QED BY <1>1, FlowInvHolds, PTL DEF FlowSpec, Pace

-----------------------------------------------------------------------------
(* The table of connections of the TCP engine. *)

LookFields == {"read_d", "dout", "tcb_valid", "tcb_addr", "mem", "valid", "bitmap", "cellOf",
               "mapped", "tcb_alloc", "asked", "of", "crossed"}

\* The header queue, as far as the table depends on it.
HeadersKnown ==
    /\ queue \in Seq([word: Header, wait: Nat])
    /\ hdr.conn \in Conn

\* A lookup takes three cycles, and no other begins before it has ended.
OneLookup ==
    /\ look.read_d \in BOOLEAN /\ look.tcb_valid \in BOOLEAN /\ looking \in BOOLEAN
    /\ looking <=> look.read_d \/ look.tcb_valid
    /\ ~(look.read_d /\ look.tcb_valid)
    /\ look.read_d => look.asked \in Conn

\* What is compared was read for the header that was asked for.
ReadsAsked(c) ==
    c.read_d => \A i \in Way : /\ c.dout.l[i] = c.mem[<< i, HashL[c.asked].set >>]
                               /\ c.dout.r[i] = c.mem[<< i, HashR[c.asked].set >>]

\* Cell p is where a lookup of t looks, and what it looks for.
IsFor(c, p, t) ==
    \E hash \in {HashL[t], HashR[t]} : p[2] = hash.set /\ c.mem[p].tag = hash.tag

\* The table agrees with itself.
TableRight(c) ==
    /\ c.mem \in [Cell -> [tag: Nat, addr: Block]]
    /\ c.cellOf \in [Block -> Cell]
    /\ c.valid \subseteq Cell
    /\ c.mapped \subseteq 0 .. c.tcb_alloc - 1
    /\ c.mapped = c.bitmap
    /\ \A k \in c.mapped : c.cellOf[k] \in c.valid
    /\ \A p \in c.valid : c.mem[p].addr \in c.mapped /\ c.cellOf[c.mem[p].addr] = p
    /\ \A k \in c.mapped : c.mem[c.cellOf[k]].addr = k

\* The cell of a block is the one its connection is looked for in, and only the
\* connections of S have two.
OwnersRight(c, S) ==
    /\ DOMAIN c.of = Block
    /\ \A k \in c.mapped : c.of[k] \in Conn /\ IsFor(c, c.cellOf[k], c.of[k])
    /\ \A j, k \in c.mapped : j # k /\ c.of[j] = c.of[k] => c.of[j] \in S

\* The inductive invariant, as long as blocks are left.
EngineInv ==
    /\ DOMAIN look = LookFields
    /\ HeadersKnown /\ OneLookup
    /\ look.tcb_alloc \in Block
    /\ look.tcb_alloc < LastBlock => ReadsAsked(look) /\ TableRight(look) /\ OwnersRight(look, look.crossed)

-----------------------------------------------------------------------------
LEMMA HashesAre ==
    ASSUME NEW t \in Conn
    PROVE  /\ HashL[t].set \in 0 .. Sets - 1 /\ HashL[t].tag \in Nat
           /\ HashR[t].set \in 0 .. Sets - 1 /\ HashR[t].tag \in Nat
BY EngineAssumption

\* A free way exists where one was looked for.
LEMMA FreeCell ==
    ASSUME NEW c, NEW t \in Conn, NEW side, side = Side(c, t), side # "none", NEW p,
           p = CellFor(c, side, t)
    PROVE  /\ p \in Cell /\ p \notin c.valid
           /\ \E hash \in {HashL[t], HashR[t]} : hash = SideHash(side, t) /\ p[2] = hash.set
<1>1. PICK hash \in {HashL[t], HashR[t]} : hash = SideHash(side, t)
  BY DEF SideHash
<1>2. hash.set \in 0 .. Sets - 1
  BY HashesAre
<1>3. FreeWays(c, hash) # {}
  BY <1>1 DEF Side, SideHash
<1>4. FreeWays(c, hash) \subseteq Nat /\ Ways - 1 \in Nat /\ \A k \in FreeWays(c, hash) : k <= Ways - 1
  BY CacheAssumption DEF FreeWays, Way
<1>5. PICK i : i = Max(FreeWays(c, hash)) /\ i \in FreeWays(c, hash)
  BY <1>3, <1>4, MaxOf
<1>6. i \in Way /\ << i, hash.set >> \notin c.valid
  BY <1>5 DEF FreeWays
<1>7. p = << i, hash.set >>
  BY <1>1, <1>5 DEF CellFor
<1>. QED BY <1>1, <1>2, <1>6, <1>7 DEF Cell

\* A miss of the header that was asked for means that no valid cell is for it.
LEMMA MissFinds ==
    ASSUME NEW c, c.asked \in Conn, ReadsAsked(c), ReadMiss(c, c.asked), NEW p \in Cell,
           p \in c.valid
    PROVE  ~IsFor(c, p, c.asked)
<1>. SUFFICES ASSUME IsFor(c, p, c.asked) PROVE FALSE
  OBVIOUS
<1>1. PICK t : t = c.asked
  OBVIOUS
<1>2. PICK i \in Way, s \in 0 .. Sets - 1 : p = << i, s >>
  BY DEF Cell
<1>3. /\ c.dout.l[i] = c.mem[<< i, HashL[t].set >>]
      /\ c.dout.r[i] = c.mem[<< i, HashR[t].set >>]
  BY <1>1 DEF ReadsAsked, ReadMiss
<1>4. i \notin HitsL(c, t) /\ i \notin HitsR(c, t)
  BY <1>1 DEF ReadMiss
<1>5. CASE s = HashL[t].set /\ c.mem[p].tag = HashL[t].tag
  BY <1>2, <1>3, <1>4, <1>5 DEF HitsL, Hits
<1>6. CASE s = HashR[t].set /\ c.mem[p].tag = HashR[t].tag
  BY <1>2, <1>3, <1>4, <1>6 DEF HitsR, Hits
<1>. QED BY <1>1, <1>2, <1>5, <1>6 DEF IsFor

\* Whom a cell is for depends on nothing but its tag.
LEMMA SameFor ==
    ASSUME NEW c, NEW d, NEW p, NEW t, d.mem[p] = c.mem[p]
    PROVE  IsFor(c, p, t) <=> IsFor(d, p, t)
BY DEF IsFor

\* A block is given out, to whom its cell is for, in a cell that was free.
LEMMA AllocateKeeps ==
    ASSUME NEW c, DOMAIN c = LookFields, NEW t \in Conn,
           c.tcb_alloc \in Block, c.tcb_alloc < LastBlock,
           TableRight(c), NEW d, d = Allocate(c, t), NEW S
    PROVE  /\ DOMAIN d = LookFields /\ d.tcb_alloc \in Block
           /\ TableRight(d)
           /\ d.crossed = c.crossed
           /\ OwnersRight(c, S) /\ (\A p \in c.valid : IsFor(c, p, t) => t \in S)
                => OwnersRight(d, S)
<1>. DEFINE side == Side(c, t)
           p    == CellFor(c, side, t)
           k    == c.tcb_alloc
<1>1. CASE side = "none"
  BY <1>1 DEF Allocate
<1>2. CASE side # "none"
  <2>1. PICK hash \in {HashL[t], HashR[t]} : hash = SideHash(side, t) /\ p[2] = hash.set
    BY <1>2, FreeCell
  <2>2. p \in Cell /\ p \notin c.valid
    BY <1>2, FreeCell
  <2>3. hash.tag \in Nat
    BY HashesAre
  <2>4. /\ DOMAIN d = LookFields
        /\ d.cellOf = [c.cellOf EXCEPT ![k] = p]
        /\ d.mapped = c.mapped \union {k} /\ d.bitmap = c.bitmap \union {k}
        /\ d.valid = c.valid \union {p}
        /\ d.mem = [c.mem EXCEPT ![p] = [tag |-> hash.tag, addr |-> k]]
        /\ d.tcb_alloc = k + 1
        /\ d.of = [c.of EXCEPT ![k] = t] /\ d.crossed = c.crossed
    BY <1>2, <2>1 DEF Allocate, Occupy, LookFields
  <2>. HIDE DEF side, p
  <2>5. k \in Block /\ k + 1 \in Block /\ k \in 0 .. k /\ k \in Int
    BY CacheAssumption DEF Block, LastBlock
  <2>6. k \notin c.mapped
    BY <2>5 DEF TableRight
  <2>7. /\ d.mem \in [Cell -> [tag: Nat, addr: Block]]
        /\ d.mem[p] = [tag |-> hash.tag, addr |-> k]
        /\ \A o \in Cell : o # p => d.mem[o] = c.mem[o]
    BY <2>2, <2>3, <2>4, <2>5 DEF TableRight
  <2>8. /\ d.cellOf \in [Block -> Cell] /\ d.cellOf[k] = p
        /\ \A j \in Block : j # k => d.cellOf[j] = c.cellOf[j]
    BY <2>2, <2>4, <2>5 DEF TableRight
  <2>9. d.valid \subseteq Cell /\ d.mapped = d.bitmap
    BY <2>2, <2>4 DEF TableRight
  <2>10. d.mapped \subseteq 0 .. d.tcb_alloc - 1
    BY <2>4, <2>5 DEF TableRight
  <2>11. \A j \in c.mapped : j \in Block /\ j # k /\ c.cellOf[j] \in c.valid
    <3>1. k \in 0 .. Blocks - 1 /\ Blocks \in Nat
      BY CacheAssumption DEF Block
    <3>2. \A j \in c.mapped : j \in 0 .. k - 1 /\ c.cellOf[j] \in c.valid
      BY DEF TableRight
    <3>3. \A j \in 0 .. k - 1 : j \in 0 .. Blocks - 1 /\ j # k
      BY <3>1
    <3>. QED BY <3>2, <3>3 DEF Block
  <2>12. \A j \in d.mapped : d.cellOf[j] \in d.valid /\ d.mem[d.cellOf[j]].addr = j
    <3>. TAKE j \in d.mapped
    <3>1. CASE j = k
      BY <2>4, <2>7, <2>8, <3>1
    <3>2. CASE j \in c.mapped
      <4>1. j \in Block /\ j # k /\ c.cellOf[j] \in c.valid /\ c.mem[c.cellOf[j]].addr = j
        BY <2>11, <3>2 DEF TableRight
      <4>2. d.cellOf[j] = c.cellOf[j] /\ c.cellOf[j] \in Cell /\ c.cellOf[j] # p
        BY <2>2, <2>8, <4>1 DEF TableRight
      <4>. QED BY <2>4, <2>7, <4>1, <4>2
    <3>. QED BY <2>4, <3>1, <3>2
  <2>13. \A o \in d.valid : d.mem[o].addr \in d.mapped /\ d.cellOf[d.mem[o].addr] = o
    <3>. TAKE o \in d.valid
    <3>1. CASE o = p
      BY <2>4, <2>7, <2>8, <3>1
    <3>2. CASE o \in c.valid
      <4>1. o \in Cell /\ o # p /\ c.mem[o].addr \in c.mapped /\ c.cellOf[c.mem[o].addr] = o
        BY <2>2, <3>2 DEF TableRight
      <4>. QED BY <2>4, <2>7, <2>8, <2>11, <4>1
    <3>. QED BY <2>4, <3>1, <3>2
  <2>14. TableRight(d)
    BY <2>7, <2>8, <2>9, <2>10, <2>12, <2>13 DEF TableRight
  <2>15. ASSUME OwnersRight(c, S), \A o \in c.valid : IsFor(c, o, t) => t \in S
         PROVE  OwnersRight(d, S)
    <3>1. /\ DOMAIN d.of = Block /\ d.of[k] = t
          /\ \A j \in Block : j # k => d.of[j] = c.of[j]
      BY <2>4, <2>5, <2>15 DEF OwnersRight
    <3>2. \A j \in c.mapped :
             /\ j \in Block /\ j # k /\ d.of[j] = c.of[j]
             /\ d.cellOf[j] = c.cellOf[j] /\ d.mem[c.cellOf[j]] = c.mem[c.cellOf[j]]
             /\ c.cellOf[j] \in c.valid
      <4>1. \A j \in c.mapped : j \in Block /\ j # k /\ c.cellOf[j] \in c.valid
        BY <2>11
      <4>2. \A j \in c.mapped : c.cellOf[j] \in Cell /\ c.cellOf[j] # p
        BY <2>2, <4>1 DEF TableRight
      <4>. QED BY <2>7, <2>8, <3>1, <4>1, <4>2
    <3>3. \A j \in c.mapped : c.of[j] \in Conn /\ IsFor(c, c.cellOf[j], c.of[j])
      BY <2>15 DEF OwnersRight
    <3>4. \A j \in d.mapped : d.of[j] \in Conn /\ IsFor(d, d.cellOf[j], d.of[j])
      <4>. TAKE j \in d.mapped
      <4>1. CASE j = k
        <5>1. IsFor(d, p, t)
          BY <2>1, <2>7 DEF IsFor
        <5>. QED BY <2>8, <3>1, <4>1, <5>1
      <4>2. CASE j \in c.mapped
        <5>1. PICK o, u : o = c.cellOf[j] /\ u = c.of[j]
          OBVIOUS
        <5>2. d.of[j] = u /\ d.cellOf[j] = o /\ d.mem[o] = c.mem[o] /\ u \in Conn /\ IsFor(c, o, u)
          BY <3>2, <3>3, <4>2, <5>1
        <5>3. IsFor(d, o, u)
          BY <5>2, SameFor
        <5>. QED BY <5>2, <5>3
      <4>. QED BY <2>4, <4>1, <4>2
    <3>5. \A j \in c.mapped : c.of[j] = t => t \in S
      BY <2>15, <3>2, <3>3
    <3>6. \A i, j \in c.mapped : i # j /\ c.of[i] = c.of[j] => c.of[i] \in S
      BY <2>15 DEF OwnersRight
    <3>7. \A i, j \in d.mapped : i # j /\ d.of[i] = d.of[j] => d.of[i] \in S
      BY <2>4, <3>1, <3>2, <3>5, <3>6
    <3>. QED BY <3>1, <3>4, <3>7 DEF OwnersRight
  <2>. QED BY <2>4, <2>5, <2>14, <2>15
<1>. QED BY <1>1, <1>2

\* A block is given up, and its cell with it.
LEMMA ForgetKeeps ==
    ASSUME NEW c, DOMAIN c = LookFields, NEW k, NEW d, d = Forget(c, k), NEW S
    PROVE  /\ DOMAIN d = LookFields /\ d.tcb_alloc = c.tcb_alloc
           /\ TableRight(c) => TableRight(d)
           /\ d.crossed = c.crossed
           /\ OwnersRight(c, S) => OwnersRight(d, S)
<1>1. /\ DOMAIN d = LookFields /\ d.tcb_alloc = c.tcb_alloc
      /\ d.mem = c.mem /\ d.cellOf = c.cellOf /\ d.of = c.of /\ d.crossed = c.crossed
      /\ d.bitmap = c.bitmap \ {k} /\ d.mapped = c.mapped \ {k}
      /\ d.valid = IF k \in c.mapped THEN c.valid \ {c.cellOf[k]} ELSE c.valid
  BY DEF Forget, LookFields
<1>2. ASSUME TableRight(c) PROVE TableRight(d)
  <2>1. \A j \in d.mapped : d.cellOf[j] \in d.valid
    BY <1>1, <1>2 DEF TableRight
  <2>2. \A p \in d.valid : d.mem[p].addr \in d.mapped /\ d.cellOf[d.mem[p].addr] = p
    BY <1>1, <1>2 DEF TableRight
  <2>. QED BY <1>1, <1>2, <2>1, <2>2 DEF TableRight
<1>3. ASSUME OwnersRight(c, S) PROVE OwnersRight(d, S)
  BY <1>1, <1>3 DEF OwnersRight, IsFor
<1>. QED BY <1>1, <1>2, <1>3

\* At the last block the counter stays.
LEMMA LastKeeps ==
    ASSUME NEW c, DOMAIN c = LookFields, NEW t, NEW d, d = AllocateLast(c, t)
    PROVE  DOMAIN d = LookFields /\ d.tcb_alloc = c.tcb_alloc /\ d.crossed = c.crossed
BY DEF AllocateLast, Occupy, LookFields

\* One edge: what is compared is what was read for the header asked for, so a
\* second block goes only to a connection that meets another's reading.
LEMMA LookKeeps ==
    ASSUME NEW c, DOMAIN c = LookFields, NEW t \in Conn, NEW pop \in BOOLEAN, NEW invalid,
           c.tcb_alloc \in Block, c.read_d \in BOOLEAN, c.read_d => c.asked \in Conn,
           NEW d, d = LookupClock(c, pop, t, invalid)
    PROVE  /\ DOMAIN d = LookFields /\ d.tcb_alloc \in Block
           /\ d.tcb_alloc < LastBlock => c.tcb_alloc < LastBlock
           /\ d.read_d = pop /\ d.tcb_valid = c.read_d /\ (pop => d.asked = t)
           /\ c.tcb_alloc < LastBlock /\ ReadsAsked(c) /\ TableRight(c) /\ OwnersRight(c, c.crossed)
                => /\ TableRight(d) /\ OwnersRight(d, d.crossed)
                   /\ ~c.read_d => ReadsAsked(d)
<1>. DEFINE base == CASE invalid \in Block -> Forget(c, invalid)
                      [] invalid \notin Block /\ ReadMiss(c, t) ->
                            IF c.tcb_alloc = LastBlock THEN AllocateLast(c, t) ELSE Allocate(c, t)
                      [] OTHER -> c
<1>1. PICK e : e = base
  OBVIOUS
<1>2. PICK S : S = IF c.read_d /\ c.asked # t THEN c.crossed \union {t} ELSE c.crossed
  OBVIOUS
<1>3. c.tcb_alloc \in Int /\ LastBlock \in Int /\ c.tcb_alloc <= LastBlock
  BY CacheAssumption DEF Block, LastBlock
<1>. HIDE DEF base
<1>4. \A o : OwnersRight(o, c.crossed) => OwnersRight(o, S)
  BY <1>2 DEF OwnersRight
<1>5. /\ DOMAIN e = LookFields /\ e.tcb_alloc \in Block /\ e.crossed = c.crossed
      /\ e.tcb_alloc < LastBlock => c.tcb_alloc < LastBlock
      /\ c.tcb_alloc < LastBlock /\ ReadsAsked(c) /\ TableRight(c) /\ OwnersRight(c, c.crossed)
           => TableRight(e) /\ OwnersRight(e, S) /\ (~c.read_d => e.mem = c.mem)
  <2>1. CASE invalid \in Block
    <3>1. e = Forget(c, invalid)
      BY <1>1, <2>1 DEF base
    <3>2. e.mem = c.mem
      BY <3>1 DEF Forget, LookFields
    <3>. QED BY <1>4, <3>1, <3>2, ForgetKeeps
  <2>2. CASE invalid \notin Block /\ ReadMiss(c, t) /\ c.tcb_alloc = LastBlock
    <3>1. e = AllocateLast(c, t)
      BY <1>1, <2>2 DEF base
    <3>. QED BY <1>3, <2>2, <3>1, LastKeeps
  <2>3. CASE invalid \notin Block /\ ReadMiss(c, t) /\ c.tcb_alloc # LastBlock
    <3>1. e = Allocate(c, t) /\ c.tcb_alloc < LastBlock /\ c.read_d
      BY <1>1, <1>3, <2>3 DEF base, ReadMiss
    <3>2. ASSUME ReadsAsked(c), TableRight(c), NEW p \in c.valid, IsFor(c, p, t)
          PROVE  t \in S
      <4>1. CASE c.asked = t
        <5>1. p \in Cell
          BY <3>2 DEF TableRight
        <5>. QED BY <2>3, <3>2, <4>1, <5>1, MissFinds
      <4>2. CASE c.asked # t
        BY <1>2, <3>1, <4>2
      <4>. QED BY <4>1, <4>2
    <3>3. ASSUME TableRight(c)
          PROVE  /\ DOMAIN e = LookFields /\ e.tcb_alloc \in Block /\ e.crossed = c.crossed
                 /\ TableRight(e)
                 /\ OwnersRight(c, S) /\ (\A p \in c.valid : IsFor(c, p, t) => t \in S)
                      => OwnersRight(e, S)
      BY <3>1, <3>3, AllocateKeeps
    <3>4. DOMAIN e = LookFields /\ e.tcb_alloc \in Block /\ e.crossed = c.crossed
      <4>1. e = c \/ (DOMAIN e = LookFields /\ e.tcb_alloc = c.tcb_alloc + 1 /\ e.crossed = c.crossed)
        BY <3>1 DEF Allocate, Occupy, LookFields
      <4>. QED BY <1>3, <3>1, <4>1, CacheAssumption DEF Block, LastBlock
    <3>. QED BY <1>4, <3>1, <3>2, <3>3, <3>4
  <2>4. CASE invalid \notin Block /\ ~ReadMiss(c, t)
    <3>1. e = c
      BY <1>1, <2>4 DEF base
    <3>. QED BY <1>4, <3>1
  <2>. QED BY <2>1, <2>2, <2>3, <2>4
<1>6. PICK l, r : /\ l = [i \in Way |-> c.mem[<< i, HashL[t].set >>]]
                  /\ r = [i \in Way |-> c.mem[<< i, HashR[t].set >>]]
  OBVIOUS
<1>7. PICK a : a = IF c.read_d THEN Answer(c, t) ELSE e.tcb_addr
  OBVIOUS
<1>8. d = [ e EXCEPT !.read_d = pop,
                     !.dout = IF pop THEN [l |-> l, r |-> r] ELSE @,
                     !.tcb_valid = c.read_d,
                     !.tcb_addr = a,
                     !.asked = IF pop THEN t ELSE @,
                     !.crossed = S ]
  BY <1>1, <1>2, <1>5, <1>6, <1>7 DEF LookupClock, base
<1>9. /\ DOMAIN d = LookFields /\ d.tcb_alloc = e.tcb_alloc
      /\ d.mem = e.mem /\ d.cellOf = e.cellOf /\ d.of = e.of /\ d.crossed = S
      /\ d.bitmap = e.bitmap /\ d.mapped = e.mapped /\ d.valid = e.valid
      /\ d.read_d = pop /\ d.tcb_valid = c.read_d
      /\ pop => d.asked = t /\ d.dout = [l |-> l, r |-> r]
  BY <1>5, <1>8 DEF LookFields
<1>10. TableRight(e) => TableRight(d)
  BY <1>9 DEF TableRight
<1>11. OwnersRight(e, S) => OwnersRight(d, d.crossed)
  BY <1>9 DEF OwnersRight, IsFor
<1>12. ASSUME e.mem = c.mem PROVE ReadsAsked(d)
  <2>1. CASE pop
    <3>1. d.dout = [l |-> l, r |-> r]
      BY <1>9, <2>1
    <3>2. d.dout.l = l /\ d.dout.r = r
      BY <3>1
    <3>3. d.asked = t /\ d.mem = c.mem
      BY <1>9, <1>12, <2>1
    <3>4. \A i \in Way : l[i] = c.mem[<< i, HashL[t].set >>] /\ r[i] = c.mem[<< i, HashR[t].set >>]
      BY <1>6
    <3>. QED BY <3>2, <3>3, <3>4 DEF ReadsAsked
  <2>2. CASE ~pop
    BY <1>9, <2>2 DEF ReadsAsked
  <2>. QED BY <2>1, <2>2
<1>. QED BY <1>5, <1>9, <1>10, <1>11, <1>12

-----------------------------------------------------------------------------
(* The header queue. *)

Words == [word: Header, wait: Nat]

LEMMA AgedWords ==
    ASSUME NEW f \in Seq(Words)
    PROVE  [i \in DOMAIN f |-> [f[i] EXCEPT !.wait = IF @ = 0 THEN 0 ELSE @ - 1]] \in Seq(Words)
<1>1. PICK a : a = [i \in DOMAIN f |-> [f[i] EXCEPT !.wait = IF @ = 0 THEN 0 ELSE @ - 1]]
  OBVIOUS
<1>2. DOMAIN f = 1 .. Len(f) /\ Len(f) \in Nat /\ \A i \in 1 .. Len(f) : f[i] \in Words
  OBVIOUS
<1>3. \A i \in 1 .. Len(f) : a[i] \in Words
  BY <1>1, <1>2 DEF Words
<1>4. a \in [1 .. Len(f) -> Words]
  BY <1>1, <1>2, <1>3
<1>. QED BY <1>1, <1>2, <1>4

\* The header at the queue's output is one of a connection, and stays one.
LEMMA QueueStep ==
    ASSUME HeadersKnown, NEW h \in Arrival, RxHeader(h)
    PROVE  HeadersKnown' /\ Head1.conn \in Conn
<1>. USE EngineAssumption
<1>1. queue \in Seq(Words) /\ hdr.conn \in Conn
  BY DEF HeadersKnown, Words
<1>2. Head1.conn \in Conn
  <2>1. CASE Shown(queue)
    <3>1. queue[1] \in Words
      BY <1>1, <2>1 DEF Shown
    <3>. QED BY <2>1, <3>1 DEF Head1, Words, Header
  <2>2. CASE ~Shown(queue)
    BY <1>1, <2>2 DEF Head1
  <2>. QED BY <2>1, <2>2
<1>3. h = << >> \/ \E hd \in Header : h = << hd >>
  <2>1. h \in {<< hd >> : hd \in Header} \union {<< >>}
    BY Zenon DEF Arrival
  <2>. QED BY <2>1, Zenon
<1>4. PICK f : f = IF Pop /\ Shown(queue) THEN Tail(queue) ELSE queue
  OBVIOUS
<1>5. f \in Seq(Words)
  <2>. HIDE DEF Words
  <2>1. Pop /\ Shown(queue) => queue # << >>
    BY DEF Shown
  <2>. QED BY <1>1, <1>4, <2>1
<1>6. PICK a : a = [i \in DOMAIN f |-> [f[i] EXCEPT !.wait = IF @ = 0 THEN 0 ELSE @ - 1]]
  OBVIOUS
<1>7. a \in Seq(Words)
  <2>. HIDE DEF Words
  <2>. QED BY <1>5, <1>6, AgedWords
<1>8. /\ hdr' = Head1
      /\ queue' = IF h # << >> /\ Len(queue) < 64
                  THEN Append(a, [word |-> IF h = << >> THEN NoHeader ELSE h[1], wait |-> Delay - 1])
                  ELSE a
  BY <1>4, <1>6 DEF RxHeader, FifoClock
<1>9. h # << >> => [word |-> IF h = << >> THEN NoHeader ELSE h[1], wait |-> Delay - 1] \in Words
  BY <1>3 DEF Words
<1>10. queue' \in Seq(Words)
  <2>. HIDE DEF Words
  <2>. QED BY <1>7, <1>8, <1>9
<1>. QED BY <1>2, <1>8, <1>10 DEF HeadersKnown, Words

-----------------------------------------------------------------------------
LEMMA EngineInitInv == EngineInit => EngineInv
<1>. SUFFICES ASSUME EngineInit PROVE EngineInv
  OBVIOUS
<1>. USE EngineAssumption, CacheAssumption
<1>1. HeadersKnown
  BY DEF EngineInit, NoHeader, HeadersKnown
<1>2. /\ DOMAIN look = LookFields /\ look.read_d = FALSE /\ look.tcb_valid = FALSE
      /\ look.tcb_alloc = 0 /\ look.valid = {} /\ look.mapped = {} /\ look.bitmap = {}
      /\ look.mem = [p \in Cell |-> [tag |-> 0, addr |-> 0]]
      /\ look.cellOf = [k \in Block |-> << 0, 0 >>]
      /\ look.of = [k \in Block |-> AnyTuple]
  BY DEF EngineInit, LookupInit, LookFields
<1>3. OneLookup
  BY <1>2 DEF EngineInit, OneLookup
<1>4. look.tcb_alloc \in Block
  BY <1>2 DEF Block
<1>5. ReadsAsked(look)
  BY <1>2 DEF ReadsAsked
<1>6. TableRight(look)
  <2>1. << 0, 0 >> \in Cell /\ 0 \in Block /\ 0 \in Nat
    BY DEF Cell, Way, Block
  <2>2. look.mem \in [Cell -> [tag: Nat, addr: Block]] /\ look.cellOf \in [Block -> Cell]
    BY <1>2, <2>1
  <2>. QED BY <1>2, <2>2 DEF TableRight
<1>7. OwnersRight(look, look.crossed)
  BY <1>2 DEF OwnersRight
<1>. QED BY <1>1, <1>2, <1>3, <1>4, <1>5, <1>6, <1>7 DEF EngineInv

LEMMA EngineStep ==
    ASSUME EngineInv, EngineTick
    PROVE  EngineInv'
<1>1. /\ HeadersKnown /\ OneLookup /\ DOMAIN look = LookFields /\ look.tcb_alloc \in Block
      /\ look.tcb_alloc < LastBlock =>
            ReadsAsked(look) /\ TableRight(look) /\ OwnersRight(look, look.crossed)
  BY DEF EngineInv
<1>2. PICK h \in Arrival : RxHeader(h)
  BY DEF EngineTick
<1>3. HeadersKnown' /\ Head1.conn \in Conn
  BY <1>1, <1>2, QueueStep
<1>4. PICK t \in Conn : t = Head1.conn
  BY <1>3
<1>5. PICK pop \in BOOLEAN : pop = Pop
  BY DEF Pop
<1>6. look' = LookupClock(look, pop, t, Invalid)
  BY <1>4, <1>5 DEF EngineTick
<1>7. /\ look.read_d \in BOOLEAN /\ look.tcb_valid \in BOOLEAN /\ looking \in BOOLEAN
      /\ (looking <=> look.read_d \/ look.tcb_valid) /\ ~(look.read_d /\ look.tcb_valid)
      /\ look.read_d => look.asked \in Conn
  BY <1>1 DEF OneLookup
<1>8. /\ DOMAIN look' = LookFields /\ look'.tcb_alloc \in Block
      /\ look'.tcb_alloc < LastBlock => look.tcb_alloc < LastBlock
      /\ look'.read_d = pop /\ look'.tcb_valid = look.read_d /\ (pop => look'.asked = t)
      /\ look.tcb_alloc < LastBlock /\ ReadsAsked(look) /\ TableRight(look)
         /\ OwnersRight(look, look.crossed)
           => /\ TableRight(look') /\ OwnersRight(look', look'.crossed)
              /\ ~look.read_d => ReadsAsked(look')
  BY <1>1, <1>6, <1>7, LookKeeps
<1>9. pop => ~looking
  BY <1>5 DEF Pop
<1>10. looking' = (pop \/ (looking /\ ~look.tcb_valid))
  BY <1>5 DEF EngineTick
<1>11. OneLookup'
  BY <1>7, <1>8, <1>9, <1>10 DEF OneLookup
<1>12. look.read_d => ReadsAsked(look')
  <2>1. look.read_d => ~look'.read_d
    BY <1>7, <1>8, <1>9
  <2>. QED BY <2>1 DEF ReadsAsked
<1>. QED BY <1>1, <1>3, <1>7, <1>8, <1>11, <1>12 DEF EngineInv

\* The inductive invariant of the connection table and the lookup in front of
\* it, for headers that arrive in any cycle: table, valid bits and reverse map
\* agree, and what cache.sv compares was read for the header whose lookup it is
\* (cache.sv:395), though not always with that header.
THEOREM EngineInvHolds == EngineSpec => []EngineInv
<1>1. EngineInit => EngineInv
  BY EngineInitInv
<1>2. EngineInv /\ [EngineTick]_engineVars => EngineInv'
  <2>1. EngineInv /\ EngineTick => EngineInv'
    BY EngineStep
  <2>2. EngineInv /\ UNCHANGED engineVars => EngineInv'
    BY DEF EngineInv, engineVars, HeadersKnown, OneLookup
  <2>. QED BY <2>1, <2>2
<1>. QED BY <1>1, <1>2, PTL DEF EngineSpec

\* The table of cache.sv is one to one while blocks are left: a valid cell is
\* that of one block in use, whatever hashes the connections share, whatever
\* cycles headers arrive in and whatever is given up while one is looked up.
THEOREM CacheIsConsistent == EngineSpec => []CacheConsistent
<1>1. EngineInv => CacheConsistent
  <2>. SUFFICES ASSUME EngineInv, look.tcb_alloc < LastBlock
                PROVE  /\ {look.cellOf[k] : k \in look.mapped} = look.valid
                       /\ look.mapped = look.bitmap
                       /\ \A k \in look.mapped : look.mem[look.cellOf[k]].addr = k
    BY DEF CacheConsistent
  <2>. QED BY DEF EngineInv, TableRight
<1>. QED BY <1>1, EngineInvHolds, PTL

\* A connection is given a second block only when it was once compared with what
\* the memory had been read for by another's header (cache.sv:398 takes the tuple
\* of the cycle of the comparison).
THEOREM SecondOnlyCrossed == EngineSpec => []SecondIsCrossed
<1>1. EngineInv => SecondIsCrossed
  BY DEF EngineInv, OwnersRight, SecondIsCrossed, Twins
<1>. QED BY <1>1, EngineInvHolds, PTL
=============================================================================
