------------------------------ MODULE AxisFifo ------------------------------
(***************************************************************************)
(* The packet FIFO of the traffic generator (HW/hdl/axis_fifo.sv): a       *)
(* circular memory whose full and empty flags are registers that each      *)
(* clock edge predicts from the handshakes of the cycle, instead of being  *)
(* computed from the pointers.  A step of the specification is one rising  *)
(* edge of clk; tvalid, the beat and tready are what the wires carried.    *)
(*                                                                         *)
(* The registers of one FIFO are a record, so that FlowGen can hold one    *)
(* FIFO per flow and use the same operators.                               *)
(***************************************************************************)
EXTENDS Integers, Sequences

CONSTANTS
    Depth,      \* DEPTH, the number of beats the memory holds
    Beat        \* the beats: each a record with a field tlast

\* The address has $clog2(DEPTH) bits, so a memory of one word has no address.
ASSUME DepthAssumption == Depth \in Nat /\ Depth > 1

ASSUME BeatAssumption == \A beat \in Beat : beat.tlast \in BOOLEAN

VARIABLE fifo

Addr == 0 .. Depth - 1

\* (ptr == DEPTH-1) ? 0 : ptr + 1: DEPTH need not be a power of two.
Incr(p) == IF p = Depth - 1 THEN 0 ELSE p + 1

\* Reset leaves the memory as it is: nothing is known of its words.
Reset(mem) ==
    [ mem |-> mem, wr_ptr |-> 0, rd_ptr |-> 0,
      full |-> FALSE, empty |-> TRUE, tlast_rd |-> FALSE ]

\* s_axis_tready and m_axis_tvalid, the two outputs the flags decide.
SReady(f) == ~f.full
MValid(f) == ~f.empty /\ ~f.tlast_rd

WriteEn(f, tvalid) == tvalid /\ SReady(f)
ReadEn(f, tready)  == MValid(f) /\ tready

\* The predicted flags: set by the write that fills, the read that empties,
\* cleared by the other, kept by both or neither.
\* Mutant: full when the pointers are equal already, one beat late.
FullLate(f, write, read) ==
    IF write = read THEN f.full ELSE write /\ ~f.empty /\ f.wr_ptr = f.rd_ptr
NextFull(f, write, read) ==
    IF write = read THEN f.full ELSE write /\ (f.full \/ Incr(f.wr_ptr) = f.rd_ptr)
NextEmpty(f, write, read) ==
    IF write = read THEN f.empty ELSE read /\ (f.empty \/ Incr(f.rd_ptr) = f.wr_ptr)

\* The four clocked blocks, which all read the registers before the edge.
Clock(f, tvalid, beat, tready) ==
    LET write == WriteEn(f, tvalid)
        read  == ReadEn(f, tready)
    IN  [ mem      |-> IF write THEN [f.mem EXCEPT ![f.wr_ptr] = beat] ELSE f.mem,
          wr_ptr   |-> IF write THEN Incr(f.wr_ptr) ELSE f.wr_ptr,
          rd_ptr   |-> IF read THEN Incr(f.rd_ptr) ELSE f.rd_ptr,
          full     |-> NextFull(f, write, read),
          empty    |-> NextEmpty(f, write, read),
          tlast_rd |-> read /\ f.mem[f.rd_ptr].tlast ]

FifoInit == \E mem \in [Addr -> Beat] : fifo = Reset(mem)

FifoTick == \E tvalid, tready \in BOOLEAN, beat \in Beat :
                fifo' = Clock(fifo, tvalid, beat, tready)

FifoSpec == FifoInit /\ [][FifoTick]_fifo

-----------------------------------------------------------------------------
(***************************************************************************)
(* What the FIFO promises: it is a queue of at most Depth beats.           *)
(***************************************************************************)

\* The beats held, first the one at the read pointer.
Count(f) ==
    IF f.full THEN Depth
    ELSE IF f.rd_ptr <= f.wr_ptr THEN f.wr_ptr - f.rd_ptr
    ELSE Depth + f.wr_ptr - f.rd_ptr

\* The word i places after the read pointer, 1 being the word it points to.
Place(p, i) == IF p + i - 1 < Depth THEN p + i - 1 ELSE p + i - 1 - Depth

Contents(f) == [i \in 1 .. Count(f) |-> f.mem[Place(f.rd_ptr, i)]]

Queue == INSTANCE BeatQueue WITH q <- Contents(fifo)

\* The FIFO implements the queue: it loses, repeats, reorders and invents no
\* beat, whatever mixture of reads and writes fills and empties it
\* (axis_fifo.sv, the predictive update of full_reg and empty_reg).
FifoIsQueue == Queue!QSpec

\* The predicted flags are the ones the pointers tell: never both, equal
\* pointers when either is set and neither when the pointers differ
\* (axis_fifo.sv, the comment "NO combinational comparison in critical path").
FlagsExact ==
    /\ ~(fifo.full /\ fifo.empty)
    /\ (fifo.full \/ fifo.empty) <=> fifo.wr_ptr = fifo.rd_ptr
=============================================================================
