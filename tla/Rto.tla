--------------------------------- MODULE Rto ---------------------------------
(***************************************************************************)
(* Retransmission in the TCP engine: the timer wheel (rto.sv), the queue   *)
(* of segments to be sent at once, and the arbiter between the two         *)
(* (tx_arbiter.sv).  RtoClock is one rising edge.                          *)
(*                                                                         *)
(* A slot of the wheel is named by its distance from rd_ptr, so that a     *)
(* tick moves every slot one closer and an idle wheel has one state.       *)
(*                                                                         *)
(* The module also has the vendor's first-word-fall-through FIFO (fifo.sv, *)
(* xpm_fifo_sync) that the engine uses in four places: what is written     *)
(* comes to its output Delay cycles later, at the earliest.                *)
(***************************************************************************)
EXTENDS Integers, Sequences

CONSTANTS
    WheelSz,        \* RTO_SZ, 128
    TickPeriod,     \* cycles from tick to tick, 64
    Delay,          \* of the FIFO, in cycles
    NoEntry         \* an empty slot

Dist == 0 .. WheelSz - 1

\* A FIFO: its words, each with the cycles until it can be read.
Shown(f) == f # << >> /\ f[1].wait = 0
FifoClock(f, rd, wr, word, depth) ==
    LET kept == IF rd /\ Shown(f) THEN Tail(f) ELSE f
        aged == [i \in DOMAIN kept |->
                    [kept[i] EXCEPT !.wait = IF @ = 0 THEN 0 ELSE @ - 1]]
    IN  IF wr /\ Len(f) < depth THEN Append(aged, [word |-> word, wait |-> Delay - 1])
        ELSE aged

RtoInit(blocks) ==
    [ us_tick |-> 0,
      tick    |-> FALSE,
      wheel   |-> [d \in Dist |-> NoEntry],         \* of [addr, tcb]
      mapping |-> [k \in blocks |-> -1],            \* the slot of a block, or -1
      hp      |-> << >>,
      quota   |-> 0 ]

-----------------------------------------------------------------------------
(***************************************************************************)
(* tx_arbiter.sv                                                           *)
(***************************************************************************)
LpValid(r) == r.wheel[0] # NoEntry

GrantLp(r) == LpValid(r) /\ (r.quota > 4 \/ ~Shown(r.hp))
GrantHp(r) == Shown(r.hp) /\ ~GrantLp(r)

\* tcb_addr_out_valid, and the block that goes out with it.
Sending(r) == Shown(r.hp) \/ (LpValid(r) /\ r.tick)
Outgoing(r) == IF GrantLp(r) THEN r.wheel[0] ELSE r.hp[1].word

QuotaNext(r) == CASE GrantLp(r) -> 0
                  [] GrantHp(r) /\ r.quota <= 4 -> r.quota + 1
                  [] OTHER -> r.quota

-----------------------------------------------------------------------------
(***************************************************************************)
(* rto.sv; o is what tcp_ctrl has put out: [valid, cancel, addr, tcb, ...] *)
(***************************************************************************)
AtOnce(o)  == o.valid /\ (o.tcb.next_send_time = 0 \/ o.tcb.csr = {"rst"})
Delayed(o) == o.valid /\ ~AtOnce(o)

Cancels(r, o) == o.cancel /\ r.mapping[o.addr] # -1

\* 2 ^ backoff_exp ticks from now, or one more if that slot is taken.
Due(o) == (o.tcb.next_send_time * 2 ^ o.tcb.backoff_exp) % WheelSz
TimerSlot(r, o) == IF r.wheel[Due(o)] = NoEntry THEN Due(o) ELSE (Due(o) + 1) % WheelSz

Cancel(r, o) == [ r EXCEPT !.mapping[o.addr] = -1, !.wheel[r.mapping[o.addr]] = NoEntry ]

Arm(r, o) == [ r EXCEPT !.mapping[o.addr]   = TimerSlot(r, o),
                        !.wheel[TimerSlot(r, o)] = [addr |-> o.addr, tcb |-> o.tcb] ]

Written(r, o) == CASE Cancels(r, o) -> Cancel(r, o)
                   [] ~Cancels(r, o) /\ Delayed(o) -> Arm(r, o)
                   [] OTHER -> r

\* A tick empties the slot at rd_ptr and moves on.
Turn(r) ==
    LET emptied == [ r.wheel EXCEPT ![0] = NoEntry ]
    IN  [ r EXCEPT !.wheel   = [d \in Dist |-> emptied[(d + 1) % WheelSz]],
                   !.mapping = [k \in DOMAIN r.mapping |->
                                   IF r.mapping[k] = -1 THEN -1
                                   ELSE (r.mapping[k] + WheelSz - 1) % WheelSz] ]

RtoClock(r, o) ==
    LET w == Written(r, o)
    IN  [ (IF r.tick THEN Turn(w) ELSE w) EXCEPT
             !.us_tick = (r.us_tick + 1) % TickPeriod,
             !.tick    = r.us_tick = TickPeriod - 1,
             !.hp      = FifoClock(r.hp, GrantHp(r), AtOnce(o) /\ ~o.cancel,
                                   [addr |-> o.addr, tcb |-> o.tcb], 32),
             !.quota   = QuotaNext(r) ]
=============================================================================
