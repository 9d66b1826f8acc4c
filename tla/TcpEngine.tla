------------------------------ MODULE TcpEngine ------------------------------
(***************************************************************************)
(* The TCP engine of the card (top_level.sv), clock by clock: headers are  *)
(* queued, looked up (TcbCache), their control block is read, updated      *)
(* (TcpCtrl) and written back, what is to be sent goes through Rto, and    *)
(* what has been sent updates its block again (writeback.sv, tcb_mgr.sv).  *)
(* EngineTick is one rising edge; only the headers that arrive are chosen. *)
(*                                                                         *)
(* A header is what the engine can tell of it: its tuple, flags, sequence  *)
(* and acknowledgement number.  The engine is out of reset.                *)
(***************************************************************************)
EXTENDS TcpCtrl, TcbCache, Rto

CONSTANTS
    Conn,       \* the connections, each the tuple of its headers
    Csrs,       \* the flags of the headers that arrive
    Isn,        \* the initial sequence number of the peers
    MaxHdrs,    \* bound: headers that arrive
    NoPacket

\* What a peer sends: it opens with a SYN, and acknowledges the SYN_ACK (1 + 1).
Header == { [ conn |-> t, csr |-> flags,
              seq  |-> IF flags = SYN THEN Isn ELSE Isn + 1,
              ack  |-> IF flags = SYN THEN 0 ELSE 2 ] : t \in Conn, flags \in Csrs }

ASSUME EngineAssumption ==
    /\ Conn # {} /\ Delay \in Nat \ {0}
    /\ \A t \in Conn : {HashL[t], HashR[t]} \subseteq [set: 0 .. Sets - 1, tag: Nat]

NoHeader == [conn |-> CHOOSE x \in Conn : TRUE, csr |-> {}, seq |-> 0, ack |-> 0]

VARIABLES
    queue,      \* header_queue_i
    hdr,        \* header_out
    looking,    \* busy: a lookup is going on
    look,       \* the registers of cache.sv
    mgr,        \* the registers of tcb_mgr.sv
    ctrl,       \* the outputs of tcp_ctrl.sv
    tcbs,       \* the control blocks, tcb.sv
    read,       \* the block that was read in the cycle before
    wbTx, wbRto,    \* the queues of writeback.sv
    rto,        \* the registers of rto.sv
    packet,     \* the output of tx_datapath.sv
    came        \* of the environment: headers so far

engineVars == << queue, hdr, looking, look, mgr, ctrl, tcbs, read, wbTx, wbRto,
                 rto, packet, came >>

EngineInit ==
    /\ queue = << >> /\ hdr = NoHeader /\ looking = FALSE
    /\ look = LookupInit
    /\ mgr = [ new_d |-> FALSE, new_d2 |-> FALSE, header_d |-> NoHeader,
               new_tcb |-> NoTcb, wb_valid_d |-> FALSE, wb_addr_d |-> 0, path_d |-> "tx",
               tcb_alloc |-> {}, lock |-> {} ]
    /\ ctrl = [valid |-> FALSE, cancel |-> FALSE, invalidate |-> FALSE, addr |-> 0, tcb |-> NoTcb]
    /\ tcbs = [k \in Block |-> NoTcb]
    /\ read = NoTcb
    /\ wbTx = << >> /\ wbRto = << >>
    /\ rto = RtoInit(Block)
    /\ packet = NoPacket
    /\ came = 0

-----------------------------------------------------------------------------
(***************************************************************************)
(* The wires, as functions of the registers                                *)
(***************************************************************************)
Head1 == IF Shown(queue) THEN queue[1].word ELSE hdr     \* header_out
Pop == ~looking /\ Shown(queue)

Invalid == IF ctrl.invalidate THEN ctrl.addr ELSE -1
New == ReadMiss(look, Head1.conn) /\ Head1.csr = SYN

\* writeback.sv: a header comes first, then retransmissions, then the rest; a
\* block that is no longer in use is skipped.
FromRto == ~look.tcb_valid /\ Shown(wbRto)
FromTx  == ~look.tcb_valid /\ ~Shown(wbRto) /\ Shown(wbTx)
Sent    == IF FromRto THEN wbRto[1].word ELSE wbTx[1].word

WbValid == look.tcb_valid \/ ((FromRto \/ FromTx) /\ Sent \in mgr.tcb_alloc)
WbAddr  == CASE look.tcb_valid -> look.tcb_addr
             [] ~look.tcb_valid /\ WbValid -> Sent
             [] OTHER -> 0

\* What tcp_ctrl computes from the block that was read, or from a new one.
Update ==
    LET t == IF mgr.new_d2 THEN mgr.new_tcb ELSE read
    IN  CASE mgr.wb_valid_d /\ mgr.path_d = "rx" -> Ingress(t, mgr.header_d, mgr.new_d2)
          [] mgr.wb_valid_d /\ mgr.path_d = "tx" -> Egress(t)
          [] OTHER -> [invalidate |-> FALSE, cancel |-> FALSE, tcb |-> t]

\* tx_datapath.sv: a block without flags sends nothing.
Packet(t) == [conn |-> t.conn, csr |-> t.csr, seq |-> t.snd_nxt, ack |-> t.rcv_nxt]

-----------------------------------------------------------------------------
(***************************************************************************)
(* The registers after the edge                                            *)
(***************************************************************************)
Manage ==
    mgr' = [ new_d      |-> New,
             new_d2     |-> mgr.new_d,
             header_d   |-> Head1,
             new_tcb    |-> IF mgr.new_d THEN FreshTcb(mgr.header_d) ELSE mgr.new_tcb,
             wb_valid_d |-> WbValid,
             wb_addr_d  |-> WbAddr,
             path_d     |-> IF look.tcb_valid THEN "rx" ELSE "tx",
             tcb_alloc  |-> CASE ctrl.invalidate -> mgr.tcb_alloc \ {ctrl.addr}
                              [] ~ctrl.invalidate /\ look.tcb_valid ->
                                    mgr.tcb_alloc \union {look.tcb_addr}
                              [] OTHER -> mgr.tcb_alloc,
             lock       |-> (mgr.lock \union (IF WbValid THEN {WbAddr} ELSE {}))
                                \ (IF ctrl.valid THEN {ctrl.addr} ELSE {}) ]

Control ==
    ctrl' = [ valid      |-> mgr.wb_valid_d,
             cancel     |-> Update.cancel,
             invalidate |-> Update.invalidate,
             addr       |-> IF mgr.wb_valid_d THEN mgr.wb_addr_d ELSE ctrl.addr,
             tcb        |-> IF mgr.wb_valid_d THEN Update.tcb ELSE ctrl.tcb ]

\* The two ports of the memory have independent clocks: a block that is read in
\* the cycle it is written in is read as it was, or as it will be.
Memory ==
    LET written == IF ctrl.valid
                   THEN [tcbs EXCEPT ![ctrl.addr] = IF ctrl.invalidate THEN NoTcb ELSE ctrl.tcb]
                   ELSE tcbs
    IN  /\ tcbs' = written
        /\ read' \in {tcbs[WbAddr]} \union (IF WbValid THEN {written[WbAddr]} ELSE {})

Transmit ==
    LET sends == Sending(rto)
        addr  == IF sends THEN Outgoing(rto).addr ELSE 0
        tcb   == IF sends THEN Outgoing(rto).tcb ELSE NoTcb
    IN  /\ rto' = RtoClock(rto, ctrl)
        /\ packet' = IF sends /\ tcb.csr # {} THEN Packet(tcb) ELSE NoPacket
        /\ wbTx' = FifoClock(wbTx, FromTx, sends /\ tcb.backoff_exp < 2, addr, 64)
        /\ wbRto' = FifoClock(wbRto, FromRto, sends /\ tcb.backoff_exp >= 2, addr, 32)

\* Headers that may arrive in this cycle: rx_datapath.sv takes one in any cycle.
Arrival == IF came < MaxHdrs
           THEN {<< h >> : h \in Header} \union {<< >>}
           ELSE {<< >>}

RxHeader(h) ==
    /\ queue' = FifoClock(queue, Pop, h # << >>, IF h = << >> THEN NoHeader ELSE h[1], 64)
    /\ hdr' = Head1
    /\ came' = IF h = << >> THEN came ELSE came + 1

EngineTick ==
    /\ \E h \in Arrival : RxHeader(h)
    /\ looking' = (Pop \/ (looking /\ ~look.tcb_valid))
    /\ look' = LookupClock(look, Pop, Head1.conn, Invalid)
    /\ Manage /\ Control /\ Memory /\ Transmit

-----------------------------------------------------------------------------
(***************************************************************************)
(* Properties                                                              *)
(***************************************************************************)
\* The table of connections is one to one, until the last block is given out: a
\* cell is valid just when it is that of a block in use, and it leads to that
\* block (cache.sv keeps the valid bits, the reverse map and the memory apart and
\* frees a block by the reverse map only).
CacheConsistent ==
    look.tcb_alloc < LastBlock =>
        /\ {look.cellOf[k] : k \in look.mapped} = look.valid
        /\ look.mapped = look.bitmap
        /\ \A k \in look.mapped : look.mem[look.cellOf[k]].addr = k

\* Blocks in use that were given to one connection.
Twins == {pair \in look.mapped \X look.mapped :
             pair[1] # pair[2] /\ look.of[pair[1]] = look.of[pair[2]]}

\* A connection keeps to one block, whatever its hashes have in common with
\* others and whatever is given up while it is looked up, unless the memory was
\* read by one header and compared with the next (cache.sv:398).
SecondIsCrossed ==
    look.tcb_alloc < LastBlock => \A pair \in Twins : look.of[pair[1]] \in look.crossed

\* A connection keeps to one block.  (It does not: see the README.)
OneBlockEach == look.tcb_alloc < LastBlock => Twins = {}

\* Once the peers are silent the engine falls silent too: every connection is
\* acknowledged or given up after its last retransmission, no timer and no
\* segment is left, although timers are armed twice, lost and cancelled late
\* (rto.sv, tx_arbiter.sv, writeback.sv, the backoff of tcp_ctrl.sv).
RetransmissionEnds ==
    <>[](rto.hp = << >> /\ wbTx = << >> /\ wbRto = << >> /\ \A d \in Dist : rto.wheel[d] = NoEntry)

EngineSpec == EngineInit /\ [][EngineTick]_engineVars /\ WF_engineVars(EngineTick)
=============================================================================
