------------------------------- MODULE FlowGen -------------------------------
(***************************************************************************)
(* The traffic generator of the example design: per flow a packet          *)
(* generator (HW/hdl/traffic_gen.sv) that fills a FIFO of its own, and a   *)
(* scheduler (HW/hdl/flow_gen.sv) that sends the packets of the FIFOs in   *)
(* turn.  Tick is one rising edge of axi_aclk: every register takes its    *)
(* next value from the registers before the edge.  WriteConfig and         *)
(* WriteRunning are the register writes of the driver (user_control.sv),   *)
(* which come at any time, in the middle of a packet too.                  *)
(*                                                                         *)
(* A beat is what the scheduler and the receiver can tell of it: the flow, *)
(* whether it carries the packet header, and tlast.                        *)
(***************************************************************************)
EXTENDS Integers, FiniteSetsExt

CONSTANTS
    NumFlows,   \* NUM_FLOWS
    FifoDepth,      \* FIFO_DEPTH, in beats
    BPB,        \* BYTES_PER_BEAT
    CntMod,     \* 2^16, the width of trans_counter and pkt_size
    Sizes,      \* the values written to pkt_size
    Rates       \* the values of cycles_per_pkt

\* A FIFO holds two beats at least (AxisFifo); pkt_size has 16 bits.
ASSUME FlowAssumption ==
    /\ NumFlows \in Nat \ {0}
    /\ FifoDepth \in Nat /\ FifoDepth > 1
    /\ BPB \in Nat \ {0} /\ CntMod \in Nat \ {0}
    /\ Sizes \subseteq 0 .. CntMod - 1
    /\ Rates \subseteq Nat /\ IsFiniteSet(Rates)

Flow == 0 .. NumFlows - 1
NoFlow == NumFlows

FlowBeat == [flow: Flow, header: BOOLEAN, tlast: BOOLEAN]

VARIABLES
    config,         \* config[i] = [pkt_size, cycles_per_pkt], registers of flow i
    flow_running,   \* the run bit of each flow
    gen,            \* the registers of each generator
    fifos,          \* the registers of each FIFO
    current_flow,   \* the flow being served
    switch_gap,     \* set in the cycle after a switch
    open,           \* history: the flow whose packet is on its way out, or NoFlow
    over,           \* history: packets begun by others while flow i has been ready
    since           \* history: cycles since flow i began its last packet

flowVars == << config, flow_running, gen, fifos, current_flow, switch_gap,
               open, over, since >>

\* The operators of axis_fifo.sv; each takes the registers of one FIFO.
F == INSTANCE AxisFifo WITH Depth <- FifoDepth, Beat <- FlowBeat, fifo <- fifos

\* Counters that are only compared with at most cycles_pkt stop there.
MaxCount == Max(Rates \union {s \div BPB + 2 : s \in Sizes})
Up(n) == IF n < MaxCount THEN n + 1 ELSE n

-----------------------------------------------------------------------------
(***************************************************************************)
(* traffic_gen.sv                                                          *)
(***************************************************************************)

\* cycles_needed: the beats of the packet, and one cycle between packets.
CyclesNeeded(c) ==
    c.pkt_size \div BPB + (IF c.pkt_size % BPB = 0 THEN 0 ELSE 1) + 1

CyclesPkt(c) == Max({c.cycles_per_pkt, CyclesNeeded(c)})

\* trans_counter >= pkt_size - BYTES_PER_BEAT, in 32 bits without a sign: the
\* difference of a packet smaller than a beat is beyond every counter.
LastBeat(g, c) == c.pkt_size >= BPB /\ g.trans >= c.pkt_size - BPB

GenValid(g) == g.state = "TRANSFER"
GenBeat(i)  == [ flow |-> i, header |-> gen[i].is_header,
                 tlast |-> LastBeat(gen[i], config[i]) ]

\* Mutant: a cycle early.
ElapsedEarly(g) == g.wait >= g.cycles_pkt - 2
Elapsed(g) == g.wait >= g.cycles_pkt - 1

\* next_state, and the registers each state sets; tready is the FIFO's.
GenClock(g, c, running, tready) ==
    CASE g.state = "IDLE" ->
            [ state      |-> IF tready /\ running THEN "TRANSFER" ELSE "IDLE",
              wait       |-> 0, trans |-> 0, is_header |-> TRUE,
              cycles_pkt |-> CyclesPkt(c) ]
      [] g.state = "TRANSFER" /\ ~tready -> g
      [] g.state = "TRANSFER" /\ tready ->
            [ g EXCEPT !.state     = IF LastBeat(g, c) THEN "WAIT" ELSE @,
                       !.trans     = IF LastBeat(g, c) THEN 0
                                     ELSE (@ + BPB) % CntMod,
                       !.wait      = Up(@),
                       !.is_header = FALSE ]
      [] g.state = "WAIT" ->
            [ state      |-> IF ~running THEN "IDLE"
                             ELSE IF tready /\ Elapsed(g) THEN "TRANSFER" ELSE "WAIT",
              wait       |-> IF tready /\ Elapsed(g) THEN 0 ELSE Up(g.wait),
              trans      |-> 0, is_header |-> TRUE,
              cycles_pkt |-> IF tready /\ Elapsed(g) THEN CyclesPkt(c)
                             ELSE g.cycles_pkt ]

-----------------------------------------------------------------------------
(***************************************************************************)
(* flow_gen.sv: the scheduler                                              *)
(***************************************************************************)
Valid(i) == F!MValid(fifos[i])

\* Running flows with a beat to send, by their distance from the current one.
Waiting == {j \in 1 .. NumFlows - 1 :
              LET i == (current_flow + j) % NumFlows IN Valid(i) /\ flow_running[i]}

NextFlow == IF Waiting = {} THEN current_flow
            ELSE (current_flow + Min(Waiting)) % NumFlows

\* accept stands for rx_ready && crdt_valid && ~qid_fifo_full.
FifoTready(i, accept) == i = current_flow /\ accept /\ ~switch_gap

FirstBeat(i) == fifos[i].mem[fifos[i].rd_ptr]
Sends(i, accept) == Valid(i) /\ FifoTready(i, accept)
PacketComplete(accept) == Sends(current_flow, accept) /\ FirstBeat(current_flow).tlast

\* Mutant: a flow is served until its FIFO is empty.
SwitchEmpty(accept) == Valid(NextFlow) /\ fifos[current_flow].empty
\* Mutant: whenever another flow has a beat.
SwitchAlways(accept) == Valid(NextFlow) /\ Sends(current_flow, accept)

SwitchTrigger(accept) ==
    /\ Valid(NextFlow)
    /\ PacketComplete(accept) \/ ~Valid(current_flow)

\* The histories, from what leaves in this cycle and which generator starts.
Starts(i) == gen[i].state # "TRANSFER" /\ gen'[i].state = "TRANSFER"

Observe(accept) ==
    /\ open' = IF Sends(current_flow, accept)
               THEN IF FirstBeat(current_flow).tlast THEN NoFlow ELSE current_flow
               ELSE open
    /\ over' = [i \in Flow |->
                  IF i = current_flow \/ ~Valid(i) \/ ~flow_running[i] THEN 0
                  ELSE IF Sends(current_flow, accept) /\ FirstBeat(current_flow).header
                       THEN over[i] + 1 ELSE over[i] ]
    /\ since' = [i \in Flow |-> IF Starts(i) THEN 1 ELSE Up(since[i])]

\* One clock edge of all generators, FIFOs and the scheduler.
Tick ==
    \E accept \in BOOLEAN :
      /\ gen' = [i \in Flow |-> GenClock(gen[i], config[i], flow_running[i],
                                         F!SReady(fifos[i]))]
      /\ fifos' = [i \in Flow |-> F!Clock(fifos[i], GenValid(gen[i]), GenBeat(i),
                                          FifoTready(i, accept))]
      /\ current_flow' = IF SwitchTrigger(accept) THEN NextFlow ELSE current_flow
      /\ switch_gap' = SwitchTrigger(accept)
      /\ Observe(accept)
      /\ UNCHANGED << config, flow_running >>

\* Addresses 0x00 and 0x04 of a flow's registers: pkt_size and cycles_per_pkt.
\* (Writing what is there already changes nothing.)
WriteConfig ==
    /\ \E i \in Flow :
         \/ \E s \in Sizes \ {config[i].pkt_size} : config' = [config EXCEPT ![i].pkt_size = s]
         \/ \E r \in Rates \ {config[i].cycles_per_pkt} : config' = [config EXCEPT ![i].cycles_per_pkt = r]
    /\ UNCHANGED << flow_running, gen, fifos, current_flow, switch_gap,
                    open, over, since >>

\* Address 0x200: the run bits of all flows.
WriteRunning ==
    /\ \E r \in [Flow -> BOOLEAN] \ {flow_running} : flow_running' = r
    /\ UNCHANGED << config, gen, fifos, current_flow, switch_gap, open, over, since >>

\* What axi_aresetn leaves: every generator idle, every FIFO empty.  The words
\* of a FIFO are read only after they were written.
FlowInit ==
    /\ config \in [Flow -> [pkt_size: Sizes, cycles_per_pkt: Rates]]
    /\ flow_running = [i \in Flow |-> FALSE]
    /\ gen = [i \in Flow |-> [ state |-> "IDLE", wait |-> 0, trans |-> 0,
                               is_header |-> TRUE,
                               cycles_pkt |-> config[i].cycles_per_pkt ]]
    /\ fifos = [i \in Flow |->
                  F!Reset([a \in 0 .. FifoDepth - 1 |->
                             [flow |-> i, header |-> FALSE, tlast |-> FALSE]])]
    /\ current_flow = 0
    /\ switch_gap = FALSE
    /\ open = NoFlow
    /\ over = [i \in Flow |-> 0]
    /\ since = [i \in Flow |-> 0]

FlowNext == Tick \/ WriteConfig \/ WriteRunning

FlowSpec == FlowInit /\ [][FlowNext]_flowVars

-----------------------------------------------------------------------------
\* The beats of two packets never mix on the output: a beat that leaves either
\* begins a packet while none is on its way, or continues the one that is.  The
\* scheduler leaves a flow whose FIFO runs empty even inside a packet
\* (flow_gen.sv, current_flow_empty): only the pace of generator and FIFO keeps
\* a started packet from running dry.
PacketsWhole ==
    [][\A i \in Flow : fifos'[i].rd_ptr # fifos[i].rd_ptr =>
          open = (IF FirstBeat(i).header THEN NoFlow ELSE i)]_flowVars

\* Round robin: from the moment a running flow has a beat to send, each other
\* flow begins at most one packet before it (flow_gen.sv, next_flow; the search
\* that ended in the cycle before may still serve the flow it found).
RoundRobin == \A i \in Flow : over[i] < NumFlows

\* While a flow keeps running its packets begin at least cycles_pkt cycles
\* apart, and never sooner than the beats of a packet and one cycle more, also
\* when the FIFO held a packet up (traffic_gen.sv, "check credit").
Pace ==
    [][\A i \in Flow : gen[i].state = "WAIT" /\ gen'[i].state = "TRANSFER" =>
          since[i] >= gen[i].cycles_pkt]_flowVars
=============================================================================
