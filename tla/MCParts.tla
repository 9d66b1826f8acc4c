------------------------------- MODULE MCParts -------------------------------
(* Components that keep no state in common, checked side by side: `part` is *)
(* the one that moves, the others stay in an initial state.                 *)
EXTENDS StC2h, FreeList, AxisFifo, FlowGen, QueueTable, TcpEngine, IntrRing

CONSTANTS x, y

VARIABLE part

MCBeat == [tlast: BOOLEAN, data: {0, 1}]

\* Two connections that meet in both of their sets.
MCHashL == [t \in {x, y} |-> IF t = x THEN [set |-> 0, tag |-> 1] ELSE [set |-> 1, tag |-> 2]]
MCHashR == [t \in {x, y} |-> IF t = x THEN [set |-> 1, tag |-> 3] ELSE [set |-> 0, tag |-> 4]]
MCCsrs  == {SYN, ACK, FIN_ACK, RST}

partsVars == << part, c2hVars, flVars, fifo, flowVars, tableVars, engineVars, intrVars >>

\* A part that does not move starts in one state only.
OneInit ==
    /\ part # "c2h" => ~handler
    /\ part # "fifo" => \A p \in Addr : ~fifo.mem[p].tlast /\ fifo.mem[p].data = 0
    /\ part # "flow" => \A i \in Flow : config[i] = CHOOSE r \in [pkt_size: Sizes, cycles_per_pkt: Rates] : TRUE

PartsInit ==
    /\ part \in {"c2h", "freelist", "fifo", "flow", "table", "tcp", "intr"}
    /\ C2hInit /\ FlInit /\ FifoInit /\ FlowInit /\ TableInit /\ EngineInit /\ IntrInit
    /\ OneInit

PartsNext ==
    /\ UNCHANGED part
    /\ \/ part = "c2h" /\ C2hNext /\ UNCHANGED << flVars, fifo, flowVars, tableVars, engineVars, intrVars >>
       \/ part = "freelist" /\ FlqRefill /\ UNCHANGED << c2hVars, fifo, flowVars, tableVars, engineVars, intrVars >>
       \/ part = "fifo" /\ FifoTick /\ UNCHANGED << c2hVars, flVars, flowVars, tableVars, engineVars, intrVars >>
       \/ part = "flow" /\ FlowNext /\ UNCHANGED << c2hVars, flVars, fifo, tableVars, engineVars, intrVars >>
       \/ part = "table" /\ TableNext /\ UNCHANGED << c2hVars, flVars, fifo, flowVars, engineVars, intrVars >>
       \/ part = "tcp" /\ EngineTick /\ UNCHANGED << c2hVars, flVars, fifo, flowVars, tableVars, intrVars >>
       \/ part = "intr" /\ IntrNext /\ UNCHANGED << c2hVars, flVars, fifo, flowVars, tableVars, engineVars >>

\* The clock of the TCP engine runs while it is the part that moves.
PartsSpec == PartsInit /\ [][PartsNext]_partsVars /\ WF_partsVars(part = "tcp" /\ PartsNext)
=============================================================================
