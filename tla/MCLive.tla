-------------------------------- MODULE MCLive --------------------------------
(* The mailbox, the transmit side of the network driver and the polling     *)
(* threads, side by side: they keep no state in common, `part` is the one   *)
(* that moves.  The others stay in an initial state, one in which nothing   *)
(* is due, so that their fairness asks for nothing.                         *)
EXTENDS Mailbox, NetTx, Threads

CONSTANTS v1, v2, a, b, c

VARIABLE part

MCVfOf == [s \in {a, b, c} |-> IF s = c THEN v2 ELSE v1]
MCSend == [s \in {a, b, c} |-> 1]

liveVars == << part, mboxVars, netVars, threadVars >>

LiveInit ==
    /\ part \in {"mailbox", "net", "threads"}
    /\ MboxInit /\ NetInit /\ ThreadsInit
    /\ part # "mailbox" => \A e \in End : ~poll[e]      \* one state for a part at rest
    /\ \A t \in Thread : kth[t].pc = IF part = "threads" THEN "check" ELSE "asleep"

LiveNext ==
    /\ UNCHANGED part
    /\ \/ part = "mailbox" /\ MboxNext /\ UNCHANGED << netVars, threadVars >>
       \/ part = "net" /\ NetNext /\ UNCHANGED << mboxVars, threadVars >>
       \/ part = "threads" /\ ThreadsNext /\ UNCHANGED << mboxVars, netVars >>

LiveSpec == LiveInit /\ [][LiveNext]_liveVars /\ MboxFairness /\ NetFairness /\ ThreadsFairness
=============================================================================
