----------------------------- MODULE BeatQueue ------------------------------
(***************************************************************************)
(* A bounded queue of beats with a reader and a writer that may both act   *)
(* in one clock cycle: what axis_fifo.sv is used for.                      *)
(***************************************************************************)
EXTENDS Naturals, Sequences

CONSTANTS Depth, Beat

VARIABLE q

QInit == q = << >>

\* A beat is accepted only while there is room.
Put(b) == Len(q) < Depth /\ q' = Append(q, b)

\* The oldest beat leaves.
Get == q # << >> /\ q' = Tail(q)

\* Both in one cycle: neither may rely on what the other does in it.
PutGet(b) == Len(q) < Depth /\ q # << >> /\ q' = Append(Tail(q), b)

QNext == Get \/ \E b \in Beat : Put(b) \/ PutGet(b)

QSpec == QInit /\ [][QNext]_q
=============================================================================
