------------------------- MODULE ResourceMgmtProps -------------------------
(***************************************************************************)
(* What the drivers rely on when they use ResourceMgmt.                    *)
(***************************************************************************)
EXTENDS ResourceMgmt

Queues(c) == c.qbase .. End(c) - 1
Owned == [f \in Func |-> Queues(entry[f])]
Nobodys == IF exists THEN UNION {Queues(free[i]) : i \in 1 .. Len(free)}
           ELSE QBase .. QBase + TotalQ - 1
InUse == [f \in Func |-> \E k \in Kind : queues[f][k] > 0]

(***************************************************************************)
(* The list and the entries implement QueueRanges: through every split,    *)
(* merge, failed request, probe and removal no queue is owned twice or     *)
(* lost, and no function loses its range while it uses queues of it.       *)
(***************************************************************************)
Ranges == INSTANCE QueueRanges WITH owned <- Owned, avail <- Nobodys,
                                    busy <- InUse
KeepsRanges == Ranges!RangeSpec

(***************************************************************************)
(* An update that fails leaves the function the range it had ("request     *)
(* cannot be accommodated. Restore the dev_entry").                        *)
(***************************************************************************)
FailedUpdateKeeps ==
    [][\A f \in Func : rv'[f] \in {"NO_QUEUES_LEFT", "REJECTED"}
                       => Owned'[f] = Owned[f]]_vars

(***************************************************************************)
(* The counts of active queues are the queues the functions have added,    *)
(* one for each table a queue is in: those of an entry decide whether its  *)
(* range may change, the master's whether the global registers may         *)
(* (qdma_global_csr_set).                                                  *)
(***************************************************************************)
Added == UNION {{x} \X (1 .. TableUse(x[1], x[2])) : x \in Func \X Type}
ActiveCounts ==
    /\ masterActive = Cardinality(Added)
    /\ \A f \in devs : \A t \in Type : active[f][t] = TableUse(f, t)
=============================================================================
