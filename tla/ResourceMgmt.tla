---------------------------- MODULE ResourceMgmt ----------------------------
(***************************************************************************)
(* The queue resource manager (qdma_access/qdma_resource_mgmt.c) of one    *)
(* device, and the driver calls that use it: probing and removing a        *)
(* physical function, a virtual function's messages to its parent, the     *)
(* qmax attribute, and the queues added and removed.                       *)
(*                                                                         *)
(* The manager keeps the hardware queues nobody owns in a list of chunks,  *)
(* free_list, and one entry per function with the chunk it owns and its    *)
(* active queues.  Each call takes the manager's mutex once, so it is one  *)
(* action; a function that probes or goes away makes several calls, and    *)
(* those of the other functions come in between.                           *)
(***************************************************************************)
EXTENDS Integers, Sequences, FiniteSetsExt, SequencesExt

CONSTANTS
    Pf, Vf,       \* the physical and the virtual functions
    Parent,       \* the physical function of each virtual one
    QBase,        \* QDMA_QBASE
    TotalQ,       \* dev_cap.num_qs
    MmCmptEn,     \* dev_cap.mm_cmpt_en: MM completion queues may be added
    MaxQ          \* bound on the queues of each kind of a function

Func == Pf \cup Vf

ASSUME RangeAssumption ==
    /\ QBase \in Nat /\ TotalQ \in Nat \ {0} /\ MaxQ \in Nat
    /\ MmCmptEn \in BOOLEAN /\ Pf \cap Vf = {} /\ Parent \in [Vf -> Pf]

\* The counters of an entry, the kinds of queue, and what each one counts.
Type  == {"H2C", "C2H", "CMPT"}
Kind  == {"H2C", "C2H", "ST C2H"} \cup (IF MmCmptEn THEN {"CMPT"} ELSE {})
\* Mutant: an ST C2H queue does not count its completion ring.
CountsOne(k) == {IF k = "ST C2H" THEN "C2H" ELSE k}
Counts(k) == IF k = "ST C2H" THEN {"C2H", "CMPT"} ELSE {k}

VARIABLES
    exists,       \* the master resource is on master_resource_list
    free,         \* free_list
    masterActive, \* active_qcnt
    devs,         \* the functions on dev_list
    entry,        \* the chunk of each of them
    active,       \* active_h2c_qcnt, active_c2h_qcnt, active_cmpt_qcnt
    pc,           \* how far each function's driver is
    queues,       \* the queues it has added, by kind
    rv            \* what its last qdma_dev_update returned

mgrVars == <<exists, free, masterActive, devs, entry, active>>
vars == <<mgrVars, pc, queues, rv>>

NoChunk  == [qbase |-> -1, total |-> 0]
NoActive == [t \in Type |-> 0]
NoQueues == [k \in Kind |-> 0]
Chunk    == [qbase : Int, total : Nat]
Node     == [qbase : Nat, total : Nat \ {0}]
End(c)   == c.qbase + c.total

\* The types of the variables.
TypeOK ==
    /\ exists \in BOOLEAN
    /\ free \in Seq(Node)
    /\ masterActive \in Int
    /\ devs \subseteq Func
    /\ entry \in [Func -> Chunk]
    /\ active \in [Func -> [Type -> Nat]]
    /\ pc \in [Func -> {"closed", "probe", "fresh", "again", "open",
                        "leaving"}]
    /\ queues \in [Func -> [Kind -> 0 .. MaxQ]]
    /\ rv \in [Func -> {"none", "0", "NO_QUEUES_LEFT", "REJECTED"}]

Init ==
    /\ exists = FALSE /\ free = <<>> /\ masterActive = 0 /\ devs = {}
    /\ entry = [f \in Func |-> NoChunk]
    /\ active = [f \in Func |-> NoActive]
    /\ pc = [f \in Func |-> "closed"]
    /\ queues = [f \in Func |-> NoQueues]
    /\ rv = [f \in Func |-> "none"]
-----------------------------------------------------------------------------
(* The free list.                                                          *)

\* In front of the first node that lies behind it.
InsertChunk(list, c) ==
    LET behind == {i \in 1 .. Len(list) : list[i].qbase > c.qbase} IN
    IF behind = {} THEN Append(list, c) ELSE InsertAt(list, Min(behind), c)

\* De-fragment: a node that starts where the last one ends is added to it.
Join(list, c) ==
    IF list # <<>> /\ End(Last(list)) = c.qbase
    THEN [list EXCEPT ![Len(list)].total = @ + c.total]
    ELSE Append(list, c)
Merge(list) ==
    LET merged[k \in 0 .. Len(list)] ==
            IF k = 0 THEN <<>> ELSE Join(merged[k - 1], list[k])
    IN merged[Len(list)]

\* qdma_submit_to_free_list.
Submit(list, c) == IF c.total = 0 THEN list ELSE Merge(InsertChunk(list, c))

\* qdma_get_resource_node: the first node with the wanted range, or the
\* last one of the smallest that are large enough.
Holding(list, n, b) ==
    {i \in 1 .. Len(list) : b >= list[i].qbase /\ b + n <= End(list[i])}
Fitting(list, n) == {i \in 1 .. Len(list) : list[i].total >= n}
Smallest(list, S) ==
    Max({i \in S : \A j \in S : list[i].total <= list[j].total})

\* The places where n queues can be cut out: at most one.
Places(list, n, b) ==
    IF b >= 0 /\ Holding(list, n, b) # {}
    THEN {[at |-> Min(Holding(list, n, b)), qbase |-> b]}
    ELSE IF Fitting(list, n) # {}
    THEN LET i == Smallest(list, Fitting(list, n))
         IN {[at |-> i, qbase |-> list[i].qbase]}
    ELSE {}

\* What remains of the list once n queues are cut out at p: the node is
\* split into what is left in front and behind.
Rest(c) == IF c.total > 0 THEN <<c>> ELSE <<>>
Cut(list, n, p) ==
    LET node  == list[p.at]
        front == [qbase |-> node.qbase, total |-> p.qbase - node.qbase]
        back  == [qbase |-> p.qbase + n, total |-> End(node) - (p.qbase + n)]
    IN SubSeq(list, 1, p.at - 1)
         \o Rest(front) \o Rest(back)
         \o SubSeq(list, p.at + 1, Len(list))

\* The entry f had before is taken out of the list again.
\* Mutant: from wherever it fits.
OldPlacesAnywhere(list, old) == Places(list, old.total, -1)
OldPlaces(list, old) == Places(list, old.total, old.qbase)

Take(f, list, n, p) ==
    /\ entry' = [entry EXCEPT ![f] = [qbase |-> p.qbase, total |-> n]]
    /\ free' = Cut(list, n, p)

\* qdma_request_q_resource: give back, then take; if that fails, take what
\* f had.
Request(f, n, b) ==
    LET old  == entry[f]
        list == Submit(free, old)
    IN
    \/ /\ n = 0
       /\ free' = list
       /\ entry' = IF old.total = 0 THEN entry
                   ELSE [entry EXCEPT ![f] = NoChunk]
       /\ rv' = [rv EXCEPT ![f] = "0"]
    \/ /\ n > 0
       /\ \E p \in Places(list, n, b) : Take(f, list, n, p)
       /\ rv' = [rv EXCEPT ![f] = "0"]
    \/ /\ n > 0 /\ Places(list, n, b) = {}
       /\ \/ \E p \in OldPlaces(list, old) : Take(f, list, old.total, p)
          \/ /\ OldPlaces(list, old) = {}
             /\ free' = list
             /\ entry' = [entry EXCEPT ![f] = NoChunk]
       /\ rv' = [rv EXCEPT ![f] = "NO_QUEUES_LEFT"]

\* qdma_dev_update: not while f has active queues.
\* Mutant: only the H2C queues are looked at.
IdleH2C(f) == active[f]["H2C"] = 0
Idle(f) == \A t \in Type : active[f][t] = 0
DevUpdate(f, n, b) ==
    \/ Idle(f) /\ Request(f, n, b)
    \/ /\ ~Idle(f)
       /\ rv' = [rv EXCEPT ![f] = "REJECTED"]
       /\ UNCHANGED <<free, entry>>
-----------------------------------------------------------------------------
(* A physical function: qdma_device_open and qdma_device_close.            *)

\* qdma_master_resource_create, or the resource already created.
MasterCreate(f) ==
    /\ f \in Pf /\ pc[f] = "closed"
    /\ pc' = [pc EXCEPT ![f] = "probe"]
    /\ \/ exists /\ UNCHANGED <<exists, free, masterActive>>
       \/ /\ ~exists
          /\ exists' = TRUE
          /\ free' = <<[qbase |-> QBase, total |-> TotalQ]>>
          /\ masterActive' = 0
    /\ UNCHANGED <<devs, entry, active, queues, rv>>

\* qdma_dev_qinfo_get, and qdma_dev_entry_create if there is no entry yet.
NewEntry(f) ==
    /\ devs' = devs \cup {f}
    /\ entry' = [entry EXCEPT ![f] = NoChunk]
    /\ active' = [active EXCEPT ![f] = NoActive]

EntryCreate(f) ==
    /\ pc[f] = "probe"
    /\ \/ ~exists /\ pc' = [pc EXCEPT ![f] = "closed"]
          /\ UNCHANGED <<devs, entry, active>>
       \/ exists /\ f \in devs /\ pc' = [pc EXCEPT ![f] = "again"]
          /\ UNCHANGED <<devs, entry, active>>
       \/ exists /\ f \notin devs /\ pc' = [pc EXCEPT ![f] = "fresh"]
          /\ NewEntry(f)
    /\ UNCHANGED <<exists, free, masterActive, queues, rv>>

\* A new function asks for every queue, a known one for what it has.
ProbeUpdate(f) ==
    /\ \/ pc[f] = "fresh" /\ DevUpdate(f, TotalQ, 0)
       \/ pc[f] = "again" /\ DevUpdate(f, entry[f].total, entry[f].qbase)
    /\ pc' = [pc EXCEPT ![f] = IF rv'[f] = "0" THEN "open" ELSE "closed"]
    /\ UNCHANGED <<exists, masterActive, devs, active, queues>>

\* qdma_device_cleanup removes the queues of the H2C and C2H tables, an ST C2H
\* queue with its completion ring, and not those of the CMPT table, which it
\* frees; then the entry is destroyed.
Cleaned(f) == queues[f]["H2C"] + queues[f]["C2H"] + 2 * queues[f]["ST C2H"]

EntryDestroy(f) ==
    /\ masterActive' = masterActive - Cleaned(f)
    /\ queues' = [queues EXCEPT ![f] = NoQueues]
    /\ free' = Submit(free, entry[f])
    /\ entry' = [entry EXCEPT ![f] = NoChunk]
    /\ active' = [active EXCEPT ![f] = NoActive]
    /\ devs' = devs \ {f}
    /\ rv' = [rv EXCEPT ![f] = "none"]

\* It has seen its virtual functions off (xdev_sriov_disable).
Close(f) ==
    /\ f \in Pf /\ pc[f] = "open"
    /\ \A v \in Vf : Parent[v] = f => pc[v] = "closed"
    /\ EntryDestroy(f)
    /\ pc' = [pc EXCEPT ![f] = "leaving"]
    /\ UNCHANGED exists

\* qdma_master_resource_destroy: not while a function has an entry.
MasterDestroy(f) ==
    /\ pc[f] = "leaving"
    /\ pc' = [pc EXCEPT ![f] = "closed"]
    /\ \/ devs # {} /\ UNCHANGED <<exists, free, masterActive>>
       \/ devs = {} /\ exists' = FALSE /\ free' = <<>> /\ masterActive' = 0
    /\ UNCHANGED <<devs, entry, active, queues, rv>>
-----------------------------------------------------------------------------
(* A virtual function, by messages to its parent.                          *)

\* MBOX_OP_HELLO
Hello(f) ==
    /\ f \in Vf /\ pc[f] = "closed" /\ pc[Parent[f]] = "open"
    /\ NewEntry(f)
    /\ pc' = [pc EXCEPT ![f] = "open"]
    /\ UNCHANGED <<exists, free, masterActive, queues, rv>>

\* Its cleanup, then MBOX_OP_VF_BYE.
Bye(f) ==
    /\ f \in Vf /\ pc[f] = "open"
    /\ EntryDestroy(f)
    /\ pc' = [pc EXCEPT ![f] = "closed"]
    /\ UNCHANGED exists
-----------------------------------------------------------------------------
(* Both kinds.                                                             *)

\* qdma_set_qmax, or qdma_vf_qconf with MBOX_OP_QREQ.
SetQmax(f, n) ==
    /\ pc[f] = "open"
    /\ DevUpdate(f, n, -1)
    /\ UNCHANGED <<exists, masterActive, devs, active, pc, queues>>

\* An ST C2H queue and an MM completion queue need a table index each, and
\* C2H queues of both modes share a table.
TableUse(f, t) ==
    CASE t = "H2C"  -> queues[f]["H2C"]
      [] t = "C2H"  -> queues[f]["C2H"] + queues[f]["ST C2H"]
      [] t = "CMPT" -> queues[f]["ST C2H"]
                         + (IF MmCmptEn THEN queues[f]["CMPT"] ELSE 0)

\* qdma_dev_increment_active_queue, for each counter of the kind.
QueueAdd(f, k) ==
    /\ pc[f] = "open" /\ queues[f][k] < MaxQ
    /\ \A t \in Counts(k) : /\ TableUse(f, t) < entry[f].total
                            /\ active[f][t] + 1 <= entry[f].total
    /\ queues' = [queues EXCEPT ![f][k] = @ + 1]
    /\ active' = [active EXCEPT ![f] =
                    [t \in Type |-> IF t \in Counts(k) THEN @[t] + 1 ELSE @[t]]]
    /\ masterActive' = masterActive + Cardinality(Counts(k))
    /\ UNCHANGED <<exists, free, devs, entry, pc, rv>>

\* qdma_dev_decrement_active_queue; the entry's counter stays above zero,
\* the master's does not.
\* Mutant: only one counter of an ST C2H queue is taken back.
LessOne(f, k) ==
    [t \in Type |-> IF t \in CountsOne(k) /\ active[f][t] > 0
                    THEN active[f][t] - 1 ELSE active[f][t]]
Less(f, k) ==
    [t \in Type |-> IF t \in Counts(k) /\ active[f][t] > 0
                    THEN active[f][t] - 1 ELSE active[f][t]]
QueueRemove(f, k) ==
    /\ pc[f] = "open" /\ queues[f][k] > 0
    /\ queues' = [queues EXCEPT ![f][k] = @ - 1]
    /\ active' = [active EXCEPT ![f] = Less(f, k)]
    /\ masterActive' = masterActive - Cardinality(Counts(k))
    /\ UNCHANGED <<exists, free, devs, entry, pc, rv>>
-----------------------------------------------------------------------------
Probe(f)  == MasterCreate(f) \/ EntryCreate(f) \/ ProbeUpdate(f)
Depart(f) == Close(f) \/ MasterDestroy(f) \/ Bye(f)

Next ==
    \E f \in Func :
       \/ Probe(f) \/ Depart(f) \/ Hello(f)
       \/ \E n \in 0 .. TotalQ + 1 : SetQmax(f, n)
       \/ \E k \in Kind : QueueAdd(f, k) \/ QueueRemove(f, k)

Spec == Init /\ [][Next]_vars
=============================================================================
