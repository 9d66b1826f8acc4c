----------------------------- MODULE QueueTable -----------------------------
(***************************************************************************)
(* The queues of one device: libqdma's three tables of descriptor queues,  *)
(* with the calls that add, start, stop and remove one                     *)
(* (libqdma_export.c), and above them the table of the driver that keeps   *)
(* the handle of each queue and the character device that the two queues   *)
(* of an index share (qdma_mod.c).                                         *)
(*                                                                         *)
(* A step is one control call.  Netlink runs its requests one at a time;   *)
(* what two calls at once would do is not modelled.                        *)
(***************************************************************************)
EXTENDS Integers, FiniteSets

CONSTANTS
    Qmax,       \* qdev->qmax, the queues of each kind
    AnyIdx,     \* QDMA_QUEUE_IDX_INVALID: libqdma chooses the index
    Asked,      \* the indices an add may ask for, of Idx and AnyIdx
    Vf,         \* built with __QDMA_VF__
    Faults      \* the calls inside the operations that may fail

Idx  == 0 .. Qmax - 1
Dir  == {"H2C", "C2H"}
Kind == Dir \union {"CMPT"}

ASSUME QueueTableAssumption ==
    /\ Qmax \in Nat \ {0} /\ AnyIdx \notin Idx /\ Asked \subseteq Idx \union {AnyIdx}
    /\ Vf \in BOOLEAN /\ Faults \subseteq {"prep", "count", "cdev"}

VARIABLES
    tab,    \* the descqs: q_state and conf.st of each kind and index
    qcnt,   \* active queues of each kind, in the resource manager
    qdata,  \* the driver's record of each kind and index: has it a handle,
            \* and has it a pointer to the character device
    cdev    \* dir_init of the character device of an index, {} when it has none

tableVars == << tab, qcnt, qdata, cdev >>

Added(t, i) == tab[t][i].state # "DISABLED"

Unowned == [qhndl |-> FALSE, xcdev |-> FALSE]

TableInit ==
    /\ tab = [t \in Kind |-> [i \in Idx |-> [state |-> "DISABLED", st |-> FALSE]]]
    /\ qcnt = [t \in Kind |-> 0]
    /\ qdata = [t \in Kind |-> [i \in Idx |-> Unowned]]
    /\ cdev = [i \in Idx |-> {}]

Peer(t) == IF t = "H2C" THEN "C2H" ELSE "H2C"

\* The mode bit of refmask: a queue of the index is in stream mode.
Streams(i) == \E t \in Dir : Added(t, i) /\ tab[t][i].st

\* Mutant: a stream queue does not mind the completion queue of its index.
UsableBesideCmpt(t, i, st) ==
    IF t = "CMPT" THEN ~Added("CMPT", i) /\ ~Streams(i)
    ELSE ~Added(t, i) /\ (Added(Peer(t), i) => (st <=> Streams(i)))

\* One index, one mode; no completion queue beside queues in stream mode.
is_usable_queue(t, i, st) ==
    IF t = "CMPT" THEN ~Added("CMPT", i) /\ ~Streams(i)
    ELSE /\ ~(st /\ Added("CMPT", i))
         /\ Added(Peer(t), i) => (st <=> Streams(i))
         /\ ~Added(t, i)

\* The loop advances descq with i and adds i once more when it has found one:
\* the descq used is not the one whose index is given out.  A slot outside of
\* the table is not followed any further.
Chosen(t, ask, st) ==
    IF ask # AnyIdx THEN {c \in {[qidx |-> ask, slot |-> ask]} : is_usable_queue(t, ask, st)}
    ELSE {[qidx |-> i, slot |-> i + i] : i \in
            {i \in Idx : /\ is_usable_queue(t, i, st)
                         /\ \A j \in 0 .. i - 1 : ~is_usable_queue(t, j, st)
                         /\ i + i < Qmax}}

\* A queue in stream mode towards the host counts as a completion queue too.
Counting(t, st) == IF t = "C2H" /\ st THEN {"C2H", "CMPT"} ELSE {t}

\* Mutant: a virtual function leaves the state as a physical one does.
PrepKeeps(slot) == [slot EXCEPT !.state = "ENABLED"]
\* qdma_device_prep_q_resource has failed: only a virtual function takes the
\* state back.
PrepFailed(slot) == [slot EXCEPT !.state = IF Vf THEN "DISABLED" ELSE "ENABLED"]

\* xpdev_queue_add once libqdma has returned a handle: the character device is
\* that of the other direction, or a new one.
Register(t, i) ==
    \/ /\ t \in Dir /\ qdata[Peer(t)][i].xcdev
       /\ qdata' = [qdata EXCEPT ![t][i] = [qhndl |-> TRUE, xcdev |-> TRUE]]
       /\ cdev' = [cdev EXCEPT ![i] = @ \union {t}]
    \/ /\ t \in Dir /\ ~qdata[Peer(t)][i].xcdev
       /\ qdata' = [qdata EXCEPT ![t][i] = [qhndl |-> TRUE, xcdev |-> TRUE]]
       /\ cdev' = [cdev EXCEPT ![i] = {t}]
    \/ /\ t \in Dir /\ ~qdata[Peer(t)][i].xcdev /\ "cdev" \in Faults
       /\ qdata' = [qdata EXCEPT ![t][i] = [qhndl |-> TRUE, xcdev |-> FALSE]]
       /\ UNCHANGED cdev
    \/ /\ t = "CMPT"
       /\ qdata' = [qdata EXCEPT ![t][i] = [qhndl |-> TRUE, xcdev |-> FALSE]]
       /\ UNCHANGED cdev

\* qdma_queue_add, and the driver's part when it succeeds.
AddQueue(t, ask, st) ==
    /\ ~(st /\ t = "CMPT")
    /\ qcnt[t] < Qmax
    /\ \E c \in Chosen(t, ask, st) :
          \/ /\ tab' = [tab EXCEPT ![t][c.slot] = [state |-> "ENABLED", st |-> st]]
             /\ qcnt' = [k \in Kind |-> qcnt[k] + IF k \in Counting(t, st) THEN 1 ELSE 0]
             /\ Register(t, c.qidx)
          \/ /\ "prep" \in Faults
             /\ tab' = [tab EXCEPT ![t][c.slot] = PrepFailed(@)]
             /\ UNCHANGED << qcnt, qdata, cdev >>
          \/ /\ "count" \in Faults
             /\ tab' = [tab EXCEPT ![t][c.slot] = [state |-> "ENABLED", st |-> st]]
             /\ UNCHANGED << qcnt, qdata, cdev >>

\* qdma_queue_start; one that fails leaves the queue enabled.
StartQueue(t, i) ==
    /\ qdata[t][i].qhndl /\ tab[t][i].state = "ENABLED"
    /\ tab' = [tab EXCEPT ![t][i].state = "ONLINE"]
    /\ UNCHANGED << qcnt, qdata, cdev >>

StopQueue(t, i) ==
    /\ qdata[t][i].qhndl /\ tab[t][i].state = "ONLINE"
    /\ tab' = [tab EXCEPT ![t][i].state = "ENABLED"]
    /\ UNCHANGED << qcnt, qdata, cdev >>

LessOf(cnt, gone) == [k \in Kind |-> cnt[k] - IF k \in gone THEN 1 ELSE 0]

\* xpdev_queue_delete with qdma_queue_remove.  A count that cannot be taken back
\* leaves everything as it was.
RemoveQueue(t, i) ==
    /\ qdata[t][i].qhndl /\ (t \in Dir => qdata[t][i].xcdev)
    /\ tab[t][i].state = "ENABLED"
    /\ tab' = [tab EXCEPT ![t][i].state = "DISABLED"]
    /\ qcnt' = LessOf(qcnt, Counting(t, tab[t][i].st))
    /\ qdata' = [qdata EXCEPT ![t][i] = Unowned]
    /\ cdev' = [cdev EXCEPT ![i] = @ \ {t}]

\* xpdev_device_cleanup at one of the records that share a character device.
Visit(dirs, record) ==
    IF ~record.xcdev THEN dirs ELSE IF Cardinality(dirs) = 1 THEN {} ELSE {"H2C"}

\* A function level reset and the online that follows, with as many queues as
\* before: qdma_device_cleanup stops and removes the queues of both directions
\* and frees the tables, a virtual function's counts go with its BYE, and the
\* driver clears its records of the two directions.
ResetDevice ==
    /\ tab' = [t \in Kind |-> [i \in Idx |-> [state |-> "DISABLED", st |-> FALSE]]]
    /\ qcnt' = [k \in Kind |->
                  IF Vf THEN 0
                  ELSE qcnt[k] - Cardinality({d \in Dir \X Idx :
                           Added(d[1], d[2]) /\ k \in Counting(d[1], tab[d[1]][d[2]].st)})]
    /\ cdev' = [i \in Idx |-> Visit(Visit(cdev[i], qdata["H2C"][i]), qdata["C2H"][i])]
    /\ qdata' = [qdata EXCEPT !["H2C"] = [i \in Idx |-> Unowned],
                              !["C2H"] = [i \in Idx |-> Unowned]]

TableNext ==
    \/ \E t \in Kind, st \in BOOLEAN, ask \in Asked : AddQueue(t, ask, st)
    \/ \E t \in Kind, i \in Idx : StartQueue(t, i) \/ StopQueue(t, i) \/ RemoveQueue(t, i)
    \/ ResetDevice

TableSpec == TableInit /\ [][TableNext]_tableVars

-----------------------------------------------------------------------------
\* Every queue that libqdma has added is one the driver has the handle and, for
\* a direction, the character device of, so that it can be removed again; and a
\* character device is there for the directions that are added, no other
\* (xpdev_queue_add after qdma_queue_add, with the failures in between).
QueueHasOwner ==
    /\ \A t \in Kind, i \in Idx : Added(t, i) => qdata[t][i].qhndl
    /\ \A i \in Idx : cdev[i] = {t \in Dir : Added(t, i)}

\* The two directions of an index are in one mode, and the completion queue of
\* an index, which a queue in stream mode has of its own, is added beside queues
\* in memory mode only (is_usable_queue, whatever the order of the adds).
ModesAgree ==
    \A i \in Idx :
        /\ Added("H2C", i) /\ Added("C2H", i) => tab["H2C"][i].st = tab["C2H"][i].st
        /\ Added("CMPT", i) => ~Streams(i)
=============================================================================
