--------------------------- MODULE QdmaDescqProps ---------------------------
(***************************************************************************)
(* What the descriptor queue of QdmaDescq promises its callers.            *)
(***************************************************************************)
EXTENDS QdmaDescq, FiniteSets

(***************************************************************************)
(* The free descriptors and those between the consumer and the producer    *)
(* index make up the ring less one slot ("we can never use the full ring   *)
(* because then cidx would equal pidx", qdma_descq_config_complete), and   *)
(* the written-back, the hardware's and the doorbell index follow each     *)
(* other in that interval.  It covers stop, restart and stale doorbells.   *)
(***************************************************************************)
RingAccounting ==
    /\ avail + Delta(pidx, cidx) = RngSz - 1
    /\ live => /\ Delta(wb, cidx) <= Delta(hwc, cidx)
               /\ Delta(hwc, cidx) <= Delta(doorbell, cidx)
               /\ Delta(doorbell, cidx) <= Delta(pidx, cidx)

Queued == {work[i] : i \in 1 .. Len(work)} \cup {pend[i] : i \in 1 .. Len(pend)}

\* The descriptors that the listed requests still wait for.
Awaited == UNION {{r} \X (1 .. descNr[r]) : r \in Queued}

(***************************************************************************)
(* The descriptors the listed requests still wait for are exactly those    *)
(* not reaped yet and the credits kept for a request that is only partly   *)
(* written: desc_nr, pidx, cidx and credit are updated by three functions. *)
(***************************************************************************)
CreditAccounting ==
    qState = "ONLINE" => /\ \A r \in Queued : descNr[r] >= 0
                         /\ Cardinality(Awaited) = Delta(pidx, cidx) + credit

(***************************************************************************)
(* A caller told of success has had all its data moved.                    *)
(***************************************************************************)
NoEarlyCompletion ==
    \A r \in Req : result[r] = "ok" => moved[r] = NDesc[r]

(***************************************************************************)
(* No list holds a request whose owner has been told the outcome and may   *)
(* have freed it.                                                          *)
(***************************************************************************)
NoDanglingRequest == \A r \in Queued : result[r] = "none"

(***************************************************************************)
(* The status page is not read after it was freed: a queued interrupt work *)
(* that finds descriptors outstanding reads it.                            *)
(***************************************************************************)
StatusPageMapped == svcQueued /\ ~live => pidx = cidx

(***************************************************************************)
(* A request is answered once: a completion, the drain of a stop, a        *)
(* timeout and a failed submission exclude each other.                     *)
(***************************************************************************)
AnsweredOnce ==
    [][\A r \in Req : result[r] # "none" => result'[r] = result[r]]_result

(***************************************************************************)
(* The hardware touches no buffer its owner has got back.                  *)
(***************************************************************************)
NoDmaAfterAnswer ==
    [][\A r \in Req : moved'[r] # moved[r] => result[r] = "none"]_moved

(***************************************************************************)
(* A queue whose drain did not time out goes offline with an idle          *)
(* hardware: pend_list_empty is never set early and never stale.           *)
(***************************************************************************)
StopQuiesces ==
    [][qState = "ONLINE" /\ qState' = "ENABLED" /\ pc[Stp] = "drained"
       => hwc = doorbell]_vars

(***************************************************************************)
(* work_req_pend is what its declaration says, the current request count.  *)
(***************************************************************************)
WorkReqPendCounts == at = "free" => workReqPend = Len(work)

(***************************************************************************)
(* Every request submitted is answered, through full rings, interrupts     *)
(* that coalesce, a kernel thread that sleeps and queues that stop.        *)
(***************************************************************************)
EveryRequestAnswered ==
    \A r \in Req : (pc[r] # "new") ~> (result[r] # "none")

(***************************************************************************)
(* qdma_queue_stop returns.                                                *)
(***************************************************************************)
StopEnds == (pc[Stp] \in {"wait", "drained", "expired"}) ~> (pc[Stp] = "idle")
=============================================================================
