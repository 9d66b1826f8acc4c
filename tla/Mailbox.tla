------------------------------ MODULE Mailbox ------------------------------
(***************************************************************************)
(* The mailbox between the virtual functions and their parent              *)
(* (libqdma/qdma_mbox.c), with the opening and closing of a function and   *)
(* the parent's record of who is online (libqdma/qdma_sriov.c).            *)
(*                                                                         *)
(* Every end has a list of messages to send, one list of requests that     *)
(* wait for an answer, one outgoing register, and one single-threaded      *)
(* work queue that runs tx_work and rx_work in turn.  The parent answers   *)
(* all functions through one list and one register.                        *)
(*                                                                         *)
(* External: a register takes no message before the last one was read, and *)
(* reading raises an interrupt at nobody; a message that arrives raises    *)
(* one at its receiver.  PROMPT: a sender is asleep before its answer      *)
(* arrives, and no time-out falls between two instructions of a work item  *)
(* that holds the message (see the README for what happens otherwise).     *)
(***************************************************************************)
EXTENDS Integers, Sequences, FiniteSets, SequencesExt

CONSTANTS VF,           \* the virtual functions
          PF,           \* their parent
          Snd,          \* threads that send for a function
          VfOf,         \* the function of each
          ReqOps,       \* operations of ordinary requests
          NoMsg, NoVf,
          MaxRetry,     \* retry_cnt of a message without answer
          MaxSend,      \* bound: messages each thread sends
          MayExpire,    \* bound: threads whose waits may time out
          OpenFirst     \* bound: sets of functions that are open already

(* struct mbox_msg: the function and the thread it is from, its operation, *)
(* its number among the thread's, and whether it is the answer             *)
Message == [vf: VF, snd: Snd, op: ReqOps \cup {"HELLO", "BYE"}, n: Nat,
            rsp: BOOLEAN, wait: BOOLEAN, retry: 1 .. MaxRetry]

ASSUME MboxAssumption ==
    /\ IsFiniteSet(VF) /\ PF \notin VF /\ NoVf \notin VF
    /\ NoMsg \notin Message
    /\ VfOf \in [Snd -> VF]
    /\ MaxRetry \in Nat \ {0} /\ MaxSend \in [Snd -> Nat]
    /\ MayExpire \subseteq Snd /\ OpenFirst \subseteq SUBSET VF
    /\ {"HELLO", "BYE"} \cap ReqOps = {}

VARIABLES todo,     \* tx_todo_list of each end
          pend,     \* rx_pend_list of each function
          out,      \* the outgoing register of each end
          wq,       \* the work items queued at each end, "tx" and "rx"
          work,     \* what the work queue is at: "idle", "tx", "sent", "rx"
          busy,     \* send_busy
          timer,    \* the timer is running, but for rx_poll, where it always is
          poll,     \* rx_poll of each end, fixed when it starts
          vst,      \* each function: "off", "hello", "on", "bye"
          waits,    \* the message each thread sleeps for, or NoMsg
          sent,     \* messages each thread has sent
          wrong,    \* a thread was given the answer to another request
          slot,     \* vf_info[i].func_id
          online,   \* vf_count_online
          expired,  \* operations of each function that have timed out
          lost,     \* a message was given up after MaxRetry tries
          orphan    \* an answer met no request that waits for it

mboxLists == <<todo, pend, out>>
mboxWork  == <<wq, work, busy, timer, poll>>
mboxUser  == <<vst, waits, sent, wrong>>
mboxPf    == <<slot, online>>
mboxHist  == <<expired, lost, orphan>>
mboxVars  == <<mboxLists, mboxWork, mboxUser, mboxPf, mboxHist>>

End   == VF \cup {PF}
Slots == 1 .. Cardinality(VF)

SendersOf(v) == {s \in Snd : VfOf[s] = v}

(* Where a message goes: functions write to the parent, which writes to    *)
(* the function it answers.                                                *)
Target(m)  == IF m.rsp THEN m.vf ELSE PF
Arriving(e) == {d \in End : out[d] # NoMsg /\ Target(out[d]) = e}

Alive(e) == e \in VF => vst[e] # "off"

MboxInit ==
    /\ todo = [e \in End |-> <<>>] /\ pend = [v \in VF |-> <<>>]
    /\ out = [e \in End |-> NoMsg]
    /\ wq = [e \in End |-> <<>>]
    /\ work = [e \in End |-> "idle"]
    /\ busy = [e \in End |-> FALSE]
    /\ poll \in {[e \in End |-> b] : b \in BOOLEAN}
    /\ \E on \in OpenFirst : vst = [v \in VF |-> IF v \in on THEN "on" ELSE "off"]
    /\ timer = [e \in End |-> FALSE]
    /\ waits = [s \in Snd |-> NoMsg] /\ sent = [s \in Snd |-> 0]
    /\ wrong = FALSE
    /\ LET on == {v \in VF : vst[v] = "on"} IN
         /\ online = Cardinality(on)
         /\ slot \in {f \in [Slots -> on \cup {NoVf}] :
                       /\ \A i \in Slots : f[i] # NoVf <=> i <= online
                       /\ \A v \in on : \E i \in Slots : f[i] = v}
    /\ expired = [v \in VF |-> {}] /\ lost = FALSE /\ orphan = FALSE

-----------------------------------------------------------------------------
(* Senders. *)

(* queue_work does nothing for an item that is queued already *)
Queued(q, item) == IF Contains(q, item) THEN q ELSE Append(q, item)

(* qdma_mbox_msg_send, up to the sleep *)
Post(s, op, wait) ==
    LET v == VfOf[s]
        m == [vf |-> v, snd |-> s, op |-> op, n |-> sent[s], rsp |-> FALSE,
              wait |-> wait, retry |-> MaxRetry]
    IN  /\ sent[s] < MaxSend[s] /\ waits[s] = NoMsg
        /\ sent' = [sent EXCEPT ![s] = @ + 1]
        /\ todo' = [todo EXCEPT ![v] = Append(@, m)]
        /\ waits' = (IF wait THEN [waits EXCEPT ![s] = m] ELSE waits)
        /\ wq' = [wq EXCEPT ![v] = Queued(@, "tx")]

(* A function is opened: qdma_mbox_init finds the work queue at rest and   *)
(* discards what arrived, xdev_sriov_vf_online says hello.                 *)
MboxOpen(s) ==
    LET v == VfOf[s] IN
    /\ vst[v] = "off" /\ work[v] = "idle" /\ wq[v] = <<>>
    /\ Post(s, "HELLO", TRUE)
    /\ vst' = [vst EXCEPT ![v] = "hello"]
    /\ out' = [e \in End |-> IF e \in Arriving(v) THEN NoMsg ELSE out[e]]
    /\ timer' = [timer EXCEPT ![v] = FALSE]
    /\ busy' = [busy EXCEPT ![v] = FALSE]
    /\ UNCHANGED <<pend, work, poll, wrong, mboxPf, mboxHist>>

MboxRequest(s, op) ==
    /\ vst[VfOf[s]] = "on"
    /\ Post(s, op, TRUE)
    /\ UNCHANGED <<pend, out, work, busy, timer, poll, vst, wrong, mboxPf,
                   mboxHist>>

(* xdev_sriov_vf_offline: a function goes when nobody uses it any more *)
MboxBye(s) ==
    LET v == VfOf[s] IN
    /\ vst[v] = "on" /\ \A t \in SendersOf(v) : waits[t] = NoMsg
    /\ Post(s, "BYE", FALSE)
    /\ vst' = [vst EXCEPT ![v] = "bye"]
    /\ UNCHANGED <<pend, out, work, busy, timer, poll, wrong, mboxPf,
                   mboxHist>>

(* qdma_mbox_stop waits for the list to be empty, and a while for the      *)
(* register; then the timer stops.                                         *)
MboxStop(v) ==
    /\ vst[v] = "bye" /\ todo[v] = <<>> /\ work[v] = "idle" /\ wq[v] = <<>>
    /\ vst' = [vst EXCEPT ![v] = "off"]
    /\ timer' = [timer EXCEPT ![v] = FALSE]
    /\ UNCHANGED <<mboxLists, wq, work, busy, poll, waits, sent, wrong,
                   mboxPf, mboxHist>>

(* list_del *)
Without(list, m) ==
    LET at == {k \in DOMAIN list : list[k] = m}
    IN  IF at = {} THEN list ELSE RemoveAt(list, CHOOSE k \in at : TRUE)

(* The wait of 10 s ends without an answer; a function that got no answer  *)
(* to its hello does not open.                                             *)
MboxExpire(s) ==
    LET m == waits[s]
        v == VfOf[s]
    IN  /\ m # NoMsg
        /\ s \in MayExpire
        /\ work[v] \in {"idle", "rx"}                         \* PROMPT
        /\ todo' = [todo EXCEPT ![v] = Without(@, m)]
        /\ pend' = [pend EXCEPT ![v] = Without(@, m)]
        /\ waits' = [waits EXCEPT ![s] = NoMsg]
        /\ expired' = [expired EXCEPT ![v] = @ \cup {m.op}]
        /\ vst' = (IF m.op = "HELLO" THEN [vst EXCEPT ![v] = "off"] ELSE vst)
        /\ timer' = (IF m.op = "HELLO" THEN [timer EXCEPT ![v] = FALSE]
                     ELSE timer)
        /\ UNCHANGED <<out, wq, work, busy, poll, sent, wrong, mboxPf,
                       lost, orphan>>

-----------------------------------------------------------------------------
(* The work queue.  One item at a time, in the order they were queued: an  *)
(* answer cannot be looked for before tx_work has put the request on       *)
(* rx_pend_list.  Taking an item is one step with its first instruction.   *)

\* Mutant: two items may run at once.
RunsBeside(e, item) ==
    \/ work[e] = item
    \/ work[e] \in {"idle", "sent"} /\ wq[e] # <<>> /\ Head(wq[e]) = item
Runs(e, item) ==
    \/ work[e] = item
    \/ work[e] = "idle" /\ wq[e] # <<>> /\ Head(wq[e]) = item
Rest(e) == IF work[e] = "idle" THEN Tail(wq[e]) ELSE wq[e]

(* a message put in a register raises an interrupt at its receiver *)
Raise(m, e) ==
    LET q == [wq EXCEPT ![e] = Rest(e)]
        d == Target(m)
    IN  wq' = IF poll[d] \/ ~Alive(d) THEN q
              ELSE [q EXCEPT ![d] = Queued(@, "rx")]

(* mbox_tx_work, mbox_hw_send succeeds *)
MboxTxSend(e) ==
    /\ Runs(e, "tx") /\ todo[e] # <<>> /\ out[e] = NoMsg
    /\ out' = [out EXCEPT ![e] = Head(todo[e])]
    /\ busy' = [busy EXCEPT ![e] = FALSE]
    /\ work' = [work EXCEPT ![e] = "sent"]
    /\ Raise(Head(todo[e]), e)
    /\ UNCHANGED <<todo, pend, timer, poll, mboxUser, mboxPf, mboxHist>>

\* Mutant: list_add for list_add_tail.
PendingFirst(list, m) == <<m>> \o list
Pending(list, m) == Append(list, m)

(* the message leaves the list: to wait for its answer, or to be freed *)
MboxTxSent(e) ==
    LET m == Head(todo[e]) IN
    /\ work[e] = "sent"
    /\ todo' = [todo EXCEPT ![e] = Tail(@)]
    /\ pend' = (IF m.wait THEN [pend EXCEPT ![e] = Pending(@, m)] ELSE pend)
    /\ work' = [work EXCEPT ![e] = IF Len(todo[e]) = 1 THEN "idle" ELSE "tx"]
    /\ UNCHANGED <<out, wq, busy, timer, poll, mboxUser, mboxPf, mboxHist>>

\* Mutant: nobody starts the timer.
TimerNotStarted(e) == UNCHANGED timer
TimerStart(e) == timer' = [timer EXCEPT ![e] = TRUE]

(* the register is taken: try again when the timer fires, a message that   *)
(* nobody waits for no more than MaxRetry times                            *)
MboxTxBusy(e) ==
    LET m == Head(todo[e])
        r == IF m.wait THEN m.retry ELSE m.retry - 1
    IN  /\ Runs(e, "tx") /\ todo[e] # <<>> /\ out[e] # NoMsg
        /\ work' = [work EXCEPT ![e] = "idle"]
        /\ wq' = [wq EXCEPT ![e] = Rest(e)]
        /\ \/ /\ r # 0
              /\ todo' = [todo EXCEPT ![e][1].retry = r]
              /\ busy' = [busy EXCEPT ![e] = TRUE]
              /\ TimerStart(e)
              /\ UNCHANGED lost
           \/ /\ r = 0
              /\ todo' = [todo EXCEPT ![e] = Tail(@)]
              /\ lost' = TRUE
              /\ UNCHANGED <<busy, timer>>
        /\ UNCHANGED <<pend, out, poll, mboxUser, mboxPf, expired, orphan>>

(* an item that finds nothing to send or to read *)
MboxNothing(e) ==
    /\ \/ Runs(e, "tx") /\ todo[e] = <<>>
       \/ Runs(e, "rx") /\ Arriving(e) = {}
    /\ work' = [work EXCEPT ![e] = "idle"]
    /\ wq' = [wq EXCEPT ![e] = Rest(e)]
    /\ UNCHANGED <<mboxLists, busy, timer, poll, mboxUser, mboxPf, mboxHist>>

(* mbox_timer_handler; with rx_poll, rx_work starts the timer again at once *)
MboxTimer(e) ==
    LET rx == poll[e] /\ Arriving(e) # {}
        q  == IF rx THEN Queued(wq[e], "rx") ELSE wq[e]
    IN  /\ timer[e] \/ (poll[e] /\ Alive(e))
        /\ wq' = [wq EXCEPT ![e] = IF busy[e] THEN Queued(q, "tx") ELSE q]
        /\ wq' # wq
        /\ timer' = [timer EXCEPT ![e] = FALSE]
        /\ UNCHANGED <<mboxLists, work, busy, poll, mboxUser, mboxPf, mboxHist>>

(* mbox_rx_work takes a message, and another one if there is one *)
Receive(e, d) ==
    /\ Runs(e, "rx")
    /\ out' = [out EXCEPT ![d] = NoMsg]
    /\ work' = [work EXCEPT ![e] = IF Arriving(e) = {d} THEN "idle" ELSE "rx"]

(* mbox_rx_work of a function: the first request with the operation of the *)
(* answer is woken with what arrived                                       *)
MboxRxVf(v) ==
    \E e \in Arriving(v) :
      LET m     == out[e]
          mates == {k \in DOMAIN pend[v] : pend[v][k].op = m.op}
          k     == CHOOSE x \in mates : \A y \in mates : x <= y
          r     == pend[v][k]
      IN  /\ Receive(v, e)
          /\ wq' = [wq EXCEPT ![v] = Rest(v)]
          /\ \/ /\ mates = {}
                /\ orphan' = (orphan \/ m.op \notin expired[v])
                /\ UNCHANGED <<pend, waits, wrong, vst>>
             \/ /\ mates # {}
                /\ pend' = [pend EXCEPT ![v] = RemoveAt(@, k)]
                /\ waits' = [waits EXCEPT ![r.snd] = NoMsg]
                /\ wrong' = (wrong \/ (<<r.snd, r.n>> # <<m.snd, m.n>>
                                         /\ m.op \notin expired[v] /\ ~lost))
                /\ vst' = (IF m.op = "HELLO" THEN [vst EXCEPT ![v] = "on"]
                           ELSE vst)
                /\ UNCHANGED orphan
          /\ UNCHANGED <<todo, busy, timer, poll, sent, mboxPf, expired,
                         lost>>

(* xdev_sriov_vf_online, reset_state idle *)
VfOnline(v) ==
    LET free == {i \in Slots : slot[i] = NoVf} IN
    /\ online' = online + 1
    /\ slot' = (IF free = {} THEN slot
                ELSE [slot EXCEPT ![CHOOSE i \in free :
                                      \A j \in free : i <= j] = v])

\* Mutant: the slot stays taken.
VfOfflineSlot(v) == online' = online - 1 /\ UNCHANGED slot

(* xdev_sriov_vf_offline, reset_state idle *)
VfOffline(v) ==
    /\ online' = online - 1
    /\ slot' = [i \in Slots |-> IF slot[i] = v THEN NoVf ELSE slot[i]]

(* mbox_rx_work of the parent: the handler's answer goes to the end of the *)
(* parent's list; a farewell gets none                                     *)
MboxRxPf ==
    \E v \in Arriving(PF) :
      LET m      == out[v]
          answer == [m EXCEPT !.rsp = TRUE, !.wait = FALSE, !.retry = MaxRetry]
      IN  /\ Receive(PF, v)
          /\ \/ m.op = "HELLO" /\ VfOnline(v)
             \/ m.op = "BYE" /\ VfOffline(v)
             \/ m.op \in ReqOps /\ UNCHANGED mboxPf
          /\ \/ /\ m.op = "BYE" /\ UNCHANGED todo
                /\ wq' = [wq EXCEPT ![PF] = Rest(PF)]
             \/ /\ m.op # "BYE"
                /\ todo' = [todo EXCEPT ![PF] = Append(@, answer)]
                /\ wq' = [wq EXCEPT ![PF] = Queued(Rest(PF), "tx")]
          /\ UNCHANGED <<pend, busy, timer, poll, mboxUser, mboxHist>>

MboxWorker(e) ==
    \/ MboxTxSend(e) \/ MboxTxSent(e) \/ MboxTxBusy(e) \/ MboxNothing(e)
    \/ e \in VF /\ MboxRxVf(e)
    \/ e = PF /\ MboxRxPf

(* Nothing is left to do but to send. *)
MboxQuiet ==
    /\ \A e \in End : work[e] = "idle" /\ wq[e] = <<>>
    /\ UNCHANGED mboxVars

MboxNext ==
    \/ \E s \in Snd : \/ MboxOpen(s) \/ MboxBye(s) \/ MboxExpire(s)
                      \/ \E op \in ReqOps : MboxRequest(s, op)
    \/ \E v \in VF : MboxStop(v)
    \/ \E e \in End : MboxWorker(e) \/ MboxTimer(e)
    \/ MboxQuiet

(* The kernel runs queued work, timers fire. *)
MboxFairness ==
    \A e \in End : WF_mboxVars(MboxWorker(e) \/ MboxTimer(e))

MboxSpec == MboxInit /\ [][MboxNext]_mboxVars /\ MboxFairness

-----------------------------------------------------------------------------
(* Properties. *)

(* A thread is woken with the answer to its own request, although answers  *)
(* are matched by operation only and two threads of a function may ask the *)
(* same: every list and register on the way keeps the order.  (Not once a  *)
(* request of that operation has timed out or its answer was given up: an  *)
(* answer is then taken for that of another request.)                      *)
AnswerIsOwn == ~wrong

(* An answer finds its request waiting unless that has timed out: tx_work  *)
(* puts it on rx_pend_list before rx_work can run.                         *)
AnswerFindsRequest == ~orphan

(* As long as no hello has timed out and no farewell was given up, the     *)
(* parent's count is the number of slots taken, no function has two, and   *)
(* a function that is open has one, also when it closed and opened again   *)
(* before the parent had read its farewell.                                *)
ParentKnowsOnline ==
    (\A v \in VF : "HELLO" \notin expired[v]) /\ ~lost =>
        /\ online = Cardinality({i \in Slots : slot[i] # NoVf})
        /\ \A i, j \in Slots : slot[i] = slot[j] /\ i # j => slot[i] = NoVf
        /\ \A v \in VF : vst[v] = "on" => \E i \in Slots : slot[i] = v

(* A request is answered (or times out) without anybody sending again,     *)
(* unless the parent has given up a message.                               *)
RequestAnswered ==
    \A s \in Snd : waits[s] # NoMsg ~> waits[s] = NoMsg \/ lost
=============================================================================
