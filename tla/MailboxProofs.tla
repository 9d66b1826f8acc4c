--------------------------- MODULE MailboxProofs ---------------------------
(***************************************************************************)
(* The mailbox for any functions, threads, operations and retries.         *)
(*                                                                         *)
(* The first part is about lists and types, and about what each action     *)
(* does to what the invariants speak of (Effect): the work queues, timers  *)
(* and interrupts only decide when something happens, and safety does not  *)
(* depend on it, but for one thing: that the end that is between the two   *)
(* halves of a transmission does nothing else.                             *)
(*                                                                         *)
(* The second part is about a session of a function, from its hello to its *)
(* farewell: how far it has come follows from what lies in the lists and   *)
(* registers on either side, and so does whether it has a slot.            *)
(*                                                                         *)
(* The third part is about the flight of requests and answers: read from   *)
(* the parent's register back to the function's, the answers come in the   *)
(* order in which their requests wait.                                     *)
(***************************************************************************)
EXTENDS Mailbox, FiniteSetTheorems, SequenceTheorems, TLAPS

AllOps == ReqOps \cup {"HELLO", "BYE"}

MboxType ==
    /\ todo \in [End -> Seq(Message)] /\ pend \in [VF -> Seq(Message)]
    /\ out \in [End -> Message \cup {NoMsg}]
    /\ work \in [End -> {"idle", "tx", "sent", "rx"}]
    /\ vst \in [VF -> {"off", "hello", "on", "bye"}]
    /\ waits \in [Snd -> Message \cup {NoMsg}] /\ sent \in [Snd -> Nat]
    /\ slot \in [Slots -> VF \cup {NoVf}] /\ online \in Int
    /\ expired \in [VF -> SUBSET AllOps]
    /\ wrong \in BOOLEAN /\ lost \in BOOLEAN /\ orphan \in BOOLEAN

\* A request of v, which somebody waits for unless it says farewell; an answer.
Asked(m, v) == ~m.rsp /\ m.vf = v /\ VfOf[m.snd] = v /\ (m.wait <=> m.op # "BYE")
Answered(m) == m.rsp /\ VfOf[m.snd] = m.vf /\ ~m.wait /\ m.op # "BYE"

\* Functions hold requests of their own, the parent holds answers, and a
\* transmission is under way only with something to send.
Addressed ==
    /\ \A e \in End : work[e] = "sent" => todo[e] # <<>>
    /\ \A v \in VF : /\ \A k \in 1 .. Len(todo[v]) : Asked(todo[v][k], v)
                     /\ out[v] # NoMsg => Asked(out[v], v)
                     /\ \A k \in 1 .. Len(pend[v]) : Asked(pend[v][k], v)
    /\ \A k \in 1 .. Len(todo[PF]) : Answered(todo[PF][k])
    /\ out[PF] # NoMsg => Answered(out[PF])

\* Threads sleep for requests of their own, while their function opens for its
\* hello only, and then only one does.
Asleep ==
    /\ \A s \in Snd : waits[s] # NoMsg =>
         /\ Asked(waits[s], VfOf[s]) /\ waits[s].wait /\ waits[s].snd = s
         /\ vst[VfOf[s]] \in {"hello", "on"}
         /\ waits[s].op = "HELLO" <=> vst[VfOf[s]] = "hello"
    /\ \A s, t \in Snd : waits[s] # NoMsg /\ waits[t] # NoMsg /\ VfOf[s] = VfOf[t]
                           /\ vst[VfOf[s]] = "hello" => s = t

\* What is listed to be answered somebody sleeps for, and it is listed once.
Listed ==
    \A v \in VF :
      /\ \A k \in 1 .. Len(todo[v]) : todo[v][k].wait => waits[todo[v][k].snd] = todo[v][k]
      /\ \A k \in 1 .. Len(pend[v]) : waits[pend[v][k].snd] = pend[v][k]
      /\ \A j, k \in 1 .. Len(todo[v]) :
            todo[v][j].wait /\ todo[v][k].wait /\ todo[v][j].snd = todo[v][k].snd => j = k
      /\ \A j, k \in 1 .. Len(pend[v]) : pend[v][j].snd = pend[v][k].snd => j = k
      /\ \A j \in 1 .. Len(todo[v]), k \in 1 .. Len(pend[v]) :
            todo[v][j].wait => todo[v][j].snd # pend[v][k].snd

-----------------------------------------------------------------------------
(* The session of a function. *)

\* The places of a list whose messages have not been in the register yet.
Unsent(e) == IF work[e] = "sent" THEN 2 .. Len(todo[e]) ELSE 1 .. Len(todo[e])

\* No hello has timed out, no message was given up.
Sound == (\A v \in VF : "HELLO" \notin expired[v]) /\ ~lost

\* A message of v with this operation that the parent has not read.
ToSend(v, op) == \E k \in Unsent(v) : todo[v][k].op = op
InReg(v, op)  == out[v] # NoMsg /\ out[v].op = op
Unread(v, op) == ToSend(v, op) \/ InReg(v, op)

HasSlot(v) == \E i \in Slots : slot[i] = v

\* An answer to a hello of v is on its way, in the register or at place i.
Greets(v, i) == \/ i = 0 /\ out[PF] # NoMsg /\ out[PF].vf = v /\ out[PF].op = "HELLO"
                \/ i \in Unsent(PF) /\ todo[PF][i].vf = v /\ todo[PF][i].op = "HELLO"

\* Hello and farewell of v that are still on its side: one of each, a hello
\* only while v opens, a farewell last or in front of the next hello.
Line(v) ==
    /\ \A k \in 1 .. Len(todo[v]) :
         /\ todo[v][k].op = "HELLO" => vst[v] = "hello"
         /\ todo[v][k].op = "BYE"   => vst[v] = "bye" /\ k = Len(todo[v])
    /\ \A j, k \in Unsent(v) : todo[v][j].op = "HELLO" /\ todo[v][k].op = "HELLO" => j = k
    /\ InReg(v, "HELLO") => vst[v] = "hello" /\ ~ToSend(v, "HELLO")
    /\ InReg(v, "BYE") => /\ vst[v] \in {"bye", "off", "hello"} /\ ~ToSend(v, "BYE")
                          /\ vst[v] = "hello" => ToSend(v, "HELLO")

\* One answer to a hello at most, and to one that was read.
Greeting(v) ==
    /\ \A i \in Nat : Greets(v, i) => vst[v] = "hello" /\ ~Unread(v, "HELLO")
    /\ \A i, j \in Nat : Greets(v, i) /\ Greets(v, j) => i = j

\* The parent has read a hello of v and no farewell since.
Online(v) == \/ Unread(v, "BYE") \/ vst[v] = "on"
             \/ vst[v] = "hello" /\ ~Unread(v, "HELLO")

Session(v) == Line(v) /\ Greeting(v) /\ (HasSlot(v) <=> Online(v))

\* The count is that of the slots taken, and nobody has two.
Slotted == /\ online = Cardinality({i \in Slots : slot[i] # NoVf})
           /\ \A i, j \in Slots : slot[i] = slot[j] /\ slot[i] # NoVf => i = j

KnownInv == Sound => Slotted /\ \A v \in VF : Session(v)

-----------------------------------------------------------------------------
(* The flight of requests and answers. *)

\* What an answer and its request have in common.
Id(m) == [snd |-> m.snd, n |-> m.n, op |-> m.op]
IdSet == [snd: Snd, n: Nat, op: AllOps]

\* The way to v, from its end: the parent's register, the parent's list, and
\* the register of v, from where a request comes to the end of that list.
InFlight(v, i, x) ==
    \/ i = 0 /\ out[PF] # NoMsg /\ out[PF].vf = v /\ Id(out[PF]) = x
    \/ i \in Unsent(PF) /\ todo[PF][i].vf = v /\ Id(todo[PF][i]) = x
    \/ i = Len(todo[PF]) + 1 /\ out[v] # NoMsg /\ out[v].op # "BYE" /\ Id(out[v]) = x

\* The requests of v that wait: those listed, and the one just sent.
InPend(v, k, x) ==
    \/ k \in 1 .. Len(pend[v]) /\ Id(pend[v][k]) = x
    \/ k = Len(pend[v]) + 1 /\ work[v] = "sent" /\ todo[v][1].wait /\ Id(todo[v][1]) = x

Flies(v, x)   == \E i \in Nat : InFlight(v, i, x)
Awaited(v, x) == \E k \in Nat : InPend(v, k, x)
FliesBefore(v, x, y)   == \E i, j \in Nat : i < j /\ InFlight(v, i, x) /\ InFlight(v, j, y)
AwaitedBefore(v, x, y) == \E i, j \in Nat : i < j /\ InPend(v, i, x) /\ InPend(v, j, y)

FlyOf(v, op)   == {x \in IdSet : x.op = op /\ Flies(v, x)}
AwaitOf(v, op) == {x \in IdSet : x.op = op /\ Awaited(v, x)}

\* Nothing flies twice, and a request yet to be sent has not flown.
Numbered(v) ==
    /\ \A x \in IdSet : ~FliesBefore(v, x, x)
    /\ \A x \in IdSet : Flies(v, x) => x.n < sent[x.snd]
    /\ \A k \in Unsent(v), x \in IdSet : todo[v][k].wait /\ Id(todo[v][k]) = x =>
          ~Flies(v, x) /\ x.n < sent[x.snd]

\* No more answers come than requests wait, of an operation that never timed
\* out: that an answer finds a request holds although others were lost.
Enough(v) == \A op \in AllOps \ expired[v] :
    /\ IsFiniteSet(FlyOf(v, op)) /\ IsFiniteSet(AwaitOf(v, op))
    /\ Cardinality(FlyOf(v, op)) <= Cardinality(AwaitOf(v, op))

\* As long as none was lost, those are the same requests, in the same order.
InOrder(v) ==
    ~lost => /\ \A x \in IdSet : x.op \notin expired[v] => (Flies(v, x) <=> Awaited(v, x))
             /\ \A x, y \in IdSet : x.op \notin expired[v] /\ y.op \notin expired[v]
                  /\ FliesBefore(v, x, y) => ~AwaitedBefore(v, y, x)

FlightAt(w) == Numbered(w) /\ Enough(w) /\ InOrder(w)

FlightInv == \A v \in VF : FlightAt(v)

-----------------------------------------------------------------------------
(* The lists.                                                              *)

LEMMA ListAppend ==
  ASSUME NEW S, NEW s \in Seq(S), NEW x \in S
  PROVE  /\ Append(s, x) \in Seq(S)
         /\ Len(Append(s, x)) = Len(s) + 1
         /\ \A k \in 1 .. Len(s) : Append(s, x)[k] = s[k]
         /\ Append(s, x)[Len(s) + 1] = x
BY AppendProperties

LEMMA ListTail ==
  ASSUME NEW S, NEW s \in Seq(S), s # <<>>
  PROVE  /\ Head(s) = s[1] /\ s[1] \in S
         /\ Len(s) \in Nat \ {0}
         /\ Tail(s) \in Seq(S)
         /\ Len(Tail(s)) = Len(s) - 1
         /\ \A k \in 1 .. Len(s) - 1 : Tail(s)[k] = s[k + 1]
<1>1. Len(s) \in Nat /\ Len(s) # 0
  BY EmptySeq
<1>2. QED BY <1>1, HeadTailProperties

\* A list without the entry at p.
Omits(t, s, p) ==
    /\ Len(t) = Len(s) - 1
    /\ \A k \in 1 .. Len(t) : t[k] = s[IF k < p THEN k ELSE k + 1]

LEMMA ListRemove ==
  ASSUME NEW S, NEW s \in Seq(S), NEW p \in 1 .. Len(s)
  PROVE  RemoveAt(s, p) \in Seq(S) /\ Omits(RemoveAt(s, p), s, p)
<1>1. Len(s) \in Nat /\ \A k \in 1 .. Len(s) : s[k] \in S
  OBVIOUS
<1> DEFINE a == SubSeq(s, 1, p - 1)
           b == SubSeq(s, p + 1, Len(s))
<1>2. a \in Seq(S) /\ Len(a) = p - 1 /\ \A k \in 1 .. p - 1 : a[k] = s[k]
  BY <1>1, SubSeqProperties
<1>3. b \in Seq(S) /\ Len(b) = Len(s) - p /\ \A k \in 1 .. Len(s) - p : b[k] = s[p + k]
  BY <1>1, SubSeqProperties
<1>4. RemoveAt(s, p) = a \o b
  BY DEF RemoveAt
<1> HIDE DEF a, b
<1>5. /\ a \o b \in Seq(S) /\ Len(a \o b) = Len(a) + Len(b)
      /\ \A k \in 1 .. Len(a) + Len(b) : (a \o b)[k] = IF k <= Len(a) THEN a[k] ELSE b[k - Len(a)]
  BY <1>2, <1>3, ConcatProperties
<1>6. Len(a \o b) = Len(s) - 1
  BY <1>1, <1>2, <1>3, <1>5
<1>7. ASSUME NEW k \in 1 .. Len(s) - 1
      PROVE  (a \o b)[k] = s[IF k < p THEN k ELSE k + 1]
  <2>1. CASE k < p
    BY <2>1, <1>1, <1>2, <1>3, <1>5
  <2>2. CASE k >= p
    <3>1. k - Len(a) \in 1 .. Len(s) - p /\ p + (k - Len(a)) = k + 1
      BY <2>2, <1>1, <1>2
    <3>2. (a \o b)[k] = b[k - Len(a)]
      BY <2>2, <1>1, <1>2, <1>3, <1>5
    <3>3. b[k - Len(a)] = s[p + (k - Len(a))]
      BY <3>1, <1>3
    <3>4. QED BY <3>1, <3>2, <3>3, <2>2, <1>1
  <2>3. k < p \/ k >= p
    BY <1>1
  <2>4. QED BY <2>1, <2>2, <2>3
<1>8. QED BY <1>4, <1>5, <1>6, <1>7 DEF Omits

LEMMA ListWithout ==
  ASSUME NEW S, NEW s \in Seq(S), NEW m
  PROVE  /\ Without(s, m) \in Seq(S)
         /\ \/ Without(s, m) = s /\ \A k \in 1 .. Len(s) : s[k] # m
            \/ \E p \in 1 .. Len(s) : s[p] = m /\ Omits(Without(s, m), s, p)
<1> DEFINE at == {k \in DOMAIN s : s[k] = m}
<1>1. DOMAIN s = 1 .. Len(s)
  OBVIOUS
<1>2. CASE at = {}
  BY <1>1, <1>2 DEF Without
<1>3. CASE at # {}
  <2>1. PICK p \in at : p = CHOOSE k \in at : TRUE
    BY <1>3
  <2>2. Without(s, m) = RemoveAt(s, p)
    BY <1>3, <2>1 DEF Without
  <2>3. p \in 1 .. Len(s) /\ s[p] = m
    BY <1>1
  <2>4. QED BY <2>2, <2>3, ListRemove
<1>4. QED BY <1>2, <1>3

\* A set of numbers has a least one.
LEMMA LeastOf ==
  ASSUME NEW T, T \subseteq Nat, T # {}
  PROVE  \E m \in T : \A k \in T : m <= k
<1>1. \E x \in T : \A y \in T : ~ (<<y, x>> \in OpToRel(<, Nat))
  BY WFMin, NatLessThanWellFounded
<1>2. PICK x \in T : \A y \in T : ~ (<<y, x>> \in OpToRel(<, Nat))
  BY <1>1
<1>3. \A y \in T : ~(y < x)
  BY <1>2 DEF OpToRel
<1>4. QED BY <1>3
-----------------------------------------------------------------------------
(* Type correctness.                                                       *)

LEMMA EndFacts ==
    /\ VF \subseteq End /\ PF \in End /\ PF \notin VF
    /\ VfOf \in [Snd -> VF] /\ NoMsg \notin Message
    /\ \A e \in End : e = PF \/ e \in VF
    /\ "HELLO" \notin ReqOps /\ "BYE" \notin ReqOps
    /\ MaxRetry \in Nat \ {0}
BY MboxAssumption DEF End

LEMMA RetryType ==
  ASSUME NEW m \in Message, NEW r \in 1 .. MaxRetry
  PROVE  /\ [m EXCEPT !.retry = r] \in Message
         /\ [m EXCEPT !.rsp = TRUE, !.wait = FALSE, !.retry = r] \in Message
BY DEF Message

LEMMA PostType ==
  ASSUME MboxType, NEW s \in Snd, NEW op \in AllOps, NEW wait \in BOOLEAN, Post(s, op, wait)
  PROVE  /\ todo' \in [End -> Seq(Message)]
         /\ waits' \in [Snd -> Message \cup {NoMsg}]
         /\ sent' \in [Snd -> Nat]
<1> DEFINE v == VfOf[s]
           m == [vf |-> v, snd |-> s, op |-> op, n |-> sent[s], rsp |-> FALSE,
                 wait |-> wait, retry |-> MaxRetry]
<1>1. v \in End /\ v \in VF /\ m \in Message
  BY EndFacts DEF MboxType, Message, AllOps
<1>2. Append(todo[v], m) \in Seq(Message)
  BY <1>1, ListAppend DEF MboxType
<1>3. /\ todo' = [todo EXCEPT ![v] = Append(@, m)]
      /\ waits' = (IF wait THEN [waits EXCEPT ![s] = m] ELSE waits)
      /\ sent' = [sent EXCEPT ![s] = @ + 1]
  BY DEF Post
<1> HIDE DEF v, m
<1>4. QED BY <1>1, <1>2, <1>3 DEF MboxType

LEMMA SenderType ==
  ASSUME MboxType, NEW s \in Snd,
         MboxOpen(s) \/ MboxBye(s) \/ MboxExpire(s) \/ \E op \in ReqOps : MboxRequest(s, op)
  PROVE  MboxType'
<1>1. CASE MboxOpen(s)
  <2>1. Post(s, "HELLO", TRUE)
    BY <1>1 DEF MboxOpen
  <2>2. /\ todo' \in [End -> Seq(Message)] /\ waits' \in [Snd -> Message \cup {NoMsg}]
        /\ sent' \in [Snd -> Nat]
    BY <2>1, PostType DEF AllOps
  <2>3. vst' \in [VF -> {"off", "hello", "on", "bye"}] /\ out' \in [End -> Message \cup {NoMsg}]
    BY <1>1 DEF MboxOpen, MboxType
  <2>4. QED BY <1>1, <2>2, <2>3 DEF MboxOpen, MboxType, mboxPf, mboxHist
<1>2. CASE MboxBye(s)
  <2>1. Post(s, "BYE", FALSE)
    BY <1>2 DEF MboxBye
  <2>2. /\ todo' \in [End -> Seq(Message)] /\ waits' \in [Snd -> Message \cup {NoMsg}]
        /\ sent' \in [Snd -> Nat]
    BY <2>1, PostType DEF AllOps
  <2>3. vst' \in [VF -> {"off", "hello", "on", "bye"}]
    BY <1>2 DEF MboxBye, MboxType
  <2>4. QED BY <1>2, <2>2, <2>3 DEF MboxBye, MboxType, mboxPf, mboxHist
<1>3. CASE MboxExpire(s)
  <2> DEFINE v == VfOf[s]
             m == waits[s]
  <2>1. v \in VF /\ v \in End
    BY EndFacts
  <2>2. m \in Message /\ m.op \in AllOps
    BY <1>3 DEF MboxExpire, MboxType, Message, AllOps
  <2>3. Without(todo[v], m) \in Seq(Message) /\ Without(pend[v], m) \in Seq(Message)
    <3>1. todo[v] \in Seq(Message) /\ pend[v] \in Seq(Message)
      BY <2>1 DEF MboxType
    <3>2. QED BY <3>1, ListWithout
  <2>4. /\ todo' = [todo EXCEPT ![v] = Without(@, m)]
        /\ pend' = [pend EXCEPT ![v] = Without(@, m)]
        /\ waits' = [waits EXCEPT ![s] = NoMsg]
        /\ expired' = [expired EXCEPT ![v] = @ \cup {m.op}]
        /\ vst' = (IF m.op = "HELLO" THEN [vst EXCEPT ![v] = "off"] ELSE vst)
        /\ UNCHANGED <<out, work, sent, wrong, slot, online, lost, orphan>>
    BY <1>3 DEF MboxExpire, mboxPf
  <2> HIDE DEF v, m
  <2>5. QED BY <2>1, <2>2, <2>3, <2>4 DEF MboxType
<1>4. ASSUME NEW op \in ReqOps, MboxRequest(s, op)
      PROVE  MboxType'
  <2>1. Post(s, op, TRUE)
    BY <1>4 DEF MboxRequest
  <2>2. /\ todo' \in [End -> Seq(Message)] /\ waits' \in [Snd -> Message \cup {NoMsg}]
        /\ sent' \in [Snd -> Nat]
    BY <2>1, PostType DEF AllOps
  <2>4. QED BY <1>4, <2>2 DEF MboxRequest, MboxType, mboxPf, mboxHist
<1>5. QED BY <1>1, <1>2, <1>3, <1>4

LEMMA WorkerType ==
  ASSUME MboxType, Addressed, NEW e \in End, MboxWorker(e)
  PROVE  MboxType'
<1>0. todo[e] \in Seq(Message)
  BY DEF MboxType
<1>1. CASE MboxTxSend(e)
  <2>1. Head(todo[e]) \in Message
    BY <1>0, <1>1, ListTail DEF MboxTxSend
  <2>2. /\ out' = [out EXCEPT ![e] = Head(todo[e])] /\ work' = [work EXCEPT ![e] = "sent"]
        /\ UNCHANGED <<todo, pend, vst, waits, sent, wrong, slot, online, expired, lost, orphan>>
    BY <1>1 DEF MboxTxSend, mboxUser, mboxPf, mboxHist
  <2>3. QED BY <2>1, <2>2 DEF MboxType
<1>2. CASE MboxTxSent(e) /\ todo[e] # <<>>
  <2>1. Head(todo[e]) \in Message /\ Tail(todo[e]) \in Seq(Message)
    BY <1>0, <1>2, ListTail
  <2>2. ASSUME e \in VF PROVE Append(pend[e], Head(todo[e])) \in Seq(Message)
    BY <2>1, <2>2, ListAppend DEF MboxType
  <2>3. /\ todo' = [todo EXCEPT ![e] = Tail(@)]
        /\ pend' = (IF Head(todo[e]).wait THEN [pend EXCEPT ![e] = Append(@, Head(todo[e]))] ELSE pend)
        /\ work' = [work EXCEPT ![e] = IF Len(todo[e]) = 1 THEN "idle" ELSE "tx"]
        /\ UNCHANGED <<out, vst, waits, sent, wrong, slot, online, expired, lost, orphan>>
    BY <1>2 DEF MboxTxSent, Pending, mboxUser, mboxPf, mboxHist
  <2>4. pend' \in [VF -> Seq(Message)]
    BY <2>2, <2>3 DEF MboxType
  <2>5. QED BY <2>1, <2>3, <2>4 DEF MboxType
<1>3. CASE MboxTxBusy(e)
  <2> DEFINE m == Head(todo[e])
             r == IF m.wait THEN m.retry ELSE m.retry - 1
  <2>1. todo[e] # <<>> /\ m = todo[e][1] /\ m \in Message /\ Tail(todo[e]) \in Seq(Message)
        /\ 1 \in 1 .. Len(todo[e])
    BY <1>0, <1>3, ListTail DEF MboxTxBusy
  <2>2. ASSUME r # 0 PROVE [m EXCEPT !.retry = r] \in Message
    <3>1. m.retry \in 1 .. MaxRetry
      BY <2>1 DEF Message
    <3>2. r \in 1 .. MaxRetry
      BY <3>1, <2>2, EndFacts
    <3> HIDE DEF m, r
    <3>3. QED BY <2>1, <3>2, RetryType
  <2>3. CASE r # 0 /\ todo' = [todo EXCEPT ![e][1].retry = r]
    <3>1. todo' = [todo EXCEPT ![e] = [todo[e] EXCEPT ![1] = [m EXCEPT !.retry = r]]]
      BY <2>1, <2>3
    <3>2. [todo[e] EXCEPT ![1] = [m EXCEPT !.retry = r]] \in Seq(Message)
      BY <1>0, <2>1, <2>2, <2>3, ExceptSeq
    <3> HIDE DEF m, r
    <3>3. todo' \in [End -> Seq(Message)]
      BY <3>1, <3>2 DEF MboxType
    <3>4. work' = [work EXCEPT ![e] = "idle"] /\ lost' \in BOOLEAN
      BY <1>3 DEF MboxTxBusy, MboxType
    <3>5. QED BY <1>3, <3>3, <3>4 DEF MboxTxBusy, MboxType, mboxUser, mboxPf
  <2>4. CASE todo' = [todo EXCEPT ![e] = Tail(@)]
    <3>3. todo' \in [End -> Seq(Message)]
      BY <2>1, <2>4 DEF MboxType
    <3>4. work' = [work EXCEPT ![e] = "idle"] /\ lost' \in BOOLEAN
      BY <1>3 DEF MboxTxBusy, MboxType
    <3>5. QED BY <1>3, <3>3, <3>4 DEF MboxTxBusy, MboxType, mboxUser, mboxPf
  <2>5. QED BY <1>3, <2>3, <2>4 DEF MboxTxBusy
<1>4. CASE MboxNothing(e)
  BY <1>4 DEF MboxNothing, MboxType, mboxLists, mboxUser, mboxPf, mboxHist
<1>5. CASE e \in VF /\ MboxRxVf(e)
  <2>1. PICK d \in Arriving(e) :
          LET m     == out[d]
              mates == {k \in DOMAIN pend[e] : pend[e][k].op = m.op}
              k     == CHOOSE x \in mates : \A y \in mates : x <= y
              r     == pend[e][k]
          IN  /\ Receive(e, d)
              /\ \/ /\ orphan' = (orphan \/ m.op \notin expired[e])
                    /\ UNCHANGED <<pend, waits, wrong, vst>>
                 \/ /\ mates # {}
                    /\ pend' = [pend EXCEPT ![e] = RemoveAt(@, k)]
                    /\ waits' = [waits EXCEPT ![r.snd] = NoMsg]
                    /\ wrong' = (wrong \/ (<<r.snd, r.n>> # <<m.snd, m.n>>
                                             /\ m.op \notin expired[e] /\ ~lost))
                    /\ vst' = (IF m.op = "HELLO" THEN [vst EXCEPT ![e] = "on"] ELSE vst)
                    /\ UNCHANGED orphan
              /\ UNCHANGED <<todo, sent, mboxPf, expired, lost>>
    BY <1>5 DEF MboxRxVf
  <2> DEFINE mates == {k \in DOMAIN pend[e] : pend[e][k].op = out[d].op}
             k     == CHOOSE x \in mates : \A y \in mates : x <= y
  <2>2. out' \in [End -> Message \cup {NoMsg}] /\ work' \in [End -> {"idle", "tx", "sent", "rx"}]
    BY <2>1 DEF Receive, MboxType
  <2>3. mates # {} => k \in 1 .. Len(pend[e])
    <3>1. pend[e] \in Seq(Message)
      BY <1>5 DEF MboxType
    <3>2. mates \subseteq 1 .. Len(pend[e]) /\ Len(pend[e]) \in Nat
      BY <3>1
    <3>0. mates \subseteq Nat
      BY <3>2
    <3> HIDE DEF mates
    <3>3. mates # {} => \E x \in mates : \A y \in mates : x <= y
      BY <3>0, LeastOf
    <3>4. QED BY <3>2, <3>3
  <2>4. mates # {} => RemoveAt(pend[e], k) \in Seq(Message)
    <3>1. pend[e] \in Seq(Message)
      BY <1>5 DEF MboxType
    <3> HIDE DEF k, mates
    <3>2. QED BY <3>1, <2>3, ListRemove
  <2>5. pend' \in [VF -> Seq(Message)] /\ waits' \in [Snd -> Message \cup {NoMsg}]
        /\ vst' \in [VF -> {"off", "hello", "on", "bye"}] /\ orphan' \in BOOLEAN /\ wrong' \in BOOLEAN
    BY <2>1, <2>4 DEF MboxType
  <2>6. QED BY <2>1, <2>2, <2>5 DEF MboxType, mboxPf
<1>6. CASE e = PF /\ MboxRxPf
  <2>1. PICK v \in Arriving(PF) :
          /\ Receive(PF, v)
          /\ \/ VfOnline(v) \/ VfOffline(v) \/ UNCHANGED mboxPf
          /\ \/ UNCHANGED todo
             \/ todo' = [todo EXCEPT ![PF] = Append(@, [out[v] EXCEPT !.rsp = TRUE, !.wait = FALSE, !.retry = MaxRetry])]
          /\ UNCHANGED <<pend, mboxUser, mboxHist>>
    BY <1>6 DEF MboxRxPf
  <2>2. v \in VF /\ out[v] \in Message
    BY <2>1, EndFacts DEF Arriving, Target, MboxType, Addressed, Answered, Message
  <2>3. [out[v] EXCEPT !.rsp = TRUE, !.wait = FALSE, !.retry = MaxRetry] \in Message
    <3>1. MaxRetry \in 1 .. MaxRetry
      BY EndFacts
    <3>2. QED BY <2>2, <3>1, RetryType
  <2>4. todo' \in [End -> Seq(Message)]
    <3>1. todo[PF] \in Seq(Message)
      BY <1>0, <1>6
    <3>2. Append(todo[PF], [out[v] EXCEPT !.rsp = TRUE, !.wait = FALSE, !.retry = MaxRetry]) \in Seq(Message)
      BY <2>3, <3>1, ListAppend
    <3>3. QED BY <2>1, <3>2 DEF MboxType
  <2>5. slot' \in [Slots -> VF \cup {NoVf}] /\ online' \in Int
    <3>1. CASE VfOnline(v)
      <4>1. online' = online + 1 /\ (slot' = slot \/ \E i : slot' = [slot EXCEPT ![i] = v])
        BY <3>1, Zenon DEF VfOnline
      <4>2. slot' \in [Slots -> VF \cup {NoVf}]
        <5>1. CASE slot' = slot
          BY <5>1 DEF MboxType
        <5>2. ASSUME NEW i, slot' = [slot EXCEPT ![i] = v]
              PROVE  slot' \in [Slots -> VF \cup {NoVf}]
          BY <5>2, <2>2 DEF MboxType
        <5>3. QED BY <4>1, <5>1, <5>2
      <4>3. QED BY <4>1, <4>2 DEF MboxType
    <3>2. CASE VfOffline(v)
      BY <3>2 DEF VfOffline, MboxType
    <3>3. CASE UNCHANGED mboxPf
      BY <3>3 DEF mboxPf, MboxType
    <3>4. QED BY <2>1, <3>1, <3>2, <3>3
  <2>6. out' \in [End -> Message \cup {NoMsg}] /\ work' \in [End -> {"idle", "tx", "sent", "rx"}]
    BY <2>1 DEF Receive, MboxType
  <2>7. QED BY <2>1, <2>4, <2>5, <2>6 DEF MboxType, mboxUser, mboxHist
<1>7. QED BY <1>1, <1>2, <1>3, <1>4, <1>5, <1>6 DEF MboxWorker, MboxTxSent, Addressed
-----------------------------------------------------------------------------
(* What each action does to what the invariants speak of.                  *)

\* The list s grows by x at its end.
Adds(t, s, x) ==
    /\ Len(t) = Len(s) + 1
    /\ \A k \in 1 .. Len(s) : t[k] = s[k]
    /\ t[Len(s) + 1] = x

\* Only x of D changes.
OthersKeep(f, g, D, x) == \A d \in D \ {x} : g[d] = f[d]

\* The work item at e is not between the two halves of a transmission.
RestsAt(e) == /\ work[e] # "sent" /\ work'[e] # "sent"
              /\ OthersKeep(work, work', End, e)

KeepsUser == UNCHANGED <<vst, waits, sent, wrong>>
KeepsPf   == UNCHANGED <<slot, online>>
KeepsHist == UNCHANGED <<expired, lost, orphan>>

\* A thread puts a message on the list of its function: to open it, for a
\* request, or to say farewell.
Posts(s, m) ==
    /\ waits[s] = NoMsg
    /\ m \in Message /\ m.vf = VfOf[s] /\ m.snd = s /\ m.n = sent[s] /\ ~m.rsp
    /\ Adds(todo'[VfOf[s]], todo[VfOf[s]], m) /\ OthersKeep(todo, todo', End, VfOf[s])
    /\ sent'[s] = sent[s] + 1 /\ OthersKeep(sent, sent', Snd, s)
    /\ waits'[s] = (IF m.wait THEN m ELSE NoMsg) /\ OthersKeep(waits, waits', Snd, s)
    /\ UNCHANGED <<pend, work, wrong>> /\ KeepsPf /\ KeepsHist

Opens(s, m) ==
    /\ Posts(s, m) /\ m.op = "HELLO" /\ m.wait
    /\ vst[VfOf[s]] = "off" /\ work[VfOf[s]] = "idle"
    /\ vst'[VfOf[s]] = "hello" /\ OthersKeep(vst, vst', VF, VfOf[s])
    /\ \A v \in VF : out'[v] = out[v]
    /\ out'[PF] = IF out[PF] # NoMsg /\ out[PF].vf = VfOf[s] THEN NoMsg ELSE out[PF]

Requests(s, m) ==
    /\ Posts(s, m) /\ m.op \in ReqOps /\ m.wait
    /\ vst[VfOf[s]] = "on" /\ UNCHANGED <<out, vst>>

Leaves(s, m) ==
    /\ Posts(s, m) /\ m.op = "BYE" /\ ~m.wait
    /\ vst[VfOf[s]] = "on" /\ \A t \in SendersOf(VfOf[s]) : waits[t] = NoMsg
    /\ vst'[VfOf[s]] = "bye" /\ OthersKeep(vst, vst', VF, VfOf[s])
    /\ UNCHANGED out

Stops(v) ==
    /\ vst[v] = "bye" /\ vst'[v] = "off" /\ OthersKeep(vst, vst', VF, v)
    /\ todo[v] = <<>> /\ work[v] = "idle"
    /\ UNCHANGED <<todo, pend, out, work, waits, sent, wrong>> /\ KeepsPf /\ KeepsHist

\* m leaves the list it is on.
Drops(t, s, m) == \/ t = s /\ \A k \in 1 .. Len(s) : s[k] # m
                  \/ \E p \in 1 .. Len(s) : s[p] = m /\ Omits(t, s, p)

Expires(s, m) ==
    /\ m = waits[s] /\ m # NoMsg /\ m.op \in AllOps /\ work[VfOf[s]] # "sent"
    /\ Drops(todo'[VfOf[s]], todo[VfOf[s]], m) /\ OthersKeep(todo, todo', End, VfOf[s])
    /\ Drops(pend'[VfOf[s]], pend[VfOf[s]], m) /\ OthersKeep(pend, pend', VF, VfOf[s])
    /\ waits'[s] = NoMsg /\ OthersKeep(waits, waits', Snd, s)
    /\ expired'[VfOf[s]] = expired[VfOf[s]] \cup {m.op} /\ OthersKeep(expired, expired', VF, VfOf[s])
    /\ vst'[VfOf[s]] = (IF m.op = "HELLO" THEN "off" ELSE vst[VfOf[s]])
    /\ OthersKeep(vst, vst', VF, VfOf[s])
    /\ UNCHANGED <<out, work, sent, wrong, lost, orphan>> /\ KeepsPf

Sends(e) ==
    /\ todo[e] # <<>> /\ work[e] # "sent" /\ out[e] = NoMsg
    /\ out'[e] = todo[e][1] /\ OthersKeep(out, out', End, e)
    /\ work'[e] = "sent" /\ OthersKeep(work, work', End, e)
    /\ UNCHANGED <<todo, pend>> /\ KeepsUser /\ KeepsPf /\ KeepsHist

HasSent(e) ==
    /\ todo[e] # <<>> /\ work[e] = "sent"
    /\ Omits(todo'[e], todo[e], 1) /\ OthersKeep(todo, todo', End, e)
    /\ IF e \in VF /\ todo[e][1].wait
       THEN Adds(pend'[e], pend[e], todo[e][1]) /\ OthersKeep(pend, pend', VF, e)
       ELSE pend' = pend
    /\ work'[e] # "sent" /\ OthersKeep(work, work', End, e)
    /\ UNCHANGED out /\ KeepsUser /\ KeepsPf /\ KeepsHist

Retries(e) ==
    /\ todo[e] # <<>> /\ RestsAt(e)
    /\ Len(todo'[e]) = Len(todo[e]) /\ \A k \in 2 .. Len(todo[e]) : todo'[e][k] = todo[e][k]
    /\ \E r : todo'[e][1] = [todo[e][1] EXCEPT !.retry = r]
    /\ todo[e][1].wait => todo'[e] = todo[e]
    /\ OthersKeep(todo, todo', End, e)
    /\ UNCHANGED <<pend, out>> /\ KeepsUser /\ KeepsPf /\ KeepsHist

GivesUp(e) ==
    /\ todo[e] # <<>> /\ RestsAt(e) /\ ~todo[e][1].wait
    /\ Omits(todo'[e], todo[e], 1) /\ OthersKeep(todo, todo', End, e)
    /\ lost'
    /\ UNCHANGED <<pend, out, expired, orphan>> /\ KeepsUser /\ KeepsPf

Rests(e) ==
    /\ RestsAt(e)
    /\ UNCHANGED <<todo, pend, out>> /\ KeepsUser /\ KeepsPf /\ KeepsHist

\* The mates of an answer with this operation, and the one it is given to.
Mate(v, k, op) == k \in 1 .. Len(pend[v]) /\ pend[v][k].op = op
FirstMate(v, k, op) == Mate(v, k, op) /\ \A j \in 1 .. Len(pend[v]) : Mate(v, j, op) => k <= j

TakesAnswer(v, m) ==
    /\ m = out[PF] /\ m # NoMsg /\ m.vf = v /\ m.op \in AllOps
    /\ RestsAt(v)
    /\ out'[PF] = NoMsg /\ \A d \in VF : out'[d] = out[d]
    /\ UNCHANGED <<todo, sent, expired, lost>> /\ KeepsPf

Orphaned(v, m) ==
    /\ TakesAnswer(v, m) /\ \A k \in 1 .. Len(pend[v]) : ~Mate(v, k, m.op)
    /\ orphan' = (orphan \/ m.op \notin expired[v])
    /\ UNCHANGED <<pend, waits, wrong, vst>>

Wakes(v, m, k) ==
    /\ TakesAnswer(v, m) /\ FirstMate(v, k, m.op)
    /\ Omits(pend'[v], pend[v], k) /\ OthersKeep(pend, pend', VF, v)
    /\ waits'[pend[v][k].snd] = NoMsg /\ OthersKeep(waits, waits', Snd, pend[v][k].snd)
    /\ wrong' = (wrong \/ (<<pend[v][k].snd, pend[v][k].n>> # <<m.snd, m.n>>
                             /\ m.op \notin expired[v] /\ ~lost))
    /\ vst'[v] = (IF m.op = "HELLO" THEN "on" ELSE vst[v]) /\ OthersKeep(vst, vst', VF, v)
    /\ UNCHANGED orphan

TakesRequest(v, m) ==
    /\ m = out[v] /\ m # NoMsg /\ m.vf = v
    /\ RestsAt(PF)
    /\ out'[v] = NoMsg /\ OthersKeep(out, out', End, v)
    /\ \/ m.op = "HELLO" /\ VfOnline(v)
       \/ m.op = "BYE" /\ VfOffline(v)
       \/ m.op \in ReqOps /\ KeepsPf
    /\ IF m.op = "BYE" THEN UNCHANGED todo
       ELSE /\ Adds(todo'[PF], todo[PF], [m EXCEPT !.rsp = TRUE, !.wait = FALSE, !.retry = MaxRetry])
            /\ OthersKeep(todo, todo', End, PF)
    /\ UNCHANGED pend /\ KeepsUser /\ KeepsHist

Effect ==
    \/ \E s \in Snd, m \in Message :
         Opens(s, m) \/ Requests(s, m) \/ Leaves(s, m) \/ Expires(s, m)
    \/ \E e \in End : Sends(e) \/ HasSent(e) \/ Retries(e) \/ GivesUp(e) \/ Rests(e)
    \/ \E v \in VF : Stops(v)
    \/ \E v \in VF, m \in Message :
         Orphaned(v, m) \/ TakesRequest(v, m) \/ \E k \in 1 .. Len(pend[v]) : Wakes(v, m, k)

LEMMA PostsEffect ==
  ASSUME MboxType, NEW s \in Snd, NEW op \in AllOps, NEW wait \in BOOLEAN,
         Post(s, op, wait), UNCHANGED <<pend, work, wrong, slot, online, expired, lost, orphan>>
  PROVE  \E m \in Message : Posts(s, m) /\ m.op = op /\ m.wait = wait
<1> DEFINE v == VfOf[s]
           m == [vf |-> v, snd |-> s, op |-> op, n |-> sent[s], rsp |-> FALSE,
                 wait |-> wait, retry |-> MaxRetry]
<1>1. v \in End /\ v \in VF /\ m \in Message /\ m.vf = v /\ m.snd = s /\ m.n = sent[s] /\ m.rsp = FALSE
      /\ m.op = op /\ m.wait = wait
  BY EndFacts DEF MboxType, Message, AllOps
<1>2. Adds(Append(todo[v], m), todo[v], m)
  BY <1>1, ListAppend DEF MboxType, Adds
<1>3. /\ todo' = [todo EXCEPT ![v] = Append(@, m)]
      /\ waits' = (IF wait THEN [waits EXCEPT ![s] = m] ELSE waits)
      /\ sent' = [sent EXCEPT ![s] = @ + 1]
      /\ waits[s] = NoMsg
  BY DEF Post
<1> HIDE DEF m
<1>4. todo'[v] = Append(todo[v], m) /\ OthersKeep(todo, todo', End, v)
  BY <1>1, <1>3 DEF MboxType, OthersKeep
<1>5. sent'[s] = sent[s] + 1 /\ OthersKeep(sent, sent', Snd, s)
  BY <1>3 DEF MboxType, OthersKeep
<1>6. waits'[s] = (IF m.wait THEN m ELSE NoMsg) /\ OthersKeep(waits, waits', Snd, s)
  BY <1>1, <1>3 DEF MboxType, OthersKeep
<1>7. QED BY <1>1, <1>2, <1>3, <1>4, <1>5, <1>6 DEF Posts, KeepsPf, KeepsHist

LEMMA SenderEffect ==
  ASSUME MboxType, Addressed, NEW s \in Snd,
         MboxOpen(s) \/ MboxBye(s) \/ MboxExpire(s) \/ \E op \in ReqOps : MboxRequest(s, op)
  PROVE  \E m \in Message : Opens(s, m) \/ Requests(s, m) \/ Leaves(s, m) \/ Expires(s, m)
<1>0. VfOf[s] \in VF /\ VfOf[s] \in End
  BY EndFacts
<1>1. CASE MboxOpen(s)
  <2>1. Post(s, "HELLO", TRUE) /\ UNCHANGED <<pend, work, wrong, slot, online, expired, lost, orphan>>
    BY <1>1 DEF MboxOpen, mboxPf, mboxHist
  <2>2. PICK m \in Message : Posts(s, m) /\ m.op = "HELLO" /\ m.wait = TRUE
    BY <2>1, PostsEffect DEF AllOps
  <2>3. /\ vst[VfOf[s]] = "off" /\ work[VfOf[s]] = "idle"
        /\ vst'[VfOf[s]] = "hello" /\ OthersKeep(vst, vst', VF, VfOf[s])
    BY <1>1, <1>0 DEF MboxOpen, MboxType, OthersKeep
  <2>4. /\ \A v \in VF : out'[v] = out[v]
        /\ out'[PF] = IF out[PF] # NoMsg /\ out[PF].vf = VfOf[s] THEN NoMsg ELSE out[PF]
    <3>1. out' = [e \in End |-> IF e \in Arriving(VfOf[s]) THEN NoMsg ELSE out[e]]
      BY <1>1 DEF MboxOpen
    <3>2. ASSUME NEW v \in VF PROVE v \notin Arriving(VfOf[s])
      BY <1>0, EndFacts DEF Arriving, Target, Addressed, Asked
    <3>3. PF \in Arriving(VfOf[s]) <=> out[PF] # NoMsg /\ out[PF].vf = VfOf[s]
      BY <1>0, EndFacts DEF Arriving, Target, Addressed, Answered
    <3>4. QED BY <3>1, <3>2, <3>3, EndFacts
  <2>5. QED BY <2>2, <2>3, <2>4 DEF Opens
<1>2. CASE MboxBye(s)
  <2>1. Post(s, "BYE", FALSE) /\ UNCHANGED <<pend, work, wrong, slot, online, expired, lost, orphan>>
    BY <1>2 DEF MboxBye, mboxPf, mboxHist
  <2>2. PICK m \in Message : Posts(s, m) /\ m.op = "BYE" /\ m.wait = FALSE
    BY <2>1, PostsEffect DEF AllOps
  <2>3. /\ vst[VfOf[s]] = "on" /\ \A t \in SendersOf(VfOf[s]) : waits[t] = NoMsg
        /\ vst'[VfOf[s]] = "bye" /\ OthersKeep(vst, vst', VF, VfOf[s])
        /\ UNCHANGED out
    BY <1>2, <1>0 DEF MboxBye, MboxType, OthersKeep
  <2>5. QED BY <2>2, <2>3 DEF Leaves
<1>3. CASE MboxExpire(s)
  <2> DEFINE v == VfOf[s]
             m == waits[s]
  <2>1. m \in Message /\ m.op \in AllOps /\ m # NoMsg
    BY <1>3 DEF MboxExpire, MboxType, Message, AllOps
  <2>2. Drops(Without(todo[v], m), todo[v], m) /\ Drops(Without(pend[v], m), pend[v], m)
    <3>1. todo[v] \in Seq(Message) /\ pend[v] \in Seq(Message)
      BY <1>0 DEF MboxType
    <3>2. QED BY <3>1, ListWithout DEF Drops
  <2>3. /\ todo' = [todo EXCEPT ![v] = Without(@, m)]
        /\ pend' = [pend EXCEPT ![v] = Without(@, m)]
        /\ waits' = [waits EXCEPT ![s] = NoMsg]
        /\ expired' = [expired EXCEPT ![v] = @ \cup {m.op}]
        /\ vst' = (IF m.op = "HELLO" THEN [vst EXCEPT ![v] = "off"] ELSE vst)
        /\ work[v] \in {"idle", "rx"}
        /\ UNCHANGED <<out, work, sent, wrong, slot, online, lost, orphan>>
    BY <1>3 DEF MboxExpire, mboxPf
  <2>4. todo'[v] = Without(todo[v], m) /\ OthersKeep(todo, todo', End, v)
    BY <1>0, <2>3 DEF MboxType, OthersKeep
  <2>5. pend'[v] = Without(pend[v], m) /\ OthersKeep(pend, pend', VF, v)
    BY <1>0, <2>3 DEF MboxType, OthersKeep
  <2>6. /\ waits'[s] = NoMsg /\ OthersKeep(waits, waits', Snd, s)
        /\ expired'[v] = expired[v] \cup {m.op} /\ OthersKeep(expired, expired', VF, v)
        /\ vst'[v] = (IF m.op = "HELLO" THEN "off" ELSE vst[v])
        /\ OthersKeep(vst, vst', VF, v)
    BY <1>0, <2>3 DEF MboxType, OthersKeep
  <2>7. Expires(s, m)
    BY <2>1, <2>2, <2>3, <2>4, <2>5, <2>6 DEF Expires, KeepsPf
  <2>8. QED BY <2>1, <2>7
<1>4. ASSUME NEW op \in ReqOps, MboxRequest(s, op)
      PROVE  \E m \in Message : Requests(s, m)
  <2>1. Post(s, op, TRUE) /\ UNCHANGED <<pend, work, wrong, slot, online, expired, lost, orphan>>
        /\ vst[VfOf[s]] = "on" /\ UNCHANGED <<out, vst>>
    BY <1>4 DEF MboxRequest, mboxPf, mboxHist
  <2>2. PICK m \in Message : Posts(s, m) /\ m.op = op /\ m.wait = TRUE
    BY <2>1, PostsEffect DEF AllOps
  <2>3. QED BY <2>1, <2>2 DEF Requests
<1>5. QED BY <1>1, <1>2, <1>3, <1>4

LEMMA FirstOut ==
  ASSUME MboxType, NEW e \in End, todo[e] # <<>>
  PROVE  /\ Head(todo[e]) = todo[e][1] /\ todo[e][1] \in Message
         /\ Len(todo[e]) \in Nat \ {0}
         /\ Omits(Tail(todo[e]), todo[e], 1)
<1>1. todo[e] \in Seq(Message)
  BY DEF MboxType
<1>2. /\ Head(todo[e]) = todo[e][1] /\ todo[e][1] \in Message
      /\ Len(todo[e]) \in Nat \ {0}
      /\ Len(Tail(todo[e])) = Len(todo[e]) - 1
      /\ \A k \in 1 .. Len(todo[e]) - 1 : Tail(todo[e])[k] = todo[e][k + 1]
  BY <1>1, ListTail
<1>3. QED BY <1>2 DEF Omits

LEMMA TxEffect ==
  ASSUME MboxType, Addressed, NEW e \in End,
         MboxTxSend(e) \/ MboxTxSent(e) \/ MboxTxBusy(e) \/ MboxNothing(e)
  PROVE  Sends(e) \/ HasSent(e) \/ Retries(e) \/ GivesUp(e) \/ Rests(e)
<1>1. CASE MboxTxSend(e)
  <2>1. todo[e] # <<>> /\ work[e] # "sent" /\ out[e] = NoMsg
    BY <1>1 DEF MboxTxSend, Runs
  <2>2. Head(todo[e]) = todo[e][1]
    BY <2>1, FirstOut
  <2>3. /\ out'[e] = todo[e][1] /\ OthersKeep(out, out', End, e)
        /\ work'[e] = "sent" /\ OthersKeep(work, work', End, e)
    BY <1>1, <2>2 DEF MboxTxSend, MboxType, OthersKeep
  <2>4. QED BY <1>1, <2>1, <2>3 DEF MboxTxSend, Sends, mboxUser, mboxPf, mboxHist, KeepsUser, KeepsPf, KeepsHist
<1>2. CASE MboxTxSent(e)
  <2>1. todo[e] # <<>> /\ work[e] = "sent"
    BY <1>2 DEF MboxTxSent, Addressed
  <2>2. /\ Head(todo[e]) = todo[e][1] /\ todo[e][1] \in Message
        /\ Omits(Tail(todo[e]), todo[e], 1)
    BY <2>1, FirstOut
  <2>3. /\ todo' = [todo EXCEPT ![e] = Tail(@)]
        /\ pend' = (IF todo[e][1].wait THEN [pend EXCEPT ![e] = Append(@, todo[e][1])] ELSE pend)
        /\ work' = [work EXCEPT ![e] = IF Len(todo[e]) = 1 THEN "idle" ELSE "tx"]
        /\ UNCHANGED <<out, vst, waits, sent, wrong, slot, online, expired, lost, orphan>>
    BY <1>2, <2>2 DEF MboxTxSent, Pending, mboxUser, mboxPf, mboxHist
  <2>4. /\ Omits(todo'[e], todo[e], 1) /\ OthersKeep(todo, todo', End, e)
    BY <2>2, <2>3 DEF MboxType, OthersKeep
  <2>5. work'[e] # "sent" /\ OthersKeep(work, work', End, e)
    BY <2>3 DEF MboxType, OthersKeep
  <2>6. CASE e \in VF /\ todo[e][1].wait
    <3>1. pend[e] \in Seq(Message)
      BY <2>6 DEF MboxType
    <3>2. Adds(Append(pend[e], todo[e][1]), pend[e], todo[e][1])
      BY <3>1, <2>2, ListAppend DEF Adds
    <3>3. pend'[e] = Append(pend[e], todo[e][1]) /\ OthersKeep(pend, pend', VF, e)
      BY <2>6, <2>3 DEF MboxType, OthersKeep
    <3>4. QED BY <2>1, <2>3, <2>4, <2>5, <2>6, <3>2, <3>3 DEF HasSent, KeepsUser, KeepsPf, KeepsHist
  <2>7. CASE ~(e \in VF /\ todo[e][1].wait)
    <3>1. e \notin VF => e = PF /\ 1 \in 1 .. Len(todo[PF])
      BY EndFacts, <2>1, FirstOut
    <3>2. e \notin VF => ~todo[e][1].wait
      BY <3>1 DEF Addressed, Answered
    <3>3. pend' = pend
      BY <2>3, <2>7, <3>2
    <3>4. QED BY <2>1, <2>3, <2>4, <2>5, <2>7, <3>3 DEF HasSent, KeepsUser, KeepsPf, KeepsHist
  <2>8. QED BY <2>6, <2>7
<1>3. CASE MboxTxBusy(e)
  <2> DEFINE m == todo[e][1]
             r == IF m.wait THEN m.retry ELSE m.retry - 1
  <2>1. /\ todo[e] # <<>> /\ Head(todo[e]) = m /\ m \in Message
        /\ Omits(Tail(todo[e]), todo[e], 1) /\ Len(todo[e]) \in Nat \ {0}
    BY <1>3, FirstOut DEF MboxTxBusy
  <2>2. RestsAt(e)
    BY <1>3 DEF MboxTxBusy, Runs, RestsAt, MboxType, OthersKeep
  <2>3. CASE todo' = [todo EXCEPT ![e][1].retry = r] /\ UNCHANGED lost
    <3>1. todo'[e] = [todo[e] EXCEPT ![1] = [m EXCEPT !.retry = r]] /\ OthersKeep(todo, todo', End, e)
      BY <2>1, <2>3 DEF MboxType, OthersKeep
    <3>2. todo[e] \in Seq(Message)
      BY DEF MboxType
    <3>3. /\ Len(todo'[e]) = Len(todo[e]) /\ \A k \in 2 .. Len(todo[e]) : todo'[e][k] = todo[e][k]
          /\ todo'[e][1] = [m EXCEPT !.retry = r]
      BY <2>1, <3>1, <3>2
    <3>4. ASSUME m.wait PROVE todo'[e] = todo[e]
      <4>1. [m EXCEPT !.retry = r] = m
        BY <2>1, <3>4 DEF Message
      <4> HIDE DEF m, r
      <4>2. [todo[e] EXCEPT ![1] = m] = todo[e]
        BY <2>1, <3>2 DEF m
      <4>3. QED BY <3>1, <4>1, <4>2
    <3> HIDE DEF r
    <3>5. QED BY <1>3, <2>1, <2>2, <2>3, <3>1, <3>3, <3>4
          DEF MboxTxBusy, Retries, mboxUser, mboxPf, KeepsUser, KeepsPf, KeepsHist
  <2>4. CASE r = 0 /\ todo' = [todo EXCEPT ![e] = Tail(@)] /\ lost' = TRUE
    <3>1. todo'[e] = Tail(todo[e]) /\ OthersKeep(todo, todo', End, e)
      BY <2>4 DEF MboxType, OthersKeep
    <3>2. ~m.wait
      BY <2>1, <2>4 DEF Message
    <3>3. QED BY <1>3, <2>1, <2>2, <2>4, <3>1, <3>2
          DEF MboxTxBusy, GivesUp, mboxUser, mboxPf, KeepsUser, KeepsPf
  <2>5. QED BY <1>3, <2>1, <2>3, <2>4 DEF MboxTxBusy
<1>4. CASE MboxNothing(e)
  <2>1. RestsAt(e)
    BY <1>4 DEF MboxNothing, Runs, RestsAt, MboxType, OthersKeep
  <2>2. QED BY <1>4, <2>1 DEF MboxNothing, Rests, mboxLists, mboxUser, mboxPf, mboxHist,
               KeepsUser, KeepsPf, KeepsHist
<1>5. QED BY <1>1, <1>2, <1>3, <1>4

LEMMA RxVfEffect ==
  ASSUME MboxType, Addressed, NEW v \in VF, MboxRxVf(v)
  PROVE  \E m \in Message : Orphaned(v, m) \/ \E k \in 1 .. Len(pend[v]) : Wakes(v, m, k)
<1> DEFINE Mates(d) == {k \in DOMAIN pend[v] : pend[v][k].op = out[d].op}
           Min1(d)  == CHOOSE x \in Mates(d) : \A y \in Mates(d) : x <= y
<1>1. PICK d \in Arriving(v) :
        /\ Receive(v, d)
        /\ \/ /\ Mates(d) = {}
              /\ orphan' = (orphan \/ out[d].op \notin expired[v])
              /\ UNCHANGED <<pend, waits, wrong, vst>>
           \/ /\ Mates(d) # {}
              /\ pend' = [pend EXCEPT ![v] = RemoveAt(@, Min1(d))]
              /\ waits' = [waits EXCEPT ![pend[v][Min1(d)].snd] = NoMsg]
              /\ wrong' = (wrong \/ (<<pend[v][Min1(d)].snd, pend[v][Min1(d)].n>> # <<out[d].snd, out[d].n>>
                                       /\ out[d].op \notin expired[v] /\ ~lost))
              /\ vst' = (IF out[d].op = "HELLO" THEN [vst EXCEPT ![v] = "on"] ELSE vst)
              /\ UNCHANGED orphan
        /\ UNCHANGED <<todo, sent, mboxPf, expired, lost>>
  BY DEF MboxRxVf
<1>2. d = PF /\ out[d] \in Message /\ out[d].vf = v /\ out[d] # NoMsg
  BY EndFacts DEF Arriving, Target, Addressed, Asked, Answered, MboxType
<1> DEFINE m == out[PF]
<1>3. m.op \in AllOps
  BY <1>2 DEF Message, AllOps
<1>4. pend[v] \in Seq(Message) /\ Len(pend[v]) \in Nat /\ DOMAIN pend[v] = 1 .. Len(pend[v])
  BY DEF MboxType
<1>5. RestsAt(v)
  BY <1>1, EndFacts DEF Receive, Runs, RestsAt, MboxType, OthersKeep
<1>6. out'[PF] = NoMsg /\ \A e \in VF : out'[e] = out[e]
  BY <1>1, <1>2, EndFacts DEF Receive, MboxType
<1>7. TakesAnswer(v, m)
  BY <1>1, <1>2, <1>3, <1>5, <1>6 DEF TakesAnswer, KeepsPf, mboxPf
<1>8. CASE Mates(d) = {}
  <2>1. \A k \in 1 .. Len(pend[v]) : ~Mate(v, k, m.op)
    BY <1>2, <1>4, <1>8 DEF Mate
  <2>2. Orphaned(v, m)
    BY <1>1, <1>2, <1>7, <1>8, <2>1 DEF Orphaned
  <2>3. QED BY <1>2, <2>2
<1>9. CASE Mates(d) # {}
  <2> DEFINE k == Min1(d)
  <2>1. Mates(d) \subseteq Nat
    BY <1>4
  <2>2. \E x \in Mates(d) : \A y \in Mates(d) : x <= y
    <3> HIDE DEF Mates
    <3>1. QED BY <1>9, <2>1, LeastOf
  <2>3. k \in Mates(d) /\ \A y \in Mates(d) : k <= y
    <3> HIDE DEF Mates
    <3>1. QED BY <2>2
  <2>4. k \in 1 .. Len(pend[v]) /\ FirstMate(v, k, m.op)
    <3> HIDE DEF k
    <3>1. QED BY <1>2, <1>4, <2>3 DEF FirstMate, Mate
  <2>5. /\ pend' = [pend EXCEPT ![v] = RemoveAt(@, k)]
        /\ waits' = [waits EXCEPT ![pend[v][k].snd] = NoMsg]
        /\ wrong' = (wrong \/ (<<pend[v][k].snd, pend[v][k].n>> # <<m.snd, m.n>>
                                 /\ m.op \notin expired[v] /\ ~lost))
        /\ vst' = (IF m.op = "HELLO" THEN [vst EXCEPT ![v] = "on"] ELSE vst)
        /\ UNCHANGED orphan
    BY <1>1, <1>2, <1>9
  <2> HIDE DEF k
  <2>6. Omits(pend'[v], pend[v], k) /\ OthersKeep(pend, pend', VF, v)
    <3>1. Omits(RemoveAt(pend[v], k), pend[v], k)
      BY <1>4, <2>4, ListRemove
    <3>2. QED BY <3>1, <2>5 DEF MboxType, OthersKeep
  <2>7. pend[v][k].snd \in Snd
    <3>1. pend[v][k] \in Message
      BY <1>4, <2>4
    <3>2. QED BY <3>1 DEF Message
  <2>8. waits'[pend[v][k].snd] = NoMsg /\ OthersKeep(waits, waits', Snd, pend[v][k].snd)
    BY <2>5, <2>7 DEF MboxType, OthersKeep
  <2>9. vst'[v] = (IF m.op = "HELLO" THEN "on" ELSE vst[v]) /\ OthersKeep(vst, vst', VF, v)
    BY <2>5 DEF MboxType, OthersKeep
  <2>10. Wakes(v, m, k)
    BY <1>7, <2>4, <2>5, <2>6, <2>8, <2>9 DEF Wakes
  <2>11. QED BY <1>2, <2>4, <2>10
<1>10. QED BY <1>8, <1>9

LEMMA RxPfEffect ==
  ASSUME MboxType, Addressed, MboxRxPf
  PROVE  \E v \in VF, m \in Message : TakesRequest(v, m)
<1>1. PICK v \in Arriving(PF) :
        LET m      == out[v]
            answer == [m EXCEPT !.rsp = TRUE, !.wait = FALSE, !.retry = MaxRetry]
        IN  /\ Receive(PF, v)
            /\ \/ m.op = "HELLO" /\ VfOnline(v)
               \/ m.op = "BYE" /\ VfOffline(v)
               \/ m.op \in ReqOps /\ UNCHANGED mboxPf
            /\ \/ m.op = "BYE" /\ UNCHANGED todo
               \/ m.op # "BYE" /\ todo' = [todo EXCEPT ![PF] = Append(@, answer)]
            /\ UNCHANGED <<pend, busy, timer, poll, mboxUser, mboxHist>>
  BY DEF MboxRxPf
<1> DEFINE m == out[v]
           answer == [m EXCEPT !.rsp = TRUE, !.wait = FALSE, !.retry = MaxRetry]
<1>2. v \in VF /\ v \in End /\ m \in Message /\ m # NoMsg
  BY <1>1, EndFacts DEF Arriving, Target, MboxType, Addressed, Answered, Message
<1>3. m.vf = v
  BY <1>2 DEF Addressed, Asked
<1>4. RestsAt(PF)
  BY <1>1, EndFacts DEF Receive, Runs, RestsAt, MboxType, OthersKeep
<1>5. out'[v] = NoMsg /\ OthersKeep(out, out', End, v)
  BY <1>1, <1>2 DEF Receive, MboxType, OthersKeep
<1>6. m.op # "BYE" => Adds(todo'[PF], todo[PF], answer) /\ OthersKeep(todo, todo', End, PF)
  <2>1. answer \in Message
    <3>1. MaxRetry \in 1 .. MaxRetry
      BY EndFacts
    <3>2. QED BY <1>2, <3>1, RetryType
  <2>2. todo[PF] \in Seq(Message) /\ PF \in End
    BY EndFacts DEF MboxType
  <2>3. Adds(Append(todo[PF], answer), todo[PF], answer)
    BY <2>1, <2>2, ListAppend DEF Adds
  <2>4. m.op # "BYE" => todo' = [todo EXCEPT ![PF] = Append(@, answer)]
    BY <1>1
  <2> HIDE DEF answer, m
  <2>5. QED BY <2>2, <2>3, <2>4 DEF MboxType, OthersKeep
<1>7. TakesRequest(v, m)
  <2>1. m.op = "BYE" => UNCHANGED todo
    BY <1>1
  <2>2. \/ m.op = "HELLO" /\ VfOnline(v)
        \/ m.op = "BYE" /\ VfOffline(v)
        \/ m.op \in ReqOps /\ KeepsPf
    BY <1>1 DEF KeepsPf, mboxPf
  <2>3. UNCHANGED pend /\ KeepsUser /\ KeepsHist
    BY <1>1 DEF KeepsUser, KeepsHist, mboxUser, mboxHist
  <2>4. QED BY <1>2, <1>3, <1>4, <1>5, <1>6, <2>1, <2>2, <2>3, Zenon DEF TakesRequest
<1>8. QED BY <1>2, <1>7

LEMMA StepEffect ==
  ASSUME MboxType, Addressed, [MboxNext]_mboxVars
  PROVE  Effect \/ UNCHANGED <<todo, pend, out, work, vst, waits, sent, wrong, slot, online,
                               expired, lost, orphan>>
<1>1. ASSUME NEW s \in Snd,
             MboxOpen(s) \/ MboxBye(s) \/ MboxExpire(s) \/ \E op \in ReqOps : MboxRequest(s, op)
      PROVE  Effect
  <2>1. \E m \in Message : Opens(s, m) \/ Requests(s, m) \/ Leaves(s, m) \/ Expires(s, m)
    BY <1>1, SenderEffect
  <2>2. QED BY <2>1, Zenon DEF Effect
<1>2. ASSUME NEW v \in VF, MboxStop(v) PROVE Effect
  <2>1. Stops(v)
    BY <1>2 DEF MboxStop, Stops, MboxType, OthersKeep, mboxLists, mboxPf, mboxHist, KeepsPf, KeepsHist
  <2>2. QED BY <2>1, Zenon DEF Effect
<1>3. ASSUME NEW e \in End, MboxWorker(e) PROVE Effect
  <2>1. CASE MboxTxSend(e) \/ MboxTxSent(e) \/ MboxTxBusy(e) \/ MboxNothing(e)
    <3>1. Sends(e) \/ HasSent(e) \/ Retries(e) \/ GivesUp(e) \/ Rests(e)
      BY <2>1, TxEffect
    <3>2. QED BY <3>1, Zenon DEF Effect
  <2>2. CASE e \in VF /\ MboxRxVf(e)
    <3>1. \E m \in Message : Orphaned(e, m) \/ \E k \in 1 .. Len(pend[e]) : Wakes(e, m, k)
      BY <2>2, RxVfEffect
    <3>2. QED BY <2>2, <3>1, Zenon DEF Effect
  <2>3. CASE e = PF /\ MboxRxPf
    <3>1. \E v \in VF, m \in Message : TakesRequest(v, m)
      BY <2>3, RxPfEffect
    <3>2. QED BY <3>1, Zenon DEF Effect
  <2>4. QED BY <1>3, <2>1, <2>2, <2>3 DEF MboxWorker
<1>4. ASSUME NEW e \in End, MboxTimer(e)
      PROVE  UNCHANGED <<todo, pend, out, work, vst, waits, sent, wrong, slot, online,
                         expired, lost, orphan>>
  BY <1>4 DEF MboxTimer, mboxLists, mboxUser, mboxPf, mboxHist
<1>5. ASSUME UNCHANGED mboxVars
      PROVE  UNCHANGED <<todo, pend, out, work, vst, waits, sent, wrong, slot, online,
                         expired, lost, orphan>>
  BY <1>5 DEF mboxVars, mboxLists, mboxWork, mboxUser, mboxPf, mboxHist
<1>6. QED BY <1>1, <1>2, <1>3, <1>4, <1>5 DEF MboxNext, MboxQuiet
-----------------------------------------------------------------------------
(* Who the messages of each list are from and to.                          *)

LEMMA Lens ==
  ASSUME MboxType
  PROVE  /\ \A e \in End : Len(todo[e]) \in Nat /\ (todo[e] = <<>> <=> Len(todo[e]) = 0)
         /\ \A v \in VF : Len(pend[v]) \in Nat
         /\ \A e \in End : \A k \in 1 .. Len(todo[e]) : todo[e][k] \in Message
         /\ \A v \in VF : \A k \in 1 .. Len(pend[v]) : pend[v][k] \in Message
<1>1. ASSUME NEW e \in End
      PROVE  /\ Len(todo[e]) \in Nat /\ (todo[e] = <<>> <=> Len(todo[e]) = 0)
             /\ \A k \in 1 .. Len(todo[e]) : todo[e][k] \in Message
  <2>1. todo[e] \in Seq(Message)
    BY DEF MboxType
  <2>2. QED BY <2>1, EmptySeq
<1>2. ASSUME NEW v \in VF
      PROVE  Len(pend[v]) \in Nat /\ \A k \in 1 .. Len(pend[v]) : pend[v][k] \in Message
  <2>1. pend[v] \in Seq(Message)
    BY DEF MboxType
  <2>2. QED BY <2>1
<1>3. QED BY <1>1, <1>2

LEMMA OmitsPlace ==
  ASSUME NEW s, NEW t, Len(s) \in Nat, NEW p \in 1 .. Len(s), Omits(t, s, p),
         NEW k \in 1 .. Len(t)
  PROVE  \E j \in 1 .. Len(s) : j = (IF k < p THEN k ELSE k + 1) /\ t[k] = s[j]
<1> DEFINE j == IF k < p THEN k ELSE k + 1
<1>1. j \in 1 .. Len(s) /\ t[k] = s[j]
  BY DEF Omits
<1>2. QED BY <1>1

LEMMA OmitsOf ==
  ASSUME NEW s, NEW t, Len(s) \in Nat, NEW p \in 1 .. Len(s), Omits(t, s, p)
  PROVE  \A k \in 1 .. Len(t) : \E j \in 1 .. Len(s) : t[k] = s[j]
BY OmitsPlace

LEMMA DropsOf ==
  ASSUME NEW s, NEW t, Len(s) \in Nat, NEW m, Drops(t, s, m)
  PROVE  \A k \in 1 .. Len(t) : \E j \in 1 .. Len(s) : t[k] = s[j]
<1>1. CASE t = s
  BY <1>1
<1>2. CASE \E p \in 1 .. Len(s) : Omits(t, s, p)
  BY <1>2, OmitsOf
<1>3. QED BY <1>1, <1>2 DEF Drops

LEMMA AddressedStep ==
  ASSUME MboxType, MboxType', Addressed, Effect
  PROVE  Addressed'
<1> USE Lens, EndFacts
<1>1. ASSUME NEW s \in Snd, NEW m \in Message, Posts(s, m), m.wait <=> m.op # "BYE",
             \A v \in VF : out'[v] = out[v], out'[PF] = NoMsg \/ out'[PF] = out[PF]
      PROVE  Addressed'
  <2>1. Asked(m, VfOf[s])
    BY <1>1 DEF Posts, Asked
  <2>2. \A e \in End : work'[e] = "sent" => todo'[e] # <<>>
    BY <1>1 DEF Posts, Addressed, Adds, OthersKeep, MboxType
  <2>3. ASSUME NEW v \in VF, NEW k \in 1 .. Len(todo'[v]) PROVE Asked(todo'[v][k], v)
    BY <1>1, <2>1 DEF Posts, Addressed, Adds, OthersKeep
  <2>4. \A k \in 1 .. Len(todo'[PF]) : Answered(todo'[PF][k])
    BY <1>1 DEF Posts, Addressed, OthersKeep
  <2>5. QED BY <1>1, <2>2, <2>3, <2>4 DEF Addressed, Posts
<1>2. ASSUME NEW s \in Snd, NEW m \in Message, Opens(s, m) \/ Requests(s, m) \/ Leaves(s, m)
      PROVE  Addressed'
  BY <1>1, <1>2 DEF Opens, Requests, Leaves
<1>3. ASSUME NEW s \in Snd, NEW m \in Message, Expires(s, m)
      PROVE  Addressed'
  <2>1. VfOf[s] \in VF /\ VfOf[s] \in End
    OBVIOUS
  <2>2. /\ \A k \in 1 .. Len(todo'[VfOf[s]]) : \E j \in 1 .. Len(todo[VfOf[s]]) : todo'[VfOf[s]][k] = todo[VfOf[s]][j]
        /\ \A k \in 1 .. Len(pend'[VfOf[s]]) : \E j \in 1 .. Len(pend[VfOf[s]]) : pend'[VfOf[s]][k] = pend[VfOf[s]][j]
    <3>1. Drops(todo'[VfOf[s]], todo[VfOf[s]], m) /\ Drops(pend'[VfOf[s]], pend[VfOf[s]], m)
      BY <1>3 DEF Expires
    <3>2. QED BY <2>1, <3>1, DropsOf
  <2>3. ASSUME NEW v \in VF
        PROVE  /\ \A k \in 1 .. Len(todo'[v]) : Asked(todo'[v][k], v)
               /\ \A k \in 1 .. Len(pend'[v]) : Asked(pend'[v][k], v)
    BY <1>3, <2>2 DEF Expires, Addressed, OthersKeep
  <2>4. /\ todo'[PF] = todo[PF] /\ out' = out /\ work' = work
        /\ \A e \in End : work[e] = "sent" => todo'[e] = todo[e]
    BY <1>3, <2>1 DEF Expires, OthersKeep
  <2>5. QED BY <2>3, <2>4 DEF Addressed
<1>4. ASSUME NEW e \in End, Sends(e) PROVE Addressed'
  <2>1. 1 \in 1 .. Len(todo[e])
    BY <1>4 DEF Sends
  <2>2. QED BY <1>4, <2>1 DEF Sends, Addressed, OthersKeep
<1>5. ASSUME NEW e \in End, todo[e] # <<>>, Omits(todo'[e], todo[e], 1), OthersKeep(todo, todo', End, e),
             out' = out, work'[e] # "sent", OthersKeep(work, work', End, e),
             \/ pend' = pend
             \/ e \in VF /\ Adds(pend'[e], pend[e], todo[e][1]) /\ OthersKeep(pend, pend', VF, e)
      PROVE  Addressed'
  <2>1. 1 \in 1 .. Len(todo[e])
    BY <1>5
  <2>2. \A k \in 1 .. Len(todo'[e]) : \E j \in 1 .. Len(todo[e]) : todo'[e][k] = todo[e][j]
    BY <1>5, <2>1, OmitsOf
  <2>3. ASSUME NEW v \in VF, NEW k \in 1 .. Len(todo'[v]) PROVE Asked(todo'[v][k], v)
    BY <1>5, <2>2 DEF Addressed, OthersKeep
  <2>4. ASSUME NEW v \in VF, NEW k \in 1 .. Len(pend'[v]) PROVE Asked(pend'[v][k], v)
    BY <1>5, <2>1 DEF Addressed, OthersKeep, Adds
  <2>5. \A k \in 1 .. Len(todo'[PF]) : Answered(todo'[PF][k])
    BY <1>5, <2>2 DEF Addressed, OthersKeep
  <2>6. \A d \in End : work'[d] = "sent" => todo'[d] # <<>>
    BY <1>5 DEF Addressed, OthersKeep
  <2>7. QED BY <1>5, <2>3, <2>4, <2>5, <2>6 DEF Addressed
<1>6. ASSUME NEW e \in End, HasSent(e) \/ GivesUp(e) PROVE Addressed'
  BY <1>5, <1>6 DEF HasSent, GivesUp, RestsAt
<1>7. ASSUME NEW e \in End, Retries(e) PROVE Addressed'
  <2>1. PICK r : todo'[e][1] = [todo[e][1] EXCEPT !.retry = r]
    BY <1>7 DEF Retries
  <2>2. 1 \in 1 .. Len(todo[e])
    BY <1>7 DEF Retries
  <2>3. todo[e][1] \in Message
    BY <2>2
  <2>4. /\ todo'[e][1].vf = todo[e][1].vf /\ todo'[e][1].snd = todo[e][1].snd
        /\ todo'[e][1].op = todo[e][1].op /\ todo'[e][1].wait = todo[e][1].wait
        /\ todo'[e][1].rsp = todo[e][1].rsp
    BY <2>1, <2>3 DEF Message
  <2>5. Len(todo'[e]) = Len(todo[e]) /\ \A k \in 2 .. Len(todo[e]) : todo'[e][k] = todo[e][k]
    BY <1>7 DEF Retries
  <2>6. ASSUME NEW v \in VF, NEW k \in 1 .. Len(todo'[v]) PROVE Asked(todo'[v][k], v)
    <3>1. CASE v = e /\ k = 1
      BY <2>2, <2>4, <3>1 DEF Addressed, Asked
    <3>2. CASE v = e /\ k # 1
      BY <2>5, <3>2 DEF Addressed
    <3>3. CASE v # e
      BY <1>7, <3>3 DEF Retries, OthersKeep, Addressed
    <3>4. QED BY <3>1, <3>2, <3>3
  <2>7. ASSUME NEW k \in 1 .. Len(todo'[PF]) PROVE Answered(todo'[PF][k])
    <3>1. CASE PF = e /\ k = 1
      BY <2>2, <2>4, <3>1 DEF Addressed, Answered
    <3>2. CASE PF = e /\ k # 1
      BY <2>5, <3>2 DEF Addressed
    <3>3. CASE PF # e
      BY <1>7, <3>3 DEF Retries, OthersKeep, Addressed
    <3>4. QED BY <3>1, <3>2, <3>3
  <2>8. \A d \in End : work'[d] = "sent" => todo'[d] # <<>>
    BY <1>7 DEF Retries, RestsAt, Addressed, OthersKeep
  <2>9. QED BY <1>7, <2>6, <2>7, <2>8 DEF Addressed, Retries
<1>8. ASSUME NEW e \in End, Rests(e) PROVE Addressed'
  BY <1>8 DEF Rests, RestsAt, OthersKeep, Addressed
<1>9. ASSUME NEW v \in VF, Stops(v) PROVE Addressed'
  BY <1>9 DEF Stops, Addressed
<1>10. ASSUME NEW v \in VF, NEW m \in Message, Orphaned(v, m) PROVE Addressed'
  BY <1>10 DEF Orphaned, TakesAnswer, RestsAt, OthersKeep, Addressed
<1>11. ASSUME NEW v \in VF, NEW m \in Message, NEW k \in 1 .. Len(pend[v]), Wakes(v, m, k)
       PROVE  Addressed'
  <2>1. \A i \in 1 .. Len(pend'[v]) : \E j \in 1 .. Len(pend[v]) : pend'[v][i] = pend[v][j]
    <3>1. Omits(pend'[v], pend[v], k)
      BY <1>11 DEF Wakes
    <3>2. QED BY <3>1, OmitsOf
  <2>2. ASSUME NEW w \in VF, NEW j \in 1 .. Len(pend'[w]) PROVE Asked(pend'[w][j], w)
    BY <1>11, <2>1 DEF Wakes, OthersKeep, Addressed
  <2>3. QED BY <1>11, <2>2 DEF Wakes, TakesAnswer, RestsAt, OthersKeep, Addressed
<1>12. ASSUME NEW v \in VF, NEW m \in Message, TakesRequest(v, m) PROVE Addressed'
  <2> DEFINE a == [m EXCEPT !.rsp = TRUE, !.wait = FALSE, !.retry = MaxRetry]
  <2>1. Asked(m, v)
    BY <1>12 DEF TakesRequest, Addressed
  <2>2. m.op # "BYE" => Answered(a)
    BY <2>1 DEF Asked, Answered, Message
  <2>3. \A k \in 1 .. Len(todo'[PF]) : Answered(todo'[PF][k])
    <3>1. CASE m.op = "BYE"
      BY <1>12, <3>1 DEF TakesRequest, Addressed
    <3>2. CASE m.op # "BYE"
      <4>1. Adds(todo'[PF], todo[PF], a)
        BY <1>12, <3>2 DEF TakesRequest
      <4> HIDE DEF a
      <4>2. QED BY <3>2, <2>2, <4>1 DEF Adds, Addressed
    <3>3. QED BY <3>1, <3>2
  <2>4. \A w \in VF : todo'[w] = todo[w] /\ pend'[w] = pend[w]
    BY <1>12 DEF TakesRequest, OthersKeep
  <2>5. \A d \in End : work'[d] = "sent" => work[d] = "sent" /\ todo'[d] = todo[d]
    BY <1>12 DEF TakesRequest, RestsAt, OthersKeep
  <2>6. \A d \in End : out'[d] = out[d] \/ out'[d] = NoMsg
    BY <1>12 DEF TakesRequest, OthersKeep
  <2>7. QED BY <2>3, <2>4, <2>5, <2>6 DEF Addressed
<1>13. QED BY <1>2, <1>3, <1>4, <1>6, <1>7, <1>8, <1>9, <1>10, <1>11, <1>12 DEF Effect
-----------------------------------------------------------------------------
(* Who sleeps, and where the message he sleeps for is.                     *)

LEMMA AsleepStep ==
  ASSUME MboxType, Addressed, Asleep, Listed, Effect
  PROVE  Asleep'
<1> USE Lens, EndFacts
<1>1. ASSUME NEW s \in Snd, NEW m \in Message, Opens(s, m) PROVE Asleep'
  <2>1. Asked(m, VfOf[s]) /\ waits'[s] = m
    BY <1>1 DEF Opens, Posts, Asked
  <2>2. \A t \in Snd : VfOf[t] = VfOf[s] => waits[t] = NoMsg
    BY <1>1 DEF Opens, Asleep
  <2>3. \A t \in Snd \ {s} : waits'[t] = waits[t]
    BY <1>1 DEF Opens, Posts, OthersKeep
  <2>4. vst'[VfOf[s]] = "hello" /\ \A v \in VF \ {VfOf[s]} : vst'[v] = vst[v]
    BY <1>1 DEF Opens, OthersKeep
  <2>5. m.snd = s /\ m.wait /\ m.op = "HELLO"
    BY <1>1 DEF Opens, Posts
  <2>6. ASSUME NEW t \in Snd, waits'[t] # NoMsg
        PROVE  /\ Asked(waits'[t], VfOf[t]) /\ waits'[t].wait /\ waits'[t].snd = t
               /\ vst'[VfOf[t]] \in {"hello", "on"}
               /\ waits'[t].op = "HELLO" <=> vst'[VfOf[t]] = "hello"
    BY <2>1, <2>2, <2>3, <2>4, <2>5, <2>6 DEF Asleep
  <2>7. ASSUME NEW t \in Snd, NEW u \in Snd, waits'[t] # NoMsg, waits'[u] # NoMsg,
               VfOf[t] = VfOf[u], vst'[VfOf[t]] = "hello"
        PROVE  t = u
    BY <2>2, <2>3, <2>4, <2>7 DEF Asleep
  <2>8. QED BY <2>6, <2>7 DEF Asleep
<1>2. ASSUME NEW s \in Snd, NEW m \in Message, Requests(s, m) PROVE Asleep'
  <2>1. Asked(m, VfOf[s]) /\ waits'[s] = m
    BY <1>2 DEF Requests, Posts, Asked
  <2>2. m.snd = s /\ m.wait /\ m.op # "HELLO" /\ vst[VfOf[s]] = "on" /\ vst' = vst
    BY <1>2 DEF Requests, Posts
  <2>3. \A t \in Snd \ {s} : waits'[t] = waits[t]
    BY <1>2 DEF Requests, Posts, OthersKeep
  <2>4. QED BY <2>1, <2>2, <2>3 DEF Asleep
<1>3. ASSUME NEW s \in Snd, NEW m \in Message, Leaves(s, m) PROVE Asleep'
  <2>1. waits'[s] = NoMsg /\ \A t \in Snd \ {s} : waits'[t] = waits[t]
    BY <1>3 DEF Leaves, Posts, OthersKeep
  <2>2. \A t \in Snd : VfOf[t] = VfOf[s] => waits[t] = NoMsg
    BY <1>3 DEF Leaves, SendersOf
  <2>3. \A v \in VF \ {VfOf[s]} : vst'[v] = vst[v]
    BY <1>3 DEF Leaves, OthersKeep
  <2>4. QED BY <2>1, <2>2, <2>3 DEF Asleep
<1>4. ASSUME NEW s \in Snd, NEW m \in Message, Expires(s, m) PROVE Asleep'
  <2>1. waits'[s] = NoMsg /\ \A t \in Snd \ {s} : waits'[t] = waits[t]
    BY <1>4 DEF Expires, OthersKeep
  <2>2. /\ vst'[VfOf[s]] = (IF m.op = "HELLO" THEN "off" ELSE vst[VfOf[s]])
        /\ \A v \in VF \ {VfOf[s]} : vst'[v] = vst[v]
    BY <1>4 DEF Expires, OthersKeep
  <2>3. m.op = "HELLO" => \A t \in Snd \ {s} : VfOf[t] = VfOf[s] => waits[t] = NoMsg
    BY <1>4 DEF Expires, Asleep
  <2>4. QED BY <2>1, <2>2, <2>3 DEF Asleep
<1>5. ASSUME NEW e \in End, Sends(e) \/ HasSent(e) \/ Retries(e) \/ GivesUp(e) \/ Rests(e)
      PROVE  Asleep'
  BY <1>5 DEF Sends, HasSent, Retries, GivesUp, Rests, KeepsUser, Asleep
<1>6. ASSUME NEW v \in VF, Stops(v) PROVE Asleep'
  BY <1>6 DEF Stops, OthersKeep, Asleep
<1>7. ASSUME NEW v \in VF, NEW m \in Message, Orphaned(v, m) \/ TakesRequest(v, m) PROVE Asleep'
  BY <1>7 DEF Orphaned, TakesRequest, KeepsUser, Asleep
<1>8. ASSUME NEW v \in VF, NEW m \in Message, NEW k \in 1 .. Len(pend[v]), Wakes(v, m, k)
      PROVE  Asleep'
  <2> DEFINE r == pend[v][k]
  <2>1. r \in Message /\ waits[r.snd] = r /\ r.snd \in Snd /\ r.op = m.op /\ VfOf[r.snd] = v
        /\ waits[r.snd] # NoMsg
    BY <1>8 DEF Wakes, FirstMate, Mate, Listed, Message, Addressed, Asked
  <2>2. waits'[r.snd] = NoMsg /\ \A t \in Snd \ {r.snd} : waits'[t] = waits[t]
    BY <1>8 DEF Wakes, OthersKeep
  <2>3. vst'[v] = (IF m.op = "HELLO" THEN "on" ELSE vst[v]) /\ \A w \in VF \ {v} : vst'[w] = vst[w]
    BY <1>8 DEF Wakes, OthersKeep
  <2> HIDE DEF r
  <2>4. m.op = "HELLO" => vst[v] = "hello"
    BY <2>1 DEF Asleep
  <2>5. m.op = "HELLO" => \A t \in Snd \ {r.snd} : VfOf[t] = v => waits[t] = NoMsg
    BY <2>1, <2>4 DEF Asleep
  <2>6. QED BY <2>2, <2>3, <2>5 DEF Asleep
<1>9. QED BY <1>1, <1>2, <1>3, <1>4, <1>5, <1>6, <1>7, <1>8 DEF Effect

\* The parts of Listed for one function.
ListedAt(v) ==
      /\ \A k \in 1 .. Len(todo[v]) : todo[v][k].wait => waits[todo[v][k].snd] = todo[v][k]
      /\ \A k \in 1 .. Len(pend[v]) : waits[pend[v][k].snd] = pend[v][k]
      /\ \A j, k \in 1 .. Len(todo[v]) :
            todo[v][j].wait /\ todo[v][k].wait /\ todo[v][j].snd = todo[v][k].snd => j = k
      /\ \A j, k \in 1 .. Len(pend[v]) : pend[v][j].snd = pend[v][k].snd => j = k
      /\ \A j \in 1 .. Len(todo[v]), k \in 1 .. Len(pend[v]) :
            todo[v][j].wait => todo[v][j].snd # pend[v][k].snd

LEMMA ListedPost ==
  ASSUME MboxType, Addressed, Asleep, Listed, NEW s \in Snd, NEW m \in Message, Posts(s, m)
  PROVE  Listed'
<1> USE Lens, EndFacts
<1> DEFINE v == VfOf[s]
<1>1. v \in VF /\ v \in End
  OBVIOUS
<1>2. /\ waits[s] = NoMsg /\ m.snd = s /\ waits'[s] = (IF m.wait THEN m ELSE NoMsg)
      /\ \A t \in Snd \ {s} : waits'[t] = waits[t]
      /\ pend' = pend
      /\ Adds(todo'[v], todo[v], m) /\ \A e \in End \ {v} : todo'[e] = todo[e]
  BY <1>1 DEF Posts, OthersKeep
<1>3. ASSUME NEW w \in VF
      PROVE  /\ \A k \in 1 .. Len(todo[w]) : todo[w][k].wait => todo[w][k].snd # s /\ todo[w][k].snd \in Snd
             /\ \A k \in 1 .. Len(pend[w]) : pend[w][k].snd # s /\ pend[w][k].snd \in Snd
  <2>1. ASSUME NEW x \in Message, waits[x.snd] = x PROVE x.snd # s /\ x.snd \in Snd
    BY <1>2, <2>1 DEF Message
  <2>2. QED BY <2>1 DEF Listed
<1>4. ASSUME NEW w \in VF, w # v PROVE ListedAt(w)'
  <2>1. todo'[w] = todo[w] /\ pend'[w] = pend[w]
    BY <1>2, <1>4
  <2>2. \A k \in 1 .. Len(todo[w]) : todo[w][k].wait => waits'[todo[w][k].snd] = todo[w][k]
    BY <1>2, <1>3 DEF Listed
  <2>3. \A k \in 1 .. Len(pend[w]) : waits'[pend[w][k].snd] = pend[w][k]
    BY <1>2, <1>3 DEF Listed
  <2>4. ListedAt(w)
    BY DEF Listed, ListedAt
  <2>5. QED BY <2>1, <2>2, <2>3, <2>4 DEF ListedAt
<1>5. ListedAt(v)'
  <2>1. Len(todo'[v]) = Len(todo[v]) + 1 /\ todo'[v][Len(todo[v]) + 1] = m
        /\ \A k \in 1 .. Len(todo[v]) : todo'[v][k] = todo[v][k]
    BY <1>2 DEF Adds
  <2> HIDE DEF v
  <2>2. \A k \in 1 .. Len(todo'[v]) : k \in 1 .. Len(todo[v]) \/ k = Len(todo[v]) + 1
    BY <1>1, <2>1
  <2>3. \A k \in 1 .. Len(todo'[v]) : todo'[v][k].wait => waits'[todo'[v][k].snd] = todo'[v][k]
    BY <1>1, <1>2, <1>3, <2>1, <2>2 DEF Listed
  <2>4. \A k \in 1 .. Len(pend'[v]) : waits'[pend'[v][k].snd] = pend'[v][k]
    BY <1>1, <1>2, <1>3 DEF Listed
  <2>0. ListedAt(v)
    BY <1>1 DEF Listed, ListedAt
  <2>a. /\ \A k \in 1 .. Len(todo[v]) : todo[v][k].wait => todo[v][k].snd # s
        /\ \A k \in 1 .. Len(pend[v]) : pend[v][k].snd # s
        /\ m.snd = s /\ pend'[v] = pend[v]
    BY <1>1, <1>2, <1>3
  <2>5. ASSUME NEW j \in 1 .. Len(todo'[v]), NEW k \in 1 .. Len(todo'[v]),
               todo'[v][j].wait, todo'[v][k].wait, todo'[v][j].snd = todo'[v][k].snd
        PROVE  j = k
    <3>1. CASE j \in 1 .. Len(todo[v]) /\ k \in 1 .. Len(todo[v])
      BY <3>1, <2>0, <2>1, <2>5 DEF ListedAt
    <3>2. CASE j \in 1 .. Len(todo[v]) /\ k = Len(todo[v]) + 1
      BY <3>2, <2>a, <2>1, <2>5
    <3>3. CASE k \in 1 .. Len(todo[v]) /\ j = Len(todo[v]) + 1
      BY <3>3, <2>a, <2>1, <2>5
    <3>4. QED BY <3>1, <3>2, <3>3, <2>2
  <2>6. ASSUME NEW j \in 1 .. Len(todo'[v]), NEW k \in 1 .. Len(pend'[v]), todo'[v][j].wait
        PROVE  todo'[v][j].snd # pend'[v][k].snd
    <3>1. CASE j \in 1 .. Len(todo[v])
      BY <3>1, <2>0, <2>1, <2>6, <2>a DEF ListedAt
    <3>2. CASE j = Len(todo[v]) + 1
      BY <3>2, <2>a, <2>1, <2>6
    <3>3. QED BY <3>1, <3>2, <2>2
  <2>7. QED BY <1>1, <1>2, <2>3, <2>4, <2>5, <2>6 DEF Listed, ListedAt
<1>6. QED BY <1>4, <1>5 DEF Listed, ListedAt

\* T is S without its entry of thread r, if it has one.
Loses(T, S, r) ==
    /\ \A i \in 1 .. Len(T) : \E a \in 1 .. Len(S) : T[i] = S[a] /\ (T[i].wait => T[i].snd # r)
    /\ \A i, j \in 1 .. Len(T) : i # j =>
          \E a, b \in 1 .. Len(S) : a # b /\ T[i] = S[a] /\ T[j] = S[b]

LEMMA LosesNone ==
  ASSUME NEW S, NEW r, \A k \in 1 .. Len(S) : S[k].wait => S[k].snd # r
  PROVE  Loses(S, S, r)
BY DEF Loses

LEMMA LosesOne ==
  ASSUME NEW S, NEW T, NEW r, Len(S) \in Nat, NEW p \in 1 .. Len(S), Omits(T, S, p),
         \A k \in 1 .. Len(S) : S[k].wait /\ k # p => S[k].snd # r
  PROVE  Loses(T, S, r)
<1>1. ASSUME NEW i \in 1 .. Len(T)
      PROVE  \E a \in 1 .. Len(S) : a = (IF i < p THEN i ELSE i + 1) /\ T[i] = S[a]
  BY OmitsPlace
<1>2. Len(T) \in Int
  BY DEF Omits
<1>3. ASSUME NEW i \in 1 .. Len(T)
      PROVE  \E a \in 1 .. Len(S) : T[i] = S[a] /\ (T[i].wait => T[i].snd # r)
  <2>1. PICK a \in 1 .. Len(S) : a = (IF i < p THEN i ELSE i + 1) /\ T[i] = S[a]
    BY <1>1
  <2>2. a # p
    BY <1>2, <2>1
  <2>3. S[a].wait => S[a].snd # r
    BY <2>2
  <2>4. QED BY <2>1, <2>3
<1>4. ASSUME NEW i \in 1 .. Len(T), NEW j \in 1 .. Len(T), i # j
      PROVE  \E a, b \in 1 .. Len(S) : a # b /\ T[i] = S[a] /\ T[j] = S[b]
  <2>1. PICK a \in 1 .. Len(S) : a = (IF i < p THEN i ELSE i + 1) /\ T[i] = S[a]
    BY <1>1
  <2>2. PICK b \in 1 .. Len(S) : b = (IF j < p THEN j ELSE j + 1) /\ T[j] = S[b]
    BY <1>1
  <2>3. a # b
    BY <1>2, <1>4, <2>1, <2>2
  <2>4. QED BY <2>1, <2>2, <2>3
<1>5. QED BY <1>3, <1>4 DEF Loses

\* The lists of v lose what they hold of thread r, whose wait has ended.
LEMMA ListedShrink ==
  ASSUME MboxType, Addressed, Listed, NEW v \in VF, NEW r \in Snd,
         Loses(todo'[v], todo[v], r), Loses(pend'[v], pend[v], r),
         OthersKeep(waits, waits', Snd, r),
         \A k \in 1 .. Len(pend[v]) : pend[v][k].wait
  PROVE  ListedAt(v)'
<1> DEFINE S == todo[v]
           Q == pend[v]
           T == todo'[v]
           P == pend'[v]
<1>1. /\ \A k \in 1 .. Len(S) : S[k].snd \in Snd
      /\ \A k \in 1 .. Len(Q) : Q[k].snd \in Snd
  BY Lens, EndFacts DEF Message
<1>2. /\ \A k \in 1 .. Len(S) : S[k].wait => waits[S[k].snd] = S[k]
      /\ \A k \in 1 .. Len(Q) : waits[Q[k].snd] = Q[k] /\ Q[k].wait
      /\ \A j, k \in 1 .. Len(S) : S[j].wait /\ S[k].wait /\ S[j].snd = S[k].snd => j = k
      /\ \A j, k \in 1 .. Len(Q) : Q[j].snd = Q[k].snd => j = k
      /\ \A j \in 1 .. Len(S), k \in 1 .. Len(Q) : S[j].wait => S[j].snd # Q[k].snd
  BY DEF Listed
<1>3. \A x \in Snd : x # r => waits'[x] = waits[x]
  BY DEF OthersKeep
<1>4. Loses(T, S, r) /\ Loses(P, Q, r)
  OBVIOUS
<1> SUFFICES /\ \A k \in 1 .. Len(T) : T[k].wait => waits'[T[k].snd] = T[k]
             /\ \A k \in 1 .. Len(P) : waits'[P[k].snd] = P[k]
             /\ \A j, k \in 1 .. Len(T) : T[j].wait /\ T[k].wait /\ T[j].snd = T[k].snd => j = k
             /\ \A j, k \in 1 .. Len(P) : P[j].snd = P[k].snd => j = k
             /\ \A j \in 1 .. Len(T), k \in 1 .. Len(P) : T[j].wait => T[j].snd # P[k].snd
  BY DEF ListedAt
<1> HIDE DEF S, Q, T, P
<1>5. ASSUME NEW k \in 1 .. Len(T), T[k].wait
      PROVE  \E a \in 1 .. Len(S) : T[k] = S[a] /\ T[k].snd # r
  BY <1>4, <1>5 DEF Loses
<1>6. ASSUME NEW k \in 1 .. Len(P)
      PROVE  \E a \in 1 .. Len(Q) : P[k] = Q[a] /\ P[k].snd # r
  BY <1>2, <1>4 DEF Loses
<1>7. \A k \in 1 .. Len(T) : T[k].wait => waits'[T[k].snd] = T[k]
  BY <1>1, <1>2, <1>3, <1>5
<1>8. \A k \in 1 .. Len(P) : waits'[P[k].snd] = P[k]
  BY <1>1, <1>2, <1>3, <1>6
<1>9. ASSUME NEW j \in 1 .. Len(T), NEW k \in 1 .. Len(T), T[j].wait, T[k].wait, T[j].snd = T[k].snd, j # k
      PROVE  FALSE
  <2>1. PICK a \in 1 .. Len(S), b \in 1 .. Len(S) : a # b /\ T[j] = S[a] /\ T[k] = S[b]
    BY <1>4, <1>9 DEF Loses
  <2>2. QED BY <1>2, <1>9, <2>1
<1>10. ASSUME NEW j \in 1 .. Len(P), NEW k \in 1 .. Len(P), P[j].snd = P[k].snd, j # k
       PROVE  FALSE
  <2>1. PICK a \in 1 .. Len(Q), b \in 1 .. Len(Q) : a # b /\ P[j] = Q[a] /\ P[k] = Q[b]
    BY <1>4, <1>10 DEF Loses
  <2>2. QED BY <1>2, <1>10, <2>1
<1>11. ASSUME NEW j \in 1 .. Len(T), NEW k \in 1 .. Len(P), T[j].wait, T[j].snd = P[k].snd
       PROVE  FALSE
  BY <1>2, <1>5, <1>6, <1>11
<1>12. QED BY <1>7, <1>8, <1>9, <1>10, <1>11

\* A function whose lists and waits stay.
LEMMA ListedSame ==
  ASSUME MboxType, Addressed, Listed, NEW v \in VF, todo'[v] = todo[v], pend'[v] = pend[v],
         \A s \in Snd : VfOf[s] = v => waits'[s] = waits[s]
  PROVE  ListedAt(v)'
<1>1. \A k \in 1 .. Len(todo[v]) : todo[v][k].snd \in Snd /\ VfOf[todo[v][k].snd] = v
  BY Lens, EndFacts DEF Addressed, Asked, Message
<1>2. \A k \in 1 .. Len(pend[v]) : pend[v][k].snd \in Snd /\ VfOf[pend[v][k].snd] = v
  BY Lens, EndFacts DEF Addressed, Asked, Message
<1>3. ListedAt(v)
  BY DEF Listed, ListedAt
<1>4. \A k \in 1 .. Len(todo[v]) : todo[v][k].wait => waits'[todo[v][k].snd] = todo[v][k]
  BY <1>1, <1>3 DEF ListedAt
<1>5. \A k \in 1 .. Len(pend[v]) : waits'[pend[v][k].snd] = pend[v][k]
  BY <1>2, <1>3 DEF ListedAt
<1>6. QED BY <1>3, <1>4, <1>5 DEF ListedAt

LEMMA PendWaits ==
  ASSUME MboxType, Addressed, Asleep, Listed, NEW v \in VF, NEW k \in 1 .. Len(pend[v])
  PROVE  /\ pend[v][k] \in Message /\ pend[v][k].wait /\ pend[v][k].snd \in Snd
         /\ waits[pend[v][k].snd] = pend[v][k] /\ pend[v][k] # NoMsg /\ VfOf[pend[v][k].snd] = v
<1>1. pend[v][k] \in Message
  BY Lens
<1>2. pend[v][k].snd \in Snd /\ waits[pend[v][k].snd] = pend[v][k] /\ VfOf[pend[v][k].snd] = v
  BY <1>1 DEF Message, Listed, Addressed, Asked
<1>3. pend[v][k] # NoMsg
  BY <1>1, EndFacts
<1>4. waits[pend[v][k].snd].wait
  BY <1>2, <1>3 DEF Asleep
<1>5. QED BY <1>1, <1>2, <1>3, <1>4

LEMMA ListedSent ==
  ASSUME MboxType, Addressed, Asleep, Listed, NEW v \in VF, HasSent(v)
  PROVE  ListedAt(v)'
<1> DEFINE S == todo[v]
           Q == pend[v]
           T == todo'[v]
           P == pend'[v]
<1>1. /\ Len(S) \in Nat /\ Len(Q) \in Nat /\ 1 \in 1 .. Len(S)
      /\ Omits(T, S, 1) /\ waits' = waits
      /\ S[1].wait => Adds(P, Q, S[1])
      /\ ~S[1].wait => P = Q
  BY Lens, EndFacts DEF HasSent, KeepsUser
<1>2. /\ \A k \in 1 .. Len(S) : S[k].wait => waits[S[k].snd] = S[k]
      /\ \A k \in 1 .. Len(Q) : waits[Q[k].snd] = Q[k]
      /\ \A j, k \in 1 .. Len(S) : S[j].wait /\ S[k].wait /\ S[j].snd = S[k].snd => j = k
      /\ \A j, k \in 1 .. Len(Q) : Q[j].snd = Q[k].snd => j = k
      /\ \A j \in 1 .. Len(S), k \in 1 .. Len(Q) : S[j].wait => S[j].snd # Q[k].snd
  BY DEF Listed
<1> SUFFICES /\ \A k \in 1 .. Len(T) : T[k].wait => waits[T[k].snd] = T[k]
             /\ \A k \in 1 .. Len(P) : waits[P[k].snd] = P[k]
             /\ \A j, k \in 1 .. Len(T) : T[j].wait /\ T[k].wait /\ T[j].snd = T[k].snd => j = k
             /\ \A j, k \in 1 .. Len(P) : P[j].snd = P[k].snd => j = k
             /\ \A j \in 1 .. Len(T), k \in 1 .. Len(P) : T[j].wait => T[j].snd # P[k].snd
  BY <1>1 DEF ListedAt
<1> HIDE DEF S, Q, T, P
<1>3. Len(T) = Len(S) - 1 /\ \A k \in 1 .. Len(T) : k + 1 \in 1 .. Len(S) /\ T[k] = S[k + 1]
  BY <1>1 DEF Omits
<1>4. ASSUME NEW k \in 1 .. Len(P)
      PROVE  \/ k \in 1 .. Len(Q) /\ P[k] = Q[k]
             \/ S[1].wait /\ k = Len(Q) + 1 /\ P[k] = S[1]
  BY <1>1 DEF Adds
<1>5. \A k \in 1 .. Len(T) : T[k].wait => waits[T[k].snd] = T[k]
  BY <1>2, <1>3
<1>6. \A k \in 1 .. Len(P) : waits[P[k].snd] = P[k]
  BY <1>1, <1>2, <1>4
<1>7. ASSUME NEW j \in 1 .. Len(T), NEW k \in 1 .. Len(T), T[j].wait, T[k].wait, T[j].snd = T[k].snd
      PROVE  j = k
  <2>1. j + 1 = k + 1
    BY <1>2, <1>3, <1>7
  <2>2. QED BY <2>1, <1>1, <1>3
<1>8. ASSUME NEW j \in 1 .. Len(P), NEW k \in 1 .. Len(P), P[j].snd = P[k].snd
      PROVE  j = k
  BY <1>1, <1>2, <1>4, <1>8
<1>9. ASSUME NEW j \in 1 .. Len(T), NEW k \in 1 .. Len(P), T[j].wait, T[j].snd = P[k].snd
      PROVE  FALSE
  <2>1. j + 1 \in 1 .. Len(S) /\ T[j] = S[j + 1] /\ j + 1 # 1
    BY <1>1, <1>3
  <2>2. CASE k \in 1 .. Len(Q) /\ P[k] = Q[k]
    BY <1>2, <1>9, <2>1, <2>2
  <2>3. CASE S[1].wait /\ P[k] = S[1]
    BY <1>1, <1>2, <1>9, <2>1, <2>3
  <2>4. QED BY <1>4, <2>2, <2>3
<1>10. QED BY <1>5, <1>6, <1>7, <1>8, <1>9

LEMMA ListedStep ==
  ASSUME MboxType, Addressed, Asleep, Listed, Effect
  PROVE  Listed'
<1> USE EndFacts
<1>0. ASSUME \A v \in VF : ListedAt(v)' PROVE Listed'
  BY <1>0 DEF Listed, ListedAt
<1>1. ASSUME NEW s \in Snd, NEW m \in Message, Opens(s, m) \/ Requests(s, m) \/ Leaves(s, m)
      PROVE  Listed'
  BY <1>1, ListedPost DEF Opens, Requests, Leaves
<1>2. ASSUME NEW s \in Snd, NEW m \in Message, Expires(s, m) PROVE Listed'
  <2> DEFINE v == VfOf[s]
  <2>1. v \in VF /\ v \in End /\ Len(todo[v]) \in Nat /\ Len(pend[v]) \in Nat
    BY Lens
  <2>2. /\ m = waits[s] /\ m.wait /\ m.snd = s
        /\ Drops(todo'[v], todo[v], m) /\ Drops(pend'[v], pend[v], m)
        /\ OthersKeep(waits, waits', Snd, s) /\ OthersKeep(todo, todo', End, v)
        /\ OthersKeep(pend, pend', VF, v)
    BY <1>2 DEF Expires, Asleep
  <2>3. Loses(todo'[v], todo[v], s)
    <3>1. \A k \in 1 .. Len(todo[v]) : todo[v][k].wait /\ todo[v][k].snd = s => todo[v][k] = m
      BY <2>1, <2>2 DEF Listed
    <3>2. CASE todo'[v] = todo[v] /\ \A k \in 1 .. Len(todo[v]) : todo[v][k] # m
      BY <3>1, <3>2, LosesNone
    <3>3. ASSUME NEW p \in 1 .. Len(todo[v]), todo[v][p] = m, Omits(todo'[v], todo[v], p)
          PROVE  Loses(todo'[v], todo[v], s)
      <4>1. \A k \in 1 .. Len(todo[v]) : todo[v][k].wait /\ k # p => todo[v][k].snd # s
        BY <2>1, <2>2, <3>3 DEF Listed
      <4>2. QED BY <2>1, <3>3, <4>1, LosesOne
    <3>4. QED BY <2>2, <3>2, <3>3 DEF Drops
  <2>4. Loses(pend'[v], pend[v], s)
    <3>1. \A k \in 1 .. Len(pend[v]) : pend[v][k].snd = s => pend[v][k] = m
      BY <2>1, <2>2 DEF Listed
    <3>2. CASE pend'[v] = pend[v] /\ \A k \in 1 .. Len(pend[v]) : pend[v][k] # m
      BY <3>1, <3>2, LosesNone
    <3>3. ASSUME NEW p \in 1 .. Len(pend[v]), pend[v][p] = m, Omits(pend'[v], pend[v], p)
          PROVE  Loses(pend'[v], pend[v], s)
      <4>1. \A k \in 1 .. Len(pend[v]) : pend[v][k].wait /\ k # p => pend[v][k].snd # s
        BY <2>1, <2>2, <3>3 DEF Listed
      <4>2. QED BY <2>1, <3>3, <4>1, LosesOne
    <3>4. QED BY <2>2, <3>2, <3>3 DEF Drops
  <2>5. \A k \in 1 .. Len(pend[v]) : pend[v][k].wait
    BY <2>1, PendWaits
  <2>6. ListedAt(v)'
    BY <2>1, <2>2, <2>3, <2>4, <2>5, ListedShrink
  <2>7. ASSUME NEW w \in VF, w # v PROVE ListedAt(w)'
    <3>1. todo'[w] = todo[w] /\ pend'[w] = pend[w] /\ \A t \in Snd : VfOf[t] = w => waits'[t] = waits[t]
      BY <2>2, <2>7 DEF OthersKeep
    <3>2. QED BY <3>1, ListedSame
  <2>8. QED BY <1>0, <2>6, <2>7
<1>3. ASSUME UNCHANGED <<todo, pend, waits>> PROVE Listed'
  BY <1>3 DEF Listed
<1>4. ASSUME NEW e \in End, HasSent(e) PROVE Listed'
  <2>1. ASSUME NEW w \in VF, w # e PROVE ListedAt(w)'
    <3>1. todo'[w] = todo[w] /\ pend'[w] = pend[w] /\ waits' = waits
      BY <1>4, <2>1 DEF HasSent, OthersKeep, KeepsUser
    <3>2. QED BY <3>1, ListedSame
  <2>2. QED BY <1>0, <1>4, <2>1, ListedSent
<1>5. ASSUME NEW e \in End, Retries(e) PROVE Listed'
  <2>1. ASSUME NEW w \in VF, w # e \/ todo[e][1].wait PROVE ListedAt(w)'
    <3>1. todo'[w] = todo[w] /\ pend'[w] = pend[w] /\ waits' = waits
      BY <1>5, <2>1 DEF Retries, OthersKeep, KeepsUser
    <3>2. QED BY <3>1, ListedSame
  <2>2. ASSUME NEW w \in VF, w = e, ~todo[w][1].wait PROVE ListedAt(w)'
    <3>1. PICK r : todo'[w][1] = [todo[w][1] EXCEPT !.retry = r]
      BY <1>5, <2>2 DEF Retries
    <3>2. 1 \in 1 .. Len(todo[w]) /\ todo[w][1] \in Message
      BY <1>5, <2>2, Lens DEF Retries
    <3>3. ~todo'[w][1].wait
      BY <2>2, <3>1, <3>2 DEF Message
    <3>4. Len(todo'[w]) = Len(todo[w]) /\ \A k \in 1 .. Len(todo[w]) : k # 1 => todo'[w][k] = todo[w][k]
      BY <1>5, <2>2, Lens DEF Retries
    <3>5. pend' = pend /\ waits' = waits
      BY <1>5 DEF Retries, KeepsUser
    <3>6. ListedAt(w)
      BY DEF Listed, ListedAt
    <3>7. \A k \in 1 .. Len(todo'[w]) : todo'[w][k].wait => k \in 1 .. Len(todo[w]) /\ todo'[w][k] = todo[w][k]
      BY <3>3, <3>4
    <3>8. QED BY <3>5, <3>6, <3>7 DEF ListedAt
  <2>3. QED BY <1>0, <2>1, <2>2
<1>6. ASSUME NEW e \in End, GivesUp(e) PROVE Listed'
  <2>1. ASSUME NEW w \in VF, w # e PROVE ListedAt(w)'
    <3>1. todo'[w] = todo[w] /\ pend'[w] = pend[w] /\ waits' = waits
      BY <1>6, <2>1 DEF GivesUp, OthersKeep, KeepsUser
    <3>2. QED BY <3>1, ListedSame
  <2>2. ASSUME NEW w \in VF, w = e PROVE ListedAt(w)'
    <3>1. 1 \in 1 .. Len(todo[w]) /\ Len(todo[w]) \in Nat /\ Omits(todo'[w], todo[w], 1)
      BY <1>6, <2>2, Lens DEF GivesUp
    <3>2. pend' = pend /\ waits' = waits
      BY <1>6 DEF GivesUp, KeepsUser
    <3>3. Len(todo'[w]) = Len(todo[w]) - 1
          /\ \A k \in 1 .. Len(todo'[w]) : k + 1 \in 1 .. Len(todo[w]) /\ todo'[w][k] = todo[w][k + 1]
      BY <3>1 DEF Omits
    <3>4. ListedAt(w)
      BY DEF Listed, ListedAt
    <3>5. \A j, k \in 1 .. Len(todo'[w]) : j + 1 = k + 1 => j = k
      BY <3>1, <3>3
    <3>6. \A j, k \in 1 .. Len(todo'[w]) :
            todo'[w][j].wait /\ todo'[w][k].wait /\ todo'[w][j].snd = todo'[w][k].snd => j = k
      BY <3>3, <3>4, <3>5 DEF ListedAt
    <3>7. \A k \in 1 .. Len(todo'[w]) : todo'[w][k].wait => waits[todo'[w][k].snd] = todo'[w][k]
      BY <3>3, <3>4 DEF ListedAt
    <3>8. \A j \in 1 .. Len(todo'[w]), k \in 1 .. Len(pend[w]) :
             todo'[w][j].wait => todo'[w][j].snd # pend[w][k].snd
      BY <3>3, <3>4 DEF ListedAt
    <3>9. QED BY <3>2, <3>4, <3>6, <3>7, <3>8 DEF ListedAt
  <2>3. QED BY <1>0, <2>1, <2>2
<1>7. ASSUME NEW v \in VF, NEW m \in Message, NEW k \in 1 .. Len(pend[v]), Wakes(v, m, k)
      PROVE  Listed'
  <2> DEFINE r == pend[v][k].snd
  <2>1. r \in Snd /\ VfOf[r] = v /\ \A j \in 1 .. Len(pend[v]) : pend[v][j].wait
    BY PendWaits
  <2>2. /\ Omits(pend'[v], pend[v], k) /\ OthersKeep(pend, pend', VF, v)
        /\ OthersKeep(waits, waits', Snd, r) /\ todo' = todo
    BY <1>7 DEF Wakes, TakesAnswer
  <2>3. Len(pend[v]) \in Nat
    BY Lens
  <2>4. Loses(todo'[v], todo[v], r)
    <3>1. \A j \in 1 .. Len(todo[v]) : todo[v][j].wait => todo[v][j].snd # r
      BY DEF Listed
    <3>2. QED BY <2>2, <3>1, LosesNone
  <2>5. Loses(pend'[v], pend[v], r)
    <3>1. \A j \in 1 .. Len(pend[v]) : pend[v][j].wait /\ j # k => pend[v][j].snd # r
      BY DEF Listed
    <3>2. QED BY <2>2, <2>3, <3>1, LosesOne
  <2> HIDE DEF r
  <2>6. ListedAt(v)'
    BY <2>1, <2>2, <2>4, <2>5, ListedShrink
  <2>7. ASSUME NEW w \in VF, w # v PROVE ListedAt(w)'
    <3>1. todo'[w] = todo[w] /\ pend'[w] = pend[w] /\ \A t \in Snd : VfOf[t] = w => waits'[t] = waits[t]
      BY <2>1, <2>2, <2>7 DEF OthersKeep
    <3>2. QED BY <3>1, ListedSame
  <2>8. QED BY <1>0, <2>6, <2>7
<1>8. ASSUME NEW v \in VF, NEW m \in Message, TakesRequest(v, m) PROVE Listed'
  <2>1. ASSUME NEW w \in VF PROVE ListedAt(w)'
    <3>1. todo'[w] = todo[w] /\ pend'[w] = pend[w] /\ waits' = waits
      BY <1>8 DEF TakesRequest, OthersKeep, KeepsUser
    <3>2. QED BY <3>1, ListedSame
  <2>2. QED BY <1>0, <2>1
<1>9. ASSUME NEW e \in End, Sends(e) \/ Rests(e) PROVE Listed'
  BY <1>3, <1>9 DEF Sends, Rests, KeepsUser
<1>10. ASSUME NEW v \in VF, NEW m \in Message, Stops(v) \/ Orphaned(v, m) PROVE Listed'
  BY <1>3, <1>10 DEF Stops, Orphaned, TakesAnswer
<1>12. ASSUME NEW v \in VF, Stops(v) PROVE Listed'
  BY <1>3, <1>12 DEF Stops
<1>11. QED BY <1>1, <1>2, <1>4, <1>5, <1>6, <1>7, <1>8, <1>9, <1>10, <1>12 DEF Effect
-----------------------------------------------------------------------------
(* What the parent knows of who is online.                                 *)

LEMMA UnsentPlaces ==
  ASSUME MboxType, NEW e \in End
  PROVE  /\ \A k : k \in Unsent(e) => k \in 1 .. Len(todo[e])
         /\ \A k \in 1 .. Len(todo[e]) : k \in Unsent(e) <=> (work[e] = "sent" => k # 1)
         /\ Len(todo[e]) \in Nat
<1>1. Len(todo[e]) \in Nat
  BY Lens
<1>2. QED BY <1>1 DEF Unsent

\* The greetings of w in the new state are those of the old one, moved.
GreetsMove(w) ==
    /\ \A i \in Nat : Greets(w, i)' => \E a \in Nat : Greets(w, a)
    /\ \A i, j \in Nat : Greets(w, i)' /\ Greets(w, j)' /\ i # j =>
          \E a, b \in Nat : a # b /\ Greets(w, a) /\ Greets(w, b)

LEMMA GreetingMoves ==
  ASSUME NEW w \in VF, Greeting(w), GreetsMove(w), vst'[w] = vst[w],
         Unread(w, "HELLO")' => Unread(w, "HELLO")
  PROVE  Greeting(w)'
<1> HIDE DEF Greets, Unread
<1>1. ASSUME NEW i \in Nat, Greets(w, i)'
      PROVE  vst'[w] = "hello" /\ ~Unread(w, "HELLO")'
  BY <1>1 DEF Greeting, GreetsMove
<1>2. ASSUME NEW i \in Nat, NEW j \in Nat, Greets(w, i)', Greets(w, j)' PROVE i = j
  BY <1>2 DEF Greeting, GreetsMove
<1>3. QED BY <1>1, <1>2 DEF Greeting

LEMMA GreetsFewer ==
  ASSUME MboxType, MboxType', NEW w \in VF, todo'[PF] = todo[PF], out'[PF] \in {out[PF], NoMsg},
         work'[PF] = "sent" <=> work[PF] = "sent"
  PROVE  GreetsMove(w)
<1>1. \A i \in Nat : Greets(w, i)' => Greets(w, i)
  BY DEF Greets, Unsent
<1>2. QED BY <1>1 DEF GreetsMove

LEMMA GreetsSends ==
  ASSUME MboxType, MboxType', NEW w \in VF, Sends(PF)
  PROVE  GreetsMove(w)
<1>1. /\ out[PF] = NoMsg /\ out'[PF] = todo[PF][1] /\ todo' = todo
      /\ work[PF] # "sent" /\ work'[PF] = "sent" /\ Len(todo[PF]) \in Nat \ {0}
  BY Lens, EndFacts DEF Sends
<1>2. Greets(w, 0)' => Greets(w, 1)
  BY <1>1 DEF Greets, Unsent
<1>3. \A i \in Nat : Greets(w, i)' /\ i # 0 => i # 1 /\ Greets(w, i)
  BY <1>1 DEF Greets, Unsent
<1>4. QED BY <1>2, <1>3 DEF GreetsMove

LEMMA GreetsSent ==
  ASSUME MboxType, MboxType', NEW w \in VF, HasSent(PF)
  PROVE  GreetsMove(w)
<1>1. /\ out' = out /\ Len(todo'[PF]) = Len(todo[PF]) - 1 /\ Len(todo[PF]) \in Nat \ {0}
      /\ \A k \in 1 .. Len(todo[PF]) - 1 : todo'[PF][k] = todo[PF][k + 1]
      /\ work[PF] = "sent" /\ work'[PF] # "sent"
  BY Lens, EndFacts DEF HasSent, Omits
<1>2. Greets(w, 0)' => Greets(w, 0)
  BY <1>1 DEF Greets, Unsent
<1>3. \A i \in Nat : Greets(w, i)' /\ i # 0 => i + 1 \in Nat \ {0} /\ Greets(w, i + 1)
  BY <1>1 DEF Greets, Unsent
<1>4. ASSUME NEW i \in Nat, NEW j \in Nat, Greets(w, i)', Greets(w, j)', i # j
      PROVE  \E a, b \in Nat : a # b /\ Greets(w, a) /\ Greets(w, b)
  <2>1. CASE i # 0 /\ j # 0
    <3>1. i + 1 # j + 1 /\ i + 1 \in Nat /\ j + 1 \in Nat /\ Greets(w, i + 1) /\ Greets(w, j + 1)
      BY <1>3, <1>4, <2>1
    <3>2. QED BY <3>1
  <2>2. CASE i = 0
    BY <1>2, <1>3, <1>4, <2>2
  <2>3. CASE j = 0
    BY <1>2, <1>3, <1>4, <2>3
  <2>4. QED BY <2>1, <2>2, <2>3
<1>5. ASSUME NEW i \in Nat, Greets(w, i)' PROVE \E a \in Nat : Greets(w, a)
  BY <1>2, <1>3, <1>5
<1>6. QED BY <1>4, <1>5 DEF GreetsMove

\* The messages of e keep their operation and their function.
Relabels(e) ==
    /\ Len(todo'[e]) = Len(todo[e])
    /\ \A k \in 1 .. Len(todo[e]) :
         /\ todo'[e][k].op = todo[e][k].op /\ todo'[e][k].vf = todo[e][k].vf
         /\ todo'[e][k].snd = todo[e][k].snd /\ todo'[e][k].n = todo[e][k].n
         /\ todo'[e][k].wait = todo[e][k].wait

LEMMA RetriesRelabel ==
  ASSUME MboxType, NEW e \in End, Retries(e)
  PROVE  Relabels(e)
<1>1. PICK r : todo'[e][1] = [todo[e][1] EXCEPT !.retry = r]
  BY DEF Retries
<1>2. 1 \in 1 .. Len(todo[e]) /\ todo[e][1] \in Message
  BY Lens DEF Retries
<1>3. /\ todo'[e][1].op = todo[e][1].op /\ todo'[e][1].vf = todo[e][1].vf
      /\ todo'[e][1].snd = todo[e][1].snd /\ todo'[e][1].n = todo[e][1].n
      /\ todo'[e][1].wait = todo[e][1].wait
  BY <1>1, <1>2 DEF Message
<1>4. Len(todo'[e]) = Len(todo[e]) /\ \A k \in 1 .. Len(todo[e]) : k # 1 => todo'[e][k] = todo[e][k]
  BY Lens DEF Retries
<1>5. QED BY <1>3, <1>4 DEF Relabels

LEMMA GreetsRetries ==
  ASSUME MboxType, MboxType', NEW w \in VF, Retries(PF)
  PROVE  GreetsMove(w)
<1>1. Relabels(PF)
  BY RetriesRelabel, EndFacts
<1>2. out' = out /\ work[PF] # "sent" /\ work'[PF] # "sent"
  BY DEF Retries, RestsAt
<1>3. \A i \in Nat : Greets(w, i)' => Greets(w, i)
  BY <1>1, <1>2 DEF Greets, Unsent, Relabels
<1>4. QED BY <1>3 DEF GreetsMove

\* Nothing happens on the side of w.
LineStays(w) ==
    /\ todo'[w] = todo[w] /\ out'[w] = out[w] /\ vst'[w] = vst[w]
    /\ work'[w] = "sent" <=> work[w] = "sent"

LEMMA LineSame ==
  ASSUME MboxType, NEW w \in VF, Line(w), LineStays(w)
  PROVE  /\ Line(w)' /\ (Online(w)' <=> Online(w))
         /\ Unread(w, "HELLO")' <=> Unread(w, "HELLO")
<1>1. Unsent(w)' = Unsent(w)
  BY DEF LineStays, Unsent
<1>2. \A op : /\ ToSend(w, op)' <=> ToSend(w, op)
              /\ InReg(w, op)' <=> InReg(w, op)
  BY <1>1 DEF ToSend, InReg, LineStays
<1>3. \A op : Unread(w, op)' <=> Unread(w, op)
  BY <1>2 DEF Unread
<1>4. Online(w)' <=> Online(w)
  BY <1>3 DEF Online, LineStays
<1>5. Line(w)'
  BY <1>1, <1>2 DEF Line, LineStays
<1>6. QED BY <1>3, <1>4, <1>5

LEMMA SessionSame ==
  ASSUME MboxType, NEW w \in VF, Session(w), LineStays(w), GreetsMove(w), slot' = slot
  PROVE  Session(w)'
<1>1. Line(w)' /\ (Online(w)' <=> Online(w)) /\ (Unread(w, "HELLO")' <=> Unread(w, "HELLO"))
  BY LineSame DEF Session
<1>2. Greeting(w)'
  BY <1>1, GreetingMoves DEF Session, LineStays
<1>3. HasSlot(w)' <=> HasSlot(w)
  BY DEF HasSlot
<1>4. QED BY <1>1, <1>2, <1>3 DEF Session

LEMMA SessionPosts ==
  ASSUME MboxType, MboxType', Addressed, NEW s \in Snd, NEW m \in Message, Session(VfOf[s]),
         Opens(s, m) \/ Requests(s, m) \/ Leaves(s, m)
  PROVE  Session(VfOf[s])'
<1> DEFINE v == VfOf[s]
<1>1. v \in VF /\ v \in End /\ v # PF /\ Len(todo[v]) \in Nat /\ Len(todo'[v]) \in Nat
  BY Lens, EndFacts
<1>2. /\ Len(todo'[v]) = Len(todo[v]) + 1 /\ todo'[v][Len(todo[v]) + 1] = m
      /\ \A k \in 1 .. Len(todo[v]) : todo'[v][k] = todo[v][k]
      /\ work' = work /\ out'[v] = out[v] /\ slot' = slot
  BY <1>1 DEF Opens, Requests, Leaves, Posts, Adds, KeepsPf
<1>3. work[v] = "sent" => Len(todo[v]) # 0
  BY <1>1, Lens DEF Addressed
<1>4. /\ \A k \in Unsent(v) : k \in 1 .. Len(todo[v])
      /\ Len(todo[v]) + 1 \in Unsent(v)'
      /\ \A k : k \in Unsent(v)' <=> k \in Unsent(v) \/ k = Len(todo[v]) + 1
  BY <1>1, <1>2, <1>3 DEF Unsent
<1> HIDE DEF v
<1>5. \A op : /\ ToSend(v, op)' <=> ToSend(v, op) \/ m.op = op
              /\ InReg(v, op)' <=> InReg(v, op)
  BY <1>2, <1>4 DEF ToSend, InReg
<1>6. \A op : Unread(v, op)' <=> Unread(v, op) \/ m.op = op
  BY <1>5 DEF Unread
<1>7. Line(v) /\ Greeting(v) /\ (HasSlot(v) <=> Online(v))
  BY DEF Session, v
<1>8. HasSlot(v)' <=> HasSlot(v)
  BY <1>2 DEF HasSlot
<1>9. GreetsMove(v)
  <2>1. todo'[PF] = todo[PF] /\ out'[PF] \in {out[PF], NoMsg}
    BY <1>1, EndFacts DEF Opens, Requests, Leaves, Posts, OthersKeep, v
  <2>2. QED BY <1>1, <1>2, <2>1, GreetsFewer
<1>10. \A k \in 1 .. Len(todo'[v]) : k \in 1 .. Len(todo[v]) \/ k = Len(todo[v]) + 1
  BY <1>1, <1>2
<1>11. CASE Opens(s, m)
  <2>1. m.op = "HELLO" /\ vst[v] = "off" /\ vst'[v] = "hello" /\ work[v] # "sent"
    BY <1>11 DEF Opens, v
  <2>2. \A k \in 1 .. Len(todo[v]) : todo[v][k].op \notin {"HELLO", "BYE"}
    BY <1>7, <2>1 DEF Line
  <2>3. ~ToSend(v, "HELLO") /\ ~ToSend(v, "BYE") /\ ~InReg(v, "HELLO")
    BY <1>4, <1>7, <2>1, <2>2 DEF ToSend, Line
  <2>4. Line(v)'
    <3>1. ASSUME NEW k \in 1 .. Len(todo'[v])
          PROVE  /\ todo'[v][k].op = "HELLO" => vst'[v] = "hello"
                 /\ todo'[v][k].op = "BYE" => vst'[v] = "bye" /\ k = Len(todo'[v])
      BY <1>2, <1>10, <2>1, <2>2
    <3>2. ASSUME NEW j \in Unsent(v)', NEW k \in Unsent(v)', todo'[v][j].op = "HELLO", todo'[v][k].op = "HELLO"
          PROVE  j = k
      BY <1>2, <1>4, <2>2, <3>2
    <3>3. QED BY <1>5, <2>1, <2>3, <3>1, <3>2 DEF Line
  <2>5. \A i \in Nat : ~Greets(v, i)'
    BY <1>7, <1>9, <2>1 DEF Greeting, GreetsMove
  <2>6. Greeting(v)'
    BY <2>5 DEF Greeting
  <2>7. Online(v)' <=> Online(v)
    BY <1>6, <2>1 DEF Online
  <2>8. QED BY <1>7, <1>8, <2>4, <2>6, <2>7 DEF Session, v
<1>12. CASE Requests(s, m)
  <2>1. m.op # "HELLO" /\ m.op # "BYE" /\ vst[v] = "on" /\ vst'[v] = "on"
    BY <1>12, EndFacts DEF Requests, v
  <2>2. \A k \in 1 .. Len(todo[v]) : todo[v][k].op \notin {"HELLO", "BYE"}
    BY <1>7, <2>1 DEF Line
  <2>3. Line(v)'
    <3>1. ASSUME NEW k \in 1 .. Len(todo'[v]) PROVE todo'[v][k].op \notin {"HELLO", "BYE"}
      BY <1>2, <1>10, <2>1, <2>2
    <3>2. ~InReg(v, "HELLO") /\ ~InReg(v, "BYE")
      BY <1>7, <2>1 DEF Line
    <3>3. ~InReg(v, "HELLO")' /\ ~InReg(v, "BYE")'
      BY <1>5, <3>2
    <3>4. \A k \in Unsent(v)' : k \in 1 .. Len(todo'[v])
      BY <1>1, <1>2, <1>4
    <3>5. QED BY <3>1, <3>3, <3>4 DEF Line
  <2>4. Greeting(v)'
    BY <1>1, <1>6, <1>7, <1>9, <2>1, GreetingMoves
  <2>5. Online(v)' <=> Online(v)
    BY <1>6, <2>1 DEF Online
  <2>6. QED BY <1>7, <1>8, <2>3, <2>4, <2>5 DEF Session, v
<1>13. CASE Leaves(s, m)
  <2>1. m.op = "BYE" /\ vst[v] = "on" /\ vst'[v] = "bye"
    BY <1>13 DEF Leaves, v
  <2>2. \A k \in 1 .. Len(todo[v]) : todo[v][k].op \notin {"HELLO", "BYE"}
    BY <1>7, <2>1 DEF Line
  <2>3. Line(v)'
    <3>1. ASSUME NEW k \in 1 .. Len(todo'[v])
          PROVE  /\ todo'[v][k].op # "HELLO"
                 /\ todo'[v][k].op = "BYE" => k = Len(todo'[v])
      BY <1>2, <1>10, <2>1, <2>2
    <3>2. ~InReg(v, "HELLO") /\ ~InReg(v, "BYE")
      BY <1>7, <2>1 DEF Line
    <3>3. ~InReg(v, "HELLO")' /\ ~InReg(v, "BYE")'
      BY <1>5, <3>2
    <3>4. \A k \in Unsent(v)' : k \in 1 .. Len(todo'[v])
      BY <1>1, <1>2, <1>4
    <3>5. QED BY <2>1, <3>1, <3>3, <3>4 DEF Line
  <2>4. \A i \in Nat : ~Greets(v, i)'
    BY <1>7, <1>9, <2>1 DEF Greeting, GreetsMove
  <2>5. Greeting(v)'
    BY <2>4 DEF Greeting
  <2>6. Online(v)' /\ Online(v)
    BY <1>6, <2>1 DEF Online
  <2>7. QED BY <1>7, <1>8, <2>3, <2>5, <2>6 DEF Session, v
<1>14. QED BY <1>11, <1>12, <1>13

LEMMA SessionExpires ==
  ASSUME MboxType, MboxType', Addressed, NEW s \in Snd, NEW m \in Message, Session(VfOf[s]),
         Expires(s, m), m.op \notin {"HELLO", "BYE"}
  PROVE  Session(VfOf[s])'
<1> DEFINE v == VfOf[s]
<1>1. v \in VF /\ v \in End /\ v # PF /\ Len(todo[v]) \in Nat
  BY Lens, EndFacts
<1>2. /\ Drops(todo'[v], todo[v], m) /\ work' = work /\ work[v] # "sent" /\ out' = out
      /\ slot' = slot /\ vst'[v] = vst[v] /\ todo'[PF] = todo[PF]
  BY <1>1, EndFacts DEF Expires, KeepsPf, OthersKeep
<1>3. CASE todo'[v] = todo[v]
  <2>1. LineStays(v)
    BY <1>2, <1>3 DEF LineStays
  <2>2. GreetsMove(v)
    BY <1>1, <1>2, GreetsFewer
  <2>3. QED BY <1>1, <1>2, <2>1, <2>2, SessionSame
<1>4. ASSUME NEW p \in 1 .. Len(todo[v]), todo[v][p] = m, Omits(todo'[v], todo[v], p)
      PROVE  Session(v)'
  <2> HIDE DEF v
  <2>1. /\ Len(todo'[v]) = Len(todo[v]) - 1
        /\ \A k \in 1 .. Len(todo'[v]) : todo'[v][k] = todo[v][IF k < p THEN k ELSE k + 1]
    BY <1>4 DEF Omits
  <2>2. Unsent(v) = 1 .. Len(todo[v]) /\ Unsent(v)' = 1 .. Len(todo'[v])
    BY <1>2 DEF Unsent, v
  <2>3. ASSUME NEW op \in {"HELLO", "BYE"}
        PROVE  ToSend(v, op)' <=> ToSend(v, op)
    <3>1. ASSUME NEW k \in 1 .. Len(todo'[v]), todo'[v][k].op = op
          PROVE  \E j \in 1 .. Len(todo[v]) : todo[v][j].op = op
      <4>1. PICK j \in 1 .. Len(todo[v]) : j = (IF k < p THEN k ELSE k + 1) /\ todo'[v][k] = todo[v][j]
        BY <1>1, <1>4, OmitsPlace
      <4>2. QED BY <3>1, <4>1
    <3>2. ASSUME NEW j \in 1 .. Len(todo[v]), todo[v][j].op = op
          PROVE  \E k \in 1 .. Len(todo'[v]) : todo'[v][k].op = op
      <4>1. j # p
        BY <1>4, <2>3, <3>2
      <4>2. CASE j < p
        <5>1. j \in 1 .. Len(todo'[v]) /\ todo'[v][j] = todo[v][j]
          BY <1>1, <2>1, <4>2
        <5>2. QED BY <3>2, <5>1
      <4>3. CASE j > p
        <5>1. j - 1 \in 1 .. Len(todo'[v]) /\ todo'[v][j - 1] = todo[v][j]
          BY <1>1, <2>1, <4>3
        <5>2. QED BY <3>2, <5>1
      <4>4. QED BY <1>1, <4>1, <4>2, <4>3
    <3>3. QED BY <2>2, <3>1, <3>2 DEF ToSend
  <2>4. \A op : InReg(v, op)' <=> InReg(v, op)
    BY <1>2 DEF InReg
  <2>5. \A op \in {"HELLO", "BYE"} : Unread(v, op)' <=> Unread(v, op)
    BY <2>3, <2>4 DEF Unread
  <2>6. Line(v) /\ Greeting(v) /\ (HasSlot(v) <=> Online(v))
    BY DEF Session, v
  <2>7. Line(v)'
    <3>1. ASSUME NEW k \in 1 .. Len(todo'[v])
          PROVE  /\ todo'[v][k].op = "HELLO" => vst'[v] = "hello"
                 /\ todo'[v][k].op = "BYE" => vst'[v] = "bye" /\ k = Len(todo'[v])
      <4>1. PICK j \in 1 .. Len(todo[v]) : j = (IF k < p THEN k ELSE k + 1) /\ todo'[v][k] = todo[v][j]
        BY <1>1, <1>4, OmitsPlace
      <4>2. /\ todo[v][j].op = "HELLO" => vst[v] = "hello"
            /\ todo[v][j].op = "BYE" => vst[v] = "bye" /\ j = Len(todo[v])
        BY <2>6 DEF Line
      <4>3. j = Len(todo[v]) => k = Len(todo'[v])
        BY <1>1, <2>1, <4>1
      <4>4. QED BY <1>2, <4>1, <4>2, <4>3 DEF v
    <3>2. ASSUME NEW j \in 1 .. Len(todo'[v]), NEW k \in 1 .. Len(todo'[v]),
                 todo'[v][j].op = "HELLO", todo'[v][k].op = "HELLO"
          PROVE  j = k
      <4>1. PICK a \in 1 .. Len(todo[v]) : a = (IF j < p THEN j ELSE j + 1) /\ todo'[v][j] = todo[v][a]
        BY <1>1, <1>4, OmitsPlace
      <4>2. PICK b \in 1 .. Len(todo[v]) : b = (IF k < p THEN k ELSE k + 1) /\ todo'[v][k] = todo[v][b]
        BY <1>1, <1>4, OmitsPlace
      <4>3. a = b
        BY <2>2, <2>6, <3>2, <4>1, <4>2 DEF Line
      <4>4. QED BY <1>1, <4>1, <4>2, <4>3
    <3>3. QED BY <1>2, <2>2, <2>3, <2>4, <2>6, <3>1, <3>2 DEF Line, v
  <2>8. GreetsMove(v)
    BY <1>1, <1>2, GreetsFewer DEF v
  <2>9. Greeting(v)'
    BY <1>1, <1>2, <2>5, <2>6, <2>8, GreetingMoves DEF v
  <2>10. (Online(v)' <=> Online(v)) /\ (HasSlot(v)' <=> HasSlot(v))
    BY <1>2, <2>5 DEF Online, HasSlot, v
  <2>11. QED BY <2>6, <2>7, <2>9, <2>10 DEF Session
<1>5. QED BY <1>2, <1>3, <1>4 DEF Drops

LEMMA SessionSends ==
  ASSUME MboxType, MboxType', Addressed, NEW v \in VF, Session(v), Sends(v)
  PROVE  Session(v)'
<1>1. /\ v \in End /\ v # PF /\ Len(todo[v]) \in Nat /\ 1 \in 1 .. Len(todo[v])
      /\ todo[v][1] \in Message /\ todo[v][1] # NoMsg
  BY Lens, EndFacts DEF Sends
<1>2. /\ work[v] # "sent" /\ work'[v] = "sent" /\ out[v] = NoMsg /\ out'[v] = todo[v][1]
      /\ todo' = todo /\ vst' = vst /\ slot' = slot
      /\ out'[PF] = out[PF] /\ work'[PF] = work[PF]
  BY <1>1, EndFacts DEF Sends, KeepsUser, KeepsPf, OthersKeep
<1>3. Unsent(v) = 1 .. Len(todo[v]) /\ Unsent(v)' = 2 .. Len(todo[v])
  BY <1>2 DEF Unsent
<1>4. \A op : InReg(v, op)' <=> todo[v][1].op = op
  BY <1>1, <1>2 DEF InReg
<1>5. \A op : ~InReg(v, op)
  BY <1>2 DEF InReg
<1>6. \A op : ToSend(v, op) <=> ToSend(v, op)' \/ todo[v][1].op = op
  BY <1>1, <1>2, <1>3 DEF ToSend
<1>7. \A op : Unread(v, op)' <=> Unread(v, op)
  BY <1>4, <1>5, <1>6 DEF Unread
<1>8. Line(v) /\ Greeting(v) /\ (HasSlot(v) <=> Online(v))
  BY DEF Session
<1>9. Line(v)'
  <2>1. ASSUME InReg(v, "HELLO")' PROVE vst[v] = "hello" /\ ~ToSend(v, "HELLO")'
    <3>1. todo[v][1].op = "HELLO"
      BY <1>4, <2>1
    <3>2. \A k \in 2 .. Len(todo[v]) : todo[v][k].op # "HELLO"
      BY <1>1, <1>3, <1>8, <3>1 DEF Line
    <3>3. QED BY <1>1, <1>2, <1>3, <1>8, <3>1, <3>2 DEF Line, ToSend
  <2>2. ASSUME InReg(v, "BYE")' PROVE vst[v] = "bye" /\ ~ToSend(v, "BYE")'
    <3>1. todo[v][1].op = "BYE"
      BY <1>4, <2>2
    <3>2. vst[v] = "bye" /\ Len(todo[v]) = 1
      BY <1>1, <1>8, <3>1 DEF Line
    <3>3. QED BY <1>2, <1>3, <3>2 DEF ToSend
  <2>3. \A j, k \in Unsent(v)' : todo[v][j].op = "HELLO" /\ todo[v][k].op = "HELLO" => j = k
    BY <1>3, <1>8 DEF Line
  <2>4. QED BY <1>2, <1>8, <2>1, <2>2, <2>3 DEF Line
<1>10. GreetsMove(v)
  BY <1>2, GreetsFewer
<1>11. Greeting(v)'
  BY <1>2, <1>7, <1>8, <1>10, GreetingMoves
<1>12. (Online(v)' <=> Online(v)) /\ (HasSlot(v)' <=> HasSlot(v))
  BY <1>2, <1>7 DEF Online, HasSlot
<1>13. QED BY <1>8, <1>9, <1>11, <1>12 DEF Session

LEMMA SessionSent ==
  ASSUME MboxType, MboxType', Addressed, NEW v \in VF, Session(v), HasSent(v)
  PROVE  Session(v)'
<1>1. v \in End /\ v # PF /\ Len(todo[v]) \in Nat \ {0}
  BY Lens, EndFacts DEF HasSent
<1>2. /\ work[v] = "sent" /\ work'[v] # "sent" /\ out' = out /\ vst' = vst /\ slot' = slot
      /\ Len(todo'[v]) = Len(todo[v]) - 1
      /\ \A k \in 1 .. Len(todo'[v]) : k + 1 \in 2 .. Len(todo[v]) /\ todo'[v][k] = todo[v][k + 1]
      /\ todo'[PF] = todo[PF] /\ work'[PF] = work[PF]
  BY <1>1, EndFacts DEF HasSent, KeepsUser, KeepsPf, OthersKeep, Omits
<1>3. Unsent(v) = 2 .. Len(todo[v]) /\ Unsent(v)' = 1 .. Len(todo'[v])
  BY <1>2 DEF Unsent
<1>4. ASSUME NEW op PROVE ToSend(v, op)' <=> ToSend(v, op)
  <2>1. ASSUME NEW k \in Unsent(v), todo[v][k].op = op PROVE ToSend(v, op)'
    <3>1. k - 1 \in 1 .. Len(todo'[v]) /\ (k - 1) + 1 = k
      BY <1>1, <1>2, <1>3
    <3>2. todo'[v][k - 1] = todo[v][k]
      BY <1>2, <3>1
    <3>3. QED BY <1>3, <2>1, <3>1, <3>2 DEF ToSend
  <2>2. QED BY <1>2, <1>3, <2>1 DEF ToSend
<1>5. \A op : InReg(v, op)' <=> InReg(v, op)
  BY <1>2 DEF InReg
<1>6. \A op : Unread(v, op)' <=> Unread(v, op)
  BY <1>4, <1>5 DEF Unread
<1>7. Line(v) /\ Greeting(v) /\ (HasSlot(v) <=> Online(v))
  BY DEF Session
<1>8. Line(v)'
  <2>1. ASSUME NEW k \in 1 .. Len(todo'[v])
        PROVE  /\ todo'[v][k].op = "HELLO" => vst'[v] = "hello"
               /\ todo'[v][k].op = "BYE" => vst'[v] = "bye" /\ k = Len(todo'[v])
    BY <1>1, <1>2, <1>7 DEF Line
  <2>2. ASSUME NEW j \in Unsent(v)', NEW k \in Unsent(v)', todo'[v][j].op = "HELLO", todo'[v][k].op = "HELLO"
        PROVE  j = k
    <3>1. j + 1 = k + 1
      BY <1>2, <1>3, <1>7, <2>2 DEF Line
    <3>2. QED BY <1>1, <1>2, <1>3, <3>1
  <2>3. QED BY <1>2, <1>4, <1>5, <1>7, <2>1, <2>2 DEF Line
<1>9. GreetsMove(v)
  BY <1>2, GreetsFewer
<1>10. Greeting(v)'
  BY <1>2, <1>6, <1>7, <1>9, GreetingMoves
<1>11. (Online(v)' <=> Online(v)) /\ (HasSlot(v)' <=> HasSlot(v))
  BY <1>2, <1>6 DEF Online, HasSlot
<1>12. QED BY <1>7, <1>8, <1>10, <1>11 DEF Session

LEMMA SessionRetries ==
  ASSUME MboxType, MboxType', NEW v \in VF, Session(v), Retries(v)
  PROVE  Session(v)'
<1>1. v \in End /\ v # PF
  BY EndFacts
<1>2. /\ Relabels(v) /\ work[v] # "sent" /\ work'[v] # "sent" /\ out' = out /\ vst' = vst /\ slot' = slot
      /\ todo'[PF] = todo[PF] /\ work'[PF] = work[PF]
  BY <1>1, RetriesRelabel, EndFacts DEF Retries, RestsAt, KeepsUser, KeepsPf, OthersKeep
<1>3. Unsent(v) = 1 .. Len(todo[v]) /\ Unsent(v)' = Unsent(v)
  BY <1>2 DEF Unsent, Relabels
<1>4. \A op : (ToSend(v, op)' <=> ToSend(v, op)) /\ (InReg(v, op)' <=> InReg(v, op))
  BY <1>2, <1>3 DEF ToSend, InReg, Relabels
<1>5. \A op : Unread(v, op)' <=> Unread(v, op)
  BY <1>4 DEF Unread
<1>6. Line(v) /\ Greeting(v) /\ (HasSlot(v) <=> Online(v))
  BY DEF Session
<1>7. Line(v)'
  BY <1>2, <1>3, <1>4, <1>6 DEF Line, Relabels
<1>8. GreetsMove(v)
  BY <1>2, GreetsFewer
<1>9. Greeting(v)'
  BY <1>2, <1>5, <1>6, <1>8, GreetingMoves
<1>10. (Online(v)' <=> Online(v)) /\ (HasSlot(v)' <=> HasSlot(v))
  BY <1>2, <1>5 DEF Online, HasSlot
<1>11. QED BY <1>6, <1>7, <1>9, <1>10 DEF Session

LEMMA SessionKeeps ==
  ASSUME MboxType, NEW w \in VF, Session(w), LineStays(w), GreetsMove(w),
         HasSlot(w)' <=> HasSlot(w)
  PROVE  Session(w)'
<1>1. Line(w)' /\ (Online(w)' <=> Online(w)) /\ (Unread(w, "HELLO")' <=> Unread(w, "HELLO"))
  BY LineSame DEF Session
<1>2. Greeting(w)'
  BY <1>1, GreetingMoves DEF Session, LineStays
<1>3. QED BY <1>1, <1>2 DEF Session

LEMMA SessionStops ==
  ASSUME MboxType, MboxType', NEW v \in VF, Session(v), Stops(v)
  PROVE  Session(v)'
<1>1. /\ todo' = todo /\ out' = out /\ work' = work /\ slot' = slot
      /\ vst[v] = "bye" /\ vst'[v] = "off" /\ todo[v] = <<>> /\ work[v] = "idle"
      /\ v \in End /\ Len(todo[v]) = 0
  BY Lens, EndFacts DEF Stops, KeepsPf
<1>2. Line(v) /\ Greeting(v) /\ (HasSlot(v) <=> Online(v))
  BY DEF Session
<1>3. Unsent(v) = {} /\ Unsent(v)' = {}
  BY <1>1 DEF Unsent
<1>4. \A op : ~ToSend(v, op) /\ ~ToSend(v, op)' /\ (InReg(v, op)' <=> InReg(v, op))
  BY <1>1, <1>3 DEF ToSend, InReg
<1>5. ~InReg(v, "HELLO")
  BY <1>1, <1>2 DEF Line
<1>6. Line(v)'
  BY <1>1, <1>3, <1>4, <1>5 DEF Line
<1>7. \A i \in Nat : ~Greets(v, i)
  BY <1>1, <1>2 DEF Greeting
<1>8. \A i \in Nat : Greets(v, i)' => Greets(v, i)
  BY <1>1 DEF Greets, Unsent
<1>9. Greeting(v)'
  BY <1>7, <1>8 DEF Greeting
<1>10. (Online(v)' <=> Online(v)) /\ (HasSlot(v)' <=> HasSlot(v))
  BY <1>1, <1>4 DEF Online, HasSlot, Unread
<1>11. QED BY <1>2, <1>6, <1>9, <1>10 DEF Session

\* The answer to the hello opens the function.
LEMMA SessionOpened ==
  ASSUME MboxType, MboxType', NEW v \in VF, Session(v), NEW m \in Message, m.op = "HELLO",
         TakesAnswer(v, m), vst'[v] = "on"
  PROVE  Session(v)'
<1>1. /\ todo' = todo /\ out'[v] = out[v] /\ out'[PF] = NoMsg /\ slot' = slot
      /\ work[v] # "sent" /\ work'[v] # "sent" /\ (work'[PF] = "sent" <=> work[PF] = "sent")
      /\ v \in End /\ out[PF] = m /\ m # NoMsg /\ m.vf = v
  BY EndFacts DEF TakesAnswer, RestsAt, OthersKeep, KeepsPf
<1>2. Line(v) /\ Greeting(v) /\ (HasSlot(v) <=> Online(v))
  BY DEF Session
<1>3. Greets(v, 0)
  BY <1>1 DEF Greets
<1>4. vst[v] = "hello" /\ ~Unread(v, "HELLO") /\ \A i \in Nat : Greets(v, i) => i = 0
  BY <1>2, <1>3 DEF Greeting
<1>5. Unsent(v) = 1 .. Len(todo[v]) /\ Unsent(v)' = 1 .. Len(todo[v])
  BY <1>1 DEF Unsent
<1>6. \A k \in 1 .. Len(todo[v]) : todo[v][k].op # "HELLO" /\ todo[v][k].op # "BYE"
  BY <1>2, <1>4, <1>5 DEF Line, Unread, ToSend
<1>7. \A op : InReg(v, op)' <=> InReg(v, op)
  BY <1>1 DEF InReg
<1>8. ~InReg(v, "HELLO") /\ ~InReg(v, "BYE")
  BY <1>2, <1>4 DEF Line, Unread
<1>9. Line(v)'
  BY <1>1, <1>5, <1>6, <1>7, <1>8 DEF Line
<1>10. \A i \in Nat : ~Greets(v, i)'
  <2>1. \A i \in Nat : Greets(v, i)' => i # 0 /\ Greets(v, i)
    BY <1>1 DEF Greets, Unsent
  <2>2. QED BY <1>4, <2>1
<1>11. Greeting(v)'
  BY <1>10 DEF Greeting
<1>12. Online(v) /\ Online(v)' /\ (HasSlot(v)' <=> HasSlot(v))
  BY <1>1, <1>4 DEF Online, HasSlot
<1>13. QED BY <1>2, <1>9, <1>11, <1>12 DEF Session

\* There is a slot for every function.
LEMMA FreeSlot ==
  ASSUME MboxType, Slotted, NEW v \in VF, ~HasSlot(v)
  PROVE  \E i \in Slots : slot[i] = NoVf
<1> SUFFICES ASSUME \A i \in Slots : slot[i] # NoVf PROVE FALSE
  OBVIOUS
<1>1. IsFiniteSet(VF) /\ NoVf \notin VF
  BY MboxAssumption
<1>2. Cardinality(VF) \in Nat
  BY <1>1, FS_CardinalityType
<1>3. IsFiniteSet(VF \ {v}) /\ Cardinality(VF \ {v}) = Cardinality(VF) - 1
  BY <1>1, FS_RemoveElement
<1>4. IsFiniteSet(Slots) /\ Cardinality(Slots) = Cardinality(VF)
  BY <1>2, FS_Interval DEF Slots
<1>5. slot \in [Slots -> VF \ {v}]
  BY DEF MboxType, HasSlot
<1>6. Cardinality(VF \ {v}) < Cardinality(Slots)
  BY <1>2, <1>3, <1>4
<1>7. \E i, j \in Slots : i # j /\ slot[i] = slot[j]
  BY <1>3, <1>4, <1>5, <1>6, FS_PigeonHole
<1>8. QED BY <1>7 DEF Slotted

LEMMA TakesSlot ==
  ASSUME MboxType, Slotted, NEW v \in VF, ~HasSlot(v), VfOnline(v)
  PROVE  /\ Slotted' /\ HasSlot(v)'
         /\ \A w \in VF \ {v} : HasSlot(w)' <=> HasSlot(w)
<1> DEFINE free == {i \in Slots : slot[i] = NoVf}
           new  == CHOOSE i \in free : \A j \in free : i <= j
           held == {i \in Slots : slot[i] # NoVf}
<1>1. free # {}
  BY FreeSlot
<1>2. IsFiniteSet(VF) /\ NoVf \notin VF /\ Cardinality(VF) \in Nat
  BY MboxAssumption, FS_CardinalityType
<1>3. free \subseteq Nat
  BY <1>2 DEF Slots
<1>4. \E i \in free : \A j \in free : i <= j
  BY <1>1, <1>3, LeastOf
<1>5. new \in free
  BY <1>4
<1>6. online' = online + 1 /\ slot' = [slot EXCEPT ![new] = v]
  BY <1>1 DEF VfOnline
<1> HIDE DEF new
<1>7. new \in Slots /\ slot[new] = NoVf
  BY <1>5
<1>8. /\ slot'[new] = v /\ \A i \in Slots \ {new} : slot'[i] = slot[i]
  BY <1>6, <1>7 DEF MboxType
<1>9. {i \in Slots : slot'[i] # NoVf} = held \cup {new} /\ new \notin held
  BY <1>2, <1>7, <1>8
<1>10. IsFiniteSet(held) /\ Cardinality(held \cup {new}) = Cardinality(held) + 1
  <2>1. IsFiniteSet(Slots)
    BY <1>2, FS_Interval DEF Slots
  <2>2. IsFiniteSet(held)
    BY <2>1, FS_Subset
  <2>3. QED BY <1>9, <2>2, FS_AddElement
<1>11. online' = Cardinality({i \in Slots : slot'[i] # NoVf})
  BY <1>6, <1>9, <1>10 DEF Slotted
<1>12. \A i, j \in Slots : slot'[i] = slot'[j] /\ slot'[i] # NoVf => i = j
  BY <1>7, <1>8 DEF Slotted, HasSlot
<1>13. HasSlot(v)' /\ \A w \in VF \ {v} : HasSlot(w)' <=> HasSlot(w)
  BY <1>2, <1>7, <1>8 DEF HasSlot
<1>14. QED BY <1>11, <1>12, <1>13 DEF Slotted

LEMMA GivesSlot ==
  ASSUME MboxType, Slotted, NEW v \in VF, HasSlot(v), VfOffline(v)
  PROVE  /\ Slotted' /\ ~HasSlot(v)'
         /\ \A w \in VF \ {v} : HasSlot(w)' <=> HasSlot(w)
<1> DEFINE held == {i \in Slots : slot[i] # NoVf}
<1>1. IsFiniteSet(VF) /\ NoVf \notin VF /\ Cardinality(VF) \in Nat
  BY MboxAssumption, FS_CardinalityType
<1>2. PICK old \in Slots : slot[old] = v
  BY DEF HasSlot
<1>3. \A i \in Slots : slot'[i] = IF slot[i] = v THEN NoVf ELSE slot[i]
  BY DEF VfOffline
<1>4. \A i \in Slots : slot[i] = v => i = old
  BY <1>1, <1>2 DEF Slotted
<1>5. {i \in Slots : slot'[i] # NoVf} = held \ {old} /\ old \in held
  BY <1>1, <1>2, <1>3, <1>4
<1>6. IsFiniteSet(held) /\ Cardinality(held \ {old}) = Cardinality(held) - 1
  <2>1. IsFiniteSet(Slots)
    BY <1>1, FS_Interval DEF Slots
  <2>2. IsFiniteSet(held)
    BY <2>1, FS_Subset
  <2>3. QED BY <1>5, <2>2, FS_RemoveElement
<1>7. online' = Cardinality({i \in Slots : slot'[i] # NoVf})
  BY <1>5, <1>6 DEF Slotted, VfOffline
<1>8. \A i, j \in Slots : slot'[i] = slot'[j] /\ slot'[i] # NoVf => i = j
  BY <1>3 DEF Slotted
<1>9. ~HasSlot(v)' /\ \A w \in VF \ {v} : HasSlot(w)' <=> HasSlot(w)
  BY <1>1, <1>3 DEF HasSlot
<1>10. QED BY <1>7, <1>8, <1>9 DEF Slotted

\* The parent's list grows by the answer to m; those to w do not move.
LEMMA GreetsTakes ==
  ASSUME MboxType, MboxType', NEW v \in VF, NEW m \in Message, TakesRequest(v, m), NEW w \in VF,
         w # v \/ m.op # "HELLO"
  PROVE  GreetsMove(w)
<1>1. /\ out'[PF] = out[PF] /\ work[PF] # "sent" /\ work'[PF] # "sent"
      /\ Len(todo[PF]) \in Nat /\ m.vf = v /\ PF \in End /\ PF # v
  BY Lens, EndFacts DEF TakesRequest, RestsAt, OthersKeep
<1>2. CASE m.op = "BYE"
  BY <1>1, <1>2, GreetsFewer DEF TakesRequest
<1>3. CASE m.op # "BYE"
  <2> DEFINE a == [m EXCEPT !.rsp = TRUE, !.wait = FALSE, !.retry = MaxRetry]
  <2>1. Adds(todo'[PF], todo[PF], a) /\ a.vf = v /\ a.op = m.op
    BY <1>1, <1>3 DEF TakesRequest, Message
  <2> HIDE DEF a
  <2>2. ASSUME NEW i \in Nat, Greets(w, i)' PROVE Greets(w, i)
    <3>1. CASE i = 0 /\ out'[PF] # NoMsg /\ out'[PF].vf = w /\ out'[PF].op = "HELLO"
      BY <1>1, <3>1 DEF Greets
    <3>2. CASE i \in 1 .. Len(todo'[PF]) /\ todo'[PF][i].vf = w /\ todo'[PF][i].op = "HELLO"
      <4>1. i # Len(todo[PF]) + 1
        BY <2>1, <3>2 DEF Adds
      <4>2. i \in 1 .. Len(todo[PF]) /\ todo'[PF][i] = todo[PF][i]
        BY <1>1, <2>1, <3>2, <4>1 DEF Adds
      <4>3. QED BY <1>1, <3>2, <4>2 DEF Greets, Unsent
    <3>3. QED BY <1>1, <2>2, <3>1, <3>2 DEF Greets, Unsent
  <2>3. QED BY <2>2 DEF GreetsMove
<1>4. QED BY <1>2, <1>3

LEMMA SessionTakes ==
  ASSUME MboxType, MboxType', Slotted, NEW v \in VF, NEW m \in Message, TakesRequest(v, m),
         \A w \in VF : Session(w)
  PROVE  Slotted' /\ \A w \in VF : Session(w)'
<1>1. /\ todo'[v] = todo[v] /\ out'[v] = NoMsg /\ vst' = vst /\ out[v] = m /\ m # NoMsg
      /\ work[PF] # "sent" /\ work'[PF] # "sent" /\ Len(todo[PF]) \in Nat /\ m.vf = v
      /\ v \in End /\ PF # v /\ out'[PF] = out[PF] /\ work'[v] = work[v]
  BY Lens, EndFacts DEF TakesRequest, RestsAt, OthersKeep, KeepsUser
<1>2. ASSUME NEW w \in VF, w # v PROVE LineStays(w)
  BY <1>1, <1>2, EndFacts DEF TakesRequest, RestsAt, OthersKeep, KeepsUser, LineStays
<1>3. \A op : /\ ToSend(v, op)' <=> ToSend(v, op)
              /\ InReg(v, op) <=> m.op = op
              /\ ~InReg(v, op)'
              /\ Unread(v, op)' <=> ToSend(v, op)
              /\ Unread(v, op) <=> ToSend(v, op) \/ m.op = op
  BY <1>1 DEF ToSend, InReg, Unread, Unsent
<1>4. Line(v) /\ Greeting(v) /\ (HasSlot(v) <=> Online(v))
  BY DEF Session
<1>5. Line(v)'
  <2>1. Unsent(v)' = Unsent(v)
    BY <1>1 DEF Unsent
  <2>2. ~InReg(v, "HELLO")' /\ ~InReg(v, "BYE")'
    BY <1>3
  <2>3. QED BY <1>1, <1>4, <2>1, <2>2 DEF Line
<1>6. CASE m.op \in ReqOps
  <2>1. m.op # "HELLO" /\ m.op # "BYE"
    BY <1>6, EndFacts
  <2>2. KeepsPf /\ \A w : HasSlot(w)' <=> HasSlot(w)
    BY <2>1 DEF TakesRequest, KeepsPf, HasSlot
  <2>3. \A w \in VF : GreetsMove(w)
    BY <2>1, GreetsTakes
  <2>4. \A w \in VF : w # v => Session(w)'
    BY <1>2, <2>2, <2>3, SessionKeeps
  <2>5. Greeting(v)'
    BY <1>1, <1>3, <1>4, <2>3, GreetingMoves
  <2>6. Online(v)' <=> Online(v)
    BY <1>1, <1>3, <2>1 DEF Online
  <2>7. Session(v)'
    BY <1>4, <1>5, <2>2, <2>5, <2>6 DEF Session
  <2>8. QED BY <2>2, <2>4, <2>7 DEF KeepsPf, Slotted
<1>7. CASE m.op = "BYE"
  <2>1. VfOffline(v) /\ "BYE" \notin ReqOps
    BY <1>7, EndFacts DEF TakesRequest
  <2>2. HasSlot(v) /\ vst[v] \in {"bye", "off", "hello"} /\ ~ToSend(v, "BYE")
        /\ (vst[v] = "hello" => ToSend(v, "HELLO"))
    BY <1>3, <1>4, <1>7 DEF Line, Online
  <2>3. /\ Slotted' /\ ~HasSlot(v)' /\ \A w \in VF \ {v} : HasSlot(w)' <=> HasSlot(w)
    BY <2>1, <2>2, GivesSlot
  <2>4. \A w \in VF : GreetsMove(w)
    BY <1>7, GreetsTakes
  <2>5. \A w \in VF : w # v => Session(w)'
    BY <1>2, <2>3, <2>4, SessionKeeps
  <2>6. Greeting(v)'
    BY <1>1, <1>3, <1>4, <1>7, <2>4, GreetingMoves
  <2>7. ~Online(v)'
    BY <1>1, <1>3, <2>2 DEF Online
  <2>8. Session(v)'
    BY <1>5, <2>3, <2>6, <2>7 DEF Session
  <2>9. QED BY <2>3, <2>5, <2>8
<1>8. CASE m.op = "HELLO"
  <2>1. VfOnline(v) /\ "HELLO" \notin ReqOps
    BY <1>8, EndFacts DEF TakesRequest
  <2>2. vst[v] = "hello" /\ ~ToSend(v, "HELLO")
    BY <1>3, <1>4, <1>8 DEF Line
  <2>3. ~ToSend(v, "BYE")
    BY <1>1, <1>4, <2>2, UnsentPlaces DEF Line, ToSend
  <2>4. ~HasSlot(v)
    BY <1>3, <1>4, <1>8, <2>2, <2>3 DEF Online
  <2>5. /\ Slotted' /\ HasSlot(v)' /\ \A w \in VF \ {v} : HasSlot(w)' <=> HasSlot(w)
    BY <2>1, <2>4, TakesSlot
  <2>6. \A w \in VF : w # v => Session(w)'
    <3>1. \A w \in VF : w # v => GreetsMove(w)
      BY GreetsTakes
    <3>2. QED BY <1>2, <2>5, <3>1, SessionKeeps
  <2>7. \A i \in Nat : ~Greets(v, i)
    BY <1>3, <1>4, <1>8 DEF Greeting
  <2>8. ASSUME NEW i \in Nat, Greets(v, i)' PROVE i = Len(todo[PF]) + 1
    <3> DEFINE a == [m EXCEPT !.rsp = TRUE, !.wait = FALSE, !.retry = MaxRetry]
    <3>1. Adds(todo'[PF], todo[PF], a)
      BY <1>8 DEF TakesRequest
    <3> HIDE DEF a
    <3>2. i # 0
      BY <1>1, <2>7, <2>8 DEF Greets, Unsent
    <3>3. i \in 1 .. Len(todo'[PF]) /\ todo'[PF][i].vf = v /\ todo'[PF][i].op = "HELLO"
      BY <1>1, <2>8, <3>2 DEF Greets, Unsent
    <3>4. CASE i \in 1 .. Len(todo[PF])
      <4>1. todo'[PF][i] = todo[PF][i]
        BY <3>1, <3>4 DEF Adds
      <4>2. Greets(v, i)
        BY <1>1, <3>3, <3>4, <4>1 DEF Greets, Unsent
      <4>3. QED BY <2>7, <4>2
    <3>5. QED BY <1>1, <3>1, <3>3, <3>4 DEF Adds
  <2>9. Greeting(v)'
    BY <1>1, <1>3, <2>2, <2>8 DEF Greeting
  <2>10. Online(v)'
    BY <1>1, <1>3, <2>2 DEF Online
  <2>11. Session(v)'
    BY <1>5, <2>5, <2>9, <2>10 DEF Session
  <2>12. QED BY <2>5, <2>6, <2>11
<1>9. QED BY <1>6, <1>7, <1>8 DEF Message

LEMMA KnownStep ==
  ASSUME MboxType, MboxType', Addressed, Asleep, KnownInv, Effect
  PROVE  KnownInv'
<1> SUFFICES ASSUME Sound' PROVE Slotted' /\ \A w \in VF : Session(w)'
  BY DEF KnownInv
<1> USE EndFacts
<1>1. CASE \E s \in Snd, m \in Message : Opens(s, m) \/ Requests(s, m) \/ Leaves(s, m)
  <2>1. PICK s \in Snd, m \in Message : Opens(s, m) \/ Requests(s, m) \/ Leaves(s, m)
    BY <1>1
  <2>2. /\ UNCHANGED <<expired, lost, slot, online, work>> /\ todo'[PF] = todo[PF]
        /\ \A w \in VF \ {VfOf[s]} : todo'[w] = todo[w] /\ vst'[w] = vst[w]
        /\ \A w \in VF : out'[w] = out[w]
        /\ out'[PF] \in {out[PF], NoMsg}
    BY <2>1 DEF Opens, Requests, Leaves, Posts, OthersKeep, KeepsPf, KeepsHist
  <2>3. Slotted /\ \A w \in VF : Session(w)
    BY <2>2 DEF KnownInv, Sound
  <2>4. ASSUME NEW w \in VF, w # VfOf[s] PROVE Session(w)'
    BY <2>2, <2>3, <2>4, GreetsFewer, SessionSame DEF LineStays
  <2>5. Session(VfOf[s])'
    BY <2>1, <2>3, SessionPosts
  <2>6. QED BY <2>2, <2>3, <2>4, <2>5 DEF Slotted
<1>2. ASSUME NEW s \in Snd, NEW m \in Message, Expires(s, m)
      PROVE  Slotted' /\ \A w \in VF : Session(w)'
  <2>1. m.op # "HELLO" /\ m.op # "BYE"
    BY <1>2 DEF Expires, Sound, Asleep, Asked
  <2>2. /\ UNCHANGED <<lost, slot, online, work, out>> /\ todo'[PF] = todo[PF]
        /\ \A w \in VF : expired[w] \subseteq expired'[w]
        /\ \A w \in VF \ {VfOf[s]} : todo'[w] = todo[w] /\ vst'[w] = vst[w]
    BY <1>2 DEF Expires, OthersKeep, KeepsPf
  <2>3. Slotted /\ \A w \in VF : Session(w)
    BY <2>2 DEF KnownInv, Sound
  <2>4. ASSUME NEW w \in VF, w # VfOf[s] PROVE Session(w)'
    BY <2>2, <2>3, <2>4, GreetsFewer, SessionSame DEF LineStays
  <2>5. Session(VfOf[s])'
    BY <1>2, <2>1, <2>3, SessionExpires
  <2>6. QED BY <2>2, <2>3, <2>4, <2>5 DEF Slotted
<1>3. ASSUME NEW e \in End, Sends(e) \/ HasSent(e) \/ Retries(e)
      PROVE  Slotted' /\ \A w \in VF : Session(w)'
  <2>1. /\ UNCHANGED <<expired, lost, slot, online, vst>>
        /\ \A d \in End \ {e} : todo'[d] = todo[d] /\ work'[d] = work[d] /\ out'[d] = out[d]
    BY <1>3 DEF Sends, HasSent, Retries, RestsAt, OthersKeep, KeepsPf, KeepsUser, KeepsHist
  <2>2. Slotted /\ \A w \in VF : Session(w)
    BY <2>1 DEF KnownInv, Sound
  <2>3. CASE e = PF
    <3>1. \A w \in VF : GreetsMove(w)
      BY <1>3, <2>3, GreetsSends, GreetsSent, GreetsRetries
    <3>2. \A w \in VF : LineStays(w)
      BY <2>1, <2>3 DEF LineStays
    <3>3. QED BY <2>1, <2>2, <3>1, <3>2, SessionSame DEF Slotted
  <2>4. CASE e \in VF
    <3>1. ASSUME NEW w \in VF, w # e PROVE Session(w)'
      BY <2>1, <2>2, <2>4, <3>1, GreetsFewer, SessionSame DEF LineStays
    <3>2. Session(e)'
      BY <1>3, <2>2, <2>4, SessionSends, SessionSent, SessionRetries
    <3>3. QED BY <2>1, <2>2, <3>1, <3>2 DEF Slotted
  <2>5. QED BY <2>3, <2>4
<1>4. ASSUME NEW e \in End, GivesUp(e) PROVE FALSE
  BY <1>4 DEF GivesUp, Sound
<1>5. ASSUME NEW e \in End, Rests(e)
      PROVE  Slotted' /\ \A w \in VF : Session(w)'
  <2>1. /\ UNCHANGED <<expired, lost, slot, online, vst, todo, out>>
        /\ \A d \in End : work'[d] = "sent" <=> work[d] = "sent"
    BY <1>5 DEF Rests, RestsAt, OthersKeep, KeepsPf, KeepsUser, KeepsHist
  <2>2. Slotted /\ \A w \in VF : Session(w)
    BY <2>1 DEF KnownInv, Sound
  <2>3. \A w \in VF : LineStays(w) /\ GreetsMove(w)
    BY <2>1, GreetsFewer DEF LineStays
  <2>4. QED BY <2>1, <2>2, <2>3, SessionSame DEF Slotted
<1>6. ASSUME NEW v \in VF, Stops(v)
      PROVE  Slotted' /\ \A w \in VF : Session(w)'
  <2>1. /\ UNCHANGED <<expired, lost, slot, online, todo, out, work>>
        /\ \A w \in VF \ {v} : vst'[w] = vst[w]
    BY <1>6 DEF Stops, OthersKeep, KeepsPf, KeepsHist
  <2>2. Slotted /\ \A w \in VF : Session(w)
    BY <2>1 DEF KnownInv, Sound
  <2>3. \A w \in VF \ {v} : LineStays(w) /\ GreetsMove(w)
    BY <2>1, GreetsFewer DEF LineStays
  <2>4. QED BY <1>6, <2>1, <2>2, <2>3, SessionSame, SessionStops DEF Slotted
<1>7. ASSUME NEW v \in VF, NEW m \in Message, TakesAnswer(v, m),
             OthersKeep(vst, vst', VF, v), vst'[v] = vst[v] \/ (m.op = "HELLO" /\ vst'[v] = "on")
      PROVE  Slotted' /\ \A w \in VF : Session(w)'
  <2>1. /\ UNCHANGED <<expired, lost, slot, online, todo>> /\ out'[PF] = NoMsg
        /\ \A d \in VF : out'[d] = out[d]
        /\ \A d \in End : work'[d] = "sent" <=> work[d] = "sent"
        /\ \A w \in VF \ {v} : vst'[w] = vst[w]
    BY <1>7 DEF TakesAnswer, RestsAt, OthersKeep, KeepsPf
  <2>2. Slotted /\ \A w \in VF : Session(w)
    BY <2>1 DEF KnownInv, Sound
  <2>3. \A w \in VF : vst'[w] = vst[w] => Session(w)'
    BY <2>1, <2>2, GreetsFewer, SessionSame DEF LineStays
  <2>4. QED BY <1>7, <2>1, <2>2, <2>3, SessionOpened DEF Slotted
<1>8. ASSUME NEW v \in VF, NEW m \in Message, Orphaned(v, m)
      PROVE  Slotted' /\ \A w \in VF : Session(w)'
  BY <1>7, <1>8 DEF Orphaned, OthersKeep
<1>9. ASSUME NEW v \in VF, NEW m \in Message, NEW k \in 1 .. Len(pend[v]), Wakes(v, m, k)
      PROVE  Slotted' /\ \A w \in VF : Session(w)'
  BY <1>7, <1>9 DEF Wakes
<1>10. ASSUME NEW v \in VF, NEW m \in Message, TakesRequest(v, m)
       PROVE  Slotted' /\ \A w \in VF : Session(w)'
  <2>1. UNCHANGED <<expired, lost>>
    BY <1>10 DEF TakesRequest, KeepsHist
  <2>2. QED BY <1>10, <2>1, SessionTakes DEF KnownInv, Sound
<1>11. QED BY <1>1, <1>2, <1>3, <1>4, <1>5, <1>6, <1>8, <1>9, <1>10 DEF Effect

-----------------------------------------------------------------------------
(* From the start, in every step. *)

MboxInv == MboxType /\ Addressed /\ Asleep /\ Listed

LEMMA MboxInitInv ==
  ASSUME MboxInit
  PROVE  MboxInv /\ KnownInv
<1> DEFINE on == {v \in VF : vst[v] = "on"}
<1>1. /\ todo = [e \in End |-> <<>>] /\ pend = [v \in VF |-> <<>>] /\ out = [e \in End |-> NoMsg]
      /\ work = [e \in End |-> "idle"] /\ waits = [s \in Snd |-> NoMsg] /\ sent = [s \in Snd |-> 0]
      /\ expired = [v \in VF |-> {}] /\ ~lost /\ ~orphan /\ ~wrong
      /\ lost \in BOOLEAN /\ orphan \in BOOLEAN /\ wrong \in BOOLEAN
  BY DEF MboxInit
<1>2. \E o \in OpenFirst : vst = [v \in VF |-> IF v \in o THEN "on" ELSE "off"]
  BY DEF MboxInit
<1>3. vst \in [VF -> {"off", "on"}]
  BY <1>2
<1>4. /\ online = Cardinality(on) /\ slot \in [Slots -> on \cup {NoVf}]
      /\ \A i \in Slots : slot[i] # NoVf <=> i <= online
      /\ \A v \in on : \E i \in Slots : slot[i] = v
  BY DEF MboxInit
<1>5. IsFiniteSet(on) /\ Cardinality(on) \in Nat /\ Cardinality(on) <= Cardinality(VF) /\ Cardinality(VF) \in Nat
  BY MboxAssumption, FS_Subset, FS_CardinalityType
<1>6. MboxType
  <2>1. <<>> \in Seq(Message)
    OBVIOUS
  <2>2. slot \in [Slots -> VF \cup {NoVf}] /\ online \in Int
    BY <1>4, <1>5
  <2>3. \A v \in VF : expired[v] \in SUBSET AllOps
    BY <1>1
  <2>4. QED BY <1>1, <1>3, <2>1, <2>2, <2>3 DEF MboxType
<1>7. Addressed /\ Asleep /\ Listed
  BY <1>1, EndFacts DEF Addressed, Asleep, Listed
<1>8. ASSUME NEW v \in VF PROVE Session(v)
  <2>1. Len(todo[v]) = 0 /\ Len(todo[PF]) = 0 /\ out[v] = NoMsg /\ out[PF] = NoMsg
        /\ work[v] # "sent" /\ work[PF] # "sent"
    BY <1>1, EndFacts
  <2>2. Unsent(v) = {} /\ Unsent(PF) = {}
    BY <2>1 DEF Unsent
  <2>3. \A op : ~Unread(v, op) /\ ~InReg(v, op)
    BY <2>1, <2>2 DEF Unread, ToSend, InReg
  <2>4. Line(v)
    BY <2>1, <2>2, <2>3 DEF Line
  <2>5. Greeting(v)
    BY <2>1, <2>2 DEF Greeting, Greets
  <2>6. Online(v) <=> v \in on
    BY <1>3, <2>3 DEF Online
  <2>7. HasSlot(v) <=> v \in on
    BY <1>4, MboxAssumption DEF HasSlot
  <2>8. QED BY <2>4, <2>5, <2>6, <2>7 DEF Session
<1>9. Slotted
  <2>1. {i \in Slots : slot[i] # NoVf} = 1 .. online
    BY <1>4, <1>5 DEF Slots
  <2>2. IsFiniteSet(1 .. online) /\ Cardinality(1 .. online) = online
    BY <1>4, <1>5, FS_Interval
  <2>3. ASSUME NEW i \in Slots, NEW j \in Slots, slot[i] = slot[j], slot[i] # NoVf PROVE i = j
    <3> DEFINE f == [k \in 1 .. online |-> slot[k]]
    <3>1. 1 .. online \subseteq Slots
      BY <2>1
    <3>2. f \in [1 .. online -> on]
      BY <1>4, <1>5, <2>1, <3>1
    <3>3. \A v \in on : \E k \in 1 .. online : f[k] = v
      <4>1. ASSUME NEW v \in on PROVE \E k \in 1 .. online : f[k] = v
        <5>1. PICK k \in Slots : slot[k] = v
          BY <1>4
        <5>2. v # NoVf
          BY MboxAssumption
        <5>3. k \in 1 .. online
          BY <2>1, <5>1, <5>2
        <5>4. QED BY <5>1, <5>3
      <4>2. QED BY <4>1
    <3>4. f \in Surjection(1 .. online, on)
      BY <3>2, <3>3 DEF Surjection
    <3>5. f \in Injection(1 .. online, on)
      BY <1>4, <1>5, <2>2, <3>4, FS_Surjection, FS_SurjSameCardinalityImpliesInj
    <3>6. i \in 1 .. online /\ j \in 1 .. online /\ f[i] = f[j]
      BY <2>1, <2>3
    <3>7. QED BY <3>5, <3>6 DEF Injection, IsInjective
  <2>4. QED BY <1>4, <2>1, <2>2, <2>3 DEF Slotted
<1>10. QED BY <1>6, <1>7, <1>8, <1>9 DEF MboxInv, KnownInv

LEMMA MboxStillInv ==
  ASSUME UNCHANGED <<todo, pend, out, work, vst, waits, sent, wrong, slot, online,
                     expired, lost, orphan>>, MboxInv
  PROVE  MboxInv' /\ (KnownInv => KnownInv')
<1>1. MboxType' /\ Addressed' /\ Asleep' /\ Listed'
  BY DEF MboxInv, MboxType, Addressed, Asleep, Listed
<1>2. KnownInv => KnownInv'
  BY DEF KnownInv, Sound, Slotted, Session, Line, Greeting, Online, HasSlot, Greets, Unread,
         InReg, ToSend, Unsent
<1>3. QED BY <1>1, <1>2 DEF MboxInv

LEMMA MboxTypeStep ==
  ASSUME MboxInv, [MboxNext]_mboxVars
  PROVE  MboxType'
<1>1. MboxType /\ Addressed
  BY DEF MboxInv
<1>2. ASSUME NEW s \in Snd,
             MboxOpen(s) \/ MboxBye(s) \/ MboxExpire(s) \/ \E op \in ReqOps : MboxRequest(s, op)
      PROVE  MboxType'
  BY <1>1, <1>2, SenderType
<1>3. ASSUME NEW v \in VF, MboxStop(v) PROVE MboxType'
  BY <1>1, <1>3 DEF MboxStop, MboxType, mboxLists, mboxPf, mboxHist
<1>4. ASSUME NEW e \in End, MboxWorker(e) PROVE MboxType'
  BY <1>1, <1>4, WorkerType
<1>5. ASSUME NEW e \in End, MboxTimer(e) PROVE MboxType'
  BY <1>1, <1>5 DEF MboxTimer, MboxType, mboxLists, mboxUser, mboxPf, mboxHist
<1>6. ASSUME MboxQuiet \/ UNCHANGED mboxVars PROVE MboxType'
  BY <1>1, <1>6 DEF MboxQuiet, MboxType, mboxVars, mboxLists, mboxWork, mboxUser, mboxPf, mboxHist
<1>7. QED BY <1>2, <1>3, <1>4, <1>5, <1>6 DEF MboxNext

LEMMA MboxInvStep ==
  ASSUME MboxInv, [MboxNext]_mboxVars
  PROVE  MboxInv' /\ (KnownInv => KnownInv')
<1>1. MboxType /\ Addressed /\ Asleep /\ Listed /\ MboxType'
  BY MboxTypeStep DEF MboxInv
<1>2. CASE Effect
  BY <1>1, <1>2, AddressedStep, AsleepStep, ListedStep, KnownStep DEF MboxInv
<1>3. CASE UNCHANGED <<todo, pend, out, work, vst, waits, sent, wrong, slot, online,
                       expired, lost, orphan>>
  BY <1>3, MboxStillInv
<1>4. QED BY <1>1, <1>2, <1>3, StepEffect

LEMMA MboxInvAlways == MboxSpec => [](MboxInv /\ KnownInv)
<1>1. MboxInit => MboxInv /\ KnownInv
  BY MboxInitInv
<1>2. MboxInv /\ KnownInv /\ [MboxNext]_mboxVars => (MboxInv /\ KnownInv)'
  BY MboxInvStep
<1>3. QED BY <1>1, <1>2, PTL DEF MboxSpec

(* The parent's count is the number of slots taken, nobody has two, and a   *)
(* function that is open has one (vf_count_online, vf_info[].func_id of     *)
(* qdma_sriov.c), unless a hello timed out or a message was given up.       *)
THEOREM ParentKnows == MboxSpec => []ParentKnowsOnline
<1>1. ASSUME MboxInv, KnownInv PROVE ParentKnowsOnline
  <2>1. ASSUME Sound, NEW v \in VF, vst[v] = "on" PROVE \E i \in Slots : slot[i] = v
    BY <1>1, <2>1 DEF KnownInv, Session, Online, HasSlot
  <2>2. ASSUME Sound
        PROVE  /\ online = Cardinality({i \in Slots : slot[i] # NoVf})
               /\ \A i, j \in Slots : slot[i] = slot[j] /\ i # j => slot[i] = NoVf
    BY <1>1, <2>2 DEF KnownInv, Slotted
  <2>3. QED BY <2>1, <2>2 DEF ParentKnowsOnline, Sound
<1>2. QED BY <1>1, MboxInvAlways, PTL

-----------------------------------------------------------------------------
(* The answers on their way and the requests that wait for them.           *)

LEMMA IdFacts ==
  ASSUME NEW m \in Message
  PROVE  Id(m) \in IdSet /\ Id(m).op = m.op /\ Id(m).snd = m.snd /\ Id(m).n = m.n
BY DEF Id, IdSet, Message, AllOps

LEMMA IdSetFacts ==
  ASSUME NEW x \in IdSet
  PROVE  x.snd \in Snd /\ x.n \in Nat /\ x.op \in AllOps
BY DEF IdSet

\* Nothing joins the flight of w, and nobody overtakes.
FliesOn(w) ==
    /\ \A x \in IdSet : Flies(w, x)' => Flies(w, x)
    /\ \A x, y \in IdSet : FliesBefore(w, x, y)' => FliesBefore(w, x, y)

\* Nothing joins the requests of w that wait, and nobody overtakes.
AwaitsOn(w) ==
    /\ \A x \in IdSet : Awaited(w, x)' => Awaited(w, x)
    /\ \A x, y \in IdSet : AwaitedBefore(w, x, y)' => AwaitedBefore(w, x, y)

FliesSame(w)  == FliesOn(w) /\ \A x \in IdSet : Flies(w, x) => Flies(w, x)'
AwaitsSame(w) == AwaitsOn(w) /\ \A x \in IdSet : Awaited(w, x) => Awaited(w, x)'

\* No request joins the list of w that is to be sent, but a new one.
UnsentOf(w) ==
    \A k \in Unsent(w)', x \in IdSet : todo'[w][k].wait /\ Id(todo'[w][k]) = x =>
       \/ \E j \in Unsent(w) : todo[w][j].wait /\ Id(todo[w][j]) = x
       \/ sent[x.snd] <= x.n /\ x.n < sent'[x.snd]

LEMMA FlightMap ==
  ASSUME NEW w \in VF, NEW f \in [Nat -> Nat],
         \A i \in Nat, x \in IdSet : InFlight(w, i, x)' => InFlight(w, f[i], x),
         \A i, j \in Nat, x, y \in IdSet :
            i < j /\ InFlight(w, i, x)' /\ InFlight(w, j, y)' => f[i] < f[j]
  PROVE  FliesOn(w)
<1> HIDE DEF InFlight
<1>1. ASSUME NEW x \in IdSet, Flies(w, x)' PROVE Flies(w, x)
  <2>1. PICK i \in Nat : InFlight(w, i, x)'
    BY <1>1 DEF Flies
  <2>2. QED BY <2>1 DEF Flies
<1>2. ASSUME NEW x \in IdSet, NEW y \in IdSet, FliesBefore(w, x, y)' PROVE FliesBefore(w, x, y)
  <2>1. PICK i \in Nat, j \in Nat : i < j /\ InFlight(w, i, x)' /\ InFlight(w, j, y)'
    BY <1>2 DEF FliesBefore
  <2>2. f[i] < f[j] /\ InFlight(w, f[i], x) /\ InFlight(w, f[j], y) /\ f[i] \in Nat /\ f[j] \in Nat
    BY <2>1
  <2>3. QED BY <2>2 DEF FliesBefore
<1>3. QED BY <1>1, <1>2 DEF FliesOn

LEMMA AwaitMap ==
  ASSUME NEW w \in VF, NEW f \in [Nat -> Nat],
         \A i \in Nat, x \in IdSet : InPend(w, i, x)' => InPend(w, f[i], x),
         \A i, j \in Nat, x, y \in IdSet :
            i < j /\ InPend(w, i, x)' /\ InPend(w, j, y)' => f[i] < f[j]
  PROVE  AwaitsOn(w)
<1> HIDE DEF InPend
<1>1. ASSUME NEW x \in IdSet, Awaited(w, x)' PROVE Awaited(w, x)
  <2>1. PICK i \in Nat : InPend(w, i, x)'
    BY <1>1 DEF Awaited
  <2>2. QED BY <2>1 DEF Awaited
<1>2. ASSUME NEW x \in IdSet, NEW y \in IdSet, AwaitedBefore(w, x, y)' PROVE AwaitedBefore(w, x, y)
  <2>1. PICK i \in Nat, j \in Nat : i < j /\ InPend(w, i, x)' /\ InPend(w, j, y)'
    BY <1>2 DEF AwaitedBefore
  <2>2. f[i] < f[j] /\ InPend(w, f[i], x) /\ InPend(w, f[j], y) /\ f[i] \in Nat /\ f[j] \in Nat
    BY <2>1
  <2>3. QED BY <2>2 DEF AwaitedBefore
<1>3. QED BY <1>1, <1>2 DEF AwaitsOn

LEMMA NumberedKeeps ==
  ASSUME MboxType, MboxType', NEW w \in VF, Numbered(w), FliesOn(w), UnsentOf(w),
         \A s \in Snd : sent[s] <= sent'[s]
  PROVE  Numbered(w)'
<1> HIDE DEF Flies, FliesBefore
<1>1. \A x \in IdSet : ~FliesBefore(w, x, x)'
  BY DEF Numbered, FliesOn
<1>2. ASSUME NEW x \in IdSet, Flies(w, x)' PROVE x.n < sent'[x.snd]
  BY <1>2, IdSetFacts DEF Numbered, FliesOn, MboxType
<1>3. ASSUME NEW k \in Unsent(w)', NEW x \in IdSet, todo'[w][k].wait, Id(todo'[w][k]) = x
      PROVE  ~Flies(w, x)' /\ x.n < sent'[x.snd]
  <2>1. CASE \E j \in Unsent(w) : todo[w][j].wait /\ Id(todo[w][j]) = x
    <3>1. ~Flies(w, x) /\ x.n < sent[x.snd]
      BY <2>1 DEF Numbered
    <3>2. ~Flies(w, x)'
      BY <3>1 DEF FliesOn
    <3>3. QED BY <3>1, <3>2, IdSetFacts DEF MboxType
  <2>2. CASE sent[x.snd] <= x.n /\ x.n < sent'[x.snd]
    <3>1. ~Flies(w, x)
      BY <2>2, IdSetFacts DEF Numbered, MboxType
    <3>2. ~Flies(w, x)'
      BY <3>1 DEF FliesOn
    <3>3. QED BY <2>2, <3>2
  <2>3. QED BY <1>3, <2>1, <2>2 DEF UnsentOf
<1>4. ASSUME NEW k \in Unsent(w)', NEW x \in IdSet
      PROVE  todo'[w][k].wait /\ Id(todo'[w][k]) = x => ~Flies(w, x)' /\ x.n < sent'[x.snd]
  BY <1>3
<1> DEFINE Fresh == \A k \in Unsent(w), x \in IdSet : todo[w][k].wait /\ Id(todo[w][k]) = x =>
                       ~Flies(w, x) /\ x.n < sent[x.snd]
<1>5. Fresh'
  BY <1>4
<1>6. \A x \in IdSet : Flies(w, x)' => x.n < sent'[x.snd]
  BY <1>2
<1>7. QED BY <1>1, <1>5, <1>6 DEF Numbered

LEMMA EnoughKeeps ==
  ASSUME NEW w \in VF, Enough(w), FliesOn(w), expired[w] \subseteq expired'[w],
         \A x \in IdSet : x.op \notin expired'[w] => (Awaited(w, x)' <=> Awaited(w, x))
  PROVE  Enough(w)'
<1> HIDE DEF Flies, Awaited
<1> SUFFICES ASSUME NEW op \in AllOps \ expired'[w]
             PROVE  /\ IsFiniteSet(FlyOf(w, op)') /\ IsFiniteSet(AwaitOf(w, op)')
                    /\ Cardinality(FlyOf(w, op)') <= Cardinality(AwaitOf(w, op)')
  BY DEF Enough
<1>1. /\ IsFiniteSet(FlyOf(w, op)) /\ IsFiniteSet(AwaitOf(w, op))
      /\ Cardinality(FlyOf(w, op)) <= Cardinality(AwaitOf(w, op))
  BY DEF Enough
<1>2. FlyOf(w, op)' \subseteq FlyOf(w, op)
  BY DEF FlyOf, FliesOn
<1>3. AwaitOf(w, op)' = AwaitOf(w, op)
  BY DEF AwaitOf
<1> HIDE DEF FlyOf, AwaitOf
<1>4. IsFiniteSet(FlyOf(w, op)') /\ Cardinality(FlyOf(w, op)') <= Cardinality(FlyOf(w, op))
  BY <1>1, <1>2, FS_Subset
<1>5. /\ Cardinality(FlyOf(w, op)') \in Nat /\ Cardinality(FlyOf(w, op)) \in Nat
      /\ Cardinality(AwaitOf(w, op)) \in Nat
  BY <1>1, <1>4, FS_CardinalityType
<1>6. Cardinality(AwaitOf(w, op)') = Cardinality(AwaitOf(w, op)) /\ IsFiniteSet(AwaitOf(w, op)')
  BY <1>1, <1>3
<1>7. QED BY <1>1, <1>4, <1>5, <1>6

LEMMA OrderKeeps ==
  ASSUME NEW w \in VF, InOrder(w), FliesOn(w), AwaitsOn(w), expired[w] \subseteq expired'[w],
         lost => lost',
         ~lost' => \A x \in IdSet : x.op \notin expired'[w] =>
            (Flies(w, x)' <=> Flies(w, x)) /\ (Awaited(w, x)' <=> Awaited(w, x))
  PROVE  InOrder(w)'
<1> HIDE DEF Flies, Awaited, FliesBefore, AwaitedBefore
<1> QED BY DEF InOrder, FliesOn, AwaitsOn

\* Nothing moves between w and its parent.
FlightStays(w) == FliesSame(w) /\ AwaitsSame(w) /\ UnsentOf(w)

LEMMA FlightKeeps ==
  ASSUME MboxType, MboxType', NEW w \in VF, FlightAt(w), FlightStays(w),
         \A s \in Snd : sent[s] <= sent'[s], expired'[w] = expired[w], lost => lost'
  PROVE  FlightAt(w)'
<1> HIDE DEF Flies, Awaited, FliesBefore, AwaitedBefore
<1>1. Numbered(w)'
  BY NumberedKeeps DEF FlightAt, FlightStays, FliesSame, AwaitsSame
<1>2. \A x \in IdSet : (Flies(w, x)' <=> Flies(w, x)) /\ (Awaited(w, x)' <=> Awaited(w, x))
  BY DEF FlightStays, FliesSame, AwaitsSame, FliesOn, AwaitsOn
<1>3. Enough(w)'
  BY <1>2, EnoughKeeps DEF FlightAt, FlightStays, FliesSame, AwaitsSame
<1>4. InOrder(w)'
  BY <1>2, OrderKeeps DEF FlightAt, FlightStays, FliesSame, AwaitsSame
<1>5. QED BY <1>1, <1>3, <1>4 DEF FlightAt

LEMMA FliesUntouched ==
  ASSUME MboxType, NEW w \in VF, Relabels(PF), out'[w] = out[w],
         out'[PF] = out[PF] \/ (out'[PF] = NoMsg /\ out[PF] # NoMsg /\ out[PF].vf # w),
         work'[PF] = "sent" <=> work[PF] = "sent"
  PROVE  FliesSame(w)
<1>1. Unsent(PF)' = Unsent(PF) /\ Len(todo'[PF]) = Len(todo[PF])
  BY DEF Unsent, Relabels
<1>2. \A k \in Unsent(PF) : todo'[PF][k].vf = todo[PF][k].vf /\ Id(todo'[PF][k]) = Id(todo[PF][k])
  BY UnsentPlaces, EndFacts DEF Relabels, Id
<1>3. \A i \in Nat, x \in IdSet : InFlight(w, i, x)' <=> InFlight(w, i, x)
  BY <1>1, <1>2 DEF InFlight
<1>4. QED BY <1>3 DEF FliesSame, FliesOn, Flies, FliesBefore

LEMMA AwaitsUntouched ==
  ASSUME NEW w \in VF, pend'[w] = pend[w], work'[w] = "sent" <=> work[w] = "sent",
         work[w] = "sent" => /\ todo'[w][1].wait = todo[w][1].wait
                             /\ Id(todo'[w][1]) = Id(todo[w][1])
  PROVE  AwaitsSame(w)
<1>1. \A i \in Nat, x \in IdSet : InPend(w, i, x)' <=> InPend(w, i, x)
  BY DEF InPend
<1>2. QED BY <1>1 DEF AwaitsSame, AwaitsOn, Awaited, AwaitedBefore

LEMMA UnsentUntouched ==
  ASSUME MboxType, NEW w \in VF, Relabels(w), work'[w] = "sent" => work[w] = "sent" ,
         work[w] = "sent" => work'[w] = "sent"
  PROVE  UnsentOf(w)
<1>1. Unsent(w)' = Unsent(w)
  BY DEF Unsent, Relabels
<1>2. \A k \in Unsent(w) : todo'[w][k].wait = todo[w][k].wait /\ Id(todo'[w][k]) = Id(todo[w][k])
  BY UnsentPlaces, EndFacts DEF Relabels, Id
<1>3. QED BY <1>1, <1>2 DEF UnsentOf

LEMMA FliesSends ==
  ASSUME MboxType, NEW w \in VF, Sends(PF)
  PROVE  FliesSame(w)
<1> DEFINE f == [i \in Nat |-> IF i = 0 THEN 1 ELSE i]
<1>1. /\ out[PF] = NoMsg /\ out'[PF] = todo[PF][1] /\ todo' = todo /\ out'[w] = out[w]
      /\ work[PF] # "sent" /\ work'[PF] = "sent" /\ Len(todo[PF]) \in Nat \ {0}
      /\ todo[PF][1] # NoMsg
  BY Lens, EndFacts DEF Sends, OthersKeep
<1>2. Unsent(PF) = 1 .. Len(todo[PF]) /\ Unsent(PF)' = 2 .. Len(todo[PF])
  BY <1>1 DEF Unsent
<1>3. \A x \in IdSet : InFlight(w, 0, x)' => InFlight(w, 1, x)
  BY <1>1, <1>2 DEF InFlight
<1>4. \A i \in Nat, x \in IdSet : InFlight(w, i, x)' /\ i # 0 => i # 1 /\ InFlight(w, i, x)
  BY <1>1, <1>2 DEF InFlight
<1>5. \A i \in Nat, x \in IdSet : InFlight(w, i, x) => i # 0
  BY <1>1, <1>2 DEF InFlight
<1>6. \A x \in IdSet : InFlight(w, 1, x) => InFlight(w, 0, x)'
  BY <1>1, <1>2 DEF InFlight
<1>7. \A i \in Nat, x \in IdSet : InFlight(w, i, x) /\ i # 0 /\ i # 1 => InFlight(w, i, x)'
  BY <1>1, <1>2 DEF InFlight
<1> HIDE DEF InFlight
<1>8. FliesOn(w)
  <2>1. f \in [Nat -> Nat]
    OBVIOUS
  <2>2. \A i \in Nat, x \in IdSet : InFlight(w, i, x)' => InFlight(w, f[i], x)
    BY <1>3, <1>4
  <2>3. \A i, j \in Nat, x, y \in IdSet :
           i < j /\ InFlight(w, i, x)' /\ InFlight(w, j, y)' => f[i] < f[j]
    BY <1>4
  <2> HIDE DEF f
  <2>4. QED BY <2>1, <2>2, <2>3, FlightMap
<1>9. ASSUME NEW x \in IdSet, Flies(w, x) PROVE Flies(w, x)'
  BY <1>5, <1>6, <1>7, <1>9 DEF Flies
<1>10. QED BY <1>8, <1>9 DEF FliesSame

LEMMA FliesLess ==
  ASSUME MboxType, NEW w \in VF, HasSent(PF) \/ GivesUp(PF)
  PROVE  FliesOn(w) /\ (HasSent(PF) => FliesSame(w))
<1> DEFINE f == [i \in Nat |-> IF i = 0 THEN 0 ELSE i + 1]
<1>1. /\ out' = out /\ Len(todo[PF]) \in Nat \ {0} /\ Len(todo'[PF]) = Len(todo[PF]) - 1
      /\ \A k \in 1 .. Len(todo[PF]) - 1 : todo'[PF][k] = todo[PF][k + 1]
      /\ work'[PF] # "sent"
      /\ (work[PF] = "sent" <=> HasSent(PF))
  <2>1. ASSUME HasSent(PF) PROVE work[PF] = "sent" /\ work'[PF] # "sent" /\ out' = out
                                /\ Omits(todo'[PF], todo[PF], 1) /\ todo[PF] # <<>>
    BY <2>1 DEF HasSent
  <2>2. ASSUME GivesUp(PF) PROVE work[PF] # "sent" /\ work'[PF] # "sent" /\ out' = out
                                /\ Omits(todo'[PF], todo[PF], 1) /\ todo[PF] # <<>>
    BY <2>2 DEF GivesUp, RestsAt
  <2>3. Len(todo[PF]) \in Nat \ {0}
    BY <2>1, <2>2, Lens, EndFacts
  <2>4. QED BY <2>1, <2>2, <2>3 DEF Omits
<1>2. /\ Unsent(PF)' = 1 .. Len(todo[PF]) - 1
      /\ HasSent(PF) => Unsent(PF) = 2 .. Len(todo[PF])
      /\ \A k \in 2 .. Len(todo[PF]) : k \in Unsent(PF)
  BY <1>1 DEF Unsent
<1>3. \A x \in IdSet : InFlight(w, 0, x)' <=> InFlight(w, 0, x)
  BY <1>1, <1>2 DEF InFlight, Unsent
<1>4. ASSUME NEW i \in Nat \ {0}, NEW x \in IdSet, InFlight(w, i, x)'
      PROVE  InFlight(w, i + 1, x)
  BY <1>1, <1>2, <1>4 DEF InFlight
<1>5. ASSUME NEW i \in Nat \ {0}, NEW x \in IdSet, InFlight(w, i, x), HasSent(PF)
      PROVE  i # 1 /\ InFlight(w, i - 1, x)'
  <2>1. i # 1
    BY <1>1, <1>2, <1>5 DEF InFlight
  <2>2. CASE i \in 2 .. Len(todo[PF]) /\ todo[PF][i].vf = w /\ Id(todo[PF][i]) = x
    <3>1. i - 1 \in 1 .. Len(todo[PF]) - 1 /\ (i - 1) + 1 = i
      BY <1>1, <2>2
    <3>2. todo'[PF][i - 1] = todo[PF][i]
      BY <1>1, <3>1
    <3>3. QED BY <1>2, <2>1, <2>2, <3>1, <3>2 DEF InFlight
  <2>3. CASE i = Len(todo[PF]) + 1 /\ out[w] # NoMsg /\ out[w].op # "BYE" /\ Id(out[w]) = x
    BY <1>1, <2>1, <2>3 DEF InFlight
  <2>4. QED BY <1>1, <1>2, <1>5, <2>2, <2>3 DEF InFlight
<1> HIDE DEF InFlight
<1>6. FliesOn(w)
  <2>1. f \in [Nat -> Nat]
    OBVIOUS
  <2>2. \A i \in Nat, x \in IdSet : InFlight(w, i, x)' => InFlight(w, f[i], x)
    BY <1>3, <1>4
  <2>3. \A i, j \in Nat, x, y \in IdSet :
           i < j /\ InFlight(w, i, x)' /\ InFlight(w, j, y)' => f[i] < f[j]
    OBVIOUS
  <2> HIDE DEF f
  <2>4. QED BY <2>1, <2>2, <2>3, FlightMap
<1>7. ASSUME NEW x \in IdSet, Flies(w, x), HasSent(PF) PROVE Flies(w, x)'
  <2>1. PICK i \in Nat : InFlight(w, i, x)
    BY <1>7 DEF Flies
  <2>2. CASE i = 0
    BY <1>3, <2>1, <2>2 DEF Flies
  <2>3. CASE i # 0
    <3>1. i # 1 /\ InFlight(w, i - 1, x)' /\ i - 1 \in Nat
      BY <1>5, <1>7, <2>1, <2>3
    <3>2. QED BY <3>1 DEF Flies
  <2>4. QED BY <2>2, <2>3
<1>8. QED BY <1>6, <1>7 DEF FliesSame

\* An answer takes the place that its request had.
LEMMA FliesTakes ==
  ASSUME MboxType, NEW w \in VF, NEW v \in VF, NEW m \in Message, TakesRequest(v, m)
  PROVE  FliesSame(w)
<1>0. PICK L \in Nat : L = Len(todo[PF])
  BY Lens, EndFacts
<1>1. /\ out'[PF] = out[PF] /\ work[PF] # "sent" /\ work'[PF] # "sent" /\ L \in Nat
      /\ out'[v] = NoMsg /\ (w # v => out'[w] = out[w]) /\ out[v] = m /\ m # NoMsg /\ m.vf = v
  BY Lens, EndFacts DEF TakesRequest, RestsAt, OthersKeep
<1>2. CASE m.op = "BYE"
  <2>1. todo' = todo
    BY <1>2 DEF TakesRequest
  <2>2. \A i \in Nat, x \in IdSet : InFlight(w, i, x)' <=> InFlight(w, i, x)
    BY <1>0, <1>1, <1>2, <2>1 DEF InFlight, Unsent
  <2>3. QED BY <2>2 DEF FliesSame, FliesOn, Flies, FliesBefore
<1>3. CASE m.op # "BYE"
  <2> DEFINE a == [m EXCEPT !.rsp = TRUE, !.wait = FALSE, !.retry = MaxRetry]
  <2>1. a.vf = v /\ Id(a) = Id(m)
    BY <1>1 DEF Message, Id
  <2>2. Adds(todo'[PF], todo[PF], a)
    BY <1>3 DEF TakesRequest
  <2> HIDE DEF a
  <2>3. Len(todo'[PF]) = L + 1 /\ todo'[PF][L + 1] = a /\ \A k \in 1 .. L : todo'[PF][k] = todo[PF][k]
    BY <1>0, <2>2 DEF Adds
  <2>4. Unsent(PF) = 1 .. L /\ Unsent(PF)' = 1 .. L + 1
    BY <1>0, <1>1, <2>3 DEF Unsent
  <2>5. Unsent(PF)' = Unsent(PF) \cup {L + 1} /\ L + 1 \notin Unsent(PF) /\ L + 2 \notin Unsent(PF)'
    BY <1>1, <2>4
  <2>6. CASE w = v
    <3>1. \A i \in Nat, x \in IdSet : InFlight(w, i, x)' <=> InFlight(w, i, x)
      BY <1>0, <1>1, <1>3, <2>1, <2>3, <2>4, <2>5, <2>6 DEF InFlight
    <3>2. QED BY <3>1 DEF FliesSame, FliesOn, Flies, FliesBefore
  <2>7. CASE w # v
    <3> DEFINE f == [i \in Nat |-> IF i = L + 2 THEN L + 1 ELSE i]
    <3>1. \A x \in IdSet : InFlight(w, L + 2, x)' <=> InFlight(w, L + 1, x)
      BY <1>0, <1>1, <2>3, <2>4, <2>5, <2>7 DEF InFlight
    <3>2. \A i \in Nat, x \in IdSet : InFlight(w, i, x)' /\ i # L + 2 => i <= L /\ InFlight(w, i, x)
      BY <1>0, <1>1, <2>1, <2>3, <2>4, <2>5, <2>7 DEF InFlight
    <3>3. \A i \in Nat, x \in IdSet : InFlight(w, i, x) /\ i # L + 1 => InFlight(w, i, x)'
      BY <1>0, <1>1, <2>1, <2>3, <2>4, <2>5, <2>7 DEF InFlight
    <3>4. L \in Nat
      OBVIOUS
    <3> HIDE DEF InFlight
    <3>5. FliesOn(w)
      <4>1. f \in [Nat -> Nat]
        BY <3>4
      <4>2. \A i \in Nat, x \in IdSet : InFlight(w, i, x)' => InFlight(w, f[i], x)
        BY <3>1, <3>2, <3>4
      <4>3. \A i, j \in Nat, x, y \in IdSet :
               i < j /\ InFlight(w, i, x)' /\ InFlight(w, j, y)' => f[i] < f[j]
        BY <3>2, <3>4
      <4> HIDE DEF f
      <4>4. QED BY <4>1, <4>2, <4>3, FlightMap
    <3>6. ASSUME NEW x \in IdSet, Flies(w, x) PROVE Flies(w, x)'
      <4>1. PICK i \in Nat : InFlight(w, i, x)
        BY <3>6 DEF Flies
      <4>2. CASE i = L + 1
        BY <3>1, <3>4, <4>1, <4>2 DEF Flies
      <4>3. CASE i # L + 1
        BY <3>3, <4>1, <4>3 DEF Flies
      <4>4. QED BY <4>2, <4>3
    <3>7. QED BY <3>5, <3>6 DEF FliesSame
  <2>8. QED BY <2>6, <2>7
<1>4. QED BY <1>2, <1>3

\* A request joins those that wait at the place it had before.
LEMMA AwaitsSent ==
  ASSUME MboxType, NEW w \in VF, HasSent(w)
  PROVE  AwaitsSame(w) /\ UnsentOf(w)
<1>1. /\ w \in End /\ Len(todo[w]) \in Nat \ {0} /\ Len(pend[w]) \in Nat
      /\ work[w] = "sent" /\ work'[w] # "sent"
      /\ Len(todo'[w]) = Len(todo[w]) - 1
      /\ \A k \in 1 .. Len(todo'[w]) : k + 1 \in 2 .. Len(todo[w]) /\ todo'[w][k] = todo[w][k + 1]
  BY Lens, EndFacts DEF HasSent, Omits
<1>2. \A i \in Nat, x \in IdSet : InPend(w, i, x)' <=> InPend(w, i, x)
  <2>1. CASE todo[w][1].wait
    <3>1. /\ Len(pend'[w]) = Len(pend[w]) + 1 /\ pend'[w][Len(pend[w]) + 1] = todo[w][1]
          /\ \A k \in 1 .. Len(pend[w]) : pend'[w][k] = pend[w][k]
      BY <2>1 DEF HasSent, Adds
    <3>2. QED BY <1>1, <2>1, <3>1 DEF InPend
  <2>2. CASE ~todo[w][1].wait
    <3>1. pend' = pend
      BY <2>2 DEF HasSent
    <3>2. QED BY <1>1, <2>2, <3>1 DEF InPend
  <2>3. QED BY <2>1, <2>2
<1>3. AwaitsSame(w)
  BY <1>2 DEF AwaitsSame, AwaitsOn, Awaited, AwaitedBefore
<1>4. Unsent(w) = 2 .. Len(todo[w]) /\ Unsent(w)' = 1 .. Len(todo'[w])
  BY <1>1 DEF Unsent
<1>5. ASSUME NEW k \in Unsent(w)', todo'[w][k].wait
      PROVE  \E j \in Unsent(w) : todo[w][j].wait /\ Id(todo'[w][k]) = Id(todo[w][j])
  <2>1. k + 1 \in Unsent(w) /\ todo'[w][k] = todo[w][k + 1]
    BY <1>1, <1>4
  <2>2. QED BY <1>5, <2>1
<1>6. QED BY <1>3, <1>5 DEF UnsentOf

LEMMA UnsentGivesUp ==
  ASSUME MboxType, NEW w \in VF, GivesUp(w)
  PROVE  UnsentOf(w)
<1>1. /\ w \in End /\ Len(todo[w]) \in Nat \ {0} /\ work[w] # "sent" /\ work'[w] # "sent"
      /\ Len(todo'[w]) = Len(todo[w]) - 1
      /\ \A k \in 1 .. Len(todo'[w]) : k + 1 \in 1 .. Len(todo[w]) /\ todo'[w][k] = todo[w][k + 1]
  BY Lens, EndFacts DEF GivesUp, RestsAt, Omits
<1>2. Unsent(w) = 1 .. Len(todo[w]) /\ Unsent(w)' = 1 .. Len(todo'[w])
  BY <1>1 DEF Unsent
<1>3. ASSUME NEW k \in Unsent(w)', todo'[w][k].wait
      PROVE  \E j \in Unsent(w) : todo[w][j].wait /\ Id(todo'[w][k]) = Id(todo[w][j])
  <2>1. k + 1 \in Unsent(w) /\ todo'[w][k] = todo[w][k + 1]
    BY <1>1, <1>2
  <2>2. QED BY <1>3, <2>1
<1>4. QED BY <1>3 DEF UnsentOf

LEMMA UnsentSends ==
  ASSUME MboxType, NEW w \in VF, Sends(w)
  PROVE  UnsentOf(w)
<1>1. Unsent(w) = 1 .. Len(todo[w]) /\ Unsent(w)' = 2 .. Len(todo[w]) /\ todo' = todo
  BY DEF Sends, Unsent
<1>2. Len(todo[w]) \in Nat
  BY Lens, EndFacts
<1>3. Unsent(w)' \subseteq Unsent(w)
  BY <1>1, <1>2
<1>4. QED BY <1>1, <1>3 DEF UnsentOf

LEMMA RelabelsSame ==
  ASSUME MboxType, NEW e \in End, todo'[e] = todo[e]
  PROVE  Relabels(e)
BY DEF Relabels

\* A request is sent: it is the last on its way, and the last that waits.
LEMMA FlightSends ==
  ASSUME MboxType, MboxType', Addressed, Asleep, Listed, NEW v \in VF, FlightAt(v), Sends(v)
  PROVE  FlightAt(v)'
<1>1. /\ v \in End /\ v # PF /\ Len(todo[v]) \in Nat \ {0} /\ todo[v][1] \in Message
      /\ todo[v][1] # NoMsg /\ Asked(todo[v][1], v)
  BY Lens, EndFacts DEF Sends, Addressed
<1>2. /\ work[v] # "sent" /\ work'[v] = "sent" /\ out[v] = NoMsg /\ out'[v] = todo[v][1]
      /\ todo' = todo /\ pend' = pend /\ sent' = sent /\ expired' = expired /\ lost' = lost
      /\ out'[PF] = out[PF] /\ work'[PF] = work[PF]
  BY <1>1, EndFacts DEF Sends, KeepsUser, KeepsHist, OthersKeep
<1>3. PICK L \in Nat : L = Len(todo[PF])
  BY Lens, EndFacts
<1>4. PICK M \in Nat : M = Len(pend[v])
  BY Lens
<1>5. PICK z \in IdSet : z = Id(todo[v][1])
  BY <1>1, IdFacts
<1>6. Unsent(v) = 1 .. Len(todo[v]) /\ Unsent(v)' = 2 .. Len(todo[v]) /\ Unsent(PF)' = Unsent(PF)
      /\ \A i \in Unsent(PF) : i \in Nat /\ i <= L
  BY <1>2, <1>3 DEF Unsent
<1>7. CASE ~todo[v][1].wait
  <2>1. todo[v][1].op = "BYE"
    BY <1>1, <1>7 DEF Asked
  <2>2. \A i \in Nat, x \in IdSet : InFlight(v, i, x)' <=> InFlight(v, i, x)
    BY <1>2, <1>6, <2>1 DEF InFlight
  <2>3. \A i \in Nat, x \in IdSet : InPend(v, i, x)' <=> InPend(v, i, x)
    BY <1>2, <1>7 DEF InPend
  <2>4. FliesSame(v)
    BY <2>2 DEF FliesSame, FliesOn, Flies, FliesBefore
  <2>5. AwaitsSame(v)
    BY <2>3 DEF AwaitsSame, AwaitsOn, Awaited, AwaitedBefore
  <2>6. \A s \in Snd : sent[s] <= sent'[s]
    BY <1>2 DEF MboxType
  <2>7. QED BY <1>2, <2>4, <2>5, <2>6, UnsentSends, FlightKeeps DEF FlightStays
<1>8. CASE todo[v][1].wait
  <2>1. todo[v][1].op # "BYE"
    BY <1>1, <1>8 DEF Asked
  <2>2. /\ \A i \in Nat, x \in IdSet : InFlight(v, i, x)' <=> InFlight(v, i, x) \/ (i = L + 1 /\ x = z)
        /\ \A i \in Nat, x \in IdSet : InFlight(v, i, x) => i < L + 1
    BY <1>1, <1>2, <1>3, <1>5, <1>6, <2>1 DEF InFlight
  <2>3. /\ \A i \in Nat, x \in IdSet : InPend(v, i, x)' <=> InPend(v, i, x) \/ (i = M + 1 /\ x = z)
        /\ \A i \in Nat, x \in IdSet : InPend(v, i, x) => i < M + 1
    BY <1>1, <1>2, <1>4, <1>5, <1>8 DEF InPend
  <2>4. Numbered(v) /\ Enough(v) /\ InOrder(v)
    BY DEF FlightAt
  <2>5. ~Flies(v, z) /\ z.n < sent[z.snd]
    BY <1>1, <1>5, <1>6, <1>8, <2>4 DEF Numbered
  <2>6. ~Awaited(v, z)
    <3>1. \A k \in 1 .. Len(pend[v]) : pend[v][k].snd # todo[v][1].snd
      BY <1>1, <1>8 DEF Listed
    <3>2. \A k \in 1 .. Len(pend[v]) : pend[v][k] \in Message
      BY Lens
    <3>3. \A k \in 1 .. Len(pend[v]) : Id(pend[v][k]) # z
      BY <1>1, <1>5, <3>1, <3>2, IdFacts
    <3>4. QED BY <1>2, <3>3 DEF Awaited, InPend
  <2>7. ASSUME NEW k \in Unsent(v)', NEW x \in IdSet, todo'[v][k].wait, Id(todo'[v][k]) = x
        PROVE  x # z /\ ~Flies(v, x) /\ x.n < sent[x.snd]
    <3>1. k \in 2 .. Len(todo[v]) /\ 1 \in 1 .. Len(todo[v]) /\ k \in 1 .. Len(todo[v]) /\ todo'[v][k] = todo[v][k]
      BY <1>1, <1>2, <1>6
    <3>2. todo[v][k].snd # todo[v][1].snd
      BY <1>1, <1>8, <2>7, <3>1 DEF Listed
    <3>3. x # z
      BY <1>1, <1>5, <2>7, <3>1, <3>2, IdFacts, Lens
    <3>4. QED BY <1>6, <2>4, <2>7, <3>1, <3>3 DEF Numbered
  <2> HIDE DEF InFlight, InPend
  <2>8. \A x \in IdSet : Flies(v, x)' <=> Flies(v, x) \/ x = z
    BY <1>3, <2>2 DEF Flies
  <2>9. \A x, y \in IdSet : FliesBefore(v, x, y)' => FliesBefore(v, x, y) \/ (Flies(v, x) /\ y = z)
    <3>1. ASSUME NEW x \in IdSet, NEW y \in IdSet, FliesBefore(v, x, y)'
          PROVE  FliesBefore(v, x, y) \/ (Flies(v, x) /\ y = z)
      <4>1. PICK i \in Nat, j \in Nat : i < j /\ InFlight(v, i, x)' /\ InFlight(v, j, y)'
        BY <3>1 DEF FliesBefore
      <4>2. j < L + 1 \/ (j = L + 1 /\ y = z)
        BY <2>2, <4>1
      <4>3. InFlight(v, i, x)
        BY <2>2, <4>1, <4>2
      <4>4. QED BY <2>2, <4>1, <4>2, <4>3 DEF Flies, FliesBefore
    <3>2. QED BY <3>1
  <2>10. \A x \in IdSet : Awaited(v, x)' <=> Awaited(v, x) \/ x = z
    BY <1>4, <2>3 DEF Awaited
  <2>11. \A x, y \in IdSet : AwaitedBefore(v, x, y)' => AwaitedBefore(v, x, y) \/ (Awaited(v, x) /\ y = z)
    <3>1. ASSUME NEW x \in IdSet, NEW y \in IdSet, AwaitedBefore(v, x, y)'
          PROVE  AwaitedBefore(v, x, y) \/ (Awaited(v, x) /\ y = z)
      <4>1. PICK i \in Nat, j \in Nat : i < j /\ InPend(v, i, x)' /\ InPend(v, j, y)'
        BY <3>1 DEF AwaitedBefore
      <4>2. j < M + 1 \/ (j = M + 1 /\ y = z)
        BY <2>3, <4>1
      <4>3. InPend(v, i, x)
        BY <2>3, <4>1, <4>2
      <4>4. QED BY <2>3, <4>1, <4>2, <4>3 DEF Awaited, AwaitedBefore
    <3>2. QED BY <3>1
  <2>12. \A x, y \in IdSet : /\ FliesBefore(v, x, y) => Flies(v, x) /\ Flies(v, y)
                             /\ AwaitedBefore(v, x, y) => Awaited(v, x) /\ Awaited(v, y)
    BY DEF FliesBefore, AwaitedBefore, Flies, Awaited
  <2>13. Numbered(v)'
    <3>1. \A x \in IdSet : ~FliesBefore(v, x, x)'
      BY <2>4, <2>5, <2>9 DEF Numbered
    <3>2. \A x \in IdSet : Flies(v, x)' => x.n < sent'[x.snd]
      BY <1>2, <2>4, <2>5, <2>8 DEF Numbered
    <3> DEFINE Fresh == \A k \in Unsent(v), x \in IdSet : todo[v][k].wait /\ Id(todo[v][k]) = x =>
                           ~Flies(v, x) /\ x.n < sent[x.snd]
    <3>3. ASSUME NEW k \in Unsent(v)', NEW x \in IdSet
          PROVE  todo'[v][k].wait /\ Id(todo'[v][k]) = x => ~Flies(v, x)' /\ x.n < sent'[x.snd]
      BY <1>2, <2>7, <2>8
    <3>4. Fresh'
      BY <3>3
    <3>5. QED BY <3>1, <3>2, <3>4 DEF Numbered
  <2> HIDE DEF Flies, Awaited, FliesBefore, AwaitedBefore
  <2>14. Enough(v)'
    <3> SUFFICES ASSUME NEW op \in AllOps \ expired'[v]
                 PROVE  /\ IsFiniteSet(FlyOf(v, op)') /\ IsFiniteSet(AwaitOf(v, op)')
                        /\ Cardinality(FlyOf(v, op)') <= Cardinality(AwaitOf(v, op)')
      BY DEF Enough
    <3>1. /\ IsFiniteSet(FlyOf(v, op)) /\ IsFiniteSet(AwaitOf(v, op))
          /\ Cardinality(FlyOf(v, op)) <= Cardinality(AwaitOf(v, op))
      BY <1>2, <2>4 DEF Enough
    <3>2. FlyOf(v, op)' = IF z.op = op THEN FlyOf(v, op) \cup {z} ELSE FlyOf(v, op)
      BY <2>8 DEF FlyOf
    <3>3. AwaitOf(v, op)' = IF z.op = op THEN AwaitOf(v, op) \cup {z} ELSE AwaitOf(v, op)
      BY <2>10 DEF AwaitOf
    <3>4. z \notin FlyOf(v, op) /\ z \notin AwaitOf(v, op)
      BY <2>5, <2>6 DEF FlyOf, AwaitOf
    <3> HIDE DEF FlyOf, AwaitOf
    <3>5. /\ IsFiniteSet(FlyOf(v, op) \cup {z}) /\ IsFiniteSet(AwaitOf(v, op) \cup {z})
          /\ Cardinality(FlyOf(v, op) \cup {z}) = Cardinality(FlyOf(v, op)) + 1
          /\ Cardinality(AwaitOf(v, op) \cup {z}) = Cardinality(AwaitOf(v, op)) + 1
      BY <3>1, <3>4, FS_AddElement
    <3>6. Cardinality(FlyOf(v, op)) \in Nat /\ Cardinality(AwaitOf(v, op)) \in Nat
      BY <3>1, FS_CardinalityType
    <3>7. CASE z.op = op
      BY <3>1, <3>2, <3>3, <3>5, <3>6, <3>7
    <3>8. CASE z.op # op
      BY <3>1, <3>2, <3>3, <3>8
    <3>9. QED BY <3>7, <3>8
  <2>15. InOrder(v)'
    <3>1. ASSUME ~lost, NEW x \in IdSet, NEW y \in IdSet, x.op \notin expired[v], y.op \notin expired[v],
                 FliesBefore(v, x, y)', AwaitedBefore(v, y, x)'
          PROVE  FALSE
      <4>1. /\ Flies(v, x) <=> Awaited(v, x)
            /\ FliesBefore(v, x, y) => ~AwaitedBefore(v, y, x)
        BY <2>4, <3>1 DEF InOrder
      <4>2. FliesBefore(v, x, y) \/ (Flies(v, x) /\ y = z)
        BY <2>9, <3>1
      <4>3. AwaitedBefore(v, y, x) \/ (Awaited(v, y) /\ x = z)
        BY <2>11, <3>1
      <4>4. Flies(v, x) /\ Awaited(v, y)
        BY <2>12, <4>2, <4>3
      <4>5. QED BY <2>5, <2>6, <4>1, <4>2, <4>3, <4>4
    <3>2. ~lost => \A x \in IdSet : x.op \notin expired[v] => (Flies(v, x)' <=> Awaited(v, x)')
      BY <2>4, <2>8, <2>10 DEF InOrder
    <3>3. QED BY <1>2, <3>1, <3>2 DEF InOrder
  <2>16. QED BY <2>13, <2>14, <2>15 DEF FlightAt
<1>9. QED BY <1>7, <1>8

LEMMA FliesFewer ==
  ASSUME MboxType, NEW w \in VF, todo'[PF] = todo[PF], out'[w] = out[w],
         out'[PF] \in {out[PF], NoMsg}, work'[PF] = "sent" <=> work[PF] = "sent"
  PROVE  FliesOn(w)
<1>1. Unsent(PF)' = Unsent(PF)
  BY DEF Unsent
<1>2. \A i \in Nat, x \in IdSet : InFlight(w, i, x)' => InFlight(w, i, x)
  BY <1>1 DEF InFlight
<1>3. QED BY <1>2 DEF FliesOn, Flies, FliesBefore

LEMMA FlightPosts ==
  ASSUME MboxType, MboxType', Addressed, Asleep, Listed, NEW s \in Snd, NEW m \in Message,
         FlightAt(VfOf[s]), Opens(s, m) \/ Requests(s, m) \/ Leaves(s, m)
  PROVE  FlightAt(VfOf[s])'
<1>1. PICK v \in VF : v = VfOf[s]
  BY EndFacts
<1>2. /\ v \in End /\ v # PF /\ Len(todo[v]) \in Nat /\ PF \in End /\ Len(pend[v]) \in Nat
  BY Lens, EndFacts
<1>3. /\ Len(todo'[v]) = Len(todo[v]) + 1 /\ todo'[v][Len(todo[v]) + 1] = m
      /\ \A k \in 1 .. Len(todo[v]) : todo'[v][k] = todo[v][k]
      /\ work' = work /\ out'[v] = out[v] /\ pend' = pend /\ expired' = expired /\ lost' = lost
      /\ todo'[PF] = todo[PF]
      /\ m.n = sent[s] /\ m.snd = s /\ sent'[s] = sent[s] + 1 /\ OthersKeep(sent, sent', Snd, s)
      /\ out'[PF] \in {out[PF], NoMsg}
  BY <1>1, <1>2, EndFacts DEF Opens, Requests, Leaves, Posts, Adds, KeepsHist, OthersKeep
<1>4. work[v] = "sent" => 1 \in 1 .. Len(todo[v])
  BY <1>2, Lens DEF Addressed
<1>5. AwaitsSame(v)
  BY <1>2, <1>3, <1>4, AwaitsUntouched
<1>6. \A t \in Snd : sent[t] \in Nat /\ sent[t] <= sent'[t]
  <2>1. ASSUME NEW t \in Snd PROVE sent[t] \in Nat
    BY DEF MboxType
  <2>2. \A t \in Snd : t # s => sent'[t] = sent[t]
    BY <1>3 DEF OthersKeep
  <2>3. sent'[s] = sent[s] + 1
    BY <1>3
  <2>4. QED BY <2>1, <2>2, <2>3
<1>7. UnsentOf(v)
  <2>1. ASSUME NEW k \in Unsent(v)', NEW x \in IdSet, todo'[v][k].wait, Id(todo'[v][k]) = x
        PROVE  \/ \E j \in Unsent(v) : todo[v][j].wait /\ Id(todo[v][j]) = x
               \/ sent[x.snd] <= x.n /\ x.n < sent'[x.snd]
    <3>1. CASE k = Len(todo[v]) + 1
      <4>1. x.snd = s /\ x.n = sent[s]
        BY <1>3, <2>1, <3>1, IdFacts
      <4>2. QED BY <1>3, <1>6, <4>1
    <3>2. CASE k # Len(todo[v]) + 1
      <4>1. k \in Unsent(v) /\ todo'[v][k] = todo[v][k]
        BY <1>2, <1>3, <3>2 DEF Unsent
      <4>2. QED BY <2>1, <4>1
    <3>3. QED BY <3>1, <3>2
  <2>2. QED BY <2>1 DEF UnsentOf
<1>8. FliesOn(v)
  BY <1>2, <1>3, FliesFewer
<1>9. FlightAt(v)
  BY <1>1
<1>10. CASE Opens(s, m)
  <2>1. vst[v] = "off" /\ work[v] = "idle"
    BY <1>1, <1>10 DEF Opens
  <2>2. Len(pend[v]) = 0
    <3>1. ASSUME NEW k \in 1 .. Len(pend[v]) PROVE FALSE
      <4>1. waits[pend[v][k].snd] # NoMsg /\ pend[v][k].snd \in Snd /\ VfOf[pend[v][k].snd] = v
        BY PendWaits
      <4>2. vst[v] \in {"hello", "on"}
        BY <4>1 DEF Asleep
      <4>3. QED BY <2>1, <4>2
    <3>2. 1 \notin 1 .. Len(pend[v])
      BY <3>1
    <3>3. QED BY <1>2, <3>2
  <2>3. \A x \in IdSet : ~Awaited(v, x)
    BY <2>1, <2>2 DEF Awaited, InPend
  <2> HIDE DEF Flies, Awaited, FliesBefore, AwaitedBefore
  <2>4. \A x \in IdSet : ~Awaited(v, x)'
    BY <1>5, <2>3 DEF AwaitsSame, AwaitsOn
  <2>5. Numbered(v)'
    BY <1>6, <1>7, <1>8, <1>9, NumberedKeeps DEF FlightAt
  <2>6. Enough(v)'
    BY <1>3, <1>8, <1>9, <2>3, <2>4, EnoughKeeps DEF FlightAt
  <2>7. ~lost => \A x \in IdSet : x.op \notin expired[v] => ~Flies(v, x)
    BY <1>9, <2>3 DEF FlightAt, InOrder
  <2>8. InOrder(v)'
    BY <1>3, <1>5, <1>8, <1>9, <2>3, <2>4, <2>7, OrderKeeps DEF FlightAt, AwaitsSame, FliesOn
  <2>9. QED BY <1>1, <2>5, <2>6, <2>8 DEF FlightAt
<1>11. CASE Requests(s, m) \/ Leaves(s, m)
  <2>1. out' = out
    BY <1>11 DEF Requests, Leaves
  <2>2. FliesSame(v)
    BY <1>2, <1>3, <2>1, RelabelsSame, FliesUntouched
  <2>3. QED BY <1>1, <1>3, <1>5, <1>6, <1>7, <1>9, <2>2, FlightKeeps DEF FlightStays
<1>12. QED BY <1>10, <1>11

LEMMA UnsentDrops ==
  ASSUME MboxType, NEW w \in VF, NEW m, Drops(todo'[w], todo[w], m), work[w] # "sent",
         work'[w] # "sent"
  PROVE  UnsentOf(w)
<1>1. Unsent(w) = 1 .. Len(todo[w]) /\ Unsent(w)' = 1 .. Len(todo'[w])
  BY DEF Unsent
<1>2. \A k \in 1 .. Len(todo'[w]) : \E j \in 1 .. Len(todo[w]) : todo'[w][k] = todo[w][j]
  BY DropsOf, Lens, EndFacts
<1>3. ASSUME NEW k \in Unsent(w)', NEW x \in IdSet, todo'[w][k].wait, Id(todo'[w][k]) = x
      PROVE  \E j \in Unsent(w) : todo[w][j].wait /\ Id(todo[w][j]) = x
  <2>1. PICK j \in 1 .. Len(todo[w]) : todo'[w][k] = todo[w][j]
    BY <1>1, <1>2
  <2>2. QED BY <1>1, <1>3, <2>1
<1>4. QED BY <1>3 DEF UnsentOf

\* A request leaves those that wait.
LEMMA AwaitsOmits ==
  ASSUME MboxType, NEW w \in VF, work[w] # "sent", work'[w] # "sent",
         NEW p \in 1 .. Len(pend[w]), Omits(pend'[w], pend[w], p)
  PROVE  /\ AwaitsOn(w)
         /\ \A x \in IdSet : Awaited(w, x) /\ x # Id(pend[w][p]) => Awaited(w, x)'
         /\ \A x \in IdSet : Awaited(w, x)' =>
               \E j \in 1 .. Len(pend[w]) : j # p /\ Id(pend[w][j]) = x
<1> DEFINE f == [i \in Nat |-> IF i < p THEN i ELSE i + 1]
<1>1. /\ Len(pend[w]) \in Nat /\ Len(pend'[w]) = Len(pend[w]) - 1 /\ p \in Nat
      /\ \A k \in 1 .. Len(pend'[w]) : pend'[w][k] = pend[w][IF k < p THEN k ELSE k + 1]
  BY Lens DEF Omits
<1>2. /\ \A i \in Nat, x \in IdSet : InPend(w, i, x) <=> i \in 1 .. Len(pend[w]) /\ Id(pend[w][i]) = x
      /\ \A i \in Nat, x \in IdSet : InPend(w, i, x)' <=> i \in 1 .. Len(pend'[w]) /\ Id(pend'[w][i]) = x
  BY DEF InPend
<1>3. ASSUME NEW i \in Nat, NEW x \in IdSet, InPend(w, i, x)'
      PROVE  InPend(w, f[i], x) /\ f[i] # p /\ f[i] \in 1 .. Len(pend[w]) /\ Id(pend[w][f[i]]) = x
  <2>1. i \in 1 .. Len(pend'[w]) /\ Id(pend'[w][i]) = x
    BY <1>2, <1>3
  <2>2. f[i] \in 1 .. Len(pend[w]) /\ f[i] # p /\ pend'[w][i] = pend[w][f[i]] /\ f[i] \in Nat
    BY <1>1, <2>1
  <2> HIDE DEF f
  <2>3. QED BY <1>2, <2>1, <2>2
<1>4. AwaitsOn(w)
  <2>1. f \in [Nat -> Nat]
    OBVIOUS
  <2>2. \A i, j \in Nat : i < j => f[i] < f[j]
    BY <1>1
  <2> HIDE DEF f, InPend
  <2>3. QED BY <1>3, <2>1, <2>2, AwaitMap
<1>5. ASSUME NEW x \in IdSet, Awaited(w, x)'
      PROVE  \E j \in 1 .. Len(pend[w]) : j # p /\ Id(pend[w][j]) = x
  <2>1. PICK i \in Nat : InPend(w, i, x)'
    BY <1>5 DEF Awaited
  <2>2. f[i] # p /\ f[i] \in 1 .. Len(pend[w]) /\ Id(pend[w][f[i]]) = x
    BY <1>3, <2>1
  <2> HIDE DEF f
  <2>3. QED BY <2>2
<1>6. ASSUME NEW x \in IdSet, Awaited(w, x), x # Id(pend[w][p]) PROVE Awaited(w, x)'
  <2>1. PICK i \in 1 .. Len(pend[w]) : Id(pend[w][i]) = x
    BY <1>2, <1>6 DEF Awaited
  <2>2. i # p
    BY <1>6, <2>1
  <2>3. CASE i < p
    <3>1. i \in 1 .. Len(pend'[w]) /\ pend'[w][i] = pend[w][i] /\ i \in Nat
      BY <1>1, <2>3
    <3>2. QED BY <1>2, <2>1, <3>1 DEF Awaited
  <2>4. CASE i > p
    <3>1. i - 1 \in 1 .. Len(pend'[w]) /\ pend'[w][i - 1] = pend[w][i] /\ i - 1 \in Nat
      BY <1>1, <2>4
    <3>2. QED BY <1>2, <2>1, <3>1 DEF Awaited
  <2>5. QED BY <1>1, <2>2, <2>3, <2>4
<1>7. QED BY <1>4, <1>5, <1>6

LEMMA FlightExpires ==
  ASSUME MboxType, MboxType', Addressed, Asleep, Listed, NEW s \in Snd, NEW m \in Message,
         FlightAt(VfOf[s]), Expires(s, m)
  PROVE  FlightAt(VfOf[s])'
<1>1. PICK v \in VF : v = VfOf[s]
  BY EndFacts
<1>2. /\ work[v] # "sent" /\ work' = work /\ out' = out /\ lost' = lost /\ sent' = sent
      /\ todo'[PF] = todo[PF] /\ v # PF
      /\ Drops(todo'[v], todo[v], m) /\ Drops(pend'[v], pend[v], m)
      /\ expired'[v] = expired[v] \cup {m.op}
  BY <1>1, EndFacts DEF Expires, OthersKeep
<1>3. FliesSame(v)
  BY <1>2, RelabelsSame, FliesUntouched, EndFacts
<1>4. UnsentOf(v)
  BY <1>2, UnsentDrops
<1>5. \A t \in Snd : sent[t] <= sent'[t]
  BY <1>2 DEF MboxType
<1>6. AwaitsOn(v) /\ \A x \in IdSet : x.op # m.op /\ Awaited(v, x) => Awaited(v, x)'
  <2>1. CASE pend'[v] = pend[v]
    BY <1>2, <2>1, AwaitsUntouched DEF AwaitsSame
  <2>2. ASSUME NEW p \in 1 .. Len(pend[v]), pend[v][p] = m, Omits(pend'[v], pend[v], p)
        PROVE  AwaitsOn(v) /\ \A x \in IdSet : x.op # m.op /\ Awaited(v, x) => Awaited(v, x)'
    <3>1. Id(pend[v][p]).op = m.op
      BY <2>2, IdFacts
    <3>2. QED BY <1>2, <2>2, <3>1, AwaitsOmits
  <2>3. QED BY <1>2, <2>1, <2>2 DEF Drops
<1>7. FlightAt(v)
  BY <1>1
<1> HIDE DEF Flies, Awaited, FliesBefore, AwaitedBefore
<1>8. \A x \in IdSet : x.op \notin expired'[v] => (Awaited(v, x)' <=> Awaited(v, x))
  BY <1>2, <1>6 DEF AwaitsOn
<1>9. Numbered(v)'
  BY <1>3, <1>4, <1>5, <1>7, NumberedKeeps DEF FlightAt, FliesSame
<1>10. Enough(v)'
  BY <1>2, <1>3, <1>7, <1>8, EnoughKeeps DEF FlightAt, FliesSame
<1>11. InOrder(v)'
  BY <1>2, <1>3, <1>6, <1>7, <1>8, OrderKeeps DEF FlightAt, FliesSame, FliesOn
<1>12. QED BY <1>1, <1>9, <1>10, <1>11 DEF FlightAt

\* The answer that is next to arrive leaves.
LEMMA FliesTaken ==
  ASSUME MboxType, NEW v \in VF, NEW m \in Message, TakesAnswer(v, m), NEW z \in IdSet, z = Id(m)
  PROVE  /\ FliesOn(v) /\ Flies(v, z)
         /\ \A x \in IdSet : Flies(v, x) /\ x # z => Flies(v, x)' /\ FliesBefore(v, z, x)
         /\ ~FliesBefore(v, z, z) => ~Flies(v, z)'
<1>1. /\ out[PF] = m /\ m # NoMsg /\ m.vf = v /\ todo' = todo /\ out'[v] = out[v] /\ out'[PF] = NoMsg
      /\ (work'[PF] = "sent" <=> work[PF] = "sent") /\ Len(todo[PF]) \in Nat
  BY Lens, EndFacts DEF TakesAnswer, RestsAt, OthersKeep
<1>2. FliesOn(v)
  BY <1>1, FliesFewer
<1>3. InFlight(v, 0, z) /\ \A x \in IdSet : InFlight(v, 0, x) => x = z
  BY <1>1, UnsentPlaces, EndFacts DEF InFlight
<1>4. \A i \in Nat, x \in IdSet : InFlight(v, i, x)' <=> i # 0 /\ InFlight(v, i, x)
  BY <1>1, UnsentPlaces, EndFacts DEF InFlight, Unsent
<1> HIDE DEF InFlight
<1>5. ASSUME NEW x \in IdSet, Flies(v, x), x # z
      PROVE  Flies(v, x)' /\ FliesBefore(v, z, x)
  <2>1. PICK i \in Nat : InFlight(v, i, x)
    BY <1>5 DEF Flies
  <2>2. i # 0 /\ 0 < i
    BY <1>3, <1>5, <2>1
  <2>3. QED BY <1>3, <1>4, <2>1, <2>2 DEF Flies, FliesBefore
<1>6. ASSUME Flies(v, z)' PROVE FliesBefore(v, z, z)
  <2>1. PICK i \in Nat : i # 0 /\ InFlight(v, i, z)
    BY <1>4, <1>6 DEF Flies
  <2>2. QED BY <1>3, <2>1 DEF FliesBefore
<1>7. QED BY <1>2, <1>3, <1>5, <1>6 DEF Flies

LEMMA FlightOrphaned ==
  ASSUME MboxType, MboxType', NEW v \in VF, NEW m \in Message, FlightAt(v), Orphaned(v, m)
  PROVE  FlightAt(v)' /\ (orphan' <=> orphan)
<1>1. TakesAnswer(v, m) /\ \A k \in 1 .. Len(pend[v]) : pend[v][k].op # m.op
  BY DEF Orphaned, Mate
<1>2. /\ UNCHANGED <<todo, pend, sent, expired, lost>> /\ work[v] # "sent" /\ work'[v] # "sent"
  BY <1>1 DEF Orphaned, TakesAnswer, RestsAt
<1>3. PICK z \in IdSet : z = Id(m) /\ z.op = m.op
  BY IdFacts
<1>4. Numbered(v) /\ Enough(v) /\ InOrder(v)
  BY DEF FlightAt
<1>5. /\ FliesOn(v) /\ Flies(v, z)
      /\ \A x \in IdSet : Flies(v, x) /\ x # z => Flies(v, x)'
  BY <1>1, <1>3, FliesTaken
<1>6. m.op \in expired[v]
  <2> SUFFICES ASSUME m.op \notin expired[v] PROVE FALSE
    OBVIOUS
  <2>1. m.op \in AllOps
    BY <1>1 DEF TakesAnswer
  <2>2. /\ IsFiniteSet(FlyOf(v, m.op)) /\ IsFiniteSet(AwaitOf(v, m.op))
        /\ Cardinality(FlyOf(v, m.op)) <= Cardinality(AwaitOf(v, m.op))
    BY <1>4, <2>1 DEF Enough
  <2>3. AwaitOf(v, m.op) = {}
    <3>1. ASSUME NEW x \in IdSet, x.op = m.op, Awaited(v, x) PROVE FALSE
      <4>1. PICK k \in 1 .. Len(pend[v]) : Id(pend[v][k]) = x
        BY <1>2, <3>1 DEF Awaited, InPend
      <4>2. pend[v][k].op = x.op
        BY <4>1, IdFacts, Lens
      <4>3. QED BY <1>1, <3>1, <4>2
    <3>2. QED BY <3>1 DEF AwaitOf
  <2>4. z \in FlyOf(v, m.op)
    BY <1>3, <1>5 DEF FlyOf
  <2> HIDE DEF FlyOf, AwaitOf
  <2>5. Cardinality(AwaitOf(v, m.op)) = 0
    BY <2>3, FS_EmptySet
  <2>6. Cardinality(FlyOf(v, m.op)) = 0
    BY <2>2, <2>5, FS_CardinalityType
  <2>7. QED BY <2>2, <2>4, <2>6, FS_EmptySet
<1>7. orphan' <=> orphan
  BY <1>6 DEF Orphaned
<1>8. AwaitsSame(v)
  BY <1>2, AwaitsUntouched
<1>9. UnsentOf(v)
  BY <1>2, RelabelsSame, UnsentUntouched, EndFacts
<1>10. \A s \in Snd : sent[s] <= sent'[s]
  BY <1>2 DEF MboxType
<1> HIDE DEF Flies, Awaited, FliesBefore, AwaitedBefore
<1>11. /\ \A x \in IdSet : x.op \notin expired[v] => (Flies(v, x)' <=> Flies(v, x))
       /\ \A x \in IdSet : Awaited(v, x)' <=> Awaited(v, x)
  BY <1>3, <1>5, <1>6, <1>8 DEF FliesOn, AwaitsSame, AwaitsOn
<1>12. Numbered(v)'
  BY <1>4, <1>5, <1>9, <1>10, NumberedKeeps
<1>13. Enough(v)'
  BY <1>2, <1>4, <1>5, <1>11, EnoughKeeps
<1>14. InOrder(v)'
  BY <1>2, <1>4, <1>5, <1>8, <1>11, OrderKeeps DEF AwaitsSame
<1>15. QED BY <1>7, <1>12, <1>13, <1>14 DEF FlightAt

LEMMA FlightWakes ==
  ASSUME MboxType, MboxType', Addressed, Asleep, Listed, NEW v \in VF, NEW m \in Message,
         NEW k \in 1 .. Len(pend[v]), FlightAt(v), Wakes(v, m, k)
  PROVE  FlightAt(v)' /\ (wrong' <=> wrong)
<1>1. TakesAnswer(v, m) /\ FirstMate(v, k, m.op) /\ Omits(pend'[v], pend[v], k)
  BY DEF Wakes
<1>2. /\ UNCHANGED <<todo, sent, expired, lost>> /\ work[v] # "sent" /\ work'[v] # "sent"
      /\ m.op \in AllOps
  BY <1>1 DEF TakesAnswer, RestsAt
<1>3. PICK z \in IdSet : z = Id(m) /\ z.op = m.op /\ z.snd = m.snd /\ z.n = m.n
  BY IdFacts
<1>4. PICK r \in IdSet : /\ r = Id(pend[v][k]) /\ r.op = pend[v][k].op
                         /\ r.snd = pend[v][k].snd /\ r.n = pend[v][k].n
  BY IdFacts, Lens
<1>5. r.op = m.op
  BY <1>1, <1>4 DEF FirstMate, Mate
<1>6. Numbered(v) /\ Enough(v) /\ InOrder(v)
  BY DEF FlightAt
<1>7. /\ FliesOn(v) /\ Flies(v, z)
      /\ \A x \in IdSet : Flies(v, x) /\ x # z => Flies(v, x)' /\ FliesBefore(v, z, x)
      /\ ~Flies(v, z)'
  BY <1>1, <1>3, <1>6, FliesTaken DEF Numbered
<1>8. /\ AwaitsOn(v)
      /\ \A x \in IdSet : Awaited(v, x) /\ x # r => Awaited(v, x)'
      /\ ~Awaited(v, r)' /\ Awaited(v, r)
  <2>1. /\ AwaitsOn(v)
        /\ \A x \in IdSet : Awaited(v, x) /\ x # r => Awaited(v, x)'
        /\ \A x \in IdSet : Awaited(v, x)' => \E j \in 1 .. Len(pend[v]) : j # k /\ Id(pend[v][j]) = x
    BY <1>1, <1>2, <1>4, AwaitsOmits
  <2>2. ASSUME NEW j \in 1 .. Len(pend[v]), j # k PROVE Id(pend[v][j]) # r
    <3>1. pend[v][j].snd # pend[v][k].snd
      BY <2>2 DEF Listed
    <3>2. QED BY <1>4, <3>1, IdFacts, Lens
  <2>3. Awaited(v, r)
    <3>1. InPend(v, k, r) /\ k \in Nat
      BY <1>4, Lens DEF InPend
    <3>2. QED BY <3>1 DEF Awaited
  <2>4. QED BY <2>1, <2>2, <2>3
\* An answer is its own request's.
<1>9. ASSUME m.op \notin expired[v], ~lost PROVE r = z
  <2> SUFFICES ASSUME r # z PROVE FALSE
    OBVIOUS
  <2>1. Awaited(v, z) /\ Flies(v, r)
    BY <1>3, <1>5, <1>6, <1>7, <1>8, <1>9 DEF InOrder
  <2>2. FliesBefore(v, z, r)
    BY <1>7, <2>1
  <2>3. PICK j \in 1 .. Len(pend[v]) : Id(pend[v][j]) = z
    BY <1>2, <2>1 DEF Awaited, InPend
  <2>4. Mate(v, j, m.op)
    BY <1>3, <2>3, IdFacts, Lens DEF Mate
  <2>5. k <= j
    BY <1>1, <2>4 DEF FirstMate
  <2>6. k < j /\ j \in Nat /\ k \in Nat
    BY <1>4, <2>3, <2>5, Lens
  <2>7. InPend(v, k, r) /\ InPend(v, j, z)
    BY <1>4, <2>3 DEF InPend
  <2> HIDE DEF InPend
  <2>8. AwaitedBefore(v, r, z)
    BY <2>6, <2>7 DEF AwaitedBefore
  <2>9. QED BY <1>3, <1>5, <1>6, <1>9, <2>2, <2>8 DEF InOrder
<1>10. wrong' <=> wrong
  <2>1. CASE m.op \notin expired[v] /\ ~lost
    BY <1>3, <1>4, <1>9, <2>1 DEF Wakes
  <2>2. CASE ~(m.op \notin expired[v] /\ ~lost)
    BY <2>2 DEF Wakes
  <2>3. QED BY <2>1, <2>2
<1>11. UnsentOf(v)
  BY <1>2, RelabelsSame, UnsentUntouched, EndFacts
<1>12. \A s \in Snd : sent[s] <= sent'[s]
  BY <1>2 DEF MboxType
<1> HIDE DEF Flies, Awaited, FliesBefore, AwaitedBefore
<1>13. Numbered(v)'
  BY <1>6, <1>7, <1>11, <1>12, NumberedKeeps
<1>14. /\ \A x \in IdSet : Flies(v, x)' <=> Flies(v, x) /\ x # z
       /\ \A x \in IdSet : Awaited(v, x)' <=> Awaited(v, x) /\ x # r
  BY <1>7, <1>8 DEF FliesOn, AwaitsOn
<1>15. Enough(v)'
  <2> SUFFICES ASSUME NEW op \in AllOps \ expired'[v]
               PROVE  /\ IsFiniteSet(FlyOf(v, op)') /\ IsFiniteSet(AwaitOf(v, op)')
                      /\ Cardinality(FlyOf(v, op)') <= Cardinality(AwaitOf(v, op)')
    BY DEF Enough
  <2>1. /\ IsFiniteSet(FlyOf(v, op)) /\ IsFiniteSet(AwaitOf(v, op))
        /\ Cardinality(FlyOf(v, op)) <= Cardinality(AwaitOf(v, op))
    BY <1>2, <1>6 DEF Enough
  <2>2. FlyOf(v, op)' = FlyOf(v, op) \ {z} /\ AwaitOf(v, op)' = AwaitOf(v, op) \ {r}
    BY <1>14 DEF FlyOf, AwaitOf
  <2>3. (z \in FlyOf(v, op) <=> op = m.op) /\ (r \in AwaitOf(v, op) <=> op = m.op)
    BY <1>3, <1>5, <1>7, <1>8 DEF FlyOf, AwaitOf
  <2> HIDE DEF FlyOf, AwaitOf
  <2>4. /\ IsFiniteSet(FlyOf(v, op) \ {z}) /\ IsFiniteSet(AwaitOf(v, op) \ {r})
        /\ Cardinality(FlyOf(v, op) \ {z}) = IF op = m.op THEN Cardinality(FlyOf(v, op)) - 1 ELSE Cardinality(FlyOf(v, op))
        /\ Cardinality(AwaitOf(v, op) \ {r}) = IF op = m.op THEN Cardinality(AwaitOf(v, op)) - 1 ELSE Cardinality(AwaitOf(v, op))
    BY <2>1, <2>3, FS_RemoveElement
  <2>5. Cardinality(FlyOf(v, op)) \in Nat /\ Cardinality(AwaitOf(v, op)) \in Nat
    BY <2>1, FS_CardinalityType
  <2>6. QED BY <2>1, <2>2, <2>4, <2>5
<1>16. ~lost' => \A x \in IdSet : x.op \notin expired'[v] => (Flies(v, x)' <=> Awaited(v, x)')
  <2>1. ASSUME ~lost, NEW x \in IdSet, x.op \notin expired[v] PROVE Flies(v, x)' <=> Awaited(v, x)'
    <3>1. x = z <=> x = r
      BY <1>3, <1>5, <1>9, <2>1
    <3>2. Flies(v, x) <=> Awaited(v, x)
      BY <1>6, <2>1 DEF InOrder
    <3>3. QED BY <1>14, <3>1, <3>2
  <2>2. QED BY <1>2, <2>1
<1>17. InOrder(v)'
  BY <1>2, <1>6, <1>7, <1>8, <1>16 DEF InOrder, FliesOn, AwaitsOn
<1>18. QED BY <1>10, <1>13, <1>15, <1>17 DEF FlightAt

\* w is not the one that acts.
LEMMA FlightElse ==
  ASSUME MboxType, MboxType', Addressed, NEW w \in VF, FlightAt(w), FliesSame(w), Relabels(w),
         pend'[w] = pend[w], work'[w] = "sent" <=> work[w] = "sent",
         \A s \in Snd : sent[s] <= sent'[s], expired'[w] = expired[w], lost => lost'
  PROVE  FlightAt(w)'
<1>1. w \in End /\ (work[w] = "sent" => 1 \in 1 .. Len(todo[w]))
  BY EndFacts, Lens DEF Addressed
<1>2. work[w] = "sent" => todo'[w][1].wait = todo[w][1].wait /\ Id(todo'[w][1]) = Id(todo[w][1])
  BY <1>1 DEF Relabels, Id
<1>3. AwaitsSame(w)
  BY <1>2, AwaitsUntouched
<1>4. UnsentOf(w)
  BY UnsentUntouched
<1>5. QED BY <1>3, <1>4, FlightKeeps DEF FlightStays

\* The parent gives up an answer.
LEMMA FlightGivenUp ==
  ASSUME MboxType, MboxType', Addressed, NEW w \in VF, FlightAt(w), GivesUp(PF)
  PROVE  FlightAt(w)'
<1>1. /\ w \in End /\ w # PF /\ (work[w] = "sent" => 1 \in 1 .. Len(todo[w]))
  BY EndFacts, Lens DEF Addressed
<1>2. /\ todo'[w] = todo[w] /\ pend' = pend /\ work'[w] = work[w] /\ sent' = sent
      /\ expired' = expired /\ lost'
  BY <1>1 DEF GivesUp, RestsAt, OthersKeep, KeepsUser
<1>3. FliesOn(w)
  BY FliesLess
<1>4. AwaitsSame(w)
  BY <1>2, AwaitsUntouched
<1>5. UnsentOf(w)
  BY <1>1, <1>2, RelabelsSame, UnsentUntouched
<1>6. \A s \in Snd : sent[s] <= sent'[s]
  BY <1>2 DEF MboxType
<1> HIDE DEF Flies, Awaited, FliesBefore, AwaitedBefore
<1>7. Numbered(w)'
  BY <1>3, <1>5, <1>6, NumberedKeeps DEF FlightAt
<1>8. Enough(w)'
  BY <1>2, <1>3, <1>4, EnoughKeeps DEF FlightAt, AwaitsSame, AwaitsOn
<1>9. InOrder(w)'
  BY <1>2 DEF InOrder
<1>10. QED BY <1>7, <1>8, <1>9 DEF FlightAt

LEMMA FlightStep ==
  ASSUME MboxType, MboxType', Addressed, Asleep, Listed, FlightInv, Effect
  PROVE  FlightInv' /\ (wrong' <=> wrong) /\ (orphan' <=> orphan)
<1> USE EndFacts
<1>0. \A v \in VF : FlightAt(v)
  BY DEF FlightInv
<1>1. ASSUME NEW s \in Snd, NEW m \in Message, Opens(s, m) \/ Requests(s, m) \/ Leaves(s, m)
      PROVE  FlightInv' /\ UNCHANGED <<wrong, orphan>>
  <2>1. PICK v \in VF : v = VfOf[s]
    OBVIOUS
  <2>2. /\ UNCHANGED <<pend, work, wrong, expired, lost, orphan>>
        /\ \A e \in End \ {v} : todo'[e] = todo[e]
        /\ \A w \in VF : out'[w] = out[w]
        /\ out'[PF] = out[PF] \/ (out'[PF] = NoMsg /\ out[PF] # NoMsg /\ out[PF].vf = v)
        /\ sent'[s] = sent[s] + 1 /\ OthersKeep(sent, sent', Snd, s)
    BY <1>1, <2>1 DEF Opens, Requests, Leaves, Posts, OthersKeep, KeepsHist
  <2>3. \A t \in Snd : sent[t] <= sent'[t]
    <3>1. ASSUME NEW t \in Snd PROVE sent[t] \in Nat
      BY DEF MboxType
    <3>2. \A t \in Snd : t # s => sent'[t] = sent[t]
      BY <2>2 DEF OthersKeep
    <3>3. QED BY <2>2, <3>1, <3>2
  <2>4. ASSUME NEW w \in VF, w # v PROVE FlightAt(w)'
    <3>1. Relabels(PF) /\ Relabels(w)
      BY <2>1, <2>2, <2>4, RelabelsSame
    <3>2. FliesSame(w)
      BY <2>2, <2>4, <3>1, FliesUntouched
    <3>3. QED BY <1>0, <2>2, <2>3, <3>1, <3>2, FlightElse
  <2>5. FlightAt(v)'
    BY <1>0, <1>1, <2>1, FlightPosts
  <2>6. QED BY <2>2, <2>4, <2>5 DEF FlightInv
<1>2. ASSUME NEW s \in Snd, NEW m \in Message, Expires(s, m)
      PROVE  FlightInv' /\ UNCHANGED <<wrong, orphan>>
  <2>1. PICK v \in VF : v = VfOf[s]
    OBVIOUS
  <2>2. /\ UNCHANGED <<out, work, sent, wrong, lost, orphan>>
        /\ \A e \in End \ {v} : todo'[e] = todo[e]
        /\ \A w \in VF \ {v} : pend'[w] = pend[w] /\ expired'[w] = expired[w]
    BY <1>2, <2>1 DEF Expires, OthersKeep
  <2>3. \A t \in Snd : sent[t] <= sent'[t]
    BY <2>2 DEF MboxType
  <2>4. ASSUME NEW w \in VF, w # v PROVE FlightAt(w)'
    <3>1. Relabels(PF) /\ Relabels(w)
      BY <2>1, <2>2, <2>4, RelabelsSame
    <3>2. FliesSame(w)
      BY <2>2, <3>1, FliesUntouched
    <3>3. QED BY <1>0, <2>2, <2>3, <2>4, <3>1, <3>2, FlightElse
  <2>5. FlightAt(v)'
    BY <1>0, <1>2, <2>1, FlightExpires
  <2>6. QED BY <2>2, <2>4, <2>5 DEF FlightInv
<1>3. ASSUME NEW e \in End, Sends(e) \/ HasSent(e) \/ Retries(e) \/ GivesUp(e) \/ Rests(e)
      PROVE  FlightInv' /\ UNCHANGED <<wrong, orphan>>
  <2>1. /\ UNCHANGED <<sent, wrong, expired, orphan>> /\ (lost => lost')
        /\ \A d \in End \ {e} : todo'[d] = todo[d] /\ out'[d] = out[d] /\ work'[d] = work[d]
        /\ \A w \in VF \ {e} : pend'[w] = pend[w]
    BY <1>3 DEF Sends, HasSent, Retries, GivesUp, Rests, RestsAt, OthersKeep, KeepsUser, KeepsHist
  <2>2. \A t \in Snd : sent[t] <= sent'[t]
    BY <2>1 DEF MboxType
  <2>3. CASE e = PF
    <3>1. ASSUME NEW w \in VF PROVE FlightAt(w)'
      <4>1. Relabels(w)
        BY <2>1, <2>3, RelabelsSame
      <4>2. CASE FliesSame(w)
        BY <1>0, <2>1, <2>2, <2>3, <4>1, <4>2, FlightElse
      <4>3. CASE GivesUp(PF)
        BY <1>0, <4>3, FlightGivenUp
      <4>4. CASE Sends(PF) \/ HasSent(PF)
        BY <4>2, <4>4, FliesSends, FliesLess
      <4>5. CASE Retries(PF)
        <5>1. Relabels(PF) /\ out' = out /\ work[PF] # "sent" /\ work'[PF] # "sent"
          BY <4>5, RetriesRelabel DEF Retries, RestsAt
        <5>2. QED BY <4>2, <5>1, FliesUntouched
      <4>6. CASE Rests(PF)
        <5>1. Relabels(PF) /\ out' = out /\ work[PF] # "sent" /\ work'[PF] # "sent"
          BY <4>6, RelabelsSame DEF Rests, RestsAt
        <5>2. QED BY <4>2, <5>1, FliesUntouched
      <4>7. QED BY <1>3, <2>3, <4>3, <4>4, <4>5, <4>6
    <3>2. QED BY <2>1, <3>1 DEF FlightInv
  <2>4. CASE e \in VF
    <3>1. Relabels(PF) /\ e # PF
      BY <2>1, <2>4, RelabelsSame
    <3>2. \A w \in VF : w # e => FliesSame(w)
      BY <2>1, <2>4, <3>1, FliesUntouched
    <3>3. \A w \in VF : w # e => FlightAt(w)'
      <4>1. \A w \in VF : w # e => Relabels(w)
        BY <2>1, RelabelsSame
      <4>2. QED BY <1>0, <2>1, <2>2, <3>2, <4>1, FlightElse
    <3>4. ~Sends(e) => FliesSame(e)
      <4>1. ~Sends(e) => out' = out
        BY <1>3 DEF HasSent, Retries, GivesUp, Rests
      <4>2. QED BY <2>1, <2>4, <3>1, <4>1, FliesUntouched
    <3>5. ASSUME Sends(e) PROVE FlightAt(e)'
      BY <1>0, <2>4, <3>5, FlightSends
    <3>6. ASSUME HasSent(e) /\ ~Sends(e) PROVE FlightAt(e)'
      BY <1>0, <2>1, <2>2, <2>4, <3>4, <3>6, AwaitsSent, FlightKeeps DEF FlightStays
    <3>7. ASSUME (Retries(e) \/ Rests(e)) /\ ~Sends(e) PROVE FlightAt(e)'
      <4>1. Relabels(e) /\ pend' = pend /\ work[e] # "sent" /\ work'[e] # "sent"
        BY <3>7, RetriesRelabel, RelabelsSame DEF Retries, Rests, RestsAt
      <4>2. QED BY <1>0, <2>1, <2>2, <2>4, <3>4, <3>7, <4>1, FlightElse
    <3>8. ASSUME GivesUp(e) /\ ~Sends(e) PROVE FlightAt(e)'
      <4>1. pend' = pend /\ work[e] # "sent" /\ work'[e] # "sent"
        BY <3>8 DEF GivesUp, RestsAt
      <4>2. AwaitsSame(e) /\ UnsentOf(e)
        BY <2>4, <3>8, <4>1, AwaitsUntouched, UnsentGivesUp
      <4>3. QED BY <1>0, <2>1, <2>2, <2>4, <3>4, <3>8, <4>2, FlightKeeps DEF FlightStays
    <3>9. FlightAt(e)'
      BY <1>3, <3>5, <3>6, <3>7, <3>8
    <3>10. QED BY <2>1, <3>3, <3>9 DEF FlightInv
  <2>5. QED BY <2>3, <2>4
<1>4. ASSUME NEW v \in VF, Stops(v)
      PROVE  FlightInv' /\ UNCHANGED <<wrong, orphan>>
  <2>1. UNCHANGED <<todo, pend, out, work, sent, wrong, expired, lost, orphan>>
    BY <1>4 DEF Stops, KeepsHist
  <2>2. \A t \in Snd : sent[t] <= sent'[t]
    BY <2>1 DEF MboxType
  <2>3. ASSUME NEW w \in VF PROVE FlightAt(w)'
    <3>1. Relabels(PF) /\ Relabels(w)
      BY <2>1, RelabelsSame
    <3>2. FliesSame(w)
      BY <2>1, <3>1, FliesUntouched
    <3>3. QED BY <1>0, <2>1, <2>2, <3>1, <3>2, FlightElse
  <2>4. QED BY <2>1, <2>3 DEF FlightInv
<1>5. ASSUME NEW v \in VF, NEW m \in Message, TakesAnswer(v, m), OthersKeep(pend, pend', VF, v)
      PROVE  \A w \in VF : w # v => FlightAt(w)'
  <2>1. /\ UNCHANGED <<todo, sent, expired, lost>> /\ out'[PF] = NoMsg /\ out[PF] # NoMsg /\ out[PF].vf = v
        /\ \A w \in VF : out'[w] = out[w] /\ \A e \in End : work'[e] = "sent" <=> work[e] = "sent"
        /\ \A w \in VF \ {v} : pend'[w] = pend[w]
    BY <1>5 DEF TakesAnswer, RestsAt, OthersKeep
  <2>2. \A t \in Snd : sent[t] <= sent'[t]
    BY <2>1 DEF MboxType
  <2>3. ASSUME NEW w \in VF, w # v PROVE FlightAt(w)'
    <3>1. Relabels(PF) /\ Relabels(w)
      BY <2>1, RelabelsSame
    <3>2. FliesSame(w)
      BY <2>1, <2>3, <3>1, FliesUntouched
    <3>3. QED BY <1>0, <2>1, <2>2, <2>3, <3>1, <3>2, FlightElse
  <2>4. QED BY <2>3
<1>6. ASSUME NEW v \in VF, NEW m \in Message, Orphaned(v, m)
      PROVE  FlightInv' /\ (wrong' <=> wrong) /\ (orphan' <=> orphan)
  <2>1. TakesAnswer(v, m) /\ OthersKeep(pend, pend', VF, v) /\ wrong' = wrong
    BY <1>6 DEF Orphaned, OthersKeep
  <2>2. FlightAt(v)' /\ (orphan' <=> orphan)
    BY <1>0, <1>6, FlightOrphaned
  <2>3. \A w \in VF : w # v => FlightAt(w)'
    BY <1>5, <2>1
  <2>4. QED BY <2>1, <2>2, <2>3 DEF FlightInv
<1>7. ASSUME NEW v \in VF, NEW m \in Message, NEW k \in 1 .. Len(pend[v]), Wakes(v, m, k)
      PROVE  FlightInv' /\ (wrong' <=> wrong) /\ (orphan' <=> orphan)
  <2>1. TakesAnswer(v, m) /\ OthersKeep(pend, pend', VF, v) /\ orphan' = orphan
    BY <1>7 DEF Wakes
  <2>2. FlightAt(v)' /\ (wrong' <=> wrong)
    BY <1>0, <1>7, FlightWakes
  <2>3. \A w \in VF : w # v => FlightAt(w)'
    BY <1>5, <2>1
  <2>4. QED BY <2>1, <2>2, <2>3 DEF FlightInv
<1>8. ASSUME NEW v \in VF, NEW m \in Message, TakesRequest(v, m)
      PROVE  FlightInv' /\ UNCHANGED <<wrong, orphan>>
  <2>1. /\ UNCHANGED <<pend, sent, wrong, expired, lost, orphan>>
        /\ \A w \in VF : todo'[w] = todo[w] /\ (work'[w] = "sent" <=> work[w] = "sent")
    BY <1>8 DEF TakesRequest, RestsAt, OthersKeep, KeepsUser, KeepsHist
  <2>2. \A t \in Snd : sent[t] <= sent'[t]
    BY <2>1 DEF MboxType
  <2>3. ASSUME NEW w \in VF PROVE FlightAt(w)'
    <3>1. Relabels(w)
      BY <2>1, RelabelsSame
    <3>2. FliesSame(w)
      BY <1>8, FliesTakes
    <3>3. QED BY <1>0, <2>1, <2>2, <3>1, <3>2, FlightElse
  <2>4. QED BY <2>1, <2>3 DEF FlightInv
<1>9. QED BY <1>1, <1>2, <1>3, <1>4, <1>6, <1>7, <1>8 DEF Effect

LEMMA FlightInit ==
  ASSUME MboxInit
  PROVE  FlightInv /\ ~wrong /\ ~orphan
<1>1. /\ todo = [e \in End |-> <<>>] /\ pend = [v \in VF |-> <<>>] /\ out = [e \in End |-> NoMsg]
      /\ work = [e \in End |-> "idle"] /\ ~wrong /\ ~orphan
  BY DEF MboxInit
<1>2. ASSUME NEW v \in VF PROVE FlightAt(v)
  <2>1. Len(todo[v]) = 0 /\ Len(todo[PF]) = 0 /\ Len(pend[v]) = 0 /\ out[v] = NoMsg /\ out[PF] = NoMsg
        /\ work[v] # "sent" /\ work[PF] # "sent"
    BY <1>1, EndFacts
  <2>2. Unsent(v) = {} /\ Unsent(PF) = {}
    BY <2>1 DEF Unsent
  <2>3. /\ \A x \in IdSet : ~Flies(v, x) /\ ~Awaited(v, x)
        /\ \A x, y \in IdSet : ~FliesBefore(v, x, y)
    BY <2>1, <2>2 DEF Flies, Awaited, FliesBefore, InFlight, InPend
  <2> HIDE DEF Flies, Awaited, FliesBefore, AwaitedBefore
  <2>4. Numbered(v) /\ InOrder(v)
    BY <2>2, <2>3 DEF Numbered, InOrder
  <2>5. \A op : FlyOf(v, op) = {} /\ AwaitOf(v, op) = {}
    BY <2>3 DEF FlyOf, AwaitOf
  <2>6. Enough(v)
    BY <2>5, FS_EmptySet DEF Enough
  <2>7. QED BY <2>4, <2>6 DEF FlightAt
<1>3. QED BY <1>1, <1>2 DEF FlightInv

LEMMA FlightInvStep ==
  ASSUME MboxInv, FlightInv, [MboxNext]_mboxVars
  PROVE  FlightInv' /\ (wrong' <=> wrong) /\ (orphan' <=> orphan)
<1>1. MboxType /\ Addressed /\ Asleep /\ Listed /\ MboxType'
  BY MboxTypeStep DEF MboxInv
<1>2. CASE Effect
  BY <1>1, <1>2, FlightStep
<1>3. CASE UNCHANGED <<todo, pend, out, work, vst, waits, sent, wrong, slot, online,
                       expired, lost, orphan>>
  <2>1. \A t \in Snd : sent[t] <= sent'[t]
    BY <1>1, <1>3 DEF MboxType
  <2>2. ASSUME NEW w \in VF PROVE FlightAt(w)'
    <3>1. Relabels(PF) /\ Relabels(w)
      BY <1>1, <1>3, RelabelsSame, EndFacts
    <3>2. FliesSame(w)
      BY <1>1, <1>3, <3>1, FliesUntouched
    <3>3. QED BY <1>1, <1>3, <2>1, <3>1, <3>2, FlightElse DEF FlightInv
  <2>3. QED BY <1>3, <2>2 DEF FlightInv
<1>4. QED BY <1>1, <1>2, <1>3, StepEffect

LEMMA FlightAlways == MboxSpec => [](FlightInv /\ ~wrong /\ ~orphan)
<1>1. MboxInit => FlightInv /\ ~wrong /\ ~orphan
  BY FlightInit
<1>2. MboxInv /\ FlightInv /\ ~wrong /\ ~orphan /\ [MboxNext]_mboxVars
        => (FlightInv /\ ~wrong /\ ~orphan)'
  BY FlightInvStep
<1>3. QED BY <1>1, <1>2, MboxInvAlways, PTL DEF MboxSpec

(* mbox_rx_work matches answers by operation only, and yet wakes a thread   *)
(* with the answer to its own request, unless one of that operation timed   *)
(* out before or an answer was given up.                                    *)
THEOREM AnswerOwn == MboxSpec => []AnswerIsOwn
<1>1. ~wrong => AnswerIsOwn
  BY DEF AnswerIsOwn
<1>2. QED BY <1>1, FlightAlways, PTL

(* An answer that arrives finds a request of its operation on rx_pend_list, *)
(* unless one of that operation has timed out, also after answers were      *)
(* given up.                                                                *)
THEOREM AnswerMet == MboxSpec => []AnswerFindsRequest
<1>1. ~orphan => AnswerFindsRequest
  BY DEF AnswerFindsRequest
<1>2. QED BY <1>1, FlightAlways, PTL
=============================================================================
