----------------------------- MODULE QueueRanges -----------------------------
(***************************************************************************)
(* What the queue resource manager promises: every function owns one range *)
(* of consecutive hardware queues, nobody else owns any of them, the queues*)
(* nobody owns are available, and no range is taken from a function that   *)
(* uses queues of it.                                                      *)
(***************************************************************************)
EXTENDS Integers

CONSTANTS Func, QBase, TotalQ

VARIABLES owned, avail, busy

rangeVars == <<owned, avail, busy>>

Stretch(b, n) == b .. b + n - 1
AllQueues   == Stretch(QBase, TotalQ)
Ranges      == {Stretch(b, n) : b \in AllQueues, n \in 0 .. TotalQ}

RangeInit ==
    /\ owned = [f \in Func |-> {}]
    /\ avail = AllQueues
    /\ busy  = [f \in Func |-> FALSE]

\* f gives its range back and gets another one, perhaps empty.
Reassign(f) ==
    /\ ~busy[f]
    /\ \E new \in Ranges :
         /\ new \subseteq avail \cup owned[f]
         /\ owned' = [owned EXCEPT ![f] = new]
         /\ avail' = (avail \cup owned[f]) \ new
    /\ UNCHANGED busy

\* f adds its first queue.
Use(f) ==
    /\ owned[f] # {}
    /\ busy' = [busy EXCEPT ![f] = TRUE]
    /\ UNCHANGED <<owned, avail>>

\* f has removed its last queue; it may give its range back at once.
Leave(f) ==
    /\ busy' = [busy EXCEPT ![f] = FALSE]
    /\ \/ UNCHANGED <<owned, avail>>
       \/ /\ owned' = [owned EXCEPT ![f] = {}]
          /\ avail' = avail \cup owned[f]

RangeNext == \E f \in Func : Reassign(f) \/ Use(f) \/ Leave(f)

RangeSpec == RangeInit /\ [][RangeNext]_rangeVars
-----------------------------------------------------------------------------
(***************************************************************************)
(* No queue is owned twice, and every queue is owned or available.         *)
(***************************************************************************)
Partition ==
    /\ \A f, g \in Func : f # g => owned[f] \cap owned[g] = {}
    /\ \A f \in Func : owned[f] \cap avail = {}
    /\ AllQueues = avail \cup UNION {owned[f] : f \in Func}
=============================================================================
