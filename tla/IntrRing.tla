------------------------------ MODULE IntrRing ------------------------------
(***************************************************************************)
(* The interrupt aggregation ring of a function (qdma_intr.c), indirect    *)
(* mode: the hardware writes an entry per event of a queue and interrupts; *)
(* the handler takes entries for as long as their colour is the one of its *)
(* turn around the ring, schedules the work of each queue and reports how  *)
(* far it came.  A function has one ring, QDMA_NUM_DATA_VEC_FOR_INTR_CXT.  *)
(*                                                                         *)
(* The hardware writes between any two entries that are taken.  One        *)
(* interrupt handler runs at a time: it has a vector of its own.           *)
(***************************************************************************)
EXTENDS Integers, Sequences

CONSTANTS
    Entries,    \* intr_rng_num_entries
    Qid,        \* hardware indices of queues with events
    MaxEvents   \* events of a run

ASSUME IntrRingAssumption == Entries \in Nat \ {0, 1} /\ MaxEvents \in Nat /\ Qid # {}

VARIABLES
    intrRing,   \* the memory: colour and qid of each entry
    intrHw,     \* the hardware: where it writes next, in which colour, up to where
                \* it was told that entries are free, and whether an interrupt it
                \* sent has not been answered by an index yet
    msi,        \* an interrupt is on its way
    coal,       \* intr_coal_conf: sw_cidx and color
    irqPc,      \* the handler: "idle", in its "loop", or about to "report"
    events,     \* history: the queues of all entries written
    scheduled   \* history: the queues whose work was scheduled

intrVars == << intrRing, intrHw, msi, coal, irqPc, events, scheduled >>

NextPlace(i) == IF i + 1 = Entries THEN 0 ELSE i + 1
Flip(c)      == 1 - c

\* The ring is cleared, so that no entry has the colour of the first turn.
IntrInit ==
    /\ intrRing = [i \in 0 .. Entries - 1 |-> [coal_color |-> 0, qid |-> CHOOSE q \in Qid : TRUE]]
    /\ coal = [sw_cidx |-> 0, color |-> 1]
    /\ intrHw = [pidx |-> 0, color |-> 1, told |-> 0, unanswered |-> FALSE]
    /\ msi = FALSE /\ irqPc = "idle"
    /\ events = << >> /\ scheduled = << >>

\* The hardware keeps one entry free.  While an interrupt is unanswered it may
\* send another one or leave the entry to the handler.
HwEvent(q) ==
    /\ Len(events) < MaxEvents /\ NextPlace(intrHw.pidx) # intrHw.told
    /\ intrRing' = [intrRing EXCEPT ![intrHw.pidx] = [coal_color |-> intrHw.color, qid |-> q]]
    /\ \E again \in BOOLEAN : msi' = (msi \/ ~intrHw.unanswered \/ again)
    /\ intrHw' = [intrHw EXCEPT !.pidx = NextPlace(@), !.unanswered = TRUE,
                                !.color = IF NextPlace(intrHw.pidx) = 0 THEN Flip(@) ELSE @]
    /\ events' = Append(events, q)
    /\ UNCHANGED << coal, irqPc, scheduled >>

IntrBegin ==
    /\ msi /\ irqPc = "idle"
    /\ msi' = FALSE /\ irqPc' = "loop"
    /\ UNCHANGED << intrRing, intrHw, coal, events, scheduled >>

RingEntry == intrRing[coal.sw_cidx]

\* Mutant: the colour is that of the first turn for ever.
AdvanceOneColor == [coal EXCEPT !.sw_cidx = NextPlace(@)]

\* The colour changes with each turn.
Advance == [sw_cidx |-> NextPlace(coal.sw_cidx),
            color   |-> IF NextPlace(coal.sw_cidx) = 0 THEN Flip(coal.color) ELSE coal.color]

\* One turn of the loop.
IntrTake ==
    /\ irqPc = "loop" /\ RingEntry.coal_color = coal.color
    /\ scheduled' = Append(scheduled, RingEntry.qid)
    /\ coal' = Advance
    /\ UNCHANGED << intrRing, intrHw, msi, irqPc, events >>

IntrBreak ==
    /\ irqPc = "loop" /\ RingEntry.coal_color # coal.color
    /\ irqPc' = "report"
    /\ UNCHANGED << intrRing, intrHw, msi, coal, events, scheduled >>

\* The index is reported through the last queue that had an entry, in this call
\* or before it (prev_descq).  The hardware interrupts again for entries that
\* came after the last look at the ring.
IntrReport ==
    /\ irqPc = "report"
    /\ irqPc' = "idle"
    /\ IF scheduled = << >> THEN UNCHANGED << intrHw, msi >>
       ELSE LET beyond == coal.sw_cidx # intrHw.pidx
            IN  /\ intrHw' = [intrHw EXCEPT !.told = coal.sw_cidx, !.unanswered = beyond]
                /\ msi' = (msi \/ beyond)
    /\ UNCHANGED << intrRing, coal, events, scheduled >>

\* Nothing is left to do.
IntrQuiet == Len(scheduled) = MaxEvents /\ ~msi /\ irqPc = "idle" /\ UNCHANGED intrVars

IntrNext == \/ IntrBegin \/ IntrTake \/ IntrBreak \/ IntrReport \/ IntrQuiet
            \/ \E q \in Qid : HwEvent(q)

IntrSpec == IntrInit /\ [][IntrNext]_intrVars

-----------------------------------------------------------------------------
\* The handler of data_intr_aggregate tells new entries from those of the turn
\* before by their colour alone, while the hardware goes on writing: every event
\* is passed on once, in order, and when no handler runs and no interrupt is on
\* its way none is left in the ring.
EventsPassedOn ==
    /\ Len(scheduled) <= Len(events)
    /\ \A k \in 1 .. Len(scheduled) : scheduled[k] = events[k]
    /\ irqPc = "idle" /\ ~msi => Len(scheduled) = Len(events)
=============================================================================
