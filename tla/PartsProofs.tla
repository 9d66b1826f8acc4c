---------------------------- MODULE PartsProofs -----------------------------
(***************************************************************************)
(* Five parts that keep no state in common, for every size.                *)
(*                                                                         *)
(* The table of queues: while callers name the index of the queue they     *)
(* add, and a failure inside an add is one that libqdma takes back, every  *)
(* added queue has its owner and the queues of an index agree on their     *)
(* mode.                                                                   *)
(*                                                                         *)
(* QueueRanges: what it gives to whatever implements it.                   *)
(*                                                                         *)
(* The aggregation ring: the colour of an entry tells the handler what it  *)
(* has not taken yet, for every set of queues and number of events.        *)
(*                                                                         *)
(* The streaming receive queue: what the driver has not read yet is told   *)
(* by colours too, and a packet says only how long it is, so the driver    *)
(* counts again the buffers it took.  Where both count the same, no        *)
(* completion waits unannounced and the hardware is never handed a buffer  *)
(* that still holds data, for every size of the rings and of the buffers;  *)
(* and where requests end where buffers end, or a handler takes packets,   *)
(* the readers get the stream in order and once, and wait only for data.   *)
(*                                                                         *)
(* The pages under its buffers: they are cut, taken off and cut again in   *)
(* one order, so with one or two on a page no two descriptors ever share   *)
(* one.                                                                    *)
(***************************************************************************)
EXTENDS QueueTable, QueueRanges, IntrRing, StC2h, FreeList, FiniteSetTheorems, TLAPS

-----------------------------------------------------------------------------
(* The table of queues. *)


\* The indices are named; the only failure is the one a virtual function takes
\* back.
Named == Asked \subseteq Idx /\ Faults \subseteq {"prep"} /\ (Vf \/ Faults = {})

TableType ==
    /\ tab \in [Kind -> [Idx -> [state: {"DISABLED", "ENABLED", "ONLINE"}, st: BOOLEAN]]]
    /\ qdata \in [Kind -> [Idx -> [qhndl: BOOLEAN, xcdev: BOOLEAN]]]
    /\ cdev \in [Idx -> SUBSET Dir]

\* The driver's records follow the queues exactly.
Follows ==
    /\ \A t \in Kind, i \in Idx : Added(t, i) => qdata[t][i].qhndl
    /\ \A t \in Dir, i \in Idx : qdata[t][i].xcdev <=> Added(t, i)
    /\ \A t \in Dir, i \in Idx : t \in cdev[i] <=> Added(t, i)

TableInv == TableType /\ Follows /\ ModesAgree

-----------------------------------------------------------------------------
LEMMA KindDir == Dir \subseteq Kind /\ "CMPT" \in Kind /\ "CMPT" \notin Dir
BY DEF Dir, Kind

LEMMA PeerDir == \A t \in Dir : Peer(t) \in Dir /\ Peer(t) # t
BY DEF Dir, Peer

\* With the index named, the queue used is the one asked for, and it is usable.
LEMMA ChosenNamed ==
    ASSUME Named, NEW t \in Kind, NEW st \in BOOLEAN, NEW ask \in Asked, NEW c \in Chosen(t, ask, st)
    PROVE  c.qidx = ask /\ c.slot = ask /\ ask \in Idx /\ is_usable_queue(t, ask, st)
<1>1. ask \in Idx /\ ask # AnyIdx
  BY QueueTableAssumption DEF Named
<1>. QED BY <1>1 DEF Chosen

\* A queue that is usable is not there, and its mode is that of its peer.
LEMMA UsableMeans ==
    ASSUME TableType, NEW t \in Kind, NEW i \in Idx, NEW st \in BOOLEAN,
           is_usable_queue(t, i, st)
    PROVE  /\ ~Added(t, i)
           /\ t = "CMPT" => ~Streams(i)
           /\ t \in Dir => /\ ~(st /\ Added("CMPT", i))
                           /\ Added(Peer(t), i) => (st <=> Streams(i))
BY KindDir DEF is_usable_queue

-----------------------------------------------------------------------------
(* The records. *)

LEMMA InitInv == TableInit => TableInv
<1> SUFFICES ASSUME TableInit PROVE TableInv
  OBVIOUS
<1>1. TableType
  BY DEF TableInit, TableType, Unowned
<1>2. \A t \in Kind, i \in Idx : ~Added(t, i)
  BY DEF TableInit, Added
<1>3. Follows
  BY <1>2, KindDir DEF TableInit, Follows, Unowned
<1>4. ModesAgree
  BY <1>2 DEF ModesAgree, Kind, Dir
<1>. QED BY <1>1, <1>3, <1>4 DEF TableInv

\* Registering a queue that was not there completes the records of its index.
LEMMA RegisterFollows ==
    ASSUME Named, TableInv, NEW t \in Kind, NEW i \in Idx, ~Added(t, i),
           Register(t, i), NEW st \in BOOLEAN,
           tab' = [tab EXCEPT ![t][i] = [state |-> "ENABLED", st |-> st]]
    PROVE  TableType' /\ Follows'
<1>1. "cdev" \notin Faults
  BY DEF Named
<1>2. \A k \in Kind, j \in Idx : Added(k, j)' <=> (Added(k, j) \/ (k = t /\ j = i))
  BY DEF TableInv, TableType, Added
<1>3. tab' \in [Kind -> [Idx -> [state: {"DISABLED", "ENABLED", "ONLINE"}, st: BOOLEAN]]]
  BY DEF TableInv, TableType
<1>4. CASE t \in Dir /\ qdata[Peer(t)][i].xcdev
  <2>1. /\ qdata' = [qdata EXCEPT ![t][i] = [qhndl |-> TRUE, xcdev |-> TRUE]]
        /\ cdev' = [cdev EXCEPT ![i] = @ \union {t}]
    BY <1>4, KindDir DEF Register
  <2>2. TableType'
    BY <1>3, <1>4, <2>1 DEF TableInv, TableType
  <2>3. \A k \in Kind, j \in Idx :
          qdata'[k][j] = IF k = t /\ j = i THEN [qhndl |-> TRUE, xcdev |-> TRUE] ELSE qdata[k][j]
    BY <2>1 DEF TableInv, TableType
  <2>4. \A k \in Dir, j \in Idx : k \in cdev'[j] <=> (k \in cdev[j] \/ (k = t /\ j = i))
    BY <2>1 DEF TableInv, TableType
  <2>. QED BY <1>2, <2>2, <2>3, <2>4, KindDir DEF TableInv, Follows
<1>5. CASE t \in Dir /\ ~qdata[Peer(t)][i].xcdev
  <2>1. /\ qdata' = [qdata EXCEPT ![t][i] = [qhndl |-> TRUE, xcdev |-> TRUE]]
        /\ cdev' = [cdev EXCEPT ![i] = {t}]
    BY <1>1, <1>5, KindDir DEF Register
  <2>2. TableType'
    BY <1>3, <1>5, <2>1 DEF TableInv, TableType
  <2>3. \A k \in Kind, j \in Idx :
          qdata'[k][j] = IF k = t /\ j = i THEN [qhndl |-> TRUE, xcdev |-> TRUE] ELSE qdata[k][j]
    BY <2>1 DEF TableInv, TableType
  <2>4. \A k \in Dir : k = t \/ k = Peer(t)
    BY <1>5 DEF Dir, Peer
  <2>5. ~Added(Peer(t), i)
    BY <1>5, PeerDir DEF TableInv, Follows
  <2>6. \A k \in Dir, j \in Idx : k \in cdev'[j] <=> (Added(k, j) \/ (k = t /\ j = i))
    BY <2>1, <2>4, <2>5, PeerDir DEF TableInv, TableType, Follows
  <2>. QED BY <1>2, <2>2, <2>3, <2>6, KindDir DEF TableInv, Follows
<1>6. CASE t = "CMPT"
  <2>1. /\ qdata' = [qdata EXCEPT ![t][i] = [qhndl |-> TRUE, xcdev |-> FALSE]]
        /\ cdev' = cdev
    BY <1>6, KindDir DEF Register
  <2>2. TableType'
    BY <1>3, <2>1 DEF TableInv, TableType
  <2>3. \A k \in Kind, j \in Idx :
          qdata'[k][j] = IF k = t /\ j = i THEN [qhndl |-> TRUE, xcdev |-> FALSE] ELSE qdata[k][j]
    BY <2>1 DEF TableInv, TableType
  <2>. QED BY <1>2, <1>6, <2>1, <2>2, <2>3, KindDir DEF TableInv, Follows
<1>. QED BY <1>4, <1>5, <1>6 DEF Kind

\* A queue that was not there and agrees with the ones of its index.
LEMMA AddModes ==
    ASSUME TableInv, NEW t \in Kind, NEW i \in Idx, NEW st \in BOOLEAN,
           ~(st /\ t = "CMPT"), is_usable_queue(t, i, st),
           tab' = [tab EXCEPT ![t][i] = [state |-> "ENABLED", st |-> st]]
    PROVE  ModesAgree'
<1>1. \A k \in Kind, j \in Idx :
        tab'[k][j] = IF k = t /\ j = i THEN [state |-> "ENABLED", st |-> st] ELSE tab[k][j]
  BY DEF TableInv, TableType
<1>2. /\ ~Added(t, i)
      /\ t = "CMPT" => ~Streams(i)
      /\ t \in Dir => /\ ~(st /\ Added("CMPT", i))
                      /\ Added(Peer(t), i) => (st <=> Streams(i))
  BY UsableMeans DEF TableInv
<1>3. \A k \in Kind, j \in Idx : Added(k, j)' <=> (Added(k, j) \/ (k = t /\ j = i))
  BY <1>1 DEF Added
<1>4. \A j \in Idx : j # i => (Streams(j)' <=> Streams(j))
  BY <1>1, <1>3, KindDir DEF Streams
<1>5. Streams(i)' <=> (Streams(i) \/ (t \in Dir /\ st))
  BY <1>1, <1>2, <1>3, KindDir DEF Streams
<1>6. \A j \in Idx : Added("CMPT", j)' => ~Streams(j)'
  BY <1>2, <1>3, <1>4, <1>5, KindDir DEF TableInv, ModesAgree
<1>7. \A j \in Idx : Added("H2C", j)' /\ Added("C2H", j)' => tab'["H2C"][j].st = tab'["C2H"][j].st
  <2> SUFFICES ASSUME NEW j \in Idx, Added("H2C", j)', Added("C2H", j)'
               PROVE  tab'["H2C"][j].st = tab'["C2H"][j].st
    OBVIOUS
  <2>1. "H2C" \in Dir /\ "C2H" \in Dir
    BY DEF Dir
  <2>2. CASE j = i /\ t \in Dir
    <3>1. Added(Peer(t), i)
      BY <1>3, <2>1, <2>2, PeerDir, KindDir DEF Peer, Dir
    <3>2. st <=> Streams(i)
      BY <1>2, <2>2, <3>1
    <3>3. Streams(i) <=> tab[Peer(t)][i].st
      BY <1>2, <2>2, <3>1 DEF Streams, Peer, Dir
    <3>4. tab[Peer(t)][i].st \in BOOLEAN
      BY <2>2, PeerDir, KindDir DEF TableInv, TableType
    <3>5. st = tab[Peer(t)][i].st
      BY <3>2, <3>3, <3>4
    <3>. QED BY <3>5, <1>1, <2>1, <2>2, PeerDir, KindDir DEF Peer, Dir
  <2>3. CASE ~(j = i /\ t \in Dir)
    BY <1>1, <1>3, <2>1, <2>3, KindDir DEF TableInv, ModesAgree
  <2>. QED BY <2>2, <2>3
<1>. QED BY <1>6, <1>7 DEF ModesAgree

-----------------------------------------------------------------------------
(* The operations. *)

QState == {"DISABLED", "ENABLED", "ONLINE"}

LEMMA StateType ==
    ASSUME TableType, NEW t \in Kind, NEW i \in Idx, NEW e \in QState
    PROVE  [tab EXCEPT ![t][i].state = e] \in [Kind -> [Idx -> [state: QState, st: BOOLEAN]]]
<1>1. tab \in [Kind -> [Idx -> [state: QState, st: BOOLEAN]]]
  BY DEF TableType, QState
<1>2. [tab[t][i] EXCEPT !.state = e] \in [state: QState, st: BOOLEAN]
  BY <1>1
<1>3. [tab[t] EXCEPT ![i] = [tab[t][i] EXCEPT !.state = e]] \in [Idx -> [state: QState, st: BOOLEAN]]
  BY <1>1, <1>2
<1>4. [tab EXCEPT ![t] = [tab[t] EXCEPT ![i] = [tab[t][i] EXCEPT !.state = e]]]
        \in [Kind -> [Idx -> [state: QState, st: BOOLEAN]]]
  BY <1>1, <1>3
<1>. QED BY <1>4

LEMMA SameKeeps ==
    ASSUME TableInv, UNCHANGED << tab, qdata, cdev >>
    PROVE  TableInv'
<1>1. TableType'
  BY DEF TableInv, TableType
<1>2. \A k, j : Added(k, j)' <=> Added(k, j)
  BY DEF Added
<1>3. Follows'
  BY <1>2 DEF TableInv, Follows
<1>4. \A j : Streams(j)' <=> Streams(j)
  BY <1>2 DEF Streams
<1>5. ModesAgree'
  BY <1>2, <1>4 DEF TableInv, ModesAgree
<1>. QED BY <1>1, <1>3, <1>5 DEF TableInv

LEMMA AddKeeps ==
    ASSUME Named, TableInv, NEW t \in Kind, NEW st \in BOOLEAN, NEW ask \in Asked,
           AddQueue(t, ask, st)
    PROVE  TableInv'
<1>1. PICK c \in Chosen(t, ask, st) :
          \/ /\ tab' = [tab EXCEPT ![t][c.slot] = [state |-> "ENABLED", st |-> st]]
             /\ Register(t, c.qidx)
          \/ /\ "prep" \in Faults
             /\ tab' = [tab EXCEPT ![t][c.slot] = PrepFailed(@)]
             /\ UNCHANGED << qdata, cdev >>
  BY DEF AddQueue, Named
<1>2. c.qidx = ask /\ c.slot = ask /\ ask \in Idx /\ is_usable_queue(t, ask, st)
  BY ChosenNamed
<1>3. ~Added(t, ask)
  BY <1>2, UsableMeans DEF TableInv
<1>4. ~(st /\ t = "CMPT")
  BY DEF AddQueue
<1>5. CASE /\ tab' = [tab EXCEPT ![t][c.slot] = [state |-> "ENABLED", st |-> st]]
           /\ Register(t, c.qidx)
  <2>1. tab' = [tab EXCEPT ![t][ask] = [state |-> "ENABLED", st |-> st]] /\ Register(t, ask)
    BY <1>2, <1>5
  <2>2. TableType' /\ Follows'
    BY <1>2, <1>3, <2>1, RegisterFollows
  <2>3. ModesAgree'
    BY <1>2, <1>4, <2>1, AddModes
  <2>. QED BY <2>2, <2>3 DEF TableInv
<1>6. CASE /\ "prep" \in Faults
           /\ tab' = [tab EXCEPT ![t][c.slot] = PrepFailed(@)]
           /\ UNCHANGED << qdata, cdev >>
  <2>1. Vf
    BY <1>6 DEF Named
  <2>2. tab[t][ask] \in [state: {"DISABLED", "ENABLED", "ONLINE"}, st: BOOLEAN]
        /\ tab[t][ask].state = "DISABLED"
    BY <1>2, <1>3 DEF TableInv, TableType, Added
  <2>3. PrepFailed(tab[t][ask]) = tab[t][ask]
    BY <2>1, <2>2 DEF PrepFailed
  <2>4. tab' = tab
    BY <1>2, <1>6, <2>3 DEF TableInv, TableType
  <2>5. UNCHANGED << tab, qdata, cdev >>
    BY <1>6, <2>4
  <2>. QED BY <2>5, SameKeeps
<1>. QED BY <1>1, <1>5, <1>6

\* Starting and stopping a queue leaves it added.
LEMMA StateKeeps ==
    ASSUME TableInv, NEW t \in Kind, NEW i \in Idx, Added(t, i),
           NEW e \in {"ENABLED", "ONLINE"},
           tab' = [tab EXCEPT ![t][i].state = e], UNCHANGED << qdata, cdev >>
    PROVE  TableInv'
<1>1. \A k \in Kind, j \in Idx :
        /\ tab'[k][j].state = IF k = t /\ j = i THEN e ELSE tab[k][j].state
        /\ tab'[k][j].st = tab[k][j].st
  BY DEF TableInv, TableType
<1>2. TableType'
  BY StateType DEF TableInv, TableType, QState
<1>3. \A k \in Kind, j \in Idx : Added(k, j)' <=> Added(k, j)
  BY <1>1 DEF Added
<1>4. \A j \in Idx : Streams(j)' <=> Streams(j)
  BY <1>1, <1>3, KindDir DEF Streams
<1>. QED BY <1>1, <1>2, <1>3, <1>4, KindDir DEF TableInv, Follows, ModesAgree, Kind, Dir

LEMMA RemoveKeeps ==
    ASSUME TableInv, NEW t \in Kind, NEW i \in Idx, RemoveQueue(t, i)
    PROVE  TableInv'
<1>1. /\ tab' = [tab EXCEPT ![t][i].state = "DISABLED"]
      /\ qdata' = [qdata EXCEPT ![t][i] = Unowned]
      /\ cdev' = [cdev EXCEPT ![i] = @ \ {t}]
  BY DEF RemoveQueue
<1>2. \A k \in Kind, j \in Idx :
        /\ tab'[k][j].state = IF k = t /\ j = i THEN "DISABLED" ELSE tab[k][j].state
        /\ tab'[k][j].st = tab[k][j].st
  BY <1>1 DEF TableInv, TableType
<1>3. TableType'
  <2>1. tab' \in [Kind -> [Idx -> [state: QState, st: BOOLEAN]]]
    BY <1>1, StateType DEF TableInv, QState
  <2>2. qdata' \in [Kind -> [Idx -> [qhndl: BOOLEAN, xcdev: BOOLEAN]]]
    BY <1>1 DEF TableInv, TableType, Unowned
  <2>3. cdev' \in [Idx -> SUBSET Dir]
    BY <1>1 DEF TableInv, TableType
  <2>. QED BY <2>1, <2>2, <2>3 DEF TableType, QState
<1>4. \A k \in Kind, j \in Idx : Added(k, j)' <=> (Added(k, j) /\ ~(k = t /\ j = i))
  BY <1>2 DEF Added
<1>5. \A k \in Kind, j \in Idx :
        qdata'[k][j] = IF k = t /\ j = i THEN [qhndl |-> FALSE, xcdev |-> FALSE] ELSE qdata[k][j]
  BY <1>1 DEF TableInv, TableType, Unowned
<1>6. \A k \in Dir, j \in Idx : k \in cdev'[j] <=> (k \in cdev[j] /\ ~(k = t /\ j = i))
  BY <1>1 DEF TableInv, TableType
<1>7. Follows'
  BY <1>4, <1>5, <1>6, KindDir DEF TableInv, Follows
<1>8. \A j \in Idx : Streams(j)' => Streams(j)
  BY <1>2, <1>4, KindDir DEF Streams
<1>9. ModesAgree'
  BY <1>2, <1>4, <1>8, KindDir DEF TableInv, ModesAgree, Kind, Dir
<1>. QED BY <1>3, <1>7, <1>9 DEF TableInv

\* Going through the records of an index once per direction destroys the
\* character device whether one or both share it.
LEMMA VisitTwice ==
    ASSUME TableInv, NEW i \in Idx
    PROVE  Visit(Visit(cdev[i], qdata["H2C"][i]), qdata["C2H"][i]) = {}
<1>1. /\ qdata["H2C"][i].xcdev <=> "H2C" \in cdev[i]
      /\ qdata["C2H"][i].xcdev <=> "C2H" \in cdev[i]
      /\ cdev[i] \subseteq {"H2C", "C2H"}
  BY DEF TableInv, TableType, Follows, Dir
<1>2. Cardinality({"H2C"}) = 1 /\ Cardinality({"C2H"}) = 1
  BY FS_Singleton
<1>3. Cardinality({"H2C", "C2H"}) = 2
  <2>1. IsFiniteSet({"H2C"}) /\ "C2H" \notin {"H2C"}
    BY FS_Singleton
  <2>2. Cardinality({"H2C"} \union {"C2H"}) = Cardinality({"H2C"}) + 1
    BY <2>1, FS_AddElement
  <2>3. {"H2C"} \union {"C2H"} = {"H2C", "C2H"}
    OBVIOUS
  <2>. QED BY <1>2, <2>2, <2>3
<1>4. cdev[i] \in {{}, {"H2C"}, {"C2H"}, {"H2C", "C2H"}}
  BY <1>1
<1>5. CASE cdev[i] = {}
  BY <1>1, <1>5 DEF Visit
<1>6. CASE cdev[i] = {"H2C"}
  BY <1>1, <1>2, <1>6 DEF Visit
<1>7. CASE cdev[i] = {"C2H"}
  BY <1>1, <1>2, <1>7 DEF Visit
<1>8. CASE cdev[i] = {"H2C", "C2H"}
  BY <1>1, <1>2, <1>3, <1>8 DEF Visit
<1>. QED BY <1>4, <1>5, <1>6, <1>7, <1>8

LEMMA ResetKeeps ==
    ASSUME TableInv, ResetDevice
    PROVE  TableInv'
<1>1. /\ tab' = [t \in Kind |-> [i \in Idx |-> [state |-> "DISABLED", st |-> FALSE]]]
      /\ cdev' = [i \in Idx |-> Visit(Visit(cdev[i], qdata["H2C"][i]), qdata["C2H"][i])]
      /\ qdata' = [qdata EXCEPT !["H2C"] = [i \in Idx |-> Unowned],
                                !["C2H"] = [i \in Idx |-> Unowned]]
  BY DEF ResetDevice
<1>2. \A i \in Idx : cdev'[i] = {}
  BY <1>1, VisitTwice
<1>3. cdev' \in [Idx -> SUBSET Dir]
  <2>1. cdev' = [i \in Idx |-> {}]
    BY <1>1, VisitTwice
  <2>. QED BY <2>1
<1>4. qdata' \in [Kind -> [Idx -> [qhndl: BOOLEAN, xcdev: BOOLEAN]]]
  BY <1>1 DEF TableInv, TableType, Unowned
<1>5. tab' \in [Kind -> [Idx -> [state: {"DISABLED", "ENABLED", "ONLINE"}, st: BOOLEAN]]]
  BY <1>1
<1>6. \A t \in Kind, i \in Idx : ~Added(t, i)'
  BY <1>1 DEF Added
<1>7. \A t \in Dir, i \in Idx : ~qdata'[t][i].xcdev
  BY <1>1 DEF TableInv, TableType, Unowned, Dir, Kind
<1>8. Follows'
  BY <1>2, <1>6, <1>7, KindDir DEF Follows
<1>9. ModesAgree'
  BY <1>6 DEF ModesAgree, Kind, Dir
<1>. QED BY <1>3, <1>4, <1>5, <1>8, <1>9 DEF TableInv, TableType

-----------------------------------------------------------------------------
(* The theorems. *)

\* The records follow the queues and the modes agree, whatever is called.
THEOREM TableInvHolds ==
    ASSUME Named PROVE TableSpec => []TableInv
<1>1. TableInv /\ [TableNext]_tableVars => TableInv'
  <2> SUFFICES ASSUME TableInv, [TableNext]_tableVars PROVE TableInv'
    OBVIOUS
  <2>1. ASSUME NEW t \in Kind, NEW st \in BOOLEAN, NEW ask \in Asked, AddQueue(t, ask, st)
        PROVE  TableInv'
    BY <2>1, AddKeeps
  <2>2. ASSUME NEW t \in Kind, NEW i \in Idx, StartQueue(t, i)
        PROVE  TableInv'
    <3>1. Added(t, i) /\ tab' = [tab EXCEPT ![t][i].state = "ONLINE"] /\ UNCHANGED << qdata, cdev >>
      BY <2>2 DEF StartQueue, Added
    <3>. QED BY <3>1, StateKeeps
  <2>3. ASSUME NEW t \in Kind, NEW i \in Idx, StopQueue(t, i)
        PROVE  TableInv'
    <3>1. Added(t, i) /\ tab' = [tab EXCEPT ![t][i].state = "ENABLED"] /\ UNCHANGED << qdata, cdev >>
      BY <2>3 DEF StopQueue, Added
    <3>. QED BY <3>1, StateKeeps
  <2>4. ASSUME NEW t \in Kind, NEW i \in Idx, RemoveQueue(t, i)
        PROVE  TableInv'
    BY <2>4, RemoveKeeps
  <2>5. CASE ResetDevice
    BY <2>5, ResetKeeps
  <2>6. CASE UNCHANGED tableVars
    BY <2>6, SameKeeps DEF tableVars
  <2>. QED BY <2>1, <2>2, <2>3, <2>4, <2>5, <2>6 DEF TableNext
<1>. QED BY <1>1, InitInv, PTL DEF TableSpec

\* However many queues the device has, every queue that qdma_queue_add has left
\* enabled is one the driver can remove, and the character devices are those of
\* the queues there are (QueueHasOwner), as long as indices are named.
THEOREM EveryQueueHasOwner ==
    ASSUME Named PROVE TableSpec => []QueueHasOwner
<1>1. TableInv => QueueHasOwner
  <2> SUFFICES ASSUME TableInv PROVE QueueHasOwner
    OBVIOUS
  <2>1. \A i \in Idx : cdev[i] = {t \in Dir : Added(t, i)}
    BY DEF TableInv, TableType, Follows
  <2>. QED BY <2>1 DEF TableInv, Follows, QueueHasOwner
<1>. QED BY <1>1, TableInvHolds, PTL

\* The checks of is_usable_queue are enough for any number of queues, added and
\* removed in any order (ModesAgree).
THEOREM ModesAlwaysAgree ==
    ASSUME Named PROVE TableSpec => []ModesAgree
<1>1. TableInv => ModesAgree
  BY DEF TableInv
<1>. QED BY <1>1, TableInvHolds, PTL

-----------------------------------------------------------------------------
(* The ranges of queues. *)


RangeType == owned \in [Func -> SUBSET AllQueues] /\ avail \subseteq AllQueues
RangeInv  == RangeType /\ Partition

\* A function gives back its range and takes a part of what is then
\* available, which may be nothing: nobody loses or shares a queue.
LEMMA ReassignKeeps ==
  ASSUME RangeInv, NEW f \in Func, NEW new,
         new \subseteq avail \cup owned[f],
         owned' = [owned EXCEPT ![f] = new],
         avail' = (avail \cup owned[f]) \ new
  PROVE  RangeInv'
<1>1. RangeType'
  BY DEF RangeInv, RangeType, AllQueues, Stretch
<1>2. \A g \in Func : owned'[g] = IF g = f THEN new ELSE owned[g]
  BY DEF RangeInv, RangeType
<1>3. \A g \in Func : g # f => new \cap owned[g] = {}
  BY DEF RangeInv, Partition
<1>4. \A g, g2 \in Func : g # g2 => owned'[g] \cap owned'[g2] = {}
  BY <1>2, <1>3 DEF RangeInv, Partition
<1>5. \A g \in Func : owned'[g] \cap avail' = {}
  BY <1>2, <1>3 DEF RangeInv, Partition
<1>6. ASSUME NEW e
      PROVE  e \in AllQueues
             <=> e \in avail' \/ \E g \in Func : e \in owned'[g]
  <2>1. e \in AllQueues <=> e \in avail \/ \E g \in Func : e \in owned[g]
    BY DEF RangeInv, Partition
  <2>2. CASE e \in avail \cup owned[f]
    BY <1>2, <2>1, <2>2
  <2>3. CASE e \notin avail \cup owned[f]
    BY <1>2, <2>1, <2>3
  <2>4. QED BY <2>2, <2>3
<1>7. AllQueues' = avail' \cup UNION {owned'[g] : g \in Func}
  BY <1>6 DEF AllQueues, Stretch
<1>8. QED BY <1>1, <1>4, <1>5, <1>7 DEF RangeInv, Partition

LEMMA RangeStep ==
  ASSUME RangeInv, [RangeNext]_rangeVars
  PROVE  RangeInv'
<1>1. CASE UNCHANGED <<owned, avail>>
  BY <1>1 DEF RangeInv, RangeType, Partition, AllQueues, Stretch
<1>2. ASSUME NEW f \in Func, Reassign(f)
      PROVE  RangeInv'
  BY <1>2, ReassignKeeps DEF Reassign
<1>3. ASSUME NEW f \in Func, Leave(f)
      PROVE  RangeInv'
  <2>1. CASE UNCHANGED <<owned, avail>>
    BY <1>1, <2>1
  <2>2. CASE /\ owned' = [owned EXCEPT ![f] = {}]
             /\ avail' = avail \cup owned[f]
    <3>1. avail' = (avail \cup owned[f]) \ {}
      BY <2>2
    <3>2. QED BY <2>2, <3>1, ReassignKeeps
  <2>3. QED BY <1>3, <2>1, <2>2 DEF Leave
<1>4. ASSUME NEW f \in Func, Use(f)
      PROVE  RangeInv'
  BY <1>1, <1>4 DEF Use
<1>5. QED BY <1>1, <1>2, <1>3, <1>4 DEF RangeNext, rangeVars

(***************************************************************************)
(* No hardware queue is ever owned by two functions, none that is owned is *)
(* handed out again, and none is lost.                                     *)
(***************************************************************************)
THEOREM RangesPartition == RangeSpec => []Partition
<1>1. RangeInit => RangeInv
  <2> SUFFICES ASSUME RangeInit PROVE RangeInv
    OBVIOUS
  <2>1. \A f \in Func : owned[f] = {}
    BY DEF RangeInit
  <2>2. UNION {owned[f] : f \in Func} = {}
    BY <2>1
  <2>3. QED BY <2>1, <2>2 DEF RangeInit, RangeInv, RangeType, Partition
<1>2. RangeInv /\ [RangeNext]_rangeVars => RangeInv'
  BY RangeStep
<1>3. RangeInv => Partition
  BY DEF RangeInv
<1>4. QED BY <1>1, <1>2, <1>3, PTL DEF RangeSpec

-----------------------------------------------------------------------------
(* The aggregation ring. *)

Place == 0 .. Entries - 1

IntrTypeOK ==
    /\ intrRing \in [Place -> [coal_color : {0, 1}, qid : Qid]]
    /\ intrHw \in [pidx : Place, color : {0, 1}, told : Place, unanswered : BOOLEAN]
    /\ coal \in [sw_cidx : Place, color : {0, 1}]
    /\ msi \in BOOLEAN /\ irqPc \in {"idle", "loop", "report"}
    /\ events \in Seq(Qid) /\ scheduled \in Seq(Qid)

\* The number of entries from place c to place p, in the same turn of the ring
\* or with p in the next one.
Gap(p, c, same) == IF same THEN p - c ELSE p - c + Entries

\* The number of entries that are written and not taken.
Unseen == Gap(intrHw.pidx, coal.sw_cidx, coal.color = intrHw.color)

\* The number of entries the hardware does not know to be free.
Away == Gap(intrHw.pidx, intrHw.told, intrHw.told <= intrHw.pidx)

AheadOK == 0 <= Unseen /\ Unseen <= Away

\* In front of the hardware are entries of this turn, from it on older ones.
ColorsOK == \A i \in Place : intrRing[i].coal_color =
                IF i < intrHw.pidx THEN intrHw.color ELSE Flip(intrHw.color)

\* The k-th entry that waits, from place c on.
Nth(c, k)  == IF c + k - 1 < Entries THEN c + k - 1 ELSE c + k - 1 - Entries
Waiting(k) == Nth(coal.sw_cidx, k)

\* The ring holds what was not passed on, and nothing else is missing.
DataOK ==
    /\ Len(events) = Len(scheduled) + Unseen
    /\ \A k \in 1 .. Len(scheduled) : scheduled[k] = events[k]
    /\ \A k \in 1 .. Unseen : intrRing[Waiting(k)].qid = events[Len(scheduled) + k]

\* Somebody will look at the ring while it is not empty.
LookOK ==
    /\ intrHw.unanswered => msi \/ irqPc # "idle"
    /\ irqPc = "idle" /\ ~msi => Unseen = 0
    /\ msi \/ irqPc # "idle" => Len(events) > 0
    /\ irqPc = "report" => Len(scheduled) > 0

IntrInv == IntrTypeOK /\ AheadOK /\ ColorsOK /\ DataOK /\ LookOK

-----------------------------------------------------------------------------
USE IntrRingAssumption

(* Places and gaps.                                                        *)

\* Moving ahead of the hardware's free entry, or of the handler.
LEMMA AwayGrows ==
    ASSUME NEW p \in Place, NEW t \in Place, NextPlace(p) # t
    PROVE  /\ Gap(p, t, t <= p) \in 0 .. Entries - 2
           /\ Gap(NextPlace(p), t, t <= NextPlace(p)) = Gap(p, t, t <= p) + 1
BY DEF Gap, NextPlace, Place

LEMMA AheadGrows ==
    ASSUME NEW p \in Place, NEW c \in Place, NEW hw \in {0, 1}, NEW sw \in {0, 1},
           Gap(p, c, sw = hw) \in 0 .. Entries - 2
    PROVE  Gap(NextPlace(p), c, sw = IF NextPlace(p) = 0 THEN Flip(hw) ELSE hw)
             = Gap(p, c, sw = hw) + 1
BY DEF Gap, NextPlace, Place, Flip

LEMMA AheadShrinks ==
    ASSUME NEW p \in Place, NEW c \in Place, NEW hw \in {0, 1}, NEW sw \in {0, 1},
           Gap(p, c, sw = hw) \in 1 .. Entries - 1
    PROVE  Gap(p, NextPlace(c), (IF NextPlace(c) = 0 THEN Flip(sw) ELSE sw) = hw)
             = Gap(p, c, sw = hw) - 1
BY DEF Gap, NextPlace, Place, Flip

\* Behind the entries that wait is the hardware's place, which is none of them.
LEMMA NthPlaces ==
    ASSUME NEW p \in Place, NEW c \in Place, NEW same \in BOOLEAN,
           Gap(p, c, same) \in 0 .. Entries - 2
    PROVE  /\ \A k \in 1 .. Gap(p, c, same) : Nth(c, k) \in Place \ {p}
           /\ Nth(c, Gap(p, c, same) + 1) = p
BY DEF Gap, Nth, Place

LEMMA NthNext ==
    ASSUME NEW c \in Place, NEW k \in 1 .. Entries - 2
    PROVE  Nth(NextPlace(c), k) = Nth(c, k + 1)
BY DEF Nth, NextPlace, Place

(* The steps.                                                              *)

\* The handler and the hardware meet the same entry just when nothing waits.
LEMMA LookAtEntry ==
    ASSUME IntrTypeOK, AheadOK, ColorsOK
    PROVE  /\ Unseen \in 0 .. Entries - 1
           /\ RingEntry.coal_color = coal.color <=> Unseen > 0
<1>1. /\ intrHw.pidx \in Place /\ coal.sw_cidx \in Place /\ intrHw.told \in Place
      /\ coal.color \in {0, 1} /\ intrHw.color \in {0, 1}
  BY DEF IntrTypeOK
<1>2. Unseen \in 0 .. Entries - 1
  BY <1>1 DEF AheadOK, Unseen, Away, Gap, Place
<1>3. RingEntry.coal_color = IF coal.sw_cidx < intrHw.pidx THEN intrHw.color ELSE Flip(intrHw.color)
  BY <1>1 DEF ColorsOK, RingEntry
<1>4. CASE coal.color = intrHw.color
  BY <1>1, <1>2, <1>3, <1>4 DEF Unseen, Gap, Flip, Place
<1>5. CASE coal.color # intrHw.color
  BY <1>1, <1>2, <1>3, <1>5 DEF Unseen, Gap, Flip, Place
<1>. QED BY <1>2, <1>4, <1>5

LEMMA IntrInitInv == IntrInit => IntrInv
<1> SUFFICES ASSUME IntrInit PROVE IntrInv
  OBVIOUS
<1>1. IntrTypeOK
  <2> DEFINE q0 == CHOOSE e \in Qid : TRUE
  <2>1. q0 \in Qid
    OBVIOUS
  <2>2. intrRing = [i \in Place |-> [coal_color |-> 0, qid |-> q0]]
    BY DEF IntrInit, Place
  <2> HIDE DEF q0
  <2>3. intrRing \in [Place -> [coal_color : {0, 1}, qid : Qid]]
    BY <2>1, <2>2
  <2>. QED BY <2>3 DEF IntrInit, IntrTypeOK, Place
<1>2. Unseen = 0 /\ Away = 0
  BY DEF IntrInit, Unseen, Away, Gap
<1>3. ColorsOK
  BY DEF IntrInit, ColorsOK, Place, Flip
<1>4. DataOK /\ LookOK
  BY <1>2 DEF IntrInit, DataOK, LookOK
<1>. QED BY <1>1, <1>2, <1>3, <1>4 DEF IntrInv, AheadOK

\* An event comes behind everything that waits, into a place of its own.
LEMMA HwEventInv ==
    ASSUME IntrInv, NEW e \in Qid, HwEvent(e) PROVE IntrInv'
<1>1. /\ intrHw.pidx \in Place /\ coal.sw_cidx \in Place /\ intrHw.told \in Place
      /\ coal.color \in {0, 1} /\ intrHw.color \in {0, 1}
      /\ events \in Seq(Qid) /\ scheduled \in Seq(Qid)
  BY DEF IntrInv, IntrTypeOK
<1>2. /\ NextPlace(intrHw.pidx) \in Place /\ Flip(intrHw.color) \in {0, 1}
      /\ Flip(Flip(intrHw.color)) = intrHw.color /\ Flip(intrHw.color) # intrHw.color
  BY <1>1 DEF NextPlace, Place, Flip
<1>3. /\ intrHw'.pidx = NextPlace(intrHw.pidx) /\ intrHw'.told = intrHw.told
      /\ intrHw'.color = IF NextPlace(intrHw.pidx) = 0 THEN Flip(intrHw.color) ELSE intrHw.color
      /\ intrHw'.unanswered
      /\ coal' = coal /\ irqPc' = irqPc /\ scheduled' = scheduled
      /\ events' = Append(events, e)
  BY DEF HwEvent, IntrInv, IntrTypeOK
<1>4. IntrTypeOK'
  <2>1. msi' \in BOOLEAN
    BY DEF HwEvent, IntrInv, IntrTypeOK
  <2>2. intrHw' \in [pidx : Place, color : {0, 1}, told : Place, unanswered : BOOLEAN]
    BY <1>1, <1>2 DEF HwEvent, IntrInv, IntrTypeOK
  <2>3. intrRing' \in [Place -> [coal_color : {0, 1}, qid : Qid]]
    BY <1>1 DEF HwEvent, IntrInv, IntrTypeOK
  <2>. QED BY <2>1, <2>2, <2>3, <1>1, <1>3 DEF IntrInv, IntrTypeOK
<1>5. Unseen' = Unseen + 1 /\ Away' = Away + 1 /\ Unseen \in 0 .. Entries - 2
  <2>1. NextPlace(intrHw.pidx) # intrHw.told
    BY DEF HwEvent
  <2>2. Away' = Away + 1 /\ Away \in 0 .. Entries - 2
    BY <1>1, <1>3, <2>1, AwayGrows DEF Away
  <2>3. Unseen \in 0 .. Entries - 2
    BY <1>1, <2>2 DEF IntrInv, AheadOK, Unseen, Gap, Place
  <2>4. Unseen' = Unseen + 1
    BY <1>1, <1>3, <2>3, AheadGrows DEF Unseen
  <2>. QED BY <2>2, <2>3, <2>4
<1>6. AheadOK'
  BY <1>1, <1>5 DEF IntrInv, AheadOK, Away, Gap, Place
<1>7. ColorsOK'
  <2> SUFFICES ASSUME NEW i \in Place
               PROVE  intrRing'[i].coal_color =
                        IF i < intrHw'.pidx THEN intrHw'.color ELSE Flip(intrHw'.color)
    BY DEF ColorsOK
  <2>1. intrRing'[i].coal_color = IF i = intrHw.pidx THEN intrHw.color ELSE intrRing[i].coal_color
    BY <1>1 DEF HwEvent, IntrInv, IntrTypeOK
  <2>2. intrRing[i].coal_color = IF i < intrHw.pidx THEN intrHw.color ELSE Flip(intrHw.color)
    BY DEF IntrInv, ColorsOK
  <2>. QED BY <1>1, <1>2, <1>3, <2>1, <2>2 DEF NextPlace, Place
<1>8. DataOK'
  <2>1. /\ Len(events') = Len(events) + 1 /\ events'[Len(events) + 1] = e
        /\ \A k \in 1 .. Len(events) : events'[k] = events[k]
        /\ Len(events) \in Nat /\ Len(scheduled) \in Nat
    BY <1>1, <1>3
  <2>2. /\ Len(events) = Len(scheduled) + Unseen
        /\ \A k \in 1 .. Len(scheduled) : scheduled[k] = events[k]
        /\ \A k \in 1 .. Unseen : intrRing[Waiting(k)].qid = events[Len(scheduled) + k]
    BY DEF IntrInv, DataOK
  <2>3. \A k \in 1 .. Unseen : /\ Waiting(k) \in Place \ {intrHw.pidx}
                              /\ Len(scheduled) + k \in 1 .. Len(events)
    <3>1. \A k \in 1 .. Unseen : Waiting(k) \in Place \ {intrHw.pidx}
      BY <1>1, <1>5, NthPlaces DEF Waiting, Unseen
    <3>2. Len(events) \in Nat /\ Len(scheduled) \in Nat /\ Len(events) = Len(scheduled) + Unseen
      BY <2>1, <2>2
    <3>3. \A k \in 1 .. Unseen : Len(scheduled) + k \in 1 .. Len(events)
      BY <1>5, <3>2
    <3>. QED BY <3>1, <3>3
  <2>4. Waiting(Unseen + 1) = intrHw.pidx
    BY <1>1, <1>5, NthPlaces DEF Waiting, Unseen
  <2>5. \A i \in Place : intrRing'[i].qid = IF i = intrHw.pidx THEN e ELSE intrRing[i].qid
    BY <1>1 DEF HwEvent, IntrInv, IntrTypeOK
  <2>6. ASSUME NEW k \in 1 .. Unseen + 1
        PROVE  intrRing'[Waiting(k)].qid = events'[Len(scheduled) + k]
    <3>1. CASE k = Unseen + 1
      <4>1. Len(scheduled) + k = Len(events) + 1
        <5>1. Len(events) \in Nat /\ Len(scheduled) \in Nat /\ Len(events) = Len(scheduled) + Unseen
          BY <2>1, <2>2
        <5>. QED BY <3>1, <1>5, <5>1
      <4>2. intrRing'[Waiting(k)].qid = e
        BY <3>1, <1>1, <2>4, <2>5
      <4>. QED BY <4>1, <4>2, <2>1
    <3>2. CASE k # Unseen + 1
      <4>1. k \in 1 .. Unseen
        BY <3>2, <1>5
      <4>. QED BY <4>1, <2>1, <2>2, <2>3, <2>5
    <3>. QED BY <3>1, <3>2
  <2>7. \A k : Waiting(k)' = Waiting(k)
    BY <1>3 DEF Waiting
  <2>8. \A k \in 1 .. Len(scheduled) : scheduled[k] = events'[k]
    BY <1>5, <2>1, <2>2
  <2>9. Len(events') = Len(scheduled) + (Unseen + 1)
    BY <1>5, <2>1, <2>2
  <2>. QED BY <1>3, <1>5, <2>6, <2>7, <2>8, <2>9 DEF DataOK
<1>9. LookOK'
  <2>1. msi' \/ irqPc # "idle"
    BY DEF HwEvent, IntrInv, LookOK
  <2>2. Len(events') > 0
    BY <1>1, <1>3
  <2>. QED BY <1>3, <2>1, <2>2 DEF IntrInv, LookOK
<1>. QED BY <1>4, <1>6, <1>7, <1>8, <1>9 DEF IntrInv

\* What is taken is the oldest event that waits.
LEMMA TakeInv == ASSUME IntrInv, IntrTake PROVE IntrInv'
<1>1. /\ intrHw.pidx \in Place /\ coal.sw_cidx \in Place /\ intrHw.told \in Place
      /\ coal.color \in {0, 1} /\ intrHw.color \in {0, 1}
      /\ events \in Seq(Qid) /\ scheduled \in Seq(Qid)
  BY DEF IntrInv, IntrTypeOK
<1>2. Unseen \in 1 .. Entries - 1
  BY LookAtEntry DEF IntrInv, IntrTake
<1>3. /\ coal'.sw_cidx = NextPlace(coal.sw_cidx)
      /\ coal'.color = IF NextPlace(coal.sw_cidx) = 0 THEN Flip(coal.color) ELSE coal.color
      /\ intrHw' = intrHw /\ intrRing' = intrRing /\ msi' = msi /\ irqPc' = irqPc
      /\ events' = events /\ irqPc = "loop"
      /\ scheduled' = Append(scheduled, RingEntry.qid)
  BY DEF IntrTake, Advance
<1>4. IntrTypeOK'
  <2>1. coal' \in [sw_cidx : Place, color : {0, 1}]
    BY <1>1 DEF IntrTake, Advance, NextPlace, Flip, Place
  <2>2. RingEntry.qid \in Qid
    BY <1>1 DEF RingEntry, IntrInv, IntrTypeOK
  <2>. QED BY <1>3, <2>1, <2>2 DEF IntrInv, IntrTypeOK
<1>5. Unseen' = Unseen - 1
  BY <1>1, <1>2, <1>3, AheadShrinks DEF Unseen
<1>6. AheadOK'
  <2>1. Away' = Away
    BY <1>3 DEF Away
  <2>. QED BY <1>1, <1>2, <1>5, <2>1 DEF IntrInv, AheadOK, Away, Gap, Place
<1>7. ColorsOK'
  BY <1>3 DEF IntrInv, ColorsOK
<1>8. DataOK'
  <2>1. /\ Len(scheduled') = Len(scheduled) + 1 /\ scheduled'[Len(scheduled) + 1] = RingEntry.qid
        /\ \A k \in 1 .. Len(scheduled) : scheduled'[k] = scheduled[k]
        /\ Len(events) \in Nat /\ Len(scheduled) \in Nat
    BY <1>1, <1>3
  <2>2. /\ Len(events) = Len(scheduled) + Unseen
        /\ \A k \in 1 .. Len(scheduled) : scheduled[k] = events[k]
        /\ \A k \in 1 .. Unseen : intrRing[Waiting(k)].qid = events[Len(scheduled) + k]
    BY DEF IntrInv, DataOK
  <2>3. Waiting(1) = coal.sw_cidx
    BY <1>1 DEF Waiting, Nth, Place
  <2>4. RingEntry.qid = events[Len(scheduled) + 1]
    BY <1>2, <2>2, <2>3 DEF RingEntry
  <2>5. \A k \in 1 .. Unseen - 1 : Waiting(k)' = Waiting(k + 1)
    BY <1>1, <1>2, <1>3, NthNext DEF Waiting
  <2>6. \A k \in 1 .. Len(scheduled) + 1 : scheduled'[k] = events[k]
    BY <2>1, <2>2, <2>4
  <2>7. ASSUME NEW k \in 1 .. Unseen - 1
        PROVE  intrRing[Waiting(k)'].qid = events[(Len(scheduled) + 1) + k]
    <3>1. k + 1 \in 1 .. Unseen /\ Len(scheduled) + (k + 1) = (Len(scheduled) + 1) + k
      <4>1. Len(scheduled) \in Nat
        BY <2>1
      <4>. QED BY <4>1, <1>2
    <3>. QED BY <3>1, <2>2, <2>5
  <2>8. Len(events) = (Len(scheduled) + 1) + (Unseen - 1)
    BY <1>2, <2>1, <2>2
  <2>. QED BY <1>3, <1>5, <2>1, <2>6, <2>7, <2>8 DEF DataOK
<1>9. LookOK'
  BY <1>1, <1>3 DEF IntrInv, LookOK
<1>. QED BY <1>4, <1>6, <1>7, <1>8, <1>9 DEF IntrInv

\* A handler that leaves its loop has passed on at least one event.
LEMMA BreakInv == ASSUME IntrInv, IntrBreak PROVE IntrInv'
<1>1. UNCHANGED << intrRing, intrHw, msi, coal, events, scheduled >> /\ irqPc' = "report" /\ irqPc = "loop"
  BY DEF IntrBreak
<1>2. Unseen = 0
  BY LookAtEntry DEF IntrInv, IntrBreak
<1>3. IntrTypeOK' /\ AheadOK' /\ ColorsOK' /\ DataOK'
  BY <1>1 DEF IntrInv, IntrTypeOK, AheadOK, Unseen, Away, ColorsOK, DataOK, Waiting
<1>4. LookOK'
  <2>1. Len(events) = Len(scheduled) /\ Len(events) > 0
    BY <1>1, <1>2 DEF IntrInv, DataOK, LookOK, IntrTypeOK
  <2>. QED BY <1>1, <2>1 DEF LookOK
<1>. QED BY <1>3, <1>4 DEF IntrInv

\* The handler reports how far it came, and is called again for what came since.
LEMMA ReportInv == ASSUME IntrInv, IntrReport PROVE IntrInv'
<1>1. /\ intrHw.pidx \in Place /\ coal.sw_cidx \in Place /\ intrHw.told \in Place
      /\ coal.color \in {0, 1} /\ intrHw.color \in {0, 1} /\ msi \in BOOLEAN
      /\ scheduled # << >> /\ irqPc = "report" /\ irqPc' = "idle"
      /\ UNCHANGED << intrRing, coal, events, scheduled >>
  BY DEF IntrInv, IntrTypeOK, LookOK, IntrReport
<1> DEFINE beyond == coal.sw_cidx # intrHw.pidx
<1>2. /\ intrHw' = [intrHw EXCEPT !.told = coal.sw_cidx, !.unanswered = beyond]
      /\ msi' = (msi \/ beyond)
  BY <1>1 DEF IntrReport
<1>3. /\ intrHw'.pidx = intrHw.pidx /\ intrHw'.color = intrHw.color
      /\ intrHw'.told = coal.sw_cidx /\ intrHw'.unanswered = beyond
  BY <1>2 DEF IntrInv, IntrTypeOK
<1>4. IntrTypeOK'
  BY <1>1, <1>2 DEF IntrInv, IntrTypeOK
<1>5. Unseen \in 0 .. Entries - 1 /\ Unseen' = Unseen /\ Away' = Unseen /\ (Unseen = 0 <=> ~beyond)
  <2>1. Unseen \in 0 .. Entries - 1 /\ Unseen' = Unseen
    BY <1>1, <1>3, LookAtEntry DEF IntrInv, Unseen
  <2>. QED BY <1>1, <1>3, <2>1 DEF Unseen, Away, Gap, Place
<1>6. AheadOK' /\ ColorsOK'
  BY <1>1, <1>3, <1>5 DEF IntrInv, AheadOK, ColorsOK
<1>7. DataOK'
  BY <1>1, <1>5 DEF IntrInv, DataOK, Waiting
<1>8. LookOK'
  BY <1>1, <1>2, <1>3, <1>5 DEF IntrInv, LookOK
<1>. QED BY <1>4, <1>6, <1>7, <1>8 DEF IntrInv

LEMMA IntrNextInv == IntrInv /\ [IntrNext]_intrVars => IntrInv'
<1> SUFFICES ASSUME IntrInv, [IntrNext]_intrVars PROVE IntrInv'
  OBVIOUS
<1>1. CASE IntrBegin
  <2>1. /\ UNCHANGED << intrRing, intrHw, coal, events, scheduled >>
        /\ msi /\ ~msi' /\ irqPc' = "loop" /\ msi' \in BOOLEAN
    BY <1>1 DEF IntrBegin
  <2>. QED BY <2>1 DEF IntrInv, IntrTypeOK, AheadOK, Unseen, Away, ColorsOK, DataOK, Waiting, LookOK
<1>2. CASE IntrTake
  BY <1>2, TakeInv
<1>3. CASE IntrBreak
  BY <1>3, BreakInv
<1>4. CASE IntrReport
  BY <1>4, ReportInv
<1>5. CASE UNCHANGED intrVars
  BY <1>5 DEF intrVars, IntrInv, IntrTypeOK, AheadOK, Unseen, Away, ColorsOK, DataOK, Waiting, LookOK
<1>6. ASSUME NEW e \in Qid, HwEvent(e) PROVE IntrInv'
  BY <1>6, HwEventInv
<1>. QED BY <1>1, <1>2, <1>3, <1>4, <1>5, <1>6 DEF IntrNext, IntrQuiet

\* The inductive invariant of the aggregation ring: data_intr_aggregate and the
\* hardware agree about the turn of every entry by its colour.
THEOREM IntrInvHolds == IntrSpec => []IntrInv
<1>1. IntrInit => IntrInv
  BY IntrInitInv
<1>2. IntrInv /\ [IntrNext]_intrVars => IntrInv'
  BY IntrNextInv
<1>. QED BY <1>1, <1>2, PTL DEF IntrSpec

\* Every event that the hardware enters is passed on by data_intr_aggregate once
\* and in order, and none stays behind without an interrupt to come.
THEOREM AllEventsPassedOn == IntrSpec => []EventsPassedOn
<1>1. IntrInv => EventsPassedOn
  <2> SUFFICES ASSUME IntrInv PROVE EventsPassedOn
    OBVIOUS
  <2>1. Len(events) \in Nat /\ Len(scheduled) \in Nat /\ Unseen \in Nat
    BY LookAtEntry DEF IntrInv, IntrTypeOK
  <2>. QED BY <2>1 DEF IntrInv, DataOK, LookOK, EventsPassedOn
<1>. QED BY <1>1, IntrInvHolds, PTL

-----------------------------------------------------------------------------
(* The streaming receive queue. *)
HIDE IntrRingAssumption

\* Where a packet takes as many buffers as the driver counts (get_fl_nr).
CountsRight == \A len \in PktLens : FlNr(len) = HwBufs(len)

\* The fields of the two records.
DrvFields == {"avail", "pidx", "pidxPend", "pidxInfo", "cmptCidx", "wrbCidx", "color", "dlen",
              "offset", "len", "valid", "overrun", "err", "list", "pendEmpty", "next", "proc",
              "stop", "more", "got", "taken"}
HwFields == {"pidx", "cidx", "cmptPidx", "cmptCidx", "color", "status", "armed", "units", "pkts"}
EntryAt == 0 .. RC - 1
Colour == {0, 1}

\* Entries from the driver's place on, and of them those the status shows.
Left(d)  == RingDelta(h.cmptPidx, d.cmptCidx, RC)
Shown(d) == RingDelta(h.status, d.cmptCidx, RC)

\* The entries that the driver, in state d, has not read have the colour of its
\* turn up to the end of the ring and the other one behind it.
ColoursRight(d) ==
    /\ d.color \in Colour /\ d.cmptCidx \in EntryAt
    /\ h.color = IF h.cmptPidx >= d.cmptCidx THEN d.color ELSE 1 - d.color
    /\ \A i \in EntryAt : RingDelta(i, d.cmptCidx, RC) < Left(d) =>
          /\ cmpt[i].color = IF i >= d.cmptCidx THEN d.color ELSE 1 - d.color
          /\ cmpt[i].len \in PktLens

\* The number of the first unit in slot s, or of the one to come there next.
Mark(s) == IF s = h.cidx THEN h.units ELSE mem[s]

\* A packet of that length lies in the buffers from slot s on.
Lies(s, len) ==
    /\ \A j \in 0 .. FlNr(len) - 1 : Mark(RingIncr(s, j, R)) = Mark(s) + BufSz * j
    /\ Mark(RingIncr(s, FlNr(len), R)) = Mark(s) + len

\* f[k] is how many buffers, from slot p on, the next k packets took, and where
\* the packet after them lies; all that are left take the buffers up to the
\* hardware's.
Chained(d, p, f) ==
    /\ f[0] = 0 /\ f[Left(d)] = RingDelta(h.cidx, p, R)
    /\ \A j, k \in 0 .. Left(d) : j <= k => f[j] <= f[k]
    /\ \A k \in 0 .. Left(d) - 1 : f[k + 1] = f[k] + FlNr(cmpt[RingIncr(d.cmptCidx, k, RC)].len)
    /\ \A k \in 0 .. Left(d) - 1 : Lies(RingIncr(p, f[k], R), cmpt[RingIncr(d.cmptCidx, k, RC)].len)
Packets(d, p) == \E f \in [0 .. RC -> Int] : Chained(d, p, f)

\* The driver's count is what is neither readable nor processed, and covers what
\* the hardware has: buffers from b on were not given back, p is the next one.
BuffersRight(d, p, b) ==
    /\ p \in Slot /\ b \in Slot /\ h.pidx \in Slot /\ h.cidx \in Slot
    /\ d.avail = R - 1 - RingDelta(p, b, R)
    /\ RingDelta(h.cidx, p, R) <= RingDelta(h.pidx, p, R)
    /\ RingDelta(h.pidx, p, R) <= d.avail
    /\ d.overrun = FALSE
    /\ \A s \in d.valid : s \in Slot /\ RingDelta(s, b, R) < RingDelta(p, b, R)

\* A handler keeps no buffer, so those not given back are the only ones that
\* are not whole.
HandlersWhole(d, p, b) ==
    /\ DOMAIN d.len = Slot /\ DOMAIN d.offset = Slot
    /\ \A s \in Slot : /\ d.offset[s] = 0
                       /\ RingDelta(s, b, R) < RingDelta(p, b, R) \/ d.len[s] = BufSz

\* Some set holds what waits.
IsList(list) == \E S : list \in Seq(S)

\* The record between two operations.
RecordRight(d) ==
    /\ d.pidxInfo = RingDecr(d.pidxPend, 1, R) /\ d.wrbCidx = d.cmptCidx
    /\ d.stop = FALSE /\ d.proc = 0 /\ IsList(d.list)

\* A handler keeps no buffer; without one the hardware knows the ring's pidx.
ToldRight(d) ==
    /\ handler => d.pidxPend = d.pidx
    /\ ~handler => h.pidx = d.pidxInfo

\* The places in the completion ring follow each other.
PlacesRight(d) ==
    /\ h.cmptPidx \in EntryAt /\ h.cmptCidx \in EntryAt /\ h.status \in EntryAt
    /\ d.cmptCidx \in EntryAt
    /\ RingDelta(d.cmptCidx, h.cmptCidx, RC) + Left(d) = RingDelta(h.cmptPidx, h.cmptCidx, RC)
    /\ Shown(d) <= Left(d)

\* The interrupt is armed unless somebody is on the way who arms it.
WakeupRight ==
    /\ napi \in {"idle", "sched", "update", "done"}
    /\ handler \/ napi \in {"idle", "sched"}
    /\ napi # "update" => h.cmptCidx = q.cmptCidx
    /\ napi = "idle" => h.armed
    /\ napi = "done" => h.armed \/ missed

\* The driver's record d, where p is the buffer of the next packet and those
\* from b on were not given back.
DrvRight(d, p, b) ==
    /\ BuffersRight(d, p, b)
    /\ handler => HandlersWhole(d, p, b)
    /\ PlacesRight(d) /\ ColoursRight(d) /\ Packets(d, p)

C2hRight ==
    /\ RecordRight(q) /\ ToldRight(q)
    /\ DrvRight(q, q.pidx, q.pidxPend)
    /\ WakeupRight

C2hInv ==
    /\ DOMAIN q = DrvFields /\ DOMAIN h = HwFields /\ handler \in BOOLEAN
    /\ DOMAIN cmpt = EntryAt
    /\ q.err \in BOOLEAN /\ h.units \in Nat
    /\ ~q.err => C2hRight

-----------------------------------------------------------------------------
(* Places on a ring. *)

LEMMA RingPlaces ==
  ASSUME NEW size \in Nat, size > 1, NEW i \in 0 .. size - 1, NEW j \in 0 .. size - 1
  PROVE  /\ RingDelta(i, j, size) \in 0 .. size - 1
         /\ RingDelta(i, i, size) = 0
         /\ RingDelta(i, j, size) = 0 => i = j
         /\ RingIncr(j, RingDelta(i, j, size), size) = i
         /\ RingDecr(i, 1, size) \in 0 .. size - 1
         /\ RingDelta(RingDecr(i, 1, size), j, size) = size - 1 - RingDelta(j, i, size)
BY DEF RingDelta, RingIncr, RingDecr

\* As many steps as lie between two places lead from one to the other.
LEMMA RingBack ==
  ASSUME NEW size \in Nat, size > 1, NEW i \in 0 .. size - 1, NEW j \in 0 .. size - 1,
         NEW n, n = RingDelta(i, j, size)
  PROVE  RingIncr(j, n, size) = i
BY RingPlaces

LEMMA RingSteps ==
  ASSUME NEW size \in Nat, size > 1, NEW i \in 0 .. size - 1, NEW n \in 0 .. size - 1
  PROVE  /\ RingIncr(i, n, size) \in 0 .. size - 1
         /\ RingDelta(RingIncr(i, n, size), i, size) = n
         /\ RingIncr(i, 0, size) = i
         /\ n > 0 => RingIncr(RingIncr(i, n - 1, size), 1, size) = RingIncr(i, n, size)
BY DEF RingDelta, RingIncr

\* Steps from i that do not pass j, and steps from j that do not pass i.
LEMMA RingMoves ==
  ASSUME NEW size \in Nat, size > 1, NEW i \in 0 .. size - 1, NEW j \in 0 .. size - 1,
         NEW n \in 0 .. size - 1
  PROVE  /\ n <= RingDelta(j, i, size)
              => RingDelta(j, RingIncr(i, n, size), size) = RingDelta(j, i, size) - n
         /\ RingDelta(i, j, size) + n < size
              => RingDelta(RingIncr(i, n, size), j, size) = RingDelta(i, j, size) + n
BY DEF RingDelta, RingIncr

\* From i over j to k.
LEMMA RingSums ==
  ASSUME NEW size \in Nat, size > 1, NEW i \in 0 .. size - 1, NEW j \in 0 .. size - 1,
         NEW k \in 0 .. size - 1
  PROVE  /\ RingDelta(j, i, size) + RingDelta(k, j, size) < size
              => RingDelta(k, i, size) = RingDelta(j, i, size) + RingDelta(k, j, size)
         /\ RingDelta(j, i, size) <= RingDelta(k, i, size)
              => RingDelta(k, i, size) = RingDelta(j, i, size) + RingDelta(k, j, size)
BY DEF RingDelta

LEMMA SlotsFromIs ==
  ASSUME NEW i \in Slot, NEW n \in 0 .. R
  PROVE  /\ SlotsFrom(i, n) \subseteq Slot
         /\ \A s \in Slot : s \in SlotsFrom(i, n) <=> RingDelta(s, i, R) < n
<1>. USE C2hAssumption DEF Slot
<1>1. \A k \in 0 .. n - 1 : RingIncr(i, k, R) \in Slot /\ RingDelta(RingIncr(i, k, R), i, R) = k
  BY RingSteps
<1>2. SlotsFrom(i, n) \subseteq Slot
  BY <1>1 DEF SlotsFrom
<1>3. ASSUME NEW s \in Slot
      PROVE  s \in SlotsFrom(i, n) <=> RingDelta(s, i, R) < n
  <2>1. RingDelta(s, i, R) \in 0 .. R - 1 /\ RingIncr(i, RingDelta(s, i, R), R) = s
    BY RingPlaces
  <2>2. ASSUME s \in SlotsFrom(i, n) PROVE RingDelta(s, i, R) < n
    BY <1>1, <2>2 DEF SlotsFrom
  <2>3. ASSUME RingDelta(s, i, R) < n PROVE s \in SlotsFrom(i, n)
    <3>1. RingDelta(s, i, R) \in 0 .. n - 1
      BY <2>1, <2>3
    <3>. QED BY <2>1, <3>1 DEF SlotsFrom
  <2>. QED BY <2>2, <2>3
<1>. QED BY <1>2, <1>3

\* A packet takes a buffer at least.
LEMMA FlNrPositive == ASSUME CountsRight, NEW len \in PktLens PROVE FlNr(len) \in Nat /\ FlNr(len) >= 1
<1>1. FlNr(len) = HwBufs(len)
  BY DEF CountsRight
<1>2. PICK c \in Int : c = CeilDiv(len, BufSz)
  BY C2hAssumption DEF CeilDiv
<1>3. Max({1, c}) = IF c >= 1 THEN c ELSE 1
  BY DEF Max
<1>. QED BY <1>1, <1>2, <1>3 DEF HwBufs

-----------------------------------------------------------------------------
(* Induction, from the order of the natural numbers. *)

\* A set of natural numbers that is not empty has a least element.
LEMMA LeastOf ==
  ASSUME NEW T, T \subseteq Nat, T # {}
  PROVE  \E m \in T : \A k \in T : m <= k
<1>1. \E x \in T : \A y \in T : ~ (<<y, x>> \in OpToRel(<, Nat))
  BY WFMin, NatLessThanWellFounded
<1>2. PICK x \in T : \A y \in T : ~ (<<y, x>> \in OpToRel(<, Nat))
  BY <1>1
<1>3. \A y \in T : ~(y < x)
  BY <1>2 DEF OpToRel
<1>. QED BY <1>3

\* What holds of 0, and of k if of k - 1, holds up to n.
LEMMA UpTo ==
  ASSUME NEW n \in Nat, NEW T, T \subseteq 0 .. n, 0 \in T,
         \A k \in 1 .. n : k - 1 \in T => k \in T
  PROVE  T = 0 .. n
<1>1. ASSUME (0 .. n) \ T # {} PROVE FALSE
  <2>1. \E m \in (0 .. n) \ T : \A k \in (0 .. n) \ T : m <= k
    <3>. DEFINE U == (0 .. n) \ T
    <3>1. U \subseteq Nat /\ U # {}
      BY <1>1
    <3>. HIDE DEF U
    <3>2. \E m \in U : \A k \in U : m <= k
      BY <3>1, LeastOf
    <3>. QED BY <3>2 DEF U
  <2>. PICK m \in (0 .. n) \ T : \A k \in (0 .. n) \ T : m <= k
    BY <2>1
  <2>2. m \in 1 .. n /\ m - 1 \in 0 .. n /\ ~(m <= m - 1)
    OBVIOUS
  <2>. QED BY <2>2
<1>2. \A k \in 0 .. n : k \in T
  BY <1>1
<1>3. \A k \in T : k \in 0 .. n
  OBVIOUS
<1>. QED BY <1>2, <1>3

\* What ReadAll does to each request it finds, and Process to each entry.
Step(reads, e, left) == IF reads THEN ReadNext(e, left) ELSE Entry(e)

Chain(reads, first, list, n, g) ==
    g = [k \in 0 .. n |-> IF k = 0 THEN first ELSE Step(reads, g[k - 1], list[k])]

\* The recursive functions that Process and ReadAll define exist.
LEMMA ChainExists ==
  ASSUME NEW reads, NEW first, NEW list, NEW n \in Nat
  PROVE  \E g : Chain(reads, first, list, n, g)
<1>. DEFINE T == {k \in 0 .. n : \E g : Chain(reads, first, list, k, g)}
<1>1. 0 \in T
  <2>. DEFINE g == [k \in 0 .. 0 |-> first]
  <2>1. Chain(reads, first, list, 0, g)
    BY DEF Chain
  <2>. QED BY <2>1
<1>2. ASSUME NEW k \in 1 .. n, k - 1 \in T
      PROVE  k \in T
  <2>1. PICK g : Chain(reads, first, list, k - 1, g)
    BY <1>2
  <2>. DEFINE hh == [i \in 0 .. k |-> IF i = k THEN Step(reads, g[k - 1], list[k]) ELSE g[i]]
  <2>2. ASSUME NEW i \in 0 .. k
        PROVE  hh[i] = IF i = 0 THEN first ELSE Step(reads, hh[i - 1], list[i])
    <3>1. CASE i = k
      <4>1. hh[i] = Step(reads, g[k - 1], list[k]) /\ hh[i - 1] = g[k - 1] /\ i # 0
        BY <3>1
      <4>. QED BY <3>1, <4>1
    <3>2. CASE i # k
      <4>1. i \in 0 .. k - 1 /\ hh[i] = g[i] /\ (i # 0 => hh[i - 1] = g[i - 1])
        BY <3>2
      <4>2. g[i] = IF i = 0 THEN first ELSE Step(reads, g[i - 1], list[i])
        BY <2>1, <4>1 DEF Chain
      <4>. QED BY <4>1, <4>2
    <3>. QED BY <3>1, <3>2
  <2>3. hh = [i \in 0 .. k |-> IF i = 0 THEN first ELSE Step(reads, hh[i - 1], list[i])]
    <3>. DEFINE e == [i \in 0 .. k |-> IF i = 0 THEN first ELSE Step(reads, hh[i - 1], list[i])]
    <3>1. DOMAIN hh = 0 .. k /\ DOMAIN e = 0 .. k /\ hh = [i \in 0 .. k |-> hh[i]] /\ e = [i \in 0 .. k |-> e[i]]
      OBVIOUS
    <3>2. \A i \in 0 .. k : hh[i] = e[i]
      BY <2>2
    <3>. HIDE DEF hh, e
    <3>3. hh = e
      BY <3>1, <3>2
    <3>. QED BY <3>3 DEF e
  <2>4. Chain(reads, first, list, k, hh)
    BY <2>3 DEF Chain
  <2>. QED BY <2>4
<1>3. T = 0 .. n
  <2>. HIDE DEF T
  <2>1. T \subseteq 0 .. n
    BY DEF T
  <2>. QED BY <1>1, <1>2, <2>1, UpTo
<1>. QED BY <1>3

\* The entries that Process goes through.
LEMMA ProcessChain ==
  ASSUME NEW n \in Nat
  PROVE  \E g : /\ g[0] = [q EXCEPT !.next = q.pidx, !.got = << >>]
                /\ \A k \in 1 .. n : g[k] = Entry(g[k - 1])
                /\ Process(n) = g[n]
<1>. DEFINE first == [q EXCEPT !.next = q.pidx, !.got = << >>]
            IsAfter(g) == g = [i \in 0 .. n |-> IF i = 0 THEN first ELSE Entry(g[i - 1])]
            g == CHOOSE g : IsAfter(g)
<1>1. PICK c : Chain(FALSE, first, << >>, n, c)
  BY ChainExists
<1>2. IsAfter(c)
  <2>. HIDE DEF first
  <2>. QED BY <1>1 DEF Chain, Step
<1>3. IsAfter(g)
  BY <1>2
<1>4. Process(n) = g[n]
  BY DEF Process
<1>5. g[0] = first /\ \A k \in 1 .. n : g[k] = Entry(g[k - 1])
  <2>. HIDE DEF g, first
  <2>. QED BY <1>3
<1>. QED BY <1>4, <1>5

\* The requests that ReadAll goes through.
LEMMA ReadAllChain ==
  ASSUME NEW d, Len(d.list) \in Nat
  PROVE  \E g : /\ g[0] = [d EXCEPT !.more = FALSE]
                /\ \A k \in 1 .. Len(d.list) : g[k] = ReadNext(g[k - 1], d.list[k])
                /\ ReadAll(d) = g[Len(d.list)]
<1>. DEFINE n == Len(d.list)
            first == [d EXCEPT !.more = FALSE]
            IsAfter(g) == g = [i \in 0 .. n |-> IF i = 0 THEN first ELSE ReadNext(g[i - 1], d.list[i])]
            g == CHOOSE g : IsAfter(g)
<1>1. PICK c : Chain(TRUE, first, d.list, n, c)
  BY ChainExists
<1>2. IsAfter(c)
  <2>. HIDE DEF first
  <2>. QED BY <1>1 DEF Chain, Step
<1>3. IsAfter(g)
  BY <1>2
<1>4. ReadAll(d) = g[n]
  BY DEF ReadAll
<1>5. g[0] = first /\ \A k \in 1 .. n : g[k] = ReadNext(g[k - 1], d.list[k])
  <2>. HIDE DEF g, first
  <2>. QED BY <1>3
<1>. QED BY <1>4, <1>5

-----------------------------------------------------------------------------
(* What the operations on the driver's record leave alone. *)

Same(d, e, but) == DOMAIN e = DrvFields /\ \A f \in DrvFields \ but : e[f] = d[f]

LEMMA RefillDoes ==
  ASSUME NEW d, DOMAIN d = DrvFields, NEW idx, NEW count, NEW recycle \in BOOLEAN,
         NEW r, r = Refill(d, idx, count, recycle)
  PROVE  /\ Same(d, r, {"avail", "valid", "len", "offset", "pendEmpty"})
         /\ r.avail = d.avail + count
         /\ r.valid = d.valid \ SlotsFrom(idx, count)
         /\ DOMAIN r.len = Slot /\ DOMAIN r.offset = Slot
         /\ \A s \in Slot :
               /\ r.len[s] = IF s \in SlotsFrom(idx, count) THEN BufSz ELSE d.len[s]
               /\ r.offset[s] = IF s \in SlotsFrom(idx, count) /\ ~recycle THEN 0 ELSE d.offset[s]
BY DEF Refill, Same, DrvFields

ReadFields == {"len", "offset", "pidxPend", "dlen", "got", "taken"}

\* r is d after some whole buffers were read, and given back when refilling.
ReadEffect(d, r, refill) ==
    \E used \in 0 .. Readable(d) :
      /\ r.pidxPend = RingIncr(d.pidxPend, used, R)
      /\ ~refill => Same(d, r, ReadFields)
      /\ refill => /\ Same(d, r, ReadFields \union {"avail", "valid", "pendEmpty"})
                   /\ used = 0 => r.avail = d.avail /\ r.valid = d.valid
                   /\ used > 0 => /\ r.avail = d.avail + used
                                  /\ r.valid = d.valid \ SlotsFrom(d.pidxPend, used)

LEMMA ReadDoes ==
  ASSUME NEW d, DOMAIN d = DrvFields, NEW left, NEW refill \in BOOLEAN, Readable(d) \in Nat,
         NEW r, r = Read(d, left, refill)
  PROVE  ReadEffect(d, r, refill)
<1>. DEFINE copied == Min({left, Len(Unread(d))})
            passed == {k \in 1 .. Readable(d) : Upto(d, k - 1) < left /\ Upto(d, k) <= left}
            used   == Cardinality(passed)
            part   == copied - Upto(d, used)
            next   == RingIncr(d.pidxPend, used, R)
            e      == IF refill /\ used > 0 THEN Refill(d, d.pidxPend, used, TRUE) ELSE d
            f      == [e EXCEPT !.pidxPend = next,
                  !.offset[next] = @ + part,
                  !.len[next] = @ - part,
                  !.dlen = @ - copied,
                  !.got = @ \o SubSeq(Unread(d), 1, copied),
                  !.taken = @ + copied]
<1>1. used \in 0 .. Readable(d)
  <2>1. IsFiniteSet(1 .. Readable(d)) /\ Cardinality(1 .. Readable(d)) = Readable(d)
    BY FS_Interval
  <2>2. passed \subseteq 1 .. Readable(d)
    OBVIOUS
  <2>. HIDE DEF passed
  <2>3. IsFiniteSet(passed) /\ Cardinality(passed) <= Cardinality(1 .. Readable(d))
    BY <2>1, <2>2, FS_Subset
  <2>. QED BY <2>1, <2>3, FS_CardinalityType
<1>2. r = f
  BY DEF Read
<1>. HIDE DEF used, copied, part
<1>3. /\ DOMAIN e = DrvFields
      /\ ~(refill /\ used > 0) => e = d
      /\ refill /\ used > 0 => /\ Same(d, e, {"avail", "valid", "len", "offset", "pendEmpty"})
                               /\ e.avail = d.avail + used
                               /\ e.valid = d.valid \ SlotsFrom(d.pidxPend, used)
  <2>. DEFINE z == Refill(d, d.pidxPend, used, TRUE)
  <2>1. /\ Same(d, z, {"avail", "valid", "len", "offset", "pendEmpty"})
        /\ z.avail = d.avail + used
        /\ z.valid = d.valid \ SlotsFrom(d.pidxPend, used)
    <3>1. PICK recycle \in BOOLEAN : recycle = TRUE
      OBVIOUS
    <3>2. z = Refill(d, d.pidxPend, used, recycle)
      BY <3>1
    <3>. HIDE DEF used, z
    <3>. QED BY <3>2, RefillDoes
  <2>2. DOMAIN z = DrvFields
    BY <2>1 DEF Same
  <2>3. e = IF refill /\ used > 0 THEN z ELSE d
    OBVIOUS
  <2>. HIDE DEF z, e
  <2>. QED BY <2>1, <2>2, <2>3
<1>. HIDE DEF e, next
<1>4. Same(e, r, ReadFields) /\ r.pidxPend = next
  BY <1>2, <1>3 DEF Same, ReadFields, DrvFields
<1>. HIDE DEF f
<1>. USE DEF Same, ReadFields, DrvFields
<1>5. ~refill => Same(d, r, ReadFields)
  BY <1>3, <1>4
<1>6. used = 0 => Same(d, r, ReadFields)
  BY <1>3, <1>4
<1>7. refill /\ used > 0 => /\ Same(d, r, ReadFields \union {"avail", "valid", "pendEmpty"})
                            /\ r.avail = d.avail + used
                            /\ r.valid = d.valid \ SlotsFrom(d.pidxPend, used)
  BY <1>3, <1>4
<1>8. used = 0 => Same(d, r, ReadFields \union {"avail", "valid", "pendEmpty"}) /\ r.avail = d.avail /\ r.valid = d.valid
  BY <1>6
<1>9. used = 0 \/ used > 0
  BY <1>1
<1>10. r.pidxPend = RingIncr(d.pidxPend, used, R)
  BY <1>4 DEF next
<1>. HIDE DEF Same, ReadFields, DrvFields
<1>. QED BY <1>1, <1>2, <1>5, <1>7, <1>8, <1>9, <1>10 DEF ReadEffect

LEMMA ListOps ==
  ASSUME NEW l, IsList(l), NEW x
  PROVE  /\ Len(l) \in Nat /\ IsList(Append(l, x))
         /\ l # << >> => IsList(Tail(l)) /\ IsList(<< x >> \o Tail(l))
<1>1. PICK S : l \in Seq(S)
  BY DEF IsList
<1>. DEFINE T == S \union {x}
<1>2. l \in Seq(T)
  <2>1. Len(l) \in Nat /\ DOMAIN l = 1 .. Len(l) /\ \A i \in 1 .. Len(l) : l[i] \in T
    BY <1>1
  <2>2. l = [i \in 1 .. Len(l) |-> l[i]]
    BY <1>1
  <2>. HIDE DEF T
  <2>3. [i \in 1 .. Len(l) |-> l[i]] \in Seq(T)
    BY <2>1
  <2>. QED BY <2>2, <2>3
<1>. HIDE DEF T
<1>3. x \in T
  BY DEF T
<1>4. Append(l, x) \in Seq(T)
  BY <1>2, <1>3
<1>5. ASSUME l # << >> PROVE Tail(l) \in Seq(T) /\ << x >> \o Tail(l) \in Seq(T)
  BY <1>2, <1>3, <1>5
<1>. QED BY <1>2, <1>4, <1>5 DEF IsList

LEMMA ServedDoes ==
  ASSUME NEW d, NEW left, NEW r, DOMAIN r = DrvFields, IsList(r.list), r.list # << >>,
         NEW e, e = Served(d, left, r)
  PROVE  Same(r, e, {"list", "pendEmpty", "more"}) /\ IsList(e.list)
<1>. DEFINE rest == left - (d.dlen - r.dlen)
<1>1. CASE rest = 0
  <2>1. e = [r EXCEPT !.list = Tail(@), !.pendEmpty = (r.avail = 0)]
    BY <1>1 DEF Served
  <2>2. e.list = Tail(r.list) /\ Same(r, e, {"list", "pendEmpty", "more"})
    BY <2>1 DEF Same, DrvFields
  <2>. QED BY <2>2, ListOps
<1>2. CASE rest # 0
  <2>1. e = [r EXCEPT !.list = << rest >> \o Tail(@), !.more = TRUE]
    BY <1>2 DEF Served
  <2>. HIDE DEF rest
  <2>2. e.list = << rest >> \o Tail(r.list) /\ Same(r, e, {"list", "pendEmpty", "more"})
    BY <2>1 DEF Same, DrvFields
  <2>. QED BY <2>2, ListOps
<1>. QED BY <1>1, <1>2

\* Reading passes readable buffers, and gives none back.
ReadFrom(d, e) ==
    /\ Same(d, e, ReadFields \union {"list", "pendEmpty", "more"})
    /\ IsList(e.list)
    /\ e.pidxPend \in Slot /\ RingDelta(d.pidx, e.pidxPend, R) <= RingDelta(d.pidx, d.pidxPend, R)

LEMMA ReadNextDoes ==
  ASSUME NEW d, DOMAIN d = DrvFields, d.pidx \in Slot, d.pidxPend \in Slot, IsList(d.list),
         NEW left
  PROVE  ReadFrom(d, ReadNext(d, left))
<1>. DEFINE r == Read(d, left, FALSE)
            e == Served(d, left, r)
<1>. USE C2hAssumption DEF Slot
<1>0. RingDelta(d.pidx, d.pidxPend, R) \in 0 .. R - 1
  BY RingPlaces
<1>1. CASE d.list = << >> \/ d.more
  <2>1. ReadNext(d, left) = d
    BY <1>1 DEF ReadNext
  <2>. QED BY <2>1, <1>0 DEF ReadFrom, Same
<1>2. CASE ~(d.list = << >> \/ d.more)
  <2>1. PICK used \in 0 .. Readable(d) :
           r.pidxPend = RingIncr(d.pidxPend, used, R) /\ Same(d, r, ReadFields)
    <3>1. Readable(d) \in Nat
      BY <1>0 DEF Readable
    <3>2. PICK no \in BOOLEAN : no = FALSE
      OBVIOUS
    <3>3. r = Read(d, left, no)
      BY <3>2
    <3>. HIDE DEF r
    <3>4. ReadEffect(d, r, no)
      BY <3>1, <3>3, ReadDoes
    <3>. QED BY <3>2, <3>4 DEF ReadEffect
  <2>2. DOMAIN r = DrvFields /\ r.list = d.list
    BY <2>1 DEF Same, ReadFields, DrvFields
  <2>3. Same(r, e, {"list", "pendEmpty", "more"}) /\ IsList(e.list)
    <3>. HIDE DEF r
    <3>. QED BY <1>2, <2>2, ServedDoes
  <2>4. ReadNext(d, left) = e
    BY <1>2 DEF ReadNext
  <2>. HIDE DEF e, r
  <2>5. Same(d, e, ReadFields \union {"list", "pendEmpty", "more"}) /\ e.pidxPend = r.pidxPend
    BY <2>1, <2>3 DEF Same, ReadFields, DrvFields
  <2>6. used \in 0 .. R - 1 /\ used <= RingDelta(d.pidx, d.pidxPend, R)
    BY <1>0 DEF Readable
  <2>7. RingIncr(d.pidxPend, used, R) \in Slot
    BY <2>6, RingSteps
  <2>8. RingDelta(d.pidx, RingIncr(d.pidxPend, used, R), R) = RingDelta(d.pidx, d.pidxPend, R) - used
    BY <2>6, RingMoves
  <2>9. RingDelta(d.pidx, e.pidxPend, R) <= RingDelta(d.pidx, d.pidxPend, R)
    BY <1>0, <2>1, <2>5, <2>6, <2>8
  <2>. QED BY <2>1, <2>3, <2>4, <2>5, <2>7, <2>9 DEF ReadFrom
<1>. QED BY <1>1, <1>2

LEMMA ReadAllDoes ==
  ASSUME NEW d, DOMAIN d = DrvFields, d.pidx \in Slot, d.pidxPend \in Slot, IsList(d.list)
  PROVE  ReadFrom(d, ReadAll(d))
<1>. USE C2hAssumption DEF Slot
<1>1. Len(d.list) \in Nat
  BY ListOps
<1>2. PICK g : /\ g[0] = [d EXCEPT !.more = FALSE]
               /\ \A k \in 1 .. Len(d.list) : g[k] = ReadNext(g[k - 1], d.list[k])
               /\ ReadAll(d) = g[Len(d.list)]
  BY <1>1, ReadAllChain
<1>. DEFINE T == {k \in 0 .. Len(d.list) : ReadFrom(d, g[k])}
<1>3. 0 \in T
  <2>1. RingDelta(d.pidx, d.pidxPend, R) \in 0 .. R - 1
    BY RingPlaces
  <2>2. Same(d, g[0], {"more"})
    BY <1>2 DEF Same, DrvFields
  <2>3. ReadFrom(d, g[0])
    BY <2>1, <2>2 DEF ReadFrom, Same, ReadFields, DrvFields
  <2>. QED BY <1>1, <2>3
<1>4. ASSUME NEW k \in 1 .. Len(d.list), k - 1 \in T
      PROVE  k \in T
  <2>. DEFINE e == g[k - 1]
              f == g[k]
  <2>1. ReadFrom(d, e) /\ f = ReadNext(e, d.list[k])
    BY <1>2, <1>4
  <2>. HIDE DEF e, f
  <2>2. DOMAIN e = DrvFields /\ e.pidx = d.pidx /\ e.pidxPend \in Slot /\ IsList(e.list)
    BY <2>1 DEF ReadFrom, Same, ReadFields, DrvFields
  <2>3. ReadFrom(e, f)
    BY <2>1, <2>2, ReadNextDoes
  <2>4. Same(d, f, ReadFields \union {"list", "pendEmpty", "more"})
    BY <2>1, <2>3 DEF ReadFrom, Same
  <2>5. /\ RingDelta(d.pidx, d.pidxPend, R) \in Int /\ RingDelta(d.pidx, e.pidxPend, R) \in Int
        /\ f.pidxPend \in Slot /\ RingDelta(d.pidx, f.pidxPend, R) \in Int
    <3>1. f.pidxPend \in Slot
      BY <2>3 DEF ReadFrom
    <3>2. \A s \in Slot : RingDelta(d.pidx, s, R) \in Int
      <4>. TAKE s \in Slot
      <4>1. RingDelta(d.pidx, s, R) \in 0 .. R - 1
        BY RingPlaces
      <4>. QED BY <4>1
    <3>. QED BY <2>2, <3>1, <3>2
  <2>6. RingDelta(d.pidx, f.pidxPend, R) <= RingDelta(d.pidx, d.pidxPend, R)
    BY <2>1, <2>2, <2>3, <2>5 DEF ReadFrom
  <2>7. ReadFrom(d, f)
    BY <2>3, <2>4, <2>5, <2>6 DEF ReadFrom
  <2>. QED BY <2>7 DEF f
<1>5. T = 0 .. Len(d.list)
  <2>. HIDE DEF T
  <2>1. T \subseteq 0 .. Len(d.list)
    BY DEF T
  <2>. QED BY <1>1, <1>3, <1>4, <2>1, UpTo
<1>. QED BY <1>1, <1>2, <1>5

-----------------------------------------------------------------------------
(* An entry that is processed. *)

LEMMA RcvPktDoes ==
  ASSUME handler \in BOOLEAN, NEW d, DOMAIN d = DrvFields, NEW len, NEW n, n = FlNr(len),
         ~(d.avail < n), NEW e, e = RcvPkt(d, len)
  PROVE  LET last  == RingIncr(d.next, n - 1, R)
             after == RingIncr(last, 1, R)
         IN  /\ Same(d, e, {"avail", "next", "cmptCidx", "color", "proc", "pidxPend", "got",
                            "taken", "len", "valid", "overrun", "dlen"})
             /\ e.avail = d.avail - n /\ e.next = after
             /\ e.cmptCidx = RingIncr(d.cmptCidx, 1, RC)
             /\ e.color = IF d.cmptCidx = RC - 1 THEN 1 - d.color ELSE d.color
             /\ e.proc = d.proc + 1
             /\ e.len = [d.len EXCEPT ![last] = LastLen(len)]
             /\ handler => /\ e.pidxPend = after
                           /\ e.valid = d.valid /\ e.overrun = d.overrun
             /\ ~handler => /\ e.pidxPend = d.pidxPend
                            /\ e.valid = d.valid \union SlotsFrom(d.next, n)
                            /\ e.overrun = (d.overrun \/ SlotsFrom(d.next, n) \intersect d.valid # {})
<1>. DEFINE last  == RingIncr(d.next, n - 1, R)
            after == RingIncr(last, 1, R)
            e0 == [d EXCEPT !.len[last] = LastLen(len)]
            f  == [e0 EXCEPT
                    !.avail = @ - n,
                    !.next = after,
                    !.cmptCidx = RingIncr(@, 1, RC),
                    !.color = IF d.cmptCidx = RC - 1 THEN 1 - @ ELSE @,
                    !.proc = @ + 1]
            taken == [f EXCEPT !.pidxPend = after,
                       !.got = @ \o FlattenSeq([k \in 1 .. n |->
                                   UnitsOf(f, RingIncr(d.next, k - 1, R))]),
                       !.taken = @ + len]
            kept == [f EXCEPT !.valid = @ \union SlotsFrom(d.next, n),
                       !.overrun = @ \/ SlotsFrom(d.next, n) \intersect d.valid # {},
                       !.dlen = @ + len]
<1>1. e = IF handler THEN taken ELSE kept
  BY DEF RcvPkt
<1>. HIDE DEF last, after
<1>2. Same(d, e0, {"len"}) /\ e0.len = [d.len EXCEPT ![last] = LastLen(len)]
  BY DEF Same, DrvFields
<1>. HIDE DEF e0
<1>3. /\ Same(e0, f, {"avail", "next", "cmptCidx", "color", "proc"})
      /\ f.avail = e0.avail - n /\ f.next = after /\ f.cmptCidx = RingIncr(e0.cmptCidx, 1, RC)
      /\ f.color = IF d.cmptCidx = RC - 1 THEN 1 - e0.color ELSE e0.color
      /\ f.proc = e0.proc + 1
  BY <1>2 DEF Same, DrvFields
<1>. HIDE DEF f
<1>4. Same(f, taken, {"pidxPend", "got", "taken"}) /\ taken.pidxPend = after
  BY <1>3 DEF Same, DrvFields
<1>5. /\ Same(f, kept, {"valid", "overrun", "dlen"})
      /\ kept.valid = f.valid \union SlotsFrom(d.next, n)
      /\ kept.overrun = (f.overrun \/ SlotsFrom(d.next, n) \intersect d.valid # {})
  BY <1>3 DEF Same, DrvFields
<1>. HIDE DEF taken, kept
<1>6. CASE handler
  BY <1>1, <1>2, <1>3, <1>4, <1>6 DEF Same, DrvFields, last, after
<1>7. CASE ~handler
  BY <1>1, <1>2, <1>3, <1>5, <1>7 DEF Same, DrvFields, last, after
<1>. QED BY <1>6, <1>7

LEMMA RingAgain ==
  ASSUME NEW size \in Nat, size > 1, NEW i \in 0 .. size - 1, NEW k \in Nat, k + 1 < size
  PROVE  RingIncr(RingIncr(i, 1, size), k, size) = RingIncr(i, k + 1, size)
BY DEF RingIncr

\* The driver is past the first of the packets that it had left.
LEMMA PacketPassed ==
  ASSUME CountsRight, NEW d, NEW p \in Slot, h.cidx \in Slot, h.cmptPidx \in EntryAt,
         ColoursRight(d), Packets(d, p), Left(d) > 0,
         NEW n, n = FlNr(cmpt[d.cmptCidx].len),
         NEW e, e.cmptCidx = RingIncr(d.cmptCidx, 1, RC),
         e.color = IF d.cmptCidx = RC - 1 THEN 1 - d.color ELSE d.color
  PROVE  /\ n \in 1 .. RingDelta(h.cidx, p, R) /\ cmpt[d.cmptCidx].color = d.color
         /\ Left(e) = Left(d) - 1 /\ cmpt[d.cmptCidx].len \in PktLens
         /\ Lies(p, cmpt[d.cmptCidx].len)
         /\ ColoursRight(e) /\ Packets(e, RingIncr(p, n, R))
<1>. USE C2hAssumption DEF Slot, EntryAt, Colour
<1>1. d.cmptCidx \in 0 .. RC - 1 /\ d.color \in {0, 1}
  BY DEF ColoursRight
<1>. PICK c \in 0 .. RC - 1, z \in {0, 1} : d.cmptCidx = c /\ d.color = z
  BY <1>1
<1>. PICK w \in 0 .. RC - 1 : h.cmptPidx = w
  OBVIOUS
<1>a. Left(d) = RingDelta(w, c, RC)
  BY DEF Left
<1>b. RingDelta(w, c, RC) \in 0 .. RC - 1 /\ RingDelta(c, c, RC) = 0
  BY RingPlaces
<1>. PICK L \in 1 .. RC - 1 : Left(d) = L /\ L = RingDelta(w, c, RC)
  BY <1>a, <1>b
<1>2. w # c
  BY <1>b
<1>. PICK c1 \in 0 .. RC - 1 : c1 = RingIncr(c, 1, RC)
  BY RingSteps
<1>3. e.cmptCidx = c1 /\ e.color = IF c = RC - 1 THEN 1 - z ELSE z
  OBVIOUS
<1>4. Left(e) = L - 1
  BY <1>3, RingMoves DEF Left
<1>6. cmpt[c].color = z /\ \A i \in 0 .. RC - 1 : RingDelta(i, c, RC) < L => cmpt[i].len \in PktLens
  BY <1>b DEF ColoursRight
<1>7. PICK f : f \in [0 .. RC -> Int] /\ Chained(d, p, f)
  BY DEF Packets
<1>c. /\ f[0] = 0 /\ f[L] = RingDelta(h.cidx, p, R)
      /\ \A j, k \in 0 .. L : j <= k => f[j] <= f[k]
      /\ \A k \in 0 .. L - 1 : f[k + 1] = f[k] + FlNr(cmpt[RingIncr(c, k, RC)].len)
      /\ \A k \in 0 .. L - 1 : Lies(RingIncr(p, f[k], R), cmpt[RingIncr(c, k, RC)].len)
  BY <1>7 DEF Chained
<1>d. n \in Nat /\ n >= 1
  BY <1>6, <1>b, FlNrPositive
<1>8. n = f[1]
  <2>1. RingIncr(c, 0, RC) = c
    BY RingSteps
  <2>2. f[0 + 1] = f[0] + n
    BY <1>c, <2>1
  <2>. QED BY <1>c, <1>d, <2>2
<1>9. n <= RingDelta(h.cidx, p, R) /\ RingDelta(h.cidx, p, R) \in 0 .. R - 1
  <2>1. f[1] <= f[L]
    BY <1>c
  <2>2. RingDelta(h.cidx, p, R) \in 0 .. R - 1
    BY RingPlaces
  <2>. QED BY <1>8, <1>c, <2>1, <2>2
<1>10. ColoursRight(e)
  <2>1. ASSUME NEW i \in 0 .. RC - 1, RingDelta(i, c1, RC) < L - 1
        PROVE  i # c /\ RingDelta(i, c, RC) < L
    BY <2>1 DEF RingDelta, RingIncr
  <2>2. \A i \in 0 .. RC - 1 : i # c =>
          (IF i >= c1 THEN e.color ELSE 1 - e.color) = IF i >= c THEN z ELSE 1 - z
    BY <1>3 DEF RingIncr
  <2>3. h.color = IF w >= c THEN z ELSE 1 - z
    BY DEF ColoursRight
  <2>4. \A i \in 0 .. RC - 1 : RingDelta(i, c, RC) < L =>
          cmpt[i].color = (IF i >= c THEN z ELSE 1 - z) /\ cmpt[i].len \in PktLens
    BY DEF ColoursRight
  <2>5. e.color \in {0, 1}
    BY <1>3
  <2>6. h.color = IF w >= c1 THEN e.color ELSE 1 - e.color
    BY <1>2, <2>2, <2>3
  <2>7. \A i \in 0 .. RC - 1 : RingDelta(i, c1, RC) < L - 1 =>
          cmpt[i].color = (IF i >= c1 THEN e.color ELSE 1 - e.color) /\ cmpt[i].len \in PktLens
    BY <2>1, <2>2, <2>4
  <2>. QED BY <1>3, <1>4, <2>5, <2>6, <2>7 DEF ColoursRight
<1>11. Packets(e, RingIncr(p, n, R))
  <2>. DEFINE g == [k \in 0 .. RC |-> IF k < RC THEN f[k + 1] - n ELSE 0]
  <2>0. \A k \in 0 .. RC : k < RC => f[k + 1] \in Int
    BY <1>7
  <2>1. g \in [0 .. RC -> Int] /\ \A k \in 0 .. L - 1 : g[k] = f[k + 1] - n /\ f[k + 1] \in Int
    <3>1. \A k \in 0 .. RC : (IF k < RC THEN f[k + 1] - n ELSE 0) \in Int
      BY <1>d, <2>0
    <3>2. g \in [0 .. RC -> Int] /\ \A k \in 0 .. RC : k < RC => g[k] = f[k + 1] - n
      BY <3>1
    <3>3. \A k \in 0 .. L - 1 : k \in 0 .. RC /\ k < RC
      OBVIOUS
    <3>. HIDE DEF g
    <3>. QED BY <2>0, <3>2, <3>3
  <2>. HIDE DEF g
  <2>2. g[0] = 0
    <3>1. 0 \in 0 .. L - 1 /\ 0 + 1 = 1
      OBVIOUS
    <3>2. g[0] = f[1] - n
      BY <2>1, <3>1, Zenon
    <3>. QED BY <1>8, <1>d, <3>2
  <2>3. g[L - 1] = RingDelta(h.cidx, RingIncr(p, n, R), R)
    <3>1. RingDelta(h.cidx, RingIncr(p, n, R), R) = RingDelta(h.cidx, p, R) - n
      <4>1. n \in 0 .. R - 1
        BY <1>d, <1>9
      <4>2. PICK i \in 0 .. R - 1 : h.cidx = i
        OBVIOUS
      <4>. QED BY <1>9, <4>1, <4>2, RingMoves
    <3>2. L - 1 \in 0 .. L - 1 /\ (L - 1) + 1 = L
      OBVIOUS
    <3>. QED BY <1>c, <2>1, <3>1, <3>2
  <2>4. \A j, k \in 0 .. L - 1 : j <= k => g[j] <= g[k]
    <3>. TAKE j, k \in 0 .. L - 1
    <3>1. j <= k => f[j + 1] <= f[k + 1]
      BY <1>c
    <3>2. PICK u \in Int, v \in Int : u = f[j + 1] /\ v = f[k + 1] /\ g[j] = u - n /\ g[k] = v - n
      BY <2>1
    <3>. QED BY <1>d, <3>1, <3>2
  <2>5. \A k \in 0 .. (L - 1) - 1 : g[k + 1] = g[k] + FlNr(cmpt[RingIncr(c1, k, RC)].len)
    <3>. TAKE k \in 0 .. (L - 1) - 1
    <3>1. RingIncr(c1, k, RC) = RingIncr(c, k + 1, RC)
      BY RingAgain
    <3>2. RingIncr(c, k + 1, RC) \in 0 .. RC - 1 /\ RingDelta(RingIncr(c, k + 1, RC), c, RC) < L
      <4>1. k + 1 \in 0 .. RC - 1 /\ k + 1 < L
        OBVIOUS
      <4>. QED BY <4>1, RingSteps
    <3>. DEFINE len == cmpt[RingIncr(c, k + 1, RC)].len
    <3>a. len \in PktLens
      BY <1>6, <3>2
    <3>3. PICK m \in Int : m = FlNr(len)
      <4>. HIDE DEF len
      <4>. QED BY <3>a, FlNrPositive
    <3>4. k + 1 \in 0 .. L - 1 /\ k \in 0 .. L - 1
      OBVIOUS
    <3>5. f[(k + 1) + 1] = f[k + 1] + m
      BY <1>c, <3>3, <3>4
    <3>6. PICK u \in Int, v \in Int : u = f[k + 1] /\ v = f[(k + 1) + 1] /\ g[k] = u - n /\ g[k + 1] = v - n
      BY <2>1, <3>4
    <3>7. g[k + 1] = g[k] + m
      BY <1>d, <3>5, <3>6
    <3>. QED BY <3>1, <3>3, <3>7
  <2>6. \A k \in 0 .. (L - 1) - 1 : Lies(RingIncr(RingIncr(p, n, R), g[k], R), cmpt[RingIncr(c1, k, RC)].len)
    <3>. TAKE k \in 0 .. (L - 1) - 1
    <3>1. RingIncr(c1, k, RC) = RingIncr(c, k + 1, RC)
      BY RingAgain
    <3>2. k + 1 \in 0 .. L - 1 /\ k \in 0 .. L - 1 /\ 1 \in 0 .. L /\ L \in 0 .. L /\ k + 1 \in 0 .. L
          /\ 1 <= k + 1 /\ k + 1 <= L
      OBVIOUS
    <3>3. Lies(RingIncr(p, f[k + 1], R), cmpt[RingIncr(c, k + 1, RC)].len)
      BY <1>c, <3>2
    <3>4. PICK u \in Int : u = f[k + 1] /\ g[k] = u - n
      BY <2>1, <3>2
    <3>5. n <= u /\ u <= R - 1
      <4>1. f[1] <= f[k + 1] /\ f[k + 1] <= f[L]
        BY <1>c, <3>2
      <4>. QED BY <1>8, <1>9, <1>c, <3>4, <4>1
    <3>6. RingIncr(RingIncr(p, n, R), u - n, R) = RingIncr(p, u, R)
      BY <1>d, <3>5 DEF RingIncr
    <3>. QED BY <3>1, <3>3, <3>4, <3>6
  <2>7. Chained(e, RingIncr(p, n, R), g)
    BY <1>3, <1>4, <2>2, <2>3, <2>4, <2>5, <2>6 DEF Chained
  <2>. QED BY <2>1, <2>7 DEF Packets
<1>12. n \in 1 .. RingDelta(h.cidx, p, R)
  BY <1>d, <1>9
<1>13. Lies(p, cmpt[c].len)
  <2>1. RingIncr(p, 0, R) = p /\ RingIncr(c, 0, RC) = c
    BY RingSteps
  <2>2. Lies(RingIncr(p, f[0], R), cmpt[RingIncr(c, 0, RC)].len)
    BY <1>c
  <2>. QED BY <1>c, <2>1, <2>2
<1>. QED BY <1>4, <1>6, <1>b, <1>10, <1>11, <1>12, <1>13

\* The buffers of a packet are counted, and none of them is being read.
LEMMA BuffersFound ==
  ASSUME NEW d, NEW p, NEW b, BuffersRight(d, p, b), NEW n \in 1 .. RingDelta(h.cidx, p, R)
  PROVE  /\ n \in 1 .. R - 1 /\ n <= d.avail /\ d.avail \in Int
         /\ SlotsFrom(p, n) \intersect d.valid = {}
         /\ RingIncr(RingIncr(p, n - 1, R), 1, R) = RingIncr(p, n, R)
         /\ RingIncr(p, n - 1, R) \in Slot
         /\ RingDelta(RingIncr(p, n - 1, R), b, R) = RingDelta(p, b, R) + n - 1
         /\ RingDelta(RingIncr(p, n, R), b, R) = RingDelta(p, b, R) + n
         /\ \A s \in SlotsFrom(p, n) : s \in Slot /\ RingDelta(s, b, R) < RingDelta(p, b, R) + n
<1>. USE C2hAssumption DEF Slot
<1>1. p \in Slot /\ b \in Slot
  BY DEF BuffersRight
<1>2. PICK x \in Slot, y \in Slot : h.pidx = x /\ h.cidx = y
  BY DEF BuffersRight
<1>3. /\ RingDelta(p, b, R) \in 0 .. R - 1 /\ RingDelta(x, p, R) \in 0 .. R - 1
      /\ RingDelta(y, p, R) \in 0 .. R - 1
  BY <1>1, RingPlaces
<1>4. /\ d.avail = R - 1 - RingDelta(p, b, R)
      /\ RingDelta(y, p, R) <= RingDelta(x, p, R) /\ RingDelta(x, p, R) <= d.avail
      /\ \A s \in d.valid : s \in Slot /\ RingDelta(s, b, R) < RingDelta(p, b, R)
  BY <1>2 DEF BuffersRight
<1>5. n \in 1 .. R - 1 /\ n <= RingDelta(y, p, R) /\ n <= RingDelta(x, p, R)
  BY <1>2, <1>3, <1>4
<1>6. d.avail \in Int /\ n <= d.avail /\ RingDelta(p, b, R) + n < R
  BY <1>3, <1>4, <1>5
<1>7. /\ RingIncr(p, n, R) \in Slot /\ RingIncr(p, n - 1, R) \in Slot
      /\ RingIncr(RingIncr(p, n - 1, R), 1, R) = RingIncr(p, n, R)
  <2>1. n \in 0 .. R - 1 /\ n - 1 \in 0 .. R - 1 /\ n > 0
    BY <1>5
  <2>2. RingIncr(p, n, R) \in Slot /\ RingIncr(p, n - 1, R) \in Slot
    BY <1>1, <2>1, RingSteps
  <2>3. RingIncr(RingIncr(p, n - 1, R), 1, R) = RingIncr(p, n, R)
    BY <1>1, <2>1, RingSteps
  <2>. QED BY <2>2, <2>3
<1>8. /\ RingDelta(RingIncr(p, n, R), b, R) = RingDelta(p, b, R) + n
      /\ RingDelta(x, RingIncr(p, n, R), R) = RingDelta(x, p, R) - n
      /\ RingDelta(y, RingIncr(p, n, R), R) = RingDelta(y, p, R) - n
  BY <1>1, <1>5, <1>6, RingMoves
<1>9. RingDelta(RingIncr(p, n - 1, R), b, R) = RingDelta(p, b, R) + (n - 1)
  <2>1. n - 1 \in 0 .. R - 1 /\ RingDelta(p, b, R) + (n - 1) < R
    BY <1>3, <1>5, <1>6
  <2>. QED BY <1>1, <2>1, RingMoves
<1>10. \A s \in SlotsFrom(p, n) : s \in Slot /\ RingDelta(s, b, R) >= RingDelta(p, b, R)
                                  /\ RingDelta(s, b, R) < RingDelta(p, b, R) + n
  <2>. TAKE s \in SlotsFrom(p, n)
  <2>1. s \in Slot /\ RingDelta(s, p, R) < n
    BY <1>1, <1>5, SlotsFromIs
  <2>2. RingDelta(s, p, R) \in 0 .. R - 1
    BY <1>1, <2>1, RingPlaces
  <2>3. RingDelta(p, b, R) + RingDelta(s, p, R) < R
    BY <1>3, <1>6, <2>1, <2>2
  <2>4. RingDelta(s, b, R) = RingDelta(p, b, R) + RingDelta(s, p, R)
    BY <1>1, <2>1, <2>3, RingSums
  <2>. QED BY <1>3, <1>5, <2>1, <2>2, <2>4
<1>11. SlotsFrom(p, n) \intersect d.valid = {}
  <2>1. ASSUME NEW s, s \in SlotsFrom(p, n), s \in d.valid PROVE FALSE
    <3>1. RingDelta(s, b, R) \in 0 .. R - 1
      BY <1>1, <1>4, <2>1, RingPlaces
    <3>. QED BY <1>3, <1>4, <1>10, <2>1, <3>1
  <2>. QED BY <2>1
<1>. QED BY <1>5, <1>6, <1>7, <1>8, <1>9, <1>10, <1>11

LEMMA BuffersPassed ==
  ASSUME NEW d, NEW p, NEW b, BuffersRight(d, p, b), NEW n \in 1 .. RingDelta(h.cidx, p, R),
         NEW e, e.avail = d.avail - n, e.overrun = FALSE,
         e.valid = d.valid \/ e.valid = d.valid \union SlotsFrom(p, n)
  PROVE  BuffersRight(e, RingIncr(p, n, R), b)
<1>. USE C2hAssumption DEF Slot
<1>1. p \in Slot /\ b \in Slot
  BY DEF BuffersRight
<1>2. PICK x \in Slot, y \in Slot : h.pidx = x /\ h.cidx = y
  BY DEF BuffersRight
<1>3. /\ RingDelta(p, b, R) \in 0 .. R - 1 /\ RingDelta(x, p, R) \in 0 .. R - 1
      /\ RingDelta(y, p, R) \in 0 .. R - 1
  BY <1>1, RingPlaces
<1>4. /\ d.avail = R - 1 - RingDelta(p, b, R)
      /\ RingDelta(y, p, R) <= RingDelta(x, p, R) /\ RingDelta(x, p, R) <= d.avail
      /\ \A s \in d.valid : s \in Slot /\ RingDelta(s, b, R) < RingDelta(p, b, R)
  BY <1>2 DEF BuffersRight
<1>5. n \in 1 .. R - 1 /\ n <= RingDelta(y, p, R) /\ n <= RingDelta(x, p, R)
  BY <1>2, <1>3, <1>4
<1>6. /\ RingDelta(RingIncr(p, n, R), b, R) = RingDelta(p, b, R) + n
      /\ \A s \in SlotsFrom(p, n) : s \in Slot /\ RingDelta(s, b, R) < RingDelta(p, b, R) + n
  BY BuffersFound
<1>7. /\ RingIncr(p, n, R) \in Slot
      /\ RingDelta(x, RingIncr(p, n, R), R) = RingDelta(x, p, R) - n
      /\ RingDelta(y, RingIncr(p, n, R), R) = RingDelta(y, p, R) - n
  <2>1. n \in 0 .. R - 1
    BY <1>5
  <2>. QED BY <1>1, <1>5, <2>1, RingSteps, RingMoves
<1>8. e.avail = R - 1 - RingDelta(RingIncr(p, n, R), b, R)
  BY <1>3, <1>4, <1>5, <1>6
<1>9. /\ RingDelta(y, RingIncr(p, n, R), R) <= RingDelta(x, RingIncr(p, n, R), R)
      /\ RingDelta(x, RingIncr(p, n, R), R) <= e.avail
  BY <1>3, <1>4, <1>5, <1>7
<1>10. \A s \in e.valid : s \in Slot /\ RingDelta(s, b, R) < RingDelta(RingIncr(p, n, R), b, R)
  <2>. TAKE s \in e.valid
  <2>1. CASE s \in SlotsFrom(p, n)
    BY <1>6, <2>1
  <2>2. CASE s \in d.valid
    <3>1. s \in Slot /\ RingDelta(s, b, R) < RingDelta(p, b, R)
      BY <1>4, <2>2
    <3>2. RingDelta(s, b, R) \in 0 .. R - 1
      BY <1>1, <3>1, RingPlaces
    <3>. QED BY <1>3, <1>5, <1>6, <3>1, <3>2
  <2>. QED BY <2>1, <2>2
<1>. QED BY <1>1, <1>2, <1>7, <1>8, <1>9, <1>10 DEF BuffersRight

\* So are the places in the completion ring.
LEMMA PlacesPassed ==
  ASSUME NEW d, PlacesRight(d), Shown(d) > 0, NEW e, e.cmptCidx = RingIncr(d.cmptCidx, 1, RC)
  PROVE  /\ PlacesRight(e) /\ Shown(e) = Shown(d) - 1
         /\ Shown(d) \in Int /\ Left(d) \in Int /\ Left(d) > 0
<1>. USE C2hAssumption DEF EntryAt
<1>1. PICK c \in EntryAt, w \in EntryAt, v \in EntryAt, s \in EntryAt :
        d.cmptCidx = c /\ h.cmptPidx = w /\ h.cmptCidx = v /\ h.status = s
  BY DEF PlacesRight
<1>2. /\ RingDelta(c, v, RC) + RingDelta(w, c, RC) = RingDelta(w, v, RC)
      /\ RingDelta(s, c, RC) <= RingDelta(w, c, RC) /\ RingDelta(s, c, RC) > 0
  BY <1>1 DEF PlacesRight, Left, Shown
<1>3. /\ RingDelta(c, v, RC) \in 0 .. RC - 1 /\ RingDelta(w, c, RC) \in 0 .. RC - 1
      /\ RingDelta(w, v, RC) \in 0 .. RC - 1 /\ RingDelta(s, c, RC) \in 0 .. RC - 1
  BY RingPlaces
<1>4. /\ RingIncr(c, 1, RC) \in EntryAt
      /\ RingDelta(RingIncr(c, 1, RC), v, RC) = RingDelta(c, v, RC) + 1
      /\ RingDelta(w, RingIncr(c, 1, RC), RC) = RingDelta(w, c, RC) - 1
      /\ RingDelta(s, RingIncr(c, 1, RC), RC) = RingDelta(s, c, RC) - 1
  <2>1. RingDelta(c, v, RC) + 1 < RC /\ 1 <= RingDelta(w, c, RC) /\ 1 <= RingDelta(s, c, RC)
    BY <1>2, <1>3
  <2>. QED BY <2>1, RingSteps, RingMoves
<1>5. e.cmptCidx = RingIncr(c, 1, RC)
  BY <1>1
<1>6. Shown(e) = Shown(d) - 1 /\ Left(e) = Left(d) - 1
  BY <1>1, <1>4, <1>5 DEF Shown, Left
<1>7. PlacesRight(e)
  BY <1>1, <1>2, <1>3, <1>4, <1>5 DEF PlacesRight, Shown, Left
<1>. QED BY <1>1, <1>2, <1>3, <1>6, <1>7 DEF Shown, Left

\* Without an error the next entry is a packet, and it is taken in whole.
LEMMA EntryDoes ==
  ASSUME CountsRight, handler \in BOOLEAN, NEW d, DOMAIN d = DrvFields, d.stop = FALSE,
         d.err = FALSE, NEW b, DrvRight(d, d.next, b), Shown(d) > 0,
         handler => d.pidxPend = d.next, NEW e, e = Entry(d)
  PROVE  /\ DOMAIN e = DrvFields
         /\ \/ e.err = TRUE
            \/ /\ Same(d, e, {"avail", "next", "cmptCidx", "color", "proc", "pidxPend", "got",
                              "taken", "len", "valid", "overrun", "dlen"})
               /\ e.proc = d.proc + 1
               /\ e.pidxPend = IF handler THEN e.next ELSE d.pidxPend
               /\ DrvRight(e, e.next, b) /\ Shown(e) = Shown(d) - 1
<1>. DEFINE x == cmpt[d.cmptCidx]
            n == FlNr(x.len)
            p == d.next
            f == RcvPkt(d, x.len)
<1>1. /\ BuffersRight(d, p, b) /\ (handler => HandlersWhole(d, p, b))
      /\ PlacesRight(d) /\ ColoursRight(d) /\ Packets(d, p)
  BY DEF DrvRight
<1>2. Shown(d) \in Int /\ Left(d) \in Int /\ Left(d) > 0
  <2>1. \E y : y = [cmptCidx |-> RingIncr(d.cmptCidx, 1, RC)]
    OBVIOUS
  <2>2. PICK y : y.cmptCidx = RingIncr(d.cmptCidx, 1, RC)
    BY <2>1
  <2>. QED BY <1>1, <2>2, PlacesPassed
<1>3. p \in Slot /\ h.cidx \in Slot /\ h.cmptPidx \in EntryAt
  BY <1>1 DEF BuffersRight, PlacesRight
<1>4. n \in 1 .. RingDelta(h.cidx, p, R) /\ x.color = d.color
  <2>1. PICK y : /\ y.cmptCidx = RingIncr(d.cmptCidx, 1, RC)
                 /\ y.color = IF d.cmptCidx = RC - 1 THEN 1 - d.color ELSE d.color
    <3>. DEFINE y == [cmptCidx |-> RingIncr(d.cmptCidx, 1, RC),
                      color |-> IF d.cmptCidx = RC - 1 THEN 1 - d.color ELSE d.color]
    <3>1. /\ y.cmptCidx = RingIncr(d.cmptCidx, 1, RC)
          /\ y.color = IF d.cmptCidx = RC - 1 THEN 1 - d.color ELSE d.color
      OBVIOUS
    <3>. HIDE DEF y
    <3>. QED BY <3>1
  <2>. HIDE DEF n
  <2>2. n = FlNr(cmpt[d.cmptCidx].len)
    BY DEF n
  <2>. QED BY <1>1, <1>2, <1>3, <2>1, <2>2, PacketPassed
<1>5. CASE x.err
  <2>1. e = [d EXCEPT !.err = TRUE]
    BY <1>5 DEF Entry
  <2>. QED BY <2>1 DEF DrvFields
<1>6. CASE ~x.err
  <2>1. e = f
    BY <1>4, <1>6 DEF Entry
  <2>. HIDE DEF n, f
  <2>2. /\ n \in 1 .. R - 1 /\ n <= d.avail /\ d.avail \in Int
        /\ SlotsFrom(p, n) \intersect d.valid = {}
        /\ RingIncr(RingIncr(p, n - 1, R), 1, R) = RingIncr(p, n, R)
        /\ RingIncr(p, n - 1, R) \in Slot
        /\ RingDelta(RingIncr(p, n - 1, R), b, R) = RingDelta(p, b, R) + n - 1
        /\ RingDelta(RingIncr(p, n, R), b, R) = RingDelta(p, b, R) + n
    BY <1>1, <1>4, BuffersFound
  <2>3. /\ Same(d, e, {"avail", "next", "cmptCidx", "color", "proc", "pidxPend", "got",
                       "taken", "len", "valid", "overrun", "dlen"})
        /\ e.avail = d.avail - n /\ e.next = RingIncr(p, n, R)
        /\ e.cmptCidx = RingIncr(d.cmptCidx, 1, RC)
        /\ e.color = IF d.cmptCidx = RC - 1 THEN 1 - d.color ELSE d.color
        /\ e.proc = d.proc + 1
        /\ e.len = [d.len EXCEPT ![RingIncr(p, n - 1, R)] = LastLen(x.len)]
        /\ handler => /\ e.pidxPend = RingIncr(p, n, R)
                      /\ e.valid = d.valid /\ e.overrun = d.overrun
        /\ ~handler => /\ e.pidxPend = d.pidxPend
                       /\ e.valid = d.valid \union SlotsFrom(p, n)
                       /\ e.overrun = (d.overrun \/ SlotsFrom(p, n) \intersect d.valid # {})
    <3>1. ~(d.avail < n)
      BY <2>2
    <3>2. n = FlNr(x.len) /\ e = RcvPkt(d, x.len)
      BY <2>1 DEF n, f
    <3>. HIDE DEF x
    <3>. QED BY <2>2, <3>1, <3>2, RcvPktDoes
  <2>4. e.overrun = FALSE
    <3>1. d.overrun = FALSE
      BY <1>1 DEF BuffersRight
    <3>. QED BY <2>2, <2>3, <3>1
  <2>5. BuffersRight(e, e.next, b)
    <3>1. e.valid = d.valid \/ e.valid = d.valid \union SlotsFrom(p, n)
      BY <2>3
    <3>2. e.avail = d.avail - n /\ e.next = RingIncr(p, n, R)
      BY <2>3
    <3>3. BuffersRight(e, RingIncr(p, n, R), b)
      BY <1>1, <1>4, <2>4, <3>1, <3>2, BuffersPassed
    <3>. QED BY <3>2, <3>3
  <2>6. handler => HandlersWhole(e, e.next, b)
    <3>. SUFFICES ASSUME handler PROVE HandlersWhole(e, e.next, b)
      OBVIOUS
    <3>1. HandlersWhole(d, p, b)
      BY <1>1
    <3>2. e.offset = d.offset
      BY <2>3 DEF Same, DrvFields
    <3>3. RingDelta(p, b, R) \in Int
      <4>1. RingDelta(p, b, R) \in 0 .. R - 1
        BY <1>1, C2hAssumption, RingPlaces DEF BuffersRight, Slot
      <4>. QED BY <4>1
    <3>4. DOMAIN e.len = Slot
      BY <2>3, <3>1 DEF HandlersWhole
    <3>5. ASSUME NEW s \in Slot
          PROVE  RingDelta(s, b, R) < RingDelta(e.next, b, R) \/ e.len[s] = BufSz
      <4>1. CASE s = RingIncr(p, n - 1, R)
        BY <2>2, <2>3, <3>3, <4>1
      <4>2. CASE s # RingIncr(p, n - 1, R)
        <5>1. e.len[s] = d.len[s]
          BY <2>3, <3>1, <4>2 DEF HandlersWhole
        <5>2. RingDelta(s, b, R) \in 0 .. R - 1
          BY <1>1, C2hAssumption, RingPlaces DEF BuffersRight, Slot
        <5>3. RingDelta(s, b, R) < RingDelta(p, b, R) \/ d.len[s] = BufSz
          BY <3>1 DEF HandlersWhole
        <5>4. RingDelta(e.next, b, R) = RingDelta(p, b, R) + n
          BY <2>2, <2>3
        <5>. QED BY <2>2, <3>3, <5>1, <5>2, <5>3, <5>4
      <4>. QED BY <4>1, <4>2
    <3>. QED BY <3>1, <3>2, <3>4, <3>5 DEF HandlersWhole
  <2>7. PlacesRight(e) /\ Shown(e) = Shown(d) - 1
    BY <1>1, <2>3, PlacesPassed
  <2>8. ColoursRight(e) /\ Packets(e, e.next)
    <3>1. n = FlNr(cmpt[d.cmptCidx].len)
      BY DEF n
    <3>. QED BY <1>1, <1>2, <1>3, <2>3, <3>1, PacketPassed
  <2>9. DrvRight(e, e.next, b)
    BY <2>5, <2>6, <2>7, <2>8 DEF DrvRight
  <2>. QED BY <2>3, <2>7, <2>9 DEF Same
<1>. QED BY <1>5, <1>6

\* The loop of a pass, after k entries.
Looped(k, d) ==
    /\ DOMAIN d = DrvFields
    /\ \/ d.err = TRUE
       \/ /\ d.err = FALSE /\ d.stop = FALSE /\ d.proc = k
          /\ d.pidx = q.pidx /\ d.pidxInfo = q.pidxInfo /\ d.list = q.list
          /\ d.pidxPend = IF handler THEN d.next ELSE q.pidxPend
          /\ DrvRight(d, d.next, q.pidxPend) /\ Shown(d) = Shown(q) - k

\* The completion entries of a record that moved neither place nor turn.
LEMMA CmptKept ==
  ASSUME NEW d, NEW p, PlacesRight(d), ColoursRight(d), Packets(d, p),
         NEW e, e.cmptCidx = d.cmptCidx, e.color = d.color
  PROVE  /\ PlacesRight(e) /\ ColoursRight(e) /\ Packets(e, p)
         /\ Shown(e) = Shown(d) /\ Left(e) = Left(d)
<1>1. Shown(e) = Shown(d) /\ Left(e) = Left(d)
  BY DEF Shown, Left
<1>2. PlacesRight(e)
  BY <1>1 DEF PlacesRight
<1>3. ColoursRight(e)
  BY <1>1 DEF ColoursRight
<1>4. Packets(e, p)
  <2>1. PICK f : f \in [0 .. RC -> Int] /\ Chained(d, p, f)
    BY DEF Packets
  <2>2. Chained(e, p, f)
    BY <1>1, <2>1 DEF Chained
  <2>. QED BY <2>1, <2>2 DEF Packets
<1>. QED BY <1>1, <1>2, <1>3, <1>4

LEMMA ShownIs == ASSUME C2hInv, q.err = FALSE PROVE Shown(q) \in Int
<1>1. PICK c \in EntryAt, s \in EntryAt : q.cmptCidx = c /\ h.status = s
  BY DEF C2hInv, C2hRight, DrvRight, PlacesRight
<1>2. RingDelta(s, c, RC) \in 0 .. RC - 1
  BY C2hAssumption, RingPlaces DEF EntryAt
<1>. QED BY <1>1, <1>2 DEF Shown

LEMMA LoopStarts ==
  ASSUME C2hInv, q.err = FALSE, NEW d, d = [q EXCEPT !.next = q.pidx, !.got = << >>]
  PROVE  Looped(0, d)
<1>1. C2hRight /\ DOMAIN q = DrvFields /\ handler \in BOOLEAN
  BY DEF C2hInv
<1>2. Same(q, d, {"next", "got"}) /\ d.next = q.pidx
  BY <1>1 DEF Same, DrvFields
<1>3. /\ d.cmptCidx = q.cmptCidx /\ d.color = q.color /\ d.avail = q.avail
      /\ d.overrun = q.overrun /\ d.valid = q.valid /\ d.len = q.len
      /\ d.offset = q.offset /\ d.pidxPend = q.pidxPend /\ d.pidx = q.pidx
      /\ d.err = q.err /\ d.stop = q.stop /\ d.proc = q.proc /\ d.list = q.list
      /\ d.pidxInfo = q.pidxInfo
  BY <1>2 DEF Same, DrvFields
<1>4. PlacesRight(d) /\ ColoursRight(d) /\ Packets(d, q.pidx) /\ Shown(d) = Shown(q)
  BY <1>1, <1>3, CmptKept DEF C2hRight, DrvRight
<1>5. DrvRight(d, q.pidx, q.pidxPend)
  BY <1>1, <1>3, <1>4 DEF C2hRight, DrvRight, BuffersRight, HandlersWhole
<1>6. DrvRight(d, d.next, q.pidxPend) /\ Shown(d) = Shown(q) - 0
  <2>1. DrvRight(d, d.next, q.pidxPend)
    BY <1>2, <1>5, Zenon
  <2>2. Shown(q) \in Int
    BY ShownIs
  <2>. QED BY <1>4, <2>1, <2>2
<1>7. d.stop = FALSE /\ d.proc = 0 /\ d.pidxPend = IF handler THEN d.next ELSE q.pidxPend
  BY <1>1, <1>2, <1>3 DEF C2hRight, RecordRight, ToldRight
<1>. QED BY <1>2, <1>3, <1>6, <1>7 DEF Looped, Same

LEMMA LoopGoesOn ==
  ASSUME CountsRight, C2hInv, q.err = FALSE, NEW k \in 1 .. Shown(q), NEW d, Looped(k - 1, d),
         NEW e, e = Entry(d)
  PROVE  Looped(k, e)
<1>1. C2hRight /\ handler \in BOOLEAN /\ Shown(q) \in Int
  BY ShownIs DEF C2hInv
<1>2. CASE d.err = TRUE
  <2>1. e = d
    BY <1>2 DEF Entry
  <2>. QED BY <1>2, <2>1 DEF Looped
<1>3. CASE ~(d.err = TRUE)
  <2>1. /\ DOMAIN d = DrvFields /\ d.err = FALSE /\ d.stop = FALSE /\ d.proc = k - 1
        /\ d.pidx = q.pidx /\ d.pidxInfo = q.pidxInfo /\ d.list = q.list
        /\ d.pidxPend = IF handler THEN d.next ELSE q.pidxPend
        /\ DrvRight(d, d.next, q.pidxPend) /\ Shown(d) = Shown(q) - (k - 1)
    BY <1>3 DEF Looped
  <2>2. Shown(d) > 0
    BY <1>1, <2>1
  <2>3. /\ DOMAIN e = DrvFields
        /\ \/ e.err = TRUE
           \/ /\ Same(d, e, {"avail", "next", "cmptCidx", "color", "proc", "pidxPend", "got",
                             "taken", "len", "valid", "overrun", "dlen"})
              /\ e.proc = d.proc + 1
              /\ e.pidxPend = IF handler THEN e.next ELSE d.pidxPend
              /\ DrvRight(e, e.next, q.pidxPend) /\ Shown(e) = Shown(d) - 1
    BY <1>1, <2>1, <2>2, EntryDoes
  <2>4. CASE e.err = TRUE
    BY <2>3, <2>4 DEF Looped
  <2>5. CASE ~(e.err = TRUE)
    <3>1. /\ e.err = d.err /\ e.stop = d.stop /\ e.pidx = d.pidx /\ e.pidxInfo = d.pidxInfo
          /\ e.list = d.list
      BY <2>3, <2>5 DEF Same, DrvFields
    <3>2. e.proc = k /\ Shown(e) = Shown(q) - k
      BY <1>1, <2>1, <2>3, <2>5
    <3>. QED BY <2>1, <2>3, <2>5, <3>1, <3>2 DEF Looped
  <2>. QED BY <2>4, <2>5
<1>. QED BY <1>2, <1>3

LEMMA ProcessDoes ==
  ASSUME CountsRight, C2hInv, q.err = FALSE, NEW n \in 1 .. Shown(q)
  PROVE  Looped(n, Process(n))
<1>1. Shown(q) \in Int
  BY ShownIs
<1>2. PICK g : /\ g[0] = [q EXCEPT !.next = q.pidx, !.got = << >>]
               /\ \A k \in 1 .. n : g[k] = Entry(g[k - 1])
               /\ Process(n) = g[n]
  <2>1. n \in Nat
    OBVIOUS
  <2>. QED BY <2>1, ProcessChain
<1>. DEFINE T == {k \in 0 .. n : Looped(k, g[k])}
<1>3. 0 \in T
  <2>1. PICK d : d = [q EXCEPT !.next = q.pidx, !.got = << >>]
    OBVIOUS
  <2>2. Looped(0, d)
    BY <2>1, LoopStarts
  <2>3. Looped(0, g[0])
    BY <1>2, <2>1, <2>2, Zenon
  <2>. QED BY <2>3
<1>4. ASSUME NEW k \in 1 .. n, k - 1 \in T
      PROVE  k \in T
  <2>1. Looped(k - 1, g[k - 1]) /\ g[k] = Entry(g[k - 1]) /\ k \in 1 .. Shown(q)
    BY <1>1, <1>2, <1>4
  <2>2. Looped(k, g[k])
    BY <2>1, LoopGoesOn
  <2>. QED BY <2>2
<1>5. T = 0 .. n
  <2>. HIDE DEF T
  <2>1. T \subseteq 0 .. n /\ n \in Nat
    BY DEF T
  <2>. QED BY <1>3, <1>4, <2>1, UpTo
<1>. QED BY <1>2, <1>5

-----------------------------------------------------------------------------
(* Buffers that are given back. *)

LEMMA BuffersReturned ==
  ASSUME NEW d, NEW p, NEW b, BuffersRight(d, p, b), NEW c \in Slot,
         RingDelta(p, c, R) <= RingDelta(p, b, R),
         NEW e, e.avail = d.avail + RingDelta(c, b, R),
         e.valid = d.valid \ SlotsFrom(b, RingDelta(c, b, R)), e.overrun = FALSE
  PROVE  BuffersRight(e, p, c)
<1>. USE C2hAssumption DEF Slot
<1>1. p \in Slot /\ b \in Slot
  BY DEF BuffersRight
<1>2. PICK x \in Slot, y \in Slot : h.pidx = x /\ h.cidx = y
  BY DEF BuffersRight
<1>3. /\ RingDelta(p, b, R) \in 0 .. R - 1 /\ RingDelta(x, p, R) \in 0 .. R - 1
      /\ RingDelta(y, p, R) \in 0 .. R - 1 /\ RingDelta(p, c, R) \in 0 .. R - 1
      /\ RingDelta(c, b, R) \in 0 .. R - 1
  BY <1>1, RingPlaces
<1>4. /\ d.avail = R - 1 - RingDelta(p, b, R)
      /\ RingDelta(y, p, R) <= RingDelta(x, p, R) /\ RingDelta(x, p, R) <= d.avail
      /\ \A s \in d.valid : s \in Slot /\ RingDelta(s, b, R) < RingDelta(p, b, R)
  BY <1>2 DEF BuffersRight
<1>5. RingDelta(p, b, R) = RingDelta(c, b, R) + RingDelta(p, c, R)
  BY <1>1 DEF RingDelta
<1>6. /\ e.avail = R - 1 - RingDelta(p, c, R)
      /\ RingDelta(x, p, R) <= e.avail
  BY <1>3, <1>4, <1>5
<1>7. \A s \in e.valid : s \in Slot /\ RingDelta(s, c, R) < RingDelta(p, c, R)
  <2>. TAKE s \in e.valid
  <2>1. s \in Slot /\ RingDelta(s, b, R) < RingDelta(p, b, R)
    BY <1>4
  <2>2. ~(RingDelta(s, b, R) < RingDelta(c, b, R))
    BY <1>1, <1>3, <2>1, SlotsFromIs
  <2>3. RingDelta(s, b, R) \in 0 .. R - 1
    BY <1>1, <2>1, RingPlaces
  <2>4. RingDelta(s, b, R) = RingDelta(c, b, R) + RingDelta(s, c, R)
    BY <1>1, <1>3, <2>1, <2>2, <2>3, RingSums
  <2>5. RingDelta(s, c, R) \in 0 .. R - 1
    BY <2>1, RingPlaces
  <2>. QED BY <1>3, <1>5, <2>1, <2>3, <2>4, <2>5
<1>. QED BY <1>1, <1>2, <1>4, <1>6, <1>7 DEF BuffersRight

LEMMA GiveBackDoes ==
  ASSUME handler \in BOOLEAN, NEW d, DOMAIN d = DrvFields, NEW p, DrvRight(d, p, q.pidxPend),
         d.pidxPend \in Slot, RingDelta(p, d.pidxPend, R) <= RingDelta(p, q.pidxPend, R),
         handler => d.pidxPend = p,
         d.pidxInfo = RingDecr(q.pidxPend, 1, R), NEW e, e = GiveBack(d)
  PROVE  /\ Same(d, e, {"avail", "valid", "len", "offset", "pendEmpty", "pidxInfo"})
         /\ DrvRight(e, p, d.pidxPend)
         /\ e.pidxInfo = RingDecr(d.pidxPend, 1, R)
<1>. USE C2hAssumption DEF Slot
<1>. DEFINE b == q.pidxPend
            c == d.pidxPend
            n == RingDelta(c, b, R)
            r == Refill(d, b, n, ~handler)
<1>1. /\ BuffersRight(d, p, b) /\ (handler => HandlersWhole(d, p, b))
      /\ PlacesRight(d) /\ ColoursRight(d) /\ Packets(d, p)
  BY DEF DrvRight
<1>2. p \in Slot /\ b \in Slot /\ c \in Slot
  BY <1>1 DEF BuffersRight
<1>3. n \in 0 .. R - 1 /\ (n = 0 => c = b)
  BY <1>2, RingPlaces
<1>4. CASE n = 0
  <2>1. e = d
    BY <1>4 DEF GiveBack
  <2>. QED BY <1>3, <1>4, <2>1 DEF Same
<1>5. CASE n # 0
  <2>1. e = [r EXCEPT !.pidxInfo = RingDecr(c, 1, R)]
    BY <1>5 DEF GiveBack
  <2>2. /\ Same(d, r, {"avail", "valid", "len", "offset", "pendEmpty"})
        /\ r.avail = d.avail + n
        /\ r.valid = d.valid \ SlotsFrom(b, n)
        /\ DOMAIN r.len = Slot /\ DOMAIN r.offset = Slot
        /\ \A s \in Slot :
              /\ r.len[s] = IF s \in SlotsFrom(b, n) THEN BufSz ELSE d.len[s]
              /\ r.offset[s] = IF s \in SlotsFrom(b, n) /\ handler THEN 0 ELSE d.offset[s]
    <3>1. PICK recycle \in BOOLEAN : recycle = ~handler
      OBVIOUS
    <3>2. r = Refill(d, b, n, recycle)
      BY <3>1
    <3>. HIDE DEF r, n, b
    <3>3. /\ Same(d, r, {"avail", "valid", "len", "offset", "pendEmpty"})
          /\ r.avail = d.avail + n
          /\ r.valid = d.valid \ SlotsFrom(b, n)
          /\ DOMAIN r.len = Slot /\ DOMAIN r.offset = Slot
          /\ \A s \in Slot :
                /\ r.len[s] = IF s \in SlotsFrom(b, n) THEN BufSz ELSE d.len[s]
                /\ r.offset[s] = IF s \in SlotsFrom(b, n) /\ ~recycle THEN 0 ELSE d.offset[s]
      BY <3>2, RefillDoes
    <3>. QED BY <3>1, <3>3
  <2>. HIDE DEF r
  <2>3. /\ Same(r, e, {"pidxInfo"}) /\ e.pidxInfo = RingDecr(c, 1, R)
    BY <2>1, <2>2 DEF Same, DrvFields
  <2>4. /\ e.avail = r.avail /\ e.valid = r.valid /\ e.len = r.len /\ e.offset = r.offset
        /\ e.overrun = d.overrun /\ e.cmptCidx = d.cmptCidx /\ e.color = d.color
    BY <2>2, <2>3 DEF Same, DrvFields
  <2>5. Same(d, e, {"avail", "valid", "len", "offset", "pendEmpty", "pidxInfo"})
    BY <2>2, <2>3 DEF Same
  <2>6. BuffersRight(e, p, c)
    <3>1. e.overrun = FALSE
      BY <1>1, <2>4 DEF BuffersRight
    <3>2. e.avail = d.avail + RingDelta(c, b, R) /\ e.valid = d.valid \ SlotsFrom(b, RingDelta(c, b, R))
      BY <2>2, <2>4
    <3>3. RingDelta(p, c, R) <= RingDelta(p, b, R)
      OBVIOUS
    <3>. HIDE DEF b, c, Slot
    <3>. QED BY <1>1, <1>2, <3>1, <3>2, <3>3, BuffersReturned
  <2>7. handler => HandlersWhole(e, p, c)
    <3>. SUFFICES ASSUME handler PROVE HandlersWhole(e, p, c)
      OBVIOUS
    <3>1. c = p /\ HandlersWhole(d, p, b)
      BY <1>1
    <3>2. \A s \in Slot : s \in SlotsFrom(b, n) <=> RingDelta(s, b, R) < n
      BY <1>2, <1>3, SlotsFromIs
    <3>3. \A s \in Slot : e.offset[s] = 0 /\ e.len[s] = BufSz
      BY <2>2, <2>4, <3>1, <3>2 DEF HandlersWhole
    <3>. QED BY <2>2, <2>4, <3>3 DEF HandlersWhole
  <2>8. PlacesRight(e) /\ ColoursRight(e) /\ Packets(e, p)
    BY <1>1, <2>4, CmptKept
  <2>. QED BY <2>3, <2>5, <2>6, <2>7, <2>8 DEF DrvRight
<1>. QED BY <1>4, <1>5

\* What a pass leaves, when it processed an entry and found no error.
LEMMA FinishDoes ==
  ASSUME handler \in BOOLEAN, NEW d, DOMAIN d = DrvFields, d.err = FALSE, d.stop = FALSE,
         d.pidxInfo = RingDecr(q.pidxPend, 1, R), IsList(d.list),
         d.pidxPend = IF handler THEN d.next ELSE q.pidxPend,
         DrvRight(d, d.next, q.pidxPend), NEW e, e = Finish(d)
  PROVE  /\ DOMAIN e = DrvFields /\ e.err = FALSE
         /\ DrvRight(e, e.pidx, e.pidxPend) /\ e.pidxInfo = RingDecr(e.pidxPend, 1, R)
         /\ handler => e.pidxPend = e.pidx
         /\ e.wrbCidx = e.cmptCidx /\ IsList(e.list)
<1>. USE C2hAssumption
<1>. DEFINE f == [d EXCEPT !.pidx = d.next, !.wrbCidx = d.cmptCidx]
            g == IF handler THEN f ELSE ReadAll(f)
<1>1. /\ BuffersRight(d, d.next, q.pidxPend) /\ (handler => HandlersWhole(d, d.next, q.pidxPend))
      /\ PlacesRight(d) /\ ColoursRight(d) /\ Packets(d, d.next)
  BY DEF DrvRight
<1>2. d.next \in Slot /\ q.pidxPend \in Slot /\ d.pidxPend \in Slot
  BY <1>1 DEF BuffersRight
<1>3. Same(d, f, {"pidx", "wrbCidx"}) /\ f.pidx = d.next /\ f.wrbCidx = d.cmptCidx
  BY DEF Same, DrvFields
<1>4. e = GiveBack(g)
  BY DEF Finish
<1>. HIDE DEF f
<1>5. /\ Same(f, g, ReadFields \union {"list", "pendEmpty", "more"}) /\ IsList(g.list)
      /\ g.pidxPend \in Slot
      /\ RingDelta(d.next, g.pidxPend, R) <= RingDelta(d.next, q.pidxPend, R)
      /\ handler => g = f
  <2>1. DOMAIN f = DrvFields /\ f.pidxPend = d.pidxPend /\ f.list = d.list
    BY <1>3 DEF Same, DrvFields
  <2>2. CASE handler
    <3>1. /\ RingDelta(d.next, d.next, R) = 0 /\ RingDelta(d.next, q.pidxPend, R) \in 0 .. R - 1
      BY <1>2, RingPlaces DEF Slot
    <3>. QED BY <1>2, <2>1, <2>2, <3>1 DEF Same
  <2>3. CASE ~handler
    <3>1. ReadFrom(f, ReadAll(f))
      BY <1>2, <1>3, <2>1, ReadAllDoes
    <3>2. g = ReadAll(f)
      BY <2>3
    <3>. HIDE DEF g
    <3>. QED BY <1>3, <2>1, <2>3, <3>1, <3>2 DEF ReadFrom
  <2>. QED BY <2>2, <2>3
<1>. HIDE DEF g
<1>6. /\ DOMAIN g = DrvFields /\ g.pidx = d.next /\ g.wrbCidx = d.cmptCidx
      /\ g.cmptCidx = d.cmptCidx /\ g.color = d.color /\ g.avail = d.avail /\ g.valid = d.valid
      /\ g.overrun = d.overrun /\ g.err = FALSE /\ g.pidxInfo = d.pidxInfo
      /\ handler => g.len = d.len /\ g.offset = d.offset /\ g.pidxPend = d.pidxPend
  BY <1>3, <1>5 DEF Same, ReadFields, DrvFields
<1>7. PlacesRight(g) /\ ColoursRight(g) /\ Packets(g, d.next)
  BY <1>1, <1>6, CmptKept
<1>8. DrvRight(g, d.next, q.pidxPend)
  BY <1>1, <1>6, <1>7 DEF DrvRight, BuffersRight, HandlersWhole
<1>9. /\ Same(g, e, {"avail", "valid", "len", "offset", "pendEmpty", "pidxInfo"})
      /\ DrvRight(e, d.next, g.pidxPend)
      /\ e.pidxInfo = RingDecr(g.pidxPend, 1, R)
  BY <1>4, <1>5, <1>6, <1>8, GiveBackDoes
<1>10. /\ DOMAIN e = DrvFields /\ e.err = FALSE /\ e.pidx = d.next /\ e.pidxPend = g.pidxPend
       /\ e.wrbCidx = d.cmptCidx /\ e.cmptCidx = d.cmptCidx /\ e.list = g.list
  BY <1>6, <1>9 DEF Same, DrvFields
<1>. QED BY <1>5, <1>6, <1>9, <1>10

-----------------------------------------------------------------------------
(* The steps. *)

LEMMA DrvPrimed ==
  ASSUME NEW d, q' = d, DrvRight(d, d.pidx, d.pidxPend)'
  PROVE  DrvRight(q, q.pidx, q.pidxPend)'
<1>1. /\ BuffersRight(d, d.pidx, d.pidxPend)' /\ (handler => HandlersWhole(d, d.pidx, d.pidxPend))'
      /\ PlacesRight(d)' /\ ColoursRight(d)' /\ Packets(d, d.pidx)'
  BY DEF DrvRight
<1>2. BuffersRight(q, q.pidx, q.pidxPend)'
  BY <1>1 DEF BuffersRight
<1>3. (handler => HandlersWhole(q, q.pidx, q.pidxPend))'
  BY <1>1 DEF HandlersWhole
<1>4. Left(q)' = Left(d)' /\ Shown(q)' = Shown(d)'
  BY DEF Left, Shown
<1>5. PlacesRight(q)'
  BY <1>1, <1>4 DEF PlacesRight
<1>6. ColoursRight(q)'
  BY <1>1, <1>4 DEF ColoursRight
<1>7. Packets(q, q.pidx)'
  BY <1>1, <1>4 DEF Packets, Chained
<1>. QED BY <1>2, <1>3, <1>5, <1>6, <1>7 DEF DrvRight

\* What lies in the buffers, while the hardware writes none.
LEMMA LiesKept ==
  ASSUME mem' = mem, h'.cidx = h.cidx, h'.units = h.units, NEW d, NEW p, Packets(d, p),
         cmpt' = cmpt, Left(d)' = Left(d)
  PROVE  Packets(d, p)'
<1>1. PICK f : f \in [0 .. RC -> Int] /\ Chained(d, p, f)
  BY DEF Packets
<1>2. \A s, len : Lies(s, len) => Lies(s, len)'
  <2>. SUFFICES ASSUME NEW s, NEW len, Lies(s, len) PROVE Lies(s, len)'
    OBVIOUS
  <2>1. ASSUME NEW t PROVE Mark(t)' = Mark(t)
    BY DEF Mark
  <2>. QED BY <2>1 DEF Lies
<1>3. Chained(d, p, f)'
  <2>1. /\ f[0] = 0 /\ f[Left(d)] = RingDelta(h.cidx, p, R)
        /\ \A j, k \in 0 .. Left(d) : j <= k => f[j] <= f[k]
        /\ \A k \in 0 .. Left(d) - 1 : f[k + 1] = f[k] + FlNr(cmpt[RingIncr(d.cmptCidx, k, RC)].len)
    BY <1>1 DEF Chained
  <2>2. \A k \in 0 .. Left(d) - 1 : Lies(RingIncr(p, f[k], R), cmpt[RingIncr(d.cmptCidx, k, RC)].len)
    BY <1>1 DEF Chained
  <2>3. \A k \in 0 .. Left(d) - 1 : Lies(RingIncr(p, f[k], R), cmpt[RingIncr(d.cmptCidx, k, RC)].len)'
    <3>. TAKE k \in 0 .. Left(d) - 1
    <3>1. PICK len : len = cmpt[RingIncr(d.cmptCidx, k, RC)].len
      OBVIOUS
    <3>2. Lies(RingIncr(p, f[k], R), len)
      BY <2>2, <3>1
    <3>3. Lies(RingIncr(p, f[k], R), len)'
      BY <1>2, <3>2
    <3>4. \A l : l = len /\ Lies(RingIncr(p, f[k], R), len)' => Lies(RingIncr(p, f[k], R), l)'
      OBVIOUS
    <3>5. cmpt'[RingIncr(d.cmptCidx, k, RC)].len = len
      BY <3>1
    <3>. QED BY <3>3, <3>5 DEF Lies
  <2>. QED BY <2>1, <2>3 DEF Chained
<1>. QED BY <1>1, <1>3 DEF Packets

\* The driver tells the hardware where it is in a ring, or both.
LEMMA DrvTells ==
  ASSUME NEW d, NEW p, NEW b, DrvRight(d, p, b), handler' = handler, cmpt' = cmpt,
         h'.cidx = h.cidx, h'.cmptPidx = h.cmptPidx, h'.color = h.color, h'.status = h.status,
         mem' = mem, h'.units = h.units,
         h'.pidx = h.pidx \/ h'.pidx = RingDecr(b, 1, R),
         h'.cmptCidx = h.cmptCidx \/ h'.cmptCidx = d.cmptCidx
  PROVE  DrvRight(d, p, b)'
<1>. USE C2hAssumption DEF Slot, EntryAt
<1>1. /\ BuffersRight(d, p, b) /\ (handler => HandlersWhole(d, p, b))
      /\ PlacesRight(d) /\ ColoursRight(d) /\ Packets(d, p)
  BY DEF DrvRight
<1>2. BuffersRight(d, p, b)'
  <2>1. PICK x \in Slot, y \in Slot : h.pidx = x /\ h.cidx = y
    BY <1>1 DEF BuffersRight
  <2>2. /\ p \in Slot /\ b \in Slot /\ d.avail = R - 1 - RingDelta(p, b, R)
        /\ RingDelta(y, p, R) <= RingDelta(x, p, R) /\ RingDelta(x, p, R) <= d.avail
    BY <1>1, <2>1 DEF BuffersRight
  <2>3. /\ RingDelta(x, p, R) \in 0 .. R - 1 /\ RingDelta(y, p, R) \in 0 .. R - 1
        /\ RingDelta(p, b, R) \in 0 .. R - 1
        /\ RingDecr(b, 1, R) \in 0 .. R - 1
        /\ RingDelta(RingDecr(b, 1, R), p, R) = R - 1 - RingDelta(p, b, R)
    BY <2>2, RingPlaces
  <2>4. h'.pidx \in Slot /\ RingDelta(y, p, R) <= RingDelta(h'.pidx, p, R) /\ RingDelta(h'.pidx, p, R) <= d.avail
    <3>1. CASE h'.pidx = h.pidx
      BY <2>1, <2>2, <3>1
    <3>2. CASE h'.pidx = RingDecr(b, 1, R)
      BY <2>2, <2>3, <3>2
    <3>. QED BY <3>1, <3>2
  <2>. QED BY <1>1, <2>1, <2>4 DEF BuffersRight
<1>3. (handler => HandlersWhole(d, p, b))'
  BY <1>1 DEF HandlersWhole
<1>4. Left(d)' = Left(d) /\ Shown(d)' = Shown(d)
  BY DEF Left, Shown
<1>5. PlacesRight(d)'
  <2>1. CASE h'.cmptCidx = h.cmptCidx
    BY <1>1, <1>4, <2>1 DEF PlacesRight
  <2>2. CASE h'.cmptCidx = d.cmptCidx
    <3>1. PICK c \in EntryAt, w \in EntryAt : d.cmptCidx = c /\ h.cmptPidx = w
      BY <1>1 DEF PlacesRight
    <3>2. RingDelta(c, c, RC) = 0 /\ RingDelta(w, c, RC) \in 0 .. RC - 1
      BY RingPlaces
    <3>3. RingDelta(c, c, RC) + RingDelta(w, c, RC) = RingDelta(w, c, RC)
      BY <3>2
    <3>4. Left(d) = RingDelta(w, c, RC)
      BY <3>1 DEF Left
    <3>. QED BY <1>1, <1>4, <2>2, <3>1, <3>3, <3>4 DEF PlacesRight
  <2>. QED BY <2>1, <2>2
<1>6. ColoursRight(d)'
  BY <1>1, <1>4 DEF ColoursRight
<1>7. Packets(d, p)'
  BY <1>1, <1>4, LiesKept
<1>. QED BY <1>2, <1>3, <1>5, <1>6, <1>7 DEF DrvRight

LEMMA PassBudget ==
  ASSUME NEW budget \in Nat, NEW pend \in Nat, pend # 0
  PROVE  (IF budget = 0 THEN pend ELSE Min({budget, pend})) \in 1 .. pend
<1>1. Min({budget, pend}) = IF budget <= pend THEN budget ELSE pend
  BY DEF Min
<1>. QED BY <1>1

\* What a step has to establish, for the record that it leaves.
LEMMA Assembled ==
  ASSUME NEW d, q' = d, DOMAIN d = DrvFields, d.err \in BOOLEAN,
         DOMAIN h' = HwFields, h'.units \in Nat, handler' \in BOOLEAN, DOMAIN cmpt' = EntryAt,
         d.err = FALSE => /\ DrvRight(d, d.pidx, d.pidxPend)' /\ RecordRight(d)
                          /\ ToldRight(d)' /\ WakeupRight'
  PROVE  C2hInv'
<1>1. DOMAIN q' = DrvFields /\ q'.err \in BOOLEAN
  OBVIOUS
<1>2. ASSUME q'.err = FALSE PROVE C2hRight'
  <2>1. DrvRight(d, d.pidx, d.pidxPend)' /\ RecordRight(d) /\ ToldRight(d)' /\ WakeupRight'
    BY <1>2
  <2>2. DrvRight(q, q.pidx, q.pidxPend)'
    BY <2>1, DrvPrimed
  <2>3. RecordRight(q)' /\ ToldRight(q)'
    BY <2>1 DEF RecordRight, ToldRight, IsList
  <2>. QED BY <2>1, <2>2, <2>3 DEF C2hRight
<1>. QED BY <1>1, <1>2 DEF C2hInv

\* The interrupt's work item, and the first half of a poll.
LEMMA ServiceInv ==
  ASSUME CountsRight, C2hInv, NEW budget \in Nat, Service(budget), napi = "sched",
         napi' = IF handler THEN "update" ELSE "idle", handler' = handler, cmpt' = cmpt, mem' = mem
  PROVE  C2hInv'
<1>. USE C2hAssumption
<1>1. /\ DOMAIN q = DrvFields /\ DOMAIN h = HwFields /\ handler \in BOOLEAN
      /\ DOMAIN cmpt = EntryAt /\ q.err \in BOOLEAN /\ h.units \in Nat
      /\ q.err = FALSE => C2hRight
  BY DEF C2hInv
<1>. PICK u : u = q
  OBVIOUS
<1>2. CASE q.err = TRUE
  <2>1. q' = u /\ h' = h
    BY <1>2 DEF Service
  <2>. QED BY <1>1, <1>2, <2>1, Assembled
<1>3. CASE q.err = FALSE
  <2>1. /\ RecordRight(q) /\ ToldRight(q) /\ DrvRight(q, q.pidx, q.pidxPend) /\ WakeupRight
    BY <1>1, <1>3 DEF C2hRight
  <2>2. PICK c \in EntryAt, s \in EntryAt : q.cmptCidx = c /\ h.status = s
    BY <2>1 DEF DrvRight, PlacesRight
  <2>. DEFINE pend == RingDelta(h.status, q.cmptCidx, RC)
              n == IF budget = 0 THEN pend ELSE Min({budget, pend})
  <2>3. pend = Shown(q) /\ pend \in Nat
    <3>1. RingDelta(s, c, RC) \in 0 .. RC - 1
      BY RingPlaces DEF EntryAt
    <3>. QED BY <2>2, <3>1 DEF Shown
  <2>4. CASE pend = 0
    <3>1. q' = u /\ h' = WriteCidx(h, q.wrbCidx)
      BY <1>3, <2>4 DEF Service
    <3>2. /\ DOMAIN h' = HwFields /\ h'.cidx = h.cidx /\ h'.cmptPidx = h.cmptPidx
          /\ h'.color = h.color /\ h'.status = h.status /\ h'.pidx = h.pidx
          /\ h'.cmptCidx = q.cmptCidx /\ h'.armed = TRUE /\ h'.units = h.units
      BY <1>1, <2>1, <3>1 DEF WriteCidx, HwFields, RecordRight
    <3>3. DrvRight(u, u.pidx, u.pidxPend)'
      BY <2>1, <3>2, DrvTells
    <3>4. ToldRight(u)' /\ RecordRight(u)
      BY <2>1, <3>2 DEF ToldRight
    <3>5. WakeupRight'
      BY <1>1, <3>1, <3>2 DEF WakeupRight
    <3>. QED BY <1>1, <3>1, <3>2, <3>3, <3>4, <3>5, Assembled
  <2>5. CASE pend # 0
    <3>1. n \in 1 .. Shown(q)
      BY <2>3, <2>5, PassBudget
    <3>2. PICK d : /\ d = Process(n)
                   /\ IF d.err \/ d.proc = 0
                      THEN q' = Clean(d) /\ h' = h
                      ELSE Processed(d, Finish(d))
      BY <1>3, <2>5 DEF Service
    <3>3. Looped(n, d)
      BY <1>3, <3>1, <3>2, ProcessDoes
    <3>. HIDE DEF n, pend
    <3>4. CASE d.err = TRUE
      <4>1. q' = Clean(d) /\ h' = h
        BY <3>2, <3>4
      <4>2. DOMAIN d = DrvFields
        BY <3>3 DEF Looped
      <4>3. PICK f : f = Clean(d)
        OBVIOUS
      <4>4. DOMAIN f = DrvFields /\ f.err = TRUE
        BY <3>4, <4>2, <4>3 DEF Clean, DrvFields
      <4>. QED BY <1>1, <4>1, <4>3, <4>4, Assembled
    <3>5. CASE ~(d.err = TRUE)
      <4>1. /\ DOMAIN d = DrvFields /\ d.err = FALSE /\ d.stop = FALSE /\ d.proc = n
            /\ d.pidx = q.pidx /\ d.pidxInfo = q.pidxInfo /\ d.list = q.list
            /\ d.pidxPend = IF handler THEN d.next ELSE q.pidxPend
            /\ DrvRight(d, d.next, q.pidxPend)
        BY <3>3, <3>5 DEF Looped
      <4>2. ~(d.err \/ d.proc = 0)
        BY <3>1, <4>1
      <4>3. PICK e : e = Finish(d)
        OBVIOUS
      <4>4. Processed(d, e)
        BY <3>2, <4>2, <4>3
      <4>5. /\ DOMAIN e = DrvFields /\ e.err = FALSE
            /\ DrvRight(e, e.pidx, e.pidxPend) /\ e.pidxInfo = RingDecr(e.pidxPend, 1, R)
            /\ handler => e.pidxPend = e.pidx
            /\ e.wrbCidx = e.cmptCidx /\ IsList(e.list)
        BY <1>1, <2>1, <4>1, <4>3, FinishDoes DEF RecordRight
      <4>6. PICK f : f = Clean(e)
        OBVIOUS
      <4>7. /\ Same(e, f, {"next", "proc", "stop", "more"}) /\ f.stop = FALSE /\ f.proc = 0
        BY <4>5, <4>6 DEF Clean, Same, DrvFields
      <4>8. /\ DOMAIN f = DrvFields /\ f.err = FALSE /\ f.pidx = e.pidx /\ f.pidxPend = e.pidxPend
            /\ f.pidxInfo = e.pidxInfo /\ f.wrbCidx = e.wrbCidx /\ f.cmptCidx = e.cmptCidx
            /\ f.list = e.list /\ f.color = e.color /\ f.avail = e.avail /\ f.valid = e.valid
            /\ f.overrun = e.overrun /\ f.len = e.len /\ f.offset = e.offset
        BY <4>5, <4>7 DEF Same, DrvFields
      <4>9. DrvRight(f, f.pidx, f.pidxPend)
        <5>1. PlacesRight(f) /\ ColoursRight(f) /\ Packets(f, e.pidx)
          BY <4>5, <4>8, CmptKept DEF DrvRight
        <5>. QED BY <4>5, <4>8, <5>1 DEF DrvRight, BuffersRight, HandlersWhole
      <4>10. RecordRight(f)
        BY <4>5, <4>7, <4>8 DEF RecordRight
      <4>11. q' = f
        BY <4>4, <4>6 DEF Processed
      <4>12. CASE handler
        <5>1. h' = h
          BY <4>4, <4>12 DEF Processed
        <5>2. DrvRight(f, f.pidx, f.pidxPend)'
          BY <4>9, <5>1, DrvTells
        <5>3. ToldRight(f)' /\ WakeupRight'
          BY <4>5, <4>8, <4>12 DEF ToldRight, WakeupRight
        <5>. QED BY <1>1, <4>8, <4>10, <4>11, <5>1, <5>2, <5>3, Assembled
      <4>13. CASE ~handler
        <5>1. h' = IF e.pidxPend = q.pidxPend THEN WriteCidx(h, e.wrbCidx)
                   ELSE WritePidx(WriteCidx(h, e.wrbCidx), e.pidxInfo)
          BY <4>4, <4>13 DEF Processed
        <5>2. /\ DOMAIN h' = HwFields /\ h'.cidx = h.cidx /\ h'.cmptPidx = h.cmptPidx
              /\ h'.color = h.color /\ h'.status = h.status /\ h'.units = h.units
              /\ h'.pidx = IF e.pidxPend = q.pidxPend THEN h.pidx ELSE e.pidxInfo
              /\ h'.cmptCidx = e.wrbCidx /\ h'.armed = TRUE
          BY <1>1, <5>1 DEF WriteCidx, WritePidx, HwFields
        <5>3. h'.pidx = f.pidxInfo
          BY <2>1, <4>5, <4>8, <4>13, <5>2 DEF ToldRight, RecordRight
        <5>4. DrvRight(f, f.pidx, f.pidxPend)'
          <6>1. h'.pidx = RingDecr(f.pidxPend, 1, R) /\ h'.cmptCidx = f.cmptCidx
            BY <4>5, <4>8, <5>2, <5>3
          <6>. QED BY <4>9, <5>2, <6>1, DrvTells
        <5>5. ToldRight(f)'
          BY <4>13, <5>3 DEF ToldRight
        <5>6. WakeupRight'
          BY <4>5, <4>8, <4>11, <4>13, <5>2 DEF WakeupRight
        <5>. QED BY <1>1, <4>8, <4>10, <4>11, <5>2, <5>4, <5>5, <5>6, Assembled
      <4>. QED BY <4>12, <4>13
    <3>. QED BY <3>4, <3>5
  <2>. QED BY <2>4, <2>5
<1>. QED BY <1>1, <1>2, <1>3

LEMMA EntriesFrom ==
  ASSUME NEW c \in EntryAt
  PROVE  \A m \in 0 .. RC - 1 : RingIncr(c, m, RC) \in EntryAt /\ RingDelta(RingIncr(c, m, RC), c, RC) = m
BY C2hAssumption, RingSteps DEF EntryAt

\* Steps on the ring that do not go all around.
LEMMA RingTwice ==
  ASSUME NEW i \in Slot, NEW j \in Nat, NEW k \in Nat, j + k < R
  PROVE  RingIncr(RingIncr(i, j, R), k, R) = RingIncr(i, j + k, R)
BY C2hAssumption DEF Slot, RingIncr

\* A packet of n buffers is written behind what is there, up to the slots from p on.
LEMMA MarksStay ==
  ASSUME NEW p \in Slot, NEW y \in Slot, h.cidx = y, NEW n \in 1 .. R - 1,
         RingDelta(y, p, R) + n < R, h.units \in Nat,
         mem' = [s \in Slot |-> IF s \in SlotsFrom(y, n)
                                THEN h.units + BufSz * RingDelta(s, y, R) ELSE mem[s]],
         h'.cidx = RingIncr(y, n, R)
  PROVE  \A i \in 0 .. RingDelta(y, p, R) : Mark(RingIncr(p, i, R))' = Mark(RingIncr(p, i, R))
<1>. USE C2hAssumption DEF Slot
<1>1. PICK m \in 0 .. R - 1 : m = RingDelta(y, p, R)
  BY RingPlaces
<1>2. RingIncr(y, n, R) \in Slot /\ RingDelta(RingIncr(y, n, R), y, R) = n
  BY RingSteps
<1>. TAKE i \in 0 .. RingDelta(y, p, R)
<1>3. PICK s \in Slot : s = RingIncr(p, i, R)
  <2>1. i \in 0 .. R - 1
    BY <1>1
  <2>2. RingIncr(p, i, R) \in Slot
    BY <2>1, RingSteps
  <2>. QED BY <2>2
<1>4. CASE i = m
  <2>1. s = y /\ RingDelta(y, y, R) = 0
    BY <1>1, <1>3, <1>4, RingPlaces
  <2>2. y \in SlotsFrom(y, n) /\ y # RingIncr(y, n, R)
    BY <1>2, <2>1, SlotsFromIs
  <2>3. mem'[y] = h.units + BufSz * 0
    BY <2>1, <2>2
  <2>4. mem'[y] = h.units
    BY <2>3
  <2>. QED BY <1>3, <2>1, <2>2, <2>4 DEF Mark
<1>5. CASE i # m
  <2>1. i \in 0 .. m - 1
    BY <1>1, <1>5
  <2>2. RingDelta(s, y, R) = R - (m - i)
    BY <1>1, <1>3, <2>1 DEF RingDelta, RingIncr
  <2>3. ~(RingDelta(s, y, R) < n) /\ RingDelta(s, y, R) # n /\ RingDelta(s, y, R) # 0
    <3>1. m - i \in 1 .. R - 1 /\ m - i <= m /\ m + n < R
      BY <1>1, <2>1
    <3>2. R - (m - i) > n /\ R - (m - i) > 0
      BY <3>1
    <3>. QED BY <2>2, <3>2
  <2>4. s \notin SlotsFrom(y, n) /\ s # RingIncr(y, n, R) /\ s # y
    <3>1. n \in 0 .. R
      OBVIOUS
    <3>2. RingDelta(y, y, R) = 0
      BY RingPlaces
    <3>3. s \notin SlotsFrom(y, n)
      BY <2>3, <3>1, SlotsFromIs
    <3>. QED BY <1>2, <2>3, <3>2, <3>3
  <2>5. mem'[s] = mem[s]
    BY <2>4
  <2>. QED BY <1>3, <2>4, <2>5 DEF Mark
<1>. QED BY <1>4, <1>5

LEMMA LiesStay ==
  ASSUME NEW p \in Slot, NEW m \in 0 .. R - 1,
         \A i \in 0 .. m : Mark(RingIncr(p, i, R))' = Mark(RingIncr(p, i, R)),
         NEW i \in 0 .. m, NEW len, FlNr(len) \in Nat, i + FlNr(len) <= m,
         Lies(RingIncr(p, i, R), len)
  PROVE  Lies(RingIncr(p, i, R), len)'
<1>1. PICK n \in Nat : n = FlNr(len)
  OBVIOUS
<1>2. \A j \in 0 .. n : RingIncr(RingIncr(p, i, R), j, R) = RingIncr(p, i + j, R)
  <2>. TAKE j \in 0 .. n
  <2>1. i \in Nat /\ j \in Nat /\ i + j < R
    BY <1>1, C2hAssumption
  <2>. QED BY <2>1, RingTwice
<1>3. \A j \in 0 .. n : Mark(RingIncr(RingIncr(p, i, R), j, R))' = Mark(RingIncr(RingIncr(p, i, R), j, R))
  <2>. TAKE j \in 0 .. n
  <2>1. i + j \in 0 .. m
    BY <1>1
  <2>2. RingIncr(RingIncr(p, i, R), j, R) = RingIncr(p, i + j, R)
    BY <1>2
  <2>3. Mark(RingIncr(p, i + j, R))' = Mark(RingIncr(p, i + j, R))
    BY <2>1
  <2>. QED BY <2>2, <2>3
<1>4. Mark(RingIncr(p, i, R))' = Mark(RingIncr(p, i, R))
  OBVIOUS
<1>5. /\ \A j \in 0 .. n - 1 : Mark(RingIncr(RingIncr(p, i, R), j, R)) = Mark(RingIncr(p, i, R)) + BufSz * j
      /\ Mark(RingIncr(RingIncr(p, i, R), n, R)) = Mark(RingIncr(p, i, R)) + len
  BY <1>1 DEF Lies
<1>. HIDE DEF Mark
<1>6. /\ \A j \in 0 .. n - 1 : Mark(RingIncr(RingIncr(p, i, R), j, R))' = Mark(RingIncr(p, i, R))' + BufSz * j
      /\ Mark(RingIncr(RingIncr(p, i, R), n, R))' = Mark(RingIncr(p, i, R))' + len
  BY <1>3, <1>4, <1>5
<1>. QED BY <1>1, <1>6 DEF Lies

LEMMA LiesNew ==
  ASSUME NEW y \in Slot, h.cidx = y, NEW len, NEW n \in 1 .. R - 1, n = FlNr(len), h.units \in Nat,
         mem' = [s \in Slot |-> IF s \in SlotsFrom(y, n)
                                THEN h.units + BufSz * RingDelta(s, y, R) ELSE mem[s]],
         h'.cidx = RingIncr(y, n, R), h'.units = h.units + len
  PROVE  Lies(y, len)'
<1>. USE C2hAssumption DEF Slot
<1>1. ASSUME NEW j \in 0 .. n - 1
      PROVE  Mark(RingIncr(y, j, R))' = h.units + BufSz * j
  <2>1. RingIncr(y, j, R) \in Slot /\ RingDelta(RingIncr(y, j, R), y, R) = j
    <3>1. j \in 0 .. R - 1
      OBVIOUS
    <3>. QED BY <3>1, RingSteps
  <2>2. RingDelta(RingIncr(y, n, R), y, R) = n
    BY RingSteps
  <2>3. RingIncr(y, j, R) \in SlotsFrom(y, n) /\ RingIncr(y, j, R) # RingIncr(y, n, R)
    BY <2>1, <2>2, SlotsFromIs
  <2>. QED BY <2>1, <2>3 DEF Mark
<1>2. Mark(y)' = h.units
  <2>1. RingIncr(y, 0, R) = y
    BY RingSteps
  <2>2. Mark(RingIncr(y, 0, R))' = h.units + BufSz * 0
    BY <1>1
  <2>. QED BY <2>1, <2>2
<1>3. Mark(RingIncr(y, n, R))' = h.units + len
  BY DEF Mark
<1>. HIDE DEF Mark
<1>. QED BY <1>1, <1>2, <1>3 DEF Lies

\* A packet takes buffers that the driver has counted, and the next entry.
LEMMA PacketArrives ==
  ASSUME CountsRight, NEW d, NEW p, NEW b, DrvRight(d, p, b), handler' = handler,
         DOMAIN cmpt = EntryAt, NEW len \in PktLens, NEW err,
         RingIncr(h.cmptPidx, 1, RC) # h.cmptCidx,
         HwBufs(len) <= RingDelta(h.pidx, h.cidx, R),
         cmpt' = [cmpt EXCEPT ![h.cmptPidx] = [color |-> h.color, len |-> len, err |-> err]],
         mem' = [s \in Slot |-> IF s \in SlotsFrom(h.cidx, HwBufs(len))
                                THEN h.units + BufSz * RingDelta(s, h.cidx, R)
                                ELSE mem[s]],
         h.units \in Nat, h'.units = h.units + len,
         h'.pidx = h.pidx, h'.cidx = RingIncr(h.cidx, HwBufs(len), R),
         h'.cmptPidx = RingIncr(h.cmptPidx, 1, RC), h'.cmptCidx = h.cmptCidx,
         h'.status = h.status,
         h'.color = IF h.cmptPidx = RC - 1 THEN 1 - h.color ELSE h.color
  PROVE  DrvRight(d, p, b)'
<1>. USE C2hAssumption DEF Slot, EntryAt, Colour
<1>1. /\ BuffersRight(d, p, b) /\ (handler => HandlersWhole(d, p, b))
      /\ PlacesRight(d) /\ ColoursRight(d) /\ Packets(d, p)
  BY DEF DrvRight
<1>2. PICK n \in Nat : n = FlNr(len) /\ n = HwBufs(len) /\ n >= 1
  BY FlNrPositive DEF CountsRight
<1>3. PICK x \in Slot, y \in Slot : h.pidx = x /\ h.cidx = y
  BY <1>1 DEF BuffersRight
<1>4. /\ p \in Slot /\ b \in Slot /\ d.avail = R - 1 - RingDelta(p, b, R)
      /\ RingDelta(y, p, R) <= RingDelta(x, p, R) /\ RingDelta(x, p, R) <= d.avail
  BY <1>1, <1>3 DEF BuffersRight
<1>5. /\ RingDelta(x, p, R) \in 0 .. R - 1 /\ RingDelta(y, p, R) \in 0 .. R - 1
      /\ RingDelta(x, y, R) \in 0 .. R - 1 /\ n <= RingDelta(x, y, R) /\ n \in 0 .. R - 1
  <2>1. /\ RingDelta(x, p, R) \in 0 .. R - 1 /\ RingDelta(y, p, R) \in 0 .. R - 1
        /\ RingDelta(x, y, R) \in 0 .. R - 1
    BY <1>4, RingPlaces
  <2>2. n <= RingDelta(x, y, R)
    BY <1>2, <1>3
  <2>. QED BY <2>1, <2>2
<1>6. /\ RingIncr(y, n, R) \in Slot
      /\ RingDelta(RingIncr(y, n, R), p, R) = RingDelta(y, p, R) + n
      /\ RingDelta(y, p, R) + n <= RingDelta(x, p, R)
  <2>1. RingDelta(x, p, R) = RingDelta(y, p, R) + RingDelta(x, y, R)
    <3>1. x \in 0 .. R - 1 /\ y \in 0 .. R - 1 /\ p \in 0 .. R - 1
      BY <1>4
    <3>2. RingDelta(y, p, R) <= RingDelta(x, p, R)
      BY <1>4
    <3>. HIDE DEF EntryAt, Slot, Colour
    <3>. QED BY <3>1, <3>2, RingPlaces, RingSums
  <2>2. RingDelta(y, p, R) + n <= RingDelta(x, p, R) /\ RingDelta(y, p, R) + n < R
    BY <1>5, <2>1, SMTT(30)
  <2>. QED BY <1>4, <1>5, <2>2, RingSteps, RingMoves
<1>7. h'.pidx = x /\ h'.cidx = RingIncr(y, n, R)
  BY <1>2, <1>3
<1>8. BuffersRight(d, p, b)'
  <2>1. RingDelta(RingIncr(y, n, R), p, R) <= RingDelta(x, p, R)
    BY <1>6
  <2>. QED BY <1>1, <1>4, <1>6, <1>7, <2>1 DEF BuffersRight
<1>9. (handler => HandlersWhole(d, p, b))'
  BY <1>1 DEF HandlersWhole
<1>10. PICK c \in EntryAt, w \in EntryAt, v \in EntryAt, s \in EntryAt :
         d.cmptCidx = c /\ h.cmptPidx = w /\ h.cmptCidx = v /\ h.status = s
  BY <1>1 DEF PlacesRight
<1>11. PICK L \in 0 .. RC - 1 : L = RingDelta(w, c, RC)
  BY RingPlaces
<1>12. /\ RingDelta(c, v, RC) + L = RingDelta(w, v, RC) /\ RingDelta(s, c, RC) <= L
       /\ RingIncr(w, 1, RC) # v
  BY <1>1, <1>10, <1>11 DEF PlacesRight, Left, Shown
<1>13. PICK w1 \in EntryAt : w1 = RingIncr(w, 1, RC)
  <2>1. 1 \in 0 .. RC - 1
    OBVIOUS
  <2>2. RingIncr(w, 1, RC) \in 0 .. RC - 1
    BY <2>1, RingSteps
  <2>. QED BY <2>2
<1>14. /\ RingDelta(w1, v, RC) = RingDelta(w, v, RC) + 1
       /\ L + 1 \in 1 .. RC - 1 /\ RingDelta(w1, c, RC) = L + 1
  BY <1>11, <1>12, <1>13 DEF RingDelta, RingIncr
<1>15. /\ h'.cmptPidx = w1 /\ h'.cmptCidx = v /\ h'.status = s
       /\ Left(d) = L /\ Left(d)' = L + 1 /\ Shown(d)' = RingDelta(s, c, RC)
  BY <1>10, <1>11, <1>13, <1>14 DEF Left, Shown
<1>16. PlacesRight(d)'
  <2>1. RingDelta(c, v, RC) \in 0 .. RC - 1 /\ RingDelta(w, v, RC) \in 0 .. RC - 1
        /\ RingDelta(s, c, RC) \in 0 .. RC - 1
    BY RingPlaces
  <2>2. RingDelta(c, v, RC) + (L + 1) = RingDelta(w1, v, RC) /\ RingDelta(s, c, RC) <= L + 1
    <3>1. PICK j \in Int, m \in Int, o \in Int :
            j = RingDelta(c, v, RC) /\ m = RingDelta(w, v, RC) /\ o = RingDelta(s, c, RC)
      BY <2>1
    <3>2. j + L = m /\ o <= L /\ RingDelta(w1, v, RC) = m + 1
      BY <1>12, <1>14, <3>1
    <3>3. j + (L + 1) = m + 1 /\ o <= L + 1
      BY <3>2, SMTT(30)
    <3>. QED BY <3>1, <3>2, <3>3
  <2>. QED BY <1>10, <1>15, <2>2 DEF PlacesRight
<1>17. PICK z \in Colour : d.color = z
  BY <1>1 DEF ColoursRight
<1>18. /\ h.color = IF w >= c THEN z ELSE 1 - z
       /\ \A i \in EntryAt : RingDelta(i, c, RC) < L =>
             cmpt[i].color = (IF i >= c THEN z ELSE 1 - z) /\ cmpt[i].len \in PktLens
  BY <1>1, <1>10, <1>15, <1>17 DEF ColoursRight
<1>19. /\ cmpt'[w].color = (IF w >= c THEN z ELSE 1 - z) /\ cmpt'[w].len = len
       /\ \A i \in EntryAt : i # w => cmpt'[i] = cmpt[i]
  BY <1>10, <1>18
<1>20. \A i \in EntryAt : RingDelta(i, c, RC) < L + 1 /\ i # w => RingDelta(i, c, RC) < L
  BY <1>11 DEF RingDelta
<1>21. ColoursRight(d)'
  <2>1. h'.color = IF w1 >= c THEN z ELSE 1 - z
    BY <1>10, <1>11, <1>13, <1>14, <1>18 DEF RingDelta, RingIncr
  <2>2. \A i \in EntryAt : RingDelta(i, c, RC) < L + 1 =>
           cmpt'[i].color = (IF i >= c THEN z ELSE 1 - z) /\ cmpt'[i].len \in PktLens
    BY <1>18, <1>19, <1>20
  <2>. QED BY <1>10, <1>15, <1>17, <2>1, <2>2 DEF ColoursRight
<1>22. \A m \in 0 .. RC - 1 : RingIncr(c, m, RC) \in EntryAt /\ RingDelta(RingIncr(c, m, RC), c, RC) = m
  BY EntriesFrom
<1>23. Packets(d, p)'
  <2>1. PICK f : f \in [0 .. RC -> Int] /\ Chained(d, p, f)
    BY <1>1 DEF Packets
  <2>2. /\ f[0] = 0 /\ f[L] = RingDelta(y, p, R)
        /\ \A j, k \in 0 .. L : j <= k => f[j] <= f[k]
        /\ \A k \in 0 .. L - 1 : f[k + 1] = f[k] + FlNr(cmpt[RingIncr(c, k, RC)].len)
        /\ \A k \in 0 .. L - 1 : Lies(RingIncr(p, f[k], R), cmpt[RingIncr(c, k, RC)].len)
    BY <1>3, <1>10, <1>15, <2>1 DEF Chained
  <2>. DEFINE g == [k \in 0 .. RC |-> IF k = L + 1 THEN RingDelta(y, p, R) + n ELSE f[k]]
  <2>3. /\ g \in [0 .. RC -> Int] /\ g[L + 1] = RingDelta(y, p, R) + n
        /\ \A k \in 0 .. L : g[k] = f[k] /\ f[k] \in Int
    <3>1. \A k \in 0 .. RC : (IF k = L + 1 THEN RingDelta(y, p, R) + n ELSE f[k]) \in Int
      <4>1. RingDelta(y, p, R) + n \in Int
        BY <1>5
      <4>. QED BY <2>1, <4>1
    <3>2. g \in [0 .. RC -> Int]
      BY <3>1
    <3>3. g[L + 1] = RingDelta(y, p, R) + n
      BY <1>14
    <3>4. \A k \in 0 .. L : k \in 0 .. RC /\ k # L + 1
      BY <1>14
    <3>5. \A k \in 0 .. L : g[k] = f[k] /\ f[k] \in Int
      BY <2>1, <3>4
    <3>. QED BY <3>2, <3>3, <3>5
  <2>. HIDE DEF g
  <2>4. g[0] = 0
    <3>1. 0 \in 0 .. L /\ f[0] = 0
      BY <1>14, <2>2
    <3>. QED BY <2>3, <3>1
  <2>5. g[L + 1] = RingDelta(h'.cidx, p, R)
    BY <1>6, <1>7, <2>3
  <2>6. \A j, k \in 0 .. L + 1 : j <= k => g[j] <= g[k]
    <3>. TAKE j, k \in 0 .. L + 1
    <3>. SUFFICES ASSUME j <= k PROVE g[j] <= g[k]
      OBVIOUS
    <3>1. CASE k = L + 1 /\ j = L + 1
      BY <1>2, <1>5, <2>3, <3>1
    <3>2. CASE k = L + 1 /\ j # L + 1
      <4>1. j \in 0 .. L /\ L \in 0 .. L /\ j <= L
        BY <3>2
      <4>2. PICK m \in Int : m = f[j] /\ m <= RingDelta(y, p, R) /\ g[j] = m
        BY <2>2, <2>3, <4>1
      <4>3. m <= RingDelta(y, p, R) + n
        <5>1. PICK o \in Int : o = RingDelta(y, p, R)
          BY <1>5
        <5>2. m <= o
          BY <4>2, <5>1
        <5>. QED BY <5>1, <5>2
      <4>. QED BY <2>3, <3>2, <4>2, <4>3
    <3>3. CASE k # L + 1
      <4>1. j \in 0 .. L /\ k \in 0 .. L
        BY <3>3, SMTT(30)
      <4>. QED BY <2>2, <2>3, <4>1
    <3>. QED BY <3>1, <3>2, <3>3
  <2>7. \A k \in 0 .. (L + 1) - 1 : g[k + 1] = g[k] + FlNr(cmpt'[RingIncr(c, k, RC)].len)
    <3>. TAKE k \in 0 .. (L + 1) - 1
    <3>1. k \in 0 .. L /\ k \in 0 .. RC - 1
      BY <1>14
    <3>2. RingIncr(c, k, RC) \in EntryAt /\ RingDelta(RingIncr(c, k, RC), c, RC) = k
      BY <1>22, <3>1
    <3>3. CASE k = L
      <4>1. RingIncr(c, k, RC) = w
        <5>1. w \in 0 .. RC - 1 /\ c \in 0 .. RC - 1 /\ k = RingDelta(w, c, RC)
          BY <1>11, <3>3
        <5>. HIDE DEF EntryAt, Slot, Colour
        <5>. QED BY <5>1, RingBack
      <4>2. cmpt'[RingIncr(c, k, RC)].len = len
        BY <1>19, <4>1
      <4>. QED BY <1>2, <2>2, <2>3, <3>1, <3>3, <4>2
    <3>4. CASE k # L
      <4>1. k \in 0 .. L - 1 /\ k + 1 \in 0 .. L
        BY <3>1, <3>4
      <4>2. RingIncr(c, k, RC) # w
        BY <1>11, <3>2, <3>4
      <4>3. cmpt'[RingIncr(c, k, RC)] = cmpt[RingIncr(c, k, RC)]
        BY <1>19, <3>2, <4>2
      <4>4. f[k + 1] = f[k] + FlNr(cmpt[RingIncr(c, k, RC)].len)
        BY <2>2, <4>1
      <4>. QED BY <2>3, <3>1, <4>1, <4>3, <4>4
    <3>. QED BY <3>3, <3>4
  <2>8. \A k \in 0 .. (L + 1) - 1 : Lies(RingIncr(p, g[k], R), cmpt[RingIncr(c, k, RC)].len)'
    <3>. TAKE k \in 0 .. (L + 1) - 1
    <3>1. k \in 0 .. L /\ k \in 0 .. RC - 1
      BY <1>14
    <3>2. RingIncr(c, k, RC) \in EntryAt /\ RingDelta(RingIncr(c, k, RC), c, RC) = k
      BY <1>22, <3>1
    <3>3. CASE k = L
      <4>1. RingIncr(c, k, RC) = w /\ RingIncr(p, g[k], R) = y
        <5>1. w \in 0 .. RC - 1 /\ c \in 0 .. RC - 1 /\ k = RingDelta(w, c, RC)
              /\ y \in 0 .. R - 1 /\ p \in 0 .. R - 1 /\ g[k] = RingDelta(y, p, R)
          BY <1>4, <1>11, <2>2, <2>3, <3>1, <3>3
        <5>. HIDE DEF EntryAt, Slot, Colour
        <5>. QED BY <5>1, RingBack
      <4>2. cmpt'[RingIncr(c, k, RC)].len = len
        BY <1>19, <4>1
      <4>3. Lies(y, len)'
        <5>1. n \in 1 .. R - 1
          BY <1>2, <1>5
        <5>2. /\ mem' = [t \in Slot |-> IF t \in SlotsFrom(y, n)
                                         THEN h.units + BufSz * RingDelta(t, y, R) ELSE mem[t]]
              /\ h'.cidx = RingIncr(y, n, R) /\ h'.units = h.units + len /\ h.cidx = y
          BY <1>2, <1>3
        <5>. HIDE DEF EntryAt, Slot, Colour
        <5>. QED BY <1>2, <1>3, <5>1, <5>2, LiesNew
      <4>. QED BY <4>1, <4>2, <4>3 DEF Lies
    <3>4. CASE k # L
      <4>1. k \in 0 .. L - 1 /\ k + 1 \in 0 .. L /\ L \in 0 .. L /\ 0 \in 0 .. L
        BY <3>1, <3>4
      <4>2. RingIncr(c, k, RC) # w
        BY <1>11, <3>2, <3>4
      <4>3. PICK l : l = cmpt[RingIncr(c, k, RC)].len
        OBVIOUS
      <4>4. cmpt'[RingIncr(c, k, RC)].len = l
        BY <1>19, <3>2, <4>2, <4>3
      <4>5. l \in PktLens
        BY <1>18, <3>2, <4>1, <4>3
      <4>6. PICK u \in Nat : u = FlNr(l)
        BY <4>5, FlNrPositive
      <4>7. PICK i \in Int : i = f[k] /\ i = g[k] /\ f[k + 1] = i + u
        BY <2>2, <2>3, <3>1, <4>1, <4>3, <4>6
      <4>8. i \in 0 .. RingDelta(y, p, R) /\ i + u <= RingDelta(y, p, R)
        <5>1. f[0] <= f[k] /\ f[k] <= f[L] /\ f[k + 1] <= f[L]
          <6>1. 0 <= k /\ k <= L /\ k + 1 <= L
            BY <4>1
          <6>. QED BY <2>2, <3>1, <4>1, <6>1
        <5>. QED BY <1>5, <2>2, <4>7, <5>1
      <4>9. Lies(RingIncr(p, i, R), l)
        BY <2>2, <4>1, <4>3, <4>7
      <4>10. \A i1 \in 0 .. RingDelta(y, p, R) : Mark(RingIncr(p, i1, R))' = Mark(RingIncr(p, i1, R))
        <5>1. n \in 1 .. R - 1 /\ RingDelta(y, p, R) + n < R
          <6>1. PICK o \in 0 .. R - 1, o1 \in 0 .. R - 1 : o = RingDelta(y, p, R) /\ o1 = RingDelta(x, p, R)
            BY <1>5
          <6>2. n \in 0 .. R - 1 /\ o + n <= o1
            BY <1>5, <1>6, <6>1
          <6>. QED BY <1>2, <6>1, <6>2
        <5>2. /\ mem' = [t \in Slot |-> IF t \in SlotsFrom(y, n)
                                         THEN h.units + BufSz * RingDelta(t, y, R) ELSE mem[t]]
              /\ h'.cidx = RingIncr(y, n, R) /\ h.cidx = y /\ h.units \in Nat
          BY <1>2, <1>3
        <5>. HIDE DEF EntryAt, Slot, Colour
        <5>. QED BY <1>4, <5>1, <5>2, MarksStay
      <4>11. Lies(RingIncr(p, i, R), l)'
        <5>. HIDE DEF EntryAt, Slot, Colour
        <5>. QED BY <1>4, <1>5, <4>6, <4>8, <4>9, <4>10, LiesStay
      <4>. QED BY <4>4, <4>7, <4>11 DEF Lies
    <3>. QED BY <3>3, <3>4
  <2>9. Chained(d, p, g)'
    BY <1>10, <1>15, <2>4, <2>5, <2>6, <2>7, <2>8 DEF Chained
  <2>. QED BY <2>3, <2>9 DEF Packets
<1>. QED BY <1>8, <1>9, <1>16, <1>21, <1>23 DEF DrvRight

\* The parts of the invariant, of a queue that has seen no error.
LEMMA Unfolded ==
  ASSUME C2hInv
  PROVE  /\ DOMAIN q = DrvFields /\ DOMAIN h = HwFields /\ handler \in BOOLEAN
         /\ DOMAIN cmpt = EntryAt /\ q.err \in BOOLEAN /\ h.units \in Nat
         /\ q.err = FALSE => /\ RecordRight(q) /\ ToldRight(q)
                             /\ DrvRight(q, q.pidx, q.pidxPend) /\ WakeupRight
BY DEF C2hInv, C2hRight

LEMMA HwPacketInv ==
  ASSUME CountsRight, C2hInv, HwPacket
  PROVE  C2hInv'
<1>1. PICK len \in PktLens, err \in BOOLEAN :
        /\ RingDelta(h.pidx, h.cidx, R) >= HwBufs(len)
        /\ mem' = [s \in Slot |-> IF s \in SlotsFrom(h.cidx, HwBufs(len))
                                   THEN h.units + BufSz * RingDelta(s, h.cidx, R)
                                   ELSE mem[s]]
        /\ cmpt' = [cmpt EXCEPT ![h.cmptPidx] = [color |-> h.color, len |-> len, err |-> err]]
        /\ h' = [h EXCEPT !.cidx = RingIncr(@, HwBufs(len), R),
                          !.cmptPidx = RingIncr(@, 1, RC),
                          !.color = IF h.cmptPidx = RC - 1 THEN 1 - @ ELSE @,
                          !.units = @ + len,
                          !.pkts = @ + 1]
  BY DEF HwPacket
<1>2. /\ UNCHANGED << handler, q, napi, missed, rxWork >> /\ h.units \in Nat
      /\ RingIncr(h.cmptPidx, 1, RC) # h.cmptCidx
  BY Unfolded DEF HwPacket
<1>3. PICK u : u = q
  OBVIOUS
<1>4. /\ DOMAIN h' = HwFields /\ h'.pidx = h.pidx /\ h'.cidx = RingIncr(h.cidx, HwBufs(len), R)
      /\ h'.cmptPidx = RingIncr(h.cmptPidx, 1, RC) /\ h'.cmptCidx = h.cmptCidx
      /\ h'.status = h.status /\ h'.armed = h.armed
      /\ h'.units = h.units + len /\ h'.units \in Nat
      /\ h'.color = IF h.cmptPidx = RC - 1 THEN 1 - h.color ELSE h.color
  BY <1>1, Unfolded, C2hAssumption DEF HwFields
<1>5. DOMAIN cmpt' = EntryAt
  BY <1>1, Unfolded
<1>6. ASSUME u.err = FALSE
      PROVE  DrvRight(u, u.pidx, u.pidxPend)' /\ RecordRight(u) /\ ToldRight(u)' /\ WakeupRight'
  <2>1. /\ RecordRight(u) /\ ToldRight(q) /\ DrvRight(u, u.pidx, u.pidxPend) /\ WakeupRight
    BY <1>3, <1>6, Unfolded
  <2>2. HwBufs(len) <= RingDelta(h.pidx, h.cidx, R)
    <3>1. PICK x \in Slot, y \in Slot : h.pidx = x /\ h.cidx = y
      BY <2>1 DEF DrvRight, BuffersRight
    <3>2. RingDelta(x, y, R) \in 0 .. R - 1
      BY C2hAssumption, RingPlaces DEF Slot
    <3>3. PICK n \in Nat : n = HwBufs(len)
      BY FlNrPositive DEF CountsRight
    <3>. QED BY <1>1, <3>1, <3>2, <3>3
  <2>3. DrvRight(u, u.pidx, u.pidxPend)'
    BY <1>1, <1>2, <1>4, <2>1, <2>2, Unfolded, PacketArrives
  <2>4. ToldRight(u)'
    BY <1>2, <1>3, <1>4, <2>1 DEF ToldRight
  <2>5. WakeupRight'
    BY <1>2, <1>3, <1>4, <2>1 DEF WakeupRight
  <2>. QED BY <2>1, <2>3, <2>4, <2>5
<1>7. q' = u /\ DOMAIN u = DrvFields /\ u.err \in BOOLEAN /\ handler' \in BOOLEAN
  BY <1>2, <1>3, Unfolded
<1>. QED BY <1>4, <1>5, <1>6, <1>7, Assembled

\* The steps of the hardware and of NAPI that move nothing else.
LEMMA OthersInv ==
  ASSUME C2hInv, HwStatus \/ HwInterrupt \/ NapiUpdate \/ NapiComplete \/ UNCHANGED c2hVars
  PROVE  C2hInv'
<1>1. q' = q /\ handler' = handler /\ cmpt' = cmpt /\ mem' = mem
  BY DEF HwStatus, HwInterrupt, NapiUpdate, NapiComplete, c2hVars
<1>2. PICK u : u = q
  OBVIOUS
<1>3. /\ DOMAIN h' = HwFields /\ h'.cidx = h.cidx /\ h'.cmptPidx = h.cmptPidx
      /\ h'.color = h.color /\ h'.units = h.units
  BY Unfolded
     DEF HwStatus, HwInterrupt, NapiUpdate, NapiComplete, WriteCidx, WritePidx, c2hVars, HwFields
<1>4. q' = u /\ DOMAIN u = DrvFields /\ u.err \in BOOLEAN /\ handler' \in BOOLEAN
      /\ DOMAIN cmpt' = EntryAt
  BY <1>1, <1>2, Unfolded
<1>5. ASSUME u.err = FALSE
      PROVE  DrvRight(u, u.pidx, u.pidxPend)' /\ RecordRight(u) /\ ToldRight(u)' /\ WakeupRight'
  <2>1. /\ RecordRight(u) /\ ToldRight(u) /\ DrvRight(u, u.pidx, u.pidxPend) /\ WakeupRight
    BY <1>2, <1>5, Unfolded
  <2>2. CASE HwStatus
    <3>1. /\ h'.pidx = h.pidx /\ h'.cmptCidx = h.cmptCidx /\ h'.armed = h.armed
          /\ h'.status = h.cmptPidx /\ napi' = napi /\ missed' = missed
      BY <2>2, Unfolded DEF HwStatus, HwFields
    <3>2. /\ BuffersRight(u, u.pidx, u.pidxPend) /\ PlacesRight(u) /\ ColoursRight(u) /\ Packets(u, u.pidx)
          /\ (handler => HandlersWhole(u, u.pidx, u.pidxPend))
      BY <2>1 DEF DrvRight
    <3>3. Left(u)' = Left(u) /\ Shown(u)' = Left(u)
      BY <1>1, <1>3, <3>1 DEF Left, Shown
    <3>4. PlacesRight(u)'
      <4>1. PICK c \in EntryAt, w \in EntryAt : u.cmptCidx = c /\ h.cmptPidx = w
        BY <3>2 DEF PlacesRight
      <4>2. RingDelta(w, c, RC) \in 0 .. RC - 1
        BY C2hAssumption, RingPlaces DEF EntryAt
      <4>3. Left(u) \in Int
        BY <4>1, <4>2 DEF Left
      <4>4. Left(u) <= Left(u)
        BY <4>3
      <4>. QED BY <1>1, <1>3, <3>1, <3>2, <3>3, <4>4 DEF PlacesRight
    <3>5. BuffersRight(u, u.pidx, u.pidxPend)' /\ (handler => HandlersWhole(u, u.pidx, u.pidxPend))'
      BY <1>1, <1>3, <3>1, <3>2 DEF BuffersRight, HandlersWhole
    <3>6. ColoursRight(u)' /\ Packets(u, u.pidx)'
      <4>1. Packets(u, u.pidx)'
        BY <1>1, <1>3, <3>2, <3>3, LiesKept
      <4>. QED BY <1>1, <1>3, <3>2, <3>3, <4>1 DEF ColoursRight
    <3>7. DrvRight(u, u.pidx, u.pidxPend)'
      BY <3>4, <3>5, <3>6 DEF DrvRight
    <3>8. ToldRight(u)' /\ WakeupRight'
      BY <1>1, <2>1, <3>1 DEF ToldRight, WakeupRight
    <3>. QED BY <2>1, <3>7, <3>8
  <2>3. CASE HwInterrupt
    <3>1. /\ h'.pidx = h.pidx /\ h'.cmptCidx = h.cmptCidx /\ h'.status = h.status
          /\ h'.armed = FALSE /\ napi' = (IF napi = "idle" THEN "sched" ELSE napi)
          /\ (missed' <=> (missed \/ (handler /\ napi # "idle")))
      BY <2>3, Unfolded DEF HwInterrupt, HwFields
    <3>2. DrvRight(u, u.pidx, u.pidxPend)'
      BY <1>1, <1>3, <2>1, <3>1, DrvTells
    <3>3. ToldRight(u)'
      BY <1>1, <2>1, <3>1 DEF ToldRight
    <3>4. WakeupRight'
      BY <1>1, <2>1, <3>1 DEF WakeupRight
    <3>. QED BY <2>1, <3>2, <3>3, <3>4
  <2>4. CASE NapiUpdate
    <3>1. handler /\ h' = WritePidx(WriteCidx(h, q.wrbCidx), q.pidxInfo) /\ napi' = "done"
      BY <2>4 DEF NapiUpdate
    <3>2. /\ h'.status = h.status /\ h'.armed = TRUE
          /\ h'.cmptCidx = u.cmptCidx /\ h'.pidx = RingDecr(u.pidxPend, 1, R)
      BY <1>2, <2>1, <3>1, Unfolded DEF WritePidx, WriteCidx, HwFields, RecordRight
    <3>3. DrvRight(u, u.pidx, u.pidxPend)'
      BY <1>1, <1>3, <2>1, <3>2, DrvTells
    <3>4. ToldRight(u)' /\ WakeupRight'
      BY <1>1, <1>2, <2>1, <3>1, <3>2 DEF ToldRight, WakeupRight
    <3>. QED BY <2>1, <3>3, <3>4
  <2>5. CASE NapiComplete
    <3>1. /\ h' = h /\ napi = "done" /\ napi' \in {"sched", "idle"}
          /\ napi' = "idle" => ~missed
      BY <2>5 DEF NapiComplete
    <3>2. DrvRight(u, u.pidx, u.pidxPend)'
      BY <1>1, <2>1, <3>1, DrvTells
    <3>3. ToldRight(u)' /\ WakeupRight'
      BY <1>1, <2>1, <3>1 DEF ToldRight, WakeupRight
    <3>. QED BY <2>1, <3>2, <3>3
  <2>6. CASE UNCHANGED c2hVars
    <3>1. h' = h /\ napi' = napi /\ missed' = missed
      BY <2>6 DEF c2hVars
    <3>2. DrvRight(u, u.pidx, u.pidxPend)'
      BY <1>1, <2>1, <3>1, DrvTells
    <3>3. ToldRight(u)' /\ WakeupRight'
      BY <1>1, <2>1, <3>1 DEF ToldRight, WakeupRight
    <3>. QED BY <2>1, <3>2, <3>3
  <2>. QED BY <2>2, <2>3, <2>4, <2>5, <2>6
<1>6. h'.units \in Nat
  BY <1>3, Unfolded
<1>. QED BY <1>3, <1>4, <1>5, <1>6, Assembled

LEMMA ReadKeeps ==
  ASSUME NEW d, DOMAIN d = DrvFields, NEW left, NEW refill \in BOOLEAN, NEW r, r = Read(d, left, refill)
  PROVE  DOMAIN r = DrvFields /\ r.err = d.err
<1>. DEFINE copied == Min({left, Len(Unread(d))})
            used   == Cardinality({k \in 1 .. Readable(d) :
                                     Upto(d, k - 1) < left /\ Upto(d, k) <= left})
            part   == copied - Upto(d, used)
            next   == RingIncr(d.pidxPend, used, R)
            e      == IF refill /\ used > 0 THEN Refill(d, d.pidxPend, used, TRUE) ELSE d
            f      == [e EXCEPT !.pidxPend = next,
                  !.offset[next] = @ + part,
                  !.len[next] = @ - part,
                  !.dlen = @ - copied,
                  !.got = @ \o SubSeq(Unread(d), 1, copied),
                  !.taken = @ + copied]
<1>1. r = f
  BY DEF Read
<1>. HIDE DEF used, copied, part, next
<1>2. DOMAIN e = DrvFields /\ e.err = d.err
  BY DEF Refill, DrvFields
<1>. HIDE DEF e
<1>3. DOMAIN f = DrvFields /\ f.err = e.err
  BY <1>2 DEF DrvFields
<1>. QED BY <1>1, <1>2, <1>3

LEMMA SubmitReadInv ==
  ASSUME C2hInv, SubmitRead
  PROVE  C2hInv'
<1>. USE C2hAssumption
<1>1. ~handler /\ UNCHANGED << handler, cmpt, mem, napi, missed, rxWork >>
  BY DEF SubmitRead
<1>2. PICK left \in ReqLens :
         LET d    == [q EXCEPT !.got = << >>, !.list = Append(@, left)]
             r    == IF Readable(d) = 0 THEN d ELSE Read(d, left, TRUE)
             rest == left - (d.dlen - r.dlen)
             pidx == RingDecr(r.pidxPend, 1, R)
             e    == IF r.pidxPend = q.pidxPend THEN r ELSE [r EXCEPT !.pidxInfo = pidx]
         IN  /\ q' = IF rest = 0 THEN [e EXCEPT !.list = q.list]
                     ELSE [e EXCEPT !.list = Append(q.list, rest), !.pendEmpty = FALSE]
             /\ h' = IF r.pidxPend = q.pidxPend THEN h ELSE WritePidx(h, pidx)
  BY DEF SubmitRead
<1>. DEFINE dd   == [q EXCEPT !.got = << >>, !.list = Append(@, left)]
            rr   == IF Readable(dd) = 0 THEN dd ELSE Read(dd, left, TRUE)
            rest == left - (dd.dlen - rr.dlen)
            pidx == RingDecr(rr.pidxPend, 1, R)
            ee   == IF rr.pidxPend = q.pidxPend THEN rr ELSE [rr EXCEPT !.pidxInfo = pidx]
            ff   == IF rest = 0 THEN [ee EXCEPT !.list = q.list]
                    ELSE [ee EXCEPT !.list = Append(q.list, rest), !.pendEmpty = FALSE]
<1>3. q' = ff /\ h' = IF rr.pidxPend = q.pidxPend THEN h ELSE WritePidx(h, pidx)
  BY <1>2
<1>4. PICK d : d = dd
  OBVIOUS
<1>5. PICK r : r = IF Readable(d) = 0 THEN d ELSE Read(d, left, TRUE)
  OBVIOUS
<1>6. rr = r
  BY <1>4, <1>5
<1>. HIDE DEF rr
<1>7. PICK e : e = IF r.pidxPend = q.pidxPend THEN r ELSE [r EXCEPT !.pidxInfo = RingDecr(r.pidxPend, 1, R)]
  OBVIOUS
<1>8. PICK f : f = q'
  OBVIOUS
<1>9. ee = e
  BY <1>6, <1>7
<1>. HIDE DEF ee
<1>10. DOMAIN q = DrvFields /\ DOMAIN h = HwFields /\ q.err \in BOOLEAN
  BY Unfolded
<1>11. Same(q, d, {"got", "list"})
  BY <1>4, <1>10 DEF Same, DrvFields
<1>12. DOMAIN r = DrvFields /\ r.err = q.err
  <2>1. DOMAIN d = DrvFields /\ d.err = q.err
    BY <1>11 DEF Same, DrvFields
  <2>2. PICK yes \in BOOLEAN : yes = TRUE
    OBVIOUS
  <2>3. ASSUME r = Read(d, left, yes) PROVE DOMAIN r = DrvFields /\ r.err = d.err
    BY <2>1, <2>3, ReadKeeps
  <2>. QED BY <1>5, <2>1, <2>2, <2>3
<1>13. /\ DOMAIN e = DrvFields /\ Same(r, e, {"pidxInfo"})
       /\ e.pidxInfo = IF r.pidxPend = q.pidxPend THEN r.pidxInfo ELSE RingDecr(r.pidxPend, 1, R)
  BY <1>7, <1>12 DEF Same, DrvFields
<1>14. /\ DOMAIN f = DrvFields /\ Same(e, f, {"list", "pendEmpty"})
       /\ f.list = q.list \/ f.list = Append(q.list, rest)
  <2>1. f = IF rest = 0 THEN [e EXCEPT !.list = q.list]
                    ELSE [e EXCEPT !.list = Append(q.list, rest), !.pendEmpty = FALSE]
    BY <1>3, <1>8, <1>9
  <2>. HIDE DEF rest
  <2>. QED BY <1>13, <2>1 DEF Same, DrvFields
<1>15. f.err = q.err
  BY <1>12, <1>13, <1>14 DEF Same, DrvFields
<1>16. /\ DOMAIN h' = HwFields /\ h'.cidx = h.cidx /\ h'.cmptPidx = h.cmptPidx
       /\ h'.color = h.color /\ h'.status = h.status /\ h'.cmptCidx = h.cmptCidx
       /\ h'.armed = h.armed /\ h'.units = h.units
       /\ h'.pidx = IF r.pidxPend = q.pidxPend THEN h.pidx ELSE RingDecr(r.pidxPend, 1, R)
  BY <1>3, <1>6, <1>10 DEF WritePidx, HwFields
<1>17. q' = f /\ handler' \in BOOLEAN /\ DOMAIN cmpt' = EntryAt /\ f.err \in BOOLEAN
  BY <1>1, <1>3, <1>8, <1>10, <1>15, Unfolded
<1>18. ASSUME f.err = FALSE
       PROVE  DrvRight(f, f.pidx, f.pidxPend)' /\ RecordRight(f) /\ ToldRight(f)' /\ WakeupRight'
  <2>. DEFINE p == q.pidx
              b == q.pidxPend
  <2>1. RecordRight(q) /\ ToldRight(q) /\ DrvRight(q, p, b) /\ WakeupRight
    BY <1>15, <1>18, Unfolded
  <2>2. /\ BuffersRight(q, p, b) /\ PlacesRight(q) /\ ColoursRight(q) /\ Packets(q, p)
    BY <2>1 DEF DrvRight
  <2>3. p \in Slot /\ b \in Slot /\ q.avail = R - 1 - RingDelta(p, b, R) /\ q.overrun = FALSE
    BY <2>2 DEF BuffersRight
  <2>4. RingDelta(p, b, R) \in 0 .. R - 1
    BY <2>3, RingPlaces DEF Slot
  <2>5. /\ DOMAIN d = DrvFields /\ d.pidx = p /\ d.pidxPend = b /\ d.avail = q.avail
        /\ d.valid = q.valid /\ Readable(d) = RingDelta(p, b, R)
    BY <1>11 DEF Same, DrvFields, Readable
  <2>6. PICK used \in 0 .. RingDelta(p, b, R) :
           /\ r.pidxPend = RingIncr(b, used, R)
           /\ Same(d, r, ReadFields \union {"avail", "valid", "pendEmpty"})
           /\ used = 0 => r.avail = q.avail /\ r.valid = q.valid
           /\ used > 0 => /\ r.avail = q.avail + used
                          /\ r.valid = q.valid \ SlotsFrom(b, used)
    <3>1. CASE Readable(d) = 0
      <4>1. r = d
        BY <1>5, <3>1
      <4>2. RingIncr(b, 0, R) = b
        BY <2>3, RingSteps DEF Slot
      <4>3. Same(d, r, ReadFields \union {"avail", "valid", "pendEmpty"})
        BY <2>5, <4>1 DEF Same
      <4>. QED BY <2>4, <2>5, <4>1, <4>2, <4>3
    <3>2. CASE Readable(d) # 0
      <4>1. PICK yes \in BOOLEAN : yes = TRUE
        OBVIOUS
      <4>2. r = Read(d, left, yes) /\ Readable(d) \in Nat
        BY <1>5, <2>4, <2>5, <3>2, <4>1
      <4>3. ReadEffect(d, r, yes)
        <5>1. DOMAIN d = DrvFields
          BY <2>5
        <5>2. yes \in BOOLEAN
          OBVIOUS
        <5>. HIDE DEF p, b
        <5>. QED BY <5>1, <5>2, <4>2, ReadDoes
      <4>. QED BY <2>5, <4>1, <4>3 DEF ReadEffect
    <3>. QED BY <3>1, <3>2
  <2>7. PICK c \in Slot : c = r.pidxPend /\ c = RingIncr(b, used, R)
    <3>1. used \in 0 .. R - 1
      BY <2>4
    <3>2. RingIncr(b, used, R) \in Slot
      BY <2>3, <3>1, RingSteps DEF Slot
    <3>. QED BY <2>6, <3>2
  <2>8. /\ RingDelta(c, b, R) = used /\ RingDelta(p, c, R) = RingDelta(p, b, R) - used
        /\ c = b <=> used = 0
    <3>1. used \in 0 .. R - 1 /\ used <= RingDelta(p, b, R)
      BY <2>4
    <3>2. RingDelta(RingIncr(b, used, R), b, R) = used
      BY <2>3, <3>1, RingSteps DEF Slot
    <3>3. RingDelta(p, RingIncr(b, used, R), R) = RingDelta(p, b, R) - used
      BY <2>3, <3>1, RingMoves DEF Slot
    <3>4. RingIncr(b, 0, R) = b /\ RingDelta(b, b, R) = 0
      BY <2>3, RingSteps, RingPlaces DEF Slot
    <3>. QED BY <2>7, <3>2, <3>3, <3>4
  <2>9. /\ f.pidx = p /\ f.pidxPend = c /\ f.avail = r.avail /\ f.valid = r.valid
        /\ f.overrun = q.overrun /\ f.cmptCidx = q.cmptCidx /\ f.wrbCidx = q.wrbCidx
        /\ f.color = q.color /\ f.stop = q.stop /\ f.proc = q.proc
        /\ f.pidxInfo = IF c = b THEN q.pidxInfo ELSE RingDecr(c, 1, R)
    BY <1>11, <1>13, <1>14, <2>6, <2>7 DEF Same, ReadFields, DrvFields
  <2>10. BuffersRight(f, p, c)
    <3>1. CASE used = 0
      BY <2>2, <2>6, <2>8, <2>9, <3>1 DEF BuffersRight
    <3>2. CASE used # 0
      <4>1. f.avail = q.avail + RingDelta(c, b, R) /\ f.valid = q.valid \ SlotsFrom(b, RingDelta(c, b, R))
        BY <2>6, <2>8, <2>9, <3>2
      <4>2. RingDelta(p, c, R) <= RingDelta(p, b, R)
        BY <2>4, <2>8
      <4>3. f.overrun = FALSE
        BY <2>3, <2>9
      <4>. HIDE DEF p, b
      <4>. QED BY <2>2, <4>1, <4>2, <4>3, BuffersReturned
    <3>. QED BY <3>1, <3>2
  <2>11. PlacesRight(f) /\ ColoursRight(f) /\ Packets(f, p)
    BY <2>2, <2>9, CmptKept
  <2>12. DrvRight(f, f.pidx, f.pidxPend)
    BY <1>1, <2>9, <2>10, <2>11 DEF DrvRight
  <2>13. f.pidxInfo = RingDecr(c, 1, R) /\ h'.pidx = f.pidxInfo
    BY <1>1, <1>16, <2>1, <2>7, <2>9 DEF RecordRight, ToldRight
  <2>14. RecordRight(f)
    <3>1. IsList(f.list)
      BY <1>14, <2>1, ListOps DEF RecordRight
    <3>. QED BY <2>1, <2>9, <2>13, <3>1 DEF RecordRight
  <2>15. DrvRight(f, f.pidx, f.pidxPend)'
    BY <1>1, <1>16, <2>9, <2>12, <2>13, DrvTells
  <2>16. ToldRight(f)' /\ WakeupRight'
    BY <1>1, <1>16, <1>17, <2>1, <2>9, <2>13 DEF ToldRight, WakeupRight
  <2>. QED BY <2>14, <2>15, <2>16
<1>19. h'.units \in Nat
  BY <1>16, Unfolded
<1>. QED BY <1>14, <1>16, <1>17, <1>18, <1>19, Assembled

LEMMA C2hInitInv == C2hInit => C2hInv
<1>. SUFFICES ASSUME C2hInit PROVE C2hInv
  OBVIOUS
<1>. USE C2hAssumption
<1>1. /\ DOMAIN q = DrvFields /\ q.err = FALSE
      /\ q.avail = R - 1 /\ q.pidx = 0 /\ q.pidxPend = 0 /\ q.pidxInfo = R - 1
      /\ q.cmptCidx = 0 /\ q.wrbCidx = 0 /\ q.color = 1
      /\ q.offset = [s \in Slot |-> 0] /\ q.len = [s \in Slot |-> BufSz]
      /\ q.valid = {} /\ q.overrun = FALSE /\ q.list = << >> /\ q.proc = 0 /\ q.stop = FALSE
  BY DEF C2hInit, DrvFields
<1>2. /\ DOMAIN h = HwFields /\ h.pidx = R - 1 /\ h.cidx = 0 /\ h.cmptPidx = 0
      /\ h.cmptCidx = 0 /\ h.color = 1 /\ h.status = 0 /\ h.armed = TRUE /\ h.units = 0
  BY DEF C2hInit, HwFields
<1>3. DOMAIN cmpt = EntryAt /\ handler \in BOOLEAN /\ napi = "idle" /\ h.units \in Nat
  BY <1>2 DEF C2hInit, EntryAt
<1>4. RingDelta(0, 0, R) = 0 /\ RingDelta(R - 1, 0, R) = R - 1 /\ RingDelta(0, 0, RC) = 0
      /\ RingDecr(0, 1, R) = R - 1
  BY DEF RingDelta, RingDecr
<1>5. BuffersRight(q, q.pidx, q.pidxPend)
  BY <1>1, <1>2, <1>4 DEF BuffersRight, Slot
<1>6. HandlersWhole(q, q.pidx, q.pidxPend)
  BY <1>1 DEF HandlersWhole
<1>7. Left(q) = 0 /\ Shown(q) = 0
  BY <1>1, <1>2, <1>4 DEF Left, Shown
<1>8. PlacesRight(q)
  BY <1>1, <1>2, <1>4, <1>7 DEF PlacesRight, EntryAt
<1>9. ColoursRight(q)
  <2>1. \A i \in EntryAt : ~(RingDelta(i, 0, RC) < 0)
    BY DEF RingDelta, EntryAt
  <2>. QED BY <1>1, <1>2, <1>7, <2>1 DEF ColoursRight, EntryAt, Colour
<1>10. Packets(q, q.pidx)
  <2>. DEFINE f == [k \in 0 .. RC |-> 0]
  <2>1. f \in [0 .. RC -> Int] /\ f[0] = 0
    OBVIOUS
  <2>2. \A j, k \in 0 .. 0 : j <= k => f[j] <= f[k]
    BY <2>1
  <2>. HIDE DEF f
  <2>3. Chained(q, q.pidx, f)
    BY <1>1, <1>2, <1>4, <1>7, <2>1, <2>2 DEF Chained
  <2>. QED BY <2>1, <2>3 DEF Packets
<1>11. RecordRight(q) /\ ToldRight(q)
  <2>1. << >> \in Seq({})
    OBVIOUS
  <2>2. IsList(q.list)
    BY <1>1, <2>1 DEF IsList
  <2>. QED BY <1>1, <1>2, <1>4, <2>2 DEF RecordRight, ToldRight
<1>12. WakeupRight
  BY <1>1, <1>2, <1>3 DEF WakeupRight
<1>. QED BY <1>1, <1>2, <1>3, <1>5, <1>6, <1>8, <1>9, <1>10, <1>11, <1>12
        DEF C2hInv, C2hRight, DrvRight

LEMMA C2hNextInv == ASSUME CountsRight PROVE C2hInv /\ [C2hNext]_c2hVars => C2hInv'
<1>. SUFFICES ASSUME C2hInv, [C2hNext]_c2hVars PROVE C2hInv'
  OBVIOUS
<1>0. handler \in BOOLEAN
  BY Unfolded
<1>1. CASE HwPacket
  BY <1>1, HwPacketInv
<1>2. CASE HwStatus \/ HwInterrupt \/ NapiUpdate \/ NapiComplete \/ UNCHANGED c2hVars
  BY <1>2, OthersInv
<1>3. CASE IntrWork
  <2>1. /\ Service(0) /\ napi = "sched" /\ napi' = IF handler THEN "update" ELSE "idle"
        /\ handler' = handler /\ cmpt' = cmpt /\ mem' = mem
    BY <1>3 DEF IntrWork
  <2>. QED BY <2>1, ServiceInv
<1>4. CASE NapiPoll
  <2>1. /\ Service(Budget) /\ napi = "sched" /\ napi' = IF handler THEN "update" ELSE "idle"
        /\ handler' = handler /\ cmpt' = cmpt /\ mem' = mem /\ Budget \in Nat
    BY <1>4, C2hAssumption DEF NapiPoll
  <2>. QED BY <2>1, ServiceInv
<1>5. CASE SubmitRead
  BY <1>5, SubmitReadInv
<1>6. CASE C2hQuiet
  BY <1>6, <1>2 DEF C2hQuiet
<1>. QED BY <1>1, <1>2, <1>3, <1>4, <1>5, <1>6 DEF C2hNext

\* The inductive invariant of a streaming receive queue: the driver's counts of
\* buffers, its places in both rings and the colour of its turn agree with the
\* hardware's, and the interrupt is armed or somebody will arm it.
THEOREM C2hInvHolds == ASSUME CountsRight PROVE C2hSpec => []C2hInv
<1>1. C2hInit => C2hInv
  BY C2hInitInv
<1>2. C2hInv /\ [C2hNext]_c2hVars => C2hInv'
  BY C2hNextInv
<1>. QED BY <1>1, <1>2, PTL DEF C2hSpec

\* No completion stays unread for want of a wakeup, whether it comes before the
\* pointers are written, between that and napi_complete_done, or later.
THEOREM WakeupKept == ASSUME CountsRight PROVE C2hSpec => []WakeupNotLost
<1>1. C2hInv => WakeupNotLost
  <2>. SUFFICES ASSUME C2hInv, ~q.err, h.status # q.cmptCidx, napi = "idle"
                PROVE  h.armed /\ h.status # h.cmptCidx
    BY DEF WakeupNotLost
  <2>1. q.err = FALSE
    BY Unfolded
  <2>2. WakeupRight
    BY <2>1, Unfolded
  <2>. QED BY <2>2 DEF WakeupRight
<1>. QED BY <1>1, C2hInvHolds, PTL

\* What the invariant says of the slots from the driver's place on.
LEMMA CountedIs == C2hInv => BuffersCounted
<1>. SUFFICES ASSUME C2hInv, ~q.err
              PROVE  /\ Ahead <= q.avail /\ ~q.overrun
                     /\ \A s \in SlotsFrom(q.pidx, Ahead) : s \notin q.valid
  BY DEF BuffersCounted
<1>. USE C2hAssumption DEF Slot
<1>1. q.err = FALSE
  BY Unfolded
<1>2. BuffersRight(q, q.pidx, q.pidxPend)
  BY <1>1, Unfolded DEF DrvRight
<1>3. PICK x \in Slot, p \in Slot, b \in Slot : h.pidx = x /\ q.pidx = p /\ q.pidxPend = b
  BY <1>2 DEF BuffersRight
<1>4. PICK n \in 0 .. R - 1, m \in 0 .. R - 1 : n = RingDelta(x, p, R) /\ m = RingDelta(p, b, R)
  BY RingPlaces
<1>5. /\ Ahead = n /\ q.avail = R - 1 - m /\ n <= q.avail /\ q.overrun = FALSE
      /\ \A s \in q.valid : s \in Slot /\ RingDelta(s, b, R) < m
  BY <1>2, <1>3, <1>4 DEF BuffersRight, Ahead
<1>6. ASSUME NEW s \in SlotsFrom(p, n), s \in q.valid PROVE FALSE
  <2>1. s \in Slot /\ RingDelta(s, p, R) < n
    BY <1>6, SlotsFromIs
  <2>2. RingDelta(s, p, R) \in 0 .. R - 1
    BY <2>1, RingPlaces
  <2>3. RingDelta(p, b, R) + RingDelta(s, p, R) < R
    BY <1>4, <1>5, <2>1, <2>2
  <2>4. RingDelta(s, b, R) = RingDelta(p, b, R) + RingDelta(s, p, R)
    BY <2>1, <2>3, RingSums
  <2>. QED BY <1>4, <1>5, <1>6, <2>2, <2>4
<1>. QED BY <1>3, <1>5, <1>6

\* Every buffer that the hardware may fill or has filled unseen is one that the
\* driver counts as available (rcv_pkt never finds too few) and that nobody is
\* reading.
THEOREM BuffersAreCounted == ASSUME CountsRight PROVE C2hSpec => []BuffersCounted
BY CountedIs, C2hInvHolds, PTL

\* With a handler, as the network driver has one, the buffers handed back by
\* refill are empty and whole too.
THEOREM BuffersAreCovered ==
  ASSUME CountsRight, Handlers = {TRUE}
  PROVE  C2hSpec => []BuffersCovered
<1>1. C2hInit => handler
  BY DEF C2hInit
<1>2. handler /\ [C2hNext]_c2hVars => handler'
  BY DEF C2hNext, HwPacket, HwStatus, HwInterrupt, IntrWork, NapiPoll, NapiUpdate,
         NapiComplete, SubmitRead, C2hQuiet, c2hVars
<1>3. C2hInv /\ handler => BuffersCovered
  <2>. SUFFICES ASSUME C2hInv, handler PROVE BuffersCovered
    OBVIOUS
  <2>. USE C2hAssumption DEF Slot
  <2>1. BuffersCounted
    BY CountedIs
  <2>2. ASSUME q.err = FALSE
        PROVE  \A s \in SlotsFrom(q.pidx, Ahead) : q.len[s] = BufSz /\ q.offset[s] = 0
    <3>1. /\ BuffersRight(q, q.pidx, q.pidxPend) /\ HandlersWhole(q, q.pidx, q.pidxPend)
          /\ q.pidxPend = q.pidx
      BY <2>2, Unfolded DEF DrvRight, ToldRight
    <3>2. PICK x \in Slot, p \in Slot : h.pidx = x /\ q.pidx = p
      BY <3>1 DEF BuffersRight
    <3>3. PICK n \in 0 .. R - 1 : n = RingDelta(x, p, R)
      BY RingPlaces
    <3>4. Ahead = n
      BY <3>2, <3>3 DEF Ahead
    <3>5. RingDelta(p, p, R) = 0
      BY RingPlaces
    <3>6. ASSUME NEW s \in SlotsFrom(p, n) PROVE q.len[s] = BufSz /\ q.offset[s] = 0
      <4>1. s \in Slot
        BY SlotsFromIs
      <4>2. RingDelta(s, p, R) \in 0 .. R - 1
        BY <4>1, RingPlaces
      <4>. QED BY <3>1, <3>2, <3>5, <4>1, <4>2 DEF HandlersWhole
    <3>. QED BY <3>2, <3>4, <3>6
  <2>. QED BY <2>1, <2>2, Unfolded DEF BuffersCovered, BuffersWhole
<1>. QED BY <1>1, <1>2, <1>3, C2hInvHolds, PTL DEF C2hSpec

-----------------------------------------------------------------------------
(* The stream that a receive queue's readers get. *)

\* The last buffer of a packet holds what the others leave (get_fl_nr).
LengthsRight ==
    \A len \in PktLens : LastLen(len) \in 0 .. BufSz /\ BufSz * (FlNr(len) - 1) + LastLen(len) = len

\* Packets and requests are measured in a unit, so requests end at its multiples;
\* with a handler there are none.
Multiple(c, unit) == \E k \in Int : c = unit * k
MayEnd(c, unit) == FALSE \in Handlers /\ Multiple(c, unit)

\* Requests end where buffers end: inside a packet where one may end is a
\* multiple of the buffers' size.
EndsAtBuffers(unit) ==
    /\ unit \in Nat \ {0}
    /\ \A left \in ReqLens : Multiple(left, unit)
    /\ \A len \in PktLens :
          /\ Multiple(len, unit)
          /\ \A c \in 1 .. len - 1 : MayEnd(c, unit) => Multiple(c, BufSz)

\* n units of the stream.
Units(from, n) == [i \in 1 .. n |-> from + i - 1]

LEMMA Multiples ==
  ASSUME NEW unit \in Nat \ {0}, NEW a \in Int, NEW b \in Int, Multiple(a, unit), Multiple(b, unit)
  PROVE  Multiple(a + b, unit) /\ Multiple(a - b, unit)
<1>1. PICK j \in Int, k \in Int : a = unit * j /\ b = unit * k
  BY DEF Multiple
<1>2. a + b = unit * (j + k) /\ a - b = unit * (j - k) /\ j + k \in Int /\ j - k \in Int
  BY <1>1
<1>. QED BY <1>2 DEF Multiple

\* No multiple of the buffers' size lies inside a buffer.
LEMMA NoneInside ==
  ASSUME NEW size \in Nat \ {0}, NEW j \in Nat, NEW c \in Int, Multiple(c, size),
         size * j < c, c < size * j + size
  PROVE  FALSE
<1>1. PICK k \in Int : c = size * k
  BY DEF Multiple
<1>2. size * j < size * k /\ size * k < size * (j + 1)
  BY <1>1
<1>3. j < k
  <2>. SUFFICES ASSUME ~(j < k) PROVE FALSE
    OBVIOUS
  <2>1. j - k \in Nat
    OBVIOUS
  <2>2. size * (j - k) >= 0
    BY <2>1
  <2>. QED BY <1>2, <2>2
<1>4. k < j + 1
  <2>. SUFFICES ASSUME ~(k < j + 1) PROVE FALSE
    OBVIOUS
  <2>1. k - (j + 1) \in Nat
    OBVIOUS
  <2>2. size * (k - (j + 1)) >= 0
    BY <2>1
  <2>. QED BY <1>2, <2>2
<1>. QED BY <1>3, <1>4

\* What grows with every step grows.
LEMMA Grows ==
  ASSUME NEW n \in Nat, NEW A \in [0 .. n -> Int], \A k \in 0 .. n - 1 : A[k] <= A[k + 1]
  PROVE  \A j, k \in 0 .. n : j <= k => A[j] <= A[k]
<1>. SUFFICES ASSUME NEW j \in 0 .. n PROVE \A k \in 0 .. n : j <= k => A[j] <= A[k]
  OBVIOUS
<1>. DEFINE T == {k \in 0 .. n : j <= k => A[j] <= A[k]}
<1>1. 0 \in T
  OBVIOUS
<1>2. ASSUME NEW k \in 1 .. n, k - 1 \in T PROVE k \in T
  <2>1. k - 1 \in 0 .. n - 1 /\ k \in 0 .. n /\ (k - 1) + 1 = k
    OBVIOUS
  <2>2. A[k - 1] \in Int /\ A[k] \in Int /\ A[j] \in Int /\ A[k - 1] <= A[k]
    BY <2>1
  <2>. QED BY <1>2, <2>1, <2>2
<1>3. T = 0 .. n
  <2>. HIDE DEF T
  <2>1. T \subseteq 0 .. n
    BY DEF T
  <2>. QED BY <1>1, <1>2, <2>1, UpTo
<1>. QED BY <1>3

-----------------------------------------------------------------------------
(* Sequences of units. *)

LEMMA UnitsAre ==
  ASSUME NEW from \in Int, NEW n \in Nat
  PROVE  /\ Units(from, n) \in Seq(Int) /\ Len(Units(from, n)) = n
         /\ \A i \in 1 .. n : Units(from, n)[i] = from + i - 1
         /\ Units(from, 0) = << >>
<1>1. Units(from, n) \in Seq(Int) /\ Len(Units(from, n)) = n
  BY DEF Units
<1>2. \A i \in 1 .. n : Units(from, n)[i] = from + i - 1
  BY DEF Units
<1>3. Units(from, 0) = << >>
  BY DEF Units
<1>. QED BY <1>1, <1>2, <1>3

LEMMA SeqIs ==
  ASSUME NEW s \in Seq(Int), NEW n, n = Len(s)
  PROVE  s = [i \in 1 .. n |-> s[i]]
OBVIOUS

LEMMA ConcatIs ==
  ASSUME NEW s \in Seq(Int), NEW t \in Seq(Int)
  PROVE  \E v \in Seq(Int) :
           /\ v = s \o t /\ Len(v) = Len(s) + Len(t)
           /\ \A i \in 1 .. Len(s) : v[i] = s[i]
           /\ \A i \in 1 .. Len(t) : v[Len(s) + i] = t[i]
<1>1. s \o t \in Seq(Int) /\ Len(s \o t) = Len(s) + Len(t)
  OBVIOUS
<1>2. \A i \in 1 .. Len(s) : (s \o t)[i] = s[i]
  OBVIOUS
<1>3. \A i \in 1 .. Len(t) : (s \o t)[Len(s) + i] = t[i]
  <2>. TAKE i \in 1 .. Len(t)
  <2>1. PICK m \in Nat : m = Len(s)
    OBVIOUS
  <2>2. m + i \in 1 .. Len(s) + Len(t) /\ ~(m + i <= Len(s)) /\ (m + i) - Len(s) = i
    BY <2>1
  <2>3. (s \o t)[m + i] = t[(m + i) - Len(s)]
    BY <2>2
  <2>. QED BY <2>1, <2>2, <2>3
<1>. QED BY <1>1, <1>2, <1>3

LEMMA UnitsJoin ==
  ASSUME NEW from \in Int, NEW m \in Nat, NEW n \in Nat
  PROVE  Units(from, m) \o Units(from + m, n) = Units(from, m + n)
<1>1. PICK s \in Seq(Int) : s = Units(from, m) /\ Len(s) = m /\ \A i \in 1 .. m : s[i] = from + i - 1
  BY UnitsAre
<1>2. PICK middle \in Int : middle = from + m
  OBVIOUS
<1>3. PICK t \in Seq(Int) :
        t = Units(middle, n) /\ Len(t) = n /\ \A i \in 1 .. n : t[i] = middle + i - 1
  BY UnitsAre
<1>4. PICK all \in Nat : all = m + n
  OBVIOUS
<1>5. PICK u \in Seq(Int) :
        u = Units(from, all) /\ Len(u) = all /\ \A i \in 1 .. all : u[i] = from + i - 1
  BY UnitsAre
<1>6. PICK v \in Seq(Int) : /\ v = s \o t /\ Len(v) = Len(s) + Len(t)
                            /\ \A i \in 1 .. Len(s) : v[i] = s[i]
                            /\ \A i \in 1 .. Len(t) : v[Len(s) + i] = t[i]
  BY ConcatIs
<1>7. ASSUME NEW i \in 1 .. all PROVE v[i] = u[i]
  <2>1. CASE i <= m
    <3>1. i \in 1 .. Len(s) /\ i \in 1 .. m
      BY <1>1, <2>1
    <3>2. v[i] = s[i] /\ s[i] = from + i - 1 /\ u[i] = from + i - 1
      BY <1>1, <1>5, <1>6, <3>1, Zenon
    <3>. QED BY <3>2
  <2>2. CASE i > m
    <3>1. PICK k \in 1 .. n : k = i - m /\ i = m + k /\ middle + k - 1 = from + i - 1
      BY <1>2, <1>4, <2>2
    <3>2. v[m + k] = t[k] /\ t[k] = middle + k - 1
      BY <1>1, <1>3, <1>6, Zenon
    <3>3. u[i] = from + i - 1
      BY <1>5, Zenon
    <3>. QED BY <3>1, <3>2, <3>3, Zenon
  <2>3. i <= m \/ i > m
    OBVIOUS
  <2>. QED BY <2>1, <2>2, <2>3, Zenon
<1>8. v = [i \in 1 .. all |-> v[i]] /\ u = [i \in 1 .. all |-> u[i]]
  <2>1. all = Len(v) /\ all = Len(u)
    BY <1>1, <1>3, <1>4, <1>5, <1>6
  <2>. QED BY <2>1, SeqIs
<1>9. v = u
  BY <1>7, <1>8
<1>. QED BY <1>1, <1>2, <1>3, <1>4, <1>5, <1>6, <1>9, Zenon

LEMMA UnitsPart ==
  ASSUME NEW from \in Int, NEW n \in Nat, NEW k \in 0 .. n
  PROVE  SubSeq(Units(from, n), 1, k) = Units(from, k)
<1>. PICK s \in Seq(Int) : s = Units(from, n)
  BY UnitsAre
<1>. PICK j \in Nat : j = k
  OBVIOUS
<1>. PICK t \in Seq(Int) : t = Units(from, j)
  BY UnitsAre
<1>1. Len(s) = n /\ Len(t) = k
  BY UnitsAre
<1>2. \A i \in 1 .. n : s[i] = from + i - 1
  BY UnitsAre
<1>3. \A i \in 1 .. k : t[i] = from + i - 1
  BY UnitsAre
<1>4. SubSeq(s, 1, k) = [i \in 1 .. k |-> s[i]]
  BY <1>1
<1>5. t = [i \in 1 .. k |-> t[i]]
  BY <1>1
<1>6. \A i \in 1 .. k : s[i] = t[i]
  BY <1>2, <1>3
<1>. QED BY <1>4, <1>5, <1>6

\* Pieces of the stream that follow each other are a piece of the stream.
LEMMA PiecesJoin ==
  ASSUME NEW n \in Nat, NEW A \in [0 .. n -> Int], \A k \in 0 .. n - 1 : A[k] <= A[k + 1],
         NEW pieces, DOMAIN pieces = 1 .. n, Len(pieces) = n,
         \A k \in 1 .. n : pieces[k] = Units(A[k - 1], A[k] - A[k - 1]),
         n = 0 => pieces = << >>
  PROVE  FlattenSeq(pieces) = Units(A[0], A[n] - A[0])
<1>1. \A k \in 0 .. n : A[k] \in Int /\ A[0] <= A[k]
  <2>1. 0 \in 0 .. n /\ \A k \in 0 .. n : 0 <= k
    OBVIOUS
  <2>. QED BY <2>1, Grows
<1>2. CASE n = 0
  <2>1. FlattenSeq(pieces) = << >>
    BY <1>2 DEF FlattenSeq
  <2>2. A[0] \in Int /\ A[n] - A[0] = 0
    BY <1>1, <1>2
  <2>3. 0 \in Nat
    OBVIOUS
  <2>. QED BY <2>1, <2>2, <2>3, UnitsAre
<1>3. CASE n # 0
  <2>. DEFINE IsFlat(f) == f = [i \in 1 .. n |-> IF i = 1 THEN pieces[i] ELSE f[i - 1] \o pieces[i]]
              w == [i \in 1 .. n |-> Units(A[0], A[i] - A[0])]
              f == CHOOSE f : IsFlat(f)
  <2>1. FlattenSeq(pieces) = f[n]
    BY <1>3 DEF FlattenSeq
  <2>2. ASSUME NEW i \in 1 .. n
        PROVE  w[i] = IF i = 1 THEN pieces[i] ELSE w[i - 1] \o pieces[i]
    <3>1. CASE i = 1
      <4>1. pieces[1] = Units(A[1 - 1], A[1] - A[1 - 1]) /\ 1 - 1 = 0
        BY <3>1
      <4>. QED BY <3>1, <4>1
    <3>2. CASE i # 1
      <4>1. i - 1 \in 1 .. n /\ i - 1 \in 0 .. n - 1 /\ i \in 0 .. n /\ (i - 1) + 1 = i /\ i - 1 \in 0 .. n
        BY <3>2
      <4>2. PICK a \in Int, b \in Int, c \in Int :
              a = A[0] /\ b = A[i - 1] /\ c = A[i] /\ a <= b /\ b <= c
        <5>1. A[i - 1] <= A[(i - 1) + 1]
          BY <4>1
        <5>2. 0 \in 0 .. n
          OBVIOUS
        <5>. QED BY <1>1, <4>1, <5>1, <5>2
      <4>3. w[i - 1] = Units(a, b - a) /\ pieces[i] = Units(b, c - b) /\ w[i] = Units(a, c - a)
        BY <4>1, <4>2
      <4>4. b - a \in Nat /\ c - b \in Nat /\ a + (b - a) = b /\ (b - a) + (c - b) = c - a
        <5>. HIDE DEF w
        <5>1. a \in Int /\ b \in Int /\ c \in Int /\ a <= b /\ b <= c
          BY <4>2
        <5>. QED BY <5>1
      <4>5. Units(a, b - a) \o Units(a + (b - a), c - b) = Units(a, (b - a) + (c - b))
        BY <4>4, UnitsJoin
      <4>6. Units(a, b - a) \o Units(b, c - b) = Units(a, c - a)
        BY <4>4, <4>5
      <4>. HIDE DEF w
      <4>. QED BY <3>2, <4>3, <4>6
    <3>. QED BY <3>1, <3>2
  <2>3. IsFlat(w)
    <3>. DEFINE v == [i \in 1 .. n |-> IF i = 1 THEN pieces[i] ELSE w[i - 1] \o pieces[i]]
    <3>1. w = [i \in 1 .. n |-> w[i]] /\ v = [i \in 1 .. n |-> v[i]] /\ \A i \in 1 .. n : w[i] = v[i]
      BY <2>2
    <3>. HIDE DEF v, w
    <3>2. w = v
      BY <3>1
    <3>. QED BY <3>2, ZenonT(40) DEF v
  <2>4. IsFlat(f)
    <3>. HIDE DEF w
    <3>1. \E g : IsFlat(g)
      BY <2>3
    <3>. QED BY <3>1, ZenonT(40)
  <2>. HIDE DEF f
  <2>. DEFINE T == {k \in 0 .. n : k = 0 \/ f[k] = w[k]}
  <2>5. ASSUME NEW k \in 1 .. n, k - 1 \in T PROVE k \in T
    <3>1. f[k] = IF k = 1 THEN pieces[k] ELSE f[k - 1] \o pieces[k]
      BY <2>4
    <3>2. k # 1 => f[k - 1] = w[k - 1]
      BY <2>5
    <3>3. f[k] = w[k]
      <4>. HIDE DEF w
      <4>. QED BY <2>2, <3>1, <3>2
    <3>. QED BY <3>3
  <2>6. T = 0 .. n
    <3>1. T \subseteq 0 .. n /\ 0 \in T
      OBVIOUS
    <3>. HIDE DEF T
    <3>. QED BY <2>5, <3>1, UpTo
  <2>7. f[n] = w[n]
    <3>1. n \in T
      <4>1. n \in 0 .. n
        OBVIOUS
      <4>. HIDE DEF T
      <4>. QED BY <2>6, <4>1
    <3>. QED BY <1>3, <3>1
  <2>. QED BY <1>3, <2>1, <2>7
<1>. QED BY <1>2, <1>3

\* A grows from buffer to buffer, and a request of that length ends in none.
Growing(n, A) == A \in [0 .. n -> Int] /\ \A k \in 0 .. n - 1 : A[k] <= A[k + 1]
EndsOutside(n, A, left) == \A k \in 0 .. n - 1 : ~(A[k] < A[0] + left /\ A[0] + left < A[k + 1])

\* The request passes the first m of n buffers.
Passes(n, A, left, m) ==
    /\ \A k \in 1 .. n : A[k - 1] - A[0] < left /\ A[k] - A[0] <= left <=> k <= m
    /\ A[m] - A[0] = Min({left, A[n] - A[0]})
    /\ A[m] - A[0] = left \/ m = n

\* The buffers that a request passes: up to where it ends, which is not inside
\* a buffer.
LEMMA PassedAre ==
  ASSUME NEW n \in Nat, NEW A, Growing(n, A), NEW left \in Nat, EndsOutside(n, A, left)
  PROVE  \E m \in 0 .. n : Passes(n, A, left, m)
<1>a. A \in [0 .. n -> Int] /\ \A k \in 0 .. n - 1 : A[k] <= A[k + 1]
  BY DEF Growing
<1>b. \A k \in 0 .. n - 1 : ~(A[k] < A[0] + left /\ A[0] + left < A[k + 1])
  BY DEF EndsOutside
<1>1. \A k \in 0 .. n : A[k] \in Int /\ A[0] <= A[k]
  <2>1. 0 \in 0 .. n /\ \A k \in 0 .. n : 0 <= k
    OBVIOUS
  <2>. QED BY <1>a, <2>1, Grows
<1>. PICK a \in Int : a = A[0]
  BY <1>1
<1>. DEFINE T == {k \in 0 .. n : k = n \/ A[k] >= a + left}
<1>2. n \in T /\ T \subseteq Nat
  OBVIOUS
<1>3. PICK m \in T : \A k \in T : m <= k
  <2>. HIDE DEF T
  <2>. QED BY <1>2, LeastOf
<1>4. m \in 0 .. n /\ (m = n \/ A[m] >= a + left)
  OBVIOUS
<1>5. \A k \in 0 .. n : k < m => A[k] < a + left
  <2>. TAKE k \in 0 .. n
  <2>1. k < m => k \notin T
    BY <1>3
  <2>. QED BY <1>1, <1>4, <2>1
<1>. HIDE DEF T
<1>6. ASSUME NEW k \in 1 .. n
      PROVE  A[k - 1] - A[0] < left /\ A[k] - A[0] <= left <=> k <= m
  <2>1. PICK b \in Int, c \in Int : b = A[k - 1] /\ c = A[k] /\ b <= c /\ ~(b < a + left /\ a + left < c)
    <3>1. k - 1 \in 0 .. n - 1 /\ (k - 1) + 1 = k /\ k - 1 \in 0 .. n /\ k \in 0 .. n
      OBVIOUS
    <3>2. A[k - 1] <= A[(k - 1) + 1] /\ ~(A[k - 1] < A[0] + left /\ A[0] + left < A[(k - 1) + 1])
      BY <1>a, <1>b, <3>1
    <3>. QED BY <1>1, <3>1, <3>2
  <2>2. CASE k <= m
    <3>1. k - 1 \in 0 .. n /\ k - 1 < m
      BY <1>4, <2>2
    <3>2. b < a + left
      BY <1>5, <2>1, <3>1
    <3>. QED BY <2>1, <2>2, <3>2
  <2>3. CASE ~(k <= m)
    <3>1. m # n /\ m \in 0 .. n /\ k - 1 \in 0 .. n /\ m <= k - 1
      BY <1>4, <2>3
    <3>2. A[m] <= A[k - 1] /\ A[m] >= a + left /\ A[m] \in Int
      BY <1>1, <1>4, <1>a, <3>1, Grows
    <3>3. b >= a + left
      BY <2>1, <3>2
    <3>. QED BY <2>1, <2>3, <3>3
  <2>. QED BY <2>2, <2>3
<1>7. PICK x \in Int, z \in Int : x = A[m] /\ z = A[n] /\ x <= z /\ a <= x
  <2>1. n \in 0 .. n /\ m <= n
    BY <1>4
  <2>2. A[m] <= A[n]
    BY <1>4, <1>a, <2>1, Grows
  <2>. QED BY <1>1, <1>4, <2>1, <2>2
<1>8. x <= a + left
  <2>1. CASE m = 0
    BY <1>7, <2>1
  <2>2. CASE m # 0
    <3>1. m \in 1 .. n /\ m <= m
      BY <1>4, <2>2
    <3>2. A[m] - A[0] <= left
      BY <1>6, <3>1
    <3>. QED BY <1>7, <3>2
  <2>. QED BY <2>1, <2>2
<1>9. x - a = (IF left <= z - a THEN left ELSE z - a) /\ (x - a = left \/ m = n)
  BY <1>4, <1>7, <1>8
<1>10. Min({left, z - a}) = IF left <= z - a THEN left ELSE z - a
  BY DEF Min
<1>. QED BY <1>4, <1>6, <1>7, <1>9, <1>10 DEF Passes

-----------------------------------------------------------------------------
(* The readable buffers. *)

\* A buffer that holds what the stream has from its first unit on, and in which
\* no request can end.
Buffer(d, s, unit) ==
    /\ Mark(s) \in Int /\ d.len[s] \in Nat
    /\ Mark(RingIncr(s, 1, R)) = Mark(s) + d.len[s]
    /\ \A c \in Int : MayEnd(c, unit) => ~(Mark(s) < c /\ c < Mark(s) + d.len[s])

\* What the last reader got ends where the next one starts.
Got(d) == \E k \in Nat : d.got = Units(d.taken - k, k)

\* The buffers from b to p hold the stream from the first unit no reader has got.
Streamed(d, p, b, unit) ==
    /\ d.taken \in Nat /\ d.dlen \in Nat
    /\ Mark(b) = d.taken /\ Mark(p) = d.taken + d.dlen
    /\ \A s \in Slot : RingDelta(s, b, R) < RingDelta(p, b, R) => Buffer(d, s, unit)
    /\ Multiple(d.taken, unit) /\ Multiple(d.dlen, unit)
    /\ Got(d)

\* A[k] is where the k-th of the n buffers from b on starts in the stream.
Placed(d, b, n, A, unit) ==
    /\ A \in [0 .. n -> Int]
    /\ A[0] = d.taken /\ A[n] = d.taken + d.dlen
    /\ \A k \in 0 .. n : A[k] = Mark(RingIncr(b, k, R))
    /\ \A k \in 0 .. n - 1 :
          /\ d.len[RingIncr(b, k, R)] = A[k + 1] - A[k] /\ A[k] <= A[k + 1]
          /\ d.offset[RingIncr(b, k, R)] = 0 /\ mem[RingIncr(b, k, R)] = A[k]
          /\ \A c \in Int : MayEnd(c, unit) => ~(A[k] < c /\ c < A[k + 1])

\* The hardware's next buffer is behind them.
LEMMA AheadOf ==
  ASSUME NEW d, NEW p, NEW b, BuffersRight(d, p, b), NEW s \in Slot,
         RingDelta(s, b, R) < RingDelta(p, b, R)
  PROVE  s # h.cidx /\ Mark(s) = mem[s]
<1>. USE C2hAssumption DEF Slot
<1>1. PICK x \in Slot, y \in Slot : h.pidx = x /\ h.cidx = y
  BY DEF BuffersRight
<1>2. p \in Slot /\ b \in Slot
  BY DEF BuffersRight
<1>3. PICK i \in 0 .. R - 1, j \in 0 .. R - 1, k \in 0 .. R - 1 :
        i = RingDelta(p, b, R) /\ j = RingDelta(y, p, R) /\ k = RingDelta(x, p, R)
  BY <1>2, RingPlaces
<1>4. j <= k /\ k <= R - 1 - i
  BY <1>1, <1>3 DEF BuffersRight
<1>5. RingDelta(y, b, R) = i + j
  <2>1. i + j < R
    BY <1>3, <1>4
  <2>. QED BY <1>2, <1>3, <2>1, RingSums
<1>6. s # y
  BY <1>3, <1>4, <1>5
<1>. QED BY <1>1, <1>6 DEF Mark

\* Readers have read up to b of what was not given back from a on.
LEMMA StreamPlaced ==
  ASSUME NEW d, NEW p, NEW a, NEW b \in Slot, NEW unit, BuffersRight(d, p, a), HandlersWhole(d, p, a),
         RingDelta(p, b, R) <= RingDelta(p, a, R), Streamed(d, p, b, unit),
         NEW n, n = RingDelta(p, b, R)
  PROVE  n \in 0 .. R - 1 /\ \E A : Placed(d, b, n, A, unit)
<1>. USE C2hAssumption DEF Slot
<1>1. p \in Slot /\ b \in Slot /\ a \in Slot
  BY DEF BuffersRight
<1>2. n \in 0 .. R - 1
  BY <1>1, RingPlaces
<1>. DEFINE P(k) == RingIncr(b, k, R)
            A == [k \in 0 .. n |-> Mark(P(k))]
<1>3. \A k \in 0 .. n : P(k) \in Slot /\ RingDelta(P(k), b, R) = k
  <2>. TAKE k \in 0 .. n
  <2>1. k \in 0 .. R - 1
    BY <1>2
  <2>. QED BY <1>1, <2>1, RingSteps
<1>4. P(0) = b /\ P(n) = p
  <2>1. RingIncr(b, RingDelta(p, b, R), R) = p /\ RingIncr(b, 0, R) = b
    BY <1>1, RingPlaces, RingSteps
  <2>. QED BY <2>1
<1>5. ASSUME NEW k \in 0 .. n - 1
      PROVE  /\ Buffer(d, P(k), unit) /\ RingIncr(P(k), 1, R) = P(k + 1)
             /\ Mark(P(k)) = mem[P(k)] /\ d.offset[P(k)] = 0
  <2>1. k \in 0 .. n /\ k < n
    BY <1>2
  <2>2. P(k) \in Slot /\ RingDelta(P(k), b, R) < RingDelta(p, b, R)
    BY <1>3, <2>1
  <2>3. RingIncr(P(k), 1, R) = P(k + 1)
    <3>1. k \in Nat /\ 1 \in Nat /\ k + 1 < R
      BY <1>2
    <3>2. RingIncr(RingIncr(b, k, R), 1, R) = RingIncr(b, k + 1, R)
      BY <1>1, <3>1, RingTwice
    <3>. QED BY <3>2
  <2>4. Mark(P(k)) = mem[P(k)]
    <3>. HIDE DEF P
    <3>1. PICK s \in Slot : s = P(k)
      BY <2>2
    <3>2. RingDelta(s, a, R) < RingDelta(p, a, R)
      <4>1. /\ RingDelta(p, a, R) \in 0 .. R - 1 /\ RingDelta(b, a, R) \in 0 .. R - 1
            /\ RingDelta(p, b, R) \in 0 .. R - 1 /\ RingDelta(s, b, R) \in 0 .. R - 1
        BY <1>1, RingPlaces
      <4>2. RingDelta(p, a, R) = RingDelta(b, a, R) + RingDelta(p, b, R)
        BY <1>1 DEF RingDelta
      <4>3. RingDelta(b, a, R) + RingDelta(s, b, R) < R
        BY <2>2, <3>1, <4>1, <4>2
      <4>4. RingDelta(s, a, R) = RingDelta(b, a, R) + RingDelta(s, b, R)
        BY <1>1, <4>3, RingSums
      <4>. QED BY <2>2, <3>1, <4>1, <4>2, <4>4
    <3>. QED BY <3>1, <3>2, AheadOf
  <2>. HIDE DEF P
  <2>. QED BY <2>2, <2>3, <2>4 DEF Streamed, HandlersWhole
<1>. HIDE DEF P
<1>6. ASSUME NEW k \in 0 .. n - 1
      PROVE  /\ Mark(P(k)) \in Int /\ Mark(P(k + 1)) \in Int /\ Mark(P(k)) <= Mark(P(k + 1))
             /\ d.len[P(k)] = Mark(P(k + 1)) - Mark(P(k))
             /\ \A c \in Int : MayEnd(c, unit) => ~(Mark(P(k)) < c /\ c < Mark(P(k + 1)))
  <2>1. PICK x \in Int, l \in Nat : x = Mark(P(k)) /\ l = d.len[P(k)]
    BY <1>5 DEF Buffer
  <2>2. Mark(P(k + 1)) = x + l
    BY <1>5, <2>1 DEF Buffer
  <2>3. \A c \in Int : MayEnd(c, unit) => ~(x < c /\ c < x + l)
    BY <1>5, <2>1 DEF Buffer
  <2>. QED BY <2>1, <2>2, <2>3
<1>7. \A k \in 0 .. n : Mark(P(k)) \in Int
  <2>. TAKE k \in 0 .. n
  <2>1. CASE k = n
    BY <1>4, <2>1 DEF Streamed
  <2>2. CASE k # n
    <3>1. k \in 0 .. n - 1
      BY <1>2, <2>2
    <3>. QED BY <1>6, <3>1
  <2>. QED BY <2>1, <2>2
<1>8. A \in [0 .. n -> Int] /\ \A k \in 0 .. n : A[k] = Mark(P(k))
  BY <1>7
<1>. HIDE DEF A
<1>9. \A k \in 0 .. n - 1 : A[k] = Mark(P(k)) /\ A[k + 1] = Mark(P(k + 1))
  <2>. TAKE k \in 0 .. n - 1
  <2>1. k \in 0 .. n /\ k + 1 \in 0 .. n
    BY <1>2
  <2>. QED BY <1>8, <2>1
<1>10. A[0] = d.taken /\ A[n] = d.taken + d.dlen
  <2>1. 0 \in 0 .. n /\ n \in 0 .. n
    BY <1>2
  <2>. QED BY <1>4, <1>8, <2>1 DEF Streamed
<1>11. \A k \in 0 .. n - 1 :
          /\ d.len[P(k)] = A[k + 1] - A[k] /\ A[k] <= A[k + 1]
          /\ d.offset[P(k)] = 0 /\ mem[P(k)] = A[k]
          /\ \A c \in Int : MayEnd(c, unit) => ~(A[k] < c /\ c < A[k + 1])
  <2>. HIDE DEF Mark
  <2>. QED BY <1>5, <1>6, <1>9
<1>12. Placed(d, b, n, A, unit)
  <2>. HIDE DEF Mark
  <2>. QED BY <1>8, <1>10, <1>11 DEF Placed, P
<1>. QED BY <1>2, <1>12

\* How far the buffers reach.
UptoAre(d, n, A) == \A k \in 0 .. n : Upto(d, k) = A[k] - A[0]

LEMMA UptoIs ==
  ASSUME NEW d, NEW b, b = d.pidxPend, NEW n \in Nat, NEW A, NEW unit, Placed(d, b, n, A, unit)
  PROVE  UptoAre(d, n, A)
<1>. SUFFICES ASSUME NEW k \in 0 .. n PROVE Upto(d, k) = A[k] - A[0]
  BY DEF UptoAre
<1>1. \A i \in 0 .. n : A[i] \in Int
  BY DEF Placed
<1>2. \A i \in 0 .. n - 1 : d.len[RingIncr(b, i, R)] = A[i + 1] - A[i]
  BY DEF Placed
<1>. DEFINE IsSum(f) == f = [i \in 0 .. k |->
                    IF i = 0 THEN 0 ELSE f[i - 1] + d.len[RingIncr(d.pidxPend, i - 1, R)]]
            f == CHOOSE f : IsSum(f)
            w == [i \in 0 .. k |-> A[i] - A[0]]
<1>3. Upto(d, k) = f[k]
  BY DEF Upto
<1>4. ASSUME NEW i \in 0 .. k
      PROVE  w[i] = IF i = 0 THEN 0 ELSE w[i - 1] + d.len[RingIncr(d.pidxPend, i - 1, R)]
  <2>1. CASE i = 0
    BY <1>1, <2>1
  <2>2. CASE i # 0
    <3>1. i - 1 \in 0 .. n - 1 /\ i - 1 \in 0 .. k /\ (i - 1) + 1 = i /\ i - 1 \in 0 .. n /\ i \in 0 .. n /\ 0 \in 0 .. n
      BY <2>2
    <3>2. d.len[RingIncr(b, i - 1, R)] = A[(i - 1) + 1] - A[i - 1]
      BY <1>2, <3>1
    <3>3. PICK x \in Int, y \in Int, z \in Int : x = A[i - 1] /\ y = A[i] /\ z = A[0]
      BY <1>1, <3>1
    <3>4. w[i - 1] = x - z /\ w[i] = y - z
      BY <3>1, <3>3
    <3>. HIDE DEF w
    <3>. QED BY <2>2, <3>1, <3>2, <3>3, <3>4
  <2>. QED BY <2>1, <2>2
<1>5. IsSum(w)
  <2>. DEFINE v == [i \in 0 .. k |-> IF i = 0 THEN 0 ELSE w[i - 1] + d.len[RingIncr(d.pidxPend, i - 1, R)]]
  <2>1. w = [i \in 0 .. k |-> w[i]] /\ v = [i \in 0 .. k |-> v[i]] /\ \A i \in 0 .. k : w[i] = v[i]
    BY <1>4
  <2>. HIDE DEF v, w
  <2>2. w = v
    BY <2>1
  <2>. QED BY <2>2 DEF v
<1>6. IsSum(f)
  <2>. HIDE DEF w
  <2>1. \E g : IsSum(g)
    BY <1>5
  <2>. QED BY <2>1
<1>. HIDE DEF f, w
<1>. DEFINE T == {i \in 0 .. k : f[i] = w[i]}
<1>7. \A i \in 0 .. k : f[i] = IF i = 0 THEN 0 ELSE f[i - 1] + d.len[RingIncr(d.pidxPend, i - 1, R)]
  BY <1>6
<1>8. 0 \in T
  BY <1>4, <1>7
<1>9. ASSUME NEW i \in 1 .. k, i - 1 \in T PROVE i \in T
  <2>1. i \in 0 .. k /\ i # 0
    OBVIOUS
  <2>. QED BY <1>4, <1>7, <1>9, <2>1
<1>10. k \in T
  <2>1. T \subseteq 0 .. k /\ k \in Nat
    OBVIOUS
  <2>. HIDE DEF T
  <2>2. T = 0 .. k
    BY <1>8, <1>9, <2>1, UpTo
  <2>. QED BY <2>2
<1>. QED BY <1>3, <1>10 DEF w

LEMMA UnreadIs ==
  ASSUME NEW d, NEW b, b = d.pidxPend, NEW n \in Nat, n = Readable(d), NEW A, NEW unit, Placed(d, b, n, A, unit)
  PROVE  Unread(d) = Units(A[0], A[n] - A[0])
<1>. DEFINE pieces == [k \in 1 .. n |-> UnitsOf(d, RingIncr(b, k - 1, R))]
<1>1. Unread(d) = FlattenSeq(pieces)
  BY DEF Unread
<1>2. DOMAIN pieces = 1 .. n /\ Len(pieces) = n /\ (n = 0 => pieces = << >>)
  OBVIOUS
<1>3. A \in [0 .. n -> Int] /\ \A k \in 0 .. n - 1 : A[k] <= A[k + 1]
  BY DEF Placed
<1>4. ASSUME NEW k \in 1 .. n PROVE pieces[k] = Units(A[k - 1], A[k] - A[k - 1])
  <2>1. PICK i \in 0 .. n - 1 : i = k - 1 /\ i + 1 = k
    OBVIOUS
  <2>2. PICK s : s = RingIncr(b, i, R)
    OBVIOUS
  <2>3. d.len[s] = A[i + 1] - A[i] /\ d.offset[s] = 0 /\ mem[s] = A[i]
    BY <2>2 DEF Placed
  <2>4. PICK a \in Int : a = A[i]
    BY <1>3
  <2>5. UnitsOf(d, s) = [j \in 1 .. A[i + 1] - A[i] |-> a + 0 + j - 1]
    BY <2>3, <2>4 DEF UnitsOf
  <2>6. UnitsOf(d, s) = Units(a, A[i + 1] - A[i])
    BY <2>5 DEF Units
  <2>7. pieces[k] = UnitsOf(d, RingIncr(b, k - 1, R))
    OBVIOUS
  <2>. HIDE DEF pieces
  <2>. QED BY <2>1, <2>2, <2>4, <2>6, <2>7
<1>. HIDE DEF pieces
<1>5. FlattenSeq(pieces) = Units(A[0], A[n] - A[0])
  BY <1>2, <1>3, <1>4, PiecesJoin
<1>. QED BY <1>1, <1>5

-----------------------------------------------------------------------------
(* A request. *)

\* Of m buffers that were read, a request that is just submitted gives back all.
GivenBack(d, b, m, refill) == IF refill /\ m > 0 THEN Refill(d, b, m, TRUE) ELSE d

\* Of the stream, that many units from `from` on go to a reader, in whole buffers.
Taking(e, next, from, copied) ==
    [e EXCEPT !.pidxPend = next, !.offset[next] = @ + 0, !.len[next] = @ - 0,
              !.dlen = @ - copied, !.got = @ \o Units(from, copied), !.taken = @ + copied]

\* The first m of n buffers are what a request of that length gets.
Gets(n, A, left, m, copied) ==
    A[m] = A[0] + copied /\ copied <= left /\ (copied = left \/ m = n)

\* A request takes whole buffers: the ones up to where it ends, or all of them.
\* r is d after a request of that length was served from n buffers.
Reads(d, r, b, n, A, left, refill) ==
    \E m \in 0 .. n, copied \in Nat :
      /\ Gets(n, A, left, m, copied)
      /\ r = Taking(GivenBack(d, b, m, refill), RingIncr(b, m, R), A[0], copied)

LEMMA ReadMeans ==
  ASSUME FALSE \in Handlers, NEW d, NEW b, b = d.pidxPend, NEW n \in Nat, n = Readable(d), NEW A, NEW unit,
         Placed(d, b, n, A, unit), NEW left \in Nat, Multiple(left, unit), Multiple(d.taken, unit),
         unit \in Nat \ {0}, NEW refill, NEW r, r = Read(d, left, refill)
  PROVE  Reads(d, r, b, n, A, left, refill)
<1>0. Growing(n, A)
  BY DEF Placed, Growing
<1>1. A \in [0 .. n -> Int] /\ A[0] = d.taken /\ \A k \in 0 .. n - 1 : A[k] <= A[k + 1]
  BY DEF Placed
<1>2. PICK a \in Int, z \in Int : a = A[0] /\ z = A[n]
  BY <1>1
<1>3. EndsOutside(n, A, left)
  <2>1. Multiple(a + left, unit)
    <3>1. Multiple(a, unit) /\ left \in Int
      BY <1>1, <1>2
    <3>. QED BY <3>1, Multiples
  <2>2. MayEnd(a + left, unit)
    BY <2>1, Zenon DEF MayEnd
  <2>3. a + left \in Int
    OBVIOUS
  <2>. QED BY <1>2, <2>2, <2>3 DEF Placed, EndsOutside
<1>. PICK m \in 0 .. n : Passes(n, A, left, m)
  BY <1>0, <1>3, PassedAre
<1>4. /\ \A k \in 1 .. n : A[k - 1] - A[0] < left /\ A[k] - A[0] <= left <=> k <= m
      /\ A[m] - A[0] = Min({left, A[n] - A[0]})
      /\ A[m] - A[0] = left \/ m = n
  BY DEF Passes
<1>5. PICK x \in Int : x = A[m] /\ a <= x /\ x <= z
  <2>1. 0 \in 0 .. n /\ n \in 0 .. n /\ 0 <= m /\ m <= n
    OBVIOUS
  <2>2. A[0] <= A[m] /\ A[m] <= A[n]
    BY <1>1, <2>1, Grows
  <2>. QED BY <1>1, <1>2, <2>2
<1>6. PICK copied \in Nat : copied = x - a
  BY <1>5
<1>7. copied <= left /\ (copied = left \/ m = n) /\ copied = Min({left, z - a})
  <2>1. Min({left, z - a}) = IF left <= z - a THEN left ELSE z - a
    BY DEF Min
  <2>. QED BY <1>2, <1>4, <1>5, <1>6, <2>1
<1>8. Unread(d) = Units(a, z - a) /\ z - a \in Nat
  BY <1>2, <1>5, UnreadIs
<1>9. Len(Unread(d)) = z - a
  BY <1>8, UnitsAre
<1>10. UptoAre(d, n, A)
  BY UptoIs
<1>11. Cardinality({k \in 1 .. n : Upto(d, k - 1) < left /\ Upto(d, k) <= left}) = m
  <2>1. \A k \in 1 .. n : Upto(d, k - 1) < left /\ Upto(d, k) <= left <=> k <= m
    <3>. TAKE k \in 1 .. n
    <3>1. k - 1 \in 0 .. n /\ k \in 0 .. n
      OBVIOUS
    <3>2. Upto(d, k - 1) = A[k - 1] - A[0] /\ Upto(d, k) = A[k] - A[0]
      BY <1>10, <3>1 DEF UptoAre
    <3>. QED BY <1>4, <3>2
  <2>2. {k \in 1 .. n : Upto(d, k - 1) < left /\ Upto(d, k) <= left} = 1 .. m
    BY <2>1
  <2>3. Cardinality(1 .. m) = IF 1 > m THEN 0 ELSE m - 1 + 1
    BY FS_Interval
  <2>4. Cardinality(1 .. m) = m
    BY <2>3
  <2>. QED BY <2>2, <2>4
<1>12. SubSeq(Unread(d), 1, copied) = Units(a, copied)
  <2>1. copied \in 0 .. z - a
    BY <1>5, <1>6
  <2>. QED BY <1>8, <2>1, UnitsPart, ZenonT(40)
<1>13. copied - Upto(d, m) = 0
  <2>1. Upto(d, m) = x - a
    BY <1>2, <1>5, <1>10 DEF UptoAre
  <2>. QED BY <1>5, <1>6, <2>1
<1>. DEFINE used == Cardinality({k \in 1 .. Readable(d) : Upto(d, k - 1) < left /\ Upto(d, k) <= left})
            cop  == Min({left, Len(Unread(d))})
            part == cop - Upto(d, used)
            next == RingIncr(d.pidxPend, used, R)
            sub  == SubSeq(Unread(d), 1, cop)
            e    == IF refill /\ used > 0 THEN Refill(d, d.pidxPend, used, TRUE) ELSE d
<1>14. r = [e EXCEPT !.pidxPend = next, !.offset[next] = @ + part, !.len[next] = @ - part,
                     !.dlen = @ - cop, !.got = @ \o sub, !.taken = @ + cop]
  BY DEF Read
<1>15. used = m /\ cop = copied
  BY <1>7, <1>9, <1>11
<1>16. part = 0 /\ sub = Units(A[0], copied) /\ next = RingIncr(b, m, R)
       /\ e = IF refill /\ m > 0 THEN Refill(d, b, m, TRUE) ELSE d
  BY <1>2, <1>12, <1>13, <1>15
<1>. HIDE DEF used, cop, part, next, sub, e
<1>17. A[m] = A[0] + copied
  BY <1>2, <1>5, <1>6
<1>18. r = Taking(e, next, A[0], copied)
  BY <1>14, <1>15, <1>16, Zenon DEF Taking
<1>19. r = Taking(GivenBack(d, b, m, refill), RingIncr(b, m, R), A[0], copied)
  BY <1>16, <1>18, Zenon DEF GivenBack
<1>20. Gets(n, A, left, m, copied)
  BY <1>7, <1>17 DEF Gets
<1>. QED BY <1>19, <1>20, Zenon DEF Reads

\* What a request of that length does that passes m buffers: it gets all it
\* asked for or all there is, and the lengths stay, or are a buffer's again.
HasRead(d, r, left, refill, m) ==
    /\ r.pidxPend = RingIncr(d.pidxPend, m, R)
    /\ r.dlen \in 0 .. d.dlen /\ d.dlen - r.dlen <= left
    /\ d.dlen - r.dlen = left \/ r.dlen = 0
    /\ r.dlen < d.dlen => m > 0
    /\ d.pendEmpty => r.pendEmpty
    /\ DOMAIN r.len = Slot /\ DOMAIN r.offset = Slot
    /\ \A s \in Slot :
          /\ r.offset[s] = 0
          /\ r.len[s] = IF refill /\ RingDelta(s, d.pidxPend, R) < m THEN BufSz ELSE d.len[s]

\* What that changes.
Took(e, r, next, from, copied) ==
    /\ Same(e, r, ReadFields) /\ r.pidxPend = next
    /\ DOMAIN r.len = Slot /\ DOMAIN r.offset = Slot
    /\ \A s \in Slot : r.len[s] = e.len[s] /\ r.offset[s] = e.offset[s]
    /\ r.dlen = e.dlen - copied /\ r.got = e.got \o Units(from, copied) /\ r.taken = e.taken + copied

LEMMA TakingDoes ==
  ASSUME NEW e, DOMAIN e = DrvFields, DOMAIN e.len = Slot, DOMAIN e.offset = Slot, NEW next \in Slot,
         e.len[next] \in Int, e.offset[next] = 0, NEW from, NEW copied, NEW r, r = Taking(e, next, from, copied)
  PROVE  Took(e, r, next, from, copied)
<1>1. /\ r.len = [e.len EXCEPT ![next] = @ - 0] /\ r.offset = [e.offset EXCEPT ![next] = @ + 0]
      /\ Same(e, r, ReadFields) /\ r.pidxPend = next
      /\ r.dlen = e.dlen - copied /\ r.got = e.got \o Units(from, copied) /\ r.taken = e.taken + copied
  BY DEF Taking, Same, ReadFields, DrvFields
<1>2. e.len[next] - 0 = e.len[next] /\ e.offset[next] + 0 = e.offset[next]
  OBVIOUS
<1>. QED BY <1>1, <1>2 DEF Took

LEMMA GotMore ==
  ASSUME NEW d, d.taken \in Int, Got(d), NEW r, NEW copied \in Nat, r.taken = d.taken + copied,
         r.got = d.got \o Units(d.taken, copied)
  PROVE  Got(r)
<1>1. PICK k \in Nat, x \in Int : x = d.taken /\ d.got = Units(x - k, k)
  BY DEF Got
<1>2. PICK y \in Int, all \in Nat : y = x - k /\ y + k = x /\ all = k + copied
  OBVIOUS
<1>3. Units(y, k) \o Units(y + k, copied) = Units(y, k + copied)
  BY UnitsJoin
<1>4. r.got = Units(y, all)
  BY <1>1, <1>2, <1>3
<1>5. r.taken - all = y
  <2>1. r.taken = x + copied
    BY <1>1
  <2>. QED BY <1>2, <2>1
<1>. QED BY <1>4, <1>5 DEF Got

\* What a reader has passed is not among what is left.
LEMMA LeftOver ==
  ASSUME NEW p \in Slot, NEW b \in Slot, NEW n, n = RingDelta(p, b, R), NEW m \in 0 .. n
  PROVE  LET c == RingIncr(b, m, R)
         IN  /\ c \in Slot /\ RingDelta(p, c, R) = n - m /\ n \in 0 .. R - 1
             /\ \A s \in Slot : RingDelta(s, c, R) < RingDelta(p, c, R) =>
                  /\ RingDelta(s, b, R) < n /\ ~(RingDelta(s, b, R) < m)
<1>. USE C2hAssumption DEF Slot
<1>1. n \in 0 .. R - 1 /\ m \in 0 .. R - 1
  BY RingPlaces
<1>2. PICK c \in Slot : c = RingIncr(b, m, R)
  BY <1>1, RingSteps
<1>3. RingDelta(p, c, R) = n - m
  BY <1>1, <1>2, RingMoves
<1>4. RingDelta(c, b, R) = m
  BY <1>1, <1>2, RingSteps
<1>5. ASSUME NEW s \in Slot, RingDelta(s, c, R) < RingDelta(p, c, R)
      PROVE  RingDelta(s, b, R) < n /\ ~(RingDelta(s, b, R) < m)
  <2>1. RingDelta(s, c, R) \in 0 .. R - 1
    BY RingPlaces
  <2>2. RingDelta(s, b, R) = RingDelta(c, b, R) + RingDelta(s, c, R)
    <3>1. RingDelta(c, b, R) + RingDelta(s, c, R) < R
      BY <1>1, <1>3, <1>4, <1>5, <2>1
    <3>. QED BY <3>1, RingSums
  <2>. QED BY <1>1, <1>3, <1>4, <1>5, <2>1, <2>2
<1>. QED BY <1>1, <1>2, <1>3, <1>5

\* A read leaves the rest of the stream readable.
ReadDone(d, r, p, b, left, refill, unit) ==
    /\ Same(d, r, ReadFields \union {"avail", "valid", "pendEmpty"})
    /\ ~refill => Same(d, r, ReadFields)
    /\ Streamed(r, p, r.pidxPend, unit)
    /\ \E m \in 0 .. RingDelta(p, b, R) :
         /\ HasRead(d, r, left, refill, m)
         /\ r.pidxPend \in Slot /\ RingDelta(p, r.pidxPend, R) = RingDelta(p, b, R) - m

LEMMA ReadExact ==
  ASSUME FALSE \in Handlers, NEW d, DOMAIN d = DrvFields, NEW p, p = d.pidx, NEW a, NEW b \in Slot, b = d.pidxPend,
         BuffersRight(d, p, a), HandlersWhole(d, p, a), RingDelta(p, b, R) <= RingDelta(p, a, R),
         NEW unit \in Nat \ {0}, Streamed(d, p, b, unit),
         NEW left \in Nat, Multiple(left, unit), NEW refill \in BOOLEAN, NEW r, r = Read(d, left, refill)
  PROVE  ReadDone(d, r, p, b, left, refill, unit)
<1>. USE C2hAssumption
<1>0. PICK n \in 0 .. R - 1 : n = RingDelta(p, b, R) /\ \E A : Placed(d, b, n, A, unit)
  BY StreamPlaced
<1>1. PICK A : n = RingDelta(p, b, R) /\ Placed(d, b, n, A, unit)
  BY <1>0
<1>2. /\ p \in Slot /\ DOMAIN d.len = Slot /\ DOMAIN d.offset = Slot
      /\ \A s \in Slot : d.offset[s] = 0 /\ (RingDelta(s, a, R) < RingDelta(p, a, R) \/ d.len[s] = BufSz)
  BY DEF BuffersRight, HandlersWhole
<1>3. /\ A \in [0 .. n -> Int] /\ A[0] = d.taken /\ A[n] = d.taken + d.dlen
      /\ \A k \in 0 .. n : A[k] = Mark(RingIncr(b, k, R))
      /\ \A k \in 0 .. n - 1 : A[k] <= A[k + 1]
  BY <1>1 DEF Placed
<1>4. d.taken \in Nat /\ d.dlen \in Nat /\ Multiple(d.taken, unit) /\ Multiple(d.dlen, unit) /\ Got(d)
      /\ Mark(p) = d.taken + d.dlen
      /\ \A s \in Slot : RingDelta(s, b, R) < n => Buffer(d, s, unit)
  BY <1>1 DEF Streamed
<1>a. PICK m \in 0 .. n, copied \in Nat :
           /\ Gets(n, A, left, m, copied)
           /\ r = Taking(GivenBack(d, b, m, refill), RingIncr(b, m, R), A[0], copied)
  <2>1. n \in Nat /\ n = Readable(d) /\ b = d.pidxPend
    BY <1>1 DEF Readable
  <2>2. Reads(d, r, b, n, A, left, refill)
    BY <1>1, <1>4, <2>1, ReadMeans
  <2>. QED BY <2>2 DEF Reads
<1>. PICK from \in Int : from = A[0]
  BY <1>3
<1>5. /\ A[m] = A[0] + copied /\ copied <= left /\ (copied = left \/ m = n)
      /\ r = Taking(GivenBack(d, b, m, refill), RingIncr(b, m, R), from, copied)
  BY <1>a DEF Gets
<1>6. PICK c \in Slot : c = RingIncr(b, m, R)
  BY <1>1, <1>2, LeftOver
<1>7. /\ RingDelta(p, c, R) = n - m
      /\ \A s \in Slot : RingDelta(s, c, R) < RingDelta(p, c, R) =>
           RingDelta(s, b, R) < n /\ ~(RingDelta(s, b, R) < m)
  BY <1>1, <1>2, <1>6, LeftOver
<1>b. PICK e : e = GivenBack(d, b, m, refill)
  OBVIOUS
<1>8. e = IF refill /\ m > 0 THEN Refill(d, b, m, TRUE) ELSE d
  BY <1>b DEF GivenBack
<1>9. /\ Same(d, e, {"avail", "valid", "len", "offset", "pendEmpty"})
      /\ ~refill => e = d
      /\ DOMAIN e.len = Slot /\ DOMAIN e.offset = Slot
      /\ \A s \in Slot :
            /\ e.offset[s] = 0
            /\ e.len[s] = IF refill /\ RingDelta(s, b, R) < m THEN BufSz ELSE d.len[s]
      /\ d.pendEmpty => e.pendEmpty
  <2>1. CASE refill /\ m > 0
    <3>1. PICK yes \in BOOLEAN : yes = TRUE
      OBVIOUS
    <3>2. e = Refill(d, b, m, yes)
      BY <1>8, <2>1, <3>1
    <3>3. /\ Same(d, e, {"avail", "valid", "len", "offset", "pendEmpty"})
          /\ DOMAIN e.len = Slot /\ DOMAIN e.offset = Slot
          /\ \A s \in Slot :
                /\ e.len[s] = IF s \in SlotsFrom(b, m) THEN BufSz ELSE d.len[s]
                /\ e.offset[s] = IF s \in SlotsFrom(b, m) /\ ~yes THEN 0 ELSE d.offset[s]
      BY <3>2, RefillDoes
    <3>4. \A s \in Slot : s \in SlotsFrom(b, m) <=> RingDelta(s, b, R) < m
      <4>1. m \in 0 .. R
        OBVIOUS
      <4>. QED BY <4>1, SlotsFromIs
    <3>5. e.pendEmpty = (d.pendEmpty \/ d.list = << >>)
      BY <3>2 DEF Refill, DrvFields
    <3>. QED BY <1>2, <2>1, <3>1, <3>3, <3>4, <3>5
  <2>2. CASE ~(refill /\ m > 0)
    <3>1. e = d
      BY <1>8, <2>2
    <3>2. \A s \in Slot : ~(refill /\ RingDelta(s, b, R) < m)
      <4>. TAKE s \in Slot
      <4>1. RingDelta(s, b, R) \in 0 .. R - 1
        BY RingPlaces DEF Slot
      <4>. QED BY <2>2, <4>1
    <3>. QED BY <1>2, <3>1, <3>2 DEF Same
  <2>. QED BY <2>1, <2>2
<1>10. d.len[c] \in Int
  <2>1. CASE RingDelta(c, b, R) < n
    BY <1>4, <2>1 DEF Buffer
  <2>2. CASE ~(RingDelta(c, b, R) < n)
    <3>1. RingDelta(c, b, R) = m
      <4>1. m \in 0 .. R - 1
        OBVIOUS
      <4>. QED BY <1>6, <4>1, RingSteps, ZenonT(40) DEF Slot
    <3>2. RingDelta(p, c, R) = 0
      BY <1>7, <2>2, <3>1
    <3>3. c = p
      BY <1>2, <3>2, RingPlaces DEF Slot
    <3>4. RingDelta(p, a, R) \in 0 .. R - 1
      BY <1>2, RingPlaces DEF Slot, BuffersRight
    <3>5. d.len[p] = BufSz
      BY <1>2, <3>4
    <3>. QED BY <3>3, <3>5
  <2>. QED BY <2>1, <2>2
<1>11. /\ Same(e, r, ReadFields) /\ r.pidxPend = c
       /\ DOMAIN r.len = Slot /\ DOMAIN r.offset = Slot
       /\ \A s \in Slot : r.len[s] = e.len[s] /\ r.offset[s] = e.offset[s]
       /\ r.dlen = e.dlen - copied /\ r.got = e.got \o Units(from, copied) /\ r.taken = e.taken + copied
  <2>1. DOMAIN e = DrvFields
    BY <1>9 DEF Same
  <2>2. e.len[c] \in Int /\ e.offset[c] = 0
    BY <1>9, <1>10
  <2>3. r = Taking(e, c, from, copied)
    BY <1>5, <1>6, <1>b
  <2>4. DOMAIN e.len = Slot /\ DOMAIN e.offset = Slot
    BY <1>9
  <2>5. Took(e, r, c, from, copied)
    BY <2>1, <2>2, <2>3, <2>4, TakingDoes
  <2>. QED BY <2>5 DEF Took
<1>12. e.dlen = d.dlen /\ e.got = d.got /\ e.taken = d.taken
  BY <1>9 DEF Same, DrvFields
<1>13. /\ Same(d, r, ReadFields \union {"avail", "valid", "pendEmpty"})
       /\ ~refill => Same(d, r, ReadFields)
       /\ r.pendEmpty = e.pendEmpty
  BY <1>9, <1>11 DEF Same, ReadFields, DrvFields
<1>14. copied <= d.dlen /\ (copied = left \/ copied = d.dlen) /\ (copied > 0 => m > 0)
  <2>1. PICK x \in Int, y \in Int, z \in Int : x = A[0] /\ y = A[m] /\ z = A[n] /\ y <= z
    <3>1. 0 \in 0 .. n /\ n \in 0 .. n /\ m <= n /\ n \in Nat
      OBVIOUS
    <3>2. A[m] <= A[n]
      BY <1>3, <3>1, Grows
    <3>. QED BY <1>3, <3>1, <3>2
  <2>2. y = x + copied /\ z = x + d.dlen
    BY <1>3, <1>5, <2>1
  <2>3. m = n => y = z
    BY <2>1
  <2>4. m = 0 => y = x
    BY <2>1
  <2>. QED BY <1>4, <1>5, <2>1, <2>2, <2>3, <2>4
<1>15. HasRead(d, r, left, refill, m)
  <2>1. r.dlen = d.dlen - copied
    BY <1>11, <1>12
  <2>2. /\ r.dlen \in 0 .. d.dlen /\ d.dlen - r.dlen <= left
        /\ d.dlen - r.dlen = left \/ r.dlen = 0
        /\ r.dlen < d.dlen => m > 0
    <3>1. PICK x \in Nat : x = d.dlen
      BY <1>4
    <3>2. r.dlen = x - copied /\ copied <= x /\ copied <= left /\ (copied = left \/ copied = x)
          /\ (copied > 0 => m > 0)
      BY <1>5, <1>14, <2>1, <3>1
    <3>3. PICK y \in Nat : y = r.dlen /\ y = x - copied
      BY <3>2
    <3>4. y \in 0 .. x /\ x - y <= left /\ (x - y = left \/ y = 0) /\ (y < x => m > 0)
      BY <3>2, <3>3
    <3>. QED BY <3>1, <3>3, <3>4
  <2>3. r.pidxPend = RingIncr(d.pidxPend, m, R)
    BY <1>6, <1>11
  <2>4. d.pendEmpty => r.pendEmpty
    BY <1>9, <1>13
  <2>. QED BY <1>9, <1>11, <2>2, <2>3, <2>4 DEF HasRead
<1>16. Streamed(r, p, r.pidxPend, unit)
  <2>1. r.taken = d.taken + copied /\ r.dlen = d.dlen - copied
    BY <1>11, <1>12
  <2>2. r.taken \in Nat /\ r.dlen \in Nat /\ r.taken + r.dlen = d.taken + d.dlen
    BY <1>4, <1>14, <2>1
  <2>3. Mark(c) = r.taken
    <3>1. A[m] = Mark(RingIncr(b, m, R))
      BY <1>3
    <3>. QED BY <1>3, <1>5, <1>6, <2>1, <3>1
  <2>4. ASSUME NEW s \in Slot, RingDelta(s, c, R) < RingDelta(p, c, R) PROVE Buffer(r, s, unit)
    <3>1. RingDelta(s, b, R) < n /\ ~(RingDelta(s, b, R) < m)
      BY <1>7, <2>4
    <3>2. r.len[s] = d.len[s]
      BY <1>9, <1>11, <3>1
    <3>3. Buffer(d, s, unit)
      BY <1>4, <3>1
    <3>. QED BY <3>2, <3>3 DEF Buffer
  <2>5. Multiple(r.taken, unit) /\ Multiple(r.dlen, unit)
    <3>1. PICK x \in Int, y \in Int, k \in Int : x = d.taken /\ y = d.dlen /\ k = copied
      BY <1>4
    <3>2. Multiple(x, unit) /\ Multiple(y, unit) /\ Multiple(k, unit)
      BY <1>4, <1>14, <3>1
    <3>3. Multiple(x + k, unit) /\ Multiple(y - k, unit)
      BY <3>2, Multiples
    <3>. QED BY <2>1, <3>1, <3>3
  <2>6. Got(r)
    <3>1. r.got = d.got \o Units(d.taken, copied)
      <4>1. from = d.taken
        BY <1>3
      <4>. QED BY <1>11, <1>12, <4>1, Zenon
    <3>2. d.taken \in Int
      BY <1>4
    <3>. QED BY <1>4, <2>1, <3>1, <3>2, GotMore
  <2>7. Mark(p) = r.taken + r.dlen
    BY <1>4, <2>2
  <2>. QED BY <1>11, <2>2, <2>3, <2>4, <2>5, <2>6, <2>7 DEF Streamed
<1>17. m \in 0 .. RingDelta(p, b, R) /\ r.pidxPend \in Slot /\ RingDelta(p, r.pidxPend, R) = RingDelta(p, b, R) - m
  BY <1>1, <1>7, <1>11
<1>. QED BY <1>13, <1>15, <1>16, <1>17 DEF ReadDone

-----------------------------------------------------------------------------
(* A packet. *)

\* The length of its j-th buffer, from 0 on.
LenAt(len, j) == IF j = FlNr(len) - 1 THEN LastLen(len) ELSE BufSz

LEMMA NoEndInside ==
  ASSUME LengthsRight, NEW unit, EndsAtBuffers(unit), NEW len \in PktLens, NEW n \in Nat, n = FlNr(len),
         NEW j \in 0 .. n - 1, NEW l, l = LenAt(len, j), NEW from \in Int, Multiple(from, unit)
  PROVE  /\ l \in Nat /\ (j = n - 1 => BufSz * j + l = len)
         /\ \A c \in Int : MayEnd(c, unit) => ~(from + BufSz * j < c /\ c < from + BufSz * j + l)
<1>. USE C2hAssumption
<1>1. LastLen(len) \in 0 .. BufSz /\ BufSz * (n - 1) + LastLen(len) = len /\ len \in Nat
  BY DEF LengthsRight
<1>2. l \in 0 .. BufSz /\ (j = n - 1 => l = LastLen(len))
  BY <1>1 DEF LenAt
<1>3. BufSz * j \in Nat /\ BufSz * j + l <= len
  <2>1. CASE j = n - 1
    BY <1>1, <1>2, <2>1
  <2>2. CASE j # n - 1
    <3>1. PICK k \in Nat : n - 1 = j + 1 + k
      <4>1. n - 1 - (j + 1) \in Nat
        BY <2>2
      <4>. QED BY <4>1
    <3>2. BufSz * (n - 1) = BufSz * j + BufSz + BufSz * k /\ BufSz * j \in Nat /\ BufSz * k \in Nat
      BY <3>1
    <3>. QED BY <1>1, <1>2, <3>2
  <2>. QED BY <2>1, <2>2
<1>4. ASSUME NEW c \in Int, MayEnd(c, unit), from + BufSz * j < c, c < from + BufSz * j + l
      PROVE  FALSE
  <2>1. PICK x \in Int : x = c - from
    OBVIOUS
  <2>2. Multiple(x, unit)
    BY <1>4, <2>1, Multiples DEF EndsAtBuffers, MayEnd
  <2>3. PICK y \in Nat : y = BufSz * j
    BY <1>3
  <2>4. y < x /\ x < y + l
    BY <1>2, <1>4, <2>1, <2>3
  <2>5. x \in 1 .. len - 1
    BY <1>1, <1>2, <1>3, <2>3, <2>4
  <2>6. Multiple(x, BufSz)
    BY <1>4, <2>2, <2>5 DEF EndsAtBuffers, MayEnd
  <2>7. BufSz * j < x /\ x < BufSz * j + BufSz
    BY <1>2, <2>3, <2>4
  <2>. QED BY <2>6, <2>7, NoneInside
<1>5. l \in Nat
  BY <1>2
<1>6. j = n - 1 => BufSz * j + l = len
  BY <1>1, <1>2
<1>. QED BY <1>4, <1>5, <1>6

\* The buffers of a packet, once their lengths are set.
LEMMA PacketBuffers ==
  ASSUME CountsRight, LengthsRight, NEW unit, EndsAtBuffers(unit), NEW len \in PktLens,
         NEW n, n = FlNr(len), NEW p \in Slot, h.cidx \in Slot, n \in 1 .. RingDelta(h.cidx, p, R), Lies(p, len),
         Mark(p) \in Int, Multiple(Mark(p), unit),
         NEW e, \A j \in 0 .. n - 1 : e.len[RingIncr(p, j, R)] = LenAt(len, j)
  PROVE  /\ \A j \in 0 .. n - 1 : /\ Buffer(e, RingIncr(p, j, R), unit)
                                   /\ mem[RingIncr(p, j, R)] = Mark(RingIncr(p, j, R))
                                   /\ RingIncr(RingIncr(p, j, R), 1, R) = RingIncr(p, j + 1, R)
         /\ Mark(RingIncr(p, n, R)) = Mark(p) + len
<1>. USE C2hAssumption
<1>1. PICK y \in Slot : h.cidx = y
  OBVIOUS
<1>2. RingDelta(y, p, R) \in 0 .. R - 1 /\ n \in 1 .. R - 1
  <2>1. RingDelta(y, p, R) \in 0 .. R - 1
    BY RingPlaces DEF Slot
  <2>. QED BY <1>1, <2>1
<1>3. PICK from \in Int : from = Mark(p)
  OBVIOUS
<1>4. /\ \A j \in 0 .. n - 1 : Mark(RingIncr(p, j, R)) = from + BufSz * j
      /\ Mark(RingIncr(p, n, R)) = from + len
  BY <1>3 DEF Lies
<1>5. ASSUME NEW j \in 0 .. n - 1
      PROVE  /\ Buffer(e, RingIncr(p, j, R), unit)
             /\ mem[RingIncr(p, j, R)] = Mark(RingIncr(p, j, R))
             /\ RingIncr(RingIncr(p, j, R), 1, R) = RingIncr(p, j + 1, R)
  <2>1. PICK s \in Slot : s = RingIncr(p, j, R) /\ RingDelta(s, p, R) = j
    <3>1. j \in 0 .. R - 1
      BY <1>2
    <3>. QED BY <3>1, RingSteps DEF Slot
  <2>2. s # y /\ mem[s] = Mark(s)
    BY <1>1, <1>2, <2>1 DEF Mark
  <2>3. RingIncr(s, 1, R) = RingIncr(p, j + 1, R)
    <3>1. j \in Nat /\ 1 \in Nat /\ j + 1 < R
      BY <1>2
    <3>. QED BY <2>1, <3>1, RingTwice
  <2>4. PICK l : l = LenAt(len, j)
    OBVIOUS
  <2>5. /\ l \in Nat /\ (j = n - 1 => BufSz * j + l = len)
        /\ \A c \in Int : MayEnd(c, unit) => ~(from + BufSz * j < c /\ c < from + BufSz * j + l)
    BY <1>2, <1>3, <2>4, NoEndInside
  <2>6. PICK x \in Int : x = from + BufSz * j /\ Mark(s) = x
    BY <1>4, <2>1
  <2>7. Mark(RingIncr(p, j + 1, R)) = x + l
    <3>0. PICK before \in Int : before = BufSz * j
      OBVIOUS
    <3>1. CASE j = n - 1
      <4>1. j + 1 = n /\ len \in Int
        BY <1>2, <3>1
      <4>2. before + l = len /\ x = from + before
        BY <2>5, <2>6, <3>0, <3>1
      <4>3. x + l = from + len
        BY <1>3, <2>5, <2>6, <3>0, <4>1, <4>2
      <4>. QED BY <1>4, <4>1, <4>3
    <3>2. CASE j # n - 1
      <4>1. j + 1 \in 0 .. n - 1 /\ l = BufSz
        BY <1>2, <2>4, <3>2 DEF LenAt
      <4>2. Mark(RingIncr(p, j + 1, R)) = from + BufSz * (j + 1)
        BY <1>4, <4>1
      <4>3. BufSz * (j + 1) = before + BufSz
        BY <3>0
      <4>. QED BY <2>6, <3>0, <4>1, <4>2, <4>3
    <3>. QED BY <3>1, <3>2
  <2>8. e.len[s] = l
    BY <2>1, <2>4
  <2>9. Buffer(e, s, unit)
    <3>1. \A c \in Int : MayEnd(c, unit) => ~(x < c /\ c < x + l)
      BY <2>5, <2>6
    <3>2. Mark(RingIncr(s, 1, R)) = x + l
      BY <2>3, <2>7
    <3>. HIDE DEF Mark
    <3>. QED BY <2>5, <2>6, <2>8, <3>1, <3>2 DEF Buffer
  <2>. QED BY <2>1, <2>2, <2>3, <2>9
<1>. QED BY <1>3, <1>4, <1>5

\* What a handler gets of the n buffers from p on.
Handed(e, p, n) == FlattenSeq([k \in 1 .. n |-> UnitsOf(e, RingIncr(p, k - 1, R))])

Counted(d, e, len, n) ==
    /\ handler => /\ e.dlen = d.dlen /\ e.taken = d.taken + len
                  /\ e.got = d.got \o Handed(e, d.next, n)
    /\ ~handler => e.got = d.got /\ e.taken = d.taken /\ e.dlen = d.dlen + len

LEMMA RcvPktCounts ==
  ASSUME handler \in BOOLEAN, NEW d, DOMAIN d = DrvFields, NEW len, NEW n, n = FlNr(len),
         ~(d.avail < n), NEW e, e = RcvPkt(d, len)
  PROVE  Counted(d, e, len, n)
<1>. DEFINE last  == RingIncr(d.next, n - 1, R)
            after == RingIncr(last, 1, R)
            e0 == [d EXCEPT !.len[last] = LastLen(len)]
            f  == [e0 EXCEPT
                    !.avail = @ - n,
                    !.next = after,
                    !.cmptCidx = RingIncr(@, 1, RC),
                    !.color = IF d.cmptCidx = RC - 1 THEN 1 - @ ELSE @,
                    !.proc = @ + 1]
            flat == FlattenSeq([k \in 1 .. n |-> UnitsOf(f, RingIncr(d.next, k - 1, R))])
            taken == [f EXCEPT !.pidxPend = after, !.got = @ \o flat, !.taken = @ + len]
            kept == [f EXCEPT !.valid = @ \union SlotsFrom(d.next, n),
                       !.overrun = @ \/ SlotsFrom(d.next, n) \intersect d.valid # {},
                       !.dlen = @ + len]
<1>1. e = IF handler THEN taken ELSE kept
  BY DEF RcvPkt
<1>. HIDE DEF last, after
<1>2. Same(d, e0, {"len"})
  BY DEF Same, DrvFields
<1>. HIDE DEF e0
<1>3. Same(e0, f, {"avail", "next", "cmptCidx", "color", "proc"})
  BY <1>2 DEF Same, DrvFields
<1>. HIDE DEF f
<1>. HIDE DEF flat
<1>4. /\ taken.dlen = f.dlen /\ taken.taken = f.taken + len /\ taken.got = f.got \o flat
      /\ taken.len = f.len /\ taken.offset = f.offset
  BY <1>3 DEF Same, DrvFields
<1>5. kept.got = f.got /\ kept.taken = f.taken /\ kept.dlen = f.dlen + len
  BY <1>3 DEF Same, DrvFields
<1>6. f.got = d.got /\ f.taken = d.taken /\ f.dlen = d.dlen
  BY <1>2, <1>3 DEF Same, DrvFields
<1>. HIDE DEF taken, kept
<1>7. CASE handler
  <2>1. e = taken
    BY <1>1, <1>7
  <2>2. \A s : UnitsOf(f, s) = UnitsOf(e, s)
    BY <1>4, <2>1 DEF UnitsOf
  <2>3. flat = Handed(e, d.next, n)
    BY <2>2 DEF flat, Handed
  <2>. QED BY <1>4, <1>6, <1>7, <2>1, <2>3 DEF Counted
<1>8. CASE ~handler
  BY <1>1, <1>5, <1>6, <1>8 DEF Counted
<1>. QED BY <1>7, <1>8

\* What a handler gets of a packet.
Laid(e, p, n, unit) ==
    \A j \in 0 .. n - 1 : /\ Buffer(e, RingIncr(p, j, R), unit)
                          /\ mem[RingIncr(p, j, R)] = Mark(RingIncr(p, j, R))
                          /\ RingIncr(RingIncr(p, j, R), 1, R) = RingIncr(p, j + 1, R)
                          /\ e.offset[RingIncr(p, j, R)] = 0

LEMMA PacketUnits ==
  ASSUME NEW p \in Slot, NEW n \in 1 .. R - 1, NEW e, NEW unit, NEW len \in Nat,
         Laid(e, p, n, unit),
         Mark(p) \in Int, Mark(RingIncr(p, n, R)) = Mark(p) + len
  PROVE  Handed(e, p, n) = Units(Mark(p), len)
<1>. USE C2hAssumption
<1>. DEFINE P(k) == RingIncr(p, k, R)
            A == [k \in 0 .. n |-> Mark(P(k))]
            pieces == [k \in 1 .. n |-> UnitsOf(e, P(k - 1))]
<1>1. P(0) = p
  BY DEF RingIncr, Slot
<1>2. PICK from \in Int : from = Mark(p)
  OBVIOUS
<1>3. ASSUME NEW k \in 0 .. n - 1
      PROVE  /\ Mark(P(k)) \in Int /\ e.len[P(k)] \in Nat
             /\ Mark(P(k + 1)) = Mark(P(k)) + e.len[P(k)]
             /\ mem[P(k)] = Mark(P(k)) /\ e.offset[P(k)] = 0
  <2>1. Buffer(e, P(k), unit) /\ RingIncr(P(k), 1, R) = P(k + 1)
    BY DEF Laid
  <2>2. mem[P(k)] = Mark(P(k)) /\ e.offset[P(k)] = 0
    BY DEF Laid
  <2>. HIDE DEF P
  <2>. QED BY <2>1, <2>2 DEF Buffer
<1>. HIDE DEF Mark
<1>4. Mark(P(n)) = from + len
  BY <1>2
<1>. HIDE DEF P
<1>5. \A k \in 0 .. n : Mark(P(k)) \in Int
  <2>. TAKE k \in 0 .. n
  <2>1. CASE k = n
    BY <1>4, <2>1
  <2>2. CASE k # n
    <3>1. k \in 0 .. n - 1
      BY <2>2
    <3>. QED BY <1>3, <3>1
  <2>. QED BY <2>1, <2>2
<1>6. A \in [0 .. n -> Int] /\ \A k \in 0 .. n : A[k] = Mark(P(k))
  BY <1>5
<1>. HIDE DEF A
<1>7. A[0] = from /\ A[n] = from + len
  <2>1. 0 \in 0 .. n /\ n \in 0 .. n
    OBVIOUS
  <2>. QED BY <1>1, <1>2, <1>4, <1>6, <2>1
<1>8. ASSUME NEW k \in 0 .. n - 1
      PROVE  \E x \in Int, l \in Nat : /\ x = A[k] /\ A[k + 1] = x + l /\ l = e.len[P(k)]
                                       /\ mem[P(k)] = x /\ e.offset[P(k)] = 0
  <2>1. k \in 0 .. n /\ k + 1 \in 0 .. n
    OBVIOUS
  <2>2. A[k] = Mark(P(k)) /\ A[k + 1] = Mark(P(k + 1))
    BY <1>6, <2>1
  <2>. QED BY <1>3, <2>2
<1>9. \A k \in 0 .. n - 1 : A[k] <= A[k + 1]
  <2>. TAKE k \in 0 .. n - 1
  <2>1. PICK x \in Int, l \in Nat : x = A[k] /\ A[k + 1] = x + l
    BY <1>8
  <2>. QED BY <2>1
<1>10. DOMAIN pieces = 1 .. n /\ Len(pieces) = n /\ (n = 0 => pieces = << >>)
  OBVIOUS
<1>11. ASSUME NEW k \in 1 .. n PROVE pieces[k] = Units(A[k - 1], A[k] - A[k - 1])
  <2>1. PICK i \in 0 .. n - 1 : i = k - 1 /\ i + 1 = k
    OBVIOUS
  <2>2. PICK x \in Int, l \in Nat : /\ x = A[i] /\ A[i + 1] = x + l /\ l = e.len[P(i)]
                                   /\ mem[P(i)] = x /\ e.offset[P(i)] = 0
    BY <1>8
  <2>3. pieces[k] = UnitsOf(e, P(i))
    BY <2>1
  <2>4. UnitsOf(e, P(i)) = Units(x, l)
    BY <2>2 DEF UnitsOf, Units
  <2>5. A[k] - A[k - 1] = l /\ A[k - 1] = x
    BY <2>1, <2>2
  <2>. HIDE DEF pieces
  <2>. QED BY <2>3, <2>4, <2>5
<1>. HIDE DEF pieces
<1>12. FlattenSeq(pieces) = Units(A[0], A[n] - A[0])
  <2>1. n \in Nat
    OBVIOUS
  <2>. QED BY <1>6, <1>9, <1>10, <1>11, <2>1, PiecesJoin
<1>13. A[n] - A[0] = len
  BY <1>7
<1>14. FlattenSeq(pieces) = Units(from, len)
  BY <1>7, <1>12, <1>13
<1>. QED BY <1>2, <1>14 DEF Handed, pieces, P

\* A packet goes behind what is readable, or to the handler.
LEMMA RcvPktStreams ==
  ASSUME CountsRight, LengthsRight, NEW unit \in Nat \ {0}, EndsAtBuffers(unit), handler \in BOOLEAN,
         NEW d, DOMAIN d = DrvFields, NEW p, p = d.next, NEW b, BuffersRight(d, p, b), HandlersWhole(d, p, b),
         d.pidxPend = IF handler THEN p ELSE b, Streamed(d, p, d.pidxPend, unit),
         NEW len \in PktLens, NEW n, n = FlNr(len), n \in 1 .. RingDelta(h.cidx, p, R), Lies(p, len),
         NEW e, e = RcvPkt(d, len)
  PROVE  Streamed(e, e.next, e.pidxPend, unit) /\ HandlersWhole(e, e.next, b)
<1>. USE C2hAssumption
<1>1. p \in Slot /\ b \in Slot /\ h.cidx \in Slot /\ len \in Nat
  BY DEF BuffersRight
<1>2. PICK i \in 0 .. R - 1 : i = RingDelta(p, b, R)
  BY <1>1, RingPlaces DEF Slot
<1>. PICK z \in Slot : z = RingIncr(p, n, R)
  <2>1. RingDelta(h.cidx, p, R) \in 0 .. R - 1
    BY <1>1, RingPlaces DEF Slot
  <2>2. n \in 0 .. R - 1
    BY <2>1
  <2>. QED BY <1>1, <2>2, RingSteps DEF Slot
<1>3. /\ n \in 1 .. R - 1 /\ ~(d.avail < n)
      /\ RingIncr(RingIncr(p, n - 1, R), 1, R) = z
      /\ RingIncr(p, n - 1, R) \in Slot
      /\ RingDelta(RingIncr(p, n - 1, R), b, R) = i + n - 1
      /\ RingDelta(z, b, R) = i + n
  <2>1. /\ n \in 1 .. R - 1 /\ n <= d.avail /\ d.avail \in Int
        /\ RingIncr(RingIncr(p, n - 1, R), 1, R) = RingIncr(p, n, R)
        /\ RingIncr(p, n - 1, R) \in Slot
        /\ RingDelta(RingIncr(p, n - 1, R), b, R) = RingDelta(p, b, R) + n - 1
        /\ RingDelta(RingIncr(p, n, R), b, R) = RingDelta(p, b, R) + n
    BY BuffersFound
  <2>. QED BY <1>2, <2>1
<1>. PICK last \in Slot : last = RingIncr(p, n - 1, R)
  BY <1>3
<1>4. i + n < R
  <2>1. RingDelta(z, b, R) \in 0 .. R - 1
    BY <1>1, RingPlaces DEF Slot
  <2>. QED BY <1>3, <2>1
<1>5. /\ Same(d, e, {"avail", "next", "cmptCidx", "color", "proc", "pidxPend", "got",
                     "taken", "len", "valid", "overrun", "dlen"})
      /\ e.len = [d.len EXCEPT ![last] = LastLen(len)] /\ e.next = z
      /\ handler => e.pidxPend = z
      /\ ~handler => e.pidxPend = d.pidxPend
  BY <1>3, RcvPktDoes
<1>6. Counted(d, e, len, n)
  BY <1>3, RcvPktCounts
<1>7. /\ DOMAIN d.len = Slot /\ DOMAIN d.offset = Slot
      /\ \A s \in Slot : d.offset[s] = 0 /\ (RingDelta(s, b, R) < i \/ d.len[s] = BufSz)
  BY <1>2 DEF HandlersWhole
<1>8. /\ DOMAIN e.len = Slot /\ DOMAIN e.offset = Slot /\ e.len[last] = LastLen(len)
      /\ \A s \in Slot : e.offset[s] = 0 /\ (s # last => e.len[s] = d.len[s])
  <2>1. e.offset = d.offset
    BY <1>5 DEF Same, DrvFields
  <2>. QED BY <1>5, <1>7, <2>1
<1>9. ASSUME NEW j \in 0 .. n - 1
      PROVE  /\ RingIncr(p, j, R) \in Slot /\ RingDelta(RingIncr(p, j, R), b, R) = i + j
             /\ e.len[RingIncr(p, j, R)] = LenAt(len, j)
  <2>1. j \in 0 .. R - 1 /\ RingDelta(p, b, R) + j < R
    BY <1>2, <1>3, <1>4
  <2>a. RingIncr(p, j, R) \in Slot
    BY <1>1, <2>1, RingSteps DEF Slot
  <2>b. RingDelta(RingIncr(p, j, R), b, R) = RingDelta(p, b, R) + j
    BY <1>1, <2>1, RingMoves DEF Slot
  <2>2. RingIncr(p, j, R) \in Slot /\ RingDelta(RingIncr(p, j, R), b, R) = i + j
    BY <1>2, <2>a, <2>b
  <2>3. PICK s \in Slot : s = RingIncr(p, j, R)
    BY <2>2
  <2>4. CASE j = n - 1
    <3>1. s = last
      BY <2>3, <2>4
    <3>. QED BY <1>8, <2>2, <2>3, <2>4, <3>1 DEF LenAt
  <2>5. CASE j # n - 1
    <3>1. s # last
      BY <1>2, <1>3, <2>2, <2>3, <2>5
    <3>2. ~(RingDelta(s, b, R) < i)
      BY <1>2, <2>2, <2>3
    <3>3. e.len[s] = BufSz
      BY <1>7, <1>8, <3>1, <3>2
    <3>. QED BY <2>2, <2>3, <2>5, <3>3 DEF LenAt
  <2>. QED BY <2>4, <2>5
<1>10. PICK x \in Nat, y \in Nat : x = d.taken /\ y = d.dlen
  BY DEF Streamed
<1>11. Mark(p) = x + y /\ Multiple(x, unit) /\ Multiple(y, unit) /\ Multiple(len, unit) /\ Got(d)
  BY <1>10 DEF Streamed, EndsAtBuffers
<1>12. Mark(p) \in Int /\ Multiple(Mark(p), unit)
  <2>1. Multiple(x + y, unit)
    BY <1>11, Multiples
  <2>. QED BY <1>11, <2>1
<1>13. /\ \A j \in 0 .. n - 1 : /\ Buffer(e, RingIncr(p, j, R), unit)
                                /\ mem[RingIncr(p, j, R)] = Mark(RingIncr(p, j, R))
                                /\ RingIncr(RingIncr(p, j, R), 1, R) = RingIncr(p, j + 1, R)
       /\ Mark(z) = Mark(p) + len
  BY <1>1, <1>9, <1>12, PacketBuffers
<1>14. HandlersWhole(e, z, b)
  <2>1. ASSUME NEW s \in Slot PROVE RingDelta(s, b, R) < RingDelta(z, b, R) \/ e.len[s] = BufSz
    <3>1. CASE s = last
      BY <1>2, <1>3, <3>1
    <3>2. CASE s # last
      <4>1. RingDelta(s, b, R) \in 0 .. R - 1
        BY <1>1, RingPlaces DEF Slot
      <4>2. RingDelta(s, b, R) < i \/ e.len[s] = BufSz
        BY <1>7, <1>8, <3>2
      <4>. QED BY <1>2, <1>3, <4>1, <4>2
    <3>. QED BY <3>1, <3>2
  <2>. QED BY <1>8, <2>1 DEF HandlersWhole
<1>15. Multiple(x + len, unit) /\ Multiple(y + len, unit) /\ len \in Int /\ x + len \in Nat /\ y + len \in Nat
  <2>1. PICK l \in Int : l = len /\ Multiple(l, unit)
    BY <1>1, <1>11
  <2>2. Multiple(x + l, unit) /\ Multiple(y + l, unit)
    BY <1>11, <2>1, Multiples
  <2>. QED BY <1>1, <2>1, <2>2
<1>. HIDE DEF Mark
<1>16. CASE handler
  <2>1. d.pidxPend = p /\ e.pidxPend = z
    BY <1>5, <1>16
  <2>2. y = 0
    <3>1. Mark(p) = x
      BY <1>10, <2>1 DEF Streamed
    <3>. QED BY <1>11, <3>1
  <2>3. e.dlen = 0 /\ e.taken = x + len
    BY <1>6, <1>10, <1>16, <2>2 DEF Counted
  <2>4. Mark(z) = x + len
    BY <1>11, <1>13, <2>2
  <2>5. \A s \in Slot : ~(RingDelta(s, z, R) < RingDelta(z, z, R))
    <3>. TAKE s \in Slot
    <3>1. RingDelta(s, z, R) \in 0 .. R - 1 /\ RingDelta(z, z, R) = 0
      BY RingPlaces DEF Slot
    <3>. QED BY <3>1
  <2>6. Got(e)
    <3>1. Handed(e, p, n) = Units(Mark(p), len)
      <4>1. Laid(e, p, n, unit)
        BY <1>8, <1>9, <1>13 DEF Laid
      <4>2. Mark(RingIncr(p, n, R)) = Mark(p) + len
        BY <1>13
      <4>. QED BY <1>1, <1>3, <1>12, <4>1, <4>2, PacketUnits
    <3>2. Mark(p) = d.taken
      BY <1>10, <1>11, <2>2
    <3>3. e.got = d.got \o Units(d.taken, len) /\ e.taken = d.taken + len
      BY <1>6, <1>16, <3>1, <3>2 DEF Counted
    <3>4. d.taken \in Int
      BY <1>10
    <3>. QED BY <1>1, <1>11, <3>3, <3>4, GotMore
  <2>7. Multiple(0, unit)
    BY <1>11, <2>2
  <2>8. e.taken \in Nat /\ e.dlen \in Nat /\ Mark(z) = e.taken + e.dlen /\ Mark(z) = e.taken
    BY <1>15, <2>3, <2>4
  <2>9. Streamed(e, z, z, unit)
    BY <1>15, <2>3, <2>5, <2>6, <2>7, <2>8 DEF Streamed
  <2>. QED BY <1>5, <1>14, <2>1, <2>9
<1>17. CASE ~handler
  <2>1. d.pidxPend = b /\ e.pidxPend = b
    BY <1>5, <1>17
  <2>2. e.got = d.got /\ e.taken = x /\ e.dlen = y + len
    BY <1>6, <1>10, <1>17 DEF Counted
  <2>3. Mark(b) = x
    BY <1>10, <2>1 DEF Streamed
  <2>4. Mark(z) = x + (y + len)
    BY <1>11, <1>13
  <2>5. ASSUME NEW s \in Slot, RingDelta(s, b, R) < RingDelta(z, b, R) PROVE Buffer(e, s, unit)
    <3>1. RingDelta(s, b, R) \in 0 .. R - 1
      BY <1>1, RingPlaces DEF Slot
    <3>2. CASE RingDelta(s, b, R) < i
      <4>1. Buffer(d, s, unit)
        BY <1>2, <2>1, <3>2 DEF Streamed
      <4>2. s # last
        BY <1>2, <1>3, <3>2
      <4>3. e.len[s] = d.len[s]
        BY <1>8, <4>2
      <4>. QED BY <4>1, <4>3 DEF Buffer
    <3>3. CASE ~(RingDelta(s, b, R) < i)
      <4>1. RingDelta(s, b, R) = i + RingDelta(s, p, R)
        <5>1. RingDelta(p, b, R) <= RingDelta(s, b, R)
          BY <1>2, <3>1, <3>3
        <5>. QED BY <1>1, <1>2, <5>1, RingSums DEF Slot
      <4>2. RingDelta(s, p, R) \in 0 .. R - 1 /\ RingIncr(p, RingDelta(s, p, R), R) = s
        BY <1>1, RingPlaces DEF Slot
      <4>3. PICK j \in 0 .. n - 1 : s = RingIncr(p, j, R)
        BY <1>2, <1>3, <2>5, <4>1, <4>2
      <4>. QED BY <1>13, <4>3
    <3>. QED BY <3>2, <3>3
  <2>6. Got(e)
    <3>1. e.taken = d.taken
      BY <1>10, <2>2
    <3>. QED BY <1>11, <2>2, <3>1 DEF Got
  <2>7. e.taken \in Nat /\ e.dlen \in Nat /\ Mark(z) = e.taken + e.dlen /\ Mark(b) = e.taken
    BY <1>15, <2>2, <2>3, <2>4
  <2>8. Streamed(e, z, b, unit)
    BY <1>11, <1>15, <2>2, <2>5, <2>6, <2>7 DEF Streamed
  <2>. QED BY <1>5, <1>14, <2>1, <2>8
<1>. QED BY <1>16, <1>17

LEMMA EntryStreams ==
  ASSUME CountsRight, LengthsRight, NEW unit \in Nat \ {0}, EndsAtBuffers(unit), handler \in BOOLEAN,
         NEW d, DOMAIN d = DrvFields, d.stop = FALSE, d.err = FALSE,
         NEW b, DrvRight(d, d.next, b), Shown(d) > 0, HandlersWhole(d, d.next, b),
         d.pidxPend = IF handler THEN d.next ELSE b, Streamed(d, d.next, d.pidxPend, unit),
         NEW e, e = Entry(d)
  PROVE  e.err = TRUE \/ (Streamed(e, e.next, e.pidxPend, unit) /\ HandlersWhole(e, e.next, b))
<1>1. BuffersRight(d, d.next, b) /\ PlacesRight(d) /\ ColoursRight(d) /\ Packets(d, d.next)
  BY DEF DrvRight
<1>. PICK p : p = d.next
  OBVIOUS
<1>2. p \in Slot /\ h.cidx \in Slot /\ h.cmptPidx \in EntryAt
  BY <1>1 DEF BuffersRight, PlacesRight
<1>3. PICK y : /\ y.cmptCidx = RingIncr(d.cmptCidx, 1, RC)
               /\ y.color = IF d.cmptCidx = RC - 1 THEN 1 - d.color ELSE d.color
  <2>. DEFINE y == [cmptCidx |-> RingIncr(d.cmptCidx, 1, RC),
                    color |-> IF d.cmptCidx = RC - 1 THEN 1 - d.color ELSE d.color]
  <2>1. /\ y.cmptCidx = RingIncr(d.cmptCidx, 1, RC)
        /\ y.color = IF d.cmptCidx = RC - 1 THEN 1 - d.color ELSE d.color
    OBVIOUS
  <2>. HIDE DEF y
  <2>. QED BY <2>1
<1>4. Left(d) > 0
  BY <1>1, <1>3, PlacesPassed
<1>. PICK len : len = cmpt[d.cmptCidx].len
  OBVIOUS
<1>. PICK n : n = FlNr(len)
  OBVIOUS
<1>5. n \in 1 .. RingDelta(h.cidx, p, R) /\ cmpt[d.cmptCidx].color = d.color /\ len \in PktLens /\ Lies(p, len)
  BY <1>1, <1>2, <1>3, <1>4, PacketPassed
<1>6. CASE cmpt[d.cmptCidx].err
  <2>1. e = [d EXCEPT !.err = TRUE]
    BY <1>6 DEF Entry
  <2>. QED BY <2>1 DEF DrvFields
<1>7. CASE ~cmpt[d.cmptCidx].err
  <2>1. e = RcvPkt(d, len)
    BY <1>5, <1>7 DEF Entry
  <2>2. Streamed(e, e.next, e.pidxPend, unit) /\ HandlersWhole(e, e.next, b)
    BY <1>1, <1>5, <2>1, RcvPktStreams
  <2>. QED BY <2>2
<1>. QED BY <1>6, <1>7

-----------------------------------------------------------------------------
(* A pass over the completions. *)

\* The requests that wait ask for data, and only while none is readable.
Requests(unit) == {left \in Nat \ {0} : Multiple(left, unit)}
WaitsRight(d, unit) ==
    /\ d.list \in Seq(Requests(unit))
    /\ IF d.list = << >> THEN d.pendEmpty ELSE d.dlen = 0

\* The driver's record between two operations, besides C2hRight.
StreamRight(d, unit) ==
    /\ HandlersWhole(d, d.pidx, d.pidxPend)
    /\ Streamed(d, d.pidx, d.pidxPend, unit)
    /\ WaitsRight(d, unit)
    /\ handler => d.list = << >>

\* And in the loop, where packets were taken in from q.pidx on.
LoopStreams(d, unit) ==
    \/ d.err = TRUE
    \/ /\ HandlersWhole(d, d.next, q.pidxPend)
       /\ Streamed(d, d.next, d.pidxPend, unit)
       /\ d.pendEmpty = q.pendEmpty

\* Nobody has got anything yet.
LEMMA GotNothing == ASSUME NEW d, d.taken \in Nat, d.got = << >> PROVE Got(d)
<1>1. PICK x \in Int, k \in Nat : x = d.taken /\ k = 0
  OBVIOUS
<1>2. x - k \in Int /\ d.taken - k = x - k
  BY <1>1
<1>3. Units(x - k, 0) = << >>
  BY <1>2, UnitsAre
<1>. QED BY <1>1, <1>2, <1>3 DEF Got

LEMMA LoopStreamsStart ==
  ASSUME C2hInv, q.err = FALSE, NEW unit, StreamRight(q, unit), NEW d, d = [q EXCEPT !.next = q.pidx, !.got = << >>]
  PROVE  LoopStreams(d, unit)
<1>1. DOMAIN q = DrvFields
  BY DEF C2hInv
<1>2. /\ d.next = q.pidx /\ d.got = << >> /\ d.len = q.len /\ d.offset = q.offset /\ d.pidxPend = q.pidxPend
      /\ d.taken = q.taken /\ d.dlen = q.dlen /\ d.pendEmpty = q.pendEmpty
  BY <1>1 DEF DrvFields
<1>3. HandlersWhole(q, q.pidx, q.pidxPend) /\ Streamed(q, q.pidx, q.pidxPend, unit)
  BY DEF StreamRight
<1>4. HandlersWhole(d, d.next, q.pidxPend)
  BY <1>2, <1>3 DEF HandlersWhole
<1>5. Got(d)
  BY <1>2, <1>3, GotNothing DEF Streamed
<1>6. Streamed(d, d.next, d.pidxPend, unit)
  BY <1>2, <1>3, <1>5 DEF Streamed, Buffer
<1>. QED BY <1>2, <1>4, <1>6 DEF LoopStreams

LEMMA LoopStreamsOn ==
  ASSUME CountsRight, LengthsRight, NEW unit \in Nat \ {0}, EndsAtBuffers(unit), C2hInv, q.err = FALSE,
         NEW k \in 1 .. Shown(q), NEW d, Looped(k - 1, d), LoopStreams(d, unit), NEW e, e = Entry(d)
  PROVE  LoopStreams(e, unit)
<1>1. handler \in BOOLEAN /\ Shown(q) \in Int
  BY ShownIs DEF C2hInv
<1>2. CASE d.err = TRUE
  <2>1. e = d
    BY <1>2 DEF Entry
  <2>. QED BY <1>2, <2>1 DEF LoopStreams
<1>3. CASE ~(d.err = TRUE)
  <2>1. /\ DOMAIN d = DrvFields /\ d.err = FALSE /\ d.stop = FALSE
        /\ d.pidxPend = IF handler THEN d.next ELSE q.pidxPend
        /\ DrvRight(d, d.next, q.pidxPend) /\ Shown(d) = Shown(q) - (k - 1)
    BY <1>3 DEF Looped
  <2>2. Shown(d) > 0
    BY <1>1, <2>1
  <2>3. HandlersWhole(d, d.next, q.pidxPend) /\ Streamed(d, d.next, d.pidxPend, unit) /\ d.pendEmpty = q.pendEmpty
    BY <1>3 DEF LoopStreams
  <2>4. e.err = TRUE \/ Same(d, e, {"avail", "next", "cmptCidx", "color", "proc", "pidxPend", "got",
                                    "taken", "len", "valid", "overrun", "dlen"})
    <3>1. handler => d.pidxPend = d.next
      BY <2>1
    <3>. QED BY <1>1, <2>1, <2>2, <3>1, EntryDoes
  <2>5. e.err = TRUE \/ (Streamed(e, e.next, e.pidxPend, unit) /\ HandlersWhole(e, e.next, q.pidxPend))
    BY <1>1, <2>1, <2>2, <2>3, EntryStreams
  <2>6. e.err = TRUE \/ e.pendEmpty = d.pendEmpty
    BY <2>4 DEF Same, DrvFields
  <2>. QED BY <2>3, <2>5, <2>6, Zenon DEF LoopStreams
<1>. QED BY <1>2, <1>3

LEMMA ProcessStreams ==
  ASSUME CountsRight, LengthsRight, NEW unit \in Nat \ {0}, EndsAtBuffers(unit), C2hInv, q.err = FALSE,
         StreamRight(q, unit), NEW n \in 1 .. Shown(q)
  PROVE  LoopStreams(Process(n), unit)
<1>1. Shown(q) \in Int
  BY ShownIs
<1>2. PICK g : /\ g[0] = [q EXCEPT !.next = q.pidx, !.got = << >>]
               /\ \A k \in 1 .. n : g[k] = Entry(g[k - 1])
               /\ Process(n) = g[n]
  <2>1. n \in Nat
    OBVIOUS
  <2>. QED BY <2>1, ProcessChain
<1>. DEFINE T == {k \in 0 .. n : Looped(k, g[k]) /\ LoopStreams(g[k], unit)}
<1>3. 0 \in T
  <2>1. PICK d : d = [q EXCEPT !.next = q.pidx, !.got = << >>]
    OBVIOUS
  <2>2. Looped(0, d) /\ LoopStreams(d, unit)
    BY <2>1, LoopStarts, LoopStreamsStart
  <2>3. Looped(0, g[0]) /\ LoopStreams(g[0], unit)
    BY <1>2, <2>1, <2>2, Zenon
  <2>. QED BY <2>3
<1>4. ASSUME NEW k \in 1 .. n, k - 1 \in T
      PROVE  k \in T
  <2>1. /\ Looped(k - 1, g[k - 1]) /\ LoopStreams(g[k - 1], unit) /\ g[k] = Entry(g[k - 1])
        /\ k \in 1 .. Shown(q)
    BY <1>1, <1>2, <1>4
  <2>2. Looped(k, g[k])
    BY <2>1, LoopGoesOn
  <2>3. LoopStreams(g[k], unit)
    BY <2>1, LoopStreamsOn
  <2>. QED BY <2>2, <2>3
<1>5. T = 0 .. n
  <2>. HIDE DEF T
  <2>1. T \subseteq 0 .. n /\ n \in Nat
    BY DEF T
  <2>. QED BY <1>3, <1>4, <2>1, UpTo
<1>. QED BY <1>2, <1>5

LEMMA QueueOps ==
  ASSUME NEW S, NEW l \in Seq(S), l # << >>, NEW x \in S
  PROVE  /\ Len(l) \in Nat /\ Len(l) > 0 /\ Tail(l) \in Seq(S) /\ Len(Tail(l)) = Len(l) - 1
         /\ << x >> \o Tail(l) \in Seq(S) /\ << x >> \o Tail(l) # << >>
<1>1. Len(l) \in Nat /\ Len(l) > 0 /\ Tail(l) \in Seq(S) /\ Len(Tail(l)) = Len(l) - 1
  OBVIOUS
<1>2. PICK t \in Seq(S) : t = Tail(l)
  BY <1>1
<1>3. << x >> \o t \in Seq(S) /\ Len(<< x >> \o t) = 1 + Len(t)
  OBVIOUS
<1>4. Len(<< x >> \o t) # 0
  BY <1>3
<1>5. << x >> \o t # << >>
  BY <1>4
<1>. QED BY <1>1, <1>2, <1>3, <1>5

\* A request that waits is read: it is served, or keeps what it did not get
\* and nothing is readable.
Serves(e, f, p, unit) ==
    \/ f.more = TRUE /\ f.dlen = 0 /\ f.list # << >>
    \/ /\ f.more = FALSE /\ Len(f.list) = Len(e.list) - 1
       /\ RingDelta(p, f.pidxPend, R) < RingDelta(p, e.pidxPend, R)

LEMMA ReadNextStreams ==
  ASSUME FALSE \in Handlers, NEW e, DOMAIN e = DrvFields, NEW p, p = e.pidx, NEW a, BuffersRight(e, p, a), HandlersWhole(e, p, a),
         e.pidxPend \in Slot, RingDelta(p, e.pidxPend, R) <= RingDelta(p, a, R),
         NEW unit \in Nat \ {0}, Streamed(e, p, e.pidxPend, unit),
         e.list \in Seq(Requests(unit)), e.list # << >>, e.more = FALSE,
         NEW left \in Requests(unit), NEW f, f = ReadNext(e, left)
  PROVE  /\ Same(e, f, ReadFields \union {"list", "pendEmpty", "more"})
         /\ f.pidxPend \in Slot /\ RingDelta(p, f.pidxPend, R) <= RingDelta(p, e.pidxPend, R)
         /\ HandlersWhole(f, p, a) /\ Streamed(f, p, f.pidxPend, unit)
         /\ f.list \in Seq(Requests(unit))
         /\ Serves(e, f, p, unit)
<1>. PICK b \in Slot : b = e.pidxPend
  OBVIOUS
<1>. PICK no \in BOOLEAN : no = FALSE
  OBVIOUS
<1>. PICK r : r = Read(e, left, no)
  OBVIOUS
<1>1. f = Served(e, left, r)
  BY DEF ReadNext
<1>2. left \in Nat /\ left > 0 /\ Multiple(left, unit)
  BY DEF Requests
<1>a. ReadDone(e, r, p, b, left, no, unit)
  <2>1. Streamed(e, p, b, unit) /\ RingDelta(p, b, R) <= RingDelta(p, a, R)
    OBVIOUS
  <2>2. left \in Nat /\ Multiple(left, unit)
    BY <1>2
  <2>. QED BY <2>1, <2>2, ReadExact
<1>3. Same(e, r, ReadFields) /\ Streamed(r, p, r.pidxPend, unit)
  BY <1>a DEF ReadDone
<1>4. RingDelta(p, b, R) \in 0 .. R - 1
  BY C2hAssumption, RingPlaces DEF Slot, BuffersRight
<1>5. PICK m \in 0 .. RingDelta(p, b, R) :
        /\ HasRead(e, r, left, no, m)
        /\ r.pidxPend \in Slot /\ RingDelta(p, r.pidxPend, R) = RingDelta(p, b, R) - m
  BY <1>a DEF ReadDone
<1>6. /\ r.list = e.list /\ r.more = FALSE /\ DOMAIN r = DrvFields
  BY <1>3 DEF Same, ReadFields, DrvFields
<1>7. PICK had \in Nat, has \in Nat : had = e.dlen /\ has = r.dlen /\ Multiple(had, unit) /\ Multiple(has, unit)
  BY <1>3 DEF Streamed
<1>8. /\ has <= had /\ had - has <= left /\ (had - has = left \/ has = 0) /\ (has < had => m > 0)
      /\ DOMAIN r.len = Slot /\ DOMAIN r.offset = Slot
      /\ \A s \in Slot : r.offset[s] = 0 /\ r.len[s] = e.len[s]
  BY <1>5, <1>7 DEF HasRead
<1>. PICK rest \in Int : rest = left - (had - has)
  BY <1>2, <1>7
<1>9. f = IF rest = 0 THEN [r EXCEPT !.list = Tail(@), !.pendEmpty = (r.avail = 0)]
          ELSE [r EXCEPT !.list = << rest >> \o Tail(@), !.more = TRUE]
  BY <1>1, <1>7 DEF Served
<1>10. Multiple(rest, unit)
  <2>1. Multiple(had - has, unit) /\ had - has \in Int
    <3>1. PICK i \in Int, j \in Int : i = had /\ j = has /\ Multiple(i, unit) /\ Multiple(j, unit)
      BY <1>7
    <3>2. Multiple(i - j, unit)
      BY <3>1, Multiples
    <3>. QED BY <3>1, <3>2
  <2>2. PICK x \in Int : x = had - has /\ Multiple(x, unit)
    BY <2>1
  <2>3. Multiple(left - x, unit)
    BY <1>2, <2>2, Multiples
  <2>. QED BY <2>2, <2>3
<1>11. /\ Same(r, f, {"list", "pendEmpty", "more"}) /\ f.list \in Seq(Requests(unit)) /\ Serves(e, f, p, unit)
  <2>1. CASE rest = 0
    <3>1. Same(r, f, {"list", "pendEmpty", "more"}) /\ f.list = Tail(r.list) /\ f.more = r.more
          /\ f.pidxPend = r.pidxPend
      BY <1>6, <1>9, <2>1 DEF Same, DrvFields
    <3>2. m > 0
      BY <1>2, <1>7, <1>8, <2>1
    <3>3. RingDelta(p, f.pidxPend, R) < RingDelta(p, e.pidxPend, R)
      BY <1>4, <1>5, <3>1, <3>2
    <3>4. Tail(e.list) \in Seq(Requests(unit)) /\ Len(Tail(e.list)) = Len(e.list) - 1
      BY QueueOps
    <3>5. Serves(e, f, p, unit)
      BY <1>6, <3>1, <3>3, <3>4 DEF Serves
    <3>. QED BY <1>6, <3>1, <3>4, <3>5
  <2>2. CASE rest # 0
    <3>1. Same(r, f, {"list", "pendEmpty", "more"}) /\ f.list = << rest >> \o Tail(r.list) /\ f.more = TRUE
          /\ f.dlen = r.dlen
      BY <1>6, <1>9, <2>2 DEF Same, DrvFields
    <3>2. has = 0 /\ rest > 0
      BY <1>2, <1>7, <1>8, <2>2
    <3>3. rest \in Requests(unit)
      BY <1>10, <3>2 DEF Requests
    <3>4. << rest >> \o Tail(e.list) \in Seq(Requests(unit)) /\ << rest >> \o Tail(e.list) # << >>
      BY <3>3, QueueOps
    <3>5. Serves(e, f, p, unit)
      BY <1>6, <1>7, <3>1, <3>2, <3>4 DEF Serves
    <3>. QED BY <1>6, <3>1, <3>4, <3>5
  <2>. QED BY <2>1, <2>2
<1>12. /\ f.len = r.len /\ f.offset = r.offset /\ f.pidxPend = r.pidxPend /\ f.dlen = r.dlen
       /\ f.taken = r.taken /\ f.got = r.got
  BY <1>11 DEF Same, DrvFields
<1>13. HandlersWhole(f, p, a)
  BY <1>8, <1>12 DEF HandlersWhole
<1>14. Streamed(f, p, f.pidxPend, unit)
  BY <1>3, <1>12 DEF Streamed, Buffer, Got
<1>15. Same(e, f, ReadFields \union {"list", "pendEmpty", "more"})
  BY <1>3, <1>11 DEF Same
<1>16. f.pidxPend \in Slot /\ RingDelta(p, f.pidxPend, R) <= RingDelta(p, e.pidxPend, R)
  BY <1>4, <1>5, <1>12
<1>. QED BY <1>11, <1>13, <1>14, <1>15, <1>16

\* The waiting requests, after k of them.
ReadSome(d, k, e, p, a, unit) ==
    /\ Same(d, e, ReadFields \union {"list", "pendEmpty", "more"})
    /\ e.pidxPend \in Slot /\ RingDelta(p, e.pidxPend, R) <= RingDelta(p, a, R)
    /\ HandlersWhole(e, p, a) /\ Streamed(e, p, e.pidxPend, unit)
    /\ e.list \in Seq(Requests(unit))
    /\ \/ e.more = TRUE /\ e.dlen = 0 /\ e.list # << >>
       \/ /\ e.more = FALSE /\ Len(e.list) = Len(d.list) - k
          /\ IF k = 0 THEN e.pendEmpty = d.pendEmpty
             ELSE RingDelta(p, e.pidxPend, R) < RingDelta(p, a, R)

LEMMA ReadAllStreams ==
  ASSUME FALSE \in Handlers, NEW d, DOMAIN d = DrvFields, NEW p, p = d.pidx, NEW a, a = d.pidxPend, BuffersRight(d, p, a),
         HandlersWhole(d, p, a), NEW unit \in Nat \ {0}, Streamed(d, p, a, unit),
         d.list \in Seq(Requests(unit))
  PROVE  ReadSome(d, Len(d.list), ReadAll(d), p, a, unit)
<1>1. PICK n \in Nat : n = Len(d.list)
  OBVIOUS
<1>2. PICK g : /\ g[0] = [d EXCEPT !.more = FALSE]
               /\ \A k \in 1 .. n : g[k] = ReadNext(g[k - 1], d.list[k])
               /\ ReadAll(d) = g[n]
  BY <1>1, ReadAllChain
<1>3. \A s \in Slot : RingDelta(p, s, R) \in 0 .. R - 1
  BY C2hAssumption, RingPlaces DEF Slot, BuffersRight
<1>4. a \in Slot /\ p \in Slot
  BY DEF BuffersRight
<1>. DEFINE T == {k \in 0 .. n : ReadSome(d, k, g[k], p, a, unit)}
<1>5. 0 \in T
  <2>1. PICK e : e = [d EXCEPT !.more = FALSE]
    OBVIOUS
  <2>2. Same(d, e, {"more"}) /\ e.more = FALSE
    BY <2>1 DEF Same, DrvFields
  <2>3. /\ e.pidxPend = a /\ e.len = d.len /\ e.offset = d.offset /\ e.taken = d.taken /\ e.dlen = d.dlen
        /\ e.got = d.got /\ e.list = d.list /\ e.pendEmpty = d.pendEmpty
    BY <2>2 DEF Same, DrvFields
  <2>4. HandlersWhole(e, p, a) /\ Streamed(e, p, a, unit)
    BY <2>3 DEF HandlersWhole, Streamed, Buffer, Got
  <2>5. Same(d, e, ReadFields \union {"list", "pendEmpty", "more"})
    BY <2>2 DEF Same
  <2>6. Len(e.list) = Len(d.list) - 0 /\ RingDelta(p, a, R) <= RingDelta(p, a, R)
    BY <1>1, <1>3, <1>4, <2>3
  <2>7. ReadSome(d, 0, e, p, a, unit)
    BY <1>4, <2>2, <2>3, <2>4, <2>5, <2>6 DEF ReadSome
  <2>8. ReadSome(d, 0, g[0], p, a, unit)
    BY <1>2, <2>1, <2>7, Zenon
  <2>. QED BY <2>8
<1>6. ASSUME NEW k \in 1 .. n, k - 1 \in T
      PROVE  k \in T
  <2>1. PICK e : e = g[k - 1]
    OBVIOUS
  <2>2. PICK f : f = ReadNext(e, d.list[k]) /\ f = g[k]
    BY <1>2, <2>1
  <2>3. ReadSome(d, k - 1, e, p, a, unit)
    BY <1>6, <2>1
  <2>4. PICK left \in Requests(unit) : left = d.list[k]
    BY <1>1
  <2>5. /\ Same(d, e, ReadFields \union {"list", "pendEmpty", "more"})
        /\ e.pidxPend \in Slot /\ RingDelta(p, e.pidxPend, R) <= RingDelta(p, a, R)
        /\ HandlersWhole(e, p, a) /\ Streamed(e, p, e.pidxPend, unit)
        /\ e.list \in Seq(Requests(unit))
    BY <2>3 DEF ReadSome
  <2>6. /\ DOMAIN e = DrvFields /\ e.pidx = p /\ e.avail = d.avail /\ e.valid = d.valid
        /\ e.overrun = d.overrun
    BY <2>5 DEF Same, ReadFields, DrvFields
  <2>7. BuffersRight(e, p, a)
    BY <2>6 DEF BuffersRight
  <2>8. CASE e.more = TRUE
    <3>1. f = e
      BY <2>2, <2>8 DEF ReadNext
    <3>2. e.dlen = 0 /\ e.list # << >>
      BY <2>3, <2>8 DEF ReadSome
    <3>3. ReadSome(d, k, f, p, a, unit)
      BY <2>5, <2>8, <3>1, <3>2 DEF ReadSome
    <3>. QED BY <2>2, <3>3
  <2>9. CASE ~(e.more = TRUE)
    <3>1. e.more = FALSE /\ Len(e.list) = n - (k - 1)
      BY <1>1, <2>3, <2>9 DEF ReadSome
    <3>2. e.list # << >>
      BY <3>1
    <3>3. f = ReadNext(e, left)
      BY <2>2, <2>4
    <3>4. /\ Same(e, f, ReadFields \union {"list", "pendEmpty", "more"})
          /\ f.pidxPend \in Slot /\ RingDelta(p, f.pidxPend, R) <= RingDelta(p, e.pidxPend, R)
          /\ HandlersWhole(f, p, a) /\ Streamed(f, p, f.pidxPend, unit)
          /\ f.list \in Seq(Requests(unit))
          /\ Serves(e, f, p, unit)
      BY <2>5, <2>6, <2>7, <3>1, <3>2, <3>3, ReadNextStreams
    <3>5. PICK x \in Int, y \in Int, z \in Int :
            x = RingDelta(p, f.pidxPend, R) /\ y = RingDelta(p, e.pidxPend, R) /\ z = RingDelta(p, a, R)
      BY <1>3, <1>4, <2>5, <3>4
    <3>6. x <= y /\ y <= z
      BY <2>5, <3>4, <3>5
    <3>7. Same(d, f, ReadFields \union {"list", "pendEmpty", "more"})
      BY <2>5, <3>4 DEF Same
    <3>8. \/ f.more = TRUE /\ f.dlen = 0 /\ f.list # << >>
          \/ f.more = FALSE /\ Len(f.list) = Len(d.list) - k /\ x < y
      BY <1>1, <3>1, <3>4, <3>5, SMTT(30) DEF Serves
    <3>9. k # 0
      OBVIOUS
    <3>10. x <= z /\ (x < y => x < z)
      BY <3>6
    <3>11. ReadSome(d, k, f, p, a, unit)
      BY <3>4, <3>5, <3>7, <3>8, <3>9, <3>10 DEF ReadSome
    <3>. QED BY <2>2, <3>11
  <2>. QED BY <2>8, <2>9
<1>7. T = 0 .. n
  <2>. HIDE DEF T
  <2>1. T \subseteq 0 .. n
    BY DEF T
  <2>. QED BY <1>5, <1>6, <2>1, UpTo
<1>8. n \in 0 .. n
  BY <1>1
<1>9. ReadSome(d, n, g[n], p, a, unit)
  BY <1>7, <1>8
<1>. QED BY <1>1, <1>2, <1>9

\* Buffers that were read are whole again, the others hold what they did.
LEMMA GiveBackStreams ==
  ASSUME handler \in BOOLEAN, NEW d, DOMAIN d = DrvFields, NEW p \in Slot, NEW a \in Slot, a = q.pidxPend,
         NEW c \in Slot, c = d.pidxPend, RingDelta(p, c, R) <= RingDelta(p, a, R), HandlersWhole(d, p, a),
         NEW unit, Streamed(d, p, c, unit), NEW e, e = GiveBack(d)
  PROVE  /\ Same(d, e, {"avail", "valid", "len", "offset", "pendEmpty", "pidxInfo"})
         /\ HandlersWhole(e, p, c) /\ Streamed(e, p, c, unit)
         /\ d.pendEmpty => e.pendEmpty
         /\ RingDelta(p, c, R) < RingDelta(p, a, R) /\ d.list = << >> => e.pendEmpty
<1>. USE C2hAssumption
<1>. PICK n \in 0 .. R - 1 : n = RingDelta(c, a, R)
  BY RingPlaces DEF Slot
<1>1. CASE n = 0
  <2>1. e = d
    BY <1>1 DEF GiveBack
  <2>2. c = a
    <3>1. RingDelta(c, a, R) = 0 => c = a
      BY RingPlaces DEF Slot
    <3>. QED BY <1>1, <3>1
  <2>3. RingDelta(p, a, R) \in 0 .. R - 1
    BY RingPlaces DEF Slot
  <2>. QED BY <2>1, <2>2, <2>3 DEF Same
<1>2. CASE n # 0
  <2>a. PICK recycle \in BOOLEAN : recycle = ~handler
    OBVIOUS
  <2>b. PICK r : r = Refill(d, a, n, recycle)
    OBVIOUS
  <2>1. e = [r EXCEPT !.pidxInfo = RingDecr(c, 1, R)]
    BY <1>2, <2>a, <2>b DEF GiveBack
  <2>2. /\ Same(d, r, {"avail", "valid", "len", "offset", "pendEmpty"})
        /\ DOMAIN r.len = Slot /\ DOMAIN r.offset = Slot
        /\ \A s \in Slot :
              /\ r.len[s] = IF s \in SlotsFrom(a, n) THEN BufSz ELSE d.len[s]
              /\ r.offset[s] = IF s \in SlotsFrom(a, n) /\ ~recycle THEN 0 ELSE d.offset[s]
    BY <2>b, RefillDoes
  <2>3. r.pendEmpty = (d.pendEmpty \/ d.list = << >>)
    BY <2>b DEF Refill, DrvFields
  <2>4. Same(r, e, {"pidxInfo"})
    BY <2>1, <2>2 DEF Same, DrvFields
  <2>5. Same(d, e, {"avail", "valid", "len", "offset", "pendEmpty", "pidxInfo"})
    BY <2>2, <2>4 DEF Same
  <2>6. e.len = r.len /\ e.offset = r.offset /\ e.pendEmpty = r.pendEmpty
    BY <2>4 DEF Same, DrvFields
  <2>7. e.taken = d.taken /\ e.dlen = d.dlen /\ e.got = d.got
    BY <2>5 DEF Same, DrvFields
  <2>8. \A s \in Slot : s \in SlotsFrom(a, n) <=> RingDelta(s, a, R) < n
    <3>1. n \in 0 .. R
      OBVIOUS
    <3>. QED BY <3>1, SlotsFromIs
  <2>9. \A s \in Slot : d.offset[s] = 0 /\ (RingDelta(s, a, R) < RingDelta(p, a, R) \/ d.len[s] = BufSz)
    BY DEF HandlersWhole
  <2>10. \A s \in Slot : e.offset[s] = 0 /\ e.len[s] = IF RingDelta(s, a, R) < n THEN BufSz ELSE d.len[s]
    BY <2>2, <2>6, <2>8, <2>9
  <2>11. RingDelta(p, a, R) = n + RingDelta(p, c, R)
    BY DEF RingDelta, Slot
  <2>12. /\ RingDelta(p, a, R) \in 0 .. R - 1 /\ RingDelta(p, c, R) \in 0 .. R - 1
    BY RingPlaces DEF Slot
  <2>13. HandlersWhole(e, p, c)
    <3>1. ASSUME NEW s \in Slot, ~(RingDelta(s, c, R) < RingDelta(p, c, R)) PROVE e.len[s] = BufSz
      <4>1. RingDelta(s, a, R) \in 0 .. R - 1 /\ RingDelta(s, c, R) \in 0 .. R - 1
        BY RingPlaces DEF Slot
      <4>2. CASE RingDelta(s, a, R) < n
        BY <2>10, <4>2
      <4>3. CASE ~(RingDelta(s, a, R) < n)
        <5>1. RingDelta(s, a, R) = n + RingDelta(s, c, R)
          <6>1. RingDelta(c, a, R) <= RingDelta(s, a, R)
            BY <4>1, <4>3
          <6>. QED BY <6>1, RingSums DEF Slot
        <5>2. ~(RingDelta(s, a, R) < RingDelta(p, a, R))
          BY <2>11, <2>12, <3>1, <4>1, <5>1
        <5>. QED BY <2>9, <2>10, <4>3, <5>2
      <4>. QED BY <4>2, <4>3
    <3>. QED BY <2>2, <2>6, <2>10, <3>1 DEF HandlersWhole
  <2>14. Streamed(e, p, c, unit)
    <3>1. ASSUME NEW s \in Slot, RingDelta(s, c, R) < RingDelta(p, c, R) PROVE Buffer(e, s, unit)
      <4>1. RingDelta(s, c, R) \in 0 .. R - 1
        BY RingPlaces DEF Slot
      <4>2. RingDelta(s, a, R) = n + RingDelta(s, c, R)
        <5>1. RingDelta(c, a, R) + RingDelta(s, c, R) < R
          BY <2>11, <2>12, <3>1, <4>1
        <5>. QED BY <5>1, RingSums DEF Slot
      <4>3. e.len[s] = d.len[s]
        BY <2>10, <4>1, <4>2
      <4>4. Buffer(d, s, unit)
        BY <3>1 DEF Streamed
      <4>. QED BY <4>3, <4>4 DEF Buffer
    <3>2. Got(e)
      BY <2>7 DEF Streamed, Got
    <3>. QED BY <2>7, <3>1, <3>2 DEF Streamed
  <2>. QED BY <2>3, <2>5, <2>6, <2>13, <2>14
<1>. QED BY <1>1, <1>2

LEMMA FinishStreams ==
  ASSUME handler \in BOOLEAN, handler \in Handlers, NEW d, DOMAIN d = DrvFields, NEW unit \in Nat \ {0},
         d.pidxPend = IF handler THEN d.next ELSE q.pidxPend, BuffersRight(d, d.next, q.pidxPend),
         HandlersWhole(d, d.next, q.pidxPend), Streamed(d, d.next, d.pidxPend, unit),
         d.list \in Seq(Requests(unit)), d.list = << >> => d.pendEmpty, handler => d.list = << >>,
         NEW e, e = Finish(d)
  PROVE  StreamRight(e, unit)
<1>. DEFINE f == [d EXCEPT !.pidx = d.next, !.wrbCidx = d.cmptCidx]
            g == IF handler THEN f ELSE ReadAll(f)
<1>1. e = GiveBack(g)
  BY DEF Finish
<1>2. PICK p \in Slot, a \in Slot : p = d.next /\ a = q.pidxPend
  BY DEF BuffersRight
<1>3. Same(d, f, {"pidx", "wrbCidx"}) /\ f.pidx = p
  BY <1>2 DEF Same, DrvFields
<1>. HIDE DEF f
<1>4. /\ DOMAIN f = DrvFields /\ f.pidxPend = d.pidxPend /\ f.len = d.len /\ f.offset = d.offset
      /\ f.taken = d.taken /\ f.dlen = d.dlen /\ f.got = d.got /\ f.list = d.list /\ f.pendEmpty = d.pendEmpty
      /\ f.avail = d.avail /\ f.valid = d.valid /\ f.overrun = d.overrun
  BY <1>3 DEF Same, DrvFields
<1>5. BuffersRight(f, p, a) /\ HandlersWhole(f, p, a) /\ Streamed(f, p, f.pidxPend, unit)
  BY <1>2, <1>4 DEF BuffersRight, HandlersWhole, Streamed, Buffer, Got
<1>6. /\ RingDelta(p, p, R) = 0 /\ RingDelta(p, a, R) \in 0 .. R - 1
  BY C2hAssumption, RingPlaces DEF Slot
<1>7. /\ DOMAIN g = DrvFields /\ g.pidx = p /\ g.pidxPend \in Slot
      /\ RingDelta(p, g.pidxPend, R) <= RingDelta(p, a, R)
      /\ HandlersWhole(g, p, a) /\ Streamed(g, p, g.pidxPend, unit)
      /\ g.list \in Seq(Requests(unit))
      /\ g.list # << >> => g.dlen = 0
      /\ g.list = << >> => g.pendEmpty \/ RingDelta(p, g.pidxPend, R) < RingDelta(p, a, R)
      /\ handler => g.list = << >>
  <2>1. CASE handler
    <3>1. g = f /\ f.pidxPend = p /\ f.list = << >> /\ f.pendEmpty
      BY <1>2, <1>4, <2>1
    <3>. HIDE DEF g
    <3>2. Streamed(f, p, p, unit) /\ HandlersWhole(f, p, a)
      BY <1>5, <3>1
    <3>3. Streamed(g, p, g.pidxPend, unit) /\ HandlersWhole(g, p, a)
      BY <3>1, <3>2, Zenon
    <3>4. DOMAIN g = DrvFields /\ g.pidx = p /\ g.pidxPend = p /\ g.list = << >> /\ g.pendEmpty
      BY <1>3, <1>4, <3>1
    <3>5. << >> \in Seq(Requests(unit))
      OBVIOUS
    <3>. QED BY <1>6, <3>3, <3>4, <3>5
  <2>2. CASE ~handler
    <3>1. g = ReadAll(f) /\ f.pidxPend = a
      BY <1>2, <1>4, <2>2
    <3>. HIDE DEF g
    <3>2. ReadSome(f, Len(f.list), g, p, a, unit)
      <4>1. FALSE \in Handlers
        BY <2>2
      <4>. QED BY <1>3, <1>4, <1>5, <3>1, <4>1, ReadAllStreams
    <3>3. /\ Same(f, g, ReadFields \union {"list", "pendEmpty", "more"})
          /\ g.pidxPend \in Slot /\ RingDelta(p, g.pidxPend, R) <= RingDelta(p, a, R)
          /\ HandlersWhole(g, p, a) /\ Streamed(g, p, g.pidxPend, unit)
          /\ g.list \in Seq(Requests(unit))
      BY <3>2 DEF ReadSome
    <3>4. PICK n \in Nat : n = Len(f.list)
      BY <1>4
    <3>5. \/ g.more = TRUE /\ g.dlen = 0 /\ g.list # << >>
          \/ /\ g.more = FALSE /\ Len(g.list) = 0
             /\ IF n = 0 THEN g.pendEmpty = f.pendEmpty
                ELSE RingDelta(p, g.pidxPend, R) < RingDelta(p, a, R)
      BY <3>2, <3>4 DEF ReadSome
    <3>6. n = 0 => f.pendEmpty
      <4>1. Len(d.list) = 0 => d.list = << >>
        OBVIOUS
      <4>. QED BY <1>4, <3>4, <4>1
    <3>7. Len(g.list) = 0 => g.list = << >>
      BY <3>3
    <3>8. DOMAIN g = DrvFields /\ g.pidx = p
      BY <1>3, <3>3 DEF Same, ReadFields, DrvFields
    <3>. QED BY <2>2, <3>3, <3>5, <3>6, <3>7, <3>8
  <2>. QED BY <2>1, <2>2
<1>. HIDE DEF g
<1>8. PICK c \in Slot : c = g.pidxPend
  BY <1>7
<1>9. /\ Same(g, e, {"avail", "valid", "len", "offset", "pendEmpty", "pidxInfo"})
      /\ HandlersWhole(e, p, c) /\ Streamed(e, p, c, unit)
      /\ g.pendEmpty => e.pendEmpty
      /\ RingDelta(p, c, R) < RingDelta(p, a, R) /\ g.list = << >> => e.pendEmpty
  <2>1. RingDelta(p, c, R) <= RingDelta(p, a, R) /\ Streamed(g, p, c, unit)
    BY <1>7, <1>8
  <2>. QED BY <1>1, <1>2, <1>7, <1>8, <2>1, GiveBackStreams, ZenonT(40)
<1>10. e.pidx = p /\ e.pidxPend = c /\ e.list = g.list /\ e.dlen = g.dlen
  BY <1>7, <1>8, <1>9 DEF Same, DrvFields
<1>11. WaitsRight(e, unit)
  BY <1>7, <1>8, <1>9, <1>10 DEF WaitsRight
<1>. QED BY <1>7, <1>9, <1>10, <1>11 DEF StreamRight

-----------------------------------------------------------------------------
(* The steps, for the stream. *)

LEMMA StreamOf ==
  ASSUME NEW d, q' = d, NEW unit, StreamRight(d, unit)'
  PROVE  StreamRight(q, unit)'
BY DEF StreamRight, HandlersWhole, Streamed, Buffer, Got, WaitsRight

\* A record keeps its stream while the hardware writes no buffer.
LEMMA StreamPrimed ==
  ASSUME NEW d, q' = d, NEW unit, StreamRight(d, unit), mem' = mem, h'.cidx = h.cidx, h'.units = h.units,
         handler' = handler
  PROVE  StreamRight(q, unit)'
<1>1. ASSUME NEW s PROVE Mark(s)' = Mark(s)
  BY DEF Mark
<1>2. /\ HandlersWhole(d, d.pidx, d.pidxPend) /\ Streamed(d, d.pidx, d.pidxPend, unit)
      /\ WaitsRight(d, unit) /\ (handler => d.list = << >>)
  BY DEF StreamRight
<1>3. \A s : Buffer(d, s, unit) => Buffer(d, s, unit)'
  <2>. TAKE s
  <2>1. Mark(s)' = Mark(s) /\ Mark(RingIncr(s, 1, R))' = Mark(RingIncr(s, 1, R))
    BY <1>1
  <2>. QED BY <2>1 DEF Buffer
<1>4. Streamed(d, d.pidx, d.pidxPend, unit)'
  <2>1. Mark(d.pidx)' = Mark(d.pidx) /\ Mark(d.pidxPend)' = Mark(d.pidxPend)
    BY <1>1
  <2>. HIDE DEF Mark
  <2>. QED BY <1>2, <1>3, <2>1 DEF Streamed, Got
<1>5. StreamRight(d, unit)'
  BY <1>2, <1>4 DEF StreamRight, HandlersWhole, WaitsRight
<1>. QED BY <1>5, StreamOf

\* A pass over the completions.
LEMMA ServiceStreams ==
  ASSUME handler \in Handlers, CountsRight, LengthsRight, NEW unit \in Nat \ {0}, EndsAtBuffers(unit), C2hInv,
         q.err = FALSE => StreamRight(q, unit), NEW budget \in Nat, Service(budget),
         handler' = handler, mem' = mem
  PROVE  (q.err = FALSE => StreamRight(q, unit))'
<1>. USE C2hAssumption
<1>1. /\ DOMAIN q = DrvFields /\ DOMAIN h = HwFields /\ handler \in BOOLEAN /\ q.err \in BOOLEAN
      /\ q.err = FALSE => RecordRight(q) /\ DrvRight(q, q.pidx, q.pidxPend)
  BY Unfolded
<1>. PICK u : u = q
  OBVIOUS
<1>2. CASE q.err = TRUE
  <2>1. q' = u
    BY <1>2 DEF Service
  <2>. QED BY <1>2, <2>1
<1>3. CASE q.err = FALSE
  <2>1. StreamRight(q, unit) /\ DrvRight(q, q.pidx, q.pidxPend)
    BY <1>1, <1>3
  <2>2. PICK c \in EntryAt, s \in EntryAt : q.cmptCidx = c /\ h.status = s
    BY <2>1 DEF DrvRight, PlacesRight
  <2>. DEFINE pend == RingDelta(h.status, q.cmptCidx, RC)
              n == IF budget = 0 THEN pend ELSE Min({budget, pend})
  <2>3. pend = Shown(q) /\ pend \in Nat
    <3>1. RingDelta(s, c, RC) \in 0 .. RC - 1
      BY RingPlaces DEF EntryAt
    <3>. QED BY <2>2, <3>1 DEF Shown
  <2>4. CASE pend = 0
    <3>1. q' = u /\ h' = WriteCidx(h, q.wrbCidx)
      BY <1>3, <2>4 DEF Service
    <3>2. h'.cidx = h.cidx /\ h'.units = h.units
      BY <1>1, <3>1 DEF WriteCidx, HwFields
    <3>3. StreamRight(q, unit)'
      BY <2>1, <3>1, <3>2, StreamPrimed
    <3>. QED BY <3>3
  <2>5. CASE pend # 0
    <3>1. n \in 1 .. Shown(q)
      BY <2>3, <2>5, PassBudget
    <3>2. PICK d : /\ d = Process(n)
                   /\ IF d.err \/ d.proc = 0
                      THEN q' = Clean(d) /\ h' = h
                      ELSE Processed(d, Finish(d))
      BY <1>3, <2>5 DEF Service
    <3>3. Looped(n, d)
      BY <1>3, <3>1, <3>2, ProcessDoes
    <3>4. LoopStreams(d, unit)
      BY <1>3, <2>1, <3>1, <3>2, ProcessStreams
    <3>. HIDE DEF n, pend
    <3>5. CASE d.err = TRUE
      <4>1. q' = Clean(d)
        BY <3>2, <3>5
      <4>2. DOMAIN d = DrvFields
        BY <3>3 DEF Looped
      <4>3. q'.err = TRUE
        BY <3>5, <4>1, <4>2 DEF Clean, DrvFields
      <4>. QED BY <4>3
    <3>6. CASE ~(d.err = TRUE)
      <4>1. /\ DOMAIN d = DrvFields /\ d.err = FALSE /\ d.stop = FALSE /\ d.proc = n
            /\ d.list = q.list /\ d.pidxInfo = q.pidxInfo
            /\ d.pidxPend = IF handler THEN d.next ELSE q.pidxPend
            /\ DrvRight(d, d.next, q.pidxPend)
        BY <3>3, <3>6 DEF Looped
      <4>2. /\ HandlersWhole(d, d.next, q.pidxPend) /\ Streamed(d, d.next, d.pidxPend, unit)
            /\ d.pendEmpty = q.pendEmpty
        BY <3>4, <3>6 DEF LoopStreams
      <4>3. ~(d.err \/ d.proc = 0)
        BY <3>1, <4>1
      <4>4. PICK e : e = Finish(d)
        OBVIOUS
      <4>5. Processed(d, e)
        BY <3>2, <4>3, <4>4
      <4>6. /\ d.list \in Seq(Requests(unit)) /\ (d.list = << >> => d.pendEmpty)
            /\ (handler => d.list = << >>)
        BY <2>1, <4>1, <4>2 DEF StreamRight, WaitsRight
      <4>7. StreamRight(e, unit)
        BY <1>1, <4>1, <4>2, <4>4, <4>6, FinishStreams DEF DrvRight
      <4>8. DOMAIN e = DrvFields
        BY <1>1, <1>3, <4>1, <4>4, FinishDoes DEF RecordRight
      <4>9. PICK f : f = Clean(e)
        OBVIOUS
      <4>10. Same(e, f, {"next", "proc", "stop", "more"})
        BY <4>8, <4>9 DEF Clean, Same, DrvFields
      <4>11. /\ f.pidx = e.pidx /\ f.pidxPend = e.pidxPend /\ f.len = e.len /\ f.offset = e.offset
             /\ f.taken = e.taken /\ f.dlen = e.dlen /\ f.got = e.got /\ f.list = e.list
             /\ f.pendEmpty = e.pendEmpty
        BY <4>10 DEF Same, DrvFields
      <4>12. StreamRight(f, unit)
        BY <4>7, <4>11 DEF StreamRight, HandlersWhole, Streamed, Buffer, Got, WaitsRight
      <4>13. q' = f /\ h'.cidx = h.cidx /\ h'.units = h.units
        BY <1>1, <4>5, <4>9 DEF Processed, WriteCidx, WritePidx, HwFields
      <4>14. StreamRight(q, unit)'
        BY <4>12, <4>13, StreamPrimed
      <4>. QED BY <4>14
    <3>. QED BY <3>5, <3>6
  <2>. QED BY <2>4, <2>5
<1>. QED BY <1>1, <1>2, <1>3

\* What was read in whole buffers and given back is whole again.
Restored(d, r, b, m) ==
    /\ DOMAIN r.len = Slot /\ DOMAIN r.offset = Slot
    /\ \A s \in Slot : /\ r.offset[s] = 0
                       /\ r.len[s] = IF RingDelta(s, b, R) < m THEN BufSz ELSE d.len[s]

LEMMA StillWhole ==
  ASSUME NEW p \in Slot, NEW b \in Slot, NEW d, HandlersWhole(d, p, b), NEW m \in 0 .. RingDelta(p, b, R),
         NEW c \in Slot, c = RingIncr(b, m, R), NEW r, Restored(d, r, b, m)
  PROVE  HandlersWhole(r, p, c)
<1>. USE C2hAssumption DEF Slot
<1>0. /\ DOMAIN r.len = Slot /\ DOMAIN r.offset = Slot
      /\ \A s \in Slot : r.offset[s] = 0
      /\ \A s \in Slot : r.len[s] = IF RingDelta(s, b, R) < m THEN BufSz ELSE d.len[s]
  BY DEF Restored
<1>1. RingDelta(p, b, R) \in 0 .. R - 1 /\ m \in 0 .. R - 1
  BY RingPlaces
<1>2. RingDelta(c, b, R) = m
  BY <1>1, RingSteps
<1>3. RingDelta(p, c, R) = RingDelta(p, b, R) - m
  BY <1>1, RingMoves
<1>4. ASSUME NEW s \in Slot, ~(RingDelta(s, c, R) < RingDelta(p, c, R)) PROVE r.len[s] = BufSz
  <2>0. RingDelta(s, b, R) \in 0 .. R - 1
    BY RingPlaces
  <2>1. RingDelta(s, b, R) \in 0 .. R - 1 /\ RingDelta(s, c, R) \in 0 .. R - 1
    <3>1. RingDelta(s, c, R) \in 0 .. R - 1
      BY RingPlaces
    <3>. QED BY <2>0, <3>1
  <2>2. CASE RingDelta(s, b, R) < m
    BY <1>0, <2>2
  <2>3. CASE ~(RingDelta(s, b, R) < m)
    <3>1. RingDelta(s, b, R) = m + RingDelta(s, c, R)
      <4>1. RingDelta(c, b, R) <= RingDelta(s, b, R)
        BY <1>1, <1>2, <2>1, <2>3
      <4>2. RingDelta(s, b, R) = RingDelta(c, b, R) + RingDelta(s, c, R)
        BY <4>1, RingSums
      <4>. QED BY <1>2, <4>2
    <3>2. ~(RingDelta(s, b, R) < RingDelta(p, b, R))
      BY <1>1, <1>3, <1>4, <2>1, <3>1
    <3>3. d.len[s] = BufSz
      BY <3>2 DEF HandlersWhole
    <3>. QED BY <1>0, <2>3, <3>3
  <2>. QED BY <2>2, <2>3
<1>. QED BY <1>0, <1>4 DEF HandlersWhole

\* A request that was just submitted takes what is readable.
Submitted(d, r, p, left, unit) ==
    /\ DOMAIN r = DrvFields /\ r.pidx = p
    /\ r.dlen \in 0 .. d.dlen /\ d.dlen - r.dlen <= left
    /\ d.dlen - r.dlen = left \/ r.dlen = 0
    /\ d.pendEmpty => r.pendEmpty
    /\ HandlersWhole(r, p, r.pidxPend) /\ Streamed(r, p, r.pidxPend, unit)

LEMMA ReadNow ==
  ASSUME FALSE \in Handlers, NEW d, DOMAIN d = DrvFields, NEW p, p = d.pidx, NEW b, b = d.pidxPend,
         BuffersRight(d, p, b), HandlersWhole(d, p, b), NEW unit \in Nat \ {0}, Streamed(d, p, b, unit),
         NEW left \in Nat, Multiple(left, unit),
         NEW r, r = IF Readable(d) = 0 THEN d ELSE Read(d, left, TRUE)
  PROVE  Submitted(d, r, p, left, unit)
<1>. USE C2hAssumption DEF Slot
<1>1. p \in Slot /\ b \in Slot
  BY DEF BuffersRight
<1>2. RingDelta(p, b, R) \in 0 .. R - 1 /\ Readable(d) = RingDelta(p, b, R)
  BY <1>1, RingPlaces DEF Readable
<1>3. d.dlen \in Nat /\ d.taken \in Nat /\ Mark(b) = d.taken /\ Mark(p) = d.taken + d.dlen
  BY DEF Streamed
<1>4. CASE Readable(d) = 0
  <2>1. RingDelta(p, b, R) = 0 => p = b
    BY <1>1, RingPlaces
  <2>2. p = b /\ r = d
    BY <1>2, <1>4, <2>1
  <2>3. d.dlen = 0
    BY <1>3, <2>2
  <2>a. r.dlen = d.dlen
    BY <2>2
  <2>4. /\ r.dlen \in 0 .. d.dlen /\ d.dlen - r.dlen <= left /\ r.dlen = 0
    <3>1. 0 \in 0 .. 0 /\ 0 - 0 <= left
      OBVIOUS
    <3>. QED BY <2>3, <2>a, <3>1, Zenon
  <2>5. /\ DOMAIN r = DrvFields /\ r.pidx = p /\ r.pidxPend = b /\ r.pendEmpty = d.pendEmpty
    BY <2>2
  <2>6. HandlersWhole(r, p, b) /\ Streamed(r, p, b, unit)
    BY <2>2, Zenon
  <2>. QED BY <2>4, <2>5, <2>6 DEF Submitted
<1>5. CASE Readable(d) # 0
  <2>1. PICK yes \in BOOLEAN : yes = TRUE
    OBVIOUS
  <2>2. r = Read(d, left, yes)
    BY <1>5, <2>1
  <2>3. RingDelta(p, b, R) <= RingDelta(p, b, R)
    BY <1>2
  <2>4. ReadDone(d, r, p, b, left, yes, unit)
    BY <1>1, <2>2, <2>3, ReadExact, ZenonT(40)
  <2>5. /\ Same(d, r, ReadFields \union {"avail", "valid", "pendEmpty"})
        /\ Streamed(r, p, r.pidxPend, unit)
    BY <2>4 DEF ReadDone
  <2>6. DOMAIN r = DrvFields /\ r.pidx = p
    BY <2>5 DEF Same, ReadFields, DrvFields
  <2>7. PICK m \in 0 .. RingDelta(p, b, R) : HasRead(d, r, left, yes, m) /\ r.pidxPend \in Slot
    BY <2>4 DEF ReadDone
  <2>8. PICK c \in Slot : c = r.pidxPend
    BY <2>7
  <2>9. c = RingIncr(b, m, R) /\ Restored(d, r, b, m)
    BY <2>1, <2>7, <2>8 DEF HasRead, Restored
  <2>10. HandlersWhole(r, p, c)
    BY <1>1, <2>9, StillWhole
  <2>11. /\ r.dlen \in 0 .. d.dlen /\ d.dlen - r.dlen <= left
         /\ (d.dlen - r.dlen = left \/ r.dlen = 0)
         /\ (d.pendEmpty => r.pendEmpty)
    BY <2>7 DEF HasRead
  <2>. QED BY <2>5, <2>6, <2>8, <2>10, <2>11 DEF Submitted
<1>. QED BY <1>4, <1>5

LEMMA SubmitReadStreams ==
  ASSUME handler \in Handlers, C2hInv, NEW unit \in Nat \ {0}, EndsAtBuffers(unit), q.err = FALSE => StreamRight(q, unit), SubmitRead
  PROVE  (q.err = FALSE => StreamRight(q, unit))'
<1>. USE C2hAssumption
<1>1. ~handler /\ UNCHANGED << handler, cmpt, mem, napi, missed, rxWork >>
  BY DEF SubmitRead
<1>2. PICK left \in ReqLens :
         LET d    == [q EXCEPT !.got = << >>, !.list = Append(@, left)]
             r    == IF Readable(d) = 0 THEN d ELSE Read(d, left, TRUE)
             rest == left - (d.dlen - r.dlen)
             pidx == RingDecr(r.pidxPend, 1, R)
             e    == IF r.pidxPend = q.pidxPend THEN r ELSE [r EXCEPT !.pidxInfo = pidx]
         IN  /\ q' = IF rest = 0 THEN [e EXCEPT !.list = q.list]
                     ELSE [e EXCEPT !.list = Append(q.list, rest), !.pendEmpty = FALSE]
             /\ h' = IF r.pidxPend = q.pidxPend THEN h ELSE WritePidx(h, pidx)
  BY DEF SubmitRead
<1>a. PICK d : d = [q EXCEPT !.got = << >>, !.list = Append(@, left)]
  OBVIOUS
<1>b. PICK r : r = IF Readable(d) = 0 THEN d ELSE Read(d, left, TRUE)
  OBVIOUS
<1>c. PICK e : e = IF r.pidxPend = q.pidxPend THEN r ELSE [r EXCEPT !.pidxInfo = RingDecr(r.pidxPend, 1, R)]
  OBVIOUS
<1>d. PICK rest : rest = left - (d.dlen - r.dlen)
  OBVIOUS
<1>e. PICK f : f = IF rest = 0 THEN [e EXCEPT !.list = q.list]
                   ELSE [e EXCEPT !.list = Append(q.list, rest), !.pendEmpty = FALSE]
  OBVIOUS
<1>3. q' = f /\ h' = IF r.pidxPend = q.pidxPend THEN h ELSE WritePidx(h, RingDecr(r.pidxPend, 1, R))
  <2>. DEFINE dd    == [q EXCEPT !.got = << >>, !.list = Append(@, left)]
              rr    == IF Readable(dd) = 0 THEN dd ELSE Read(dd, left, TRUE)
              left2 == left - (dd.dlen - rr.dlen)
              ee    == IF rr.pidxPend = q.pidxPend THEN rr
                       ELSE [rr EXCEPT !.pidxInfo = RingDecr(rr.pidxPend, 1, R)]
              ff    == IF left2 = 0 THEN [ee EXCEPT !.list = q.list]
                       ELSE [ee EXCEPT !.list = Append(q.list, left2), !.pendEmpty = FALSE]
  <2>1. q' = ff /\ h' = IF rr.pidxPend = q.pidxPend THEN h ELSE WritePidx(h, RingDecr(rr.pidxPend, 1, R))
    BY <1>2
  <2>2. dd = d
    BY <1>a
  <2>3. rr = r
    BY <1>b, <2>2
  <2>4. left2 = rest
    BY <1>d, <2>2, <2>3
  <2>. HIDE DEF dd, rr
  <2>5. ee = e
    BY <1>c, <2>3
  <2>. HIDE DEF left2, ee
  <2>6. ff = f
    BY <1>e, <2>4, <2>5
  <2>. HIDE DEF ff
  <2>. QED BY <2>1, <2>3, <2>6
<1>4. DOMAIN q = DrvFields /\ DOMAIN h = HwFields /\ q.err \in BOOLEAN
  BY Unfolded
<1>5. h'.cidx = h.cidx /\ h'.units = h.units
  BY <1>3, <1>4 DEF WritePidx, HwFields
<1>6. Same(q, d, {"got", "list"}) /\ d.got = << >>
  BY <1>4, <1>a DEF Same, DrvFields
<1>7. DOMAIN r = DrvFields /\ r.err = q.err
  <2>1. DOMAIN d = DrvFields /\ d.err = q.err
    BY <1>6 DEF Same, DrvFields
  <2>2. PICK yes \in BOOLEAN : yes = TRUE
    OBVIOUS
  <2>3. ASSUME r = Read(d, left, yes) PROVE DOMAIN r = DrvFields /\ r.err = d.err
    BY <2>1, <2>3, ReadKeeps
  <2>. QED BY <1>b, <2>1, <2>2, <2>3
<1>8. Same(r, e, {"pidxInfo"})
  BY <1>7, <1>c DEF Same, DrvFields
<1>9. Same(e, f, {"list", "pendEmpty"})
  BY <1>8, <1>e DEF Same, DrvFields
<1>10. ASSUME q.err = FALSE PROVE StreamRight(f, unit)
  <2>. DEFINE p == q.pidx
              b == q.pidxPend
  <2>1. /\ HandlersWhole(q, p, b) /\ Streamed(q, p, b, unit) /\ WaitsRight(q, unit)
    BY <1>10 DEF StreamRight
  <2>2. BuffersRight(q, p, b)
    BY <1>10, Unfolded DEF DrvRight
  <2>3. /\ DOMAIN d = DrvFields /\ d.pidx = p /\ d.pidxPend = b /\ d.avail = q.avail /\ d.valid = q.valid
        /\ d.overrun = q.overrun /\ d.len = q.len /\ d.offset = q.offset /\ d.taken = q.taken
        /\ d.dlen = q.dlen /\ d.pendEmpty = q.pendEmpty
    BY <1>6 DEF Same, DrvFields
  <2>4. BuffersRight(d, p, b) /\ HandlersWhole(d, p, b)
    BY <2>1, <2>2, <2>3 DEF BuffersRight, HandlersWhole
  <2>5. Got(d)
    BY <1>6, <2>1, <2>3, GotNothing DEF Streamed
  <2>6. Streamed(d, p, b, unit)
    BY <2>1, <2>3, <2>5 DEF Streamed, Buffer
  <2>7. left \in Nat /\ Multiple(left, unit)
    BY DEF EndsAtBuffers
  <2>8. Submitted(d, r, p, left, unit)
    <3>1. FALSE \in Handlers
      BY <1>1, Unfolded
    <3>. HIDE DEF p, b
    <3>. QED BY <1>b, <2>3, <2>4, <2>6, <2>7, <3>1, ReadNow
  <2>9. /\ r.pidx = p /\ r.dlen \in 0 .. d.dlen /\ d.dlen - r.dlen <= left
        /\ d.dlen - r.dlen = left \/ r.dlen = 0
        /\ d.pendEmpty => r.pendEmpty
        /\ HandlersWhole(r, p, r.pidxPend) /\ Streamed(r, p, r.pidxPend, unit)
    BY <2>8 DEF Submitted
  <2>10. /\ f.pidx = p /\ f.pidxPend = r.pidxPend /\ f.len = r.len /\ f.offset = r.offset
         /\ f.taken = r.taken /\ f.dlen = r.dlen /\ f.got = r.got
    BY <1>8, <1>9, <2>9 DEF Same, DrvFields
  <2>11. HandlersWhole(f, p, f.pidxPend)
    BY <2>9, <2>10 DEF HandlersWhole
  <2>12. Streamed(f, p, f.pidxPend, unit)
    BY <2>9, <2>10 DEF Streamed, Buffer, Got
  <2>13. WaitsRight(f, unit)
    <3>1. d.dlen \in Nat /\ Multiple(d.dlen, unit) /\ r.dlen \in Nat /\ Multiple(r.dlen, unit)
      BY <2>6, <2>9 DEF Streamed
    <3>2. DOMAIN e = DrvFields /\ e.pendEmpty = r.pendEmpty
      BY <1>8 DEF Same, DrvFields
    <3>3. PICK l \in Seq(Requests(unit)) : l = q.list
      BY <2>1 DEF WaitsRight
    <3>4. CASE rest = 0
      <4>1. f.list = q.list /\ f.pendEmpty = e.pendEmpty
        BY <1>e, <3>2, <3>4 DEF DrvFields
      <4>2. q.dlen = 0 => f.dlen = 0
        BY <2>3, <2>9, <2>10
      <4>. QED BY <2>1, <2>3, <2>9, <3>2, <4>1, <4>2 DEF WaitsRight
    <3>5. CASE rest # 0
      <4>1. r.dlen = 0 /\ rest \in Nat \ {0}
        BY <1>d, <2>7, <2>9, <3>1, <3>5
      <4>2. Multiple(rest, unit)
        <5>0. PICK x \in Int, y \in Int : x = d.dlen /\ y = r.dlen
          BY <3>1
        <5>1. Multiple(x - y, unit) /\ x - y \in Int
          <6>1. Multiple(x, unit) /\ Multiple(y, unit)
            BY <3>1, <5>0
          <6>. QED BY <6>1, Multiples
        <5>2. Multiple(left - (x - y), unit)
          BY <2>7, <5>1, Multiples
        <5>. QED BY <1>d, <5>0, <5>2
      <4>3. PICK x \in Requests(unit) : x = rest
        BY <4>1, <4>2 DEF Requests
      <4>4. f.list = Append(l, x)
        BY <1>e, <3>2, <3>3, <3>5, <4>3 DEF DrvFields
      <4>5. Append(l, x) \in Seq(Requests(unit)) /\ Append(l, x) # << >>
        <5>1. Append(l, x) \in Seq(Requests(unit)) /\ Len(Append(l, x)) = Len(l) + 1 /\ Len(l) \in Nat
          OBVIOUS
        <5>2. PICK m : m = Append(l, x)
          OBVIOUS
        <5>3. m \in Seq(Requests(unit)) /\ Len(m) # 0
          BY <5>1, <5>2
        <5>4. m # << >>
          BY <5>3
        <5>. QED BY <5>2, <5>3, <5>4
      <4>. QED BY <2>10, <4>1, <4>4, <4>5 DEF WaitsRight
    <3>. QED BY <3>4, <3>5
  <2>. QED BY <1>1, <2>10, <2>11, <2>12, <2>13 DEF StreamRight
<1>11. f.err = q.err
  BY <1>7, <1>8, <1>9 DEF Same, DrvFields
<1>12. ASSUME f.err = FALSE PROVE StreamRight(q, unit)'
  BY <1>1, <1>3, <1>5, <1>10, <1>11, <1>12, StreamPrimed
<1>. QED BY <1>3, <1>12

\* A packet is written behind the stream that is readable.
LEMMA StreamShifted ==
  ASSUME NEW d, NEW p \in Slot, NEW b \in Slot, NEW unit, Streamed(d, p, b, unit),
         \A i \in 0 .. RingDelta(p, b, R) : Mark(RingIncr(b, i, R))' = Mark(RingIncr(b, i, R))
  PROVE  Streamed(d, p, b, unit)'
<1>. USE C2hAssumption DEF Slot
<1>1. PICK n \in 0 .. R - 1 : n = RingDelta(p, b, R)
  BY RingPlaces
<1>2. RingIncr(b, 0, R) = b /\ RingIncr(b, n, R) = p
  BY <1>1, RingSteps, RingBack
<1>3. \A i \in 0 .. n : Mark(RingIncr(b, i, R))' = Mark(RingIncr(b, i, R))
  BY <1>1
<1>4. Mark(b)' = Mark(b) /\ Mark(p)' = Mark(p)
  <2>1. 0 \in 0 .. n /\ n \in 0 .. n
    OBVIOUS
  <2>2. Mark(RingIncr(b, 0, R))' = Mark(RingIncr(b, 0, R)) /\ Mark(RingIncr(b, n, R))' = Mark(RingIncr(b, n, R))
    BY <1>3, <2>1
  <2>. QED BY <1>2, <2>2
<1>5. ASSUME NEW s \in Slot, RingDelta(s, b, R) < RingDelta(p, b, R)
      PROVE  Buffer(d, s, unit)'
  <2>1. PICK i \in 0 .. R - 1 : i = RingDelta(s, b, R)
    BY RingPlaces
  <2>2. RingIncr(b, i, R) = s
    BY <2>1, RingBack
  <2>3. i \in 0 .. n /\ i + 1 \in 0 .. n
    BY <1>1, <1>5, <2>1
  <2>4. RingIncr(RingIncr(b, i, R), 1, R) = RingIncr(b, i + 1, R)
    <3>1. i \in Nat /\ 1 \in Nat /\ i + 1 < R
      BY <1>1, <2>3
    <3>. QED BY <3>1, RingTwice
  <2>5. Mark(RingIncr(b, i, R))' = Mark(RingIncr(b, i, R)) /\ Mark(RingIncr(b, i + 1, R))' = Mark(RingIncr(b, i + 1, R))
    BY <1>3, <2>3
  <2>6. Mark(s)' = Mark(s) /\ Mark(RingIncr(s, 1, R))' = Mark(RingIncr(s, 1, R))
    BY <2>2, <2>4, <2>5
  <2>7. Buffer(d, s, unit)
    BY <1>5 DEF Streamed
  <2>. HIDE DEF Mark
  <2>. QED BY <2>6, <2>7 DEF Buffer
<1>. HIDE DEF Mark
<1>. QED BY <1>4, <1>5 DEF Streamed, Got

LEMMA HwPacketStreams ==
  ASSUME CountsRight, C2hInv, NEW unit, q.err = FALSE => StreamRight(q, unit), HwPacket
  PROVE  (q.err = FALSE => StreamRight(q, unit))'
<1>. USE C2hAssumption
<1>1. PICK len \in PktLens, err \in BOOLEAN :
        /\ RingDelta(h.pidx, h.cidx, R) >= HwBufs(len)
        /\ mem' = [s \in Slot |-> IF s \in SlotsFrom(h.cidx, HwBufs(len))
                                   THEN h.units + BufSz * RingDelta(s, h.cidx, R)
                                   ELSE mem[s]]
        /\ h' = [h EXCEPT !.cidx = RingIncr(@, HwBufs(len), R),
                          !.cmptPidx = RingIncr(@, 1, RC),
                          !.color = IF h.cmptPidx = RC - 1 THEN 1 - @ ELSE @,
                          !.units = @ + len,
                          !.pkts = @ + 1]
  BY DEF HwPacket
<1>2. handler' = handler /\ q' = q /\ h.units \in Nat /\ DOMAIN h = HwFields
  BY Unfolded DEF HwPacket
<1>3. PICK d : d = q
  OBVIOUS
<1>4. ASSUME d.err = FALSE PROVE StreamRight(q, unit)'
  <2>1. StreamRight(d, unit) /\ BuffersRight(d, d.pidx, d.pidxPend)
    BY <1>3, <1>4, Unfolded DEF DrvRight
  <2>2. PICK x \in Slot, y \in Slot, p \in Slot, b \in Slot :
          h.pidx = x /\ h.cidx = y /\ d.pidx = p /\ d.pidxPend = b
    BY <2>1 DEF BuffersRight
  <2>3. PICK n \in Nat : n = HwBufs(len) /\ n >= 1
    BY FlNrPositive DEF CountsRight
  <2>4. PICK i \in 0 .. R - 1, j \in 0 .. R - 1, k \in 0 .. R - 1, l \in 0 .. R - 1 :
          /\ i = RingDelta(p, b, R) /\ j = RingDelta(y, p, R) /\ k = RingDelta(x, p, R)
          /\ l = RingDelta(x, y, R)
    BY RingPlaces DEF Slot
  <2>5. n <= l /\ j <= k /\ k <= R - 1 - i
    BY <1>1, <2>1, <2>2, <2>3, <2>4 DEF BuffersRight
  <2>6. k = j + l
    BY <2>4, <2>5, RingSums DEF Slot
  <2>7. RingDelta(y, b, R) = i + j
    <3>1. i + j < R
      BY <2>5
    <3>. QED BY <2>4, <3>1, RingSums DEF Slot
  <2>8. n \in 1 .. R - 1 /\ RingDelta(y, b, R) + n < R
    BY <2>3, <2>5, <2>6, <2>7
  <2>9. h'.cidx = RingIncr(y, n, R)
    BY <1>1, <1>2, <2>2, <2>3 DEF HwFields
  <2>10. mem' = [s \in Slot |-> IF s \in SlotsFrom(y, n)
                               THEN h.units + BufSz * RingDelta(s, y, R) ELSE mem[s]]
    BY <1>1, <2>2, <2>3
  <2>11. \A m \in 0 .. RingDelta(y, b, R) : Mark(RingIncr(b, m, R))' = Mark(RingIncr(b, m, R))
    BY <1>2, <2>2, <2>8, <2>9, <2>10, MarksStay
  <2>12. \A m \in 0 .. RingDelta(p, b, R) : Mark(RingIncr(b, m, R))' = Mark(RingIncr(b, m, R))
    <3>. TAKE m \in 0 .. RingDelta(p, b, R)
    <3>1. m \in 0 .. RingDelta(y, b, R)
      BY <2>4, <2>7
    <3>. QED BY <2>11, <3>1
  <2>13. Streamed(d, p, b, unit)'
    <3>1. Streamed(d, p, b, unit)
      BY <2>1, <2>2 DEF StreamRight
    <3>. QED BY <2>12, <3>1, StreamShifted
  <2>14. Streamed(d, d.pidx, d.pidxPend, unit)'
    BY <2>2, <2>13 DEF Streamed
  <2>15. StreamRight(d, unit)'
    BY <1>2, <2>1, <2>14 DEF StreamRight, HandlersWhole, WaitsRight
  <2>16. q' = d
    BY <1>2, <1>3
  <2>. QED BY <2>15, <2>16, StreamOf
<1>. QED BY <1>2, <1>3, <1>4

\* The steps of the hardware and of NAPI that move nothing of the stream.
LEMMA OthersStream ==
  ASSUME C2hInv, NEW unit, q.err = FALSE => StreamRight(q, unit),
         HwStatus \/ HwInterrupt \/ NapiUpdate \/ NapiComplete \/ UNCHANGED c2hVars
  PROVE  (q.err = FALSE => StreamRight(q, unit))'
<1>1. PICK d : d = q
  OBVIOUS
<1>2. q' = d /\ handler' = handler /\ mem' = mem
  BY <1>1 DEF HwStatus, HwInterrupt, NapiUpdate, NapiComplete, c2hVars
<1>3. h'.cidx = h.cidx /\ h'.units = h.units
  BY Unfolded
     DEF HwStatus, HwInterrupt, NapiUpdate, NapiComplete, WriteCidx, WritePidx, c2hVars, HwFields
<1>4. ASSUME d.err = FALSE PROVE StreamRight(q, unit)'
  <2>1. StreamRight(d, unit)
    BY <1>1, <1>4
  <2>. QED BY <1>2, <1>3, <2>1, StreamPrimed
<1>. QED BY <1>2, <1>4

\* Nothing has arrived yet.
LEMMA InitStreams == ASSUME C2hInit, NEW unit \in Nat \ {0} PROVE StreamRight(q, unit)
<1>. USE C2hAssumption
<1>1. /\ q.pidx = 0 /\ q.pidxPend = 0 /\ q.offset = [s \in Slot |-> 0] /\ q.len = [s \in Slot |-> BufSz]
      /\ q.dlen = 0 /\ q.taken = 0 /\ q.got = << >> /\ q.list = << >> /\ q.pendEmpty = TRUE
      /\ h.cidx = 0 /\ h.units = 0
  BY DEF C2hInit
<1>2. RingDelta(0, 0, R) = 0 /\ Mark(0) = 0
  BY <1>1 DEF RingDelta, Mark
<1>3. HandlersWhole(q, q.pidx, q.pidxPend)
  BY <1>1 DEF HandlersWhole
<1>4. Multiple(0, unit)
  <2>1. 0 = unit * 0 /\ 0 \in Int
    OBVIOUS
  <2>. QED BY <2>1 DEF Multiple
<1>5. Streamed(q, q.pidx, q.pidxPend, unit)
  <2>1. \A s \in Slot : ~(RingDelta(s, 0, R) < 0)
    BY RingPlaces DEF Slot, RingDelta
  <2>2. Got(q)
    BY <1>1, GotNothing
  <2>. HIDE DEF Mark
  <2>. QED BY <1>1, <1>2, <1>4, <2>1, <2>2 DEF Streamed
<1>6. WaitsRight(q, unit)
  <2>1. << >> \in Seq(Requests(unit))
    OBVIOUS
  <2>. QED BY <1>1, <2>1 DEF WaitsRight
<1>. QED BY <1>1, <1>3, <1>5, <1>6 DEF StreamRight

\* The inductive invariant of the stream.
StreamInv(unit) == C2hInv /\ handler \in Handlers /\ (q.err = FALSE => StreamRight(q, unit))

LEMMA StreamNext ==
  ASSUME CountsRight, LengthsRight, NEW unit, EndsAtBuffers(unit), StreamInv(unit), [C2hNext]_c2hVars
  PROVE  StreamInv(unit)'
<1>1. C2hInv /\ handler \in Handlers /\ (q.err = FALSE => StreamRight(q, unit)) /\ unit \in Nat \ {0}
  BY DEF StreamInv, EndsAtBuffers
<1>2. C2hInv'
  BY <1>1, C2hNextInv
<1>3. (q.err = FALSE => StreamRight(q, unit))'
  <2>1. CASE HwPacket
    BY <1>1, <2>1, HwPacketStreams
  <2>2. CASE HwStatus \/ HwInterrupt \/ NapiUpdate \/ NapiComplete \/ UNCHANGED c2hVars
    BY <1>1, <2>2, OthersStream
  <2>3. CASE IntrWork
    <3>1. Service(0) /\ handler' = handler /\ mem' = mem
      BY <2>3 DEF IntrWork
    <3>. QED BY <1>1, <3>1, ServiceStreams
  <2>4. CASE NapiPoll
    <3>1. Service(Budget) /\ handler' = handler /\ mem' = mem /\ Budget \in Nat
      BY <2>4, C2hAssumption DEF NapiPoll
    <3>. QED BY <1>1, <3>1, ServiceStreams
  <2>5. CASE SubmitRead
    BY <1>1, <2>5, SubmitReadStreams
  <2>6. CASE C2hQuiet
    BY <2>6, <2>2 DEF C2hQuiet
  <2>. QED BY <2>1, <2>2, <2>3, <2>4, <2>5, <2>6 DEF C2hNext
<1>4. handler' = handler
  BY DEF C2hNext, HwPacket, HwStatus, HwInterrupt, IntrWork, NapiPoll, NapiUpdate, NapiComplete,
         SubmitRead, C2hQuiet, c2hVars
<1>. QED BY <1>1, <1>2, <1>3, <1>4 DEF StreamInv

\* With a handler, or when requests end where buffers end, the readable buffers
\* hold the stream from the first unit that no reader has got to the packet that
\* the driver takes in next, every buffer but those is whole, and requests wait
\* only while nothing is readable.
THEOREM StreamInvHolds ==
  ASSUME CountsRight, LengthsRight, NEW unit, EndsAtBuffers(unit)
  PROVE  C2hSpec => []StreamInv(unit)
<1>1. C2hInit => StreamInv(unit)
  <2>. SUFFICES ASSUME C2hInit PROVE StreamInv(unit)
    OBVIOUS
  <2>1. unit \in Nat \ {0} /\ handler \in Handlers
    BY DEF EndsAtBuffers, C2hInit
  <2>. QED BY <2>1, C2hInitInv, InitStreams DEF StreamInv
<1>2. StreamInv(unit) /\ [C2hNext]_c2hVars => StreamInv(unit)'
  BY StreamNext
<1>. QED BY <1>1, <1>2, PTL DEF C2hSpec

\* The invariant's parts, of a queue that has seen no error.
LEMMA StreamParts ==
  ASSUME NEW unit, StreamInv(unit), ~q.err
  PROVE  /\ q.err = FALSE /\ C2hInv
         /\ HandlersWhole(q, q.pidx, q.pidxPend) /\ Streamed(q, q.pidx, q.pidxPend, unit)
         /\ WaitsRight(q, unit) /\ BuffersRight(q, q.pidx, q.pidxPend)
<1>1. C2hInv /\ (q.err = FALSE => StreamRight(q, unit))
  BY DEF StreamInv
<1>2. q.err = FALSE
  BY <1>1, Unfolded
<1>. QED BY <1>1, <1>2, Unfolded DEF StreamRight, DrvRight

\* Readers get the stream: what the readable buffers describe is the stream from
\* the first unit that no reader has got, as much as qdma_queue_c2h_peek
\* reports, and what the last one got came just before.
THEOREM StreamIsRead ==
  ASSUME CountsRight, LengthsRight, NEW unit, EndsAtBuffers(unit)
  PROVE  C2hSpec => []ReadIsStream
<1>1. StreamInv(unit) => ReadIsStream
  <2>. SUFFICES ASSUME StreamInv(unit), ~q.err
                PROVE  /\ Unread(q) = [i \in 1 .. q.dlen |-> q.taken + i - 1]
                       /\ q.got = [i \in 1 .. Len(q.got) |-> q.taken - Len(q.got) + i - 1]
    BY DEF ReadIsStream
  <2>1. PICK p \in Slot, b \in Slot : p = q.pidx /\ b = q.pidxPend
    BY StreamParts DEF BuffersRight
  <2>2. BuffersRight(q, p, b) /\ HandlersWhole(q, p, b) /\ Streamed(q, p, b, unit)
    BY <2>1, StreamParts
  <2>3. RingDelta(p, b, R) \in 0 .. R - 1
    BY C2hAssumption, RingPlaces DEF Slot
  <2>4. PICK n \in 0 .. R - 1 : n = RingDelta(p, b, R)
    BY <2>3
  <2>5. PICK A : Placed(q, b, n, A, unit)
    <3>1. RingDelta(p, b, R) <= RingDelta(p, b, R)
      BY <2>3
    <3>. QED BY <2>2, <2>4, <3>1, StreamPlaced
  <2>6. Readable(q) = n /\ n \in Nat
    BY <2>1, <2>4 DEF Readable
  <2>7. Unread(q) = Units(A[0], A[n] - A[0])
    BY <2>1, <2>5, <2>6, UnreadIs
  <2>8. PICK t \in Nat, l \in Nat : t = q.taken /\ l = q.dlen
    BY <2>2 DEF Streamed
  <2>9. A[0] = t /\ A[n] = t + l
    BY <2>5, <2>8 DEF Placed
  <2>10. Unread(q) = Units(t, l)
    <3>1. t + l - t = l
      OBVIOUS
    <3>. QED BY <2>7, <2>9, <3>1
  <2>11. PICK k \in Nat : q.got = Units(t - k, k)
    BY <2>2, <2>8 DEF Streamed, Got
  <2>12. Len(q.got) = k
    <3>1. t - k \in Int
      OBVIOUS
    <3>. QED BY <2>11, <3>1, UnitsAre
  <2>. QED BY <2>8, <2>10, <2>11, <2>12 DEF Units
<1>. QED BY <1>1, StreamInvHolds, PTL

\* A request waits only while nothing is readable, so requests get the stream in
\* the order they came, and with none waiting a stop of the queue is not held up.
THEOREM RequestsWait ==
  ASSUME CountsRight, LengthsRight, NEW unit, EndsAtBuffers(unit)
  PROVE  C2hSpec => []WaitsForData
<1>1. StreamInv(unit) => WaitsForData
  <2>. SUFFICES ASSUME StreamInv(unit), ~q.err
                PROVE  IF q.list = << >> THEN q.pendEmpty ELSE q.dlen = 0
    BY DEF WaitsForData
  <2>. QED BY StreamParts DEF WaitsRight
<1>. QED BY <1>1, StreamInvHolds, PTL

\* Whoever reads, every buffer that the hardware may fill or has filled unseen
\* is counted as available and is empty and whole.
THEOREM ReadBuffersCovered ==
  ASSUME CountsRight, LengthsRight, NEW unit, EndsAtBuffers(unit)
  PROVE  C2hSpec => []BuffersCovered
<1>1. StreamInv(unit) => BuffersCovered
  <2>. SUFFICES ASSUME StreamInv(unit) PROVE BuffersCovered
    OBVIOUS
  <2>. USE C2hAssumption DEF Slot
  <2>1. BuffersCounted
    BY CountedIs DEF StreamInv
  <2>2. ASSUME ~q.err
        PROVE  \A s \in SlotsFrom(q.pidx, Ahead) : q.len[s] = BufSz /\ q.offset[s] = 0
    <3>1. PICK x \in Slot, p \in Slot, b \in Slot : h.pidx = x /\ p = q.pidx /\ b = q.pidxPend
      BY <2>2, StreamParts DEF BuffersRight
    <3>2. BuffersRight(q, p, b) /\ HandlersWhole(q, p, b)
      BY <2>2, <3>1, StreamParts
    <3>3. PICK i \in 0 .. R - 1, n \in 0 .. R - 1 : i = RingDelta(p, b, R) /\ n = RingDelta(x, p, R)
      BY RingPlaces
    <3>4. Ahead = n /\ n <= R - 1 - i
      BY <3>1, <3>2, <3>3 DEF Ahead, BuffersRight
    <3>5. ASSUME NEW s \in SlotsFrom(p, n) PROVE q.len[s] = BufSz /\ q.offset[s] = 0
      <4>1. s \in Slot /\ RingDelta(s, p, R) < n
        BY SlotsFromIs
      <4>2. RingDelta(s, p, R) \in 0 .. R - 1
        BY <4>1, RingPlaces
      <4>3. RingDelta(s, b, R) = RingDelta(p, b, R) + RingDelta(s, p, R)
        <5>1. RingDelta(p, b, R) + RingDelta(s, p, R) < R
          BY <3>3, <3>4, <4>1, <4>2
        <5>. QED BY <4>1, <5>1, RingSums
      <4>4. ~(RingDelta(s, b, R) < RingDelta(p, b, R))
        BY <3>3, <4>2, <4>3
      <4>. QED BY <3>2, <4>1, <4>4 DEF HandlersWhole
    <3>. QED BY <3>1, <3>4, <3>5
  <2>. QED BY <2>1, <2>2 DEF BuffersCovered, BuffersWhole
<1>. QED BY <1>1, StreamInvHolds, PTL

-----------------------------------------------------------------------------
(* Queues of which the theorems' assumptions are true. *)

\* What division gives, and what is given by division.
LEMMA DivisionIs ==
  ASSUME NEW size \in Nat, size > 0, NEW a \in Nat
  PROVE  a = size * (a \div size) + (a % size)
OBVIOUS

LEMMA Divides ==
  ASSUME NEW size \in Nat, size > 0, NEW a \in Nat
  PROVE  /\ a \div size \in Nat /\ a % size \in 0 .. size - 1
         /\ a = size * (a \div size) + (a % size)
<1>1. a \div size \in Int
  OBVIOUS
<1>2. a \div size >= 0
  OBVIOUS
<1>3. a % size \in 0 .. size - 1
  OBVIOUS
<1>4. a \div size \in Nat
  BY <1>1, <1>2
<1>. QED BY <1>3, <1>4, DivisionIs

LEMMA DividedOnce ==
  ASSUME NEW size \in Nat \ {0}, NEW a \in Nat, NEW k \in Nat, NEW r \in 0 .. size - 1, a = size * k + r
  PROVE  a \div size = k
<1>1. PICK j \in Nat, t \in 0 .. size - 1 : j = a \div size /\ a = size * j + t
  BY Divides
<1>2. size * (j - k) = r - t /\ j - k \in Int
  BY <1>1
<1>3. ~(j < k)
  <2>. SUFFICES ASSUME j < k PROVE FALSE
    OBVIOUS
  <2>1. k - j - 1 \in Nat
    OBVIOUS
  <2>2. size * (k - j - 1) >= 0
    BY <2>1
  <2>3. size * (k - j - 1) = size * k - size * j - size
    OBVIOUS
  <2>. QED BY <1>1, <2>2, <2>3
<1>4. ~(k < j)
  <2>. SUFFICES ASSUME k < j PROVE FALSE
    OBVIOUS
  <2>1. j - k - 1 \in Nat
    OBVIOUS
  <2>2. size * (j - k - 1) >= 0
    BY <2>1
  <2>3. size * (j - k - 1) = size * j - size * k - size
    OBVIOUS
  <2>. QED BY <1>1, <2>2, <2>3
<1>. QED BY <1>1, <1>3, <1>4

LEMMA CeilIs ==
  ASSUME NEW size \in Nat \ {0}, NEW a \in Nat
  PROVE  CeilDiv(a, size) = IF a % size = 0 THEN a \div size ELSE (a \div size) + 1
<1>1. PICK k \in Nat, r \in 0 .. size - 1 : k = a \div size /\ r = a % size /\ a = size * k + r
  BY Divides
<1>2. CASE r = 0
  <2>1. a + size - 1 = size * k + (size - 1) /\ a + size - 1 \in Nat /\ size - 1 \in 0 .. size - 1
    BY <1>1, <1>2
  <2>2. (a + size - 1) \div size = k
    BY <2>1, DividedOnce
  <2>. QED BY <1>1, <1>2, <2>2 DEF CeilDiv
<1>3. CASE r # 0
  <2>1. size * (k + 1) = size * k + size
    OBVIOUS
  <2>2. /\ a + size - 1 = size * (k + 1) + (r - 1) /\ a + size - 1 \in Nat /\ r - 1 \in 0 .. size - 1
        /\ k + 1 \in Nat
    BY <1>1, <1>3, <2>1
  <2>3. (a + size - 1) \div size = k + 1
    BY <2>2, DividedOnce
  <2>. QED BY <1>1, <1>3, <2>3 DEF CeilDiv
<1>. QED BY <1>2, <1>3

\* Where get_next_powof2 leaves the buffer size what it is, as it does with the
\* sizes that are powers of two, get_fl_nr counts right.
LEMMA PowersCountRight == ASSUME PageSz = BufSz PROVE CountsRight /\ LengthsRight
<1>. USE C2hAssumption
<1>. SUFFICES ASSUME NEW len \in PktLens
              PROVE  /\ FlNr(len) = HwBufs(len) /\ LastLen(len) \in 0 .. BufSz
                     /\ BufSz * (FlNr(len) - 1) + LastLen(len) = len
  BY DEF CountsRight, LengthsRight
<1>. HIDE DEF PageSz
<1>1. len \in Nat /\ BufSz \in Nat \ {0}
  OBVIOUS
<1>2. PICK k \in Nat, r \in 0 .. BufSz - 1 : k = len \div BufSz /\ r = len % BufSz /\ len = BufSz * k + r
  BY <1>1, Divides
<1>3. CeilDiv(len, BufSz) = IF r = 0 THEN k ELSE k + 1
  BY <1>1, <1>2, CeilIs
<1>4. CASE len = 0
  <2>1. k = 0 /\ r = 0
    <3>1. 0 = BufSz * 0 + 0 /\ 0 \in 0 .. BufSz - 1
      OBVIOUS
    <3>2. len \div BufSz = 0
      BY <1>1, <1>4, <3>1, DividedOnce
    <3>. QED BY <1>2, <1>4, <3>2
  <2>2. CeilDiv(len, BufSz) = 0
    BY <1>3, <2>1
  <2>3. IsPow2(len)
    BY <1>4 DEF IsPow2
  <2>4. FlNr(len) = 1
    BY <1>4, <2>3 DEF FlNr
  <2>5. LastLen(len) = 0
    BY <1>4 DEF LastLen
  <2>6. HwBufs(len) = Max({1, 0})
    BY <2>2 DEF HwBufs
  <2>7. Max({1, 0}) = 1
    BY DEF Max
  <2>8. BufSz * (1 - 1) + 0 = 0 /\ 0 \in 0 .. BufSz
    OBVIOUS
  <2>. QED BY <1>4, <2>4, <2>5, <2>6, <2>7, <2>8
<1>5. CASE len # 0
  <2>1. FlNr(len) = CeilDiv(len, BufSz)
    BY <1>5 DEF FlNr
  <2>2. LastLen(len) = IF r = 0 THEN BufSz ELSE r
    BY <1>2, <1>5 DEF LastLen
  <2>3. PICK c \in Nat : c = CeilDiv(len, BufSz) /\ c >= 1
    <3>1. CASE r = 0
      <4>1. k # 0
        <5>. SUFFICES ASSUME k = 0 PROVE FALSE
          OBVIOUS
        <5>1. BufSz * 0 = 0
          OBVIOUS
        <5>. QED BY <1>2, <1>5, <3>1, <5>1
      <4>. QED BY <1>3, <3>1, <4>1
    <3>2. CASE r # 0
      BY <1>3, <3>2
    <3>. QED BY <3>1, <3>2
  <2>4. HwBufs(len) = Max({1, c})
    BY <2>3 DEF HwBufs
  <2>5. Max({1, c}) = c
    BY <2>3 DEF Max
  <2>6. BufSz * (c - 1) + LastLen(len) = len
    <3>1. CASE r = 0
      <4>1. BufSz * (k - 1) = BufSz * k - BufSz
        OBVIOUS
      <4>2. c = k /\ LastLen(len) = BufSz
        BY <1>3, <2>2, <2>3, <3>1
      <4>. QED BY <1>2, <3>1, <4>1, <4>2
    <3>2. CASE r # 0
      <4>1. c - 1 = k /\ LastLen(len) = r
        BY <1>3, <2>2, <2>3, <3>2
      <4>. QED BY <1>2, <4>1
    <3>. QED BY <3>1, <3>2
  <2>7. LastLen(len) \in 0 .. BufSz
    BY <1>2, <2>2
  <2>. QED BY <2>1, <2>3, <2>4, <2>5, <2>6, <2>7
<1>. QED BY <1>4, <1>5

\* With a handler there are no requests; those of whole buffers end with one.
LEMMA WhenEndsAtBuffers ==
  /\ Handlers = {TRUE} => EndsAtBuffers(1)
  /\ (\A len \in PktLens \union ReqLens : Multiple(len, BufSz)) => EndsAtBuffers(BufSz)
<1>. USE C2hAssumption
<1>1. ASSUME Handlers = {TRUE} PROVE EndsAtBuffers(1)
  <2>1. ASSUME NEW k \in Nat PROVE Multiple(k, 1)
    <3>1. k = 1 * k /\ k \in Int
      OBVIOUS
    <3>. QED BY <3>1 DEF Multiple
  <2>2. \A c : ~MayEnd(c, 1)
    BY <1>1 DEF MayEnd
  <2>. QED BY <2>1, <2>2 DEF EndsAtBuffers
<1>2. ASSUME \A len \in PktLens \union ReqLens : Multiple(len, BufSz) PROVE EndsAtBuffers(BufSz)
  BY <1>2 DEF EndsAtBuffers, MayEnd
<1>. QED BY <1>1, <1>2

\* The network driver, whose buffers are a power of two in size, gets every
\* packet of the stream in order and once, whatever the packets' lengths.
THEOREM HandlerGetsStream ==
  ASSUME PageSz = BufSz, Handlers = {TRUE}
  PROVE  C2hSpec => []ReadIsStream
BY PowersCountRight, WhenEndsAtBuffers, StreamIsRead

-----------------------------------------------------------------------------
(* The pages behind the buffers. *)

LEMMA LeastIs ==
  ASSUME NEW T, NEW m \in T, T \subseteq Nat, \A k \in T : m <= k
  PROVE  Min(T) = m
<1>. DEFINE Least(x) == \A y \in T : x <= y
<1>1. \E x \in T : Least(x)
  OBVIOUS
<1>2. (CHOOSE x \in T : Least(x)) \in T /\ Least(CHOOSE x \in T : Least(x))
  <2>. HIDE DEF Least
  <2>. QED BY <1>1
<1>3. PICK l \in Nat : l = Min(T) /\ l \in T /\ \A y \in T : l <= y
  BY <1>2 DEF Min
<1>4. l <= m /\ m <= l /\ m \in Nat
  BY <1>3
<1>. QED BY <1>3, <1>4

LEMMA Divided ==
  ASSUME NEW n \in Nat \ {0}, NEW x \in Nat
  PROVE  \E i \in Nat, r \in 0 .. n - 1 : x \div n = i /\ x % n = r /\ x = n * i + r
<1>1. PICK i \in Nat, r \in 0 .. n - 1 : i = x \div n /\ r = x % n /\ x = n * i + r
  BY Divides
<1>. QED BY <1>1

\* Two numbers less than the modulus apart have different remainders.
LEMMA RemaindersDiffer ==
  ASSUME NEW n \in Nat \ {0}, NEW x \in Nat, NEW y \in Nat, x <= y, y < x + n, x % n = y % n
  PROVE  x = y
<1>1. PICK i \in Nat, r \in 0 .. n - 1 : x % n = r /\ x = n * i + r
  BY Divided
<1>2. PICK j \in Nat, t \in 0 .. n - 1 : y % n = t /\ y = n * j + t
  BY Divided
<1>3. t = r /\ n * j - n * i = y - x
  BY <1>1, <1>2
<1>4. ~(j < i)
  <2>. SUFFICES ASSUME j < i PROVE FALSE
    OBVIOUS
  <2>1. n * (i - j - 1) >= 0 /\ n * (i - j - 1) = n * i - n * j - n
    OBVIOUS
  <2>. QED BY <2>1, <1>3
<1>5. ~(i < j)
  <2>. SUFFICES ASSUME i < j PROVE FALSE
    OBVIOUS
  <2>1. n * (j - i - 1) >= 0 /\ n * (j - i - 1) = n * j - n * i - n
    OBVIOUS
  <2>. QED BY <2>1, <1>3
<1>. QED BY <1>3, <1>4, <1>5

LEMMA RemainderIs ==
  ASSUME NEW n \in Nat \ {0}, NEW x \in Nat, NEW k \in Nat, NEW r \in 0 .. n - 1, x = n * k + r
  PROVE  x % n = r
<1>1. x \div n = k
  BY DividedOnce
<1>2. x = n * (x \div n) + (x % n) /\ x % n \in 0 .. n - 1
  BY Divides
<1>3. PICK t \in 0 .. n - 1 : t = x % n
  BY <1>2
<1>. QED BY <1>1, <1>2, <1>3

\* A remainder may be taken in between.
SameAfter(m, n, x, k) == ((x % m) + k) % n = (x + k) % n
LEMMA RemainderOfSum ==
  ASSUME NEW n \in Nat \ {0}, NEW m \in Nat \ {0}, m % n = 0, NEW x \in Nat, NEW k \in Nat
  PROVE  SameAfter(m, n, x, k)
<1>1. PICK i \in Nat, r \in 0 .. m - 1 : x \div m = i /\ x % m = r /\ x = m * i + r
  BY Divided
<1>2. PICK j \in Nat : m = n * j
  <2>1. m \div n \in Nat /\ m = n * (m \div n) + (m % n)
    BY Divides
  <2>2. PICK j \in Nat : j = m \div n
    BY <2>1
  <2>. QED BY <2>1, <2>2
<1>3. PICK l \in Nat, t \in 0 .. n - 1 : (r + k) % n = t /\ r + k = n * l + t
  BY Divided
<1>4. x + k = n * (j * i + l) + t
  <2>1. x = n * j * i + r
    BY <1>1, <1>2
  <2>2. n * j * i = n * (j * i) /\ n * (j * i) + n * l = n * (j * i + l)
    OBVIOUS
  <2>. QED BY <1>3, <2>1, <2>2
<1>5. (x + k) % n = t
  <2>1. j * i + l \in Nat /\ x + k \in Nat
    OBVIOUS
  <2>. QED BY <1>4, <2>1, RemainderIs
<1>. QED BY <1>1, <1>3, <1>5 DEF SameAfter

\* n numbers in a row have every remainder.
LEMMA RemaindersAll ==
  ASSUME NEW n \in Nat \ {0}, NEW x \in Nat, NEW r \in 0 .. n - 1
  PROVE  \E y \in x .. x + n - 1 : y % n = r
<1>1. PICK i \in Nat, t \in 0 .. n - 1 : x = n * i + t
  BY Divided
<1>2. CASE t <= r
  <2>1. n * i + r \in x .. x + n - 1 /\ n * i + r \in Nat
    BY <1>1, <1>2
  <2>. QED BY <2>1, RemainderIs
<1>3. CASE r < t
  <2>1. n * (i + 1) = n * i + n /\ i + 1 \in Nat
    OBVIOUS
  <2>2. n * (i + 1) + r \in x .. x + n - 1 /\ n * (i + 1) + r \in Nat
    BY <1>1, <1>3, <2>1
  <2>. QED BY <2>1, <2>2, RemainderIs
<1>. QED BY <1>2, <1>3

\* The states of a loop that runs n times from s, each among those it may be in.
IsRun(n, J, s, step, g) ==
    /\ g = [i \in 0 .. n |-> g[i]] /\ g[0] = s
    /\ \A i \in 1 .. n : g[i] = step[i][g[i - 1]] /\ g[i] \in J[i]

\* A loop whose body leads from each of its states to one of the next runs.
LEMMA LoopRuns ==
  ASSUME NEW n \in Nat, NEW J, NEW s, s \in J[0], NEW step,
         \A i \in 1 .. n : \A x \in J[i - 1] : step[i][x] \in J[i]
  PROVE  \E g : IsRun(n, J, s, step, g)
<1>. DEFINE T == {m \in 0 .. n : \E g : IsRun(m, J, s, step, g)}
<1>1. 0 \in T
  <2>1. IsRun(0, J, s, step, [i \in 0 .. 0 |-> s])
    BY DEF IsRun
  <2>. QED BY <2>1
<1>2. ASSUME NEW m \in 1 .. n, m - 1 \in T PROVE m \in T
  <2>1. PICK g : IsRun(m - 1, J, s, step, g)
    BY <1>2
  <2>2. g[m - 1] \in J[m - 1]
    BY <2>1 DEF IsRun
  <2>. DEFINE e == [i \in 0 .. m |-> IF i = m THEN step[m][g[m - 1]] ELSE g[i]]
  <2>3. e = [i \in 0 .. m |-> e[i]] /\ e[0] = s
    BY <2>1 DEF IsRun
  <2>4. \A i \in 0 .. m - 1 : e[i] = g[i]
    OBVIOUS
  <2>5. e[m] = step[m][g[m - 1]]
    OBVIOUS
  <2>. HIDE DEF e
  <2>6. ASSUME NEW i \in 1 .. m PROVE e[i] = step[i][e[i - 1]] /\ e[i] \in J[i]
    <3>1. CASE i = m
      BY <2>2, <2>4, <2>5, <3>1
    <3>2. CASE i # m
      <4>1. i \in 1 .. m - 1 /\ i - 1 \in 0 .. m - 1 /\ i \in 0 .. m - 1
        BY <3>2
      <4>. QED BY <2>1, <2>4, <4>1 DEF IsRun
    <3>. QED BY <3>1, <3>2
  <2>7. IsRun(m, J, s, step, e)
    BY <2>3, <2>6 DEF IsRun
  <2>. QED BY <2>7
<1>3. T = 0 .. n
  <2>1. T \subseteq 0 .. n
    OBVIOUS
  <2>. HIDE DEF T
  <2>. QED BY <1>1, <1>2, <2>1, UpTo
<1>4. n \in T
  BY <1>3
<1>. QED BY <1>4

LEMMA RunStays ==
  ASSUME NEW n \in Nat, NEW J, NEW s, s \in J[0], NEW step, NEW g, IsRun(n, J, s, step, g),
         NEW i \in 0 .. n
  PROVE  g[i] \in J[i]
<1>1. CASE i = 0
  BY <1>1 DEF IsRun
<1>2. CASE i # 0
  <2>1. i \in 1 .. n
    BY <1>2
  <2>. QED BY <2>1 DEF IsRun
<1>. QED BY <1>1, <1>2

\* Two runs that start the same and go on the same are the same.
LEMMA RunsAgree ==
  ASSUME NEW n \in Nat, NEW f, NEW g, f[0] = g[0],
         \A i \in 1 .. n : f[i - 1] = g[i - 1] => f[i] = g[i]
  PROVE  f[n] = g[n]
<1>. DEFINE T == {i \in 0 .. n : f[i] = g[i]}
<1>1. T \subseteq 0 .. n /\ 0 \in T /\ \A i \in 1 .. n : i - 1 \in T => i \in T
  OBVIOUS
<1>2. n \in T
  <2>. HIDE DEF T
  <2>1. T = 0 .. n
    BY <1>1, UpTo
  <2>. QED BY <2>1
<1>. QED BY <1>2 DEF T

\* The ring of pages has no fewer pages than there are descriptors.
LEMMA NextPow2Is ==
  ASSUME NEW n \in Nat
  PROVE  NextPow2(n) \in Nat \ {0} /\ NextPow2(n) >= n
<1>. DEFINE IsDouble(f) == f = [k \in 0 .. n |-> IF k = 0 THEN 1 ELSE 2 * f[k - 1]]
            f == CHOOSE f : IsDouble(f)
            J == [i \in 0 .. n |-> {k \in Nat : k > i}]
            step == [i \in 1 .. n |-> [x \in Nat |-> 2 * x]]
<1>1. \E g : IsRun(n, J, 1, step, g)
  <2>1. 1 \in J[0]
    OBVIOUS
  <2>2. ASSUME NEW i \in 1 .. n, NEW x \in J[i - 1] PROVE step[i][x] \in J[i]
    <3>1. i - 1 \in 0 .. n /\ i \in 0 .. n /\ x \in Nat /\ x > i - 1
      BY <2>2
    <3>2. 2 * x \in Nat /\ 2 * x > i
      BY <3>1
    <3>. QED BY <3>1, <3>2
  <2>. HIDE DEF J, step
  <2>. QED BY <2>1, <2>2, LoopRuns
<1>2. PICK g : IsRun(n, J, 1, step, g)
  BY <1>1
<1>3. ASSUME NEW i \in 0 .. n PROVE g[i] \in Nat /\ g[i] > i
  <2>1. CASE i = 0
    BY <1>2, <2>1 DEF IsRun
  <2>2. CASE i # 0
    <3>1. i \in 1 .. n /\ J[i] = {k \in Nat : k > i}
      BY <2>2
    <3>. HIDE DEF J
    <3>. QED BY <1>2, <3>1 DEF IsRun
  <2>. QED BY <2>1, <2>2
<1>4. IsDouble(g)
  <2>1. ASSUME NEW i \in 1 .. n PROVE g[i] = 2 * g[i - 1]
    <3>1. i - 1 \in 0 .. n
      OBVIOUS
    <3>2. g[i] = step[i][g[i - 1]]
      <4>. HIDE DEF step, J
      <4>. QED BY <1>2 DEF IsRun
    <3>. QED BY <1>3, <3>1, <3>2
  <2>. DEFINE v == [k \in 0 .. n |-> IF k = 0 THEN 1 ELSE 2 * g[k - 1]]
  <2>2. ASSUME NEW k \in 0 .. n PROVE g[k] = v[k]
    <3>1. g[0] = 1
      BY <1>2 DEF IsRun
    <3>. QED BY <2>1, <3>1
  <2>3. g = [k \in 0 .. n |-> g[k]] /\ v = [k \in 0 .. n |-> v[k]]
    BY <1>2 DEF IsRun
  <2>. HIDE DEF v
  <2>4. g = v
    BY <2>2, <2>3
  <2>. QED BY <2>4 DEF v
<1>5. IsDouble(f)
  BY <1>4
<1>. HIDE DEF f
<1>6. ASSUME NEW k \in 0 .. n PROVE f[k] = g[k]
  <2>1. f[0] = g[0]
    <3>1. 0 \in 0 .. n
      OBVIOUS
    <3>. QED BY <1>2, <1>5, <3>1 DEF IsRun
  <2>2. ASSUME NEW i \in 1 .. k, f[i - 1] = g[i - 1] PROVE f[i] = g[i]
    <3>1. i \in 0 .. n /\ i # 0
      OBVIOUS
    <3>. QED BY <1>4, <1>5, <2>2, <3>1
  <2>. QED BY <2>1, <2>2, RunsAgree
<1>. DEFINE D == {f[k] : k \in 0 .. n}
            S == {p \in D : p >= n}
<1>7. NextPow2(n) = Min(S)
  BY DEF NextPow2, f
<1>8. S \subseteq Nat \ {0} /\ f[n] \in S
  <2>. QED BY <1>3, <1>6
<1>9. \E m \in S : \A k \in S : m <= k
  <2>. HIDE DEF S
  <2>. QED BY <1>8, LeastOf
<1>10. Min(S) \in S
  <2>. HIDE DEF S
  <2>. QED BY <1>8, <1>9, LeastIs
<1>. QED BY <1>7, <1>8, <1>10

LEMMA PagesEnough ==
  ASSUME PerPage \in {1, 2}
  PROVE  NumPages \in Nat \ {0} /\ NumPages >= Ring
<1>. USE FlAssumption
<1>1. PICK m \in Nat : m = (Ring + PerPage - 1) \div PerPage
  OBVIOUS
<1>2. 2 * m >= Ring
  BY <1>1
<1>3. PICK n \in Nat \ {0} : n = NextPow2(m) /\ n >= m
  BY NextPow2Is
<1>4. NumPages = IF n < Ring THEN 2 * n ELSE n
  BY <1>1, <1>3 DEF NumPages
<1>. QED BY <1>2, <1>3, <1>4

\* Buffers are counted as they are cut: which page number x is on, and where the
\* descriptor that gets it finds it.
PageOf(x) == x \div PerPage
NthBuffer(x) == [page |-> PageOf(x) % NumPages, at |-> x % PerPage, live |-> TRUE]

\* Of the buffers from a up to b, not b itself, those on page p.
Within(x, p) == IF x <= PerPage * p THEN 0 ELSE IF x >= PerPage * (p + 1) THEN PerPage ELSE x - PerPage * p
OnPage(a, b, p) == Within(b, p) - Within(a, p)

\* The pages, from page f on, have the buffers from a up to b.
PagesHave(ps, f, a, b) ==
    /\ ps \in [Pages -> [used: Nat, refs: Nat \ {0}]]
    /\ \A p \in f .. f + NumPages - 1 : ps[p % NumPages].used = OnPage(a, b, p)

\* The descriptors have the buffers from a up to b.
DescsHave(ds, a, b) ==
    /\ ds \in [Descs -> [page: Nat, at: Nat, live: BOOLEAN]]
    /\ \A x \in a .. b - 1 : ds[x % Ring] = NthBuffer(x)

\* The Ring buffers from a on are the descriptors', in order, from idx on.
FlInv ==
    /\ stuck = FALSE
    /\ \E a \in Nat :
         /\ flq = [ alloc_idx |-> PageOf(a + Ring) % Span, recycle_idx |-> PageOf(a) % Span,
                    idx |-> a % Ring ]
         /\ PagesHave(pages, PageOf(a), a, a + Ring)
         /\ DescsHave(sdesc, a, a + Ring)

\* How pages follow each other, and how far apart buffers in use can be.
LEMMA PagesFollow ==
  ASSUME PerPage \in {1, 2}, NEW x \in Nat
  PROVE  /\ PageOf(x) \in Nat
         /\ PageOf(x + 1) = (IF x % PerPage = PerPage - 1 THEN PageOf(x) + 1 ELSE PageOf(x))
         /\ \A y \in Nat : x <= y => PageOf(x) <= PageOf(y)
         /\ \A y \in Nat : x <= y /\ y < x + Ring => PageOf(y) < PageOf(x) + NumPages
         /\ \A y \in Nat : x <= y /\ y <= x + Ring => PageOf(y) <= PageOf(x) + NumPages
         /\ \A y \in Nat : PageOf(x) = PageOf(y) /\ x % PerPage = y % PerPage => x = y
<1>. USE FlAssumption DEF PageOf
<1>1. PICK n \in Nat : n = NumPages /\ n >= Ring /\ Ring \in Nat /\ Ring > 0
  BY PagesEnough
<1>2. CASE PerPage = 1
  BY <1>1, <1>2
<1>3. CASE PerPage = 2
  <2>1. x \div 2 \in Nat /\ (x + 1) \div 2 = (IF x % 2 = 1 THEN (x \div 2) + 1 ELSE x \div 2)
    OBVIOUS
  <2>2. ASSUME NEW y \in Nat
        PROVE  /\ x <= y => x \div 2 <= y \div 2
               /\ x <= y /\ y < x + Ring => y \div 2 < (x \div 2) + n
               /\ x <= y /\ y <= x + Ring => y \div 2 <= (x \div 2) + n
               /\ x \div 2 = y \div 2 /\ x % 2 = y % 2 => x = y
    BY <1>1
  <2>. QED BY <1>1, <1>3, <2>1, <2>2
<1>. QED BY <1>2, <1>3

\* How many of the buffers from a up to b a page has.
LEMMA OnPages ==
  ASSUME PerPage \in {1, 2}, NEW a \in Nat, NEW b \in Nat, a <= b, NEW p \in Nat
  PROVE  /\ OnPage(a, b, p) \in Nat
         /\ p < PageOf(a) \/ p * PerPage >= b => OnPage(a, b, p) = 0
         /\ a < b /\ p = PageOf(a) => OnPage(a, b, p) > 0
         /\ a + 1 < b /\ p = PageOf(a) => (OnPage(a, b, p) = 1 <=> a % PerPage = PerPage - 1)
<1>. USE DEF PageOf, OnPage, Within
<1>1. CASE PerPage = 1
  BY <1>1
<1>2. CASE PerPage = 2
  BY <1>2
<1>. QED BY <1>1, <1>2

\* What is left when the first is taken off.
LEMMA OneLess ==
  ASSUME PerPage \in {1, 2}, NEW a \in Nat, NEW b \in Nat, a < b, NEW p \in Nat
  PROVE  OnPage(a + 1, b, p) = (IF p = PageOf(a) THEN OnPage(a, b, p) - 1 ELSE OnPage(a, b, p))
<1>. USE DEF PageOf, OnPage, Within
<1>1. CASE PerPage = 1
  BY <1>1
<1>2. CASE PerPage = 2
  BY <1>2
<1>. QED BY <1>1, <1>2

\* What there is when one more is cut.
LEMMA OneMore ==
  ASSUME PerPage \in {1, 2}, NEW a \in Nat, NEW b \in Nat, a <= b, NEW p \in Nat
  PROVE  OnPage(a, b + 1, p) = (IF p = PageOf(b) THEN OnPage(a, b, p) + 1 ELSE OnPage(a, b, p))
<1>. USE DEF PageOf, OnPage, Within
<1>1. CASE PerPage = 1
  BY <1>1
<1>2. CASE PerPage = 2
  BY <1>2
<1>. QED BY <1>1, <1>2

\* The page that buffers are cut from has as many as were cut.
LEMMA LastPage ==
  ASSUME PerPage \in {1, 2}, NEW a \in Nat, NEW b \in Nat, a <= b, a < b \/ a % PerPage = 0
  PROVE  OnPage(a, b, PageOf(b)) = b % PerPage
<1>. USE DEF PageOf, OnPage, Within
<1>1. CASE PerPage = 1
  BY <1>1
<1>2. CASE PerPage = 2
  BY <1>2
<1>. QED BY <1>1, <1>2

\* A call of qdma_flq_refill at work while no descriptor stayed without buffer.
Calls == [alloc: Nat, recycle: Nat, n: Nat, pages: [Pages -> [used: Nat, refs: Nat \ {0}]],
          sdesc: [Descs -> [page: Nat, at: Nat, live: BOOLEAN]], failed: {FALSE}, stuck: {FALSE}]

\* The buffers from a up to c have been taken off.
Taken(s, a, c) ==
    /\ s \in Calls
    /\ s.alloc = PageOf(a + Ring) % Span /\ s.recycle = PageOf(a) % Span /\ s.n = PageOf(c) % Span
    /\ PagesHave(s.pages, PageOf(a), c, a + Ring) /\ DescsHave(s.sdesc, a, a + Ring)

\* And the pages up to page f have been replaced.
Replaced(s, a, c, f) ==
    /\ s \in Calls
    /\ s.alloc = PageOf(a + Ring) % Span /\ s.recycle = f % Span
    /\ PagesHave(s.pages, f, c, a + Ring) /\ DescsHave(s.sdesc, c, a + Ring)

\* And buffers up to b have been cut.
Filled(s, c, b) ==
    /\ s \in Calls
    /\ s.alloc = PageOf(b) % Span /\ s.recycle = PageOf(c) % Span
    /\ PagesHave(s.pages, PageOf(c), c, b) /\ DescsHave(s.sdesc, c, b)

\* Page p of the ring, where the index i says p.
LEMMA PageAt ==
  ASSUME PerPage \in {1, 2}, NEW p \in Nat
  PROVE  /\ Span \in Nat \ {0} /\ NumPages \in Nat \ {0}
         /\ p % NumPages \in Pages /\ p % Span \in Nat
         /\ (p % Span) % NumPages = p % NumPages
         /\ \A k \in Nat : ((p % Span) + k) % NumPages = (p + k) % NumPages
         /\ \A k \in Nat : ((p % Span) + k) % Span = (p + k) % Span
         /\ \A w \in Nat : p <= w /\ w < p + NumPages /\ p % NumPages = w % NumPages => p = w
         /\ \A w \in Nat : p <= w /\ w <= p + NumPages /\ p % Span = w % Span => p = w
<1>1. PICK n \in Nat \ {0}, m \in Nat \ {0} : n = NumPages /\ m = Span /\ m % n = 0 /\ m > n
  BY PagesEnough, SpanAssumption, FlAssumption
<1>2. p % n \in 0 .. n - 1 /\ p % m \in 0 .. m - 1
  BY Divides
<1>3. ASSUME NEW k \in Nat PROVE ((p % m) + k) % n = (p + k) % n
  <2>1. m % n = 0
    BY <1>1
  <2>2. SameAfter(m, n, p, k)
    BY <2>1, RemainderOfSum
  <2>. QED BY <2>2 DEF SameAfter
<1>4. ASSUME NEW k \in Nat PROVE ((p % m) + k) % m = (p + k) % m
  <2>1. m % m = 0
    <3>1. m = m * 1 + 0 /\ 0 \in 0 .. m - 1
      OBVIOUS
    <3>. QED BY <3>1, RemainderIs
  <2>2. SameAfter(m, m, p, k)
    BY <2>1, RemainderOfSum
  <2>. QED BY <2>2 DEF SameAfter
<1>5. (p % m) % n = p % n
  <2>1. (p % m) + 0 = p % m /\ p + 0 = p
    BY <1>2
  <2>. QED BY <1>3, <2>1
<1>6. \A w \in Nat : p <= w /\ w < p + n /\ p % n = w % n => p = w
  BY RemaindersDiffer
<1>7. \A w \in Nat : p <= w /\ w <= p + n /\ p % m = w % m => p = w
  <2>1. \A w \in Nat : w <= p + n => w < p + m
    BY <1>1
  <2>. QED BY <2>1, RemaindersDiffer
<1>. QED BY <1>1, <1>2, <1>3, <1>4, <1>5, <1>6, <1>7 DEF Pages

LEMMA PagesDiffer ==
  ASSUME PerPage \in {1, 2}, NEW f \in Nat, NEW p \in f .. f + NumPages - 1, NEW w \in f .. f + NumPages - 1, p # w
  PROVE  p % NumPages # w % NumPages
<1>1. PICK n \in Nat \ {0} : n = NumPages
  BY PagesEnough
<1>2. p \in Nat /\ w \in Nat
  BY <1>1
<1>3. CASE p <= w
  <2>1. w < p + n
    BY <1>1
  <2>. QED BY <1>1, <1>2, <1>3, <2>1, RemaindersDiffer
<1>4. CASE w <= p
  <2>1. p < w + n
    BY <1>1
  <2>. QED BY <1>1, <1>2, <1>4, <2>1, RemaindersDiffer
<1>. QED BY <1>2, <1>3, <1>4

\* One turn of the first loop takes the next buffer off.
LEMMA TakesNext ==
  ASSUME PerPage \in {1, 2}, NEW a \in Nat, NEW c \in Nat, a <= c, c + 1 < a + Ring,
         NEW s, Taken(s, a, c)
  PROVE  Taken(TakeOne(s), a, c + 1)
<1>. USE FlAssumption
<1>1. PICK n \in Nat \ {0}, b \in Nat : n = NumPages /\ b = a + Ring /\ c + 1 < b
  BY PagesEnough
<1>2. PICK f \in Nat, p \in Nat : f = PageOf(a) /\ p = PageOf(c) /\ p \in f .. f + n - 1
  BY <1>1, PagesFollow
<1>3. PICK u \in Nat : u = OnPage(c, b, p) /\ u > 0 /\ (u = 1 <=> c % PerPage = PerPage - 1)
  <2>1. c <= b /\ c < b /\ p = PageOf(c)
    BY <1>1, <1>2
  <2>2. OnPage(c, b, p) \in Nat
    BY <1>1, <2>1, OnPages, ZenonT(40)
  <2>3. OnPage(c, b, p) > 0
    BY <1>1, <2>1, OnPages, ZenonT(40)
  <2>4. OnPage(c, b, p) = 1 <=> c % PerPage = PerPage - 1
    BY <1>1, <2>1, OnPages, ZenonT(40)
  <2>. QED BY <2>2, <2>3, <2>4
<1>4. PICK x : x = p % n /\ x \in Pages
  BY <1>1, PageAt
<1>5. s.n % n = x /\ s.n \in Nat
  BY <1>1, <1>2, <1>4, PageAt DEF Taken, Calls
<1>6. s.pages \in [Pages -> [used: Nat, refs: Nat \ {0}]] /\ s.pages[x].used = u
  BY <1>1, <1>2, <1>3, <1>4 DEF Taken, PagesHave
<1>. DEFINE with == {k \in 0 .. NumPages - 1 : s.pages[(s.n + k) % NumPages].used > 0}
<1>7. with # {} /\ Min(with) = 0
  <2>1. 0 \in with
    BY <1>1, <1>3, <1>5, <1>6
  <2>2. with \subseteq Nat /\ \A k \in with : 0 <= k
    BY <1>1
  <2>. HIDE DEF with
  <2>. QED BY <2>1, <2>2, LeastIs
<1>8. TakeOne(s) = [s EXCEPT !.pages[x].used = u - 1, !.n = IF u = 1 THEN (s.n + 1) % Span ELSE s.n]
  <2>1. s.n + 0 = s.n
    BY <1>5
  <2>. HIDE DEF with
  <2>2. s.n + Min(with) = s.n
    BY <1>7, <2>1
  <2>3. TakeOne(s) = [s EXCEPT !.pages[(s.n + Min(with)) % NumPages].used = @ - 1,
                               !.n = IF s.pages[(s.n + Min(with)) % NumPages].used = 1
                                     THEN (s.n + Min(with) + 1) % Span ELSE s.n + Min(with)]
    BY <1>7 DEF TakeOne, with
  <2>. QED BY <1>1, <1>5, <1>6, <2>2, <2>3
<1>. PICK t : t = TakeOne(s)
  OBVIOUS
<1>9. /\ t.alloc = s.alloc /\ t.recycle = s.recycle /\ t.sdesc = s.sdesc
      /\ t.failed = FALSE /\ t.stuck = FALSE
      /\ t.n = (IF u = 1 THEN (s.n + 1) % Span ELSE s.n)
      /\ t.pages = [s.pages EXCEPT ![x].used = u - 1]
      /\ t = [alloc |-> t.alloc, recycle |-> t.recycle, n |-> t.n, pages |-> t.pages, sdesc |-> t.sdesc,
              failed |-> t.failed, stuck |-> t.stuck]
  BY <1>8 DEF Taken, Calls
<1>10. t.n = PageOf(c + 1) % Span
  <2>1. PageOf(c + 1) = (IF u = 1 THEN p + 1 ELSE p)
    <3>1. PageOf(c + 1) = (IF c % PerPage = PerPage - 1 THEN PageOf(c) + 1 ELSE PageOf(c))
      BY PagesFollow
    <3>. QED BY <1>2, <1>3, <3>1
  <2>2. s.n = p % Span /\ ((p % Span) + 1) % Span = (p + 1) % Span
    <3>1. \A k \in Nat : ((p % Span) + k) % Span = (p + k) % Span
      BY PageAt
    <3>. QED BY <1>2, <3>1 DEF Taken
  <2>. QED BY <1>9, <2>1, <2>2
<1>11. PagesHave(t.pages, f, c + 1, b)
  <2>1. t.pages \in [Pages -> [used: Nat, refs: Nat \ {0}]]
    BY <1>3, <1>4, <1>6, <1>9
  <2>2. ASSUME NEW w \in f .. f + n - 1 PROVE t.pages[w % n].used = OnPage(c + 1, b, w)
    <3>1. w \in Nat /\ w % n \in Pages /\ s.pages[w % n].used = OnPage(c, b, w)
      <4>1. w \in Nat
        OBVIOUS
      <4>2. w % NumPages \in Pages
        BY <4>1, PageAt
      <4>3. s.pages[w % n].used = OnPage(c, b, w)
        BY <1>1, <1>2 DEF Taken, PagesHave
      <4>. QED BY <1>1, <4>1, <4>2, <4>3
    <3>2. OnPage(c + 1, b, w) = (IF w = p THEN OnPage(c, b, w) - 1 ELSE OnPage(c, b, w))
      <4>1. c <= b /\ c < b
        BY <1>1
      <4>2. OnPage(c + 1, b, w) = (IF w = PageOf(c) THEN OnPage(c, b, w) - 1 ELSE OnPage(c, b, w))
        BY <3>1, <4>1, OneLess
      <4>. QED BY <1>2, <4>2
    <3>3. CASE w = p
      <4>1. t.pages[x].used = u - 1
        BY <1>4, <1>6, <1>9
      <4>2. OnPage(c + 1, b, w) = u - 1
        BY <1>3, <3>2, <3>3
      <4>. QED BY <1>4, <3>3, <4>1, <4>2
    <3>4. CASE w # p
      <4>1. w % n # x
        <5>. QED BY <1>1, <1>2, <1>4, <3>4, PagesDiffer
      <4>. QED BY <1>4, <1>6, <1>9, <3>1, <3>2, <3>4, <4>1
    <3>. QED BY <3>3, <3>4
  <2>. QED BY <1>1, <2>1, <2>2 DEF PagesHave
<1>12. t \in Calls
  <2>1. t.n \in Nat
    <3>1. PageOf(c + 1) \in Nat
      BY PagesFollow
    <3>2. PICK y \in Nat : y = PageOf(c + 1)
      BY <3>1
    <3>3. y % Span \in Nat
      BY PageAt
    <3>. QED BY <1>10, <3>2, <3>3
  <2>2. /\ s.alloc \in Nat /\ s.recycle \in Nat
        /\ s.sdesc \in [Descs -> [page: Nat, at: Nat, live: BOOLEAN]]
    BY DEF Taken, Calls
  <2>3. t.pages \in [Pages -> [used: Nat, refs: Nat \ {0}]]
    BY <1>11 DEF PagesHave
  <2>. QED BY <1>9, <2>1, <2>2, <2>3 DEF Calls
<1>. QED BY <1>1, <1>2, <1>9, <1>10, <1>11, <1>12 DEF Taken

\* Any turn of the second loop, while the page at f is empty and not the one
\* that buffers are cut from.
LEMMA ReplacesNext ==
  ASSUME PerPage \in {1, 2}, NEW a \in Nat, NEW c \in Nat, a <= c, c < a + Ring,
         NEW f \in Nat, PageOf(a) <= f, f < PageOf(c), NEW s, Replaced(s, a, c, f)
  PROVE  Replaced(Replace(s, FALSE), a, c, f + 1)
<1>. USE FlAssumption
<1>1. PICK n \in Nat \ {0}, b \in Nat : n = NumPages /\ b = a + Ring /\ n >= Ring /\ c < b /\ c <= b
  BY PagesEnough
<1>2. PICK x : x = f % n /\ x \in Pages
  BY <1>1, PageAt
<1>3. s.recycle % n = x /\ s.recycle \in Nat /\ (s.recycle + 1) % Span = (f + 1) % Span
  <2>1. s.recycle = f % Span
    BY DEF Replaced
  <2>2. (f % Span) % NumPages = f % NumPages /\ ((f % Span) + 1) % Span = (f + 1) % Span /\ f % Span \in Nat
    BY PageAt
  <2>. QED BY <1>1, <1>2, <2>1, <2>2
<1>4. s \in Calls /\ PagesHave(s.pages, f, c, b) /\ DescsHave(s.sdesc, c, b)
  BY <1>1 DEF Replaced
<1>13. PICK t : t = Replace(s, FALSE)
  OBVIOUS
<1>5. /\ t.alloc = s.alloc /\ t.n = s.n /\ t.failed = FALSE /\ t.stuck = FALSE
      /\ t.recycle = (f + 1) % Span
      /\ t = [alloc |-> t.alloc, recycle |-> t.recycle, n |-> t.n, pages |-> t.pages, sdesc |-> t.sdesc,
              failed |-> t.failed, stuck |-> t.stuck]
  BY <1>3, <1>4, <1>13 DEF Replace, Calls
<1>6. t.pages = [s.pages EXCEPT ![x] = [used |-> 0, refs |-> 1]]
  BY <1>1, <1>3, <1>4, <1>13 DEF Replace, Calls
<1>12. t.sdesc = [i \in Descs |-> t.sdesc[i]] /\ \A i \in Descs : t.sdesc[i] = Dangles(s.sdesc[i], x)
  BY <1>1, <1>3, <1>4, <1>13 DEF Replace, Calls
<1>7. s.pages \in [Pages -> [used: Nat, refs: Nat \ {0}]]
  BY <1>4 DEF PagesHave
<1>8. \A w \in Nat : f < w /\ w <= f + n => t.pages[w % n].used = OnPage(c, b, w)
  <2>. SUFFICES ASSUME NEW w \in Nat, f < w, w <= f + n PROVE t.pages[w % n].used = OnPage(c, b, w)
    OBVIOUS
  <2>1. CASE w = f + n
    <3>1. w % n = x
      <4>1. PICK i \in Nat, r \in 0 .. n - 1 : f \div n = i /\ f % n = r /\ f = n * i + r
        BY Divided
      <4>2. w = n * (i + 1) + r /\ i + 1 \in Nat
        BY <2>1, <4>1
      <4>3. w % n = r
        BY <4>2, RemainderIs
      <4>. QED BY <1>2, <4>1, <4>3
    <3>2. t.pages[x].used = 0
      <4>1. t.pages[x] = [used |-> 0, refs |-> 1]
        BY <1>2, <1>6, <1>7
      <4>. QED BY <4>1
    <3>3. w * PerPage >= b
      <4>1. PICK o \in Nat : o = PageOf(a)
        BY PagesFollow
      <4>2. w >= o + n
        BY <2>1, <4>1
      <4>3. PerPage = 1 => o = a
        BY <4>1 DEF PageOf
      <4>4. PerPage = 2 => 2 * o >= a - 1
        BY <4>1 DEF PageOf
      <4>5. CASE PerPage = 1
        BY <1>1, <4>2, <4>3, <4>5
      <4>6. CASE PerPage = 2
        BY <1>1, <4>2, <4>4, <4>6
      <4>. QED BY <4>5, <4>6
    <3>4. OnPage(c, b, w) = 0
      BY <1>1, <3>3, OnPages
    <3>. QED BY <3>1, <3>2, <3>4
  <2>2. CASE w # f + n
    <3>1. w \in f .. f + n - 1 /\ f \in f .. f + n - 1 /\ w # f
      BY <2>2
    <3>2. w % n # x
      BY <1>1, <1>2, <3>1, PagesDiffer
    <3>3. w % n \in Pages
      BY <1>1, PageAt
    <3>4. s.pages[w % n].used = OnPage(c, b, w)
      BY <1>1, <1>4, <3>1 DEF PagesHave
    <3>. QED BY <1>2, <1>6, <1>7, <3>2, <3>3, <3>4
  <2>. QED BY <2>1, <2>2
<1>9. PagesHave(t.pages, f + 1, c, b)
  <2>1. t.pages \in [Pages -> [used: Nat, refs: Nat \ {0}]]
    <3>1. [used |-> 0, refs |-> 1] \in [used: Nat, refs: Nat \ {0}]
      OBVIOUS
    <3>. QED BY <1>2, <1>6, <1>7, <3>1
  <2>2. \A w \in f + 1 .. f + 1 + n - 1 : w \in Nat /\ f < w /\ w <= f + n
    OBVIOUS
  <2>. QED BY <1>1, <1>8, <2>1, <2>2 DEF PagesHave
<1>10. DescsHave(t.sdesc, c, b)
  <2>1. s.sdesc \in [Descs -> [page: Nat, at: Nat, live: BOOLEAN]]
    BY <1>4 DEF DescsHave
  <2>2. ASSUME NEW i \in Descs
        PROVE  t.sdesc[i] = [page |-> s.sdesc[i].page, at |-> s.sdesc[i].at, live |-> s.sdesc[i].live /\ s.sdesc[i].page # x]
    <3>1. s.sdesc[i] \in [page: Nat, at: Nat, live: BOOLEAN]
      BY <2>1
    <3>. QED BY <1>12, <3>1 DEF Dangles
  <2>3. t.sdesc \in [Descs -> [page: Nat, at: Nat, live: BOOLEAN]]
    <3>1. ASSUME NEW i \in Descs PROVE t.sdesc[i] \in [page: Nat, at: Nat, live: BOOLEAN]
      <4>1. s.sdesc[i].page \in Nat /\ s.sdesc[i].at \in Nat
        BY <2>1
      <4>2. PICK l \in BOOLEAN : l = (s.sdesc[i].live /\ s.sdesc[i].page # x)
        OBVIOUS
      <4>3. t.sdesc[i] = [page |-> s.sdesc[i].page, at |-> s.sdesc[i].at, live |-> l]
        BY <2>2, <4>2
      <4>. QED BY <4>1, <4>3
    <3>. QED BY <1>12, <3>1
  <2>4. ASSUME NEW y \in c .. b - 1 PROVE t.sdesc[y % Ring] = NthBuffer(y)
    <3>1. y \in Nat /\ y % Ring \in Descs
      BY <1>1, Divides DEF Descs
    <3>2. s.sdesc[y % Ring] = NthBuffer(y)
      BY <1>4 DEF DescsHave
    <3>3. PageOf(y) % NumPages # x
      <4>1. PICK p \in Nat, g \in Nat, o \in Nat : p = PageOf(y) /\ g = PageOf(c) /\ o = PageOf(a)
        BY <3>1, PagesFollow
      <4>2. g <= p /\ p < o + n
        <5>1. c <= y /\ a <= y /\ y < a + Ring
          BY <1>1
        <5>. QED BY <1>1, <3>1, <4>1, <5>1, PagesFollow
      <4>3. p \in f .. f + n - 1 /\ f \in f .. f + n - 1 /\ p # f
        BY <4>1, <4>2
      <4>. QED BY <1>1, <1>2, <4>1, <4>3, PagesDiffer
    <3>4. PICK i \in Descs : i = y % Ring
      BY <3>1
    <3>5. s.sdesc[i].page = PageOf(y) % NumPages /\ s.sdesc[i].at = y % PerPage /\ s.sdesc[i].live = TRUE
      BY <3>2, <3>4 DEF NthBuffer
    <3>6. (s.sdesc[i].live /\ s.sdesc[i].page # x) = TRUE
      BY <3>3, <3>5
    <3>7. t.sdesc[i] = [page |-> PageOf(y) % NumPages, at |-> y % PerPage, live |-> TRUE]
      BY <2>2, <3>5, <3>6
    <3>. QED BY <3>4, <3>7 DEF NthBuffer
  <2>. QED BY <2>3, <2>4 DEF DescsHave
<1>11. t \in Calls
  <2>1. t.recycle \in Nat
    <3>1. (f + 1) % Span \in Nat
      BY PageAt
    <3>. QED BY <1>5, <3>1
  <2>2. s.alloc \in Nat /\ s.n \in Nat
    BY <1>4 DEF Calls
  <2>3. /\ t.pages \in [Pages -> [used: Nat, refs: Nat \ {0}]]
        /\ t.sdesc \in [Descs -> [page: Nat, at: Nat, live: BOOLEAN]]
    BY <1>9, <1>10 DEF PagesHave, DescsHave
  <2>. QED BY <1>5, <2>1, <2>2, <2>3 DEF Calls
<1>. QED BY <1>1, <1>5, <1>9, <1>10, <1>11, <1>13 DEF Replaced

\* The second loop replaces the pages that all buffers were taken off.
LEMMA ReplaceableIs ==
  ASSUME PerPage \in {1, 2}, NEW a \in Nat, NEW c \in Nat, a <= c, c < a + Ring,
         NEW s, Taken(s, a, c)
  PROVE  Replaceable(s) = PageOf(c) - PageOf(a) /\ Replaceable(s) \in Nat
<1>. USE FlAssumption
<1>1. PICK n \in Nat \ {0}, b \in Nat : n = NumPages /\ b = a + Ring /\ c < b /\ c <= b
  BY PagesEnough
<1>2. PICK f \in Nat, g \in Nat, e \in Nat :
        f = PageOf(a) /\ g = PageOf(c) /\ e = PageOf(b) /\ f <= g /\ g < f + n /\ g <= e /\ e <= f + n
  <2>1. PageOf(a) \in Nat /\ PageOf(c) \in Nat /\ PageOf(b) \in Nat
    BY PagesFollow
  <2>2. PageOf(a) <= PageOf(c) /\ PageOf(c) < PageOf(a) + n /\ PageOf(b) <= PageOf(a) + n
    BY <1>1, PagesFollow
  <2>3. PageOf(c) <= PageOf(b)
    BY <1>1, PagesFollow
  <2>. QED BY <2>1, <2>2, <2>3
<1>3. n < Span /\ Span \in Nat
  BY <1>1, SpanAssumption
<1>4. s.recycle = f % Span /\ s.alloc = e % Span
  BY <1>1, <1>2 DEF Taken
<1>5. ASSUME NEW k \in Nat
      PROVE (s.recycle + k) % NumPages = (f + k) % n /\ (s.recycle + k) % Span = (f + k) % Span
  <2>1. ((f % Span) + k) % NumPages = (f + k) % NumPages /\ ((f % Span) + k) % Span = (f + k) % Span
    BY PageAt
  <2>. QED BY <1>1, <1>4, <2>1
<1>6. ASSUME NEW k \in Nat, f + k < f + n PROVE s.pages[(f + k) % n].used = OnPage(c, b, f + k)
  <2>1. f + k \in f .. f + n - 1
    BY <1>6
  <2>. QED BY <1>1, <1>2, <2>1 DEF Taken, PagesHave
<1>. DEFINE S == {k \in 0 .. Span - 1 : \/ s.pages[(s.recycle + k) % NumPages].used > 0
                                        \/ (s.recycle + k) % Span = s.alloc}
<1>7. Replaceable(s) = Min(S)
  BY DEF Replaceable
<1>8. PICK m \in Nat : m = g - f /\ f + m = g /\ m < n
  BY <1>2
<1>9. m \in S
  <2>1. s.pages[(s.recycle + m) % NumPages].used = OnPage(c, b, g)
    BY <1>2, <1>5, <1>6, <1>8
  <2>2. OnPage(c, b, g) > 0
    BY <1>1, <1>2, OnPages
  <2>3. m \in 0 .. Span - 1
    BY <1>3, <1>8
  <2>. QED BY <2>1, <2>2, <2>3
<1>10. ASSUME NEW k \in S PROVE m <= k
  <2>. SUFFICES ASSUME k < m PROVE FALSE
    BY <1>8
  <2>1. k \in Nat /\ f + k < f + n /\ f + k < g /\ f + k \in Nat
    BY <1>8
  <2>2. s.pages[(s.recycle + k) % NumPages].used = OnPage(c, b, f + k)
    BY <1>5, <1>6, <2>1
  <2>3. OnPage(c, b, f + k) = 0
    BY <1>1, <1>2, <2>1, OnPages
  <2>4. (f + k) % Span = e % Span
    BY <1>4, <1>5, <2>1, <2>2, <2>3
  <2>5. f + k <= e /\ e <= f + k + n
    BY <1>2, <2>1
  <2>6. f + k = e
    BY <1>1, <2>1, <2>4, <2>5, PageAt
  <2>. QED BY <1>2, <2>1, <2>6
<1>11. S \subseteq Nat
  BY <1>3
<1>. HIDE DEF S
<1>12. Min(S) = m
  BY <1>9, <1>10, <1>11, LeastIs
<1>. QED BY <1>2, <1>7, <1>8, <1>12

\* The next descriptor gets the next buffer.
LEMMA FillsNext ==
  ASSUME PerPage \in {1, 2}, NEW c \in Nat, NEW b \in Nat, c <= b, b < c + Ring, c < b \/ c % PerPage = 0,
         NEW s, Filled(s, c, b)
  PROVE  Filled(FillOne(s, b % Ring), c, b + 1)
<1>. USE FlAssumption
<1>1. PICK n \in Nat \ {0} : n = NumPages
  BY PagesEnough
<1>2. PICK f \in Nat, p \in Nat, u \in 0 .. PerPage - 1 :
        f = PageOf(c) /\ p = PageOf(b) /\ u = b % PerPage /\ p \in f .. f + n - 1
  <2>1. PageOf(c) \in Nat /\ PageOf(b) \in Nat /\ PageOf(c) <= PageOf(b) /\ PageOf(b) < PageOf(c) + n
    BY <1>1, PagesFollow
  <2>2. b % PerPage \in 0 .. PerPage - 1
    BY Divides
  <2>. QED BY <2>1, <2>2
<1>3. OnPage(c, b, p) = u
  BY <1>2, LastPage
<1>4. PICK x \in Pages : x = p % n
  BY <1>1, PageAt
<1>5. s.alloc = p % Span /\ s.alloc % NumPages = x /\ s.alloc \in Nat /\ (s.alloc + 1) % Span = (p + 1) % Span
  <2>1. s.alloc = p % Span
    BY <1>2 DEF Filled
  <2>2. (p % Span) % NumPages = p % NumPages /\ ((p % Span) + 1) % Span = (p + 1) % Span /\ p % Span \in Nat
    BY PageAt
  <2>. QED BY <1>1, <1>4, <2>1, <2>2
<1>6. s \in Calls /\ PagesHave(s.pages, f, c, b) /\ DescsHave(s.sdesc, c, b)
  BY <1>2 DEF Filled
<1>7. PICK r \in Nat \ {0} : s.pages[x] = [used |-> u, refs |-> r]
  <2>1. s.pages[x].used = u
    BY <1>1, <1>2, <1>3, <1>4, <1>6 DEF PagesHave
  <2>2. s.pages[x] \in [used: Nat, refs: Nat \ {0}]
    BY <1>6 DEF PagesHave
  <2>. QED BY <2>1, <2>2
<1>16. s.pages[x].used = u /\ s.pages[x].refs = r /\ u # PerPage /\ r > 0 /\ s.failed = FALSE
  <2>1. s.failed = FALSE
    BY <1>6 DEF Calls
  <2>2. s.pages[x].used = u /\ s.pages[x].refs = r
    BY <1>7
  <2>. QED BY <2>1, <2>2
<1>8. PICK i \in Descs : i = b % Ring
  BY Divides DEF Descs
<1>17. FillOne(s, i) = [s EXCEPT
                !.sdesc[i] = [page |-> x, at |-> u, live |-> TRUE],
                !.pages[x] = [used |-> u + 1, refs |-> r + 1],
                !.alloc = IF u + 1 = PerPage THEN (@ + 1) % Span ELSE @]
  <2>1. s.alloc % NumPages = x
    BY <1>5
  <2>. QED BY <1>16, <2>1 DEF FillOne
<1>. PICK t : t = FillOne(s, b % Ring)
  OBVIOUS
<1>9. /\ t.n = s.n /\ t.recycle = s.recycle /\ t.failed = FALSE /\ t.stuck = FALSE
      /\ t.alloc = (IF u + 1 = PerPage THEN (s.alloc + 1) % Span ELSE s.alloc)
      /\ t = [alloc |-> t.alloc, recycle |-> t.recycle, n |-> t.n, pages |-> t.pages, sdesc |-> t.sdesc,
              failed |-> t.failed, stuck |-> t.stuck]
  BY <1>6, <1>8, <1>17 DEF Calls
<1>10. t.pages = [s.pages EXCEPT ![x] = [used |-> u + 1, refs |-> r + 1]]
  BY <1>6, <1>8, <1>17 DEF Calls
<1>11. t.sdesc = [s.sdesc EXCEPT ![i] = [page |-> x, at |-> u, live |-> TRUE]]
  BY <1>6, <1>8, <1>17 DEF Calls
<1>12. t.alloc = PageOf(b + 1) % Span /\ t.alloc \in Nat
  <2>1. PageOf(b + 1) = (IF u + 1 = PerPage THEN p + 1 ELSE p)
    <3>1. PageOf(b + 1) = (IF b % PerPage = PerPage - 1 THEN PageOf(b) + 1 ELSE PageOf(b))
      BY PagesFollow
    <3>2. u + 1 = PerPage <=> b % PerPage = PerPage - 1
      BY <1>2
    <3>. QED BY <1>2, <3>1, <3>2
  <2>2. (p + 1) % Span \in Nat
    BY PageAt
  <2>. QED BY <1>5, <1>9, <2>1, <2>2
<1>13. PagesHave(t.pages, f, c, b + 1)
  <2>1. s.pages \in [Pages -> [used: Nat, refs: Nat \ {0}]]
    BY <1>6 DEF PagesHave
  <2>2. t.pages \in [Pages -> [used: Nat, refs: Nat \ {0}]]
    <3>1. [used |-> u + 1, refs |-> r + 1] \in [used: Nat, refs: Nat \ {0}]
      OBVIOUS
    <3>. QED BY <1>10, <2>1, <3>1
  <2>3. ASSUME NEW w \in f .. f + n - 1 PROVE t.pages[w % n].used = OnPage(c, b + 1, w)
    <3>1. w \in Nat /\ w % n \in Pages
      <4>1. w \in Nat
        OBVIOUS
      <4>2. w % NumPages \in Pages
        BY <4>1, PageAt
      <4>. QED BY <1>1, <4>1, <4>2
    <3>2. s.pages[w % n].used = OnPage(c, b, w)
      BY <1>1, <1>6 DEF PagesHave
    <3>3. OnPage(c, b + 1, w) = (IF w = PageOf(b) THEN OnPage(c, b, w) + 1 ELSE OnPage(c, b, w))
      BY <3>1, OneMore
    <3>4. CASE w = p
      <4>1. t.pages[x] = [used |-> u + 1, refs |-> r + 1]
        BY <1>4, <1>10, <2>1
      <4>2. t.pages[x].used = u + 1
        BY <4>1
      <4>3. OnPage(c, b + 1, w) = u + 1
        BY <1>2, <1>3, <3>3, <3>4
      <4>. QED BY <1>4, <3>4, <4>2, <4>3
    <3>5. CASE w # p
      <4>1. w % n # x
        BY <1>1, <1>2, <1>4, <3>5, PagesDiffer
      <4>2. t.pages[w % n] = s.pages[w % n]
        BY <1>4, <1>10, <2>1, <3>1, <4>1
      <4>. QED BY <1>2, <3>2, <3>3, <3>5, <4>2
    <3>. QED BY <3>4, <3>5
  <2>. QED BY <1>1, <2>2, <2>3 DEF PagesHave
<1>14. DescsHave(t.sdesc, c, b + 1)
  <2>1. s.sdesc \in [Descs -> [page: Nat, at: Nat, live: BOOLEAN]]
    BY <1>6 DEF DescsHave
  <2>2. t.sdesc \in [Descs -> [page: Nat, at: Nat, live: BOOLEAN]]
    <3>1. x \in Nat /\ u \in Nat
      BY <1>1, <1>4 DEF Pages
    <3>2. [page |-> x, at |-> u, live |-> TRUE] \in [page: Nat, at: Nat, live: BOOLEAN]
      BY <3>1
    <3>. QED BY <1>11, <2>1, <3>2
  <2>3. ASSUME NEW y \in c .. (b + 1) - 1 PROVE t.sdesc[y % Ring] = NthBuffer(y)
    <3>1. y \in Nat /\ y % Ring \in Descs
      BY Divides DEF Descs
    <3>2. CASE y = b
      <4>1. t.sdesc[i] = [page |-> x, at |-> u, live |-> TRUE]
        BY <1>8, <1>11, <2>1
      <4>. QED BY <1>1, <1>2, <1>4, <1>8, <3>2, <4>1 DEF NthBuffer
    <3>3. CASE y # b
      <4>1. y \in c .. b - 1 /\ y <= b /\ b < y + Ring
        BY <3>3
      <4>2. y % Ring # b % Ring
        BY <3>1, <3>3, <4>1, RemaindersDiffer
      <4>3. t.sdesc[y % Ring] = s.sdesc[y % Ring]
        BY <1>8, <1>11, <2>1, <3>1, <4>2
      <4>. QED BY <1>6, <4>1, <4>3 DEF DescsHave
    <3>. QED BY <3>2, <3>3
  <2>. QED BY <2>2, <2>3 DEF DescsHave
<1>15. t \in Calls
  <2>1. s.recycle \in Nat /\ s.n \in Nat
    BY <1>6 DEF Calls
  <2>2. /\ t.pages \in [Pages -> [used: Nat, refs: Nat \ {0}]]
        /\ t.sdesc \in [Descs -> [page: Nat, at: Nat, live: BOOLEAN]]
    BY <1>13, <1>14 DEF PagesHave, DescsHave
  <2>. QED BY <1>9, <1>12, <2>1, <2>2 DEF Calls
<1>. QED BY <1>2, <1>9, <1>12, <1>13, <1>14, <1>15 DEF Filled

\* The first loop takes off as many buffers as the handler had.
LEMMA TakesAll ==
  ASSUME PerPage \in {1, 2}, NEW a \in Nat, NEW n \in Nat, n < Ring, NEW s, Taken(s, a, a)
  PROVE  Taken(Times(n, TakeOne, s), a, a + n)
<1>. USE FlAssumption
<1>. DEFINE IsLoop(f) == f = [k \in 0 .. n |-> IF k = 0 THEN s ELSE TakeOne(f[k - 1])]
            f == CHOOSE f : IsLoop(f)
            J == [i \in 0 .. n |-> {x \in Calls : Taken(x, a, a + i)}]
            step == [i \in 1 .. n |-> [x \in Calls |-> TakeOne(x)]]
<1>1. Times(n, TakeOne, s) = f[n]
  BY DEF Times
<1>2. s \in J[0]
  <2>1. a + 0 = a /\ 0 \in 0 .. n /\ s \in Calls
    BY DEF Taken
  <2>. QED BY <2>1
<1>3. ASSUME NEW i \in 1 .. n, NEW x \in J[i - 1]
      PROVE  /\ x \in Calls /\ step[i][x] = TakeOne(x)
             /\ Taken(TakeOne(x), a, a + i) /\ step[i][x] \in J[i]
  <2>1. i - 1 \in 0 .. n /\ i \in 0 .. n
    OBVIOUS
  <2>2. x \in Calls /\ Taken(x, a, a + (i - 1))
    BY <2>1
  <2>3. Taken(TakeOne(x), a, a + i)
    <3>1. PICK c \in Nat : c = a + (i - 1) /\ a <= c /\ c + 1 < a + Ring /\ c + 1 = a + i
      OBVIOUS
    <3>. QED BY <2>2, <3>1, TakesNext
  <2>4. TakeOne(x) \in Calls
    BY <2>3 DEF Taken
  <2>. QED BY <2>1, <2>2, <2>3, <2>4
<1>4. PICK g : IsRun(n, J, s, step, g)
  <2>. HIDE DEF J, step
  <2>. QED BY <1>2, <1>3, LoopRuns
<1>5. ASSUME NEW i \in 0 .. n PROVE g[i] \in J[i]
  <2>. HIDE DEF J, step
  <2>. QED BY <1>2, <1>4, RunStays
<1>6. ASSUME NEW i \in 1 .. n PROVE g[i] = TakeOne(g[i - 1])
  <2>. HIDE DEF J, step
  <2>1. i - 1 \in 0 .. n
    OBVIOUS
  <2>2. g[i] = step[i][g[i - 1]]
    BY <1>4 DEF IsRun
  <2>. QED BY <1>3, <1>5, <2>1, <2>2
<1>7. g[0] = s /\ g = [i \in 0 .. n |-> g[i]]
  BY <1>4 DEF IsRun
<1>8. IsLoop(g)
  <2>. DEFINE v == [k \in 0 .. n |-> IF k = 0 THEN s ELSE TakeOne(g[k - 1])]
  <2>1. ASSUME NEW k \in 0 .. n PROVE g[k] = v[k]
    <3>1. k # 0 => k \in 1 .. n
      OBVIOUS
    <3>. QED BY <1>6, <1>7, <3>1
  <2>2. v = [k \in 0 .. n |-> v[k]]
    OBVIOUS
  <2>. HIDE DEF v
  <2>3. g = v
    BY <1>7, <2>1, <2>2
  <2>. QED BY <2>3 DEF v
<1>9. IsLoop(f)
  BY <1>8
<1>. HIDE DEF f
<1>10. f[n] = g[n]
  <2>1. f[0] = g[0]
    <3>1. 0 \in 0 .. n
      OBVIOUS
    <3>. QED BY <1>7, <1>9, <3>1
  <2>2. ASSUME NEW i \in 1 .. n, f[i - 1] = g[i - 1] PROVE f[i] = g[i]
    <3>1. i \in 0 .. n /\ i # 0
      OBVIOUS
    <3>. QED BY <1>6, <1>9, <2>2, <3>1
  <2>. QED BY <2>1, <2>2, RunsAgree
<1>11. Taken(g[n], a, a + n)
  <2>1. n \in 0 .. n
    OBVIOUS
  <2>. QED BY <1>5, <2>1
<1>. QED BY <1>1, <1>10, <1>11

\* The second leaves no page at recycle_idx without buffers.
LEMMA ReplacesAll ==
  ASSUME PerPage \in {1, 2}, NEW a \in Nat, NEW c \in Nat, a <= c, c < a + Ring,
         NEW n \in Nat, n = PageOf(c) - PageOf(a), NEW s, Replaced(s, a, c, PageOf(a))
  PROVE  Replaced(Times(n, Renew, s), a, c, PageOf(c))
<1>. USE FlAssumption
<1>12. PICK o \in Nat, e \in Nat : o = PageOf(a) /\ e = PageOf(c) /\ e = o + n
  <2>1. PageOf(a) \in Nat /\ PageOf(c) \in Nat
    BY PagesFollow
  <2>. QED BY <2>1
<1>. DEFINE IsLoop(f) == f = [k \in 0 .. n |-> IF k = 0 THEN s ELSE Renew(f[k - 1])]
            f == CHOOSE f : IsLoop(f)
            J == [i \in 0 .. n |-> {x \in Calls : Replaced(x, a, c, o + i)}]
            step == [i \in 1 .. n |-> [x \in Calls |-> Renew(x)]]
<1>1. Times(n, Renew, s) = f[n]
  BY DEF Times
<1>2. s \in J[0]
  <2>1. o + 0 = o /\ 0 \in 0 .. n /\ s \in Calls /\ o = PageOf(a)
    BY <1>12 DEF Replaced
  <2>. QED BY <2>1
<1>3. ASSUME NEW i \in 1 .. n, NEW x \in J[i - 1]
      PROVE  /\ x \in Calls /\ step[i][x] = Renew(x)
             /\ Replaced(Renew(x), a, c, o + i) /\ step[i][x] \in J[i]
  <2>1. i - 1 \in 0 .. n /\ i \in 0 .. n
    OBVIOUS
  <2>2. x \in Calls /\ Replaced(x, a, c, o + (i - 1))
    BY <2>1
  <2>3. Replaced(Renew(x), a, c, o + i)
    <3>1. PICK p \in Nat : p = o + (i - 1) /\ p + 1 = o + i
      OBVIOUS
    <3>2. PageOf(a) <= p /\ p < PageOf(c)
      <4>1. o <= p
        BY <3>1
      <4>2. e = o + n /\ i <= n
        BY <1>12
      <4>3. p < e
        BY <3>1, <4>2
      <4>. QED BY <1>12, <4>1, <4>3
    <3>. QED BY <2>2, <3>1, <3>2, ReplacesNext DEF Renew
  <2>4. Renew(x) \in Calls
    BY <2>3 DEF Replaced
  <2>. QED BY <2>1, <2>2, <2>3, <2>4
<1>4. PICK g : IsRun(n, J, s, step, g)
  <2>. HIDE DEF J, step
  <2>. QED BY <1>2, <1>3, LoopRuns
<1>5. ASSUME NEW i \in 0 .. n PROVE g[i] \in J[i]
  <2>. HIDE DEF J, step
  <2>. QED BY <1>2, <1>4, RunStays
<1>6. ASSUME NEW i \in 1 .. n PROVE g[i] = Renew(g[i - 1])
  <2>. HIDE DEF J, step
  <2>1. i - 1 \in 0 .. n
    OBVIOUS
  <2>2. g[i] = step[i][g[i - 1]]
    BY <1>4 DEF IsRun
  <2>. QED BY <1>3, <1>5, <2>1, <2>2
<1>7. g[0] = s /\ g = [i \in 0 .. n |-> g[i]]
  BY <1>4 DEF IsRun
<1>8. IsLoop(g)
  <2>. DEFINE v == [k \in 0 .. n |-> IF k = 0 THEN s ELSE Renew(g[k - 1])]
  <2>1. ASSUME NEW k \in 0 .. n PROVE g[k] = v[k]
    <3>1. k # 0 => k \in 1 .. n
      OBVIOUS
    <3>. QED BY <1>6, <1>7, <3>1
  <2>2. v = [k \in 0 .. n |-> v[k]]
    OBVIOUS
  <2>. HIDE DEF v
  <2>3. g = v
    BY <1>7, <2>1, <2>2
  <2>. QED BY <2>3 DEF v
<1>9. IsLoop(f)
  BY <1>8
<1>. HIDE DEF f
<1>10. f[n] = g[n]
  <2>1. f[0] = g[0]
    <3>1. 0 \in 0 .. n
      OBVIOUS
    <3>. QED BY <1>7, <1>9, <3>1
  <2>2. ASSUME NEW i \in 1 .. n, f[i - 1] = g[i - 1] PROVE f[i] = g[i]
    <3>1. i \in 0 .. n /\ i # 0
      OBVIOUS
    <3>. QED BY <1>6, <1>9, <2>2, <3>1
  <2>. QED BY <2>1, <2>2, RunsAgree
<1>11. Replaced(g[n], a, c, o + n)
  <2>1. n \in 0 .. n
    OBVIOUS
  <2>. QED BY <1>5, <2>1
<1>. QED BY <1>1, <1>10, <1>11, <1>12

\* The descriptor k after x.
After(x, k) == (x + k) % Ring

LEMMA SameRing ==
  ASSUME NEW x \in Nat, NEW y \in Nat, x % Ring = y % Ring, NEW k \in Nat
  PROVE  After(x, k) = After(y, k)
<1>1. PICK m \in Nat \ {0} : m = Ring
  BY FlAssumption
<1>2. m % m = 0
  <2>1. m = m * 1 + 0 /\ 0 \in 0 .. m - 1
    OBVIOUS
  <2>. QED BY <2>1, RemainderIs
<1>3. SameAfter(m, m, x, k) /\ SameAfter(m, m, y, k)
  BY <1>2, RemainderOfSum
<1>. QED BY <1>1, <1>3 DEF SameAfter, After

\* As many descriptors from idx on get the next buffers.
LEMMA FillsAll ==
  ASSUME PerPage \in {1, 2}, NEW c \in Nat, NEW b \in Nat, c <= b, c < b \/ c % PerPage = 0,
         NEW n \in Nat, b + n <= c + Ring, NEW idx \in Nat, idx % Ring = b % Ring, NEW s, Filled(s, c, b)
  PROVE  Filled(Fill(s, idx, n), c, b + n)
<1>. USE FlAssumption
<1>. DEFINE IsLoop(f) == f = [k \in 0 .. n |-> IF k = 0 THEN s ELSE FillOne(f[k - 1], (idx + k - 1) % Ring)]
            f == CHOOSE f : IsLoop(f)
            J == [i \in 0 .. n |-> {x \in Calls : Filled(x, c, b + i)}]
            step == [i \in 1 .. n |-> [x \in Calls |-> FillOne(x, (idx + i - 1) % Ring)]]
<1>1. Fill(s, idx, n) = f[n]
  BY DEF Fill
<1>2. s \in J[0]
  <2>1. b + 0 = b /\ 0 \in 0 .. n /\ s \in Calls
    BY DEF Filled
  <2>. QED BY <2>1
<1>3. ASSUME NEW i \in 1 .. n, NEW x \in J[i - 1]
      PROVE  /\ x \in Calls /\ step[i][x] = FillOne(x, (idx + i - 1) % Ring)
             /\ Filled(FillOne(x, (idx + i - 1) % Ring), c, b + i) /\ step[i][x] \in J[i]
  <2>1. i - 1 \in 0 .. n /\ i \in 0 .. n
    OBVIOUS
  <2>2. x \in Calls /\ Filled(x, c, b + (i - 1))
    BY <2>1
  <2>3. Filled(FillOne(x, (idx + i - 1) % Ring), c, b + i)
    <3>1. PICK y \in Nat : y = b + (i - 1) /\ c <= y /\ y < c + Ring /\ y + 1 = b + i
      OBVIOUS
    <3>2. c < y \/ c % PerPage = 0
      BY <3>1
    <3>3. (idx + i - 1) % Ring = y % Ring
      <4>1. PICK k \in Nat : k = i - 1
        OBVIOUS
      <4>2. idx + i - 1 = idx + k /\ y = b + k
        BY <3>1, <4>1
      <4>3. After(idx, k) = After(b, k)
        BY SameRing
      <4>. QED BY <4>2, <4>3 DEF After
    <3>. QED BY <2>2, <3>1, <3>2, <3>3, FillsNext
  <2>4. FillOne(x, (idx + i - 1) % Ring) \in Calls
    BY <2>3 DEF Filled
  <2>. QED BY <2>1, <2>2, <2>3, <2>4
<1>4. PICK g : IsRun(n, J, s, step, g)
  <2>. HIDE DEF J, step
  <2>. QED BY <1>2, <1>3, LoopRuns
<1>5. ASSUME NEW i \in 0 .. n PROVE g[i] \in J[i]
  <2>. HIDE DEF J, step
  <2>. QED BY <1>2, <1>4, RunStays
<1>6. ASSUME NEW i \in 1 .. n PROVE g[i] = FillOne(g[i - 1], (idx + i - 1) % Ring)
  <2>. HIDE DEF J, step
  <2>1. i - 1 \in 0 .. n
    OBVIOUS
  <2>2. g[i] = step[i][g[i - 1]]
    BY <1>4 DEF IsRun
  <2>. QED BY <1>3, <1>5, <2>1, <2>2
<1>7. g[0] = s /\ g = [i \in 0 .. n |-> g[i]]
  BY <1>4 DEF IsRun
<1>8. IsLoop(g)
  <2>. DEFINE v == [k \in 0 .. n |-> IF k = 0 THEN s ELSE FillOne(g[k - 1], (idx + k - 1) % Ring)]
  <2>1. ASSUME NEW k \in 0 .. n PROVE g[k] = v[k]
    <3>1. k # 0 => k \in 1 .. n
      OBVIOUS
    <3>. QED BY <1>6, <1>7, <3>1
  <2>2. v = [k \in 0 .. n |-> v[k]]
    OBVIOUS
  <2>. HIDE DEF v
  <2>3. g = v
    BY <1>7, <2>1, <2>2
  <2>. QED BY <2>3 DEF v
<1>9. IsLoop(f)
  BY <1>8
<1>. HIDE DEF f
<1>10. f[n] = g[n]
  <2>1. f[0] = g[0]
    <3>1. 0 \in 0 .. n
      OBVIOUS
    <3>. QED BY <1>7, <1>9, <3>1
  <2>2. ASSUME NEW i \in 1 .. n, f[i - 1] = g[i - 1] PROVE f[i] = g[i]
    <3>1. i \in 0 .. n /\ i # 0
      OBVIOUS
    <3>. QED BY <1>6, <1>9, <2>2, <3>1
  <2>. QED BY <2>1, <2>2, RunsAgree
<1>11. Filled(g[n], c, b + n)
  <2>1. n \in 0 .. n
    OBVIOUS
  <2>. QED BY <1>5, <2>1
<1>. QED BY <1>1, <1>10, <1>11

LEMMA FlInitInv ==
  ASSUME PerPage \in {1, 2}, FlInit
  PROVE  FlInv
<1>. USE FlAssumption
<1>1. PICK n \in Nat \ {0} : n = NumPages
  BY PagesEnough
<1>. DEFINE s == Working(0, 0, [p \in Pages |-> [used |-> 0, refs |-> 1]], [i \in Descs |-> NoBuffer])
<1>2. PageOf(0) = 0 /\ 0 % PerPage = 0 /\ 0 % Span = 0 /\ 0 % Ring = 0
  <2>1. \A m \in Nat \ {0} : m = m /\ 0 = m * 0 + 0 /\ 0 \in 0 .. m - 1
    OBVIOUS
  <2>2. \A m \in Nat \ {0} : 0 % m = 0
    BY <2>1, RemainderIs
  <2>3. Span \in Nat \ {0}
    BY PageAt
  <2>4. PageOf(0) = 0
    BY DEF PageOf
  <2>. QED BY <2>2, <2>3, <2>4
<1>3. Filled(s, 0, 0)
  <2>1. [p \in Pages |-> [used |-> 0, refs |-> 1]] \in [Pages -> [used: Nat, refs: Nat \ {0}]]
    OBVIOUS
  <2>2. PagesHave(s.pages, 0, 0, 0)
    <3>1. ASSUME NEW w \in 0 .. 0 + NumPages - 1 PROVE s.pages[w % NumPages].used = OnPage(0, 0, w)
      <4>1. w \in Nat
        BY <1>1
      <4>2. w % NumPages \in Pages
        BY <4>1, PageAt
      <4>3. OnPage(0, 0, w) = 0
        <5>1. w * PerPage >= 0
          BY <4>1
        <5>. QED BY <4>1, <5>1, OnPages
      <4>. QED BY <4>2, <4>3 DEF Working
    <3>. QED BY <2>1, <3>1 DEF PagesHave, Working
  <2>3. DescsHave(s.sdesc, 0, 0)
    <3>1. NoBuffer \in [page: Nat, at: Nat, live: BOOLEAN]
      BY <1>1 DEF NoBuffer
    <3>. QED BY <3>1 DEF DescsHave, Working
  <2>4. s \in Calls
    BY <2>2, <2>3 DEF Calls, Working, PagesHave, DescsHave
  <2>5. s.alloc = 0 /\ s.recycle = 0
    BY DEF Working
  <2>. HIDE DEF s
  <2>. QED BY <1>2, <2>2, <2>3, <2>4, <2>5 DEF Filled
<1>4. PICK t : t = Fill(s, 0, Ring)
  OBVIOUS
<1>5. Filled(t, 0, 0 + Ring)
  <2>1. 0 + Ring <= 0 + Ring /\ 0 <= 0 /\ 0 \in Nat /\ Ring \in Nat
    OBVIOUS
  <2>. HIDE DEF s
  <2>. QED BY <1>2, <1>3, <1>4, <2>1, FillsAll
<1>6. /\ flq = [alloc_idx |-> t.alloc, recycle_idx |-> 0, idx |-> 0]
      /\ pages = t.pages /\ sdesc = t.sdesc /\ stuck = FALSE
  BY <1>4 DEF FlInit
<1>7. t.alloc = PageOf(0 + Ring) % Span /\ PagesHave(t.pages, PageOf(0), 0, 0 + Ring) /\ DescsHave(t.sdesc, 0, 0 + Ring)
  BY <1>5 DEF Filled
<1>. QED BY <1>2, <1>6, <1>7 DEF FlInv

LEMMA RefillInv ==
  ASSUME PerPage \in {1, 2}, MayFail = FALSE, FlInv, FlqRefill
  PROVE  FlInv'
<1>. USE FlAssumption
<1>1. PICK a \in Nat :
         /\ flq = [ alloc_idx |-> PageOf(a + Ring) % Span, recycle_idx |-> PageOf(a) % Span,
                    idx |-> a % Ring ]
         /\ PagesHave(pages, PageOf(a), a, a + Ring)
         /\ DescsHave(sdesc, a, a + Ring)
  BY DEF FlInv
<1>. DEFINE s == Working(flq.alloc_idx, flq.recycle_idx, pages, sdesc)
            T(n) == Times(n, TakeOne, s)
            U(n) == Times(Replaceable(T(n)), Renew, T(n))
<1>2. PICK n \in 1 .. Ring - 1 : Become(Fill(U(n), flq.idx, n), (flq.idx + n) % Ring)
  BY DEF FlqRefill
<1>3. PICK c \in Nat : c = a + n /\ n \in Nat /\ n < Ring /\ a <= c /\ c < a + Ring
  OBVIOUS
<1>4. Taken(s, a, a)
  <2>1. /\ s.alloc = PageOf(a + Ring) % Span /\ s.recycle = PageOf(a) % Span /\ s.n = PageOf(a) % Span
        /\ s.pages = pages /\ s.sdesc = sdesc
    BY <1>1 DEF Working
  <2>2. s.alloc \in Nat /\ s.recycle \in Nat
    <3>1. PageOf(a) \in Nat /\ PageOf(a + Ring) \in Nat
      BY PagesFollow
    <3>. QED BY <2>1, <3>1, PageAt
  <2>3. s \in Calls
    BY <1>1, <2>1, <2>2 DEF Calls, Working, PagesHave, DescsHave
  <2>. HIDE DEF s
  <2>. QED BY <1>1, <2>1, <2>3 DEF Taken
<1>. HIDE DEF s
<1>5. Taken(T(n), a, c)
  BY <1>3, <1>4, TakesAll
<1>. HIDE DEF T
<1>6. Replaced(T(n), a, c, PageOf(a))
  <2>1. DescsHave(T(n).sdesc, c, a + Ring)
    <3>1. DescsHave(T(n).sdesc, a, a + Ring)
      BY <1>5 DEF Taken
    <3>2. \A x \in c .. a + Ring - 1 : x \in a .. a + Ring - 1
      BY <1>3
    <3>. QED BY <3>1, <3>2 DEF DescsHave
  <2>. QED BY <1>5, <2>1 DEF Taken, Replaced
<1>7. Replaced(U(n), a, c, PageOf(c))
  <2>1. Replaceable(T(n)) = PageOf(c) - PageOf(a) /\ Replaceable(T(n)) \in Nat
    BY <1>3, <1>5, ReplaceableIs
  <2>. QED BY <1>3, <1>6, <2>1, ReplacesAll
<1>. HIDE DEF U
<1>8. Filled(U(n), c, a + Ring)
  BY <1>7 DEF Replaced, Filled
<1>9. PICK t : t = Fill(U(n), flq.idx, n)
  OBVIOUS
<1>10. a % Ring \in Nat /\ (a % Ring) % Ring = (a + Ring) % Ring /\ ((a % Ring) + n) % Ring = c % Ring
  <2>1. PICK m \in Nat \ {0} : m = Ring
    OBVIOUS
  <2>2. PICK i \in Nat, r \in 0 .. m - 1 : a \div m = i /\ a % m = r /\ a = m * i + r
    BY Divided
  <2>3. r % m = r
    BY RemainderIs
  <2>4. (a + m) % m = r
    <3>1. PICK z \in Nat, j \in Nat : z = a + m /\ j = i + 1 /\ z = m * j + r
      BY <2>2
    <3>2. z % m = r
      BY <3>1, RemainderIs
    <3>. QED BY <3>1, <3>2
  <2>5. After(a % m, n) = After(a, n)
    <3>1. (a % m) % Ring = a % Ring /\ a % m \in Nat
      BY <2>1, <2>2, <2>3
    <3>. QED BY <1>3, <3>1, SameRing
  <2>. QED BY <1>3, <2>1, <2>2, <2>3, <2>4, <2>5 DEF After
<1>11. Filled(t, c, c + Ring)
  <2>1. PICK b \in Nat : b = a + Ring /\ c <= b /\ c < b /\ b + n <= c + Ring /\ b + n = c + Ring
    BY <1>3
  <2>2. flq.idx \in Nat /\ flq.idx % Ring = b % Ring
    BY <1>1, <1>10, <2>1
  <2>. QED BY <1>3, <1>8, <1>9, <2>1, <2>2, FillsAll
<1>12. /\ flq' = [alloc_idx |-> t.alloc, recycle_idx |-> t.recycle, idx |-> c % Ring]
       /\ pages' = t.pages /\ sdesc' = t.sdesc /\ stuck' = FALSE
  <2>1. t.stuck = FALSE /\ stuck = FALSE
    BY <1>11 DEF Filled, Calls, FlInv
  <2>2. flq.idx = a % Ring
    BY <1>1
  <2>. QED BY <1>2, <1>9, <1>10, <2>1, <2>2 DEF Become
<1>. QED BY <1>11, <1>12 DEF FlInv, Filled

\* The inductive invariant of the pages: the descriptors have as many buffers in a
\* row, one after the other, as there are descriptors.
THEOREM FlInvHolds ==
  ASSUME PerPage \in {1, 2}, MayFail = FALSE
  PROVE  FlSpec => []FlInv
<1>1. FlInit => FlInv
  BY FlInitInv
<1>2. FlInv /\ [FlqRefill]_flVars => FlInv'
  <2>. SUFFICES ASSUME FlInv, [FlqRefill]_flVars PROVE FlInv'
    OBVIOUS
  <2>1. CASE FlqRefill
    BY <2>1, RefillInv
  <2>2. CASE UNCHANGED flVars
    BY <2>2 DEF FlInv, flVars
  <2>. QED BY <2>1, <2>2
<1>. QED BY <1>1, <1>2, PTL DEF FlSpec

\* Every descriptor has a buffer of its own, on a page that is still the queue's,
\* and flq_refill_pages never looks for buffers that are not there, as long as a
\* page has one or two buffers and new pages can be allocated.
THEOREM BuffersAreOwn ==
  ASSUME PerPage \in {1, 2}, MayFail = FALSE
  PROVE  FlSpec => []BuffersOwn
<1>. USE FlAssumption
<1>1. FlInv => BuffersOwn
  <2>. SUFFICES ASSUME FlInv PROVE BuffersOwn
    OBVIOUS
  <2>1. PICK a \in Nat, n \in Nat \ {0} : DescsHave(sdesc, a, a + Ring) /\ n = NumPages
    BY PagesEnough DEF FlInv
  <2>2. ASSUME NEW i \in Descs PROVE \E x \in a .. a + Ring - 1 : x % Ring = i /\ sdesc[i] = NthBuffer(x)
    <3>1. PICK x \in a .. a + Ring - 1 : x % Ring = i
      BY RemaindersAll DEF Descs
    <3>2. sdesc[x % Ring] = NthBuffer(x)
      BY <2>1 DEF DescsHave
    <3>. QED BY <3>1, <3>2
  <2>3. ASSUME NEW i \in Descs PROVE sdesc[i].live
    <3>1. PICK x \in a .. a + Ring - 1 : sdesc[i] = NthBuffer(x)
      BY <2>2
    <3>. QED BY <3>1 DEF NthBuffer
  <2>4. ASSUME NEW i \in Descs, NEW j \in Descs, i # j
        PROVE  << sdesc[i].page, sdesc[i].at >> # << sdesc[j].page, sdesc[j].at >>
    <3>1. PICK x \in a .. a + Ring - 1 : x % Ring = i /\ sdesc[i] = NthBuffer(x)
      BY <2>2
    <3>2. PICK y \in a .. a + Ring - 1 : y % Ring = j /\ sdesc[j] = NthBuffer(y)
      BY <2>2
    <3>3. x \in Nat /\ y \in Nat /\ x # y
      BY <2>4, <3>1, <3>2
    <3>. SUFFICES ASSUME PageOf(x) % NumPages = PageOf(y) % NumPages, x % PerPage = y % PerPage PROVE FALSE
      BY <3>1, <3>2 DEF NthBuffer
    <3>4. PICK f \in Nat, p \in Nat, w \in Nat : f = PageOf(a) /\ p = PageOf(x) /\ w = PageOf(y)
      BY <3>3, PagesFollow
    <3>5. p \in f .. f + n - 1 /\ w \in f .. f + n - 1
      <4>1. a <= x /\ x < a + Ring /\ a <= y /\ y < a + Ring
        OBVIOUS
      <4>2. f <= p /\ p < f + n /\ f <= w /\ w < f + n
        BY <2>1, <3>3, <3>4, <4>1, PagesFollow
      <4>. QED BY <4>2
    <3>6. p = w
      BY <2>1, <3>4, <3>5, PagesDiffer
    <3>. QED BY <3>3, <3>4, <3>6, PagesFollow
  <2>5. ~stuck
    BY DEF FlInv
  <2>. QED BY <2>3, <2>4, <2>5 DEF BuffersOwn
<1>. QED BY <1>1, FlInvHolds, PTL
=============================================================================
