------------------------------- MODULE TcbCache -------------------------------
(***************************************************************************)
(* The table of connections of the TCP engine (cache.sv): which control    *)
(* block belongs to the tuple of a header.  Way x set hold a tag and a     *)
(* block address; a tuple may be at the set of either of its two hashes.   *)
(* Both halves of the code, "left" and "right", are ports of one memory    *)
(* and share the valid bits.                                               *)
(*                                                                         *)
(* A lookup reads the memory in the cycle of `read` and compares in the    *)
(* next one; LookupClock is one rising edge.  The tuple at the input is an *)
(* argument: it is the head of the header queue, cycle by cycle.           *)
(***************************************************************************)
EXTENDS Integers, FiniteSetsExt

CONSTANTS
    Ways, Sets,     \* 0 .. 3 and 0 .. 15
    Blocks,         \* the number of control blocks, 64
    HashL, HashR    \* the set and the tag each hash gives to a tuple

ASSUME CacheAssumption ==
    Ways \in Nat \ {0} /\ Sets \in Nat \ {0} /\ Blocks \in Nat \ {0}

Way   == 0 .. Ways - 1
Cell  == Way \X (0 .. Sets - 1)
Block == 0 .. Blocks - 1
LastBlock == Blocks - 1
AnyTuple  == CHOOSE t \in DOMAIN HashL : TRUE

LookupInit ==
    [ read_d    |-> FALSE,
      dout      |-> [l |-> [i \in Way |-> [tag |-> 0, addr |-> 0]],
                     r |-> [i \in Way |-> [tag |-> 0, addr |-> 0]]],
      tcb_valid |-> FALSE,
      tcb_addr  |-> 0,
      mem       |-> [p \in Cell |-> [tag |-> 0, addr |-> 0]],
      valid     |-> {},                             \* cells
      bitmap    |-> {},                             \* valid_bitmap, of blocks
      cellOf    |-> [k \in Block |-> << 0, 0 >>],     \* reverse_map: way and set,
      mapped    |-> {},                             \* and its valid bit
      tcb_alloc |-> 0,
      asked     |-> AnyTuple,                       \* histories: whom the memory was
      of        |-> [k \in Block |-> AnyTuple],     \* read for, whom a block was given
      crossed   |-> {} ]                            \* to, who met another's reading

\* The ways that hit, by either hash; the memory was read by the tuple of the
\* cycle before.
Hits(c, hash, dout) ==
    {i \in Way : << i, hash.set >> \in c.valid /\ dout[i].tag = hash.tag}
HitsL(c, t) == Hits(c, HashL[t], c.dout.l)
HitsR(c, t) == Hits(c, HashR[t], c.dout.r)

\* Mutant: only the right half is looked at.
ReadMissRight(c, t) == c.read_d /\ HitsR(c, t) = {}

ReadMiss(c, t) == c.read_d /\ HitsL(c, t) = {} /\ HitsR(c, t) = {}

\* Free ways of each hash's set.
FreeWays(c, hash) == {i \in Way : << i, hash.set >> \notin c.valid}

\* Where an entry of tuple t goes: the emptier set, the left one of equals.
Side(c, t) ==
    LET l == FreeWays(c, HashL[t])
        r == FreeWays(c, HashR[t])
    IN  CASE l = {} /\ r = {} -> "none"
          [] l # {} /\ (r = {} \/ Cardinality(l) >= Cardinality(r)) -> "left"
          [] OTHER -> "right"
SideHash(side, t) == IF side = "left" THEN HashL[t] ELSE HashR[t]
CellFor(c, side, t) == << Max(FreeWays(c, SideHash(side, t))), SideHash(side, t).set >>

Occupy(c, k, p, t) ==
    [ c EXCEPT !.cellOf[k] = p, !.mapped = @ \union {k},
               !.bitmap = @ \union {k}, !.valid = @ \union {p}, !.of[k] = t ]

\* A miss takes the next block, up to the last.
Allocate(c, t) ==
    LET side == Side(c, t)
        p    == CellFor(c, side, t)
    IN  IF side = "none" THEN c
        ELSE [ Occupy(c, c.tcb_alloc, p, t) EXCEPT
                  !.mem[p]    = [tag |-> SideHash(side, t).tag, addr |-> c.tcb_alloc],
                  !.tcb_alloc = @ + 1 ]

\* At the last block the left set comes first, the entry gets address zero, and
\* the block marked is the highest unused one, at the cell it had before.
AllocateLast(c, t) ==
    LET side == IF FreeWays(c, HashL[t]) # {} THEN "left"
                ELSE IF FreeWays(c, HashR[t]) # {} THEN "right" ELSE "none"
        p    == CellFor(c, side, t)
        w    == IF side = "none" THEN c
                ELSE [ c EXCEPT !.mem[p] = [tag |-> SideHash(side, t).tag, addr |-> 0] ]
        k    == Max(Block \ c.bitmap)
    IN  CASE c.bitmap # Block -> Occupy(w, k, c.cellOf[k], t)
          [] c.bitmap = Block /\ side # "none" -> Occupy(w, c.tcb_alloc, p, t)
          [] OTHER -> w

\* Mutant: the cell of the entry stays valid.
ForgetKeep(c, k) == [ c EXCEPT !.bitmap = @ \ {k}, !.mapped = @ \ {k} ]

Forget(c, k) ==
    [ c EXCEPT !.bitmap = @ \ {k},
               !.mapped = @ \ {k},
               !.valid  = IF k \in c.mapped THEN @ \ {c.cellOf[k]} ELSE @ ]

\* The block of the header, to be used in the next cycle.
Answer(c, t) ==
    LET l == HitsL(c, t)
        r == HitsR(c, t)
    IN  CASE l # {}            -> c.dout.l[Max(l)].addr
          [] l = {} /\ r # {}  -> c.dout.r[Max(r)].addr
          [] OTHER             -> IF ReadMiss(c, t) THEN c.tcb_alloc ELSE c.tcb_addr

\* invalid is the block that is given up in this cycle, or -1; it goes first.
LookupClock(c, read, t, invalid) ==
    LET base == CASE invalid \in Block -> Forget(c, invalid)
                  [] invalid \notin Block /\ ReadMiss(c, t) ->
                        IF c.tcb_alloc = LastBlock THEN AllocateLast(c, t) ELSE Allocate(c, t)
                  [] OTHER -> c
    IN  [ base EXCEPT
            !.read_d    = read,
            !.dout      = IF read THEN [ l |-> [i \in Way |-> c.mem[<< i, HashL[t].set >>]],
                                         r |-> [i \in Way |-> c.mem[<< i, HashR[t].set >>]] ]
                          ELSE @,
            !.tcb_valid = c.read_d,
            !.tcb_addr  = IF c.read_d THEN Answer(c, t) ELSE @,
            !.asked     = IF read THEN t ELSE @,
            !.crossed   = IF c.read_d /\ c.asked # t THEN @ \union {t} ELSE @ ]
=============================================================================
