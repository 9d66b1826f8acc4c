------------------------------ MODULE FreeList -------------------------------
(***************************************************************************)
(* The pages behind the buffers of a streaming receive queue with a packet *)
(* handler (libqdma/qdma_st_c2h.c, flq_fill_one and flq_refill_pages).     *)
(* Pages form a ring.  Buffers are cut from the page at alloc_idx; when    *)
(* the handler has had packets, as many buffers are taken off the pages    *)
(* from recycle_idx on, in the order of the pages, and a page without      *)
(* buffers is replaced by a new one.  No page is told which buffers the    *)
(* packets used: that they come back in order is all there is.             *)
(*                                                                         *)
(* A step of the specification is one call of qdma_flq_refill, which runs  *)
(* under the queue's lock.  StC2h has the rest of the queue.               *)
(***************************************************************************)
EXTENDS Integers, FiniteSetsExt

CONSTANTS
    Ring,       \* flq->size, the descriptors
    PerPage,    \* num_bufs_per_pg
    Span,       \* the indices are unsigned counters, here modulo Span pages
    MayFail     \* whether alloc_pages_node may fail

NextPow2(n) ==
    LET Double[k \in 0 .. n] == IF k = 0 THEN 1 ELSE 2 * Double[k - 1]
    IN  Min({p \in {Double[k] : k \in 0 .. n} : p >= n})

\* Mutant: no more pages than the buffers need.
NumPagesTight == NextPow2((Ring + PerPage - 1) \div PerPage)
\* descq_flq_alloc_resource: the pages needed, doubled when few.
NumPages ==
    LET n == NextPow2((Ring + PerPage - 1) \div PerPage)
    IN  IF n < Ring THEN 2 * n ELSE n

ASSUME FlAssumption == Ring \in Nat \ {0} /\ PerPage \in Nat \ {0} /\ Span \in Nat
ASSUME SpanAssumption == Span % NumPages = 0 /\ Span > NumPages

VARIABLES
    flq,        \* [alloc_idx, recycle_idx], and the ring index refilled next
    pages,      \* pages[p] = [used, refs]: pg_offset in buffers, page_count
    sdesc,      \* sdesc[i]: the buffer of descriptor i
    stuck       \* the loop that takes buffers off found none to take

flVars == << flq, pages, sdesc, stuck >>

Pages == 0 .. NumPages - 1
Descs == 0 .. Ring - 1
NoBuffer == [page |-> NumPages, at |-> 0, live |-> FALSE]

\* flq_fill_one: cut a buffer from the page at alloc_idx and take a reference.
\* A full page is an error: the descriptor stays without buffer, and the ones
\* after it are not refilled.
FillOne(s, i) ==
    LET p == s.alloc % NumPages
    IN  IF s.failed THEN s
        ELSE IF s.pages[p].used = PerPage
        THEN [s EXCEPT !.sdesc[i] = NoBuffer, !.failed = TRUE]
        ELSE [s EXCEPT
                !.sdesc[i] = [page |-> p, at |-> s.pages[p].used, live |-> s.pages[p].refs > 0],
                !.pages[p] = [used |-> @.used + 1, refs |-> @.refs + 1],
                !.alloc = IF s.pages[p].used + 1 = PerPage THEN (@ + 1) % Span ELSE @]

\* The first loop of flq_refill_pages, a buffer at a time: off the first page
\* with any.  With a handler the buffers' references are not dropped: !recycle
\* && !fp_descq_c2h_packet.
TakeOne(s) ==
    LET with == {k \in 0 .. NumPages - 1 : s.pages[(s.n + k) % NumPages].used > 0}
        n    == s.n + Min(with)
        p    == n % NumPages
    IN  IF with = {} THEN [s EXCEPT !.stuck = TRUE]
        ELSE [s EXCEPT !.pages[p].used = @ - 1,
                       !.n = IF s.pages[p].used = 1 THEN (n + 1) % Span ELSE n]

\* The second: one empty page at recycle_idx is let go of and replaced by one
\* the ring holds a reference of.  Descriptors that name it are left dangling;
\* without memory for the new page the old one stays in the ring.
Dangles(d, p) == [d EXCEPT !.live = @ /\ d.page # p]
Replace(s, fails) ==
    LET p == s.recycle % NumPages
    IN  [s EXCEPT !.sdesc = [i \in Descs |-> Dangles(@[i], p)],
                  !.pages[p] = [used |-> 0, refs |-> IF fails THEN 0 ELSE 1],
                  !.recycle = IF fails THEN @ ELSE (@ + 1) % Span]

\* ... while memory lasts.
Renew(s) == Replace(s, FALSE)

\* How many pages the second loop replaces when memory lasts.
Replaceable(s) ==
    Min({k \in 0 .. Span - 1 : s.pages[(s.recycle + k) % NumPages].used > 0
                               \/ (s.recycle + k) % Span = s.alloc})

\* n turns of a loop.
Times(n, Op(_), s) ==
    LET after[k \in 0 .. n] == IF k = 0 THEN s ELSE Op(after[k - 1])
    IN  after[n]

\* qdma_flq_refill: count descriptors from idx on, around the ring.
Fill(s, idx, count) ==
    LET after[k \in 0 .. count] ==
            IF k = 0 THEN s ELSE FillOne(after[k - 1], (idx + k - 1) % Ring)
    IN  after[count]

\* A call at work: n is where the first loop takes buffers off, failed says that
\* a descriptor found no buffer.
Working(alloc, recycle, ps, descs) ==
    [ alloc |-> alloc, recycle |-> recycle, n |-> recycle, pages |-> ps, sdesc |-> descs,
      failed |-> FALSE, stuck |-> FALSE ]

-----------------------------------------------------------------------------
Become(s, idx) ==
    /\ flq' = [alloc_idx |-> s.alloc, recycle_idx |-> s.recycle, idx |-> idx]
    /\ pages' = s.pages /\ sdesc' = s.sdesc /\ stuck' = (stuck \/ s.stuck)

\* qdma_flq_refill(descq, idx, count, 0): the buffers of the packets the
\* handler had in one pass, at most the Ring - 1 the hardware may have used.
FlqRefill ==
    \E count \in 1 .. Ring - 1 :
      LET s == Working(flq.alloc_idx, flq.recycle_idx, pages, sdesc)
          t == Times(count, TakeOne, s)
          k == Replaceable(t)
          Done == {Times(k, Renew, t)} \union
                  (IF MayFail THEN {Replace(Times(j, Renew, t), TRUE) : j \in 0 .. k - 1}
                   ELSE {})
      IN  \E r \in Done : Become(Fill(r, flq.idx, count), (flq.idx + count) % Ring)

\* descq_flq_alloc_resource: every page allocated, every descriptor filled.
FlInit ==
    LET s == Fill(Working(0, 0, [p \in Pages |-> [used |-> 0, refs |-> 1]],
                          [i \in Descs |-> NoBuffer]), 0, Ring)
    IN  /\ flq = [alloc_idx |-> s.alloc, recycle_idx |-> 0, idx |-> 0]
        /\ pages = s.pages
        /\ sdesc = s.sdesc
        /\ stuck = FALSE

FlSpec == FlInit /\ [][FlqRefill]_flVars

-----------------------------------------------------------------------------
\* Every descriptor the hardware may use has a buffer, of a page that is still
\* the queue's, and no two have the same one; and the loop that takes buffers
\* off the pages ends (descq_flq_alloc_resource: "without this, alloc_idx and
\* recycle_idx will toeing each other creating a mess").
BuffersOwn ==
    /\ ~stuck
    /\ \A i \in Descs : sdesc[i].live
    /\ \A i, j \in Descs : i # j => << sdesc[i].page, sdesc[i].at >> # << sdesc[j].page, sdesc[j].at >>
=============================================================================
