# Models and proofs for the QDMA traffic generator

TLA+ modules, TLC configurations and TLAPS proofs for the host driver and the
FPGA logic of this repository. Paths are relative to
`src/SW/linux-kernel/driver/` unless they start with `HW/`.

- [1. The system](#1-the-system): its parts, their state and operations
- [2. What is modelled](#2-what-is-modelled): modules and code
- [3. What the runs check](#3-what-the-runs-check): bounds, fairness
- [4. What is proved](#4-what-is-proved)
- [5. Where the code and its documentation disagree](#5-where-the-code-and-its-documentation-disagree)
- [6. What is not modelled](#6-what-is-not-modelled)
- [7. Plan](#7-plan)

## 1. The system

A Xilinx QDMA card carries a packet generator; a Linux driver (`libqdma`, with
a character device, a netlink interface and a network interface on top) moves
the data.

| Part | State it keeps | Operations | What makes it correct |
|---|---|---|---|
| Descriptor queue, `libqdma/qdma_descq.[ch]`, `libqdma_export.c` | `work_list`, `pend_list`, ring indices `pidx`/`cidx`/`avail`, `credit`, `q_state`, `q_stop_wait`, `pend_list_empty` | submit, batch submit, write descriptors, reap completions, wait with timeout, stop with drain, start | every request answered once, after its data was moved; ring never overrun; no list keeps a request its owner freed; nothing is moved into a buffer given back |
| Service threads and interrupt work, `thread.c`, `qdma_thread.c`, `qdma_intr.c` | work list of each thread, `schedule`, aggregation ring with its colour | assign a queue, sleep, wake, `data_intr_direct`, `data_intr_aggregate` | no completion is missed, queues are spread over the threads |
| Queue resource manager, `qdma_access/qdma_resource_mgmt.c` | `free_list`, `dev_list` entries, active counts | create, destroy, update (resize), count a queue in and out | each hardware queue has one owner; a range does not move while it is in use; counts are those of the queues |
| Device, `xdev.c`, `qdma_device.c` | state flags, the three queue tables | open, close, online, offline, cleanup | resources are given back |
| Queue life cycle, `libqdma_export.c` | `q_state` of every queue, pairing of H2C and C2H | add (index chosen or given), config, start, stop, remove | two adds never get one queue, counts follow |
| Mailbox, `qdma_mbox.c`, `qdma_mbox_protocol.c` | `tx_todo_list`, `rx_pend_list`, timer, the message in flight | send and wait, transmit work, receive work, timeout, retry | a response reaches the request it answers; a message is freed once |
| SR-IOV, `qdma_sriov.c` | `vf_count`, `vf_count_online`, function ids | enable, disable, online, offline | counts match the functions |
| ST C2H, `qdma_st_c2h.c` | free list of pages, completion ring with colour bit | refill, process completions, read packet | each packet delivered once, no page in use twice |
| Network driver, `net/` | transmit queues, context pool | open, stop, xmit, completion, reset | each skb freed once, the pool's blocks have one user |
| Character device, `src/cdev.c` | requests of an asynchronous read or write | aio read, write, completion | the kiocb is completed once |
| Generator, `HW/hdl/`, used by the test bench and commented out on the card | FIFO pointers and flags, packet and rate counters, current flow | AXI-stream beats per clock | no beat lost or repeated, packets not mixed, every flow served |
| TCP engine, `HW/qdma_2_ex.srcs/`, the design that `axi_st_module.sv` connects to the card's streams | control blocks and their locks, cache sets, timer wheel | segment in, event, timeout, write back | state machine follows the events, no control block update is lost, a timer fires once and for its own connection |

How they meet: the layers on top call `qdma_request_submit` and the queue calls
of `libqdma_export.c`; the queue calls count queues in the resource manager,
directly on a physical function and by mailbox message on a virtual one; the
hardware writes status pages and raises interrupts, which the interrupt work or
the polling threads turn into completions of descriptor queues, and these call
back (`fp_done`) or wake a sleeping submitter.

What is hard: the descriptor queue is shared by submitters, a service thread, a
control thread and the hardware, of which only the software takes
`descq->lock`; stop, timeout and completion compete for each request; the
resource manager is a first-fit allocator whose mistakes show up many calls
later; the mailbox has timeouts, late answers and a message owned by two
threads; the network driver allocates from a pool that another thread frees into
without a lock; the receive path keeps four indices of two rings in step with
the hardware; the hardware modules are pipelines in which a cycle's decision is
used cycles later. `PROJECT.json` lists the hazards line by line.

## 2. What is modelled

| Module | Of | Uses |
|---|---|---|
| `QdmaDescq`, `QdmaDescqProps` | descriptor queue, its properties | |
| `ResourceMgmt`, `ResourceMgmtProps`, `QueueRanges` | resource manager, its properties, the abstract manager | `ResourceMgmtProps` instantiates `QueueRanges` |
| `QueueTable` | queues of a device | |
| `Mailbox` | mailbox and online bookkeeping | |
| `NetTx` | network transmit path | |
| `StC2h`, `FreeList` | streaming receive queue, its pages | |
| `Threads` | polling threads shared by the queues | |
| `IntrRing` | interrupt aggregation ring | |
| `AxisFifo`, `BeatQueue`, `FlowGen` | generator FIFO, the abstract queue, generator and scheduler | `FlowGen` instantiates `AxisFifo` per flow |
| `TcpCtrl`, `TcbCache`, `Rto`, `TcpEngine` | TCP engine | `TcpEngine` composes the three |
| `...Proofs` | section 4 | |
| `MCQdmaDescq`, `MCResourceMgmt`, `MCParts`, `MCLive`, `MCTcp` | instances | |

`MCParts` and `MCLive` put components side by side that share no state: a
variable `part` says which one moves, the others rest in an initial state. The
states are those of the parts one after the other, not their product.

### `QdmaDescq`: one descriptor queue

One MM or ST-H2C queue, from `qdma_request_submit` to the callback, with the
control thread that starts and stops it and the hardware.

*State.* The fields of `struct qdma_descq` under their own names (`work` and
`pend` are the two lists, `workReqPend`, `pendEmpty`, `stopWait` the fields
`work_req_pend`, `pend_list_empty`, `q_stop_wait`); `offset`, `descNr`, `done`,
`status` are the fields of the request's callback block; `ring`, `doorbell`,
`hwc`, `wb`, `armed`, `pnd` are the hardware; `result` is what the caller has
been told and `moved` counts the descriptors the hardware has executed, both
only read by properties and by the threads that own them. `pc[t]` is where each
thread is, `mode` the driver mode chosen at load.

*The lock.* `at` is `"free"` when nobody holds `descq->lock`, else the place the
holder `cur` has reached. A section is a chain of steps and not one action,
since the status page is written by the hardware, `cb->done` read by waiters and
`pend_list_empty` by the stopper without the lock. Every section the code takes
is there:

| Code | Actions |
|---|---|
| `descq_mm_n_h2c_cmpl_status` | `Reap`, then `CmplDone` and `CmplPart` for each pending request, `CmplEnd` with the doorbell that arms the interrupt again |
| `descq_mm_proc_request`, `descq_proc_st_h2c_request` | `ProcStopWait`, `ProcSkip`, `ProcBegin`; `ProcFill` per request with `qdma_update_request`; `ProcFull`; `ProcRing`; `ProcExit` |
| `qdma_descq_service_cmpl_update` | `SvcStart`, `SvcCheck` |
| `xthread_main`, `qdma_thread_cmpl_status_proc` | `KthCheck`, `KthWake` |
| `qdma_request_submit`, `qdma_batch_request_submit` | `Submit`, `SubmitNoMap`, `BatchMap`, `BatchQueue` |
| `qdma_request_wait_for_cmpl` | `WaitWake`, `WaitFinish` |
| `qdma_queue_stop` | `StopBegin`, `StopWake` or `StopExpire`, `StopDrain`, `DrainPend`, `DrainNext`, `DrainWork`, `DrainEnd`, `Teardown` |
| `qdma_queue_start` | `StartConfig`, `StartOnline` or `StartFail` |

*Data.* A request is its number of descriptors, so one turn of the writing loop
is one action: nobody else can see the descriptors before the doorbell.

*The hardware* (external) executes descriptors in ring order up to the doorbell,
writes its consumer index back at any later time, and raises one interrupt if
one is armed; a writeback that came unarmed raises it when it is armed again.
This is how the driver uses it (`irq_en` in every doorbell).

*Assumptions that are constants.* `HwInTime`: the 60 s the drain of a stop waits
only pass when the hardware has written back all it was told and nobody is about
to reap it; a queue may still expire then, which is the case the kernel thread
sleeps through. `Shared`: the vector or the thread has other queues too, so it
may also be run for no reason of this queue.

### `ResourceMgmt` and `QueueRanges`: who owns the hardware queues

`ResourceMgmt` has the manager's `free_list` as a sequence of chunks, one entry
per function (`entry`, `active`), the master count, and how far each function's
driver is. Each call of the manager holds its mutex once and is one action;
probing, closing and the messages of virtual functions make several calls, and
the other functions come in between. `Request` is `qdma_request_q_resource` in
full: give back (`Submit`: insert in order, merge neighbours), take (`Places`:
the wanted range, else best fit), restore on failure. `Cleaned` is which queues
`qdma_device_cleanup` removes.

`QueueRanges` is the abstract manager: each function owns a range, the rest is
available, and a range changes only while its owner uses no queue of it.
`ResourceMgmtProps!KeepsRanges` is the refinement: `owned` is what the entries
say, `avail` the union of the free list's chunks, `busy` who has queues added.

### `QueueTable`: libqdma's tables and the driver above them

`tab` is the state and mode of every descriptor queue of the three kinds,
`qcnt` the active counts, `qdata` and `cdev` the driver's records (`qdma_mod.c`:
has it a handle, a character device; which directions the device serves).

| Code | Action |
|---|---|
| `xpdev_queue_add` with `qdma_queue_add`, `is_usable_queue`, the counting, and each failure in between | `AddQueue` (`Chosen`, `Register`, `PrepFailed`) |
| `qdma_queue_start`, `qdma_queue_stop` | `StartQueue`, `StopQueue` |
| `xpdev_queue_delete` with `qdma_queue_remove` | `RemoveQueue` |
| `xpdev_device_cleanup`, `qdma_device_cleanup` (function level reset) | `ResetDevice` (`Visit`) |

One control call is one step: netlink runs its requests one at a time
(`genl_mutex`).

### `Mailbox`: functions, their parent and the register between them

Per end: `todo` (`tx_todo_list`), `pend` (`rx_pend_list`), `wq` with `work` (the
single-threaded work queue and the item that runs), `busy` and `timer` (a busy
register and its retry), `out` (the outgoing register), `poll` (receive by timer
or interrupt); per sender what it waits for; `vst`, `online`, `slot` for who is
online and what the parent thinks of it.

| Code | Actions |
|---|---|
| `qdma_mbox_msg_send` and its wait | `MboxRequest`, `MboxOpen` (HELLO), `MboxBye` (BYE), `MboxExpire` |
| `mbox_tx_work` | `MboxTxSend`, `MboxTxSent` (written, now listed as pending), `MboxTxBusy` (retry, or give up), `MboxNothing` |
| `mbox_rx_work`, `mbox_rcv_one_msg` (two versions) | `MboxRxVf`, `MboxRxPf` with `VfOnline`, `VfOffline` |
| `mbox_timer_handler` | `MboxTimer` |
| `qdma_mbox_stop` | `MboxStop` |

The register is external: one message at a time, an interrupt at its receiver.
`PROMPT` in the module marks the one assumption on time: no wait expires between
two instructions of a work item that holds the message, and a sender is asleep
before its answer arrives. Without it `AnswerFindsRequest` fails, and the code
does have the hole: `tx_work` uses a message while the list is unlocked
(`qdma_mbox.c:341`), `rcv_one` sets `resp_op_matched` (:181) before it copies the
answer (:227), and a waiter that times out in between frees it. When the device
goes `OFFLINE`, :371 frees a message that is still on the list; `MboxStop` waits
for the list, so this is out of the instance.

### `NetTx`: transmission of the network driver

`xmit` is the transmitting thread (`pc`, packet, block), `memptr`/`numBlks` the
two words of a pool block that the scan reads and the callback clears one after
the other, `ring` the accepted requests, `cb` the callback in progress, `ifState`
the stage of open and close.

| Code | Actions |
|---|---|
| `qdma_net_xmit_frame`, `qdma_net_tx_enqueue_skb`, `qdma_net_mempool_alloc` | `NetXmit`, `NetScan` per block, `NetScanEnds`, `NetBuild`, `NetSubmit`, `NetUndo`, `NetDrop` |
| `qdma_net_tx_complete_cb`, `qdma_net_mempool_free` | `NetComplete`, `NetCompleteCb` |
| `qdma_net_setup_tx_resources`, `..._rx_resources` with their failures | `NetOpenTx`, `NetOpenRx` |
| `qdma_net_close`, `qdma_net_free_tx_resources`, `..._rx_resources` | `NetClose`, `NetFreeTx`, `NetFreeRx` |

External: the kernel's transmit lock and RTNL; the queue, which answers what it
accepted once each, in order (`AnsweredOnce`, `EveryRequestAnswered`), and before
a stop returns (`StopQuiesces`). That is how the module composes with
`QdmaDescq`: its environment assumption is the other one's checked property.

The driver has one transmit queue, of index 0 (`qdma_net.c:1440`), so the handle
`TxQid` is 0 and every close takes the branch that neither stops nor deletes the
queue (:608) and frees the pool all the same (:618). Completions of requests still in
the ring then use a freed pool (`stray`): the context holds whatever is there
now, so the packet may be lost and the callback may return at once. What is said of the
pool is said until then (`ContextHeldOnce`, `SkbHeldOnce`, `EverySkbFreed`), and
`LivesApart` says that it does not spread: the queue that was left behind makes every
later open fail, so no request of one life of the interface meets the pool of another.

### `StC2h` and `FreeList`: streaming receive

`StC2h` has the driver's view `q` (the descriptor ring's `pidx`, `avail`, `pend`
pointers, the completion ring's index and colour, the list of waiting requests)
and the hardware's `h` (its indices, the status it last wrote, the interrupt).
Operations under the queue's lock are one step: `SubmitRead`
(`qdma_request_submit_st_c2h`), `Service` (`descq_process_completion_st_c2h`, with
`RcvPkt`, `Process`, `Read`, `Refill`, and the two pointer writes), `IntrWork`,
and the network driver's `NapiPoll`, `NapiUpdate`, `NapiComplete`. The hardware
(external) comes between any two: `HwPacket` fills buffers and writes an entry,
`HwStatus` writes the status back, `HwInterrupt` raises an armed interrupt. A
unit of data is a number, so what a reader gets can be compared with the stream.

`FreeList` is what is under `Refill` when a packet handler owns the buffers:
`flq_fill_one`, both loops of `flq_refill_pages`, the two running indices over
the ring of pages; one step is one `qdma_flq_refill`.

### `IntrRing`: the interrupt aggregation ring

In indirect mode a function has one ring (`QDMA_NUM_DATA_VEC_FOR_INTR_CXT` is 1),
which the hardware fills with one entry per event of any queue. `IntrTake` is a
turn of the loop in `data_intr_aggregate`: it takes an entry while its colour is
that of the handler's turn around the ring (`coal.color`, toggled at
`qdma_intr.c:250`), and schedules the queue's work. `IntrBreak` and `IntrReport`
are apart because the hardware (`HwEvent`, external) may write between the last
look at the ring and the index that is reported; `prev_descq`, through which a call
without entries reports, is set once `scheduled` is not empty. That the hardware
interrupts again on a report that leaves entries behind is taken from that
"stale update". While an interrupt is unanswered the model lets it send more or
none. The lookup of the queue (`qdma_device_get_descq_by_hw_qid`) does not fail
for entries of the function's own range. `events` and `scheduled` are histories.

### `Threads`: the polling threads

In poll mode the queues of all devices share the threads of `qdma_thread.c`.
`kth` is a thread with its list and its flag `schedule`, `ctl` the control thread
of each queue, `requests` whether a queue has requests out; the rest of a queue is
in `QdmaDescq`, which has one queue and whose thread never ends.

| Code | Actions |
|---|---|
| `xthread_main`, `xthread_work_pending`, `xthread_reschedule` | `Check`, `Scan` per queue, `Reschedule` (the sleep), `Begin` (the flag is cleared), `Proc` per queue |
| `descq_mm_proc_request` and the wakeup behind its lock | `Submit`, `Wakeup` |
| `qdma_thread_add_work`, up to the queue being online | `StartQueue`, `Pick` per thread, `Link`, `Online` |
| `qdma_queue_stop`, `qdma_thread_remove_work` | `StopQueue`, `Drained`, `RemoveWork`, `Unlink` |
| `qdma_threads_destroy`, `qdma_kthread_stop` | `BeginUnload`, `SetSchedule`, `KthreadStop`, `Join` |

The flag, the sleep and the wakeups take no lock, the lists do. External: the card,
and `kthread_stop`, which from Linux 6.0 on also ends an interruptible wait
(`StopSignals`). What the model shows besides: a search for a thread that finds
none idle keeps comparing with the first thread's count (`qdma_thread.c:152`), so it
takes the last thread with less than the first, not the least loaded.

### `AxisFifo`, `BeatQueue`, `FlowGen`: the packet generator

`AxisFifo` has the registers of `axis_fifo.sv` in one record and the clock edge
in `Clock`; `BeatQueue` is the bounded queue it implements, with
`AxisFifo!FifoIsQueue` the refinement. `FlowGen` puts a generator
(`traffic_gen.sv`, `GenClock`) and a FIFO per flow under the scheduler
(`flow_gen.sv`, `Tick`), and has register writes at any time (`WriteConfig`,
`WriteRunning`). The instance on the card is commented out
(`axi_st_module.sv:426`), the test bench has it.

What the model shows that is no property: a stopped flow leaves its packets in
the FIFO and they are sent; `pkt_size` on the output is that of the new
configuration while an old packet goes out; a size below 64 gives a packet
without end; `cycles_per_pkt` holds the written value less one.

### `TcpCtrl`, `TcbCache`, `Rto`, `TcpEngine`: the TCP engine

`TcpEngine` is the data path of `top_level.sv` from the header queue to the
transmit output, one clock edge per step; only what arrives is chosen.

| Code | Where |
|---|---|
| `tcp_fsm.sv` | `AnswerRules` (flags to answer, and whether the connection ends), `Transitions` |
| `tcp_ctrl.sv` | `Ingress`, `Egress`; its registers `Control` |
| `cache.sv` | `TcbCache`: `LookupClock`, with `Allocate`, `AllocateLast`, `Forget`, `Answer` |
| `rto.sv`, `tx_arbiter.sv` | `Rto`: `RtoClock`, with `Arm`, `Cancel`, `Turn`, `GrantLp`, `GrantHp` |
| `tcb_mgr.sv`, `writeback.sv`, `tcb.sv` | `Manage`; `WbValid`, `WbAddr`, `Transmit`; `Memory` |
| `tx_datapath.sv` | `Packet` |
| `fifo.sv` (vendor FIFO, external) | `Rto!FifoClock` |

A wheel slot is named by its distance from `rd_ptr`. A block that is read in the
cycle it is written in may be read old or new: the memory's ports have
independent clocks.

The model is of the engine out of reset. On the card it is not:
`axi_st_module.sv:361` connects its active-high `rst` to the active-low
`axi_aresetn` (`qdma_app.sv:795`), so it stands in reset while the card runs.

Headers are those of peers that open with a SYN and acknowledge what they get,
and one may arrive in any cycle: `rx_datapath.sv:33` is always ready and :43
queues every beat. Back to back they show what a lookup does that takes two cycles: it
reads the memory at the sets of one header and compares, one cycle later, with the
tags and sets of the header at the queue's output *by then* (`cache.sv:398`,
although :395 says "registered tag"). Three histories in the record of the table let
properties speak of it: for whom the memory was read (`asked`), whom a block was given
to (`of`), and which connections were compared with another's reading (`crossed`).
Such a connection may get a second block (`OneBlockEach`, run `tcp_burst`), no other
may (`SecondIsCrossed`), and the table itself stays one to one (`CacheConsistent`).

What the model shows that no property here states as right: the lock of
`tcb_mgr.sv` is taken and never tested, so the update of a duplicate SYN and the
write back of the transmission overlap; two timers can be armed for one block
(the mapping then names the later one only); `tcp_ctrl.sv:139` and :142 compare the
block's own `ack_num` where its pseudo-code comment (:101) has that of the packet, and
SYN, ACK, ACK brings `snd_una` above `snd_nxt`; an established connection that
gets a FIN goes to TIME_WAIT where a comment says CLOSE_WAIT; closed connections
keep their block, and blocks are not given out again before number 63.

## 3. What the runs check

All bounds are constants in the configurations. Deadlock is checked in `parts`
and `live` (a bounded supply of packets ends in an explicit quiet step that asks
that nothing is left to do) and not in the others (`CHECK_DEADLOCK FALSE`): a
queue whose callers have all been answered, or whose starts are used up, stops.

| Run | Instance | Shows |
|---|---|---|
| `descq_wait` | two sleeping callers (one with a timeout), a batch of two, both modes, shared vector; 1.6 M states | a request that times out is on no list when its caller returns, whatever a completion does meanwhile |
| `descq_stop` | three asynchronous requests of 2, 1 and 3 descriptors, two starts, two stops, both modes; 2.9 M states | ring and credit accounting, no early completion, each request answered once, no DMA after an answer, a stop that drained leaves idle hardware, freed status page never read |
| `descq_live` | two requests, one asynchronous of three descriptors, a mapping that may fail, one start, one stop; 64 k states, with fairness | every request is answered, a stop returns |
| `alloc` | two physical functions and one virtual one, three hardware queues, one queue of each kind; 267 k states | the allocator implements `QueueRanges`; a failed update leaves the old range; counts are right (the types are not checked for their own sake: a count below zero breaks `ActiveCounts`, an empty or misplaced node `KeepsRanges`) |
| `parts` | see below; 149 k states | receive queue, pages, FIFO, generator, table of queues, aggregation ring, TCP engine |
| `live` | see below; 159 k states, with fairness | mailbox, network transmit and polling threads |
| `descq_timeout`, `descq_stop_wait`, `net_close`, `net_pool`, `tcp_burst`, `queue_auto` | smallest instances | section 5 |

*`descq_*`.* The ring has `RngSz = 3`, two usable descriptors: it wraps after
every second one, is full with one or two requests, and the request of three
descriptors never fits at once; requests between a part of and more than the ring
give each outcome of the credit loop. Two starts and two stops (`MaxStart`,
`MaxStop`) are what it takes for state of one life of the queue to leak into the
next. *`alloc`.* Three hardware queues for three functions is the smallest number
for which a free list has a node in front, one behind and one to merge with.

*`parts`*, by part:

| Part | Bounds | Properties |
|---|---|---|
| `StC2h` | ring of 6 buffers of 2 units (`R`, `BufSz`), completion ring of 3 (`RC`), packets of 0 and 3 units (`PktLens`: none and one and a half buffers), at most 4, requests of one and two packets (`ReqLens`), at most 2, `Budget` 2, error entries | a reader gets the stream in order, once (`ReadIsStream`); the driver's count covers the buffers the hardware may fill (`BuffersCovered`); a request waits only while there is nothing to read (`WaitsForData`); no wakeup is lost between poll, interrupt and pointer write (`WakeupNotLost`) |
| `FreeList` | 8 buffers, 2 per page, indices modulo 32 (`Span`) | every descriptor has a buffer of its own (`BuffersOwn`) |
| `AxisFifo` | depth 3, two values, `tlast` or not, any memory at reset | it is a bounded queue (`FifoIsQueue`; the flags are exact by proof) |
| `FlowGen` | 2 flows, FIFOs of 2, packets of 2 beats, two rates, byte counter modulo 8 | packets are not mixed (`PacketsWhole`), turns are taken (`RoundRobin`), a flow keeps its pace whatever is written meanwhile (`Pace`) |
| `IntrRing` | 3 entries (`Entries`), two queues (`Qid`), 7 events (`MaxEvents`), so that both sides wrap twice and the hardware is held up | every event is passed on once, in order, and none stays behind (`EventsPassedOn`) |
| `QueueTable` | 2 queues of each kind, indices given, preparation may fail, a virtual function | `QueueHasOwner`, `ModesAgree` |
| `TcpEngine` | 2 connections that meet in both of their sets; flags SYN, ACK, FIN+ACK, RST; 2 headers in any cycles, back to back too; 2 ways, 2 sets, 4 blocks, wheel of 8, a tick every 4 cycles, given up at backoff 2, FIFOs of 2 cycles | the table of connections stays one to one (`CacheConsistent`); a second block only after a lookup that met another's reading (`SecondIsCrossed`); the engine falls silent (`RetransmissionEnds`) |

The rings of `StC2h` wrap twice in four packets. Two headers are a connection
opened twice, opened and acknowledged, two that compete for a way, and one that
is reset or closed while its timer is set.

*`tcp_burst`.* Three connections that meet in both sets, two of them with one hash in
common, and three headers (SYN or RST) in any cycles: a second block needs one
connection in the table, another at the head of the queue and a header of the first
right behind it. Two ways, two sets, five blocks. The run ends where
`OneBlockEach` fails; searched to its end with `CacheConsistent` and `SecondIsCrossed`
instead, the instance has 3.1 M states and both hold (not a run: they are proved for
any number of headers). Nothing is claimed once the last block, 63 (4 in the
instance), is given out: that branch of `cache.sv` writes address zero into the
entry and marks a block at its former cell. Three headers do not reach it.

*`live`.* Mailbox: two functions, one open at the start, one closed; three
senders, two in one function with the same operation, one send each, a wait of
one of them may expire, two retries. All ends receive by timer, or all by interrupt.
NetTx: four packets, a pool of three blocks, so that the scan wraps and is
refused; every step of open may fail; closes with requests in flight, and opens
after them; the use of a freed pool is one of its states.
Threads: one thread for two queues that are started and stopped again without
bound, so that a walk, a sleep and the wakeups of one queue meet the coming and
going of the other. No thread sleeps while its queue has work, and the exit of the
module comes to its end (`NoWakeupLost`). Two threads for two queues pass too (449 k
states, 2 minutes alone, not a run).

*Assumptions of the passing runs*, each with what fails without it:

| Where | Assumption | Without it |
|---|---|---|
| `descq_stop`, `descq_wait` | no sleeping callers across a stop, no timeout beside a completion of others, no batch whose mapping fails | the runs of section 5; `AnsweredOnce` for the batch: `libqdma_export.c:2609` calls back and queues the request all the same |
| `QdmaDescq`, `HwInTime` | the drain's 60 s pass only when the hardware has written back all it was told and nobody is about to reap it | a stop gives up on requests that are executed later |
| `alloc` | no MM completion queues; a parent sees its virtual functions off before it closes | `ActiveCounts` fails (section 5); `xdev_sriov_disable` waits 50 ms for each |
| `StC2h` | requests end where buffers end (in `parts`: where packets do; `EndsAtBuffers` of `PartsProofs` in general), or a handler takes the packets | a buffer read in part keeps its offset when recycled (`qdma_st_c2h.c:592`, :446), and all three data properties fail |
| `StC2h` | buffer size and length such that `get_fl_nr` (:704) counts right | a length that is a power of two with a buffer size that is not is undercounted |
| `StC2h` | nothing after an entry with an error | `pidx` is not updated for it |
| `FreeList` | one or two buffers per page; a new page can be allocated (`MayFail`) | `BuffersOwn` fails from three per page on, against the comment at :267; a page that failed to be allocated stays dangling in the ring |
| `QueueTable` | indices given; only the preparation of a virtual function fails | `queue_auto`; a physical function stays enabled without handle, as after a failed count (`libqdma_export.c:1628`) or character device (`qdma_mod.c:1205`, which `xpdev_queue_delete` then refuses) |
| `Mailbox` | `PROMPT` | `AnswerFindsRequest` |
| `Threads` | `StopSignals`: Linux 6.0 or later | `ThreadsEnd` fails: `qdma_kthread_stop` sets `schedule` (`thread.c:182`) and then calls `kthread_stop`; a thread that is awake in between clears the flag (:107), finds no work, and sleeps through the wakeup, whose condition is the flag alone; `libqdma_exit` waits for ever |

*Fairness.* `QdmaDescq!Fairness`: weak for the holder of the lock, the hardware,
the service thread or work and each caller inside a call: the kernel runs them.
Strong for the control thread, since a kernel thread that polls takes and
releases the lock for ever, and the lock, a queued spin lock, is granted in turn.
Nothing obliges anyone to submit, start or stop, or a timeout to pass except the
drain's. `MboxFairness`: queued work runs, an armed timer fires. `NetFairness`:
the transmitting thread runs on, the queue answers what it accepted
(`EveryRequestAnswered` of `QdmaDescq`). `ThreadsFairness`: the polling threads run,
a submitter goes on to its wakeup, the card executes what it was told of, an exit
that began goes on; nobody has to start or stop a queue. In `parts` only the clock of the TCP
engine is fair; it has no choice but the arrivals, which are bounded.

Each property of a passing run has a mutant: a plausible mistake in the code (an
index not reset, a wrapped index not corrected, a drain that skips its wait) that
the run refutes. The mutated operators stand beside the right ones and are marked.

## 4. What is proved

Each with its assumptions; there are no others than the `ASSUME`s named.

**Descriptor queue** (`QdmaDescqProofs`), for every set of requests, every
`NDesc`, ring size above 1, mode and bound, from the three `ASSUME`s of
`QdmaDescq`:

- `TypeCorrect`: `Spec => []TypeOK`. Not only a matter of sorts: that indices
  stay in the ring and `avail` and `credit` never go below zero needs to know
  what a writeback can be.
- `RingSafe`: `Spec => []RingAccounting`. Free and outstanding descriptors make
  up the ring less one slot; written-back, hardware and doorbell index follow
  each other between consumer and producer index.

Both follow from `InvHolds`, the invariance of

    Inv == TypeOK /\ LockOK /\ StopOK /\ RingOK /\ FillOK

`LockOK` says where the holder of the lock can be: the places that write
descriptors are reached on an online queue only, those of the drain by the
control thread only, while the queue is no longer online. `StopOK` relates the
stages of the control thread to `q_state` and to the ring being there, and says
that a start programs the queue with both driver indices at zero: the hardware's
are reset to zero there, and the order of the indices depends on it. `RingOK` is
`RingAccounting` stated so that it also survives a ring that is torn down, with
the index that the next doorbell will carry. `FillOK` bounds what a request may
have written, so that `ProcFill` always takes a positive number.
The proof has one lemma per action, and lemmas on ring arithmetic
(`Delta` and `Incr` around the wrap).

**Stopping a descriptor queue** (`QdmaDescqHwProofs`, first part), as general, from
`DrainInv`:

- `StopsQuiet`: `Spec => StopQuiesces`. A stop whose wait was satisfied takes the
  queue offline with the hardware idle.
- `FreedPageUnread`: under `HwInTime`, `Spec => []StatusPageMapped`. An interrupt
  work that is still queued does not read the status page that was freed.

The control thread reads `pend_list_empty` without the lock. `DrainInv` says why
that is enough: the flag is set with descriptors outstanding only inside a
section that is writing them, outside of such a section the hardware was told of
every descriptor, and once `q_stop_wait` is set no section writes. A queue that has
drained therefore stays drained. If the wait runs out, only `HwInTime` says so.

**Answers to requests** (`QdmaDescqProofs`, second part), as general, from `AnswerInv`:

- `NothingDangles`: under `CalmUse`, `Spec => []NoDanglingRequest`.
- `OneAnswer`: under `CalmUse`, `Spec => AnsweredOnce`.
- `RequestsCounted`: under `CountedUse`, `Spec => []WorkReqPendCounts`.

`CalmUse` is: no caller sleeps on a queue that may be stopped, and no batch whose
mapping may fail; the run `descq_stop_wait` and `libqdma_export.c:2609` are why.
`CountedUse` is: no sleeping caller, and no batch (section 5).
Timeouts are in the first two theorems, stops of asynchronous requests in all.
`AnswerInv` says that a request is on one list at one place, is open for as long as
it is listed, and has not been listed before it was sent; all three are needed,
since a request moves between the lists while others are appended and removed.

**What lies in the ring** (`QdmaDescqHwProofs`, second part), as general, under
`CalmUse` and `Timed = {}`:

- `LaidInOrder`: `Spec => []LayoutOK`.
- `SuccessMeansMoved`: `Spec => []NoEarlyCompletion`.
- `BuffersUntouched`: with `HwInTime` too, `Spec => NoDmaAfterAnswer`.
- `CreditsAccounted`: `Spec => []CreditAccounting`.

The driver never looks which descriptors were executed: it counts how many, carries
the rest as a credit, and takes requests off the head of `pend_list`. Why that
finds the right ones is `LayoutOK`: there are a start `f[r]` for every request and
an end `e` (all counted from `cidx`, modulo the ring) such that the first pending
request starts the credit before `cidx`, each next one where the last one ends,
the last one ends at `e`, and what lies between `e` and `pidx` is the part of the
first waiting request that is written; each slot holds the request that lies
there, and `moved` of a request is what does not lie ahead of the hardware.
`CreditsAccounted` counts them: the descriptors that are waited for lie side by side
from the credit before `cidx` up to `pidx`, which is a bijection with that interval.
The inductive invariant

    LayInv == LayoutOK /\ WorkFresh /\ DoneOK /\ StaleOK /\ OffOK

adds that a request behind the first of `work_list` has nothing written, that a
finished request has all its descriptors executed, that no slot of a queue that is
being started again will be executed for a request of its former life, and what
the lists hold while a stop empties them. A request that timed out leaves its list
and not the ring, so the layout fails with timeouts, and so does the property: the
run `descq_timeout`. For `BuffersUntouched` the hardware must also have finished
when a queue goes offline (`QuietOK`, from `DrainInv`), which a drain that ran out
does not say without `HwInTime`.

**Network transmission** (`NetTxProofs`), for every pool that an unsigned index can
count twice over and any packets, with the handle 0 that the driver's queue has:

- `ContextIsHeldOnce`, `SkbIsHeldOnce`: `[]ContextHeldOnce`, `[]SkbHeldOnce`.
- `RefusesOnlyBehindBacklog`: `[]RefusedOnlyBehindBacklog`.
- `LivesAreApart`: `[]LivesApart`.

The invariant has two sides. Until a freed pool is used (`stray`) it is `PoolInv`;
from then on `Gone`: the queue is still in libqdma, the pool is not there, and no open
succeeds any more, so nothing is transmitted (`StrayStep`, `GoneStays`).

The pool is scanned by the one transmitting thread and freed into by completions,
without a lock. `PoolInv` says that the marks are exactly the blocks that lie in the
queue or that one of the two threads works on, each in one place (`Marked`,
`UsedOnce`: a block is marked before it is handed out, and its mark is the last thing
a free clears), which packet is behind each of them (`SkbOK`), and that the block
handed out last is the youngest in use as long as no submission failed (`Youngest`):
that is why a scan which stops at the end of the pool may still refuse. The proofs
also need that the index of the scan does not wrap, the `UIntMod` of the `ASSUME`.
`CloseOK` adds, for the last two, what each stage of open and close has left to undo.

**Mailbox** (`MailboxProofs`), for any virtual functions, threads, operations and
retries, and any number of messages, from `MboxAssumption` and under `PROMPT`:

- `ParentKnows`: `MboxSpec => []ParentKnowsOnline`, by `KnownInv`.
- `AnswerOwn`, `AnswerMet`: `[]AnswerIsOwn`, `[]AnswerFindsRequest`, by `FlightInv`.

`MboxInv` says what may lie where: messages are addressed (`Addressed`), a thread
sleeps for its own request only (`Asleep`), and what waits for an answer is listed
once and somebody sleeps for it (`Listed`). The lemma `StepEffect` reduces the steps
to what they do to lists, registers and sleepers; work queues, timers and interrupts
only decide when, but for the place between the two halves of a transmission.

`KnownInv` is a session per function: one hello and one farewell at most are on its
side, a farewell in front of the next hello (`Line`), one answer to a hello at most is
on its way (`Greeting`), and the parent has a slot for the function if and only if it
has read a hello and no farewell since, which `Online` tells from the function's state
and what is unread. `Slotted` is the count and that nobody has two slots; that a hello
finds a free one is the pigeonhole principle.

`FlightInv` compares two orders. Read from the parent's register back through the
parent's list to the function's own register, the answers and the request that will
become one are in flight; `rx_pend_list` and the request just sent are what waits.
`InOrder`: as long as nothing was given up, both hold the same requests, none overtaken.
After an answer was lost that is no longer so, but no more answers come than requests
wait (`Enough`), which is all `AnswerFindsRequest` needs. Both are per operation, and
hold for the operations that have not timed out. What makes a function start afresh
is that nobody sleeps on it then, so nothing waits, so nothing unexpired flies.

**Aggregation ring** (`PartsProofs`), for every size of the ring above 1 and any
queues: `AllEventsPassedOn`, `IntrSpec => []EventsPassedOn`. The invariant `IntrInv`
says what colours mean: in front of the hardware's index all entries have the
colour of its turn, from it on that of the turn before; handler and hardware are
in the same turn or the hardware is one ahead, by less than the ring. So the
handler's next entry has its colour just when something waits. The rest says that
what waits is what was not passed on, in order, and that an interrupt, or a handler
that has yet to report, stands behind it.

**Streaming receive** (`PartsProofs`), for any size of the two rings above 1, of the
buffers, of packets and requests, any budget, with and without errors:

- `WakeupKept`: `C2hSpec => []WakeupNotLost`.
- `BuffersAreCounted`: `C2hSpec => []BuffersCounted`, the half of `BuffersCovered` that
  says who has which buffer.
- `BuffersAreCovered`: `C2hSpec => []BuffersCovered` where every queue has a packet
  handler (`Handlers = {TRUE}`), as in the network driver.
- `StreamIsRead`: `C2hSpec => []ReadIsStream`, `RequestsWait`:
  `C2hSpec => []WaitsForData`, and `ReadBuffersCovered`: `C2hSpec => []BuffersCovered` for
  every kind of queue; from `StreamInvHolds`, under two more assumptions below.
- `HandlerGetsStream`: `C2hSpec => []ReadIsStream` for the network driver, from two facts
  about it only: buffers a power of two in size (`PageSz = BufSz`) and a handler.

They assume `CountsRight`: for every length of a packet `get_fl_nr` gives the number of
buffers that the hardware used. That is so for every length when the size of a buffer
is a power of two, as the 4096 of index 0 is, which the network driver takes
(`qdma_net.c:545`, `eqdma_soft_access.c:2448`), and for the lengths of `parts`;
section 3 says what happens otherwise (`PowersCountRight` is the lemma for powers of two).
The theorems on the stream add `LengthsRight`, that the length which `get_fl_nr` gives the
last buffer is what the others leave (so for powers of two by the same lemma), and
`EndsAtBuffers(unit)`: packets and requests are multiples of a unit, and where such a
multiple falls inside a packet a buffer ends as well. With a handler there are no
requests, and this holds for any packets; without one it holds with whole
buffers as the unit, and in `parts` with 3, no multiple of which lies inside a
packet (`WhenEndsAtBuffers` has the first two). A request that ends inside a buffer is
the case of section 3 in which the code loses the stream. The invariant `C2hInv` says nothing once
the code has seen an entry with an error (`q.err`), like the properties. Else:

- The places in the completion ring follow each other: read by the driver, shown by
  the status, written (`PlacesRight`); entries not read have the driver's colour up
  to the end of the ring and the other one behind it (`ColoursRight`).
- The driver never sees where a packet begins: it adds up lengths. `Packets`
  gives the number of buffers before each waiting packet, and says that after the last one
  the driver will be where the hardware is. An entry taken removes one from the front,
  a packet that arrives adds one at the back. It also says where each packet lies
  (`Lies`): its buffers hold consecutive parts of the stream.
- `avail` is what was not handed to a reader or handler (`BuffersRight`): buffers
  from `pidxPend` to `pidx` were not given back, and only they may be marked valid.
  What the hardware has, from `pidx` to its own index, never exceeds `avail`.
- A handler keeps no buffer between two operations (`ToldRight`), so for it all buffers
  are whole again (`HandlersWhole`); without a handler all but the readable ones are.
- `StreamInv` adds the stream. `Mark(s)` is the number in the stream of the first unit that
  slot s holds, or will hold if it is the hardware's next. `Streamed`: the buffers from
  `pidxPend` to `pidx` hold the stream from `taken` up to the mark of `pidx`, each from its
  own mark to the next one's, and no request ends strictly inside one. So a request takes
  buffers whole, and what it got are the units before `taken`. A packet taken in
  extends this by its buffers, which is what `Lies` is for; a packet that arrives is
  written behind all these marks (`MarksStay`), because the hardware stays behind
  `pidxPend` by the count of `BuffersRight`.
- `WaitsRight`: a request is on the list only while `dlen` is zero, because one that
  is not satisfied has read everything; `pendEmpty` is set when none is.
- The interrupt is armed unless a poll is on its way that will write the pointers, or
  the hardware's event was noted as missed (`WakeupRight`).

**Pages of the buffers** (`PartsProofs`), for any ring, any span of the indices, and one
or two buffers per page (`PerPage \in {1, 2}`), when pages can be allocated
(`MayFail = FALSE`), from the `ASSUME`s of `FreeList`: `BuffersAreOwn`,
`FlSpec => []BuffersOwn`. With three per page or a failure it is false (section 3).

Buffers are numbered as they are cut, page after page. `FlInv` says that the
descriptors hold as many consecutive buffers as the ring is long, number x at
descriptor x modulo the ring, on the page that the number gives; and that `used` of
each page is how many of these buffers are on it. So what the loops of
`flq_refill_pages` take off the pages, without looking whose they are, are the oldest
ones, which are those of the packets (`TakesNext`); a page with none left is behind all that
are held, and replacing it disturbs none of these (`ReplacesNext`); and the buffers cut
next carry on the numbering (`FillsNext`). That there is always a page to cut from is
a count: rounding up to a power of two and doubling leaves at least as many pages as
descriptors (`PagesEnough`). With two per page, the page that buffers are cut from
holds at most one, the last one cut; at most the ring less one are taken at once, so
nothing is taken off that page and `alloc_idx` is not passed. With three it may hold
two, and when the older one is taken off, the next is cut where the younger one lies.

**Abstract manager** (`PartsProofs`): `RangesPartition`,
`RangeSpec => []Partition`: no queue is owned twice or lost, for any functions and
any number of queues.

**Resource manager** (`ResourceMgmtProofs`), for any physical and virtual functions,
any `QBase`, number of queues and `MaxQ`, from the `ASSUME` of `ResourceMgmt`:

- `ImplementsQueueRanges`: `Spec => KeepsRanges`, the refinement: every call is a
  step of `QueueRanges` or none.
- `RestoresOnFailure`: `Spec => FailedUpdateKeeps`.
- `NoQueueLostOrShared`: `Spec => []Ranges!Partition`, in the code's own terms.
- `CountsExact`: under `~MmCmptEn` (`qdma_device.c:283` is why, section 5),
  `Spec => []ActiveCounts`.

The invariant `RangesInv` has three parts. The nodes of `free_list` are in order and
do not overlap (`InOrder`); what the entries and the list cover is a partition of the
device's queues (`Parts`); and for each function (`OneStep`) the entry exists while
its driver is open, it has queues only then, and the entry's counters are the queues
it has added, so that *idle* in `qdma_dev_update` means that no queue is in use.
The first half of the proof is about lists alone: `SubmitKeeps` (a chunk given back
adds its queues, and lies inside one node of the merged list) and `CutKeeps` (taking
queues out of a node takes exactly those, whichever of front and back remains).
`Within` is why a request that fails can take back what it gave: merging makes the old
chunk part of a larger node, and only because that node has all of it the search at
`old_qbase` finds it. The merge goes through a list of any length; the induction is
over its positions, from the least position where the claim would fail (`UpTo`).
The master's count is a number that the calls move up and down. `CountInv` says it is
the size of a set, an element for each queue and each counter that counts it (`Pile`):
a call changes the part of one function, the other parts are disjoint from it
(`PileChanges`), and `NoneLeft` is why the count may be reset with the master resource.

**FIFO** (`AxisFifoProofs`), for every depth above 1 and every set of beats:

- `FlagsAreExact`: `FifoSpec => []FlagsExact`.
- `FifoImplementsQueue`: `FifoSpec => FifoIsQueue`, the refinement: initial states
  map to the empty queue, every edge to a put, a get, both, or a stutter.

The inductive invariant `FifoInv` is the type of the registers and `Exact`: never
both flags, and one of them just when the pointers are equal. That is what the
prediction in `axis_fifo.sv` must keep: the pointers alone do not tell full from
empty. The refinement needs the contents as a sequence; the lemmas say what
writing at `wr_ptr` and moving either pointer do to it, modulo the depth.

**Packet generator** (`UserLogicProofs`), for any number of flows, any depth of the
FIFOs above 1, any finite set of rates and packet sizes below the width of the
counter (`FlowAssumption`), with register writes in any cycle:

- `PacketsNeverMix`: `FlowSpec => PacketsWhole`.
- `TurnComes`: `FlowSpec => []RoundRobin`.
- `PaceKept`: `FlowSpec => Pace`.

What is proved of one FIFO is used for each flow's (`P`, an instance of
`AxisFifoProofs`), so a FIFO is a sequence of beats here. `FlowInv` has three ideas.
*Whole packets* (`Framed`, `Whole`): a beat after a `tlast` begins a packet and no
other does, across FIFO and generator, and while a packet is generated its last beat
so far is still in the FIFO: the generator adds one in every cycle with room, and
without room there are at least two beats. So the flow whose packet is on its way
always has a beat, and the scheduler, which would leave it otherwise, does not.
*Turns* (`NextTurn`): the packets begun while a flow waits, and its distance from the flow
being served, add up to less than the number of flows, plus one while a packet is
on its way; a header that leaves uses up that one, and the end of its packet brings the
turn nearer, never past a flow that waits (`Nearer`). *Pace* (`Paced`):
`wait_counter` starts with the packet and never goes faster than the clock.

**Connection table of the TCP engine** (`UserLogicProofs`), for any number of ways, sets,
blocks and connections and any delay of the header FIFO, from the `ASSUME`s of
`TcbCache` and `TcpEngine`:

- `CacheIsConsistent`: `EngineSpec => []CacheConsistent`.
- `SecondOnlyCrossed`: `EngineSpec => []SecondIsCrossed`.

Neither assumes anything of the hashes or of the cycles in which headers arrive. In
`EngineInv` one lookup goes on at a time (`OneLookup`), and what it compares is what
the memory held for the header it began with (`ReadsAsked`): no entry is written in the
cycle of the read, since that is the cycle of no other lookup's comparison.
`TableRight` ties memory, valid bits, reverse map and bitmap together; a new entry
goes to a cell that was free (`FreeCell`, `AllocateKeeps`), and a block is given up with
its cell (`ForgetKeeps`). For `SecondIsCrossed` the cell of a block is one its
connection is looked for in (`OwnersRight`), so that a miss of the header that was asked
for means that no block is its connection's (`MissFinds`); a miss of another is the case
the property names (`LookKeeps`). After the last block was given out
(`AllocateLast`) nothing is claimed.

**Table of queues** (`PartsProofs`), for any number of queues, under `Named`
(indices are given; the one failure is the one a virtual function takes back):

- `EveryQueueHasOwner`: `TableSpec => []QueueHasOwner`.
- `ModesAlwaysAgree`: `TableSpec => []ModesAgree`.

The invariant `TableInv` adds to the types that the driver's records follow the
queues *exactly* (`Follows`: a pointer to the character device if and only if the
direction is added): a removal finds the device by its own record, and
`xpdev_device_cleanup` visits a device once per record that points to it.

Only model-checked: of the descriptor queue what its data properties say with
sleeping callers beside a stop or with timeouts; and the polling threads.
Liveness under fairness is beyond
the prover used, and so is a general theorem on folds: the induction theorems of its
library cannot be instantiated. Where an induction was needed it was done by hand
from the order of the natural numbers, and loops that are proved about are written
as recursive functions (`LoopRuns`, `RunsAgree`).

## 5. Where the code and its documentation disagree

- `descq_timeout`: `qdma_request_wait_for_cmpl` (`libqdma_export.c:273`) takes a
  timed-out request off its list; its descriptors stay in the ring and their
  credits complete the next request early. The result of
  `qdma_request_submit` is documented as the number of bytes transferred (:2384).
- `descq_stop_wait`: the drain of `qdma_queue_stop` (:2001) leaves the entries of
  sleeping callers on the lists; only a timeout deletes them (:270).
- `net_close`: `qdma_net_free_tx_resources` (`net/qdma_net.c:608`) takes a handle
  of 0 for none, but the handle of the queue of index 0, which is the one the
  driver uses, is 0 (`libqdma_export.c:1452` warns of it): a close leaves the queue
  in libqdma and the next open fails.
- `net_pool`: the same close destroys the pool (:618) without the stop that would
  wait for the requests in flight; their callback, which is to free the packet (:1041)
  and to give the context back to the pool (`qdma_net_txrx.c:66`), uses freed memory.
- `tcp_burst`: `HW/qdma_2_ex.srcs/.../cache.sv:395` says that the registered tag is
  compared; :398 compares the one now at the queue's output, and the registered one is
  used nowhere. A header right behind another is compared with the other's reading
  and gets a second block for its connection.
- `queue_auto`: the search for a free queue (`libqdma_export.c:1540`) advances
  twice: the queue that is enabled is not the one whose index is returned.

Each of these is a run. The assumptions of section 3 name more of the kind, and two
more are seen when a constant of a passing run is changed:

- `qdma_batch_request_submit` (`libqdma_export.c:2629`) queues without counting:
  `work_req_pend` is documented as the current request count (`qdma_descq.h:101`), and
  the interrupt work decides by it. `WorkReqPendCounts` fails with a batch.
- A device removed with MM completion queues leaves the active count above zero
  (`qdma_device.c:283`). `ActiveCounts` fails with `MmCmptEn`.

## 6. What is not modelled

*Descriptor queue*: AUTO and legacy interrupt modes, user bypass descriptors
(`fp_bypass_desc_fill`), the early return of soft IP 5.0 for long segments
(`qdma_descq.c:306`), DMA mapping beyond its failure, a doorbell that fails (:416
returns with `proc_req_running` set), a request whose offset is out of range (:287
loops without leaving the list), several control threads at once.
`StartOnline` joins the assignment to a thread with the change to online, between
which no thread acts on the queue. *Threads*: creating them (a failure
frees the array under threads that run, `qdma_thread.c:210`), the choice of a CPU in
interrupt mode (`qdma_thread.c:117`), the second read of `descq->cmplthp` in a wakeup
(`qdma_descq.c:429`), which a stop may have set to NULL after the first. *Interrupts*: the choice of a vector
(`qdma_descq.c:775`), setting up and tearing down, error, user and legacy interrupts.

*Resource manager*: list nodes that cannot be allocated, several master
resources (search and insertion, `qdma_resource_mgmt.c:377`, are two critical
sections), lookups used after the lock is given back, the reset path that goes
offline and online without destroying the entry. One thing the module shows and
no run states: a failed request of a function with an empty chunk but a base
splits a free node in two (:355) that nothing merges, against the comment at :198.

*Queue life cycle*: two control calls at once (`libqdma_export.c:1566`, :1981);
hot removal: `xpdev_queue_delete_all` passes no buffer, so `qdma_queue_remove`
(:929) returns -EINVAL for every queue.

*Mailbox*: the messages a parent starts (dropped at `qdma_mbox.c:188`), a parent's
function level reset, and what two instructions of a handler see of each other.
*SR-IOV*: enabling and disabling functions.

*Streaming receive*: completion data without packet, the adaptive counter
threshold, the `irq_en` of the COMBO trigger mode (`qdma_st_c2h.c:1112`), a packet
handler that returns an error (:771; that of the network driver does for null
pointers only), a stop with requests waiting, liveness (the enabling condition of the
hardware's step is too large to evaluate in every state).

*Network driver*: the transmit timeout, which cannot be reached in practice,
ethtool, statistics. An allocation may be refused though a block is free; what
`RefusedOnlyBehindBacklog` says is when.

*Generator*: header fields and payload; the check sum that is missing for packets
above 32832 bytes. *TCP engine*: the receive parser, hash and check sums (data;
the source address is cut off the tuple that is hashed and compared), connections the
card would open, back pressure (the header FIFO's full and the stream's ready are
not looked at by the code), sequence numbers that wrap.

*Whole parts*: register and context access (`qdma_access/*_access`) is packing and
dump tables, generated per IP generation; together with netlink's parsing and
formatting and the test applications they are most of the repository's lines,
keep no protocol state, and are the reason why the modules stand for a small
share of it. The example design's register file and stream adapters are the
vendor's.

## 7. Plan

What would add most, in this order:

1. The layout of the ring with timeouts: a request that is no longer listed keeps its
   place, and `NoEarlyCompletion` is said of the others.
2. A second control thread in `QdmaDescq` and `QueueTable`.
3. The distribution of queues over vectors and CPUs, beside `IntrRing` and `Threads`.
4. The mailbox without `PROMPT`, with a message's life as state.
5. Streaming receive: stop with waiting requests, data without packet.
