# TLA+ models of tatix

tatix is a small operating system for x86-64, written in C: one processor,
cooperative tasks, interrupt handlers, a network stack from an e1000 driver up
to TCP and a web server, a RAM file system, and the memory management under it.
This directory holds TLA+ models of the parts whose correctness depends on the
order of things, the TLC runs that check them on small instances, and proofs
for TLAPS. Paths below are relative to the repository, as in `PROJECT.json`.

To check a run: `tlc -config <cfg> <module>`, with both names from the tables
below; to check the proofs: `tlapm` on `TaskProofs.tla`,
`TcpConnsProofs.tla`, `TcpStreamProofs.tla`, `NetStackProofs.tla`,
`E1000Proofs.tla`, `WebProofs.tla`, `MemoryProofs.tla` and `PagingProofs.tla`.

## 1. Inventory of the system

**Concurrency.** There is one processor. A task gives it up only in `sleep_ms`
(and when it returns), so everything between two sleeps is atomic with respect
to other tasks. Interrupt handlers run through interrupt gates, that is with
interrupts disabled: a handler is atomic, but may run between any two steps of
a task. The only interrupt handler that touches the state of a task is the
network receive interrupt.

| Component | State | Operations | Used by, uses | What is hard | What makes it correct |
|---|---|---|---|---|---|
| Input queue, `src/net/netdev.c`, and `task_net_receive`, `src/init.c` | ring of packets with head and tail, failure count per packet | receive interrupt adds; task gets, handles, releases or retries | driver -> queue -> ARP, IP | interrupt between any two steps of the task, full ring, retries | packets are kept and handled in order, bounded retries, the packet being handled is stable |
| Scheduler, `src/sched.c` | current task, sleep list ordered by wake time | create, sleep, poll, switch, finish | every task | busy waiting, ties, a task that runs on a freed stack | list = waiting tasks, never polled empty, no early wake-up, no starvation |
| TCP, `src/net/tcp.c` | 64 connections: state, accept queue, sequence numbers, window, receive buffer | segment handlers, listen, accept, send, recv, close | IP below, web server above | loss, duplication, reordering, full table, failing sends, wrap-around | handles live, queues consistent, data in order, nothing acknowledged that is not stored |
| Buddy allocator, `src/buddy.c`, behind `src/kvalloc.c` | free lists, bitmap | alloc, free | everything | long sequences of splits and merges | no page handed out twice, none lost |
| E1000, `src/net/e1000.c` | descriptor rings shared with the hardware | send, interrupt handler, poll | netdev | hardware runs concurrently, full rings, missed interrupts | each frame once and in order, no overrun of ring ends |
| ARP, `src/net/arp.c`, IPv4, `src/net/ip.c`, ICMP, `src/net/icmp.c` | table of 32 addresses; routing table | handle packet, look up, send | input queue, netdev, TCP | a missing entry makes the send fail and the packet be retried in front of the reply it needs | at most one entry per address; packets go to the right hop; echos are answered in the end |
| Web server, `src/web.c` | one connection at a time, retry counters | accept, receive, respond, close | TCP, RAM FS | errors half-way, connections lost or closed twice | every accepted connection is answered in full and closed, no other is |
| RAM FS, `src/ramfs.c`, `src/archive.c` | tree of nodes, data buffers | create, open, read, write | web server, buddy | failure half-way through a creation, growing files | tree without duplicates, contents = what was written |
| Paging, `src/paging.c`, with the pool of `src/include/tx/pool.h` | address mappings, page tables | map, unmap, translate | drivers, start-up | failure half-way, invariant over all mappings | the tables agree with the mappings, no table page is lost |
| Interrupts, GDT, PCI, time, configuration, console, boot loader | tables filled at boot | | | hardware set-up, no later concurrency | |

The full list of the hazards found in this code, each with its line and the
properties that would notice it going wrong, is in `PROJECT.json` ("hazards").

## 2. The modules

| Module | Models | State and actions |
|---|---|---|
| `PacketQueue` | what the input queue promises: a bounded FIFO that may drop what does not fit | `Put`, `Take` on a sequence |
| `InputQueue` | `netdev.c` ring, `task_net_receive` | one action per step of the task that an interrupt may come between; `Receive` is the whole interrupt |
| `Sched` | `sched.c` | `pc` says for every task what it is doing; `BeginSleep` is `sleep_ms` up to the search, `Resume` the found task being switched to, `Finish` and `FinalSwitch` the two halves of a task's end; `Tick` may come in between |
| `TcpConns` | the connection table of `tcp.c` | one action per handler and API call; segments are a peer, a port and a set of flags |
| `TcpStream` | the data of one connection of `tcp.c` | one action per handler and API call; segments are intervals of the peer's stream |
| `FileStore` | what the RAM file system promises: a map from paths to directories and contents | `Make`, `Write` on the map |
| `RamFs` | `ramfs.c` | nodes with their `first` and `next` links and buffers; one action per call that changes something, `Create` and `Write` |
| `Buddy` | `buddy.c` | `Alloc`, `Free` on free lists, bitmap and the blocks in use |
| `E1000` | `e1000.c`, registration in `netdev.c` and `isr.c` | the probe is one action per call that the device or an interrupt may come after; `Interrupt`, `Drain`, `Drained` are the handler and its loop; `SendFrame` is `e1000_tx_poll`; `DeviceReceives` and `DeviceTransmits` are the hardware |
| `NetStack` | `arp.c`, `icmp.c`, `ip.c`, sending in `netdev.c`, both network tasks of `init.c`, the SYN of `tcp.c` | one action per packet handled, per attempt of the ping, and per thing other hosts do |
| `Web` | `web.c` | one action per round of a loop: what is between two sleeps; peers open, send, acknowledge, shut and reset at any time |
| `PageMap` | what a page table promises: a map changed by whole regions | `Map`, `Unmap` |
| `Paging` | `paging.c`, `pool.h` | `MapRegion`, `UnmapRegion` on mappings, tables and pool |
| `*Props` | the properties of each module | |
| `TaskProofs` | proofs about `Sched` and `InputQueue` | |
| `MemoryProofs` | proofs about `Buddy` and `RamFs` | |
| `TcpConnsProofs`, `TcpStreamProofs`, `NetStackProofs`, `E1000Proofs`, `WebProofs`, `PagingProofs` | proofs about the module of that name | |

Operators marked "mutant" in the modules are faulty variants of the operator
that follows them; nothing uses them. Putting one in the place of its original
makes the property named with it in `PROJECT.json` fail: they show that the
properties say something about the code.

### How the models correspond to the code

*InputQueue.* `head`, `tail` and the slots are the globals of `netdev.c`. The
task's local `in_packet` is the slot it holds, and `place` where it is in its
loop. Init, Next and Spec are called `QInit`, `QNext` and `QSpec`, so that the
module can be extended beside `Sched`. What a handler does with a packet
is outside of this module: it succeeds or fails, freely.

*Sched.* The sleep list is a sequence; `sched_add_sleeping` inserts in front of
the first task with a strictly later wake time. A switch and its removal from
the list are one step, since no other task can run in between; the clock can
advance between any two steps. Interrupt handlers do not touch this state.

*TcpConns.* `conn` is `global_tcp_conn_table`; a slot is `Unused` or a record.
`Table` is what `tcp_purge_old_conn` leaves of it, which every lookup starts
with. A handler's effect on sequence numbers and payload is in `TcpStream`, and
does not influence what is decided here. The network is entirely free: any
segment at any time. Whether a SYN or FIN can be sent makes no difference
here, since the code changes the state in any case. `timeWaitStart` and `now`
are milliseconds. `tcp_handle_receive_time_wait` is translated
(`AfterTimeWait`) but never reached: the lookup purges the connection first.
Handles are a set: a user who listens twice on a port has one handle. Random
numbers are assumed to be available (`rdrand` does not fail).

*TcpStream.* Starts in SYN_RCVD after the SYN and ACK was sent. Byte `i` of the
peer's stream is the number `i`, so order, loss and repetition can be told;
bytes sent are only counted. `circ_buf` is the sequence of the bytes it holds,
one less than the array is long. The peer is an honest TCP (see the head of the
module). Our initial number is chosen from `Isses`, as the code draws a random
one (`tcp.c:309-316`). The number in `tcp_send_window_avail` is unsigned, as is everything
taken `% SeqMod`; the comparisons that the code makes in 64 bits (`seq_gt`, and
the one for the FIN) are made without it. `delivered`, `sent`, `reported`,
`acked`, `finSent` and `late` are history. A connection whose buffer cannot be
allocated is a matter of `TcpConns`.

*Buddy.* A block is its first page. The two loops are given by what they
compute: a block merges with its buddies to an aligned address, order by
order. Callers free in any order, as those of tatix do: `ram_fs_write` gives the
old buffer back behind the new one (`ramfs.c:389-394`), connections close in
any order. `misjudged` says that a free has merged with a buddy that is not
free as a block of the same order. The model ends there: from then on the lists,
whose links lie in the free blocks, run through memory that callers write to.

*RamFs.* A path is the sequence of its components; parsing is left out. The
loops along the entries of a directory and down a path are recursive functions
of the node they are at (`LookupAt`, `Entries`). A call
does not sleep, so it is one action, with the outcomes its allocations can
have: nodes may be used up half-way through a recursive creation, the data of a
new file may not be available, growing needs the old and the new buffer at
once. Names and buffers take whole pages, as `kvalloc` gives them. Two things
crash the kernel, and the model keeps them: the scratch arena has room for
three path names (`ramfs.c:226`), so recursive creation with four missing
directories uses it up, and a name that cannot be allocated is written to
address 0 (`ramfs.c:187`). Writing to a file that could not get data
(`ramfs.c:322`) fails an assertion. The buffer of a file is an array whose unwritten part
holds `Garbage`, so that a hole in the contents would be seen.

*E1000.* `phase` is how far `e1000_probe` has come, so that frames and
interrupts may meet any step of it: receiving is enabled before there is a
handler, and the interrupt is opened before its causes are cleared. A receive
descriptor is the frame in it or 0 (its DD bit); `txDone` are the DD bits of
the transmit ring. The tail registers always equal `rx_tail` and `tx_tail` and
are not kept twice. What is assumed of the 82540EM is in the head of the module;
frames with errors do not occur, because RCTL.SBP stays off. In the code the
handler is atomic for the processor, but the device goes on beside it, so that
its loop is one action per frame.

*NetStack.* The composition of the protocol layers over the queue that
`InputQueue` implements (`queue` is the sequence `QueueContents` speaks of,
`failed` the failure count of its head). A handler runs between two sleeps and
is one action; a result is the code and the frames sent. `Matches` and
`RouteEntry` are `ipv4_route_get_entry` over the two routes `init_net` adds.
Whether the card accepts a frame is free. `HandleSyn` keeps of TCP what matters
for the send path: whether the connection of a peer is new. `heard` is history:
which card each host has last announced.

*Web.* A slot of the TCP table with what the server can observe of it and what
peers do to it; `TcpConns` has the rest of its life. `cur` keeps its value
between connections, as the stale pointer does. `Closed` is `tcp_conn_close`,
which does nothing in a state it does not know, also on a freed slot. A request
is a length and its kind: `HandleRequest` allows every kind for the bytes that
have come. A path without a leading `/` stops the kernel (`Halt`), as the assertion of
`ramfs.c:38` does. What is in flight grows with every send and shrinks when an
acknowledgment moves `send_unack` (`PeerAcks`, which is
`tcp_conn_update_send_state`); `AcksStop` is a segment of ours that is lost, or the
wrap-around of our numbers, after which none does; `LateSegment` brings a
smaller window, beside which the available one may wrap (`WindowAvail`).
Peers do not close before they are accepted (if they do, the
connection is never returned by `tcp_conn_accept`, see `TcpConns`).

*Paging.* Addresses are page numbers, tables have `Fanout` entries, and a call
threads a memory (tables, free pages, status) through the pages of a region:
the loops of `paging_map_region` and `paging_unmap_region` are recursive functions
of the number of pages done. `Entry` is `pt_get`; since its translation of the table's
address fails for all tables or for none, it is asked for once per call (`CanEnter`).
`status` is an error code, or how the kernel stops: `"assert"` in
`phys_to_virt`, `"fault"` for the write through NULL in `pt_map`. What was
written before a stop is left out. `failed` is history: the regions whose
mapping has failed, of which the address mapping stays.

## 3. The runs

A run checks several related statements as one named conjunction where they
describe one thing, say the consistency of a table (`TableConsistent`); the
parts are definitions of their own in the `*Props` modules, and are named here
where they matter:

| Property | Parts |
|---|---|
| `RetriesCorrect` | `QTypeOK`, `FailureCounts`, `RetryBudget` |
| `SleepListCorrect` | `TypeOK`, `ListIsWaiting`, `OneTaskExecutes`, `SortedByWakeTime` |
| `WakesInOrder` | `NoPrematureWake`, `EarliestFirst` |
| `TableConsistent` | `TypeOK`, `QueuesCorrect`, `BuffersExist` |
| `CountersCorrect` | `TypeOK`, `SendNextCountsSent`, `UnackIsNewestAck` |
| `FreeListsCorrect` | `TypeOK`, `PagesAccounted`, `BitmapMarksFree`, `OnlyEntriesUnlinked`, `WholeAgain` |
| `NothingLost` | `FsTypeOK`, `EveryNodeFound`, `MemoryAccounted` |
| `RingsCorrect` | `TypeOK`, `RxInOrder`, `TxInOrder` |
| `FramesHandedOver` | `NoWakeupLostIfLinkDown`, `StoredIsHandedOver` |
| `StateCorrect` | `TypeOK`, `ArpUnique` |
| `EchoAnswered` | `AskedIsResolved`, `RepeatedIsAnswered` |
| `ServerConsistent` | `TypeOK`, `ServedIsOpen`, `LostOnlyOnSendError` |
| `TablesCorrect` | `TypeOK`, `TablesAccounted`, `NoEmptyTables` |

### Runs that pass

| Run | Module, cfg | Shows |
|---|---|---|
| `input_queue` | `InputQueueProps`, `InputQueue.cfg` | contents, order, retry budget, stability of the packet in hand; every packet leaves the ring; refinement of `PacketQueue` |
| `sched` | `SchedProps`, `Sched.cfg` | the sleep list is right, no early wake-up, no empty poll, no starvation |
| `tcp_conns` | `TcpConnsProps`, `TcpConns.cfg` | handles, queues, endpoints and buffers stay consistent; `tcp_conn_accept` can return every open connection nobody holds, unless its listener was closed or a peer went before it was accepted |
| `tcp_stream` | `TcpStreamProps`, `TcpStream.cfg` | data in order, acknowledgments right, counters right, also where our numbers wrap around; the peer is sent no more than it ever offered, except behind a late segment or the wrap-around |
| `buddy` | `BuddyProps`, `Buddy.cfg` | with frees in any order lists and bitmap are right until a free merges with a buddy that is half in use; that, and nothing else, puts memory in use on a free list |
| `e1000` | `E1000Props`, `E1000.cfg` | frames are handed over and sent once and in order; a stored frame always has an interrupt pending or a handler running; all frames arrive in the end |
| `netstack` | `NetStackProps`, `NetStack.cfg` | one ARP entry per address, frames go to the right hop under its newest address; what the assertion of the ping means; why a retry in place cannot help; requests are resolved and echos answered in the end |
| `web` | `WebProps`, `Web.cfg` | the served connection stays open, gets the whole response and is closed; a connection is lost only through a send error; what may hold the server for good |
| `paging` | `PagingProps`, `Paging.cfg` | page tables and mappings agree, table pages are never lost or shared, the kernel stops in two known cases only; refinement of `PageMap` |
| `ramfs` | `RamFsProps`, `RamFs.cfg` | the linked nodes implement a tree with the contents written (refinement of `FileStore`); no node or memory is lost |

### Runs that find a disagreement

Each of these checks one statement of a comment, an assertion or a header that
the code does not keep. `PROJECT.json` ("findings") quotes the statement.

| Run | What TLC shows |
|---|---|
| `tcp_accept_order` | `tcp_conn_accept` does not return an established connection as long as a newer one is in its handshake |
| `net_syn_sent` | a SYN from a host without an ARP entry makes a connection in SYN_RCVD for which no SYN was sent, and none will be |

### Other deviations

These are in the models as they are in the code, but have no run of their own.
Where a formula is given, it fails as an invariant or action property of the
module's run, with the constants said.

* TIME_WAIT ends at the next lookup (`tcp.c:235`), although the comment at
  `tcp.c:205` says it lasts `TCP_CONN_TIME_WAIT_MS`: in `TcpConns` a connection
  leaves TIME_WAIT with `now < timeWaitStart + TimeWaitMs`.
* `tcp_send_window_avail` (`tcp.c:487`) wraps around when a segment takes the
  window below what is in flight, and the peer is then sent everything the user
  has. The comment above it says "This is correct even if" that is so. A late
  segment is enough: without `late` in it `PeerNotOverrun` fails in `TcpStream`.
* A FIN that overtakes data is "dropped" by `tcp_conn_update_recv_state`
  (`tcp.c:402`), but the state changes to CLOSE_WAIT all the same
  (`tcp.c:639`), and the data behind it is lost.
* `seq_gt` (`tcp.c:356`) compares 64-bit integers. Once our numbers wrap
  around, no acknowledgment is newer than `send_unack`: `acked = sent /\
  sendWindow > 0 => WindowAvail > 0` fails in `TcpStream`, and so does
  `PeerNotOverrun` without `Wrapped` in it, since a window that gets smaller, in
  order, is added to a `send_unack` that stays behind. `UnackIsNewestAck` says
  what `send_unack` is on either side of the wrap-around.
* `buddy_free_raw` (`buddy.c:197`) merges with a buddy of any order. Of four
  pages in use, freeing 0, 3 and 2 is enough: 2 merges with 3, then with 0,
  whose buddy 1 is in use, and page 1 is handed out a second time. `~misjudged` fails
  in `Buddy`, and so does `InUsePages \cap FreePages = {}`;
  `InUseTakenByMisjudged` says that the two are the same.
* A queued connection whose peer closes or resets it before it is accepted is
  never returned: `tcp_conn_accept` (`tcp.c:945`) goes no further than a head
  that is not ESTABLISHED. It keeps its slot and buffer for good, and with it
  everything queued behind. `LostOnlyByListenerOrPeer` has this as its second
  exception. Half-open connections, and closing ones whose FIN was not sent or
  whose peer is gone, stay as well: only TIME_WAIT has a timeout.
* A response larger than the window holds the only task of the web server for
  as long as its peer stays, once acknowledgments no longer move `send_unack`
  (a lost segment, which nothing sends again, or the wrap-around): without
  `[]Held(c)` `AcceptedIsClosed` fails in `Web`.
* A request for a path that does not begin with `/` passes
  `http_parse_request` and fails the assertion of `path_name_parse`
  (`ramfs.c:38`): without `~Running` `AcceptedIsClosed` fails in `Web`.
* A mapping may be canonical beside another canonical one (`paging.c:70` does
  not count the new mapping), against `paging.h:55`; `phys_to_virt` asserts
  later (`CrashExplained`). No caller in tatix does this.
* A transmit ring that is filled completely looks empty to the device
  (`e1000.c:425`): then nothing is sent any more, and all later frames are
  refused. `FramesSent` excepts this case (`RingFull`).
* A packet whose answer needs an ARP entry is tried six times in front of the
  reply it waits for, and then given up (`RetryIsFutile`). What is answered is
  a later packet.
* `tcp_conn_listen` may return a second listening connection that no segment
  reaches (`tcp.c:917`); any ACK, old ones too, ends LAST_ACK (`tcp.c:664`); a
  failing fragment hides from the caller what was sent before it
  (`tcp.c:980`); a failed `web_respond_close` leaves its connection open for good
  (`web.c:393`, `LostOnlyOnSendError`).

The error path of `tcp_conn_alloc_and_init` (`tcp.c:326`), which frees a
connection that was not initialised, is not modelled.

### Bounds

* `InputQueue`: 4 slots (3 usable) wrap around within 6 packets; the retry
  limit is the code's 5. `MaxAccepted` bounds how many packets arrive.
* `Sched`: the main task and three others; sleeps of 0, 1 and 2 ms give ties
  and overtaking; `MaxTime` bounds the clock, and sleeps that would end later
  are not begun, so that every sleep can end.
* `TcpConns`: `NumConns` = 3 slots fill up with two peers and one or two
  listeners. `MaxTime` bounds the clock; the purge does not wait, so that one
  millisecond is enough. Peers are symmetric; slots and times are numbers and
  are not.
* `TcpStream`: our initial numbers of 2, 12 and 15 put the wrap-around out of
  reach, behind the third byte, and at once. `SeqMod` = 16 with `Irs` = 13 makes the peer's numbers wrap
  inside its 3 or 4 bytes; streams are shorter than half of `SeqMod`, as
  windows are in TCP, so that numbers are not ambiguous. Segments of up to 2
  bytes overlap in every way; a buffer of 2 bytes gets full; 2 offers, in
  either order, are enough for one to be late. `MaxSend`, `MaxSent` and
  `MaxOffers` bound the user and the peer.
* `RamFs`: 4 nodes make every shape of a tree of that size, including two
  entries in a directory and directories in directories; 7 pages are used up
  in different ways, by names, new files and growing ones; files of up to 5
  bytes on pages of 2 are enlarged twice. Names and bytes are symmetric.
* `Buddy`: 8 pages, all orders, in every order: blocks merge over up to three
  orders, and a buddy may be in use in part in several ways.
* `E1000`: 4 receive and 3 transmit descriptors wrap around with 7 and 6
  frames; overruns, full rings and a link that is up before the boot all occur.
* `NetStack`: a gateway, two local hosts, one of which changes its card, and a
  remote one; an ARP table of 2 gets full; a queue of 2 lets a reply wait
  behind a packet; 2 retries and 2 attempts of the ping instead of 6 and 5
  only shorten the same sequence.
* `Web`: a request line of 1 unit, a header and a buffer of 3, and a receive
  buffer of 2 that is emptied twice give a request that is short, complete, or
  too large; responses of 1, 3 and 4 units against a window of 2 and a limit of 3
  are sent at once, in parts, or not at all. Two slots are enough for one to be
  reused behind the stale pointer. A late segment comes once in a
  connection, and only while something is in flight, as acknowledgments stop
  only then: before that both merely change how much is sent at once.
* `Paging`: with tables of 2 entries the regions of 1 and 3 pages lie in one or
  more tables at every level, beside and between each other; 8 table pages and
  5 address mappings are used up.

Deadlock is checked except where the system may stop: in `TcpStream` a
connection comes to an end; in `E1000`, `NetStack` and `Paging` the kernel may
crash (`E1000` also ends with its bounded frames); in `Web` every slot may be
lost by a send error, and the kernel may halt; `Buddy` ends with a misjudged free.

### Fairness

* `InputQueue`: the receive task is weakly fair (its loop sleeps 10 ms and is
  scheduled again, see `NoStarvation`); interrupts are not.
* `Sched`: the clock runs; a busy-waiting task goes on polling; and a task that
  runs sleeps or returns eventually, which is what cooperative scheduling asks
  of tasks and what all tasks of `init.c` do.
* `E1000`: the processor goes on with the probe, takes interrupts and goes on
  in the handler's loop; the device goes on transmitting. Frames need never
  come or be sent.
* `NetStack`: the receive task runs again and again, as in `InputQueue`. A host
  that is asked answers in the end, even if some answers meet a full queue (strong fairness), a
  host that wants an answer repeats its echo, and the card does not refuse
  every answer. None of this is asked of the ping.
* `Web`: the server goes on (it only sleeps), and a peer that stays takes what
  it is sent and says so, which helps only as long as its acknowledgments reach
  `send_unack` (`AcksStop`). That a peer sends a request or closes is not assumed.
* The TCP, buddy and paging models claim no liveness: nothing in `tcp.c` retransmits,
  so that with losses nothing has to happen.

## 4. The proofs

Each proof module proves an inductive invariant of the specification without
its fairness, for all values of the constants, and derives the theorems from it.

*`TaskProofs`* has the proofs about the scheduler and about the receive task.

For `Sched` the invariant is: the list holds exactly the waiting tasks, each
once, ordered by wake time, exactly one task executes, and the main task never
finishes. That the list is never polled empty follows because the polling task
itself is in it, or, if it has finished, because the main task is. Theorems:
`SleepListAlwaysCorrect`, `PollsNonEmptyList`, and
`WakingIsInOrder`, which joins `SleepsLongEnough` and `RunsEarliestFirst`.

For `InputQueue` the inductive invariant joins the type invariant, the
correspondence between ring and history (the slots from tail to head hold, in
order, the packets accepted and not released, which needs that the ring never
fills its last slot), the link between the slot the task holds and the tail,
and the bookkeeping of attempts. `HoldsTailAlways`, `QueueContentsAlways`,
`RetryBudgetAlways` (for `RetriesCorrect`) and `HeldPacketIsStable` state the
properties of the run;
`RingImplementsFifo` states that each step of the ring is a `Put`, a `Take` or
a stutter of `PacketQueue`. Assumption: the ring has at least two slots.

*`TcpConnsProofs`.* Purging, freeing, changing and adding a connection are
changes of a table, the accept queues and the set of handles. `Good(T, Q, H)`
says that these three agree, and each change has a lemma that it keeps `Good`;
an action is then a purge followed by one of the changes. `Good` is stronger
than the properties of the run in two places: only listening connections have
the wildcard peer (so that a listener is found only for a segment no other
connection has the endpoints of), and the nodes of all queues together are
distinct (so that unlinking one node is enough). Theorems:
`TableAlwaysConsistent`, `HandlesAlwaysLive`, `EndpointsAlwaysUnique`.
`SlotsLostOnlyByListenerOrPeer` (for `LostOnlyByListenerOrPeer`) needs besides
that every listening connection has a handle, and for each of the changes what
it does to the part of a queue up to a connection: unlinking keeps the order
(`WithoutKeepsOrder`) and so does not block what is behind. Assumption: the
wildcard is not the address of a peer; the table may have any size.

*`NetStackProofs`.* The invariant: no address has two entries, an entry holds
what its host announced last, frames go to the next hop, and, the part that
makes `RetryIsFutile` inductive, if the packet at the head is an ARP packet
that is tried again, then the table already has what it tells. Theorems:
`StateAlwaysCorrect` (for `StateCorrect`), `FramesGoToNextHop`, `RetryNeverHelps`
(for `RetryIsFutile`) and `PingCrashIsExplained` (for `PingCrashExplained`).
Assumptions: the ones about addresses and sizes in the module.

*`TcpStreamProofs`.* `DataInOrder` and `AcksWhatIsStored` are not inductive:
that a segment with the expected number brings the expected bytes needs that
`recv_next` is the number of the first byte that is not stored (`RecvNextIs`),
and that no two bytes of the peer's stream have the same number
(`PeerSeqUnique`: the stream is shorter than the numbers go). A FIN is counted
once because the states after it look at no segment that has data, which is the
last part of `RecvNextIs`. On the send side the invariant ties `send_next` to
what was transmitted, each acknowledgment to something sent before, and
`send_unack` to the newest of them as `seq_gt` sees it (`Newest`): up to the
wrap-around that is the newest, behind it one that stays above our initial number
for good. `WindowIs` is the window: while no late segment came and the
acknowledgments have not wrapped, what was sent ends within the window last
advertised, and that ends no later than one the peer has offered; the
unsigned difference of `tcp_send_window_avail` is then the true one
(`WindowAvailIs`). Theorems: `DataAlwaysInOrder`, `AcksAlwaysRight`,
`SendNextAlwaysRight`, `CountersAlwaysCorrect` (for `CountersCorrect`) and
`PeerNeverOverrun` (for `PeerNotOverrun`), for any initial sequence numbers of
both sides, with wrap-around. Assumptions: the numbers that are in use at a time
are not ambiguous (`SeqAssumption`), windows are sequence numbers.

*`E1000Proofs`.* The invariant ties the two indices that driver and device keep
apart: the device's receive head is just beyond the frames that wait, seen from
the driver's tail (`RxHeadIs`), and the driver's transmit tail just beyond the
frames that the device has not sent, seen from its head (`TxTailIs`). With them
a descriptor that one side writes is never one the other side still reads;
the lemmas about rings turn `%` into that argument. That the handler runs only
when the probe has opened the interrupt (`DrainsWhenOpen`) is needed because the
rings do not exist before. Theorems: `RingsAlwaysCorrect` (for `RingsCorrect`),
`WaitingFrameIsSeen` (for `FrameHasWakeup`), and `NoWakeupIsLost` for the safety
part of `FramesHandedOver`, from an invariant of its own: with the link down at
the start there is no cause before the probe has ended. Assumption: at least two
receive descriptors and one for transmission.

*`WebProofs`.* The invariant says of each slot whether it is being served: the
served one is accepted, open, without a send error, and its history agrees with
the local variables of the loop (`done`, the length of the response, and that
`sawClosed` is only set when the peer has closed); any other that is accepted
and open met a send error. A slot that the server closed without its peer having
closed first has a whole response behind it, or met a send error (`SlotIs`).
Theorems: `ServerAlwaysConsistent` (for `ServerConsistent`) and
`ResponseAlwaysWhole` (for `WholeResponse`), for every number of slots and
retries and all lengths, whatever becomes of acknowledgments.

*`MemoryProofs`, allocator.* The invariant (`IInv`) says that the blocks, free or
in use, are a partition of the memory until a free is misjudged (`Partition`,
with `Sound`), that no free block lies beside its free buddy, since the two
would have been merged, and that the bitmap marks the free blocks. After a
misjudged free it says that pages in use are free, too; the model goes no
further. When block b is freed, what the loop reaches is b and every buddy it
was merged with (`Coalescing`), and each such buddy is the first page of a free
block no larger than what was merged so far (`BuddyIsFree`). Either each is free
as a block of just that order: then these entries are unlinked, and the
partition is kept (`FreeKeeps`). Or one is not: then not all of its pages are
free, since free blocks that fill a block without being it contain two that
would have been merged (`OneFreeBlock`), and the others are in use and get into
the merged block (`FreeTakes`). That gives both
directions of `InUseTakenByMisjudged`.

The solvers know nothing of `2^k`; that it
doubles from one `k` to the next follows from the cardinality of `SUBSET (1 .. k)`.
`dlist_remove` is the recursive function `Without`, of which `WithoutIs` says
what it keeps. Theorems: `FreeListsAlwaysCorrect` (for `FreeListsCorrect`) and
`OnlyMisjudgedFreesTake` (for `InUseTakenByMisjudged`), for every size of the
memory and every order of calls. There are no assumptions but that orders are
orders of the memory.

*`MemoryProofs`, file system.* The properties speak of what a look-up finds; the
invariant (`FsInv`) says why. There is a parent for every node, and (`Shape`) a
parent is a directory made before its children, has no two of the same name,
and the links lead from it to exactly these, in the order they were made. The
code has no links back: the parents are a witness, not a part of the model. The rest of
the invariant are types, and that `mem` is the sum over the nodes (`Accounts`).

* Each node has one path (`PathsExist`, `PathsDiffer`). `LookupAt` and
  `Entries` follow links forward, and links lead to later nodes; that such functions
  exist and what they give is proved by induction over the numbers of nodes
  (`Defined`, `LookupRuns`, `EntriesRuns`). So a look-up finds a node exactly
  if it starts at an ancestor and is given the rest of the path (`LookupIs`).
* `LinkedIs` says what appending to a directory changes, `ShapeGrown` that a
  row of new nodes, each in the one before, keeps the shape and the paths of
  the nodes before them. `CreateIs` and `WriteIs` give the outcomes of a call:
  nothing changes, or it is such a row (`Creation`), or the contents of one
  file do (`Writing`). A recursive creation that runs out of nodes is a shorter
  row.
* For the refinement, `TreeIs` says that the map is given by the paths of the
  nodes. A creation adds the paths that are missing (`CreationMakes`), all of
  which are above the new one; a write lays the bytes over those of one file
  (`WritingWrites`), in a buffer that was enlarged or was not: whatever it
  holds beyond the length of the file is never read.

Theorems: `NothingEverLost` (for `NothingLost`) and `NodesImplementStore` (for
`ImplementsStore`, the whole refinement: `FileStore` has no liveness), for any
number of nodes, pages and scratch paths, any names and bytes and calls of any
size. Assumptions: the page size is not 0, and what an unwritten byte holds is
told apart from what is written (`SizesAssumption`, `BytesAssumption`).

*`PagingProofs`.* The properties of the run speak of walks; what makes them
inductive is the shape of the tables (`Shape`). An address is the sequence of
its four indices, so that two addresses share a table of some level exactly
if they agree on the indices above it. `Shape` says that every table in use is
found for the addresses of one such part and at one level only, that nothing
points to a page of the pool, and that every page is in the pool or found. From it a change of one entry
changes the walk for the addresses that have this entry on their way and for no
other (`Replaced`), whether the change adds a table (`Grown`), writes an entry of the last
level (`Put`) or takes a table away that is empty (`Pruned`). The other parts of the
inductive invariant are: the mappings are apart; no table but the root is empty, while
no mapping has failed (`FullBut`, with the table that `pt_unmap` is at work
on as the exception); and the walk agrees with the mappings (`Matches`).

* For one page: `PtMapIs` says what `pt_map` does, whether it succeeds, runs
  out of pages or stops the kernel; `PtUnmapIs` the same of `pt_unmap`, which gives back
  exactly the tables that become empty.
* For the loops: a loop is a recursive function of the number of pages done.
  That such a function exists (`Recursion`) and what it keeps (`MapRuns`, `UnmapRuns`,
  `UnmapAnyRuns`) is proved by induction over a set of numbers (`Induct`, from
  the library's theorem on well-founded relations; no operator as a parameter). The undoing loop goes over
  pages that were never mapped: it leaves them alone, and removes exactly the
  pages that were.
* For the fault of `pt_map`: the pages left in the pool and the tables the
  rest of the region lacks go down together (`Budget`, `Gets`), so that the pool is used up
  half-way only if it had too few pages for the region at the start.

Theorems: `TablesAlwaysCorrect` (for `TablesCorrect`), `WalkAlwaysMatches` (for
`WalkMatches`), `CrashAlwaysExplained` (for `CrashExplained`), and
`TablesImplementPageMap` (for `ImplementsPageMap`, the whole refinement: `PageMap`
has no liveness), for tables and pools of any size, any number of mappings and any
regions. Assumptions: regions are addresses that four levels translate
and not the two that `paging_init` maps, and there is room for these two and their tables, as
it asserts (`AddressAssumption`, `RoomAssumption`).

Each proof module states the facts about numbers that it needs: that a
non-empty set of natural numbers has a least element (the slots that tables are
searched for), and what `%` does in rings, to sequence numbers and to addresses.

Only model-checked: the liveness properties (`EveryPacketTaken`, `NoStarvation`,
`EchoAnswered`, `StoredIsHandedOver`, `FramesSent`, `AcceptedIsClosed`, and the
liveness part of `ImplementsFifo`), which are out of reach of the prover. Every
other property of a passing run is stated by a theorem, and so are the safety parts
of `ImplementsFifo` and `FramesHandedOver`.

## 5. Not modelled

Register layouts, port I/O, PCI enumeration, descriptor tables and the boot
loader (hardware set-up); formatting and the console; parsing of addresses,
paths, configuration and requests, and checksums (data conversions without
state); the start-up sequence of `kernel_init`, a straight line of calls;
`archive.c`, which calls the file system once for each entry.

## 6. Plan

1. The composition of `E1000` with `InputQueue`: a frame is lost only where a
   ring is full.
2. `archive.c` on top of `RamFs`, whose result of a write it ignores.
3. A circular buffer that implements the byte sequence `TcpStream` uses.
