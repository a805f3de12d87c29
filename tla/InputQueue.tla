----------------------------- MODULE InputQueue -----------------------------
(***************************************************************************)
(* The input queue of the netdev layer (src/net/netdev.c) with its two     *)
(* users: the receive interrupt of the network card, which adds packets,   *)
(* and the task `task_net_receive' of src/init.c, which handles them.      *)
(*                                                                         *)
(* The queue is a ring of preallocated packets that the two sides index    *)
(* without a lock.  The interrupt handler runs to completion with          *)
(* interrupts off, so Receive is one step; it may fire between any two     *)
(* instructions of the task except between disable_interrupts() and        *)
(* enable_interrupts(), so those two critical sections (in                 *)
(* netdev_get_input and netdev_release_input) are one step each and every  *)
(* stretch of code between them is a place where packets may arrive.       *)
(*                                                                         *)
(* Packet contents are abstracted to `id', the position of the packet in   *)
(* the order of acceptance: enough to tell a packet that was overwritten,  *)
(* duplicated, reordered or lost from one that was not.                    *)
(***************************************************************************)
EXTENDS Naturals, Sequences

CONSTANTS
  QueueSize,     \* NETDEV_INPUT_QUEUE_SIZE
  MaxFailed,     \* the `5' of `n_failed_to_handle > 5' in task_net_receive
  MaxAccepted    \* bound on the number of packets accepted

ASSUME QueueSizeAssumption == QueueSize \in Nat \ {0, 1}
ASSUME MaxFailedAssumption == MaxFailed \in Nat
ASSUME MaxAcceptedAssumption == MaxAccepted \in Nat

VARIABLES
  queue,         \* global_input_queue
  head,          \* global_input_queue_head: next free slot
  tail,          \* global_input_queue_tail: oldest packet, if head # tail
  place,         \* where task_net_receive is in its loop
  inPacket,      \* in_packet, as an index into the queue; NoPacket for NULL
  accepted,      \* history: number of packets added to the queue
  taken,         \* history: number of packets released
  attempts       \* history: number of times the packet at the tail was handled

qVars == <<queue, head, tail, place, inPacket, accepted, taken, attempts>>

Slots == 0 .. QueueSize - 1
NoPacket == QueueSize
Packet == [id : Nat, nFailed : Nat]

\* The parts of a frame that decide whether it reaches the queue.  A long
\* frame has room for the Ethernet header.
Frame == [long : BOOLEAN,
          dest : {"own", "broadcast", "other"},
          type : {"arp", "ipv4", "other"}]

Accepts(f) == f.long /\ f.dest # "other" /\ f.type # "other"

NextSlot(i) == (i + 1) % QueueSize

\* (Mutant: the interrupt handler does not look for space.)
NeverFull == FALSE

Full == NextSlot(head) = tail
Empty == head = tail

-----------------------------------------------------------------------------
QInit ==
  /\ queue = [i \in Slots |-> [id |-> 0, nFailed |-> 0]]
  /\ head = 0
  /\ tail = 0
  /\ place = "poll"
  /\ inPacket = NoPacket
  /\ accepted = 0
  /\ taken = 0
  /\ attempts = 0

\* (Mutant: the head moves before the packet is stored.)
AddPacketMovesFirst ==
  /\ ~Full
  /\ accepted' = accepted + 1
  /\ queue' = [queue EXCEPT ![NextSlot(head)] = [id |-> accepted + 1, nFailed |-> 0]]
  /\ head' = NextSlot(head)

(***************************************************************************)
(* netdev_intr_input_queue_add: a full queue drops the packet.             *)
(***************************************************************************)
AddPacket ==
  /\ ~Full
  /\ accepted' = accepted + 1
  /\ queue' = [queue EXCEPT ![head] = [id |-> accepted + 1, nFailed |-> 0]]
  /\ head' = NextSlot(head)

\* netdev_intr_receive: the receive interrupt hands over one frame.
Receive(f) ==
  /\ accepted < MaxAccepted
  /\ IF Accepts(f) /\ ~Full
     THEN AddPacket
     ELSE UNCHANGED <<queue, head, accepted>>
  /\ UNCHANGED <<tail, place, inPacket, taken, attempts>>

-----------------------------------------------------------------------------
\* netdev_get_input returns NULL: sleep until the next round.
PollEmpty ==
  /\ place = "poll"
  /\ Empty
  /\ place' = "asleep"
  /\ UNCHANGED <<queue, head, tail, inPacket, accepted, taken, attempts>>

\* (Mutant: a packet is returned although there is none.)
PollPacketUnchecked ==
  /\ place = "poll"
  /\ inPacket' = tail
  /\ place' = "got"
  /\ UNCHANGED <<queue, head, tail, accepted, taken, attempts>>

\* netdev_get_input returns the packet at the tail.
PollPacket ==
  /\ place = "poll"
  /\ ~Empty
  /\ inPacket' = tail
  /\ place' = "got"
  /\ UNCHANGED <<queue, head, tail, accepted, taken, attempts>>

\* (Mutant: gives up one attempt early.)
GivingUpEarly == queue[inPacket].nFailed >= MaxFailed

GivingUp == queue[inPacket].nFailed > MaxFailed

\* arp_handle_packet or ipv4_handle_packet starts to read the packet.
StartHandling ==
  /\ place = "got"
  /\ ~GivingUp
  /\ place' = "handling"
  /\ attempts' = attempts + 1
  /\ UNCHANGED <<queue, head, tail, inPacket, accepted, taken>>

\* netdev_release_input: nothing to remove if the queue is empty.
Release ==
  /\ IF Empty
     THEN UNCHANGED <<tail, taken, attempts>>
     ELSE /\ tail' = NextSlot(tail)
          /\ taken' = taken + 1
          /\ attempts' = 0
  /\ inPacket' = NoPacket
  /\ UNCHANGED <<queue, head, accepted>>

\* (Mutant: the packet that failed too often is skipped but never released.)
DropWithoutRelease ==
  /\ place = "got"
  /\ GivingUp
  /\ place' = "poll"
  /\ UNCHANGED <<queue, head, tail, inPacket, accepted, taken, attempts>>

\* The packet failed too often: drop it and poll again without sleeping.
Drop ==
  /\ place = "got"
  /\ GivingUp
  /\ Release
  /\ place' = "poll"

\* The handler returned a success.
HandlerSucceeds ==
  /\ place = "handling"
  /\ Release
  /\ place' = "asleep"

\* The handler returned an error: the packet stays, to be handled again.
HandlerFails ==
  /\ place = "handling"
  /\ queue' = [queue EXCEPT ![inPacket].nFailed = @ + 1]
  /\ inPacket' = NoPacket
  /\ place' = "asleep"
  /\ UNCHANGED <<head, tail, accepted, taken, attempts>>

\* sleep_ms(10) returns.
Wake ==
  /\ place = "asleep"
  /\ place' = "poll"
  /\ UNCHANGED <<queue, head, tail, inPacket, accepted, taken, attempts>>

TaskNetReceive ==
  \/ PollEmpty \/ PollPacket \/ StartHandling \/ Drop
  \/ HandlerSucceeds \/ HandlerFails \/ Wake

QNext ==
  \/ \E f \in Frame : Receive(f)
  \/ TaskNetReceive

\* The scheduler resumes the task after every sleep and a handler returns;
\* nothing obliges frames to arrive.
QSpec == QInit /\ [][QNext]_qVars /\ WF_qVars(TaskNetReceive)

=============================================================================
