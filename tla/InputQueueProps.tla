-------------------------- MODULE InputQueueProps --------------------------
(***************************************************************************)
(* What the input queue must guarantee, and how it implements PacketQueue. *)
(***************************************************************************)
EXTENDS InputQueue

Count == IF head >= tail THEN head - tail ELSE head - tail + QueueSize

\* The slot of the k-th oldest packet, counting from 0.
SlotOf(k) == (tail + k) % QueueSize

QTypeOK ==
  /\ queue \in [Slots -> Packet]
  /\ head \in Slots
  /\ tail \in Slots
  /\ place \in {"poll", "got", "handling", "asleep"}
  /\ inPacket \in Slots \cup {NoPacket}
  /\ accepted \in Nat
  /\ taken \in Nat
  /\ attempts \in Nat

\* The packet the task holds is the one at the tail of a non-empty queue: the
\* assertion of netdev_release_input holds whenever it is called, although
\* packets arrive between netdev_get_input and the release.
HoldsTail ==
  place \in {"got", "handling"} => inPacket = tail /\ ~Empty

\* The queue holds exactly the accepted packets that were not released yet,
\* in the order in which they arrived: none is overwritten by the interrupt
\* handler, lost, duplicated or reordered.
QueueContents ==
  /\ accepted = taken + Count
  /\ \A k \in 0 .. Count - 1 : queue[SlotOf(k)].id = taken + k + 1

\* A failure count belongs to the packet it is stored with, not to an earlier
\* packet in the same slot: the packet at the tail has failed as often as it
\* was handled, every packet behind it starts afresh.
FailureCounts ==
  \A k \in 0 .. Count - 1 :
    queue[SlotOf(k)].nFailed =
      IF k > 0 THEN 0
      ELSE IF place = "handling" THEN attempts - 1 ELSE attempts

\* No packet is handled more often than the retry limit of task_net_receive
\* allows, and none is given up before it was handled that often.
RetryBudget ==
  /\ attempts <= MaxFailed + 1
  /\ place = "got" /\ GivingUp => attempts = MaxFailed + 1

\* The bookkeeping of retries: attempts are counted with the packet they were
\* made for, and bound how long it blocks the others (task_net_receive).
RetriesCorrect == QTypeOK /\ FailureCounts /\ RetryBudget

\* While a handler reads a packet no step changes what it reads, whatever
\* interrupts arrive in the meantime.
HeldPacketStable ==
  [][place = "handling" => queue'[inPacket].id = queue[inPacket].id]_qVars

\* Every packet that enters the queue leaves it: one that cannot be handled
\* does not block the ones behind it for ever.
EveryPacketTaken ==
  \A n \in 1 .. MaxAccepted : accepted >= n ~> taken >= n

-----------------------------------------------------------------------------
\* The ring as the FIFO it implements.
Pending == [i \in 1 .. Count |-> queue[SlotOf(i - 1)].id]

Fifo == INSTANCE PacketQueue WITH
          Capacity <- QueueSize - 1,
          pending <- Pending

\* The ring of netdev.c and the loop of task_net_receive implement the
\* bounded lossy FIFO, its liveness included.
ImplementsFifo == Fifo!Spec

=============================================================================
