----------------------------- MODULE E1000Props -----------------------------
(***************************************************************************)
(* What the driver must guarantee with the device running beside it.       *)
(***************************************************************************)
EXTENDS E1000

Undelivered == arrived - Len(handed)
Unsent == accepted - Len(wire)

TypeOK ==
  /\ phase \in {"start", "mapped", "mac", "tx", "rings", "netdev", "handler",
                "unmasked", "armed", "up", "failed"}
  /\ linkUp \in BOOLEAN /\ wakeupLost \in BOOLEAN
  /\ cpu \in {"task", "drain", "crashed"}
  /\ causes \subseteq {"RXT0", "RXDMT0", "RXO"}
  /\ rxDesc \in [Rx -> 0 .. MaxRx] /\ rdh \in Rx /\ rxTail \in Rx
  /\ arrived \in 0 .. MaxRx /\ handed \in Seq(1 .. MaxRx)
  /\ txBuf \in [Tx -> 0 .. MaxTx] /\ txDone \in [Tx -> BOOLEAN]
  /\ tdh \in Tx /\ txTail \in Tx
  /\ accepted \in 0 .. MaxTx /\ wire \in Seq(1 .. MaxTx)

\* The frames handed to the network are the first ones that arrived, in their
\* order, and the descriptors beyond rx_tail hold the rest: none is lost,
\* repeated, or overwritten by the device while e1000_rx_poll returns
\* descriptors to it.
RxInOrder ==
  /\ Undelivered \in 0 .. NRx - 1
  /\ \A k \in 1 .. Len(handed) : handed[k] = k
  /\ \A k \in 1 .. NRx :
       rxDesc[(rxTail + k) % NRx] =
         IF k <= Undelivered THEN Len(handed) + k ELSE 0

\* A frame that waits in the ring has something to wake the driver: a cause
\* still in ICR, or a handler that has not finished.  Reading ICR before the
\* ring is emptied guarantees it; only the read of ICR in the middle of
\* e1000_init_interrupts can break it.
FrameHasWakeup ==
  Undelivered > 0 => causes # {} \/ cpu \in {"drain", "crashed"} \/ wakeupLost

\* That read loses no wake-up if the link is down when the driver starts:
\* e1000_probe calls e1000_set_link_up after e1000_init_interrupts.
NoWakeupLostIfLinkDown == ~linkUp => []~wakeupLost

\* Frames go out in the order in which e1000_tx_poll accepted them, each
\* once: no buffer is overwritten before the device has sent it.
TxInOrder ==
  /\ Unsent \in 0 .. NTx
  /\ \A k \in 1 .. Len(wire) : wire[k] = k
  /\ \A k \in 0 .. Unsent - 1 :
       LET i == (tdh + k) % NTx IN txBuf[i] = Len(wire) + 1 + k /\ ~txDone[i]

\* Both rings hold the right frames in the right order.
RingsCorrect == TypeOK /\ RxInOrder /\ TxInOrder

\* Every frame the device has stored reaches the network, unless its wake-up
\* was lost at boot and no frame came after it, or the kernel has stopped.
StoredIsHandedOver ==
  \A n \in 1 .. MaxRx :
    arrived >= n ~> \/ Len(handed) >= n \/ wakeupLost
                    \/ cpu = "crashed" \/ phase = "failed"

\* Received frames reach the network, and with the link down at boot without
\* the exception for lost wake-ups.
FramesHandedOver == NoWakeupLostIfLinkDown /\ StoredIsHandedOver

\* Every frame e1000_tx_poll accepts is transmitted, unless all descriptors
\* were taken at once: then the tail equals the head, which to the device is
\* an empty ring.
RingFull == phase = "up" /\ \A i \in Tx : ~txDone[i]
FramesSent == \A n \in 1 .. MaxTx : accepted >= n ~> Len(wire) >= n \/ RingFull
=============================================================================
