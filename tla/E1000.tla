------------------------------- MODULE E1000 -------------------------------
(***************************************************************************)
(* The driver of the Intel 82540EM (src/net/e1000.c) and the dispatch of   *)
(* its interrupt (src/isr.c): the probe, step by step, the two descriptor  *)
(* rings the driver shares with the device, and the interrupt handler.     *)
(*                                                                         *)
(* The device runs beside the processor: it stores frames in the receive   *)
(* ring, takes frames out of the transmit ring, and raises causes in its   *)
(* ICR register, in any order with the driver's steps.  It does what the   *)
(* driver relies on: it owns the descriptors from its head register up to, *)
(* not including, the tail register, and an empty ring is one whose head   *)
(* equals its tail.  RCTL.SBP is off, so no stored frame has an error and  *)
(* the driver's EIO does not occur.                                        *)
(*                                                                         *)
(* Frames are the numbers 1, 2, ... in the order they arrive or are sent.  *)
(* A receive descriptor is the frame it holds, or 0 while its DD bit is    *)
(* clear.  The registers RDT and TDT always equal rx_tail and tx_tail.     *)
(***************************************************************************)
EXTENDS Naturals, Sequences

CONSTANTS
  NRx, NTx,     \* rx_queue_n_desc (128) and tx_queue_n_desc (32)
  MaxRx, MaxTx  \* bounds: frames that arrive, frames that are sent

ASSUME RingAssumption == NRx \in Nat /\ NRx > 1 /\ NTx \in Nat /\ NTx > 0
ASSUME BoundAssumption == MaxRx \in Nat /\ MaxTx \in Nat

VARIABLES
  phase,      \* how far e1000_probe has come
  linkUp,     \* the device receives: set by CTRL.SLU, or before the boot
  cpu,        \* "task", "drain" in the handler's loop, or "crashed"
  causes,     \* the device's ICR register
  wakeupLost, \* history: causes were cleared with no handler run since
  rxDesc,     \* the receive descriptors
  rdh,        \* the device's receive head
  rxTail,     \* dev->rx_tail
  arrived,    \* history: frames the device has stored
  handed,     \* history: frames passed to netdev_intr_receive
  txBuf,      \* the frame in each transmit buffer
  txDone,     \* the DD bit of each transmit descriptor
  tdh,        \* the device's transmit head
  txTail,     \* dev->tx_tail
  accepted,   \* history: frames e1000_tx_poll has accepted
  wire        \* history: frames transmitted

rxVars == <<rxDesc, rdh, rxTail, arrived, handed>>
txVars == <<txBuf, txDone, tdh, txTail, accepted, wire>>
intrVars == <<cpu, causes, wakeupLost>>
vars == <<phase, linkUp, intrVars, rxVars, txVars>>

Rx == 0 .. NRx - 1
Tx == 0 .. NTx - 1

\* RCTL.EN is set, and IMS lets the causes through to the processor.
Receiving == phase \notin {"start", "mapped", "mac", "tx", "failed"}
Unmasked == phase \in {"unmasked", "armed", "up"}

\* have_interrupt_handler, for the line of the device.
HasHandler == phase = "handler" \/ Unmasked

-----------------------------------------------------------------------------
\* The boot firmware may have left the link up: the driver does not reset.
Init ==
  /\ phase = "start" /\ linkUp \in BOOLEAN
  /\ cpu = "task" /\ causes = {} /\ wakeupLost = FALSE
  /\ rxDesc = [i \in Rx |-> 0] /\ rdh = 0 /\ rxTail = 0
  /\ arrived = 0 /\ handed = << >>
  /\ txBuf = [i \in Tx |-> 0] /\ txDone = [i \in Tx |-> FALSE]
  /\ tdh = 0 /\ txTail = 0 /\ accepted = 0 /\ wire = << >>

\* The driver's own memory, and e1000_init_mmio: the kernel crashes without
\* the one buffer, the probe ends without the other memory or the mapping.
InitMmio ==
  /\ phase = "start" /\ cpu = "task"
  /\ \/ cpu' = "crashed" /\ UNCHANGED phase
     \/ phase' \in {"mapped", "failed"} /\ UNCHANGED cpu
  /\ UNCHANGED <<linkUp, causes, wakeupLost, rxVars, txVars>>

\* e1000_read_mac_addr crashes the kernel if there is no EEPROM; if there is
\* one it answers.
ReadMacAddr ==
  /\ phase = "mapped" /\ cpu = "task"
  /\ \/ cpu' = "crashed" /\ UNCHANGED phase
     \/ phase' = "mac" /\ UNCHANGED cpu
  /\ UNCHANGED <<linkUp, causes, wakeupLost, rxVars, txVars>>

\* e1000_init_tx: no memory, or memory without a mapping, ends the probe.
InitTx ==
  /\ phase = "mac" /\ cpu = "task"
  /\ phase' \in {"tx", "failed"}
  /\ txDone' = [i \in Tx |-> TRUE]
  /\ UNCHANGED <<linkUp, intrVars, rxVars, txBuf, tdh, txTail, accepted, wire>>

\* e1000_init_rx, likewise; from here on the device stores frames.
InitRx ==
  /\ phase = "tx" /\ cpu = "task"
  /\ phase' \in {"rings", "failed"}
  /\ rdh' = 1
  /\ UNCHANGED <<linkUp, intrVars, rxDesc, rxTail, arrived, handed, txVars>>

\* netdev_register_device, then isr_register_handler: either may refuse.
RegisterNetdev ==
  /\ phase = "rings" /\ cpu = "task"
  /\ phase' \in {"netdev", "failed"}
  /\ UNCHANGED <<linkUp, intrVars, rxVars, txVars>>

RegisterHandler ==
  /\ phase = "netdev" /\ cpu = "task"
  /\ phase' \in {"handler", "failed"}
  /\ UNCHANGED <<linkUp, intrVars, rxVars, txVars>>

\* e1000_init_interrupts: the PIC line and IMS are opened first ...
Unmask ==
  /\ phase = "handler" /\ cpu = "task"
  /\ phase' = "unmasked"
  /\ UNCHANGED <<linkUp, intrVars, rxVars, txVars>>

\* ... then a read of ICR clears the causes there are.
ClearCauses ==
  /\ phase = "unmasked" /\ cpu = "task"
  /\ phase' = "armed"
  /\ causes' = {}
  /\ wakeupLost' = (wakeupLost \/ causes # {})
  /\ UNCHANGED <<linkUp, cpu, rxVars, txVars>>

\* e1000_set_link_up
SetLinkUp ==
  /\ phase = "armed" /\ cpu = "task"
  /\ phase' = "up" /\ linkUp' = TRUE
  /\ UNCHANGED <<intrVars, rxVars, txVars>>

-----------------------------------------------------------------------------
\* The device stores a frame, or finds no descriptor for it.
Free == (rxTail + NRx - rdh) % NRx

DeviceReceives ==
  /\ linkUp /\ Receiving /\ arrived < MaxRx
  /\ \/ /\ Free = 0
        /\ causes' = causes \union {"RXO"}
        /\ UNCHANGED rxVars
     \/ /\ Free > 0
        /\ rxDesc' = [rxDesc EXCEPT ![rdh] = arrived + 1]
        /\ rdh' = (rdh + 1) % NRx
        /\ arrived' = arrived + 1
        /\ causes' = causes \union {"RXT0"} \union
                       (IF 2 * (Free - 1) <= NRx THEN {"RXDMT0"} ELSE {})
        /\ UNCHANGED <<rxTail, handed>>
  /\ UNCHANGED <<phase, linkUp, cpu, wakeupLost, txVars>>

\* The device takes the frame at its transmit head and sets DD.
DeviceTransmits ==
  /\ phase = "up" /\ tdh # txTail
  /\ wire' = Append(wire, txBuf[tdh])
  /\ txDone' = [txDone EXCEPT ![tdh] = TRUE]
  /\ tdh' = (tdh + 1) % NTx
  /\ UNCHANGED <<phase, linkUp, intrVars, rxVars, txBuf, txTail, accepted>>

-----------------------------------------------------------------------------
\* interrupt_catch_all finds e1000_handle_interrupt, which reads ICR, and so
\* clears it, before it looks at the ring; an overrun crashes the kernel, and
\* so would an interrupt without a handler.
Interrupt ==
  /\ cpu = "task" /\ Unmasked /\ causes # {}
  /\ cpu' = IF "RXO" \in causes \/ ~HasHandler THEN "crashed" ELSE "drain"
  /\ causes' = {} /\ wakeupLost' = FALSE
  /\ UNCHANGED <<phase, linkUp, rxVars, txVars>>

NextTail == (rxTail + 1) % NRx

\* e1000_rx_poll and the handler's loop: the frame beyond the tail is handed
\* over and its descriptor returned, or the handler is done (EAGAIN).
DrainKeepsStatus ==                            \* mutant: DD is not cleared
  /\ cpu = "drain" /\ rxDesc[NextTail] # 0
  /\ Len(handed) < MaxRx + 1
  /\ handed' = Append(handed, rxDesc[NextTail])
  /\ rxTail' = NextTail
  /\ UNCHANGED <<phase, linkUp, intrVars, rxDesc, rdh, arrived, txVars>>

DrainOnce ==                                   \* mutant: there is no loop
  /\ cpu = "drain" /\ rxDesc[NextTail] # 0
  /\ handed' = Append(handed, rxDesc[NextTail])
  /\ rxDesc' = [rxDesc EXCEPT ![NextTail] = 0]
  /\ rxTail' = NextTail /\ cpu' = "task"
  /\ UNCHANGED <<phase, linkUp, causes, wakeupLost, rdh, arrived, txVars>>

Drain ==
  /\ cpu = "drain" /\ rxDesc[NextTail] # 0
  /\ handed' = Append(handed, rxDesc[NextTail])
  /\ rxDesc' = [rxDesc EXCEPT ![NextTail] = 0]
  /\ rxTail' = NextTail
  /\ UNCHANGED <<phase, linkUp, intrVars, rdh, arrived, txVars>>

Drained ==
  /\ cpu = "drain" /\ rxDesc[NextTail] = 0
  /\ cpu' = "task"
  /\ UNCHANGED <<phase, linkUp, causes, wakeupLost, rxVars, txVars>>

-----------------------------------------------------------------------------
\* e1000_tx_poll, by e1000_netdev_send_frame: the frame goes into the buffer
\* at the tail if that descriptor's DD bit is set; else ENOBUFS, no change.
SendFrameNoTail ==                             \* mutant: TDT stays on a wrap
  /\ phase = "up" /\ cpu = "task" /\ accepted < MaxTx
  /\ txDone[txTail]
  /\ txBuf' = [txBuf EXCEPT ![txTail] = accepted + 1]
  /\ txDone' = [txDone EXCEPT ![txTail] = FALSE]
  /\ txTail' = IF txTail = NTx - 1 THEN txTail ELSE txTail + 1
  /\ accepted' = accepted + 1
  /\ UNCHANGED <<phase, linkUp, intrVars, rxVars, tdh, wire>>

SendFrame ==
  /\ phase = "up" /\ cpu = "task" /\ accepted < MaxTx
  /\ txDone[txTail]
  /\ txBuf' = [txBuf EXCEPT ![txTail] = accepted + 1]
  /\ txDone' = [txDone EXCEPT ![txTail] = FALSE]
  /\ txTail' = (txTail + 1) % NTx
  /\ accepted' = accepted + 1
  /\ UNCHANGED <<phase, linkUp, intrVars, rxVars, tdh, wire>>

-----------------------------------------------------------------------------
Probe ==
  \/ InitMmio \/ ReadMacAddr \/ InitTx \/ InitRx
  \/ RegisterNetdev \/ RegisterHandler
  \/ Unmask \/ ClearCauses \/ SetLinkUp

Next ==
  \/ Probe
  \/ DeviceReceives \/ DeviceTransmits
  \/ Interrupt \/ Drain \/ Drained
  \/ SendFrame

\* The processor goes on with what it runs and takes its interrupts, and the
\* device goes on transmitting; frames need never arrive or be sent.
Fairness ==
  /\ WF_vars(Probe) /\ WF_vars(Interrupt) /\ WF_vars(Drain \/ Drained)
  /\ WF_vars(DeviceTransmits)

Spec == Init /\ [][Next]_vars /\ Fairness
=============================================================================
