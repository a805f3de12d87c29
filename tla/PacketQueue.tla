---------------------------- MODULE PacketQueue ----------------------------
(***************************************************************************)
(* What the input queue of the netdev layer promises to the network driver *)
(* and to the receive task, without the ring: a bounded FIFO of packets.   *)
(* The driver's interrupt handler never waits, so a packet that finds the  *)
(* queue full is lost; a packet that was accepted stays, unchanged and in  *)
(* its place, until the receive task takes it, and is taken exactly once.  *)
(* Packets are named by the order in which they were accepted: 1, 2, ...   *)
(***************************************************************************)
EXTENDS Naturals, Sequences

CONSTANTS
  Capacity,      \* packets the queue can hold
  MaxAccepted    \* bound on the number of packets accepted

VARIABLES
  pending,       \* the packets accepted and not yet taken, oldest first
  accepted       \* number of packets accepted so far

pqVars == <<pending, accepted>>

Init ==
  /\ pending = << >>
  /\ accepted = 0

\* A packet arrives at a queue that has space for it.
Accept ==
  /\ accepted < MaxAccepted
  /\ Len(pending) < Capacity
  /\ accepted' = accepted + 1
  /\ pending' = Append(pending, accepted + 1)

\* The receive task is done with the oldest packet.
Take ==
  /\ pending # << >>
  /\ pending' = Tail(pending)
  /\ UNCHANGED accepted

Next == Accept \/ Take

Spec == Init /\ [][Next]_pqVars /\ WF_pqVars(Take)
=============================================================================
