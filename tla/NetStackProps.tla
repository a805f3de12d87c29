--------------------------- MODULE NetStackProps ---------------------------
(***************************************************************************)
(* What the protocol layers of module NetStack are correct for.            *)
(***************************************************************************)
EXTENDS NetStack

\* The hosts that packets are sent to directly.
Hops == {NextHop(dst) : dst \in Pingers \cup Openers \cup {PingTarget}}

\* Every variable has its type; only the head of a queue has failed.
TypeOK ==
  /\ hasDevice \in BOOLEAN
  /\ queue \in Seq(Packets) /\ Len(queue) <= QueueLen
  /\ failed \in 0 .. MaxFailed + 1 /\ (queue = << >> => failed = 0)
  /\ \A i \in Slots : arpTable[i] # << >> =>
       <<arpTable[i].ip, arpTable[i].mac>> \in Senders
  /\ conn \in [Openers -> {"none", "syn_rcvd"}]
  /\ ping \in {"trying", "done", "crashed"} /\ tries \in 0 .. PingTries - 1
  /\ asked \subseteq Hops /\ synAcked \subseteq Openers

\* An address has at most one entry in the ARP table: the assertion of
\* arp_lookup_mac_addr, kept by arp_table_update_or_insert.
ArpUnique == \A a \in Locals : Cardinality(EntriesOf(a)) <= 1

\* The protocol layers' state is consistent.
StateCorrect == TypeOK /\ ArpUnique

\* Every IPv4 packet goes to the host that must get it next, the gateway for
\* an address off the local network, under the newest MAC it has announced:
\* ipv4_route_get_entry, ipv4_send_packet and the ARP table together.
FramesToNextHop ==
  \A f \in sent :
    f.to = heard[IF f.dst \in Locals THEN f.dst ELSE Gateway]

\* The assertion in task_net_ping stops the kernel only without a card, when
\* the card refuses the frame, or when the gateway has stayed unknown for all
\* the attempts.
PingCrashExplained ==
  [][ping' = "crashed" =>
       \/ ~hasDevice
       \/ Known(Gateway) /\ sent' = {}
       \/ ~Known(Gateway) /\ tries = PingTries - 1]_vars

\* While a packet is tried again in place the ARP table does not change, for
\* the reply waits behind it in the queue: a packet that failed for want of
\* an entry fails every time (ipv4_send_packet, task_net_receive).
RetryIsFutile ==
  [][failed > 0 => arpTable' = arpTable]_vars

\* A host that the machine has asked for its address gets an entry in the ARP
\* table in the end, whatever blocks the queue meanwhile, unless the table is
\* full or the ping has stopped the kernel.
AskedIsResolved ==
  \A a \in Hops : (a \in asked) ~> (Known(a) \/ TableFull \/ ~Running)

\* A host that repeats its echo is answered again and again, although each
\* echo that comes while its next hop is unknown is dropped.
RepeatedIsAnswered ==
  \A a \in Pingers :
    hasDevice ~> (\/ \E f \in sent : f.type = "answer" /\ f.dst = a
                  \/ TableFull /\ ~Known(NextHop(a))
                  \/ ~Running)

\* Asking leads to an entry and repeating to an answer: retries in place, full
\* queues and dropped packets only delay an echo's answer.
EchoAnswered == AskedIsResolved /\ RepeatedIsAnswered

\* A connection is in SYN_RCVD only if its SYN was sent, as a comment in
\* tcp_handle_receive_syn_rcvd says, or is about to be: the peer's SYN is
\* still at the head of the queue, to be tried again.
SynSentInSynRcvd ==
  \A a \in Openers : conn[a] = "syn_rcvd" =>
    \/ a \in synAcked
    \/ failed > 0 /\ Head(queue).kind = "syn" /\ Head(queue).src = a
=============================================================================
