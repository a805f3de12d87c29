------------------------------ MODULE NetStack ------------------------------
(***************************************************************************)
(* The protocol layers between the input queue and the network card: ARP   *)
(* (src/net/arp.c), ICMP (src/net/icmp.c), IPv4 with its routing table     *)
(* (src/net/ip.c), the sending half of netdev (src/net/netdev.c), and the  *)
(* two tasks of src/init.c that run them: task_net_receive, which hands    *)
(* queued packets up and leaves a packet whose handler failed at the head  *)
(* of the queue, and task_net_ping, which sends one echo at start-up and   *)
(* stops the kernel if it cannot.                                          *)
(*                                                                         *)
(* A task only gives up the processor when it sleeps, so one packet        *)
(* handled, and one attempt of the ping, is one step.  The queue is the    *)
(* abstract one that module InputQueue implements.  A packet is reduced to *)
(* what its handler acts on; a "silent" packet is any that is dropped with *)
(* success (too short, bad version, checksum, options or length, unknown   *)
(* protocol or type, an echo reply).  Other hosts repeat, forge and lose   *)
(* what they like, but an ARP request may be answered.                     *)
(***************************************************************************)
EXTENDS Naturals, Sequences, FiniteSets

CONSTANTS
  Host, Gateway,   \* this machine's address and its default gateway
  Locals, Remotes, \* the other addresses on, and off, the local network
  PingTarget,      \* the 8.8.8.8 of task_net_ping
  Movers,          \* local hosts that change their network card
  Pingers, Openers,\* the addresses that send echos, and SYNs to a listener
  ArpSize,         \* GLOBAL_ARP_TABLE_SIZE (32)
  QueueLen,        \* packets that fit the input queue (63)
  MaxFailed,       \* the `5' of task_net_receive
  PingTries        \* the `5' of task_net_ping

ASSUME AddressAssumption ==
  /\ Movers \subseteq Locals
  /\ Gateway \in Locals /\ Host \notin Locals \cup Remotes
  /\ Locals \cap Remotes = {} /\ PingTarget \in Remotes
  /\ Pingers \cup Openers \subseteq Locals \cup Remotes
ASSUME SizeAssumption ==
  /\ ArpSize \in Nat /\ QueueLen \in Nat \ {0}
  /\ MaxFailed \in Nat /\ PingTries \in Nat \ {0}

VARIABLES
  hasDevice, \* pci_probe has found and registered a network card
  queue,     \* the input queue, oldest first
  failed,    \* n_failed_to_handle of the packet at its head
  arpTable,  \* global_arp_table; << >> is an unused entry
  conn,      \* the TCP connection with each opener
  ping,      \* task_net_ping: "trying", "done" or "crashed"
  tries,     \* its loop counter
  sent,      \* the IPv4 packets that the last step gave to the card
  asked,     \* environment: hosts with an ARP request not yet answered
  heard,     \* history: the MAC that each host stored last has announced
  synAcked   \* history: the openers a SYN and ACK was sent to

taskVars == <<queue, failed, arpTable, conn>>
pingVars == <<ping, tries>>
vars == <<hasDevice, taskVars, pingVars, sent, asked, heard, synAcked>>

Addresses == {Host} \cup Locals \cup Remotes
Slots == 1 .. ArpSize
Senders == {<<a, 1>> : a \in Locals} \cup {<<a, 2>> : a \in Movers}
ArpPacket(op, s) == [kind |-> op, src |-> s[1], mac |-> s[2]]
\* What ipv4_handle_packet tells apart.
Datagram(kind, a) == [kind |-> kind, src |-> a, mac |-> 0]
Datagrams ==
  {Datagram("echo", a) : a \in Pingers} \cup {Datagram("syn", a) : a \in Openers}
    \cup {Datagram("silent", Host)}

Incoming == {ArpPacket("arp_request", s) : s \in Senders} \cup Datagrams
Packets == Incoming \cup {ArpPacket("arp_reply", s) : s \in Senders}

Running == ping # "crashed"

-----------------------------------------------------------------------------
(***************************************************************************)
(* Routing.  init_net adds two routes, in this order; masks are the sets   *)
(* of addresses they select, with their number of bits.                    *)
(***************************************************************************)
Route(net, bits, gateway) ==
  [net |-> net, bits |-> bits, gateway |-> gateway, interface |-> Host]

RouteTable == <<Route(Addresses, 0, Gateway), Route({Host} \cup Locals, 24, Host)>>

Matches(dst) == {i \in DOMAIN RouteTable : dst \in RouteTable[i].net}

\* mutant: the first match wins, however short its mask.
RouteEntryFirst(dst) ==
  RouteTable[CHOOSE i \in Matches(dst) : \A j \in Matches(dst) : i <= j]

\* ipv4_route_get_entry: the longest mask, and of these the last.
RouteEntry(dst) ==
  RouteTable[CHOOSE i \in Matches(dst) : \A j \in Matches(dst) :
               \/ RouteTable[j].bits < RouteTable[i].bits
               \/ RouteTable[j].bits = RouteTable[i].bits /\ j <= i]

\* In ipv4_send_packet: a gateway that is this host means direct delivery.
NextHop(dst) ==
  LET route == RouteEntry(dst) IN
  IF route.gateway = route.interface THEN dst ELSE route.gateway

-----------------------------------------------------------------------------
(***************************************************************************)
(* The ARP table.                                                          *)
(***************************************************************************)
EntriesOf(a) == {i \in Slots : arpTable[i] # << >> /\ arpTable[i].ip = a}
FreeEntries == {i \in Slots : arpTable[i] = << >>}
First(S) == CHOOSE i \in S : \A j \in S : i <= j
Last(S) == CHOOSE i \in S : \A j \in S : j <= i

Known(a) == EntriesOf(a) # {}
MacFor(a) == arpTable[Last(EntriesOf(a))].mac
TableFull == FreeEntries = {}

\* mutant: a free entry is taken before the old one is looked for.
EntryForFreeFirst(a) ==
  IF TableFull THEN First(EntriesOf(a)) ELSE First(FreeEntries)

\* arp_table_update_or_insert: its entry, or else the first free one.
EntryFor(a) == IF Known(a) THEN First(EntriesOf(a)) ELSE First(FreeEntries)

-----------------------------------------------------------------------------
(***************************************************************************)
(* Sending.  A result is its code and the frames that went out; `accepts'  *)
(* says whether the card has a free transmit descriptor.                   *)
(***************************************************************************)
Result(code, frames) == [code |-> code, frames |-> frames]

\* netdev_send
NetdevSend(frame, accepts) ==
  IF accepts THEN Result("ok", {frame}) ELSE Result("ENOBUFS", {})

\* ipv4_prepend_header: the destination stays what it is, whatever the hop.
IpFrame(type, hop, dst) == [type |-> type, to |-> MacFor(hop), dst |-> dst]

\* arp_send_common
ArpFrame(op, dst, mac) == [type |-> op, to |-> mac, dst |-> dst]

\* mutant: the packet is not sent and nobody is asked for the address.
IpSendNoRequest(type, dst, accepts) ==
  LET hop == NextHop(dst) IN
  IF Known(hop) THEN NetdevSend(IpFrame(type, hop, dst), accepts)
  ELSE Result("EAGAIN", {})

\* ipv4_send_packet: without an ARP entry for the next hop the packet is
\* replaced by a request for it, whose own result is ignored.
IpSend(type, dst, accepts) ==
  LET hop == NextHop(dst) IN
  IF ~hasDevice THEN Result("ENODEV", {})
  ELSE IF Known(hop) THEN NetdevSend(IpFrame(type, hop, dst), accepts)
  ELSE Result("EAGAIN", NetdevSend(ArpFrame("arp_request", hop, "broadcast"), accepts).frames)

\* The frames of a step are on the wire; requests may now be answered.
Emit(frames) ==
  /\ sent' = {f \in frames : f.type \notin {"arp_request", "arp_answer"}}
  /\ asked' = asked \cup {f.dst : f \in {g \in frames : g.type = "arp_request"}}

-----------------------------------------------------------------------------
Init ==
  /\ hasDevice \in BOOLEAN
  /\ queue = << >> /\ failed = 0
  /\ arpTable = [i \in Slots |-> << >>]
  /\ conn = [a \in Openers |-> "none"]
  /\ ping = "trying" /\ tries = 0
  /\ sent = {} /\ asked = {}
  /\ heard = [a \in Locals |-> 0] /\ synAcked = {}

\* netdev_intr_receive; a full queue drops the packet, which changes nothing.
Receive(p) ==
  /\ Running /\ hasDevice /\ Len(queue) < QueueLen
  /\ queue' = Append(queue, p)
  /\ sent' = {}
  /\ UNCHANGED <<hasDevice, failed, arpTable, conn, pingVars, asked, heard, synAcked>>

\* A host answers the ARP request that was broadcast for it.
HostAnswers(a) ==
  /\ a \in asked
  /\ asked' = asked \ {a}
  /\ Running /\ hasDevice /\ Len(queue) < QueueLen
  /\ \E s \in Senders :
       s[1] = a /\ queue' = Append(queue, ArpPacket("arp_reply", s))
  /\ sent' = {}
  /\ UNCHANGED <<hasDevice, failed, arpTable, conn, pingVars, heard, synAcked>>

-----------------------------------------------------------------------------
\* task_net_receive takes the packet at the head, unless it failed too often.
Handling(kinds) ==
  /\ Running /\ queue # << >> /\ failed <= MaxFailed
  /\ Head(queue).kind \in kinds
  /\ UNCHANGED <<hasDevice, pingVars>>

GiveUp ==
  /\ Running /\ queue # << >> /\ failed > MaxFailed
  /\ queue' = Tail(queue) /\ failed' = 0
  /\ sent' = {}
  /\ UNCHANGED <<hasDevice, arpTable, conn, pingVars, asked, heard, synAcked>>

\* mutant: a packet whose handler failed goes to the end of the queue.
FinishRequeues(result) ==
  /\ Emit(result.frames)
  /\ IF result.code = "ok"
     THEN queue' = Tail(queue) /\ failed' = 0
     ELSE failed' = failed + 1 /\ queue' = Append(Tail(queue), Head(queue))

\* The packet is released on success and otherwise stays, to be tried again.
Finish(result) ==
  /\ Emit(result.frames)
  /\ IF result.code = "ok"
     THEN queue' = Tail(queue) /\ failed' = 0
     ELSE failed' = failed + 1 /\ UNCHANGED queue

\* arp_handle_packet: store the sender, then answer a request.
HandleArp(accepts) ==
  LET p == Head(queue)
      frame == ArpFrame("arp_answer", p.src, p.mac)
      full == TableFull /\ ~Known(p.src)
  IN
  /\ Handling({"arp_request", "arp_reply"})
  /\ IF full
     THEN UNCHANGED <<arpTable, heard>>
     ELSE /\ arpTable' = [arpTable EXCEPT ![EntryFor(p.src)] = [ip |-> p.src, mac |-> p.mac]]
          /\ heard' = [heard EXCEPT ![p.src] = p.mac]
  /\ Finish(IF full THEN Result("ENOMEM", {})
            ELSE IF p.kind = "arp_request" THEN NetdevSend(frame, accepts)
            ELSE Result("ok", {}))
  /\ UNCHANGED <<conn, synAcked>>

\* ipv4_handle_packet, icmpv4_handle_message and icmpv4_handle_echo; a TCP
\* segment without a connection is answered in the same way, with a reset.
HandleEcho(a, accepts) ==
  /\ Handling({"echo"}) /\ Head(queue).src = a
  /\ Finish(IpSend("answer", a, accepts))
  /\ UNCHANGED <<arpTable, conn, heard, synAcked>>

\* tcp_handle_packet on a SYN: the listener creates a connection and sends
\* SYN and ACK; a connection in SYN_RCVD waits for an ACK and drops the SYN.
HandleSyn(accepts) ==
  LET a == Head(queue).src
      result == IF conn[a] = "none" THEN IpSend("syn_ack", a, accepts) ELSE Result("ok", {})
  IN
  /\ Handling({"syn"})
  /\ conn' = [conn EXCEPT ![a] = "syn_rcvd"]
  /\ synAcked' = synAcked \cup {f.dst : f \in {g \in result.frames : g.type = "syn_ack"}}
  /\ Finish(result)
  /\ UNCHANGED <<arpTable, heard>>

HandleSilent ==
  /\ Handling({"silent"})
  /\ Finish(Result("ok", {}))
  /\ UNCHANGED <<arpTable, conn, heard, synAcked>>

-----------------------------------------------------------------------------
\* icmpv4_send_echo
SendEcho(accepts) == IpSend("ping", PingTarget, accepts)

\* mutant: any error ends the loop, as if it could not be retried.
PingNoRetry(accepts) ==
  LET result == SendEcho(accepts) IN
  /\ ping = "trying" /\ tries' = tries
  /\ Emit(result.frames)
  /\ ping' = IF result.code = "ok" THEN "done" ELSE "crashed"
  /\ UNCHANGED <<hasDevice, taskVars, heard, synAcked>>

\* task_net_ping: EAGAIN is retried, then the result is asserted to be ok.
Ping(accepts) ==
  LET result == SendEcho(accepts) IN
  /\ ping = "trying"
  /\ Emit(result.frames)
  /\ IF result.code = "EAGAIN" /\ tries + 1 < PingTries
     THEN tries' = tries + 1 /\ UNCHANGED ping
     ELSE /\ ping' = IF result.code = "ok" THEN "done" ELSE "crashed"
          /\ UNCHANGED tries
  /\ UNCHANGED <<hasDevice, taskVars, heard, synAcked>>

-----------------------------------------------------------------------------
ReceiveTask ==
  \/ GiveUp
  \/ HandleSilent
  \/ \E accepts \in BOOLEAN :
       \/ HandleArp(accepts)
       \/ HandleSyn(accepts)
       \/ \E a \in Pingers : HandleEcho(a, accepts)

Next ==
  \/ \E p \in Incoming : Receive(p)
  \/ \E a \in Locals : HostAnswers(a)
  \/ ReceiveTask
  \/ \E accepts \in BOOLEAN : Ping(accepts)

(***************************************************************************)
(* The scheduler lets the receive task run again and again (module Sched). *)
(* A host that is asked for its address answers, a host that wants an      *)
(* answer repeats its echo, and neither is lost forever; the card does not *)
(* refuse every answer to one host.                                        *)
(***************************************************************************)
Fairness ==
  /\ WF_vars(ReceiveTask)
  /\ \A a \in Locals : SF_vars(HostAnswers(a))
  /\ \A a \in Pingers :
       /\ SF_vars(Receive(Datagram("echo", a)))
       /\ SF_vars(HandleEcho(a, TRUE))

Spec == Init /\ [][Next]_vars /\ Fairness
=============================================================================
