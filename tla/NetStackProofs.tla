--------------------------- MODULE NetStackProofs ---------------------------
(***************************************************************************)
(* Routing, address resolution and the retries of the receive task, for    *)
(* every set of hosts, table size, queue length and number of attempts.    *)
(***************************************************************************)
EXTENDS NetStackProps, WellFoundedInduction, FiniteSetTheorems, TLAPS

Entry == [ip : Locals, mac : 1 .. 2]
Empty == << >>

\* What arpTable and heard are made of.
TableTypes ==
  /\ arpTable \in [Slots -> Entry \cup {Empty}]
  /\ DOMAIN heard = Locals

\* No two entries for one address.
OneEntryEach ==
  \A i, j \in Slots :
    arpTable[i] # Empty /\ arpTable[j] # Empty /\ arpTable[i].ip = arpTable[j].ip
      => i = j

\* An entry holds what its host announced last.
EntriesAreHeard ==
  \A i \in Slots : arpTable[i] # Empty => arpTable[i].mac = heard[arpTable[i].ip]

\* The ARP table is as a packet that is tried again would make it.
Stored(p) ==
  IF Known(p.src) THEN \A i \in EntriesOf(p.src) : arpTable[i].mac = p.mac
  ELSE TableFull

ArpKinds == {"arp_request", "arp_reply"}

RetriedIsStored ==
  failed > 0 /\ Head(queue).kind \in ArpKinds => Stored(Head(queue))

IInv ==
  /\ TypeOK
  /\ TableTypes
  /\ OneEntryEach
  /\ EntriesAreHeard
  /\ FramesToNextHop
  /\ RetriedIsStored

-----------------------------------------------------------------------------
\* An entry is not the empty one.
LEMMA EntryIsUsed == \A e \in Entry : e # Empty
<1> SUFFICES ASSUME NEW e \in Entry, e = Empty PROVE FALSE
  OBVIOUS
<1>1. DOMAIN e = {"ip", "mac"}
  BY DEF Entry
<1>2. DOMAIN Empty = {}
  BY DEF Empty
<1> QED BY <1>1, <1>2

\* ipv4_send_packet delivers directly on the local network, and through the
\* gateway elsewhere: the longest mask that matches decides.
LEMMA NextHopIs ==
  ASSUME NEW dst \in Locals \cup Remotes
  PROVE  NextHop(dst) = IF dst \in Locals THEN dst ELSE Gateway
<1>1. /\ RouteTable[1] = Route(Addresses, 0, Gateway)
      /\ RouteTable[2] = Route({Host} \cup Locals, 24, Host)
      /\ DOMAIN RouteTable = {1, 2}
  BY DEF RouteTable
<1>2. /\ RouteTable[1].bits = 0 /\ RouteTable[2].bits = 24
      /\ RouteTable[1].gateway = Gateway /\ RouteTable[2].gateway = Host
      /\ RouteTable[1].interface = Host /\ RouteTable[2].interface = Host
      /\ RouteTable[1].net = Addresses /\ RouteTable[2].net = {Host} \cup Locals
  BY <1>1 DEF Route
<1>3. dst # Host /\ Gateway # Host
  BY AddressAssumption
<1>4. CASE dst \in Locals
  <2>1. Matches(dst) = {1, 2}
    BY <1>1, <1>2, <1>4 DEF Matches, Addresses
  <2>2. RouteEntry(dst) = RouteTable[2]
    BY <2>1, <1>2 DEF RouteEntry
  <2> QED BY <1>2, <1>4, <2>2 DEF NextHop
<1>5. CASE dst \notin Locals
  <2>1. Matches(dst) = {1}
    BY <1>1, <1>2, <1>3, <1>5 DEF Matches, Addresses
  <2>2. RouteEntry(dst) = RouteTable[1]
    BY <2>1, <1>2 DEF RouteEntry
  <2> QED BY <1>2, <1>3, <1>5, <2>2 DEF NextHop
<1> QED BY <1>4, <1>5

\* arp_lookup_mac_addr finds what the host has announced.
LEMMA MacForIs ==
  ASSUME TableTypes, OneEntryEach, EntriesAreHeard, NEW a, Known(a)
  PROVE  MacFor(a) = heard[a]
<1>1. PICK i \in Slots : arpTable[i] # Empty /\ arpTable[i].ip = a
  BY DEF Known, EntriesOf, Empty
<1>2. EntriesOf(a) = {i}
  BY <1>1 DEF EntriesOf, OneEntryEach, Empty
<1>3. i \in Nat
  BY SizeAssumption DEF Slots
<1>4. Last(EntriesOf(a)) = i
  BY <1>2, <1>3 DEF Last
<1> QED BY <1>1, <1>4 DEF MacFor, EntriesAreHeard

\* What ipv4_send_packet gives to the card: the packet to its next hop, or a
\* request for that hop's address, or nothing.
LEMMA IpSendFrames ==
  ASSUME TableTypes, OneEntryEach, EntriesAreHeard,
         NEW type, NEW dst \in Locals \cup Remotes, NEW accepts \in BOOLEAN,
         NEW f \in IpSend(type, dst, accepts).frames
  PROVE  \/ f.type = "arp_request" /\ f.dst = NextHop(dst)
         \/ /\ f.type = type /\ f.dst = dst
            /\ f.to = heard[IF dst \in Locals THEN dst ELSE Gateway]
<1> DEFINE hop == NextHop(dst)
<1>1. hop = IF dst \in Locals THEN dst ELSE Gateway
  BY NextHopIs
<1>2. CASE ~hasDevice
  BY <1>2 DEF IpSend, Result
<1>3. CASE hasDevice /\ Known(hop)
  <2>1. f = IpFrame(type, hop, dst)
    BY <1>3 DEF IpSend, NetdevSend, Result
  <2>2. f.to = heard[hop]
    BY <1>3, <2>1, MacForIs DEF IpFrame
  <2> QED BY <1>1, <2>1, <2>2 DEF IpFrame
<1>4. CASE hasDevice /\ ~Known(hop)
  <2>1. f = ArpFrame("arp_request", hop, "broadcast")
    BY <1>4 DEF IpSend, NetdevSend, Result
  <2> QED BY <2>1 DEF ArpFrame
<1> QED BY <1>2, <1>3, <1>4


\* Every set of indices that is not empty has a first one.
LEMMA LeastExists ==
  ASSUME NEW S \in SUBSET Nat, S # {}
  PROVE  \E i \in S : \A j \in S : i <= j
<1> DEFINE Before == {ij \in Nat \X Nat : ij[1] < ij[2]}
<1>1. Before = OpToRel(<, Nat)
  BY DEF OpToRel
<1>2. IsWellFoundedOn(Before, Nat)
  BY <1>1, NatLessThanWellFounded
<1>3. \A a, b \in Nat : a < b => <<a, b>> \in Before
  OBVIOUS
<1> HIDE DEF Before
<1>4. PICK i \in S : \A j \in S : ~ (<<j, i>> \in Before)
  BY <1>2, WFMin
<1>5. ASSUME NEW j \in S
      PROVE  i <= j
  <2>1. i \in Nat /\ j \in Nat
    OBVIOUS
  <2>2. ~ (j < i)
    BY <2>1, <1>3, <1>4
  <2> QED BY <2>1, <2>2
<1> QED BY <1>5

\* The first slot of a set of slots exists.
LEMMA FirstIs ==
  ASSUME NEW S \in SUBSET Slots, S # {}
  PROVE  First(S) \in S
<1>1. S \subseteq Nat
  BY SizeAssumption DEF Slots
<1> QED BY <1>1, LeastExists DEF First

\* What the senders of packets are, by kind.
LEMMA PacketKinds ==
  ASSUME NEW p \in Packets
  PROVE  /\ p.kind \in ArpKinds => /\ <<p.src, p.mac>> \in Senders
                                   /\ p.src \in Locals /\ p.mac \in 1 .. 2
         /\ p.kind = "echo" => p.src \in Pingers
         /\ p.kind = "syn" => p.src \in Openers
<1>1. CASE p \in Datagrams
  BY <1>1 DEF Datagrams, Datagram, ArpKinds
<1>2. ASSUME NEW op \in ArpKinds, NEW s \in Senders, p = ArpPacket(op, s)
      PROVE  p.kind \in ArpKinds /\ <<p.src, p.mac>> \in Senders
             /\ p.src \in Locals /\ p.mac \in 1 .. 2
  <2>1. s = <<s[1], s[2]>> /\ s[1] \in Locals /\ s[2] \in 1 .. 2
    BY AddressAssumption DEF Senders
  <2> QED BY <1>2, <2>1 DEF ArpPacket
<1>3. \/ p \in Datagrams
      \/ \E op \in ArpKinds, s \in Senders : p = ArpPacket(op, s)
  BY DEF Packets, Incoming, ArpKinds
<1> QED BY <1>1, <1>2, <1>3 DEF ArpKinds

-----------------------------------------------------------------------------
\* Releasing a packet, or leaving it in the queue.
LEMMA FinishQueue ==
  ASSUME TypeOK, queue # << >>, failed <= MaxFailed, NEW result, Finish(result)
  PROVE  /\ queue' \in Seq(Packets) /\ Len(queue') <= QueueLen
         /\ failed' \in 0 .. MaxFailed + 1
         /\ queue' = << >> => failed' = 0
         /\ failed' > 0 => queue' = queue /\ result.code # "ok"
<1>1. CASE result.code = "ok"
  BY <1>1, SizeAssumption DEF Finish, TypeOK
<1>2. CASE result.code # "ok"
  BY <1>2, SizeAssumption DEF Finish, TypeOK
<1> QED BY <1>1, <1>2

\* Sending: packets go to their next hop, requests ask for one.
LEMMA EmitFrames ==
  ASSUME TypeOK, TableTypes, OneEntryEach, EntriesAreHeard,
         NEW type \in {"answer", "syn_ack", "ping"},
         NEW dst \in Pingers \cup Openers \cup {PingTarget},
         NEW accepts \in BOOLEAN,
         Emit(IpSend(type, dst, accepts).frames), heard' = heard
  PROVE  FramesToNextHop' /\ asked' \subseteq Hops
<1> DEFINE frames == IpSend(type, dst, accepts).frames
<1>1. dst \in Locals \cup Remotes
  BY AddressAssumption
<1>2. \A f \in frames :
        \/ f.type = "arp_request" /\ f.dst = NextHop(dst)
        \/ /\ f.type = type /\ f.dst = dst
           /\ f.to = heard[IF dst \in Locals THEN dst ELSE Gateway]
  BY <1>1, IpSendFrames
<1>3. \A f \in sent' : f.to = heard[IF f.dst \in Locals THEN f.dst ELSE Gateway]
  BY <1>2 DEF Emit
<1>4. asked' \subseteq asked \cup {NextHop(dst)}
  BY <1>2 DEF Emit
<1> QED BY <1>3, <1>4 DEF FramesToNextHop, TypeOK, Hops

\* What holds of the ARP table holds after a step that leaves it alone.
LEMMA SameTable ==
  ASSUME TableTypes, OneEntryEach, EntriesAreHeard, arpTable' = arpTable, heard' = heard
  PROVE  /\ TableTypes' /\ OneEntryEach' /\ EntriesAreHeard'
         /\ \A p : Stored(p)' <=> Stored(p)
BY DEF TableTypes, OneEntryEach, EntriesAreHeard, Stored, Known, EntriesOf,
       TableFull, FreeEntries

-----------------------------------------------------------------------------
LEMMA InitInv == Init => IInv
<1> SUFFICES ASSUME Init PROVE IInv
  OBVIOUS
<1>1. TypeOK
  BY SizeAssumption DEF Init, TypeOK, Packets
<1>2. TableTypes /\ OneEntryEach /\ EntriesAreHeard
  BY DEF Init, TableTypes, OneEntryEach, EntriesAreHeard, Empty
<1>3. FramesToNextHop /\ RetriedIsStored
  BY DEF Init, FramesToNextHop, RetriedIsStored
<1> QED BY <1>1, <1>2, <1>3 DEF IInv

\* A packet arrives: the one at the head, if any, stays there.
LEMMA EnqueueInv ==
  ASSUME IInv, NEW p \in Packets, Len(queue) < QueueLen, queue' = Append(queue, p),
         sent' = {}, asked' \subseteq asked,
         UNCHANGED <<hasDevice, failed, arpTable, conn, pingVars, heard, synAcked>>
  PROVE  IInv'
<1> USE DEF IInv
<1>1. /\ failed' = failed /\ arpTable' = arpTable /\ conn' = conn /\ heard' = heard
      /\ ping' = ping /\ tries' = tries /\ hasDevice' = hasDevice
      /\ synAcked' = synAcked
  BY DEF pingVars
<1>2. /\ queue' \in Seq(Packets) /\ Len(queue') <= QueueLen /\ queue' # << >>
      /\ queue # << >> => Head(queue') = Head(queue)
  BY SizeAssumption DEF TypeOK
<1>3. TypeOK'
  BY <1>1, <1>2 DEF TypeOK
<1>4. TableTypes' /\ OneEntryEach' /\ EntriesAreHeard' /\ (\A q : Stored(q)' <=> Stored(q))
  BY <1>1, SameTable
<1>5. RetriedIsStored'
  BY <1>1, <1>2, <1>4 DEF RetriedIsStored, TypeOK
<1>6. FramesToNextHop'
  BY DEF FramesToNextHop
<1> QED BY <1>3, <1>4, <1>5, <1>6

LEMMA GiveUpInv ==
  ASSUME IInv, GiveUp
  PROVE  IInv'
<1> USE DEF IInv
<1>1. /\ queue # << >> /\ queue' = Tail(queue) /\ failed' = 0 /\ sent' = {}
      /\ arpTable' = arpTable /\ conn' = conn /\ heard' = heard /\ ping' = ping
      /\ tries' = tries /\ hasDevice' = hasDevice /\ synAcked' = synAcked
      /\ asked' = asked
  BY DEF GiveUp, pingVars
<1>2. TypeOK'
  BY <1>1, SizeAssumption DEF TypeOK
<1>3. TableTypes' /\ OneEntryEach' /\ EntriesAreHeard'
  BY <1>1, SameTable
<1>4. RetriedIsStored' /\ FramesToNextHop'
  BY <1>1 DEF RetriedIsStored, FramesToNextHop
<1> QED BY <1>2, <1>3, <1>4

\* A datagram is handled: the ARP table stays, and if the packet does, it is
\* none of ARP.
LEMMA HandleInv ==
  ASSUME IInv, NEW kinds, Handling(kinds), kinds \cap ArpKinds = {},
         NEW result, Finish(result),
         UNCHANGED <<arpTable, heard>>,
         conn' \in [Openers -> {"none", "syn_rcvd"}], synAcked' \subseteq Openers,
         FramesToNextHop', asked' \subseteq Hops
  PROVE  IInv'
<1> USE DEF IInv
<1>1. /\ queue # << >> /\ failed <= MaxFailed /\ Head(queue).kind \notin ArpKinds
      /\ hasDevice' = hasDevice /\ ping' = ping /\ tries' = tries
  BY DEF Handling, pingVars
<1>2. /\ queue' \in Seq(Packets) /\ Len(queue') <= QueueLen
      /\ failed' \in 0 .. MaxFailed + 1
      /\ queue' = << >> => failed' = 0
      /\ failed' > 0 => queue' = queue
  BY <1>1, FinishQueue
<1>3. TypeOK'
  BY <1>1, <1>2 DEF TypeOK
<1>4. TableTypes' /\ OneEntryEach' /\ EntriesAreHeard'
  BY SameTable
<1>5. RetriedIsStored'
  BY <1>1, <1>2 DEF RetriedIsStored
<1> QED BY <1>3, <1>4, <1>5

LEMMA HeadIsPacket ==
  ASSUME TypeOK, queue # << >>
  PROVE  Head(queue) \in Packets
BY DEF TypeOK

LEMMA HandleEchoInv ==
  ASSUME IInv, NEW a \in Pingers, NEW accepts \in BOOLEAN, HandleEcho(a, accepts)
  PROVE  IInv'
<1> DEFINE result == IpSend("answer", a, accepts)
<1>1. /\ Handling({"echo"}) /\ Finish(result)
      /\ arpTable' = arpTable /\ conn' = conn /\ heard' = heard /\ synAcked' = synAcked
  BY DEF HandleEcho
<1>2. FramesToNextHop' /\ asked' \subseteq Hops
  BY <1>1, EmitFrames DEF Finish, IInv
<1> HIDE DEF result
<1> QED BY <1>1, <1>2, HandleInv DEF ArpKinds, IInv, TypeOK

LEMMA HandleSynInv ==
  ASSUME IInv, NEW accepts \in BOOLEAN, HandleSyn(accepts)
  PROVE  IInv'
<1> DEFINE a == Head(queue).src
           send == IpSend("syn_ack", a, accepts)
           result == IF conn[a] = "none" THEN send ELSE Result("ok", {})
<1>1. /\ Handling({"syn"}) /\ Finish(result)
      /\ arpTable' = arpTable /\ heard' = heard
      /\ conn' = [conn EXCEPT ![a] = "syn_rcvd"]
      /\ synAcked' = synAcked \cup
           {f.dst : f \in {g \in result.frames : g.type = "syn_ack"}}
  BY DEF HandleSyn
<1>2. a \in Openers /\ a \in Locals \cup Remotes
  BY <1>1, HeadIsPacket, PacketKinds, AddressAssumption DEF Handling, IInv
<1>3. FramesToNextHop' /\ asked' \subseteq Hops
  <2>1. CASE conn[a] = "none"
    BY <1>1, <1>2, <2>1, EmitFrames DEF Finish, IInv
  <2>2. CASE conn[a] # "none"
    BY <1>1, <2>2 DEF Finish, Emit, Result, FramesToNextHop, IInv, TypeOK
  <2> QED BY <2>1, <2>2
<1>4. \A f \in result.frames : f.type = "syn_ack" => f.dst = a
  <2>1. CASE conn[a] = "none"
    BY <1>2, <2>1, IpSendFrames DEF IInv
  <2>2. CASE conn[a] # "none"
    BY <2>2 DEF Result
  <2> QED BY <2>1, <2>2
<1>5. synAcked' \subseteq Openers
  BY <1>1, <1>2, <1>4 DEF IInv, TypeOK
<1>6. conn' \in [Openers -> {"none", "syn_rcvd"}]
  BY <1>1, <1>2 DEF IInv, TypeOK
<1> HIDE DEF result, send, a
<1> QED BY <1>1, <1>3, <1>5, <1>6, HandleInv DEF ArpKinds

LEMMA HandleSilentInv ==
  ASSUME IInv, HandleSilent
  PROVE  IInv'
<1> DEFINE result == Result("ok", {})
<1>1. /\ Handling({"silent"}) /\ Finish(result)
      /\ arpTable' = arpTable /\ conn' = conn /\ heard' = heard /\ synAcked' = synAcked
  BY DEF HandleSilent
<1>2. FramesToNextHop' /\ asked' \subseteq Hops
  BY <1>1 DEF Finish, Emit, Result, FramesToNextHop, IInv, TypeOK
<1> HIDE DEF result
<1> QED BY <1>1, <1>2, HandleInv DEF ArpKinds, IInv, TypeOK

LEMMA PingInv ==
  ASSUME IInv, NEW accepts \in BOOLEAN, Ping(accepts)
  PROVE  IInv'
<1> USE DEF IInv
<1> DEFINE result == IpSend("ping", PingTarget, accepts)
<1>1. /\ ping = "trying" /\ Emit(result.frames)
      /\ queue' = queue /\ failed' = failed /\ arpTable' = arpTable
      /\ conn' = conn /\ heard' = heard /\ synAcked' = synAcked
      /\ hasDevice' = hasDevice
  BY DEF Ping, SendEcho, taskVars
<1>2. \/ tries' = tries + 1 /\ tries + 1 < PingTries /\ ping' = ping
      \/ ping' \in {"done", "crashed"} /\ tries' = tries
  BY DEF Ping
<1>3. FramesToNextHop' /\ asked' \subseteq Hops
  BY <1>1, EmitFrames
<1>4. TypeOK'
  BY <1>1, <1>2, <1>3, SizeAssumption DEF TypeOK
<1>5. TableTypes' /\ OneEntryEach' /\ EntriesAreHeard' /\ (\A q : Stored(q)' <=> Stored(q))
  BY <1>1, SameTable
<1>6. RetriedIsStored'
  BY <1>1, <1>5 DEF RetriedIsStored
<1> QED BY <1>3, <1>4, <1>5, <1>6

\* Where arp_table_update_or_insert stores: at the host's entry, if it has one.
LEMMA EntryForIs ==
  ASSUME TableTypes, OneEntryEach, NEW a, Known(a) \/ ~TableFull
  PROVE  /\ EntryFor(a) \in Slots
         /\ Known(a) => EntriesOf(a) = {EntryFor(a)}
         /\ ~Known(a) => arpTable[EntryFor(a)] = Empty
<1>1. CASE Known(a)
  <2>1. EntriesOf(a) \subseteq Slots /\ EntriesOf(a) # {}
    BY <1>1 DEF EntriesOf, Known
  <2>2. EntryFor(a) \in EntriesOf(a)
    BY <1>1, <2>1, FirstIs DEF EntryFor
  <2>3. \A i, j \in EntriesOf(a) : i = j
    BY DEF EntriesOf, OneEntryEach, Empty
  <2> QED BY <1>1, <2>1, <2>2, <2>3
<1>2. CASE ~Known(a)
  <2>1. FreeEntries \subseteq Slots /\ FreeEntries # {}
    BY <1>2 DEF FreeEntries, TableFull
  <2>2. EntryFor(a) \in FreeEntries
    BY <1>2, <2>1, FirstIs DEF EntryFor
  <2> QED BY <1>2, <2>1, <2>2 DEF FreeEntries, Empty
<1> QED BY <1>1, <1>2

\* Storing a sender keeps one entry for each address, with what it announced.
LEMMA StoreEntry ==
  ASSUME TableTypes, OneEntryEach, EntriesAreHeard,
         NEW a \in Locals, NEW mac \in 1 .. 2, Known(a) \/ ~TableFull,
         arpTable' = [arpTable EXCEPT ![EntryFor(a)] = [ip |-> a, mac |-> mac]],
         heard' = [heard EXCEPT ![a] = mac]
  PROVE  /\ TableTypes' /\ OneEntryEach' /\ EntriesAreHeard'
         /\ EntriesOf(a)' = {EntryFor(a)} /\ arpTable'[EntryFor(a)].mac = mac
<1> DEFINE at == EntryFor(a)
           new == [ip |-> a, mac |-> mac]
<1>1. at \in Slots /\ new \in Entry /\ new # Empty /\ new.ip = a /\ new.mac = mac
  BY EntryForIs, EntryIsUsed DEF Entry
<1>2. \A i \in Slots \ {at} : arpTable[i] # Empty => arpTable[i].ip # a
  <2>1. CASE Known(a)
    BY <2>1, EntryForIs DEF EntriesOf, Empty
  <2>2. CASE ~Known(a)
    BY <2>2 DEF Known, EntriesOf, Empty
  <2> QED BY <2>1, <2>2
<1> HIDE DEF at, new
<1>3. /\ arpTable' \in [Slots -> Entry \cup {Empty}]
      /\ \A i \in Slots : arpTable'[i] = IF i = at THEN new ELSE arpTable[i]
  BY <1>1 DEF TableTypes, at, new
<1>4. DOMAIN heard' = Locals /\ \A b \in Locals : heard'[b] = IF b = a THEN mac ELSE heard[b]
  BY DEF TableTypes
<1>5. TableTypes'
  BY <1>3, <1>4 DEF TableTypes
<1>6. OneEntryEach'
  BY <1>1, <1>2, <1>3 DEF OneEntryEach
<1>7. EntriesAreHeard'
  <2> SUFFICES ASSUME NEW i \in Slots, arpTable'[i] # Empty
               PROVE  arpTable'[i].mac = heard'[arpTable'[i].ip]
    BY DEF EntriesAreHeard
  <2>1. CASE i = at
    BY <1>1, <1>3, <1>4, <2>1
  <2>2. CASE i # at
    <3>1. arpTable[i] \in Entry /\ arpTable'[i] = arpTable[i]
      BY <1>3, <2>2 DEF TableTypes
    <3>2. arpTable[i].ip \in Locals \ {a}
      BY <1>2, <2>2, <3>1, EntryIsUsed DEF Entry
    <3> QED BY <1>4, <3>1, <3>2 DEF EntriesAreHeard
  <2> QED BY <2>1, <2>2
<1>8. EntriesOf(a)' = {at}
  BY <1>1, <1>2, <1>3 DEF EntriesOf, Empty
<1> QED BY <1>1, <1>3, <1>5, <1>6, <1>7, <1>8 DEF at

LEMMA HandleArpInv ==
  ASSUME IInv, NEW accepts \in BOOLEAN, HandleArp(accepts)
  PROVE  IInv'
<1> USE DEF IInv
<1> PICK p : p = Head(queue)
  OBVIOUS
<1> DEFINE frame == ArpFrame("arp_answer", p.src, p.mac)
           full == TableFull /\ ~Known(p.src)
           result == IF full THEN Result("ENOMEM", {})
                     ELSE IF p.kind = "arp_request" THEN NetdevSend(frame, accepts)
                     ELSE Result("ok", {})
<1>1. /\ queue # << >> /\ failed <= MaxFailed /\ p.kind \in ArpKinds
      /\ hasDevice' = hasDevice /\ ping' = ping /\ tries' = tries
      /\ conn' = conn /\ synAcked' = synAcked /\ Finish(result)
  BY DEF HandleArp, Handling, pingVars, ArpKinds
<1>2. IF full THEN arpTable' = arpTable /\ heard' = heard
      ELSE /\ arpTable' = [arpTable EXCEPT ![EntryFor(p.src)] = [ip |-> p.src, mac |-> p.mac]]
           /\ heard' = [heard EXCEPT ![p.src] = p.mac]
  BY DEF HandleArp
<1>3. p.src \in Locals /\ p.mac \in 1 .. 2 /\ <<p.src, p.mac>> \in Senders
  BY <1>1, HeadIsPacket, PacketKinds
<1>4. sent' = {} /\ asked' = asked
  <2>1. \A f \in result.frames : f.type = "arp_answer"
    BY DEF Result, NetdevSend, ArpFrame
  <2> QED BY <1>1, <2>1 DEF Finish, Emit
<1>5. /\ queue' \in Seq(Packets) /\ Len(queue') <= QueueLen
      /\ failed' \in 0 .. MaxFailed + 1
      /\ queue' = << >> => failed' = 0
      /\ failed' > 0 => queue' = queue
  BY <1>1, FinishQueue
<1> HIDE DEF result, frame
<1>6. TableTypes' /\ OneEntryEach' /\ EntriesAreHeard' /\ Stored(p)'
  <2>1. CASE full
    <3>1. arpTable' = arpTable /\ heard' = heard
      BY <1>2, <2>1
    <3>2. Stored(p)
      BY <2>1 DEF Stored
    <3> QED BY <3>1, <3>2, SameTable
  <2>2. CASE ~full
    <3>1. Known(p.src) \/ ~TableFull
      BY <2>2
    <3>2. /\ TableTypes' /\ OneEntryEach' /\ EntriesAreHeard'
          /\ EntriesOf(p.src)' = {EntryFor(p.src)}
          /\ arpTable'[EntryFor(p.src)].mac = p.mac
      BY <1>2, <1>3, <2>2, <3>1, StoreEntry
    <3> QED BY <3>2 DEF Stored, Known
  <2> QED BY <2>1, <2>2
<1>7. \A i \in Slots : arpTable'[i] # << >> =>
        <<arpTable'[i].ip, arpTable'[i].mac>> \in Senders
  <2> SUFFICES ASSUME NEW i \in Slots, arpTable'[i] # << >>
               PROVE  <<arpTable'[i].ip, arpTable'[i].mac>> \in Senders
    OBVIOUS
  <2>1. CASE arpTable'[i] = arpTable[i]
    BY <2>1 DEF TypeOK
  <2>2. CASE arpTable'[i] # arpTable[i]
    BY <1>2, <1>3, <2>2 DEF TableTypes
  <2> QED BY <2>1, <2>2
<1>8. TypeOK'
  BY <1>1, <1>4, <1>5, <1>7 DEF TypeOK
<1>9. RetriedIsStored'
  BY <1>5, <1>6 DEF RetriedIsStored
<1>10. FramesToNextHop'
  BY <1>4 DEF FramesToNextHop
<1> QED BY <1>6, <1>8, <1>9, <1>10

LEMMA NextInv == IInv /\ [Next]_vars => IInv'
<1> SUFFICES ASSUME IInv, [Next]_vars PROVE IInv'
  OBVIOUS
<1>1. ASSUME NEW p \in Incoming, Receive(p) PROVE IInv'
  BY <1>1, EnqueueInv DEF Receive, Packets, pingVars
<1>2. ASSUME NEW a \in Locals, HostAnswers(a) PROVE IInv'
  <2>1. PICK s \in Senders : queue' = Append(queue, ArpPacket("arp_reply", s))
    BY <1>2 DEF HostAnswers
  <2>2. ArpPacket("arp_reply", s) \in Packets
    BY DEF Packets
  <2>3. /\ Len(queue) < QueueLen /\ sent' = {} /\ asked' \subseteq asked
        /\ UNCHANGED <<hasDevice, failed, arpTable, conn, pingVars, heard, synAcked>>
    BY <1>2 DEF HostAnswers
  <2> QED BY <2>1, <2>2, <2>3, EnqueueInv
<1>3. CASE GiveUp
  BY <1>3, GiveUpInv
<1>4. CASE HandleSilent
  BY <1>4, HandleSilentInv
<1>5. ASSUME NEW accepts \in BOOLEAN, HandleArp(accepts) PROVE IInv'
  BY <1>5, HandleArpInv
<1>6. ASSUME NEW accepts \in BOOLEAN, HandleSyn(accepts) PROVE IInv'
  BY <1>6, HandleSynInv
<1>7. ASSUME NEW accepts \in BOOLEAN, NEW a \in Pingers, HandleEcho(a, accepts)
      PROVE  IInv'
  BY <1>7, HandleEchoInv
<1>8. ASSUME NEW accepts \in BOOLEAN, Ping(accepts) PROVE IInv'
  BY <1>8, PingInv
<1>9. CASE UNCHANGED vars
  <2>1. TypeOK' /\ FramesToNextHop' /\ arpTable' = arpTable /\ heard' = heard
        /\ queue' = queue /\ failed' = failed
    BY <1>9 DEF vars, taskVars, pingVars, IInv, TypeOK, FramesToNextHop
  <2> QED BY <2>1, SameTable DEF IInv, RetriedIsStored
<1> QED BY <1>1, <1>2, <1>3, <1>4, <1>5, <1>6, <1>7, <1>8, <1>9 DEF Next, ReceiveTask

LEMMA Invariance == Spec => []IInv
BY InitInv, NextInv, PTL DEF Spec

-----------------------------------------------------------------------------
\* The state is well-formed, and the assertion of arp_lookup_mac_addr holds:
\* no address has two entries, however hosts and requests interleave.
THEOREM StateAlwaysCorrect == Spec => []StateCorrect
<1>1. ASSUME IInv, NEW a \in Locals
      PROVE  Cardinality(EntriesOf(a)) <= 1
  <2>1. \A i, j \in EntriesOf(a) : i = j
    BY <1>1 DEF EntriesOf, IInv, OneEntryEach, Empty
  <2>2. CASE EntriesOf(a) = {}
    BY <2>2, FS_EmptySet
  <2>3. CASE EntriesOf(a) # {}
    <3>1. PICK i : EntriesOf(a) = {i}
      BY <2>1, <2>3
    <3> QED BY <3>1, FS_Singleton
  <2> QED BY <2>2, <2>3
<1>2. IInv => StateCorrect
  BY <1>1 DEF IInv, StateCorrect, ArpUnique
<1> QED BY <1>2, Invariance, PTL

\* Routing and address resolution together send every packet to the right
\* card, for all networks of this form and all changes of cards.
THEOREM FramesGoToNextHop == Spec => []FramesToNextHop
BY Invariance, PTL DEF IInv

\* A packet that is tried again meets the ARP table it failed with.
THEOREM RetryNeverHelps == Spec => RetryIsFutile
<1>1. ASSUME IInv, [Next]_vars, failed > 0
      PROVE  arpTable' = arpTable
  <2>1. ASSUME NEW accepts \in BOOLEAN, HandleArp(accepts)
        PROVE  arpTable' = arpTable
    <3> DEFINE p == Head(queue)
               full == TableFull /\ ~Known(p.src)
    <3>1. p.kind \in ArpKinds /\ queue # << >>
      BY <2>1 DEF HandleArp, Handling, ArpKinds
    <3>2. CASE full
      BY <2>1, <3>2 DEF HandleArp
    <3>3. CASE ~full
      <4>1. Known(p.src) /\ \A i \in EntriesOf(p.src) : arpTable[i].mac = p.mac
        BY <1>1, <3>1, <3>3 DEF IInv, RetriedIsStored, Stored
      <4>2. EntryFor(p.src) \in EntriesOf(p.src)
        BY <1>1, <4>1, EntryForIs DEF IInv
      <4> DEFINE e == arpTable[EntryFor(p.src)]
      <4>3. e \in Entry /\ e.ip = p.src /\ e.mac = p.mac
        BY <1>1, <4>1, <4>2 DEF EntriesOf, IInv, TableTypes, Empty
      <4>4. e = [ip |-> p.src, mac |-> p.mac]
        BY <4>3 DEF Entry
      <4>5. arpTable' = [arpTable EXCEPT ![EntryFor(p.src)] = [ip |-> p.src, mac |-> p.mac]]
        BY <2>1, <3>3 DEF HandleArp
      <4> QED BY <1>1, <4>4, <4>5 DEF IInv, TableTypes
    <3> QED BY <3>2, <3>3
  <2> QED BY <1>1, <2>1 DEF Next, ReceiveTask, Receive, HostAnswers, GiveUp,
       HandleSilent, HandleSyn, HandleEcho, Ping, vars, taskVars
<1> QED BY <1>1, Invariance, PTL DEF Spec, RetryIsFutile

\* The ping stops the kernel in the three cases named, and no other.
THEOREM PingCrashIsExplained == Spec => PingCrashExplained
<1> DEFINE Why == \/ ~hasDevice
                  \/ Known(Gateway) /\ sent' = {}
                  \/ ~Known(Gateway) /\ tries = PingTries - 1
<1>1. ASSUME IInv, [Next]_vars, ~ UNCHANGED vars, ping' = "crashed"
      PROVE  Why
  <2>1. ASSUME NEW accepts \in BOOLEAN, Ping(accepts)
        PROVE  Why
    <3> DEFINE result == IpSend("ping", PingTarget, accepts)
    <3>1. /\ result.code # "ok" /\ Emit(result.frames)
          /\ ~ (result.code = "EAGAIN" /\ tries + 1 < PingTries)
      BY <1>1, <2>1 DEF Ping, SendEcho
    <3>2. NextHop(PingTarget) = Gateway
      BY NextHopIs, AddressAssumption
    <3>3. CASE hasDevice /\ Known(Gateway)
      BY <3>1, <3>2, <3>3 DEF IpSend, NetdevSend, Result, Emit
    <3>4. CASE hasDevice /\ ~Known(Gateway)
      <4>1. result.code = "EAGAIN"
        BY <3>2, <3>4 DEF IpSend, Result
      <4> QED BY <1>1, <3>1, <3>4, <4>1, SizeAssumption DEF IInv, TypeOK
    <3> QED BY <3>3, <3>4
  <2>2. ping # "crashed" \/ ~Running
    BY DEF Running
  <2> QED BY <1>1, <2>1, <2>2 DEF Next, ReceiveTask, Receive, HostAnswers, GiveUp,
       HandleSilent, HandleSyn, HandleEcho, HandleArp, Handling, Running, pingVars
<1> QED BY <1>1, Invariance, PTL DEF Spec, PingCrashExplained
=============================================================================
