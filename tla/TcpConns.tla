------------------------------ MODULE TcpConns ------------------------------
(***************************************************************************)
(* The connection table of src/net/tcp.c: which slot holds which           *)
(* connection, the state every connection is in, the accept queues, and    *)
(* the handles the users of the TCP API hold.                              *)
(*                                                                         *)
(* Segments and API calls are handled by cooperative tasks, none of which  *)
(* sleeps inside tcp.c: every handler and every call is one step, in any   *)
(* order.  The network may deliver any segment at any time, as often as it *)
(* likes; a segment that is handled again because the first attempt failed *)
(* is covered by that.  Nothing a handler decides here depends on sequence *)
(* numbers or payload: those are in TcpStream.                             *)
(***************************************************************************)
EXTENDS Naturals, Sequences

CONSTANTS
  NumConns,        \* TCP_CONN_MAX_NUM
  Port,            \* local ports (the local address is fixed)
  Peer,            \* remote endpoints: address and port
  NoPeer,          \* the wildcard peer of a listening connection
  TimeWaitMs,      \* TCP_CONN_TIME_WAIT_MS
  MaxTime          \* bound on the clock

ASSUME NumConnsAssumption == NumConns \in Nat
ASSUME NoPeerAssumption == NoPeer \notin Peer

VARIABLES
  conn,            \* global_tcp_conn_table
  queue,           \* accept_queue of every listening connection, head first
  handles,         \* the connections users hold a pointer to
  now              \* time_current_ms()

vars == <<conn, queue, handles, now>>

Slots == 0 .. NumConns - 1
Flags == {"SYN", "ACK", "FIN", "RST"}
Segment == [peer : Peer, port : Port, flags : SUBSET Flags]

ConnState == {"LISTEN", "SYN_RCVD", "ESTABLISHED", "CLOSE_WAIT", "LAST_ACK",
              "FIN_WAIT_1", "FIN_WAIT_2", "CLOSING", "TIME_WAIT", "RESET"}

\* A slot with is_used = false.
Unused == [state |-> "UNUSED"]

Conn == [state : ConnState, port : Port, peer : Peer \cup {NoPeer},
         hasBuf : BOOLEAN, timeWaitStart : Nat]

IsUsed(c) == c # Unused
First(S) == CHOOSE i \in S : \A j \in S : i <= j

\* A linked list without node c: dlist_remove unlinks it, if it is linked.
Without(q, c) ==
  LET at == {k \in 1 .. Len(q) : q[k] = c} IN
  IF at = {} THEN q ELSE [i \in 1 .. Len(q) - 1 |-> q[IF i < First(at) THEN i ELSE i + 1]]

-----------------------------------------------------------------------------
Init ==
  /\ conn = [i \in Slots |-> Unused]
  /\ queue = [i \in Slots |-> << >>]
  /\ handles = {}
  /\ now = 0

(***************************************************************************)
(* tcp_purge_old_conn, which every lookup and allocation starts with.  It  *)
(* compares the clock with the start of the TIME_WAIT state.               *)
(***************************************************************************)
Expired(i) == conn[i].state = "TIME_WAIT" /\ now >= conn[i].timeWaitStart

Table == [i \in Slots |-> IF IsUsed(conn[i]) /\ Expired(i) THEN Unused ELSE conn[i]]

\* Mutant of Dequeued: the connection stays linked in the accept queue.
DequeuedOwnOnly(i) == [queue EXCEPT ![i] = << >>]

\* tcp_free_conn in table T: the slot is free and in nobody's accept queue;
\* the connections a listener had queued stay behind without it.
Freed(T, i) == [T EXCEPT ![i] = Unused]
Dequeued(i) == [l \in Slots |-> IF l = i THEN << >> ELSE Without(queue[l], i)]

FreeSlots == {i \in Slots : ~IsUsed(Table[i])}

\* tcp_lookup_conn without and with peer wildcards.
ExactMatches(port, peer) ==
  {i \in Slots : IsUsed(Table[i]) /\ Table[i].port = port /\ Table[i].peer = peer}

WildcardMatches(port, peer) ==
  {i \in Slots : /\ IsUsed(Table[i])
                 /\ Table[i].port = port
                 /\ NoPeer \in {peer, Table[i].peer} \/ Table[i].peer = peer}

\* Mutant of Found: no exact match is tried first.
FoundFirstMatch(seg) ==
  LET wild == WildcardMatches(seg.port, seg.peer)
  IN  IF wild # {} THEN {First(wild)} ELSE {}

\* The connection tcp_handle_packet finds for a segment, as a set of at most
\* one slot.
Found(seg) ==
  LET exact == ExactMatches(seg.port, seg.peer)
      wild  == WildcardMatches(seg.port, seg.peer)
  IN  IF exact # {} THEN {First(exact)}
      ELSE IF wild # {} THEN {First(wild)} ELSE {}

\* tcp_conn_alloc_and_init
NewConn(state, port, peer) ==
  [state |-> state, port |-> port, peer |-> peer, hasBuf |-> FALSE,
   timeWaitStart |-> 0]

-----------------------------------------------------------------------------
\* A segment without a connection is answered with an RST; a listening
\* connection ignores all segments but SYNs, and SYNs if the table is full.
\* Only old connections are purged.
ReceiveIgnored(seg) ==
  /\ \A i \in Found(seg) :
       /\ Table[i].state = "LISTEN"
       /\ "RST" \in seg.flags \/ "SYN" \notin seg.flags \/ FreeSlots = {}
  /\ conn' = Table
  /\ UNCHANGED <<queue, handles, now>>

\* tcp_handle_receive_listen: a SYN creates a connection, puts it at the head
\* of the accept queue and answers it with a SYN and ACK; if that cannot be
\* sent the connection stays.
ReceiveListen(seg) ==
  \E l \in Found(seg) :
    LET new == First(FreeSlots)
    IN  /\ Table[l].state = "LISTEN"
        /\ "RST" \notin seg.flags /\ "SYN" \in seg.flags
        /\ FreeSlots # {}
        /\ conn' = [Table EXCEPT ![new] =
                      NewConn("SYN_RCVD", seg.port, seg.peer)]
        /\ queue' = [queue EXCEPT ![l] = <<new>> \o @]
        /\ UNCHANGED <<handles, now>>

\* tcp_handle_receive_syn_rcvd: an ACK completes the handshake if there is
\* memory for the receive buffer.
ReceiveSynRcvd(seg) ==
  \E c \in Found(seg) :
    /\ Table[c].state = "SYN_RCVD"
    /\ \/ /\ "RST" \in seg.flags \/ "ACK" \in seg.flags
          /\ conn' = Freed(Table, c)
          /\ queue' = Dequeued(c)
       \/ /\ "RST" \notin seg.flags
          /\ conn' = [Table EXCEPT ![c] =
                        IF "ACK" \in seg.flags
                        THEN [@ EXCEPT !.state = "ESTABLISHED", !.hasBuf = TRUE]
                        ELSE @]
          /\ UNCHANGED queue
    /\ UNCHANGED <<handles, now>>

(***************************************************************************)
(* The handlers of the later states: the state a segment with flags f      *)
(* leads to, UNUSED if the connection is freed.                            *)
(***************************************************************************)
\* Mutant of AfterEstablished: a reset connection is freed at once.
AfterEstablishedFrees(f) ==
  IF "RST" \in f THEN "UNUSED"
  ELSE IF "FIN" \in f THEN "CLOSE_WAIT" ELSE "ESTABLISHED"

AfterEstablished(f) ==
  IF "RST" \in f THEN "RESET"
  ELSE IF "FIN" \in f THEN "CLOSE_WAIT" ELSE "ESTABLISHED"

AfterLastAck(f) == IF f \cap {"ACK", "RST"} # {} THEN "UNUSED" ELSE "LAST_ACK"

AfterFinWait1(f) ==
  IF "RST" \in f THEN "UNUSED"
  ELSE IF {"FIN", "ACK"} \subseteq f THEN "TIME_WAIT"
  ELSE IF "FIN" \in f THEN "CLOSING"
  ELSE IF "ACK" \in f THEN "FIN_WAIT_2" ELSE "FIN_WAIT_1"

AfterFinWait2(f) ==
  IF "RST" \in f THEN "UNUSED"
  ELSE IF "FIN" \in f THEN "TIME_WAIT" ELSE "FIN_WAIT_2"

AfterClosing(f) ==
  IF "RST" \in f THEN "UNUSED"
  ELSE IF "ACK" \in f THEN "TIME_WAIT" ELSE "CLOSING"

AfterTimeWait(f) == IF "RST" \in f THEN "UNUSED" ELSE "TIME_WAIT"

After(state, f) ==
  CASE state = "ESTABLISHED" -> AfterEstablished(f)
    [] state = "LAST_ACK"    -> AfterLastAck(f)
    [] state = "FIN_WAIT_1"  -> AfterFinWait1(f)
    [] state = "FIN_WAIT_2"  -> AfterFinWait2(f)
    [] state = "CLOSING"     -> AfterClosing(f)
    [] state = "TIME_WAIT"   -> AfterTimeWait(f)
    [] OTHER                 -> state       \* CLOSE_WAIT and RESET ignore all

\* tcp_handle_packet for a connection that has been established.
ReceiveConnected(seg) ==
  \E c \in Found(seg) :
    LET next == After(Table[c].state, seg.flags)
    IN  /\ Table[c].state \notin {"LISTEN", "SYN_RCVD"}
        /\ IF next = "UNUSED"
           THEN conn' = Freed(Table, c) /\ queue' = Dequeued(c)
           ELSE /\ conn' = [Table EXCEPT
                     ![c].state = next,
                     ![c].timeWaitStart =
                        IF next = "TIME_WAIT" /\ @ = 0 THEN now ELSE @]
                /\ UNCHANGED queue
        /\ UNCHANGED <<handles, now>>

-----------------------------------------------------------------------------
\* tcp_conn_listen: the first connection on the port is returned if it is
\* listening; otherwise a new listening connection is made, if possible.
Listen(port) ==
  LET all == WildcardMatches(port, NoPeer)
  IN  /\ \/ /\ all # {} /\ Table[First(all)].state = "LISTEN"
            /\ handles' = handles \cup {First(all)}
            /\ conn' = Table
            /\ UNCHANGED <<queue, now>>
         \/ /\ all # {} => Table[First(all)].state # "LISTEN"
            /\ FreeSlots # {}
            /\ conn' = [Table EXCEPT ![First(FreeSlots)] =
                          NewConn("LISTEN", port, NoPeer)]
            /\ queue' = [queue EXCEPT ![First(FreeSlots)] = << >>]
            /\ handles' = handles \cup {First(FreeSlots)}
            /\ UNCHANGED now

\* Mutant of Accept: the head leaves the queue before its state is looked at.
AcceptRemovesFirst(l) ==
  /\ l \in handles
  /\ conn[l].state = "LISTEN"
  /\ queue[l] # << >>
  /\ queue' = [queue EXCEPT ![l] = Tail(@)]
  /\ handles' = handles \cup
       {c \in {Head(queue[l])} : conn[c].state = "ESTABLISHED"}
  /\ UNCHANGED <<conn, now>>

\* tcp_conn_accept: only the head of the queue is looked at.
Accept(l) ==
  /\ l \in handles
  /\ conn[l].state = "LISTEN"
  /\ queue[l] # << >>
  /\ conn[Head(queue[l])].state = "ESTABLISHED"
  /\ queue' = [queue EXCEPT ![l] = Tail(@)]
  /\ handles' = handles \cup {Head(queue[l])}
  /\ UNCHANGED <<conn, now>>

\* tcp_conn_close: the state changes whether or not the FIN can be sent.
Close(c) ==
  /\ c \in handles
  /\ handles' = handles \ {c}
  /\ IF conn[c].state \in {"LISTEN", "SYN_RCVD", "RESET"}
     THEN conn' = Freed(conn, c) /\ queue' = Dequeued(c)
     ELSE /\ conn' = [conn EXCEPT
               ![c].state = CASE @ = "ESTABLISHED" -> "FIN_WAIT_1"
                              [] @ = "CLOSE_WAIT"  -> "LAST_ACK"
                              [] OTHER             -> @]
          /\ UNCHANGED queue
  /\ UNCHANGED now

Tick ==
  /\ now < MaxTime
  /\ now' = now + 1
  /\ UNCHANGED <<conn, queue, handles>>

Receive(seg) ==
  \/ ReceiveIgnored(seg)
  \/ ReceiveListen(seg)
  \/ ReceiveSynRcvd(seg)
  \/ ReceiveConnected(seg)

Next ==
  \/ \E seg \in Segment : Receive(seg)
  \/ \E port \in Port : Listen(port)
  \/ \E i \in Slots : Accept(i) \/ Close(i)
  \/ Tick

Spec == Init /\ [][Next]_vars
=============================================================================
