----------------------------- MODULE TcpStream -----------------------------
(***************************************************************************)
(* The data of one TCP connection (src/net/tcp.c): sequence numbers, the   *)
(* receive buffer, the send window, and what tcp_conn_send, tcp_conn_recv  *)
(* and tcp_conn_close make of them.  TcpConns models how connections come  *)
(* and go; this module starts when the SYN and ACK has been sent.          *)
(*                                                                         *)
(* The peer is an honest TCP: it sends one stream of PeerLen bytes (byte i *)
(* is the number i), acknowledges only what was sent, and never takes back *)
(* window it has offered.  The network loses, duplicates, delays, reorders *)
(* and re-segments: any interval of the peer's stream may arrive at any    *)
(* time, with any acknowledgment and window the peer ever sent.            *)
(*                                                                         *)
(* Sequence numbers have SeqMod values (2^32 in the code).  Bytes of the   *)
(* user's stream are counted, their values play no role.                   *)
(***************************************************************************)
EXTENDS Integers, Sequences, FiniteSets

CONSTANTS
  SeqMod,      \* number of sequence numbers
  Isses,       \* the initial sequence numbers we may choose
  Irs,         \* the peer's initial sequence number
  Cap,         \* circ_buf: length of the array, one byte more than it holds
  Mtu,         \* payload bytes per segment
  PeerLen,     \* length of the peer's stream
  MaxSeg,      \* bound: payload of a segment of the peer
  MaxSend,     \* bound: bytes passed to one tcp_conn_send
  MaxSent,     \* bound: bytes transmitted in all
  Windows,     \* the window sizes the peer offers
  MaxOffers,   \* bound: number of different acknowledgments and windows
  PeerResets,  \* whether the peer may send an RST
  BareSegments \* whether it may send segments without an ACK, as no TCP does

ASSUME SeqAssumption ==
  /\ SeqMod \in Nat \ {0} /\ Isses \subseteq 0 .. SeqMod - 1 /\ Irs \in 0 .. SeqMod - 1
  /\ PeerLen \in Nat /\ MaxSent \in Nat
  /\ 2 * PeerLen < SeqMod /\ MaxSent + 2 < SeqMod
ASSUME SizeAssumption ==
  /\ Cap \in Nat \ {0} /\ Mtu \in Nat \ {0}
  /\ MaxSeg \in Nat /\ MaxSend \in Nat /\ MaxOffers \in Nat
ASSUME WindowAssumption == Windows \subseteq 0 .. SeqMod - 1
ASSUME FlagAssumption == PeerResets \in BOOLEAN /\ BareSegments \in BOOLEAN

VARIABLES
  state,       \* conn->state; CLOSED when the connection is freed
  recvNext,    \* conn->recv_next
  recvBuf,     \* conn->recv_buf: the bytes it holds, oldest first
  iss,         \* conn->iss, a random number
  sendUnack,   \* conn->send_unack
  sendNext,    \* conn->send_next
  sendWindow,  \* conn->send_window
  delivered,   \* history: the bytes the user has read
  sent,        \* history: bytes of the user's stream transmitted
  reported,    \* history: bytes tcp_conn_send said it has transmitted
  finSent,     \* history: our FIN was transmitted
  acked,       \* history: the most bytes acknowledged by a segment processed
  late,        \* history: a segment older than one processed before, or one
               \* without an ACK, has been processed
  offers       \* all acknowledgments and windows the peer has sent

recvVars == <<recvNext, recvBuf, delivered>>
sendVars == <<iss, sendNext, sent, reported, finSent>>
peerVars == <<sendUnack, sendWindow, acked, late>>
vars == <<state, recvVars, sendVars, peerVars, offers>>

\* Sequence numbers of our and of the peer's stream after n bytes; our SYN is
\* byte 0.
OurSeq(n) == (iss + 1 + n) % SeqMod
PeerSeq(n) == (Irs + 1 + n) % SeqMod

Lesser(a, b) == IF a < b THEN a ELSE b
Greater(a, b) == IF a > b THEN a ELSE b

\* An acknowledgment of `ack' bytes and a window; our FIN counts as a byte.
Offer == [ack : 0 .. MaxSent + 1, wnd : Windows]

\* A segment of the peer: bytes off+1 .. off+len of its stream, and flags.
Segment ==
  {s \in [off : 0 .. PeerLen, len : 0 .. MaxSeg, fin : BOOLEAN, ack : BOOLEAN,
          rst : BOOLEAN, offer : offers] :
     /\ s.off + s.len <= PeerLen
     /\ s.fin => s.off + s.len = PeerLen
     /\ s.rst => PeerResets
     /\ s.ack \/ BareSegments}

-----------------------------------------------------------------------------
Init ==
  /\ state = "SYN_RCVD"
  /\ recvNext = PeerSeq(0) /\ recvBuf = << >>
  /\ iss \in Isses
  /\ sendUnack = iss /\ sendNext = OurSeq(0) /\ sendWindow = 0
  /\ delivered = << >>
  /\ sent = 0 /\ reported = 0 /\ finSent = FALSE /\ acked = 0 /\ late = FALSE
  /\ \E w \in Windows : offers = {[ack |-> 0, wnd |-> w]}

\* circ_buf_space: one byte of the array always stays unused.
Space == Cap - 1 - Len(recvBuf)

\* seq_gt compares the numbers as 64-bit integers.
SeqGtAlways(a, b) == a # b                  \* mutant: old numbers are newer
SeqGt(a, b) == a - b > 0

\* tcp_conn_update_send_state
UpdateSendState(seg) ==
  /\ sendUnack' = IF seg.ack /\ SeqGt(OurSeq(seg.offer.ack), sendUnack)
                  THEN OurSeq(seg.offer.ack) ELSE sendUnack
  /\ sendWindow' = seg.offer.wnd
  /\ acked' = IF seg.ack THEN Greater(acked, seg.offer.ack) ELSE acked
  /\ late' = \/ late \/ ~seg.ack \/ seg.offer.ack < acked
             \/ seg.offer.ack + seg.offer.wnd < acked + sendWindow

(***************************************************************************)
(* tcp_conn_update_recv_state: payload is stored if it starts at recv_next *)
(* and fits as a whole.  A FIN counts only if the payload before it was    *)
(* not dropped, and its number, a 64-bit sum, is that of the next byte.    *)
(***************************************************************************)
InOrderNotChecked(seg) == TRUE              \* mutant of InOrder
InOrder(seg) == PeerSeq(seg.off) = recvNext

NStored(seg) == IF InOrder(seg) /\ seg.len <= Space THEN seg.len ELSE 0

FinCounts(seg) ==
  /\ seg.fin
  /\ seg.len > 0 => NStored(seg) > 0
  /\ PeerSeq(seg.off) + seg.len = (recvNext + NStored(seg)) % SeqMod

\* Mutant of UpdateRecvState: recv_next moves before the buffer is written.
UpdateRecvStateEarly(seg) ==
  /\ recvBuf' = recvBuf \o [i \in 1 .. NStored(seg) |-> seg.off + i]
  /\ recvNext' = (recvNext + (IF InOrder(seg) THEN seg.len ELSE 0)
                           + (IF FinCounts(seg) THEN 1 ELSE 0)) % SeqMod
  /\ UNCHANGED delivered

UpdateRecvState(seg) ==
  /\ recvBuf' = recvBuf \o [i \in 1 .. NStored(seg) |-> seg.off + i]
  /\ recvNext' = (recvNext + NStored(seg) + (IF FinCounts(seg) THEN 1 ELSE 0))
                   % SeqMod
  /\ UNCHANGED delivered

-----------------------------------------------------------------------------
\* tcp_handle_receive_syn_rcvd, when the receive buffer can be allocated.
ReceiveSynRcvd(seg) ==
  /\ state = "SYN_RCVD"
  /\ IF seg.rst THEN state' = "CLOSED" /\ UNCHANGED peerVars
     ELSE seg.ack /\ state' = "ESTABLISHED" /\ UpdateSendState(seg)
  /\ UNCHANGED <<recvVars, sendVars, offers>>

\* tcp_handle_receive_established; the ACKs it sends change nothing here.
ReceiveEstablished(seg) ==
  /\ state = "ESTABLISHED"
  /\ UpdateSendState(seg)
  /\ UpdateRecvState(seg)
  /\ state' = IF seg.rst THEN "RESET"
              ELSE IF seg.fin THEN "CLOSE_WAIT" ELSE "ESTABLISHED"
  /\ UNCHANGED <<sendVars, offers>>

\* tcp_handle_receive_last_ack
ReceiveLastAck(seg) ==
  /\ state = "LAST_ACK"
  /\ seg.ack \/ seg.rst
  /\ state' = "CLOSED"
  /\ UNCHANGED <<recvVars, sendVars, peerVars, offers>>

\* tcp_handle_receive_fin_wait_1, where a segment with an ACK or a FIN still
\* stores payload, and tcp_handle_receive_fin_wait_2, where one without a FIN
\* is ignored.
ReceiveFinWait(seg) ==
  /\ \/ state = "FIN_WAIT_1" /\ (seg.rst \/ seg.fin \/ seg.ack)
     \/ state = "FIN_WAIT_2" /\ (seg.rst \/ seg.fin)
  /\ IF seg.rst
     THEN state' = "CLOSED" /\ UNCHANGED <<recvVars, peerVars>>
     ELSE /\ UpdateSendState(seg)
          /\ UpdateRecvState(seg)
          /\ state' = IF ~seg.fin THEN "FIN_WAIT_2"
                      ELSE IF state = "FIN_WAIT_2" \/ seg.ack
                      THEN "TIME_WAIT" ELSE "CLOSING"
  /\ UNCHANGED <<sendVars, offers>>

\* tcp_handle_receive_closing
ReceiveClosing(seg) ==
  /\ state = "CLOSING"
  /\ IF seg.rst THEN state' = "CLOSED" /\ UNCHANGED peerVars
     ELSE seg.ack /\ state' = "TIME_WAIT" /\ UpdateSendState(seg)
  /\ UNCHANGED <<recvVars, sendVars, offers>>

\* tcp_handle_packet.  CLOSE_WAIT and RESET ignore every segment, and in
\* TIME_WAIT the connection is purged before it is looked at.
Receive(seg) ==
  \/ ReceiveSynRcvd(seg)
  \/ ReceiveEstablished(seg)
  \/ ReceiveLastAck(seg)
  \/ ReceiveFinWait(seg)
  \/ ReceiveClosing(seg)

-----------------------------------------------------------------------------
\* The states in which a user holds the connection.
Held == state \in {"ESTABLISHED", "CLOSE_WAIT", "RESET"}

\* tcp_send_window_avail, an unsigned difference.
WindowAvailAll == sendWindow                \* mutant: nothing is in flight
WindowAvail == (sendWindow + sendUnack - sendNext) % SeqMod

\* `n' bytes are sent, in one or more segments.
Transmit(n) ==
  /\ sent' = sent + n
  /\ sendNext' = (sendNext + n) % SeqMod

(***************************************************************************)
(* tcp_conn_send: fragments of Mtu bytes, as far as the window reaches.    *)
(* Sending any of them may fail; the call returns an error then and no     *)
(* count.                                                                  *)
(***************************************************************************)
Send(wanted) ==
  LET goal == Lesser(wanted, WindowAvail)
  IN  /\ Held
      /\ sent + goal <= MaxSent
      /\ \/ Transmit(goal) /\ reported' = reported + goal
         \/ \E fragments \in 0 .. MaxSend :
              /\ fragments * Mtu < goal
              /\ Transmit(fragments * Mtu)
              /\ UNCHANGED reported
      /\ UNCHANGED <<state, recvVars, iss, peerVars, finSent, offers>>

\* tcp_conn_recv with room for n bytes; the count it returns is the number of
\* bytes that were available.
Recv(n) ==
  LET k == Lesser(n, Len(recvBuf))
  IN  /\ Held
      /\ delivered' = delivered \o SubSeq(recvBuf, 1, k)
      /\ recvBuf' = SubSeq(recvBuf, k + 1, Len(recvBuf))
      /\ UNCHANGED <<state, recvNext, sendVars, peerVars, offers>>

\* tcp_send_segment with the FIN flag.
TransmitFin ==
  /\ finSent' = TRUE
  /\ sendNext' = (sendNext + 1) % SeqMod

\* tcp_conn_close: the state changes whether or not the FIN can be sent.
Close ==
  /\ Held
  /\ state' = CASE state = "ESTABLISHED" -> "FIN_WAIT_1"
                [] state = "CLOSE_WAIT"  -> "LAST_ACK"
                [] state = "RESET"       -> "CLOSED"
  /\ \/ state # "RESET" /\ TransmitFin
     \/ UNCHANGED <<finSent, sendNext>>
  /\ UNCHANGED <<recvVars, iss, sent, reported, peerVars, offers>>

-----------------------------------------------------------------------------
\* The peer acknowledges more, or offers more window; its application reads
\* at its own pace.
PeerOffers(o) ==
  /\ o.ack <= sent + (IF finSent THEN 1 ELSE 0)
  /\ \A p \in offers : o.ack >= p.ack /\ o.ack + o.wnd >= p.ack + p.wnd
  /\ offers' = offers \cup {o}
  /\ Cardinality(offers') <= MaxOffers
  /\ UNCHANGED <<state, recvVars, sendVars, peerVars>>

Next ==
  \/ \E seg \in Segment : Receive(seg)
  \/ \E n \in 1 .. MaxSend : Send(n)
  \/ \E n \in 1 .. Cap : Recv(n)
  \/ Close
  \/ \E o \in Offer : PeerOffers(o)

Spec == Init /\ [][Next]_vars
=============================================================================
