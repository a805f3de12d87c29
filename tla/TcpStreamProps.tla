-------------------------- MODULE TcpStreamProps ---------------------------
(***************************************************************************)
(* What the two ends of a TCP connection may rely on.                      *)
(***************************************************************************)
EXTENDS TcpStream

State == {"SYN_RCVD", "ESTABLISHED", "CLOSE_WAIT", "LAST_ACK", "FIN_WAIT_1",
          "FIN_WAIT_2", "CLOSING", "TIME_WAIT", "RESET", "CLOSED"}

\* Types; the receive buffer never holds more than its array can.
TypeOK ==
  /\ state \in State
  /\ recvNext \in 0 .. SeqMod - 1
  /\ recvBuf \in Seq(1 .. PeerLen) /\ Len(recvBuf) < Cap
  /\ iss \in Isses
  /\ sendUnack \in 0 .. SeqMod - 1
  /\ sendNext \in 0 .. SeqMod - 1
  /\ sendWindow \in Windows \cup {0}
  /\ delivered \in Seq(1 .. PeerLen)
  /\ sent \in 0 .. MaxSent /\ reported \in 0 .. MaxSent
  /\ finSent \in BOOLEAN
  /\ acked \in 0 .. MaxSent + 1
  /\ late \in BOOLEAN
  /\ offers \subseteq Offer

Received == delivered \o recvBuf

\* What the user has read, and then what is in the receive buffer, is the
\* peer's stream from its first byte on: whatever the network does, no byte is
\* lost, repeated or out of place.
DataInOrder == \A i \in 1 .. Len(Received) : Received[i] = i

\* The number acknowledged to the peer is that of the first byte that is not
\* stored: the peer is never told to forget a byte that was dropped.  The FIN
\* is acknowledged at most once, and only with the whole stream.
AcksWhatIsStored ==
  \/ recvNext = PeerSeq(Len(Received))
  \/ /\ recvNext = PeerSeq(PeerLen + 1)
     /\ Len(Received) = PeerLen
     /\ state \in State \ {"SYN_RCVD", "ESTABLISHED", "FIN_WAIT_1", "FIN_WAIT_2"}

\* The next sequence number counts exactly what was transmitted, also after a
\* call that failed half-way.
SendNextCountsSent ==
  sendNext = OurSeq(sent + (IF finSent THEN 1 ELSE 0))

\* The acknowledgments have reached the numbers behind the wrap-around, which
\* seq_gt takes for older ones.
Wrapped == OurSeq(acked) <= iss

\* Duplicates and reordered acknowledgments never move send_unack back: it is
\* the newest acknowledgment processed (byte -1 is the start, before our SYN),
\* or, once the acknowledgments have wrapped around, stays on one from before
\* that for good.
UnackIsNewestAck ==
  state \notin {"SYN_RCVD", "CLOSED"} =>
    IF ~Wrapped THEN sendUnack = OurSeq(acked)
    ELSE sendUnack >= iss /\ \E n \in -1 .. acked - 1 : sendUnack = OurSeq(n)

\* The counters of the connection say what really happened on the wire.
CountersCorrect == TypeOK /\ SendNextCountsSent /\ UnackIsNewestAck

\* The peer is never sent more than it has offered to take, over all calls of
\* tcp_conn_send, those that failed half-way included, and whatever was lost,
\* repeated or acknowledged late.  It takes a segment processed after a newer
\* one, one without an ACK, or the wrap-around of the acknowledgments to take
\* the window below what is in flight, where tcp_send_window_avail wraps.
PeerNotOverrun ==
  late \/ Wrapped \/ \E o \in offers : sent <= o.ack + o.wnd
=============================================================================
