-------------------------------- MODULE Web --------------------------------
(***************************************************************************)
(* The web server of src/web.c on the user's side of TCP: one task that    *)
(* accepts a connection, collects a request, sends a response and closes,  *)
(* one connection at a time, polling with a sleep in every loop.           *)
(*                                                                         *)
(* A connection is a slot of the TCP table that peers use again and again; *)
(* its handshake and its end after the close are in module TcpConns, its   *)
(* sequence numbers in module TcpStream.  Data is counted in units: the    *)
(* request line ends with unit LineLen and the header with unit HeaderLen. *)
(* Which of the waiting connections tcp_conn_accept returns is left open.  *)
(* A step of the server is one round of a loop, so that other tasks run at *)
(* least wherever the code sleeps.                                         *)
(***************************************************************************)
EXTENDS Naturals

CONSTANTS
  Conns,                  \* slots of the TCP connection table
  LineLen, HeaderLen,     \* where the request line and the header end
  Cap,                    \* room for the request (1024 bytes)
  RecvRoom,               \* room in a receive buffer, bounds what peers send
  Window,                 \* the window a peer opens, in units
  FileLen, HugeLen,       \* lengths of two responses with a file
  MaxResponse,            \* WEB_MAX_RESPONSE_SIZE
  RecvRetries,            \* WEB_NUM_RECV_RETRIES (10)
  RequestRetries          \* WEB_NUM_RECV_REQUEST_RETRIES (5)

ASSUME LengthAssumption ==
  /\ LineLen \in Nat \ {0} /\ HeaderLen \in Nat /\ LineLen <= HeaderLen
  /\ {Cap, RecvRoom, Window, FileLen, HugeLen, MaxResponse} \subseteq Nat \ {0}
ASSUME RetriesAssumption == {RecvRetries, RequestRetries} \subseteq Nat \ {0}

VARIABLES
  conn,      \* the connections
  pc,        \* the loop the server is in: "accept", "recv" or "respond";
             \* "halted" once an assertion has failed
  cur,       \* conn of web_handle_conn; stale in the "accept" loop
  got,       \* n_received of web_recv_http_request
  round,     \* the loop counters of web_recv_http_request ...
  poll,      \* ... and of web_recv_retry
  response,  \* status and length of the response being sent
  done,      \* n_transmitted of web_respond_close
  sawClosed  \* its peer_closed_conn, as of the last send

recvVars == <<got, round, poll>>
respondVars == <<response, done, sawClosed>>
vars == <<conn, pc, cur, recvVars, respondVars>>

Smaller(a, b) == IF a <= b THEN a ELSE b

\* What a peer may ask for.
Requests == {"malformed", "relative", "missing", "directory", "file", "huge_file"}

\* A slot: its send_window, what is in flight (send_next - send_unack),
\* whether acknowledgments still move send_unack and whether a segment has
\* come late; and the history of what the server has done for its peer:
\* accepted it, answered with a response of length `len', `out' units of it
\* sent, and met a send error.
Slot == [state : {"free", "established", "close_wait", "reset", "fin_wait", "last_ack"},
         unread : 0 .. RecvRoom, window : 0 .. Window, flight : Nat,
         stalled : BOOLEAN, late : BOOLEAN, accepted : BOOLEAN,
         len : Nat, out : Nat, sendFailed : BOOLEAN]

Fresh(state) ==
  [state |-> state, unread |-> 0, window |-> Window, flight |-> 0,
   stalled |-> FALSE, late |-> FALSE, accepted |-> FALSE,
   len |-> 0, out |-> 0, sendFailed |-> FALSE]

\* A slot is wiped when it is freed (tcp_free_conn).
FreeSlot == Fresh("free")

\* tcp_conn_closed_by_peer
ClosedByPeer(c) == conn[c].state \in {"close_wait", "reset"}

\* tcp_conn_close; in every other state, also for a freed slot whose bytes
\* are 0xee, it does nothing.  Nobody reads or sends from there on.
Closed(s) ==
  LET InState(state) ==
        [Fresh(state) EXCEPT !.accepted = s.accepted, !.len = s.len,
                             !.out = s.out, !.sendFailed = s.sendFailed] IN
  CASE s.state = "established" -> InState("fin_wait")
    [] s.state = "close_wait" -> InState("last_ack")
    [] s.state = "reset" -> FreeSlot
    [] OTHER -> s

-----------------------------------------------------------------------------
(***************************************************************************)
(* The responses.                                                          *)
(***************************************************************************)
NoResponse == [status |-> 0, len |-> 0]

\* Nor is there one when path_name_parse asserts that a path begins with '/'.
AssertionFails == [status |-> 1, len |-> 0]

\* http_build_response; the error pages fit every buffer.
BuildResponse(status, len) ==
  IF len > MaxResponse THEN NoResponse ELSE [status |-> status, len |-> len]

\* http_serve_file
ServeFile(request) ==
  CASE request = "relative" -> AssertionFails
    [] request = "missing" -> BuildResponse(404, 1)
    [] request = "directory" -> BuildResponse(403, 1)
    [] request = "file" -> BuildResponse(200, FileLen)
    [] request = "huge_file" -> BuildResponse(200, HugeLen)

\* http_parse_request needs the request line, not the rest of the header.
IsValid(request, n) == n >= LineLen /\ request # "malformed"

\* http_handle_request on the first n units of any request.
HandleRequest(n) ==
  {IF IsValid(request, n) THEN ServeFile(request) ELSE BuildResponse(400, 1) :
     request \in Requests}

-----------------------------------------------------------------------------
Init ==
  /\ conn = [c \in Conns |-> FreeSlot]
  /\ pc = "accept" /\ cur \in Conns
  /\ got = 0 /\ round = 0 /\ poll = 0
  /\ response = NoResponse /\ done = 0 /\ sawClosed = FALSE

\* Back in the loop of web_listen: the local variables are gone.
Return ==
  /\ pc' = "accept"
  /\ got' = 0 /\ round' = 0 /\ poll' = 0
  /\ response' = NoResponse /\ done' = 0 /\ sawClosed' = FALSE
  /\ UNCHANGED cur

\* web_wait_accept_conn, and the start of web_recv_http_request.
Accept(c) ==
  /\ pc = "accept"
  /\ conn[c].state = "established" /\ ~conn[c].accepted
  /\ conn' = [conn EXCEPT ![c].accepted = TRUE]
  /\ cur' = c /\ pc' = "recv"
  /\ UNCHANGED <<recvVars, respondVars>>

\* web_handle_conn closes the connection and returns to web_listen.
Abandon ==
  /\ conn' = [conn EXCEPT ![cur] = Closed(@)]
  /\ Return

\* A failed assertion halts the kernel.
Halt ==
  /\ pc' = "halted"
  /\ UNCHANGED <<conn, cur, recvVars, respondVars>>

\* web_respond_close begins.
Respond(r) ==
  /\ conn' = [conn EXCEPT ![cur].len = r.len]
  /\ pc' = "respond"
  /\ response' = r
  /\ got' = 0 /\ round' = 0 /\ poll' = 0
  /\ UNCHANGED <<cur, done, sawClosed>>

\* The response is built, or is too long, or cannot be looked for.
Answer(responses) == \E r \in responses :
  \/ r = NoResponse /\ Abandon
  \/ r = AssertionFails /\ Halt
  \/ r \notin {NoResponse, AssertionFails} /\ Respond(r)

-----------------------------------------------------------------------------
\* web_recv_retry has nothing yet and sleeps.
PollAgain ==
  /\ pc = "recv" /\ conn[cur].unread = 0
  /\ ~ClosedByPeer(cur) /\ poll + 1 < RecvRetries
  /\ poll' = poll + 1
  /\ UNCHANGED <<conn, pc, cur, got, round, respondVars>>

\* mutant: a connection that has sent nothing is dropped without a close.
NothingMoreForgets ==
  /\ pc = "recv" /\ conn[cur].unread = 0
  /\ ClosedByPeer(cur) \/ poll + 1 = RecvRetries
  /\ IF got = 0
     THEN Return /\ UNCHANGED conn
     ELSE Answer(HandleRequest(got))

\* It gives up, and what has come so far is the request, if it is anything.
NothingMore ==
  /\ pc = "recv" /\ conn[cur].unread = 0
  /\ ClosedByPeer(cur) \/ poll + 1 = RecvRetries
  /\ IF got = 0 THEN Abandon ELSE Answer(HandleRequest(got))

\* tcp_conn_recv reports all there is, more perhaps than there is room for.
NewlyGot == got + conn[cur].unread

\* The header is not complete: try again, for RequestRetries rounds.
ReceivePart ==
  /\ pc = "recv" /\ conn[cur].unread > 0
  /\ NewlyGot <= Cap /\ NewlyGot < HeaderLen
  /\ IF round + 1 < RequestRetries
     THEN /\ conn' = [conn EXCEPT ![cur].unread = 0]
          /\ got' = NewlyGot /\ round' = round + 1 /\ poll' = 0
          /\ UNCHANGED <<pc, cur, respondVars>>
     ELSE Abandon

ReceiveRest ==
  /\ pc = "recv" /\ conn[cur].unread > 0
  /\ NewlyGot <= Cap /\ NewlyGot >= HeaderLen
  /\ Answer(HandleRequest(NewlyGot))

\* The response with status 507 is sent by web_recv_http_request itself.
ReceiveTooMuch ==
  /\ pc = "recv" /\ NewlyGot > Cap
  /\ Answer({BuildResponse(507, 1)})

-----------------------------------------------------------------------------
\* The connection after n units more, and after the server is done with it:
\* web_respond_close closes it, and in the case of status 507 web_handle_conn
\* closes it once more, through its own copy of the pointer.
AfterSend(n) == [conn[cur] EXCEPT !.out = @ + n, !.flight = @ + n]
Ended(s) == IF response.status = 507 THEN Closed(Closed(s)) ELSE Closed(s)

\* tcp_send_window_avail: a window smaller than what is in flight wraps to
\* one that any response fits.
WindowAvail(s) ==
  IF s.flight <= s.window THEN s.window - s.flight ELSE MaxResponse

Pending == Smaller(WindowAvail(conn[cur]), response.len - done)

\* mutant: what did not fit the window is taken to be sent.
SendOnce ==
  /\ pc = "respond" /\ ~sawClosed
  /\ conn' = [conn EXCEPT ![cur] = Ended(AfterSend(Pending))]
  /\ Return

\* tcp_conn_send: as much as the window allows goes out; the last of it ends
\* the loop of web_respond_close.
Send ==
  /\ pc = "respond" /\ ~sawClosed
  /\ IF done + Pending >= response.len
     THEN conn' = [conn EXCEPT ![cur] = Ended(AfterSend(Pending))] /\ Return
     ELSE /\ conn' = [conn EXCEPT ![cur] = AfterSend(Pending)]
          /\ done' = done + Pending /\ sawClosed' = ClosedByPeer(cur)
          /\ UNCHANGED <<pc, cur, recvVars, response>>

\* A fragment cannot be sent, perhaps after others that were: the error ends
\* web_respond_close without a close.  For status 507 web_handle_conn closes.
SendFails ==
  /\ pc = "respond" /\ ~sawClosed /\ Pending > 0
  /\ \E n \in 0 .. Pending - 1 :
       LET failed == [AfterSend(n) EXCEPT !.sendFailed = TRUE] IN
       conn' = [conn EXCEPT ![cur] =
                  IF response.status = 507 THEN Closed(failed) ELSE failed]
  /\ Return

\* mutant: only a reset ends the loop.
PeerHasClosedReset ==
  /\ pc = "respond" /\ sawClosed
  /\ IF conn[cur].state = "reset"
     THEN conn' = [conn EXCEPT ![cur] = Ended(@)] /\ Return
     ELSE UNCHANGED vars

\* The loop stops once the peer has closed, whatever is left to send.
PeerHasClosed ==
  /\ pc = "respond" /\ sawClosed
  /\ conn' = [conn EXCEPT ![cur] = Ended(@)]
  /\ Return

-----------------------------------------------------------------------------
(***************************************************************************)
(* The peers.                                                              *)
(***************************************************************************)
serverVars == <<pc, cur, recvVars, respondVars>>

Running == pc # "halted"

PeerOpens(c) ==
  /\ Running /\ conn[c].state = "free"
  /\ conn' = [conn EXCEPT ![c] = Fresh("established")]
  /\ UNCHANGED serverVars

PeerSends(c) ==
  /\ Running /\ conn[c].state = "established" /\ conn[c].unread < RecvRoom
  /\ conn' = [conn EXCEPT ![c].unread = @ + 1]
  /\ UNCHANGED serverVars

\* tcp_conn_update_send_state, in ESTABLISHED only: the peer has taken some of
\* what is in flight and opens its window.
PeerAcks(c) ==
  /\ Running /\ conn[c].state = "established"
  /\ \E f \in 0 .. conn[c].flight :
       /\ conn[c].stalled => f = conn[c].flight
       /\ f # conn[c].flight \/ conn[c].window # Window
       /\ conn' = [conn EXCEPT ![c].flight = f, ![c].window = Window]
  /\ UNCHANGED serverVars

\* A segment of ours is lost, and nothing sends it again, or our numbers wrap
\* (seq_gt): no acknowledgment moves send_unack from now on.
AcksStop(c) ==
  /\ Running /\ conn[c].state = "established"
  /\ conn[c].flight > 0 /\ ~conn[c].stalled
  /\ conn' = [conn EXCEPT ![c].stalled = TRUE]
  /\ UNCHANGED serverVars

\* A segment that comes late, or whose peer reads too slowly, has an old
\* acknowledgment and a smaller window.  It comes once in a connection.
LateSegment(c) ==
  /\ Running /\ conn[c].state = "established"
  /\ conn[c].flight > 0 /\ ~conn[c].late
  /\ \E w \in 0 .. conn[c].window - 1 :
       conn' = [conn EXCEPT ![c].window = w, ![c].late = TRUE]
  /\ UNCHANGED serverVars

PeerShuts(c) ==
  /\ Running /\ conn[c].state = "established"
  /\ \E state \in {"close_wait", "reset"} : conn' = [conn EXCEPT ![c].state = state]
  /\ UNCHANGED serverVars

\* The rest of the closing handshake, or a reset in the course of it.
ConnectionEnds(c) ==
  /\ Running /\ conn[c].state \in {"fin_wait", "last_ack"}
  /\ conn' = [conn EXCEPT ![c] = FreeSlot]
  /\ UNCHANGED serverVars

-----------------------------------------------------------------------------
Serve ==
  \/ PollAgain \/ NothingMore
  \/ ReceivePart \/ ReceiveRest \/ ReceiveTooMuch
  \/ Send \/ SendFails \/ PeerHasClosed

Peer(c) ==
  \/ PeerOpens(c) \/ PeerSends(c) \/ PeerShuts(c) \/ ConnectionEnds(c)
  \/ PeerAcks(c) \/ AcksStop(c) \/ LateSegment(c)

Next ==
  \/ \E c \in Conns : Accept(c)
  \/ Serve
  \/ \E c \in Conns : Peer(c)

\* The scheduler runs the server again and again (module Sched), and a peer
\* that stays takes what it gets and says so.
Fairness == WF_vars(Serve) /\ \A c \in Conns : WF_vars(PeerAcks(c))

Spec == Init /\ [][Next]_vars /\ Fairness
=============================================================================
