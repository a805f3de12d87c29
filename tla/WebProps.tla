------------------------------ MODULE WebProps ------------------------------
(***************************************************************************)
(* What the web server of module Web is correct for.                       *)
(***************************************************************************)
EXTENDS Web

Open == {"established", "close_wait", "reset"}

\* Every variable has its type; the counters stay within the retries and no
\* more than the response is sent.
TypeOK ==
  /\ pc \in {"accept", "recv", "respond", "halted"} /\ cur \in Conns
  /\ got \in 0 .. Cap /\ round < RequestRetries /\ poll < RecvRetries
  /\ done \in 0 .. response.len /\ sawClosed \in BOOLEAN
  /\ \A c \in Conns : LET s == conn[c] IN
       /\ s.state \in {"free", "fin_wait", "last_ack"} \cup Open
       /\ s.window \in 0 .. Window /\ s.unread \in 0 .. RecvRoom
       /\ s.out \in 0 .. s.len /\ s.flight \in 0 .. s.out

\* The connection that the server works on is open for as long as it does:
\* no segment and no other step takes it away (web_handle_conn).
ServedIsOpen ==
  pc # "accept" => conn[cur].accepted /\ conn[cur].state \in Open

\* A peer that has not closed gets the whole response before the server
\* closes, unless a send fails (web_respond_close).
WholeResponse ==
  \A c \in Conns :
    conn[c].state = "fin_wait" => conn[c].out = conn[c].len \/ conn[c].sendFailed

\* A connection that was accepted, and that the server no longer serves, was
\* closed by it or met a send error: only web_respond_close loses one.
LostOnlyOnSendError ==
  \A c \in Conns :
    conn[c].accepted /\ conn[c].state \in Open /\ (pc = "accept" \/ cur # c)
      => conn[c].sendFailed

\* The server and the table of connections agree on what is being served.
ServerConsistent == TypeOK /\ ServedIsOpen /\ LostOnlyOnSendError

\* The server waits for a peer that cannot acknowledge any more, with a
\* response that does not fit the window: the loop of web_respond_close has
\* no limit.
Held(c) ==
  conn[c].state = "established" /\ conn[c].stalled /\ conn[c].len > Window

\* Every connection that is accepted is closed in the end, or lost by a send
\* error, unless an assertion halts the kernel (path_name_parse): no peer
\* holds the server but one whose acknowledgments stop, and that only with a
\* response larger than the window, and for as long as it stays.
AcceptedIsClosed ==
  \A c \in Conns :
    conn[c].accepted
      ~> (conn[c].state \notin Open \/ conn[c].sendFailed \/ ~Running \/ []Held(c))
=============================================================================
