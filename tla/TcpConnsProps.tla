--------------------------- MODULE TcpConnsProps ---------------------------
(***************************************************************************)
(* What the connection table must guarantee to the users of the TCP API.   *)
(***************************************************************************)
EXTENDS TcpConns, TLC

\* Peers are interchangeable.
PeerSymmetry == Permutations(Peer)

\* Types: slots, queues, handles and the clock of the connection table.
TypeOK ==
  /\ conn \in [Slots -> Conn \cup {Unused}]
  /\ queue \in [Slots -> Seq(Slots)]
  /\ handles \subseteq Slots
  /\ now \in Nat

InQueue(l) == {queue[l][k] : k \in 1 .. Len(queue[l])}

\* A connection the user holds is never freed or reused behind his back: only
\* connections the user has no access to are freed by incoming segments or
\* purged ("The user can't access the connection any more at this point.").
HandlesLive ==
  \A h \in handles :
    conn[h].state \in {"LISTEN", "ESTABLISHED", "CLOSE_WAIT", "RESET"}

\* An accept queue belongs to a listening connection and lists, each once, the
\* connections of its port that were not accepted yet; no connection is in two
\* queues, or in a queue and in use, and none that was freed is still linked.
QueuesCorrect ==
  \A l \in Slots :
    /\ queue[l] # << >> => conn[l].state = "LISTEN"
    /\ \A j, k \in 1 .. Len(queue[l]) : queue[l][j] = queue[l][k] => j = k
    /\ \A c \in InQueue(l) :
         /\ conn[c].state \in {"SYN_RCVD", "ESTABLISHED", "CLOSE_WAIT", "RESET"}
         /\ conn[c].port = conn[l].port
         /\ c \notin handles
         /\ \A m \in Slots \ {l} : c \notin InQueue(m)

\* Two connections never have the same endpoints: the second one would never
\* see a segment.
EndpointsUnique ==
  \A i, j \in Slots :
    /\ IsUsed(conn[i]) /\ IsUsed(conn[j])
    /\ conn[i].peer # NoPeer
    /\ conn[i].peer = conn[j].peer /\ conn[i].port = conn[j].port
    => i = j

Alive == {"LISTEN", "SYN_RCVD", "ESTABLISHED", "CLOSE_WAIT", "RESET"}

Acceptable == {"SYN_RCVD", "ESTABLISHED"}

\* A user holds connection i, or tcp_conn_accept can still return it: it looks
\* at the head of the queue alone and returns it only when it is established,
\* so everything from the head to i has to be established, or on its way there.
Returnable(i) ==
  \/ i \in handles
  \/ \E l \in handles :
       /\ conn[l].state = "LISTEN"
       /\ \E k \in 1 .. Len(queue[l]) :
            /\ queue[l][k] = i
            /\ \A j \in 1 .. k : conn[queue[l][j]].state \in Acceptable

\* In this step the peer closes or resets a connection that is queued at or
\* before the place of i and that nobody has accepted yet.
PeerGoesBefore(i) ==
  \E l \in handles : \E k \in 1 .. Len(queue[l]) : \E j \in 1 .. k :
    /\ queue[l][k] = i
    /\ conn[queue[l][j]].state = "ESTABLISHED"
    /\ conn'[queue[l][j]].state \in {"CLOSE_WAIT", "RESET"}

\* A slot of the table, with its receive buffer, gets out of the users' reach
\* while nobody has closed it in two ways only: the listening connection that
\* has it queued is given up, or a peer goes before it was accepted, which
\* blocks the queue for good (tcp_conn_accept stops at such a head).
LostOnlyByListenerOrPeer ==
  [][\A i \in Slots :
       conn'[i].state \in Alive /\ ~Returnable(i)'
         => \/ conn[i].state \in Alive /\ ~Returnable(i)
            \/ \E l \in handles \ handles' : i \in InQueue(l)
            \/ PeerGoesBefore(i)]_vars

\* A receive buffer exists exactly for the connections that may receive data
\* or hold received data, so circ_buf_count never meets an empty buffer.
BuffersExist ==
  \A i \in Slots :
    IsUsed(conn[i]) =>
      (conn[i].hasBuf <=> conn[i].state \notin {"LISTEN", "SYN_RCVD"})

\* The table is consistent with itself: links, states and buffers agree.
TableConsistent == TypeOK /\ QueuesCorrect /\ BuffersExist

-----------------------------------------------------------------------------
\* Statements of the repository's documentation and comments.

\* tcp.h: "Get a handle to a connection that was listened for by listen_conn
\* (if any)": if there is an established one, tcp_conn_accept returns one.
AcceptFindsEstablished ==
  \A l \in Slots :
    (\E c \in InQueue(l) : conn[c].state = "ESTABLISHED")
      => conn[Head(queue[l])].state = "ESTABLISHED"
=============================================================================
