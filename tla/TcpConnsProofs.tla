--------------------------- MODULE TcpConnsProofs ---------------------------
(***************************************************************************)
(* The connection table is consistent for every size of the table and any  *)
(* number of ports and peers, whatever segments arrive.                    *)
(*                                                                         *)
(* Purging, freeing and adding connections are changes of a table T, the   *)
(* accept queues Q and the handles H; each is shown to keep Good(T, Q, H). *)
(***************************************************************************)
EXTENDS TcpConnsProps, WellFoundedInduction, TLAPS

HandleState == {"LISTEN", "ESTABLISHED", "CLOSE_WAIT", "RESET"}
QueuedState == {"SYN_RCVD", "ESTABLISHED", "CLOSE_WAIT", "RESET"}

\* What a connection may be: only listening ones have no peer, and a buffer
\* exists from the end of the handshake on.
GoodConn(c) ==
  /\ c \in Conn
  /\ c.peer = NoPeer <=> c.state = "LISTEN"
  /\ c.hasBuf <=> c.state \notin {"LISTEN", "SYN_RCVD"}

GoodTable(T) ==
  /\ T \in [Slots -> Conn \cup {Unused}]
  /\ \A i \in Slots : T[i] # Unused => GoodConn(T[i])

GoodHandles(T, H) ==
  /\ H \subseteq Slots
  /\ \A h \in H : T[h].state \in HandleState

\* A node of an accept queue is one connection that the users cannot reach.
GoodQueues(T, Q, H) ==
  /\ Q \in [Slots -> Seq(Slots)]
  /\ \A l \in Slots : \A k \in 1 .. Len(Q[l]) :
       /\ T[l].state = "LISTEN"
       /\ T[Q[l][k]].state \in QueuedState
       /\ T[Q[l][k]].port = T[l].port
       /\ Q[l][k] \notin H
  /\ \A l, m \in Slots : \A k \in 1 .. Len(Q[l]), n \in 1 .. Len(Q[m]) :
       Q[l][k] = Q[m][n] => l = m /\ k = n

UniqueEndpoints(T) ==
  \A i, j \in Slots :
    /\ T[i] # Unused /\ T[j] # Unused
    /\ T[i].peer # NoPeer
    /\ T[i].peer = T[j].peer /\ T[i].port = T[j].port
    => i = j

Good(T, Q, H) ==
  GoodTable(T) /\ GoodHandles(T, H) /\ GoodQueues(T, Q, H) /\ UniqueEndpoints(T)

IInv == Good(conn, queue, handles) /\ now \in Nat

-----------------------------------------------------------------------------
\* A connection in use is not the unused slot, and tells by its state.
LEMMA UsedConn ==
  /\ Unused.state = "UNUSED"
  /\ \A c \in Conn : c.state \in ConnState /\ c.state # "UNUSED" /\ c # Unused
BY DEF Unused, Conn, ConnState


\* Every set of indices that is not empty has a first one.
LEMMA LeastExists ==
  ASSUME NEW S \in SUBSET Nat, S # {}
  PROVE  \E i \in S : \A j \in S : i <= j
<1> DEFINE Before == {ij \in Nat \X Nat : ij[1] < ij[2]}
<1>1. Before = OpToRel(<, Nat)
  BY DEF OpToRel
<1>2. IsWellFoundedOn(Before, Nat)
  BY <1>1, NatLessThanWellFounded
<1>3. \A a, b \in Nat : a < b => <<a, b>> \in Before
  OBVIOUS
<1> HIDE DEF Before
<1>4. PICK i \in S : \A j \in S : ~ (<<j, i>> \in Before)
  BY <1>2, WFMin
<1>5. ASSUME NEW j \in S
      PROVE  i <= j
  <2>1. i \in Nat /\ j \in Nat
    OBVIOUS
  <2>2. ~ (j < i)
    BY <2>1, <1>3, <1>4
  <2> QED BY <2>1, <2>2
<1> QED BY <1>5

\* The first slot of a set of slots exists.
LEMMA FirstIs ==
  ASSUME NEW S \in SUBSET Slots, S # {}
  PROVE  First(S) \in S
<1>1. S \subseteq Nat
  BY NumConnsAssumption DEF Slots
<1> QED BY <1>1, LeastExists DEF First

\* dlist_remove takes out one node, and no other.
LEMMA WithoutIs ==
  ASSUME NEW q \in Seq(Slots), NEW c,
         \A j, k \in 1 .. Len(q) : q[j] = q[k] => j = k
  PROVE  /\ Without(q, c) \in Seq(Slots)
         /\ \A i \in 1 .. Len(Without(q, c)) :
              \E j \in 1 .. Len(q) : Without(q, c)[i] = q[j] /\ q[j] # c
         /\ \A i, j \in 1 .. Len(Without(q, c)) :
              Without(q, c)[i] = Without(q, c)[j] => i = j
         /\ \A j \in 1 .. Len(q) :
              q[j] # c => \E i \in 1 .. Len(Without(q, c)) : Without(q, c)[i] = q[j]
<1> DEFINE at == {k \in 1 .. Len(q) : q[k] = c}
           first == First(at)
           w == [i \in 1 .. Len(q) - 1 |-> q[IF i < first THEN i ELSE i + 1]]
<1>1. Len(q) \in Nat
  OBVIOUS
<1>2. CASE at = {}
  <2>1. Without(q, c) = q
    BY <1>2 DEF Without
  <2>2. \A j \in 1 .. Len(q) : q[j] # c
    BY <1>2
  <2> QED BY <2>1, <2>2
<1>3. CASE at # {}
  <2>1. at \subseteq Nat
    BY <1>1
  <2>2. first \in at
    BY <1>3, <2>1, LeastExists DEF First
  <2>3. first \in 1 .. Len(q) /\ q[first] = c
    BY <2>2
  <2>4. Without(q, c) = w
    BY <1>3 DEF Without
  <2> HIDE DEF at, first
  <2>5. w \in Seq(Slots) /\ Len(w) = Len(q) - 1
    BY <1>1, <2>3
  <2>6. \A i \in 1 .. Len(w) :
          /\ i < first => w[i] = q[i]
          /\ i >= first => w[i] = q[i + 1]
    BY <1>1, <2>3, <2>5
  <2> HIDE DEF w
  <2>7. \A i \in 1 .. Len(w) : \E j \in 1 .. Len(q) : w[i] = q[j] /\ q[j] # c
    <3> SUFFICES ASSUME NEW i \in 1 .. Len(w)
                 PROVE  \E j \in 1 .. Len(q) : w[i] = q[j] /\ q[j] # c
      OBVIOUS
    <3>1. CASE i < first
      <4>1. i \in 1 .. Len(q) /\ i # first /\ w[i] = q[i]
        BY <1>1, <2>3, <2>5, <2>6, <3>1
      <4>2. q[i] # c
        BY <2>3, <4>1
      <4> QED BY <4>1, <4>2
    <3>2. CASE i >= first
      <4>1. i + 1 \in 1 .. Len(q) /\ i + 1 # first /\ w[i] = q[i + 1]
        BY <1>1, <2>3, <2>5, <2>6, <3>2
      <4>2. q[i + 1] # c
        BY <2>3, <4>1
      <4> QED BY <4>1, <4>2
    <3>3. i < first \/ i >= first
      BY <1>1, <2>3, <2>5
    <3> QED BY <3>1, <3>2, <3>3
  <2>8. \A i, j \in 1 .. Len(w) : w[i] = w[j] => i = j
    BY <1>1, <2>3, <2>5, <2>6
  <2>9. \A j \in 1 .. Len(q) : q[j] # c => \E i \in 1 .. Len(w) : w[i] = q[j]
    <3> SUFFICES ASSUME NEW j \in 1 .. Len(q), q[j] # c
                 PROVE  \E i \in 1 .. Len(w) : w[i] = q[j]
      OBVIOUS
    <3>1. CASE j < first
      <4>1. j \in 1 .. Len(w) /\ w[j] = q[j]
        BY <1>1, <2>3, <2>5, <2>6, <3>1
      <4> QED BY <4>1
    <3>2. CASE j > first
      <4>1. j - 1 \in 1 .. Len(w) /\ w[j - 1] = q[j]
        BY <1>1, <2>3, <2>5, <2>6, <3>2
      <4> QED BY <4>1
    <3>3. j < first \/ j > first
      BY <1>1, <2>3
    <3> QED BY <3>1, <3>2, <3>3
  <2> QED BY <2>4, <2>5, <2>7, <2>8, <2>9
<1> QED BY <1>2, <1>3

-----------------------------------------------------------------------------
\* What the states of a good table say of its slots.
LEMMA Slot ==
  ASSUME NEW T, GoodTable(T), NEW i \in Slots, T[i].state \in ConnState
  PROVE  T[i] # Unused /\ GoodConn(T[i])
BY UsedConn DEF GoodTable, ConnState

\* What is known of one node of an accept queue, and of two.
LEMMA NodeIs ==
  ASSUME NEW T, NEW Q, NEW H, Good(T, Q, H), NEW l \in Slots, NEW k \in 1 .. Len(Q[l])
  PROVE  /\ Q[l][k] \in Slots \ H
         /\ T[l].state = "LISTEN" /\ T[Q[l][k]].state \in QueuedState
         /\ T[Q[l][k]].port = T[l].port
<1>1. Q[l] \in Seq(Slots)
  BY DEF Good, GoodQueues
<1>2. Q[l][k] \in Slots
  BY <1>1
<1> QED BY <1>2 DEF Good, GoodQueues

LEMMA QueuesInjective ==
  ASSUME NEW T, NEW Q, NEW H, Good(T, Q, H), NEW l \in Slots, NEW m \in Slots,
         NEW k \in 1 .. Len(Q[l]), NEW n \in 1 .. Len(Q[m]), Q[l][k] = Q[m][n]
  PROVE  l = m /\ k = n
BY DEF Good, GoodQueues

\* tcp_purge_old_conn removes nothing that is in use.
LEMMA PurgeGood ==
  ASSUME Good(conn, queue, handles)
  PROVE  Good(Table, queue, handles)
<1> USE DEF Good
<1>1. \A i \in Slots : \/ Table[i] = conn[i]
                       \/ Table[i] = Unused /\ conn[i].state = "TIME_WAIT"
  BY DEF Table, Expired
<1>2. GoodTable(Table)
  BY <1>1 DEF GoodTable, Table
<1>3. GoodHandles(Table, handles)
  BY <1>1 DEF GoodHandles, HandleState
<1>4. GoodQueues(Table, queue, handles)
  <2>1. \A i \in Slots : conn[i].state \in QueuedState \cup {"LISTEN"} => Table[i] = conn[i]
    BY <1>1 DEF QueuedState
  <2>2. \A l \in Slots : \A k \in 1 .. Len(queue[l]) : queue[l][k] \in Slots
    BY DEF GoodQueues
  <2> QED BY <2>1, <2>2 DEF GoodQueues
<1>5. UniqueEndpoints(Table)
  BY <1>1 DEF UniqueEndpoints
<1> QED BY <1>2, <1>3, <1>4, <1>5

\* A connection changes its state.
LEMMA ChangeGood ==
  ASSUME NEW T, NEW Q, NEW H, Good(T, Q, H), NEW c \in Slots, T[c] # Unused,
         NEW r, GoodConn(r), r.port = T[c].port, r.peer = T[c].peer,
         NEW G \in SUBSET H, c \in G => r.state \in HandleState,
         T[c].state \in QueuedState => r.state \in QueuedState \/ c \in H
  PROVE  Good([T EXCEPT ![c] = r], Q, G)
<1> USE DEF Good
<1> DEFINE U == [T EXCEPT ![c] = r]
<1>1. \A i \in Slots : U[i] = IF i = c THEN r ELSE T[i]
  BY DEF GoodTable
<1>2. r # Unused /\ r \in Conn
  BY UsedConn DEF GoodConn
<1>3. GoodTable(U)
  BY <1>1, <1>2 DEF GoodTable
<1>4. r.state = "LISTEN" <=> T[c].state = "LISTEN"
  BY DEF GoodTable, GoodConn
<1> HIDE DEF U
<1>5. GoodHandles(U, G)
  BY <1>1 DEF GoodHandles
<1>6. GoodQueues(U, Q, G)
  <2>1. ASSUME NEW l \in Slots, NEW k \in 1 .. Len(Q[l])
        PROVE  /\ U[l].state = "LISTEN" /\ U[Q[l][k]].state \in QueuedState
               /\ U[Q[l][k]].port = U[l].port /\ Q[l][k] \notin G
    <3>1. /\ T[l].state = "LISTEN" /\ T[Q[l][k]].state \in QueuedState
          /\ T[Q[l][k]].port = T[l].port /\ Q[l][k] \notin H /\ Q[l][k] \in Slots
      BY <2>1 DEF GoodQueues
    <3> QED BY <1>1, <1>4, <3>1
  <2> QED BY <2>1 DEF GoodQueues
<1>7. UniqueEndpoints(U)
  BY <1>1 DEF UniqueEndpoints
<1> QED BY <1>3, <1>5, <1>6, <1>7 DEF U

\* A connection is freed: tcp_free_conn.
LEMMA FreeGood ==
  ASSUME NEW T, NEW H, Good(T, queue, H), NEW c \in Slots,
         NEW G \in SUBSET (H \ {c})
  PROVE  Good(Freed(T, c), Dequeued(c), G)
<1> USE DEF Good
<1> DEFINE U == Freed(T, c)
           Q == Dequeued(c)
<1>1. \A i \in Slots : U[i] = IF i = c THEN Unused ELSE T[i]
  BY DEF GoodTable, Freed
<1>2. GoodTable(U)
  BY <1>1 DEF GoodTable, Freed
<1>3. GoodHandles(U, G)
  BY <1>1 DEF GoodHandles
<1>4. \A l \in Slots : queue[l] \in Seq(Slots)
  BY DEF GoodQueues
<1>5. ASSUME NEW l \in Slots
      PROVE  /\ Q[l] \in Seq(Slots)
             /\ \A i \in 1 .. Len(Q[l]) :
                  /\ l # c
                  /\ \E j \in 1 .. Len(queue[l]) : Q[l][i] = queue[l][j] /\ queue[l][j] # c
             /\ \A i, j \in 1 .. Len(Q[l]) : Q[l][i] = Q[l][j] => i = j
  <2>1. CASE l = c
    BY <2>1 DEF Dequeued
  <2>2. CASE l # c
    <3>1. Q[l] = Without(queue[l], c)
      BY <2>2 DEF Dequeued
    <3>2. \A j, k \in 1 .. Len(queue[l]) : queue[l][j] = queue[l][k] => j = k
      BY DEF GoodQueues
    <3> QED BY <1>4, <2>2, <3>1, <3>2, WithoutIs
  <2> QED BY <2>1, <2>2
<1>6. Q \in [Slots -> Seq(Slots)]
  BY <1>5 DEF Dequeued
<1> HIDE DEF U, Q
<1>7. ASSUME NEW l \in Slots, NEW k \in 1 .. Len(Q[l])
      PROVE  /\ U[l].state = "LISTEN" /\ U[Q[l][k]].state \in QueuedState
             /\ U[Q[l][k]].port = U[l].port /\ Q[l][k] \notin G
  <2>1. PICK j \in 1 .. Len(queue[l]) : Q[l][k] = queue[l][j] /\ queue[l][j] # c
    BY <1>5, <1>7
  <2>2. /\ T[l].state = "LISTEN" /\ T[Q[l][k]].state \in QueuedState
        /\ T[Q[l][k]].port = T[l].port /\ Q[l][k] \notin H /\ Q[l][k] \in Slots
    BY <1>4, <2>1 DEF GoodQueues
  <2> QED BY <1>1, <1>5, <1>7, <2>1, <2>2
<1>8. ASSUME NEW l \in Slots, NEW m \in Slots, NEW k \in 1 .. Len(Q[l]),
             NEW n \in 1 .. Len(Q[m]), Q[l][k] = Q[m][n]
      PROVE  l = m /\ k = n
  <2>1. PICK j \in 1 .. Len(queue[l]) : Q[l][k] = queue[l][j]
    BY <1>5
  <2>2. PICK i \in 1 .. Len(queue[m]) : Q[m][n] = queue[m][i]
    BY <1>5
  <2>3. queue[l][j] = queue[m][i]
    BY <1>8, <2>1, <2>2
  <2>4. l = m
    BY <2>3, QueuesInjective
  <2> QED BY <1>5, <1>8, <2>4
<1>9. GoodQueues(U, Q, G)
  BY <1>6, <1>7, <1>8 DEF GoodQueues
<1>10. UniqueEndpoints(U)
  BY <1>1 DEF UniqueEndpoints
<1> QED BY <1>2, <1>3, <1>9, <1>10 DEF U, Q

\* A free slot is linked nowhere.
LEMMA FreeIsUnlinked ==
  ASSUME NEW T, NEW Q, NEW H, Good(T, Q, H), NEW n \in Slots, T[n] = Unused
  PROVE  /\ n \notin H /\ Q[n] = << >>
         /\ \A l \in Slots : \A k \in 1 .. Len(Q[l]) : l # n /\ Q[l][k] # n
<1>1. n \notin H
  BY UsedConn DEF Good, GoodHandles, HandleState
<1>2. ASSUME NEW l \in Slots, NEW k \in 1 .. Len(Q[l])
      PROVE  l # n /\ Q[l][k] # n
  <2>1. T[l].state = "LISTEN" /\ T[Q[l][k]].state \in QueuedState
    BY NodeIs
  <2> QED BY <2>1, UsedConn DEF QueuedState
<1>3. Q[n] \in Seq(Slots) /\ ~(1 \in 1 .. Len(Q[n]))
  BY <1>2 DEF Good, GoodQueues
<1>4. Q[n] = << >>
  BY <1>3
<1> QED BY <1>1, <1>2, <1>4

\* A connection is added in a free slot.
LEMMA AddGood ==
  ASSUME NEW T, NEW Q, NEW H, Good(T, Q, H), NEW n \in Slots, T[n] = Unused,
         NEW r, GoodConn(r),
         \A i \in Slots : T[i] # Unused /\ T[i].peer = r.peer /\ r.peer # NoPeer
                            => T[i].port # r.port
  PROVE  Good([T EXCEPT ![n] = r], Q, H)
<1> USE DEF Good
<1> DEFINE U == [T EXCEPT ![n] = r]
<1>1. \A i \in Slots : U[i] = IF i = n THEN r ELSE T[i]
  BY DEF GoodTable
<1>2. r # Unused /\ r \in Conn
  BY UsedConn DEF GoodConn
<1>3. GoodTable(U)
  BY <1>1, <1>2 DEF GoodTable
<1> HIDE DEF U
<1>4. GoodHandles(U, H)
  BY <1>1, FreeIsUnlinked DEF GoodHandles
<1>5. GoodQueues(U, Q, H)
  <2>1. ASSUME NEW l \in Slots, NEW k \in 1 .. Len(Q[l])
        PROVE  U[l] = T[l] /\ U[Q[l][k]] = T[Q[l][k]]
    <3>1. Q[l][k] \in Slots
      BY NodeIs
    <3>2. l # n /\ Q[l][k] # n
      BY FreeIsUnlinked
    <3> QED BY <1>1, <3>1, <3>2
  <2>2. ASSUME NEW l \in Slots, NEW k \in 1 .. Len(Q[l])
        PROVE  /\ U[l].state = "LISTEN" /\ U[Q[l][k]].state \in QueuedState
               /\ U[Q[l][k]].port = U[l].port /\ Q[l][k] \notin H
    BY <2>1, NodeIs
  <2> QED BY <2>2 DEF GoodQueues
<1>6. UniqueEndpoints(U)
  BY <1>1 DEF UniqueEndpoints
<1> QED BY <1>3, <1>4, <1>5, <1>6 DEF U

-----------------------------------------------------------------------------
\* The connection a segment is for.  A listening one is found only if no other
\* has the endpoints of the segment.
LEMMA FoundIs ==
  ASSUME Good(Table, queue, handles), NEW seg \in Segment, NEW c \in Found(seg)
  PROVE  /\ c \in Slots /\ Table[c] # Unused /\ GoodConn(Table[c])
         /\ Table[c].port = seg.port
         /\ Table[c].state = "LISTEN" =>
              \A i \in Slots : Table[i] # Unused /\ Table[i].peer = seg.peer
                                 => Table[i].port # seg.port
<1> DEFINE exact == ExactMatches(seg.port, seg.peer)
           wild == WildcardMatches(seg.port, seg.peer)
<1>1. exact \subseteq Slots /\ wild \subseteq Slots
  BY DEF ExactMatches, WildcardMatches
<1>2. seg.peer \in Peer /\ seg.peer # NoPeer
  BY NoPeerAssumption DEF Segment
<1>3. CASE exact # {}
  <2>1. c \in exact
    BY <1>1, <1>3, FirstIs DEF Found
  <2>2. Table[c].peer = seg.peer /\ Table[c].port = seg.port /\ Table[c] # Unused
    BY <2>1 DEF ExactMatches, IsUsed
  <2>3. GoodConn(Table[c])
    BY <1>1, <2>1, <2>2 DEF Good, GoodTable
  <2> QED BY <1>1, <1>2, <2>1, <2>2, <2>3 DEF GoodConn
<1>4. CASE exact = {}
  <2>1. c \in wild
    BY <1>1, <1>4, FirstIs DEF Found
  <2>2. Table[c].port = seg.port /\ Table[c] # Unused
    BY <2>1 DEF WildcardMatches, IsUsed
  <2>3. GoodConn(Table[c])
    BY <1>1, <2>1, <2>2 DEF Good, GoodTable
  <2>4. \A i \in Slots : Table[i] # Unused /\ Table[i].peer = seg.peer
                           => Table[i].port # seg.port
    BY <1>4 DEF ExactMatches, IsUsed
  <2> QED BY <1>1, <2>1, <2>2, <2>3, <2>4
<1> QED BY <1>3, <1>4

LEMMA FreeSlotIs ==
  ASSUME FreeSlots # {}
  PROVE  First(FreeSlots) \in Slots /\ Table[First(FreeSlots)] = Unused
<1>1. FreeSlots \subseteq Slots
  BY DEF FreeSlots
<1>2. First(FreeSlots) \in FreeSlots
  BY <1>1, FirstIs
<1> QED BY <1>2 DEF FreeSlots, IsUsed

LEMMA NewConnIs ==
  ASSUME NEW state \in {"LISTEN", "SYN_RCVD"}, NEW port \in Port,
         NEW peer \in Peer \cup {NoPeer}, state = "LISTEN" <=> peer = NoPeer
  PROVE  /\ GoodConn(NewConn(state, port, peer))
         /\ NewConn(state, port, peer).state = state
         /\ NewConn(state, port, peer).port = port
         /\ NewConn(state, port, peer).peer = peer
BY DEF NewConn, GoodConn, Conn, ConnState

LEMMA ReceiveListenGood ==
  ASSUME Good(Table, queue, handles), NEW seg \in Segment, ReceiveListen(seg)
  PROVE  Good(conn', queue', handles')
<1> DEFINE new == First(FreeSlots)
           r == NewConn("SYN_RCVD", seg.port, seg.peer)
<1>1. PICK l \in Found(seg) :
        /\ Table[l].state = "LISTEN" /\ FreeSlots # {}
        /\ conn' = [Table EXCEPT ![new] = r]
        /\ queue' = [queue EXCEPT ![l] = <<new>> \o @]
        /\ handles' = handles
  BY DEF ReceiveListen
<1>2. new \in Slots /\ Table[new] = Unused
  BY <1>1, FreeSlotIs
<1>3. /\ l \in Slots /\ Table[l].port = seg.port
      /\ \A i \in Slots : Table[i] # Unused /\ Table[i].peer = seg.peer
                            => Table[i].port # seg.port
  BY <1>1, FoundIs
<1>4. GoodConn(r) /\ r.state = "SYN_RCVD" /\ r.port = seg.port /\ r.peer = seg.peer
  BY NewConnIs, NoPeerAssumption DEF Segment
<1> HIDE DEF new, r
<1>5. Good(conn', queue, handles)
  BY <1>1, <1>2, <1>3, <1>4, AddGood
<1>6. /\ new \notin handles
      /\ \A m \in Slots : \A k \in 1 .. Len(queue[m]) : m # new /\ queue[m][k] # new
  BY <1>2, FreeIsUnlinked
<1>7. l # new
  BY <1>1, <1>2, UsedConn
<1>8. conn'[l] = Table[l] /\ conn'[new] = r
  BY <1>1, <1>2, <1>3, <1>7 DEF Good, GoodTable
<1>9. queue[l] \in Seq(Slots) /\ queue \in [Slots -> Seq(Slots)]
  BY <1>3 DEF Good, GoodQueues
<1>10. /\ queue' \in [Slots -> Seq(Slots)]
       /\ \A m \in Slots \ {l} : queue'[m] = queue[m]
       /\ queue'[l] = <<new>> \o queue[l]
  BY <1>1, <1>2, <1>3, <1>9
<1>11. /\ Len(queue'[l]) = Len(queue[l]) + 1 /\ Len(queue[l]) \in Nat
       /\ queue'[l][1] = new
       /\ \A k \in 2 .. Len(queue'[l]) :
            k - 1 \in 1 .. Len(queue[l]) /\ queue'[l][k] = queue[l][k - 1]
  BY <1>2, <1>9, <1>10
<1>12. ASSUME NEW m \in Slots, NEW k \in 1 .. Len(queue'[m])
       PROVE  \/ m = l /\ k = 1 /\ queue'[m][k] = new
              \/ m # l /\ k \in 1 .. Len(queue[m]) /\ queue'[m][k] = queue[m][k]
              \/ m = l /\ k - 1 \in 1 .. Len(queue[m]) /\ queue'[m][k] = queue[m][k - 1]
  BY <1>10, <1>11
<1>13. ASSUME NEW m \in Slots, NEW k \in 1 .. Len(queue'[m])
       PROVE  /\ conn'[m].state = "LISTEN" /\ conn'[queue'[m][k]].state \in QueuedState
              /\ conn'[queue'[m][k]].port = conn'[m].port
              /\ queue'[m][k] \notin handles
  <2>1. CASE m = l /\ k = 1 /\ queue'[m][k] = new
    BY <1>1, <1>3, <1>4, <1>6, <1>8, <2>1 DEF QueuedState
  <2>2. CASE m # l /\ k \in 1 .. Len(queue[m]) /\ queue'[m][k] = queue[m][k]
    BY <1>5, <2>2, NodeIs
  <2>3. CASE m = l /\ k - 1 \in 1 .. Len(queue[m]) /\ queue'[m][k] = queue[m][k - 1]
    BY <1>5, <2>3, NodeIs
  <2> QED BY <1>12, <2>1, <2>2, <2>3
<1>14. ASSUME NEW m \in Slots, NEW n \in Slots, NEW k \in 1 .. Len(queue'[m]),
              NEW j \in 1 .. Len(queue'[n]), queue'[m][k] = queue'[n][j]
       PROVE  m = n /\ k = j
  <2>1. k \in Nat /\ j \in Nat
    BY <1>10
  <2>2. CASE queue'[m][k] = new
    <3>1. ASSUME NEW i \in Slots, NEW h \in 1 .. Len(queue'[i]), queue'[i][h] = new
          PROVE  i = l /\ h = 1
      BY <1>6, <1>12, <3>1
    <3>2. m = l /\ k = 1
      BY <2>2, <3>1
    <3>3. queue'[n][j] = new
      BY <1>14, <2>2
    <3>4. n = l /\ j = 1
      BY <3>1, <3>3
    <3> QED BY <3>2, <3>4
  <2>3. CASE queue'[m][k] # new
    <3>1. PICK k0 \in 1 .. Len(queue[m]) :
            queue'[m][k] = queue[m][k0] /\ (k0 = IF m = l THEN k - 1 ELSE k)
      BY <1>12, <2>3
    <3>2. PICK j0 \in 1 .. Len(queue[n]) :
            queue'[n][j] = queue[n][j0] /\ (j0 = IF n = l THEN j - 1 ELSE j)
      BY <1>12, <1>14, <2>3
    <3>3. queue[m][k0] = queue[n][j0]
      BY <1>14, <3>1, <3>2
    <3>4. m = n /\ k0 = j0
      BY <3>3, QueuesInjective
    <3> QED BY <2>1, <3>1, <3>2, <3>4
  <2> QED BY <2>2, <2>3
<1>15. GoodQueues(conn', queue', handles)
  BY <1>10, <1>13, <1>14 DEF GoodQueues
<1> QED BY <1>1, <1>5, <1>15 DEF Good

LEMMA ReceiveSynRcvdGood ==
  ASSUME Good(Table, queue, handles), NEW seg \in Segment, ReceiveSynRcvd(seg)
  PROVE  Good(conn', queue', handles')
<1>1. PICK c \in Found(seg) :
        /\ Table[c].state = "SYN_RCVD" /\ handles' = handles
        /\ \/ conn' = Freed(Table, c) /\ queue' = Dequeued(c)
           \/ /\ conn' = [Table EXCEPT ![c] =
                    IF "ACK" \in seg.flags
                    THEN [@ EXCEPT !.state = "ESTABLISHED", !.hasBuf = TRUE]
                    ELSE @]
              /\ queue' = queue
  BY DEF ReceiveSynRcvd
<1>2. c \in Slots /\ Table[c] # Unused /\ GoodConn(Table[c])
  BY <1>1, FoundIs
<1>3. c \notin handles
  BY <1>1, <1>2 DEF Good, GoodHandles, HandleState
<1>4. CASE conn' = Freed(Table, c) /\ queue' = Dequeued(c)
  BY <1>1, <1>2, <1>3, <1>4, FreeGood
<1>5. CASE /\ conn' = [Table EXCEPT ![c] =
                    IF "ACK" \in seg.flags
                    THEN [@ EXCEPT !.state = "ESTABLISHED", !.hasBuf = TRUE]
                    ELSE @]
           /\ queue' = queue
  <2> DEFINE r == IF "ACK" \in seg.flags
                  THEN [Table[c] EXCEPT !.state = "ESTABLISHED", !.hasBuf = TRUE]
                  ELSE Table[c]
  <2>1. conn' = [Table EXCEPT ![c] = r]
    BY <1>2, <1>5 DEF Good, GoodTable
  <2>2. /\ GoodConn(r) /\ r.port = Table[c].port /\ r.peer = Table[c].peer
        /\ r.state \in QueuedState
    BY <1>1, <1>2 DEF GoodConn, Conn, ConnState, QueuedState
  <2> HIDE DEF r
  <2>3. Good([Table EXCEPT ![c] = r], queue, handles)
    BY <1>2, <1>3, <2>2, ChangeGood
  <2> QED BY <1>1, <1>5, <2>1, <2>3
<1> QED BY <1>1, <1>4, <1>5

\* Where a segment leads a connection that has been established: not back, and
\* a connection a user may hold is not freed.
LEMMA AfterIs ==
  ASSUME NEW state \in ConnState \ {"LISTEN", "SYN_RCVD"}, NEW f
  PROVE  /\ After(state, f) \in (ConnState \ {"LISTEN", "SYN_RCVD"}) \cup {"UNUSED"}
         /\ state \in HandleState => After(state, f) \in HandleState
         /\ state \in QueuedState => After(state, f) \in QueuedState
BY DEF ConnState, HandleState, QueuedState, After, AfterEstablished, AfterLastAck,
       AfterFinWait1, AfterFinWait2, AfterClosing, AfterTimeWait

LEMMA ReceiveConnectedGood ==
  ASSUME Good(Table, queue, handles), now \in Nat, NEW seg \in Segment,
         ReceiveConnected(seg)
  PROVE  Good(conn', queue', handles')
<1>1. PICK c \in Found(seg) :
        /\ Table[c].state \notin {"LISTEN", "SYN_RCVD"} /\ handles' = handles
        /\ IF After(Table[c].state, seg.flags) = "UNUSED"
           THEN conn' = Freed(Table, c) /\ queue' = Dequeued(c)
           ELSE /\ conn' = [Table EXCEPT
                     ![c].state = After(Table[c].state, seg.flags),
                     ![c].timeWaitStart =
                        IF After(Table[c].state, seg.flags) = "TIME_WAIT" /\ @ = 0
                        THEN now ELSE @]
                /\ queue' = queue
  BY DEF ReceiveConnected
<1> DEFINE next == After(Table[c].state, seg.flags)
<1>2. c \in Slots /\ Table[c] # Unused /\ GoodConn(Table[c])
  BY <1>1, FoundIs
<1>3. Table[c].state \in ConnState \ {"LISTEN", "SYN_RCVD"}
  BY <1>1, <1>2, UsedConn DEF GoodConn
<1>4. /\ next \in (ConnState \ {"LISTEN", "SYN_RCVD"}) \cup {"UNUSED"}
      /\ Table[c].state \in HandleState => next \in HandleState
      /\ Table[c].state \in QueuedState => next \in QueuedState
  BY <1>3, AfterIs
<1>5. c \in handles => Table[c].state \in HandleState
  BY DEF Good, GoodHandles
<1>6. CASE next = "UNUSED"
  <2>1. c \notin handles
    BY <1>4, <1>5, <1>6 DEF HandleState
  <2>2. conn' = Freed(Table, c) /\ queue' = Dequeued(c)
    BY <1>1, <1>6
  <2> QED BY <1>1, <1>2, <2>1, <2>2, FreeGood
<1>7. CASE next # "UNUSED"
  <2> DEFINE r == [Table[c] EXCEPT !.state = next,
                     !.timeWaitStart = IF next = "TIME_WAIT" /\ @ = 0 THEN now ELSE @]
  <2>1. next \in ConnState \ {"LISTEN", "SYN_RCVD"}
    BY <1>4, <1>7
  <2>2. Table[c] \in Conn /\ Table[c].peer # NoPeer /\ Table[c].hasBuf
    BY <1>2, <1>3 DEF GoodConn
  <2>3. conn' = [Table EXCEPT ![c] = r] /\ queue' = queue
    BY <1>1, <1>2, <1>7 DEF Good, GoodTable
  <2> HIDE DEF next
  <2>4. /\ r \in Conn /\ r.port = Table[c].port /\ r.peer = Table[c].peer
        /\ r.hasBuf = Table[c].hasBuf /\ r.state = next
    BY <2>1, <2>2 DEF Conn
  <2> HIDE DEF r
  <2>5. GoodConn(r)
    BY <2>1, <2>2, <2>4 DEF GoodConn
  <2>6. Good([Table EXCEPT ![c] = r], queue, handles)
    BY <1>2, <1>4, <1>5, <2>4, <2>5, ChangeGood
  <2> QED BY <1>1, <2>3, <2>6
<1> QED BY <1>6, <1>7

\* A user gets a handle to a connection that is in no accept queue.
LEMMA HandleGood ==
  ASSUME NEW T, NEW Q, NEW H, Good(T, Q, H), NEW n \in Slots, T[n].state \in HandleState,
         \A l \in Slots : \A k \in 1 .. Len(Q[l]) : Q[l][k] # n
  PROVE  Good(T, Q, H \cup {n})
BY DEF Good, GoodHandles, GoodQueues

LEMMA ListenGood ==
  ASSUME Good(Table, queue, handles), NEW port \in Port, Listen(port)
  PROVE  Good(conn', queue', handles')
<1> DEFINE all == WildcardMatches(port, NoPeer)
           old == First(all)
           new == First(FreeSlots)
           r == NewConn("LISTEN", port, NoPeer)
<1>1. CASE /\ all # {} /\ Table[old].state = "LISTEN"
           /\ handles' = handles \cup {old} /\ conn' = Table /\ queue' = queue
  <2>1. all \subseteq Slots
    BY DEF WildcardMatches
  <2>2. old \in Slots
    BY <1>1, <2>1, FirstIs
  <2>3. \A l \in Slots : \A k \in 1 .. Len(queue[l]) : queue[l][k] # old
    BY <1>1, NodeIs DEF QueuedState
  <2> QED BY <1>1, <2>2, <2>3, HandleGood DEF HandleState
<1>2. CASE /\ FreeSlots # {}
           /\ conn' = [Table EXCEPT ![new] = r]
           /\ queue' = [queue EXCEPT ![new] = << >>]
           /\ handles' = handles \cup {new}
  <2>1. new \in Slots /\ Table[new] = Unused
    BY <1>2, FreeSlotIs
  <2>2. GoodConn(r) /\ r.state = "LISTEN" /\ r.peer = NoPeer
    BY NewConnIs
  <2> HIDE DEF new, r
  <2>3. Good(conn', queue, handles)
    BY <1>2, <2>1, <2>2, AddGood
  <2>4. conn'[new].state = "LISTEN"
    BY <1>2, <2>1, <2>2 DEF Good, GoodTable
  <2>5. /\ queue[new] = << >>
        /\ \A l \in Slots : \A k \in 1 .. Len(queue[l]) : queue[l][k] # new
    BY <2>1, FreeIsUnlinked
  <2>6. queue' = queue
    BY <1>2, <2>1, <2>5 DEF Good, GoodQueues
  <2> QED BY <1>2, <2>1, <2>3, <2>4, <2>5, <2>6, HandleGood DEF HandleState
<1> QED BY <1>1, <1>2 DEF Listen

LEMMA AcceptGood ==
  ASSUME Good(conn, queue, handles), NEW l \in Slots, Accept(l)
  PROVE  Good(conn', queue', handles')
<1> DEFINE head == Head(queue[l])
<1>1. /\ queue[l] # << >> /\ conn[head].state = "ESTABLISHED" /\ conn' = conn
      /\ queue' = [queue EXCEPT ![l] = Tail(@)] /\ handles' = handles \cup {head}
  BY DEF Accept
<1>2. queue[l] \in Seq(Slots) /\ queue \in [Slots -> Seq(Slots)]
  BY DEF Good, GoodQueues
<1>3. /\ 1 \in 1 .. Len(queue[l]) /\ head = queue[l][1] /\ head \in Slots
      /\ Tail(queue[l]) \in Seq(Slots) /\ Len(Tail(queue[l])) = Len(queue[l]) - 1
      /\ Len(queue[l]) \in Nat
      /\ \A k \in 1 .. Len(Tail(queue[l])) : Tail(queue[l])[k] = queue[l][k + 1]
  BY <1>1, <1>2
<1>4. /\ queue' \in [Slots -> Seq(Slots)]
      /\ \A m \in Slots : queue'[m] = IF m = l THEN Tail(queue[l]) ELSE queue[m]
  BY <1>1, <1>2, <1>3
<1>5. ASSUME NEW m \in Slots, NEW k \in 1 .. Len(queue'[m])
      PROVE  \E i \in 1 .. Len(queue[m]) :
               /\ queue'[m][k] = queue[m][i] /\ (i = IF m = l THEN k + 1 ELSE k)
               /\ queue[m][i] # head
  <2>1. CASE m = l
    <3>1. k \in 1 .. Len(Tail(queue[l])) /\ queue'[m][k] = queue[l][k + 1]
      BY <1>3, <1>4, <2>1
    <3>2. k + 1 \in 1 .. Len(queue[l]) /\ k + 1 # 1
      BY <1>3, <3>1
    <3>3. queue[l][k + 1] # head
      BY <1>3, <3>2, QueuesInjective
    <3> QED BY <2>1, <3>1, <3>2, <3>3
  <2>2. CASE m # l
    <3>1. k \in 1 .. Len(queue[m]) /\ queue'[m][k] = queue[m][k]
      BY <1>4, <2>2
    <3>2. queue[m][k] # head
      BY <1>3, <2>2, <3>1, QueuesInjective
    <3> QED BY <2>2, <3>1, <3>2
  <2> QED BY <2>1, <2>2
<1> HIDE DEF head
<1>6. \A m \in Slots : Len(queue'[m]) \in Nat
  BY <1>4
<1>7. ASSUME NEW m \in Slots, NEW k \in 1 .. Len(queue'[m])
      PROVE  /\ conn[m].state = "LISTEN" /\ conn[queue'[m][k]].state \in QueuedState
             /\ conn[queue'[m][k]].port = conn[m].port /\ queue'[m][k] \notin handles
  <2>1. PICK i \in 1 .. Len(queue[m]) : queue'[m][k] = queue[m][i]
    BY <1>5
  <2> QED BY <2>1, NodeIs
<1>8. ASSUME NEW m \in Slots, NEW n \in Slots, NEW k \in 1 .. Len(queue'[m]),
             NEW j \in 1 .. Len(queue'[n]), queue'[m][k] = queue'[n][j]
      PROVE  m = n /\ k = j
  <2>1. PICK k0 \in 1 .. Len(queue[m]) :
          queue'[m][k] = queue[m][k0] /\ (k0 = IF m = l THEN k + 1 ELSE k)
    BY <1>5
  <2>2. PICK j0 \in 1 .. Len(queue[n]) :
          queue'[n][j] = queue[n][j0] /\ (j0 = IF n = l THEN j + 1 ELSE j)
    BY <1>5
  <2>3. queue[m][k0] = queue[n][j0]
    BY <1>8, <2>1, <2>2
  <2>4. m = n /\ k0 = j0
    BY <2>3, QueuesInjective
  <2> QED BY <1>6, <2>1, <2>2, <2>4
<1>9. GoodQueues(conn, queue', handles)
  BY <1>4, <1>7, <1>8 DEF GoodQueues
<1>10. Good(conn, queue', handles)
  BY <1>9 DEF Good
<1>11. \A m \in Slots : \A k \in 1 .. Len(queue'[m]) : queue'[m][k] # head
  BY <1>5
<1>12. head \in Slots /\ conn[head].state \in HandleState
  BY <1>1, <1>3 DEF HandleState, head
<1>13. Good(conn, queue', handles \cup {head})
  BY <1>10, <1>11, <1>12, HandleGood
<1> QED BY <1>1, <1>13 DEF head

LEMMA CloseGood ==
  ASSUME Good(conn, queue, handles), NEW c \in Slots, Close(c)
  PROVE  Good(conn', queue', handles')
<1>1. c \in handles /\ handles' = handles \ {c} /\ conn[c].state \in HandleState
  BY DEF Close, Good, GoodHandles
<1>2. conn[c] # Unused /\ GoodConn(conn[c])
  BY <1>1, Slot DEF Good, HandleState, ConnState
<1>3. CASE conn[c].state \in {"LISTEN", "SYN_RCVD", "RESET"}
  <2>1. conn' = Freed(conn, c) /\ queue' = Dequeued(c)
    BY <1>3 DEF Close
  <2> QED BY <1>1, <2>1, FreeGood
<1>4. CASE conn[c].state \notin {"LISTEN", "SYN_RCVD", "RESET"}
  <2> DEFINE next == IF conn[c].state = "ESTABLISHED" THEN "FIN_WAIT_1" ELSE "LAST_ACK"
             r == [conn[c] EXCEPT !.state = next]
  <2>1. conn[c].state = "ESTABLISHED" \/ conn[c].state = "CLOSE_WAIT"
    BY <1>1, <1>4 DEF HandleState
  <2>2. conn' = [conn EXCEPT ![c] = r] /\ queue' = queue
    BY <1>4, <2>1 DEF Close, Good, GoodTable
  <2>3. GoodConn(r) /\ r.port = conn[c].port /\ r.peer = conn[c].peer
    BY <1>2, <2>1 DEF GoodConn, Conn, ConnState
  <2> HIDE DEF r
  <2>4. Good([conn EXCEPT ![c] = r], queue, handles \ {c})
    BY <1>1, <1>2, <2>3, ChangeGood
  <2> QED BY <1>1, <2>2, <2>4
<1> QED BY <1>3, <1>4

-----------------------------------------------------------------------------
LEMMA InitInv == Init => IInv
BY DEF Init, IInv, Good, GoodTable, GoodHandles, GoodQueues, UniqueEndpoints

LEMMA NextInv == IInv /\ [Next]_vars => IInv'
<1> SUFFICES ASSUME IInv, [Next]_vars
             PROVE  Good(conn', queue', handles') /\ now' \in Nat
  BY DEF IInv, Good, GoodTable, GoodHandles, GoodQueues, UniqueEndpoints
<1>1. Good(conn, queue, handles) /\ now \in Nat
  BY DEF IInv
<1>2. Good(Table, queue, handles)
  BY <1>1, PurgeGood
<1>3. CASE UNCHANGED vars
  BY <1>1, <1>3 DEF vars
<1>4. CASE Tick
  BY <1>1, <1>4 DEF Tick
<1>5. ASSUME NEW seg \in Segment, Receive(seg)
      PROVE  Good(conn', queue', handles') /\ now' = now
  <2>1. CASE ReceiveIgnored(seg)
    BY <1>2, <2>1 DEF ReceiveIgnored
  <2>2. CASE ReceiveListen(seg)
    BY <1>2, <2>2, ReceiveListenGood DEF ReceiveListen
  <2>3. CASE ReceiveSynRcvd(seg)
    BY <1>2, <2>3, ReceiveSynRcvdGood DEF ReceiveSynRcvd
  <2>4. CASE ReceiveConnected(seg)
    BY <1>1, <1>2, <2>4, ReceiveConnectedGood DEF ReceiveConnected
  <2> QED BY <1>5, <2>1, <2>2, <2>3, <2>4 DEF Receive
<1>6. ASSUME NEW port \in Port, Listen(port)
      PROVE  Good(conn', queue', handles') /\ now' = now
  BY <1>2, <1>6, ListenGood DEF Listen
<1>7. ASSUME NEW i \in Slots, Accept(i)
      PROVE  Good(conn', queue', handles') /\ now' = now
  BY <1>1, <1>7, AcceptGood DEF Accept
<1>8. ASSUME NEW i \in Slots, Close(i)
      PROVE  Good(conn', queue', handles') /\ now' = now
  BY <1>1, <1>8, CloseGood DEF Close
<1> QED BY <1>1, <1>3, <1>4, <1>5, <1>6, <1>7, <1>8 DEF Next

LEMMA Invariance == Spec => []IInv
BY InitInv, NextInv, PTL DEF Spec

\* Links, states and buffers of the table agree: an accept queue belongs to a
\* listening connection and lists each connection once, no freed connection is
\* linked, and buffers exist where data may arrive.
THEOREM TableAlwaysConsistent == Spec => []TableConsistent
<1>1. ASSUME IInv
      PROVE  TableConsistent
  <2>1. TypeOK
    BY <1>1 DEF TypeOK, IInv, Good, GoodTable, GoodHandles, GoodQueues
  <2>2. BuffersExist
    BY <1>1 DEF BuffersExist, IInv, Good, GoodTable, GoodConn, IsUsed
  <2>3. ASSUME NEW l \in Slots
        PROVE  /\ queue[l] # << >> => conn[l].state = "LISTEN"
               /\ \A j, k \in 1 .. Len(queue[l]) : queue[l][j] = queue[l][k] => j = k
               /\ \A c \in InQueue(l) :
                    /\ conn[c].state \in QueuedState
                    /\ conn[c].port = conn[l].port
                    /\ c \notin handles
                    /\ \A m \in Slots \ {l} : c \notin InQueue(m)
    <3>1. Good(conn, queue, handles)
      BY <1>1 DEF IInv
    <3>2. queue[l] # << >> => 1 \in 1 .. Len(queue[l])
      BY <3>1 DEF Good, GoodQueues
    <3>3. queue[l] # << >> => conn[l].state = "LISTEN"
      BY <3>1, <3>2, NodeIs
    <3>4. \A j, k \in 1 .. Len(queue[l]) : queue[l][j] = queue[l][k] => j = k
      BY <3>1, QueuesInjective
    <3>5. ASSUME NEW c \in InQueue(l)
          PROVE  /\ conn[c].state \in QueuedState
                 /\ conn[c].port = conn[l].port
                 /\ c \notin handles
                 /\ \A m \in Slots \ {l} : c \notin InQueue(m)
      <4>1. PICK k \in 1 .. Len(queue[l]) : c = queue[l][k]
        BY <3>5 DEF InQueue
      <4>2. \A m \in Slots \ {l} : c \notin InQueue(m)
        BY <3>1, <4>1, QueuesInjective DEF InQueue
      <4> QED BY <3>1, <4>1, <4>2, NodeIs
    <3> QED BY <3>3, <3>4, <3>5
  <2>4. QueuesCorrect
    BY <2>3 DEF QueuesCorrect, QueuedState
  <2> QED BY <2>1, <2>2, <2>4 DEF TableConsistent
<1> QED BY <1>1, Invariance, PTL

\* A connection a user holds is not freed or reused behind his back.
THEOREM HandlesAlwaysLive == Spec => []HandlesLive
<1>1. IInv => HandlesLive
  BY DEF HandlesLive, IInv, Good, GoodHandles, HandleState
<1> QED BY <1>1, Invariance, PTL

\* Two connections never have the same endpoints.
THEOREM EndpointsAlwaysUnique == Spec => []EndpointsUnique
<1>1. IInv => EndpointsUnique
  BY DEF EndpointsUnique, IInv, Good, UniqueEndpoints, IsUsed
<1> QED BY <1>1, Invariance, PTL

-----------------------------------------------------------------------------
(***************************************************************************)
(* What users can reach.  Besides IInv this takes that every listening     *)
(* connection is held: tcp_conn_close frees the ones that are given up.    *)
(***************************************************************************)
ListenersHeld == \A i \in Slots : conn[i].state = "LISTEN" => i \in handles

\* Connection i is in accept queue q, and nothing up to it blocks the queue.
Waits(T, q, i) ==
  \E k \in 1 .. Len(q) : q[k] = i /\ \A j \in 1 .. k : T[q[j]].state \in Acceptable

\* Returnable, in table T with accept queues Q and handles H.
Reached(T, Q, H, i) ==
  i \in H \/ \E l \in H : T[l].state = "LISTEN" /\ Waits(T, Q[l], i)

Lost(T, Q, H, i) == T[i].state \in Alive /\ ~Reached(T, Q, H, i)

\* The step loses slot i only in the two ways of LostOnlyByListenerOrPeer.
LosesAsStated(i) ==
  Lost(conn', queue', handles', i)
    => \/ Lost(conn, queue, handles, i)
       \/ \E l \in handles \ handles' : i \in InQueue(l)
       \/ PeerGoesBefore(i)

\* Unlinking a node leaves the others in their order.
LEMMA WithoutKeepsOrder ==
  ASSUME NEW q \in Seq(Slots), NEW c,
         \A j, k \in 1 .. Len(q) : q[j] = q[k] => j = k,
         NEW k \in 1 .. Len(q), q[k] # c
  PROVE  \E n \in 1 .. Len(Without(q, c)) :
           /\ Without(q, c)[n] = q[k]
           /\ \A m \in 1 .. n : \E j \in 1 .. k : Without(q, c)[m] = q[j] /\ q[j] # c
<1> DEFINE at == {j \in 1 .. Len(q) : q[j] = c}
           first == First(at)
           w == [i \in 1 .. Len(q) - 1 |-> q[IF i < first THEN i ELSE i + 1]]
<1>1. Len(q) \in Nat
  OBVIOUS
<1>2. CASE at = {}
  <2>1. Without(q, c) = q
    BY <1>2 DEF Without
  <2>2. \A j \in 1 .. Len(q) : q[j] # c
    BY <1>2
  <2>3. \A m \in 1 .. k : m \in 1 .. Len(q)
    BY <1>1
  <2> QED BY <2>1, <2>2, <2>3
<1>3. CASE at # {}
  <2>1. at \subseteq Nat
    BY <1>1
  <2>2. first \in at
    BY <1>3, <2>1, LeastExists DEF First
  <2>3. first \in 1 .. Len(q) /\ q[first] = c
    BY <2>2
  <2>4. Without(q, c) = w
    BY <1>3 DEF Without
  <2> HIDE DEF at, first
  <2>5. w \in Seq(Slots) /\ Len(w) = Len(q) - 1
    BY <1>1, <2>3
  <2>6. \A i \in 1 .. Len(w) :
          /\ i < first => w[i] = q[i]
          /\ i >= first => w[i] = q[i + 1]
    BY <1>1, <2>3, <2>5
  <2> HIDE DEF w
  <2>7. k # first /\ k \in 1 .. Len(q)
    BY <2>3
  <2>8. PICK n \in 1 .. Len(w) :
          w[n] = q[k] /\ (k < first => n = k) /\ (k > first => n = k - 1)
    <3>1. CASE k < first
      <4>1. k \in 1 .. Len(w)
        BY <1>1, <2>3, <2>5, <3>1
      <4> QED BY <2>6, <3>1, <4>1, <2>3
    <3>2. CASE k > first
      <4>1. k - 1 \in 1 .. Len(w) /\ k - 1 >= first /\ (k - 1) + 1 = k
        BY <1>1, <2>3, <2>5, <3>2
      <4>2. w[k - 1] = q[k]
        BY <2>6, <4>1
      <4> QED BY <3>2, <4>1, <4>2, <2>3
    <3> QED BY <1>1, <2>3, <2>7, <3>1, <3>2
  <2>9. ASSUME NEW m \in 1 .. n
        PROVE  \E j \in 1 .. k : w[m] = q[j] /\ q[j] # c
    <3>1. m \in 1 .. Len(w) /\ m \in Nat
      BY <1>1, <2>5, <2>8
    <3>2. CASE m < first
      <4>1. m \in 1 .. k /\ m \in 1 .. Len(q) /\ m # first
        BY <1>1, <2>3, <2>5, <2>7, <2>8, <3>1, <3>2
      <4>2. w[m] = q[m] /\ q[m] # c
        BY <2>3, <2>6, <3>1, <3>2, <4>1
      <4> QED BY <4>1, <4>2
    <3>3. CASE m >= first
      <4>1. m + 1 \in 1 .. k /\ m + 1 \in 1 .. Len(q) /\ m + 1 # first
        BY <1>1, <2>3, <2>5, <2>7, <2>8, <3>1, <3>3
      <4>2. w[m] = q[m + 1] /\ q[m + 1] # c
        BY <2>3, <2>6, <3>1, <3>3, <4>1
      <4> QED BY <4>1, <4>2
    <3> QED BY <2>3, <3>1, <3>2, <3>3
  <2> QED BY <2>4, <2>8, <2>9
<1> QED BY <1>2, <1>3

\* Unlinking another connection, whose slot then holds anything, blocks nobody.
LEMMA WithoutWaits ==
  ASSUME NEW q \in Seq(Slots), NEW c,
         \A j, k \in 1 .. Len(q) : q[j] = q[k] => j = k,
         NEW T, NEW S, \A n \in Slots : n # c => S[n] = T[n],
         NEW i, i # c, Waits(T, q, i)
  PROVE  Waits(S, Without(q, c), i)
<1>1. PICK k \in 1 .. Len(q) :
        q[k] = i /\ \A j \in 1 .. k : T[q[j]].state \in Acceptable
  BY DEF Waits
<1> DEFINE w == Without(q, c)
<1>0. q[k] # c
  BY <1>1
<1>a. \E n \in 1 .. Len(w) :
        w[n] = q[k] /\ \A m \in 1 .. n : \E j \in 1 .. k : w[m] = q[j] /\ q[j] # c
  BY <1>0, WithoutKeepsOrder
<1> HIDE DEF w
<1>2. PICK n \in 1 .. Len(w) :
        w[n] = q[k] /\ \A m \in 1 .. n : \E j \in 1 .. k : w[m] = q[j] /\ q[j] # c
  BY <1>a
<1>3. ASSUME NEW m \in 1 .. n
      PROVE  S[w[m]].state \in Acceptable
  <2>1. PICK j \in 1 .. k : w[m] = q[j] /\ q[j] # c
    BY <1>2
  <2>2. j \in 1 .. Len(q) /\ q[j] \in Slots
    OBVIOUS
  <2> QED BY <1>1, <2>1, <2>2
<1>4. Waits(S, w, i)
  BY <1>1, <1>2, <1>3 DEF Waits
<1> QED BY <1>4 DEF w

\* Freeing connection c cuts off nobody else, unless c listens.
LEMMA FreeReaches ==
  ASSUME NEW T, NEW H, Good(T, queue, H), NEW c \in Slots, NEW G, H \ {c} \subseteq G,
         T[c].state # "LISTEN", NEW i \in Slots \ {c}, Reached(T, queue, H, i)
  PROVE  Reached(Freed(T, c), Dequeued(c), G, i)
<1>1. CASE i \in H
  BY <1>1 DEF Reached
<1>2. ASSUME NEW l \in H, T[l].state = "LISTEN", Waits(T, queue[l], i)
      PROVE  Reached(Freed(T, c), Dequeued(c), G, i)
  <2>1. l \in Slots /\ l # c /\ l \in G
    BY <1>2 DEF Good, GoodHandles
  <2>2. \A n \in Slots : n # c => Freed(T, c)[n] = T[n]
    BY DEF Freed, Good, GoodTable
  <2>3. Dequeued(c)[l] = Without(queue[l], c)
    BY <2>1 DEF Dequeued
  <2>4. \A m, n \in 1 .. Len(queue[l]) : queue[l][m] = queue[l][n] => m = n
    BY <2>1, QueuesInjective
  <2>5. queue[l] \in Seq(Slots)
    BY <2>1 DEF Good, GoodQueues
  <2>6. Waits(Freed(T, c), Without(queue[l], c), i)
    BY <1>2, <2>2, <2>4, <2>5, WithoutWaits
  <2> QED BY <1>2, <2>1, <2>2, <2>3, <2>6 DEF Reached
<1> QED BY <1>1, <1>2 DEF Reached

\* Nor does changing it, if that blocks no queue in front of i.
LEMMA ChangeReaches ==
  ASSUME NEW T, NEW Q, NEW H, Good(T, Q, H), NEW c \in Slots, NEW r, NEW G,
         H \ {c} \subseteq G, T[c].state # "LISTEN", NEW i \in Slots, i \in H => i \in G,
         \A l \in H : \A k \in 1 .. Len(Q[l]) : \A j \in 1 .. k :
           Q[l][k] = i /\ Q[l][j] = c /\ T[c].state \in Acceptable
             => r.state \in Acceptable,
         Reached(T, Q, H, i)
  PROVE  Reached([T EXCEPT ![c] = r], Q, G, i)
<1>1. CASE i \in H
  BY <1>1 DEF Reached
<1>2. ASSUME NEW l \in H, T[l].state = "LISTEN", Waits(T, Q[l], i)
      PROVE  Reached([T EXCEPT ![c] = r], Q, G, i)
  <2> DEFINE U == [T EXCEPT ![c] = r]
  <2>1. l \in Slots /\ l # c /\ l \in G
    BY <1>2 DEF Good, GoodHandles
  <2>2. \A n \in Slots : U[n] = IF n = c THEN r ELSE T[n]
    BY DEF Good, GoodTable
  <2>3. PICK k \in 1 .. Len(Q[l]) :
          Q[l][k] = i /\ \A j \in 1 .. k : T[Q[l][j]].state \in Acceptable
    BY <1>2 DEF Waits
  <2> HIDE DEF U
  <2>4. ASSUME NEW j \in 1 .. k
        PROVE  U[Q[l][j]].state \in Acceptable
    <3>1. Q[l] \in Seq(Slots)
      BY <2>1 DEF Good, GoodQueues
    <3>2. j \in 1 .. Len(Q[l]) /\ Q[l][j] \in Slots
      BY <3>1
    <3>3. CASE Q[l][j] = c
      BY <2>2, <2>3, <3>2, <3>3
    <3>4. CASE Q[l][j] # c
      BY <2>2, <2>3, <3>2, <3>4
    <3> QED BY <3>3, <3>4
  <2>5. Waits(U, Q[l], i)
    BY <2>3, <2>4 DEF Waits
  <2>6. U[l].state = "LISTEN"
    BY <1>2, <2>1, <2>2
  <2>7. Reached(U, Q, G, i)
    BY <2>1, <2>5, <2>6 DEF Reached
  <2> QED BY <2>7 DEF U
<1> QED BY <1>1, <1>2 DEF Reached

\* Purging cuts off nobody.
LEMMA PurgeReaches ==
  ASSUME Good(conn, queue, handles), NEW i \in Slots
  PROVE  Lost(Table, queue, handles, i) => Lost(conn, queue, handles, i)
<1>1. \A n \in Slots : \/ Table[n] = conn[n]
                       \/ Table[n] = Unused /\ conn[n].state = "TIME_WAIT"
  BY DEF Table, Expired
<1>2. Table[i].state \in Alive => conn[i].state \in Alive
  BY <1>1, UsedConn DEF Alive
<1>3. \A l \in handles : l \in Slots /\ Table[l] = conn[l]
  BY <1>1 DEF Good, GoodHandles, HandleState
<1>4. \A n \in Slots : conn[n].state \in Acceptable => Table[n] = conn[n]
  BY <1>1 DEF Acceptable
<1>5. ASSUME NEW l \in Slots, Waits(conn, queue[l], i)
      PROVE  Waits(Table, queue[l], i)
  <2>1. PICK k \in 1 .. Len(queue[l]) :
          queue[l][k] = i /\ \A j \in 1 .. k : conn[queue[l][j]].state \in Acceptable
    BY <1>5 DEF Waits
  <2>2. ASSUME NEW j \in 1 .. k
        PROVE  Table[queue[l][j]].state \in Acceptable
    <3>1. queue[l] \in Seq(Slots)
      BY DEF Good, GoodQueues
    <3>2. queue[l][j] \in Slots
      BY <3>1
    <3> QED BY <1>4, <2>1, <3>2
  <2> QED BY <2>1, <2>2 DEF Waits
<1> QED BY <1>2, <1>3, <1>5 DEF Lost, Reached

\* A connection is changed, not freed, and the handles stay.
LEMMA ChangeLosesNone ==
  ASSUME Good(conn, queue, handles), Good(Table, queue, handles), NEW c \in Slots,
         Table[c].state # "LISTEN", NEW r, r.state \in Alive => Table[c].state \in Alive,
         NEW i \in Slots,
         \A l \in handles : \A k \in 1 .. Len(queue[l]) : \A j \in 1 .. k :
           queue[l][k] = i /\ queue[l][j] = c /\ Table[c].state \in Acceptable
             => r.state \in Acceptable,
         Lost([Table EXCEPT ![c] = r], queue, handles, i)
  PROVE  Lost(conn, queue, handles, i)
<1>1. ~Reached(Table, queue, handles, i)
  BY ChangeReaches DEF Lost
<1>2. [Table EXCEPT ![c] = r][i] = IF i = c THEN r ELSE Table[i]
  BY DEF Good, GoodTable
<1>3. Table[i].state \in Alive
  BY <1>2 DEF Lost
<1> QED BY <1>1, <1>3, PurgeReaches DEF Lost

LEMMA FreeLosesNone ==
  ASSUME Good(conn, queue, handles), Good(Table, queue, handles), NEW c \in Slots,
         Table[c].state # "LISTEN", NEW i \in Slots,
         Lost(Freed(Table, c), Dequeued(c), handles, i)
  PROVE  Lost(conn, queue, handles, i)
<1>1. Freed(Table, c)[i] = IF i = c THEN Unused ELSE Table[i]
  BY DEF Freed, Good, GoodTable
<1>2. i # c /\ Table[i].state \in Alive
  BY <1>1, UsedConn DEF Lost, Alive
<1>3. ~Reached(Table, queue, handles, i)
  BY <1>2, FreeReaches DEF Lost
<1> QED BY <1>2, <1>3, PurgeReaches DEF Lost

LEMMA ReceiveLosesNone ==
  ASSUME Good(conn, queue, handles), Good(Table, queue, handles), ListenersHeld,
         NEW seg \in Segment, Receive(seg), NEW i \in Slots
  PROVE  LosesAsStated(i) /\ (conn'[i].state = "LISTEN" => i \in handles')
<1>1. \A n \in Slots : Table[n].state = "LISTEN" => n \in handles
  BY UsedConn DEF ListenersHeld, Table
<1>2. CASE ReceiveIgnored(seg)
  BY <1>1, <1>2, PurgeReaches DEF ReceiveIgnored, LosesAsStated
<1>3. CASE ReceiveListen(seg)
  <2> DEFINE new == First(FreeSlots)
             r == NewConn("SYN_RCVD", seg.port, seg.peer)
  <2>1. PICK l \in Found(seg) :
          /\ Table[l].state = "LISTEN" /\ FreeSlots # {}
          /\ conn' = [Table EXCEPT ![new] = r]
          /\ queue' = [queue EXCEPT ![l] = <<new>> \o @]
          /\ handles' = handles
    BY <1>3 DEF ReceiveListen
  <2>2. new \in Slots /\ Table[new] = Unused
    BY <2>1, FreeSlotIs
  <2>3. l \in Slots /\ l \in handles
    BY <1>1, <2>1, FoundIs
  <2>4. r.state = "SYN_RCVD"
    BY DEF NewConn
  <2> HIDE DEF new, r
  <2>5. \A n \in Slots : conn'[n] = IF n = new THEN r ELSE Table[n]
    BY <2>1, <2>2 DEF Good, GoodTable
  <2>6. queue[l] \in Seq(Slots)
        /\ \A n \in Slots : queue'[n] = IF n = l THEN <<new>> \o queue[l] ELSE queue[n]
    BY <2>1, <2>3 DEF Good, GoodQueues
  <2>7. /\ 1 \in 1 .. Len(queue'[l]) /\ queue'[l][1] = new
        /\ \A k \in 1 .. Len(queue[l]) :
             k + 1 \in 1 .. Len(queue'[l]) /\ queue'[l][k + 1] = queue[l][k]
    <3> DEFINE q == queue[l]
    <3>0. q \in Seq(Slots) /\ queue'[l] = <<new>> \o q
      BY <2>3, <2>6
    <3> HIDE DEF q
    <3>1. Len(q) \in Nat /\ Len(queue'[l]) = Len(q) + 1 /\ queue'[l][1] = new
      BY <2>2, <3>0
    <3> USE DEF q
    <3>2. ASSUME NEW k \in 1 .. Len(queue[l])
          PROVE  k + 1 \in 1 .. Len(queue'[l]) /\ queue'[l][k + 1] = queue[l][k]
      <4>1. k \in Nat /\ k >= 1 /\ k + 1 \in 1 .. Len(queue[l]) + 1
        BY <3>1
      <4>2. (<<new>> \o queue[l])[k + 1] = queue[l][k]
        BY <2>2, <2>6, <3>1, <4>1
      <4> QED BY <2>3, <2>6, <3>1, <4>1, <4>2
    <3>3. 1 \in 1 .. Len(queue'[l])
      BY <3>1
    <3> QED BY <3>1, <3>2, <3>3
  <2>8. conn'[l].state = "LISTEN"
    BY <2>1, <2>2, <2>3, <2>5, UsedConn
  <2>9. ASSUME i = new
        PROVE  Reached(conn', queue', handles', i)
    <3>1. conn'[new].state \in Acceptable
      BY <2>2, <2>4, <2>5 DEF Acceptable
    <3>2. \A j \in 1 .. 1 : j = 1
      OBVIOUS
    <3>3. Waits(conn', queue'[l], i)
      BY <2>7, <2>9, <3>1, <3>2 DEF Waits
    <3> QED BY <2>1, <2>3, <2>8, <3>3 DEF Reached
  <2>10. ASSUME Reached(Table, queue, handles, i)
         PROVE  Reached(conn', queue', handles', i)
    <3>1. CASE i \in handles
      BY <2>1, <3>1 DEF Reached
    <3>2. ASSUME NEW m \in handles, Table[m].state = "LISTEN", Waits(Table, queue[m], i)
          PROVE  Reached(conn', queue', handles', i)
      <4>1. m \in Slots /\ m # new
        BY <2>2, <3>2, UsedConn DEF Good, GoodHandles
      <4>2. conn'[m].state = "LISTEN"
        BY <2>5, <3>2, <4>1
      <4>3. PICK k \in 1 .. Len(queue[m]) :
              queue[m][k] = i /\ \A j \in 1 .. k : Table[queue[m][j]].state \in Acceptable
        BY <3>2 DEF Waits
      <4>4. queue[m] \in Seq(Slots)
        BY <4>1 DEF Good, GoodQueues
      <4>5. \A n \in Slots : Table[n].state \in Acceptable => conn'[n].state \in Acceptable
        BY <2>2, <2>4, <2>5 DEF Acceptable
      <4>6. \A j \in 1 .. k : conn'[queue[m][j]].state \in Acceptable
        <5>1. \A j \in 1 .. k : queue[m][j] \in Slots
          BY <4>4
        <5> QED BY <4>3, <4>5, <5>1
      <4>7. CASE m # l
        <5>1. Waits(conn', queue'[m], i)
          BY <2>6, <4>1, <4>3, <4>6, <4>7 DEF Waits
        <5> QED BY <2>1, <4>2, <5>1 DEF Reached
      <4>8. CASE m = l
        <5>1. k + 1 \in 1 .. Len(queue'[l]) /\ queue'[l][k + 1] = i
          BY <2>7, <4>3, <4>8
        <5>2. ASSUME NEW j \in 1 .. k + 1
              PROVE  conn'[queue'[l][j]].state \in Acceptable
          <6>1. CASE j = 1
            BY <2>2, <2>4, <2>5, <2>7, <6>1 DEF Acceptable
          <6>2. CASE j # 1
            <7>1. j - 1 \in 1 .. k /\ j - 1 \in 1 .. Len(queue[l]) /\ (j - 1) + 1 = j
              BY <4>4, <4>8, <6>2
            <7>2. queue'[l][j] = queue[l][j - 1]
              BY <2>7, <7>1
            <7> QED BY <4>6, <4>8, <7>1, <7>2
          <6> QED BY <6>1, <6>2
        <5>3. Waits(conn', queue'[l], i)
          BY <5>1, <5>2 DEF Waits
        <5> QED BY <2>1, <2>3, <2>8, <5>3 DEF Reached
      <4> QED BY <4>7, <4>8
    <3> QED BY <2>10, <3>1, <3>2 DEF Reached
  <2>11. Lost(conn', queue', handles', i) => Lost(Table, queue, handles, i)
    BY <2>5, <2>9, <2>10 DEF Lost
  <2> QED BY <1>1, <2>1, <2>4, <2>5, <2>11, PurgeReaches DEF LosesAsStated
<1>4. CASE ReceiveSynRcvd(seg)
  <2>1. PICK c \in Found(seg) :
          /\ Table[c].state = "SYN_RCVD" /\ handles' = handles
          /\ \/ conn' = Freed(Table, c) /\ queue' = Dequeued(c)
             \/ /\ conn' = [Table EXCEPT ![c] =
                      IF "ACK" \in seg.flags
                      THEN [@ EXCEPT !.state = "ESTABLISHED", !.hasBuf = TRUE]
                      ELSE @]
                /\ queue' = queue
    BY <1>4 DEF ReceiveSynRcvd
  <2>2. c \in Slots /\ Table[c] \in Conn
    BY FoundIs DEF GoodConn
  <2>3. CASE conn' = Freed(Table, c) /\ queue' = Dequeued(c)
    <3>1. conn'[i].state = "LISTEN" => Table[i].state = "LISTEN"
      BY <2>2, <2>3, UsedConn DEF Freed, Good, GoodTable
    <3> QED BY <1>1, <2>1, <2>2, <2>3, <3>1, FreeLosesNone DEF LosesAsStated
  <2>4. CASE /\ conn' = [Table EXCEPT ![c] =
                      IF "ACK" \in seg.flags
                      THEN [@ EXCEPT !.state = "ESTABLISHED", !.hasBuf = TRUE]
                      ELSE @]
             /\ queue' = queue
    <3> DEFINE r == IF "ACK" \in seg.flags
                    THEN [Table[c] EXCEPT !.state = "ESTABLISHED", !.hasBuf = TRUE]
                    ELSE Table[c]
    <3>1. conn' = [Table EXCEPT ![c] = r]
      BY <2>2, <2>4 DEF Good, GoodTable
    <3>2. r.state \in Acceptable /\ r.state # "LISTEN" /\ Table[c].state \in Alive
      BY <2>1, <2>2 DEF Conn, Alive, Acceptable
    <3> HIDE DEF r
    <3>3. conn'[i].state = "LISTEN" => Table[i].state = "LISTEN"
      BY <2>2, <3>1, <3>2 DEF Good, GoodTable
    <3>4. Lost([Table EXCEPT ![c] = r], queue, handles, i) => Lost(conn, queue, handles, i)
      BY <2>1, <2>2, <3>2, ChangeLosesNone
    <3> QED BY <1>1, <2>1, <2>4, <3>1, <3>3, <3>4 DEF LosesAsStated
  <2> QED BY <2>1, <2>3, <2>4
<1>5. CASE ReceiveConnected(seg)
  <2>1. PICK c \in Found(seg) :
          /\ Table[c].state \notin {"LISTEN", "SYN_RCVD"} /\ handles' = handles
          /\ IF After(Table[c].state, seg.flags) = "UNUSED"
             THEN conn' = Freed(Table, c) /\ queue' = Dequeued(c)
             ELSE /\ conn' = [Table EXCEPT
                       ![c].state = After(Table[c].state, seg.flags),
                       ![c].timeWaitStart =
                          IF After(Table[c].state, seg.flags) = "TIME_WAIT" /\ @ = 0
                          THEN now ELSE @]
                  /\ queue' = queue
    BY <1>5 DEF ReceiveConnected
  <2> DEFINE next == After(Table[c].state, seg.flags)
  <2>2. c \in Slots /\ Table[c] \in Conn /\ Table[c].state \in ConnState \ {"LISTEN", "SYN_RCVD"}
    BY <2>1, FoundIs, UsedConn DEF GoodConn
  <2>3. next # "LISTEN" /\ (next \in Alive => Table[c].state \in Alive)
    BY <2>2 DEF ConnState, Alive, After, AfterEstablished, AfterLastAck,
       AfterFinWait1, AfterFinWait2, AfterClosing, AfterTimeWait
  <2>4. CASE next = "UNUSED"
    <3>1. conn' = Freed(Table, c) /\ queue' = Dequeued(c)
      BY <2>1, <2>4
    <3>2. conn'[i].state = "LISTEN" => Table[i].state = "LISTEN"
      BY <2>2, <3>1, UsedConn DEF Freed, Good, GoodTable
    <3> QED BY <1>1, <2>1, <2>2, <3>1, <3>2, FreeLosesNone DEF LosesAsStated
  <2>5. CASE next # "UNUSED"
    <3> DEFINE r == [Table[c] EXCEPT !.state = next,
                       !.timeWaitStart = IF next = "TIME_WAIT" /\ @ = 0 THEN now ELSE @]
    <3>1. conn' = [Table EXCEPT ![c] = r] /\ queue' = queue
      BY <2>1, <2>2, <2>5 DEF Good, GoodTable
    <3> HIDE DEF next
    <3>2. r.state = next
      BY <2>2 DEF Conn
    <3> HIDE DEF r
    <3>3. conn'[i].state = "LISTEN" => Table[i].state = "LISTEN"
      BY <2>2, <2>3, <3>1, <3>2 DEF Good, GoodTable
    <3>4. CASE PeerGoesBefore(i)
      BY <1>1, <2>1, <3>3, <3>4 DEF LosesAsStated
    <3>5. CASE ~PeerGoesBefore(i)
      <4>1. conn'[c].state = next
        BY <2>2, <3>1, <3>2 DEF Good, GoodTable
      <4>2. Table[c].state \in Acceptable
              => conn[c].state = "ESTABLISHED" /\ next \in {"ESTABLISHED", "CLOSE_WAIT", "RESET"}
        <5>1. Table[c].state \in Acceptable => Table[c].state = "ESTABLISHED"
          BY <2>1 DEF Acceptable
        <5>2. Table[c].state = "ESTABLISHED" => conn[c] = Table[c]
          BY <2>2, UsedConn DEF Table
        <5>3. Table[c].state = "ESTABLISHED" => next \in {"ESTABLISHED", "CLOSE_WAIT", "RESET"}
          BY DEF next, After, AfterEstablished
        <5> QED BY <5>1, <5>2, <5>3
      <4>3. \A l \in handles : \A k \in 1 .. Len(queue[l]) : \A j \in 1 .. k :
              queue[l][k] = i /\ queue[l][j] = c /\ Table[c].state \in Acceptable
                => r.state \in Acceptable
        BY <3>2, <3>5, <4>1, <4>2 DEF PeerGoesBefore, Acceptable
      <4>4. Lost([Table EXCEPT ![c] = r], queue, handles, i) => Lost(conn, queue, handles, i)
        BY <2>1, <2>2, <2>3, <3>2, <4>3, ChangeLosesNone
      <4> QED BY <1>1, <2>1, <3>1, <3>3, <4>4 DEF LosesAsStated
    <3> QED BY <3>4, <3>5
  <2> QED BY <2>4, <2>5
<1> QED BY <1>2, <1>3, <1>4, <1>5 DEF Receive

LEMMA ListenLosesNone ==
  ASSUME Good(conn, queue, handles), Good(Table, queue, handles), ListenersHeld,
         NEW port \in Port, Listen(port), NEW i \in Slots
  PROVE  (Lost(conn', queue', handles', i) => Lost(conn, queue, handles, i))
         /\ (conn'[i].state = "LISTEN" => i \in handles')
<1> DEFINE all == WildcardMatches(port, NoPeer)
           old == First(all)
           new == First(FreeSlots)
           r == NewConn("LISTEN", port, NoPeer)
<1>1. \A n \in Slots : Table[n].state = "LISTEN" => n \in handles
  BY UsedConn DEF ListenersHeld, Table
<1>2. CASE /\ handles' = handles \cup {old} /\ conn' = Table /\ queue' = queue
  <2> HIDE DEF old
  <2>1. Lost(conn', queue', handles', i) => Lost(Table, queue, handles, i)
    BY <1>2 DEF Lost, Reached, Waits
  <2> QED BY <1>1, <1>2, <2>1, PurgeReaches
<1>3. CASE /\ FreeSlots # {}
           /\ conn' = [Table EXCEPT ![new] = r]
           /\ queue' = [queue EXCEPT ![new] = << >>]
           /\ handles' = handles \cup {new}
  <2>1. new \in Slots /\ Table[new] = Unused
    BY <1>3, FreeSlotIs
  <2> HIDE DEF new, r
  <2>2. \A n \in Slots : conn'[n] = IF n = new THEN r ELSE Table[n]
    BY <1>3, <2>1 DEF Good, GoodTable
  <2>3. queue' = queue
    <3>1. queue[new] = << >>
      BY <2>1, FreeIsUnlinked
    <3> QED BY <1>3, <2>1, <3>1 DEF Good, GoodQueues
  <2>4. handles \subseteq Slots /\ new \notin handles
    BY <2>1, FreeIsUnlinked DEF Good, GoodHandles
  <2>5. ASSUME Reached(Table, queue, handles, i)
        PROVE  Reached(conn', queue', handles', i)
    <3>1. CASE i \in handles
      BY <1>3, <3>1 DEF Reached
    <3>2. ASSUME NEW l \in handles, Table[l].state = "LISTEN", Waits(Table, queue[l], i)
          PROVE  Reached(conn', queue', handles', i)
      <4>1. l \in Slots /\ l # new /\ queue[l] \in Seq(Slots)
        BY <2>4 DEF Good, GoodQueues
      <4>2. \A k \in 1 .. Len(queue[l]) : queue[l][k] # new /\ queue[l][k] \in Slots
        BY <2>1, <4>1, FreeIsUnlinked
      <4>3. PICK k \in 1 .. Len(queue[l]) :
              queue[l][k] = i /\ \A j \in 1 .. k : Table[queue[l][j]].state \in Acceptable
        BY <3>2 DEF Waits
      <4>4. \A j \in 1 .. k : conn'[queue[l][j]].state \in Acceptable
        <5>1. \A j \in 1 .. k : j \in 1 .. Len(queue[l])
          BY <4>1
        <5> QED BY <2>2, <4>2, <4>3, <5>1
      <4>5. Waits(conn', queue'[l], i)
        BY <2>3, <4>3, <4>4 DEF Waits
      <4> QED BY <1>3, <2>2, <3>2, <4>1, <4>5 DEF Reached
    <3> QED BY <2>5, <3>1, <3>2 DEF Reached
  <2>6. i # new => (Lost(conn', queue', handles', i) => Lost(Table, queue, handles, i))
    BY <2>2, <2>5 DEF Lost
  <2>7. i = new => i \in handles' /\ Reached(conn', queue', handles', i)
    BY <1>3 DEF Reached
  <2> QED BY <1>1, <1>3, <2>2, <2>6, <2>7, PurgeReaches DEF Lost
<1> QED BY <1>2, <1>3 DEF Listen

LEMMA AcceptLosesNone ==
  ASSUME Good(conn, queue, handles), ListenersHeld,
         NEW l \in Slots, Accept(l), NEW i \in Slots
  PROVE  (Lost(conn', queue', handles', i) => Lost(conn, queue, handles, i))
         /\ (conn'[i].state = "LISTEN" => i \in handles')
<1> DEFINE head == Head(queue[l])
<1>1. /\ queue[l] # << >> /\ conn' = conn
      /\ queue' = [queue EXCEPT ![l] = Tail(@)] /\ handles' = handles \cup {head}
  BY DEF Accept
<1>2. queue[l] \in Seq(Slots) /\ queue \in [Slots -> Seq(Slots)]
  BY DEF Good, GoodQueues
<1>3. \A m \in Slots : queue'[m] = IF m = l THEN Tail(queue[l]) ELSE queue[m]
  BY <1>1, <1>2
<1>4. /\ Len(Tail(queue[l])) = Len(queue[l]) - 1 /\ Len(queue[l]) \in Nat
      /\ head = queue[l][1]
      /\ \A k \in 1 .. Len(queue[l]) :
           k # 1 => k - 1 \in 1 .. Len(Tail(queue[l]))
                    /\ Tail(queue[l])[k - 1] = queue[l][k]
  BY <1>1, <1>2
<1> HIDE DEF head
<1>5. ASSUME Reached(conn, queue, handles, i)
      PROVE  Reached(conn', queue', handles', i)
  <2>1. CASE i \in handles
    BY <1>1, <2>1 DEF Reached
  <2>2. ASSUME NEW m \in handles, conn[m].state = "LISTEN",
               NEW k \in 1 .. Len(queue[m]), queue[m][k] = i,
               \A j \in 1 .. k : conn[queue[m][j]].state \in Acceptable
        PROVE  Reached(conn', queue', handles', i)
    <3>1. m \in Slots
      BY DEF Good, GoodHandles
    <3>2. CASE m = l /\ k = 1
      BY <1>1, <1>4, <2>2, <3>2 DEF Reached
    <3>3. CASE m = l /\ k # 1
      <4>1. k - 1 \in 1 .. Len(queue'[m]) /\ queue'[m][k - 1] = i
        BY <1>3, <1>4, <2>2, <3>1, <3>3
      <4>2. ASSUME NEW j \in 1 .. k - 1
            PROVE  conn'[queue'[m][j]].state \in Acceptable
        <5>1. j + 1 \in 1 .. k /\ j + 1 \in 1 .. Len(queue[l]) /\ j + 1 # 1 /\ (j + 1) - 1 = j
          BY <1>4, <3>3
        <5>2. queue'[m][j] = queue[l][j + 1]
          BY <1>3, <1>4, <3>1, <3>3, <5>1
        <5> QED BY <1>1, <2>2, <3>3, <5>1, <5>2
      <4>3. Waits(conn', queue'[m], i)
        BY <4>1, <4>2 DEF Waits
      <4> QED BY <1>1, <2>2, <4>3 DEF Reached
    <3>4. CASE m # l
      <4>1. Waits(conn', queue'[m], i)
        BY <1>1, <1>3, <2>2, <3>1, <3>4 DEF Waits
      <4> QED BY <1>1, <2>2, <4>1 DEF Reached
    <3> QED BY <3>2, <3>3, <3>4
  <2> QED BY <1>5, <2>1, <2>2 DEF Reached, Waits
<1> QED BY <1>1, <1>5 DEF Lost, ListenersHeld

LEMMA CloseLosesAsStated ==
  ASSUME Good(conn, queue, handles), ListenersHeld,
         NEW c \in Slots, Close(c), NEW i \in Slots
  PROVE  LosesAsStated(i) /\ (conn'[i].state = "LISTEN" => i \in handles')
<1>1. c \in handles /\ handles' = handles \ {c} /\ conn[c].state \in HandleState
  BY DEF Close, Good, GoodHandles
<1>2. CASE conn[c].state \in {"LISTEN", "SYN_RCVD", "RESET"}
  <2>1. conn' = Freed(conn, c) /\ queue' = Dequeued(c)
    BY <1>2 DEF Close
  <2>2. \A n \in Slots : conn'[n] = IF n = c THEN Unused ELSE conn[n]
    BY <2>1 DEF Freed, Good, GoodTable
  <2>3. conn'[i].state = "LISTEN" => i \in handles'
    BY <1>1, <2>2, UsedConn DEF ListenersHeld
  <2>4. conn'[i].state \in Alive => i # c /\ conn[i].state \in Alive
    BY <2>2, UsedConn DEF Alive
  <2>5. CASE conn[c].state # "LISTEN"
    BY <1>1, <2>1, <2>3, <2>4, <2>5, FreeReaches DEF LosesAsStated, Lost
  <2>6. CASE i \in InQueue(c)
    BY <1>1, <2>3, <2>6 DEF LosesAsStated
  <2>7. ASSUME i \notin InQueue(c), i # c, Reached(conn, queue, handles, i)
        PROVE  Reached(conn', queue', handles', i)
    <3>1. CASE i \in handles
      BY <1>1, <2>7, <3>1 DEF Reached
    <3>2. ASSUME NEW m \in handles, conn[m].state = "LISTEN", Waits(conn, queue[m], i)
          PROVE  Reached(conn', queue', handles', i)
      <4>1. m \in Slots /\ m # c
        BY <2>7, <3>2 DEF Good, GoodHandles, InQueue, Waits
      <4>2. queue'[m] = Without(queue[m], c)
        BY <2>1, <4>1 DEF Dequeued
      <4>3. queue[m] \in Seq(Slots)
        BY <4>1 DEF Good, GoodQueues
      <4>4. \A j, n \in 1 .. Len(queue[m]) : queue[m][j] = queue[m][n] => j = n
        BY <4>1, QueuesInjective
      <4>5. Waits(conn', queue'[m], i)
        BY <2>2, <2>7, <3>2, <4>2, <4>3, <4>4, WithoutWaits
      <4>6. m \in handles' /\ conn'[m].state = "LISTEN"
        BY <1>1, <2>2, <3>2, <4>1
      <4> QED BY <3>2, <4>5, <4>6 DEF Reached
    <3> QED BY <2>7, <3>1, <3>2 DEF Reached
  <2>8. CASE i \notin InQueue(c)
    BY <2>3, <2>4, <2>7, <2>8 DEF LosesAsStated, Lost
  <2> QED BY <2>6, <2>8
<1>3. CASE conn[c].state \notin {"LISTEN", "SYN_RCVD", "RESET"}
  <2> DEFINE next == IF conn[c].state = "ESTABLISHED" THEN "FIN_WAIT_1" ELSE "LAST_ACK"
             r == [conn[c] EXCEPT !.state = next]
  <2>1. conn[c].state = "ESTABLISHED" \/ conn[c].state = "CLOSE_WAIT"
    BY <1>1, <1>3 DEF HandleState
  <2>2. conn' = [conn EXCEPT ![c] = r] /\ queue' = queue
    BY <1>3, <2>1 DEF Close, Good, GoodTable
  <2>3. conn[c] \in Conn
    BY <1>1, <2>1, Slot DEF Good, ConnState, GoodConn
  <2>4. r.state = next
    BY <2>3 DEF Conn
  <2> HIDE DEF r
  <2>5. \A n \in Slots : conn'[n] = IF n = c THEN r ELSE conn[n]
    BY <2>2 DEF Good, GoodTable
  <2>6. conn'[i].state = "LISTEN" => i \in handles'
    BY <1>1, <2>4, <2>5 DEF ListenersHeld
  <2>7. conn'[i].state \in Alive => i # c /\ conn[i].state \in Alive
    BY <2>4, <2>5 DEF Alive
  <2>8. ASSUME i # c, Reached(conn, queue, handles, i)
        PROVE  Reached(conn', queue', handles', i)
    <3>1. \A l \in handles : \A k \in 1 .. Len(queue[l]) : \A j \in 1 .. k : queue[l][j] # c
      <4>1. \A l \in handles : l \in Slots /\ queue[l] \in Seq(Slots)
        BY DEF Good, GoodHandles, GoodQueues
      <4>2. \A l \in handles : \A k \in 1 .. Len(queue[l]) : \A j \in 1 .. k :
              j \in 1 .. Len(queue[l])
        BY <4>1
      <4>3. \A l \in handles : \A j \in 1 .. Len(queue[l]) : queue[l][j] # c
        BY <1>1, <4>1 DEF Good, GoodQueues
      <4> QED BY <4>2, <4>3
    <3>2. \A l \in handles : \A k \in 1 .. Len(queue[l]) : \A j \in 1 .. k :
            queue[l][k] = i /\ queue[l][j] = c /\ conn[c].state \in Acceptable
              => r.state \in Acceptable
      BY <3>1
    <3>3. handles \ {c} \subseteq handles' /\ (i \in handles => i \in handles')
      BY <1>1, <2>8
    <3>4. conn[c].state # "LISTEN"
      BY <2>1
    <3>5. Reached([conn EXCEPT ![c] = r], queue, handles', i)
      BY <2>8, <3>2, <3>3, <3>4, ChangeReaches
    <3> QED BY <2>2, <3>5
  <2> QED BY <2>6, <2>7, <2>8 DEF LosesAsStated, Lost
<1> QED BY <1>2, <1>3

LEMMA NothingLost ==
  ASSUME IInv, ListenersHeld, [Next]_vars
  PROVE  (\A i \in Slots : LosesAsStated(i)) /\ ListenersHeld'
<1>1. Good(conn, queue, handles) /\ Good(Table, queue, handles)
  BY PurgeGood DEF IInv
<1> SUFFICES ASSUME NEW i \in Slots
             PROVE  LosesAsStated(i) /\ (conn'[i].state = "LISTEN" => i \in handles')
  BY DEF ListenersHeld
<1>2. CASE UNCHANGED vars \/ Tick
  <2>1. conn' = conn /\ queue' = queue /\ handles' = handles
    BY <1>2 DEF Tick, vars
  <2> QED BY <2>1 DEF LosesAsStated, ListenersHeld
<1>3. ASSUME NEW seg \in Segment, Receive(seg)
      PROVE  LosesAsStated(i) /\ (conn'[i].state = "LISTEN" => i \in handles')
  BY <1>1, <1>3, ReceiveLosesNone DEF LosesAsStated
<1>4. ASSUME NEW port \in Port, Listen(port)
      PROVE  LosesAsStated(i) /\ (conn'[i].state = "LISTEN" => i \in handles')
  BY <1>1, <1>4, ListenLosesNone DEF LosesAsStated
<1>5. ASSUME NEW l \in Slots, Accept(l)
      PROVE  LosesAsStated(i) /\ (conn'[i].state = "LISTEN" => i \in handles')
  BY <1>1, <1>5, AcceptLosesNone DEF LosesAsStated
<1>6. ASSUME NEW c \in Slots, Close(c)
      PROVE  LosesAsStated(i) /\ (conn'[i].state = "LISTEN" => i \in handles')
  BY <1>1, <1>6, CloseLosesAsStated
<1> QED BY <1>2, <1>3, <1>4, <1>5, <1>6 DEF Next

\* A slot of the table, with its receive buffer, gets out of the users' reach
\* only when the listening connection that has it queued is given up or a peer
\* closes or resets a connection queued at or before its place.
THEOREM SlotsLostOnlyByListenerOrPeer == Spec => LostOnlyByListenerOrPeer
<1>1. Init => ListenersHeld
  BY UsedConn DEF Init, ListenersHeld
<1>2. IInv /\ ListenersHeld /\ [Next]_vars => ListenersHeld'
  BY NothingLost
<1>3. IInv /\ ListenersHeld /\ [Next]_vars
        => [\A i \in Slots :
              conn'[i].state \in Alive /\ ~Returnable(i)'
                => \/ conn[i].state \in Alive /\ ~Returnable(i)
                   \/ \E l \in handles \ handles' : i \in InQueue(l)
                   \/ PeerGoesBefore(i)]_vars
  <2> SUFFICES ASSUME IInv, ListenersHeld, [Next]_vars, NEW i \in Slots
               PROVE  conn'[i].state \in Alive /\ ~Returnable(i)'
                        => \/ conn[i].state \in Alive /\ ~Returnable(i)
                           \/ \E l \in handles \ handles' : i \in InQueue(l)
                           \/ PeerGoesBefore(i)
    OBVIOUS
  <2>1. LosesAsStated(i)
    BY NothingLost
  <2>2. Reached(conn, queue, handles, i) <=> Returnable(i)
    BY DEF Reached, Returnable, Waits
  <2>3. Reached(conn', queue', handles', i) <=> Returnable(i)'
    BY DEF Reached, Returnable, Waits
  <2> QED BY <2>1, <2>2, <2>3 DEF LosesAsStated, Lost
<1> QED BY <1>1, <1>2, <1>3, Invariance, PTL DEF Spec, LostOnlyByListenerOrPeer
=============================================================================
