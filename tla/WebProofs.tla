----------------------------- MODULE WebProofs -----------------------------
(***************************************************************************)
(* The web server serves one open connection at a time, loses none but by  *)
(* a send error, and closes none that waits for more of its response, for  *)
(* every number of connections, every length and every number of retries.  *)
(***************************************************************************)
EXTENDS WebProps, TLAPS

\* What holds of every slot of the table.
SlotIs(s) ==
  /\ s.out <= s.len /\ s.flight <= s.out
  /\ ~s.accepted => s.len = 0 /\ s.out = 0 /\ ~s.sendFailed
  /\ s.state = "fin_wait" => s.out = s.len \/ s.sendFailed

\* The slot that is being served: nothing was sent before the response was
\* built, and `done' counts what was sent of it since.
Served(s) ==
  /\ s.accepted /\ s.state \in Open /\ ~s.sendFailed
  /\ pc = "recv" => s.len = 0 /\ s.out = 0
  /\ pc = "respond" => s.len = response.len /\ s.out = done
  /\ sawClosed => s.state # "established"

\* A slot that is not being served.
NotServed(s) == s.accepted /\ s.state \in Open => s.sendFailed

\* The variables of the server's task.
ServerTypes ==
  /\ pc \in {"accept", "recv", "respond", "halted"} /\ cur \in Conns
  /\ got \in 0 .. Cap
  /\ round \in Nat /\ round < RequestRetries
  /\ poll \in Nat /\ poll < RecvRetries
  /\ response \in [status : Nat, len : Nat] /\ done \in 0 .. response.len
  /\ sawClosed \in BOOLEAN
  /\ pc # "respond" => response = NoResponse /\ ~sawClosed

SlotsAre ==
  /\ conn \in [Conns -> Slot]
  /\ \A c \in Conns : SlotIs(conn[c])
  /\ pc # "accept" => Served(conn[cur])
  /\ \A c \in Conns : pc = "accept" \/ c # cur => NotServed(conn[c])

IInv == ServerTypes /\ SlotsAre

-----------------------------------------------------------------------------
(***************************************************************************)
(* Slots.                                                                  *)
(***************************************************************************)
LEMMA Lengths ==
  /\ LineLen \in Nat /\ HeaderLen \in Nat /\ Cap \in Nat /\ RecvRoom \in Nat
  /\ Window \in Nat /\ FileLen \in Nat /\ HugeLen \in Nat /\ MaxResponse \in Nat
  /\ RecvRetries \in Nat \ {0} /\ RequestRetries \in Nat \ {0}
BY LengthAssumption, RetriesAssumption

\* A slot that is free, or just taken.
LEMMA FreshIs ==
  ASSUME NEW st \in {"free", "established"}
  PROVE  /\ Fresh(st) \in Slot /\ SlotIs(Fresh(st)) /\ NotServed(Fresh(st))
         /\ Fresh(st).state = st
BY Lengths DEF Fresh, Slot, SlotIs, NotServed

\* tcp_conn_close, of a connection that the user still has: it is his no
\* longer, and closing it again changes nothing.
LEMMA ClosedIs ==
  ASSUME NEW s \in Slot, SlotIs(s), s.state \in Open,
         s.state = "established" => s.out = s.len \/ s.sendFailed
  PROVE  /\ Closed(s) \in Slot /\ SlotIs(Closed(s)) /\ Closed(s).state \notin Open
         /\ Closed(Closed(s)) = Closed(s) /\ Ended(s) = Closed(s)
<1>1. 0 \in 0 .. RecvRoom /\ Window \in 0 .. Window
  BY Lengths
<1>2. CASE s.state = "established"
  <2>1. Closed(s) = [Fresh("fin_wait") EXCEPT !.accepted = s.accepted, !.len = s.len,
                       !.out = s.out, !.sendFailed = s.sendFailed]
    BY <1>2 DEF Closed
  <2> DEFINE t == Closed(s)
  <2>2. t = [state |-> "fin_wait", unread |-> 0, window |-> Window, flight |-> 0,
             stalled |-> FALSE, late |-> FALSE, accepted |-> s.accepted,
             len |-> s.len, out |-> s.out, sendFailed |-> s.sendFailed]
    BY <2>1 DEF Fresh
  <2>3. /\ s.accepted \in BOOLEAN /\ s.len \in Nat /\ s.out \in Nat
        /\ s.sendFailed \in BOOLEAN
    BY DEF Slot
  <2>4. /\ Closed(s) \in Slot /\ Closed(s).state = "fin_wait" /\ Closed(s).flight = 0
        /\ Closed(s).out = s.out /\ Closed(s).len = s.len
        /\ Closed(s).accepted = s.accepted /\ Closed(s).sendFailed = s.sendFailed
    <3> HIDE DEF t
    <3>1. t \in Slot
      BY <1>1, <2>2, <2>3 DEF Slot
    <3>2. t.state = "fin_wait" /\ t.flight = 0 /\ t.out = s.out /\ t.len = s.len
          /\ t.accepted = s.accepted /\ t.sendFailed = s.sendFailed
      BY <2>2
    <3> QED BY <3>1, <3>2 DEF t
  <2>5. Closed(Closed(s)) = Closed(s)
    BY <2>4 DEF Closed
  <2> QED BY <1>2, <2>4, <2>5 DEF SlotIs, Open, Ended, Slot
<1>3. CASE s.state = "close_wait"
  <2>1. Closed(s) = [Fresh("last_ack") EXCEPT !.accepted = s.accepted, !.len = s.len,
                       !.out = s.out, !.sendFailed = s.sendFailed]
    BY <1>3 DEF Closed
  <2> DEFINE t == Closed(s)
  <2>2. t = [state |-> "last_ack", unread |-> 0, window |-> Window, flight |-> 0,
             stalled |-> FALSE, late |-> FALSE, accepted |-> s.accepted,
             len |-> s.len, out |-> s.out, sendFailed |-> s.sendFailed]
    BY <2>1 DEF Fresh
  <2>3. /\ s.accepted \in BOOLEAN /\ s.len \in Nat /\ s.out \in Nat
        /\ s.sendFailed \in BOOLEAN
    BY DEF Slot
  <2>4. /\ Closed(s) \in Slot /\ Closed(s).state = "last_ack" /\ Closed(s).flight = 0
        /\ Closed(s).out = s.out /\ Closed(s).len = s.len
        /\ Closed(s).accepted = s.accepted /\ Closed(s).sendFailed = s.sendFailed
    <3> HIDE DEF t
    <3>1. t \in Slot
      BY <1>1, <2>2, <2>3 DEF Slot
    <3>2. t.state = "last_ack" /\ t.flight = 0 /\ t.out = s.out /\ t.len = s.len
          /\ t.accepted = s.accepted /\ t.sendFailed = s.sendFailed
      BY <2>2
    <3> QED BY <3>1, <3>2 DEF t
  <2>5. Closed(Closed(s)) = Closed(s)
    BY <2>4 DEF Closed
  <2> QED BY <1>3, <2>4, <2>5 DEF SlotIs, Open, Ended, Slot
<1>4. CASE s.state = "reset"
  <2>1. Closed(s) = FreeSlot
    BY <1>4 DEF Closed
  <2>2. Closed(s) \in Slot /\ SlotIs(Closed(s)) /\ Closed(s).state = "free"
    BY <2>1, FreshIs DEF FreeSlot
  <2>3. Closed(Closed(s)) = Closed(s)
    BY <2>2 DEF Closed
  <2> QED BY <2>2, <2>3 DEF Open, Ended
<1> QED BY <1>2, <1>3, <1>4 DEF Open

-----------------------------------------------------------------------------
(***************************************************************************)
(* The shapes that steps have.                                             *)
(***************************************************************************)
\* One slot changes.
LEMMA OneSlot ==
  ASSUME IInv, NEW c \in Conns, NEW s \in Slot, SlotIs(s),
         conn' = [conn EXCEPT ![c] = s]
  PROVE  /\ conn' \in [Conns -> Slot] /\ \A d \in Conns : SlotIs(conn'[d])
         /\ conn'[c] = s /\ \A d \in Conns \ {c} : conn'[d] = conn[d]
BY DEF IInv, SlotsAre

\* A peer's step changes a slot that is being served into one that can be,
\* and any other into one that need not.
LEMMA PeerStep ==
  ASSUME IInv, NEW c \in Conns, NEW s \in Slot, SlotIs(s),
         conn' = [conn EXCEPT ![c] = s], UNCHANGED serverVars,
         pc # "accept" /\ c = cur => Served(s),
         pc = "accept" \/ c # cur => NotServed(s)
  PROVE  IInv'
<1>1. /\ conn' \in [Conns -> Slot] /\ \A d \in Conns : SlotIs(conn'[d])
      /\ conn'[c] = s /\ \A d \in Conns \ {c} : conn'[d] = conn[d]
  BY OneSlot
<1>2. /\ UNCHANGED <<pc, cur>> /\ UNCHANGED <<got, round, poll>>
      /\ UNCHANGED <<response, done, sawClosed>>
  BY DEF serverVars, recvVars, respondVars
<1>3. ServerTypes'
  BY <1>2 DEF IInv, ServerTypes
<1>4. pc' # "accept" => Served(conn[cur])'
  BY <1>1, <1>2 DEF IInv, ServerTypes, SlotsAre, Served
<1>5. \A d \in Conns : pc' = "accept" \/ d # cur' => NotServed(conn'[d])
  BY <1>1, <1>2 DEF IInv, SlotsAre
<1> QED BY <1>1, <1>3, <1>4, <1>5 DEF IInv, SlotsAre

\* The server is done with the connection that it has served.
LEMMA ServingEnds ==
  ASSUME IInv, NEW s \in Slot, SlotIs(s), NotServed(s), pc # "accept",
         conn' = [conn EXCEPT ![cur] = s], Return
  PROVE  IInv'
<1>1. cur \in Conns
  BY DEF IInv, ServerTypes
<1>2. /\ conn' \in [Conns -> Slot] /\ \A d \in Conns : SlotIs(conn'[d])
      /\ conn'[cur] = s /\ \A d \in Conns \ {cur} : conn'[d] = conn[d]
  BY <1>1, OneSlot
<1>3. ServerTypes'
  <2>1. /\ pc' = "accept" /\ cur' = cur /\ got' = 0 /\ round' = 0 /\ poll' = 0
        /\ response' = NoResponse /\ done' = 0 /\ sawClosed' = FALSE
    BY DEF Return
  <2>2. NoResponse \in [status : Nat, len : Nat] /\ NoResponse.len = 0
    BY DEF NoResponse
  <2>3. 0 \in 0 .. Cap /\ 0 < RequestRetries /\ 0 < RecvRetries /\ 0 \in 0 .. 0
    BY Lengths
  <2> QED BY <1>1, <2>1, <2>2, <2>3 DEF ServerTypes
<1>4. \A d \in Conns : NotServed(conn'[d])
  BY <1>2 DEF IInv, SlotsAre
<1>5. pc' = "accept"
  BY DEF Return
<1> QED BY <1>2, <1>3, <1>4, <1>5 DEF IInv, SlotsAre

\* The server goes on with it.
LEMMA ServingGoesOn ==
  ASSUME IInv, NEW s \in Slot, SlotIs(s), pc' # "accept", Served(conn[cur])',
         conn' = [conn EXCEPT ![cur] = s], cur' = cur, ServerTypes'
  PROVE  IInv'
<1>1. cur \in Conns
  BY DEF IInv, ServerTypes
<1>2. /\ conn' \in [Conns -> Slot] /\ \A d \in Conns : SlotIs(conn'[d])
      /\ conn'[cur] = s /\ \A d \in Conns \ {cur} : conn'[d] = conn[d]
  BY <1>1, OneSlot
<1>3. \A d \in Conns \ {cur} : NotServed(conn'[d])
  BY <1>2 DEF IInv, SlotsAre
<1> QED BY <1>2, <1>3 DEF IInv, SlotsAre

-----------------------------------------------------------------------------
(***************************************************************************)
(* Every step preserves the invariant.                                     *)
(***************************************************************************)
\* The slot that the server works on, in either of its loops.
LEMMA CurrentIs ==
  ASSUME IInv, pc # "accept"
  PROVE  /\ cur \in Conns /\ conn[cur] \in Slot /\ SlotIs(conn[cur])
         /\ Served(conn[cur]) /\ conn[cur].unread \in 0 .. RecvRoom
         /\ conn[cur].window \in 0 .. Window
         /\ conn[cur].len \in Nat /\ conn[cur].out \in Nat
         /\ conn[cur].flight \in Nat
BY DEF IInv, ServerTypes, SlotsAre, Slot

LEMMA InitInv == Init => IInv
<1> SUFFICES ASSUME Init PROVE IInv
  OBVIOUS
<1>1. /\ conn = [c \in Conns |-> FreeSlot] /\ pc = "accept" /\ cur \in Conns
      /\ got = 0 /\ round = 0 /\ poll = 0
      /\ response = NoResponse /\ done = 0 /\ sawClosed = FALSE
  BY DEF Init
<1>2. FreeSlot \in Slot /\ SlotIs(FreeSlot) /\ NotServed(FreeSlot)
  BY FreshIs DEF FreeSlot
<1>3. NoResponse \in [status : Nat, len : Nat] /\ NoResponse.len = 0
  BY DEF NoResponse
<1>4. 0 \in 0 .. Cap /\ 0 < RequestRetries /\ 0 < RecvRetries /\ 0 \in 0 .. 0
  BY Lengths
<1>5. ServerTypes
  BY <1>1, <1>3, <1>4 DEF ServerTypes
<1>6. SlotsAre
  BY <1>1, <1>2 DEF SlotsAre
<1> QED BY <1>5, <1>6 DEF IInv

LEMMA AcceptInv ==
  ASSUME IInv, NEW c \in Conns, Accept(c)
  PROVE  IInv'
<1> DEFINE s == [conn[c] EXCEPT !.accepted = TRUE]
<1>1. /\ pc = "accept" /\ conn[c].state = "established" /\ ~conn[c].accepted
      /\ conn' = [conn EXCEPT ![c] = s] /\ cur' = c /\ pc' = "recv"
      /\ UNCHANGED <<got, round, poll>> /\ UNCHANGED <<response, done, sawClosed>>
  BY DEF Accept, recvVars, respondVars
<1>2. conn[c] \in Slot /\ SlotIs(conn[c])
  BY DEF IInv, SlotsAre
<1>3. /\ s \in Slot /\ s.state = "established" /\ s.accepted /\ s.out = conn[c].out
      /\ s.len = conn[c].len /\ s.sendFailed = conn[c].sendFailed
  BY <1>1, <1>2 DEF Slot
<1>4. SlotIs(s) /\ s.len = 0 /\ s.out = 0 /\ ~s.sendFailed
  BY <1>1, <1>2, <1>3 DEF SlotIs
<1> HIDE DEF s
<1>5. /\ conn' \in [Conns -> Slot] /\ \A d \in Conns : SlotIs(conn'[d])
      /\ conn'[c] = s /\ \A d \in Conns \ {c} : conn'[d] = conn[d]
  BY <1>1, <1>3, <1>4, OneSlot
<1>6. ServerTypes'
  BY <1>1 DEF IInv, ServerTypes
<1>7. ~sawClosed'
  BY <1>1 DEF IInv, ServerTypes
<1>8. Served(conn[cur])'
  BY <1>1, <1>3, <1>4, <1>5, <1>7 DEF Served, Open
<1>9. \A d \in Conns \ {c} : NotServed(conn'[d])
  BY <1>1, <1>5 DEF IInv, SlotsAre
<1> QED BY <1>1, <1>5, <1>6, <1>8, <1>9 DEF IInv, SlotsAre

\* web_handle_conn closes the connection when nothing was sent on it.
LEMMA AbandonInv ==
  ASSUME IInv, pc = "recv", Abandon
  PROVE  IInv'
<1>1. /\ conn[cur] \in Slot /\ SlotIs(conn[cur]) /\ Served(conn[cur])
  BY CurrentIs
<1>2. /\ Closed(conn[cur]) \in Slot /\ SlotIs(Closed(conn[cur]))
      /\ Closed(conn[cur]).state \notin Open
  <2>1. conn[cur].state \in Open /\ conn[cur].out = conn[cur].len
    BY <1>1 DEF Served
  <2> QED BY <1>1, <2>1, ClosedIs
<1>3. NotServed(Closed(conn[cur]))
  BY <1>2 DEF NotServed
<1>4. conn' = [conn EXCEPT ![cur] = Closed(conn[cur])] /\ Return
  BY DEF Abandon
<1> QED BY <1>2, <1>3, <1>4, ServingEnds

\* Every response has a status and a length.
LEMMA ResponsesAre ==
  /\ \A n \in Nat : HandleRequest(n) \subseteq [status : Nat, len : Nat]
  /\ BuildResponse(507, 1) \in [status : Nat, len : Nat]
<1>1. /\ BuildResponse(404, 1) \in [status : Nat, len : Nat]
      /\ BuildResponse(403, 1) \in [status : Nat, len : Nat]
      /\ BuildResponse(400, 1) \in [status : Nat, len : Nat]
      /\ BuildResponse(507, 1) \in [status : Nat, len : Nat]
      /\ BuildResponse(200, FileLen) \in [status : Nat, len : Nat]
      /\ BuildResponse(200, HugeLen) \in [status : Nat, len : Nat]
      /\ AssertionFails \in [status : Nat, len : Nat]
  <2>1. /\ 404 \in Nat /\ 403 \in Nat /\ 400 \in Nat /\ 507 \in Nat /\ 200 \in Nat
        /\ 1 \in Nat /\ FileLen \in Nat /\ HugeLen \in Nat
    BY Lengths
  <2> QED BY <2>1 DEF BuildResponse, NoResponse, AssertionFails
<1> DEFINE answer(request, n) ==
             IF IsValid(request, n) THEN ServeFile(request) ELSE BuildResponse(400, 1)
<1>2. ASSUME NEW n \in Nat, NEW request \in Requests
      PROVE  answer(request, n) \in [status : Nat, len : Nat]
  <2>1. CASE IsValid(request, n)
    <3>1. request \in {"relative", "missing", "directory", "file", "huge_file"}
      BY <2>1 DEF IsValid, Requests
    <3>2. ServeFile(request) \in {BuildResponse(404, 1), BuildResponse(403, 1),
                                  BuildResponse(200, FileLen), BuildResponse(200, HugeLen),
                                  AssertionFails}
      BY <3>1 DEF ServeFile
    <3> QED BY <1>1, <2>1, <3>2
  <2>2. CASE ~IsValid(request, n)
    BY <1>1, <2>2
  <2> QED BY <2>1, <2>2
<1>3. ASSUME NEW n \in Nat PROVE HandleRequest(n) \subseteq [status : Nat, len : Nat]
  <2>1. HandleRequest(n) = {answer(request, n) : request \in Requests}
    BY DEF HandleRequest
  <2> HIDE DEF answer
  <2> QED BY <1>2, <2>1
<1> QED BY <1>1, <1>3

\* The response begins, or there is none.
LEMMA AnswerInv ==
  ASSUME IInv, pc = "recv",
         NEW responses \in SUBSET [status : Nat, len : Nat], Answer(responses)
  PROVE  IInv'
<1>1. PICK r \in responses :
        Abandon \/ Halt \/ Respond(r)
  BY DEF Answer
<1>2. CASE Abandon
  BY <1>2, AbandonInv
<1>3. CASE Halt
  <2>1. /\ pc' = "halted" /\ UNCHANGED <<conn, cur>> /\ UNCHANGED <<got, round, poll>>
        /\ UNCHANGED <<response, done, sawClosed>>
    BY <1>3 DEF Halt, recvVars, respondVars
  <2>2. ServerTypes'
    BY <2>1 DEF IInv, ServerTypes
  <2>3. Served(conn[cur])'
    BY <2>1 DEF IInv, SlotsAre, Served
  <2>4. SlotsAre'
    BY <2>1, <2>3 DEF IInv, SlotsAre
  <2> QED BY <2>2, <2>4 DEF IInv
<1>4. CASE Respond(r)
  <2> DEFINE s == [conn[cur] EXCEPT !.len = r.len]
  <2>1. /\ cur \in Conns /\ conn[cur] \in Slot /\ SlotIs(conn[cur])
        /\ Served(conn[cur])
    BY CurrentIs
  <2>2. /\ conn' = [conn EXCEPT ![cur] = s] /\ pc' = "respond" /\ response' = r
        /\ got' = 0 /\ round' = 0 /\ poll' = 0 /\ cur' = cur /\ done' = done
        /\ sawClosed' = sawClosed /\ r.len \in Nat
    BY <1>4 DEF Respond
  <2>3. conn[cur].out = 0 /\ conn[cur].accepted /\ ~conn[cur].sendFailed
        /\ conn[cur].state \in Open
    BY <2>1 DEF Served
  <2>4. /\ s \in Slot /\ s.len = r.len /\ s.out = 0 /\ s.accepted
        /\ ~s.sendFailed /\ s.state = conn[cur].state
        /\ s.flight = conn[cur].flight
    BY <2>1, <2>2, <2>3 DEF Slot
  <2>5. SlotIs(s)
    <3>1. s.state # "fin_wait"
      BY <2>3, <2>4 DEF Open
    <3>2. s.flight <= s.out
      BY <2>1, <2>3, <2>4 DEF SlotIs
    <3> QED BY <2>2, <2>4, <3>1, <3>2 DEF SlotIs
  <2> HIDE DEF s
  <2>6. conn'[cur] = s
    BY <2>1, <2>2, <2>4, <2>5, OneSlot
  <2>7. done = 0 /\ ~sawClosed
    BY DEF IInv, ServerTypes, NoResponse
  <2>8. Served(conn[cur])'
    BY <2>2, <2>3, <2>4, <2>6, <2>7 DEF Served
  <2>9. ServerTypes'
    <3>1. /\ 0 \in 0 .. Cap /\ 0 < RequestRetries /\ 0 < RecvRetries
          /\ 0 \in 0 .. r.len
      BY <2>2, Lengths
    <3> QED BY <2>1, <2>2, <2>7, <3>1 DEF ServerTypes, IInv
  <2> QED BY <2>2, <2>4, <2>5, <2>8, <2>9, ServingGoesOn
<1> QED BY <1>1, <1>2, <1>3, <1>4

\* The loops of web_recv_http_request.
LEMMA ReceivingInv ==
  ASSUME IInv, PollAgain \/ NothingMore \/ ReceivePart \/ ReceiveRest \/ ReceiveTooMuch
  PROVE  IInv'
<1>1. pc = "recv"
  BY DEF PollAgain, NothingMore, ReceivePart, ReceiveRest, ReceiveTooMuch
<1>2. /\ cur \in Conns /\ conn[cur] \in Slot /\ SlotIs(conn[cur]) /\ Served(conn[cur])
      /\ conn[cur].unread \in Nat /\ got \in 0 .. Cap /\ got \in Nat
      /\ round \in Nat /\ poll \in Nat /\ NewlyGot \in Nat
  BY <1>1, CurrentIs, Lengths DEF IInv, ServerTypes, NewlyGot
<1>3. HandleRequest(got) \in SUBSET [status : Nat, len : Nat]
  BY <1>2, ResponsesAre
<1>4. HandleRequest(NewlyGot) \in SUBSET [status : Nat, len : Nat]
  BY <1>2, ResponsesAre
<1>5. {BuildResponse(507, 1)} \in SUBSET [status : Nat, len : Nat]
  BY ResponsesAre
<1>6. CASE PollAgain
  <2>1. /\ poll' = poll + 1 /\ poll + 1 < RecvRetries
        /\ UNCHANGED <<conn, pc, cur, got, round>>
        /\ UNCHANGED <<response, done, sawClosed>>
    BY <1>6 DEF PollAgain, respondVars
  <2>2. ServerTypes'
    BY <1>2, <2>1 DEF IInv, ServerTypes
  <2>3. SlotsAre'
    BY <2>1 DEF IInv, SlotsAre, Served
  <2> QED BY <2>2, <2>3 DEF IInv
<1>7. CASE NothingMore
  BY <1>1, <1>3, <1>7, AbandonInv, AnswerInv DEF NothingMore
<1>8. CASE ReceivePart
  <2>1. CASE Abandon
    BY <1>1, <2>1, AbandonInv
  <2>2. CASE ~Abandon
    <3> DEFINE s == [conn[cur] EXCEPT !.unread = 0]
    <3>1. /\ conn' = [conn EXCEPT ![cur] = s] /\ round + 1 < RequestRetries
          /\ got' = NewlyGot /\ NewlyGot <= Cap /\ round' = round + 1 /\ poll' = 0
          /\ pc' = pc /\ cur' = cur /\ UNCHANGED <<response, done, sawClosed>>
      BY <1>8, <2>2 DEF ReceivePart, respondVars
    <3>2. /\ s \in Slot /\ s.len = conn[cur].len /\ s.out = conn[cur].out
          /\ s.accepted = conn[cur].accepted /\ s.state = conn[cur].state
          /\ s.sendFailed = conn[cur].sendFailed /\ s.flight = conn[cur].flight
      BY <1>2, Lengths DEF Slot
    <3>3. SlotIs(s)
      BY <1>2, <3>2 DEF SlotIs
    <3> HIDE DEF s
    <3>4. conn'[cur] = s
      BY <1>2, <3>1, <3>2, <3>3, OneSlot
    <3>5. Served(conn[cur])'
      BY <1>2, <3>1, <3>2, <3>4 DEF Served
    <3>6. ServerTypes'
      BY <1>2, <3>1, Lengths DEF IInv, ServerTypes
    <3> QED BY <1>1, <3>1, <3>2, <3>3, <3>5, <3>6, ServingGoesOn
  <2> QED BY <2>1, <2>2
<1>9. CASE ReceiveRest
  BY <1>1, <1>4, <1>9, AnswerInv DEF ReceiveRest
<1>10. CASE ReceiveTooMuch
  BY <1>1, <1>5, <1>10, AnswerInv DEF ReceiveTooMuch
<1> QED BY <1>6, <1>7, <1>8, <1>9, <1>10

\* What tcp_conn_send may move at most.
LEMMA PendingIs ==
  ASSUME IInv, pc = "respond"
  PROVE  /\ Pending \in Nat /\ Pending <= response.len - done
         /\ done \in Nat /\ response.len \in Nat /\ done <= response.len
<1>1. WindowAvail(conn[cur]) \in Nat
  <2>1. /\ conn[cur].window \in Nat /\ conn[cur].flight \in Nat
        /\ MaxResponse \in Nat
    BY CurrentIs, Lengths
  <2> QED BY <2>1 DEF WindowAvail
<1>2. response.len \in Nat /\ done \in Nat /\ done <= response.len
  BY DEF IInv, ServerTypes
<1> QED BY <1>1, <1>2 DEF Pending, Smaller

\* What tcp_conn_send has moved, and what is left of the window.
LEMMA AfterSendIs ==
  ASSUME IInv, pc = "respond", NEW n \in 0 .. Pending
  PROVE  /\ Pending \in Nat /\ done + n \in 0 .. response.len
         /\ AfterSend(n) \in Slot /\ SlotIs(AfterSend(n))
         /\ AfterSend(n).out = done + n /\ AfterSend(n).len = response.len
         /\ AfterSend(n).state = conn[cur].state /\ AfterSend(n).state \in Open
         /\ AfterSend(n).accepted /\ ~AfterSend(n).sendFailed
<1>1. /\ conn[cur] \in Slot /\ SlotIs(conn[cur]) /\ Served(conn[cur])
      /\ conn[cur].flight \in Nat /\ conn[cur].flight <= conn[cur].out
  BY CurrentIs DEF SlotIs
<1>2. /\ conn[cur].accepted /\ conn[cur].state \in Open /\ ~conn[cur].sendFailed
      /\ conn[cur].len = response.len /\ conn[cur].out = done
  BY <1>1 DEF Served
<1>3. done \in 0 .. response.len /\ response.len \in Nat
  BY <1>1, <1>2 DEF IInv, ServerTypes
<1>4. Pending \in Nat /\ Pending <= response.len - done
  BY PendingIs
<1>5. /\ done + n \in 0 .. response.len /\ done + n \in Nat
      /\ conn[cur].flight + n \in Nat /\ conn[cur].flight + n <= done + n
  BY <1>1, <1>2, <1>3, <1>4
<1>6. AfterSend(n) = [conn[cur] EXCEPT !.out = done + n, !.flight = conn[cur].flight + n]
  BY <1>2 DEF AfterSend
<1>7. /\ AfterSend(n) \in Slot /\ AfterSend(n).out = done + n
      /\ AfterSend(n).len = response.len /\ AfterSend(n).state = conn[cur].state
      /\ AfterSend(n).accepted /\ ~AfterSend(n).sendFailed
      /\ AfterSend(n).flight = conn[cur].flight + n
  BY <1>1, <1>2, <1>5, <1>6 DEF Slot
<1>8. SlotIs(AfterSend(n))
  <2>1. AfterSend(n).state # "fin_wait"
    BY <1>2, <1>7 DEF Open
  <2> QED BY <1>5, <1>7, <2>1 DEF SlotIs
<1> QED BY <1>2, <1>4, <1>5, <1>7, <1>8

\* The loop of web_respond_close.
LEMMA RespondingInv ==
  ASSUME IInv, Send \/ SendFails \/ PeerHasClosed
  PROVE  IInv'
<1>1. pc = "respond"
  BY DEF Send, SendFails, PeerHasClosed
<1>2. /\ cur \in Conns /\ conn[cur] \in Slot /\ SlotIs(conn[cur]) /\ Served(conn[cur])
  BY <1>1, CurrentIs
<1>3. /\ done \in Nat /\ response.len \in Nat /\ done <= response.len
      /\ Pending \in Nat
  BY <1>1, PendingIs
<1>4. ASSUME NEW s \in Slot, SlotIs(s), s.state \in Open,
             s.state = "established" => s.out = s.len \/ s.sendFailed,
             conn' = [conn EXCEPT ![cur] = Ended(s)], Return
      PROVE  IInv'
  <2>1. /\ Ended(s) \in Slot /\ SlotIs(Ended(s)) /\ Ended(s).state \notin Open
    BY <1>4, ClosedIs
  <2>2. NotServed(Ended(s))
    BY <2>1 DEF NotServed
  <2> QED BY <1>1, <1>4, <2>1, <2>2, ServingEnds
<1>5. CASE Send
  <2> DEFINE s == AfterSend(Pending)
  <2>1. /\ Pending \in Nat /\ done + Pending \in 0 .. response.len
        /\ s \in Slot /\ SlotIs(s) /\ s.out = done + Pending /\ s.len = response.len
        /\ s.state = conn[cur].state /\ s.state \in Open
        /\ s.accepted /\ ~s.sendFailed
    <3>1. Pending \in 0 .. Pending
      BY <1>3
    <3> QED BY <1>1, <3>1, AfterSendIs
  <2>2. CASE done + Pending >= response.len
    <3>1. conn' = [conn EXCEPT ![cur] = Ended(s)] /\ Return
      BY <1>5, <2>2 DEF Send
    <3>2. s.out = s.len
      BY <1>3, <2>1, <2>2
    <3> HIDE DEF s
    <3> QED BY <1>4, <2>1, <3>1, <3>2
  <2>3. CASE ~(done + Pending >= response.len)
    <3>1. /\ conn' = [conn EXCEPT ![cur] = s] /\ done' = done + Pending
          /\ sawClosed' = ClosedByPeer(cur) /\ pc' = pc /\ cur' = cur
          /\ UNCHANGED <<got, round, poll>> /\ response' = response
      BY <1>5, <2>3 DEF Send, recvVars
    <3> HIDE DEF s
    <3>2. conn'[cur] = s
      BY <1>2, <2>1, <3>1, OneSlot
    <3>3. sawClosed' => s.state # "established"
      BY <2>1, <3>1 DEF ClosedByPeer
    <3>4. Served(conn[cur])'
      BY <1>1, <2>1, <3>1, <3>2, <3>3 DEF Served
    <3>5. ServerTypes'
      BY <1>1, <2>1, <3>1 DEF IInv, ServerTypes, ClosedByPeer
    <3> QED BY <1>1, <2>1, <3>1, <3>4, <3>5, ServingGoesOn
  <2> QED BY <2>2, <2>3
<1>6. CASE SendFails
  <2>1. PICK n \in 0 .. Pending - 1 :
          LET failed == [AfterSend(n) EXCEPT !.sendFailed = TRUE] IN
          conn' = [conn EXCEPT ![cur] =
                     IF response.status = 507 THEN Closed(failed) ELSE failed]
    BY <1>6 DEF SendFails
  <2> DEFINE s == [AfterSend(n) EXCEPT !.sendFailed = TRUE]
  <2>2. /\ conn' = [conn EXCEPT ![cur] = IF response.status = 507 THEN Closed(s) ELSE s]
        /\ Return
    BY <1>6, <2>1 DEF SendFails
  <2>3. n \in 0 .. Pending
    BY <1>3
  <2>4. /\ AfterSend(n) \in Slot /\ SlotIs(AfterSend(n)) /\ AfterSend(n).state \in Open
        /\ AfterSend(n).accepted
    BY <1>1, <2>3, AfterSendIs
  <2>5. /\ s \in Slot /\ s.sendFailed /\ s.accepted /\ s.state = AfterSend(n).state
        /\ s.out = AfterSend(n).out /\ s.len = AfterSend(n).len
        /\ s.flight = AfterSend(n).flight
    BY <2>4 DEF Slot
  <2>6. SlotIs(s) /\ NotServed(s)
    BY <2>4, <2>5 DEF SlotIs, NotServed
  <2> HIDE DEF s
  <2>7. Closed(s) \in Slot /\ SlotIs(Closed(s)) /\ NotServed(Closed(s))
    BY <2>4, <2>5, <2>6, ClosedIs DEF NotServed
  <2>8. CASE response.status = 507
    BY <1>1, <2>2, <2>7, <2>8, ServingEnds
  <2>9. CASE response.status # 507
    BY <1>1, <2>2, <2>5, <2>6, <2>9, ServingEnds
  <2> QED BY <2>8, <2>9
<1>7. CASE PeerHasClosed
  <2>1. sawClosed /\ conn' = [conn EXCEPT ![cur] = Ended(conn[cur])] /\ Return
    BY <1>7 DEF PeerHasClosed
  <2>2. conn[cur].state \in Open /\ conn[cur].state # "established"
    BY <1>2, <2>1 DEF Served
  <2> QED BY <1>2, <1>4, <2>1, <2>2
<1> QED BY <1>5, <1>6, <1>7

\* The peers' steps.
LEMMA PeersInv ==
  ASSUME IInv, NEW c \in Conns,
         Peer(c)
  PROVE  IInv'
<1>1. /\ conn[c] \in Slot /\ SlotIs(conn[c])
      /\ pc # "accept" /\ c = cur => Served(conn[c])
      /\ pc = "accept" \/ c # cur => NotServed(conn[c])
  BY DEF IInv, SlotsAre
<1>2. UNCHANGED serverVars
  BY DEF Peer, PeerOpens, PeerSends, PeerAcks, AcksStop, LateSegment, PeerShuts,
         ConnectionEnds
<1>3. CASE PeerOpens(c) \/ ConnectionEnds(c)
  <2>1. PICK st \in {"free", "established"} : conn' = [conn EXCEPT ![c] = Fresh(st)]
    BY <1>3 DEF PeerOpens, ConnectionEnds, FreeSlot
  <2>2. ~(pc # "accept" /\ c = cur)
    BY <1>1, <1>3 DEF PeerOpens, ConnectionEnds, Served, Open
  <2>3. Fresh(st) \in Slot /\ SlotIs(Fresh(st)) /\ NotServed(Fresh(st))
    BY FreshIs
  <2> QED BY <1>2, <2>1, <2>2, <2>3, PeerStep
<1>4. CASE PeerSends(c) \/ PeerAcks(c) \/ AcksStop(c) \/ LateSegment(c)
  <2>1. PICK s \in Slot :
          /\ conn' = [conn EXCEPT ![c] = s]
          /\ s.len = conn[c].len /\ s.out = conn[c].out
          /\ s.accepted = conn[c].accepted /\ s.state = conn[c].state
          /\ s.sendFailed = conn[c].sendFailed
          /\ s.flight \in Nat /\ s.flight <= conn[c].flight
    <3>1. CASE PeerSends(c)
      <4> DEFINE s == [conn[c] EXCEPT !.unread = conn[c].unread + 1]
      <4>1. conn' = [conn EXCEPT ![c] = s] /\ conn[c].unread < RecvRoom
        BY <3>1 DEF PeerSends
      <4>2. s \in Slot
        BY <1>1, <4>1, Lengths DEF Slot
      <4>3. /\ s.len = conn[c].len /\ s.out = conn[c].out
            /\ s.accepted = conn[c].accepted /\ s.state = conn[c].state
            /\ s.sendFailed = conn[c].sendFailed /\ s.flight = conn[c].flight
        BY <1>1 DEF Slot
      <4> HIDE DEF s
      <4>4. s.flight \in Nat /\ s.flight <= conn[c].flight
        BY <1>1, <4>3 DEF Slot
      <4> QED BY <4>1, <4>2, <4>3, <4>4, Zenon
    <3>2. CASE PeerAcks(c)
      <4>1. PICK f \in 0 .. conn[c].flight :
              conn' = [conn EXCEPT ![c].flight = f, ![c].window = Window]
        BY <3>2 DEF PeerAcks
      <4> DEFINE s == [conn[c] EXCEPT !.flight = f, !.window = Window]
      <4>2. conn' = [conn EXCEPT ![c] = s]
        BY <1>1, <4>1 DEF IInv, SlotsAre
      <4>3. f \in Nat /\ f <= conn[c].flight /\ Window \in 0 .. Window
        BY <1>1, Lengths DEF Slot
      <4>4. s \in Slot
        BY <1>1, <4>3 DEF Slot
      <4>5. /\ s.len = conn[c].len /\ s.out = conn[c].out
            /\ s.accepted = conn[c].accepted /\ s.state = conn[c].state
            /\ s.sendFailed = conn[c].sendFailed /\ s.flight = f
        BY <1>1 DEF Slot
      <4> HIDE DEF s
      <4> QED BY <4>2, <4>3, <4>4, <4>5
    <3>3. CASE AcksStop(c)
      <4> DEFINE s == [conn[c] EXCEPT !.stalled = TRUE]
      <4>1. conn' = [conn EXCEPT ![c] = s]
        BY <3>3 DEF AcksStop
      <4>2. s \in Slot
        BY <1>1 DEF Slot
      <4>3. /\ s.len = conn[c].len /\ s.out = conn[c].out
            /\ s.accepted = conn[c].accepted /\ s.state = conn[c].state
            /\ s.sendFailed = conn[c].sendFailed /\ s.flight = conn[c].flight
        BY <1>1 DEF Slot
      <4> HIDE DEF s
      <4>4. s.flight \in Nat /\ s.flight <= conn[c].flight
        BY <1>1, <4>3 DEF Slot
      <4> QED BY <4>1, <4>2, <4>3, <4>4, Zenon
    <3>4. CASE LateSegment(c)
      <4>1. PICK w \in 0 .. conn[c].window - 1 :
              conn' = [conn EXCEPT ![c].window = w, ![c].late = TRUE]
        BY <3>4 DEF LateSegment
      <4> DEFINE s == [conn[c] EXCEPT !.window = w, !.late = TRUE]
      <4>2. conn' = [conn EXCEPT ![c] = s]
        BY <1>1, <4>1 DEF IInv, SlotsAre
      <4>3. w \in 0 .. Window
        BY <1>1, Lengths DEF Slot
      <4>4. s \in Slot
        BY <1>1, <4>3 DEF Slot
      <4>5. /\ s.len = conn[c].len /\ s.out = conn[c].out
            /\ s.accepted = conn[c].accepted /\ s.state = conn[c].state
            /\ s.sendFailed = conn[c].sendFailed /\ s.flight = conn[c].flight
        BY <1>1 DEF Slot
      <4> HIDE DEF s
      <4>6. s.flight \in Nat /\ s.flight <= conn[c].flight
        BY <1>1, <4>5 DEF Slot
      <4> QED BY <4>2, <4>4, <4>5, <4>6, Zenon
    <3> QED BY <1>4, <3>1, <3>2, <3>3, <3>4
  <2>2. conn[c].flight \in Nat /\ conn[c].out \in Nat /\ conn[c].flight <= conn[c].out
    BY <1>1 DEF Slot, SlotIs
  <2>3. /\ SlotIs(s) /\ (Served(conn[c]) => Served(s))
        /\ NotServed(conn[c]) => NotServed(s)
    BY <1>1, <2>1, <2>2 DEF SlotIs, Served, NotServed
  <2> QED BY <1>1, <1>2, <2>1, <2>3, PeerStep
<1>5. CASE PeerShuts(c)
  <2>1. PICK st \in {"close_wait", "reset"} :
          conn' = [conn EXCEPT ![c] = [conn[c] EXCEPT !.state = st]]
    BY <1>5 DEF PeerShuts
  <2>2. conn[c].state = "established"
    BY <1>5 DEF PeerShuts
  <2> DEFINE s == [conn[c] EXCEPT !.state = st]
  <2>3. /\ s \in Slot /\ s.len = conn[c].len /\ s.out = conn[c].out
        /\ s.accepted = conn[c].accepted /\ s.state = st
        /\ s.sendFailed = conn[c].sendFailed /\ s.flight = conn[c].flight
    BY <1>1 DEF Slot
  <2>4. /\ SlotIs(s) /\ (Served(conn[c]) => Served(s))
        /\ NotServed(conn[c]) => NotServed(s)
    BY <1>1, <2>2, <2>3 DEF SlotIs, Served, NotServed, Open
  <2>5. conn' = [conn EXCEPT ![c] = s]
    BY <2>1
  <2> HIDE DEF s
  <2> QED BY <1>1, <1>2, <2>3, <2>4, <2>5, PeerStep
<1> QED BY <1>3, <1>4, <1>5 DEF Peer

LEMMA NextInv == IInv /\ [Next]_vars => IInv'
<1> SUFFICES ASSUME IInv, [Next]_vars PROVE IInv'
  OBVIOUS
<1>1. ASSUME NEW c \in Conns, Accept(c) PROVE IInv'
  BY <1>1, AcceptInv
<1>2. CASE PollAgain \/ NothingMore \/ ReceivePart \/ ReceiveRest \/ ReceiveTooMuch
  BY <1>2, ReceivingInv
<1>3. CASE Send \/ SendFails \/ PeerHasClosed
  BY <1>3, RespondingInv
<1>4. ASSUME NEW c \in Conns, Peer(c) PROVE IInv'
  BY <1>4, PeersInv
<1>5. CASE UNCHANGED vars
  <2>1. /\ UNCHANGED <<conn, pc, cur>> /\ UNCHANGED <<got, round, poll>>
        /\ UNCHANGED <<response, done, sawClosed>>
    BY <1>5 DEF vars, recvVars, respondVars
  <2>2. ServerTypes' /\ SlotsAre'
    BY <2>1 DEF IInv, ServerTypes, SlotsAre, Served
  <2> QED BY <2>2 DEF IInv
<1> QED BY <1>1, <1>2, <1>3, <1>4, <1>5 DEF Next, Serve

LEMMA Invariance == Spec => []IInv
BY InitInv, NextInv, PTL DEF Spec

-----------------------------------------------------------------------------
(***************************************************************************)
(* What the invariant says.                                                *)
(***************************************************************************)
\* Until web_handle_conn is done with it, the connection it was given is open
\* and stays its own, and only a send error loses a connection.
THEOREM ServerAlwaysConsistent == Spec => []ServerConsistent
<1>1. IInv => ServerConsistent
  <2> SUFFICES ASSUME IInv PROVE ServerConsistent
    OBVIOUS
  <2>1. ASSUME NEW c \in Conns
        PROVE  /\ conn[c].state \in {"free", "fin_wait", "last_ack"} \cup Open
               /\ conn[c].window \in 0 .. Window /\ conn[c].unread \in 0 .. RecvRoom
               /\ conn[c].out \in 0 .. conn[c].len
               /\ conn[c].flight \in 0 .. conn[c].out
    <3>1. conn[c] \in Slot /\ SlotIs(conn[c])
      BY DEF IInv, SlotsAre
    <3> QED BY <3>1 DEF Slot, SlotIs, Open
  <2>2. TypeOK
    BY <2>1 DEF IInv, ServerTypes, TypeOK
  <2>3. ServedIsOpen /\ LostOnlyOnSendError
    BY DEF IInv, SlotsAre, Served, NotServed, ServedIsOpen, LostOnlyOnSendError
  <2> QED BY <2>2, <2>3 DEF ServerConsistent
<1> QED BY <1>1, Invariance, PTL

\* The server closes a connection whose peer has not closed only behind the
\* last byte of the response (web_respond_close).
THEOREM ResponseAlwaysWhole == Spec => []WholeResponse
<1>1. IInv => WholeResponse
  BY DEF IInv, SlotsAre, SlotIs, WholeResponse
<1> QED BY <1>1, Invariance, PTL
=============================================================================
