-------------------------- MODULE TcpStreamProofs --------------------------
(***************************************************************************)
(* The data of a TCP connection is in order and acknowledged correctly,    *)
(* and its counters are those of the wire, for every size of buffers and   *)
(* segments, every length of the streams and every initial sequence        *)
(* numbers, whatever the network does.                                     *)
(***************************************************************************)
EXTENDS TcpStreamProps, SequenceTheorems, TLAPS

\* Bytes of the peer's stream that are stored, and of ours with its FIN.
NReceived == Len(delivered) + Len(recvBuf)
FinByte == IF finSent THEN 1 ELSE 0

\* What was read, and then what is in the buffer, byte for byte.
BytesInOrder ==
  /\ NReceived <= PeerLen
  /\ \A i \in 1 .. Len(delivered) : delivered[i] = i
  /\ \A i \in 1 .. Len(recvBuf) : recvBuf[i] = Len(delivered) + i

\* recv_next is the number of the first byte that is not stored, or follows
\* the FIN, which no segment is looked at after.
RecvNextIs ==
  \/ recvNext = PeerSeq(NReceived)
  \/ /\ recvNext = PeerSeq(PeerLen + 1) /\ NReceived = PeerLen
     /\ state \notin {"SYN_RCVD", "ESTABLISHED", "FIN_WAIT_1", "FIN_WAIT_2"}

\* Nothing is acknowledged, or reported as sent, that was not sent, and the
\* FIN is sent by tcp_conn_close only.
SentIsAcked ==
  /\ reported <= sent
  /\ acked <= sent + FinByte
  /\ \A o \in offers : o.ack <= sent + FinByte
  /\ finSent => ~Held /\ state # "SYN_RCVD"

\* u is the newest of the acknowledgments up to a, as seq_gt sees them.
Newest(u, a) ==
  IF OurSeq(a) > iss THEN u = OurSeq(a)
  ELSE u >= iss /\ \E n \in -1 .. a - 1 : u = OurSeq(n)

UnackIs ==
  /\ state = "SYN_RCVD" => sendUnack = iss /\ acked = 0
  /\ state \notin {"SYN_RCVD", "CLOSED"} => Newest(sendUnack, acked)

\* With a bytes acknowledged and a window of w, what was sent is within the
\* window, and that is one the peer has offered.
Within(a, w) == sent <= a + w /\ \E o \in offers : a + w <= o.ack + o.wnd

WindowIs == late \/ Wrapped \/ Within(acked, sendWindow)

IInv ==
  /\ TypeOK
  /\ BytesInOrder
  /\ RecvNextIs
  /\ SendNextCountsSent
  /\ SentIsAcked
  /\ UnackIs
  /\ WindowIs

\* The parts of TypeOK that the receive and the send side each keep.
RecvTypes ==
  /\ recvNext \in 0 .. SeqMod - 1
  /\ recvBuf \in Seq(1 .. PeerLen) /\ Len(recvBuf) < Cap
  /\ delivered \in Seq(1 .. PeerLen)

PeerTypes ==
  /\ sendUnack \in 0 .. SeqMod - 1 /\ sendWindow \in Windows \cup {0}
  /\ acked \in 0 .. MaxSent + 1 /\ late \in BOOLEAN

-----------------------------------------------------------------------------
\* Remainders.
LEMMA ModRange ==
  ASSUME NEW N \in Nat \ {0}, NEW a \in Int
  PROVE  a % N \in 0 .. N - 1
OBVIOUS

\* The remainder differs from the number by a multiple of N.
LEMMA Quotient ==
  ASSUME NEW N \in Nat \ {0}, NEW a \in Int
  PROVE  \E q \in Int : a = N * q + (a % N)
<1>1. a \div N \in Int /\ a = N * (a \div N) + (a % N)
  OBVIOUS
<1> QED BY <1>1

\* Only 0 is a multiple of N that is nearer to 0 than N.
LEMMA MultipleIsFar ==
  ASSUME NEW N \in Nat \ {0}, NEW q \in Int, N * q < N, -N < N * q
  PROVE  q = 0
<1>1. CASE q >= 1
  <2>1. N * q >= N
    BY <1>1
  <2> QED BY <2>1
<1>2. CASE q <= -1
  <2>1. N * q <= -N
    BY <1>2
  <2> QED BY <2>1
<1> QED BY <1>1, <1>2

\* Numbers less than N apart are told apart by their remainders.
LEMMA ModUnique ==
  ASSUME NEW N \in Nat \ {0}, NEW a \in Int, NEW b \in Int, a % N = b % N,
         a - b < N, b - a < N
  PROVE  a = b
<1>1. PICK p \in Int : a = N * p + (a % N)
  BY Quotient
<1>2. PICK q \in Int : b = N * q + (b % N)
  BY Quotient
<1>3. a - b = N * (p - q)
  <2>1. N * (p - q) = N * p - N * q
    OBVIOUS
  <2>2. a % N \in Int /\ N * p \in Int /\ N * q \in Int
    OBVIOUS
  <2> QED BY <1>1, <1>2, <2>1, <2>2
<1>4. p - q = 0
  BY <1>3, MultipleIsFar
<1> QED BY <1>1, <1>2, <1>4

\* Counting on from a remainder is counting on from the number.
LEMMA ModSum ==
  ASSUME NEW N \in Nat \ {0}, NEW a \in Int, NEW b \in Int
  PROVE  ((a % N) + b) % N = (a + b) % N
<1> DEFINE c == (a % N) + b
           d == a + b
<1>1. PICK p \in Int : a = N * p + (a % N)
  BY Quotient
<1>2. a % N \in Int /\ c \in Int /\ d \in Int /\ N * p \in Int
  OBVIOUS
<1>3. d = N * p + c
  BY <1>1, <1>2
<1> HIDE DEF c, d
<1>4. PICK q \in Int : c = N * q + (c % N)
  BY <1>2, Quotient
<1>5. PICK r \in Int : d = N * r + (d % N)
  BY <1>2, Quotient
<1>6. N * (r - p - q) = (c % N) - (d % N)
  <2>1. N * (r - p - q) = N * r - N * p - N * q
    OBVIOUS
  <2>2. c % N \in Int /\ d % N \in Int /\ N * p \in Int /\ N * q \in Int /\ N * r \in Int
    BY <1>2
  <2> QED BY <1>2, <1>3, <1>4, <1>5, <2>1, <2>2
<1>7. c % N \in 0 .. N - 1 /\ d % N \in 0 .. N - 1
  BY <1>2, ModRange
<1>8. r - p - q = 0
  <2>1. r - p - q \in Int
    OBVIOUS
  <2>2. N * (r - p - q) < N /\ -N < N * (r - p - q)
    BY <1>6, <1>7
  <2> QED BY <2>1, <2>2, MultipleIsFar
<1>9. c % N = d % N
  BY <1>6, <1>7, <1>8
<1> QED BY <1>9 DEF c, d

\* Sequence numbers count modulo SeqMod, and tell the bytes of the peer apart.
LEMMA SeqModIs == SeqMod \in Nat \ {0} /\ Irs \in Nat
                    /\ PeerLen \in Nat /\ MaxSent \in Nat
BY SeqAssumption

LEMMA IssIs ==
  ASSUME iss \in Isses
  PROVE  iss \in 0 .. SeqMod - 1 /\ iss \in Nat
BY SeqAssumption

LEMMA WindowIsNat ==
  ASSUME NEW w \in Windows
  PROVE  w \in Nat /\ w < SeqMod
<1>1. w \in 0 .. SeqMod - 1
  BY WindowAssumption
<1> QED BY <1>1, SeqModIs

LEMMA PeerSeqsCount ==
  ASSUME NEW n \in Nat, NEW k \in Nat
  PROVE  /\ PeerSeq(n) \in 0 .. SeqMod - 1
         /\ (PeerSeq(n) + k) % SeqMod = PeerSeq(n + k)
<1>1. /\ SeqMod \in Nat \ {0} /\ Irs + 1 + n \in Int /\ k \in Int
      /\ Irs + 1 + n + k = Irs + 1 + (n + k)
  BY SeqModIs
<1>2. (PeerSeq(n) + k) % SeqMod = PeerSeq(n + k)
  BY <1>1, ModSum DEF PeerSeq
<1> QED BY <1>1, <1>2, ModRange DEF PeerSeq

LEMMA SeqsCount ==
  ASSUME iss \in Isses, NEW n \in Nat, NEW k \in Nat
  PROVE  /\ OurSeq(n) \in 0 .. SeqMod - 1
         /\ (OurSeq(n) + k) % SeqMod = OurSeq(n + k)
<1>1. /\ SeqMod \in Nat \ {0} /\ iss + 1 + n \in Int /\ k \in Int
      /\ iss + 1 + n + k = iss + 1 + (n + k)
  BY SeqModIs, IssIs
<1>2. (OurSeq(n) + k) % SeqMod = OurSeq(n + k)
  BY <1>1, ModSum DEF OurSeq
<1> QED BY <1>1, <1>2, ModRange DEF OurSeq

LEMMA PeerSeqUnique ==
  ASSUME NEW m \in 0 .. PeerLen, NEW n \in 0 .. PeerLen, PeerSeq(m) = PeerSeq(n)
  PROVE  m = n
<1> DEFINE a == Irs + 1 + m
           b == Irs + 1 + n
<1>1. /\ SeqMod \in Nat \ {0} /\ a \in Int /\ b \in Int
      /\ a - b < SeqMod /\ b - a < SeqMod
  BY SeqModIs, SeqAssumption
<1>2. a % SeqMod = b % SeqMod
  BY DEF PeerSeq
<1> HIDE DEF a, b
<1>3. a = b
  BY <1>1, <1>2, ModUnique
<1> QED BY <1>3, SeqModIs DEF a, b

\* One turn around the numbers.
LEMMA ModTurn ==
  ASSUME NEW N \in Nat \ {0}, NEW d \in 0 .. N - 1
  PROVE  d % N = d /\ (d + N) % N = d
<1> DEFINE c == d + N
<1>1. c \in Int
  OBVIOUS
<1>2. PICK q \in Int : c = N * q + (c % N)
  BY <1>1, Quotient
<1>3. c % N \in 0 .. N - 1
  BY <1>1, ModRange
<1>4. N * (q - 1) = d - (c % N)
  <2>1. N * (q - 1) = N * q - N /\ N * q \in Int
    OBVIOUS
  <2> QED BY <1>2, <1>3, <2>1
<1>5. q - 1 = 0
  <2>1. q - 1 \in Int /\ N * (q - 1) < N /\ -N < N * (q - 1)
    BY <1>3, <1>4
  <2> QED BY <2>1, MultipleIsFar
<1>6. c % N = d
  BY <1>3, <1>4, <1>5
<1> QED BY <1>6

\* Our numbers are in the order of the bytes up to the wrap-around, and those
\* behind it are below the initial one.
LEMMA OurSeqIs ==
  ASSUME iss \in Isses, NEW n \in -1 .. MaxSent + 1
  PROVE  \/ iss + 1 + n < SeqMod /\ OurSeq(n) = iss + 1 + n
         \/ /\ iss + 1 + n >= SeqMod /\ OurSeq(n) = iss + 1 + n - SeqMod
            /\ OurSeq(n) < iss /\ OurSeq(n) >= 0
<1>1. /\ iss \in 0 .. SeqMod - 1 /\ SeqMod \in Nat \ {0} /\ n + 1 < SeqMod
      /\ n \in Int /\ n >= -1
  BY IssIs, SeqModIs, SeqAssumption
<1>2. CASE iss + 1 + n < SeqMod
  <2>1. iss + 1 + n \in 0 .. SeqMod - 1
    BY <1>1, <1>2
  <2>2. (iss + 1 + n) % SeqMod = iss + 1 + n
    BY <1>1, <2>1, ModTurn
  <2> QED BY <1>2, <2>2 DEF OurSeq
<1>3. CASE iss + 1 + n >= SeqMod
  <2> DEFINE d == iss + 1 + n - SeqMod
  <2>1. d \in 0 .. SeqMod - 1 /\ iss + 1 + n = d + SeqMod /\ d < iss /\ d >= 0
    BY <1>1, <1>3
  <2> HIDE DEF d
  <2>2. (iss + 1 + n) % SeqMod = d
    BY <1>1, <2>1, ModTurn
  <2>3. OurSeq(n) = d
    BY <2>2 DEF OurSeq
  <2> USE DEF d
  <2> QED BY <1>3, <2>1, <2>3
<1> QED BY <1>1, <1>2, <1>3

\* The initial number is chosen once.
LEMMA OurSeqRigid ==
  ASSUME iss' = iss, NEW n
  PROVE  (OurSeq(n))' = OurSeq(n)
BY DEF OurSeq

-----------------------------------------------------------------------------
(***************************************************************************)
(* The receive side.                                                       *)
(***************************************************************************)
LEMMA SegmentIs ==
  ASSUME offers \subseteq Offer, NEW seg \in Segment
  PROVE  /\ seg.off \in Nat /\ seg.len \in Nat /\ seg.off + seg.len <= PeerLen
         /\ seg.fin \in BOOLEAN /\ seg.ack \in BOOLEAN /\ seg.rst \in BOOLEAN
         /\ seg.fin => seg.off + seg.len = PeerLen
         /\ seg.offer \in offers /\ seg.offer.ack \in 0 .. MaxSent + 1
         /\ seg.offer.wnd \in Windows
BY SeqModIs, SizeAssumption DEF Segment, Offer

\* What tcp_conn_update_recv_state does with a segment, as long as no FIN was
\* counted: it stores nothing, or the next bytes, and counts a FIN only
\* behind the last byte.
LEMMA UpdateRecvStateGood ==
  ASSUME RecvTypes, BytesInOrder, recvNext = PeerSeq(NReceived),
         offers \subseteq Offer, NEW seg \in Segment, UpdateRecvState(seg)
  PROVE  /\ RecvTypes' /\ BytesInOrder'
         /\ \/ recvNext' = PeerSeq(NReceived')
            \/ seg.fin /\ recvNext' = PeerSeq(PeerLen + 1) /\ NReceived' = PeerLen
<1> DEFINE n == NStored(seg)
           stored == [i \in 1 .. n |-> seg.off + i]
<1>1. /\ seg.off \in Nat /\ seg.len \in Nat /\ seg.off + seg.len <= PeerLen
      /\ seg.fin => seg.off + seg.len = PeerLen
  BY SegmentIs
<1>2. /\ recvBuf' = recvBuf \o stored /\ delivered' = delivered
      /\ recvNext' = (recvNext + n + (IF FinCounts(seg) THEN 1 ELSE 0)) % SeqMod
  BY DEF UpdateRecvState
<1>3. /\ Len(recvBuf) \in Nat /\ Len(delivered) \in Nat
      /\ NReceived \in 0 .. PeerLen /\ NReceived \in Nat /\ PeerLen \in Nat
  BY SeqModIs DEF RecvTypes, BytesInOrder, NReceived
<1>4. InOrder(seg) => seg.off = NReceived
  BY <1>1, <1>3, PeerSeqUnique DEF InOrder
<1>5. /\ n \in Nat /\ (n = 0 \/ n = seg.len)
      /\ n # 0 => seg.off = NReceived /\ n <= Cap - 1 - Len(recvBuf)
  BY <1>1, <1>4 DEF NStored, Space
<1> HIDE DEF n
<1>6. /\ stored \in Seq(1 .. PeerLen) /\ Len(stored) = n
      /\ \A i \in 1 .. n : stored[i] = seg.off + i
  BY <1>1, <1>3, <1>5
<1>7. /\ recvBuf' \in Seq(1 .. PeerLen) /\ Len(recvBuf') = Len(recvBuf) + n
      /\ \A i \in 1 .. Len(recvBuf) : recvBuf'[i] = recvBuf[i]
      /\ \A i \in Len(recvBuf) + 1 .. Len(recvBuf) + n :
           recvBuf'[i] = stored[i - Len(recvBuf)]
  BY <1>2, <1>3, <1>5, <1>6 DEF RecvTypes
<1>8. NReceived' = NReceived + n /\ NReceived' <= PeerLen
  BY <1>1, <1>2, <1>3, <1>5, <1>7 DEF NReceived
<1>9. BytesInOrder'
  <2>1. ASSUME NEW i \in 1 .. Len(recvBuf')
        PROVE  recvBuf'[i] = Len(delivered) + i
    <3>1. CASE i <= Len(recvBuf)
      BY <1>3, <1>7, <3>1 DEF BytesInOrder
    <3>2. CASE i > Len(recvBuf)
      <4>1. /\ i - Len(recvBuf) \in 1 .. n /\ n # 0
            /\ recvBuf'[i] = stored[i - Len(recvBuf)]
        BY <1>3, <1>5, <1>7, <3>2
      <4>2. stored[i - Len(recvBuf)] = NReceived + (i - Len(recvBuf))
        BY <1>5, <1>6, <4>1
      <4> QED BY <1>3, <1>7, <4>1, <4>2 DEF NReceived
    <3> QED BY <1>3, <1>7, <3>1, <3>2
  <2> QED BY <1>2, <1>8, <2>1 DEF BytesInOrder
<1>10. Len(recvBuf') < Cap
  BY <1>3, <1>5, <1>7, SizeAssumption DEF RecvTypes
<1>11. recvNext \in Int /\ recvNext = PeerSeq(NReceived)
  BY SeqModIs DEF RecvTypes
<1>12. CASE ~FinCounts(seg)
  <2>1. recvNext' = (PeerSeq(NReceived) + n) % SeqMod
    BY <1>2, <1>5, <1>12, <1>11
  <2>2. NReceived + n \in Nat /\ NReceived' = NReceived + n
    BY <1>3, <1>5, <1>8
  <2>3. recvNext' = PeerSeq(NReceived')
    BY <1>3, <1>5, <2>1, <2>2, PeerSeqsCount
  <2>4. recvNext' \in 0 .. SeqMod - 1
    BY <2>2, <2>3, PeerSeqsCount
  <2> QED BY <1>2, <1>7, <1>9, <1>10, <2>3, <2>4 DEF RecvTypes
<1>13. CASE FinCounts(seg)
  <2>1. recvNext' = (PeerSeq(NReceived) + (n + 1)) % SeqMod
    BY <1>2, <1>5, <1>13, <1>11
  <2>2. /\ n + 1 \in Nat /\ NReceived + (n + 1) \in Nat
        /\ NReceived' + 1 = NReceived + (n + 1)
    BY <1>3, <1>5, <1>8
  <2>3. recvNext' = PeerSeq(NReceived' + 1)
    BY <1>3, <2>1, <2>2, PeerSeqsCount
  <2>4. recvNext' \in 0 .. SeqMod - 1
    BY <2>2, <2>3, PeerSeqsCount
  <2>5. NReceived' = PeerLen
    <3>1. CASE seg.len > 0
      BY <1>1, <1>3, <1>5, <1>8, <1>13, <3>1 DEF FinCounts, n
    <3>2. CASE seg.len = 0
      <4>1. n = 0 /\ seg.off = PeerLen
        BY <1>1, <1>5, <1>13, <3>2 DEF FinCounts
      <4>2. PeerSeq(seg.off) = (recvNext + 0) % SeqMod
        BY <1>1, <1>13, <3>2, <4>1, PeerSeqsCount DEF FinCounts, n
      <4>3. PeerSeq(seg.off) = PeerSeq(NReceived + 0)
        BY <1>3, <4>2, PeerSeqsCount
      <4>4. seg.off = NReceived
        BY <1>1, <1>3, <4>3, PeerSeqUnique
      <4> QED BY <1>3, <1>8, <4>1, <4>4
    <3> QED BY <1>1, <3>1, <3>2
  <2>6. seg.fin
    BY <1>13 DEF FinCounts
  <2> QED BY <1>2, <1>7, <1>9, <1>10, <2>5, <2>6, <2>3, <2>4 DEF RecvTypes
<1> QED BY <1>12, <1>13

\* tcp_conn_recv moves bytes from the buffer to the user.
LEMMA RecvGood ==
  ASSUME RecvTypes, BytesInOrder, NEW n \in 1 .. Cap, Recv(n)
  PROVE  RecvTypes' /\ BytesInOrder' /\ NReceived' = NReceived
<1> DEFINE k == Lesser(n, Len(recvBuf))
           read == SubSeq(recvBuf, 1, k)
           rest == SubSeq(recvBuf, k + 1, Len(recvBuf))
<1>1. delivered' = delivered \o read /\ recvBuf' = rest /\ recvNext' = recvNext
  BY DEF Recv
<1>2. /\ recvBuf \in Seq(1 .. PeerLen) /\ delivered \in Seq(1 .. PeerLen)
      /\ Len(recvBuf) \in Nat /\ Len(delivered) \in Nat
      /\ \A i \in 1 .. Len(recvBuf) : recvBuf[i] \in 1 .. PeerLen
  <2>1. /\ recvBuf \in Seq(1 .. PeerLen) /\ delivered \in Seq(1 .. PeerLen)
        /\ Len(recvBuf) \in Nat /\ Len(delivered) \in Nat
    BY DEF RecvTypes
  <2> QED BY <2>1, ElementOfSeq
<1>3. k \in 0 .. Len(recvBuf)
  BY <1>2, SizeAssumption DEF Lesser
<1> HIDE DEF k
<1>4. /\ read \in Seq(1 .. PeerLen) /\ Len(read) = k
      /\ \A i \in 1 .. k : read[i] = recvBuf[i]
  <2>1. k \in Int /\ \A i \in 1 .. k : recvBuf[i] \in 1 .. PeerLen
    BY <1>2, <1>3
  <2> QED BY <1>2, <1>3, <2>1, SubSeqProperties
<1>5. /\ rest \in Seq(1 .. PeerLen) /\ Len(rest) = Len(recvBuf) - k
      /\ \A i \in 1 .. Len(recvBuf) - k : rest[i] = recvBuf[k + i]
  <2>1. /\ k + 1 \in Int /\ Len(recvBuf) \in Int
        /\ \A i \in k + 1 .. Len(recvBuf) : recvBuf[i] \in 1 .. PeerLen
    BY <1>2, <1>3
  <2>2. /\ rest \in Seq(1 .. PeerLen)
        /\ Len(rest) = IF k + 1 <= Len(recvBuf) THEN Len(recvBuf) - (k + 1) + 1 ELSE 0
        /\ \A i \in 1 .. Len(recvBuf) - (k + 1) + 1 : rest[i] = recvBuf[(k + 1) + i - 1]
    BY <1>2, <2>1, SubSeqProperties
  <2>3. \A i \in Int : (k + 1) + i - 1 = k + i
    BY <1>2, <1>3
  <2> QED BY <1>2, <1>3, <2>2, <2>3
<1> HIDE DEF read, rest
<1>6. /\ delivered' \in Seq(1 .. PeerLen) /\ Len(delivered') = Len(delivered) + k
      /\ \A i \in 1 .. Len(delivered) : delivered'[i] = delivered[i]
      /\ \A i \in Len(delivered) + 1 .. Len(delivered) + k :
           delivered'[i] = read[i - Len(delivered)]
  BY <1>1, <1>2, <1>3, <1>4
<1>7. NReceived' = NReceived
  BY <1>1, <1>2, <1>3, <1>5, <1>6 DEF NReceived
<1>8. ASSUME NEW i \in 1 .. Len(delivered')
      PROVE  delivered'[i] = i
  <2>1. CASE i <= Len(delivered)
    BY <1>2, <1>6, <2>1 DEF BytesInOrder
  <2>2. CASE i > Len(delivered)
    <3>1. /\ i - Len(delivered) \in 1 .. k
          /\ delivered'[i] = recvBuf[i - Len(delivered)]
      BY <1>2, <1>3, <1>4, <1>6, <2>2
    <3> QED BY <1>2, <1>3, <3>1 DEF BytesInOrder
  <2> QED BY <1>2, <1>6, <2>1, <2>2
<1>9. ASSUME NEW i \in 1 .. Len(recvBuf')
      PROVE  recvBuf'[i] = Len(delivered') + i
  <2>1. k + i \in 1 .. Len(recvBuf) /\ recvBuf'[i] = recvBuf[k + i]
    BY <1>1, <1>2, <1>3, <1>5
  <2> QED BY <1>1, <1>2, <1>3, <1>5, <1>6, <2>1 DEF BytesInOrder
<1>10. RecvTypes'
  BY <1>1, <1>2, <1>3, <1>5, <1>6, SizeAssumption DEF RecvTypes
<1> QED BY <1>7, <1>8, <1>9, <1>10 DEF BytesInOrder

-----------------------------------------------------------------------------
(***************************************************************************)
(* The send side.                                                          *)
(***************************************************************************)
\* An acknowledgment is taken over if it is newer than all before, for seq_gt.
LEMMA NewestGood ==
  ASSUME iss \in Isses, NEW a \in 0 .. MaxSent + 1, NEW c \in 0 .. MaxSent + 1,
         NEW u \in 0 .. SeqMod - 1, Newest(u, c) \/ (u = iss /\ c = 0)
  PROVE  Newest(IF OurSeq(a) - u > 0 THEN OurSeq(a) ELSE u, IF c > a THEN c ELSE a)
<1> DEFINE v == IF OurSeq(a) - u > 0 THEN OurSeq(a) ELSE u
           d == IF c > a THEN c ELSE a
           first == OurSeq(-1)
           sa == OurSeq(a)
           sc == OurSeq(c)
<1>1. /\ iss \in Nat /\ SeqMod \in Nat /\ MaxSent \in Nat /\ iss < SeqMod
      /\ a \in Nat /\ c \in Nat /\ u \in Nat
  BY IssIs, SeqModIs
<1>2. /\ \/ iss + 1 + a < SeqMod /\ sa = iss + 1 + a
         \/ iss + 1 + a >= SeqMod /\ sa < iss /\ sa = iss + 1 + a - SeqMod
      /\ \/ iss + 1 + c < SeqMod /\ sc = iss + 1 + c
         \/ iss + 1 + c >= SeqMod /\ sc < iss /\ sc = iss + 1 + c - SeqMod
  BY OurSeqIs
<1>3. first = iss
  <2>1. -1 \in -1 .. MaxSent + 1 /\ iss + 1 + (-1) = iss
    BY <1>1
  <2>2. OurSeq(-1) = iss + 1 + (-1)
    BY <1>1, <2>1, OurSeqIs
  <2> QED BY <2>1, <2>2
<1>4. /\ v = IF sa - u > 0 THEN sa ELSE u
      /\ sa \in Int /\ sc \in Int
  BY <1>1, <1>2
<1>5. CASE u = iss /\ c = 0
  <2>1. d = a
    BY <1>1, <1>5
  <2>2. CASE sa > iss
    <3>1. v = sa
      BY <1>1, <1>4, <1>5, <2>2
    <3> QED BY <2>1, <2>2, <3>1 DEF Newest
  <2>3. CASE sa <= iss
    <3>1. v = iss /\ -1 \in -1 .. a - 1
      BY <1>1, <1>4, <1>5, <2>3
    <3>2. \E n \in -1 .. a - 1 : v = OurSeq(n)
      BY <1>3, <3>1
    <3>3. v >= iss
      BY <1>1, <3>1
    <3> QED BY <1>4, <2>1, <2>3, <3>2, <3>3, <1>1 DEF Newest
  <2> QED BY <1>1, <1>4, <2>2, <2>3
<1>6. CASE Newest(u, c) /\ sc > iss
  <2>1. u = sc
    BY <1>6 DEF Newest
  <2>2. CASE a <= c
    <3>1. d = c /\ v = u
      BY <1>1, <1>2, <1>4, <1>6, <2>1, <2>2
    <3> QED BY <1>6, <3>1
  <2>3. CASE a > c /\ sa > iss
    <3>1. d = a /\ v = sa
      BY <1>1, <1>2, <1>4, <1>6, <2>1, <2>3
    <3> QED BY <2>3, <3>1 DEF Newest
  <2>4. CASE a > c /\ sa <= iss
    <3>1. d = a /\ v = u /\ v >= iss /\ c \in -1 .. a - 1
      BY <1>1, <1>2, <1>4, <1>6, <2>1, <2>4
    <3>2. \E n \in -1 .. a - 1 : v = OurSeq(n)
      BY <2>1, <3>1
    <3>3. ~(sa > iss)
      BY <1>1, <1>4, <2>4
    <3> QED BY <3>1, <3>2, <3>3 DEF Newest
  <2> QED BY <1>1, <1>4, <2>2, <2>3, <2>4
<1>7. CASE Newest(u, c) /\ sc <= iss
  <2>1. ~(sc > iss)
    BY <1>1, <1>4, <1>7
  <2>2. u >= iss /\ \E n \in -1 .. c - 1 : u = OurSeq(n)
    BY <1>7, <2>1 DEF Newest
  <2>3. CASE a <= c
    <3>1. d = c
      BY <1>1, <2>3
    <3>2. CASE sa > u
      <4>1. v = sa /\ v >= iss
        BY <1>1, <1>4, <2>2, <3>2
      <4>2. a \in -1 .. c - 1
        <5>1. a # c
          BY <1>1, <1>4, <1>7, <2>2, <3>2
        <5> QED BY <1>1, <2>3, <5>1
      <4>3. \E n \in -1 .. c - 1 : v = OurSeq(n)
        BY <4>1, <4>2
      <4> QED BY <2>1, <3>1, <4>1, <4>3 DEF Newest
    <3>3. CASE sa <= u
      <4>1. v = u
        BY <1>1, <1>4, <3>3
      <4> QED BY <1>7, <3>1, <4>1
    <3> QED BY <1>1, <1>4, <3>2, <3>3
  <2>4. CASE a > c
    <3>1. d = a /\ v = u /\ ~(sa > iss)
      BY <1>1, <1>2, <1>4, <1>7, <2>2, <2>4
    <3>2. PICK n \in -1 .. c - 1 : u = OurSeq(n)
      BY <2>2
    <3>3. n \in -1 .. a - 1
      BY <1>1, <2>4
    <3>4. \E m \in -1 .. a - 1 : v = OurSeq(m)
      BY <3>1, <3>2, <3>3
    <3> QED BY <2>2, <3>1, <3>4 DEF Newest
  <2> QED BY <1>1, <2>3, <2>4
<1> QED BY <1>1, <1>4, <1>5, <1>6, <1>7

\* tcp_conn_update_send_state: what the connection knows of the peer.
LEMMA UpdateSendStateGood ==
  ASSUME iss \in Isses, PeerTypes, SentIsAcked, offers \subseteq Offer,
         NEW seg \in Segment, UpdateSendState(seg), sent \in Nat, finSent \in BOOLEAN
  PROVE  /\ PeerTypes' /\ acked' <= sent + FinByte
         /\ Newest(sendUnack, acked) \/ (seg.ack /\ sendUnack = iss /\ acked = 0)
              => Newest(sendUnack', acked')
         /\ WindowIs => late' \/ OurSeq(acked') <= iss \/ Within(acked', sendWindow')
<1> DEFINE a == seg.offer.ack
           w == seg.offer.wnd
<1>1. /\ seg.ack \in BOOLEAN /\ seg.offer \in offers
      /\ a \in 0 .. MaxSent + 1 /\ w \in Windows /\ w \in Nat
  <2>1. w \in Windows
    BY SegmentIs
  <2> HIDE DEF w
  <2>2. w \in Nat
    BY <2>1, WindowIsNat
  <2> QED BY <2>1, <2>2, SegmentIs
<1>2. /\ sendUnack' = IF seg.ack /\ OurSeq(a) - sendUnack > 0 THEN OurSeq(a) ELSE sendUnack
      /\ sendWindow' = w
      /\ acked' = IF seg.ack THEN (IF acked > a THEN acked ELSE a) ELSE acked
      /\ late' = (\/ late \/ ~seg.ack \/ a < acked \/ a + w < acked + sendWindow)
  BY DEF UpdateSendState, SeqGt, Greater
<1>3. a <= sent + FinByte /\ acked <= sent + FinByte
  BY <1>1 DEF SentIsAcked
<1>4. a + w <= seg.offer.ack + seg.offer.wnd
  BY <1>1
<1> HIDE DEF a, w
<1>5. a \in Nat /\ acked \in 0 .. MaxSent + 1 /\ acked \in Nat
      /\ sendUnack \in 0 .. SeqMod - 1 /\ sendWindow \in Nat
  BY <1>1, SeqModIs, WindowAssumption DEF PeerTypes
<1>6. OurSeq(a) \in 0 .. SeqMod - 1
  BY <1>5, SeqsCount
<1>7. PeerTypes' /\ acked' <= sent + FinByte
  <2>1. sendUnack' \in 0 .. SeqMod - 1 /\ sendWindow' \in Windows \cup {0}
    BY <1>1, <1>2, <1>5, <1>6
  <2>2. acked' \in 0 .. MaxSent + 1 /\ acked' <= sent + FinByte
    BY <1>1, <1>2, <1>3, <1>5
  <2>3. late' \in BOOLEAN
    BY <1>2
  <2> QED BY <2>1, <2>2, <2>3 DEF PeerTypes
<1>8. ASSUME seg.ack, Newest(sendUnack, acked) \/ (sendUnack = iss /\ acked = 0)
      PROVE  Newest(sendUnack', acked')
  <2>1. /\ sendUnack' = IF OurSeq(a) - sendUnack > 0 THEN OurSeq(a) ELSE sendUnack
        /\ acked' = IF acked > a THEN acked ELSE a
    BY <1>2, <1>8
  <2>2. Newest(IF OurSeq(a) - sendUnack > 0 THEN OurSeq(a) ELSE sendUnack,
               IF acked > a THEN acked ELSE a)
    BY <1>1, <1>5, <1>8, NewestGood
  <2> QED BY <2>1, <2>2
<1>9. ASSUME ~seg.ack, Newest(sendUnack, acked)
      PROVE  Newest(sendUnack', acked')
  <2>1. sendUnack' = sendUnack /\ acked' = acked
    BY <1>2, <1>9
  <2> QED BY <1>9, <2>1
<1>10. ASSUME WindowIs, ~late', ~(OurSeq(acked') <= iss)
       PROVE  Within(acked', sendWindow')
  <2>1. ~late /\ a >= acked /\ a + w >= acked + sendWindow /\ seg.ack
    BY <1>1, <1>2, <1>5, <1>10
  <2>2. acked' = a /\ sendWindow' = w
    BY <1>2, <1>5, <2>1
  <2>3. ~Wrapped
    <3> DEFINE sa == OurSeq(a)
               sc == OurSeq(acked)
    <3>1. /\ \/ iss + 1 + a < SeqMod /\ sa = iss + 1 + a
             \/ iss + 1 + a >= SeqMod /\ sa < iss /\ sa >= 0
          /\ \/ iss + 1 + acked < SeqMod /\ sc = iss + 1 + acked
             \/ iss + 1 + acked >= SeqMod /\ sc < iss /\ sc >= 0
      BY <1>1, <1>5, OurSeqIs
    <3>2. ~(sa <= iss)
      BY <1>10, <2>2
    <3> HIDE DEF sa, sc
    <3>3. iss \in Nat /\ SeqMod \in Nat
      BY IssIs, SeqModIs
    <3>4. sa \in Int
      BY <1>6 DEF sa
    <3>5. ~(sc <= iss)
      BY <1>5, <2>1, <3>1, <3>2, <3>3, <3>4
    <3> QED BY <3>5 DEF Wrapped, sc
  <2>4. sent <= acked + sendWindow
    BY <1>10, <2>1, <2>3 DEF WindowIs, Within
  <2>5. sent <= a + w
    BY <1>1, <1>5, <2>1, <2>4
  <2> QED BY <1>1, <1>4, <2>2, <2>5 DEF Within
<1> QED BY <1>1, <1>7, <1>8, <1>9, <1>10

\* However many fragments go out, send_next counts them.
LEMMA TransmitGood ==
  ASSUME iss \in Isses, SendNextCountsSent, sent \in Nat, NEW n \in Nat, Transmit(n),
         finSent' = finSent, iss' = iss
  PROVE  SendNextCountsSent' /\ sendNext' \in 0 .. SeqMod - 1 /\ sent' = sent + n
<1> DEFINE m == sent + FinByte
<1>1. m \in Nat /\ m + n \in Nat
  BY DEF FinByte
<1>2. sent' = sent + n /\ sendNext' = (OurSeq(m) + n) % SeqMod
  BY DEF Transmit, SendNextCountsSent, FinByte
<1>3. sent' + (IF finSent' THEN 1 ELSE 0) = m + n
  BY <1>2 DEF FinByte
<1> HIDE DEF m
<1>4. sendNext' = OurSeq(m + n) /\ OurSeq(m + n) \in 0 .. SeqMod - 1
  BY <1>1, <1>2, SeqsCount
<1>5. (OurSeq(sent + (IF finSent THEN 1 ELSE 0)))'
        = OurSeq(sent' + (IF finSent' THEN 1 ELSE 0))
  BY DEF OurSeq
<1> QED BY <1>2, <1>3, <1>4, <1>5 DEF SendNextCountsSent

\* tcp_send_window_avail: what the window still has room for, if it has room
\* for what is in flight.
LEMMA WindowAvailIs ==
  ASSUME TypeOK
  PROVE  /\ WindowAvail \in 0 .. SeqMod - 1
         /\ ~Wrapped /\ sendUnack = OurSeq(acked) /\ sendNext = OurSeq(sent)
              /\ acked <= sent /\ sent - acked <= sendWindow
              => WindowAvail = sendWindow - (sent - acked)
<1>1. /\ sendWindow \in 0 .. SeqMod - 1 /\ sendUnack \in Int /\ sendNext \in Int
      /\ SeqMod \in Nat \ {0} /\ acked \in 0 .. MaxSent + 1 /\ sent \in 0 .. MaxSent
      /\ sent \in 0 .. MaxSent + 1
  BY SeqModIs, WindowAssumption DEF TypeOK
<1>2. sendWindow + sendUnack - sendNext \in Int
  BY <1>1
<1>3. WindowAvail \in 0 .. SeqMod - 1
  BY <1>1, <1>2, ModRange DEF WindowAvail
<1>4. ASSUME ~Wrapped, sendUnack = OurSeq(acked), sendNext = OurSeq(sent),
             acked <= sent, sent - acked <= sendWindow
      PROVE  WindowAvail = sendWindow - (sent - acked)
  <2> DEFINE d == sendWindow - (sent - acked)
             sum == sendWindow + sendUnack - sendNext
             su == OurSeq(acked)
             sn == OurSeq(sent)
  <2>1. iss \in Nat /\ iss < SeqMod /\ iss \in Isses
    BY IssIs, SeqModIs DEF TypeOK
  <2>2. /\ \/ iss + 1 + acked < SeqMod /\ su = iss + 1 + acked
           \/ iss + 1 + acked >= SeqMod /\ su < iss /\ su >= 0
        /\ \/ iss + 1 + sent < SeqMod /\ sn = iss + 1 + sent
           \/ iss + 1 + sent >= SeqMod /\ sn = iss + 1 + sent - SeqMod
    <3>1. acked \in -1 .. MaxSent + 1 /\ sent \in -1 .. MaxSent + 1
      BY <1>1, SeqModIs
    <3> QED BY <2>1, <3>1, OurSeqIs
  <2>3. ~(su <= iss) /\ sendUnack = su /\ sendNext = sn
    BY <1>4 DEF Wrapped
  <2> HIDE DEF su, sn
  <2>4. su = iss + 1 + acked
    BY <1>1, <2>1, <2>2, <2>3
  <2>5. d \in 0 .. SeqMod - 1
    BY <1>1, <1>4
  <2>6. sum = d \/ sum = d + SeqMod
    BY <1>1, <2>1, <2>2, <2>3, <2>4
  <2> HIDE DEF d, sum
  <2>7. sum % SeqMod = d
    BY <1>1, <2>5, <2>6, ModTurn
  <2> QED BY <2>7 DEF WindowAvail, sum, d
<1> QED BY <1>3, <1>4

-----------------------------------------------------------------------------
(***************************************************************************)
(* Every step preserves the invariant.                                     *)
(***************************************************************************)
\* TypeOK in the parts that the lemmas speak of.
LEMMA TypeParts ==
  TypeOK <=> /\ state \in State /\ RecvTypes /\ PeerTypes
             /\ sendNext \in 0 .. SeqMod - 1 /\ sent \in 0 .. MaxSent
             /\ reported \in 0 .. MaxSent /\ finSent \in BOOLEAN
             /\ offers \subseteq Offer /\ iss \in Isses
BY DEF TypeOK, RecvTypes, PeerTypes

LEMMA InitInv == Init => IInv
<1> SUFFICES ASSUME Init PROVE IInv
  OBVIOUS
<1>1. /\ recvBuf = << >> /\ delivered = << >> /\ Len(recvBuf) = 0 /\ Len(delivered) = 0
      /\ recvNext = PeerSeq(0) /\ sendNext = OurSeq(0) /\ sendUnack = iss
      /\ state = "SYN_RCVD" /\ sent = 0 /\ reported = 0 /\ acked = 0
      /\ finSent = FALSE /\ sendWindow = 0 /\ late = FALSE /\ iss \in Isses
  BY DEF Init
<1>2. PeerSeq(0) \in 0 .. SeqMod - 1 /\ OurSeq(0) \in 0 .. SeqMod - 1
  BY <1>1, SeqsCount, PeerSeqsCount
<1>3. PICK w \in Windows : offers = {[ack |-> 0, wnd |-> w]}
  BY DEF Init
<1>4. offers \subseteq Offer /\ \A o \in offers : o.ack = 0
  BY <1>3, SeqModIs DEF Offer
<1>5. TypeOK
  <2>1. recvBuf \in Seq(1 .. PeerLen) /\ delivered \in Seq(1 .. PeerLen)
    BY <1>1
  <2>2. /\ sendUnack \in 0 .. SeqMod - 1 /\ sent \in 0 .. MaxSent
        /\ reported \in 0 .. MaxSent /\ acked \in 0 .. MaxSent + 1
        /\ Len(recvBuf) < Cap
    BY <1>1, IssIs, SeqModIs, SizeAssumption
  <2> QED BY <1>1, <1>2, <1>4, <2>1, <2>2 DEF TypeOK, State
<1>6. NReceived = 0 /\ FinByte = 0
  BY <1>1 DEF NReceived, FinByte
<1>7. BytesInOrder /\ RecvNextIs
  BY <1>1, <1>6, SeqModIs DEF BytesInOrder, RecvNextIs
<1>8. SendNextCountsSent /\ SentIsAcked
  BY <1>1, <1>4, <1>6 DEF SendNextCountsSent, SentIsAcked, Held
<1>9. UnackIs
  BY <1>1 DEF UnackIs
<1>10. WindowIs
  <2>1. w \in Nat
    BY WindowIsNat
  <2>2. \E p \in offers : p.ack = 0 /\ p.wnd = w
    BY <1>3
  <2>3. Within(acked, sendWindow)
    BY <1>1, <2>1, <2>2 DEF Within
  <2> QED BY <2>3 DEF WindowIs
<1> QED BY <1>5, <1>7, <1>8, <1>9, <1>10 DEF IInv

\* The parts of the invariant about variables that a step leaves alone.
LEMMA RecvUnchanged ==
  ASSUME RecvTypes, BytesInOrder, UNCHANGED recvVars
  PROVE  RecvTypes' /\ BytesInOrder' /\ NReceived' = NReceived /\ recvNext' = recvNext
BY DEF recvVars, RecvTypes, BytesInOrder, NReceived

LEMMA SendUnchanged ==
  ASSUME SendNextCountsSent, UNCHANGED sendVars
  PROVE  /\ SendNextCountsSent' /\ FinByte' = FinByte
         /\ sent' = sent /\ reported' = reported /\ finSent' = finSent
         /\ sendNext' = sendNext /\ iss' = iss
BY DEF sendVars, SendNextCountsSent, FinByte, OurSeq

LEMMA PeerUnchanged ==
  ASSUME PeerTypes, UNCHANGED peerVars
  PROVE  /\ PeerTypes' /\ sendUnack' = sendUnack /\ acked' = acked
         /\ sendWindow' = sendWindow /\ late' = late
BY DEF peerVars, PeerTypes

\* The predicates about our numbers, in the next state.
LEMMA NewestNext ==
  ASSUME iss' = iss
  PROVE  /\ (Newest(sendUnack, acked))' <=> Newest(sendUnack', acked')
         /\ Wrapped' <=> OurSeq(acked') <= iss
BY DEF Newest, Wrapped, OurSeq

LEMMA WindowUnchanged ==
  ASSUME WindowIs, iss' = iss, acked' = acked, sendWindow' = sendWindow, late' = late,
         sent' = sent, offers \subseteq offers'
  PROVE  WindowIs'
<1>1. CASE late
  BY <1>1 DEF WindowIs
<1>2. CASE Wrapped
  BY <1>2 DEF WindowIs, Wrapped, OurSeq
<1>3. CASE Within(acked, sendWindow)
  BY <1>3 DEF WindowIs, Within
<1> QED BY <1>1, <1>2, <1>3 DEF WindowIs

\* What a segment does to the connection in the states that look at it.
LEMMA ReceiveInv ==
  ASSUME IInv, NEW seg \in Segment, Receive(seg)
  PROVE  IInv'
<1> USE DEF IInv
<1>1. /\ state \in State /\ RecvTypes /\ PeerTypes /\ offers \subseteq Offer
      /\ sent \in 0 .. MaxSent /\ sent \in Nat /\ reported \in 0 .. MaxSent
      /\ finSent \in BOOLEAN /\ sendNext \in 0 .. SeqMod - 1 /\ iss \in Isses
  BY TypeParts, SeqModIs
<1>2. UNCHANGED sendVars /\ offers' = offers
  BY DEF Receive, ReceiveSynRcvd, ReceiveEstablished, ReceiveLastAck,
         ReceiveFinWait, ReceiveClosing
<1>3. /\ SendNextCountsSent' /\ FinByte' = FinByte
      /\ sent' = sent /\ reported' = reported /\ finSent' = finSent
      /\ sendNext' = sendNext /\ iss' = iss
  BY <1>2, SendUnchanged
<1>4. ASSUME UpdateSendState(seg)
      PROVE  /\ PeerTypes' /\ acked' <= sent + FinByte
             /\ Newest(sendUnack, acked) \/ (seg.ack /\ sendUnack = iss /\ acked = 0)
                  => Newest(sendUnack', acked')
             /\ WindowIs'
  <2>1. /\ PeerTypes' /\ acked' <= sent + FinByte
        /\ Newest(sendUnack, acked) \/ (seg.ack /\ sendUnack = iss /\ acked = 0)
             => Newest(sendUnack', acked')
        /\ WindowIs => late' \/ OurSeq(acked') <= iss \/ Within(acked', sendWindow')
    BY <1>1, <1>4, UpdateSendStateGood
  <2>2. Within(acked', sendWindow') <=> (Within(acked, sendWindow))'
    BY <1>2, <1>3 DEF Within
  <2>3. WindowIs'
    BY <1>3, <2>1, <2>2, NewestNext DEF WindowIs
  <2> QED BY <2>1, <2>3
<1>5. ASSUME UNCHANGED peerVars
      PROVE  /\ PeerTypes' /\ acked' <= sent + FinByte
             /\ acked' = acked /\ sendUnack' = sendUnack /\ WindowIs'
  <2>1. PeerTypes' /\ sendUnack' = sendUnack /\ acked' = acked
        /\ sendWindow' = sendWindow /\ late' = late
    BY <1>1, <1>5, PeerUnchanged
  <2>2. WindowIs'
    BY <1>2, <1>3, <2>1, WindowUnchanged
  <2> QED BY <2>1, <2>2 DEF SentIsAcked
<1>6. /\ state' \in State \ {"SYN_RCVD"} /\ PeerTypes' /\ acked' <= sent + FinByte
      /\ finSent => ~Held'
      /\ state' # "CLOSED" => Newest(sendUnack', acked')
      /\ WindowIs'
  <2>1. CASE ReceiveSynRcvd(seg)
    BY <1>1, <1>4, <1>5, <2>1
    DEF ReceiveSynRcvd, State, UnackIs, SentIsAcked, Held
  <2>2. CASE ReceiveEstablished(seg)
    BY <1>1, <1>4, <2>2
    DEF ReceiveEstablished, State, UnackIs, SentIsAcked, Held
  <2>3. CASE ReceiveLastAck(seg)
    BY <1>1, <1>5, <2>3
    DEF ReceiveLastAck, State, UnackIs, Held
  <2>4. CASE ReceiveFinWait(seg)
    BY <1>1, <1>4, <1>5, <2>4
    DEF ReceiveFinWait, State, UnackIs, Held
  <2>5. CASE ReceiveClosing(seg)
    BY <1>1, <1>4, <1>5, <2>5
    DEF ReceiveClosing, State, UnackIs, Held
  <2> QED BY <2>1, <2>2, <2>3, <2>4, <2>5 DEF Receive
<1>7. RecvTypes' /\ BytesInOrder' /\ RecvNextIs'
  <2>1. CASE UNCHANGED recvVars
    <3>1. /\ RecvTypes' /\ BytesInOrder' /\ NReceived' = NReceived
          /\ recvNext' = recvNext
      BY <1>1, <2>1, RecvUnchanged
    <3>2. state \notin {"SYN_RCVD", "ESTABLISHED", "FIN_WAIT_1", "FIN_WAIT_2"}
            => state' \notin {"SYN_RCVD", "ESTABLISHED", "FIN_WAIT_1", "FIN_WAIT_2"}
      BY DEF Receive, ReceiveSynRcvd, ReceiveEstablished, ReceiveLastAck,
             ReceiveFinWait, ReceiveClosing
    <3> QED BY <3>1, <3>2 DEF RecvNextIs
  <2>2. CASE /\ UpdateRecvState(seg)
             /\ state \in {"ESTABLISHED", "FIN_WAIT_1", "FIN_WAIT_2"}
             /\ seg.fin => state' \in {"RESET", "CLOSE_WAIT", "TIME_WAIT", "CLOSING"}
    <3>1. recvNext = PeerSeq(NReceived)
      BY <2>2 DEF RecvNextIs
    <3>2. /\ RecvTypes' /\ BytesInOrder'
          /\ \/ recvNext' = PeerSeq(NReceived')
             \/ seg.fin /\ recvNext' = PeerSeq(PeerLen + 1) /\ NReceived' = PeerLen
      BY <1>1, <2>2, <3>1, UpdateRecvStateGood
    <3> QED BY <2>2, <3>2 DEF RecvNextIs
  <2> QED
    BY <2>1, <2>2 DEF Receive, ReceiveSynRcvd, ReceiveEstablished, ReceiveLastAck,
                      ReceiveFinWait, ReceiveClosing
<1>8. TypeOK'
  BY <1>1, <1>2, <1>3, <1>6, <1>7, SizeAssumption DEF TypeOK, RecvTypes, PeerTypes
<1>9. SentIsAcked'
  BY <1>2, <1>3, <1>6 DEF SentIsAcked
<1>10. UnackIs'
  BY <1>3, <1>6, NewestNext DEF UnackIs
<1> QED BY <1>3, <1>6, <1>7, <1>8, <1>9, <1>10

\* A call of tcp_conn_send moves at most what the window has room for, and
\* reports no more than it transmitted.
LEMMA SendMoves ==
  ASSUME TypeOK, NEW wanted \in 1 .. MaxSend, Send(wanted)
  PROVE  \E n \in 0 .. WindowAvail :
           /\ Transmit(n) /\ sent + n <= MaxSent
           /\ reported' \in {reported, reported + n}
<1> DEFINE goal == Lesser(wanted, WindowAvail)
<1>1. WindowAvail \in Nat /\ Mtu \in Nat /\ sent \in Nat /\ wanted \in Nat
  BY WindowAvailIs, SizeAssumption, SeqModIs DEF TypeOK
<1>2. goal \in 0 .. WindowAvail
  BY <1>1 DEF Lesser
<1>3. /\ sent + goal <= MaxSent
      /\ \/ Transmit(goal) /\ reported' = reported + goal
         \/ \E fragments \in 0 .. MaxSend :
              /\ fragments * Mtu < goal
              /\ Transmit(fragments * Mtu)
              /\ UNCHANGED reported
  BY DEF Send
<1> HIDE DEF goal
<1>4. CASE Transmit(goal) /\ reported' = reported + goal
  BY <1>2, <1>3, <1>4
<1>5. ASSUME NEW fragments \in 0 .. MaxSend, fragments * Mtu < goal,
             Transmit(fragments * Mtu), UNCHANGED reported
      PROVE  \E n \in 0 .. WindowAvail :
               /\ Transmit(n) /\ sent + n <= MaxSent
               /\ reported' \in {reported, reported + n}
  <2> DEFINE n == fragments * Mtu
  <2>1. n \in Nat
    BY <1>1
  <2>2. Transmit(n) /\ n < goal /\ reported' = reported
    BY <1>5
  <2> HIDE DEF n
  <2>3. n \in 0 .. WindowAvail /\ sent + n <= MaxSent
    BY <1>1, <1>2, <1>3, <2>1, <2>2, SeqModIs
  <2> QED BY <2>2, <2>3
<1> QED BY <1>3, <1>4, <1>5

LEMMA SendInv ==
  ASSUME IInv, NEW wanted \in 1 .. MaxSend, Send(wanted)
  PROVE  IInv'
<1> USE DEF IInv
<1>1. /\ state \in State /\ RecvTypes /\ PeerTypes /\ offers \subseteq Offer
      /\ sent \in 0 .. MaxSent /\ reported \in 0 .. MaxSent
      /\ finSent \in BOOLEAN /\ sent \in Nat /\ iss \in Isses
  BY TypeParts, SeqModIs
<1>2. UNCHANGED <<state, recvVars, iss, peerVars, finSent, offers>> /\ Held
  BY DEF Send
<1>3. PICK n \in 0 .. WindowAvail :
        /\ Transmit(n) /\ sent + n <= MaxSent
        /\ reported' \in {reported, reported + n}
  BY SendMoves
<1>4. WindowAvail \in Nat /\ n \in Nat
  BY WindowAvailIs, SeqModIs
<1>5. /\ SendNextCountsSent' /\ sendNext' \in 0 .. SeqMod - 1
      /\ sent' = sent + n
  BY <1>1, <1>2, <1>3, <1>4, TransmitGood
<1>6. sent' \in 0 .. MaxSent /\ reported' \in 0 .. MaxSent /\ reported' <= sent'
  BY <1>1, <1>3, <1>4, <1>5, SeqModIs DEF SentIsAcked
<1>7. /\ RecvTypes' /\ BytesInOrder' /\ RecvNextIs'
  BY <1>1, <1>2, RecvUnchanged DEF RecvNextIs
<1>8. PeerTypes' /\ acked' = acked /\ sendUnack' = sendUnack
      /\ sendWindow' = sendWindow /\ late' = late
  BY <1>1, <1>2, PeerUnchanged
<1>9. SentIsAcked'
  <2>1. FinByte' = FinByte /\ FinByte \in Nat
    BY <1>2 DEF FinByte
  <2>2. /\ acked \in Nat
        /\ \A o \in offers : o.ack \in Nat
    BY <1>1, SeqModIs DEF PeerTypes, Offer
  <2>3. acked' <= sent' + FinByte' /\ \A o \in offers' : o.ack <= sent' + FinByte'
    BY <1>1, <1>2, <1>4, <1>5, <1>8, <2>1, <2>2 DEF SentIsAcked
  <2> QED BY <1>2, <1>6, <2>3 DEF SentIsAcked, Held
<1>10. UnackIs'
  BY <1>2, <1>8, NewestNext DEF UnackIs
<1>11. TypeOK'
  BY <1>1, <1>2, <1>5, <1>6, <1>7, <1>8 DEF TypeOK, RecvTypes, PeerTypes
<1>12. WindowIs'
  <2>1. CASE late
    BY <1>8, <2>1 DEF WindowIs
  <2>2. CASE Wrapped
    BY <1>2, <1>8, <2>2 DEF WindowIs, Wrapped, OurSeq
  <2>3. CASE ~late /\ ~Wrapped
    <3>1. sent <= acked + sendWindow
          /\ \E o \in offers : acked + sendWindow <= o.ack + o.wnd
      BY <2>3 DEF WindowIs, Within
    <3>2. /\ ~finSent /\ FinByte = 0 /\ acked <= sent /\ sendNext = OurSeq(sent)
      <4>1. ~finSent
        BY <1>2 DEF SentIsAcked
      <4>2. FinByte = 0
        BY <4>1 DEF FinByte
      <4>3. acked <= sent
        BY <1>1, <4>2, SeqModIs DEF SentIsAcked, PeerTypes
      <4>4. sendNext = OurSeq(sent + 0) /\ sent + 0 = sent
        BY <1>1, <4>1 DEF SendNextCountsSent
      <4> QED BY <4>1, <4>2, <4>3, <4>4
    <3>3. sendUnack = OurSeq(acked)
      <4>1. Newest(sendUnack, acked)
        BY <1>2 DEF UnackIs, Held
      <4>2. acked \in -1 .. MaxSent + 1 /\ acked \in Nat
        BY <1>1, SeqModIs DEF PeerTypes
      <4>3. OurSeq(acked) \in Int /\ iss \in Int
        BY <1>1, <4>2, SeqsCount, IssIs
      <4>4. OurSeq(acked) > iss
        BY <2>3, <4>3 DEF Wrapped
      <4> QED BY <4>1, <4>4 DEF Newest
    <3>4. acked \in Nat /\ sendWindow \in Nat
      BY <1>1, SeqModIs, WindowAssumption DEF PeerTypes
    <3>5. WindowAvail = sendWindow - (sent - acked)
      <4>1. sent - acked <= sendWindow
        BY <1>1, <3>1, <3>4
      <4> QED BY <2>3, <3>2, <3>3, <4>1, WindowAvailIs
    <3>6. sent' <= acked + sendWindow
      BY <1>1, <1>3, <1>4, <1>5, <3>4, <3>5
    <3> QED BY <1>2, <1>8, <3>1, <3>6 DEF WindowIs, Within
  <2> QED BY <2>1, <2>2, <2>3
<1> QED BY <1>5, <1>7, <1>9, <1>10, <1>11, <1>12

LEMMA RecvInv ==
  ASSUME IInv, NEW n \in 1 .. Cap, Recv(n)
  PROVE  IInv'
<1> USE DEF IInv
<1>1. /\ state \in State /\ RecvTypes /\ PeerTypes /\ offers \subseteq Offer
      /\ sent \in 0 .. MaxSent /\ reported \in 0 .. MaxSent
      /\ finSent \in BOOLEAN /\ sendNext \in 0 .. SeqMod - 1 /\ iss \in Isses
  BY TypeParts
<1>2. UNCHANGED <<state, recvNext, sendVars, peerVars, offers>>
  BY DEF Recv
<1>3. RecvTypes' /\ BytesInOrder' /\ NReceived' = NReceived
  BY <1>1, RecvGood
<1>4. RecvNextIs'
  BY <1>2, <1>3 DEF RecvNextIs
<1>5. SendNextCountsSent' /\ SentIsAcked'
  BY <1>2, SendUnchanged DEF SentIsAcked, Held, sendVars, peerVars
<1>6. UnackIs'
  BY <1>2, NewestNext DEF UnackIs, peerVars, sendVars
<1>7. TypeOK'
  BY <1>1, <1>2, <1>3 DEF TypeOK, RecvTypes, PeerTypes, sendVars, peerVars
<1>8. WindowIs'
  BY <1>2, WindowUnchanged DEF sendVars, peerVars
<1> QED BY <1>3, <1>4, <1>5, <1>6, <1>7, <1>8

LEMMA CloseInv ==
  ASSUME IInv, Close
  PROVE  IInv'
<1> USE DEF IInv
<1>1. /\ state \in State /\ RecvTypes /\ PeerTypes /\ offers \subseteq Offer
      /\ sent \in 0 .. MaxSent /\ reported \in 0 .. MaxSent
      /\ finSent \in BOOLEAN /\ sendNext \in 0 .. SeqMod - 1 /\ iss \in Isses
  BY TypeParts
<1>2. /\ Held /\ UNCHANGED <<recvVars, iss, sent, reported, peerVars, offers>>
      /\ \/ TransmitFin
         \/ UNCHANGED <<finSent, sendNext>>
  BY DEF Close
<1>3. /\ state' \in State \ {"SYN_RCVD", "ESTABLISHED", "CLOSE_WAIT", "RESET"}
      /\ state # "ESTABLISHED"
           => state' \notin {"SYN_RCVD", "ESTABLISHED", "FIN_WAIT_1", "FIN_WAIT_2"}
  BY DEF Close, Held, State
<1>4. finSent = FALSE /\ FinByte = 0 /\ sendNext = OurSeq(sent)
  <2>1. ~finSent
    BY <1>2 DEF SentIsAcked
  <2> QED BY <1>1, <2>1 DEF FinByte, SendNextCountsSent
<1>5. /\ SendNextCountsSent' /\ finSent' \in BOOLEAN /\ sendNext' \in 0 .. SeqMod - 1
      /\ FinByte' \in {0, 1}
  <2>1. CASE TransmitFin
    <3>1. finSent' = TRUE /\ sendNext' = (OurSeq(sent) + 1) % SeqMod
      BY <1>4, <2>1 DEF TransmitFin
    <3>2. sent \in Nat /\ sent + 1 \in Nat
      BY <1>1, SeqModIs
    <3>3. sendNext' = OurSeq(sent + 1) /\ OurSeq(sent + 1) \in 0 .. SeqMod - 1
      BY <1>1, <3>1, <3>2, SeqsCount
    <3> QED BY <1>2, <3>1, <3>3 DEF SendNextCountsSent, FinByte, OurSeq
  <2>2. CASE UNCHANGED <<finSent, sendNext>>
    BY <1>1, <1>2, <1>4, <2>2 DEF SendNextCountsSent, FinByte, OurSeq
  <2> QED BY <1>2, <2>1, <2>2
<1>6. RecvTypes' /\ BytesInOrder' /\ NReceived' = NReceived /\ recvNext' = recvNext
  BY <1>1, <1>2, RecvUnchanged
<1>7. RecvNextIs'
  BY <1>2, <1>3, <1>6 DEF RecvNextIs, Held
<1>8. SentIsAcked'
  <2>1. /\ acked \in Nat /\ sent \in Nat
        /\ \A o \in offers : o.ack \in Nat
    BY <1>1, SeqModIs DEF PeerTypes, Offer
  <2>2. ~Held' /\ state' # "SYN_RCVD"
    BY <1>3 DEF Held
  <2>3. acked' = acked /\ sent' = sent /\ offers' = offers
    BY <1>2 DEF peerVars
  <2>4. acked <= sent /\ \A o \in offers : o.ack <= sent
    BY <1>4, <2>1 DEF SentIsAcked
  <2>5. acked' <= sent' + FinByte' /\ \A o \in offers' : o.ack <= sent' + FinByte'
    <3>1. CASE FinByte' = 0
      BY <2>1, <2>3, <2>4, <3>1
    <3>2. CASE FinByte' = 1
      BY <2>1, <2>3, <2>4, <3>2
    <3> QED BY <1>5, <3>1, <3>2
  <2> QED BY <1>2, <2>2, <2>5 DEF SentIsAcked
<1>9. UnackIs'
  BY <1>2, <1>3, NewestNext DEF UnackIs, peerVars, Held
<1>10. TypeOK'
  BY <1>1, <1>2, <1>3, <1>5, <1>6 DEF TypeOK, RecvTypes, PeerTypes, peerVars
<1>11. WindowIs'
  BY <1>2, WindowUnchanged DEF peerVars
<1> QED BY <1>5, <1>6, <1>7, <1>8, <1>9, <1>10, <1>11

LEMMA PeerOffersInv ==
  ASSUME IInv, NEW o \in Offer, PeerOffers(o)
  PROVE  IInv'
<1> USE DEF IInv
<1>1. /\ UNCHANGED <<state, recvVars, sendVars, peerVars>>
      /\ offers' = offers \cup {o} /\ o.ack <= sent + FinByte
  BY DEF PeerOffers, FinByte
<1>2. TypeOK' /\ BytesInOrder' /\ RecvNextIs' /\ SendNextCountsSent'
  BY <1>1 DEF TypeOK, BytesInOrder, RecvNextIs, NReceived, SendNextCountsSent,
              OurSeq, recvVars, sendVars, peerVars
<1>3. SentIsAcked' /\ UnackIs'
  BY <1>1, NewestNext DEF SentIsAcked, UnackIs, FinByte, Held, sendVars, peerVars
<1>4. WindowIs'
  BY <1>1, WindowUnchanged DEF sendVars, peerVars
<1> QED BY <1>2, <1>3, <1>4

LEMMA NextInv == IInv /\ [Next]_vars => IInv'
<1> SUFFICES ASSUME IInv, [Next]_vars PROVE IInv'
  OBVIOUS
<1>1. ASSUME NEW seg \in Segment, Receive(seg) PROVE IInv'
  BY <1>1, ReceiveInv
<1>2. ASSUME NEW n \in 1 .. MaxSend, Send(n) PROVE IInv'
  BY <1>2, SendInv
<1>3. ASSUME NEW n \in 1 .. Cap, Recv(n) PROVE IInv'
  BY <1>3, RecvInv
<1>4. CASE Close
  BY <1>4, CloseInv
<1>5. ASSUME NEW o \in Offer, PeerOffers(o) PROVE IInv'
  BY <1>5, PeerOffersInv
<1>6. CASE UNCHANGED vars
  BY <1>6 DEF vars, recvVars, sendVars, peerVars, IInv, TypeOK, BytesInOrder,
              RecvNextIs, NReceived, SendNextCountsSent, SentIsAcked, FinByte,
              UnackIs, Newest, WindowIs, Within, Wrapped, OurSeq, Held
<1> QED BY <1>1, <1>2, <1>3, <1>4, <1>5, <1>6 DEF Next

LEMMA Invariance == Spec => []IInv
BY InitInv, NextInv, PTL DEF Spec

-----------------------------------------------------------------------------
(***************************************************************************)
(* What the invariant says.                                                *)
(***************************************************************************)
\* What was read and what is in the buffer, one behind the other.
LEMMA ReceivedIs ==
  ASSUME IInv
  PROVE  DataInOrder /\ Len(Received) = NReceived
<1>1. /\ recvBuf \in Seq(1 .. PeerLen) /\ delivered \in Seq(1 .. PeerLen)
      /\ Len(recvBuf) \in Nat /\ Len(delivered) \in Nat
  BY DEF IInv, TypeOK
<1>2. /\ Len(Received) = Len(delivered) + Len(recvBuf)
      /\ \A i \in 1 .. Len(delivered) : Received[i] = delivered[i]
      /\ \A i \in Len(delivered) + 1 .. Len(delivered) + Len(recvBuf) :
           Received[i] = recvBuf[i - Len(delivered)]
  BY <1>1 DEF Received
<1>3. ASSUME NEW i \in 1 .. Len(Received)
      PROVE  Received[i] = i
  <2>1. CASE i <= Len(delivered)
    BY <1>1, <1>2, <2>1 DEF IInv, BytesInOrder
  <2>2. CASE i > Len(delivered)
    <3>1. /\ i - Len(delivered) \in 1 .. Len(recvBuf)
          /\ Received[i] = recvBuf[i - Len(delivered)]
      BY <1>1, <1>2, <2>2
    <3> QED BY <1>1, <3>1 DEF IInv, BytesInOrder
  <2> QED BY <1>1, <1>2, <2>1, <2>2
<1> QED BY <1>2, <1>3 DEF DataInOrder, NReceived

\* Whatever the network loses, repeats and reorders, what the user has read
\* and what is in the receive buffer is the peer's stream from its first byte
\* on (tcp_conn_update_recv_state, tcp_conn_recv).
THEOREM DataAlwaysInOrder == Spec => []DataInOrder
<1>1. IInv => DataInOrder
  BY ReceivedIs
<1> QED BY <1>1, Invariance, PTL

\* No byte is acknowledged that is not stored, and the FIN only behind the
\* last byte, once (tcp_conn_update_recv_state).
THEOREM AcksAlwaysRight == Spec => []AcksWhatIsStored
<1>1. IInv => AcksWhatIsStored
  <2> SUFFICES ASSUME IInv PROVE AcksWhatIsStored
    OBVIOUS
  <2>1. Len(Received) = NReceived
    BY ReceivedIs
  <2> QED BY <2>1 DEF IInv, TypeOK, RecvNextIs, AcksWhatIsStored
<1> QED BY <1>1, Invariance, PTL

\* send_next is exactly what was transmitted, at the wrap-around too, and
\* tcp_conn_send never reports bytes that it did not transmit.
THEOREM SendNextAlwaysRight ==
  Spec => [](SendNextCountsSent /\ reported <= sent)
<1>1. IInv => SendNextCountsSent /\ reported <= sent
  BY DEF IInv, SentIsAcked
<1> QED BY <1>1, Invariance, PTL

\* All counters are those of the wire, for every initial number, also where
\* our numbers wrap around: send_unack is the newest acknowledgment processed,
\* or the newest of those before the wrap-around (tcp_conn_update_send_state,
\* which compares with seq_gt).
THEOREM CountersAlwaysCorrect == Spec => []CountersCorrect
<1>1. ASSUME IInv
      PROVE  CountersCorrect
  <2>1. OurSeq(acked) \in Int /\ iss \in Int
    <3>1. acked \in Nat /\ iss \in Isses
      BY <1>1, SeqModIs DEF IInv, TypeOK
    <3> QED BY <3>1, SeqsCount, IssIs
  <2>2. Wrapped <=> ~(OurSeq(acked) > iss)
    BY <2>1 DEF Wrapped
  <2>3. UnackIsNewestAck
    BY <1>1, <2>2 DEF IInv, UnackIs, Newest, UnackIsNewestAck
  <2> QED BY <1>1, <2>3 DEF IInv, CountersCorrect
<1> QED BY <1>1, Invariance, PTL

\* The peer is never sent more than it has offered to take, as long as every
\* segment that is processed has an ACK and is not older than one processed
\* before, and the acknowledgments have not wrapped around (tcp_conn_send,
\* tcp_send_window_avail).
THEOREM PeerNeverOverrun == Spec => []PeerNotOverrun
<1>1. ASSUME IInv, ~late, ~Wrapped
      PROVE  \E o \in offers : sent <= o.ack + o.wnd
  <2>1. /\ sent \in Int /\ acked \in Int /\ sendWindow \in Int
        /\ \A o \in offers : o.ack \in Int /\ o.wnd \in Int
    <3>1. \A w \in Windows \cup {0} : w \in Int
      BY WindowIsNat
    <3>2. sent \in 0 .. MaxSent /\ acked \in 0 .. MaxSent + 1 /\ sendWindow \in Windows \cup {0}
      BY <1>1 DEF IInv, TypeOK
    <3>3. \A o \in offers : o.ack \in 0 .. MaxSent + 1 /\ o.wnd \in Windows
      BY <1>1 DEF IInv, TypeOK, Offer
    <3> QED BY <3>1, <3>2, <3>3, SeqModIs
  <2>2. PICK o \in offers : acked + sendWindow <= o.ack + o.wnd
    BY <1>1 DEF IInv, WindowIs, Within
  <2>3. sent <= acked + sendWindow
    BY <1>1 DEF IInv, WindowIs, Within
  <2>4. sent <= o.ack + o.wnd
    BY <2>1, <2>2, <2>3
  <2> QED BY <2>4
<1>2. IInv => PeerNotOverrun
  BY <1>1 DEF PeerNotOverrun
<1> QED BY <1>2, Invariance, PTL
=============================================================================
