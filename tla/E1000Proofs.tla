---------------------------- MODULE E1000Proofs ----------------------------
(***************************************************************************)
(* The rings hold the right frames in the right order, and a frame in the  *)
(* receive ring has something that wakes the driver, for every size of the *)
(* rings and every number of frames.                                       *)
(***************************************************************************)
EXTENDS E1000Props, Integers, TLAPS

\* The device's receive head is just beyond the frames that wait; nothing has
\* arrived before e1000_init_rx.
RxHeadIs ==
  /\ Receiving => rdh = (rxTail + (Undelivered + 1)) % NRx
  /\ phase \in {"start", "mapped", "mac", "tx"}
       => arrived = 0 /\ Len(handed) = 0 /\ rxTail = 0

\* The driver's tail is just beyond the frames that wait to be sent; nothing
\* is sent before the probe has ended.
TxTailIs ==
  /\ txTail = (tdh + Unsent) % NTx
  /\ phase # "up" => accepted = 0 /\ Len(wire) = 0

\* The handler runs only once the interrupt is open.
DrainsWhenOpen == cpu = "drain" => Unmasked

IInv ==
  /\ TypeOK
  /\ RxInOrder /\ RxHeadIs
  /\ TxInOrder /\ TxTailIs
  /\ DrainsWhenOpen /\ FrameHasWakeup

\* With the link down at the start, there is no cause before the probe ends.
NoCauseBeforeUp ==
  /\ ~wakeupLost
  /\ linkUp => phase = "up"
  /\ ~linkUp => causes = {}

-----------------------------------------------------------------------------
(***************************************************************************)
(* Rings.                                                                  *)
(***************************************************************************)
\* Remainders are places of the ring.
LEMMA ModRange ==
  ASSUME NEW N \in Nat \ {0}, NEW a \in Int
  PROVE  a % N \in 0 .. N - 1
OBVIOUS

\* The place k further on: no modulo is needed.
LEMMA Wrap ==
  ASSUME NEW N \in Nat \ {0}, NEW i \in 0 .. N - 1, NEW k \in Nat, k <= N
  PROVE  (i + k) % N = IF i + k < N THEN i + k ELSE i + k - N
<1>1. CASE i + k < N
  BY <1>1
<1>2. CASE ~(i + k < N)
  BY <1>2
<1> QED BY <1>1, <1>2

\* Up to three times around the ring.
LEMMA ModIs ==
  ASSUME NEW N \in Nat \ {0}, NEW x \in Nat, x < 3 * N
  PROVE  /\ x % N = IF x < N THEN x ELSE IF x < 2 * N THEN x - N ELSE x - 2 * N
         /\ x % N \in 0 .. N - 1
<1>1. CASE x < N
  BY <1>1
<1>2. CASE N <= x /\ x < 2 * N
  BY <1>2
<1>3. CASE 2 * N <= x
  BY <1>3
<1> QED BY <1>1, <1>2, <1>3

\* Places counted from the next index are one further on.
LEMMA RingNext ==
  ASSUME NEW N \in Nat \ {0}, NEW i \in 0 .. N - 1, NEW k \in 0 .. N
  PROVE  /\ (((i + 1) % N) + k) % N = (i + (k + 1)) % N
         /\ (((i + k) % N) + 1) % N = (i + (k + 1)) % N
<1> DEFINE a == i + 1
           b == i + k
           c == i + (k + 1)
           d == (a % N) + k
           e == (b % N) + 1
<1>1. a \in Nat /\ b \in Nat /\ c \in Nat /\ a < 3 * N /\ b < 3 * N /\ c < 3 * N
      /\ c = a + k /\ c = b + 1
  OBVIOUS
<1> HIDE DEF a, b, c
<1>2. /\ a % N = IF a < N THEN a ELSE IF a < 2 * N THEN a - N ELSE a - 2 * N
      /\ b % N = IF b < N THEN b ELSE IF b < 2 * N THEN b - N ELSE b - 2 * N
      /\ c % N = IF c < N THEN c ELSE IF c < 2 * N THEN c - N ELSE c - 2 * N
      /\ a % N \in 0 .. N - 1 /\ b % N \in 0 .. N - 1
  BY <1>1, ModIs
<1>3. d \in Nat /\ e \in Nat /\ d < 3 * N /\ e < 3 * N
  BY <1>2
<1> HIDE DEF d, e
<1>4. /\ d % N = IF d < N THEN d ELSE IF d < 2 * N THEN d - N ELSE d - 2 * N
      /\ e % N = IF e < N THEN e ELSE IF e < 2 * N THEN e - N ELSE e - 2 * N
  BY <1>3, ModIs
<1>5. d % N = c % N
  BY <1>1, <1>2, <1>4 DEF d
<1>6. e % N = c % N
  BY <1>1, <1>2, <1>4 DEF e
<1> QED BY <1>5, <1>6 DEF a, b, c, d, e

\* Places less than N apart are different.
LEMMA RingDistinct ==
  ASSUME NEW N \in Nat \ {0}, NEW i \in 0 .. N - 1, NEW j \in 0 .. N, NEW k \in 0 .. N,
         j - k < N, k - j < N, (i + j) % N = (i + k) % N
  PROVE  j = k
<1> DEFINE a == i + j
           b == i + k
<1>1. a \in Nat /\ b \in Nat /\ a < 2 * N /\ b < 2 * N /\ a < 3 * N /\ b < 3 * N
      /\ a - b < N /\ b - a < N /\ a % N = b % N
  OBVIOUS
<1> HIDE DEF a, b
<1>2. /\ a % N = IF a < N THEN a ELSE a - N
      /\ b % N = IF b < N THEN b ELSE b - N
  BY <1>1, ModIs
<1>3. a = b
  BY <1>1, <1>2
<1> QED BY <1>3 DEF a, b

\* Once around, and not at all.
LEMMA RingAround ==
  ASSUME NEW N \in Nat \ {0}, NEW i \in 0 .. N - 1
  PROVE  (i + N) % N = i /\ (i + 0) % N = i /\ i % N = i
<1>1. N \in Nat /\ 0 \in Nat /\ N <= N /\ 0 <= N
  OBVIOUS
<1>2. (i + N) % N = i /\ (i + 0) % N = i
  BY <1>1, Wrap
<1>3. i + 0 = i
  OBVIOUS
<1> QED BY <1>2, <1>3

LEMMA Sizes ==
  /\ NRx \in Nat \ {0} /\ 1 < NRx /\ NTx \in Nat \ {0}
  /\ MaxRx \in Nat /\ MaxTx \in Nat
BY RingAssumption, BoundAssumption

\* The counters are numbers, in the order of their frames.
LEMMA Counts ==
  ASSUME TypeOK, RxInOrder, TxInOrder
  PROVE  /\ rdh \in 0 .. NRx - 1 /\ rxTail \in 0 .. NRx - 1
         /\ tdh \in 0 .. NTx - 1 /\ txTail \in 0 .. NTx - 1
         /\ arrived \in Nat /\ Len(handed) \in Nat /\ accepted \in Nat
         /\ Len(wire) \in Nat
         /\ Undelivered \in Nat /\ Undelivered <= NRx - 1
         /\ arrived = Len(handed) + Undelivered
         /\ Unsent \in Nat /\ Unsent <= NTx /\ accepted = Len(wire) + Unsent
BY Sizes DEF TypeOK, Rx, Tx, RxInOrder, TxInOrder, Undelivered, Unsent

-----------------------------------------------------------------------------
(***************************************************************************)
(* The steps that change the receive ring.                                 *)
(***************************************************************************)
\* The parts of TypeOK about the receive and the transmit ring.
RxTypes ==
  /\ rxDesc \in [Rx -> 0 .. MaxRx] /\ rdh \in Rx /\ rxTail \in Rx
  /\ arrived \in 0 .. MaxRx /\ handed \in Seq(1 .. MaxRx)
TxTypes ==
  /\ txBuf \in [Tx -> 0 .. MaxTx] /\ txDone \in [Tx -> BOOLEAN]
  /\ tdh \in Tx /\ txTail \in Tx
  /\ accepted \in 0 .. MaxTx /\ wire \in Seq(1 .. MaxTx)

\* How many descriptors the device has, and where its head is.
LEMMA FreeIs ==
  ASSUME IInv, Receiving
  PROVE  /\ Free = NRx - 1 - Undelivered
         /\ rdh = (rxTail + (Undelivered + 1)) % NRx
<1> DEFINE U == Undelivered
<1>1. /\ rxTail \in 0 .. NRx - 1 /\ rdh \in 0 .. NRx - 1
      /\ U \in Nat /\ U <= NRx - 1 /\ NRx \in Nat \ {0}
  BY Counts, Sizes DEF IInv
<1>2. rdh = (rxTail + (U + 1)) % NRx
  BY DEF IInv, RxHeadIs
<1> HIDE DEF U
<1>3. U + 1 \in Nat /\ U + 1 <= NRx
  BY <1>1
<1>4. rdh = IF rxTail + (U + 1) < NRx THEN rxTail + (U + 1) ELSE rxTail + (U + 1) - NRx
  BY <1>1, <1>2, <1>3, Wrap
<1>5. (rxTail + NRx - rdh) % NRx = NRx - 1 - U
  <2>1. CASE rxTail + (U + 1) < NRx
    <3>1. rxTail + NRx - rdh = NRx - 1 - U /\ NRx - 1 - U \in 0 .. NRx - 1
      BY <1>1, <1>4, <2>1
    <3> QED BY <1>1, <3>1, RingAround
  <2>2. CASE ~(rxTail + (U + 1) < NRx)
    <3>1. /\ rxTail + NRx - rdh = (NRx - 1 - U) + NRx
          /\ NRx - 1 - U \in 0 .. NRx - 1
      BY <1>1, <1>4, <2>2
    <3> QED BY <1>1, <3>1, RingAround
  <2> QED BY <2>1, <2>2
<1> QED BY <1>2, <1>5 DEF Free, U

\* The device stores a frame at its head.
LEMMA StoreGood ==
  ASSUME IInv, DeviceReceives, Free > 0, arrived' = arrived + 1,
         rxDesc' = [rxDesc EXCEPT ![rdh] = arrived + 1], rdh' = (rdh + 1) % NRx,
         UNCHANGED <<rxTail, handed, phase>>
  PROVE  RxTypes' /\ RxInOrder' /\ RxHeadIs'
<1> DEFINE U == Undelivered
           slot(k) == (rxTail + k) % NRx
<1>1. /\ rxTail \in 0 .. NRx - 1 /\ rdh \in 0 .. NRx - 1
      /\ U \in Nat /\ NRx \in Nat \ {0} /\ MaxRx \in Nat
      /\ arrived \in Nat /\ Len(handed) \in Nat /\ arrived = Len(handed) + U
  BY Counts, Sizes DEF IInv
<1>2. Receiving /\ arrived < MaxRx
  BY DEF DeviceReceives
<1>3. Free = NRx - 1 - U /\ rdh = slot(U + 1)
  BY <1>2, FreeIs
<1>4. Undelivered' = U + 1
  BY <1>1 DEF Undelivered
<1>5. rxDesc \in [Rx -> 0 .. MaxRx]
  BY DEF IInv, TypeOK
<1>6. \A k \in 1 .. NRx : rxDesc[slot(k)] = IF k <= U THEN Len(handed) + k ELSE 0
  BY DEF IInv, RxInOrder
<1> HIDE DEF U
<1>7. ASSUME NEW k \in 1 .. NRx
      PROVE  rxDesc'[slot(k)] = IF k <= U + 1 THEN Len(handed) + k ELSE 0
  <2>1. k \in Int /\ U + 1 \in Int /\ rxTail \in Int /\ slot(k) \in Rx
    <3>1. k \in Int /\ U + 1 \in Int /\ rxTail \in Int /\ rxTail + k \in Int
      BY <1>1
    <3> QED BY <1>1, <3>1, ModRange DEF Rx
  <2>2. CASE k = U + 1
    BY <1>1, <1>3, <1>5, <2>1, <2>2
  <2>3. CASE k # U + 1
    <3>1. k - (U + 1) < NRx /\ (U + 1) - k < NRx /\ k \in 0 .. NRx /\ U + 1 \in 0 .. NRx
      BY <1>1, <1>3
    <3>2. slot(k) # rdh
      BY <1>1, <1>3, <2>1, <2>3, <3>1, RingDistinct
    <3>3. rxDesc'[slot(k)] = rxDesc[slot(k)]
      BY <1>5, <2>1, <3>2
    <3>4. rxDesc[slot(k)] = IF k <= U THEN Len(handed) + k ELSE 0
      BY <1>6
    <3>5. k <= U <=> k <= U + 1
      BY <1>1, <2>3
    <3> QED BY <3>3, <3>4, <3>5
  <2> QED BY <2>2, <2>3
<1>8. RxInOrder'
  <2>1. Undelivered' \in 0 .. NRx - 1
    BY <1>1, <1>3, <1>4
  <2>2. \A k \in 1 .. Len(handed)' : handed'[k] = k
    BY DEF IInv, RxInOrder
  <2> QED BY <1>4, <1>7, <2>1, <2>2 DEF RxInOrder
<1>9. RxHeadIs'
  <2>1. U + 1 \in 0 .. NRx
    BY <1>1, <1>3
  <2>2. rdh' = (rxTail + (U + 1 + 1)) % NRx
    BY <1>1, <1>3, <2>1, RingNext
  <2> QED BY <1>2, <1>4, <2>2 DEF RxHeadIs, Receiving
<1>10. RxTypes'
  <2>1. rdh' \in Rx
    BY <1>1, ModRange DEF Rx
  <2>2. arrived' \in 0 .. MaxRx
    BY <1>1, <1>2
  <2>3. rxDesc' \in [Rx -> 0 .. MaxRx]
    BY <1>5, <2>2
  <2> QED BY <2>1, <2>2, <2>3 DEF IInv, TypeOK, RxTypes
<1> QED BY <1>8, <1>9, <1>10

\* The descriptor beyond the tail holds the next frame, if it holds one.
LEMMA NextFrameIs ==
  ASSUME IInv
  PROVE  /\ rxDesc[NextTail] = IF Undelivered = 0 THEN 0 ELSE Len(handed) + 1
         /\ NextTail \in Rx
<1>1. /\ rxTail \in 0 .. NRx - 1 /\ NRx \in Nat \ {0} /\ 1 \in 1 .. NRx
      /\ Undelivered \in Nat
  BY Counts, Sizes DEF IInv
<1>2. NextTail \in Rx
  BY <1>1, ModRange DEF Rx, NextTail
<1> QED BY <1>1, <1>2 DEF IInv, RxInOrder, NextTail

\* The handler passes the next frame on and returns its descriptor.
LEMMA DrainGood ==
  ASSUME IInv, Drain
  PROVE  RxTypes' /\ RxInOrder' /\ RxHeadIs'
<1> DEFINE U == Undelivered
           slot(k) == (rxTail + k) % NRx
<1>1. /\ rxTail \in 0 .. NRx - 1 /\ rxTail \in Int
      /\ U \in Nat /\ U <= NRx - 1 /\ NRx \in Nat \ {0} /\ MaxRx \in Nat
      /\ arrived \in Nat /\ Len(handed) \in Nat /\ arrived = Len(handed) + U
  BY Counts, Sizes DEF IInv
<1>2. /\ rxDesc[NextTail] # 0 /\ handed' = Append(handed, rxDesc[NextTail])
      /\ rxDesc' = [rxDesc EXCEPT ![NextTail] = 0] /\ rxTail' = NextTail
      /\ UNCHANGED <<rdh, arrived, phase>> /\ cpu = "drain"
  BY DEF Drain
<1>3. U # 0 /\ rxDesc[NextTail] = Len(handed) + 1 /\ NextTail \in Rx
  BY <1>2, NextFrameIs
<1>4. /\ rxDesc \in [Rx -> 0 .. MaxRx] /\ handed \in Seq(1 .. MaxRx)
      /\ arrived \in 0 .. MaxRx /\ rdh \in Rx
  BY DEF IInv, TypeOK
<1>5. Len(handed) + 1 \in 1 .. MaxRx
  BY <1>1, <1>3, <1>4
<1>6. /\ handed' \in Seq(1 .. MaxRx) /\ Len(handed') = Len(handed) + 1
      /\ handed'[Len(handed) + 1] = Len(handed) + 1
      /\ \A k \in 1 .. Len(handed) : handed'[k] = handed[k]
  BY <1>2, <1>3, <1>4, <1>5
<1>7. Undelivered' = U - 1
  BY <1>1, <1>2, <1>6 DEF Undelivered
<1>8. \A k \in 1 .. NRx : rxDesc[slot(k)] = IF k <= U THEN Len(handed) + k ELSE 0
  BY DEF IInv, RxInOrder
<1>9. NextTail = slot(1)
  BY DEF NextTail
<1>10. \A k \in 0 .. NRx : (NextTail + k) % NRx = slot(k + 1)
  BY <1>1, RingNext DEF NextTail
<1> HIDE DEF U
<1>11. ASSUME NEW k \in 1 .. NRx
       PROVE  rxDesc'[(NextTail + k) % NRx]
                = IF k <= U - 1 THEN Len(handed) + 1 + k ELSE 0
  <2>1. /\ (NextTail + k) % NRx = slot(k + 1)
        /\ k + 1 \in Int /\ 1 \in Int /\ slot(k + 1) \in Rx
    <3>1. k \in Int /\ k + 1 \in Int /\ rxTail + (k + 1) \in Int
      BY <1>1
    <3>2. slot(k + 1) \in Rx
      BY <1>1, <3>1, ModRange DEF Rx
    <3>3. k \in 0 .. NRx
      OBVIOUS
    <3> QED BY <1>10, <3>1, <3>2, <3>3
  <2>2. CASE k = NRx
    <3>1. NextTail \in 0 .. NRx - 1
      BY <1>3 DEF Rx
    <3>2. (NextTail + k) % NRx = NextTail
      BY <1>1, <2>2, <3>1, RingAround
    <3> QED BY <1>1, <1>2, <1>3, <1>4, <2>2, <3>2
  <2>3. CASE k # NRx
    <3>1. /\ k + 1 \in 1 .. NRx /\ k + 1 # 1 /\ (k + 1) - 1 < NRx /\ 1 - (k + 1) < NRx
          /\ k + 1 \in 0 .. NRx /\ 1 \in 0 .. NRx
      BY <1>1, <2>3
    <3>2. slot(k + 1) # slot(1)
      BY <1>1, <2>1, <3>1, RingDistinct
    <3>3. rxDesc'[slot(k + 1)] = rxDesc[slot(k + 1)]
      BY <1>2, <1>4, <1>9, <2>1, <3>2
    <3>4. rxDesc[slot(k + 1)] = IF k + 1 <= U THEN Len(handed) + (k + 1) ELSE 0
      BY <1>8, <3>1
    <3> QED BY <1>1, <2>1, <3>3, <3>4
  <2> QED BY <2>2, <2>3
<1>12. RxInOrder'
  <2>1. Undelivered' \in 0 .. NRx - 1
    BY <1>1, <1>3, <1>7
  <2>2. ASSUME NEW k \in 1 .. Len(handed')
        PROVE  handed'[k] = k
    <3>1. CASE k = Len(handed) + 1
      BY <1>6, <3>1
    <3>2. CASE k # Len(handed) + 1
      <4>1. k \in 1 .. Len(handed)
        BY <1>1, <1>6, <3>2
      <4> QED BY <1>6, <4>1 DEF IInv, RxInOrder
    <3> QED BY <3>1, <3>2
  <2> QED BY <1>2, <1>6, <1>7, <1>11, <2>1, <2>2 DEF RxInOrder
<1>13. RxHeadIs'
  <2>1. Receiving /\ phase \notin {"start", "mapped", "mac", "tx"}
    BY <1>2 DEF IInv, DrainsWhenOpen, Unmasked, Receiving
  <2>2. rdh = slot(U + 1)
    BY <2>1 DEF IInv, RxHeadIs, U
  <2>3. U \in 0 .. NRx /\ Undelivered' + 1 = U
    BY <1>1, <1>7
  <2>4. rdh = (NextTail + U) % NRx
    BY <1>10, <2>2, <2>3
  <2> QED BY <1>2, <2>1, <2>3, <2>4 DEF RxHeadIs
<1>14. RxTypes'
  <2>1. 0 \in 0 .. MaxRx
    BY <1>1
  <2>2. rxDesc' \in [Rx -> 0 .. MaxRx]
    BY <1>2, <1>3, <1>4, <2>1
  <2> QED BY <1>2, <1>3, <1>4, <1>6, <2>2 DEF RxTypes
<1> QED BY <1>12, <1>13, <1>14

-----------------------------------------------------------------------------
(***************************************************************************)
(* The steps that change the transmit ring.                                *)
(***************************************************************************)
\* e1000_tx_poll writes a buffer that the device has sent, or never had.
LEMMA SendGood ==
  ASSUME IInv, SendFrame
  PROVE  TxTypes' /\ TxInOrder' /\ TxTailIs'
<1> DEFINE U == Unsent
           slot(k) == (tdh + k) % NTx
<1>1. /\ tdh \in 0 .. NTx - 1 /\ tdh \in Int /\ NTx \in Nat \ {0} /\ MaxTx \in Nat
      /\ U \in Nat /\ U <= NTx /\ accepted \in Nat /\ Len(wire) \in Nat
      /\ accepted = Len(wire) + U
  BY Counts, Sizes DEF IInv
<1>2. /\ phase = "up" /\ accepted < MaxTx /\ txDone[txTail] = TRUE
      /\ txBuf' = [txBuf EXCEPT ![txTail] = accepted + 1]
      /\ txDone' = [txDone EXCEPT ![txTail] = FALSE]
      /\ txTail' = (txTail + 1) % NTx /\ accepted' = accepted + 1
      /\ UNCHANGED <<tdh, wire, phase>>
  <2>1. txDone[txTail] \in BOOLEAN
    BY DEF IInv, TypeOK
  <2> QED BY <2>1 DEF SendFrame
<1>3. /\ txBuf \in [Tx -> 0 .. MaxTx] /\ txDone \in [Tx -> BOOLEAN]
      /\ txTail \in Tx /\ tdh \in Tx /\ wire \in Seq(1 .. MaxTx)
  BY DEF IInv, TypeOK
<1>4. txTail = slot(U)
  BY DEF IInv, TxTailIs
<1>5. \A k \in 0 .. U - 1 : txBuf[slot(k)] = Len(wire) + 1 + k /\ txDone[slot(k)] = FALSE
  <2>1. ASSUME NEW k \in 0 .. U - 1
        PROVE  txBuf[slot(k)] = Len(wire) + 1 + k /\ ~txDone[slot(k)]
    BY DEF IInv, TxInOrder
  <2>2. ASSUME NEW k \in 0 .. U - 1
        PROVE  txDone[slot(k)] \in BOOLEAN
    <3>1. k \in Int /\ tdh + k \in Int
      BY <1>1
    <3>2. slot(k) \in Tx
      BY <1>1, <3>1, ModRange DEF Tx
    <3> QED BY <1>3, <3>2
  <2> QED BY <2>1, <2>2
<1>6. Unsent' = U + 1
  BY <1>1, <1>2 DEF Unsent
<1>7. U < NTx
  <2>1. CASE U = NTx
    <3>1. slot(NTx) = tdh /\ slot(0) = tdh
      BY <1>1, RingAround
    <3>2. 0 \in 0 .. U - 1
      BY <1>1, <2>1
    <3>3. txDone[slot(0)] = FALSE
      BY <1>5, <3>2
    <3> QED BY <1>2, <1>4, <2>1, <3>1, <3>3
  <2> QED BY <1>1, <2>1
<1> HIDE DEF U
<1>8. ASSUME NEW k \in 0 .. U
      PROVE  txBuf'[slot(k)] = Len(wire) + 1 + k /\ txDone'[slot(k)] = FALSE
  <2>1. k \in Int /\ U \in Int /\ slot(k) \in Tx
    <3>1. k \in Int /\ tdh + k \in Int /\ U \in Int
      BY <1>1
    <3> QED BY <1>1, <3>1, ModRange DEF Tx
  <2>2. CASE k = U
    <3>1. slot(k) = txTail /\ accepted + 1 = Len(wire) + 1 + k
      BY <1>1, <1>4, <2>2
    <3> QED BY <1>2, <1>3, <3>1
  <2>3. CASE k # U
    <3>1. /\ k \in 0 .. U - 1 /\ k - U < NTx /\ U - k < NTx
          /\ k \in 0 .. NTx /\ U \in 0 .. NTx
      BY <1>1, <1>7, <2>3
    <3>2. slot(k) # txTail
      BY <1>1, <1>4, <2>1, <2>3, <3>1, RingDistinct
    <3>3. txBuf'[slot(k)] = txBuf[slot(k)] /\ txDone'[slot(k)] = txDone[slot(k)]
      BY <1>2, <1>3, <2>1, <3>2
    <3>4. txBuf[slot(k)] = Len(wire) + 1 + k /\ txDone[slot(k)] = FALSE
      BY <1>5, <3>1
    <3> QED BY <3>3, <3>4
  <2> QED BY <2>2, <2>3
<1>9. TxInOrder'
  <2>1. Unsent' \in 0 .. NTx /\ Unsent' - 1 = U
    BY <1>1, <1>6, <1>7
  <2>2. \A k \in 1 .. Len(wire)' : wire'[k] = k
    BY <1>2 DEF IInv, TxInOrder
  <2> QED BY <1>2, <1>8, <2>1, <2>2 DEF TxInOrder
<1>10. TxTailIs'
  <2>1. U \in 0 .. NTx
    BY <1>1
  <2>2. txTail' = (tdh + (U + 1)) % NTx
    BY <1>1, <1>2, <1>4, <2>1, RingNext
  <2> QED BY <1>2, <1>6, <2>2 DEF TxTailIs
<1>11. TxTypes'
  <2>1. txTail' \in Tx
    <3>1. txTail + 1 \in Int
      BY <1>3 DEF Tx
    <3> QED BY <1>1, <1>2, <3>1, ModRange DEF Tx
  <2>2. accepted' \in 0 .. MaxTx /\ accepted + 1 \in 0 .. MaxTx
    BY <1>1, <1>2
  <2>3. txBuf' \in [Tx -> 0 .. MaxTx] /\ txDone' \in [Tx -> BOOLEAN]
    BY <1>2, <1>3, <2>2
  <2> QED BY <1>2, <1>3, <2>1, <2>2, <2>3 DEF TxTypes
<1> QED BY <1>9, <1>10, <1>11

\* The device sends the frame at its head.
LEMMA TransmitGood ==
  ASSUME IInv, DeviceTransmits
  PROVE  TxTypes' /\ TxInOrder' /\ TxTailIs'
<1> DEFINE U == Unsent
           slot(k) == (tdh + k) % NTx
<1>1. /\ tdh \in 0 .. NTx - 1 /\ tdh \in Int /\ NTx \in Nat \ {0} /\ MaxTx \in Nat
      /\ U \in Nat /\ U <= NTx /\ accepted \in Nat /\ Len(wire) \in Nat
      /\ accepted = Len(wire) + U
  BY Counts, Sizes DEF IInv
<1>2. /\ phase = "up" /\ tdh # txTail /\ wire' = Append(wire, txBuf[tdh])
      /\ txDone' = [txDone EXCEPT ![tdh] = TRUE] /\ tdh' = (tdh + 1) % NTx
      /\ UNCHANGED <<phase, txBuf, txTail, accepted>>
  BY DEF DeviceTransmits
<1>3. /\ txBuf \in [Tx -> 0 .. MaxTx] /\ txDone \in [Tx -> BOOLEAN]
      /\ txTail \in Tx /\ tdh \in Tx /\ wire \in Seq(1 .. MaxTx)
      /\ accepted \in 0 .. MaxTx
  BY DEF IInv, TypeOK
<1>4. txTail = slot(U) /\ slot(0) = tdh
  BY <1>1, RingAround DEF IInv, TxTailIs
<1>5. U # 0
  BY <1>2, <1>4
<1>6. \A k \in 0 .. U - 1 : txBuf[slot(k)] = Len(wire) + 1 + k /\ ~txDone[slot(k)]
  BY DEF IInv, TxInOrder
<1> HIDE DEF U
<1>7. txBuf[tdh] = Len(wire) + 1 /\ Len(wire) + 1 \in 1 .. MaxTx
  <2>1. 0 \in 0 .. U - 1 /\ Len(wire) + 1 + 0 = Len(wire) + 1
    BY <1>1, <1>5
  <2>2. txBuf[slot(0)] = Len(wire) + 1
    BY <1>6, <2>1
  <2> QED BY <1>1, <1>3, <1>4, <1>5, <2>2
<1>8. /\ wire' \in Seq(1 .. MaxTx) /\ Len(wire') = Len(wire) + 1
      /\ wire'[Len(wire) + 1] = Len(wire) + 1
      /\ \A k \in 1 .. Len(wire) : wire'[k] = wire[k]
  BY <1>2, <1>3, <1>7
<1>9. Unsent' = U - 1
  BY <1>1, <1>2, <1>8 DEF Unsent, U
<1>10. \A k \in 0 .. NTx : (tdh' + k) % NTx = slot(k + 1)
  BY <1>1, <1>2, RingNext
<1>11. ASSUME NEW k \in 0 .. U - 2
       PROVE  /\ txBuf'[(tdh' + k) % NTx] = Len(wire) + 1 + 1 + k
              /\ ~txDone'[(tdh' + k) % NTx]
  <2>1. /\ k + 1 \in 0 .. U - 1 /\ k + 1 \in Int /\ k \in Int /\ 0 \in Int
        /\ (k + 1) - 0 < NTx /\ 0 - (k + 1) < NTx /\ tdh + (k + 1) \in Int
        /\ k + 1 # 0 /\ Len(wire) + 1 + (k + 1) = Len(wire) + 1 + 1 + k
        /\ k \in 0 .. NTx /\ k + 1 \in 0 .. NTx /\ 0 \in 0 .. NTx
    BY <1>1
  <2>2. slot(k + 1) # slot(0)
    BY <1>1, <2>1, RingDistinct
  <2>3. slot(k + 1) \in Tx
    BY <1>1, <2>1, ModRange DEF Tx
  <2>4. txDone'[slot(k + 1)] = txDone[slot(k + 1)]
    BY <1>2, <1>3, <1>4, <2>2, <2>3
  <2>5. /\ txBuf[slot(k + 1)] = Len(wire) + 1 + 1 + k
        /\ ~txDone[slot(k + 1)]
    BY <1>6, <2>1
  <2>6. (tdh' + k) % NTx = slot(k + 1)
    BY <1>10, <2>1
  <2> QED BY <1>2, <2>4, <2>5, <2>6
<1>12. TxInOrder'
  <2>1. Unsent' \in 0 .. NTx /\ Unsent' - 1 = U - 2
    BY <1>1, <1>5, <1>9
  <2>2. ASSUME NEW k \in 1 .. Len(wire')
        PROVE  wire'[k] = k
    <3>1. CASE k = Len(wire) + 1
      BY <1>8, <3>1
    <3>2. CASE k # Len(wire) + 1
      <4>1. k \in 1 .. Len(wire)
        BY <1>1, <1>8, <3>2
      <4> QED BY <1>8, <4>1 DEF IInv, TxInOrder
    <3> QED BY <3>1, <3>2
  <2>3. Len(wire') = Len(wire) + 1
    BY <1>8
  <2> QED BY <1>11, <2>1, <2>2, <2>3 DEF TxInOrder
<1>13. TxTailIs'
  <2>1. U - 1 \in 0 .. NTx /\ (U - 1) + 1 = U
    BY <1>1, <1>5
  <2>2. txTail = (tdh' + (U - 1)) % NTx
    BY <1>4, <1>10, <2>1
  <2> QED BY <1>2, <1>9, <2>2 DEF TxTailIs
<1>14. TxTypes'
  <2>1. tdh + 1 \in Int
    BY <1>1
  <2>2. tdh' \in Tx
    BY <1>1, <1>2, <2>1, ModRange DEF Tx
  <2>3. txDone' \in [Tx -> BOOLEAN]
    BY <1>2, <1>3
  <2> QED BY <1>2, <1>3, <1>8, <2>2, <2>3 DEF TxTypes
<1> QED BY <1>12, <1>13, <1>14

-----------------------------------------------------------------------------
(***************************************************************************)
(* Every step preserves the invariant.                                     *)
(***************************************************************************)
\* TypeOK in parts: the ring that a step changes, the other, and the rest.
OtherTypes ==
  /\ phase \in {"start", "mapped", "mac", "tx", "rings", "netdev", "handler",
                "unmasked", "armed", "up", "failed"}
  /\ linkUp \in BOOLEAN /\ wakeupLost \in BOOLEAN
  /\ cpu \in {"task", "drain", "crashed"}
  /\ causes \subseteq {"RXT0", "RXDMT0", "RXO"}

LEMMA TypeParts == TypeOK <=> OtherTypes /\ RxTypes /\ TxTypes
BY DEF TypeOK, OtherTypes, RxTypes, TxTypes

LEMMA RxUnchanged ==
  ASSUME RxTypes, RxInOrder, UNCHANGED rxVars
  PROVE  RxTypes' /\ RxInOrder' /\ Undelivered' = Undelivered
BY DEF rxVars, RxTypes, RxInOrder, Undelivered

LEMMA TxUnchanged ==
  ASSUME TxTypes, TxInOrder, UNCHANGED txVars
  PROVE  TxTypes' /\ TxInOrder' /\ Unsent' = Unsent
BY DEF txVars, TxTypes, TxInOrder, Unsent

LEMMA InitInv == Init => IInv
<1> SUFFICES ASSUME Init PROVE IInv
  OBVIOUS
<1>1. /\ phase = "start" /\ linkUp \in BOOLEAN
      /\ cpu = "task" /\ causes = {} /\ wakeupLost = FALSE
      /\ rxDesc = [i \in Rx |-> 0] /\ rdh = 0 /\ rxTail = 0 /\ arrived = 0
      /\ handed = << >> /\ Len(handed) = 0 /\ wire = << >> /\ Len(wire) = 0
      /\ txBuf = [i \in Tx |-> 0] /\ txDone = [i \in Tx |-> FALSE]
      /\ tdh = 0 /\ txTail = 0 /\ accepted = 0
  BY DEF Init
<1>2. Undelivered = 0 /\ Unsent = 0
  <2>1. Undelivered = 0 - 0 /\ Unsent = 0 - 0
    BY <1>1 DEF Undelivered, Unsent
  <2> QED BY <2>1
<1>3. 0 \in Rx /\ 0 \in Tx /\ 0 \in 0 .. MaxRx /\ 0 \in 0 .. MaxTx
  BY Sizes DEF Rx, Tx
<1>4. handed \in Seq(1 .. MaxRx) /\ wire \in Seq(1 .. MaxTx)
  BY <1>1
<1>5. TypeOK
  BY <1>1, <1>3, <1>4 DEF TypeOK
<1>6. RxInOrder
  <2>1. ASSUME NEW k \in 1 .. NRx
        PROVE  rxDesc[(rxTail + k) % NRx] = IF k <= Undelivered THEN Len(handed) + k ELSE 0
    <3>1. NRx \in Nat \ {0} /\ rxTail + k \in Int
      BY <1>1, Sizes
    <3>2. (rxTail + k) % NRx \in Rx
      BY <3>1, ModRange DEF Rx
    <3> QED BY <1>1, <1>2, <3>2
  <2>2. Undelivered \in 0 .. NRx - 1
    BY <1>2, Sizes
  <2> QED BY <1>1, <2>1, <2>2 DEF RxInOrder
<1>7. TxInOrder
  BY <1>1, <1>2, Sizes DEF TxInOrder
<1>8. TxTailIs
  <2>1. NTx \in Nat \ {0} /\ 0 \in 0 .. NTx - 1
    BY Sizes
  <2>2. (0 + 0) % NTx = 0
    BY <2>1, RingAround
  <2> QED BY <1>1, <1>2, <2>2 DEF TxTailIs
<1> QED BY <1>1, <1>2, <1>5, <1>6, <1>7, <1>8
        DEF IInv, RxHeadIs, Receiving, DrainsWhenOpen, FrameHasWakeup

\* The steps of e1000_probe change nothing in the rings but the heads.
LEMMA ProbeInv ==
  ASSUME IInv, Probe
  PROVE  IInv'
<1> USE DEF IInv
<1>1. /\ OtherTypes /\ RxTypes /\ TxTypes /\ NTx \in Nat \ {0} /\ NRx \in Nat \ {0}
      /\ rxTail \in 0 .. NRx - 1 /\ Undelivered \in Nat
  BY TypeParts, Counts, Sizes
<1>2. CASE InitMmio \/ ReadMacAddr \/ RegisterNetdev \/ RegisterHandler \/ Unmask
           \/ ClearCauses \/ SetLinkUp
  <2>1. UNCHANGED rxVars /\ UNCHANGED txVars /\ cpu = "task" /\ cpu' # "drain"
    BY <1>2 DEF InitMmio, ReadMacAddr, RegisterNetdev, RegisterHandler, Unmask,
                ClearCauses, SetLinkUp, intrVars
  <2>2. /\ RxTypes' /\ RxInOrder' /\ Undelivered' = Undelivered
        /\ TxTypes' /\ TxInOrder' /\ Unsent' = Unsent
    BY <1>1, <2>1, RxUnchanged, TxUnchanged
  <2>3. OtherTypes'
    BY <1>1, <1>2 DEF OtherTypes, InitMmio, ReadMacAddr, RegisterNetdev,
       RegisterHandler, Unmask, ClearCauses, SetLinkUp, intrVars
  <2>4. /\ Receiving' => Receiving
        /\ phase' \in {"start", "mapped", "mac", "tx"}
             => phase \in {"start", "mapped", "mac", "tx"}
        /\ phase # "up"
    BY <1>2 DEF InitMmio, ReadMacAddr, RegisterNetdev, RegisterHandler, Unmask,
                ClearCauses, SetLinkUp, Receiving
  <2>5. RxHeadIs'
    BY <2>1, <2>2, <2>4 DEF RxHeadIs, rxVars
  <2>6. TxTailIs'
    BY <2>1, <2>2, <2>4 DEF TxTailIs, txVars
  <2>7. FrameHasWakeup'
    BY <1>2, <2>1, <2>2 DEF FrameHasWakeup, InitMmio, ReadMacAddr, RegisterNetdev,
       RegisterHandler, Unmask, ClearCauses, SetLinkUp, intrVars
  <2>8. TypeOK'
    BY <2>2, <2>3 DEF TypeOK, OtherTypes, RxTypes, TxTypes
  <2> QED BY <2>1, <2>2, <2>5, <2>6, <2>7, <2>8 DEF DrainsWhenOpen
<1>3. CASE InitTx
  <2>1. /\ phase = "mac" /\ phase' \in {"tx", "failed"} /\ cpu = "task"
        /\ UNCHANGED rxVars /\ UNCHANGED intrVars /\ linkUp' = linkUp
        /\ txDone' = [i \in Tx |-> TRUE]
        /\ UNCHANGED <<txBuf, tdh, txTail, accepted, wire>>
    BY <1>3 DEF InitTx
  <2>2. RxTypes' /\ RxInOrder' /\ Undelivered' = Undelivered
    BY <1>1, <2>1, RxUnchanged
  <2>3. TxTypes' /\ OtherTypes'
    BY <1>1, <2>1 DEF TxTypes, OtherTypes, intrVars
  <2>4. Unsent' = Unsent /\ Unsent = 0
    <3>1. Unsent' = Unsent /\ Unsent = 0 - 0
      BY <2>1 DEF TxTailIs, Unsent
    <3> QED BY <3>1
  <2>5. TxInOrder' /\ TxTailIs'
    BY <2>1, <2>4 DEF TxInOrder, TxTailIs
  <2>6. RxHeadIs' /\ FrameHasWakeup' /\ DrainsWhenOpen'
    BY <2>1, <2>2 DEF RxHeadIs, Receiving, FrameHasWakeup, DrainsWhenOpen,
                      intrVars, rxVars
  <2>7. TypeOK'
    BY <2>2, <2>3 DEF TypeOK, OtherTypes, RxTypes, TxTypes
  <2> QED BY <2>2, <2>5, <2>6, <2>7
<1>4. CASE InitRx
  <2>1. /\ phase = "tx" /\ phase' \in {"rings", "failed"} /\ cpu = "task"
        /\ UNCHANGED txVars /\ UNCHANGED intrVars /\ linkUp' = linkUp /\ rdh' = 1
        /\ UNCHANGED <<rxDesc, rxTail, arrived, handed>>
    BY <1>4 DEF InitRx
  <2>2. TxTypes' /\ TxInOrder' /\ Unsent' = Unsent
    BY <1>1, <2>1, TxUnchanged
  <2>3. RxTypes' /\ OtherTypes'
    BY <1>1, <2>1, Sizes DEF RxTypes, OtherTypes, intrVars, Rx
  <2>4. RxInOrder' /\ Undelivered' = Undelivered
    BY <2>1 DEF RxInOrder, Undelivered
  <2>5. TxTailIs' /\ FrameHasWakeup' /\ DrainsWhenOpen'
    BY <2>1, <2>2, <2>4 DEF TxTailIs, FrameHasWakeup, DrainsWhenOpen, intrVars, txVars
  <2>6. RxHeadIs'
    <3>1. Undelivered = 0 /\ rxTail = 0
      <4>1. Undelivered = 0 - 0 /\ rxTail = 0
        BY <2>1 DEF RxHeadIs, Undelivered
      <4> QED BY <4>1
    <3>2. 1 \in Nat /\ 0 \in 0 .. NRx - 1 /\ 1 <= NRx /\ 0 + 1 < NRx
      BY Sizes
    <3>3. (0 + 1) % NRx = 1
      BY <1>1, <3>2, Wrap
    <3>4. rdh' = (rxTail' + (Undelivered' + 1)) % NRx
      BY <2>1, <2>4, <3>1, <3>3
    <3> QED BY <2>1, <3>4 DEF RxHeadIs
  <2>7. TypeOK'
    BY <2>2, <2>3 DEF TypeOK, OtherTypes, RxTypes, TxTypes
  <2> QED BY <2>2, <2>4, <2>5, <2>6, <2>7
<1> QED BY <1>2, <1>3, <1>4 DEF Probe

LEMMA DeviceReceivesInv ==
  ASSUME IInv, DeviceReceives
  PROVE  IInv'
<1> USE DEF IInv
<1>1. OtherTypes /\ RxTypes /\ TxTypes
  BY TypeParts
<1>2. UNCHANGED <<phase, linkUp, cpu, wakeupLost, txVars>> /\ Receiving
  BY DEF DeviceReceives
<1>3. TxTypes' /\ TxInOrder' /\ Unsent' = Unsent
  BY <1>1, <1>2, TxUnchanged
<1>4. TxTailIs' /\ DrainsWhenOpen'
  BY <1>2, <1>3 DEF TxTailIs, DrainsWhenOpen, Unmasked, txVars
<1>5. causes' # {} /\ causes' \subseteq {"RXT0", "RXDMT0", "RXO"}
  BY <1>1 DEF DeviceReceives, OtherTypes
<1>6. OtherTypes' /\ FrameHasWakeup'
  BY <1>1, <1>2, <1>5 DEF OtherTypes, FrameHasWakeup
<1>7. RxTypes' /\ RxInOrder' /\ RxHeadIs'
  <2>1. CASE UNCHANGED rxVars
    BY <1>1, <1>2, <2>1, RxUnchanged DEF RxHeadIs, rxVars, Receiving
  <2>2. CASE /\ Free > 0 /\ arrived' = arrived + 1
             /\ rxDesc' = [rxDesc EXCEPT ![rdh] = arrived + 1]
             /\ rdh' = (rdh + 1) % NRx /\ UNCHANGED <<rxTail, handed>>
    BY <1>2, <2>2, StoreGood
  <2> QED BY <2>1, <2>2 DEF DeviceReceives
<1>8. TypeOK'
  BY <1>3, <1>6, <1>7 DEF TypeOK, OtherTypes, RxTypes, TxTypes
<1> QED BY <1>3, <1>4, <1>6, <1>7, <1>8

\* The steps that touch the transmit ring only.
LEMMA TransmitRingInv ==
  ASSUME IInv, SendFrame \/ DeviceTransmits
  PROVE  IInv'
<1> USE DEF IInv
<1>1. OtherTypes /\ RxTypes /\ TxTypes
  BY TypeParts
<1>2. UNCHANGED <<phase, linkUp, intrVars>> /\ UNCHANGED rxVars
  BY DEF SendFrame, DeviceTransmits
<1>3. TxTypes' /\ TxInOrder' /\ TxTailIs'
  BY SendGood, TransmitGood
<1>4. RxTypes' /\ RxInOrder' /\ Undelivered' = Undelivered
  BY <1>1, <1>2, RxUnchanged
<1>5. OtherTypes' /\ RxHeadIs' /\ DrainsWhenOpen' /\ FrameHasWakeup'
  BY <1>1, <1>2, <1>4 DEF OtherTypes, RxHeadIs, DrainsWhenOpen, FrameHasWakeup,
                          Unmasked, Receiving, intrVars, rxVars
<1>6. TypeOK'
  BY <1>3, <1>4, <1>5 DEF TypeOK, OtherTypes, RxTypes, TxTypes
<1> QED BY <1>3, <1>4, <1>5, <1>6

\* The interrupt and its handler; that is done only when the ring is empty.
LEMMA HandlerInv ==
  ASSUME IInv, Interrupt \/ Drain \/ Drained
  PROVE  IInv'
<1> USE DEF IInv
<1>1. OtherTypes /\ RxTypes /\ TxTypes
  BY TypeParts
<1>2. UNCHANGED <<phase, linkUp>> /\ UNCHANGED txVars
  BY DEF Interrupt, Drain, Drained
<1>3. TxTypes' /\ TxInOrder' /\ Unsent' = Unsent
  BY <1>1, <1>2, TxUnchanged
<1>4. TxTailIs'
  BY <1>2, <1>3 DEF TxTailIs, txVars
<1>5. RxTypes' /\ RxInOrder' /\ RxHeadIs'
  <2>1. CASE UNCHANGED rxVars
    BY <1>1, <1>2, <2>1, RxUnchanged DEF RxHeadIs, rxVars, Receiving
  <2>2. CASE Drain
    BY <2>2, DrainGood
  <2> QED BY <2>1, <2>2 DEF Interrupt, Drained
<1>6. OtherTypes'
  BY <1>1 DEF OtherTypes, Interrupt, Drain, Drained, intrVars
<1>7. DrainsWhenOpen'
  BY DEF DrainsWhenOpen, Unmasked, Interrupt, Drain, Drained, intrVars
<1>8. FrameHasWakeup'
  <2>1. CASE Interrupt
    BY <2>1 DEF Interrupt, FrameHasWakeup
  <2>2. CASE Drain
    BY <2>2 DEF Drain, FrameHasWakeup, intrVars
  <2>3. CASE Drained
    <3>1. rxDesc[NextTail] = 0 /\ UNCHANGED rxVars
      BY <2>3 DEF Drained
    <3>2. Undelivered = 0
      BY <3>1, NextFrameIs, Counts
    <3>3. Undelivered' = 0
      BY <1>1, <3>1, <3>2, RxUnchanged
    <3> QED BY <3>3 DEF FrameHasWakeup
  <2> QED BY <2>1, <2>2, <2>3
<1>9. TypeOK'
  BY <1>3, <1>5, <1>6 DEF TypeOK, OtherTypes, RxTypes, TxTypes
<1> QED BY <1>3, <1>4, <1>5, <1>7, <1>8, <1>9

LEMMA NextInv == IInv /\ [Next]_vars => IInv'
<1> SUFFICES ASSUME IInv, [Next]_vars PROVE IInv'
  OBVIOUS
<1>1. CASE Probe
  BY <1>1, ProbeInv
<1>2. CASE DeviceReceives
  BY <1>2, DeviceReceivesInv
<1>3. CASE SendFrame \/ DeviceTransmits
  BY <1>3, TransmitRingInv
<1>4. CASE Interrupt \/ Drain \/ Drained
  BY <1>4, HandlerInv
<1>5. CASE UNCHANGED vars
  <2>1. /\ UNCHANGED <<phase, linkUp, cpu, causes, wakeupLost>>
        /\ UNCHANGED <<rxDesc, rdh, rxTail, arrived, handed>>
        /\ UNCHANGED <<txBuf, txDone, tdh, txTail, accepted, wire>>
    BY <1>5 DEF vars, intrVars, rxVars, txVars
  <2>2. TypeOK' /\ RxInOrder' /\ TxInOrder' /\ Undelivered' = Undelivered
        /\ Unsent' = Unsent
    BY <2>1 DEF IInv, TypeOK, RxInOrder, TxInOrder, Undelivered, Unsent
  <2> QED BY <2>1, <2>2 DEF IInv, RxHeadIs, TxTailIs, DrainsWhenOpen, FrameHasWakeup,
                            Receiving, Unmasked
<1> QED BY <1>1, <1>2, <1>3, <1>4, <1>5 DEF Next

LEMMA Invariance == Spec => []IInv
BY InitInv, NextInv, PTL DEF Spec

-----------------------------------------------------------------------------
(***************************************************************************)
(* What the invariant says.                                                *)
(***************************************************************************)
\* Frames are handed to the network in the order in which they arrived and
\* transmitted in the order in which they were accepted, and neither side
\* writes a descriptor of the other (e1000_rx_poll, e1000_tx_poll).
THEOREM RingsAlwaysCorrect == Spec => []RingsCorrect
<1>1. IInv => RingsCorrect
  BY DEF IInv, RingsCorrect
<1> QED BY <1>1, Invariance, PTL

\* A frame that waits has a cause in ICR or a handler at work, unless
\* e1000_init_interrupts has thrown its cause away.
THEOREM WaitingFrameIsSeen == Spec => []FrameHasWakeup
<1>1. IInv => FrameHasWakeup
  BY DEF IInv
<1> QED BY <1>1, Invariance, PTL

\* With the link down at the start no cause is thrown away: the device is
\* silent until e1000_set_link_up, behind the read of ICR.
THEOREM NoWakeupIsLost == Spec => NoWakeupLostIfLinkDown
<1>1. Init /\ ~linkUp => NoCauseBeforeUp
  BY DEF Init, NoCauseBeforeUp
<1>2. NoCauseBeforeUp /\ [Next]_vars => NoCauseBeforeUp'
  <2> SUFFICES ASSUME NoCauseBeforeUp, [Next]_vars PROVE NoCauseBeforeUp'
    OBVIOUS
  <2> USE DEF NoCauseBeforeUp
  <2>1. CASE Probe
    <3>1. CASE SetLinkUp
      BY <3>1 DEF SetLinkUp, intrVars
    <3>2. CASE ClearCauses
      <4>1. phase # "up" /\ UNCHANGED linkUp /\ causes' = {}
            /\ wakeupLost' = (wakeupLost \/ causes # {})
        BY <3>2 DEF ClearCauses
      <4>2. ~linkUp /\ ~wakeupLost /\ causes = {}
        BY <4>1
      <4> QED BY <4>1, <4>2
    <3>3. CASE ~SetLinkUp /\ ~ClearCauses
      <4>1. UNCHANGED <<linkUp, causes, wakeupLost>> /\ phase # "up"
        BY <2>1, <3>3 DEF Probe, InitMmio, ReadMacAddr, InitTx, InitRx,
           RegisterNetdev, RegisterHandler, Unmask, intrVars
      <4> QED BY <4>1
    <3> QED BY <3>1, <3>2, <3>3
  <2>2. CASE DeviceReceives
    BY <2>2 DEF DeviceReceives
  <2>3. CASE SendFrame \/ DeviceTransmits
    BY <2>3 DEF SendFrame, DeviceTransmits, intrVars
  <2>4. CASE Interrupt \/ Drain \/ Drained
    BY <2>4 DEF Interrupt, Drain, Drained, intrVars
  <2>5. CASE UNCHANGED vars
    BY <2>5 DEF vars, intrVars
  <2> QED BY <2>1, <2>2, <2>3, <2>4, <2>5 DEF Next
<1>3. NoCauseBeforeUp => ~wakeupLost
  BY DEF NoCauseBeforeUp
<1> QED BY <1>1, <1>2, <1>3, PTL DEF Spec, NoWakeupLostIfLinkDown
=============================================================================
