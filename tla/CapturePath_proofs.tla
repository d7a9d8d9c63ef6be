-------------------------- MODULE CapturePath_proofs --------------------------
(***************************************************************************)
(* Proofs about CapturePath, for every ring size, escape count, load order *)
(* and extent.                                                             *)
(*                                                                         *)
(* The argument is in three layers.  RingInv says what the ring holds and  *)
(* what a half-finished load of ring_head still guarantees; it rests on    *)
(* nothing else.  LogInv (the file) and EscapeExact (the scanner) each use it.  *)
(***************************************************************************)
EXTENDS CapturePath, TLAPS

Pending == accepted - consumed

-----------------------------------------------------------------------------
(* Arithmetic of ring indices *)

\* Adding or subtracting less than a ring's length wraps at most once.
LEMMA WrapOnce ==
    ASSUME NEW x \in Int
    PROVE  /\ (0 <= x /\ x < RING_SIZE) => x % RING_SIZE = x
           /\ (RING_SIZE <= x /\ x < 2 * RING_SIZE) => x % RING_SIZE = x - RING_SIZE
           /\ (-RING_SIZE <= x /\ x < 0) => x % RING_SIZE = x + RING_SIZE
BY RadixAssumption DEF RING_SIZE

\* The three computations on indices that the code and the invariant use.
LEMMA NextSlotValue ==
    ASSUME NEW h \in Index
    PROVE  /\ NextSlot(h) \in Index
           /\ NextSlot(h) = IF h = RING_SIZE - 1 THEN 0 ELSE h + 1
<1>1. CASE h = RING_SIZE - 1
  <2>1. (h + 1) % RING_SIZE = h + 1 - RING_SIZE
    BY <1>1, WrapOnce, RadixAssumption DEF RING_SIZE
  <2> QED
    BY <2>1, <1>1, RadixAssumption DEF NextSlot, Index, RING_SIZE
<1>2. CASE h # RING_SIZE - 1
  <2>1. h + 1 \in Int /\ 0 <= h + 1 /\ h + 1 < RING_SIZE
    BY <1>2, RadixAssumption DEF Index, RING_SIZE
  <2>2. (h + 1) % RING_SIZE = h + 1
    BY <2>1, WrapOnce
  <2> QED
    BY <2>1, <2>2, <1>2, RadixAssumption DEF NextSlot, Index, RING_SIZE
<1> QED
  BY <1>1, <1>2

\* The distance from tail to head, as the code computes it with a mask.
LEMMA Distance ==
    ASSUME NEW h \in Index, NEW t \in Index
    PROVE  (h - t) % RING_SIZE = IF h >= t THEN h - t ELSE h - t + RING_SIZE
<1>1. CASE h >= t
  <2>1. h - t \in Int /\ 0 <= h - t /\ h - t < RING_SIZE
    BY <1>1, RadixAssumption DEF Index, RING_SIZE
  <2> QED
    BY <2>1, <1>1, WrapOnce
<1>2. CASE ~ (h >= t)
  <2>1. h - t \in Int /\ -RING_SIZE <= h - t /\ h - t < 0
    BY <1>2, RadixAssumption DEF Index, RING_SIZE
  <2> QED
    BY <2>1, <1>2, WrapOnce
<1> QED
  BY <1>1, <1>2

\* A slot at a given distance after the tail.
LEMMA Offset ==
    ASSUME NEW t \in Index, NEW j \in Index
    PROVE  /\ (t + j) % RING_SIZE \in Index
           /\ (t + j) % RING_SIZE = IF t + j < RING_SIZE THEN t + j ELSE t + j - RING_SIZE
<1>1. CASE t + j < RING_SIZE
  <2>1. t + j \in Int /\ 0 <= t + j /\ t + j < RING_SIZE
    BY <1>1, RadixAssumption DEF Index, RING_SIZE
  <2> QED
    BY <2>1, <1>1, WrapOnce, RadixAssumption DEF Index, RING_SIZE
<1>2. CASE ~ (t + j < RING_SIZE)
  <2>1. t + j \in Int /\ RING_SIZE <= t + j /\ t + j < 2 * RING_SIZE
    BY <1>2, RadixAssumption DEF Index, RING_SIZE
  <2> QED
    BY <2>1, <1>2, WrapOnce, RadixAssumption DEF Index, RING_SIZE
<1> QED
  BY <1>1, <1>2

\* An index is its two bytes; the high one takes four values.
LEMMA TwoBytes ==
    ASSUME NEW h \in Index
    PROVE  /\ HighByte(h) \in {0, 1, 2, 3}
           /\ LowByte(h) \in 0 .. RADIX - 1
           /\ h = RADIX * HighByte(h) + LowByte(h)
BY RadixAssumption DEF Index, RING_SIZE, HighByte, LowByte

\* With ring_tail on a sector boundary, whether a sector is pending depends on
\* the half of the ring that the head is in, that is on its high byte only.
FarHalf(h) == \/ ring_tail = 0 /\ h >= SECTOR
              \/ ring_tail = SECTOR /\ h < SECTOR

\* The half of the ring that the head is in decides whether a full sector is pending.
LEMMA FarHalfIsFull ==
    ASSUME ring_tail \in {0, SECTOR}, NEW h \in Index
    PROVE  /\ (h - ring_tail) % RING_SIZE \in 0 .. RING_SIZE - 1
           /\ ((h - ring_tail) % RING_SIZE >= SECTOR) <=> FarHalf(h)
<1>1. h - ring_tail \in Int /\ -RING_SIZE <= h - ring_tail /\ h - ring_tail < RING_SIZE
  BY RadixAssumption DEF Index, RING_SIZE, SECTOR
<1> QED
  BY <1>1, WrapOnce, RadixAssumption DEF Index, RING_SIZE, SECTOR, FarHalf

-----------------------------------------------------------------------------
(* The ring *)

\* What a half-finished load guarantees.  A high byte read earlier that already
\* shows a full sector stays right: bytes only arrive meanwhile.  A low byte
\* read earlier does not matter.
LoadSound ==
    pc = "load2" =>
        \/ load.order = "lo" /\ load.half \in 0 .. RADIX - 1
        \/ /\ load.order = "hi" /\ load.half \in {0, 1, 2, 3}
           /\ FarHalf(RADIX * load.half) => Pending >= SECTOR
        \/ /\ load.order = "word" /\ load.half \in Index
           /\ FarHalf(load.half) => Pending >= SECTOR

ScanSound ==
    /\ pc \in {"load1", "load2", "poll"} => scan = 0
    /\ pc = "scan" => scan < SECTOR
    /\ pc \in {"append", "consume"} => scan = SECTOR
    /\ pc \in {"scan", "append", "consume", "repl", "command"} => Pending >= SECTOR

RingInv ==
    /\ TypeOK
    /\ ring_tail \in {0, SECTOR}
    /\ Pending = (ring_head - ring_tail) % RING_SIZE
    /\ PendingInRing
    /\ LoadSound
    /\ ScanSound
    /\ escapes \subseteq 0 .. accepted - 1

\* The byte the scanner or the card takes at offset i of a full sector is the
\* i-th pending byte.
LEMMA SpanIsPending ==
    ASSUME RingInv, Pending >= SECTOR, NEW i \in 0 .. SECTOR - 1
    PROVE  SpanByte(i) = consumed + i
<1>1. ring_tail + i \in 0 .. RING_SIZE - 1 /\ i < LenA
  BY RadixAssumption DEF RingInv, TypeOK, Index, RING_SIZE, SECTOR, LenA
<1>2. (ring_tail + i) % RING_SIZE = ring_tail + i
  BY <1>1, WrapOnce, RadixAssumption DEF RING_SIZE
<1>3. ring[(ring_tail + i) % RING_SIZE] = consumed + i
  BY RadixAssumption DEF RingInv, PendingInRing, TypeOK, Pending, SECTOR
<1> QED
  BY <1>1, <1>2, <1>3 DEF SpanByte

\* The value loop condition computes is right about the threshold.
LEMMA ThresholdSound ==
    ASSUME RingInv, pc = "load2", Avail >= SECTOR
    PROVE  Pending >= SECTOR
<1> USE RadixAssumption
<1>1. ring_head \in Index /\ ring_tail \in {0, SECTOR} /\ Pending \in Int
  BY DEF RingInv, TypeOK, Pending
<1>2. HighByte(ring_head) \in {0, 1, 2, 3} /\ LowByte(ring_head) \in 0 .. RADIX - 1
      /\ ring_head = RADIX * HighByte(ring_head) + LowByte(ring_head)
  BY <1>1, TwoBytes
<1>3. Pending >= SECTOR <=> FarHalf(ring_head)
  BY <1>1, FarHalfIsFull DEF RingInv
<1>4. CASE load.order = "lo" /\ load.half \in 0 .. RADIX - 1
  <2>1. HeadRead = RADIX * HighByte(ring_head) + load.half
    BY <1>4 DEF HeadRead
  <2>2. HeadRead \in Index /\ (FarHalf(HeadRead) <=> FarHalf(ring_head))
    BY <2>1, <1>1, <1>2, <1>4 DEF Index, RING_SIZE, SECTOR, FarHalf
  <2> QED
    BY <2>2, <1>1, <1>3, FarHalfIsFull DEF Avail
<1>5. CASE /\ load.order = "hi" /\ load.half \in {0, 1, 2, 3}
           /\ FarHalf(RADIX * load.half) => Pending >= SECTOR
  <2>1. HeadRead = RADIX * load.half + LowByte(ring_head)
    BY <1>5 DEF HeadRead
  <2>2. HeadRead \in Index /\ (FarHalf(HeadRead) <=> FarHalf(RADIX * load.half))
    BY <2>1, <1>1, <1>2, <1>5 DEF Index, RING_SIZE, SECTOR, FarHalf
  <2> QED
    BY <2>2, <1>1, <1>5, FarHalfIsFull DEF Avail
<1>6. CASE /\ load.order = "word" /\ load.half \in Index
           /\ FarHalf(load.half) => Pending >= SECTOR
  <2>1. HeadRead = load.half
    BY <1>6 DEF HeadRead
  <2> QED
    BY <2>1, <1>1, <1>6, FarHalfIsFull DEF Avail
<1> QED
  BY <1>4, <1>5, <1>6 DEF RingInv, LoadSound

-----------------------------------------------------------------------------
(* RingInv is inductive *)

\* The empty ring satisfies RingInv.
LEMMA RingInit == Init => RingInv
<1> SUFFICES ASSUME Init PROVE RingInv
  OBVIOUS
<1> USE RadixAssumption
<1>1. TypeOK
  BY DEF Init, TypeOK, NoLoad, Pcs, Index, RING_SIZE, SECTOR
<1>2. Pending = (ring_head - ring_tail) % RING_SIZE /\ PendingInRing
  <2>1. (0 - 0) % RING_SIZE = 0
    BY WrapOnce DEF RING_SIZE
  <2> QED
    BY <2>1 DEF Init, Pending, PendingInRing, RING_SIZE
<1> QED
  BY <1>1, <1>2 DEF Init, RingInv, LoadSound, ScanSound

\* The interrupt: one more pending byte, in a slot that held none.
LEMMA RingReceive ==
    ASSUME RingInv, Receive
    PROVE  RingInv'
<1> USE RadixAssumption
<1>1. /\ ring_head \in Index /\ ring_tail \in Index /\ ring_tail \in {0, SECTOR}
      /\ accepted \in Nat /\ consumed \in Nat
      /\ ring \in [Index -> Nat \cup {Blank}]
      /\ accepted - consumed = (ring_head - ring_tail) % RING_SIZE
      /\ accepted - consumed \in 0 .. RING_SIZE - 1
  BY DEF RingInv, TypeOK, Pending, PendingInRing
<1>2. PICK isEsc \in BOOLEAN : Store(isEsc)
  BY DEF Receive
<1>3. /\ NextSlot(ring_head) # ring_tail
      /\ ring' = [ring EXCEPT ![ring_head] = accepted]
      /\ ring_head' = NextSlot(ring_head)
      /\ accepted' = accepted + 1
      /\ escapes' \subseteq escapes \cup {accepted}
  BY <1>2 DEF Store
<1>4. UNCHANGED <<ring_tail, consumed, pc, load, scan, esc_seen, file, refused>>
  BY DEF Receive
<1>5. NextSlot(ring_head) \in Index
      /\ NextSlot(ring_head) = IF ring_head = RING_SIZE - 1 THEN 0 ELSE ring_head + 1
  BY <1>1, NextSlotValue
<1>6. accepted - consumed = IF ring_head >= ring_tail
          THEN ring_head - ring_tail ELSE ring_head - ring_tail + RING_SIZE
  BY <1>1, Distance
<1>7. PICK next \in Index : next = NextSlot(ring_head)
  BY <1>5
<1>8. accepted + 1 - consumed = IF next >= ring_tail
          THEN next - ring_tail ELSE next - ring_tail + RING_SIZE
  <2>1. next = IF ring_head = RING_SIZE - 1 THEN 0 ELSE ring_head + 1
    BY <1>5, <1>7
  <2>2. next # ring_tail
    BY <1>3, <1>7
  <2> QED
    BY <2>1, <2>2, <1>1, <1>6 DEF Index, RING_SIZE
<1>9. /\ accepted' - consumed' = (ring_head' - ring_tail') % RING_SIZE
      /\ accepted' - consumed' \in 0 .. RING_SIZE - 1
  <2>1. accepted' - consumed' = accepted + 1 - consumed
    BY <1>1, <1>3, <1>4
  <2>2. accepted + 1 - consumed = (next - ring_tail) % RING_SIZE
    BY <1>1, <1>8, Distance
  <2>3. accepted + 1 - consumed \in 0 .. RING_SIZE - 1
    BY <1>1, <1>8 DEF Index, RING_SIZE
  <2> QED
    BY <2>1, <2>2, <2>3, <1>3, <1>4, <1>7
<1>10. ASSUME NEW j \in 0 .. accepted' - consumed' - 1
       PROVE  ring'[(ring_tail' + j) % RING_SIZE] = consumed' + j
  <2>1. j \in Index /\ j \in 0 .. accepted - consumed
    BY <1>1, <1>3, <1>4, <1>9 DEF Index, RING_SIZE
  <2>2. PICK k \in Index : k = (ring_tail + j) % RING_SIZE
    BY <2>1, <1>1, Offset
  <2>3. k = IF ring_tail + j < RING_SIZE THEN ring_tail + j ELSE ring_tail + j - RING_SIZE
    BY <2>1, <2>2, <1>1, Offset
  <2>4. CASE j = accepted - consumed
    <3>1. k = ring_head
      BY <2>1, <2>3, <2>4, <1>1, <1>6 DEF Index, RING_SIZE
    <3>2. consumed + j = accepted
      BY <2>4, <1>1
    <3>3. ring'[k] = accepted
      BY <3>1, <1>1, <1>3
    <3> QED
      BY <3>2, <3>3, <2>2, <1>4
  <2>5. CASE j \in 0 .. accepted - consumed - 1
    <3>1. k # ring_head
      BY <2>1, <2>3, <2>5, <1>1, <1>6 DEF Index, RING_SIZE
    <3>2. ring[(ring_tail + j) % RING_SIZE] = consumed + j
      BY <2>5 DEF RingInv, PendingInRing
    <3> QED
      BY <3>1, <3>2, <2>2, <1>1, <1>3, <1>4
  <2> QED
    BY <2>1, <2>4, <2>5, <1>1
<1>11. TypeOK'
  <2>1. escapes' \subseteq Nat
    BY <1>1, <1>3 DEF RingInv, TypeOK
  <2> QED
    BY <2>1, <1>1, <1>3, <1>4, <1>5 DEF RingInv, TypeOK
<1>12. LoadSound'
  BY <1>1, <1>3, <1>4 DEF RingInv, LoadSound, Pending, FarHalf, SECTOR, TypeOK, Index
<1>13. ScanSound'
  BY <1>1, <1>3, <1>4 DEF RingInv, ScanSound, Pending, SECTOR
<1>14. escapes' \subseteq 0 .. accepted' - 1
  BY <1>1, <1>3 DEF RingInv
<1> QED
  BY <1>1, <1>4, <1>9, <1>11, <1>12, <1>13, <1>14, <1>10
  DEF RingInv, Pending, PendingInRing, SECTOR, RING_SIZE

\* A step of the main loop that keeps the ring and the counters.
LEMMA RingUntouched ==
    ASSUME RingInv, UNCHANGED <<ring, ring_head, ring_tail, accepted, escapes, consumed>>,
           TypeOK', LoadSound', ScanSound'
    PROVE  RingInv'
BY DEF RingInv, Pending, PendingInRing

\* uart_consume(512): a sector less is pending, and the tail is again at the start
\* of a half of the ring.
LEMMA RingConsume ==
    ASSUME RingInv, Consume
    PROVE  RingInv'
<1> USE RadixAssumption
<1>1. /\ ring_head \in Index /\ ring_tail \in {0, SECTOR}
      /\ accepted \in Nat /\ consumed \in Nat
      /\ accepted - consumed = (ring_head - ring_tail) % RING_SIZE
      /\ accepted - consumed \in 0 .. RING_SIZE - 1
      /\ accepted - consumed >= SECTOR
  BY DEF RingInv, TypeOK, Pending, PendingInRing, ScanSound, Consume, Advance
<1>2. /\ ring_tail' = (ring_tail + SECTOR) % RING_SIZE
      /\ consumed' = consumed + SECTOR
      /\ scan' = 0 /\ pc' = "load1"
      /\ UNCHANGED <<ring, ring_head, accepted, escapes, load, esc_seen, file, refused>>
  BY DEF Consume, Advance
<1>3. 0 \in Index /\ SECTOR \in Index /\ ring_tail \in Index
  BY <1>1 DEF Index, SECTOR, RING_SIZE
<1>4. PICK t \in Index : t = (ring_tail + SECTOR) % RING_SIZE
  BY <1>3, Offset
<1>5. t = IF ring_tail = 0 THEN SECTOR ELSE 0
  <2>1. t = IF ring_tail + SECTOR < RING_SIZE THEN ring_tail + SECTOR
              ELSE ring_tail + SECTOR - RING_SIZE
    BY <1>3, <1>4, Offset
  <2> QED
    BY <2>1, <1>1 DEF SECTOR, RING_SIZE
<1>6. accepted - consumed = IF ring_head >= ring_tail
          THEN ring_head - ring_tail ELSE ring_head - ring_tail + RING_SIZE
  BY <1>1, <1>3, Distance
<1>7. accepted - (consumed + SECTOR) = IF ring_head >= t
          THEN ring_head - t ELSE ring_head - t + RING_SIZE
  BY <1>1, <1>5, <1>6 DEF Index, SECTOR, RING_SIZE
<1>8. /\ accepted' - consumed' = (ring_head' - ring_tail') % RING_SIZE
      /\ accepted' - consumed' \in 0 .. RING_SIZE - 1
  <2>1. accepted' - consumed' = (ring_head - t) % RING_SIZE
    BY <1>1, <1>2, <1>7, Distance
  <2>2. accepted - (consumed + SECTOR) \in 0 .. RING_SIZE - 1
    BY <1>1 DEF SECTOR, RING_SIZE
  <2> QED
    BY <2>1, <2>2, <1>2, <1>4
<1>9. ASSUME NEW j \in 0 .. accepted' - consumed' - 1
      PROVE  ring'[(ring_tail' + j) % RING_SIZE] = consumed' + j
  <2>1. j \in Index /\ SECTOR + j \in Index /\ SECTOR + j \in 0 .. accepted - consumed - 1
    BY <1>1, <1>2 DEF Index, SECTOR, RING_SIZE
  <2>2. PICK k \in Index : k = (t + j) % RING_SIZE
    BY <2>1, Offset
  <2>3. k = IF t + j < RING_SIZE THEN t + j ELSE t + j - RING_SIZE
    BY <2>1, <2>2, Offset
  <2>4. PICK i \in Index : i = (ring_tail + (SECTOR + j)) % RING_SIZE
    BY <2>1, <1>3, Offset
  <2>5. i = IF ring_tail + (SECTOR + j) < RING_SIZE
              THEN ring_tail + (SECTOR + j) ELSE ring_tail + (SECTOR + j) - RING_SIZE
    BY <2>1, <2>4, <1>3, Offset
  <2>6. k = i
    BY <2>1, <2>3, <2>5, <1>1, <1>5 DEF Index, SECTOR, RING_SIZE
  <2>7. ring[i] = consumed + (SECTOR + j)
    BY <2>1, <2>4 DEF RingInv, PendingInRing
  <2> QED
    BY <2>2, <2>6, <2>7, <1>1, <1>2, <1>4, <2>1 DEF SECTOR
<1>10. TypeOK'
  BY <1>1, <1>2, <1>3, <1>4 DEF RingInv, TypeOK, Pcs, SECTOR
<1>11. LoadSound' /\ ScanSound'
  BY <1>2 DEF LoadSound, ScanSound
<1>12. ring_tail' \in {0, SECTOR}
  BY <1>2, <1>4, <1>5
<1> QED
  BY <1>2, <1>8, <1>9, <1>10, <1>11, <1>12
  DEF RingInv, Pending, PendingInRing, SECTOR, RING_SIZE

\* The first load of ring_head leaves a half value that LoadSound covers.
LEMMA RingLoadFirst ==
    ASSUME RingInv, LoadFirst
    PROVE  RingInv'
<1> USE RadixAssumption
<1>1. /\ pc = "load1" /\ pc' = "load2" /\ scan = 0
      /\ UNCHANGED <<ring, ring_head, ring_tail, accepted, escapes, consumed,
                     scan, esc_seen, file, refused>>
  BY DEF LoadFirst, LoadHead, RingInv, ScanSound
<1>2. PICK order \in LoadOrders, half \in Index :
          /\ order = "lo" => half = LowByte(ring_head)
          /\ order = "hi" => half = HighByte(ring_head)
          /\ order = "word" => half = ring_head
          /\ load' = [order |-> order, half |-> half]
  BY DEF LoadFirst, LoadHead
<1>3. ring_head \in Index /\ ring_tail \in {0, SECTOR} /\ order \in {"lo", "hi", "word"}
  BY LoadAssumption DEF RingInv, TypeOK
<1>4. Pending >= SECTOR <=> FarHalf(ring_head)
  BY <1>3, FarHalfIsFull DEF RingInv
<1>5. /\ HighByte(ring_head) \in {0, 1, 2, 3} /\ LowByte(ring_head) \in 0 .. RADIX - 1
      /\ ring_head = RADIX * HighByte(ring_head) + LowByte(ring_head)
  BY <1>3, TwoBytes
<1>6. FarHalf(RADIX * HighByte(ring_head)) <=> FarHalf(ring_head)
  BY <1>3, <1>5 DEF FarHalf, SECTOR, Index, RING_SIZE
<1>7. load'.order = order /\ load'.half = half
  BY <1>2
<1>8. LoadSound'
  <2>1. CASE order = "lo"
    BY <2>1, <1>2, <1>5, <1>7 DEF LoadSound
  <2>2. CASE order = "hi"
    BY <2>2, <1>1, <1>2, <1>4, <1>5, <1>6, <1>7 DEF LoadSound, FarHalf, Pending
  <2>3. CASE order = "word"
    BY <2>3, <1>1, <1>2, <1>4, <1>7 DEF LoadSound, FarHalf, Pending
  <2> QED
    BY <2>1, <2>2, <2>3, <1>3
<1>9. TypeOK'
  BY <1>1, <1>2, <1>3 DEF RingInv, TypeOK, Pcs
<1>10. ScanSound'
  BY <1>1 DEF ScanSound
<1> QED
  BY <1>1, <1>8, <1>9, <1>10, RingUntouched

\* The test after the second load admits only a sector that has arrived.
LEMMA RingLoadSecond ==
    ASSUME RingInv, LoadSecond
    PROVE  RingInv'
<1>1. Avail >= SECTOR => Pending >= SECTOR
  BY ThresholdSound DEF LoadSecond, Test
<1>2. TypeOK'
  BY RadixAssumption DEF RingInv, TypeOK, LoadSecond, Test, NoLoad, Pcs, Index, RING_SIZE
<1>3. scan = 0 /\ pc' = IF Avail >= SECTOR THEN "scan" ELSE "poll"
  BY DEF RingInv, ScanSound, LoadSecond, Test
<1>4. UNCHANGED <<ring, ring_head, ring_tail, accepted, escapes, consumed, scan>>
  BY DEF LoadSecond, Test
<1>5. LoadSound' /\ ScanSound'
  BY <1>1, <1>3, <1>4, RadixAssumption DEF LoadSound, ScanSound, Pending, SECTOR
<1> QED
  BY <1>2, <1>4, <1>5, RingUntouched

\* The scanner keeps the ring and stays within the sector.
LEMMA RingScanByte ==
    ASSUME RingInv, ScanByte
    PROVE  RingInv'
<1> USE RadixAssumption
<1>1. /\ pc = "scan" /\ scan \in 0 .. SECTOR /\ scan < SECTOR /\ Pending >= SECTOR
      /\ scan' = scan + 1 /\ esc_seen \in Nat
      /\ \/ pc' = AfterByte
         \/ pc' = "repl"
      /\ esc_seen' \in {0, esc_seen + 1}
  BY DEF RingInv, TypeOK, ScanSound, ScanByte
<1>2. UNCHANGED <<ring, ring_head, ring_tail, accepted, escapes, consumed, load, file, refused>>
  BY DEF ScanByte
<1>3. TypeOK'
  BY <1>1, <1>2 DEF RingInv, TypeOK, Pcs, AfterByte, SECTOR
<1>4. LoadSound' /\ ScanSound'
  BY <1>1, <1>2 DEF LoadSound, ScanSound, AfterByte, Pending, SECTOR
<1> QED
  BY <1>2, <1>3, <1>4, RingUntouched

\* Giving a sector to the card keeps the ring; the file gains a well-typed sector.
LEMMA RingAppendSector ==
    ASSUME RingInv, AppendSector
    PROVE  RingInv'
<1> USE RadixAssumption
<1>1. /\ pc = "append" /\ pc' = "consume" /\ scan = SECTOR /\ Pending >= SECTOR
      /\ consumed \in Nat
      /\ UNCHANGED <<ring, ring_head, ring_tail, accepted, escapes, consumed,
                     load, scan, esc_seen>>
  BY DEF RingInv, TypeOK, ScanSound, AppendSector, appendRest
<1>2. \A i \in 0 .. SECTOR - 1 : SpanByte(i) = consumed + i
  BY <1>1, SpanIsPending
<1>3. SpanByte(0) = consumed
  BY <1>1, <1>2 DEF SECTOR
<1>4. [i \in 0 .. SECTOR - 1 |-> SpanByte(i)] \in [0 .. SECTOR - 1 -> Nat \cup {Blank}]
  BY <1>1, <1>2 DEF SECTOR
<1>5. file' \in Seq([0 .. SECTOR - 1 -> Nat \cup {Blank}])
  <2> DEFINE T == [0 .. SECTOR - 1 -> Nat \cup {Blank}]
             e == [i \in 0 .. SECTOR - 1 |-> SpanByte(i)]
  <2>1. file \in Seq(T) /\ e \in T
    BY <1>4 DEF RingInv, TypeOK
  <2>2. file' = Append(file, e) \/ file' = file
    BY DEF AppendSector, TakeSector, RefuseSector, appendRest
  <2> HIDE DEF T, e
  <2>3. file' \in Seq(T)
    BY <2>1, <2>2
  <2> QED
    BY <2>3 DEF T
<1>6. refused' \subseteq Nat \cup {Blank}
  BY <1>1, <1>3 DEF AppendSector, TakeSector, RefuseSector, appendRest, RingInv, TypeOK
<1>7. TypeOK'
  BY <1>1, <1>5, <1>6 DEF RingInv, TypeOK, Pcs
<1>8. LoadSound' /\ ScanSound'
  BY <1>1 DEF LoadSound, ScanSound, Pending
<1> QED
  BY <1>1, <1>7, <1>8, RingUntouched

\* Every action of Next preserves RingInv.
LEMMA RingNext == RingInv /\ [Next]_vars => RingInv'
<1> SUFFICES ASSUME RingInv, [Next]_vars PROVE RingInv'
  OBVIOUS
<1>1. CASE Receive
  BY <1>1, RingReceive
<1>2. CASE LoadFirst
  BY <1>2, RingLoadFirst
<1>3. CASE LoadSecond
  BY <1>3, RingLoadSecond
<1>4. CASE ScanByte
  BY <1>4, RingScanByte
<1>5. CASE AppendSector
  BY <1>5, RingAppendSector
<1>6. CASE Consume
  BY <1>6, RingConsume
<1>7. CASE Poll
  <2>1. TypeOK' /\ LoadSound' /\ ScanSound'
    BY <1>7 DEF Poll, RingInv, TypeOK, LoadSound, ScanSound, Pcs
  <2> QED
    BY <2>1, <1>7, RingUntouched DEF Poll
<1>8. CASE EnterCommandMode
  <2>1. TypeOK' /\ LoadSound' /\ ScanSound'
    BY <1>8 DEF EnterCommandMode, RingInv, TypeOK, LoadSound, ScanSound, Pcs, Pending
  <2> QED
    BY <2>1, <1>8, RingUntouched DEF EnterCommandMode
<1>9. CASE UNCHANGED vars
  <2>1. TypeOK' /\ LoadSound' /\ ScanSound'
    BY <1>9 DEF vars, RingInv, TypeOK, LoadSound, ScanSound, FarHalf, Pending
  <2> QED
    BY <2>1, <1>9, RingUntouched DEF vars
<1> QED
  BY <1>1, <1>2, <1>3, <1>4, <1>5, <1>6, <1>7, <1>8, <1>9 DEF Next, MainStep

\* The ring holds what the counters say, in every reachable state: the inductive
\* invariant of receive interrupt and main loop.
THEOREM RingInvariance == Spec => []RingInv
BY RingInit, RingNext, PTL DEF Spec

-----------------------------------------------------------------------------
(* What follows from RingInv alone *)

\* The variables keep their types.
THEOREM TypeCorrect == Spec => []TypeOK
BY RingInvariance, PTL DEF RingInv

\* No torn read of ring_head makes log_process() work on a sector that has not
\* fully arrived: the threshold test of uart_available() >= 512 is sound as
\* long as ring_tail stays on sector boundaries, which RingInv includes.
THEOREM NoOverdrainCorrect == Spec => []NoOverdrain
<1>1. RingInv => NoOverdrain
  BY DEF RingInv, ScanSound, NoOverdrain, Pending
<1> QED
  BY <1>1, RingInvariance, PTL

\* The interrupt never overwrites a pending byte.
THEOREM PendingInRingCorrect == Spec => []PendingInRing
BY RingInvariance, PTL DEF RingInv

-----------------------------------------------------------------------------
(* The log file *)

\* The bytes given to the card so far; those of the sector just appended are
\* still in the ring until uart_consume().
Given == IF pc = "consume" THEN consumed + SECTOR ELSE consumed

Covered ==
    {n \in Nat : \/ \E s \in 1 .. Len(file) : n \in file[s][0] .. file[s][0] + SECTOR - 1
                 \/ \E r \in refused : n \in r .. r + SECTOR - 1}

LogInv ==
    /\ LogInOrder
    /\ \A s \in 1 .. Len(file) : file[s][0] + SECTOR <= Given
    /\ 0 .. Given - 1 \subseteq Covered

\* The empty file satisfies LogInv.
LEMMA LogInit == Init => LogInv
BY DEF Init, LogInv, LogInOrder, Given

\* The sector appended starts where the ones before end, or is refused.
LEMMA LogAppendSector ==
    ASSUME RingInv, LogInv, AppendSector
    PROVE  LogInv'
<1> USE RadixAssumption
<1>1. /\ pc = "append" /\ pc' = "consume" /\ consumed' = consumed
      /\ consumed \in Nat /\ Pending >= SECTOR
  BY DEF AppendSector, appendRest, RingInv, ScanSound, TypeOK
<1>2. Given = consumed /\ Given' = consumed + SECTOR
  BY <1>1 DEF Given, SECTOR
<1> DEFINE e == [i \in 0 .. SECTOR - 1 |-> SpanByte(i)]
<1>3. /\ \A i \in 0 .. SECTOR - 1 : SpanByte(i) = consumed + i
      /\ 0 \in 0 .. SECTOR - 1
  BY <1>1, SpanIsPending DEF SECTOR
<1>4. \A i \in 0 .. SECTOR - 1 : e[i] = consumed + i
  BY <1>3
<1>5. e[0] = consumed /\ SpanByte(0) = consumed
  BY <1>1, <1>3, <1>4
<1>6. file \in Seq([0 .. SECTOR - 1 -> Nat \cup {Blank}]) /\ Len(file) \in Nat
  BY DEF RingInv, TypeOK
<1>7. /\ \A s \in 1 .. Len(file) : file[s][0] \in Nat
      /\ \A s \in 1 .. Len(file) : file[s][0] + SECTOR <= consumed
      /\ 0 .. consumed - 1 \subseteq Covered
  BY <1>2, <1>3 DEF LogInv, LogInOrder
<1>8. CASE file' = Append(file, e) /\ refused' = refused
  <2> HIDE DEF e
  <2>1. /\ Len(file') = Len(file) + 1
        /\ \A s \in 1 .. Len(file) : file'[s] = file[s]
        /\ file'[Len(file) + 1] = e
    BY <1>6, <1>8
  <2>2. \A s \in 1 .. Len(file') : s \in 1 .. Len(file) \/ s = Len(file) + 1
    BY <2>1, <1>6
  <2>3. LogInOrder'
    <3>1. ASSUME NEW s \in 1 .. Len(file'), NEW i \in 0 .. SECTOR - 1
          PROVE  file'[s][0] \in Nat /\ file'[s][i] = file'[s][0] + i
      <4>1. CASE s \in 1 .. Len(file)
        BY <4>1, <2>1 DEF LogInv, LogInOrder
      <4>2. CASE s = Len(file) + 1
        BY <4>2, <2>1, <1>1, <1>4, <1>5
      <4> QED
        BY <4>1, <4>2, <2>2
    <3>2. ASSUME NEW s \in 1 .. Len(file'), NEW t \in 1 .. Len(file'), s < t
          PROVE  file'[s][0] + SECTOR <= file'[t][0]
      <4>1. s \in 1 .. Len(file) /\ file'[s] = file[s]
        BY <3>2, <2>1, <2>2, <1>6
      <4>2. CASE t \in 1 .. Len(file)
        BY <4>1, <4>2, <3>2, <2>1 DEF LogInv, LogInOrder
      <4>3. CASE t = Len(file) + 1
        BY <4>1, <4>3, <2>1, <1>5, <1>7
      <4> QED
        BY <4>2, <4>3, <2>2
    <3> QED
      BY <3>1, <3>2 DEF LogInOrder, SECTOR
  <2>4. \A s \in 1 .. Len(file') : file'[s][0] + SECTOR <= consumed + SECTOR
    BY <2>1, <2>2, <1>1, <1>5, <1>7 DEF SECTOR
  <2>5. ASSUME NEW n \in 0 .. consumed + SECTOR - 1
        PROVE  n \in Covered'
    <3>1. CASE n \in 0 .. consumed - 1
      <4>1. CASE \E s \in 1 .. Len(file) : n \in file[s][0] .. file[s][0] + SECTOR - 1
        <5>1. PICK s \in 1 .. Len(file) : n \in file[s][0] .. file[s][0] + SECTOR - 1
          BY <4>1
        <5>2. s \in 1 .. Len(file') /\ n \in file'[s][0] .. file'[s][0] + SECTOR - 1
          BY <5>1, <2>1, <1>6
        <5> QED
          BY <5>2 DEF Covered, SECTOR
      <4>2. CASE \E r \in refused : n \in r .. r + SECTOR - 1
        BY <4>2, <1>8 DEF Covered, SECTOR
      <4> QED
        BY <3>1, <4>1, <4>2, <1>7 DEF Covered
    <3>2. CASE n \in consumed .. consumed + SECTOR - 1
      <4>1. Len(file) + 1 \in 1 .. Len(file')
        BY <2>1, <1>6
      <4>2. n \in file'[Len(file) + 1][0] .. file'[Len(file) + 1][0] + SECTOR - 1
        BY <3>2, <2>1, <1>5
      <4> QED
        BY <4>1, <4>2 DEF Covered, SECTOR
    <3> QED
      BY <3>1, <3>2, <1>1
  <2>6. (\A s \in 1 .. Len(file) : file[s][0] + SECTOR <= Given)'
    BY <2>4, <1>2 DEF SECTOR
  <2>7. (0 .. Given - 1 \subseteq Covered)'
    BY <2>5, <1>1, <1>2 DEF SECTOR
  <2> QED
    BY <2>3, <2>6, <2>7 DEF LogInv
<1>9. CASE file' = file /\ refused' = refused \cup {consumed}
  <2>1. LogInOrder'
    BY <1>9 DEF LogInv, LogInOrder, SECTOR
  <2>2. \A s \in 1 .. Len(file') : file'[s][0] + SECTOR <= consumed + SECTOR
    BY <1>9, <1>1, <1>7 DEF SECTOR
  <2>3. ASSUME NEW n \in 0 .. consumed + SECTOR - 1
        PROVE  n \in Covered'
    <3>1. CASE n \in 0 .. consumed - 1
      <4>1. n \in Covered
        BY <3>1, <1>7
      <4> QED
        BY <4>1, <1>9 DEF Covered, SECTOR
    <3>2. CASE n \in consumed .. consumed + SECTOR - 1
      BY <3>2, <1>9 DEF Covered, SECTOR
    <3> QED
      BY <3>1, <3>2, <1>1
  <2>4. (\A s \in 1 .. Len(file) : file[s][0] + SECTOR <= Given)'
    BY <2>2, <1>2 DEF SECTOR
  <2>5. (0 .. Given - 1 \subseteq Covered)'
    BY <2>3, <1>1, <1>2 DEF SECTOR
  <2> QED
    BY <2>1, <2>4, <2>5 DEF LogInv
<1> QED
  BY <1>5, <1>8, <1>9 DEF AppendSector, TakeSector, RefuseSector, appendRest

\* Only AppendSector touches the file; Consume keeps Given.
LEMMA LogNext == RingInv /\ LogInv /\ [Next]_vars => LogInv'
<1> SUFFICES ASSUME RingInv, LogInv, [Next]_vars PROVE LogInv'
  OBVIOUS
<1>1. CASE AppendSector
  BY <1>1, LogAppendSector
<1>2. CASE ~ AppendSector
  <2>1. UNCHANGED <<file, refused>>
    BY <1>2 DEF Next, MainStep, Receive, LoadFirst, LoadHead, LoadSecond, Test, ScanByte, Consume, Advance, Poll,
                EnterCommandMode, vars
  <2>2. Given' = Given
    BY <1>2 DEF Given, Next, MainStep, Receive, LoadFirst, LoadHead, LoadSecond, Test, ScanByte, AfterByte,
                Consume, Advance, Poll, EnterCommandMode, vars
  <2> QED
    BY <2>1, <2>2 DEF LogInv, LogInOrder, Covered, SECTOR
<1> QED
  BY <1>1, <1>2

\* File and refused sectors together cover what was taken from the ring, in order.
THEOREM LogInvariance == Spec => [](RingInv /\ LogInv)
<1>1. Init => RingInv /\ LogInv
  BY RingInit, LogInit
<1>2. (RingInv /\ LogInv) /\ [Next]_vars => (RingInv /\ LogInv)'
  BY RingNext, LogNext
<1> QED
  BY <1>1, <1>2, PTL DEF Spec

\* Bytes reach the file in the order they arrived, whole sectors at a time and
\* once.
THEOREM LogInOrderCorrect == Spec => []LogInOrder
BY LogInvariance, PTL DEF LogInv

\* No byte leaves the ring but into the file or with a refused sector.
THEOREM NothingLostCorrect == Spec => []NothingLost
<1>1. RingInv /\ LogInv => NothingLost
  <2> SUFFICES ASSUME RingInv, LogInv, NEW n \in 0 .. consumed - 1 PROVE n \in Covered
    BY DEF NothingLost, Covered
  <2>1. n \in 0 .. Given - 1
    BY RadixAssumption DEF Given, RingInv, TypeOK, SECTOR
  <2> QED
    BY <2>1 DEF LogInv
<1> QED
  BY <1>1, LogInvariance, PTL

-----------------------------------------------------------------------------
(* The escape scanner *)

\* The scanner is never ahead of the interrupt.
LEMMA ScannedArrived ==
    ASSUME RingInv
    PROVE  /\ Scanned \in Nat /\ Scanned <= accepted
           /\ esc_seen \in Nat /\ accepted \in Nat
           /\ Threshold \in Nat /\ Threshold > 0
<1>1. /\ consumed \in Nat /\ scan \in Nat /\ esc_seen \in Nat /\ accepted \in Nat
      /\ scan <= SECTOR /\ accepted - consumed >= 0 /\ SECTOR \in Nat
  BY RadixAssumption DEF RingInv, TypeOK, PendingInRing, SECTOR, RING_SIZE
<1>2. scan = 0 \/ accepted - consumed >= SECTOR
  BY DEF RingInv, TypeOK, Pcs, ScanSound, Pending
<1>3. Threshold \in Nat /\ Threshold > 0
  BY EscAssumption DEF Threshold
<1> QED
  BY <1>1, <1>2, <1>3 DEF Scanned

\* Nothing is scanned at the start.
LEMMA EscInit == Init => EscapeExact
<1> SUFFICES ASSUME Init PROVE EscapeExact
  OBVIOUS
<1>1. Threshold \in Nat /\ Threshold > 0
  BY EscAssumption DEF Threshold
<1> QED
  BY <1>1 DEF Init, EscapeExact, Scanned, RunOfEscapes

\* A byte that arrives is beyond the scan position.
LEMMA EscReceive ==
    ASSUME RingInv, EscapeExact, Receive
    PROVE  EscapeExact'
<1>1. /\ UNCHANGED <<consumed, pc, scan, esc_seen>>
      /\ escapes \subseteq escapes' /\ escapes' \subseteq escapes \cup {accepted}
  BY DEF Receive, Store
<1>2. /\ Scanned \in Nat /\ Scanned <= accepted /\ esc_seen \in Nat
      /\ accepted \in Nat /\ Threshold \in Nat /\ Threshold > 0
  BY ScannedArrived
<1>3. Scanned' = Scanned
  BY <1>1 DEF Scanned
<1>4. \A n \in Int : n < Scanned => (n \in escapes' <=> n \in escapes)
  BY <1>1, <1>2
<1>5. esc_seen <= Scanned /\ RunOfEscapes(Scanned - esc_seen, esc_seen)
  BY DEF EscapeExact
<1>6. \A n \in (Scanned - esc_seen) .. (Scanned - esc_seen) + esc_seen - 1 : n \in escapes'
  BY <1>1, <1>5 DEF RunOfEscapes
<1>7. CASE pc \notin {"repl", "command"}
  <2>1. /\ esc_seen < Threshold
        /\ (Scanned - esc_seen) - 1 \notin escapes
        /\ \A first \in 0 .. Scanned - Threshold :
              \E n \in first .. first + Threshold - 1 : n \notin escapes
    BY <1>7 DEF EscapeExact, RunOfEscapes
  <2>2. (Scanned - esc_seen) - 1 \notin escapes'
    BY <2>1, <1>2, <1>4
  <2>3. \A first \in 0 .. Scanned - Threshold :
              \E n \in first .. first + Threshold - 1 : n \notin escapes'
    BY <2>1, <1>2, <1>4
  <2> QED
    BY <2>1, <2>2, <2>3, <1>1, <1>3, <1>5, <1>6, <1>7 DEF EscapeExact, RunOfEscapes, Threshold
<1>8. CASE pc \in {"repl", "command"}
  BY <1>1, <1>3, <1>5, <1>6, <1>8 DEF EscapeExact, RunOfEscapes, Threshold
<1> QED
  BY <1>7, <1>8

\* One byte scanned: the run grows by one or is over.
LEMMA EscScanByte ==
    ASSUME RingInv, EscapeExact, ScanByte
    PROVE  EscapeExact'
<1>1. /\ pc = "scan" /\ scan' = scan + 1
      /\ UNCHANGED <<escapes, consumed>>
  BY DEF ScanByte
<1>2. /\ Scanned \in Nat /\ esc_seen \in Nat /\ Threshold \in Nat /\ Threshold > 0
      /\ consumed \in Nat /\ scan \in Nat /\ EscCount \in Nat
  BY ScannedArrived, EscAssumption DEF RingInv, TypeOK
<1>3. Scanned' = Scanned + 1
  BY <1>1, <1>2 DEF Scanned
<1>4. SpanByte(scan) = Scanned
  <2>1. scan \in 0 .. SECTOR - 1 /\ Pending >= SECTOR
    BY <1>1, <1>2, RadixAssumption DEF RingInv, ScanSound, SECTOR
  <2> QED
    BY <2>1, SpanIsPending DEF Scanned
<1>5. /\ esc_seen <= Scanned
      /\ \A n \in (Scanned - esc_seen) .. (Scanned - esc_seen) + esc_seen - 1 : n \in escapes
      /\ esc_seen < Threshold
      /\ (Scanned - esc_seen) - 1 \notin escapes
      /\ \A first \in 0 .. Scanned - Threshold :
            \E n \in first .. first + Threshold - 1 : n \notin escapes
  BY <1>1 DEF EscapeExact, RunOfEscapes
<1>6. AfterByte \notin {"repl", "command"}
  BY DEF AfterByte
<1>7. CASE Scanned \in escapes
  <2>1. esc_seen' = esc_seen + 1
        /\ pc' = IF esc_seen + 1 >= EscCount THEN "repl" ELSE AfterByte
    BY <1>4, <1>7 DEF ScanByte
  <2>2. Scanned' - esc_seen' = Scanned - esc_seen /\ esc_seen' <= Scanned'
    BY <2>1, <1>2, <1>3, <1>5
  <2>3. \A n \in (Scanned - esc_seen) .. (Scanned - esc_seen) + (esc_seen + 1) - 1 : n \in escapes
    BY <1>2, <1>5, <1>7
  <2>4. CASE esc_seen + 1 >= EscCount
    <3>1. esc_seen + 1 = Threshold
      BY <2>4, <1>2, <1>5 DEF Threshold
    <3> QED
      BY <3>1, <2>1, <2>2, <2>3, <2>4, <1>1 DEF EscapeExact, RunOfEscapes, Threshold
  <2>5. CASE ~ (esc_seen + 1 >= EscCount)
    <3>1. esc_seen + 1 < Threshold /\ pc' \notin {"repl", "command"}
      BY <2>1, <2>5, <1>2, <1>6 DEF Threshold
    <3>2. \A first \in 0 .. (Scanned + 1) - Threshold :
            \E n \in first .. first + Threshold - 1 : n \notin escapes
      <4> SUFFICES ASSUME NEW first \in 0 .. (Scanned + 1) - Threshold
                   PROVE  \E n \in first .. first + Threshold - 1 : n \notin escapes
        OBVIOUS
      <4>1. CASE first \in 0 .. Scanned - Threshold
        BY <4>1, <1>5
      <4>2. CASE first = (Scanned + 1) - Threshold
        <5>1. (Scanned - esc_seen) - 1 \in first .. first + Threshold - 1
          BY <4>2, <3>1, <1>2
        <5> QED
          BY <5>1, <1>5
      <4> QED
        BY <4>1, <4>2, <1>2
    <3> QED
      BY <3>1, <3>2, <2>1, <2>2, <2>3, <1>1, <1>3, <1>5
      DEF EscapeExact, RunOfEscapes, Threshold
  <2> QED
    BY <2>4, <2>5
<1>8. CASE Scanned \notin escapes
  <2>1. esc_seen' = 0 /\ pc' = AfterByte
    BY <1>4, <1>8 DEF ScanByte
  <2>2. \A first \in 0 .. (Scanned + 1) - Threshold :
            \E n \in first .. first + Threshold - 1 : n \notin escapes
    <3> SUFFICES ASSUME NEW first \in 0 .. (Scanned + 1) - Threshold
                 PROVE  \E n \in first .. first + Threshold - 1 : n \notin escapes
      OBVIOUS
    <3>1. CASE first \in 0 .. Scanned - Threshold
      BY <3>1, <1>5
    <3>2. CASE first = (Scanned + 1) - Threshold
      <4>1. Scanned \in first .. first + Threshold - 1
        BY <3>2, <1>2
      <4> QED
        BY <4>1, <1>8
    <3> QED
      BY <3>1, <3>2, <1>2
  <2>3. /\ 0 <= Scanned + 1 /\ (Scanned + 1) - 0 = Scanned + 1
        /\ ((Scanned + 1) - 0) - 1 \notin escapes
        /\ (Scanned + 1) .. (Scanned + 1) + 0 - 1 = {}
    BY <1>2, <1>8
  <2> QED
    BY <2>1, <2>2, <2>3, <1>1, <1>2, <1>3, <1>6 DEF EscapeExact, RunOfEscapes, Threshold
<1> QED
  BY <1>7, <1>8

\* The other actions move neither the scan position nor the run.
LEMMA EscNext == RingInv /\ EscapeExact /\ [Next]_vars => EscapeExact'
<1> SUFFICES ASSUME RingInv, EscapeExact, [Next]_vars PROVE EscapeExact'
  OBVIOUS
<1>1. CASE Receive
  BY <1>1, EscReceive
<1>2. CASE ScanByte
  BY <1>2, EscScanByte
<1>3. CASE Consume
  <2>1. Scanned' = Scanned
    BY <1>3, RadixAssumption DEF Consume, Advance, Scanned, RingInv, ScanSound, TypeOK, SECTOR
  <2>2. UNCHANGED <<escapes, esc_seen>> /\ pc = "consume" /\ pc' = "load1"
    BY <1>3 DEF Consume, Advance
  <2> QED
    BY <2>1, <2>2 DEF EscapeExact, RunOfEscapes, Threshold
<1>4. CASE LoadFirst \/ LoadSecond \/ AppendSector \/ Poll \/ EnterCommandMode \/ UNCHANGED vars
  <2>1. UNCHANGED <<escapes, esc_seen, consumed, scan>>
    BY <1>4 DEF LoadFirst, LoadHead, LoadSecond, Test, AppendSector, appendRest, Poll, EnterCommandMode, vars
  <2>2. pc \in {"repl", "command"} <=> pc' \in {"repl", "command"}
    BY <1>4 DEF LoadFirst, LoadHead, LoadSecond, Test, AppendSector, appendRest, Poll, EnterCommandMode, vars
  <2>3. Scanned' = Scanned
    BY <2>1 DEF Scanned
  <2> QED
    BY <2>1, <2>2, <2>3 DEF EscapeExact, RunOfEscapes, Threshold
<1> QED
  BY <1>1, <1>2, <1>3, <1>4 DEF Next, MainStep

\* Command mode is entered at the first run of esc_count escape characters
\* among the scanned bytes and only there, whatever spans and sectors the run
\* is split over.
THEOREM EscapeExactCorrect == Spec => []EscapeExact
<1>1. Init => RingInv /\ EscapeExact
  BY RingInit, EscInit
<1>2. (RingInv /\ EscapeExact) /\ [Next]_vars => (RingInv /\ EscapeExact)'
  BY RingNext, EscNext
<1> QED
  BY <1>1, <1>2, PTL DEF Spec

-----------------------------------------------------------------------------
(* Refinement *)

\* Every step is a step of SectorLog or leaves its variables as they are.
LEMMA RefinesNext == RingInv /\ [Next]_vars => [Log!Next]_<<accepted, Given, file>>
<1> SUFFICES ASSUME RingInv, [Next]_vars
             PROVE  [Log!Next]_<<accepted, Given, file>>
  OBVIOUS
<1> USE RadixAssumption
<1>1. accepted \in Nat /\ consumed \in Nat
  BY DEF RingInv, TypeOK
<1>2. CASE Receive
  <2>1. accepted' = accepted + 1 /\ UNCHANGED <<consumed, pc, file>>
    BY <1>2 DEF Receive, Store
  <2>2. accepted' - consumed' \in 0 .. RING_SIZE - 1
    BY <1>2, RingReceive DEF RingInv, PendingInRing
  <2>3. accepted - Given < RING_SIZE - 1 /\ Given' = Given
    BY <2>1, <2>2, <1>1 DEF Given, RING_SIZE, SECTOR
  <2> QED
    BY <2>1, <2>3 DEF Log!Next, Log!Accept, Given
<1>3. CASE AppendSector
  <2>1. /\ pc = "append" /\ Given = consumed /\ Given' = consumed + SECTOR
        /\ accepted - consumed >= SECTOR /\ accepted' = accepted
    BY <1>3 DEF AppendSector, TakeSector, RefuseSector, appendRest, Given, RingInv, ScanSound, Pending, SECTOR
  <2>2. \A i \in 0 .. SECTOR - 1 : SpanByte(i) = consumed + i
    BY <2>1, SpanIsPending DEF Pending
  <2>3. \/ file' = Append(file, [i \in 0 .. SECTOR - 1 |-> consumed + i])
        \/ file' = file
    BY <2>2, <1>3 DEF AppendSector, TakeSector, RefuseSector, appendRest
  <2> QED
    BY <2>1, <2>3 DEF Log!Next, Log!Commit, Log!Lose, Log!SectorLeaves, Given
<1>4. CASE ~ Receive /\ ~ AppendSector
  <2>1. UNCHANGED <<accepted, file>>
    BY <1>4 DEF Next, MainStep, LoadFirst, LoadHead, LoadSecond, Test, ScanByte, Consume, Advance, Poll,
                EnterCommandMode, vars
  <2>2. Given' = Given
    BY <1>4 DEF Given, Next, MainStep, LoadFirst, LoadHead, LoadSecond, Test, ScanByte, AfterByte,
                Consume, Advance, Poll, EnterCommandMode, vars
  <2> QED
    BY <2>1, <2>2
<1> QED
  BY <1>2, <1>3, <1>4

\* The capture path implements the abstract log: a bounded first-in first-out
\* buffer that moves whole sectors to the file.
THEOREM Refinement == Spec => ImplementsSectorLog
<1>1. Init => Log!Init
  BY DEF Init, Log!Init
<1>2. RingInv /\ [Next]_vars => [Log!Next]_<<accepted, Given, file>>
  BY RefinesNext
<1> QED
  BY <1>1, <1>2, RingInvariance, PTL DEF Spec, ImplementsSectorLog, Log!Spec, Given

=============================================================================
