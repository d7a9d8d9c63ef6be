---------------------------- MODULE LogLoop_proofs ----------------------------
(***************************************************************************)
(* Theorems about LogLoop, for both programs, every order of the loads of  *)
(* ring_head, every ring size, extent, record at boot and number of bytes. *)
(*                                                                         *)
(* The types need only know where the loop can be (PlaceInv, IndexInv),    *)
(* the recovery record also how many of its bytes are stored (RecordInv).  *)
(* What is pending needs to know what each reader of the ring has taken it *)
(* to be.  For a command the receiver is off, so nothing moves (QuietInv). *)
(* In the Makefile build the tail stays on the boundaries of a sector      *)
(* (MainInv), where a torn load does not matter (HalfSound); elsewhere the *)
(* loads have to be whole (HalfExact), and what they show can only have    *)
(* grown (LoadInv, TakenInv).                                              *)
(*                                                                         *)
(* What is written needs to know what lies in the ring itself, as long as  *)
(* nothing went wrong (Clean): the bytes pending, until the copies of      *)
(* log_flush() begin (AloneInv); then what they have moved and will still  *)
(* read (CopyInv); and what was sent of it (SentInv).                      *)
(***************************************************************************)
EXTENDS LogLoop, TLAPS

PadPcs    == {"copyB", "copyA", "pad", "fappend", "send", "fconsume"}
TailPcs   == {"dirread", "dirwrite", "record"}
FlushPcs  == {"fload1", "fload2"} \cup PadPcs \cup TailPcs
ExtendPcs == {"xread", "xwrite"}
IdlePcs   == {"load1", "load2", "poll", "pload1", "pload2", "clear", "sleep"}
SectorPcs == {"scan", "append", "consume"}
Pcs       == FlushPcs \cup ExtendPcs \cup IdlePcs \cup SectorPcs \cup {"repl", "prompt", "reset"}

\* Where the loop is, and on whose behalf.
PlaceInv ==
    /\ pc \in Pcs
    /\ ctx \in (IF pc \in FlushPcs THEN {"idle", "cmd"}
                ELSE IF pc \in ExtendPcs THEN {"log", "idle", "cmd"} ELSE {"log"})

\* Where the loops over bytes are.
IndexInv ==
    /\ pc \in ExtendPcs \cup {"send", "dirread", "dirwrite"} => idx < SECTOR
    /\ pc = "record" => idx < 4
    /\ pc = "scan" => scan < SECTOR
    /\ pc \in IdlePcs \/ ctx = "idle" => scan = 0
    /\ esc_seen = Cap!Threshold => pc \in {"repl", "prompt", "reset"} \/ ctx = "cmd"
    /\ load.half \in Cap!Index

TypeInv == TypeOK /\ PlaceInv /\ IndexInv

-----------------------------------------------------------------------------
(* Arithmetic *)

\* The sizes are numbers.
LEMMA Sizes ==
    /\ RADIX \in Nat /\ RADIX > 0
    /\ SECTOR = 2 * RADIX /\ RING_SIZE = 4 * RADIX
    /\ Cap!SECTOR = SECTOR /\ Cap!RING_SIZE = RING_SIZE
    /\ Cap!Index = 0 .. RING_SIZE - 1 /\ Offsets = 0 .. SECTOR - 1
  BY RadixAssumption DEF SECTOR, RING_SIZE, Offsets, Cap!SECTOR, Cap!RING_SIZE, Cap!Index

\* A number is what a shift by a byte leaves, and the byte.
LEMMA DivMod ==
    ASSUME NEW n \in Nat
    PROVE  /\ n \div RADIX \in Nat /\ n % RADIX \in 0 .. RADIX - 1
           /\ n = RADIX * (n \div RADIX) + (n % RADIX)
  <1>1. RADIX \in Nat /\ RADIX > 0
    BY Sizes
  <1>2. QED BY <1>1

\* A number, shift by shift.
LEMMA Shifts ==
    ASSUME NEW n \in Nat
    PROVE  /\ \A i \in 0 .. 3 : Shifted(n, i) \in Nat /\ ByteOf(n, i) \in 0 .. RADIX - 1
           /\ Shifted(n, 0) = n
           /\ \A i \in 0 .. 2 : Shifted(n, i) = RADIX * Shifted(n, i + 1) + ByteOf(n, i)
           /\ ByteOf(n, 3) <= Shifted(n, 3)
  <1>1. /\ Shifted(n, 0) = n
        /\ Shifted(n, 1) = Shifted(n, 0) \div RADIX
        /\ Shifted(n, 2) = Shifted(n, 1) \div RADIX
        /\ Shifted(n, 3) = Shifted(n, 2) \div RADIX
    BY DEF Shifted
  <1>2. \A m \in Nat : /\ m \div RADIX \in Nat /\ m % RADIX \in 0 .. RADIX - 1
                       /\ m = RADIX * (m \div RADIX) + (m % RADIX)
    BY DivMod
  <1>3. /\ Shifted(n, 0) \in Nat /\ Shifted(n, 1) \in Nat
        /\ Shifted(n, 2) \in Nat /\ Shifted(n, 3) \in Nat
    BY <1>1, <1>2
  <1>4. ASSUME NEW i \in 0 .. 3 PROVE Shifted(n, i) \in Nat /\ ByteOf(n, i) \in 0 .. RADIX - 1
    <2>1. i = 0 \/ i = 1 \/ i = 2 \/ i = 3
      OBVIOUS
    <2>2. QED BY <1>2, <1>3, <2>1 DEF ByteOf
  <1>5. ASSUME NEW i \in 0 .. 2 PROVE Shifted(n, i) = RADIX * Shifted(n, i + 1) + ByteOf(n, i)
    <2>1. <<i, i + 1>> \in {<<0, 1>>, <<1, 2>>, <<2, 3>>}
      OBVIOUS
    <2>2. QED BY <1>1, <1>2, <1>3, <2>1 DEF ByteOf
  <1>6. ByteOf(n, 3) <= Shifted(n, 3)
    <2>1. \A m \in Nat : m % RADIX <= m
      BY Sizes
    <2>2. QED BY <1>3, <2>1 DEF ByteOf
  <1>7. QED BY <1>1, <1>4, <1>5, <1>6

\* What the record may hold at boot are numbers below its limit, and the limit
\* is one.
LEMMA CountType == COUNT_LIMIT \in Nat /\ \A n \in StartCounts : n \in Nat /\ n < COUNT_LIMIT
  <1>1. \A a \in Nat : RADIX * a \in Nat
    BY Sizes
  <1>2. COUNT_LIMIT \in Nat
    BY <1>1, Sizes DEF COUNT_LIMIT
  <1>3. QED BY <1>2, CountAssumption

\* bytes_written is a number, and before it passes 32 bits it is all there is.
LEMMA CountOf ==
    ASSUME written \in Nat
    PROVE  BytesWritten \in Nat /\ (written < COUNT_LIMIT => BytesWritten = written)
  <1>1. COUNT_LIMIT > 0
    <2>1. \A a \in Nat \ {0} : RADIX * a \in Nat \ {0}
      <3> SUFFICES ASSUME NEW a \in Nat, a > 0 PROVE RADIX * a \in Nat /\ RADIX * a > 0
        OBVIOUS
      <3>1. RADIX * a = RADIX * (a - 1) + RADIX /\ RADIX * (a - 1) \in Nat
        BY Sizes
      <3>2. QED BY <3>1, Sizes
    <2>2. QED BY <2>1, Sizes DEF COUNT_LIMIT
  <1>2. QED BY <1>1, CountType DEF BytesWritten

\* A remainder is an index.
LEMMA Masked ==
    ASSUME NEW x \in Int
    PROVE  x % RING_SIZE \in Cap!Index
  BY Sizes

\* What is read as the head is a number, and the number available an index.
LEMMA AvailType ==
    ASSUME TypeInv
    PROVE  Cap!Avail \in Cap!Index
  <1>1. ring_head \in Int /\ ring_tail \in Int /\ load.half \in Int
    BY Sizes DEF TypeInv, TypeOK, IndexInv
  <1>2. ring_head \div RADIX \in Int /\ ring_head % RADIX \in Int
    BY <1>1, Sizes
  <1>3. Cap!HeadRead \in Int
    BY <1>1, <1>2, Sizes DEF Cap!HeadRead, Cap!HighByte, Cap!LowByte
  <1>4. Cap!HeadRead - ring_tail \in Int
    BY <1>1, <1>3
  <1>5. QED BY <1>4, Masked, Sizes DEF Cap!Avail

-----------------------------------------------------------------------------
(* Types *)

\* At the start.
LEMMA TypeInitially == Init => TypeInv
  <1> SUFFICES ASSUME Init PROVE TypeInv
    OBVIOUS
  <1>1. Cap!Threshold \in Nat /\ Cap!Threshold > 0
    BY ConfigAssumption DEF Cap!Threshold
  <1>2. TypeOK
    <2>1. ring \in [Cap!Index -> Slots] /\ ring_head \in Cap!Index /\ ring_tail \in Cap!Index
      <3>1. StartSlots \subseteq Cap!Index /\ IdleSlots \subseteq Cap!Index
        BY SlotsAssumption, Sizes
      <3>2. ring_head \in StartSlots \/ ring_head \in IdleSlots
        BY DEF Init
      <3>3. ring_tail = ring_head /\ ring = [i \in Cap!Index |-> Blank]
        BY DEF Init
      <3>4. QED BY <3>1, <3>2, <3>3 DEF Slots
    <2>2. /\ accepted \in Nat /\ consumed \in Nat /\ escapes \subseteq Nat
          /\ scan \in 0 .. SECTOR /\ esc_seen \in 0 .. Cap!Threshold
          /\ idx \in 0 .. RING_SIZE /\ xround \in 0 .. 2 /\ avail \in Cap!Index
      BY <1>1, Sizes DEF Init
    <2>3. last.kind \in {"none", "log", "flush"} /\ ctx \in {"log", "idle", "cmd"}
      BY DEF Init, NoSector
    <2>4. /\ timer_pending \in BOOLEAN /\ flush_pending \in BOOLEAN /\ rx_enabled \in BOOLEAN
          /\ build \in Builds /\ mishaps \subseteq {"torn", "shared", "grown"}
      BY DEF Init
    <2>5. dir \in [Offsets -> Slots] /\ fat \in [Offsets -> Slots]
      BY DEF Init, Slots
    <2>6. /\ rec \in [0 .. 3 -> 0 .. RADIX - 1] /\ written \in Nat /\ room \in Int
          /\ recorded \in BOOLEAN
      <3>1. PICK n \in StartCounts :
                   /\ rec = [i \in 0 .. 3 |-> ByteOf(n, i)]
                   /\ written \in {0, n} /\ recorded = (written = n)
                   /\ room = Extent - written \div SECTOR
        BY DEF Init, OpenLog
      <3>2. n \in Nat
        BY CountType
      <3>3. \A i \in 0 .. 3 : ByteOf(n, i) \in 0 .. RADIX - 1
        BY <3>2, Shifts
      <3>4. written \in Nat
        BY <3>1, <3>2
      <3>5. written \div SECTOR \in Int
        BY <3>4, Sizes
      <3>6. QED BY <3>1, <3>3, <3>4, <3>5, ExtentAssumption
    <2>7. QED BY <2>1, <2>2, <2>3, <2>4, <2>5, <2>6 DEF TypeOK
  <1>3. PlaceInv
    BY DEF Init, PlaceInv, Pcs, FlushPcs, ExtendPcs, IdlePcs, PadPcs, TailPcs
  <1>4. IndexInv
    BY <1>1, Sizes DEF Init, IndexInv, ExtendPcs, IdlePcs, Cap!NoLoad
  <1>5. QED BY <1>2, <1>3, <1>4 DEF TypeInv

\* What a byte of the program's ring goes to or comes from.
LEMMA RingKept ==
    ASSUME TypeInv, [Next]_vars
    PROVE  ring' \in [Cap!Index -> Slots]
  <1> USE DEF TypeInv, TypeOK
  <1>1. CASE Receive
    BY <1>1 DEF Receive, Cap!Store, Slots
  <1>2. CASE ExtendRead
    <2>1. idx \in Offsets
      BY <1>2, Sizes DEF ExtendRead, IndexInv, ExtendPcs
    <2>2. fat[idx] \in Slots
      BY <2>1
    <2>3. QED BY <1>2, <2>2 DEF ExtendRead
  <1>3. CASE CopySpanB
    <2>1. ring' = ring \/ (idx < FlushLenB /\ ring' = [ring EXCEPT ![FlushLenA + idx] = ring[idx]])
      BY <1>3 DEF CopySpanB, CopyLoop
    <2>2. idx < FlushLenB => idx \in Cap!Index
      <3>1. ring_tail \in 0 .. RING_SIZE - 1 /\ avail \in 0 .. RING_SIZE - 1 /\ idx \in 0 .. RING_SIZE
        BY Sizes
      <3>2. RING_SIZE \in Nat /\ Cap!Index = 0 .. RING_SIZE - 1
        BY Sizes
      <3> HIDE DEF TypeInv, TypeOK
      <3>3. QED BY <3>1, <3>2 DEF FlushLenB, FlushLenA
    <2>3. idx \in Cap!Index => ring[idx] \in Slots
      OBVIOUS
    <2>4. QED BY <2>1, <2>2, <2>3
  <1>4. CASE CopySpanA
    <2>1. ring' = ring \/ (idx < FlushLenA /\ ring' = [ring EXCEPT ![idx] = ring[ring_tail + idx]])
      BY <1>4 DEF CopySpanA, CopyLoop
    <2>2. idx < FlushLenA => ring_tail + idx \in Cap!Index
      <3>1. ring_tail \in 0 .. RING_SIZE - 1 /\ avail \in 0 .. RING_SIZE - 1 /\ idx \in 0 .. RING_SIZE
        BY Sizes
      <3>2. FlushLenA <= RING_SIZE - ring_tail /\ FlushLenA \in Int
        BY <3>1, Sizes DEF FlushLenA
      <3>3. RING_SIZE \in Nat /\ Cap!Index = 0 .. RING_SIZE - 1
        BY Sizes
      <3>4. ASSUME idx < FlushLenA PROVE ring_tail + idx \in 0 .. RING_SIZE - 1
        <4> HIDE DEF TypeInv, TypeOK
        <4>1. QED BY <3>1, <3>2, <3>3, <3>4
      <3>5. QED BY <3>3, <3>4
    <2>3. ring_tail + idx \in Cap!Index => ring[ring_tail + idx] \in Slots
      OBVIOUS
    <2>4. QED BY <2>1, <2>2, <2>3
  <1>5. CASE ZeroPad
    BY <1>5 DEF ZeroPad, CopyLoop, Slots
  <1>6. CASE DirRead
    <2>1. idx \in Offsets
      BY <1>6, Sizes DEF DirRead, IndexInv
    <2>2. dir[idx] \in Slots
      BY <2>1
    <2>3. QED BY <1>6, <2>2 DEF DirRead
  <1>7. CASE CmdScratch
    BY <1>7, Sizes DEF CmdScratch, Slots
  <1>8. CASE ring' = ring
    BY <1>8
  <1>9. CASE Tick \/ Consume \/ AppendSector \/ LoadFirst \/ LoadSecond \/ ScanByte \/ ExtendWrite
             \/ ExtendFails \/ Poll \/ PollLoad \/ PollDecide \/ ClearPending \/ FlushLoad
    BY <1>9 DEF Tick, TimerFires, Consume, Cap!Consume, Cap!Advance, AppendSector, LoadFirst,
                Cap!LoadFirst, Cap!LoadHead, LoadSecond, Cap!LoadSecond, Cap!Test, ScanByte,
                Cap!ScanByte, ExtendWrite, ExtendFails, Poll, PollLoad, PollDecide, ClearPending,
                FlushLoad, capVars
  <1>10. CASE FlushStart \/ FlushAppend \/ SendByte \/ FlushConsume \/ DirWrite \/ WriteRecord
              \/ EnterRepl \/ CmdSync \/ CmdReset \/ UNCHANGED vars
    BY <1>10 DEF FlushStart, FlushAppend, SendByte, FlushConsume, Release, DirWrite, WriteRecord,
                 RecordByte, EnterRepl, CallFlush, CmdSync, CmdReset, vars, capVars
  <1>11. QED
    BY <1>1, <1>2, <1>3, <1>4, <1>5, <1>6, <1>7, <1>9, <1>10
    DEF Next, MainStep, LoopStep, FlushStep, Command

\* The sectors on the card and the recovery record.
LEMMA CardKept ==
    ASSUME TypeInv, [Next]_vars
    PROVE  /\ dir' \in [Offsets -> Slots] /\ fat' \in [Offsets -> Slots]
           /\ rec' \in [0 .. 3 -> 0 .. RADIX - 1]
  <1> USE DEF TypeInv, TypeOK
  <1>1. ASSUME NEW i \in Cap!Index
        PROVE  ring[i] \in Slots
    BY <1>1
  <1>2. CASE ExtendWrite
    <2>1. idx \in Cap!Index
      BY Sizes, <1>2 DEF ExtendWrite, IndexInv, ExtendPcs
    <2>2. QED BY <1>1, <1>2, <2>1 DEF ExtendWrite
  <1>3. CASE DirWrite
    <2>1. pc = "dirwrite" /\ fat' = fat /\ rec' = rec
          /\ (dir' = dir \/ dir' = [dir EXCEPT ![idx] = ring[idx]])
      BY <1>3 DEF DirWrite
    <2>2. idx \in Cap!Index
      BY <2>1, Sizes DEF IndexInv
    <2>3. QED BY <1>1, <2>1, <2>2
  <1>4. CASE WriteRecord
    <2>1. ByteOf(BytesWritten, idx) \in 0 .. RADIX - 1
      <3>1. idx \in 0 .. 3
        BY <1>4 DEF WriteRecord, RecordByte, IndexInv
      <3>2. BytesWritten \in Nat
        BY CountOf
      <3>3. QED BY <3>1, <3>2, Shifts
    <2>2. QED BY <1>4, <2>1 DEF WriteRecord, RecordByte
  <1>5. CASE Receive \/ Tick \/ Consume \/ AppendSector \/ LoadFirst \/ LoadSecond \/ ScanByte
             \/ ExtendRead \/ ExtendFails \/ Poll \/ PollLoad \/ PollDecide \/ ClearPending
    BY <1>5 DEF Receive, Tick, TimerFires, Consume, AppendSector, LoadFirst, LoadSecond, ScanByte,
                ExtendRead, ExtendFails, Poll, PollLoad, PollDecide, ClearPending, loopRest, cardVars
  <1>6. CASE FlushLoad \/ FlushStart \/ CopySpanB \/ CopySpanA \/ ZeroPad \/ FlushAppend \/ SendByte
             \/ FlushConsume \/ DirRead \/ EnterRepl \/ CmdSync \/ CmdScratch \/ CmdReset
             \/ UNCHANGED vars
    BY <1>6 DEF FlushLoad, FlushStart, CopySpanB, CopySpanA, ZeroPad, CopyLoop, FlushAppend, SendByte,
                FlushConsume, Release, DirRead, EnterRepl, CallFlush, CmdSync, CmdScratch, CmdReset,
                loopRest, cardVars, vars
  <1>7. QED
    BY <1>2, <1>3, <1>4, <1>5, <1>6 DEF Next, MainStep, LoopStep, FlushStep, Command

\* Indices of the ring and counts of bytes.
LEMMA CountsKept ==
    ASSUME TypeInv, [Next]_vars
    PROVE  /\ ring_head' \in Cap!Index /\ ring_tail' \in Cap!Index /\ avail' \in Cap!Index
           /\ accepted' \in Nat /\ consumed' \in Nat /\ escapes' \subseteq Nat
           /\ written' \in Nat /\ load'.half \in Cap!Index
  <1>a. /\ ring_head \in Cap!Index /\ ring_tail \in Cap!Index /\ avail \in Cap!Index
        /\ accepted \in Nat /\ consumed \in Nat /\ escapes \subseteq Nat
        /\ written \in Nat /\ load.half \in Cap!Index
    BY DEF TypeInv, TypeOK, IndexInv
  <1>0. /\ ring_head \in Nat /\ ring_tail \in Nat /\ avail \in Nat /\ RING_SIZE \in Nat
        /\ SECTOR \in Nat /\ Cap!SECTOR = SECTOR /\ Cap!RING_SIZE = RING_SIZE /\ 0 \in Cap!Index
    BY <1>a, Sizes
  <1>1. CASE Receive
    <2>1. Cap!NextSlot(ring_head) \in Cap!Index
      BY <1>0, Masked DEF Cap!NextSlot
    <2>2. QED BY <1>a, <1>1, <2>1 DEF Receive, Cap!Store, fileVars, flushVars
  <1>2. CASE LoadFirst \/ PollLoad \/ FlushLoad
    <2>1. PICK order \in LoadOrders, half \in Cap!Index : load' = [order |-> order, half |-> half]
      BY <1>2 DEF LoadFirst, PollLoad, FlushLoad, Cap!LoadFirst, Cap!LoadHead
    <2>2. UNCHANGED <<ring_head, ring_tail, accepted, consumed, escapes, written, avail>>
      BY <1>2 DEF LoadFirst, PollLoad, FlushLoad, Cap!LoadFirst, Cap!LoadHead, loopRest, flushVars
    <2>3. QED BY <1>a, <2>1, <2>2
  <1>3. CASE LoadSecond \/ PollDecide
    <2>1. load' = Cap!NoLoad
          /\ UNCHANGED <<ring_head, ring_tail, accepted, consumed, escapes, written, avail>>
      BY <1>3 DEF LoadSecond, Cap!LoadSecond, Cap!Test, PollDecide, loopRest, flushVars, fileVars
    <2>2. QED BY <1>a, <1>0, <2>1 DEF Cap!NoLoad
  <1>4. CASE ScanByte
    BY <1>a, <1>4 DEF ScanByte, Cap!ScanByte, loopRest, flushVars
  <1>5. CASE AppendSector
    BY <1>a, <1>0, <1>5 DEF AppendSector, SectorWritten, StartExtend, capVars, fileVars, flushVars
  <1>6. CASE Consume
    <2>1. (ring_tail + SECTOR) % RING_SIZE \in Cap!Index
      BY <1>0, Masked
    <2>2. QED BY <1>a, <1>0, <1>6, <2>1 DEF Consume, Cap!Consume, Cap!Advance, flushVars
  <1>7. CASE FlushStart
    BY <1>a, <1>0, <1>7, AvailType DEF FlushStart, Cap!NoLoad, fileVars
  <1>8. CASE SendByte
    BY <1>a, <1>0, <1>8 DEF SendByte, SectorWritten, capVars, fileVars
  <1>9. CASE FlushConsume
    <2>1. (ring_tail + avail) % RING_SIZE \in Cap!Index
      BY <1>0, Masked
    <2>2. QED BY <1>a, <1>0, <1>9, <2>1 DEF FlushConsume, Release
  <1>10. CASE Tick \/ ExtendRead \/ ExtendWrite \/ ExtendFails \/ Poll \/ ClearPending
    BY <1>a, <1>10 DEF Tick, TimerFires, ExtendRead, ExtendWrite, ExtendFails, Poll, ClearPending, capVars,
                 fileVars, flushVars
  <1>11. CASE CopySpanB \/ CopySpanA \/ ZeroPad \/ FlushAppend \/ DirRead \/ DirWrite \/ WriteRecord
    BY <1>a, <1>11 DEF CopySpanB, CopySpanA, ZeroPad, CopyLoop, FlushAppend, DirRead, DirWrite, WriteRecord,
                 RecordByte, capVars, fileVars
  <1>12. CASE EnterRepl \/ CmdSync \/ CmdScratch \/ CmdReset \/ UNCHANGED vars
    BY <1>a, <1>12 DEF EnterRepl, CallFlush, CmdSync, CmdScratch, CmdReset, vars, capVars, fileVars, flushVars
  <1>13. QED
    BY <1>1, <1>2, <1>3, <1>4, <1>5, <1>6, <1>7, <1>8, <1>9, <1>10, <1>11, <1>12
    DEF Next, MainStep, LoopStep, FlushStep, Command

\* Where the loop is, and on whose behalf.
LEMMA PlaceKept ==
    ASSUME TypeInv, [Next]_vars
    PROVE  PlaceInv'
  <1> USE DEF TypeInv, PlaceInv, Pcs, FlushPcs, ExtendPcs, IdlePcs, PadPcs, TailPcs, SectorPcs
  <1>1. CASE Receive \/ Tick
    BY <1>1 DEF Receive, Tick, TimerFires, Wake, flushVars
  <1>2. CASE LoadFirst \/ LoadSecond
    BY <1>2 DEF LoadFirst, Cap!LoadFirst, Cap!LoadHead, LoadSecond, Cap!LoadSecond, Cap!Test, loopRest,
                flushVars
  <1>3. CASE ScanByte
    BY <1>3 DEF ScanByte, Cap!ScanByte, Cap!AfterByte, loopRest, flushVars
  <1>4. CASE AppendSector \/ Consume
    BY <1>4 DEF AppendSector, StartExtend, Consume, Cap!Consume, Cap!Advance, flushVars
  <1>5. CASE ExtendRead \/ ExtendWrite \/ ExtendFails
    BY <1>5 DEF ExtendRead, ExtendWrite, ExtendFails, AfterAppend
  <1>6. CASE Poll \/ PollLoad \/ PollDecide \/ ClearPending
    BY <1>6 DEF Poll, PollLoad, Cap!LoadHead, PollDecide, ClearPending, loopRest, flushVars
  <1>7. CASE FlushLoad \/ FlushStart
    BY <1>7 DEF FlushLoad, Cap!LoadHead, FlushStart, loopRest, flushVars
  <1>8. CASE CopySpanB \/ CopySpanA \/ ZeroPad
    BY <1>8 DEF CopySpanB, CopySpanA, ZeroPad, CopyLoop
  <1>9. CASE FlushAppend \/ SendByte \/ FlushConsume
    BY <1>9 DEF FlushAppend, StartExtend, SendByte, FlushConsume, Release
  <1>10. CASE DirRead \/ DirWrite \/ WriteRecord
    BY <1>10 DEF DirRead, DirWrite, WriteRecord, RecordByte
  <1>11. CASE EnterRepl \/ CmdSync \/ CmdScratch \/ CmdReset \/ UNCHANGED vars
    BY <1>11 DEF EnterRepl, CallFlush, CmdSync, CmdScratch, CmdReset, flushVars, vars
  <1>12. QED
    BY <1>1, <1>2, <1>3, <1>4, <1>5, <1>6, <1>7, <1>8, <1>9, <1>10, <1>11
    DEF Next, MainStep, LoopStep, FlushStep, Command

\* The escape scanner: it starts at the sector's first byte and stops when it
\* has seen enough.
LEMMA ScanKept ==
    ASSUME TypeInv, [Next]_vars
    PROVE  /\ scan' \in 0 .. SECTOR /\ esc_seen' \in 0 .. Cap!Threshold
           /\ pc' = "scan" => scan' < SECTOR
           /\ pc' \in IdlePcs \/ ctx' = "idle" => scan' = 0
           /\ esc_seen' = Cap!Threshold => pc' \in {"repl", "prompt", "reset"} \/ ctx' = "cmd"
  <1> USE DEF TypeInv, IndexInv, PlaceInv, FlushPcs, ExtendPcs, IdlePcs, PadPcs, TailPcs, SectorPcs
  <1>0. /\ scan \in 0 .. SECTOR /\ esc_seen \in 0 .. Cap!Threshold /\ SECTOR \in Nat /\ SECTOR > 0
        /\ Cap!Threshold \in Nat /\ Cap!SECTOR = SECTOR
    <2>1. scan \in 0 .. SECTOR /\ esc_seen \in 0 .. Cap!Threshold
      BY DEF TypeOK
    <2>2. QED BY <2>1, Sizes, ConfigAssumption DEF Cap!Threshold
  <1>1. CASE Receive \/ Tick
    BY <1>0, <1>1 DEF Receive, Tick, TimerFires, Wake, flushVars, capVars
  <1>2. CASE LoadFirst \/ LoadSecond
    BY <1>0, <1>2 DEF LoadFirst, Cap!LoadFirst, Cap!LoadHead, LoadSecond, Cap!LoadSecond, Cap!Test,
                      loopRest, flushVars
  <1>3. CASE ScanByte
    <2>1. scan < SECTOR /\ ctx' = "log" /\ esc_seen < Cap!Threshold
      BY <1>0, <1>3 DEF ScanByte, Cap!ScanByte, loopRest, flushVars
    <2>2. scan' = scan + 1 /\ pc' \notin IdlePcs
      BY <1>3 DEF ScanByte, Cap!ScanByte, Cap!AfterByte
    <2>3. pc' = "scan" => scan + 1 < SECTOR
      BY <1>0, <1>3 DEF ScanByte, Cap!ScanByte, Cap!AfterByte
    <2>4. esc_seen' = 0 \/ (esc_seen' = esc_seen + 1 /\ (esc_seen + 1 >= EscCount => pc' = "repl"))
      BY <1>3 DEF ScanByte, Cap!ScanByte
    <2>5. Cap!Threshold > 0 /\ Cap!Threshold >= EscCount
      BY ConfigAssumption DEF Cap!Threshold
    <2>6. QED BY <1>0, <2>1, <2>2, <2>3, <2>4, <2>5, ConfigAssumption
  <1>4. CASE AppendSector
    BY <1>0, <1>4 DEF AppendSector, StartExtend, capVars, flushVars
  <1>5. CASE Consume
    BY <1>0, <1>5 DEF Consume, Cap!Consume, Cap!Advance, flushVars
  <1>6. CASE ExtendRead \/ ExtendWrite \/ ExtendFails
    BY <1>0, <1>6 DEF ExtendRead, ExtendWrite, ExtendFails, AfterAppend, capVars
  <1>7. CASE Poll \/ PollLoad \/ PollDecide \/ ClearPending
    BY <1>0, <1>7 DEF Poll, PollLoad, Cap!LoadHead, PollDecide, ClearPending, loopRest, flushVars, capVars
  <1>8. CASE FlushLoad \/ FlushStart
    BY <1>0, <1>8 DEF FlushLoad, Cap!LoadHead, FlushStart, loopRest, flushVars
  <1>9. CASE CopySpanB \/ CopySpanA \/ ZeroPad
    BY <1>0, <1>9 DEF CopySpanB, CopySpanA, ZeroPad, CopyLoop
  <1>10. CASE FlushAppend \/ SendByte \/ FlushConsume
    BY <1>0, <1>10 DEF FlushAppend, StartExtend, SendByte, FlushConsume, Release, capVars
  <1>11. CASE DirRead \/ DirWrite \/ WriteRecord
    BY <1>0, <1>11 DEF DirRead, DirWrite, WriteRecord, RecordByte, capVars
  <1>12. CASE EnterRepl \/ CmdSync \/ CmdScratch \/ CmdReset \/ UNCHANGED vars
    BY <1>0, <1>12 DEF EnterRepl, CallFlush, CmdSync, CmdScratch, CmdReset, flushVars, capVars, vars
  <1>13. QED
    BY <1>1, <1>2, <1>3, <1>4, <1>5, <1>6, <1>7, <1>8, <1>9, <1>10, <1>11, <1>12
    DEF Next, MainStep, LoopStep, FlushStep, Command

\* The loops over bytes stay within what they run over.
LEMMA LoopsKept ==
    ASSUME TypeInv, [Next]_vars
    PROVE  /\ idx' \in 0 .. RING_SIZE /\ xround' \in 0 .. 2 /\ room' \in Int
           /\ pc' \in ExtendPcs \cup {"send", "dirread", "dirwrite"} => idx' < SECTOR
           /\ pc' = "record" => idx' < 4
  <1> USE DEF TypeInv, IndexInv, ExtendPcs
  <1>0. /\ idx \in 0 .. RING_SIZE /\ xround \in 0 .. 2 /\ room \in Int /\ ring_tail \in 0 .. RING_SIZE - 1
        /\ avail \in 0 .. RING_SIZE - 1 /\ SECTOR \in Nat /\ SECTOR > 1 /\ RING_SIZE = 2 * SECTOR
    <2>1. /\ idx \in 0 .. RING_SIZE /\ xround \in 0 .. 2 /\ room \in Int
          /\ ring_tail \in Cap!Index /\ avail \in Cap!Index
      BY DEF TypeOK
    <2>2. QED BY <2>1, Sizes
  <1>1. CASE Receive \/ Tick
    BY <1>0, <1>1 DEF Receive, Tick, TimerFires, Wake, flushVars, fileVars
  <1>2. CASE LoadFirst \/ LoadSecond
    BY <1>0, <1>2 DEF LoadFirst, Cap!LoadFirst, Cap!LoadHead, LoadSecond, Cap!LoadSecond, Cap!Test,
                      loopRest, flushVars
  <1>3. CASE ScanByte
    BY <1>0, <1>3 DEF ScanByte, Cap!ScanByte, Cap!AfterByte, loopRest, flushVars
  <1>4. CASE AppendSector
    BY <1>0, <1>4 DEF AppendSector, SectorWritten, StartExtend, fileVars, flushVars
  <1>5. CASE Consume
    BY <1>0, <1>5 DEF Consume, Cap!Consume, Cap!Advance, flushVars
  <1>6. CASE ExtendRead \/ ExtendFails
    BY <1>0, <1>6 DEF ExtendRead, ExtendFails, AfterAppend, fileVars
  <1>7. CASE ExtendWrite
    BY <1>0, <1>7, ExtentAssumption DEF ExtendWrite, AfterAppend
  <1>8. CASE Poll \/ PollLoad \/ PollDecide \/ ClearPending
    BY <1>0, <1>8 DEF Poll, PollLoad, Cap!LoadHead, PollDecide, ClearPending, loopRest, flushVars, fileVars
  <1>9. CASE FlushLoad \/ FlushStart
    BY <1>0, <1>9 DEF FlushLoad, Cap!LoadHead, FlushStart, loopRest, flushVars, fileVars
  <1>10. CASE CopySpanB
    <2>1. FlushLenB \in 0 .. RING_SIZE
      BY <1>0 DEF FlushLenB, FlushLenA
    <2>2. QED BY <1>0, <1>10, <2>1 DEF CopySpanB, CopyLoop, fileVars
  <1>11. CASE CopySpanA
    <2>1. FlushLenA \in 0 .. RING_SIZE
      BY <1>0 DEF FlushLenA
    <2>2. QED BY <1>0, <1>11, <2>1 DEF CopySpanA, CopyLoop, fileVars
  <1>12. CASE ZeroPad
    BY <1>0, <1>12 DEF ZeroPad, CopyLoop, fileVars
  <1>13. CASE FlushAppend
    <2>1. pc' \in {"xread", "send", "fconsume"} /\ room' = room
      BY <1>13 DEF FlushAppend, StartExtend, fileVars
    <2>2. (idx' = 0 \/ (idx' = idx /\ pc' = "fconsume")) /\ xround' = 0
      BY <1>13 DEF FlushAppend, StartExtend
    <2>3. QED BY <1>0, <2>1, <2>2
  <1>14. CASE SendByte
    <2>1. pc = "send" /\ xround' = xround
      BY <1>14 DEF SendByte
    <2>2. \/ idx < SECTOR - 1 /\ idx' = idx + 1 /\ pc' = "send" /\ room' = room
          \/ idx' = 0 /\ pc' = "fconsume" /\ room' = room - 1
      BY <1>14 DEF SendByte, SectorWritten, fileVars
    <2>3. QED BY <1>0, <2>1, <2>2
  <1>15. CASE FlushConsume
    BY <1>0, <1>15 DEF FlushConsume, Release
  <1>16. CASE DirRead \/ DirWrite
    <2>1. /\ pc \in {"dirread", "dirwrite"} /\ xround' = xround /\ room' = room
          /\ pc' \in {"dirread", "dirwrite", "record"}
      BY <1>16 DEF DirRead, DirWrite, fileVars
    <2>2. \/ idx' = (idx + 1) % SECTOR /\ (idx = SECTOR - 1 \/ pc' # "record")
          \/ idx' = 0
      BY <1>16 DEF DirRead, DirWrite
    <2>3. idx < SECTOR
      BY <2>1
    <2>4. (idx + 1) % SECTOR = IF idx = SECTOR - 1 THEN 0 ELSE idx + 1
      <3>1. CASE idx = SECTOR - 1
        BY <1>0, <3>1
      <3>2. CASE idx # SECTOR - 1
        BY <1>0, <2>3, <3>2
      <3>3. QED BY <3>1, <3>2
    <2>5. QED BY <1>0, <2>1, <2>2, <2>3, <2>4
  <1>17. CASE WriteRecord
    BY <1>0, <1>17 DEF WriteRecord, RecordByte, fileVars
  <1>18. CASE EnterRepl \/ CmdSync \/ CmdScratch \/ CmdReset \/ UNCHANGED vars
    BY <1>0, <1>18 DEF EnterRepl, CallFlush, CmdSync, CmdScratch, CmdReset, flushVars, fileVars, vars
  <1>19. QED
    BY <1>1, <1>2, <1>3, <1>4, <1>5, <1>6, <1>7, <1>8, <1>9, <1>10, <1>11, <1>12, <1>13, <1>14, <1>15,
       <1>16, <1>17, <1>18
    DEF Next, MainStep, LoopStep, FlushStep, Command

\* The flags are Boolean, and a sector is of a known kind.
LEMMA FlagsKept ==
    ASSUME TypeInv, [Next]_vars
    PROVE  /\ timer_pending' \in BOOLEAN /\ flush_pending' \in BOOLEAN /\ rx_enabled' \in BOOLEAN
           /\ recorded' \in BOOLEAN /\ build' = build
           /\ mishaps' \subseteq {"torn", "shared", "grown"} /\ mishaps \subseteq mishaps'
           /\ last'.kind \in {"none", "log", "flush"}
  <1>0. /\ timer_pending \in BOOLEAN /\ flush_pending \in BOOLEAN /\ rx_enabled \in BOOLEAN
        /\ recorded \in BOOLEAN /\ mishaps \subseteq {"torn", "shared", "grown"}
        /\ last.kind \in {"none", "log", "flush"}
    BY DEF TypeInv, TypeOK
  <1>1. CASE Receive
    <2>1. mishaps' \subseteq {"torn", "shared", "grown"} /\ mishaps \subseteq mishaps'
      BY <1>0, <1>1 DEF Receive
    <2>2. UNCHANGED <<timer_pending, flush_pending, rx_enabled, last, recorded, build>>
      BY <1>1 DEF Receive, flagVars, fileVars, cardVars
    <2>3. QED BY <1>0, <2>1, <2>2
  <1>2. CASE Tick
    BY <1>0, <1>2 DEF Tick, TimerFires, fileVars, cardVars
  <1>3. CASE AppendSector
    <2>1. last' = last \/ last'.kind = "log"
      BY <1>3 DEF AppendSector, SectorWritten, fileVars
    <2>2. UNCHANGED <<flagVars, recorded, build>> /\ mishaps' \in {mishaps, mishaps \cup {"grown"}}
      BY <1>3 DEF AppendSector, StartExtend, cardVars
    <2>3. QED BY <1>0, <2>1, <2>2 DEF flagVars
  <1>4. CASE Consume
    BY <1>0, <1>4 DEF Consume, NoSector, flagVars, cardVars
  <1>5. CASE LoadFirst \/ LoadSecond \/ ScanByte \/ PollLoad \/ FlushLoad
    BY <1>0, <1>5 DEF LoadFirst, LoadSecond, ScanByte, PollLoad, FlushLoad, loopRest, flagVars, cardVars
  <1>6. CASE ExtendRead \/ ExtendWrite \/ ExtendFails \/ Poll \/ PollDecide \/ FlushStart
    BY <1>0, <1>6 DEF ExtendRead, ExtendWrite, ExtendFails, Poll, PollDecide, FlushStart, flagVars, fileVars,
                      cardVars
  <1>7. CASE ClearPending
    BY <1>0, <1>7 DEF ClearPending, fileVars, cardVars
  <1>8. CASE CopySpanB \/ CopySpanA \/ ZeroPad \/ DirRead \/ DirWrite \/ WriteRecord
    BY <1>0, <1>8 DEF CopySpanB, CopySpanA, ZeroPad, CopyLoop, DirRead, DirWrite, WriteRecord, RecordByte,
                      flagVars, fileVars, cardVars
  <1>9. CASE FlushAppend
    <2>1. mishaps' \in {mishaps, mishaps \cup {"grown"}}
      BY <1>9 DEF FlushAppend, StartExtend
    <2>2. UNCHANGED <<timer_pending, flush_pending, rx_enabled, last, recorded, build>>
      BY <1>9 DEF FlushAppend, flagVars, fileVars, cardVars
    <2>3. QED BY <1>0, <2>1, <2>2
  <1>10. CASE SendByte
    BY <1>0, <1>10 DEF SendByte, SectorWritten, flagVars, fileVars, cardVars
  <1>11. CASE FlushConsume
    BY <1>0, <1>11 DEF FlushConsume, Release, NoSector, flagVars, cardVars
  <1>12. CASE EnterRepl \/ CmdSync \/ CmdScratch \/ CmdReset \/ UNCHANGED vars
    BY <1>0, <1>12 DEF EnterRepl, CallFlush, CmdSync, CmdScratch, CmdReset, flagVars, fileVars, cardVars,
                       vars
  <1>13. QED
    BY <1>1, <1>2, <1>3, <1>4, <1>5, <1>6, <1>7, <1>8, <1>9, <1>10, <1>11, <1>12
    DEF Next, MainStep, LoopStep, FlushStep, Command

\* Every step keeps the types, the place and the loops.
LEMMA TypeKept ==
    ASSUME TypeInv, [Next]_vars
    PROVE  TypeInv'
  <1>1. PlaceInv'
    BY PlaceKept
  <1>2. IndexInv'
    BY CountsKept, ScanKept, LoopsKept DEF IndexInv
  <1>3. ctx' \in {"log", "idle", "cmd"}
    BY <1>1 DEF PlaceInv
  <1>4. TypeOK'
    <2>1. ring' \in [Cap!Index -> Slots]
      BY RingKept
    <2>2. /\ dir' \in [Offsets -> Slots] /\ fat' \in [Offsets -> Slots]
          /\ rec' \in [0 .. 3 -> 0 .. RADIX - 1]
      BY CardKept
    <2>3. /\ ring_head' \in Cap!Index /\ ring_tail' \in Cap!Index /\ avail' \in Cap!Index
          /\ accepted' \in Nat /\ consumed' \in Nat /\ escapes' \subseteq Nat /\ written' \in Nat
      BY CountsKept
    <2>4. scan' \in 0 .. SECTOR /\ esc_seen' \in 0 .. Cap!Threshold
      BY ScanKept
    <2>5. idx' \in 0 .. RING_SIZE /\ xround' \in 0 .. 2 /\ room' \in Int
      BY LoopsKept
    <2>6. /\ {timer_pending', flush_pending', rx_enabled', recorded'} \subseteq BOOLEAN
          /\ last'.kind \in {"none", "log", "flush"}
          /\ build' \in Builds /\ mishaps' \subseteq {"torn", "shared", "grown"}
      BY FlagsKept DEF TypeInv, TypeOK
    <2>7. QED BY <1>3, <2>1, <2>2, <2>3, <2>4, <2>5, <2>6, Zenon DEF TypeOK
  <1>5. QED BY <1>1, <1>2, <1>4 DEF TypeInv

\* TypeInv always holds.
THEOREM TypeInvCorrect == Spec => []TypeInv
  <1>1. TypeInv /\ [Next]_vars => TypeInv'
    BY TypeKept
  <1>2. QED BY TypeInitially, <1>1, PTL DEF Spec

\* The types of the variables, whatever arrives when and whatever fails.
THEOREM TypeCorrect == Spec => []TypeOK
  <1>1. TypeInv => TypeOK
    BY DEF TypeInv
  <1>2. QED BY TypeInvCorrect, <1>1, PTL

-----------------------------------------------------------------------------
(* The recovery record *)

\* What the bytes of the record from the i-th on are worth.
Above(i) == CASE i = 0 -> RecValue
              [] i = 1 -> rec[1] + RADIX * (rec[2] + RADIX * rec[3])
              [] i = 2 -> rec[2] + RADIX * rec[3]
              [] i = 3 -> rec[3]

\* How many bytes of the record are stored.
Stored == IF pc = "record" THEN idx ELSE 0

\* They are those of the bytes written; the others, once a whole record was
\* stored, belong to an older record, which was no more than what is left of
\* that number.
RecordInv ==
    /\ \A i \in 0 .. Stored - 1 : rec[i] = ByteOf(BytesWritten, i)
    /\ recorded /\ written < COUNT_LIMIT => Above(Stored) <= Shifted(BytesWritten, Stored)

\* A multiple of RADIX that is at most another one and a byte is at most the
\* other one; and multiplying keeps the order.
LEMMA Carry ==
    ASSUME NEW a \in Int, NEW q \in Int, NEW d \in 0 .. RADIX - 1
    PROVE  /\ RADIX * a <= RADIX * q + d => a <= q
           /\ a <= q => RADIX * a <= RADIX * q
  <1>1. RADIX \in Nat /\ RADIX > 0
    BY Sizes
  <1>2. ASSUME a >= q + 1 PROVE RADIX * a >= RADIX * q + RADIX
    <2>1. RADIX * (a - q - 1) >= 0
      <3> DEFINE k == a - q - 1
      <3>1. k \in Nat
        BY <1>2
      <3> HIDE DEF k
      <3>2. RADIX * k >= 0
        BY <1>1, <3>1
      <3>3. QED BY <3>2 DEF k
    <2>2. RADIX * (a - q - 1) = RADIX * a - RADIX * q - RADIX
      BY <1>1
    <2>3. RADIX * a \in Int /\ RADIX * q \in Int
      BY <1>1
    <2>4. QED BY <1>1, <2>1, <2>2, <2>3
  <1>3. ASSUME a <= q PROVE RADIX * a <= RADIX * q
    <2>1. RADIX * (q - a) >= 0
      <3> DEFINE k == q - a
      <3>1. k \in Nat
        BY <1>3
      <3> HIDE DEF k
      <3>2. RADIX * k >= 0
        BY <1>1, <3>1
      <3>3. QED BY <3>2 DEF k
    <2>2. RADIX * (q - a) = RADIX * q - RADIX * a
      BY <1>1
    <2>3. RADIX * a \in Int /\ RADIX * q \in Int
      BY <1>1
    <2>4. QED BY <1>1, <2>1, <2>2, <2>3
  <1>4. RADIX * a \in Int /\ RADIX * q \in Int
    BY <1>1
  <1>5. QED BY <1>1, <1>2, <1>3, <1>4

\* The record, byte by byte.
LEMMA Worth ==
    ASSUME TypeInv
    PROVE  /\ \A i \in 0 .. 3 : Above(i) \in Nat /\ rec[i] \in 0 .. RADIX - 1
           /\ Above(0) = RecValue /\ Above(3) = rec[3]
           /\ \A i \in 0 .. 2 : Above(i) = rec[i] + RADIX * Above(i + 1)
  <1>1. \A i \in 0 .. 3 : rec[i] \in 0 .. RADIX - 1
    BY DEF TypeInv, TypeOK
  <1>2. \A m \in Nat, d \in 0 .. RADIX - 1 : d + RADIX * m \in Nat
    BY Sizes
  <1>3. /\ Above(3) = rec[3] /\ Above(2) = rec[2] + RADIX * Above(3)
        /\ Above(1) = rec[1] + RADIX * Above(2) /\ Above(0) = rec[0] + RADIX * Above(1)
        /\ Above(0) = RecValue
    BY DEF Above, RecValue
  <1>4. Above(3) \in Nat
    BY <1>1, <1>3, Sizes
  <1>5. Above(2) \in Nat
    BY <1>1, <1>2, <1>3, <1>4
  <1>6. Above(1) \in Nat
    BY <1>1, <1>2, <1>3, <1>5
  <1>7. Above(0) \in Nat
    BY <1>1, <1>2, <1>3, <1>6
  <1>8. ASSUME NEW i \in 0 .. 3 PROVE Above(i) \in Nat
    <2>1. i = 0 \/ i = 1 \/ i = 2 \/ i = 3
      OBVIOUS
    <2>2. QED BY <1>4, <1>5, <1>6, <1>7, <2>1
  <1>9. ASSUME NEW i \in 0 .. 2 PROVE Above(i) = rec[i] + RADIX * Above(i + 1)
    <2>1. <<i, i + 1>> \in {<<0, 1>>, <<1, 2>>, <<2, 3>>}
      OBVIOUS
    <2>2. QED BY <1>3, <2>1
  <1>10. QED BY <1>1, <1>3, <1>8, <1>9

\* The four lowest bytes of a number are worth at most the number.
LEMMA FourBytes ==
    ASSUME NEW n \in Nat
    PROVE  ByteOf(n, 0) + RADIX * (ByteOf(n, 1) + RADIX * (ByteOf(n, 2) + RADIX * ByteOf(n, 3))) <= n
  <1>0. RADIX \in Nat /\ \A a, b \in Int : a + RADIX * b \in Int
    BY Sizes
  <1>1. ByteOf(n, 0) \in Int /\ ByteOf(n, 1) \in Int /\ ByteOf(n, 2) \in Int /\ ByteOf(n, 3) \in Int
    BY Shifts
  <1>2. Shifted(n, 1) \in Int /\ Shifted(n, 2) \in Int /\ Shifted(n, 3) \in Int
    BY Shifts
  <1>3. \A a, q \in Int : a <= q => RADIX * a <= RADIX * q
    <2> SUFFICES ASSUME NEW a \in Int, NEW q \in Int PROVE a <= q => RADIX * a <= RADIX * q
      OBVIOUS
    <2>1. 0 \in 0 .. RADIX - 1
      BY Sizes
    <2>2. QED BY <2>1, Carry
  <1>4. \A a, b, q \in Int : a <= q => b + RADIX * a <= RADIX * q + b
    <2> SUFFICES ASSUME NEW a \in Int, NEW b \in Int, NEW q \in Int, a <= q
                 PROVE  b + RADIX * a <= RADIX * q + b
      OBVIOUS
    <2>1. RADIX * a <= RADIX * q /\ RADIX * a \in Int /\ RADIX * q \in Int
      BY <1>0, <1>3
    <2>2. QED BY <2>1
  <1>5. /\ Shifted(n, 2) = RADIX * Shifted(n, 3) + ByteOf(n, 2)
        /\ Shifted(n, 1) = RADIX * Shifted(n, 2) + ByteOf(n, 1)
        /\ n = RADIX * Shifted(n, 1) + ByteOf(n, 0)
    BY Shifts
  <1>6. ByteOf(n, 3) <= Shifted(n, 3)
    BY Shifts
  <1> DEFINE above2 == ByteOf(n, 2) + RADIX * ByteOf(n, 3)
             above1 == ByteOf(n, 1) + RADIX * above2
  <1>7. above2 \in Int /\ above2 <= Shifted(n, 2)
    BY <1>0, <1>1, <1>2, <1>4, <1>5, <1>6
  <1> HIDE DEF above2
  <1>8. above1 \in Int /\ above1 <= Shifted(n, 1)
    BY <1>0, <1>1, <1>2, <1>4, <1>5, <1>7
  <1> HIDE DEF above1
  <1>9. ByteOf(n, 0) + RADIX * above1 <= n
    BY <1>1, <1>2, <1>4, <1>5, <1>8
  <1>10. QED BY <1>9 DEF above1, above2

\* One more byte of the record; with the last one the record is whole.
LEMMA RecordStored ==
    ASSUME TypeInv, RecordInv, WriteRecord
    PROVE  RecordInv'
  <1>1. PICK i \in 0 .. 3 : idx = i
    BY DEF WriteRecord, RecordByte, TypeInv, TypeOK, IndexInv
  <1>2. PICK n \in Nat : BytesWritten = n
    BY CountOf DEF TypeInv, TypeOK
  <1>3. pc = "record" /\ BytesWritten' = n /\ written' = written /\ COUNT_LIMIT' = COUNT_LIMIT
    BY <1>2 DEF WriteRecord, RecordByte, BytesWritten, COUNT_LIMIT, fileVars
  <1>4. rec' = [rec EXCEPT ![i] = ByteOf(n, i)] /\ DOMAIN rec = 0 .. 3
        /\ recorded' = (recorded \/ i = 3)
    BY <1>1, <1>2 DEF WriteRecord, RecordByte, TypeInv, TypeOK
  <1>5. /\ \A j \in 0 .. i - 1 : rec[j] = ByteOf(n, j)
        /\ recorded /\ written < COUNT_LIMIT => Above(i) <= Shifted(n, i)
    BY <1>1, <1>2, <1>3 DEF RecordInv, Stored
  <1>6. \A j \in 0 .. i : rec'[j] = ByteOf(n, j)
    BY <1>4, <1>5
  <1>7. CASE i < 3
    <2>1. pc' = "record" /\ idx' = i + 1 /\ Stored' = i + 1
      BY <1>1, <1>7 DEF WriteRecord, RecordByte, Stored
    <2>2. Above(i) = rec[i] + RADIX * Above(i + 1) /\ Above(i + 1) \in Nat /\ rec[i] \in Nat
      <3>1. i \in 0 .. 2 /\ i + 1 \in 0 .. 3
        BY <1>7
      <3>2. QED BY <3>1, Worth
    <2>3. /\ Shifted(n, i) = RADIX * Shifted(n, i + 1) + ByteOf(n, i)
          /\ Shifted(n, i + 1) \in Nat /\ ByteOf(n, i) \in 0 .. RADIX - 1
      <3>1. i \in 0 .. 2 /\ i + 1 \in 0 .. 3
        BY <1>7
      <3>2. QED BY <3>1, Shifts
    <2>4. ASSUME recorded, written < COUNT_LIMIT
          PROVE  RADIX * Above(i + 1) <= RADIX * Shifted(n, i + 1) + ByteOf(n, i)
      <3>1. RADIX * Above(i + 1) \in Int /\ RADIX * Shifted(n, i + 1) \in Int
        BY <2>2, <2>3, Sizes
      <3>2. QED BY <1>5, <2>2, <2>3, <2>4, <3>1
    <2>5. recorded /\ written < COUNT_LIMIT => Above(i + 1) <= Shifted(n, i + 1)
      BY <2>2, <2>3, <2>4, Carry
    <2>6. Above(i + 1)' = Above(i + 1)
      <3>1. \A j \in 0 .. 3 : j # i => rec'[j] = rec[j]
        BY <1>4
      <3>2. i = 0 \/ i = 1 \/ i = 2
        BY <1>7
      <3>3. /\ i = 0 => rec'[1] = rec[1] /\ rec'[2] = rec[2] /\ rec'[3] = rec[3]
            /\ i = 1 => rec'[2] = rec[2] /\ rec'[3] = rec[3]
            /\ i = 2 => rec'[3] = rec[3]
        BY <3>1
      <3>4. QED BY <3>2, <3>3 DEF Above
    <2>7. \A j \in 0 .. Stored' - 1 : rec'[j] = ByteOf(BytesWritten', j)
      BY <1>3, <1>6, <2>1
    <2>8. recorded' /\ written' < COUNT_LIMIT' => Above(i + 1)' <= Shifted(BytesWritten', i + 1)
      <3>1. i # 3
        BY <1>7
      <3>2. recorded' => recorded
        BY <1>4, <3>1, Zenon
      <3>3. written' < COUNT_LIMIT' => written < COUNT_LIMIT
        BY <1>3
      <3>4. recorded' /\ written' < COUNT_LIMIT' => Above(i + 1) <= Shifted(n, i + 1)
        BY <2>5, <3>2, <3>3, Zenon
      <3>5. QED BY <1>3, <2>6, <3>4
    <2>9. Above(Stored)' = Above(i + 1)' /\ Shifted(BytesWritten, Stored)' = Shifted(BytesWritten', i + 1)
      BY <2>1 DEF Above, Shifted
    <2>10. QED BY <2>7, <2>8, <2>9 DEF RecordInv, Shifted, ByteOf
  <1>8. CASE i = 3
    <2>1. pc' # "record" /\ Stored' = 0
      BY <1>1, <1>8 DEF WriteRecord, RecordByte, Stored
    <2>2. /\ rec'[0] = ByteOf(n, 0) /\ rec'[1] = ByteOf(n, 1)
          /\ rec'[2] = ByteOf(n, 2) /\ rec'[3] = ByteOf(n, 3)
      BY <1>6, <1>8
    <2>3. RecValue' <= n
      BY <2>2, FourBytes DEF RecValue
    <2>4. Above(Stored)' = RecValue' /\ Shifted(BytesWritten, Stored)' = BytesWritten'
      BY <2>1 DEF Above, RecValue, Shifted
    <2>5. Above(Stored)' <= Shifted(BytesWritten, Stored)'
      BY <1>3, <2>3, <2>4
    <2>6. QED BY <2>1, <2>5 DEF RecordInv
  <1>9. QED BY <1>7, <1>8

\* Any other step leaves the record alone, and the bytes written are no fewer;
\* while the record is being stored they are the same.
LEMMA RecordUntouched ==
    ASSUME TypeInv, [Next]_vars, ~ WriteRecord
    PROVE  /\ rec' = rec /\ recorded' = recorded /\ written' \in {written, written + SECTOR}
           /\ IF pc = "record" THEN pc' = "record" /\ idx' = idx /\ written' = written
              ELSE pc' = "record" => idx' = 0
  <1>1. CASE Receive \/ Tick
    BY <1>1 DEF Receive, Tick, TimerFires, Wake, fileVars, flushVars, cardVars
  <1>2. CASE LoadFirst \/ LoadSecond \/ ScanByte \/ Consume
    BY <1>2 DEF LoadFirst, Cap!LoadFirst, Cap!LoadHead, LoadSecond, Cap!LoadSecond, Cap!Test, ScanByte,
                Cap!ScanByte, Cap!AfterByte, Consume, Cap!Consume, Cap!Advance, loopRest, cardVars
  <1>3. CASE AppendSector
    <2>1. written' \in {written, written + SECTOR}
      BY <1>3 DEF AppendSector, SectorWritten, fileVars
    <2>2. pc = "append" /\ pc' # "record" /\ rec' = rec /\ recorded' = recorded
      BY <1>3 DEF AppendSector, StartExtend, cardVars
    <2>3. QED BY <2>1, <2>2
  <1>4. CASE ExtendRead \/ ExtendWrite \/ ExtendFails
    BY <1>4 DEF ExtendRead, ExtendWrite, ExtendFails, AfterAppend, fileVars, cardVars
  <1>5. CASE Poll \/ PollLoad \/ PollDecide \/ ClearPending
    BY <1>5 DEF Poll, PollLoad, Cap!LoadHead, PollDecide, ClearPending, loopRest, fileVars, cardVars
  <1>6. CASE FlushLoad \/ FlushStart
    BY <1>6 DEF FlushLoad, Cap!LoadHead, FlushStart, loopRest, fileVars, cardVars
  <1>7. CASE CopySpanB \/ CopySpanA \/ ZeroPad \/ FlushAppend
    BY <1>7 DEF CopySpanB, CopySpanA, ZeroPad, CopyLoop, FlushAppend, StartExtend, fileVars, cardVars
  <1>8. CASE SendByte
    <2>1. pc = "send" /\ pc' # "record" /\ rec' = rec /\ recorded' = recorded
      BY <1>8 DEF SendByte, cardVars
    <2>2. written' \in {written, written + SECTOR}
      BY <1>8 DEF SendByte, SectorWritten, fileVars
    <2>3. QED BY <2>1, <2>2
  <1>9. CASE FlushConsume
    BY <1>9 DEF FlushConsume, Release, cardVars
  <1>10. CASE DirRead \/ DirWrite
    <2>1. pc # "record" /\ rec' = rec /\ recorded' = recorded /\ written' = written
      BY <1>10 DEF DirRead, DirWrite, cardVars, fileVars
    <2>2. pc' = "record" => \/ idx = 0 /\ idx' = idx
                            \/ idx = SECTOR - 1 /\ idx' = (idx + 1) % SECTOR
      BY <1>10 DEF DirRead, DirWrite
    <2>3. SECTOR % SECTOR = 0
      BY Sizes
    <2>4. idx = SECTOR - 1 => idx + 1 = SECTOR
      BY Sizes
    <2>5. QED BY <2>1, <2>2, <2>3, <2>4
  <1>11. CASE EnterRepl \/ CmdSync \/ CmdScratch \/ CmdReset \/ UNCHANGED vars
    BY <1>11 DEF EnterRepl, CallFlush, CmdSync, CmdScratch, CmdReset, flushVars, fileVars, cardVars, vars
  <1>12. QED
    BY <1>1, <1>2, <1>3, <1>4, <1>5, <1>6, <1>7, <1>8, <1>9, <1>10, <1>11
    DEF Next, MainStep, LoopStep, FlushStep, Command

\* Every step keeps the record behind the bytes written.
LEMMA RecordKept ==
    ASSUME TypeInv, RecordInv, [Next]_vars
    PROVE  RecordInv'
  <1>1. CASE WriteRecord
    BY <1>1, RecordStored
  <1>2. CASE ~ WriteRecord
    <2>1. rec' = rec /\ recorded' = recorded /\ written' \in {written, written + SECTOR}
      BY <1>2, RecordUntouched
    <2>2. COUNT_LIMIT' = COUNT_LIMIT
      BY DEF COUNT_LIMIT
    <2>3. CASE pc = "record"
      <3>1. pc' = "record" /\ idx' = idx /\ written' = written
        BY <1>2, <2>3, RecordUntouched
      <3>2. BytesWritten' = BytesWritten /\ Stored' = Stored /\ Above(Stored)' = Above(Stored)
            /\ Shifted(BytesWritten, Stored)' = Shifted(BytesWritten, Stored)
        BY <2>1, <2>2, <2>3, <3>1 DEF BytesWritten, Stored, Above, RecValue, Shifted
      <3>3. QED BY <2>1, <2>2, <3>1, <3>2 DEF RecordInv, ByteOf, Shifted
    <2>4. CASE pc # "record"
      <3>1. Stored = 0 /\ Stored' = 0
        BY <1>2, <2>4, RecordUntouched DEF Stored
      <3>2. written \in Nat /\ written' \in Nat /\ written <= written' /\ COUNT_LIMIT \in Nat
        <4>1. written \in Nat
          BY DEF TypeInv, TypeOK
        <4>2. SECTOR \in Nat
          BY Sizes
        <4>3. QED BY <2>1, <4>1, <4>2, CountType
      <3>3. SUFFICES ASSUME recorded', written' < COUNT_LIMIT PROVE RecValue' <= BytesWritten'
        <4>1. Above(0)' = RecValue' /\ Shifted(BytesWritten, 0)' = BytesWritten'
          BY DEF Above, Shifted
        <4>2. Above(Stored)' = RecValue' /\ Shifted(BytesWritten, Stored)' = BytesWritten'
          BY <3>1, <4>1 DEF Above, Shifted
        <4>3. \A i \in 0 .. Stored' - 1 : FALSE
          BY <3>1
        <4>4. QED BY <2>2, <4>2, <4>3 DEF RecordInv
      <3>4. RecValue <= BytesWritten
        BY <2>1, <3>1, <3>2, <3>3 DEF RecordInv, Above, Shifted
      <3>5. BytesWritten = written /\ BytesWritten' = written'
        <4>1. \A w \in Nat : w < COUNT_LIMIT => w % COUNT_LIMIT = w
          BY CountType
        <4>2. written' < COUNT_LIMIT /\ written < COUNT_LIMIT
          BY <3>2, <3>3
        <4>3. BytesWritten = written % COUNT_LIMIT /\ BytesWritten' = written' % COUNT_LIMIT
          BY <2>2 DEF BytesWritten
        <4>4. QED BY <3>2, <4>1, <4>2, <4>3
      <3>6. RecValue' = RecValue /\ RecValue \in Int
        BY <2>1, Worth DEF RecValue
      <3>7. QED BY <3>2, <3>4, <3>5, <3>6
    <2>5. QED BY <2>3, <2>4
  <1>3. QED BY <1>1, <1>2

\* The inductive argument bounds the record by the bytes written.
LEMMA RecordBound ==
    ASSUME TypeInv, RecordInv
    PROVE  RecordNotAhead
  <1> SUFFICES ASSUME recorded, written < COUNT_LIMIT PROVE RecValue <= written
    BY DEF RecordNotAhead
  <1>1. PICK n \in Nat : BytesWritten = n /\ written = n
    BY CountOf DEF TypeInv, TypeOK
  <1>2. CASE pc # "record" \/ idx = 0
    BY <1>1, <1>2 DEF RecordInv, Stored, Above, Shifted
  <1>3. CASE pc = "record" /\ idx # 0
    <2>1. PICK i \in 1 .. 3 : idx = i
      BY <1>3, Sizes DEF TypeInv, TypeOK, IndexInv
    <2>2. Above(i) <= Shifted(n, i) /\ \A j \in 0 .. i - 1 : rec[j] = ByteOf(n, j)
      BY <1>1, <1>3, <2>1 DEF RecordInv, Stored
    <2>3. \A j \in 0 .. 2 : Above(j + 1) <= Shifted(n, j + 1) /\ rec[j] = ByteOf(n, j)
                            => Above(j) <= Shifted(n, j)
      <3> SUFFICES ASSUME NEW j \in 0 .. 2, Above(j + 1) <= Shifted(n, j + 1), rec[j] = ByteOf(n, j)
                   PROVE  Above(j) <= Shifted(n, j)
        OBVIOUS
      <3>1. j + 1 \in 0 .. 3 /\ j \in 0 .. 3
        OBVIOUS
      <3>2. Above(j) = rec[j] + RADIX * Above(j + 1) /\ Above(j + 1) \in Int /\ rec[j] \in 0 .. RADIX - 1
        BY <3>1, Worth
      <3>3. /\ Shifted(n, j) = RADIX * Shifted(n, j + 1) + ByteOf(n, j)
            /\ Shifted(n, j + 1) \in Nat /\ ByteOf(n, j) \in Int
        <4>1. \A k \in 0 .. 2 : Shifted(n, k) = RADIX * Shifted(n, k + 1) + ByteOf(n, k)
          BY Shifts
        <4>2. \A k \in 0 .. 3 : Shifted(n, k) \in Nat /\ ByteOf(n, k) \in 0 .. RADIX - 1
          BY Shifts
        <4>3. QED BY <3>1, <4>1, <4>2
      <3>4. RADIX * Above(j + 1) <= RADIX * Shifted(n, j + 1)
        BY <3>2, <3>3, Carry
      <3>5. RADIX * Above(j + 1) \in Int /\ RADIX * Shifted(n, j + 1) \in Int /\ rec[j] \in Int
        BY <3>2, <3>3, Sizes
      <3>6. QED BY <3>2, <3>3, <3>4, <3>5
    <2>4. i = 1 \/ i = 2 \/ i = 3
      OBVIOUS
    <2>5. Above(0) <= Shifted(n, 0)
      <3>1. Above(1) <= Shifted(n, 1) /\ rec[0] = ByteOf(n, 0) => Above(0) <= Shifted(n, 0)
        BY <2>3
      <3>2. Above(2) <= Shifted(n, 2) /\ rec[1] = ByteOf(n, 1) => Above(1) <= Shifted(n, 1)
        BY <2>3
      <3>3. Above(3) <= Shifted(n, 3) /\ rec[2] = ByteOf(n, 2) => Above(2) <= Shifted(n, 2)
        BY <2>3
      <3>4. QED BY <2>2, <2>4, <3>1, <3>2, <3>3
    <2>6. QED BY <1>1, <2>5, Worth, Shifts
  <1>4. QED BY <1>2, <1>3

\* At boot the record is whatever it was; if the file is resumed at it, it is
\* the bytes written.
LEMMA RecordInitially == Init => RecordInv
  <1> SUFFICES ASSUME Init PROVE RecordInv
    OBVIOUS
  <1>1. PICK n \in StartCounts : /\ rec = [i \in 0 .. 3 |-> ByteOf(n, i)]
                                /\ written \in {0, n} /\ recorded = (written = n)
    BY DEF Init, OpenLog
  <1>2. n \in Nat /\ n < COUNT_LIMIT /\ COUNT_LIMIT \in Nat
    BY CountType
  <1>3. Stored = 0
    BY DEF Init, Stored
  <1>4. SUFFICES ASSUME recorded PROVE RecValue <= BytesWritten
    <2>1. \A i \in 0 .. Stored - 1 : rec[i] = ByteOf(BytesWritten, i)
      BY <1>3
    <2>2. Above(Stored) = RecValue /\ Shifted(BytesWritten, Stored) = BytesWritten
      BY <1>3 DEF Above, Shifted
    <2>3. QED BY <2>1, <2>2, Zenon DEF RecordInv
  <1>5. BytesWritten = n
    <2>1. written = n
      BY <1>1, <1>4, Zenon
    <2>2. QED BY <1>2, <2>1, CountOf
  <1>6. RecValue <= n
    BY <1>1, <1>2, FourBytes DEF RecValue
  <1>7. QED BY <1>5, <1>6

\* Whatever the record holds at boot: from the moment a record of the file is
\* whole, whenever power fails, even between two bytes of a later one, it is at
\* most the bytes written, as long as their number fits in 32 bits.
THEOREM RecordNotAheadCorrect == Spec => []RecordNotAhead
  <1>1. Init => RecordInv
    BY RecordInitially
  <1>2. TypeInv /\ RecordInv /\ [Next]_vars => RecordInv'
    BY RecordKept
  <1>3. TypeInv /\ RecordInv => RecordNotAhead
    BY RecordBound
  <1>4. QED BY TypeInvCorrect, <1>1, <1>2, <1>3, PTL DEF Spec

-----------------------------------------------------------------------------
(* The bytes pending *)

Pending == accepted - consumed

\* What log_flush() and uart_available() take for it, if they read the head whole.
Dist == (ring_head - ring_tail) % RING_SIZE

\* Where the counts are claimed to be right.
Good == build = "main" \/ "torn" \notin mishaps

\* With ring_tail on the boundary of a sector, whether a sector is pending
\* depends on the half of the ring the head is in, that is on its high byte only.
FarHalf(h) == \/ ring_tail = 0 /\ h >= SECTOR
              \/ ring_tail = SECTOR /\ h < SECTOR

\* So the test of log_process() stands a torn load: a high byte read earlier that
\* shows a full sector stays right, because bytes only arrive; a low byte does
\* not matter.
HalfSound ==
    \/ load.order = "lo" /\ load.half \in 0 .. RADIX - 1
    \/ /\ load.order = "hi" /\ load.half \in {0, 1, 2, 3}
       /\ FarHalf(RADIX * load.half) => Pending >= SECTOR
    \/ /\ load.order = "word" /\ load.half \in Cap!Index
       /\ FarHalf(load.half) => Pending >= SECTOR

\* Elsewhere what is being loaded has to be the number pending, or some of it.
HalfExact ==
    /\ load.order \in {"lo", "hi", "word"}
    /\ load.order = "hi" => load.half = Cap!HighByte(ring_head)
    /\ Cap!Avail <= Pending

LoadInv ==
    /\ pc = "load2" /\ build = "main" => HalfSound
    /\ (pc = "load2" /\ build # "main") \/ pc \in {"pload2", "fload2"} => HalfExact

\* What is scanned, appended or copied is still pending.
TakenInv ==
    /\ pc \in SectorPcs \/ (pc \in ExtendPcs /\ ctx = "log") => Pending >= SECTOR
    /\ pc \in PadPcs \/ (pc \in ExtendPcs /\ ctx # "log") => avail <= Pending

CountInv == consumed <= accepted /\ Dist = Pending

BytesInv == CountInv /\ LoadInv /\ TakenInv

\* Places where a sector was found pending, where log_flush() has counted what it
\* takes, and where nothing is left.
Taking(at, who)  == at \in SectorPcs \/ (at \in ExtendPcs /\ who = "log")
Padding(at, who) == at \in PadPcs \/ (at \in ExtendPcs /\ who # "log")
Emptied(at, who) == (who = "cmd" /\ at \in TailPcs) \/ at \in {"prompt", "reset"}

\* On behalf of a command.
ForCommand(at, who) == who = "cmd" \/ at \in {"prompt", "reset"}

\* Then nothing arrives, and so all that is pending is taken, in either program
\* and whatever was torn before.
QuietInv ==
    /\ ForCommand(pc, ctx) => ~ rx_enabled
    /\ ctx = "cmd" /\ pc = "fload2" => Cap!HeadRead = ring_head
    /\ ctx = "cmd" /\ pc \in PadPcs \cup ExtendPcs => avail = Dist
    /\ Emptied(pc, ctx) => Dist = 0

\* The Makefile build flushes for commands only, so that the tail leaves the
\* boundaries of the sectors only when the ring is empty and stays so.
MainInv ==
    build = "main" =>
        /\ ctx # "idle" /\ pc \notin {"pload1", "pload2", "clear"} /\ flush_pending = FALSE
        /\ ring_tail \in {0, SECTOR} \/ (Dist = 0 /\ ForCommand(pc, ctx))

PendInv ==
    /\ QuietInv /\ MainInv
    /\ Good => BytesInv

\* Adding or subtracting less than the ring wraps at most once.
LEMMA WrapOnce ==
    ASSUME NEW x \in Int
    PROVE  /\ (0 <= x /\ x < RING_SIZE) => x % RING_SIZE = x
           /\ (RING_SIZE <= x /\ x < 2 * RING_SIZE) => x % RING_SIZE = x - RING_SIZE
           /\ (-RING_SIZE <= x /\ x < 0) => x % RING_SIZE = x + RING_SIZE
  BY Sizes

\* How far one index is ahead of another.
LEMMA Distance ==
    ASSUME NEW h \in Cap!Index, NEW t \in Cap!Index
    PROVE  (h - t) % RING_SIZE = IF h >= t THEN h - t ELSE h - t + RING_SIZE
  <1>1. h \in 0 .. RING_SIZE - 1 /\ t \in 0 .. RING_SIZE - 1 /\ RING_SIZE \in Nat
    BY Sizes
  <1>2. CASE h >= t
    <2>1. h - t \in Int /\ 0 <= h - t /\ h - t < RING_SIZE
      BY <1>1, <1>2
    <2>2. QED BY <1>2, <2>1, WrapOnce
  <1>3. CASE ~ (h >= t)
    <2>1. h - t \in Int /\ -RING_SIZE <= h - t /\ h - t < 0
      BY <1>1, <1>3
    <2>2. QED BY <1>3, <2>1, WrapOnce
  <1>4. QED BY <1>2, <1>3

\* Moving an index on.
LEMMA Moved ==
    ASSUME NEW t \in Cap!Index, NEW k \in 0 .. RING_SIZE
    PROVE  (t + k) % RING_SIZE = IF t + k < RING_SIZE THEN t + k ELSE t + k - RING_SIZE
  <1>1. t \in 0 .. RING_SIZE - 1 /\ RING_SIZE \in Nat
    BY Sizes
  <1>2. CASE t + k < RING_SIZE
    <2>1. t + k \in Int /\ 0 <= t + k
      BY <1>1
    <2>2. QED BY <1>2, <2>1, WrapOnce
  <1>3. CASE ~ (t + k < RING_SIZE)
    <2>1. t + k \in Int /\ RING_SIZE <= t + k /\ t + k < 2 * RING_SIZE
      BY <1>1, <1>3
    <2>2. \A x \in Int : RING_SIZE <= x /\ x < 2 * RING_SIZE => x % RING_SIZE = x - RING_SIZE
      BY WrapOnce
    <2>3. (t + k) % RING_SIZE = (t + k) - RING_SIZE
      BY <2>1, <2>2
    <2>4. QED BY <1>1, <1>3, <2>3
  <1>4. QED BY <1>2, <1>3

\* The head moves on to a slot that is not the tail: one more byte is pending.
LEMMA OneMore ==
    ASSUME NEW h \in Cap!Index, NEW t \in Cap!Index, (h + 1) % RING_SIZE # t
    PROVE  (((h + 1) % RING_SIZE) - t) % RING_SIZE = ((h - t) % RING_SIZE) + 1
  <1> DEFINE g == (h + 1) % RING_SIZE
  <1>1. h \in 0 .. RING_SIZE - 1 /\ t \in 0 .. RING_SIZE - 1 /\ RING_SIZE \in Nat /\ RING_SIZE >= 1
    BY Sizes
  <1>2. g = IF h + 1 < RING_SIZE THEN h + 1 ELSE h + 1 - RING_SIZE
    BY <1>1, Moved
  <1>3. g \in Cap!Index
    BY <1>1, Masked
  <1>4. (g - t) % RING_SIZE = IF g >= t THEN g - t ELSE g - t + RING_SIZE
    BY <1>3, Distance
  <1>5. (h - t) % RING_SIZE = IF h >= t THEN h - t ELSE h - t + RING_SIZE
    BY Distance
  <1>6. g # t
    OBVIOUS
  <1> HIDE DEF g
  <1>7. (g - t) % RING_SIZE = ((h - t) % RING_SIZE) + 1
    BY <1>1, <1>2, <1>4, <1>5, <1>6
  <1>8. QED BY <1>7 DEF g

\* The tail moves on over pending bytes: so many fewer are pending.
LEMMA SomeLess ==
    ASSUME NEW h \in Cap!Index, NEW t \in Cap!Index, NEW k \in 0 .. (h - t) % RING_SIZE
    PROVE  (h - ((t + k) % RING_SIZE)) % RING_SIZE = ((h - t) % RING_SIZE) - k
  <1> DEFINE g == (t + k) % RING_SIZE
  <1>1. h \in 0 .. RING_SIZE - 1 /\ t \in 0 .. RING_SIZE - 1 /\ RING_SIZE \in Nat /\ RING_SIZE >= 1
    BY Sizes
  <1>2. (h - t) % RING_SIZE = IF h >= t THEN h - t ELSE h - t + RING_SIZE
    BY Distance
  <1>3. k \in 0 .. RING_SIZE
    BY <1>1, <1>2
  <1>4. g = IF t + k < RING_SIZE THEN t + k ELSE t + k - RING_SIZE
    BY <1>3, Moved
  <1>5. g \in Cap!Index
    BY <1>1, <1>3, Masked
  <1>6. (h - g) % RING_SIZE = IF h >= g THEN h - g ELSE h - g + RING_SIZE
    BY <1>5, Distance
  <1>7. k <= IF h >= t THEN h - t ELSE h - t + RING_SIZE
    BY <1>2
  <1> HIDE DEF g
  <1>8. (h - g) % RING_SIZE = (IF h >= t THEN h - t ELSE h - t + RING_SIZE) - k
    BY <1>1, <1>3, <1>4, <1>6, <1>7
  <1>9. QED BY <1>2, <1>8 DEF g

\* An index is its two bytes; the high one takes four values.
LEMMA TwoBytes ==
    ASSUME NEW h \in Cap!Index
    PROVE  /\ Cap!HighByte(h) \in {0, 1, 2, 3}
           /\ Cap!LowByte(h) \in 0 .. RADIX - 1
           /\ h = RADIX * Cap!HighByte(h) + Cap!LowByte(h)
  BY RadixAssumption DEF Cap!Index, Cap!RING_SIZE, Cap!HighByte, Cap!LowByte

\* Unless the low byte wraps, the next index has the same high byte.
LEMMA NoCarry ==
    ASSUME NEW h \in Cap!Index, NEW g \in Cap!Index, g = (h + 1) % RING_SIZE, g % RADIX # 0
    PROVE  Cap!HighByte(g) = Cap!HighByte(h)
  <1>1. /\ RADIX \in Nat /\ RADIX > 0 /\ RING_SIZE = 4 * RADIX
        /\ h \in 0 .. RING_SIZE - 1 /\ g \in 0 .. RING_SIZE - 1
    BY Sizes
  <1>2. g = h + 1
    <2>1. g = IF h + 1 < RING_SIZE THEN h + 1 ELSE h + 1 - RING_SIZE
      BY <1>1, Moved
    <2>2. g # 0
      BY <1>1
    <2>3. QED BY <1>1, <2>1, <2>2
  <1>3. PICK q \in {0, 1, 2, 3}, d \in 0 .. RADIX - 1 : h = RADIX * q + d /\ q = h \div RADIX
    BY TwoBytes DEF Cap!HighByte
  <1>4. d + 1 < RADIX
    <2>1. SUFFICES ASSUME d + 1 = RADIX PROVE FALSE
      BY <1>1
    <2>2. g = RADIX * (q + 1)
      BY <1>1, <1>2, <1>3, <2>1
    <2>3. g % RADIX = 0
      <3>1. q + 1 \in {1, 2, 3, 4}
        OBVIOUS
      <3>2. g = 1 * RADIX \/ g = 2 * RADIX \/ g = 3 * RADIX \/ g = 4 * RADIX
        BY <1>1, <2>2, <3>1
      <3>3. QED BY <1>1, <3>2
    <2>4. QED BY <2>3
  <1>5. g = RADIX * q + (d + 1)
    BY <1>1, <1>2, <1>3
  <1>6. g \div RADIX = q
    BY <1>1, <1>4, <1>5
  <1>7. QED BY <1>3, <1>6 DEF Cap!HighByte

\* The half of the ring that the head is in decides whether a sector is pending.
LEMMA FarHalfIsFull ==
    ASSUME ring_tail \in {0, SECTOR}, NEW h \in Cap!Index
    PROVE  ((h - ring_tail) % RING_SIZE >= SECTOR) <=> FarHalf(h)
  <1>1. /\ SECTOR \in Nat /\ SECTOR > 0 /\ RING_SIZE = 2 * SECTOR
        /\ h \in 0 .. RING_SIZE - 1 /\ ring_tail \in Cap!Index
    BY Sizes
  <1>2. (h - ring_tail) % RING_SIZE = IF h >= ring_tail THEN h - ring_tail ELSE h - ring_tail + RING_SIZE
    BY <1>1, Distance
  <1>3. QED BY <1>1, <1>2 DEF FarHalf

\* The low byte has no part in that.
LEMMA SameHalf ==
    ASSUME ring_tail \in {0, SECTOR}, NEW q \in {0, 1, 2, 3},
           NEW d \in 0 .. RADIX - 1, NEW e \in 0 .. RADIX - 1
    PROVE  RADIX * q + d \in Cap!Index /\ (FarHalf(RADIX * q + d) => FarHalf(RADIX * q + e))
  <1>1. PICK n \in Nat : n = RADIX * q /\ n \in {0, RADIX, 2 * RADIX, 3 * RADIX}
    BY Sizes
  <1>2. /\ RADIX \in Nat /\ SECTOR = 2 * RADIX
        /\ Cap!Index = 0 .. 4 * RADIX - 1
    BY Sizes
  <1>3. n + d \in Cap!Index
    BY <1>1, <1>2
  <1>4. FarHalf(n + d) => FarHalf(n + e)
    BY <1>1, <1>2 DEF FarHalf
  <1>5. QED BY <1>1, <1>3, <1>4

\* Read without an interrupt the head is the head.
LEMMA LoadedHead ==
    ASSUME NEW order, NEW half \in Cap!Index, order \in {"lo", "hi", "word"},
           TypeInv,
           order = "lo" => half = Cap!LowByte(ring_head),
           order = "hi" => half = Cap!HighByte(ring_head),
           order = "word" => half = ring_head,
           load' = [order |-> order, half |-> half], ring_head' = ring_head
    PROVE  Cap!HeadRead' = ring_head
  <1>1. ring_head \in Cap!Index
    BY DEF TypeInv, TypeOK
  <1>2. ring_head = RADIX * Cap!HighByte(ring_head) + Cap!LowByte(ring_head)
    BY <1>1, TwoBytes
  <1>3. Cap!HeadRead' = IF order = "lo" THEN RADIX * Cap!HighByte(ring_head) + half
                        ELSE IF order = "hi" THEN RADIX * half + Cap!LowByte(ring_head)
                        ELSE half
    BY DEF Cap!HeadRead, Cap!HighByte, Cap!LowByte
  <1> HIDE DEF TypeInv
  <1>4. QED BY <1>2, <1>3

\* Whenever a load of the head begins.
LEMMA Loads ==
    ASSUME TypeInv, LoadFirst \/ PollLoad \/ FlushLoad
    PROVE  \E order \in {"lo", "hi", "word"}, half \in Cap!Index :
               /\ order = "lo" => half = Cap!LowByte(ring_head)
               /\ order = "hi" => half = Cap!HighByte(ring_head)
               /\ order = "word" => half = ring_head
               /\ load' = [order |-> order, half |-> half]
  <1>1. LoadOrders \subseteq {"lo", "hi", "word"}
    BY ConfigAssumption
  <1>2. \E order \in LoadOrders, half \in Cap!Index :
               /\ order = "lo" => half = Cap!LowByte(ring_head)
               /\ order = "hi" => half = Cap!HighByte(ring_head)
               /\ order = "word" => half = ring_head
               /\ load' = [order |-> order, half |-> half]
    BY DEF LoadFirst, PollLoad, FlushLoad, Cap!LoadFirst, Cap!LoadHead
  <1>3. QED BY <1>1, <1>2

\* What a step that begins a load leaves alone.
LEMMA LoadsOnly ==
    ASSUME TypeInv, LoadFirst \/ PollLoad \/ FlushLoad
    PROVE  /\ UNCHANGED <<ring, ring_head, ring_tail, accepted, consumed, avail, ctx, rx_enabled,
                          flush_pending>>
           /\ <<pc, pc'>> \in {<<"load1", "load2">>, <<"pload1", "pload2">>, <<"fload1", "fload2">>}
           /\ ctx = "cmd" => pc' = "fload2"
  BY DEF LoadFirst, PollLoad, FlushLoad, Cap!LoadFirst, Cap!LoadHead, loopRest, flushVars, flagVars,
         TypeInv, PlaceInv, FlushPcs, PadPcs, TailPcs, ExtendPcs

\* The head and the tail as numbers; how far they are apart.
LEMMA DistTypes ==
    ASSUME TypeInv
    PROVE  /\ ring_head \in Cap!Index /\ ring_tail \in Cap!Index /\ load.half \in Cap!Index
           /\ accepted \in Nat /\ consumed \in Nat /\ avail \in Nat /\ Pending \in Int
           /\ Dist \in 0 .. RING_SIZE - 1
           /\ SECTOR \in Nat /\ SECTOR > 0 /\ RING_SIZE = 2 * SECTOR /\ RING_SIZE \in Nat
  <1>1. ring_head \in Cap!Index /\ ring_tail \in Cap!Index /\ load.half \in Cap!Index
        /\ accepted \in Nat /\ consumed \in Nat /\ avail \in Cap!Index
    BY DEF TypeInv, TypeOK, IndexInv
  <1>2. avail \in Nat /\ SECTOR \in Nat /\ SECTOR > 0 /\ RING_SIZE = 2 * SECTOR /\ RING_SIZE \in Nat
    BY <1>1, Sizes
  <1>3. Dist \in 0 .. RING_SIZE - 1
    <2>1. ring_head - ring_tail \in Int
      BY <1>1, Sizes
    <2>2. QED BY <2>1, Masked, Sizes DEF Dist
  <1>4. QED BY <1>1, <1>2, <1>3 DEF Pending

\* The counts are numbers, and what is pending fits in the ring.
LEMMA PendTypes ==
    ASSUME TypeInv, CountInv
    PROVE  /\ ring_head \in Cap!Index /\ ring_tail \in Cap!Index /\ load.half \in Cap!Index
           /\ accepted \in Nat /\ consumed \in Nat /\ avail \in Nat
           /\ Pending \in 0 .. RING_SIZE - 1
           /\ SECTOR \in Nat /\ SECTOR > 0 /\ RING_SIZE = 2 * SECTOR
  BY DistTypes DEF CountInv

\* What goes wrong stays on record, and the program does not change.
LEMMA GoodBefore ==
    ASSUME TypeInv, [Next]_vars
    PROVE  /\ build \in {"main", "main_new"} /\ build' = build /\ mishaps \subseteq mishaps'
           /\ Good' => Good
  <1>1. build \in {"main", "main_new"}
    BY BuildAssumption DEF TypeInv, TypeOK
  <1>2. build' = build /\ mishaps \subseteq mishaps'
    BY FlagsKept
  <1>3. QED BY <1>1, <1>2 DEF Good

-----------------------------------------------------------------------------
(* Commands, and the boundaries of the sectors *)

\* Nothing arrives for a command, and otherwise the tail stays.
LEMMA QuietReceive ==
    ASSUME TypeInv, QuietInv, MainInv, Receive
    PROVE  QuietInv' /\ MainInv'
  <1>1. rx_enabled /\ ring_tail' = ring_tail /\ ctx' = ctx /\ build' = build
        /\ flush_pending' = flush_pending
    BY DEF Receive, flushVars, flagVars, cardVars
  <1>2. pc' = pc \/ (pc = "sleep" /\ pc' = "load1")
    BY DEF Receive, Wake
  <1>3. ~ ForCommand(pc, ctx) /\ ~ ForCommand(pc', ctx')
    BY <1>1, <1>2 DEF QuietInv, ForCommand
  <1>4. QuietInv'
    BY <1>3 DEF QuietInv, ForCommand, Emptied
  <1>5. MainInv'
    BY <1>1, <1>2, <1>3 DEF MainInv, SECTOR, Cap!SECTOR
  <1>6. QED BY <1>4, <1>5

\* For a command the head is read as it is.
LEMMA QuietLoad ==
    ASSUME TypeInv, QuietInv, MainInv, [Next]_vars, LoadFirst \/ PollLoad \/ FlushLoad
    PROVE  QuietInv' /\ MainInv'
  <1>1. Cap!HeadRead' = ring_head
    BY Loads, LoadsOnly, LoadedHead
  <1>2. /\ UNCHANGED <<ring_head, ring_tail, accepted, consumed, avail, ctx, rx_enabled, flush_pending>>
        /\ <<pc, pc'>> \in {<<"load1", "load2">>, <<"pload1", "pload2">>, <<"fload1", "fload2">>}
    BY LoadsOnly
  <1>3. Dist' = Dist /\ build' = build
    BY <1>2, GoodBefore DEF Dist, RING_SIZE, Cap!RING_SIZE
  <1>4. QuietInv'
    BY <1>1, <1>2, <1>3 DEF QuietInv, ForCommand, Emptied, PadPcs, ExtendPcs, TailPcs
  <1>5. MainInv'
    BY <1>2, <1>3 DEF MainInv, ForCommand, SECTOR, Cap!SECTOR
  <1>6. QED BY <1>4, <1>5

\* log_process() moves the tail from one boundary to the next.
LEMMA QuietConsume ==
    ASSUME TypeInv, QuietInv, MainInv, Consume
    PROVE  QuietInv' /\ MainInv'
  <1>1. /\ pc = "consume" /\ pc' = "load1"
        /\ ring_tail' = (ring_tail + SECTOR) % RING_SIZE
        /\ ctx' = ctx /\ build' = build /\ flush_pending' = flush_pending
    BY Sizes DEF Consume, Cap!Consume, Cap!Advance, flushVars, flagVars, cardVars
  <1>2. ctx = "log"
    BY <1>1 DEF TypeInv, PlaceInv, FlushPcs, PadPcs, TailPcs, ExtendPcs
  <1>3. QuietInv'
    BY <1>1, <1>2 DEF QuietInv, ForCommand, Emptied
  <1>4. ring_tail \in {0, SECTOR} => ring_tail' \in {0, SECTOR}
    <2>1. SECTOR \in Nat /\ SECTOR > 0 /\ RING_SIZE = 2 * SECTOR /\ ring_tail \in Cap!Index
      BY DistTypes
    <2>2. (ring_tail + SECTOR) % RING_SIZE
            = IF ring_tail + SECTOR < RING_SIZE THEN ring_tail + SECTOR ELSE ring_tail + SECTOR - RING_SIZE
      BY <2>1, Moved
    <2>3. QED BY <1>1, <2>1, <2>2
  <1>5. MainInv'
    BY <1>1, <1>2, <1>4 DEF MainInv, ForCommand, SECTOR, Cap!SECTOR
  <1>6. QED BY <1>3, <1>5

\* log_flush() for a command takes all that is pending.
LEMMA QuietStart ==
    ASSUME TypeInv, QuietInv, MainInv, FlushStart
    PROVE  QuietInv' /\ MainInv'
  <1>1. /\ pc = "fload2" /\ pc' = (IF Cap!Avail > 0 THEN "copyB" ELSE "dirread")
        /\ avail' = Cap!Avail
        /\ UNCHANGED <<ring_head, ring_tail, accepted, consumed, ctx, rx_enabled, flush_pending, build>>
    BY DEF FlushStart, flagVars, cardVars
  <1>2. Dist' = Dist /\ (ctx = "cmd" => ~ rx_enabled)
    BY <1>1 DEF Dist, RING_SIZE, Cap!RING_SIZE, QuietInv, ForCommand
  <1>3. ctx = "cmd" => Cap!Avail = Dist
    BY <1>1, Sizes DEF QuietInv, Cap!Avail, Dist
  <1>4. pc' = "dirread" => Cap!Avail = 0
    <2>1. Cap!Avail \in Nat
      BY AvailType, Sizes
    <2>2. QED BY <1>1, <2>1
  <1>5. QuietInv'
    BY <1>1, <1>2, <1>3, <1>4 DEF QuietInv, ForCommand, Emptied, PadPcs, ExtendPcs, TailPcs
  <1>6. MainInv'
    BY <1>1, <1>2 DEF MainInv, ForCommand, SECTOR, Cap!SECTOR
  <1>7. QED BY <1>5, <1>6

\* And releases it.
LEMMA QuietRelease ==
    ASSUME TypeInv, QuietInv, MainInv, FlushConsume
    PROVE  QuietInv' /\ MainInv'
  <1>1. /\ pc = "fconsume" /\ pc' = "dirread" /\ ring_tail' = (ring_tail + avail) % RING_SIZE
        /\ UNCHANGED <<ring_head, ctx, rx_enabled, flush_pending, build>>
    BY DEF FlushConsume, Release, flagVars, cardVars
  <1>2. ctx \in {"idle", "cmd"}
    BY <1>1 DEF TypeInv, PlaceInv, FlushPcs, PadPcs
  <1>3. ctx = "cmd" => avail = Dist /\ ~ rx_enabled
    BY <1>1 DEF PadPcs, QuietInv, ForCommand
  <1>4. ctx = "cmd" => Dist' = 0
    <2>1. SUFFICES ASSUME ctx = "cmd" PROVE Dist' = 0
      OBVIOUS
    <2>2. avail \in 0 .. (ring_head - ring_tail) % RING_SIZE
      BY <1>3, <2>1, DistTypes DEF Dist
    <2>3. (ring_head - ((ring_tail + avail) % RING_SIZE)) % RING_SIZE = Dist - avail
      BY <2>2, DistTypes, SomeLess DEF Dist
    <2>4. Dist' = Dist - avail
      BY <1>1, <2>3 DEF Dist, RING_SIZE, Cap!RING_SIZE
    <2>5. QED BY <1>3, <2>1, <2>4, DistTypes
  <1>5. QuietInv'
    BY <1>1, <1>3, <1>4 DEF QuietInv, ForCommand, Emptied, PadPcs, ExtendPcs, TailPcs
  <1>6. MainInv'
    BY <1>1, <1>2, <1>4 DEF MainInv, ForCommand
  <1>7. QED BY <1>5, <1>6

\* A step that moves no byte in or out of the ring, and goes nowhere that more
\* has been established than where it comes from.
Bystander ==
    /\ UNCHANGED <<ring_head, ring_tail, accepted, consumed, avail, build>>
    /\ pc' \in HalfLoaded => pc' = pc /\ ctx' = ctx /\ load' = load
    /\ Taking(pc', ctx') => Taking(pc, ctx)
    /\ Padding(pc', ctx') => Padding(pc, ctx) /\ ctx' = ctx
    /\ Emptied(pc', ctx') => Emptied(pc, ctx)
    /\ ForCommand(pc', ctx') => ~ rx_enabled'
    /\ ForCommand(pc, ctx) => ForCommand(pc', ctx')
    /\ build = "main" =>
          ctx' # "idle" /\ pc' \notin {"pload1", "pload2", "clear"} /\ flush_pending' = FALSE

\* Such a step keeps what holds for commands and on the boundaries.
LEMMA QuietBystander ==
    ASSUME TypeInv, QuietInv, MainInv, Bystander
    PROVE  QuietInv' /\ MainInv'
  <1>1. /\ UNCHANGED <<ring_head, ring_tail, accepted, consumed, avail, build>> /\ Dist' = Dist
    BY DEF Bystander, Dist, RING_SIZE, Cap!RING_SIZE
  <1>2. ctx' = "cmd" /\ pc' = "fload2" => Cap!HeadRead' = ring_head'
    <2>1. SUFFICES ASSUME ctx' = "cmd", pc' = "fload2" PROVE Cap!HeadRead' = ring_head'
      OBVIOUS
    <2>2. pc = "fload2" /\ ctx = "cmd" /\ load' = load
      BY <2>1 DEF Bystander, HalfLoaded
    <2>3. Cap!HeadRead' = Cap!HeadRead
      BY <1>1, <2>2 DEF Cap!HeadRead, Cap!HighByte, Cap!LowByte
    <2>4. QED BY <1>1, <2>2, <2>3 DEF QuietInv
  <1>3. ctx' = "cmd" /\ pc' \in PadPcs \cup ExtendPcs => avail' = Dist'
    <2>1. ctx' = "cmd" /\ pc' \in PadPcs \cup ExtendPcs => Padding(pc, ctx) /\ ctx = "cmd"
      BY DEF Bystander, Padding
    <2>2. QED BY <1>1, <2>1 DEF Padding, QuietInv
  <1>4. Emptied(pc', ctx') => Dist' = 0
    BY <1>1 DEF Bystander, QuietInv
  <1>5. ForCommand(pc', ctx') => ~ rx_enabled'
    BY DEF Bystander
  <1>6. QuietInv'
    BY <1>2, <1>3, <1>4, <1>5 DEF QuietInv, ForCommand, Emptied
  <1>7. MainInv'
    <2>1. build = "main" => ring_tail \in {0, SECTOR} \/ (Dist = 0 /\ ForCommand(pc', ctx'))
      BY DEF MainInv, Bystander
    <2>2. build = "main" =>
             ctx' # "idle" /\ pc' \notin {"pload1", "pload2", "clear"} /\ flush_pending' = FALSE
      BY DEF Bystander
    <2>3. QED BY <1>1, <2>1, <2>2 DEF MainInv, ForCommand, SECTOR, Cap!SECTOR
  <1>8. QED BY <1>6, <1>7

\* The steps that move no byte in or out of the ring.
LEMMA Bystanders ==
    ASSUME TypeInv, QuietInv, MainInv, [Next]_vars,
           ~ (Receive \/ LoadFirst \/ PollLoad \/ FlushLoad \/ Consume \/ FlushStart \/ FlushConsume)
    PROVE  LoadSecond \/ Bystander
  <1> USE DEF Bystander, Taking, Padding, Emptied, ForCommand, HalfLoaded, FlushPcs, ExtendPcs, PadPcs,
              TailPcs, SectorPcs
  <1>0. /\ pc \in FlushPcs => ctx \in {"idle", "cmd"}
        /\ pc \notin FlushPcs /\ pc \notin ExtendPcs => ctx = "log"
        /\ ctx = "cmd" \/ pc \in {"prompt", "reset"} => ~ rx_enabled
        /\ build = "main" =>
             ctx # "idle" /\ pc \notin {"pload1", "pload2", "clear"} /\ flush_pending = FALSE
    BY DEF TypeInv, PlaceInv, QuietInv, MainInv
  <1>1. CASE Tick
    BY <1>0, <1>1 DEF Tick, TimerFires, Wake, capVars, flushVars, cardVars
  <1>2. CASE ScanByte
    BY <1>0, <1>2 DEF ScanByte, Cap!ScanByte, Cap!AfterByte, loopRest, flushVars, flagVars, cardVars
  <1>3. CASE AppendSector
    BY <1>0, <1>3 DEF AppendSector, StartExtend, capVars, flushVars, flagVars, cardVars
  <1>4. CASE ExtendRead \/ ExtendWrite \/ ExtendFails
    BY <1>0, <1>4 DEF ExtendRead, ExtendWrite, ExtendFails, AfterAppend, capVars, flagVars, cardVars
  <1>5. CASE Poll \/ PollDecide \/ ClearPending
    BY <1>0, <1>5 DEF Poll, FlushFlag, PollDecide, ClearPending, capVars, flushVars, flagVars, cardVars
  <1>6. CASE CopySpanB \/ CopySpanA \/ ZeroPad
    BY <1>0, <1>6 DEF CopySpanB, CopySpanA, ZeroPad, CopyLoop, flagVars, cardVars
  <1>7. CASE FlushAppend
    BY <1>0, <1>7 DEF FlushAppend, StartExtend, capVars, flagVars, cardVars
  <1>8. CASE SendByte
    BY <1>0, <1>8 DEF SendByte, capVars, flagVars, cardVars
  <1>9. CASE DirRead \/ DirWrite
    BY <1>0, <1>9 DEF DirRead, DirWrite, capVars, flagVars, cardVars
  <1>10. CASE WriteRecord
    BY <1>0, <1>10 DEF WriteRecord, RecordByte, capVars, flagVars, cardVars
  <1>11. CASE EnterRepl
    BY <1>0, <1>11 DEF EnterRepl, CallFlush, capVars, cardVars
  <1>12. CASE CmdSync \/ CmdScratch \/ CmdReset \/ UNCHANGED vars
    BY <1>0, <1>12 DEF CmdSync, CmdScratch, CmdReset, capVars, flushVars, flagVars, cardVars, vars
  <1>13. CASE LoadSecond
    BY <1>13
  <1>14. QED
    BY <1>1, <1>2, <1>3, <1>4, <1>5, <1>6, <1>7, <1>8, <1>9, <1>10, <1>11, <1>12, <1>13
    DEF Next, MainStep, LoopStep, FlushStep, Command

\* Every step keeps what holds for commands and on the boundaries.
LEMMA QuietKept ==
    ASSUME TypeInv, QuietInv, MainInv, [Next]_vars
    PROVE  QuietInv' /\ MainInv'
  <1>1. CASE Receive \/ Consume \/ FlushStart \/ FlushConsume
    BY <1>1, QuietReceive, QuietConsume, QuietStart, QuietRelease
  <1>2. CASE LoadFirst \/ PollLoad \/ FlushLoad
    BY <1>2, QuietLoad
  <1>3. CASE LoadSecond
    <2>1. /\ pc = "load2" /\ pc' \in {"scan", "poll"}
          /\ UNCHANGED <<ring_head, ring_tail, avail, ctx, rx_enabled, flush_pending, build>>
      BY <1>3 DEF LoadSecond, Cap!LoadSecond, Cap!Test, loopRest, flushVars, flagVars, cardVars
    <2>2. ctx = "log" /\ Dist' = Dist
      BY <2>1 DEF TypeInv, PlaceInv, FlushPcs, PadPcs, TailPcs, ExtendPcs, Dist, RING_SIZE, Cap!RING_SIZE
    <2>3. QED BY <2>1, <2>2 DEF QuietInv, MainInv, ForCommand, Emptied, SECTOR, Cap!SECTOR
  <1>4. QED BY <1>1, <1>2, <1>3, Bystanders, QuietBystander

-----------------------------------------------------------------------------
(* The numbers each reader of the ring goes by *)

\* A byte arrives between two loads: what was read stays right, unless it tears.
LEMMA LoadReceive ==
    ASSUME TypeInv, QuietInv, MainInv, BytesInv, Good', Receive,
           Pending' = Pending + 1, Dist' = Pending + 1
    PROVE  LoadInv'
  <1>1. /\ rx_enabled /\ ring_tail' = ring_tail /\ load' = load /\ ctx' = ctx /\ build' = build
        /\ ring_head' = (ring_head + 1) % RING_SIZE
        /\ mishaps' = mishaps
             \cup (IF pc \in HalfLoaded /\ ring_head' % RADIX = 0 THEN {"torn"} ELSE {})
             \cup (IF pc \in ScratchPcs THEN {"shared"} ELSE {})
    BY Sizes DEF Receive, Cap!Store, Cap!NextSlot, flushVars, cardVars
  <1>2. pc' \in HalfLoaded => pc' = pc
    BY DEF Receive, Wake, HalfLoaded
  <1>3. ctx # "cmd" /\ (pc = "fload2" => ctx = "idle")
    BY <1>1 DEF QuietInv, ForCommand, TypeInv, PlaceInv, FlushPcs
  <1>4. CASE build = "main"
    <2>1. pc \notin {"pload2", "fload2"}
      BY <1>3, <1>4 DEF MainInv
    <2>2. pc = "load2" => HalfSound
      BY <1>4 DEF BytesInv, LoadInv
    <2>3. pc = "load2" => HalfSound'
      BY <1>1, <2>2, DistTypes DEF HalfSound, FarHalf, SECTOR, Cap!SECTOR
    <2>4. QED BY <1>1, <1>2, <1>4, <2>1, <2>3 DEF LoadInv, HalfLoaded
  <1>5. CASE build # "main" /\ pc \in HalfLoaded
    <2>1. HalfExact /\ Pending \in Int /\ ring_head \in Cap!Index
      BY <1>5, DistTypes DEF BytesInv, LoadInv, HalfLoaded
    <2>2. ring_head' % RADIX # 0
      BY <1>1, <1>5 DEF Good
    <2>3. ring_head' \in Cap!Index
      <3>1. ring_head + 1 \in Int
        BY <2>1, Sizes
      <3>2. QED BY <1>1, <3>1, Masked
    <2>4. Cap!HighByte(ring_head') = Cap!HighByte(ring_head)
      BY <1>1, <2>1, <2>2, <2>3, NoCarry
    <2>5. CASE load.order = "hi"
      <3>1. load.half = Cap!HighByte(ring_head')
        BY <2>1, <2>4, <2>5 DEF HalfExact
      <3>2. ring_head' = RADIX * Cap!HighByte(ring_head') + Cap!LowByte(ring_head')
        BY <2>3, TwoBytes
      <3>3. Cap!HeadRead' = ring_head'
        BY <1>1, <2>5, <3>1, <3>2 DEF Cap!HeadRead, Cap!HighByte, Cap!LowByte
      <3>4. Cap!Avail' = Dist'
        BY <3>3, Sizes DEF Cap!Avail, Dist, RING_SIZE, Cap!RING_SIZE
      <3>5. Cap!Avail' <= Pending'
        BY <2>1, <3>4
      <3>6. load'.half = Cap!HighByte(ring_head)'
        BY <1>1, <3>1 DEF Cap!HighByte
      <3>7. QED BY <1>1, <1>2, <1>5, <2>5, <3>5, <3>6 DEF LoadInv, HalfExact
    <2>6. CASE load.order # "hi"
      <3>1. Cap!HeadRead' = Cap!HeadRead
        BY <1>1, <2>4, <2>6 DEF Cap!HeadRead, Cap!HighByte
      <3>2. Cap!Avail' = Cap!Avail
        BY <1>1, <3>1 DEF Cap!Avail, Cap!RING_SIZE, Cap!SECTOR
      <3>3. Cap!Avail' <= Pending'
        BY <2>1, <3>2, AvailType, Sizes DEF HalfExact
      <3>4. load'.order \in {"lo", "hi", "word"} /\ load'.order # "hi"
        BY <1>1, <2>1, <2>6 DEF HalfExact
      <3>5. QED BY <1>1, <1>2, <1>5, <3>3, <3>4 DEF LoadInv, HalfExact
    <2>7. QED BY <2>5, <2>6
  <1>6. CASE build # "main" /\ pc \notin HalfLoaded
    BY <1>1, <1>2, <1>6 DEF LoadInv, HalfLoaded
  <1>7. QED BY <1>4, <1>5, <1>6

\* A byte arrives: what was pending still is.
LEMMA PendReceive ==
    ASSUME TypeInv, QuietInv, MainInv, BytesInv, Good', Receive
    PROVE  BytesInv'
  <1>1. Cap!NextSlot(ring_head) # ring_tail
    BY DEF Receive, Cap!Store
  <1>2. /\ ring_head' = (ring_head + 1) % RING_SIZE /\ ring_tail' = ring_tail
        /\ accepted' = accepted + 1 /\ consumed' = consumed
    BY Sizes DEF Receive, Cap!Store, Cap!NextSlot
  <1>3. pc' = pc \/ (pc = "sleep" /\ pc' = "load1")
    BY DEF Receive, Wake
  <1>4. ctx' = ctx /\ avail' = avail
    BY DEF Receive, flushVars
  <1>5. Pending' = Pending + 1
    BY <1>2, DistTypes DEF Pending
  <1>6. Dist' = Pending + 1
    <2>1. (ring_head + 1) % RING_SIZE # ring_tail
      BY <1>1, Sizes DEF Cap!NextSlot
    <2>2. (((ring_head + 1) % RING_SIZE) - ring_tail) % RING_SIZE = Dist + 1
      BY <2>1, DistTypes, OneMore DEF Dist
    <2>3. Dist' = Dist + 1
      BY <1>2, <2>2 DEF Dist, RING_SIZE, Cap!RING_SIZE
    <2>4. QED BY <2>3 DEF BytesInv, CountInv
  <1>7. CountInv'
    <2>1. consumed' <= accepted'
      BY <1>2, DistTypes DEF BytesInv, CountInv
    <2>2. QED BY <1>5, <1>6, <2>1 DEF CountInv
  <1>8. TakenInv'
    <2>1. TakenInv /\ Pending \in Int /\ SECTOR \in Int /\ avail \in Int
      BY DistTypes DEF BytesInv
    <2>2. QED
      BY <1>3, <1>4, <1>5, <2>1 DEF TakenInv, SectorPcs, PadPcs, ExtendPcs, SECTOR, Cap!SECTOR
  <1>9. QED BY <1>5, <1>6, <1>7, <1>8, LoadReceive DEF BytesInv

\* A load begins: what it has read of the head is right.
LEMMA PendLoad ==
    ASSUME TypeInv, QuietInv, MainInv, BytesInv, [Next]_vars, LoadFirst \/ PollLoad \/ FlushLoad
    PROVE  BytesInv'
  <1>1. /\ UNCHANGED <<ring_head, ring_tail, accepted, consumed, avail, ctx>>
        /\ <<pc, pc'>> \in {<<"load1", "load2">>, <<"pload1", "pload2">>, <<"fload1", "fload2">>}
    BY LoadsOnly
  <1>2. Pending' = Pending /\ Dist' = Dist /\ build' = build
    BY <1>1, GoodBefore DEF Pending, Dist, RING_SIZE, Cap!RING_SIZE
  <1>3. PICK order \in {"lo", "hi", "word"}, half \in Cap!Index :
            /\ order = "lo" => half = Cap!LowByte(ring_head)
            /\ order = "hi" => half = Cap!HighByte(ring_head)
            /\ order = "word" => half = ring_head
            /\ load' = [order |-> order, half |-> half]
    BY Loads
  <1>4. HalfExact'
    <2>1. Cap!HeadRead' = ring_head
      BY <1>1, <1>3, LoadedHead
    <2>2. Cap!Avail' = Dist
      BY <1>1, <2>1, Sizes DEF Cap!Avail, Dist, Cap!RING_SIZE, Cap!SECTOR
    <2>3. Cap!Avail' <= Pending'
      BY <1>2, <2>2, DistTypes DEF BytesInv, CountInv
    <2>4. load'.order = "hi" => load'.half = Cap!HighByte(ring_head)'
      BY <1>1, <1>3 DEF Cap!HighByte
    <2>5. QED BY <1>3, <2>3, <2>4 DEF HalfExact
  <1>5. ASSUME build = "main", pc = "load1"
        PROVE  HalfSound'
    <2>1. ring_tail \in {0, SECTOR}
      BY <1>5 DEF MainInv, ForCommand, TypeInv, PlaceInv, FlushPcs, PadPcs, TailPcs, ExtendPcs
    <2>2. Pending >= SECTOR <=> FarHalf(ring_head)
      BY <2>1, DistTypes, FarHalfIsFull DEF BytesInv, CountInv, Dist
    <2>3. /\ Cap!HighByte(ring_head) \in {0, 1, 2, 3} /\ Cap!LowByte(ring_head) \in 0 .. RADIX - 1
          /\ ring_head = RADIX * Cap!HighByte(ring_head) + Cap!LowByte(ring_head)
      BY DistTypes, TwoBytes
    <2>4. FarHalf(RADIX * Cap!HighByte(ring_head)) => FarHalf(ring_head)
      <3>1. RADIX * Cap!HighByte(ring_head) + 0 = RADIX * Cap!HighByte(ring_head) /\ 0 \in 0 .. RADIX - 1
        BY <2>3, Sizes
      <3>2. QED BY <2>1, <2>3, <3>1, SameHalf
    <2>6. (order = "hi" /\ FarHalf(RADIX * half)) \/ (order = "word" /\ FarHalf(half))
            => Pending >= SECTOR
      BY <1>3, <2>2, <2>4, DistTypes
    <2>7. CASE order = "lo"
      BY <1>3, <2>3, <2>7 DEF HalfSound
    <2>8. CASE order # "lo"
      BY <1>1, <1>2, <1>3, <2>3, <2>6, <2>8 DEF HalfSound, FarHalf, SECTOR, Cap!SECTOR
    <2>9. QED BY <2>7, <2>8
  <1>6. LoadInv'
    BY <1>1, <1>2, <1>4, <1>5 DEF LoadInv
  <1>7. CountInv' /\ TakenInv'
    BY <1>1, <1>2 DEF BytesInv, CountInv, TakenInv, SectorPcs, PadPcs, ExtendPcs
  <1>8. QED BY <1>6, <1>7 DEF BytesInv

\* What uart_available() returns to the rewrite, or to log_flush(), is at most
\* what is pending.
LEMMA PendAvail ==
    ASSUME TypeInv, HalfExact
    PROVE  Cap!Avail \in Nat /\ Cap!Avail <= Pending
  BY AvailType, Sizes DEF HalfExact

\* In the Makefile build the test of log_process() is right about the threshold.
LEMMA ThresholdSound ==
    ASSUME TypeInv, CountInv, HalfSound, ring_tail \in {0, SECTOR}, Cap!Avail >= SECTOR
    PROVE  Pending >= SECTOR
  <1>1. ring_head \in Cap!Index /\ Cap!Avail = (Cap!HeadRead - ring_tail) % RING_SIZE
    BY DistTypes, Sizes DEF Cap!Avail
  <1>2. /\ Cap!HighByte(ring_head) \in {0, 1, 2, 3} /\ Cap!LowByte(ring_head) \in 0 .. RADIX - 1
        /\ ring_head = RADIX * Cap!HighByte(ring_head) + Cap!LowByte(ring_head)
    BY <1>1, TwoBytes
  <1>3. FarHalf(ring_head) => Pending >= SECTOR
    BY <1>1, FarHalfIsFull DEF CountInv, Dist
  <1>4. CASE load.order = "lo" /\ load.half \in 0 .. RADIX - 1
    <2>1. Cap!HeadRead = RADIX * Cap!HighByte(ring_head) + load.half
      BY <1>4 DEF Cap!HeadRead
    <2>2. Cap!HeadRead \in Cap!Index /\ (FarHalf(Cap!HeadRead) => FarHalf(ring_head))
      BY <1>2, <1>4, <2>1, SameHalf
    <2>3. QED BY <1>1, <1>3, <2>2, FarHalfIsFull
  <1>5. CASE /\ load.order = "hi" /\ load.half \in {0, 1, 2, 3}
             /\ FarHalf(RADIX * load.half) => Pending >= SECTOR
    <2>1. Cap!HeadRead = RADIX * load.half + Cap!LowByte(ring_head)
      BY <1>5 DEF Cap!HeadRead
    <2>2. Cap!HeadRead \in Cap!Index /\ (FarHalf(Cap!HeadRead) => FarHalf(RADIX * load.half + 0))
      <3>1. 0 \in 0 .. RADIX - 1
        BY Sizes
      <3>2. QED BY <1>2, <1>5, <2>1, <3>1, SameHalf
    <2>3. RADIX * load.half + 0 = RADIX * load.half
      BY <1>5, Sizes
    <2>4. QED BY <1>1, <1>5, <2>2, <2>3, FarHalfIsFull
  <1>6. CASE /\ load.order = "word" /\ load.half \in Cap!Index
             /\ FarHalf(load.half) => Pending >= SECTOR
    <2>1. Cap!HeadRead = load.half
      BY <1>6 DEF Cap!HeadRead
    <2>2. QED BY <1>1, <1>6, <2>1, FarHalfIsFull
  <1>7. QED BY <1>4, <1>5, <1>6 DEF HalfSound

\* So it lets a sector through only when one is pending.
LEMMA PendTest ==
    ASSUME TypeInv, QuietInv, MainInv, BytesInv, LoadSecond
    PROVE  BytesInv'
  <1>1. /\ pc = "load2" /\ pc' \in {"scan", "poll"} /\ (pc' = "scan" => Cap!Avail >= SECTOR)
        /\ UNCHANGED <<ring_head, ring_tail, accepted, consumed, avail, ctx>>
    BY Sizes DEF LoadSecond, Cap!LoadSecond, Cap!Test, loopRest, flushVars
  <1>2. ctx = "log"
    BY <1>1 DEF TypeInv, PlaceInv, FlushPcs, PadPcs, TailPcs, ExtendPcs
  <1>3. Pending' = Pending /\ Dist' = Dist
    BY <1>1 DEF Pending, Dist, RING_SIZE, Cap!RING_SIZE
  <1>4. Cap!Avail >= SECTOR => Pending >= SECTOR
    <2>1. CASE build = "main"
      <3>1. ring_tail \in {0, SECTOR} /\ HalfSound
        BY <1>1, <1>2, <2>1 DEF MainInv, ForCommand, BytesInv, LoadInv
      <3>2. QED BY <3>1, ThresholdSound DEF BytesInv
    <2>2. CASE build # "main"
      <3>1. Cap!Avail \in Nat /\ Cap!Avail <= Pending
        BY <1>1, <2>2, PendAvail DEF BytesInv, LoadInv
      <3>2. QED BY <3>1, DistTypes
    <2>3. QED BY <2>1, <2>2
  <1>5. TakenInv'
    BY <1>1, <1>2, <1>3, <1>4 DEF TakenInv, SectorPcs, PadPcs, ExtendPcs, SECTOR, Cap!SECTOR
  <1>6. CountInv' /\ LoadInv'
    BY <1>1, <1>3 DEF BytesInv, CountInv, LoadInv
  <1>7. QED BY <1>5, <1>6 DEF BytesInv

\* Releasing no more bytes than are pending.
LEMMA Released ==
    ASSUME TypeInv, BytesInv, NEW n \in Nat, n <= Pending,
           ring_tail' = (ring_tail + n) % RING_SIZE, consumed' = consumed + n,
           UNCHANGED <<ring_head, accepted>>
    PROVE  CountInv'
  <1>1. Pending' = Pending - n /\ consumed' <= accepted'
    BY DistTypes DEF Pending
  <1>2. n \in 0 .. (ring_head - ring_tail) % RING_SIZE
    BY DistTypes DEF BytesInv, CountInv, Dist
  <1>3. (ring_head - ((ring_tail + n) % RING_SIZE)) % RING_SIZE
            = ((ring_head - ring_tail) % RING_SIZE) - n
    BY <1>2, DistTypes, SomeLess
  <1>4. Dist' = Pending - n
    BY <1>3 DEF Dist, BytesInv, CountInv, RING_SIZE, Cap!RING_SIZE
  <1>5. QED BY <1>1, <1>4 DEF CountInv

\* log_process() releases the sector it appended.
LEMMA PendConsume ==
    ASSUME TypeInv, BytesInv, Consume
    PROVE  BytesInv'
  <1>1. /\ pc = "consume" /\ pc' = "load1"
        /\ ring_tail' = (ring_tail + SECTOR) % RING_SIZE /\ consumed' = consumed + SECTOR
        /\ UNCHANGED <<ring_head, accepted>>
    BY Sizes DEF Consume, Cap!Consume, Cap!Advance
  <1>2. Pending >= SECTOR
    BY <1>1 DEF SectorPcs, BytesInv, TakenInv
  <1>3. CountInv'
    BY <1>1, <1>2, DistTypes, Released
  <1>4. LoadInv' /\ TakenInv'
    BY <1>1 DEF LoadInv, TakenInv, SectorPcs, PadPcs, ExtendPcs
  <1>5. QED BY <1>3, <1>4 DEF BytesInv

\* log_flush() takes what is pending, or some of it.
LEMMA PendStart ==
    ASSUME TypeInv, BytesInv, FlushStart
    PROVE  BytesInv'
  <1>1. /\ pc = "fload2" /\ pc' \in {"copyB", "dirread"} /\ avail' = Cap!Avail
        /\ UNCHANGED <<ring_head, ring_tail, accepted, consumed>>
    BY DEF FlushStart
  <1>2. Cap!Avail <= Pending
    BY <1>1, PendAvail DEF BytesInv, LoadInv
  <1>3. Pending' = Pending /\ Dist' = Dist
    BY <1>1 DEF Pending, Dist, RING_SIZE, Cap!RING_SIZE
  <1>4. CountInv' /\ LoadInv'
    BY <1>1, <1>3 DEF BytesInv, CountInv, LoadInv
  <1>5. TakenInv'
    BY <1>1, <1>2, <1>3 DEF TakenInv, SectorPcs, PadPcs, ExtendPcs
  <1>6. QED BY <1>4, <1>5 DEF BytesInv

\* log_flush() releases what it took.
LEMMA PendRelease ==
    ASSUME TypeInv, BytesInv, FlushConsume
    PROVE  BytesInv'
  <1>1. /\ pc = "fconsume" /\ pc' = "dirread"
        /\ ring_tail' = (ring_tail + avail) % RING_SIZE /\ consumed' = consumed + avail
        /\ UNCHANGED <<ring_head, accepted>>
    BY DEF FlushConsume, Release
  <1>2. avail <= Pending
    BY <1>1 DEF PadPcs, BytesInv, TakenInv
  <1>3. CountInv'
    BY <1>1, <1>2, DistTypes, Released
  <1>4. LoadInv' /\ TakenInv'
    BY <1>1 DEF LoadInv, TakenInv, SectorPcs, PadPcs, ExtendPcs
  <1>5. QED BY <1>3, <1>4 DEF BytesInv

\* Any other step leaves the numbers alone.
LEMMA PendBystander ==
    ASSUME TypeInv, BytesInv, Bystander
    PROVE  BytesInv'
  <1>1. UNCHANGED <<ring_head, ring_tail, accepted, consumed, avail, build>>
    BY DEF Bystander
  <1>2. Pending' = Pending /\ Dist' = Dist
    BY <1>1 DEF Pending, Dist, RING_SIZE, Cap!RING_SIZE
  <1>3. CountInv'
    BY <1>1, <1>2 DEF BytesInv, CountInv
  <1>4. LoadInv'
    <2>1. SUFFICES ASSUME pc' \in HalfLoaded PROVE LoadInv'
      BY DEF LoadInv, HalfLoaded
    <2>2. pc' = pc /\ load' = load
      BY <2>1 DEF Bystander
    <2>3. HalfSound' = HalfSound
      BY <1>1, <1>2, <2>2 DEF HalfSound, FarHalf, SECTOR, Cap!SECTOR
    <2>4. HalfExact' = HalfExact
      BY <1>1, <1>2, <2>2
      DEF HalfExact, Cap!Avail, Cap!HeadRead, Cap!HighByte, Cap!LowByte, Cap!RING_SIZE, Cap!SECTOR
    <2>5. QED BY <1>1, <2>2, <2>3, <2>4 DEF BytesInv, LoadInv
  <1>5. TakenInv'
    <2>1. Taking(pc', ctx') => Pending >= SECTOR
      BY DEF Bystander, Taking, BytesInv, TakenInv
    <2>2. Padding(pc', ctx') => avail <= Pending
      BY DEF Bystander, Padding, BytesInv, TakenInv
    <2>3. QED BY <1>1, <1>2, <2>1, <2>2 DEF Taking, Padding, TakenInv, SECTOR, Cap!SECTOR
  <1>6. QED BY <1>3, <1>4, <1>5 DEF BytesInv

\* Every step keeps what is known of the pending bytes.
LEMMA PendKept ==
    ASSUME TypeInv, PendInv, [Next]_vars
    PROVE  PendInv'
  <1>1. QuietInv' /\ MainInv'
    BY QuietKept DEF PendInv
  <1>2. SUFFICES ASSUME Good' PROVE BytesInv'
    BY <1>1 DEF PendInv
  <1>3. BytesInv /\ QuietInv /\ MainInv
    BY <1>2, GoodBefore DEF PendInv
  <1>4. CASE Receive
    BY <1>2, <1>3, <1>4, PendReceive
  <1>5. CASE LoadFirst \/ PollLoad \/ FlushLoad
    BY <1>3, <1>5, PendLoad
  <1>6. CASE LoadSecond
    BY <1>3, <1>6, PendTest
  <1>7. CASE Consume
    BY <1>3, <1>7, PendConsume
  <1>8. CASE FlushStart
    BY <1>3, <1>8, PendStart
  <1>9. CASE FlushConsume
    BY <1>3, <1>9, PendRelease
  <1>10. QED BY <1>3, <1>4, <1>5, <1>6, <1>7, <1>8, <1>9, Bystanders, PendBystander

\* With an empty ring.
LEMMA PendInitially == Init => PendInv
  <1> SUFFICES ASSUME Init PROVE PendInv
    OBVIOUS
  <1>1. /\ pc = "load1" /\ ctx = "log" /\ accepted = 0 /\ consumed = 0 /\ ring_tail = ring_head
        /\ flush_pending = FALSE
    BY DEF Init
  <1>2. ring_head \in Cap!Index
    BY TypeInitially DEF TypeInv, TypeOK
  <1>3. Dist = 0
    <2>1. (ring_head - ring_tail) % RING_SIZE = ring_head - ring_tail
      BY <1>1, <1>2, Distance, Sizes
    <2>2. QED BY <1>1, <1>2, <2>1, Sizes DEF Dist
  <1>4. BytesInv
    BY <1>1, <1>3 DEF BytesInv, CountInv, Pending, LoadInv, TakenInv, SectorPcs, PadPcs, ExtendPcs
  <1>5. QuietInv
    BY <1>1 DEF QuietInv, ForCommand, Emptied
  <1>6. MainInv
    <2>1. build = "main" => ring_tail \in {0, SECTOR}
      BY <1>1, SlotsAssumption, Sizes DEF Init
    <2>2. QED BY <1>1, <2>1 DEF MainInv
  <1>7. QED BY <1>4, <1>5, <1>6 DEF PendInv

\* PendInv always holds.
LEMMA PendInvariance == Spec => []PendInv
  <1>1. TypeInv /\ PendInv /\ [Next]_vars => PendInv'
    BY PendKept
  <1>2. QED BY PendInitially, TypeInvCorrect, <1>1, PTL DEF Spec

\* The Makefile build never releases a byte that has not arrived, in whichever
\* order the compiler loads the bytes of ring_head; nor does the rewrite, with
\* ring_tail on any slot, until the low byte of ring_head has once wrapped
\* between two loads of it.
THEOREM AccountingCorrect == Spec => []Accounting
  <1>1. TypeInv /\ PendInv => Accounting
    BY DEF PendInv, Good, BytesInv, CountInv, TakenInv, SectorPcs, Pending, Dist, Accounting
  <1>2. QED BY PendInvariance, TypeInvCorrect, <1>1, PTL

\* The ring is empty whenever a command can be given, in both programs, even
\* after a flush that the card refused or that had to add a cluster, and whatever
\* loads of ring_head were torn before.
THEOREM PromptRingEmptyCorrect == Spec => []PromptRingEmpty
  <1>1. TypeInv /\ PendInv => PromptRingEmpty
    <2>1. SUFFICES ASSUME TypeInv, PendInv, pc \in {"prompt", "reset"} PROVE ring_head = ring_tail
      BY DEF PromptRingEmpty
    <2>2. Dist = 0
      BY <2>1 DEF PendInv, QuietInv, Emptied
    <2>3. ring_head \in 0 .. RING_SIZE - 1 /\ ring_tail \in 0 .. RING_SIZE - 1 /\ RING_SIZE \in Nat
      BY <2>1, DistTypes, Sizes
    <2>4. Dist = IF ring_head >= ring_tail THEN ring_head - ring_tail
                 ELSE ring_head - ring_tail + RING_SIZE
      BY <2>1, DistTypes, Distance DEF Dist
    <2>5. QED BY <2>2, <2>3, <2>4
  <1>2. QED BY PendInvariance, TypeInvCorrect, <1>1, PTL

-----------------------------------------------------------------------------
(* What is in the ring *)

\* Each byte pending is in its slot.
Held == \A j \in 0 .. Pending - 1 : ring[(ring_tail + j) % RING_SIZE] = consumed + j

\* Byte j of the padded sector.
PadByte(j) == IF j < avail THEN consumed + j ELSE Zero

\* As long as nothing went wrong, log_flush() works on all that is pending, and
\* fat32_flush() on an empty ring.
AloneInv ==
    /\ pc \notin ExtendPcs
    /\ pc = "fload2" => Cap!HeadRead = ring_head
    /\ pc \in PadPcs => avail = Pending
    /\ pc \in {"dirread", "dirwrite"} => Pending = 0
    /\ pc \notin PadPcs => Held

\* What the copies of log_flush() have moved, and what they will still read.
CopyInv ==
    /\ pc = "copyB" =>
         /\ idx <= FlushLenB
         /\ \A j \in 0 .. FlushLenA - 1 : ring[ring_tail + j] = consumed + j
         /\ \A j \in 0 .. FlushLenB - 1 : ring[j] = consumed + (FlushLenA + j)
         /\ \A j \in 0 .. idx - 1 : ring[FlushLenA + j] = consumed + (FlushLenA + j)
    /\ pc = "copyA" =>
         /\ idx <= FlushLenA
         /\ \A j \in 0 .. idx - 1 : ring[j] = consumed + j
         /\ \A j \in idx .. FlushLenA - 1 : ring[ring_tail + j] = consumed + j
         /\ \A j \in FlushLenA .. avail - 1 : ring[j] = consumed + j
    /\ pc = "pad" =>
         /\ avail <= idx /\ idx <= SECTOR
         /\ \A j \in 0 .. idx - 1 : ring[j] = PadByte(j)
    /\ pc \in {"fappend", "send"} => \A j \in Offsets : ring[j] = PadByte(j)

\* What was sent of the padded sector, and what of the directory is in the ring.
SentInv ==
    /\ pc \in PadPcs \ {"send"} => out = <<>>
    /\ pc = "send" => /\ out \in Seq(Slots) /\ Len(out) = idx
                      /\ CopySafe => \A j \in 0 .. idx - 1 : out[j + 1] = PadByte(j)
    /\ pc = "dirread" => \A j \in 0 .. idx - 1 : ring[j] = DirByte
    /\ pc = "dirwrite" => \A j \in Offsets : ring[j] = DirByte

ScratchInv ==
    /\ Clean => AloneInv /\ (CopySafe => CopyInv) /\ SentInv
    /\ SectorsFaithful

-----------------------------------------------------------------------------
(* Slots and spans of the ring *)

\* The interrupt stores behind the pending bytes.
LEMMA HeadSlot ==
    ASSUME TypeInv, CountInv
    PROVE  ring_head = (ring_tail + Pending) % RING_SIZE
  <1>1. /\ ring_head \in 0 .. RING_SIZE - 1 /\ ring_tail \in 0 .. RING_SIZE - 1 /\ RING_SIZE \in Nat
        /\ Pending \in 0 .. RING_SIZE
    BY PendTypes, Sizes
  <1>2. Pending = IF ring_head >= ring_tail THEN ring_head - ring_tail
                                            ELSE ring_head - ring_tail + RING_SIZE
    BY PendTypes, Distance DEF CountInv, Dist
  <1>3. (ring_tail + Pending) % RING_SIZE = IF ring_tail + Pending < RING_SIZE
                                              THEN ring_tail + Pending
                                              ELSE ring_tail + Pending - RING_SIZE
    BY <1>1, PendTypes, Moved
  <1>4. QED BY <1>1, <1>2, <1>3

\* Two slots less than the ring apart differ.
LEMMA SlotsDiffer ==
    ASSUME NEW t \in Cap!Index, NEW j \in Nat, NEW k \in Nat, j < k, k < RING_SIZE
    PROVE  (t + j) % RING_SIZE # (t + k) % RING_SIZE
  <1>1. t \in 0 .. RING_SIZE - 1 /\ RING_SIZE \in Nat
    BY Sizes
  <1>2. /\ (t + j) % RING_SIZE = IF t + j < RING_SIZE THEN t + j ELSE t + j - RING_SIZE
        /\ (t + k) % RING_SIZE = IF t + k < RING_SIZE THEN t + k ELSE t + k - RING_SIZE
    <2>1. j \in 0 .. RING_SIZE /\ k \in 0 .. RING_SIZE
      BY <1>1
    <2>2. QED BY <2>1, Moved
  <1>3. QED BY <1>1, <1>2

\* Moving on twice is moving on by both.
LEMMA SlotOn ==
    ASSUME NEW t \in Cap!Index, NEW j \in Nat, NEW k \in Nat, k + j < RING_SIZE
    PROVE  (((t + k) % RING_SIZE) + j) % RING_SIZE = (t + (k + j)) % RING_SIZE
  <1> DEFINE s == (t + k) % RING_SIZE
  <1>1. t \in 0 .. RING_SIZE - 1 /\ RING_SIZE \in Nat
    BY Sizes
  <1>2. j \in 0 .. RING_SIZE /\ k \in 0 .. RING_SIZE /\ k + j \in 0 .. RING_SIZE
    BY <1>1
  <1>3. s = IF t + k < RING_SIZE THEN t + k ELSE t + k - RING_SIZE
    BY <1>2, Moved
  <1>4. (t + (k + j)) % RING_SIZE = IF t + (k + j) < RING_SIZE THEN t + (k + j)
                                                              ELSE t + (k + j) - RING_SIZE
    BY <1>2, Moved
  <1>5. s \in Cap!Index
    BY <1>1, Masked
  <1> HIDE DEF s
  <1>6. (s + j) % RING_SIZE = IF s + j < RING_SIZE THEN s + j ELSE s + j - RING_SIZE
    BY <1>2, <1>5, Moved
  <1>7. (s + j) % RING_SIZE = (t + (k + j)) % RING_SIZE
    BY <1>1, <1>3, <1>4, <1>6
  <1>8. QED BY <1>7 DEF s

\* The spans of log_flush(), from the tail to the end of the ring and on from
\* its start.
LEMMA Spans ==
    ASSUME TypeInv
    PROVE  /\ ring_tail \in 0 .. RING_SIZE - 1 /\ avail \in 0 .. RING_SIZE - 1
           /\ idx \in Nat /\ consumed \in Nat
           /\ FlushLenA \in 0 .. avail /\ FlushLenB \in 0 .. avail
           /\ FlushLenA + FlushLenB = avail /\ ring_tail + FlushLenA <= RING_SIZE
           /\ FlushLenB > 0 => ring_tail + FlushLenA = RING_SIZE
           /\ SECTOR \in Nat /\ SECTOR > 0 /\ RING_SIZE = 2 * SECTOR /\ Offsets = 0 .. SECTOR - 1
           /\ ring \in [0 .. RING_SIZE - 1 -> Slots]
  <1>1. /\ ring_tail \in 0 .. RING_SIZE - 1 /\ avail \in 0 .. RING_SIZE - 1
        /\ idx \in Nat /\ consumed \in Nat /\ ring \in [0 .. RING_SIZE - 1 -> Slots]
    BY Sizes DEF TypeInv, TypeOK
  <1>2. SECTOR \in Nat /\ SECTOR > 0 /\ RING_SIZE = 2 * SECTOR /\ Offsets = 0 .. SECTOR - 1
    BY Sizes
  <1>3. QED BY <1>1, <1>2 DEF FlushLenA, FlushLenB

\* Where the pending bytes are.
LEMMA HeldAt ==
    ASSUME TypeInv, CountInv, Held, NEW j \in 0 .. Pending - 1
    PROVE  /\ ring_tail + j < RING_SIZE => ring[ring_tail + j] = consumed + j
           /\ ring_tail + j >= RING_SIZE => ring[ring_tail + j - RING_SIZE] = consumed + j
  <1>1. ring_tail \in Cap!Index /\ Pending \in 0 .. RING_SIZE - 1 /\ RING_SIZE \in Nat
    BY PendTypes, Sizes
  <1>2. j \in 0 .. RING_SIZE /\ ring_tail + j \in Nat
    BY <1>1, Sizes
  <1>3. (ring_tail + j) % RING_SIZE = IF ring_tail + j < RING_SIZE THEN ring_tail + j
                                                                  ELSE ring_tail + j - RING_SIZE
    BY <1>1, <1>2, Moved
  <1>4. ring[(ring_tail + j) % RING_SIZE] = consumed + j
    BY DEF Held
  <1>5. QED BY <1>1, <1>2, <1>3, <1>4

\* A full sector in the ring is the oldest bytes pending.
LEMMA SectorHeld ==
    ASSUME TypeInv, CountInv, Held, Pending >= SECTOR, NEW i \in Offsets
    PROVE  Cap!SpanByte(i) = consumed + i
  <1>1. /\ ring_tail \in 0 .. RING_SIZE - 1 /\ SECTOR \in Nat /\ RING_SIZE = 2 * SECTOR
        /\ i \in 0 .. SECTOR - 1 /\ Pending \in Nat
    BY Spans, PendTypes
  <1>2. i \in 0 .. Pending - 1
    BY <1>1
  <1>3. /\ ring_tail + i < RING_SIZE => ring[ring_tail + i] = consumed + i
        /\ ring_tail + i >= RING_SIZE => ring[ring_tail + i - RING_SIZE] = consumed + i
    BY <1>2, HeldAt
  <1>4. PICK n : n = Cap!LenA
    OBVIOUS
  <1>5. n = IF RING_SIZE - ring_tail >= SECTOR THEN SECTOR ELSE RING_SIZE - ring_tail
    BY <1>4, Sizes DEF Cap!LenA
  <1>6. Cap!SpanByte(i) = IF i < n THEN ring[ring_tail + i] ELSE ring[i - n]
    BY <1>4 DEF Cap!SpanByte
  <1>7. CASE i < n
    BY <1>1, <1>3, <1>5, <1>6, <1>7
  <1>8. CASE ~ (i < n)
    <2>1. ring_tail + i >= RING_SIZE /\ ring_tail + i - RING_SIZE = i - n
      BY <1>1, <1>5, <1>8
    <2>2. QED BY <1>3, <1>6, <1>8, <2>1
  <1>9. QED BY <1>7, <1>8

\* What is known of the pending bytes while nothing has gone wrong.
LEMMA CleanBytes ==
    ASSUME PendInv, Clean
    PROVE  CountInv /\ LoadInv /\ TakenInv
  <1>1. Good
    BY DEF Clean, Good
  <1>2. QED BY <1>1 DEF PendInv, BytesInv

\* From the boundary of a sector, or with nothing pending, log_flush() has one
\* span only to copy.
LEMMA MainCopySafe ==
    ASSUME TypeInv, MainInv, build = "main", avail = Dist, avail <= SECTOR
    PROVE  CopySafe
  <1>1. SECTOR \in Nat /\ RING_SIZE = 2 * SECTOR /\ avail \in Nat /\ ring_tail \in 0 .. RING_SIZE - 1
    BY Spans
  <1>2. ring_tail \in {0, SECTOR} \/ avail = 0
    BY DEF MainInv
  <1>3. RING_SIZE - ring_tail >= avail
    BY <1>1, <1>2
  <1>4. QED BY <1>1, <1>3 DEF CopySafe, FlushLenB, FlushLenA

-----------------------------------------------------------------------------
(* The steps that leave the ring as it is *)

\* The sectors, the directory and the FAT are what they were.
LEMMA FaithfulSame ==
    ASSUME ScratchInv, Clean' = Clean, build' = build, last' = last, dir' = dir, fat' = fat
    PROVE  SectorsFaithful'
  BY DEF ScratchInv, SectorsFaithful, Expected, Offsets, SECTOR, Cap!SECTOR

\* Where nothing changes the buffers stay, while the timer ticks for example.
LEMMA ScratchSame ==
    ASSUME ScratchInv, pc' = pc,
           UNCHANGED <<ring, ring_head, ring_tail, accepted, consumed, load, avail, idx, out>>,
           Clean' = Clean, build' = build, last' = last, dir' = dir, fat' = fat
    PROVE  ScratchInv'
  <1>1. Pending' = Pending /\ Held' = Held
    BY DEF Pending, Held, RING_SIZE, Cap!RING_SIZE
  <1>2. FlushLenA' = FlushLenA /\ FlushLenB' = FlushLenB /\ CopySafe' = CopySafe
    BY DEF FlushLenA, FlushLenB, CopySafe, RING_SIZE, Cap!RING_SIZE, SECTOR, Cap!SECTOR
  <1>3. AloneInv' = AloneInv
    <2>1. Cap!HeadRead' = Cap!HeadRead
      BY DEF Cap!HeadRead, Cap!HighByte, Cap!LowByte
    <2>2. QED BY <1>1, <2>1 DEF AloneInv
  <1>4. CopyInv' = CopyInv
    BY <1>2 DEF CopyInv, PadByte, Offsets, SECTOR, Cap!SECTOR
  <1>5. SentInv' = SentInv
    BY <1>2 DEF SentInv, PadByte, Offsets, SECTOR, Cap!SECTOR
  <1>6. QED BY <1>2, <1>3, <1>4, <1>5, FaithfulSame DEF ScratchInv

\* Outside log_flush() only the bytes pending matter.
LEMMA ScratchElsewhere ==
    ASSUME ScratchInv, pc \notin PadPcs,
           pc' \notin PadPcs \cup ExtendPcs \cup {"fload2", "dirread", "dirwrite"},
           UNCHANGED <<ring, ring_tail, accepted, consumed>>,
           Clean' = Clean, build' = build, last' = last, dir' = dir, fat' = fat
    PROVE  ScratchInv'
  <1>1. Held' = Held
    BY DEF Pending, Held, RING_SIZE, Cap!RING_SIZE
  <1>2. Clean => AloneInv'
    BY <1>1 DEF ScratchInv, AloneInv
  <1>3. CopyInv' /\ SentInv'
    BY DEF CopyInv, SentInv, PadPcs
  <1>4. QED BY <1>2, <1>3, FaithfulSame DEF ScratchInv

\* Once something went wrong nothing is claimed.
LEMMA ScratchUnclean == ASSUME ~ Clean' PROVE ScratchInv'
  BY DEF ScratchInv, SectorsFaithful

\* The bystanders of log_flush().
LEMMA ScratchOthers ==
    ASSUME TypeInv, PendInv, ScratchInv,
           \/ Tick \/ LoadSecond \/ LoadFirst \/ PollLoad \/ ScanByte \/ Poll \/ PollDecide
           \/ ClearPending \/ WriteRecord \/ EnterRepl \/ CmdSync \/ CmdReset \/ UNCHANGED vars
           \/ ExtendRead \/ ExtendWrite \/ ExtendFails
    PROVE  ScratchInv'
  <1>1. CASE Tick
    <2>1. /\ pc' = pc \/ (pc = "sleep" /\ pc' = "load1")
          /\ UNCHANGED <<ring, ring_head, ring_tail, accepted, consumed, load, avail, idx, out>>
          /\ Clean' = Clean /\ build' = build /\ last' = last /\ dir' = dir /\ fat' = fat
      BY <1>1 DEF Tick, TimerFires, Wake, capVars, fileVars, flushVars, cardVars, Clean
    <2>2. CASE pc' = pc
      BY <2>1, <2>2, ScratchSame
    <2>3. CASE pc' # pc
      <3>1. pc \notin PadPcs /\ pc' \notin PadPcs \cup ExtendPcs \cup {"fload2", "dirread", "dirwrite"}
        BY <2>1, <2>3 DEF PadPcs, ExtendPcs
      <3>2. QED BY <2>1, <3>1, ScratchElsewhere
    <2>4. QED BY <2>2, <2>3
  <1>2. CASE UNCHANGED vars
    BY <1>2, ScratchSame DEF vars, capVars, fileVars, flushVars, cardVars, Clean
  <1>3. CASE ExtendRead \/ ExtendWrite \/ ExtendFails
    <2>1. pc \in ExtendPcs /\ Clean' = Clean
      BY <1>3 DEF ExtendRead, ExtendWrite, ExtendFails, ExtendPcs, Clean, cardVars, Clean
    <2>2. ~ Clean
      BY <2>1 DEF ScratchInv, AloneInv
    <2>3. QED BY <2>1, <2>2, ScratchUnclean
  <1>4. CASE LoadSecond \/ LoadFirst \/ PollLoad \/ ScanByte
    <2>1. /\ pc \in {"load1", "load2", "pload1", "scan"}
          /\ pc' \in {"load2", "pload2", "poll", "scan", "append", "repl"}
          /\ UNCHANGED <<ring, ring_tail, accepted, consumed>>
          /\ Clean' = Clean /\ build' = build /\ last' = last /\ dir' = dir /\ fat' = fat
      BY <1>4 DEF LoadSecond, LoadFirst, PollLoad, ScanByte, Cap!LoadSecond, Cap!LoadFirst, Cap!LoadHead,
             Cap!Test, Cap!ScanByte, Cap!AfterByte, loopRest, cardVars, Clean
    <2>2. pc \notin PadPcs /\ pc' \notin PadPcs \cup ExtendPcs \cup {"fload2", "dirread", "dirwrite"}
      BY <2>1 DEF PadPcs, ExtendPcs
    <2>3. QED BY <2>1, <2>2, ScratchElsewhere
  <1>5. CASE \/ Poll \/ PollDecide \/ ClearPending \/ WriteRecord \/ EnterRepl \/ CmdSync \/ CmdReset
    <2>1. /\ pc \in {"poll", "pload2", "clear", "record", "repl", "prompt"}
          /\ pc' \in {"load1", "pload1", "clear", "fload1", "record", "sleep", "prompt", "reset"}
          /\ UNCHANGED <<ring, ring_tail, accepted, consumed>>
          /\ Clean' = Clean /\ build' = build /\ last' = last /\ dir' = dir /\ fat' = fat
      BY <1>5 DEF Poll, PollDecide, ClearPending, WriteRecord, RecordByte, EnterRepl, CallFlush, CmdSync,
             CmdReset, capVars, fileVars, cardVars, Clean
    <2>2. pc \notin PadPcs /\ pc' \notin PadPcs \cup ExtendPcs \cup {"fload2", "dirread", "dirwrite"}
      BY <2>1 DEF PadPcs, ExtendPcs
    <2>3. QED BY <2>1, <2>2, ScratchElsewhere
  <1>6. QED BY <1>1, <1>2, <1>3, <1>4, <1>5

\* log_flush() loads the head as it is.
LEMMA ScratchLoad ==
    ASSUME TypeInv, ScratchInv, FlushLoad
    PROVE  ScratchInv'
  <1>1. Cap!HeadRead' = ring_head
    BY Loads, LoadsOnly, LoadedHead
  <1>2. /\ pc = "fload1" /\ pc' = "fload2"
        /\ UNCHANGED <<ring, ring_head, ring_tail, accepted, consumed>>
        /\ Clean' = Clean /\ build' = build /\ last' = last /\ dir' = dir /\ fat' = fat
    BY DEF FlushLoad, Cap!LoadHead, loopRest, cardVars, Clean
  <1>3. Held' = Held
    BY <1>2 DEF Pending, Held, RING_SIZE, Cap!RING_SIZE
  <1>4. Clean => AloneInv'
    BY <1>1, <1>2, <1>3 DEF ScratchInv, AloneInv, PadPcs, ExtendPcs
  <1>5. CopyInv' /\ SentInv'
    BY <1>2 DEF CopyInv, SentInv, PadPcs
  <1>6. QED BY <1>2, <1>4, <1>5, FaithfulSame DEF ScratchInv

-----------------------------------------------------------------------------
(* The steps of log_process() and the interrupt *)

\* A byte arrives behind those pending; while the scratch is in use it shares
\* it.
LEMMA ScratchReceive ==
    ASSUME TypeInv, PendInv, ScratchInv, Receive
    PROVE  ScratchInv'
  <1>1. /\ ring' = [ring EXCEPT ![ring_head] = accepted] /\ accepted' = accepted + 1
        /\ ring_tail' = ring_tail /\ consumed' = consumed
        /\ last' = last /\ dir' = dir /\ fat' = fat
        /\ pc' = pc \/ (pc = "sleep" /\ pc' = "load1")
        /\ rx_enabled /\ build' = build
    BY DEF Receive, Wake, Cap!Store, fileVars, cardVars, Clean
  <1>2. SUFFICES ASSUME Clean' PROVE ScratchInv'
    BY ScratchUnclean
  <1>3. Clean /\ Clean' = Clean /\ pc \notin ScratchPcs
    <2>1. mishaps \subseteq mishaps' /\ (pc \in ScratchPcs => "shared" \in mishaps')
      BY DEF Receive
    <2>2. Clean
      BY <1>1, <1>2, <2>1 DEF Clean
    <2>3. CASE build = "main"
      <3>1. ctx # "cmd" /\ ctx # "idle"
        BY <1>1, <2>3 DEF PendInv, QuietInv, MainInv, ForCommand
      <3>2. pc \notin FlushPcs /\ pc \notin ExtendPcs
        BY <2>2, <3>1 DEF TypeInv, PlaceInv, ScratchInv, AloneInv
      <3>3. QED BY <1>2, <2>2, <3>2 DEF ScratchPcs, FlushPcs, PadPcs, TailPcs, ExtendPcs
    <2>4. CASE build # "main"
      BY <1>1, <1>2, <2>1, <2>2, <2>4 DEF Clean
    <2>5. QED BY <2>3, <2>4
  <1>4. /\ pc \notin PadPcs
        /\ pc' \notin PadPcs \cup ExtendPcs \cup {"fload2", "dirread", "dirwrite"}
    BY <1>1, <1>3 DEF ScratchPcs, PadPcs, ExtendPcs
  <1>5. Held
    BY <1>3, <1>4 DEF ScratchInv, AloneInv
  <1>6. Pending \in 0 .. RING_SIZE - 1 /\ accepted \in Nat /\ consumed \in Nat /\ ring_tail \in Cap!Index
        /\ ring_head \in Cap!Index
    BY <1>3, CleanBytes, PendTypes
  <1>7. Pending' = Pending + 1 /\ accepted = consumed + Pending
    BY <1>1, <1>6 DEF Pending
  <1>8. ring_head = (ring_tail + Pending) % RING_SIZE
    BY <1>3, CleanBytes, HeadSlot
  <1>9. ring \in [Cap!Index -> Slots]
    BY DEF TypeInv, TypeOK
  <1>10. ASSUME NEW j \in 0 .. Pending
         PROVE  ring'[(ring_tail + j) % RING_SIZE] = consumed + j
    <2>1. CASE j = Pending
      BY <1>1, <1>6, <1>7, <1>8, <1>9, <2>1
    <2>2. CASE j # Pending
      <3>1. j \in 0 .. Pending - 1 /\ j < Pending /\ Pending < RING_SIZE /\ j \in Nat /\ Pending \in Nat
            /\ ring_tail + j \in Int
        BY <1>6, <2>2, Sizes
      <3>2. (ring_tail + j) % RING_SIZE # ring_head
        BY <1>6, <1>8, <3>1, SlotsDiffer
      <3>3. (ring_tail + j) % RING_SIZE \in Cap!Index
        BY <3>1, Masked
      <3>4. ring[(ring_tail + j) % RING_SIZE] = consumed + j
        BY <1>5, <3>1 DEF Held
      <3>5. QED BY <1>1, <1>9, <3>2, <3>3, <3>4
    <2>3. QED BY <2>1, <2>2
  <1>11. Held'
    <2>1. 0 .. Pending' - 1 = 0 .. Pending
      BY <1>6, <1>7
    <2>2. QED BY <1>1, <1>10, <2>1 DEF Held, RING_SIZE, Cap!RING_SIZE
  <1>12. AloneInv' /\ CopyInv' /\ SentInv'
    BY <1>4, <1>11 DEF AloneInv, CopyInv, SentInv, PadPcs
  <1>13. QED BY <1>1, <1>3, <1>12, FaithfulSame DEF ScratchInv

\* log_process() writes the oldest bytes pending, or is refused.
LEMMA ScratchAppend ==
    ASSUME TypeInv, PendInv, ScratchInv, AppendSector
    PROVE  ScratchInv'
  <1>1. /\ pc = "append" /\ UNCHANGED <<ring, ring_tail, accepted, consumed>>
        /\ dir' = dir /\ fat' = fat
    BY DEF AppendSector, capVars, cardVars, Clean
  <1>2. CASE NeedsCluster
    BY <1>2, ScratchUnclean DEF AppendSector, StartExtend, Clean
  <1>3. CASE ~ NeedsCluster
    <2>1. /\ pc' = "consume" /\ Clean' = Clean /\ build' = build
          /\ \/ last' = [kind |-> "log", first |-> consumed, count |-> SECTOR, safe |-> TRUE,
                         bytes |-> [i \in Offsets |-> Cap!SpanByte(i)]]
             \/ last' = last
      BY <1>3 DEF AppendSector, SectorWritten, fileVars, cardVars, Clean
    <2>2. pc \notin PadPcs /\ pc' \notin PadPcs \cup ExtendPcs \cup {"fload2", "dirread", "dirwrite"}
      BY <1>1, <2>1 DEF PadPcs, ExtendPcs
    <2>3. CASE last' = last
      BY <1>1, <2>1, <2>2, <2>3, ScratchElsewhere
    <2>4. CASE last' # last
      <3>1. Held' = Held
        BY <1>1 DEF Pending, Held, RING_SIZE, Cap!RING_SIZE
      <3>2. Clean => AloneInv' /\ Held
        BY <2>2, <3>1 DEF ScratchInv, AloneInv
      <3>3. CopyInv' /\ SentInv'
        BY <2>2 DEF CopyInv, SentInv, PadPcs
      <3>4. ASSUME Clean
            PROVE  [i \in Offsets |-> Cap!SpanByte(i)]
                     = [i \in Offsets |-> IF i < SECTOR THEN consumed + i ELSE Zero]
        <4>1. Pending >= SECTOR
          BY <1>1, <3>4, CleanBytes DEF TakenInv, SectorPcs
        <4>2. \A i \in Offsets : Cap!SpanByte(i) = consumed + i
          BY <3>2, <3>4, <4>1, CleanBytes, SectorHeld
        <4>3. \A i \in Offsets : i < SECTOR
          BY Sizes
        <4>4. QED BY <4>2, <4>3
      <3>5. SectorsFaithful'
        <4>1. ASSUME Clean PROVE last'.bytes = Expected(last')
          BY <2>1, <2>4, <3>4, <4>1 DEF Expected
        <4>2. QED
          BY <1>1, <2>1, <4>1 DEF ScratchInv, SectorsFaithful, Expected, Offsets, SECTOR, Cap!SECTOR
      <3>6. QED BY <2>1, <3>2, <3>3, <3>5 DEF ScratchInv
    <2>5. QED BY <2>3, <2>4
  <1>4. QED BY <1>2, <1>3

\* log_process() releases a sector; the bytes behind it stay where they are.
LEMMA ScratchConsume ==
    ASSUME TypeInv, PendInv, ScratchInv, Consume
    PROVE  ScratchInv'
  <1>1. /\ pc = "consume" /\ pc' = "load1" /\ ring' = ring /\ accepted' = accepted
        /\ ring_tail' = (ring_tail + SECTOR) % RING_SIZE /\ consumed' = consumed + SECTOR
        /\ Clean' = Clean /\ build' = build /\ last' = NoSector /\ dir' = dir /\ fat' = fat
    BY Sizes DEF Consume, Cap!Consume, Cap!Advance, cardVars, Clean
  <1>2. pc \notin PadPcs /\ pc' \notin PadPcs \cup ExtendPcs \cup {"fload2", "dirread", "dirwrite"}
    BY <1>1 DEF PadPcs, ExtendPcs
  <1>3. SECTOR \in Nat /\ ring_tail \in Cap!Index /\ consumed \in Nat /\ accepted \in Nat
    BY DistTypes
  <1>4. Pending' = Pending - SECTOR
    BY <1>1, <1>3 DEF Pending
  <1>5. ASSUME Clean PROVE Held'
    <2>0. Pending >= SECTOR /\ Pending \in 0 .. RING_SIZE - 1
      BY <1>1, <1>5, CleanBytes, PendTypes DEF TakenInv, SectorPcs
    <2>1. Held
      BY <1>2, <1>5 DEF ScratchInv, AloneInv
    <2>2. ASSUME NEW j \in 0 .. Pending - SECTOR - 1
          PROVE  ring[(((ring_tail + SECTOR) % RING_SIZE) + j) % RING_SIZE] = (consumed + SECTOR) + j
      <3>1. SECTOR + j \in 0 .. Pending - 1 /\ j \in Nat /\ SECTOR + j < RING_SIZE
        BY <1>3, <2>0, Sizes
      <3>2. (((ring_tail + SECTOR) % RING_SIZE) + j) % RING_SIZE = (ring_tail + (SECTOR + j)) % RING_SIZE
        BY <1>3, <3>1, SlotOn
      <3>3. ring[(ring_tail + (SECTOR + j)) % RING_SIZE] = consumed + (SECTOR + j)
        BY <2>1, <3>1 DEF Held
      <3>4. QED BY <1>3, <3>1, <3>2, <3>3
    <2>3. QED BY <1>1, <1>4, <2>2 DEF Held, RING_SIZE, Cap!RING_SIZE
  <1>6. Clean => AloneInv'
    BY <1>2, <1>5 DEF AloneInv
  <1>7. CopyInv' /\ SentInv'
    BY <1>2 DEF CopyInv, SentInv, PadPcs
  <1>8. SectorsFaithful'
    BY <1>1 DEF ScratchInv, SectorsFaithful, NoSector, Offsets, SECTOR, Cap!SECTOR
  <1>9. QED BY <1>1, <1>6, <1>7, <1>8 DEF ScratchInv

\* In command mode nothing is pending that init or trim could overwrite.
LEMMA ScratchCommand ==
    ASSUME TypeInv, PendInv, ScratchInv, CmdScratch
    PROVE  ScratchInv'
  <1>1. /\ pc = "prompt" /\ pc' = pc /\ UNCHANGED <<ring_tail, accepted, consumed>>
        /\ Clean' = Clean /\ build' = build /\ last' = last /\ dir' = dir /\ fat' = fat
    BY DEF CmdScratch, fileVars, cardVars, Clean
  <1>2. ASSUME Clean PROVE Held'
    <2>1. Pending = 0
      BY <1>1, <1>2, CleanBytes DEF PendInv, QuietInv, Emptied, CountInv
    <2>2. QED BY <1>1, <2>1 DEF Held, Pending
  <1>3. (Clean => AloneInv') /\ CopyInv' /\ SentInv'
    BY <1>1, <1>2 DEF AloneInv, CopyInv, SentInv, PadPcs, ExtendPcs
  <1>4. QED BY <1>1, <1>3, FaithfulSame DEF ScratchInv

-----------------------------------------------------------------------------
(* The steps of log_flush() *)

\* log_flush() has found out how many bytes are pending, and they lie in the
\* two spans.
LEMMA ScratchStart ==
    ASSUME TypeInv, PendInv, ScratchInv, FlushStart
    PROVE  ScratchInv'
  <1>1. /\ pc = "fload2" /\ avail' = Cap!Avail /\ idx' = 0 /\ out' = <<>>
        /\ pc' = (IF Cap!Avail > 0 THEN "copyB" ELSE "dirread")
        /\ UNCHANGED <<ring, ring_head, ring_tail, accepted, consumed>>
        /\ Clean' = Clean /\ build' = build /\ last' = last /\ dir' = dir /\ fat' = fat
    BY DEF FlushStart, fileVars, cardVars, Clean
  <1>2. SectorsFaithful'
    BY <1>1, FaithfulSame
  <1>3. SUFFICES ASSUME Clean PROVE AloneInv' /\ CopyInv' /\ SentInv'
    BY <1>1, <1>2 DEF ScratchInv
  <1>4. Held /\ Cap!HeadRead = ring_head /\ CountInv
    BY <1>1, <1>3, CleanBytes DEF ScratchInv, AloneInv, PadPcs
  <1>5. avail' = Pending /\ Pending' = Pending
    BY <1>1, <1>4, Sizes DEF Cap!Avail, CountInv, Dist, Pending
  <1>6. /\ Pending \in 0 .. RING_SIZE - 1 /\ consumed \in Nat /\ RING_SIZE \in Nat
        /\ ring_tail \in 0 .. RING_SIZE - 1
    BY <1>4, PendTypes, Sizes
  <1>7. pc' = "dirread" => Pending = 0
    BY <1>1, <1>5, <1>6
  <1>8. Held'
    BY <1>1, <1>4 DEF Pending, Held, RING_SIZE, Cap!RING_SIZE
  <1>9. AloneInv'
    BY <1>1, <1>5, <1>7, <1>8 DEF AloneInv, ExtendPcs
  <1>10. CopyInv'
    <2> DEFINE a == IF RING_SIZE - ring_tail >= Pending THEN Pending ELSE RING_SIZE - ring_tail
               b == Pending - a
    <2>0. FlushLenA' = a /\ FlushLenB' = b
      BY <1>1, <1>5 DEF FlushLenA, FlushLenB, RING_SIZE, Cap!RING_SIZE
    <2>1. /\ a \in Nat /\ b \in Nat /\ a + b = Pending /\ ring_tail + a <= RING_SIZE
          /\ b > 0 => ring_tail + a = RING_SIZE
      BY <1>6
    <2> HIDE DEF a, b
    <2>2. ASSUME NEW j \in 0 .. a - 1 PROVE ring[ring_tail + j] = consumed + j
      <3>1. j \in 0 .. Pending - 1 /\ ring_tail + j < RING_SIZE
        BY <1>6, <2>1
      <3>2. QED BY <1>4, <3>1, HeldAt
    <2>3. ASSUME NEW j \in 0 .. b - 1 PROVE ring[j] = consumed + (a + j)
      <3>1. /\ a + j \in 0 .. Pending - 1 /\ ring_tail + (a + j) >= RING_SIZE
            /\ ring_tail + (a + j) - RING_SIZE = j
        BY <1>6, <2>1
      <3>2. QED BY <1>4, <3>1, HeldAt
    <2>4. QED BY <1>1, <2>0, <2>1, <2>2, <2>3 DEF CopyInv
  <1>11. SentInv'
    BY <1>1 DEF SentInv, PadPcs
  <1>12. QED BY <1>9, <1>10, <1>11

\* What the three loops over bytes have in common.
LEMMA CopyRound ==
    ASSUME TypeInv, ScratchInv, Clean, CopySpanB \/ CopySpanA \/ ZeroPad
    PROVE  /\ AloneInv' /\ SentInv' /\ SectorsFaithful' /\ Clean' = Clean /\ build' = build
           /\ UNCHANGED <<ring_tail, consumed, avail>>
           /\ FlushLenA' = FlushLenA /\ FlushLenB' = FlushLenB /\ CopySafe' = CopySafe
  <1>1. /\ pc \in {"copyB", "copyA", "pad"} /\ pc' \in {"copyB", "copyA", "pad", "fappend"}
        /\ UNCHANGED <<ring_head, ring_tail, accepted, consumed, avail, out>>
        /\ Clean' = Clean /\ build' = build /\ last' = last /\ dir' = dir /\ fat' = fat
    BY DEF CopySpanB, CopySpanA, ZeroPad, CopyLoop, fileVars, cardVars, Clean
  <1>2. AloneInv'
    BY <1>1 DEF ScratchInv, AloneInv, PadPcs, ExtendPcs, Pending
  <1>3. SentInv'
    BY <1>1 DEF ScratchInv, SentInv, PadPcs
  <1>4. SectorsFaithful'
    BY <1>1, FaithfulSame
  <1>5. FlushLenA' = FlushLenA /\ FlushLenB' = FlushLenB /\ CopySafe' = CopySafe
    BY <1>1 DEF FlushLenA, FlushLenB, CopySafe, RING_SIZE, Cap!RING_SIZE, SECTOR, Cap!SECTOR
  <1>6. QED BY <1>1, <1>2, <1>3, <1>4, <1>5

\* Span b moves up behind where span a will go, over neither of them.
LEMMA CopyBKept ==
    ASSUME TypeInv, CopySafe, CopyInv, CopySpanB, UNCHANGED <<ring_tail, consumed, avail>>,
           FlushLenA' = FlushLenA, FlushLenB' = FlushLenB
    PROVE  CopyInv'
  <1> DEFINE a == FlushLenA
             b == FlushLenB
  <1>1. /\ pc = "copyB"
        /\ IF idx < b THEN ring' = [ring EXCEPT ![a + idx] = ring[idx]] /\ idx' = idx + 1 /\ pc' = pc
                      ELSE pc' = "copyA" /\ idx' = 0 /\ ring' = ring
    BY DEF CopySpanB, CopyLoop
  <1>2. /\ idx <= b
        /\ \A j \in 0 .. a - 1 : ring[ring_tail + j] = consumed + j
        /\ \A j \in 0 .. b - 1 : ring[j] = consumed + (a + j)
        /\ \A j \in 0 .. idx - 1 : ring[a + j] = consumed + (a + j)
    BY <1>1 DEF CopyInv
  <1>3. /\ ring_tail \in 0 .. RING_SIZE - 1 /\ avail \in 0 .. RING_SIZE - 1
        /\ idx \in Nat /\ consumed \in Nat
        /\ a \in 0 .. avail /\ b \in 0 .. avail
        /\ a + b = avail /\ ring_tail + a <= RING_SIZE /\ RING_SIZE \in Nat
        /\ ring \in [0 .. RING_SIZE - 1 -> Slots]
    BY Spans
  <1>4. b > 0 => b <= a /\ avail <= ring_tail
    BY DEF CopySafe
  <1> HIDE DEF a, b
  <1>5. CASE idx < b
    <2>1. /\ ring' = [ring EXCEPT ![a + idx] = ring[idx]] /\ idx' = idx + 1 /\ pc' = "copyB"
          /\ a + idx \in 0 .. RING_SIZE - 1 /\ a + idx < avail /\ idx \in 0 .. b - 1
      BY <1>1, <1>3, <1>5
    <2>2. \A s \in 0 .. RING_SIZE - 1 : ring'[s] = IF s = a + idx THEN ring[idx] ELSE ring[s]
      BY <1>3, <2>1
    <2>3. ASSUME NEW j \in 0 .. a - 1 PROVE ring'[ring_tail + j] = consumed + j
      <3>1. ring_tail + j \in 0 .. RING_SIZE - 1 /\ ring_tail + j # a + idx
        BY <1>3, <1>4, <1>5, <2>1
      <3>2. QED BY <1>2, <2>2, <3>1
    <2>4. ASSUME NEW j \in 0 .. b - 1 PROVE ring'[j] = consumed + (a + j)
      <3>1. j \in 0 .. RING_SIZE - 1 /\ j # a + idx
        BY <1>3, <1>4, <1>5, <2>1
      <3>2. QED BY <1>2, <2>2, <3>1
    <2>5. ASSUME NEW j \in 0 .. idx PROVE ring'[a + j] = consumed + (a + j)
      <3>1. CASE j = idx
        BY <1>2, <2>1, <2>2, <3>1
      <3>2. CASE j # idx
        <4>1. j \in 0 .. idx - 1 /\ a + j \in 0 .. RING_SIZE - 1 /\ a + j # a + idx
          BY <1>3, <1>5, <3>2
        <4>2. QED BY <1>2, <2>2, <4>1
      <3>3. QED BY <3>1, <3>2
    <2>6. 0 .. idx' - 1 = 0 .. idx /\ idx' <= b
      BY <1>3, <1>5, <2>1
    <2>7. QED BY <2>1, <2>3, <2>4, <2>5, <2>6 DEF CopyInv, a, b
  <1>6. CASE ~ (idx < b)
    <2>1. pc' = "copyA" /\ idx' = 0 /\ ring' = ring /\ idx = b
      BY <1>1, <1>2, <1>3, <1>6
    <2>2. ASSUME NEW j \in a .. avail - 1 PROVE ring[j] = consumed + j
      <3>1. j - a \in 0 .. idx - 1 /\ a + (j - a) = j
        BY <1>3, <2>1
      <3>2. ring[a + (j - a)] = consumed + (a + (j - a))
        BY <1>2, <3>1
      <3>3. QED BY <3>1, <3>2
    <2>3. QED BY <1>2, <1>3, <2>1, <2>2 DEF CopyInv, a, b
  <1>7. QED BY <1>5, <1>6

\* Span a moves down to the start, in front of span b.
LEMMA CopyAKept ==
    ASSUME TypeInv, CopySafe, CopyInv, CopySpanA, UNCHANGED <<ring_tail, consumed, avail>>,
           FlushLenA' = FlushLenA, FlushLenB' = FlushLenB
    PROVE  CopyInv'
  <1> DEFINE a == FlushLenA
  <1>1. /\ pc = "copyA"
        /\ IF idx < a THEN ring' = [ring EXCEPT ![idx] = ring[ring_tail + idx]] /\ idx' = idx + 1 /\ pc' = pc
                      ELSE pc' = "pad" /\ idx' = avail /\ ring' = ring
    BY DEF CopySpanA, CopyLoop
  <1>2. /\ idx <= a
        /\ \A j \in 0 .. idx - 1 : ring[j] = consumed + j
        /\ \A j \in idx .. a - 1 : ring[ring_tail + j] = consumed + j
        /\ \A j \in a .. avail - 1 : ring[j] = consumed + j
    BY <1>1 DEF CopyInv
  <1>3. /\ ring_tail \in 0 .. RING_SIZE - 1 /\ avail \in 0 .. RING_SIZE - 1
        /\ idx \in Nat /\ consumed \in Nat /\ a \in 0 .. avail
        /\ ring_tail + a <= RING_SIZE /\ RING_SIZE \in Nat
        /\ ring \in [0 .. RING_SIZE - 1 -> Slots]
    BY Spans
  <1>4. avail <= SECTOR /\ SECTOR \in Nat
    BY Spans DEF CopySafe
  <1> HIDE DEF a
  <1>5. CASE idx < a
    <2>1. /\ ring' = [ring EXCEPT ![idx] = ring[ring_tail + idx]] /\ idx' = idx + 1 /\ pc' = "copyA"
          /\ idx \in 0 .. RING_SIZE - 1 /\ ring[ring_tail + idx] = consumed + idx
      BY <1>1, <1>2, <1>3, <1>5
    <2>2. \A s \in 0 .. RING_SIZE - 1 : ring'[s] = IF s = idx THEN consumed + idx ELSE ring[s]
      BY <1>3, <2>1
    <2>3. ASSUME NEW j \in 0 .. idx PROVE ring'[j] = consumed + j
      <3>1. j \in 0 .. RING_SIZE - 1 /\ (j # idx => j \in 0 .. idx - 1)
        BY <1>3, <2>1
      <3>2. QED BY <1>2, <2>2, <3>1
    <2>4. ASSUME NEW j \in idx + 1 .. a - 1 PROVE ring'[ring_tail + j] = consumed + j
      <3>1. ring_tail + j \in 0 .. RING_SIZE - 1 /\ ring_tail + j # idx /\ j \in idx .. a - 1
        BY <1>3, <2>1
      <3>2. QED BY <1>2, <2>2, <3>1
    <2>5. ASSUME NEW j \in a .. avail - 1 PROVE ring'[j] = consumed + j
      <3>1. j \in 0 .. RING_SIZE - 1 /\ j # idx
        BY <1>3, <1>5
      <3>2. QED BY <1>2, <2>2, <3>1
    <2>6. 0 .. idx' - 1 = 0 .. idx /\ idx' .. a - 1 = idx + 1 .. a - 1 /\ idx' <= a
      BY <1>3, <1>5, <2>1
    <2>7. QED BY <2>1, <2>3, <2>4, <2>5, <2>6 DEF CopyInv, a
  <1>6. CASE ~ (idx < a)
    <2>1. pc' = "pad" /\ idx' = avail /\ ring' = ring /\ idx = a
      BY <1>1, <1>2, <1>3, <1>6
    <2>2. ASSUME NEW j \in 0 .. avail - 1 PROVE ring[j] = consumed + j /\ j < avail
      BY <1>2, <1>3, <2>1
    <2>3. idx' <= SECTOR' /\ avail' <= idx'
      BY <1>3, <1>4, <2>1 DEF SECTOR, Cap!SECTOR
    <2>4. QED BY <2>1, <2>2, <2>3 DEF CopyInv, PadByte
  <1>7. QED BY <1>5, <1>6

\* The rest of the sector is filled with zeros.
LEMMA PadKept ==
    ASSUME TypeInv, CopyInv, ZeroPad, UNCHANGED <<ring_tail, consumed, avail>>
    PROVE  CopyInv'
  <1>1. /\ pc = "pad"
        /\ IF idx < SECTOR THEN ring' = [ring EXCEPT ![idx] = Zero] /\ idx' = idx + 1 /\ pc' = pc
                           ELSE pc' = "fappend" /\ idx' = 0 /\ ring' = ring
    BY DEF ZeroPad, CopyLoop
  <1>2. avail <= idx /\ idx <= SECTOR /\ \A j \in 0 .. idx - 1 : ring[j] = PadByte(j)
    BY <1>1 DEF CopyInv
  <1>3. /\ avail \in Nat /\ idx \in Nat /\ SECTOR \in Nat /\ RING_SIZE = 2 * SECTOR
        /\ Offsets = 0 .. SECTOR - 1 /\ ring \in [0 .. RING_SIZE - 1 -> Slots]
    BY Spans
  <1>4. \A j \in Nat : PadByte(j)' = PadByte(j)
    BY DEF PadByte
  <1>5. CASE idx < SECTOR
    <2>1. /\ ring' = [ring EXCEPT ![idx] = Zero] /\ idx' = idx + 1 /\ pc' = "pad"
          /\ idx \in 0 .. RING_SIZE - 1
      BY <1>1, <1>3, <1>5
    <2>2. PadByte(idx) = Zero
      BY <1>2, <1>3 DEF PadByte
    <2>3. ASSUME NEW j \in 0 .. idx PROVE ring'[j] = PadByte(j)
      <3>1. j \in 0 .. RING_SIZE - 1 /\ (j # idx => j \in 0 .. idx - 1)
        BY <1>3, <2>1
      <3>2. QED BY <1>2, <1>3, <2>1, <2>2, <3>1
    <2>4. 0 .. idx' - 1 = 0 .. idx /\ idx' <= SECTOR /\ avail <= idx'
      BY <1>2, <1>3, <1>5, <2>1
    <2>5. QED BY <1>4, <2>1, <2>3, <2>4 DEF CopyInv, PadByte, SECTOR, Cap!SECTOR
  <1>6. CASE ~ (idx < SECTOR)
    <2>1. pc' = "fappend" /\ ring' = ring /\ idx = SECTOR
      BY <1>1, <1>2, <1>3, <1>6
    <2>2. \A j \in Offsets : ring[j] = PadByte(j)
      BY <1>2, <1>3, <2>1
    <2>3. QED BY <2>1, <2>2 DEF CopyInv, PadByte, Offsets, SECTOR, Cap!SECTOR
  <1>7. QED BY <1>5, <1>6

\* So the pad holds what it should when it is handed on.
LEMMA ScratchCopy ==
    ASSUME TypeInv, ScratchInv, CopySpanB \/ CopySpanA \/ ZeroPad
    PROVE  ScratchInv'
  <1>1. Clean' = Clean /\ build' = build
    BY DEF CopySpanB, CopySpanA, ZeroPad, CopyLoop, cardVars, Clean
  <1>2. CASE ~ Clean
    BY <1>1, <1>2, ScratchUnclean
  <1>3. CASE Clean
    <2>1. /\ AloneInv' /\ SentInv' /\ SectorsFaithful'
          /\ UNCHANGED <<ring_tail, consumed, avail>>
          /\ FlushLenA' = FlushLenA /\ FlushLenB' = FlushLenB /\ CopySafe' = CopySafe
      BY <1>3, CopyRound
    <2>2. CopySafe => CopyInv
      BY <1>3 DEF ScratchInv
    <2>3. CopySafe' => CopyInv'
      BY <2>1, <2>2, CopyBKept, CopyAKept, PadKept
    <2>4. QED BY <2>1, <2>3 DEF ScratchInv
  <1>4. QED BY <1>2, <1>3

\* The padded sector is handed to the card, or a cluster is added first.
LEMMA ScratchHand ==
    ASSUME TypeInv, ScratchInv, FlushAppend
    PROVE  ScratchInv'
  <1>1. SUFFICES ASSUME Clean' PROVE ScratchInv'
    BY ScratchUnclean
  <1>2. /\ pc = "fappend" /\ Clean' = Clean /\ build' = build /\ out' = out
        /\ pc' = "fconsume" \/ (pc' = "send" /\ idx' = 0)
        /\ UNCHANGED <<ring, ring_head, ring_tail, accepted, consumed, avail>>
        /\ last' = last /\ dir' = dir /\ fat' = fat
    BY <1>1 DEF FlushAppend, StartExtend, capVars, fileVars, cardVars, Clean
  <1>3. AloneInv /\ (CopySafe => CopyInv) /\ SentInv
    BY <1>1, <1>2 DEF ScratchInv
  <1>4. CopySafe' = CopySafe
    BY <1>2 DEF FlushLenA, FlushLenB, CopySafe, RING_SIZE, Cap!RING_SIZE, SECTOR, Cap!SECTOR
  <1>5. AloneInv'
    BY <1>2, <1>3 DEF AloneInv, PadPcs, ExtendPcs, Pending
  <1>6. CopyInv => CopyInv'
    BY <1>2 DEF CopyInv, PadByte, Offsets, SECTOR, Cap!SECTOR
  <1>7. SentInv'
    <2>1. out = <<>>
      BY <1>2, <1>3 DEF SentInv, PadPcs
    <2>2. out \in Seq(Slots) /\ Len(out) = 0
      BY <2>1
    <2>3. QED BY <1>2, <2>1, <2>2 DEF SentInv, PadPcs
  <1>8. QED BY <1>2, <1>3, <1>4, <1>5, <1>6, <1>7, FaithfulSame DEF ScratchInv

\* Byte by byte the card is sent what the pad holds.
LEMMA ScratchSend ==
    ASSUME TypeInv, PendInv, ScratchInv, SendByte
    PROVE  ScratchInv'
  <1>1. /\ pc = "send" /\ Clean' = Clean /\ build' = build /\ dir' = dir /\ fat' = fat
        /\ UNCHANGED <<ring, ring_head, ring_tail, accepted, consumed, avail>>
    BY DEF SendByte, capVars, cardVars, Clean
  <1>2. SUFFICES ASSUME Clean' PROVE ScratchInv'
    BY ScratchUnclean
  <1>3. AloneInv /\ (CopySafe => CopyInv) /\ SentInv /\ SectorsFaithful
    BY <1>1, <1>2 DEF ScratchInv
  <1>4. CopySafe' = CopySafe
    BY <1>1 DEF FlushLenA, FlushLenB, CopySafe, RING_SIZE, Cap!RING_SIZE, SECTOR, Cap!SECTOR
  <1>5. pc' \in {"send", "fconsume"}
    BY <1>1 DEF SendByte
  <1>6. AloneInv'
    BY <1>1, <1>3, <1>5 DEF AloneInv, PadPcs, ExtendPcs, Pending
  <1>7. CopyInv => CopyInv'
    BY <1>1, <1>5 DEF CopyInv, PadByte, Offsets, SECTOR, Cap!SECTOR
  <1>8. /\ out \in Seq(Slots) /\ Len(out) = idx
        /\ CopySafe => /\ \A j \in 0 .. idx - 1 : out[j + 1] = PadByte(j)
                       /\ \A j \in Offsets : ring[j] = PadByte(j)
    BY <1>1, <1>3 DEF SentInv, CopyInv
  <1>9. /\ idx \in Offsets /\ idx \in Nat /\ SECTOR \in Nat /\ Offsets = 0 .. SECTOR - 1
        /\ ring[idx] \in Slots
    <2>1. idx < SECTOR
      BY <1>1 DEF TypeInv, IndexInv
    <2>2. QED BY <2>1, Spans
  <1>10. CASE idx < SECTOR - 1
    <2>1. pc' = "send" /\ idx' = idx + 1 /\ out' = Append(out, ring[idx]) /\ last' = last
      BY <1>1, <1>10 DEF SendByte, fileVars
    <2> HIDE DEF Slots
    <2>2. /\ out' \in Seq(Slots) /\ Len(out') = idx + 1 /\ out'[idx + 1] = ring[idx]
          /\ \A j \in 1 .. idx : out'[j] = out[j]
      BY <1>8, <1>9, <2>1
    <2>3. ASSUME CopySafe, NEW j \in 0 .. idx PROVE out'[j + 1] = PadByte(j)
      <3>1. CASE j = idx
        BY <1>8, <1>9, <2>2, <2>3, <3>1
      <3>2. CASE j # idx
        <4>1. j \in 0 .. idx - 1 /\ j + 1 \in 1 .. idx
          BY <1>9, <3>2
        <4>2. QED BY <1>8, <2>2, <2>3, <4>1
      <3>3. QED BY <3>1, <3>2
    <2>4. 0 .. idx' - 1 = 0 .. idx
      BY <1>9, <2>1
    <2>5. \A j \in Nat : PadByte(j)' = PadByte(j)
      BY <1>1 DEF PadByte
    <2>6. SentInv'
      BY <1>1, <1>4, <1>9, <2>1, <2>2, <2>3, <2>4 DEF SentInv, PadByte, Slots
    <2>7. QED BY <1>1, <1>3, <1>4, <1>6, <1>7, <2>1, <2>6, FaithfulSame DEF ScratchInv
  <1>11. CASE ~ (idx < SECTOR - 1)
    <2>1. /\ pc' = "fconsume" /\ out' = <<>>
          /\ last' = [kind |-> "flush", first |-> consumed, count |-> avail, safe |-> CopySafe,
                      bytes |-> [i \in Offsets |-> IF i < SECTOR - 1 THEN out[i + 1] ELSE ring[i]]]
      BY <1>1, <1>11 DEF SendByte, SectorWritten
    <2>2. idx = SECTOR - 1
      BY <1>9, <1>11
    <2>3. SentInv'
      BY <2>1 DEF SentInv, PadPcs
    <2>4. ASSUME CopySafe, NEW i \in Offsets
          PROVE  (IF i < SECTOR - 1 THEN out[i + 1] ELSE ring[i])
                   = IF i < avail THEN consumed + i ELSE Zero
      <3>1. i < SECTOR - 1 => i \in 0 .. idx - 1
        BY <1>9, <2>2
      <3>2. (IF i < SECTOR - 1 THEN out[i + 1] ELSE ring[i]) = PadByte(i)
        BY <1>8, <2>4, <3>1
      <3>3. QED BY <3>2 DEF PadByte
    <2>5. SectorsFaithful'
      <3>1. CopySafe => last'.bytes = Expected(last')
        BY <2>1, <2>4 DEF Expected
      <3>2. last'.safe \/ (build' = "main" /\ last'.count <= SECTOR) => CopySafe
        <4>1. last'.safe = CopySafe /\ last'.count = avail
          BY <2>1
        <4>2. avail = Dist
          BY <1>1, <1>2, <1>3, CleanBytes DEF AloneInv, PadPcs, CountInv
        <4>3. QED BY <1>1, <4>1, <4>2, MainCopySafe DEF PendInv
      <3>3. dir = [i \in Offsets |-> DirByte] /\ fat = [i \in Offsets |-> FatByte]
        BY <1>1, <1>2, <1>3 DEF SectorsFaithful
      <3>4. Offsets' = Offsets /\ SECTOR' = SECTOR
        BY DEF Offsets, SECTOR, Cap!SECTOR
      <3>5. QED BY <1>1, <3>1, <3>2, <3>3, <3>4 DEF SectorsFaithful, Expected
    <2>6. QED BY <1>3, <1>4, <1>6, <1>7, <2>3, <2>5 DEF ScratchInv
  <1>12. QED BY <1>10, <1>11

\* log_flush() releases all that is pending.
LEMMA ScratchRelease ==
    ASSUME TypeInv, PendInv, ScratchInv, FlushConsume
    PROVE  ScratchInv'
  <1>1. /\ pc = "fconsume" /\ pc' = "dirread" /\ idx' = 0 /\ last' = NoSector
        /\ accepted' = accepted /\ consumed' = consumed + avail
        /\ Clean' = Clean /\ build' = build /\ dir' = dir /\ fat' = fat
    BY DEF FlushConsume, Release, cardVars, Clean
  <1>2. SUFFICES ASSUME Clean' PROVE ScratchInv'
    BY ScratchUnclean
  <1>3. AloneInv /\ SectorsFaithful
    BY <1>1, <1>2 DEF ScratchInv
  <1>4. Pending' = 0
    <2>1. avail = Pending
      BY <1>1, <1>3 DEF AloneInv, PadPcs
    <2>2. QED BY <1>1, <2>1, DistTypes DEF Pending
  <1>5. Held'
    BY <1>4 DEF Held
  <1>6. AloneInv' /\ CopyInv' /\ SentInv'
    BY <1>1, <1>4, <1>5 DEF AloneInv, CopyInv, SentInv, PadPcs, ExtendPcs
  <1>7. SectorsFaithful'
    BY <1>1, <1>3 DEF SectorsFaithful, NoSector, Offsets, SECTOR, Cap!SECTOR
  <1>8. QED BY <1>6, <1>7 DEF ScratchInv

\* fat32_flush() reads the directory sector into an empty ring, and writes it
\* back as it was.
LEMMA SentDir ==
    ASSUME pc' \in {"dirread", "dirwrite", "record"},
           pc' = "dirread" => \A j \in 0 .. idx' - 1 : ring'[j] = DirByte,
           pc' = "dirwrite" => \A j \in Offsets : ring'[j] = DirByte
    PROVE  SentInv'
  <1>1. pc' \notin PadPcs
    BY DEF PadPcs
  <1>2. pc' # "send"
    OBVIOUS
  <1>3. Offsets' = Offsets
    BY DEF Offsets, SECTOR, Cap!SECTOR
  <1> HIDE DEF PadPcs
  <1>4. ~ (pc \in PadPcs)'
    BY <1>1 DEF PadPcs
  <1>5. /\ (pc \in PadPcs \ {"send"} => out = <<>>)'
        /\ (pc = "dirread" => \A j \in 0 .. idx - 1 : ring[j] = DirByte)'
        /\ (pc = "dirwrite" => \A j \in Offsets : ring[j] = DirByte)'
    BY <1>3, <1>4
  <1>6. QED BY <1>2, <1>5 DEF SentInv

LEMMA ScratchDir ==
    ASSUME TypeInv, PendInv, ScratchInv, DirRead \/ DirWrite
    PROVE  ScratchInv'
  <1>1. /\ pc \in {"dirread", "dirwrite"} /\ pc' \in {"dirread", "dirwrite", "record"}
        /\ UNCHANGED <<accepted, consumed>> /\ Clean' = Clean /\ build' = build /\ last' = last /\ fat' = fat
    <2>1. CASE DirRead
      <3>1. /\ pc = "dirread" /\ UNCHANGED <<accepted, consumed, mishaps, build, last, fat>>
            /\ pc' \in {"dirread", "dirwrite", "record"}
        BY <2>1 DEF DirRead, fileVars, cardVars, Clean
      <3>2. QED BY <3>1 DEF Clean
    <2>2. CASE DirWrite
      <3>1. /\ pc = "dirwrite" /\ UNCHANGED <<accepted, consumed, mishaps, build, last, fat>>
            /\ pc' \in {"dirwrite", "record"}
        BY <2>2 DEF DirWrite, capVars, fileVars
      <3>2. QED BY <3>1 DEF Clean
    <2>3. QED BY <2>1, <2>2
  <1>2. SUFFICES ASSUME Clean' PROVE ScratchInv'
    BY ScratchUnclean
  <1>3. AloneInv /\ SentInv /\ SectorsFaithful
    BY <1>1, <1>2 DEF ScratchInv
  <1>4. Pending' = 0
    BY <1>1, <1>3 DEF AloneInv, Pending
  <1>5. Held'
    BY <1>4 DEF Held
  <1>6. AloneInv' /\ CopyInv'
    BY <1>1, <1>4, <1>5 DEF AloneInv, CopyInv, PadPcs, ExtendPcs
  <1>7. /\ idx \in Nat /\ idx < SECTOR /\ SECTOR \in Nat /\ RING_SIZE = 2 * SECTOR
        /\ Offsets = 0 .. SECTOR - 1 /\ ring \in [0 .. RING_SIZE - 1 -> Slots]
        /\ idx + 1 < SECTOR => (idx + 1) % SECTOR = idx + 1
    <2>1. idx < SECTOR
      BY <1>1 DEF TypeInv, IndexInv
    <2>2. idx \in Nat /\ SECTOR \in Nat
      BY Spans
    <2>3. idx + 1 < SECTOR => (idx + 1) % SECTOR = idx + 1
      BY <2>2
    <2>4. /\ RING_SIZE = 2 * SECTOR /\ Offsets = 0 .. SECTOR - 1
          /\ ring \in [0 .. RING_SIZE - 1 -> Slots]
      BY Spans
    <2>5. QED BY <2>1, <2>2, <2>3, <2>4
  <1>8. (\A i \in Offsets : dir[i] = DirByte) /\ dir = [i \in Offsets |-> DirByte]
    BY <1>1, <1>2, <1>3 DEF SectorsFaithful
  <1>9. CASE DirRead
    <2>1. dir' = dir /\ pc = "dirread" /\ pc' \in {"dirread", "dirwrite", "record"}
      BY <1>9 DEF DirRead, cardVars, Clean
    <2>2. \A j \in 0 .. idx - 1 : ring[j] = DirByte
      BY <1>3, <2>1 DEF SentInv
    <2>3. SentInv'
      <3>1. CASE pc' = "record"
        BY <3>1, SentDir
      <3>2. CASE pc' # "record"
        <4>1. /\ ring' = [ring EXCEPT ![idx] = dir[idx]] /\ idx' = (idx + 1) % SECTOR
              /\ pc' = IF idx = SECTOR - 1 THEN "dirwrite" ELSE pc
          BY <1>9, <3>2 DEF DirRead
        <4>2. ASSUME NEW j \in 0 .. idx PROVE ring'[j] = DirByte
          <5>1. j \in 0 .. RING_SIZE - 1 /\ idx \in 0 .. RING_SIZE - 1 /\ (j # idx => j \in 0 .. idx - 1)
                /\ idx \in Offsets
            BY <1>7
          <5>2. QED BY <1>7, <1>8, <2>2, <4>1, <5>1
        <4>3. CASE idx = SECTOR - 1
          <5>1. Offsets = 0 .. idx
            BY <1>7, <4>3
          <5>2. \A j \in Offsets : ring'[j] = DirByte
            BY <4>2, <5>1
          <5>3. QED
            BY <2>1, <4>1, <4>3, <5>2, SentDir
        <4>4. CASE idx # SECTOR - 1
          <5>1. idx' = idx + 1 /\ 0 .. idx' - 1 = 0 .. idx
            BY <1>7, <4>1, <4>4
          <5>2. \A j \in 0 .. idx' - 1 : ring'[j] = DirByte
            BY <4>2, <5>1
          <5>3. QED BY <2>1, <4>1, <4>4, <5>2, SentDir
        <4>5. QED BY <4>3, <4>4
      <3>3. QED BY <3>1, <3>2
    <2>4. QED BY <1>1, <1>6, <2>1, <2>3, FaithfulSame DEF ScratchInv
  <1>10. CASE DirWrite
    <2>1. /\ pc = "dirwrite" /\ ring' = ring /\ pc' \in {"dirwrite", "record"}
          /\ dir' = dir \/ dir' = [dir EXCEPT ![idx] = ring[idx]]
      BY <1>10 DEF DirWrite, capVars
    <2>2. \A j \in Offsets : ring[j] = DirByte
      BY <1>3, <2>1 DEF SentInv
    <2>3. SentInv'
      BY <2>1, <2>2, SentDir
    <2>4. dir' = dir
      <3>1. ring[idx] = DirByte
        BY <1>7, <2>2
      <3>2. QED BY <1>8, <2>1, <3>1
    <2>5. QED BY <1>1, <1>6, <2>3, <2>4, FaithfulSame DEF ScratchInv
  <1>11. QED BY <1>9, <1>10

\* Every step keeps what is known of the ring.
LEMMA ScratchKept ==
    ASSUME TypeInv, PendInv, ScratchInv, [Next]_vars
    PROVE  ScratchInv'
  <1>1. CASE Receive \/ AppendSector \/ Consume \/ CmdScratch
    BY <1>1, ScratchReceive, ScratchAppend, ScratchConsume, ScratchCommand
  <1>2. CASE FlushLoad \/ FlushStart \/ CopySpanB \/ CopySpanA \/ ZeroPad
    BY <1>2, ScratchLoad, ScratchStart, ScratchCopy
  <1>3. CASE FlushAppend \/ SendByte \/ FlushConsume \/ DirRead \/ DirWrite
    BY <1>3, ScratchHand, ScratchSend, ScratchRelease, ScratchDir
  <1>4. CASE \/ Tick \/ LoadSecond \/ LoadFirst \/ PollLoad \/ ScanByte \/ Poll \/ PollDecide
             \/ ClearPending \/ WriteRecord \/ EnterRepl \/ CmdSync \/ CmdReset \/ UNCHANGED vars
             \/ ExtendRead \/ ExtendWrite \/ ExtendFails
    BY <1>4, ScratchOthers
  <1>5. QED
    BY <1>1, <1>2, <1>3, <1>4 DEF Next, MainStep, LoopStep, FlushStep, Command

\* Nothing is pending at first.
LEMMA ScratchInitially == Init => ScratchInv
  <1> SUFFICES ASSUME Init PROVE ScratchInv
    OBVIOUS
  <1>1. /\ pc = "load1" /\ accepted = 0 /\ consumed = 0 /\ last.kind = "none"
        /\ dir = [i \in Offsets |-> DirByte] /\ fat = [i \in Offsets |-> FatByte]
    BY DEF Init, NoSector
  <1>2. Held
    BY <1>1 DEF Held, Pending
  <1>3. QED
    BY <1>1, <1>2 DEF ScratchInv, AloneInv, CopyInv, SentInv, SectorsFaithful, PadPcs, ExtendPcs

\* Until a cluster is added through the scratch, every sector that log_process()
\* and log_flush() write in the Makefile build holds the oldest bytes pending and
\* then zeros, if no more than a sector was pending, and fat32_flush() leaves the
\* directory as it was.  In the rewrite, with ring_tail on any slot, the same
\* holds as long as no byte arrives while the scratch is in use or between two
\* loads that it tears, and the copies do not run over themselves.
THEOREM SectorsFaithfulCorrect == Spec => []SectorsFaithful
  <1>1. TypeInv /\ PendInv /\ ScratchInv /\ [Next]_vars => ScratchInv'
    BY ScratchKept
  <1>2. ScratchInv => SectorsFaithful
    BY DEF ScratchInv
  <1>3. QED BY ScratchInitially, TypeInvCorrect, PendInvariance, <1>1, <1>2, PTL DEF Spec

=============================================================================
