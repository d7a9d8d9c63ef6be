----------------------------- MODULE CapturePath -----------------------------
(***************************************************************************)
(* The capture path of the Makefile build (main.c, log.c, uart.h): the     *)
(* receive interrupt puts bytes in the ring, log_process() takes them out  *)
(* one sector at a time, looks for the escape sequence and gives each      *)
(* sector to the log file, straight from the ring.                         *)
(*                                                                         *)
(* Two actors interleave: the interrupt (Receive) and the main loop (all   *)
(* other actions).  The main loop is cut wherever the interrupt can come   *)
(* between two of its accesses to shared state; in particular ring_head,   *)
(* 16 bits wide, is read in two loads on an 8-bit processor.               *)
(*                                                                         *)
(* A byte is represented by its arrival number, counted over the bytes     *)
(* that the interrupt stores (a byte dropped on a full ring has none), so  *)
(* that the order and the identity of what reaches the file can be stated. *)
(*                                                                         *)
(* The module covers a capture that fits the pre-allocated extent of the   *)
(* log file; growing the file by a cluster, the idle flush and command     *)
(* mode are in LogLoop.                                                    *)
(***************************************************************************)
EXTENDS Integers, Sequences, FiniteSets

CONSTANTS
    RADIX,            \* values of one byte of ring_head: 256 in the code
    EscCount,         \* cfg.esc_count
    LoadOrders,       \* how uart_available() may read ring_head
    PreallocSectors,  \* sectors in the pre-allocated extent of the log file
    MaxBytes,         \* bound: bytes that arrive
    MaxEscapes,       \* bound: how many of them are the escape character
    Blank             \* a ring slot that was never written

\* The code's ratio is kept: RING_SIZE is 1024 and a sector 512, so the high
\* byte of ring_head takes 4 values.
SECTOR    == 2 * RADIX
RING_SIZE == 4 * RADIX
Index     == 0 .. RING_SIZE - 1

ASSUME RadixAssumption  == RADIX \in Nat /\ RADIX > 0
ASSUME EscAssumption    == EscCount \in Nat
ASSUME LoadAssumption   == LoadOrders \subseteq {"lo", "hi", "word"}
ASSUME BoundsAssumption == PreallocSectors \in Nat /\ MaxBytes \in Nat
ASSUME BlankAssumption  == Blank \notin Nat

VARIABLES
    ring,       \* ring[], by arrival number
    ring_head,  \* next slot the interrupt writes
    ring_tail,  \* oldest slot the main loop has not consumed
    accepted,   \* how many bytes the interrupt has stored
    escapes,    \* arrival numbers of the bytes equal to cfg.esc_char
    consumed,   \* how many bytes uart_consume() has released
    pc,         \* where the main loop is
    load,       \* the load of ring_head in progress: its order, the first half
    scan,       \* bytes of the current sector that scan_escape() has seen
    esc_seen,   \* log_state.esc_seen
    file,       \* the sectors written to the log file, in order
    refused     \* arrival number of the first byte of each sector SD refused

vars == <<ring, ring_head, ring_tail, accepted, escapes, consumed, pc, load,
          scan, esc_seen, file, refused>>

NoLoad == [order |-> "none", half |-> 0]

Init ==
    /\ ring = [i \in Index |-> Blank]
    /\ ring_head = 0 /\ ring_tail = 0
    /\ accepted = 0 /\ escapes = {} /\ consumed = 0
    /\ pc = "load1" /\ load = NoLoad
    /\ scan = 0 /\ esc_seen = 0
    /\ file = <<>> /\ refused = {}

-----------------------------------------------------------------------------
(* The receive interrupt *)

\* Names that start with Mut are mistakes one could make in the definition that
\* follows; each shows that a property notices it.
MutUnmasked(i) == i + 1
NextSlot(i) == (i + 1) % RING_SIZE

MutStoreOnFull(isEsc) ==
    /\ ring' = [ring EXCEPT ![ring_head] = accepted]
    /\ ring_head' = NextSlot(ring_head)
    /\ accepted' = accepted + 1
    /\ escapes' = IF isEsc THEN escapes \cup {accepted} ELSE escapes

\* ISR(USART_RX_vect): store the byte unless the ring is full.
Store(isEsc) ==
    /\ NextSlot(ring_head) # ring_tail
    /\ ring' = [ring EXCEPT ![ring_head] = accepted]
    /\ ring_head' = NextSlot(ring_head)
    /\ accepted' = accepted + 1
    /\ escapes' = IF isEsc THEN escapes \cup {accepted} ELSE escapes

\* The interrupt is live until repl_enter() clears RXCIE0.  On a full ring it
\* drops the byte and changes nothing.
Receive ==
    /\ pc # "command"
    /\ accepted < MaxBytes
    /\ \E isEsc \in BOOLEAN :
          /\ isEsc => Cardinality(escapes) < MaxEscapes
          /\ Store(isEsc)
    /\ UNCHANGED <<ring_tail, consumed, pc, load, scan, esc_seen, file, refused>>

-----------------------------------------------------------------------------
(* uart_available(), read by the loop condition of log_process() *)

HighByte(i) == i \div RADIX
LowByte(i)  == i % RADIX

\* The first access to ring_head: one byte of it, or all of it where a 16-bit
\* load is one instruction.
LoadHead(at, then) ==
    /\ pc = at
    /\ \E order \in LoadOrders, half \in Index :
          /\ order = "lo" => half = LowByte(ring_head)
          /\ order = "hi" => half = HighByte(ring_head)
          /\ order = "word" => half = ring_head
          /\ load' = [order |-> order, half |-> half]
    /\ pc' = then
    /\ UNCHANGED <<ring, ring_head, ring_tail, accepted, escapes, consumed,
                   scan, esc_seen, file, refused>>

\* ... in the loop condition of log_process().
LoadFirst == LoadHead("load1", "load2")

\* The value the main loop computes with once the other byte is loaded too.
HeadRead ==
    IF load.order = "lo" THEN RADIX * HighByte(ring_head) + load.half
    ELSE IF load.order = "hi" THEN RADIX * load.half + LowByte(ring_head)
    ELSE load.half

\* (ring_head - ring_tail) & RING_MASK
Avail == (HeadRead - ring_tail) % RING_SIZE

Test(enough) ==
    /\ pc = "load2"
    /\ pc' = IF enough THEN "scan" ELSE "poll"
    /\ load' = NoLoad
    /\ UNCHANGED <<ring, ring_head, ring_tail, accepted, escapes, consumed,
                   scan, esc_seen, file, refused>>

MutTestShort  == Test(Avail >= SECTOR - 1)
MutTestStrict == Test(Avail > SECTOR)

\* The second access, and the test: at least a sector, or leave the loop.
LoadSecond == Test(Avail >= SECTOR)

-----------------------------------------------------------------------------
(* One pass of the loop of log_process() *)

\* The sector starts at ring_tail and continues at the start of the ring: spans
\* a and b.
LenA == IF RING_SIZE - ring_tail >= SECTOR THEN SECTOR ELSE RING_SIZE - ring_tail
SpanByte(i) == IF i < LenA THEN ring[ring_tail + i] ELSE ring[i - LenA]

AfterByte == IF scan + 1 < SECTOR THEN "scan" ELSE "append"

\* scan_escape(), one byte of span a then b; its return value 1 calls
\* repl_enter(), which never returns.
ScanByte ==
    /\ pc = "scan"
    /\ scan' = scan + 1
    /\ IF SpanByte(scan) \in escapes
         THEN /\ esc_seen' = esc_seen + 1
              /\ pc' = IF esc_seen + 1 >= EscCount THEN "repl" ELSE AfterByte
         ELSE /\ esc_seen' = 0
              /\ pc' = AfterByte
    /\ UNCHANGED <<ring, ring_head, ring_tail, accepted, escapes, consumed,
                   load, file, refused>>

\* What fat32_append_sector() does to the file within the pre-allocated extent:
\* the card takes the sector and cur_lba advances, or the card refuses it and
\* the return value is ignored.
TakeSector ==
    /\ file' = Append(file, [i \in 0 .. SECTOR - 1 |-> SpanByte(i)])
    /\ UNCHANGED refused
RefuseSector ==
    /\ refused' = refused \cup {SpanByte(0)}
    /\ UNCHANGED file

appendRest == <<ring, ring_head, ring_tail, accepted, escapes, consumed, load, scan, esc_seen>>

MutAppendRetried ==
    /\ pc = "append"
    /\ Len(file) < PreallocSectors
    /\ TakeSector \/ RefuseSector
    /\ pc' \in {"append", "consume"}
    /\ UNCHANGED appendRest

\* The card receives the bytes one by one while the interrupt runs; the slots
\* it receives do not change meanwhile (PendingInRing), so one step will do.
AppendSector ==
    /\ pc = "append"
    /\ Len(file) < PreallocSectors
    /\ TakeSector \/ RefuseSector
    /\ pc' = "consume"
    /\ UNCHANGED appendRest

Advance(step, released) ==
    /\ pc = "consume"
    /\ ring_tail' = (ring_tail + step) % RING_SIZE
    /\ consumed' = consumed + released
    /\ scan' = 0
    /\ pc' = "load1"
    /\ UNCHANGED <<ring, ring_head, accepted, escapes, load, file, refused>>

MutConsumeShort  == Advance(SECTOR - 1, SECTOR) /\ UNCHANGED esc_seen
MutConsumeAll    == /\ Advance(ring_head - ring_tail, accepted - consumed)
                    /\ UNCHANGED esc_seen
MutConsumeForget == Advance(SECTOR, SECTOR) /\ esc_seen' = 0

\* uart_consume(512).  Both values of ring_tail have a zero low byte, so the
\* two stores of the 16-bit value are seen by the interrupt as one.
Consume == Advance(SECTOR, SECTOR) /\ UNCHANGED esc_seen

\* Back in main(): log_flush_pending() is 0, because nothing in this build
\* sets log_state.flush_pending, so the loop calls log_process() again.
Poll ==
    /\ pc = "poll"
    /\ pc' = "load1"
    /\ UNCHANGED <<ring, ring_head, ring_tail, accepted, escapes, consumed,
                   load, scan, esc_seen, file, refused>>

\* The first statement of repl_enter(): RXCIE0 is cleared.
EnterCommandMode ==
    /\ pc = "repl"
    /\ pc' = "command"
    /\ UNCHANGED <<ring, ring_head, ring_tail, accepted, escapes, consumed,
                   load, scan, esc_seen, file, refused>>

MainStep ==
    \/ LoadFirst
    \/ LoadSecond
    \/ ScanByte
    \/ AppendSector
    \/ Consume
    \/ Poll
    \/ EnterCommandMode

Next == Receive \/ MainStep

Spec == Init /\ [][Next]_vars

\* The main loop is the only thread; interrupts return to it.
FairSpec == Spec /\ WF_vars(MainStep)

-----------------------------------------------------------------------------
(* Properties *)

Pcs == {"load1", "load2", "scan", "append", "consume", "poll", "repl", "command"}

\* The types of the variables.
TypeOK ==
    /\ ring \in [Index -> Nat \cup {Blank}]
    /\ ring_head \in Index /\ ring_tail \in Index
    /\ accepted \in Nat /\ consumed \in Nat
    /\ escapes \subseteq Nat
    /\ pc \in Pcs
    /\ load \in [order : {"none", "lo", "hi", "word"}, half : Index]
    /\ scan \in 0 .. SECTOR
    /\ esc_seen \in Nat
    /\ file \in Seq([0 .. SECTOR - 1 -> Nat \cup {Blank}])
    /\ refused \subseteq Nat \cup {Blank}

\* log_process() never works on a sector that has not fully arrived, whatever
\* value a torn read of ring_head gave it.  (It can overcount, although the
\* comment on uart_available() says "a torn read can only undercount": when the
\* head passes a multiple of RADIX between the two loads.)
NoOverdrain ==
    pc \in {"scan", "append", "consume"} => accepted - consumed >= SECTOR

\* The interrupt never overwrites a byte that is still pending, and the ring
\* never holds more than RING_SIZE - 1: ring[] from ring_tail on is exactly the
\* bytes accepted and not consumed.
PendingInRing ==
    /\ accepted - consumed \in 0 .. RING_SIZE - 1
    /\ \A j \in 0 .. accepted - consumed - 1 :
          ring[(ring_tail + j) % RING_SIZE] = consumed + j

\* Bytes reach the log file in arrival order and once: each sector holds
\* consecutive bytes, and a sector starts at or after the end of the one before.
LogInOrder ==
    /\ \A s \in 1 .. Len(file) : \A i \in 0 .. SECTOR - 1 :
          /\ file[s][0] \in Nat
          /\ file[s][i] = file[s][0] + i
    /\ \A s \in 1 .. Len(file) : \A t \in 1 .. Len(file) :
          s < t => file[s][0] + SECTOR <= file[t][0]

\* A byte leaves the ring only into the log file, or with a sector that the SD
\* card refused (log_process() ignores the return value).
NothingLost ==
    \A n \in 0 .. consumed - 1 :
        \/ \E s \in 1 .. Len(file) : n \in file[s][0] .. file[s][0] + SECTOR - 1
        \/ \E r \in refused : n \in r .. r + SECTOR - 1

\* Bytes seen by scan_escape() so far; cfg.esc_count 0 acts as 1.
Scanned   == consumed + scan
Threshold == IF EscCount = 0 THEN 1 ELSE EscCount
RunOfEscapes(first, len) == \A n \in first .. first + len - 1 : n \in escapes

\* log_state.esc_seen is the length of the run of escape characters that ends
\* at the scan position, across span and sector boundaries; so command mode is
\* entered at the first run of esc_count of them, and only there.
EscapeExact ==
    /\ esc_seen <= Scanned
    /\ RunOfEscapes(Scanned - esc_seen, esc_seen)
    /\ pc \notin {"repl", "command"} =>
          /\ esc_seen < Threshold
          /\ (Scanned - esc_seen) - 1 \notin escapes
          /\ \A first \in 0 .. Scanned - Threshold :
                ~ RunOfEscapes(first, Threshold)
    /\ pc \in {"repl", "command"} => esc_seen = Threshold

\* A full sector does not stay in the ring: it is written, unless command mode
\* was entered or the pre-allocated extent is used up.  A torn read may
\* undercount, but only defers the sector.
Drains ==
    []<>(\/ accepted - consumed < SECTOR
         \/ pc \in {"repl", "command"}
         \/ Len(file) = PreallocSectors)

\* What the component promises: a bounded first-in first-out buffer that moves
\* whole sectors to the file.  A sector is gone from the buffer as soon as it
\* is given to the card.
Log == INSTANCE SectorLog WITH
           CAPACITY <- RING_SIZE - 1,
           consumed <- IF pc = "consume" THEN consumed + SECTOR ELSE consumed
ImplementsSectorLog == Log!Spec

=============================================================================
