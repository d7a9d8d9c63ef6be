------------------------------- MODULE LogLoop -------------------------------
(***************************************************************************)
(* The main loop with everything that uses the ring: log_process() with    *)
(* the growth of the file by a cluster, the idle flush, the recovery       *)
(* record, sleep, and command mode.  Both programs of the repository are   *)
(* covered: build = "main" is the Makefile build (main.c, log.c, repl.c),  *)
(* build = "main_new" the rewrite (main_new.c, log_new.c, repl_new.c).     *)
(* They differ in the flag the loop polls and in what repl_enter() turns   *)
(* off.  Both are for an 8-bit processor, which reads ring_head in two     *)
(* loads.  That is harmless only while ring_tail stays on the boundaries   *)
(* of a sector, as it does in the Makefile build; the idle flush of the    *)
(* rewrite leaves it on any slot.                                          *)
(*                                                                         *)
(* ring[0 .. SECTOR-1] doubles as the scratch buffer of log_flush(),       *)
(* fat32_flush() and fat_read/write_entry(), while the receive interrupt   *)
(* keeps storing bytes.  So every copy through the scratch is one step per *)
(* byte here.  Only the last sector written is kept (CapturePath keeps     *)
(* them all).                                                              *)
(***************************************************************************)
EXTENDS Integers, Sequences, FiniteSets

CONSTANTS
    Builds,        \* the programs to start: "main", "main_new"
    RADIX, EscCount, LoadOrders, Blank,  \* as in CapturePath
    MaxBytes, IdleMaxBytes,  \* bounds: bytes that arrive in either program
    EscapeBytes,   \* bound: which bytes, by number, may be the escape character
    StartSlots,    \* where the empty ring starts in the Makefile build
    IdleSlots,     \* ... and in the rewrite
    StartCounts,   \* what the recovery record holds at boot
    Extent,        \* sectors of the pre-allocated extent
    Cluster,       \* vol.sec_per_clus
    Behind,        \* sectors by which the cluster added may lie behind cur_lba
    Zero,          \* a byte of padding
    DirByte,       \* a byte of the directory sector
    FatByte        \* a byte of a FAT sector

VARIABLES
    build,          \* the program that runs
    ring, ring_head, ring_tail, accepted, escapes, consumed, pc, load, scan,
    esc_seen,       \* as in CapturePath
    last,           \* the sector just written, until it is consumed
    written,        \* bytes_written, before it is cut to 32 bits
    room,           \* end_lba - cur_lba
    timer_pending,  \* set by the timer interrupt
    flush_pending,  \* log_state.flush_pending
    rx_enabled,     \* RXCIE0 (main) or the global interrupt flag (main_new)
    ctx,            \* who is appending: "log", or log_flush() for "idle" or "cmd"
    avail,          \* the local variable of log_flush()
    idx,            \* index of the byte loop in progress
    out,            \* bytes of the padded sector sent so far
    xround,         \* FAT sector transfers done for the cluster being added
    dir, fat,       \* the directory sector and the FAT sector on the card
    rec,            \* the recovery record in EEPROM, 4 bytes
    recorded,       \* whether the whole record was stored for this file
    mishaps         \* what has happened that the code does not guard against

capVars   == <<ring, ring_head, ring_tail, accepted, escapes, consumed, load, scan, esc_seen>>
fileVars  == <<last, written, room>>
flagVars  == <<timer_pending, flush_pending, rx_enabled>>
flushVars == <<ctx, avail, idx, out, xround>>
cardVars  == <<build, dir, fat, rec, recorded>>
vars == <<capVars, pc, fileVars, flagVars, flushVars, cardVars, mishaps>>

Cap == INSTANCE CapturePath WITH
           PreallocSectors <- Extent, file <- written, refused <- {},
           MaxEscapes <- MaxBytes

ASSUME RadixAssumption  == RADIX \in Nat /\ RADIX > 0
ASSUME ConfigAssumption == EscCount \in Nat /\ LoadOrders \subseteq {"lo", "hi", "word"}
ASSUME BuildAssumption  == Builds \subseteq {"main", "main_new"}
ASSUME SlotsAssumption  == StartSlots \subseteq {0, Cap!SECTOR} /\ IdleSlots \subseteq Cap!Index
ASSUME ExtentAssumption ==
    Extent \in Nat /\ Cluster \in Nat /\ Behind \subseteq Int
ASSUME MarksAssumption  == {Blank, Zero, DirByte, FatByte} \cap Nat = {}

SECTOR    == Cap!SECTOR
RING_SIZE == Cap!RING_SIZE
Offsets   == 0 .. SECTOR - 1

\* bytes_written and the record are 32 bits wide: four bytes.
COUNT_LIMIT  == RADIX * (RADIX * (RADIX * RADIX))
BytesWritten == written % COUNT_LIMIT

ASSUME CountAssumption == StartCounts \subseteq 0 .. COUNT_LIMIT - 1

\* Byte i of a 32-bit value: what is left of it after i shifts by a byte.
Shifted(n, i) == CASE i = 0 -> n
                   [] i = 1 -> n \div RADIX
                   [] i = 2 -> (n \div RADIX) \div RADIX
                   [] i = 3 -> ((n \div RADIX) \div RADIX) \div RADIX
ByteOf(n, i) == Shifted(n, i) % RADIX

NoSector == [kind |-> "none", first |-> 0, count |-> 0, safe |-> TRUE, bytes |-> <<>>]

\* What fat32_open_log() leaves to the session: a file it created, or one it
\* resumes at the count in the recovery record.  The record itself is as some
\* earlier session left it, or erased (all ones): nothing at boot writes it.
OpenLog ==
    \E n \in StartCounts :
        /\ rec = [i \in 0 .. 3 |-> ByteOf(n, i)]
        /\ written \in {0, n} /\ recorded = (written = n)
        /\ room = Extent - written \div SECTOR

\* Slot 0 after a reset; any other slot stands for an idle moment of a longer
\* run, from which the bytes are counted.  The Makefile build releases whole
\* sectors until command mode, the idle flush of the rewrite any number of bytes.
Init ==
    /\ build \in Builds
    /\ ring = [i \in Cap!Index |-> Blank]
    /\ ring_head \in (IF build = "main" THEN StartSlots ELSE IdleSlots)
    /\ ring_tail = ring_head
    /\ accepted = 0 /\ escapes = {} /\ consumed = 0
    /\ pc = "load1" /\ load = Cap!NoLoad /\ scan = 0 /\ esc_seen = 0
    /\ last = NoSector /\ OpenLog
    /\ timer_pending = FALSE /\ flush_pending = FALSE /\ rx_enabled = TRUE
    /\ ctx = "log" /\ avail = 0 /\ idx = 0 /\ out = <<>> /\ xround = 0
    /\ dir = [i \in Offsets |-> DirByte] /\ fat = [i \in Offsets |-> FatByte]
    /\ mishaps = {}

-----------------------------------------------------------------------------
(* Interrupts.  Either one ends sleep_cpu(). *)

\* Between the two loads of ring_head.
HalfLoaded == {"load2", "pload2", "fload2"}

\* From the moment log_flush() reads the number of pending bytes until the last
\* use of the scratch, a byte that arrives may share it.
ScratchPcs == {"fload2", "copyB", "copyA", "pad", "fappend", "send", "fconsume", "dirread",
               "dirwrite", "xread", "xwrite"}
Wake == pc' = IF pc = "sleep" THEN "load1" ELSE pc

\* When the low byte of ring_head wraps between the two loads of it, what they
\* make up is torn.
Receive ==
    /\ rx_enabled
    /\ accepted < IF build = "main" THEN MaxBytes ELSE IdleMaxBytes
    /\ \E isEsc \in BOOLEAN :
          /\ isEsc => accepted \in EscapeBytes
          /\ Cap!Store(isEsc)
    /\ Wake
    /\ mishaps' = mishaps
         \cup (IF pc \in HalfLoaded /\ ring_head' % RADIX = 0 THEN {"torn"} ELSE {})
         \cup (IF pc \in ScratchPcs THEN {"shared"} ELSE {})
    /\ UNCHANGED <<ring_tail, consumed, load, scan, esc_seen, fileVars, flagVars,
                   flushVars, cardVars>>

TimerFires ==
    /\ build = "main" \/ rx_enabled
    /\ ~ timer_pending \/ pc = "sleep"
    /\ timer_pending' = TRUE
    /\ UNCHANGED <<capVars, fileVars, flush_pending, rx_enabled, flushVars, cardVars, mishaps>>

\* (Names that start with Mut are mistakes one could make in the definition
\* that follows; each shows that a property notices it.)
MutTickNoWake == TimerFires /\ UNCHANGED pc

\* ISR(TIMER1_COMPA_vect).  repl_enter() of main.c leaves it running.
Tick == TimerFires /\ Wake

-----------------------------------------------------------------------------
(* log_process() *)

loopRest == <<last, room, flagVars, flushVars, cardVars, mishaps>>

LoadFirst  == Cap!LoadFirst /\ UNCHANGED loopRest
LoadSecond == Cap!LoadSecond /\ UNCHANGED loopRest
ScanByte   == Cap!ScanByte /\ UNCHANGED loopRest
Consume    == /\ Cap!Consume
              /\ last' = NoSector
              /\ UNCHANGED <<room, flagVars, flushVars, cardVars, mishaps>>

SectorWritten(kind, count, safe, bytes) ==
    /\ last' = [kind |-> kind, first |-> consumed, count |-> count, safe |-> safe,
                bytes |-> bytes]
    /\ written' = written + SECTOR
    /\ room' = room - 1

\* The extent is used up, and no cluster was added for this sector yet.  One is
\* added once: what it leaves of room is not tested again.
NeedsCluster == room <= 0 /\ xround # 2

StartExtend ==
    /\ pc' = "xread" /\ idx' = 0 /\ xround' = 0
    /\ mishaps' = mishaps \cup {"grown"}

\* fat32_append_sector() on the two spans in the ring.  When the extent is used
\* up a cluster is added first, through the scratch.
AppendSector ==
    /\ pc = "append"
    /\ IF NeedsCluster
         THEN StartExtend /\ UNCHANGED fileVars
         ELSE /\ pc' = "consume" /\ xround' = 0
              /\ \/ SectorWritten("log", SECTOR, TRUE, [i \in Offsets |-> Cap!SpanByte(i)])
                 \/ UNCHANGED fileVars
              /\ UNCHANGED <<idx, mishaps>>
    /\ UNCHANGED <<capVars, flagVars, ctx, avail, out, cardVars>>

-----------------------------------------------------------------------------
(* Adding a cluster: fat_read_entry() to find a free one, fat_write_entry() *)
(* on the last cluster of the chain and on the new one.  Each transfer of a *)
(* FAT sector goes through ring[0 .. SECTOR-1].                             *)

AfterAppend == IF ctx = "log" THEN "consume" ELSE "fconsume"

\* One byte of sd_read_sector(fat sector, ring).
ExtendRead ==
    /\ pc = "xread"
    /\ ring' = [ring EXCEPT ![idx] = fat[idx]]
    /\ IF idx < SECTOR - 1
         THEN idx' = idx + 1 /\ UNCHANGED <<pc, xround>>
         ELSE /\ idx' = 0
              /\ IF xround = 0
                   THEN xround' = 1 /\ UNCHANGED pc
                   ELSE pc' = "xwrite" /\ UNCHANGED xround
    /\ UNCHANGED <<ring_head, ring_tail, accepted, escapes, consumed, load, scan, esc_seen,
                   fileVars, flagVars, ctx, avail, out, cardVars, mishaps>>

\* One byte of sd_write_sector(fat sector, ring).  After the second entry the
\* new cluster is zero-filled, which does not involve the ring, and end_lba is
\* set to its end, wherever it is; or the card refuses a sector of the filling.
ExtendWrite ==
    /\ pc = "xwrite"
    /\ fat' = [fat EXCEPT ![idx] = ring[idx]]
    /\ IF idx < SECTOR - 1
         THEN idx' = idx + 1 /\ UNCHANGED <<pc, xround, room>>
         ELSE /\ idx' = 0
              /\ \/ /\ xround = 1
                    /\ xround' = 2 /\ pc' = "xread" /\ UNCHANGED room
                 \/ /\ xround = 2
                    /\ \E gap \in Behind : room' = Cluster - gap
                    /\ pc' = IF ctx = "log" THEN "append" ELSE "fappend"
                    /\ UNCHANGED xround
                 \/ /\ xround = 2
                    /\ xround' = 0 /\ pc' = AfterAppend /\ UNCHANGED room
    /\ UNCHANGED <<capVars, last, written, flagVars, ctx, avail, out, build, dir, rec, recorded,
                   mishaps>>

\* The card refuses one of the transfers: the data is dropped by the caller.
ExtendFails ==
    /\ pc \in {"xread", "xwrite"} /\ idx = 0
    /\ pc' = AfterAppend
    /\ xround' = 0
    /\ UNCHANGED <<capVars, fileVars, flagVars, ctx, avail, idx, out, cardVars, mishaps>>

-----------------------------------------------------------------------------
(* The loop of main(): the idle test *)

\* What log_flush_pending() or timer_flush_pending() returns.
FlushFlag == IF build = "main" THEN flush_pending ELSE timer_pending

Poll ==
    /\ pc = "poll"
    /\ pc' = IF FlushFlag THEN "pload1" ELSE "load1"
    /\ UNCHANGED <<capVars, fileVars, flagVars, flushVars, cardVars, mishaps>>

PollLoad == Cap!LoadHead("pload1", "pload2") /\ UNCHANGED loopRest

PollDecide ==
    /\ pc = "pload2"
    /\ pc' = IF Cap!Avail < SECTOR THEN "clear" ELSE "load1"
    /\ load' = Cap!NoLoad
    /\ UNCHANGED <<ring, ring_head, ring_tail, accepted, escapes, consumed, scan, esc_seen,
                   fileVars, flagVars, flushVars, cardVars, mishaps>>

ClearPending ==
    /\ pc = "clear"
    /\ IF build = "main"
         THEN flush_pending' = FALSE /\ UNCHANGED timer_pending
         ELSE timer_pending' = FALSE /\ UNCHANGED flush_pending
    /\ ctx' = "idle" /\ pc' = "fload1"
    /\ UNCHANGED <<capVars, fileVars, rx_enabled, avail, idx, out, xround, cardVars, mishaps>>

-----------------------------------------------------------------------------
(* log_flush() *)

FlushLoad == Cap!LoadHead("fload1", "fload2") /\ UNCHANGED loopRest

FlushStart ==
    /\ pc = "fload2"
    /\ avail' = Cap!Avail
    /\ pc' = IF Cap!Avail > 0 THEN "copyB" ELSE "dirread"
    /\ load' = Cap!NoLoad
    /\ idx' = 0 /\ out' = <<>>
    /\ UNCHANGED <<ring, ring_head, ring_tail, accepted, escapes, consumed, scan, esc_seen,
                   fileVars, flagVars, ctx, xround, cardVars, mishaps>>

\* The pending bytes, from ring_tail to the end of the ring (a) and from its
\* start (b); pad is ring[] itself.
FlushLenA == IF RING_SIZE - ring_tail >= avail THEN avail ELSE RING_SIZE - ring_tail
FlushLenB == avail - FlushLenA

\* One round of a byte loop that ends at len and stores val in ring[slot].
CopyLoop(at, len, slot, val, then, next) ==
    /\ pc = at
    /\ IF idx < len
         THEN ring' = [ring EXCEPT ![slot] = val] /\ idx' = idx + 1 /\ UNCHANGED pc
         ELSE pc' = then /\ idx' = next /\ UNCHANGED ring
    /\ UNCHANGED <<ring_head, ring_tail, accepted, escapes, consumed, load, scan, esc_seen,
                   fileVars, flagVars, ctx, avail, out, xround, cardVars, mishaps>>

CopySpanB == CopyLoop("copyB", FlushLenB, FlushLenA + idx, ring[idx], "copyA", 0)
MutPadOverB == CopyLoop("copyA", FlushLenA, idx, ring[ring_tail + idx], "pad", FlushLenA)
CopySpanA == CopyLoop("copyA", FlushLenA, idx, ring[ring_tail + idx], "pad", avail)
ZeroPad   == CopyLoop("pad", SECTOR, idx, Zero, "fappend", 0)

\* fat32_append_sector(pad, 512, NULL, 0): add a cluster first, or be refused,
\* or start to send.
FlushAppend ==
    /\ pc = "fappend"
    /\ \/ NeedsCluster /\ StartExtend
       \/ /\ ~ NeedsCluster
          /\ pc' = "send" /\ idx' = 0 /\ xround' = 0
          /\ UNCHANGED mishaps
       \/ /\ ~ NeedsCluster
          /\ pc' = "fconsume" /\ xround' = 0
          /\ UNCHANGED <<idx, mishaps>>
    /\ UNCHANGED <<capVars, fileVars, flagVars, out, ctx, avail, cardVars>>

\* Whether the copies cannot have run over their own sources.
CopySafe == /\ avail <= SECTOR
            /\ FlushLenB > 0 => FlushLenB <= FlushLenA /\ avail <= ring_tail

\* One byte of the pad is sent; after the last one the card has the sector.
SendByte ==
    /\ pc = "send"
    /\ IF idx < SECTOR - 1
         THEN /\ idx' = idx + 1 /\ out' = Append(out, ring[idx])
              /\ UNCHANGED <<pc, fileVars>>
         ELSE /\ SectorWritten("flush", avail, CopySafe, [i \in Offsets |->
                                    IF i < SECTOR - 1 THEN out[i + 1] ELSE ring[i]])
              /\ pc' = "fconsume" /\ idx' = 0 /\ out' = <<>>
    /\ UNCHANGED <<capVars, flagVars, ctx, avail, xround, cardVars, mishaps>>

Release(tail, n) ==
    /\ pc = "fconsume"
    /\ ring_tail' = tail
    /\ consumed' = consumed + n
    /\ pc' = "dirread" /\ idx' = 0 /\ avail' = 0 /\ last' = NoSector
    /\ UNCHANGED <<ring, ring_head, accepted, escapes, load, scan, esc_seen, written, room,
                   flagVars, ctx, out, xround, cardVars, mishaps>>

MutReleaseUnmasked == Release(ring_tail + avail, avail)
MutReleaseSector   == Release((ring_tail + SECTOR) % RING_SIZE, SECTOR)

\* uart_consume(avail).  The interrupt can come between the two stores of an
\* 8-bit processor; what it sees then makes it at most drop a byte on a ring
\* that is not full, which is no step here.
FlushConsume == Release((ring_tail + avail) % RING_SIZE, avail)

\* fat32_flush(): read the directory sector into the scratch, set file_size in
\* it, write it back.  Either transfer may be refused, and the rest is skipped.
DirRead ==
    /\ pc = "dirread"
    /\ \/ /\ ring' = [ring EXCEPT ![idx] = dir[idx]]
          /\ idx' = (idx + 1) % SECTOR
          /\ pc' = IF idx = SECTOR - 1 THEN "dirwrite" ELSE pc
       \/ idx = 0 /\ pc' = "record" /\ UNCHANGED <<ring, idx>>
    /\ UNCHANGED <<ring_head, ring_tail, accepted, escapes, consumed, load, scan, esc_seen,
                   fileVars, flagVars, ctx, avail, out, xround, cardVars, mishaps>>

DirWrite ==
    /\ pc = "dirwrite"
    /\ \/ /\ dir' = [dir EXCEPT ![idx] = ring[idx]]
          /\ idx' = (idx + 1) % SECTOR
          /\ pc' = IF idx = SECTOR - 1 THEN "record" ELSE pc
       \/ idx = 0 /\ pc' = "record" /\ UNCHANGED <<dir, idx>>
    /\ UNCHANGED <<capVars, fileVars, flagVars, ctx, avail, out, xround, build, fat, rec,
                   recorded, mishaps>>

RecordByte(i) ==
    /\ pc = "record"
    /\ rec' = [rec EXCEPT ![i] = ByteOf(BytesWritten, i)]
    /\ recorded' = (recorded \/ idx = 3)
    /\ idx' = (idx + 1) % 4
    /\ pc' = IF idx < 3 THEN pc ELSE IF ctx = "idle" THEN "sleep" ELSE "prompt"
    /\ ctx' = IF idx < 3 THEN ctx ELSE "log"
    /\ UNCHANGED <<capVars, fileVars, flagVars, avail, out, xround, build, dir, fat,
                   mishaps>>

MutRecordHighFirst == RecordByte(3 - idx)

\* eeprom_update_byte() on the four bytes of the record, low byte first; then
\* main() checks the stack canary and sleeps, or repl.c prompts.
WriteRecord == RecordByte(idx)

-----------------------------------------------------------------------------
(* Command mode *)

CallFlush(keep_rx) ==
    /\ pc = "repl"
    /\ rx_enabled' = keep_rx
    /\ ctx' = "cmd" /\ pc' = "fload1"
    /\ UNCHANGED <<capVars, fileVars, timer_pending, flush_pending, avail, idx, out, xround,
                   cardVars, mishaps>>

MutEnterListening == CallFlush(TRUE)

\* repl_enter(): the receive interrupt is turned off, a byte waiting in the
\* receiver is discarded, then log_flush().
EnterRepl == CallFlush(FALSE)

\* cmd_sync() calls log_flush() again.
CmdSync ==
    /\ pc = "prompt"
    /\ pc' = "fload1" /\ ctx' = "cmd"
    /\ UNCHANGED <<capVars, fileVars, flagVars, avail, idx, out, xround, cardVars, mishaps>>

\* init and trim free read sectors into the scratch.
CmdScratch ==
    /\ pc = "prompt"
    /\ ring' = [i \in Cap!Index |-> IF i < SECTOR THEN FatByte ELSE ring[i]]
    /\ UNCHANGED <<pc, ring_head, ring_tail, accepted, escapes, consumed, load, scan, esc_seen,
                   fileVars, flagVars, flushVars, cardVars, mishaps>>

\* cmd_reset(): the watchdog reboots the processor.
CmdReset ==
    /\ pc = "prompt"
    /\ pc' = "reset"
    /\ UNCHANGED <<capVars, fileVars, flagVars, flushVars, cardVars, mishaps>>

Command == CmdSync \/ CmdScratch \/ CmdReset

-----------------------------------------------------------------------------

LoopStep == LoadFirst \/ LoadSecond \/ ScanByte \/ AppendSector \/ Consume
            \/ ExtendRead \/ ExtendWrite \/ ExtendFails
            \/ Poll \/ PollLoad \/ PollDecide \/ ClearPending
FlushStep == FlushLoad \/ FlushStart \/ CopySpanB \/ CopySpanA \/ ZeroPad \/ FlushAppend
             \/ SendByte \/ FlushConsume \/ DirRead \/ DirWrite \/ WriteRecord
MainStep == LoopStep \/ FlushStep \/ EnterRepl

Next == Receive \/ Tick \/ MainStep \/ Command

Spec == Init /\ [][Next]_vars

\* The main loop runs whenever it is not asleep; the timer fires again and
\* again unless sectors keep restarting it, and arrivals are finite.  No
\* command is ever owed.
FairSpec == Spec /\ WF_vars(MainStep) /\ WF_vars(Tick)

-----------------------------------------------------------------------------
(* Properties *)

Slots == Nat \cup {Blank, Zero, DirByte, FatByte}

\* The types of the variables.
TypeOK ==
    /\ ring \in [Cap!Index -> Slots]
    /\ ring_head \in Cap!Index /\ ring_tail \in Cap!Index
    /\ accepted \in Nat /\ consumed \in Nat /\ escapes \subseteq Nat
    /\ scan \in 0 .. SECTOR /\ esc_seen \in 0 .. Cap!Threshold
    /\ last.kind \in {"none", "log", "flush"} /\ written \in Nat
    /\ room \in Int /\ idx \in 0 .. RING_SIZE /\ xround \in 0 .. 2
    /\ {timer_pending, flush_pending, rx_enabled, recorded} \subseteq BOOLEAN
    /\ build \in Builds /\ mishaps \subseteq {"torn", "shared", "grown"}
    /\ ctx \in {"log", "idle", "cmd"} /\ avail \in Cap!Index
    /\ dir \in [Offsets -> Slots] /\ fat \in [Offsets -> Slots]
    /\ rec \in [0 .. 3 -> 0 .. RADIX - 1]

\* In the Makefile build the main loop never releases a byte that has not
\* arrived, and the ring indices agree with the counts, although log_process()
\* and log_flush() compute the number of pending bytes from two loads while
\* bytes arrive.  In the rewrite the same holds of its three computations, made
\* at different times and with the tail on any slot, until the low byte of
\* ring_head wraps between two loads; from then on it does not.
Accounting ==
    build = "main" \/ "torn" \notin mishaps =>
        /\ consumed <= accepted
        /\ (ring_head - ring_tail) % RING_SIZE = accepted - consumed
        /\ pc \in {"scan", "append", "consume"} => accepted - consumed >= SECTOR

\* The bytes that a padded or a full sector should hold.
Expected(sector) ==
    [i \in Offsets |-> IF i < sector.count THEN sector.first + i ELSE Zero]

\* Nothing has gone wrong that the code does not guard against.
Clean == "grown" \notin mishaps /\ (build = "main" \/ mishaps = {})

\* Until a cluster is added through the scratch, every sector the Makefile build
\* writes is the oldest pending bytes, padded with zeros if log_flush() writes
\* it with at most a sector pending, and neither the directory nor the FAT is
\* touched: the receiver is off before the scratch is used.  Of the rewrite the
\* same holds only until a byte arrives while the scratch is in use or between
\* two loads that it tears, and of copies that cannot run over their own
\* sources (CopySafe).
SectorsFaithful ==
    Clean =>
        /\ last.kind # "none" /\ (last.safe \/ (build = "main" /\ last.count <= SECTOR))
              => last.bytes = Expected(last)
        /\ dir = [i \in Offsets |-> DirByte]
        /\ fat = [i \in Offsets |-> FatByte]

\* In command mode the ring is empty, so that sync never appends what init or
\* trim left in the scratch, whatever earlier loads of ring_head were torn.
PromptRingEmpty == pc \in {"prompt", "reset"} => ring_head = ring_tail

\* Once a record of this file was stored, whenever power fails, even between two
\* bytes of a later one, the record is at most the bytes written: resuming never
\* skips over sectors that hold nothing.  (Until then the EEPROM holds what it
\* held at boot, or a mixture.  Nothing is claimed of a count that has passed 32
\* bits, as it does soon after a resumption at an erased record.)
RecValue == rec[0] + RADIX * (rec[1] + RADIX * (rec[2] + RADIX * rec[3]))
RecordNotAhead == recorded /\ written < COUNT_LIMIT => RecValue <= written

\* When bytes stop arriving, the rewrite empties the ring: its idle flush runs
\* even if the last byte came between the test of the flag and sleep_cpu(), and
\* whatever a torn load made it release too soon.
RewriteFlushes == []<>(build = "main_new" => ring_head = ring_tail)

-----------------------------------------------------------------------------
(* What comments and documents say, and the code does not do *)

\* "When it fires and fewer than 512 bytes are pending, the partial sector is
\* zero-padded, written to SD" (README.md): when bytes stop arriving, the ring
\* is emptied.
IdleFlush == []<>(ring_head = ring_tail)

\* "commit any buffered log data to SD before going interactive" (repl.c): what
\* was pending when command mode was entered is in the sector then written,
\* unless the card refused it.
EntryCommitsAll ==
    pc = "fconsume" /\ ctx = "cmd" /\ last.kind # "none" =>
        \A n \in consumed .. accepted - 1 : \E i \in Offsets : last.bytes[i] = n

=============================================================================
