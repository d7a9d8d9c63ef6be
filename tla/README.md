# Verification of barelog

barelog is a serial data logger for an ATmega328P: bytes arrive on the UART, an
interrupt puts them in a 1024-byte ring, the main loop takes 512-byte sectors
out of the ring and writes them, without copying, to a pre-allocated file on a
FAT32 card. This directory holds TLA+ models of it, the TLC configurations that
check them, and proofs for TLAPS.

    tlc -workers 2 -config CapturePath.cfg CapturePath     # any of the runs below
    tlapm CapturePath_proofs.tla

## 1. The system

Two programs are in the repository. The Makefile builds `main.c`, `log.c` and
`repl.c` with the `fat32_*.c`, `sd.c` and `config.c` files and the ATmega
platform file. `main_new.c`, `log_new.c` and `repl_new.c` are a rewrite on the
platform interface of `platform.h`. The other platform files are skeletons.

| Component | State | Operations | Interacts with |
|---|---|---|---|
| UART receive ring (`platform_atmega328p.c`, `uart.h`) | `ring`, `ring_head`, `ring_tail` | receive interrupt; `uart_available()`, `uart_consume()` | The interrupt is the only writer of head, the main loop of tail. The first 512 bytes of `ring` are also the scratch sector of every other component |
| Capture (`log.c`) | `esc_seen` | `log_process()`, `scan_escape()` | ring, log file, command mode |
| Idle flush (`log.c`, `main.c`) | `flush_pending`, recovery record in EEPROM | `log_flush()`; the loop that polls and sleeps | ring as scratch, log file, timer |
| Timer1 | `timer_pending` | interrupt every 500 ms | wakes the loop |
| Command mode (`repl.c`) | none that lasts | `repl_enter()`, init, sync, trim, reset, disk | stops the receive interrupt, calls `log_flush()`, uses the ring as scratch |
| Log file (`fat32_log.c`) | `logfile`; FAT copies, root directory and data on the card | `fat32_open_log()`, `fat32_append_sector()`, `fat32_flush()` | card, configuration, recovery record, ring as scratch |
| Mount (`fat32_mount.c`) | `vol` | `fat32_mount()` | card |
| TRIM (`fat32_trim.c`) | none | trim free, full, fuller | card, FAT |
| Configuration (`config.c`) | magic number and fields in EEPROM | `config_load()`, `config_save()`, factory reset | EEPROM |
| EEPROM in flash (`eeprom_flash.c`) | cache, dirty flag, 15 slots with generations | init, read, write, update, sync | flash of the platform |
| SD protocol (`sd.c`, `spi.c`) | `sd_state.sdhc` | init, read, write, erase | card over SPI |

What is hard here, and what must therefore hold:

- **Interrupt against main loop.** The ring is shared without a lock, and its
  head is read in two loads. No pending byte may be overwritten, no unfinished
  sector taken, none lost, repeated or reordered; the escape scanner must not
  care where the boundaries fall.
- **One buffer, two uses.** Log sectors, the zero padding, the directory sector
  and FAT sectors go through the same 512 bytes that the interrupt fills. What
  reaches the card must still be what was meant.
- **Power.** It can go between any two sectors or EEPROM bytes. Chains must stay
  complete and disjoint, content must stay, the session after must go on
  sensibly. The same holds of the slots in flash.
- **Refusals.** The card may refuse a sector, and most return values are ignored. It
  may also be busy for longer than the driver waits, and a busy card looks like one
  that answers 0. `SD_OK` must mean what it says.
- **Progress.** Full sectors, and when input stops the rest, must reach the card.
- **Long histories.** Factory resets, deleted files, fragmented volumes, full
  slots: legal sequences that no test reaches.

`PROJECT.json` lists the hazards one by one with the properties that watch them.

## 2. Modules

| Module | What it is |
|---|---|
| `SectorLog` | Abstract: a bounded first-in first-out buffer from which whole sectors go to a file or are lost |
| `CapturePath` | Interrupt and `log_process()` of the Makefile build within the pre-allocated extent; implements `SectorLog` |
| `LogLoop` | The whole main loop around `CapturePath` (which it instantiates): growth of the file, idle flush, sleep, timer, command mode, in both programs; every use of the ring as scratch, byte by byte |
| `FatLog` | The log file on the card and the EEPROM over sessions, power losses and refused sectors; trim free and trim full |
| `EepromFlash`, `EepromFlashMC` | EEPROM emulated in flash |
| `SdCard` | The SD driver and the card as two processes |
| `TrimFree` | The scan of the FAT by trim free, entry by entry, and the ranges it erases |
| `CommandLine`, `CommandLineMC` | Terminal, receiver, line editor and dispatch of command mode |
| `Cards`, `CardsMC` | Boot, mount and the commands on cards that are swapped |
| `CapturePath_proofs`, `LogLoop_proofs`, `FatLog_proofs`, `SdCard_proofs`, `TrimFree_proofs`, `Cards_proofs`, `EepromFlash_proofs`, `CommandLine_proofs` | The theorems of section 4 |

How they fit together: `LogLoop` instantiates `CapturePath`, which implements `SectorLog`. The
others share no state but divide the card between them, each taking from its neighbour
what the neighbour's properties say: `SdCard` is how a sector is read or written, `FatLog` what
is written to one volume over time, `TrimFree` which ranges one command erases, `Cards`
which card all of this happens on, `CommandLine` which command is run.

### CapturePath

State: `ring`, `ring_head`, `ring_tail` and `esc_seen` are the program's. Bytes are
represented by their arrival number (`accepted` counts them), and `escapes` is
the set of numbers that carried the escape character, so that order and identity
can be stated. `file` is the sequence of sectors written, `refused` those the
card did not take. `pc` is the place in the loop, `load` a half-finished read of
the head, `scan` the position of `scan_escape()`.

| Action | Code |
|---|---|
| `Receive` | `ISR(USART_RX_vect)` |
| `LoadFirst`, `LoadSecond` | `uart_available()` in the loop condition of `log_process()`, cut between its two 8-bit loads, in either order |
| `ScanByte` | one byte of `scan_escape()`, span a then b |
| `AppendSector` | `fat32_append_sector()` within the extent, written or refused |
| `Consume` | `uart_consume(512)` |
| `Poll` | back to the loop of `main()` |
| `EnterCommandMode` | the first statement of `repl_enter()` |

Only the C types say how the head is read: two loads in an order the compiler
chooses on an AVR, one on a wider processor. `LoadOrders` gives the choice; `lo`
and `hi` name the byte loaded first.

### LogLoop

It takes ring, receive interrupt, loads, scan and consume from `CapturePath` by
`INSTANCE`, and adds what surrounds them. `build` is the program that runs: `"main"`
polls `flush_pending`, `"main_new"` polls `timer_pending` and turns all
interrupts off in command mode. Both are for an 8-bit processor (`main_new.c` includes the AVR
headers), so `ring_head` is read in two loads in both. Every loop that moves data through the scratch
makes one step per byte (`CopySpanB`, `CopySpanA`, `ZeroPad`, `SendByte`,
`DirRead`, `DirWrite`, `ExtendRead`, `ExtendWrite`), because that is where an
arriving byte can change it. `last` is the sector just written, kept until it is
consumed. `room` is `end_lba - cur_lba`; a cluster added may lie anywhere, also behind `cur_lba`
(`Behind`). `written` is `bytes_written` before it is cut to 32 bits. `OpenLog` is what a boot finds:
a recovery record of an earlier session or of erased EEPROM, since `config_save()` never writes it,
and a file that is new or resumed at that record. `recorded` is history: whether this session has
stored a whole record since, or resumed at the one it found. `mishaps` is history, too: a load was
torn (`"torn"`), a byte arrived while `log_flush()` or `fat32_flush()` used the scratch
(`"shared"`), a cluster was added through it (`"grown"`).

The escape character is looked for in log sectors by arrival number: a byte of
the scratch (zero, directory, FAT) is never taken for one. Sectors whose content
is the scratch are reported by `SectorsFaithful` anyway.

### FatLog

A step is what survives a loss of power: one sector on the card, one field in
EEPROM. State on the card: `fat` (all copies), `dir`, `data`; in EEPROM: `magic`,
`lognum` byte by byte, `flags` (which can forbid the factory reset), `rec`. `logfile` is the struct, `num` is `cfg.log_num`.
`todo`, `copy` and `zero` are the loops of allocation and zero-fill.

| Action | Code |
|---|---|
| `PowerOn`, `ConfigSave` | `config_load()`, factory reset in `main()`, `config_save()` field by field |
| `OpenResume`, `OpenCreate`, `OpenFails` | `fat32_open_log()`: the loop over numbers, the directory scan, the choice of clusters |
| `WriteFatEntry`, `ZeroFill`, `WriteDirEntry` | its writes, in their order, and those of an extension |
| `CardRefuses` | any of these writes fails |
| `Extend`, `AppendSector` | `fat32_append_sector()` |
| `FlushDir`, `FlushRecord` | `fat32_flush()` and the recovery record of `log_flush()` |
| `TrimFree`, `TrimFull` | `fat32_trim.c` |
| `PowerOff` | power lost anywhere, or the watchdog reset |
| `OpenWild`, `AppendWild` | places where the code uses unassigned variables or runs off the FAT; the model stops there |

`cut`, `misplaced`, `saved` and `interrupted` are history: power was lost
between the two FAT writes of an extension; data was put at a wrong place, by a
resumption with a record that is not the number of sectors logged to that file or by an extension
that is not adjacent; whether the first `config_save()` was never begun, cut, or done; which file was interrupted after
being flushed. `FileContent` excludes the first two, the chain properties `cut`, `NeverOverwritten`
`misplaced`, `ConfigUsable` a cut first save: those are known limits of the program, and the
properties say that there are no others.

### EepromFlash

`data` and `gen` are the slots in flash, `cache` and `dirty` the RAM of
`eeprom_flash.c`. Flash itself is external and does what flash does: programming
clears bits and never sets them: `Program` is a constant, `ProgramAssumption` says what is
assumed of it, and `EepromFlashMC` gives TLC the bitwise *and*. `ProgramData` and `ProgramGen` write
a byte each; `PowerOff` may come between any two. `reused` and `torn` are history: a
slot was programmed that was not erased; power was lost during a sync. `committed`
is what the last completed sync stored.

### SdCard

The driver: `pc` is the place in the function called (`call`), `cmd` the command in
progress, `r1`, `polls` and `tries` the local variables, `sdhc` the one static variable.
The card: `kind` (with byte or sector addresses), `phase`, `busy`, `reply` (the R1 it
will send), `job` (the transaction it is in) and `content`.

| Action | Code |
|---|---|
| `SendFrame`, `PollR1` | `sd_cmd()`: the frame, then one poll at a time |
| `InitIdle` ... `InitCrc` | `sd_init()` between its commands, with `sd_acmd()` |
| `ReadStart`, `PollToken` | `sd_read_sector()` |
| `WriteBlock` | `sd_write_sector()` and its two variants up to the data response |
| `EraseStep` | `sd_erase()`, which ignores all answers |
| `PollReady` | `sd_wait_ready()` and the return of writes and erases |
| `Call`, `Back` | the callers: `main()` before anything else calls `sd_init()` |
| `CardReady`, `Swap`, `CardTakesFrame`, `BlockResponse` | external: the card |

The card is assumed to follow the protocol: it hears nothing while it is busy, it
answers what it heard within the polls of `sd_cmd()`, it may refuse anything, and a new
command ends the one before. A sector of payload is one value: payload sent to a card
that does not expect it is not searched for commands. Cards are swapped between calls
only, as `init` of command mode expects. The pattern echoed to CMD8 may be wrong or
right. Byte addresses are not cut to 32 bits: cards with byte addresses are smaller.
`trusted` is history: the last `sd_init()` returned `SD_OK`.

### TrimFree

`fat` is any function from entries to values; `clus` is the loop over all FAT sectors and
their entries, one entry a step, with the program's `in_run`, `run_start_lba` and `run_end_lba`.
`calls` are the ranges given to `sd_erase()`.

| Action | Code (`fat32_trim_free()`) |
|---|---|
| `VisitReserved`, `VisitUsed` | the entry ends the open run, if there is one |
| `VisitFree` | it extends the open run, or starts one |
| `ReadFails` | a FAT sector cannot be read: return at once |
| `Finish` | the run open at the end |

### CommandLine

`fifo` is the receiver of the USART, which nobody reads while `log_flush()` or a command is
at work; `buf` and `len` are the line buffer in the ring, `screen` what the terminal shows of the
current line. `typed`, `answers` and `clean` are history: the bytes sent, what was run for each
line, and whether a byte was lost or sent before the prompt.

| Action | Code |
|---|---|
| `Type` | a byte arrives; external, at any time |
| `Enter`, `Prompt` | `repl_enter()`: `repl.c` throws one waiting byte away, `repl_new.c` none |
| `Store`, `Backspace`, `EndOfLine` | `repl_read_line()` with its echo |
| `EmptyLine`, `Dispatch` | `repl_dispatch()` and `line_eq()` |

The expected answers (`Heard`, `Session`, `Expected`) are computed from `typed` alone, without the
buffer. In `Init` the buffer holds what was captured there before.

### Cards

`slot` is the card that is in, `ready` whether it has been through `sd_init()`, `content` what
became of each sector of each card. `vol`, `sdhc` and `logfile.dir_lba` are the program's;
they outlive the card they were read from. `logfile.card` and `excused` are history: the card the
file was opened on, and the cards the person gave up or used in spite of a `!`.

| Action | Code |
|---|---|
| `Boot`, `BootFails`, `Reset` | `main()` up to the loop; the command reset or the power switch |
| `CmdInit`, `CmdInitFails` | `cmd_init()`: `sd_init()` and `fat32_mount()`, which may fail at any point |
| `CmdSync` | `fat32_flush()`, also on entry to command mode |
| `CmdTrimFree`, `CmdTrimFull`, `CmdTrimFuller` | `fat32_trim.c`: the ranges, not the search (that is `TrimFree`) |
| `Swap` | external |

`Hit` is the sector a card takes for the driver's argument, which is in bytes or in sectors
by `sdhc` and read in bytes or in sectors by the card.

## 3. Runs

| Run | Shows | Distinct states |
|---|---|---|
| `capture` | interrupt against capture loop: no overdrain, no overwritten byte, order, no loss, exact escape detection, progress, refinement of `SectorLog` | 112 thousand |
| `loop` | both programs with byte loads: index arithmetic over three readers, faithful sectors, empty ring in command mode, recovery record never ahead, and the idle flush of the rewrite | 2.2 million |
| `loop_idle` | *violation:* no idle flush in the Makefile build | |
| `loop_entry` | *violation:* entry to command mode loses bytes | |
| `fat` | three sessions with power losses and a refusal: chains, cross links, content, names, settings, no overwriting | 1.3 million |
| `fat_resume` | *violation:* a flushed file is not resumed | |
| `fat_fragmented` | *violation:* a fragmented new file is not zeroed | |
| `eeprom` | a restart finds the last completed sync until a slot is used a second time, and when that may be | 165 thousand |
| `sd` | `SD_OK` means what it says, no other sector changes, the unit of addresses fits the card, every call returns | 291 thousand |
| `trim` | every FAT: the free clusters are erased, nothing else, with the fewest commands | 79 thousand |
| `command_line` | each line is answered by the command it says, and the terminal shows it | 1.1 million |
| `cards` | `vol` is never a mixture of two cards; boot sectors and FAT of a card survive | 415 thousand |

### Properties of the passing runs

- `NoOverdrain`: the loop works on a sector only when 512 bytes have arrived,
  though `uart_available()` may return more than has arrived.
- `PendingInRing`: ring slots from tail on are exactly the bytes accepted and not
  consumed, at most 1023 of them.
- `LogInOrder`, `NothingLost`: sectors hold consecutive bytes, in order and once;
  a byte leaves only into the file or with a refused sector.
- `EscapeExact`: command mode at the first run of `esc_count` escape characters
  and nowhere else, wherever ring and sector boundaries fall.
- `Drains`, `ImplementsSectorLog`: progress, and the abstract specification.
- `Accounting`: indices and counts agree although `log_process()`, `main()` and
  `log_flush()` each compute the number pending at another moment, and read the head in two loads.
  In the Makefile build this holds always, in the rewrite until a load is torn (section 5).
- `SectorsFaithful`: until the file grows, the Makefile build gives the card the sectors it should,
  in full or padded with at most a sector pending, and leaves directory and FAT sector alone:
  the receiver must be off before the scratch is used. The rewrite leaves it on; there the property
  stops at the first byte that arrives during a flush and at the first torn load, and a flushed
  sector also needs `CopySafe`: the copies of `log_flush()` did not run over their sources.
- `PromptRingEmpty`: always, torn loads included.
- `RecordNotAhead`: from the first record stored in the session on (or if the file was resumed at
  the record), up to a count of 32 bits. Before, the record is another session's.
- `RewriteFlushes`: the rewrite empties the ring when input stops.
- `ChainsComplete`, `NoCrossLink`, `FileContent`: see section 2 for the exceptions `cut` and
  `misplaced`. `FileContent` names both, the first two only `cut`.
- `NeverOverwritten`: no step but trim full changes a sector that holds what was logged. `cut` is no
  exception here, `misplaced` is: a file resumed where its data does not end, or extended by a
  cluster that is not the next one, does overwrite.
- `UniqueNames`: no two files have the same number. When all numbers are used up the last one
  is given again; that one is excepted.
- `ConfigUsable`: file number 65535 and a factory reset that is locked out come from one cause,
  power lost in the first `config_save()`, and from no other.
- `Recoverable`, `ReusedOnlyWhenFull`: slots in flash. The first says that a restart finds the last
  completed sync and that a cache which is not dirty is what is stored; it holds until a slot is
  programmed a second time without an erase. The second says that only a cut sync or
  the use of all slots leads there.
- `WriteTruth`, `ReadTruth`: a call that returned `SD_OK` did what it was asked to, with
  the right sector, whatever earlier calls left behind on the card or the line.
- `AddressingAgrees`: a card that is ready is addressed in its unit.
- `OnlyAddressed`: no sector changes that the call does not name. An erase in particular
  never runs on the limits of two different calls.
- `CallsReturn`: also if the card stays busy for ever.
- `OnlyFreeErased`, `NothingSkipped`, `FewestCalls`: the ranges of trim free against the FAT as a
  set of free clusters, at every moment of the scan. A run that is open when a FAT sector
  cannot be read is not erased.
- `CommandsAsTyped`: the commands run are those of the lines sent, once each and in order,
  though the buffer starts with captured bytes, keeps the previous line, may be full, and is
  compared without its length.
- `ScreenShowsLine`: echo and buffer agree as long as only bytes that show are stored.
- `VolOfOneCard`: a mount that fails leaves the layout of one card, and `ok` means this card's.
- `StructureKept`: what `repl.c` promises of the trims, over all cards and all histories of
  swaps, with `excused` as the only exceptions. In particular a sync on another card that follows a
  boot and a swap is one.

`TypeOK` is the one type invariant of each module.

### Bounds, and why they are enough

- **Ring.** `RADIX` is 2 instead of 256, with the ratios of the code: a sector is
  2 `RADIX`, the ring 4 `RADIX`. The head's high byte then takes four values as
  in the code, a sector boundary is where its low byte is 0, and a torn read is
  off by `RADIX` as in the code. 14 bytes in `capture` are more than three
  sectors: the ring wraps, fills (7 bytes), and drops. The theorems of section 4
  hold for every `RADIX`.
- **Escapes.** `EscCount` 2 with 3 escape characters: runs across span and sector
  boundaries, interrupted runs, a run of length one left over.
- **LogLoop.** Both programs and both orders of the byte loads are in one run. The Makefile build
  releases whole sectors until command mode, so its ring starts empty at slot 0 or 4; with
  `MaxBytes` 10 the ring wraps and fills, and the tail has been at both. The rewrite starts
  at slot 6 of 8, a moment that a longer run reaches by an idle flush: spans wrap after two bytes,
  and with `IdleMaxBytes` 4 the low byte of the head wraps between loads with the tail off the
  boundary, which is how the rewrite comes to release bytes that have not arrived. `EscapeBytes`
  are the bytes that may be escape characters, the fourth and the eighth: command mode with a rest,
  and with more than a sector pending. `Extent` 2 and `Cluster` 1 make a third sector grow the file,
  `Behind` 1 puts the cluster added before `cur_lba`; a resumed file has room for one sector.
  `StartCounts` 5 is a record left in EEPROM that no sector count of a new file equals, and with it
  the count of a resumed file passes its four bytes (16) at the third sector.
  The two violation runs use the Makefile build and as many bytes as they need.
- **FatLog.** Three sessions let a third meet what the second made of the first's
  remains. Four sectors logged over files of two sectors reach the extension; two
  FAT copies are what FAT32 volumes have; one refusal can fall anywhere. Cluster 3
  is occupied (the free ones are adjacent) or 4 (they are not). `LRADIX` 3 gives
  file numbers of two bytes. A search past the last
  cluster goes on in the rest of the FAT, and ends where the FAT does (`OpenWild`, `AppendWild`).
- **EepromFlash.** Four slots with two bytes, an erased generation byte of 15: slots wrap
  and are reused, and generations come to their end.
- **SdCard.** Two polls or tries instead of 8, 200, 50000, 10 and 1000: an answer in the first,
  in the last, or in none are the cases there are. A sector has two bytes, so that an
  address in the wrong unit is another valid sector (1 for 2, 0 for 1) or none. Three
  sectors, the third never addressed; all three kinds of card, swapped at will.

- **TrimFree.** Two FAT sectors of four entries: runs within a sector, over the boundary, open at the
  end, and every pattern of the six clusters. `MASK` 2 and values up to 2 give a used entry, a
  free one, and a free one with reserved bits set. The theorems hold for every geometry.
- **CommandLine.** Two letters make a name (`t`), one it begins (`tf`) and another (`f`, reset); a line
  buffer of two bytes is filled by the longest name and overrun by a third key; a receiver of two
  bytes is filled and overrun by three of the five keys while a command runs. Five
  keys are two lines, or a line with corrections and a command.
- **Cards.** Two FAT32 cards that differ in layout and in address unit, a FAT16 card with a FAT32
  partition type, and one whose first FAT32 entry is empty. Two bytes in a sector let a wrong unit hit
  another valid sector. The root directory is one cluster. Two commands that write, around any number of boots, inits and swaps: the
  second meets what the first left. The theorems hold for any cards and any number of commands.

`CHECK_DEADLOCK FALSE` where the program stops by design (error halt, reset,
command mode with no command, the end of a scan) or a bound is reached; `eeprom` and `cards`
check deadlock.

### Fairness

Safety needs none. `Drains` assumes weak fairness of the main loop: it is the only
thread, and interrupts return to it. `RewriteFlushes` (and `IdleFlush`) assumes in addition weak fairness
of the timer interrupt: it is periodic, and a restart of the counter after each
sector only delays it, because arrivals are finite in the run. Nothing is assumed of
the interrupt that receives, of the card (which may refuse every sector) or of a
person who types commands. `CallsReturn` assumes weak fairness of the driver and
nothing of the card. In the other modules nothing need ever happen.

## 4. Proofs

| Module | Theorem | Establishes |
|---|---|---|
| `CapturePath_proofs` | `TypeCorrect`, `NoOverdrainCorrect`, `PendingInRingCorrect`, `LogInOrderCorrect`, `NothingLostCorrect`, `EscapeExactCorrect` | the invariants of `capture` |
| | `Refinement` | `Spec => ImplementsSectorLog` |
| `LogLoop_proofs` | `TypeCorrect`, `RecordNotAheadCorrect`, `AccountingCorrect`, `PromptRingEmptyCorrect`, `SectorsFaithfulCorrect` | the invariants of `loop`, for both programs and any order of loads |
| `SdCard_proofs` | `TypeCorrect`, `AddressingAgreesCorrect`, `WriteTruthCorrect`, `ReadTruthCorrect`, `OnlyAddressedCorrect` | the safety properties of `sd` |
| `TrimFree_proofs` | `TypeCorrect`, `OnlyFreeErasedCorrect`, `NothingSkippedCorrect`, `FewestCallsCorrect` | the invariants of `trim` |
| `Cards_proofs` | `TypeCorrect`, `VolOfOneCardCorrect`, `StructureKeptCorrect` | the invariants of `cards` |
| `FatLog_proofs` | `TypeCorrect`, `ChainsStayComplete`, `FilesStayApart`, `UniqueNamesCorrect` | `TypeOK`, `ChainsComplete`, `NoCrossLink` and `UniqueNames` of `fat` |
| | `ConfigStaysUsable` | `ConfigUsable` of `fat`, where `MaxBoots + 1 < LogMax` |
| | `FileContentCorrect` | `FileContent` of `fat`, where `FreeTogether` |
| | `NeverOverwrittenCorrect` | `NeverOverwrittenUncut`, where `FreeTogether`: `NeverOverwritten` of `fat` with the further exception `cut` |
| `EepromFlash_proofs` | `TypeCorrect`, `RestartFindsLastSync`, `SlotsUsedInTurn` | the invariants of `eeprom` |
| | `NeverErased` | no sync erases the sector (in the code's layout there are 15 slots or more) |
| `CommandLine_proofs` | `TypeCorrect`, `CommandsAsTypedCorrect`, `ScreenShowsLineCorrect` | the invariants of `command_line` |

They hold for every value of the constants that meets the assumptions of the
modules, which TLC evaluates: sizes that are numbers, a sector of at least one byte or two, polls and
tries that are at least one, cards whose boot sectors have numbers in their fields, and for
`CapturePath` that a slot never written is no arrival number (`BlankAssumption`; `LogLoop` states the
same of all its marks).

**CapturePath.** The argument has three layers. `RingInv` is inductive by itself: types,
`PendingInRing`, the tail on a sector boundary, and `LoadSound`, which says what a
half-finished load still guarantees. None of the last two is a property that a run checks, and
without them nothing is inductive: a torn read can return more than has arrived. It is safe because
with the tail on a sector boundary the test `>= 512` only looks at the half of the ring the head
is in, which is a bit of its high byte, and the head can leave the half only forward,
towards the tail, where the interrupt stops. This is the reason `uart.h` should give. `LogInv`
adds that the sectors written and refused together cover what was given away. `EscapeExact`
is inductive relative to `RingInv`. The refinement counts a sector as gone from when the card
has been given it (`pc = "consume"`), not from when the tail moves.

**LogLoop.** `TypeInv` adds to the types where the loop can be and on whose behalf (`PlaceInv`), and
that its loops over bytes stay within their buffers (`IndexInv`). For the record, the bytes already
stored are those of the new number, and the old ones that remain are worth no more than what is
left of it after the same shifts (`RecordInv`): this holds because the low byte is stored first
and the new number is no smaller. Nothing is assumed of the record at boot, so the invariant has a
case for the time before the first record is complete. The bytes pending are counted in three places and used later. What each
reader has taken was pending when it looked and can only have become fewer than there are
(`LoadInv`, `TakenInv`); on behalf of a command it is still all there is, because the receiver is
off (`QuietInv`). Torn loads are dealt with in two ways. In the Makefile build the main loop reads
the head with the tail on a sector boundary (`MainInv`), where the argument of `CapturePath` holds
(`HalfSound`), and `log_flush()` reads it with the receiver off, where no load is torn
(`HalfExact`). In the rewrite the tail is on any slot, and what is proved
is that the counts agree until a load is torn (`BytesInv`). `PromptRingEmpty` needs neither: in
command mode the receiver is off, and the last load is exact. What a sector holds takes one step more. The
bytes pending are in their slots for as long as the loop still has to read them (`Held`), and an
interrupt stores only where none is pending. The two copies into the pad go over the ring itself,
so while the scratch is not shared (`AloneInv`) the bytes already copied are in the pad and
those to be copied are where they were (`CopyInv`): the copy before never reached a slot that this
one reads, for the tails and lengths of which `CopySafe` says so. The sector the card is given is
then the one meant (`SentInv`).

**SdCard.** The driver knows little: any byte but 0xFF is an answer, and a busy card sends 0. So the
invariant is about what is true of the card while the driver guesses. A card that is busy or not
initialised is in no transaction (`QuietInv`), so it cannot act on what it did not hear. From the
answer to CMD0 on the card listens, and once CMD58 was answered with 0 it is ready and its unit is
known (`InitInv`, `TrustInv`). A transaction the driver is about to rely on is of this call and not
left over from an earlier one (`JobInv`): this is where the order of commands in `sd_erase()`,
whose answers are ignored, matters. `DataInv` is `WriteTruth` and `ReadTruth` before the
call returns. TLC checked the invariant before it was proved.

**TrimFree.** Every range given to `sd_erase()` is a maximal run of free clusters, and so is the open
one, as far as the scan has come (`RunsInv`). The three properties are arithmetic on top of that.

**Cards.** `VolOfOneCard` is nearly inductive; it needs that nothing answers `ok` outside
the prompt, and that a card that listens after an `ok` is formatted. `StructureKept` rests on it and on
`FileInv`: `logfile.dir_lba` lies in the data region of the card it was found on. `Hit` is exact
if the unit is the card's.

**FatLog.** What one scan of the directory finds, a number without a file and a free
entry, must still be true many sectors later when the entry is written (`PendingInv`), and the scan,
which ends at the first entry never used, must not end before a file (`DirInv`). `NumInv` bounds
the numbers, two bytes written one by one.

`ChainsComplete` and `NoCrossLink` are about chains, which are defined by recursion over the FAT. The
induction they need is done by hand: `StepByStep` takes the least counterexample among
the naturals, `FollowIs` gives the recursive function its value at a step, and the lemmas after it
say what one write to the FAT does to a chain that does, or does not, pass through the cluster
written. The invariant is `ChainInv`. `fat32_open_log()` and `fat32_extend()` link clusters
in ascending order, so what the logger has taken lies before all that is still free (`Ordered`):
links climb, so a chain cannot close on itself and ends. While a file is made, its clusters form a
run with the end mark not yet written, and its directory entry, which comes last, does not name
it (`MakingBy`); a cut in between leaves clusters nobody names. An extension changes only what comes
after `logfile.last` (`ExtendBy`).

`ConfigUsable` needs how far a save that was cut can take the number from what was meant
(`SaveInv`): the bytes stored are a mixture of two numbers one apart, so the number saved grows by
no more than one a session, and it takes `LogMax` sessions to get to the number that stops the boot.

`FileContent` and `NeverOverwritten` are proved for a certain kind of card: `fat32_append_sector()` counts on
from `cur_lba`, and the clusters of a file are the first free ones, wherever they are.
`FreeTogether` says that on the new card no cluster of another file lies between two that
are free; `FatLog.cfg` has such a card, a freshly formatted one is such a card, and `fat_fragmented`
(section 5) shows what happens on another. With it and `Ordered` the clusters a file gets are
adjacent. The invariant (`ContentInv`) says where every sector that was logged lies: at its offset from
the first cluster of some file, in a cluster that is not free (`PlacedInv`); a file in the
directory has its sectors in adjacent clusters and nothing else that was logged is in them
(`StoredInv`); for the file in use they are as many as `written`, and `cur` follows them
(`UseInv`). A file that is made or a cluster that is added holds nothing that was
logged before it is erased and filled with zeros (`NewInv`, `AddInv`). A resumption is right when
the record is the number of sectors that the file holds, which is what `misplaced` looks at, and
an extension when the cluster added is the one after the last. After a `cut` a chain may run into
another file and `Laid` says nothing any more; that logged sectors are still not overwritten then is
only model-checked.

**EepromFlash.** Until a slot is used for the second time, the generations alone say how many syncs
were completed: the m-th wrote `Unused - m` into slot m, and the last of a round into slot 0
(`Ordered`). So the newest slot is the m-th, the next one has no generation yet, and what is
written into it does not count until its generation is there (`Stored`). That slots are used in
turn rests on `Fresh`: what has no generation is erased unless a sync was cut. The proof uses
only that there are more slots than one and no more than generations, and what `ProgramAssumption` says.
`find_next_free_slot()` erases the sector if the next slot is the current one, which it never is
(`NeverErased`): the comment at the head of `eeprom_flash.c`, "When sector full: erase and start
over", is not borne out, and the sync after the last slot programs over the first data.

**CommandLine.** What is expected is a recursive function of the bytes sent (`Session`), reasoned
about as the chains are: its value at a step (`SessionIs`), that a byte sent later changes nothing
before it (`SessionAppend`), that answers are never taken back (`SessionGrows`). While none is
lost the receiver holds the last bytes sent (`ReceiverInv`), so those before them have been heeded, and
buffer and answers are what the function yields for them (`LineInv`). `line_eq()` compares bytes up
to the length of a name and then wants a NUL, which is to say that the line's text is that name
(`LineEqIs`), although bytes of an earlier line or of the capture lie behind it. That names
differ is assumed (`NamesAssumption`).

Only model-checked: the liveness properties `Drains`, `RewriteFlushes` and `CallsReturn` (fairness and
ENABLED are out of TLAPS's reach), and `NeverOverwritten` after a `cut`.

## 5. What the violation runs show

Each checks one statement of a comment or document that the code does not bear out;
`PROJECT.json` quotes it under "findings".

1. `loop_idle`: the flag that `main.c` polls is set nowhere. The timer interrupt sets
   another. `README.md` (lines 56-58) promises a flush when it fires.
2. `loop_entry`: `log_flush()` appends one sector and releases all that is pending,
   which on entry to command mode can be more than a sector; and for some tails its
   copies overlap.
3. `fat_resume`: once the number was saved and the size flushed, nothing leads the next
   session back to the file.
4. `fat_fragmented`: clusters are chosen by number, sectors are erased, zeroed and
   written consecutively from the first.

Met while modelling, without a run of their own:

- Capture. `uart.h` (lines 40-42) says a torn read of the head can only undercount. It can also
  overcount. In the Makefile build that is harmless, for the reason in section 4. In the rewrite,
  which is for an AVR as well, it is not: its idle flush leaves the tail on any slot. With the tail at
  0x0081 and the head going from 0x01FF to 0x0200 between the loads of the low and the high byte,
  the head is taken for 0x02FF, and 638 bytes for pending where 383 are: `log_process()` then sends
  and releases a sector of which 129 bytes have not arrived. Loading the high byte first makes the
  head 256 too small, which overcounts if the tail lies in between. `Accounting` and `SectorsFaithful` say of
  the rewrite what holds until then (`"torn"`).
- Scratch. The rewrite flushes with the receiver on, so bytes that arrive during a flush are stored
  in the pad or in the directory sector (`"shared"`). In both programs `fat32_append_sector()` loads FAT sectors over the ring, when the
  file grows, before it sends the sector that is still in it (`"grown"`). An escape
  sequence typed on a quiet line does not enter command mode in the rewrite: the idle flush takes
  its bytes before they are scanned.
- Log file. After a refused sector during an extension the next append extends again, and the file
  is no longer contiguous; a resumed file takes its extent to end at the pre-allocated size,
  though clusters may have been added; the recovery record is used for whichever file
  is resumed, and until the first flush of a session it is that of an earlier one, or all ones; a file flushed at exactly the pre-allocated size is taken for one to
  resume. `misplaced` and `cut` mark these in `FatLog`. When all numbers are used up, file 65534
  can be created a second time.
- Configuration. The magic number is written first, so a first save cut short looks complete
  (`saved = "cut"`), and since erased flags forbid the factory reset, nothing repairs it.
- EEPROM in flash. The slot after the current one is never the current one, so the erase never runs,
  and slots are reused with their bits cleared. After a sync that power cut short, the
  next sync takes the same slot again, which holds part of the first attempt. `Recoverable`
  without `~ reused` does not hold.
- SD card. `sd_init()` leaves `sd_state.sdhc` as it was when it fails, so after a swap and a failed
  `init` the address unit may be that of the old card: the properties of `SdCard` without `trusted`
  do not hold. `sd.h` asks for the slow clock before `sd_init()`, which `init` of command mode
  does not set again. An erase that outlasts its wait returns `SD_OK`; the write that follows
  fails, as it should (`WriteTruth`), and at boot that is the end (`error_halt()`).
- Trim. Such an erase also makes the next read of a FAT sector fail: trim free then stops with `!`, and
  the run that was open is lost. It visits entries past the last cluster of the volume too, and
  erases what they stand for if they read 0. After trim full on a card that erases to ones the root
  directory reads as 0xFF, and the next boot ends in `error_halt()`.
- Mount and swaps. The first FAT32 entry of the partition table counts, also if it says sector 0 and a
  valid one follows. `sec_per_clus` is not checked; with 0, `fat32_log.c:154` divides by it.
  After an init that answered `!`, trims and sync go on, with the old layout and perhaps the
  old unit, on the card that is now in.
- Command mode. `repl.c` (lines 24-25) says that `ring[1023]` is never written; the terminator of a
  full line is written there, which does no harm. A stored byte that the terminal does not show
  makes a backspace remove a character too many from the screen. Bytes sent before the prompt
  become part of the first line but for one (`repl.c`) or all (`repl_new.c`).

## 6. Not modelled, and why

- SD protocol: clock rate, and the dummy byte after the release of chip select, which the
  error returns of `sd.c` leave out (what a card then does is the card's affair).
  Modules other than `SdCard` see a card that takes, refuses or ignores a sector.
- Transmission, LEDs, delays, stack canary, start-up of peripherals: no state that the
  properties see.
- The other platforms: nearly every function is a comment that says what to do.
- `disk` and help: they print.
- Configuration fields other than magic number, file number and flags: they are written in between
  in the same way and nothing changes them at run time.
- A full volume: the search for free clusters does not stop at the end of the FAT. `OpenWild` and
  `AppendWild` are the places where `FatLog` stops following the code.
- Erased sectors are a content of their own (`blank`); the code assumes nothing of them
  but for trim full, after which the root directory must read as zeros.
- The two stores of the tail: within `CapturePath` its low byte is always 0; elsewhere the
  interrupt may at most drop a byte, which is no step.

## 7. Plan

Each module comes with its runs, and its theorems where a proof is in reach.

1. *Done:* `SectorLog`, `CapturePath`, `SdCard`, `TrimFree` and `Cards`, with all their safety properties
   proved; and `LogLoop`, `FatLog`, `EepromFlash` and `CommandLine` likewise, where the table of section 4
   names the condition.
2. Proofs that are left: `NeverOverwritten` after a `cut`, which needs an invariant of where data lies
   that does not go through the chains.
3. Variants: `LogLoop` with the scanner of `log_new.c` across an idle flush; `SdCard` as what
   `FatLog` takes for a card: an abstract sector store that both refer to.

Runs that turned out to ask the same question as a deeper one were replaced by it.
