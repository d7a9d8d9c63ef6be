------------------------------- MODULE FatLog -------------------------------
(***************************************************************************)
(* The log file on the card over many sessions: fat32_open_log(), which    *)
(* resumes a file or allocates a new one, fat32_append_sector(),           *)
(* fat32_flush(), the trim commands, and the EEPROM that carries the next  *)
(* file number (config.c) and the recovery record (log_flush()) from one   *)
(* session to the next.                                                    *)
(*                                                                         *)
(* The unit of a step is what survives a loss of power: one sector written *)
(* on the card or one field written in EEPROM.  Power may go between any   *)
(* two, and the card may refuse any sector.  Reads change nothing that     *)
(* lasts and are part of the step that uses them.  Sizes are in sectors;   *)
(* a sector of the card is named by its distance from the data region.     *)
(* How the ring serves as scratch meanwhile is in LogLoop.                 *)
(***************************************************************************)
EXTENDS Integers, Sequences, FiniteSets, FiniteSetsExt

CONSTANTS
    LRADIX,       \* values of one byte of cfg.log_num: 256 in the code
    SecPerClus,   \* vol.sec_per_clus
    NSectors,     \* sectors pre-allocated for a file
    NumFats,      \* vol.num_fats
    LastCluster,  \* the last cluster of the volume
    LastEntry,    \* the last entry of the FAT sectors: they have room for more
    Occupied,     \* clusters that belong to other files
    DirSlots,     \* entries of the root directory
    MaxBoots,     \* bound: times the logger is powered on
    MaxAppends,   \* bound: sectors logged
    MaxRefusals   \* bound: sectors that the card refuses to write

ASSUME SizesAssumption == /\ LRADIX \in Nat \ {0, 1} /\ SecPerClus \in Nat \ {0}
                          /\ NSectors \in Nat \ {0} /\ NumFats \in Nat \ {0}
                          /\ MaxBoots \in Nat /\ MaxAppends \in Nat
                          /\ MaxRefusals \in Nat
ASSUME VolumeAssumption == /\ LastCluster \in Nat /\ LastEntry \in Nat
                           /\ 2 <= LastCluster /\ LastCluster <= LastEntry
                           /\ Occupied \subseteq 3 .. LastCluster
                           /\ DirSlots \in Nat \ {0}

VARIABLES
    fat,        \* the FAT copies on the card
    dir,        \* the root directory on the card
    data,       \* the sectors of the data region
    magic, lognum, flags, rec,  \* EEPROM: magic valid, log_num low and high,
                \* CFG_FL_IGNORE_RX_RST, recovery record
    num,        \* cfg.log_num
    logfile,    \* the struct; its bytes_written in sectors
    pc,         \* where the logger is
    mode,       \* whether clusters are added for "create" or "extend"
    todo,       \* FAT entries still to write, in order
    copy,       \* the FAT copy that the next of them goes to
    zero,       \* the sectors still to zero-fill: from, up to and excluding
    boots, appends, refusals,   \* the bounded counters
    cut, misplaced, saved, interrupted   \* history, for the properties

cardVars   == <<fat, dir, data>>
eepromVars == <<magic, lognum, flags, rec>>
taskVars   == <<mode, todo, copy, zero>>
countVars  == <<boots, appends, refusals>>
histVars   == <<cut, misplaced, saved, interrupted>>
vars == <<cardVars, eepromVars, num, logfile, pc, taskVars, countVars, histVars>>

Entries == 2 .. LastEntry
EOC     == LastEntry + 1     \* end of chain
NClus   == (NSectors + SecPerClus - 1) \div SecPerClus
Slots   == 0 .. DirSlots - 1
LogMax  == LRADIX * LRADIX - 1   \* 65535: no file has this number
Lba(c)  == (c - 2) * SecPerClus
ClusterOf(s) == s \div SecPerClus + 2
Sectors == 0 .. Lba(LastEntry + 1) - 1

\* The content of a sector: a log sector by the file's number and its offset.
Plain(kind)     == [kind |-> kind, name |-> 0, at |-> 0]
LogData(name, at) == [kind |-> "log", name |-> name, at |-> at]

\* A directory entry; "other" is a file of the user, "end" a zero first byte.
Entry(kind, name, first, size) == [kind |-> kind, name |-> name, first |-> first, size |-> size]
NoEntry(kind) == Entry(kind, 0, 0, 0)

NoFile   == [first |-> 0, last |-> 0, cur |-> 0, end |-> 0, slot |-> 0, name |-> 0, written |-> 0]
BlankRec == LRADIX * Cardinality(Sectors)   \* erased EEPROM: a huge number

\* A card with one file of the user, one deleted file, and a new device.
Init ==
    /\ fat = [f \in 1 .. NumFats |-> [c \in Entries |-> IF c = 2 \/ c \in Occupied THEN EOC ELSE 0]]
    /\ dir = [s \in Slots |-> IF s = 0 THEN NoEntry("other")
                              ELSE IF s = 1 THEN NoEntry("deleted") ELSE NoEntry("end")]
    /\ data = [s \in Sectors |-> Plain("old")]
    /\ magic = FALSE /\ lognum = [lo |-> LRADIX - 1, hi |-> LRADIX - 1] /\ flags = TRUE /\ rec = BlankRec
    /\ num = 0 /\ logfile = NoFile /\ pc = "off"
    /\ mode = "none" /\ todo = <<>> /\ copy = 1 /\ zero = <<0, 0>>
    /\ boots = 0 /\ appends = 0 /\ refusals = 0
    /\ cut = FALSE /\ misplaced = FALSE /\ saved = "never" /\ interrupted = 0

-----------------------------------------------------------------------------
(* The FAT and the directory, as they are read (always from the first copy) *)

\* The cluster k links after first; EOC, or 0 if the chain runs into a free one.
Follow(table, first) ==
    LET link[k \in 0 .. LastEntry] ==
          IF k = 0 THEN first
          ELSE LET clus == link[k - 1] IN IF clus \in Entries THEN table[clus] ELSE clus
    IN link
Link(first)     == Follow(fat[1], first)
Chain(first)    == LET link == Link(first) IN {link[k] : k \in 0 .. LastEntry} \cap Entries
ChainEnd(first) == Link(first)[LastEntry]

\* (Names that start with Mut are mistakes one could make in the definition
\* that follows; each shows that a property notices it.)

\* The first n free clusters, in order.  The code looks for them by number with
\* no upper limit, so the entries past the end of the volume count.
MutFreeInLastCopy == {c \in Entries : fat[NumFats][c] = 0}
FreeClusters == {c \in Entries : fat[1][c] = 0}
FirstFree(n) ==
    {q \in [1 .. n -> FreeClusters] :
        /\ \A i, j \in 1 .. n : i < j => q[i] < q[j]
        /\ \A c \in FreeClusters : c < q[n] => \E i \in 1 .. n : q[i] = c}

\* scan_root_dir(): entries after the first "end" are not looked at.
Live     == {s \in Slots : \A t \in Slots : t <= s => dir[t].kind # "end"}
Match(n) == {s \in Live : dir[s].kind = "log" /\ dir[s].name = n}
Resumable(n) == Match(n) # {} /\ dir[Min(Match(n))].size = NSectors

\* Where the loop of fat32_open_log() over the file numbers stops, and the
\* directory slots that the last scan found usable.
MutStopAtOnce == num
Stop == Min({n \in num .. LogMax : n = LogMax \/ Match(n) = {} \/ Resumable(n)})
Deleted == {s \in Live : dir[s].kind = "deleted"}
Usable ==
    IF Stop = LogMax THEN {s \in Deleted : \A t \in Match(LogMax - 1) : s < t}
    ELSE IF Deleted # {} THEN Deleted
    ELSE Slots \ Live

-----------------------------------------------------------------------------
(* Power, and config_load() / config_save() *)

Save(k, lo, hi) ==
    /\ magic' = (magic \/ k = "magic")
    /\ lognum' = [lo |-> IF k = "lo" THEN lo ELSE lognum.lo,
                  hi |-> IF k = "hi" THEN hi ELSE lognum.hi]
    /\ flags' = (flags /\ ~ (k = "flags" /\ mode = "boot"))
    /\ UNCHANGED rec

MutSaveUnmasked(k) == Save(k, num, num \div LRADIX)

\* The fields of EEPROM in the order of config_save().  Those that say nothing
\* of the log file or of the factory reset are left out.  The flags are those
\* that were loaded, or at boot the default, 0.
SaveField(k) == Save(k, num % LRADIX, num \div LRADIX)

BootWith(default) ==
    /\ pc = "off"
    /\ boots < MaxBoots /\ boots' = boots + 1
    /\ IF default THEN num' = 1 /\ pc' = "magic"
                  ELSE num' = lognum.lo + LRADIX * lognum.hi /\ pc' = "open"
    /\ mode' = "boot"
    /\ UNCHANGED <<cardVars, eepromVars, logfile, todo, copy, zero, appends, refusals, histVars>>

MutPowerOnUnchecked == \E rx_low \in BOOLEAN : BootWith(rx_low /\ ~ flags)

\* Boot: config_load(), then the factory reset if RX is held low and the flag
\* that forbids it is not set.
PowerOn == \E rx_low \in BOOLEAN : BootWith(~ magic \/ (rx_low /\ ~ flags))

\* config_save(), called by the boot and by fat32_open_log().
ConfigSave ==
    /\ pc \in {"magic", "lo", "hi", "flags"}
    /\ SaveField(pc)
    /\ pc' = CASE pc = "magic" -> "lo"
               [] pc = "lo"    -> "hi"
               [] pc = "hi"    -> "flags"
               [] OTHER        -> IF mode = "boot" THEN "open" ELSE "run"
    /\ saved' = IF pc = "flags" /\ saved = "never" THEN "done" ELSE saved
    /\ UNCHANGED <<cardVars, num, logfile, taskVars, countVars, cut, misplaced, interrupted>>

\* Power is lost, or the watchdog resets the processor after "reset".
PowerOff ==
    /\ pc # "off"
    /\ pc' = "off" /\ num' = 0 /\ logfile' = NoFile
    /\ mode' = "none" /\ todo' = <<>> /\ copy' = 1 /\ zero' = <<0, 0>>
    /\ cut' = (cut \/ \E s \in Slots : dir[s].kind = "log" /\ ChainEnd(dir[s].first) = 0)
    /\ interrupted' = IF pc = "run" /\ logfile.written > 0 /\ rec = logfile.written
                        THEN logfile.first ELSE 0
    /\ saved' = IF saved = "never" /\ magic THEN "cut" ELSE saved
    /\ UNCHANGED <<cardVars, eepromVars, countVars, misplaced>>

-----------------------------------------------------------------------------
(* fat32_open_log() *)

ResumeAt(offset) ==
    /\ pc = "open" /\ Stop < LogMax /\ Resumable(Stop)
    /\ LET s     == Min(Match(Stop))
           first == dir[s].first
       IN /\ logfile' = [first |-> first, cur |-> Lba(first) + offset, end |-> Lba(first) + NSectors,
                         last |-> IF ChainEnd(first) = EOC
                                    THEN CHOOSE c \in Chain(first) : fat[1][c] = EOC ELSE 0,
                         slot |-> s, name |-> Stop, written |-> rec]
    /\ misplaced' = (misplaced \/ LET from == Lba(dir[Min(Match(Stop))].first)
                                  IN {x \in Sectors : data[x] = LogData(Stop, x - from)}
                                       # from .. from + rec - 1)
    /\ num' = Stop /\ pc' = "run"
    /\ UNCHANGED <<cardVars, eepromVars, taskVars, countVars, cut, saved, interrupted>>

MutResumeAtStart == ResumeAt(0)

\* A file of the number found, with the size of a pre-allocated file, is
\* resumed where the recovery record says.
OpenResume == ResumeAt(rec)

Create(links, sectors) ==
    /\ pc = "open" /\ num < LogMax
    /\ Stop = LogMax \/ ~ Resumable(Stop)
    /\ Usable # {}
    /\ \E chain \in FirstFree(NClus) : LET from == Lba(chain[1]) IN
          /\ todo' = [k \in 1 .. links |->
                        [clus |-> chain[k], val |-> IF k < NClus THEN chain[k + 1] ELSE EOC]]
          /\ logfile' = [first |-> chain[1], last |-> chain[NClus], cur |-> from,
                         end |-> from + NSectors, slot |-> Min(Usable),
                         name |-> IF Stop = LogMax THEN LogMax - 1 ELSE Stop, written |-> 0]
          /\ zero' = <<from, from + sectors>>
    /\ num' = Stop /\ mode' = "create" /\ copy' = 1 /\ pc' = "link"
    /\ UNCHANGED <<cardVars, eepromVars, countVars, histVars>>

MutNoEndOfChain == Create(NClus - 1, NSectors)
MutZeroFillShort == Create(NClus, NSectors - 1)

\* A new file: its clusters are the first free ones, each linked to the next.
OpenCreate == Create(NClus, NSectors)

\* No directory entry is free, or the card refuses a read: error_halt().
OpenFails ==
    /\ pc = "open"
    /\ pc' = "halt"
    /\ UNCHANGED <<cardVars, eepromVars, num, logfile, taskVars, countVars, histVars>>

\* From here on the model does not follow the code: number 65535 makes it use
\* variables that were never assigned, and with no free cluster left in the FAT
\* it takes what follows the FAT for more of it.
OpenWild ==
    /\ pc = "open"
    /\ \/ num = LogMax
       \/ /\ Stop = LogMax \/ ~ Resumable(Stop)
          /\ Usable # {} /\ FirstFree(NClus) = {}
    /\ pc' = "wild"
    /\ UNCHANGED <<cardVars, eepromVars, num, logfile, taskVars, countVars, histVars>>

\* fat_write_entry(), one FAT copy at a time.  After the last one the sectors
\* are given to sd_erase(), which the card may ignore.
WriteFatEntry ==
    /\ pc = "link"
    /\ fat' = [fat EXCEPT ![copy][Head(todo).clus] = Head(todo).val]
    /\ IF copy < NumFats
         THEN copy' = copy + 1 /\ UNCHANGED <<todo, pc, data>>
         ELSE /\ copy' = 1 /\ todo' = Tail(todo)
              /\ IF Len(todo) > 1
                   THEN UNCHANGED <<pc, data>>
                   ELSE /\ pc' = "zero"
                        /\ data' \in {data, [s \in Sectors |->
                              IF zero[1] <= s /\ s < zero[2] THEN Plain("blank") ELSE data[s]]}
    /\ UNCHANGED <<dir, eepromVars, num, logfile, mode, zero, countVars, histVars>>

\* One sector of the zero-fill, of a new file or of a cluster added.
ZeroFill ==
    /\ pc = "zero" /\ zero[1] \in Sectors
    /\ data' = [data EXCEPT ![zero[1]] = Plain("zero")]
    /\ zero' = <<zero[1] + 1, zero[2]>>
    /\ IF zero[1] + 1 < zero[2]
         THEN UNCHANGED <<pc, logfile, misplaced>>
         ELSE IF mode = "create"
           THEN pc' = "dir" /\ UNCHANGED <<logfile, misplaced>>
           ELSE /\ pc' = "append"
                /\ logfile' = [logfile EXCEPT !.end = zero[2], !.last = ClusterOf(zero[1])]
                /\ misplaced' = (misplaced \/ ClusterOf(zero[1]) # ClusterOf(logfile.end - 1) + 1)
    /\ UNCHANGED <<fat, dir, eepromVars, num, mode, todo, copy, countVars, cut, saved, interrupted>>

\* The directory entry comes last, then the next number is saved.
WriteDirEntry ==
    /\ pc = "dir"
    /\ dir' = [dir EXCEPT ![logfile.slot] = Entry("log", logfile.name, logfile.first, NSectors)]
    /\ num' = (num + 1) % (LogMax + 1)
    /\ pc' = "magic"
    /\ UNCHANGED <<fat, data, eepromVars, logfile, taskVars, countVars, histVars>>

Refused == refusals < MaxRefusals /\ refusals' = refusals + 1

\* A sector is refused: no log file, so error_halt(); or, while a cluster is
\* added, the data is dropped and logfile is as before.
CardRefuses ==
    /\ pc \in {"link", "zero", "dir"}
    /\ Refused
    /\ pc' = IF mode = "create" THEN "halt" ELSE "run"
    /\ UNCHANGED <<cardVars, eepromVars, num, logfile, taskVars, boots, appends, histVars>>

-----------------------------------------------------------------------------
(* fat32_append_sector() *)

\* The extent is used up: add the first free cluster, wherever it is.
Extend ==
    /\ pc = "run" /\ appends < MaxAppends
    /\ logfile.cur >= logfile.end
    /\ FreeClusters # {} /\ logfile.last # 0
    /\ LET c == Min(FreeClusters)
       IN /\ todo' = << [clus |-> logfile.last, val |-> c], [clus |-> c, val |-> EOC] >>
          /\ zero' = <<Lba(c), Lba(c) + SecPerClus>>
    /\ mode' = "extend" /\ copy' = 1 /\ pc' = "link"
    /\ UNCHANGED <<cardVars, eepromVars, num, logfile, countVars, histVars>>

\* sd_write_sector_zc(logfile.cur_lba): written, or refused.
WriteSector(ready) ==
    /\ ready
    /\ appends < MaxAppends /\ appends' = appends + 1
    /\ logfile.cur \in Sectors
    /\ \/ /\ data' = [data EXCEPT ![logfile.cur] = LogData(logfile.name, logfile.written)]
          /\ logfile' = [logfile EXCEPT !.cur = @ + 1, !.written = @ + 1]
          /\ UNCHANGED refusals
       \/ Refused /\ UNCHANGED <<data, logfile>>
    /\ pc' = "run"
    /\ UNCHANGED <<fat, dir, eepromVars, num, taskVars, boots, histVars>>

\* Within the extent, or just after a cluster was added.
AppendSector == WriteSector((pc = "run" /\ logfile.cur < logfile.end) \/ pc = "append")

\* A number that is no sector here, or cluster 0 as the end of the chain.
AppendWild ==
    /\ \/ (pc = "append" \/ (pc = "run" /\ logfile.cur < logfile.end)) /\ logfile.cur \notin Sectors
       \/ pc = "zero" /\ zero[1] \notin Sectors
       \/ pc = "run" /\ logfile.cur >= logfile.end /\ (logfile.last = 0 \/ FreeClusters = {})
    /\ pc' = "wild"
    /\ UNCHANGED <<cardVars, eepromVars, num, logfile, taskVars, countVars, histVars>>

-----------------------------------------------------------------------------
(* log_flush() after its append: fat32_flush(), then the recovery record.  *)
(* Idle in log mode; on entry and by "sync" in command mode.               *)

FlushDir ==
    /\ pc \in {"run", "prompt"}
    /\ \/ dir' = [dir EXCEPT ![logfile.slot].size = logfile.written] /\ UNCHANGED refusals
       \/ Refused /\ UNCHANGED dir
    /\ pc' \in IF pc = "run" THEN {"record", "recordcmd"} ELSE {"recordcmd"}
    /\ UNCHANGED <<fat, data, eepromVars, num, logfile, taskVars, boots, appends, histVars>>

FlushRecord ==
    /\ pc \in {"record", "recordcmd"}
    /\ rec' = logfile.written
    /\ pc' = IF pc = "record" THEN "run" ELSE "prompt"
    /\ UNCHANGED <<cardVars, magic, lognum, flags, num, logfile, taskVars, countVars, histVars>>

\* The sectors of the free clusters are given to sd_erase(), run by run in the
\* order of the FAT, until a FAT sector cannot be read or power is lost.
TrimFree ==
    /\ pc = "prompt"
    /\ \E upto \in {c \in Entries : c = LastEntry \/ fat[1][c + 1] # 0} :
          data' = [s \in Sectors |-> IF ClusterOf(s) <= upto /\ fat[1][ClusterOf(s)] = 0
                                       THEN Plain("blank") ELSE data[s]]
    /\ UNCHANGED <<fat, dir, eepromVars, num, logfile, pc, taskVars, countVars, histVars>>

\* All the data region, the root directory with it.  (Erased sectors read 0.)
TrimFull ==
    /\ pc = "prompt"
    /\ data' = [s \in Sectors |-> IF s < Lba(LastCluster + 1) THEN Plain("blank") ELSE data[s]]
    /\ dir' = [s \in Slots |-> NoEntry("end")]
    /\ UNCHANGED <<fat, eepromVars, num, logfile, pc, taskVars, countVars, histVars>>

Next ==
    \/ PowerOn \/ PowerOff \/ ConfigSave
    \/ OpenResume \/ OpenCreate \/ OpenFails \/ OpenWild
    \/ WriteFatEntry \/ ZeroFill \/ WriteDirEntry \/ CardRefuses
    \/ Extend \/ AppendSector \/ AppendWild
    \/ FlushDir \/ FlushRecord \/ TrimFree \/ TrimFull

Spec == Init /\ [][Next]_vars

-----------------------------------------------------------------------------
(* Properties *)

Contents == [kind : {"old", "blank", "zero", "log"}, name : 0 .. LogMax, at : Nat]
DirEntries == [kind : {"other", "deleted", "end", "log"}, name : 0 .. LogMax,
               first : {0} \cup Entries, size : Nat]

\* The types of the variables.
TypeOK ==
    /\ fat \in [1 .. NumFats -> [Entries -> {0, EOC} \cup Entries]]
    /\ dir \in [Slots -> DirEntries]
    /\ data \in [Sectors -> Contents]
    /\ lognum.lo \in 0 .. LRADIX - 1 /\ lognum.hi \in 0 .. LRADIX - 1 /\ rec \in Nat
    /\ num \in 0 .. LogMax
    /\ logfile.first \in {0} \cup Entries /\ logfile.last \in {0} \cup Entries
    /\ logfile.cur \in Nat /\ logfile.end \in Nat /\ logfile.slot \in Slots
    /\ \A k \in 1 .. Len(todo) : todo[k].clus \in Entries /\ todo[k].val \in Entries \cup {EOC}
    /\ copy \in 1 .. NumFats
    /\ {magic, flags, cut, misplaced} \subseteq BOOLEAN
    /\ saved \in {"never", "cut", "done"}

LogSlots == {s \in Slots : dir[s].kind = "log"}

\* However power is lost or the card refuses sectors, a file in the directory
\* has a complete chain: enough clusters for the pre-allocated size, the last
\* one marked as the end.  The exception is the file being extended, and cut:
\* power was lost between the two FAT writes of an extension.
ChainsComplete ==
    ~ cut => \A s \in LogSlots :
        /\ Cardinality(Chain(dir[s].first)) >= NClus
        /\ ChainEnd(dir[s].first) = EOC \/ (dir[s].first = logfile.first /\ mode = "extend")

\* No two files share a cluster, nor does one share with a file of the user,
\* though crashes leave half-built chains behind.  The exception is cut: a file
\* linked to a cluster that is still free gets that of the next file.
NoCrossLink ==
    ~ cut => \A s \in LogSlots :
        /\ Chain(dir[s].first) \cap ({2} \cup Occupied) = {}
        /\ \A t \in LogSlots \ {s} : Chain(dir[s].first) \cap Chain(dir[t].first) = {}

\* What a computer reads from the card: offset i of a file holds what was
\* logged to that file at that offset; zeros only if it was not closed by a
\* flush.  cut, and a resumption at a wrong offset, are excepted.
FileSector(first, i) == Lba(Link(first)[i \div SecPerClus]) + (i % SecPerClus)
FileContent ==
    ~ cut /\ ~ misplaced => \A s \in LogSlots : \A i \in 0 .. dir[s].size - 1 :
        LET content == data[FileSector(dir[s].first, i)]
        IN \/ content = LogData(dir[s].name, i)
           \/ dir[s].size = NSectors /\ content = Plain("zero")

\* A logged sector is never overwritten, not by the allocation, zero-fill or
\* extension of any later session, by an append after a power loss, or by trim
\* free.  Two exceptions: trim full, and everything from the first time that the
\* code writes in the wrong place (misplaced), which does overwrite: a file was
\* resumed where its data does not end, or extended by a cluster elsewhere.
KeepsLogged == \A s \in Sectors : data[s].kind = "log" => data'[s] = data[s]
NeverOverwritten == [][~ misplaced' /\ ~ TrimFull => KeepsLogged]_vars

\* No two files have the same number, though the save of the next number can
\* be cut between its two bytes and a factory reset starts over at 1.  When all
\* numbers are used up the last one may be given again.
UniqueNames ==
    \A s, t \in LogSlots : dir[s].name = dir[t].name /\ dir[s].name # LogMax - 1 => s = t

\* A number that was never saved, 65535 of erased EEPROM above all, and a
\* factory reset that is locked out for good have one cause, short of 65534
\* files: power was lost in the very first config_save(), after the magic
\* number ("a partial save is detectable", config.c) and before the flags.
ConfigUsable ==
    saved # "cut" /\ pc \notin {"off", "magic", "lo", "hi", "flags"} => num < LogMax /\ ~ flags

-----------------------------------------------------------------------------
(* What comments and documents say, and the code does not do *)

\* "power loss mid-session can be resumed" (README.md): a file that was flushed
\* and then interrupted is the one that the next session goes on with.
PowerLossResumes == pc = "run" /\ interrupted # 0 => logfile.first = interrupted

\* "creates and pre-allocates a new file, erases and zero-fills it" (fat32.h):
\* all of the new file is zero when its directory entry is written.
NewFileZeroed ==
    pc = "dir" => \A i \in 0 .. NSectors - 1 :
        data[FileSector(logfile.first, i)] = Plain("zero")

=============================================================================
