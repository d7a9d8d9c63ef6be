-------------------------------- MODULE Cards --------------------------------
(***************************************************************************)
(* Boot, fat32_mount() and the commands init, sync, reset and trim, with   *)
(* several cards and a person who swaps them in command mode.  The layout  *)
(* in vol, the open file in logfile and the address unit sd_state.sdhc are *)
(* of the card that was in the slot when they were set, and the commands   *)
(* use them on the card that is there now.                                 *)
(*                                                                         *)
(* The protocol of the card is in SdCard, the search of trim free in       *)
(* TrimFree, what a log file does within its own volume in FatLog: here a  *)
(* sector is as it was formatted, erased, or got four bytes of file size.  *)
(***************************************************************************)
EXTENDS Integers, Sequences, FiniteSetsExt, SequencesExt

CONSTANTS
    CardSet,      \* the cards at hand
    Table,        \* card -> its partition table: [fat32, lba_start] four times
    BootSector,   \* card -> sector number -> the boot sector found there
    Used,         \* card -> the clusters of its root directory and files
    HighCapacity, \* the cards addressed by sector; the others by byte
    LastSector,   \* of every card
    EPS,          \* FAT entries in a sector
    BYTES,        \* bytes in a sector: 512 in the code
    MaxCommands   \* bound: calls of sd_erase() and syncs

ASSUME SizesAssumption == LastSector \in Nat /\ EPS \in Nat \ {0} /\ BYTES \in Nat \ {0, 1}
                          /\ MaxCommands \in Nat
ASSUME CardsAssumption ==
    /\ HighCapacity \subseteq CardSet /\ "none" \notin CardSet
    /\ \A c \in CardSet :
         /\ Len(Table[c]) = 4 /\ Used[c] \subseteq Nat
         /\ DOMAIN BootSector[c] \subseteq 1 .. LastSector
         /\ \A s \in DOMAIN BootSector[c] : BootSector[c][s] \in
               [bytes_per_sec : Nat, fat_sz16 : Nat, fat_sz32 : Nat, rsvd_sec : Nat,
                num_fats : Nat, root_clus : Nat \ {0, 1}, sec_per_clus : Nat \ {0},
                tot_sec32 : Nat]

VARIABLES
    slot,     \* the card in the slot
    ready,    \* that card has been through sd_init() and takes commands
    content,  \* what has become of the sectors of each card
    sdhc,     \* sd_state.sdhc
    vol,      \* the struct
    logfile,  \* logfile.dir_lba and, for the properties, the file's card
    pc,       \* "boot", "run" or "halt"
    answer,   \* of the last init, or of the boot: "ok" or "!"
    excused,  \* history: cards that were given up, or used despite a "!"
    commands  \* the bounded counter

progVars == <<sdhc, vol, logfile, pc, answer>>
vars == <<slot, ready, content, progVars, excused, commands>>

Sectors == 0 .. LastSector
NoVol   == [part_lba |-> 0, fat_lba |-> 0, fat_sz32 |-> 0, num_fats |-> 0,
            data_lba |-> 0, root_clus |-> 0, sec_per_clus |-> 0, tot_sec |-> 0]
NoFile  == [card |-> "none", dir_lba |-> 0]

Init ==
    /\ slot \in CardSet /\ ready = FALSE
    /\ content = [c \in CardSet |-> [s \in Sectors |-> "kept"]]
    /\ sdhc = FALSE /\ vol = NoVol /\ logfile = NoFile
    /\ pc = "boot" /\ answer = "!" /\ excused = {} /\ commands = 0

-----------------------------------------------------------------------------
(* sd_init() and fat32_mount() *)

Erased(s) == content[slot][s] = "erased"

UnitRead == sdhc' = (slot \in HighCapacity)

SdInit == ready' = TRUE /\ UnitRead

\* It can fail at any point, before or after the unit is read from the card.
SdInitFails == ready' \in BOOLEAN /\ (UnitRead \/ UNCHANGED sdhc)

\* The first FAT32 entry counts, even if it says sector 0.
PartLba(c) == LET i == SelectInSeq(Table[c], LAMBDA p : p.fat32)
              IN IF i = 0 THEN 0 ELSE Table[c][i].lba_start

Accepted(b) == b.bytes_per_sec = 512 /\ b.fat_sz16 = 0 /\ b.fat_sz32 # 0

Formatted(c) == PartLba(c) \in DOMAIN BootSector[c] /\ Accepted(BootSector[c][PartLba(c)])

\* An erased sector has no FAT32 entry and is no boot sector.  (Four bytes of
\* file size in either miss the fields that the mount reads.)
Mountable == ~ Erased(0) /\ Formatted(slot) /\ ~ Erased(PartLba(slot))

VolOf(part_lba, b) ==
    LET fat_lba == part_lba + b.rsvd_sec
    IN [part_lba |-> part_lba, fat_lba |-> fat_lba, fat_sz32 |-> b.fat_sz32,
        num_fats |-> b.num_fats, data_lba |-> fat_lba + b.num_fats * b.fat_sz32,
        root_clus |-> b.root_clus, sec_per_clus |-> b.sec_per_clus, tot_sec |-> b.tot_sec32]

Layout(c) == VolOf(PartLba(c), BootSector[c][PartLba(c)])

Mount == Mountable /\ vol' = Layout(slot)

\* (Names that start with Mut are mistakes one could make in the definition
\* that follows; each shows that a property notices it.)
MutMountEarly == vol' = IF Erased(0) THEN vol ELSE [vol EXCEPT !.part_lba = PartLba(slot)]

\* A sector is not what it should be, or cannot be read: vol stays as it was.
MountFails == UNCHANGED vol

-----------------------------------------------------------------------------
(* main() *)

RootDir == vol'.data_lba + (vol'.root_clus - 2) * vol'.sec_per_clus

MutBootRegardless ==
    /\ pc = "boot" /\ SdInit /\ MountFails
    /\ pc' = "run"
    /\ UNCHANGED <<slot, content, logfile, answer, excused, commands>>

\* sd_init(), fat32_mount(), fat32_open_log(): the root directory is one
\* cluster and has room.
Boot ==
    /\ pc = "boot"
    /\ SdInit /\ Mount
    /\ \E s \in 0 .. vol'.sec_per_clus - 1 : logfile' = [card |-> slot, dir_lba |-> RootDir + s]
    /\ pc' = "run" /\ answer' = "ok"
    /\ UNCHANGED <<slot, content, excused, commands>>

\* error_halt(), with another number of blinks for each of the three; the last
\* one also on a card that erases to ones, after a trim full.
BootFails ==
    /\ pc = "boot"
    /\ \/ SdInitFails /\ UNCHANGED vol
       \/ SdInit /\ (MountFails \/ Mount)
    /\ pc' = "halt"
    /\ UNCHANGED <<slot, content, logfile, answer, excused, commands>>

\* The command reset, or power switched off and on.
Reset ==
    /\ pc # "boot"
    /\ sdhc' = FALSE /\ vol' = NoVol /\ logfile' = NoFile
    /\ pc' = "boot" /\ answer' = "!"
    /\ UNCHANGED <<slot, ready, content, excused, commands>>

Swap ==
    /\ \E c \in CardSet \ {slot} : slot' = c
    /\ ready' = FALSE
    /\ UNCHANGED <<content, progVars, excused, commands>>

-----------------------------------------------------------------------------
(* Commands.  Entry to command mode does what sync does. *)

CmdInit ==
    /\ pc = "run"
    /\ SdInit /\ Mount
    /\ answer' = "ok"
    /\ UNCHANGED <<slot, content, logfile, pc, excused, commands>>

CmdInitFails ==
    /\ pc = "run"
    /\ \/ SdInitFails /\ UNCHANGED vol
       \/ SdInit /\ MountFails
    /\ answer' = "!"
    /\ UNCHANGED <<slot, content, logfile, pc, excused, commands>>

\* The sector that the card takes for lba, in bytes or in sectors.
Hit(lba) ==
    LET arg == IF sdhc THEN lba ELSE lba * BYTES
    IN IF slot \in HighCapacity THEN arg ELSE arg \div BYTES

\* A command of the prompt, which the card takes, refuses or does not hear.
Command(sectors, change, excuse) ==
    /\ pc = "run" /\ commands < MaxCommands
    /\ commands' = commands + 1
    /\ content' \in {content} \cup
         (IF ready /\ sectors \subseteq Sectors
            THEN {[content EXCEPT ![slot] =
                     [s \in Sectors |-> IF s \in sectors /\ ~ Erased(s) THEN change ELSE @[s]]]}
            ELSE {})
    /\ excused' = IF excuse THEN excused \cup {slot} ELSE excused
    /\ UNCHANGED <<slot, ready, progVars>>

\* sd_erase()
Erase(first, last, excuse) == Command(Hit(first) .. Hit(last), "erased", excuse)

\* log_flush() with nothing pending: fat32_flush() reads the sector of the
\* directory entry and writes it back with the file's size.
CmdSync == Command({Hit(logfile.dir_lba)}, "size", answer = "!" \/ logfile.card # slot)

\* One run of trim free: clusters whose FAT entries read as free.  With the
\* layout, the unit or the FAT of another card these may be any.
FatKept == /\ answer = "ok"
           /\ \A s \in vol.fat_lba .. vol.fat_lba + vol.fat_sz32 - 1 : ~ Erased(s)
Lba(c) == vol.data_lba + (c - 2) * vol.sec_per_clus
CmdTrimFree ==
    \E c, d \in 2 .. vol.fat_sz32 * EPS - 1 :
        /\ c <= d
        /\ ready /\ FatKept => (c .. d) \cap Used[slot] = {}
        /\ Erase(Lba(c), Lba(d + 1) - 1, answer = "!")

EndLba == vol.part_lba + vol.tot_sec - 1

MutTrimFullFromFat == Erase(vol.fat_lba, EndLba, answer = "!")

CmdTrimFull == Erase(vol.data_lba, EndLba, answer = "!")

CmdTrimFuller == Erase(0, EndLba, TRUE)

Next ==
    \/ Boot \/ BootFails \/ Reset \/ Swap
    \/ CmdInit \/ CmdInitFails \/ CmdSync
    \/ CmdTrimFree \/ CmdTrimFull \/ CmdTrimFuller

Spec == Init /\ [][Next]_vars

-----------------------------------------------------------------------------
(* Properties *)

\* The types of the variables; only a boot that opened a file gets anywhere.
TypeOK ==
    /\ slot \in CardSet /\ ready \in BOOLEAN /\ sdhc \in BOOLEAN
    /\ content \in [CardSet -> [Sectors -> {"kept", "erased", "size"}]]
    /\ vol \in [DOMAIN NoVol -> Nat]
    /\ logfile.card \in CardSet \cup {"none"} /\ logfile.dir_lba \in Nat
    /\ pc \in {"boot", "run", "halt"} /\ answer \in {"ok", "!"}
    /\ pc = "run" => logfile.card \in CardSet /\ vol # NoVol
    /\ excused \subseteq CardSet /\ commands \in 0 .. MaxCommands

\* vol is the layout of one card, never a mixture of two, through swaps and
\* mounts that fail; and after an "ok" it is that of the card that listens.
VolOfOneCard ==
    /\ vol \in {NoVol} \cup {Layout(c) : c \in {d \in CardSet : Formatted(d)}}
    /\ answer = "ok" /\ ready => vol = Layout(slot) /\ sdhc = (slot \in HighCapacity)

\* "MBR, BPB, and FAT regions are preserved", "The volume remains mountable"
\* (repl.c): a card keeps all before its data region, and one without FAT32
\* volume keeps everything, whatever was done to other cards before, unless it
\* was trimmed fuller, or trimmed after an init that answered "!", or synced
\* while the open file is another card's.
Structure(c) == {s \in Sectors : Formatted(c) => s < Layout(c).data_lba}
StructureKept ==
    \A c \in CardSet \ excused : \A s \in Structure(c) : content[c][s] = "kept"

=============================================================================
