----------------------------- MODULE Cards_proofs -----------------------------
(***************************************************************************)
(* Theorems about Cards, for any number of cards with any partition tables *)
(* and boot sectors, and any number of commands.                           *)
(*                                                                         *)
(* StructureKept needs to know where the three things a command uses come  *)
(* from: vol and the address unit are those of the card that listens if    *)
(* the last answer was "ok" (VolOfOneCard), and logfile.dir_lba lies in    *)
(* the data region of the card on which the file was opened (FileInv).     *)
(***************************************************************************)
EXTENDS Cards, TLAPS

Vols == [part_lba : Nat, fat_lba : Nat, fat_sz32 : Nat, num_fats : Nat,
         data_lba : Nat, root_clus : Nat, sec_per_clus : Nat, tot_sec : Nat]

SlotInv ==
    /\ slot \in CardSet /\ ready \in BOOLEAN /\ sdhc \in BOOLEAN
    /\ content \in [CardSet -> [Sectors -> {"kept", "erased", "size"}]]

PlaceInv ==
    /\ pc \in {"boot", "run", "halt"} /\ answer \in {"ok", "!"}
    /\ pc # "run" => answer = "!"
    /\ answer = "ok" /\ ready => Formatted(slot)

FileInv ==
    IF pc = "run" THEN /\ logfile.card \in CardSet /\ Formatted(logfile.card)
                       /\ logfile.dir_lba \in Nat
                       /\ Layout(logfile.card).data_lba <= logfile.dir_lba
                       /\ vol # NoVol
                  ELSE logfile = NoFile

CardsInv ==
    /\ SlotInv /\ PlaceInv /\ VolOfOneCard
    /\ excused \subseteq CardSet /\ commands \in 0 .. MaxCommands

-----------------------------------------------------------------------------
(* Layouts and addresses *)

\* The boot sector of a FAT32 card has numbers in its fields.
LEMMA LayoutType ==
    ASSUME NEW c \in CardSet, Formatted(c)
    PROVE  /\ Layout(c) \in Vols /\ Layout(c) # NoVol
           /\ Layout(c).root_clus >= 2 /\ Layout(c).sec_per_clus >= 1
  <1> DEFINE b == BootSector[c][PartLba(c)]
  <1>1. /\ PartLba(c) \in 1 .. LastSector
        /\ b \in [bytes_per_sec : Nat, fat_sz16 : Nat, fat_sz32 : Nat, rsvd_sec : Nat,
                  num_fats : Nat, root_clus : Nat \ {0, 1}, sec_per_clus : Nat \ {0},
                  tot_sec32 : Nat]
    BY CardsAssumption DEF Formatted
  <1>2. PartLba(c) \in Nat /\ PartLba(c) # 0
    BY <1>1, SizesAssumption
  <1>3. b.num_fats * b.fat_sz32 \in Nat
    <2>1. b.num_fats \in Nat /\ b.fat_sz32 \in Nat
      BY <1>1
    <2>2. QED BY <2>1
  <1>4. /\ b.rsvd_sec \in Nat /\ b.fat_sz32 \in Nat /\ b.num_fats \in Nat
        /\ b.root_clus \in Nat \ {0, 1} /\ b.sec_per_clus \in Nat \ {0} /\ b.tot_sec32 \in Nat
    BY <1>1
  <1>5. Layout(c) = VolOf(PartLba(c), b)
    BY DEF Layout
  <1> HIDE DEF b
  <1>6. /\ Layout(c) \in Vols /\ Layout(c).part_lba # 0
        /\ Layout(c).root_clus >= 2 /\ Layout(c).sec_per_clus >= 1
    BY <1>2, <1>3, <1>4, <1>5 DEF VolOf, Vols
  <1>7. QED BY <1>6 DEF NoVol

\* sd_lba_arg(): with the unit of the card in the slot, the sector meant is hit.
LEMMA HitExact ==
    ASSUME NEW lba \in Nat, sdhc = (slot \in HighCapacity)
    PROVE  Hit(lba) = lba
  <1>1. CASE sdhc
    BY <1>1 DEF Hit
  <1>2. CASE ~ sdhc
    <2>1. (lba * BYTES) \div BYTES = lba
      BY SizesAssumption
    <2>2. QED BY <1>2, <2>1 DEF Hit
  <1>3. QED BY <1>1, <1>2

-----------------------------------------------------------------------------
(* vol, the unit and the open file *)

\* Nothing is ready and nothing is open before the first boot.
LEMMA CardsInitially == Init => CardsInv /\ FileInv /\ StructureKept
  <1> SUFFICES ASSUME Init PROVE CardsInv /\ FileInv /\ StructureKept
    OBVIOUS
  <1>1. SlotInv
    BY DEF Init, SlotInv
  <1>2. PlaceInv /\ FileInv
    BY DEF Init, PlaceInv, FileInv
  <1>3. VolOfOneCard
    BY DEF Init, VolOfOneCard
  <1>4. excused \subseteq CardSet /\ commands \in 0 .. MaxCommands
    BY SizesAssumption DEF Init
  <1>5. StructureKept
    BY DEF Init, StructureKept, Structure
  <1>6. QED BY <1>1, <1>2, <1>3, <1>4, <1>5 DEF CardsInv

\* A mount that succeeds gives vol the layout of the card in the slot.
LEMMA MountType ==
    ASSUME SlotInv, Mount
    PROVE  Formatted(slot) /\ vol' = Layout(slot)
  BY DEF Mount, Mountable

\* Every step keeps vol the layout of one card, and after an "ok" of the card
\* that listens.
LEMMA CardsPreserved == CardsInv /\ [Next]_vars => CardsInv'
  <1> SUFFICES ASSUME CardsInv, [Next]_vars PROVE CardsInv'
    OBVIOUS
  <1> USE DEF CardsInv, SlotInv, PlaceInv
  <1> DEFINE Mounted == vol' = Layout(slot) /\ Formatted(slot)
  <1>03. ASSUME SdInit, Mounted, UNCHANGED slot
        PROVE  /\ VolOfOneCard' /\ (answer' = "ok" /\ ready' => Formatted(slot'))
               /\ ready' \in BOOLEAN /\ sdhc' \in BOOLEAN
    <2>1. vol' \in {Layout(c) : c \in {d \in CardSet : Formatted(d)}}
      BY <1>03
    <2>2. vol' = Layout(slot') /\ sdhc' = (slot' \in HighCapacity)
      BY <1>03 DEF SdInit, UnitRead
    <2>3. ready' \in BOOLEAN /\ sdhc' \in BOOLEAN
      BY <1>03 DEF SdInit, UnitRead
    <2>4. QED BY <1>03, <2>1, <2>2, <2>3 DEF VolOfOneCard
  <1>01. SdInitFails => ready' \in BOOLEAN /\ sdhc' \in BOOLEAN
    <2>1. CASE UnitRead
      BY <2>1 DEF SdInitFails, UnitRead
    <2>2. CASE UNCHANGED sdhc
      BY <2>2 DEF SdInitFails
    <2>3. QED BY <2>1, <2>2 DEF SdInitFails
  <1>02. UNCHANGED vol /\ answer' = "!" => VolOfOneCard'
    BY DEF VolOfOneCard
  <1>1. CASE Boot
    <2>1. SdInit /\ Mounted
      BY <1>1, MountType DEF Boot
    <2>2. UNCHANGED <<slot, content, excused, commands>> /\ pc' = "run" /\ answer' = "ok"
      BY <1>1 DEF Boot
    <2>3. QED BY <1>03, <2>1, <2>2
  <1>2. CASE BootFails
    <2>1. CASE SdInitFails /\ UNCHANGED vol
      BY <1>2, <2>1, <1>01, <1>02 DEF BootFails
    <2>2. CASE SdInit /\ MountFails
      BY <1>2, <2>2 DEF BootFails, SdInit, UnitRead, MountFails, VolOfOneCard
    <2>3. CASE SdInit /\ Mount
      BY <1>2, <2>3, <1>03, MountType DEF BootFails
    <2>4. QED BY <1>2, <2>1, <2>2, <2>3 DEF BootFails
  <1>3. CASE Reset
    BY <1>3 DEF Reset, VolOfOneCard
  <1>4. CASE Swap
    BY <1>4 DEF Swap, progVars, VolOfOneCard
  <1>5. CASE CmdInit
    <2>1. SdInit /\ Mounted
      BY <1>5, MountType DEF CmdInit
    <2>2. UNCHANGED <<slot, content, excused, commands, pc>> /\ pc = "run" /\ answer' = "ok"
      BY <1>5 DEF CmdInit
    <2>3. QED BY <1>03, <2>1, <2>2
  <1>6. CASE CmdInitFails
    <2>1. CASE SdInitFails /\ UNCHANGED vol
      BY <1>6, <2>1, <1>01, <1>02 DEF CmdInitFails
    <2>2. CASE SdInit /\ MountFails
      BY <1>6, <2>2 DEF CmdInitFails, SdInit, UnitRead, MountFails, VolOfOneCard
    <2>3. QED BY <1>6, <2>1, <2>2 DEF CmdInitFails
  <1>7. ASSUME NEW sectors, NEW change \in {"erased", "size"}, NEW excuse \in BOOLEAN,
               Command(sectors, change, excuse)
        PROVE  CardsInv'
    <2>1. content' \in [CardSet -> [Sectors -> {"kept", "erased", "size"}]]
      BY <1>7 DEF Command
    <2>2. excused' \subseteq CardSet
      BY <1>7 DEF Command
    <2>3. commands' \in 0 .. MaxCommands
      BY <1>7, SizesAssumption DEF Command
    <2>4. UNCHANGED <<slot, ready, sdhc, vol, pc, answer>>
      BY <1>7 DEF Command, progVars
    <2>5. QED BY <2>1, <2>2, <2>3, <2>4 DEF VolOfOneCard
  <1>8. CASE CmdSync
    BY <1>7, <1>8 DEF CmdSync
  <1>9. CASE CmdTrimFree
    BY <1>7, <1>9 DEF CmdTrimFree, Erase
  <1>10. CASE CmdTrimFull
    BY <1>7, <1>10 DEF CmdTrimFull, Erase
  <1>11. CASE CmdTrimFuller
    BY <1>7, <1>11 DEF CmdTrimFuller, Erase
  <1>12. CASE UNCHANGED vars
    BY <1>12 DEF vars, progVars, VolOfOneCard
  <1>13. QED
    BY <1>1, <1>2, <1>3, <1>4, <1>5, <1>6, <1>8, <1>9, <1>10, <1>11, <1>12 DEF Next

\* The open file's directory entry is in the data region of its own card.
LEMMA FilePreserved == CardsInv /\ FileInv /\ [Next]_vars => FileInv'
  <1> SUFFICES ASSUME CardsInv, FileInv, [Next]_vars PROVE FileInv'
    OBVIOUS
  <1> USE DEF FileInv
  <1>1. CASE Boot
    <2>1. Formatted(slot) /\ vol' = Layout(slot) /\ slot \in CardSet
      BY <1>1, MountType DEF Boot, CardsInv, SlotInv
    <2>2. vol' \in Vols /\ vol' # NoVol /\ vol'.root_clus >= 2 /\ vol'.sec_per_clus >= 1
      BY <2>1, LayoutType
    <2>3. PICK s \in 0 .. vol'.sec_per_clus - 1 :
              logfile' = [card |-> slot, dir_lba |-> RootDir + s]
      BY <1>1 DEF Boot
    <2>4. /\ vol'.data_lba \in Nat /\ vol'.root_clus - 2 \in Nat /\ vol'.sec_per_clus \in Nat
          /\ s \in Nat
      BY <2>2, <2>3 DEF Vols
    <2>5. (vol'.root_clus - 2) * vol'.sec_per_clus \in Nat
      BY <2>4
    <2>6. RootDir + s \in Nat /\ vol'.data_lba <= RootDir + s
      BY <2>4, <2>5 DEF RootDir
    <2>7. pc' = "run" /\ logfile'.card = slot /\ logfile'.dir_lba = RootDir + s
      BY <1>1, <2>3 DEF Boot
    <2>8. QED BY <2>1, <2>2, <2>6, <2>7
  <1>2. CASE BootFails
    BY <1>2 DEF BootFails
  <1>3. CASE Reset
    BY <1>3 DEF Reset
  <1>4. CASE Swap
    BY <1>4 DEF Swap, progVars
  <1>5. CASE CmdInit
    <2>1. vol' # NoVol
      BY <1>5, MountType, LayoutType DEF CmdInit, CardsInv, SlotInv
    <2>2. QED BY <1>5, <2>1 DEF CmdInit
  <1>6. CASE CmdInitFails
    BY <1>6 DEF CmdInitFails, MountFails
  <1>7. ASSUME UNCHANGED progVars PROVE FileInv'
    BY <1>7 DEF progVars
  <1>8. CASE CmdSync \/ CmdTrimFree \/ CmdTrimFull \/ CmdTrimFuller
    BY <1>7, <1>8 DEF CmdSync, CmdTrimFree, CmdTrimFull, CmdTrimFuller, Erase, Command
  <1>9. CASE UNCHANGED vars
    BY <1>7, <1>9 DEF vars
  <1>10. QED BY <1>1, <1>2, <1>3, <1>4, <1>5, <1>6, <1>8, <1>9 DEF Next

-----------------------------------------------------------------------------
(* What the commands change *)

\* A command that names sectors of the data region only, or gives the card up,
\* leaves what comes before the data region alone.
LEMMA CommandKeeps ==
    ASSUME SlotInv, StructureKept,
           NEW first \in Nat, NEW last, NEW change, NEW excuse \in BOOLEAN,
           Command(first .. last, change, excuse),
           ready /\ ~ excuse => Formatted(slot) /\ Layout(slot).data_lba <= first
    PROVE  StructureKept'
  <1> SUFFICES ASSUME NEW c \in CardSet, c \notin excused', NEW s \in Structure(c)
               PROVE  content'[c][s] = "kept"
    BY DEF StructureKept
  <1>1. c \notin excused /\ (excuse => c # slot)
    BY DEF Command, SlotInv
  <1>2. content[c][s] = "kept" /\ s \in Sectors
    BY <1>1 DEF StructureKept, Structure
  <1>3. CASE content' = content
    BY <1>2, <1>3
  <1>4. CASE c # slot
    BY <1>2, <1>4 DEF Command, SlotInv
  <1>5. CASE content' # content /\ c = slot
    <2>1. ready /\ ~ excuse
      BY <1>1, <1>5 DEF Command
    <2>2. Layout(c) \in Vols /\ Formatted(c)
      BY <1>5, <2>1, LayoutType
    <2>3. s < Layout(c).data_lba /\ Layout(c).data_lba \in Nat /\ s \in Nat
      BY <2>2 DEF Structure, Vols, Sectors
    <2>4. s \notin first .. last
      BY <1>5, <2>1, <2>3
    <2>5. content'[c][s] = content[c][s]
      BY <1>2, <1>5, <2>4 DEF Command, SlotInv
    <2>6. QED BY <1>2, <2>5
  <1>6. QED BY <1>3, <1>4, <1>5

\* Every step keeps the structure of every card that was not given up.
LEMMA StructurePreserved ==
    CardsInv /\ FileInv /\ StructureKept /\ [Next]_vars => StructureKept'
  <1> SUFFICES ASSUME CardsInv, FileInv, StructureKept, [Next]_vars PROVE StructureKept'
    OBVIOUS
  <1>1. ASSUME UNCHANGED <<content, excused>> PROVE StructureKept'
    BY <1>1 DEF StructureKept
  <1>2. CASE Boot \/ BootFails \/ Reset \/ Swap \/ CmdInit \/ CmdInitFails \/ UNCHANGED vars
    BY <1>1, <1>2 DEF Boot, BootFails, Reset, Swap, CmdInit, CmdInitFails, vars
  <1>3. SlotInv /\ PlaceInv /\ (vol \in Vols)
    BY LayoutType DEF CardsInv, VolOfOneCard, NoVol, Vols
  <1>4. answer = "ok" /\ ready => /\ Formatted(slot) /\ vol = Layout(slot)
                                  /\ \A lba \in Nat : Hit(lba) = lba
    BY <1>3, HitExact DEF PlaceInv, CardsInv, VolOfOneCard
  <1>5. Hit(0) = 0 /\ \A lba \in Nat : Hit(lba) \in Nat
    BY SizesAssumption DEF Hit
  <1>6. answer # "!" => answer = "ok"
    BY <1>3 DEF PlaceInv
  <1>7. CASE CmdSync
    <2> DEFINE excuse == answer = "!" \/ logfile.card # slot
    <2>1. pc = "run" /\ logfile.dir_lba \in Nat
      BY <1>7 DEF CmdSync, Command, FileInv
    <2>2. Hit(logfile.dir_lba) \in Nat
      BY <1>5, <2>1
    <2>3. {Hit(logfile.dir_lba)} = Hit(logfile.dir_lba) .. Hit(logfile.dir_lba)
      BY <2>2
    <2>4. Command(Hit(logfile.dir_lba) .. Hit(logfile.dir_lba), "size", excuse)
      BY <1>7, <2>3 DEF CmdSync
    <2>5. ready /\ ~ excuse => Formatted(slot) /\ Layout(slot).data_lba <= Hit(logfile.dir_lba)
      BY <1>4, <1>6, <2>1 DEF FileInv
    <2>6. excuse \in BOOLEAN
      OBVIOUS
    <2> HIDE DEF excuse
    <2>7. QED BY <1>3, <2>2, <2>4, <2>5, <2>6, CommandKeeps
  <1> DEFINE warned == answer = "!"
  <1>8. ASSUME NEW first \in Nat, NEW last, Erase(first, last, warned),
               vol.data_lba <= first
        PROVE  StructureKept'
    <2>1. Command(Hit(first) .. Hit(last), "erased", warned)
      BY <1>8 DEF Erase
    <2>2. ready /\ ~ warned => Formatted(slot) /\ Layout(slot).data_lba <= Hit(first)
      BY <1>4, <1>6, <1>8
    <2>3. Hit(first) \in Nat /\ warned \in BOOLEAN
      BY <1>5
    <2> HIDE DEF warned
    <2>4. QED BY <1>3, <2>1, <2>2, <2>3, CommandKeeps
  <1>9. CASE CmdTrimFree
    <2>1. PICK c, d \in 2 .. vol.fat_sz32 * EPS - 1 : Erase(Lba(c), Lba(d + 1) - 1, warned)
      BY <1>9 DEF CmdTrimFree
    <2>2. c - 2 \in Nat /\ vol.sec_per_clus \in Nat /\ vol.data_lba \in Nat
      BY <1>3 DEF Vols
    <2>3. (c - 2) * vol.sec_per_clus \in Nat
      BY <2>2
    <2>4. Lba(c) \in Nat /\ vol.data_lba <= Lba(c)
      BY <2>2, <2>3 DEF Lba
    <2>5. QED BY <1>8, <2>1, <2>4
  <1>10. CASE CmdTrimFull
    <2>1. vol.data_lba \in Nat
      BY <1>3 DEF Vols
    <2>2. QED BY <1>8, <1>10, <2>1 DEF CmdTrimFull
  <1>11. CASE CmdTrimFuller
    <2>1. Command(0 .. Hit(EndLba), "erased", TRUE)
      BY <1>5, <1>11 DEF CmdTrimFuller, Erase
    <2>2. QED BY <1>3, <2>1, CommandKeeps
  <1>12. QED BY <1>2, <1>7, <1>9, <1>10, <1>11 DEF Next

-----------------------------------------------------------------------------
(* The properties *)

\* The invariant behind the three theorems that follow.
THEOREM CardsInvariant == Spec => [](CardsInv /\ FileInv)
  <1>1. QED BY CardsInitially, CardsPreserved, FilePreserved, PTL DEF Spec

\* The variables keep their types, and only a boot that mounted a volume and
\* opened a file on it leads to the prompt.
THEOREM TypeCorrect == Spec => []TypeOK
  <1>1. CardsInv /\ FileInv => TypeOK
    <2> SUFFICES ASSUME CardsInv, FileInv PROVE TypeOK
      OBVIOUS
    <2>1. vol \in Vols
      BY LayoutType DEF CardsInv, VolOfOneCard, NoVol, Vols
    <2>2. vol \in [DOMAIN NoVol -> Nat]
      BY <2>1 DEF Vols, NoVol
    <2>3. QED BY <2>2 DEF CardsInv, FileInv, SlotInv, PlaceInv, TypeOK, NoFile
  <1>2. QED BY <1>1, CardsInvariant, PTL

\* fat32_mount() never leaves vol a mixture of two layouts, and after an "ok"
\* layout and address unit are those of the card that listens.
THEOREM VolOfOneCardCorrect == Spec => []VolOfOneCard
  <1>1. CardsInv => VolOfOneCard
    BY DEF CardsInv
  <1>2. QED BY <1>1, CardsInvariant, PTL

\* trim free, trim full and sync, with any cards swapped at any time, do not
\* touch boot sectors and FAT of a card unless a "!" or a foreign file was
\* ignored.
THEOREM StructureKeptCorrect == Spec => []StructureKept
  <1>1. QED
    BY CardsInvariant, CardsInitially, StructurePreserved, PTL DEF Spec

=============================================================================
