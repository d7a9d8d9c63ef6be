------------------------------- MODULE CardsMC -------------------------------
(* Four cards for TLC: two volumes of different layout and address unit, a *)
(* FAT16 card, and one whose first FAT32 entry is empty.                   *)
EXTENDS Cards

Part(fat32, lba)  == [fat32 |-> fat32, lba_start |-> lba]
NoPart            == Part(FALSE, 0)
Fat(sz16, sz32, rsvd, spc, tot) ==
    [bytes_per_sec |-> 512, fat_sz16 |-> sz16, fat_sz32 |-> sz32, rsvd_sec |-> rsvd,
     num_fats |-> 2, root_clus |-> 2, sec_per_clus |-> spc, tot_sec32 |-> tot]

MCTable == [c \in CardSet |->
    CASE c = "high" -> <<Part(TRUE, 1), NoPart, NoPart, NoPart>>
      [] c = "low"  -> <<Part(FALSE, 1), Part(TRUE, 2), Part(TRUE, 1), NoPart>>
      [] c = "fat16" -> <<Part(TRUE, 1), NoPart, NoPart, NoPart>>
      [] OTHER      -> <<Part(TRUE, 0), Part(TRUE, 1), NoPart, NoPart>>]

MCBootSector == [c \in CardSet |->
    CASE c = "high" -> 1 :> Fat(0, 1, 1, 1, 6)
      [] c = "low"  -> 2 :> Fat(0, 1, 2, 2, 8)
      [] c = "fat16" -> 1 :> Fat(1, 0, 1, 1, 6)
      [] OTHER      -> 1 :> Fat(0, 1, 1, 1, 6)]

MCUsed == [c \in CardSet |-> {2}]

=============================================================================
