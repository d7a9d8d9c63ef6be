------------------------------- MODULE TrimFree -------------------------------
(***************************************************************************)
(* fat32_trim_free(): the FAT is read sector by sector, neighbouring free  *)
(* clusters are joined to a run, and each run is given to sd_erase() when  *)
(* it ends.  One step is one FAT entry.  The FAT is any function: it may   *)
(* have any clusters in use, and entries past the last cluster of the      *)
(* volume, which the code visits too.  The receive interrupt is off and    *)
(* sd_erase() does not touch the scratch, so the sector read stays.        *)
(* Sector numbers stay below 2^32, as on every card there is.              *)
(***************************************************************************)
EXTENDS Integers

CONSTANTS
    EPS,          \* FAT entries in a sector: 128 in the code
    FatSz,        \* vol.fat_sz32
    SecPerClus,   \* vol.sec_per_clus
    DataLba,      \* vol.data_lba
    MASK,         \* the bits of an entry above it are reserved: 2^28 in the code
    Values        \* what the FAT may hold

ASSUME GeometryAssumption == /\ EPS \in Nat \ {0} /\ FatSz \in Nat \ {0}
                             /\ SecPerClus \in Nat \ {0} /\ DataLba \in Nat
ASSUME ValuesAssumption == MASK \in Nat \ {0} /\ Values \subseteq Nat

VARIABLES
    fat,          \* the first FAT copy
    clus,         \* the entry to visit next
    in_run, run_start_lba, run_end_lba,
    calls,        \* the ranges given to sd_erase() so far
    pc            \* "scan", then "done" or "failed"

runVars == <<in_run, run_start_lba, run_end_lba>>
vars    == <<fat, clus, runVars, calls, pc>>

LastEntry == FatSz * EPS - 1
Entries   == 0 .. LastEntry
Clusters  == 2 .. LastEntry

\* clus_to_lba(), and the last sector of a cluster.
MutLbaFromThree(c) == DataLba + (c - 3) * SecPerClus
Lba(c) == DataLba + (c - 2) * SecPerClus

MutLastPlusOne(c) == Lba(c) + SecPerClus
LastLba(c) == Lba(c) + SecPerClus - 1

\* An entry is free whatever its reserved bits are.
Free(c) == fat[c] % MASK = 0

SectorRange(first, last) == [first |-> first, last |-> last]
Run == SectorRange(run_start_lba, run_end_lba)

Init ==
    /\ fat \in [Entries -> Values]
    /\ clus = 0
    /\ in_run = FALSE /\ run_start_lba = 0 /\ run_end_lba = 0
    /\ calls = {} /\ pc = "scan"

-----------------------------------------------------------------------------

\* (Names that start with Mut are mistakes one could make in the definition
\* that follows; each shows that a property notices it.)

Visit ==
    /\ pc = "scan" /\ clus <= LastEntry
    /\ clus' = clus + 1
    /\ UNCHANGED <<fat, pc>>

CloseRun ==
    /\ calls' = IF in_run THEN calls \cup {Run} ELSE calls
    /\ in_run' = FALSE
    /\ UNCHANGED <<run_start_lba, run_end_lba>>

\* Clusters 0 and 1 are reserved.
VisitReserved == Visit /\ clus < 2 /\ CloseRun

VisitUsed == Visit /\ clus >= 2 /\ ~ Free(clus) /\ CloseRun

Grow(adjacent) ==
    /\ Visit /\ clus >= 2 /\ Free(clus)
    /\ in_run' = TRUE
    /\ run_end_lba' = LastLba(clus)
    /\ IF in_run /\ adjacent
         THEN UNCHANGED <<run_start_lba, calls>>
         ELSE /\ run_start_lba' = Lba(clus)
              /\ calls' = IF in_run THEN calls \cup {Run} ELSE calls

MutEveryCluster == Grow(FALSE)

\* A free cluster opens a run, or extends the open one, or else replaces it.
VisitFree == Grow(Lba(clus) = run_end_lba + 1)

\* The next FAT sector cannot be read, because the card is still erasing for
\* one: the function returns without a look at the open run.
ReadFails ==
    /\ pc = "scan" /\ clus <= LastEntry /\ clus % EPS = 0
    /\ pc' = "failed"
    /\ UNCHANGED <<fat, clus, runVars, calls>>

MutFinishForgets ==
    /\ pc = "scan" /\ clus > LastEntry
    /\ pc' = "done"
    /\ UNCHANGED <<fat, clus, runVars, calls>>

\* The run that is open at the end of the FAT.
Finish ==
    /\ pc = "scan" /\ clus > LastEntry
    /\ calls' = IF in_run THEN calls \cup {Run} ELSE calls
    /\ pc' = "done"
    /\ UNCHANGED <<fat, clus, runVars>>

Next == VisitReserved \/ VisitUsed \/ VisitFree \/ ReadFails \/ Finish

Spec == Init /\ [][Next]_vars

-----------------------------------------------------------------------------
(* Properties *)

\* The types of the variables.
TypeOK ==
    /\ fat \in [Entries -> Values]
    /\ clus \in 0 .. LastEntry + 1
    /\ in_run \in BOOLEAN
    /\ run_start_lba \in Nat /\ run_end_lba \in Nat
    /\ in_run => DataLba <= run_start_lba /\ run_start_lba <= run_end_lba
    /\ pc \in {"scan", "done", "failed"}

\* "Does not modify the FAT or directory" (repl.c): no call of sd_erase() touches
\* a cluster in use, or a sector before the data region.  What lies past the
\* volume is touched where the entry past its last cluster reads 0, not else.
OnlyFreeErased ==
    \A r \in calls :
        /\ DataLba <= r.first /\ r.last < Lba(LastEntry + 1)
        /\ \A c \in Clusters : ~ Free(c) => r.last < Lba(c) \/ LastLba(c) < r.first

\* No free cluster is left out: those visited are erased, but for the run that
\* is open.  After a FAT sector that cannot be read that run is lost.
NothingSkipped ==
    \A c \in Clusters :
        c < clus /\ Free(c) =>
            \E r \in calls \cup (IF in_run /\ pc # "done" THEN {Run} ELSE {}) :
                r.first <= Lba(c) /\ LastLba(c) <= r.last

\* "coalescing minimises the number of erase commands" (repl.c): no two calls
\* overlap or could have been one.
FewestCalls ==
    \A r, s \in calls : r # s => r.last + 1 < s.first \/ s.last + 1 < r.first

=============================================================================
