---------------------------- MODULE TrimFree_proofs ----------------------------
(***************************************************************************)
(* Theorems about TrimFree, for every FAT, every number of entries in a    *)
(* sector and of sectors in the FAT and in a cluster.                      *)
(*                                                                         *)
(* The properties follow from what a range given to sd_erase() is: the     *)
(* sectors of a maximal run of free clusters.  RunsInv says so, and says   *)
(* what the open run is; it is inductive.                                  *)
(***************************************************************************)
EXTENDS TrimFree, TLAPS

AllFree(a, b) == \A c \in a .. b : Free(c)
Starts(a)     == a = 2 \/ ~ Free(a - 1)

\* The open run reaches from a cluster after a used one up to the last visited.
OpenInv ==
    in_run => \E a \in Clusters :
        /\ a < clus /\ AllFree(a, clus - 1) /\ Starts(a)
        /\ run_start_lba = Lba(a) /\ run_end_lba = LastLba(clus - 1)

\* Clusters a to b are a maximal run among the clusters before n.
Maximal(a, b, n) ==
    /\ a <= b /\ b < n /\ AllFree(a, b) /\ Starts(a)
    /\ b = LastEntry \/ (b + 1 < n /\ ~ Free(b + 1))

CallsInv ==
    \A r \in calls : \E a, b \in Clusters :
        Maximal(a, b, clus) /\ r = SectorRange(Lba(a), LastLba(b))

\* No run is open only after a used cluster, or at the start.
GapInv == ~ in_run /\ 2 < clus => ~ Free(clus - 1)

RunsInv ==
    /\ clus \in 0 .. LastEntry + 1 /\ in_run \in BOOLEAN
    /\ pc \in {"scan", "done", "failed"}
    /\ pc = "done" => clus = LastEntry + 1
    /\ OpenInv /\ GapInv /\ CallsInv

-----------------------------------------------------------------------------
(* Arithmetic *)

\* The sizes are numbers.
LEMMA SizesType == LastEntry \in Nat /\ SecPerClus \in Nat /\ SecPerClus > 0 /\ DataLba \in Nat
  <1>1. FatSz * EPS \in Nat /\ FatSz * EPS > 0
    <2>1. FatSz \in Nat /\ EPS \in Nat /\ FatSz >= 1 /\ EPS >= 1
      BY GeometryAssumption
    <2>2. QED BY <2>1
  <1>2. QED BY <1>1, GeometryAssumption DEF LastEntry

\* More clusters are at least as many sectors.
LEMMA ProductMonotone ==
    ASSUME NEW x \in Int, NEW y \in Int, NEW k \in Nat, x <= y
    PROVE  x * k <= y * k
  <1>1. (y - x) * k >= 0
    OBVIOUS
  <1>2. (y - x) * k = y * k - x * k
    OBVIOUS
  <1>3. QED BY <1>1, <1>2

\* A cluster has a first and a last sector, in that order.
LEMMA LbaType ==
    ASSUME NEW c \in Int
    PROVE  Lba(c) \in Int /\ LastLba(c) \in Int /\ Lba(c) <= LastLba(c)
  BY SizesType DEF Lba, LastLba

\* clus_to_lba(): neighbouring clusters have neighbouring sectors.
LEMMA LbaNext ==
    ASSUME NEW c \in Int
    PROVE  Lba(c) = LastLba(c - 1) + 1 /\ Lba(c + 1) = LastLba(c) + 1
  <1> DEFINE k == SecPerClus
  <1>1. k \in Int
    BY SizesType
  <1> HIDE DEF k
  <1>2. (c - 1 - 2) * k + k = (c - 2) * k /\ (c + 1 - 2) * k = (c - 2) * k + k
    BY <1>1
  <1>3. (c - 1 - 2) * SecPerClus + SecPerClus = (c - 2) * SecPerClus
        /\ (c + 1 - 2) * SecPerClus = (c - 2) * SecPerClus + SecPerClus
    BY <1>2 DEF k
  <1>4. QED BY <1>3, SizesType DEF Lba, LastLba

\* clus_to_lba(): clusters in order have their sectors in order.
LEMMA LbaOrder ==
    ASSUME NEW b \in Int, NEW c \in Int, b < c
    PROVE  LastLba(b) < Lba(c) /\ Lba(b) < Lba(c) /\ LastLba(b) <= LastLba(c)
  <1>1. (b + 1 - 2) * SecPerClus <= (c - 2) * SecPerClus
    BY ProductMonotone, SizesType
  <1>2. Lba(b + 1) <= Lba(c)
    BY <1>1, SizesType DEF Lba
  <1>3. QED BY <1>2, LbaNext, LbaType

\* clus_to_lba(): no cluster starts before the data region.
LEMMA LbaFirst == \A c \in Clusters : DataLba <= Lba(c)
  <1> SUFFICES ASSUME NEW c \in Clusters PROVE DataLba <= Lba(c)
    OBVIOUS
  <1>1. c \in Int /\ 2 <= c
    BY SizesType DEF Clusters
  <1>2. 0 * SecPerClus <= (c - 2) * SecPerClus
    BY <1>1, ProductMonotone, SizesType
  <1>3. QED BY <1>1, <1>2, SizesType DEF Lba

-----------------------------------------------------------------------------
(* The invariant *)

\* Handing the open run to sd_erase() adds a maximal run, if what comes next is
\* a used cluster or the end of the FAT.
LEMMA ClosedRunMaximal ==
    ASSUME RunsInv, in_run
    PROVE  /\ ~ Free(clus) => \E a, b \in Clusters :
                  Maximal(a, b, clus + 1) /\ Run = SectorRange(Lba(a), LastLba(b))
           /\ clus = LastEntry + 1 => \E a, b \in Clusters :
                  Maximal(a, b, clus) /\ Run = SectorRange(Lba(a), LastLba(b))
  <1>1. PICK a \in Clusters :
           /\ a < clus /\ AllFree(a, clus - 1) /\ Starts(a)
           /\ run_start_lba = Lba(a) /\ run_end_lba = LastLba(clus - 1)
    BY DEF RunsInv, OpenInv
  <1>2. clus \in Int /\ a \in Int /\ 2 <= a /\ clus <= LastEntry + 1 /\ LastEntry \in Int
    BY SizesType DEF RunsInv, Clusters
  <1>3. clus - 1 \in Clusters
    BY <1>1, <1>2 DEF Clusters
  <1>4. clus - 1 + 1 = clus
    BY <1>2
  <1>5. /\ ~ Free(clus) => Maximal(a, clus - 1, clus + 1)
        /\ clus = LastEntry + 1 => Maximal(a, clus - 1, clus)
    BY <1>1, <1>2, <1>4 DEF Maximal
  <1>6. Run = SectorRange(Lba(a), LastLba(clus - 1))
    BY <1>1 DEF Run
  <1>7. QED BY <1>3, <1>5, <1>6

\* What was maximal among the clusters visited stays so.
LEMMA MaximalStays ==
    ASSUME NEW a \in Clusters, NEW b \in Clusters, NEW m \in Int, NEW n \in Int, m <= n,
           Maximal(a, b, m)
    PROVE  Maximal(a, b, n)
  BY SizesType DEF Maximal, Clusters

\* Before the first entry there are no runs.
LEMMA RunsInitially == Init => RunsInv
  <1> SUFFICES ASSUME Init PROVE RunsInv
    OBVIOUS
  <1>1. clus = 0 /\ in_run = FALSE /\ calls = {} /\ pc = "scan"
    BY DEF Init
  <1>2. clus \in 0 .. LastEntry + 1
    BY <1>1, SizesType
  <1>3. OpenInv /\ GapInv /\ CallsInv
    BY <1>1 DEF OpenInv, GapInv, CallsInv
  <1>4. QED BY <1>1, <1>2, <1>3 DEF RunsInv

\* Every entry visited keeps the ranges and the open run maximal runs.
LEMMA RunsPreserved == RunsInv /\ [Next]_vars => RunsInv'
  <1> SUFFICES ASSUME RunsInv, [Next]_vars PROVE RunsInv'
    OBVIOUS
  <1>0. clus \in Int /\ 0 <= clus /\ clus <= LastEntry + 1 /\ LastEntry \in Int
    BY SizesType DEF RunsInv
  <1>a. ASSUME Visit
        PROVE  /\ clus' \in 0 .. LastEntry + 1 /\ pc' \in {"scan", "done", "failed"}
               /\ pc' = "done" => clus' = LastEntry + 1
               /\ clus' = clus + 1 /\ clus <= LastEntry
    BY <1>a, <1>0 DEF Visit
  <1>b. ASSUME Visit, (clus < 2 /\ ~ in_run) \/ ~ Free(clus), CloseRun
        PROVE  RunsInv'
    <2>1. ASSUME NEW r \in calls'
          PROVE  \E a, b \in Clusters :
                    Maximal(a, b, clus + 1) /\ r = SectorRange(Lba(a), LastLba(b))
      <3>1. CASE r \in calls
        <4>1. PICK a \in Clusters, b \in Clusters :
                 Maximal(a, b, clus) /\ r = SectorRange(Lba(a), LastLba(b))
          BY <3>1 DEF RunsInv, CallsInv
        <4>2. Maximal(a, b, clus + 1)
          BY <4>1, <1>0, MaximalStays
        <4>3. QED BY <4>1, <4>2
      <3>2. CASE r \notin calls
        <4>1. in_run /\ r = Run /\ ~ Free(clus)
          BY <3>2, <2>1, <1>b DEF CloseRun
        <4>2. QED BY <4>1, ClosedRunMaximal
      <3>3. QED BY <3>1, <3>2
    <2>2. CallsInv'
      BY <2>1, <1>a, <1>b DEF CallsInv, Visit, Maximal, AllFree, Starts, Free, Lba, LastLba, SectorRange
    <2>3. in_run' = FALSE
      BY <1>b DEF CloseRun
    <2>4. GapInv'
      BY <1>a, <1>b, <1>0 DEF GapInv, Free, Visit
    <2>5. QED BY <2>2, <2>3, <2>4, <1>a, <1>b DEF RunsInv, OpenInv
  <1>1. CASE VisitReserved
    <2>1. ~ in_run
      BY <1>1, <1>0 DEF VisitReserved, RunsInv, OpenInv, Clusters
    <2>2. Visit /\ CloseRun /\ clus < 2
      BY <1>1 DEF VisitReserved
    <2>3. QED BY <2>1, <2>2, <1>b
  <1>2. CASE VisitUsed
    BY <1>2, <1>b DEF VisitUsed
  <1>3. CASE VisitFree
    <2>1. /\ Visit /\ clus >= 2 /\ Free(clus) /\ in_run' = TRUE
          /\ run_end_lba' = LastLba(clus) /\ fat' = fat
      BY <1>3 DEF VisitFree, Grow, Visit
    <2>2. clus \in Clusters
      BY <2>1, <1>a, <1>0 DEF Clusters
    <2>3. in_run => Lba(clus) = run_end_lba + 1
      BY <1>0, LbaNext DEF RunsInv, OpenInv
    <2>4. calls' = calls /\ run_start_lba' = IF in_run THEN run_start_lba ELSE Lba(clus)
      BY <1>3, <2>3 DEF VisitFree, Grow
    <2>5. \E a \in Clusters :
             /\ a < clus + 1 /\ AllFree(a, clus) /\ Starts(a)
             /\ run_start_lba' = Lba(a)
      <3>1. CASE in_run
        <4>1. PICK a \in Clusters :
                 /\ a < clus /\ AllFree(a, clus - 1) /\ Starts(a) /\ run_start_lba = Lba(a)
          BY <3>1 DEF RunsInv, OpenInv
        <4>2. a \in Int
          BY <1>0 DEF Clusters
        <4>3. AllFree(a, clus)
          BY <4>1, <4>2, <2>1, <1>0 DEF AllFree
        <4>4. QED BY <4>1, <4>2, <4>3, <3>1, <2>4, <1>0
      <3>2. CASE ~ in_run
        <4>1. Starts(clus)
          BY <3>2, <2>1, <1>0 DEF Starts, GapInv, RunsInv
        <4>2. AllFree(clus, clus)
          BY <2>1, <1>0 DEF AllFree
        <4>3. QED BY <4>1, <4>2, <3>2, <2>4, <2>2, <1>0
      <3>3. QED BY <3>1, <3>2
    <2>6. clus' - 1 = clus /\ clus' = clus + 1
      BY <2>1, <1>a, <1>0
    <2>7. OpenInv' /\ GapInv'
      BY <2>1, <2>5, <2>6 DEF OpenInv, GapInv, AllFree, Starts, Free, Lba, LastLba
    <2>8. ASSUME NEW r \in calls
          PROVE  \E a, b \in Clusters :
                    Maximal(a, b, clus + 1) /\ r = SectorRange(Lba(a), LastLba(b))
      <3>1. PICK a \in Clusters, b \in Clusters :
               Maximal(a, b, clus) /\ r = SectorRange(Lba(a), LastLba(b))
        BY DEF RunsInv, CallsInv
      <3>2. Maximal(a, b, clus + 1)
        BY <3>1, <1>0, MaximalStays
      <3>3. QED BY <3>1, <3>2
    <2>9. CallsInv'
      BY <2>1, <2>4, <2>6, <2>8 DEF CallsInv, Maximal, AllFree, Starts, Free, Lba, LastLba, SectorRange
    <2>10. QED BY <2>1, <2>7, <2>9, <1>a DEF RunsInv
  <1>4. CASE ReadFails
    BY <1>4 DEF ReadFails, runVars, RunsInv, OpenInv, GapInv, CallsInv, Maximal, AllFree, Starts, Free,
                Lba, LastLba, SectorRange
  <1>5. CASE Finish
    <2>1. /\ clus = LastEntry + 1 /\ UNCHANGED <<fat, clus, runVars>> /\ pc' = "done"
          /\ calls' = IF in_run THEN calls \cup {Run} ELSE calls
      BY <1>5, <1>0 DEF Finish
    <2>2. ASSUME NEW r \in calls'
          PROVE  \E a, b \in Clusters :
                    Maximal(a, b, clus) /\ r = SectorRange(Lba(a), LastLba(b))
      <3>1. CASE r \in calls
        BY <3>1 DEF RunsInv, CallsInv
      <3>2. CASE r \notin calls
        <4>1. in_run /\ r = Run
          BY <3>2, <2>1, <2>2
        <4>2. QED BY <4>1, <2>1, ClosedRunMaximal
      <3>3. QED BY <3>1, <3>2
    <2>3. CallsInv'
      BY <2>1, <2>2 DEF CallsInv, Maximal, AllFree, Starts, Free, Lba, LastLba, SectorRange
    <2>4. OpenInv' /\ GapInv'
      BY <2>1 DEF RunsInv, runVars, OpenInv, GapInv, AllFree, Starts, Free, Lba, LastLba
    <2>5. QED BY <2>1, <2>3, <2>4 DEF RunsInv, runVars
  <1>6. CASE UNCHANGED vars
    BY <1>6 DEF vars, runVars, RunsInv, OpenInv, GapInv, CallsInv, Maximal, AllFree, Starts, Free,
                Lba, LastLba, SectorRange
  <1>7. QED BY <1>1, <1>2, <1>3, <1>4, <1>5, <1>6 DEF Next

\* What fat32_trim_free() gives to sd_erase() are maximal runs of free clusters.
THEOREM RunsInvariant == Spec => []RunsInv
  <1>1. QED BY RunsInitially, RunsPreserved, PTL DEF Spec

-----------------------------------------------------------------------------
(* The properties *)

\* The variables of the scan keep their types.
THEOREM TypeCorrect == Spec => []TypeOK
  <1>1. Init => TypeOK
    <2> SUFFICES ASSUME Init PROVE TypeOK
      OBVIOUS
    <2>1. clus \in 0 .. LastEntry + 1
      BY SizesType DEF Init
    <2>2. QED BY <2>1 DEF Init, TypeOK
  <1>2. TypeOK /\ RunsInv /\ RunsInv' /\ [Next]_vars => TypeOK'
    <2> SUFFICES ASSUME TypeOK, RunsInv, RunsInv', [Next]_vars PROVE TypeOK'
      OBVIOUS
    <2>1. fat' = fat
      BY DEF Next, VisitReserved, VisitUsed, VisitFree, Grow, Visit, ReadFails, Finish, vars
    <2>2. in_run' => /\ run_start_lba' \in Nat /\ run_end_lba' \in Nat
                     /\ DataLba <= run_start_lba' /\ run_start_lba' <= run_end_lba'
      <3> SUFFICES ASSUME in_run' PROVE /\ run_start_lba' \in Nat /\ run_end_lba' \in Nat
                     /\ DataLba <= run_start_lba' /\ run_start_lba' <= run_end_lba'
        OBVIOUS
      <3>1. PICK a \in Clusters : /\ a < clus'
                                  /\ run_start_lba' = Lba(a)
                                  /\ run_end_lba' = LastLba(clus' - 1)
        BY DEF RunsInv, OpenInv, Lba, LastLba
      <3>2. a \in Int /\ clus' - 1 \in Int /\ a <= clus' - 1
        <4>1. clus' \in 0 .. LastEntry + 1
          BY DEF RunsInv, LastEntry
        <4>2. clus' \in Int
          BY <4>1, SizesType
        <4>3. a \in Int
          BY SizesType DEF Clusters
        <4>4. a < clus'
          BY <3>1
        <4>5. \A m, n \in Int : m < n => n - 1 \in Int /\ m <= n - 1
          OBVIOUS
        <4>6. QED BY <4>2, <4>3, <4>4, <4>5
      <3>3. DataLba <= Lba(a) /\ Lba(a) <= LastLba(clus' - 1)
            /\ Lba(a) \in Int /\ LastLba(clus' - 1) \in Int
        <4>1. a = clus' - 1 \/ a < clus' - 1
          BY <3>2
        <4>2. LastLba(a) <= LastLba(clus' - 1)
          BY <4>1, <3>2, LbaOrder, LbaType
        <4>3. QED BY <4>2, <3>2, LbaType, LbaFirst, SizesType
      <3>4. QED BY <3>1, <3>3, SizesType
    <2>3. ~ in_run' => run_start_lba' \in Nat /\ run_end_lba' \in Nat
      BY DEF Next, VisitReserved, VisitUsed, VisitFree, Grow, Visit, CloseRun, ReadFails, Finish,
             vars, runVars, TypeOK
    <2>4. QED BY <2>1, <2>2, <2>3 DEF TypeOK, RunsInv, Entries
  <1>3. QED BY <1>1, <1>2, RunsInvariant, PTL DEF Spec

\* sd_erase() is never asked for a sector of a cluster in use, nor for one that
\* belongs to the boot sectors or to the FAT.
THEOREM OnlyFreeErasedCorrect == Spec => []OnlyFreeErased
  <1>1. RunsInv => OnlyFreeErased
    <2> SUFFICES ASSUME RunsInv, NEW r \in calls
                 PROVE  /\ DataLba <= r.first /\ r.last < Lba(LastEntry + 1)
                        /\ \A c \in Clusters : ~ Free(c) => r.last < Lba(c) \/ LastLba(c) < r.first
      BY DEF OnlyFreeErased
    <2>1. PICK a \in Clusters, b \in Clusters :
             Maximal(a, b, clus) /\ r = SectorRange(Lba(a), LastLba(b))
      BY DEF RunsInv, CallsInv
    <2>2. r.first = Lba(a) /\ r.last = LastLba(b)
      BY <2>1 DEF SectorRange
    <2>3. a \in Int /\ b \in Int /\ b < LastEntry + 1 /\ LastEntry + 1 \in Int
      BY SizesType DEF Clusters
    <2>4. DataLba <= r.first /\ r.last < Lba(LastEntry + 1)
      BY <2>2, <2>3, LbaFirst, LbaOrder
    <2>5. ASSUME NEW c \in Clusters, ~ Free(c)
          PROVE  r.last < Lba(c) \/ LastLba(c) < r.first
      <3>1. c \in Int
        BY SizesType DEF Clusters
      <3>2. c < a \/ b < c
        BY <2>1, <2>3, <2>5, <3>1 DEF Maximal, AllFree
      <3>3. QED BY <2>2, <2>3, <3>1, <3>2, LbaOrder
    <2>6. QED BY <2>4, <2>5
  <1>2. QED BY <1>1, RunsInvariant, PTL

\* Two ranges given to sd_erase() neither overlap nor touch.
THEOREM FewestCallsCorrect == Spec => []FewestCalls
  <1>1. RunsInv => FewestCalls
    <2> SUFFICES ASSUME RunsInv, NEW r \in calls, NEW s \in calls, r # s
                 PROVE  r.last + 1 < s.first \/ s.last + 1 < r.first
      BY DEF FewestCalls
    <2>1. PICK a \in Clusters, b \in Clusters :
             Maximal(a, b, clus) /\ r = SectorRange(Lba(a), LastLba(b))
      BY DEF RunsInv, CallsInv
    <2>2. PICK c \in Clusters, d \in Clusters :
             Maximal(c, d, clus) /\ s = SectorRange(Lba(c), LastLba(d))
      BY DEF RunsInv, CallsInv
    <2>3. /\ a \in Int /\ b \in Int /\ c \in Int /\ d \in Int /\ LastEntry \in Int
          /\ 2 <= a /\ 2 <= c /\ b <= LastEntry /\ d <= LastEntry
      BY SizesType DEF Clusters
    <2>4. /\ r.first = Lba(a) /\ r.last = LastLba(b)
          /\ s.first = Lba(c) /\ s.last = LastLba(d)
      BY <2>1, <2>2 DEF SectorRange
    <2>5. CASE b < c
      <3>1. b + 1 < c
        BY <2>1, <2>2, <2>3, <2>5 DEF Maximal, AllFree
      <3>2. LastLba(b) + 1 = Lba(b + 1) /\ Lba(b + 1) < Lba(c)
        BY <3>1, <2>3, LbaNext, LbaOrder
      <3>3. QED BY <2>4, <3>2
    <2>6. CASE d < a
      <3>1. d + 1 < a
        BY <2>1, <2>2, <2>3, <2>6 DEF Maximal, AllFree
      <3>2. LastLba(d) + 1 = Lba(d + 1) /\ Lba(d + 1) < Lba(a)
        BY <3>1, <2>3, LbaNext, LbaOrder
      <3>3. QED BY <2>4, <3>2
    <2>7. CASE c <= b /\ a <= d
      <3>1. a = c
        BY <2>1, <2>2, <2>3, <2>7 DEF Maximal, AllFree, Starts
      <3>2. b = d
        BY <2>1, <2>2, <2>3, <2>7 DEF Maximal, AllFree
      <3>3. QED BY <3>1, <3>2, <2>1, <2>2
    <2>8. QED BY <2>5, <2>6, <2>7, <2>3
  <1>2. QED BY <1>1, RunsInvariant, PTL

\* Every free cluster visited is erased, or in the open run.
THEOREM NothingSkippedCorrect == Spec => []NothingSkipped
  <1> DEFINE Ranges == calls \cup (IF in_run /\ pc # "done" THEN {Run} ELSE {})
             Covered(c) == \E r \in Ranges : r.first <= Lba(c) /\ LastLba(c) <= r.last
  <1>1. Init => NothingSkipped
    BY SizesType DEF Init, NothingSkipped, Clusters
  <1>2. NothingSkipped /\ RunsInv /\ [Next]_vars => NothingSkipped'
    <2> SUFFICES ASSUME NothingSkipped, RunsInv, [Next]_vars,
                        NEW c \in Clusters, c < clus', Free(c)'
                 PROVE  Covered(c)'
      BY DEF NothingSkipped, Lba, LastLba, Clusters, LastEntry
    <2>0. /\ clus \in Int /\ 0 <= clus /\ LastEntry \in Int /\ c \in Int /\ 2 <= c
          /\ c < clus /\ Free(c) => Covered(c)
      BY SizesType DEF RunsInv, Clusters, NothingSkipped
    <2>1. Free(c)
      BY DEF Free, Next, VisitReserved, VisitUsed, VisitFree, Grow, Visit, ReadFails, Finish, vars
    <2>2. CASE VisitReserved \/ VisitUsed
      <3>1. c < clus /\ clus' = clus + 1 /\ pc' = pc /\ pc = "scan" /\ CloseRun
        BY <2>0, <2>1, <2>2 DEF VisitReserved, VisitUsed, Visit
      <3>2. Ranges \subseteq calls'
        BY <3>1 DEF CloseRun
      <3>3. QED BY <3>1, <3>2, <2>0, <2>1 DEF Lba, LastLba
    <2>3. CASE VisitFree
      <3>1. /\ clus' = clus + 1 /\ pc' = "scan" /\ pc = "scan" /\ in_run' = TRUE
            /\ clus \in Clusters /\ run_end_lba' = LastLba(clus)
        BY <2>3, <2>0 DEF VisitFree, Grow, Visit, Clusters
      <3>2. in_run => Lba(clus) = run_end_lba + 1
        BY <2>0, LbaNext DEF RunsInv, OpenInv
      <3>3. calls' = calls /\ run_start_lba' = IF in_run THEN run_start_lba ELSE Lba(clus)
        BY <2>3, <3>2 DEF VisitFree, Grow
      <3>4. /\ run_start_lba' <= Lba(clus)
            /\ in_run => run_end_lba <= run_end_lba' /\ run_start_lba' = run_start_lba
        <4>1. CASE in_run
          <5>1. PICK a \in Clusters : /\ a < clus /\ run_start_lba = Lba(a)
                                      /\ run_end_lba = LastLba(clus - 1)
            BY <4>1 DEF RunsInv, OpenInv
          <5>2. a \in Int /\ clus - 1 \in Int
            BY <2>0 DEF Clusters
          <5>3. Lba(a) < Lba(clus) /\ LastLba(clus - 1) <= LastLba(clus)
            BY <5>1, <5>2, <2>0, LbaOrder
          <5>4. QED BY <5>1, <5>2, <5>3, <3>1, <3>3, <4>1, <2>0, LbaType
        <4>2. CASE ~ in_run
          BY <4>2, <3>3, <2>0, LbaType
        <4>3. QED BY <4>1, <4>2
      <3>5. Run' \in Ranges' /\ calls \subseteq Ranges'
            /\ Run'.first = run_start_lba' /\ Run'.last = LastLba(clus)
        BY <3>1, <3>3 DEF Run, SectorRange
      <3>6. CASE c = clus
        BY <3>4, <3>5, <3>6, <2>0, LbaType DEF Lba, LastLba
      <3>7. CASE c < clus
        <4>1. PICK r \in Ranges : r.first <= Lba(c) /\ LastLba(c) <= r.last
          BY <3>7, <2>0, <2>1
        <4>2. CASE r \in calls
          BY <4>1, <4>2, <3>5 DEF Lba, LastLba
        <4>3. CASE in_run /\ r = Run
          <5>1. r.first = run_start_lba /\ r.last = run_end_lba
            BY <4>3 DEF Run, SectorRange
          <5>2. run_start_lba' <= Lba(c)
            BY <5>1, <4>1, <4>3, <3>4
          <5>3. LastLba(c) <= LastLba(clus)
            BY <3>7, <2>0, LbaOrder
          <5>4. QED BY <5>2, <5>3, <3>5 DEF Lba, LastLba
        <4>4. QED BY <4>1, <4>2, <4>3
      <3>8. QED BY <3>6, <3>7, <3>1, <2>0
    <2>4. CASE ReadFails
      BY <2>4, <2>0, <2>1 DEF ReadFails, runVars, Run, Lba, LastLba
    <2>5. CASE Finish
      <3>1. clus' = clus /\ pc = "scan" /\ calls' = IF in_run THEN calls \cup {Run} ELSE calls
        BY <2>5 DEF Finish
      <3>2. Ranges \subseteq Ranges'
        BY <3>1
      <3>3. QED BY <3>1, <3>2, <2>0, <2>1 DEF Lba, LastLba
    <2>6. CASE UNCHANGED vars
      BY <2>6, <2>0, <2>1 DEF vars, runVars, Run, Lba, LastLba
    <2>7. QED BY <2>2, <2>3, <2>4, <2>5, <2>6 DEF Next
  <1>3. QED BY <1>1, <1>2, RunsInvariant, PTL DEF Spec

=============================================================================
