---------------------------- MODULE FatLog_proofs ----------------------------
(***************************************************************************)
(* Theorems about FatLog, for every card, every number of sessions, power  *)
(* losses and refusals.                                                    *)
(*                                                                         *)
(* The names of files are unique because of what one scan of the directory *)
(* finds: a number that no entry has, and an entry that is free.  Both     *)
(* must still be true when the directory entry is written, many sectors    *)
(* later (PendingInv), and the scan, which ends at the first entry never   *)
(* used, must not end before a file (DirInv).                              *)
(*                                                                         *)
(* The chains of the files stay complete and apart because the logger      *)
(* takes free clusters in order: what it has taken, in use or lost in a    *)
(* crash, lies before all that is free (Ordered), so links lead upwards,   *)
(* chains end, and what a crash left half-built is in no file.  A file     *)
(* comes into the directory when its chain is linked (MakingBy), and what  *)
(* an extension changes of a chain comes after logfile.last (ActiveBody,   *)
(* ExtendBy).                                                              *)
(*                                                                         *)
(* The configuration, once it was saved whole, stays usable because the    *)
(* number that is saved grows by at most one with each session, even if    *)
(* its save is cut between its two bytes (LaterSaves).                     *)
(*                                                                         *)
(* What a file holds is what was logged to it where the clusters that are  *)
(* free on the new card lie together (FreeTogether): those of a new file   *)
(* then are adjacent, as fat32_append_sector() takes for granted.  Every   *)
(* file has its sectors in adjacent clusters, as many as were logged       *)
(* (StoredInv, UseInv); a cluster that is free or being taken holds none   *)
(* of anybody (PlacedInv, NewInv, AddInv), so that the erasure and the     *)
(* zero-fill of a later file go over nothing.                              *)
(***************************************************************************)
EXTENDS FatLog, TLAPS, FiniteSetTheorems, WellFoundedInduction

\* The directory holds entries, and what follows the first one never used was
\* never used either.
DirInv ==
    /\ DOMAIN dir = Slots
    /\ \A s \in Slots : dir[s] = Entry(dir[s].kind, dir[s].name, dir[s].first, dir[s].size)
    /\ \A s, t \in Slots : s <= t /\ dir[s].kind = "end" => dir[t].kind = "end"

\* Numbers, and what is saved of them.
NumInv ==
    /\ num \in 0 .. LogMax
    /\ lognum = [lo |-> lognum.lo, hi |-> lognum.hi]
    /\ lognum.lo \in 0 .. LRADIX - 1 /\ lognum.hi \in 0 .. LRADIX - 1

\* A file that is being made has a free entry before any other, and its number
\* to itself.
PendingInv ==
    /\ pc = "dir" => mode = "create"
    /\ pc \in {"link", "zero", "dir"} /\ mode = "create" =>
         /\ logfile.slot \in Slots /\ dir[logfile.slot].kind \in {"deleted", "end"}
         /\ \A t \in Slots : t < logfile.slot => dir[t].kind # "end"
         /\ logfile.name # LogMax - 1 => \A s \in LogSlots : dir[s].name # logfile.name

NameInv == DirInv /\ NumInv /\ PendingInv /\ UniqueNames

-----------------------------------------------------------------------------
(* Numbers and slots *)

\* A set of numbers has a least one.
LEMMA MinIsLeast ==
    ASSUME NEW S, S \subseteq Nat, S # {}
    PROVE  Min(S) \in S /\ \A n \in S : Min(S) <= n
  <1> DEFINE less == OpToRel(<, Nat)
  <1>1. PICK m \in S : \A n \in S : ~ (<<n, m>> \in less)
    <2>1. IsWellFoundedOn(less, Nat)
      BY NatLessThanWellFounded
    <2>2. QED BY <2>1, WFMin
  <1>2. \A n \in S : n < m => <<n, m>> \in less
    BY DEF OpToRel
  <1> HIDE DEF less
  <1>3. \A n \in S : ~ (n < m)
    BY <1>1, <1>2
  <1>4. \A n \in S : m <= n
    BY <1>3
  <1>5. QED BY <1>4 DEF Min

\* The numbers that two bytes hold.
LEMMA LogMaxType == LRADIX \in Nat /\ LRADIX > 1 /\ LogMax \in Nat /\ 1 < LogMax
  <1>1. LRADIX \in Nat /\ LRADIX > 1
    BY SizesAssumption
  <1>2. LRADIX * LRADIX \in Nat /\ LRADIX * LRADIX >= 2 * LRADIX
    BY <1>1
  <1>3. QED BY <1>1, <1>2 DEF LogMax

\* Where the loop over the numbers stops there is no file of that number, or
\* one to resume, or the numbers are used up.
LEMMA StopStops ==
    ASSUME NumInv
    PROVE  /\ Stop \in num .. LogMax
           /\ Stop = LogMax \/ Match(Stop) = {} \/ Resumable(Stop)
  <1> DEFINE S == {n \in num .. LogMax : n = LogMax \/ Match(n) = {} \/ Resumable(n)}
  <1>2. S \subseteq Nat /\ LogMax \in S
    BY LogMaxType DEF NumInv
  <1>3. Min(S) \in S
    BY <1>2, MinIsLeast
  <1>4. QED BY <1>3 DEF Stop

\* All files are found by a scan.
LEMMA LogsAreLive ==
    ASSUME DirInv
    PROVE  LogSlots \subseteq Live
  <1>1. SUFFICES ASSUME NEW s \in Slots, dir[s].kind = "log", NEW t \in Slots, t <= s,
                        dir[t].kind = "end"
                 PROVE  FALSE
    BY DEF LogSlots, Live
  <1>2. QED BY <1>1 DEF DirInv

\* The entry taken for a new file is free, and none before it was never used.
LEMMA UsableIsFree ==
    ASSUME DirInv, Usable # {}
    PROVE  /\ Min(Usable) \in Slots /\ dir[Min(Usable)].kind \in {"deleted", "end"}
           /\ \A t \in Slots : t < Min(Usable) => dir[t].kind # "end"
  <1>1. Slots \subseteq Nat
    BY VolumeAssumption DEF Slots
  <1>2. Usable \subseteq Slots
    BY DEF Usable, Deleted, Live
  <1>3. PICK m \in Usable : m = Min(Usable) /\ \A s \in Usable : m <= s
    BY <1>1, <1>2, MinIsLeast
  <1>4. m \in Slots /\ m \in Nat
    BY <1>1, <1>2
  <1>5. CASE Usable \subseteq Deleted
    <2>1. m \in Live /\ dir[m].kind = "deleted"
      BY <1>5 DEF Deleted
    <2>2. \A t \in Slots : t <= m => dir[t].kind # "end"
      BY <2>1 DEF Live
    <2>3. \A t \in Slots : t < m => dir[t].kind # "end"
      BY <1>1, <1>4, <2>2
    <2>4. QED BY <1>3, <1>4, <2>1, <2>3
  <1>6. CASE Usable = Slots \ Live
    <2>1. PICK t \in Slots : t <= m /\ dir[t].kind = "end"
      BY <1>6 DEF Live
    <2>2. \A u \in Slots : u < m => u \in Live
      <3>1. \A u \in Slots : u < m => ~ (m <= u)
        BY <1>1, <1>4
      <3>2. QED BY <1>3, <1>6, <3>1
    <2>3. \A u \in Slots : u < m => dir[u].kind # "end"
      <3>1. \A u \in Slots : u <= u
        BY <1>1
      <3>2. QED BY <2>2, <3>1 DEF Live
    <2>4. t = m
      BY <1>1, <1>4, <2>1, <2>3
    <2>5. QED BY <1>3, <1>4, <2>1, <2>3, <2>4
  <1>7. QED BY <1>5, <1>6 DEF Usable

-----------------------------------------------------------------------------
(* The steps *)

\* The actions that leave the directory as it is.
Elsewhere ==
    \/ PowerOn \/ PowerOff \/ ConfigSave
    \/ OpenResume \/ OpenCreate \/ OpenFails \/ OpenWild
    \/ WriteFatEntry \/ ZeroFill \/ CardRefuses
    \/ Extend \/ AppendSector \/ AppendWild
    \/ FlushRecord \/ TrimFree \/ UNCHANGED vars

\* They leave it as it is.
LEMMA DirUnchanged == Elsewhere => dir' = dir
  BY DEF Elsewhere, PowerOn, BootWith, PowerOff, ConfigSave, OpenResume, ResumeAt, OpenCreate,
         Create, OpenFails, OpenWild, WriteFatEntry, ZeroFill, CardRefuses, Extend, AppendSector,
         WriteSector, AppendWild, FlushRecord, TrimFree, vars, cardVars

\* A flush changes the size in an entry, and neither its kind nor its name.
LEMMA FlushKeepsNames ==
    ASSUME DirInv, FlushDir
    PROVE  /\ DirInv'
           /\ \A s \in Slots : dir'[s].kind = dir[s].kind /\ dir'[s].name = dir[s].name
  <1>1. DOMAIN dir' = Slots
    BY DEF FlushDir, DirInv
  <1>2. ASSUME NEW s \in Slots
        PROVE  /\ dir'[s].kind = dir[s].kind /\ dir'[s].name = dir[s].name
               /\ dir'[s] = Entry(dir'[s].kind, dir'[s].name, dir'[s].first, dir'[s].size)
    <2>1. dir[s] = Entry(dir[s].kind, dir[s].name, dir[s].first, dir[s].size)
      BY DEF DirInv
    <2>2. dir'[s] = dir[s] \/ dir'[s] = [dir[s] EXCEPT !.size = logfile.written]
      BY DEF FlushDir, DirInv
    <2>3. QED BY <2>1, <2>2 DEF Entry
  <1>3. QED BY <1>1, <1>2 DEF DirInv

\* A new entry is put at a place that keeps the files in reach of the scan.
LEMMA WriteKeepsOrder ==
    ASSUME DirInv, PendingInv, WriteDirEntry
    PROVE  /\ DirInv'
           /\ logfile.slot \in Slots /\ dir'[logfile.slot].kind = "log"
           /\ dir'[logfile.slot].name = logfile.name
           /\ \A s \in Slots \ {logfile.slot} : dir'[s] = dir[s]
  <1>1. logfile.slot \in Slots /\ \A t \in Slots : t < logfile.slot => dir[t].kind # "end"
    BY DEF PendingInv, WriteDirEntry
  <1>2. dir'[logfile.slot] = Entry("log", logfile.name, logfile.first, NSectors)
        /\ DOMAIN dir' = Slots /\ \A s \in Slots \ {logfile.slot} : dir'[s] = dir[s]
    BY <1>1 DEF WriteDirEntry, DirInv
  <1>3. dir'[logfile.slot].kind = "log" /\ dir'[logfile.slot].name = logfile.name
    BY <1>2 DEF Entry
  <1>4. \A s \in Slots : dir'[s] = Entry(dir'[s].kind, dir'[s].name, dir'[s].first, dir'[s].size)
    <2>1. TAKE s \in Slots
    <2>2. CASE s = logfile.slot
      BY <1>2, <2>2 DEF Entry
    <2>3. CASE s # logfile.slot
      BY <1>2, <2>3 DEF DirInv
    <2>4. QED BY <2>2, <2>3
  <1>5. ASSUME NEW s \in Slots, NEW t \in Slots, s <= t, dir'[s].kind = "end"
        PROVE  dir'[t].kind = "end"
    <2>1. s # logfile.slot /\ dir[s].kind = "end"
      BY <1>2, <1>3, <1>5
    <2>2. dir[t].kind = "end"
      BY <1>5, <2>1 DEF DirInv
    <2>3. t # logfile.slot
      <3>1. s \in Nat /\ t \in Nat
        BY VolumeAssumption DEF Slots
      <3>2. SUFFICES ASSUME t = logfile.slot PROVE FALSE
        OBVIOUS
      <3>3. s < logfile.slot
        BY <1>5, <2>1, <3>1, <3>2
      <3>4. QED BY <1>1, <2>1, <3>3
    <2>4. QED BY <1>2, <2>2, <2>3
  <1>6. QED BY <1>1, <1>2, <1>3, <1>4, <1>5 DEF DirInv

\* The order of the directory is kept by every step.
LEMMA DirPreserved ==
    ASSUME NameInv, [Next]_vars
    PROVE  DirInv'
  <1>1. CASE Elsewhere
    BY <1>1, DirUnchanged DEF NameInv, DirInv
  <1>2. CASE WriteDirEntry
    BY <1>2, WriteKeepsOrder DEF NameInv
  <1>3. CASE FlushDir
    BY <1>3, FlushKeepsNames DEF NameInv
  <1>4. CASE TrimFull
    BY <1>4 DEF TrimFull, DirInv, NoEntry, Entry
  <1>5. QED BY <1>1, <1>2, <1>3, <1>4 DEF Next, Elsewhere

\* Numbers stay numbers.
LEMMA NumPreserved ==
    ASSUME NameInv, [Next]_vars
    PROVE  NumInv'
  <1>0. LRADIX \in Nat /\ LRADIX > 1 /\ LogMax \in Nat /\ 1 < LogMax
        /\ LogMax = LRADIX * LRADIX - 1
    BY LogMaxType DEF LogMax
  <1>1. CASE PowerOn
    <2>1. lognum' = lognum /\ (num' = 1 \/ num' = lognum.lo + LRADIX * lognum.hi)
      BY <1>1 DEF PowerOn, BootWith, eepromVars
    <2>2. ASSUME NEW lo \in 0 .. LRADIX - 1, NEW hi \in 0 .. LRADIX - 1
          PROVE  lo + LRADIX * hi \in 0 .. LogMax
      <3>1. LRADIX * hi \in Nat /\ LRADIX * hi <= LRADIX * (LRADIX - 1)
        BY <1>0
      <3>2. LRADIX * (LRADIX - 1) = LRADIX * LRADIX - LRADIX
        BY <1>0
      <3>3. QED BY <1>0, <3>1, <3>2
    <2>3. QED BY <1>0, <2>1, <2>2 DEF NameInv, NumInv
  <1>2. CASE ConfigSave
    <2>1. num % LRADIX \in 0 .. LRADIX - 1 /\ num \div LRADIX \in Nat
      BY <1>0 DEF NameInv, NumInv
    <2>2. num \div LRADIX \in 0 .. LRADIX - 1
      <3>1. LRADIX * (num \div LRADIX) <= num
        BY <1>0 DEF NameInv, NumInv
      <3>2. ASSUME num \div LRADIX >= LRADIX PROVE FALSE
        <4>1. LRADIX * (num \div LRADIX) >= LRADIX * LRADIX
          BY <1>0, <2>1, <3>2
        <4>2. QED BY <1>0, <2>1, <3>1, <4>1 DEF NameInv, NumInv
      <3>3. QED BY <1>0, <2>1, <3>2
    <2>3. num' = num
          /\ lognum' = [lo |-> IF pc = "lo" THEN num % LRADIX ELSE lognum.lo,
                        hi |-> IF pc = "hi" THEN num \div LRADIX ELSE lognum.hi]
      BY <1>2 DEF ConfigSave, SaveField, Save
    <2>4. QED BY <2>1, <2>2, <2>3 DEF NameInv, NumInv
  <1>3. CASE PowerOff
    BY <1>0, <1>3 DEF PowerOff, NameInv, NumInv, eepromVars
  <1>4. CASE OpenResume \/ OpenCreate
    <2>1. lognum' = lognum /\ num' = Stop
      BY <1>4 DEF OpenResume, ResumeAt, OpenCreate, Create, eepromVars
    <2>2. Stop \in 0 .. LogMax
      BY <1>0, StopStops DEF NameInv, NumInv
    <2>3. QED BY <2>1, <2>2 DEF NameInv, NumInv
  <1>5. CASE WriteDirEntry
    <2>1. (num + 1) % (LogMax + 1) \in 0 .. LogMax
      BY <1>0 DEF NameInv, NumInv
    <2>2. QED BY <1>5, <2>1 DEF WriteDirEntry, NameInv, NumInv, eepromVars
  <1>6. CASE OpenFails \/ OpenWild \/ WriteFatEntry \/ ZeroFill \/ CardRefuses \/ Extend
             \/ AppendSector \/ AppendWild \/ FlushDir \/ FlushRecord \/ TrimFree \/ TrimFull
             \/ UNCHANGED vars
    BY <1>6 DEF OpenFails, OpenWild, WriteFatEntry, ZeroFill, CardRefuses, Extend, AppendSector,
                WriteSector, AppendWild, FlushDir, FlushRecord, TrimFree, TrimFull, vars, eepromVars,
                NameInv, NumInv
  <1>7. QED BY <1>1, <1>2, <1>3, <1>4, <1>5, <1>6 DEF Next

\* A new file has a number to itself.
LEMMA CreateIsNew ==
    ASSUME NameInv, OpenCreate
    PROVE  PendingInv'
  <1>1. /\ Usable # {} /\ (Stop = LogMax \/ ~ Resumable(Stop))
        /\ logfile'.slot = Min(Usable)
        /\ logfile'.name = IF Stop = LogMax THEN LogMax - 1 ELSE Stop
        /\ pc' = "link"
    BY DEF OpenCreate, Create
  <1>2. dir' = dir /\ LogSlots' = LogSlots
    BY DirUnchanged DEF Elsewhere, LogSlots
  <1>3. ASSUME logfile'.name # LogMax - 1, NEW s \in LogSlots, dir[s].name = logfile'.name
        PROVE  FALSE
    <2>1. logfile'.name = Stop /\ Match(Stop) = {}
      BY <1>1, <1>3, StopStops DEF NameInv
    <2>2. s \in Match(Stop)
      BY <1>3, <2>1, LogsAreLive DEF Match, LogSlots, NameInv
    <2>3. QED BY <2>1, <2>2
  <1>4. /\ Min(Usable) \in Slots /\ dir[Min(Usable)].kind \in {"deleted", "end"}
        /\ \A t \in Slots : t < Min(Usable) => dir[t].kind # "end"
    BY <1>1, UsableIsFree DEF NameInv
  <1>5. QED BY <1>1, <1>2, <1>3, <1>4 DEF PendingInv

\* The place and the number of a file that is being made stay free.
LEMMA PendingPreserved ==
    ASSUME NameInv, [Next]_vars
    PROVE  PendingInv'
  <1>1. CASE OpenCreate
    BY <1>1, CreateIsNew
  <1>2. CASE WriteFatEntry
    BY <1>2 DEF WriteFatEntry, NameInv, PendingInv, LogSlots
  <1>3. CASE ZeroFill
    <2>1. dir' = dir /\ mode' = mode /\ pc = "zero"
      BY <1>3 DEF ZeroFill
    <2>2. pc' \in {"zero", "dir", "append"}
      BY <1>3 DEF ZeroFill
    <2>3. pc' = "append" \/ (logfile' = logfile /\ (pc' = "dir" => mode = "create"))
      BY <1>3 DEF ZeroFill
    <2>4. QED BY <2>1, <2>2, <2>3 DEF NameInv, PendingInv, LogSlots
  <1>4. CASE Extend
    BY <1>4 DEF Extend, PendingInv
  <1>5. CASE UNCHANGED vars
    BY <1>5 DEF vars, cardVars, taskVars, NameInv, PendingInv, LogSlots
  <1>6. CASE PowerOn \/ PowerOff \/ ConfigSave \/ OpenResume \/ OpenFails \/ OpenWild
    <2>1. pc' \notin {"link", "zero", "dir"}
      BY <1>6 DEF PowerOn, BootWith, PowerOff, ConfigSave, OpenResume, ResumeAt, OpenFails, OpenWild
    <2>2. QED BY <2>1 DEF PendingInv
  <1>7. CASE WriteDirEntry \/ CardRefuses \/ AppendSector \/ AppendWild \/ FlushDir \/ FlushRecord
             \/ TrimFree \/ TrimFull
    <2>1. pc' \notin {"link", "zero", "dir"}
      BY <1>7 DEF WriteDirEntry, CardRefuses, AppendSector, WriteSector, AppendWild, FlushDir,
                  FlushRecord, TrimFree, TrimFull
    <2>2. QED BY <2>1 DEF PendingInv
  <1>8. QED BY <1>1, <1>2, <1>3, <1>4, <1>5, <1>6, <1>7 DEF Next

\* No step gives a number a second time.
LEMMA UniquePreserved ==
    ASSUME NameInv, [Next]_vars
    PROVE  UniqueNames'
  <1>1. CASE Elsewhere
    BY <1>1, DirUnchanged DEF NameInv, UniqueNames, LogSlots
  <1>2. CASE WriteDirEntry
    <2>1. /\ logfile.slot \in Slots /\ dir'[logfile.slot].kind = "log"
          /\ dir'[logfile.slot].name = logfile.name
          /\ \A s \in Slots \ {logfile.slot} : dir'[s] = dir[s]
      BY <1>2, WriteKeepsOrder DEF NameInv
    <2>2. logfile.name # LogMax - 1 => \A s \in LogSlots : dir[s].name # logfile.name
      BY <1>2 DEF WriteDirEntry, NameInv, PendingInv
    <2>3. LogSlots' = LogSlots \cup {logfile.slot}
      BY <2>1 DEF LogSlots
    <2>4. ASSUME NEW s \in LogSlots', NEW t \in LogSlots', dir'[s].name = dir'[t].name,
                 dir'[s].name # LogMax - 1, s # t
          PROVE  FALSE
      <3>1. \A u \in LogSlots' : u # logfile.slot => u \in LogSlots /\ dir'[u] = dir[u]
        BY <2>1, <2>3 DEF LogSlots
      <3>2. CASE s = logfile.slot
        BY <2>1, <2>2, <2>4, <3>1, <3>2
      <3>3. CASE t = logfile.slot
        BY <2>1, <2>2, <2>4, <3>1, <3>3
      <3>4. CASE s # logfile.slot /\ t # logfile.slot
        BY <2>4, <3>1, <3>4 DEF NameInv, UniqueNames
      <3>5. QED BY <3>2, <3>3, <3>4
    <2>5. LogMax' = LogMax
      BY DEF LogMax
    <2>6. QED BY <2>4, <2>5 DEF UniqueNames
  <1>3. CASE FlushDir
    <2>1. \A s \in Slots : dir'[s].kind = dir[s].kind /\ dir'[s].name = dir[s].name
      BY <1>3, FlushKeepsNames DEF NameInv
    <2>2. LogSlots' = LogSlots
      BY <2>1 DEF LogSlots
    <2>3. QED BY <2>1, <2>2 DEF NameInv, UniqueNames, LogSlots
  <1>4. CASE TrimFull
    <2>1. LogSlots' = {}
      BY <1>4 DEF TrimFull, LogSlots, NoEntry, Entry
    <2>2. QED BY <2>1 DEF UniqueNames
  <1>5. QED BY <1>1, <1>2, <1>3, <1>4 DEF Next, Elsewhere

\* A new device on a card with a file of the user and a deleted one.
LEMMA NameInitially ==
    ASSUME Init
    PROVE  NameInv
  <1>1. \A s \in Slots : dir[s] = IF s = 0 THEN NoEntry("other")
                                 ELSE IF s = 1 THEN NoEntry("deleted") ELSE NoEntry("end")
    BY DEF Init
  <1>2. \A s \in Slots : dir[s].kind = IF s = 0 THEN "other" ELSE IF s = 1 THEN "deleted" ELSE "end"
    BY <1>1 DEF NoEntry, Entry
  <1>3. DirInv
    <2>1. DOMAIN dir = Slots
      BY DEF Init
    <2>2. \A s \in Slots : dir[s] = Entry(dir[s].kind, dir[s].name, dir[s].first, dir[s].size)
      BY <1>1 DEF NoEntry, Entry
    <2>3. \A s, t \in Slots : s <= t /\ dir[s].kind = "end" => dir[t].kind = "end"
      <3>1. Slots \subseteq Nat
        BY VolumeAssumption DEF Slots
      <3>2. QED BY <1>2, <3>1
    <2>4. QED BY <2>1, <2>2, <2>3 DEF DirInv
  <1>4. NumInv
    BY LogMaxType DEF Init, NumInv
  <1>5. PendingInv
    BY DEF Init, PendingInv
  <1>6. LogSlots = {}
    BY <1>2 DEF LogSlots
  <1>7. QED BY <1>3, <1>4, <1>5, <1>6 DEF NameInv, UniqueNames

\* The names of the files, with the order and the numbers they rest on.
THEOREM NameInvariant == Spec => []NameInv
  <1>1. NameInv /\ [Next]_vars => NameInv'
    BY DirPreserved, NumPreserved, PendingPreserved, UniquePreserved DEF NameInv
  <1>2. QED BY <1>1, NameInitially, PTL DEF Spec

\* However sessions, power losses, cut saves, factory resets, refusals and
\* trims follow one another, no two files of the card have the same number,
\* the last number aside.
THEOREM UniqueNamesCorrect == Spec => []UniqueNames
  <1>1. NameInv => UniqueNames
    BY DEF NameInv
  <1>2. QED BY <1>1, NameInvariant, PTL

-----------------------------------------------------------------------------
(* The links of a table *)

\* What holds of the first of a sequence and passes from each to the next
\* holds of all.
LEMMA StepByStep ==
    ASSUME NEW n \in Nat, NEW S, 0 \in S,
           \A k \in 0 .. n - 1 : k \in S => k + 1 \in S
    PROVE  0 .. n \subseteq S
<1> DEFINE T == (0 .. n) \ S
<1>1. SUFFICES ASSUME T # {} PROVE FALSE
  OBVIOUS
<1>2. T \subseteq Nat
  OBVIOUS
<1>3. PICK m \in T : \A k \in T : m <= k
  BY <1>1, <1>2, MinIsLeast
<1>4. m # 0 /\ m - 1 \in 0 .. n - 1 /\ m - 1 \notin T
  BY <1>3
<1>5. m - 1 \in S
  BY <1>4
<1> QED
  BY <1>3, <1>4, <1>5

Values == {0, EOC} \cup Entries
Tables == [Entries -> Values]
NextOf(table, clus) == IF clus \in Entries THEN table[clus] ELSE clus

\* Follow() is what its recursive definition says.
LEMMA FollowIs ==
    ASSUME NEW table \in Tables, NEW first \in Values
    PROVE  /\ Follow(table, first) \in [0 .. LastEntry -> Values]
           /\ Follow(table, first)[0] = first
           /\ \A k \in 0 .. LastEntry - 1 :
                 Follow(table, first)[k + 1] = NextOf(table, Follow(table, first)[k])
<1> DEFINE Upto(n) == {f \in [0 .. n -> Values] :
                        f[0] = first /\ \A k \in 0 .. n - 1 : f[k + 1] = NextOf(table, f[k])}
           S == {n \in Nat : Upto(n) # {}}
<1>0. LastEntry \in Nat
  BY VolumeAssumption
<1>1. 0 \in S
  <2>1. [k \in 0 .. 0 |-> first] \in Upto(0)
    OBVIOUS
  <2> QED
    BY <2>1
<1>2. ASSUME NEW n \in Nat, n \in S PROVE n + 1 \in S
  <2>1. PICK f \in [0 .. n -> Values] : f[0] = first /\ \A k \in 0 .. n - 1 : f[k + 1] = NextOf(table, f[k])
    BY <1>2
  <2>2. NextOf(table, f[n]) \in Values
    BY DEF NextOf, Tables
  <2> DEFINE h == [k \in 0 .. n + 1 |-> IF k <= n THEN f[k] ELSE NextOf(table, f[n])]
  <2>3. h \in [0 .. n + 1 -> Values]
    BY <2>2
  <2>4. h[0] = first
    BY <2>1
  <2>5. ASSUME NEW k \in 0 .. n PROVE h[k + 1] = NextOf(table, h[k])
    BY <2>1
  <2>6. h \in Upto(n + 1)
    <3>1. 0 .. (n + 1) - 1 = 0 .. n
      OBVIOUS
    <3> HIDE DEF h
    <3> QED
      BY <2>3, <2>4, <2>5, <3>1
  <2> QED
    BY <2>6
<1>3. LastEntry \in S
  <2> HIDE DEF S
  <2>1. 0 .. LastEntry \subseteq S
    BY <1>0, <1>1, <1>2, StepByStep
  <2> QED
    BY <1>0, <2>1
<1>4. PICK f \in [0 .. LastEntry -> Values] :
        f[0] = first /\ \A k \in 0 .. LastEntry - 1 : f[k + 1] = NextOf(table, f[k])
  BY <1>3
<1> DEFINE Rec(l) == [k \in 0 .. LastEntry |->
                        IF k = 0 THEN first
                        ELSE LET clus == l[k - 1] IN IF clus \in Entries THEN table[clus] ELSE clus]
<1>5. f = Rec(f)
  <2>1. ASSUME NEW k \in 0 .. LastEntry, k # 0 PROVE f[k] = NextOf(table, f[k - 1])
    <3>1. k - 1 \in 0 .. LastEntry - 1 /\ (k - 1) + 1 = k
      BY <1>0, <2>1
    <3> QED
      BY <1>4, <3>1
  <2>2. \A k \in 0 .. LastEntry : f[k] = Rec(f)[k]
    BY <1>4, <2>1 DEF NextOf
  <2> QED
    BY <2>2
<1>6. Follow(table, first) = Rec(Follow(table, first))
  BY <1>5, Zenon DEF Follow
<1>7. PICK l : l = Follow(table, first) /\ l = Rec(l)
  BY <1>6
<1>8. l[0] = first
  BY <1>0, <1>7
<1>9. ASSUME NEW k \in 0 .. LastEntry - 1 PROVE l[k + 1] = NextOf(table, l[k])
  <2>1. \A i \in 0 .. LastEntry : i # 0 => l[i] = NextOf(table, l[i - 1])
    BY <1>7 DEF NextOf
  <2>2. k + 1 \in 0 .. LastEntry /\ k + 1 # 0 /\ (k + 1) - 1 = k
    BY <1>0
  <2> QED
    BY <2>1, <2>2
<1>10. l \in [0 .. LastEntry -> Values]
  <2> DEFINE V == {k \in 0 .. LastEntry : l[k] \in Values}
  <2>1. \A k \in 0 .. LastEntry - 1 : k \in V => k + 1 \in V
    BY <1>0, <1>9 DEF NextOf, Tables
  <2>2. 0 \in V
    BY <1>0, <1>8
  <2>3. 0 .. LastEntry \subseteq V
    <3> HIDE DEF V
    <3> QED
      BY <1>0, <2>1, <2>2, StepByStep
  <2>4. DOMAIN l = 0 .. LastEntry /\ l = [k \in 0 .. LastEntry |-> l[k]]
    BY <1>7
  <2> QED
    BY <2>3, <2>4
<1> QED
  BY <1>7, <1>8, <1>9, <1>10

ChainOf(table, first) == {Follow(table, first)[k] : k \in 0 .. LastEntry} \cap Entries
EndOf(table, first) == Follow(table, first)[LastEntry]
Rising(table) == \A c \in Entries : table[c] \in Entries => c < table[c]

\* The marks that end a chain are no clusters.
LEMMA EntriesAre ==
    /\ LastEntry \in Nat /\ Entries \subseteq Nat /\ Values \subseteq Nat
    /\ 0 \notin Entries /\ EOC \notin Entries /\ EOC # 0
BY VolumeAssumption DEF Entries, EOC, Values

\* A set that holds the first cluster and is closed under the table's links
\* holds the chain, and its end.
LEMMA ChainStays ==
    ASSUME NEW table \in Tables, NEW first \in Values, NEW S, first \in S,
           \A c \in S \cap Entries : table[c] \in S
    PROVE  ChainOf(table, first) \subseteq S /\ EndOf(table, first) \in S
<1>1. PICK l : /\ l = Follow(table, first) /\ l \in [0 .. LastEntry -> Values] /\ l[0] = first
               /\ \A k \in 0 .. LastEntry - 1 : l[k + 1] = NextOf(table, l[k])
  BY FollowIs
<1> DEFINE K == {k \in 0 .. LastEntry : l[k] \in S}
<1>2. 0 \in K /\ \A k \in 0 .. LastEntry - 1 : k \in K => k + 1 \in K
  <2>1. 0 \in K
    BY <1>1, EntriesAre
  <2>2. ASSUME NEW k \in 0 .. LastEntry - 1, k \in K PROVE k + 1 \in K
    <3>1. l[k] \in S /\ k + 1 \in 0 .. LastEntry /\ l[k + 1] = NextOf(table, l[k])
      BY <1>1, <2>2, EntriesAre
    <3> QED
      BY <3>1 DEF NextOf
  <2> QED
    BY <2>1, <2>2
<1>3. 0 .. LastEntry \subseteq K
  <2> HIDE DEF K
  <2> QED
    BY <1>2, EntriesAre, StepByStep
<1>4. \A k \in 0 .. LastEntry : l[k] \in S
  BY <1>3
<1> QED
  BY <1>1, <1>4, EntriesAre DEF ChainOf, EndOf

\* The chain climbs.
LEMMA ChainOrder ==
    ASSUME NEW table \in Tables, NEW first \in Values, Rising(table),
           NEW l, l = Follow(table, first),
           NEW k \in 0 .. LastEntry, NEW j \in 0 .. k - 1, l[k] \in Entries
    PROVE  l[j] \in Entries /\ l[j] < l[k]
<1>1. /\ l \in [0 .. LastEntry -> Values]
      /\ \A i \in 0 .. LastEntry - 1 : l[i + 1] = NextOf(table, l[i])
  BY FollowIs
<1> DEFINE Before(n) == \A i \in 0 .. n - 1 : l[i] \in Entries /\ l[i] < l[n]
           K == {n \in 0 .. LastEntry : l[n] \in Entries => Before(n)}
<1>2. 0 \in K
  BY EntriesAre
<1>3. ASSUME NEW n \in 0 .. LastEntry - 1, n \in K PROVE n + 1 \in K
  <2>1. SUFFICES ASSUME l[n + 1] \in Entries PROVE Before(n + 1)
    BY EntriesAre
  <2>2. l[n + 1] = NextOf(table, l[n])
    BY <1>1
  <2>3. l[n] \in Entries
    BY <2>1, <2>2 DEF NextOf
  <2>4. l[n] < l[n + 1]
    BY <2>1, <2>2, <2>3 DEF Rising, NextOf
  <2>5. Before(n)
    BY <1>3, <2>3
  <2>6. l[n] \in Nat /\ l[n + 1] \in Nat
    BY <2>1, <2>3, EntriesAre
  <2>7. ASSUME NEW i \in 0 .. (n + 1) - 1 PROVE l[i] \in Entries /\ l[i] < l[n + 1]
    <3>1. CASE i = n
      BY <2>3, <2>4, <3>1
    <3>2. CASE i # n
      <4>1. i \in 0 .. n - 1
        BY <3>2
      <4>2. l[i] \in Entries /\ l[i] < l[n]
        BY <2>5, <4>1
      <4>3. l[i] \in Nat
        BY <4>2, EntriesAre
      <4> QED
        BY <2>4, <2>6, <4>2, <4>3
    <3> QED
      BY <3>1, <3>2
  <2> QED
    BY <2>7
<1>4. 0 .. LastEntry \subseteq K
  <2> HIDE DEF K
  <2> QED
    BY <1>2, <1>3, EntriesAre, StepByStep
<1>5. Before(k)
  BY <1>4
<1> QED
  BY <1>5

\* It climbs out of the table before the links are used up.
LEMMA ChainEnds ==
    ASSUME NEW table \in Tables, NEW first \in Values, Rising(table)
    PROVE  EndOf(table, first) \in {0, EOC}
<1>1. PICK l : /\ l = Follow(table, first) /\ l \in [0 .. LastEntry -> Values]
               /\ \A k \in 0 .. LastEntry - 1 : l[k + 1] = NextOf(table, l[k])
  BY FollowIs
<1> DEFINE K == {k \in 0 .. LastEntry : l[k] \in Entries => k + 2 <= l[k]}
<1>2. 0 \in K
  BY EntriesAre DEF Entries
<1>3. ASSUME NEW k \in 0 .. LastEntry - 1, k \in K PROVE k + 1 \in K
  <2>1. SUFFICES ASSUME l[k + 1] \in Entries PROVE (k + 1) + 2 <= l[k + 1]
    BY EntriesAre
  <2>2. l[k + 1] = NextOf(table, l[k])
    BY <1>1
  <2>3. l[k] \in Entries
    BY <2>1, <2>2 DEF NextOf
  <2>4. l[k] < l[k + 1] /\ k + 2 <= l[k]
    BY <1>3, <2>1, <2>2, <2>3 DEF Rising, NextOf
  <2>5. l[k] \in Nat /\ l[k + 1] \in Nat
    BY <2>1, <2>3, EntriesAre
  <2> QED
    BY <2>4, <2>5
<1>4. 0 .. LastEntry \subseteq K
  <2> HIDE DEF K
  <2> QED
    BY <1>2, <1>3, EntriesAre, StepByStep
<1>5. LastEntry \in K
  BY <1>4, EntriesAre
<1>6. l[LastEntry] \notin Entries
  BY <1>5, EntriesAre DEF Entries
<1>7. l[LastEntry] \in Values
  BY <1>1, EntriesAre
<1> QED
  BY <1>1, <1>6, <1>7 DEF EndOf, Values

\* So each cluster of it has its place before the last, and its link is in the
\* chain or ends it.
LEMMA ChainPlace ==
    ASSUME NEW table \in Tables, NEW first \in Values, Rising(table),
           NEW c \in ChainOf(table, first)
    PROVE  \E k \in 0 .. LastEntry - 1 :
              Follow(table, first)[k] = c /\ Follow(table, first)[k + 1] = table[c]
<1>1. PICK k \in 0 .. LastEntry : Follow(table, first)[k] = c
  BY DEF ChainOf
<1>2. c \in Entries
  BY DEF ChainOf
<1>3. k # LastEntry
  BY <1>1, <1>2, ChainEnds, EntriesAre DEF EndOf
<1>4. k \in 0 .. LastEntry - 1
  BY <1>3, EntriesAre
<1>5. Follow(table, first)[k + 1] = NextOf(table, c)
  BY <1>1, <1>4, FollowIs
<1> QED
  BY <1>1, <1>2, <1>4, <1>5 DEF NextOf

\* The link of a cluster of the chain is in it, or no cluster.
LEMMA ChainClosed ==
    ASSUME NEW table \in Tables, NEW first \in Values, Rising(table),
           NEW c \in ChainOf(table, first)
    PROVE  table[c] \in ChainOf(table, first) \cup {0, EOC}
<1>1. PICK k \in 0 .. LastEntry - 1 : Follow(table, first)[k + 1] = table[c]
  BY ChainPlace
<1>2. k + 1 \in 0 .. LastEntry
  BY EntriesAre
<1>3. table[c] \in Values
  BY DEF Tables, ChainOf
<1> QED
  BY <1>1, <1>2, <1>3 DEF ChainOf, Values

\* The link of one that is not the last leads no further than any later one.
LEMMA ChainBetween ==
    ASSUME NEW table \in Tables, NEW first \in Values, Rising(table),
           NEW c \in ChainOf(table, first), NEW d \in ChainOf(table, first), c < d
    PROVE  table[c] \in Entries /\ table[c] <= d
<1>1. PICK l : l = Follow(table, first)
  OBVIOUS
<1>2. PICK j \in 0 .. LastEntry - 1 : l[j] = c /\ l[j + 1] = table[c]
  BY <1>1, ChainPlace
<1>3. PICK k \in 0 .. LastEntry : l[k] = d
  BY <1>1 DEF ChainOf
<1>4. c \in Entries /\ d \in Entries /\ c \in Nat /\ d \in Nat
  BY EntriesAre DEF ChainOf
<1>5. j < k
  <2>1. CASE k < j
    <3>1. k \in 0 .. j - 1 /\ j \in 0 .. LastEntry
      BY <2>1, EntriesAre
    <3>2. l[k] < l[j]
      BY <1>1, <1>2, <1>4, <3>1, ChainOrder
    <3> QED
      BY <1>2, <1>3, <1>4, <3>2
  <2>2. j # k
    BY <1>2, <1>3, <1>4
  <2> QED
    BY <2>1, <2>2, EntriesAre
<1>6. CASE j + 1 = k
  BY <1>2, <1>3, <1>4, <1>6
<1>7. CASE j + 1 # k
  <2>1. j + 1 \in 0 .. k - 1
    BY <1>5, <1>7, EntriesAre
  <2>2. l[j + 1] \in Entries /\ l[j + 1] < l[k]
    BY <1>1, <1>3, <1>4, <2>1, ChainOrder
  <2>3. table[c] \in Entries /\ table[c] < d
    BY <1>2, <1>3, <2>2
  <2>4. table[c] \in Nat
    BY <2>3, EntriesAre
  <2> QED
    BY <1>4, <2>3, <2>4
<1> QED
  BY <1>6, <1>7

\* A chain ends with a mark unless a link leads into a free cluster.
LEMMA ChainMarked ==
    ASSUME NEW table \in Tables, NEW first \in Entries, Rising(table),
           \A c \in ChainOf(table, first) : table[c] # 0
    PROVE  /\ EndOf(table, first) = EOC
           /\ \E c \in ChainOf(table, first) : table[c] = EOC
<1>0. first \in Values /\ first \in ChainOf(table, first)
  <2>1. first \in Values
    BY DEF Values
  <2>2. Follow(table, first)[0] = first /\ 0 \in 0 .. LastEntry
    BY <2>1, FollowIs, EntriesAre
  <2> QED
    BY <2>1, <2>2 DEF ChainOf
<1> DEFINE S == ChainOf(table, first) \cup {EOC}
           U == ChainOf(table, first) \cup {0}
<1>1. \A c \in S \cap Entries : table[c] \in S
  <2>1. \A c \in ChainOf(table, first) : table[c] \in S
    BY <1>0, ChainClosed
  <2> QED
    BY <2>1, EntriesAre
<1>2. EndOf(table, first) \in S
  <2> HIDE DEF S
  <2>1. first \in S
    BY <1>0 DEF S
  <2> QED
    BY <1>0, <1>1, <2>1, ChainStays
<1>3. EndOf(table, first) = EOC
  <2>1. EndOf(table, first) \in {0, EOC}
    BY <1>0, ChainEnds
  <2> QED
    BY <1>2, <2>1, EntriesAre DEF ChainOf
<1>4. ASSUME \A c \in ChainOf(table, first) : table[c] # EOC PROVE FALSE
  <2>1. \A c \in ChainOf(table, first) : table[c] \in U
    BY <1>0, <1>4, ChainClosed
  <2>2. \A c \in U \cap Entries : table[c] \in U
    BY <2>1, EntriesAre
  <2>3. first \in U
    BY <1>0
  <2>4. EndOf(table, first) \in U
    <3> HIDE DEF U
    <3> QED
      BY <1>0, <2>2, <2>3, ChainStays
  <2> QED
    BY <1>3, <2>4, EntriesAre DEF ChainOf
<1> QED
  BY <1>3, <1>4

\* and if one does, with 0.
LEMMA ChainHole ==
    ASSUME NEW table \in Tables, NEW first \in Values, Rising(table),
           NEW c \in ChainOf(table, first), table[c] = 0
    PROVE  EndOf(table, first) = 0
<1>1. PICK l : /\ l = Follow(table, first)
               /\ \A k \in 0 .. LastEntry - 1 : l[k + 1] = NextOf(table, l[k])
  BY FollowIs
<1>2. PICK k \in 0 .. LastEntry - 1 : l[k + 1] = 0
  BY <1>1, ChainPlace
<1> DEFINE K == {i \in 0 .. LastEntry : i > k => l[i] = 0}
<1>3. 0 \in K
  BY EntriesAre
<1>4. ASSUME NEW i \in 0 .. LastEntry - 1, i \in K PROVE i + 1 \in K
  <2>1. i + 1 \in 0 .. LastEntry /\ (i + 1 > k => i > k \/ i = k)
    BY EntriesAre
  <2>2. l[i + 1] = NextOf(table, l[i])
    BY <1>1
  <2>3. CASE i = k
    BY <1>2, <2>1, <2>3
  <2>4. CASE i > k
    BY <1>4, <2>1, <2>2, <2>4, EntriesAre DEF NextOf
  <2> QED
    BY <2>1, <2>3, <2>4
<1>5. 0 .. LastEntry \subseteq K
  <2> HIDE DEF K
  <2> QED
    BY <1>3, <1>4, EntriesAre, StepByStep
<1>6. LastEntry \in K /\ LastEntry > k
  BY <1>5, EntriesAre
<1> QED
  BY <1>1, <1>6 DEF EndOf

\* What is written elsewhere leaves a chain as it is.
LEMMA SameChain ==
    ASSUME NEW table \in Tables, NEW table2 \in Tables, NEW first \in Values,
           \A c \in ChainOf(table, first) : table2[c] = table[c]
    PROVE  /\ ChainOf(table2, first) = ChainOf(table, first)
           /\ EndOf(table2, first) = EndOf(table, first)
<1>1. PICK l : /\ l = Follow(table, first) /\ l \in [0 .. LastEntry -> Values] /\ l[0] = first
               /\ \A k \in 0 .. LastEntry - 1 : l[k + 1] = NextOf(table, l[k])
  BY FollowIs
<1>2. PICK m : /\ m = Follow(table2, first) /\ m \in [0 .. LastEntry -> Values] /\ m[0] = first
               /\ \A k \in 0 .. LastEntry - 1 : m[k + 1] = NextOf(table2, m[k])
  BY FollowIs
<1> DEFINE K == {k \in 0 .. LastEntry : m[k] = l[k]}
<1>3. 0 \in K
  BY <1>1, <1>2, EntriesAre
<1>4. ASSUME NEW k \in 0 .. LastEntry - 1, k \in K PROVE k + 1 \in K
  <2>1. k \in 0 .. LastEntry /\ k + 1 \in 0 .. LastEntry
    BY EntriesAre
  <2>2. l[k + 1] = NextOf(table, l[k]) /\ m[k + 1] = NextOf(table2, l[k])
    BY <1>1, <1>2, <1>4
  <2>3. l[k] \in Entries => table2[l[k]] = table[l[k]]
    BY <1>1, <2>1 DEF ChainOf
  <2> QED
    BY <2>1, <2>2, <2>3 DEF NextOf
<1>5. 0 .. LastEntry \subseteq K
  <2> HIDE DEF K
  <2> QED
    BY <1>3, <1>4, EntriesAre, StepByStep
<1>6. \A k \in 0 .. LastEntry : m[k] = l[k]
  BY <1>5
<1>7. m = l
  <2>1. l = [k \in 0 .. LastEntry |-> l[k]]
    BY <1>1
  <2>2. m = [k \in 0 .. LastEntry |-> m[k]]
    BY <1>2
  <2> QED
    BY <1>6, <2>1, <2>2
<1> QED
  BY <1>1, <1>2, <1>7 DEF ChainOf, EndOf

\* What is written at a cluster or after it leaves the chain up to there.
LEMMA TrunkStays ==
    ASSUME NEW table \in Tables, NEW table2 \in Tables, NEW first \in Values, Rising(table),
           NEW d, \A c \in Entries : c < d => table2[c] = table[c],
           NEW x \in ChainOf(table, first), x <= d, d \in Nat
    PROVE  x \in ChainOf(table2, first)
<1>1. PICK l : /\ l = Follow(table, first) /\ l \in [0 .. LastEntry -> Values] /\ l[0] = first
               /\ \A k \in 0 .. LastEntry - 1 : l[k + 1] = NextOf(table, l[k])
  BY FollowIs
<1>2. PICK m : /\ m = Follow(table2, first) /\ m \in [0 .. LastEntry -> Values] /\ m[0] = first
               /\ \A k \in 0 .. LastEntry - 1 : m[k + 1] = NextOf(table2, m[k])
  BY FollowIs
<1>3. PICK n \in 0 .. LastEntry : l[n] = x
  BY <1>1 DEF ChainOf
<1>4. x \in Entries /\ x \in Nat
  BY EntriesAre DEF ChainOf
<1>5. ASSUME NEW k \in 0 .. n - 1 PROVE l[k] \in Entries /\ l[k] < d
  <2>1. l[k] \in Entries /\ l[k] < l[n]
    BY <1>1, <1>3, <1>4, ChainOrder
  <2>2. l[k] \in Nat /\ l[k] < x
    BY <1>3, <2>1, EntriesAre
  <2> QED
    BY <1>4, <2>1, <2>2
<1> DEFINE K == {k \in 0 .. n : m[k] = l[k]}
<1>6. 0 \in K
  BY <1>1, <1>2, EntriesAre
<1>7. ASSUME NEW k \in 0 .. n - 1, k \in K PROVE k + 1 \in K
  <2>1. k \in 0 .. LastEntry - 1 /\ k + 1 \in 0 .. n
    BY EntriesAre
  <2>2. l[k + 1] = NextOf(table, l[k]) /\ m[k + 1] = NextOf(table2, l[k])
    BY <1>1, <1>2, <1>7, <2>1
  <2>3. table2[l[k]] = table[l[k]]
    BY <1>5
  <2> QED
    BY <2>1, <2>2, <2>3 DEF NextOf
<1>8. 0 .. n \subseteq K
  <2> HIDE DEF K
  <2> QED
    BY <1>6, <1>7, EntriesAre, StepByStep
<1>9. m[n] = x
  BY <1>3, <1>8
<1> QED
  BY <1>2, <1>4, <1>9 DEF ChainOf

-----------------------------------------------------------------------------
(* The types of the variables *)

Logfiles == [first : {0} \cup Entries, last : {0} \cup Entries, cur : Nat, end : Nat,
             slot : Slots, name : 0 .. LogMax, written : Nat]
Links == [clus : Entries, val : Entries \cup {EOC}]

\* Types that the steps keep, by what is changed together: records with all of
\* their fields, and entries still to write while there are any.
FatType == fat \in [1 .. NumFats -> Tables] /\ copy \in 1 .. NumFats
DirType == dir \in [Slots -> DirEntries] /\ \A s \in LogSlots : dir[s].first \in Entries
DataType == data \in [Sectors -> Contents]
EepromType == /\ lognum.lo \in 0 .. LRADIX - 1 /\ lognum.hi \in 0 .. LRADIX - 1 /\ rec \in Nat
              /\ num \in 0 .. LogMax
              /\ {magic, flags, cut, misplaced} \subseteq BOOLEAN /\ saved \in {"never", "cut", "done"}
FileType == /\ logfile \in Logfiles
            /\ pc \in {"link", "zero", "dir"} /\ mode = "create" => logfile.first \in Entries
TaskType == todo \in Seq(Links) /\ (pc = "link" => todo # <<>>) /\ zero \in Nat \X Nat

TypeInv == FatType /\ DirType /\ DataType /\ EepromType /\ FileType /\ TaskType

\* Division with a remainder.
LEMMA DivMod ==
    ASSUME NEW n \in Nat, NEW d \in Nat \ {0}
    PROVE  /\ n \div d \in Nat /\ n % d \in 0 .. d - 1
           /\ n = (d * (n \div d)) + (n % d)
           /\ n = (n % d) + (d * (n \div d))
OBVIOUS

\* A quotient is below every bound that the number is below.
LEMMA DivBelow ==
    ASSUME NEW n \in Nat, NEW d \in Nat \ {0}, NEW q \in Nat, n < q * d
    PROVE  n \div d < q
<1>1. n \div d \in Nat /\ n % d \in Nat /\ n = (d * (n \div d)) + (n % d)
  BY DivMod
<1>2. PICK p \in Nat : p = n \div d
  BY <1>1
<1>3. SUFFICES ASSUME q <= p PROVE FALSE
  BY <1>2
<1>4. q * d <= p * d /\ p * d = d * p /\ q * d \in Nat /\ d * p \in Nat
  BY <1>3
<1> QED
  BY <1>1, <1>2, <1>4

\* Sectors and clusters.
LEMMA LbaType ==
    /\ SecPerClus \in Nat \ {0} /\ NSectors \in Nat \ {0}
    /\ \A c \in Nat : c >= 2 => Lba(c) \in Nat
    /\ \A c \in Entries : Lba(c) \in Nat /\ Lba(c) + SecPerClus <= Lba(LastEntry + 1)
    /\ \A s \in Sectors : s \in Nat /\ ClusterOf(s) \in Entries
<1>1. SecPerClus \in Nat \ {0} /\ NSectors \in Nat \ {0} /\ LastEntry \in Nat
  BY SizesAssumption, VolumeAssumption
<1>2. ASSUME NEW c \in Nat, c >= 2 PROVE Lba(c) \in Nat
  BY <1>1, <1>2 DEF Lba
<1>3. ASSUME NEW c \in Entries PROVE Lba(c) + SecPerClus <= Lba(LastEntry + 1)
  <2>1. c \in Nat /\ c - 2 \in Nat /\ (LastEntry + 1) - 2 \in Nat /\ (c - 2) + 1 <= (LastEntry + 1) - 2
    BY <1>1 DEF Entries
  <2>2. \A a, b \in Nat : a + 1 <= b => (a + 1) * SecPerClus <= b * SecPerClus
    BY <1>1
  <2>3. ((c - 2) + 1) * SecPerClus <= ((LastEntry + 1) - 2) * SecPerClus
    BY <2>1, <2>2
  <2>4. ((c - 2) + 1) * SecPerClus = ((c - 2) * SecPerClus) + SecPerClus
    BY <1>1, <2>1
  <2> QED
    BY <2>3, <2>4 DEF Lba
<1>4. ASSUME NEW s \in Sectors PROVE s \in Nat /\ ClusterOf(s) \in Entries
  <2>1. (LastEntry + 1) - 2 \in Nat
    BY <1>1, VolumeAssumption
  <2>2. s \in Nat /\ s < ((LastEntry + 1) - 2) * SecPerClus
    BY <1>1, <2>1 DEF Sectors, Lba
  <2>3. s \div SecPerClus \in Nat
    BY <1>1, <2>2, DivMod
  <2>4. s \div SecPerClus < (LastEntry + 1) - 2
    BY <1>1, <2>1, <2>2, DivBelow
  <2> QED
    BY <1>1, <2>2, <2>3, <2>4 DEF ClusterOf, Entries
<1>5. \A c \in Entries : Lba(c) \in Nat
  BY <1>2 DEF Entries
<1> QED
  BY <1>1, <1>2, <1>3, <1>4, <1>5

\* A file has clusters.
LEMMA ClusCountType == NClus \in Nat /\ NClus >= 1
<1>1. SecPerClus \in Nat \ {0} /\ NSectors \in Nat \ {0}
  BY SizesAssumption
<1>2. PICK n \in Nat : n = NSectors + (SecPerClus - 1) /\ n >= SecPerClus
  BY <1>1
<1>3. PICK q \in Nat : q = n \div SecPerClus
  BY <1>1, <1>2, DivMod
<1>4. n % SecPerClus < SecPerClus /\ n % SecPerClus \in Nat /\ n = (SecPerClus * q) + (n % SecPerClus)
  <2>1. n % SecPerClus \in 0 .. SecPerClus - 1 /\ n = (SecPerClus * (n \div SecPerClus)) + (n % SecPerClus)
    BY <1>1, DivMod
  <2>2. \A r \in 0 .. SecPerClus - 1 : r \in Nat /\ r < SecPerClus
    BY <1>1
  <2> QED
    BY <1>3, <2>1, <2>2, Zenon
<1>5. q # 0
  <2>1. SUFFICES ASSUME q = 0 PROVE FALSE
    OBVIOUS
  <2>2. SecPerClus * 0 = 0
    BY <1>1
  <2>3. n = n % SecPerClus
    BY <1>1, <1>2, <1>4, <2>1, <2>2
  <2> QED
    BY <1>1, <1>2, <1>4, <2>3
<1>6. NClus = q
  BY <1>2, <1>3 DEF NClus
<1> QED
  BY <1>5, <1>6

\* A chain that ends with a mark has a cluster that bears it.
LEMMA EndIsMarked ==
    ASSUME NEW table \in Tables, NEW first \in {0} \cup Entries, EndOf(table, first) = EOC
    PROVE  \E c \in ChainOf(table, first) : table[c] = EOC
<1>1. PICK l : /\ l = Follow(table, first) /\ l[0] = first
               /\ \A k \in 0 .. LastEntry - 1 : l[k + 1] = NextOf(table, l[k])
  BY FollowIs DEF Values
<1> DEFINE K == {k \in 0 .. LastEntry : l[k] = EOC}
<1>2. LastEntry \in K
  BY <1>1, EntriesAre DEF EndOf
<1>3. PICK k \in K : \A j \in K : k <= j
  <2> HIDE DEF K
  <2>1. K # {} /\ K \subseteq Nat
    BY <1>2 DEF K
  <2> QED
    BY <2>1, MinIsLeast
<1>4. k # 0
  BY <1>1, EntriesAre
<1>5. k - 1 \in 0 .. LastEntry - 1 /\ (k - 1) + 1 = k /\ k - 1 \in 0 .. LastEntry
  BY <1>3, <1>4, EntriesAre
<1>6. l[k - 1] # EOC
  BY <1>3, <1>5
<1>7. l[k] = NextOf(table, l[k - 1]) /\ l[k] = EOC
  BY <1>1, <1>5
<1>8. l[k - 1] \in Entries /\ table[l[k - 1]] = EOC
  BY <1>6, <1>7 DEF NextOf
<1> QED
  BY <1>1, <1>5, <1>8 DEF ChainOf

\* The record of an erased EEPROM is a number.
LEMMA BlankType == BlankRec \in Nat
<1>1. LRADIX \in Nat
  BY SizesAssumption
<1>2. LastEntry + 1 \in Nat /\ LastEntry + 1 >= 2
  BY VolumeAssumption
<1>3. Lba(LastEntry + 1) - 1 \in Int
  BY <1>2, LbaType
<1>4. IsFiniteSet(Sectors)
  BY <1>3, FS_Interval DEF Sectors
<1>5. Cardinality(Sectors) \in Nat
  BY <1>4, FS_CardinalityType
<1> QED
  BY <1>1, <1>5 DEF BlankRec

\* The types on a new card.
LEMMA TypeInitially ==
    ASSUME Init
    PROVE  TypeInv
<1>1. /\ 0 \in Slots /\ 0 \in 0 .. LogMax /\ 1 \in 1 .. NumFats /\ LRADIX - 1 \in 0 .. LRADIX - 1
      /\ EOC \in Nat /\ LRADIX \in Nat
  BY LogMaxType, SizesAssumption, VolumeAssumption DEF Slots, EOC
<1>2. FatType
  BY <1>1 DEF Init, FatType, Tables, Values
<1>3. \A k \in {"other", "deleted", "end"} : NoEntry(k) \in DirEntries
  BY <1>1 DEF NoEntry, Entry, DirEntries
<1>4. dir \in [Slots -> DirEntries] /\ \A s \in Slots : dir[s].kind # "log"
  BY <1>3 DEF Init, NoEntry, Entry
<1>5. DirType
  BY <1>4 DEF DirType, LogSlots
<1>6. DataType
  BY <1>1 DEF Init, Plain, Contents, DataType
<1>7. FileType
  BY <1>1 DEF Init, NoFile, Logfiles, FileType
<1>8. EepromType
  BY <1>1, BlankType DEF Init, EepromType
<1>9. TaskType
  BY DEF Init, TaskType
<1> QED
  BY <1>2, <1>5, <1>6, <1>7, <1>8, <1>9 DEF TypeInv

\* The types that the steps keep imply the type invariant.
LEMMA TypeInvOK == TypeInv => TypeOK
<1>1. ASSUME NEW q \in Seq(Links), NEW k \in 1 .. Len(q)
      PROVE  q[k].clus \in Entries /\ q[k].val \in Entries \cup {EOC}
  <2>1. q[k] \in Links
    OBVIOUS
  <2> QED
    BY <2>1 DEF Links
<1>2. \A f \in Logfiles : /\ f.first \in {0} \cup Entries /\ f.last \in {0} \cup Entries
                          /\ f.cur \in Nat /\ f.end \in Nat /\ f.slot \in Slots
  BY DEF Logfiles
<1>3. Tables = [Entries -> {0, EOC} \cup Entries]
  BY DEF Tables, Values
<1> SUFFICES ASSUME TypeInv PROVE TypeOK
  OBVIOUS
<1>4. fat \in [1 .. NumFats -> [Entries -> {0, EOC} \cup Entries]] /\ copy \in 1 .. NumFats
  BY <1>3 DEF TypeInv, FatType
<1>5. \A k \in 1 .. Len(todo) : todo[k].clus \in Entries /\ todo[k].val \in Entries \cup {EOC}
  BY <1>1 DEF TypeInv, TaskType
<1>6. /\ logfile.first \in {0} \cup Entries /\ logfile.last \in {0} \cup Entries
      /\ logfile.cur \in Nat /\ logfile.end \in Nat /\ logfile.slot \in Slots
  BY <1>2 DEF TypeInv, FileType
<1> QED
  BY <1>4, <1>5, <1>6 DEF TypeOK, TypeInv, DirType, DataType, EepromType

\* A step leaves most types alone.
LEMMA KeptTypes ==
    ASSUME TypeInv
    PROVE  /\ UNCHANGED <<fat, copy>> => FatType'
           /\ UNCHANGED dir => DirType'
           /\ UNCHANGED data => DataType'
           /\ UNCHANGED <<lognum, rec, num, magic, flags, cut, misplaced, saved>> => EepromType'
           /\ UNCHANGED logfile /\ (pc' \in {"link", "zero", "dir"} =>
                                      pc \in {"link", "zero", "dir"} /\ UNCHANGED mode) => FileType'
           /\ UNCHANGED <<todo, zero>> /\ (pc' = "link" => pc = "link") => TaskType'
<1>1. UNCHANGED <<fat, copy>> => FatType'
  BY DEF TypeInv, FatType
<1>2. UNCHANGED dir => DirType'
  BY DEF TypeInv, DirType, LogSlots
<1>3. UNCHANGED data => DataType'
  BY DEF TypeInv, DataType
<1>4. UNCHANGED <<lognum, rec, num, magic, flags, cut, misplaced, saved>> => EepromType'
  BY DEF TypeInv, EepromType
<1>5. UNCHANGED logfile /\ (pc' \in {"link", "zero", "dir"} =>
                              pc \in {"link", "zero", "dir"} /\ UNCHANGED mode) => FileType'
  BY DEF TypeInv, FileType
<1>6. UNCHANGED <<todo, zero>> /\ (pc' = "link" => pc = "link") => TaskType'
  BY DEF TypeInv, TaskType
<1> QED
  BY <1>1, <1>2, <1>3, <1>4, <1>5, <1>6

\* The log file that a scan finds.
LEMMA ResumedType ==
    ASSUME TypeInv, NameInv, Stop < LogMax, Resumable(Stop)
    PROVE  /\ Min(Match(Stop)) \in LogSlots /\ dir[Min(Match(Stop))].first \in Entries
           /\ Stop \in 0 .. LogMax
<1>1. Match(Stop) \subseteq LogSlots /\ Match(Stop) # {}
  BY DEF Match, Live, LogSlots, Resumable
<1>2. LogSlots \subseteq Nat
  BY VolumeAssumption DEF LogSlots, Slots
<1>3. Min(Match(Stop)) \in LogSlots
  BY <1>1, <1>2, MinIsLeast
<1>4. Stop \in num .. LogMax /\ num \in 0 .. LogMax /\ LogMax \in Nat
  BY StopStops, LogMaxType DEF NameInv, NumInv
<1> QED
  BY <1>3, <1>4 DEF TypeInv, DirType

\* A file is resumed.
LEMMA TypeResume ==
    ASSUME TypeInv, NameInv, OpenResume
    PROVE  TypeInv'
<1>1. PICK s : s = Min(Match(Stop))
  OBVIOUS
<1>2. PICK first : first = dir[s].first
  OBVIOUS
<1>3. /\ s \in Slots /\ first \in Entries /\ Stop \in 0 .. LogMax
      /\ logfile' = [first |-> first, cur |-> Lba(first) + rec, end |-> Lba(first) + NSectors,
                     last |-> IF ChainEnd(first) = EOC
                                THEN CHOOSE c \in Chain(first) : fat[1][c] = EOC ELSE 0,
                     slot |-> s, name |-> Stop, written |-> rec]
  BY <1>1, <1>2, ResumedType DEF OpenResume, ResumeAt, LogSlots
<1>4. logfile'.last \in {0} \cup Entries
  <2>1. fat[1] \in Tables
    BY SizesAssumption DEF TypeInv, FatType
  <2>2. CASE ChainEnd(first) = EOC
    <3>1. EndOf(fat[1], first) = EOC /\ Chain(first) = ChainOf(fat[1], first)
      BY <2>2 DEF ChainEnd, Chain, Link, EndOf, ChainOf
    <3>2. \E c \in Chain(first) : fat[1][c] = EOC
      BY <1>3, <2>1, <3>1, EndIsMarked
    <3>3. (CHOOSE c \in Chain(first) : fat[1][c] = EOC) \in Chain(first)
      BY <3>2
    <3> QED
      BY <1>3, <2>2, <3>3 DEF Chain
  <2>3. CASE ChainEnd(first) # EOC
    BY <1>3, <2>3
  <2> QED
    BY <2>2, <2>3
<1>5. FileType'
  <2>1. rec \in Nat /\ Lba(first) \in Nat /\ NSectors \in Nat
    BY <1>3, LbaType DEF TypeInv, EepromType
  <2>2. logfile' \in Logfiles
    BY <1>3, <1>4, <2>1 DEF Logfiles
  <2> QED
    BY <2>2 DEF OpenResume, ResumeAt, FileType
<1>6. EepromType'
  BY <1>3 DEF OpenResume, ResumeAt, TypeInv, EepromType, eepromVars
<1> QED
  BY <1>5, <1>6, KeptTypes DEF OpenResume, ResumeAt, cardVars, taskVars, TypeInv

\* A file is made.
LEMMA TypeCreate ==
    ASSUME TypeInv, NameInv, OpenCreate
    PROVE  TypeInv'
<1>1. PICK chain \in FirstFree(NClus) :
        /\ todo' = [k \in 1 .. NClus |->
                        [clus |-> chain[k], val |-> IF k < NClus THEN chain[k + 1] ELSE EOC]]
        /\ logfile' = [first |-> chain[1], last |-> chain[NClus], cur |-> Lba(chain[1]),
                       end |-> Lba(chain[1]) + NSectors, slot |-> Min(Usable),
                       name |-> IF Stop = LogMax THEN LogMax - 1 ELSE Stop, written |-> 0]
        /\ zero' = <<Lba(chain[1]), Lba(chain[1]) + NSectors>>
  BY DEF OpenCreate, Create
<1>2. NClus \in Nat /\ NClus >= 1 /\ NSectors \in Nat
  BY ClusCountType, SizesAssumption
<1>3. chain \in [1 .. NClus -> Entries]
  BY DEF FirstFree, FreeClusters
<1>4. Lba(chain[1]) \in Nat /\ Lba(chain[1]) + NSectors \in Nat
  BY <1>2, <1>3, LbaType
<1>5. Stop \in 0 .. LogMax /\ LogMax - 1 \in 0 .. LogMax
  <2>1. Stop \in num .. LogMax /\ num \in 0 .. LogMax /\ LogMax \in Nat /\ 1 < LogMax
    BY StopStops, LogMaxType DEF NameInv, NumInv
  <2> QED
    BY <2>1
<1>6. Min(Usable) \in Slots
  BY UsableIsFree DEF NameInv, OpenCreate, Create
<1>7. FileType'
  <2>1. chain[1] \in Entries /\ chain[NClus] \in Entries
    BY <1>2, <1>3
  <2> QED
    BY <1>1, <1>4, <1>5, <1>6, <2>1 DEF FileType, Logfiles
<1>8. TaskType'
  <2>1. ASSUME NEW k \in 1 .. NClus
        PROVE  [clus |-> chain[k], val |-> IF k < NClus THEN chain[k + 1] ELSE EOC] \in Links
    <3>1. chain[k] \in Entries /\ (k < NClus => chain[k + 1] \in Entries)
      BY <1>2, <1>3
    <3> QED
      BY <3>1 DEF Links
  <2>2. todo' \in [1 .. NClus -> Links]
    BY <1>1, <2>1
  <2>3. todo' \in Seq(Links) /\ Len(todo') = NClus
    BY <1>2, <2>2
  <2>4. todo' # <<>>
    BY <1>2, <2>3
  <2>5. zero' \in Nat \X Nat
    BY <1>1, <1>4
  <2> QED
    BY <2>3, <2>4, <2>5 DEF TaskType
<1>9. EepromType'
  BY <1>5 DEF OpenCreate, Create, TypeInv, EepromType, eepromVars, histVars
<1>10. FatType'
  BY SizesAssumption DEF OpenCreate, Create, cardVars, TypeInv, FatType
<1> QED
  BY <1>7, <1>8, <1>9, <1>10, KeptTypes DEF OpenCreate, Create, cardVars, TypeInv

\* An entry of the FAT is written.
LEMMA TypeWriteFat ==
    ASSUME TypeInv, WriteFatEntry
    PROVE  TypeInv'
<1>1. Head(todo) \in Links /\ Tail(todo) \in Seq(Links) /\ Len(Tail(todo)) = Len(todo) - 1
  BY DEF TypeInv, TaskType, WriteFatEntry
<1>2. PICK clus, val : clus = Head(todo).clus /\ val = Head(todo).val
  OBVIOUS
<1>3. clus \in Entries /\ val \in Values
  BY <1>1, <1>2 DEF Links, Values
<1>4. FatType'
  <2>1. fat' = [fat EXCEPT ![copy][clus] = val]
    BY <1>2 DEF WriteFatEntry
  <2>2. fat' \in [1 .. NumFats -> Tables]
    BY <1>3, <2>1 DEF TypeInv, FatType, Tables
  <2>3. copy' = 1 \/ (copy < NumFats /\ copy' = copy + 1)
    BY DEF WriteFatEntry
  <2>4. copy' \in 1 .. NumFats
    BY <2>3, SizesAssumption DEF TypeInv, FatType
  <2> QED
    BY <2>2, <2>4 DEF FatType
<1>5. TaskType'
  <2>1. Len(todo) \in Nat /\ Len(todo) > 0
    BY DEF TypeInv, TaskType, WriteFatEntry
  <2>2. ASSUME Len(todo) > 1, Tail(todo) = <<>> PROVE FALSE
    <3>1. PICK n \in Nat : n = Len(todo) /\ n > 1 /\ Len(Tail(todo)) = n - 1
      BY <1>1, <2>1, <2>2
    <3>2. Len(Tail(todo)) = 0
      <4>1. Len(<<>>) = 0
        OBVIOUS
      <4> QED
        BY <2>2, <4>1, Zenon
    <3>3. n - 1 = 0 /\ n > 1
      BY <3>1, <3>2, Zenon
    <3> QED
      BY <3>3
  <2>3. zero' = zero /\ (UNCHANGED <<todo, pc>> \/ (todo' = Tail(todo) /\ (pc' = "zero" \/ Len(todo) > 1)))
    BY DEF WriteFatEntry
  <2> QED
    BY <1>1, <2>2, <2>3 DEF TypeInv, TaskType
<1>6. DataType'
  <2>1. Plain("blank") \in Contents
    BY LogMaxType DEF Plain, Contents
  <2>2. \/ data' = data
        \/ data' = [s \in Sectors |-> IF zero[1] <= s /\ s < zero[2] THEN Plain("blank") ELSE data[s]]
    BY DEF WriteFatEntry
  <2> QED
    BY <2>1, <2>2 DEF TypeInv, DataType
<1>7. FileType'
  BY KeptTypes DEF WriteFatEntry
<1> QED
  BY <1>4, <1>5, <1>6, <1>7, KeptTypes DEF WriteFatEntry, eepromVars, histVars, TypeInv

\* A sector is zero-filled.
LEMMA TypeZeroFill ==
    ASSUME TypeInv, ZeroFill
    PROVE  TypeInv'
<1>1. PICK z \in Sectors : z = zero[1]
  BY DEF ZeroFill
<1>2. z \in Nat /\ ClusterOf(z) \in Entries /\ zero[2] \in Nat
  BY <1>1, LbaType DEF TypeInv, TaskType
<1>3. DataType'
  <2>1. Plain("zero") \in Contents
    BY LogMaxType DEF Plain, Contents
  <2> QED
    BY <2>1 DEF ZeroFill, TypeInv, DataType
<1>4. TaskType'
  BY <1>1, <1>2 DEF ZeroFill, TypeInv, TaskType
<1>5. FileType'
  <2>1. logfile' = logfile \/ logfile' = [logfile EXCEPT !.end = zero[2], !.last = ClusterOf(z)]
    BY <1>1 DEF ZeroFill
  <2>2. logfile' \in Logfiles
    BY <1>2, <2>1 DEF TypeInv, FileType, Logfiles
  <2>3. \/ logfile' = logfile /\ pc' \in {"zero", "dir"} /\ UNCHANGED mode
        \/ pc' = "append"
    BY DEF ZeroFill
  <2> QED
    BY <2>2, <2>3 DEF ZeroFill, TypeInv, FileType
<1>6. EepromType'
  BY DEF ZeroFill, TypeInv, EepromType, eepromVars
<1> QED
  BY <1>3, <1>4, <1>5, <1>6, KeptTypes DEF ZeroFill, TypeInv

\* The directory entry is written.
LEMMA TypeWriteDir ==
    ASSUME TypeInv, NameInv, WriteDirEntry
    PROVE  TypeInv'
<1>1. /\ logfile.slot \in Slots /\ logfile.first \in Entries /\ logfile.name \in 0 .. LogMax
      /\ NSectors \in Nat
  BY SizesAssumption DEF WriteDirEntry, TypeInv, FileType, Logfiles, NameInv, PendingInv
<1>2. PICK e : e = Entry("log", logfile.name, logfile.first, NSectors)
  OBVIOUS
<1>3. e \in DirEntries /\ e.first \in Entries
  BY <1>1, <1>2 DEF Entry, DirEntries
<1>4. dir' = [dir EXCEPT ![logfile.slot] = e]
  BY <1>2 DEF WriteDirEntry
<1>5. DirType'
  BY <1>1, <1>3, <1>4 DEF TypeInv, DirType, LogSlots
<1>6. EepromType'
  <2>1. num' \in 0 .. LogMax
    BY NumPreserved DEF NameInv, NumInv, Next
  <2> QED
    BY <2>1 DEF WriteDirEntry, TypeInv, EepromType, eepromVars, histVars
<1> QED
  BY <1>5, <1>6, KeptTypes DEF WriteDirEntry, TypeInv, taskVars

\* A sector is logged.
LEMMA TypeWriteSector ==
    ASSUME TypeInv, AppendSector
    PROVE  TypeInv'
<1>1. DataType'
  <2>1. LogData(logfile.name, logfile.written) \in Contents
    BY DEF LogData, Contents, TypeInv, FileType, Logfiles
  <2>2. data' = data \/ data' = [data EXCEPT ![logfile.cur] = LogData(logfile.name, logfile.written)]
    BY DEF AppendSector, WriteSector
  <2> QED
    BY <2>1, <2>2 DEF TypeInv, DataType
<1>2. FileType'
  <2>1. logfile' = logfile \/ logfile' = [logfile EXCEPT !.cur = @ + 1, !.written = @ + 1]
    BY DEF AppendSector, WriteSector
  <2>2. ASSUME NEW f \in Logfiles PROVE [f EXCEPT !.cur = @ + 1, !.written = @ + 1] \in Logfiles
    <3>1. f.cur + 1 \in Nat /\ f.written + 1 \in Nat
      BY DEF Logfiles
    <3> QED
      BY <3>1 DEF Logfiles
  <2>3. logfile' \in Logfiles
    BY <2>1, <2>2 DEF TypeInv, FileType
  <2> QED
    BY <2>3 DEF AppendSector, WriteSector, FileType
<1> QED
  BY <1>1, <1>2, KeptTypes DEF AppendSector, WriteSector, TypeInv, taskVars, eepromVars, histVars

\* The size is written.
LEMMA TypeFlush ==
    ASSUME TypeInv, FlushDir
    PROVE  TypeInv'
<1>1. PICK s \in Slots : s = logfile.slot
  BY DEF TypeInv, FileType, Logfiles
<1>2. logfile.written \in Nat
  BY DEF TypeInv, FileType, Logfiles
<1>3. dir' = dir \/ dir' = [dir EXCEPT ![s].size = logfile.written]
  BY <1>1 DEF FlushDir
<1>4. dir' \in [Slots -> DirEntries]
  BY <1>2, <1>3 DEF TypeInv, DirType, DirEntries
<1>5. \A t \in Slots : dir'[t].kind = dir[t].kind /\ dir'[t].first = dir[t].first
  BY <1>2, <1>3 DEF TypeInv, DirType, DirEntries
<1>6. DirType'
  BY <1>4, <1>5 DEF TypeInv, DirType, LogSlots
<1>7. pc' \in {"record", "recordcmd"}
  BY DEF FlushDir
<1> QED
  BY <1>6, <1>7, KeptTypes DEF FlushDir, TypeInv, taskVars, eepromVars, histVars

\* A cluster is chosen.
LEMMA TypeExtend ==
    ASSUME TypeInv, Extend
    PROVE  TypeInv'
<1>1. PICK c : c = Min(FreeClusters)
  OBVIOUS
<1>2. c \in Entries
  <2>1. FreeClusters \subseteq Entries
    BY DEF FreeClusters
  <2> QED
    BY <1>1, <2>1, EntriesAre, MinIsLeast DEF Extend
<1>3. logfile.last \in Entries
  BY DEF Extend, TypeInv, FileType, Logfiles
<1>4. /\ todo' = << [clus |-> logfile.last, val |-> c], [clus |-> c, val |-> EOC] >>
      /\ zero' = <<Lba(c), Lba(c) + SecPerClus>>
  BY <1>1 DEF Extend
<1>5. TaskType'
  <2>1. [clus |-> logfile.last, val |-> c] \in Links /\ [clus |-> c, val |-> EOC] \in Links
    BY <1>2, <1>3 DEF Links
  <2>2. Lba(c) \in Nat /\ Lba(c) + SecPerClus \in Nat
    BY <1>2, LbaType
  <2> QED
    BY <1>4, <2>1, <2>2 DEF TaskType
<1>6. FileType'
  BY DEF Extend, TypeInv, FileType
<1>7. FatType'
  BY SizesAssumption DEF Extend, cardVars, TypeInv, FatType
<1> QED
  BY <1>5, <1>6, <1>7, KeptTypes DEF Extend, TypeInv, cardVars, eepromVars, histVars

\* Power comes or goes, or the configuration is saved.
LEMMA TypeBoot ==
    ASSUME TypeInv, NameInv, PowerOn \/ PowerOff \/ ConfigSave
    PROVE  TypeInv'
<1>1. num' \in 0 .. LogMax /\ lognum'.lo \in 0 .. LRADIX - 1 /\ lognum'.hi \in 0 .. LRADIX - 1
  BY NumPreserved DEF NameInv, NumInv, Next
<1>2. CASE PowerOn
  <2>1. EepromType'
    BY <1>1, <1>2 DEF PowerOn, BootWith, eepromVars, histVars, TypeInv, EepromType
  <2> QED
    BY <1>2, <2>1, KeptTypes DEF PowerOn, BootWith, cardVars, TypeInv
<1>3. CASE PowerOff
  <2>1. /\ {magic', flags', cut', misplaced'} \subseteq BOOLEAN /\ saved' \in {"never", "cut", "done"}
        /\ rec' \in Nat
    BY <1>3 DEF PowerOff, eepromVars, TypeInv, EepromType
  <2>2. EepromType'
    BY <1>1, <2>1 DEF EepromType
  <2>3. FileType'
    BY <1>3, VolumeAssumption, LogMaxType DEF PowerOff, FileType, NoFile, Logfiles, Slots
  <2>4. TaskType'
    BY <1>3 DEF PowerOff, TaskType
  <2>5. FatType'
    BY <1>3, SizesAssumption DEF PowerOff, cardVars, TypeInv, FatType
  <2> QED
    BY <1>3, <2>2, <2>3, <2>4, <2>5, KeptTypes DEF PowerOff, cardVars, TypeInv
<1>4. CASE ConfigSave
  <2>1. /\ {magic', flags', cut', misplaced'} \subseteq BOOLEAN /\ saved' \in {"never", "cut", "done"}
        /\ rec' = rec
    BY <1>4 DEF ConfigSave, SaveField, Save, TypeInv, EepromType
  <2>2. EepromType'
    BY <1>1, <2>1 DEF TypeInv, EepromType
  <2>3. pc' \notin {"link", "zero", "dir"}
    BY <1>4 DEF ConfigSave
  <2> QED
    BY <1>4, <2>2, <2>3, KeptTypes DEF ConfigSave, cardVars, taskVars, TypeInv
<1> QED
  BY <1>2, <1>3, <1>4

\* The other steps.
LEMMA TypeOthers ==
    ASSUME TypeInv
    PROVE  /\ OpenFails \/ OpenWild \/ CardRefuses \/ AppendWild \/ UNCHANGED vars => TypeInv'
           /\ FlushRecord => TypeInv'
           /\ TrimFree \/ TrimFull => TypeInv'
<1>1. CASE OpenFails \/ OpenWild \/ CardRefuses \/ AppendWild
  <2>1. pc' \in {"halt", "wild", "run"}
    BY <1>1 DEF OpenFails, OpenWild, CardRefuses, AppendWild
  <2>2. UNCHANGED <<cardVars, eepromVars, num, logfile, taskVars, histVars>>
    BY <1>1 DEF OpenFails, OpenWild, CardRefuses, AppendWild
  <2> QED
    BY <2>1, <2>2, KeptTypes DEF cardVars, eepromVars, taskVars, histVars, TypeInv
<1>2. CASE UNCHANGED vars
  BY <1>2, KeptTypes DEF vars, cardVars, eepromVars, taskVars, histVars, TypeInv
<1>3. CASE FlushRecord
  <2>1. EepromType'
    BY <1>3 DEF FlushRecord, TypeInv, EepromType, FileType, Logfiles, histVars
  <2>2. pc' \in {"run", "prompt"}
    BY <1>3 DEF FlushRecord
  <2> QED
    BY <1>3, <2>1, <2>2, KeptTypes DEF FlushRecord, cardVars, taskVars, TypeInv
<1>4. Plain("blank") \in Contents /\ NoEntry("end") \in DirEntries
  BY LogMaxType DEF Plain, Contents, NoEntry, Entry, DirEntries
<1>5. CASE TrimFree
  <2>1. DataType'
    BY <1>4, <1>5 DEF TrimFree, TypeInv, DataType
  <2> QED
    BY <1>5, <2>1, KeptTypes DEF TrimFree, taskVars, eepromVars, histVars, TypeInv
<1>6. CASE TrimFull
  <2>1. DataType'
    BY <1>4, <1>6 DEF TrimFull, TypeInv, DataType
  <2>2. DirType'
    BY <1>4, <1>6 DEF TrimFull, DirType, LogSlots, NoEntry, Entry
  <2> QED
    BY <1>6, <2>1, <2>2, KeptTypes DEF TrimFull, taskVars, eepromVars, histVars, TypeInv
<1> QED
  BY <1>1, <1>2, <1>3, <1>5, <1>6

\* Every step keeps the types.
LEMMA TypePreserved ==
    ASSUME TypeInv, NameInv, [Next]_vars
    PROVE  TypeInv'
BY TypeBoot, TypeResume, TypeCreate, TypeWriteFat, TypeZeroFill, TypeWriteDir, TypeWriteSector,
   TypeFlush, TypeExtend, TypeOthers DEF Next

\* With the names they rest on, the types hold always.
LEMMA TypesAlways == Spec => [](TypeInv /\ NameInv)
<1>1. TypeInv /\ NameInv /\ [Next]_vars => TypeInv'
  BY TypePreserved
<1>2. Init => TypeInv
  BY TypeInitially
<1> QED
  BY <1>1, <1>2, NameInvariant, PTL DEF Spec

\* The variables have their types, the FAT entries and the numbers in EEPROM
\* those of their fields, in every session.
THEOREM TypeCorrect == Spec => []TypeOK
<1>1. TypeInv => TypeOK
  BY TypeInvOK
<1> QED
  BY <1>1, TypesAlways, PTL

-----------------------------------------------------------------------------
(* Tables that are filled in order *)

Foreign == {2} \cup Occupied

\* Links lead to later clusters, the clusters of other files are not free, and
\* what the logger has taken lies before all that is free.
Ordered(table) ==
    /\ Rising(table)
    /\ \A c \in Foreign : table[c] # 0
    /\ \A c \in Entries \ Foreign, f \in Entries : table[c] # 0 /\ table[f] = 0 => c < f

TrunkOf(table, first, last) == {c \in ChainOf(table, first) : c <= last}

\* The link of the cluster at place i of a new file.
After(q, i) == IF i < NClus THEN q[i + 1] ELSE EOC

\* A chain is a finite set of clusters that its first is in.
LEMMA ChainIs ==
    ASSUME NEW table \in Tables, NEW first \in Entries
    PROVE  /\ first \in Values /\ first \in ChainOf(table, first)
           /\ ChainOf(table, first) \subseteq Entries
           /\ IsFiniteSet(ChainOf(table, first))
<1>1. first \in Values
  BY DEF Values
<1>2. Follow(table, first)[0] = first /\ 0 \in 0 .. LastEntry
  BY <1>1, FollowIs, EntriesAre
<1>3. first \in ChainOf(table, first)
  BY <1>2 DEF ChainOf
<1>4. IsFiniteSet(Entries)
  BY FS_Interval, VolumeAssumption DEF Entries
<1>5. ChainOf(table, first) \subseteq Entries
  BY DEF ChainOf
<1> QED
  BY <1>1, <1>3, <1>4, <1>5, FS_Subset

\* Writing a cluster that comes before all that is free keeps the order.
LEMMA OrderedWrite ==
    ASSUME NEW table \in Tables, Ordered(table),
           NEW c \in Entries \ Foreign, NEW val \in Values, val # 0, val \in Entries => c < val,
           \A f \in Entries : table[f] = 0 => c <= f
    PROVE  /\ [table EXCEPT ![c] = val] \in Tables
           /\ Ordered([table EXCEPT ![c] = val])
<1>1. PICK t : t = [table EXCEPT ![c] = val]
  OBVIOUS
<1>2. t \in Tables /\ t[c] = val /\ \A x \in Entries : x # c => t[x] = table[x]
  BY <1>1 DEF Tables
<1>3. Rising(t)
  BY <1>2 DEF Rising, Ordered
<1>4. \A x \in Foreign : t[x] # 0
  <2>1. Foreign \subseteq Entries
    BY VolumeAssumption DEF Foreign, Entries
  <2> QED
    BY <1>2, <2>1 DEF Ordered
<1>5. ASSUME NEW x \in Entries \ Foreign, NEW f \in Entries, t[x] # 0, t[f] = 0 PROVE x < f
  <2>1. f # c /\ table[f] = 0 /\ c <= f /\ c \in Nat /\ f \in Nat
    BY <1>2, <1>5, EntriesAre
  <2>2. CASE x = c
    BY <2>1, <2>2
  <2>3. CASE x # c
    BY <1>2, <1>5, <2>1, <2>3 DEF Ordered
  <2> QED
    BY <2>2, <2>3
<1> QED
  BY <1>1, <1>2, <1>3, <1>4, <1>5 DEF Ordered

\* Linking cluster c after the last one, l, keeps the chain up to there and adds
\* nothing but c.
LEMMA ChainExtended ==
    ASSUME NEW table \in Tables, NEW table2 \in Tables, Rising(table),
           NEW first \in Entries, NEW l \in ChainOf(table, first), NEW c \in Entries, l < c,
           \A x \in Entries : x < l => table2[x] = table[x],
           table2[l] = c, table2[c] \in {0, EOC}
    PROVE  /\ ChainOf(table2, first) \subseteq TrunkOf(table, first, l) \cup {c}
           /\ TrunkOf(table, first, l) \subseteq TrunkOf(table2, first, l)
<1>1. /\ first \in Values /\ first \in ChainOf(table, first)
      /\ ChainOf(table, first) \subseteq Entries /\ Entries \subseteq Nat
      /\ l \in Entries /\ l \in Nat /\ c \in Nat
  BY ChainIs, EntriesAre
<1>2. first <= l
  <2>1. CASE l < first
    <3>1. PICK k \in 0 .. LastEntry : Follow(table, first)[k] = l
      BY DEF ChainOf
    <3>2. Follow(table, first)[0] = first
      BY <1>1, FollowIs
    <3>3. k # 0
      BY <1>1, <2>1, <3>1, <3>2
    <3>4. 0 \in 0 .. k - 1
      BY <3>3, EntriesAre
    <3>5. first < l
      BY <1>1, <3>1, <3>2, <3>4, ChainOrder
    <3> QED
      BY <1>1, <2>1, <3>5
  <2> QED
    BY <1>1, <2>1
<1> DEFINE S == TrunkOf(table, first, l) \cup {c, 0, EOC}
<1>3. first \in S
  BY <1>1, <1>2 DEF TrunkOf
<1>4. ASSUME NEW x \in S \cap Entries PROVE table2[x] \in S
  <2>1. CASE x = c
    BY <2>1
  <2>2. CASE x = l
    BY <2>2
  <2>3. CASE x # c /\ x # l
    <3>1. x \in ChainOf(table, first) /\ x <= l
      BY <2>3, <1>4, EntriesAre DEF TrunkOf
    <3>2. x < l
      BY <1>1, <2>3, <3>1
    <3>3. table[x] \in Entries /\ table[x] <= l
      BY <1>1, <3>1, <3>2, ChainBetween
    <3>4. table[x] \in ChainOf(table, first)
      BY <1>1, <3>1, <3>3, ChainClosed, EntriesAre
    <3> QED
      BY <1>4, <3>2, <3>3, <3>4 DEF TrunkOf
  <2> QED
    BY <2>1, <2>2, <2>3
<1>5. ChainOf(table2, first) \subseteq S
  <2> HIDE DEF S
  <2> QED
    BY <1>1, <1>3, <1>4, ChainStays
<1>6. ChainOf(table2, first) \subseteq Entries
  BY DEF ChainOf
<1>7. TrunkOf(table, first, l) \subseteq TrunkOf(table2, first, l)
  <2>1. ASSUME NEW x \in ChainOf(table, first), x <= l PROVE x \in ChainOf(table2, first)
    BY <1>1, <2>1, TrunkStays
  <2> QED
    BY <2>1 DEF TrunkOf
<1> QED
  BY <1>5, <1>6, <1>7, EntriesAre

\* The chain of a new file is the clusters linked for it.
LEMMA NewChain ==
    ASSUME NEW table \in Tables, Rising(table), NEW q \in [1 .. NClus -> Entries],
           \A i \in 1 .. NClus : table[q[i]] = After(q, i)
    PROVE  ChainOf(table, q[1]) = {q[i] : i \in 1 .. NClus}
<1>0. NClus \in Nat /\ NClus >= 1 /\ 1 \in 1 .. NClus /\ NClus - 1 \in Nat
  BY ClusCountType
<1>1. /\ q[1] \in Entries /\ q[1] \in Values /\ q[1] \in ChainOf(table, q[1])
      /\ ChainOf(table, q[1]) \subseteq Entries
  BY <1>0, ChainIs
<1> DEFINE R == {q[i] : i \in 1 .. NClus}
           S == R \cup {EOC}
<1>2. ChainOf(table, q[1]) \subseteq R
  <2>1. ASSUME NEW c \in S \cap Entries PROVE table[c] \in S
    <3>1. PICK i \in 1 .. NClus : c = q[i]
      BY <2>1, EntriesAre
    <3>2. i < NClus => i + 1 \in 1 .. NClus
      BY <1>0
    <3> QED
      BY <3>1, <3>2 DEF After
  <2>2. q[1] \in S
    BY <1>0
  <2>3. ChainOf(table, q[1]) \subseteq S
    <3> HIDE DEF S
    <3> QED
      BY <1>1, <2>1, <2>2, ChainStays
  <2> QED
    BY <1>1, <2>3, EntriesAre
<1> DEFINE K == {k \in 0 .. NClus - 1 : q[k + 1] \in ChainOf(table, q[1])}
<1>3. 0 \in K
  BY <1>0, <1>1
<1>4. ASSUME NEW k \in 0 .. (NClus - 1) - 1, k \in K PROVE k + 1 \in K
  <2>1. /\ k + 1 \in 1 .. NClus /\ k + 1 < NClus /\ k + 1 \in 0 .. NClus - 1
        /\ (k + 1) + 1 \in 1 .. NClus
    BY <1>0
  <2>2. table[q[k + 1]] = q[(k + 1) + 1] /\ q[(k + 1) + 1] \in Entries
    BY <2>1 DEF After
  <2>3. q[(k + 1) + 1] \in ChainOf(table, q[1])
    BY <1>1, <1>4, <2>2, ChainClosed, EntriesAre
  <2> QED
    BY <2>1, <2>3
<1>5. 0 .. NClus - 1 \subseteq K
  <2> HIDE DEF K
  <2> QED
    BY <1>0, <1>3, <1>4, StepByStep
<1>6. ASSUME NEW i \in 1 .. NClus PROVE q[i] \in ChainOf(table, q[1])
  <2>1. i - 1 \in 0 .. NClus - 1 /\ (i - 1) + 1 = i
    BY <1>0
  <2>2. i - 1 \in K
    BY <1>5, <2>1
  <2> QED
    BY <2>1, <2>2
<1> QED
  BY <1>2, <1>6

\* Ascending clusters are as many as their places.
LEMMA AscendingCount ==
    ASSUME NEW q \in [1 .. NClus -> Entries], \A i, j \in 1 .. NClus : i < j => q[i] < q[j],
           NEW S, IsFiniteSet(S), \A i \in 1 .. NClus : q[i] \in S
    PROVE  Cardinality(S) >= NClus
<1>0. NClus \in Nat /\ NClus >= 1
  BY ClusCountType
<1>1. ASSUME NEW i \in 1 .. NClus, NEW j \in 1 .. NClus, q[i] = q[j] PROVE i = j
  <2>1. PICK n \in Nat : n = q[i] /\ n = q[j]
    BY <1>1, EntriesAre
  <2>3. ~ (q[i] < q[j]) /\ ~ (q[j] < q[i])
    BY <2>1
  <2>2. ~ (i < j) /\ ~ (j < i)
    BY <2>3
  <2> QED
    BY <1>0, <2>2
<1>2. q \in [1 .. NClus -> S]
  OBVIOUS
<1>3. q \in Injection(1 .. NClus, S)
  BY <1>1, <1>2 DEF Injection, IsInjective
<1>4. Cardinality(1 .. NClus) <= Cardinality(S)
  BY <1>3, FS_Injection
<1>5. Cardinality(1 .. NClus) = NClus
  BY <1>0, FS_Interval
<1>6. Cardinality(S) \in Nat
  BY FS_CardinalityType
<1> QED
  BY <1>0, <1>4, <1>5, <1>6

-----------------------------------------------------------------------------
(* The chains of the files *)

\* A file of the logger that is in use, and one that is being made.
Active == \/ pc \in {"run", "record", "append"}
          \/ pc \in {"link", "zero"} /\ mode = "extend"
          \/ pc \in {"magic", "lo", "hi", "flags"} /\ mode = "create"
Making == pc \in {"link", "zero", "dir"} /\ mode = "create"

\* What mode can be.
ModeInv == /\ pc = "open" => mode = "boot"
           /\ pc \in {"magic", "lo", "hi", "flags"} => mode \in {"boot", "create"}
           /\ pc \in {"link", "zero"} => mode \in {"create", "extend"}

\* The chains of the files in the directory: apart, large enough, and without a
\* link into a free cluster, but for the file that is being extended.
FileChain(s) == ChainOf(fat[1], dir[s].first)
ApartInv ==
    \A s \in LogSlots :
        /\ FileChain(s) \cap Foreign = {}
        /\ Cardinality(FileChain(s)) >= NClus
        /\ \A t \in LogSlots \ {s} : FileChain(s) \cap FileChain(t) = {}
Whole(s) == \A c \in FileChain(s) : fat[1][c] # 0
WholeInv == \A s \in LogSlots : \/ Whole(s)
                                \/ dir[s].first = logfile.first /\ mode = "extend" /\ pc # "off"

\* The file that is being made has its clusters q to itself, the first j of
\* them linked.
MakingBy(q, j) ==
    /\ logfile.first = q[1] /\ logfile.last = q[NClus]
    /\ \A i, k \in 1 .. NClus : i < k => q[i] < q[k]
    /\ todo = [k \in 1 .. NClus - j |-> [clus |-> q[j + k], val |-> After(q, j + k)]]
    /\ pc = "link" <=> j < NClus
    /\ \A i \in 1 .. NClus :
          fat[1][q[i]] = IF i <= j \/ (i = j + 1 /\ copy > 1) THEN After(q, i) ELSE 0
    /\ \A f \in Entries : fat[1][f] = 0 /\ f < q[NClus] => \E i \in 1 .. NClus : q[i] = f
    /\ \A s \in LogSlots : \A i \in 1 .. NClus : q[i] \notin FileChain(s)
MakingInv == Making => \E q \in [1 .. NClus -> Entries \ Foreign] : \E j \in 0 .. NClus : MakingBy(q, j)

\* The file in use is in the directory, its chain up to logfile.last is large
\* enough, and after it comes the end or what a refused extension has left.
Trunk == TrunkOf(fat[1], logfile.first, logfile.last)
Added == fat[1][logfile.last]
ActiveBody ==
    /\ logfile.slot \in LogSlots /\ dir[logfile.slot].first = logfile.first
    /\ logfile.last \in Trunk /\ Cardinality(Trunk) >= NClus
    /\ \/ Added = EOC
       \/ /\ mode = "extend" /\ Added \in Entries /\ logfile.last < Added
          /\ fat[1][Added] \in {0, EOC} /\ \A f \in Entries : fat[1][f] = 0 => Added <= f
ActiveInv == Active => ActiveBody

\* The cluster c that is being added to it.
ExtendBy(c) ==
    /\ logfile.last < c
    /\ zero[2] = Lba(c) + SecPerClus /\ Lba(c) <= zero[1] /\ zero[1] < zero[2]
    /\ \A f \in Entries : fat[1][f] = 0 => c <= f
    /\ \/ /\ pc = "link" /\ todo = << [clus |-> logfile.last, val |-> c], [clus |-> c, val |-> EOC] >>
          /\ fat[1][c] = 0 /\ (copy > 1 => Added = c)
       \/ /\ pc = "link" /\ todo = << [clus |-> c, val |-> EOC] >>
          /\ Added = c /\ fat[1][c] = IF copy > 1 THEN EOC ELSE 0
       \/ pc = "zero" /\ Added = c /\ fat[1][c] = EOC
ExtendInv == pc \in {"link", "zero"} /\ mode = "extend" => \E c \in Entries \ Foreign : ExtendBy(c)

ChainInv == ModeInv /\ (~ cut => /\ Ordered(fat[1]) /\ ApartInv /\ WholeInv
                                 /\ MakingInv /\ ActiveInv /\ ExtendInv)

\* Steps that leave the FAT and the places of the files alone keep most of it.
LEMMA ChainsKept ==
    ASSUME fat'[1] = fat[1], LogSlots' = LogSlots, \A s \in LogSlots : dir'[s].first = dir[s].first
    PROVE  /\ Ordered(fat[1]) => Ordered(fat'[1])
           /\ \A s \in LogSlots : FileChain(s)' = FileChain(s)
           /\ ApartInv => ApartInv'
           /\ WholeInv /\ ~ (mode = "extend" /\ pc # "off") => WholeInv'
           /\ WholeInv /\ logfile'.first = logfile.first /\ mode' = "extend" /\ pc' # "off" => WholeInv'
           /\ ActiveBody /\ logfile'.slot = logfile.slot /\ logfile'.first = logfile.first
                /\ logfile'.last = logfile.last /\ mode' \in {mode, "extend"} => ActiveBody'
<1>1. \A s \in LogSlots : FileChain(s)' = FileChain(s)
  BY DEF FileChain
<1>2. \A s \in LogSlots : Whole(s) => Whole(s)'
  BY <1>1 DEF Whole
<1>3. ApartInv => ApartInv'
  BY <1>1 DEF ApartInv
<1>4. WholeInv /\ ~ (mode = "extend" /\ pc # "off") => WholeInv'
  BY <1>2 DEF WholeInv
<1>5. WholeInv /\ logfile'.first = logfile.first /\ mode' = "extend" /\ pc' # "off" => WholeInv'
  BY <1>2 DEF WholeInv
<1>6. ActiveBody /\ logfile'.slot = logfile.slot /\ logfile'.first = logfile.first
        /\ logfile'.last = logfile.last /\ mode' \in {mode, "extend"} => ActiveBody'
  <2>1. logfile'.first = logfile.first /\ logfile'.last = logfile.last => Trunk' = Trunk /\ Added' = Added
    BY DEF Trunk, Added
  <2> QED
    BY <2>1 DEF ActiveBody
<1> QED
  BY <1>1, <1>3, <1>4, <1>5, <1>6

\* Files that are not in use keep their clusters.
LEMMA ChainsApart ==
    ASSUME ApartInv, DirType, FatType, NEW s \in LogSlots, NEW t \in LogSlots, dir[s].first = dir[t].first
    PROVE  s = t
<1>1. fat[1] \in Tables /\ dir[s].first \in Entries
  BY SizesAssumption DEF FatType, DirType
<1>2. dir[s].first \in FileChain(s) /\ dir[s].first \in FileChain(t)
  BY <1>1, ChainIs DEF FileChain
<1> QED
  BY <1>2 DEF ApartInv

-----------------------------------------------------------------------------
(* Chains: steps that write no cluster *)

\* What the steps keep of mode.
LEMMA ModePreserved ==
    ASSUME ModeInv, PendingInv, [Next]_vars
    PROVE  ModeInv'
<1>1. CASE PowerOn \/ PowerOff
  BY <1>1 DEF PowerOn, BootWith, PowerOff, ModeInv
<1>2. CASE ConfigSave
  <2>1. mode' = mode /\ pc \in {"magic", "lo", "hi", "flags"} /\ mode \in {"boot", "create"}
    BY <1>2 DEF ConfigSave, ModeInv, taskVars
  <2>2. pc' \in {"lo", "hi", "flags", "run"} \/ (pc' = "open" /\ mode = "boot")
    BY <1>2 DEF ConfigSave
  <2> QED
    BY <2>1, <2>2 DEF ModeInv
<1>3. CASE OpenCreate \/ Extend
  BY <1>3 DEF OpenCreate, Create, Extend, ModeInv
<1>4. CASE WriteFatEntry
  <2>1. pc = "link" /\ mode' = mode /\ pc' \in {"link", "zero"}
    BY <1>4 DEF WriteFatEntry
  <2> QED
    BY <2>1 DEF ModeInv
<1>5. CASE ZeroFill
  <2>1. pc = "zero" /\ mode' = mode /\ pc' \in {"zero", "dir", "append"}
    BY <1>5 DEF ZeroFill
  <2> QED
    BY <2>1 DEF ModeInv
<1>6. CASE WriteDirEntry
  BY <1>6 DEF WriteDirEntry, ModeInv, PendingInv, taskVars
<1>7. CASE UNCHANGED vars
  BY <1>7 DEF vars, taskVars, ModeInv
<1>8. CASE OpenResume \/ OpenFails \/ OpenWild \/ CardRefuses \/ AppendSector \/ AppendWild
           \/ FlushDir \/ FlushRecord \/ TrimFree \/ TrimFull
  <2>1. pc' \in {"run", "halt", "wild", "record", "recordcmd", "prompt"}
    BY <1>8 DEF OpenResume, ResumeAt, OpenFails, OpenWild, CardRefuses, AppendSector, WriteSector,
                AppendWild, FlushDir, FlushRecord, TrimFree, TrimFull
  <2> QED
    BY <2>1 DEF ModeInv
<1> QED
  BY <1>1, <1>2, <1>3, <1>4, <1>5, <1>6, <1>7, <1>8 DEF Next

\* The invariant while the history does not except it.
Chains == Ordered(fat[1]) /\ ApartInv /\ WholeInv /\ MakingInv /\ ActiveInv /\ ExtendInv

\* Power comes, or the configuration is saved.
LEMMA ChainsBoot ==
    ASSUME Chains, ModeInv, PowerOn \/ ConfigSave
    PROVE  Chains'
<1>1. fat' = fat /\ dir' = dir /\ logfile' = logfile
  BY DEF PowerOn, BootWith, ConfigSave, cardVars
<1>2. LogSlots' = LogSlots
  BY <1>1 DEF LogSlots
<1>3. ~ (mode = "extend" /\ pc # "off")
  BY DEF PowerOn, BootWith, ConfigSave, ModeInv
<1>4. Active' => Active /\ mode' = mode
  <2>1. CASE PowerOn
    <3>1. pc' \in {"magic", "open"} /\ mode' = "boot"
      BY <2>1 DEF PowerOn, BootWith
    <3> QED
      BY <3>1 DEF Active
  <2>2. CASE ConfigSave
    <3>1. pc \in {"magic", "lo", "hi", "flags"} /\ mode' = mode /\ mode \in {"boot", "create"}
      BY <2>2 DEF ConfigSave, taskVars, ModeInv
    <3>2. pc' \in {"lo", "hi", "flags", "open"} \/ (pc' = "run" /\ mode # "boot")
      BY <2>2 DEF ConfigSave
    <3> QED
      BY <3>1, <3>2 DEF Active
  <2> QED
    BY <2>1, <2>2
<1>5. pc' \notin {"link", "zero", "dir"}
  BY DEF PowerOn, BootWith, ConfigSave
<1>6. MakingInv' /\ ExtendInv'
  BY <1>5 DEF MakingInv, Making, ExtendInv
<1>7. ActiveInv'
  BY <1>1, <1>2, <1>4, ChainsKept DEF Chains, ActiveInv
<1> QED
  BY <1>1, <1>2, <1>3, <1>6, <1>7, ChainsKept DEF Chains

\* Power goes, and leaves no chain with an end that is not marked.
LEMMA ChainsOff ==
    ASSUME Chains, TypeInv, PowerOff, ~ cut'
    PROVE  Chains'
<1>1. fat' = fat /\ dir' = dir /\ pc' = "off"
  BY DEF PowerOff, cardVars
<1>2. LogSlots' = LogSlots
  BY <1>1 DEF LogSlots
<1>3. \A s \in LogSlots : ChainEnd(dir[s].first) # 0
  BY DEF PowerOff, LogSlots
<1>4. ASSUME NEW s \in LogSlots PROVE Whole(s)
  <2>1. fat[1] \in Tables /\ Rising(fat[1])
    BY SizesAssumption DEF TypeInv, FatType, Chains, Ordered
  <2>2. dir[s].first \in Values /\ EndOf(fat[1], dir[s].first) # 0
    BY <1>3 DEF TypeInv, DirType, Values, EndOf, ChainEnd, Link
  <2> QED
    BY <2>1, <2>2, ChainHole DEF Whole, FileChain
<1>5. WholeInv'
  BY <1>1, <1>2, <1>4 DEF WholeInv, Whole, FileChain
<1>6. MakingInv' /\ ActiveInv' /\ ExtendInv'
  BY <1>1 DEF MakingInv, Making, ActiveInv, Active, ExtendInv
<1> QED
  BY <1>1, <1>2, <1>5, <1>6, ChainsKept DEF Chains

\* The session ends in an error, the card refuses a sector, or the step has
\* nothing to do with chains.
LEMMA ChainsQuiet ==
    ASSUME Chains, ModeInv, PendingInv, TypeInv,
           OpenFails \/ OpenWild \/ AppendWild \/ CardRefuses \/ AppendSector \/ FlushRecord \/ TrimFree
    PROVE  Chains'
<1>1. /\ fat' = fat /\ dir' = dir /\ mode' = mode /\ pc' # "off"
      /\ logfile' = logfile \/ logfile' = [logfile EXCEPT !.cur = @ + 1, !.written = @ + 1]
  BY DEF OpenFails, OpenWild, AppendWild, CardRefuses, AppendSector, WriteSector, FlushRecord, TrimFree,
         cardVars, taskVars
<1>2. logfile'.first = logfile.first /\ logfile'.last = logfile.last /\ logfile'.slot = logfile.slot
  BY <1>1 DEF TypeInv, FileType, Logfiles
<1>3. LogSlots' = LogSlots
  BY <1>1 DEF LogSlots
<1>4. pc' \in {"halt", "wild", "run", "prompt"}
  BY DEF OpenFails, OpenWild, AppendWild, CardRefuses, AppendSector, WriteSector, FlushRecord, TrimFree
<1>5. pc' = "run" => Active
  BY DEF OpenFails, OpenWild, AppendWild, CardRefuses, AppendSector, WriteSector, FlushRecord, TrimFree,
         Active, ModeInv, PendingInv
<1>6. WholeInv'
  BY <1>1, <1>2, <1>3, ChainsKept DEF Chains
<1>7. MakingInv' /\ ExtendInv'
  BY <1>4 DEF MakingInv, Making, ExtendInv
<1>8. ActiveInv'
  <2>1. Active' => Active
    BY <1>4, <1>5 DEF Active
  <2> QED
    BY <1>1, <1>2, <1>3, <2>1, ChainsKept DEF Chains, ActiveInv
<1> QED
  BY <1>1, <1>3, <1>6, <1>7, <1>8, ChainsKept DEF Chains

\* A flush writes the size of a file, and full trim empties the directory.
LEMMA ChainsDir ==
    ASSUME Chains, NameInv, TypeInv, FlushDir \/ TrimFull
    PROVE  Chains'
<1>1. fat' = fat /\ logfile' = logfile /\ mode' = mode
  BY DEF FlushDir, TrimFull, taskVars
<1>2. CASE FlushDir
  <2>1. /\ \A s \in Slots : dir'[s].kind = dir[s].kind
        /\ pc' \in {"record", "recordcmd"} /\ (pc' = "record" => pc = "run")
    BY <1>2, FlushKeepsNames DEF NameInv, FlushDir
  <2>2. LogSlots' = LogSlots
    BY <2>1 DEF LogSlots
  <2>3. \A s \in LogSlots : dir'[s].first = dir[s].first
    BY <1>2 DEF FlushDir, TypeInv, DirType, DirEntries, LogSlots
  <2>4. Active' => Active
    BY <2>1 DEF Active
  <2>5. ActiveInv'
    BY <1>1, <2>2, <2>3, <2>4, ChainsKept DEF Chains, ActiveInv
  <2>6. MakingInv' /\ ExtendInv'
    BY <2>1 DEF MakingInv, Making, ExtendInv
  <2>7. WholeInv'
    BY <1>1, <2>1, <2>2, <2>3, ChainsKept DEF Chains
  <2> QED
    BY <1>1, <2>2, <2>3, <2>5, <2>6, <2>7, ChainsKept DEF Chains
<1>3. CASE TrimFull
  <2>1. pc' = "prompt"
    BY <1>3 DEF TrimFull
  <2>2. LogSlots' = {}
    BY <1>3 DEF TrimFull, LogSlots, NoEntry, Entry
  <2>3. MakingInv' /\ ActiveInv' /\ ExtendInv'
    BY <2>1 DEF MakingInv, Making, ActiveInv, Active, ExtendInv
  <2>4. ApartInv' /\ WholeInv'
    BY <2>2 DEF ApartInv, WholeInv
  <2>5. Ordered(fat'[1])
    BY <1>1 DEF Chains
  <2> QED
    BY <2>3, <2>4, <2>5 DEF Chains
<1> QED
  BY <1>2, <1>3

\* A file that is resumed has a complete chain, and its last cluster is found.
LEMMA ChainsResume ==
    ASSUME Chains, ModeInv, NameInv, TypeInv, OpenResume
    PROVE  Chains'
<1>1. /\ fat' = fat /\ dir' = dir /\ mode' = mode /\ pc' = "run" /\ mode = "boot" /\ mode # "extend"
      /\ Stop < LogMax /\ Resumable(Stop)
  BY DEF OpenResume, ResumeAt, cardVars, taskVars, ModeInv
<1>2. LogSlots' = LogSlots
  BY <1>1 DEF LogSlots
<1>3. PICK s : s = Min(Match(Stop))
  OBVIOUS
<1>4. PICK first : first = dir[s].first
  OBVIOUS
<1>5. PICK last : last = IF ChainEnd(first) = EOC
                           THEN CHOOSE c \in Chain(first) : fat[1][c] = EOC ELSE 0
  OBVIOUS
<1>6. s \in LogSlots /\ first \in Entries
  BY <1>1, <1>3, <1>4, ResumedType
<1>7. logfile'.first = first /\ logfile'.last = last /\ logfile'.slot = s
  BY <1>3, <1>4, <1>5 DEF OpenResume, ResumeAt
<1>8. fat[1] \in Tables /\ Rising(fat[1]) /\ first \in Values /\ FileChain(s) = ChainOf(fat[1], first)
  BY <1>4, <1>6, SizesAssumption DEF TypeInv, FatType, Chains, Ordered, Values, FileChain
<1>9. Whole(s)
  BY <1>1, <1>6 DEF Chains, WholeInv
<1>10. /\ EndOf(fat[1], first) = EOC
       /\ \E c \in ChainOf(fat[1], first) : fat[1][c] = EOC
  BY <1>6, <1>8, <1>9, ChainMarked DEF Whole
<1>11. last \in ChainOf(fat[1], first) /\ fat[1][last] = EOC
  BY <1>5, <1>10 DEF ChainEnd, Chain, Link, EndOf, ChainOf
<1>12. TrunkOf(fat[1], first, last) = ChainOf(fat[1], first)
  <2>1. ASSUME NEW c \in ChainOf(fat[1], first) PROVE c <= last
    <3>1. c \in Nat /\ last \in Nat
      BY <1>6, <1>8, <1>11, ChainIs, EntriesAre
    <3>2. ~ (last < c)
      BY <1>8, <1>11, ChainBetween, EntriesAre
    <3> QED
      BY <3>1, <3>2
  <2> QED
    BY <2>1 DEF TrunkOf
<1>13. ActiveBody'
  <2>1. Trunk' = FileChain(s) /\ Added' = EOC
    BY <1>1, <1>7, <1>8, <1>11, <1>12 DEF Trunk, Added
  <2>2. Cardinality(FileChain(s)) >= NClus
    BY <1>6 DEF Chains, ApartInv
  <2> QED
    BY <1>1, <1>2, <1>4, <1>6, <1>7, <1>8, <1>11, <2>1, <2>2 DEF ActiveBody
<1>14. MakingInv' /\ ExtendInv' /\ ActiveInv'
  BY <1>1, <1>13 DEF MakingInv, Making, ExtendInv, ActiveInv
<1> QED
  BY <1>1, <1>2, <1>14, ChainsKept DEF Chains

\* The clusters for a new file are free, so no file has them.
LEMMA ChainsCreate ==
    ASSUME Chains, ModeInv, NameInv, TypeInv, OpenCreate
    PROVE  Chains'
<1>1. /\ fat' = fat /\ dir' = dir /\ mode' = "create" /\ pc' = "link" /\ copy' = 1
      /\ mode = "boot" /\ mode # "extend"
  BY DEF OpenCreate, Create, cardVars, ModeInv
<1>2. LogSlots' = LogSlots
  BY <1>1 DEF LogSlots
<1>3. PICK q \in FirstFree(NClus) :
        /\ todo' = [k \in 1 .. NClus |->
                        [clus |-> q[k], val |-> IF k < NClus THEN q[k + 1] ELSE EOC]]
        /\ logfile'.first = q[1] /\ logfile'.last = q[NClus]
  BY DEF OpenCreate, Create
<1>4. NClus \in Nat /\ NClus >= 1 /\ NClus \in 1 .. NClus
  BY ClusCountType
<1>5. /\ q \in [1 .. NClus -> FreeClusters]
      /\ \A i, k \in 1 .. NClus : i < k => q[i] < q[k]
      /\ \A c \in FreeClusters : c < q[NClus] => \E i \in 1 .. NClus : q[i] = c
  BY DEF FirstFree
<1>6. \A c \in FreeClusters : c \in Entries \ Foreign /\ fat[1][c] = 0
  BY DEF FreeClusters, Chains, Ordered
<1>7. q \in [1 .. NClus -> Entries \ Foreign] /\ \A i \in 1 .. NClus : fat[1][q[i]] = 0
  BY <1>5, <1>6
<1>8. \A s \in LogSlots : \A i \in 1 .. NClus : q[i] \notin FileChain(s)
  BY <1>1, <1>7 DEF Chains, WholeInv, Whole
<1>9. MakingBy(q, 0)'
  <2>1. todo' = [k \in 1 .. NClus - 0 |-> [clus |-> q[0 + k], val |-> After(q, 0 + k)]]
    <3>1. NClus - 0 = NClus /\ \A k \in 1 .. NClus : 0 + k = k
      BY <1>4
    <3> QED
      BY <1>3, <3>1 DEF After
  <2>2. ASSUME NEW i \in 1 .. NClus
        PROVE fat'[1][q[i]] = IF i <= 0 \/ (i = 0 + 1 /\ copy' > 1) THEN After(q, i) ELSE 0
    BY <1>1, <1>4, <1>7
  <2>3. \A f \in Entries : fat'[1][f] = 0 /\ f < q[NClus] => \E i \in 1 .. NClus : q[i] = f
    BY <1>1, <1>5 DEF FreeClusters
  <2>4. \A s \in LogSlots' : \A i \in 1 .. NClus : q[i] \notin FileChain(s)'
    BY <1>1, <1>2, <1>8, ChainsKept
  <2>5. pc' = "link" <=> 0 < NClus
    BY <1>1, <1>4
  <2> QED
    BY <1>3, <1>5, <2>1, <2>2, <2>3, <2>4, <2>5 DEF MakingBy
<1>10. 0 \in 0 .. NClus
  BY <1>4
<1>11. MakingInv'
  BY <1>7, <1>9, <1>10 DEF MakingInv
<1>12. ActiveInv' /\ ExtendInv'
  BY <1>1 DEF ActiveInv, Active, ExtendInv
<1> QED
  BY <1>1, <1>2, <1>11, <1>12, ChainsKept DEF Chains

\* The first free cluster is chosen for a file that has used up its own.
LEMMA ChainsExtend ==
    ASSUME Chains, TypeInv, Extend
    PROVE  Chains'
<1>1. /\ fat' = fat /\ dir' = dir /\ logfile' = logfile /\ mode' = "extend" /\ pc' = "link"
      /\ copy' = 1 /\ FreeClusters # {} /\ pc = "run"
  BY DEF Extend, cardVars
<1>2. LogSlots' = LogSlots
  BY <1>1 DEF LogSlots
<1>3. PICK c : c = Min(FreeClusters)
  OBVIOUS
<1>4. FreeClusters \subseteq Entries
  BY DEF FreeClusters
<1>5. c \in FreeClusters /\ \A f \in FreeClusters : c <= f
  BY <1>1, <1>3, <1>4, EntriesAre, MinIsLeast
<1>6. /\ c \in Entries \ Foreign /\ fat[1][c] = 0
      /\ \A f \in Entries : fat[1][f] = 0 => c <= f
  BY <1>5 DEF FreeClusters, Chains, Ordered
<1>7. ActiveBody
  BY <1>1 DEF Chains, ActiveInv, Active
<1>8. logfile.last \in Entries \ Foreign /\ fat[1][logfile.last] # 0
  <2>1. logfile.last \in FileChain(logfile.slot) /\ logfile.slot \in LogSlots
    BY <1>7 DEF ActiveBody, Trunk, TrunkOf, FileChain
  <2>2. logfile.last \in Entries \ Foreign
    BY <2>1 DEF Chains, ApartInv, FileChain, ChainOf
  <2>3. fat[1][logfile.last] # 0
    BY <1>7, EntriesAre DEF ActiveBody, Added
  <2> QED
    BY <2>2, <2>3
<1>9. logfile.last < c
  BY <1>6, <1>8 DEF Chains, Ordered
<1>10. /\ todo' = << [clus |-> logfile.last, val |-> c], [clus |-> c, val |-> EOC] >>
       /\ zero' = <<Lba(c), Lba(c) + SecPerClus>>
  BY <1>3 DEF Extend
<1>11. ExtendBy(c)'
  <2>1. Lba(c) \in Nat /\ SecPerClus \in Nat \ {0}
    BY <1>6, LbaType
  <2>2. zero'[1] = Lba(c) /\ zero'[2] = Lba(c) + SecPerClus
    BY <1>10
  <2>3. zero'[2] = Lba(c) + SecPerClus /\ Lba(c) <= zero'[1] /\ zero'[1] < zero'[2]
    BY <2>1, <2>2
  <2>4. ~ (copy' > 1)
    BY <1>1
  <2> QED
    BY <1>1, <1>6, <1>9, <1>10, <2>3, <2>4 DEF ExtendBy
<1>12. ExtendInv' /\ MakingInv'
  BY <1>1, <1>6, <1>11 DEF ExtendInv, MakingInv, Making
<1>13. ActiveInv'
  BY <1>1, <1>2, <1>7, ChainsKept DEF ActiveInv
<1> QED
  BY <1>1, <1>2, <1>12, <1>13, ChainsKept DEF Chains

\* The cluster that a sector is in.
LEMMA ClusterOfSector ==
    ASSUME NEW c \in Entries, NEW z \in Nat, Lba(c) <= z, z < Lba(c) + SecPerClus
    PROVE  ClusterOf(z) = c
<1>1. PICK S \in Nat \ {0} : S = SecPerClus
  BY LbaType
<1>2. PICK n \in Nat : n = c - 2
  BY VolumeAssumption DEF Entries
<1>3. n * S <= z /\ z < (n + 1) * S /\ c = n + 2 /\ c \in Nat
  <2>1. n * S <= z /\ z < (n * S) + S
    BY <1>1, <1>2 DEF Lba
  <2>2. (n + 1) * S = (n * S) + S
    BY <1>1
  <2>3. c = n + 2 /\ c \in Nat
    BY <1>2, EntriesAre
  <2> QED
    BY <2>1, <2>2, <2>3
<1>4. PICK p \in Nat : p = z \div S /\ p < n + 1
  <2>1. z \div S \in Nat
    BY DivMod
  <2>2. PICK m \in Nat : m = n + 1 /\ z < m * S
    BY <1>3
  <2>3. z \div S < m
    BY <2>2, DivBelow
  <2> QED
    BY <2>1, <2>2, <2>3
<1>5. z = (S * p) + (z % S) /\ z % S \in Nat /\ z % S < S
  BY <1>4, DivMod
<1>6. ASSUME p < n PROVE FALSE
  <2>1. \A a, b \in Nat : a <= b => a * S <= b * S
    OBVIOUS
  <2>2. (p + 1) * S <= n * S
    BY <1>6, <2>1
  <2>3. (p + 1) * S = (S * p) + S /\ S * p \in Nat /\ n * S \in Nat
    OBVIOUS
  <2> QED
    BY <1>3, <1>5, <2>2, <2>3
<1>7. p = n
  BY <1>4, <1>6
<1> QED
  BY <1>1, <1>3, <1>4, <1>7 DEF ClusterOf

\* The zero-fill of a cluster that was added ends with it as the last one.
LEMMA ChainsZero ==
    ASSUME Chains, ModeInv, TypeInv, ZeroFill
    PROVE  Chains'
<1>1. /\ fat' = fat /\ dir' = dir /\ mode' = mode /\ todo' = todo /\ copy' = copy /\ pc = "zero"
      /\ pc' # "off"
  BY DEF ZeroFill
<1>2. LogSlots' = LogSlots
  BY <1>1 DEF LogSlots
<1>3. CASE mode = "create"
  <2>1. logfile' = logfile /\ pc' \in {"zero", "dir"}
    BY <1>3 DEF ZeroFill
  <2>2. PICK q \in [1 .. NClus -> Entries \ Foreign] : \E j \in 0 .. NClus : MakingBy(q, j)
    BY <1>1, <1>3 DEF Chains, MakingInv, Making
  <2>3. PICK j \in 0 .. NClus : MakingBy(q, j)
    BY <2>2
  <2>4. \A s \in LogSlots : FileChain(s)' = FileChain(s)
    BY <1>1, <1>2, ChainsKept
  <2>5. (pc' = "link") <=> j < NClus
    BY <1>1, <2>1, <2>3 DEF MakingBy
  <2>6. MakingBy(q, j)'
    BY <1>1, <1>2, <2>1, <2>3, <2>4, <2>5 DEF MakingBy
  <2>7. MakingInv'
    BY <2>6 DEF MakingInv
  <2>8. ActiveInv' /\ ExtendInv'
    BY <1>1, <1>3, <2>1 DEF ActiveInv, Active, ExtendInv
  <2> QED
    BY <1>1, <1>2, <1>3, <2>7, <2>8, ChainsKept DEF Chains
<1>4. CASE mode = "extend"
  <2>1. ActiveBody
    BY <1>1, <1>4 DEF Chains, ActiveInv, Active
  <2>2. PICK c \in Entries \ Foreign : ExtendBy(c)
    BY <1>1, <1>4 DEF Chains, ExtendInv
  <2>3. /\ logfile.last < c /\ Added = c /\ fat[1][c] = EOC
        /\ zero[2] = Lba(c) + SecPerClus /\ Lba(c) <= zero[1] /\ zero[1] < zero[2]
        /\ \A f \in Entries : fat[1][f] = 0 => c <= f
    BY <1>1, <2>2 DEF ExtendBy
  <2>4. zero \in Nat \X Nat
    BY DEF TypeInv, TaskType
  <2>5. PICK z \in Nat : z = zero[1]
    BY <2>4
  <2>6. MakingInv'
    BY <1>1, <1>4 DEF MakingInv, Making
  <2>7. CASE z + 1 < zero[2]
    <3>1. zero' = <<z + 1, zero[2]>> /\ logfile' = logfile /\ pc' = "zero"
      BY <1>1, <2>5, <2>7 DEF ZeroFill
    <3>2. Lba(c) \in Nat
      BY LbaType
    <3>3. zero'[2] = Lba(c) + SecPerClus /\ Lba(c) <= zero'[1] /\ zero'[1] < zero'[2]
      BY <2>3, <2>5, <2>7, <3>1, <3>2
    <3>4. ExtendBy(c)'
      BY <1>1, <2>3, <3>1, <3>3 DEF ExtendBy, Added
    <3>5. ExtendInv'
      BY <3>4 DEF ExtendInv
    <3>6. ActiveInv' /\ WholeInv'
      BY <1>1, <1>2, <1>4, <2>1, <3>1, ChainsKept DEF ActiveInv, Chains
    <3> QED
      BY <1>1, <1>2, <2>6, <3>5, <3>6, ChainsKept DEF Chains
  <2>8. CASE ~ (z + 1 < zero[2])
    <3>1. ClusterOf(z) = c
      BY <2>3, <2>5, ClusterOfSector
    <3>2. /\ pc' = "append"
          /\ logfile' = [logfile EXCEPT !.end = zero[2], !.last = c]
      BY <1>1, <1>4, <2>5, <2>8, <3>1 DEF ZeroFill
    <3>3. logfile'.first = logfile.first /\ logfile'.slot = logfile.slot /\ logfile'.last = c
      BY <3>2 DEF TypeInv, FileType, Logfiles
    <3>4. PICK first \in Entries : first = logfile.first
      BY <2>1 DEF ActiveBody, TypeInv, DirType
    <3>5. fat[1] \in Tables /\ Rising(fat[1]) /\ first \in Values
      BY SizesAssumption DEF TypeInv, FatType, Chains, Ordered, Values
    <3>6. logfile.last \in ChainOf(fat[1], first)
      BY <2>1, <3>4 DEF ActiveBody, Trunk, TrunkOf
    <3>7. c \in ChainOf(fat[1], first)
      BY <2>3, <3>5, <3>6, ChainClosed, EntriesAre DEF Added
    <3>8. Trunk' = TrunkOf(fat[1], first, c) /\ Added' = EOC
      BY <1>1, <2>3, <3>3, <3>4 DEF Trunk, Added
    <3>9. c \in Trunk' /\ Trunk \subseteq Trunk'
      <4>1. ASSUME NEW x \in ChainOf(fat[1], first), x <= logfile.last PROVE x <= c
        <5>1. x \in Nat /\ c \in Nat /\ logfile.last \in Nat
          BY <3>4, <3>5, <3>6, ChainIs, EntriesAre
        <5> QED
          BY <2>3, <4>1, <5>1
      <4>2. c <= c
        BY EntriesAre
      <4> QED
        BY <3>4, <3>7, <3>8, <4>1, <4>2 DEF Trunk, TrunkOf
    <3>10. Cardinality(Trunk') >= NClus
      <4>1. Trunk' \subseteq ChainOf(fat[1], first) /\ IsFiniteSet(ChainOf(fat[1], first))
        BY <3>5, <3>8, ChainIs DEF TrunkOf
      <4>2. IsFiniteSet(Trunk') /\ IsFiniteSet(Trunk) /\ Cardinality(Trunk) <= Cardinality(Trunk')
        BY <3>9, <4>1, FS_Subset
      <4>3. Cardinality(Trunk') \in Nat /\ Cardinality(Trunk) \in Nat /\ NClus \in Nat
        BY <4>2, FS_CardinalityType, ClusCountType
      <4> QED
        BY <2>1, <4>2, <4>3 DEF ActiveBody
    <3>11. ActiveBody'
      BY <1>1, <1>2, <2>1, <3>3, <3>8, <3>9, <3>10 DEF ActiveBody
    <3>12. ActiveInv' /\ ExtendInv'
      BY <3>2, <3>11 DEF ActiveInv, ExtendInv
    <3>13. WholeInv'
      BY <1>1, <1>2, <1>4, <3>3, ChainsKept DEF Chains
    <3> QED
      BY <1>1, <1>2, <2>6, <3>12, <3>13, ChainsKept DEF Chains
  <2> QED
    BY <2>7, <2>8
<1> QED
  BY <1>1, <1>3, <1>4 DEF ModeInv

\* The new file comes into the directory with the clusters that were linked for it.
LEMMA ChainsWriteDir ==
    ASSUME Chains, ModeInv, NameInv, TypeInv, WriteDirEntry
    PROVE  Chains'
<1>1. /\ fat' = fat /\ logfile' = logfile /\ mode' = mode /\ pc = "dir" /\ pc' = "magic"
      /\ mode = "create"
  BY DEF WriteDirEntry, taskVars, NameInv, PendingInv
<1>2. PICK slot : slot = logfile.slot
  OBVIOUS
<1>3. PICK q \in [1 .. NClus -> Entries \ Foreign] : \E j \in 0 .. NClus : MakingBy(q, j)
  BY <1>1 DEF Chains, MakingInv, Making
<1>4. PICK j \in 0 .. NClus : MakingBy(q, j)
  BY <1>3
<1>5. NClus \in Nat /\ NClus >= 1 /\ NClus \in 1 .. NClus /\ 1 \in 1 .. NClus
  BY ClusCountType
<1>6. j = NClus
  BY <1>1, <1>4, <1>5 DEF MakingBy
<1>7. \A i \in 1 .. NClus : fat[1][q[i]] = After(q, i)
  BY <1>4, <1>5, <1>6 DEF MakingBy
<1>8. fat[1] \in Tables /\ Rising(fat[1]) /\ q \in [1 .. NClus -> Entries]
  BY SizesAssumption DEF TypeInv, FatType, Chains, Ordered
<1> DEFINE R == {q[i] : i \in 1 .. NClus}
<1>9. ChainOf(fat[1], q[1]) = R
  BY <1>7, <1>8, NewChain
<1>10. /\ \A i, k \in 1 .. NClus : i < k => q[i] < q[k]
       /\ logfile.first = q[1] /\ logfile.last = q[NClus]
       /\ \A s \in LogSlots : R \cap FileChain(s) = {}
  BY <1>4 DEF MakingBy
<1>11. IsFiniteSet(R) /\ Cardinality(R) >= NClus
  <2>1. q[1] \in Entries
    BY <1>5, <1>8
  <2>2. IsFiniteSet(R)
    BY <1>8, <1>9, <2>1, ChainIs
  <2>3. \A i \in 1 .. NClus : q[i] \in R
    OBVIOUS
  <2> QED
    BY <1>8, <1>10, <2>2, <2>3, AscendingCount
<1>12. R \cap Foreign = {} /\ \A c \in R : fat[1][c] # 0
  <2>1. ASSUME NEW i \in 1 .. NClus PROVE fat[1][q[i]] # 0
    <3>1. i < NClus => i + 1 \in 1 .. NClus
      BY <1>5
    <3> QED
      BY <1>7, <1>8, <3>1, EntriesAre DEF After
  <2> QED
    BY <2>1
<1> HIDE DEF R
<1>13. /\ slot \in Slots /\ dir'[slot].kind = "log"
       /\ \A s \in Slots \ {slot} : dir'[s] = dir[s]
  BY <1>2, WriteKeepsOrder DEF NameInv
<1>14. dir'[slot].first = q[1]
  BY <1>2, <1>10, <1>13 DEF WriteDirEntry, TypeInv, DirType, Entry
<1>15. slot \notin LogSlots
  BY <1>1, <1>2 DEF NameInv, PendingInv, LogSlots
<1>16. LogSlots' = LogSlots \cup {slot}
  BY <1>13 DEF LogSlots
<1>17. FileChain(slot)' = R
  BY <1>1, <1>9, <1>14 DEF FileChain
<1>18. \A s \in LogSlots : FileChain(s)' = FileChain(s) /\ s # slot
  BY <1>1, <1>13, <1>15 DEF FileChain, LogSlots
<1>19. ApartInv'
  <2>1. ASSUME NEW s \in LogSlots \cup {slot}
        PROVE  /\ FileChain(s)' \cap Foreign = {} /\ Cardinality(FileChain(s)') >= NClus
               /\ \A t \in (LogSlots \cup {slot}) \ {s} : FileChain(s)' \cap FileChain(t)' = {}
    <3>1. CASE s = slot
      BY <1>10, <1>11, <1>12, <1>17, <1>18, <3>1
    <3>2. CASE s \in LogSlots
      BY <1>10, <1>17, <1>18, <3>2 DEF Chains, ApartInv
    <3> QED
      BY <3>1, <3>2
  <2> QED
    BY <1>16, <2>1 DEF ApartInv
<1>20. WholeInv'
  <2>1. \A s \in LogSlots : Whole(s)
    BY <1>1 DEF Chains, WholeInv
  <2>2. \A s \in LogSlots \cup {slot} : Whole(s)'
    BY <1>1, <1>12, <1>17, <1>18, <2>1 DEF Whole
  <2> QED
    BY <1>16, <2>2 DEF WholeInv
<1>21. ActiveBody'
  <2>1. TrunkOf(fat[1], q[1], q[NClus]) = R
    <3>1. ASSUME NEW i \in 1 .. NClus PROVE q[i] <= q[NClus]
      <4>1. q[i] \in Nat /\ q[NClus] \in Nat
        BY <1>5, <1>8, EntriesAre
      <4>2. i < NClus \/ i = NClus
        BY <1>5
      <4> QED
        BY <1>5, <1>10, <4>1, <4>2
    <3> QED
      BY <1>9, <3>1 DEF TrunkOf, R
  <2>2. Trunk' = R /\ Added' = fat[1][q[NClus]]
    BY <1>1, <1>10, <2>1 DEF Trunk, Added
  <2>3. q[NClus] \in R /\ fat[1][q[NClus]] = EOC
    BY <1>5, <1>7 DEF R, After
  <2> QED
    BY <1>1, <1>2, <1>10, <1>11, <1>14, <1>16, <2>2, <2>3 DEF ActiveBody
<1>22. MakingInv' /\ ActiveInv' /\ ExtendInv'
  BY <1>1, <1>21 DEF MakingInv, Making, ActiveInv, ExtendInv
<1> QED
  BY <1>1, <1>19, <1>20, <1>22 DEF Chains

-----------------------------------------------------------------------------
(* Chains: steps that write a cluster *)

\* What the first copy of the FAT is after a step of fat_write_entry(), if the
\* copies already written hold the value.
LEMMA FirstCopy ==
    ASSUME TypeInv, WriteFatEntry, NEW c, NEW val, Head(todo).clus = c, Head(todo).val = val,
           copy > 1 => fat[1][c] = val
    PROVE  /\ fat'[1] = [fat[1] EXCEPT ![c] = val] /\ (copy > 1 => fat'[1] = fat[1])
           /\ copy < NumFats => copy' = copy + 1 /\ copy' > 1 /\ todo' = todo /\ pc' = "link"
           /\ ~ (copy < NumFats) => /\ copy' = 1 /\ todo' = Tail(todo)
                                    /\ pc' = IF Len(todo) > 1 THEN "link" ELSE "zero"
           /\ dir' = dir /\ mode' = mode /\ logfile' = logfile /\ zero' = zero /\ pc = "link"
<1>1. fat \in [1 .. NumFats -> Tables] /\ copy \in 1 .. NumFats /\ 1 \in 1 .. NumFats
  BY SizesAssumption DEF TypeInv, FatType
<1>2. fat' = [fat EXCEPT ![copy][c] = val]
  BY DEF WriteFatEntry
<1>3. CASE copy = 1
  BY <1>1, <1>2, <1>3 DEF WriteFatEntry
<1>4. CASE copy # 1
  <2>1. copy > 1 /\ fat'[1] = fat[1] /\ fat[1][c] = val
    BY <1>1, <1>2, <1>4
  <2>2. [fat[1] EXCEPT ![c] = val] = fat[1]
    BY <1>1, <2>1 DEF Tables
  <2> QED
    BY <1>1, <2>1, <2>2 DEF WriteFatEntry
<1> QED
  BY <1>3, <1>4

\* Files keep their chains while others' clusters are written.
LEMMA ChainsElsewhere ==
    ASSUME TypeInv, TypeInv', dir' = dir, NEW c, NEW val, fat'[1] = [fat[1] EXCEPT ![c] = val],
           NEW s \in LogSlots, c \notin FileChain(s)
    PROVE  FileChain(s)' = FileChain(s) /\ (Whole(s) => Whole(s)')
<1>1. fat[1] \in Tables /\ fat'[1] \in Tables /\ dir[s].first \in Values
  BY SizesAssumption DEF TypeInv, FatType, DirType, Values
<1>2. \A x \in FileChain(s) : fat'[1][x] = fat[1][x]
  BY <1>1 DEF FileChain, ChainOf, Tables
<1>3. FileChain(s)' = FileChain(s)
  BY <1>1, <1>2, SameChain DEF FileChain
<1> QED
  BY <1>2, <1>3 DEF Whole

\* One more cluster of a new file is linked, in one copy of the FAT.
LEMMA ChainsLink ==
    ASSUME Chains, TypeInv, TypeInv', WriteFatEntry, mode = "create"
    PROVE  Chains'
<1>0. pc = "link" /\ dir' = dir
  BY DEF WriteFatEntry
<1>1. PICK q \in [1 .. NClus -> Entries \ Foreign] : \E i \in 0 .. NClus : MakingBy(q, i)
  BY <1>0 DEF Chains, MakingInv, Making
<1>2. PICK j \in 0 .. NClus : MakingBy(q, j)
  BY <1>1
<1>3. /\ NClus \in Nat /\ NClus >= 1 /\ NClus \in 1 .. NClus
      /\ j < NClus /\ j \in Nat /\ j + 1 \in 1 .. NClus
  BY <1>0, <1>2, ClusCountType DEF MakingBy
<1>4. PICK n \in Nat : n = NClus - j /\ n >= 1
  BY <1>3
<1>5. /\ todo = [k \in 1 .. n |-> [clus |-> q[j + k], val |-> After(q, j + k)]]
      /\ \A i \in 1 .. NClus :
            fat[1][q[i]] = IF i <= j \/ (i = j + 1 /\ copy > 1) THEN After(q, i) ELSE 0
      /\ \A i, k \in 1 .. NClus : i < k => q[i] < q[k]
      /\ \A f \in Entries : fat[1][f] = 0 /\ f < q[NClus] => \E i \in 1 .. NClus : q[i] = f
      /\ \A s \in LogSlots : \A i \in 1 .. NClus : q[i] \notin FileChain(s)
      /\ logfile.first = q[1] /\ logfile.last = q[NClus]
  BY <1>2, <1>4 DEF MakingBy
<1>6. PICK c : c = q[j + 1]
  OBVIOUS
<1>7. PICK val : val = After(q, j + 1)
  OBVIOUS
<1>8. Head(todo).clus = c /\ Head(todo).val = val /\ Len(todo) = n
  BY <1>3, <1>4, <1>5, <1>6, <1>7
<1>9. copy > 1 => fat[1][c] = val
  BY <1>3, <1>5, <1>6, <1>7
<1>10. /\ fat'[1] = [fat[1] EXCEPT ![c] = val]
       /\ copy < NumFats => copy' = copy + 1 /\ copy' > 1 /\ todo' = todo /\ pc' = "link"
       /\ ~ (copy < NumFats) => /\ copy' = 1 /\ todo' = Tail(todo)
                                /\ pc' = IF n > 1 THEN "link" ELSE "zero"
       /\ mode' = mode /\ logfile' = logfile
  BY <1>8, <1>9, FirstCopy
<1>11. LogSlots' = LogSlots
  BY <1>0 DEF LogSlots
<1>12. \A s \in LogSlots : FileChain(s)' = FileChain(s) /\ Whole(s) /\ Whole(s)'
  <2>1. \A s \in LogSlots : c \notin FileChain(s)
    BY <1>3, <1>5, <1>6
  <2>2. \A s \in LogSlots : Whole(s)
    BY DEF Chains, WholeInv
  <2> QED
    BY <1>0, <1>10, <2>1, <2>2, ChainsElsewhere
<1>13. /\ c \in Entries \ Foreign /\ val \in Values /\ val # 0 /\ (val \in Entries => c < val)
  <2>1. CASE j + 1 < NClus
    <3>1. (j + 1) + 1 \in 1 .. NClus /\ j + 1 < (j + 1) + 1
      BY <1>3, <2>1
    <3>2. val = q[(j + 1) + 1] /\ val \in Entries
      BY <1>7, <2>1, <3>1 DEF After
    <3>3. c < val
      BY <1>3, <1>5, <1>6, <3>1, <3>2
    <3> QED
      BY <1>3, <1>6, <3>2, <3>3, EntriesAre DEF Values
  <2>2. CASE ~ (j + 1 < NClus)
    BY <1>3, <1>6, <1>7, <2>2, EntriesAre DEF After, Values
  <2> QED
    BY <2>1, <2>2
<1>14. ASSUME NEW f \in Entries, fat[1][f] = 0 PROVE c <= f
  <2>1. f \in Nat /\ c \in Nat /\ q[NClus] \in Nat
    BY <1>3, <1>13, EntriesAre
  <2>2. CASE f < q[NClus]
    <3>1. PICK i \in 1 .. NClus : q[i] = f
      BY <1>5, <1>14, <2>2
    <3>2. CASE i <= j
      <4>1. i + 1 \in 1 .. NClus /\ i < NClus
        BY <1>3, <3>2
      <4>2. fat[1][f] = q[i + 1] /\ q[i + 1] \in Entries
        BY <1>5, <3>1, <3>2, <4>1 DEF After
      <4> QED
        BY <1>14, <4>2, EntriesAre
    <3>3. CASE i = j + 1
      BY <1>6, <2>1, <3>1, <3>3
    <3>4. CASE j + 1 < i
      BY <1>3, <1>5, <1>6, <2>1, <3>1, <3>4
    <3> QED
      BY <1>3, <3>2, <3>3, <3>4
  <2>3. CASE ~ (f < q[NClus])
    <3>1. c <= q[NClus]
      <4>1. j + 1 < NClus \/ j + 1 = NClus
        BY <1>3
      <4> QED
        BY <1>3, <1>5, <1>6, <2>1, <4>1
    <3> QED
      BY <2>1, <2>3, <3>1
  <2> QED
    BY <2>2, <2>3
<1>15. fat[1] \in Tables /\ Ordered(fat[1])
  BY SizesAssumption DEF TypeInv, FatType, Chains
<1>16. Ordered(fat'[1])
  BY <1>10, <1>13, <1>14, <1>15, OrderedWrite
<1>17. \A x \in Entries : fat'[1][x] = IF x = c THEN val ELSE fat[1][x]
  BY <1>10, <1>15 DEF Tables
<1>18. ASSUME NEW i \in 1 .. NClus
       PROVE  fat'[1][q[i]] = IF i <= j + 1 THEN After(q, i) ELSE 0
  <2>1. q[i] \in Entries
    OBVIOUS
  <2>2. CASE i = j + 1
    BY <1>6, <1>7, <1>17, <2>1, <2>2
  <2>3. CASE i # j + 1
    <3>1. q[i] # c
      <4>1. q[i] \in Nat /\ c \in Nat
        BY <1>13, <2>1, EntriesAre
      <4>2. i < j + 1 \/ j + 1 < i
        BY <1>3, <2>3
      <4>3. q[i] < c \/ c < q[i]
        BY <1>3, <1>5, <1>6, <4>2
      <4> QED
        BY <4>1, <4>3
    <3>2. fat'[1][q[i]] = fat[1][q[i]]
      BY <1>17, <2>1, <3>1
    <3>3. i <= j + 1 <=> i <= j
      BY <1>3, <2>3
    <3> QED
      BY <1>5, <2>3, <3>2, <3>3
  <2> QED
    BY <2>2, <2>3
<1>19. /\ \A f \in Entries : fat'[1][f] = 0 /\ f < q[NClus] => \E i \in 1 .. NClus : q[i] = f
       /\ \A s \in LogSlots' : \A i \in 1 .. NClus : q[i] \notin FileChain(s)'
       /\ logfile'.first = q[1] /\ logfile'.last = q[NClus]
  BY <1>5, <1>10, <1>11, <1>12, <1>13, <1>17
<1>20. MakingInv'
  <2>1. CASE copy < NumFats
    <3>1. copy' > 1 /\ todo' = todo /\ pc' = "link"
      BY <1>10, <2>1
    <3>2. \A i \in 1 .. NClus :
             fat'[1][q[i]] = IF i <= j \/ (i = j + 1 /\ copy' > 1) THEN After(q, i) ELSE 0
      <4>1. \A i \in 1 .. NClus : i <= j + 1 <=> i <= j \/ (i = j + 1 /\ copy' > 1)
        BY <1>3, <3>1
      <4> QED
        BY <1>18, <4>1
    <3>3. todo' = [k \in 1 .. NClus - j |-> [clus |-> q[j + k], val |-> After(q, j + k)]]
      BY <1>4, <1>5, <3>1
    <3>4. MakingBy(q, j)'
      BY <1>3, <1>5, <1>19, <3>1, <3>2, <3>3 DEF MakingBy
    <3> QED
      BY <3>4 DEF MakingInv
  <2>2. CASE ~ (copy < NumFats)
    <3>1. PICK m \in 1 .. NClus : m = j + 1
      BY <1>3
    <3>2. copy' = 1 /\ todo' = Tail(todo) /\ pc' = IF n > 1 THEN "link" ELSE "zero"
      BY <1>10, <2>2
    <3>3. (pc' = "link") <=> m < NClus
      BY <1>3, <1>4, <3>1, <3>2
    <3>4. todo' = [k \in 1 .. NClus - m |-> [clus |-> q[m + k], val |-> After(q, m + k)]]
      <4>1. PICK p \in Nat : p = NClus - m /\ n = p + 1
        BY <1>3, <1>4, <3>1
      <4>2. Tail(todo) = [k \in 1 .. p |-> todo[k + 1]]
        BY <1>5, <4>1
      <4>3. ASSUME NEW k \in 1 .. p
            PROVE  todo[k + 1] = [clus |-> q[m + k], val |-> After(q, m + k)]
        <5>1. k + 1 \in 1 .. n /\ j + (k + 1) = m + k
          BY <1>3, <3>1, <4>1
        <5> QED
          BY <1>5, <5>1
      <4> QED
        BY <3>2, <4>1, <4>2, <4>3
    <3>5. \A i \in 1 .. NClus :
             fat'[1][q[i]] = IF i <= m \/ (i = m + 1 /\ copy' > 1) THEN After(q, i) ELSE 0
      BY <1>18, <3>1, <3>2
    <3>6. MakingBy(q, m)'
      BY <1>5, <1>19, <3>3, <3>4, <3>5 DEF MakingBy
    <3>7. m \in 0 .. NClus
      BY <1>3
    <3> QED
      BY <3>6, <3>7 DEF MakingInv
  <2> QED
    BY <2>1, <2>2
<1>21. ActiveInv' /\ ExtendInv'
  <2>1. pc' \in {"link", "zero"} /\ mode' = "create"
    BY <1>10
  <2> QED
    BY <2>1 DEF ActiveInv, Active, ExtendInv
<1>22. ApartInv' /\ WholeInv'
  BY <1>11, <1>12 DEF Chains, ApartInv, WholeInv
<1> QED
  BY <1>16, <1>20, <1>21, <1>22 DEF Chains

\* Cluster c, free until now, is linked to the last one of the file in use, or
\* marked as the end.
LEMMA ChainsGrow ==
    ASSUME Chains, TypeInv, TypeInv', ActiveBody, mode' = "extend", pc' # "off",
           dir' = dir, logfile' = logfile,
           NEW c \in Entries \ Foreign, logfile.last < c, fat[1][c] = 0,
           \A f \in Entries : fat[1][f] = 0 => c <= f,
           NEW x, NEW val, fat'[1] = [fat[1] EXCEPT ![x] = val],
           (x = logfile.last /\ val = c) \/ (x = c /\ val = EOC /\ Added = c),
           mode = "extend"
    PROVE  Ordered(fat'[1]) /\ ApartInv' /\ WholeInv' /\ ActiveBody'
<1>1. PICK table : table = fat[1]
  OBVIOUS
<1>2. PICK table2 : table2 = fat'[1]
  OBVIOUS
<1>3. PICK l : l = logfile.last
  OBVIOUS
<1>4. PICK slot \in LogSlots : slot = logfile.slot
  BY DEF ActiveBody
<1>5. PICK first \in Entries : first = logfile.first /\ first = dir[slot].first
  BY <1>4 DEF ActiveBody, TypeInv, DirType
<1>6. table \in Tables /\ table2 \in Tables /\ Ordered(table) /\ Rising(table)
  BY <1>1, <1>2, SizesAssumption DEF TypeInv, FatType, Chains, Ordered
<1>7. FileChain(slot) = ChainOf(table, first) /\ Trunk = TrunkOf(table, first, l)
  BY <1>1, <1>3, <1>5 DEF FileChain, Trunk
<1>8. l \in TrunkOf(table, first, l) /\ l \in ChainOf(table, first) /\ table[l] # 0
  <2>1. l \in TrunkOf(table, first, l)
    BY <1>3, <1>7 DEF ActiveBody
  <2>2. table[l] # 0
    BY <1>1, <1>3, EntriesAre DEF ActiveBody, Added
  <2> QED
    BY <2>1, <2>2 DEF TrunkOf
<1>9. l \in Entries \ Foreign /\ l \in Nat /\ c \in Nat /\ l < c
  <2>1. l \in Entries \ Foreign
    BY <1>7, <1>8 DEF Chains, ApartInv, ChainOf
  <2> QED
    BY <1>3, <2>1, EntriesAre
<1>10. \A y \in Entries : table2[y] = IF y = x THEN val ELSE table[y]
  BY <1>1, <1>2, <1>6 DEF Tables
<1>11. Ordered(table2)
  <2>1. x \in Entries \ Foreign /\ val \in Values /\ val # 0 /\ (val \in Entries => x < val)
    BY <1>3, <1>9, EntriesAre DEF Values
  <2>2. \A f \in Entries : table[f] = 0 => x <= f
    <3>1. ASSUME NEW f \in Entries, table[f] = 0 PROVE x <= f
      <4>1. c <= f /\ f \in Nat
        BY <1>1, <3>1, EntriesAre
      <4>2. x = l \/ x = c
        BY <1>3
      <4> QED
        BY <1>9, <4>1, <4>2
    <3> QED
      BY <3>1
  <2>3. table2 = [table EXCEPT ![x] = val]
    BY <1>1, <1>2
  <2> QED
    BY <1>6, <2>1, <2>2, <2>3, OrderedWrite
<1>12. table2[l] = c /\ table2[c] \in {0, EOC} /\ \A y \in Entries : y < l => table2[y] = table[y]
  <2>1. c # l
    BY <1>9
  <2>2. table2[l] = c
    BY <1>1, <1>3, <1>9, <1>10, <2>1 DEF Added
  <2>3. table2[c] \in {0, EOC}
    BY <1>1, <1>3, <1>9, <1>10, <2>1
  <2>4. ASSUME NEW y \in Entries, y < l PROVE table2[y] = table[y]
    <3>1. y # l /\ y # c
      BY <1>9, <2>4, EntriesAre
    <3> QED
      BY <1>3, <1>10, <3>1
  <2> QED
    BY <2>2, <2>3, <2>4
<1>13. /\ ChainOf(table2, first) \subseteq TrunkOf(table, first, l) \cup {c}
       /\ TrunkOf(table, first, l) \subseteq TrunkOf(table2, first, l)
  BY <1>6, <1>8, <1>9, <1>12, ChainExtended
<1>14. LogSlots' = LogSlots
  BY DEF LogSlots
<1>15. ASSUME NEW s \in LogSlots, s # slot
       PROVE  FileChain(s)' = FileChain(s) /\ Whole(s)' /\ c \notin FileChain(s)
  <2>1. dir[s].first # first
    BY <1>5, <1>15, ChainsApart DEF Chains, TypeInv
  <2>2. Whole(s)
    BY <1>5, <2>1 DEF Chains, WholeInv
  <2>3. c \notin FileChain(s)
    BY <2>2 DEF Whole
  <2>4. l \notin FileChain(s)
    BY <1>7, <1>8, <1>15 DEF Chains, ApartInv
  <2>5. x \notin FileChain(s)
    BY <1>3, <2>3, <2>4
  <2> QED
    BY <2>2, <2>3, <2>5, ChainsElsewhere
<1>16. FileChain(slot)' = ChainOf(table2, first) /\ Trunk' = TrunkOf(table2, first, l)
  BY <1>2, <1>3, <1>5 DEF FileChain, Trunk
<1>17. FileChain(slot)' \subseteq FileChain(slot) \cup {c}
  BY <1>7, <1>13, <1>16 DEF TrunkOf
<1>18. Cardinality(Trunk') >= NClus /\ Cardinality(FileChain(slot)') >= NClus
  <2>1. /\ IsFiniteSet(ChainOf(table2, first)) /\ Trunk' \subseteq ChainOf(table2, first)
        /\ Trunk \subseteq Trunk'
    BY <1>6, <1>7, <1>13, <1>16, ChainIs DEF TrunkOf
  <2>2. IsFiniteSet(Trunk') /\ Cardinality(Trunk') <= Cardinality(ChainOf(table2, first))
    BY <2>1, FS_Subset
  <2>3. IsFiniteSet(Trunk) /\ Cardinality(Trunk) <= Cardinality(Trunk')
    BY <2>1, <2>2, FS_Subset
  <2>4. /\ Cardinality(ChainOf(table2, first)) \in Nat /\ Cardinality(Trunk') \in Nat
        /\ Cardinality(Trunk) \in Nat /\ NClus \in Nat
    BY <2>1, <2>2, <2>3, FS_CardinalityType, ClusCountType
  <2>5. Cardinality(Trunk) >= NClus
    BY DEF ActiveBody
  <2> QED
    BY <1>16, <2>2, <2>3, <2>4, <2>5
<1>19. ApartInv'
  <2>1. ASSUME NEW s \in LogSlots
        PROVE  /\ FileChain(s)' \cap Foreign = {} /\ Cardinality(FileChain(s)') >= NClus
               /\ \A t \in LogSlots \ {s} : FileChain(s)' \cap FileChain(t)' = {}
    <3>1. CASE s = slot
      BY <1>15, <1>17, <1>18, <3>1 DEF Chains, ApartInv
    <3>2. CASE s # slot
      BY <1>15, <1>17, <3>2 DEF Chains, ApartInv
    <3> QED
      BY <3>1, <3>2
  <2> QED
    BY <1>14, <2>1 DEF ApartInv
<1>20. WholeInv'
  BY <1>5, <1>14, <1>15 DEF WholeInv
<1>21. ActiveBody'
  <2>1. l \in Trunk'
    BY <1>8, <1>13, <1>16
  <2>2. Added' = c /\ fat'[1][c] \in {0, EOC}
    BY <1>2, <1>3, <1>12 DEF Added
  <2>3. \A f \in Entries : fat'[1][f] = 0 => c <= f
    <3>1. val # 0
      BY EntriesAre
    <3> QED
      BY <1>1, <1>2, <1>10, <3>1
  <2> QED
    BY <1>3, <1>4, <1>5, <1>9, <1>14, <1>18, <2>1, <2>2, <2>3 DEF ActiveBody
<1> QED
  BY <1>2, <1>11, <1>19, <1>20, <1>21

\* One copy of one entry is written for the cluster that is being added.
LEMMA ChainsAdd ==
    ASSUME Chains, TypeInv, TypeInv', WriteFatEntry, mode = "extend"
    PROVE  Chains'
<1>1. pc = "link" /\ dir' = dir /\ logfile' = logfile /\ mode' = "extend" /\ zero' = zero
  BY DEF WriteFatEntry
<1>2. LogSlots' = LogSlots
  BY <1>1 DEF LogSlots
<1>3. ActiveBody
  BY <1>1 DEF Chains, ActiveInv, Active
<1>4. PICK c \in Entries \ Foreign : ExtendBy(c)
  BY <1>1 DEF Chains, ExtendInv
<1>5. /\ logfile.last < c
      /\ zero[2] = Lba(c) + SecPerClus /\ Lba(c) <= zero[1] /\ zero[1] < zero[2]
      /\ \A f \in Entries : fat[1][f] = 0 => c <= f
  BY <1>4 DEF ExtendBy
<1>6. c # logfile.last /\ logfile.last \in Entries
  BY <1>3, <1>5, EntriesAre DEF ActiveBody, Trunk, TrunkOf, ChainOf
<1>7. copy \in Nat /\ copy >= 1 /\ fat[1] \in Tables
  BY SizesAssumption DEF TypeInv, FatType
<1>8. MakingInv'
  BY <1>1 DEF MakingInv, Making
<1>9. CASE /\ todo = << [clus |-> logfile.last, val |-> c], [clus |-> c, val |-> EOC] >>
           /\ fat[1][c] = 0 /\ (copy > 1 => Added = c)
  <2>1. /\ Head(todo).clus = logfile.last /\ Head(todo).val = c /\ Len(todo) = 2
        /\ Tail(todo) = << [clus |-> c, val |-> EOC] >>
    BY <1>9
  <2>2. /\ fat'[1] = [fat[1] EXCEPT ![logfile.last] = c] /\ (copy > 1 => fat'[1] = fat[1])
        /\ copy < NumFats => copy' = copy + 1 /\ copy' > 1 /\ todo' = todo /\ pc' = "link"
        /\ ~ (copy < NumFats) => /\ copy' = 1 /\ todo' = Tail(todo) /\ pc' = "link"
    BY <1>9, <2>1, FirstCopy DEF Added
  <2>3. pc' = "link"
    BY <2>2
  <2>4. Ordered(fat'[1]) /\ ApartInv' /\ WholeInv' /\ ActiveBody'
    BY <1>1, <1>3, <1>5, <1>9, <2>2, <2>3, ChainsGrow
  <2>5. Added' = c /\ fat'[1][c] = 0
    BY <1>1, <1>6, <1>7, <1>9, <2>2 DEF Added, Tables
  <2>6. \A f \in Entries : fat'[1][f] = 0 => c <= f
    BY <1>5, <1>6, <1>7, <2>2, EntriesAre DEF Tables
  <2>7. ExtendBy(c)'
    <3>1. CASE copy < NumFats
      BY <1>1, <1>5, <1>9, <2>2, <2>5, <2>6, <3>1 DEF ExtendBy
    <3>2. CASE ~ (copy < NumFats)
      <4>1. copy' = 1 /\ todo' = << [clus |-> c, val |-> EOC] >>
        BY <2>1, <2>2, <3>2
      <4>2. ~ (copy' > 1)
        BY <4>1
      <4> QED
        BY <1>1, <1>5, <2>3, <2>5, <2>6, <4>1, <4>2 DEF ExtendBy
    <3> QED
      BY <3>1, <3>2
  <2>8. ActiveInv' /\ ExtendInv'
    BY <2>4, <2>7 DEF ActiveInv, ExtendInv
  <2> QED
    BY <1>8, <2>4, <2>8 DEF Chains
<1>10. CASE /\ todo = << [clus |-> c, val |-> EOC] >>
            /\ Added = c /\ fat[1][c] = IF copy > 1 THEN EOC ELSE 0
  <2>1. Head(todo).clus = c /\ Head(todo).val = EOC /\ Len(todo) = 1
    BY <1>10
  <2>2. /\ fat'[1] = [fat[1] EXCEPT ![c] = EOC] /\ (copy > 1 => fat'[1] = fat[1])
        /\ copy < NumFats => copy' = copy + 1 /\ copy' > 1 /\ todo' = todo /\ pc' = "link"
        /\ ~ (copy < NumFats) => /\ copy' = 1 /\ pc' = "zero"
    BY <1>10, <2>1, FirstCopy
  <2>3. pc' # "off"
    BY <2>2
  <2>4. Ordered(fat'[1]) /\ ApartInv' /\ WholeInv' /\ ActiveBody'
    <3>1. CASE copy > 1
      <4>1. fat'[1] = fat[1]
        BY <2>2, <3>1
      <4>2. /\ Ordered(fat[1]) => Ordered(fat'[1])
            /\ ApartInv => ApartInv'
            /\ WholeInv => WholeInv'
            /\ ActiveBody => ActiveBody'
        BY <1>1, <1>2, <2>3, <4>1, ChainsKept
      <4> QED
        BY <1>3, <4>2 DEF Chains
    <3>2. CASE copy = 1
      <4>1. fat[1][c] = 0
        BY <1>10, <3>2
      <4> QED
        BY <1>1, <1>3, <1>5, <1>10, <2>2, <2>3, <4>1, ChainsGrow
    <3> QED
      BY <1>7, <3>1, <3>2
  <2>5. Added' = c /\ fat'[1][c] = EOC
    BY <1>1, <1>6, <1>7, <1>10, <2>2 DEF Added, Tables
  <2>6. \A f \in Entries : fat'[1][f] = 0 => c <= f
    BY <1>5, <1>7, <2>2, EntriesAre DEF Tables
  <2>7. ExtendBy(c)'
    <3>1. CASE copy < NumFats
      BY <1>1, <1>5, <1>10, <2>2, <2>5, <2>6, <3>1 DEF ExtendBy
    <3>2. CASE ~ (copy < NumFats)
      BY <1>1, <1>5, <2>2, <2>5, <2>6, <3>2 DEF ExtendBy
    <3> QED
      BY <3>1, <3>2
  <2>8. ActiveInv' /\ ExtendInv'
    BY <2>4, <2>7 DEF ActiveInv, ExtendInv
  <2> QED
    BY <1>8, <2>4, <2>8 DEF Chains
<1> QED
  BY <1>1, <1>4, <1>9, <1>10 DEF ExtendBy

\* A new card has no file of the logger.
LEMMA ChainsInitially ==
    ASSUME Init
    PROVE  ChainInv
<1>1. /\ pc = "off" /\ 1 \in 1 .. NumFats
      /\ fat[1] = [c \in Entries |-> IF c = 2 \/ c \in Occupied THEN EOC ELSE 0]
  BY SizesAssumption DEF Init
<1>2. Ordered(fat[1])
  <2>1. PICK table : table = fat[1]
    OBVIOUS
  <2>2. Foreign \subseteq Entries
    BY VolumeAssumption DEF Foreign, Entries
  <2>3. \A c \in Entries : table[c] = IF c \in Foreign THEN EOC ELSE 0
    BY <1>1, <2>1 DEF Foreign
  <2>4. Ordered(table)
    BY <2>2, <2>3, EntriesAre DEF Ordered, Rising
  <2> QED
    BY <2>1, <2>4
<1>3. LogSlots = {}
  <2>1. \A s \in Slots : dir[s].kind # "log"
    BY DEF Init, NoEntry, Entry
  <2> QED
    BY <2>1 DEF LogSlots
<1> QED
  BY <1>1, <1>2, <1>3 DEF ChainInv, ModeInv, ApartInv, WholeInv, MakingInv, Making, ActiveInv,
                         Active, ExtendInv

\* Every step keeps the chains.
LEMMA ChainsPreserved ==
    ASSUME TypeInv, NameInv, ChainInv, [Next]_vars
    PROVE  ChainInv'
<1>1. TypeInv' /\ ModeInv' /\ ModeInv /\ PendingInv
  BY TypePreserved, ModePreserved DEF ChainInv, NameInv
<1>2. SUFFICES ASSUME ~ cut' PROVE Chains'
  BY <1>1 DEF ChainInv, Chains
<1>3. ~ cut
  <2>1. cut' = cut \/ cut' = (cut \/ \E s \in Slots : dir[s].kind = "log" /\ ChainEnd(dir[s].first) = 0)
    BY DEF Next, PowerOn, BootWith, PowerOff, ConfigSave, OpenResume, ResumeAt, OpenCreate, Create,
           OpenFails, OpenWild, WriteFatEntry, ZeroFill, WriteDirEntry, CardRefuses, Extend,
           AppendSector, WriteSector, AppendWild, FlushDir, FlushRecord, TrimFree, TrimFull,
           vars, histVars
  <2> QED
    BY <1>2, <2>1
<1>4. Chains
  BY <1>3 DEF ChainInv, Chains
<1>5. CASE PowerOn \/ ConfigSave
  BY <1>1, <1>4, <1>5, ChainsBoot
<1>6. CASE PowerOff
  BY <1>2, <1>4, <1>6, ChainsOff
<1>7. CASE OpenFails \/ OpenWild \/ AppendWild \/ CardRefuses \/ AppendSector \/ FlushRecord \/ TrimFree
  BY <1>1, <1>4, <1>7, ChainsQuiet
<1>8. CASE FlushDir \/ TrimFull
  BY <1>4, <1>8, ChainsDir
<1>9. CASE OpenResume \/ OpenCreate \/ Extend \/ ZeroFill \/ WriteDirEntry
  BY <1>1, <1>4, <1>9, ChainsResume, ChainsCreate, ChainsExtend, ChainsZero, ChainsWriteDir
<1>10. CASE WriteFatEntry
  <2>1. mode \in {"create", "extend"}
    BY <1>1, <1>10 DEF ModeInv, WriteFatEntry
  <2> QED
    BY <1>1, <1>4, <1>10, <2>1, ChainsLink, ChainsAdd
<1>11. CASE UNCHANGED vars
  <2>1. /\ fat' = fat /\ dir' = dir /\ logfile' = logfile /\ pc' = pc /\ mode' = mode /\ todo' = todo
        /\ copy' = copy /\ zero' = zero
    BY <1>11 DEF vars, cardVars, taskVars
  <2>2. LogSlots' = LogSlots
    BY <2>1 DEF LogSlots
  <2>3. \A s \in LogSlots : FileChain(s)' = FileChain(s)
    BY <2>1 DEF FileChain
  <2>4. MakingInv'
    BY <1>4, <2>1, <2>2, <2>3 DEF Chains, MakingInv, Making, MakingBy
  <2>5. ActiveInv'
    BY <1>4, <2>1, <2>2, ChainsKept DEF Chains, ActiveInv, Active
  <2>6. ExtendInv'
    BY <1>4, <2>1 DEF Chains, ExtendInv, ExtendBy, Added
  <2>7. WholeInv'
    BY <1>4, <2>1, <2>2, <2>3 DEF Chains, WholeInv, Whole
  <2> QED
    BY <1>4, <2>1, <2>2, <2>4, <2>5, <2>6, <2>7, ChainsKept DEF Chains
<1> QED
  BY <1>5, <1>6, <1>7, <1>8, <1>9, <1>10, <1>11 DEF Next

\* The invariant of the chains, with the types and the names it rests on.
THEOREM ChainInvariant == Spec => [](TypeInv /\ NameInv /\ ChainInv)
<1>1. TypeInv /\ NameInv /\ ChainInv /\ [Next]_vars => ChainInv'
  BY ChainsPreserved
<1>2. Init => ChainInv
  BY ChainsInitially
<1> QED
  BY <1>1, <1>2, TypesAlways, PTL DEF Spec

\* It says of the files what the properties say.
LEMMA ChainsImply == TypeInv /\ ChainInv => ChainsComplete /\ NoCrossLink
<1> SUFFICES ASSUME TypeInv, ChainInv, ~ cut PROVE ChainsComplete /\ NoCrossLink
  BY DEF ChainsComplete, NoCrossLink
<1>1. ApartInv /\ WholeInv /\ fat[1] \in Tables /\ Rising(fat[1])
  BY SizesAssumption DEF ChainInv, Ordered, TypeInv, FatType
<1>2. ASSUME NEW s \in LogSlots
      PROVE  /\ Chain(dir[s].first) = FileChain(s)
             /\ ChainEnd(dir[s].first) = EOC \/ (dir[s].first = logfile.first /\ mode = "extend")
  <2>1. Chain(dir[s].first) = FileChain(s) /\ ChainEnd(dir[s].first) = EndOf(fat[1], dir[s].first)
    BY DEF Chain, ChainEnd, Link, FileChain, ChainOf, EndOf
  <2>2. dir[s].first \in Entries
    BY DEF TypeInv, DirType
  <2>3. Whole(s) => EndOf(fat[1], dir[s].first) = EOC
    BY <1>1, <2>2, ChainMarked DEF Whole, FileChain
  <2> QED
    BY <1>1, <2>1, <2>3 DEF WholeInv
<1>3. ChainsComplete
  BY <1>1, <1>2 DEF ChainsComplete, ApartInv
<1>4. NoCrossLink
  BY <1>1, <1>2 DEF NoCrossLink, ApartInv, Foreign
<1> QED
  BY <1>3, <1>4

\* Though power is lost, the card refuses sectors, and sessions resume and
\* extend files, a file in the directory has a complete chain: up to the first
\* power loss between the two FAT writes of an extension (cut), and but for the
\* end of the file that is just being extended.  That the clusters are those of
\* the volume is not claimed: Entries runs on to the end of the last FAT sector.
THEOREM ChainsStayComplete == Spec => []ChainsComplete
<1> QED
  BY ChainsImply, ChainInvariant, PTL

\* No two files share a cluster, and none has one of a file of the user, though
\* the chains that crashes leave half-built stay in the FAT: up to the first
\* power loss between the two FAT writes of an extension (cut), after which two
\* files can share one.
THEOREM FilesStayApart == Spec => []NoCrossLink
<1> QED
  BY ChainsImply, ChainInvariant, PTL

-----------------------------------------------------------------------------
(* The numbers that are saved *)

SavedNum == lognum.lo + LRADIX * lognum.hi

\* Until the first configuration is saved there is no magic number, unless that
\* save is under way, and no file.
FirstSave ==
    saved = "never" =>
        /\ pc \in {"off", "magic", "lo", "hi", "flags"} /\ LogSlots = {}
        /\ pc # "off" => mode = "boot" /\ num = 1
        /\ magic <=> pc \in {"lo", "hi", "flags"}

\* From then on the saved number is at most one more than the sessions there
\* were, even while only one of its bytes is written, and so is num.
LaterSaves ==
    saved = "done" =>
        /\ magic /\ ~ flags
        /\ SavedNum <= boots + 1
        /\ pc # "off" => num <= boots + 1
        /\ pc = "open" => num = SavedNum /\ num <= boots
        /\ Making => SavedNum <= num /\ num <= boots
        /\ pc \in {"magic", "lo"} => \/ mode = "boot" /\ num = 1 /\ SavedNum <= boots
                                     \/ mode = "create" /\ SavedNum <= num
        /\ pc = "hi" => mode = "create" \/ num = 1
        /\ pc = "flags" /\ mode = "boot" => num = 1

\* The bytes of the number that have been written by config_save().
BytesSaved == saved # "cut" => /\ pc \in {"hi", "flags"} => lognum.lo = num % LRADIX
                               /\ pc = "flags" => lognum.hi = num \div LRADIX

\* Before this session's file is made the files have smaller numbers than
\* there were sessions.
Fresh == pc = "open" \/ Making \/ (pc \in {"magic", "lo", "hi", "flags"} /\ mode = "boot")
FileNumbers ==
    saved # "cut" => /\ \A s \in LogSlots : dir[s].name <= boots /\ (Fresh => dir[s].name < boots)
                     /\ Making => logfile.name = num

SaveInv == /\ boots \in 0 .. MaxBoots /\ (pc # "off" => boots >= 1)
           /\ FirstSave /\ LaterSaves /\ BytesSaved /\ FileNumbers

\* The numbers last for all sessions.
FewSessions == MaxBoots + 1 < LogMax

\* What the numbers are.
LEMMA SavedType ==
    ASSUME NumInv
    PROVE  /\ num \in Nat /\ SavedNum \in Nat /\ lognum.lo \in Nat /\ lognum.hi \in Nat
           /\ LRADIX \in Nat \ {0} /\ LRADIX > 1 /\ LogMax \in Nat /\ MaxBoots \in Nat
           /\ 1 % LRADIX = 1 /\ 1 \div LRADIX = 0
           /\ num = (num % LRADIX) + LRADIX * (num \div LRADIX)
<1>1. LRADIX \in Nat \ {0} /\ LRADIX > 1 /\ LogMax \in Nat /\ MaxBoots \in Nat
  BY LogMaxType, SizesAssumption
<1>2. num \in Nat /\ lognum.lo \in Nat /\ lognum.hi \in Nat
  BY <1>1 DEF NumInv
<1>3. SavedNum \in Nat
  <2>1. PICK lo \in Nat : lo = lognum.lo
    BY <1>2
  <2>2. PICK hi \in Nat : hi = lognum.hi
    BY <1>2
  <2>3. lo + LRADIX * hi \in Nat
    BY <1>1
  <2> QED
    BY <2>1, <2>2, <2>3 DEF SavedNum
<1>4. num = (num % LRADIX) + LRADIX * (num \div LRADIX)
  BY <1>1, <1>2, DivMod
<1>5. 1 % LRADIX = 1 /\ 1 \div LRADIX = 0
  <2>1. PICK k \in Nat : k = 1 \div LRADIX /\ k < 1
    <3>1. 1 < 1 * LRADIX /\ 1 \div LRADIX \in Nat
      BY <1>1, DivMod
    <3> QED
      BY <1>1, <3>1, DivBelow
  <2>2. 1 = (LRADIX * k) + (1 % LRADIX) /\ LRADIX * 0 = 0 /\ 1 % LRADIX \in Nat
    BY <1>1, <2>1, DivMod
  <2>3. k = 0
    BY <2>1
  <2> QED
    BY <2>1, <2>2, <2>3
<1> QED
  BY <1>1, <1>2, <1>3, <1>4, <1>5

\* A save that is cut between the two bytes of a larger number leaves a smaller.
LEMMA TornSave ==
    ASSUME NEW R \in Nat \ {0}, NEW n \in Nat, NEW lo \in Nat, NEW hi \in Nat, lo + R * hi <= n
    PROVE  (n % R) + R * hi <= n
<1>1. PICK p \in Nat : p = n \div R
  BY DivMod
<1>2. PICK r \in 0 .. R - 1 : r = n % R /\ n = (R * p) + r
  BY <1>1, DivMod
<1>3. ASSUME hi > p PROVE FALSE
  <2>1. \A a, b \in Nat : a <= b => R * a <= R * b
    OBVIOUS
  <2>2. R * (p + 1) <= R * hi
    BY <1>3, <2>1
  <2>3. R * (p + 1) = (R * p) + R /\ R * p \in Nat /\ R * hi \in Nat
    OBVIOUS
  <2> QED
    BY <1>2, <2>2, <2>3
<1>4. R * hi <= R * p /\ R * hi \in Nat /\ R * p \in Nat
  <2>1. \A a, b \in Nat : a <= b => R * a <= R * b
    OBVIOUS
  <2> QED
    BY <1>3, <2>1
<1> QED
  BY <1>2, <1>4

\* Power on: the saved number, or the first boot.
LEMMA SaveBoot ==
    ASSUME SaveInv, NumInv, TypeInv, PowerOn
    PROVE  SaveInv'
<1>1. /\ pc = "off" /\ boots < MaxBoots /\ boots' = boots + 1 /\ mode' = "boot"
      /\ saved' = saved /\ magic' = magic /\ flags' = flags /\ lognum' = lognum /\ dir' = dir
      /\ pc' \in {"magic", "open"}
  BY DEF PowerOn, BootWith, cardVars, eepromVars, histVars
<1>2. LogSlots' = LogSlots /\ SavedNum' = SavedNum /\ ~ Making'
  BY <1>1 DEF LogSlots, SavedNum, Making
<1>3. boots \in Nat /\ SavedNum \in Nat /\ boots' \in 0 .. MaxBoots /\ boots' >= 1
  BY <1>1, SavedType DEF SaveInv
<1>4. saved \in {"never", "cut", "done"}
  BY DEF TypeInv, EepromType
<1>5. CASE saved = "never"
  <2>1. ~ magic /\ LogSlots = {}
    BY <1>1, <1>5 DEF SaveInv, FirstSave
  <2>2. num' = 1 /\ pc' = "magic"
    BY <2>1 DEF PowerOn, BootWith
  <2> QED
    BY <1>1, <1>2, <1>3, <1>5, <2>1, <2>2 DEF SaveInv, FirstSave, LaterSaves, BytesSaved, FileNumbers
<1>6. CASE saved = "done"
  <2>1. magic /\ ~ flags /\ SavedNum <= boots + 1
    BY <1>6 DEF SaveInv, LaterSaves
  <2>2. num' = SavedNum \/ (num' = 1 /\ pc' = "magic")
    BY DEF PowerOn, BootWith, SavedNum
  <2>3. /\ pc' = "open" => num' = SavedNum
        /\ num' <= boots' /\ SavedNum <= boots' /\ SavedNum <= boots' + 1 /\ num' <= boots' + 1
        /\ pc' = "magic" => num' = 1
    BY <1>1, <1>3, <2>1, <2>2 DEF PowerOn, BootWith, SavedNum
  <2>4. LaterSaves'
    BY <1>1, <1>2, <2>1, <2>3 DEF LaterSaves
  <2>5. \A s \in LogSlots : dir[s].name <= boots /\ dir[s].name \in Nat
    BY <1>6 DEF SaveInv, FileNumbers, TypeInv, DirType, DirEntries, LogSlots
  <2>6. \A s \in LogSlots : dir[s].name < boots' /\ dir[s].name <= boots'
    BY <1>1, <1>3, <2>5
  <2>7. FileNumbers' /\ BytesSaved' /\ FirstSave'
    BY <1>1, <1>2, <1>6, <2>6 DEF FileNumbers, BytesSaved, FirstSave
  <2> QED
    BY <1>3, <2>4, <2>7 DEF SaveInv
<1>7. CASE saved = "cut"
  BY <1>1, <1>3, <1>7 DEF SaveInv, FirstSave, LaterSaves, BytesSaved, FileNumbers
<1> QED
  BY <1>4, <1>5, <1>6, <1>7

\* Power off: the first save, once begun, counts as cut.
LEMMA SaveOff ==
    ASSUME SaveInv, NumInv, TypeInv, PowerOff
    PROVE  SaveInv'
<1>1. /\ pc' = "off" /\ boots' = boots
      /\ magic' = magic /\ flags' = flags /\ lognum' = lognum /\ dir' = dir
      /\ saved' = IF saved = "never" /\ magic THEN "cut" ELSE saved
  BY DEF PowerOff, cardVars, eepromVars, countVars
<1>2. LogSlots' = LogSlots /\ SavedNum' = SavedNum /\ ~ Making' /\ ~ Fresh'
  BY <1>1 DEF LogSlots, SavedNum, Making, Fresh
<1>3. FirstSave'
  BY <1>1, <1>2 DEF SaveInv, FirstSave
<1>4. LaterSaves'
  BY <1>1, <1>2 DEF SaveInv, LaterSaves
<1>5. BytesSaved'
  BY <1>1 DEF BytesSaved
<1>6. FileNumbers'
  BY <1>1, <1>2 DEF SaveInv, FileNumbers
<1> QED
  BY <1>1, <1>3, <1>4, <1>5, <1>6 DEF SaveInv

\* One field of the configuration is saved.
LEMMA SaveOneField ==
    ASSUME SaveInv, NumInv, ModeInv, TypeInv, ConfigSave, FewSessions
    PROVE  SaveInv'
<1>1. /\ pc \in {"magic", "lo", "hi", "flags"} /\ mode' = mode /\ num' = num /\ boots' = boots
      /\ dir' = dir /\ mode \in {"boot", "create"}
      /\ pc' = CASE pc = "magic" -> "lo" [] pc = "lo" -> "hi" [] pc = "hi" -> "flags"
                 [] OTHER -> IF mode = "boot" THEN "open" ELSE "run"
      /\ saved' = IF pc = "flags" /\ saved = "never" THEN "done" ELSE saved
      /\ magic' = (magic \/ pc = "magic")
      /\ flags' = (flags /\ ~ (pc = "flags" /\ mode = "boot"))
      /\ lognum'.lo = IF pc = "lo" THEN num % LRADIX ELSE lognum.lo
      /\ lognum'.hi = IF pc = "hi" THEN num \div LRADIX ELSE lognum.hi
  BY DEF ConfigSave, SaveField, Save, cardVars, taskVars, countVars, ModeInv
<1>2. /\ pc = "magic" => pc' = "lo"
      /\ pc = "lo" => pc' = "hi"
      /\ pc = "hi" => pc' = "flags"
      /\ pc = "flags" => pc' = IF mode = "boot" THEN "open" ELSE "run"
  BY <1>1
<1>3. LogSlots' = LogSlots /\ ~ Making' /\ boots \in Nat /\ boots >= 1
  BY <1>1, <1>2 DEF LogSlots, Making, SaveInv
<1>4. /\ num \in Nat /\ SavedNum \in Nat /\ lognum.lo \in Nat /\ lognum.hi \in Nat
      /\ LRADIX \in Nat \ {0} /\ LRADIX > 1
      /\ 1 % LRADIX = 1 /\ 1 \div LRADIX = 0
      /\ num = (num % LRADIX) + LRADIX * (num \div LRADIX)
  BY SavedType
<1>5. saved \in {"never", "cut", "done"}
  BY DEF TypeInv, EepromType
<1>6. BytesSaved'
  BY <1>1, <1>2 DEF SaveInv, BytesSaved
<1>7. FileNumbers'
  <2>1. saved' # "cut" => saved # "cut"
    BY <1>1
  <2>2. Fresh' => Fresh
    BY <1>1, <1>2, <1>3 DEF Fresh
  <2> QED
    BY <1>1, <1>3, <2>1, <2>2 DEF SaveInv, FileNumbers
<1>8. FirstSave'
  <2>1. CASE saved = "never" /\ pc # "flags"
    BY <1>1, <1>2, <1>3, <2>1 DEF SaveInv, FirstSave
  <2>2. CASE ~ (saved = "never" /\ pc # "flags")
    BY <1>1, <2>2 DEF FirstSave
  <2> QED
    BY <2>1, <2>2
<1>9. saved # "cut" /\ pc = "flags" => SavedNum' = num
  <2>1. ASSUME saved # "cut", pc = "flags" PROVE SavedNum' = num
    <3>1. lognum'.lo = num % LRADIX /\ lognum'.hi = num \div LRADIX
      BY <1>1, <2>1 DEF SaveInv, BytesSaved
    <3> QED
      BY <1>4, <3>1 DEF SavedNum
  <2> QED
    BY <2>1
<1>10. LaterSaves'
  <2>1. CASE saved = "never" /\ pc = "flags"
    <3>1. magic /\ mode = "boot" /\ num = 1
      BY <1>3, <2>1 DEF SaveInv, FirstSave
    <3>2. pc' = "open" /\ magic' /\ ~ flags' /\ num' = 1 /\ SavedNum' = 1 /\ mode' = "boot"
      BY <1>1, <1>2, <1>9, <2>1, <3>1
    <3> QED
      BY <1>1, <1>3, <3>2 DEF LaterSaves
  <2>2. CASE (saved = "never" /\ pc # "flags") \/ saved = "cut"
    BY <1>1, <2>2 DEF LaterSaves
  <2>3. CASE saved = "done"
    <3>1. /\ magic /\ ~ flags /\ SavedNum <= boots + 1 /\ num <= boots + 1
          /\ pc \in {"magic", "lo"} => \/ mode = "boot" /\ num = 1 /\ SavedNum <= boots
                                       \/ mode = "create" /\ SavedNum <= num
          /\ pc = "hi" => mode = "create" \/ num = 1
          /\ pc = "flags" /\ mode = "boot" => num = 1
      BY <1>1, <2>3 DEF SaveInv, LaterSaves
    <3>2. magic' /\ ~ flags' /\ num' <= boots' + 1
      BY <1>1, <3>1
    <3>3. CASE pc = "magic"
      <4>1. SavedNum' = SavedNum
        BY <1>1, <3>3 DEF SavedNum
      <4> QED
        BY <1>1, <1>2, <1>3, <3>1, <3>2, <3>3, <4>1 DEF LaterSaves
    <3>4. CASE pc = "lo"
      <4>1. SavedNum' = (num % LRADIX) + LRADIX * lognum.hi
        BY <1>1, <3>4 DEF SavedNum
      <4>2. CASE mode = "boot"
        <5>1. PICK x \in Nat : x = LRADIX * lognum.hi
          BY <1>4
        <5>2. x <= SavedNum
          BY <1>4, <5>1 DEF SavedNum
        <5>3. SavedNum' = 1 + x /\ SavedNum <= boots /\ num = 1
          BY <1>4, <3>1, <3>4, <4>1, <4>2, <5>1
        <5>4. SavedNum' <= boots + 1
          BY <1>3, <1>4, <5>2, <5>3
        <5> QED
          BY <1>1, <1>2, <1>3, <3>2, <3>4, <5>3, <5>4 DEF LaterSaves
      <4>3. CASE mode = "create"
        <5>1. lognum.lo + LRADIX * lognum.hi <= num
          BY <3>1, <3>4, <4>3 DEF SavedNum
        <5>2. SavedNum' <= num
          BY <1>4, <4>1, <5>1, TornSave
        <5>3. SavedNum' \in Nat
          <6>1. num % LRADIX \in Nat /\ LRADIX * lognum.hi \in Nat
            BY <1>4, DivMod
          <6> QED
            BY <4>1, <6>1
        <5>4. SavedNum' <= boots + 1
          BY <1>3, <1>4, <3>1, <5>2, <5>3
        <5> QED
          BY <1>1, <1>2, <1>3, <3>2, <3>4, <4>3, <5>4 DEF LaterSaves
      <4> QED
        BY <1>1, <4>2, <4>3
    <3>5. CASE pc = "hi"
      <4>1. lognum'.lo = num % LRADIX /\ lognum'.hi = num \div LRADIX
        BY <1>1, <2>3, <3>5 DEF SaveInv, BytesSaved
      <4>2. SavedNum' = num
        BY <1>4, <4>1 DEF SavedNum
      <4> QED
        BY <1>1, <1>2, <1>3, <3>1, <3>2, <3>5, <4>2 DEF LaterSaves
    <3>6. CASE pc = "flags"
      <4>1. SavedNum' = num
        BY <1>9, <2>3, <3>6
      <4> QED
        BY <1>1, <1>2, <1>3, <3>1, <3>2, <3>6, <4>1 DEF LaterSaves
    <3> QED
      BY <1>1, <3>3, <3>4, <3>5, <3>6
  <2> QED
    BY <1>5, <2>1, <2>2, <2>3
<1> QED
  BY <1>1, <1>2, <1>6, <1>7, <1>8, <1>10 DEF SaveInv

\* Opening looks no further than the number after those of the files.
LEMMA StopIsNear ==
    ASSUME SaveInv, NumInv, TypeInv, FewSessions, saved # "cut", pc = "open"
    PROVE  saved = "done" /\ Stop \in Nat /\ num <= Stop /\ Stop <= boots /\ Stop # LogMax
<1>1. boots \in Nat /\ boots <= MaxBoots /\ num \in Nat /\ LogMax \in Nat /\ MaxBoots \in Nat
  BY SavedType DEF SaveInv
<1>2. saved = "done"
  BY DEF TypeInv, EepromType, SaveInv, FirstSave
<1>3. num <= boots
  BY <1>2 DEF SaveInv, LaterSaves
<1>4. boots < LogMax
  BY <1>1 DEF FewSessions
<1>5. Match(boots) = {}
  <2>1. \A s \in LogSlots : dir[s].name < boots /\ dir[s].name \in Nat
    BY DEF SaveInv, FileNumbers, Fresh, TypeInv, DirType, DirEntries, LogSlots
  <2>2. Match(boots) \subseteq LogSlots /\ \A s \in Match(boots) : dir[s].name = boots
    BY DEF Match, Live, LogSlots
  <2> QED
    BY <1>1, <2>1, <2>2
<1> DEFINE S == {n \in num .. LogMax : n = LogMax \/ Match(n) = {} \/ Resumable(n)}
<1>6. boots \in S /\ S \subseteq Nat
  BY <1>1, <1>3, <1>4, <1>5
<1>7. Min(S) \in S /\ Min(S) <= boots
  <2> HIDE DEF S
  <2> QED
    BY <1>6, MinIsLeast
<1>8. Stop \in num .. LogMax /\ Stop <= boots
  BY <1>7 DEF Stop
<1> QED
  BY <1>1, <1>2, <1>4, <1>8

\* A file is opened.
LEMMA SaveOpen ==
    ASSUME SaveInv, NumInv, TypeInv, FewSessions, OpenResume \/ OpenCreate
    PROVE  SaveInv'
<1>1. /\ pc = "open" /\ num' = Stop /\ boots' = boots /\ saved' = saved /\ magic' = magic
      /\ flags' = flags /\ lognum' = lognum /\ dir' = dir
      /\ pc' \in {"run", "link"}
  BY DEF OpenResume, ResumeAt, OpenCreate, Create, cardVars, eepromVars, countVars, histVars
<1>2. LogSlots' = LogSlots /\ SavedNum' = SavedNum
  BY <1>1 DEF LogSlots, SavedNum
<1>3. CASE saved = "cut"
  BY <1>1, <1>3 DEF SaveInv, FirstSave, LaterSaves, BytesSaved, FileNumbers
<1>4. CASE saved # "cut"
  <2>1. saved = "done" /\ Stop \in Nat /\ num <= Stop /\ Stop <= boots /\ Stop # LogMax
    BY <1>1, <1>4, StopIsNear
  <2>2. boots \in Nat /\ num \in Nat /\ SavedNum \in Nat
    BY SavedType DEF SaveInv
  <2>3. magic /\ ~ flags /\ SavedNum <= boots + 1 /\ num = SavedNum
    BY <1>1, <2>1 DEF SaveInv, LaterSaves
  <2>4. num' <= boots + 1 /\ num' <= boots /\ SavedNum <= num'
    BY <1>1, <2>1, <2>2, <2>3
  <2>5. LaterSaves'
    BY <1>1, <1>2, <2>3, <2>4 DEF LaterSaves
  <2>6. Making' => logfile'.name = num'
    BY <1>1, <2>1 DEF Making, OpenResume, ResumeAt, OpenCreate, Create
  <2>7. \A s \in LogSlots : dir[s].name <= boots /\ dir[s].name < boots
    BY <1>1, <1>4 DEF SaveInv, FileNumbers, Fresh
  <2>8. FileNumbers' /\ FirstSave' /\ BytesSaved'
    BY <1>1, <1>2, <2>1, <2>6, <2>7 DEF FileNumbers, FirstSave, BytesSaved
  <2> QED
    BY <1>1, <2>5, <2>8 DEF SaveInv
<1> QED
  BY <1>3, <1>4

\* A new file comes into the directory, and its number goes up by one.
LEMMA SaveWriteDir ==
    ASSUME SaveInv, NameInv, TypeInv, FewSessions, WriteDirEntry
    PROVE  SaveInv'
<1>1. /\ pc = "dir" /\ pc' = "magic" /\ num' = (num + 1) % (LogMax + 1) /\ boots' = boots
      /\ saved' = saved /\ magic' = magic /\ flags' = flags /\ lognum' = lognum
      /\ mode' = mode /\ mode = "create" /\ Making /\ ~ Making' /\ ~ Fresh'
  BY DEF WriteDirEntry, NameInv, PendingInv, eepromVars, countVars, histVars, taskVars, Making, Fresh
<1>2. SavedNum' = SavedNum
  BY <1>1 DEF SavedNum
<1>3. CASE saved = "cut"
  BY <1>1, <1>3 DEF SaveInv, FirstSave, LaterSaves, BytesSaved, FileNumbers
<1>4. CASE saved # "cut"
  <2>1. saved = "done"
    BY <1>1, <1>4 DEF TypeInv, EepromType, SaveInv, FirstSave
  <2>2. /\ magic /\ ~ flags /\ SavedNum <= boots + 1 /\ SavedNum <= num /\ num <= boots
        /\ logfile.name = num
    BY <1>1, <2>1 DEF SaveInv, LaterSaves, FileNumbers
  <2>3. /\ boots \in Nat /\ boots <= MaxBoots /\ num \in Nat /\ SavedNum \in Nat
        /\ LogMax \in Nat /\ MaxBoots \in Nat
    BY SavedType DEF SaveInv, NameInv
  <2>4. num' = num + 1
    <3>1. num + 1 < LogMax + 1
      BY <2>2, <2>3 DEF FewSessions
    <3> QED
      BY <1>1, <2>3, <3>1
  <2>5. SavedNum <= num' /\ num' <= boots + 1
    BY <2>2, <2>3, <2>4
  <2>6. LaterSaves'
    BY <1>1, <1>2, <2>2, <2>5 DEF LaterSaves
  <2>7. /\ dir'[logfile.slot].name = logfile.name
        /\ \A s \in Slots \ {logfile.slot} : dir'[s] = dir[s]
    BY WriteKeepsOrder DEF NameInv
  <2>8. \A s \in LogSlots' : dir'[s].name <= boots
    BY <2>1, <2>2, <2>7 DEF SaveInv, FileNumbers, LogSlots
  <2>9. FileNumbers' /\ FirstSave' /\ BytesSaved'
    BY <1>1, <2>1, <2>8 DEF FileNumbers, FirstSave, BytesSaved
  <2> QED
    BY <1>1, <2>6, <2>9 DEF SaveInv
<1> QED
  BY <1>3, <1>4

\* The other steps save no number and make no file.
LEMMA SaveOthers ==
    ASSUME SaveInv, NameInv, TypeInv,
           \/ OpenFails \/ OpenWild \/ WriteFatEntry \/ ZeroFill \/ CardRefuses \/ Extend \/ AppendSector
           \/ AppendWild \/ FlushDir \/ FlushRecord \/ TrimFree \/ TrimFull
    PROVE  SaveInv'
<1>1. /\ boots' = boots /\ saved' = saved /\ magic' = magic /\ flags' = flags /\ lognum' = lognum
      /\ num' = num /\ pc \notin {"off", "magic", "lo", "hi", "flags"}
  BY DEF OpenFails, OpenWild, WriteFatEntry, ZeroFill, CardRefuses, Extend, AppendSector, WriteSector,
         AppendWild, FlushDir, FlushRecord, TrimFree, TrimFull, eepromVars, countVars, histVars
<1>2. /\ pc' \in {"halt", "wild", "run", "link", "zero", "dir", "append", "record", "recordcmd", "prompt"}
      /\ Making' => Making
  BY DEF OpenFails, OpenWild, WriteFatEntry, ZeroFill, CardRefuses, Extend, AppendSector, WriteSector,
         AppendWild, FlushDir, FlushRecord, TrimFree, TrimFull, Making, taskVars
<1>3. Making' => logfile' = logfile
  BY DEF OpenFails, OpenWild, WriteFatEntry, ZeroFill, CardRefuses, Extend, AppendSector, WriteSector,
         AppendWild, FlushDir, FlushRecord, TrimFree, TrimFull, Making, taskVars
<1>4. SavedNum' = SavedNum
  BY <1>1 DEF SavedNum
<1>5. saved # "never"
  BY <1>1 DEF SaveInv, FirstSave
<1>6. LogSlots' \subseteq LogSlots /\ \A s \in LogSlots' : dir'[s].name = dir[s].name
  <2>1. CASE FlushDir
    BY <2>1, FlushKeepsNames DEF NameInv, LogSlots
  <2>2. CASE TrimFull
    BY <2>2 DEF TrimFull, LogSlots, NoEntry, Entry
  <2>3. CASE dir' = dir
    BY <2>3 DEF LogSlots
  <2> QED
    BY <2>1, <2>2, <2>3, DirUnchanged DEF Elsewhere
<1>7. LaterSaves'
  BY <1>1, <1>2, <1>4 DEF SaveInv, LaterSaves
<1>8. FileNumbers'
  <2>1. Fresh' => Fresh
    BY <1>2 DEF Fresh
  <2> QED
    BY <1>1, <1>2, <1>3, <1>6, <2>1 DEF SaveInv, FileNumbers
<1>9. FirstSave' /\ BytesSaved'
  BY <1>1, <1>2, <1>5 DEF FirstSave, BytesSaved
<1> QED
  BY <1>1, <1>7, <1>8, <1>9 DEF SaveInv

\* Every step keeps what is said of the numbers.
LEMMA SavePreserved ==
    ASSUME SaveInv, NameInv, ModeInv, TypeInv, FewSessions, [Next]_vars
    PROVE  SaveInv'
<1>1. NumInv
  BY DEF NameInv
<1>2. CASE UNCHANGED vars
  <2>1. /\ boots' = boots /\ saved' = saved /\ magic' = magic /\ flags' = flags /\ lognum' = lognum
        /\ num' = num /\ pc' = pc /\ mode' = mode /\ dir' = dir /\ logfile' = logfile
    BY <1>2 DEF vars, eepromVars, countVars, histVars, cardVars, taskVars
  <2>2. LogSlots' = LogSlots /\ SavedNum' = SavedNum /\ Making' = Making /\ Fresh' = Fresh
    BY <2>1 DEF LogSlots, SavedNum, Making, Fresh
  <2> QED
    BY <2>1, <2>2 DEF SaveInv, FirstSave, LaterSaves, BytesSaved, FileNumbers
<1> QED
  BY <1>1, <1>2, SaveBoot, SaveOff, SaveOneField, SaveOpen, SaveWriteDir, SaveOthers DEF Next

\* A new device has saved none.
LEMMA SaveInitially ==
    ASSUME Init
    PROVE  SaveInv
<1>1. pc = "off" /\ boots = 0 /\ saved = "never" /\ ~ magic
  BY DEF Init
<1>2. LogSlots = {}
  <2>1. \A s \in Slots : dir[s].kind # "log"
    BY DEF Init, NoEntry, Entry
  <2> QED
    BY <2>1 DEF LogSlots
<1>3. boots \in 0 .. MaxBoots
  BY <1>1, SizesAssumption
<1> QED
  BY <1>1, <1>2, <1>3 DEF SaveInv, FirstSave, LaterSaves, BytesSaved, FileNumbers, Making

\* Short of so many sessions that the numbers are used up, the number of a new
\* file is never 65535 and the factory reset is never locked out by a later
\* save, cut or not.  A cut of the very first save (saved = "cut") is excepted:
\* it does stop the next boot.
THEOREM ConfigStaysUsable ==
    ASSUME FewSessions
    PROVE  Spec => []ConfigUsable
<1>1. TypeInv /\ NameInv /\ ChainInv /\ SaveInv /\ [Next]_vars => SaveInv'
  BY SavePreserved DEF ChainInv
<1>2. TypeInv /\ NameInv /\ SaveInv => ConfigUsable
  <2>1. SUFFICES ASSUME TypeInv, NameInv, SaveInv, saved # "cut",
                        pc \notin {"off", "magic", "lo", "hi", "flags"}
                 PROVE  num < LogMax /\ ~ flags
    BY DEF ConfigUsable
  <2>2. saved = "done"
    BY <2>1 DEF TypeInv, EepromType, SaveInv, FirstSave
  <2>3. ~ flags /\ num <= boots + 1
    BY <2>1, <2>2 DEF SaveInv, LaterSaves
  <2>4. boots \in Nat /\ boots <= MaxBoots /\ num \in Nat /\ LogMax \in Nat /\ MaxBoots \in Nat
    BY <2>1, SavedType DEF SaveInv, NameInv
  <2> QED
    BY <2>3, <2>4 DEF FewSessions
<1>3. Init => SaveInv
  BY SaveInitially
<1> QED
  BY <1>1, <1>2, <1>3, ChainInvariant, PTL DEF Spec

-----------------------------------------------------------------------------
(* What lies where, on a card whose free clusters are adjacent *)

\* No cluster of another file lies between two that are free on the new card.
FreeTogether == \A a, b \in Entries \ Foreign : \A c \in Foreign : ~ (a < c /\ c < b)

\* The sectors of the clusters from a to c.
Within(a, c, x) == Lba(a) <= x /\ x < Lba(c) + SecPerClus

\* Each cluster from a to c is linked to the one after it, and c is not free.
Straight(a, c) == /\ a <= c /\ fat[1][c] # 0
                  /\ \A d \in a .. c - 1 : d \in Entries /\ fat[1][d] = d + 1

\* Those clusters hold the first k sectors logged to the file that begins at a,
\* which are all there are, and nothing else that was logged.
Own(a, c, x) == Within(a, c, x) \/ x = Lba(a) + data[x].at
FileBy(name, a, c, k) ==
    /\ Straight(a, c)
    /\ Lba(a) + k <= Lba(c) + SecPerClus
    /\ \A i \in 0 .. k - 1 : data[Lba(a) + i] = LogData(name, i)
    /\ \A x \in Sectors : data[x].kind = "log" /\ Own(a, c, x) => x < Lba(a) + k

\* What is in the sectors that the directory gives to a file.
SizeBy(s, k) ==
    \/ dir[s].size <= k
    \/ /\ dir[s].size = NSectors
       /\ \A i \in k .. NSectors - 1 : data[Lba(dir[s].first) + i] = Plain("zero")
StoredBy(s, c, k) ==
    /\ FileBy(dir[s].name, dir[s].first, c, k)
    /\ Lba(dir[s].first) + NSectors <= Lba(c) + SecPerClus
    /\ SizeBy(s, k)

\* The file in use, whose entry may have been trimmed, and the others.
InUse == Active \/ pc \in {"recordcmd", "prompt"}
UseBody ==
    /\ dir[logfile.slot].first = logfile.first /\ dir[logfile.slot].name = logfile.name
    /\ logfile.cur = Lba(logfile.first) + logfile.written
    /\ Lba(logfile.first) + NSectors <= logfile.end
    /\ pc = "append" => logfile.cur < logfile.end
    /\ \E c \in Entries : /\ c <= logfile.last /\ logfile.end <= Lba(c) + SecPerClus
                          /\ StoredBy(logfile.slot, c, logfile.written)
UseInv == InUse /\ logfile.slot \in LogSlots => UseBody
StoredInv ==
    \A s \in LogSlots : \/ InUse /\ s = logfile.slot
                        \/ \E c \in Entries : \E k \in Nat : StoredBy(s, c, k)

\* What was logged lies in clusters that are not free, at its offset from the
\* first one of its file.
PlacedInv ==
    \A x \in Sectors : data[x].kind = "log" =>
        /\ fat[1][ClusterOf(x)] # 0
        /\ \E a \in Entries : fat[1][a] # 0 /\ x = Lba(a) + data[x].at

\* The clusters of a file that is being made are adjacent and hold nothing that
\* was logged, the first of their sectors zeros already; and nothing remains of
\* an earlier file that began there.
NewBody ==
    /\ logfile.last = logfile.first + (NClus - 1)
    /\ logfile.cur = Lba(logfile.first) /\ logfile.end = logfile.cur + NSectors
    /\ logfile.written = 0
    /\ \A x \in Sectors : data[x].kind = "log" => ~ Own(logfile.first, logfile.last, x)
    /\ zero[2] = Lba(logfile.first) + NSectors
    /\ Lba(logfile.first) <= zero[1] /\ zero[1] <= zero[2]
    /\ pc \in {"link", "zero"} => zero[1] < zero[2]
    /\ pc = "link" => zero[1] = Lba(logfile.first)
    /\ pc = "dir" => zero[1] = zero[2]
    /\ pc # "link" => \A x \in Lba(logfile.first) .. zero[1] - 1 : data[x] = Plain("zero")
NewInv == Making => NewBody

\* Nor does the cluster that is being added hold anything.
AddBody ==
    /\ logfile.cur >= logfile.end
    /\ \A x \in Sectors : zero[2] - SecPerClus <= x /\ x < zero[2] => data[x].kind # "log"
AddInv == pc \in {"link", "zero"} /\ mode = "extend" => AddBody

Laid == StoredInv /\ UseInv /\ PlacedInv /\ NewInv /\ AddInv
ContentInv == ~ cut /\ ~ misplaced => Laid

\* The first sectors of clusters are in the order of the clusters.
LEMMA LbaOrder ==
    ASSUME NEW a \in Nat, NEW b \in Nat, a >= 2, b >= 2
    PROVE  /\ Lba(a) \in Nat /\ Lba(b) \in Nat /\ Lba(a + 1) = Lba(a) + SecPerClus
           /\ a <= b => Lba(a) <= Lba(b)
           /\ a < b => Lba(a) + SecPerClus <= Lba(b)
           /\ Lba(a) = Lba(b) => a = b
<1>1. PICK S \in Nat \ {0} : S = SecPerClus
  BY LbaType
<1>2. PICK m \in Nat : m = a - 2
  OBVIOUS
<1>3. PICK n \in Nat : n = b - 2
  OBVIOUS
<1>4. Lba(a) = m * S /\ Lba(b) = n * S /\ Lba(a + 1) = (m + 1) * S
  <2>1. (a + 1) - 2 = m + 1
    BY <1>2
  <2> QED
    BY <1>1, <1>2, <1>3, <2>1 DEF Lba
<1>5. m * S \in Nat /\ n * S \in Nat /\ (m + 1) * S = (m * S) + S /\ (n + 1) * S = (n * S) + S
  OBVIOUS
<1>6. \A i, j \in Nat : i <= j => i * S <= j * S
  OBVIOUS
<1>7. a <= b => Lba(a) <= Lba(b)
  BY <1>2, <1>3, <1>4, <1>6
<1>8. a < b => Lba(a) + SecPerClus <= Lba(b)
  <2>1. a < b => (m + 1) * S <= n * S
    BY <1>2, <1>3, <1>6
  <2> QED
    BY <1>1, <1>4, <1>5, <2>1
<1>9. b < a => Lba(b) + SecPerClus <= Lba(a)
  <2>1. b < a => (n + 1) * S <= m * S
    BY <1>2, <1>3, <1>6
  <2> QED
    BY <1>1, <1>4, <1>5, <2>1
<1>10. Lba(a) = Lba(b) => a = b
  <2>1. a < b \/ b < a \/ a = b
    OBVIOUS
  <2> QED
    BY <1>1, <1>4, <1>5, <1>8, <1>9, <2>1
<1> QED
  BY <1>1, <1>4, <1>5, <1>7, <1>8, <1>10

\* A sector lies in its cluster.
LEMMA ClusterHolds ==
    ASSUME NEW x \in Sectors
    PROVE  /\ x \in Nat /\ ClusterOf(x) \in Entries
           /\ Lba(ClusterOf(x)) <= x /\ x < Lba(ClusterOf(x)) + SecPerClus
<1>1. PICK S \in Nat \ {0} : S = SecPerClus
  BY LbaType
<1>2. x \in Nat /\ ClusterOf(x) \in Entries
  BY LbaType
<1>3. PICK p \in Nat : p = x \div S
  BY <1>2, DivMod
<1>4. x = (S * p) + (x % S) /\ x % S \in 0 .. S - 1
  BY <1>2, <1>3, DivMod
<1>5. Lba(ClusterOf(x)) = p * S
  <2>1. ClusterOf(x) - 2 = p
    BY <1>1, <1>3 DEF ClusterOf
  <2> QED
    BY <1>1, <2>1 DEF Lba
<1>6. p * S = S * p /\ p * S \in Nat
  OBVIOUS
<1>7. PICK r \in 0 .. S - 1 : x = (p * S) + r
  BY <1>4, <1>6
<1> QED
  BY <1>1, <1>2, <1>5, <1>6, <1>7

\* The sectors of clusters are those whose cluster is among them.
LEMMA WithinIs ==
    ASSUME NEW a \in Entries, NEW c \in Entries, NEW x \in Sectors
    PROVE  Within(a, c, x) <=> a <= ClusterOf(x) /\ ClusterOf(x) <= c
<1>1. PICK d \in Entries : d = ClusterOf(x)
  BY ClusterHolds
<1>2. x \in Nat /\ Lba(d) <= x /\ x < Lba(d) + SecPerClus
  BY <1>1, ClusterHolds
<1>3. a \in Nat /\ c \in Nat /\ d \in Nat /\ a >= 2 /\ c >= 2 /\ d >= 2 /\ SecPerClus \in Nat
  BY EntriesAre, LbaType DEF Entries
<1>4. /\ Lba(a) \in Nat /\ Lba(c) \in Nat /\ Lba(d) \in Nat
      /\ a <= d => Lba(a) <= Lba(d)
      /\ d <= c => Lba(d) <= Lba(c)
  BY <1>3, LbaOrder
<1>5. d < a => Lba(d) + SecPerClus <= Lba(a)
  BY <1>3, LbaOrder
<1>6. c < d => Lba(c) + SecPerClus <= Lba(d)
  BY <1>3, LbaOrder
<1>7. ASSUME a <= d, d <= c PROVE Within(a, c, x)
  BY <1>2, <1>3, <1>4, <1>7 DEF Within
<1>8. ASSUME Within(a, c, x) PROVE a <= d /\ d <= c
  BY <1>2, <1>3, <1>4, <1>5, <1>6, <1>8 DEF Within
<1> QED
  BY <1>1, <1>7, <1>8

\* All of them are on the card.
LEMMA WithinCard ==
    ASSUME NEW a \in Entries, NEW c \in Entries, NEW x \in Int, Within(a, c, x)
    PROVE  x \in Sectors
<1>1. Lba(a) \in Nat /\ Lba(c) \in Nat /\ Lba(c) + SecPerClus <= Lba(LastEntry + 1) /\ SecPerClus \in Nat
  BY LbaType
<1>2. Lba(LastEntry + 1) \in Nat
  <2>1. LastEntry + 1 \in Nat /\ LastEntry + 1 >= 2
    BY VolumeAssumption
  <2> QED
    BY <2>1, LbaType
<1>3. Lba(a) <= x /\ x < Lba(c) + SecPerClus
  BY DEF Within
<1>4. x >= 0 /\ x < Lba(LastEntry + 1)
  BY <1>1, <1>2, <1>3
<1> QED
  BY <1>2, <1>4 DEF Sectors

\* Adjacent clusters that are linked belong to the chain, and none is free.
LEMMA StraightIsChain ==
    ASSUME fat[1] \in Tables, Rising(fat[1]), NEW a \in Entries, NEW c \in Entries, Straight(a, c)
    PROVE  /\ \A d \in a .. c : /\ d \in Entries /\ d \in ChainOf(fat[1], a) /\ fat[1][d] # 0
                                /\ Link(a)[d - a] = d
<1>0. PICK table \in Tables : table = fat[1]
  OBVIOUS
<1>1. PICK l : /\ l = Follow(fat[1], a) /\ l[0] = a
               /\ \A k \in 0 .. LastEntry - 1 : l[k + 1] = NextOf(fat[1], l[k])
  <2>1. a \in Values
    BY DEF Values
  <2>2. PICK l : /\ l = Follow(table, a) /\ l[0] = a
                 /\ \A k \in 0 .. LastEntry - 1 : l[k + 1] = NextOf(table, l[k])
    BY <2>1, FollowIs
  <2> QED
    BY <1>0, <2>2
<1>2. /\ a \in Nat /\ c \in Nat /\ a <= c /\ c <= LastEntry /\ LastEntry \in Nat
      /\ c - a \in Nat /\ c - a <= LastEntry /\ a >= 2
  BY EntriesAre DEF Straight, Entries
<1> DEFINE K == {k \in 0 .. c - a : l[k] = a + k}
<1>3. 0 \in K
  BY <1>1, <1>2
<1>4. ASSUME NEW k \in 0 .. (c - a) - 1, k \in K PROVE k + 1 \in K
  <2>1. a + k \in a .. c - 1 /\ k \in 0 .. LastEntry - 1 /\ k + 1 \in 0 .. c - a
    BY <1>2
  <2>2. a + k \in Entries /\ fat[1][a + k] = (a + k) + 1
    BY <2>1 DEF Straight
  <2>3. l[k + 1] = (a + k) + 1
    BY <1>1, <1>4, <2>1, <2>2 DEF NextOf
  <2> QED
    BY <1>2, <2>1, <2>3
<1>5. 0 .. c - a \subseteq K
  <2> HIDE DEF K
  <2> QED
    BY <1>2, <1>3, <1>4, StepByStep
<1>6. ASSUME NEW d \in a .. c
      PROVE  /\ d \in Entries /\ d \in ChainOf(fat[1], a) /\ fat[1][d] # 0
             /\ Link(a)[d - a] = d
  <2>1. d - a \in 0 .. c - a /\ a + (d - a) = d /\ d - a \in 0 .. LastEntry
    BY <1>2
  <2>2. l[d - a] = d
    BY <1>5, <2>1
  <2>3. d \in Entries
    BY <1>2 DEF Entries
  <2>4. fat[1][d] # 0
    <3>1. CASE d = c
      BY <3>1 DEF Straight
    <3>2. CASE d # c
      <4>1. d \in a .. c - 1
        BY <1>2, <3>2
      <4> QED
        BY <1>2, <4>1 DEF Straight
    <3> QED
      BY <3>1, <3>2
  <2> QED
    BY <1>1, <2>1, <2>2, <2>3, <2>4 DEF ChainOf, Link
<1> QED
  BY <1>6

-----------------------------------------------------------------------------
(* What the steps have in common *)

\* A file keeps what it holds while its links stay, its last cluster stays
\* taken, and no sector of its clusters is written nor one that would be its own.
Untouched(a, c) ==
    \A x \in Sectors : \/ data'[x] = data[x]
                       \/ /\ ~ Within(a, c, x)
                          /\ data'[x].kind = "log" => x # Lba(a) + data'[x].at
LEMMA FileKept ==
    ASSUME NEW name, NEW a \in Entries, NEW c \in Entries, NEW k \in Nat, FileBy(name, a, c, k),
           fat'[1][c] # 0, \A d \in a .. c - 1 : fat'[1][d] = fat[1][d], Untouched(a, c)
    PROVE  FileBy(name, a, c, k)'
<1>1. Straight(a, c)'
  BY DEF FileBy, Straight
<1>2. Lba(a) + k <= Lba(c) + SecPerClus /\ Lba(a) \in Nat /\ Lba(c) \in Nat /\ SecPerClus \in Nat
  BY LbaType DEF FileBy
<1>3. ASSUME NEW i \in 0 .. k - 1 PROVE data'[Lba(a) + i] = LogData(name, i)
  <2>1. Lba(a) + i \in Int /\ Within(a, c, Lba(a) + i)
    BY <1>2 DEF Within
  <2>2. Lba(a) + i \in Sectors
    BY <2>1, WithinCard
  <2>3. data[Lba(a) + i] = LogData(name, i)
    BY DEF FileBy
  <2> QED
    BY <2>1, <2>2, <2>3 DEF Untouched
<1>4. ASSUME NEW x \in Sectors, data'[x].kind = "log",
             Within(a, c, x) \/ x = Lba(a) + data'[x].at
      PROVE  x < Lba(a) + k
  <2>1. data'[x] = data[x]
    BY <1>4 DEF Untouched
  <2> QED
    BY <1>4, <2>1 DEF FileBy, Own
<1> QED
  BY <1>1, <1>2, <1>3, <1>4 DEF FileBy, Own, Within, Lba, Sectors, LogData

LEMMA StoredKept ==
    ASSUME NEW s \in Slots, dir[s].first \in Entries, NEW c \in Entries, NEW k \in Nat, StoredBy(s, c, k),
           dir'[s] = dir[s], fat'[1][c] # 0, \A d \in dir[s].first .. c - 1 : fat'[1][d] = fat[1][d],
           Untouched(dir[s].first, c)
    PROVE  StoredBy(s, c, k)'
<1>1. PICK a \in Entries : a = dir[s].first
  OBVIOUS
<1>2. PICK name : name = dir[s].name
  OBVIOUS
<1>3. FileBy(name, a, c, k) /\ Lba(a) + NSectors <= Lba(c) + SecPerClus /\ SizeBy(s, k)
  BY <1>1, <1>2 DEF StoredBy
<1>4. FileBy(name, a, c, k)'
  BY <1>1, <1>3, FileKept
<1>5. dir'[s].first = a /\ dir'[s].name = name /\ dir'[s].size = dir[s].size
  BY <1>1, <1>2
<1>6. FileBy(dir[s].name, dir[s].first, c, k)'
  BY <1>4, <1>5
<1>7. Lba(a) \in Nat /\ Lba(c) \in Nat /\ SecPerClus \in Nat /\ NSectors \in Nat
  BY LbaType
<1>8. SizeBy(s, k)'
  <2>1. CASE dir[s].size <= k
    BY <1>5, <2>1 DEF SizeBy
  <2>2. CASE ~ (dir[s].size <= k)
    <3>1. dir[s].size = NSectors /\ \A i \in k .. NSectors - 1 : data[Lba(a) + i] = Plain("zero")
      BY <1>1, <1>3, <2>2 DEF SizeBy
    <3>2. ASSUME NEW i \in k .. NSectors - 1 PROVE data'[Lba(a) + i] = Plain("zero")
      <4>1. Lba(a) + i \in Int /\ Within(a, c, Lba(a) + i)
        BY <1>3, <1>7 DEF Within
      <4>2. Lba(a) + i \in Sectors
        BY <4>1, WithinCard
      <4> QED
        BY <1>1, <3>1, <4>1, <4>2 DEF Untouched
    <3>3. \A i \in k .. NSectors - 1 : data'[Lba(dir'[s].first) + i] = Plain("zero")
      BY <1>5, <3>2
    <3> QED
      BY <1>5, <3>1, <3>3 DEF SizeBy, Lba, Plain
  <2> QED
    BY <2>1, <2>2
<1>9. (Lba(dir[s].first) + NSectors <= Lba(c) + SecPerClus)'
  BY <1>3, <1>5 DEF Lba
<1> QED
  BY <1>6, <1>8, <1>9 DEF StoredBy

\* The clusters of a stored file are of its chain.
LEMMA StoredChain ==
    ASSUME TypeInv, Ordered(fat[1]), NEW s \in LogSlots, NEW c \in Entries, NEW k \in Nat, StoredBy(s, c, k)
    PROVE  /\ dir[s].first \in Entries /\ dir[s].first <= c /\ s \in Slots
           /\ \A d \in dir[s].first .. c : d \in FileChain(s) /\ fat[1][d] # 0 /\ d \in Entries
           /\ \A x \in Sectors : Within(dir[s].first, c, x) =>
                 ClusterOf(x) \in FileChain(s) /\ fat[1][ClusterOf(x)] # 0
<1>1. /\ dir[s].first \in Entries /\ s \in Slots /\ fat[1] \in Tables /\ Rising(fat[1])
      /\ Straight(dir[s].first, c)
  BY SizesAssumption DEF TypeInv, DirType, FatType, Ordered, StoredBy, FileBy, LogSlots
<1>2. \A d \in dir[s].first .. c : d \in FileChain(s) /\ fat[1][d] # 0 /\ d \in Entries
  BY <1>1, StraightIsChain DEF FileChain
<1>3. ASSUME NEW x \in Sectors, Within(dir[s].first, c, x)
      PROVE  ClusterOf(x) \in dir[s].first .. c
  <2>1. ClusterOf(x) \in Entries /\ dir[s].first <= ClusterOf(x) /\ ClusterOf(x) <= c
    BY <1>1, <1>3, WithinIs, ClusterHolds
  <2>2. ClusterOf(x) \in Nat /\ dir[s].first \in Nat /\ c \in Nat
    BY <1>1, <2>1, EntriesAre
  <2> QED
    BY <2>1, <2>2
<1> QED
  BY <1>1, <1>2, <1>3 DEF Straight

\* A file keeps what it holds while only clusters of others are written, or
\* free ones.
LEMMA StoredApart ==
    ASSUME TypeInv, Ordered(fat[1]), NEW s \in LogSlots, NEW c \in Entries, NEW k \in Nat, StoredBy(s, c, k),
           dir'[s] = dir[s],
           \A d \in FileChain(s) : fat[1][d] # 0 => fat'[1][d] = fat[1][d],
           \A x \in Sectors :
              \/ data'[x] = data[x]
              \/ /\ ClusterOf(x) \notin FileChain(s) \/ fat[1][ClusterOf(x)] = 0
                 /\ data'[x].kind = "log" => x # Lba(dir[s].first) + data'[x].at
    PROVE  StoredBy(s, c, k)'
<1>1. /\ dir[s].first \in Entries /\ dir[s].first <= c /\ s \in Slots
      /\ \A d \in dir[s].first .. c : d \in FileChain(s) /\ fat[1][d] # 0 /\ d \in Entries
      /\ \A x \in Sectors : Within(dir[s].first, c, x) =>
            ClusterOf(x) \in FileChain(s) /\ fat[1][ClusterOf(x)] # 0
  BY StoredChain
<1>2. Untouched(dir[s].first, c)
  BY <1>1 DEF Untouched
<1>3. \A d \in dir[s].first .. c - 1 : d \in dir[s].first .. c /\ c \in dir[s].first .. c
  BY <1>1, EntriesAre
<1>4. c \in dir[s].first .. c
  BY <1>1, EntriesAre
<1>5. fat'[1][c] # 0 /\ \A d \in dir[s].first .. c - 1 : fat'[1][d] = fat[1][d]
  BY <1>1, <1>3, <1>4
<1> QED
  BY <1>1, <1>2, <1>5, StoredKept

\* What was logged stays placed while no taken cluster is freed.
LEMMA PlacedKept ==
    ASSUME PlacedInv, \A d \in Entries : fat[1][d] # 0 => fat'[1][d] # 0,
           \A x \in Sectors : data'[x] = data[x] \/ data'[x].kind # "log"
    PROVE  PlacedInv'
<1>1. ASSUME NEW x \in Sectors, data'[x].kind = "log"
      PROVE  /\ fat'[1][ClusterOf(x)] # 0
             /\ \E a \in Entries : fat'[1][a] # 0 /\ x = Lba(a) + data'[x].at
  <2>1. data'[x] = data[x]
    BY <1>1
  <2>2. PICK a \in Entries : fat[1][a] # 0 /\ x = Lba(a) + data[x].at
    BY <1>1, <2>1 DEF PlacedInv
  <2>3. fat'[1][ClusterOf(x)] # 0
    BY <1>1, <2>1, ClusterHolds DEF PlacedInv
  <2> QED
    BY <2>1, <2>2, <2>3
<1> QED
  BY <1>1 DEF PlacedInv, Sectors, Lba, ClusterOf, Entries

\* Every file is stored, in use or not.
LEMMA AllStored ==
    ASSUME TypeInv, StoredInv, UseInv, NEW s \in LogSlots
    PROVE  \E c \in Entries : \E k \in Nat : StoredBy(s, c, k)
<1>1. logfile.written \in Nat
  BY DEF TypeInv, FileType, Logfiles
<1>2. CASE InUse /\ s = logfile.slot
  BY <1>1, <1>2 DEF UseInv, UseBody
<1> QED
  BY <1>2 DEF StoredInv

\* Steps that write nothing on the card leave it laid out as it is.
LEMMA LaidSame ==
    ASSUME TypeInv, Laid, fat' = fat, dir' = dir, data' = data,
           InUse' => InUse /\ logfile' = logfile /\ pc' # "append"
    PROVE  StoredInv' /\ UseInv' /\ PlacedInv'
<1>1. LogSlots' = LogSlots
  BY DEF LogSlots, Slots
<1>2. ASSUME NEW s \in LogSlots, NEW c \in Entries, NEW k \in Nat, StoredBy(s, c, k) PROVE StoredBy(s, c, k)'
  BY <1>2 DEF StoredBy, FileBy, Straight, Own, Within, SizeBy, Lba, Sectors, LogData, Plain
<1>3. StoredInv'
  <2>1. \A s \in LogSlots : \E c \in Entries : \E k \in Nat : StoredBy(s, c, k)'
    BY <1>2, AllStored DEF Laid
  <2> QED
    BY <1>1, <2>1 DEF StoredInv, Entries
<1>4. UseInv'
  <2>1. SUFFICES ASSUME InUse', logfile'.slot \in LogSlots PROVE UseBody'
    BY <1>1 DEF UseInv
  <2>2. UseBody /\ logfile' = logfile /\ pc' # "append" /\ logfile.written \in Nat
    BY <2>1 DEF Laid, UseInv, TypeInv, FileType, Logfiles
  <2>3. PICK c \in Entries : /\ c <= logfile.last /\ logfile.end <= Lba(c) + SecPerClus
                             /\ StoredBy(logfile.slot, c, logfile.written)
    BY <2>2 DEF UseBody
  <2>4. StoredBy(logfile.slot, c, logfile.written)'
    BY <2>2, <2>3 DEF StoredBy, FileBy, Straight, Own, Within, SizeBy, Lba, Sectors, LogData, Plain
  <2> QED
    BY <2>2, <2>3, <2>4 DEF UseBody, Lba, Entries
<1>5. PlacedInv'
  BY PlacedKept DEF Laid
<1> QED
  BY <1>3, <1>4, <1>5

-----------------------------------------------------------------------------
(* Where things lie: steps that write no cluster *)

\* Where no file is made and none extended next.
LEMMA LaidQuiet ==
    ASSUME TypeInv, Laid, fat' = fat, dir' = dir, data' = data,
           InUse' => InUse /\ logfile' = logfile /\ pc' # "append",
           ~ Making', ~ (pc' \in {"link", "zero"} /\ mode' = "extend")
    PROVE  Laid'
BY LaidSame DEF Laid, NewInv, AddInv

\* Power, EEPROM, and the ends of what went wrong.
LEMMA LaidOthers ==
    ASSUME TypeInv, Laid, ModeInv, PendingInv,
           \/ PowerOn \/ PowerOff \/ ConfigSave \/ OpenFails \/ OpenWild \/ CardRefuses \/ AppendWild
           \/ FlushRecord
    PROVE  Laid'
<1>1. fat' = fat /\ dir' = dir /\ data' = data
  BY DEF PowerOn, BootWith, PowerOff, ConfigSave, OpenFails, OpenWild, CardRefuses, AppendWild,
         FlushRecord, cardVars
<1>2. CASE PowerOn \/ PowerOff \/ OpenFails \/ OpenWild \/ AppendWild
  <2>1. pc' \in {"magic", "open", "off", "halt", "wild"} /\ (pc' = "magic" => mode' = "boot")
    BY <1>2 DEF PowerOn, BootWith, PowerOff, OpenFails, OpenWild, AppendWild
  <2>2. ~ InUse' /\ ~ Making' /\ ~ (pc' \in {"link", "zero"})
    BY <2>1 DEF InUse, Active, Making
  <2> QED
    BY <1>1, <2>2, LaidQuiet
<1>3. CASE ConfigSave
  <2>1. /\ logfile' = logfile /\ mode' = mode /\ mode \in {"boot", "create"}
        /\ pc \in {"magic", "lo", "hi", "flags"}
        /\ pc' \in {"lo", "hi", "flags", "open", "run"} /\ (pc' = "run" => mode = "create")
    BY <1>3 DEF ConfigSave, taskVars, ModeInv
  <2>2. InUse' => mode = "create"
    BY <2>1 DEF InUse, Active
  <2>3. InUse' => InUse
    BY <2>1, <2>2 DEF InUse, Active
  <2>4. ~ Making' /\ ~ (pc' \in {"link", "zero"})
    BY <2>1 DEF Making
  <2> QED
    BY <1>1, <2>1, <2>3, <2>4, LaidQuiet
<1>4. CASE CardRefuses
  <2>1. /\ logfile' = logfile /\ mode' = mode /\ mode \in {"create", "extend"}
        /\ pc \in {"link", "zero", "dir"} /\ (pc = "dir" => mode = "create")
        /\ pc' = IF mode = "create" THEN "halt" ELSE "run"
    BY <1>4 DEF CardRefuses, taskVars, ModeInv, PendingInv
  <2>2. InUse' => mode = "extend"
    BY <2>1 DEF InUse, Active
  <2>3. InUse' => InUse
    BY <2>1, <2>2 DEF InUse, Active
  <2>4. ~ Making' /\ ~ (pc' \in {"link", "zero"}) /\ pc' # "append"
    BY <2>1 DEF Making
  <2> QED
    BY <1>1, <2>1, <2>3, <2>4, LaidQuiet
<1>5. CASE FlushRecord
  <2>1. /\ logfile' = logfile /\ pc \in {"record", "recordcmd"} /\ pc' \in {"run", "prompt"}
    BY <1>5 DEF FlushRecord
  <2>2. InUse /\ ~ Making' /\ ~ (pc' \in {"link", "zero"}) /\ pc' # "append"
    BY <2>1 DEF InUse, Active, Making
  <2> QED
    BY <1>1, <2>1, <2>2, LaidQuiet
<1> QED
  BY <1>2, <1>3, <1>4, <1>5

\* The sectors of a stored file are as many as the sectors logged to it.
LEMMA LoggedIs ==
    ASSUME DataType, NEW name, NEW a \in Entries, NEW c \in Entries, NEW k \in Nat, FileBy(name, a, c, k)
    PROVE  {x \in Sectors : data[x] = LogData(name, x - Lba(a))} = Lba(a) .. Lba(a) + k - 1
<1>1. Lba(a) \in Nat /\ Lba(c) \in Nat /\ SecPerClus \in Nat /\ Lba(a) + k <= Lba(c) + SecPerClus
  BY LbaType DEF FileBy
<1>2. ASSUME NEW x \in Lba(a) .. Lba(a) + k - 1 PROVE x \in Sectors /\ data[x] = LogData(name, x - Lba(a))
  <2>1. Within(a, c, x) /\ x - Lba(a) \in 0 .. k - 1 /\ Lba(a) + (x - Lba(a)) = x
    BY <1>1 DEF Within
  <2>2. data[Lba(a) + (x - Lba(a))] = LogData(name, x - Lba(a))
    BY <2>1 DEF FileBy
  <2> QED
    BY <1>1, <2>1, <2>2, WithinCard
<1>3. ASSUME NEW x \in Sectors, data[x] = LogData(name, x - Lba(a))
      PROVE  x \in Lba(a) .. Lba(a) + k - 1
  <2>1. data[x].kind = "log" /\ data[x].at = x - Lba(a) /\ data[x].at \in Nat /\ x \in Nat
    BY <1>3, LbaType DEF LogData, DataType, Contents
  <2>2. x = Lba(a) + data[x].at /\ x >= Lba(a)
    BY <1>1, <2>1
  <2>3. x < Lba(a) + k
    BY <2>1, <2>2 DEF FileBy, Own
  <2> QED
    BY <1>1, <2>1, <2>2, <2>3
<1> QED
  BY <1>2, <1>3

\* A file is resumed at its end, unless that is where the history says it went
\* wrong.
LEMMA LaidResume ==
    ASSUME TypeInv, NameInv, Chains, ModeInv, Laid, OpenResume, ~ misplaced'
    PROVE  Laid'
<1>1. /\ fat' = fat /\ dir' = dir /\ data' = data /\ mode' = mode /\ pc' = "run" /\ mode = "boot"
      /\ Stop < LogMax /\ Resumable(Stop) /\ pc = "open"
  BY DEF OpenResume, ResumeAt, cardVars, taskVars, ModeInv
<1>2. LogSlots' = LogSlots
  BY <1>1 DEF LogSlots
<1>3. PICK s : s = Min(Match(Stop))
  OBVIOUS
<1>4. PICK a : a = dir[s].first
  OBVIOUS
<1>5. PICK last : last = IF ChainEnd(a) = EOC THEN CHOOSE d \in Chain(a) : fat[1][d] = EOC ELSE 0
  OBVIOUS
<1>6. s \in LogSlots /\ a \in Entries /\ dir[s].name = Stop
  <2>1. s \in LogSlots /\ a \in Entries
    BY <1>1, <1>3, <1>4, ResumedType
  <2>2. Match(Stop) # {} /\ Match(Stop) \subseteq Nat
    BY <1>1, VolumeAssumption DEF Resumable, Match, Live, Slots
  <2>3. s \in Match(Stop)
    BY <1>3, <2>2, MinIsLeast
  <2> QED
    BY <2>1, <2>3 DEF Match
<1>7. logfile' = [first |-> a, cur |-> Lba(a) + rec, end |-> Lba(a) + NSectors, last |-> last,
                  slot |-> s, name |-> Stop, written |-> rec]
  BY <1>3, <1>4, <1>5 DEF OpenResume, ResumeAt
<1>8. {x \in Sectors : data[x] = LogData(Stop, x - Lba(a))} = Lba(a) .. Lba(a) + rec - 1
  BY <1>3, <1>4 DEF OpenResume, ResumeAt
<1>9. PICK c \in Entries, k \in Nat : StoredBy(s, c, k)
  BY <1>6, AllStored DEF Laid
<1>10. rec = k
  <2>1. PICK name : name = Stop /\ FileBy(name, a, c, k)
    BY <1>4, <1>6, <1>9 DEF StoredBy
  <2>2. DataType
    BY DEF TypeInv
  <2>3. {x \in Sectors : data[x] = LogData(name, x - Lba(a))} = Lba(a) .. Lba(a) + k - 1
    BY <1>6, <2>2, <2>1, LoggedIs
  <2>4. Lba(a) .. Lba(a) + rec - 1 = Lba(a) .. Lba(a) + k - 1
    BY <1>8, <2>1, <2>3
  <2>5. PICK b \in Nat : b = Lba(a)
    BY <1>6, LbaType
  <2>6. PICK r \in Nat : r = rec
    BY DEF TypeInv, EepromType
  <2>7. b .. b + r - 1 = b .. b + k - 1
    BY <2>4, <2>5, <2>6
  <2>8. ~ (r < k) /\ ~ (k < r)
    <3>1. r < k => b + r \in b .. b + k - 1 /\ b + r \notin b .. b + r - 1
      OBVIOUS
    <3>2. k < r => b + k \in b .. b + r - 1 /\ b + k \notin b .. b + k - 1
      OBVIOUS
    <3> QED
      BY <2>7, <3>1, <3>2
  <2> QED
    BY <2>6, <2>8
<1>11. fat[1] \in Tables /\ Rising(fat[1]) /\ a \in Values /\ FileChain(s) = ChainOf(fat[1], a) /\ Ordered(fat[1])
  BY <1>4, <1>6, SizesAssumption DEF TypeInv, FatType, Chains, Ordered, Values, FileChain
<1>12. last \in ChainOf(fat[1], a) /\ fat[1][last] = EOC
  <2>1. Whole(s)
    BY <1>1, <1>6 DEF Chains, WholeInv
  <2>2. EndOf(fat[1], a) = EOC /\ \E d \in ChainOf(fat[1], a) : fat[1][d] = EOC
    BY <1>6, <1>11, <2>1, ChainMarked DEF Whole
  <2> QED
    BY <1>5, <2>2 DEF ChainEnd, Chain, Link, EndOf, ChainOf
<1>13. c <= last
  <2>1. c \in ChainOf(fat[1], a)
    <3>1. a <= c /\ \A d \in a .. c : d \in FileChain(s)
      BY <1>4, <1>6, <1>9, <1>11, StoredChain
    <3>2. a \in Nat /\ c \in Nat
      BY <1>6, EntriesAre
    <3> QED
      BY <1>11, <3>1, <3>2
  <2>2. ~ (last < c)
    BY <1>11, <1>12, <2>1, ChainBetween, EntriesAre
  <2>3. c \in Nat /\ last \in Nat
    BY <1>6, <1>11, <1>12, ChainIs, EntriesAre
  <2> QED
    BY <2>2, <2>3
<1>14. \A t \in LogSlots : \A d \in Entries : \A n \in Nat : StoredBy(t, d, n) => StoredBy(t, d, n)'
  BY <1>1 DEF StoredBy, FileBy, Straight, Own, Within, SizeBy, Lba, Sectors, LogData, Plain
<1>15. StoredInv'
  <2>1. \A t \in LogSlots : \E d \in Entries : \E n \in Nat : StoredBy(t, d, n)'
    BY <1>14, AllStored DEF Laid
  <2> QED
    BY <1>2, <2>1 DEF StoredInv, Entries
<1>16. UseBody'
  <2>1. StoredBy(s, c, k)'
    BY <1>6, <1>9, <1>14
  <2>2. Lba(a) + NSectors <= Lba(c) + SecPerClus
    BY <1>4, <1>9 DEF StoredBy
  <2>3. Lba(a) + NSectors <= Lba(a) + NSectors
    BY <1>6, LbaType
  <2>4. logfile'.slot = s /\ logfile'.first = a /\ logfile'.name = Stop /\ logfile'.written = rec
        /\ logfile'.cur = Lba(a) + rec /\ logfile'.end = Lba(a) + NSectors /\ logfile'.last = last
    BY <1>7
  <2>5. StoredBy(logfile.slot, c, logfile.written)'
    BY <1>10, <2>1, <2>4
  <2>6. dir'[s].first = a /\ dir'[s].name = Stop
    BY <1>1, <1>4, <1>6
  <2>7. (c <= logfile.last /\ logfile.end <= Lba(c) + SecPerClus)'
    BY <1>13, <2>2, <2>4 DEF Lba
  <2>8. (Lba(logfile.first) + NSectors <= logfile.end)' /\ (logfile.cur = Lba(logfile.first) + logfile.written)'
    BY <2>3, <2>4 DEF Lba
  <2> QED
    BY <1>1, <2>4, <2>5, <2>6, <2>7, <2>8 DEF UseBody, Entries
<1>17. PlacedInv'
  BY <1>1, PlacedKept DEF Laid
<1> QED
  BY <1>1, <1>15, <1>16, <1>17 DEF Laid, UseInv, NewInv, Making, AddInv

\* Clusters between free ones are free.
LEMMA FreeBetween ==
    ASSUME FreeTogether, NEW table, Ordered(table), NEW a \in Entries, NEW b \in Entries, NEW d \in Entries,
           table[a] = 0, table[b] = 0, a < d, d < b
    PROVE  table[d] = 0
<1>1. SUFFICES ASSUME table[d] # 0 PROVE FALSE
  OBVIOUS
<1>2. a \notin Foreign /\ b \notin Foreign
  BY DEF Ordered
<1>3. d \notin Foreign
  BY <1>2 DEF FreeTogether
<1>4. d < a
  BY <1>1, <1>3 DEF Ordered
<1>5. a \in Nat /\ d \in Nat
  BY EntriesAre
<1> QED
  BY <1>4, <1>5

\* Clusters that each follow the one before are counted from the first.
LEMMA AdjacentAre ==
    ASSUME NEW q \in [1 .. NClus -> Entries], \A i \in 1 .. NClus : i < NClus => q[i + 1] = q[i] + 1
    PROVE  \A i \in 1 .. NClus : q[i] = q[1] + (i - 1)
<1>0. NClus \in Nat /\ NClus >= 1 /\ NClus - 1 \in Nat /\ 1 \in 1 .. NClus /\ q[1] \in Nat
  <2>1. NClus \in Nat /\ NClus >= 1 /\ NClus - 1 \in Nat /\ 1 \in 1 .. NClus
    BY ClusCountType
  <2>2. q[1] \in Entries
    BY <2>1
  <2> QED
    BY <2>1, <2>2, EntriesAre
<1> DEFINE K == {k \in 0 .. NClus - 1 : q[k + 1] = q[1] + k}
<1>1. 0 \in K
  BY <1>0
<1>2. ASSUME NEW k \in 0 .. (NClus - 1) - 1, k \in K PROVE k + 1 \in K
  <2>1. k + 1 \in 1 .. NClus /\ k + 1 < NClus /\ k + 1 \in 0 .. NClus - 1
    BY <1>0
  <2>2. q[(k + 1) + 1] = q[k + 1] + 1 /\ q[k + 1] = q[1] + k
    BY <1>2, <2>1
  <2> QED
    BY <1>0, <2>1, <2>2
<1>3. 0 .. NClus - 1 \subseteq K
  <2> HIDE DEF K
  <2> QED
    BY <1>0, <1>1, <1>2, StepByStep
<1>4. ASSUME NEW i \in 1 .. NClus PROVE q[i] = q[1] + (i - 1)
  <2>1. i - 1 \in 0 .. NClus - 1 /\ (i - 1) + 1 = i
    BY <1>0
  <2> QED
    BY <1>3, <2>1
<1> QED
  BY <1>4

\* The first free clusters are adjacent.
LEMMA FirstFreeAdjacent ==
    ASSUME FreeTogether, Ordered(fat[1]), NEW q \in FirstFree(NClus)
    PROVE  q \in [1 .. NClus -> Entries] /\ \A i \in 1 .. NClus : q[i] = q[1] + (i - 1) /\ fat[1][q[i]] = 0
<1>1. /\ q \in [1 .. NClus -> FreeClusters]
      /\ \A i, j \in 1 .. NClus : i < j => q[i] < q[j]
      /\ \A c \in FreeClusters : c < q[NClus] => \E i \in 1 .. NClus : q[i] = c
  BY DEF FirstFree
<1>2. q \in [1 .. NClus -> Entries] /\ \A i \in 1 .. NClus : fat[1][q[i]] = 0
  BY <1>1 DEF FreeClusters
<1>3. NClus \in Nat /\ NClus >= 1 /\ NClus \in 1 .. NClus
  BY ClusCountType
<1>4. ASSUME NEW i \in 1 .. NClus, i < NClus PROVE q[i + 1] = q[i] + 1
  <2>1. i + 1 \in 1 .. NClus /\ i < i + 1
    BY <1>3, <1>4
  <2>2. q[i] < q[i + 1] /\ q[i] \in Entries /\ q[i + 1] \in Entries
    BY <1>1, <1>2, <2>1
  <2>3. q[i] \in Nat /\ q[i + 1] \in Nat /\ q[NClus] \in Nat
    BY <1>2, <1>3, <2>2, EntriesAre
  <2>4. SUFFICES ASSUME q[i] + 1 < q[i + 1] PROVE FALSE
    BY <2>2, <2>3
  <2>5. q[i] + 1 \in Entries
    <3>1. \A m, n \in Entries : m + 1 < n => m + 1 \in Entries
      BY VolumeAssumption DEF Entries
    <3> QED
      BY <2>2, <2>4, <3>1
  <2>6. fat[1][q[i] + 1] = 0
    BY <1>2, <2>1, <2>2, <2>3, <2>4, <2>5, FreeBetween
  <2>7. q[i + 1] <= q[NClus]
    BY <1>1, <1>3, <2>1, <2>3
  <2>8. q[i] + 1 \in FreeClusters /\ q[i] + 1 < q[NClus]
    BY <2>3, <2>4, <2>5, <2>6, <2>7 DEF FreeClusters
  <2>9. PICK m \in 1 .. NClus : q[m] = q[i] + 1
    BY <1>1, <2>8
  <2>10. m <= i \/ m = i + 1 \/ i + 1 < m
    OBVIOUS
  <2>11. m <= i => q[m] <= q[i]
    <3>1. CASE m = i
      BY <2>3, <3>1
    <3>2. CASE m < i
      <4>1. q[m] < q[i]
        BY <1>1, <3>2
      <4> QED
        BY <2>3, <2>9, <4>1
    <3> QED
      BY <3>1, <3>2
  <2>12. i + 1 < m => q[i + 1] < q[m]
    BY <1>1, <2>1
  <2> QED
    BY <2>3, <2>4, <2>9, <2>10, <2>11, <2>12
<1> QED
  BY <1>2, <1>4, AdjacentAre

\* The clusters for a new file hold nothing that was logged.
LEMMA LaidCreate ==
    ASSUME FreeTogether, TypeInv, Chains, Laid, OpenCreate
    PROVE  Laid'
<1>1. /\ fat' = fat /\ dir' = dir /\ data' = data /\ mode' = "create" /\ pc' = "link"
  BY DEF OpenCreate, Create, cardVars
<1>2. PICK q \in FirstFree(NClus) :
        /\ logfile' = [first |-> q[1], last |-> q[NClus], cur |-> Lba(q[1]), end |-> Lba(q[1]) + NSectors,
                       slot |-> Min(Usable),
                       name |-> IF Stop = LogMax THEN LogMax - 1 ELSE Stop, written |-> 0]
        /\ zero' = <<Lba(q[1]), Lba(q[1]) + NSectors>>
  BY DEF OpenCreate, Create
<1>3. q \in [1 .. NClus -> Entries] /\ \A i \in 1 .. NClus : q[i] = q[1] + (i - 1) /\ fat[1][q[i]] = 0
  BY FirstFreeAdjacent DEF Chains
<1>4. NClus \in Nat /\ NClus >= 1 /\ NClus \in 1 .. NClus /\ 1 \in 1 .. NClus
  BY ClusCountType
<1>5. PICK a \in Entries : a = q[1]
  BY <1>3, <1>4
<1>6. q[NClus] = a + (NClus - 1) /\ q[NClus] \in Entries /\ fat[1][a] = 0
  BY <1>3, <1>4, <1>5
<1>7. PICK b \in Entries : b = a + (NClus - 1)
  BY <1>6
<1>8. Lba(a) \in Nat /\ NSectors \in Nat \ {0} /\ a \in Nat /\ b \in Nat /\ a >= 2
  BY EntriesAre, LbaType DEF Entries
<1>9. ASSUME NEW x \in Sectors, data[x].kind = "log" PROVE ~ Own(a, b, x)
  <2>1. fat[1][ClusterOf(x)] # 0
    BY <1>9 DEF Laid, PlacedInv
  <2>2. ~ Within(a, b, x)
    <3>1. SUFFICES ASSUME Within(a, b, x) PROVE FALSE
      OBVIOUS
    <3>2. PICK d \in Entries : d = ClusterOf(x) /\ a <= d /\ d <= b
      BY <3>1, WithinIs, ClusterHolds
    <3>3. d \in Nat
      BY EntriesAre
    <3>4. (d - a) + 1 \in 1 .. NClus /\ a + (((d - a) + 1) - 1) = d
      BY <1>4, <1>7, <1>8, <3>2, <3>3
    <3>5. q[(d - a) + 1] = d /\ fat[1][q[(d - a) + 1]] = 0
      BY <1>3, <1>5, <3>4
    <3> QED
      BY <2>1, <3>2, <3>5
  <2>3. x # Lba(a) + data[x].at
    <3>1. PICK e \in Entries : fat[1][e] # 0 /\ x = Lba(e) + data[x].at
      BY <1>9 DEF Laid, PlacedInv
    <3>2. data[x].at \in Nat
      BY DEF TypeInv, DataType, Contents
    <3>3. Lba(e) \in Nat /\ e \in Nat /\ e >= 2
      BY EntriesAre, LbaType DEF Entries
    <3>4. Lba(e) = Lba(a) => e = a
      BY <1>8, <3>3, LbaOrder
    <3> QED
      BY <1>6, <1>8, <3>1, <3>2, <3>3, <3>4
  <2> QED
    BY <2>2, <2>3 DEF Own
<1>10. NewBody'
  <2>1. logfile'.first = a /\ logfile'.last = b /\ logfile'.cur = Lba(a) /\ logfile'.end = Lba(a) + NSectors
        /\ logfile'.written = 0 /\ zero'[1] = Lba(a) /\ zero'[2] = Lba(a) + NSectors
    BY <1>2, <1>5, <1>6, <1>7
  <2>2. \A x \in Sectors : data'[x].kind = "log" => ~ (Within(a, b, x) \/ x = Lba(a) + data'[x].at)
    BY <1>1, <1>9 DEF Own
  <2>3. (\A x \in Sectors : data[x].kind = "log" => ~ Own(logfile.first, logfile.last, x))'
    BY <2>1, <2>2 DEF Own, Sectors, Within, Lba
  <2>4. Lba(a) <= zero'[1] /\ zero'[1] <= zero'[2] /\ zero'[1] < zero'[2]
    BY <1>8, <2>1
  <2>5. (Lba(logfile.first))' = Lba(a) /\ (logfile.last = logfile.first + (NClus - 1))'
    BY <1>7, <2>1 DEF Lba, NClus
  <2> QED
    BY <1>1, <2>1, <2>3, <2>4, <2>5 DEF NewBody
<1>11. ~ InUse'
  BY <1>1 DEF InUse, Active
<1>12. StoredInv' /\ UseInv' /\ PlacedInv'
  BY <1>1, <1>11, LaidSame
<1> QED
  BY <1>1, <1>10, <1>12 DEF Laid, NewInv, AddInv

\* Nor does the cluster to be added.
LEMMA LaidExtend ==
    ASSUME TypeInv, Laid, Extend
    PROVE  Laid'
<1>1. /\ fat' = fat /\ dir' = dir /\ data' = data /\ logfile' = logfile /\ mode' = "extend" /\ pc' = "link"
      /\ FreeClusters # {} /\ pc = "run" /\ logfile.cur >= logfile.end
  BY DEF Extend, cardVars
<1>2. PICK c : c = Min(FreeClusters)
  OBVIOUS
<1>3. c \in Entries /\ fat[1][c] = 0
  <2>1. FreeClusters \subseteq Nat
    BY EntriesAre DEF FreeClusters
  <2> QED
    BY <1>1, <1>2, <2>1, MinIsLeast DEF FreeClusters
<1>4. zero' = <<Lba(c), Lba(c) + SecPerClus>>
  BY <1>2 DEF Extend
<1>5. Lba(c) \in Nat /\ SecPerClus \in Nat \ {0}
  BY <1>3, LbaType
<1>6. AddBody'
  <2>1. ASSUME NEW x \in Sectors, zero'[2] - SecPerClus <= x, x < zero'[2] PROVE data'[x].kind # "log"
    <3>1. Lba(c) <= x /\ x < Lba(c) + SecPerClus /\ x \in Nat
      BY <1>4, <1>5, <2>1, ClusterHolds
    <3>2. ClusterOf(x) = c
      BY <1>3, <3>1, ClusterOfSector
    <3> QED
      BY <1>1, <1>3, <3>2 DEF Laid, PlacedInv
  <2> QED
    BY <1>1, <2>1 DEF AddBody, Sectors, Lba
<1>7. InUse
  BY <1>1 DEF InUse, Active
<1>8. StoredInv' /\ UseInv' /\ PlacedInv'
  BY <1>1, <1>7, LaidSame
<1> QED
  BY <1>1, <1>6, <1>8 DEF Laid, NewInv, Making, AddInv

\* The size in the directory becomes what was logged.
LEMMA LaidFlush ==
    ASSUME TypeInv, Laid, FlushDir
    PROVE  Laid'
<1>1. /\ fat' = fat /\ data' = data /\ logfile' = logfile
      /\ pc \in {"run", "prompt"} /\ pc' \in {"record", "recordcmd"}
      /\ dir' = dir \/ dir' = [dir EXCEPT ![logfile.slot].size = logfile.written]
  BY DEF FlushDir
<1>2. PICK slot \in Slots, n \in Nat : slot = logfile.slot /\ n = logfile.written
  BY DEF TypeInv, FileType, Logfiles
<1>3. /\ \A s \in Slots : dir'[s].kind = dir[s].kind /\ dir'[s].first = dir[s].first /\ dir'[s].name = dir[s].name
      /\ \A s \in Slots \ {slot} : dir'[s] = dir[s]
      /\ dir'[slot].size \in {dir[slot].size, n}
  <2>1. dir \in [Slots -> DirEntries]
    BY DEF TypeInv, DirType
  <2>2. CASE dir' = dir
    BY <2>2
  <2>3. CASE dir' = [dir EXCEPT ![slot].size = n]
    BY <2>1, <2>3 DEF DirEntries
  <2> QED
    BY <1>1, <1>2, <2>2, <2>3
<1>4. LogSlots' = LogSlots
  BY <1>3 DEF LogSlots, Slots
<1>5. InUse /\ InUse'
  BY <1>1 DEF InUse, Active
<1>6. ASSUME NEW s \in LogSlots, s # slot PROVE \E c \in Entries : \E k \in Nat : StoredBy(s, c, k)'
  <2>1. PICK c \in Entries, k \in Nat : StoredBy(s, c, k)
    BY <1>6, AllStored DEF Laid
  <2>2. dir'[s] = dir[s]
    BY <1>3, <1>6 DEF LogSlots
  <2>3. StoredBy(s, c, k)'
    BY <1>1, <2>1, <2>2 DEF StoredBy, FileBy, Straight, Own, Within, SizeBy, Lba, Sectors, LogData, Plain
  <2> QED
    BY <2>3
<1>7. StoredInv'
  BY <1>1, <1>2, <1>4, <1>5, <1>6 DEF StoredInv, Entries
<1>8. ASSUME slot \in LogSlots PROVE UseBody'
  <2>1. UseBody
    BY <1>2, <1>5, <1>8 DEF Laid, UseInv
  <2>2. PICK c \in Entries : c <= logfile.last /\ logfile.end <= Lba(c) + SecPerClus /\ StoredBy(slot, c, n)
    BY <1>2, <2>1 DEF UseBody
  <2>3. PICK a : a = dir[slot].first
    OBVIOUS
  <2>4. PICK name : name = dir[slot].name
    OBVIOUS
  <2>5. FileBy(name, a, c, n) /\ Lba(a) + NSectors <= Lba(c) + SecPerClus /\ SizeBy(slot, n)
    BY <2>2, <2>3, <2>4 DEF StoredBy
  <2>6. FileBy(name, a, c, n)'
    BY <1>1, <2>5 DEF FileBy, Straight, Own, Within, Lba, Sectors, LogData
  <2>7. dir'[slot].first = a /\ dir'[slot].name = name
    BY <1>3, <2>3, <2>4
  <2>8. SizeBy(slot, n)'
    <3>1. CASE dir'[slot].size = n
      BY <3>1 DEF SizeBy
    <3>2. CASE dir'[slot].size = dir[slot].size
      BY <1>1, <1>3, <2>5, <3>2 DEF SizeBy, Lba, Plain
    <3> QED
      BY <1>3, <3>1, <3>2
  <2>9. StoredBy(slot, c, n)'
    BY <2>3, <2>5, <2>6, <2>7, <2>8 DEF StoredBy, Lba
  <2>10. StoredBy(logfile.slot, c, logfile.written)'
    BY <1>1, <1>2, <2>9
  <2> QED
    BY <1>1, <1>2, <2>1, <2>2, <2>3, <2>4, <2>7, <2>10 DEF UseBody, Lba, Entries
<1>9. UseInv'
  BY <1>1, <1>2, <1>4, <1>8 DEF UseInv
<1>10. PlacedInv'
  BY <1>1, PlacedKept DEF Laid
<1> QED
  BY <1>1, <1>7, <1>9, <1>10 DEF Laid, NewInv, Making, AddInv

\* Steps that write sectors of free clusters, or of none that a file has.
LEMMA LaidFreed ==
    ASSUME TypeInv, Laid, Ordered(fat[1]), dir' = dir,
           \A s \in LogSlots : \A d \in FileChain(s) : fat[1][d] # 0 => fat'[1][d] = fat[1][d],
           \A d \in Entries : fat[1][d] # 0 => fat'[1][d] # 0,
           InUse' => InUse /\ logfile' = logfile /\ pc' # "append",
           \A x \in Sectors :
              \/ data'[x] = data[x]
              \/ /\ fat[1][ClusterOf(x)] = 0 \/ \A s \in LogSlots : ClusterOf(x) \notin FileChain(s)
                 /\ data'[x].kind # "log"
    PROVE  StoredInv' /\ UseInv' /\ PlacedInv'
<1>1. LogSlots' = LogSlots
  BY DEF LogSlots, Slots
<1>2. ASSUME NEW s \in LogSlots, NEW c \in Entries, NEW k \in Nat, StoredBy(s, c, k) PROVE StoredBy(s, c, k)'
  <2>1. \A x \in Sectors :
              \/ data'[x] = data[x]
              \/ /\ ClusterOf(x) \notin FileChain(s) \/ fat[1][ClusterOf(x)] = 0
                 /\ data'[x].kind = "log" => x # Lba(dir[s].first) + data'[x].at
    OBVIOUS
  <2> QED
    BY <1>2, <2>1, StoredApart
<1>3. StoredInv'
  <2>1. \A s \in LogSlots : \E c \in Entries : \E k \in Nat : StoredBy(s, c, k)'
    BY <1>2, AllStored DEF Laid
  <2> QED
    BY <1>1, <2>1 DEF StoredInv, Entries
<1>4. UseInv'
  <2>1. SUFFICES ASSUME InUse', logfile'.slot \in LogSlots PROVE UseBody'
    BY <1>1 DEF UseInv
  <2>2. UseBody /\ logfile' = logfile /\ pc' # "append" /\ logfile.written \in Nat
    BY <2>1 DEF Laid, UseInv, TypeInv, FileType, Logfiles
  <2>3. PICK slot \in LogSlots, n \in Nat : slot = logfile.slot /\ n = logfile.written
    BY <2>1, <2>2
  <2>4. PICK c \in Entries : c <= logfile.last /\ logfile.end <= Lba(c) + SecPerClus /\ StoredBy(slot, c, n)
    BY <2>2, <2>3 DEF UseBody
  <2>5. StoredBy(slot, c, n)'
    BY <1>2, <2>4
  <2>6. StoredBy(logfile.slot, c, logfile.written)'
    BY <2>2, <2>3, <2>5
  <2> QED
    BY <2>2, <2>4, <2>6 DEF UseBody, Lba, Entries
<1>5. PlacedInv'
  BY PlacedKept DEF Laid
<1> QED
  BY <1>3, <1>4, <1>5

\* Both kinds of trim.
LEMMA LaidTrim ==
    ASSUME TypeInv, Laid, Chains, TrimFree \/ TrimFull
    PROVE  Laid'
<1>1. fat' = fat /\ logfile' = logfile /\ pc = "prompt" /\ pc' = pc /\ InUse
  BY DEF TrimFree, TrimFull, InUse
<1>2. \A x \in Sectors : data'[x] = data[x] \/ data'[x].kind # "log"
  <2>1. Plain("blank").kind # "log"
    BY DEF Plain
  <2> QED
    BY <2>1 DEF TrimFree, TrimFull
<1>3. ~ (pc' \in {"link", "zero"}) /\ ~ Making'
  BY <1>1 DEF Making
<1>4. CASE TrimFree
  <2>1. dir' = dir
    BY <1>4 DEF TrimFree
  <2>2. \A x \in Sectors : data'[x] = data[x] \/ (fat[1][ClusterOf(x)] = 0 /\ data'[x].kind # "log")
    BY <1>2, <1>4 DEF TrimFree
  <2>3. StoredInv' /\ UseInv' /\ PlacedInv'
    BY <1>1, <2>1, <2>2, LaidFreed DEF Chains
  <2> QED
    BY <1>3, <2>3 DEF Laid, NewInv, AddInv
<1>5. CASE TrimFull
  <2>1. \A s \in Slots : dir'[s].kind # "log"
    BY <1>5 DEF TrimFull, NoEntry, Entry
  <2>2. LogSlots' = {}
    BY <2>1 DEF LogSlots, Slots
  <2>3. PlacedInv'
    BY <1>1, <1>2, PlacedKept DEF Laid
  <2> QED
    BY <1>3, <2>2, <2>3 DEF Laid, StoredInv, UseInv, NewInv, AddInv
<1> QED
  BY <1>4, <1>5

-----------------------------------------------------------------------------
(* Where things lie: steps for a new file *)

\* Ascending clusters that reach no further than their number are adjacent.
LEMMA AscendingAdjacent ==
    ASSUME NEW q \in [1 .. NClus -> Entries], \A i, k \in 1 .. NClus : i < k => q[i] < q[k],
           q[NClus] = q[1] + (NClus - 1)
    PROVE  \A i \in 1 .. NClus : q[i] = q[1] + (i - 1)
<1>1. NClus \in Nat /\ NClus >= 1 /\ NClus - 1 \in Nat /\ 1 \in 1 .. NClus
  BY ClusCountType
<1>2. \A i \in 1 .. NClus : q[i] \in Nat
  BY EntriesAre
<1> DEFINE L == {k \in 0 .. NClus - 1 : q[1] + k <= q[k + 1]}
           U == {k \in 0 .. NClus - 1 : q[NClus - k] <= q[NClus] - k}
<1>3. 0 \in L /\ 0 \in U
  BY <1>1, <1>2
<1>4. ASSUME NEW k \in 0 .. (NClus - 1) - 1 PROVE (k \in L => k + 1 \in L) /\ (k \in U => k + 1 \in U)
  <2>1. /\ k + 1 \in 1 .. NClus /\ k + 1 \in 0 .. NClus - 1 /\ (k + 1) + 1 \in 1 .. NClus /\ k + 1 < (k + 1) + 1
        /\ NClus - (k + 1) \in 1 .. NClus /\ NClus - k \in 1 .. NClus /\ NClus - (k + 1) < NClus - k
    BY <1>1
  <2>2. q[k + 1] < q[(k + 1) + 1] /\ q[NClus - (k + 1)] < q[NClus - k]
    BY <2>1
  <2>3. /\ q[k + 1] \in Nat /\ q[(k + 1) + 1] \in Nat /\ q[NClus - (k + 1)] \in Nat /\ q[NClus - k] \in Nat
        /\ q[1] \in Nat /\ q[NClus] \in Nat
    BY <1>1, <1>2, <2>1
  <2>4. k \in Nat /\ NClus \in Nat
    BY <1>1
  <2>5. ASSUME NEW u \in Nat, NEW v \in Nat, NEW w \in Nat, u < v
        PROVE  (w + k <= u => w + (k + 1) <= v) /\ (v <= w - k => u <= w - (k + 1))
    BY <2>4, <2>5
  <2>6. /\ q[1] + k <= q[k + 1] => q[1] + (k + 1) <= q[(k + 1) + 1]
        /\ q[NClus - k] <= q[NClus] - k => q[NClus - (k + 1)] <= q[NClus] - (k + 1)
    BY <2>2, <2>3, <2>5
  <2> QED
    BY <2>1, <2>6
<1>5. 0 .. NClus - 1 \subseteq L /\ 0 .. NClus - 1 \subseteq U
  <2> HIDE DEF L, U
  <2> QED
    BY <1>1, <1>3, <1>4, StepByStep
<1>6. ASSUME NEW i \in 1 .. NClus PROVE q[i] = q[1] + (i - 1)
  <2>1. i - 1 \in 0 .. NClus - 1 /\ NClus - i \in 0 .. NClus - 1 /\ (i - 1) + 1 = i /\ NClus - (NClus - i) = i
    BY <1>1
  <2>2. q[1] + (i - 1) <= q[i] /\ q[i] <= q[NClus] - (NClus - i)
    BY <1>5, <2>1
  <2>3. q[i] \in Nat /\ q[1] \in Nat
    BY <1>1, <1>2
  <2> QED
    BY <1>1, <2>2, <2>3
<1> QED
  BY <1>6

\* The clusters of a new file hold its sectors.
LEMMA ClustersSuffice ==
    ASSUME NEW a \in Nat, a >= 2
    PROVE  Lba(a) + NSectors <= Lba(a + (NClus - 1)) + SecPerClus
<1>1. PICK S \in Nat \ {0} : S = SecPerClus
  BY LbaType
<1>2. PICK n \in Nat : n = NSectors + (S - 1) /\ n + 1 = NSectors + S
  BY <1>1, LbaType
<1>3. PICK p \in Nat : p = NClus /\ p = n \div S /\ p >= 1
  <2>1. NClus = n \div S
    BY <1>1, <1>2, LbaType DEF NClus
  <2> QED
    BY <2>1, ClusCountType
<1>4. n = (p * S) + (n % S) /\ n % S \in 0 .. S - 1
  <2>1. n = (S * (n \div S)) + (n % S) /\ n % S \in 0 .. S - 1
    BY DivMod
  <2> QED
    BY <1>3, <2>1
<1>5. PICK r \in 0 .. S - 1 : n = (p * S) + r
  BY <1>4
<1>6. p * S \in Nat
  OBVIOUS
<1>7. NSectors <= p * S
  BY <1>2, <1>5, <1>6, LbaType
<1>8. PICK m \in Nat : m = a - 2
  OBVIOUS
<1>9. Lba(a) = m * S /\ Lba(a + (NClus - 1)) = (m + (p - 1)) * S
  <2>1. (a + (NClus - 1)) - 2 = m + (p - 1)
    BY <1>3, <1>8
  <2> QED
    BY <1>1, <1>8, <2>1 DEF Lba
<1>10. (m + (p - 1)) * S = (m * S) + ((p - 1) * S) /\ (p - 1) * S = (p * S) - S
  BY <1>3
<1>11. m * S \in Nat
  OBVIOUS
<1> QED
  BY <1>1, <1>6, <1>7, <1>9, <1>10, <1>11, LbaType

\* What is known while a file is being made: its clusters and their sectors.
LEMMA NewPlace ==
    ASSUME TypeInv, Chains, Laid, Making, NEW a, a = logfile.first, NEW b, b = logfile.last
    PROVE  /\ a \in Entries /\ b \in Entries /\ b = a + (NClus - 1) /\ a <= b
           /\ \A d \in Entries : a <= d /\ d <= b => \A s \in LogSlots : d \notin FileChain(s)
           /\ Lba(a) \in Nat /\ Lba(a) + NSectors <= Lba(b) + SecPerClus
           /\ \A x \in Sectors : zero[1] <= x /\ x < zero[2] => Within(a, b, x)
           /\ \A x \in Sectors : Within(a, b, x) => \A s \in LogSlots : ClusterOf(x) \notin FileChain(s)
           /\ (pc # "link" => Straight(a, b))
<1>1. PICK q \in [1 .. NClus -> Entries \ Foreign] : \E j \in 0 .. NClus : MakingBy(q, j)
  BY DEF Chains, MakingInv
<1>2. PICK j \in 0 .. NClus : MakingBy(q, j)
  BY <1>1
<1>3. /\ a = q[1] /\ b = q[NClus] /\ \A i, k \in 1 .. NClus : i < k => q[i] < q[k]
      /\ \A s \in LogSlots : \A i \in 1 .. NClus : q[i] \notin FileChain(s)
  BY <1>2 DEF MakingBy
<1>4. NClus \in Nat /\ NClus >= 1 /\ NClus \in 1 .. NClus /\ 1 \in 1 .. NClus
  BY ClusCountType
<1>5. a \in Entries /\ b \in Entries /\ a \in Nat /\ a >= 2 /\ b \in Nat /\ b = a + (NClus - 1) /\ NewBody
  <2>1. NewBody
    BY DEF Laid, NewInv
  <2>2. a \in Entries /\ b \in Entries
    BY <1>3, <1>4
  <2> QED
    BY <2>1, <2>2, EntriesAre DEF NewBody, Entries
<1>6. a <= b
  BY <1>4, <1>5
<1>7. \A i \in 1 .. NClus : q[i] = a + (i - 1)
  BY <1>3, <1>5, AscendingAdjacent
<1>8. ASSUME NEW d \in Nat, a <= d, d <= b
      PROVE (d - a) + 1 \in 1 .. NClus /\ q[(d - a) + 1] = d
  <2>1. (d - a) + 1 \in 1 .. NClus /\ a + (((d - a) + 1) - 1) = d
    BY <1>4, <1>5, <1>8
  <2> QED
    BY <1>7, <2>1
<1>9. \A d \in Entries : a <= d /\ d <= b => \A s \in LogSlots : d \notin FileChain(s)
  BY <1>3, <1>8, EntriesAre
<1>10. Lba(a) \in Nat /\ Lba(a) + NSectors <= Lba(b) + SecPerClus
  BY <1>5, LbaType, ClustersSuffice
<1>11. ASSUME NEW x \in Sectors, zero[1] <= x, x < zero[2] PROVE Within(a, b, x)
  <2>1. Lba(a) <= zero[1] /\ zero[2] = Lba(a) + NSectors /\ zero[1] \in Nat /\ x \in Nat
        /\ Lba(b) \in Nat /\ SecPerClus \in Nat /\ NSectors \in Nat
    BY <1>5, LbaType, ClusterHolds DEF NewBody, TypeInv, TaskType
  <2> QED
    BY <1>10, <1>11, <2>1 DEF Within
<1>12. ASSUME NEW x \in Sectors, Within(a, b, x) PROVE \A s \in LogSlots : ClusterOf(x) \notin FileChain(s)
  <2>1. ClusterOf(x) \in Entries /\ a <= ClusterOf(x) /\ ClusterOf(x) <= b
    BY <1>5, <1>12, WithinIs, ClusterHolds
  <2> QED
    BY <1>9, <2>1
<1>13. ASSUME pc # "link" PROVE Straight(a, b)
  <2>1. j = NClus
    BY <1>2, <1>4, <1>13 DEF MakingBy
  <2>2. \A i \in 1 .. NClus : fat[1][q[i]] = After(q, i)
    BY <1>2, <1>4, <2>1 DEF MakingBy
  <2>3. fat[1][b] = EOC /\ EOC # 0
    BY <1>3, <1>4, <2>2, EntriesAre DEF After
  <2>4. ASSUME NEW d \in a .. b - 1 PROVE d \in Entries /\ fat[1][d] = d + 1
    <3>1. d \in Nat /\ d + 1 \in Nat /\ a <= d /\ d <= b /\ a <= d + 1 /\ d + 1 <= b
      BY <1>5
    <3>2. PICK i \in 1 .. NClus : i = (d - a) + 1 /\ q[i] = d
      BY <1>8, <3>1
    <3>3. ((d + 1) - a) + 1 = i + 1 /\ i + 1 \in 1 .. NClus /\ q[i + 1] = d + 1
      <4>1. ((d + 1) - a) + 1 = i + 1
        BY <1>5, <3>1, <3>2
      <4> QED
        BY <1>8, <3>1, <4>1
    <3>4. i < NClus
      BY <1>4, <3>3
    <3>5. After(q, i) = d + 1
      BY <3>3, <3>4 DEF After
    <3> QED
      BY <1>1, <2>2, <3>2, <3>5
  <2> QED
    BY <1>6, <2>3, <2>4 DEF Straight
<1> QED
  BY <1>5, <1>6, <1>9, <1>10, <1>11, <1>12, <1>13

\* The new file comes into the directory with zeros in all of its sectors.
LEMMA LaidWriteDir ==
    ASSUME TypeInv, NameInv, Chains, Laid, WriteDirEntry
    PROVE  Laid'
<1>1. /\ fat' = fat /\ data' = data /\ logfile' = logfile /\ mode' = mode /\ pc = "dir" /\ pc' = "magic"
      /\ mode = "create"
  BY DEF WriteDirEntry, taskVars, NameInv, PendingInv
<1>2. PICK slot \in Slots : slot = logfile.slot
  BY DEF TypeInv, FileType, Logfiles
<1>3. PICK a : a = logfile.first
  OBVIOUS
<1>4. PICK b : b = logfile.last
  OBVIOUS
<1>5. PICK name : name = logfile.name
  OBVIOUS
<1>6. Making /\ NewBody
  BY <1>1 DEF Making, Laid, NewInv
<1>7. /\ a \in Entries /\ b \in Entries /\ Lba(a) \in Nat /\ Lba(a) + NSectors <= Lba(b) + SecPerClus
      /\ a <= b /\ Straight(a, b)
  BY <1>1, <1>3, <1>4, <1>6, NewPlace
<1>8. dir'[slot] = Entry("log", name, a, NSectors) /\ \A s \in Slots \ {slot} : dir'[s] = dir[s]
  BY <1>2, <1>3, <1>5 DEF WriteDirEntry, TypeInv, DirType
<1>9. slot \notin LogSlots
  BY <1>1, <1>2 DEF NameInv, PendingInv, LogSlots
<1>10. LogSlots' = LogSlots \cup {slot}
  BY <1>2, <1>8 DEF LogSlots, Entry, Slots
<1>11. /\ dir'[slot].name = name /\ dir'[slot].first = a /\ dir'[slot].size = NSectors
  BY <1>8 DEF Entry
<1>12. FileBy(name, a, b, 0)'
  <2>1. \A x \in Sectors : data'[x].kind = "log" => ~ (Within(a, b, x) \/ x = Lba(a) + data'[x].at)
    BY <1>1, <1>3, <1>4, <1>6 DEF NewBody, Own
  <2>2. Straight(a, b)'
    BY <1>1, <1>7 DEF Straight
  <2>3. Lba(a) + 0 <= Lba(b) + SecPerClus /\ 0 .. 0 - 1 = {}
    BY <1>7, LbaType
  <2> QED
    BY <2>1, <2>2, <2>3 DEF FileBy, Own, Within, Lba, Sectors, LogData
<1>13. ASSUME NEW i \in 0 .. NSectors - 1 PROVE data'[Lba(a) + i] = Plain("zero")
  <2>1. zero[1] = Lba(a) + NSectors /\ \A x \in Lba(a) .. zero[1] - 1 : data[x] = Plain("zero")
    BY <1>1, <1>3, <1>6 DEF NewBody
  <2>2. Lba(a) + i \in Lba(a) .. zero[1] - 1
    BY <1>7, <2>1, LbaType
  <2> QED
    BY <1>1, <2>1, <2>2
<1>14. StoredBy(slot, b, 0)'
  <2>1. FileBy(dir[slot].name, dir[slot].first, b, 0)'
    BY <1>11, <1>12
  <2>2. (Lba(dir[slot].first) + NSectors <= Lba(b) + SecPerClus)'
    BY <1>7, <1>11 DEF Lba
  <2>3. \A i \in 0 .. NSectors - 1 : data'[Lba(dir'[slot].first) + i] = Plain("zero")
    BY <1>11, <1>13
  <2>4. SizeBy(slot, 0)'
    BY <1>11, <2>3 DEF SizeBy, Lba, Plain
  <2> QED
    BY <2>1, <2>2, <2>4 DEF StoredBy
<1>15. UseBody'
  <2>1. logfile.written = 0 /\ logfile.cur = Lba(a) /\ logfile.end = Lba(a) + NSectors
    BY <1>3, <1>6 DEF NewBody
  <2>2. StoredBy(logfile.slot, b, logfile.written)'
    BY <1>1, <1>2, <1>14, <2>1
  <2>3. dir'[logfile'.slot].first = logfile'.first /\ dir'[logfile'.slot].name = logfile'.name
    BY <1>1, <1>2, <1>3, <1>5, <1>11
  <2>4. (Lba(logfile.first))' = Lba(a) /\ (Lba(b))' = Lba(b)
    BY <1>1, <1>3 DEF Lba
  <2>5. logfile'.cur = Lba(a) + logfile'.written /\ Lba(a) + NSectors <= logfile'.end
    BY <1>1, <1>7, <2>1, LbaType
  <2>6. b <= logfile'.last /\ logfile'.end <= Lba(b) + SecPerClus
    BY <1>1, <1>4, <1>7, <2>1, EntriesAre
  <2> QED
    BY <1>1, <1>7, <2>2, <2>3, <2>4, <2>5, <2>6 DEF UseBody, Entries
<1>16. InUse' /\ logfile'.slot = slot
  BY <1>1, <1>2 DEF InUse, Active
<1>17. ASSUME NEW s \in LogSlots PROVE \E c \in Entries : \E k \in Nat : StoredBy(s, c, k)'
  <2>1. PICK c \in Entries, k \in Nat : StoredBy(s, c, k)
    BY AllStored DEF Laid
  <2>2. dir'[s] = dir[s]
    BY <1>8, <1>9 DEF LogSlots
  <2>3. StoredBy(s, c, k)'
    BY <1>1, <2>1, <2>2 DEF StoredBy, FileBy, Straight, Own, Within, SizeBy, Lba, Sectors, LogData, Plain
  <2> QED
    BY <2>3
<1>18. StoredInv'
  BY <1>10, <1>16, <1>17 DEF StoredInv, Entries
<1>19. UseInv'
  BY <1>15 DEF UseInv
<1>20. PlacedInv'
  BY <1>1, PlacedKept DEF Laid
<1> QED
  BY <1>1, <1>18, <1>19, <1>20 DEF Laid, NewInv, Making, AddInv

-----------------------------------------------------------------------------
(* The zero-fill, and clusters that are added *)

\* A sector of a new file becomes zero.
LEMMA LaidZeroNew ==
    ASSUME TypeInv, Chains, Laid, ZeroFill, mode = "create"
    PROVE  Laid'
<1>1. /\ fat' = fat /\ dir' = dir /\ mode' = mode /\ logfile' = logfile /\ pc = "zero" /\ pc' \in {"zero", "dir"}
      /\ zero[1] \in Sectors /\ data' = [data EXCEPT ![zero[1]] = Plain("zero")]
      /\ zero' = <<zero[1] + 1, zero[2]>> /\ (pc' = "zero" <=> zero[1] + 1 < zero[2])
  BY DEF ZeroFill
<1>2. PICK z \in Sectors : z = zero[1]
  BY <1>1
<1>3. PICK a : a = logfile.first
  OBVIOUS
<1>4. PICK b : b = logfile.last
  OBVIOUS
<1>5. Making /\ NewBody
  BY <1>1 DEF Making, Laid, NewInv
<1>6. PICK to \in Nat : to = zero[2] /\ z < to /\ z \in Nat
  BY <1>1, <1>2, <1>5, ClusterHolds DEF NewBody, TypeInv, TaskType
<1>7. /\ a \in Entries /\ Lba(a) \in Nat
      /\ \A x \in Sectors : zero[1] <= x /\ x < zero[2] => Within(a, b, x)
      /\ \A x \in Sectors : Within(a, b, x) => \A s \in LogSlots : ClusterOf(x) \notin FileChain(s)
  BY <1>3, <1>4, <1>5, NewPlace
<1>8. Within(a, b, z) /\ \A s \in LogSlots : ClusterOf(z) \notin FileChain(s)
  BY <1>2, <1>6, <1>7
<1>9. data'[z] = Plain("zero") /\ \A x \in Sectors : x # z => data'[x] = data[x]
  BY <1>1, <1>2 DEF TypeInv, DataType
<1>10. Plain("zero").kind # "log"
  BY DEF Plain
<1>11. ~ InUse'
  BY <1>1 DEF InUse, Active
<1>12. \A x \in Sectors :
          \/ data'[x] = data[x]
          \/ /\ fat[1][ClusterOf(x)] = 0 \/ \A s \in LogSlots : ClusterOf(x) \notin FileChain(s)
             /\ data'[x].kind # "log"
  BY <1>8, <1>9, <1>10
<1>13. StoredInv' /\ UseInv' /\ PlacedInv'
  BY <1>1, <1>11, <1>12, LaidFreed DEF Chains
<1>14. NewBody'
  <2>1. \A x \in Sectors : data'[x].kind = "log" => ~ (Within(a, b, x) \/ x = Lba(a) + data'[x].at)
    BY <1>3, <1>4, <1>5, <1>9, <1>10 DEF NewBody, Own
  <2>2. (\A x \in Sectors : data[x].kind = "log" => ~ Own(logfile.first, logfile.last, x))'
    BY <1>1, <1>3, <1>4, <2>1 DEF Own, Sectors, Within, Lba
  <2>3. zero'[1] = z + 1 /\ zero'[2] = to
    BY <1>1, <1>2, <1>6
  <2>4. Lba(a) <= z /\ to = Lba(a) + NSectors /\ \A x \in Lba(a) .. z - 1 : data[x] = Plain("zero")
    BY <1>1, <1>2, <1>3, <1>5, <1>6 DEF NewBody
  <2>5. ASSUME NEW x \in Lba(a) .. (z + 1) - 1 PROVE data'[x] = Plain("zero")
    <3>1. CASE x = z
      BY <1>9, <3>1
    <3>2. CASE x # z
      <4>1. x \in Lba(a) .. z - 1 /\ x \in 0 .. z
        BY <1>6, <1>7, <2>4, <3>2
      <4>2. z < Lba(LastEntry + 1) /\ Lba(LastEntry + 1) \in Int
        <5>1. LastEntry + 1 \in Nat /\ LastEntry + 1 >= 2
          BY VolumeAssumption
        <5> QED
          BY <1>2, <1>6, <5>1, LbaType DEF Sectors
      <4>3. x \in Sectors
        BY <1>6, <4>1, <4>2 DEF Sectors
      <4> QED
        BY <1>9, <2>4, <3>2, <4>1, <4>3
    <3> QED
      BY <3>1, <3>2
  <2>6. Lba(a) <= z + 1 /\ z + 1 <= to /\ (pc' = "zero" => z + 1 < to) /\ (pc' = "dir" => z + 1 = to)
    BY <1>1, <1>2, <1>6, <1>7, <2>3, <2>4
  <2>7. (Lba(logfile.first))' = Lba(a) /\ (logfile.last = logfile.first + (NClus - 1))'
    BY <1>1, <1>3, <1>5 DEF Lba, NClus, NewBody
  <2>8. logfile'.cur = Lba(a) /\ logfile'.end = logfile'.cur + NSectors /\ logfile'.written = 0
    BY <1>1, <1>3, <1>5 DEF NewBody
  <2>9. (\A x \in Lba(logfile.first) .. zero[1] - 1 : data[x] = Plain("zero"))'
    BY <2>3, <2>5, <2>7 DEF Plain
  <2> QED
    BY <1>1, <2>2, <2>3, <2>4, <2>6, <2>7, <2>8, <2>9 DEF NewBody
<1> QED
  BY <1>1, <1>13, <1>14 DEF Laid, NewInv, AddInv

\* What is known while a cluster is added to the file in use.
LEMMA AddPlace ==
    ASSUME TypeInv, Chains, Laid, pc \in {"link", "zero"}, mode = "extend", NEW c \in Entries, ExtendBy(c)
    PROVE  /\ logfile.slot \in LogSlots /\ UseBody /\ AddBody
           /\ logfile.last \in Entries /\ logfile.last < c
           /\ \A s \in LogSlots \ {logfile.slot} :
                 logfile.last \notin FileChain(s) /\ (c \notin FileChain(s) \/ fat[1][c] = 0)
<1>1. ActiveBody /\ AddBody /\ InUse
  BY DEF Chains, ActiveInv, Active, Laid, AddInv, InUse
<1>2. logfile.slot \in LogSlots /\ dir[logfile.slot].first = logfile.first
  BY <1>1 DEF ActiveBody
<1>3. PICK slot \in LogSlots : slot = logfile.slot
  BY <1>2
<1>4. fat[1] \in Tables /\ Rising(fat[1]) /\ dir[slot].first \in Entries
  BY SizesAssumption DEF TypeInv, FatType, DirType, Chains, Ordered
<1>5. logfile.last \in FileChain(slot)
  BY <1>1, <1>2, <1>3 DEF ActiveBody, Trunk, TrunkOf, FileChain
<1>6. logfile.last \in Entries
  BY <1>4, <1>5, ChainIs DEF FileChain
<1>7. logfile.last < c /\ (fat[1][c] # 0 => Added = c)
  BY EntriesAre DEF ExtendBy
<1>8. fat[1][c] # 0 => c \in FileChain(slot)
  BY <1>4, <1>5, <1>7, ChainClosed, EntriesAre DEF Added, FileChain, Values
<1>9. UseBody
  BY <1>1, <1>2 DEF Laid, UseInv
<1>10. \A s \in LogSlots \ {slot} : FileChain(s) \cap FileChain(slot) = {}
  BY DEF Chains, ApartInv
<1> QED
  BY <1>1, <1>2, <1>3, <1>5, <1>6, <1>7, <1>8, <1>9, <1>10

\* What is stored stays so while the links at the end of the file in use change
\* and the cluster that is added is filled.
LEMMA AddKept ==
    ASSUME TypeInv, Chains, Laid, pc \in {"link", "zero"}, mode = "extend", NEW c \in Entries, ExtendBy(c),
           dir' = dir, \A d \in Entries \ {logfile.last, c} : fat'[1][d] = fat[1][d],
           \A d \in Entries : fat[1][d] # 0 => fat'[1][d] # 0,
           \A x \in Sectors : data'[x] = data[x] \/ (ClusterOf(x) = c /\ data'[x].kind # "log")
    PROVE  /\ LogSlots' = LogSlots /\ PlacedInv'
           /\ \A s \in LogSlots \ {logfile.slot} : \E b \in Entries : \E k \in Nat : StoredBy(s, b, k)'
           /\ \A b \in Entries : \A k \in Nat :
                 b <= logfile.last /\ StoredBy(logfile.slot, b, k) =>
                    /\ Untouched(logfile.first, b)
                    /\ \A s : s = logfile.slot => StoredBy(s, b, k)'
           /\ \A x \in Sectors : zero[2] - SecPerClus <= x /\ x < zero[2] => data'[x].kind # "log"
<1>1. /\ logfile.slot \in LogSlots /\ UseBody /\ AddBody /\ logfile.last \in Entries /\ logfile.last < c
      /\ \A s \in LogSlots \ {logfile.slot} :
            logfile.last \notin FileChain(s) /\ (c \notin FileChain(s) \/ fat[1][c] = 0)
  BY AddPlace
<1>2. LogSlots' = LogSlots
  BY DEF LogSlots
<1>3. PlacedInv'
  BY PlacedKept DEF Laid
<1>4. ASSUME NEW s \in LogSlots \ {logfile.slot} PROVE \E b \in Entries : \E k \in Nat : StoredBy(s, b, k)'
  <2>1. PICK b \in Entries, k \in Nat : StoredBy(s, b, k)
    BY <1>4, AllStored DEF Laid
  <2>2. \A d \in FileChain(s) : fat[1][d] # 0 => fat'[1][d] = fat[1][d]
    <3>1. FileChain(s) \subseteq Entries
      BY DEF FileChain, ChainOf
    <3> QED
      BY <1>1, <1>4, <3>1
  <2>3. StoredBy(s, b, k)'
    BY <1>1, <1>4, <2>1, <2>2, StoredApart DEF Chains
  <2> QED
    BY <2>3
<1>5. PICK slot \in LogSlots : slot = logfile.slot
  BY <1>1
<1>6. PICK a \in Entries : a = logfile.first /\ a = dir[slot].first
  BY <1>1, <1>5 DEF UseBody, TypeInv, DirType
<1>7. PICK last \in Entries : last = logfile.last
  BY <1>1
<1>8. ASSUME NEW b \in Entries, NEW k \in Nat, b <= last, StoredBy(slot, b, k)
      PROVE  Untouched(a, b) /\ StoredBy(slot, b, k)'
  <2>1. a \in Nat /\ b \in Nat /\ c \in Nat /\ last \in Nat /\ last < c
    BY <1>1, <1>7, EntriesAre
  <2>2. Straight(a, b) /\ fat[1][b] # 0
    BY <1>6, <1>8 DEF StoredBy, FileBy, Straight
  <2>3. ASSUME NEW x \in Sectors, ClusterOf(x) = c PROVE ~ Within(a, b, x)
    BY <1>8, <2>1, <2>3, WithinIs
  <2>4. Untouched(a, b)
    BY <2>3 DEF Untouched
  <2>5. ASSUME NEW d \in a .. b - 1 PROVE fat'[1][d] = fat[1][d]
    <3>1. d \in Entries
      BY <2>2 DEF Straight
    <3>2. d # last /\ d # c
      BY <1>8, <2>1
    <3> QED
      BY <1>7, <3>1, <3>2
  <2>6. slot \in Slots /\ fat'[1][b] # 0 /\ dir'[slot] = dir[slot]
    BY <2>2 DEF LogSlots
  <2>7. StoredBy(slot, b, k)'
    BY <1>6, <1>8, <2>4, <2>5, <2>6, StoredKept
  <2> QED
    BY <2>4, <2>7
<1>9. \A x \in Sectors : zero[2] - SecPerClus <= x /\ x < zero[2] => data'[x].kind # "log"
  BY <1>1 DEF AddBody
<1> QED
  BY <1>2, <1>3, <1>4, <1>5, <1>6, <1>7, <1>8, <1>9

\* Until the cluster is added the file in use is as it was.
LEMMA AddSteady ==
    ASSUME TypeInv, Chains, Laid, pc \in {"link", "zero"}, mode = "extend", NEW c \in Entries, ExtendBy(c),
           dir' = dir, \A d \in Entries \ {logfile.last, c} : fat'[1][d] = fat[1][d],
           \A d \in Entries : fat[1][d] # 0 => fat'[1][d] # 0,
           \A x \in Sectors : data'[x] = data[x] \/ (ClusterOf(x) = c /\ data'[x].kind # "log"),
           logfile' = logfile, mode' = mode, pc' \in {"link", "zero"}, zero'[2] = zero[2]
    PROVE  Laid'
<1>1. logfile.slot \in LogSlots /\ UseBody /\ AddBody
  BY AddPlace
<1>2. /\ LogSlots' = LogSlots /\ PlacedInv'
      /\ \A s \in LogSlots \ {logfile.slot} : \E b \in Entries : \E k \in Nat : StoredBy(s, b, k)'
      /\ \A b \in Entries : \A k \in Nat :
            b <= logfile.last /\ StoredBy(logfile.slot, b, k) => \A s : s = logfile.slot => StoredBy(s, b, k)'
      /\ \A x \in Sectors : zero[2] - SecPerClus <= x /\ x < zero[2] => data'[x].kind # "log"
  BY AddKept
<1>3. PICK slot \in LogSlots : slot = logfile.slot
  BY <1>1
<1>4. PICK n \in Nat : n = logfile.written
  BY DEF TypeInv, FileType, Logfiles
<1>5. PICK b \in Entries : b <= logfile.last /\ logfile.end <= Lba(b) + SecPerClus /\ StoredBy(slot, b, n)
  BY <1>1, <1>3, <1>4 DEF UseBody
<1>6. StoredBy(slot, b, n)'
  BY <1>2, <1>3, <1>5
<1>7. StoredBy(logfile.slot, b, logfile.written)'
  BY <1>3, <1>4, <1>6
<1>8. UseBody'
  BY <1>1, <1>5, <1>7 DEF UseBody, Lba, Entries
<1>9. InUse' /\ ~ Making'
  BY DEF InUse, Active, Making
<1>10. StoredInv'
  BY <1>2, <1>9 DEF StoredInv, Entries
<1>11. AddBody'
  BY <1>1, <1>2 DEF AddBody, Sectors, Lba
<1> QED
  BY <1>2, <1>8, <1>9, <1>10, <1>11 DEF Laid, UseInv, NewInv, AddInv

\* A sector of a cluster that is added becomes zero; the last one makes the
\* cluster the next of the file, unless it is not the one after its last.
LEMMA LaidZeroAdd ==
    ASSUME TypeInv, Chains, Laid, ZeroFill, mode = "extend", ~ misplaced'
    PROVE  Laid'
<1>1. /\ fat' = fat /\ dir' = dir /\ mode' = mode /\ pc = "zero" /\ zero[1] \in Sectors
      /\ data' = [data EXCEPT ![zero[1]] = Plain("zero")] /\ zero' = <<zero[1] + 1, zero[2]>>
  BY DEF ZeroFill
<1>2. PICK c \in Entries : ExtendBy(c)
  BY <1>1 DEF Chains, ExtendInv
<1>3. /\ Added = c /\ fat[1][c] = EOC /\ zero[2] = Lba(c) + SecPerClus
      /\ Lba(c) <= zero[1] /\ zero[1] < zero[2]
  BY <1>1, <1>2 DEF ExtendBy
<1>4. PICK z \in Sectors : z = zero[1]
  BY <1>1
<1>5. ClusterOf(z) = c
  BY <1>3, <1>4, ClusterHolds, ClusterOfSector
<1>6. data'[z] = Plain("zero") /\ \A x \in Sectors : x # z => data'[x] = data[x]
  BY <1>1, <1>4 DEF TypeInv, DataType
<1>7. \A x \in Sectors : data'[x] = data[x] \/ (ClusterOf(x) = c /\ data'[x].kind # "log")
  BY <1>5, <1>6 DEF Plain
<1>8. CASE zero[1] + 1 < zero[2]
  <2>1. logfile' = logfile /\ pc' = "zero"
    BY <1>1, <1>8 DEF ZeroFill
  <2> QED
    BY <1>1, <1>2, <1>7, <2>1, AddSteady
<1>9. CASE ~ (zero[1] + 1 < zero[2])
  <2>1. /\ pc' = "append" /\ logfile' = [logfile EXCEPT !.end = zero[2], !.last = c]
        /\ c = ClusterOf(logfile.end - 1) + 1
    BY <1>1, <1>4, <1>5, <1>9 DEF ZeroFill
  <2>2. /\ logfile.slot \in LogSlots /\ UseBody /\ AddBody /\ logfile.last \in Entries /\ logfile.last < c
    BY <1>1, <1>2, AddPlace
  <2>3. /\ LogSlots' = LogSlots /\ PlacedInv'
        /\ \A s \in LogSlots \ {logfile.slot} : \E b \in Entries : \E k \in Nat : StoredBy(s, b, k)'
        /\ \A b \in Entries : \A k \in Nat :
              b <= logfile.last /\ StoredBy(logfile.slot, b, k) =>
                 /\ Untouched(logfile.first, b)
                 /\ \A s : s = logfile.slot => StoredBy(s, b, k)'
        /\ \A x \in Sectors : zero[2] - SecPerClus <= x /\ x < zero[2] => data'[x].kind # "log"
    BY <1>1, <1>2, <1>7, AddKept
  <2>4. PICK slot \in LogSlots : slot = logfile.slot
    BY <2>2
  <2>5. PICK n \in Nat, end \in Nat : n = logfile.written /\ end = logfile.end
    BY DEF TypeInv, FileType, Logfiles
  <2>6. PICK a \in Entries : a = logfile.first /\ a = dir[slot].first
    BY <2>2, <2>4 DEF UseBody, TypeInv, DirType
  <2>7. PICK b \in Entries : b <= logfile.last /\ end <= Lba(b) + SecPerClus /\ StoredBy(slot, b, n)
    BY <2>2, <2>4, <2>5 DEF UseBody
  <2>8. StoredBy(slot, b, n)'
    BY <2>3, <2>4, <2>7
  <2>9. /\ a \in Nat /\ a >= 2 /\ b \in Nat /\ b >= 2 /\ c \in Nat /\ c >= 2 /\ logfile.last \in Nat
        /\ b < c /\ Lba(a) \in Nat /\ Lba(b) \in Nat /\ Lba(c) \in Nat
        /\ SecPerClus \in Nat \ {0} /\ NSectors \in Nat \ {0}
    BY <2>2, <2>7, LbaType, EntriesAre DEF Entries
  <2>10. Lba(b) + SecPerClus <= Lba(c) /\ Lba(b + 1) = Lba(b) + SecPerClus
    BY <2>9, LbaOrder
  <2>11. FileBy(dir[slot].name, a, b, n) /\ a <= b /\ Lba(a) + n <= Lba(b) + SecPerClus
    BY <2>6, <2>7 DEF StoredBy, FileBy, Straight
  <2>12. logfile.cur = Lba(a) + n /\ Lba(a) + NSectors <= end
    BY <2>2, <2>5, <2>6 DEF UseBody
  <2>13. c = b + 1 /\ logfile.last = b
    <3>1. end - 1 \in Int /\ Lba(a) <= end - 1 /\ end - 1 < Lba(b) + SecPerClus
      BY <2>7, <2>9, <2>12
    <3>2. Within(a, b, end - 1) /\ end - 1 \in Sectors
      BY <3>1, WithinCard DEF Within
    <3>3. ClusterOf(end - 1) \in Entries /\ ClusterOf(end - 1) <= b
      BY <3>2, WithinIs, ClusterHolds
    <3>4. ClusterOf(end - 1) \in Nat
      BY <3>3, EntriesAre
    <3> QED
      BY <2>1, <2>2, <2>5, <2>7, <2>9, <3>3, <3>4
  <2>14. Lba(c) = Lba(b) + SecPerClus
    BY <2>10, <2>13
  <2>15. PICK name : name = dir[slot].name
    OBVIOUS
  <2>16. FileBy(name, a, b, n)' /\ SizeBy(slot, n)' /\ dir'[slot].first = a /\ dir'[slot].name = name
    BY <1>1, <2>6, <2>8, <2>15 DEF StoredBy
  <2>17. FileBy(name, a, c, n)'
    <3>1. Straight(a, c)'
      <4>1. fat[1][b] = c /\ fat[1][c] # 0
        BY <1>3, <2>13, EntriesAre DEF Added
      <4>2. \A d \in a .. b - 1 : d \in Entries /\ fat[1][d] = d + 1
        BY <2>11 DEF FileBy, Straight
      <4>3. \A d \in a .. c - 1 : d = b \/ d \in a .. b - 1
        BY <2>9, <2>13
      <4>4. \A d \in a .. c - 1 : d \in Entries /\ fat[1][d] = d + 1
        BY <2>13, <4>1, <4>2, <4>3
      <4>5. a <= c
        BY <2>9, <2>11
      <4> QED
        BY <1>1, <4>1, <4>4, <4>5 DEF Straight, Entries
    <3>2. Lba(a) + n <= Lba(c) + SecPerClus
      BY <2>9, <2>11, <2>14
    <3>3. \A i \in 0 .. n - 1 : data'[Lba(a) + i] = LogData(name, i)
      BY <2>16 DEF FileBy, Lba, LogData
    <3>4. ASSUME NEW x \in Sectors, data'[x].kind = "log", Within(a, c, x) \/ x = Lba(a) + data'[x].at
          PROVE  x < Lba(a) + n
      <4>1. Within(a, b, x) \/ x = Lba(a) + data'[x].at => x < Lba(a) + n
        BY <2>16, <3>4 DEF FileBy, Own, Within, Lba, Sectors
      <4>2. x \in Nat
        BY LbaType
      <4>3. ~ (Lba(c) <= x /\ x < Lba(c) + SecPerClus)
        BY <1>3, <2>3, <2>9, <3>4, <4>2
      <4>4. Within(a, c, x) => Within(a, b, x)
        BY <2>9, <2>14, <4>2, <4>3 DEF Within
      <4> QED
        BY <3>4, <4>1, <4>4
    <3> QED
      BY <3>1, <3>2, <3>3, <3>4 DEF FileBy, Own, Within, Lba, Sectors, LogData
  <2>18. StoredBy(slot, c, n)'
    <3>1. FileBy(dir[slot].name, dir[slot].first, c, n)'
      BY <2>16, <2>17
    <3>2. Lba(a) + NSectors <= Lba(c) + SecPerClus
      BY <2>7, <2>9, <2>12, <2>14
    <3>3. (Lba(dir[slot].first) + NSectors <= Lba(c) + SecPerClus)'
      BY <2>16, <3>2 DEF Lba
    <3> QED
      BY <2>16, <3>1, <3>3 DEF StoredBy
  <2>19. /\ logfile'.slot = slot /\ logfile'.written = n /\ logfile'.first = a /\ logfile'.name = logfile.name
         /\ logfile'.cur = logfile.cur /\ logfile'.end = Lba(c) + SecPerClus /\ logfile'.last = c
    BY <1>3, <2>1, <2>4, <2>5, <2>6 DEF TypeInv, FileType, Logfiles
  <2>20. UseBody'
    <3>1. StoredBy(logfile.slot, c, logfile.written)'
      BY <2>18, <2>19
    <3>2. dir'[logfile'.slot].first = logfile'.first /\ dir'[logfile'.slot].name = logfile'.name
      BY <1>1, <2>2, <2>4, <2>6, <2>19 DEF UseBody
    <3>3. (Lba(logfile.first))' = Lba(a) /\ (Lba(c))' = Lba(c)
      BY <2>19 DEF Lba
    <3>4. logfile'.cur = Lba(a) + logfile'.written /\ Lba(a) + NSectors <= logfile'.end
          /\ logfile'.cur < logfile'.end
      BY <2>7, <2>9, <2>11, <2>12, <2>14, <2>19
    <3>5. c <= logfile'.last /\ logfile'.end <= Lba(c) + SecPerClus
      BY <2>9, <2>19
    <3> QED
      BY <3>1, <3>2, <3>3, <3>4, <3>5 DEF UseBody, Entries
  <2>21. InUse' /\ ~ Making' /\ pc' = "append"
    BY <2>1 DEF InUse, Active, Making
  <2>22. StoredInv'
    BY <2>3, <2>4, <2>19, <2>21 DEF StoredInv, Entries
  <2> QED
    BY <2>3, <2>20, <2>21, <2>22 DEF Laid, UseInv, NewInv, AddInv
<1> QED
  BY <1>8, <1>9

\* A link of a new file is written; after the last one its sectors are erased.
LEMMA LaidLink ==
    ASSUME TypeInv, Chains, Laid, WriteFatEntry, mode = "create"
    PROVE  Laid'
<1>1. /\ pc = "link" /\ dir' = dir /\ mode' = mode /\ logfile' = logfile /\ zero' = zero /\ pc' \in {"link", "zero"}
      /\ \A x \in Sectors : data'[x] = data[x] \/ (zero[1] <= x /\ x < zero[2] /\ data'[x] = Plain("blank"))
  BY DEF WriteFatEntry
<1>2. Making /\ Making' /\ NewBody /\ ~ InUse'
  BY <1>1 DEF Making, Laid, NewInv, InUse, Active
<1>3. PICK a : a = logfile.first
  OBVIOUS
<1>4. PICK b : b = logfile.last
  OBVIOUS
<1>5. /\ a \in Entries /\ Lba(a) \in Nat
      /\ \A x \in Sectors : zero[1] <= x /\ x < zero[2] => Within(a, b, x)
      /\ \A x \in Sectors : Within(a, b, x) => \A s \in LogSlots : ClusterOf(x) \notin FileChain(s)
  BY <1>2, <1>3, <1>4, NewPlace
<1>6. PICK q \in [1 .. NClus -> Entries \ Foreign] : \E i \in 0 .. NClus : MakingBy(q, i)
  BY <1>2 DEF Chains, MakingInv
<1>7. PICK j \in 0 .. NClus : MakingBy(q, j)
  BY <1>6
<1>8. NClus \in Nat /\ j < NClus /\ j \in Nat /\ j + 1 \in 1 .. NClus
  BY <1>1, <1>7, ClusCountType DEF MakingBy
<1>9. PICK n \in Nat : n = NClus - j /\ n >= 1
  BY <1>8
<1>10. /\ todo = [k \in 1 .. n |-> [clus |-> q[j + k], val |-> After(q, j + k)]]
       /\ \A i \in 1 .. NClus :
             fat[1][q[i]] = IF i <= j \/ (i = j + 1 /\ copy > 1) THEN After(q, i) ELSE 0
       /\ \A s \in LogSlots : \A i \in 1 .. NClus : q[i] \notin FileChain(s)
  BY <1>7, <1>9 DEF MakingBy
<1>11. PICK c \in Entries : c = q[j + 1]
  BY <1>8
<1>12. PICK val : val = After(q, j + 1)
  OBVIOUS
<1>13. Head(todo).clus = c /\ Head(todo).val = val
  BY <1>9, <1>10, <1>11, <1>12
<1>14. copy > 1 => fat[1][c] = val
  BY <1>8, <1>10, <1>11, <1>12
<1>15. fat'[1] = [fat[1] EXCEPT ![c] = val]
  BY <1>13, <1>14, FirstCopy
<1>16. val # 0
  <2>1. j + 1 < NClus => (j + 1) + 1 \in 1 .. NClus
    BY <1>8
  <2> QED
    BY <1>12, <2>1, EntriesAre DEF After
<1>17. \A d \in Entries : fat'[1][d] = IF d = c THEN val ELSE fat[1][d]
  BY <1>15, SizesAssumption DEF TypeInv, FatType, Tables
<1>18. \A s \in LogSlots : c \notin FileChain(s) /\ FileChain(s) \subseteq Entries
  BY <1>8, <1>10, <1>11 DEF FileChain, ChainOf
<1>19. Plain("blank").kind # "log"
  BY DEF Plain
<1>20. \A x \in Sectors :
          \/ data'[x] = data[x]
          \/ /\ fat[1][ClusterOf(x)] = 0 \/ \A s \in LogSlots : ClusterOf(x) \notin FileChain(s)
             /\ data'[x].kind # "log"
  BY <1>1, <1>5, <1>19
<1>21. \A s \in LogSlots : \A d \in FileChain(s) : fat[1][d] # 0 => fat'[1][d] = fat[1][d]
  BY <1>17, <1>18
<1>22. \A d \in Entries : fat[1][d] # 0 => fat'[1][d] # 0
  BY <1>16, <1>17
<1>23. Ordered(fat[1])
  BY DEF Chains
<1>24. StoredInv' /\ UseInv' /\ PlacedInv'
  BY <1>1, <1>2, <1>20, <1>21, <1>22, <1>23, LaidFreed
<1>25. NewBody'
  <2>1. \A x \in Sectors : data'[x].kind = "log" => ~ (Within(a, b, x) \/ x = Lba(a) + data'[x].at)
    BY <1>1, <1>2, <1>3, <1>4, <1>19 DEF NewBody, Own
  <2>2. (\A x \in Sectors : data[x].kind = "log" => ~ Own(logfile.first, logfile.last, x))'
    BY <1>1, <1>3, <1>4, <2>1 DEF Own, Sectors, Within, Lba
  <2>3. (Lba(logfile.first))' = Lba(a) /\ (logfile.last = logfile.first + (NClus - 1))'
    BY <1>1, <1>2, <1>3 DEF Lba, NClus, NewBody
  <2>4. zero[1] = Lba(a) /\ Lba(a) .. Lba(a) - 1 = {}
    BY <1>1, <1>2, <1>3, <1>5 DEF NewBody
  <2>5. (\A x \in Lba(logfile.first) .. zero[1] - 1 : data[x] = Plain("zero"))'
    BY <1>1, <2>3, <2>4 DEF Plain
  <2>6. /\ logfile'.cur = Lba(a) /\ logfile'.end = logfile'.cur + NSectors /\ logfile'.written = 0
        /\ zero'[2] = Lba(a) + NSectors /\ Lba(a) <= zero'[1] /\ zero'[1] < zero'[2] /\ zero'[1] <= zero'[2]
    BY <1>1, <1>2, <1>3, <1>5, <2>4 DEF NewBody
  <2> QED
    BY <1>1, <2>2, <2>3, <2>4, <2>5, <2>6 DEF NewBody
<1> QED
  BY <1>1, <1>24, <1>25 DEF Laid, NewInv, AddInv

\* One of the two links that add a cluster is written; then it is erased.
LEMMA LaidAdd ==
    ASSUME TypeInv, Chains, Laid, WriteFatEntry, mode = "extend"
    PROVE  Laid'
<1>1. /\ pc = "link" /\ dir' = dir /\ mode' = mode /\ logfile' = logfile /\ zero' = zero /\ pc' \in {"link", "zero"}
      /\ \A x \in Sectors : data'[x] = data[x] \/ (zero[1] <= x /\ x < zero[2] /\ data'[x] = Plain("blank"))
  BY DEF WriteFatEntry
<1>2. PICK c \in Entries : ExtendBy(c)
  BY <1>1 DEF Chains, ExtendInv
<1>3. /\ zero[2] = Lba(c) + SecPerClus /\ Lba(c) <= zero[1]
      /\ \/ /\ todo = << [clus |-> logfile.last, val |-> c], [clus |-> c, val |-> EOC] >>
            /\ copy > 1 => Added = c
         \/ /\ todo = << [clus |-> c, val |-> EOC] >>
            /\ fat[1][c] = IF copy > 1 THEN EOC ELSE 0
  BY <1>1, <1>2 DEF ExtendBy
<1>4. logfile.last \in Entries /\ logfile.last < c
  BY <1>1, <1>2, AddPlace
<1>5. \E x \in {logfile.last, c} : \E val :
         Head(todo).clus = x /\ Head(todo).val = val /\ val # 0 /\ (copy > 1 => fat[1][x] = val)
  <2>1. CASE todo = << [clus |-> logfile.last, val |-> c], [clus |-> c, val |-> EOC] >> /\ (copy > 1 => Added = c)
    BY <2>1, EntriesAre DEF Added
  <2>2. CASE todo = << [clus |-> c, val |-> EOC] >> /\ (fat[1][c] = IF copy > 1 THEN EOC ELSE 0)
    BY <2>2, EntriesAre
  <2> QED
    BY <1>3, <2>1, <2>2
<1>6. PICK x \in {logfile.last, c} : \E val :
          Head(todo).clus = x /\ Head(todo).val = val /\ val # 0 /\ (copy > 1 => fat[1][x] = val)
  BY <1>5
<1>7. PICK val : Head(todo).clus = x /\ Head(todo).val = val /\ val # 0 /\ (copy > 1 => fat[1][x] = val)
  BY <1>6
<1>8. fat'[1] = [fat[1] EXCEPT ![x] = val]
  BY <1>7, FirstCopy
<1>9. \A d \in Entries : fat'[1][d] = IF d = x THEN val ELSE fat[1][d]
  BY <1>8, SizesAssumption DEF TypeInv, FatType, Tables
<1>10. \A s \in Sectors : data'[s] = data[s] \/ (ClusterOf(s) = c /\ data'[s].kind # "log")
  <2>1. ASSUME NEW s \in Sectors, zero[1] <= s, s < zero[2] PROVE ClusterOf(s) = c
    <3>1. s \in Nat /\ Lba(c) \in Nat /\ zero[1] \in Nat
      BY LbaType DEF TypeInv, TaskType
    <3>2. Lba(c) <= s /\ s < Lba(c) + SecPerClus
      BY <1>3, <2>1, <3>1
    <3> QED
      BY <3>1, <3>2, ClusterOfSector
  <2> QED
    BY <1>1, <2>1 DEF Plain
<1>11. /\ \A d \in Entries \ {logfile.last, c} : fat'[1][d] = fat[1][d]
      /\ \A d \in Entries : fat[1][d] # 0 => fat'[1][d] # 0
  BY <1>7, <1>9
<1> QED
  BY <1>1, <1>2, <1>10, <1>11, AddSteady

\* A sector is appended to the file in use: it is the next of it, it lies in a
\* cluster of no other file, and it is not what another file would have there.
LEMMA LaidAppend ==
    ASSUME TypeInv, Chains, Laid, AppendSector
    PROVE  Laid'
<1>1. /\ fat' = fat /\ dir' = dir /\ mode' = mode /\ pc' = "run" /\ logfile.cur \in Sectors
      /\ (pc = "run" /\ logfile.cur < logfile.end) \/ pc = "append"
      /\ \/ /\ data' = [data EXCEPT ![logfile.cur] = LogData(logfile.name, logfile.written)]
            /\ logfile' = [logfile EXCEPT !.cur = @ + 1, !.written = @ + 1]
         \/ data' = data /\ logfile' = logfile
  BY DEF AppendSector, WriteSector, taskVars
<1>2. ActiveBody /\ InUse /\ InUse' /\ ~ Making'
  BY <1>1 DEF Chains, ActiveInv, Active, InUse, Making
<1>3. PICK slot \in LogSlots : slot = logfile.slot
  BY <1>2 DEF ActiveBody
<1>4. UseBody
  BY <1>2, <1>3 DEF Laid, UseInv
<1>5. CASE data' = data /\ logfile' = logfile
  BY <1>1, <1>2, <1>5, LaidQuiet
<1>6. CASE /\ data' = [data EXCEPT ![logfile.cur] = LogData(logfile.name, logfile.written)]
           /\ logfile' = [logfile EXCEPT !.cur = @ + 1, !.written = @ + 1]
  <2>1. PICK n \in Nat, end \in Nat : n = logfile.written /\ end = logfile.end
    BY DEF TypeInv, FileType, Logfiles
  <2>2. PICK a \in Entries : a = logfile.first /\ a = dir[slot].first
    BY <1>3, <1>4 DEF UseBody, TypeInv, DirType
  <2>3. PICK name : name = logfile.name /\ name = dir[slot].name
    BY <1>3, <1>4 DEF UseBody
  <2>4. PICK cur \in Sectors : cur = logfile.cur
    BY <1>1
  <2>5. PICK b \in Entries : b <= logfile.last /\ end <= Lba(b) + SecPerClus /\ StoredBy(slot, b, n)
    BY <1>3, <1>4, <2>1 DEF UseBody
  <2>6. cur = Lba(a) + n /\ Lba(a) + NSectors <= end /\ cur < end
    BY <1>1, <1>4, <2>1, <2>2, <2>4 DEF UseBody
  <2>7. cur \in Nat /\ Lba(a) \in Nat /\ Lba(b) \in Nat /\ SecPerClus \in Nat /\ NSectors \in Nat
    BY LbaType
  <2>8. Within(a, b, cur)
    BY <2>1, <2>5, <2>6, <2>7 DEF Within
  <2>9. /\ data'[cur] = LogData(name, n) /\ data'[cur].at = n /\ \A x \in Sectors : x # cur => data'[x] = data[x]
        /\ logfile'.cur = cur + 1 /\ logfile'.written = n + 1 /\ logfile'.first = a /\ logfile'.name = name
        /\ logfile'.slot = slot /\ logfile'.end = end /\ logfile'.last = logfile.last
    BY <1>3, <1>6, <2>1, <2>2, <2>3, <2>4 DEF TypeInv, DataType, FileType, Logfiles, LogData
  <2>10. FileBy(name, a, b, n) /\ Lba(a) + NSectors <= Lba(b) + SecPerClus /\ SizeBy(slot, n)
    BY <2>2, <2>3, <2>5 DEF StoredBy
  <2>11. FileBy(name, a, b, n + 1)'
    <3>1. Straight(a, b)'
      BY <1>1, <2>10 DEF FileBy, Straight
    <3>2. Lba(a) + (n + 1) <= Lba(b) + SecPerClus
      BY <2>1, <2>5, <2>6, <2>7
    <3>3. ASSUME NEW i \in 0 .. (n + 1) - 1 PROVE data'[Lba(a) + i] = LogData(name, i)
      <4>1. CASE i = n
        BY <2>6, <2>9, <4>1
      <4>2. CASE i # n
        <5>1. i \in 0 .. n - 1 /\ Lba(a) + i \in Int /\ Lba(a) + i # cur /\ Within(a, b, Lba(a) + i)
          BY <2>6, <2>7, <2>8, <4>2 DEF Within
        <5>2. Lba(a) + i \in Sectors
          BY <5>1, WithinCard
        <5> QED
          BY <2>9, <2>10, <5>1, <5>2 DEF FileBy
      <4> QED
        BY <4>1, <4>2
    <3>4. ASSUME NEW x \in Sectors, data'[x].kind = "log", Within(a, b, x) \/ x = Lba(a) + data'[x].at
          PROVE  x < Lba(a) + (n + 1)
      <4>1. CASE x = cur
        BY <2>6, <2>7, <4>1
      <4>2. CASE x # cur
        <5>1. x < Lba(a) + n /\ x \in Nat
          BY <2>9, <2>10, <3>4, <4>2, LbaType DEF FileBy, Own
        <5> QED
          BY <2>7, <5>1
      <4> QED
        BY <4>1, <4>2
    <3> QED
      BY <3>1, <3>2, <3>3, <3>4 DEF FileBy, Own, Within, Lba, Sectors, LogData
  <2>12. SizeBy(slot, n + 1)'
    <3>1. dir[slot].size \in Nat
      BY DEF TypeInv, DirType, DirEntries, LogSlots
    <3>2. CASE dir[slot].size <= n
      <4>1. dir[slot].size <= n + 1
        BY <3>1, <3>2
      <4> QED
        BY <1>1, <4>1 DEF SizeBy
    <3>3. CASE ~ (dir[slot].size <= n)
      <4>1. dir[slot].size = NSectors /\ \A i \in n .. NSectors - 1 : data[Lba(a) + i] = Plain("zero")
        BY <2>2, <2>10, <3>3 DEF SizeBy
      <4>2. ASSUME NEW i \in n + 1 .. NSectors - 1 PROVE data'[Lba(a) + i] = Plain("zero")
        <5>1. i \in n .. NSectors - 1 /\ Lba(a) + i \in Int /\ Lba(a) + i # cur /\ Within(a, b, Lba(a) + i)
          BY <2>6, <2>7, <2>10 DEF Within
        <5>2. Lba(a) + i \in Sectors
          BY <5>1, WithinCard
        <5> QED
          BY <2>9, <4>1, <5>1, <5>2
      <4>3. \A i \in n + 1 .. NSectors - 1 : data'[Lba(dir'[slot].first) + i] = Plain("zero")
        BY <1>1, <2>2, <4>2
      <4> QED
        BY <1>1, <4>1, <4>3 DEF SizeBy, Lba, Plain
    <3> QED
      BY <3>2, <3>3
  <2>13. StoredBy(slot, b, n + 1)'
    <3>1. FileBy(dir[slot].name, dir[slot].first, b, n + 1)'
      BY <1>1, <2>2, <2>3, <2>11
    <3>2. (Lba(dir[slot].first) + NSectors <= Lba(b) + SecPerClus)'
      BY <1>1, <2>2, <2>10 DEF Lba
    <3> QED
      BY <2>12, <3>1, <3>2 DEF StoredBy
  <2>14. UseBody'
    <3>1. StoredBy(logfile.slot, b, logfile.written)'
      BY <2>9, <2>13
    <3>2. dir'[logfile'.slot].first = logfile'.first /\ dir'[logfile'.slot].name = logfile'.name
      BY <1>1, <2>2, <2>3, <2>9
    <3>3. (Lba(logfile.first))' = Lba(a) /\ (Lba(b))' = Lba(b)
      BY <2>9 DEF Lba
    <3>4. logfile'.cur = Lba(a) + logfile'.written /\ Lba(a) + NSectors <= logfile'.end
      BY <2>6, <2>7, <2>9
    <3> QED
      BY <1>1, <2>5, <2>9, <3>1, <3>2, <3>3, <3>4 DEF UseBody, Entries
  <2>15. /\ \A d \in a .. b : d \in FileChain(slot) /\ fat[1][d] # 0
         /\ ClusterOf(cur) \in FileChain(slot) /\ fat[1][ClusterOf(cur)] # 0
    BY <2>2, <2>5, <2>8, StoredChain DEF Chains
  <2>16. LogSlots' = LogSlots
    BY <1>1 DEF LogSlots
  <2>17. ASSUME NEW s \in LogSlots, s # slot PROVE \E c \in Entries : \E k \in Nat : StoredBy(s, c, k)'
    <3>1. PICK c \in Entries, k \in Nat : StoredBy(s, c, k)
      BY <2>17, AllStored DEF Laid
    <3>2. ClusterOf(cur) \notin FileChain(s)
      BY <2>15, <2>17 DEF Chains, ApartInv
    <3>3. PICK e \in Entries : e = dir[s].first
      BY DEF TypeInv, DirType
    <3>4. e # a
      BY <2>2, <2>17, <3>3, ChainsApart DEF Chains, TypeInv
    <3>5. /\ a \in Nat /\ a >= 2 /\ e \in Nat /\ e >= 2 /\ Lba(e) \in Nat
      BY LbaType, EntriesAre DEF Entries
    <3>6. Lba(e) # Lba(a)
      BY <3>4, <3>5, LbaOrder
    <3>7. cur # Lba(e) + n
      BY <2>6, <2>7, <3>5, <3>6
    <3>8. \A x \in Sectors :
             \/ data'[x] = data[x]
             \/ /\ ClusterOf(x) \notin FileChain(s) \/ fat[1][ClusterOf(x)] = 0
                /\ data'[x].kind = "log" => x # Lba(dir[s].first) + data'[x].at
      BY <2>9, <3>2, <3>3, <3>7
    <3>9. StoredBy(s, c, k)'
      BY <1>1, <3>1, <3>8, StoredApart DEF Chains
    <3> QED
      BY <3>9
  <2>18. StoredInv'
    BY <1>2, <2>9, <2>16, <2>17 DEF StoredInv, Entries
  <2>19. PlacedInv'
    <3>1. ASSUME NEW x \in Sectors, data'[x].kind = "log"
          PROVE  /\ fat[1][ClusterOf(x)] # 0
                 /\ \E e \in Entries : fat[1][e] # 0 /\ x = Lba(e) + data'[x].at
      <4>1. CASE x = cur
        <5>1. a \in a .. b
          BY <2>10, EntriesAre DEF FileBy, Straight
        <5>2. fat[1][a] # 0
          BY <2>15, <5>1
        <5>3. cur = Lba(a) + data'[cur].at
          BY <2>6, <2>9
        <5> QED
          BY <2>15, <4>1, <5>2, <5>3
      <4>2. CASE x # cur
        <5>1. data'[x] = data[x]
          BY <2>9, <4>2
        <5> QED
          BY <3>1, <5>1 DEF Laid, PlacedInv
      <4> QED
        BY <4>1, <4>2
    <3> QED
      BY <1>1, <3>1 DEF PlacedInv, Sectors, Entries, Lba, ClusterOf
  <2> QED
    BY <1>1, <1>2, <2>14, <2>18, <2>19 DEF Laid, UseInv, NewInv, AddInv
<1> QED
  BY <1>1, <1>5, <1>6

-----------------------------------------------------------------------------
(* What is logged stays where it belongs *)

\* A new card holds no file and nothing that was logged.
LEMMA LaidInitially ==
    ASSUME Init
    PROVE  Laid
<1>1. LogSlots = {}
  <2>1. \A s \in Slots : dir[s].kind # "log"
    BY DEF Init, NoEntry, Entry
  <2> QED
    BY <2>1 DEF LogSlots
<1>2. \A x \in Sectors : data[x].kind # "log"
  BY DEF Init, Plain
<1>3. pc = "off"
  BY DEF Init
<1> QED
  BY <1>1, <1>2, <1>3 DEF Laid, StoredInv, UseInv, PlacedInv, NewInv, Making, AddInv

\* What the exceptions are: once one has come about it stays.
LEMMA ExceptionsStay ==
    ASSUME TypeInv, [Next]_vars, ~ cut', ~ misplaced'
    PROVE  ~ cut /\ ~ misplaced
<1>1. cut' = cut \/ cut' = (cut \/ \E s \in Slots : dir[s].kind = "log" /\ ChainEnd(dir[s].first) = 0)
  BY DEF Next, PowerOn, BootWith, PowerOff, ConfigSave, OpenResume, ResumeAt, OpenCreate, Create,
         OpenFails, OpenWild, WriteFatEntry, ZeroFill, WriteDirEntry, CardRefuses, Extend,
         AppendSector, WriteSector, AppendWild, FlushDir, FlushRecord, TrimFree, TrimFull,
         vars, histVars
<1>2. CASE OpenResume
  BY <1>1, <1>2 DEF OpenResume, ResumeAt
<1>3. CASE ZeroFill
  BY <1>1, <1>3 DEF ZeroFill
<1>4. CASE ~ (OpenResume \/ ZeroFill)
  <2>1. misplaced' = misplaced
    BY <1>4 DEF Next, PowerOn, BootWith, PowerOff, ConfigSave, OpenCreate, Create,
         OpenFails, OpenWild, WriteFatEntry, WriteDirEntry, CardRefuses, Extend,
         AppendSector, WriteSector, AppendWild, FlushDir, FlushRecord, TrimFree, TrimFull,
         vars, histVars
  <2>2. {cut, misplaced} \subseteq BOOLEAN
    BY DEF TypeInv, EepromType
  <2> QED
    BY <1>1, <2>1, <2>2
<1> QED
  BY <1>2, <1>3, <1>4

\* Every step keeps what lies where.
LEMMA LaidPreserved ==
    ASSUME FreeTogether, TypeInv, NameInv, ChainInv, ContentInv, [Next]_vars
    PROVE  ContentInv'
<1>1. SUFFICES ASSUME ~ cut', ~ misplaced' PROVE Laid'
  BY DEF ContentInv
<1>2. Chains /\ Laid /\ ModeInv /\ PendingInv
  BY <1>1, ExceptionsStay DEF ChainInv, Chains, ContentInv, NameInv
<1>3. CASE PowerOn \/ PowerOff \/ ConfigSave \/ OpenFails \/ OpenWild \/ CardRefuses \/ AppendWild \/ FlushRecord
  BY <1>2, <1>3, LaidOthers
<1>4. CASE OpenResume
  BY <1>1, <1>2, <1>4, LaidResume
<1>5. CASE OpenCreate \/ Extend \/ WriteDirEntry
  BY <1>2, <1>5, LaidCreate, LaidExtend, LaidWriteDir
<1>6. CASE WriteFatEntry
  <2>1. mode \in {"create", "extend"}
    BY <1>2, <1>6 DEF ModeInv, WriteFatEntry
  <2> QED
    BY <1>2, <1>6, <2>1, LaidLink, LaidAdd
<1>7. CASE ZeroFill
  <2>1. mode \in {"create", "extend"}
    BY <1>2, <1>7 DEF ModeInv, ZeroFill
  <2> QED
    BY <1>1, <1>2, <1>7, <2>1, LaidZeroNew, LaidZeroAdd
<1>8. CASE AppendSector \/ FlushDir \/ TrimFree \/ TrimFull
  BY <1>2, <1>8, LaidAppend, LaidFlush, LaidTrim
<1>9. CASE UNCHANGED vars
  <2>1. /\ fat' = fat /\ dir' = dir /\ data' = data /\ logfile' = logfile /\ pc' = pc /\ mode' = mode
        /\ zero' = zero
    BY <1>9 DEF vars, cardVars, taskVars
  <2>2. /\ LogSlots' = LogSlots /\ (InUse' <=> InUse) /\ (Making' <=> Making)
        /\ \A s \in LogSlots : \A c \in Entries : \A k \in Nat : StoredBy(s, c, k) => StoredBy(s, c, k)'
    BY <2>1 DEF StoredBy, FileBy, SizeBy, Straight, Own, Within, Lba, Sectors, LogData, Plain, InUse, Active,
                Making, LogSlots, Slots
  <2>3. StoredInv'
    BY <1>2, <2>1, <2>2 DEF Laid, StoredInv, Entries
  <2>4. PlacedInv'
    BY <1>2, <2>1, PlacedKept DEF Laid
  <2>5. NewInv'
    BY <1>2, <2>1, <2>2 DEF Laid, NewInv, NewBody, Own, Within, Lba, Sectors, Plain, NClus
  <2>6. AddInv'
    BY <1>2, <2>1 DEF Laid, AddInv, AddBody, Sectors
  <2>7. UseInv'
    <3>1. PICK slot : slot = logfile.slot
      OBVIOUS
    <3>2. PICK n \in Nat : n = logfile.written
      BY DEF TypeInv, FileType, Logfiles
    <3>3. SUFFICES ASSUME InUse, slot \in LogSlots PROVE UseBody'
      BY <2>1, <2>2, <3>1 DEF UseInv
    <3>4. UseBody
      BY <1>2, <3>1, <3>3 DEF Laid, UseInv
    <3>5. PICK c \in Entries : c <= logfile.last /\ logfile.end <= Lba(c) + SecPerClus /\ StoredBy(slot, c, n)
      BY <3>1, <3>2, <3>4 DEF UseBody
    <3>6. StoredBy(slot, c, n)'
      BY <2>2, <3>3, <3>5
    <3>7. StoredBy(logfile.slot, c, logfile.written)'
      BY <2>1, <3>1, <3>2, <3>6
    <3> QED
      BY <2>1, <3>4, <3>5, <3>7 DEF UseBody, Lba, Entries
  <2> QED
    BY <2>3, <2>4, <2>5, <2>6, <2>7 DEF Laid
<1> QED
  BY <1>3, <1>4, <1>5, <1>6, <1>7, <1>8, <1>9 DEF Next

\* On a card whose free clusters are adjacent, what lies where is as the
\* invariant says, until one of the exceptions comes about.
LEMMA ContentAlways == ASSUME FreeTogether PROVE Spec => [](TypeInv /\ NameInv /\ ChainInv /\ ContentInv)
<1>1. TypeInv /\ NameInv /\ ChainInv /\ ContentInv /\ [Next]_vars => ContentInv'
  BY LaidPreserved
<1>2. Init => ContentInv
  BY LaidInitially DEF ContentInv
<1> QED
  BY <1>1, <1>2, ChainInvariant, PTL DEF Spec

\* The sectors of adjacent clusters follow one another in the file.
LEMMA StraightSector ==
    ASSUME fat[1] \in Tables, Rising(fat[1]), NEW a \in Entries, NEW c \in Entries, Straight(a, c),
           NEW i \in Nat, Lba(a) + i < Lba(c) + SecPerClus
    PROVE  FileSector(a, i) = Lba(a) + i
<1>1. PICK S \in Nat \ {0} : S = SecPerClus
  BY LbaType
<1>2. PICK p \in Nat, r \in 0 .. S - 1 : p = i \div S /\ r = i % S
  BY <1>1, DivMod
<1>3. i = (S * p) + r
  BY <1>2, DivMod
<1>4. a \in Nat /\ a >= 2 /\ c \in Nat /\ c >= 2
  BY EntriesAre DEF Entries
<1>5. PICK m \in Nat : m = a - 2
  BY <1>4
<1>6. PICK d \in Nat : d = a + p /\ d >= 2 /\ a <= d /\ d - a = p /\ d - 2 = m + p
  BY <1>4, <1>5
<1>7. (m + p) * S = (m * S) + (S * p) /\ m * S \in Nat /\ S * p \in Nat
  OBVIOUS
<1>8. Lba(d) = Lba(a) + (S * p) /\ Lba(a) \in Nat
  BY <1>1, <1>5, <1>6, <1>7 DEF Lba
<1>9. Lba(d) + r = Lba(a) + i /\ Lba(d) \in Nat /\ Lba(c) \in Nat
  BY <1>3, <1>4, <1>7, <1>8, LbaType
<1>10. d <= c
  <2>1. c < d => Lba(c) + SecPerClus <= Lba(d)
    BY <1>4, <1>6, LbaOrder
  <2> QED
    BY <1>1, <1>4, <1>6, <1>9, <2>1
<1>11. d \in a .. c
  BY <1>4, <1>6, <1>10
<1>12. Link(a)[p] = d
  BY <1>6, <1>11, StraightIsChain
<1> QED
  BY <1>1, <1>2, <1>9, <1>12 DEF FileSector

\* On a card on which no cluster of another file lies between two free ones, a
\* computer reads from every file what was logged to it, at its offset, and
\* zeros only from a file that no flush has closed.
THEOREM FileContentCorrect == ASSUME FreeTogether PROVE Spec => []FileContent
<1>1. ASSUME TypeInv, ChainInv, ContentInv PROVE FileContent
  <2>1. SUFFICES ASSUME ~ cut, ~ misplaced, NEW s \in LogSlots, NEW i \in 0 .. dir[s].size - 1
                 PROVE  LET content == data[FileSector(dir[s].first, i)]
                        IN \/ content = LogData(dir[s].name, i)
                           \/ dir[s].size = NSectors /\ content = Plain("zero")
    BY DEF FileContent
  <2>2. fat[1] \in Tables /\ Rising(fat[1]) /\ Laid /\ dir[s].size \in Nat
    BY <1>1, <2>1, SizesAssumption DEF ChainInv, Ordered, TypeInv, FatType, ContentInv, DirType, DirEntries,
                                       LogSlots
  <2>3. PICK c \in Entries, k \in Nat : StoredBy(s, c, k)
    BY <1>1, <2>2, AllStored DEF Laid
  <2>4. PICK a \in Entries : a = dir[s].first
    BY <1>1 DEF TypeInv, DirType
  <2>5. PICK name : name = dir[s].name
    OBVIOUS
  <2>6. FileBy(name, a, c, k) /\ Lba(a) + NSectors <= Lba(c) + SecPerClus /\ SizeBy(s, k)
    BY <2>3, <2>4, <2>5 DEF StoredBy
  <2>7. /\ Straight(a, c) /\ Lba(a) + k <= Lba(c) + SecPerClus
        /\ \A j \in 0 .. k - 1 : data[Lba(a) + j] = LogData(name, j)
    BY <2>6 DEF FileBy
  <2>8. Lba(a) \in Nat /\ Lba(c) \in Nat /\ SecPerClus \in Nat /\ NSectors \in Nat /\ i \in Nat
    BY <2>2, LbaType
  <2>9. CASE i < k
    <3>1. Lba(a) + i < Lba(c) + SecPerClus /\ i \in 0 .. k - 1
      BY <2>7, <2>8, <2>9
    <3>2. FileSector(a, i) = Lba(a) + i
      BY <2>2, <2>7, <2>8, <3>1, StraightSector
    <3> QED
      BY <2>4, <2>5, <2>7, <3>1, <3>2
  <2>10. CASE ~ (i < k)
    <3>1. dir[s].size = NSectors /\ \A j \in k .. NSectors - 1 : data[Lba(a) + j] = Plain("zero")
      BY <2>1, <2>2, <2>4, <2>6, <2>8, <2>10 DEF SizeBy
    <3>2. Lba(a) + i < Lba(c) + SecPerClus /\ i \in k .. NSectors - 1
      BY <2>1, <2>6, <2>8, <2>10, <3>1
    <3>3. FileSector(a, i) = Lba(a) + i
      BY <2>2, <2>7, <2>8, <3>2, StraightSector
    <3> QED
      BY <2>4, <3>1, <3>2, <3>3
  <2> QED
    BY <2>9, <2>10
<1> QED
  BY <1>1, ContentAlways, PTL

\* NeverOverwritten as far as it is proved: up to the first power loss between
\* the two FAT writes of an extension.
UncutStep == ~ cut' /\ ~ misplaced' /\ ~ TrimFull => KeepsLogged
NeverOverwrittenUncut == [][UncutStep]_vars

\* On such a card nothing that was logged is written again by any step but trim
\* full: not by the erasure and the zero-fill of a new file or of a cluster that
\* is added, nor by an append or by trim free.  This holds up to the first power
\* loss between the two FAT writes of an extension (cut), and up to the first
\* file that is resumed where its data does not end, or extended by a cluster
\* that is not the next one (misplaced); the latter do overwrite.
THEOREM NeverOverwrittenCorrect == ASSUME FreeTogether PROVE Spec => NeverOverwrittenUncut
<1>1. ASSUME TypeInv, NameInv, ChainInv, ContentInv, [Next]_vars, ~ cut', ~ misplaced', ~ TrimFull,
             NEW x \in Sectors, data[x].kind = "log"
      PROVE  data'[x] = data[x]
  <2>1. Chains /\ Laid /\ ModeInv
    BY <1>1, ExceptionsStay DEF ChainInv, Chains, ContentInv
  <2>2. CASE WriteFatEntry \/ ZeroFill
    <3>1. /\ pc \in {"link", "zero"} /\ mode \in {"create", "extend"} /\ zero[1] \in Nat /\ zero[2] \in Nat
      BY <1>1, <2>1, <2>2 DEF ModeInv, WriteFatEntry, ZeroFill, TypeInv, TaskType
    <3>2. x \in Nat /\ (data'[x] = data[x] \/ (zero[1] <= x /\ x < zero[2]))
      <4>1. CASE WriteFatEntry
        BY <4>1, LbaType DEF WriteFatEntry
      <4>2. CASE ZeroFill /\ x # zero[1]
        BY <1>1, <4>2, LbaType DEF ZeroFill, TypeInv, DataType
      <4>3. CASE ZeroFill /\ x = zero[1]
        <5>1. pc = "zero"
          BY <4>3 DEF ZeroFill
        <5>2. CASE mode = "create"
          BY <2>1, <3>1, <4>3, <5>1, <5>2, LbaType DEF Laid, NewInv, Making, NewBody
        <5>3. CASE mode = "extend"
          BY <2>1, <3>1, <4>3, <5>1, <5>3, LbaType DEF Chains, ExtendInv, ExtendBy
        <5> QED
          BY <3>1, <5>2, <5>3
      <4> QED
        BY <2>2, <4>1, <4>2, <4>3
    <3>3. CASE mode = "create"
      <4>1. Making /\ NewBody
        BY <2>1, <3>1, <3>3 DEF Making, Laid, NewInv
      <4>2. zero[1] <= x /\ x < zero[2] => Within(logfile.first, logfile.last, x)
        BY <1>1, <2>1, <4>1, NewPlace
      <4>3. ~ Within(logfile.first, logfile.last, x)
        BY <1>1, <4>1 DEF NewBody, Own
      <4> QED
        BY <3>2, <4>2, <4>3
    <3>4. CASE mode = "extend"
      <4>1. PICK c \in Entries : ExtendBy(c)
        BY <2>1, <3>1, <3>4 DEF Chains, ExtendInv
      <4>2. AddBody /\ zero[2] = Lba(c) + SecPerClus /\ Lba(c) <= zero[1] /\ Lba(c) \in Nat /\ SecPerClus \in Nat
        BY <2>1, <3>1, <3>4, <4>1, LbaType DEF Laid, AddInv, ExtendBy
      <4>3. zero[1] <= x /\ x < zero[2] => zero[2] - SecPerClus <= x
        BY <3>1, <3>2, <4>2
      <4> QED
        BY <1>1, <3>2, <4>2, <4>3 DEF AddBody
    <3> QED
      BY <3>1, <3>3, <3>4
  <2>3. CASE AppendSector
    <3>1. /\ logfile.cur \in Sectors
          /\ (pc = "run" /\ logfile.cur < logfile.end) \/ pc = "append"
          /\ data' = data \/ data' = [data EXCEPT ![logfile.cur] = LogData(logfile.name, logfile.written)]
      BY <2>3 DEF AppendSector, WriteSector
    <3>2. ActiveBody /\ InUse
      BY <2>1, <3>1 DEF Chains, ActiveInv, Active, InUse
    <3>3. UseBody /\ logfile.cur < logfile.end
      BY <2>1, <3>1, <3>2 DEF Laid, UseInv, ActiveBody, UseBody
    <3>4. PICK n \in Nat, end \in Nat, cur \in Sectors : n = logfile.written /\ end = logfile.end /\ cur = logfile.cur
      BY <1>1, <3>1 DEF TypeInv, FileType, Logfiles
    <3>5. PICK a \in Entries : a = logfile.first
      BY <1>1, <3>2 DEF ActiveBody, TypeInv, DirType
    <3>6. PICK b \in Entries : end <= Lba(b) + SecPerClus /\ StoredBy(logfile.slot, b, n)
      BY <3>3, <3>4 DEF UseBody
    <3>7. FileBy(logfile.name, a, b, n) /\ cur = Lba(a) + n /\ cur < end
      BY <3>3, <3>4, <3>5, <3>6 DEF UseBody, StoredBy
    <3>8. cur \in Nat /\ x \in Nat /\ Lba(a) \in Nat /\ Lba(b) \in Nat /\ SecPerClus \in Nat
      BY LbaType
    <3>9. Within(a, b, cur)
      BY <3>4, <3>6, <3>7, <3>8 DEF Within
    <3>10. x # cur
      <4>1. x = cur => x < Lba(a) + n
        BY <1>1, <3>7, <3>9 DEF FileBy, Own
      <4> QED
        BY <3>7, <3>8, <4>1
    <3> QED
      BY <1>1, <3>1, <3>4, <3>10 DEF TypeInv, DataType
  <2>4. CASE TrimFree
    <3>1. fat[1][ClusterOf(x)] # 0
      BY <1>1, <2>1 DEF Laid, PlacedInv
    <3> QED
      BY <1>1, <2>4, <3>1 DEF TrimFree
  <2>5. CASE ~ (WriteFatEntry \/ ZeroFill \/ AppendSector \/ TrimFree)
    <3>1. data' = data
      BY <1>1, <2>5 DEF Next, PowerOn, BootWith, PowerOff, ConfigSave, OpenResume, ResumeAt, OpenCreate, Create,
           OpenFails, OpenWild, WriteDirEntry, CardRefuses, Extend, AppendWild, FlushDir, FlushRecord,
           vars, cardVars
    <3> QED
      BY <3>1
  <2> QED
    BY <2>2, <2>3, <2>4, <2>5
<1>2. TypeInv /\ NameInv /\ ChainInv /\ ContentInv /\ [Next]_vars => [UncutStep]_vars
  BY <1>1 DEF UncutStep, KeepsLogged
<1> QED
  BY <1>2, ContentAlways, PTL DEF Spec, NeverOverwrittenUncut

=============================================================================
