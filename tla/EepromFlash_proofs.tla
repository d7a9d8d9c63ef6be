------------------------- MODULE EepromFlash_proofs -------------------------
(***************************************************************************)
(* Proofs about EepromFlash, for every number and size of slots and every  *)
(* flash that programs as ProgramAssumption says.                          *)
(*                                                                         *)
(* Until a slot is used for the second time, the generations alone tell    *)
(* how many syncs were completed: the m-th wrote Unused - m into the slot  *)
(* m, and the last of a round into slot 0.  Ordered(m) says so, and the    *)
(* rest follows from it.                                                   *)
(***************************************************************************)
EXTENDS EepromFlash, WellFoundedInduction, TLAPS

USE SlotAssumption, ByteAssumption

Syncing == pc \in {"data", "gen"}

\* Where a sync is; while it runs, neither the cache nor the newest slot moves.
Progress ==
    /\ pc = "data" => k < Bytes
    /\ pc = "gen" => k = Bytes
    /\ Syncing => /\ dirty
                  /\ from = CurrentGen
                  /\ to = (CurrentGen + 1) % NumSlots

Typed == TypeOK /\ Progress

\* The sync that fills slot s, and the slot that the m-th sync fills.
Nth(s) == IF s = 0 THEN NumSlots ELSE s
At(m) == IF m = NumSlots THEN 0 ELSE m

\* The generations after m syncs.
Ordered(m) ==
    \A s \in Slots : gen[s] = IF Nth(s) <= m THEN Unused - Nth(s) ELSE Unused

\* The newest slot holds the last sync, and the slot being filled so much of
\* the cache as was programmed.
Stored(m) ==
    /\ data[At(m)] = committed
    /\ Syncing => /\ m < NumSlots /\ from = At(m) /\ to = At(m + 1)
                  /\ \A a \in Addrs : data[to][a] = IF a < k THEN cache[a] ELSE Erased

\* A clean cache is what the last sync stored.
Clean == pc # "off" /\ ~ dirty => cache = committed

\* Unless a sync was cut, slots without a generation are erased.
Fresh ==
    ~ torn => \A s \in Slots :
        gen[s] = Unused /\ ~ (Syncing /\ s = to) => data[s] = BlankSlot

InOrder == ~ reused => /\ \E m \in 0 .. NumSlots : Ordered(m) /\ Stored(m)
                       /\ Clean
                       /\ Fresh

Inv == Typed /\ InOrder /\ ReusedOnlyWhenFull

-----------------------------------------------------------------------------
(* Numbers and slots *)

Less == {p \in Nat \X Nat : p[1] < p[2]}

\* Every set of naturals that is not empty has a least member.
LEMMA LeastNumber ==
    ASSUME NEW T, T \subseteq Nat, T # {}
    PROVE  \E n \in T : \A m \in T : n <= m
<1>1. IsWellFoundedOn(Less, Nat)
  <2>1. Less = OpToRel(<, Nat)
    BY Zenon DEF OpToRel, Less
  <2> QED
    BY <2>1, NatLessThanWellFounded, Zenon
<1>2. \E x \in T : \A y \in T : ~ (<<y, x>> \in Less)
  BY <1>1, WFMin, Zenon
<1>3. PICK n \in T : \A m \in T : ~ (<<m, n>> \in Less)
  BY <1>2
<1>4. ASSUME NEW m \in T PROVE n <= m
  <2>1. ~ (<<m, n>> \in Less)
    BY <1>3
  <2>2. m \in Nat /\ n \in Nat
    OBVIOUS
  <2>3. ~ (m < n)
    BY <2>1, <2>2, Zenon DEF Less
  <2> QED
    BY <2>2, <2>3
<1> QED
  BY <1>4

\* find_next_free_slot() goes from slot to slot and never stays: with more than
\* one slot it never comes to erase the sector.
LEMMA NextSlot ==
    ASSUME NEW c \in Slots
    PROVE  /\ (c + 1) % NumSlots \in Slots
           /\ (c + 1) % NumSlots = IF c + 1 = NumSlots THEN 0 ELSE c + 1
           /\ (c + 1) % NumSlots # c
<1>1. (c + 1) % NumSlots = IF c + 1 = NumSlots THEN 0 ELSE c + 1
  BY DEF Slots
<1> QED
  BY <1>1 DEF Slots

\* find_current_gen() returns a slot.
LEMMA CurrentGenType ==
    ASSUME gen \in [Slots -> 0 .. Unused]
    PROVE  CurrentGen \in Slots
<1> DEFINE Lowest == {s \in Slots : \A t \in Slots : gen[s] <= gen[t]}
<1>1. 0 \in Slots
  BY DEF Slots
<1>2. PICK n \in {gen[s] : s \in Slots} : \A m \in {gen[s] : s \in Slots} : n <= m
  <2>1. {gen[s] : s \in Slots} \subseteq Nat /\ {gen[s] : s \in Slots} # {}
    BY <1>1
  <2> QED
    BY <2>1, LeastNumber
<1>3. Lowest # {} /\ Lowest \subseteq Nat
  <2>1. PICK s \in Slots : n = gen[s]
    BY <1>2
  <2>2. \A t \in Slots : gen[s] <= gen[t]
    BY <1>2, <2>1
  <2>3. s \in Lowest
    BY <2>1, <2>2
  <2>4. Slots \subseteq Nat
    BY DEF Slots
  <2> QED
    BY <2>3, <2>4
<1>4. \E s \in Lowest : \A t \in Lowest : s <= t
  <2> HIDE DEF Lowest
  <2> QED
    BY <1>3, LeastNumber
<1>5. Min(Lowest) \in Lowest
  BY <1>4, Zenon DEF Min
<1>6. Min(Lowest) \in Slots
  BY <1>5
<1> QED
  BY <1>1, <1>6 DEF CurrentGen

\* After m syncs it returns the slot that the m-th filled.
LEMMA CurrentIsLast ==
    ASSUME NEW m \in 0 .. NumSlots, Ordered(m), gen \in [Slots -> 0 .. Unused]
    PROVE  CurrentGen = At(m)
<1> DEFINE Lowest == {s \in Slots : \A t \in Slots : gen[s] <= gen[t]}
<1>1. CASE m = 0
  <2>1. \A s \in Slots : gen[s] = Unused
    BY <1>1 DEF Ordered, Nth, Slots
  <2> QED
    BY <2>1, <1>1 DEF CurrentGen, At
<1>2. CASE m # 0
  <2>1. At(m) \in Slots /\ Nth(At(m)) = m
    BY <1>2 DEF At, Nth, Slots
  <2>2. gen[At(m)] = Unused - m
    BY <2>1 DEF Ordered
  <2>3. \A s \in Slots : Nth(s) \in 1 .. NumSlots /\ (Nth(s) = m => s = At(m))
    BY DEF Nth, At, Slots
  <2>4. \A s \in Slots : gen[s] >= Unused - m /\ (gen[s] = Unused - m => s = At(m))
    BY <2>3, <1>2 DEF Ordered
  <2>5. Lowest = {At(m)}
    BY <2>1, <2>2, <2>4
  <2>6. Min({At(m)}) = At(m)
    BY <2>1 DEF Min, Slots
  <2>7. ~ \A s \in Slots : gen[s] = Unused
    BY <2>1, <2>2, <1>2
  <2> HIDE DEF Lowest
  <2>8. CurrentGen = Min(Lowest)
    BY <2>7 DEF CurrentGen, Lowest
  <2> QED
    BY <2>5, <2>6, <2>8
<1> QED
  BY <1>1, <1>2

\* So what a slot holds is decided by its generation.
LEMMA OrderedFree ==
    ASSUME NEW m \in 0 .. NumSlots, Ordered(m), gen \in [Slots -> 0 .. Unused]
    PROVE  /\ m < NumSlots => gen[At(m + 1)] = Unused
           /\ m = NumSlots => \A s \in Slots : gen[s] # Unused
BY DEF Ordered, At, Nth, Slots

\* A byte programmed over an erased one, or over any other.
LEMMA DataByte ==
    ASSUME NEW old \in 0 .. Erased, NEW val \in 0 .. Erased
    PROVE  Program(old, val) \in 0 .. Erased /\ Program(Erased, val) = val
<1>1. Program(old, val) \in 0 .. old /\ Program(Erased, val) = val
  BY ProgramAssumption
<1> QED
  BY <1>1

LEMMA GenByte ==
    ASSUME NEW old \in 0 .. Unused, NEW val \in 0 .. Unused
    PROVE  Program(old, val) \in 0 .. old /\ Program(Unused, val) = val
BY ProgramAssumption

\* The generation byte is a byte.
LEMMA NextGenType ==
    ASSUME gen \in [Slots -> 0 .. Unused], from \in Slots
    PROVE  NextGen \in 0 .. Unused
<1>1. PICK g \in 0 .. Unused : g = gen[from]
  OBVIOUS
<1>2. (g - 1) % (Unused + 1) \in 0 .. Unused
  OBVIOUS
<1> QED
  BY <1>1, <1>2 DEF NextGen

-----------------------------------------------------------------------------
(* Types, and where a sync is *)

LEMMA TypedInit == Init => Typed
<1> SUFFICES ASSUME Init PROVE Typed
  OBVIOUS
<1>1. 0 \in Slots /\ 0 \in 0 .. Bytes /\ 0 \in 0 .. Erased
  BY DEF Slots
<1>2. TypeOK
  <2>1. BlankSlot \in [Addrs -> 0 .. Erased] /\ Unused \in 0 .. Unused
    BY DEF BlankSlot
  <2>2. data \in [Slots -> [Addrs -> 0 .. Erased]] /\ gen \in [Slots -> 0 .. Unused]
    BY <2>1 DEF Init
  <2>3. cache \in [Addrs -> 0 .. Erased] /\ committed \in [Addrs -> 0 .. Erased]
    BY <1>1, <2>1 DEF Init
  <2> QED
    BY <1>1, <2>2, <2>3 DEF Init, TypeOK
<1>3. Progress
  BY DEF Init, Progress, Syncing
<1> QED
  BY <1>2, <1>3 DEF Typed

LEMMA TypedStep == Typed /\ [Next]_vars => Typed'
<1> SUFFICES ASSUME TypeOK, Progress, [Next]_vars PROVE TypeOK' /\ Progress'
  BY DEF Typed
<1>1. CurrentGen \in Slots
  BY CurrentGenType DEF TypeOK
<1>2. gen' = gen => CurrentGen' = CurrentGen
  BY DEF CurrentGen
<1>3. CASE UNCHANGED vars
  <2>1. TypeOK'
    BY <1>3 DEF TypeOK, vars, flashVars, ramVars, syncVars
  <2>2. Progress'
    BY <1>3, <1>2 DEF Progress, Syncing, vars, flashVars, ramVars, syncVars
  <2> QED
    BY <2>1, <2>2
<1>4. CASE PowerOn
  <2>1. cache' \in [Addrs -> 0 .. Erased]
    BY <1>1, <1>4 DEF PowerOn, TypeOK
  <2>2. TypeOK'
    BY <1>4, <2>1 DEF PowerOn, TypeOK, flashVars, syncVars
  <2> QED
    BY <1>4, <2>2 DEF PowerOn, Progress, Syncing
<1>5. CASE PowerOff
  <2>1. 0 \in Slots /\ 0 \in 0 .. Bytes /\ 0 \in 0 .. Erased
    BY DEF Slots
  <2>2. TypeOK'
    BY <1>5, <2>1 DEF PowerOff, TypeOK, flashVars
  <2> QED
    BY <1>5, <2>2 DEF PowerOff, Progress, Syncing
<1>6. ASSUME NEW a \in Addrs, NEW v \in 0 .. Erased, NEW marks \in BOOLEAN, Put(a, v, marks)
      PROVE  TypeOK' /\ Progress'
  <2>1. TypeOK'
    BY <1>6 DEF Put, TypeOK, flashVars, syncVars
  <2> QED
    BY <1>6, <2>1 DEF Put, Progress, Syncing
<1>7. CASE WriteByte
  BY <1>6, <1>7 DEF WriteByte
<1>8. CASE UpdateByte
  BY <1>6, <1>8 DEF UpdateByte
<1>9. CASE SyncStart
  <2>1. PICK next : next = (CurrentGen + 1) % NumSlots /\ Start(next)
    BY <1>9 DEF SyncStart
  <2>2. next \in Slots /\ next # CurrentGen
    BY <1>1, <2>1, NextSlot
  <2>3. data' = data /\ gen' = gen /\ cache' = cache /\ dirty' = dirty /\ dirty
    BY <2>1, <2>2 DEF Start, flashVars, ramVars
  <2>4. from' = CurrentGen /\ to' = next /\ pc' = "data" /\ k' = 0
    BY <2>1 DEF Start
  <2>5. 0 \in 0 .. Bytes /\ 0 < Bytes
    OBVIOUS
  <2>6. TypeOK'
    BY <1>1, <2>1, <2>2, <2>3, <2>4, <2>5 DEF Start, TypeOK
  <2>7. Progress'
    BY <1>2, <2>1, <2>3, <2>4, <2>5 DEF Progress, Syncing
  <2> QED
    BY <2>6, <2>7
<1>10. CASE ProgramData
  <2>1. k \in Addrs /\ to \in Slots
    <3>1. k \in Nat /\ k < Bytes /\ to \in Slots
      BY <1>10 DEF ProgramData, Progress, TypeOK
    <3> QED
      BY <3>1 DEF Addrs
  <2>2. Program(data[to][k], cache[k]) \in 0 .. Erased
    <3>1. data[to][k] \in 0 .. Erased /\ cache[k] \in 0 .. Erased
      BY <2>1 DEF TypeOK
    <3> QED
      BY <3>1, DataByte
  <2>3. data' \in [Slots -> [Addrs -> 0 .. Erased]]
    BY <1>10, <2>1, <2>2 DEF ProgramData, TypeOK
  <2>4. k' = k + 1 /\ k + 1 \in 0 .. Bytes
    <3>1. k \in Addrs => k + 1 \in 0 .. Bytes
      BY DEF Addrs
    <3> QED
      BY <1>10, <2>1, <3>1 DEF ProgramData
  <2>5. TypeOK'
    BY <1>10, <2>3, <2>4 DEF ProgramData, TypeOK, ramVars
  <2>6. (pc' = "data" => k + 1 < Bytes) /\ (pc' = "gen" => k + 1 = Bytes)
    BY <1>10, <2>4 DEF ProgramData
  <2>7. Progress'
    BY <1>10, <1>2, <2>4, <2>6 DEF ProgramData, Progress, Syncing, ramVars
  <2> QED
    BY <2>5, <2>7
<1>11. CASE ProgramGen
  <2>1. NextGen \in 0 .. Unused
    BY NextGenType DEF TypeOK
  <2>2. Program(gen[to], NextGen) \in 0 .. gen[to] /\ gen[to] \in 0 .. Unused
    BY <2>1, GenByte DEF TypeOK
  <2>3. Program(gen[to], NextGen) \in 0 .. Unused
    BY <2>2
  <2>4. 0 \in Slots /\ 0 \in 0 .. Bytes
    BY DEF Slots
  <2>5. TypeOK'
    BY <1>11, <2>3, <2>4 DEF ProgramGen, TypeOK
  <2> QED
    BY <1>11, <2>5 DEF ProgramGen, Progress, Syncing
<1> QED
  BY <1>3, <1>4, <1>5, <1>7, <1>8, <1>9, <1>10, <1>11 DEF Next

\* The types of the flash, of the cache and of a sync in progress.
THEOREM TypeCorrect == Spec => []TypeOK
<1>1. Typed => TypeOK
  BY DEF Typed
<1> QED
  BY <1>1, TypedInit, TypedStep, PTL DEF Spec

-----------------------------------------------------------------------------
(* Slots in order *)

\* A step that leaves flash and the running sync alone.
LEMMA OrderKept ==
    ASSUME NEW m \in 0 .. NumSlots, Ordered(m), UNCHANGED <<gen>>
    PROVE  Ordered(m)'
BY DEF Ordered

\* The end of a sync in order: one more generation.
LEMMA OrderGrows ==
    ASSUME NEW m \in 0 .. NumSlots - 1, gen \in [Slots -> 0 .. Unused], Ordered(m),
           to = At(m + 1), gen' = [gen EXCEPT ![to] = Unused - (m + 1)]
    PROVE  Ordered(m + 1)'
<1>1. to \in Slots /\ Nth(to) = m + 1
  BY DEF At, Nth, Slots
<1>2. \A s \in Slots : s # to => Nth(s) # m + 1 /\ Nth(s) \in Nat
  BY DEF At, Nth, Slots
<1>3. ASSUME NEW s \in Slots
      PROVE  gen'[s] = IF Nth(s) <= m + 1 THEN Unused - Nth(s) ELSE Unused
  <2>1. CASE s = to
    BY <1>1, <2>1
  <2>2. CASE s # to
    <3>1. gen'[s] = gen[s]
      BY <2>2
    <3>2. Nth(s) <= m + 1 <=> Nth(s) <= m
      BY <1>2, <2>2
    <3> QED
      BY <3>1, <3>2 DEF Ordered
  <2> QED
    BY <2>1, <2>2
<1> QED
  BY <1>3 DEF Ordered

\* and the generation byte that the code computes is that one.
LEMMA OrderedNextGen ==
    ASSUME NEW m \in 0 .. NumSlots - 1, gen \in [Slots -> 0 .. Unused], Ordered(m), from = At(m)
    PROVE  NextGen = Unused - (m + 1) /\ NextGen \in 0 .. Unused - 1
<1>1. m \in Slots /\ from = m
  BY DEF At, Slots
<1>2. CASE m = 0
  <2>1. gen[from] = Unused
    BY <1>1, <1>2 DEF Ordered, Nth
  <2> QED
    BY <1>2, <2>1 DEF NextGen
<1>3. CASE m # 0
  <2>1. gen[from] = Unused - m
    BY <1>1, <1>3 DEF Ordered, Nth
  <2>2. Unused - m # Unused /\ (Unused - m) - 1 \in 0 .. Unused - 1
    BY <1>3
  <2>3. \A x \in 0 .. Unused - 1 : x % (Unused + 1) = x
    OBVIOUS
  <2>4. NextGen = ((Unused - m) - 1) % (Unused + 1)
    BY <2>1, <2>2 DEF NextGen
  <2>5. NextGen = (Unused - m) - 1
    BY <2>2, <2>3, <2>4
  <2> QED
    BY <2>2, <2>5
<1> QED
  BY <1>2, <1>3

LEMMA InvInit == Init => Inv
<1> SUFFICES ASSUME Init PROVE Inv
  OBVIOUS
<1>1. Ordered(0) /\ Stored(0)
  <2>1. \A s \in Slots : Nth(s) > 0
    BY DEF Nth, Slots
  <2>2. At(0) = 0 /\ 0 \in Slots
    BY DEF At, Slots
  <2>3. Ordered(0)
    BY <2>1 DEF Init, Ordered, Nth, Slots
  <2>4. Stored(0)
    BY <2>2 DEF Init, Stored, Syncing
  <2> QED
    BY <2>3, <2>4
<1>2. Clean /\ Fresh /\ ReusedOnlyWhenFull
  BY DEF Init, Clean, Fresh, ReusedOnlyWhenFull
<1>3. 0 \in 0 .. NumSlots
  OBVIOUS
<1> QED
  BY <1>1, <1>2, <1>3, TypedInit DEF Inv, InOrder

\* Between syncs only flash and the last sync count.
LEMMA OrderStays ==
    ASSUME NEW m \in 0 .. NumSlots, Ordered(m) /\ Stored(m),
           gen' = gen, data' = data, committed' = committed, pc' \in {"off", "idle"}
    PROVE  Ordered(m)' /\ Stored(m)'
BY DEF Ordered, Stored, Syncing

LEMMA OrderAtStart ==
    ASSUME Typed, InOrder, SyncStart, ~ reused'
    PROVE  InOrder'
<1>1. /\ CurrentGen \in Slots
      /\ data \in [Slots -> [Addrs -> 0 .. Erased]]
      /\ gen \in [Slots -> 0 .. Unused]
  BY CurrentGenType DEF Typed, TypeOK
<1>2. PICK next : next = (CurrentGen + 1) % NumSlots /\ Start(next)
  BY DEF SyncStart
<1>3. /\ next \in Slots /\ next # CurrentGen
      /\ next = IF CurrentGen + 1 = NumSlots THEN 0 ELSE CurrentGen + 1
  BY <1>1, <1>2, NextSlot
<1>4. /\ UNCHANGED <<data, gen, cache, dirty, committed, torn>> /\ dirty
      /\ from' = CurrentGen /\ to' = next /\ pc' = "data" /\ k' = 0 /\ pc = "idle"
  BY <1>2, <1>3 DEF Start, flashVars, ramVars
<1>5. ~ reused /\ data[next] = BlankSlot /\ gen[next] = Unused
  BY <1>2, <1>3, <1>4 DEF Start
<1>6. PICK m \in 0 .. NumSlots : Ordered(m) /\ Stored(m)
  BY <1>5 DEF InOrder
<1>7. CurrentGen = At(m)
  BY <1>1, <1>6, CurrentIsLast
<1>8. m < NumSlots
  BY <1>1, <1>3, <1>5, <1>6, OrderedFree
<1>9. next = At(m + 1)
  BY <1>3, <1>7, <1>8 DEF At
<1>10. \A a \in Addrs : data'[to'][a] = IF a < k' THEN cache'[a] ELSE Erased
  BY <1>4, <1>5 DEF BlankSlot, Addrs
<1>11. Ordered(m)' /\ Stored(m)'
  <2>1. Ordered(m)'
    BY <1>4, <1>6 DEF Ordered
  <2>2. data'[At(m)] = committed'
    BY <1>4, <1>6 DEF Stored
  <2> QED
    BY <1>4, <1>7, <1>8, <1>9, <1>10, <2>1, <2>2 DEF Stored
<1>12. Clean'
  BY <1>4 DEF Clean
<1>13. Fresh'
  BY <1>4, <1>5 DEF InOrder, Fresh, Syncing
<1> QED
  BY <1>11, <1>12, <1>13 DEF InOrder

LEMMA OrderInData ==
    ASSUME Typed, InOrder, ProgramData, ~ reused'
    PROVE  InOrder'
<1>1. /\ data \in [Slots -> [Addrs -> 0 .. Erased]] /\ to \in Slots
      /\ cache \in [Addrs -> 0 .. Erased]
      /\ pc = "data" /\ k \in Addrs
      /\ UNCHANGED <<gen, cache, dirty, from, to, committed, reused, torn>>
      /\ dirty /\ k' = k + 1 /\ pc' \in {"data", "gen"}
  <2>1. pc = "data" /\ k' = k + 1 /\ pc' \in {"data", "gen"}
    BY DEF ProgramData
  <2>2. k \in Nat /\ k < Bytes /\ dirty
    BY <2>1 DEF Typed, TypeOK, Progress, Syncing
  <2>3. k \in Addrs
    BY <2>2 DEF Addrs
  <2> QED
    BY <2>1, <2>2, <2>3 DEF ProgramData, ramVars, Typed, TypeOK
<1>2. PICK m \in 0 .. NumSlots : Ordered(m) /\ Stored(m)
  BY <1>1 DEF InOrder
<1>3. /\ m < NumSlots /\ from = At(m) /\ to = At(m + 1) /\ data[At(m)] = committed
      /\ \A a \in Addrs : data[to][a] = IF a < k THEN cache[a] ELSE Erased
  BY <1>1, <1>2 DEF Stored, Syncing
<1>4. to # At(m)
  BY <1>3 DEF At
<1>5. data' = [data EXCEPT ![to] = [data[to] EXCEPT ![k] = cache[k]]]
  <2>1. data[to][k] = Erased /\ cache[k] \in 0 .. Erased
    BY <1>1, <1>3 DEF Addrs
  <2>2. Program(Erased, cache[k]) = cache[k]
    BY <2>1, DataByte
  <2> QED
    BY <1>1, <2>1, <2>2 DEF ProgramData
<1>6. Ordered(m)' /\ Stored(m)'
  <2>1. Ordered(m)'
    BY <1>1, <1>2 DEF Ordered
  <2>2. data'[At(m)] = committed'
    BY <1>1, <1>3, <1>4, <1>5 DEF At, Slots
  <2>3. ASSUME NEW a \in Addrs
        PROVE  data'[to][a] = IF a < k + 1 THEN cache[a] ELSE Erased
    <3>1. data'[to] = [data[to] EXCEPT ![k] = cache[k]] /\ data[to] \in [Addrs -> 0 .. Erased]
      BY <1>1, <1>5
    <3>2. CASE a = k
      BY <3>1, <3>2, <1>1 DEF Addrs
    <3>3. CASE a # k
      <4>1. data'[to][a] = data[to][a] /\ (a < k + 1 <=> a < k)
        BY <3>1, <3>3, <1>1 DEF Addrs
      <4> QED
        BY <4>1, <1>3
    <3> QED
      BY <3>2, <3>3
  <2> QED
    BY <1>1, <1>3, <2>1, <2>2, <2>3 DEF Stored
<1>7. Clean'
  BY <1>1 DEF Clean
<1>8. Fresh'
  <2>1. ASSUME NEW s \in Slots, ~ torn, gen[s] = Unused, s # to
        PROVE  data'[s] = BlankSlot
    <3>1. data'[s] = data[s]
      BY <2>1, <1>1, <1>5
    <3> QED
      BY <1>1, <2>1, <3>1 DEF InOrder, Fresh
  <2> QED
    BY <1>1, <2>1 DEF Fresh, Syncing
<1> QED
  BY <1>6, <1>7, <1>8 DEF InOrder

LEMMA OrderAtEnd ==
    ASSUME Typed, InOrder, ProgramGen, ~ reused'
    PROVE  InOrder'
<1>1. /\ gen \in [Slots -> 0 .. Unused] /\ to \in Slots
      /\ cache \in [Addrs -> 0 .. Erased] /\ data \in [Slots -> [Addrs -> 0 .. Erased]]
      /\ pc = "gen" /\ k = Bytes
      /\ UNCHANGED <<data, cache, reused, torn>> /\ committed' = cache
      /\ dirty' = FALSE /\ pc' = "idle"
  BY DEF ProgramGen, Typed, TypeOK, Progress
<1>2. PICK m \in 0 .. NumSlots : Ordered(m) /\ Stored(m)
  BY <1>1 DEF InOrder
<1>3. /\ m \in 0 .. NumSlots - 1 /\ from = At(m) /\ to = At(m + 1)
      /\ \A a \in Addrs : data[to][a] = cache[a]
  BY <1>1, <1>2 DEF Stored, Syncing, Addrs
<1>4. gen' = [gen EXCEPT ![to] = Unused - (m + 1)]
  <2>1. gen[to] = Unused
    BY <1>1, <1>2, <1>3, OrderedFree
  <2>2. NextGen = Unused - (m + 1) /\ NextGen \in 0 .. Unused
    BY <1>1, <1>2, <1>3, OrderedNextGen
  <2>3. Program(Unused, NextGen) = NextGen
    BY <2>2, GenByte
  <2> QED
    BY <2>1, <2>2, <2>3 DEF ProgramGen
<1>5. Ordered(m + 1)'
  BY <1>1, <1>2, <1>3, <1>4, OrderGrows
<1>6. Stored(m + 1)'
  <2>1. data[to] = cache
    BY <1>1, <1>3
  <2> QED
    BY <1>1, <1>3, <2>1 DEF Stored, Syncing
<1>7. m + 1 \in 0 .. NumSlots
  BY <1>3
<1>8. Clean'
  BY <1>1 DEF Clean
<1>9. Fresh'
  <2>1. ASSUME NEW s \in Slots, ~ torn, gen'[s] = Unused
        PROVE  data[s] = BlankSlot
    <3>1. s # to
      BY <1>1, <1>3, <1>4, <2>1
    <3>2. gen[s] = Unused
      BY <1>1, <1>4, <2>1, <3>1
    <3> QED
      BY <1>1, <2>1, <3>1, <3>2 DEF InOrder, Fresh
  <2> QED
    BY <1>1, <2>1 DEF Fresh
<1> QED
  BY <1>5, <1>6, <1>7, <1>8, <1>9 DEF InOrder

-----------------------------------------------------------------------------
(* The invariant *)

LEMMA InOrderStep == Typed /\ InOrder /\ [Next]_vars => InOrder'
<1> SUFFICES ASSUME Typed, InOrder, [Next]_vars, ~ reused' PROVE InOrder'
  BY DEF InOrder
<1>1. CASE SyncStart
  BY <1>1, OrderAtStart
<1>2. CASE ProgramData
  BY <1>2, OrderInData
<1>3. CASE ProgramGen
  BY <1>3, OrderAtEnd
<1>4. CASE UNCHANGED vars
  BY <1>4 DEF InOrder, Ordered, Stored, Clean, Fresh, Syncing, vars, flashVars, ramVars, syncVars
<1>5. ASSUME gen' = gen, data' = data, committed' = committed, reused' = reused,
             pc' \in {"off", "idle"}, Clean', Fresh'
      PROVE  InOrder'
  <2>1. PICK m \in 0 .. NumSlots : Ordered(m) /\ Stored(m)
    BY <1>5 DEF InOrder
  <2>2. Ordered(m)' /\ Stored(m)'
    BY <1>5, <2>1, OrderStays
  <2> QED
    BY <1>5, <2>2 DEF InOrder
<1>6. CASE PowerOn
  <2>1. PICK m \in 0 .. NumSlots : Ordered(m) /\ Stored(m)
    BY <1>6 DEF InOrder, PowerOn
  <2>2. CurrentGen = At(m)
    BY <2>1, CurrentIsLast DEF Typed, TypeOK
  <2>3. cache' = committed'
    BY <1>6, <2>1, <2>2 DEF PowerOn, Stored
  <2>4. Clean' /\ Fresh'
    BY <1>6, <2>3 DEF PowerOn, flashVars, InOrder, Clean, Fresh, Syncing
  <2> QED
    BY <1>5, <1>6, <2>4 DEF PowerOn, flashVars
<1>7. CASE PowerOff
  <2>1. Clean' /\ Fresh'
    BY <1>7 DEF PowerOff, flashVars, InOrder, Clean, Fresh, Syncing
  <2> QED
    BY <1>5, <1>7, <2>1 DEF PowerOff, flashVars
<1>8. ASSUME NEW a \in Addrs, NEW v \in 0 .. Erased, NEW marks \in BOOLEAN, Put(a, v, marks),
             cache[a] # v => marks
      PROVE  InOrder'
  <2>1. Fresh'
    BY <1>8 DEF Put, flashVars, InOrder, Fresh, Syncing
  <2>2. Clean'
    <3>1. ASSUME ~ dirty' PROVE cache' = committed
      <4>1. ~ dirty /\ ~ marks /\ pc = "idle" /\ cache[a] = v
        BY <1>8, <3>1 DEF Put
      <4>2. cache' = cache
        BY <1>8, <4>1 DEF Put, Typed, TypeOK
      <4> QED
        BY <1>8, <4>1, <4>2 DEF Put, InOrder, Clean
    <3> QED
      BY <1>8, <3>1 DEF Put, Clean
  <2> QED
    BY <1>5, <1>8, <2>1, <2>2 DEF Put, flashVars
<1>9. CASE WriteByte
  BY <1>8, <1>9 DEF WriteByte
<1>10. CASE UpdateByte
  BY <1>8, <1>10 DEF UpdateByte
<1> QED
  BY <1>1, <1>2, <1>3, <1>4, <1>6, <1>7, <1>9, <1>10 DEF Next

\* The first second use of a slot: the syncs have gone through all of them.
LEMMA ReuseStep == Inv /\ [Next]_vars => ReusedOnlyWhenFull'
<1> SUFFICES ASSUME Inv, [Next]_vars, reused', ~ torn'
             PROVE  \A s \in Slots : gen'[s] # Unused
  BY DEF ReusedOnlyWhenFull
<1>1. gen \in [Slots -> 0 .. Unused] /\ to \in Slots /\ from \in Slots /\ CurrentGen \in Slots
  BY CurrentGenType DEF Inv, Typed, TypeOK
<1>2. ASSUME reused, ~ torn, NEW s \in Slots PROVE gen[s] # Unused
  BY <1>2 DEF Inv, ReusedOnlyWhenFull
<1>3. CASE UNCHANGED <<gen, reused>> /\ ~ torn
  BY <1>2, <1>3
<1>4. CASE SyncStart
  <2>1. PICK next : next = (CurrentGen + 1) % NumSlots /\ Start(next)
    BY <1>4 DEF SyncStart
  <2>2. /\ next \in Slots /\ next # CurrentGen
        /\ next = IF CurrentGen + 1 = NumSlots THEN 0 ELSE CurrentGen + 1
    BY <1>1, <2>1, NextSlot
  <2>3. UNCHANGED <<gen, data, torn>> /\ pc = "idle"
    BY <2>1, <2>2 DEF Start, flashVars
  <2>4. CASE reused
    BY <1>2, <2>3, <2>4
  <2>5. CASE ~ reused
    <3>1. PICK m \in 0 .. NumSlots : Ordered(m) /\ Stored(m)
      BY <2>5 DEF Inv, InOrder
    <3>2. Fresh
      BY <2>5 DEF Inv, InOrder
    <3>3. gen[next] # Unused
      <4>1. data[next] # BlankSlot \/ gen[next] # Unused
        BY <2>1, <2>2, <2>3, <2>5 DEF Start
      <4>2. ~ torn
        BY <2>3
      <4> QED
        BY <2>2, <2>3, <3>2, <4>1, <4>2 DEF Fresh, Syncing
    <3>4. CurrentGen = At(m)
      BY <1>1, <3>1, CurrentIsLast
    <3>5. m < NumSlots => next = At(m + 1)
      BY <2>2, <3>4 DEF At
    <3>6. m = NumSlots
      BY <1>1, <3>1, <3>3, <3>5, OrderedFree
    <3> QED
      BY <1>1, <2>3, <3>1, <3>6, OrderedFree
  <2> QED
    BY <2>4, <2>5
<1>5. CASE ProgramGen
  <2>1. NextGen \in 0 .. Unused
    BY <1>1, NextGenType
  <2>2. gen[to] \in 0 .. Unused /\ Program(gen[to], NextGen) \in 0 .. gen[to]
    BY <1>1, <2>1, GenByte
  <2>3. \A s \in Slots : gen[s] # Unused
    BY <1>2, <1>5 DEF ProgramGen
  <2>4. Program(gen[to], NextGen) # Unused
    BY <1>1, <2>2, <2>3
  <2> QED
    BY <1>1, <1>5, <2>3, <2>4 DEF ProgramGen
<1>6. CASE PowerOn
  BY <1>3, <1>6 DEF PowerOn, flashVars
<1>7. CASE PowerOff
  BY <1>3, <1>7 DEF PowerOff, flashVars
<1>8. CASE WriteByte \/ UpdateByte
  BY <1>3, <1>8 DEF WriteByte, UpdateByte, Put, flashVars
<1>9. CASE ProgramData
  BY <1>3, <1>9 DEF ProgramData
<1>10. CASE UNCHANGED vars
  BY <1>3, <1>10 DEF vars, flashVars
<1> QED
  BY <1>4, <1>5, <1>6, <1>7, <1>8, <1>9, <1>10 DEF Next

LEMMA InvAlways == Spec => []Inv
<1>1. Inv /\ [Next]_vars => Inv'
  BY TypedStep, InOrderStep, ReuseStep DEF Inv
<1> QED
  BY <1>1, InvInit, PTL DEF Spec

\* At every moment a restart would find exactly what the last completed sync
\* stored, and a clean cache is that, until a slot is used a second time.
THEOREM RestartFindsLastSync == Spec => []Recoverable
<1>1. Inv => Recoverable
  <2> SUFFICES ASSUME Inv, ~ reused
               PROVE  data[CurrentGen] = committed /\ (pc # "off" /\ ~ dirty => cache = committed)
    BY DEF Recoverable
  <2>1. PICK m \in 0 .. NumSlots : Ordered(m) /\ Stored(m)
    BY DEF Inv, InOrder
  <2>2. CurrentGen = At(m)
    BY <2>1, CurrentIsLast DEF Inv, Typed, TypeOK
  <2> QED
    BY <2>1, <2>2 DEF Inv, InOrder, Clean, Stored
<1> QED
  BY <1>1, InvAlways, PTL

\* A slot is used for the second time only after a sync that was cut, or when
\* every slot holds a generation.
THEOREM SlotsUsedInTurn == Spec => []ReusedOnlyWhenFull
<1>1. Inv => ReusedOnlyWhenFull
  BY DEF Inv
<1> QED
  BY <1>1, InvAlways, PTL

\* find_next_free_slot() means to erase the sector when it is full; with more
\* than one slot the condition it tests is never met, and no step of the code
\* erases anything.
THEOREM NeverErased == Spec => [][SyncStart => UNCHANGED flashVars]_vars
<1>1. Inv /\ [Next]_vars => [SyncStart => UNCHANGED flashVars]_vars
  <2> SUFFICES ASSUME Inv, SyncStart PROVE UNCHANGED flashVars
    OBVIOUS
  <2>1. CurrentGen \in Slots
    BY CurrentGenType DEF Inv, Typed, TypeOK
  <2>2. (CurrentGen + 1) % NumSlots # CurrentGen
    BY <2>1, NextSlot
  <2> QED
    BY <2>2 DEF SyncStart, Start
<1> QED
  BY <1>1, InvAlways, PTL DEF Spec
=============================================================================
