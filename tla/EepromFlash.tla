---------------------------- MODULE EepromFlash ----------------------------
(***************************************************************************)
(* EEPROM emulated in one sector of flash (eeprom_flash.c), for the        *)
(* platforms without an EEPROM: a cache in RAM, and slots in flash that    *)
(* eeprom_flash_sync() fills in turn, the data first and a generation      *)
(* byte last.  Power may go between any two bytes.                         *)
(*                                                                         *)
(* The three flash operations belong to the platform and are not written   *)
(* yet; they are taken to do what flash memory does: programming a byte    *)
(* can clear bits and never sets one, only an erase sets them.             *)
(***************************************************************************)
EXTENDS Integers, FiniteSets, FiniteSetsExt

CONSTANTS
    NumSlots,      \* EEPROM_NUM_SLOTS: 15 in the code
    Bytes,         \* EEPROM_SIZE: 256 in the code
    Erased,        \* a data byte that is erased: 0xFF
    Unused,        \* a generation byte that is erased: 0xFF
    Program(_, _)  \* what flash holds after a byte is programmed over another

ASSUME SlotAssumption == NumSlots \in Nat \ {0, 1} /\ Bytes \in Nat \ {0}
ASSUME ByteAssumption == Erased \in Nat /\ Unused \in Nat /\ NumSlots <= Unused

\* Programming sets no bit, and writes any value into an erased byte.
ASSUME ProgramAssumption ==
    \A erased \in {Erased, Unused} : \A val \in 0 .. erased :
        /\ Program(erased, val) = val
        /\ \A old \in 0 .. erased : Program(old, val) \in 0 .. old

VARIABLES
    data,       \* data[s]: the bytes of slot s in flash
    gen,        \* gen[s]: its generation byte
    cache,      \* eeprom_cache
    dirty,      \* eeprom_dirty
    pc,         \* where eeprom_flash_sync() is
    from, to,   \* its current_slot and next_slot
    k,          \* bytes programmed
    committed,  \* history: the cache at the last sync that was completed
    reused,     \* history: a slot was programmed that was not erased
    torn        \* history: power was lost during a sync

flashVars == <<data, gen>>
ramVars   == <<cache, dirty>>
syncVars  == <<from, to, k>>
vars == <<flashVars, ramVars, pc, syncVars, committed, reused, torn>>

Slots == 0 .. NumSlots - 1
Addrs == 0 .. Bytes - 1
BlankSlot == [a \in Addrs |-> Erased]

Init ==
    /\ data = [s \in Slots |-> BlankSlot]
    /\ gen = [s \in Slots |-> Unused]
    /\ cache = [a \in Addrs |-> 0] /\ dirty = FALSE
    /\ pc = "off" /\ from = 0 /\ to = 0 /\ k = 0
    /\ committed = BlankSlot /\ reused = FALSE /\ torn = FALSE

\* (Names that start with Mut are mistakes one could make in the definition
\* that follows; each shows that a property notices it.)
MutNewestIsHighest ==
    IF \A s \in Slots : gen[s] = Unused THEN 0
    ELSE Min({s \in Slots : gen[s] # Unused /\ \A t \in Slots : gen[t] <= gen[s] \/ gen[t] = Unused})

\* find_current_gen(): the slot with the lowest generation, the first of them;
\* slot 0 if none is used.
CurrentGen ==
    IF \A s \in Slots : gen[s] = Unused THEN 0
    ELSE Min({s \in Slots : \A t \in Slots : gen[s] <= gen[t]})

\* eeprom_flash_init()
PowerOn ==
    /\ pc = "off"
    /\ cache' = data[CurrentGen] /\ dirty' = FALSE
    /\ pc' = "idle"
    /\ UNCHANGED <<flashVars, syncVars, committed, reused, torn>>

PowerOff ==
    /\ pc # "off"
    /\ pc' = "off"
    /\ cache' = [a \in Addrs |-> 0] /\ dirty' = FALSE
    /\ from' = 0 /\ to' = 0 /\ k' = 0
    /\ torn' = (torn \/ pc # "idle")
    /\ UNCHANGED <<flashVars, committed, reused>>

Put(a, v, marks) ==
    /\ pc = "idle"
    /\ cache' = [cache EXCEPT ![a] = v]
    /\ dirty' = (dirty \/ marks)
    /\ UNCHANGED <<flashVars, pc, syncVars, committed, reused, torn>>

\* eeprom_write_byte()
WriteByte == \E a \in Addrs, v \in 0 .. Erased : Put(a, v, TRUE)

MutUpdateByte == \E a \in Addrs, v \in 0 .. Erased : Put(a, v, cache[a] < v)

\* eeprom_update_byte(): dirty only if the byte changes.
UpdateByte == \E a \in Addrs, v \in 0 .. Erased : Put(a, v, cache[a] # v)

Start(next) ==
    /\ pc = "idle" /\ dirty
    /\ from' = CurrentGen
    /\ to' = next
    /\ IF to' = from'
         THEN /\ data' = [s \in Slots |-> BlankSlot]
              /\ gen' = [s \in Slots |-> Unused]
         ELSE UNCHANGED flashVars
    /\ pc' = "data" /\ k' = 0
    /\ reused' = (reused \/ \E s \in Slots \cap {next} : data'[s] # BlankSlot \/ gen'[s] # Unused)
    /\ UNCHANGED <<ramVars, committed, torn>>

MutSyncNoWrap == Start(CurrentGen + 1)

\* eeprom_flash_sync() with something to write: choose the slot that follows
\* the current one.  find_next_free_slot() erases the sector if that is the
\* current one itself.
SyncStart == Start((CurrentGen + 1) % NumSlots)

\* One byte of eeprom_flash_write_bytes(next_addr, eeprom_cache).
ProgramData ==
    /\ pc = "data"
    /\ data' = [data EXCEPT ![to][k] = Program(@, cache[k])]
    /\ k' = k + 1
    /\ pc' = IF k + 1 < Bytes THEN "data" ELSE "gen"
    /\ UNCHANGED <<gen, ramVars, from, to, committed, reused, torn>>

\* The generation byte: one less than the current one, as a byte.
NextGen == IF gen[from] = Unused THEN Unused - 1 ELSE (gen[from] - 1) % (Unused + 1)

\* The last step of eeprom_flash_sync().
ProgramGen ==
    /\ pc = "gen"
    /\ gen' = [gen EXCEPT ![to] = Program(@, NextGen)]
    /\ committed' = cache
    /\ dirty' = FALSE
    /\ pc' = "idle" /\ from' = 0 /\ to' = 0 /\ k' = 0
    /\ UNCHANGED <<data, cache, reused, torn>>

Next ==
    \/ PowerOn \/ PowerOff
    \/ WriteByte \/ UpdateByte
    \/ SyncStart \/ ProgramData \/ ProgramGen

Spec == Init /\ [][Next]_vars

-----------------------------------------------------------------------------
(* Properties *)

\* The types of the variables.
TypeOK ==
    /\ data \in [Slots -> [Addrs -> 0 .. Erased]]
    /\ gen \in [Slots -> 0 .. Unused]
    /\ cache \in [Addrs -> 0 .. Erased] /\ committed \in [Addrs -> 0 .. Erased]
    /\ {dirty, reused, torn} \subseteq BOOLEAN
    /\ pc \in {"off", "idle", "data", "gen"}
    /\ from \in Slots /\ to \in Slots /\ k \in 0 .. Bytes

\* At every moment, in the middle of a sync too, a restart would find exactly
\* what the last completed sync stored: a slot counts only once its generation
\* byte is there, and then it is the newest.  And when eeprom_flash_sync() has
\* nothing to do, there is nothing to lose.  This holds until a slot is
\* programmed for the second time, which happens when all were used, and after
\* a sync that was cut by a loss of power.
Recoverable ==
    ~ reused => /\ data[CurrentGen] = committed
                /\ pc # "off" /\ ~ dirty => cache = committed

\* A slot is programmed for the second time only if an earlier sync was cut, or
\* all of the slots hold a generation.
ReusedOnlyWhenFull == reused => torn \/ \A s \in Slots : gen[s] # Unused

=============================================================================
