------------------------------ MODULE SectorLog ------------------------------
(***************************************************************************)
(* What the capture path promises: a bounded buffer between the serial     *)
(* line and a file of whole sectors.  Bytes are numbered in the order they *)
(* are accepted.  A sector leaves the buffer when its bytes have all been  *)
(* accepted, oldest first, and is appended to the file or, if the storage  *)
(* refuses it, lost as a whole.  Nothing is reordered, repeated or torn.   *)
(***************************************************************************)
EXTENDS Integers, Sequences

CONSTANTS
    SECTOR,    \* bytes per sector
    CAPACITY   \* bytes the buffer holds

VARIABLES
    accepted,  \* bytes accepted so far
    consumed,  \* bytes that have left the buffer
    file       \* sectors of the file

Init == accepted = 0 /\ consumed = 0 /\ file = <<>>

Accept ==
    /\ accepted - consumed < CAPACITY
    /\ accepted' = accepted + 1
    /\ UNCHANGED <<consumed, file>>

SectorLeaves ==
    /\ accepted - consumed >= SECTOR
    /\ consumed' = consumed + SECTOR
    /\ UNCHANGED accepted

Commit ==
    /\ SectorLeaves
    /\ file' = Append(file, [i \in 0 .. SECTOR - 1 |-> consumed + i])

Lose ==
    /\ SectorLeaves
    /\ UNCHANGED file

Next == Accept \/ Commit \/ Lose

Spec == Init /\ [][Next]_<<accepted, consumed, file>>

=============================================================================
