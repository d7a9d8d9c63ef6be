---------------------------- MODULE EepromFlashMC ----------------------------
(* Flash for TLC: a programmed bit stays programmed, so what is written and *)
(* what was there are combined bit by bit.                                  *)
EXTENDS EepromFlash, Bitwise

MCProgram(old, val) == old & val

=============================================================================
