---------------------------- MODULE MCInterrupts ----------------------------
(***************************************************************************)
(* Interrupts with a ring of two reads, a clock of two ticks, two          *)
(* instructions between safepoints, one hex key and the quit key.          *)
(***************************************************************************)
EXTENDS Interrupts

MCTypedKeys == {1, QUIT}
MCGuestKeys == {1}
=============================================================================
