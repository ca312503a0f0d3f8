------------------------------ MODULE Terminal ------------------------------
(***************************************************************************)
(* What the interactive builds of the engines share: the ring of the last  *)
(* INPUT_TICKS reads of the keyboard, the wall clock's 60 Hz tick, and the *)
(* timers counted down by one when a new tick is noticed.  The interpreter *)
(* and the trace compilers hold the same code (interp.c, libgccjit_jit.c,  *)
(* llvm_jit.cpp); the module has no variables.                             *)
(***************************************************************************)
EXTENDS Integers

CONSTANTS
  INPUT_TICKS,        \* reads of the keyboard the ring remembers, 10
  TICKS_PER_SECOND    \* the tick counter wraps at this, 60

ASSUME RingAssumption ==
  /\ INPUT_TICKS \in Nat \ {0}
  /\ TICKS_PER_SECOND \in Nat /\ TICKS_PER_SECOND > 1

Keys == 0 .. 31         \* the bits of a key mask
HexKeys == 0 .. 15
QUIT == 31              \* q, Q or Escape

Ticks == 0 .. TICKS_PER_SECOND - 1
Slots == 0 .. INPUT_TICKS - 1
EmptyRing == [s \in Slots |-> {}]

\* all_keys_down
AllKeysDown(ring) == UNION {ring[s] : s \in Slots}

\* clear_key
ClearKey(ring, key) == [s \in Slots |-> ring[s] \ {key}]

\* load_on_key's loop over clear_key
ClearHexKeys(ring) == [s \in Slots |-> ring[s] \ HexKeys]

\* interrupt (): a new tick counts a timer down by one, however many ticks
\* have gone by since the last look.
CountedDown(timer, last, now) == IF now # last /\ timer > 0 THEN timer - 1 ELSE timer

\* Mutant: the slot runs on past the end of the ring.
NextSlotUnwrapped(slot) == slot + 1

NextSlot(slot) == (slot + 1) % INPUT_TICKS
NextTick(now) == (now + 1) % TICKS_PER_SECOND
=============================================================================
