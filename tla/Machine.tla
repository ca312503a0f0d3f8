------------------------------ MODULE Machine ------------------------------
(***************************************************************************)
(* What the BENCH builds promise to agree on: one instruction at a time,   *)
(* the 60 Hz timers counted down at every step, no caches and no           *)
(* compiler.  bench.h: "The engines then agree instruction-for-            *)
(* instruction".  Interp and TraceJit are shown to implement this module;  *)
(* when a run stops for lack of budget is theirs to decide.                *)
(***************************************************************************)
EXTENDS Integers, Sequences

CONSTANTS
  Address, Byte,     \* where and what memory holds
  Font,              \* the font bytes it starts with
  Booted(_),         \* the machine a ROM is started on
  OpAt(_, _),        \* the instruction at an address
  Faults(_, _),      \* whether it ends in an ERROR
  Execute(_, _, _),  \* what it does otherwise,
  RandomBytes,       \* with one of these for a random byte
  Retire(_),         \* an instruction counted
  SyncTimers(_)      \* the timers caught up with the clock

VARIABLES
  vm,       \* the machine of chip8.c, its timers level with the clock
  status    \* "running", or "fault" after an ERROR

vars == <<vm, status>>

\* Any ROM may have been loaded behind the font.
Init ==
  /\ vm = [Booted(<< >>) EXCEPT !.memory = vm.memory]
  /\ vm.memory \in [Address -> Byte]
  /\ \A a \in 1 .. Len(Font) : vm.memory[a - 1] = Font[a]
  /\ status = "running"

\* Count the instruction, then do what it does: it sees the clock it ends at.
Retired == SyncTimers(Retire(vm))
Op == OpAt(vm.memory, vm.pc)

Execution ==
  /\ status = "running"
  /\ ~Faults(Op, Retired)
  /\ \E random \in RandomBytes : vm' = SyncTimers(Execute(Op, Retired, random))
  /\ UNCHANGED status

Fault ==
  /\ status = "running"
  /\ Faults(Op, Retired)
  /\ vm' = Retired
  /\ status' = "fault"

Next == Execution \/ Fault

Spec == Init /\ [][Next]_vars
=============================================================================
