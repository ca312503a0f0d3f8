-------------------------------- MODULE Cpu --------------------------------
(***************************************************************************)
(* What an interactive engine promises whatever its clock and its user do: *)
(* it executes the instruction that memory holds at the program counter,   *)
(* one after the other.  The timers may be counted down between any two    *)
(* instructions, and a key may be down or up whenever one is asked for.    *)
(***************************************************************************)
EXTENDS Chip8

VARIABLES
  vm,       \* the part of Chip8's machine that no clock is needed for
  status    \* "running", or "fault" after an ERROR

vars == <<vm, status>>

\* Any ROM may have been loaded behind the font.
Init ==
  /\ vm = [pc |-> ENTRYPOINT, regs |-> [i \in 0 .. 15 |-> 0], addr |-> 0, stack |-> << >>,
           memory |-> vm.memory, display |-> {}, delay |-> 0, sound |-> 0]
  /\ vm.memory \in [Address -> Byte]
  /\ \A a \in 1 .. Len(Font) : vm.memory[a - 1] = Font[a]
  /\ status = "running"

Op == OpAt(vm.memory, vm.pc)
KeyKinds == {"skip_key_down", "skip_key_up", "load_on_key"}

Running(kinds) ==
  status = "running" /\ Kind(Op) \in kinds /\ ~Faults(Op, vm) /\ UNCHANGED status

Execution ==
  /\ Running({Kind(Op)} \ KeyKinds)
  /\ \E random \in RandomBytes : vm' = Execute(Op, vm, random)

KeySkip ==
  /\ Running({"skip_key_down", "skip_key_up"})
  /\ \E hit \in BOOLEAN : vm' = SkipIf(vm, hit)

KeyWait ==
  /\ Running({"load_on_key"})
  /\ \E key \in 0 .. 15 : vm' = STEP(SetReg(vm, X(Op), key))

\* Both timers lose a tick, unless they stand at zero.
Countdown ==
  /\ vm' = [vm EXCEPT !.delay = CountDown(@, 1), !.sound = CountDown(@, 1)]
  /\ UNCHANGED status

\* Where the program counter is left is not promised.
Fault ==
  /\ status = "running"
  /\ Faults(Op, vm)
  /\ vm' = [vm EXCEPT !.pc = vm'.pc]
  /\ status' = "fault"

Next == Execution \/ KeySkip \/ KeyWait \/ Countdown \/ Fault

Spec == Init /\ [][Next]_vars
=============================================================================
