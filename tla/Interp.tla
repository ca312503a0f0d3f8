------------------------------- MODULE Interp -------------------------------
(***************************************************************************)
(* The interpreter of interp.c, as the BENCH build runs it: main's loop    *)
(* over basic_block.  Timers are counted down lazily: interrupt () in      *)
(* jump, call, retern and draw, and sync_timers () in the three timer      *)
(* instructions, are the only places that look at the clock.               *)
(***************************************************************************)
EXTENDS Chip8

VARIABLES
  vm,       \* the globals of chip8.c, bench_io.c and interp.c
  status    \* "running", "fault" after an ERROR, "done" after bench_done

vars == <<vm, status>>

Init ==
  /\ \E rom \in ROMs : vm = Booted(rom)
  /\ status = "running"

\* The handlers that call interrupt () or sync_timers () before anything else.
\* Mutant of SyncKinds: the timer instructions do not look at the clock.
SyncKindsWithoutTimers == {"jump", "retern", "call", "draw"}
SyncKinds == {"jump", "retern", "call", "draw"} \cup TimerKinds

Synced(op, m) == IF Kind(op) \in SyncKinds THEN SyncTimers(m) ELSE m

\* One turn of the loop: ++bench_retired, basic_block, bench_done.
BasicBlock ==
  LET op == OpAt(vm.memory, vm.pc)
      m  == Synced(op, Retire(vm))
  IN  /\ status = "running"
      /\ ~Faults(op, m)
      /\ \E random \in RandomBytes : vm' = Execute(op, m, random)
      /\ status' = IF BenchDone(vm') THEN "done" ELSE "running"

\* basic_block returns non-zero: the loop ends with the pc on the instruction.
Error ==
  LET op == OpAt(vm.memory, vm.pc)
      m  == Synced(op, Retire(vm))
  IN  /\ status = "running"
      /\ Faults(op, m)
      /\ vm' = m
      /\ status' = "fault"

Stopped == status # "running"

Halted == Stopped /\ UNCHANGED vars

Next == BasicBlock \/ Error \/ Halted

Spec == Init /\ [][Next]_vars

\* Weak fairness of Next, with the states in which it is enabled written out:
\* the processor goes on executing a program that has not stopped.
FairSpec == Spec /\ ([]<>Stopped \/ []<><<Next>>_vars)

----------------------------------------------------------------------------
\* bench_report levels the timers before it prints them.
Reported == SyncTimers(vm)

Abstract == INSTANCE Machine WITH
              vm <- Reported,
              status <- IF status = "fault" THEN "fault" ELSE "running"

TypeOK ==
  /\ vm \in Machines
  /\ status \in {"running", "fault", "done"}

(***************************************************************************)
(* Counting the timers down only where they are looked at (sync_timers)    *)
(* shows at every point what counting them at every instruction shows, and *)
(* every other part of the machine steps as the abstract machine does.     *)
(***************************************************************************)
ImplementsMachine == Abstract!Spec

(***************************************************************************)
(* bench_done stops main's loop on the very instruction that exhausts the  *)
(* budget or the clock.  Retiring a load_on_key and its first poll happen  *)
(* between two looks at the clock, so the cap may be passed by one unit.   *)
(***************************************************************************)
StopsOnBudget ==
  /\ vm.retired <= BUDGET
  /\ vm.retired + vm.poll_clock <= CLOCK_CAP + 1
  /\ status = "running" => ~BenchDone(vm)

(***************************************************************************)
(* The run always ends: every turn retires an instruction, and a load_on_  *)
(* key that no key answers is charged poll after poll up to the clock cap. *)
(***************************************************************************)
Terminates == <>Stopped
=============================================================================
