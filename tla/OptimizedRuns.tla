---------------------------- MODULE OptimizedRuns ----------------------------
(***************************************************************************)
(* What the optimizer is for: its output, assembled, does what the source, *)
(* assembled, does; and what its analysis claims holds when the source is  *)
(* executed.  Both images run on the machine of Chip8, an instruction at a *)
(* time, for MAX_STEPS instructions; timers and keys rest.                 *)
(***************************************************************************)
EXTENDS Optimizer, SequencesExt

CONSTANTS  \* the rest of what Chip8 needs
  Font, Width, Height, INSTR_PER_TICK, BUDGET, CLOCK_CAP_FACTOR, KeysRotate, RandomBytes,
  MAX_STEPS

Cpu == INSTANCE Chip8 WITH ROMs <- {}
Asm == INSTANCE Assembler WITH
         line <- turn, pc <- turn, symbols <- labels, output <- result, MAX_SYMBOLS <- 2048

\* The image chip8-asm makes of the lines.
Image(lines) ==
  FlattenSeq([i \in DOMAIN lines |-> Asm!Bytes(lines[i], Layout(lines)[i], LabelsOf(lines))])

OpOf(m) == Cpu!OpAt(m.memory, m.pc)

\* The machine after each number of instructions; it stays where it fails.
Run(image) ==
  LET step(m) == IF Cpu!Faults(OpOf(m), m) THEN m
                 ELSE Cpu!Execute(OpOf(m), Cpu!Retire(m), CHOOSE b \in RandomBytes : TRUE)
      run[k \in 0 .. MAX_STEPS] == IF k = 0 THEN Cpu!Booted(image) ELSE step(run[k - 1])
  IN  run

\* A program ends as the repository's test programs do: by a RET too many.
Ended(m) == OpOf(m) = 238 /\ m.stack = << >>

Lit(m) == {p \in (0 .. Width - 1) \X (0 .. Height - 1) : p \in m.display}

Outcome(m) ==
  [ended |-> Ended(m), regs |-> m.regs, display |-> Lit(m), delay |-> m.delay, sound |-> m.sound]

\* LD x, a; LD x, b where the first is not dead: the second reads x, or the first is an
\* LD Vx, [I], which sets the registers below x too.
LiveLoad(l, next) ==
  /\ l.op = "LD" /\ next.op = "LD" /\ l.args[1] = next.args[1] /\ IsRegister(l.args[1])
  /\ \/ next.args[2] = l.args[1]
     \/ l.args[2] = Special("[I]") /\ l.args[1].v > 0

OverwritesLiveLoad ==
  \E i \in 1 .. Len(statements) - 1 : LiveLoad(statements[i].line, statements[i + 1].line)

\* How many bytes at I a line reads.
BytesRead(l) ==
  CASE l.op = "DRW" -> l.args[3].v
    [] l.op = "LD" /\ IsRegister(l.args[1]) /\ l.args[2] = Special("[I]") -> l.args[1].v + 1
    [] OTHER -> 0

\* The program reads its own instructions, which the rewrites change.
ReadsCode ==
  LET run == Run(Image(source)) IN
  \E k \in 0 .. MAX_STEPS :
    /\ HoldsInstruction(run[k].pc)
    /\ \E a \in run[k].addr .. run[k].addr + BytesRead(LineAt(run[k].pc)) - 1 :
         HoldsInstruction(a) \/ HoldsInstruction(a - 1)

\* What the program leaves when it ends, the optimized program leaves.
OutcomeKept ==
  LET before == Run(Image(source))[MAX_STEPS] IN
  Ended(before) => Outcome(Run(Image(result))[MAX_STEPS]) = Outcome(before)


(***************************************************************************)
(* The same of every program, as chip8opt.py:371 and the comment at :423   *)
(* ("An immediately overwritten pure load is dead") say it.  LD V1, V1     *)
(* reads what the load before it set: both lines go, and V1 is not loaded. *)
(* A program that reads its own code is not refused, and reads other code. *)
(***************************************************************************)
RewritesProven == phase = "done" => OutcomeKept

\* What a context claims of the machine that enters it.
ClaimedI(m, state) ==
  /\ state.i >= 0 => m.addr = state.i
  /\ IsDynamic(state.i) => m.addr >= -state.i - 2
Claimed(m, state) ==
  /\ \A r \in 0 .. 14 : state.regs[r] # Unknown => m.regs[r] = state.regs[r]
  /\ ClaimedI(m, state)

\* LD Vx, [I] with registers below x, which the analysis takes for unchanged.
LoadsSeveral(l) == l.op = "LD" /\ IsRegister(l.args[1]) /\ l.args[2] = Special("[I]") /\ l.args[1].v > 0

\* The execution has stayed in the lines of the source for k instructions.
InSource(run, k) == \A j \in 0 .. k - 1 : HoldsInstruction(run[j].pc)


(***************************************************************************)
(* chip8opt.py:4-6: the analysis is conservative: "when it cannot          *)
(* establish an address" it records a hazard "rather than guessing".  The  *)
(* address a context knows I to hold is the one I holds, in every          *)
(* execution.                                                              *)
(***************************************************************************)
AddressesEstablished ==
  phase = "done" =>
    LET run == Run(Image(source)) IN
    \A k \in 0 .. MAX_STEPS :
      InSource(run, k) => ClaimedI(run[k], incoming[Context(run[k].pc, run[k].stack)])
=============================================================================
