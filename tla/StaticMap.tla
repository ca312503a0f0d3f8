------------------------------ MODULE StaticMap ------------------------------
(***************************************************************************)
(* The disassembler's map of a ROM beside the execution of the ROM: first  *)
(* disas.c runs to its end, then the program runs on any engine (Cpu).     *)
(* What the map calls code is compared with what is executed.              *)
(***************************************************************************)
EXTENDS Disassembler

CONSTANTS  \* the rest of what Cpu needs, see Chip8
  STACK_SIZE, Font, Width, Height, INSTR_PER_TICK, BUDGET, CLOCK_CAP_FACTOR, KeysRotate,
  RandomBytes

\* As Chip8 has it.
ASSUME MemoryAssumption == MEMORY_SIZE \in {16, 32, 64, 128, 256, 512, 1024, 2048, 4096}

ASSUME FontAssumption == Font \in Seq(0 .. 255) /\ Len(Font) <= ENTRYPOINT

VARIABLES
  vm,       \* the machine the program runs on
  status,
  trusted   \* history: only code of the map, unmodified, has been executed

Engine == INSTANCE Cpu

engine == <<vm, status>>

mapvars == <<vars, engine, trusted>>

MapInit ==
  /\ Init
  /\ vm = [pc |-> ENTRYPOINT, regs |-> [i \in 0 .. 15 |-> 0], addr |-> 0, stack |-> << >>,
           memory |-> Engine!LoadedMemory(rom), display |-> {}, delay |-> 0, sound |-> 0]
  /\ status = "running"
  /\ trusted = TRUE

Disassemble == ~Stopped /\ Next /\ UNCHANGED <<engine, trusted>>

\* The instruction executed is code of the map, and leaves the map's code alone.
OnTheMap ==
  /\ vm.pc \in CodeWords
  /\ Engine!Kind(Engine!Op) # "branch"
  /\ \A a \in reach : vm'.memory[a] = vm.memory[a]

Instruction ==
  /\ Stopped
  /\ Engine!Execution \/ Engine!KeySkip \/ Engine!KeyWait
  /\ trusted' = (trusted /\ OnTheMap)
  /\ UNCHANGED vars

\* The program ends with an error.
Failure == Stopped /\ UNCHANGED <<vars, vm, trusted>> /\ Engine!Fault

Ticks == Stopped /\ Engine!Countdown /\ vm' # vm /\ UNCHANGED <<vars, trusted>>

Faulted == status = "fault" /\ UNCHANGED mapvars

MapNext == Disassemble \/ Instruction \/ Failure \/ Ticks \/ Faulted

MapSpec == MapInit /\ [][MapNext]_mapvars

----------------------------------------------------------------------------
\* Addresses the engine is about to execute at, now or after a return.
Continuations == {vm.pc} \cup {vm.stack[i] : i \in DOMAIN vm.stack}

\* A word of the image that an engine executes,
Executable(a) == a \in ENTRYPOINT .. End - 2 /\ Engine!Kind(WordAt(a)) # "illegal"

\* and what disas.c leaves out of the map although it is one: words at odd
\* addresses, 0nnn (a jump to every engine), and 5xyn or 9xyn with n not 0.
Disowned(a) ==
  \/ a % 2 = 1
  \/ Nibble(WordAt(a)) = 0 /\ WordAt(a) \notin {224, 238}
  \/ Nibble(WordAt(a)) \in {5, 9} /\ N(WordAt(a)) # 0

(***************************************************************************)
(* The map is an over-approximation of execution: as long as a program has *)
(* executed code of the map only, has not overwritten it and has not       *)
(* jumped through V0, the next instruction, and the one at every return    *)
(* address on the stack, is code of the map again whenever the engine will *)
(* execute it from the image, but for the three forms disas.c disowns.     *)
(***************************************************************************)
MapCoversExecution ==
  Stopped /\ trusted =>
    \A a \in Continuations : Executable(a) => a \in CodeWords \/ Disowned(a)

(***************************************************************************)
(* disas.c:144, "follow every statically known control-flow path, marking  *)
(* executed bytes as code", and disas.c:324, "SYS is unsupported by this   *)
(* emulator": without those exceptions, an instruction that is executed    *)
(* from the image is code of the map.                                      *)
(***************************************************************************)
ExecutedIsCode == Stopped /\ trusted /\ Executable(vm.pc) => vm.pc \in CodeWords

(***************************************************************************)
(* disas.c:129: "If I is dynamic or the written range covers known code,   *)
(* the ROM may modify its own instructions".  A program the report does    *)
(* not warn of never overwrites the map's code.                            *)
(***************************************************************************)
UnwarnedCodeKept ==
  Stopped /\ ~smc_possible /\ ~indirect_jump_seen => \A a \in reach : vm.memory[a] = ByteAt(a)
=============================================================================
