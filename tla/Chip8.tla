------------------------------- MODULE Chip8 -------------------------------
(***************************************************************************)
(* The CHIP-8 machine every engine of the repository executes: the state   *)
(* of chip8.c, the instruction decoder and the handlers of interp.c, and,  *)
(* for the deterministic BENCH builds, the virtual clock and the synthetic *)
(* keyboard of bench_io.c.  The module has no variables: the machine is a  *)
(* record, and a handler is an operator from a machine to a machine, so    *)
(* that the interpreter and the trace compiler share one definition of     *)
(* what an instruction does.                                               *)
(*                                                                         *)
(* The stack array and the stack pointer are one sequence, the framebuffer *)
(* is the set of its lit pixels, a key bitmap is the set of the keys down. *)
(* The address field of an instruction is as wide as MEMORY_SIZE (12 bits  *)
(* at the real size), so that a small memory keeps every jump inside it.   *)
(***************************************************************************)
EXTENDS Integers, Sequences, FiniteSets

CONSTANTS
  MEMORY_SIZE,        \* bytes of memory, 0x1000 in chip8.h
  STACK_SIZE,         \* return addresses the stack holds, 0x10 in chip8.h
  ENTRYPOINT,         \* where a ROM is loaded and entered, 0x200 in chip8.h
  Font,               \* the font bytes the memory starts with
  ROMs,               \* the ROM images a run may be started on
  Width, Height,      \* the framebuffer: 64 and 32
  INSTR_PER_TICK,     \* virtual clock units per 60 Hz tick, 2000 in bench.h
  BUDGET,             \* --instructions
  CLOCK_CAP_FACTOR,   \* hard stop on the virtual clock, 64 times the budget
  KeysRotate,         \* --keys rotate (TRUE) or none (FALSE)
  RandomBytes         \* the values rand () & 0xff may take

Byte == 0 .. 255
Word == {n \in Nat : n < 65536}
Address == 0 .. MEMORY_SIZE - 1
Keys == 0 .. 31

ASSUME SizesAssumption ==
  /\ MEMORY_SIZE \in {16, 32, 64, 128, 256, 512, 1024, 2048, 4096}
  /\ STACK_SIZE \in Nat \ {0}
  /\ ENTRYPOINT \in Address
  /\ Width \in Nat \ {0}
  /\ Height \in Nat \ {0}

ASSUME ContentsAssumption ==
  /\ Font \in Seq(Byte)
  /\ Len(Font) <= ENTRYPOINT
  /\ \A rom \in ROMs : rom \in Seq(Byte) /\ Len(rom) <= MEMORY_SIZE - ENTRYPOINT
  /\ RandomBytes \subseteq Byte

\* rand () always answers.
ASSUME RandomAssumption == RandomBytes # {}

ASSUME BenchAssumption ==
  /\ INSTR_PER_TICK \in Nat \ {0}
  /\ BUDGET \in Nat \ {0}
  /\ CLOCK_CAP_FACTOR \in Nat \ {0}
  /\ KeysRotate \in BOOLEAN

----------------------------------------------------------------------------
\* The machine.

\* Its return addresses, never more than the array has places.
Stacks == {s \in Seq(Word) : Len(s) <= STACK_SIZE}

Machines ==
  [pc: Word, regs: [0 .. 15 -> Byte], addr: Word, stack: Stacks,
   memory: [Address -> Byte], display: SUBSET ((0 .. Width - 1) \X (0 .. Height - 1)),
   delay: Byte, sound: Byte, last_tick: Nat,
   retired: Nat, poll_clock: Nat, cleared: SUBSET Keys, cleared_tick: Nat \cup {-1}]

\* chip8.c's memory with the font in place, after main has read the ROM.
LoadedMemory(rom) ==
  [a \in Address |->
     IF a < Len(Font) THEN Font[a + 1]
     ELSE IF a - ENTRYPOINT + 1 \in 1 .. Len(rom) THEN rom[a - ENTRYPOINT + 1]
     ELSE 0]

\* The machine main () hands to its loop.
Booted(rom) ==
  [pc |-> ENTRYPOINT, regs |-> [i \in 0 .. 15 |-> 0], addr |-> 0, stack |-> << >>,
   memory |-> LoadedMemory(rom), display |-> {},
   delay |-> 0, sound |-> 0, last_tick |-> 0,
   retired |-> 0, poll_clock |-> 0, cleared |-> {}, cleared_tick |-> -1]

\* MEM_AT and OPCODE_AT: every access wraps into the address space.
Wrap(a) == a % MEMORY_SIZE
OpAt(memory, a) == 256 * memory[Wrap(a)] + memory[Wrap(a + 1)]

----------------------------------------------------------------------------
\* The fields of an instruction, and which handler it selects.

X(op) == (op \div 256) % 16
Y(op) == (op \div 16) % 16
IMMEDIATE4(op) == op % 16
IMMEDIATE8(op) == op % 256
IMMEDIATE12(op) == op % MEMORY_SIZE

ArithmeticKind(n) ==
  CASE n = 0 -> "move" [] n = 1 -> "or" [] n = 2 -> "and" [] n = 3 -> "xor"
    [] n = 4 -> "add_register" [] n = 5 -> "sub_register" [] n = 6 -> "shift_right"
    [] n = 7 -> "subn_register" [] n = 14 -> "shift_left"
    [] OTHER -> "illegal"

MiscKind(kk) ==
  CASE kk = 7 -> "get_delay_timer"    [] kk = 10 -> "load_on_key"
    [] kk = 21 -> "set_delay_timer"   [] kk = 24 -> "set_sound_timer"
    [] kk = 30 -> "add_addr"          [] kk = 41 -> "load_sprite_addr"
    [] kk = 51 -> "store_bcd"         [] kk = 85 -> "save_registers"
    [] kk = 101 -> "restore_registers"
    [] OTHER -> "illegal"

\* basic_block: 00E0 and 00EE first, every other 0nnn is a jump.
Kind(op) ==
  LET nibble == op \div 4096 IN
  CASE op = 224 -> "clearscreen"
    [] op = 238 -> "retern"
    [] op \notin {224, 238} /\ nibble \in {0, 1} -> "jump"
    [] nibble = 2 -> "call"
    [] nibble = 3 -> "skip_eq_immediate"
    [] nibble = 4 -> "skip_neq_immediate"
    [] nibble = 5 -> "skip_eq_register"
    [] nibble = 6 -> "load_immediate"
    [] nibble = 7 -> "add_immediate"
    [] nibble = 8 -> ArithmeticKind(op % 16)
    [] nibble = 9 -> "skip_neq_register"
    [] nibble = 10 -> "load_addr_immediate"
    [] nibble = 11 -> "branch"
    [] nibble = 12 -> "random_byte"
    [] nibble = 13 -> "draw"
    [] nibble = 14 /\ op % 256 = 158 -> "skip_key_down"
    [] nibble = 14 /\ op % 256 = 161 -> "skip_key_up"
    [] nibble = 15 -> MiscKind(op % 256)
    [] OTHER -> "illegal"

----------------------------------------------------------------------------
\* The virtual clock, the lazily counted timers and the synthetic keyboard.

Tick(m) == (m.retired + m.poll_clock) \div INSTR_PER_TICK
\* Mutant of Retire: the instruction is not counted.
RetireUncounted(m) == m
Retire(m) == [m EXCEPT !.retired = @ + 1]
CLOCK_CAP == BUDGET * CLOCK_CAP_FACTOR
\* Mutant of BenchDone: the budget is overrun by one.
BenchDoneLate(m) == m.retired > BUDGET \/ m.retired + m.poll_clock >= CLOCK_CAP
BenchDone(m) == m.retired >= BUDGET \/ m.retired + m.poll_clock >= CLOCK_CAP

CountDown(timer, elapsed) == IF timer > elapsed THEN timer - elapsed ELSE 0

\* sync_timers: catch both timers up with the virtual clock.
SyncTimers(m) ==
  LET elapsed == Tick(m) - m.last_tick IN
  IF elapsed > 0
  THEN [m EXCEPT !.delay = CountDown(@, elapsed), !.sound = CountDown(@, elapsed),
                 !.last_tick = Tick(m)]
  ELSE m

\* bench_roll_tick: a clear is forgotten with the tick it was made in.
Cleared(m) == IF m.cleared_tick = Tick(m) THEN m.cleared ELSE {}

\* bench_keys_now: key (t / 4) % 16, held for the first two ticks of four.
KeysDown(m) ==
  IF KeysRotate /\ Tick(m) % 4 < 2 THEN {(Tick(m) \div 4) % 16} \ Cleared(m) ELSE {}

ClearKeys(m, keys) ==
  [m EXCEPT !.cleared = Cleared(m) \cup keys, !.cleared_tick = Tick(m)]

----------------------------------------------------------------------------
\* The handlers.

At(m, a) == [m EXCEPT !.pc = a % 65536]
STEP(m) == At(m, m.pc + 2)
SkipIf(m, condition) == IF condition THEN At(m, m.pc + 4) ELSE STEP(m)
SetReg(m, x, byte) == [m EXCEPT !.regs[x] = byte]

\* A result in Vx first, then the flag in VF: with x = 15 the flag wins.
SetRegFlag(m, x, byte, flag) == [m EXCEPT !.regs = [[@ EXCEPT ![x] = byte] EXCEPT ![15] = flag]]

Flag(condition) == IF condition THEN 1 ELSE 0

PowerOfTwo == [i \in 0 .. 7 |-> <<1, 2, 4, 8, 16, 32, 64, 128>>[i + 1]]
BitSet(byte, i) == (byte \div PowerOfTwo[i]) % 2 = 1
ByteOf(bit(_)) ==
  Flag(bit(0)) + 2 * Flag(bit(1)) + 4 * Flag(bit(2)) + 8 * Flag(bit(3))
    + 16 * Flag(bit(4)) + 32 * Flag(bit(5)) + 64 * Flag(bit(6)) + 128 * Flag(bit(7))
BitOr(a, b) == ByteOf(LAMBDA i : BitSet(a, i) \/ BitSet(b, i))
BitAnd(a, b) == ByteOf(LAMBDA i : BitSet(a, i) /\ BitSet(b, i))
BitXor(a, b) == ByteOf(LAMBDA i : BitSet(a, i) # BitSet(b, i))

Arithmetic(op, m) ==
  LET x  == X(op)
      vx == m.regs[x]
      vy == m.regs[Y(op)]
      kind == Kind(op)
  IN  CASE kind = "move" -> SetReg(m, x, vy)
        [] kind = "or"   -> SetReg(m, x, BitOr(vx, vy))
        [] kind = "and"  -> SetReg(m, x, BitAnd(vx, vy))
        [] kind = "xor"  -> SetReg(m, x, BitXor(vx, vy))
        [] kind = "add_register"  -> SetRegFlag(m, x, (vx + vy) % 256, Flag(vx + vy > 255))
        [] kind = "sub_register"  -> SetRegFlag(m, x, (vx - vy) % 256, Flag(vx >= vy))
        [] kind = "shift_right"   -> SetRegFlag(m, x, vx \div 2, vx % 2)
        [] kind = "subn_register" -> SetRegFlag(m, x, (vy - vx) % 256, Flag(vy >= vx))
        [] kind = "shift_left"    -> SetRegFlag(m, x, (2 * vx) % 256, vx \div 128)

ArithmeticKinds ==
  {"move", "or", "and", "xor", "add_register", "sub_register", "shift_right",
   "subn_register", "shift_left"}

\* The skips that compare registers.
SkipKinds ==
  {"skip_eq_immediate", "skip_neq_immediate", "skip_eq_register", "skip_neq_register"}

SkipTaken(op, m) ==
  LET vx == m.regs[X(op)]
      vy == m.regs[Y(op)]
      kind == Kind(op)
  IN  \/ kind = "skip_eq_immediate" /\ vx = IMMEDIATE8(op)
      \/ kind = "skip_neq_immediate" /\ vx # IMMEDIATE8(op)
      \/ kind = "skip_eq_register" /\ vx = vy
      \/ kind = "skip_neq_register" /\ vx # vy

\* The pixels a sprite covers: the origin wraps, the sprite is clipped.
SpritePixels(m, x, y, n) ==
  {p \in (0 .. Width - 1) \X (0 .. Height - 1) :
     LET i == p[1] - (x % Width)
         j == p[2] - (y % Height)
     IN  /\ i \in 0 .. 7
         /\ j \in 0 .. n - 1
         /\ BitSet(m.memory[Wrap(m.addr + j)], 7 - i)}

\* draw and draw_io: XOR the sprite, VF reports a pixel switched off.
Draw(op, m) ==
  LET sprite == SpritePixels(m, m.regs[X(op)], m.regs[Y(op)], IMMEDIATE4(op)) IN
  [m EXCEPT !.display = (@ \ sprite) \cup (sprite \ @),
            !.regs[15] = Flag(m.display \cap sprite # {})]

Bcd(byte) == <<byte \div 100, (byte % 100) \div 10, byte % 10>>

\* The addresses an n byte store at addr covers.
StoreRange(m, n) == {Wrap(m.addr + i) : i \in 0 .. n - 1}

StoreBcd(op, m) ==
  [m EXCEPT !.memory =
     [a \in Address |-> IF a \in StoreRange(m, 3)
                        THEN Bcd(m.regs[X(op)])[1 + ((a - m.addr) % MEMORY_SIZE)]
                        ELSE @[a]]]

SaveRegisters(op, m) ==
  [m EXCEPT !.memory =
     [a \in Address |-> IF a \in StoreRange(m, X(op) + 1)
                        THEN m.regs[(a - m.addr) % MEMORY_SIZE]
                        ELSE @[a]]]

RestoreRegisters(op, m) ==
  [m EXCEPT !.regs = [i \in 0 .. 15 |-> IF i <= X(op) THEN m.memory[Wrap(m.addr + i)] ELSE @[i]]]

\* skip_key_x: a shift by Vx is a shift by Vx % 32 on the hosts built for.
SkipKey(op, m, up) ==
  LET key == m.regs[X(op)] % 32
      hit == (key \in KeysDown(m)) # up
  IN  SkipIf(IF hit THEN ClearKeys(m, {key}) ELSE m, hit)

\* load_on_key: poll, at one clock unit a poll, until a key is down or the run
\* is over; then clear all sixteen keys and report the highest one down.
Polled(m, n) == [m EXCEPT !.poll_clock = @ + n]
Polls(m) ==
  CHOOSE n \in 1 .. CLOCK_CAP + 1 :
    /\ KeysDown(Polled(m, n)) # {} \/ BenchDone(Polled(m, n))
    /\ \A k \in 1 .. n - 1 : KeysDown(Polled(m, k)) = {} /\ ~BenchDone(Polled(m, k))
LoadOnKey(op, m) ==
  LET polled == Polled(m, Polls(m))
      down   == KeysDown(polled)
      done   == ClearKeys(polled, 0 .. 15)
  IN  STEP(IF down = {} THEN done
           ELSE SetReg(done, X(op), CHOOSE k \in down : \A l \in down : l <= k))

\* What an instruction that reaches its end does, STEP or jump included.
\* random is the byte rand () & 0xff yields.
Execute(op, m, random) ==
  LET x  == X(op)
      kk == IMMEDIATE8(op)
      kind == Kind(op)
  IN  CASE kind = "clearscreen" -> STEP([m EXCEPT !.display = {}])
        [] kind = "jump"   -> At(m, IMMEDIATE12(op))
        [] kind = "retern" -> [At(m, m.stack[Len(m.stack)]) EXCEPT
                                 !.stack = SubSeq(@, 1, Len(@) - 1)]
        [] kind = "call"   -> [At(m, IMMEDIATE12(op)) EXCEPT
                                 !.stack = Append(@, (m.pc + 2) % 65536)]
        [] kind \in SkipKinds -> SkipIf(m, SkipTaken(op, m))
        [] kind = "load_immediate" -> STEP(SetReg(m, x, kk))
        [] kind = "add_immediate"  -> STEP(SetReg(m, x, (m.regs[x] + kk) % 256))
        [] kind \in ArithmeticKinds -> STEP(Arithmetic(op, m))
        [] kind = "load_addr_immediate" -> STEP([m EXCEPT !.addr = IMMEDIATE12(op)])
        [] kind = "branch" -> At(m, IMMEDIATE12(op) + m.regs[0])
        [] kind = "random_byte" -> STEP(SetReg(m, x, BitAnd(random, kk)))
        [] kind = "draw" -> STEP(Draw(op, m))
        [] kind = "skip_key_down" -> SkipKey(op, m, FALSE)
        [] kind = "skip_key_up"   -> SkipKey(op, m, TRUE)
        [] kind = "get_delay_timer" -> STEP(SetReg(m, x, m.delay))
        [] kind = "set_delay_timer" -> STEP([m EXCEPT !.delay = m.regs[x]])
        [] kind = "set_sound_timer" -> STEP([m EXCEPT !.sound = m.regs[x]])
        [] kind = "load_on_key" -> LoadOnKey(op, m)
        [] kind = "add_addr" -> STEP([m EXCEPT !.addr = (@ + m.regs[x]) % 65536])
        [] kind = "load_sprite_addr" -> STEP([m EXCEPT !.addr = 5 * (m.regs[x] % 16)])
        [] kind = "store_bcd" -> STEP(StoreBcd(op, m))
        [] kind = "save_registers" -> STEP(SaveRegisters(op, m))
        [] kind = "restore_registers" -> STEP(RestoreRegisters(op, m))

\* Mutant of Faults: a call too many.
FaultsLate(op, m) ==
  \/ Kind(op) = "illegal"
  \/ Kind(op) = "retern" /\ m.stack = << >>
  \/ Kind(op) = "call" /\ Len(m.stack) > STACK_SIZE

\* The ERROR exits of basic_block, retern and call.
Faults(op, m) ==
  \/ Kind(op) = "illegal"
  \/ Kind(op) = "retern" /\ m.stack = << >>
  \/ Kind(op) = "call" /\ Len(m.stack) >= STACK_SIZE

\* The instructions whose result depends on the timers being up to date.
TimerKinds == {"get_delay_timer", "set_delay_timer", "set_sound_timer"}
=============================================================================
