-------------------------------- MODULE Aot --------------------------------
(***************************************************************************)
(* A ROM compiled ahead of time: the program aot.c emits for it, a         *)
(* dispatcher over one native block per ROM word, and the host services of *)
(* aot_runtime.c that the blocks call.  The blocks are compiled from the   *)
(* ROM; the data they work on, and the sprites they draw, are in memory.   *)
(*                                                                         *)
(* Time is cut into input ticks, POLLS_PER_TICK to a 60 Hz tick.  A call   *)
(* of a host service that does not wait is one step of the host.           *)
(***************************************************************************)
EXTENDS Chip8

CONSTANTS
  INPUT_TICKS,        \* reads of the keyboard the history holds, 10
  TICKS_PER_SECOND,   \* the tick counter wraps at this, 60
  POLLS_PER_TICK,     \* input ticks in a tick, 10
  TIMER_INTERVAL,     \* instructions between two looks at the clock, 32
  TypedKeys           \* keys the user may press

Input == INSTANCE Terminal

ASSUME AotAssumption ==
  /\ INPUT_TICKS \in Nat \ {0}
  /\ TICKS_PER_SECOND \in Nat /\ TICKS_PER_SECOND > 1
  /\ POLLS_PER_TICK \in Nat \ {0}
  /\ TIMER_INTERVAL \in Nat \ {0}
  /\ TypedKeys \subseteq Input!HexKeys \cup {Input!QUIT}

VARIABLES
  rom,                   \* the ROM compiled in
  vm,                    \* chip8.c's globals and the two timers
  retired,               \* instructions retired, modulo TIMER_INTERVAL
  tick, part, typed,     \* the clock: tick (), input ticks since; unread keys
  last_tick,
  due,                   \* an input tick has gone by since the last due poll
  key_history, key_slot,
  at,                    \* where the host is
  held                   \* history: input ticks a key read has yet to be seen

clock == <<tick, part>>
keyboard == <<typed, due, key_history, key_slot, held>>
timing == <<retired, last_tick>>
vars == <<rom, vm, clock, keyboard, timing, at>>

Positions == {"dispatch", "block", "sprite", "frame", "poll", "exited"}
Stopped == at = "exited"

\* aot.c's main rejects every other file.
Accepted(r) == Len(r) > 0 /\ Len(r) % 2 = 0 /\ Len(r) <= MEMORY_SIZE - ENTRYPOINT

\* The addresses the dispatcher has a case for, and the words behind them.
Lowered == {ENTRYPOINT + 2 * i : i \in 0 .. Len(rom) \div 2 - 1}
op == LET i == vm.pc - ENTRYPOINT IN 256 * rom[i + 1] + rom[i + 2]

Init ==
  /\ rom \in {r \in ROMs : Accepted(r)}
  /\ vm = [pc |-> ENTRYPOINT, regs |-> [i \in 0 .. 15 |-> 0], addr |-> 0, stack |-> << >>,
           memory |-> LoadedMemory(rom), display |-> {}, delay |-> 0, sound |-> 0]
  /\ retired = 0
  /\ tick = 0 /\ part = 0 /\ typed = {}
  /\ last_tick = tick
  /\ due = TRUE
  /\ key_history = Input!EmptyRing /\ key_slot = 0
  /\ at = "dispatch"
  /\ held = [key \in TypedKeys |-> 0]

----------------------------------------------------------------------------
\* The clock and the user.

\* Bound: the host looks at the clock at least once in TICKS_PER_SECOND ticks.
Clock ==
  LET next == IF part + 1 = POLLS_PER_TICK THEN Input!NextTick(tick) ELSE tick IN
  /\ ~Stopped
  /\ next = tick \/ next # last_tick
  /\ tick' = next
  /\ part' = (part + 1) % POLLS_PER_TICK
  /\ due' = TRUE
  /\ held' = [key \in TypedKeys |-> IF held[key] > 0 THEN held[key] - 1 ELSE 0]
  /\ UNCHANGED <<rom, vm, typed, key_history, key_slot, timing, at>>

Type ==
  /\ ~Stopped
  /\ \E key \in TypedKeys : typed' = typed \cup {key}
  /\ UNCHANGED <<rom, vm, clock, due, key_history, key_slot, held, timing, at>>

----------------------------------------------------------------------------
\* Host services.

\* poll_keys; seen is how long the keys it reads should stay in the history.
PollKeys(history, seen) ==
  /\ key_history' = [history EXCEPT ![key_slot] = typed]
  /\ key_slot' = Input!NextSlot(key_slot)
  /\ typed' = {}
  /\ held' = seen

\* Mutant of PollKeysIfDue: a poll at every instruction.
PollKeysAlways ==
  /\ PollKeys(key_history, [key \in TypedKeys |-> IF key \in typed THEN INPUT_TICKS ELSE held[key]])
  /\ due' = FALSE

\* poll_keys_if_due
PollKeysIfDue ==
  IF due
  THEN /\ PollKeys(key_history,
                   [key \in TypedKeys |-> IF key \in typed THEN INPUT_TICKS ELSE held[key]])
       /\ due' = FALSE
  ELSE UNCHANGED keyboard

Down(history) == Input!AllKeysDown(history)

\* service_timers
ServiceTimers ==
  /\ last_tick' = tick
  /\ vm' = [vm EXCEPT !.delay = Input!CountedDown(@, last_tick, tick),
                      !.sound = Input!CountedDown(@, last_tick, tick)]

\* Mutant of RetireStops: the quit key is not a key.
RetireStopsOnHex(history) == Down(history) \cap Input!HexKeys # {}
RetireStops(history) == Input!QUIT \in Down(history)

\* The dispatcher, and chip8_aot_retire at the head of a block.
RetireBlock ==
  /\ at = "dispatch" /\ vm.pc \in Lowered
  /\ retired' = (retired + 1) % TIMER_INTERVAL
  /\ PollKeysIfDue
  /\ IF retired' = 0 THEN ServiceTimers ELSE UNCHANGED <<vm, last_tick>>
  /\ at' = IF RetireStops(key_history') THEN "exited" ELSE "block"
  /\ UNCHANGED <<rom, clock>>

\* The dispatcher's default: the program ends, without a word.
Leave ==
  /\ at = "dispatch" /\ vm.pc \notin Lowered
  /\ at' = "exited"
  /\ UNCHANGED <<rom, vm, clock, keyboard, timing>>

----------------------------------------------------------------------------
\* Blocks.

\* What chip8_aot_alu leaves in Vx, and in VF for the operations that set it.
AluByte(n, a, b) ==
  CASE n = 0 -> b
    [] n = 1 -> BitOr(a, b)
    [] n = 2 -> BitAnd(a, b)
    [] n = 3 -> BitXor(a, b)
    [] n = 4 -> (a + b) % 256
    [] n = 5 -> (a - b) % 256
    [] n = 6 -> a \div 2
    [] n = 7 -> (b - a) % 256
    [] n = 14 -> (a * 2) % 256

AluFlag(n, a, b) ==
  CASE n = 4 -> Flag(a + b > 255)
    [] n = 5 -> Flag(a >= b)
    [] n = 6 -> a % 2
    [] n = 7 -> Flag(b >= a)
    [] n = 14 -> a \div 128

\* Mutant of WithFlags: the flag is set before the result is stored.
WithFlagsFirst(m, x, byte, flag) == SetReg(SetReg(m, 15, flag), x, byte)
WithFlags(m, x, byte, flag) == SetReg(SetReg(m, x, byte), 15, flag)

\* chip8_aot_alu.  For an n it does not know it sets program_counter, which
\* the block then stores over.
Alu(m, x, n, a, b) ==
  IF n \in 0 .. 3 THEN SetReg(m, x, AluByte(n, a, b))
  ELSE IF n \in {4, 5, 6, 7, 14} THEN WithFlags(m, x, AluByte(n, a, b), AluFlag(n, a, b))
  ELSE m

\* chip8_aot_f without Fx0A; an unknown kk is lost in the same way.
Misc(m, x, kk) ==
  CASE kk = 7 -> SetReg(m, x, m.delay)
    [] kk = 21 -> [m EXCEPT !.delay = m.regs[x]]
    [] kk = 24 -> [m EXCEPT !.sound = m.regs[x]]
    [] kk = 30 -> [m EXCEPT !.addr = (@ + m.regs[x]) % 65536]
    [] kk = 41 -> [m EXCEPT !.addr = (m.regs[x] % 16) * 5]
    [] kk = 51 -> StoreBcd(op, m)
    [] kk = 85 -> SaveRegisters(op, m)
    [] kk = 101 -> RestoreRegisters(op, m)
    [] OTHER -> m

InBlock(nibbles) ==
  at = "block" /\ op \div 4096 \in nibbles /\ UNCHANGED <<rom, clock>>
Quiet == UNCHANGED <<keyboard, timing>>
Dispatch == at' = "dispatch"

vx == vm.regs[X(op)]
vy == vm.regs[Y(op)]

\* The inline blocks and the services that end by storing the next address.
Inline ==
  LET x == X(op)
      kk == IMMEDIATE8(op)
  IN  /\ InBlock({0, 6, 7, 8, 10, 12, 15})
      /\ op \div 4096 = 0 => op = 224
      /\ op \div 4096 = 15 => kk # 10
      /\ \E random \in RandomBytes :
           vm' = STEP(CASE op \div 4096 = 0  -> [vm EXCEPT !.display = {}]
                        [] op \div 4096 = 6  -> SetReg(vm, x, kk)
                        [] op \div 4096 = 7  -> SetReg(vm, x, (vx + kk) % 256)
                        [] op \div 4096 = 8  -> Alu(vm, x, IMMEDIATE4(op), vx, vy)
                        [] op \div 4096 = 10 -> [vm EXCEPT !.addr = IMMEDIATE12(op)]
                        [] op \div 4096 = 12 -> SetReg(vm, x, BitAnd(random, kk))
                        [] op \div 4096 = 15 -> Misc(vm, x, kk))
      /\ Dispatch /\ Quiet

\* 0nnn, 1nnn and Bnnn.
Jump ==
  /\ InBlock({0, 1, 11}) /\ op \notin {224, 238}
  /\ vm' = At(vm, IMMEDIATE12(op) + (IF op \div 4096 = 11 THEN vm.regs[0] ELSE 0))
  /\ Dispatch /\ Quiet

Skip ==
  /\ InBlock({3, 4, 5, 9})
  /\ vm' = SkipIf(vm, CASE op \div 4096 = 3 -> vx = IMMEDIATE8(op)
                        [] op \div 4096 = 4 -> vx # IMMEDIATE8(op)
                        [] op \div 4096 = 5 -> vx = vy
                        [] op \div 4096 = 9 -> vx # vy)
  /\ Dispatch /\ Quiet

Nowhere == 65535

\* chip8_aot_call
Call ==
  /\ InBlock({2})
  /\ vm' = IF Len(vm.stack) < STACK_SIZE
           THEN At([vm EXCEPT !.stack = Append(@, vm.pc + 2)], IMMEDIATE12(op))
           ELSE At(vm, Nowhere)
  /\ Dispatch /\ Quiet

\* chip8_aot_return
Return ==
  /\ InBlock({0}) /\ op = 238
  /\ vm' = IF vm.stack # << >>
           THEN At([vm EXCEPT !.stack = SubSeq(@, 1, Len(@) - 1)], vm.stack[Len(vm.stack)])
           ELSE At(vm, Nowhere)
  /\ Dispatch /\ Quiet

\* chip8_aot_draw, as far as draw_io
DrawStart ==
  /\ InBlock({13})
  /\ PollKeysIfDue
  /\ ServiceTimers
  /\ at' = "sprite"
  /\ UNCHANGED retired

DrawSprite ==
  /\ at = "sprite"
  /\ vm' = Draw(op, vm)
  /\ at' = "frame"
  /\ UNCHANGED <<rom, clock, keyboard, timing>>

\* its wait for the next tick, which is noted and counts nothing down
DrawFrame ==
  /\ at = "frame" /\ tick # last_tick
  /\ last_tick' = tick
  /\ vm' = STEP(vm)
  /\ Dispatch
  /\ UNCHANGED <<rom, clock, keyboard, retired>>

\* chip8_aot_key, which takes every Exkk but ExA1 for an Ex9E.  A shift by Vx
\* is a shift by Vx % 32 on the hosts built for.
Key ==
  LET key == vx % 32
      up  == IMMEDIATE8(op) = 161
      history == IF due THEN [key_history EXCEPT ![key_slot] = typed] ELSE key_history
      hit == (key \in Down(history)) # up
      seen == [k \in TypedKeys |-> IF hit /\ k = key THEN 0
                                   ELSE IF due /\ k \in typed THEN INPUT_TICKS ELSE held[k]]
  IN  /\ InBlock({14})
      /\ key_history' = IF hit THEN Input!ClearKey(history, key) ELSE history
      /\ key_slot' = IF due THEN Input!NextSlot(key_slot) ELSE key_slot
      /\ typed' = IF due THEN {} ELSE typed
      /\ due' = FALSE
      /\ held' = seen
      /\ vm' = SkipIf(vm, hit)
      /\ Dispatch
      /\ UNCHANGED timing

\* Fx0A: polls as fast as it can until the history holds a key.
WaitForKey ==
  /\ InBlock({15}) /\ IMMEDIATE8(op) = 10
  /\ at' = "poll"
  /\ UNCHANGED vm /\ Quiet

Poll ==
  /\ at = "poll" /\ Down(key_history) \cap Input!HexKeys = {}
  /\ PollKeys(key_history, [key \in TypedKeys |-> 0])
  /\ UNCHANGED <<rom, vm, clock, due, timing, at>>

\* The lowest key down is the answer.
Answer ==
  LET down == Down(key_history) \cap Input!HexKeys
      key == CHOOSE k \in down : \A l \in down : k <= l
  IN  /\ at = "poll" /\ down # {}
      /\ key_history' = Input!ClearKey(key_history, key)
      /\ held' = [held EXCEPT ![key] = 0]
      /\ vm' = STEP(SetReg(vm, X(op), key))
      /\ Dispatch
      /\ UNCHANGED <<rom, clock, typed, due, key_slot, timing>>

Host ==
  \/ RetireBlock \/ Leave
  \/ Inline \/ Jump \/ Skip \/ Call \/ Return
  \/ DrawStart \/ DrawSprite \/ DrawFrame
  \/ Key \/ WaitForKey \/ Poll \/ Answer

Halted == Stopped /\ UNCHANGED vars

Next == Clock \/ Type \/ Host \/ Halted

Spec == Init /\ [][Next]_vars

\* The processor and the clock go on; nobody need press a key.
FairSpec == Spec /\ WF_vars(Host) /\ WF_vars(Clock)

----------------------------------------------------------------------------
HistoryOK ==
  /\ typed \subseteq TypedKeys /\ due \in BOOLEAN
  /\ key_history \in [Input!Slots -> SUBSET TypedKeys] /\ key_slot \in Input!Slots
  /\ held \in [TypedKeys -> 0 .. INPUT_TICKS]

TypeOK ==
  /\ rom \in ROMs
  /\ vm \in [pc: Word, regs: [0 .. 15 -> Byte], addr: Word, stack: Stacks,
             memory: [Address -> Byte],
             display: SUBSET ((0 .. Width - 1) \X (0 .. Height - 1)), delay: Byte, sound: Byte]
  /\ retired \in 0 .. TIMER_INTERVAL - 1
  /\ tick \in Input!Ticks /\ last_tick \in Input!Ticks /\ part \in 0 .. POLLS_PER_TICK - 1
  /\ HistoryOK
  /\ at \in Positions

\* A sprite is drawn before the frame is waited for, and the block stores the
\* next address after that.
Abstract == INSTANCE Cpu WITH
              vm <- [vm EXCEPT !.pc = IF @ = Nowhere THEN 0
                                      ELSE IF at = "frame" THEN @ + 2 ELSE @],
              status <- IF vm.pc = Nowhere THEN "fault" ELSE "running"

(***************************************************************************)
(* README.md:64: the compiled program of a ROM that neither overwrites its *)
(* instructions nor holds invalid ones executes what memory says, block    *)
(* for instruction, in spite of the clock, the timers and the keys; a      *)
(* stack that overflows or runs empty stops it.                            *)
(***************************************************************************)
ImplementsCpu == Abstract!Spec

(***************************************************************************)
(* aot_runtime.c:55: "A ten-entry history represents roughly 1/60 second,  *)
(* not ten host CPU instructions".  A key read by a due poll is in the     *)
(* history for INPUT_TICKS input ticks, however many instructions pass,    *)
(* unless it is consumed or Fx0A polls meanwhile.                          *)
(***************************************************************************)
KeyHeld == \A key \in TypedKeys : held[key] > 0 => key \in Down(key_history)

\* How many polls go by until slot s is written again.
Distance(s) == IF s >= key_slot THEN s - key_slot ELSE s - key_slot + INPUT_TICKS

\* The inductive invariant behind KeyHeld: a key that has yet to be seen for n
\* input ticks is in a slot that n polls, one an input tick, will not reach.
Fresh ==
  \A key \in TypedKeys :
    held[key] > 0 =>
      \E s \in Input!Slots :
        /\ key \in key_history[s]
        /\ Distance(s) >= held[key] - (IF due THEN 0 ELSE 1)

KeyInv == HistoryOK /\ Fresh

(***************************************************************************)
(* README.md:76, "Press q or Escape to quit": a quit key pressed while the *)
(* program does not wait for a key ends it, or finds it waiting by then.   *)
(***************************************************************************)
QuitHeard == Input!QUIT \in typed /\ at # "poll" ~> Stopped \/ at = "poll"

(***************************************************************************)
(* README.md:76, "Press q or Escape to quit": a quit key pressed ends the  *)
(* program.  In Fx0A it is read into a history that only hex keys end the  *)
(* wait for, and is overwritten there.                                     *)
(***************************************************************************)
QuitEnds == Input!QUIT \in typed ~> Stopped

(***************************************************************************)
(* README.md:74: "The runtime verifies that each opcode still matches the  *)
(* opcode embedded in `pong.ll`.  It stops if code memory changed."        *)
(***************************************************************************)
StopsIfCodeChanged == at = "block" => op = OpAt(vm.memory, vm.pc)
=============================================================================
