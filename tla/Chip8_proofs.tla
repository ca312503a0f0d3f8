---------------------------- MODULE Chip8_proofs ----------------------------
(***************************************************************************)
(* What an instruction does to the machine, for every size of memory,      *)
(* stack and screen: its result is a machine, it writes memory only where  *)
(* its handler stores, and it leads where its handler says.                *)
(***************************************************************************)
EXTENDS Chip8, TLAPS, WellFoundedInduction

----------------------------------------------------------------------------
\* Fields of an instruction.

LEMMA FieldRanges ==
  ASSUME NEW op \in Word
  PROVE  /\ X(op) \in 0 .. 15
         /\ Y(op) \in 0 .. 15
         /\ IMMEDIATE4(op) \in 0 .. 15
         /\ IMMEDIATE8(op) \in Byte
<1>1. X(op) \in 0 .. 15
  BY DEF Word, X
<1>2. Y(op) \in 0 .. 15
  BY DEF Word, Y
<1>3. IMMEDIATE4(op) \in 0 .. 15
  BY DEF Word, IMMEDIATE4
<1>4. IMMEDIATE8(op) \in Byte
  BY DEF Word, Byte, IMMEDIATE8
<1> QED
  BY <1>1, <1>2, <1>3, <1>4

LEMMA MemorySize == MEMORY_SIZE \in Nat \ {0} /\ MEMORY_SIZE <= 4096
  BY SizesAssumption

LEMMA WrapRange ==
  ASSUME NEW a \in Int
  PROVE  Wrap(a) \in Address
  BY MemorySize DEF Wrap, Address

LEMMA AddressInWord == Address \subseteq Word
  BY MemorySize DEF Address, Word

LEMMA Immediate12Range ==
  ASSUME NEW op \in Word
  PROVE  IMMEDIATE12(op) \in Address
  BY MemorySize DEF Word, IMMEDIATE12, Address

LEMMA TwoBytes ==
  ASSUME NEW hi \in Byte, NEW lo \in Byte
  PROVE  256 * hi + lo \in Word
  BY DEF Byte, Word

LEMMA OpInWord ==
  ASSUME NEW memory \in [Address -> Byte], NEW a \in Int
  PROVE  OpAt(memory, a) \in Word
<1>1. Wrap(a) \in Address /\ Wrap(a + 1) \in Address
  BY WrapRange
<1>2. memory[Wrap(a)] \in Byte /\ memory[Wrap(a + 1)] \in Byte
  BY <1>1
<1> QED
  BY <1>2, TwoBytes DEF OpAt

----------------------------------------------------------------------------
\* Kinds.

AllKinds ==
  ArithmeticKinds \cup TimerKinds \cup
  {"clearscreen", "retern", "jump", "call", "skip_eq_immediate", "skip_neq_immediate",
   "skip_eq_register", "skip_neq_register", "load_immediate", "add_immediate",
   "load_addr_immediate", "branch", "random_byte", "draw", "skip_key_down",
   "skip_key_up", "load_on_key", "add_addr", "load_sprite_addr", "store_bcd",
   "save_registers", "restore_registers", "illegal"}

LEMMA ArithmeticKindRange ==
  ASSUME NEW n \in Nat
  PROVE  ArithmeticKind(n) \in ArithmeticKinds \cup {"illegal"}
  BY DEF ArithmeticKind, ArithmeticKinds

LEMMA MiscKindRange ==
  ASSUME NEW kk \in Nat
  PROVE  MiscKind(kk) \in AllKinds
  BY DEF MiscKind, AllKinds, TimerKinds

LEMMA KindRange ==
  ASSUME NEW op \in Word
  PROVE  Kind(op) \in AllKinds
<1>1. op \div 4096 \in 0 .. 15 /\ op % 16 \in Nat /\ op % 256 \in Nat
  BY DEF Word
<1>2. ArithmeticKind(op % 16) \in AllKinds /\ MiscKind(op % 256) \in AllKinds
  BY <1>1, ArithmeticKindRange, MiscKindRange DEF AllKinds
<1> QED
  BY <1>1, <1>2 DEF Kind, AllKinds

----------------------------------------------------------------------------
\* The clock, the timers and the keyboard.

LEMMA MachineFields ==
  ASSUME NEW m \in Machines
  PROVE  /\ m.pc \in Word
         /\ m.addr \in Word
         /\ m.regs \in [0 .. 15 -> Byte]
         /\ m.memory \in [Address -> Byte]
         /\ m.stack \in Stacks /\ m.stack \in Seq(Word)
         /\ m.delay \in Byte
         /\ m.sound \in Byte
         /\ m.last_tick \in Nat
         /\ m.retired \in Nat
         /\ m.poll_clock \in Nat
<1>1. m.stack \in Stacks
  BY DEF Machines
<1> QED
  BY <1>1 DEF Machines, Stacks

LEMMA Quotient ==
  ASSUME NEW a \in Nat, NEW b \in Nat \ {0}
  PROVE  a \div b \in Nat
  OBVIOUS

LEMMA TickInNat ==
  ASSUME NEW m \in Machines
  PROVE  Tick(m) \in Nat
<1>1. m.retired + m.poll_clock \in Nat
  BY MachineFields
<1>2. INSTR_PER_TICK \in Nat \ {0}
  BY BenchAssumption
<1> QED
  BY <1>1, <1>2, Quotient DEF Tick

LEMMA CountDownInByte ==
  ASSUME NEW timer \in Byte, NEW elapsed \in Int, elapsed > 0
  PROVE  CountDown(timer, elapsed) \in Byte
  BY DEF CountDown, Byte

LEMMA RetireType ==
  ASSUME NEW m \in Machines
  PROVE  Retire(m) \in Machines
<1>1. m.retired + 1 \in Nat
  BY MachineFields
<1> QED
  BY <1>1 DEF Retire, Machines

LEMMA RetireKeeps ==
  ASSUME NEW m \in Machines
  PROVE  /\ Retire(m).memory = m.memory
         /\ Retire(m).pc = m.pc
         /\ Retire(m).stack = m.stack
         /\ Retire(m).addr = m.addr
         /\ Retire(m).regs = m.regs
  BY DEF Retire, Machines

LEMMA SyncTimersType ==
  ASSUME NEW m \in Machines
  PROVE  SyncTimers(m) \in Machines
<1> DEFINE elapsed == Tick(m) - m.last_tick
<1>1. Tick(m) \in Nat /\ elapsed \in Int
  BY TickInNat, MachineFields
<1>2. CASE elapsed > 0
  <2>1. CountDown(m.delay, elapsed) \in Byte /\ CountDown(m.sound, elapsed) \in Byte
    BY <1>1, <1>2, MachineFields, CountDownInByte
  <2>2. [m EXCEPT !.delay = CountDown(m.delay, elapsed), !.sound = CountDown(m.sound, elapsed),
                  !.last_tick = Tick(m)] \in Machines
    <3> HIDE DEF elapsed
    <3> QED
      BY <1>1, <2>1 DEF Machines
  <2> QED
    BY <1>2, <2>2 DEF SyncTimers
<1>3. CASE ~(elapsed > 0)
  BY <1>3 DEF SyncTimers
<1> QED
  BY <1>2, <1>3

LEMMA SyncTimersKeeps ==
  ASSUME NEW m \in Machines
  PROVE  /\ SyncTimers(m).memory = m.memory
         /\ SyncTimers(m).pc = m.pc
         /\ SyncTimers(m).stack = m.stack
         /\ SyncTimers(m).addr = m.addr
         /\ SyncTimers(m).regs = m.regs
  BY DEF SyncTimers, Machines

LEMMA MachineAt ==
  ASSUME NEW m \in Machines, NEW a \in Word
  PROVE  /\ [m EXCEPT !.pc = a] \in Machines
         /\ [m EXCEPT !.pc = a].memory = m.memory
         /\ [m EXCEPT !.pc = a].stack = m.stack
         /\ [m EXCEPT !.pc = a].addr = m.addr
         /\ [m EXCEPT !.pc = a].regs = m.regs
         /\ [m EXCEPT !.pc = a].pc = a
<1>1. [m EXCEPT !.pc = a] \in Machines
  BY DEF Machines
<1>2. /\ [m EXCEPT !.pc = a].memory = m.memory
      /\ [m EXCEPT !.pc = a].stack = m.stack
      /\ [m EXCEPT !.pc = a].addr = m.addr
      /\ [m EXCEPT !.pc = a].regs = m.regs
      /\ [m EXCEPT !.pc = a].pc = a
  BY DEF Machines
<1> QED
  BY <1>1, <1>2

LEMMA AddrInNat ==
  ASSUME NEW m \in Machines
  PROVE  m.addr \in Nat
<1>1. m.addr \in Word
  BY MachineFields
<1> QED
  BY <1>1 DEF Word

LEMMA WordModulo ==
  ASSUME NEW a \in Nat
  PROVE  a % 65536 \in Word
  BY DEF Word

LEMMA BytePlus ==
  ASSUME NEW a \in Byte, NEW b \in Byte
  PROVE  a + b \in Nat
  BY DEF Byte

LEMMA WordPlus ==
  ASSUME NEW a \in Word, NEW b \in Nat
  PROVE  a + b \in Nat
  BY DEF Word

LEMMA AtType ==
  ASSUME NEW m \in Machines, NEW a \in Nat
  PROVE  /\ At(m, a) \in Machines
         /\ At(m, a).memory = m.memory
         /\ At(m, a).stack = m.stack
         /\ At(m, a).pc = a % 65536
  BY WordModulo, MachineAt DEF At

LEMMA StepType ==
  ASSUME NEW m \in Machines
  PROVE  /\ STEP(m) \in Machines
         /\ STEP(m).memory = m.memory
         /\ STEP(m).stack = m.stack
         /\ STEP(m).pc = (m.pc + 2) % 65536
<1>1. m.pc + 2 \in Nat
  BY MachineFields, WordPlus
<1>2. PICK n \in Nat : n = m.pc + 2
  BY <1>1
<1>3. /\ At(m, n) \in Machines
      /\ At(m, n).memory = m.memory
      /\ At(m, n).stack = m.stack
      /\ At(m, n).pc = n % 65536
  BY AtType
<1> QED
  BY <1>2, <1>3 DEF STEP

LEMMA SkipIfType ==
  ASSUME NEW m \in Machines, NEW condition
  PROVE  /\ SkipIf(m, condition) \in Machines
         /\ SkipIf(m, condition).memory = m.memory
         /\ SkipIf(m, condition).pc \in {(m.pc + 2) % 65536, (m.pc + 4) % 65536}
<1>1. m.pc + 4 \in Nat
  BY MachineFields, WordPlus
<1>2. PICK n \in Nat : n = m.pc + 4
  BY <1>1
<1>3. /\ At(m, n) \in Machines
      /\ At(m, n).memory = m.memory
      /\ At(m, n).pc = n % 65536
  BY AtType
<1>4. CASE condition
  BY <1>2, <1>3, <1>4 DEF SkipIf
<1>5. CASE ~condition
  BY <1>5, StepType DEF SkipIf
<1> QED
  BY <1>4, <1>5

LEMMA SetRegType ==
  ASSUME NEW m \in Machines, NEW x \in 0 .. 15, NEW byte \in Byte
  PROVE  /\ SetReg(m, x, byte) \in Machines
         /\ SetReg(m, x, byte).memory = m.memory
         /\ SetReg(m, x, byte).pc = m.pc
<1>1. SetReg(m, x, byte) \in Machines
  BY DEF SetReg, Machines
<1>2. SetReg(m, x, byte).memory = m.memory /\ SetReg(m, x, byte).pc = m.pc
  BY DEF SetReg, Machines
<1> QED
  BY <1>1, <1>2

LEMMA SetRegFlagType ==
  ASSUME NEW m \in Machines, NEW x \in 0 .. 15, NEW byte \in Byte, NEW flag \in Byte
  PROVE  /\ SetRegFlag(m, x, byte, flag) \in Machines
         /\ SetRegFlag(m, x, byte, flag).memory = m.memory
         /\ SetRegFlag(m, x, byte, flag).pc = m.pc
<1>1. [[m.regs EXCEPT ![x] = byte] EXCEPT ![15] = flag] \in [0 .. 15 -> Byte]
  BY MachineFields
<1>2. SetRegFlag(m, x, byte, flag) \in Machines
  BY <1>1 DEF SetRegFlag, Machines
<1>3. SetRegFlag(m, x, byte, flag).memory = m.memory /\ SetRegFlag(m, x, byte, flag).pc = m.pc
  BY DEF SetRegFlag, Machines
<1> QED
  BY <1>2, <1>3

LEMMA ClearKeysType ==
  ASSUME NEW m \in Machines, NEW keys \in SUBSET Keys
  PROVE  /\ ClearKeys(m, keys) \in Machines
         /\ ClearKeys(m, keys).memory = m.memory
         /\ ClearKeys(m, keys).pc = m.pc
<1>1. Cleared(m) \cup keys \in SUBSET Keys
  BY DEF Cleared, Machines
<1>2. Tick(m) \in Nat \cup {-1}
  BY TickInNat
<1>3. ClearKeys(m, keys) \in Machines
  BY <1>1, <1>2 DEF ClearKeys, Machines
<1>4. ClearKeys(m, keys).memory = m.memory /\ ClearKeys(m, keys).pc = m.pc
  BY DEF ClearKeys, Machines
<1> QED
  BY <1>3, <1>4

----------------------------------------------------------------------------
\* The handlers.  Sixteen registers and eight bit bytes.

LEMMA FlagInByte ==
  ASSUME NEW condition \in BOOLEAN
  PROVE  Flag(condition) \in 0 .. 1
  BY DEF Flag

LEMMA EightBits ==
  ASSUME NEW b0 \in 0 .. 1, NEW b1 \in 0 .. 1, NEW b2 \in 0 .. 1, NEW b3 \in 0 .. 1,
         NEW b4 \in 0 .. 1, NEW b5 \in 0 .. 1, NEW b6 \in 0 .. 1, NEW b7 \in 0 .. 1
  PROVE  b0 + 2 * b1 + 4 * b2 + 8 * b3 + 16 * b4 + 32 * b5 + 64 * b6 + 128 * b7 \in Byte
  BY DEF Byte

LEMMA BitwiseInByte ==
  ASSUME NEW a, NEW b
  PROVE  BitOr(a, b) \in Byte /\ BitAnd(a, b) \in Byte /\ BitXor(a, b) \in Byte
<1>1. \A c : Flag(c) \in 0 .. 1
  BY DEF Flag
<1>2. BitOr(a, b) \in Byte
  BY <1>1, EightBits DEF BitOr, ByteOf
<1>3. BitAnd(a, b) \in Byte
  BY <1>1, EightBits DEF BitAnd, ByteOf
<1>4. BitXor(a, b) \in Byte
  BY <1>1, EightBits DEF BitXor, ByteOf
<1> QED
  BY <1>2, <1>3, <1>4

LEMMA RegistersInByte ==
  ASSUME NEW m \in Machines, NEW op \in Word
  PROVE  m.regs[X(op)] \in Byte /\ m.regs[Y(op)] \in Byte /\ m.regs[0] \in Byte
<1>1. m.regs \in [0 .. 15 -> Byte]
  BY MachineFields
<1>2. X(op) \in 0 .. 15 /\ Y(op) \in 0 .. 15 /\ 0 \in 0 .. 15
  BY FieldRanges
<1> QED
  BY <1>1, <1>2

\* What the handlers other than the stores share: they keep memory.
Keeps(m, n) == n \in Machines /\ n.memory = m.memory

LEMMA AddrType ==
  ASSUME NEW m \in Machines, NEW a \in Word
  PROVE  Keeps(m, [m EXCEPT !.addr = a]) /\ [m EXCEPT !.addr = a].pc = m.pc
  BY DEF Keeps, Machines

LEMMA ArithmeticType ==
  ASSUME NEW m \in Machines, NEW op \in Word, Kind(op) \in ArithmeticKinds
  PROVE  Keeps(m, Arithmetic(op, m)) /\ Arithmetic(op, m).pc = m.pc
<1> DEFINE x  == X(op)
           vx == m.regs[X(op)]
           vy == m.regs[Y(op)]
           Good(n) == Keeps(m, n) /\ n.pc = m.pc
<1>1. x \in 0 .. 15 /\ vx \in Byte /\ vy \in Byte
  BY FieldRanges, RegistersInByte
<1>2. \A byte \in Byte : Good(SetReg(m, x, byte))
  BY <1>1, SetRegType DEF Keeps
<1>3. ASSUME NEW byte \in Byte, NEW flag \in Byte
      PROVE  Good(SetRegFlag(m, x, byte, flag))
  <2>1. /\ SetRegFlag(m, x, byte, flag) \in Machines
        /\ SetRegFlag(m, x, byte, flag).memory = m.memory
        /\ SetRegFlag(m, x, byte, flag).pc = m.pc
    BY <1>1, SetRegFlagType
  <2> QED
    BY <2>1 DEF Keeps
<1>4. \A c : Flag(c) \in Byte
  BY DEF Flag, Byte
<1>5. /\ (vx + vy) % 256 \in Byte /\ (vx - vy) % 256 \in Byte /\ (vy - vx) % 256 \in Byte
      /\ (2 * vx) % 256 \in Byte /\ vx \div 2 \in Byte /\ vx % 2 \in Byte
      /\ vx \div 128 \in Byte
  <2> HIDE DEF vx, vy
  <2>1. (vx + vy) % 256 \in Byte /\ (vx - vy) % 256 \in Byte /\ (vy - vx) % 256 \in Byte
    BY <1>1 DEF Byte
  <2>2. (2 * vx) % 256 \in Byte /\ vx \div 2 \in Byte /\ vx % 2 \in Byte /\ vx \div 128 \in Byte
    BY <1>1 DEF Byte
  <2> QED
    BY <2>1, <2>2
<1>6. BitOr(vx, vy) \in Byte /\ BitAnd(vx, vy) \in Byte /\ BitXor(vx, vy) \in Byte
  BY BitwiseInByte
<1>7. /\ Good(SetReg(m, x, vy))
      /\ Good(SetReg(m, x, BitOr(vx, vy)))
      /\ Good(SetReg(m, x, BitAnd(vx, vy)))
      /\ Good(SetReg(m, x, BitXor(vx, vy)))
  <2> HIDE DEF Good, x, vx, vy
  <2> QED
    BY <1>1, <1>2, <1>6
<1>8. /\ Good(SetRegFlag(m, x, (vx + vy) % 256, Flag(vx + vy > 255)))
      /\ Good(SetRegFlag(m, x, (vx - vy) % 256, Flag(vx >= vy)))
      /\ Good(SetRegFlag(m, x, (vy - vx) % 256, Flag(vy >= vx)))
      /\ Good(SetRegFlag(m, x, vx \div 2, vx % 2))
      /\ Good(SetRegFlag(m, x, (2 * vx) % 256, vx \div 128))
  <2> HIDE DEF Good, x, vx, vy
  <2> QED
    BY <1>3, <1>4, <1>5
<1> HIDE DEF Good
<1>9. Good(Arithmetic(op, m))
  BY <1>7, <1>8 DEF Arithmetic, ArithmeticKinds
<1> QED
  BY <1>9 DEF Good

LEMMA DrawType ==
  ASSUME NEW m \in Machines, NEW op \in Word
  PROVE  Keeps(m, Draw(op, m)) /\ Draw(op, m).pc = m.pc
<1> DEFINE sprite == SpritePixels(m, m.regs[X(op)], m.regs[Y(op)], IMMEDIATE4(op))
           screen == (0 .. Width - 1) \X (0 .. Height - 1)
<1>1. sprite \subseteq screen
  BY DEF SpritePixels
<1>2. Flag(m.display \cap sprite # {}) \in Byte
  BY DEF Flag, Byte
<1>3. (m.display \ sprite) \cup (sprite \ m.display) \in SUBSET screen
  BY <1>1 DEF Machines
<1>4. 15 \in 0 .. 15
  OBVIOUS
<1> HIDE DEF sprite, screen
<1>5. [m EXCEPT !.display = (@ \ sprite) \cup (sprite \ @),
                !.regs[15] = Flag(m.display \cap sprite # {})] \in Machines
  BY <1>2, <1>3, <1>4 DEF Machines, screen
<1>6. Draw(op, m) \in Machines
  BY <1>5 DEF Draw, sprite
<1>7. Draw(op, m).memory = m.memory /\ Draw(op, m).pc = m.pc
  BY DEF Draw, Machines
<1> QED
  BY <1>6, <1>7 DEF Keeps

LEMMA Remainder ==
  ASSUME NEW a \in Int
  PROVE  a % MEMORY_SIZE \in 0 .. MEMORY_SIZE - 1
  BY MemorySize

\* The size of memory is a power of two: proved size by size.
LEMMA Offset ==
  ASSUME NEW b \in Nat, NEW i \in Nat, i < MEMORY_SIZE
  PROVE  (((b + i) % MEMORY_SIZE) - b) % MEMORY_SIZE = i
<1>1. CASE MEMORY_SIZE = 16
  BY <1>1
<1>2. CASE MEMORY_SIZE = 32
  BY <1>2
<1>3. CASE MEMORY_SIZE = 64
  BY <1>3
<1>4. CASE MEMORY_SIZE = 128
  BY <1>4
<1>5. CASE MEMORY_SIZE = 256
  BY <1>5
<1>6. CASE MEMORY_SIZE = 512
  BY <1>6
<1>7. CASE MEMORY_SIZE = 1024
  BY <1>7
<1>8. CASE MEMORY_SIZE = 2048
  BY <1>8
<1>9. CASE MEMORY_SIZE = 4096
  BY <1>9
<1> QED
  BY <1>1, <1>2, <1>3, <1>4, <1>5, <1>6, <1>7, <1>8, <1>9, SizesAssumption

\* A store writes bytes, and only inside its range.
LEMMA StoreBcdType ==
  ASSUME NEW m \in Machines, NEW op \in Word
  PROVE  /\ StoreBcd(op, m) \in Machines
         /\ StoreBcd(op, m).pc = m.pc
         /\ \A a \in Address \ StoreRange(m, 3) : StoreBcd(op, m).memory[a] = m.memory[a]
<1> DEFINE new == [a \in Address |->
                     IF a \in StoreRange(m, 3)
                     THEN Bcd(m.regs[X(op)])[1 + ((a - m.addr) % MEMORY_SIZE)]
                     ELSE m.memory[a]]
<1>1. \A byte \in Byte : \A i \in 1 .. 3 : Bcd(byte)[i] \in Byte
  BY DEF Bcd, Byte
<1>2. ASSUME NEW a \in Address, a \in StoreRange(m, 3)
      PROVE  1 + ((a - m.addr) % MEMORY_SIZE) \in 1 .. 3
  <2>1. PICK i \in 0 .. 2 : a = (m.addr + i) % MEMORY_SIZE
    BY <1>2 DEF StoreRange, Wrap
  <2>2. PICK b \in Nat : b = m.addr
    BY AddrInNat
  <2>3. i \in Nat /\ i < MEMORY_SIZE
    BY <2>1, SizesAssumption
  <2>4. (((b + i) % MEMORY_SIZE) - b) % MEMORY_SIZE = i
    BY <2>3, Offset
  <2>5. (a - m.addr) % MEMORY_SIZE = i
    BY <2>1, <2>2, <2>4
  <2> QED
    BY <2>1, <2>5
<1>3. new \in [Address -> Byte]
  BY <1>1, <1>2, RegistersInByte, MachineFields
<1>4. StoreBcd(op, m) = [m EXCEPT !.memory = new]
  BY DEF StoreBcd
<1>5. \A a \in Address \ StoreRange(m, 3) : new[a] = m.memory[a]
  OBVIOUS
<1> HIDE DEF new
<1> QED
  BY <1>3, <1>4, <1>5 DEF Machines

LEMMA SaveRegistersType ==
  ASSUME NEW m \in Machines, NEW op \in Word
  PROVE  /\ SaveRegisters(op, m) \in Machines
         /\ SaveRegisters(op, m).pc = m.pc
         /\ \A a \in Address \ StoreRange(m, X(op) + 1) :
              SaveRegisters(op, m).memory[a] = m.memory[a]
<1> DEFINE new == [a \in Address |->
                     IF a \in StoreRange(m, X(op) + 1)
                     THEN m.regs[(a - m.addr) % MEMORY_SIZE] ELSE m.memory[a]]
<1>1. X(op) \in 0 .. 15 /\ m.addr \in Nat /\ m.regs \in [0 .. 15 -> Byte]
  BY FieldRanges, MachineFields, AddrInNat
<1>2. ASSUME NEW a \in Address, a \in StoreRange(m, X(op) + 1)
      PROVE  (a - m.addr) % MEMORY_SIZE \in 0 .. 15
  <2>1. PICK i \in 0 .. X(op) : a = (m.addr + i) % MEMORY_SIZE
    BY <1>1, <1>2 DEF StoreRange, Wrap
  <2>2. i \in Nat /\ i < MEMORY_SIZE /\ i \in 0 .. 15
    BY <1>1, SizesAssumption
  <2>3. PICK b \in Nat : b = m.addr
    BY AddrInNat
  <2>4. (((b + i) % MEMORY_SIZE) - b) % MEMORY_SIZE = i
    BY <2>2, Offset
  <2>5. (a - m.addr) % MEMORY_SIZE = i
    BY <2>1, <2>3, <2>4
  <2> QED
    BY <2>2, <2>5
<1>3. new \in [Address -> Byte]
  <2>1. \A a \in Address : m.memory[a] \in Byte
    BY MachineFields
  <2>2. \A a \in Address : a \in StoreRange(m, X(op) + 1) =>
          m.regs[(a - m.addr) % MEMORY_SIZE] \in Byte
    BY <1>1, <1>2
  <2> QED
    BY <2>1, <2>2
<1>4. SaveRegisters(op, m) = [m EXCEPT !.memory = new]
  BY DEF SaveRegisters
<1>5. \A a \in Address \ StoreRange(m, X(op) + 1) : new[a] = m.memory[a]
  OBVIOUS
<1> HIDE DEF new
<1> QED
  BY <1>3, <1>4, <1>5 DEF Machines

LEMMA RestoreRegistersType ==
  ASSUME NEW m \in Machines, NEW op \in Word
  PROVE  Keeps(m, RestoreRegisters(op, m)) /\ RestoreRegisters(op, m).pc = m.pc
<1> DEFINE new == [i \in 0 .. 15 |-> IF i <= X(op) THEN m.memory[Wrap(m.addr + i)]
                                     ELSE m.regs[i]]
<1>1. m.addr \in Nat
  BY AddrInNat
<1>2. \A i \in 0 .. 15 : Wrap(m.addr + i) \in Address
  BY <1>1, WrapRange
<1>3. new \in [0 .. 15 -> Byte]
  BY <1>2, MachineFields
<1>4. RestoreRegisters(op, m) = [m EXCEPT !.regs = new]
  BY DEF RestoreRegisters
<1> HIDE DEF new
<1>5. [m EXCEPT !.regs = new] \in Machines
  BY <1>3 DEF Machines
<1>6. [m EXCEPT !.regs = new].memory = m.memory /\ [m EXCEPT !.regs = new].pc = m.pc
  BY DEF Machines
<1> QED
  BY <1>4, <1>5, <1>6 DEF Keeps

\* The keys: at most one of the sixteen is down.
LEMMA KeysDownType ==
  ASSUME NEW m \in Machines
  PROVE  KeysDown(m) \subseteq 0 .. 15
<1>1. PICK t \in Nat : t = Tick(m)
  BY TickInNat
<1>2. (t \div 4) % 16 \in 0 .. 15
  BY <1>1
<1> QED
  BY <1>1, <1>2 DEF KeysDown

LEMMA PolledType ==
  ASSUME NEW m \in Machines, NEW n \in Nat
  PROVE  Keeps(m, Polled(m, n)) /\ Polled(m, n).pc = m.pc
<1>1. m.poll_clock + n \in Nat
  BY MachineFields
<1>2. Polled(m, n) \in Machines
  BY <1>1 DEF Polled, Machines
<1>3. Polled(m, n).memory = m.memory /\ Polled(m, n).pc = m.pc
  BY DEF Polled, Machines
<1> QED
  BY <1>2, <1>3 DEF Keeps

LEMMA CapInNat == CLOCK_CAP \in Nat
  BY BenchAssumption DEF CLOCK_CAP

LEMMA NatMinimum ==
  ASSUME NEW S \in SUBSET Nat, S # {}
  PROVE  \E n \in S : \A k \in S : n <= k
<1>1. PICK n \in S : \A k \in S : ~(<<k, n>> \in OpToRel(<, Nat))
  BY NatLessThanWellFounded, WFMin
<1>2. \A k \in S : ~(k < n)
  BY <1>1 DEF OpToRel
<1> QED
  BY <1>2

\* Polling ends: the clock cap answers if no key does.
LEMMA PollsType ==
  ASSUME NEW m \in Machines
  PROVE  /\ Polls(m) \in 1 .. CLOCK_CAP + 1
         /\ KeysDown(Polled(m, Polls(m))) # {} \/ BenchDone(Polled(m, Polls(m)))
         /\ \A k \in 1 .. Polls(m) - 1 : ~BenchDone(Polled(m, k))
<1> DEFINE answered(n) == KeysDown(Polled(m, n)) # {} \/ BenchDone(Polled(m, n))
           S == {n \in 1 .. CLOCK_CAP + 1 : answered(n)}
<1>1. CLOCK_CAP + 1 \in S
  <2>1. m.retired \in Nat /\ m.poll_clock \in Nat /\ CLOCK_CAP \in Nat
    BY MachineFields, CapInNat
  <2>2. /\ Polled(m, CLOCK_CAP + 1).retired = m.retired
        /\ Polled(m, CLOCK_CAP + 1).poll_clock = m.poll_clock + (CLOCK_CAP + 1)
    BY DEF Polled, Machines
  <2>3. BenchDone(Polled(m, CLOCK_CAP + 1))
    BY <2>1, <2>2 DEF BenchDone
  <2> QED
    BY <2>1, <2>3
<1>2. S \in SUBSET Nat /\ S # {}
  BY <1>1, CapInNat
<1>3. PICK n \in S : \A k \in S : n <= k
  BY <1>2, NatMinimum
<1>4. \A k \in 1 .. n - 1 : ~answered(k)
  BY <1>2, <1>3, CapInNat
<1>5. n \in 1 .. CLOCK_CAP + 1 /\ answered(n)
  BY <1>3
<1> HIDE DEF answered
<1>6. \E i \in 1 .. CLOCK_CAP + 1 : answered(i) /\ \A k \in 1 .. i - 1 : ~answered(k)
  BY <1>4, <1>5
<1>7. Polls(m) = CHOOSE i \in 1 .. CLOCK_CAP + 1 : answered(i) /\ \A k \in 1 .. i - 1 : ~answered(k)
  BY DEF Polls, answered
<1>8. /\ Polls(m) \in 1 .. CLOCK_CAP + 1 /\ answered(Polls(m))
      /\ \A k \in 1 .. Polls(m) - 1 : ~answered(k)
  BY <1>6, <1>7
<1> QED
  BY <1>8 DEF answered

LEMMA LoadOnKeyType ==
  ASSUME NEW m \in Machines, NEW op \in Word
  PROVE  Keeps(m, LoadOnKey(op, m)) /\ LoadOnKey(op, m).pc = (m.pc + 2) % 65536
<1> DEFINE polled == Polled(m, Polls(m))
           down   == KeysDown(polled)
           done   == ClearKeys(polled, 0 .. 15)
           key    == CHOOSE k \in down : \A l \in down : l <= k
           result == IF down = {} THEN done ELSE SetReg(done, X(op), key)
<1>1. Polls(m) \in Nat
  BY PollsType, CapInNat
<1>2. polled \in Machines /\ polled.memory = m.memory /\ polled.pc = m.pc
  BY <1>1, PolledType DEF Keeps
<1>3. done \in Machines /\ done.memory = m.memory /\ done.pc = m.pc
  BY <1>2, ClearKeysType DEF Keys
<1>4. down \subseteq 0 .. 15 /\ \A k, l \in down : k = l
  BY <1>2, KeysDownType DEF KeysDown
<1>5. down # {} => key \in Byte
  BY <1>4 DEF Byte
<1>6. X(op) \in 0 .. 15
  BY FieldRanges
<1> HIDE DEF down, done, key
<1>7. result \in Machines /\ result.memory = m.memory /\ result.pc = m.pc
  BY <1>3, <1>5, <1>6, SetRegType
<1>8. LoadOnKey(op, m) = STEP(result)
  BY DEF LoadOnKey, down, done, key
<1> HIDE DEF result
<1> QED
  BY <1>7, <1>8, StepType DEF Keeps

LEMMA SkipKeyType ==
  ASSUME NEW m \in Machines, NEW op \in Word, NEW up \in BOOLEAN
  PROVE  Keeps(m, SkipKey(op, m, up))
<1> DEFINE key == m.regs[X(op)] % 32
           hit == (key \in KeysDown(m)) # up
           n   == IF hit THEN ClearKeys(m, {key}) ELSE m
<1>1. key \in Keys
  <2>1. PICK byte \in Byte : byte = m.regs[X(op)]
    BY RegistersInByte
  <2>2. byte % 32 \in Keys
    BY DEF Byte, Keys
  <2> QED
    BY <2>1, <2>2
<1>2. hit \in BOOLEAN
  OBVIOUS
<1> HIDE DEF key, hit
<1>3. n \in Machines /\ n.memory = m.memory
  BY <1>1, ClearKeysType
<1>4. SkipKey(op, m, up) = SkipIf(n, hit)
  BY DEF SkipKey, key, hit
<1> HIDE DEF n
<1> QED
  BY <1>2, <1>3, <1>4, SkipIfType DEF Keeps

----------------------------------------------------------------------------
\* Execute, handler by handler.

LEMMA ExecuteJump ==
  ASSUME NEW m, NEW op, NEW random, Kind(op) = "jump"
  PROVE  Execute(op, m, random) = At(m, IMMEDIATE12(op))
  BY DEF Execute, ArithmeticKinds, SkipKinds

LEMMA ExecuteBranch ==
  ASSUME NEW m, NEW op, NEW random, Kind(op) = "branch"
  PROVE  Execute(op, m, random) = At(m, IMMEDIATE12(op) + m.regs[0])
  BY DEF Execute, ArithmeticKinds, SkipKinds

LEMMA ExecuteRetern ==
  ASSUME NEW m, NEW op, NEW random, Kind(op) = "retern"
  PROVE  Execute(op, m, random) =
           [At(m, m.stack[Len(m.stack)]) EXCEPT !.stack = SubSeq(@, 1, Len(@) - 1)]
  BY DEF Execute, ArithmeticKinds, SkipKinds

LEMMA ExecuteCall ==
  ASSUME NEW m, NEW op, NEW random, Kind(op) = "call"
  PROVE  Execute(op, m, random) =
           [At(m, IMMEDIATE12(op)) EXCEPT !.stack = Append(@, (m.pc + 2) % 65536)]
  BY DEF Execute, ArithmeticKinds, SkipKinds

LEMMA ExecuteStores ==
  ASSUME NEW m, NEW op, NEW random
  PROVE  /\ Kind(op) = "store_bcd" => Execute(op, m, random) = STEP(StoreBcd(op, m))
         /\ Kind(op) = "save_registers" => Execute(op, m, random) = STEP(SaveRegisters(op, m))
<1>1. Kind(op) = "store_bcd" => Execute(op, m, random) = STEP(StoreBcd(op, m))
  BY DEF Execute, ArithmeticKinds, SkipKinds
<1>2. Kind(op) = "save_registers" => Execute(op, m, random) = STEP(SaveRegisters(op, m))
  BY DEF Execute, ArithmeticKinds, SkipKinds
<1> QED
  BY <1>1, <1>2

LEMMA ExecuteSkip ==
  ASSUME NEW m, NEW op, NEW random, Kind(op) \in SkipKinds
  PROVE  Execute(op, m, random) = SkipIf(m, SkipTaken(op, m))
<1>1. CASE Kind(op) = "skip_eq_immediate"
  BY <1>1 DEF Execute, ArithmeticKinds, SkipKinds
<1>2. CASE Kind(op) = "skip_neq_immediate"
  BY <1>2 DEF Execute, ArithmeticKinds, SkipKinds
<1>3. CASE Kind(op) = "skip_eq_register"
  BY <1>3 DEF Execute, ArithmeticKinds, SkipKinds
<1>4. CASE Kind(op) = "skip_neq_register"
  BY <1>4 DEF Execute, ArithmeticKinds, SkipKinds
<1> QED
  BY <1>1, <1>2, <1>3, <1>4 DEF SkipKinds

LEMMA ExecuteKeys ==
  ASSUME NEW m, NEW op, NEW random
  PROVE  /\ Kind(op) = "skip_key_down" => Execute(op, m, random) = SkipKey(op, m, FALSE)
         /\ Kind(op) = "skip_key_up" => Execute(op, m, random) = SkipKey(op, m, TRUE)
         /\ Kind(op) = "load_on_key" => Execute(op, m, random) = LoadOnKey(op, m)
<1>1. Kind(op) = "skip_key_down" => Execute(op, m, random) = SkipKey(op, m, FALSE)
  BY DEF Execute, ArithmeticKinds, SkipKinds
<1>2. Kind(op) = "skip_key_up" => Execute(op, m, random) = SkipKey(op, m, TRUE)
  BY DEF Execute, ArithmeticKinds, SkipKinds
<1>3. Kind(op) = "load_on_key" => Execute(op, m, random) = LoadOnKey(op, m)
  BY DEF Execute, ArithmeticKinds, SkipKinds
<1> QED
  BY <1>1, <1>2, <1>3

LEMMA ExecuteArithmetic ==
  ASSUME NEW m, NEW op, NEW random, Kind(op) \in ArithmeticKinds
  PROVE  Execute(op, m, random) = STEP(Arithmetic(op, m))
<1>1. CASE Kind(op) = "move"
  BY <1>1 DEF Execute, ArithmeticKinds, SkipKinds
<1>2. CASE Kind(op) = "or"
  BY <1>2 DEF Execute, ArithmeticKinds, SkipKinds
<1>3. CASE Kind(op) = "and"
  BY <1>3 DEF Execute, ArithmeticKinds, SkipKinds
<1>4. CASE Kind(op) = "xor"
  BY <1>4 DEF Execute, ArithmeticKinds, SkipKinds
<1>5. CASE Kind(op) = "add_register"
  BY <1>5 DEF Execute, ArithmeticKinds, SkipKinds
<1>6. CASE Kind(op) = "sub_register"
  BY <1>6 DEF Execute, ArithmeticKinds, SkipKinds
<1>7. CASE Kind(op) = "shift_right"
  BY <1>7 DEF Execute, ArithmeticKinds, SkipKinds
<1>8. CASE Kind(op) = "subn_register"
  BY <1>8 DEF Execute, ArithmeticKinds, SkipKinds
<1>9. CASE Kind(op) = "shift_left"
  BY <1>9 DEF Execute, ArithmeticKinds, SkipKinds
<1> QED
  BY <1>1, <1>2, <1>3, <1>4, <1>5, <1>6, <1>7, <1>8, <1>9 DEF ArithmeticKinds

\* The handlers that end in STEP and are neither stores nor skips.
SteppingKinds ==
  {"clearscreen", "load_immediate", "add_immediate", "load_addr_immediate", "random_byte",
   "draw", "add_addr", "load_sprite_addr", "restore_registers"}
    \cup ArithmeticKinds \cup TimerKinds

LEMMA ExecuteStepping ==
  ASSUME NEW m \in Machines, NEW op \in Word, NEW random, Kind(op) \in SteppingKinds
  PROVE  \E n : Keeps(m, n) /\ n.pc = m.pc /\ Execute(op, m, random) = STEP(n)
<1> DEFINE Good(n) == Keeps(m, n) /\ n.pc = m.pc
           x == X(op)
           Result == \E n : Good(n) /\ Execute(op, m, random) = STEP(n)
<1> USE DEF ArithmeticKinds, SkipKinds, TimerKinds
<1>1. x \in 0 .. 15 /\ IMMEDIATE8(op) \in Byte /\ m.regs[x] \in Byte /\ IMMEDIATE12(op) \in Word
  BY FieldRanges, RegistersInByte, Immediate12Range, AddressInWord
<1>2. \A byte \in Byte : Good(SetReg(m, x, byte))
  BY <1>1, SetRegType DEF Keeps
<1>3. CASE Kind(op) = "clearscreen"
  <2>1. Execute(op, m, random) = STEP([m EXCEPT !.display = {}])
    BY <1>3 DEF Execute
  <2>2. Good([m EXCEPT !.display = {}])
    BY DEF Keeps, Machines
  <2> QED
    BY <2>1, <2>2
<1>4. CASE Kind(op) = "load_immediate"
  <2>1. Execute(op, m, random) = STEP(SetReg(m, x, IMMEDIATE8(op)))
    BY <1>4 DEF Execute
  <2> QED
    BY <1>1, <1>2, <2>1
<1>5. CASE Kind(op) = "add_immediate"
  <2>1. Execute(op, m, random) = STEP(SetReg(m, x, (m.regs[x] + IMMEDIATE8(op)) % 256))
    BY <1>5 DEF Execute
  <2>2. PICK sum \in Nat : sum = m.regs[x] + IMMEDIATE8(op)
    BY <1>1, BytePlus
  <2>3. sum % 256 \in Byte
    BY DEF Byte
  <2>4. Good(SetReg(m, x, sum % 256))
    BY <1>2, <2>3
  <2>5. Execute(op, m, random) = STEP(SetReg(m, x, sum % 256))
    BY <2>1, <2>2
  <2> QED
    BY <2>4, <2>5
<1>6. CASE Kind(op) \in ArithmeticKinds
  <2>1. Execute(op, m, random) = STEP(Arithmetic(op, m))
    BY <1>6, ExecuteArithmetic
  <2>2. Good(Arithmetic(op, m))
    BY <1>6, ArithmeticType
  <2> QED
    BY <2>1, <2>2
<1>7. CASE Kind(op) = "load_addr_immediate"
  <2>1. Execute(op, m, random) = STEP([m EXCEPT !.addr = IMMEDIATE12(op)])
    BY <1>7 DEF Execute
  <2>2. Good([m EXCEPT !.addr = IMMEDIATE12(op)])
    BY <1>1 DEF Keeps, Machines
  <2> QED
    BY <2>1, <2>2
<1>8. CASE Kind(op) = "random_byte"
  <2>1. Execute(op, m, random) = STEP(SetReg(m, x, BitAnd(random, IMMEDIATE8(op))))
    BY <1>8 DEF Execute
  <2> QED
    BY <1>2, <2>1, BitwiseInByte
<1>9. CASE Kind(op) = "draw"
  <2>1. Execute(op, m, random) = STEP(Draw(op, m))
    BY <1>9 DEF Execute
  <2> QED
    BY <2>1, DrawType
<1>10. CASE Kind(op) = "get_delay_timer"
  <2>1. Execute(op, m, random) = STEP(SetReg(m, x, m.delay))
    BY <1>10 DEF Execute
  <2> QED
    BY <1>2, <2>1, MachineFields
<1>11. CASE Kind(op) = "set_delay_timer"
  <2>1. Execute(op, m, random) = STEP([m EXCEPT !.delay = m.regs[x]])
    BY <1>11 DEF Execute
  <2>2. Good([m EXCEPT !.delay = m.regs[x]])
    BY <1>1 DEF Keeps, Machines
  <2> QED
    BY <2>1, <2>2
<1>12. CASE Kind(op) = "set_sound_timer"
  <2>1. Execute(op, m, random) = STEP([m EXCEPT !.sound = m.regs[x]])
    BY <1>12 DEF Execute
  <2>2. Good([m EXCEPT !.sound = m.regs[x]])
    BY <1>1 DEF Keeps, Machines
  <2> QED
    BY <2>1, <2>2
<1>13. CASE Kind(op) = "add_addr"
  <2>1. Execute(op, m, random) = STEP([m EXCEPT !.addr = (m.addr + m.regs[x]) % 65536])
    BY <1>13 DEF Execute
  <2>2. PICK sum \in Nat : sum = m.addr + m.regs[x]
    BY <1>1, AddrInNat DEF Byte
  <2>3. PICK a \in Word : a = sum % 65536
    BY WordModulo
  <2>4. Good([m EXCEPT !.addr = a])
    BY <2>3, AddrType
  <2>5. Execute(op, m, random) = STEP([m EXCEPT !.addr = a])
    BY <2>1, <2>2, <2>3
  <2> QED
    BY <2>4, <2>5
<1>14. CASE Kind(op) = "load_sprite_addr"
  <2>1. Execute(op, m, random) = STEP([m EXCEPT !.addr = 5 * (m.regs[x] % 16)])
    BY <1>14 DEF Execute
  <2>2. PICK byte \in Byte : byte = m.regs[x]
    BY <1>1
  <2>3. 5 * (byte % 16) \in Word
    BY DEF Byte, Word
  <2>4. PICK a \in Word : a = 5 * (byte % 16)
    BY <2>3
  <2>5. Good([m EXCEPT !.addr = a])
    BY <2>4, AddrType
  <2>6. Execute(op, m, random) = STEP([m EXCEPT !.addr = a])
    BY <2>1, <2>2, <2>4
  <2> QED
    BY <2>5, <2>6
<1>15. CASE Kind(op) = "restore_registers"
  <2>1. Execute(op, m, random) = STEP(RestoreRegisters(op, m))
    BY <1>15 DEF Execute
  <2> QED
    BY <2>1, RestoreRegistersType
<1> HIDE DEF Good, ArithmeticKinds
<1> QED
  BY <1>3, <1>4, <1>5, <1>6, <1>7, <1>8, <1>9, <1>10, <1>11, <1>12, <1>13, <1>14, <1>15
     DEF SteppingKinds, Good

----------------------------------------------------------------------------
\* What every instruction that does not fail guarantees.

LEMMA KeptMemory ==
  ASSUME NEW m, NEW n, Keeps(m, n), NEW a \in Word
  PROVE  [n EXCEPT !.pc = a] \in Machines /\ [n EXCEPT !.pc = a].memory = m.memory
  BY MachineAt DEF Keeps

LEMMA SteppingResult ==
  ASSUME NEW m \in Machines, NEW op \in Word, NEW random, Kind(op) \in SteppingKinds
  PROVE  /\ Keeps(m, Execute(op, m, random))
         /\ Execute(op, m, random).pc = (m.pc + 2) % 65536
<1>1. PICK n : Keeps(m, n) /\ n.pc = m.pc /\ Execute(op, m, random) = STEP(n)
  BY ExecuteStepping
<1>2. STEP(n) \in Machines /\ STEP(n).memory = n.memory /\ STEP(n).pc = (n.pc + 2) % 65536
  BY <1>1, StepType DEF Keeps
<1> QED
  BY <1>1, <1>2 DEF Keeps

LEMMA SkipResult ==
  ASSUME NEW m \in Machines, NEW op \in Word, NEW random, Kind(op) \in SkipKinds
  PROVE  /\ Keeps(m, Execute(op, m, random))
         /\ SkipTaken(op, m) => Execute(op, m, random).pc = (m.pc + 4) % 65536
<1>1. Execute(op, m, random) = SkipIf(m, SkipTaken(op, m))
  BY ExecuteSkip
<1>2. Keeps(m, SkipIf(m, SkipTaken(op, m)))
  BY SkipIfType DEF Keeps
<1>3. ASSUME SkipTaken(op, m)
      PROVE  SkipIf(m, SkipTaken(op, m)).pc = (m.pc + 4) % 65536
  <2>1. PICK n \in Nat : n = m.pc + 4
    BY MachineFields, WordPlus
  <2>2. At(m, n).pc = n % 65536
    BY AtType
  <2> QED
    BY <1>3, <2>1, <2>2 DEF SkipIf
<1> QED
  BY <1>1, <1>2, <1>3

LEMMA JumpResult ==
  ASSUME NEW m \in Machines, NEW op \in Word, NEW random, Kind(op) = "jump"
  PROVE  /\ Keeps(m, Execute(op, m, random))
         /\ Execute(op, m, random).pc = IMMEDIATE12(op)
<1>1. PICK a \in Word : a = IMMEDIATE12(op)
  BY Immediate12Range, AddressInWord
<1>2. a \in Nat /\ a % 65536 = a
  BY <1>1 DEF Word
<1>3. At(m, a) \in Machines /\ At(m, a).memory = m.memory /\ At(m, a).pc = a
  BY <1>2, AtType
<1> QED
  BY <1>1, <1>3, ExecuteJump DEF Keeps

LEMMA BranchResult ==
  ASSUME NEW m \in Machines, NEW op \in Word, NEW random, Kind(op) = "branch"
  PROVE  Keeps(m, Execute(op, m, random))
<1>1. IMMEDIATE12(op) \in Word /\ m.regs[0] \in Byte
  BY Immediate12Range, AddressInWord, RegistersInByte
<1>2. PICK n \in Nat : n = IMMEDIATE12(op) + m.regs[0]
  <2>1. m.regs[0] \in Nat
    BY <1>1 DEF Byte
  <2> QED
    BY <1>1, <2>1, WordPlus
<1>3. Keeps(m, At(m, n))
  BY AtType DEF Keeps
<1> QED
  BY <1>2, <1>3, ExecuteBranch

LEMMA SequenceEnds ==
  ASSUME NEW s \in Stacks, s # << >>
  PROVE  s[Len(s)] \in Word /\ SubSeq(s, 1, Len(s) - 1) \in Stacks
<1>1. s \in Seq(Word) /\ Len(s) <= STACK_SIZE /\ STACK_SIZE \in Nat
  BY SizesAssumption DEF Stacks
<1>2. s[Len(s)] \in Word /\ SubSeq(s, 1, Len(s) - 1) \in Seq(Word)
  BY <1>1
<1>3. Len(SubSeq(s, 1, Len(s) - 1)) <= STACK_SIZE
  BY <1>1
<1> QED
  BY <1>2, <1>3 DEF Stacks

LEMMA SequenceGrows ==
  ASSUME NEW s \in Stacks, Len(s) < STACK_SIZE, NEW a \in Word
  PROVE  Append(s, a) \in Stacks
<1>1. s \in Seq(Word) /\ STACK_SIZE \in Nat
  BY SizesAssumption DEF Stacks
<1>2. Append(s, a) \in Seq(Word) /\ Len(Append(s, a)) <= STACK_SIZE
  BY <1>1
<1> QED
  BY <1>2 DEF Stacks

LEMMA EmptyStack == << >> \in Stacks
<1>1. << >> \in Seq(Word) /\ Len(<< >>) = 0
  OBVIOUS
<1>2. STACK_SIZE \in Nat /\ 0 <= STACK_SIZE
  BY SizesAssumption
<1> QED
  BY <1>1, <1>2 DEF Stacks

LEMMA StackType ==
  ASSUME NEW m \in Machines, NEW s \in Stacks
  PROVE  Keeps(m, [m EXCEPT !.stack = s])
  BY DEF Machines, Keeps

LEMMA ReternResult ==
  ASSUME NEW m \in Machines, NEW op \in Word, NEW random, Kind(op) = "retern",
         m.stack # << >>
  PROVE  Keeps(m, Execute(op, m, random))
<1>1. m.stack[Len(m.stack)] \in Word /\ SubSeq(m.stack, 1, Len(m.stack) - 1) \in Stacks
  BY MachineFields, SequenceEnds
<1>2. PICK a \in Nat : a = m.stack[Len(m.stack)]
  BY <1>1 DEF Word
<1>3. At(m, a) \in Machines /\ At(m, a).memory = m.memory /\ At(m, a).stack = m.stack
  BY AtType
<1>4. Keeps(At(m, a), [At(m, a) EXCEPT !.stack = SubSeq(m.stack, 1, Len(m.stack) - 1)])
  BY <1>1, <1>3, StackType
<1>5. Execute(op, m, random) = [At(m, a) EXCEPT !.stack = SubSeq(m.stack, 1, Len(m.stack) - 1)]
  BY <1>2, <1>3, ExecuteRetern
<1> QED
  BY <1>3, <1>4, <1>5 DEF Keeps

LEMMA CallResult ==
  ASSUME NEW m \in Machines, NEW op \in Word, NEW random, Kind(op) = "call",
         ~(Len(m.stack) >= STACK_SIZE)
  PROVE  Keeps(m, Execute(op, m, random))
<1>1. PICK a \in Nat : a = IMMEDIATE12(op)
  <2>1. IMMEDIATE12(op) \in Word
    BY Immediate12Range, AddressInWord
  <2> QED
    BY <2>1 DEF Word
<1>2. PICK r \in Word : r = (m.pc + 2) % 65536
  <2>1. PICK n \in Nat : n = m.pc + 2
    BY MachineFields, WordPlus
  <2>2. n % 65536 \in Word
    BY WordModulo
  <2> QED
    BY <2>1, <2>2
<1>3. At(m, a) \in Machines /\ At(m, a).memory = m.memory /\ At(m, a).stack = m.stack
  BY AtType
<1>4. Append(m.stack, r) \in Stacks
  <2>1. Len(m.stack) \in Nat /\ STACK_SIZE \in Nat
    BY MachineFields, SizesAssumption
  <2>2. Len(m.stack) < STACK_SIZE
    BY <2>1
  <2> QED
    BY <1>2, <2>2, MachineFields, SequenceGrows
<1>5. Keeps(At(m, a), [At(m, a) EXCEPT !.stack = Append(m.stack, r)])
  BY <1>3, <1>4, StackType
<1>6. Execute(op, m, random) = [At(m, a) EXCEPT !.stack = Append(m.stack, r)]
  BY <1>1, <1>2, <1>3, ExecuteCall
<1> QED
  BY <1>3, <1>5, <1>6 DEF Keeps

LEMMA KeysResult ==
  ASSUME NEW m \in Machines, NEW op \in Word, NEW random,
         Kind(op) \in {"skip_key_down", "skip_key_up", "load_on_key"}
  PROVE  Keeps(m, Execute(op, m, random))
<1>1. Keeps(m, SkipKey(op, m, TRUE)) /\ Keeps(m, SkipKey(op, m, FALSE))
  BY SkipKeyType
<1>2. Keeps(m, LoadOnKey(op, m))
  BY LoadOnKeyType
<1> QED
  BY <1>1, <1>2, ExecuteKeys

LEMMA StoreBcdResult ==
  ASSUME NEW m \in Machines, NEW op \in Word, NEW random, Kind(op) = "store_bcd"
  PROVE  /\ Execute(op, m, random) \in Machines
         /\ \A a \in Address \ StoreRange(m, 3) :
              Execute(op, m, random).memory[a] = m.memory[a]
<1>1. Execute(op, m, random) = STEP(StoreBcd(op, m))
  BY ExecuteStores
<1>2. /\ StoreBcd(op, m) \in Machines
      /\ \A a \in Address \ StoreRange(m, 3) : StoreBcd(op, m).memory[a] = m.memory[a]
  BY StoreBcdType
<1> QED
  BY <1>1, <1>2, StepType

LEMMA SaveRegistersResult ==
  ASSUME NEW m \in Machines, NEW op \in Word, NEW random, Kind(op) = "save_registers"
  PROVE  /\ Execute(op, m, random) \in Machines
         /\ \A a \in Address \ StoreRange(m, X(op) + 1) :
              Execute(op, m, random).memory[a] = m.memory[a]
<1>1. Execute(op, m, random) = STEP(SaveRegisters(op, m))
  BY ExecuteStores
<1>2. /\ SaveRegisters(op, m) \in Machines
      /\ \A a \in Address \ StoreRange(m, X(op) + 1) :
           SaveRegisters(op, m).memory[a] = m.memory[a]
  BY SaveRegistersType
<1> QED
  BY <1>1, <1>2, StepType

\* Whatever an instruction does to a machine, the result is a machine.
THEOREM ExecuteType ==
  ASSUME NEW m \in Machines, NEW op \in Word, NEW random, ~Faults(op, m)
  PROVE  Execute(op, m, random) \in Machines
<1>1. /\ Kind(op) \in AllKinds /\ Kind(op) # "illegal"
      /\ Kind(op) = "retern" => m.stack # << >>
      /\ Kind(op) = "call" => ~(Len(m.stack) >= STACK_SIZE)
  BY KindRange DEF Faults
<1>2. CASE Kind(op) \in SteppingKinds
  BY <1>2, SteppingResult DEF Keeps
<1>3. CASE Kind(op) \in SkipKinds
  BY <1>3, SkipResult DEF Keeps
<1>4. CASE Kind(op) \in {"jump", "branch", "retern", "call"}
  BY <1>1, <1>4, JumpResult, BranchResult, ReternResult, CallResult DEF Keeps
<1>5. CASE Kind(op) \in {"skip_key_down", "skip_key_up", "load_on_key"}
  BY <1>5, KeysResult DEF Keeps
<1>6. CASE Kind(op) \in {"store_bcd", "save_registers"}
  BY <1>6, StoreBcdResult, SaveRegistersResult
<1> QED
  BY <1>1, <1>2, <1>3, <1>4, <1>5, <1>6 DEF AllKinds, SteppingKinds, SkipKinds

\* Only the two stores write memory.
THEOREM ExecuteKeepsMemory ==
  ASSUME NEW m \in Machines, NEW op \in Word, NEW random, ~Faults(op, m),
         Kind(op) \notin {"store_bcd", "save_registers"}
  PROVE  Execute(op, m, random).memory = m.memory
<1>1. /\ Kind(op) \in AllKinds /\ Kind(op) # "illegal"
      /\ Kind(op) = "retern" => m.stack # << >>
      /\ Kind(op) = "call" => ~(Len(m.stack) >= STACK_SIZE)
  BY KindRange DEF Faults
<1>2. CASE Kind(op) \in SteppingKinds
  BY <1>2, SteppingResult DEF Keeps
<1>3. CASE Kind(op) \in SkipKinds
  BY <1>3, SkipResult DEF Keeps
<1>4. CASE Kind(op) \in {"jump", "branch", "retern", "call"}
  BY <1>1, <1>4, JumpResult, BranchResult, ReternResult, CallResult DEF Keeps
<1>5. CASE Kind(op) \in {"skip_key_down", "skip_key_up", "load_on_key"}
  BY <1>5, KeysResult DEF Keeps
<1> QED
  BY <1>1, <1>2, <1>3, <1>4, <1>5 DEF AllKinds, SteppingKinds, SkipKinds

----------------------------------------------------------------------------
\* Two machines that differ in nothing but what their timers have counted: an
\* instruction that does not look at the timers takes them to two such machines.

Alike(m, n) ==
  /\ m.pc = n.pc /\ m.regs = n.regs /\ m.addr = n.addr /\ m.stack = n.stack
  /\ m.memory = n.memory /\ m.display = n.display
  /\ m.retired = n.retired /\ m.poll_clock = n.poll_clock
  /\ m.cleared = n.cleared /\ m.cleared_tick = n.cleared_tick
SameTimers(m, a) == a.delay = m.delay /\ a.sound = m.sound /\ a.last_tick = m.last_tick
Twins(m, n, a, b) == Alike(a, b) /\ SameTimers(m, a) /\ SameTimers(n, b)

LEMMA FieldAlike ==
  ASSUME NEW m \in Machines, NEW n \in Machines, Alike(m, n), NEW v
  PROVE  /\ Twins(m, n, STEP([m EXCEPT !.regs = v]), STEP([n EXCEPT !.regs = v]))
         /\ Twins(m, n, STEP([m EXCEPT !.addr = v]), STEP([n EXCEPT !.addr = v]))
         /\ Twins(m, n, STEP([m EXCEPT !.memory = v]), STEP([n EXCEPT !.memory = v]))
         /\ Twins(m, n, STEP([m EXCEPT !.display = v]), STEP([n EXCEPT !.display = v]))
<1>1. Twins(m, n, STEP([m EXCEPT !.regs = v]), STEP([n EXCEPT !.regs = v]))
  BY DEF Machines, Twins, Alike, SameTimers, STEP, At
<1>2. Twins(m, n, STEP([m EXCEPT !.addr = v]), STEP([n EXCEPT !.addr = v]))
  BY DEF Machines, Twins, Alike, SameTimers, STEP, At
<1>3. Twins(m, n, STEP([m EXCEPT !.memory = v]), STEP([n EXCEPT !.memory = v]))
  BY DEF Machines, Twins, Alike, SameTimers, STEP, At
<1>4. Twins(m, n, STEP([m EXCEPT !.display = v]), STEP([n EXCEPT !.display = v]))
  BY DEF Machines, Twins, Alike, SameTimers, STEP, At
<1> QED
  BY <1>1, <1>2, <1>3, <1>4

LEMMA JumpAlike ==
  ASSUME NEW m \in Machines, NEW n \in Machines, Alike(m, n), NEW a, NEW c
  PROVE  /\ Twins(m, n, At(m, a), At(n, a))
         /\ Twins(m, n, STEP(m), STEP(n))
         /\ Twins(m, n, SkipIf(m, c), SkipIf(n, c))
<1>1. \A t : Twins(m, n, At(m, t), At(n, t))
  BY DEF Machines, Twins, Alike, SameTimers, At
<1>2. m.pc + 2 = n.pc + 2 /\ m.pc + 4 = n.pc + 4
  BY DEF Alike
<1>3. Twins(m, n, STEP(m), STEP(n))
  BY <1>1, <1>2 DEF STEP
<1>4. Twins(m, n, SkipIf(m, c), SkipIf(n, c))
  BY <1>1, <1>2, <1>3 DEF SkipIf
<1> QED
  BY <1>1, <1>3, <1>4

LEMMA StackAlike ==
  ASSUME NEW m \in Machines, NEW n \in Machines, Alike(m, n), NEW a, NEW s
  PROVE  Twins(m, n, [At(m, a) EXCEPT !.stack = s], [At(n, a) EXCEPT !.stack = s])
  BY DEF Machines, Twins, Alike, SameTimers, At

LEMMA RegAlike ==
  ASSUME NEW m \in Machines, NEW n \in Machines, Alike(m, n), NEW x, NEW byte
  PROVE  Twins(m, n, STEP(SetReg(m, x, byte)), STEP(SetReg(n, x, byte)))
<1>1. PICK v : v = [m.regs EXCEPT ![x] = byte]
  OBVIOUS
<1>2. SetReg(m, x, byte) = [m EXCEPT !.regs = v]
  BY <1>1 DEF SetReg
<1>3. SetReg(n, x, byte) = [n EXCEPT !.regs = v]
  BY <1>1 DEF SetReg, Alike
<1> QED
  BY <1>2, <1>3, FieldAlike

LEMMA ArithmeticAlike ==
  ASSUME NEW m, NEW n, NEW op, m.regs = n.regs, Kind(op) \in ArithmeticKinds
  PROVE  \E v : Arithmetic(op, m) = [m EXCEPT !.regs = v] /\ Arithmetic(op, n) = [n EXCEPT !.regs = v]
<1> DEFINE Written(v) == Arithmetic(op, m) = [m EXCEPT !.regs = v] /\ Arithmetic(op, n) = [n EXCEPT !.regs = v]
<1>1. ASSUME NEW x, NEW byte, Arithmetic(op, m) = SetReg(m, x, byte), Arithmetic(op, n) = SetReg(n, x, byte)
      PROVE  \E v : Written(v)
  <2>1. PICK v : v = [m.regs EXCEPT ![x] = byte]
    OBVIOUS
  <2>2. Written(v)
    BY <1>1, <2>1 DEF SetReg
  <2> QED
    BY <2>2
<1>2. ASSUME NEW x, NEW byte, NEW flag, Arithmetic(op, m) = SetRegFlag(m, x, byte, flag),
             Arithmetic(op, n) = SetRegFlag(n, x, byte, flag)
      PROVE  \E v : Written(v)
  <2>1. PICK v : v = [[m.regs EXCEPT ![x] = byte] EXCEPT ![15] = flag]
    OBVIOUS
  <2>2. Written(v)
    BY <1>2, <2>1 DEF SetRegFlag
  <2> QED
    BY <2>2
<1>3. PICK x, vx, vy : x = X(op) /\ vx = m.regs[x] /\ vy = m.regs[Y(op)]
  OBVIOUS
<1>4. vx = n.regs[x] /\ vy = n.regs[Y(op)]
  BY <1>3
<1>5. CASE Kind(op) = "move"
  <2>1. Arithmetic(op, m) = SetReg(m, x, vy) /\ Arithmetic(op, n) = SetReg(n, x, vy)
    BY <1>3, <1>4, <1>5 DEF Arithmetic
  <2> QED
    BY <1>1, <2>1
<1>6. CASE Kind(op) = "or"
  <2>1. Arithmetic(op, m) = SetReg(m, x, BitOr(vx, vy)) /\ Arithmetic(op, n) = SetReg(n, x, BitOr(vx, vy))
    BY <1>3, <1>4, <1>6 DEF Arithmetic
  <2> QED
    BY <1>1, <2>1
<1>7. CASE Kind(op) = "and"
  <2>1. Arithmetic(op, m) = SetReg(m, x, BitAnd(vx, vy)) /\ Arithmetic(op, n) = SetReg(n, x, BitAnd(vx, vy))
    BY <1>3, <1>4, <1>7 DEF Arithmetic
  <2> QED
    BY <1>1, <2>1
<1>8. CASE Kind(op) = "xor"
  <2>1. Arithmetic(op, m) = SetReg(m, x, BitXor(vx, vy)) /\ Arithmetic(op, n) = SetReg(n, x, BitXor(vx, vy))
    BY <1>3, <1>4, <1>8 DEF Arithmetic
  <2> QED
    BY <1>1, <2>1
<1>9. CASE Kind(op) = "add_register"
  <2>1. /\ Arithmetic(op, m) = SetRegFlag(m, x, (vx + vy) % 256, Flag(vx + vy > 255))
        /\ Arithmetic(op, n) = SetRegFlag(n, x, (vx + vy) % 256, Flag(vx + vy > 255))
    BY <1>3, <1>4, <1>9 DEF Arithmetic
  <2>2. PICK byte, flag : byte = (vx + vy) % 256 /\ flag = Flag(vx + vy > 255)
    OBVIOUS
  <2>3. /\ Arithmetic(op, m) = SetRegFlag(m, x, byte, flag)
        /\ Arithmetic(op, n) = SetRegFlag(n, x, byte, flag)
    BY <2>1, <2>2
  <2> QED
    BY <1>2, <2>3
<1>10. CASE Kind(op) = "sub_register"
  <2>1. /\ Arithmetic(op, m) = SetRegFlag(m, x, (vx - vy) % 256, Flag(vx >= vy))
        /\ Arithmetic(op, n) = SetRegFlag(n, x, (vx - vy) % 256, Flag(vx >= vy))
    BY <1>3, <1>4, <1>10 DEF Arithmetic
  <2>2. PICK byte, flag : byte = (vx - vy) % 256 /\ flag = Flag(vx >= vy)
    OBVIOUS
  <2>3. /\ Arithmetic(op, m) = SetRegFlag(m, x, byte, flag)
        /\ Arithmetic(op, n) = SetRegFlag(n, x, byte, flag)
    BY <2>1, <2>2
  <2> QED
    BY <1>2, <2>3
<1>11. CASE Kind(op) = "shift_right"
  <2>1. /\ Arithmetic(op, m) = SetRegFlag(m, x, vx \div 2, vx % 2)
        /\ Arithmetic(op, n) = SetRegFlag(n, x, vx \div 2, vx % 2)
    BY <1>3, <1>4, <1>11 DEF Arithmetic
  <2>2. PICK byte, flag : byte = vx \div 2 /\ flag = vx % 2
    OBVIOUS
  <2>3. /\ Arithmetic(op, m) = SetRegFlag(m, x, byte, flag)
        /\ Arithmetic(op, n) = SetRegFlag(n, x, byte, flag)
    BY <2>1, <2>2
  <2> QED
    BY <1>2, <2>3
<1>12. CASE Kind(op) = "subn_register"
  <2>1. /\ Arithmetic(op, m) = SetRegFlag(m, x, (vy - vx) % 256, Flag(vy >= vx))
        /\ Arithmetic(op, n) = SetRegFlag(n, x, (vy - vx) % 256, Flag(vy >= vx))
    BY <1>3, <1>4, <1>12 DEF Arithmetic
  <2>2. PICK byte, flag : byte = (vy - vx) % 256 /\ flag = Flag(vy >= vx)
    OBVIOUS
  <2>3. /\ Arithmetic(op, m) = SetRegFlag(m, x, byte, flag)
        /\ Arithmetic(op, n) = SetRegFlag(n, x, byte, flag)
    BY <2>1, <2>2
  <2> QED
    BY <1>2, <2>3
<1>13. CASE Kind(op) = "shift_left"
  <2>1. /\ Arithmetic(op, m) = SetRegFlag(m, x, (2 * vx) % 256, vx \div 128)
        /\ Arithmetic(op, n) = SetRegFlag(n, x, (2 * vx) % 256, vx \div 128)
    BY <1>3, <1>4, <1>13 DEF Arithmetic
  <2>2. PICK byte, flag : byte = (2 * vx) % 256 /\ flag = vx \div 128
    OBVIOUS
  <2>3. /\ Arithmetic(op, m) = SetRegFlag(m, x, byte, flag)
        /\ Arithmetic(op, n) = SetRegFlag(n, x, byte, flag)
    BY <2>1, <2>2
  <2> QED
    BY <1>2, <2>3
<1> QED
  BY <1>5, <1>6, <1>7, <1>8, <1>9, <1>10, <1>11, <1>12, <1>13 DEF ArithmeticKinds

LEMMA LoadAlike ==
  ASSUME NEW m \in Machines, NEW n \in Machines, Alike(m, n), NEW op
  PROVE  Twins(m, n, STEP(RestoreRegisters(op, m)), STEP(RestoreRegisters(op, n)))
<1>1. PICK v : v = [i \in 0 .. 15 |-> IF i <= X(op) THEN m.memory[Wrap(m.addr + i)] ELSE m.regs[i]]
  OBVIOUS
<1>2. RestoreRegisters(op, m) = [m EXCEPT !.regs = v]
  BY <1>1 DEF RestoreRegisters
<1>3. RestoreRegisters(op, n) = [n EXCEPT !.regs = v]
  BY <1>1 DEF RestoreRegisters, Alike
<1> QED
  BY <1>2, <1>3, FieldAlike

LEMMA StoreAlike ==
  ASSUME NEW m \in Machines, NEW n \in Machines, Alike(m, n), NEW op
  PROVE  /\ Twins(m, n, STEP(StoreBcd(op, m)), STEP(StoreBcd(op, n)))
         /\ Twins(m, n, STEP(SaveRegisters(op, m)), STEP(SaveRegisters(op, n)))
<1>1. \A k : StoreRange(m, k) = StoreRange(n, k)
  BY DEF StoreRange, Alike
<1>2. PICK v : v = [a \in Address |-> IF a \in StoreRange(m, 3)
                                     THEN Bcd(m.regs[X(op)])[1 + ((a - m.addr) % MEMORY_SIZE)]
                                     ELSE m.memory[a]]
  OBVIOUS
<1>3. PICK w : w = [a \in Address |-> IF a \in StoreRange(m, X(op) + 1)
                                     THEN m.regs[(a - m.addr) % MEMORY_SIZE]
                                     ELSE m.memory[a]]
  OBVIOUS
<1>4. StoreBcd(op, m) = [m EXCEPT !.memory = v] /\ SaveRegisters(op, m) = [m EXCEPT !.memory = w]
  BY <1>2, <1>3 DEF StoreBcd, SaveRegisters
<1>5. m.regs = n.regs /\ m.addr = n.addr /\ m.memory = n.memory
  BY DEF Alike
<1>6. v = [a \in Address |-> IF a \in StoreRange(n, 3)
                            THEN Bcd(n.regs[X(op)])[1 + ((a - n.addr) % MEMORY_SIZE)]
                            ELSE n.memory[a]]
  BY <1>1, <1>2, <1>5
<1>7. w = [a \in Address |-> IF a \in StoreRange(n, X(op) + 1)
                            THEN n.regs[(a - n.addr) % MEMORY_SIZE]
                            ELSE n.memory[a]]
  BY <1>1, <1>3, <1>5
<1>8. StoreBcd(op, n) = [n EXCEPT !.memory = v] /\ SaveRegisters(op, n) = [n EXCEPT !.memory = w]
  BY <1>6, <1>7 DEF StoreBcd, SaveRegisters
<1>9. \A memory : Twins(m, n, STEP([m EXCEPT !.memory = memory]), STEP([n EXCEPT !.memory = memory]))
  BY FieldAlike
<1>10. Twins(m, n, STEP(StoreBcd(op, m)), STEP(StoreBcd(op, n)))
  BY <1>4, <1>8, <1>9
<1>11. Twins(m, n, STEP(SaveRegisters(op, m)), STEP(SaveRegisters(op, n)))
  BY <1>4, <1>8, <1>9
<1> QED
  BY <1>10, <1>11

LEMMA SpriteAlike ==
  ASSUME NEW m, NEW n, m.memory = n.memory, m.addr = n.addr, NEW x, NEW y, NEW k
  PROVE  SpritePixels(m, x, y, k) = SpritePixels(n, x, y, k)
<1>1. PICK memory, addr : memory = m.memory /\ addr = m.addr
  OBVIOUS
<1>2. memory = n.memory /\ addr = n.addr
  BY <1>1
<1>3. SpritePixels(m, x, y, k) =
        {p \in (0 .. Width - 1) \X (0 .. Height - 1) :
           LET i == p[1] - (x % Width)
               j == p[2] - (y % Height)
           IN  /\ i \in 0 .. 7
               /\ j \in 0 .. k - 1
               /\ BitSet(memory[Wrap(addr + j)], 7 - i)}
  BY <1>1 DEF SpritePixels
<1>4. SpritePixels(n, x, y, k) =
        {p \in (0 .. Width - 1) \X (0 .. Height - 1) :
           LET i == p[1] - (x % Width)
               j == p[2] - (y % Height)
           IN  /\ i \in 0 .. 7
               /\ j \in 0 .. k - 1
               /\ BitSet(memory[Wrap(addr + j)], 7 - i)}
  BY <1>2 DEF SpritePixels
<1> QED
  BY <1>3, <1>4

LEMMA DrawAlike ==
  ASSUME NEW m \in Machines, NEW n \in Machines, Alike(m, n), NEW op
  PROVE  Twins(m, n, STEP(Draw(op, m)), STEP(Draw(op, n)))
<1>1. PICK s : s = SpritePixels(m, m.regs[X(op)], m.regs[Y(op)], IMMEDIATE4(op))
  OBVIOUS
<1>2. m.regs = n.regs /\ m.addr = n.addr /\ m.memory = n.memory /\ m.display = n.display
  BY DEF Alike
<1>3. s = SpritePixels(n, n.regs[X(op)], n.regs[Y(op)], IMMEDIATE4(op))
  BY <1>1, <1>2, SpriteAlike
<1>4. PICK d, v : /\ d = (m.display \ s) \cup (s \ m.display)
                  /\ v = [m.regs EXCEPT ![15] = Flag(m.display \cap s # {})]
  OBVIOUS
<1>5. Draw(op, m) = [m EXCEPT !.display = d, !.regs = v]
  BY <1>1, <1>4 DEF Draw, Machines
<1>6. Draw(op, n) = [n EXCEPT !.display = d, !.regs = v]
  BY <1>2, <1>3, <1>4 DEF Draw, Machines
<1>7. Twins(m, n, STEP([m EXCEPT !.display = d, !.regs = v]), STEP([n EXCEPT !.display = d, !.regs = v]))
  BY DEF Machines, Twins, Alike, SameTimers, STEP, At
<1> QED
  BY <1>5, <1>6, <1>7

LEMMA SteppingAlike ==
  ASSUME NEW m \in Machines, NEW n \in Machines, Alike(m, n), NEW op, NEW random,
         Kind(op) \in SteppingKinds \ TimerKinds
  PROVE  Twins(m, n, Execute(op, m, random), Execute(op, n, random))
<1>0. m.regs = n.regs /\ m.addr = n.addr /\ Kind(op) \notin TimerKinds
  BY DEF Alike
<1>1. CASE Kind(op) = "load_immediate"
  <2>1. \A k : Execute(op, k, random) = STEP(SetReg(k, X(op), IMMEDIATE8(op)))
    BY <1>1 DEF Execute, ArithmeticKinds, SkipKinds
  <2> QED
    BY <2>1, RegAlike
<1>2. CASE Kind(op) = "add_immediate"
  <2>1. \A k : Execute(op, k, random) = STEP(SetReg(k, X(op), (k.regs[X(op)] + IMMEDIATE8(op)) % 256))
    BY <1>2 DEF Execute, ArithmeticKinds, SkipKinds
  <2>2. PICK byte : byte = (m.regs[X(op)] + IMMEDIATE8(op)) % 256
    OBVIOUS
  <2> QED
    BY <1>0, <2>1, <2>2, RegAlike
<1>3. CASE Kind(op) = "random_byte"
  <2>1. \A k : Execute(op, k, random) = STEP(SetReg(k, X(op), BitAnd(random, IMMEDIATE8(op))))
    BY <1>3 DEF Execute, ArithmeticKinds, SkipKinds
  <2> QED
    BY <2>1, RegAlike
<1>4. CASE Kind(op) \in ArithmeticKinds
  <2>1. Execute(op, m, random) = STEP(Arithmetic(op, m)) /\ Execute(op, n, random) = STEP(Arithmetic(op, n))
    BY <1>4, ExecuteArithmetic
  <2>2. PICK v : Arithmetic(op, m) = [m EXCEPT !.regs = v] /\ Arithmetic(op, n) = [n EXCEPT !.regs = v]
    BY <1>0, <1>4, ArithmeticAlike
  <2>3. Twins(m, n, STEP([m EXCEPT !.regs = v]), STEP([n EXCEPT !.regs = v]))
    BY FieldAlike
  <2> QED
    BY <2>1, <2>2, <2>3
<1>5. CASE Kind(op) = "load_addr_immediate"
  <2>1. /\ Execute(op, m, random) = STEP([m EXCEPT !.addr = IMMEDIATE12(op)])
        /\ Execute(op, n, random) = STEP([n EXCEPT !.addr = IMMEDIATE12(op)])
    BY <1>5 DEF Execute, ArithmeticKinds, SkipKinds
  <2> QED
    BY <2>1, FieldAlike
<1>6. CASE Kind(op) = "add_addr"
  <2>1. \A k : Execute(op, k, random) = STEP([k EXCEPT !.addr = (k.addr + k.regs[X(op)]) % 65536])
    BY <1>6 DEF Execute, ArithmeticKinds, SkipKinds
  <2>2. PICK v : v = (m.addr + m.regs[X(op)]) % 65536
    OBVIOUS
  <2>3. Twins(m, n, STEP([m EXCEPT !.addr = v]), STEP([n EXCEPT !.addr = v]))
    BY FieldAlike
  <2>4. v = (n.addr + n.regs[X(op)]) % 65536
    BY <1>0, <2>2
  <2> QED
    BY <2>1, <2>2, <2>3, <2>4
<1>7. CASE Kind(op) = "load_sprite_addr"
  <2>1. \A k : Execute(op, k, random) = STEP([k EXCEPT !.addr = 5 * (k.regs[X(op)] % 16)])
    BY <1>7 DEF Execute, ArithmeticKinds, SkipKinds
  <2>2. PICK v : v = 5 * (m.regs[X(op)] % 16)
    OBVIOUS
  <2>3. Twins(m, n, STEP([m EXCEPT !.addr = v]), STEP([n EXCEPT !.addr = v]))
    BY FieldAlike
  <2> QED
    BY <1>0, <2>1, <2>2, <2>3
<1>8. CASE Kind(op) = "restore_registers"
  <2>1. \A k : Execute(op, k, random) = STEP(RestoreRegisters(op, k))
    BY <1>8 DEF Execute, ArithmeticKinds, SkipKinds
  <2> QED
    BY <2>1, LoadAlike
<1>9. CASE Kind(op) = "draw"
  <2>1. \A k : Execute(op, k, random) = STEP(Draw(op, k))
    BY <1>9 DEF Execute, ArithmeticKinds, SkipKinds
  <2> QED
    BY <2>1, DrawAlike
<1>10. CASE Kind(op) = "clearscreen"
  <2>1. /\ Execute(op, m, random) = STEP([m EXCEPT !.display = {}])
        /\ Execute(op, n, random) = STEP([n EXCEPT !.display = {}])
    BY <1>10 DEF Execute, ArithmeticKinds, SkipKinds
  <2> QED
    BY <2>1, FieldAlike
<1> QED
  BY <1>0, <1>1, <1>2, <1>3, <1>4, <1>5, <1>6, <1>7, <1>8, <1>9, <1>10 DEF SteppingKinds, TimerKinds

LEMMA SkipAlike ==
  ASSUME NEW m, NEW n, NEW op, m.regs = n.regs
  PROVE  SkipTaken(op, m) <=> SkipTaken(op, n)
  BY DEF SkipTaken

LEMMA ControlAlike ==
  ASSUME NEW m \in Machines, NEW n \in Machines, Alike(m, n), NEW op, NEW random,
         Kind(op) \in SkipKinds \cup {"jump", "branch", "retern", "call"}
  PROVE  Twins(m, n, Execute(op, m, random), Execute(op, n, random))
<1>1. m.regs = n.regs /\ m.stack = n.stack /\ m.pc = n.pc
  BY DEF Alike
<1>2. CASE Kind(op) \in SkipKinds
  <2>1. PICK c : c = SkipTaken(op, m)
    OBVIOUS
  <2>2. SkipTaken(op, n) <=> SkipTaken(op, m)
    BY <1>1, SkipAlike
  <2>3. SkipIf(m, SkipTaken(op, m)) = SkipIf(m, c) /\ SkipIf(n, SkipTaken(op, n)) = SkipIf(n, c)
    BY <2>1, <2>2 DEF SkipIf
  <2> QED
    BY <1>2, <2>3, ExecuteSkip, JumpAlike
<1>3. CASE Kind(op) = "jump"
  BY <1>3, ExecuteJump, JumpAlike
<1>4. CASE Kind(op) = "branch"
  <2>1. PICK a : a = IMMEDIATE12(op) + m.regs[0]
    OBVIOUS
  <2>2. Execute(op, m, random) = At(m, a) /\ Execute(op, n, random) = At(n, a)
    BY <1>1, <1>4, <2>1, ExecuteBranch
  <2> QED
    BY <2>2, JumpAlike
<1>5. \A a : At(m, a).stack = m.stack /\ At(n, a).stack = n.stack
  BY DEF At, Machines
<1>6. CASE Kind(op) = "retern"
  <2>1. PICK a, s : a = m.stack[Len(m.stack)] /\ s = SubSeq(m.stack, 1, Len(m.stack) - 1)
    OBVIOUS
  <2>2. Execute(op, m, random) = [At(m, a) EXCEPT !.stack = s]
    BY <1>5, <1>6, <2>1, ExecuteRetern
  <2>3. Execute(op, n, random) = [At(n, a) EXCEPT !.stack = s]
    BY <1>1, <1>5, <1>6, <2>1, ExecuteRetern
  <2> QED
    BY <2>2, <2>3, StackAlike
<1>7. CASE Kind(op) = "call"
  <2>0. PICK a : a = IMMEDIATE12(op)
    OBVIOUS
  <2>1. PICK next : next = (m.pc + 2) % 65536
    OBVIOUS
  <2>2. PICK s : s = Append(m.stack, next)
    OBVIOUS
  <2>3. Execute(op, m, random) = [At(m, a) EXCEPT !.stack = s]
    BY <1>5, <1>7, <2>0, <2>1, <2>2, ExecuteCall
  <2>4. Execute(op, n, random) = [At(n, a) EXCEPT !.stack = s]
    BY <1>1, <1>5, <1>7, <2>0, <2>1, <2>2, ExecuteCall
  <2> QED
    BY <2>3, <2>4, StackAlike
<1> QED
  BY <1>2, <1>3, <1>4, <1>6, <1>7

LEMMA KeysAlike ==
  ASSUME NEW m \in Machines, NEW n \in Machines, Alike(m, n)
  PROVE  /\ Tick(m) = Tick(n) /\ Cleared(m) = Cleared(n) /\ KeysDown(m) = KeysDown(n)
         /\ BenchDone(m) <=> BenchDone(n)
<1>1. Tick(m) = Tick(n)
  BY DEF Alike, Tick
<1>2. Cleared(m) = Cleared(n)
  BY <1>1 DEF Alike, Cleared
<1>3. KeysDown(m) = KeysDown(n)
  BY <1>1, <1>2 DEF KeysDown
<1>4. BenchDone(m) <=> BenchDone(n)
  BY DEF Alike, BenchDone
<1> QED
  BY <1>1, <1>2, <1>3, <1>4

LEMMA ClearAlike ==
  ASSUME NEW m \in Machines, NEW n \in Machines, Alike(m, n), NEW keys
  PROVE  Twins(m, n, ClearKeys(m, keys), ClearKeys(n, keys))
<1>1. PICK c, t : c = Cleared(m) \cup keys /\ t = Tick(m)
  OBVIOUS
<1>2. ClearKeys(m, keys) = [m EXCEPT !.cleared = c, !.cleared_tick = t]
  BY <1>1 DEF ClearKeys
<1>3. ClearKeys(n, keys) = [n EXCEPT !.cleared = c, !.cleared_tick = t]
  BY <1>1, KeysAlike DEF ClearKeys
<1> QED
  BY <1>2, <1>3 DEF Machines, Twins, Alike, SameTimers

\* Of two steps one after the other.
LEMMA TwinsCompose ==
  ASSUME NEW m, NEW n, NEW a, NEW b, NEW c, NEW d, Twins(m, n, a, b), Twins(a, b, c, d)
  PROVE  Twins(m, n, c, d)
  BY DEF Twins, SameTimers

LEMMA SkipKeyAlike ==
  ASSUME NEW m \in Machines, NEW n \in Machines, Alike(m, n), NEW op \in Word, NEW up \in BOOLEAN
  PROVE  Twins(m, n, SkipKey(op, m, up), SkipKey(op, n, up))
<1>1. PICK key \in Keys : key = m.regs[X(op)] % 32
  <2>1. PICK byte \in Byte : byte = m.regs[X(op)]
    BY RegistersInByte
  <2>2. byte % 32 \in Keys
    BY DEF Byte, Keys
  <2> QED
    BY <2>1, <2>2
<1>2. key = n.regs[X(op)] % 32 /\ KeysDown(m) = KeysDown(n)
  BY <1>1, KeysAlike DEF Alike
<1>3. CASE (key \in KeysDown(m)) # up
  <2>1. /\ SkipKey(op, m, up) = SkipIf(ClearKeys(m, {key}), TRUE)
        /\ SkipKey(op, n, up) = SkipIf(ClearKeys(n, {key}), TRUE)
    BY <1>1, <1>2, <1>3 DEF SkipKey, SkipIf
  <2>2. PICK a, b : a = ClearKeys(m, {key}) /\ b = ClearKeys(n, {key})
    OBVIOUS
  <2>3. Twins(m, n, a, b)
    BY <2>2, ClearAlike
  <2>4. a \in Machines /\ b \in Machines
    BY <2>2, ClearKeysType
  <2>5. Twins(a, b, SkipIf(a, TRUE), SkipIf(b, TRUE))
    BY <2>3, <2>4, JumpAlike DEF Twins
  <2>6. Twins(m, n, SkipIf(a, TRUE), SkipIf(b, TRUE))
    BY <2>3, <2>5, TwinsCompose
  <2> QED
    BY <2>1, <2>2, <2>6
<1>4. CASE ~((key \in KeysDown(m)) # up)
  <2>1. SkipKey(op, m, up) = SkipIf(m, FALSE) /\ SkipKey(op, n, up) = SkipIf(n, FALSE)
    BY <1>1, <1>2, <1>4 DEF SkipKey, SkipIf
  <2> QED
    BY <2>1, JumpAlike
<1> QED
  BY <1>3, <1>4

\* A wait takes as many polls in both.
LEMMA PollsAlike ==
  ASSUME NEW m \in Machines, NEW n \in Machines, Alike(m, n)
  PROVE  /\ Polls(m) = Polls(n)
         /\ \A k \in Nat : Twins(m, n, Polled(m, k), Polled(n, k))
<1>1. \A k : Twins(m, n, Polled(m, k), Polled(n, k))
  BY DEF Machines, Twins, Alike, SameTimers, Polled
<1>2. \A k \in Nat : /\ KeysDown(Polled(m, k)) = KeysDown(Polled(n, k))
                     /\ BenchDone(Polled(m, k)) <=> BenchDone(Polled(n, k))
  <2> TAKE k \in Nat
  <2>1. PICK a, b : a = Polled(m, k) /\ b = Polled(n, k)
    OBVIOUS
  <2>2. a \in Machines /\ b \in Machines /\ Alike(a, b)
    BY <1>1, <2>1, PolledType DEF Keeps, Twins
  <2> QED
    BY <2>1, <2>2, KeysAlike
<1>3. \A k \in 1 .. CLOCK_CAP + 1 : k \in Nat /\ \A l \in 1 .. k - 1 : l \in Nat
  BY CapInNat
<1> DEFINE answered(k) == KeysDown(Polled(m, k)) # {} \/ BenchDone(Polled(m, k))
           other(k) == KeysDown(Polled(n, k)) # {} \/ BenchDone(Polled(n, k))
<1>4. \A k \in Nat : answered(k) <=> other(k)
  BY <1>2
<1>5. Polls(m) = CHOOSE i \in 1 .. CLOCK_CAP + 1 : answered(i) /\ \A k \in 1 .. i - 1 : ~answered(k)
  BY DEF Polls
<1>6. Polls(n) = CHOOSE i \in 1 .. CLOCK_CAP + 1 : other(i) /\ \A k \in 1 .. i - 1 : ~other(k)
  BY DEF Polls
<1> HIDE DEF answered, other
<1>7. \A i \in 1 .. CLOCK_CAP + 1 : (answered(i) /\ \A k \in 1 .. i - 1 : ~answered(k)) <=>
                                      (other(i) /\ \A k \in 1 .. i - 1 : ~other(k))
  BY <1>3, <1>4
<1>8. Polls(m) = Polls(n)
  BY <1>5, <1>6, <1>7
<1> QED
  BY <1>1, <1>8

LEMMA LoadOnKeyAlike ==
  ASSUME NEW m \in Machines, NEW n \in Machines, Alike(m, n), NEW op
  PROVE  Twins(m, n, LoadOnKey(op, m), LoadOnKey(op, n))
<1>1. PICK k \in Nat : k = Polls(m) /\ k = Polls(n)
  BY PollsType, PollsAlike, CapInNat
<1>2. PICK p, q : p = Polled(m, k) /\ q = Polled(n, k)
  OBVIOUS
<1>3. p \in Machines /\ q \in Machines /\ Twins(m, n, p, q)
  BY <1>2, PollsAlike, PolledType DEF Keeps
<1>4. PICK down : down = KeysDown(p) /\ down = KeysDown(q)
  BY <1>3, KeysAlike DEF Twins
<1>5. PICK a, b : a = ClearKeys(p, 0 .. 15) /\ b = ClearKeys(q, 0 .. 15)
  OBVIOUS
<1>6. a \in Machines /\ b \in Machines
  BY <1>3, <1>5, ClearKeysType DEF Keys
<1>7. Twins(p, q, a, b)
  BY <1>3, <1>5, ClearAlike DEF Twins
<1>8. PICK key : key = CHOOSE l \in down : \A o \in down : o <= l
  OBVIOUS
<1>9. /\ LoadOnKey(op, m) = STEP(IF down = {} THEN a ELSE SetReg(a, X(op), key))
      /\ LoadOnKey(op, n) = STEP(IF down = {} THEN b ELSE SetReg(b, X(op), key))
  BY <1>1, <1>2, <1>4, <1>5, <1>8 DEF LoadOnKey
<1>10. Twins(a, b, STEP(a), STEP(b)) /\ Twins(a, b, STEP(SetReg(a, X(op), key)), STEP(SetReg(b, X(op), key)))
  BY <1>6, <1>7, JumpAlike, RegAlike DEF Twins
<1>11. Twins(a, b, LoadOnKey(op, m), LoadOnKey(op, n))
  BY <1>9, <1>10
<1> QED
  BY <1>3, <1>7, <1>11, TwinsCompose

LEMMA ExecuteAlike ==
  ASSUME NEW m \in Machines, NEW n \in Machines, Alike(m, n), NEW op \in Word, NEW random,
         Kind(op) \notin TimerKinds \cup {"illegal"}
  PROVE  Twins(m, n, Execute(op, m, random), Execute(op, n, random))
<1>1. CASE Kind(op) \in SteppingKinds
  BY <1>1, SteppingAlike
<1>2. CASE Kind(op) \in {"store_bcd", "save_registers"}
  BY <1>2, StoreAlike, ExecuteStores
<1>3. CASE Kind(op) \in SkipKinds \cup {"jump", "branch", "retern", "call"}
  BY <1>3, ControlAlike
<1>4. CASE Kind(op) \in {"skip_key_down", "skip_key_up", "load_on_key"}
  <2>1. Kind(op) = "skip_key_down" => Twins(m, n, SkipKey(op, m, FALSE), SkipKey(op, n, FALSE))
    BY SkipKeyAlike
  <2>2. Kind(op) = "skip_key_up" => Twins(m, n, SkipKey(op, m, TRUE), SkipKey(op, n, TRUE))
    BY SkipKeyAlike
  <2>3. Twins(m, n, LoadOnKey(op, m), LoadOnKey(op, n))
    BY LoadOnKeyAlike
  <2> QED
    BY <1>4, <2>1, <2>2, <2>3, ExecuteKeys
<1> QED
  BY <1>1, <1>2, <1>3, <1>4, KindRange DEF AllKinds, SteppingKinds, SkipKinds

LEMMA FaultsAlike ==
  ASSUME NEW m, NEW n, Alike(m, n), NEW op
  PROVE  Faults(op, m) <=> Faults(op, n)
  BY DEF Faults, Alike

----------------------------------------------------------------------------
\* Counting down late is counting down.

LEMMA SameMachine ==
  ASSUME NEW m \in Machines, NEW n \in Machines, Alike(m, n), SameTimers(m, n)
  PROVE  m = n
<1>1. \A k \in Machines :
        k = [pc |-> k.pc, regs |-> k.regs, addr |-> k.addr, stack |-> k.stack,
             memory |-> k.memory, display |-> k.display, delay |-> k.delay, sound |-> k.sound,
             last_tick |-> k.last_tick, retired |-> k.retired, poll_clock |-> k.poll_clock,
             cleared |-> k.cleared, cleared_tick |-> k.cleared_tick]
  BY DEF Machines
<1> QED
  BY <1>1 DEF Alike, SameTimers

LEMMA SyncedFields ==
  ASSUME NEW m \in Machines
  PROVE  /\ Alike(SyncTimers(m), m)
         /\ Tick(m) <= m.last_tick => SyncTimers(m) = m
         /\ Tick(m) > m.last_tick =>
              /\ SyncTimers(m).delay = CountDown(m.delay, Tick(m) - m.last_tick)
              /\ SyncTimers(m).sound = CountDown(m.sound, Tick(m) - m.last_tick)
              /\ SyncTimers(m).last_tick = Tick(m)
<1>1. Tick(m) \in Nat /\ m.last_tick \in Nat
  BY TickInNat, MachineFields
<1>2. Alike(SyncTimers(m), m)
  BY DEF SyncTimers, Alike, Machines
<1>3. Tick(m) <= m.last_tick => SyncTimers(m) = m
  BY <1>1 DEF SyncTimers
<1>4. Tick(m) > m.last_tick =>
              /\ SyncTimers(m).delay = CountDown(m.delay, Tick(m) - m.last_tick)
              /\ SyncTimers(m).sound = CountDown(m.sound, Tick(m) - m.last_tick)
              /\ SyncTimers(m).last_tick = Tick(m)
  <2> SUFFICES ASSUME Tick(m) > m.last_tick
               PROVE  /\ SyncTimers(m).delay = CountDown(m.delay, Tick(m) - m.last_tick)
                      /\ SyncTimers(m).sound = CountDown(m.sound, Tick(m) - m.last_tick)
                      /\ SyncTimers(m).last_tick = Tick(m)
    OBVIOUS
  <2>1. PICK d, s, t : /\ d = CountDown(m.delay, Tick(m) - m.last_tick)
                       /\ s = CountDown(m.sound, Tick(m) - m.last_tick) /\ t = Tick(m)
    OBVIOUS
  <2>2. SyncTimers(m) = [m EXCEPT !.delay = d, !.sound = s, !.last_tick = t]
    BY <1>1, <2>1 DEF SyncTimers
  <2> QED
    BY <2>1, <2>2 DEF Machines
<1> QED
  BY <1>2, <1>3, <1>4

LEMMA CountDownAdds ==
  ASSUME NEW timer \in Byte, NEW e \in Nat, NEW f \in Nat, e > 0, f > 0
  PROVE  CountDown(CountDown(timer, e), f) = CountDown(timer, e + f)
  BY DEF CountDown, Byte

\* Two machines that go the same way, one of them levelled before.
LEMMA CatchUp ==
  ASSUME NEW m \in Machines, NEW a \in Machines, NEW b \in Machines,
         Twins(m, SyncTimers(m), a, b), Tick(m) <= Tick(a)
  PROVE  SyncTimers(a) = SyncTimers(b)
<1>1. PICK t \in Nat, u \in Nat, l \in Nat : t = Tick(m) /\ u = Tick(a) /\ l = m.last_tick
  BY TickInNat, MachineFields
<1>2. PICK n \in Machines : n = SyncTimers(m)
  BY SyncTimersType
<1>3. Alike(a, b) /\ SameTimers(m, a) /\ SameTimers(n, b) /\ Tick(b) = u
  BY <1>1, <1>2, KeysAlike DEF Twins
<1>4. SyncTimers(a) \in Machines /\ SyncTimers(b) \in Machines /\ Alike(SyncTimers(a), SyncTimers(b))
  BY <1>3, SyncTimersType, SyncedFields DEF Alike
<1>5. CASE t <= l
  <2>1. n = m
    BY <1>1, <1>2, <1>5, SyncedFields
  <2>2. a = b
    BY <1>3, <2>1, SameMachine DEF SameTimers
  <2> QED
    BY <2>2
<1>6. CASE t > l
  <2>1. /\ n.delay = CountDown(m.delay, t - l) /\ n.sound = CountDown(m.sound, t - l)
        /\ n.last_tick = t
    BY <1>1, <1>2, <1>6, SyncedFields
  <2>2. /\ SyncTimers(a).delay = CountDown(m.delay, u - l)
        /\ SyncTimers(a).sound = CountDown(m.sound, u - l)
        /\ SyncTimers(a).last_tick = u
    BY <1>1, <1>3, <1>6, SyncedFields DEF SameTimers
  <2>3. CASE u = t
    <3>1. SyncTimers(b) = b
      BY <1>1, <1>3, <2>1, <2>3, SyncedFields DEF SameTimers
    <3>2. SameTimers(SyncTimers(a), SyncTimers(b))
      BY <1>3, <2>1, <2>2, <2>3, <3>1 DEF SameTimers
    <3> QED
      BY <1>4, <3>2, SameMachine
  <2>4. CASE u > t
    <3>1. /\ SyncTimers(b).delay = CountDown(CountDown(m.delay, t - l), u - t)
          /\ SyncTimers(b).sound = CountDown(CountDown(m.sound, t - l), u - t)
          /\ SyncTimers(b).last_tick = u
      BY <1>1, <1>3, <2>1, <2>4, SyncedFields DEF SameTimers
    <3>2. PICK e \in Nat, f \in Nat : e = t - l /\ f = u - t /\ e > 0 /\ f > 0 /\ u - l = e + f
      BY <1>6, <2>4
    <3>3. m.delay \in Byte /\ m.sound \in Byte
      BY MachineFields
    <3>4. \A timer \in Byte : CountDown(CountDown(timer, e), f) = CountDown(timer, e + f)
      BY <3>2, CountDownAdds
    <3>5. SyncTimers(a).delay = SyncTimers(b).delay /\ SyncTimers(a).sound = SyncTimers(b).sound
      BY <2>2, <3>1, <3>2, <3>3, <3>4
    <3> QED
      BY <1>4, <2>2, <3>1, <3>5, SameMachine DEF SameTimers
  <2> QED
    BY <1>1, <2>3, <2>4
<1> QED
  BY <1>5, <1>6

----------------------------------------------------------------------------
\* What an instruction leaves alone: the screen and the counters.

SameRun(m, n) == n.retired = m.retired /\ n.poll_clock = m.poll_clock
SameScreen(m, n) == SameRun(m, n) /\ n.display = m.display

LEMMA PcScreen ==
  ASSUME NEW m \in Machines, NEW v
  PROVE  SameScreen(m, [m EXCEPT !.pc = v])
  BY DEF Machines, SameScreen, SameRun

LEMMA FieldScreen ==
  ASSUME NEW m \in Machines, NEW v
  PROVE  /\ SameScreen(m, STEP([m EXCEPT !.regs = v]))
         /\ SameScreen(m, STEP([m EXCEPT !.addr = v]))
         /\ SameScreen(m, STEP([m EXCEPT !.delay = v]))
         /\ SameScreen(m, STEP([m EXCEPT !.sound = v]))
         /\ SameScreen(m, STEP([m EXCEPT !.memory = v]))
  BY DEF Machines, SameScreen, SameRun, STEP, At

LEMMA JumpScreen ==
  ASSUME NEW m \in Machines, NEW a, NEW c
  PROVE  SameScreen(m, At(m, a)) /\ SameScreen(m, STEP(m)) /\ SameScreen(m, SkipIf(m, c))
  BY DEF Machines, SameScreen, SameRun, STEP, At, SkipIf

LEMMA StackScreen ==
  ASSUME NEW m \in Machines, NEW a, NEW s
  PROVE  SameScreen(m, [At(m, a) EXCEPT !.stack = s])
  BY DEF Machines, SameScreen, SameRun, At

LEMMA ClearedScreen ==
  ASSUME NEW m \in Machines, NEW keys
  PROVE  SameScreen(m, ClearKeys(m, keys))
  BY DEF Machines, SameScreen, SameRun, ClearKeys

LEMMA SyncedScreen ==
  ASSUME NEW m \in Machines
  PROVE  SameScreen(m, SyncTimers(m))
  BY DEF Machines, SameScreen, SameRun, SyncTimers

\* An arithmetic instruction writes registers.
LEMMA ArithmeticRegs ==
  ASSUME NEW m \in Machines, NEW op, Kind(op) \in ArithmeticKinds
  PROVE  \E v : Arithmetic(op, m) = [m EXCEPT !.regs = v]
<1>1. \A x, byte : SetReg(m, x, byte) = [m EXCEPT !.regs = [m.regs EXCEPT ![x] = byte]]
  BY DEF SetReg
<1>2. \A x, byte, flag : SetRegFlag(m, x, byte, flag) =
        [m EXCEPT !.regs = [[m.regs EXCEPT ![x] = byte] EXCEPT ![15] = flag]]
  BY DEF SetRegFlag
<1>3. \/ \E x, byte : Arithmetic(op, m) = SetReg(m, x, byte)
      \/ \E x, byte, flag : Arithmetic(op, m) = SetRegFlag(m, x, byte, flag)
  BY DEF Arithmetic, ArithmeticKinds
<1> QED
  BY <1>1, <1>2, <1>3

\* The handlers that end in STEP, but for the two that write the screen.
LEMMA SetRegScreen ==
  ASSUME NEW m \in Machines, NEW x, NEW byte
  PROVE  SameScreen(m, STEP(SetReg(m, x, byte)))
<1>1. PICK v : v = [m.regs EXCEPT ![x] = byte]
  OBVIOUS
<1>2. SetReg(m, x, byte) = [m EXCEPT !.regs = v]
  BY <1>1 DEF SetReg
<1> QED
  BY <1>2, FieldScreen

LEMMA LoadScreen ==
  ASSUME NEW m \in Machines, NEW op
  PROVE  SameScreen(m, STEP(RestoreRegisters(op, m)))
<1>1. PICK v : v = [i \in 0 .. 15 |-> IF i <= X(op) THEN m.memory[Wrap(m.addr + i)] ELSE m.regs[i]]
  OBVIOUS
<1>2. RestoreRegisters(op, m) = [m EXCEPT !.regs = v]
  BY <1>1 DEF RestoreRegisters
<1> QED
  BY <1>2, FieldScreen

LEMMA SteppingScreen ==
  ASSUME NEW m \in Machines, NEW op, NEW random,
         Kind(op) \in SteppingKinds \ {"draw", "clearscreen"}
  PROVE  SameScreen(m, Execute(op, m, random))
<1> USE DEF ArithmeticKinds, SkipKinds, TimerKinds
<1>1. CASE Kind(op) = "load_immediate"
  <2>1. Execute(op, m, random) = STEP(SetReg(m, X(op), IMMEDIATE8(op)))
    BY <1>1 DEF Execute
  <2> QED
    BY <2>1, SetRegScreen
<1>2. CASE Kind(op) = "add_immediate"
  <2>1. Execute(op, m, random) = STEP(SetReg(m, X(op), (m.regs[X(op)] + IMMEDIATE8(op)) % 256))
    BY <1>2 DEF Execute
  <2> QED
    BY <2>1, SetRegScreen
<1>3. CASE Kind(op) = "random_byte"
  <2>1. Execute(op, m, random) = STEP(SetReg(m, X(op), BitAnd(random, IMMEDIATE8(op))))
    BY <1>3 DEF Execute
  <2> QED
    BY <2>1, SetRegScreen
<1>4. CASE Kind(op) = "get_delay_timer"
  <2>1. Execute(op, m, random) = STEP(SetReg(m, X(op), m.delay))
    BY <1>4 DEF Execute
  <2> QED
    BY <2>1, SetRegScreen
<1>5. CASE Kind(op) \in ArithmeticKinds
  <2>1. Execute(op, m, random) = STEP(Arithmetic(op, m))
    BY <1>5, ExecuteArithmetic
  <2> HIDE DEF ArithmeticKinds
  <2>2. PICK v : Arithmetic(op, m) = [m EXCEPT !.regs = v]
    BY <1>5, ArithmeticRegs
  <2>3. SameScreen(m, STEP([m EXCEPT !.regs = v]))
    BY FieldScreen
  <2> QED
    BY <2>1, <2>2, <2>3
<1>6. CASE Kind(op) = "load_addr_immediate"
  <2>1. Execute(op, m, random) = STEP([m EXCEPT !.addr = IMMEDIATE12(op)])
    BY <1>6 DEF Execute
  <2> QED
    BY <2>1, FieldScreen
<1>7. CASE Kind(op) = "add_addr"
  <2>1. Execute(op, m, random) = STEP([m EXCEPT !.addr = (m.addr + m.regs[X(op)]) % 65536])
    BY <1>7 DEF Execute
  <2>2. PICK v : v = (m.addr + m.regs[X(op)]) % 65536
    OBVIOUS
  <2>3. SameScreen(m, STEP([m EXCEPT !.addr = v]))
    BY FieldScreen
  <2> QED
    BY <2>1, <2>2, <2>3
<1>8. CASE Kind(op) = "load_sprite_addr"
  <2>1. Execute(op, m, random) = STEP([m EXCEPT !.addr = 5 * (m.regs[X(op)] % 16)])
    BY <1>8 DEF Execute
  <2> QED
    BY <2>1, FieldScreen
<1>9. CASE Kind(op) = "set_delay_timer"
  <2>1. Execute(op, m, random) = STEP([m EXCEPT !.delay = m.regs[X(op)]])
    BY <1>9 DEF Execute
  <2> QED
    BY <2>1, FieldScreen
<1>10. CASE Kind(op) = "set_sound_timer"
  <2>1. Execute(op, m, random) = STEP([m EXCEPT !.sound = m.regs[X(op)]])
    BY <1>10 DEF Execute
  <2> QED
    BY <2>1, FieldScreen
<1>11. CASE Kind(op) = "restore_registers"
  <2>1. Execute(op, m, random) = STEP(RestoreRegisters(op, m))
    BY <1>11 DEF Execute
  <2> QED
    BY <2>1, LoadScreen
<1> HIDE DEF ArithmeticKinds
<1> QED
  BY <1>1, <1>2, <1>3, <1>4, <1>5, <1>6, <1>7, <1>8, <1>9, <1>10, <1>11 DEF SteppingKinds

LEMMA StoreScreen ==
  ASSUME NEW m \in Machines, NEW op, NEW random, Kind(op) \in {"store_bcd", "save_registers"}
  PROVE  SameScreen(m, Execute(op, m, random))
<1>1. PICK v : v = [a \in Address |-> IF a \in StoreRange(m, 3)
                                     THEN Bcd(m.regs[X(op)])[1 + ((a - m.addr) % MEMORY_SIZE)]
                                     ELSE m.memory[a]]
  OBVIOUS
<1>2. PICK w : w = [a \in Address |-> IF a \in StoreRange(m, X(op) + 1)
                                     THEN m.regs[(a - m.addr) % MEMORY_SIZE]
                                     ELSE m.memory[a]]
  OBVIOUS
<1>3. StoreBcd(op, m) = [m EXCEPT !.memory = v]
  BY <1>1 DEF StoreBcd
<1>4. SaveRegisters(op, m) = [m EXCEPT !.memory = w]
  BY <1>2 DEF SaveRegisters
<1>5. SameScreen(m, STEP(StoreBcd(op, m))) /\ SameScreen(m, STEP(SaveRegisters(op, m)))
  BY <1>3, <1>4, FieldScreen
<1> QED
  BY <1>5, ExecuteStores

LEMMA ControlScreen ==
  ASSUME NEW m \in Machines, NEW op, NEW random,
         Kind(op) \in SkipKinds \cup {"jump", "branch", "retern", "call"}
  PROVE  SameScreen(m, Execute(op, m, random))
<1>1. CASE Kind(op) \in SkipKinds
  BY <1>1, ExecuteSkip, JumpScreen
<1>2. CASE Kind(op) = "jump"
  BY <1>2, ExecuteJump, JumpScreen
<1>3. CASE Kind(op) = "branch"
  BY <1>3, ExecuteBranch, JumpScreen
<1>4. CASE Kind(op) = "retern"
  <2>1. PICK a, s : a = m.stack[Len(m.stack)] /\ s = SubSeq(At(m, a).stack, 1, Len(At(m, a).stack) - 1)
    OBVIOUS
  <2>2. Execute(op, m, random) = [At(m, a) EXCEPT !.stack = s]
    BY <1>4, <2>1, ExecuteRetern
  <2> QED
    BY <2>2, StackScreen
<1>5. CASE Kind(op) = "call"
  <2>1. PICK a : a = IMMEDIATE12(op)
    OBVIOUS
  <2>2. Execute(op, m, random) =
          [At(m, a) EXCEPT !.stack = Append(At(m, a).stack, (m.pc + 2) % 65536)]
    BY <1>5, <2>1, ExecuteCall
  <2> QED
    BY <2>2 DEF Machines, SameScreen, SameRun, At
<1> QED
  BY <1>1, <1>2, <1>3, <1>4, <1>5

LEMMA KeyScreen ==
  ASSUME NEW m \in Machines, NEW op \in Word, NEW random,
         Kind(op) \in {"skip_key_down", "skip_key_up"}
  PROVE  SameScreen(m, Execute(op, m, random))
<1>1. ASSUME NEW up PROVE SameScreen(m, SkipKey(op, m, up))
  <2> DEFINE key == m.regs[X(op)] % 32
             hit == (key \in KeysDown(m)) # up
             n   == IF hit THEN ClearKeys(m, {key}) ELSE m
  <2>1. key \in Keys
    <3>1. PICK byte \in Byte : byte = m.regs[X(op)]
      BY RegistersInByte
    <3>2. byte % 32 \in Keys
      BY DEF Byte, Keys
    <3> QED
      BY <3>1, <3>2
  <2> HIDE DEF key
  <2>2. ClearKeys(m, {key}) \in Machines /\ SameScreen(m, ClearKeys(m, {key}))
    BY <2>1, ClearKeysType, ClearedScreen
  <2>3. SkipKey(op, m, up) = SkipIf(n, hit)
    BY DEF SkipKey, key
  <2> HIDE DEF hit
  <2>4. n \in Machines /\ SameScreen(m, n)
    BY <2>2 DEF SameScreen, SameRun
  <2> HIDE DEF n
  <2> QED
    BY <2>3, <2>4, JumpScreen DEF SameScreen, SameRun
<1> QED
  BY <1>1, ExecuteKeys

\* Fx0A: the screen stays, and so many polls are charged.
LEMMA WaitScreen ==
  ASSUME NEW m \in Machines, NEW op \in Word, NEW random, Kind(op) = "load_on_key"
  PROVE  SameScreen(Polled(m, Polls(m)), Execute(op, m, random))
<1> DEFINE polled == Polled(m, Polls(m))
           down   == KeysDown(polled)
           done   == ClearKeys(polled, 0 .. 15)
           key    == CHOOSE k \in down : \A l \in down : l <= k
<1>1. Polls(m) \in Nat
  BY PollsType, CapInNat
<1>2. polled \in Machines
  BY <1>1, PolledType DEF Keeps
<1>3. done \in Machines /\ SameScreen(polled, done)
  BY <1>2, ClearKeysType, ClearedScreen DEF Keys
<1>4. LoadOnKey(op, m) = STEP(IF down = {} THEN done
                              ELSE [done EXCEPT !.regs = [done.regs EXCEPT ![X(op)] = key]])
  BY DEF LoadOnKey, SetReg
<1> HIDE DEF down, done, key, polled
<1>5. SameScreen(done, LoadOnKey(op, m))
  BY <1>3, <1>4, JumpScreen, FieldScreen
<1> QED
  BY <1>3, <1>5, ExecuteKeys DEF SameScreen, SameRun, polled

LEMMA DrawScreen ==
  ASSUME NEW m \in Machines, NEW op, NEW random, Kind(op) \in {"draw", "clearscreen"}
  PROVE  SameRun(m, Execute(op, m, random))
<1>1. Kind(op) = "draw" => Execute(op, m, random) = STEP(Draw(op, m))
  BY DEF Execute, SkipKinds, ArithmeticKinds
<1>2. Kind(op) = "clearscreen" => Execute(op, m, random) = STEP([m EXCEPT !.display = {}])
  BY DEF Execute, SkipKinds, ArithmeticKinds
<1>3. PICK d, v : /\ d = (m.display \ SpritePixels(m, m.regs[X(op)], m.regs[Y(op)], IMMEDIATE4(op)))
                        \cup (SpritePixels(m, m.regs[X(op)], m.regs[Y(op)], IMMEDIATE4(op)) \ m.display)
                  /\ v = [m.regs EXCEPT ![15] = Flag(m.display \cap
                        SpritePixels(m, m.regs[X(op)], m.regs[Y(op)], IMMEDIATE4(op)) # {})]
  OBVIOUS
<1>4. Draw(op, m) = [m EXCEPT !.display = d, !.regs = v]
  BY <1>3 DEF Draw, Machines
<1>5. SameRun(m, STEP([m EXCEPT !.display = d, !.regs = v]))
  BY DEF Machines, SameRun, STEP, At
<1>6. SameRun(m, STEP([m EXCEPT !.display = {}]))
  BY DEF Machines, SameRun, STEP, At
<1> QED
  BY <1>1, <1>2, <1>4, <1>5, <1>6

\* What every instruction that does not fail leaves alone.
LEMMA ExecuteKeepsScreen ==
  ASSUME NEW m \in Machines, NEW op \in Word, NEW random, ~Faults(op, m),
         Kind(op) \notin {"draw", "clearscreen", "load_on_key"}
  PROVE  SameScreen(m, Execute(op, m, random))
<1>1. Kind(op) \in AllKinds /\ Kind(op) # "illegal"
  BY KindRange DEF Faults
<1> QED
  BY <1>1, SteppingScreen, StoreScreen, ControlScreen, KeyScreen
     DEF AllKinds, SteppingKinds, SkipKinds

LEMMA ExecuteKeepsRun ==
  ASSUME NEW m \in Machines, NEW op \in Word, NEW random, ~Faults(op, m),
         Kind(op) # "load_on_key"
  PROVE  SameRun(m, Execute(op, m, random))
  BY ExecuteKeepsScreen, DrawScreen DEF SameScreen

----------------------------------------------------------------------------
\* The virtual clock goes forward.

LEMMA ProductAbove ==
  ASSUME NEW a \in Nat, NEW b \in Nat, NEW w \in Nat, a < b
  PROVE  a * w + w <= b * w
<1>1. b - a \in Nat /\ b - a >= 1
  OBVIOUS
<1>2. \A d \in Nat : d >= 1 => d * w >= w
  OBVIOUS
<1>3. (b - a) * w >= w
  BY <1>1, <1>2
<1> QED
  BY <1>3

LEMMA QuotientGrows ==
  ASSUME NEW a \in Nat, NEW b \in Nat, NEW k \in Nat \ {0}, a <= b
  PROVE  a \div k <= b \div k
<1>1. PICK q \in Nat, r \in Nat : q = a \div k /\ r = b \div k
  BY Quotient
<1>2. k * q <= a /\ b < k * r + k
  BY <1>1
<1>3. CASE r < q
  <2>1. r * k + k <= q * k
    BY <1>3, ProductAbove
  <2> QED
    BY <1>2, <2>1
<1> QED
  BY <1>1, <1>3

LEMMA TickGrows ==
  ASSUME NEW m \in Machines, NEW a \in Machines,
         m.retired + m.poll_clock <= a.retired + a.poll_clock
  PROVE  Tick(m) <= Tick(a)
<1>1. /\ m.retired + m.poll_clock \in Nat /\ a.retired + a.poll_clock \in Nat
      /\ INSTR_PER_TICK \in Nat \ {0}
  BY MachineFields, BenchAssumption
<1> QED
  BY <1>1, QuotientGrows DEF Tick

\* An instruction counts nothing itself and never turns the clock back.
LEMMA RunAdvances ==
  ASSUME NEW m \in Machines, NEW op \in Word, NEW random \in RandomBytes, ~Faults(op, m)
  PROVE  /\ Execute(op, m, random) \in Machines
         /\ Execute(op, m, random).retired = m.retired
         /\ Execute(op, m, random).poll_clock >= m.poll_clock
<1>1. PICK a \in Machines : a = Execute(op, m, random)
  BY ExecuteType
<1>2. m.retired \in Nat /\ m.poll_clock \in Nat
  BY MachineFields
<1>3. CASE Kind(op) # "load_on_key"
  <2>1. a.retired = m.retired /\ a.poll_clock = m.poll_clock
    BY <1>1, <1>3, ExecuteKeepsRun DEF SameRun
  <2> QED
    BY <1>1, <1>2, <2>1
<1>4. CASE Kind(op) = "load_on_key"
  <2>1. SameScreen(Polled(m, Polls(m)), a)
    BY <1>1, <1>4, WaitScreen
  <2>2. Polled(m, Polls(m)).retired = m.retired /\ Polled(m, Polls(m)).poll_clock = m.poll_clock + Polls(m)
    BY DEF Polled, Machines
  <2>3. Polls(m) \in Nat
    BY PollsType, CapInNat
  <2>4. a.retired = m.retired /\ a.poll_clock = m.poll_clock + Polls(m)
    BY <2>1, <2>2 DEF SameScreen, SameRun
  <2> QED
    BY <1>1, <1>2, <2>3, <2>4
<1> QED
  BY <1>3, <1>4

LEMMA ClockAdvances ==
  ASSUME NEW m \in Machines, NEW op \in Word, NEW random \in RandomBytes, ~Faults(op, m)
  PROVE  Execute(op, m, random) \in Machines /\ Tick(m) <= Tick(Execute(op, m, random))
<1>1. PICK a \in Machines : a = Execute(op, m, random)
  BY ExecuteType
<1>2. a.retired = m.retired /\ a.poll_clock >= m.poll_clock
  BY <1>1, RunAdvances
<1>3. m.retired \in Nat /\ m.poll_clock \in Nat /\ a.poll_clock \in Nat
  BY MachineFields
<1>4. m.retired + m.poll_clock <= a.retired + a.poll_clock
  BY <1>2, <1>3
<1> QED
  BY <1>1, <1>4, TickGrows

\* What Machine has counted at the next instruction.
LEMMA RetiredLevel ==
  ASSUME NEW m \in Machines
  PROVE  SyncTimers(Retire(SyncTimers(m))) = SyncTimers(Retire(m))
<1>1. PICK n \in Machines : n = SyncTimers(m) /\ Alike(m, n)
  BY SyncTimersType, SyncedFields DEF Alike
<1>2. Retire(m) \in Machines /\ Retire(n) \in Machines
  BY RetireType
<1>3. Twins(m, n, Retire(m), Retire(n))
  BY <1>1 DEF Twins, Alike, SameTimers, Retire, Machines
<1>4. Tick(m) <= Tick(Retire(m))
  <2>1. Retire(m).retired = m.retired + 1 /\ Retire(m).poll_clock = m.poll_clock
    BY DEF Retire, Machines
  <2>2. m.retired \in Nat /\ m.poll_clock \in Nat
    BY MachineFields
  <2>3. m.retired + m.poll_clock <= Retire(m).retired + Retire(m).poll_clock
    BY <2>1, <2>2
  <2> QED
    BY <1>2, <2>3, TickGrows
<1> QED
  BY <1>1, <1>2, <1>3, <1>4, CatchUp

LEMMA Levelled ==
  ASSUME NEW m \in Machines
  PROVE  SyncTimers(m) \in Machines /\ Alike(m, SyncTimers(m)) /\ SyncTimers(SyncTimers(m)) = SyncTimers(m)
<1>1. PICK n \in Machines : n = SyncTimers(m) /\ Alike(m, n)
  BY SyncTimersType, SyncedFields DEF Alike
<1>2. Twins(m, n, m, n) /\ Tick(m) <= Tick(m)
  BY <1>1, TickInNat DEF Twins, SameTimers
<1> QED
  BY <1>1, <1>2, CatchUp

\* An instruction that looks at the timers finds them level; any other may as
\* well.
----------------------------------------------------------------------------
\* Machines that differ in nothing but how far their timers are counted down.

Level(m, n) == m \in Machines /\ n \in Machines /\ Alike(m, n) /\ SyncTimers(m) = SyncTimers(n)

LEMMA LevelSynced ==
  ASSUME NEW m \in Machines
  PROVE  Level(m, m) /\ Level(m, SyncTimers(m)) /\ Level(SyncTimers(m), m)
  BY Levelled DEF Level, Alike

LEMMA LevelSymmetric ==
  ASSUME NEW m, NEW n, Level(m, n)
  PROVE  Level(n, m)
  BY DEF Level, Alike

LEMMA LevelTransitive ==
  ASSUME NEW m, NEW n, NEW k, Level(m, n), Level(n, k)
  PROVE  Level(m, k)
  BY DEF Level, Alike

LEMMA LevelRetire ==
  ASSUME NEW m, NEW n, Level(m, n)
  PROVE  Level(Retire(m), Retire(n))
<1>1. m \in Machines /\ n \in Machines /\ SyncTimers(m) = SyncTimers(n) /\ Alike(m, n)
  BY DEF Level
<1>2. SyncTimers(Retire(m)) = SyncTimers(Retire(n))
  BY <1>1, RetiredLevel
<1>3. Alike(Retire(m), Retire(n))
  BY <1>1 DEF Alike, Retire, Machines
<1> QED
  BY <1>1, <1>2, <1>3, RetireType DEF Level

\* The timers know nothing of the program counter.
LEMMA SyncTimersAt ==
  ASSUME NEW m \in Machines, NEW a \in Word
  PROVE  SyncTimers([m EXCEPT !.pc = a]) = [SyncTimers(m) EXCEPT !.pc = a]
<1>1. PICK n \in Machines : n = [m EXCEPT !.pc = a]
  BY DEF Machines
<1>2. Alike([SyncTimers(m) EXCEPT !.pc = a], SyncTimers(n))
  <2>1. PICK s \in Machines, t \in Machines : s = SyncTimers(m) /\ t = SyncTimers(n)
    BY SyncTimersType
  <2>2. Alike(s, m) /\ Alike(t, n)
    BY <2>1, SyncedFields
  <2>3. Alike([s EXCEPT !.pc = a], n)
    BY <1>1, <2>2 DEF Alike, Machines
  <2> QED
    BY <2>1, <2>2, <2>3 DEF Alike
<1>3. SameTimers([SyncTimers(m) EXCEPT !.pc = a], SyncTimers(n))
  BY <1>1 DEF SameTimers, SyncTimers, Tick, Machines
<1>4. [SyncTimers(m) EXCEPT !.pc = a] \in Machines /\ SyncTimers(n) \in Machines
  BY SyncTimersType DEF Machines
<1> QED
  BY <1>1, <1>2, <1>3, <1>4, SameMachine

LEMMA LevelAt ==
  ASSUME NEW m, NEW n, Level(m, n), NEW a \in Word
  PROVE  Level([m EXCEPT !.pc = a], [n EXCEPT !.pc = a])
<1>1. m \in Machines /\ n \in Machines /\ SyncTimers(m) = SyncTimers(n) /\ Alike(m, n)
  BY DEF Level
<1>2. Alike([m EXCEPT !.pc = a], [n EXCEPT !.pc = a])
  BY <1>1 DEF Alike, Machines
<1>3. [m EXCEPT !.pc = a] \in Machines /\ [n EXCEPT !.pc = a] \in Machines
  BY <1>1 DEF Machines
<1>4. SyncTimers([m EXCEPT !.pc = a]) = SyncTimers([n EXCEPT !.pc = a])
  <2>1. SyncTimers([m EXCEPT !.pc = a]) = [SyncTimers(m) EXCEPT !.pc = a]
    BY <1>1, SyncTimersAt, Zenon
  <2>2. SyncTimers([n EXCEPT !.pc = a]) = [SyncTimers(n) EXCEPT !.pc = a]
    BY <1>1, SyncTimersAt, Zenon
  <2> QED
    BY <1>1, <2>1, <2>2
<1> QED
  BY <1>2, <1>3, <1>4 DEF Level

LEMMA LevelKeepsFaults ==
  ASSUME NEW m, NEW n, Level(m, n), NEW op
  PROVE  Faults(op, m) <=> Faults(op, n)
  BY FaultsAlike DEF Level

\* An instruction that looks at the timers has to find them level; to any
\* other it makes no difference.
LEMMA LevelExecute ==
  ASSUME NEW m, NEW n, Level(m, n), NEW op \in Word, NEW random \in RandomBytes, ~Faults(op, m),
         Kind(op) \in TimerKinds => SyncTimers(m) = m
  PROVE  SyncTimers(Execute(op, m, random)) = SyncTimers(Execute(op, SyncTimers(n), random))
<1>1. PICK k : k = SyncTimers(n)
  OBVIOUS
<1>2. m \in Machines /\ n \in Machines /\ SyncTimers(m) = k /\ k \in Machines /\ Level(m, k)
  BY <1>1, SyncTimersType, LevelSynced DEF Level
<1>3. CASE Kind(op) \in TimerKinds
  BY <1>1, <1>2, <1>3
<1>4. CASE Kind(op) \notin TimerKinds
  <2>1. ~Faults(op, k) /\ Kind(op) # "illegal"
    BY <1>2, LevelKeepsFaults DEF Faults
  <2>2. PICK a, b : a = Execute(op, m, random) /\ b = Execute(op, k, random)
    OBVIOUS
  <2>3. Twins(m, k, a, b)
    BY <1>2, <1>4, <2>1, <2>2, ExecuteAlike DEF Level
  <2>4. a \in Machines /\ Tick(m) <= Tick(a) /\ b \in Machines
    BY <1>2, <2>1, <2>2, ClockAdvances
  <2> QED
    BY <1>1, <1>2, <2>2, <2>3, <2>4, CatchUp
<1> QED
  BY <1>3, <1>4

----------------------------------------------------------------------------
\* The machine a run starts on.

LEMMA LoadedMemoryType ==
  ASSUME NEW rom \in ROMs
  PROVE  LoadedMemory(rom) \in [Address -> Byte]
<1>1. ASSUME NEW a \in Address
      PROVE  (IF a < Len(Font) THEN Font[a + 1]
              ELSE IF a - ENTRYPOINT + 1 \in 1 .. Len(rom) THEN rom[a - ENTRYPOINT + 1]
              ELSE 0) \in Byte
  <2>1. Font \in Seq(Byte) /\ rom \in Seq(Byte)
    BY ContentsAssumption
  <2>2. a \in Nat /\ ENTRYPOINT \in Nat
    BY SizesAssumption DEF Address
  <2>3. \A s \in Seq(Byte) : \A i \in 1 .. Len(s) : s[i] \in Byte
    OBVIOUS
  <2>4. a < Len(Font) => a + 1 \in 1 .. Len(Font)
    BY <2>1, <2>2
  <2>5. 0 \in Byte
    BY DEF Byte
  <2> QED
    BY <2>1, <2>3, <2>4, <2>5
<1> QED
  BY <1>1 DEF LoadedMemory

LEMMA BootedType ==
  ASSUME NEW rom \in ROMs
  PROVE  Booted(rom) \in Machines
<1>1. LoadedMemory(rom) \in [Address -> Byte]
  BY LoadedMemoryType
<1>2. ENTRYPOINT \in Word
  BY SizesAssumption, AddressInWord
<1>3. 0 \in Byte /\ 0 \in Word
  BY DEF Byte, Word
<1>4. << >> \in Stacks
  BY EmptyStack
<1>5. [i \in 0 .. 15 |-> 0] \in [0 .. 15 -> Byte]
  BY <1>3
<1>6. {} \in SUBSET ((0 .. Width - 1) \X (0 .. Height - 1)) /\ {} \in SUBSET Keys
  OBVIOUS
<1> QED
  BY <1>1, <1>2, <1>3, <1>4, <1>5, <1>6 DEF Booted, Machines

\* What Machine asks of its initial machine.
LEMMA BootedStart ==
  ASSUME NEW rom \in ROMs
  PROVE  /\ SyncTimers(Booted(rom)) = Booted(rom)
         /\ Booted(rom) = [Booted(<< >>) EXCEPT !.memory = Booted(rom).memory]
         /\ Booted(rom).memory \in [Address -> Byte]
         /\ \A a \in 1 .. Len(Font) : Booted(rom).memory[a - 1] = Font[a]
<1>1. PICK m \in Machines : m = Booted(rom)
  BY BootedType
<1>2. SyncTimers(m) = m
  <2>1. m.retired = 0 /\ m.poll_clock = 0 /\ m.last_tick = 0
    BY <1>1 DEF Booted
  <2>2. Tick(m) = 0
    BY <2>1, BenchAssumption DEF Tick
  <2> QED
    BY <2>1, <2>2, SyncedFields
<1>3. m = [Booted(<< >>) EXCEPT !.memory = m.memory] /\ m.memory = LoadedMemory(rom)
  <2> DEFINE boot(mem, regs, stack) ==
        [pc |-> ENTRYPOINT, regs |-> regs, addr |-> 0, stack |-> stack,
         memory |-> mem, display |-> {}, delay |-> 0, sound |-> 0, last_tick |-> 0,
         retired |-> 0, poll_clock |-> 0, cleared |-> {}, cleared_tick |-> -1]
  <2>1. \A mem, empty, regs, stack :
          /\ boot(mem, regs, stack) = [boot(empty, regs, stack) EXCEPT !.memory = mem]
          /\ boot(mem, regs, stack).memory = mem
    OBVIOUS
  <2>2. \A image : Booted(image) = boot(LoadedMemory(image), [i \in 0 .. 15 |-> 0], << >>)
    BY DEF Booted
  <2> HIDE DEF boot
  <2>3. /\ Booted(rom) = [Booted(<< >>) EXCEPT !.memory = LoadedMemory(rom)]
        /\ Booted(rom).memory = LoadedMemory(rom)
    BY <2>1, <2>2
  <2> QED
    BY <1>1, <2>3
<1>4. \A a \in 1 .. Len(Font) : m.memory[a - 1] = Font[a]
  <2>1. Len(Font) \in Nat /\ Len(Font) <= ENTRYPOINT /\ ENTRYPOINT \in Address /\ MEMORY_SIZE \in Nat
    BY ContentsAssumption, SizesAssumption, MemorySize
  <2>2. \A a \in 1 .. Len(Font) : a - 1 \in Address /\ a - 1 < Len(Font) /\ (a - 1) + 1 = a
    BY <2>1 DEF Address
  <2> QED
    BY <1>3, <2>2 DEF LoadedMemory
<1> QED
  BY <1>1, <1>2, <1>3, <1>4, MachineFields

----------------------------------------------------------------------------
\* Remainders.

LEMMA RemainderUnique ==
  ASSUME NEW k \in Nat \ {0}, NEW q \in Nat, NEW p \in Nat, NEW r \in 0 .. k - 1, NEW s \in 0 .. k - 1,
         q * k + r = p * k + s
  PROVE  r = s
<1>1. CASE q < p
  BY <1>1, ProductAbove
<1>2. CASE p < q
  BY <1>2, ProductAbove
<1> QED
  BY <1>1, <1>2

LEMMA Division ==
  ASSUME NEW a \in Nat, NEW k \in Nat \ {0}
  PROVE  /\ a \div k \in Nat /\ a % k \in 0 .. k - 1
         /\ a = (a \div k) * k + (a % k)
<1>1. PICK q \in Nat : q = a \div k
  BY Quotient
<1>2. k * q <= a /\ a < k * q + k
  BY <1>1
<1>3. PICK r : r = a % k
  OBVIOUS
<1>4. r \in 0 .. k - 1 /\ a = k * q + r
  BY <1>1, <1>3
<1> QED
  BY <1>1, <1>3, <1>4

LEMMA NextRemainder ==
  ASSUME NEW a \in Nat, NEW k \in Nat \ {0}, (a + 1) % k # 0
  PROVE  (a + 1) % k = (a % k) + 1
<1>1. PICK q \in Nat, r \in 0 .. k - 1 : a = q * k + r /\ r = a % k
  BY Division
<1>2. PICK p \in Nat, s \in 0 .. k - 1 : a + 1 = p * k + s /\ s = (a + 1) % k
  <2>1. a + 1 \in Nat
    OBVIOUS
  <2> QED
    BY <2>1, Division
<1>3. CASE r = k - 1
  <2>1. (q + 1) * k + 0 = p * k + s
    BY <1>1, <1>2, <1>3
  <2>2. s = 0
    BY <2>1, RemainderUnique
  <2> QED
    BY <1>2, <2>2
<1>4. CASE r # k - 1
  <2>1. q * k + (r + 1) = p * k + s
    BY <1>1, <1>2
  <2>2. PICK t \in 0 .. k - 1 : t = r + 1
    BY <1>4
  <2>3. t = s
    BY <2>1, <2>2, RemainderUnique
  <2> QED
    BY <1>1, <1>2, <2>2, <2>3
<1> QED
  BY <1>3, <1>4
=============================================================================
