----------------------------- MODULE Aot_proofs -----------------------------
(***************************************************************************)
(* Proofs about a ROM compiled ahead of time, for every ROM, history       *)
(* length, clock and set of keys: a key read by a due poll is kept         *)
(* (KeysKept), every step leaves the state well typed (TypeCorrect), and   *)
(* the compiled program does what the interpreter does (CompiledRom).      *)
(***************************************************************************)
EXTENDS Aot, Chip8_proofs

USE AotAssumption

\* What the history is made of.
historyVars == <<typed, due, key_history, key_slot, held>>

LEMMA NextSlotIs ==
  ASSUME NEW slot \in Input!Slots
  PROVE  /\ Input!NextSlot(slot) = IF slot + 1 = INPUT_TICKS THEN 0 ELSE slot + 1
         /\ Input!NextSlot(slot) \in Input!Slots
<1>1. slot \in Nat /\ slot < INPUT_TICKS /\ INPUT_TICKS \in Nat
  BY DEF Input!Slots
<1>2. CASE slot + 1 = INPUT_TICKS
  <2>1. (slot + 1) % INPUT_TICKS = 0
    BY <1>1, <1>2
  <2> QED
    BY <1>1, <1>2, <2>1 DEF Input!NextSlot, Input!Slots
<1>3. CASE slot + 1 # INPUT_TICKS
  <2>1. PICK n \in Nat : n = slot + 1
    BY <1>1
  <2>2. n % INPUT_TICKS = n
    BY <1>1, <1>3, <2>1
  <2> QED
    BY <1>1, <1>3, <2>1, <2>2 DEF Input!NextSlot, Input!Slots
<1> QED
  BY <1>2, <1>3

\* The first state: nothing is held.
THEOREM InitKeyInv == Init => KeyInv
<1> SUFFICES ASSUME Init PROVE KeyInv
  OBVIOUS
<1>1. 0 \in Input!Slots
  BY DEF Input!Slots
<1>2. HistoryOK
  BY <1>1 DEF Init, HistoryOK, Input!EmptyRing
<1>3. Fresh
  BY DEF Init, Fresh
<1> QED
  BY <1>2, <1>3 DEF KeyInv

\* A due poll: every slot comes one poll closer, the keys just read are as far
\* away as they can be.
LEMMA DuePoll ==
  ASSUME KeyInv, due, due' = FALSE,
         NEW history, history = [key_history EXCEPT ![key_slot] = typed],
         NEW seen, seen = [key \in TypedKeys |-> IF key \in typed THEN INPUT_TICKS ELSE held[key]],
         key_slot' = Input!NextSlot(key_slot), typed' = {}
  PROVE  /\ history \in [Input!Slots -> SUBSET TypedKeys]
         /\ key_slot' \in Input!Slots
         /\ seen \in [TypedKeys -> 0 .. INPUT_TICKS]
         /\ \A key \in TypedKeys :
              seen[key] > 0 =>
                \E s \in Input!Slots : key \in history[s] /\ Distance(s)' >= seen[key] - 1
<1> USE DEF KeyInv, HistoryOK
<1>1. history \in [Input!Slots -> SUBSET TypedKeys]
  OBVIOUS
<1>2. key_slot' \in Input!Slots
  BY NextSlotIs
<1>3. seen \in [TypedKeys -> 0 .. INPUT_TICKS]
  OBVIOUS
<1>4. ASSUME NEW key \in TypedKeys, seen[key] > 0
      PROVE  \E s \in Input!Slots : key \in history[s] /\ Distance(s)' >= seen[key] - 1
  <2>1. key_slot' = IF key_slot + 1 = INPUT_TICKS THEN 0 ELSE key_slot + 1
    BY NextSlotIs
  <2>2. CASE key \in typed
    <3>1. PICK s \in Input!Slots : s = key_slot
      OBVIOUS
    <3>2. key \in history[s] /\ seen[key] = INPUT_TICKS
      BY <2>2, <3>1
    <3>3. Distance(s)' = INPUT_TICKS - 1
      BY <2>1, <3>1 DEF Distance, Input!Slots
    <3> QED
      BY <3>2, <3>3
  <2>3. CASE key \notin typed
    <3>1. held[key] > 0 /\ seen[key] = held[key] /\ held[key] \in 0 .. INPUT_TICKS
      BY <1>4, <2>3
    <3>2. PICK s \in Input!Slots : key \in key_history[s] /\ Distance(s) >= held[key]
      BY <3>1 DEF Fresh
    <3>3. s # key_slot
      BY <3>1, <3>2 DEF Distance, Input!Slots
    <3>4. key \in history[s]
      BY <3>2, <3>3
    <3>5. Distance(s)' = Distance(s) - 1
      BY <2>1, <3>3 DEF Distance, Input!Slots
    <3>6. Distance(s) \in Int
      BY DEF Distance, Input!Slots
    <3> QED
      BY <3>1, <3>2, <3>4, <3>5, <3>6
  <2> QED
    BY <2>2, <2>3
<1> QED
  BY <1>1, <1>2, <1>3, <1>4

LEMMA PollIfDueStep ==
  ASSUME KeyInv, PollKeysIfDue
  PROVE  KeyInv'
<1>1. CASE due
  <2>1. /\ key_history' = [key_history EXCEPT ![key_slot] = typed]
        /\ held' = [key \in TypedKeys |-> IF key \in typed THEN INPUT_TICKS ELSE held[key]]
        /\ due' = FALSE /\ typed' = {} /\ key_slot' = Input!NextSlot(key_slot)
    BY <1>1 DEF PollKeysIfDue, PollKeys
  <2>2. HistoryOK'
    BY <1>1, <2>1, DuePoll DEF HistoryOK, Input!Slots
  <2>3. Fresh'
    BY <1>1, <2>1, DuePoll DEF Fresh, Input!Slots
  <2> QED
    BY <2>2, <2>3 DEF KeyInv
<1>2. CASE ~due
  BY <1>2 DEF PollKeysIfDue, keyboard, KeyInv, HistoryOK, Fresh, Distance, Input!Slots
<1> QED
  BY <1>1, <1>2

\* An Exkk clears its key behind the poll.
LEMMA KeyStep ==
  ASSUME KeyInv, Key
  PROVE  KeyInv'
<1> DEFINE key == vx % 32
           history == IF due THEN [key_history EXCEPT ![key_slot] = typed] ELSE key_history
           seen == [k \in TypedKeys |-> IF due /\ k \in typed THEN INPUT_TICKS ELSE held[k]]
<1>1. PICK hit \in BOOLEAN :
        /\ key_history' = IF hit THEN Input!ClearKey(history, key) ELSE history
        /\ held' = [k \in TypedKeys |-> IF hit /\ k = key THEN 0
                                        ELSE IF due /\ k \in typed THEN INPUT_TICKS ELSE held[k]]
  BY DEF Key
<1>2. /\ key_slot' = IF due THEN Input!NextSlot(key_slot) ELSE key_slot
      /\ typed' = (IF due THEN {} ELSE typed) /\ due' = FALSE
  BY DEF Key
<1>3. /\ history \in [Input!Slots -> SUBSET TypedKeys]
      /\ key_slot' \in Input!Slots
      /\ seen \in [TypedKeys -> 0 .. INPUT_TICKS]
      /\ \A k \in TypedKeys :
           seen[k] > 0 => \E s \in Input!Slots : k \in history[s] /\ Distance(s)' >= seen[k] - 1
  <2>1. CASE due
    <3>1. seen = [k \in TypedKeys |-> IF k \in typed THEN INPUT_TICKS ELSE held[k]]
      BY <2>1
    <3>2. history = [key_history EXCEPT ![key_slot] = typed]
      BY <2>1
    <3> HIDE DEF seen, history
    <3> QED
      BY <1>2, <2>1, <3>1, <3>2, DuePoll
  <2>2. CASE ~due
    <3>1. seen = held
      BY <2>2 DEF KeyInv, HistoryOK
    <3>2. history = key_history /\ key_slot' = key_slot
      BY <1>2, <2>2
    <3> HIDE DEF seen, history
    <3> QED
      BY <2>2, <3>1, <3>2 DEF KeyInv, HistoryOK, Fresh, Distance, Input!Slots
  <2> QED
    BY <2>1, <2>2
<1>4. \A k \in TypedKeys : held'[k] = IF hit /\ k = key THEN 0 ELSE seen[k]
  BY <1>1
<1>5. \A s \in Input!Slots : \A k \in TypedKeys :
        k \in history[s] /\ ~(hit /\ k = key) => k \in key_history'[s]
  BY <1>1 DEF Input!ClearKey, Input!Slots
<1>6. key_history' \in [Input!Slots -> SUBSET TypedKeys]
  <2> HIDE DEF history
  <2> QED
    BY <1>1, <1>3 DEF Input!ClearKey, Input!Slots
<1>7. held' \in [TypedKeys -> 0 .. INPUT_TICKS]
  BY <1>1 DEF KeyInv, HistoryOK
<1>8. HistoryOK'
  BY <1>2, <1>3, <1>6, <1>7 DEF KeyInv, HistoryOK, Input!Slots
<1> HIDE DEF history, seen, key
<1>9. Fresh'
  BY <1>2, <1>3, <1>4, <1>5 DEF Fresh, Input!Slots
<1> QED
  BY <1>8, <1>9 DEF KeyInv

\* The polls of Fx0A come faster than an input tick: no promise survives them.
LEMMA PollStep ==
  ASSUME KeyInv, Poll
  PROVE  KeyInv'
<1>1. HistoryOK'
  BY NextSlotIs DEF Poll, PollKeys, KeyInv, HistoryOK, Input!Slots
<1>2. Fresh'
  BY DEF Poll, PollKeys, Fresh
<1> QED
  BY <1>1, <1>2 DEF KeyInv

LEMMA ClearHeld ==
  ASSUME NEW f \in [TypedKeys -> 0 .. INPUT_TICKS], NEW key
  PROVE  [f EXCEPT ![key] = 0] \in [TypedKeys -> 0 .. INPUT_TICKS]
<1>1. \A k \in TypedKeys : [f EXCEPT ![key] = 0][k] \in 0 .. INPUT_TICKS
  OBVIOUS
<1> QED
  BY <1>1

LEMMA AnswerStep ==
  ASSUME KeyInv, Answer
  PROVE  KeyInv'
<1> DEFINE down == Down(key_history) \cap Input!HexKeys
           key == CHOOSE k \in down : \A l \in down : k <= l
<1>1. /\ key_history' = Input!ClearKey(key_history, key)
      /\ held' = [held EXCEPT ![key] = 0]
      /\ UNCHANGED <<typed, due, key_slot>>
  BY DEF Answer
<1> HIDE DEF key
<1>2. HistoryOK'
  <2>1. key_history' \in [Input!Slots -> SUBSET TypedKeys]
    BY <1>1 DEF KeyInv, HistoryOK, Input!ClearKey
  <2>2. held' \in [TypedKeys -> 0 .. INPUT_TICKS]
    BY <1>1, ClearHeld DEF KeyInv, HistoryOK
  <2> QED
    BY <1>1, <2>1, <2>2 DEF KeyInv, HistoryOK, Input!Slots
<1>3. Fresh'
  <2> SUFFICES ASSUME NEW k \in TypedKeys, held'[k] > 0
               PROVE  \E s \in Input!Slots :
                        k \in key_history'[s]
                        /\ Distance(s)' >= held'[k] - (IF due' THEN 0 ELSE 1)
    BY DEF Fresh, Input!Slots
  <2>1. k # key /\ held'[k] = held[k]
    BY <1>1 DEF KeyInv, HistoryOK
  <2>2. PICK s \in Input!Slots :
          k \in key_history[s] /\ Distance(s) >= held[k] - (IF due THEN 0 ELSE 1)
    BY <2>1 DEF KeyInv, Fresh
  <2>3. k \in key_history'[s]
    BY <1>1, <2>1, <2>2 DEF Input!ClearKey
  <2>4. Distance(s)' = Distance(s)
    BY <1>1 DEF Distance
  <2> QED
    BY <1>1, <2>1, <2>2, <2>3, <2>4
<1> QED
  BY <1>2, <1>3 DEF KeyInv

\* An input tick uses one up, and makes the next poll due.
LEMMA ClockStep ==
  ASSUME KeyInv, Clock
  PROVE  KeyInv'
<1>1. /\ held' = [key \in TypedKeys |-> IF held[key] > 0 THEN held[key] - 1 ELSE 0]
      /\ due' = TRUE /\ UNCHANGED <<typed, key_history, key_slot>>
  BY DEF Clock
<1>2. HistoryOK'
  BY <1>1 DEF KeyInv, HistoryOK, Input!Slots
<1>3. Fresh'
  BY <1>1 DEF KeyInv, HistoryOK, Fresh, Distance, Input!Slots
<1> QED
  BY <1>2, <1>3 DEF KeyInv

LEMMA HistoryUnchanged ==
  ASSUME KeyInv, UNCHANGED historyVars
  PROVE  KeyInv'
BY DEF KeyInv, HistoryOK, Fresh, Distance, historyVars, Input!Slots

LEMMA TypeStep ==
  ASSUME KeyInv, Type
  PROVE  KeyInv'
BY DEF Type, KeyInv, HistoryOK, Fresh, Distance, Input!Slots

\* Every step of host, clock and user.
THEOREM KeyInvInductive == KeyInv /\ [Next]_vars => KeyInv'
<1> SUFFICES ASSUME KeyInv, [Next]_vars PROVE KeyInv'
  OBVIOUS
<1>1. CASE Clock
  BY <1>1, ClockStep
<1>2. CASE Type
  BY <1>2, TypeStep
<1>3. CASE RetireBlock
  BY <1>3, PollIfDueStep DEF RetireBlock
<1>4. CASE DrawStart
  BY <1>4, PollIfDueStep DEF DrawStart
<1>5. CASE Key
  BY <1>5, KeyStep
<1>6. CASE Poll
  BY <1>6, PollStep
<1>7. CASE Answer
  BY <1>7, AnswerStep
<1>8. CASE Leave \/ Inline \/ Jump \/ Skip \/ Call \/ Return \/ DrawSprite \/ DrawFrame
             \/ WaitForKey
  <2>1. UNCHANGED historyVars
    BY <1>8 DEF Leave, Inline, Jump, Skip, Call, Return, DrawSprite, DrawFrame, WaitForKey,
                Quiet, keyboard, historyVars
  <2> QED
    BY <2>1, HistoryUnchanged
<1>9. CASE UNCHANGED vars
  <2>1. UNCHANGED historyVars
    BY <1>9 DEF vars, keyboard, historyVars
  <2> QED
    BY <2>1, HistoryUnchanged
<1> QED
  BY <1>1, <1>2, <1>3, <1>4, <1>5, <1>6, <1>7, <1>8, <1>9 DEF Next, Host, Halted

(***************************************************************************)
(* poll_keys_if_due keeps its word: a key read by a due poll is in the     *)
(* history for INPUT_TICKS input ticks, whatever the program executes,     *)
(* unless it is consumed or Fx0A polls meanwhile (aot_runtime.c:55).       *)
(***************************************************************************)
THEOREM KeysKept == Spec => []KeyHeld
<1>1. KeyInv => KeyHeld
  <2> SUFFICES ASSUME KeyInv, NEW key \in TypedKeys, held[key] > 0
               PROVE  key \in Down(key_history)
    BY DEF KeyHeld
  <2>1. PICK s \in Input!Slots : key \in key_history[s]
    BY DEF KeyInv, Fresh
  <2> QED
    BY <2>1 DEF Down, Input!AllKeysDown
<1> QED
  BY InitKeyInv, KeyInvInductive, <1>1, PTL DEF Spec

----------------------------------------------------------------------------
\* The machine of a compiled program: what Chip8 has but for clock and keyboard.

Cores ==
  [pc: Word, regs: [0 .. 15 -> Byte], addr: Word, stack: Stacks,
   memory: [Address -> Byte], display: SUBSET ((0 .. Width - 1) \X (0 .. Height - 1)),
   delay: Byte, sound: Byte]

LEMMA CoreFields ==
  ASSUME NEW m \in Cores
  PROVE  /\ m.pc \in Word /\ m.addr \in Word /\ m.regs \in [0 .. 15 -> Byte]
         /\ m.memory \in [Address -> Byte] /\ m.stack \in Seq(Word)
         /\ m.stack \in Stacks /\ m.delay \in Byte /\ m.sound \in Byte
         /\ m.display \in SUBSET ((0 .. Width - 1) \X (0 .. Height - 1))
         /\ m.pc \in Nat /\ m.addr \in Nat
<1>1. m.stack \in Stacks
  BY DEF Cores
<1>2. m.stack \in Seq(Word)
  BY <1>1 DEF Stacks
<1> QED
  BY <1>1, <1>2 DEF Cores, Word

\* Same place in the program, same way back.
InPlace(m, n) == n \in Cores /\ n.pc = m.pc /\ n.stack = m.stack

LEMMA CoreEdits ==
  ASSUME NEW m \in Cores
  PROVE  /\ \A r \in [0 .. 15 -> Byte] : InPlace(m, [m EXCEPT !.regs = r])
         /\ \A a \in Word : InPlace(m, [m EXCEPT !.addr = a])
         /\ \A b \in Byte : InPlace(m, [m EXCEPT !.delay = b]) /\ InPlace(m, [m EXCEPT !.sound = b])
         /\ \A f \in [Address -> Byte] : InPlace(m, [m EXCEPT !.memory = f])
         /\ \A d \in SUBSET ((0 .. Width - 1) \X (0 .. Height - 1)) : InPlace(m, [m EXCEPT !.display = d])
<1> DEFINE screen == (0 .. Width - 1) \X (0 .. Height - 1)
<1> HIDE DEF screen
<1> USE DEF InPlace, Cores
<1>1. \A r \in [0 .. 15 -> Byte] : InPlace(m, [m EXCEPT !.regs = r])
  OBVIOUS
<1>2. \A a \in Word : InPlace(m, [m EXCEPT !.addr = a])
  OBVIOUS
<1>3. \A b \in Byte : InPlace(m, [m EXCEPT !.delay = b]) /\ InPlace(m, [m EXCEPT !.sound = b])
  OBVIOUS
<1>4. \A f \in [Address -> Byte] : InPlace(m, [m EXCEPT !.memory = f])
  OBVIOUS
<1>5. \A d \in SUBSET screen : InPlace(m, [m EXCEPT !.display = d])
  BY DEF screen
<1> QED
  BY <1>1, <1>2, <1>3, <1>4, <1>5 DEF screen

LEMMA CoreAt ==
  ASSUME NEW m \in Cores, NEW a \in Word
  PROVE  /\ At(m, a) = [m EXCEPT !.pc = a]
         /\ At(m, a) \in Cores
         /\ At(m, a).pc = a
         /\ At(m, a).stack = m.stack /\ At(m, a).memory = m.memory
<1>1. a % 65536 = a
  BY DEF Word
<1>2. At(m, a) = [m EXCEPT !.pc = a]
  BY <1>1 DEF At
<1>3. [m EXCEPT !.pc = a] \in Cores
  BY DEF Cores
<1>4. /\ [m EXCEPT !.pc = a].pc = a
      /\ [m EXCEPT !.pc = a].stack = m.stack /\ [m EXCEPT !.pc = a].memory = m.memory
  BY DEF Cores
<1> QED
  BY <1>2, <1>3, <1>4

LEMMA CoreStack ==
  ASSUME NEW m \in Cores, NEW s \in Stacks
  PROVE  /\ [m EXCEPT !.stack = s] \in Cores
         /\ [m EXCEPT !.stack = s].stack = s /\ [m EXCEPT !.stack = s].pc = m.pc
<1>1. [m EXCEPT !.stack = s] \in Cores
  BY DEF Cores
<1>2. [m EXCEPT !.stack = s].stack = s /\ [m EXCEPT !.stack = s].pc = m.pc
  BY DEF Cores
<1> QED
  BY <1>1, <1>2

LEMMA CoreSetReg ==
  ASSUME NEW m \in Cores, NEW x \in 0 .. 15, NEW byte \in Byte
  PROVE  /\ InPlace(m, SetReg(m, x, byte))
         /\ SetReg(m, x, byte) = [m EXCEPT !.regs = [@ EXCEPT ![x] = byte]]
         /\ SetReg(m, x, byte).regs = [m.regs EXCEPT ![x] = byte]
<1>1. PICK r \in [0 .. 15 -> Byte] : r = [m.regs EXCEPT ![x] = byte]
  BY CoreFields
<1>2. SetReg(m, x, byte) = [m EXCEPT !.regs = r]
  BY <1>1 DEF SetReg
<1>3. [m EXCEPT !.regs = r].regs = r
  BY DEF Cores
<1>4. InPlace(m, [m EXCEPT !.regs = r])
  BY CoreEdits
<1>5. SetReg(m, x, byte) = [m EXCEPT !.regs = [@ EXCEPT ![x] = byte]]
  BY DEF SetReg
<1> QED
  BY <1>1, <1>2, <1>3, <1>4, <1>5

LEMMA CoreBytes ==
  ASSUME NEW m \in Cores, NEW o \in Word
  PROVE  /\ m.regs[X(o)] \in Byte /\ m.regs[Y(o)] \in Byte /\ m.regs[0] \in Byte
         /\ X(o) \in 0 .. 15
<1>1. X(o) \in 0 .. 15 /\ Y(o) \in 0 .. 15 /\ 0 \in 0 .. 15
  BY FieldRanges
<1> QED
  BY <1>1, CoreFields

\* The flag that is stored behind the result is the flag of SetRegFlag.
LEMMA CoreWithFlags ==
  ASSUME NEW m \in Cores, NEW x \in 0 .. 15, NEW byte \in Byte, NEW flag \in Byte
  PROVE  /\ InPlace(m, WithFlags(m, x, byte, flag))
         /\ WithFlags(m, x, byte, flag) = SetRegFlag(m, x, byte, flag)
<1>1. PICK n \in Cores : n = SetReg(m, x, byte)
  BY CoreSetReg DEF InPlace
<1>2. PICK r \in [0 .. 15 -> Byte] : r = [m.regs EXCEPT ![x] = byte]
  BY CoreFields
<1>3. n = [m EXCEPT !.regs = r] /\ n.regs = r
  <2>1. n = [m EXCEPT !.regs = r]
    BY <1>1, <1>2 DEF SetReg
  <2> QED
    BY <2>1 DEF Cores
<1>4. PICK q \in [0 .. 15 -> Byte] : q = [r EXCEPT ![15] = flag]
  OBVIOUS
<1>5. WithFlags(m, x, byte, flag) = [n EXCEPT !.regs = q]
  BY <1>1, <1>3, <1>4 DEF WithFlags, SetReg
<1>6. SetRegFlag(m, x, byte, flag) = [m EXCEPT !.regs = q]
  BY <1>2, <1>4 DEF SetRegFlag
<1>7. [n EXCEPT !.regs = q] = [m EXCEPT !.regs = q]
  BY <1>3 DEF Cores
<1>8. InPlace(m, [m EXCEPT !.regs = q])
  BY CoreEdits
<1> QED
  BY <1>5, <1>6, <1>7, <1>8

----------------------------------------------------------------------------
\* The services of the runtime, beside the handlers of the interpreter.

\* chip8_aot_alu leaves bytes.
LEMMA AluInByte ==
  ASSUME NEW n \in {0, 1, 2, 3, 4, 5, 6, 7, 14}, NEW a \in Byte, NEW b \in Byte
  PROVE  AluByte(n, a, b) \in Byte /\ (n \in {4, 5, 6, 7, 14} => AluFlag(n, a, b) \in Byte)
<1>1. BitOr(a, b) \in Byte /\ BitAnd(a, b) \in Byte /\ BitXor(a, b) \in Byte
  BY BitwiseInByte
<1>2. /\ (a + b) % 256 \in Byte /\ (a - b) % 256 \in Byte /\ (b - a) % 256 \in Byte
      /\ (a * 2) % 256 \in Byte /\ a \div 2 \in Byte /\ a % 2 \in Byte /\ a \div 128 \in Byte
  <2>1. (a + b) % 256 \in Byte /\ (a - b) % 256 \in Byte /\ (b - a) % 256 \in Byte
    BY DEF Byte
  <2>2. (a * 2) % 256 \in Byte /\ a \div 2 \in Byte /\ a % 2 \in Byte /\ a \div 128 \in Byte
    BY DEF Byte
  <2> QED
    BY <2>1, <2>2
<1>3. \A c : Flag(c) \in Byte
  BY DEF Flag, Byte
<1>4. AluByte(n, a, b) \in Byte
  BY <1>1, <1>2 DEF AluByte
<1>5. n \in {4, 5, 6, 7, 14} => AluFlag(n, a, b) \in Byte
  BY <1>2, <1>3 DEF AluFlag
<1> QED
  BY <1>4, <1>5

LEMMA AluType ==
  ASSUME NEW m \in Cores, NEW x \in 0 .. 15, NEW n \in 0 .. 15, NEW a \in Byte, NEW b \in Byte
  PROVE  InPlace(m, Alu(m, x, n, a, b))
<1>1. CASE n \in 0 .. 3
  <2>1. AluByte(n, a, b) \in Byte
    BY <1>1, AluInByte
  <2> QED
    BY <1>1, <2>1, CoreSetReg DEF Alu
<1>2. CASE n \in {4, 5, 6, 7, 14}
  <2>1. AluByte(n, a, b) \in Byte /\ AluFlag(n, a, b) \in Byte
    BY <1>2, AluInByte
  <2> QED
    BY <1>2, <2>1, CoreWithFlags DEF Alu
<1>3. CASE n \notin 0 .. 3 /\ n \notin {4, 5, 6, 7, 14}
  BY <1>3 DEF Alu, InPlace
<1> QED
  BY <1>1, <1>2, <1>3

\* chip8_aot_alu does what the handlers of the interpreter do.
LEMMA AluIsArithmetic ==
  ASSUME NEW m \in Cores, NEW o \in Word, o \div 4096 = 8, Kind(o) # "illegal"
  PROVE  /\ Kind(o) \in ArithmeticKinds
         /\ Alu(m, X(o), IMMEDIATE4(o), m.regs[X(o)], m.regs[Y(o)]) = Arithmetic(o, m)
<1>1. PICK n \in 0 .. 15 : n = o % 16 /\ n = IMMEDIATE4(o)
  BY FieldRanges DEF IMMEDIATE4
<1>2. Kind(o) = ArithmeticKind(n)
  BY <1>1 DEF Kind
<1>3. n \in {0, 1, 2, 3, 4, 5, 6, 7, 14}
  BY <1>2 DEF ArithmeticKind
<1>4. Kind(o) \in ArithmeticKinds
  BY <1>2, ArithmeticKindRange
<1>5. PICK x \in 0 .. 15, a \in Byte, b \in Byte :
        x = X(o) /\ a = m.regs[X(o)] /\ b = m.regs[Y(o)]
  BY CoreBytes
<1>6. Arithmetic(o, m) =
        CASE n = 0 -> SetReg(m, x, b)
          [] n = 1 -> SetReg(m, x, BitOr(a, b))
          [] n = 2 -> SetReg(m, x, BitAnd(a, b))
          [] n = 3 -> SetReg(m, x, BitXor(a, b))
          [] n = 4 -> SetRegFlag(m, x, (a + b) % 256, Flag(a + b > 255))
          [] n = 5 -> SetRegFlag(m, x, (a - b) % 256, Flag(a >= b))
          [] n = 6 -> SetRegFlag(m, x, a \div 2, a % 2)
          [] n = 7 -> SetRegFlag(m, x, (b - a) % 256, Flag(b >= a))
          [] n = 14 -> SetRegFlag(m, x, (2 * a) % 256, a \div 128)
  BY <1>2, <1>3, <1>5 DEF Arithmetic, ArithmeticKind
<1>7. /\ n \in 0 .. 3 => SetReg(m, x, AluByte(n, a, b)) = Arithmetic(o, m)
      /\ n \in {4, 5, 6, 7, 14} =>
           SetRegFlag(m, x, AluByte(n, a, b), AluFlag(n, a, b)) = Arithmetic(o, m)
  <2>1. a * 2 = 2 * a
    BY DEF Byte
  <2>2. n \in 0 .. 3 => SetReg(m, x, AluByte(n, a, b)) = Arithmetic(o, m)
    BY <1>3, <1>6 DEF AluByte
  <2>3. n \in {4, 5, 6, 7, 14} =>
          SetRegFlag(m, x, AluByte(n, a, b), AluFlag(n, a, b)) = Arithmetic(o, m)
    BY <1>3, <1>6, <2>1 DEF AluByte, AluFlag
  <2> QED
    BY <2>2, <2>3
<1>8. n \in {4, 5, 6, 7, 14} =>
        WithFlags(m, x, AluByte(n, a, b), AluFlag(n, a, b)) = Arithmetic(o, m)
  BY <1>7, AluInByte, CoreWithFlags
<1>9. Alu(m, x, n, a, b) = Arithmetic(o, m)
  BY <1>3, <1>7, <1>8 DEF Alu
<1> QED
  BY <1>1, <1>4, <1>5, <1>9

\* A core is a machine whose clock stands at nought.
Timed(m) ==
  [pc |-> m.pc, regs |-> m.regs, addr |-> m.addr, stack |-> m.stack, memory |-> m.memory,
   display |-> m.display, delay |-> m.delay, sound |-> m.sound, last_tick |-> 0,
   retired |-> 0, poll_clock |-> 0, cleared |-> {}, cleared_tick |-> -1]

LEMMA TimedType == ASSUME NEW m \in Cores PROVE Timed(m) \in Machines
  BY CoreFields DEF Timed, Machines

LEMMA CoreStores ==
  ASSUME NEW m \in Cores, NEW o \in Word
  PROVE  /\ InPlace(m, StoreBcd(o, m))
         /\ InPlace(m, SaveRegisters(o, m))
         /\ InPlace(m, RestoreRegisters(o, m))
<1>1. PICK t \in Machines : t = Timed(m)
  BY TimedType
<1>2. t.memory = m.memory /\ t.regs = m.regs /\ t.addr = m.addr
  BY <1>1 DEF Timed
<1>3. InPlace(m, StoreBcd(o, m))
  <2> DEFINE new == [a \in Address |->
                       IF a \in StoreRange(m, 3)
                       THEN Bcd(m.regs[X(o)])[1 + ((a - m.addr) % MEMORY_SIZE)]
                       ELSE m.memory[a]]
  <2>1. StoreBcd(o, m) = [m EXCEPT !.memory = new]
    BY DEF StoreBcd
  <2>2. StoreBcd(o, t) = [t EXCEPT !.memory = new]
    BY <1>2 DEF StoreBcd, StoreRange
  <2> HIDE DEF new
  <2>3. [t EXCEPT !.memory = new].memory = new
    BY DEF Machines
  <2>4. PICK k \in Machines : k = StoreBcd(o, t)
    BY StoreBcdType
  <2>5. new \in [Address -> Byte]
    BY <2>2, <2>3, <2>4, MachineFields
  <2> QED
    BY <2>1, <2>5, CoreEdits
<1>4. InPlace(m, SaveRegisters(o, m))
  <2> DEFINE new == [a \in Address |->
                       IF a \in StoreRange(m, X(o) + 1)
                       THEN m.regs[(a - m.addr) % MEMORY_SIZE] ELSE m.memory[a]]
  <2>1. SaveRegisters(o, m) = [m EXCEPT !.memory = new]
    BY DEF SaveRegisters
  <2>2. SaveRegisters(o, t) = [t EXCEPT !.memory = new]
    BY <1>2 DEF SaveRegisters, StoreRange
  <2> HIDE DEF new
  <2>3. [t EXCEPT !.memory = new].memory = new
    BY DEF Machines
  <2>4. PICK k \in Machines : k = SaveRegisters(o, t)
    BY SaveRegistersType
  <2>5. new \in [Address -> Byte]
    BY <2>2, <2>3, <2>4, MachineFields
  <2> QED
    BY <2>1, <2>5, CoreEdits
<1>5. InPlace(m, RestoreRegisters(o, m))
  <2> DEFINE new == [i \in 0 .. 15 |-> IF i <= X(o) THEN m.memory[Wrap(m.addr + i)] ELSE m.regs[i]]
  <2>1. RestoreRegisters(o, m) = [m EXCEPT !.regs = new]
    BY DEF RestoreRegisters
  <2>2. \A i \in 0 .. 15 : Wrap(m.addr + i) \in Address
    BY CoreFields, WrapRange
  <2>3. new \in [0 .. 15 -> Byte]
    BY <2>2, CoreFields
  <2> HIDE DEF new
  <2> QED
    BY <2>1, <2>3, CoreEdits
<1> QED
  BY <1>3, <1>4, <1>5

LEMMA CoreDraw ==
  ASSUME NEW m \in Cores, NEW o \in Word
  PROVE  InPlace(m, Draw(o, m)) /\ Draw(o, m).memory = m.memory
<1>1. PICK s : s = SpritePixels(m, m.regs[X(o)], m.regs[Y(o)], IMMEDIATE4(o))
  OBVIOUS
<1>2. s \subseteq (0 .. Width - 1) \X (0 .. Height - 1)
  BY <1>1 DEF SpritePixels
<1>3. PICK d \in SUBSET ((0 .. Width - 1) \X (0 .. Height - 1)) :
        d = (m.display \ s) \cup (s \ m.display)
  BY <1>2, CoreFields
<1>4. PICK r \in [0 .. 15 -> Byte] : r = [m.regs EXCEPT ![15] = Flag(m.display \cap s # {})]
  <2>1. Flag(m.display \cap s # {}) \in Byte
    BY DEF Flag, Byte
  <2> QED
    BY <2>1, CoreFields
<1>5. Draw(o, m) = [[m EXCEPT !.display = d] EXCEPT !.regs = r]
  BY <1>1, <1>3, <1>4 DEF Draw, Cores
<1>6. PICK n : n = [m EXCEPT !.display = d]
  OBVIOUS
<1>7. n \in Cores /\ n.pc = m.pc /\ n.stack = m.stack /\ n.memory = m.memory
  BY <1>6 DEF Cores
<1>8. InPlace(n, [n EXCEPT !.regs = r]) /\ [n EXCEPT !.regs = r].memory = n.memory
  BY <1>7, CoreEdits DEF Cores
<1> QED
  BY <1>5, <1>6, <1>7, <1>8 DEF InPlace

\* chip8_aot_f keeps its place, whatever kk it is called with.
LEMMA MiscType ==
  ASSUME NEW m \in Cores, op \in Word
  PROVE  InPlace(m, Misc(m, X(op), IMMEDIATE8(op)))
<1>1. PICK x \in 0 .. 15, b \in Byte : x = X(op) /\ b = m.regs[x]
  BY CoreBytes
<1>2. PICK kk : kk = IMMEDIATE8(op)
  OBVIOUS
<1>3. /\ InPlace(m, SetReg(m, x, m.delay))
      /\ InPlace(m, [m EXCEPT !.delay = b]) /\ InPlace(m, [m EXCEPT !.sound = b])
  BY CoreFields, CoreSetReg, CoreEdits
<1>4. InPlace(m, [m EXCEPT !.addr = (m.addr + b) % 65536])
  <2>1. PICK k \in Nat : k = m.addr + b
    BY CoreFields DEF Byte
  <2>2. k % 65536 \in Word
    BY WordModulo
  <2> QED
    BY <2>1, <2>2, CoreEdits
<1>5. InPlace(m, [m EXCEPT !.addr = (b % 16) * 5])
  <2>1. (b % 16) * 5 \in Word
    BY DEF Byte, Word
  <2> QED
    BY <2>1, CoreEdits
<1>6. /\ InPlace(m, StoreBcd(op, m)) /\ InPlace(m, SaveRegisters(op, m))
      /\ InPlace(m, RestoreRegisters(op, m)) /\ InPlace(m, m)
  BY CoreStores DEF InPlace
<1>7. InPlace(m, Misc(m, x, kk))
  BY <1>1, <1>3, <1>4, <1>5, <1>6 DEF Misc
<1> QED
  BY <1>1, <1>2, <1>7

\* It does what the handlers of the interpreter do.
LEMMA MiscIsExecute ==
  ASSUME NEW m \in Cores, op \in Word, op \div 4096 = 15, IMMEDIATE8(op) # 10,
         Kind(op) # "illegal", NEW random
  PROVE  /\ Kind(op) \notin {"skip_key_down", "skip_key_up", "load_on_key"}
         /\ Execute(op, m, random) = STEP(Misc(m, X(op), IMMEDIATE8(op)))
<1>1. PICK kk : kk = IMMEDIATE8(op)
  OBVIOUS
<1>2. Kind(op) = MiscKind(kk) /\ op \notin {224, 238}
  BY <1>1 DEF Kind, IMMEDIATE8, Word
<1>3. kk \in {7, 21, 24, 30, 41, 51, 85, 101}
  BY <1>1, <1>2 DEF MiscKind
<1>4. PICK b \in Byte : b = m.regs[X(op)]
  BY CoreBytes
<1>5. (b % 16) * 5 = 5 * (b % 16)
  BY DEF Byte
<1> DEFINE Same == Execute(op, m, random) = STEP(Misc(m, X(op), IMMEDIATE8(op)))
<1>6. ASSUME kk = 7 PROVE Same
  <2>1. Kind(op) = "get_delay_timer"
    BY <1>2, <1>6 DEF MiscKind
  <2> QED
    BY <1>1, <1>4, <1>6, <2>1 DEF Execute, Misc, SkipKinds, ArithmeticKinds
<1>7. ASSUME kk = 21 PROVE Same
  <2>1. Kind(op) = "set_delay_timer"
    BY <1>2, <1>7 DEF MiscKind
  <2> QED
    BY <1>1, <1>4, <1>7, <2>1 DEF Execute, Misc, SkipKinds, ArithmeticKinds
<1>8. ASSUME kk = 24 PROVE Same
  <2>1. Kind(op) = "set_sound_timer"
    BY <1>2, <1>8 DEF MiscKind
  <2> QED
    BY <1>1, <1>4, <1>8, <2>1 DEF Execute, Misc, SkipKinds, ArithmeticKinds
<1>9. ASSUME kk = 30 PROVE Same
  <2>1. Kind(op) = "add_addr"
    BY <1>2, <1>9 DEF MiscKind
  <2> QED
    BY <1>1, <1>4, <1>9, <2>1 DEF Execute, Misc, SkipKinds, ArithmeticKinds
<1>10. ASSUME kk = 41 PROVE Same
  <2>1. Kind(op) = "load_sprite_addr"
    BY <1>2, <1>10 DEF MiscKind
  <2> QED
    BY <1>1, <1>4, <1>5, <1>10, <2>1 DEF Execute, Misc, SkipKinds, ArithmeticKinds
<1>11. ASSUME kk = 51 PROVE Same
  <2>1. Kind(op) = "store_bcd"
    BY <1>2, <1>11 DEF MiscKind
  <2> QED
    BY <1>1, <1>4, <1>11, <2>1 DEF Execute, Misc, SkipKinds, ArithmeticKinds
<1>12. ASSUME kk = 85 PROVE Same
  <2>1. Kind(op) = "save_registers"
    BY <1>2, <1>12 DEF MiscKind
  <2> QED
    BY <1>1, <1>4, <1>12, <2>1 DEF Execute, Misc, SkipKinds, ArithmeticKinds
<1>13. ASSUME kk = 101 PROVE Same
  <2>1. Kind(op) = "restore_registers"
    BY <1>2, <1>13 DEF MiscKind
  <2> QED
    BY <1>1, <1>4, <1>13, <2>1 DEF Execute, Misc, SkipKinds, ArithmeticKinds
<1>14. Kind(op) \notin {"skip_key_down", "skip_key_up", "load_on_key"}
  BY <1>2, <1>3 DEF MiscKind
<1> HIDE DEF Same
<1> QED
  <2>1. Same
    BY <1>3, <1>6, <1>7, <1>8, <1>9, <1>10, <1>11, <1>12, <1>13
  <2> QED
    BY <1>14, <2>1 DEF Same

----------------------------------------------------------------------------
\* Where the compiled program can be.

\* Every return address is one that a block has pushed.
StackFits(stack) ==
  /\ stack \in Stacks
  /\ \A i \in 1 .. Len(stack) : stack[i] # Nowhere

\* The host services wait inside the block that called them.
InsideBlock ==
  /\ at \in {"block", "sprite", "frame", "poll"} => vm.pc \in Lowered
  /\ at \in {"sprite", "frame"} => op \div 4096 = 13
  /\ at = "poll" => op \div 4096 = 15 /\ IMMEDIATE8(op) = 10

TypeInv ==
  /\ TypeOK
  /\ KeyInv
  /\ Accepted(rom)
  /\ StackFits(vm.stack)
  /\ InsideBlock

LEMMA NowhereIs == Nowhere = 65535
  BY DEF Nowhere

\* A case of the dispatcher has a whole word behind it, inside memory.
LEMMA LoweredWord ==
  ASSUME rom \in ROMs, Accepted(rom), vm.pc \in Lowered
  PROVE  op \in Word /\ vm.pc \in 0 .. MEMORY_SIZE - 2 /\ vm.pc + 5 < Nowhere
<1>1. rom \in Seq(Byte) /\ Len(rom) \in Nat /\ Len(rom) <= MEMORY_SIZE - ENTRYPOINT
  BY ContentsAssumption
<1>2. ENTRYPOINT \in Nat /\ MEMORY_SIZE \in Nat /\ MEMORY_SIZE <= 4096
  BY SizesAssumption, MemorySize DEF Address
<1>3. PICK i \in 0 .. Len(rom) \div 2 - 1 : vm.pc = ENTRYPOINT + 2 * i
  BY DEF Lowered
<1>4. PICK h \in Nat : h = Len(rom) \div 2 /\ 2 * h = Len(rom)
  BY <1>1 DEF Accepted
<1>5. i \in Nat /\ 2 * i + 2 <= Len(rom)
  BY <1>3, <1>4
<1>6. rom[2 * i + 1] \in Byte /\ rom[2 * i + 2] \in Byte
  <2>1. 2 * i + 1 \in 1 .. Len(rom) /\ 2 * i + 2 \in 1 .. Len(rom)
    BY <1>1, <1>5
  <2> QED
    BY <1>1, <2>1
<1>7. vm.pc - ENTRYPOINT = 2 * i
  BY <1>2, <1>3, <1>5
<1>8. op \in Word
  BY <1>6, <1>7, TwoBytes DEF op
<1>9. vm.pc \in 0 .. MEMORY_SIZE - 2
  BY <1>1, <1>2, <1>3, <1>5
<1> QED
  BY <1>2, <1>8, <1>9, NowhereIs

LEMMA InvFacts ==
  ASSUME TypeInv
  PROVE  /\ vm \in Cores /\ StackFits(vm.stack) /\ rom \in ROMs /\ Accepted(rom)
         /\ at \in Positions
  BY DEF TypeInv, TypeOK, Cores

LEMMA BlockFacts ==
  ASSUME TypeInv, at \in {"block", "sprite", "frame", "poll"}
  PROVE  /\ op \in Word /\ vm.pc \in 0 .. MEMORY_SIZE - 2 /\ vm.pc + 5 < Nowhere
         /\ vm.pc \in Nat /\ vm.pc # Nowhere
<1>1. op \in Word /\ vm.pc \in 0 .. MEMORY_SIZE - 2 /\ vm.pc + 5 < Nowhere
  BY InvFacts, LoweredWord DEF TypeInv, InsideBlock
<1>2. vm.pc \in Nat
  BY <1>1, MemorySize
<1> QED
  BY <1>1, <1>2, NowhereIs

\* Where a block leaves the machine.
Left(m) == m \in Cores /\ StackFits(m.stack)
Onward(m) == Left(m) /\ m.pc # Nowhere

LEMMA StepLeft ==
  ASSUME NEW m \in Cores, StackFits(m.stack), m.pc + 5 < Nowhere, NEW condition
  PROVE  Onward(STEP(m)) /\ Onward(SkipIf(m, condition)) /\ STEP(m) = [m EXCEPT !.pc = @ + 2]
<1>0. PICK p \in Nat : p = m.pc /\ p + 5 < 65535
  BY CoreFields, NowhereIs
<1>1. PICK a \in Word : a = m.pc + 2 /\ a # Nowhere
  <2>1. p + 2 \in Word /\ p + 2 # 65535
    BY <1>0 DEF Word
  <2> QED
    BY <1>0, <2>1, NowhereIs
<1>2. PICK b \in Word : b = m.pc + 4 /\ b # Nowhere
  <2>1. p + 4 \in Word /\ p + 4 # 65535
    BY <1>0 DEF Word
  <2> QED
    BY <1>0, <2>1, NowhereIs
<1>3. Onward(At(m, a)) /\ Onward(At(m, b)) /\ At(m, a) = [m EXCEPT !.pc = a]
  BY <1>1, <1>2, CoreAt DEF Onward, Left
<1>4. STEP(m) = At(m, a) /\ SkipIf(m, condition) \in {At(m, a), At(m, b)}
  BY <1>1, <1>2 DEF STEP, SkipIf
<1> QED
  BY <1>1, <1>3, <1>4

\* An inline block: a step that an interpreter of the same word makes.
LEMMA InlineBlock ==
  ASSUME TypeInv, Inline
  PROVE  /\ Onward(vm') /\ at' = "dispatch"
         /\ Kind(op) # "illegal" =>
              /\ Kind(op) \notin {"skip_key_down", "skip_key_up", "load_on_key"}
              /\ \E random \in RandomBytes : vm' = Execute(op, vm, random)
<1> DEFINE Plain == Kind(op) \notin {"skip_key_down", "skip_key_up", "load_on_key"}
           Done(n, random) ==
             /\ InPlace(vm, n)
             /\ Kind(op) # "illegal" => Plain /\ STEP(n) = Execute(op, vm, random)
<1>1. /\ vm \in Cores /\ StackFits(vm.stack) /\ op \in Word /\ vm.pc + 5 < Nowhere
      /\ at' = "dispatch"
  BY InvFacts, BlockFacts DEF Inline, InBlock, Dispatch
<1>2. PICK random \in RandomBytes :
        vm' = STEP(CASE op \div 4096 = 0  -> [vm EXCEPT !.display = {}]
                     [] op \div 4096 = 6  -> SetReg(vm, X(op), IMMEDIATE8(op))
                     [] op \div 4096 = 7  -> SetReg(vm, X(op), (vx + IMMEDIATE8(op)) % 256)
                     [] op \div 4096 = 8  -> Alu(vm, X(op), IMMEDIATE4(op), vx, vy)
                     [] op \div 4096 = 10 -> [vm EXCEPT !.addr = IMMEDIATE12(op)]
                     [] op \div 4096 = 12 -> SetReg(vm, X(op), BitAnd(random, IMMEDIATE8(op)))
                     [] op \div 4096 = 15 -> Misc(vm, X(op), IMMEDIATE8(op)))
  BY DEF Inline
<1>3. PICK nibble : nibble = op \div 4096
  OBVIOUS
<1>4. PICK x \in 0 .. 15, kk \in Byte, a \in Byte, b \in Byte :
        x = X(op) /\ kk = IMMEDIATE8(op) /\ a = vx /\ b = vy
  BY <1>1, CoreBytes, FieldRanges DEF vx, vy
<1>5. nibble \in {0, 6, 7, 8, 10, 12, 15} /\ (nibble = 0 => op = 224) /\ (nibble = 15 => kk # 10)
  BY <1>3, <1>4 DEF Inline, InBlock
<1>6. \E n : vm' = STEP(n) /\ Done(n, random)
  <2>1. CASE nibble = 0
    <3>1. Kind(op) = "clearscreen"
      BY <1>5, <2>1 DEF Kind
    <3>2. Execute(op, vm, random) = STEP([vm EXCEPT !.display = {}])
      BY <3>1 DEF Execute, SkipKinds, ArithmeticKinds
    <3>3. InPlace(vm, [vm EXCEPT !.display = {}])
      BY <1>1, CoreEdits
    <3>4. vm' = STEP([vm EXCEPT !.display = {}])
      BY <1>2, <1>3, <2>1
    <3> QED
      BY <3>1, <3>2, <3>3, <3>4
  <2>2. CASE nibble = 6
    <3>1. Kind(op) = "load_immediate"
      BY <1>3, <2>2 DEF Kind
    <3>2. Execute(op, vm, random) = STEP(SetReg(vm, x, kk))
      BY <1>4, <3>1 DEF Execute, SkipKinds, ArithmeticKinds
    <3>3. InPlace(vm, SetReg(vm, x, kk))
      BY <1>1, CoreSetReg
    <3>4. vm' = STEP(SetReg(vm, x, kk))
      BY <1>2, <1>3, <1>4, <2>2
    <3> QED
      BY <3>1, <3>2, <3>3, <3>4
  <2>3. CASE nibble = 7
    <3>1. Kind(op) = "add_immediate"
      BY <1>3, <2>3 DEF Kind
    <3>2. PICK c \in Byte : c = (a + kk) % 256
      BY DEF Byte
    <3>3. Execute(op, vm, random) = STEP(SetReg(vm, x, c))
      BY <1>4, <3>1, <3>2 DEF Execute, SkipKinds, ArithmeticKinds, vx
    <3>4. InPlace(vm, SetReg(vm, x, c))
      BY <1>1, CoreSetReg
    <3>5. vm' = STEP(SetReg(vm, x, c))
      BY <1>2, <1>3, <1>4, <2>3, <3>2
    <3> QED
      BY <3>1, <3>3, <3>4, <3>5
  <2>4. CASE nibble = 8
    <3>1. PICK n : n = Alu(vm, x, IMMEDIATE4(op), a, b)
      OBVIOUS
    <3>2. InPlace(vm, n)
      BY <1>1, <3>1, AluType, FieldRanges
    <3>3. ASSUME Kind(op) # "illegal" PROVE Plain /\ STEP(n) = Execute(op, vm, random)
      <4>1. Kind(op) \in ArithmeticKinds /\ n = Arithmetic(op, vm)
        BY <1>1, <1>3, <1>4, <2>4, <3>1, <3>3, AluIsArithmetic DEF vx, vy
      <4> QED
        BY <4>1, ExecuteArithmetic DEF ArithmeticKinds
    <3>4. vm' = STEP(n)
      BY <1>2, <1>3, <1>4, <2>4, <3>1
    <3> QED
      BY <3>2, <3>3, <3>4
  <2>5. CASE nibble = 10
    <3>1. Kind(op) = "load_addr_immediate"
      BY <1>3, <2>5 DEF Kind
    <3>2. PICK nnn \in Word : nnn = IMMEDIATE12(op)
      BY <1>1, Immediate12Range, AddressInWord
    <3>3. Execute(op, vm, random) = STEP([vm EXCEPT !.addr = nnn])
      BY <3>1, <3>2 DEF Execute, SkipKinds, ArithmeticKinds
    <3>4. InPlace(vm, [vm EXCEPT !.addr = nnn])
      BY <1>1, CoreEdits
    <3>5. vm' = STEP([vm EXCEPT !.addr = nnn])
      BY <1>2, <1>3, <2>5, <3>2
    <3> QED
      BY <3>1, <3>3, <3>4, <3>5
  <2>6. CASE nibble = 12
    <3>1. Kind(op) = "random_byte"
      BY <1>3, <2>6 DEF Kind
    <3>2. PICK c \in Byte : c = BitAnd(random, kk)
      BY BitwiseInByte
    <3>3. Execute(op, vm, random) = STEP(SetReg(vm, x, c))
      BY <1>4, <3>1, <3>2 DEF Execute, SkipKinds, ArithmeticKinds
    <3>4. InPlace(vm, SetReg(vm, x, c))
      BY <1>1, CoreSetReg
    <3>5. vm' = STEP(SetReg(vm, x, c))
      BY <1>2, <1>3, <1>4, <2>6, <3>2
    <3> QED
      BY <3>1, <3>3, <3>4, <3>5
  <2>7. CASE nibble = 15
    <3>1. PICK n : n = Misc(vm, x, kk)
      OBVIOUS
    <3>2. InPlace(vm, n)
      BY <1>1, <1>4, <3>1, MiscType
    <3>3. ASSUME Kind(op) # "illegal" PROVE Plain /\ STEP(n) = Execute(op, vm, random)
      BY <1>1, <1>3, <1>4, <1>5, <2>7, <3>1, <3>3, MiscIsExecute
    <3>4. vm' = STEP(n)
      BY <1>2, <1>3, <1>4, <2>7, <3>1
    <3> QED
      BY <3>2, <3>3, <3>4
  <2> QED
    BY <1>5, <2>1, <2>2, <2>3, <2>4, <2>5, <2>6, <2>7
<1>7. PICK n : vm' = STEP(n) /\ Done(n, random)
  BY <1>6
<1>8. Onward(vm')
  <2>1. n \in Cores /\ n.pc = vm.pc /\ n.stack = vm.stack
    BY <1>7 DEF InPlace
  <2> QED
    BY <1>1, <1>7, <2>1, StepLeft
<1> QED
  BY <1>1, <1>7, <1>8

\* Jumps, calls and returns.
LEMMA JumpBlock ==
  ASSUME TypeInv, Jump
  PROVE  /\ Onward(vm') /\ at' = "dispatch" /\ Kind(op) \in {"jump", "branch"}
         /\ \A random : vm' = Execute(op, vm, random)
<1>1. /\ vm \in Cores /\ StackFits(vm.stack) /\ op \in Word /\ at' = "dispatch"
      /\ op \div 4096 \in {0, 1, 11} /\ op \notin {224, 238}
  BY InvFacts, BlockFacts DEF Jump, InBlock, Dispatch
<1>2. PICK a \in Word, b \in Word :
        a = IMMEDIATE12(op) /\ b = IMMEDIATE12(op) + vm.regs[0] /\ a # Nowhere /\ b # Nowhere
  <2>1. PICK r \in Byte : r = vm.regs[0]
    BY <1>1, CoreBytes
  <2>2. PICK t \in Nat : t = IMMEDIATE12(op) /\ t < 4096
    BY <1>1, Immediate12Range, MemorySize DEF Address
  <2>3. t \in Word /\ t + r \in Word /\ t # 65535 /\ t + r # 65535
    BY <2>2 DEF Byte, Word
  <2>4. PICK a \in Word : a = t
    BY <2>3
  <2>5. PICK b \in Word : b = t + r
    BY <2>3 DEF Word
  <2> QED
    BY <2>1, <2>2, <2>3, <2>4, <2>5, NowhereIs
<1>3. Onward(At(vm, a)) /\ Onward(At(vm, b))
  <2>1. ASSUME NEW c \in Word, c # Nowhere
        PROVE  Onward(At(vm, c))
    <3>1. At(vm, c) \in Cores /\ At(vm, c).pc = c /\ At(vm, c).stack = vm.stack
      BY <1>1, CoreAt
    <3> QED
      BY <1>1, <2>1, <3>1 DEF Onward, Left
  <2> QED
    BY <1>2, <2>1
<1>4. CASE op \div 4096 = 11
  <2>1. Kind(op) = "branch"
    BY <1>1, <1>4 DEF Kind
  <2>2. vm' = At(vm, b)
    BY <1>2, <1>4 DEF Jump
  <2> QED
    BY <1>1, <1>2, <1>3, <2>1, <2>2, ExecuteBranch
<1>5. CASE op \div 4096 \in {0, 1}
  <2>1. Kind(op) = "jump"
    BY <1>1, <1>5 DEF Kind
  <2>2. vm' = At(vm, a)
    <3>1. vm' = At(vm, a + 0)
      BY <1>2, <1>5 DEF Jump
    <3>2. a + 0 = a
      BY DEF Word
    <3> QED
      BY <3>1, <3>2
  <2> QED
    BY <1>1, <1>2, <1>3, <2>1, <2>2, ExecuteJump
<1> QED
  BY <1>1, <1>4, <1>5

LEMMA SkipBlock ==
  ASSUME TypeInv, Skip
  PROVE  /\ Onward(vm') /\ at' = "dispatch" /\ Kind(op) \in SkipKinds
         /\ \A random : vm' = Execute(op, vm, random)
<1>1. /\ vm \in Cores /\ StackFits(vm.stack) /\ op \in Word /\ vm.pc + 5 < Nowhere
      /\ at' = "dispatch" /\ op \div 4096 \in {3, 4, 5, 9}
  BY InvFacts, BlockFacts DEF Skip, InBlock, Dispatch
<1>2. PICK nibble : nibble = op \div 4096
  OBVIOUS
<1>3. op \notin {224, 238}
  BY <1>1
<1>4. vm' = SkipIf(vm, CASE nibble = 3 -> vx = IMMEDIATE8(op)
                         [] nibble = 4 -> vx # IMMEDIATE8(op)
                         [] nibble = 5 -> vx = vy
                         [] nibble = 9 -> vx # vy)
  BY <1>2 DEF Skip
<1>5. /\ nibble = 3 => Kind(op) = "skip_eq_immediate"
      /\ nibble = 4 => Kind(op) = "skip_neq_immediate"
      /\ nibble = 5 => Kind(op) = "skip_eq_register"
      /\ nibble = 9 => Kind(op) = "skip_neq_register"
  <2>1. nibble = 3 => Kind(op) = "skip_eq_immediate"
    BY <1>2, <1>3 DEF Kind
  <2>2. nibble = 4 => Kind(op) = "skip_neq_immediate"
    BY <1>2, <1>3 DEF Kind
  <2>3. nibble = 5 => Kind(op) = "skip_eq_register"
    BY <1>2, <1>3 DEF Kind
  <2>4. nibble = 9 => Kind(op) = "skip_neq_register"
    BY <1>2, <1>3 DEF Kind
  <2> QED
    BY <2>1, <2>2, <2>3, <2>4
<1>6. Kind(op) \in SkipKinds
  BY <1>1, <1>2, <1>5 DEF SkipKinds
<1>7. vm' = SkipIf(vm, SkipTaken(op, vm))
  <2>1. CASE nibble = 3
    BY <1>4, <1>5, <2>1 DEF SkipTaken, SkipIf, vx
  <2>2. CASE nibble = 4
    BY <1>4, <1>5, <2>2 DEF SkipTaken, SkipIf, vx
  <2>3. CASE nibble = 5
    BY <1>4, <1>5, <2>3 DEF SkipTaken, SkipIf, vx, vy
  <2>4. CASE nibble = 9
    BY <1>4, <1>5, <2>4 DEF SkipTaken, SkipIf, vx, vy
  <2> QED
    BY <1>1, <1>2, <2>1, <2>2, <2>3, <2>4
<1>8. Onward(vm')
  BY <1>1, <1>7, StepLeft
<1> QED
  BY <1>1, <1>6, <1>7, <1>8, ExecuteSkip

LEMMA StackAndPlace ==
  ASSUME NEW m \in Cores, NEW s \in Stacks, NEW a \in Word
  PROVE  At([m EXCEPT !.stack = s], a) = [At(m, a) EXCEPT !.stack = s]
<1>1. PICK n \in Cores : n = [m EXCEPT !.stack = s]
  BY CoreStack
<1>2. At(n, a) = [n EXCEPT !.pc = a] /\ At(m, a) = [m EXCEPT !.pc = a]
  BY CoreAt
<1>3. [[m EXCEPT !.stack = s] EXCEPT !.pc = a] = [[m EXCEPT !.pc = a] EXCEPT !.stack = s]
  BY DEF Cores
<1> QED
  BY <1>1, <1>2, <1>3

\* A full stack sends the program nowhere.
LEMMA CallBlock ==
  ASSUME TypeInv, Call
  PROVE  /\ Left(vm') /\ at' = "dispatch" /\ Kind(op) = "call"
         /\ Len(vm.stack) < STACK_SIZE => Onward(vm') /\ \A random : vm' = Execute(op, vm, random)
         /\ ~(Len(vm.stack) < STACK_SIZE) => vm' = [vm EXCEPT !.pc = Nowhere]
<1>0. op \in Word /\ vm.pc + 5 < Nowhere /\ vm.pc \in Nat /\ op \div 4096 = 2
  BY InvFacts, BlockFacts DEF Call, InBlock
<1>1. vm \in Cores /\ StackFits(vm.stack) /\ op \in Word /\ at' = "dispatch"
  BY <1>0, InvFacts DEF Call, InBlock, Dispatch
<1>2. Kind(op) = "call"
  BY <1>0 DEF Kind
<1>3. PICK a \in Word : a = IMMEDIATE12(op) /\ a # Nowhere
  <2>1. PICK t \in Nat : t = IMMEDIATE12(op) /\ t < 4096
    BY <1>1, Immediate12Range, MemorySize DEF Address
  <2> QED
    BY <2>1, NowhereIs DEF Word
<1>4. PICK back \in Word : back = vm.pc + 2 /\ back = (vm.pc + 2) % 65536 /\ back # Nowhere
  <2>1. PICK p \in Nat : p = vm.pc /\ p + 5 < 65535
    BY <1>0, NowhereIs
  <2>2. p + 2 \in Word /\ (p + 2) % 65536 = p + 2 /\ p + 2 # 65535
    BY <2>1 DEF Word
  <2> QED
    BY <2>1, <2>2, NowhereIs
<1>5. PICK stack \in Seq(Word) : stack = vm.stack /\ StackFits(stack) /\ stack \in Stacks
  BY <1>1 DEF StackFits, Stacks
<1>6. CASE Len(stack) < STACK_SIZE
  <2>0. Append(stack, back) \in Seq(Word) /\ Append(stack, back) \in Stacks
    BY <1>5, <1>6, SequenceGrows
  <2>1. PICK s \in Seq(Word) : s = Append(stack, back) /\ s \in Stacks
    BY <2>0
  <2>2. StackFits(s)
    <3>1. Len(s) = Len(stack) + 1 /\ Len(stack) \in Nat /\ s[Len(s)] = back
      BY <2>1
    <3>2. \A i \in 1 .. Len(s) : i = Len(s) \/ (i \in 1 .. Len(stack) /\ s[i] = stack[i])
      <4>1. \A i \in 1 .. Len(stack) : s[i] = stack[i]
        BY <2>1
      <4>2. \A i \in 1 .. Len(s) : i = Len(s) \/ i \in 1 .. Len(stack)
        BY <3>1
      <4> QED
        BY <4>1, <4>2
    <3>3. \A i \in 1 .. Len(s) : s[i] # Nowhere
      BY <1>4, <1>5, <3>1, <3>2 DEF StackFits
    <3> QED
      BY <2>1, <3>3 DEF StackFits
  <2>3. PICK m \in Cores : m = [vm EXCEPT !.stack = s] /\ m.stack = s
    BY <1>1, <2>1, CoreStack
  <2>4. vm' = At(m, a)
    <3>1. vm' = At([vm EXCEPT !.stack = Append(@, vm.pc + 2)], IMMEDIATE12(op))
      BY <1>5, <1>6 DEF Call
    <3>2. Append(vm.stack, vm.pc + 2) = s
      BY <1>4, <1>5, <2>1
    <3>3. [vm EXCEPT !.stack = Append(@, vm.pc + 2)] = [vm EXCEPT !.stack = s]
      BY <3>2
    <3> QED
      BY <1>3, <2>3, <3>1, <3>3
  <2>5. Onward(vm')
    <3>1. At(m, a) \in Cores /\ At(m, a).pc = a /\ At(m, a).stack = m.stack
      BY CoreAt
    <3> QED
      BY <1>3, <2>2, <2>3, <2>4, <3>1 DEF Onward, Left
  <2>6. At(m, a) = [At(vm, a) EXCEPT !.stack = s]
    BY <1>1, <2>1, <2>3, StackAndPlace
  <2>7. ASSUME NEW random PROVE vm' = Execute(op, vm, random)
    <3>1. Execute(op, vm, random) = [At(vm, a) EXCEPT !.stack = Append(@, back)]
      BY <1>2, <1>3, <1>4, ExecuteCall
    <3>2. At(vm, a).stack = stack
      BY <1>1, <1>5, CoreAt
    <3>3. [At(vm, a) EXCEPT !.stack = Append(@, back)] = [At(vm, a) EXCEPT !.stack = s]
      BY <2>1, <3>2
    <3> QED
      BY <2>4, <2>6, <3>1, <3>3
  <2> QED
    BY <1>1, <1>2, <1>5, <1>6, <2>5, <2>7 DEF Onward
<1>7. CASE ~(Len(stack) < STACK_SIZE)
  <2>1. PICK n \in Word : n = Nowhere
    BY NowhereIs DEF Word
  <2>2. vm' = At(vm, n)
    BY <1>5, <1>7, <2>1 DEF Call
  <2>3. At(vm, n) = [vm EXCEPT !.pc = n] /\ At(vm, n) \in Cores /\ At(vm, n).stack = vm.stack
    BY <1>1, CoreAt
  <2>4. Left(vm') /\ vm' = [vm EXCEPT !.pc = Nowhere]
    BY <1>1, <2>1, <2>2, <2>3 DEF Left
  <2> QED
    BY <1>1, <1>2, <1>5, <1>7, <2>4
<1> QED
  BY <1>6, <1>7

LEMMA ReturnBlock ==
  ASSUME TypeInv, Return
  PROVE  /\ Left(vm') /\ at' = "dispatch" /\ Kind(op) = "retern"
         /\ vm.stack # << >> => Onward(vm') /\ \A random : vm' = Execute(op, vm, random)
         /\ vm.stack = << >> => vm' = [vm EXCEPT !.pc = Nowhere]
<1>1. /\ vm \in Cores /\ StackFits(vm.stack) /\ op = 238 /\ at' = "dispatch"
  BY InvFacts DEF Return, InBlock, Dispatch
<1>2. Kind(op) = "retern"
  BY <1>1 DEF Kind
<1>3. CASE vm.stack # << >>
  <2>1. PICK stack \in Seq(Word) : stack = vm.stack /\ stack # << >> /\ stack \in Stacks
    BY <1>1, <1>3 DEF StackFits, Stacks
  <2>2. PICK n \in Nat : n = Len(stack) /\ n \in 1 .. Len(stack)
    BY <2>1
  <2>3. PICK a \in Word : a = stack[n] /\ a # Nowhere
    BY <1>1, <2>1, <2>2 DEF StackFits
  <2>4. PICK s \in Stacks : s = SubSeq(stack, 1, n - 1)
    BY <2>1, <2>2, SequenceEnds
  <2>5. StackFits(s)
    <3>0. Len(s) = n - 1
      BY <2>2, <2>4
    <3>1. Len(s) = n - 1 /\ \A i \in 1 .. Len(s) : s[i] = stack[i] /\ i \in 1 .. Len(stack)
      BY <2>2, <2>4, <3>0
    <3> QED
      BY <1>1, <2>1, <2>2, <2>4, <3>1 DEF StackFits
  <2>6. PICK m \in Cores : m = [vm EXCEPT !.stack = s] /\ m.stack = s
    BY <1>1, CoreStack
  <2>7. vm' = At(m, a)
    <3>1. vm' = At([vm EXCEPT !.stack = SubSeq(@, 1, Len(@) - 1)], vm.stack[Len(vm.stack)])
      BY <1>3 DEF Return
    <3>2. /\ SubSeq(vm.stack, 1, Len(vm.stack) - 1) = s
          /\ vm.stack[Len(vm.stack)] = a
      BY <2>1, <2>2, <2>3, <2>4
    <3>3. [vm EXCEPT !.stack = SubSeq(@, 1, Len(@) - 1)] = m
      BY <2>6, <3>2
    <3> QED
      BY <3>1, <3>2, <3>3
  <2>8. Onward(vm')
    BY <2>3, <2>5, <2>6, <2>7, CoreAt DEF Onward, Left
  <2>9. At(m, a) = [At(vm, a) EXCEPT !.stack = s]
    BY <1>1, <2>6, StackAndPlace
  <2>10. ASSUME NEW random PROVE vm' = Execute(op, vm, random)
    <3>1. At(vm, a).stack = stack
      BY <1>1, <2>1, CoreAt
    <3>2. Execute(op, vm, random) = [At(vm, a) EXCEPT !.stack = SubSeq(@, 1, Len(@) - 1)]
      BY <1>2, <2>1, <2>2, <2>3, ExecuteRetern
    <3>3. [At(vm, a) EXCEPT !.stack = SubSeq(@, 1, Len(@) - 1)] = [At(vm, a) EXCEPT !.stack = s]
      BY <2>2, <2>4, <3>1
    <3> QED
      BY <2>7, <2>9, <3>2, <3>3
  <2> QED
    BY <1>1, <1>2, <1>3, <2>8, <2>10 DEF Onward
<1>4. CASE vm.stack = << >>
  <2>1. PICK n \in Word : n = Nowhere
    BY NowhereIs DEF Word
  <2>2. vm' = At(vm, n)
    BY <1>4, <2>1 DEF Return
  <2> QED
    BY <1>1, <1>2, <1>4, <2>1, <2>2, CoreAt DEF Left
<1> QED
  BY <1>3, <1>4

\* Keys: a skip either way, and a key for Vx.
LEMMA KeyBlock ==
  ASSUME TypeInv, Key
  PROVE  /\ Onward(vm') /\ at' = "dispatch" /\ op \div 4096 = 14
         /\ \E hit \in BOOLEAN : vm' = SkipIf(vm, hit)
<1>1. /\ vm \in Cores /\ StackFits(vm.stack) /\ vm.pc + 5 < Nowhere
      /\ at' = "dispatch" /\ op \div 4096 = 14
  BY InvFacts, BlockFacts DEF Key, InBlock, Dispatch
<1>2. PICK hit \in BOOLEAN : vm' = SkipIf(vm, hit)
  BY DEF Key
<1> QED
  BY <1>1, <1>2, StepLeft

LEMMA AnswerBlock ==
  ASSUME TypeInv, Answer
  PROVE  /\ Onward(vm') /\ at' = "dispatch"
         /\ \E key \in 0 .. 15 : vm' = STEP(SetReg(vm, X(op), key))
<1> DEFINE down == Down(key_history) \cap Input!HexKeys
<1>1. /\ vm \in Cores /\ StackFits(vm.stack) /\ vm.pc + 5 < Nowhere /\ op \in Word
      /\ at' = "dispatch"
  BY InvFacts, BlockFacts DEF Answer, Dispatch
<1>2. down \in SUBSET Nat /\ down \subseteq 0 .. 15 /\ down # {}
  BY DEF Input!HexKeys, Answer
<1>3. PICK key : key = CHOOSE k \in down : \A l \in down : k <= l
  OBVIOUS
<1>4. vm' = STEP(SetReg(vm, X(op), key))
  BY <1>3 DEF Answer
<1> HIDE DEF down
<1>5. \E k \in down : \A l \in down : k <= l
  BY <1>2, NatMinimum
<1>6. key \in 0 .. 15 /\ key \in Byte
  <2>1. key \in down
    BY <1>3, <1>5, Zenon
  <2> QED
    BY <1>2, <2>1 DEF Byte
<1>7. PICK m : m = SetReg(vm, X(op), key)
  OBVIOUS
<1>8. m \in Cores /\ m.pc = vm.pc /\ m.stack = vm.stack
  <2>1. X(op) \in 0 .. 15
    BY <1>1, FieldRanges
  <2>2. InPlace(vm, SetReg(vm, X(op), key))
    BY <1>1, <1>6, <2>1, CoreSetReg
  <2> QED
    BY <1>7, <2>2 DEF InPlace
<1>9. Onward(STEP(m))
  BY <1>1, <1>8, StepLeft
<1> QED
  BY <1>1, <1>4, <1>6, <1>7, <1>9

\* The sprite is drawn where the block is, the frame is waited for behind it.
LEMMA SpriteBlock ==
  ASSUME TypeInv, DrawSprite
  PROVE  InPlace(vm, vm') /\ vm'.memory = vm.memory /\ at' = "frame"
  BY InvFacts, BlockFacts, CoreDraw DEF DrawSprite

LEMMA FrameBlock ==
  ASSUME TypeInv, DrawFrame
  PROVE  Onward(vm') /\ at' = "dispatch" /\ vm' = [vm EXCEPT !.pc = @ + 2]
<1>1. /\ vm \in Cores /\ StackFits(vm.stack) /\ vm.pc + 5 < Nowhere
      /\ at' = "dispatch" /\ vm' = STEP(vm)
  BY InvFacts, BlockFacts DEF DrawFrame, Dispatch
<1> QED
  BY <1>1, StepLeft

\* service_timers stays in place and counts down by one, or does nothing.
Counted(m) == [m EXCEPT !.delay = CountDown(@, 1), !.sound = CountDown(@, 1)]

LEMMA TimersServed ==
  ASSUME TypeInv, ServiceTimers
  PROVE  /\ InPlace(vm, vm') /\ vm'.memory = vm.memory /\ vm'.regs = vm.regs
         /\ vm' = vm \/ vm' = Counted(vm)
         /\ last_tick' \in Input!Ticks
<1>1. vm \in Cores /\ tick \in Input!Ticks /\ last_tick' = tick
  BY InvFacts DEF TypeInv, TypeOK, ServiceTimers
<1>2. vm' = [vm EXCEPT !.delay = Input!CountedDown(@, last_tick, tick),
                       !.sound = Input!CountedDown(@, last_tick, tick)]
  BY DEF ServiceTimers
<1>3. CASE tick = last_tick
  <2>1. vm' = [vm EXCEPT !.delay = @, !.sound = @]
    BY <1>2, <1>3 DEF Input!CountedDown
  <2>2. vm' = vm
    BY <1>1, <2>1 DEF Cores
  <2> QED
    BY <1>1, <2>2 DEF InPlace
<1>4. CASE tick # last_tick
  <2>1. \A b \in Byte : CountDown(b, 1) \in Byte
    BY DEF CountDown, Byte
  <2>2. \A b \in Byte : Input!CountedDown(b, last_tick, tick) = CountDown(b, 1)
    <3>1. \A b \in Byte : b > 1 \/ b = 1 \/ b = 0
      BY DEF Byte
    <3>2. \A b \in Byte : CountDown(b, 1) = IF b > 0 THEN b - 1 ELSE b
      BY <3>1 DEF CountDown, Byte
    <3> QED
      BY <1>4, <3>2 DEF Input!CountedDown
  <2>3. PICK d \in Byte, s \in Byte : d = CountDown(vm.delay, 1) /\ s = CountDown(vm.sound, 1)
    BY <1>1, <2>1, CoreFields
  <2>4. vm' = [[vm EXCEPT !.delay = d] EXCEPT !.sound = s]
    BY <1>1, <1>2, <2>2, <2>3, CoreFields
  <2>5. vm' = Counted(vm)
    BY <1>1, <2>3, <2>4 DEF Counted
  <2>6. InPlace(vm, vm') /\ vm'.memory = vm.memory /\ vm'.regs = vm.regs
    <3>1. PICK m : m = [vm EXCEPT !.delay = d]
      OBVIOUS
    <3>2. m \in Cores /\ m.pc = vm.pc /\ m.stack = vm.stack /\ m.memory = vm.memory /\ m.regs = vm.regs
      BY <1>1, <3>1 DEF Cores
    <3>3. PICK n : n = [m EXCEPT !.sound = s]
      OBVIOUS
    <3>4. n \in Cores /\ n.pc = m.pc /\ n.stack = m.stack /\ n.memory = m.memory /\ n.regs = m.regs
      BY <3>2, <3>3 DEF Cores
    <3> QED
      BY <2>4, <3>1, <3>2, <3>3, <3>4 DEF InPlace
  <2> QED
    BY <1>1, <2>5, <2>6
<1> QED
  BY <1>3, <1>4

LEMMA RetireDone ==
  ASSUME TypeInv, RetireBlock
  PROVE  /\ InPlace(vm, vm') /\ vm'.memory = vm.memory
         /\ vm' = vm \/ vm' = Counted(vm)
         /\ last_tick' \in Input!Ticks /\ retired' \in 0 .. TIMER_INTERVAL - 1
         /\ at' \in {"block", "exited"}
<1>1. retired' \in 0 .. TIMER_INTERVAL - 1
  <2>1. PICK n \in Nat : n = retired + 1
    BY DEF TypeInv, TypeOK
  <2>2. retired' = n % TIMER_INTERVAL
    BY <2>1 DEF RetireBlock
  <2>3. n % TIMER_INTERVAL \in 0 .. TIMER_INTERVAL - 1
    OBVIOUS
  <2> QED
    BY <2>2, <2>3
<1>2. at' \in {"block", "exited"}
  BY DEF RetireBlock
<1>3. ServiceTimers \/ UNCHANGED <<vm, last_tick>>
  BY DEF RetireBlock
<1>4. CASE ServiceTimers
  BY <1>1, <1>2, <1>4, TimersServed
<1>5. CASE UNCHANGED <<vm, last_tick>>
  BY <1>1, <1>2, <1>5, InvFacts DEF InPlace, TypeInv, TypeOK
<1> QED
  BY <1>3, <1>4, <1>5

----------------------------------------------------------------------------
\* The types of the compiled program.

LEMMA InitTypeInv == Init => TypeInv
<1> SUFFICES ASSUME Init PROVE TypeInv
  OBVIOUS
<1>1. rom \in ROMs /\ Accepted(rom)
  BY DEF Init
<1>2. vm \in Cores /\ StackFits(vm.stack)
  <2>1. vm = [pc |-> ENTRYPOINT, regs |-> [i \in 0 .. 15 |-> 0], addr |-> 0, stack |-> << >>,
              memory |-> LoadedMemory(rom), display |-> {}, delay |-> 0, sound |-> 0]
    BY DEF Init
  <2>2. LoadedMemory(rom) \in [Address -> Byte]
    BY <1>1, LoadedMemoryType
  <2>3. ENTRYPOINT \in Word
    BY SizesAssumption, AddressInWord
  <2>4. 0 \in Byte /\ 0 \in Word
    BY DEF Byte, Word
  <2>5. << >> \in Stacks
    BY EmptyStack
  <2>6. [i \in 0 .. 15 |-> 0] \in [0 .. 15 -> Byte]
    BY <2>4
  <2>7. {} \in SUBSET ((0 .. Width - 1) \X (0 .. Height - 1))
    OBVIOUS
  <2>8. vm \in Cores
    BY <2>1, <2>2, <2>3, <2>4, <2>5, <2>6, <2>7 DEF Cores
  <2>9. StackFits(<< >>)
    BY EmptyStack DEF StackFits
  <2> QED
    BY <2>1, <2>8, <2>9
<1>3. /\ retired = 0 /\ tick = 0 /\ part = 0 /\ last_tick = tick /\ at = "dispatch"
  BY DEF Init
<1>4. KeyInv
  BY InitKeyInv
<1>5. TypeOK
  <2>1. /\ 0 \in 0 .. TIMER_INTERVAL - 1 /\ 0 \in 0 .. POLLS_PER_TICK - 1
        /\ 0 \in Input!Ticks
    BY DEF Input!Ticks
  <2> QED
    BY <1>1, <1>2, <1>3, <1>4, <2>1 DEF TypeOK, KeyInv, Cores, StackFits, Positions
<1>6. InsideBlock
  BY <1>3 DEF InsideBlock
<1> QED
  BY <1>1, <1>2, <1>4, <1>5, <1>6 DEF TypeInv

\* The parts that a step between two blocks has to show.
LEMMA TypeInvFrom ==
  ASSUME TypeInv, KeyInv', rom' = rom, Left(vm'),
         retired' \in 0 .. TIMER_INTERVAL - 1, tick' \in Input!Ticks, last_tick' \in Input!Ticks,
         part' \in 0 .. POLLS_PER_TICK - 1, at' \in Positions, InsideBlock'
  PROVE  TypeInv'
<1>1. rom' \in ROMs /\ Accepted(rom)' /\ StackFits(vm.stack)'
  BY InvFacts DEF Accepted, Left, StackFits
<1>2. TypeOK'
  BY <1>1 DEF TypeOK, KeyInv, Left, StackFits, Cores, HistoryOK, Input!Slots, Input!Ticks, Positions
<1> QED
  BY <1>1, <1>2 DEF TypeInv

LEMMA SameBlock ==
  ASSUME rom' = rom, vm'.pc = vm.pc
  PROVE  op' = op /\ Lowered' = Lowered
  BY DEF op, Lowered

LEMMA ClockTypes ==
  ASSUME TypeInv, Clock
  PROVE  tick' \in Input!Ticks /\ part' \in 0 .. POLLS_PER_TICK - 1
<1>1. tick \in Input!Ticks /\ part \in 0 .. POLLS_PER_TICK - 1
  BY DEF TypeInv, TypeOK
<1>2. Input!NextTick(tick) \in Input!Ticks
  <2>1. PICK n \in Nat : n = tick + 1
    BY <1>1 DEF Input!Ticks
  <2>2. n % TICKS_PER_SECOND \in 0 .. TICKS_PER_SECOND - 1
    OBVIOUS
  <2> QED
    BY <2>1, <2>2 DEF Input!NextTick, Input!Ticks
<1>3. tick' \in Input!Ticks
  BY <1>1, <1>2 DEF Clock
<1>4. part' \in 0 .. POLLS_PER_TICK - 1
  <2>1. PICK n \in Nat : n = part + 1
    BY <1>1
  <2>2. n % POLLS_PER_TICK \in 0 .. POLLS_PER_TICK - 1
    OBVIOUS
  <2> QED
    BY <2>1, <2>2 DEF Clock
<1> QED
  BY <1>3, <1>4

THEOREM TypeInvInductive == TypeInv /\ [Next]_vars => TypeInv'
<1> SUFFICES ASSUME TypeInv, [Next]_vars PROVE TypeInv'
  OBVIOUS
<1>1. KeyInv'
  BY KeyInvInductive DEF TypeInv
<1>2. /\ vm \in Cores /\ StackFits(vm.stack) /\ Left(vm) /\ at \in Positions
      /\ retired \in 0 .. TIMER_INTERVAL - 1 /\ tick \in Input!Ticks
      /\ last_tick \in Input!Ticks /\ part \in 0 .. POLLS_PER_TICK - 1
  BY InvFacts DEF TypeInv, TypeOK, Left
<1>3. ASSUME UNCHANGED <<rom, vm, at>>, retired' \in 0 .. TIMER_INTERVAL - 1,
             tick' \in Input!Ticks, last_tick' \in Input!Ticks, part' \in 0 .. POLLS_PER_TICK - 1
      PROVE  TypeInv'
  <2>1. op' = op /\ Lowered' = Lowered
    BY <1>3, SameBlock
  <2>2. InsideBlock'
    BY <1>3, <2>1 DEF TypeInv, InsideBlock, IMMEDIATE8
  <2> QED
    BY <1>1, <1>2, <1>3, <2>2, TypeInvFrom
<1>4. ASSUME UNCHANGED <<rom, clock, timing>>, Left(vm'), at' = "dispatch"
      PROVE  TypeInv'
  <2>1. InsideBlock'
    BY <1>4 DEF InsideBlock
  <2>2. at' \in Positions
    BY <1>4 DEF Positions
  <2> QED
    BY <1>1, <1>2, <1>4, <2>1, <2>2, TypeInvFrom DEF clock, timing
<1>5. CASE Clock
  <2>1. UNCHANGED <<rom, vm, at, retired, last_tick>>
    BY <1>5 DEF Clock, timing
  <2> QED
    BY <1>2, <1>3, <1>5, <2>1, ClockTypes
<1>6. CASE Type
  BY <1>2, <1>3, <1>6 DEF Type, timing, clock
<1>7. CASE RetireBlock
  <2>1. /\ rom' = rom /\ UNCHANGED clock /\ vm.pc \in Lowered
    BY <1>7 DEF RetireBlock
  <2>2. /\ InPlace(vm, vm') /\ last_tick' \in Input!Ticks
        /\ retired' \in 0 .. TIMER_INTERVAL - 1 /\ at' \in {"block", "exited"}
    BY <1>7, RetireDone
  <2>3. Left(vm') /\ vm'.pc = vm.pc
    BY <1>2, <2>2 DEF InPlace, Left
  <2>4. InsideBlock'
    BY <2>1, <2>2, <2>3, SameBlock DEF InsideBlock
  <2>5. at' \in Positions
    BY <2>2 DEF Positions
  <2> QED
    BY <1>1, <1>2, <2>1, <2>2, <2>3, <2>4, <2>5, TypeInvFrom DEF clock
<1>8. CASE Leave
  <2>1. InsideBlock' /\ at' \in Positions /\ Left(vm')
    BY <1>2, <1>8 DEF Leave, InsideBlock, Positions
  <2> QED
    BY <1>1, <1>2, <1>8, <2>1, TypeInvFrom DEF Leave, clock, timing
<1>9. CASE Inline
  <2>1. Left(vm') /\ at' = "dispatch"
    BY <1>9, InlineBlock DEF Onward
  <2> QED
    BY <1>4, <1>9, <2>1 DEF Inline, InBlock, Quiet
<1>10. CASE Jump
  <2>1. Left(vm') /\ at' = "dispatch"
    BY <1>10, JumpBlock DEF Onward
  <2> QED
    BY <1>4, <1>10, <2>1 DEF Jump, InBlock, Quiet
<1>11. CASE Skip
  <2>1. Left(vm') /\ at' = "dispatch"
    BY <1>11, SkipBlock DEF Onward
  <2> QED
    BY <1>4, <1>11, <2>1 DEF Skip, InBlock, Quiet
<1>12. CASE Call
  BY <1>4, <1>12, CallBlock DEF Call, InBlock, Quiet
<1>13. CASE Return
  BY <1>4, <1>13, ReturnBlock DEF Return, InBlock, Quiet
<1>14. CASE DrawStart
  <2>1. /\ rom' = rom /\ UNCHANGED clock /\ at = "block" /\ op \div 4096 = 13
        /\ at' = "sprite" /\ retired' = retired /\ ServiceTimers
    BY <1>14 DEF DrawStart, InBlock
  <2>2. InPlace(vm, vm') /\ last_tick' \in Input!Ticks
    BY <2>1, TimersServed
  <2>3. Left(vm') /\ vm'.pc = vm.pc
    BY <1>2, <2>2 DEF InPlace, Left
  <2>4. vm.pc \in Lowered
    BY <2>1 DEF TypeInv, InsideBlock
  <2>5. InsideBlock' /\ at' \in Positions
    BY <2>1, <2>3, <2>4, SameBlock DEF InsideBlock, Positions
  <2> QED
    BY <1>1, <1>2, <2>1, <2>2, <2>3, <2>5, TypeInvFrom DEF clock
<1>15. CASE DrawSprite
  <2>1. /\ UNCHANGED <<rom, clock, timing>> /\ at = "sprite" /\ at' = "frame"
    BY <1>15 DEF DrawSprite
  <2>2. InPlace(vm, vm')
    BY <1>15, SpriteBlock
  <2>3. Left(vm') /\ vm'.pc = vm.pc
    BY <1>2, <2>2 DEF InPlace, Left
  <2>4. vm.pc \in Lowered /\ op \div 4096 = 13
    BY <2>1 DEF TypeInv, InsideBlock
  <2>5. InsideBlock' /\ at' \in Positions
    BY <2>1, <2>3, <2>4, SameBlock DEF InsideBlock, Positions
  <2> QED
    BY <1>1, <1>2, <2>1, <2>3, <2>5, TypeInvFrom DEF clock, timing
<1>16. CASE DrawFrame
  <2>1. /\ UNCHANGED <<rom, clock, retired>> /\ last_tick' = tick /\ at' = "dispatch"
    BY <1>16 DEF DrawFrame, Dispatch
  <2>2. Left(vm')
    BY <1>16, FrameBlock DEF Onward
  <2>3. InsideBlock' /\ at' \in Positions
    BY <2>1 DEF InsideBlock, Positions
  <2> QED
    BY <1>1, <1>2, <2>1, <2>2, <2>3, TypeInvFrom DEF clock
<1>17. CASE Key
  <2>1. Left(vm') /\ at' = "dispatch"
    BY <1>17, KeyBlock DEF Onward
  <2> QED
    BY <1>4, <1>17, <2>1 DEF Key, InBlock
<1>18. CASE WaitForKey
  <2>1. /\ UNCHANGED <<rom, clock, vm, timing>> /\ at = "block" /\ at' = "poll"
        /\ op \div 4096 = 15 /\ IMMEDIATE8(op) = 10
    BY <1>18 DEF WaitForKey, InBlock, Quiet
  <2>2. vm.pc \in Lowered
    BY <2>1 DEF TypeInv, InsideBlock
  <2>3. InsideBlock' /\ at' \in Positions /\ Left(vm')
    BY <1>2, <2>1, <2>2, SameBlock DEF InsideBlock, Positions, IMMEDIATE8
  <2> QED
    BY <1>1, <1>2, <2>1, <2>3, TypeInvFrom DEF clock, timing
<1>19. CASE Poll
  BY <1>2, <1>3, <1>19 DEF Poll, timing, clock
<1>20. CASE Answer
  <2>1. Left(vm') /\ at' = "dispatch"
    BY <1>20, AnswerBlock DEF Onward
  <2> QED
    BY <1>4, <1>20, <2>1 DEF Answer
<1>21. CASE UNCHANGED vars
  BY <1>2, <1>3, <1>21 DEF vars, timing, clock
<1> QED
  BY <1>5, <1>6, <1>7, <1>8, <1>9, <1>10, <1>11, <1>12, <1>13, <1>14, <1>15, <1>16, <1>17,
     <1>18, <1>19, <1>20, <1>21 DEF Next, Host, Halted

(***************************************************************************)
(* Whatever the ROM holds and the user presses, the runtime's state keeps  *)
(* its types: no register, timer or address leaves its width, the stack    *)
(* stays within its STACK_SIZE places, and the key history is indexed      *)
(* inside.                                                                 *)
(***************************************************************************)
THEOREM TypeCorrect == Spec => []TypeOK
<1>1. TypeInv => TypeOK
  BY DEF TypeInv
<1> QED
  BY InitTypeInv, TypeInvInductive, <1>1, PTL DEF Spec

----------------------------------------------------------------------------
\* Cpu's instance of Chip8 is Chip8: its operators, one by one.

LEMMA SameFields ==
  ASSUME NEW o
  PROVE  /\ Abstract!X(o) = X(o) /\ Abstract!Y(o) = Y(o)
         /\ Abstract!IMMEDIATE4(o) = IMMEDIATE4(o) /\ Abstract!IMMEDIATE8(o) = IMMEDIATE8(o)
         /\ Abstract!IMMEDIATE12(o) = IMMEDIATE12(o)
         /\ Abstract!SkipKinds = SkipKinds /\ Abstract!ArithmeticKinds = ArithmeticKinds
  BY DEF X, Y, IMMEDIATE4, IMMEDIATE8, IMMEDIATE12, SkipKinds, ArithmeticKinds,
         Abstract!X, Abstract!Y, Abstract!IMMEDIATE4, Abstract!IMMEDIATE8, Abstract!IMMEDIATE12,
         Abstract!SkipKinds, Abstract!ArithmeticKinds

LEMMA SameKind ==
  ASSUME NEW o
  PROVE  Abstract!Kind(o) = Kind(o)
  BY DEF Kind, ArithmeticKind, MiscKind, Abstract!Kind, Abstract!ArithmeticKind, Abstract!MiscKind

LEMMA SameSteps ==
  ASSUME NEW m, NEW a, NEW b, NEW c
  PROVE  /\ Abstract!At(m, a) = At(m, a) /\ Abstract!STEP(m) = STEP(m)
         /\ Abstract!SkipIf(m, a) = SkipIf(m, a)
         /\ Abstract!SetReg(m, a, b) = SetReg(m, a, b)
         /\ Abstract!SetRegFlag(m, a, b, c) = SetRegFlag(m, a, b, c)
<1>1. \A k, t : Abstract!At(k, t) = At(k, t)
  BY DEF At, Abstract!At
<1>2. Abstract!STEP(m) = STEP(m)
  BY <1>1 DEF STEP, Abstract!STEP
<1>3. Abstract!SkipIf(m, a) = SkipIf(m, a)
  BY <1>1, <1>2 DEF SkipIf, Abstract!SkipIf
<1>4. Abstract!SetReg(m, a, b) = SetReg(m, a, b)
  BY DEF SetReg, Abstract!SetReg
<1>5. Abstract!SetRegFlag(m, a, b, c) = SetRegFlag(m, a, b, c)
  BY DEF SetRegFlag, Abstract!SetRegFlag
<1> QED
  BY <1>1, <1>2, <1>3, <1>4, <1>5

LEMMA SameBits ==
  ASSUME NEW a, NEW b
  PROVE  /\ Abstract!Flag(a) = Flag(a) /\ Abstract!Wrap(a) = Wrap(a)
         /\ Abstract!BitSet(a, b) = BitSet(a, b)
         /\ Abstract!BitOr(a, b) = BitOr(a, b)
         /\ Abstract!BitAnd(a, b) = BitAnd(a, b)
         /\ Abstract!BitXor(a, b) = BitXor(a, b)
<1> USE DEF PowerOfTwo, Abstract!PowerOfTwo, BitSet, Abstract!BitSet, Flag, Abstract!Flag
<1>1. Abstract!BitOr(a, b) = BitOr(a, b)
  BY DEF BitOr, Abstract!BitOr, ByteOf, Abstract!ByteOf
<1>2. Abstract!BitAnd(a, b) = BitAnd(a, b)
  BY DEF BitAnd, Abstract!BitAnd, ByteOf, Abstract!ByteOf
<1>3. Abstract!BitXor(a, b) = BitXor(a, b)
  BY DEF BitXor, Abstract!BitXor, ByteOf, Abstract!ByteOf
<1>4. Abstract!BitSet(a, b) = BitSet(a, b) /\ Abstract!Flag(a) = Flag(a)
  OBVIOUS
<1>5. Abstract!Wrap(a) = Wrap(a)
  BY DEF Wrap, Abstract!Wrap
<1> QED
  BY <1>1, <1>2, <1>3, <1>4, <1>5

LEMMA SameInstruction ==
  ASSUME NEW memory, NEW a
  PROVE  Abstract!OpAt(memory, a) = OpAt(memory, a)
  BY DEF OpAt, Wrap, Abstract!OpAt, Abstract!Wrap

LEMMA SameFaults ==
  ASSUME NEW o, NEW m
  PROVE  Abstract!Faults(o, m) <=> Faults(o, m)
  BY SameKind DEF Faults, Abstract!Faults

LEMMA SameSprite ==
  ASSUME NEW m, NEW x, NEW y, NEW n
  PROVE  Abstract!SpritePixels(m, x, y, n) = SpritePixels(m, x, y, n)
  BY DEF SpritePixels, Abstract!SpritePixels, BitSet, Abstract!BitSet, PowerOfTwo, Abstract!PowerOfTwo,
         Wrap, Abstract!Wrap

LEMMA SameDraw ==
  ASSUME NEW o, NEW m
  PROVE  Abstract!Draw(o, m) = Draw(o, m)
<1>1. PICK s : s = SpritePixels(m, m.regs[X(o)], m.regs[Y(o)], IMMEDIATE4(o))
  OBVIOUS
<1>2. s = Abstract!SpritePixels(m, m.regs[Abstract!X(o)], m.regs[Abstract!Y(o)], Abstract!IMMEDIATE4(o))
  BY <1>1, SameFields, SameSprite
<1>3. PICK hit : hit = Flag(m.display \cap s # {}) /\ hit = Abstract!Flag(m.display \cap s # {})
  BY DEF Flag, Abstract!Flag
<1>4. Draw(o, m) = [m EXCEPT !.display = (@ \ s) \cup (s \ @), !.regs[15] = hit]
  BY <1>1, <1>3, Zenon DEF Draw
<1>5. Abstract!Draw(o, m) = [m EXCEPT !.display = (@ \ s) \cup (s \ @), !.regs[15] = hit]
  BY <1>2, <1>3, Zenon DEF Abstract!Draw
<1> QED
  BY <1>4, <1>5

LEMMA SameStores ==
  ASSUME NEW o, NEW m
  PROVE  /\ Abstract!StoreBcd(o, m) = StoreBcd(o, m)
         /\ Abstract!SaveRegisters(o, m) = SaveRegisters(o, m)
         /\ Abstract!RestoreRegisters(o, m) = RestoreRegisters(o, m)
<1> USE DEF X, Abstract!X, Wrap, Abstract!Wrap, StoreRange, Abstract!StoreRange, Address, Abstract!Address
<1>1. Abstract!StoreBcd(o, m) = StoreBcd(o, m)
  BY DEF StoreBcd, Abstract!StoreBcd, Bcd, Abstract!Bcd
<1>2. Abstract!SaveRegisters(o, m) = SaveRegisters(o, m)
  BY DEF SaveRegisters, Abstract!SaveRegisters
<1>3. Abstract!RestoreRegisters(o, m) = RestoreRegisters(o, m)
  BY DEF RestoreRegisters, Abstract!RestoreRegisters
<1> QED
  BY <1>1, <1>2, <1>3

LEMMA SameArithmetic ==
  ASSUME NEW o, NEW m, Kind(o) \in ArithmeticKinds
  PROVE  Abstract!Arithmetic(o, m) = Arithmetic(o, m)
<1>1. PICK x, v, w : x = X(o) /\ v = m.regs[x] /\ w = m.regs[Y(o)]
  OBVIOUS
<1>2. /\ Abstract!X(o) = x /\ Abstract!Y(o) = Y(o) /\ Abstract!Kind(o) = Kind(o)
      /\ \A b : Abstract!SetReg(m, x, b) = SetReg(m, x, b)
      /\ \A b, c : Abstract!SetRegFlag(m, x, b, c) = SetRegFlag(m, x, b, c)
      /\ Abstract!BitOr(v, w) = BitOr(v, w) /\ Abstract!BitAnd(v, w) = BitAnd(v, w)
      /\ Abstract!BitXor(v, w) = BitXor(v, w)
  BY <1>1, SameFields, SameKind, SameSteps, SameBits
<1>3. CASE Kind(o) = "move"
  BY <1>1, <1>2, <1>3 DEF Arithmetic, Abstract!Arithmetic, Flag, Abstract!Flag
<1>4. CASE Kind(o) = "or"
  BY <1>1, <1>2, <1>4 DEF Arithmetic, Abstract!Arithmetic, Flag, Abstract!Flag
<1>5. CASE Kind(o) = "and"
  BY <1>1, <1>2, <1>5 DEF Arithmetic, Abstract!Arithmetic, Flag, Abstract!Flag
<1>6. CASE Kind(o) = "xor"
  BY <1>1, <1>2, <1>6 DEF Arithmetic, Abstract!Arithmetic, Flag, Abstract!Flag
<1>7. CASE Kind(o) = "add_register"
  BY <1>1, <1>2, <1>7 DEF Arithmetic, Abstract!Arithmetic, Flag, Abstract!Flag
<1>8. CASE Kind(o) = "sub_register"
  BY <1>1, <1>2, <1>8 DEF Arithmetic, Abstract!Arithmetic, Flag, Abstract!Flag
<1>9. CASE Kind(o) = "shift_right"
  BY <1>1, <1>2, <1>9 DEF Arithmetic, Abstract!Arithmetic, Flag, Abstract!Flag
<1>10. CASE Kind(o) = "subn_register"
  BY <1>1, <1>2, <1>10 DEF Arithmetic, Abstract!Arithmetic, Flag, Abstract!Flag
<1>11. CASE Kind(o) = "shift_left"
  BY <1>1, <1>2, <1>11 DEF Arithmetic, Abstract!Arithmetic, Flag, Abstract!Flag
<1> QED
  BY <1>3, <1>4, <1>5, <1>6, <1>7, <1>8, <1>9, <1>10, <1>11 DEF ArithmeticKinds

LEMMA SameSkip ==
  ASSUME NEW o, NEW m
  PROVE  Abstract!SkipIf(m, Abstract!SkipTaken(o, m)) = SkipIf(m, SkipTaken(o, m))
<1>1. Abstract!SkipTaken(o, m) <=> SkipTaken(o, m)
  BY SameFields, SameKind DEF SkipTaken, Abstract!SkipTaken
<1>2. Abstract!SkipIf(m, SkipTaken(o, m)) = SkipIf(m, SkipTaken(o, m))
  BY SameSteps
<1> QED
  BY <1>1, <1>2 DEF SkipIf, Abstract!SkipIf

LEMMA SameExecution ==
  ASSUME NEW o \in Word, NEW m, NEW random,
         Kind(o) \notin {"illegal", "skip_key_down", "skip_key_up", "load_on_key"}
  PROVE  Abstract!Execute(o, m, random) = Execute(o, m, random)
<1>1. /\ Kind(o) \in AllKinds /\ Abstract!Kind(o) = Kind(o)
      /\ Abstract!SkipKinds = SkipKinds /\ Abstract!ArithmeticKinds = ArithmeticKinds
  BY KindRange, SameKind, SameFields
<1>2. PICK x, kk, kkk : x = X(o) /\ kk = IMMEDIATE8(o) /\ kkk = IMMEDIATE12(o)
  OBVIOUS
<1>3. Abstract!X(o) = x /\ Abstract!IMMEDIATE8(o) = kk /\ Abstract!IMMEDIATE12(o) = kkk
  BY <1>2, SameFields
<1>4. \A k, a, b : /\ Abstract!At(k, a) = At(k, a) /\ Abstract!STEP(k) = STEP(k)
                  /\ Abstract!SkipIf(k, a) = SkipIf(k, a) /\ Abstract!SetReg(k, a, b) = SetReg(k, a, b)
                  /\ Abstract!BitAnd(a, b) = BitAnd(a, b)
  BY SameSteps, SameBits
<1>5. CASE Kind(o) = "clearscreen"
  BY <1>1, <1>2, <1>3, <1>4, <1>5
     DEF Execute, Abstract!Execute, SkipKinds, ArithmeticKinds
<1>6. CASE Kind(o) = "jump"
  BY <1>1, <1>2, <1>3, <1>4, <1>6
     DEF Execute, Abstract!Execute, SkipKinds, ArithmeticKinds
<1>7. CASE Kind(o) = "retern"
  BY <1>1, <1>2, <1>3, <1>4, <1>7
     DEF Execute, Abstract!Execute, SkipKinds, ArithmeticKinds
<1>8. CASE Kind(o) = "call"
  <2>0. PICK k : k = At(m, kkk)
    OBVIOUS
  <2>1. PICK t : t = (m.pc + 2) % 65536
    OBVIOUS
  <2>2. Abstract!At(m, kkk) = k
    <3>1. Abstract!At(m, kkk) = At(m, kkk)
      BY SameSteps
    <3> QED
      BY <2>0, <3>1
  <2>3. Execute(o, m, random) = [At(m, IMMEDIATE12(o)) EXCEPT !.stack = Append(@, (m.pc + 2) % 65536)]
    BY <1>8, ExecuteCall
  <2>4. Abstract!Kind(o) = "call" =>
          Abstract!Execute(o, m, random) =
            [Abstract!At(m, Abstract!IMMEDIATE12(o)) EXCEPT !.stack = Append(@, (m.pc + 2) % 65536)]
    BY DEF Abstract!Execute, Abstract!ArithmeticKinds, Abstract!SkipKinds
  <2>5. Abstract!Execute(o, m, random) =
          [Abstract!At(m, Abstract!IMMEDIATE12(o)) EXCEPT !.stack = Append(@, (m.pc + 2) % 65536)]
    BY <1>1, <1>8, <2>4
  <2>6. IMMEDIATE12(o) = kkk /\ Abstract!IMMEDIATE12(o) = kkk
    BY <1>2, <1>3
  <2>7. Execute(o, m, random) = [k EXCEPT !.stack = Append(@, t)]
    BY <2>0, <2>1, <2>3, <2>6
  <2>8. Abstract!Execute(o, m, random) = [k EXCEPT !.stack = Append(@, t)]
    BY <2>1, <2>2, <2>5, <2>6
  <2> QED
    BY <2>7, <2>8
<1>9. CASE Kind(o) = "load_immediate"
  BY <1>1, <1>2, <1>3, <1>4, <1>9
     DEF Execute, Abstract!Execute, SkipKinds, ArithmeticKinds
<1>10. CASE Kind(o) = "add_immediate"
  BY <1>1, <1>2, <1>3, <1>4, <1>10
     DEF Execute, Abstract!Execute, SkipKinds, ArithmeticKinds
<1>11. CASE Kind(o) = "load_addr_immediate"
  BY <1>1, <1>2, <1>3, <1>4, <1>11
     DEF Execute, Abstract!Execute, SkipKinds, ArithmeticKinds
<1>12. CASE Kind(o) = "branch"
  BY <1>1, <1>2, <1>3, <1>4, <1>12
     DEF Execute, Abstract!Execute, SkipKinds, ArithmeticKinds
<1>13. CASE Kind(o) = "random_byte"
  BY <1>1, <1>2, <1>3, <1>4, <1>13
     DEF Execute, Abstract!Execute, SkipKinds, ArithmeticKinds
<1>14. CASE Kind(o) = "get_delay_timer"
  BY <1>1, <1>2, <1>3, <1>4, <1>14
     DEF Execute, Abstract!Execute, SkipKinds, ArithmeticKinds
<1>15. CASE Kind(o) = "set_delay_timer"
  BY <1>1, <1>2, <1>3, <1>4, <1>15
     DEF Execute, Abstract!Execute, SkipKinds, ArithmeticKinds
<1>16. CASE Kind(o) = "set_sound_timer"
  BY <1>1, <1>2, <1>3, <1>4, <1>16
     DEF Execute, Abstract!Execute, SkipKinds, ArithmeticKinds
<1>17. CASE Kind(o) = "add_addr"
  BY <1>1, <1>2, <1>3, <1>4, <1>17
     DEF Execute, Abstract!Execute, SkipKinds, ArithmeticKinds
<1>18. CASE Kind(o) = "load_sprite_addr"
  BY <1>1, <1>2, <1>3, <1>4, <1>18
     DEF Execute, Abstract!Execute, SkipKinds, ArithmeticKinds
<1>19. CASE Kind(o) = "draw"
  BY <1>1, <1>2, <1>3, <1>4, <1>19, SameDraw
     DEF Execute, Abstract!Execute, SkipKinds, ArithmeticKinds
<1>20. CASE Kind(o) = "store_bcd"
  BY <1>1, <1>2, <1>3, <1>4, <1>20, SameStores
     DEF Execute, Abstract!Execute, SkipKinds, ArithmeticKinds
<1>21. CASE Kind(o) = "save_registers"
  BY <1>1, <1>2, <1>3, <1>4, <1>21, SameStores
     DEF Execute, Abstract!Execute, SkipKinds, ArithmeticKinds
<1>22. CASE Kind(o) = "restore_registers"
  BY <1>1, <1>2, <1>3, <1>4, <1>22, SameStores
     DEF Execute, Abstract!Execute, SkipKinds, ArithmeticKinds
<1>23. CASE Kind(o) \in SkipKinds
  <2>1. Abstract!SkipIf(m, Abstract!SkipTaken(o, m)) = SkipIf(m, SkipTaken(o, m))
    BY <1>23, <1>4, SameSkip
  <2>2. CASE Kind(o) = "skip_eq_immediate"
    BY <1>1, <2>1, <2>2 DEF Execute, Abstract!Execute, SkipKinds, ArithmeticKinds
  <2>3. CASE Kind(o) = "skip_neq_immediate"
    BY <1>1, <2>1, <2>3 DEF Execute, Abstract!Execute, SkipKinds, ArithmeticKinds
  <2>4. CASE Kind(o) = "skip_eq_register"
    BY <1>1, <2>1, <2>4 DEF Execute, Abstract!Execute, SkipKinds, ArithmeticKinds
  <2>5. CASE Kind(o) = "skip_neq_register"
    BY <1>1, <2>1, <2>5 DEF Execute, Abstract!Execute, SkipKinds, ArithmeticKinds
  <2> QED
    BY <1>23, <2>2, <2>3, <2>4, <2>5 DEF SkipKinds
<1>24. CASE Kind(o) \in ArithmeticKinds
  <2>1. Abstract!STEP(Abstract!Arithmetic(o, m)) = STEP(Arithmetic(o, m))
    BY <1>24, <1>4, SameArithmetic
  <2>2. CASE Kind(o) = "move"
    BY <1>1, <2>1, <2>2 DEF Execute, Abstract!Execute, SkipKinds, ArithmeticKinds
  <2>3. CASE Kind(o) = "or"
    BY <1>1, <2>1, <2>3 DEF Execute, Abstract!Execute, SkipKinds, ArithmeticKinds
  <2>4. CASE Kind(o) = "and"
    BY <1>1, <2>1, <2>4 DEF Execute, Abstract!Execute, SkipKinds, ArithmeticKinds
  <2>5. CASE Kind(o) = "xor"
    BY <1>1, <2>1, <2>5 DEF Execute, Abstract!Execute, SkipKinds, ArithmeticKinds
  <2>6. CASE Kind(o) = "add_register"
    BY <1>1, <2>1, <2>6 DEF Execute, Abstract!Execute, SkipKinds, ArithmeticKinds
  <2>7. CASE Kind(o) = "sub_register"
    BY <1>1, <2>1, <2>7 DEF Execute, Abstract!Execute, SkipKinds, ArithmeticKinds
  <2>8. CASE Kind(o) = "shift_right"
    BY <1>1, <2>1, <2>8 DEF Execute, Abstract!Execute, SkipKinds, ArithmeticKinds
  <2>9. CASE Kind(o) = "subn_register"
    BY <1>1, <2>1, <2>9 DEF Execute, Abstract!Execute, SkipKinds, ArithmeticKinds
  <2>10. CASE Kind(o) = "shift_left"
    BY <1>1, <2>1, <2>10 DEF Execute, Abstract!Execute, SkipKinds, ArithmeticKinds
  <2> QED
    BY <1>24, <2>2, <2>3, <2>4, <2>5, <2>6, <2>7, <2>8, <2>9, <2>10 DEF ArithmeticKinds
<1> QED
  BY <1>1, <1>5, <1>6, <1>7, <1>8, <1>9, <1>10, <1>11, <1>12, <1>13, <1>14, <1>15, <1>16, <1>17,
     <1>18, <1>19, <1>20, <1>21, <1>22, <1>23, <1>24
     DEF AllKinds, TimerKinds, SkipKinds, ArithmeticKinds

----------------------------------------------------------------------------
\* A ROM that leaves its code alone, and what Cpu sees of it.

\* README.md:64: such a ROM holds no invalid words where it executes.
NoInvalidWord == at = "block" => Kind(op) # "illegal"

\* A service that waits inside a block still has its word in memory.
Untouched == at \in {"sprite", "poll"} => op = OpAt(vm.memory, vm.pc)

\* Abstract's substitution, by name.
SeenAs(m, place) ==
  [m EXCEPT !.pc = IF @ = Nowhere THEN 0 ELSE IF place = "frame" THEN @ + 2 ELSE @]
Seen == SeenAs(vm, at)
Status == IF vm.pc = Nowhere THEN "fault" ELSE "running"

LEMMA SeenSame ==
  ASSUME NEW m \in Cores, m.pc # Nowhere, NEW place, place # "frame"
  PROVE  SeenAs(m, place) = m
  BY DEF SeenAs, Cores

\* A place of memory is read alike by both.
LEMMA AbstractOp ==
  ASSUME Seen = vm
  PROVE  Abstract!Op = OpAt(vm.memory, vm.pc)
<1>1. Abstract!Op = Abstract!OpAt(Seen.memory, Seen.pc)
  BY DEF Abstract!Op, Seen, SeenAs
<1> QED
  BY <1>1, SameInstruction

LEMMA RunningIn ==
  ASSUME TypeInv, Seen = vm, Status = "running", Status' = "running",
         op = OpAt(vm.memory, vm.pc), ~Faults(op, vm), NEW kinds, Kind(op) \in kinds
  PROVE  Abstract!Running(kinds)
<1>1. Abstract!Op = op
  BY AbstractOp
<1>2. ~Abstract!Faults(op, vm) /\ Abstract!Kind(op) \in kinds
  BY SameFaults, SameKind
<1>3. (IF vm.pc = Nowhere THEN "fault" ELSE "running") = "running"
      /\ (IF vm.pc = Nowhere THEN "fault" ELSE "running")' = "running"
  BY DEF Status
<1>4. Abstract!Faults(op, Seen) <=> Abstract!Faults(op, vm)
  OBVIOUS
<1> QED
  BY <1>1, <1>2, <1>3, <1>4 DEF Abstract!Running, Seen, SeenAs

\* A block that executes its word is a step of Cpu.
LEMMA AbstractExecution ==
  ASSUME TypeInv, Seen = vm, Status = "running", Status' = "running",
         op = OpAt(vm.memory, vm.pc), op \in Word, ~Faults(op, vm),
         Kind(op) \notin {"illegal", "skip_key_down", "skip_key_up", "load_on_key"},
         NEW random \in RandomBytes, Seen' = Execute(op, vm, random)
  PROVE  Abstract!Next
<1>1. Abstract!Op = op
  BY AbstractOp
<1>2. Abstract!Running({Abstract!Kind(Abstract!Op)} \ Abstract!KeyKinds)
  <2>1. Kind(op) \in {Kind(op)} \ {"skip_key_down", "skip_key_up", "load_on_key"}
    OBVIOUS
  <2>2. Abstract!Kind(Abstract!Op) = Kind(op)
    BY <1>1, SameKind
  <2>3. Abstract!KeyKinds = {"skip_key_down", "skip_key_up", "load_on_key"}
    BY DEF Abstract!KeyKinds
  <2> QED
    BY <2>1, <2>2, <2>3, RunningIn
<1>3. Seen' = Abstract!Execute(Abstract!Op, Seen, random)
  BY <1>1, SameExecution
<1>4. Abstract!Execution
  BY <1>2, <1>3 DEF Abstract!Execution, Seen, SeenAs
<1> QED
  BY <1>4 DEF Abstract!Next

\* A block that goes on is seen as it is.
LEMMA BlockSeen ==
  ASSUME TypeInv, at \in {"block", "sprite", "poll"}
  PROVE  Seen = vm /\ Status = "running"
  BY InvFacts, BlockFacts, SeenSame DEF Seen, Status

LEMMA OnwardSeen ==
  ASSUME Onward(vm'), at' # "frame"
  PROVE  Seen' = vm' /\ Status' = "running"
<1>1. vm' \in Cores /\ vm'.pc # Nowhere
  BY DEF Onward, Left
<1>2. SeenAs(vm', at') = vm'
  BY <1>1, SeenSame
<1> QED
  BY <1>1, <1>2 DEF Seen, SeenAs, Status, Nowhere

\* A full or an empty stack is Cpu's fault.
LEMMA AbstractFault ==
  ASSUME TypeInv, Seen = vm, Status = "running", op = OpAt(vm.memory, vm.pc), Faults(op, vm),
         vm' = [vm EXCEPT !.pc = Nowhere], at' = "dispatch"
  PROVE  Abstract!Next
<1>1. vm \in Cores
  BY InvFacts
<1>2. vm'.pc = Nowhere
  BY <1>1 DEF Cores
<1>3. Seen' = [vm' EXCEPT !.pc = 0] /\ Status' = "fault"
  BY <1>2 DEF Seen, SeenAs, Status, Nowhere
<1>4. Seen' = [vm EXCEPT !.pc = 0] /\ Seen'.pc = 0
  BY <1>1, <1>3 DEF Cores
<1>5. Seen' = [Seen EXCEPT !.pc = Seen'.pc]
  BY <1>4
<1>6. Abstract!Faults(Abstract!Op, Seen)
  BY AbstractOp, SameFaults
<1>7. Abstract!Fault
  BY <1>3, <1>5, <1>6 DEF Abstract!Fault, Seen, SeenAs, Status
<1> QED
  BY <1>7 DEF Abstract!Next

LEMMA AbstractCountdown ==
  ASSUME Seen = vm, Seen' = Counted(vm), Status' = Status
  PROVE  Abstract!Next
<1>1. \A b : Abstract!CountDown(b, 1) = CountDown(b, 1)
  BY DEF Abstract!CountDown, CountDown
<1>2. Seen' = [Seen EXCEPT !.delay = Abstract!CountDown(@, 1), !.sound = Abstract!CountDown(@, 1)]
  <2>1. PICK d, s : d = CountDown(vm.delay, 1) /\ s = CountDown(vm.sound, 1)
    OBVIOUS
  <2>2. Seen' = [vm EXCEPT !.delay = d, !.sound = s]
    BY <2>1 DEF Counted
  <2>3. Abstract!CountDown(vm.delay, 1) = d /\ Abstract!CountDown(vm.sound, 1) = s
    BY <1>1, <2>1
  <2>4. [vm EXCEPT !.delay = Abstract!CountDown(@, 1), !.sound = Abstract!CountDown(@, 1)] =
        [vm EXCEPT !.delay = d, !.sound = s]
    BY <2>3
  <2> QED
    BY <2>2, <2>4
<1>3. Abstract!Countdown
  BY <1>2 DEF Abstract!Countdown, Seen, SeenAs, Status
<1> QED
  BY <1>3 DEF Abstract!Next

LEMMA AbstractStutter ==
  ASSUME Seen' = Seen, Status' = Status
  PROVE  UNCHANGED Abstract!vars
  BY DEF Abstract!vars, Seen, SeenAs, Status

\* A key skip and a key wait, with whatever key the history held.
LEMMA AbstractKey ==
  ASSUME TypeInv, Key, StopsIfCodeChanged, NoInvalidWord
  PROVE  Abstract!Next
<1>1. /\ Onward(vm') /\ at' = "dispatch" /\ op \div 4096 = 14 /\ at = "block"
  <2>1. at = "block"
    BY DEF Key, InBlock
  <2> QED
    BY <2>1, KeyBlock
<1>2. PICK hit \in BOOLEAN : vm' = SkipIf(vm, hit)
  BY KeyBlock
<1>3. Kind(op) \in {"skip_key_down", "skip_key_up"}
  <2>1. Kind(op) # "illegal" /\ op \notin {224, 238}
    BY <1>1 DEF NoInvalidWord
  <2> QED
    BY <1>1, <2>1 DEF Kind
<1>4. op = OpAt(vm.memory, vm.pc) /\ ~Faults(op, vm)
  BY <1>1, <1>3 DEF StopsIfCodeChanged, Faults
<1>5. Seen = vm /\ Status = "running" /\ Seen' = vm' /\ Status' = "running"
  BY <1>1, BlockSeen, OnwardSeen
<1>6. Abstract!Running({"skip_key_down", "skip_key_up"})
  BY <1>3, <1>4, <1>5, RunningIn
<1>7. Seen' = Abstract!SkipIf(Seen, hit)
  BY <1>2, <1>5, SameSteps
<1>8. Abstract!KeySkip
  BY <1>6, <1>7 DEF Abstract!KeySkip, Seen, SeenAs
<1> QED
  BY <1>8 DEF Abstract!Next

LEMMA AbstractAnswer ==
  ASSUME TypeInv, Answer, Untouched
  PROVE  Abstract!Next
<1>1. /\ Onward(vm') /\ at' = "dispatch" /\ at = "poll"
  BY AnswerBlock DEF Answer
<1>2. PICK key \in 0 .. 15 : vm' = STEP(SetReg(vm, X(op), key))
  BY AnswerBlock
<1>3. Kind(op) = "load_on_key"
  <2>1. op \div 4096 = 15 /\ IMMEDIATE8(op) = 10 /\ op \in Word
    BY <1>1, BlockFacts DEF TypeInv, InsideBlock
  <2>2. op \notin {224, 238}
    BY <2>1
  <2> QED
    BY <2>1, <2>2 DEF Kind, MiscKind, IMMEDIATE8
<1>4. op = OpAt(vm.memory, vm.pc) /\ ~Faults(op, vm)
  BY <1>1, <1>3 DEF Untouched, Faults
<1>5. Seen = vm /\ Status = "running" /\ Seen' = vm' /\ Status' = "running"
  BY <1>1, BlockSeen, OnwardSeen
<1>6. Abstract!Running({"load_on_key"})
  BY <1>3, <1>4, <1>5, RunningIn
<1>7. Seen' = Abstract!STEP(Abstract!SetReg(Seen, Abstract!X(Abstract!Op), key))
  BY <1>2, <1>4, <1>5, AbstractOp, SameSteps, SameFields
<1>8. Abstract!KeyWait
  BY <1>6, <1>7 DEF Abstract!KeyWait, Seen, SeenAs
<1> QED
  BY <1>8 DEF Abstract!Next

\* The sprite: drawn by one step, the block's end is seen at once.
LEMMA AbstractSprite ==
  ASSUME TypeInv, DrawSprite, Untouched
  PROVE  Abstract!Next
<1>1. at = "sprite" /\ at' = "frame" /\ vm' = Draw(op, vm) /\ vm \in Cores /\ StackFits(vm.stack)
  BY InvFacts DEF DrawSprite
<1>2. op \in Word /\ vm.pc + 5 < Nowhere /\ vm.pc # Nowhere /\ op \div 4096 = 13
  BY <1>1, BlockFacts DEF TypeInv, InsideBlock
<1>3. op = OpAt(vm.memory, vm.pc)
  BY <1>1 DEF Untouched
<1>4. Kind(op) = "draw"
  <2>1. op \notin {224, 238}
    BY <1>2
  <2> QED
    BY <1>2, <2>1 DEF Kind
<1>5. PICK random \in RandomBytes : TRUE
  BY RandomAssumption
<1>6. PICK m \in Cores : m = vm' /\ m.pc = vm.pc /\ m.stack = vm.stack
  BY <1>1, SpriteBlock DEF InPlace
<1>7. STEP(m) = [m EXCEPT !.pc = @ + 2]
  BY <1>1, <1>2, <1>6, StepLeft
<1>8. Seen' = STEP(m) /\ Status' = "running"
  <2>1. Seen' = SeenAs(m, "frame")
    BY <1>1, <1>6 DEF Seen, SeenAs, Nowhere
  <2>2. SeenAs(m, "frame") = [m EXCEPT !.pc = @ + 2]
    BY <1>2, <1>6 DEF SeenAs
  <2>3. Status' = "running"
    BY <1>2, <1>6 DEF Status, Nowhere
  <2> QED
    BY <1>7, <2>1, <2>2, <2>3
<1>9. Execute(op, vm, random) = STEP(m)
  BY <1>1, <1>4, <1>6 DEF Execute, SkipKinds, ArithmeticKinds
<1>10. Seen = vm /\ Status = "running" /\ ~Faults(op, vm)
  BY <1>1, <1>4, BlockSeen DEF Faults
<1> QED
  BY <1>2, <1>3, <1>4, <1>8, <1>9, <1>10, AbstractExecution

\* No inline block is a call or a return.
LEMMA InlineKind ==
  ASSUME Inline
  PROVE  Kind(op) \notin {"retern", "call"}
<1>1. op \div 4096 \in {0, 6, 7, 8, 10, 12, 15} /\ (op \div 4096 = 0 => op = 224)
  BY DEF Inline, InBlock
<1>2. op # 238
  BY <1>1
<1>3. \A n : ArithmeticKind(n) \notin {"retern", "call"} /\ MiscKind(n) \notin {"retern", "call"}
  BY DEF ArithmeticKind, MiscKind
<1> QED
  BY <1>1, <1>2, <1>3 DEF Kind

----------------------------------------------------------------------------
\* The compiled program implements Cpu.

LEMMA UntouchedInit == Init => Untouched
  BY DEF Init, Untouched

LEMMA UntouchedStep ==
  ASSUME TypeInv, Untouched, StopsIfCodeChanged, [Next]_vars
  PROVE  Untouched'
<1>1. ASSUME at = "block", rom' = rom, vm'.pc = vm.pc, vm'.memory = vm.memory PROVE Untouched'
  <2>1. op' = op /\ op = OpAt(vm.memory, vm.pc)
    BY <1>1, SameBlock DEF StopsIfCodeChanged
  <2>2. OpAt(vm.memory, vm.pc)' = OpAt(vm.memory, vm.pc)
    BY <1>1 DEF OpAt, Wrap
  <2> QED
    BY <2>1, <2>2 DEF Untouched
<1>2. ASSUME UNCHANGED <<rom, vm, at>> PROVE Untouched'
  <2>1. op' = op /\ OpAt(vm.memory, vm.pc)' = OpAt(vm.memory, vm.pc)
    BY <1>2, SameBlock DEF OpAt, Wrap
  <2> QED
    BY <1>2, <2>1 DEF Untouched
<1>3. CASE DrawStart
  <2>1. at = "block" /\ rom' = rom /\ ServiceTimers
    BY <1>3 DEF DrawStart, InBlock
  <2> QED
    BY <1>1, <2>1, TimersServed DEF InPlace
<1>4. CASE WaitForKey
  <2>1. at = "block" /\ rom' = rom /\ vm' = vm
    BY <1>4 DEF WaitForKey, InBlock
  <2> QED
    BY <1>1, <2>1
<1>5. CASE Clock \/ Type \/ Poll \/ UNCHANGED vars
  <2>1. UNCHANGED <<rom, vm, at>>
    BY <1>5 DEF Clock, Type, Poll, vars
  <2> QED
    BY <1>2, <2>1
<1>6. CASE RetireBlock \/ Leave \/ Inline \/ Jump \/ Skip \/ Call \/ Return \/ DrawSprite
             \/ DrawFrame \/ Key \/ Answer
  <2>1. at' \notin {"sprite", "poll"}
    BY <1>6 DEF RetireBlock, Leave, Inline, Jump, Skip, Call, Return, DrawSprite, DrawFrame,
                Key, Answer, Dispatch
  <2> QED
    BY <2>1 DEF Untouched
<1> QED
  BY <1>3, <1>4, <1>5, <1>6 DEF Next, Host, Halted

LEMMA AbstractInit == Init => Abstract!Init
<1> SUFFICES ASSUME Init PROVE Abstract!Init
  OBVIOUS
<1>1. rom \in ROMs /\ at = "dispatch"
  BY DEF Init
<1>2. vm = [pc |-> ENTRYPOINT, regs |-> [i \in 0 .. 15 |-> 0], addr |-> 0, stack |-> << >>,
            memory |-> LoadedMemory(rom), display |-> {}, delay |-> 0, sound |-> 0]
  BY DEF Init
<1>3. vm \in Cores /\ vm.memory = LoadedMemory(rom) /\ vm.pc = ENTRYPOINT
  BY <1>2, InitTypeInv, InvFacts
<1>4. ENTRYPOINT # Nowhere
  BY SizesAssumption, MemorySize, NowhereIs DEF Address
<1>5. Seen = vm /\ Status = "running"
  BY <1>1, <1>3, <1>4, SeenSame DEF Seen, Status
<1>6. /\ Seen = [pc |-> ENTRYPOINT, regs |-> [i \in 0 .. 15 |-> 0], addr |-> 0, stack |-> << >>,
                 memory |-> Seen.memory, display |-> {}, delay |-> 0, sound |-> 0]
  BY <1>2, <1>3, <1>5
<1>7. Booted(rom).memory = LoadedMemory(rom)
  BY DEF Booted
<1>8. /\ Seen.memory \in [Address -> Byte]
      /\ \A a \in 1 .. Len(Font) : Seen.memory[a - 1] = Font[a]
  BY <1>1, <1>3, <1>5, <1>7, BootedStart
<1>9. Abstract!Address = Address /\ Abstract!Byte = Byte
  BY DEF Abstract!Address, Address, Abstract!Byte, Byte
<1> QED
  BY <1>5, <1>6, <1>8, <1>9 DEF Abstract!Init, Seen, SeenAs, Status

LEMMA AbstractStep ==
  ASSUME TypeInv, Untouched, StopsIfCodeChanged, NoInvalidWord, [Next]_vars
  PROVE  [Abstract!Next]_(Abstract!vars)
<1>1. vm \in Cores /\ StackFits(vm.stack)
  BY InvFacts
<1>2. ASSUME Seen' = Seen, Status' = Status PROVE [Abstract!Next]_(Abstract!vars)
  BY <1>2, AbstractStutter
<1>3. ASSUME vm' = vm, at' = at \/ (at # "frame" /\ at' # "frame")
      PROVE  [Abstract!Next]_(Abstract!vars)
  <2>1. Seen' = Seen /\ Status' = Status
    BY <1>3 DEF Seen, SeenAs, Status, Nowhere
  <2> QED
    BY <1>2, <2>1
<1>4. ASSUME at = "block", Onward(vm'), at' = "dispatch",
             Kind(op) \notin {"illegal", "skip_key_down", "skip_key_up", "load_on_key"},
             ~Faults(op, vm), NEW random \in RandomBytes, vm' = Execute(op, vm, random)
      PROVE  Abstract!Next
  <2>1. Seen = vm /\ Status = "running" /\ Seen' = vm' /\ Status' = "running"
    BY <1>4, BlockSeen, OnwardSeen
  <2>2. op \in Word /\ op = OpAt(vm.memory, vm.pc)
    BY <1>4, BlockFacts DEF StopsIfCodeChanged
  <2> QED
    BY <1>4, <2>1, <2>2, AbstractExecution
<1>5. PICK some \in RandomBytes : TRUE
  BY RandomAssumption
<1>6. CASE Clock \/ Type \/ Poll \/ Leave \/ WaitForKey \/ UNCHANGED vars
  <2>1. vm' = vm /\ (at' = at \/ (at # "frame" /\ at' # "frame"))
    BY <1>6 DEF Clock, Type, Poll, Leave, WaitForKey, InBlock, vars
  <2> QED
    BY <1>3, <2>1
<1>7. ASSUME at # "frame", at' # "frame", vm.pc # Nowhere, InPlace(vm, vm'),
             vm' = vm \/ vm' = Counted(vm)
      PROVE  [Abstract!Next]_(Abstract!vars)
  <2>1. CASE vm' = vm
    BY <1>3, <1>7, <2>1
  <2>2. CASE vm' = Counted(vm)
    <3>1. Seen = vm /\ Seen' = vm'
      <4>1. SeenAs(vm, at) = vm
        BY <1>1, <1>7, SeenSame
      <4>2. vm' \in Cores /\ vm'.pc # Nowhere
        BY <1>7 DEF InPlace
      <4>3. SeenAs(vm', at') = vm'
        BY <1>7, <4>2, SeenSame
      <4> QED
        BY <4>1, <4>3 DEF Seen, SeenAs, Nowhere
    <3>2. Status' = Status
      BY <1>7 DEF Status, Nowhere, InPlace
    <3> QED
      BY <2>2, <3>1, <3>2, AbstractCountdown
  <2> QED
    BY <1>7, <2>1, <2>2
<1>8. CASE RetireBlock
  <2>1. at = "dispatch" /\ vm.pc \in Lowered
    BY <1>8 DEF RetireBlock
  <2>2. InPlace(vm, vm') /\ (vm' = vm \/ vm' = Counted(vm)) /\ at' # "frame"
    BY <1>8, RetireDone
  <2>3. vm.pc # Nowhere
    <3>1. vm.pc + 5 < Nowhere /\ vm.pc \in Nat
      BY <1>1, <2>1, InvFacts, LoweredWord, CoreFields
    <3> QED
      BY <3>1, NowhereIs
  <2> QED
    BY <1>7, <2>1, <2>2, <2>3
<1>9. CASE DrawStart
  <2>1. at = "block" /\ at' = "sprite" /\ ServiceTimers
    BY <1>9 DEF DrawStart, InBlock
  <2> QED
    BY <1>7, <2>1, BlockFacts, TimersServed
<1>10. CASE Inline
  <2>1. at = "block" /\ Kind(op) # "illegal" /\ op \notin {238}
    BY <1>10 DEF Inline, InBlock, NoInvalidWord
  <2>2. /\ Onward(vm') /\ at' = "dispatch"
        /\ Kind(op) \notin {"skip_key_down", "skip_key_up", "load_on_key"}
    BY <1>10, <2>1, InlineBlock
  <2>3. PICK random \in RandomBytes : vm' = Execute(op, vm, random)
    BY <1>10, <2>1, InlineBlock
  <2>4. Kind(op) \notin {"retern", "call"}
    BY <1>10, <2>1, InlineKind
  <2>5. ~Faults(op, vm)
    BY <2>1, <2>4 DEF Faults
  <2> QED
    BY <1>4, <2>1, <2>2, <2>3, <2>5
<1>11. CASE Jump
  <2>1. at = "block" /\ Onward(vm') /\ at' = "dispatch" /\ Kind(op) \in {"jump", "branch"}
        /\ vm' = Execute(op, vm, some)
    BY <1>11, JumpBlock DEF Jump, InBlock
  <2>2. ~Faults(op, vm)
    BY <2>1 DEF Faults
  <2> QED
    BY <1>4, <1>5, <2>1, <2>2
<1>12. CASE Skip
  <2>1. at = "block" /\ Onward(vm') /\ at' = "dispatch" /\ Kind(op) \in SkipKinds
        /\ vm' = Execute(op, vm, some)
    BY <1>12, SkipBlock DEF Skip, InBlock
  <2>2. ~Faults(op, vm)
    BY <2>1 DEF Faults, SkipKinds
  <2> QED
    BY <1>4, <1>5, <2>1, <2>2 DEF SkipKinds
<1>13. CASE Call
  <2>1. at = "block" /\ at' = "dispatch" /\ Kind(op) = "call"
    BY <1>13, CallBlock DEF Call, InBlock
  <2>2. Seen = vm /\ Status = "running" /\ op = OpAt(vm.memory, vm.pc)
    BY <2>1, BlockSeen DEF StopsIfCodeChanged
  <2>3. Len(vm.stack) \in Nat /\ STACK_SIZE \in Nat
    BY <1>1, SizesAssumption DEF StackFits
  <2>4. CASE Len(vm.stack) < STACK_SIZE
    <3>1. Onward(vm') /\ vm' = Execute(op, vm, some)
      BY <1>13, <2>4, CallBlock
    <3>2. ~Faults(op, vm)
      BY <2>1, <2>3, <2>4 DEF Faults
    <3> QED
      BY <1>4, <1>5, <2>1, <3>1, <3>2
  <2>5. CASE ~(Len(vm.stack) < STACK_SIZE)
    <3>1. vm' = [vm EXCEPT !.pc = Nowhere]
      BY <1>13, <2>5, CallBlock
    <3>2. Faults(op, vm)
      BY <2>1, <2>3, <2>5 DEF Faults
    <3> QED
      BY <2>1, <2>2, <3>1, <3>2, AbstractFault
  <2> QED
    BY <2>4, <2>5
<1>14. CASE Return
  <2>1. at = "block" /\ at' = "dispatch" /\ Kind(op) = "retern"
    BY <1>14, ReturnBlock DEF Return, InBlock
  <2>2. Seen = vm /\ Status = "running" /\ op = OpAt(vm.memory, vm.pc)
    BY <2>1, BlockSeen DEF StopsIfCodeChanged
  <2>3. CASE vm.stack # << >>
    <3>1. Onward(vm') /\ vm' = Execute(op, vm, some)
      BY <1>14, <2>3, ReturnBlock
    <3>2. ~Faults(op, vm)
      BY <2>1, <2>3 DEF Faults
    <3> QED
      BY <1>4, <1>5, <2>1, <3>1, <3>2
  <2>4. CASE vm.stack = << >>
    <3>1. vm' = [vm EXCEPT !.pc = Nowhere] /\ Faults(op, vm)
      BY <1>14, <2>1, <2>4, ReturnBlock DEF Faults
    <3> QED
      BY <2>1, <2>2, <3>1, AbstractFault
  <2> QED
    BY <2>3, <2>4
<1>15. CASE DrawFrame
  <2>1. at = "frame" /\ Onward(vm') /\ at' = "dispatch" /\ vm' = [vm EXCEPT !.pc = @ + 2]
    BY <1>15, FrameBlock DEF DrawFrame
  <2>2. vm.pc # Nowhere
    BY <2>1, BlockFacts
  <2>3. Seen = [vm EXCEPT !.pc = @ + 2] /\ Status = "running"
    BY <2>1, <2>2 DEF Seen, SeenAs, Status
  <2>4. Seen' = vm' /\ Status' = "running"
    BY <2>1, OnwardSeen
  <2> QED
    BY <1>2, <2>1, <2>3, <2>4
<1>16. CASE DrawSprite
  BY <1>16, AbstractSprite
<1>17. CASE Key
  BY <1>17, AbstractKey
<1>18. CASE Answer
  BY <1>18, AbstractAnswer
<1> QED
  BY <1>6, <1>8, <1>9, <1>10, <1>11, <1>12, <1>13, <1>14, <1>15, <1>16, <1>17, <1>18
     DEF Next, Host, Halted

(***************************************************************************)
(* README.md:64: a ROM that neither overwrites a word it executes nor      *)
(* executes an invalid one does what an interpreter does, block for        *)
(* instruction, in spite of the clock, the timers and the keys.            *)
(***************************************************************************)
THEOREM CompiledRom == Spec /\ []StopsIfCodeChanged /\ []NoInvalidWord => ImplementsCpu
<1>1. TypeInv /\ Untouched /\ StopsIfCodeChanged /\ [Next]_vars => Untouched'
  BY UntouchedStep
<1>2. TypeInv /\ Untouched /\ StopsIfCodeChanged /\ NoInvalidWord /\ [Next]_vars
        => [Abstract!Next]_(Abstract!vars)
  BY AbstractStep
<1> QED
  BY InitTypeInv, TypeInvInductive, UntouchedInit, AbstractInit, <1>1, <1>2, PTL
     DEF Spec, ImplementsCpu, Abstract!Spec
=============================================================================
