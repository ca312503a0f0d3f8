---------------------- MODULE InteractiveInterp_proofs ----------------------
(***************************************************************************)
(* For every program, ring, clock and set of keys: the types of the        *)
(* interactive interpreter, a delay timer that does not run ahead of the   *)
(* clock, and poll loops that are left only when the timer has expired.    *)
(***************************************************************************)
EXTENDS InteractiveInterp, TLAPS

\* The one tick the timer may be ahead has been noticed: while there is an
\* unnoticed tick, it is not ahead at all.
Ahead ==
  /\ delay_timer + ticks + 1 >= granted
  /\ tick # last_tick => delay_timer + ticks >= granted

IInv == TypeOK /\ Ahead

----------------------------------------------------------------------------
\* The types of the ring, of the tick.

LEMMA RingType ==
  ASSUME NEW K, NEW r \in [Slots -> SUBSET K]
  PROVE  /\ \A key : ClearKey(r, key) \in [Slots -> SUBSET K]
         /\ ClearHexKeys(r) \in [Slots -> SUBSET K]
         /\ \A slot \in Slots, keys \in SUBSET K :
              [r EXCEPT ![slot] = keys] \in [Slots -> SUBSET K]
  BY DEF ClearKey, ClearHexKeys

LEMMA SlotType == ASSUME NEW slot \in Slots PROVE NextSlot(slot) \in Slots
  BY RingAssumption DEF NextSlot, Slots

LEMMA TickType == ASSUME NEW now \in Ticks PROVE NextTick(now) \in Ticks
  BY RingAssumption DEF NextTick, Ticks

----------------------------------------------------------------------------
\* A program's addresses wrap.
LEMMA AddressType ==
  ASSUME program \in Programs, NEW a \in Addresses, NEW n \in Nat
  PROVE  Plus(a, n) \in Addresses
<1>1. program \in Seq([op : Ops, arg : Nat]) /\ program # << >>
  BY ProgramsAssumption
<1>2. PICK size \in Nat : size = Len(program) /\ Addresses = 1 .. size
  BY <1>1 DEF Addresses
<1>3. size # 0
  BY <1>1, <1>2
<1>4. PICK i \in Nat : i = a - 1 + n
  BY <1>2
<1>5. i % size \in 0 .. size - 1
  BY <1>3
<1> QED
  BY <1>2, <1>4, <1>5 DEF Plus

\* What a program's instruction may be.
LEMMA InstructionType ==
  ASSUME TypeOK
  PROVE  /\ op \in {"jump", "branch"} => arg \in Addresses
         /\ op = "set_delay" => arg \in 0 .. MaxTimer
  BY ProgramsAssumption DEF TypeOK, op, arg, Addresses

\* What interrupt () does, to the types and to the lead of the timer.
LEMMA InterruptFacts ==
  ASSUME IInv, Interrupt
  PROVE  /\ delay_timer' \in 0 .. MaxTimer /\ last_tick' \in Ticks /\ tick' \in Ticks
         /\ keys_down' \in [Slots -> SUBSET TypedKeys] /\ interrupt_count' \in Slots
         /\ typed' \subseteq TypedKeys
         /\ granted' \in 0 .. MaxTimer /\ ticks' \in 0 .. MaxTimer
         /\ Ahead'
<1>1. TypeOK /\ Ahead
  BY DEF IInv
<1>2. delay_timer' \in 0 .. MaxTimer /\ Ahead'
  BY <1>1, ProgramsAssumption DEF TypeOK, Ahead, Interrupt, CountedDown
<1>3. keys_down' \in [Slots -> SUBSET TypedKeys]
  BY <1>1, RingType DEF TypeOK, Interrupt
<1>4. interrupt_count' \in Slots
  BY <1>1, SlotType DEF TypeOK, Interrupt
<1> QED
  BY <1>1, <1>2, <1>3, <1>4 DEF TypeOK, Interrupt

----------------------------------------------------------------------------
LEMMA InitInv == Init => IInv
<1> SUFFICES ASSUME Init PROVE IInv
  OBVIOUS
<1>1. program \in Programs /\ pc \in Addresses
  BY ProgramsAssumption DEF Init, Addresses
<1>2. /\ elide_idle \in BOOLEAN /\ at \in Positions
      /\ typed \subseteq TypedKeys
  BY DEF Init, Positions
<1>3. /\ reg \in 0 .. MaxTimer /\ delay_timer \in 0 .. MaxTimer
      /\ granted \in 0 .. MaxTimer /\ ticks \in 0 .. MaxTimer
  BY ProgramsAssumption DEF Init
<1>4. tick \in Ticks /\ last_tick \in Ticks
  BY DEF Init
<1>5. interrupt_count \in Slots
  BY RingAssumption DEF Init, Slots
<1>6. keys_down \in [Slots -> SUBSET TypedKeys]
  BY DEF Init, EmptyRing
<1>7. Ahead
  BY DEF Init, Ahead
<1> QED
  BY <1>1, <1>2, <1>3, <1>4, <1>5, <1>6, <1>7 DEF IInv, TypeOK

LEMMA ClockStep == IInv /\ Clock => IInv'
<1> SUFFICES ASSUME IInv, Clock PROVE IInv'
  OBVIOUS
<1>1. TypeOK'
  BY TickType, ProgramsAssumption
  DEF IInv, Clock, TypeOK, setup, machine, ring, Addresses
<1>2. Ahead'
  BY ProgramsAssumption DEF IInv, Clock, TypeOK, Ahead, machine
<1> QED
  BY <1>1, <1>2 DEF IInv

LEMMA TypeStep == IInv /\ Type => IInv'
  BY DEF Type, IInv, TypeOK, Ahead, setup, machine, ring, history, Addresses

\* A step that calls interrupt () and leaves the rest in its types.
LEMMA InterruptStep ==
  ASSUME IInv, Interrupt, UNCHANGED setup, UNCHANGED reg,
         pc' \in Addresses, at' \in Positions
  PROVE  IInv'
  BY InterruptFacts DEF IInv, TypeOK, setup, Addresses

\* A step that leaves timer and ring alone.
LEMMA QuietStep ==
  ASSUME IInv, Quiet, UNCHANGED setup,
         pc' \in Addresses, reg' \in 0 .. MaxTimer, at' \in Positions
  PROVE  IInv'
  BY DEF IInv, TypeOK, Ahead, Quiet, setup, ring, history, Addresses

LEMMA MainStep == IInv /\ Main => IInv'
  BY DEF Main, IInv, TypeOK, Ahead, Positions, setup, machine, ring, history, Addresses

LEMMA IdleStep == IInv /\ (IdleHead \/ IdleWait) => IInv'
<1> SUFFICES ASSUME IInv, IdleHead \/ IdleWait PROVE IInv'
  OBVIOUS
<1>1. program \in Programs /\ pc \in Addresses /\ reg \in 0 .. MaxTimer
  BY DEF IInv, TypeOK
<1>2. CASE IdleHead
  <2>1. pc' \in Addresses /\ reg' \in 0 .. MaxTimer /\ at' \in Positions
    BY <1>1, <1>2, AddressType, ProgramsAssumption DEF IdleHead, Positions
  <2>2. Quiet /\ UNCHANGED setup
    BY <1>2 DEF IdleHead, Quiet
  <2> QED
    BY <2>1, <2>2, QuietStep
<1>3. CASE IdleWait
  BY <1>1, <1>3, InterruptStep DEF IdleWait, Positions
<1> QED
  BY <1>2, <1>3

\* The instructions that only compute and go on.
LEMMA ComputeStep ==
  IInv /\ (Other \/ Skip \/ SkipZero \/ Branch \/ GetDelayTimer \/ LoadOnKey) => IInv'
<1> SUFFICES ASSUME IInv, Other \/ Skip \/ SkipZero \/ Branch \/ GetDelayTimer \/ LoadOnKey
             PROVE  IInv'
  OBVIOUS
<1>1. /\ program \in Programs /\ pc \in Addresses
      /\ reg \in 0 .. MaxTimer /\ delay_timer \in 0 .. MaxTimer
  BY DEF IInv, TypeOK
<1>2. Plus(pc, 1) \in Addresses /\ Plus(pc, 2) \in Addresses
  BY <1>1, AddressType
<1>3. op \in {"jump", "branch"} => arg \in Addresses
  BY InstructionType DEF IInv
<1>4. pc' \in Addresses /\ reg' \in 0 .. MaxTimer /\ at' \in Positions
  BY <1>1, <1>2, <1>3
  DEF Other, Skip, SkipZero, Branch, GetDelayTimer, LoadOnKey, Execute, Positions
<1>5. Quiet /\ UNCHANGED setup
  BY DEF Other, Skip, SkipZero, Branch, GetDelayTimer, LoadOnKey, Execute
<1> QED
  BY <1>4, <1>5, QuietStep

LEMMA JumpStep == IInv /\ Jump => IInv'
<1> SUFFICES ASSUME IInv, Jump PROVE IInv'
  OBVIOUS
<1>1. pc' \in Addresses
  BY InstructionType DEF IInv, Jump, Execute
<1> QED
  BY <1>1, InterruptStep DEF Jump, Execute, Positions

LEMMA SetDelayTimerStep == IInv /\ SetDelayTimer => IInv'
<1> SUFFICES ASSUME IInv, SetDelayTimer PROVE IInv'
  OBVIOUS
<1>1. arg \in 0 .. MaxTimer
  BY InstructionType DEF IInv, SetDelayTimer, Execute
<1>2. pc' \in Addresses
  BY AddressType DEF IInv, TypeOK, SetDelayTimer
<1>3. delay_timer' \in 0 .. MaxTimer /\ granted' = delay_timer' /\ ticks' = 0 /\ at' = "head"
  BY <1>1 DEF SetDelayTimer
<1>4. Ahead'
  <2>1. \A d \in 0 .. MaxTimer : d + 0 + 1 >= d /\ d + 0 >= d
    BY ProgramsAssumption
  <2> QED
    BY <1>3, <2>1 DEF Ahead
<1>5. UNCHANGED <<setup, reg, tick, typed, last_tick, ring>>
  BY DEF SetDelayTimer, Execute
<1>6. granted' \in 0 .. MaxTimer /\ ticks' \in 0 .. MaxTimer /\ at' \in Positions
  BY <1>3, ProgramsAssumption DEF Positions
<1>7. TypeOK'
  BY <1>2, <1>3, <1>5, <1>6 DEF IInv, TypeOK, setup, ring, Addresses
<1> QED
  BY <1>4, <1>7 DEF IInv

LEMMA DrawStep == IInv /\ (Draw \/ FrameSync) => IInv'
<1> SUFFICES ASSUME IInv, Draw \/ FrameSync PROVE IInv'
  OBVIOUS
<1>1. CASE Draw
  <2>1. pc' \in Addresses /\ at' \in Positions /\ Interrupt /\ UNCHANGED setup /\ UNCHANGED reg
    BY <1>1 DEF IInv, TypeOK, Draw, Execute, Positions
  <2> QED
    BY <2>1, InterruptStep
<1>2. CASE FrameSync
  <2>1. pc' \in Addresses
    BY <1>2, AddressType DEF IInv, TypeOK, FrameSync
  <2>2. Ahead'
    BY <1>2 DEF IInv, TypeOK, Ahead, FrameSync, history
  <2>3. TypeOK'
    BY <1>2, <2>1 DEF IInv, TypeOK, FrameSync, Positions, setup, ring, history, Addresses
  <2> QED
    BY <2>2, <2>3 DEF IInv
<1> QED
  BY <1>1, <1>2

LEMMA KeyStep == IInv /\ (SkipKey \/ Poll) => IInv'
<1> SUFFICES ASSUME IInv, SkipKey \/ Poll PROVE IInv'
  OBVIOUS
<1>1. /\ program \in Programs /\ pc \in Addresses
      /\ typed \subseteq TypedKeys /\ keys_down \in [Slots -> SUBSET TypedKeys]
  BY DEF IInv, TypeOK
<1>2. Plus(pc, 1) \in Addresses /\ Plus(pc, 2) \in Addresses
  BY <1>1, AddressType
<1>3. keys_down' \in [Slots -> SUBSET TypedKeys]
  <2>1. /\ \A key : ClearKey(keys_down, key) \in [Slots -> SUBSET TypedKeys]
        /\ ClearHexKeys(keys_down) \in [Slots -> SUBSET TypedKeys]
    BY <1>1, RingType
  <2> QED
    BY <1>1, <2>1 DEF SkipKey, Poll
<1>4. pc' \in Addresses /\ at' \in Positions /\ typed' \subseteq TypedKeys
  BY <1>1, <1>2 DEF SkipKey, Poll, Positions
<1>5. UNCHANGED <<setup, reg, delay_timer, tick, last_tick, interrupt_count, granted, ticks>>
  BY DEF SkipKey, Poll, Execute
<1>6. TypeOK'
  BY <1>3, <1>4, <1>5 DEF IInv, TypeOK, setup, Addresses
<1>7. Ahead'
  BY <1>5 DEF IInv, Ahead
<1> QED
  BY <1>6, <1>7 DEF IInv

THEOREM StepInv == IInv /\ [Next]_vars => IInv'
<1> SUFFICES ASSUME IInv, [Next]_vars PROVE IInv'
  OBVIOUS
<1>1. CASE Host
  BY <1>1, MainStep, IdleStep, ComputeStep, JumpStep, SetDelayTimerStep, DrawStep, KeyStep
  DEF Host
<1>2. CASE Clock \/ Type
  BY <1>2, ClockStep, TypeStep
<1>3. CASE Halted \/ UNCHANGED vars
  BY <1>3 DEF Halted, vars, setup, machine, ring, history, IInv, TypeOK, Ahead, Addresses
<1> QED
  BY <1>1, <1>2, <1>3 DEF Next

THEOREM Inductive == Spec => []IInv
  BY InitInv, StepInv, PTL DEF Spec

(***************************************************************************)
(* The interactive interpreter keeps its types: the ring's index, the      *)
(* timers, and a program counter in the program.                           *)
(***************************************************************************)
THEOREM TypeCorrect == Spec => []TypeOK
<1>1. IInv => TypeOK
  BY DEF IInv
<1> QED
  BY <1>1, Inductive, PTL

(***************************************************************************)
(* A delay of d ticks is never cut short by more than the tick under way   *)
(* when it was set, however often interrupt () is called, and whatever the *)
(* frame sync does to last_tick.                                           *)
(***************************************************************************)
THEOREM DelayHolds == Spec => []TimerNotFast
<1>1. IInv => TimerNotFast
  BY DEF IInv, Ahead, TimerNotFast
<1> QED
  BY <1>1, Inductive, PTL
----------------------------------------------------------------------------
\* Programs that set the timer only to wait for it.

\* Every Fx15 of the program stands before a poll loop.
WaitsOut ==
  \A a \in Addresses : program[a].op = "set_delay" => IdleDelayLoop(Plus(a, 1))

Expired == delay_timer = 0 /\ reg = 0

\* The quit key has been read, and main is about to look at it, or has.
Quitting == QUIT \in AllKeysDown(keys_down) /\ at \in {"head", "exited"}

\* In the poll loop at h, entered through a set_delay_timer; a zero in the
\* register is the timer's.
InLoopAt(h) ==
  /\ IdleDelayLoop(h)
  /\ \E c \in Addresses : h = Plus(c, 1) /\ program[c].op = "set_delay"
  /\ \/ pc = h
     \/ pc = Plus(h, 1) /\ (reg = 0 => delay_timer = 0)
     \/ pc = Plus(h, 2)

\* Where the host can be inside an instruction.
Placed ==
  /\ at \in {"idle", "idle_wait"} => IdleDelayLoop(pc)
  /\ at = "frame" => op = "draw"
  /\ at = "poll" => op = "load_on_key"

WaitInv ==
  /\ WaitsOut
  /\ Placed
  /\ Quitting \/ Expired \/ \E h \in Addresses : InLoopAt(h)

LEMMA PlaceAfter ==
  ASSUME program \in Programs, NEW a \in Addresses, NEW size \in Nat,
         Addresses = 1 .. size, size = Len(program), NEW n \in 0 .. size
  PROVE  Plus(a, n) = IF a + n <= size THEN a + n ELSE a + n - size
<1>1. PICK x \in Nat : x = a - 1 + n
  OBVIOUS
<1>2. size \in Nat \ {0} /\ Plus(a, n) = (x % size) + 1
  BY <1>1 DEF Plus
<1>3. CASE x < size
  <2>1. x % size = x
    BY <1>2, <1>3
  <2> QED
    BY <1>1, <1>2, <1>3, <2>1
<1>4. CASE x >= size
  <2>1. x % size = x - size
    <3>1. x < 2 * size
      BY <1>1
    <3> QED
      BY <1>2, <1>4, <3>1
  <2> QED
    BY <1>1, <1>2, <1>4, <2>1
<1> QED
  BY <1>2, <1>3, <1>4

\* A poll loop has three places.
LEMMA LoopFits ==
  ASSUME program \in Programs, NEW a \in Addresses, IdleDelayLoop(a),
         NEW size \in Nat, Addresses = 1 .. size, size = Len(program)
  PROVE  size >= 3
<1>1. CASE size = 1
  <2>1. Plus(a, 1) = a
    BY <1>1, PlaceAfter
  <2> QED
    BY <2>1 DEF IdleDelayLoop
<1>2. CASE size = 2
  <2>1. Plus(a, 2) = a
    BY <1>2, PlaceAfter
  <2> QED
    BY <2>1 DEF IdleDelayLoop
<1> QED
  BY <1>1, <1>2

\* Places of a loop, one after the other, and the loop's last instruction.
LEMMA LoopPlaces ==
  ASSUME program \in Programs, NEW a \in Addresses, IdleDelayLoop(a)
  PROVE  /\ Plus(Plus(a, 1), 1) = Plus(a, 2)
         /\ program[Plus(a, 2)].op = "jump" /\ program[Plus(a, 2)].arg = a
         /\ \A h \in Addresses :
              /\ Plus(a, 3) = Plus(h, 1) => Plus(a, 2) = h
              /\ Plus(a, 3) = Plus(h, 2) => Plus(a, 2) = Plus(h, 1)
<1>1. program \in Seq([op : Ops, arg : Nat])
  BY ProgramsAssumption
<1>2. PICK size \in Nat : size = Len(program) /\ Addresses = 1 .. size
  BY <1>1 DEF Addresses
<1>3. size >= 3
  BY <1>2, LoopFits
<1>4. \A h \in Addresses : \A n \in 0 .. 3 :
        Plus(h, n) = IF h + n <= size THEN h + n ELSE h + n - size
  BY <1>2, <1>3, PlaceAfter
<1>5. /\ Plus(a, 1) = IF a + 1 <= size THEN a + 1 ELSE a + 1 - size
      /\ Plus(a, 2) = IF a + 2 <= size THEN a + 2 ELSE a + 2 - size
      /\ Plus(a, 3) = IF a + 3 <= size THEN a + 3 ELSE a + 3 - size
      /\ a \in 1 .. size
  BY <1>2, <1>4
<1>6. Plus(Plus(a, 1), 1) = Plus(a, 2)
  <2>1. PICK b \in Addresses : b = Plus(a, 1)
    BY <1>2, <1>3, <1>5
  <2>2. Plus(b, 1) = IF b + 1 <= size THEN b + 1 ELSE b + 1 - size
    BY <1>4
  <2> QED
    BY <1>2, <1>3, <1>5, <2>1, <2>2
<1>7. ASSUME NEW h \in Addresses
      PROVE  /\ Plus(a, 3) = Plus(h, 1) => Plus(a, 2) = h
             /\ Plus(a, 3) = Plus(h, 2) => Plus(a, 2) = Plus(h, 1)
  <2>1. /\ Plus(h, 1) = IF h + 1 <= size THEN h + 1 ELSE h + 1 - size
        /\ Plus(h, 2) = IF h + 2 <= size THEN h + 2 ELSE h + 2 - size
        /\ h \in 1 .. size
    BY <1>2, <1>4, <1>7
  <2> QED
    BY <1>3, <1>5, <2>1
<1>8. program[Plus(a, 2)] = [op |-> "jump", arg |-> a]
  BY DEF IdleDelayLoop
<1> QED
  BY <1>6, <1>7, <1>8

\* Behind a loop is no place of a loop that a set_delay_timer leads into.
LEMMA BehindTheLoop ==
  ASSUME program \in Programs, NEW a \in Addresses, IdleDelayLoop(a), pc = Plus(a, 3),
         NEW h \in Addresses
  PROVE  ~InLoopAt(h)
<1> SUFFICES ASSUME InLoopAt(h) PROVE FALSE
  OBVIOUS
<1>1. PICK c \in Addresses : h = Plus(c, 1) /\ program[c].op = "set_delay"
  BY DEF InLoopAt
<1>2. program[Plus(a, 2)].op = "jump"
  BY LoopPlaces
<1>3. program[h].op = "get_delay" /\ program[Plus(h, 1)].op = "skip_zero"
  BY DEF InLoopAt, IdleDelayLoop
<1>4. program[Plus(h, 2)].op = "jump" /\ program[Plus(h, 2)].arg = h
  BY LoopPlaces DEF InLoopAt
<1>5. pc # h
  BY <1>1, <1>2, LoopPlaces
<1>6. pc # Plus(h, 1)
  BY <1>2, <1>3, LoopPlaces
<1>7. pc # Plus(h, 2)
  BY <1>2, <1>3, LoopPlaces
<1> QED
  BY <1>5, <1>6, <1>7 DEF InLoopAt

LEMMA SameProgram ==
  ASSUME UNCHANGED setup
  PROVE  /\ Addresses' = Addresses /\ program' = program
         /\ \A a, n : Plus(a, n)' = Plus(a, n)
         /\ \A a : IdleDelayLoop(a)' <=> IdleDelayLoop(a)
<1>1. program' = program
  BY DEF setup
<1>2. \A a, n : Plus(a, n)' = Plus(a, n)
  BY <1>1 DEF Plus
<1> QED
  BY <1>1, <1>2 DEF Addresses, IdleDelayLoop

LEMMA NextKeepsSetup == [Next]_vars => UNCHANGED setup
  BY DEF Next, Host, Halted, vars, Clock, Type, Main, IdleHead, IdleWait, Other, Skip, SkipZero,
         Jump, Branch, GetDelayTimer, SetDelayTimer, Draw, FrameSync, SkipKey, LoadOnKey, Poll,
         Execute

LEMMA PlacedStep == Placed /\ [Next]_vars => Placed'
<1> SUFFICES ASSUME Placed, [Next]_vars PROVE Placed'
  OBVIOUS
<1>1. UNCHANGED setup
  BY NextKeepsSetup
<1>2. /\ \A a : IdleDelayLoop(a)' <=> IdleDelayLoop(a)
      /\ UNCHANGED pc => UNCHANGED op
  BY <1>1, SameProgram DEF op
<1>3. CASE at' \in {"head", "execute", "exited"}
  BY <1>3 DEF Placed
<1>4. CASE UNCHANGED <<pc, at>>
  BY <1>2, <1>4 DEF Placed
<1>5. CASE Main \/ IdleHead \/ IdleWait
  <2>1. CASE Main
    BY <1>2, <2>1 DEF Main, machine, Placed
  <2>2. CASE IdleHead
    BY <1>2, <1>3, <2>2 DEF IdleHead, Placed
  <2>3. CASE IdleWait
    BY <1>2, <2>3 DEF IdleWait, Placed
  <2> QED
    BY <1>5, <2>1, <2>2, <2>3
<1>6. CASE Draw
  BY <1>2, <1>6 DEF Draw, Execute, Placed
<1>7. CASE LoadOnKey
  BY <1>2, <1>7 DEF LoadOnKey, Execute, Placed
<1>8. CASE Other \/ Skip \/ SkipZero \/ Jump \/ Branch \/ GetDelayTimer \/ SetDelayTimer
           \/ FrameSync \/ SkipKey \/ Poll
  BY <1>3, <1>8 DEF Other, Skip, SkipZero, Jump, Branch, GetDelayTimer, SetDelayTimer,
                    FrameSync, SkipKey, Poll
<1>9. CASE Clock \/ Type \/ Halted \/ UNCHANGED vars
  BY <1>4, <1>9 DEF Clock, Type, Halted, vars, machine
<1> QED
  BY <1>5, <1>6, <1>7, <1>8, <1>9 DEF Next, Host

LEMMA QuittingStep == Quitting /\ [Next]_vars => Quitting'
<1> SUFFICES ASSUME Quitting, [Next]_vars PROVE Quitting'
  OBVIOUS
<1>1. CASE UNCHANGED <<keys_down, at>>
  BY <1>1 DEF Quitting, AllKeysDown
<1>2. CASE Host
  <2>1. Main
    BY <1>2 DEF Quitting, Host, Main, IdleHead, IdleWait, Other, Skip, SkipZero, Jump, Branch,
               GetDelayTimer, SetDelayTimer, Draw, FrameSync, SkipKey, LoadOnKey, Poll, Execute
  <2>2. at' = "exited" /\ keys_down' = keys_down
    BY <2>1 DEF Main, Quitting, ring
  <2> QED
    BY <2>2 DEF Quitting, AllKeysDown
<1>3. CASE Clock \/ Type \/ Halted \/ UNCHANGED vars
  BY <1>1, <1>3 DEF Clock, Type, Halted, vars, ring
<1> QED
  BY <1>2, <1>3 DEF Next

LEMMA InterruptExpired ==
  ASSUME Interrupt
  PROVE  delay_timer = 0 => delay_timer' = 0
  BY DEF Interrupt, CountedDown

\* The timer stays expired until it is set, and is set before a loop.
LEMMA ExpiredStep ==
  ASSUME IInv, WaitsOut, Expired, [Next]_vars
  PROVE  (Expired \/ \E h \in Addresses : InLoopAt(h))'
<1>1. CASE UNCHANGED <<delay_timer, reg>>
  BY <1>1 DEF Expired
<1>2. CASE Interrupt /\ UNCHANGED reg
  BY <1>2, InterruptExpired DEF Expired
<1>3. CASE Clock \/ Type \/ Halted \/ UNCHANGED vars
  BY <1>1, <1>3 DEF Clock, Type, Halted, vars, machine
<1>4. CASE Main \/ Other \/ Skip \/ SkipZero \/ Branch \/ FrameSync \/ SkipKey
           \/ LoadOnKey \/ Poll
  BY <1>1, <1>4 DEF Main, machine, Other, Skip, SkipZero, Branch, FrameSync, SkipKey,
                    LoadOnKey, Poll, Quiet
<1>5. CASE IdleWait \/ Jump \/ Draw
  BY <1>2, <1>5 DEF IdleWait, Jump, Draw
<1>6. CASE IdleHead \/ GetDelayTimer
  BY <1>6 DEF IdleHead, GetDelayTimer, Quiet, Expired
<1>7. CASE SetDelayTimer
  <2>1. pc \in Addresses /\ program \in Programs /\ program[pc].op = "set_delay"
    BY <1>7 DEF IInv, TypeOK, SetDelayTimer, Execute, op
  <2>2. PICK h \in Addresses : h = Plus(pc, 1)
    BY <2>1, AddressType
  <2>3. IdleDelayLoop(h)
    BY <2>1, <2>2 DEF WaitsOut
  <2>4. pc' = h /\ UNCHANGED setup
    BY <1>7, <2>2 DEF SetDelayTimer, Execute
  <2>5. InLoopAt(h)'
    BY <2>1, <2>2, <2>3, <2>4, SameProgram DEF InLoopAt
  <2> QED
    BY <2>4, <2>5, SameProgram
<1> QED
  BY <1>3, <1>4, <1>5, <1>6, <1>7 DEF Next, Host

\* In a loop only what the loop is made of happens.
LEMMA LoopStep ==
  ASSUME IInv, Placed, NEW h \in Addresses, InLoopAt(h), [Next]_vars
  PROVE  (Quitting \/ Expired \/ InLoopAt(h))'
<1>0. UNCHANGED setup /\ program \in Programs /\ pc \in Addresses
  BY NextKeepsSetup DEF IInv, TypeOK
<1>1. /\ IdleDelayLoop(h)' <=> IdleDelayLoop(h)
      /\ \A n : Plus(h, n)' = Plus(h, n)
      /\ Addresses' = Addresses /\ program' = program
  BY <1>0, SameProgram
<1>2. IdleDelayLoop(h) /\ \E c \in Addresses : h = Plus(c, 1) /\ program[c].op = "set_delay"
  BY DEF InLoopAt
<1>3. (\E c \in Addresses : h = Plus(c, 1) /\ program[c].op = "set_delay")'
  <2>1. PICK c \in Addresses : h = Plus(c, 1) /\ program[c].op = "set_delay"
    BY <1>2
  <2>2. Plus(c, 1)' = Plus(c, 1)
    BY <1>0, SameProgram
  <2> QED
    BY <1>1, <2>1, <2>2
<1>4. /\ program[h].op = "get_delay" /\ program[Plus(h, 1)].op = "skip_zero"
      /\ program[Plus(h, 2)].op = "jump" /\ program[Plus(h, 2)].arg = h
      /\ Plus(Plus(h, 1), 1) = Plus(h, 2)
  BY <1>0, <1>2, LoopPlaces DEF IdleDelayLoop
<1>5. /\ pc = h \/ pc = Plus(h, 1) \/ pc = Plus(h, 2)
      /\ pc = Plus(h, 1) /\ reg = 0 => delay_timer = 0
  BY <1>4 DEF InLoopAt
<1>6. op \in {"get_delay", "skip_zero", "jump"}
  BY <1>4, <1>5 DEF op
<1>7. /\ pc' = h \/ pc' = Plus(h, 2) => InLoopAt(h)'
      /\ pc' = Plus(h, 1) /\ (reg' = 0 => delay_timer' = 0) => InLoopAt(h)'
  BY <1>1, <1>2, <1>3 DEF InLoopAt
<1>8. CASE UNCHANGED machine
  BY <1>5, <1>7, <1>8 DEF machine
<1>9. CASE IdleHead
  <2>1. CASE at' = "idle_wait"
    BY <1>5, <1>7, <1>9, <2>1 DEF IdleHead
  <2>2. CASE at' # "idle_wait"
    <3>1. at' = "head" /\ reg' = 0 /\ UNCHANGED <<delay_timer, keys_down>>
      BY <1>9, <2>2 DEF IdleHead, ring
    <3>2. delay_timer = 0 \/ QUIT \in AllKeysDown(keys_down)
      BY <1>9, <2>2 DEF IdleHead
    <3> QED
      BY <3>1, <3>2 DEF Expired, Quitting, AllKeysDown
  <2> QED
    BY <2>1, <2>2
<1>10. CASE IdleWait
  <2>1. UNCHANGED <<pc, reg>> /\ (delay_timer = 0 => delay_timer' = 0)
    BY <1>10, InterruptExpired DEF IdleWait
  <2> QED
    BY <1>5, <1>7, <2>1
<1>11. CASE GetDelayTimer
  <2>1. pc = h
    BY <1>4, <1>5, <1>11 DEF GetDelayTimer, Execute, op
  <2>2. pc' = Plus(h, 1) /\ reg' = delay_timer'
    BY <1>11, <2>1 DEF GetDelayTimer, Quiet
  <2> QED
    BY <1>7, <2>2
<1>12. CASE SkipZero
  <2>1. pc = Plus(h, 1)
    BY <1>4, <1>5, <1>12 DEF SkipZero, Execute, op
  <2>2. CASE reg = 0
    BY <1>5, <1>12, <2>1, <2>2 DEF SkipZero, Quiet, Expired
  <2>3. CASE reg # 0
    <3>1. pc' = Plus(h, 2)
      BY <1>4, <1>12, <2>1, <2>3 DEF SkipZero
    <3> QED
      BY <1>7, <3>1
  <2> QED
    BY <2>2, <2>3
<1>13. CASE Jump
  <2>1. pc = Plus(h, 2)
    BY <1>4, <1>5, <1>13 DEF Jump, Execute, op
  <2>2. pc' = h
    BY <1>4, <1>13, <2>1 DEF Jump, arg
  <2> QED
    BY <1>7, <2>2
<1>14. ~(Other \/ Skip \/ Branch \/ SetDelayTimer \/ Draw \/ SkipKey \/ LoadOnKey)
  BY <1>6 DEF Other, Skip, Branch, SetDelayTimer, Draw, SkipKey, LoadOnKey, Execute
<1>15. ~(FrameSync \/ Poll)
  BY <1>6 DEF FrameSync, Poll, Placed
<1>16. CASE Main \/ Clock \/ Type \/ Halted \/ UNCHANGED vars
  BY <1>8, <1>16 DEF Main, Clock, Type, Halted, vars
<1> QED
  BY <1>9, <1>10, <1>11, <1>12, <1>13, <1>14, <1>15, <1>16 DEF Next, Host

LEMMA WaitInit == Init /\ WaitsOut => WaitInv
  BY DEF Init, WaitInv, Placed, Expired

LEMMA WaitStep == IInv /\ WaitInv /\ [Next]_vars => WaitInv'
<1> SUFFICES ASSUME IInv, WaitInv, [Next]_vars PROVE WaitInv'
  OBVIOUS
<1>1. WaitsOut /\ Placed
  BY DEF WaitInv
<1>2. UNCHANGED setup
  BY NextKeepsSetup
<1>3. WaitsOut'
  <2>1. Addresses' = Addresses /\ program' = program
    BY <1>2, SameProgram
  <2>2. ASSUME NEW a \in Addresses, program[a].op = "set_delay"
        PROVE  IdleDelayLoop(Plus(a, 1))'
    <3>1. PICK h : h = Plus(a, 1)
      OBVIOUS
    <3>2. IdleDelayLoop(h)' /\ Plus(a, 1)' = h
      BY <1>1, <1>2, <2>2, <3>1, SameProgram DEF WaitsOut
    <3>3. (h = Plus(a, 1) /\ IdleDelayLoop(h) => IdleDelayLoop(Plus(a, 1)))'
      OBVIOUS
    <3> QED
      BY <3>2, <3>3
  <2> QED
    BY <2>1, <2>2 DEF WaitsOut
<1>4. Placed'
  BY <1>1, PlacedStep
<1>5. CASE Quitting
  BY <1>3, <1>4, <1>5, QuittingStep DEF WaitInv
<1>6. CASE Expired
  <2>1. (Expired \/ \E h \in Addresses : InLoopAt(h))'
    BY <1>1, <1>6, ExpiredStep
  <2> QED
    BY <1>3, <1>4, <2>1 DEF WaitInv
<1>7. ASSUME NEW h \in Addresses, InLoopAt(h)
      PROVE  WaitInv'
  <2>1. (Quitting \/ Expired \/ InLoopAt(h))'
    BY <1>1, <1>7, LoopStep
  <2>2. h \in Addresses'
    BY <1>2, <1>7, SameProgram
  <2> QED
    BY <1>3, <1>4, <2>1, <2>2 DEF WaitInv
<1> QED
  BY <1>5, <1>6, <1>7 DEF WaitInv

(***************************************************************************)
(* README.md:57, the elided wait ends where the spun loop ends: in a       *)
(* program that sets the delay timer only to wait for it, however many     *)
(* such loops it has and whatever jumps into and out of them, timer and    *)
(* register are zero behind a loop, unless the quit key has been read.     *)
(***************************************************************************)
THEOREM LoopsWaitOut == Spec /\ WaitsOut => []PastDelayLoop
<1>1. IInv /\ WaitInv => PastDelayLoop
  <2> SUFFICES ASSUME IInv, WaitInv PROVE PastDelayLoop
    OBVIOUS
  <2>1. ASSUME NEW a \in Addresses, IdleDelayLoop(a), pc = Plus(a, 3)
        PROVE  (delay_timer = 0 /\ reg = 0) \/ QUIT \in AllKeysDown(keys_down)
    <3>1. \A h \in Addresses : ~InLoopAt(h)
      BY <2>1, BehindTheLoop DEF IInv, TypeOK
    <3> QED
      BY <3>1 DEF WaitInv, Expired, Quitting
  <2> QED
    BY <2>1 DEF PastDelayLoop
<1>2. Init /\ WaitsOut => IInv /\ WaitInv
  BY InitInv, WaitInit
<1>3. IInv /\ WaitInv /\ [Next]_vars => (IInv /\ WaitInv)'
  BY StepInv, WaitStep
<1> QED
  BY <1>1, <1>2, <1>3, PTL DEF Spec
=============================================================================
