------------------------- MODULE Interrupts_proofs -------------------------
(***************************************************************************)
(* For every ring, clock, interval and set of keys: no alarm is lost, and  *)
(* none waits for more than SAFEPOINT_INTERVAL instructions and a folded   *)
(* jump.  An alarm waits at most as long as its trace has turned since a   *)
(* safepoint, and an edge that leads back to an earlier turn is closed     *)
(* behind one.                                                             *)
(***************************************************************************)
EXTENDS Interrupts, TLAPS

\* Between two looks at the flag the host is at one of these only after a
\* check_interrupt that found the flag down, or answered it.
Calm == {"quit_test", "edge", "idle", "idle_wait", "frame", "main"}

Waiting ==
  /\ answered => waited = 0
  /\ at \in Calm => waited = 0
  /\ at = "trace" => waited <= turn
  /\ at = "folded" => waited <= SAFEPOINT_INTERVAL
  /\ waited <= SAFEPOINT_INTERVAL + 1

IInv == TypeOK /\ AlarmKept /\ Waiting

----------------------------------------------------------------------------
\* The types of the ring, of the tick and of the timers.

LEMMA RingType ==
  ASSUME NEW K, NEW ring \in [Slots -> SUBSET K]
  PROVE  /\ \A key : ClearKey(ring, key) \in [Slots -> SUBSET K]
         /\ ClearHexKeys(ring) \in [Slots -> SUBSET K]
         /\ \A slot \in Slots, keys \in SUBSET K :
              [ring EXCEPT ![slot] = keys] \in [Slots -> SUBSET K]
  BY DEF ClearKey, ClearHexKeys

LEMMA SlotType == ASSUME NEW slot \in Slots PROVE NextSlot(slot) \in Slots
  BY RingAssumption DEF NextSlot, Slots

LEMMA TickType == ASSUME NEW now \in Ticks PROVE NextTick(now) \in Ticks
  BY RingAssumption DEF NextTick, Ticks

LEMMA TimerType ==
  ASSUME NEW limit \in Nat, NEW timer \in 0 .. limit, NEW last, NEW now
  PROVE  CountedDown(timer, last, now) \in 0 .. limit
  BY DEF CountedDown

----------------------------------------------------------------------------
\* What interrupt () leaves behind.
LEMMA InterruptFacts ==
  ASSUME TypeOK, Interrupt
  PROVE  /\ delay_timer' \in 0 .. MaxTimer /\ last_tick' \in Ticks /\ tick' \in Ticks
         /\ keys_down' \in [Slots -> SUBSET TypedKeys] /\ interrupt_count' \in Slots
         /\ typed' \subseteq TypedKeys
         /\ answered' = TRUE /\ waited' = 0
<1>1. /\ tick \in Ticks /\ typed \subseteq TypedKeys
      /\ delay_timer \in 0 .. MaxTimer /\ interrupt_count \in Slots
      /\ keys_down \in [Slots -> SUBSET TypedKeys]
  BY DEF TypeOK
<1>2. delay_timer' \in 0 .. MaxTimer
  BY <1>1, TimerType, GuestAssumption DEF Interrupt
<1>3. keys_down' \in [Slots -> SUBSET TypedKeys]
  BY <1>1, RingType DEF Interrupt
<1>4. interrupt_count' \in Slots
  BY <1>1, SlotType DEF Interrupt
<1> QED
  BY <1>1, <1>2, <1>3, <1>4 DEF Interrupt

----------------------------------------------------------------------------
THEOREM InitInv == Init => IInv
<1> SUFFICES ASSUME Init PROVE IInv
  OBVIOUS
<1>1. 0 \in Slots
  BY RingAssumption DEF Slots
<1>2. keys_down \in [Slots -> SUBSET TypedKeys]
  BY DEF Init, EmptyRing
<1>3. TypeOK
  <2>1. tick \in Ticks /\ last_tick \in Ticks /\ interrupt_count \in Slots
    BY <1>1 DEF Init
  <2>2. interrupt_pending \in BOOLEAN /\ program_over \in BOOLEAN /\ answered \in BOOLEAN
    BY DEF Init
  <2>3. at \in Positions /\ after \in Returns
    BY DEF Init, Positions, Returns
  <2>4. delay_timer \in 0 .. MaxTimer /\ turn \in 0 .. SAFEPOINT_INTERVAL /\ waited \in Nat
    BY GuestAssumption DEF Init
  <2>5. typed \subseteq TypedKeys
    BY DEF Init
  <2> QED
    BY <1>2, <2>1, <2>2, <2>3, <2>4, <2>5 DEF TypeOK
<1>4. AlarmKept /\ Waiting
  BY GuestAssumption DEF Init, AlarmKept, Waiting, Calm
<1> QED
  BY <1>3, <1>4 DEF IInv

LEMMA ClockStep == IInv /\ Clock => IInv'
  BY TickType DEF Clock, IInv, TypeOK, AlarmKept, Waiting, service, history

LEMMA AlarmStep == IInv /\ Alarm => IInv'
  BY DEF Alarm, IInv, TypeOK, AlarmKept, Waiting, input

LEMMA TypeStep == IInv /\ Type => IInv'
  BY DEF Type, IInv, TypeOK, AlarmKept, Waiting, service, history

LEMMA CheckInterruptStep == IInv /\ CheckInterrupt => IInv'
<1> SUFFICES ASSUME IInv, CheckInterrupt PROVE IInv'
  OBVIOUS
<1>1. TypeOK'
  BY DEF IInv, CheckInterrupt, TypeOK, Positions, Returns, input, history
<1>2. AlarmKept'
  BY DEF IInv, CheckInterrupt, AlarmKept, history
<1>3. Waiting'
  <2>1. /\ UNCHANGED <<turn, history>> /\ turn \in 0 .. SAFEPOINT_INTERVAL /\ waited \in Nat
        /\ after \in Returns /\ at = "check"
    BY DEF IInv, CheckInterrupt, TypeOK
  <2>2. at' = "cleared" \/ (at' = after /\ answered)
    BY DEF IInv, CheckInterrupt, AlarmKept
  <2> QED
    BY <2>1, <2>2, GuestAssumption DEF IInv, Waiting, Calm, Returns, history
<1> QED
  BY <1>1, <1>2, <1>3 DEF IInv

LEMMA ServiceStep == IInv /\ Service => IInv'
<1> SUFFICES ASSUME IInv, Service PROVE IInv'
  OBVIOUS
<1>1. /\ delay_timer' \in 0 .. MaxTimer /\ last_tick' \in Ticks /\ tick' \in Ticks
      /\ keys_down' \in [Slots -> SUBSET TypedKeys] /\ interrupt_count' \in Slots
      /\ typed' \subseteq TypedKeys
      /\ answered' = TRUE /\ waited' = 0
  BY InterruptFacts DEF IInv, Service
<1> QED
  BY <1>1, GuestAssumption DEF IInv, Service, TypeOK, AlarmKept, Waiting, Positions

LEMMA IdleWaitStep == IInv /\ IdleWait => IInv'
<1> SUFFICES ASSUME IInv, IdleWait PROVE IInv'
  OBVIOUS
<1>1. /\ delay_timer' \in 0 .. MaxTimer /\ last_tick' \in Ticks /\ tick' \in Ticks
      /\ keys_down' \in [Slots -> SUBSET TypedKeys] /\ interrupt_count' \in Slots
      /\ typed' \subseteq TypedKeys
      /\ answered' = TRUE /\ waited' = 0
  BY InterruptFacts DEF IInv, IdleWait
<1> QED
  BY <1>1, GuestAssumption DEF IInv, IdleWait, TypeOK, AlarmKept, Waiting, Positions

LEMMA QuitTestStep == IInv /\ QuitTest => IInv'
  BY DEF QuitTest, IInv, TypeOK, AlarmKept, Waiting, Calm, Positions, Returns,
         input, service, history

LEMMA IdleHeadStep == IInv /\ IdleHead => IInv'
<1> SUFFICES ASSUME IInv, IdleHead PROVE IInv'
  OBVIOUS
<1>1. /\ at = "idle" /\ at' \in {"edge", "idle_wait"} /\ program_over' \in BOOLEAN
      /\ UNCHANGED <<input, service, after, turn, history>>
  BY DEF IdleHead, IInv, TypeOK
<1> QED
  BY <1>1 DEF IInv, TypeOK, AlarmKept, Waiting, Calm, Positions, input, service, history

LEMMA FrameSyncStep == IInv /\ FrameSync => IInv'
  BY DEF FrameSync, IInv, TypeOK, AlarmKept, Waiting, Calm, Positions, input, history

LEMMA PollStep == IInv /\ Poll => IInv'
<1> SUFFICES ASSUME IInv, Poll PROVE IInv'
  OBVIOUS
<1>1. keys_down' \in [Slots -> SUBSET TypedKeys]
  BY RingType DEF IInv, TypeOK, Poll
<1>2. at' \in {"errer", "return"} /\ typed' = {} /\ at = "poll"
  BY DEF Poll
<1> QED
  BY <1>1, <1>2 DEF Poll, IInv, TypeOK, AlarmKept, Waiting, Calm, Positions, history

LEMMA EdgeStep == IInv /\ Edge => IInv'
  BY DEF Edge, IInv, TypeOK, AlarmKept, Waiting, Calm, Positions, input, service, history

LEMMA ReturnStep == IInv /\ Return => IInv'
  BY GuestAssumption
  DEF Return, IInv, TypeOK, AlarmKept, Waiting, Calm, Positions, Returns, input, service, history

LEMMA MainStep == IInv /\ Main => IInv'
  BY GuestAssumption DEF Main, IInv, TypeOK, AlarmKept, Waiting, Calm, Positions, input, service, history

----------------------------------------------------------------------------
\* Native code.

\* One instruction, wherever it runs.
LEMMA RunsFacts ==
  ASSUME IInv, Runs
  PROVE  /\ tick' \in Ticks /\ last_tick' \in Ticks /\ typed' \subseteq TypedKeys
         /\ interrupt_pending' \in BOOLEAN /\ interrupt_count' \in Slots
         /\ program_over' \in BOOLEAN /\ answered' \in BOOLEAN /\ waited' \in Nat
         /\ answered' => waited' = 0
         /\ waited' <= waited + 1
         /\ at # "cleared" /\ ~answered' => interrupt_pending'
  BY DEF IInv, Runs, TypeOK, AlarmKept, Waiting, input

\* An instruction that leaves the timer and the ring in their types, and goes
\* on in the trace, to a check, to a folded jump, or to a place from which
\* main is reached.
LEMMA InstructionStep ==
  ASSUME IInv, Instruction,
         delay_timer' \in 0 .. MaxTimer, keys_down' \in [Slots -> SUBSET TypedKeys],
         at' \in {"trace", "folded", "check", "return", "poll"}, after' \in Returns,
         turn' \in {turn, turn + 1}, at' = "trace" => turn' = turn + 1
  PROVE  IInv'
<1>1. at = "trace" /\ turn \in 0 .. SAFEPOINT_INTERVAL - 1 /\ Runs
  BY GuestAssumption DEF Instruction, IInv, TypeOK
<1>2. waited' <= turn + 1 /\ waited' \in Nat
  <2>1. waited <= turn /\ waited \in Nat
    BY <1>1 DEF IInv, Waiting, TypeOK
  <2> QED
    BY <1>1, <2>1, RunsFacts
<1>3. turn' \in 0 .. SAFEPOINT_INTERVAL
  BY <1>1, GuestAssumption
<1>4. TypeOK'
  BY <1>1, <1>3, RunsFacts DEF TypeOK, Positions
<1>5. AlarmKept'
  BY <1>1, RunsFacts DEF AlarmKept
<1>6. Waiting'
  BY <1>1, <1>2, RunsFacts, GuestAssumption DEF Waiting, Calm
<1> QED
  BY <1>4, <1>5, <1>6 DEF IInv

LEMMA FoldedJumpStep == IInv /\ FoldedJump => IInv'
<1> SUFFICES ASSUME IInv, FoldedJump PROVE IInv'
  OBVIOUS
<1>1. /\ at = "folded" /\ Runs /\ at' = "check" /\ after' \in Returns
      /\ turn' = turn /\ delay_timer' = delay_timer /\ keys_down' = keys_down
  BY DEF FoldedJump, Safepoint, Quietly, Returns
<1>2. waited' <= SAFEPOINT_INTERVAL + 1
  <2>1. waited <= SAFEPOINT_INTERVAL /\ waited \in Nat
    BY <1>1 DEF IInv, Waiting, TypeOK
  <2> QED
    BY <1>1, <2>1, RunsFacts, GuestAssumption
<1>3. TypeOK'
  BY <1>1, RunsFacts DEF IInv, TypeOK, Positions
<1>4. AlarmKept'
  BY <1>1, RunsFacts DEF AlarmKept
<1>5. Waiting'
  BY <1>1, <1>2, RunsFacts DEF Waiting, Calm
<1> QED
  BY <1>3, <1>4, <1>5 DEF IInv

LEMMA PeriodicStep == IInv /\ (Periodic \/ FallThrough) => IInv'
<1> SUFFICES ASSUME IInv, Periodic \/ FallThrough PROVE IInv'
  OBVIOUS
<1>1. /\ at' = "check" /\ at = "trace" /\ after' \in Returns /\ turn' \in {0, turn}
      /\ UNCHANGED <<input, service, program_over, history>>
  BY DEF Periodic, FallThrough, Safepoint, Returns
<1>2. TypeOK'
  BY <1>1, GuestAssumption DEF IInv, TypeOK, Positions, input, service, history
<1>3. AlarmKept' /\ Waiting'
  BY <1>1 DEF IInv, AlarmKept, Waiting, Calm, service, history
<1> QED
  BY <1>2, <1>3 DEF IInv

LEMMA NativeStep == IInv /\ Native => IInv'
<1> SUFFICES ASSUME IInv, Native PROVE IInv'
  OBVIOUS
<1>1. /\ delay_timer \in 0 .. MaxTimer /\ keys_down \in [Slots -> SUBSET TypedKeys]
      /\ after \in Returns
  BY DEF IInv, TypeOK
<1>2. CASE Inline
  <2>1. delay_timer' \in 0 .. MaxTimer /\ keys_down' = keys_down /\ at' = "trace" /\ after' = after
    BY <1>1, <1>2 DEF Inline, Instruction
  <2> QED
    BY <1>1, <1>2, <2>1, InstructionStep DEF Inline
<1>3. CASE Jump
  BY <1>1, <1>3, InstructionStep DEF Jump, Safepoint, Quietly, Returns
<1>4. CASE Periodic \/ FallThrough
  BY <1>4, PeriodicStep
<1>5. CASE CheckedHelper
  BY <1>1, <1>5, InstructionStep DEF CheckedHelper, Safepoint, Quietly, Returns
<1>6. CASE EndTrace
  BY <1>1, <1>6, InstructionStep DEF EndTrace, Quietly
<1>7. CASE SkipKey
  <2>1. keys_down' \in [Slots -> SUBSET TypedKeys]
    <3>1. \A key : ClearKey(keys_down, key) \in [Slots -> SUBSET TypedKeys]
      BY <1>1, RingType
    <3> QED
      BY <1>1, <1>7, <3>1 DEF SkipKey
  <2>2. Instruction /\ at' = "return" /\ turn' = turn
        /\ delay_timer' = delay_timer /\ after' = after
    BY <1>7 DEF SkipKey
  <2> QED
    BY <1>1, <2>1, <2>2, InstructionStep
<1>8. CASE LoadOnKey
  BY <1>1, <1>8, InstructionStep DEF LoadOnKey, Quietly
<1>9. CASE FusedSkip
  BY <1>1, <1>9, InstructionStep DEF FusedSkip, Quietly
<1>10. CASE FoldedJump
  BY <1>10, FoldedJumpStep
<1> QED
  BY <1>2, <1>3, <1>4, <1>5, <1>6, <1>7, <1>8, <1>9, <1>10 DEF Native

THEOREM StepInv == IInv /\ [Next]_vars => IInv'
<1> SUFFICES ASSUME IInv, [Next]_vars PROVE IInv'
  OBVIOUS
<1>1. CASE Host
  BY <1>1, CheckInterruptStep, ServiceStep, QuitTestStep, IdleHeadStep, IdleWaitStep,
     FrameSyncStep, PollStep, EdgeStep, ReturnStep, MainStep, NativeStep DEF Host
<1>2. CASE Clock \/ Alarm \/ Type
  BY <1>2, ClockStep, AlarmStep, TypeStep
<1>3. CASE Halted \/ UNCHANGED vars
  BY <1>3
  DEF Halted, vars, input, service, history, IInv, TypeOK, AlarmKept, Waiting
<1> QED
  BY <1>1, <1>2, <1>3 DEF Next

THEOREM Inductive == Spec => []IInv
  BY InitInv, StepInv, PTL DEF Spec

(***************************************************************************)
(* The state of an interactive trace compiler keeps its types: the ring's  *)
(* index stays in the ring, the timer does not go below zero.              *)
(***************************************************************************)
THEOREM TypeCorrect == Spec => []TypeOK
<1>1. IInv => TypeOK
  BY DEF IInv
<1> QED
  BY <1>1, Inductive, PTL

(***************************************************************************)
(* check_interrupt clears the flag before it services: an alarm that comes *)
(* in between raises it again and is not lost.                             *)
(***************************************************************************)
THEOREM NoAlarmLost == Spec => []AlarmKept
<1>1. IInv => AlarmKept
  BY DEF IInv
<1> QED
  BY <1>1, Inductive, PTL

(***************************************************************************)
(* An alarm is answered after at most SAFEPOINT_INTERVAL instructions, and *)
(* a jump folded into the last of them: along any trace and around any     *)
(* loop, codegen's turns put a safepoint in the way.                       *)
(***************************************************************************)
THEOREM LatencyBounded == Spec => []InputLatency
<1>1. IInv => InputLatency
  BY DEF IInv, Waiting, InputLatency
<1> QED
  BY <1>1, Inductive, PTL
=============================================================================
