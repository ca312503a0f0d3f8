------------------------- MODULE InteractiveInterp -------------------------
(***************************************************************************)
(* The interactive build of the interpreter: main's loop, the wall clock's *)
(* tick, the timers and keys serviced by interrupt () where an instruction *)
(* calls it, draw's frame sync, load_on_key's poll and the wait that       *)
(* --elide-idle puts in place of a delay-timer poll loop.                  *)
(*                                                                         *)
(* A CHIP-8 program is a sequence of the instructions that touch any of    *)
(* this, and of others; it fills its memory, so that addresses wrap.  What *)
(* every opcode computes is Chip8's matter.                                *)
(***************************************************************************)
EXTENDS Terminal, Sequences

CONSTANTS
  Programs,             \* the CHIP-8 programs to run
  MaxTimer,             \* bound: what set_delay_timer is given
  TypedKeys             \* keys the user may press

Ops == {"other", "skip", "skip_zero", "jump", "branch", "get_delay", "set_delay",
        "draw", "skip_key_up", "skip_key_down", "load_on_key"}

ASSUME ProgramsAssumption ==
  /\ MaxTimer \in Nat
  /\ TypedKeys \subseteq HexKeys \cup {QUIT}
  /\ \A p \in Programs :
       /\ p \in Seq([op : Ops, arg : Nat]) /\ p # << >>
       /\ \A a \in DOMAIN p :
            /\ p[a].op \in {"jump", "branch"} => p[a].arg \in DOMAIN p
            /\ p[a].op = "set_delay" => p[a].arg \in 0 .. MaxTimer

VARIABLES
  program, elide_idle,  \* what was started, and how
  pc,
  reg,                  \* the register the poll loop loads
  delay_timer,
  tick, typed,          \* the wall clock's tick () and the keys not yet read
  last_tick,
  keys_down, interrupt_count,
  at,                   \* where the host is
  granted,              \* history: what delay_timer was last set to
  ticks                 \* history: ticks since then, up to MaxTimer

setup == <<program, elide_idle>>
machine == <<pc, reg, delay_timer>>
ring == <<keys_down, interrupt_count>>
history == <<granted, ticks>>
vars == <<setup, machine, tick, typed, last_tick, ring, at, history>>

Positions == {"head", "execute", "frame", "poll", "idle", "idle_wait", "exited"}
Stopped == at = "exited"

Addresses == DOMAIN program
Plus(a, n) == ((a - 1 + n) % Len(program)) + 1
op == program[pc].op
arg == program[pc].arg

Init ==
  /\ program \in Programs /\ elide_idle \in BOOLEAN
  /\ pc = 1 /\ reg = 0 /\ delay_timer = 0
  /\ tick \in Ticks /\ typed = {} /\ last_tick = tick
  /\ keys_down = EmptyRing /\ interrupt_count = 0
  /\ at = "head"
  /\ granted = 0 /\ ticks = 0

----------------------------------------------------------------------------
\* The clock and the user.

\* Bound: the host looks at the clock at least once in TICKS_PER_SECOND ticks.
Clock ==
  /\ ~Stopped /\ NextTick(tick) # last_tick
  /\ tick' = NextTick(tick)
  /\ ticks' = IF ticks < MaxTimer THEN ticks + 1 ELSE ticks
  /\ UNCHANGED <<setup, machine, typed, last_tick, ring, at, granted>>

Type ==
  /\ ~Stopped
  /\ \E key \in TypedKeys : typed' = typed \cup {key}
  /\ UNCHANGED <<setup, machine, tick, last_tick, ring, at, history>>

----------------------------------------------------------------------------
\* Mutants of Interrupt: the tick is not noted; the timer is not looked at.
InterruptUnnoted ==
  /\ delay_timer' = CountedDown(delay_timer, last_tick, tick)
  /\ keys_down' = [keys_down EXCEPT ![interrupt_count] = typed]
  /\ interrupt_count' = NextSlot(interrupt_count)
  /\ typed' = {}
  /\ UNCHANGED <<tick, last_tick, granted, ticks>>

InterruptKeysOnly ==
  /\ keys_down' = [keys_down EXCEPT ![interrupt_count] = typed]
  /\ interrupt_count' = NextSlot(interrupt_count)
  /\ typed' = {}
  /\ UNCHANGED <<tick, delay_timer, last_tick, granted, ticks>>

\* interrupt ()
Interrupt ==
  /\ delay_timer' = CountedDown(delay_timer, last_tick, tick)
  /\ last_tick' = tick
  /\ keys_down' = [keys_down EXCEPT ![interrupt_count] = typed]
  /\ interrupt_count' = NextSlot(interrupt_count)
  /\ typed' = {}
  /\ UNCHANGED <<tick, granted, ticks>>

\* Fx07, 3x00 and a jump back to the Fx07.
IdleDelayLoop(a) ==
  /\ program[a].op = "get_delay"
  /\ program[Plus(a, 1)].op = "skip_zero"
  /\ program[Plus(a, 2)] = [op |-> "jump", arg |-> a]

\* Mutant of Main: the quit key is not looked for.
MainBlind ==
  /\ at = "head"
  /\ at' = IF elide_idle /\ IdleDelayLoop(pc) /\ delay_timer # 0 THEN "idle" ELSE "execute"
  /\ UNCHANGED <<setup, machine, tick, typed, last_tick, ring, history>>

\* The head of main's loop.
Main ==
  /\ at = "head"
  /\ at' = IF QUIT \in AllKeysDown(keys_down) THEN "exited"
           ELSE IF elide_idle /\ IdleDelayLoop(pc) /\ delay_timer # 0 THEN "idle"
           ELSE "execute"
  /\ UNCHANGED <<setup, machine, tick, typed, last_tick, ring, history>>

\* Mutant of IdleHead: one tick short.
IdleHeadShort ==
  /\ at = "idle"
  /\ IF delay_timer > 1 /\ QUIT \notin AllKeysDown(keys_down)
     THEN at' = "idle_wait" /\ UNCHANGED <<pc, reg>>
     ELSE at' = "head" /\ reg' = 0 /\ pc' = Plus(pc, 3)
  /\ UNCHANGED <<setup, delay_timer, tick, typed, last_tick, ring, history>>

\* idle_wait, and main going on past the loop.
IdleHead ==
  /\ at = "idle"
  /\ IF delay_timer # 0 /\ QUIT \notin AllKeysDown(keys_down)
     THEN at' = "idle_wait" /\ UNCHANGED <<pc, reg>>
     ELSE at' = "head" /\ reg' = 0 /\ pc' = Plus(pc, 3)
  /\ UNCHANGED <<setup, delay_timer, tick, typed, last_tick, ring, history>>

IdleWait ==
  /\ at = "idle_wait"
  /\ Interrupt
  /\ at' = "idle"
  /\ UNCHANGED <<setup, pc, reg>>

----------------------------------------------------------------------------
\* basic_block

Execute(name) == at = "execute" /\ op = name /\ UNCHANGED setup

Quiet == UNCHANGED <<delay_timer, tick, typed, last_tick, ring, history>>

Other ==
  /\ Execute("other")
  /\ pc' = Plus(pc, 1) /\ at' = "head"
  /\ UNCHANGED reg /\ Quiet

\* Any skip on data.
Skip ==
  /\ Execute("skip")
  /\ pc' \in {Plus(pc, 1), Plus(pc, 2)} /\ at' = "head"
  /\ UNCHANGED reg /\ Quiet

SkipZero ==
  /\ Execute("skip_zero")
  /\ pc' = Plus(pc, IF reg = 0 THEN 2 ELSE 1) /\ at' = "head"
  /\ UNCHANGED reg /\ Quiet

\* jump; call and retern look and move in the same way.
Jump ==
  /\ Execute("jump")
  /\ Interrupt
  /\ pc' = arg /\ at' = "head"
  /\ UNCHANGED reg

\* Bnnn looks at nothing.
Branch ==
  /\ Execute("branch")
  /\ pc' = arg /\ at' = "head"
  /\ UNCHANGED reg /\ Quiet

GetDelayTimer ==
  /\ Execute("get_delay")
  /\ reg' = delay_timer
  /\ pc' = Plus(pc, 1) /\ at' = "head"
  /\ Quiet

SetDelayTimer ==
  /\ Execute("set_delay")
  /\ delay_timer' = arg
  /\ granted' = arg /\ ticks' = 0
  /\ pc' = Plus(pc, 1) /\ at' = "head"
  /\ UNCHANGED <<reg, tick, typed, last_tick, ring>>

Draw ==
  /\ Execute("draw")
  /\ Interrupt
  /\ at' = "frame"
  /\ UNCHANGED <<pc, reg>>

\* The frame sync notes the tick and counts nothing down.
FrameSync ==
  /\ at = "frame" /\ tick # last_tick
  /\ last_tick' = tick
  /\ pc' = Plus(pc, 1) /\ at' = "head"
  /\ UNCHANGED <<setup, reg, delay_timer, tick, typed, ring, history>>

\* skip_key_x: a skip taken clears the key.
SkipKey ==
  \E up \in BOOLEAN :
    /\ Execute(IF up THEN "skip_key_up" ELSE "skip_key_down")
    /\ IF (arg \in AllKeysDown(keys_down)) # up
       THEN /\ keys_down' = ClearKey(keys_down, arg)
            /\ pc' = Plus(pc, 2)
       ELSE pc' = Plus(pc, 1) /\ UNCHANGED keys_down
    /\ at' = "head"
    /\ UNCHANGED <<reg, delay_timer, tick, typed, last_tick, interrupt_count, granted, ticks>>

LoadOnKey ==
  /\ Execute("load_on_key")
  /\ at' = "poll"
  /\ UNCHANGED <<pc, reg>> /\ Quiet

\* The poll that finds a key; ERROR makes main leave its loop.
Poll ==
  /\ at = "poll" /\ typed # {}
  /\ typed' = {}
  /\ keys_down' = ClearHexKeys(keys_down)
  /\ IF QUIT \in typed
     THEN at' = "exited" /\ UNCHANGED pc
     ELSE at' = "head" /\ pc' = Plus(pc, 1)
  /\ UNCHANGED <<setup, reg, delay_timer, tick, last_tick, interrupt_count, granted, ticks>>

Host ==
  \/ Main \/ IdleHead \/ IdleWait
  \/ Other \/ Skip \/ SkipZero \/ Jump \/ Branch
  \/ GetDelayTimer \/ SetDelayTimer
  \/ Draw \/ FrameSync \/ SkipKey \/ LoadOnKey \/ Poll

Halted == Stopped /\ UNCHANGED vars

Next == Clock \/ Type \/ Host \/ Halted

Spec == Init /\ [][Next]_vars

Looks == interrupt_count' # interrupt_count

\* The processor and the clock go on; the host runs thousands of instructions
\* a tick, so it does not always look just before the tick.
FairSpec ==
  /\ Spec
  /\ WF_vars(Host) /\ WF_vars(Clock)
  /\ SF_vars(Host /\ tick # last_tick /\ last_tick' = tick)

----------------------------------------------------------------------------
TypeOK ==
  /\ program \in Programs /\ elide_idle \in BOOLEAN
  /\ pc \in Addresses /\ reg \in 0 .. MaxTimer
  /\ delay_timer \in 0 .. MaxTimer
  /\ tick \in Ticks /\ last_tick \in Ticks
  /\ typed \subseteq TypedKeys
  /\ keys_down \in [Slots -> SUBSET TypedKeys] /\ interrupt_count \in Slots
  /\ at \in Positions
  /\ granted \in 0 .. MaxTimer /\ ticks \in 0 .. MaxTimer

(***************************************************************************)
(* The delay timer never runs ahead of the clock by more than the tick     *)
(* that was under way, unnoticed, when set_delay_timer set it.             *)
(***************************************************************************)
TimerNotFast == delay_timer + ticks + 1 >= granted

(***************************************************************************)
(* A program that keeps executing instructions that call interrupt () is   *)
(* stopped by the quit key, also in an elided wait, in the frame sync and  *)
(* in load_on_key (README.md:76).                                          *)
(***************************************************************************)
QuitObserved == []<><<Looks>>_vars => (QUIT \in typed ~> Stopped)

(***************************************************************************)
(* idle.h:21: a delay-timer poll loop ends, spun or waited out.            *)
(***************************************************************************)
InDelayLoop == \E a \in Addresses : IdleDelayLoop(a) /\ pc \in {a, Plus(a, 1), Plus(a, 2)}
DelayLoopEnds == InDelayLoop ~> ~InDelayLoop \/ Stopped

(***************************************************************************)
(* README.md:57, "The end state is identical": past the poll loop, in a    *)
(* program that does not set the timer again, the timer has expired, and   *)
(* the polled register with it, unless the quit key cut the wait short.    *)
(***************************************************************************)
PastDelayLoop ==
  \A a \in Addresses :
    /\ IdleDelayLoop(a) /\ pc = Plus(a, 3)
    /\ a > 1 /\ program[a - 1].op = "set_delay" /\ granted = program[a - 1].arg
    => (delay_timer = 0 /\ reg = 0) \/ QUIT \in AllKeysDown(keys_down)

(***************************************************************************)
(* docs/unimplemented.md:14, "every engine counts `sound_timer` down at    *)
(* 60 Hz alongside the delay timer": a timer set is a timer that expires.  *)
(***************************************************************************)
TimerExpires == delay_timer > 0 ~> delay_timer = 0 \/ Stopped
=============================================================================
