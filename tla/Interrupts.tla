----------------------------- MODULE Interrupts -----------------------------
(***************************************************************************)
(* The interactive builds of the trace compilers: a SIGALRM handler that   *)
(* sets a flag, safepoints in native code that test it, and what a         *)
(* safepoint's slow path does with timers, keys and the quit key.  The     *)
(* alarm, the clock and the user act between any two steps of the host.    *)
(*                                                                         *)
(* The CHIP-8 program is any program: at "trace" native code does any of   *)
(* the things the compilers emit, with safepoints where they emit them.    *)
(* Of a trace only codegen's op_count matters, for it decides which blocks *)
(* begin with a safepoint: each open edge leads to the next turn, a closed *)
(* one to a block of any turn.                                             *)
(***************************************************************************)
EXTENDS Terminal

CONSTANTS
  SAFEPOINT_INTERVAL,   \* turns of codegen between two periodic safepoints
  MaxTimer,             \* bound: the values the program gives delay_timer
  TypedKeys,            \* keys the user may press
  GuestKeys             \* keys the program tests for: regs[x] % 32

ASSUME GuestAssumption ==
  /\ SAFEPOINT_INTERVAL \in Nat \ {0}
  /\ MaxTimer \in Nat
  /\ TypedKeys \subseteq HexKeys \cup {QUIT}
  /\ GuestKeys \subseteq Keys

VARIABLES
  tick,                 \* the wall clock's tick ()
  typed,                \* keys waiting in the terminal
  interrupt_pending,    \* the handler's flag
  delay_timer,
  last_tick,
  keys_down,            \* the ring, and
  interrupt_count,      \* the slot the next read goes to
  program_over,
  at,                   \* where the host is
  after,                \* where check_interrupt returns to, while it runs
  turn,                 \* the next block's op_count (see Instruction)
  answered,             \* history: interrupt () was called since the last alarm
  waited                \* history: instructions an alarm has waited for it

input == <<tick, typed>>
service == <<interrupt_pending, delay_timer, last_tick, keys_down, interrupt_count>>
history == <<answered, waited>>
vars == <<input, service, program_over, at, after, turn, history>>

Positions ==
  {"trace",       \* in native code, between two instructions
   "folded",      \* on the way from a skip to the jump folded into it
   "check",       \* check_interrupt: the test of the flag
   "cleared",     \* the flag is down, interrupt () is next
   "quit_test",   \* the look at the quit key
   "edge",        \* CLOSE_BACKEDGE: the test of program_over
   "idle",        \* jit_idle_wait: the head of its loop
   "idle_wait",   \* its usleep, before it calls interrupt ()
   "frame",       \* draw: waiting for the tick to roll over
   "poll",        \* load_on_key: polling the terminal
   "return",      \* back in main, about to call check_interrupt
   "main",        \* the dispatcher's exit test
   "exited",      \* main has returned, the state is dumped
   "errer"}       \* errer () called exit (-1)

Returns == {"trace", "edge", "idle", "frame", "return", "main"}

Stopped == at \in {"exited", "errer"}

Init ==
  /\ tick \in Ticks
  /\ typed = {}
  /\ interrupt_pending = FALSE
  /\ delay_timer = 0
  /\ last_tick = tick
  /\ keys_down = EmptyRing
  /\ interrupt_count = 0
  /\ program_over = FALSE
  /\ at = "trace"
  /\ after = "main"
  /\ turn = 0
  /\ answered = TRUE
  /\ waited = 0

----------------------------------------------------------------------------
\* What goes on around the host.

Clock ==
  /\ ~Stopped
  /\ tick' = NextTick(tick)
  /\ UNCHANGED <<typed, service, program_over, at, after, turn, history>>

\* alarm_handler
Alarm ==
  /\ ~Stopped
  /\ interrupt_pending' = TRUE
  /\ answered' = FALSE
  /\ UNCHANGED <<input, delay_timer, last_tick, keys_down, interrupt_count,
                 program_over, at, after, turn, waited>>

Type ==
  /\ ~Stopped
  /\ \E key \in TypedKeys : typed' = typed \cup {key}
  /\ UNCHANGED <<tick, service, program_over, at, after, turn, history>>

----------------------------------------------------------------------------
\* check_interrupt and the two loops that call interrupt () themselves.

\* interrupt (); read_keys_io empties the terminal.
Interrupt ==
  /\ delay_timer' = CountedDown(delay_timer, last_tick, tick)
  /\ last_tick' = tick
  /\ keys_down' = [keys_down EXCEPT ![interrupt_count] = typed]
  /\ interrupt_count' = NextSlot(interrupt_count)
  /\ typed' = {}
  /\ answered' = TRUE /\ waited' = 0
  /\ UNCHANGED tick

\* The flag is lowered before it is answered.
CheckInterrupt ==
  /\ at = "check"
  /\ interrupt_pending' = FALSE
  /\ IF interrupt_pending
     THEN at' = "cleared" /\ UNCHANGED after
     ELSE at' = after /\ after' = "main"
  /\ UNCHANGED <<input, delay_timer, last_tick, keys_down, interrupt_count,
                 program_over, turn, history>>

Service ==
  /\ at = "cleared"
  /\ Interrupt
  /\ at' = "quit_test"
  /\ UNCHANGED <<interrupt_pending, program_over, after, turn>>

\* Mutants of QuitTest: the flag is lowered only here; the quit key is left
\* to the dispatcher.
QuitTestClearing ==
  /\ at = "quit_test"
  /\ program_over' = (program_over \/ QUIT \in AllKeysDown(keys_down))
  /\ interrupt_pending' = FALSE
  /\ at' = after /\ after' = "main"
  /\ UNCHANGED <<input, delay_timer, last_tick, keys_down, interrupt_count,
                 turn, history>>

QuitTestLess ==
  /\ at = "quit_test"
  /\ at' = after /\ after' = "main"
  /\ UNCHANGED <<input, service, program_over, turn, history>>

QuitTest ==
  /\ at = "quit_test"
  /\ program_over' = (program_over \/ QUIT \in AllKeysDown(keys_down))
  /\ at' = after /\ after' = "main"
  /\ UNCHANGED <<input, service, turn, history>>

\* jit_idle_wait: on expiry or on the quit key the register is zeroed and the
\* back edge behind the call is taken or not.
IdleHead ==
  /\ at = "idle"
  /\ \/ /\ delay_timer = 0
        /\ at' = "edge"
        /\ UNCHANGED program_over
     \/ /\ delay_timer # 0 /\ QUIT \in AllKeysDown(keys_down)
        /\ at' = "edge"
        /\ program_over' = TRUE
     \/ /\ delay_timer # 0 /\ QUIT \notin AllKeysDown(keys_down)
        /\ at' = "idle_wait"
        /\ UNCHANGED program_over
  /\ UNCHANGED <<input, service, after, turn, history>>

IdleWait ==
  /\ at = "idle_wait"
  /\ Interrupt
  /\ at' = "idle"
  /\ UNCHANGED <<interrupt_pending, program_over, after, turn>>

\* draw's frame sync takes note of the tick and counts nothing down.
FrameSync ==
  /\ at = "frame"
  /\ tick # last_tick
  /\ last_tick' = tick
  /\ at' = "trace"
  /\ UNCHANGED <<input, interrupt_pending, delay_timer, keys_down, interrupt_count,
                 program_over, after, turn, history>>

\* load_on_key reads the terminal itself; any key ends the wait, the quit key
\* by errer ().
Poll ==
  /\ at = "poll"
  /\ typed # {}
  /\ typed' = {}
  /\ keys_down' = ClearHexKeys(keys_down)
  /\ at' = IF QUIT \in typed THEN "errer" ELSE "return"
  /\ UNCHANGED <<tick, interrupt_pending, delay_timer, last_tick, interrupt_count,
                 program_over, after, turn, history>>

\* CLOSE_BACKEDGE: on into the loop, at a block of any turn, or back to main.
Edge ==
  /\ at = "edge"
  /\ at' = IF program_over THEN "return" ELSE "trace"
  /\ turn' \in 0 .. SAFEPOINT_INTERVAL
  /\ UNCHANGED <<input, service, program_over, after, history>>

\* main calls check_interrupt between two traces, then looks for an end.
Return ==
  /\ at = "return"
  /\ at' = "check"
  /\ after' = "main"
  /\ UNCHANGED <<input, service, program_over, turn, history>>

\* A trace is entered at its first block.
Main ==
  /\ at = "main"
  /\ at' = IF program_over \/ QUIT \in AllKeysDown(keys_down) THEN "exited" ELSE "trace"
  /\ turn' = 0
  /\ UNCHANGED <<input, service, program_over, after, history>>

----------------------------------------------------------------------------
\* Native code.

\* A safepoint, to go on at a position of Returns.
Safepoint(then) == at' = "check" /\ after' = then

\* One more instruction has run, whether or not an alarm waits.
Runs ==
  /\ waited' = IF answered THEN waited ELSE waited + 1
  /\ UNCHANGED <<input, answered, program_over, interrupt_pending, last_tick, interrupt_count>>

Quietly == UNCHANGED <<delay_timer, keys_down>>

\* The instruction of a block without a safepoint of its own.  op_count is
\* known by its remainder: 0 is the first block of a trace, and a later
\* multiple of SAFEPOINT_INTERVAL appears as SAFEPOINT_INTERVAL until the
\* safepoint that it calls for is behind (Periodic), and as 0 from then on.
Instruction == at = "trace" /\ turn < SAFEPOINT_INTERVAL /\ Runs

\* Mutant of Periodic: the safepoint of straight-line code is not emitted.
PeriodicMissing ==
  /\ at = "trace"
  /\ turn = SAFEPOINT_INTERVAL
  /\ turn' = 0
  /\ UNCHANGED <<input, service, program_over, at, after, history>>

\* The periodic safepoint, ahead of the block's instruction.
Periodic ==
  /\ at = "trace"
  /\ turn = SAFEPOINT_INTERVAL
  /\ Safepoint("trace")
  /\ turn' = 0
  /\ UNCHANGED <<input, service, program_over, history>>

\* codegen came to code the trace already has, before any other safepoint of
\* that turn, and closed the loop there; idle is --elide-idle's.
FallThrough ==
  /\ at = "trace"
  /\ turn # 0
  /\ \E then \in {"edge", "idle"} : Safepoint(then)
  /\ UNCHANGED <<input, service, program_over, turn, history>>

\* Inline code, set_delay_timer and a skip taken among it.
Inline ==
  /\ Instruction
  /\ turn' = turn + 1
  /\ \E timer \in {delay_timer} \cup 0 .. MaxTimer : delay_timer' = timer
  /\ UNCHANGED <<keys_down, at, after>>

\* A jump: on along the trace, around a loop, one that --elide-idle recognizes
\* among them, or out of a trace that is too long.
Jump ==
  /\ Instruction
  /\ \E then \in {"trace", "edge", "idle", "return"} : Safepoint(then)
  /\ turn' = turn + 1
  /\ Quietly

\* A skip not taken, with the jump behind it folded in,
FusedSkip ==
  /\ Instruction
  /\ at' = "folded"
  /\ UNCHANGED <<turn, after>>
  /\ Quietly

\* and that jump, which runs before its safepoint.
FoldedJump ==
  /\ at = "folded"
  /\ Runs
  /\ \E then \in {"edge", "idle", "return"} : Safepoint(then)
  /\ UNCHANGED turn
  /\ Quietly

\* draw, call and retern call check_interrupt; draw waits for the frame, the
\* other two end the trace.
CheckedHelper ==
  /\ Instruction
  /\ \E then \in {"frame", "return"} : Safepoint(then)
  /\ turn' = turn + 1
  /\ Quietly

\* The other ends of a trace: a branch, a store, a skip not taken.
EndTrace ==
  /\ Instruction
  /\ at' = "return"
  /\ UNCHANGED <<turn, after>>
  /\ Quietly

\* skip_key_x, up or down: a skip taken clears the key.
SkipKey ==
  /\ Instruction
  /\ \E key \in GuestKeys, up \in BOOLEAN :
       keys_down' = IF (key \in AllKeysDown(keys_down)) # up
                    THEN ClearKey(keys_down, key) ELSE keys_down
  /\ at' = "return"
  /\ UNCHANGED <<delay_timer, turn, after>>

LoadOnKey ==
  /\ Instruction
  /\ at' = "poll"
  /\ UNCHANGED <<turn, after>>
  /\ Quietly

Native ==
  \/ Periodic \/ FallThrough \/ Inline \/ Jump \/ FusedSkip \/ FoldedJump
  \/ CheckedHelper \/ EndTrace \/ SkipKey \/ LoadOnKey

Host ==
  \/ CheckInterrupt \/ Service \/ QuitTest \/ IdleHead \/ IdleWait
  \/ FrameSync \/ Poll \/ Edge \/ Return \/ Main \/ Native

Halted == Stopped /\ UNCHANGED vars

Next == Clock \/ Alarm \/ Type \/ Host \/ Halted

Spec == Init /\ [][Next]_vars

\* The blocks of a trace are finitely many and every cycle through them is
\* closed by CLOSE_BACKEDGE (TraceJit), so native code keeps coming to one,
\* to the end of the trace or to a wait.
TracesEnd == []<>(at \in {"edge", "return", "poll", "exited", "errer"})

\* The processor, the clock and the interval timer go on; draw looks at the
\* clock a thousand times a tick, so it does not miss every tick there is.
FairSpec ==
  /\ Spec /\ TracesEnd
  /\ WF_vars(Host) /\ WF_vars(Clock) /\ WF_vars(Alarm) /\ SF_vars(FrameSync)

----------------------------------------------------------------------------
TypeOK ==
  /\ tick \in Ticks /\ last_tick \in Ticks
  /\ typed \subseteq TypedKeys
  /\ interrupt_pending \in BOOLEAN
  /\ delay_timer \in 0 .. MaxTimer
  /\ keys_down \in [Slots -> SUBSET TypedKeys]
  /\ interrupt_count \in Slots
  /\ program_over \in BOOLEAN
  /\ at \in Positions /\ after \in Returns
  /\ turn \in 0 .. SAFEPOINT_INTERVAL
  /\ answered \in BOOLEAN
  /\ waited \in Nat

(***************************************************************************)
(* No alarm is lost: until interrupt () has been called after it, the flag *)
(* is up, or check_interrupt has lowered it and is about to call.          *)
(***************************************************************************)
AlarmKept == ~answered => interrupt_pending \/ at = "cleared"

(***************************************************************************)
(* README.md:21, "This design bounds input latency": an alarm waits for    *)
(* interrupt () for no more than SAFEPOINT_INTERVAL instructions and one   *)
(* jump folded into the last of them, around whatever loops.               *)
(***************************************************************************)
InputLatency == waited <= SAFEPOINT_INTERVAL + 1

(***************************************************************************)
(* A quit key that reaches the terminal is acted on, also in a native loop *)
(* that never returns to the dispatcher and in an idle wait; only a        *)
(* program that waits for a key (load_on_key) may not have noticed it.     *)
(***************************************************************************)
QuitHeard == QUIT \in typed ~> Stopped \/ at = "poll"

(***************************************************************************)
(* README.md:76, "Press `q` or `Escape` to quit", without that exception.  *)
(***************************************************************************)
QuitStops == QUIT \in typed ~> Stopped
=============================================================================
