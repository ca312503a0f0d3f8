------------------------------ MODULE TraceJit ------------------------------
(***************************************************************************)
(* The trace compilers libgccjit_jit.c and llvm_jit.cpp, BENCH build: a    *)
(* dispatcher that runs cached traces, a code generator that walks memory  *)
(* from the program counter, native loops closed inside a trace, the store *)
(* filter that spots self-modifying code, and the whole-cache flush.  The  *)
(* two backends follow one design; they differ only in the code emitter.   *)
(*                                                                         *)
(* One turn of codegen's loop is one action, and one emitted block (one    *)
(* CHIP-8 instruction) is one action when the trace runs, so that the      *)
(* compiled program can be compared with Machine instruction by            *)
(* instruction.  What codegen bakes into a block is kept in the block;     *)
(* what a host helper re-reads from memory is re-read.                     *)
(***************************************************************************)
EXTENDS Chip8

CONSTANTS
  SAFEPOINT_INTERVAL,        \* turns of codegen between emitted safepoints, 32
  BENCH_SAFEPOINT_INTERVAL,  \* retired instructions between slow paths, 64
  TRACE_LIMIT                \* turns after which a jump ends the trace, 1 << 8

ASSUME IntervalsAssumption ==
  /\ SAFEPOINT_INTERVAL \in Nat \ {0}
  /\ BENCH_SAFEPOINT_INTERVAL \in Nat \ {0}
  /\ TRACE_LIMIT \in Nat

VARIABLES
  vm,                    \* chip8.c's globals, the timers and the clock
  bench_next_safepoint,  \* retired count at which a safepoint goes slow
  program_over,
  smc_pending,           \* a store hit a byte some trace was compiled from
  code_bytes,            \* the bytes codegen has read for traces in the cache
  trace_cache,           \* compiled traces by entry address
  phase,                 \* where the host program is
  cg,                    \* codegen's loop state while it compiles
  native,                \* where the running trace is
  \* Histories, which no action reads but to keep them:
  unchecked,             \* instructions since the last safepoint,
  stretch                \* and as many when the last one had just retired

vars == <<vm, bench_next_safepoint, program_over, smc_pending, code_bytes,
          trace_cache, phase, cg, native, unchecked, stretch>>

host == <<vm, bench_next_safepoint, program_over>>

Phases == {"dispatch", "codegen", "native", "service",
           "exited", "failed", "errer", "undefined"}

Stopped == phase \in {"exited", "failed", "errer", "undefined"}

----------------------------------------------------------------------------
\* Compiled code.

NoBlocks == [a \in {} |-> {}]

\* exit says how the main path of a block ends: straight into the block that
\* follows it, by closing a back edge onto it, or by returning.
Blocks ==
  [op: Word,                             \* the instruction compiled
   turn: Nat,                            \* op_count when it was
   safepoint: BOOLEAN,                   \* a periodic safepoint precedes it
   folded: BOOLEAN,                      \* a skip that took in the jump after it
   folded_target: Address,               \* where that jump goes,
   folded_loops: BOOLEAN,                \* and whether by a closed back edge
   exit: {"open", "loop", "return"}]

\* Helpers called with the program counter materialized; they decode the
\* opcode again from memory.
RunOnHelpers == {"random_byte", "draw", "restore_registers"}
EndingHelpers ==
  {"call", "skip_key_down", "skip_key_up", "load_on_key", "store_bcd", "save_registers"}

EndingKinds == EndingHelpers \cup {"retern", "branch"}

\* Emitted inline, leaving program_counter alone.
InlineKinds ==
  {"clearscreen", "load_immediate", "add_immediate", "load_addr_immediate",
   "add_addr", "load_sprite_addr"} \cup ArithmeticKinds \cup TimerKinds

Span(a, n) == {Wrap(a + i) : i \in 0 .. n - 1}

\* Mutants of MarkCode: no wrap at the end of memory, the last byte left out,
\* the jump folded into a skip left out.
MarkCodeUnwrapped(a, n) == code_bytes' = code_bytes \cup {a + i : i \in 0 .. n - 1}
MarkCodeShort(a, n) == code_bytes' = code_bytes \cup Span(a, n - 1)
MarkCodeFirstOnly(a, n) == code_bytes' = code_bytes \cup Span(a, IF n = 4 THEN 2 ELSE n)

\* mark_code
MarkCode(a, n) == code_bytes' = code_bytes \cup Span(a, n)

\* Mutant of Emitted: no periodic safepoint in straight-line code.
EmittedUnchecked(op, exit) ==
  [op |-> op, turn |-> cg.count, safepoint |-> FALSE,
   folded |-> FALSE, folded_target |-> 0, folded_loops |-> FALSE, exit |-> exit]

\* The block a turn at cg.pc emits.
Emitted(op, exit) ==
  [op |-> op, turn |-> cg.count,
   safepoint |-> cg.count # 0 /\ cg.count % SAFEPOINT_INTERVAL = 0,
   folded |-> FALSE, folded_target |-> 0, folded_loops |-> FALSE, exit |-> exit]

WithBlock(block) ==
  [a \in DOMAIN cg.blocks \cup {cg.pc} |-> IF a = cg.pc THEN block ELSE cg.blocks[a]]

\* Mutant of HasBlock: a trace elsewhere in the cache passes for a block.
HasBlockAnywhere(a) == a \in DOMAIN cg.blocks \cup {cg.pc} \cup DOMAIN trace_cache
HasBlock(a) == a \in DOMAIN cg.blocks \cup {cg.pc}

----------------------------------------------------------------------------
\* codegen, a turn at a time.

Idle == [entry |-> 0, pc |-> 0, count |-> 0, last |-> 0, blocks |-> NoBlocks]
Nowhere == [trace |-> 0, pc |-> 0, folded |-> FALSE]

Init ==
  /\ \E rom \in ROMs : vm = Booted(rom)
  /\ bench_next_safepoint = BENCH_SAFEPOINT_INTERVAL
  /\ program_over = FALSE
  /\ smc_pending = FALSE
  /\ code_bytes = {}
  /\ trace_cache = NoBlocks
  /\ phase = "dispatch"
  /\ cg = Idle
  /\ native = Nowhere
  /\ unchecked = 0 /\ stretch = 0

\* The cache misses: codegen starts at the program counter.
StartCodegen ==
  /\ phase = "dispatch"
  /\ vm.pc \notin DOMAIN trace_cache
  /\ phase' = "codegen"
  /\ cg' = [entry |-> vm.pc, pc |-> vm.pc, count |-> 0, last |-> vm.pc, blocks |-> NoBlocks]
  /\ UNCHANGED <<host, smc_pending, code_bytes, trace_cache, native, unchecked, stretch>>

\* codegen returns a trace, and main puts it in the cache.
Install(blocks) ==
  /\ trace_cache' = [a \in DOMAIN trace_cache \cup {cg.entry} |->
                       IF a = cg.entry THEN blocks ELSE trace_cache[a]]
  /\ phase' = "dispatch"
  /\ cg' = Idle

\* The trace goes on at address a.
Continue(block, a) ==
  /\ cg' = [entry |-> cg.entry, pc |-> a % 65536, count |-> cg.count + 1, last |-> cg.pc,
            blocks |-> WithBlock(block)]
  /\ UNCHANGED <<phase, trace_cache>>

CodegenVars == <<host, smc_pending, native, unchecked, stretch>>

Compiling ==
  /\ phase = "codegen"
  /\ cg.pc < MEMORY_SIZE
  /\ UNCHANGED CodegenVars

CompilingNew == Compiling /\ cg.pc \notin DOMAIN cg.blocks

NewOp == OpAt(vm.memory, cg.pc)

\* The walk reached an address this trace has compiled: close the loop.
CloseFallThrough ==
  /\ Compiling
  /\ cg.pc \in DOMAIN cg.blocks
  /\ MarkCode(cg.pc, 2)
  /\ Install([cg.blocks EXCEPT ![cg.last].exit = "loop"])

CompileInline ==
  /\ CompilingNew
  /\ Kind(NewOp) \in InlineKinds \cup RunOnHelpers
  /\ MarkCode(cg.pc, 2)
  /\ Continue(Emitted(NewOp, "open"), cg.pc + 2)

CompileEnding ==
  /\ CompilingNew
  /\ Kind(NewOp) \in EndingKinds
  /\ MarkCode(cg.pc, 2)
  /\ Install(WithBlock(Emitted(NewOp, "return")))

\* A jump is a back edge, an extension of the trace, or the end of a long one.
CompileJump ==
  LET target == IMMEDIATE12(NewOp) IN
  /\ CompilingNew
  /\ Kind(NewOp) = "jump"
  /\ MarkCode(cg.pc, 2)
  /\ \/ HasBlock(target) /\ Install(WithBlock(Emitted(NewOp, "loop")))
     \/ /\ ~HasBlock(target) /\ cg.count < TRACE_LIMIT
        /\ Continue(Emitted(NewOp, "open"), target)
     \/ /\ ~HasBlock(target) /\ cg.count >= TRACE_LIMIT
        /\ Install(WithBlock(Emitted(NewOp, "return")))

\* A skip over a 1nnn takes the jump in; the trace goes on where it skips to.
CompileSkip ==
  LET next   == OpAt(vm.memory, cg.pc + 2)
      folded == next \div 4096 = 1
      target == IMMEDIATE12(next)
  IN  /\ CompilingNew
      /\ Kind(NewOp) \in SkipKinds
      /\ MarkCode(cg.pc, 4)
      /\ Continue([Emitted(NewOp, "open") EXCEPT
                     !.folded = folded,
                     !.folded_target = IF folded THEN target ELSE 0,
                     !.folded_loops = folded /\ HasBlock(target)], cg.pc + 4)

\* BAIL_ERRER: codegen returns NULL, and main leaves its loop.
CompileIllegal ==
  /\ CompilingNew
  /\ Kind(NewOp) = "illegal"
  /\ MarkCode(cg.pc, 2)
  /\ phase' = "failed"
  /\ UNCHANGED <<cg, trace_cache>>

\* The opcode fetch wraps, pc_block[pc] does not: past the end of memory the
\* array is read and written out of bounds, and nothing is claimed any more.
CompileBeyondMemory ==
  /\ phase = "codegen"
  /\ cg.pc >= MEMORY_SIZE
  /\ phase' = "undefined"
  /\ UNCHANGED <<CodegenVars, cg, code_bytes, trace_cache>>

Codegen ==
  \/ CloseFallThrough \/ CompileInline \/ CompileEnding \/ CompileJump
  \/ CompileSkip \/ CompileIllegal \/ CompileBeyondMemory

----------------------------------------------------------------------------
\* Safepoints.  A host record is the part of the state they work on.

Host == [vm |-> vm, next |-> bench_next_safepoint, over |-> program_over]

Becomes(h) ==
  /\ vm' = h.vm
  /\ bench_next_safepoint' = h.next
  /\ program_over' = h.over

\* Mutant of CheckInterrupt: nobody notices that the run is over.
CheckInterruptBlind(h) == [h EXCEPT !.vm = SyncTimers(h.vm)]

\* check_interrupt, BENCH
CheckInterrupt(h) ==
  LET m == SyncTimers(h.vm) IN [h EXCEPT !.vm = m, !.over = @ \/ BenchDone(m)]

\* bench_advance_safepoint's do-while
Advanced(next, retired) ==
  next + BENCH_SAFEPOINT_INTERVAL * (1 + ((retired - next) \div BENCH_SAFEPOINT_INTERVAL))

\* SAFEPOINT and its slow path bench_safepoint
Safepoint(h) ==
  IF h.vm.retired >= h.next
  THEN [CheckInterrupt(h) EXCEPT !.next = Advanced(@, h.vm.retired)]
  ELSE h

----------------------------------------------------------------------------
\* Running a trace.

Block == trace_cache[native.trace][native.pc]

EnterTrace ==
  /\ phase = "dispatch"
  /\ vm.pc \in DOMAIN trace_cache
  /\ phase' = "native"
  /\ native' = [trace |-> vm.pc, pc |-> vm.pc, folded |-> FALSE]
  /\ UNCHANGED <<host, smc_pending, code_bytes, trace_cache, cg, unchecked, stretch>>

\* The block's own safepoint, then RETIRE (1).
Arrived ==
  LET h == IF Block.safepoint THEN Safepoint(Host) ELSE Host
  IN  [h EXCEPT !.vm = Retire(@)]

\* Instructions retired since the last safepoint, this block's included.
Counted == 1 + (IF Block.safepoint THEN 0 ELSE unchecked)

\* Inline code runs the opcode it was compiled from, a helper what it reads.
RunningOp ==
  IF Kind(Block.op) \in RunOnHelpers \cup EndingHelpers
  THEN OpAt(vm.memory, native.pc) ELSE Block.op

\* retern, call and draw check for interrupts; the timer instructions and
\* nothing else synchronize the timers.
Prepared(op, h) ==
  IF Kind(op) \in {"retern", "call", "draw"} THEN CheckInterrupt(h)
  ELSE IF Kind(op) \in TimerKinds THEN [h EXCEPT !.vm = SyncTimers(@)]
  ELSE h

\* What program_counter holds after the body of a block: helpers are given
\* the block's address, and only they and control flow write it.
StoredPc(op, after) ==
  IF Kind(op) \in InlineKinds THEN vm.pc
  ELSE IF Kind(op) \in RunOnHelpers THEN native.pc
  ELSE after.pc

\* Mutant of GivesUp: the poll ends the run although a key answered it.
GivesUpAlways(op, after) == Kind(op) = "load_on_key"

\* load_on_key ends the run when it gave up polling.
GivesUp(op, after) == Kind(op) = "load_on_key" /\ BenchDone(after)

\* Mutant of NotesStore: the last register stored is not looked up.
NotesStoreShort(op, m) ==
  \/ Kind(op) = "store_bcd" /\ Span(m.addr, 3) \cap code_bytes # {}
  \/ Kind(op) = "save_registers" /\ Span(m.addr, X(op)) \cap code_bytes # {}

\* note_store
NotesStore(op, m) ==
  \/ Kind(op) = "store_bcd" /\ Span(m.addr, 3) \cap code_bytes # {}
  \/ Kind(op) = "save_registers" /\ Span(m.addr, X(op) + 1) \cap code_bytes # {}

\* The main path is left with the host at h and the next instruction at a.
LeaveBlock(h, a, count) ==
  LET closed  == [Safepoint(h) EXCEPT !.vm.pc = a]
      jumping == Kind(Block.op) = "jump"
  IN  CASE Block.exit = "return" ->
             /\ Becomes(IF jumping THEN closed ELSE h)
             /\ phase' = "service"
             /\ unchecked' = IF jumping THEN 0 ELSE count
             /\ UNCHANGED native
        [] Block.exit = "open" ->
             /\ Becomes(IF jumping THEN closed ELSE h)
             /\ native' = [native EXCEPT !.pc = a]
             /\ unchecked' = IF jumping THEN 0 ELSE count
             /\ UNCHANGED phase
        [] Block.exit = "loop" ->
             /\ Becomes(closed)
             /\ unchecked' = 0
             /\ IF closed.over
                THEN phase' = "service" /\ UNCHANGED native
                ELSE native' = [native EXCEPT !.pc = a] /\ UNCHANGED phase

Running == phase = "native" /\ UNCHANGED <<code_bytes, trace_cache, cg>>

\* Any instruction but a skip that falls through and one that fails.
RunBlock ==
  LET op     == RunningOp
      before == Prepared(op, Arrived)
      m      == [before.vm EXCEPT !.pc = native.pc]
  IN  /\ Running
      /\ ~native.folded
      /\ ~Faults(op, m)
      /\ Kind(op) \in SkipKinds => SkipTaken(op, m)
      /\ \E random \in RandomBytes :
           LET after == Execute(op, m, random) IN
           LeaveBlock([before EXCEPT !.vm = [after EXCEPT !.pc = StoredPc(op, after)],
                                     !.over = @ \/ GivesUp(op, after)],
                      after.pc, Counted)
      /\ smc_pending' = (smc_pending \/ NotesStore(op, m))
      /\ stretch' = Counted

\* A skip not taken: on to the folded jump, or back to the dispatcher.
RunSkipNotTaken ==
  LET m == [Arrived.vm EXCEPT !.pc = native.pc] IN
  /\ Running
  /\ ~native.folded
  /\ Kind(Block.op) \in SkipKinds
  /\ ~SkipTaken(Block.op, m)
  /\ IF Block.folded
     THEN /\ Becomes(Arrived)
          /\ native' = [native EXCEPT !.folded = TRUE]
          /\ UNCHANGED phase
     ELSE /\ Becomes([Arrived EXCEPT !.vm.pc = (native.pc + 2) % 65536])
          /\ phase' = "service"
          /\ UNCHANGED native
  /\ unchecked' = Counted /\ stretch' = Counted
  /\ UNCHANGED smc_pending

\* The folded jump: RETIRE (1), a safepoint, and the edge to its target.  The
\* jump runs before its safepoint, on top of those that ran unchecked.
RunFoldedJump ==
  LET h == Safepoint([Host EXCEPT !.vm = Retire(@)]) IN
  /\ Running
  /\ native.folded
  /\ Becomes([h EXCEPT !.vm.pc = Block.folded_target])
  /\ IF Block.folded_loops /\ ~h.over
     THEN /\ native' = [native EXCEPT !.pc = Block.folded_target, !.folded = FALSE]
          /\ UNCHANGED phase
     ELSE phase' = "service" /\ UNCHANGED native
  /\ unchecked' = 0 /\ stretch' = unchecked + 1
  /\ UNCHANGED smc_pending

\* errer (): the process exits inside call or retern.
RunErrer ==
  LET op     == RunningOp
      before == Prepared(op, Arrived)
  IN  /\ Running
      /\ ~native.folded
      /\ Faults(op, before.vm)
      /\ Becomes(before)
      /\ phase' = "errer"
      /\ stretch' = Counted
      /\ UNCHANGED <<smc_pending, native, unchecked>>

\* main between traces: check_interrupt, the flush, the exit test.
Service ==
  LET h == CheckInterrupt(Host) IN
  /\ phase = "service"
  /\ Becomes(h)
  /\ IF smc_pending
     THEN trace_cache' = NoBlocks /\ code_bytes' = {} /\ smc_pending' = FALSE
     ELSE UNCHANGED <<trace_cache, code_bytes, smc_pending>>
  /\ phase' = IF h.over THEN "exited" ELSE "dispatch"
  /\ unchecked' = 0
  /\ native' = Nowhere
  /\ UNCHANGED <<cg, stretch>>

Run == RunBlock \/ RunSkipNotTaken \/ RunFoldedJump \/ RunErrer

\* main has returned, or the process is gone.
Halted == Stopped /\ UNCHANGED vars

Next == StartCodegen \/ Codegen \/ EnterTrace \/ Run \/ Service \/ Halted

Spec == Init /\ [][Next]_vars

\* Weak fairness of Next, with the states in which it is enabled written out:
\* the processor goes on executing a program that has not stopped.
FairSpec == Spec /\ ([]<>Stopped \/ []<><<Next>>_vars)

----------------------------------------------------------------------------
\* Invariants of the compiled code.

IsTrace(t) ==
  /\ t = [a \in DOMAIN t |-> t[a]]
  /\ DOMAIN t \subseteq Address
  /\ \A a \in DOMAIN t : t[a] \in Blocks

TypeOK ==
  /\ vm \in Machines
  /\ bench_next_safepoint \in Nat
  /\ program_over \in BOOLEAN
  /\ smc_pending \in BOOLEAN
  /\ code_bytes \subseteq Address
  /\ DOMAIN trace_cache \subseteq Word
  /\ \A entry \in DOMAIN trace_cache : IsTrace(trace_cache[entry])
  /\ phase \in Phases
  /\ cg.entry \in Word /\ cg.pc \in Word /\ cg.count \in Nat /\ cg.last \in Word
  /\ IsTrace(cg.blocks)
  /\ native \in [trace: Word, pc: Word, folded: BOOLEAN]
  /\ unchecked \in Nat /\ stretch \in Nat

\* Block b, compiled at a, says what memory says.
Current(b, a, memory) ==
  /\ b.op = OpAt(memory, a)
  /\ Kind(b.op) \in SkipKinds =>
       LET next == OpAt(memory, a + 2) IN
       /\ b.folded <=> next \div 4096 = 1
       /\ b.folded => b.folded_target = IMMEDIATE12(next)

\* The bytes codegen read to emit block b at a.
BytesRead(b, a) == Span(a, IF Kind(b.op) \in SkipKinds THEN 4 ELSE 2)

Tracked(t) ==
  \A a \in DOMAIN t :
    BytesRead(t[a], a) \subseteq code_bytes /\ (smc_pending \/ Current(t[a], a, vm.memory))

(***************************************************************************)
(* The filter of note_store is complete: every byte that a cached trace,   *)
(* or the trace being compiled, was built from is in code_bytes, and as    *)
(* long as no store raised smc_pending every block still says what memory  *)
(* says.  smc_pending is never left standing when a trace is looked up,    *)
(* compiled or run.                                                        *)
(***************************************************************************)
CacheTracked ==
  /\ \A entry \in DOMAIN trace_cache : Tracked(trace_cache[entry])
  /\ Tracked(cg.blocks)
  /\ smc_pending => phase = "service"

(***************************************************************************)
(* No stale code runs: whenever native code is about to execute an         *)
(* instruction, the instruction compiled into it, and the jump a skip      *)
(* folded in, are the ones in memory at that address.                      *)
(***************************************************************************)
NoStaleCode ==
  phase = "native" =>
    /\ native.trace \in DOMAIN trace_cache
    /\ native.pc \in DOMAIN trace_cache[native.trace]
    /\ Current(Block, native.pc, vm.memory)

\* Where the main path of block b, compiled at a, leads.
Successor(b, a) ==
  IF Kind(b.op) = "jump" THEN IMMEDIATE12(b.op)
  ELSE IF Kind(b.op) \in SkipKinds THEN (a + 4) % 65536
  ELSE (a + 2) % 65536

\* Every edge that stays in native code leads to a block among those at dom.
Linked(b, a, dom) ==
  /\ b.exit # "return" => Successor(b, a) \in dom
  /\ b.folded_loops => b.folded_target \in dom
  /\ Kind(b.op) # "illegal"
  /\ Kind(b.op) \in EndingKinds <=> b.exit = "return" /\ Kind(b.op) # "jump"

(***************************************************************************)
(* Native code never falls off a trace: each block of a cached trace that  *)
(* does not return leads, by its main path and by a closed folded jump, to *)
(* a block of the same trace; pc_block only ever named such blocks.        *)
(***************************************************************************)
TracesClosed ==
  /\ \A entry \in DOMAIN trace_cache :
       /\ entry \in DOMAIN trace_cache[entry]
       /\ \A a \in DOMAIN trace_cache[entry] :
            Linked(trace_cache[entry][a], a, DOMAIN trace_cache[entry])
  /\ phase = "codegen" =>
       /\ \A a \in DOMAIN cg.blocks : Linked(cg.blocks[a], a, DOMAIN cg.blocks \cup {cg.pc})
       /\ cg.entry \in DOMAIN cg.blocks \cup {cg.pc}
       /\ DOMAIN cg.blocks # {} =>
            cg.last \in DOMAIN cg.blocks /\ cg.blocks[cg.last].exit = "open"
  /\ phase \in {"dispatch", "native", "service"} => DOMAIN cg.blocks = {}

\* The running trace is in the cache, at one of its blocks, and at a folded
\* jump only if the block has one; what the invariant below needs of native.
NativeInTrace ==
  phase = "native" =>
    /\ native.trace \in DOMAIN trace_cache
    /\ native.pc \in DOMAIN trace_cache[native.trace]
    /\ native.folded => Block.folded

\* The inductive invariant behind NoStaleCode.
IInv == TypeOK /\ CacheTracked /\ TracesClosed /\ NativeInTrace

(***************************************************************************)
(* Input and timers are looked at often enough: however loops and skips    *)
(* lead through a trace, no instruction retires as more than the           *)
(* SAFEPOINT_INTERVAL-th since a safepoint, except a jump folded into a    *)
(* skip, which may come right after that one: libgccjit_jit.c retires it   *)
(* (line 850) before it emits the safepoint of the edge (line 851).        *)
(***************************************************************************)
SafepointLatency == stretch <= SAFEPOINT_INTERVAL + 1

(***************************************************************************)
(* bench_diff.py:7: "The JIT builds cannot stop on an exact instruction    *)
(* count: a trace only notices the budget at a safepoint, so it overshoots *)
(* by a bounded amount".  The bound: the wait for the next slow safepoint, *)
(* the wait for a safepoint at all, and the rest of the trace, which can   *)
(* be left only at a back edge or at its end.                              *)
(***************************************************************************)
BoundedOvershoot ==
  vm.retired <= BUDGET + BENCH_SAFEPOINT_INTERVAL + SAFEPOINT_INTERVAL + MEMORY_SIZE

(***************************************************************************)
(* A run that leaves the dispatcher normally has used up its budget or its *)
(* clock: program_over is never raised by anything else.                   *)
(***************************************************************************)
ExitsForCause == phase = "exited" => BenchDone(vm)

(***************************************************************************)
(* bench_diff.py: "Both engines execute the same instruction sequence".    *)
(* The interpreter stops with an error only on an instruction it reaches;  *)
(* read for the compiler, codegen gives up only on an instruction that     *)
(* execution has reached.                                                  *)
(***************************************************************************)
FailsOnlyOnReached == phase = "failed" => Faults(OpAt(vm.memory, vm.pc), vm)

----------------------------------------------------------------------------
\* The abstract machine: the pc is where native code is, whatever
\* program_counter holds, and the timers are level with the clock.

ArchitecturalPc ==
  IF phase \in {"native", "errer"}
  THEN (native.pc + (IF native.folded THEN 2 ELSE 0)) % 65536
  ELSE vm.pc

Reported == SyncTimers([vm EXCEPT !.pc = ArchitecturalPc])

Abstract == INSTANCE Machine WITH
              vm <- Reported,
              status <- IF phase = "errer" THEN "fault" ELSE "running"

(***************************************************************************)
(* The compiled program executes what the abstract machine executes, one   *)
(* instruction per RETIRE: back edges, folded jumps, safepoints, lazily    *)
(* counted timers, flushes and recompilation are invisible.                *)
(***************************************************************************)
ImplementsMachine == Abstract!Spec

(***************************************************************************)
(* Every run ends: a loop closed inside a trace observes program_over, and *)
(* a loop that retires nothing but polls runs into the clock cap.          *)
(***************************************************************************)
Terminates == <>Stopped
=============================================================================
