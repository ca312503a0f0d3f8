--------------------------- MODULE TraceJit_proofs ---------------------------
(***************************************************************************)
(* The trace compilers never run stale code, execute what the abstract     *)
(* machine executes, look up often enough and stop soon enough, for every  *)
(* size of memory, stack and screen, every ROM and all the intervals.      *)
(*                                                                         *)
(* No stale code: code_bytes covers every byte a compiled block depends on *)
(* (CacheTracked), a store outside it cannot make a block stale, a store   *)
(* inside it raises smc_pending, and every store ends its trace, so that   *)
(* the flush comes before the next block runs.  That running code is       *)
(* always at a block at all (NativeInTrace) needs the traces to be closed  *)
(* (TracesClosed), and that in turn needs each block to lead where the     *)
(* instruction it was compiled from leads.                                 *)
(*                                                                         *)
(* The refinement adds the laziness of the timers (Level, in               *)
(* Chip8_proofs); the pace of native code adds the numbering of blocks by  *)
(* codegen's turns (Turns), which only a back edge undoes.                 *)
(***************************************************************************)
EXTENDS TraceJit, Chip8_proofs, FiniteSetTheorems

----------------------------------------------------------------------------
\* The host's part of a step: retiring, safepoints, interrupts.

Hosts == [vm: Machines, next: Nat, over: BOOLEAN]

\* What the host does to the machine leaves the program alone.
SameProgram(m, n) ==
  /\ n \in Machines
  /\ n.pc = m.pc
  /\ n.memory = m.memory
  /\ n.addr = m.addr
  /\ n.regs = m.regs
  /\ n.stack = m.stack

LEMMA BenchDoneBoolean ==
  ASSUME NEW m \in Machines
  PROVE  BenchDone(m) \in BOOLEAN
  BY DEF BenchDone

LEMMA SyncTimersSame ==
  ASSUME NEW m \in Machines
  PROVE  SameProgram(m, SyncTimers(m))
<1>1. SyncTimers(m) \in Machines
  BY SyncTimersType
<1> QED
  BY <1>1, SyncTimersKeeps DEF SameProgram

LEMMA RetireSame ==
  ASSUME NEW m \in Machines
  PROVE  SameProgram(m, Retire(m))
<1>1. Retire(m) \in Machines
  BY RetireType
<1> QED
  BY <1>1, RetireKeeps DEF SameProgram

LEMMA SameProgramTransitive ==
  ASSUME NEW l, NEW m, NEW n, SameProgram(l, m), SameProgram(m, n)
  PROVE  SameProgram(l, n)
  BY DEF SameProgram

LEMMA CheckInterruptSame ==
  ASSUME NEW h \in Hosts
  PROVE  CheckInterrupt(h) \in Hosts /\ SameProgram(h.vm, CheckInterrupt(h).vm)
<1>1. h.vm \in Machines /\ h.over \in BOOLEAN
  BY DEF Hosts
<1>2. SameProgram(h.vm, SyncTimers(h.vm)) /\ BenchDone(SyncTimers(h.vm)) \in BOOLEAN
  BY <1>1, SyncTimersSame, SyncTimersType, BenchDoneBoolean
<1>3. SyncTimers(h.vm) \in Machines
  BY <1>1, SyncTimersType
<1>4. CheckInterrupt(h) \in Hosts
  BY <1>1, <1>2, <1>3 DEF CheckInterrupt, Hosts
<1>5. CheckInterrupt(h).vm = SyncTimers(h.vm)
  BY DEF CheckInterrupt, Hosts
<1> QED
  BY <1>2, <1>4, <1>5

LEMMA AdvancedInNat ==
  ASSUME NEW next \in Nat, NEW retired \in Nat, retired >= next
  PROVE  Advanced(next, retired) \in Nat
<1>1. BENCH_SAFEPOINT_INTERVAL \in Nat \ {0}
  BY IntervalsAssumption
<1>2. PICK gap \in Nat : gap = retired - next
  OBVIOUS
<1>3. gap \div BENCH_SAFEPOINT_INTERVAL \in Nat
  BY <1>1, Quotient
<1>4. PICK q \in Nat : q = (retired - next) \div BENCH_SAFEPOINT_INTERVAL
  BY <1>2, <1>3
<1>5. BENCH_SAFEPOINT_INTERVAL * (1 + q) \in Nat
  BY <1>1
<1>6. next + BENCH_SAFEPOINT_INTERVAL * (1 + q) \in Nat
  BY <1>5
<1> QED
  BY <1>4, <1>6 DEF Advanced

LEMMA SafepointSame ==
  ASSUME NEW h \in Hosts
  PROVE  Safepoint(h) \in Hosts /\ SameProgram(h.vm, Safepoint(h).vm)
<1>1. h.vm \in Machines /\ h.next \in Nat /\ h.vm.retired \in Nat
  BY MachineFields DEF Hosts
<1>2. CASE h.vm.retired >= h.next
  <2>1. CheckInterrupt(h) \in Hosts /\ SameProgram(h.vm, CheckInterrupt(h).vm)
    BY CheckInterruptSame
  <2>2. CheckInterrupt(h).next = h.next
    BY DEF CheckInterrupt, Hosts
  <2>3. Advanced(h.next, h.vm.retired) \in Nat
    BY <1>1, <1>2, AdvancedInNat
  <2>4. Safepoint(h) = [CheckInterrupt(h) EXCEPT !.next = Advanced(h.next, h.vm.retired)]
    BY <1>2, <2>2 DEF Safepoint
  <2>5. ASSUME NEW k \in Hosts, NEW a \in Nat
        PROVE  [k EXCEPT !.next = a] \in Hosts /\ [k EXCEPT !.next = a].vm = k.vm
    BY DEF Hosts
  <2> QED
    BY <2>1, <2>3, <2>4, <2>5
<1>3. CASE ~(h.vm.retired >= h.next)
  BY <1>1, <1>3 DEF Safepoint, SameProgram
<1> QED
  BY <1>2, <1>3

----------------------------------------------------------------------------
\* Compiled code.

ClosedOver(t, dom) == \A a \in DOMAIN t : Linked(t[a], a, dom)

FaithfulTo(t, memory, bytes) ==
  \A a \in DOMAIN t : BytesRead(t[a], a) \subseteq bytes /\ Current(t[a], a, memory)

LEMMA SpanInAddress ==
  ASSUME NEW a \in Nat, NEW n \in Nat
  PROVE  Span(a, n) \subseteq Address
<1>1. \A i \in 0 .. n - 1 : Wrap(a + i) \in Address
  BY WrapRange
<1> QED
  BY <1>1 DEF Span

LEMMA EmittedBlock ==
  ASSUME NEW op \in Word, NEW exit \in {"open", "loop", "return"}, cg.count \in Nat
  PROVE  /\ Emitted(op, exit) \in Blocks
         /\ Emitted(op, exit).op = op
         /\ Emitted(op, exit).exit = exit
         /\ Emitted(op, exit).folded_loops = FALSE
<1>1. 0 \in Address
  BY MemorySize DEF Address
<1>2. (cg.count # 0 /\ cg.count % SAFEPOINT_INTERVAL = 0) \in BOOLEAN
  OBVIOUS
<1>3. Emitted(op, exit) \in Blocks
  BY <1>1, <1>2 DEF Emitted, Blocks
<1> QED
  BY <1>3 DEF Emitted

LEMMA WithBlockTrace ==
  ASSUME IsTrace(cg.blocks), NEW block \in Blocks, cg.pc \in Address
  PROVE  /\ IsTrace(WithBlock(block))
         /\ DOMAIN WithBlock(block) = DOMAIN cg.blocks \cup {cg.pc}
         /\ WithBlock(block)[cg.pc] = block
         /\ \A a \in DOMAIN cg.blocks : a # cg.pc => WithBlock(block)[a] = cg.blocks[a]
<1>1. DOMAIN WithBlock(block) = DOMAIN cg.blocks \cup {cg.pc}
  BY DEF WithBlock
<1>2. WithBlock(block)[cg.pc] = block
  BY DEF WithBlock
<1>3. \A a \in DOMAIN cg.blocks : a # cg.pc => WithBlock(block)[a] = cg.blocks[a]
  BY DEF WithBlock
<1>4. WithBlock(block) = [a \in DOMAIN WithBlock(block) |-> WithBlock(block)[a]]
  BY DEF WithBlock
<1>5. IsTrace(WithBlock(block))
  BY <1>1, <1>2, <1>3, <1>4 DEF IsTrace
<1> QED
  BY <1>1, <1>2, <1>3, <1>5

LEMMA LinkedInMore ==
  ASSUME NEW b, NEW a, NEW dom, NEW more, dom \subseteq more, Linked(b, a, dom)
  PROVE  Linked(b, a, more)
  BY DEF Linked

LEMMA ClosedAt ==
  ASSUME NEW t, NEW dom, ClosedOver(t, dom), NEW a \in DOMAIN t
  PROVE  Linked(t[a], a, dom)
  BY DEF ClosedOver

LEMMA CacheKept ==
  ASSUME vm' = vm, smc_pending' = smc_pending, code_bytes \subseteq code_bytes'
  PROVE  \A t : Tracked(t) => Tracked(t)'
  BY DEF Tracked

LEMMA CompilingFacts ==
  ASSUME IInv, Compiling
  PROVE  /\ phase = "codegen"
         /\ cg.pc \in Address
         /\ cg.pc \in Nat
         /\ smc_pending = FALSE
         /\ UNCHANGED CodegenVars
         /\ NewOp \in Word
         /\ vm \in Machines
         /\ FaithfulTo(cg.blocks, vm.memory, code_bytes)
         /\ IsTrace(cg.blocks)
         /\ ClosedOver(cg.blocks, DOMAIN cg.blocks \cup {cg.pc})
         /\ cg.entry \in DOMAIN cg.blocks \cup {cg.pc}
<1>1. TypeOK /\ CacheTracked /\ TracesClosed
  BY DEF IInv
<1>2. phase = "codegen" /\ cg.pc < MEMORY_SIZE /\ UNCHANGED CodegenVars
  BY DEF Compiling
<1>3. vm \in Machines /\ cg.pc \in Word /\ smc_pending \in BOOLEAN
  BY <1>1 DEF TypeOK
<1>4. cg.pc \in Nat
  BY <1>3 DEF Word
<1>5. cg.pc \in Address
  BY <1>2, <1>4, MemorySize DEF Address
<1>6. smc_pending = FALSE
  BY <1>1, <1>2, <1>3 DEF CacheTracked
<1>7. vm.memory \in [Address -> Byte]
  BY <1>3, MachineFields
<1>8. NewOp \in Word
  BY <1>4, <1>7, OpInWord DEF NewOp
<1>9. FaithfulTo(cg.blocks, vm.memory, code_bytes)
  BY <1>1, <1>6 DEF CacheTracked, Tracked, FaithfulTo
<1>10. IsTrace(cg.blocks)
  BY <1>1 DEF TypeOK
<1>11. /\ ClosedOver(cg.blocks, DOMAIN cg.blocks \cup {cg.pc})
       /\ cg.entry \in DOMAIN cg.blocks \cup {cg.pc}
  BY <1>1, <1>2 DEF TracesClosed, ClosedOver
<1> QED
  BY <1>2, <1>3, <1>4, <1>5, <1>6, <1>8, <1>9, <1>10, <1>11

\* A finished trace may be put in the cache.
LEMMA InstallStep ==
  ASSUME IInv, Compiling,
         NEW blocks, IsTrace(blocks), ClosedOver(blocks, DOMAIN blocks),
         cg.entry \in DOMAIN blocks,
         code_bytes \subseteq code_bytes', code_bytes' \subseteq Address,
         FaithfulTo(blocks, vm.memory, code_bytes'),
         Install(blocks)
  PROVE  IInv'
<1>1. TypeOK /\ CacheTracked /\ TracesClosed
  BY DEF IInv
<1>2. /\ phase = "codegen" /\ smc_pending = FALSE
      /\ vm' = vm /\ bench_next_safepoint' = bench_next_safepoint
      /\ program_over' = program_over /\ smc_pending' = smc_pending
      /\ native' = native /\ unchecked' = unchecked /\ stretch' = stretch
  BY CompilingFacts DEF CodegenVars, host
<1>3. phase' = "dispatch" /\ cg' = Idle
  BY DEF Install
<1>4. /\ DOMAIN trace_cache' = DOMAIN trace_cache \cup {cg.entry}
      /\ trace_cache'[cg.entry] = blocks
      /\ \A e \in DOMAIN trace_cache : e # cg.entry => trace_cache'[e] = trace_cache[e]
  BY DEF Install
<1>5. IsTrace(NoBlocks) /\ DOMAIN NoBlocks = {}
  BY DEF IsTrace, NoBlocks
<1>6. TypeOK'
  <2>1. \A e \in DOMAIN trace_cache' : IsTrace(trace_cache'[e])
    BY <1>1, <1>4 DEF TypeOK
  <2>2. DOMAIN trace_cache' \subseteq Word
    BY <1>1, <1>4 DEF TypeOK
  <2>3. /\ cg'.entry \in Word /\ cg'.pc \in Word /\ cg'.count \in Nat /\ cg'.last \in Word
        /\ IsTrace(cg'.blocks)
    BY <1>3, <1>5 DEF Idle, Word
  <2> QED
    BY <1>1, <1>2, <1>3, <2>1, <2>2, <2>3 DEF TypeOK, Phases
<1>7. CacheTracked'
  <2>1. \A t : Tracked(t) => Tracked(t)'
    BY <1>2, CacheKept
  <2>2. Tracked(blocks)'
    BY <1>2 DEF Tracked, FaithfulTo
  <2>3. Tracked(NoBlocks)'
    BY <1>5 DEF Tracked
  <2>4. \A e \in DOMAIN trace_cache' : Tracked(trace_cache[e])' 
    BY <1>1, <1>4, <2>1, <2>2 DEF CacheTracked, Tracked
  <2>5. Tracked(cg.blocks)'
    BY <1>3, <2>3 DEF Idle, Tracked
  <2> QED
    BY <1>2, <2>4, <2>5 DEF CacheTracked
<1>8. TracesClosed'
  <2>1. \A e \in DOMAIN trace_cache' :
          /\ e \in DOMAIN trace_cache'[e]
          /\ \A a \in DOMAIN trace_cache'[e] :
               Linked(trace_cache'[e][a], a, DOMAIN trace_cache'[e])
    BY <1>1, <1>4 DEF TracesClosed, ClosedOver
  <2>2. DOMAIN cg'.blocks = {}
    BY <1>3, <1>5 DEF Idle
  <2> QED
    BY <1>3, <2>1, <2>2 DEF TracesClosed
<1>9. NativeInTrace'
  BY <1>3 DEF NativeInTrace
<1> QED
  BY <1>6, <1>7, <1>8, <1>9 DEF IInv

\* A turn that goes on leaves a sound unfinished trace.
LEMMA ContinueStep ==
  ASSUME IInv, Compiling, cg.pc \notin DOMAIN cg.blocks,
         NEW block \in Blocks, block.exit = "open",
         NEW a \in Nat,
         Linked(block, cg.pc, DOMAIN cg.blocks \cup {cg.pc, a % 65536}),
         code_bytes \subseteq code_bytes', code_bytes' \subseteq Address,
         BytesRead(block, cg.pc) \subseteq code_bytes',
         Current(block, cg.pc, vm.memory),
         Continue(block, a)
  PROVE  IInv'
<1>1. TypeOK /\ CacheTracked /\ TracesClosed
  BY DEF IInv
<1>2. /\ phase = "codegen" /\ smc_pending = FALSE
      /\ vm' = vm /\ bench_next_safepoint' = bench_next_safepoint
      /\ program_over' = program_over /\ smc_pending' = smc_pending
      /\ native' = native /\ unchecked' = unchecked /\ stretch' = stretch
  BY CompilingFacts DEF CodegenVars, host
<1>3. phase' = phase /\ trace_cache' = trace_cache
  BY DEF Continue
<1>4. PICK next \in Word : next = a % 65536
  BY WordModulo
<1>5. cg' = [entry |-> cg.entry, pc |-> next, count |-> cg.count + 1, last |-> cg.pc,
             blocks |-> WithBlock(block)]
  BY <1>4 DEF Continue
<1>6. /\ IsTrace(WithBlock(block))
      /\ DOMAIN WithBlock(block) = DOMAIN cg.blocks \cup {cg.pc}
      /\ WithBlock(block)[cg.pc] = block
      /\ \A p \in DOMAIN cg.blocks : WithBlock(block)[p] = cg.blocks[p]
  BY CompilingFacts, WithBlockTrace
<1>7. TypeOK'
  <2>1. /\ cg'.entry \in Word /\ cg'.pc \in Word /\ cg'.count \in Nat /\ cg'.last \in Word
        /\ IsTrace(cg'.blocks)
    BY <1>1, <1>5, <1>6 DEF TypeOK
  <2> QED
    BY <1>1, <1>2, <1>3, <2>1 DEF TypeOK
<1>8. CacheTracked'
  <2>1. \A t : Tracked(t) => Tracked(t)'
    BY <1>2, CacheKept
  <2>2. Tracked(cg.blocks)'
    <3>1. \A p \in DOMAIN cg.blocks : BytesRead(cg.blocks[p], p) \subseteq code_bytes'
                                      /\ Current(cg.blocks[p], p, vm'.memory)
      BY <1>2, CompilingFacts DEF FaithfulTo
    <3>2. \A p \in DOMAIN cg'.blocks : BytesRead(cg'.blocks[p], p) \subseteq code_bytes'
                                      /\ Current(cg'.blocks[p], p, vm'.memory)
      BY <1>2, <1>5, <1>6, <3>1
    <3> QED
      BY <3>2 DEF Tracked
  <2> QED
    BY <1>1, <1>2, <1>3, <2>1, <2>2 DEF CacheTracked, Tracked
<1>9. TracesClosed'
  <2>1. \A p \in DOMAIN cg'.blocks : Linked(cg'.blocks[p], p, DOMAIN cg'.blocks \cup {cg'.pc})
    <3>1. /\ DOMAIN cg'.blocks = DOMAIN cg.blocks \cup {cg.pc}
          /\ \A p \in DOMAIN cg.blocks : cg'.blocks[p] = cg.blocks[p]
          /\ cg'.blocks[cg.pc] = block
          /\ cg'.pc = next
      BY <1>5, <1>6
    <3>2. SUFFICES ASSUME NEW p \in DOMAIN cg'.blocks
                   PROVE  Linked(cg'.blocks[p], p, DOMAIN cg'.blocks \cup {cg'.pc})
      OBVIOUS
    <3>3. CASE p \in DOMAIN cg.blocks
      <4>1. Linked(cg'.blocks[p], p, DOMAIN cg.blocks \cup {cg.pc})
        <5>1. ClosedOver(cg.blocks, DOMAIN cg.blocks \cup {cg.pc})
          BY CompilingFacts
        <5>2. Linked(cg.blocks[p], p, DOMAIN cg.blocks \cup {cg.pc})
          BY <3>3, <5>1, ClosedAt
        <5> QED
          BY <3>1, <3>3, <5>2
      <4>2. DOMAIN cg.blocks \cup {cg.pc} \subseteq DOMAIN cg'.blocks \cup {cg'.pc}
        BY <3>1
      <4> QED
        BY <4>1, <4>2, LinkedInMore
    <3>4. CASE p = cg.pc
      <4>1. Linked(cg'.blocks[p], p, DOMAIN cg.blocks \cup {cg.pc, next})
        BY <1>4, <3>1, <3>4
      <4>2. DOMAIN cg.blocks \cup {cg.pc, next} \subseteq DOMAIN cg'.blocks \cup {cg'.pc}
        BY <3>1
      <4> QED
        BY <4>1, <4>2, LinkedInMore
    <3> QED
      BY <3>1, <3>2, <3>3, <3>4
  <2>2. cg'.entry \in DOMAIN cg'.blocks \cup {cg'.pc}
    BY <1>5, <1>6, CompilingFacts
  <2>3. cg'.last \in DOMAIN cg'.blocks /\ cg'.blocks[cg'.last].exit = "open"
    BY <1>5, <1>6
  <2> QED
    BY <1>1, <1>2, <1>3, <2>1, <2>2, <2>3 DEF TracesClosed
<1>10. NativeInTrace'
  BY <1>2, <1>3 DEF NativeInTrace
<1> QED
  BY <1>7, <1>8, <1>9, <1>10 DEF IInv

----------------------------------------------------------------------------
\* Code generation preserves the invariant.

LEMMA MarkCodeGrows ==
  ASSUME code_bytes \subseteq Address, NEW a \in Nat, NEW n \in Nat, MarkCode(a, n)
  PROVE  /\ code_bytes \subseteq code_bytes'
         /\ code_bytes' \subseteq Address
         /\ Span(a, n) \subseteq code_bytes'
  BY SpanInAddress DEF MarkCode

LEMMA StartCodegenStep == IInv /\ StartCodegen => IInv'
<1> SUFFICES ASSUME IInv, StartCodegen PROVE IInv'
  OBVIOUS
<1>1. TypeOK /\ CacheTracked /\ TracesClosed
  BY DEF IInv
<1>2. /\ phase = "dispatch" /\ phase' = "codegen"
      /\ vm' = vm /\ bench_next_safepoint' = bench_next_safepoint
      /\ program_over' = program_over /\ smc_pending' = smc_pending
      /\ code_bytes' = code_bytes /\ trace_cache' = trace_cache
      /\ native' = native /\ unchecked' = unchecked /\ stretch' = stretch
  BY DEF StartCodegen, host
<1>3. cg' = [entry |-> vm.pc, pc |-> vm.pc, count |-> 0, last |-> vm.pc, blocks |-> NoBlocks]
  BY DEF StartCodegen
<1>4. IsTrace(NoBlocks) /\ DOMAIN NoBlocks = {}
  BY DEF IsTrace, NoBlocks
<1>5. vm.pc \in Word
  BY <1>1, MachineFields DEF TypeOK
<1>6. TypeOK'
  BY <1>1, <1>2, <1>3, <1>4, <1>5 DEF TypeOK, Phases
<1>7. CacheTracked'
  <2>1. smc_pending = FALSE
    BY <1>1, <1>2 DEF CacheTracked, TypeOK
  <2>2. \A t : Tracked(t) => Tracked(t)'
    BY <1>2, CacheKept
  <2>3. Tracked(cg.blocks)'
    BY <1>3, <1>4 DEF Tracked
  <2> QED
    BY <1>1, <1>2, <2>1, <2>2, <2>3 DEF CacheTracked, Tracked
<1>8. TracesClosed'
  BY <1>1, <1>2, <1>3, <1>4 DEF TracesClosed
<1>9. NativeInTrace'
  BY <1>2 DEF NativeInTrace
<1> QED
  BY <1>6, <1>7, <1>8, <1>9 DEF IInv

LEMMA CloseFallThroughStep == IInv /\ CloseFallThrough => IInv'
<1> SUFFICES ASSUME IInv, CloseFallThrough PROVE IInv'
  OBVIOUS
<1> DEFINE old == cg.blocks
           closed == [cg.blocks EXCEPT ![cg.last].exit = "loop"]
<1>1. /\ Compiling /\ cg.pc \in DOMAIN old /\ MarkCode(cg.pc, 2) /\ Install(closed)
  BY DEF CloseFallThrough
<1>2. code_bytes \subseteq code_bytes' /\ code_bytes' \subseteq Address
  BY <1>1, CompilingFacts, MarkCodeGrows DEF IInv, TypeOK
<1>3. cg.last \in DOMAIN old /\ old[cg.last].exit = "open"
  BY <1>1 DEF IInv, TracesClosed, Compiling
<1>4. IsTrace(old) /\ FaithfulTo(old, vm.memory, code_bytes) /\ ClosedOver(old, DOMAIN old)
      /\ cg.entry \in DOMAIN old
  <2>1. DOMAIN old \cup {cg.pc} = DOMAIN old
    BY <1>1
  <2> QED
    BY <1>1, <2>1, CompilingFacts
<1>5. /\ DOMAIN closed = DOMAIN old
      /\ \A a \in DOMAIN old : a # cg.last => closed[a] = old[a]
      /\ closed[cg.last] = [old[cg.last] EXCEPT !.exit = "loop"]
  BY <1>3
<1>6. old[cg.last] \in Blocks
  BY <1>3, <1>4 DEF IsTrace
<1>7. PICK b \in Blocks : b = closed[cg.last]
      /\ b.op = old[cg.last].op /\ b.folded = old[cg.last].folded
      /\ b.folded_target = old[cg.last].folded_target
      /\ b.folded_loops = old[cg.last].folded_loops /\ b.exit = "loop"
  <2>1. ASSUME NEW c \in Blocks
        PROVE  /\ [c EXCEPT !.exit = "loop"] \in Blocks
               /\ [c EXCEPT !.exit = "loop"].op = c.op
               /\ [c EXCEPT !.exit = "loop"].folded = c.folded
               /\ [c EXCEPT !.exit = "loop"].folded_target = c.folded_target
               /\ [c EXCEPT !.exit = "loop"].folded_loops = c.folded_loops
               /\ [c EXCEPT !.exit = "loop"].exit = "loop"
    BY DEF Blocks
  <2> QED
    BY <1>5, <1>6, <2>1
<1>8. closed = [a \in DOMAIN closed |-> closed[a]]
  BY <1>4 DEF IsTrace
<1> HIDE DEF closed
<1>9. IsTrace(closed)
  BY <1>4, <1>5, <1>7, <1>8 DEF IsTrace
<1>10. FaithfulTo(closed, vm.memory, code_bytes')
  <2>1. BytesRead(b, cg.last) = BytesRead(old[cg.last], cg.last)
    BY <1>7 DEF BytesRead
  <2>2. Current(old[cg.last], cg.last, vm.memory) => Current(b, cg.last, vm.memory)
    BY <1>7 DEF Current
  <2> QED
    BY <1>2, <1>3, <1>4, <1>5, <1>7, <2>1, <2>2 DEF FaithfulTo
<1>11. ClosedOver(closed, DOMAIN closed)
  <2>1. Successor(b, cg.last) = Successor(old[cg.last], cg.last)
    BY <1>7 DEF Successor
  <2>2. Linked(b, cg.last, DOMAIN old)
    BY <1>3, <1>4, <1>7, <2>1 DEF ClosedOver, Linked
  <2> QED
    BY <1>3, <1>4, <1>5, <1>7, <2>2 DEF ClosedOver
<1> QED
  BY <1>1, <1>2, <1>4, <1>5, <1>9, <1>10, <1>11, InstallStep

\* What a folded skip has taken in.
LEMMA FoldedIn ==
  ASSUME NEW b \in Blocks, NEW a, NEW memory, Current(b, a, memory), Kind(b.op) \in SkipKinds, b.folded
  PROVE  /\ OpAt(memory, a + 2) \div 4096 = 1
         /\ b.folded_target = IMMEDIATE12(OpAt(memory, a + 2))
  BY DEF Current

LEMMA TwoBytesRead ==
  ASSUME NEW b, NEW a, Kind(b.op) \notin SkipKinds
  PROVE  /\ BytesRead(b, a) = Span(a, 2)
         /\ \A memory : b.op = OpAt(memory, a) => Current(b, a, memory)
  BY DEF BytesRead, Current

LEMMA CompileInlineStep == IInv /\ CompileInline => IInv'
<1> SUFFICES ASSUME IInv, CompileInline PROVE IInv'
  OBVIOUS
<1> DEFINE block == Emitted(NewOp, "open")
<1>1. /\ Compiling /\ cg.pc \notin DOMAIN cg.blocks
      /\ Kind(NewOp) \in InlineKinds \cup RunOnHelpers
      /\ MarkCode(cg.pc, 2) /\ Continue(block, cg.pc + 2)
  BY DEF CompileInline, CompilingNew
<1>2. /\ cg.pc \in Nat /\ NewOp \in Word /\ cg.count \in Nat
  BY <1>1, CompilingFacts DEF IInv, TypeOK
<1>3. /\ code_bytes \subseteq code_bytes' /\ code_bytes' \subseteq Address
      /\ Span(cg.pc, 2) \subseteq code_bytes'
  BY <1>1, <1>2, MarkCodeGrows DEF IInv, TypeOK
<1>4. /\ block \in Blocks /\ block.op = NewOp /\ block.exit = "open"
      /\ block.folded_loops = FALSE
  BY <1>2, EmittedBlock
<1>5. Kind(NewOp) \notin SkipKinds \cup EndingKinds \cup {"jump", "illegal"}
  BY <1>1 DEF InlineKinds, RunOnHelpers, ArithmeticKinds, TimerKinds, SkipKinds,
              EndingKinds, EndingHelpers
<1> HIDE DEF block
<1>6. PICK n \in Nat : n = cg.pc + 2
  BY <1>2
<1>7. Linked(block, cg.pc, DOMAIN cg.blocks \cup {cg.pc, n % 65536})
  BY <1>4, <1>5, <1>6 DEF Linked, Successor
<1>8. BytesRead(block, cg.pc) \subseteq code_bytes' /\ Current(block, cg.pc, vm.memory)
  BY <1>3, <1>4, <1>5, TwoBytesRead DEF NewOp
<1>9. Continue(block, n)
  BY <1>1, <1>6
<1> QED
  BY <1>1, <1>3, <1>4, <1>7, <1>8, <1>9, ContinueStep

\* The trace with one more block, one that ends it.
LEMMA LastBlockStep ==
  ASSUME IInv, Compiling, MarkCode(cg.pc, 2),
         NEW block \in Blocks, block.op = NewOp, Kind(NewOp) \notin SkipKinds,
         Linked(block, cg.pc, DOMAIN cg.blocks \cup {cg.pc}),
         cg.pc \notin DOMAIN cg.blocks,
         Install(WithBlock(block))
  PROVE  IInv'
<1> DEFINE blocks == WithBlock(block)
<1>1. /\ IsTrace(blocks)
      /\ DOMAIN blocks = DOMAIN cg.blocks \cup {cg.pc}
      /\ blocks[cg.pc] = block
      /\ \A a \in DOMAIN cg.blocks : blocks[a] = cg.blocks[a]
  BY CompilingFacts, WithBlockTrace
<1>2. /\ code_bytes \subseteq code_bytes' /\ code_bytes' \subseteq Address
      /\ Span(cg.pc, 2) \subseteq code_bytes'
  BY CompilingFacts, MarkCodeGrows DEF IInv, TypeOK
<1>3. BytesRead(block, cg.pc) \subseteq code_bytes' /\ Current(block, cg.pc, vm.memory)
  BY <1>2, TwoBytesRead DEF NewOp
<1> HIDE DEF blocks
<1>4. FaithfulTo(blocks, vm.memory, code_bytes')
  BY <1>1, <1>2, <1>3, CompilingFacts DEF FaithfulTo
<1>5. ClosedOver(blocks, DOMAIN blocks)
  BY <1>1, CompilingFacts DEF ClosedOver
<1>6. cg.entry \in DOMAIN blocks
  BY <1>1, CompilingFacts
<1>7. Install(blocks)
  BY DEF blocks
<1> QED
  BY <1>1, <1>2, <1>4, <1>5, <1>6, <1>7, InstallStep

LEMMA CompileEndingStep == IInv /\ CompileEnding => IInv'
<1> SUFFICES ASSUME IInv, CompileEnding PROVE IInv'
  OBVIOUS
<1> DEFINE block == Emitted(NewOp, "return")
<1>1. /\ Compiling /\ cg.pc \notin DOMAIN cg.blocks
      /\ Kind(NewOp) \in EndingKinds
      /\ MarkCode(cg.pc, 2) /\ Install(WithBlock(block))
  BY DEF CompileEnding, CompilingNew
<1>2. NewOp \in Word /\ cg.count \in Nat
  BY <1>1, CompilingFacts DEF IInv, TypeOK
<1>3. /\ block \in Blocks /\ block.op = NewOp /\ block.exit = "return"
      /\ block.folded_loops = FALSE
  BY <1>2, EmittedBlock
<1>4. Kind(NewOp) \notin SkipKinds \cup {"jump", "illegal"}
  BY <1>1 DEF SkipKinds, EndingKinds, EndingHelpers
<1> HIDE DEF block
<1>5. Linked(block, cg.pc, DOMAIN cg.blocks \cup {cg.pc})
  BY <1>1, <1>3, <1>4 DEF Linked
<1> QED
  BY <1>1, <1>3, <1>4, <1>5, LastBlockStep

LEMMA CompileJumpStep == IInv /\ CompileJump => IInv'
<1> SUFFICES ASSUME IInv, CompileJump PROVE IInv'
  OBVIOUS
<1> DEFINE target == IMMEDIATE12(NewOp)
           block(exit) == Emitted(NewOp, exit)
           all == DOMAIN cg.blocks \cup {cg.pc}
<1>1. /\ Compiling /\ cg.pc \notin DOMAIN cg.blocks
      /\ Kind(NewOp) = "jump"
      /\ MarkCode(cg.pc, 2)
      /\ \/ target \in all /\ Install(WithBlock(block("loop")))
         \/ Continue(block("open"), target)
         \/ Install(WithBlock(block("return")))
  BY DEF CompileJump, CompilingNew, HasBlock
<1>2. NewOp \in Word /\ cg.count \in Nat /\ cg.pc \in Nat
  BY <1>1, CompilingFacts DEF IInv, TypeOK
<1>3. \A exit \in {"open", "loop", "return"} :
        /\ block(exit) \in Blocks /\ block(exit).op = NewOp /\ block(exit).exit = exit
        /\ block(exit).folded_loops = FALSE
  BY <1>2, EmittedBlock
<1>4. Kind(NewOp) \notin SkipKinds \cup EndingKinds \cup {"illegal"}
  BY <1>1 DEF SkipKinds, EndingKinds, EndingHelpers
<1>5. PICK n \in Nat : n = target /\ n % 65536 = target
  <2>1. target \in Word
    BY <1>2, Immediate12Range, AddressInWord
  <2> HIDE DEF target
  <2> QED
    BY <2>1 DEF Word
<1> HIDE DEF block, target
<1>6. \A exit \in {"open", "loop", "return"} : Successor(block(exit), cg.pc) = target
  BY <1>1, <1>3 DEF Successor, target
<1>7. CASE target \in all /\ Install(WithBlock(block("loop")))
  <2>1. Linked(block("loop"), cg.pc, all)
    BY <1>3, <1>4, <1>6, <1>7 DEF Linked
  <2> QED
    BY <1>1, <1>3, <1>4, <1>7, <2>1, LastBlockStep
<1>8. CASE Continue(block("open"), target)
  <2>1. Linked(block("open"), cg.pc, DOMAIN cg.blocks \cup {cg.pc, n % 65536})
    BY <1>3, <1>4, <1>5, <1>6 DEF Linked
  <2>2. /\ code_bytes \subseteq code_bytes' /\ code_bytes' \subseteq Address
        /\ Span(cg.pc, 2) \subseteq code_bytes'
    BY <1>1, <1>2, MarkCodeGrows DEF IInv, TypeOK
  <2>3. /\ BytesRead(block("open"), cg.pc) \subseteq code_bytes'
        /\ Current(block("open"), cg.pc, vm.memory)
    BY <1>3, <1>4, <2>2, TwoBytesRead DEF NewOp
  <2>4. Continue(block("open"), n)
    BY <1>5, <1>8
  <2> QED
    BY <1>1, <1>3, <2>1, <2>2, <2>3, <2>4, ContinueStep
<1>9. CASE Install(WithBlock(block("return")))
  <2>1. Linked(block("return"), cg.pc, all)
    BY <1>1, <1>3, <1>4 DEF Linked
  <2> QED
    BY <1>1, <1>3, <1>4, <1>9, <2>1, LastBlockStep
<1> QED
  BY <1>1, <1>7, <1>8, <1>9

LEMMA CompileSkipStep == IInv /\ CompileSkip => IInv'
<1> SUFFICES ASSUME IInv, CompileSkip PROVE IInv'
  OBVIOUS
<1> DEFINE next   == OpAt(vm.memory, cg.pc + 2)
           folded == next \div 4096 = 1
           target == IMMEDIATE12(next)
           all    == DOMAIN cg.blocks \cup {cg.pc}
           block  == [Emitted(NewOp, "open") EXCEPT
                        !.folded = folded,
                        !.folded_target = IF folded THEN target ELSE 0,
                        !.folded_loops = folded /\ HasBlock(target)]
<1>1. /\ Compiling /\ cg.pc \notin DOMAIN cg.blocks
      /\ Kind(NewOp) \in SkipKinds
      /\ MarkCode(cg.pc, 4)
      /\ Continue(block, cg.pc + 4)
  BY DEF CompileSkip, CompilingNew
<1>2. NewOp \in Word /\ cg.count \in Nat /\ cg.pc \in Nat /\ vm \in Machines
  BY <1>1, CompilingFacts DEF IInv, TypeOK
<1>3. next \in Word
  <2>1. vm.memory \in [Address -> Byte]
    BY <1>2, MachineFields
  <2>2. PICK k \in Int : k = cg.pc + 2
    BY <1>2
  <2> QED
    BY <2>1, <2>2, OpInWord
<1>4. target \in Address /\ 0 \in Address
  BY <1>3, Immediate12Range, MemorySize DEF Address
<1>5. /\ block \in Blocks /\ block.op = NewOp /\ block.exit = "open"
      /\ (block.folded <=> folded)
      /\ block.folded => block.folded_target = target
      /\ block.folded_loops => block.folded_target = target /\ target \in all
  <2>1. folded \in BOOLEAN /\ (folded /\ HasBlock(target)) \in BOOLEAN
    BY DEF HasBlock
  <2>2. Emitted(NewOp, "open") \in Blocks /\ Emitted(NewOp, "open").op = NewOp
        /\ Emitted(NewOp, "open").exit = "open"
    BY <1>2, EmittedBlock
  <2> HIDE DEF folded, target
  <2> QED
    BY <1>4, <2>1, <2>2 DEF Blocks, HasBlock
<1>6. Kind(NewOp) \notin EndingKinds \cup {"illegal", "jump"}
  BY <1>1 DEF SkipKinds, EndingKinds, EndingHelpers
<1>7. /\ code_bytes \subseteq code_bytes' /\ code_bytes' \subseteq Address
      /\ Span(cg.pc, 4) \subseteq code_bytes'
  BY <1>1, <1>2, MarkCodeGrows DEF IInv, TypeOK
<1>8. BytesRead(block, cg.pc) \subseteq code_bytes' /\ Current(block, cg.pc, vm.memory)
  <2> HIDE DEF block
  <2> QED
    BY <1>1, <1>5, <1>7 DEF BytesRead, Current, NewOp
<1>9. PICK n \in Nat : n = cg.pc + 4
  BY <1>2
<1> HIDE DEF block
<1>10. Linked(block, cg.pc, DOMAIN cg.blocks \cup {cg.pc, n % 65536})
  BY <1>1, <1>5, <1>6, <1>9 DEF Linked, Successor
<1>11. Continue(block, n)
  BY <1>1, <1>9
<1> QED
  BY <1>1, <1>5, <1>7, <1>8, <1>10, <1>11, ContinueStep

\* Steps after which nothing runs any more.
LEMMA GivingUpStep ==
  ASSUME IInv, phase = "codegen", phase' \in {"failed", "undefined"},
         code_bytes \subseteq code_bytes', code_bytes' \subseteq Address,
         UNCHANGED <<host, smc_pending, trace_cache, cg, native, unchecked, stretch>>
  PROVE  IInv'
<1>1. TypeOK /\ CacheTracked /\ TracesClosed
  BY DEF IInv
<1>2. TypeOK'
  BY <1>1 DEF TypeOK, Phases, host
<1>3. CacheTracked'
  <2>1. \A t : Tracked(t) => Tracked(t)'
    BY CacheKept DEF host
  <2>2. smc_pending = FALSE
    BY <1>1 DEF CacheTracked, TypeOK
  <2> QED
    BY <1>1, <2>1, <2>2 DEF CacheTracked, Tracked
<1>4. TracesClosed'
  BY <1>1 DEF TracesClosed
<1>5. NativeInTrace'
  BY DEF NativeInTrace
<1> QED
  BY <1>2, <1>3, <1>4, <1>5 DEF IInv

LEMMA CompileIllegalStep == IInv /\ CompileIllegal => IInv'
<1> SUFFICES ASSUME IInv, CompileIllegal PROVE IInv'
  OBVIOUS
<1>1. Compiling /\ MarkCode(cg.pc, 2) /\ phase' = "failed" /\ UNCHANGED <<cg, trace_cache>>
  BY DEF CompileIllegal, CompilingNew
<1>2. code_bytes \subseteq code_bytes' /\ code_bytes' \subseteq Address
  BY <1>1, CompilingFacts, MarkCodeGrows DEF IInv, TypeOK
<1> QED
  BY <1>1, <1>2, CompilingFacts, GivingUpStep DEF CodegenVars

LEMMA CompileBeyondMemoryStep == IInv /\ CompileBeyondMemory => IInv'
<1> SUFFICES ASSUME IInv, CompileBeyondMemory PROVE IInv'
  OBVIOUS
<1>1. code_bytes \subseteq Address
  BY DEF IInv, TypeOK
<1> QED
  BY <1>1, GivingUpStep DEF CompileBeyondMemory, CodegenVars

----------------------------------------------------------------------------
\* Running a trace preserves the invariant.

LEMMA EnterTraceStep == IInv /\ EnterTrace => IInv'
<1> SUFFICES ASSUME IInv, EnterTrace PROVE IInv'
  OBVIOUS
<1>1. TypeOK /\ CacheTracked /\ TracesClosed
  BY DEF IInv
<1>2. /\ phase = "dispatch" /\ phase' = "native" /\ vm.pc \in DOMAIN trace_cache
      /\ vm' = vm /\ bench_next_safepoint' = bench_next_safepoint
      /\ program_over' = program_over /\ smc_pending' = smc_pending
      /\ code_bytes' = code_bytes /\ trace_cache' = trace_cache
      /\ cg' = cg /\ unchecked' = unchecked /\ stretch' = stretch
      /\ native' = [trace |-> vm.pc, pc |-> vm.pc, folded |-> FALSE]
  BY DEF EnterTrace, host
<1>3. smc_pending = FALSE
  BY <1>1, <1>2 DEF CacheTracked, TypeOK
<1>4. vm.pc \in Word
  BY <1>1, MachineFields DEF TypeOK
<1>5. TypeOK'
  BY <1>1, <1>2, <1>4 DEF TypeOK, Phases
<1>6. CacheTracked'
  <2>1. \A t : Tracked(t) => Tracked(t)'
    BY <1>2, CacheKept
  <2> QED
    BY <1>1, <1>2, <1>3, <2>1 DEF CacheTracked, Tracked
<1>7. TracesClosed'
  BY <1>1, <1>2 DEF TracesClosed
<1>8. NativeInTrace'
  BY <1>1, <1>2 DEF NativeInTrace, TracesClosed
<1> QED
  BY <1>5, <1>6, <1>7, <1>8 DEF IInv

\* Where native code stands.
LEMMA RunningFacts ==
  ASSUME IInv, phase = "native"
  PROVE  /\ native.trace \in DOMAIN trace_cache
         /\ native.pc \in DOMAIN trace_cache[native.trace]
         /\ native.pc \in Address
         /\ native.pc \in Word
         /\ native \in [trace: Word, pc: Word, folded: BOOLEAN]
         /\ Block \in Blocks
         /\ Block.op \in Word
         /\ Current(Block, native.pc, vm.memory)
         /\ Linked(Block, native.pc, DOMAIN trace_cache[native.trace])
         /\ RunningOp = Block.op
         /\ smc_pending = FALSE
         /\ vm \in Machines
         /\ DOMAIN cg.blocks = {}
<1>1. TypeOK /\ CacheTracked /\ TracesClosed /\ NativeInTrace
  BY DEF IInv
<1>2. native.trace \in DOMAIN trace_cache /\ native.pc \in DOMAIN trace_cache[native.trace]
  BY <1>1 DEF NativeInTrace
<1>3. native.pc \in Address /\ Block \in Blocks
  BY <1>1, <1>2 DEF TypeOK, IsTrace, Block
<1>4. smc_pending = FALSE
  BY <1>1 DEF CacheTracked, TypeOK
<1>5. Current(Block, native.pc, vm.memory)
  BY <1>1, <1>2, <1>4 DEF CacheTracked, Tracked, Block
<1>6. Linked(Block, native.pc, DOMAIN trace_cache[native.trace])
  BY <1>1, <1>2 DEF TracesClosed, Block
<1>7. Block.op \in Word
  BY <1>3 DEF Blocks
<1>8. RunningOp = Block.op
  BY <1>5 DEF RunningOp, Current
<1>9. vm \in Machines /\ native \in [trace: Word, pc: Word, folded: BOOLEAN]
  BY <1>1 DEF TypeOK
<1>10. DOMAIN cg.blocks = {}
  BY <1>1 DEF TracesClosed
<1>11. native.pc \in Word
  BY <1>3, AddressInWord
<1> QED
  BY <1>2, <1>3, <1>4, <1>5, <1>6, <1>7, <1>8, <1>9, <1>10, <1>11

LEMMA HostType ==
  ASSUME TypeOK
  PROVE  /\ Host \in Hosts /\ Host.vm = vm /\ Host.next = bench_next_safepoint
         /\ Host.over = program_over
  BY DEF TypeOK, Host, Hosts

LEMMA RetiredHost ==
  ASSUME NEW h \in Hosts
  PROVE  /\ [h EXCEPT !.vm = Retire(@)] \in Hosts
         /\ SameProgram(h.vm, [h EXCEPT !.vm = Retire(@)].vm)
<1>1. h.vm \in Machines
  BY DEF Hosts
<1>2. Retire(h.vm) \in Machines /\ SameProgram(h.vm, Retire(h.vm))
  BY <1>1, RetireType, RetireSame
<1>3. [h EXCEPT !.vm = Retire(@)] \in Hosts /\ [h EXCEPT !.vm = Retire(@)].vm = Retire(h.vm)
  BY <1>2 DEF Hosts
<1> QED
  BY <1>2, <1>3

LEMMA ArrivedSame ==
  ASSUME TypeOK
  PROVE  Arrived \in Hosts /\ SameProgram(vm, Arrived.vm)
<1> DEFINE h == IF Block.safepoint THEN Safepoint(Host) ELSE Host
<1>1. Host \in Hosts /\ Host.vm = vm
  BY HostType
<1>2. SameProgram(vm, vm)
  BY DEF TypeOK, SameProgram
<1>3. h \in Hosts /\ SameProgram(vm, h.vm)
  BY <1>1, <1>2, SafepointSame
<1>4. Arrived = [h EXCEPT !.vm = Retire(@)]
  BY DEF Arrived
<1> HIDE DEF h
<1>5. [h EXCEPT !.vm = Retire(@)] \in Hosts /\ SameProgram(h.vm, [h EXCEPT !.vm = Retire(@)].vm)
  BY <1>3, RetiredHost
<1> QED
  BY <1>3, <1>4, <1>5, SameProgramTransitive

LEMMA PreparedSame ==
  ASSUME NEW h \in Hosts, NEW op
  PROVE  Prepared(op, h) \in Hosts /\ SameProgram(h.vm, Prepared(op, h).vm)
<1>1. h.vm \in Machines
  BY DEF Hosts
<1>2. SyncTimers(h.vm) \in Machines /\ SameProgram(h.vm, SyncTimers(h.vm))
  BY <1>1, SyncTimersType, SyncTimersSame
<1>3. [h EXCEPT !.vm = SyncTimers(@)] \in Hosts
      /\ [h EXCEPT !.vm = SyncTimers(@)].vm = SyncTimers(h.vm)
  BY <1>2 DEF Hosts
<1>4. CheckInterrupt(h) \in Hosts /\ SameProgram(h.vm, CheckInterrupt(h).vm)
  BY CheckInterruptSame
<1>5. SameProgram(h.vm, h.vm)
  BY <1>1 DEF SameProgram
<1> QED
  BY <1>2, <1>3, <1>4, <1>5 DEF Prepared

LEMMA CurrentKept ==
  ASSUME NEW b \in Blocks, NEW a \in Address, NEW old, NEW new,
         \A p \in BytesRead(b, a) : new[p] = old[p],
         Current(b, a, old)
  PROVE  Current(b, a, new)
<1>1. a \in Nat /\ a + 0 = a
  BY DEF Address
<1>2. \A n \in Nat : \A i \in 0 .. n - 1 : Wrap(a + i) \in Span(a, n)
  BY DEF Span
<1>3. Wrap(a) \in Span(a, 2) /\ Wrap(a + 1) \in Span(a, 2)
  BY <1>1, <1>2
<1>4. /\ Wrap(a) \in Span(a, 4) /\ Wrap(a + 1) \in Span(a, 4)
      /\ Wrap(a + 2) \in Span(a, 4) /\ Wrap(a + 3) \in Span(a, 4)
  BY <1>1, <1>2
<1>5. a + 2 + 1 = a + 3
  BY <1>1
<1>6. OpAt(new, a) = OpAt(old, a)
  BY <1>3, <1>4 DEF OpAt, BytesRead
<1>7. Kind(b.op) \in SkipKinds => OpAt(new, a + 2) = OpAt(old, a + 2)
  BY <1>4, <1>5 DEF OpAt, BytesRead
<1> QED
  BY <1>6, <1>7 DEF Current

\* What a step inside a trace has to show.
LEMMA NativeStep ==
  ASSUME IInv, phase = "native",
         vm' \in Machines, bench_next_safepoint' \in Nat, program_over' \in BOOLEAN,
         unchecked' \in Nat, stretch' \in Nat, smc_pending' \in BOOLEAN,
         UNCHANGED <<code_bytes, trace_cache, cg>>,
         phase' \in {"native", "service", "errer"},
         native' \in [trace: Word, pc: Word, folded: BOOLEAN],
         smc_pending' => phase' = "service",
         ~smc_pending' => \A p \in code_bytes : vm'.memory[p] = vm.memory[p],
         phase' = "native" =>
           /\ native'.trace = native.trace
           /\ native'.pc \in DOMAIN trace_cache[native.trace]
           /\ native'.folded => trace_cache[native.trace][native'.pc].folded
  PROVE  IInv'
<1>1. TypeOK /\ CacheTracked /\ TracesClosed /\ NativeInTrace
  BY DEF IInv
<1>2. code_bytes' = code_bytes /\ trace_cache' = trace_cache /\ cg' = cg
  OBVIOUS
<1>3. smc_pending = FALSE /\ DOMAIN cg.blocks = {} /\ native.trace \in DOMAIN trace_cache
  BY RunningFacts
<1>4. TypeOK'
  BY <1>1, <1>2 DEF TypeOK, Phases
<1>5. CacheTracked'
  <2>1. ASSUME NEW e \in DOMAIN trace_cache, NEW a \in DOMAIN trace_cache[e]
        PROVE  /\ BytesRead(trace_cache[e][a], a) \subseteq code_bytes
               /\ smc_pending' \/ Current(trace_cache[e][a], a, vm'.memory)
    <3>1. /\ BytesRead(trace_cache[e][a], a) \subseteq code_bytes
          /\ Current(trace_cache[e][a], a, vm.memory)
      BY <1>1, <1>3 DEF CacheTracked, Tracked
    <3>2. trace_cache[e][a] \in Blocks /\ a \in Address
      BY <1>1 DEF TypeOK, IsTrace
    <3>3. CASE ~smc_pending'
      BY <3>1, <3>2, <3>3, CurrentKept
    <3> QED
      BY <3>1, <3>3
  <2> QED
    BY <1>2, <1>3, <2>1 DEF CacheTracked, Tracked
<1>6. TracesClosed'
  BY <1>1, <1>2, <1>3 DEF TracesClosed
<1>7. NativeInTrace'
  BY <1>2, <1>3 DEF NativeInTrace, Block
<1> QED
  BY <1>4, <1>5, <1>6, <1>7 DEF IInv

\* A store that note_store does not report leaves compiled bytes alone.
LEMMA StoresNoted ==
  ASSUME NEW m \in Machines, NEW op \in Word, NEW random, ~Faults(op, m),
         code_bytes \subseteq Address, ~NotesStore(op, m)
  PROVE  \A p \in code_bytes : Execute(op, m, random).memory[p] = m.memory[p]
<1>1. CASE Kind(op) = "store_bcd"
  <2>1. \A a \in Address \ StoreRange(m, 3) : Execute(op, m, random).memory[a] = m.memory[a]
    BY <1>1, StoreBcdResult
  <2>2. StoreRange(m, 3) \cap code_bytes = {}
    BY <1>1 DEF NotesStore, StoreRange, Span
  <2> QED
    BY <2>1, <2>2
<1>2. CASE Kind(op) = "save_registers"
  <2>1. \A a \in Address \ StoreRange(m, X(op) + 1) :
          Execute(op, m, random).memory[a] = m.memory[a]
    BY <1>2, SaveRegistersResult
  <2>2. StoreRange(m, X(op) + 1) \cap code_bytes = {}
    BY <1>2 DEF NotesStore, StoreRange, Span
  <2> QED
    BY <2>1, <2>2
<1>3. CASE Kind(op) \notin {"store_bcd", "save_registers"}
  BY <1>3, ExecuteKeepsMemory
<1> QED
  BY <1>1, <1>2, <1>3

\* What does not end a trace leads to its Successor.
LEMMA LeadsToSuccessor ==
  ASSUME NEW m \in Machines, NEW b, b.op \in Word, NEW random,
         Kind(b.op) \notin EndingKinds \cup {"illegal"},
         Kind(b.op) \in SkipKinds => SkipTaken(b.op, m)
  PROVE  Execute(b.op, m, random).pc = Successor(b, m.pc)
<1>1. Kind(b.op) \in SteppingKinds \cup SkipKinds \cup {"jump"}
  BY KindRange DEF AllKinds, SteppingKinds, SkipKinds, EndingKinds, EndingHelpers
<1>2. CASE Kind(b.op) \in SteppingKinds
  <2>1. Kind(b.op) \notin SkipKinds \cup {"jump"}
    BY <1>2 DEF SteppingKinds, SkipKinds, ArithmeticKinds, TimerKinds
  <2> QED
    BY <1>2, <2>1, SteppingResult DEF Successor
<1>3. CASE Kind(b.op) \in SkipKinds
  <2>1. Kind(b.op) # "jump"
    BY <1>3 DEF SkipKinds
  <2> QED
    BY <1>3, <2>1, SkipResult DEF Successor
<1>4. CASE Kind(b.op) = "jump"
  BY <1>4, JumpResult DEF Successor
<1> QED
  BY <1>1, <1>2, <1>3, <1>4

LEMMA HostAt ==
  ASSUME NEW h \in Hosts, NEW a \in Word
  PROVE  [h EXCEPT !.vm.pc = a] \in Hosts /\ [h EXCEPT !.vm.pc = a].vm.memory = h.vm.memory
         /\ [h EXCEPT !.vm.pc = a].over = h.over
<1>1. h.vm \in Machines
  BY DEF Hosts
<1>2. [h.vm EXCEPT !.pc = a] \in Machines /\ [h.vm EXCEPT !.pc = a].memory = h.vm.memory
  BY <1>1, MachineAt
<1>3. [h EXCEPT !.vm.pc = a] = [h EXCEPT !.vm = [h.vm EXCEPT !.pc = a]]
  BY DEF Hosts
<1>4. ASSUME NEW m \in Machines
      PROVE  [h EXCEPT !.vm = m] \in Hosts /\ [h EXCEPT !.vm = m].vm = m
             /\ [h EXCEPT !.vm = m].over = h.over
  BY DEF Hosts
<1> QED
  BY <1>2, <1>3, <1>4

LEMMA BecomesType ==
  ASSUME NEW h \in Hosts, Becomes(h)
  PROVE  /\ vm' \in Machines /\ vm'.memory = h.vm.memory
         /\ bench_next_safepoint' \in Nat /\ program_over' \in BOOLEAN
  BY DEF Hosts, Becomes

LEMMA LeaveBlockResult ==
  ASSUME NEW h \in Hosts, NEW a \in Word, NEW count \in Nat, Block \in Blocks,
         phase = "native", LeaveBlock(h, a, count)
  PROVE  /\ vm' \in Machines /\ vm'.memory = h.vm.memory
         /\ bench_next_safepoint' \in Nat /\ program_over' \in BOOLEAN
         /\ unchecked' \in Nat
         /\ Block.exit = "return" => phase' = "service"
         /\ \/ phase' = "service" /\ native' = native
            \/ /\ phase' = "native" /\ Block.exit # "return"
               /\ native' = [native EXCEPT !.pc = a]
<1> DEFINE closed == [Safepoint(h) EXCEPT !.vm.pc = a]
           left == IF Kind(Block.op) = "jump" THEN closed ELSE h
<1>1. /\ closed \in Hosts /\ closed.vm.memory = h.vm.memory
      /\ left \in Hosts /\ left.vm.memory = h.vm.memory
  <2>1. Safepoint(h) \in Hosts /\ Safepoint(h).vm.memory = h.vm.memory
    BY SafepointSame DEF SameProgram
  <2>2. closed \in Hosts /\ closed.vm.memory = h.vm.memory
    BY <2>1, HostAt
  <2> HIDE DEF closed
  <2> QED
    BY <2>2
<1>2. Block.exit \in {"open", "loop", "return"}
  BY DEF Blocks
<1>3. CASE Block.exit = "return"
  <2>1. /\ Becomes(left) /\ phase' = "service" /\ native' = native
        /\ unchecked' \in {0, count}
    BY <1>3 DEF LeaveBlock
  <2> HIDE DEF left
  <2> QED
    BY <1>1, <1>3, <2>1, BecomesType
<1>4. CASE Block.exit = "open"
  <2>1. /\ Becomes(left) /\ phase' = phase /\ native' = [native EXCEPT !.pc = a]
        /\ unchecked' \in {0, count}
    BY <1>4 DEF LeaveBlock
  <2> HIDE DEF left
  <2> QED
    BY <1>1, <1>4, <2>1, BecomesType
<1>5. CASE Block.exit = "loop"
  <2>1. /\ Becomes(closed) /\ unchecked' = 0
        /\ \/ phase' = "service" /\ native' = native
           \/ native' = [native EXCEPT !.pc = a] /\ phase' = phase
    BY <1>5 DEF LeaveBlock
  <2> HIDE DEF closed
  <2> QED
    BY <1>1, <1>5, <2>1, BecomesType
<1> QED
  BY <1>2, <1>3, <1>4, <1>5

LEMMA CountedInNat == TypeOK => Counted \in Nat
  BY DEF TypeOK, Counted

\* The machine the running block's instruction is executed on, and the host
\* once it is.
ExecutedOn == [Prepared(Block.op, Arrived).vm EXCEPT !.pc = native.pc]
LeftBy(after) ==
  [Prepared(Block.op, Arrived) EXCEPT !.vm = [after EXCEPT !.pc = StoredPc(Block.op, after)],
                                      !.over = @ \/ GivesUp(Block.op, after)]

LEMMA RunBlockFacts ==
  ASSUME IInv, RunBlock
  PROVE  /\ phase = "native" /\ UNCHANGED <<code_bytes, trace_cache, cg>> /\ ~native.folded
         /\ ExecutedOn \in Machines /\ ExecutedOn.memory = vm.memory /\ ExecutedOn.pc = native.pc
         /\ ~Faults(Block.op, ExecutedOn)
         /\ smc_pending' \in BOOLEAN /\ (smc_pending' <=> NotesStore(Block.op, ExecutedOn))
         /\ \E random \in RandomBytes : \E after \in Machines :
              /\ after = Execute(Block.op, ExecutedOn, random)
              /\ after.pc \in Word
              /\ LeftBy(after) \in Hosts
              /\ LeftBy(after).vm = [after EXCEPT !.pc = StoredPc(Block.op, after)]
              /\ LeftBy(after).next = Prepared(Block.op, Arrived).next
              /\ LeftBy(after).over = (Prepared(Block.op, Arrived).over \/ GivesUp(Block.op, after))
              /\ LeaveBlock(LeftBy(after), after.pc, Counted)
              /\ Block.exit # "return" =>
                   /\ after.pc = Successor(Block, native.pc)
                   /\ after.pc \in DOMAIN trace_cache[native.trace]
<1> DEFINE op     == Block.op
           before == Prepared(op, Arrived)
           m      == ExecutedOn
<1>1. phase = "native" /\ UNCHANGED <<code_bytes, trace_cache, cg>> /\ TypeOK
  BY DEF RunBlock, Running, IInv
<1>2. /\ RunningOp = op /\ op \in Word /\ Block \in Blocks /\ native.pc \in Word
      /\ smc_pending = FALSE /\ vm \in Machines
      /\ native \in [trace: Word, pc: Word, folded: BOOLEAN]
  BY <1>1, RunningFacts
<1>3. /\ ~native.folded
      /\ ~Faults(op, m)
      /\ Kind(op) \in SkipKinds => SkipTaken(op, m)
      /\ smc_pending' = (smc_pending \/ NotesStore(op, m))
  BY <1>2 DEF RunBlock, ExecutedOn
<1>4. PICK random \in RandomBytes :
        LeaveBlock(LeftBy(Execute(op, m, random)), Execute(op, m, random).pc, Counted)
  BY <1>2 DEF RunBlock, ExecutedOn, LeftBy
<1> DEFINE after == Execute(op, m, random)
           h == LeftBy(after)
<1>5. before \in Hosts /\ SameProgram(vm, before.vm)
  BY <1>1, ArrivedSame, PreparedSame, SameProgramTransitive
<1>6. before.vm \in Machines /\ before.vm.memory = vm.memory
  BY <1>5 DEF SameProgram
<1>7. m \in Machines /\ m.memory = vm.memory /\ m.pc = native.pc
  BY <1>2, <1>6, MachineAt DEF ExecutedOn
<1> HIDE DEF m
<1>8. after \in Machines /\ after.pc \in Word
  BY <1>2, <1>3, <1>7, ExecuteType, MachineFields
<1>9. StoredPc(op, after) \in Word
  BY <1>2, <1>8, MachineFields DEF StoredPc
<1>10. LeaveBlock(h, after.pc, Counted)
  BY <1>4
<1> HIDE DEF after, before
<1>11. /\ h \in Hosts /\ h.vm = [after EXCEPT !.pc = StoredPc(op, after)]
       /\ h.next = before.next /\ h.over = (before.over \/ GivesUp(op, after))
  <2>1. [after EXCEPT !.pc = StoredPc(op, after)] \in Machines
    BY <1>8, <1>9, MachineAt
  <2>2. (before.over \/ GivesUp(op, after)) \in BOOLEAN
    BY DEF GivesUp
  <2>3. h = [before EXCEPT !.vm = [after EXCEPT !.pc = StoredPc(op, after)],
                           !.over = @ \/ GivesUp(op, after)]
    BY DEF LeftBy, before
  <2> QED
    BY <1>5, <2>1, <2>2, <2>3 DEF Hosts
<1>12. smc_pending' \in BOOLEAN /\ (smc_pending' <=> NotesStore(op, m))
  BY <1>2, <1>3
<1>13. Block.exit # "return" =>
         /\ after.pc = Successor(Block, native.pc)
         /\ after.pc \in DOMAIN trace_cache[native.trace]
  <2> SUFFICES ASSUME Block.exit # "return"
               PROVE  /\ after.pc = Successor(Block, native.pc)
                      /\ after.pc \in DOMAIN trace_cache[native.trace]
    OBVIOUS
  <2>1. Linked(Block, native.pc, DOMAIN trace_cache[native.trace])
    BY <1>1, RunningFacts
  <2>2. Kind(op) \notin EndingKinds \cup {"illegal"}
    BY <2>1 DEF Linked
  <2>3. after.pc = Successor(Block, native.pc)
    BY <1>2, <1>3, <1>7, <2>2, LeadsToSuccessor DEF after
  <2> QED
    BY <2>1, <2>3 DEF Linked
<1>14. /\ LeaveBlock(LeftBy(after), after.pc, Counted) /\ LeftBy(after) \in Hosts
       /\ LeftBy(after).vm = [after EXCEPT !.pc = StoredPc(op, after)]
       /\ LeftBy(after).next = before.next
       /\ LeftBy(after).over = (before.over \/ GivesUp(op, after))
  BY <1>10, <1>11
<1>15. after = Execute(op, m, random)
  BY DEF after
<1> QED
  BY <1>1, <1>3, <1>7, <1>8, <1>12, <1>13, <1>14, <1>15 DEF m, before

LEMMA RunBlockStep == IInv /\ RunBlock => IInv'
<1> SUFFICES ASSUME IInv, RunBlock PROVE IInv'
  OBVIOUS
<1> DEFINE op == Block.op
<1>1. /\ phase = "native" /\ UNCHANGED <<code_bytes, trace_cache, cg>> /\ ~native.folded /\ TypeOK
      /\ ExecutedOn \in Machines /\ ExecutedOn.memory = vm.memory /\ ~Faults(op, ExecutedOn)
      /\ smc_pending' \in BOOLEAN /\ (smc_pending' <=> NotesStore(op, ExecutedOn))
  BY RunBlockFacts DEF IInv
<1>2. /\ op \in Word /\ Block \in Blocks /\ native \in [trace: Word, pc: Word, folded: BOOLEAN]
  BY <1>1, RunningFacts
<1>3. PICK random \in RandomBytes, after \in Machines :
        /\ after = Execute(op, ExecutedOn, random) /\ after.pc \in Word
        /\ LeftBy(after) \in Hosts /\ LeftBy(after).vm = [after EXCEPT !.pc = StoredPc(op, after)]
        /\ LeaveBlock(LeftBy(after), after.pc, Counted)
        /\ Block.exit # "return" => after.pc \in DOMAIN trace_cache[native.trace]
  BY RunBlockFacts
<1>4. LeftBy(after).vm.memory = after.memory
  BY <1>3 DEF Machines
<1>5. /\ vm' \in Machines /\ vm'.memory = after.memory
      /\ bench_next_safepoint' \in Nat /\ program_over' \in BOOLEAN
      /\ unchecked' \in Nat
      /\ Block.exit = "return" => phase' = "service"
      /\ \/ phase' = "service" /\ native' = native
         \/ /\ phase' = "native" /\ Block.exit # "return"
            /\ native' = [native EXCEPT !.pc = after.pc]
  BY <1>1, <1>2, <1>3, <1>4, CountedInNat, LeaveBlockResult
<1>10. stretch' \in Nat
  BY <1>1, CountedInNat DEF RunBlock
<1>6. smc_pending' => phase' = "service"
  <2> SUFFICES ASSUME smc_pending' PROVE phase' = "service"
    OBVIOUS
  <2>1. Kind(op) \in EndingKinds
    BY <1>1 DEF NotesStore, EndingKinds, EndingHelpers
  <2>2. Block.exit = "return"
    BY <1>1, <2>1, RunningFacts DEF Linked
  <2> QED
    BY <1>5, <2>2
<1>7. ~smc_pending' => \A p \in code_bytes : vm'.memory[p] = vm.memory[p]
  <2>1. code_bytes \subseteq Address
    BY <1>1 DEF TypeOK
  <2> QED
    BY <1>1, <1>2, <1>3, <1>5, <2>1, StoresNoted
<1>8. phase' = "native" =>
        /\ native'.trace = native.trace
        /\ native'.pc \in DOMAIN trace_cache[native.trace]
        /\ ~native'.folded
  BY <1>1, <1>2, <1>3, <1>5
<1>9. native' \in [trace: Word, pc: Word, folded: BOOLEAN]
  BY <1>2, <1>3, <1>5
<1> QED
  BY <1>1, <1>5, <1>6, <1>7, <1>8, <1>9, <1>10, NativeStep

LEMMA RunSkipNotTakenStep == IInv /\ RunSkipNotTaken => IInv'
<1> SUFFICES ASSUME IInv, RunSkipNotTaken PROVE IInv'
  OBVIOUS
<1>1. phase = "native" /\ UNCHANGED <<code_bytes, trace_cache, cg>> /\ TypeOK
  BY DEF RunSkipNotTaken, Running, IInv
<1>2. /\ native.pc \in Word /\ native.pc \in DOMAIN trace_cache[native.trace]
      /\ smc_pending = FALSE /\ native \in [trace: Word, pc: Word, folded: BOOLEAN]
  BY <1>1, RunningFacts
<1>3. /\ smc_pending' = smc_pending /\ unchecked' = Counted /\ stretch' = Counted
      /\ IF Block.folded
         THEN /\ Becomes(Arrived)
              /\ native' = [native EXCEPT !.folded = TRUE]
              /\ phase' = phase
         ELSE /\ Becomes([Arrived EXCEPT !.vm.pc = (native.pc + 2) % 65536])
              /\ phase' = "service"
              /\ native' = native
  BY DEF RunSkipNotTaken
<1>4. Arrived \in Hosts /\ Arrived.vm.memory = vm.memory
  BY <1>1, ArrivedSame DEF SameProgram
<1>5. unchecked' \in Nat /\ stretch' \in Nat
  BY <1>1, <1>3, CountedInNat
<1>6. smc_pending' = FALSE
  BY <1>2, <1>3
<1>7. CASE Block.folded
  <2>1. /\ vm' \in Machines /\ vm'.memory = vm.memory
        /\ bench_next_safepoint' \in Nat /\ program_over' \in BOOLEAN
    BY <1>3, <1>4, <1>7, BecomesType
  <2>2. /\ native' = [native EXCEPT !.folded = TRUE] /\ phase' = "native"
    BY <1>1, <1>3, <1>7
  <2>3. native' \in [trace: Word, pc: Word, folded: BOOLEAN]
        /\ native'.trace = native.trace /\ native'.pc = native.pc
    BY <1>2, <2>2
  <2>4. trace_cache[native.trace][native'.pc].folded
    BY <1>7, <2>3 DEF Block
  <2> QED
    BY <1>1, <1>2, <1>5, <1>6, <2>1, <2>2, <2>3, <2>4, NativeStep
<1>8. CASE ~Block.folded
  <2>1. PICK a \in Word : a = (native.pc + 2) % 65536
    <3>1. PICK n \in Nat : n = native.pc + 2
      BY <1>2, WordPlus
    <3>2. n % 65536 \in Word
      BY WordModulo
    <3> QED
      BY <3>1, <3>2
  <2>2. Becomes([Arrived EXCEPT !.vm.pc = a]) /\ phase' = "service" /\ native' = native
    BY <1>3, <1>8, <2>1
  <2>3. /\ [Arrived EXCEPT !.vm.pc = a] \in Hosts
        /\ [Arrived EXCEPT !.vm.pc = a].vm.memory = vm.memory
    BY <1>4, HostAt
  <2>4. /\ vm' \in Machines /\ vm'.memory = vm.memory
        /\ bench_next_safepoint' \in Nat /\ program_over' \in BOOLEAN
    BY <2>2, <2>3, BecomesType
  <2> QED
    BY <1>1, <1>2, <1>5, <1>6, <2>2, <2>4, NativeStep
<1> QED
  BY <1>7, <1>8

LEMMA RunFoldedJumpStep == IInv /\ RunFoldedJump => IInv'
<1> SUFFICES ASSUME IInv, RunFoldedJump PROVE IInv'
  OBVIOUS
<1> DEFINE r == [Host EXCEPT !.vm = Retire(@)]
           h == Safepoint(r)
           a == Block.folded_target
<1>1. phase = "native" /\ UNCHANGED <<code_bytes, trace_cache, cg>> /\ TypeOK
  BY DEF RunFoldedJump, Running, IInv
<1>2. /\ smc_pending' = smc_pending /\ unchecked' = 0 /\ stretch' = unchecked + 1
      /\ Becomes([h EXCEPT !.vm.pc = a])
      /\ \/ /\ Block.folded_loops
            /\ native' = [native EXCEPT !.pc = a, !.folded = FALSE]
            /\ phase' = phase
         \/ phase' = "service" /\ native' = native
  BY DEF RunFoldedJump
<1>3. /\ smc_pending = FALSE /\ native \in [trace: Word, pc: Word, folded: BOOLEAN]
      /\ Block \in Blocks /\ Linked(Block, native.pc, DOMAIN trace_cache[native.trace])
  BY <1>1, RunningFacts
<1>4. a \in Word
  BY <1>3, AddressInWord DEF Blocks
<1>5. r \in Hosts /\ SameProgram(vm, r.vm)
  BY <1>1, HostType, RetiredHost
<1> HIDE DEF r
<1>6. h \in Hosts /\ h.vm.memory = vm.memory
  BY <1>5, SafepointSame DEF SameProgram
<1> HIDE DEF h
<1>7. [h EXCEPT !.vm.pc = a] \in Hosts /\ [h EXCEPT !.vm.pc = a].vm.memory = vm.memory
  BY <1>4, <1>6, HostAt
<1>8. /\ vm' \in Machines /\ vm'.memory = vm.memory
      /\ bench_next_safepoint' \in Nat /\ program_over' \in BOOLEAN
  BY <1>2, <1>7, BecomesType
<1>11. stretch' \in Nat
  BY <1>1, <1>2 DEF TypeOK
<1>9. CASE /\ Block.folded_loops
           /\ native' = [native EXCEPT !.pc = a, !.folded = FALSE]
           /\ phase' = phase
  <2>1. a \in DOMAIN trace_cache[native.trace]
    BY <1>3, <1>9 DEF Linked
  <2>2. /\ native' \in [trace: Word, pc: Word, folded: BOOLEAN]
        /\ native'.trace = native.trace /\ native'.pc = a /\ native'.folded = FALSE
    BY <1>3, <1>4, <1>9
  <2> QED
    BY <1>1, <1>2, <1>3, <1>8, <1>9, <1>11, <2>1, <2>2, NativeStep
<1>10. CASE phase' = "service" /\ native' = native
  BY <1>1, <1>2, <1>3, <1>8, <1>10, <1>11, NativeStep
<1> QED
  BY <1>2, <1>9, <1>10

LEMMA RunErrerStep == IInv /\ RunErrer => IInv'
<1> SUFFICES ASSUME IInv, RunErrer PROVE IInv'
  OBVIOUS
<1> DEFINE before == Prepared(RunningOp, Arrived)
<1>1. phase = "native" /\ UNCHANGED <<code_bytes, trace_cache, cg>> /\ TypeOK
  BY DEF RunErrer, Running, IInv
<1>2. /\ Becomes(before) /\ phase' = "errer"
      /\ smc_pending' = smc_pending /\ native' = native /\ unchecked' = unchecked
      /\ stretch' = Counted
  BY DEF RunErrer
<1>3. smc_pending = FALSE /\ native \in [trace: Word, pc: Word, folded: BOOLEAN]
      /\ unchecked \in Nat /\ Counted \in Nat
  BY <1>1, RunningFacts, CountedInNat DEF TypeOK
<1>4. before \in Hosts /\ before.vm.memory = vm.memory
  BY <1>1, ArrivedSame, PreparedSame DEF SameProgram
<1> HIDE DEF before
<1>5. /\ vm' \in Machines /\ vm'.memory = vm.memory
      /\ bench_next_safepoint' \in Nat /\ program_over' \in BOOLEAN
  BY <1>2, <1>4, BecomesType
<1> QED
  BY <1>1, <1>2, <1>3, <1>5, NativeStep

LEMMA ServiceStep == IInv /\ Service => IInv'
<1> SUFFICES ASSUME IInv, Service PROVE IInv'
  OBVIOUS
<1> DEFINE h == CheckInterrupt(Host)
<1>1. TypeOK /\ CacheTracked /\ TracesClosed
  BY DEF IInv
<1>2. /\ phase = "service" /\ Becomes(h) /\ phase' \in {"exited", "dispatch"}
      /\ unchecked' = 0 /\ stretch' = stretch /\ native' = Nowhere /\ cg' = cg
      /\ \/ /\ smc_pending /\ trace_cache' = NoBlocks /\ code_bytes' = {}
            /\ smc_pending' = FALSE
         \/ /\ ~smc_pending /\ trace_cache' = trace_cache /\ code_bytes' = code_bytes
            /\ smc_pending' = smc_pending
  BY DEF Service
<1>3. h \in Hosts /\ h.vm.memory = vm.memory
  BY <1>1, HostType, CheckInterruptSame DEF SameProgram
<1> HIDE DEF h
<1>4. /\ vm' \in Machines /\ vm'.memory = vm.memory
      /\ bench_next_safepoint' \in Nat /\ program_over' \in BOOLEAN
  BY <1>2, <1>3, BecomesType
<1>5. smc_pending' = FALSE /\ DOMAIN cg.blocks = {} /\ DOMAIN NoBlocks = {}
  BY <1>1, <1>2 DEF TypeOK, TracesClosed, NoBlocks
<1>6. TypeOK'
  <2>1. native' \in [trace: Word, pc: Word, folded: BOOLEAN]
    BY <1>2 DEF Nowhere, Word
  <2>2. /\ DOMAIN trace_cache' \subseteq Word
        /\ \A e \in DOMAIN trace_cache' : IsTrace(trace_cache'[e])
        /\ code_bytes' \subseteq Address
    BY <1>1, <1>2, <1>5 DEF TypeOK
  <2> QED
    BY <1>1, <1>2, <1>4, <1>5, <2>1, <2>2 DEF TypeOK, Phases
<1>7. CacheTracked'
  <2>1. Tracked(cg.blocks)'
    BY <1>2, <1>5 DEF Tracked
  <2>2. \A e \in DOMAIN trace_cache' : Tracked(trace_cache[e])'
    BY <1>1, <1>2, <1>4, <1>5 DEF CacheTracked, Tracked
  <2> QED
    BY <1>5, <2>1, <2>2 DEF CacheTracked
<1>8. TracesClosed'
  BY <1>1, <1>2, <1>5 DEF TracesClosed
<1>9. NativeInTrace'
  BY <1>2 DEF NativeInTrace
<1> QED
  BY <1>6, <1>7, <1>8, <1>9 DEF IInv

LEMMA UnchangedStep == IInv /\ UNCHANGED vars => IInv'
<1> SUFFICES ASSUME IInv, UNCHANGED vars PROVE IInv'
  OBVIOUS
<1>1. TypeOK /\ CacheTracked /\ TracesClosed /\ NativeInTrace
  BY DEF IInv
<1>2. TypeOK'
  BY <1>1 DEF vars, TypeOK
<1>3. CacheTracked'
  BY <1>1 DEF vars, CacheTracked, Tracked
<1>4. TracesClosed'
  BY <1>1 DEF vars, TracesClosed
<1>5. NativeInTrace'
  BY <1>1 DEF vars, NativeInTrace, Block
<1> QED
  BY <1>2, <1>3, <1>4, <1>5 DEF IInv

----------------------------------------------------------------------------
\* The theorems.

LEMMA InitInvariant == Init => IInv
<1> SUFFICES ASSUME Init PROVE IInv
  OBVIOUS
<1>1. vm \in Machines
  BY BootedType DEF Init
<1>2. /\ bench_next_safepoint \in Nat /\ program_over = FALSE /\ smc_pending = FALSE
      /\ code_bytes = {} /\ trace_cache = NoBlocks /\ phase = "dispatch"
      /\ cg = Idle /\ native = Nowhere /\ unchecked = 0 /\ stretch = 0
  BY IntervalsAssumption DEF Init
<1>3. IsTrace(NoBlocks) /\ DOMAIN NoBlocks = {}
  BY DEF IsTrace, NoBlocks
<1>4. 0 \in Word
  BY DEF Word
<1>5. TypeOK
  <2>1. cg.entry \in Word /\ cg.pc \in Word /\ cg.count \in Nat /\ cg.last \in Word
        /\ IsTrace(cg.blocks)
    BY <1>2, <1>3, <1>4 DEF Idle
  <2>2. native \in [trace: Word, pc: Word, folded: BOOLEAN]
    BY <1>2, <1>4 DEF Nowhere
  <2> QED
    BY <1>1, <1>2, <1>3, <2>1, <2>2 DEF TypeOK, Phases
<1>6. CacheTracked
  BY <1>2, <1>3 DEF CacheTracked, Tracked, Idle
<1>7. TracesClosed
  BY <1>2, <1>3 DEF TracesClosed, Idle
<1>8. NativeInTrace
  BY <1>2 DEF NativeInTrace
<1> QED
  BY <1>5, <1>6, <1>7, <1>8 DEF IInv

LEMMA Inductive == IInv /\ [Next]_vars => IInv'
<1> SUFFICES ASSUME IInv, [Next]_vars PROVE IInv'
  OBVIOUS
<1>1. CASE StartCodegen
  BY <1>1, StartCodegenStep
<1>2. CASE CloseFallThrough
  BY <1>2, CloseFallThroughStep
<1>3. CASE CompileInline
  BY <1>3, CompileInlineStep
<1>4. CASE CompileEnding
  BY <1>4, CompileEndingStep
<1>5. CASE CompileJump
  BY <1>5, CompileJumpStep
<1>6. CASE CompileSkip
  BY <1>6, CompileSkipStep
<1>7. CASE CompileIllegal
  BY <1>7, CompileIllegalStep
<1>8. CASE CompileBeyondMemory
  BY <1>8, CompileBeyondMemoryStep
<1>9. CASE EnterTrace
  BY <1>9, EnterTraceStep
<1>10. CASE RunBlock
  BY <1>10, RunBlockStep
<1>11. CASE RunSkipNotTaken
  BY <1>11, RunSkipNotTakenStep
<1>12. CASE RunFoldedJump
  BY <1>12, RunFoldedJumpStep
<1>13. CASE RunErrer
  BY <1>13, RunErrerStep
<1>14. CASE Service
  BY <1>14, ServiceStep
<1>15. CASE Halted \/ UNCHANGED vars
  BY <1>15, UnchangedStep DEF Halted
<1> QED
  BY <1>1, <1>2, <1>3, <1>4, <1>5, <1>6, <1>7, <1>8, <1>9, <1>10, <1>11, <1>12, <1>13,
     <1>14, <1>15 DEF Next, Codegen, Run

LEMMA NativeCodeIsCurrent == IInv => NoStaleCode
<1> SUFFICES ASSUME IInv, phase = "native"
             PROVE  /\ native.trace \in DOMAIN trace_cache
                    /\ native.pc \in DOMAIN trace_cache[native.trace]
                    /\ Current(Block, native.pc, vm.memory)
  BY DEF NoStaleCode
<1> QED
  BY RunningFacts

(***************************************************************************)
(* The invariant of the compiled code holds in every reachable state of    *)
(* the trace compilers: types, the completeness of mark_code and of        *)
(* note_store's filter, and the closedness of traces.                      *)
(***************************************************************************)
THEOREM Invariant == Spec => []IInv
<1> QED
  BY InitInvariant, Inductive, PTL DEF Spec

\* The state of the trace compilers stays in its types (TypeOK).
THEOREM TypeCorrect == Spec => []TypeOK
<1>1. IInv => TypeOK
  BY DEF IInv
<1> QED
  BY <1>1, Invariant, PTL

(***************************************************************************)
(* Every byte compiled code was made from is in the filter note_store      *)
(* looks at, and no block is stale while no flush is due (CacheTracked).   *)
(***************************************************************************)
THEOREM FilterComplete == Spec => []CacheTracked
<1>1. IInv => CacheTracked
  BY DEF IInv
<1> QED
  BY <1>1, Invariant, PTL

(***************************************************************************)
(* The edges codegen keeps inside a trace, back edges and folded jumps     *)
(* included, lead to blocks of the trace they are in (TracesClosed).       *)
(***************************************************************************)
THEOREM EdgesStayInside == Spec => []TracesClosed
<1>1. IInv => TracesClosed
  BY DEF IInv
<1> QED
  BY <1>1, Invariant, PTL

(***************************************************************************)
(* Self-modifying programs never run stale native code (NoStaleCode): at   *)
(* every instruction the compiled block says what memory says now.         *)
(***************************************************************************)
THEOREM NeverStale == Spec => []NoStaleCode
  BY Invariant, NativeCodeIsCurrent, PTL

----------------------------------------------------------------------------
\* The turns of codegen.

\* Block b as codegen's turn emitted it.
Turned(b) ==
  /\ b.turn < MEMORY_SIZE
  /\ b.safepoint <=> b.turn # 0 /\ b.turn % SAFEPOINT_INTERVAL = 0
  /\ b.folded => Kind(b.op) \in SkipKinds

\* Block b, compiled at a, is followed in t by the block of the next turn.
FollowedIn(t, b, a) == Successor(b, a) \in DOMAIN t /\ t[Successor(b, a)].turn = b.turn + 1

InTurns(t) == \A a \in DOMAIN t : Turned(t[a]) /\ (t[a].exit = "open" => FollowedIn(t, t[a], a))

\* The turns of codegen are numbered; the last block leads to where it stands.
Turns ==
  /\ \A entry \in DOMAIN trace_cache : InTurns(trace_cache[entry])
  /\ phase = "codegen" =>
       /\ cg.count = Cardinality(DOMAIN cg.blocks)
       /\ \A a \in DOMAIN cg.blocks :
            /\ Turned(cg.blocks[a]) /\ cg.blocks[a].turn < cg.count
            /\ cg.blocks[a].exit = "open" =>
                 \/ FollowedIn(cg.blocks, cg.blocks[a], a)
                 \/ /\ a = cg.last /\ Successor(cg.blocks[a], a) = cg.pc
                    /\ cg.blocks[a].turn + 1 = cg.count

\* An address more to compile is a turn more, and there are no more of them
\* than there are addresses.
LEMMA FewTurns ==
  ASSUME NEW t, IsTrace(t), NEW a \in Address, a \notin DOMAIN t
  PROVE  /\ Cardinality(DOMAIN t) \in Nat /\ Cardinality(DOMAIN t) < MEMORY_SIZE
         /\ Cardinality(DOMAIN t \cup {a}) = Cardinality(DOMAIN t) + 1
<1>1. MEMORY_SIZE \in Nat \ {0}
  BY MemorySize
<1>2. IsFiniteSet(Address) /\ Cardinality(Address) = MEMORY_SIZE
  BY <1>1, FS_Interval DEF Address
<1>3. DOMAIN t \subseteq Address
  BY DEF IsTrace
<1>4. IsFiniteSet(DOMAIN t) /\ IsFiniteSet(DOMAIN t \cup {a})
  BY <1>2, <1>3, FS_Subset
<1>5. Cardinality(DOMAIN t \cup {a}) = Cardinality(DOMAIN t) + 1
  BY <1>4, FS_AddElement
<1>6. Cardinality(DOMAIN t \cup {a}) <= MEMORY_SIZE
  BY <1>2, <1>3, FS_Subset
<1>7. Cardinality(DOMAIN t) \in Nat
  BY <1>4, FS_CardinalityType
<1> QED
  BY <1>1, <1>5, <1>6, <1>7

LEMMA TurnFacts ==
  ASSUME IInv, Turns, Compiling
  PROVE  /\ IsTrace(cg.blocks) /\ cg.pc \in Address /\ cg.count \in Nat
         /\ cg.count = Cardinality(DOMAIN cg.blocks)
         /\ cg.pc \notin DOMAIN cg.blocks =>
              cg.count < MEMORY_SIZE /\ Cardinality(DOMAIN cg.blocks \cup {cg.pc}) = cg.count + 1
         /\ \A a \in DOMAIN cg.blocks :
              /\ cg.blocks[a] \in Blocks /\ Turned(cg.blocks[a]) /\ cg.blocks[a].turn < cg.count
              /\ cg.blocks[a].exit = "open" =>
                   \/ FollowedIn(cg.blocks, cg.blocks[a], a)
                   \/ /\ a = cg.last /\ Successor(cg.blocks[a], a) = cg.pc
                      /\ cg.blocks[a].turn + 1 = cg.count
<1>1. IsTrace(cg.blocks) /\ cg.pc \in Address /\ phase = "codegen"
  BY CompilingFacts
<1>2. cg.count = Cardinality(DOMAIN cg.blocks) /\ cg.count \in Nat
  BY <1>1 DEF Turns, IInv, TypeOK
<1>3. \A a \in DOMAIN cg.blocks : cg.blocks[a] \in Blocks
  BY <1>1 DEF IsTrace
<1>4. cg.pc \notin DOMAIN cg.blocks =>
        cg.count < MEMORY_SIZE /\ Cardinality(DOMAIN cg.blocks \cup {cg.pc}) = cg.count + 1
  BY <1>1, <1>2, FewTurns
<1> QED
  BY <1>1, <1>2, <1>3, <1>4 DEF Turns

LEMMA EmittedTurn ==
  ASSUME NEW op, NEW exit, cg.count < MEMORY_SIZE
  PROVE  Turned(Emitted(op, exit)) /\ Emitted(op, exit).turn = cg.count
  BY DEF Emitted, Turned

LEMMA TurnsKept ==
  ASSUME Turns, trace_cache' = trace_cache, phase' # "codegen"
  PROVE  Turns'
  BY DEF Turns

LEMMA TurnsInstall ==
  ASSUME Turns, NEW blocks, InTurns(blocks), Install(blocks)
  PROVE  Turns'
<1>1. /\ DOMAIN trace_cache' = DOMAIN trace_cache \cup {cg.entry}
      /\ trace_cache'[cg.entry] = blocks
      /\ \A e \in DOMAIN trace_cache : e # cg.entry => trace_cache'[e] = trace_cache[e]
  BY DEF Install
<1>2. phase' = "dispatch"
  BY DEF Install
<1>3. \A e \in DOMAIN trace_cache : InTurns(trace_cache[e])
  BY DEF Turns
<1>4. \A e \in DOMAIN trace_cache' : InTurns(trace_cache'[e])
  BY <1>1, <1>3
<1> QED
  BY <1>2, <1>4 DEF Turns, InTurns, FollowedIn, Turned

\* The block of this turn follows the one that led here.
LEMMA NextTurn ==
  ASSUME IInv, Turns, Compiling, cg.pc \notin DOMAIN cg.blocks,
         NEW block \in Blocks, block.turn = cg.count,
         NEW t, t = WithBlock(block)
  PROVE  /\ DOMAIN t = DOMAIN cg.blocks \cup {cg.pc} /\ t[cg.pc] = block
         /\ \A a \in DOMAIN cg.blocks :
              t[a] = cg.blocks[a] /\ (cg.blocks[a].exit = "open" => FollowedIn(t, cg.blocks[a], a))
<1>1. /\ DOMAIN t = DOMAIN cg.blocks \cup {cg.pc} /\ t[cg.pc] = block
      /\ \A a \in DOMAIN cg.blocks : t[a] = cg.blocks[a]
  BY TurnFacts, WithBlockTrace
<1>2. ASSUME NEW a \in DOMAIN cg.blocks, cg.blocks[a].exit = "open"
      PROVE  FollowedIn(t, cg.blocks[a], a)
  BY <1>1, <1>2, TurnFacts DEF FollowedIn
<1> QED
  BY <1>1, <1>2

LEMMA TurnsContinue ==
  ASSUME IInv, Turns, Compiling, cg.pc \notin DOMAIN cg.blocks,
         NEW block \in Blocks, Turned(block), block.turn = cg.count,
         NEW a, Continue(block, a), Successor(block, cg.pc) = a % 65536
  PROVE  Turns'
<1>1. /\ phase' = phase /\ trace_cache' = trace_cache /\ cg'.count = cg.count + 1
      /\ cg'.last = cg.pc /\ cg'.blocks = WithBlock(block) /\ cg'.pc = a % 65536
  BY DEF Continue
<1>2. /\ DOMAIN cg'.blocks = DOMAIN cg.blocks \cup {cg.pc} /\ cg'.blocks[cg.pc] = block
      /\ \A p \in DOMAIN cg.blocks :
           /\ cg'.blocks[p] = cg.blocks[p]
           /\ cg.blocks[p].exit = "open" => FollowedIn(cg'.blocks, cg.blocks[p], p)
  <2>1. PICK t : t = cg'.blocks
    OBVIOUS
  <2>2. t = WithBlock(block)
    BY <1>1, <2>1
  <2>3. DOMAIN t = DOMAIN cg.blocks \cup {cg.pc} /\ t[cg.pc] = block
    BY <2>2 DEF WithBlock
  <2>4. \A p \in DOMAIN cg.blocks :
          t[p] = cg.blocks[p] /\ (cg.blocks[p].exit = "open" => FollowedIn(t, cg.blocks[p], p))
    BY <2>2, NextTurn
  <2> QED
    BY <2>1, <2>3, <2>4
<1>3. cg'.count = Cardinality(DOMAIN cg'.blocks)
  BY <1>1, <1>2, TurnFacts
<1>4. ASSUME NEW p \in DOMAIN cg'.blocks
      PROVE  /\ Turned(cg'.blocks[p]) /\ cg'.blocks[p].turn < cg'.count
             /\ cg'.blocks[p].exit = "open" =>
                 \/ FollowedIn(cg'.blocks, cg'.blocks[p], p)
                 \/ /\ p = cg'.last /\ Successor(cg'.blocks[p], p) = cg'.pc
                    /\ cg'.blocks[p].turn + 1 = cg'.count
  <2>1. CASE p = cg.pc
    BY <1>1, <1>2, <2>1, TurnFacts
  <2>2. CASE p \in DOMAIN cg.blocks
    <3>1. cg.blocks[p] \in Blocks /\ Turned(cg.blocks[p]) /\ cg.blocks[p].turn < cg.count
      BY <2>2, TurnFacts
    <3>2. cg.blocks[p].turn \in Nat /\ cg.count \in Nat
      BY <3>1, TurnFacts DEF Blocks
    <3>3. cg.blocks[p].turn < cg.count + 1
      BY <3>1, <3>2
    <3> QED
      BY <1>1, <1>2, <2>2, <3>1, <3>3
  <2> QED
    BY <1>2, <2>1, <2>2
<1>5. \A p \in DOMAIN cg'.blocks :
        /\ Turned(cg.blocks[p])' /\ cg'.blocks[p].turn < cg'.count
        /\ cg'.blocks[p].exit = "open" =>
            \/ FollowedIn(cg.blocks, cg.blocks[p], p)'
            \/ /\ p = cg'.last /\ Successor(cg'.blocks[p], p) = cg'.pc
               /\ cg'.blocks[p].turn + 1 = cg'.count
  BY <1>4 DEF Turned, FollowedIn
<1> QED
  BY <1>1, <1>3, <1>5 DEF Turns

LEMMA TurnsLast ==
  ASSUME IInv, Turns, Compiling, cg.pc \notin DOMAIN cg.blocks,
         NEW block \in Blocks, Turned(block), block.turn = cg.count, block.exit # "open",
         Install(WithBlock(block))
  PROVE  Turns'
<1>1. PICK t : t = WithBlock(block)
  OBVIOUS
<1>2. /\ DOMAIN t = DOMAIN cg.blocks \cup {cg.pc} /\ t[cg.pc] = block
      /\ \A p \in DOMAIN cg.blocks :
           t[p] = cg.blocks[p] /\ (cg.blocks[p].exit = "open" => FollowedIn(t, cg.blocks[p], p))
  BY <1>1, NextTurn
<1>3. InTurns(t)
  BY <1>2, TurnFacts DEF InTurns
<1> QED
  BY <1>1, <1>3, TurnsInstall

LEMMA TurnsCompile == IInv /\ Turns /\ Codegen => Turns'
<1> SUFFICES ASSUME IInv, Turns, Codegen PROVE Turns'
  OBVIOUS
<1>1. ASSUME Compiling, cg.pc \notin DOMAIN cg.blocks, NEW exit \in {"open", "loop", "return"}
      PROVE  /\ Emitted(NewOp, exit) \in Blocks /\ Turned(Emitted(NewOp, exit))
             /\ Emitted(NewOp, exit).op = NewOp
             /\ Emitted(NewOp, exit).turn = cg.count /\ Emitted(NewOp, exit).exit = exit
  <2>1. cg.count \in Nat /\ cg.count < MEMORY_SIZE
    BY <1>1, TurnFacts
  <2>2. NewOp \in Word
    BY <1>1, CompilingFacts
  <2>3. /\ Emitted(NewOp, exit) \in Blocks /\ Emitted(NewOp, exit).op = NewOp
        /\ Emitted(NewOp, exit).exit = exit
    BY <2>1, <2>2, EmittedBlock
  <2>4. Turned(Emitted(NewOp, exit)) /\ Emitted(NewOp, exit).turn = cg.count
    BY <2>1, EmittedTurn
  <2> QED
    BY <2>3, <2>4
<1>2. CASE CloseFallThrough
  <2> DEFINE old == cg.blocks
             closed == [cg.blocks EXCEPT ![cg.last].exit = "loop"]
  <2>1. Compiling /\ Install(closed)
    BY <1>2 DEF CloseFallThrough
  <2>2. cg.last \in DOMAIN old /\ old[cg.last] \in Blocks /\ cg.pc \in DOMAIN old
    BY <1>2, <2>1, TurnFacts DEF IInv, TracesClosed, Compiling, CloseFallThrough
  <2>3. PICK b : b = [old[cg.last] EXCEPT !.exit = "loop"]
    OBVIOUS
  <2>4. /\ b.turn = old[cg.last].turn /\ b.safepoint = old[cg.last].safepoint
        /\ b.folded = old[cg.last].folded /\ b.op = old[cg.last].op /\ b.exit = "loop"
    BY <2>2, <2>3 DEF Blocks
  <2>5. /\ DOMAIN closed = DOMAIN old /\ closed[cg.last] = b
        /\ \A a \in DOMAIN old : a # cg.last => closed[a] = old[a]
        /\ \A a \in DOMAIN old : closed[a].turn = old[a].turn
    BY <2>2, <2>3, <2>4
  <2> HIDE DEF closed
  <2>6. ASSUME NEW a \in DOMAIN closed
        PROVE  Turned(closed[a]) /\ (closed[a].exit = "open" => FollowedIn(closed, closed[a], a))
    <3>1. CASE a = cg.last
      <4>1. Turned(b)
        BY <2>1, <2>2, <2>4, TurnFacts DEF Turned
      <4> QED
        BY <2>4, <2>5, <3>1, <4>1
    <3>2. CASE a # cg.last
      BY <2>1, <2>5, <3>2, TurnFacts DEF FollowedIn
    <3> QED
      BY <3>1, <3>2
  <2>7. InTurns(closed)
    BY <2>6 DEF InTurns
  <2> QED
    BY <2>1, <2>7, TurnsInstall
<1>3. CASE CompileInline
  <2>1. /\ Compiling /\ cg.pc \notin DOMAIN cg.blocks
        /\ Kind(NewOp) \in InlineKinds \cup RunOnHelpers
        /\ Continue(Emitted(NewOp, "open"), cg.pc + 2)
    BY <1>3 DEF CompileInline, CompilingNew
  <2>2. Kind(NewOp) \notin SkipKinds \cup {"jump"}
    BY <2>1 DEF InlineKinds, RunOnHelpers, ArithmeticKinds, TimerKinds, SkipKinds
  <2>3. Successor(Emitted(NewOp, "open"), cg.pc) = (cg.pc + 2) % 65536
    BY <1>1, <2>1, <2>2 DEF Successor
  <2> QED
    BY <1>1, <2>1, <2>3, TurnsContinue
<1>4. CASE CompileEnding
  BY <1>1, <1>4, TurnsLast DEF CompileEnding, CompilingNew
<1>5. CASE CompileJump
  <2>1. /\ Compiling /\ cg.pc \notin DOMAIN cg.blocks /\ Kind(NewOp) = "jump" /\ NewOp \in Word
        /\ \/ Install(WithBlock(Emitted(NewOp, "loop")))
           \/ Continue(Emitted(NewOp, "open"), IMMEDIATE12(NewOp))
           \/ Install(WithBlock(Emitted(NewOp, "return")))
    BY <1>5, CompilingFacts DEF CompileJump, CompilingNew
  <2>2. Successor(Emitted(NewOp, "open"), cg.pc) = IMMEDIATE12(NewOp)
    BY <1>1, <2>1 DEF Successor
  <2>3. IMMEDIATE12(NewOp) % 65536 = IMMEDIATE12(NewOp)
    <3>1. PICK a \in Word : a = IMMEDIATE12(NewOp)
      BY <2>1, Immediate12Range, AddressInWord
    <3>2. a % 65536 = a
      BY DEF Word
    <3> QED
      BY <3>1, <3>2
  <2>4. CASE Continue(Emitted(NewOp, "open"), IMMEDIATE12(NewOp))
    BY <1>1, <2>1, <2>2, <2>3, <2>4, TurnsContinue
  <2> QED
    BY <1>1, <2>1, <2>4, TurnsLast
<1>6. CASE CompileSkip
  <2>1. PICK block : /\ Compiling /\ cg.pc \notin DOMAIN cg.blocks /\ Kind(NewOp) \in SkipKinds
                     /\ Continue(block, cg.pc + 4)
                     /\ \E f \in BOOLEAN, t \in Address, l \in BOOLEAN :
                          block = [Emitted(NewOp, "open") EXCEPT !.folded = f, !.folded_target = t,
                                                                 !.folded_loops = l]
    <3>1. Compiling /\ cg.pc \notin DOMAIN cg.blocks /\ Kind(NewOp) \in SkipKinds
      BY <1>6 DEF CompileSkip, CompilingNew
    <3>2. PICK next : next = OpAt(vm.memory, cg.pc + 2)
      OBVIOUS
    <3>3. next \in Word
      <4>1. vm.memory \in [Address -> Byte]
        BY <3>1, CompilingFacts, MachineFields
      <4>2. PICK k \in Int : k = cg.pc + 2
        BY <3>1, CompilingFacts
      <4> QED
        BY <3>2, <4>1, <4>2, OpInWord
    <3>4. IMMEDIATE12(next) \in Address /\ 0 \in Address
      BY <3>3, Immediate12Range, MemorySize DEF Address
    <3> DEFINE f == next \div 4096 = 1
               l == f /\ HasBlock(IMMEDIATE12(next))
               t == IF f THEN IMMEDIATE12(next) ELSE 0
    <3>5. f \in BOOLEAN /\ l \in BOOLEAN /\ t \in Address
      BY <3>4 DEF HasBlock
    <3>6. Continue([Emitted(NewOp, "open") EXCEPT !.folded = f, !.folded_target = t,
                                                  !.folded_loops = l], cg.pc + 4)
      BY <1>6, <3>2 DEF CompileSkip
    <3> HIDE DEF f, l, t
    <3> QED
      BY <3>1, <3>5, <3>6
  <2>2. /\ block \in Blocks /\ block.op = NewOp /\ block.turn = cg.count /\ Turned(block)
    <3>1. PICK e \in Blocks : e = Emitted(NewOp, "open") /\ Turned(e) /\ e.op = NewOp /\ e.turn = cg.count
      BY <1>1, <2>1
    <3>2. PICK f \in BOOLEAN, t \in Address, l \in BOOLEAN :
            block = [e EXCEPT !.folded = f, !.folded_target = t, !.folded_loops = l]
      BY <2>1, <3>1
    <3>3. PICK b : b = block
      OBVIOUS
    <3>4. b = [e EXCEPT !.folded = f, !.folded_target = t, !.folded_loops = l]
      BY <3>2, <3>3
    <3>5. b \in Blocks /\ b.op = e.op /\ b.turn = e.turn /\ b.safepoint = e.safepoint
      BY <3>1, <3>4 DEF Blocks
    <3> QED
      BY <2>1, <3>1, <3>3, <3>5 DEF Turned
  <2>3. Successor(block, cg.pc) = (cg.pc + 4) % 65536
    BY <2>1, <2>2 DEF Successor, SkipKinds
  <2>4. PICK n : n = cg.pc + 4
    OBVIOUS
  <2>5. Compiling /\ cg.pc \notin DOMAIN cg.blocks /\ Continue(block, n)
        /\ Successor(block, cg.pc) = n % 65536
    BY <2>1, <2>3, <2>4
  <2> QED
    BY <2>2, <2>5, TurnsContinue
<1>7. CASE CompileIllegal \/ CompileBeyondMemory
  BY <1>7, TurnsKept DEF CompileIllegal, CompileBeyondMemory
<1> QED
  BY <1>2, <1>3, <1>4, <1>5, <1>6, <1>7 DEF Codegen

LEMMA TurnsStart == IInv /\ Turns /\ StartCodegen => Turns'
<1> SUFFICES ASSUME IInv, Turns, StartCodegen PROVE Turns'
  OBVIOUS
<1>1. trace_cache' = trace_cache /\ cg'.count = 0 /\ cg'.blocks = NoBlocks
  BY DEF StartCodegen
<1>2. DOMAIN cg'.blocks = {} /\ Cardinality({}) = 0
  BY <1>1, FS_EmptySet DEF NoBlocks
<1> QED
  BY <1>1, <1>2 DEF Turns

LEMMA TurnsInit == Init => Turns
  BY DEF Init, Turns, NoBlocks

LEMMA TurnsNext == IInv /\ Turns /\ [Next]_vars => Turns'
<1> SUFFICES ASSUME IInv, Turns, [Next]_vars PROVE Turns'
  OBVIOUS
<1>1. CASE StartCodegen
  BY <1>1, TurnsStart
<1>2. CASE Codegen
  BY <1>2, TurnsCompile
<1>3. CASE EnterTrace
  BY <1>3, TurnsKept DEF EnterTrace
<1>4. CASE RunBlock
  <2>1. phase' # "codegen" /\ trace_cache' = trace_cache
    <3>1. PICK after \in Machines : /\ after.pc \in Word /\ LeftBy(after) \in Hosts
                                    /\ LeaveBlock(LeftBy(after), after.pc, Counted)
      BY <1>4, RunBlockFacts
    <3>2. phase = "native" /\ trace_cache' = trace_cache /\ Counted \in Nat /\ Block \in Blocks
      BY <1>4, RunBlockFacts, RunningFacts, CountedInNat DEF IInv
    <3> QED
      BY <3>1, <3>2, LeaveBlockResult
  <2> QED
    BY <2>1, TurnsKept
<1>5. CASE RunSkipNotTaken \/ RunFoldedJump \/ RunErrer
  BY <1>5, TurnsKept DEF RunSkipNotTaken, RunFoldedJump, RunErrer, Running
<1>6. CASE Service
  <2>1. phase' # "codegen" /\ (trace_cache' = trace_cache \/ trace_cache' = NoBlocks)
    BY <1>6 DEF Service
  <2>2. CASE trace_cache' = NoBlocks
    BY <2>1, <2>2 DEF Turns, NoBlocks
  <2> QED
    BY <2>1, <2>2, TurnsKept
<1>7. CASE UNCHANGED vars
  BY <1>7 DEF vars, Turns
<1> QED
  BY <1>1, <1>2, <1>3, <1>4, <1>5, <1>6, <1>7 DEF Next, Run, Halted

----------------------------------------------------------------------------
\* TraceJit implements Machine.

LEMMA CheckInterruptLevel ==
  ASSUME NEW h \in Hosts
  PROVE  CheckInterrupt(h).vm = SyncTimers(h.vm) /\ Level(h.vm, CheckInterrupt(h).vm)
<1>1. CheckInterrupt(h).vm = SyncTimers(h.vm)
  BY DEF CheckInterrupt, Hosts
<1> QED
  BY <1>1, LevelSynced DEF Hosts

LEMMA SafepointLevel ==
  ASSUME NEW h \in Hosts
  PROVE  Level(h.vm, Safepoint(h).vm)
<1>1. h.vm \in Machines
  BY DEF Hosts
<1>2. CASE h.vm.retired >= h.next
  <2>1. CheckInterrupt(h) \in Hosts
    BY CheckInterruptSame
  <2>2. \A k \in Hosts : \A a : [k EXCEPT !.next = a].vm = k.vm
    BY DEF Hosts
  <2>3. Safepoint(h).vm = CheckInterrupt(h).vm
    BY <1>2, <2>1, <2>2 DEF Safepoint
  <2> QED
    BY <2>3, CheckInterruptLevel
<1>3. CASE ~(h.vm.retired >= h.next)
  BY <1>1, <1>3, LevelSynced DEF Safepoint
<1> QED
  BY <1>2, <1>3

LEMMA ArrivedLevel ==
  ASSUME TypeOK
  PROVE  Level(Retire(vm), Arrived.vm)
<1> DEFINE h == IF Block.safepoint THEN Safepoint(Host) ELSE Host
<1>1. Host \in Hosts /\ Host.vm = vm /\ vm \in Machines
  BY HostType DEF TypeOK
<1>2. h \in Hosts /\ Level(vm, h.vm)
  BY <1>1, SafepointSame, SafepointLevel, LevelSynced
<1>3. Arrived = [h EXCEPT !.vm = Retire(@)]
  BY DEF Arrived
<1> HIDE DEF h
<1>4. Arrived.vm = Retire(h.vm)
  BY <1>2, <1>3 DEF Hosts
<1> QED
  BY <1>2, <1>4, LevelRetire

LEMMA PreparedLevel ==
  ASSUME NEW h \in Hosts, NEW op
  PROVE  /\ Level(h.vm, Prepared(op, h).vm)
         /\ Kind(op) \in TimerKinds => SyncTimers(Prepared(op, h).vm) = Prepared(op, h).vm
<1>1. h.vm \in Machines
  BY DEF Hosts
<1>2. [h EXCEPT !.vm = SyncTimers(@)].vm = SyncTimers(h.vm)
  BY DEF Hosts
<1>3. \/ Kind(op) \notin TimerKinds /\ Prepared(op, h) \in {h, CheckInterrupt(h)}
      \/ Prepared(op, h).vm = SyncTimers(h.vm)
  BY <1>2, CheckInterruptLevel DEF Prepared
<1> QED
  BY <1>1, <1>3, CheckInterruptLevel, LevelSynced, Levelled

\* In native code the program counter is where the running block is.
LEMMA NativePc ==
  ASSUME TypeOK, phase = "native", ~native.folded
  PROVE  Reported = SyncTimers([vm EXCEPT !.pc = native.pc])
<1>1. native.pc \in Word /\ (native.pc + 0) % 65536 = native.pc
  BY DEF TypeOK, Word
<1> QED
  BY <1>1 DEF Reported, ArchitecturalPc

\* What Machine sees of the next instruction.
LEMMA NativeLevel ==
  ASSUME IInv, phase = "native", ~native.folded, NEW m, Level(Retire(vm), m)
  PROVE  /\ Abstract!Op = Block.op
         /\ Level([m EXCEPT !.pc = native.pc], Retire(Reported))
<1>1. TypeOK /\ vm \in Machines /\ native.pc \in Word /\ Block.op = OpAt(vm.memory, native.pc)
  BY RunningFacts DEF IInv, Current
<1>2. PICK n \in Machines : n = [vm EXCEPT !.pc = native.pc]
  BY <1>1, MachineAt
<1>3. Reported = SyncTimers(n)
  BY <1>1, <1>2, NativePc
<1>4. n.memory = vm.memory /\ n.pc = native.pc
  BY <1>1, <1>2, MachineAt
<1>5. Abstract!Op = Block.op
  BY <1>1, <1>3, <1>4, SyncTimersKeeps DEF Abstract!Op
<1>6. Level(Retire(n), Retire(Reported))
  BY <1>3, LevelSynced, LevelRetire
<1>7. Retire(n) = [Retire(vm) EXCEPT !.pc = native.pc]
  BY <1>1, <1>2 DEF Retire, Machines
<1>8. Level(Retire(n), [m EXCEPT !.pc = native.pc])
  BY <1>1, <1>7, LevelAt
<1>9. Level([m EXCEPT !.pc = native.pc], Retire(n))
  BY <1>8, LevelSymmetric
<1> QED
  BY <1>5, <1>6, <1>9, LevelTransitive

LEMMA ExecutedOnLevel ==
  ASSUME IInv, phase = "native", ~native.folded
  PROVE  /\ Abstract!Op = Block.op
         /\ Level(ExecutedOn, Retire(Reported))
         /\ Kind(Block.op) \in TimerKinds => SyncTimers(ExecutedOn) = ExecutedOn
<1>1. TypeOK /\ native.pc \in Word /\ vm \in Machines
  BY RunningFacts DEF IInv
<1>2. PICK m : m = Prepared(Block.op, Arrived).vm
  OBVIOUS
<1>3. Arrived \in Hosts /\ Level(Retire(vm), Arrived.vm)
  BY <1>1, ArrivedSame, ArrivedLevel
<1>4. Level(Arrived.vm, m) /\ (Kind(Block.op) \in TimerKinds => SyncTimers(m) = m)
  BY <1>2, <1>3, PreparedLevel
<1>5. Level(Retire(vm), m)
  BY <1>3, <1>4, LevelTransitive
<1>6. ExecutedOn = [m EXCEPT !.pc = native.pc]
  BY <1>2 DEF ExecutedOn
<1>7. Kind(Block.op) \in TimerKinds => SyncTimers(ExecutedOn) = ExecutedOn
  BY <1>1, <1>4, <1>6, SyncTimersAt DEF Level
<1> QED
  BY <1>5, <1>6, <1>7, NativeLevel

\* Where a block leaves off is where Machine goes on.
LEMMA LeftAt ==
  ASSUME NEW h \in Hosts, NEW a \in Word, Becomes(h),
         \/ phase' = "native" /\ native'.folded = FALSE /\ native'.pc = a
         \/ phase' = "service" /\ h.vm.pc = a
  PROVE  Reported' = SyncTimers([h.vm EXCEPT !.pc = a])
<1>1. vm' = h.vm
  BY DEF Becomes
<1>2. ArchitecturalPc' = a
  <2>1. (a + 0) % 65536 = a
    BY DEF Word
  <2> QED
    BY <1>1, <2>1 DEF ArchitecturalPc
<1> QED
  BY <1>1, <1>2 DEF Reported

LEMMA ClosedLevel ==
  ASSUME NEW h \in Hosts, NEW a \in Word
  PROVE  /\ [Safepoint(h) EXCEPT !.vm.pc = a] \in Hosts
         /\ [Safepoint(h) EXCEPT !.vm.pc = a].vm = [Safepoint(h).vm EXCEPT !.pc = a]
         /\ [Safepoint(h) EXCEPT !.vm.pc = a].vm.pc = a
         /\ SyncTimers([Safepoint(h).vm EXCEPT !.pc = a]) = SyncTimers([h.vm EXCEPT !.pc = a])
<1>1. PICK s \in Hosts : s = Safepoint(h) /\ Level(h.vm, s.vm)
  BY SafepointSame, SafepointLevel
<1>2. [s EXCEPT !.vm.pc = a] \in Hosts
  BY HostAt
<1>3. [s EXCEPT !.vm.pc = a].vm = [s.vm EXCEPT !.pc = a] /\ [s EXCEPT !.vm.pc = a].vm.pc = a
  BY DEF Hosts, Machines
<1>4. SyncTimers([h.vm EXCEPT !.pc = a]) = SyncTimers([s.vm EXCEPT !.pc = a])
  BY <1>1, LevelAt DEF Level
<1> QED
  BY <1>1, <1>2, <1>3, <1>4

LEMMA LeaveBlockReports ==
  ASSUME NEW h \in Hosts, NEW a \in Word, NEW count, Block \in Blocks, phase = "native", ~native.folded,
         native \in [trace: Word, pc: Word, folded: BOOLEAN],
         Block.exit = "return" /\ Kind(Block.op) # "jump" => h.vm.pc = a,
         LeaveBlock(h, a, count)
  PROVE  Reported' = SyncTimers([h.vm EXCEPT !.pc = a]) /\ phase' \in {"native", "service"}
<1>1. PICK closed \in Hosts :
        /\ closed = [Safepoint(h) EXCEPT !.vm.pc = a] /\ closed.vm.pc = a
        /\ SyncTimers([closed.vm EXCEPT !.pc = a]) = SyncTimers([h.vm EXCEPT !.pc = a])
  <2>1. PICK s \in Hosts : s = Safepoint(h)
    BY SafepointSame
  <2>2. [[s.vm EXCEPT !.pc = a] EXCEPT !.pc = a] = [s.vm EXCEPT !.pc = a]
    BY DEF Hosts, Machines
  <2>3. PICK closed : closed = [s EXCEPT !.vm.pc = a]
    OBVIOUS
  <2>4. /\ closed \in Hosts /\ closed.vm = [s.vm EXCEPT !.pc = a] /\ closed.vm.pc = a
        /\ SyncTimers([s.vm EXCEPT !.pc = a]) = SyncTimers([h.vm EXCEPT !.pc = a])
    BY <2>1, <2>3, ClosedLevel
  <2>5. SyncTimers([closed.vm EXCEPT !.pc = a]) = SyncTimers([h.vm EXCEPT !.pc = a])
    BY <2>2, <2>4
  <2> QED
    BY <2>1, <2>3, <2>4, <2>5
<1>2. [native EXCEPT !.pc = a].pc = a /\ [native EXCEPT !.pc = a].folded = FALSE
  OBVIOUS
<1>3. Block.exit \in {"open", "loop", "return"}
  BY DEF Blocks
<1>4. CASE Block.exit = "return"
  <2>1. phase' = "service" /\ Becomes(IF Kind(Block.op) = "jump" THEN closed ELSE h)
    BY <1>1, <1>4 DEF LeaveBlock
  <2>2. CASE Kind(Block.op) = "jump"
    BY <1>1, <2>1, <2>2, LeftAt
  <2>3. CASE Kind(Block.op) # "jump"
    BY <1>4, <2>1, <2>3, LeftAt
  <2> QED
    BY <2>2, <2>3
<1>5. CASE Block.exit = "open"
  <2>1. /\ phase' = "native" /\ native' = [native EXCEPT !.pc = a]
        /\ Becomes(IF Kind(Block.op) = "jump" THEN closed ELSE h)
    BY <1>1, <1>5 DEF LeaveBlock
  <2>2. CASE Kind(Block.op) = "jump"
    BY <1>1, <1>2, <2>1, <2>2, LeftAt
  <2>3. CASE Kind(Block.op) # "jump"
    BY <1>2, <2>1, <2>3, LeftAt
  <2> QED
    BY <2>2, <2>3
<1>6. CASE Block.exit = "loop"
  <2>1. /\ Becomes(closed)
        /\ \/ phase' = "service"
           \/ phase' = "native" /\ native' = [native EXCEPT !.pc = a]
    BY <1>1, <1>6 DEF LeaveBlock
  <2> QED
    BY <1>1, <1>2, <2>1, LeftAt
<1> QED
  BY <1>3, <1>4, <1>5, <1>6

\* An instruction of Machine, from what Machine sees before it and after it.
LEMMA Executes ==
  ASSUME NEW op \in Word, NEW m, NEW random \in RandomBytes,
         Abstract!Op = op, Level(m, Retire(Reported)), ~Faults(op, m),
         Kind(op) \in TimerKinds => SyncTimers(m) = m,
         phase # "errer", phase' # "errer", Reported' = SyncTimers(Execute(op, m, random))
  PROVE  Abstract!Execution
<1>1. ~Faults(op, SyncTimers(Retire(Reported)))
  BY LevelKeepsFaults, LevelSynced, LevelTransitive DEF Level
<1>2. Reported' = SyncTimers(Execute(op, SyncTimers(Retire(Reported)), random))
  BY LevelExecute
<1> QED
  BY <1>1, <1>2 DEF Abstract!Execution, Abstract!Retired

LEMMA RunBlockImplements ==
  ASSUME IInv, RunBlock
  PROVE  Abstract!Execution
<1> DEFINE op == Block.op
<1>1. /\ phase = "native" /\ ~native.folded /\ ~Faults(op, ExecutedOn) /\ ExecutedOn.pc = native.pc
  BY RunBlockFacts
<1>2. /\ op \in Word /\ Block \in Blocks /\ native \in [trace: Word, pc: Word, folded: BOOLEAN]
      /\ Linked(Block, native.pc, DOMAIN trace_cache[native.trace])
  BY <1>1, RunningFacts
<1>3. PICK random \in RandomBytes, after \in Machines :
        /\ after = Execute(op, ExecutedOn, random) /\ after.pc \in Word
        /\ LeftBy(after) \in Hosts /\ LeftBy(after).vm = [after EXCEPT !.pc = StoredPc(op, after)]
        /\ LeaveBlock(LeftBy(after), after.pc, Counted)
  BY RunBlockFacts
<1>4. /\ Abstract!Op = op /\ Level(ExecutedOn, Retire(Reported))
      /\ Kind(op) \in TimerKinds => SyncTimers(ExecutedOn) = ExecutedOn
  BY <1>1, ExecutedOnLevel
<1>5. Block.exit = "return" /\ Kind(op) # "jump" => LeftBy(after).vm.pc = after.pc
  <2> SUFFICES ASSUME Block.exit = "return", Kind(op) # "jump"
               PROVE  StoredPc(op, after) = after.pc
    BY <1>3 DEF Machines
  <2>1. Kind(op) \in EndingKinds
    BY <1>2 DEF Linked
  <2> QED
    BY <2>1 DEF StoredPc, EndingKinds, EndingHelpers, InlineKinds, RunOnHelpers, ArithmeticKinds,
                TimerKinds
<1>6. /\ Reported' = SyncTimers([LeftBy(after).vm EXCEPT !.pc = after.pc])
      /\ phase' \in {"native", "service"}
  BY <1>1, <1>2, <1>3, <1>5, LeaveBlockReports
<1>7. [LeftBy(after).vm EXCEPT !.pc = after.pc] = after
  BY <1>3 DEF Machines
<1> QED
  BY <1>1, <1>2, <1>3, <1>4, <1>6, <1>7, Executes

\* A skip not taken is the instruction too; a folded one has its jump to come.
LEMMA RunSkipNotTakenImplements ==
  ASSUME IInv, RunSkipNotTaken
  PROVE  Abstract!Execution
<1> DEFINE op == Block.op
<1>1. /\ phase = "native" /\ ~native.folded /\ Kind(op) \in SkipKinds
      /\ ~SkipTaken(op, [Arrived.vm EXCEPT !.pc = native.pc])
      /\ IF Block.folded
         THEN Becomes(Arrived) /\ native' = [native EXCEPT !.folded = TRUE] /\ phase' = phase
         ELSE Becomes([Arrived EXCEPT !.vm.pc = (native.pc + 2) % 65536]) /\ phase' = "service"
  BY DEF RunSkipNotTaken, Running
<1>2. /\ TypeOK /\ op \in Word /\ native.pc \in Word
      /\ native \in [trace: Word, pc: Word, folded: BOOLEAN]
  BY <1>1, RunningFacts DEF IInv
<1>3. PICK h \in Hosts : h = Arrived /\ h.vm \in Machines /\ Level(Retire(vm), h.vm)
  BY <1>2, ArrivedSame, ArrivedLevel DEF Hosts
<1>4. PICK m \in Machines : m = [h.vm EXCEPT !.pc = native.pc] /\ m.pc = native.pc
  BY <1>2, <1>3, MachineAt
<1>5. Abstract!Op = op /\ Level(m, Retire(Reported))
  BY <1>1, <1>3, <1>4, NativeLevel
<1>6. PICK a \in Word : a = (native.pc + 2) % 65536
  <2>1. PICK n \in Nat : n = native.pc + 2
    BY <1>2, WordPlus
  <2> QED
    BY <2>1, WordModulo
<1>7. PICK random \in RandomBytes : TRUE
  BY RandomAssumption
<1>8. Execute(op, m, random) = [h.vm EXCEPT !.pc = a]
  <2>1. Execute(op, m, random) = SkipIf(m, SkipTaken(op, m)) /\ ~SkipTaken(op, m)
    BY <1>1, <1>3, <1>4, ExecuteSkip
  <2>2. SkipIf(m, SkipTaken(op, m)) = [m EXCEPT !.pc = a]
    BY <1>4, <1>6, <2>1 DEF SkipIf, STEP, At
  <2>3. [m EXCEPT !.pc = a] = [h.vm EXCEPT !.pc = a]
    BY <1>3, <1>4 DEF Machines
  <2> QED
    BY <2>1, <2>2, <2>3
<1>9. ~Faults(op, m) /\ Kind(op) \notin TimerKinds
  BY <1>1 DEF Faults, SkipKinds, TimerKinds
<1>10. Reported' = SyncTimers([h.vm EXCEPT !.pc = a]) /\ phase' # "errer"
  <2>1. CASE Block.folded
    <3>1. native'.pc = native.pc /\ native'.folded = TRUE /\ phase' = "native" /\ vm' = h.vm
      BY <1>1, <1>2, <1>3, <2>1 DEF Becomes
    <3> QED
      BY <1>6, <3>1 DEF Reported, ArchitecturalPc
  <2>2. CASE ~Block.folded
    <3>1. phase' = "service" /\ vm' = [h EXCEPT !.vm.pc = a].vm
      BY <1>1, <1>3, <1>6, <2>2 DEF Becomes
    <3>2. [h EXCEPT !.vm.pc = a].vm = [h.vm EXCEPT !.pc = a]
      BY DEF Hosts
    <3>3. [h.vm EXCEPT !.pc = a].pc = a /\ [[h.vm EXCEPT !.pc = a] EXCEPT !.pc = a] = [h.vm EXCEPT !.pc = a]
      BY <1>3 DEF Machines
    <3>4. vm'.pc = a /\ phase' = "service"
      BY <3>1, <3>2, <3>3
    <3>5. ArchitecturalPc' = a
      BY <3>4 DEF ArchitecturalPc
    <3> QED
      BY <3>1, <3>2, <3>3, <3>5 DEF Reported
  <2> QED
    BY <2>1, <2>2
<1> QED
  BY <1>1, <1>2, <1>5, <1>7, <1>8, <1>9, <1>10, Executes

\* The jump a skip took in is an instruction of its own.
LEMMA RunFoldedJumpImplements ==
  ASSUME IInv, Turns, RunFoldedJump
  PROVE  Abstract!Execution
<1>1. /\ phase = "native" /\ native.folded /\ TypeOK /\ NativeInTrace
      /\ phase' \in {"native", "service"}
      /\ phase' = "native" => native' = [native EXCEPT !.pc = Block.folded_target, !.folded = FALSE]
      /\ Becomes([Safepoint([Host EXCEPT !.vm = Retire(@)]) EXCEPT !.vm.pc = Block.folded_target])
  BY DEF RunFoldedJump, Running, IInv
<1>2. /\ native.pc \in Address /\ native.pc \in Word /\ Current(Block, native.pc, vm.memory)
      /\ native \in [trace: Word, pc: Word, folded: BOOLEAN]
      /\ vm \in Machines /\ Block \in Blocks /\ Linked(Block, native.pc, DOMAIN trace_cache[native.trace])
  BY <1>1, RunningFacts
<1>3. PICK next \in Word : next = OpAt(vm.memory, native.pc + 2)
  <2>1. PICK k \in Int : k = native.pc + 2
    BY <1>2 DEF Word
  <2> QED
    BY <1>2, <2>1, OpInWord, MachineFields
<1>4. next \div 4096 = 1 /\ Block.folded_target = IMMEDIATE12(next) /\ Kind(next) = "jump"
  <2>1. Block.folded /\ Kind(Block.op) \in SkipKinds
    BY <1>1, <1>2, RunningFacts DEF NativeInTrace, Turns, InTurns, Turned, Block
  <2>2. next \div 4096 = 1 /\ Block.folded_target = IMMEDIATE12(next)
    BY <1>2, <1>3, <2>1, FoldedIn
  <2>3. next \notin {224, 238}
    BY <2>2
  <2> QED
    BY <2>2, <2>3 DEF Kind
<1>5. PICK b \in Word : b = native.pc + 2 /\ b % 65536 = b
  BY <1>2, MemorySize DEF Address, Word
<1>6. PICK a \in Word : a = Block.folded_target /\ a % 65536 = a
  <2>1. Block.folded_target \in Word
    BY <1>2, AddressInWord DEF Blocks
  <2> QED
    BY <2>1 DEF Word
<1>7. PICK n \in Machines : n = [vm EXCEPT !.pc = b] /\ n.memory = vm.memory /\ n.pc = b
  BY <1>2, MachineAt
<1>8. Reported = SyncTimers(n)
  BY <1>1, <1>5, <1>7 DEF Reported, ArchitecturalPc
<1>9. Abstract!Op = next
  <2>1. Reported.memory = vm.memory /\ Reported.pc = b
    BY <1>7, <1>8, SyncTimersKeeps
  <2>2. OpAt(vm.memory, b) = next
    BY <1>3, <1>5
  <2> QED
    BY <2>1, <2>2 DEF Abstract!Op
<1>10. PICK m \in Machines : m = Retire(n) /\ Level(m, Retire(Reported))
  BY <1>7, <1>8, LevelSynced, LevelRetire, RetireType
<1>11. PICK r \in Hosts : r = [Host EXCEPT !.vm = Retire(@)] /\ r.vm = Retire(vm)
  <2>1. [Host EXCEPT !.vm = Retire(@)].vm = Retire(vm)
    BY <1>1, HostType DEF Hosts
  <2> QED
    BY <1>1, <2>1, HostType, RetiredHost
<1>12. Reported' = SyncTimers([r.vm EXCEPT !.pc = a])
  <2>1. PICK s \in Hosts : s = Safepoint(r)
    BY SafepointSame
  <2>2. [[s.vm EXCEPT !.pc = a] EXCEPT !.pc = a] = [s.vm EXCEPT !.pc = a]
    BY DEF Hosts, Machines
  <2>3. PICK closed : closed = [s EXCEPT !.vm.pc = a]
    OBVIOUS
  <2>4. /\ closed \in Hosts /\ closed.vm = [s.vm EXCEPT !.pc = a] /\ closed.vm.pc = a
        /\ SyncTimers([s.vm EXCEPT !.pc = a]) = SyncTimers([r.vm EXCEPT !.pc = a])
    BY <2>1, <2>3, ClosedLevel
  <2>5. Becomes(closed)
    BY <1>1, <1>6, <1>11, <2>1, <2>3
  <2>6. phase' = "native" => native'.pc = a /\ native'.folded = FALSE
    <3>1. PICK k : k = [native EXCEPT !.pc = a, !.folded = FALSE]
      OBVIOUS
    <3>2. k.pc = a /\ k.folded = FALSE
      BY <1>2, <3>1
    <3>3. phase' = "native" => native' = k
      BY <1>1, <1>6, <3>1
    <3> QED
      BY <3>2, <3>3
  <2>7. Reported' = SyncTimers([closed.vm EXCEPT !.pc = a])
    BY <1>1, <2>4, <2>5, <2>6, LeftAt
  <2> QED
    BY <2>2, <2>4, <2>7
<1>13. PICK random \in RandomBytes : TRUE
  BY RandomAssumption
<1>14. Execute(next, m, random) = [r.vm EXCEPT !.pc = a]
  <2>1. Execute(next, m, random) = [m EXCEPT !.pc = a]
    BY <1>4, <1>6, ExecuteJump DEF At
  <2>2. [m EXCEPT !.pc = a] = [r.vm EXCEPT !.pc = a]
    <3>1. m = [Retire(vm) EXCEPT !.pc = b]
      BY <1>2, <1>7, <1>10 DEF Retire, Machines
    <3>2. Retire(vm) \in Machines /\ r.vm = Retire(vm)
      BY <1>2, <1>11, RetireType
    <3>3. \A k \in Machines : [[k EXCEPT !.pc = b] EXCEPT !.pc = a] = [k EXCEPT !.pc = a]
      BY DEF Machines
    <3> QED
      BY <3>1, <3>2, <3>3
  <2> QED
    BY <2>1, <2>2
<1>15. ~Faults(next, m) /\ Kind(next) \notin TimerKinds
  BY <1>4 DEF Faults, TimerKinds
<1>16. Reported' = SyncTimers(Execute(next, m, random))
  BY <1>12, <1>14
<1> QED
  BY <1>1, <1>3, <1>9, <1>10, <1>13, <1>15, <1>16, Executes

\* An instruction that ends in an ERROR ends the program.
LEMMA RunErrerImplements ==
  ASSUME IInv, RunErrer
  PROVE  Abstract!Fault
<1> DEFINE op == Block.op
<1>1. phase = "native" /\ ~native.folded /\ phase' = "errer" /\ native' = native
  BY DEF RunErrer, Running
<1>2. TypeOK /\ native.pc \in Word /\ RunningOp = op /\ vm \in Machines
  BY <1>1, RunningFacts DEF IInv
<1>3. PICK before \in Hosts : before = Prepared(op, Arrived) /\ before.vm \in Machines
  BY <1>2, ArrivedSame, PreparedSame DEF Hosts
<1>4. Faults(op, before.vm) /\ Becomes(before)
  BY <1>2, <1>3 DEF RunErrer
<1>5. PICK m \in Machines : m = [before.vm EXCEPT !.pc = native.pc] /\ m.stack = before.vm.stack
  BY <1>2, <1>3, MachineAt
<1>6. Abstract!Op = op /\ Level(m, Retire(Reported))
  BY <1>1, <1>3, <1>5, ExecutedOnLevel DEF ExecutedOn
<1>7. Level(m, SyncTimers(Retire(Reported))) /\ SyncTimers(m) = SyncTimers(Retire(Reported))
  BY <1>6, LevelSynced, LevelTransitive DEF Level
<1>8. Faults(op, m)
  BY <1>4, <1>5 DEF Faults
<1>9. Faults(op, SyncTimers(Retire(Reported)))
  BY <1>7, <1>8, LevelKeepsFaults
<1>10. Reported' = SyncTimers(m)
  <2>1. (native.pc + 0) % 65536 = native.pc
    BY <1>2 DEF Word
  <2>2. ArchitecturalPc' = native.pc
    BY <1>1, <2>1 DEF ArchitecturalPc
  <2> QED
    BY <1>4, <1>5, <2>2 DEF Reported, Becomes
<1> QED
  BY <1>1, <1>6, <1>7, <1>9, <1>10 DEF Abstract!Fault, Abstract!Retired

\* Whatever leaves the machine, its timers aside, and the place in the program
\* alone is invisible.
LEMMA Invisible ==
  ASSUME IInv, IInv', phase # "errer", phase' # "errer", ArchitecturalPc' = ArchitecturalPc,
         vm' = vm \/ vm' = SyncTimers(vm), ArchitecturalPc \in Word
  PROVE  UNCHANGED Abstract!vars
<1>1. vm \in Machines
  BY DEF IInv, TypeOK
<1>2. PICK a \in Word : a = ArchitecturalPc
  OBVIOUS
<1>3. Level(vm, vm')
  BY <1>1, LevelSynced
<1>4. Reported = SyncTimers([vm EXCEPT !.pc = a]) /\ Reported' = SyncTimers([vm' EXCEPT !.pc = a])
  BY <1>2 DEF Reported
<1>5. Reported' = Reported
  BY <1>3, <1>4, LevelAt DEF Level
<1> QED
  BY <1>5 DEF Abstract!vars

LEMMA HostStepInvisible ==
  ASSUME IInv, IInv', StartCodegen \/ Codegen \/ EnterTrace \/ Service
  PROVE  UNCHANGED Abstract!vars
<1>1. vm \in Machines /\ vm.pc \in Word
  BY MachineFields DEF IInv, TypeOK
<1>2. phase \notin {"native", "errer"} /\ ArchitecturalPc = vm.pc
  BY DEF StartCodegen, Codegen, EnterTrace, Service, CloseFallThrough, CompileInline, CompileEnding,
         CompileJump, CompileSkip, CompileIllegal, CompileBeyondMemory, CompilingNew, Compiling,
         ArchitecturalPc
<1>3. CASE EnterTrace
  <2>1. (vm.pc + 0) % 65536 = vm.pc
    BY <1>1 DEF Word
  <2>2. vm' = vm /\ phase' = "native" /\ native'.pc = vm.pc /\ native'.folded = FALSE
    BY <1>3 DEF EnterTrace, host
  <2>3. ArchitecturalPc' = vm.pc
    BY <2>1, <2>2 DEF ArchitecturalPc
  <2> QED
    BY <1>1, <1>2, <2>2, <2>3, Invisible
<1>4. CASE Service
  <2>1. vm' = SyncTimers(vm)
    BY <1>4, CheckInterruptLevel, HostType DEF Service, Becomes, IInv
  <2>2. phase' \notin {"native", "errer"} /\ vm'.pc = vm.pc
    BY <1>1, <1>4, <2>1, SyncTimersKeeps DEF Service
  <2> QED
    BY <1>1, <1>2, <2>1, <2>2, Invisible DEF ArchitecturalPc
<1>5. CASE StartCodegen \/ Codegen
  <2>1. vm' = vm
    BY <1>5 DEF StartCodegen, Codegen, CloseFallThrough, CompileInline, CompileEnding, CompileJump,
                CompileSkip, CompileIllegal, CompileBeyondMemory, CompilingNew, Compiling, CodegenVars, host
  <2>2. phase' \notin {"native", "errer"}
    BY <1>2, <1>5 DEF StartCodegen, Codegen, CloseFallThrough, CompileInline, CompileEnding, CompileJump,
                CompileSkip, CompileIllegal, CompileBeyondMemory, CompilingNew, Compiling, Install, Continue
  <2> QED
    BY <1>1, <1>2, <2>1, <2>2, Invisible DEF ArchitecturalPc
<1> QED
  BY <1>3, <1>4, <1>5

LEMMA InitImplements == Init => Abstract!Init
<1> SUFFICES ASSUME Init PROVE Abstract!Init
  OBVIOUS
<1>1. PICK rom \in ROMs : vm = Booted(rom)
  BY DEF Init
<1>2. phase = "dispatch"
  BY DEF Init
<1>3. [vm EXCEPT !.pc = vm.pc] = vm
  BY <1>1, BootedType DEF Machines
<1>4. Reported = vm
  BY <1>1, <1>2, <1>3, BootedStart DEF Reported, ArchitecturalPc
<1> QED
  BY <1>1, <1>2, <1>4, BootedStart DEF Abstract!Init

\* The compiled program is the program: native loops, folded jumps, code
\* compiled from memory that has since been written, lazily counted timers,
\* safepoints and flushes change nothing of what the abstract machine does,
\* instruction for instruction, for every ROM and all interval constants.
THEOREM CompiledProgram == Spec => ImplementsMachine
<1>1. (IInv /\ Turns) /\ (IInv /\ Turns)' /\ [Next]_vars => [Abstract!Next]_(Abstract!vars)
  <2> SUFFICES ASSUME IInv, Turns, IInv', [Next]_vars PROVE [Abstract!Next]_(Abstract!vars)
    OBVIOUS
  <2>1. CASE UNCHANGED vars
    BY <2>1 DEF vars, Abstract!vars, Reported, ArchitecturalPc
  <2>2. CASE StartCodegen \/ Codegen \/ EnterTrace \/ Service
    BY <2>2, HostStepInvisible
  <2>3. CASE RunBlock
    BY <2>3, RunBlockImplements DEF Abstract!Next
  <2>4. CASE RunSkipNotTaken
    BY <2>4, RunSkipNotTakenImplements DEF Abstract!Next
  <2>5. CASE RunFoldedJump
    BY <2>5, RunFoldedJumpImplements DEF Abstract!Next
  <2>6. CASE RunErrer
    BY <2>6, RunErrerImplements DEF Abstract!Next
  <2> QED
    BY <2>1, <2>2, <2>3, <2>4, <2>5, <2>6 DEF Next, Run, Halted
<1>2. IInv /\ Turns /\ [Next]_vars => (IInv /\ Turns)'
  BY Inductive, TurnsNext
<1>3. Init => IInv /\ Turns
  BY InitInvariant, TurnsInit
<1> QED
  BY <1>1, <1>2, <1>3, InitImplements, PTL DEF Spec, ImplementsMachine, Abstract!Spec

----------------------------------------------------------------------------
\* How long native code runs unobserved, and how far past the end of a run.

\* No slow safepoint is due later than one interval after the budget, and the
\* run is noticed to be over there.
SlowLimit == BUDGET + BENCH_SAFEPOINT_INTERVAL

Due(h, count) == ~h.over => h.next < SlowLimit /\ h.vm.retired < SlowLimit + count

\* A run that is over has spent its budget or its clock.
Caused(h) == h.over => BenchDone(h.vm)

\* The host h, count instructions after a safepoint.
Paced(h, count) == Caused(h) /\ Due(h, count)

\* Instructions since the last safepoint, by how far into a trace they are.
Latency ==
  /\ phase \in {"dispatch", "codegen"} => unchecked = 0
  /\ phase = "native" /\ ~native.folded /\ ~Block.safepoint =>
       unchecked <= Block.turn % SAFEPOINT_INTERVAL
  /\ phase = "native" /\ native.folded => unchecked <= 1 + (Block.turn % SAFEPOINT_INTERVAL)
  /\ unchecked <= SAFEPOINT_INTERVAL

\* The most instructions a trace retires before it is left: turns only grow
\* along a trace, and a back edge is not taken once the run is over.
Ahead ==
  IF phase # "native" THEN 0
  ELSE IF native.folded THEN 1
  ELSE MEMORY_SIZE + 1 - Block.turn

OverrunLimit == SlowLimit + SAFEPOINT_INTERVAL + MEMORY_SIZE

Overrun ==
  /\ phase \in {"dispatch", "codegen", "failed", "undefined"} => ~program_over
  /\ phase = "exited" => program_over
  /\ program_over \/ phase = "errer" => vm.retired + Ahead <= OverrunLimit

Pace == (phase # "errer" => Paced(Host, unchecked)) /\ Latency /\ Overrun

LEMMA BenchDoneStays ==
  ASSUME NEW m \in Machines, NEW n \in Machines,
         n.retired >= m.retired, n.poll_clock >= m.poll_clock, BenchDone(m)
  PROVE  BenchDone(n)
<1>1. /\ m.retired \in Nat /\ m.poll_clock \in Nat /\ n.retired \in Nat /\ n.poll_clock \in Nat
      /\ CLOCK_CAP \in Nat /\ BUDGET \in Nat
  BY CapInNat, MachineFields, BenchAssumption
<1> QED
  BY <1>1 DEF BenchDone

LEMMA SyncTimersRun ==
  ASSUME NEW m \in Machines
  PROVE  SyncTimers(m).retired = m.retired /\ SyncTimers(m).poll_clock = m.poll_clock
  BY SyncedFields DEF Alike

LEMMA CheckInterruptRun ==
  ASSUME NEW h \in Hosts
  PROVE  \E k \in Hosts :
           /\ k = CheckInterrupt(h) /\ k.next = h.next
           /\ k.vm.retired = h.vm.retired /\ k.vm.poll_clock = h.vm.poll_clock
           /\ k.over <=> h.over \/ BenchDone(k.vm)
<1>1. PICK k \in Hosts : k = CheckInterrupt(h)
  BY CheckInterruptSame
<1>2. h.vm \in Machines
  BY DEF Hosts
<1>3. k.vm = SyncTimers(h.vm) /\ k.next = h.next /\ (k.over <=> h.over \/ BenchDone(SyncTimers(h.vm)))
  BY <1>1 DEF CheckInterrupt, Hosts
<1> QED
  BY <1>1, <1>2, <1>3, SyncTimersRun

\* The next slow safepoint is due within the interval.
LEMMA AdvancedBound ==
  ASSUME NEW next \in Nat, NEW retired \in Nat, retired >= next
  PROVE  Advanced(next, retired) <= retired + BENCH_SAFEPOINT_INTERVAL
<1>1. PICK k \in Nat \ {0} : k = BENCH_SAFEPOINT_INTERVAL
  BY IntervalsAssumption
<1>2. PICK gap \in Nat : gap = retired - next
  OBVIOUS
<1>3. PICK q \in Nat : q = gap \div k /\ q * k <= gap
  <2>1. /\ gap \div k \in Nat /\ gap % k \in 0 .. k - 1
        /\ gap = (gap \div k) * k + (gap % k)
    BY <1>1, <1>2, Division
  <2> QED
    BY <2>1
<1>4. k * (1 + q) = k + q * k
  BY <1>1, <1>3
<1>5. next + k * (1 + q) <= retired + k
  BY <1>2, <1>3, <1>4
<1> QED
  BY <1>1, <1>2, <1>3, <1>5 DEF Advanced

\* A safepoint ends what was counted; once over, over.
LEMMA SafepointRun ==
  ASSUME NEW h \in Hosts, NEW count \in Nat, Caused(h), Due(h, count)
  PROVE  \E k \in Hosts :
           /\ k = Safepoint(h)
           /\ k.vm.retired = h.vm.retired /\ k.vm.poll_clock = h.vm.poll_clock
           /\ h.over => k.over
           /\ Caused(k) /\ Due(k, 0)
<1>1. /\ h.vm \in Machines /\ h.next \in Nat /\ h.vm.retired \in Nat /\ BUDGET \in Nat
      /\ BENCH_SAFEPOINT_INTERVAL \in Nat
  BY MachineFields, BenchAssumption, IntervalsAssumption DEF Hosts
<1>2. CASE h.vm.retired >= h.next
  <2>1. PICK c \in Hosts :
          /\ c = CheckInterrupt(h) /\ c.next = h.next
          /\ c.vm.retired = h.vm.retired /\ c.vm.poll_clock = h.vm.poll_clock
          /\ c.over <=> h.over \/ BenchDone(c.vm)
    BY CheckInterruptRun
  <2>2. PICK a \in Nat : a = Advanced(h.next, h.vm.retired) /\ a <= h.vm.retired + BENCH_SAFEPOINT_INTERVAL
    BY <1>1, <1>2, AdvancedInNat, AdvancedBound
  <2>3. PICK k : k = [c EXCEPT !.next = a] /\ k \in Hosts /\ k.vm = c.vm /\ k.next = a /\ k.over = c.over
    <3>1. PICK k : k = [c EXCEPT !.next = a]
      OBVIOUS
    <3>2. k \in Hosts /\ k.vm = c.vm /\ k.next = a /\ k.over = c.over
      BY <3>1 DEF Hosts
    <3> QED
      BY <3>1, <3>2
  <2>4. k = Safepoint(h)
    BY <1>2, <2>1, <2>2, <2>3 DEF Safepoint
  <2>5. c.vm \in Machines
    BY DEF Hosts
  <2>6. Caused(k)
    <3>1. c.vm.retired >= h.vm.retired /\ c.vm.poll_clock >= h.vm.poll_clock
      BY <1>1, <2>1, MachineFields
    <3>2. h.over => BenchDone(c.vm)
      BY <1>1, <2>5, <3>1, BenchDoneStays DEF Caused
    <3> QED
      BY <2>1, <2>3, <3>2 DEF Caused
  <2>7. Due(k, 0)
    <3> SUFFICES ASSUME ~k.over PROVE k.next < SlowLimit /\ k.vm.retired < SlowLimit
      BY <1>1, <2>1, <2>3 DEF Due, SlowLimit
    <3>1. ~BenchDone(c.vm)
      BY <2>1, <2>3
    <3>2. h.vm.retired < BUDGET
      BY <1>1, <2>1, <3>1 DEF BenchDone
    <3> QED
      BY <1>1, <2>1, <2>2, <2>3, <3>2 DEF SlowLimit
  <2> QED
    BY <2>1, <2>3, <2>4, <2>6, <2>7
<1>3. CASE ~(h.vm.retired >= h.next)
  <2>1. Safepoint(h) = h
    BY <1>3 DEF Safepoint
  <2>2. Due(h, 0)
    BY <1>1, <1>3 DEF Due, SlowLimit
  <2> QED
    BY <2>1, <2>2
<1> QED
  BY <1>2, <1>3

\* k is the host h some polls later.
Carries(h, k) ==
  /\ k \in Hosts /\ k.next = h.next
  /\ k.vm.retired = h.vm.retired /\ k.vm.poll_clock >= h.vm.poll_clock
  /\ h.over => k.over
  /\ k.over => h.over \/ BenchDone(k.vm)

LEMMA PacedOn ==
  ASSUME NEW h \in Hosts, NEW k, Carries(h, k), NEW count \in Nat, Paced(h, count)
  PROVE  Paced(k, count)
<1>1. /\ h.vm \in Machines /\ k.vm \in Machines /\ k \in Hosts
      /\ k.vm.retired = h.vm.retired /\ k.vm.poll_clock >= h.vm.poll_clock
  BY DEF Carries, Hosts
<1>2. k.vm.retired >= h.vm.retired
  BY <1>1, MachineFields
<1>3. BenchDone(h.vm) => BenchDone(k.vm)
  BY <1>1, <1>2, BenchDoneStays
<1>4. Caused(k)
  BY <1>3 DEF Carries, Paced, Caused
<1>5. Due(k, count)
  BY DEF Carries, Paced, Due
<1> QED
  BY <1>4, <1>5 DEF Paced

LEMMA CarriesSelf ==
  ASSUME NEW h \in Hosts
  PROVE  Carries(h, h)
<1>1. h.vm.poll_clock \in Nat
  BY MachineFields DEF Hosts
<1> QED
  BY <1>1 DEF Carries

LEMMA CarriesTransitive ==
  ASSUME NEW h \in Hosts, NEW k, NEW l, Carries(h, k), Carries(k, l)
  PROVE  Carries(h, l)
<1>1. /\ h.vm \in Machines /\ k.vm \in Machines /\ l.vm \in Machines /\ l.vm.retired = k.vm.retired
      /\ l.vm.poll_clock >= k.vm.poll_clock /\ k.vm.poll_clock >= h.vm.poll_clock
      /\ k.vm.retired = h.vm.retired
  BY DEF Carries, Hosts
<1>2. l.vm.retired >= k.vm.retired /\ l.vm.poll_clock >= h.vm.poll_clock
  BY <1>1, MachineFields
<1>3. BenchDone(k.vm) => BenchDone(l.vm)
  BY <1>1, <1>2, BenchDoneStays
<1> QED
  BY <1>1, <1>2, <1>3 DEF Carries

LEMMA CheckInterruptCarries ==
  ASSUME NEW h \in Hosts
  PROVE  Carries(h, CheckInterrupt(h))
<1>1. h.vm.poll_clock \in Nat
  BY MachineFields DEF Hosts
<1> QED
  BY <1>1, CheckInterruptRun DEF Carries

LEMMA PcCarries ==
  ASSUME NEW h \in Hosts, NEW a \in Word
  PROVE  Carries(h, [h EXCEPT !.vm.pc = a])
<1>1. h.vm \in Machines /\ h.vm.poll_clock \in Nat
  BY MachineFields DEF Hosts
<1>2. PICK m \in Machines : m = [h.vm EXCEPT !.pc = a]
  BY <1>1, MachineAt
<1>3. m.retired = h.vm.retired /\ m.poll_clock = h.vm.poll_clock
  BY <1>1, <1>2 DEF Machines
<1>4. [h EXCEPT !.vm.pc = a] = [h EXCEPT !.vm = m]
  BY <1>2 DEF Hosts
<1>5. PICK k : k = [h EXCEPT !.vm = m]
  OBVIOUS
<1>6. k \in Hosts /\ k.vm = m /\ k.next = h.next /\ k.over = h.over
  BY <1>5 DEF Hosts
<1>7. Carries(h, k)
  BY <1>1, <1>3, <1>6 DEF Carries
<1> QED
  BY <1>4, <1>5, <1>7

LEMMA PreparedCarries ==
  ASSUME NEW h \in Hosts, NEW op
  PROVE  Carries(h, Prepared(op, h))
<1>1. h.vm \in Machines /\ h.vm.poll_clock \in Nat
  BY MachineFields DEF Hosts
<1>2. PICK m \in Machines : m = SyncTimers(h.vm) /\ m.retired = h.vm.retired /\ m.poll_clock = h.vm.poll_clock
  BY <1>1, SyncTimersType, SyncTimersRun
<1>3. PICK k : k = [h EXCEPT !.vm = m]
  OBVIOUS
<1>4. k \in Hosts /\ k.vm = m /\ k.next = h.next /\ k.over = h.over
  BY <1>3 DEF Hosts
<1>5. Carries(h, k)
  BY <1>1, <1>2, <1>4 DEF Carries
<1>6. [h EXCEPT !.vm = SyncTimers(@)] = k
  BY <1>2, <1>3
<1> QED
  BY <1>5, <1>6, CheckInterruptCarries, CarriesSelf DEF Prepared

LEMMA RetiredPaced ==
  ASSUME NEW h \in Hosts, NEW count \in Nat, Paced(h, count)
  PROVE  \E k \in Hosts :
           /\ k = [h EXCEPT !.vm = Retire(@)]
           /\ k.vm.retired = h.vm.retired + 1 /\ (h.over => k.over)
           /\ Paced(k, count + 1)
<1>1. h.vm \in Machines /\ h.vm.retired \in Nat /\ h.vm.poll_clock \in Nat
  BY MachineFields DEF Hosts
<1>2. PICK m \in Machines : m = Retire(h.vm)
  BY <1>1, RetireType
<1>3. m.retired = h.vm.retired + 1 /\ m.poll_clock = h.vm.poll_clock
  BY <1>1, <1>2 DEF Retire, Machines
<1>4. PICK k : k = [h EXCEPT !.vm = m]
  OBVIOUS
<1>5. k \in Hosts /\ k.vm = m /\ k.next = h.next /\ k.over = h.over
  BY <1>4 DEF Hosts
<1>6. BenchDone(h.vm) => BenchDone(m)
  <2>1. m.retired >= h.vm.retired /\ m.poll_clock >= h.vm.poll_clock
    BY <1>1, <1>3
  <2> QED
    BY <1>1, <2>1, BenchDoneStays
<1>7. Caused(k)
  BY <1>5, <1>6 DEF Paced, Caused
<1>8. Due(k, count + 1)
  <2>1. SlowLimit \in Nat
    BY BenchAssumption, IntervalsAssumption DEF SlowLimit
  <2> QED
    BY <1>1, <1>3, <1>5, <2>1 DEF Paced, Due
<1>9. k = [h EXCEPT !.vm = Retire(@)]
  BY <1>2, <1>4
<1> QED
  BY <1>3, <1>5, <1>7, <1>8, <1>9 DEF Paced

\* A block's instruction is counted, from the last safepoint on.
LEMMA ArrivedPaced ==
  ASSUME TypeOK, Paced(Host, unchecked)
  PROVE  /\ Arrived \in Hosts /\ Arrived.vm.retired = vm.retired + 1
         /\ program_over => Arrived.over
         /\ Paced(Arrived, Counted)
<1> DEFINE h == IF Block.safepoint THEN Safepoint(Host) ELSE Host
           n == IF Block.safepoint THEN 0 ELSE unchecked
<1>1. Host \in Hosts /\ Host.vm = vm /\ Host.over = program_over /\ unchecked \in Nat
  BY HostType DEF TypeOK
<1>2. /\ h \in Hosts /\ h.vm.retired = vm.retired /\ (program_over => h.over) /\ n \in Nat
      /\ Paced(h, n)
  <2>1. CASE Block.safepoint
    BY <1>1, <2>1, SafepointRun DEF Paced
  <2>2. CASE ~Block.safepoint
    BY <1>1, <2>2
  <2> QED
    BY <2>1, <2>2
<1>3. Arrived = [h EXCEPT !.vm = Retire(@)] /\ Counted = 1 + n
  BY DEF Arrived, Counted
<1> HIDE DEF h, n
<1>4. PICK k \in Hosts :
        /\ k = [h EXCEPT !.vm = Retire(@)]
        /\ k.vm.retired = h.vm.retired + 1 /\ (h.over => k.over)
        /\ Paced(k, n + 1)
  BY <1>2, RetiredPaced
<1>5. Counted = n + 1
  BY <1>2, <1>3
<1> QED
  BY <1>2, <1>3, <1>4, <1>5

LEMMA HostBecomes ==
  ASSUME NEW h \in Hosts, Becomes(h)
  PROVE  Host' = h
<1>1. h = [vm |-> h.vm, next |-> h.next, over |-> h.over]
  BY DEF Hosts
<1> QED
  BY <1>1 DEF Becomes, Host

\* How a block that has retired its instruction is left.
LEMMA LeaveBlockPaced ==
  ASSUME NEW h \in Hosts, NEW a \in Word, NEW count \in Nat, Paced(h, count), Block \in Blocks,
         phase = "native", LeaveBlock(h, a, count)
  PROVE  /\ Host' \in Hosts /\ Paced(Host', unchecked')
         /\ vm'.retired = h.vm.retired /\ (h.over => program_over')
         /\ \/ phase' = "service" /\ unchecked' \in {0, count}
            \/ /\ phase' = "native" /\ native' = [native EXCEPT !.pc = a]
               /\ Block.exit = "open" /\ unchecked' \in {0, count}
            \/ /\ phase' = "native" /\ native' = [native EXCEPT !.pc = a]
               /\ ~program_over' /\ unchecked' = 0
<1>1. PICK closed \in Hosts :
        /\ closed = [Safepoint(h) EXCEPT !.vm.pc = a]
        /\ closed.vm.retired = h.vm.retired /\ (h.over => closed.over)
        /\ Paced(closed, 0)
  <2>1. PICK s \in Hosts :
          /\ s = Safepoint(h) /\ s.vm.retired = h.vm.retired /\ (h.over => s.over)
          /\ Paced(s, 0)
    BY SafepointRun DEF Paced
  <2>2. PICK closed : closed = [s EXCEPT !.vm.pc = a]
    OBVIOUS
  <2>3. Carries(s, closed)
    BY <2>2, PcCarries
  <2>4. Paced(closed, 0)
    BY <2>1, <2>3, PacedOn
  <2> QED
    BY <2>1, <2>2, <2>3, <2>4 DEF Carries
<1>2. ASSUME NEW k \in Hosts, Becomes(k),
             \/ k = h /\ unchecked' = count
             \/ k = closed /\ unchecked' = 0
      PROVE  /\ Host' \in Hosts /\ Paced(Host', unchecked')
             /\ vm'.retired = h.vm.retired /\ (h.over => program_over')
  <2>1. k.vm.retired = h.vm.retired /\ (h.over => k.over) /\ Paced(k, unchecked')
    BY <1>1, <1>2
  <2>2. Host' = k
    BY <1>2, HostBecomes
  <2> QED
    BY <1>2, <2>1, <2>2 DEF Becomes
<1>3. Block.exit \in {"open", "loop", "return"}
  BY DEF Blocks
<1>4. CASE Block.exit = "return"
  <2>1. /\ phase' = "service"
        /\ \/ Becomes(h) /\ unchecked' = count
           \/ Becomes(closed) /\ unchecked' = 0
    BY <1>1, <1>4 DEF LeaveBlock
  <2> QED
    BY <1>2, <2>1
<1>5. CASE Block.exit = "open"
  <2>1. /\ phase' = phase /\ native' = [native EXCEPT !.pc = a]
        /\ \/ Becomes(h) /\ unchecked' = count
           \/ Becomes(closed) /\ unchecked' = 0
    BY <1>1, <1>5 DEF LeaveBlock
  <2> QED
    BY <1>2, <1>5, <2>1
<1>6. CASE Block.exit = "loop"
  <2>1. /\ Becomes(closed) /\ unchecked' = 0
        /\ \/ phase' = "service"
           \/ ~closed.over /\ phase' = phase /\ native' = [native EXCEPT !.pc = a]
    BY <1>1, <1>6 DEF LeaveBlock
  <2>2. program_over' = closed.over
    BY <2>1 DEF Becomes
  <2> QED
    BY <1>2, <2>1, <2>2
<1> QED
  BY <1>3, <1>4, <1>5, <1>6

\* The host once the block's instruction is executed.
LEMMA LeftByCarries ==
  ASSUME IInv, phase = "native", NEW random \in RandomBytes, NEW after \in Machines,
         ExecutedOn \in Machines, ~Faults(Block.op, ExecutedOn),
         after = Execute(Block.op, ExecutedOn, random),
         LeftBy(after) \in Hosts,
         LeftBy(after).vm = [after EXCEPT !.pc = StoredPc(Block.op, after)],
         LeftBy(after).next = Prepared(Block.op, Arrived).next,
         LeftBy(after).over = (Prepared(Block.op, Arrived).over \/ GivesUp(Block.op, after))
  PROVE  Carries(Arrived, LeftBy(after))
<1>1. Arrived \in Hosts /\ Block.op \in Word
  BY ArrivedSame, RunningFacts DEF IInv
<1>2. PICK p : p = Prepared(Block.op, Arrived) /\ p \in Hosts /\ Carries(Arrived, p)
  BY <1>1, PreparedCarries DEF Carries
<1>3. ExecutedOn.retired = p.vm.retired /\ ExecutedOn.poll_clock = p.vm.poll_clock
  BY <1>2 DEF ExecutedOn, Hosts, Machines
<1>4. after.retired = p.vm.retired /\ after.poll_clock >= p.vm.poll_clock
  BY <1>1, <1>3, RunAdvances
<1>5. PICK k \in Hosts : k = LeftBy(after)
  OBVIOUS
<1>6. k.vm.retired = after.retired /\ k.vm.poll_clock = after.poll_clock
  BY <1>5 DEF Machines
<1>7. BenchDone(k.vm) <=> BenchDone(after)
  BY <1>6 DEF BenchDone
<1>8. GivesUp(Block.op, after) => BenchDone(k.vm)
  BY <1>7 DEF GivesUp
<1>9. k.next = p.next /\ (k.over <=> p.over \/ GivesUp(Block.op, after))
  BY <1>2, <1>5
<1>10. Carries(p, k)
  BY <1>4, <1>6, <1>8, <1>9 DEF Carries
<1> QED
  BY <1>1, <1>2, <1>5, <1>10, CarriesTransitive

LEMMA PaceNumbers ==
  /\ MEMORY_SIZE \in Nat \ {0} /\ SAFEPOINT_INTERVAL \in Nat \ {0}
  /\ BUDGET \in Nat \ {0} /\ SlowLimit \in Nat /\ OverrunLimit \in Nat
  /\ OverrunLimit = SlowLimit + SAFEPOINT_INTERVAL + MEMORY_SIZE
  BY MemorySize, BenchAssumption, IntervalsAssumption DEF SlowLimit, OverrunLimit

\* What is known while a trace runs.
LEMMA RunningPace ==
  ASSUME IInv, Turns, Pace, phase = "native"
  PROVE  /\ TypeOK /\ Host \in Hosts /\ Paced(Host, unchecked) /\ unchecked \in Nat
         /\ Block \in Blocks /\ Block.turn \in Nat /\ Block.turn < MEMORY_SIZE /\ Turned(Block)
         /\ Block.exit = "open" => FollowedIn(trace_cache[native.trace], Block, native.pc)
         /\ \A a \in DOMAIN trace_cache[native.trace] :
              /\ trace_cache[native.trace][a].turn \in Nat
              /\ Turned(trace_cache[native.trace][a])
         /\ vm.retired \in Nat
         /\ vm.retired + 1 + (IF native.folded THEN 0 ELSE MEMORY_SIZE - Block.turn) <= OverrunLimit
<1>1. /\ TypeOK /\ native.trace \in DOMAIN trace_cache
      /\ native.pc \in DOMAIN trace_cache[native.trace] /\ Block \in Blocks /\ vm \in Machines
  BY RunningFacts DEF IInv
<1>2. PICK t : t = trace_cache[native.trace]
  OBVIOUS
<1>3. IsTrace(t) /\ InTurns(t)
  BY <1>1, <1>2 DEF TypeOK, Turns
<1>4. \A a \in DOMAIN t : t[a] \in Blocks /\ t[a].turn \in Nat /\ Turned(t[a])
  BY <1>3 DEF IsTrace, InTurns, Blocks
<1>5. Block = t[native.pc] /\ native.pc \in DOMAIN t
  BY <1>1, <1>2 DEF Block
<1>6. /\ Turned(Block) /\ Block.turn \in Nat /\ Block.turn < MEMORY_SIZE
      /\ Block.exit = "open" => FollowedIn(t, Block, native.pc)
  BY <1>3, <1>4, <1>5 DEF InTurns, Turned
<1>7. Host \in Hosts /\ Host.vm = vm /\ Host.over = program_over /\ unchecked \in Nat
  BY <1>1, HostType DEF TypeOK
<1>8. vm.retired \in Nat
  BY <1>1, MachineFields
<1>9. vm.retired + 1 + (IF native.folded THEN 0 ELSE MEMORY_SIZE - Block.turn) <= OverrunLimit
  <2>1. CASE program_over
    <3>1. vm.retired + Ahead <= OverrunLimit
      BY <2>1 DEF Pace, Overrun
    <3> QED
      BY <1>6, <1>8, <3>1, PaceNumbers DEF Ahead
  <2>2. CASE ~program_over
    <3>1. vm.retired < SlowLimit + unchecked
      BY <1>7, <2>2 DEF Pace, Paced, Due
    <3>2. unchecked <= SAFEPOINT_INTERVAL
      BY DEF Pace, Latency
    <3> QED
      BY <1>6, <1>7, <1>8, <3>1, <3>2, PaceNumbers
  <2> QED
    BY <2>1, <2>2
<1> QED
  BY <1>1, <1>2, <1>4, <1>6, <1>7, <1>8, <1>9 DEF Pace

\* A safepoint comes round with every SAFEPOINT_INTERVAL-th turn.
LEMMA CountedBound ==
  ASSUME IInv, Turns, Pace, phase = "native", ~native.folded
  PROVE  /\ Counted \in Nat /\ Counted <= SAFEPOINT_INTERVAL
         /\ Counted <= 1 + (Block.turn % SAFEPOINT_INTERVAL)
         /\ (Block.turn + 1) % SAFEPOINT_INTERVAL # 0 =>
              Counted <= (Block.turn + 1) % SAFEPOINT_INTERVAL
<1>1. PICK k \in Nat \ {0} : k = SAFEPOINT_INTERVAL
  BY PaceNumbers
<1>2. PICK n \in Nat : n = Block.turn
  BY RunningPace
<1>3. PICK r \in 0 .. k - 1 : r = n % k /\ ((n + 1) % k # 0 => (n + 1) % k = r + 1)
  BY Division, NextRemainder
<1>4. PICK c \in Nat : c = (IF Block.safepoint THEN 0 ELSE unchecked)
  BY RunningPace
<1>5. c <= r
  BY <1>1, <1>2, <1>3, <1>4 DEF Pace, Latency
<1>6. Counted = 1 + c
  BY <1>4 DEF Counted
<1>7. Counted \in Nat /\ Counted <= k /\ Counted <= 1 + r
  BY <1>3, <1>5, <1>6
<1> QED
  BY <1>1, <1>2, <1>3, <1>7

LEMMA PaceInit == Init => Pace
<1> SUFFICES ASSUME Init PROVE Pace
  OBVIOUS
<1>1. /\ bench_next_safepoint = BENCH_SAFEPOINT_INTERVAL /\ program_over = FALSE
      /\ phase = "dispatch" /\ unchecked = 0
  BY DEF Init
<1>2. vm \in Machines /\ vm.retired = 0
  BY BootedType DEF Init, Booted
<1>3. Host.next = BENCH_SAFEPOINT_INTERVAL /\ Host.over = FALSE /\ Host.vm.retired = 0
  BY <1>1, <1>2 DEF Host
<1>4. Paced(Host, 0)
  BY <1>3, BenchAssumption, IntervalsAssumption DEF Paced, Caused, Due, SlowLimit
<1> QED
  BY <1>1, <1>4, PaceNumbers DEF Pace, Latency, Overrun

\* Looking a trace up and compiling one.
LEMMA QuietPace ==
  ASSUME Pace, phase \in {"dispatch", "codegen"}, UNCHANGED host, unchecked' = unchecked,
         phase' \in {"dispatch", "codegen", "failed", "undefined"}
  PROVE  Pace'
<1>1. ~program_over /\ unchecked = 0 /\ Paced(Host, unchecked)
  BY DEF Pace, Overrun, Latency
<1>2. Host' = Host /\ program_over' = program_over
  BY DEF Host, host
<1> QED
  BY <1>1, <1>2, PaceNumbers DEF Pace, Overrun, Latency

LEMMA CompilingPace ==
  ASSUME Pace, StartCodegen \/ Codegen
  PROVE  Pace'
<1>1. /\ phase \in {"dispatch", "codegen"} /\ UNCHANGED host /\ unchecked' = unchecked
      /\ phase' \in {"dispatch", "codegen", "failed", "undefined"}
  BY DEF StartCodegen, Codegen, CloseFallThrough, CompileInline, CompileEnding, CompileJump,
         CompileSkip, CompileIllegal, CompileBeyondMemory, CompilingNew, Compiling, CodegenVars,
         Install, Continue
<1> QED
  BY <1>1, QuietPace

LEMMA EnterTracePace ==
  ASSUME IInv, Pace, EnterTrace
  PROVE  Pace'
<1>1. /\ phase = "dispatch" /\ phase' = "native" /\ native' = [trace |-> vm.pc, pc |-> vm.pc, folded |-> FALSE]
      /\ UNCHANGED host /\ unchecked' = unchecked /\ trace_cache' = trace_cache
      /\ vm.pc \in DOMAIN trace_cache
  BY DEF EnterTrace
<1>2. ~program_over /\ unchecked = 0 /\ Paced(Host, unchecked)
  BY <1>1 DEF Pace, Overrun, Latency
<1>3. Host' = Host /\ program_over' = program_over
  BY <1>1 DEF Host, host
<1>4. Block' = trace_cache[vm.pc][vm.pc] /\ ~native'.folded
  BY <1>1 DEF Block
<1>5. PICK n \in Nat : n = trace_cache[vm.pc][vm.pc].turn
  BY <1>1 DEF IInv, TypeOK, TracesClosed, IsTrace, Blocks
<1>6. 0 <= n % SAFEPOINT_INTERVAL
  BY PaceNumbers, Division
<1> QED
  BY <1>1, <1>2, <1>3, <1>4, <1>5, <1>6, PaceNumbers DEF Pace, Overrun, Latency

\* main's own check ends the run, or finds the budget not yet spent.
LEMMA ServicePace ==
  ASSUME IInv, Pace, Service
  PROVE  Pace'
<1>1. PICK k \in Hosts :
        /\ k = CheckInterrupt(Host) /\ k.vm.retired = vm.retired
        /\ k.over <=> program_over \/ BenchDone(k.vm)
  BY CheckInterruptRun, HostType DEF IInv
<1>2. /\ phase = "service" /\ Becomes(k) /\ unchecked' = 0
      /\ phase' = IF k.over THEN "exited" ELSE "dispatch"
  BY <1>1 DEF Service
<1>3. /\ vm.retired \in Nat /\ Host \in Hosts /\ Host.over = program_over /\ Host.vm = vm
      /\ unchecked \in Nat /\ Paced(Host, unchecked) /\ unchecked <= SAFEPOINT_INTERVAL
  BY <1>2, HostType, MachineFields DEF IInv, TypeOK, Pace, Latency
<1>4. Host' = k /\ program_over' = k.over /\ vm' = k.vm
  BY <1>2, HostBecomes DEF Becomes
<1>5. Paced(k, unchecked)
  BY <1>1, <1>3, CheckInterruptCarries, PacedOn
<1>6. Paced(k, 0)
  <2>1. ~k.over => vm.retired < BUDGET
    BY <1>1, <1>3, PaceNumbers DEF BenchDone
  <2>2. ~k.over => k.vm.retired < SlowLimit + 0
    BY <1>1, <1>3, <2>1, BenchAssumption, IntervalsAssumption DEF SlowLimit
  <2> QED
    BY <1>5, <2>2 DEF Paced, Due
<1>7. k.over => vm.retired <= OverrunLimit
  <2>1. program_over => vm.retired + 0 <= OverrunLimit
    BY <1>2 DEF Pace, Overrun, Ahead
  <2>2. ~program_over => vm.retired < SlowLimit + unchecked
    BY <1>3 DEF Paced, Due
  <2> QED
    BY <1>3, <2>1, <2>2, PaceNumbers
<1>8. Overrun'
  <2>1. vm'.retired + Ahead' = vm.retired + 0
    BY <1>1, <1>2, <1>4 DEF Ahead
  <2> QED
    BY <1>2, <1>3, <1>4, <1>7, <2>1 DEF Overrun
<1>9. Latency'
  BY <1>2, PaceNumbers DEF Latency
<1> QED
  BY <1>2, <1>4, <1>6, <1>8, <1>9 DEF Pace

\* An instruction has retired, and the trace is left,
LEMMA LeftPace ==
  ASSUME IInv, Turns, Pace, phase = "native", phase' \in {"service", "errer"},
         vm'.retired = vm.retired + 1, unchecked' \in Nat, unchecked' <= SAFEPOINT_INTERVAL,
         phase' = "service" => Paced(Host', unchecked')
  PROVE  Pace'
<1>1. PICK r \in Nat : r = vm.retired
  BY RunningPace
<1>2. r + 1 <= OverrunLimit
  <2>1. PICK n \in Nat : n = Block.turn /\ n < MEMORY_SIZE
    BY RunningPace
  <2>2. r + 1 + (IF native.folded THEN 0 ELSE MEMORY_SIZE - n) <= OverrunLimit
    BY <1>1, <2>1, RunningPace
  <2> QED
    BY <2>1, <2>2, PaceNumbers
<1>3. Ahead' = 0 /\ vm'.retired + 0 <= OverrunLimit
  BY <1>1, <1>2, PaceNumbers DEF Ahead
<1>4. Overrun'
  BY <1>3 DEF Overrun
<1>5. Latency'
  BY DEF Latency
<1> QED
  BY <1>4, <1>5 DEF Pace

\* or goes on at its next block, or, once safe, at any of its blocks.
LEMMA OnwardPace ==
  ASSUME IInv, Turns, Pace, phase = "native", phase' = "native", trace_cache' = trace_cache,
         native'.trace = native.trace, native'.folded = FALSE,
         native'.pc \in DOMAIN trace_cache[native.trace],
         vm'.retired = vm.retired + 1, Paced(Host', unchecked'),
         \/ ~program_over' /\ unchecked' = 0
         \/ /\ ~native.folded /\ Block.exit = "open" /\ native'.pc = Successor(Block, native.pc)
            /\ unchecked' \in {0, Counted}
  PROVE  Pace'
<1>1. PICK k \in Nat : k = Block'.turn /\ Turned(Block')
  BY RunningPace DEF Block
<1>2. PICK n \in Nat, r \in Nat : n = Block.turn /\ n < MEMORY_SIZE /\ r = vm.retired
  BY RunningPace
<1>3. 0 <= k % SAFEPOINT_INTERVAL
  BY PaceNumbers, Division
<1>4. CASE ~program_over' /\ unchecked' = 0
  <2>1. Overrun'
    BY <1>4 DEF Overrun
  <2>2. Latency'
    BY <1>1, <1>3, <1>4, PaceNumbers DEF Latency
  <2> QED
    BY <2>1, <2>2 DEF Pace
<1>5. CASE /\ ~native.folded /\ Block.exit = "open" /\ native'.pc = Successor(Block, native.pc)
           /\ unchecked' \in {0, Counted}
  <2>1. k = n + 1
    BY <1>1, <1>2, <1>5, RunningPace DEF FollowedIn, Block
  <2>2. PICK c \in Nat :
          /\ c = Counted /\ c <= SAFEPOINT_INTERVAL
          /\ k % SAFEPOINT_INTERVAL # 0 => c <= k % SAFEPOINT_INTERVAL
    BY <1>2, <1>5, <2>1, CountedBound
  <2>3. ~Block'.safepoint => k % SAFEPOINT_INTERVAL # 0
    BY <1>1, <1>2, <2>1 DEF Turned
  <2>4. Latency'
    BY <1>1, <1>3, <1>5, <2>2, <2>3, PaceNumbers DEF Latency
  <2>5. r + 1 + (MEMORY_SIZE - n) <= OverrunLimit
    BY <1>2, <1>5, RunningPace
  <2>6. Ahead' = MEMORY_SIZE + 1 - k
    BY <1>1 DEF Ahead
  <2>7. vm'.retired + Ahead' <= OverrunLimit
    BY <1>2, <2>1, <2>5, <2>6, PaceNumbers
  <2>8. Overrun'
    BY <2>7 DEF Overrun
  <2> QED
    BY <2>4, <2>8 DEF Pace
<1> QED
  BY <1>4, <1>5

LEMMA RunBlockPace ==
  ASSUME IInv, Turns, Pace, RunBlock
  PROVE  Pace'
<1>1. phase = "native" /\ ~native.folded /\ trace_cache' = trace_cache
  BY RunBlockFacts
<1>2. PICK random \in RandomBytes, after \in Machines :
        /\ ExecutedOn \in Machines /\ ~Faults(Block.op, ExecutedOn)
        /\ after = Execute(Block.op, ExecutedOn, random) /\ after.pc \in Word
        /\ LeftBy(after) \in Hosts /\ LeftBy(after).vm = [after EXCEPT !.pc = StoredPc(Block.op, after)]
        /\ LeftBy(after).next = Prepared(Block.op, Arrived).next
        /\ LeftBy(after).over = (Prepared(Block.op, Arrived).over \/ GivesUp(Block.op, after))
        /\ LeaveBlock(LeftBy(after), after.pc, Counted)
        /\ Block.exit # "return" =>
             /\ after.pc = Successor(Block, native.pc)
             /\ after.pc \in DOMAIN trace_cache[native.trace]
  BY RunBlockFacts
<1>3. /\ TypeOK /\ Paced(Host, unchecked) /\ Block \in Blocks /\ vm.retired \in Nat
      /\ native \in [trace: Word, pc: Word, folded: BOOLEAN]
  BY <1>1, RunningPace, RunningFacts
<1>4. PICK count \in Nat : count = Counted /\ count <= SAFEPOINT_INTERVAL
  BY <1>1, CountedBound
<1>5. /\ Arrived \in Hosts /\ Arrived.vm.retired = vm.retired + 1
      /\ program_over => Arrived.over
      /\ Paced(Arrived, count)
  BY <1>3, <1>4, ArrivedPaced
<1>6. PICK h \in Hosts :
        /\ h = LeftBy(after) /\ h.vm.retired = vm.retired + 1
        /\ program_over => h.over
        /\ Paced(h, count)
  <2>1. Carries(Arrived, LeftBy(after))
    BY <1>1, <1>2, LeftByCarries
  <2> QED
    BY <1>2, <1>4, <1>5, <2>1, PacedOn DEF Carries
<1>7. LeaveBlock(h, after.pc, count)
  BY <1>2, <1>4, <1>6
<1>8. /\ Host' \in Hosts /\ Paced(Host', unchecked')
      /\ vm'.retired = vm.retired + 1 /\ (program_over => program_over')
      /\ \/ phase' = "service" /\ unchecked' \in {0, count}
         \/ /\ phase' = "native" /\ native' = [native EXCEPT !.pc = after.pc]
            /\ Block.exit = "open" /\ unchecked' \in {0, count}
         \/ /\ phase' = "native" /\ native' = [native EXCEPT !.pc = after.pc]
            /\ ~program_over' /\ unchecked' = 0
  BY <1>1, <1>2, <1>3, <1>6, <1>7, LeaveBlockPaced
<1>9. CASE phase' = "service"
  BY <1>1, <1>4, <1>8, <1>9, PaceNumbers, LeftPace
<1>10. CASE phase' = "native"
  <2>1. native' = [native EXCEPT !.pc = after.pc]
    BY <1>8, <1>10
  <2>2. native'.pc = after.pc /\ native'.trace = native.trace /\ native'.folded = FALSE
    BY <1>1, <1>3, <2>1
  <2>3. Block.exit # "return"
    BY <1>1, <1>2, <1>3, <1>7, <1>10, <1>4, LeaveBlockResult, <1>6
  <2>4. after.pc = Successor(Block, native.pc) /\ after.pc \in DOMAIN trace_cache[native.trace]
    BY <1>2, <2>3
  <2> QED
    BY <1>1, <1>4, <1>8, <1>10, <2>2, <2>4, OnwardPace
<1> QED
  BY <1>8, <1>9, <1>10

LEMMA RunSkipNotTakenPace ==
  ASSUME IInv, Turns, Pace, RunSkipNotTaken
  PROVE  Pace'
<1>1. /\ phase = "native" /\ ~native.folded /\ trace_cache' = trace_cache /\ unchecked' = Counted
      /\ IF Block.folded
         THEN Becomes(Arrived) /\ native' = [native EXCEPT !.folded = TRUE] /\ phase' = phase
         ELSE Becomes([Arrived EXCEPT !.vm.pc = (native.pc + 2) % 65536]) /\ phase' = "service"
  BY DEF RunSkipNotTaken, Running
<1>2. /\ TypeOK /\ Paced(Host, unchecked) /\ native \in [trace: Word, pc: Word, folded: BOOLEAN]
  BY <1>1, RunningPace, RunningFacts
<1>3. PICK r \in Nat, n \in Nat :
        r = vm.retired /\ n = Block.turn /\ n < MEMORY_SIZE /\ r + 1 + (MEMORY_SIZE - n) <= OverrunLimit
  BY <1>1, RunningPace
<1>4. PICK count \in Nat :
        count = Counted /\ count <= SAFEPOINT_INTERVAL /\ count <= 1 + (n % SAFEPOINT_INTERVAL)
  BY <1>1, <1>3, CountedBound
<1>5. Arrived \in Hosts /\ Arrived.vm.retired = r + 1 /\ Paced(Arrived, count)
  BY <1>2, <1>3, <1>4, ArrivedPaced
<1>6. CASE Block.folded
  <2>1. Host' = Arrived /\ vm' = Arrived.vm /\ phase' = "native"
    BY <1>1, <1>5, <1>6, HostBecomes DEF Becomes
  <2>2. native' = [native EXCEPT !.folded = TRUE]
    BY <1>1, <1>6
  <2>3. native'.trace = native.trace /\ native'.pc = native.pc /\ native'.folded
    BY <1>2, <2>2
  <2>4. Block'.turn = n
    BY <1>1, <1>3, <2>3 DEF Block
  <2>5. Latency'
    BY <1>1, <1>4, <2>1, <2>3, <2>4 DEF Latency
  <2>6. vm'.retired + 1 <= OverrunLimit
    BY <1>3, <1>5, <2>1, PaceNumbers
  <2>7. Overrun'
    BY <2>1, <2>3, <2>6 DEF Overrun, Ahead
  <2> QED
    BY <1>1, <1>4, <1>5, <2>1, <2>5, <2>7 DEF Pace
<1>7. CASE ~Block.folded
  <2>1. PICK a \in Word : a = (native.pc + 2) % 65536
    <3>1. PICK k \in Nat : k = native.pc + 2
      BY <1>2, WordPlus
    <3> QED
      BY <3>1, WordModulo
  <2>2. PICK h : h = [Arrived EXCEPT !.vm.pc = a]
    OBVIOUS
  <2>3. Carries(Arrived, h)
    BY <1>5, <2>2, PcCarries
  <2>4. h \in Hosts /\ h.vm.retired = r + 1 /\ Paced(h, count)
    BY <1>5, <2>3, PacedOn DEF Carries
  <2>5. Becomes(h) /\ phase' = "service"
    BY <1>1, <1>7, <2>1, <2>2
  <2>6. Host' = h /\ vm' = h.vm
    BY <2>4, <2>5, HostBecomes DEF Becomes
  <2> QED
    BY <1>1, <1>3, <1>4, <2>4, <2>5, <2>6, LeftPace
<1> QED
  BY <1>6, <1>7

LEMMA RunFoldedJumpPace ==
  ASSUME IInv, Turns, Pace, RunFoldedJump
  PROVE  Pace'
<1>1. /\ phase = "native" /\ native.folded /\ trace_cache' = trace_cache /\ unchecked' = 0
  BY DEF RunFoldedJump, Running
<1>2. /\ TypeOK /\ Host \in Hosts /\ Host.vm = vm /\ unchecked \in Nat /\ Paced(Host, unchecked)
      /\ native \in [trace: Word, pc: Word, folded: BOOLEAN] /\ Block \in Blocks
      /\ Linked(Block, native.pc, DOMAIN trace_cache[native.trace])
  BY <1>1, HostType, RunningPace, RunningFacts
<1>3. PICK a \in Word : a = Block.folded_target
  BY <1>2, AddressInWord DEF Blocks
<1>4. PICK k \in Hosts :
        k = [Host EXCEPT !.vm = Retire(@)] /\ k.vm.retired = vm.retired + 1 /\ Paced(k, unchecked + 1)
  BY <1>2, RetiredPaced
<1>5. PICK s \in Hosts : s = Safepoint(k) /\ s.vm.retired = vm.retired + 1 /\ Paced(s, 0)
  <2>1. PICK n \in Nat : n = unchecked + 1
    BY <1>2
  <2> QED
    BY <1>4, <2>1, SafepointRun DEF Paced
<1>6. PICK h : h = [s EXCEPT !.vm.pc = a]
  OBVIOUS
<1>7. h \in Hosts /\ h.vm.retired = vm.retired + 1 /\ Paced(h, 0) /\ h.over = s.over
  <2>1. Carries(s, h) /\ h.over = s.over
    BY <1>6, PcCarries, HostAt
  <2> QED
    BY <1>5, <2>1, PacedOn DEF Carries
<1>8. /\ Becomes(h)
      /\ \/ /\ Block.folded_loops /\ ~s.over /\ phase' = phase
            /\ native' = [native EXCEPT !.pc = a, !.folded = FALSE]
         \/ phase' = "service"
  BY <1>3, <1>4, <1>5, <1>6 DEF RunFoldedJump
<1>9. Host' = h /\ vm' = h.vm /\ program_over' = h.over
  BY <1>7, <1>8, HostBecomes DEF Becomes
<1>10. CASE phase' = "service"
  BY <1>1, <1>7, <1>9, <1>10, PaceNumbers, LeftPace
<1>11. CASE phase' = "native"
  <2>1. Block.folded_loops /\ ~s.over /\ native' = [native EXCEPT !.pc = a, !.folded = FALSE]
    BY <1>8, <1>11
  <2>2. native'.trace = native.trace /\ native'.pc = a /\ native'.folded = FALSE
    BY <1>2, <2>1
  <2>3. a \in DOMAIN trace_cache[native.trace]
    BY <1>2, <1>3, <2>1 DEF Linked
  <2> QED
    BY <1>1, <1>7, <1>9, <1>11, <2>1, <2>2, <2>3, OnwardPace
<1> QED
  BY <1>1, <1>8, <1>10, <1>11

LEMMA RunErrerPace ==
  ASSUME IInv, Turns, Pace, RunErrer
  PROVE  Pace'
<1>1. /\ phase = "native" /\ phase' = "errer" /\ unchecked' = unchecked
      /\ Becomes(Prepared(RunningOp, Arrived))
  BY DEF RunErrer, Running
<1>2. TypeOK /\ Paced(Host, unchecked) /\ unchecked \in Nat
  BY <1>1, RunningPace
<1>3. Arrived \in Hosts /\ Arrived.vm.retired = vm.retired + 1
  BY <1>2, ArrivedPaced
<1>4. vm'.retired = vm.retired + 1
  BY <1>1, <1>3, PreparedCarries DEF Carries, Becomes
<1>5. unchecked <= SAFEPOINT_INTERVAL
  BY DEF Pace, Latency
<1> QED
  BY <1>1, <1>2, <1>4, <1>5, LeftPace

LEMMA PaceInductive == IInv /\ Turns /\ Pace /\ [Next]_vars => Pace'
<1> SUFFICES ASSUME IInv, Turns, Pace, [Next]_vars PROVE Pace'
  OBVIOUS
<1>1. CASE StartCodegen \/ Codegen
  BY <1>1, CompilingPace
<1>2. CASE EnterTrace
  BY <1>2, EnterTracePace
<1>3. CASE Service
  BY <1>3, ServicePace
<1>4. CASE RunBlock
  BY <1>4, RunBlockPace
<1>5. CASE RunSkipNotTaken
  BY <1>5, RunSkipNotTakenPace
<1>6. CASE RunFoldedJump
  BY <1>6, RunFoldedJumpPace
<1>7. CASE RunErrer
  BY <1>7, RunErrerPace
<1>8. CASE UNCHANGED vars
  BY <1>8 DEF vars, Pace, Latency, Overrun, Host, Ahead, Block
<1> QED
  BY <1>1, <1>2, <1>3, <1>4, <1>5, <1>6, <1>7, <1>8 DEF Next, Run, Halted

\* A block retires one instruction more than were unchecked before it, and a
\* folded jump one more than the skip's.
LEMMA StretchNext ==
  ASSUME IInv, Turns, Pace, [Next]_vars, SafepointLatency
  PROVE  SafepointLatency'
<1>1. SAFEPOINT_INTERVAL \in Nat \ {0} /\ unchecked \in Nat /\ unchecked <= SAFEPOINT_INTERVAL
  BY PaceNumbers DEF IInv, TypeOK, Pace, Latency
<1>2. CASE stretch' = stretch
  BY <1>2 DEF SafepointLatency
<1>3. CASE phase = "native" /\ ~native.folded /\ stretch' = Counted
  <2>1. PICK n \in Nat : n = Counted /\ n <= SAFEPOINT_INTERVAL
    BY <1>3, CountedBound
  <2> QED
    BY <1>1, <1>3, <2>1 DEF SafepointLatency
<1>4. CASE stretch' = unchecked + 1
  BY <1>1, <1>4 DEF SafepointLatency
<1>5. CASE RunBlock \/ RunSkipNotTaken \/ RunErrer
  <2>1. RunBlock => phase = "native" /\ ~native.folded /\ stretch' = Counted
    BY DEF RunBlock, Running
  <2>2. RunSkipNotTaken => phase = "native" /\ ~native.folded /\ stretch' = Counted
    BY DEF RunSkipNotTaken, Running
  <2>3. RunErrer => phase = "native" /\ ~native.folded /\ stretch' = Counted
    BY DEF RunErrer, Running
  <2> QED
    BY <1>3, <1>5, <2>1, <2>2, <2>3
<1>6. CASE RunFoldedJump
  BY <1>4, <1>6 DEF RunFoldedJump
<1>7. CASE StartCodegen \/ EnterTrace \/ Service \/ UNCHANGED vars
  BY <1>2, <1>7 DEF StartCodegen, EnterTrace, Service, vars
<1>8. CASE Codegen
  <2>1. UNCHANGED CodegenVars
    BY <1>8 DEF Codegen, CloseFallThrough, CompileInline, CompileEnding, CompileJump, CompileSkip,
                CompileIllegal, CompileBeyondMemory, CompilingNew, Compiling
  <2> QED
    BY <1>2, <2>1 DEF CodegenVars
<1> QED
  BY <1>5, <1>6, <1>7, <1>8 DEF Next, Run, Halted

\* The invariant behind the three theorems that follow.
THEOREM PaceHolds == Spec => [](IInv /\ Turns /\ Pace)
<1>1. Init => IInv /\ Turns /\ Pace
  BY InitInvariant, TurnsInit, PaceInit
<1>2. IInv /\ Turns /\ Pace /\ [Next]_vars => (IInv /\ Turns /\ Pace)'
  BY Inductive, TurnsNext, PaceInductive
<1> QED
  BY <1>1, <1>2, PTL DEF Spec

\* No native loop or skip keeps the program from a safepoint for more than
\* SAFEPOINT_INTERVAL instructions, and a jump folded into a skip adds one:
\* codegen emits a safepoint every so many turns, closes no back edge without
\* one, and emits that of a folded jump after the jump has retired.
THEOREM LooksUp == Spec => []SafepointLatency
<1>1. Init => SafepointLatency
  BY PaceNumbers DEF Init, SafepointLatency
<1>2. IInv /\ Turns /\ Pace /\ [Next]_vars /\ SafepointLatency => SafepointLatency'
  BY StretchNext
<1> QED
  BY <1>1, <1>2, PaceHolds, PTL DEF Spec

\* The dispatcher returns only when the budget or the clock is spent:
\* check_interrupt and a poll that gave up are all that set program_over, and
\* neither counter ever goes back.
THEOREM ExitsWithCause == Spec => []ExitsForCause
<1>1. Pace => ExitsForCause
  BY DEF Pace, Paced, Caused, Overrun, ExitsForCause, Host
<1> QED
  BY <1>1, PaceHolds, PTL

\* However a program is compiled, it overshoots its budget by no more than a
\* slow safepoint's interval, a safepoint's, and the length of a trace.
THEOREM OvershootsLittle == Spec => []BoundedOvershoot
<1>1. IInv /\ Turns /\ Pace => BoundedOvershoot
  <2> SUFFICES ASSUME IInv, Turns, Pace PROVE BoundedOvershoot
    OBVIOUS
  <2>1. TypeOK /\ vm.retired \in Nat /\ unchecked \in Nat /\ unchecked <= SAFEPOINT_INTERVAL
    BY MachineFields DEF IInv, TypeOK, Pace, Latency
  <2>2. CASE program_over \/ phase = "errer"
    <3>1. vm.retired + Ahead <= OverrunLimit
      BY <2>2 DEF Pace, Overrun
    <3>2. Ahead \in Nat
      <4>1. phase = "native" => Block.turn \in Nat /\ Block.turn < MEMORY_SIZE
        BY RunningPace
      <4> QED
        BY <4>1, PaceNumbers DEF Ahead
    <3> QED
      BY <2>1, <3>1, <3>2, PaceNumbers, BenchAssumption, IntervalsAssumption
         DEF BoundedOvershoot, OverrunLimit, SlowLimit
  <2>3. CASE ~program_over /\ phase # "errer"
    <3>1. vm.retired < SlowLimit + unchecked
      BY <2>1, <2>3 DEF Pace, Paced, Due, Host
    <3> QED
      BY <2>1, <3>1, PaceNumbers, BenchAssumption, IntervalsAssumption DEF BoundedOvershoot, SlowLimit
  <2> QED
    BY <2>2, <2>3
<1> QED
  BY <1>1, PaceHolds, PTL
=============================================================================
