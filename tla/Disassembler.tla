---------------------------- MODULE Disassembler ----------------------------
(***************************************************************************)
(* The static disassembler disas.c: leader analysis, recursive descent     *)
(* with an explicit work list, gluing of the unreachable blocks, and the   *)
(* assembler source it prints with --asm.                                  *)
(*                                                                         *)
(* One instruction of the descent is one action.  class[] is kept as two   *)
(* sets: code is reach itself (the two are written together), data is the  *)
(* rest that was marked.  Prose output and the region map's layout are     *)
(* left out.                                                               *)
(***************************************************************************)
EXTENDS Statements, FiniteSets

CONSTANTS
  MEMORY_SIZE,   \* 0x1000
  ENTRYPOINT,    \* 0x200
  ROMs           \* the files a run may be started on

ASSUME LayoutAssumption ==
  /\ MEMORY_SIZE \in Nat /\ MEMORY_SIZE % 2 = 0
  /\ ENTRYPOINT \in 2 .. MEMORY_SIZE /\ ENTRYPOINT % 2 = 0

ASSUME ImagesAssumption ==
  \A image \in ROMs : image \in Seq(0 .. 255) /\ Len(image) <= MEMORY_SIZE - ENTRYPOINT

VARIABLES
  rom,                 \* the bytes read from the file
  decode_unreachable,  \* --decode-unreachable
  phase,               \* where main is
  todo,                \* descend's stack, its top last
  pc,                  \* descend's position
  last_ldi,            \* the most recent LD I of the path, or NoLdi
  reach,               \* bytes on a reachable path, and class 1
  data,                \* bytes of class 2
  leader,              \* addresses that start a block
  smc_possible,
  indirect_jump_seen

vars == <<rom, decode_unreachable, phase, todo, pc, last_ldi, reach, data, leader,
          smc_possible, indirect_jump_seen>>

Phases == {"analyze", "descend", "walk", "glue", "classify", "done"}
NoLdi == -1

----------------------------------------------------------------------------
\* The image and its instructions.

End == ENTRYPOINT + Len(rom)
ByteAt(a) == IF a \in ENTRYPOINT .. End - 1 THEN rom[a - ENTRYPOINT + 1] ELSE 0
WordAt(a) == 256 * ByteAt(a) + ByteAt(a + 1)

Nibble(op) == op \div 4096
Xof(op) == (op \div 256) % 16
Yof(op) == (op \div 16) % 16
NNN(op) == op % MEMORY_SIZE
KK(op) == op % 256
N(op) == op % 16

MiscOpcodes == {7, 10, 21, 24, 30, 41, 51, 85, 101}

\* Mutant of ValidOpcode: the last of the 8xyn is missing.
ValidOpcodeButShl(op) ==
  \/ op \in {224, 238}
  \/ Nibble(op) \in {1, 2, 3, 4, 6, 7, 10, 11, 12, 13}
  \/ Nibble(op) \in {5, 9} /\ N(op) = 0
  \/ Nibble(op) = 8 /\ N(op) \in 0 .. 7
  \/ Nibble(op) = 14 /\ KK(op) \in {158, 161}
  \/ Nibble(op) = 15 /\ KK(op) \in MiscOpcodes

\* valid_opcode
ValidOpcode(op) ==
  \/ op \in {224, 238}
  \/ Nibble(op) \in {1, 2, 3, 4, 6, 7, 10, 11, 12, 13}
  \/ Nibble(op) \in {5, 9} /\ N(op) = 0
  \/ Nibble(op) = 8 /\ N(op) \in 0 .. 7 \cup {14}
  \/ Nibble(op) = 14 /\ KK(op) \in {158, 161}
  \/ Nibble(op) = 15 /\ KK(op) \in MiscOpcodes

\* labelable
Labelable(a) == a >= ENTRYPOINT /\ a + 1 < End /\ a % 2 = 0

----------------------------------------------------------------------------
\* analyze: the leaders, without regard to reachability.

Words == {a \in ENTRYPOINT .. End - 2 : a % 2 = 0}

SkipsNext(op) ==
  \/ Nibble(op) \in {3, 4}
  \/ Nibble(op) \in {5, 9} /\ N(op) = 0
  \/ Nibble(op) = 14 /\ KK(op) \in {158, 161}

EndsBlock(op) == op = 238 \/ Nibble(op) \in {1, 11}

Targets == {NNN(WordAt(a)) : a \in {w \in Words : Nibble(WordAt(w)) \in {1, 2}}}
Skips == {a \in Words : SkipsNext(WordAt(a))}
Enders == {a \in Words : EndsBlock(WordAt(a))}
Boundaries == {a + 2 : a \in Skips \cup Enders} \cup {a + 4 : a \in Skips}

Init ==
  /\ rom \in ROMs
  /\ decode_unreachable \in BOOLEAN
  /\ phase = "analyze"
  /\ todo = << >>
  /\ pc = ENTRYPOINT
  /\ last_ldi = NoLdi
  /\ reach = {}
  /\ data = {}
  /\ leader = {}
  /\ smc_possible = FALSE
  /\ indirect_jump_seen = FALSE

Analyze ==
  /\ phase = "analyze"
  /\ leader' = {ENTRYPOINT} \cup {a \in Targets : Labelable(a)} \cup {a \in Boundaries : a < End}
  /\ todo' = <<ENTRYPOINT>>
  /\ phase' = "descend"
  /\ UNCHANGED <<rom, decode_unreachable, pc, last_ldi, reach, data, smc_possible,
                 indirect_jump_seen>>

----------------------------------------------------------------------------
\* descend: a path at a time, an instruction at a time.

Settings == <<rom, decode_unreachable, leader>>

\* Mutant of Pop: the entry stays on the stack.
PopPeek ==
  /\ phase = "descend"
  /\ todo # << >>
  /\ pc' = todo[Len(todo)]
  /\ last_ldi' = NoLdi
  /\ phase' = "walk"
  /\ UNCHANGED <<Settings, todo, reach, data, smc_possible, indirect_jump_seen>>

Pop ==
  /\ phase = "descend"
  /\ todo # << >>
  /\ pc' = todo[Len(todo)]
  /\ todo' = SubSeq(todo, 1, Len(todo) - 1)
  /\ last_ldi' = NoLdi
  /\ phase' = "walk"
  /\ UNCHANGED <<Settings, reach, data, smc_possible, indirect_jump_seen>>

\* Mutant of Fresh: a path does not stop at code already walked.
FreshAlways == pc + 1 < End /\ ValidOpcode(WordAt(pc))

\* The walk may enter the word at pc.
Fresh == pc + 1 < End /\ pc \notin reach /\ ValidOpcode(WordAt(pc))

\* The end of the ROM, code already walked, or data.
EndPath ==
  /\ phase = "walk"
  /\ ~Fresh
  /\ phase' = "descend"
  /\ UNCHANGED <<Settings, todo, pc, last_ldi, reach, data, smc_possible, indirect_jump_seen>>

Op == WordAt(pc)

\* The word at pc is code.
Enter ==
  /\ phase = "walk"
  /\ Fresh
  /\ reach' = reach \cup {pc, pc + 1}
  /\ UNCHANGED Settings

\* What becomes of the path.
GoOn == pc' = pc + 2 /\ UNCHANGED phase
Stop == phase' = "descend" /\ UNCHANGED pc

Push(a) == todo' = Append(todo, a)
PushIf(condition, a) == IF condition THEN Push(a) ELSE UNCHANGED todo

\* The bytes n from the anchor on, as far as the ROM goes.
Anchored(n) == {a \in last_ldi .. last_ldi + n - 1 : a < End}

\* Mutant of MarkData: code that is also read or written becomes data.
MarkDataOverCode(n) == data' = data \cup (IF last_ldi = NoLdi THEN {} ELSE Anchored(n))

\* mark_data, if there is an anchor; the word at pc has just become code.
MarkData(n) ==
  data' = (data \ {pc, pc + 1}) \cup
          (IF last_ldi = NoLdi THEN {} ELSE Anchored(n) \ (reach \cup {pc, pc + 1}))

\* note_write
NoteWrite(n) ==
  smc_possible' = (smc_possible \/ last_ldi = NoLdi
                     \/ Anchored(n) \cap (reach \cup {pc, pc + 1}) # {})

NoData == MarkData(0) /\ UNCHANGED smc_possible

WalkReturn ==
  /\ Enter /\ Op = 238
  /\ Stop
  /\ NoData /\ UNCHANGED <<todo, last_ldi, indirect_jump_seen>>

WalkJump ==
  /\ Enter /\ Nibble(Op) = 1
  /\ PushIf(Labelable(NNN(Op)), NNN(Op))
  /\ Stop
  /\ NoData /\ UNCHANGED <<last_ldi, indirect_jump_seen>>

WalkCall ==
  /\ Enter /\ Nibble(Op) = 2
  /\ PushIf(Labelable(NNN(Op)), NNN(Op))
  /\ GoOn
  /\ NoData /\ UNCHANGED <<last_ldi, indirect_jump_seen>>

\* Mutant of WalkSkip: the instruction skipped to is forgotten.
WalkSkipFallThrough ==
  /\ Enter /\ Nibble(Op) \in {3, 4, 5, 9, 14}
  /\ GoOn
  /\ NoData /\ UNCHANGED <<todo, last_ldi, indirect_jump_seen>>

WalkSkip ==
  /\ Enter /\ Nibble(Op) \in {3, 4, 5, 9, 14}
  /\ PushIf(pc + 4 < End, pc + 4)
  /\ GoOn
  /\ NoData /\ UNCHANGED <<last_ldi, indirect_jump_seen>>

WalkLoadAddr ==
  /\ Enter /\ Nibble(Op) = 10
  /\ last_ldi' = NNN(Op)
  /\ GoOn
  /\ NoData /\ UNCHANGED <<todo, indirect_jump_seen>>

\* JP V0: its base is one possible target.
WalkBranch ==
  /\ Enter /\ Nibble(Op) = 11
  /\ indirect_jump_seen' = TRUE
  /\ PushIf(Labelable(NNN(Op)), NNN(Op))
  /\ Stop
  /\ NoData /\ UNCHANGED last_ldi

WalkDraw ==
  /\ Enter /\ Nibble(Op) = 13
  /\ MarkData(N(Op))
  /\ GoOn
  /\ UNCHANGED <<todo, last_ldi, smc_possible, indirect_jump_seen>>

\* How many bytes LD B and LD [I] write, and LD Vx, [I] reads.
StoreLength(op) == CASE KK(op) = 51 -> 3 [] KK(op) = 85 -> Xof(op) + 1 [] OTHER -> 0
LoadLength(op) == IF KK(op) = 101 THEN Xof(op) + 1 ELSE 0

WalkStore ==
  /\ Enter /\ Nibble(Op) = 15 /\ StoreLength(Op) > 0
  /\ NoteWrite(StoreLength(Op))
  /\ MarkData(StoreLength(Op))
  /\ GoOn
  /\ UNCHANGED <<todo, last_ldi, indirect_jump_seen>>

WalkLoad ==
  /\ Enter /\ Nibble(Op) = 15 /\ LoadLength(Op) > 0
  /\ MarkData(LoadLength(Op))
  /\ GoOn
  /\ UNCHANGED <<todo, last_ldi, smc_possible, indirect_jump_seen>>

WalkPlain ==
  /\ Enter
  /\ \/ Op = 224
     \/ Nibble(Op) \in {6, 7, 8, 12}
     \/ Nibble(Op) = 15 /\ StoreLength(Op) = 0 /\ LoadLength(Op) = 0
  /\ GoOn
  /\ NoData /\ UNCHANGED <<todo, last_ldi, indirect_jump_seen>>

Walk ==
  \/ WalkReturn \/ WalkJump \/ WalkCall \/ WalkSkip \/ WalkLoadAddr \/ WalkBranch
  \/ WalkDraw \/ WalkStore \/ WalkLoad \/ WalkPlain

\* The work list is empty.
Descended ==
  /\ phase = "descend"
  /\ todo = << >>
  /\ phase' = "glue"
  /\ UNCHANGED <<Settings, todo, pc, last_ldi, reach, data, smc_possible, indirect_jump_seen>>

----------------------------------------------------------------------------
\* glue_unreachable, and the class of what nobody reached.

Dead == {a \in ENTRYPOINT .. End - 1 : a \notin reach}
RunStarts == {a \in Dead : a = ENTRYPOINT \/ a - 1 \in reach}

Glued == (leader \ Dead) \cup {a \in RunStarts : Labelable(a) \/ a \in leader}

GlueUnreachable ==
  /\ phase = "glue"
  /\ leader' = Glued
  /\ phase' = "classify"
  /\ UNCHANGED <<rom, decode_unreachable, todo, pc, last_ldi, reach, data, smc_possible,
                 indirect_jump_seen>>

Classify ==
  /\ phase = "classify"
  /\ data' = IF decode_unreachable THEN data ELSE data \cup Dead
  /\ phase' = "done"
  /\ UNCHANGED <<Settings, todo, pc, last_ldi, reach, smc_possible, indirect_jump_seen>>

Stopped == phase = "done"

Halted == Stopped /\ UNCHANGED vars

Next ==
  \/ Analyze \/ Pop \/ EndPath \/ Walk \/ Descended \/ GlueUnreachable \/ Classify \/ Halted

Spec == Init /\ [][Next]_vars

\* Weak fairness of Next, the states in which it is enabled written out: main
\* is one thread of straight-line code.
FairSpec == Spec /\ ([]<>Stopped \/ []<><<Next>>_vars)

----------------------------------------------------------------------------
\* The source printed with --asm.

\* Mutant of Address: a label is printed for every address inside the ROM.
AddressNamed(nnn) == IF Labelable(nnn) THEN Name(nnn) ELSE Num(nnn)
Address(nnn) == IF nnn \in leader THEN Name(nnn) ELSE Num(nnn)

ArithmeticName(n) ==
  IF n = 14 THEN "SHL"
  ELSE <<"LD", "OR", "AND", "XOR", "ADD", "SUB", "SHR", "SUBN">>[n + 1]

MiscLine(kk, vx) ==
  CASE kk = 7  -> Plain("LD", <<vx, Special("DT")>>)
    [] kk = 10 -> Plain("LD", <<vx, Special("K")>>)
    [] kk = 21 -> Plain("LD", <<Special("DT"), vx>>)
    [] kk = 24 -> Plain("LD", <<Special("ST"), vx>>)
    [] kk = 30 -> Plain("ADD", <<Special("I"), vx>>)
    [] kk = 41 -> Plain("LD", <<Special("F"), vx>>)
    [] kk = 51 -> Plain("LD", <<Special("B"), vx>>)
    [] kk = 85 -> Plain("LD", <<Special("[I]"), vx>>)
    [] kk = 101 -> Plain("LD", <<vx, Special("[I]")>>)

\* disassemble, assembly_output; what is no instruction is kept as a word.
Decoded(op) ==
  LET vx == Reg(Xof(op))
      vy == Reg(Yof(op))
      kk == Num(KK(op))
      nibble == Nibble(op)
  IN  CASE op = 224 -> Plain("CLS", << >>)
        [] op = 238 -> Plain("RET", << >>)
        [] nibble = 1 -> Plain("JP", <<Address(NNN(op))>>)
        [] nibble = 2 -> Plain("CALL", <<Address(NNN(op))>>)
        [] nibble = 3 -> Plain("SE", <<vx, kk>>)
        [] nibble = 4 -> Plain("SNE", <<vx, kk>>)
        [] nibble = 5 /\ N(op) = 0 -> Plain("SE", <<vx, vy>>)
        [] nibble = 6 -> Plain("LD", <<vx, kk>>)
        [] nibble = 7 -> Plain("ADD", <<vx, kk>>)
        [] nibble = 8 /\ N(op) \in 0 .. 7 \cup {14} -> Plain(ArithmeticName(N(op)), <<vx, vy>>)
        [] nibble = 9 /\ N(op) = 0 -> Plain("SNE", <<vx, vy>>)
        [] nibble = 10 -> Plain("LD", <<Special("I"), Address(NNN(op))>>)
        [] nibble = 11 -> Plain("JP", <<Reg(0), Num(NNN(op))>>)
        [] nibble = 12 -> Plain("RND", <<vx, kk>>)
        [] nibble = 13 -> Plain("DRW", <<vx, vy, Num(N(op))>>)
        [] nibble = 14 /\ KK(op) = 158 -> Plain("SKP", <<vx>>)
        [] nibble = 14 /\ KK(op) = 161 -> Plain("SKNP", <<vx>>)
        [] nibble = 15 /\ KK(op) \in MiscOpcodes -> MiscLine(KK(op), vx)
        [] OTHER -> Plain(".WORD", <<Num(op)>>)

LabelAt(a) == IF a \in leader THEN a ELSE NoLabel

LineAt(a) ==
  [(IF decode_unreachable \/ a \in reach THEN Decoded(WordAt(a))
    ELSE Plain(".WORD", <<Num(WordAt(a))>>)) EXCEPT !.label = LabelAt(a)]

\* Mutant of TrailingByte: the last byte of an odd ROM is dropped.
TrailingByteLost == << >>
TrailingByte ==
  IF Len(rom) % 2 = 0 THEN << >>
  ELSE <<Labelled(LabelAt(End - 1), ".BYTE", <<Num(ByteAt(End - 1))>>)>>

\* main's last loop
Listing == [i \in 1 .. Len(rom) \div 2 |-> LineAt(ENTRYPOINT + 2 * (i - 1))] \o TrailingByte

----------------------------------------------------------------------------
\* What the descent should find: the least set of words that holds the entry
\* point and is closed under the statically known ways control goes on.

Decodable(a) == Labelable(a) /\ ValidOpcode(WordAt(a))

Follows(a) ==
  LET op == WordAt(a) IN
  CASE op = 238 -> {}
    [] Nibble(op) \in {1, 11} -> {NNN(op)}
    [] Nibble(op) = 2 -> {NNN(op), a + 2}
    [] Nibble(op) \in {3, 4, 5, 9, 14} -> {a + 2, a + 4}
    [] OTHER -> {a + 2}

Closed(S) == \A a \in S : \A b \in Follows(a) : Decodable(b) => b \in S
HoldsEntry(S) == Decodable(ENTRYPOINT) => ENTRYPOINT \in S

CodeWords == {a \in reach : a % 2 = 0}

Analyzed == phase \in {"glue", "classify", "done"}

TypeOK ==
  /\ rom \in Seq(0 .. 255) /\ Len(rom) <= MEMORY_SIZE - ENTRYPOINT
  /\ decode_unreachable \in BOOLEAN
  /\ phase \in Phases
  /\ todo \in Seq({a \in ENTRYPOINT .. MEMORY_SIZE : a % 2 = 0})
  /\ pc \in ENTRYPOINT .. MEMORY_SIZE + 1 /\ pc % 2 = 0
  /\ last_ldi \in 0 .. MEMORY_SIZE - 1 \cup {NoLdi}
  /\ reach \subseteq ENTRYPOINT .. End - 1
  /\ data \subseteq 0 .. End - 1 /\ data \cap reach = {}
  /\ leader \subseteq ENTRYPOINT .. MEMORY_SIZE
  /\ smc_possible \in BOOLEAN
  /\ indirect_jump_seen \in BOOLEAN

(***************************************************************************)
(* disas.c:144: "follow every statically known control-flow path, marking  *)
(* executed bytes as code".  The work list, with its check of the first    *)
(* byte only and paths that break off, finds exactly the least closed set: *)
(* nothing reachable is missed, nothing else is called code, and code is   *)
(* whole words.                                                            *)
(***************************************************************************)
ReachExact ==
  Analyzed =>
    /\ reach = CodeWords \cup {a + 1 : a \in CodeWords}
    /\ HoldsEntry(CodeWords)
    /\ Closed(CodeWords)
    /\ \A S \in SUBSET Words : HoldsEntry(S) /\ Closed(S) => CodeWords \subseteq S

(***************************************************************************)
(* descend's array stack[MEMORY_SIZE / 2] is written without a check: the  *)
(* work list never holds more entries, however the targets repeat, because *)
(* a word is entered once and pushes one target at most.                   *)
(***************************************************************************)
StackBounded == Len(todo) <= MEMORY_SIZE \div 2

(***************************************************************************)
(* The descent ends: loops of the program are walked once.                 *)
(***************************************************************************)
Terminates == <>Stopped
=============================================================================
