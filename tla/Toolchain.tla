------------------------------ MODULE Toolchain ------------------------------
(***************************************************************************)
(* The tools around a ROM.  chip8-disas maps it; then either the ROM is    *)
(* executed beside its map (StaticMap), or, as README.md:131 shows, the    *)
(* source chip8-disas --asm has written is assembled again.  Without a ROM *)
(* to take apart, the assembler is given a source written by hand.         *)
(***************************************************************************)
EXTENDS StaticMap

CONSTANTS
  MAX_SYMBOLS,   \* see Assembler
  Sources        \* the sources written by hand

\* main's lines: a label and an operation that may be missing, and operands.
LineType == [label : Int, op : STRING, args : Seq([t : STRING, v : Int])]

ASSUME SourcesAssumption == \A file \in Sources : file \in Seq(LineType)

\* asm.c's table holds a label for each word of the largest image, and more.
ASSUME SymbolsAssumption == MAX_SYMBOLS \in Nat /\ 2 * MAX_SYMBOLS >= MEMORY_SIZE - ENTRYPOINT

\* The addresses in the ROMs are no wider than MEMORY_SIZE, as they cannot be in
\* a ROM for 4096 bytes.
AddressNibbles == {1, 2, 10, 11}
ASSUME AddressesAssumption ==
  \A image \in ROMs : \A i \in 1 .. Len(image) - 1 :
    i % 2 = 1 /\ image[i] \div 16 \in AddressNibbles
      => 256 * (image[i] % 16) + image[i + 1] < MEMORY_SIZE

VARIABLES
  source, pass, line, asm_pc, symbols, output   \* the assembler's state

asmvars == <<source, pass, line, asm_pc, symbols, output>>

Asm == INSTANCE Assembler WITH phase <- pass, pc <- asm_pc

toolvars == <<mapvars, asmvars>>

ToolInit ==
  /\ MapInit
  /\ source = << >> /\ pass = "waiting" /\ line = 1 /\ asm_pc = ENTRYPOINT
  /\ symbols = [label \in {} |-> 0] /\ output = << >>

\* Disassembly, and execution.
MapStep == pass = "waiting" /\ MapNext /\ UNCHANGED asmvars

HandWritten == rom = << >>

\* A file becomes the assembler's input, in place of the execution.
HandOver ==
  /\ Stopped /\ pass = "waiting" /\ vm.pc = ENTRYPOINT /\ trusted
  /\ source' \in IF HandWritten THEN Sources ELSE {Listing}
  /\ pass' = "pass1"
  /\ UNCHANGED <<mapvars, line, asm_pc, symbols, output>>

Assemble == pass # "waiting" /\ Asm!Next /\ UNCHANGED mapvars

ToolNext == MapStep \/ HandOver \/ Assemble

ToolSpec == ToolInit /\ [][ToolNext]_toolvars

\* Each tool is one thread of straight-line code: the disassembler goes on
\* until it has stopped (weak fairness of Next, its guard written out).
ToolFairSpec == ToolSpec /\ ([]<>Stopped \/ []<><<Next>>_vars)

----------------------------------------------------------------------------
\* The assembler's invariants, see Assembler.
PassesAgree == pass # "waiting" => Asm!PassesAgree
OutputRight == pass # "waiting" => Asm!OutputRight
AcceptsWellFormed == pass # "waiting" => Asm!AcceptsWellFormed

(***************************************************************************)
(* README.md:112 and test_asm.py: a ROM survives "when you round-trip a    *)
(* ROM", byte for byte: dead words, unknown opcodes, a trailing byte, y    *)
(* nibbles of shifts and references printed by label or by number.         *)
(***************************************************************************)
RebuildsRom == pass = "done" /\ ~HandWritten => output = rom

(***************************************************************************)
(* What the disassembler prints is source the assembler accepts: no label  *)
(* missing, twice, or too many, no line it does not read.                  *)
(***************************************************************************)
ListingAssembles == pass = "failed" => HandWritten
=============================================================================
