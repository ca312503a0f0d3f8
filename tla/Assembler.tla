------------------------------ MODULE Assembler ------------------------------
(***************************************************************************)
(* The two-pass assembler asm.c.  The first pass lays the lines out with   *)
(* every unknown symbol taken as 0 and defines the labels; the second lays *)
(* them out again with the symbols known, and writes the bytes.            *)
(*                                                                         *)
(* A turn of a pass over one line is one action.  Text (tokens, case, the  *)
(* length of lines and names) is left out; so are the messages of fail.    *)
(***************************************************************************)
EXTENDS Statements, FiniteSets

CONSTANTS
  MEMORY_SIZE,   \* 0x1000; the address field of an instruction is as wide
  ENTRYPOINT,    \* 0x200
  MAX_SYMBOLS,   \* 2048
  Sources        \* the files a run may be started on: sequences of lines

VARIABLES
  source,
  phase,    \* "pass1", "pass2", "done", or "failed" after fail ()
  line,     \* line_number of the next line
  pc,
  symbols,  \* label -> value
  output    \* what has been written to stdout

vars == <<source, phase, line, pc, symbols, output>>

----------------------------------------------------------------------------
\* Instructions: a fixed part, and at most one operand that is a value.

Fixed(word) == [word |-> word, operand |-> Num(0), max |-> 65535]
Valued(word, operand, max) == [word |-> word, operand |-> operand, max |-> max]
NoForm == Fixed(-1)

IsReg(operand) == operand.t = "V"

\* The low byte of Fxkk, by the special operand LD writes to or reads from.
StoreCode == [DT |-> 21, ST |-> 24, F |-> 41, B |-> 51]
FetchCode == [DT |-> 7, K |-> 10]

LoadForm(a, b) ==
  CASE a.t = "I" -> Valued(\hA000, b, MEMORY_SIZE - 1)
    [] a.t \in DOMAIN StoreCode /\ IsReg(b) -> Fixed(\hF000 + 256 * b.v + StoreCode[a.t])
    [] a.t = "[I]" /\ IsReg(b) -> Fixed(\hF055 + 256 * b.v)
    [] IsReg(a) /\ b.t \in DOMAIN FetchCode -> Fixed(\hF000 + 256 * a.v + FetchCode[b.t])
    [] IsReg(a) /\ b.t = "[I]" -> Fixed(\hF065 + 256 * a.v)
    [] IsReg(a) /\ IsReg(b) -> Fixed(\h8000 + 256 * a.v + 16 * b.v)
    [] IsReg(a) /\ b.t \notin DOMAIN FetchCode \cup {"[I]", "V"} ->
         Valued(\h6000 + 256 * a.v, b, 255)
    [] OTHER -> NoForm

ArithmeticCode == [OR |-> 1, AND |-> 2, XOR |-> 3, SUB |-> 5, SUBN |-> 7, SHR |-> 6, SHL |-> 14]

\* Two operands.
PairForm(op, a, b) ==
  CASE IsReg(a) /\ IsReg(b) /\ op = "SE" -> Fixed(\h5000 + 256 * a.v + 16 * b.v)
    [] IsReg(a) /\ IsReg(b) /\ op = "SNE" -> Fixed(\h9000 + 256 * a.v + 16 * b.v)
    [] IsReg(a) /\ IsReg(b) /\ op = "ADD" -> Fixed(\h8004 + 256 * a.v + 16 * b.v)
    [] IsReg(a) /\ IsReg(b) /\ op \in DOMAIN ArithmeticCode ->
         Fixed(\h8000 + 256 * a.v + 16 * b.v + ArithmeticCode[op])
    [] IsReg(a) /\ ~IsReg(b) /\ op = "SE" -> Valued(\h3000 + 256 * a.v, b, 255)
    [] IsReg(a) /\ ~IsReg(b) /\ op = "SNE" -> Valued(\h4000 + 256 * a.v, b, 255)
    [] IsReg(a) /\ ~IsReg(b) /\ op = "ADD" -> Valued(\h7000 + 256 * a.v, b, 255)
    [] a.t = "I" /\ IsReg(b) /\ op = "ADD" -> Fixed(\hF01E + 256 * b.v)
    [] IsReg(a) /\ op = "RND" -> Valued(\hC000 + 256 * a.v, b, 255)
    [] a = Reg(0) /\ op = "JP" -> Valued(\hB000, b, MEMORY_SIZE - 1)
    [] op = "LD" -> LoadForm(a, b)
    [] OTHER -> NoForm

\* One operand, SHR and SHL in their short form among them.
SingleForm(op, a) ==
  CASE op = "JP" -> Valued(\h1000, a, MEMORY_SIZE - 1)
    [] op = "CALL" -> Valued(\h2000, a, MEMORY_SIZE - 1)
    [] IsReg(a) /\ op = "SKP" -> Fixed(\hE09E + 256 * a.v)
    [] IsReg(a) /\ op = "SKNP" -> Fixed(\hE0A1 + 256 * a.v)
    [] IsReg(a) /\ op \in {"SHR", "SHL"} -> Fixed(\h8000 + 256 * a.v + ArithmeticCode[op])
    [] OTHER -> NoForm

\* instruction
Form(l) ==
  CASE Len(l.args) = 0 /\ l.op = "CLS" -> Fixed(\h00E0)
    [] Len(l.args) = 0 /\ l.op = "RET" -> Fixed(\h00EE)
    [] Len(l.args) = 1 -> SingleForm(l.op, l.args[1])
    [] Len(l.args) = 2 -> PairForm(l.op, l.args[1], l.args[2])
    [] Len(l.args) = 3 /\ l.op = "DRW" /\ IsReg(l.args[1]) /\ IsReg(l.args[2]) ->
         Valued(\hD000 + 256 * l.args[1].v + 16 * l.args[2].v, l.args[3], 15)
    [] OTHER -> NoForm

----------------------------------------------------------------------------
\* Lines.

Directives == {".ORG", ".BYTE", ".WORD"}
IsInstruction(l) == l.op \notin Directives \cup {""}

Malformed(l) ==
  \/ l.op = ".ORG" /\ Len(l.args) # 1
  \/ l.op \in {".BYTE", ".WORD"} /\ l.args = << >>
  \/ IsInstruction(l) /\ Form(l) = NoForm

\* The operands handed to value ().
Values(l) == IF IsInstruction(l) THEN <<Form(l).operand>> ELSE l.args

WordValues == 0 .. 65535

\* Mutant of Admitted: .ORG may move backwards.
AdmittedAnywhere(v, l, at) ==
  /\ v \in WordValues
  /\ l.op = ".ORG" => v \in ENTRYPOINT .. MEMORY_SIZE - 1
  /\ l.op = ".BYTE" => v <= 255
  /\ IsInstruction(l) => v <= Form(l).max

\* The values range (), and .ORG's own tests, admit.
Admitted(v, l, at) ==
  /\ v \in WordValues
  /\ l.op = ".ORG" => v \in ENTRYPOINT .. MEMORY_SIZE - 1 /\ v >= at
  /\ l.op = ".BYTE" => v <= 255
  /\ IsInstruction(l) => v <= Form(l).max

Defined(operand, syms) ==
  operand.t = "number" \/ (operand.t = "name" /\ operand.v \in DOMAIN syms)

\* value (): what is not known yet is 0.
Value(operand, syms) ==
  IF operand.t = "number" THEN operand.v
  ELSE IF Defined(operand, syms) THEN syms[operand.v] ELSE 0

\* line_size and instruction, where they call fail ().
Rejects(l, at, syms, resolve) ==
  \/ Malformed(l)
  \/ \E i \in DOMAIN Values(l) :
       \/ ~Admitted(Value(Values(l)[i], syms), l, at)
       \/ resolve /\ ~Defined(Values(l)[i], syms)

BigEndian(word) == <<word \div 256, word % 256>>

\* The bytes of a line laid out at an address; .ORG's are the zeros skipped.
Bytes(l, at, syms) ==
  CASE l.op = "" -> << >>
    [] l.op = ".ORG" -> [i \in 1 .. Value(l.args[1], syms) - at |-> 0]
    [] l.op = ".BYTE" -> [i \in DOMAIN l.args |-> Value(l.args[i], syms)]
    [] l.op = ".WORD" ->
         [i \in 1 .. 2 * Len(l.args) |->
            BigEndian(Value(l.args[(i + 1) \div 2], syms))[2 - (i % 2)]]
    [] IsInstruction(l) -> BigEndian(Form(l).word + Value(Form(l).operand, syms))

----------------------------------------------------------------------------
\* main

Init ==
  /\ source \in Sources
  /\ phase = "pass1"
  /\ line = 1
  /\ pc = ENTRYPOINT
  /\ symbols = [label \in {} |-> 0]
  /\ output = << >>

Line == source[line]

\* Mutant of WithLabel: a label stands for the address after its line.
WithLabelAfter ==
  IF Line.label = NoLabel THEN symbols
  ELSE [label \in DOMAIN symbols \cup {Line.label} |->
          IF label = Line.label THEN pc + Len(Bytes(Line, pc, symbols)) ELSE symbols[label]]

\* define
WithLabel ==
  IF Line.label = NoLabel THEN symbols
  ELSE [label \in DOMAIN symbols \cup {Line.label} |->
          IF label = Line.label THEN pc ELSE symbols[label]]

Undefinable ==
  Line.label # NoLabel /\
    (Line.label \in DOMAIN symbols \/ Cardinality(DOMAIN symbols) = MAX_SYMBOLS)

Reading(pass) == phase = pass /\ line <= Len(source)

\* The address after the line, as the first pass reckons it.
After == pc + Len(Bytes(Line, pc, WithLabel))

LayOut ==
  /\ Reading("pass1")
  /\ ~Undefinable
  /\ ~Rejects(Line, pc, WithLabel, FALSE)
  /\ After <= MEMORY_SIZE
  /\ symbols' = WithLabel
  /\ pc' = After
  /\ line' = line + 1
  /\ UNCHANGED <<source, phase, output>>

FailFirst ==
  /\ Reading("pass1")
  /\ \/ Undefinable \/ Rejects(Line, pc, WithLabel, FALSE)
     \/ ~Rejects(Line, pc, WithLabel, FALSE) /\ After > MEMORY_SIZE
  /\ phase' = "failed"
  /\ UNCHANGED <<source, line, pc, symbols, output>>

Rewind ==
  /\ phase = "pass1"
  /\ line > Len(source)
  /\ phase' = "pass2"
  /\ line' = 1
  /\ pc' = ENTRYPOINT
  /\ UNCHANGED <<source, symbols, output>>

\* Mutant of Emit: the gap before an .ORG is not filled.
EmitUnpadded ==
  /\ Reading("pass2")
  /\ ~Rejects(Line, pc, symbols, TRUE)
  /\ output' = output \o (IF Line.op = ".ORG" THEN << >> ELSE Bytes(Line, pc, symbols))
  /\ pc' = pc + Len(Bytes(Line, pc, symbols))
  /\ line' = line + 1
  /\ UNCHANGED <<source, phase, symbols>>

Emit ==
  /\ Reading("pass2")
  /\ ~Rejects(Line, pc, symbols, TRUE)
  /\ output' = output \o Bytes(Line, pc, symbols)
  /\ pc' = pc + Len(Bytes(Line, pc, symbols))
  /\ line' = line + 1
  /\ UNCHANGED <<source, phase, symbols>>

\* What has been written stays written.
FailSecond ==
  /\ Reading("pass2")
  /\ Rejects(Line, pc, symbols, TRUE)
  /\ phase' = "failed"
  /\ UNCHANGED <<source, line, pc, symbols, output>>

Finish ==
  /\ phase = "pass2"
  /\ line > Len(source)
  /\ phase' = "done"
  /\ UNCHANGED <<source, line, pc, symbols, output>>

Stopped == phase \in {"done", "failed"}

Halted == Stopped /\ UNCHANGED vars

Next == LayOut \/ FailFirst \/ Rewind \/ Emit \/ FailSecond \/ Finish \/ Halted

Spec == Init /\ [][Next]_vars

----------------------------------------------------------------------------
\* What the source means, without passes: every line has a place, every label
\* is the place of the line it stands before.

Lines == DOMAIN source
Labels == {source[i].label : i \in Lines} \ {NoLabel}

\* Where the line after line i goes, if line i is at place.
Beyond(i, place) ==
  LET l == source[i] IN
  IF IsInstruction(l) THEN place + 2
  ELSE IF l.op = ".BYTE" THEN place + Len(l.args)
  ELSE IF l.op = ".WORD" THEN place + 2 * Len(l.args)
  ELSE place

OrgTarget(i) == source[i].args[1]

\* The line a label stands before; of two, the first.
DefinedAt(label) ==
  CHOOSE i \in Lines : source[i].label = label /\ \A j \in 1 .. i - 1 : source[j].label # label

Places ==
  LET place[i \in 1 .. Len(source) + 1] ==
        IF i = 1 THEN ENTRYPOINT
        ELSE IF source[i - 1].op # ".ORG" THEN Beyond(i - 1, place[i - 1])
        ELSE IF OrgTarget(i - 1).t = "number" THEN OrgTarget(i - 1).v
        ELSE IF \E j \in 1 .. i - 1 : source[j].label = OrgTarget(i - 1).v
             THEN place[DefinedAt(OrgTarget(i - 1).v)]
             ELSE 0
  IN  place

Meaning == [label \in Labels |-> Places[DefinedAt(label)]]

\* A source that says where everything goes: no label twice, every reference
\* defined and in range, .ORG to a place known by then and not behind.
WellFormed ==
  /\ \A i \in Lines : ~Malformed(source[i])
  /\ Cardinality(Labels) <= MAX_SYMBOLS
  /\ \A i, j \in Lines : source[i].label = source[j].label /\ i # j => source[i].label = NoLabel
  /\ \A i \in Lines :
       /\ ~Rejects(source[i], Places[i], Meaning, TRUE)
       /\ source[i].op = ".ORG" => Places[i + 1] >= Places[i]
       /\ Places[i + 1] <= MEMORY_SIZE

TypeOK ==
  /\ source \in Sources
  /\ phase \in {"pass1", "pass2", "done", "failed"}
  /\ line \in 1 .. Len(source) + 1
  /\ pc \in ENTRYPOINT .. MEMORY_SIZE
  /\ DOMAIN symbols \subseteq Labels
  /\ \A label \in DOMAIN symbols : symbols[label] \in ENTRYPOINT .. MEMORY_SIZE
  /\ output \in Seq(0 .. 255)

(***************************************************************************)
(* The passes agree: although the first one takes every symbol it does not *)
(* know yet for 0, the second finds each label where the first defined it, *)
(* and nothing runs past the memory, which only the first one checks.      *)
(***************************************************************************)
PassesAgree ==
  phase = "pass2" =>
    /\ line <= Len(source) /\ Line.label # NoLabel => symbols[Line.label] = pc
    /\ pc = Places[line]

(***************************************************************************)
(* Whenever the second pass has got, and however it ends, each line before *)
(* has been written at its place, with every reference at its final value: *)
(* a failing assembly leaves a right beginning of the image on stdout.     *)
(***************************************************************************)
OutputRight ==
  phase \in {"pass2", "done"} =>
    /\ Len(output) = pc - ENTRYPOINT
    /\ \A i \in 1 .. line - 1 :
         \A k \in DOMAIN Bytes(source[i], Places[i], Meaning) :
           output[Places[i] - ENTRYPOINT + k] = Bytes(source[i], Places[i], Meaning)[k]

(***************************************************************************)
(* The assembler accepts exactly the well-formed sources: it does not stop *)
(* on a forward reference, and it does not let a bad line through because  *)
(* the first pass took a symbol for 0.                                     *)
(***************************************************************************)
AcceptsWellFormed == (phase = "done" => WellFormed) /\ (phase = "failed" => ~WellFormed)
=============================================================================
