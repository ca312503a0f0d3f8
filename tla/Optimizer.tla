------------------------------ MODULE Optimizer ------------------------------
(***************************************************************************)
(* tools/chip8opt.py: the analysis of assembler source and the peepholes   *)
(* of its optimize command.  Numeric addresses become labels, an abstract  *)
(* interpretation follows I and the registers through calls and returns,   *)
(* unsafe sources are refused, and then single lines are folded, replaced  *)
(* or dropped; the assembler lays out what is left.                        *)
(*                                                                         *)
(* A turn of the analysis and a turn of the peephole loop are one action   *)
(* each.  The report of the analyze command is left out.                   *)
(***************************************************************************)
EXTENDS Statements, FiniteSets

CONSTANTS
  MEMORY_SIZE,   \* LIMIT
  ENTRYPOINT,    \* ENTRY: above every byte, as at the real size
  STACK_SIZE,    \* the 16 levels a context may nest
  Sources        \* the files a run may be started on

VARIABLES
  source,       \* the lines of the file
  statements,   \* lines with their place and size
  labels,       \* label -> address
  phase,
  incoming,     \* context -> what is known on entering it
  work,         \* contexts to be looked at
  reachable,
  accesses,
  computed,     \* a JP V0 was reached
  turn,         \* the peephole loop's i
  result        \* the statements kept

vars == <<source, statements, labels, phase, incoming, work, reachable, accesses, computed,
          turn, result>>

----------------------------------------------------------------------------
\* parse_source

SizeOf(l, at) ==
  CASE l.op = "" -> 0
    [] l.op = ".ORG" -> l.args[1].v - at
    [] l.op = ".BYTE" -> Len(l.args)
    [] l.op = ".WORD" -> 2 * Len(l.args)
    [] OTHER -> 2

\* Where each line goes, and at the end where the next one would.
Layout(lines) ==
  LET at[i \in 1 .. Len(lines) + 1] ==
        IF i = 1 THEN ENTRYPOINT ELSE at[i - 1] + SizeOf(lines[i - 1], at[i - 1])
  IN  at

Placed(lines) ==
  [i \in DOMAIN lines |-> [line |-> lines[i], pc |-> Layout(lines)[i],
                           size |-> SizeOf(lines[i], Layout(lines)[i])]]

LabelsOf(lines) ==
  [label \in {lines[i].label : i \in DOMAIN lines} \ {NoLabel} |->
     Layout(lines)[CHOOSE i \in DOMAIN lines : lines[i].label = label]]

Unparsable(lines) ==
  \/ \E i, j \in DOMAIN lines : i # j /\ lines[i].label = lines[j].label /\ lines[i].label # NoLabel
  \/ \E i \in DOMAIN lines :
       lines[i].op = ".ORG" /\ lines[i].args[1].v \notin Layout(lines)[i] .. MEMORY_SIZE - 1
  \/ Layout(lines)[Len(lines) + 1] > MEMORY_SIZE

----------------------------------------------------------------------------
\* Operands and addresses.

Unknown == -10000   \* Python's None

Resolve(operand, names) ==
  CASE operand.t = "number" -> operand.v
    [] operand.t = "name" /\ operand.v \in DOMAIN names -> names[operand.v]
    [] OTHER -> Unknown

LastArg(l) == l.args[Len(l.args)]
Target(l, names) == IF l.args = << >> THEN Unknown ELSE Resolve(LastArg(l), names)

LoadsAddr(l) == l.op = "LD" /\ Len(l.args) = 2 /\ l.args[1] = Special("I")
Refers(l) == l.op \in {"JP", "CALL"} \/ LoadsAddr(l)
IsSkip(l) == l.op \in {"SE", "SNE", "SKP", "SKNP"}
IsRegister(operand) == operand.t = "V"
Numeric(l) == l.args # << >> /\ LastArg(l).t = "number"

PayloadEnd(stmts) == IF stmts = << >> THEN ENTRYPOINT ELSE stmts[Len(stmts)].pc + stmts[Len(stmts)].size
InPayload(a, stmts) == a \in ENTRYPOINT .. PayloadEnd(stmts) - 1
PcsOf(stmts) == {stmts[i].pc : i \in DOMAIN stmts}

----------------------------------------------------------------------------
\* symbolize_in_rom_addresses

\* The addresses of the ROM that are referred to by number.
Numbered(stmts, names) ==
  {a \in PcsOf(stmts) :
     /\ InPayload(a, stmts)
     /\ \E i \in DOMAIN stmts :
          LET l == stmts[i].line IN Refers(l) /\ Numeric(l) /\ Target(l, names) = a}

LabelledAt(a, names) == \E label \in DOMAIN names : names[label] = a

\* ADDRnnn
Generated(a) == 10000 + a
NameAt(a, names) ==
  IF LabelledAt(a, names) THEN CHOOSE label \in DOMAIN names : names[label] = a ELSE Generated(a)

\* Any line whose last operand is the number of such an address.
Symbolic(l, stmts, names) ==
  IF Numeric(l) /\ Target(l, names) \in Numbered(stmts, names)
  THEN [l EXCEPT !.args[Len(l.args)] = Name(NameAt(Target(l, names), names))]
  ELSE l

\* A line, behind the line of its new label.
Anchored(s, stmts, names) ==
  LET symbolic == [s EXCEPT !.line = Symbolic(s.line, stmts, names)] IN
  IF s.pc \in Numbered(stmts, names) /\ ~LabelledAt(s.pc, names)
  THEN <<[line |-> Labelled(Generated(s.pc), "", << >>), pc |-> s.pc, size |-> 0], symbolic>>
  ELSE <<symbolic>>

Symbolized(stmts, names) ==
  LET upto[i \in 0 .. Len(stmts)] ==
        IF i = 0 THEN << >> ELSE upto[i - 1] \o Anchored(stmts[i], stmts, names)
  IN  upto[Len(stmts)]

SymbolizedLabels(stmts, names) ==
  LET new == {a \in Numbered(stmts, names) : ~LabelledAt(a, names)} IN
  [label \in DOMAIN names \cup {Generated(a) : a \in new} |->
     IF label \in DOMAIN names THEN names[label] ELSE label - 10000]

----------------------------------------------------------------------------
\* analyze: what is known of I and the registers.

EXTERNAL_I == -1                  \* the font
DynamicBase(base) == -(base + 2)  \* somewhere behind base
IsDynamic(value) == value <= -2 /\ value # Unknown

Joined(a, b) == IF a = b THEN a ELSE Unknown
Join(old, new) ==
  [i |-> Joined(old.i, new.i), regs |-> [r \in 0 .. 15 |-> Joined(old.regs[r], new.regs[r])]]

Known(operand, state) ==
  IF IsRegister(operand) THEN state.regs[operand.v] ELSE Resolve(operand, labels)

Sum(a, b) == IF Unknown \in {a, b} THEN Unknown ELSE (a + b) % 256


\* ADD I, Vx
Moved(i, offset) ==
  CASE i = Unknown \/ IsDynamic(i) -> i
    [] i # Unknown /\ ~IsDynamic(i) /\ offset = Unknown -> DynamicBase(i)
    [] OTHER -> i + offset

Scrambling == {"RND", "OR", "AND", "XOR", "SUB", "SUBN", "SHR", "SHL"}

After(l, state) ==
  LET set(x, value) == [state EXCEPT !.regs[x] = value] IN
  CASE LoadsAddr(l) -> [state EXCEPT !.i = Resolve(l.args[2], labels)]
    [] l.op = "LD" /\ IsRegister(l.args[1]) -> set(l.args[1].v, Known(l.args[2], state))
    [] l.op = "LD" /\ l.args[1] = Special("F") -> [state EXCEPT !.i = EXTERNAL_I]
    [] l.op = "ADD" /\ l.args[1] = Special("I") ->
         [state EXCEPT !.i = Moved(@, Known(l.args[2], state))]
    [] l.op = "ADD" /\ IsRegister(l.args[1]) ->
         set(l.args[1].v, Sum(state.regs[l.args[1].v], Known(l.args[2], state)))
    [] l.op \in Scrambling -> set(l.args[1].v, Unknown)
    [] OTHER -> state

\* add_access
Access(pc, kind, i, length) ==
  IF i = EXTERNAL_I THEN {}
  ELSE {[pc |-> pc, kind |-> kind, length |-> length, dynamic |-> IsDynamic(i),
         start |-> IF IsDynamic(i) THEN -i - 2 ELSE i]}

AccessesOf(l, pc, state) ==
  CASE l.op = "LD" /\ l.args[1] = Special("B") -> Access(pc, "write", state.i, 3)
    [] l.op = "LD" /\ l.args[1] = Special("[I]") ->
         Access(pc, "write", state.i, l.args[2].v + 1)
    [] l.op = "DRW" -> Access(pc, "read", state.i, Resolve(l.args[3], labels))
    [] OTHER -> {}

\* A context is a place and the return stack it is reached with.
Context(pc, returns) == <<pc, returns>>

Computes(l) == l.op = "JP" /\ Len(l.args) = 2

\* The contexts control goes on to.
Continuations(l, pc, returns) ==
  LET to == Target(l, labels) IN
  CASE l.op = "CALL" -> IF to = Unknown \/ Len(returns) >= STACK_SIZE THEN << >>
                        ELSE <<Context(to, Append(returns, pc + 2))>>
    [] l.op = "RET" -> IF returns = << >> THEN << >>
                       ELSE <<Context(returns[Len(returns)], SubSeq(returns, 1, Len(returns) - 1))>>
    [] l.op = "JP" -> IF Computes(l) \/ to = Unknown THEN << >> ELSE <<Context(to, returns)>>
    [] IsSkip(l) -> <<Context(pc + 2, returns), Context(pc + 4, returns)>>
    [] OTHER -> <<Context(pc + 2, returns)>>

Instructions == {i \in DOMAIN statements : statements[i].line.op \notin {"", ".BYTE", ".WORD", ".ORG"}}
LineAt(pc) == statements[CHOOSE i \in Instructions : statements[i].pc = pc].line
HoldsInstruction(pc) == \E i \in Instructions : statements[i].pc = pc

Init ==
  /\ source \in Sources
  /\ statements = << >> /\ labels = [label \in {} |-> 0]
  /\ phase = "parse"
  /\ incoming = [context \in {} |-> 0] /\ work = << >>
  /\ reachable = {} /\ accesses = {} /\ computed = FALSE
  /\ turn = 1 /\ result = << >>

ParseError ==
  /\ phase = "parse" /\ Unparsable(source)
  /\ phase' = "refused"
  /\ UNCHANGED <<source, statements, labels, incoming, work, reachable, accesses, computed, turn, result>>

\* parse_source, symbolize_in_rom_addresses, and the start of analyze.
Parse ==
  /\ phase = "parse" /\ ~Unparsable(source)
  /\ statements' = Symbolized(Placed(source), LabelsOf(source))
  /\ labels' = SymbolizedLabels(Placed(source), LabelsOf(source))
  /\ incoming' = [context \in {Context(ENTRYPOINT, << >>)} |->
                    [i |-> Unknown, regs |-> [r \in 0 .. 15 |-> Unknown]]]
  /\ work' = <<Context(ENTRYPOINT, << >>)>>
  /\ phase' = "analyze"
  /\ UNCHANGED <<source, reachable, accesses, computed, turn, result>>

\* A context that is no instruction of the file.
Leave ==
  /\ phase = "analyze" /\ work # << >> /\ ~HoldsInstruction(work[1][1])
  /\ work' = Tail(work)
  /\ UNCHANGED <<source, statements, labels, phase, incoming, reachable, accesses, computed,
                 turn, result>>

Visit ==
  LET pc      == work[1][1]
      l       == LineAt(pc)
      state   == incoming[work[1]]
      next    == After(l, state)
      onward  == SelectSeq(Continuations(l, pc, work[1][2]),
                           LAMBDA c : c[1] \in ENTRYPOINT .. MEMORY_SIZE - 1)
      reached == {onward[k] : k \in DOMAIN onward}
      merged(c) == IF c \in DOMAIN incoming THEN Join(incoming[c], next) ELSE next
      changed(c) == c \notin DOMAIN incoming \/ merged(c) # incoming[c]
  IN  /\ phase = "analyze" /\ work # << >> /\ HoldsInstruction(pc)
      /\ reachable' = reachable \cup {pc}
      /\ accesses' = accesses \cup AccessesOf(l, pc, state)
      /\ computed' = (computed \/ Computes(l))
      /\ incoming' = [c \in DOMAIN incoming \cup reached |->
                        IF c \in reached THEN merged(c) ELSE incoming[c]]
      /\ work' = Tail(work) \o SelectSeq(onward, changed)
      /\ UNCHANGED <<source, statements, labels, phase, turn, result>>

----------------------------------------------------------------------------
\* relocation_hazards

Pinned == {access.pc : access \in {a \in accesses : a.dynamic}}

SelfModifying ==
  \E access \in accesses, pc \in reachable :
    /\ access.kind = "write" /\ ~access.dynamic /\ access.start # Unknown
    /\ pc \in access.start .. access.start + access.length - 1

Unsafe ==
  \/ \E access \in accesses : access.start = Unknown /\ access.pc \notin Pinned
  \/ SelfModifying
  \/ computed
  \/ \E i \in DOMAIN statements :
       LET l == statements[i].line IN
       \/ l.op = ".ORG"
       \/ Refers(l) /\ Numeric(l) /\ InPayload(LastArg(l).v, statements)

Analyzed == phase = "analyze" /\ work = << >>

Refuse ==
  /\ Analyzed /\ Unsafe
  /\ phase' = "refused"
  /\ UNCHANGED <<source, statements, labels, incoming, work, reachable, accesses, computed, turn, result>>

Accept ==
  /\ Analyzed /\ ~Unsafe
  /\ phase' = "peephole"
  /\ UNCHANGED <<source, statements, labels, incoming, work, reachable, accesses, computed, turn, result>>

----------------------------------------------------------------------------
\* optimize_peepholes

Bases == {access.start : access \in {a \in accesses : a.dynamic}}


\* protected_pcs, and everything behind the base of a computed I.
Protected ==
  {ENTRYPOINT} \cup {labels[label] : label \in DOMAIN labels}
    \cup {Target(statements[i].line, labels) :
            i \in {k \in DOMAIN statements :
                    statements[k].line.op \in {"JP", "CALL"} /\ ~Computes(statements[k].line)}}
    \cup UNION {{statements[i].pc + 2, statements[i].pc + 4} :
                  i \in {k \in DOMAIN statements : IsSkip(statements[k].line)}}
    \cup {a \in PcsOf(statements) : \E base \in Bases : a >= base}

At == statements[turn]
Line == At.line
HasNext == turn < Len(statements)
NextLine == statements[turn + 1].line

Pair(op1, op2) ==
  /\ HasNext /\ Line.op = op1 /\ NextLine.op = op2
  /\ Len(Line.args) = 2 /\ Len(NextLine.args) = 2 /\ Line.args[1] = NextLine.args[1]

\* LD Vx, a; ADD Vx, b
Foldable ==
  /\ Pair("LD", "ADD") /\ IsRegister(Line.args[1]) /\ Numeric(Line) /\ Numeric(NextLine)
  /\ NextLine.label = NoLabel /\ statements[turn + 1].pc \notin Protected

\* CALL x; RET
TailCall ==
  /\ HasNext /\ Line.op = "CALL" /\ NextLine.op = "RET" /\ Target(Line, labels) # Unknown

Deletable == Line.label = NoLabel /\ At.pc \notin Protected

NoOp ==
  \/ Line.op = "LD" /\ Len(Line.args) = 2 /\ Line.args[1] = Line.args[2]
  \/ Line.op = "ADD" /\ IsRegister(Line.args[1]) /\ Line.args[2] = Num(0)

\* LD x, a; LD x, b
Overwritten ==
  /\ Pair("LD", "LD") /\ (Line.args[1] = Special("I") \/ IsRegister(Line.args[1]))
  /\ Line.args[2] # Special("K")

Peephole == phase = "peephole" /\ turn <= Len(statements)

\* A turn keeps these lines and goes n statements on.
Rewrites(lines, n) ==
  /\ result' = result \o lines
  /\ turn' = turn + n
  /\ UNCHANGED <<source, statements, labels, phase, incoming, work, reachable, accesses, computed>>

FoldAdd ==
  /\ Peephole /\ Foldable
  /\ Rewrites(<<[Line EXCEPT !.args[2] = Num((Line.args[2].v + NextLine.args[2].v) % 256)]>>, 2)

\* The RET stays: other paths may reach it.
JumpToTail ==
  /\ Peephole /\ ~Foldable /\ TailCall
  /\ Rewrites(<<[Line EXCEPT !.op = "JP"]>>, 1)

Drop ==
  /\ Peephole /\ ~Foldable /\ ~TailCall
  /\ Deletable /\ (NoOp \/ Overwritten)
  /\ Rewrites(<< >>, 1)

Keep ==
  /\ Peephole /\ ~Foldable /\ ~TailCall
  /\ ~(Deletable /\ (NoOp \/ Overwritten))
  /\ Rewrites(<<Line>>, 1)

\* canonicalize prints the result.
Finish ==
  /\ phase = "peephole" /\ turn > Len(statements)
  /\ phase' = "done"
  /\ UNCHANGED <<source, statements, labels, incoming, work, reachable, accesses, computed, turn, result>>

Halted == phase \in {"refused", "done"} /\ UNCHANGED vars

Next ==
  \/ ParseError \/ Parse \/ Leave \/ Visit \/ Refuse \/ Accept
  \/ FoldAdd \/ JumpToTail \/ Drop \/ Keep \/ Finish \/ Halted

Spec == Init /\ [][Next]_vars
=============================================================================
