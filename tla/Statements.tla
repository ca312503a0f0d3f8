----------------------------- MODULE Statements -----------------------------
(***************************************************************************)
(* Assembler source as the tools of the repository exchange it: disas.c    *)
(* prints it, asm.c reads it, chip8opt.py reads and prints it.  A line is  *)
(* a record: the label in front of it, the operation, the operands.  The   *)
(* text itself (case, commas, comments, number bases) is left out.         *)
(***************************************************************************)
EXTENDS Integers, Sequences

\* Labels are named by numbers, as disas.c's blockNNN are.
NoLabel == -1

\* Operands, tagged with the form they are written in.
Reg(x) == [t |-> "V", v |-> x]
Num(n) == [t |-> "number", v |-> n]
Name(label) == [t |-> "name", v |-> label]
Special(word) == [t |-> word, v |-> 0]

\* Lines.
Labelled(label, op, args) == [label |-> label, op |-> op, args |-> args]
Plain(op, args) == Labelled(NoLabel, op, args)
=============================================================================
