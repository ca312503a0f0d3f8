---------------------------- MODULE MCOptimizer ----------------------------
(***************************************************************************)
(* OptimizedRuns on every main program of up to three lines over a palette *)
(* and of two over a larger one, in front of a subroutine and of data.     *)
(***************************************************************************)
EXTENDS OptimizedRuns

Sub == 1
Table == 2

\* The subroutine moves I on; a store goes to the table behind it.
Rest ==
  <<Plain("RET", << >>),
    Labelled(Sub, "LD", <<Reg(1), Num(2)>>), Plain("ADD", <<Reg(1), Num(1)>>),
    Plain("ADD", <<Special("I"), Reg(2)>>), Plain("RET", << >>),
    Labelled(Table, ".BYTE", <<Num(7), Num(193), Num(9), Num(3), Num(5)>>)>>

Palette ==
  {Plain("LD", <<Reg(1), Num(1)>>), Plain("ADD", <<Reg(1), Num(2)>>),
   Plain("LD", <<Reg(1), Reg(1)>>), Plain("LD", <<Reg(2), Reg(1)>>),
   Plain("SE", <<Reg(1), Num(1)>>), Plain("CALL", <<Name(Sub)>>), Plain("RET", << >>),
   Plain("JP", <<Num(ENTRYPOINT + 4)>>), Plain("JP", <<Name(Sub)>>),
   Plain("LD", <<Special("I"), Name(Table)>>), Plain("LD", <<Special("I"), Num(ENTRYPOINT + 6)>>),
   Plain("ADD", <<Special("I"), Reg(1)>>), Plain("LD", <<Special("[I]"), Reg(0)>>),
   Plain("DRW", <<Reg(0), Reg(1), Num(1)>>)}

\* Lines tried in pairs only.
Rarer ==
  {Plain("ADD", <<Reg(1), Num(0)>>), Plain("LD", <<Reg(1), Special("DT")>>),
   Plain("LD", <<Reg(0), Special("[I]")>>), Plain("LD", <<Special("F"), Reg(1)>>),
   Plain("LD", <<Special("B"), Reg(1)>>), Plain("RND", <<Reg(1), Num(3)>>),
   Plain("LD", <<Reg(0), Num(1)>>), Plain("LD", <<Reg(1), Special("[I]")>>),
   Plain("JP", <<Reg(0), Num(ENTRYPOINT)>>)}

Mains == UNION {[1 .. n -> Palette] : n \in 0 .. 3} \cup [1 .. 2 -> Palette \cup Rarer]

\* The loaded byte, and not the constant, moves I from the table.
Moving ==
  <<Plain("LD", <<Special("I"), Name(Table)>>), Plain("LD", <<Reg(0), Num(1)>>),
    Plain("LD", <<Reg(1), Special("[I]")>>), Plain("ADD", <<Special("I"), Reg(0)>>),
    Plain("LD", <<Special("[I]"), Reg(0)>>)>>

MCSources ==
  {main \o Rest : main \in Mains \cup {Moving}}
    \cup {<<Plain(".ORG", <<Num(ENTRYPOINT)>>)>> \o Rest, Rest \o Rest,
          <<Plain("JP", <<Name(Table)>>)>> \o Rest}

\* For the claims of the tool that do not hold: loads in a row, the subroutine read
\* as data, and a constant that a load replaces.
MCLoads == {main \o Rest : main \in [1 .. 3 -> {l \in Palette : l.op = "LD"}]}
MCReading ==
  {<<Plain("LD", <<Special("I"), Name(Sub)>>), Plain("LD", <<Reg(1), Special("[I]")>>)>> \o Rest}
MCMoving == {Moving \o Rest}

MCFont == <<\hF0, \h90, \h90, \h90, \hF0>>
=============================================================================
