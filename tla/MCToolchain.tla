---------------------------- MODULE MCToolchain ----------------------------
(***************************************************************************)
(* Toolchain on short programs and short sources, in a memory that four    *)
(* words fill behind the font.                                             *)
(***************************************************************************)
EXTENDS Toolchain, Roms

MCFont == <<\hF0, \h90, \h90, \h90, \hF0>>

\* Each way control goes on: jumps back, forward, to odd, low and foreign
\* addresses, into data and to the trailing byte.
Palette ==
  {\h1008, \h100C, \h100F, \h1002, \h200E, \h00EE, \h0000, \h3001, \h5121, \h9120, \hE19E,
   \h8126, \hA00E, \hF155, \hF033, \hF265, \hF002, \hD123, \hB00C, \h6001}

\* What a program of four words does to its own map.
Executed == {\h1008, \h100E, \h200C, \h00EE, \h3001, \hA00C, \hF055}

\* The opcode forms, behind a word that jumps over the first of them.
Forms ==
  {\h00E0, \h4F0C, \h5120, \h6FFF, \h7123, \h8120, \h8121, \h8122, \h8123, \h8124, \h8125,
   \h8AB6, \h8127, \h8008, \h812E, \h9AB0, \hA00D, \hB00E, \hC10F, \hD12F, \hE1A1, \hE1A2,
   \hF107, \hF20A, \hF315, \hF418, \hF51E, \hF629, \hF733, \hF855, \hF965, \hFF75}

\* An odd image has its last byte in no word.
MCRoms ==
  RomsOver({<< >>}, Palette, 2, << >>) \cup RomsOver({<< >>}, Executed, 4, << >>)
    \cup {RomOf(<<\h100C>> \o words) : words \in Forms \X {\h00EE, \h100A}}
    \cup {Append(image, 18) : image \in RomsOver({<< >>}, Palette, 2, << >>)}
    \cup {<< >>, <<18>>}

\* References forward and back, .ORG by number and by label, values at their
\* limits, labels twice and too many, and an image that overflows the memory.
LinePalette ==
  {Labelled(1, "JP", <<Name(2)>>), Labelled(2, "LD", <<Special("I"), Name(1)>>),
   Labelled(2, "", << >>), Labelled(1, ".ORG", <<Name(1)>>),
   Labelled(3, ".BYTE", <<Num(1), Name(2), Num(255)>>), Plain(".BYTE", <<Num(256)>>),
   Plain(".ORG", <<Name(2)>>), Plain(".ORG", <<Num(12)>>), Plain(".ORG", << >>),
   Plain(".WORD", <<Num(65535), Name(1)>>), Plain("CALL", <<Name(3)>>), Plain("JP", <<Num(16)>>),
   Labelled(4, "DRW", <<Reg(1), Reg(2), Name(1)>>), Labelled(5, "CLS", << >>),
   Plain("SE", <<Num(1), Reg(2)>>)}

Referring ==
  {Labelled(1, "JP", <<Name(2)>>), Labelled(2, "LD", <<Special("I"), Name(1)>>),
   Labelled(3, ".BYTE", <<Num(1), Name(2), Num(255)>>), Plain(".ORG", <<Name(2)>>),
   Plain(".ORG", <<Num(12)>>), Plain(".WORD", <<Num(65535), Name(1)>>)}

MCSources ==
  UNION {[1 .. n -> LinePalette] : n \in 0 .. 3} \cup UNION {[1 .. n -> Referring] : n \in 4 .. 5}
    \cup {<<Labelled(1, "CLS", << >>), Labelled(2, "CLS", << >>), Labelled(3, "CLS", << >>),
            Labelled(4, "CLS", << >>), last>> : last \in LinePalette}

\* Jumps spelled 1nnn and 0nnn: SYS, which the disassembler does not take for an
\* instruction.
DisownedRoms == RomsOver({<< >>}, {\h000A, \h000C, \h100C, \h6012}, 3, << >>)

\* Stores over code the descent has still to walk, and through a computed I
\* that starts below the program.
OverwritingRoms ==
  RomsOver({<<\h6004>>}, {\hA006, \hA00C, \hF01E, \hF055, \h00EE}, 3, << >>)
=============================================================================
