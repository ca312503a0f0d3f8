-------------------------------- MODULE Roms --------------------------------
(***************************************************************************)
(* ROM images for the checked instances: sequences of 16-bit words, stored *)
(* high byte first as asm.c and the ROM files do.                          *)
(***************************************************************************)
EXTENDS Naturals, Sequences

\* The bytes of a sequence of instruction words.
RomOf(words) ==
  [i \in 1 .. 2 * Len(words) |->
     IF i % 2 = 1 THEN words[(i + 1) \div 2] \div 256 ELSE words[i \div 2] % 256]

\* Every program that puts n words of the palette between a head and a tail.
RomsOver(heads, palette, n, tail) ==
  {RomOf(head \o words \o tail) : head \in heads, words \in [1 .. n -> palette]}
=============================================================================
