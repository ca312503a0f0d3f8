----------------------------- MODULE MCTraceJit -----------------------------
(***************************************************************************)
(* TraceJit on small programs of two kinds: control flow with self-        *)
(* modifying stores, and the instructions that look at the clock.          *)
(***************************************************************************)
EXTENDS TraceJit, Roms

MCFont == <<\h16, \h08, \h16, \h08>>

\* Skips, jumps and calls to every word of the program, and stores over it:
\* V0 = 18 turns the word it is stored on into a jump.
FlowPalette ==
  {\h00EE, \h1004, \h1006, \h1008, \h2006, \h3012, \h4012, \h5010, \h70FF,
   \h9010, \hA008, \hB004, \hF055, \hF033, \hF01E}

FlowHeads == {<<\h6012, \hA006>>, <<\h6012, \hA004>>, <<\h6004>>}

\* A store over the jump that the skip before it has folded in, and a call
\* back to the trace that holds them: 10E0 becomes 00E0.
FoldRom == RomOf(<<\hA008, \h3000, \h10E0, \hF055, \h7001, \h2004>>)

FlowRoms == RomsOver(FlowHeads, FlowPalette, 3, <<\h1004>>) \cup {FoldRom}

ClockPalette ==
  {\h00E0, \h00EE, \h2004, \h3000, \h4000, \h8014, \hC0FF, \hD001, \hE09E, \hE0A1,
   \hF007, \hF00A, \hF015, \hF018, \hF029, \hF065, \h1004, \h1008}

ClockHeads == {<<\h6002>>, <<\h60FF, \hF015>>}

ClockRoms == RomsOver(ClockHeads, ClockPalette, 2, <<\h1006, \h1004>>)

MCRoms == FlowRoms \cup ClockRoms

\* A loop over a skip that is never taken; where it would skip to is no code.
BailRoms == {RomOf(<<\h4000, \h1004, \hFFFF>>)}
=============================================================================
