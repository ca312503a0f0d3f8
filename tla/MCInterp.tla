------------------------------ MODULE MCInterp ------------------------------
(***************************************************************************)
(* Screen on every program that sets a register or an address, runs two    *)
(* instructions of a palette covering every handler, and loops.            *)
(***************************************************************************)
EXTENDS Screen, Roms

MCFont == <<\hF0, \h90, \h90, \h90, \hF0>>

\* Timers, keys, control flow, arithmetic and self-modifying stores.
Palette ==
  {\h00E0, \h00EE, \h2008, \h200A, \h1008, \hB00A, \h3000, \h4005, \h5010, \h9010,
   \h6005, \h70FF, \h8011, \h8F04, \h8006, \hA009, \hC0FF, \hD002, \hE09E, \hE0A1,
   \hF007, \hF00A, \hF015, \hF018, \hF01E, \hF029, \hF033, \hF055, \hF165}

Heads == {<<\h6005>>, <<\h6113, \hA00B>>, <<\h60FF, \hF015>>, <<\hF00A>>}

MCRoms == RomsOver(Heads, Palette, 2, <<\h1008>>)
=============================================================================
