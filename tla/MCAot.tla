------------------------------- MODULE MCAot -------------------------------
(***************************************************************************)
(* Aot on programs that leave their instructions alone, and, in further    *)
(* instances, on one that stores over a word it has still to execute and   *)
(* on the one that waits for keys.                                         *)
(***************************************************************************)
EXTENDS Aot, Roms

MCFont == <<\hF0, \h90, \h90, \h90, \hF0>>

\* Every operation of the ALU, VF among its operands, out of the program's end.
AluRom ==
  RomOf(<<\h60FF, \h6F81, \h8F04, \h80F5, \h8F06, \h80F7, \h8F0E, \h81F1, \h8012, \h8103,
          \h8F00, \h7001>>)

\* Data behind the font, calls until the stack is full.
CallRom ==
  RomOf(<<\h61FE, \hA005, \hF133, \hF265, \hF01E, \hF055, \hF029, \hC10F, \h2018>>)

\* Return to a skip, and from an empty stack.
ReturnRom == RomOf(<<\h200E, \h5010, \h9010, \h00EE>>)
BranchRom == RomOf(<<\h3001, \h4001, \hB00A, \h00E0, \h0001>>)

\* Timers, frames and keys.
FrameRom == RomOf(<<\h6001, \hF015, \hF018, \hD002, \hF007, \h100E>>)
KeyRom == RomOf(<<\h6001, \hE09E, \h100A, \hE0A1, \h100E, \hF00A, \h100A>>)

MCRoms == {AluRom, CallRom, ReturnRom, BranchRom, FrameRom, KeyRom}
MCTypedKeys == {1, 31}

QuitRoms == {KeyRom}

\* A store over the word that follows the store.
PatchRoms == {RomOf(<<\hA00C, \hF155, \h6001, \h1008>>)}
=============================================================================
