--------------------------- MODULE MCInteractive ---------------------------
(***************************************************************************)
(* InteractiveInterp with a ring of two reads, a clock of three ticks, one *)
(* hex key and the quit key.                                               *)
(***************************************************************************)
EXTENDS InteractiveInterp

\* Set the timer, poll it until it expires, and loop around a key test.
DelayProgram ==
  << [op |-> "set_delay", arg |-> 2],
     [op |-> "get_delay", arg |-> 0],
     [op |-> "skip_zero", arg |-> 0],
     [op |-> "jump", arg |-> 2],
     [op |-> "skip_key_up", arg |-> 1],
     [op |-> "jump", arg |-> 5],
     [op |-> "jump", arg |-> 1] >>

\* Wait for a key, start a timer, and draw until another key is up.
DrawProgram ==
  << [op |-> "load_on_key", arg |-> 0],
     [op |-> "set_delay", arg |-> 1],
     [op |-> "draw", arg |-> 0],
     [op |-> "skip_key_down", arg |-> 1],
     [op |-> "jump", arg |-> 3] >>

\* A branch that never looks, with a way out.
BranchProgram ==
  << [op |-> "other", arg |-> 0],
     [op |-> "skip", arg |-> 0],
     [op |-> "branch", arg |-> 1],
     [op |-> "jump", arg |-> 4] >>

\* The loop every game has: draw a frame, go round.
FrameProgram ==
  << [op |-> "set_delay", arg |-> 1],
     [op |-> "draw", arg |-> 0],
     [op |-> "jump", arg |-> 2] >>

\* Go round some jumps, and look at a key now and then.
KeyProgram ==
  << [op |-> "skip", arg |-> 0],
     [op |-> "jump", arg |-> 1],
     [op |-> "skip_key_down", arg |-> 1],
     [op |-> "jump", arg |-> 1] >>

MCPrograms == {DelayProgram, DrawProgram, BranchProgram, KeyProgram}
MCFrames == {FrameProgram}
MCTypedKeys == {1, QUIT}
=============================================================================
