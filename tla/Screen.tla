------------------------------- MODULE Screen -------------------------------
(***************************************************************************)
(* The interpreter with draw_io opened up: the framebuffer is the array    *)
(* display[], a sprite is drawn into it pixel by pixel, VF is gathered on  *)
(* the way, and the ncurses backend keeps a pad of characters beside it.   *)
(*                                                                         *)
(* bench_io.c and ncurses_io.c have the same draw_io but for the pad,      *)
(* which no bench build has; here it follows the calls one would make.     *)
(* vm.display takes its value from the array when an instruction ends, so  *)
(* that implementing Machine means that the loops draw what Chip8!Draw     *)
(* says.                                                                   *)
(***************************************************************************)
EXTENDS Interp

VARIABLES
  array,    \* display[]: 0 or 1 at x + y * width
  pad,      \* what the pad shows at <<line, column>>
  drawing   \* draw_io in progress, or Idle

screenvars == <<vars, array, pad, drawing>>

Idle == [active |-> FALSE]

\* newpad (height + 3, width + 2)
Cells == (0 .. Height + 2) \X (0 .. Width + 1)

\* box: the border of the pad.
OnBorder(cell) == cell[1] \in {0, Height + 2} \/ cell[2] \in {0, Width + 1}

\* init_io
ScreenInit ==
  /\ Init
  /\ array = [k \in 0 .. Width * Height - 1 |-> 0]
  /\ pad = [cell \in Cells |-> IF OnBorder(cell) THEN "border" ELSE "blank"]
  /\ drawing = Idle

Pixels == (0 .. Width - 1) \X (0 .. Height - 1)
Slot(x, y) == x + y * Width
Lit == {p \in Pixels : array[Slot(p[1], p[2])] = 1}

Op == OpAt(vm.memory, vm.pc)

\* Every instruction that leaves the screen alone.
OtherBlock ==
  /\ ~drawing.active
  /\ Kind(Op) \notin {"draw", "clearscreen"}
  /\ BasicBlock \/ Error
  /\ UNCHANGED <<array, pad, drawing>>

\* Mutant of WipePad: the pad is left as it is.
WipePadNot == UNCHANGED pad

\* wclear takes the border with it.
WipePad == pad' = [cell \in Cells |-> "blank"]

\* clear_screen, clearscreen_io
ClearScreen ==
  /\ ~drawing.active
  /\ Kind(Op) = "clearscreen"
  /\ array' = [k \in DOMAIN array |-> 0]
  /\ WipePad
  /\ BasicBlock
  /\ UNCHANGED drawing

\* draw up to the call of draw_io, which wraps the origin.
BeginDraw ==
  LET m == Synced(Op, Retire(vm)) IN
  /\ status = "running" /\ ~drawing.active
  /\ Kind(Op) = "draw"
  /\ drawing' = [active |-> TRUE, machine |-> m, n |-> IMMEDIATE4(Op),
                 sprite |-> [j \in 0 .. IMMEDIATE4(Op) - 1 |-> m.memory[Wrap(m.addr + j)]],
                 x |-> m.regs[X(Op)] % Width, y |-> m.regs[Y(Op)] % Height,
                 i |-> 0, j |-> 0, vf |-> 0]
  /\ UNCHANGED <<vars, array, pad>>

x2 == drawing.i + drawing.x
y2 == drawing.j + drawing.y

NextRow(d) == [d EXCEPT !.i = 0, !.j = @ + 1]
NextPixel(d) == IF d.i = 7 THEN NextRow(d) ELSE [d EXCEPT !.i = @ + 1]

InSprite == drawing.active /\ drawing.j < drawing.n

\* A row below the screen.
ClipRow ==
  /\ InSprite /\ y2 >= Height
  /\ drawing' = NextRow(drawing)
  /\ UNCHANGED <<vars, array, pad>>

\* A pixel to the right of it.
ClipPixel ==
  /\ InSprite /\ y2 < Height /\ x2 >= Width
  /\ drawing' = NextPixel(drawing)
  /\ UNCHANGED <<vars, array, pad>>

Pixel ==
  LET bit == Flag(BitSet(drawing.sprite[drawing.j], 7 - drawing.i))
      old == array[Slot(x2, y2)]
      new == (old + bit) % 2
  IN  /\ array' = [array EXCEPT ![Slot(x2, y2)] = new]
      /\ pad' = [pad EXCEPT ![<<y2 + 1, x2 + 1>>] = IF new = 1 THEN "block" ELSE "blank"]
      /\ drawing' = NextPixel([drawing EXCEPT !.vf = IF old = 1 /\ bit = 1 THEN 1 ELSE @])

DrawPixel == InSprite /\ y2 < Height /\ x2 < Width /\ Pixel /\ UNCHANGED vars

\* The rest of draw, and of main's turn.
EndDraw ==
  /\ drawing.active /\ drawing.j = drawing.n
  /\ vm' = STEP([drawing.machine EXCEPT !.display = Lit, !.regs[15] = drawing.vf])
  /\ status' = IF BenchDone(vm') THEN "done" ELSE "running"
  /\ drawing' = Idle
  /\ UNCHANGED <<array, pad>>

ScreenNext ==
  \/ OtherBlock \/ ClearScreen \/ BeginDraw \/ ClipRow \/ ClipPixel \/ DrawPixel \/ EndDraw
  \/ Halted /\ UNCHANGED <<array, pad, drawing>>

ScreenSpec == ScreenInit /\ [][ScreenNext]_screenvars

\* Weak fairness of ScreenNext, the states in which it is enabled written out:
\* the processor goes on executing a program that has not stopped.
ScreenFairSpec == ScreenSpec /\ ([]<>Stopped \/ []<><<ScreenNext>>_screenvars)

(***************************************************************************)
(* The two pictures of the screen never part: through clears and half      *)
(* drawn sprites, the pad shows a block, one line down and one column to   *)
(* the right, where the array holds a lit pixel, and a blank elsewhere;    *)
(* no pixel is drawn outside the border.                                   *)
(***************************************************************************)
PadMatches ==
  /\ \A p \in Pixels :
       pad[<<p[2] + 1, p[1] + 1>>] = IF array[Slot(p[1], p[2])] = 1 THEN "block" ELSE "blank"
  /\ \A cell \in Cells : OnBorder(cell) => pad[cell] # "block"
  /\ ~drawing.active => vm.display = Lit
=============================================================================
