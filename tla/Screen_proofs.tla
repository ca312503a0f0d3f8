---------------------------- MODULE Screen_proofs ----------------------------
(***************************************************************************)
(* The interpreter stops on its budget; the pixel loops of draw_io         *)
(* compute what Chip8!Draw says, so that Screen implements Interp; the     *)
(* pad shows the framebuffer; and Interp implements Machine.  For every    *)
(* size of the screen, every program and every budget.                     *)
(***************************************************************************)
EXTENDS Screen, Chip8_proofs

----------------------------------------------------------------------------
\* The run stops on its budget.

RunInv == TypeOK /\ StopsOnBudget

\* A machine that has just retired an instruction.
Retired(m) == m.retired <= BUDGET /\ m.retired + m.poll_clock <= CLOCK_CAP

LEMMA SyncedType ==
  ASSUME NEW m \in Machines, NEW op
  PROVE  Synced(op, m) \in Machines /\ SameScreen(m, Synced(op, m))
<1>1. SyncTimers(m) \in Machines /\ SameScreen(m, SyncTimers(m)) /\ SameScreen(m, m)
  BY SyncTimersType, SyncedScreen DEF SameScreen, SameRun
<1> QED
  BY <1>1 DEF Synced

LEMMA BlockStarts ==
  ASSUME RunInv, status = "running", NEW op
  PROVE  /\ Synced(op, Retire(vm)) \in Machines
         /\ Retired(Synced(op, Retire(vm)))
         /\ Synced(op, Retire(vm)).display = vm.display
<1> DEFINE m == Synced(op, Retire(vm))
<1>1. vm \in Machines /\ ~BenchDone(vm)
  BY DEF RunInv, TypeOK, StopsOnBudget
<1>2. vm.retired \in Nat /\ vm.poll_clock \in Nat /\ BUDGET \in Nat /\ CLOCK_CAP \in Nat
  BY <1>1, MachineFields, CapInNat, BenchAssumption
<1>3. vm.retired < BUDGET /\ vm.retired + vm.poll_clock < CLOCK_CAP
  BY <1>1, <1>2 DEF BenchDone
<1>4. /\ Retire(vm) \in Machines
      /\ Retire(vm).retired = vm.retired + 1
      /\ Retire(vm).poll_clock = vm.poll_clock
      /\ Retire(vm).display = vm.display
  <2>1. Retire(vm) \in Machines
    BY <1>1, RetireType
  <2>2. /\ Retire(vm).retired = vm.retired + 1
        /\ Retire(vm).poll_clock = vm.poll_clock
        /\ Retire(vm).display = vm.display
    BY <1>1 DEF Retire, Machines
  <2> QED
    BY <2>1, <2>2
<1>5. m \in Machines /\ SameScreen(Retire(vm), m)
  BY <1>4, SyncedType
<1> HIDE DEF m
<1>6. m.retired = vm.retired + 1 /\ m.poll_clock = vm.poll_clock /\ m.display = vm.display
  BY <1>4, <1>5 DEF SameScreen, SameRun
<1>7. Retired(m)
  BY <1>2, <1>3, <1>6 DEF Retired
<1> QED
  BY <1>5, <1>6, <1>7 DEF m

\* Only the last poll of Fx0A may pass the cap, by one.
LEMMA PollsStop ==
  ASSUME NEW m \in Machines, Retired(m)
  PROVE  /\ Polls(m) \in Nat
         /\ m.retired + (m.poll_clock + Polls(m)) <= CLOCK_CAP + 1
<1>1. m.retired \in Nat /\ m.poll_clock \in Nat /\ CLOCK_CAP \in Nat /\ BUDGET \in Nat
  BY MachineFields, CapInNat, BenchAssumption
<1>2. Polls(m) \in Nat /\ Polls(m) >= 1 /\ \A k \in 1 .. Polls(m) - 1 : ~BenchDone(Polled(m, k))
  BY <1>1, PollsType
<1>3. PICK n \in Nat : n = Polls(m)
  BY <1>2
<1>4. CASE n = 1
  BY <1>1, <1>3, <1>4 DEF Retired
<1>5. CASE n > 1
  <2>1. n - 1 \in 1 .. n - 1
    BY <1>5
  <2>2. ~BenchDone(Polled(m, n - 1))
    BY <1>2, <1>3, <2>1
  <2>3. Polled(m, n - 1).retired = m.retired /\ Polled(m, n - 1).poll_clock = m.poll_clock + (n - 1)
    BY DEF Polled, Machines
  <2>4. m.retired + (m.poll_clock + (n - 1)) < CLOCK_CAP
    BY <1>1, <2>2, <2>3 DEF BenchDone
  <2> QED
    BY <1>1, <1>3, <2>4
<1> QED
  BY <1>2, <1>3, <1>4, <1>5

LEMMA BlockBudget ==
  ASSUME NEW m \in Machines, NEW op \in Word, NEW random, ~Faults(op, m), Retired(m)
  PROVE  /\ Execute(op, m, random).retired <= BUDGET
         /\ Execute(op, m, random).retired + Execute(op, m, random).poll_clock <= CLOCK_CAP + 1
<1>1. m.retired \in Nat /\ m.poll_clock \in Nat /\ CLOCK_CAP \in Nat
  BY MachineFields, CapInNat
<1>2. CASE Kind(op) # "load_on_key"
  BY <1>1, <1>2, ExecuteKeepsRun DEF SameRun, Retired
<1>3. CASE Kind(op) = "load_on_key"
  <2>1. Polls(m) \in Nat /\ m.retired + (m.poll_clock + Polls(m)) <= CLOCK_CAP + 1
    BY PollsStop
  <2>2. SameScreen(Polled(m, Polls(m)), Execute(op, m, random))
    BY <1>3, WaitScreen
  <2>3. /\ Polled(m, Polls(m)).retired = m.retired
        /\ Polled(m, Polls(m)).poll_clock = m.poll_clock + Polls(m)
    BY DEF Polled, Machines
  <2>4. /\ Execute(op, m, random).retired = m.retired
        /\ Execute(op, m, random).poll_clock = m.poll_clock + Polls(m)
    BY <2>2, <2>3 DEF SameScreen, SameRun
  <2> QED
    BY <2>1, <2>4 DEF Retired
<1> QED
  BY <1>2, <1>3

LEMMA RunInit == Init => RunInv
<1> SUFFICES ASSUME Init PROVE RunInv
  OBVIOUS
<1>1. PICK image \in ROMs : vm = Booted(image)
  BY DEF Init
<1>2. vm \in Machines
  BY <1>1, BootedType
<1>3. vm.retired = 0 /\ vm.poll_clock = 0 /\ status = "running"
  BY <1>1 DEF Init, Booted
<1>4. BUDGET \in Nat \ {0} /\ CLOCK_CAP \in Nat \ {0}
  BY BenchAssumption DEF CLOCK_CAP
<1> QED
  BY <1>2, <1>3, <1>4 DEF RunInv, TypeOK, StopsOnBudget, BenchDone

LEMMA OpInMemory == RunInv => OpAt(vm.memory, vm.pc) \in Word
<1> SUFFICES ASSUME RunInv PROVE OpAt(vm.memory, vm.pc) \in Word
  OBVIOUS
<1>1. vm.memory \in [Address -> Byte] /\ vm.pc \in Word
  BY MachineFields DEF RunInv, TypeOK
<1> QED
  BY <1>1, OpInWord DEF Word

LEMMA BlockRun ==
  ASSUME RunInv, BasicBlock
  PROVE  RunInv'
<1> DEFINE op == OpAt(vm.memory, vm.pc)
           m  == Synced(op, Retire(vm))
<1>1. op \in Word /\ status = "running" /\ ~Faults(op, m)
  BY OpInMemory DEF BasicBlock
<1>2. m \in Machines /\ Retired(m)
  BY <1>1, BlockStarts
<1>3. PICK random \in RandomBytes : vm' = Execute(op, m, random)
  BY DEF BasicBlock
<1>4. status' = IF BenchDone(vm') THEN "done" ELSE "running"
  BY DEF BasicBlock
<1> HIDE DEF op, m
<1>5. vm' \in Machines
  BY <1>1, <1>2, <1>3, ExecuteType
<1>6. vm'.retired <= BUDGET /\ vm'.retired + vm'.poll_clock <= CLOCK_CAP + 1
  BY <1>1, <1>2, <1>3, BlockBudget
<1> QED
  BY <1>4, <1>5, <1>6 DEF RunInv, TypeOK, StopsOnBudget, BenchDone, CLOCK_CAP

LEMMA ErrorRun ==
  ASSUME RunInv, Error
  PROVE  RunInv'
<1> DEFINE m == Synced(OpAt(vm.memory, vm.pc), Retire(vm))
<1>1. status = "running" /\ vm' = m /\ status' = "fault"
  BY DEF Error
<1>2. m \in Machines /\ Retired(m)
  BY <1>1, BlockStarts
<1> HIDE DEF m
<1>3. m.retired \in Nat /\ m.poll_clock \in Nat /\ CLOCK_CAP \in Nat
  BY <1>2, MachineFields, CapInNat
<1> QED
  BY <1>1, <1>2, <1>3 DEF RunInv, TypeOK, StopsOnBudget, Retired, CLOCK_CAP

LEMMA RunNext == RunInv /\ [Next]_vars => RunInv'
<1> SUFFICES ASSUME RunInv, [Next]_vars PROVE RunInv'
  OBVIOUS
<1>1. CASE UNCHANGED vars
  BY <1>1 DEF vars, RunInv, TypeOK, StopsOnBudget, BenchDone, CLOCK_CAP
<1>2. CASE BasicBlock
  BY <1>2, BlockRun
<1>3. CASE Error
  BY <1>3, ErrorRun
<1> QED
  BY <1>1, <1>2, <1>3 DEF Next, Halted

\* The interpreter's state keeps its types.
THEOREM TypeCorrect == Spec => []TypeOK
<1>1. RunInv => TypeOK
  BY DEF RunInv
<1> QED
  BY <1>1, RunInit, RunNext, PTL DEF Spec

\* main's loop stops on the instruction that uses up the budget or the clock.
THEOREM BudgetKept == Spec => []StopsOnBudget
<1>1. RunInv => StopsOnBudget
  BY DEF RunInv
<1> QED
  BY <1>1, RunInit, RunNext, PTL DEF Spec

----------------------------------------------------------------------------
\* The screen: pixels, slots of display[] and cells of the pad.

Set(a) == {p \in Pixels : a[Slot(p[1], p[2])] = 1}
Arrays == [0 .. Width * Height - 1 -> 0 .. 1]
Pads == [Cells -> {"border", "blank", "block"}]

\* What the pad shows of the array a.
Shows(screen, a) ==
  /\ \A p \in Pixels :
       screen[<<p[2] + 1, p[1] + 1>>] = IF a[Slot(p[1], p[2])] = 1 THEN "block" ELSE "blank"
  /\ \A cell \in Cells : OnBorder(cell) => screen[cell] # "block"

LEMMA ScreenSizes == Width \in Nat \ {0} /\ Height \in Nat \ {0}
  BY SizesAssumption

LEMMA PixelFields ==
  ASSUME NEW p \in Pixels
  PROVE  p[1] \in 0 .. Width - 1 /\ p[2] \in 0 .. Height - 1 /\ p = <<p[1], p[2]>>
  BY DEF Pixels

LEMMA SlotRange ==
  ASSUME NEW x \in 0 .. Width - 1, NEW y \in 0 .. Height - 1
  PROVE  Slot(x, y) \in 0 .. Width * Height - 1
<1>1. y * Width + Width <= Height * Width
  BY ScreenSizes, ProductAbove
<1>2. y * Width \in Nat /\ Height * Width = Width * Height
  BY ScreenSizes
<1> QED
  BY <1>1, <1>2, ScreenSizes DEF Slot

LEMMA SlotInjective ==
  ASSUME NEW x \in 0 .. Width - 1, NEW y \in 0 .. Height - 1,
         NEW u \in 0 .. Width - 1, NEW v \in 0 .. Height - 1,
         Slot(x, y) = Slot(u, v)
  PROVE  x = u /\ y = v
<1>1. x + y * Width = u + v * Width /\ y * Width \in Nat /\ v * Width \in Nat
  BY ScreenSizes DEF Slot
<1>2. CASE y < v
  <2>1. y * Width + Width <= v * Width
    BY <1>2, ScreenSizes, ProductAbove
  <2> QED
    BY <1>1, <2>1, ScreenSizes
<1>3. CASE v < y
  <2>1. v * Width + Width <= y * Width
    BY <1>3, ScreenSizes, ProductAbove
  <2> QED
    BY <1>1, <2>1, ScreenSizes
<1>4. CASE y = v
  BY <1>1, <1>4, ScreenSizes
<1> QED
  BY <1>2, <1>3, <1>4, ScreenSizes

\* One value of a function changed.
Changes(f, k, v, g) == g = [f EXCEPT ![k] = v]

\* One pixel set: no other changes, in the array or on the pad.
LEMMA PixelSet ==
  ASSUME NEW a \in Arrays, NEW x \in 0 .. Width - 1, NEW y \in 0 .. Height - 1, NEW b \in 0 .. 1,
         NEW after, Changes(a, Slot(x, y), b, after)
  PROVE  /\ after \in Arrays
         /\ \A p \in Pixels :
              after[Slot(p[1], p[2])] = IF p = <<x, y>> THEN b ELSE a[Slot(p[1], p[2])]
<1>1. Slot(x, y) \in 0 .. Width * Height - 1
  BY SlotRange
<1>2. after \in Arrays
  BY <1>1 DEF Arrays, Changes
<1>3. ASSUME NEW p \in Pixels
      PROVE  after[Slot(p[1], p[2])] = IF p = <<x, y>> THEN b ELSE a[Slot(p[1], p[2])]
  <2>1. p[1] \in 0 .. Width - 1 /\ p[2] \in 0 .. Height - 1 /\ p = <<p[1], p[2]>>
    BY PixelFields
  <2>2. PICK k \in 0 .. Width * Height - 1 : k = Slot(p[1], p[2])
    BY <2>1, SlotRange
  <2>3. CASE k = Slot(x, y)
    <3>1. Slot(p[1], p[2]) = Slot(x, y)
      BY <2>2, <2>3
    <3>2. p[1] = x /\ p[2] = y
      BY <2>1, <3>1, SlotInjective
    <3>3. p = <<x, y>>
      BY <2>1, <3>2
    <3> QED
      BY <2>2, <2>3, <3>3 DEF Arrays, Changes
  <2>4. CASE k # Slot(x, y)
    <3>1. p # <<x, y>>
      BY <2>2, <2>4
    <3> QED
      BY <2>2, <2>4, <3>1 DEF Arrays, Changes
  <2> QED
    BY <2>3, <2>4
<1> QED
  BY <1>2, <1>3

LEMMA CellSet ==
  ASSUME NEW screen \in Pads, NEW a \in Arrays, Shows(screen, a),
         NEW x \in 0 .. Width - 1, NEW y \in 0 .. Height - 1, NEW b \in 0 .. 1,
         NEW after, Changes(a, Slot(x, y), b, after),
         NEW new, Changes(screen, <<y + 1, x + 1>>, IF b = 1 THEN "block" ELSE "blank", new)
  PROVE  new \in Pads /\ Shows(new, after)
<1> DEFINE c == <<y + 1, x + 1>>
<1>1. c \in Cells /\ ~OnBorder(c)
  BY ScreenSizes DEF Cells, OnBorder
<1>2. new \in Pads
  BY <1>1 DEF Pads, Changes
<1>3. \A p \in Pixels : after[Slot(p[1], p[2])] = IF p = <<x, y>> THEN b ELSE a[Slot(p[1], p[2])]
  BY PixelSet
<1>4. \A d \in Cells : new[d] = IF d = c THEN IF b = 1 THEN "block" ELSE "blank" ELSE screen[d]
  <2>1. new = [screen EXCEPT ![c] = IF b = 1 THEN "block" ELSE "blank"]
    BY DEF Changes
  <2> HIDE DEF c
  <2> QED
    BY <1>1, <2>1 DEF Pads
<1>5. ASSUME NEW p \in Pixels
      PROVE  new[<<p[2] + 1, p[1] + 1>>] = IF after[Slot(p[1], p[2])] = 1 THEN "block" ELSE "blank"
  <2>1. p[1] \in 0 .. Width - 1 /\ p[2] \in 0 .. Height - 1 /\ p = <<p[1], p[2]>>
    BY PixelFields
  <2>2. <<p[2] + 1, p[1] + 1>> \in Cells
    BY <2>1, ScreenSizes DEF Cells
  <2>3. <<p[2] + 1, p[1] + 1>> = c <=> p = <<x, y>>
    BY <2>1, ScreenSizes
  <2>4. CASE p = <<x, y>>
    BY <1>3, <1>4, <2>2, <2>3, <2>4
  <2>5. CASE p # <<x, y>>
    BY <1>3, <1>4, <2>2, <2>3, <2>5 DEF Shows
  <2> QED
    BY <2>4, <2>5
<1>6. \A cell \in Cells : OnBorder(cell) => new[cell] # "block"
  BY <1>1, <1>4 DEF Shows
<1> QED
  BY <1>2, <1>5, <1>6 DEF Shows

----------------------------------------------------------------------------
\* draw_io in progress: where it is, and what it has drawn.

OpOf(m) == OpAt(m.memory, m.pc)
Rows(m) == IMMEDIATE4(OpOf(m))

\* The machine draw hands to draw_io, and the sprite's origin.
Begun(m) == Synced(OpOf(m), Retire(m))
OriginX(m) == Begun(m).regs[X(OpOf(m))] % Width
OriginY(m) == Begun(m).regs[Y(OpOf(m))] % Height

Sprite(m) == [k \in 0 .. Rows(m) - 1 |-> Begun(m).memory[Wrap(Begun(m).addr + k)]]

\* draw_io at column i of row j, with the VF it has gathered.
Place(m, i, j, vf) ==
  [active |-> TRUE, machine |-> Begun(m), n |-> Rows(m), sprite |-> Sprite(m),
   x |-> OriginX(m), y |-> OriginY(m), i |-> i, j |-> j, vf |-> vf]

Covered(m) == SpritePixels(Begun(m), Begun(m).regs[X(OpOf(m))], Begun(m).regs[Y(OpOf(m))], Rows(m))
Past(m, p, i, j) ==
  \/ p[2] - OriginY(m) < j
  \/ p[2] - OriginY(m) = j /\ p[1] - OriginX(m) < i
Half(m, i, j) == {p \in Covered(m) : Past(m, p, i, j)}

\* The pixels passed have been switched, and VF knows of a collision.
Picture(m, a, i, j) ==
  \A p \in Pixels : a[Slot(p[1], p[2])] = 1 <=> ~(p \in m.display <=> p \in Half(m, i, j))
Collided(m, i, j) == \E p \in Half(m, i, j) : p \in m.display

Between == drawing = Idle /\ Lit = vm.display
\* draw_io is at column i of row j.
DrawnTo(i, j, d) ==
  /\ d = Place(vm, i, j, d.vf) /\ d.vf \in 0 .. 1
  /\ Picture(vm, array, i, j)
  /\ d.vf = 1 <=> Collided(vm, i, j)

During ==
  /\ status = "running" /\ Kind(OpOf(vm)) = "draw"
  /\ \E i \in 0 .. 7, j \in 0 .. Rows(vm) : DrawnTo(i, j, drawing)

PictureInv ==
  /\ RunInv
  /\ array \in Arrays /\ pad \in Pads /\ Shows(pad, array)
  /\ Between \/ During

LEMMA BegunType ==
  ASSUME NEW m \in Machines
  PROVE  /\ OpOf(m) \in Word
         /\ Begun(m) \in Machines
         /\ Begun(m).display = m.display
         /\ Rows(m) \in 0 .. 15
         /\ OriginX(m) \in 0 .. Width - 1
         /\ OriginY(m) \in 0 .. Height - 1
<1>1. OpOf(m) \in Word
  <2>1. m.memory \in [Address -> Byte] /\ m.pc \in Int
    <3>1. m.memory \in [Address -> Byte] /\ m.pc \in Word
      BY MachineFields
    <3> QED
      BY <3>1 DEF Word
  <2> QED
    BY <2>1, OpInWord DEF OpOf
<1>2. Retire(m) \in Machines /\ Retire(m).display = m.display
  <2>1. Retire(m) \in Machines
    BY RetireType
  <2>2. Retire(m).display = m.display
    BY DEF Retire, Machines
  <2> QED
    BY <2>1, <2>2
<1>3. Begun(m) \in Machines /\ Begun(m).display = m.display
  BY <1>2, SyncedType DEF Begun, SameScreen
<1>4. Begun(m).regs[X(OpOf(m))] \in Byte /\ Begun(m).regs[Y(OpOf(m))] \in Byte
  <2>1. PICK n \in Machines : n = Begun(m)
    BY <1>3
  <2>2. n.regs[X(OpOf(m))] \in Byte /\ n.regs[Y(OpOf(m))] \in Byte
    BY <1>1, RegistersInByte
  <2> QED
    BY <2>1, <2>2
<1>5. \A b \in Byte : b % Width \in 0 .. Width - 1 /\ b % Height \in 0 .. Height - 1
  BY ScreenSizes DEF Byte
<1>6. Rows(m) \in 0 .. 15
  BY <1>1, FieldRanges DEF Rows
<1> QED
  BY <1>1, <1>3, <1>4, <1>5, <1>6 DEF OriginX, OriginY

LEMMA InCovered ==
  ASSUME NEW m \in Machines, NEW p
  PROVE  p \in Covered(m) <=>
           /\ p \in Pixels
           /\ p[1] - OriginX(m) \in 0 .. 7
           /\ p[2] - OriginY(m) \in 0 .. Rows(m) - 1
           /\ BitSet(Begun(m).memory[Wrap(Begun(m).addr + (p[2] - OriginY(m)))],
                     7 - (p[1] - OriginX(m)))
  BY DEF Covered, SpritePixels, Pixels, OriginX, OriginY

\* The place after column i of row j.
NextI(i) == IF i = 7 THEN 0 ELSE i + 1
NextJ(i, j) == IF i = 7 THEN j + 1 ELSE j

LEMMA LoopRecord ==
  ASSUME NEW on, NEW c, NEW n, NEW s, NEW x, NEW y, NEW i, NEW j, NEW vf, NEW new
  PROVE  LET r(a, b, v) == [active |-> on, machine |-> c, n |-> n, sprite |-> s,
                            x |-> x, y |-> y, i |-> a, j |-> b, vf |-> v]
         IN  /\ [r(i, j, vf) EXCEPT !.vf = new] = r(i, j, new)
             /\ [r(i, j, vf) EXCEPT !.i = new] = r(new, j, vf)
             /\ [r(i, j, vf) EXCEPT !.j = new] = r(i, new, vf)
  OBVIOUS

\* One assignment to a loop's variable.
LEMMA PlaceSet ==
  ASSUME NEW m, NEW i, NEW j, NEW vf, NEW new
  PROVE  /\ [Place(m, i, j, vf) EXCEPT !.vf = new] = Place(m, i, j, new)
         /\ [Place(m, i, j, vf) EXCEPT !.i = new] = Place(m, new, j, vf)
         /\ [Place(m, i, j, vf) EXCEPT !.j = new] = Place(m, i, new, vf)
         /\ Place(m, i, j, vf).i = i /\ Place(m, i, j, vf).j = j
<1>1. PICK on, c, n, s, x, y :
         /\ on = TRUE /\ c = Begun(m) /\ n = Rows(m) /\ s = Sprite(m)
         /\ x = OriginX(m) /\ y = OriginY(m)
  OBVIOUS
<1>2. \A a, b, v : Place(m, a, b, v) = [active |-> on, machine |-> c, n |-> n, sprite |-> s,
                                       x |-> x, y |-> y, i |-> a, j |-> b, vf |-> v]
  BY <1>1 DEF Place
<1>3. Place(m, i, j, vf).i = i /\ Place(m, i, j, vf).j = j
  BY <1>2
<1> QED
  BY <1>2, <1>3, LoopRecord

LEMMA NextPlace ==
  ASSUME NEW m, NEW i \in 0 .. 7, NEW j, NEW v
  PROVE  /\ NextPixel(Place(m, i, j, v)) = Place(m, NextI(i), NextJ(i, j), v)
         /\ NextRow(Place(m, i, j, v)) = Place(m, 0, j + 1, v)
<1>1. NextRow(Place(m, i, j, v)) = Place(m, 0, j + 1, v)
  <2>1. \A r : NextRow(r) = [[r EXCEPT !.i = 0] EXCEPT !.j = r.j + 1]
    BY DEF NextRow
  <2>2. [Place(m, i, j, v) EXCEPT !.i = 0] = Place(m, 0, j, v)
    BY PlaceSet
  <2>3. PICK row : row = j + 1
    OBVIOUS
  <2>4. [Place(m, 0, j, v) EXCEPT !.j = row] = Place(m, 0, row, v) /\ Place(m, i, j, v).j = j
    BY PlaceSet
  <2> QED
    BY <2>1, <2>2, <2>3, <2>4
<1>2. NextPixel(Place(m, i, j, v)) = Place(m, NextI(i), NextJ(i, j), v)
  <2>1. Place(m, i, j, v).i = i
    BY PlaceSet
  <2>2. CASE i = 7
    BY <1>1, <2>1, <2>2 DEF NextPixel, NextI, NextJ
  <2>3. CASE i # 7
    <3>1. PICK column : column = i + 1
      OBVIOUS
    <3>2. [Place(m, i, j, v) EXCEPT !.i = column] = Place(m, column, j, v)
      BY PlaceSet
    <3>3. \A r : r.i # 7 => NextPixel(r) = [r EXCEPT !.i = r.i + 1]
      BY DEF NextPixel
    <3> QED
      BY <2>1, <2>3, <3>1, <3>2, <3>3 DEF NextI, NextJ
  <2> QED
    BY <2>2, <2>3
<1> QED
  BY <1>1, <1>2

\* What is passed at the next place: the pixel at this one, if it is covered.
LEMMA HalfNext ==
  ASSUME NEW m \in Machines, NEW i \in 0 .. 7, NEW j \in 0 .. Rows(m) - 1, NEW p \in Pixels
  PROVE  p \in Half(m, NextI(i), NextJ(i, j)) <=>
           \/ p \in Half(m, i, j)
           \/ p \in Covered(m) /\ p[1] = OriginX(m) + i /\ p[2] = OriginY(m) + j
<1>1. /\ OriginX(m) \in Nat /\ OriginY(m) \in Nat /\ Rows(m) \in Nat
      /\ p[1] \in Nat /\ p[2] \in Nat
  BY BegunType, PixelFields
<1>2. p \in Covered(m) => p[1] - OriginX(m) \in 0 .. 7
  BY InCovered
<1>3. ASSUME p[1] - OriginX(m) \in 0 .. 7
      PROVE  Past(m, p, NextI(i), NextJ(i, j)) <=>
               Past(m, p, i, j) \/ (p[1] = OriginX(m) + i /\ p[2] = OriginY(m) + j)
  BY <1>1, <1>3 DEF Past, NextI, NextJ
<1> QED
  BY <1>2, <1>3 DEF Half

LEMMA HalfEnds ==
  ASSUME NEW m \in Machines
  PROVE  /\ Half(m, 0, 0) = {}
         /\ \A i \in 0 .. 7 : Half(m, i, Rows(m)) = Covered(m)
<1>1. /\ OriginX(m) \in Nat /\ OriginY(m) \in Nat /\ Rows(m) \in Nat
      /\ \A p \in Pixels : p[1] \in Nat /\ p[2] \in Nat
  BY BegunType, PixelFields
<1>2. \A p \in Covered(m) : /\ p \in Pixels
                            /\ p[1] - OriginX(m) \in 0 .. 7
                            /\ p[2] - OriginY(m) \in 0 .. Rows(m) - 1
  BY InCovered
<1>3. \A p \in Covered(m) : ~Past(m, p, 0, 0)
  BY <1>1, <1>2 DEF Past
<1>4. \A p \in Covered(m), i \in 0 .. 7 : Past(m, p, i, Rows(m))
  BY <1>1, <1>2 DEF Past
<1> QED
  BY <1>3, <1>4 DEF Half

----------------------------------------------------------------------------
\* One lemma for each step of the screen.

LEMMA PlaceFields ==
  ASSUME NEW i, NEW j, DrawnTo(i, j, drawing)
  PROVE  /\ drawing.active /\ drawing.machine = Begun(vm)
         /\ drawing.n = Rows(vm) /\ drawing.sprite = Sprite(vm)
         /\ drawing.x = OriginX(vm) /\ drawing.y = OriginY(vm)
         /\ drawing.i = i /\ drawing.j = j /\ drawing.vf \in 0 .. 1
<1>1. drawing.vf \in 0 .. 1
  BY DEF DrawnTo
<1>2. drawing = Place(vm, i, j, drawing.vf)
  BY DEF DrawnTo
<1>3. PICK v : v = drawing.vf
  OBVIOUS
<1>4. drawing = Place(vm, i, j, v)
  BY <1>2, <1>3
<1>5. drawing.active /\ drawing.machine = Begun(vm)
  BY <1>4 DEF Place
<1>6. /\ drawing.n = Rows(vm) /\ drawing.sprite = Sprite(vm)
      /\ drawing.x = OriginX(vm) /\ drawing.y = OriginY(vm)
      /\ drawing.i = i /\ drawing.j = j
  BY <1>4 DEF Place
<1> QED
  BY <1>1, <1>5, <1>6

\* What a step of the loops has to show.
LEMMA LoopStep ==
  ASSUME PictureInv, status = "running", Kind(OpOf(vm)) = "draw", UNCHANGED vars,
         NEW i \in 0 .. 7, NEW j \in 0 .. Rows(vm), NEW vf \in 0 .. 1,
         drawing' = Place(vm, i, j, vf),
         array' \in Arrays, pad' \in Pads, Shows(pad', array'),
         Picture(vm, array', i, j), vf = 1 <=> Collided(vm, i, j)
  PROVE  PictureInv'
<1>1. RunInv'
  BY RunNext DEF PictureInv
<1>2. vm' = vm /\ status' = status
  BY DEF vars
<1>3. drawing'.vf = vf
  BY DEF Place
<1>4. DrawnTo(i, j, drawing)'
  BY <1>2, <1>3 DEF DrawnTo
<1>5. During'
  BY <1>2, <1>4 DEF During
<1> QED
  BY <1>1, <1>5 DEF PictureInv

LEMMA BeginPicture ==
  ASSUME PictureInv, BeginDraw
  PROVE  PictureInv'
<1>1. vm \in Machines /\ status = "running" /\ Kind(OpOf(vm)) = "draw"
  BY DEF PictureInv, RunInv, TypeOK, BeginDraw, Op, OpOf
<1>2. UNCHANGED vars /\ array' = array /\ pad' = pad
  BY DEF BeginDraw
<1>3. drawing' = Place(vm, 0, 0, 0)
  BY DEF BeginDraw, Place, Begun, Op, OpOf, Rows, Sprite, OriginX, OriginY
<1>4. Lit = vm.display
  <2>1. ~drawing.active
    BY DEF BeginDraw
  <2>2. ~During
    BY <2>1, PlaceFields DEF During
  <2> QED
    BY <2>2 DEF PictureInv, Between
<1>5. Half(vm, 0, 0) = {}
  BY <1>1, HalfEnds
<1>6. Picture(vm, array', 0, 0) /\ ~Collided(vm, 0, 0)
  BY <1>2, <1>4, <1>5 DEF Picture, Collided, Lit
<1>7. 0 \in 0 .. 7 /\ 0 \in 0 .. Rows(vm) /\ 0 \in 0 .. 1
  BY <1>1, BegunType
<1>8. array' \in Arrays /\ pad' \in Pads /\ Shows(pad', array')
  BY <1>2 DEF PictureInv
<1> QED
  BY <1>1, <1>2, <1>3, <1>6, <1>7, <1>8, LoopStep

\* Where the loops are, in the middle of a sprite.
LEMMA InLoops ==
  ASSUME PictureInv, InSprite
  PROVE  /\ vm \in Machines /\ status = "running" /\ Kind(OpOf(vm)) = "draw"
         /\ \E i \in 0 .. 7, j \in 0 .. Rows(vm) - 1 :
              /\ DrawnTo(i, j, drawing)
              /\ NextI(i) \in 0 .. 7 /\ NextJ(i, j) \in 0 .. Rows(vm)
              /\ x2 = OriginX(vm) + i /\ y2 = OriginY(vm) + j
<1>1. vm \in Machines
  BY DEF PictureInv, RunInv, TypeOK
<1>2. During
  BY DEF PictureInv, Between, Idle, InSprite
<1>3. PICK i \in 0 .. 7, j \in 0 .. Rows(vm) : DrawnTo(i, j, drawing)
  BY <1>2 DEF During
<1>4. /\ drawing.i = i /\ drawing.j = j /\ drawing.n = Rows(vm)
      /\ drawing.x = OriginX(vm) /\ drawing.y = OriginY(vm)
  BY <1>3, PlaceFields
<1>5. OriginX(vm) \in Nat /\ OriginY(vm) \in Nat /\ Rows(vm) \in Nat
  BY <1>1, BegunType
<1>6. j \in 0 .. Rows(vm) - 1
  BY <1>4, <1>5 DEF InSprite
<1>7. x2 = OriginX(vm) + i /\ y2 = OriginY(vm) + j
  BY <1>4, <1>5 DEF x2, y2
<1>8. NextI(i) \in 0 .. 7 /\ NextJ(i, j) \in 0 .. Rows(vm)
  BY <1>5, <1>6 DEF NextI, NextJ
<1> QED
  BY <1>1, <1>2, <1>3, <1>6, <1>7, <1>8 DEF During

\* A row below the screen covers no pixel.
LEMMA HalfBelow ==
  ASSUME NEW m \in Machines, NEW i \in 0 .. 7, NEW j \in 0 .. Rows(m) - 1,
         OriginY(m) + j >= Height
  PROVE  Half(m, 0, j + 1) = Half(m, i, j)
<1>1. /\ OriginX(m) \in Nat /\ OriginY(m) \in Nat /\ Rows(m) \in Nat /\ Height \in Nat
      /\ \A p \in Pixels : p[1] \in Nat /\ p[2] \in 0 .. Height - 1
  BY BegunType, PixelFields, ScreenSizes
<1>2. ASSUME NEW p \in Covered(m)
      PROVE  Past(m, p, 0, j + 1) <=> Past(m, p, i, j)
  <2>1. p \in Pixels /\ p[1] - OriginX(m) \in 0 .. 7 /\ p[2] - OriginY(m) \in 0 .. Rows(m) - 1
    BY InCovered
  <2>2. p[2] < OriginY(m) + j
    BY <1>1, <2>1
  <2> QED
    BY <1>1, <2>1, <2>2 DEF Past
<1> QED
  BY <1>2 DEF Half

LEMMA ClipRowPicture ==
  ASSUME PictureInv, ClipRow
  PROVE  PictureInv'
<1>1. /\ InSprite /\ y2 >= Height /\ drawing' = NextRow(drawing)
      /\ UNCHANGED vars /\ array' = array /\ pad' = pad
  BY DEF ClipRow
<1>2. vm \in Machines /\ status = "running" /\ Kind(OpOf(vm)) = "draw"
  BY <1>1, InLoops
<1>3. PICK i \in 0 .. 7, j \in 0 .. Rows(vm) - 1 :
        DrawnTo(i, j, drawing) /\ y2 = OriginY(vm) + j
  BY <1>1, InLoops
<1>4. PICK vf \in 0 .. 1 : vf = drawing.vf /\ drawing = Place(vm, i, j, vf)
  BY <1>3 DEF DrawnTo
<1>5. NextRow(drawing) = Place(vm, 0, j + 1, vf)
  BY <1>2, <1>4, NextPlace
<1>6. Half(vm, 0, j + 1) = Half(vm, i, j)
  BY <1>1, <1>2, <1>3, HalfBelow
<1>7. Picture(vm, array', 0, j + 1) /\ (vf = 1 <=> Collided(vm, 0, j + 1))
  BY <1>1, <1>3, <1>4, <1>6 DEF DrawnTo, Picture, Collided
<1>8. 0 \in 0 .. 7 /\ j + 1 \in 0 .. Rows(vm)
  BY <1>2, BegunType
<1>9. array' \in Arrays /\ pad' \in Pads /\ Shows(pad', array')
  BY <1>1 DEF PictureInv
<1>10. PICK row \in 0 .. Rows(vm) : row = j + 1
  BY <1>8
<1>11. /\ drawing' = Place(vm, 0, row, vf)
       /\ Picture(vm, array', 0, row) /\ (vf = 1 <=> Collided(vm, 0, row))
  BY <1>1, <1>5, <1>7, <1>10
<1> QED
  BY <1>1, <1>2, <1>8, <1>9, <1>11, LoopStep

LEMMA HalfInPixels == ASSUME NEW m \in Machines, NEW i, NEW j PROVE Half(m, i, j) \subseteq Pixels
  BY InCovered DEF Half

LEMMA ClipPixelPicture ==
  ASSUME PictureInv, ClipPixel
  PROVE  PictureInv'
<1>1. /\ InSprite /\ x2 >= Width /\ drawing' = NextPixel(drawing)
      /\ UNCHANGED vars /\ array' = array /\ pad' = pad
  BY DEF ClipPixel
<1>2. vm \in Machines /\ status = "running" /\ Kind(OpOf(vm)) = "draw"
  BY <1>1, InLoops
<1>3. PICK i \in 0 .. 7, j \in 0 .. Rows(vm) - 1 :
        /\ DrawnTo(i, j, drawing) /\ x2 = OriginX(vm) + i
        /\ NextI(i) \in 0 .. 7 /\ NextJ(i, j) \in 0 .. Rows(vm)
  BY <1>1, InLoops
<1>4. PICK vf \in 0 .. 1 : vf = drawing.vf /\ drawing = Place(vm, i, j, vf)
  BY <1>3 DEF DrawnTo
<1>5. NextPixel(drawing) = Place(vm, NextI(i), NextJ(i, j), vf)
  BY <1>2, <1>4, NextPlace
<1>6. Half(vm, NextI(i), NextJ(i, j)) = Half(vm, i, j)
  <2>1. \A p \in Pixels : p[1] # OriginX(vm) + i
    BY <1>1, <1>3, PixelFields, ScreenSizes
  <2>2. \A p \in Pixels : p \in Half(vm, NextI(i), NextJ(i, j)) <=> p \in Half(vm, i, j)
    BY <1>2, <2>1, HalfNext
  <2> QED
    <3>1. PICK h, k : h = Half(vm, NextI(i), NextJ(i, j)) /\ k = Half(vm, i, j)
      OBVIOUS
    <3>2. h \subseteq Pixels /\ k \subseteq Pixels
      BY <1>2, <3>1, HalfInPixels
    <3>3. \A p \in Pixels : p \in h <=> p \in k
      BY <2>2, <3>1
    <3>4. h = k
      BY <3>2, <3>3
    <3> QED
      BY <3>1, <3>4
<1>7. /\ Picture(vm, array', NextI(i), NextJ(i, j))
      /\ vf = 1 <=> Collided(vm, NextI(i), NextJ(i, j))
  BY <1>1, <1>3, <1>4, <1>6 DEF DrawnTo, Picture, Collided
<1>8. array' \in Arrays /\ pad' \in Pads /\ Shows(pad', array')
  BY <1>1 DEF PictureInv
<1> QED
  BY <1>1, <1>2, <1>3, <1>5, <1>7, <1>8, LoopStep

\* The exclusive or of display[], and what VF makes of it.
LEMMA Toggle ==
  ASSUME NEW old \in 0 .. 1, NEW covered \in BOOLEAN, NEW bit, bit = Flag(covered)
  PROVE  /\ bit \in 0 .. 1 /\ (bit = 1 <=> covered)
         /\ (old + bit) % 2 \in 0 .. 1
         /\ (old + bit) % 2 = 1 <=> ~(old = 1 <=> covered)
<1>1. old = 0 \/ old = 1
  OBVIOUS
<1>2. CASE covered
  BY <1>1, <1>2 DEF Flag
<1>3. CASE ~covered
  BY <1>1, <1>3 DEF Flag
<1> QED
  BY <1>2, <1>3

LEMMA DrawPixelPicture ==
  ASSUME PictureInv, DrawPixel
  PROVE  PictureInv'
<1>1. InSprite /\ y2 < Height /\ x2 < Width /\ Pixel /\ UNCHANGED vars
  BY DEF DrawPixel
<1>2. vm \in Machines /\ status = "running" /\ Kind(OpOf(vm)) = "draw"
  BY <1>1, InLoops
<1>3. PICK i \in 0 .. 7, j \in 0 .. Rows(vm) - 1 :
        /\ DrawnTo(i, j, drawing)
        /\ NextI(i) \in 0 .. 7 /\ NextJ(i, j) \in 0 .. Rows(vm)
        /\ x2 = OriginX(vm) + i /\ y2 = OriginY(vm) + j
  BY <1>1, InLoops
<1>4. OriginX(vm) \in Nat /\ OriginY(vm) \in Nat /\ Rows(vm) \in Nat
  BY <1>2, BegunType
<1>5. PICK x \in 0 .. Width - 1, y \in 0 .. Height - 1 : x = x2 /\ y = y2
  BY <1>1, <1>3, <1>4, ScreenSizes
<1>6. <<x, y>> \in Pixels
  BY DEF Pixels
<1>7. PICK vf \in 0 .. 1 : vf = drawing.vf /\ drawing = Place(vm, i, j, vf)
  BY <1>3 DEF DrawnTo
<1> DEFINE covered == <<x, y>> \in Covered(vm)
<1>8. BitSet(drawing.sprite[drawing.j], 7 - drawing.i) <=> covered
  <2>1. drawing.sprite = Sprite(vm) /\ drawing.i = i /\ drawing.j = j
    BY <1>3, PlaceFields
  <2>2. drawing.sprite[drawing.j] = Begun(vm).memory[Wrap(Begun(vm).addr + j)]
    BY <2>1 DEF Sprite
  <2>3. x - OriginX(vm) = i /\ y - OriginY(vm) = j
    BY <1>3, <1>4, <1>5
  <2>4. PICK p : p = <<x, y>>
    OBVIOUS
  <2>5. p[1] - OriginX(vm) = i /\ p[2] - OriginY(vm) = j /\ p \in Pixels
    BY <1>6, <2>3, <2>4
  <2>6. p \in Covered(vm) <=> BitSet(Begun(vm).memory[Wrap(Begun(vm).addr + j)], 7 - i)
    BY <1>2, <2>5, InCovered
  <2> QED
    BY <2>1, <2>2, <2>4, <2>6
<1> HIDE DEF covered
<1>9. PICK bit : bit = Flag(BitSet(drawing.sprite[drawing.j], 7 - drawing.i))
  OBVIOUS
<1>10. PICK old \in 0 .. 1 : old = array[Slot(x, y)]
  BY SlotRange DEF PictureInv, Arrays
<1>11. PICK new \in 0 .. 1 : new = (old + bit) % 2
  <2>1. covered \in BOOLEAN /\ bit = Flag(covered)
    BY <1>8, <1>9 DEF covered, Flag
  <2> QED
    BY <2>1, Toggle
<1>12. (bit = 1 <=> covered) /\ (new = 1 <=> ~(old = 1 <=> covered))
  <2>1. covered \in BOOLEAN /\ bit = Flag(covered)
    BY <1>8, <1>9 DEF covered, Flag
  <2> QED
    BY <1>11, <2>1, Toggle
<1>13. PICK seen \in 0 .. 1 : seen = IF old = 1 /\ bit = 1 THEN 1 ELSE vf
  OBVIOUS
<1>14. /\ array' = [array EXCEPT ![Slot(x, y)] = new]
       /\ pad' = [pad EXCEPT ![<<y + 1, x + 1>>] = IF new = 1 THEN "block" ELSE "blank"]
  BY <1>1, <1>5, <1>9, <1>10, <1>11 DEF Pixel
<1>15. drawing' = NextPixel([drawing EXCEPT !.vf = seen])
  <2>1. drawing' = NextPixel([drawing EXCEPT !.vf = IF old = 1 /\ bit = 1 THEN 1 ELSE drawing.vf])
    BY <1>1, <1>5, <1>9, <1>10 DEF Pixel
  <2> QED
    BY <1>7, <1>13, <2>1
<1>16. drawing' = Place(vm, NextI(i), NextJ(i, j), seen)
  <2>1. [drawing EXCEPT !.vf = seen] = Place(vm, i, j, seen)
    BY <1>7, PlaceSet
  <2> QED
    BY <1>15, <2>1, NextPlace
<1>17. array \in Arrays /\ pad \in Pads /\ Shows(pad, array)
  BY DEF PictureInv
<1>18. PICK a, s : a = array' /\ s = pad'
  OBVIOUS
<1>19. /\ a \in Arrays
       /\ \A p \in Pixels : a[Slot(p[1], p[2])] = IF p = <<x, y>> THEN new ELSE array[Slot(p[1], p[2])]
  <2>1. PICK before \in Arrays : before = array
    BY <1>17
  <2>2. Changes(before, Slot(x, y), new, a)
    BY <1>14, <1>18, <2>1 DEF Changes
  <2>3. /\ a \in Arrays
        /\ \A p \in Pixels : a[Slot(p[1], p[2])] = IF p = <<x, y>> THEN new ELSE before[Slot(p[1], p[2])]
    BY <2>2, PixelSet
  <2> QED
    BY <2>1, <2>3
<1>20. s \in Pads /\ Shows(s, a)
  <2>1. PICK before \in Arrays, screen \in Pads : before = array /\ screen = pad
    BY <1>17
  <2>2. /\ Shows(screen, before) /\ Changes(before, Slot(x, y), new, a)
        /\ Changes(screen, <<y + 1, x + 1>>, IF new = 1 THEN "block" ELSE "blank", s)
    BY <1>14, <1>17, <1>18, <2>1 DEF Changes
  <2> QED
    BY <2>2, CellSet
<1>21. \A p \in Pixels : /\ array[Slot(p[1], p[2])] = 1 <=> ~(p \in vm.display <=> p \in Half(vm, i, j))
                         /\ vf = 1 <=> \E q \in Half(vm, i, j) : q \in vm.display
  BY <1>3, <1>7 DEF DrawnTo, Picture, Collided
<1>22. \A p \in Pixels : p \in Half(vm, NextI(i), NextJ(i, j)) <=>
                           p \in Half(vm, i, j) \/ (p = <<x, y>> /\ covered)
  <2> TAKE p \in Pixels
  <2>1. (p[1] = OriginX(vm) + i /\ p[2] = OriginY(vm) + j) <=> p = <<x, y>>
    BY <1>3, <1>5, PixelFields
  <2>2. p \in Half(vm, NextI(i), NextJ(i, j)) <=>
          \/ p \in Half(vm, i, j)
          \/ p \in Covered(vm) /\ p[1] = OriginX(vm) + i /\ p[2] = OriginY(vm) + j
    BY <1>2, HalfNext
  <2> QED
    BY <2>1, <2>2 DEF covered
<1>23. <<x, y>> \notin Half(vm, i, j)
  <2>1. x = OriginX(vm) + i /\ y = OriginY(vm) + j
    BY <1>3, <1>5
  <2>2. PICK p : p = <<x, y>>
    OBVIOUS
  <2>3. ~Past(vm, p, i, j)
    BY <1>4, <2>1, <2>2 DEF Past
  <2> QED
    BY <2>2, <2>3 DEF Half
<1>24. old = 1 <=> <<x, y>> \in vm.display
  BY <1>6, <1>10, <1>21, <1>23
<1>25. Picture(vm, a, NextI(i), NextJ(i, j))
  <2>1. ASSUME NEW p \in Pixels
        PROVE  a[Slot(p[1], p[2])] = 1 <=> ~(p \in vm.display <=> p \in Half(vm, NextI(i), NextJ(i, j)))
    <3>1. CASE p = <<x, y>>
      BY <1>12, <1>19, <1>22, <1>23, <1>24, <3>1
    <3>2. CASE p # <<x, y>>
      BY <1>19, <1>21, <1>22, <3>2
    <3> QED
      BY <3>1, <3>2
  <2> QED
    BY <2>1 DEF Picture
<1>26. seen = 1 <=> Collided(vm, NextI(i), NextJ(i, j))
  <2>1. Half(vm, i, j) \subseteq Pixels /\ Half(vm, NextI(i), NextJ(i, j)) \subseteq Pixels
    BY <1>2, HalfInPixels
  <2>2. Collided(vm, NextI(i), NextJ(i, j)) <=>
          (\E q \in Half(vm, i, j) : q \in vm.display) \/ (covered /\ <<x, y>> \in vm.display)
    BY <1>6, <1>22, <2>1 DEF Collided
  <2>3. vf = 1 <=> \E q \in Half(vm, i, j) : q \in vm.display
    BY <1>6, <1>21
  <2> QED
    BY <1>12, <1>13, <1>24, <2>2, <2>3
<1>27. UNCHANGED vars /\ array' \in Arrays /\ pad' \in Pads /\ Shows(pad', array')
  BY <1>1, <1>18, <1>19, <1>20
<1>28. Picture(vm, array', NextI(i), NextJ(i, j))
  BY <1>18, <1>25
<1> QED
  BY <1>2, <1>3, <1>16, <1>26, <1>27, <1>28, LoopStep

\* The last row done, the screen is what the instruction says.
LEMMA EndDraws ==
  ASSUME PictureInv, EndDraw
  PROVE  /\ BasicBlock
         /\ vm'.display = Lit
<1>1. drawing.active /\ drawing.j = drawing.n
  BY DEF EndDraw
<1>2. vm \in Machines /\ During
  BY <1>1 DEF PictureInv, RunInv, TypeOK, Between, Idle
<1>3. PICK i \in 0 .. 7, j \in 0 .. Rows(vm) : DrawnTo(i, j, drawing)
  BY <1>2 DEF During
<1>4. drawing.machine = Begun(vm) /\ j = Rows(vm) /\ drawing.vf \in 0 .. 1
  BY <1>1, <1>3, PlaceFields
<1>5. PICK b \in Machines : b = Begun(vm) /\ b.display = vm.display
  BY <1>2, BegunType
<1>6. PICK cover : cover = Covered(vm)
  OBVIOUS
<1>7. Half(vm, i, j) = cover
  BY <1>2, <1>4, <1>6, HalfEnds
<1>8. vm.display \subseteq Pixels /\ cover \subseteq Pixels
  BY <1>2, <1>6, InCovered DEF Machines, Pixels
<1>9. Lit = (vm.display \ cover) \cup (cover \ vm.display)
  <2>1. \A p \in Pixels : array[Slot(p[1], p[2])] = 1 <=> ~(p \in vm.display <=> p \in cover)
    BY <1>3, <1>7 DEF DrawnTo, Picture
  <2> QED
    BY <1>8, <2>1 DEF Lit
<1>10. drawing.vf = Flag(vm.display \cap cover # {})
  <2>1. drawing.vf = 1 <=> vm.display \cap cover # {}
    BY <1>3, <1>7 DEF DrawnTo, Collided
  <2> QED
    BY <1>4, <2>1 DEF Flag
<1>11. [b EXCEPT !.display = Lit, !.regs[15] = drawing.vf] = Draw(OpOf(vm), b)
  <2>1. PICK lit, flag : lit = Lit /\ flag = drawing.vf
    OBVIOUS
  <2>2. SpritePixels(b, b.regs[X(OpOf(vm))], b.regs[Y(OpOf(vm))], IMMEDIATE4(OpOf(vm))) = cover
    BY <1>5, <1>6 DEF Covered, Rows
  <2>3. /\ lit = (b.display \ cover) \cup (cover \ b.display)
        /\ flag = Flag(b.display \cap cover # {})
    BY <1>5, <1>9, <1>10, <2>1
  <2>4. Draw(OpOf(vm), b) = [b EXCEPT !.display = lit, !.regs[15] = flag]
    BY <2>2, <2>3 DEF Draw
  <2> QED
    BY <2>1, <2>4
<1>12. Kind(OpOf(vm)) = "draw" /\ status = "running"
  BY <1>2 DEF During
<1>13. vm' = STEP(Draw(OpOf(vm), b))
  BY <1>4, <1>5, <1>11 DEF EndDraw
<1>14. \A random : Execute(OpOf(vm), b, random) = STEP(Draw(OpOf(vm), b))
  BY <1>12 DEF Execute, SkipKinds, ArithmeticKinds
<1>15. ~Faults(OpOf(vm), b)
  BY <1>12 DEF Faults
<1>16. \E random \in RandomBytes : vm' = Execute(OpOf(vm), b, random)
  BY <1>13, <1>14, RandomAssumption
<1>17. BasicBlock
  BY <1>5, <1>12, <1>15, <1>16 DEF BasicBlock, EndDraw, OpOf, Begun
<1>18. vm'.display = Lit
  <2>1. PICK lit, flag : lit = Lit /\ flag = drawing.vf
    OBVIOUS
  <2>2. vm' = STEP([b EXCEPT !.display = lit, !.regs[15] = flag])
    BY <1>11, <1>13, <2>1
  <2>3. STEP([b EXCEPT !.display = lit, !.regs[15] = flag]).display = lit
    BY DEF STEP, At, Machines
  <2> QED
    BY <2>1, <2>2, <2>3
<1> QED
  BY <1>17, <1>18

LEMMA EndDrawPicture ==
  ASSUME PictureInv, EndDraw
  PROVE  PictureInv'
<1>1. BasicBlock /\ vm'.display = Lit
  BY EndDraws
<1>2. RunInv'
  BY <1>1, BlockRun DEF PictureInv
<1>3. drawing' = Idle /\ array' = array /\ pad' = pad
  BY DEF EndDraw
<1>4. Lit' = Lit
  BY <1>3 DEF Lit
<1> QED
  BY <1>1, <1>2, <1>3, <1>4 DEF PictureInv, Between

LEMMA OtherBlockPicture ==
  ASSUME PictureInv, OtherBlock
  PROVE  PictureInv'
<1>1. /\ ~drawing.active /\ Kind(Op) \notin {"draw", "clearscreen"} /\ (BasicBlock \/ Error)
      /\ array' = array /\ pad' = pad /\ drawing' = drawing
  BY DEF OtherBlock
<1>2. vm \in Machines /\ RunInv /\ Op \in Word
  BY OpInMemory DEF PictureInv, RunInv, TypeOK, Op
<1>3. Between
  <2>1. ~During
    BY <1>1, PlaceFields DEF During
  <2> QED
    BY <2>1 DEF PictureInv
<1>4. RunInv'
  BY <1>1, <1>2, BlockRun, ErrorRun
<1>5. PICK m : m = Synced(Op, Retire(vm))
  OBVIOUS
<1>6. m \in Machines /\ m.display = vm.display
  <2>1. status = "running"
    BY <1>1 DEF BasicBlock, Error
  <2> QED
    BY <1>2, <1>5, <2>1, BlockStarts
<1>7. vm'.display = vm.display
  <2>1. CASE Error
    BY <1>5, <1>6, <2>1 DEF Error, Op
  <2>2. CASE BasicBlock
    <3>1. ~Faults(Op, m)
      BY <1>5, <2>2 DEF BasicBlock, Op
    <3>2. PICK random : vm' = Execute(Op, m, random)
      BY <1>5, <2>2 DEF BasicBlock, Op
    <3>3. CASE Kind(Op) # "load_on_key"
      BY <1>1, <1>2, <1>6, <3>1, <3>2, <3>3, ExecuteKeepsScreen DEF SameScreen
    <3>4. CASE Kind(Op) = "load_on_key"
      <4>1. SameScreen(Polled(m, Polls(m)), Execute(Op, m, random))
        BY <1>2, <1>6, <3>4, WaitScreen
      <4>2. Polled(m, Polls(m)).display = m.display
        BY <1>6 DEF Polled, Machines
      <4> QED
        BY <1>6, <3>2, <4>1, <4>2 DEF SameScreen
    <3> QED
      BY <3>3, <3>4
  <2> QED
    BY <1>1, <2>1, <2>2
<1>8. Between'
  BY <1>1, <1>3, <1>7 DEF Between, Lit
<1> QED
  BY <1>1, <1>4, <1>8 DEF PictureInv

LEMMA ClearScreenPicture ==
  ASSUME PictureInv, ClearScreen
  PROVE  PictureInv'
<1>1. /\ ~drawing.active /\ Kind(Op) = "clearscreen" /\ BasicBlock /\ drawing' = drawing
      /\ array' = [k \in DOMAIN array |-> 0]
      /\ pad' = [cell \in Cells |-> "blank"]
  BY DEF ClearScreen, WipePad
<1>2. RunInv'
  BY <1>1, BlockRun DEF PictureInv
<1>3. drawing = Idle
  <2>1. ~During
    BY <1>1, PlaceFields DEF During
  <2> QED
    BY <2>1 DEF PictureInv, Between
<1>4. vm'.display = {}
  <2>1. PICK m : m = Synced(Op, Retire(vm))
    OBVIOUS
  <2>2. m \in Machines
    <3>1. status = "running" /\ RunInv
      BY <1>1 DEF BasicBlock, PictureInv
    <3> QED
      BY <2>1, <3>1, BlockStarts
  <2>3. PICK random : vm' = Execute(Op, m, random)
    BY <1>1, <2>1 DEF BasicBlock, Op
  <2>4. vm' = STEP([m EXCEPT !.display = {}])
    BY <1>1, <2>3 DEF Execute, SkipKinds, ArithmeticKinds
  <2> QED
    BY <2>2, <2>4 DEF STEP, At, Machines
<1>5. array' \in Arrays /\ pad' \in Pads
  BY <1>1 DEF PictureInv, Arrays, Pads
<1>6. \A p \in Pixels : array'[Slot(p[1], p[2])] = 0
  <2>1. DOMAIN array = 0 .. Width * Height - 1
    BY DEF PictureInv, Arrays
  <2>2. \A p \in Pixels : Slot(p[1], p[2]) \in 0 .. Width * Height - 1
    BY PixelFields, SlotRange
  <2> QED
    BY <1>1, <2>1, <2>2
<1>7. Shows(pad', array')
  <2>1. \A p \in Pixels : <<p[2] + 1, p[1] + 1>> \in Cells
    BY PixelFields, ScreenSizes DEF Cells
  <2> QED
    BY <1>1, <1>6, <2>1 DEF Shows
<1>8. Between'
  BY <1>1, <1>3, <1>4, <1>6 DEF Between, Lit
<1> QED
  BY <1>2, <1>5, <1>7, <1>8 DEF PictureInv

----------------------------------------------------------------------------
\* Screen implements Interp, and its pictures never part.

LEMMA PictureInit == ScreenInit => PictureInv
<1> SUFFICES ASSUME ScreenInit PROVE PictureInv
  OBVIOUS
<1>1. Init /\ drawing = Idle
  BY DEF ScreenInit
<1>2. RunInv
  BY <1>1, RunInit
<1>3. vm.display = {}
  BY <1>1 DEF Init, Booted
<1>4. /\ array = [k \in 0 .. Width * Height - 1 |-> 0]
      /\ pad = [cell \in Cells |-> IF OnBorder(cell) THEN "border" ELSE "blank"]
  BY DEF ScreenInit
<1>5. array \in Arrays /\ pad \in Pads
  BY <1>4 DEF Arrays, Pads
<1>6. \A p \in Pixels : array[Slot(p[1], p[2])] = 0
  BY <1>4, PixelFields, SlotRange
<1>7. Shows(pad, array)
  <2>1. \A p \in Pixels : /\ <<p[2] + 1, p[1] + 1>> \in Cells
                          /\ ~OnBorder(<<p[2] + 1, p[1] + 1>>)
    BY PixelFields, ScreenSizes DEF Cells, OnBorder
  <2>2. \A p \in Pixels : pad[<<p[2] + 1, p[1] + 1>>] = "blank"
    BY <1>4, <2>1
  <2>3. \A cell \in Cells : pad[cell] # "block"
    BY <1>4
  <2> QED
    BY <1>6, <2>2, <2>3 DEF Shows
<1>8. Between
  BY <1>1, <1>3, <1>6 DEF Between, Lit
<1> QED
  BY <1>2, <1>5, <1>7, <1>8 DEF PictureInv

LEMMA PictureNext == PictureInv /\ [ScreenNext]_screenvars => PictureInv'
<1> SUFFICES ASSUME PictureInv, [ScreenNext]_screenvars PROVE PictureInv'
  OBVIOUS
<1>1. ASSUME UNCHANGED screenvars PROVE PictureInv'
  BY <1>1 DEF screenvars, vars, PictureInv, RunInv, TypeOK, StopsOnBudget, BenchDone, CLOCK_CAP,
              Between, During, DrawnTo, Lit
<1>2. CASE Halted /\ UNCHANGED <<array, pad, drawing>>
  BY <1>1, <1>2 DEF Halted, screenvars
<1> QED
  BY <1>1, <1>2, OtherBlockPicture, ClearScreenPicture, BeginPicture, ClipRowPicture,
     ClipPixelPicture, DrawPixelPicture, EndDrawPicture DEF ScreenNext

LEMMA StepImplements == PictureInv /\ [ScreenNext]_screenvars => [Next]_vars
<1> SUFFICES ASSUME PictureInv, [ScreenNext]_screenvars PROVE [Next]_vars
  OBVIOUS
<1>1. CASE OtherBlock \/ ClearScreen
  BY <1>1 DEF OtherBlock, ClearScreen, Next
<1>2. CASE BeginDraw \/ ClipRow \/ ClipPixel \/ DrawPixel
  BY <1>2 DEF BeginDraw, ClipRow, ClipPixel, DrawPixel
<1>3. CASE EndDraw
  BY <1>3, EndDraws DEF Next
<1>4. CASE Halted \/ UNCHANGED screenvars
  BY <1>4 DEF Halted, screenvars
<1> QED
  BY <1>1, <1>2, <1>3, <1>4 DEF ScreenNext

\* draw_io's loops, clipped and wrapped pixel by pixel, come to the screen and
\* the VF of Chip8!Draw: opened up, the interpreter is the one of Interp.
THEOREM ScreenImplements == ScreenSpec => Spec
<1>1. ScreenInit => Init
  BY DEF ScreenInit
<1> QED
  BY <1>1, PictureInit, PictureNext, StepImplements, PTL DEF ScreenSpec, Spec

\* draw_io and clear_screen keep display[] and the pad the same picture, half
\* drawn sprites included, and draw nothing outside the border.
THEOREM PictureKept == ScreenSpec => []PadMatches
<1>1. PictureInv => PadMatches
  <2> SUFFICES ASSUME PictureInv PROVE PadMatches
    OBVIOUS
  <2>1. Shows(pad, array)
    BY DEF PictureInv
  <2>2. ~drawing.active => vm.display = Lit
    BY PlaceFields DEF PictureInv, Between, During
  <2> QED
    BY <2>1, <2>2 DEF Shows, PadMatches
<1> QED
  BY <1>1, PictureInit, PictureNext, PTL DEF ScreenSpec

----------------------------------------------------------------------------
\* The interpreter implements Machine.

LEMMA StepLevel ==
  ASSUME RunInv
  PROVE  LET op == OpAt(vm.memory, vm.pc)
         IN  /\ Abstract!Op = op /\ op \in Word
             /\ Level(Synced(op, Retire(vm)), Retire(Reported))
             /\ Kind(op) \in TimerKinds => SyncTimers(Synced(op, Retire(vm))) = Synced(op, Retire(vm))
<1> DEFINE op == OpAt(vm.memory, vm.pc)
           w  == Retire(vm)
<1>1. vm \in Machines /\ w \in Machines
  BY RetireType DEF RunInv, TypeOK
<1>2. Abstract!Op = op /\ op \in Word
  BY <1>1, SyncTimersKeeps, OpInMemory DEF Reported, Abstract!Op
<1>3. Level(w, Retire(Reported))
  BY <1>1, LevelSynced, LevelRetire DEF Reported
<1>4. Synced(op, w) \in {w, SyncTimers(w)}
  BY DEF Synced
<1>5. Level(Synced(op, w), Retire(Reported))
  BY <1>1, <1>3, <1>4, LevelSynced, LevelTransitive
<1>6. Kind(op) \in TimerKinds => SyncTimers(Synced(op, w)) = Synced(op, w)
  BY <1>1, Levelled DEF Synced, SyncKinds
<1> QED
  BY <1>2, <1>5, <1>6

LEMMA BlockImplements ==
  ASSUME RunInv, BasicBlock
  PROVE  Abstract!Execution
<1> DEFINE op == OpAt(vm.memory, vm.pc)
           m  == Synced(op, Retire(vm))
<1>1. /\ Abstract!Op = op /\ op \in Word /\ Level(m, Retire(Reported))
      /\ Kind(op) \in TimerKinds => SyncTimers(m) = m
  BY StepLevel
<1>2. status = "running" /\ ~Faults(op, m) /\ status' \in {"running", "done"}
  BY DEF BasicBlock
<1>3. PICK random \in RandomBytes : vm' = Execute(op, m, random)
  BY DEF BasicBlock
<1> HIDE DEF op, m
<1>4. ~Faults(op, SyncTimers(Retire(Reported)))
  BY <1>1, <1>2, LevelKeepsFaults, LevelSynced, LevelTransitive DEF Level
<1>5. Reported' = SyncTimers(Execute(op, SyncTimers(Retire(Reported)), random))
  BY <1>1, <1>2, <1>3, LevelExecute DEF Reported
<1> QED
  BY <1>1, <1>2, <1>4, <1>5 DEF Abstract!Execution, Abstract!Retired

LEMMA ErrorImplements ==
  ASSUME RunInv, Error
  PROVE  Abstract!Fault
<1> DEFINE op == OpAt(vm.memory, vm.pc)
           m  == Synced(op, Retire(vm))
<1>1. Abstract!Op = op /\ Level(m, Retire(Reported))
  BY StepLevel
<1>2. status = "running" /\ Faults(op, m) /\ vm' = m /\ status' = "fault"
  BY DEF Error
<1> HIDE DEF op, m
<1>3. Faults(op, SyncTimers(Retire(Reported)))
  BY <1>1, <1>2, LevelKeepsFaults, LevelSynced, LevelTransitive DEF Level
<1>4. Reported' = SyncTimers(Retire(Reported))
  BY <1>1, <1>2 DEF Reported, Level
<1> QED
  BY <1>1, <1>2, <1>3, <1>4 DEF Abstract!Fault, Abstract!Retired

LEMMA InitImplements == Init => Abstract!Init
  BY BootedStart DEF Init, Abstract!Init, Reported

\* Counting the timers down only where they are looked at is counting them at
\* every instruction: for every program the interpreter does what the abstract
\* machine does, instruction for instruction.
THEOREM LazyTimers == Spec => ImplementsMachine
<1>1. RunInv /\ [Next]_vars => [Abstract!Next]_(Abstract!vars)
  <2> SUFFICES ASSUME RunInv, [Next]_vars PROVE [Abstract!Next]_(Abstract!vars)
    OBVIOUS
  <2>1. CASE UNCHANGED vars
    BY <2>1 DEF vars, Abstract!vars, Reported
  <2>2. CASE BasicBlock
    BY <2>2, BlockImplements DEF Abstract!Next
  <2>3. CASE Error
    BY <2>3, ErrorImplements DEF Abstract!Next
  <2> QED
    BY <2>1, <2>2, <2>3 DEF Next, Halted
<1> QED
  BY <1>1, InitImplements, RunInit, RunNext, PTL DEF Spec, ImplementsMachine, Abstract!Spec
=============================================================================
