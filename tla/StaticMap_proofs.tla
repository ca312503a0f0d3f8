-------------------------- MODULE StaticMap_proofs --------------------------
(***************************************************************************)
(* The descent of disas.c finds exactly the reachable words, within its    *)
(* stack, and the map it draws covers execution: for every ROM, size of    *)
(* memory and entry point.                                                 *)
(***************************************************************************)
EXTENDS StaticMap, FiniteSetTheorems, SequenceTheorems, TLAPS

Places == {a \in ENTRYPOINT .. MEMORY_SIZE : a % 2 = 0}
Elements(s) == {s[i] : i \in DOMAIN s}

----------------------------------------------------------------------------
\* The image.

LEMMA Sizes ==
  /\ MEMORY_SIZE \in Nat /\ ENTRYPOINT \in Nat
  /\ ENTRYPOINT >= 2 /\ ENTRYPOINT <= MEMORY_SIZE
  /\ ENTRYPOINT % 2 = 0
  BY LayoutAssumption

LEMMA EndRange ==
  ASSUME TypeOK
  PROVE  /\ End \in Nat /\ ENTRYPOINT <= End /\ End <= MEMORY_SIZE
         /\ End = ENTRYPOINT + Len(rom) /\ Len(rom) \in Nat
  BY Sizes DEF TypeOK, End

LEMMA MemberOf ==
  ASSUME NEW S, NEW s \in Seq(S), NEW i \in 1 .. Len(s)
  PROVE  s[i] \in S
  OBVIOUS

LEMMA ByteRange ==
  ASSUME TypeOK, NEW a \in Int
  PROVE  ByteAt(a) \in 0 .. 255
<1>1. CASE a \in ENTRYPOINT .. End - 1
  <2>1. a - ENTRYPOINT + 1 \in 1 .. Len(rom)
    BY <1>1, Sizes, EndRange
  <2>2. rom \in Seq(0 .. 255)
    BY DEF TypeOK
  <2>3. rom[a - ENTRYPOINT + 1] \in 0 .. 255
    BY <2>1, <2>2, MemberOf
  <2> QED
    BY <1>1, <2>3 DEF ByteAt
<1>2. CASE a \notin ENTRYPOINT .. End - 1
  BY <1>2 DEF ByteAt
<1> QED
  BY <1>1, <1>2

LEMMA WordRange ==
  ASSUME TypeOK, NEW a \in Int
  PROVE  WordAt(a) \in Nat
<1>1. PICK hi \in Nat : hi = ByteAt(a)
  BY ByteRange
<1>2. PICK lo \in Nat : lo = ByteAt(a + 1)
  BY ByteRange
<1>3. 256 * hi + lo \in Nat
  OBVIOUS
<1> QED
  BY <1>1, <1>2, <1>3 DEF WordAt

LEMMA TargetRange ==
  ASSUME NEW op \in Nat
  PROVE  NNN(op) \in 0 .. MEMORY_SIZE - 1
<1>1. MEMORY_SIZE \in Nat \ {0}
  BY Sizes
<1> QED
  BY <1>1 DEF NNN

LEMMA CountRange ==
  ASSUME NEW op \in Nat
  PROVE  /\ N(op) \in 0 .. 15
         /\ StoreLength(op) \in 0 .. 16 /\ LoadLength(op) \in 0 .. 16
<1>1. N(op) \in 0 .. 15
  BY DEF N
<1>2. Xof(op) \in 0 .. 15
  <2>1. PICK q \in Nat : q = op \div 256
    OBVIOUS
  <2>2. q % 16 \in 0 .. 15
    OBVIOUS
  <2> QED
    BY <2>1, <2>2 DEF Xof
<1>3. StoreLength(op) \in 0 .. 16
  BY <1>2 DEF StoreLength
<1>4. LoadLength(op) \in 0 .. 16
  BY <1>2 DEF LoadLength
<1> QED
  BY <1>1, <1>3, <1>4

\* As long as the ROM is the same, so is everything read from it.
LEMMA SameImage ==
  ASSUME UNCHANGED rom
  PROVE  /\ End' = End /\ Words' = Words
         /\ \A a : /\ WordAt(a)' = WordAt(a) /\ Labelable(a)' = Labelable(a)
                   /\ Decodable(a)' = Decodable(a) /\ Follows(a)' = Follows(a)
         /\ \A S : HoldsEntry(S)' = HoldsEntry(S) /\ Closed(S)' = Closed(S)
<1>1. End' = End
  BY DEF End
<1>2. \A a : ByteAt(a)' = ByteAt(a)
  BY <1>1 DEF ByteAt
<1>3. \A a : WordAt(a)' = WordAt(a)
  BY <1>2 DEF WordAt
<1>4. \A a : Labelable(a)' = Labelable(a)
  BY <1>1 DEF Labelable
<1>5. \A a : Decodable(a)' = Decodable(a)
  BY <1>3, <1>4 DEF Decodable
<1>6. \A a : Follows(a)' = Follows(a)
  BY <1>3 DEF Follows
<1>7. Words' = Words
  BY <1>1 DEF Words
<1>8. \A S : HoldsEntry(S)' = HoldsEntry(S)
  BY <1>5 DEF HoldsEntry
<1>9. \A S : Closed(S)' = Closed(S)
  BY <1>5, <1>6 DEF Closed
<1> QED
  BY <1>1, <1>3, <1>4, <1>5, <1>6, <1>7, <1>8, <1>9

LEMMA LabelablePlaces ==
  ASSUME TypeOK, NEW a \in Int, Labelable(a)
  PROVE  a \in Places /\ a + 1 < End
  BY Sizes, EndRange DEF Labelable, Places

\* Where Next leaves the walk.
LEMMA FreshWord ==
  ASSUME TypeOK, Fresh
  PROVE  /\ pc \in Words /\ pc + 2 \in Places /\ pc + 1 < End /\ pc \in Places
         /\ Decodable(pc) /\ pc \notin reach
<1>1. pc \in Nat /\ pc % 2 = 0 /\ pc >= ENTRYPOINT /\ pc + 1 < End
  BY Sizes DEF TypeOK, Fresh
<1>2. (pc + 2) % 2 = 0
  BY <1>1
<1>3. pc + 2 \in Places /\ pc \in Places
  BY <1>1, <1>2, Sizes, EndRange DEF Places
<1>4. pc \in Words
  BY <1>1, Sizes, EndRange DEF Words
<1> QED
  BY <1>1, <1>3, <1>4 DEF Fresh, Decodable, Labelable

----------------------------------------------------------------------------
\* Types.

LEMMA PushType ==
  ASSUME todo \in Seq(Places), NEW a \in Places
  PROVE  /\ Append(todo, a) \in Seq(Places)
         /\ Len(Append(todo, a)) = Len(todo) + 1
         /\ Elements(Append(todo, a)) = Elements(todo) \cup {a}
<1> DEFINE t == Append(todo, a)
<1>1. /\ t \in Seq(Places) /\ Len(t) = Len(todo) + 1 /\ Len(todo) \in Nat
      /\ \A i \in 1 .. Len(todo) : t[i] = todo[i]
      /\ t[Len(todo) + 1] = a
  OBVIOUS
<1>2. DOMAIN t = 1 .. Len(todo) + 1 /\ DOMAIN todo = 1 .. Len(todo)
  BY <1>1
<1> HIDE DEF t
<1>3. \A e : e \in Elements(t) <=> e \in Elements(todo) \/ e = a
  BY <1>1, <1>2 DEF Elements
<1> QED
  BY <1>1, <1>3 DEF t

LEMMA PopType ==
  ASSUME todo \in Seq(Places), todo # << >>
  PROVE  /\ todo[Len(todo)] \in Places
         /\ SubSeq(todo, 1, Len(todo) - 1) \in Seq(Places)
         /\ Len(SubSeq(todo, 1, Len(todo) - 1)) = Len(todo) - 1
         /\ Elements(todo) = Elements(SubSeq(todo, 1, Len(todo) - 1)) \cup {todo[Len(todo)]}
<1> DEFINE t == SubSeq(todo, 1, Len(todo) - 1)
<1>1. Len(todo) \in Nat \ {0}
  OBVIOUS
<1>2. /\ t \in Seq(Places) /\ Len(t) = Len(todo) - 1
      /\ \A i \in 1 .. Len(todo) - 1 : t[i] = todo[i]
  <2>1. \A i \in 1 .. Len(todo) - 1 : todo[i] \in Places
    BY <1>1
  <2>2. /\ t \in Seq(Places)
        /\ Len(t) = IF 1 <= Len(todo) - 1 THEN Len(todo) - 1 - 1 + 1 ELSE 0
        /\ \A i \in 1 .. Len(todo) - 1 - 1 + 1 : t[i] = todo[1 + i - 1]
    BY <1>1, <2>1, SubSeqProperties
  <2>3. PICK n \in Nat : n = Len(todo) - 1
    BY <1>1
  <2>4. n - 1 + 1 = n /\ \A i \in 1 .. n : 1 + i - 1 = i
    BY <2>3
  <2>5. Len(t) = n
    BY <2>2, <2>3, <2>4
  <2> QED
    BY <2>2, <2>3, <2>4, <2>5
<1>3. DOMAIN t = 1 .. Len(todo) - 1 /\ DOMAIN todo = 1 .. Len(todo)
  BY <1>1, <1>2
<1>4. todo[Len(todo)] \in Places
  BY <1>1
<1> HIDE DEF t
<1>5. \A e : e \in Elements(todo) <=> e \in Elements(t) \/ e = todo[Len(todo)]
  BY <1>1, <1>2, <1>3 DEF Elements
<1> QED
  BY <1>2, <1>4, <1>5 DEF t

\* What a path may mark as data.
LEMMA MarkedType ==
  ASSUME TypeOK, Fresh, NEW n \in Nat, MarkData(n), reach' = reach \cup {pc, pc + 1}
  PROVE  data' \subseteq 0 .. End - 1 /\ data' \cap reach' = {}
<1>1. Anchored(n) \subseteq 0 .. End - 1 \/ last_ldi = NoLdi
  BY EndRange DEF Anchored, TypeOK, NoLdi
<1>2. data' \subseteq 0 .. End - 1
  BY <1>1 DEF MarkData, TypeOK
<1>3. data' \cap reach' = {}
  BY DEF MarkData, TypeOK
<1> QED
  BY <1>2, <1>3

\* A turn of the walk: the word at pc becomes code, and the path goes on
\* behind it or ends.
Turn ==
  /\ Enter
  /\ \/ pc' = pc + 2 /\ phase' = phase
     \/ pc' = pc /\ phase' = "descend"
  /\ \/ todo' = todo
     \/ \E a \in Places : todo' = Append(todo, a)
  /\ \E n \in Nat : MarkData(n)
  /\ last_ldi' \in 0 .. MEMORY_SIZE - 1 \cup {NoLdi}
  /\ smc_possible' \in BOOLEAN /\ indirect_jump_seen' \in BOOLEAN

LEMMA OpRange ==
  ASSUME TypeOK
  PROVE  Op \in Nat /\ NNN(Op) \in 0 .. MEMORY_SIZE - 1
<1>1. pc \in Int
  BY DEF TypeOK
<1>2. Op \in Nat
  BY <1>1, WordRange DEF Op
<1> QED
  BY <1>2, TargetRange

\* What may be pushed is a place.
LEMMA PushedPlace ==
  ASSUME TypeOK
  PROVE  /\ Labelable(NNN(Op)) => NNN(Op) \in Places
         /\ Fresh /\ pc + 4 < End => pc + 4 \in Places
<1>1. NNN(Op) \in Int
  BY OpRange
<1>2. Labelable(NNN(Op)) => NNN(Op) \in Places
  BY <1>1, LabelablePlaces
<1>3. ASSUME Fresh, pc + 4 < End PROVE pc + 4 \in Places
  <2>1. pc \in Nat /\ pc % 2 = 0 /\ pc >= ENTRYPOINT
    BY Sizes DEF TypeOK
  <2>2. (pc + 4) % 2 = 0
    BY <2>1
  <2> QED
    BY <1>3, <2>1, <2>2, Sizes, EndRange DEF Places
<1> QED
  BY <1>2, <1>3

LEMMA WalkIsTurn ==
  ASSUME TypeOK, Walk
  PROVE  Turn
<1> USE DEF Enter, Stop, GoOn, NoData, PushIf, Push
<1>0. /\ last_ldi \in 0 .. MEMORY_SIZE - 1 \cup {NoLdi}
      /\ smc_possible \in BOOLEAN /\ indirect_jump_seen \in BOOLEAN
      /\ 0 \in Nat /\ NNN(Op) \in 0 .. MEMORY_SIZE - 1
  BY OpRange DEF TypeOK
<1>1. CASE WalkReturn
  BY <1>0, <1>1 DEF WalkReturn, Turn
<1>2. CASE WalkJump
  BY <1>0, <1>2, PushedPlace DEF WalkJump, Turn
<1>3. CASE WalkCall
  BY <1>0, <1>3, PushedPlace DEF WalkCall, Turn
<1>4. CASE WalkSkip
  BY <1>0, <1>4, PushedPlace DEF WalkSkip, Turn
<1>5. CASE WalkLoadAddr
  BY <1>0, <1>5 DEF WalkLoadAddr, Turn
<1>6. CASE WalkBranch
  BY <1>0, <1>6, PushedPlace DEF WalkBranch, Turn
<1>7. N(Op) \in Nat /\ StoreLength(Op) \in Nat /\ LoadLength(Op) \in Nat
  BY OpRange, CountRange
<1>8. CASE WalkDraw
  BY <1>0, <1>7, <1>8 DEF WalkDraw, Turn
<1>9. CASE WalkStore
  <2>1. smc_possible' \in BOOLEAN
    BY <1>9 DEF WalkStore, NoteWrite
  <2> QED
    BY <1>0, <1>7, <1>9, <2>1 DEF WalkStore, Turn
<1>10. CASE WalkLoad
  BY <1>0, <1>7, <1>10 DEF WalkLoad, Turn
<1>11. CASE WalkPlain
  BY <1>0, <1>11 DEF WalkPlain, Turn
<1> QED
  BY <1>1, <1>2, <1>3, <1>4, <1>5, <1>6, <1>8, <1>9, <1>10, <1>11 DEF Walk

LEMMA TurnType ==
  ASSUME TypeOK, Turn
  PROVE  TypeOK'
<1>1. Fresh /\ rom' = rom /\ decode_unreachable' = decode_unreachable /\ leader' = leader
      /\ reach' = reach \cup {pc, pc + 1} /\ phase = "walk"
  BY DEF Turn, Enter, Settings
<1>2. pc \in Words /\ pc + 1 < End /\ pc + 2 \in Places /\ pc \in Places
  BY <1>1, FreshWord
<1>3. End' = End
  BY <1>1, SameImage
<1>4. reach' \subseteq ENTRYPOINT .. End' - 1
  BY <1>1, <1>2, <1>3, Sizes, EndRange DEF TypeOK, Places
<1>5. data' \subseteq 0 .. End' - 1 /\ data' \cap reach' = {}
  <2>1. PICK n \in Nat : MarkData(n)
    BY DEF Turn
  <2> QED
    BY <1>1, <1>3, <2>1, MarkedType
<1>6. todo' \in Seq(Places)
  <2>1. todo \in Seq(Places)
    BY DEF TypeOK, Places
  <2> QED
    BY <2>1, PushType DEF Turn
<1>7. pc' \in ENTRYPOINT .. MEMORY_SIZE + 1 /\ pc' % 2 = 0 /\ phase' \in Phases
  BY <1>1, <1>2, Sizes DEF Turn, Places, Phases
<1> QED
  BY <1>1, <1>4, <1>5, <1>6, <1>7 DEF TypeOK, Turn, Places

LEMMA PlaceRange ==
  ASSUME NEW a \in Places
  PROVE  a \in ENTRYPOINT .. MEMORY_SIZE + 1 /\ a % 2 = 0
<1>1. a \in ENTRYPOINT .. MEMORY_SIZE /\ a % 2 = 0
  BY DEF Places
<1>2. MEMORY_SIZE \in Nat /\ ENTRYPOINT \in Nat
  BY Sizes
<1> QED
  BY <1>1, <1>2

LEMMA InitType == Init => TypeOK
<1> SUFFICES ASSUME Init PROVE TypeOK
  OBVIOUS
<1>1. rom \in Seq(0 .. 255) /\ Len(rom) <= MEMORY_SIZE - ENTRYPOINT
  BY ImagesAssumption DEF Init
<1>2. todo \in Seq({a \in ENTRYPOINT .. MEMORY_SIZE : a % 2 = 0})
  BY DEF Init
<1>3. pc \in ENTRYPOINT .. MEMORY_SIZE + 1 /\ pc % 2 = 0
  BY Sizes DEF Init
<1>4. phase \in Phases /\ last_ldi \in 0 .. MEMORY_SIZE - 1 \cup {NoLdi}
  BY DEF Init, Phases
<1>5. /\ reach = {} /\ data = {} /\ leader = {} /\ smc_possible \in BOOLEAN
      /\ indirect_jump_seen \in BOOLEAN /\ decode_unreachable \in BOOLEAN
  BY DEF Init
<1> QED
  BY <1>1, <1>2, <1>3, <1>4, <1>5 DEF TypeOK

\* The steps of main around the walk.
LEMMA MainType ==
  ASSUME TypeOK, Analyze \/ Pop \/ EndPath \/ Descended \/ GlueUnreachable \/ Classify
  PROVE  TypeOK'
<1>0. rom' = rom /\ decode_unreachable' = decode_unreachable
  BY DEF Analyze, Pop, EndPath, Descended, GlueUnreachable, Classify, Settings
<1>1. End' = End
  BY <1>0, SameImage
<1>2. CASE Analyze
  <2>1. ENTRYPOINT \in Places
    BY Sizes DEF Places
  <2>2. todo' \in Seq(Places)
    BY <1>2, <2>1 DEF Analyze
  <2>3. Targets \subseteq Int
    <3>1. \A w \in Words : WordAt(w) \in Nat
      <4>1. Words \subseteq Int
        BY Sizes, EndRange DEF Words
      <4> QED
        BY <4>1, WordRange
    <3>2. \A w \in Words : NNN(WordAt(w)) \in Int
      <4> SUFFICES ASSUME NEW w \in Words PROVE NNN(WordAt(w)) \in Int
        OBVIOUS
      <4>1. NNN(WordAt(w)) \in 0 .. MEMORY_SIZE - 1
        BY <3>1, TargetRange
      <4> QED
        BY <4>1
    <3> QED
      BY <3>2 DEF Targets
  <2>4. {a \in Targets : Labelable(a)} \subseteq ENTRYPOINT .. MEMORY_SIZE
    BY <2>3, LabelablePlaces DEF Places
  <2>5. {a \in Boundaries : a < End} \subseteq ENTRYPOINT .. MEMORY_SIZE
    BY Sizes, EndRange DEF Boundaries, Skips, Enders, Words
  <2>6. leader' \subseteq ENTRYPOINT .. MEMORY_SIZE
    BY <1>2, <2>4, <2>5, Sizes DEF Analyze
  <2> QED
    BY <1>0, <1>1, <1>2, <2>2, <2>6 DEF Analyze, TypeOK, Phases, Places
<1>3. CASE Pop
  <2>1. todo \in Seq(Places)
    BY DEF TypeOK, Places
  <2>2. pc' \in Places /\ todo' \in Seq(Places)
    BY <1>3, <2>1, PopType DEF Pop
  <2>3. pc' \in ENTRYPOINT .. MEMORY_SIZE + 1 /\ pc' % 2 = 0
    BY <2>2, PlaceRange
  <2> QED
    BY <1>0, <1>1, <1>3, <2>2, <2>3 DEF Pop, TypeOK, Phases, Settings, Places
<1>4. CASE EndPath \/ Descended
  BY <1>0, <1>1, <1>4 DEF EndPath, Descended, TypeOK, Phases, Settings
<1>5. CASE GlueUnreachable
  <2>1. leader \subseteq ENTRYPOINT .. MEMORY_SIZE
    BY DEF TypeOK
  <2>2. Dead \subseteq ENTRYPOINT .. MEMORY_SIZE
    BY Sizes, EndRange DEF Dead
  <2>3. leader' \subseteq ENTRYPOINT .. MEMORY_SIZE
    BY <1>5, <2>1, <2>2 DEF GlueUnreachable, Glued, RunStarts
  <2> QED
    BY <1>0, <1>1, <1>5, <2>3 DEF GlueUnreachable, TypeOK, Phases
<1>6. CASE Classify
  <2>1. data \subseteq 0 .. End - 1 /\ data \cap reach = {} /\ reach' = reach
    BY <1>6 DEF Classify, TypeOK
  <2>2. Dead \subseteq 0 .. End - 1 /\ Dead \cap reach = {}
    BY Sizes, EndRange DEF Dead
  <2>3. data' \subseteq 0 .. End' - 1 /\ data' \cap reach' = {}
    BY <1>1, <1>6, <2>1, <2>2 DEF Classify
  <2> QED
    BY <1>0, <1>1, <1>6, <2>3 DEF Classify, TypeOK, Phases, Settings
<1> QED
  BY <1>2, <1>3, <1>4, <1>5, <1>6

LEMMA NextType == TypeOK /\ [Next]_vars => TypeOK'
<1> SUFFICES ASSUME TypeOK, [Next]_vars PROVE TypeOK'
  OBVIOUS
<1>1. CASE Walk
  BY <1>1, WalkIsTurn, TurnType
<1>2. CASE Analyze \/ Pop \/ EndPath \/ Descended \/ GlueUnreachable \/ Classify
  BY <1>2, MainType
<1>3. CASE UNCHANGED vars
  BY <1>3, SameImage DEF vars, TypeOK
<1> QED
  BY <1>1, <1>2, <1>3 DEF Next, Halted

\* The variables of the disassembler keep their types in every run on every ROM.
THEOREM MapTypes == Spec => []TypeOK
<1>1. Init => TypeOK
  BY InitType
<1>2. TypeOK /\ [Next]_vars => TypeOK'
  BY NextType
<1> QED
  BY <1>1, <1>2, PTL DEF Spec

----------------------------------------------------------------------------
\* The words found and the work left.

\* Places the descent will still look at.
Pending == Elements(todo) \cup (IF phase = "walk" THEN {pc} ELSE {})

Found == CodeWords \cup Pending

WholeWords == reach = CodeWords \cup {a + 1 : a \in CodeWords}
OnlyWords == \A a \in CodeWords : a \in Words /\ Decodable(a)
NothingMissed ==
  /\ phase # "analyze" => HoldsEntry(Found)
  /\ \A a \in CodeWords : \A b \in Follows(a) : Decodable(b) => b \in Found
NothingElse ==
  \A S \in SUBSET Words : HoldsEntry(S) /\ Closed(S) => \A b \in Found : Decodable(b) => b \in S
Exhausted == phase \notin {"descend", "walk"} => todo = << >>

WorkInv == WholeWords /\ OnlyWords /\ NothingMissed /\ NothingElse /\ Exhausted

LEMMA FollowsCases ==
  ASSUME NEW a
  PROVE  /\ WordAt(a) = 238 => Follows(a) = {}
         /\ Nibble(WordAt(a)) \in {1, 11} => Follows(a) = {NNN(WordAt(a))}
         /\ Nibble(WordAt(a)) = 2 => Follows(a) = {NNN(WordAt(a)), a + 2}
         /\ Nibble(WordAt(a)) \in {3, 4, 5, 9, 14} => Follows(a) = {a + 2, a + 4}
         /\ WordAt(a) = 224 => Follows(a) = {a + 2}
         /\ Nibble(WordAt(a)) \in {6, 7, 8, 10, 12, 13, 15} => Follows(a) = {a + 2}
<1>1. Nibble(238) = 0 /\ Nibble(224) = 0
  BY DEF Nibble
<1> QED
  BY <1>1 DEF Follows

\* What a turn makes of the work.
Extends ==
  /\ \A b \in Follows(pc) : Decodable(b) => b \in Pending'
  /\ Pending' \subseteq Pending \cup Follows(pc)
  /\ Pending \subseteq Pending' \cup {pc}

LEMMA WentOn ==
  ASSUME phase = "walk", GoOn, NEW A, Elements(todo)' = Elements(todo) \cup A
  PROVE  Pending = Elements(todo) \cup {pc} /\ Pending' = Elements(todo) \cup A \cup {pc + 2}
  BY DEF Pending, GoOn

LEMMA Stopping ==
  ASSUME phase = "walk", Stop, NEW A, Elements(todo)' = Elements(todo) \cup A
  PROVE  Pending = Elements(todo) \cup {pc} /\ Pending' = Elements(todo) \cup A
  BY DEF Pending, Stop

LEMMA Kept ==
  ASSUME todo' = todo
  PROVE  Elements(todo)' = Elements(todo) \cup {}
  BY DEF Elements

LEMMA Pushed ==
  ASSUME TypeOK, NEW c \in BOOLEAN, NEW a, PushIf(c, a), c => a \in Places
  PROVE  Elements(todo)' = Elements(todo) \cup (IF c THEN {a} ELSE {})
<1>0. todo \in Seq(Places)
  BY DEF TypeOK, Places
<1>1. CASE c
  <2>1. todo' = Append(todo, a)
    BY <1>1 DEF PushIf, Push
  <2>2. Elements(Append(todo, a)) = Elements(todo) \cup {a}
    BY <1>0, <1>1, PushType
  <2>3. Elements(todo') = Elements(todo) \cup {a}
    BY <2>1, <2>2
  <2> QED
    BY <1>1, <2>3
<1>2. CASE ~c
  BY <1>2, Kept DEF PushIf
<1> QED
  BY <1>1, <1>2

LEMMA DecodableLabelable == \A b : Decodable(b) => Labelable(b) /\ b + 1 < End
  BY DEF Decodable, Labelable

LEMMA WalkExtends ==
  ASSUME TypeOK, Walk
  PROVE  Extends
<1>0. Enter /\ phase = "walk" /\ Fresh
  BY DEF Walk, WalkReturn, WalkJump, WalkCall, WalkSkip, WalkLoadAddr, WalkBranch, WalkDraw,
         WalkStore, WalkLoad, WalkPlain, Enter
<1>1. Op = WordAt(pc)
  BY DEF Op
<1>2. CASE WalkReturn
  <2>1. Follows(pc) = {}
    BY <1>1, <1>2, FollowsCases DEF WalkReturn
  <2>2. Pending = Elements(todo) \cup {pc} /\ Pending' = Elements(todo) \cup {}
    BY <1>0, <1>2, Kept, Stopping DEF WalkReturn
  <2> QED
    BY <2>1, <2>2 DEF Extends
<1> DEFINE c == Labelable(NNN(Op))
           d == pc + 4 < End
<1>3. c \in BOOLEAN /\ (c => NNN(Op) \in Places)
  BY PushedPlace DEF Labelable
<1>4. d \in BOOLEAN /\ (d => pc + 4 \in Places)
  BY <1>0, PushedPlace
<1>5. Decodable(NNN(Op)) => c
  BY DecodableLabelable
<1>6. Decodable(pc + 4) => d
  <2>1. pc \in Int /\ End \in Int
    BY EndRange, Sizes DEF TypeOK
  <2> QED
    BY <2>1, DecodableLabelable
<1> HIDE DEF c, d
<1>7. CASE WalkJump \/ WalkBranch
  <2>1. Follows(pc) = {NNN(Op)}
    BY <1>1, <1>7, FollowsCases DEF WalkJump, WalkBranch
  <2>2. Elements(todo)' = Elements(todo) \cup (IF c THEN {NNN(Op)} ELSE {})
    <3>1. PushIf(c, NNN(Op))
      BY <1>7 DEF WalkJump, WalkBranch, c
    <3> QED
      BY <1>3, <3>1, Pushed
  <2>3. /\ Pending = Elements(todo) \cup {pc}
        /\ Pending' = Elements(todo) \cup (IF c THEN {NNN(Op)} ELSE {})
    BY <1>0, <1>7, <2>2, Stopping DEF WalkJump, WalkBranch
  <2> QED
    BY <1>5, <2>1, <2>3 DEF Extends
<1>8. CASE WalkCall
  <2>1. Follows(pc) = {NNN(Op), pc + 2}
    BY <1>1, <1>8, FollowsCases DEF WalkCall
  <2>2. Elements(todo)' = Elements(todo) \cup (IF c THEN {NNN(Op)} ELSE {})
    <3>1. PushIf(c, NNN(Op))
      BY <1>8 DEF WalkCall, c
    <3> QED
      BY <1>3, <3>1, Pushed
  <2>3. /\ Pending = Elements(todo) \cup {pc}
        /\ Pending' = Elements(todo) \cup (IF c THEN {NNN(Op)} ELSE {}) \cup {pc + 2}
    BY <1>0, <1>8, <2>2, WentOn DEF WalkCall
  <2> QED
    BY <1>5, <2>1, <2>3 DEF Extends
<1>9. CASE WalkSkip
  <2>1. Follows(pc) = {pc + 2, pc + 4}
    BY <1>1, <1>9, FollowsCases DEF WalkSkip
  <2>2. Elements(todo)' = Elements(todo) \cup (IF d THEN {pc + 4} ELSE {})
    <3>1. PushIf(d, pc + 4)
      BY <1>9 DEF WalkSkip, d
    <3> QED
      BY <1>4, <3>1, Pushed
  <2>3. /\ Pending = Elements(todo) \cup {pc}
        /\ Pending' = Elements(todo) \cup (IF d THEN {pc + 4} ELSE {}) \cup {pc + 2}
    BY <1>0, <1>9, <2>2, WentOn DEF WalkSkip
  <2> QED
    BY <1>6, <2>1, <2>3 DEF Extends
<1>10. CASE WalkLoadAddr \/ WalkDraw \/ WalkStore \/ WalkLoad \/ WalkPlain
  <2>1. Follows(pc) = {pc + 2}
    BY <1>1, <1>10, FollowsCases DEF WalkLoadAddr, WalkDraw, WalkStore, WalkLoad, WalkPlain
  <2>2. todo' = todo /\ GoOn
    BY <1>10 DEF WalkLoadAddr, WalkDraw, WalkStore, WalkLoad, WalkPlain, NoData
  <2>3. Pending = Elements(todo) \cup {pc} /\ Pending' = Elements(todo) \cup {} \cup {pc + 2}
    BY <1>0, <2>2, Kept, WentOn
  <2> QED
    BY <2>1, <2>3 DEF Extends
<1> QED
  BY <1>2, <1>7, <1>8, <1>9, <1>10 DEF Walk

LEMMA WalkWork ==
  ASSUME TypeOK, WorkInv, Walk
  PROVE  WorkInv'
<1>1. /\ Extends /\ Enter /\ Fresh /\ phase = "walk" /\ UNCHANGED rom
      /\ reach' = reach \cup {pc, pc + 1} /\ phase' \in {"walk", "descend"}
  BY WalkExtends, WalkIsTurn DEF Turn, Enter, Settings
<1>2. pc \in Words /\ Decodable(pc) /\ pc \in Int /\ pc % 2 = 0 /\ (pc + 1) % 2 = 1
  <2>1. pc \in Words /\ Decodable(pc)
    BY <1>1, FreshWord
  <2>2. pc \in Int /\ pc % 2 = 0
    BY Sizes DEF TypeOK
  <2>3. (pc + 1) % 2 = 1
    BY <2>2
  <2> QED
    BY <2>1, <2>2, <2>3
<1>3. CodeWords' = CodeWords \cup {pc}
  BY <1>1, <1>2 DEF CodeWords
<1>4. pc \in Pending
  BY <1>1 DEF Pending
<1>5. Found \subseteq Found' /\ Found' \subseteq Found \cup Follows(pc)
  BY <1>1, <1>3, <1>4 DEF Found, Extends
<1>6. WholeWords'
  BY <1>1, <1>3 DEF WorkInv, WholeWords
<1>7. OnlyWords'
  BY <1>1, <1>2, <1>3, SameImage DEF WorkInv, OnlyWords
<1>8. NothingMissed'
  <2>1. HoldsEntry(Found')
    BY <1>1, <1>5 DEF WorkInv, NothingMissed, HoldsEntry
  <2>2. ASSUME NEW a \in CodeWords \cup {pc}, NEW b \in Follows(a), Decodable(b)
        PROVE  b \in Found'
    <3>1. CASE a = pc
      BY <1>1, <2>2, <3>1 DEF Extends, Found
    <3>2. CASE a \in CodeWords
      BY <1>5, <2>2, <3>2 DEF WorkInv, NothingMissed
    <3> QED
      BY <3>1, <3>2
  <2>3. HoldsEntry(Found)'
    BY <1>1, <2>1, SameImage DEF HoldsEntry
  <2>4. \A a \in CodeWords' : \A b \in Follows(a)' : Decodable(b)' => b \in Found'
    BY <1>1, <1>3, <2>2, SameImage
  <2> QED
    BY <2>3, <2>4 DEF NothingMissed
<1>9. NothingElse'
  <2>1. ASSUME NEW S \in SUBSET Words, HoldsEntry(S), Closed(S), NEW b \in Found', Decodable(b)
        PROVE  b \in S
    <3>1. CASE b \in Found
      BY <2>1, <3>1 DEF WorkInv, NothingElse
    <3>2. CASE b \in Follows(pc)
      <4>1. pc \in S
        BY <1>2, <1>4, <2>1 DEF WorkInv, NothingElse, Found
      <4> QED
        BY <2>1, <3>2, <4>1 DEF Closed
    <3> QED
      BY <1>5, <3>1, <3>2
  <2>2. /\ Words' = Words
        /\ \A S : HoldsEntry(S)' = HoldsEntry(S) /\ Closed(S)' = Closed(S)
        /\ \A b : Decodable(b)' = Decodable(b)
    BY <1>1, SameImage
  <2> QED
    BY <2>1, <2>2 DEF NothingElse
<1>10. Exhausted'
  BY <1>1 DEF Exhausted
<1> QED
  BY <1>6, <1>7, <1>8, <1>9, <1>10 DEF WorkInv

\* Steps that find nothing and lose nothing decodable.
LEMMA IdleWork ==
  ASSUME WorkInv, UNCHANGED <<rom, reach>>, Exhausted',
         phase' # "analyze" => HoldsEntry(Found'),
         \A b \in Found : Decodable(b) => b \in Found',
         \A S \in SUBSET Words : HoldsEntry(S) => \A b \in Found' \ Found : Decodable(b) => b \in S
  PROVE  WorkInv'
<1>1. CodeWords' = CodeWords
  BY DEF CodeWords
<1>2. /\ Words' = Words
      /\ \A a : Decodable(a)' = Decodable(a) /\ Follows(a)' = Follows(a)
      /\ \A S : HoldsEntry(S)' = HoldsEntry(S) /\ Closed(S)' = Closed(S)
  BY SameImage
<1>3. WholeWords' /\ OnlyWords'
  BY <1>1, <1>2 DEF WorkInv, WholeWords, OnlyWords
<1>4. NothingMissed'
  <2>1. phase' # "analyze" => HoldsEntry(Found)'
    BY <1>2 DEF HoldsEntry
  <2>2. \A a \in CodeWords : \A b \in Follows(a) : Decodable(b) => b \in Found'
    BY DEF WorkInv, NothingMissed
  <2> QED
    BY <1>1, <1>2, <2>1, <2>2 DEF NothingMissed
<1>5. NothingElse'
  <2>1. \A S \in SUBSET Words : HoldsEntry(S) /\ Closed(S) => \A b \in Found' : Decodable(b) => b \in S
    BY DEF WorkInv, NothingElse
  <2> QED
    BY <1>2, <2>1 DEF NothingElse
<1> QED
  BY <1>3, <1>4, <1>5 DEF WorkInv

LEMMA MainWork ==
  ASSUME TypeOK, WorkInv, Analyze \/ Pop \/ EndPath \/ Descended \/ GlueUnreachable \/ Classify
  PROVE  WorkInv'
<1>1. UNCHANGED <<rom, reach>>
  BY DEF Analyze, Pop, EndPath, Descended, GlueUnreachable, Classify, Settings
<1>2. CodeWords' = CodeWords
  BY <1>1 DEF CodeWords
<1>3. CASE Analyze
  <2>1. todo = << >> /\ todo' = <<ENTRYPOINT>> /\ phase = "analyze" /\ phase' = "descend"
    BY <1>3 DEF Analyze, WorkInv, Exhausted
  <2>2. Pending = {} /\ Pending' = {ENTRYPOINT}
    BY <2>1 DEF Pending, Elements
  <2>3. Found' = Found \cup {ENTRYPOINT}
    BY <1>2, <2>2 DEF Found
  <2> QED
    BY <1>1, <2>1, <2>3, IdleWork DEF Exhausted, HoldsEntry
<1>4. CASE Pop
  <2>1. /\ todo \in Seq(Places) /\ todo # << >> /\ phase = "descend" /\ phase' = "walk"
        /\ pc' = todo[Len(todo)] /\ todo' = SubSeq(todo, 1, Len(todo) - 1)
    BY <1>4 DEF Pop, TypeOK, Places
  <2>2. Elements(todo) = Elements(SubSeq(todo, 1, Len(todo) - 1)) \cup {todo[Len(todo)]}
    BY <2>1, PopType
  <2>3. Pending' = Elements(todo') \cup {pc'} /\ Pending = Elements(todo)
    BY <2>1 DEF Pending
  <2>4. Found' = Found
    BY <1>2, <2>1, <2>2, <2>3 DEF Found
  <2>5. HoldsEntry(Found)
    BY <2>1 DEF WorkInv, NothingMissed
  <2> QED
    BY <1>1, <2>1, <2>4, <2>5, IdleWork DEF Exhausted
<1>5. CASE EndPath
  <2>1. phase = "walk" /\ phase' = "descend" /\ todo' = todo /\ ~Fresh
    BY <1>5 DEF EndPath
  <2>2. Pending = Elements(todo) \cup {pc} /\ Pending' = Elements(todo)
    BY <2>1 DEF Pending
  <2>3. Decodable(pc) => pc \in CodeWords
    <3>1. Decodable(pc) => pc + 1 < End /\ ValidOpcode(WordAt(pc)) /\ pc % 2 = 0
      BY DEF Decodable, Labelable
    <3> QED
      BY <2>1, <3>1 DEF Fresh, CodeWords
  <2>4. Found' \subseteq Found /\ \A b \in Found : Decodable(b) => b \in Found'
    BY <1>2, <2>2, <2>3 DEF Found
  <2>5. HoldsEntry(Found)
    BY <2>1 DEF WorkInv, NothingMissed
  <2>6. HoldsEntry(Found')
    BY <2>4, <2>5 DEF HoldsEntry
  <2> QED
    BY <1>1, <2>1, <2>4, <2>6, IdleWork DEF Exhausted
<1>6. CASE Descended \/ GlueUnreachable \/ Classify
  <2>1. /\ todo' = todo /\ todo = << >>
        /\ phase \notin {"walk", "analyze"} /\ phase' \notin {"walk", "descend", "analyze"}
    BY <1>6 DEF Descended, GlueUnreachable, Classify, WorkInv, Exhausted
  <2>2. Pending' = Pending
    BY <2>1 DEF Pending
  <2>3. Found' = Found
    BY <1>2, <2>2 DEF Found
  <2>4. HoldsEntry(Found)
    BY <2>1 DEF WorkInv, NothingMissed
  <2> QED
    BY <1>1, <2>1, <2>3, <2>4, IdleWork DEF Exhausted
<1> QED
  BY <1>3, <1>4, <1>5, <1>6

LEMMA InitWork == Init => WorkInv
<1> SUFFICES ASSUME Init PROVE WorkInv
  OBVIOUS
<1>1. reach = {} /\ todo = << >> /\ phase = "analyze"
  BY DEF Init
<1>2. CodeWords = {} /\ Pending = {}
  BY <1>1 DEF CodeWords, Pending, Elements
<1> QED
  BY <1>1, <1>2 DEF WorkInv, WholeWords, OnlyWords, NothingMissed, NothingElse, Exhausted, Found

LEMMA NextWork == TypeOK /\ WorkInv /\ [Next]_vars => WorkInv'
<1> SUFFICES ASSUME TypeOK, WorkInv, [Next]_vars PROVE WorkInv'
  OBVIOUS
<1>1. CASE Walk
  BY <1>1, WalkWork
<1>2. CASE Analyze \/ Pop \/ EndPath \/ Descended \/ GlueUnreachable \/ Classify
  BY <1>2, MainWork
<1>3. CASE UNCHANGED vars
  <2>1. UNCHANGED <<rom, reach, todo, phase, pc>>
    BY <1>3 DEF vars
  <2>2. CodeWords' = CodeWords /\ Pending' = Pending
    BY <2>1 DEF CodeWords, Pending, Elements
  <2>3. Found' = Found
    BY <2>2 DEF Found
  <2>4. Exhausted' /\ (phase' # "analyze" => HoldsEntry(Found))
    BY <2>1 DEF WorkInv, Exhausted, NothingMissed
  <2> QED
    BY <2>1, <2>3, <2>4, IdleWork
<1> QED
  BY <1>1, <1>2, <1>3 DEF Next, Halted

LEMMA WorkReach == WorkInv => ReachExact
<1> SUFFICES ASSUME WorkInv, Analyzed PROVE ReachExact
  BY DEF ReachExact
<1>1. todo = << >> /\ phase \notin {"walk", "analyze"}
  BY DEF WorkInv, Exhausted, Analyzed
<1>2. Pending = {}
  BY <1>1 DEF Pending, Elements
<1>3. Found = CodeWords
  BY <1>2 DEF Found
<1>4. HoldsEntry(CodeWords) /\ Closed(CodeWords)
  BY <1>1, <1>3 DEF WorkInv, NothingMissed, Closed
<1>5. \A S \in SUBSET Words : HoldsEntry(S) /\ Closed(S) => CodeWords \subseteq S
  BY <1>3 DEF WorkInv, NothingElse, OnlyWords
<1>6. reach = CodeWords \cup {a + 1 : a \in CodeWords}
  BY DEF WorkInv, WholeWords
<1> QED
  BY <1>4, <1>5, <1>6 DEF ReachExact

\* disas.c:144, descend: for every ROM and size of memory, the words the work
\* list finds are the least closed set of the statically reachable words.
THEOREM DescentExact == Spec => []ReachExact
<1>1. Init => TypeOK /\ WorkInv
  BY InitType, InitWork
<1>2. TypeOK /\ WorkInv /\ [Next]_vars => (TypeOK /\ WorkInv)'
  BY NextType, NextWork
<1>3. WorkInv => ReachExact
  BY WorkReach
<1> QED
  BY <1>1, <1>2, <1>3, PTL DEF Spec

----------------------------------------------------------------------------
\* The depth of the work list: each word found pushes one place at most.

LEMMA WordCount ==
  ASSUME TypeOK
  PROVE  IsFiniteSet(Words) /\ Cardinality(Words) + 1 <= MEMORY_SIZE \div 2
<1> DEFINE f == [a \in Words |-> a \div 2]
           low == ENTRYPOINT \div 2
           high == MEMORY_SIZE \div 2 - 1
<1>1. /\ low \in Int /\ high \in Int /\ 1 <= low /\ low <= high + 1
      /\ 2 * low = ENTRYPOINT /\ 2 * (high + 1) = MEMORY_SIZE /\ high + 1 = MEMORY_SIZE \div 2
  <2>1. PICK m \in Int : m = MEMORY_SIZE \div 2 /\ 2 * m = MEMORY_SIZE
    BY LayoutAssumption
  <2>2. PICK e \in Int : e = ENTRYPOINT \div 2 /\ 2 * e = ENTRYPOINT
    BY LayoutAssumption
  <2>3. 1 <= e /\ e <= m
    BY <2>1, <2>2, Sizes
  <2> QED
    BY <2>1, <2>2, <2>3
<1>2. \A a \in Words : a \in Int /\ 2 * (a \div 2) = a /\ a \div 2 \in low .. high
  <2> SUFFICES ASSUME NEW a \in Words
               PROVE  a \in Int /\ 2 * (a \div 2) = a /\ a \div 2 \in low .. high
    OBVIOUS
  <2>1. a \in Int /\ a % 2 = 0 /\ ENTRYPOINT <= a /\ a <= MEMORY_SIZE - 2
    BY Sizes, EndRange DEF Words
  <2>2. PICK h \in Int : h = a \div 2 /\ 2 * h = a
    BY <2>1
  <2>3. low <= h /\ h <= high
    BY <1>1, <2>1, <2>2, Sizes
  <2> QED
    BY <1>1, <2>1, <2>2, <2>3
<1>3. f \in Injection(Words, low .. high)
  <2>1. f \in [Words -> low .. high]
    BY <1>2
  <2>2. ASSUME NEW a \in Words, NEW b \in Words, f[a] = f[b] PROVE a = b
    <3>1. 2 * (a \div 2) = 2 * (b \div 2)
      BY <2>2
    <3> QED
      BY <1>2, <3>1
  <2> HIDE DEF f
  <2> QED
    BY <2>1, <2>2 DEF Injection, IsInjective
<1> HIDE DEF f, low, high
<1>4. IsFiniteSet(low .. high) /\ Cardinality(low .. high) = high - low + 1
  <2>1. /\ IsFiniteSet(low .. high)
        /\ Cardinality(low .. high) = IF low > high THEN 0 ELSE high - low + 1
    BY <1>1, FS_Interval
  <2> QED
    BY <1>1, <2>1
<1>5. IsFiniteSet(Words) /\ Cardinality(Words) <= Cardinality(low .. high)
  BY <1>3, <1>4, FS_Injection
<1>6. Cardinality(Words) \in Nat
  BY <1>5, FS_CardinalityType
<1>7. Cardinality(Words) + 1 <= high + 1
  BY <1>1, <1>4, <1>5, <1>6
<1> QED
  BY <1>1, <1>5, <1>7

LEMMA CodeCount ==
  ASSUME TypeOK, WorkInv
  PROVE  /\ IsFiniteSet(CodeWords) /\ Cardinality(CodeWords) \in Nat
         /\ Cardinality(CodeWords) + 1 <= MEMORY_SIZE \div 2
<1>1. CodeWords \in SUBSET Words
  BY DEF WorkInv, OnlyWords
<1>2. IsFiniteSet(Words) /\ Cardinality(Words) + 1 <= MEMORY_SIZE \div 2
  BY WordCount
<1>3. IsFiniteSet(CodeWords) /\ Cardinality(CodeWords) <= Cardinality(Words)
  BY <1>1, <1>2, FS_Subset
<1>4. Cardinality(CodeWords) \in Nat /\ Cardinality(Words) \in Nat /\ MEMORY_SIZE \div 2 \in Int
  BY <1>2, <1>3, FS_CardinalityType, Sizes
<1> QED
  BY <1>2, <1>3, <1>4

\* The places the descent holds, the one it walks on included.
Held == IF phase = "walk" THEN Len(todo) + 1 ELSE Len(todo)

DepthInv == Held <= Cardinality(CodeWords) + 1

LEMMA TodoLength == ASSUME TypeOK PROVE Len(todo) \in Nat /\ todo \in Seq(Places)
<1>1. todo \in Seq(Places)
  BY DEF TypeOK, Places
<1> QED
  BY <1>1

LEMMA NextDepth ==
  ASSUME TypeOK, WorkInv, DepthInv, [Next]_vars
  PROVE  DepthInv'
<1>1. Len(todo) \in Nat /\ todo \in Seq(Places) /\ Cardinality(CodeWords) \in Nat
  BY TodoLength, CodeCount
<1>2. CASE Walk
  <2>1. /\ Turn /\ Fresh /\ phase = "walk" /\ reach' = reach \cup {pc, pc + 1}
    BY <1>2, WalkIsTurn DEF Turn, Enter
  <2>2. pc % 2 = 0 /\ (pc + 1) % 2 = 1 /\ pc \notin reach
    <3>1. pc \in Int /\ pc % 2 = 0
      BY Sizes DEF TypeOK
    <3>2. (pc + 1) % 2 = 1
      BY <3>1
    <3> QED
      BY <2>1, <3>1, <3>2 DEF Fresh
  <2>3. CodeWords' = CodeWords \cup {pc} /\ pc \notin CodeWords
    BY <2>1, <2>2 DEF CodeWords
  <2>4. Cardinality(CodeWords') = Cardinality(CodeWords) + 1
    BY <2>3, CodeCount, FS_AddElement
  <2>5. Len(todo') \in Nat /\ Len(todo') <= Len(todo) + 1
    <3>1. \A a \in Places : Len(Append(todo, a)) = Len(todo) + 1
      BY <1>1, PushType
    <3> QED
      BY <1>1, <2>1, <3>1 DEF Turn
  <2>6. Len(todo) + 1 <= Cardinality(CodeWords) + 1
    BY <2>1 DEF DepthInv, Held
  <2>7. Len(todo') + 1 <= Cardinality(CodeWords') + 1
    BY <1>1, <2>4, <2>5, <2>6
  <2> QED
    BY <1>1, <2>4, <2>5, <2>7 DEF DepthInv, Held
<1>3. CASE Analyze
  <2>1. Len(todo') = 1 /\ phase' = "descend" /\ CodeWords' = CodeWords
    BY <1>3 DEF Analyze, CodeWords
  <2> QED
    BY <1>1, <2>1 DEF DepthInv, Held
<1>4. CASE Pop
  <2>1. /\ todo # << >> /\ phase = "descend" /\ phase' = "walk" /\ CodeWords' = CodeWords
        /\ todo' = SubSeq(todo, 1, Len(todo) - 1)
    BY <1>4 DEF Pop, CodeWords
  <2>2. Len(SubSeq(todo, 1, Len(todo) - 1)) = Len(todo) - 1
    BY <1>1, <2>1, PopType
  <2>3. Len(todo') = Len(todo) - 1
    BY <2>1, <2>2
  <2> QED
    BY <1>1, <2>1, <2>3 DEF DepthInv, Held
<1>5. CASE EndPath \/ Descended \/ GlueUnreachable \/ Classify
  <2>1. todo' = todo /\ phase' # "walk" /\ CodeWords' = CodeWords
    BY <1>5 DEF EndPath, Descended, GlueUnreachable, Classify, CodeWords
  <2> QED
    BY <1>1, <2>1 DEF DepthInv, Held
<1>6. CASE UNCHANGED vars
  BY <1>6 DEF vars, DepthInv, Held, CodeWords
<1> QED
  BY <1>2, <1>3, <1>4, <1>5, <1>6 DEF Next, Halted

LEMMA InitDepth == Init => DepthInv
<1> SUFFICES ASSUME Init PROVE DepthInv
  OBVIOUS
<1>1. CodeWords = {} /\ Len(todo) = 0 /\ phase # "walk"
  BY DEF Init, CodeWords
<1> QED
  BY <1>1, FS_EmptySet DEF DepthInv, Held

LEMMA DepthStack == TypeOK /\ WorkInv /\ DepthInv => StackBounded
<1> SUFFICES ASSUME TypeOK, WorkInv, DepthInv PROVE StackBounded
  OBVIOUS
<1>1. /\ Len(todo) \in Nat /\ Cardinality(CodeWords) \in Nat /\ MEMORY_SIZE \div 2 \in Int
      /\ Cardinality(CodeWords) + 1 <= MEMORY_SIZE \div 2
  BY TodoLength, CodeCount, Sizes
<1>2. Len(todo) <= Cardinality(CodeWords) + 1
  BY <1>1 DEF DepthInv, Held
<1> QED
  BY <1>1, <1>2 DEF StackBounded

\* disas.c:153, unsigned stack[MEMORY_SIZE / 2]: the unchecked push never leaves
\* the array, whatever the ROM.
THEOREM WorkListBounded == Spec => []StackBounded
<1>1. Init => TypeOK /\ WorkInv /\ DepthInv
  BY InitType, InitWork, InitDepth
<1>2. TypeOK /\ WorkInv /\ DepthInv /\ [Next]_vars => (TypeOK /\ WorkInv /\ DepthInv)'
  BY NextType, NextWork, NextDepth
<1>3. TypeOK /\ WorkInv /\ DepthInv => StackBounded
  BY DepthStack
<1> QED
  BY <1>1, <1>2, <1>3, PTL DEF Spec

----------------------------------------------------------------------------
\* What an instruction makes of the program counter and of the stack.

Whole(m) == {"pc", "stack", "memory"} \subseteq DOMAIN m

\* n is m but for registers, memory, display and timers.
SameFlow(m, n) == Whole(n) /\ n.pc = m.pc /\ n.stack = m.stack

LEMMA Edits ==
  ASSUME NEW m, Whole(m), NEW v
  PROVE  /\ SameFlow(m, [m EXCEPT !.regs = v]) /\ SameFlow(m, [m EXCEPT !.memory = v])
         /\ SameFlow(m, [m EXCEPT !.display = v]) /\ SameFlow(m, [m EXCEPT !.addr = v])
         /\ SameFlow(m, [m EXCEPT !.delay = v]) /\ SameFlow(m, [m EXCEPT !.sound = v])
  BY DEF Whole, SameFlow

LEMMA RegisterEdits ==
  ASSUME NEW m, Whole(m), NEW x, NEW byte, NEW flag
  PROVE  SameFlow(m, Engine!SetReg(m, x, byte)) /\ SameFlow(m, Engine!SetRegFlag(m, x, byte, flag))
  BY DEF Whole, SameFlow, Engine!SetReg, Engine!SetRegFlag

LEMMA ArithmeticFlow ==
  ASSUME NEW m, Whole(m), NEW op, Engine!Kind(op) \in Engine!ArithmeticKinds
  PROVE  SameFlow(m, Engine!Arithmetic(op, m))
<1> DEFINE x  == Engine!X(op)
           vx == m.regs[Engine!X(op)]
           vy == m.regs[Engine!Y(op)]
           Good(n) == SameFlow(m, n)
<1>1. /\ \A byte : Good(Engine!SetReg(m, x, byte))
      /\ \A byte, flag : Good(Engine!SetRegFlag(m, x, byte, flag))
  BY RegisterEdits
<1>2. /\ Good(Engine!SetReg(m, x, vy))
      /\ Good(Engine!SetReg(m, x, Engine!BitOr(vx, vy)))
      /\ Good(Engine!SetReg(m, x, Engine!BitAnd(vx, vy)))
      /\ Good(Engine!SetReg(m, x, Engine!BitXor(vx, vy)))
      /\ Good(Engine!SetRegFlag(m, x, (vx + vy) % 256, Engine!Flag(vx + vy > 255)))
      /\ Good(Engine!SetRegFlag(m, x, (vx - vy) % 256, Engine!Flag(vx >= vy)))
      /\ Good(Engine!SetRegFlag(m, x, (vy - vx) % 256, Engine!Flag(vy >= vx)))
      /\ Good(Engine!SetRegFlag(m, x, vx \div 2, vx % 2))
      /\ Good(Engine!SetRegFlag(m, x, (2 * vx) % 256, vx \div 128))
  <2> HIDE DEF Good, x, vx, vy
  <2> QED
    BY <1>1
<1> HIDE DEF Good
<1>3. Good(Engine!Arithmetic(op, m))
  BY <1>2 DEF Engine!Arithmetic, Engine!ArithmeticKinds
<1> QED
  BY <1>3 DEF Good

LEMMA DrawFlow ==
  ASSUME NEW m, Whole(m), NEW op
  PROVE  SameFlow(m, Engine!Draw(op, m))
  BY DEF Whole, SameFlow, Engine!Draw

LEMMA StoreFlow ==
  ASSUME NEW m, Whole(m), NEW op
  PROVE  /\ SameFlow(m, Engine!StoreBcd(op, m)) /\ SameFlow(m, Engine!SaveRegisters(op, m))
         /\ SameFlow(m, Engine!RestoreRegisters(op, m))
  BY Edits DEF Engine!StoreBcd, Engine!SaveRegisters, Engine!RestoreRegisters

PlainKinds ==
  {"clearscreen", "load_immediate", "add_immediate", "load_addr_immediate", "random_byte",
   "draw", "get_delay_timer", "set_delay_timer", "set_sound_timer", "add_addr",
   "load_sprite_addr", "store_bcd", "save_registers", "restore_registers"}
    \cup Engine!ArithmeticKinds

LEMMA ExecuteArithmetic ==
  ASSUME NEW m, NEW op, NEW random, Engine!Kind(op) \in Engine!ArithmeticKinds
  PROVE  Engine!Execute(op, m, random) = Engine!STEP(Engine!Arithmetic(op, m))
<1>1. CASE Engine!Kind(op) = "move"
  BY <1>1 DEF Engine!Execute, Engine!ArithmeticKinds, Engine!SkipKinds
<1>2. CASE Engine!Kind(op) = "or"
  BY <1>2 DEF Engine!Execute, Engine!ArithmeticKinds, Engine!SkipKinds
<1>3. CASE Engine!Kind(op) = "and"
  BY <1>3 DEF Engine!Execute, Engine!ArithmeticKinds, Engine!SkipKinds
<1>4. CASE Engine!Kind(op) = "xor"
  BY <1>4 DEF Engine!Execute, Engine!ArithmeticKinds, Engine!SkipKinds
<1>5. CASE Engine!Kind(op) = "add_register"
  BY <1>5 DEF Engine!Execute, Engine!ArithmeticKinds, Engine!SkipKinds
<1>6. CASE Engine!Kind(op) = "sub_register"
  BY <1>6 DEF Engine!Execute, Engine!ArithmeticKinds, Engine!SkipKinds
<1>7. CASE Engine!Kind(op) = "shift_right"
  BY <1>7 DEF Engine!Execute, Engine!ArithmeticKinds, Engine!SkipKinds
<1>8. CASE Engine!Kind(op) = "subn_register"
  BY <1>8 DEF Engine!Execute, Engine!ArithmeticKinds, Engine!SkipKinds
<1>9. CASE Engine!Kind(op) = "shift_left"
  BY <1>9 DEF Engine!Execute, Engine!ArithmeticKinds, Engine!SkipKinds
<1> QED
  BY <1>1, <1>2, <1>3, <1>4, <1>5, <1>6, <1>7, <1>8, <1>9 DEF Engine!ArithmeticKinds

LEMMA PlainFlow ==
  ASSUME NEW m, Whole(m), NEW op, NEW random, Engine!Kind(op) \in PlainKinds
  PROVE  \E n : SameFlow(m, n) /\ Engine!Execute(op, m, random) = Engine!STEP(n)
<1> DEFINE kind == Engine!Kind(op)
           x == Engine!X(op)
           Result == \E n : SameFlow(m, n) /\ Engine!Execute(op, m, random) = Engine!STEP(n)
<1> USE DEF Engine!ArithmeticKinds, Engine!SkipKinds
<1>1. \A byte : SameFlow(m, Engine!SetReg(m, x, byte))
  BY RegisterEdits
<1>2. CASE kind = "clearscreen"
  <2>1. Engine!Execute(op, m, random) = Engine!STEP([m EXCEPT !.display = {}])
    BY <1>2 DEF Engine!Execute
  <2> QED
    BY <2>1, Edits
<1>3. CASE kind = "load_immediate"
  <2>1. Engine!Execute(op, m, random) = Engine!STEP(Engine!SetReg(m, x, Engine!IMMEDIATE8(op)))
    BY <1>3 DEF Engine!Execute
  <2> QED
    BY <1>1, <2>1
<1>4. CASE kind = "add_immediate"
  <2>1. Engine!Execute(op, m, random) = Engine!STEP(Engine!SetReg(m, x, (m.regs[x] + Engine!IMMEDIATE8(op)) % 256))
    BY <1>4 DEF Engine!Execute
  <2> QED
    BY <1>1, <2>1
<1>5. CASE kind = "load_addr_immediate"
  <2>1. Engine!Execute(op, m, random) = Engine!STEP([m EXCEPT !.addr = Engine!IMMEDIATE12(op)])
    BY <1>5 DEF Engine!Execute
  <2> QED
    BY Edits, <2>1
<1>6. CASE kind = "random_byte"
  <2>1. Engine!Execute(op, m, random) = Engine!STEP(Engine!SetReg(m, x, Engine!BitAnd(random, Engine!IMMEDIATE8(op))))
    BY <1>6 DEF Engine!Execute
  <2> QED
    BY <1>1, <2>1
<1>7. CASE kind = "draw"
  <2>1. Engine!Execute(op, m, random) = Engine!STEP(Engine!Draw(op, m))
    BY <1>7 DEF Engine!Execute
  <2> QED
    BY DrawFlow, <2>1
<1>8. CASE kind = "get_delay_timer"
  <2>1. Engine!Execute(op, m, random) = Engine!STEP(Engine!SetReg(m, x, m.delay))
    BY <1>8 DEF Engine!Execute
  <2> QED
    BY <1>1, <2>1
<1>9. CASE kind = "set_delay_timer"
  <2>1. Engine!Execute(op, m, random) = Engine!STEP([m EXCEPT !.delay = m.regs[x]])
    BY <1>9 DEF Engine!Execute
  <2> QED
    BY Edits, <2>1
<1>10. CASE kind = "set_sound_timer"
  <2>1. Engine!Execute(op, m, random) = Engine!STEP([m EXCEPT !.sound = m.regs[x]])
    BY <1>10 DEF Engine!Execute
  <2> QED
    BY Edits, <2>1
<1>11. CASE kind = "add_addr"
  <2>1. Engine!Execute(op, m, random) = Engine!STEP([m EXCEPT !.addr = (m.addr + m.regs[x]) % 65536])
    BY <1>11 DEF Engine!Execute
  <2> DEFINE v == (m.addr + m.regs[x]) % 65536
  <2>2. SameFlow(m, [m EXCEPT !.addr = v])
    <3> HIDE DEF v
    <3> QED
      BY Edits
  <2> QED
    BY <2>1, <2>2
<1>12. CASE kind = "load_sprite_addr"
  <2>1. Engine!Execute(op, m, random) = Engine!STEP([m EXCEPT !.addr = 5 * (m.regs[x] % 16)])
    BY <1>12 DEF Engine!Execute
  <2> QED
    BY Edits, <2>1
<1>13. CASE kind = "store_bcd"
  <2>1. Engine!Execute(op, m, random) = Engine!STEP(Engine!StoreBcd(op, m))
    BY <1>13 DEF Engine!Execute
  <2> QED
    BY StoreFlow, <2>1
<1>14. CASE kind = "save_registers"
  <2>1. Engine!Execute(op, m, random) = Engine!STEP(Engine!SaveRegisters(op, m))
    BY <1>14 DEF Engine!Execute
  <2> QED
    BY StoreFlow, <2>1
<1>15. CASE kind = "restore_registers"
  <2>1. Engine!Execute(op, m, random) = Engine!STEP(Engine!RestoreRegisters(op, m))
    BY <1>15 DEF Engine!Execute
  <2> QED
    BY StoreFlow, <2>1
<1>16. CASE kind \in Engine!ArithmeticKinds
  <2>1. Engine!Execute(op, m, random) = Engine!STEP(Engine!Arithmetic(op, m))
    BY <1>16, ExecuteArithmetic
  <2> QED
    BY <1>16, <2>1, ArithmeticFlow
<1> QED
  BY <1>2, <1>3, <1>4, <1>5, <1>6, <1>7, <1>8, <1>9, <1>10, <1>11, <1>12, <1>13, <1>14, <1>15, <1>16 DEF PlainKinds

----------------------------------------------------------------------------
\* Instructions as the disassembler and as the engine read them.

LEMMA InsideWord ==
  ASSUME NEW n \in Nat, n <= MEMORY_SIZE + 4
  PROVE  n % 65536 = n
<1>1. MEMORY_SIZE <= 4096 /\ MEMORY_SIZE \in Nat
  BY MemoryAssumption
<1> QED
  BY <1>1

LEMMA InsideMemory ==
  ASSUME NEW n \in 0 .. MEMORY_SIZE - 1
  PROVE  Engine!Wrap(n) = n
<1>1. MEMORY_SIZE \in Nat \ {0} /\ n \in Nat /\ n < MEMORY_SIZE
  BY Sizes
<1>2. n % MEMORY_SIZE = n
  BY <1>1, MemoryAssumption
<1> QED
  BY <1>2 DEF Engine!Wrap

LEMMA KindOf ==
  ASSUME NEW op \in Nat, ValidOpcode(op)
  PROVE  /\ op = 238 => Engine!Kind(op) = "retern"
         /\ Nibble(op) = 1 => Engine!Kind(op) = "jump"
         /\ Nibble(op) = 2 => Engine!Kind(op) = "call"
         /\ Nibble(op) \in {3, 4, 5, 9} => Engine!Kind(op) \in Engine!SkipKinds
         /\ Nibble(op) = 14 => Engine!Kind(op) \in {"skip_key_down", "skip_key_up"}
         /\ Nibble(op) = 11 => Engine!Kind(op) = "branch"
<1>1. Nibble(238) = 0 /\ Nibble(224) = 0
  BY DEF Nibble
<1>2. op = 238 => Engine!Kind(op) = "retern"
  BY DEF Engine!Kind
<1>3. Nibble(op) = op \div 4096
  BY DEF Nibble
<1>4. Nibble(op) = 1 => Engine!Kind(op) = "jump"
  BY <1>1, <1>3 DEF Engine!Kind
<1>5. Nibble(op) = 2 => Engine!Kind(op) = "call"
  BY <1>1, <1>3 DEF Engine!Kind
<1>6. Nibble(op) \in {3, 4, 5, 9} => Engine!Kind(op) \in Engine!SkipKinds
  BY <1>1, <1>3 DEF Engine!Kind, Engine!SkipKinds
<1>7. Nibble(op) = 14 => Engine!Kind(op) \in {"skip_key_down", "skip_key_up"}
  BY <1>1, <1>3 DEF Engine!Kind, ValidOpcode, KK
<1>8. Nibble(op) = 11 => Engine!Kind(op) = "branch"
  BY <1>1, <1>3 DEF Engine!Kind
<1> QED
  BY <1>2, <1>4, <1>5, <1>6, <1>7, <1>8

LEMMA PlainKindOf ==
  ASSUME NEW op \in Nat, ValidOpcode(op), op = 224 \/ Nibble(op) \in {6, 7, 8, 10, 12, 13, 15}
  PROVE  Engine!Kind(op) \in PlainKinds \cup {"load_on_key"}
<1>1. Nibble(238) = 0 /\ Nibble(224) = 0 /\ Nibble(op) = op \div 4096
  BY DEF Nibble
<1>2. CASE op = 224
  BY <1>2 DEF Engine!Kind, PlainKinds
<1>3. CASE Nibble(op) \in {6, 7, 10, 12, 13}
  BY <1>1, <1>3 DEF Engine!Kind, PlainKinds
<1>4. CASE Nibble(op) = 8
  <2>1. op % 16 \in 0 .. 7 \cup {14}
    BY <1>1, <1>4 DEF ValidOpcode, N
  <2>2. Engine!Kind(op) = Engine!ArithmeticKind(op % 16)
    BY <1>1, <1>4 DEF Engine!Kind
  <2>3. \A n \in 0 .. 7 \cup {14} : Engine!ArithmeticKind(n) \in Engine!ArithmeticKinds
    BY DEF Engine!ArithmeticKind, Engine!ArithmeticKinds
  <2> QED
    BY <2>1, <2>2, <2>3 DEF PlainKinds
<1>5. CASE Nibble(op) = 15
  <2>1. op % 256 \in MiscOpcodes
    BY <1>1, <1>5 DEF ValidOpcode, KK
  <2>2. Engine!Kind(op) = Engine!MiscKind(op % 256)
    BY <1>1, <1>5 DEF Engine!Kind
  <2>3. \A kk \in MiscOpcodes : Engine!MiscKind(kk) \in PlainKinds \cup {"load_on_key"}
    BY DEF MiscOpcodes, Engine!MiscKind, PlainKinds
  <2> QED
    BY <2>1, <2>2, <2>3
<1> QED
  BY <1>2, <1>3, <1>4, <1>5

----------------------------------------------------------------------------
\* An instruction of the map leads to where the map says, or returns.

Returns == 0 .. MEMORY_SIZE

\* n is where the machine m may be after the word at a.
Ahead(m, a, n) ==
  /\ Whole(n) /\ n.stack \in Seq(Returns)
  /\ n.pc \in Follows(a) \cup Elements(m.stack)
  /\ Elements(n.stack) \subseteq Follows(a) \cup Elements(m.stack)

LEMMA AtPlace ==
  ASSUME NEW m, Whole(m), NEW a \in Nat, a <= MEMORY_SIZE + 4
  PROVE  Whole(Engine!At(m, a)) /\ Engine!At(m, a).pc = a /\ Engine!At(m, a).stack = m.stack
<1>1. Engine!At(m, a) = [m EXCEPT !.pc = a]
  BY InsideWord DEF Engine!At
<1> QED
  BY <1>1 DEF Whole

LEMMA StepOn ==
  ASSUME NEW m, Whole(m), NEW n, SameFlow(m, n), m.pc \in Nat, m.pc <= MEMORY_SIZE
  PROVE  /\ Whole(Engine!STEP(n)) /\ Engine!STEP(n).pc = m.pc + 2
         /\ Engine!STEP(n).stack = m.stack
<1>1. n.pc + 2 \in Nat /\ n.pc + 2 <= MEMORY_SIZE + 4 /\ n.pc = m.pc /\ Whole(n) /\ n.stack = m.stack
  BY Sizes DEF SameFlow
<1> QED
  BY <1>1, AtPlace DEF Engine!STEP

LEMMA SkipOn ==
  ASSUME NEW m, Whole(m), NEW condition, m.pc \in Nat, m.pc <= MEMORY_SIZE
  PROVE  /\ Whole(Engine!SkipIf(m, condition))
         /\ Engine!SkipIf(m, condition).pc \in {m.pc + 2, m.pc + 4}
         /\ Engine!SkipIf(m, condition).stack = m.stack
<1>1. /\ Whole(Engine!STEP(m)) /\ Engine!STEP(m).pc = m.pc + 2 /\ Engine!STEP(m).stack = m.stack
  <2>1. SameFlow(m, m)
    BY DEF SameFlow
  <2> QED
    BY <2>1, StepOn
<1>2. m.pc + 4 \in Nat /\ m.pc + 4 <= MEMORY_SIZE + 4
  BY Sizes
<1>3. /\ Whole(Engine!At(m, m.pc + 4)) /\ Engine!At(m, m.pc + 4).pc = m.pc + 4
      /\ Engine!At(m, m.pc + 4).stack = m.stack
  BY <1>2, AtPlace
<1> QED
  BY <1>1, <1>3 DEF Engine!SkipIf

\* The top of a stack of return addresses.
LEMMA TopOf ==
  ASSUME NEW s \in Seq(Returns), s # << >>
  PROVE  /\ s[Len(s)] \in Returns /\ s[Len(s)] \in Elements(s)
         /\ SubSeq(s, 1, Len(s) - 1) \in Seq(Returns)
         /\ Elements(SubSeq(s, 1, Len(s) - 1)) \subseteq Elements(s)
<1> DEFINE t == SubSeq(s, 1, Len(s) - 1)
<1>1. Len(s) \in Nat \ {0}
  OBVIOUS
<1>2. t \in Seq(Returns) /\ Len(t) = Len(s) - 1 /\ \A i \in 1 .. Len(s) - 1 : t[i] = s[i]
  <2>1. \A i \in 1 .. Len(s) - 1 : s[i] \in Returns
    BY <1>1
  <2>2. /\ t \in Seq(Returns)
        /\ Len(t) = IF 1 <= Len(s) - 1 THEN Len(s) - 1 - 1 + 1 ELSE 0
        /\ \A i \in 1 .. Len(s) - 1 - 1 + 1 : t[i] = s[1 + i - 1]
    BY <1>1, <2>1, SubSeqProperties
  <2>3. PICK n \in Nat : n = Len(s) - 1
    BY <1>1
  <2>4. n - 1 + 1 = n /\ \A i \in 1 .. n : 1 + i - 1 = i
    BY <2>3
  <2>5. Len(t) = n
    BY <2>2, <2>3, <2>4
  <2> QED
    BY <2>2, <2>3, <2>4, <2>5
<1>3. DOMAIN t = 1 .. Len(s) - 1 /\ DOMAIN s = 1 .. Len(s) /\ s[Len(s)] \in Returns
  BY <1>1, <1>2
<1>4. s[Len(s)] \in Elements(s)
  BY <1>1, <1>3 DEF Elements
<1> HIDE DEF t
<1>5. Elements(t) \subseteq Elements(s)
  BY <1>1, <1>2, <1>3 DEF Elements
<1> QED
  BY <1>2, <1>3, <1>4, <1>5 DEF t

LEMMA PushedOn ==
  ASSUME NEW s \in Seq(Returns), NEW a \in Returns
  PROVE  Append(s, a) \in Seq(Returns) /\ Elements(Append(s, a)) \subseteq Elements(s) \cup {a}
<1> DEFINE t == Append(s, a)
<1>1. /\ t \in Seq(Returns) /\ Len(t) = Len(s) + 1 /\ Len(s) \in Nat
      /\ \A i \in 1 .. Len(s) : t[i] = s[i]
      /\ t[Len(s) + 1] = a
  OBVIOUS
<1>2. DOMAIN t = 1 .. Len(s) + 1 /\ DOMAIN s = 1 .. Len(s)
  BY <1>1
<1> HIDE DEF t
<1>3. \A e \in Elements(t) : e \in Elements(s) \/ e = a
  BY <1>1, <1>2 DEF Elements
<1> QED
  BY <1>1, <1>3 DEF t

\* What is known of the machine that is about to execute the word at a.
About(m, a) ==
  /\ Whole(m) /\ m.pc = a /\ m.stack \in Seq(Returns)
  /\ a \in Nat /\ a + 2 <= MEMORY_SIZE
  /\ WordAt(a) \in Nat /\ ValidOpcode(WordAt(a)) /\ Engine!Kind(WordAt(a)) # "branch"

LEMMA ExecuteControl ==
  ASSUME NEW m, NEW op, NEW random
  PROVE  /\ Engine!Kind(op) = "jump" =>
              Engine!Execute(op, m, random) = Engine!At(m, Engine!IMMEDIATE12(op))
         /\ Engine!Kind(op) = "retern" =>
              Engine!Execute(op, m, random) =
                [Engine!At(m, m.stack[Len(m.stack)]) EXCEPT !.stack = SubSeq(@, 1, Len(@) - 1)]
         /\ Engine!Kind(op) = "call" =>
              Engine!Execute(op, m, random) =
                [Engine!At(m, Engine!IMMEDIATE12(op)) EXCEPT !.stack = Append(@, (m.pc + 2) % 65536)]
<1>1. ASSUME Engine!Kind(op) = "jump"
      PROVE  Engine!Execute(op, m, random) = Engine!At(m, Engine!IMMEDIATE12(op))
  BY <1>1 DEF Engine!Execute, Engine!ArithmeticKinds, Engine!SkipKinds
<1>2. ASSUME Engine!Kind(op) = "retern"
      PROVE  Engine!Execute(op, m, random) =
               [Engine!At(m, m.stack[Len(m.stack)]) EXCEPT !.stack = SubSeq(@, 1, Len(@) - 1)]
  BY <1>2 DEF Engine!Execute, Engine!ArithmeticKinds, Engine!SkipKinds
<1>3. ASSUME Engine!Kind(op) = "call"
      PROVE  Engine!Execute(op, m, random) =
               [Engine!At(m, Engine!IMMEDIATE12(op)) EXCEPT !.stack = Append(@, (m.pc + 2) % 65536)]
  BY <1>3 DEF Engine!Execute, Engine!ArithmeticKinds, Engine!SkipKinds
<1> QED
  BY <1>1, <1>2, <1>3

LEMMA ExecuteSkips ==
  ASSUME NEW m, NEW op, NEW random, Engine!Kind(op) \in Engine!SkipKinds
  PROVE  Engine!Execute(op, m, random) = Engine!SkipIf(m, Engine!SkipTaken(op, m))
<1> USE DEF Engine!ArithmeticKinds, Engine!SkipKinds
<1>1. CASE Engine!Kind(op) = "skip_eq_immediate"
  BY <1>1 DEF Engine!Execute
<1>2. CASE Engine!Kind(op) = "skip_neq_immediate"
  BY <1>2 DEF Engine!Execute
<1>3. CASE Engine!Kind(op) = "skip_eq_register"
  BY <1>3 DEF Engine!Execute
<1>4. CASE Engine!Kind(op) = "skip_neq_register"
  BY <1>4 DEF Engine!Execute
<1> QED
  BY <1>1, <1>2, <1>3, <1>4

LEMMA ExecuteAhead ==
  ASSUME NEW m, NEW a, About(m, a), NEW random,
         ~Engine!Faults(WordAt(a), m), Engine!Kind(WordAt(a)) \notin Engine!KeyKinds
  PROVE  Ahead(m, a, Engine!Execute(WordAt(a), m, random))
<1> DEFINE op == WordAt(a)
           n == Engine!Execute(op, m, random)
<1>0. /\ Whole(m) /\ m.pc = a /\ m.stack \in Seq(Returns) /\ a \in Nat /\ a + 2 <= MEMORY_SIZE
      /\ op \in Nat /\ ValidOpcode(op) /\ a <= MEMORY_SIZE
  BY Sizes DEF About
<1>1. /\ NNN(op) \in Nat /\ NNN(op) <= MEMORY_SIZE + 4 /\ Engine!IMMEDIATE12(op) = NNN(op)
  <2>1. NNN(op) \in 0 .. MEMORY_SIZE - 1
    BY <1>0, TargetRange
  <2> QED
    BY <2>1, Sizes DEF NNN, Engine!IMMEDIATE12
<1> HIDE DEF n
<1>2. CASE op = 238
  <2>1. Engine!Kind(op) = "retern"
    BY <1>0, <1>2, KindOf
  <2>2. m.stack # << >>
    BY <2>1 DEF Engine!Faults
  <2>3. n = [Engine!At(m, m.stack[Len(m.stack)]) EXCEPT !.stack = SubSeq(@, 1, Len(@) - 1)]
    BY <2>1, ExecuteControl DEF n
  <2>4. PICK top \in Returns : top = m.stack[Len(m.stack)] /\ top \in Elements(m.stack)
    BY <1>0, <2>2, TopOf
  <2>5. PICK q : q = Engine!At(m, top)
    OBVIOUS
  <2>6. Whole(q) /\ q.pc = top /\ q.stack = m.stack
    <3>1. top \in Nat /\ top <= MEMORY_SIZE + 4
      BY <2>4, Sizes DEF Returns
    <3> QED
      BY <1>0, <2>5, <3>1, AtPlace
  <2>7. n = [q EXCEPT !.stack = SubSeq(q.stack, 1, Len(q.stack) - 1)]
    BY <2>3, <2>4, <2>5
  <2>8. Whole(n) /\ n.pc = top /\ n.stack = SubSeq(m.stack, 1, Len(m.stack) - 1)
    BY <2>6, <2>7 DEF Whole
  <2> QED
    BY <1>0, <2>2, <2>4, <2>8, TopOf DEF Ahead, n
<1>3. CASE Nibble(op) = 1
  <2>1. n = Engine!At(m, NNN(op))
    BY <1>0, <1>1, <1>3, KindOf, ExecuteControl DEF n
  <2>2. Whole(n) /\ n.pc = NNN(op) /\ n.stack = m.stack
    BY <1>0, <1>1, <2>1, AtPlace
  <2>3. Follows(a) = {NNN(op)}
    BY <1>3, FollowsCases
  <2> QED
    BY <1>0, <2>2, <2>3 DEF Ahead, n
<1>4. CASE Nibble(op) = 2
  <2> DEFINE back == (m.pc + 2) % 65536
  <2>1. n = [Engine!At(m, NNN(op)) EXCEPT !.stack = Append(@, back)]
    BY <1>0, <1>1, <1>4, KindOf, ExecuteControl DEF n
  <2>2. PICK q : q = Engine!At(m, NNN(op))
    OBVIOUS
  <2>3. Whole(q) /\ q.pc = NNN(op) /\ q.stack = m.stack
    BY <1>0, <1>1, <2>2, AtPlace
  <2>4. PICK r \in Returns : r = a + 2
    BY <1>0 DEF Returns
  <2>5. back = r
    <3>1. r \in Nat /\ r <= MEMORY_SIZE + 4
      BY <2>4, Sizes DEF Returns
    <3>2. r % 65536 = r
      BY <3>1, InsideWord
    <3>3. m.pc + 2 = r
      BY <1>0, <2>4
    <3> QED
      BY <3>2, <3>3
  <2> HIDE DEF back
  <2>6. n = [q EXCEPT !.stack = Append(q.stack, r)]
    BY <2>1, <2>2, <2>5
  <2>7. Whole(n) /\ n.pc = NNN(op) /\ n.stack = Append(m.stack, r)
    BY <2>3, <2>6 DEF Whole
  <2>8. Follows(a) = {NNN(op), r}
    BY <1>4, <2>4, FollowsCases
  <2> QED
    BY <1>0, <2>7, <2>8, PushedOn DEF Ahead, n
<1>5. CASE Nibble(op) \in {3, 4, 5, 9}
  <2>1. n = Engine!SkipIf(m, Engine!SkipTaken(op, m))
    BY <1>0, <1>5, KindOf, ExecuteSkips DEF n
  <2>2. Whole(n) /\ n.pc \in {a + 2, a + 4} /\ n.stack = m.stack
    BY <1>0, <2>1, SkipOn
  <2>3. Follows(a) = {a + 2, a + 4}
    BY <1>5, FollowsCases
  <2> QED
    BY <1>0, <2>2, <2>3 DEF Ahead, n
<1>6. CASE op = 224 \/ Nibble(op) \in {6, 7, 8, 10, 12, 13, 15}
  <2>1. Engine!Kind(op) \in PlainKinds
    BY <1>0, <1>6, PlainKindOf DEF Engine!KeyKinds
  <2>2. PICK q : SameFlow(m, q) /\ n = Engine!STEP(q)
    <3>1. \E q : SameFlow(m, q) /\ Engine!Execute(op, m, random) = Engine!STEP(q)
      <4> HIDE DEF op
      <4> QED
        BY <1>0, <2>1, PlainFlow
    <3> QED
      BY <3>1 DEF n
  <2>3. Whole(n) /\ n.pc = a + 2 /\ n.stack = m.stack
    BY <1>0, <2>2, StepOn
  <2>4. Follows(a) = {a + 2}
    BY <1>6, FollowsCases
  <2> QED
    BY <1>0, <2>3, <2>4 DEF Ahead, n
<1>7. Nibble(op) # 14 /\ Nibble(op) # 11
  BY <1>0, KindOf DEF About, Engine!KeyKinds
<1> QED
  BY <1>0, <1>2, <1>3, <1>4, <1>5, <1>6, <1>7 DEF ValidOpcode

\* Fx0A is the only valid instruction that waits for a key.
LEMMA LoadOnKeyNibble ==
  ASSUME NEW op \in Nat, ValidOpcode(op), Engine!Kind(op) = "load_on_key"
  PROVE  Nibble(op) = 15
<1>1. Nibble(op) = op \div 4096
  BY DEF Nibble
<1>2. Nibble(op) \notin {1, 2, 3, 4, 5, 9, 11, 14}
  BY KindOf DEF Engine!SkipKinds
<1>3. op # 224 /\ op # 238
  BY DEF Engine!Kind
<1>4. Nibble(op) \notin {6, 7, 10, 12, 13}
  BY <1>1, <1>3 DEF Engine!Kind
<1>5. Nibble(op) # 8
  BY <1>1, <1>3 DEF Engine!Kind, Engine!ArithmeticKind
<1> QED
  BY <1>2, <1>3, <1>4, <1>5 DEF ValidOpcode

\* The skips that ask for a key, and the wait for one.
LEMMA KeySkipAhead ==
  ASSUME NEW m, NEW a, About(m, a), NEW hit,
         Engine!Kind(WordAt(a)) \in {"skip_key_down", "skip_key_up"}
  PROVE  Ahead(m, a, Engine!SkipIf(m, hit))
<1>0. /\ Whole(m) /\ m.pc = a /\ m.stack \in Seq(Returns) /\ a \in Nat /\ a <= MEMORY_SIZE
      /\ WordAt(a) \in Nat /\ ValidOpcode(WordAt(a))
  BY Sizes DEF About
<1>1. PICK n : n = Engine!SkipIf(m, hit)
  OBVIOUS
<1>2. Whole(n) /\ n.pc \in {a + 2, a + 4} /\ n.stack = m.stack
  BY <1>0, <1>1, SkipOn
<1>3. Nibble(WordAt(a)) = 14
  <2>1. WordAt(a) # 224 /\ WordAt(a) # 238
    BY DEF Engine!Kind
  <2>2. Nibble(WordAt(a)) \notin {1, 2, 3, 4, 5, 9, 11}
    BY <1>0, KindOf DEF Engine!SkipKinds
  <2>3. Nibble(WordAt(a)) \notin {6, 7, 8, 10, 12, 13, 15}
    BY <1>0, PlainKindOf DEF PlainKinds, Engine!ArithmeticKinds
  <2> QED
    BY <1>0, <2>1, <2>2, <2>3 DEF ValidOpcode
<1>4. Follows(a) = {a + 2, a + 4}
  BY <1>3, FollowsCases
<1>5. Ahead(m, a, n)
  BY <1>0, <1>2, <1>4 DEF Ahead
<1> QED
  BY <1>1, <1>5

LEMMA KeyWaitAhead ==
  ASSUME NEW m, NEW a, About(m, a), NEW x, NEW key, Engine!Kind(WordAt(a)) = "load_on_key"
  PROVE  Ahead(m, a, Engine!STEP(Engine!SetReg(m, x, key)))
<1>0. /\ Whole(m) /\ m.pc = a /\ m.stack \in Seq(Returns) /\ a \in Nat /\ a <= MEMORY_SIZE
      /\ WordAt(a) \in Nat /\ ValidOpcode(WordAt(a))
  BY Sizes DEF About
<1>1. PICK q : q = Engine!SetReg(m, x, key)
  OBVIOUS
<1>2. SameFlow(m, q)
  BY <1>0, <1>1, RegisterEdits
<1>3. PICK n : n = Engine!STEP(q)
  OBVIOUS
<1>4. Whole(n) /\ n.pc = a + 2 /\ n.stack = m.stack
  BY <1>0, <1>2, <1>3, StepOn
<1>5. Nibble(WordAt(a)) = 15
  BY <1>0, LoadOnKeyNibble
<1>6. Follows(a) = {a + 2}
  BY <1>5, FollowsCases
<1>7. Ahead(m, a, n)
  BY <1>0, <1>4, <1>6 DEF Ahead
<1> QED
  BY <1>1, <1>3, <1>7

----------------------------------------------------------------------------
\* The map beside the execution.

\* Before the disassembler has ended, the machine is the one that was loaded.
Loaded ==
  ~Stopped => /\ Whole(vm) /\ vm.pc = ENTRYPOINT /\ vm.stack = << >>
              /\ \A a \in ENTRYPOINT .. End - 1 : vm.memory[a] = ByteAt(a)

OnCourse ==
  Stopped /\ trusted => /\ Whole(vm) /\ vm.stack \in Seq(Returns)
                        /\ \A a \in reach : vm.memory[a] = ByteAt(a)
                        /\ \A a \in Continuations : Decodable(a) => a \in CodeWords

CourseInv == TypeOK /\ WorkInv /\ Loaded /\ OnCourse

LEMMA WorkReachNext == WorkInv' => ReachExact'
  BY WorkReach, PTL

LEMMA CourseDescent ==
  ASSUME CourseInv, Disassemble
  PROVE  CourseInv'
<1>1. Next /\ UNCHANGED <<vm, trusted>> /\ ~Stopped
  BY DEF Disassemble, engine
<1>2. TypeOK' /\ WorkInv'
  BY <1>1, NextType, NextWork DEF CourseInv
<1>3. /\ Whole(vm) /\ vm.pc = ENTRYPOINT /\ vm.stack = << >>
      /\ \A a \in ENTRYPOINT .. End - 1 : vm.memory[a] = ByteAt(a)
  BY <1>1 DEF CourseInv, Loaded
<1>4. rom' = rom
  BY <1>1 DEF Next, Analyze, Pop, EndPath, Descended, GlueUnreachable, Classify, Settings, Walk,
              WalkReturn, WalkJump, WalkCall, WalkSkip, WalkLoadAddr, WalkBranch, WalkDraw,
              WalkStore, WalkLoad, WalkPlain, Enter, Halted, vars
<1>5. End' = End /\ \A a : ByteAt(a)' = ByteAt(a)
  BY <1>4 DEF End, ByteAt
<1>6. Loaded'
  BY <1>1, <1>3, <1>5 DEF Loaded
<1>7. ASSUME Stopped' PROVE OnCourse'
  <2>1. ReachExact' /\ Analyzed'
    BY <1>2, <1>7, WorkReachNext DEF Analyzed, Stopped
  <2>2. HoldsEntry(CodeWords)'
    BY <2>1 DEF ReachExact
  <2>3. Continuations' = {ENTRYPOINT}
    BY <1>1, <1>3 DEF Continuations
  <2>4. \A a \in Continuations' : Decodable(a)' => a \in CodeWords'
    <3>1. \A a : Decodable(a)' = Decodable(a)
      BY <1>4, SameImage
    <3>2. Decodable(ENTRYPOINT)' => ENTRYPOINT \in CodeWords'
      BY <2>2 DEF HoldsEntry
    <3> QED
      BY <2>3, <3>1, <3>2
  <2>5. reach' \subseteq ENTRYPOINT .. End' - 1
    BY <1>2 DEF TypeOK
  <2>6. \A a \in reach' : vm'.memory[a] = ByteAt(a)'
    BY <1>1, <1>3, <1>5, <2>5
  <2>7. Whole(vm') /\ vm'.stack \in Seq(Returns)
    BY <1>1, <1>3
  <2> QED
    BY <2>4, <2>6, <2>7 DEF OnCourse
<1> QED
  BY <1>2, <1>6, <1>7 DEF CourseInv, OnCourse

\* The engine reads the word the map was drawn from.
LEMMA SameWord ==
  ASSUME CourseInv, Stopped, trusted, vm.pc \in CodeWords
  PROVE  /\ Engine!Op = WordAt(vm.pc)
         /\ Whole(vm) /\ vm.stack \in Seq(Returns) /\ vm.pc \in Nat /\ vm.pc + 2 <= MEMORY_SIZE
         /\ WordAt(vm.pc) \in Nat /\ ValidOpcode(WordAt(vm.pc))
<1>1. PICK a : a = vm.pc
  OBVIOUS
<1>2. a \in Words /\ Decodable(a) /\ a \in reach /\ a + 1 \in reach /\ TypeOK
  BY <1>1 DEF CourseInv, WorkInv, OnlyWords, WholeWords
<1>3. a \in 0 .. MEMORY_SIZE - 1 /\ a + 1 \in 0 .. MEMORY_SIZE - 1 /\ a + 2 <= MEMORY_SIZE /\ a \in Nat
  BY <1>2, Sizes, EndRange DEF Words
<1>4. Engine!Wrap(a) = a /\ Engine!Wrap(a + 1) = a + 1
  BY <1>3, InsideMemory
<1>5. vm.memory[a] = ByteAt(a) /\ vm.memory[a + 1] = ByteAt(a + 1)
  BY <1>2 DEF CourseInv, OnCourse
<1>6. Engine!Op = WordAt(a)
  BY <1>1, <1>4, <1>5 DEF Engine!Op, Engine!OpAt, WordAt
<1>7. WordAt(a) \in Nat
  BY <1>2, <1>3, WordRange
<1> QED
  BY <1>1, <1>2, <1>3, <1>6, <1>7 DEF CourseInv, OnCourse, Decodable

\* Steps of the engine that go where the map says.
LEMMA CourseStep ==
  ASSUME CourseInv, Stopped, UNCHANGED vars, trusted' => trusted,
         trusted' => /\ vm.pc \in CodeWords
                     /\ Ahead(vm, vm.pc, vm')
                     /\ \A a \in reach : vm'.memory[a] = vm.memory[a]
  PROVE  CourseInv'
<1>1. UNCHANGED <<rom, reach, todo, phase, pc>>
  BY DEF vars
<1>2. TypeOK' /\ WorkInv' /\ Stopped'
  BY <1>1, NextType, NextWork DEF CourseInv, Stopped
<1>3. /\ CodeWords' = CodeWords /\ \A a : ByteAt(a)' = ByteAt(a) /\ Decodable(a)' = Decodable(a)
  <2>1. End' = End
    BY <1>1 DEF End
  <2> QED
    BY <1>1, <2>1, SameImage DEF CodeWords, ByteAt
<1>4. ASSUME trusted' PROVE OnCourse'
  <2>1. /\ Ahead(vm, vm.pc, vm') /\ vm.pc \in CodeWords /\ trusted
        /\ \A a \in reach : vm'.memory[a] = vm.memory[a]
    BY <1>4
  <2>2. Closed(CodeWords)
    <3>1. Analyzed
      BY DEF Analyzed, Stopped
    <3> QED
      BY <3>1, WorkReach DEF CourseInv, ReachExact
  <2>3. \A b \in Follows(vm.pc) : Decodable(b) => b \in CodeWords
    BY <2>1, <2>2 DEF Closed
  <2>4. \A b \in Elements(vm.stack) : Decodable(b) => b \in CodeWords
    BY <2>1 DEF CourseInv, OnCourse, Continuations, Elements
  <2>5. Continuations' \subseteq Follows(vm.pc) \cup Elements(vm.stack)
    BY <2>1 DEF Ahead, Continuations, Elements
  <2>6. \A a \in Continuations' : Decodable(a)' => a \in CodeWords'
    BY <1>3, <2>3, <2>4, <2>5
  <2>7. \A a \in reach' : vm'.memory[a] = ByteAt(a)'
    BY <1>1, <1>3, <2>1 DEF CourseInv, OnCourse
  <2>8. Whole(vm') /\ vm'.stack \in Seq(Returns)
    BY <2>1 DEF Ahead
  <2> QED
    BY <2>6, <2>7, <2>8 DEF OnCourse
<1> QED
  BY <1>2, <1>4 DEF CourseInv, OnCourse, Loaded

LEMMA CourseInstruction ==
  ASSUME CourseInv, Instruction
  PROVE  CourseInv'
<1>1. Stopped /\ UNCHANGED vars /\ (trusted' => trusted)
  BY DEF Instruction
<1>2. ASSUME trusted'
      PROVE  Ahead(vm, vm.pc, vm')
  <2>1. /\ trusted /\ vm.pc \in CodeWords /\ Engine!Kind(Engine!Op) # "branch"
    BY <1>2 DEF Instruction, OnTheMap
  <2>2. PICK a : a = vm.pc
    OBVIOUS
  <2>3. About(vm, a) /\ Engine!Op = WordAt(a)
    BY <1>1, <2>1, <2>2, SameWord DEF About
  <2>4. CASE Engine!Execution
    <3>1. /\ Engine!Kind(WordAt(a)) \notin Engine!KeyKinds /\ ~Engine!Faults(WordAt(a), vm)
          /\ \E random \in RandomBytes : vm' = Engine!Execute(WordAt(a), vm, random)
      BY <2>3, <2>4 DEF Engine!Execution, Engine!Running
    <3> QED
      BY <2>2, <2>3, <3>1, ExecuteAhead
  <2>5. CASE Engine!KeySkip
    <3>1. /\ Engine!Kind(WordAt(a)) \in {"skip_key_down", "skip_key_up"}
          /\ \E hit \in BOOLEAN : vm' = Engine!SkipIf(vm, hit)
      BY <2>3, <2>5 DEF Engine!KeySkip, Engine!Running
    <3> QED
      BY <2>2, <2>3, <3>1, KeySkipAhead
  <2>6. CASE Engine!KeyWait
    <3>1. /\ Engine!Kind(WordAt(a)) = "load_on_key"
          /\ \E key \in 0 .. 15 : vm' = Engine!STEP(Engine!SetReg(vm, Engine!X(WordAt(a)), key))
      BY <2>3, <2>6 DEF Engine!KeyWait, Engine!Running
    <3> QED
      BY <2>2, <2>3, <3>1, KeyWaitAhead
  <2> QED
    BY <2>4, <2>5, <2>6 DEF Instruction
<1>3. trusted' => vm.pc \in CodeWords /\ \A a \in reach : vm'.memory[a] = vm.memory[a]
  BY DEF Instruction, OnTheMap
<1> QED
  BY <1>1, <1>2, <1>3, CourseStep

LEMMA CourseTicks ==
  ASSUME CourseInv, Ticks
  PROVE  CourseInv'
<1>1. /\ Stopped /\ UNCHANGED vars /\ trusted' = trusted
      /\ vm' = [vm EXCEPT !.delay = Engine!CountDown(@, 1), !.sound = Engine!CountDown(@, 1)]
  BY DEF Ticks, Engine!Countdown
<1>2. UNCHANGED <<rom, reach, phase>>
  BY <1>1 DEF vars
<1>3. TypeOK' /\ WorkInv' /\ Stopped'
  BY <1>1, <1>2, NextType, NextWork DEF CourseInv, Stopped
<1>4. Whole(vm) => Whole(vm') /\ vm'.pc = vm.pc /\ vm'.stack = vm.stack /\ vm'.memory = vm.memory
  BY <1>1 DEF Whole
<1>5. CodeWords' = CodeWords /\ \A a : ByteAt(a)' = ByteAt(a) /\ Decodable(a)' = Decodable(a)
  <2>1. End' = End
    BY <1>2 DEF End
  <2> QED
    BY <1>2, <2>1, SameImage DEF CodeWords, ByteAt
<1>6. ASSUME trusted' PROVE OnCourse'
  <2>1. /\ Whole(vm) /\ vm.stack \in Seq(Returns)
        /\ \A a \in reach : vm.memory[a] = ByteAt(a)
        /\ \A a \in Continuations : Decodable(a) => a \in CodeWords
    BY <1>1, <1>6 DEF CourseInv, OnCourse
  <2>2. Continuations' = Continuations
    BY <1>4, <2>1 DEF Continuations
  <2> QED
    BY <1>2, <1>4, <1>5, <2>1, <2>2 DEF OnCourse
<1> QED
  BY <1>3, <1>6 DEF CourseInv, OnCourse, Loaded

LEMMA CourseIdle ==
  ASSUME CourseInv, UNCHANGED <<vars, vm, trusted>>
  PROVE  CourseInv'
<1>1. TypeOK' /\ WorkInv'
  BY NextType, NextWork DEF CourseInv
<1>2. UNCHANGED <<rom, reach, phase, vm, trusted>>
  BY DEF vars
<1>3. End' = End /\ CodeWords' = CodeWords /\ Continuations' = Continuations
  BY <1>2 DEF End, CodeWords, Continuations
<1>4. \A a : ByteAt(a)' = ByteAt(a) /\ Decodable(a)' = Decodable(a)
  BY <1>2, <1>3, SameImage DEF ByteAt
<1>5. Loaded' /\ OnCourse'
  BY <1>2, <1>3, <1>4 DEF CourseInv, Loaded, OnCourse, Stopped
<1> QED
  BY <1>1, <1>5 DEF CourseInv

LEMMA CourseInit == MapInit => CourseInv
<1> SUFFICES ASSUME MapInit PROVE CourseInv
  OBVIOUS
<1>1. TypeOK /\ WorkInv /\ ~Stopped
  BY InitType, InitWork DEF MapInit, Init, Stopped
<1>2. PICK mem : mem = Engine!LoadedMemory(rom)
  OBVIOUS
<1>3. vm = [pc |-> ENTRYPOINT, regs |-> [i \in 0 .. 15 |-> 0], addr |-> 0, stack |-> << >>,
            memory |-> mem, display |-> {}, delay |-> 0, sound |-> 0]
  BY <1>2 DEF MapInit
<1>4. Whole(vm) /\ vm.pc = ENTRYPOINT /\ vm.stack = << >> /\ vm.memory = mem
  BY <1>3 DEF Whole
<1>5. ASSUME NEW a \in ENTRYPOINT .. End - 1
      PROVE  mem[a] = ByteAt(a)
  <2>1. /\ a \in 0 .. MEMORY_SIZE - 1 /\ ~(a < Len(Font))
        /\ a - ENTRYPOINT + 1 \in 1 .. Len(rom)
    <3>1. Len(Font) \in Nat /\ Len(Font) <= ENTRYPOINT
      BY FontAssumption
    <3> QED
      BY <1>1, <3>1, Sizes, EndRange
  <2> QED
    BY <1>2, <2>1 DEF Engine!LoadedMemory, Engine!Address, ByteAt
<1> QED
  BY <1>1, <1>4, <1>5 DEF CourseInv, Loaded, OnCourse

LEMMA CourseNext == CourseInv /\ [MapNext]_mapvars => CourseInv'
<1> SUFFICES ASSUME CourseInv, [MapNext]_mapvars PROVE CourseInv'
  OBVIOUS
<1>1. CASE Disassemble
  BY <1>1, CourseDescent
<1>2. CASE Instruction
  BY <1>2, CourseInstruction
<1>3. CASE Ticks
  BY <1>3, CourseTicks
<1>4. CASE Failure \/ Faulted \/ UNCHANGED mapvars
  <2>1. UNCHANGED <<vars, vm, trusted>>
    BY <1>4 DEF Failure, Faulted, mapvars, engine
  <2> QED
    BY <2>1, CourseIdle
<1> QED
  BY <1>1, <1>2, <1>3, <1>4 DEF MapNext

\* The word at op's form is one the engines execute and disas.c knows.
LEMMA ExecutableValid ==
  ASSUME NEW op \in Nat, Engine!Kind(op) # "illegal",
         ~(Nibble(op) = 0 /\ op \notin {224, 238}), ~(Nibble(op) \in {5, 9} /\ N(op) # 0)
  PROVE  ValidOpcode(op)
<1>1. Nibble(op) = op \div 4096 /\ N(op) = op % 16 /\ KK(op) = op % 256
  BY DEF Nibble, N, KK
<1>2. SUFFICES ASSUME op \notin {224, 238} PROVE ValidOpcode(op)
  BY DEF ValidOpcode
<1>3. CASE Nibble(op) = 8
  <2>1. Engine!Kind(op) = Engine!ArithmeticKind(op % 16)
    BY <1>1, <1>2, <1>3 DEF Engine!Kind
  <2>2. op % 16 \in 0 .. 7 \cup {14}
    BY <2>1 DEF Engine!ArithmeticKind
  <2> QED
    BY <1>1, <1>3, <2>2 DEF ValidOpcode
<1>4. CASE Nibble(op) = 15
  <2>1. Engine!Kind(op) = Engine!MiscKind(op % 256)
    BY <1>1, <1>2, <1>4 DEF Engine!Kind
  <2>2. op % 256 \in MiscOpcodes
    BY <2>1 DEF Engine!MiscKind, MiscOpcodes
  <2> QED
    BY <1>1, <1>4, <2>2 DEF ValidOpcode
<1>5. CASE Nibble(op) = 14
  <2>1. KK(op) \in {158, 161}
    BY <1>1, <1>2, <1>5 DEF Engine!Kind
  <2> QED
    BY <1>5, <2>1 DEF ValidOpcode
<1>6. CASE Nibble(op) \notin {8, 14, 15}
  <2>1. Nibble(op) \in 0 .. 7 \cup 9 .. 13
    BY <1>1, <1>2, <1>6 DEF Engine!Kind
  <2> QED
    BY <1>2, <2>1 DEF ValidOpcode
<1> QED
  BY <1>3, <1>4, <1>5, <1>6

LEMMA ExecutableDecodable ==
  ASSUME TypeOK, NEW a, Executable(a), ~Disowned(a)
  PROVE  Decodable(a)
<1>1. a \in Nat /\ a >= ENTRYPOINT /\ a + 1 < End /\ Engine!Kind(WordAt(a)) # "illegal"
  BY Sizes, EndRange DEF Executable
<1>2. a % 2 = 0
  BY <1>1 DEF Disowned
<1>3. ValidOpcode(WordAt(a))
  <2>1. WordAt(a) \in Nat
    BY <1>1, WordRange
  <2> QED
    BY <1>1, <2>1, ExecutableValid DEF Disowned
<1> QED
  BY <1>1, <1>2, <1>3 DEF Decodable, Labelable

\* disas.c, descend, beside basic_block of the engines: for every ROM, a program
\* that has only run code of the map, has left it as it was and has not jumped
\* through V0 continues at code of the map, if the engine finds an instruction
\* of the image there that is none of the three forms disas.c disowns.
THEOREM MapCovers == MapSpec => []MapCoversExecution
<1>1. MapInit => CourseInv
  BY CourseInit
<1>2. CourseInv /\ [MapNext]_mapvars => CourseInv'
  BY CourseNext
<1>3. CourseInv => MapCoversExecution
  <2> SUFFICES ASSUME CourseInv, Stopped, trusted, NEW a \in Continuations, Executable(a),
                      ~Disowned(a)
               PROVE  a \in CodeWords
    BY DEF MapCoversExecution
  <2>1. Decodable(a)
    BY ExecutableDecodable DEF CourseInv
  <2> QED
    BY <2>1 DEF CourseInv, OnCourse
<1> QED
  BY <1>1, <1>2, <1>3, PTL DEF MapSpec

=============================================================================
