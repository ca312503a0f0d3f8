--------------------------- MODULE Toolchain_proofs ---------------------------
(***************************************************************************)
(* What the two passes of asm.c write is what the source means, and they   *)
(* accept the sources that mean something: the listings of disas.c among   *)
(* them, which mean the ROM.                                               *)
(***************************************************************************)
EXTENDS Toolchain, StaticMap_proofs

----------------------------------------------------------------------------
\* A set of numbers has a least element: without one, x |-> the number of
\* elements below x would be an injection into a smaller set.

Under(S, b) == {z \in S : z < b}

LEMMA FewerUnder ==
  ASSUME NEW top \in Nat, NEW S \in SUBSET (1 .. top)
  PROVE  /\ IsFiniteSet(S) /\ Cardinality(S) \in Nat
         /\ \A b \in S : /\ Cardinality(Under(S, b)) \in Nat
                         /\ Cardinality(Under(S, b)) < Cardinality(S)
         /\ \A a, b \in S : a < b => Cardinality(Under(S, a)) < Cardinality(Under(S, b))
<1>1. IsFiniteSet(1 .. top)
  BY FS_Interval
<1>2. IsFiniteSet(S) /\ Cardinality(S) \in Nat
  BY <1>1, FS_Subset, FS_CardinalityType
<1>3. ASSUME NEW b \in S
      PROVE  /\ IsFiniteSet(Under(S, b)) /\ Cardinality(Under(S, b)) \in Nat
             /\ Cardinality(Under(S, b)) < Cardinality(S)
  <2>1. Under(S, b) \in SUBSET S /\ b \notin Under(S, b)
    BY DEF Under
  <2>2. /\ IsFiniteSet(Under(S, b)) /\ Cardinality(Under(S, b)) <= Cardinality(S)
        /\ Cardinality(S) # Cardinality(Under(S, b))
    BY <1>2, <2>1, FS_Subset
  <2>3. Cardinality(Under(S, b)) \in Nat
    BY <2>2, FS_CardinalityType
  <2> QED
    BY <1>2, <2>2, <2>3
<1>4. ASSUME NEW a \in S, NEW b \in S, a < b
      PROVE  Cardinality(Under(S, a)) < Cardinality(Under(S, b))
  <2>1. Under(S, a) \in SUBSET Under(S, b) /\ a \notin Under(S, a) /\ a \in Under(S, b)
    <3>1. a \in Int /\ b \in Int /\ \A z \in S : z \in Int
      OBVIOUS
    <3>2. \A z \in S : z < a => z < b
      BY <1>4, <3>1
    <3>3. ~(a < a)
      BY <3>1
    <3> QED
      BY <1>4, <3>2, <3>3, Zenon DEF Under
  <2>2. /\ Cardinality(Under(S, a)) <= Cardinality(Under(S, b))
        /\ Cardinality(Under(S, b)) # Cardinality(Under(S, a))
    BY <1>3, <2>1, FS_Subset
  <2> QED
    BY <1>3, <2>2
<1> QED
  BY <1>2, <1>3, <1>4

LEMMA LeastElement ==
  ASSUME NEW top \in Nat, NEW S \in SUBSET (1 .. top), S # {}
  PROVE  \E m \in S : \A y \in S : m <= y
<1> SUFFICES ASSUME \A m \in S : \E y \in S : ~(m <= y)
             PROVE  FALSE
  OBVIOUS
<1>1. \A m \in S : \E y \in S : y < m
  OBVIOUS
<1> DEFINE g == [b \in S |-> Cardinality(Under(S, b))]
<1>2. PICK n \in Nat : n = Cardinality(S)
  BY FewerUnder
<1>3. ASSUME NEW b \in S
      PROVE  g[b] \in 1 .. n - 1
  <2>1. PICK y \in S : y < b
    BY <1>1
  <2>2. Cardinality(Under(S, y)) < Cardinality(Under(S, b))
    BY <2>1, FewerUnder
  <2>3. PICK c \in Nat, d \in Nat : c = Cardinality(Under(S, y)) /\ d = Cardinality(Under(S, b))
    BY FewerUnder
  <2>4. d < n
    BY <1>2, <2>3, FewerUnder
  <2>5. d \in 1 .. n - 1
    BY <2>2, <2>3, <2>4
  <2> QED
    BY <2>3, <2>5
<1>4. ASSUME NEW a \in S, NEW b \in S, a # b
      PROVE  g[a] # g[b]
  <2>1. a \in Int /\ b \in Int
    OBVIOUS
  <2>2. a < b \/ b < a
    BY <1>4, <2>1
  <2>3. /\ Cardinality(Under(S, a)) \in Nat /\ Cardinality(Under(S, b)) \in Nat
        /\ a < b => Cardinality(Under(S, a)) < Cardinality(Under(S, b))
        /\ b < a => Cardinality(Under(S, b)) < Cardinality(Under(S, a))
    BY FewerUnder
  <2> QED
    BY <2>2, <2>3
<1>5. g \in Injection(S, 1 .. n - 1)
  <2>1. g \in [S -> 1 .. n - 1]
    BY <1>3
  <2> HIDE DEF g
  <2> QED
    BY <1>4, <2>1 DEF Injection, IsInjective
<1>6. n > 0
  <2>1. PICK x \in S : TRUE
    OBVIOUS
  <2> QED
    BY <1>2, <2>1, FewerUnder
<1>7. PICK k \in Nat : k = n - 1
  BY <1>6
<1>8. IsFiniteSet(1 .. k) /\ Cardinality(1 .. k) = k
  BY FS_Interval
<1>9. g \in Injection(S, 1 .. k)
  BY <1>5, <1>7
<1>10. n <= k
  <2> HIDE DEF g
  <2> QED
    BY <1>2, <1>8, <1>9, FS_Injection
<1> QED
  BY <1>7, <1>10

----------------------------------------------------------------------------
\* The places of lines: Assembler's recursive function has a solution.

\* LineType, with the words the tools themselves write named (the provers do
\* not know that they are strings).
Tags == STRING \cup {"V", "number", "name", "I", "[I]", "DT", "ST", "F", "B", "K"}
Operations ==
  STRING \cup {".BYTE", ".WORD", "CLS", "RET", "JP", "CALL", "SE", "SNE", "LD", "ADD", "OR",
               "AND", "XOR", "SUB", "SHR", "SUBN", "SHL", "RND", "DRW", "SKP", "SKNP"}
OperandShape == [t : Tags, v : Int]
LineShape == [label : Int, op : Operations, args : Seq(OperandShape)]

Sourced == source \in Seq(LineShape)

LEMMA WiderSeq ==
  ASSUME NEW S, NEW T, S \subseteq T
  PROVE  Seq(S) \subseteq Seq(T)
  OBVIOUS

LEMMA SourcesSourced == \A file \in Sources : file \in Seq(LineShape)
<1>1. Seq([t : STRING, v : Int]) \subseteq Seq(OperandShape)
  <2>1. [t : STRING, v : Int] \subseteq OperandShape
    BY DEF OperandShape, Tags
  <2> QED
    BY <2>1, WiderSeq
<1>2. LineType \subseteq LineShape
  <2>1. STRING \subseteq Operations
    BY DEF Operations
  <2> HIDE DEF Operations
  <2> QED
    BY <1>1, <2>1 DEF LineType, LineShape
<1>3. Seq(LineType) \subseteq Seq(LineShape)
  BY <1>2, WiderSeq
<1> QED
  BY <1>3, SourcesAssumption

LEMMA LineTyped ==
  ASSUME Sourced, NEW i \in 1 .. Len(source)
  PROVE  source[i] \in LineShape
  BY DEF Sourced

LEMMA FirstDefined ==
  ASSUME Sourced, NEW j \in 1 .. Len(source)
  PROVE  LET d == Asm!DefinedAt(source[j].label)
         IN  /\ d \in 1 .. j /\ source[d].label = source[j].label
             /\ \A k \in 1 .. d - 1 : source[k].label # source[j].label
<1> DEFINE label == source[j].label
           S == {i \in 1 .. Len(source) : source[i].label = label}
           First(i) == source[i].label = label /\ \A k \in 1 .. i - 1 : source[k].label # label
<1>1. Len(source) \in Nat /\ DOMAIN source = 1 .. Len(source)
  BY DEF Sourced
<1>2. S \in SUBSET (1 .. Len(source)) /\ j \in S
  OBVIOUS
<1>3. PICK m \in S : \A y \in S : m <= y
  <2> HIDE DEF S
  <2> QED
    BY <1>1, <1>2, LeastElement
<1>4. m \in DOMAIN source /\ First(m)
  <2>1. m \in 1 .. Len(source) /\ source[m].label = label
    OBVIOUS
  <2>2. ASSUME NEW k \in 1 .. m - 1
        PROVE  source[k].label # label
    <3>1. k \in 1 .. Len(source) /\ ~(m <= k)
      BY <1>1, <2>1
    <3> QED
      BY <1>3, <3>1
  <2> QED
    BY <1>1, <2>1, <2>2
<1>5. Asm!DefinedAt(label) = CHOOSE i \in DOMAIN source : First(i)
  BY DEF Asm!DefinedAt, Asm!Lines
<1>6. Asm!DefinedAt(label) \in DOMAIN source /\ First(Asm!DefinedAt(label))
  <2> HIDE DEF First, label
  <2> QED
    BY <1>4, <1>5, Zenon
<1>7. Asm!DefinedAt(label) <= j
  <2>1. PICK d \in 1 .. Len(source) : d = Asm!DefinedAt(label)
    BY <1>1, <1>6
  <2>2. d > j => j \in 1 .. d - 1
    BY <1>1
  <2>3. \A k \in 1 .. d - 1 : source[k].label # label
    BY <1>6, <2>1
  <2> QED
    BY <2>1, <2>2, <2>3
<1> QED
  BY <1>1, <1>6, <1>7

PlaceOf(p, i) ==
  IF i = 1 THEN ENTRYPOINT
  ELSE IF source[i - 1].op # ".ORG" THEN Asm!Beyond(i - 1, p[i - 1])
  ELSE IF Asm!OrgTarget(i - 1).t = "number" THEN Asm!OrgTarget(i - 1).v
  ELSE IF \E j \in 1 .. i - 1 : source[j].label = Asm!OrgTarget(i - 1).v
       THEN p[Asm!DefinedAt(Asm!OrgTarget(i - 1).v)]
       ELSE 0

Solves(p, n) == p = [i \in 1 .. n |-> PlaceOf(p, i)]

LEMMA PlacesChosen == Asm!Places = CHOOSE p : Solves(p, Len(source) + 1)
  BY DEF Asm!Places, PlaceOf, Solves

\* A place depends on earlier places only.
LEMMA PlaceLocal ==
  ASSUME Sourced, NEW i \in 1 .. Len(source) + 1, NEW p, NEW q,
         \A j \in 1 .. i - 1 : p[j] = q[j]
  PROVE  PlaceOf(p, i) = PlaceOf(q, i)
<1>1. Len(source) \in Nat
  BY DEF Sourced
<1>2. CASE i = 1
  BY <1>2 DEF PlaceOf
<1>3. CASE i # 1
  <2>1. i - 1 \in 1 .. i - 1
    BY <1>1, <1>3
  <2>2. p[i - 1] = q[i - 1]
    BY <2>1
  <2>3. ASSUME NEW j \in 1 .. i - 1, source[j].label = Asm!OrgTarget(i - 1).v
        PROVE  p[Asm!DefinedAt(Asm!OrgTarget(i - 1).v)] = q[Asm!DefinedAt(Asm!OrgTarget(i - 1).v)]
    <3>1. j \in 1 .. Len(source)
      BY <1>1
    <3>2. Asm!DefinedAt(source[j].label) \in 1 .. j
      BY <3>1, FirstDefined
    <3>3. PICK d \in 1 .. j : d = Asm!DefinedAt(Asm!OrgTarget(i - 1).v)
      BY <2>3, <3>2
    <3>4. d \in 1 .. i - 1
      BY <3>3
    <3> QED
      BY <3>3, <3>4
  <2> QED
    BY <2>2, <2>3 DEF PlaceOf
<1> QED
  BY <1>2, <1>3

LEMMA PlacesExist ==
  ASSUME Sourced
  PROVE  \E p : Solves(p, Len(source) + 1)
<1> DEFINE top == Len(source) + 1
           S == {n \in 1 .. top : ~ \E p : Solves(p, n)}
<1>1. Len(source) \in Nat /\ top \in Nat
  BY DEF Sourced
<1>2. SUFFICES ASSUME ~ \E p : Solves(p, top)
               PROVE  FALSE
  OBVIOUS
<1>3. PICK m \in S : \A n \in S : m <= n
  <2>1. S \in SUBSET (1 .. top) /\ top \in S
    <3>1. top \in 1 .. top
      BY <1>1
    <3> QED
      BY <1>2, <3>1
  <2> HIDE DEF S, top
  <2> QED
    BY <1>1, <1>2, <2>1, LeastElement
<1>4. m \in 1 .. top
  OBVIOUS
<1>5. \E p : \A j \in 1 .. m - 1 : p[j] = PlaceOf(p, j)
  <2>1. CASE m = 1
    BY <2>1
  <2>2. CASE m # 1
    <3>1. m - 1 \in 1 .. top /\ ~(m <= m - 1)
      BY <1>1, <1>4, <2>2
    <3>2. m - 1 \notin S
      BY <1>3, <3>1
    <3>3. PICK p : Solves(p, m - 1)
      BY <3>1, <3>2
    <3>4. \A j \in 1 .. m - 1 : p[j] = PlaceOf(p, j)
      BY <3>3 DEF Solves
    <3> QED
      BY <3>4
  <2> QED
    BY <2>1, <2>2
<1>6. PICK p : \A j \in 1 .. m - 1 : p[j] = PlaceOf(p, j)
  BY <1>5
<1> DEFINE q == [i \in 1 .. m |-> PlaceOf(p, i)]
<1>7. ASSUME NEW i \in 1 .. m
      PROVE  PlaceOf(p, i) = PlaceOf(q, i)
  <2>1. i \in 1 .. Len(source) + 1
    BY <1>1, <1>4
  <2>2. \A j \in 1 .. i - 1 : p[j] = q[j]
    BY <1>1, <1>4, <1>6
  <2> HIDE DEF q
  <2> QED
    BY <2>1, <2>2, PlaceLocal
<1>8. q = [i \in 1 .. m |-> PlaceOf(q, i)]
  BY <1>7
<1>9. Solves(q, m)
  <2> HIDE DEF q
  <2> QED
    BY <1>8 DEF Solves
<1> QED
  BY <1>3, <1>9

LEMMA PlacesSolve ==
  ASSUME Sourced
  PROVE  /\ Asm!Places[1] = ENTRYPOINT
         /\ \A i \in 1 .. Len(source) : Asm!Places[i + 1] = PlaceOf(Asm!Places, i + 1)
<1>1. Solves(Asm!Places, Len(source) + 1)
  BY PlacesChosen, PlacesExist, Zenon
<1>2. \A i \in 1 .. Len(source) + 1 : Asm!Places[i] = PlaceOf(Asm!Places, i)
  BY <1>1 DEF Solves
<1>3. Len(source) \in Nat
  BY DEF Sourced
<1>4. 1 \in 1 .. Len(source) + 1 /\ \A i \in 1 .. Len(source) : i + 1 \in 1 .. Len(source) + 1
  BY <1>3
<1>5. PlaceOf(Asm!Places, 1) = ENTRYPOINT
  BY DEF PlaceOf
<1> QED
  BY <1>2, <1>4, <1>5

----------------------------------------------------------------------------
\* Lines and their bytes.

IntValued(syms) == \A label \in DOMAIN syms : syms[label] \in Int

LEMMA LineParts ==
  ASSUME NEW l \in LineShape
  PROVE  /\ l.label \in Int
         /\ l.args \in Seq(OperandShape) /\ Len(l.args) \in Nat
         /\ DOMAIN l.args = 1 .. Len(l.args)
         /\ \A i \in 1 .. Len(l.args) : l.args[i] \in OperandShape
<1>1. l.label \in Int /\ l.args \in Seq(OperandShape)
  BY DEF LineShape
<1> QED
  BY <1>1

LEMMA ValueType ==
  ASSUME NEW operand \in OperandShape, NEW syms, IntValued(syms)
  PROVE  Asm!Value(operand, syms) \in Int
<1>1. operand.v \in Int
  BY DEF OperandShape
<1>2. Asm!Defined(operand, syms) /\ operand.t # "number" => operand.v \in DOMAIN syms
  BY DEF Asm!Defined
<1>3. operand.v \in DOMAIN syms => syms[operand.v] \in Int
  BY DEF IntValued
<1> QED
  BY <1>1, <1>2, <1>3 DEF Asm!Value

FormType == [word : Int, operand : OperandShape, max : Nat]

LEMMA Forms ==
  /\ \A word \in Int : Asm!Fixed(word) \in FormType
  /\ \A word \in Int, operand \in OperandShape :
       /\ Asm!Valued(word, operand, 255) \in FormType
       /\ Asm!Valued(word, operand, 15) \in FormType
       /\ Asm!Valued(word, operand, MEMORY_SIZE - 1) \in FormType
  /\ Asm!NoForm \in FormType
<1>1. MEMORY_SIZE - 1 \in Nat
  BY Sizes
<1>2. Asm!Num(0) \in OperandShape
  BY DEF Asm!Num, OperandShape, Tags
<1>3. \A word \in Int : Asm!Fixed(word) \in FormType
  BY <1>2 DEF Asm!Fixed, FormType
<1>4. \A word \in Int, operand \in OperandShape, max \in Nat :
        Asm!Valued(word, operand, max) \in FormType
  BY DEF Asm!Valued, FormType
<1>5. Asm!NoForm \in FormType
  BY <1>3 DEF Asm!NoForm
<1> QED
  BY <1>1, <1>3, <1>4, <1>5

LEMMA LoadFormType ==
  ASSUME NEW a \in OperandShape, NEW b \in OperandShape
  PROVE  Asm!LoadForm(a, b) \in FormType
<1>1. PICK x \in Int, y \in Int : x = a.v /\ y = b.v
  BY DEF OperandShape
<1>2. \A t \in DOMAIN Asm!StoreCode : 61440 + 256 * y + Asm!StoreCode[t] \in Int
  BY DEF Asm!StoreCode
<1>3. \A t \in DOMAIN Asm!FetchCode : 61440 + 256 * x + Asm!FetchCode[t] \in Int
  BY DEF Asm!FetchCode
<1>4. a.t \in DOMAIN Asm!StoreCode =>
        Asm!Fixed(61440 + 256 * b.v + Asm!StoreCode[a.t]) \in FormType
  BY <1>1, <1>2, Forms
<1>5. b.t \in DOMAIN Asm!FetchCode =>
        Asm!Fixed(61440 + 256 * a.v + Asm!FetchCode[b.t]) \in FormType
  BY <1>1, <1>3, Forms
<1>6. Asm!Valued(40960, b, MEMORY_SIZE - 1) \in FormType
  BY Forms
<1>7. Asm!Fixed(61525 + 256 * b.v) \in FormType /\ Asm!Fixed(61541 + 256 * a.v) \in FormType
  BY <1>1, Forms
<1>8. Asm!Fixed(32768 + 256 * a.v + 16 * b.v) \in FormType
  BY <1>1, Forms
<1>9. Asm!Valued(24576 + 256 * a.v, b, 255) \in FormType
  BY <1>1, Forms
<1>10. Asm!NoForm \in FormType
  BY Forms
<1> QED
  BY <1>4, <1>5, <1>6, <1>7, <1>8, <1>9, <1>10 DEF Asm!LoadForm

LEMMA PairFormType ==
  ASSUME NEW op, NEW a \in OperandShape, NEW b \in OperandShape
  PROVE  Asm!PairForm(op, a, b) \in FormType
<1>1. PICK x \in Int, y \in Int : x = a.v /\ y = b.v
  BY DEF OperandShape
<1>2. \A t \in DOMAIN Asm!ArithmeticCode :
        32768 + 256 * x + 16 * y + Asm!ArithmeticCode[t] \in Int
  BY DEF Asm!ArithmeticCode
<1>3. op \in DOMAIN Asm!ArithmeticCode =>
        Asm!Fixed(32768 + 256 * a.v + 16 * b.v + Asm!ArithmeticCode[op]) \in FormType
  BY <1>1, <1>2, Forms
<1>4. /\ Asm!Fixed(20480 + 256 * a.v + 16 * b.v) \in FormType
      /\ Asm!Fixed(36864 + 256 * a.v + 16 * b.v) \in FormType
      /\ Asm!Fixed(32772 + 256 * a.v + 16 * b.v) \in FormType
      /\ Asm!Fixed(61470 + 256 * b.v) \in FormType
  BY <1>1, Forms
<1>5. /\ Asm!Valued(12288 + 256 * a.v, b, 255) \in FormType
      /\ Asm!Valued(16384 + 256 * a.v, b, 255) \in FormType
      /\ Asm!Valued(28672 + 256 * a.v, b, 255) \in FormType
      /\ Asm!Valued(49152 + 256 * a.v, b, 255) \in FormType
      /\ Asm!Valued(45056, b, MEMORY_SIZE - 1) \in FormType
  BY <1>1, Forms
<1>6. Asm!NoForm \in FormType
  BY Forms
<1> QED
  BY <1>3, <1>4, <1>5, <1>6, LoadFormType DEF Asm!PairForm

LEMMA SingleFormType ==
  ASSUME NEW op, NEW a \in OperandShape
  PROVE  Asm!SingleForm(op, a) \in FormType
<1>1. PICK x \in Int : x = a.v
  BY DEF OperandShape
<1>2. \A t \in {"SHR", "SHL"} : 32768 + 256 * x + Asm!ArithmeticCode[t] \in Int
  BY DEF Asm!ArithmeticCode
<1>3. op \in {"SHR", "SHL"} =>
        Asm!Fixed(32768 + 256 * a.v + Asm!ArithmeticCode[op]) \in FormType
  BY <1>1, <1>2, Forms
<1>4. /\ Asm!Valued(4096, a, MEMORY_SIZE - 1) \in FormType
      /\ Asm!Valued(8192, a, MEMORY_SIZE - 1) \in FormType
  BY Forms
<1>5. /\ Asm!Fixed(57502 + 256 * a.v) \in FormType
      /\ Asm!Fixed(57505 + 256 * a.v) \in FormType
  BY <1>1, Forms
<1>6. Asm!NoForm \in FormType
  BY Forms
<1> QED
  BY <1>3, <1>4, <1>5, <1>6 DEF Asm!SingleForm

LEMMA FormTyped ==
  ASSUME NEW l \in LineShape
  PROVE  Asm!Form(l) \in FormType
<1>1. \A i \in 1 .. Len(l.args) : l.args[i] \in OperandShape /\ l.args[i].v \in Int
  BY LineParts DEF OperandShape
<1>2. Len(l.args) = 1 => Asm!SingleForm(l.op, l.args[1]) \in FormType
  BY <1>1, SingleFormType
<1>3. Len(l.args) = 2 => Asm!PairForm(l.op, l.args[1], l.args[2]) \in FormType
  BY <1>1, PairFormType
<1>4. Len(l.args) = 3 =>
        Asm!Valued(53248 + 256 * l.args[1].v + 16 * l.args[2].v, l.args[3], 15) \in FormType
  <2>1. SUFFICES ASSUME Len(l.args) = 3
                 PROVE  Asm!Valued(53248 + 256 * l.args[1].v + 16 * l.args[2].v, l.args[3], 15)
                          \in FormType
    OBVIOUS
  <2>2. l.args[3] \in OperandShape
    BY <1>1, <2>1
  <2>3. PICK x \in Int, y \in Int : x = l.args[1].v /\ y = l.args[2].v
    BY <1>1, <2>1
  <2>4. 53248 + 256 * x + 16 * y \in Int
    OBVIOUS
  <2> QED
    BY <2>2, <2>3, <2>4, Forms
<1>5. Asm!Fixed(224) \in FormType /\ Asm!Fixed(238) \in FormType /\ Asm!NoForm \in FormType
  BY Forms
<1> QED
  BY <1>2, <1>3, <1>4, <1>5 DEF Asm!Form

\* The number of bytes of a line, .ORG's being those up to its target.
Size(l, at, target) ==
  IF l.op = "" THEN 0
  ELSE IF l.op = ".ORG" THEN target - at
  ELSE IF l.op = ".BYTE" THEN Len(l.args)
  ELSE IF l.op = ".WORD" THEN 2 * Len(l.args)
  ELSE 2

\* The value .ORG would go to; of other lines, nothing of interest.
Target(l, syms) == Asm!Value(l.args[1], syms)

LEMMA WordBytes ==
  ASSUME NEW word \in Int
  PROVE  /\ Asm!BigEndian(word) \in Seq(Int) /\ Len(Asm!BigEndian(word)) = 2
         /\ \A k \in {1, 2} : Asm!BigEndian(word)[k] \in Int
<1>1. word \div 256 \in Int /\ word % 256 \in Int
  OBVIOUS
<1> QED
  BY <1>1 DEF Asm!BigEndian

LEMMA OrgBytes ==
  ASSUME NEW at \in Int, NEW v \in Int, at <= v
  PROVE  /\ [i \in 1 .. v - at |-> 0] \in Seq(Int)
         /\ Len([i \in 1 .. v - at |-> 0]) = v - at
<1>1. v - at \in Nat
  OBVIOUS
<1> QED
  BY <1>1

\* The bytes of each kind of line.
ByteOfByte(l, syms, i) == Asm!Value(l.args[i], syms)
ByteOfWord(l, syms, i) == Asm!BigEndian(Asm!Value(l.args[(i + 1) \div 2], syms))[2 - (i % 2)]
ByteBytes(l, syms) == [i \in DOMAIN l.args |-> ByteOfByte(l, syms, i)]
WordsBytes(l, syms) == [i \in 1 .. 2 * Len(l.args) |-> ByteOfWord(l, syms, i)]

LEMMA BytesNone ==
  ASSUME NEW l, NEW at, NEW syms, l.op = ""
  PROVE  Asm!Bytes(l, at, syms) = << >>
  BY Zenon DEF Asm!Bytes, Asm!IsInstruction, Asm!Directives

LEMMA BytesOrg ==
  ASSUME NEW l, NEW at, NEW syms, l.op = ".ORG"
  PROVE  Asm!Bytes(l, at, syms) = [i \in 1 .. Target(l, syms) - at |-> 0]
  BY Zenon DEF Asm!Bytes, Asm!IsInstruction, Asm!Directives, Target

LEMMA BytesByte ==
  ASSUME NEW l, NEW at, NEW syms, l.op = ".BYTE"
  PROVE  Asm!Bytes(l, at, syms) = ByteBytes(l, syms)
  BY Zenon DEF Asm!Bytes, Asm!IsInstruction, Asm!Directives, ByteBytes, ByteOfByte

LEMMA BytesWord ==
  ASSUME NEW l, NEW at, NEW syms, l.op = ".WORD"
  PROVE  Asm!Bytes(l, at, syms) = WordsBytes(l, syms)
  BY Zenon DEF Asm!Bytes, Asm!IsInstruction, Asm!Directives, WordsBytes, ByteOfWord

LEMMA BytesInstruction ==
  ASSUME NEW l, NEW at, NEW syms, Asm!IsInstruction(l)
  PROVE  Asm!Bytes(l, at, syms)
           = Asm!BigEndian(Asm!Form(l).word + Asm!Value(Asm!Form(l).operand, syms))
<1>1. l.op # "" /\ l.op # ".ORG" /\ l.op # ".BYTE" /\ l.op # ".WORD"
  BY DEF Asm!IsInstruction, Asm!Directives
<1> QED
  BY <1>1, Zenon DEF Asm!Bytes

LEMMA BytesAre ==
  ASSUME NEW l \in LineShape, ~Asm!Malformed(l), NEW at \in Int, NEW syms, IntValued(syms),
         l.op = ".ORG" => at <= Target(l, syms)
  PROVE  /\ Asm!Bytes(l, at, syms) \in Seq(Int)
         /\ Len(Asm!Bytes(l, at, syms)) = Size(l, at, Target(l, syms))
<1>1. PICK n \in Nat : n = Len(l.args)
  BY LineParts
<1>2. \A i \in 1 .. n : ByteOfByte(l, syms, i) \in Int
  BY <1>1, LineParts, ValueType DEF ByteOfByte
<1>3. CASE l.op = ""
  <2>1. Asm!Bytes(l, at, syms) = << >>
    BY <1>3, BytesNone, Zenon
  <2>2. Size(l, at, Target(l, syms)) = 0
    BY <1>3 DEF Size
  <2>3. << >> \in Seq(Int) /\ Len(<< >>) = 0
    OBVIOUS
  <2> QED
    BY <2>1, <2>2, <2>3
<1>4. CASE l.op = ".ORG"
  <2>1. n = 1
    BY <1>1, <1>4 DEF Asm!Malformed
  <2>2. Asm!Bytes(l, at, syms) = [i \in 1 .. Target(l, syms) - at |-> 0]
    BY <1>4, BytesOrg, Zenon
  <2>3. Target(l, syms) \in Int
    BY <1>2, <2>1 DEF Target, ByteOfByte
  <2>4. Size(l, at, Target(l, syms)) = Target(l, syms) - at
    BY <1>4 DEF Size
  <2> QED
    BY <1>4, <2>2, <2>3, <2>4, OrgBytes
<1>5. CASE l.op = ".BYTE"
  <2>1. Asm!Bytes(l, at, syms) = [i \in 1 .. n |-> ByteOfByte(l, syms, i)]
    <3>1. Asm!Bytes(l, at, syms) = ByteBytes(l, syms)
      BY <1>5, BytesByte
    <3>2. DOMAIN l.args = 1 .. n
      BY <1>1, LineParts
    <3> QED
      BY <3>1, <3>2 DEF ByteBytes
  <2>2. [i \in 1 .. n |-> ByteOfByte(l, syms, i)] \in Seq(Int) 
        /\ Len([i \in 1 .. n |-> ByteOfByte(l, syms, i)]) = n
    BY <1>2
  <2>3. Size(l, at, Target(l, syms)) = n
    BY <1>1, <1>5 DEF Size
  <2> QED
    BY <2>1, <2>2, <2>3
<1>6. CASE l.op = ".WORD"
  <2>1. Asm!Bytes(l, at, syms) = [i \in 1 .. 2 * n |-> ByteOfWord(l, syms, i)]
    <3>1. Asm!Bytes(l, at, syms) = WordsBytes(l, syms)
      BY <1>6, BytesWord
    <3> QED
      BY <1>1, <3>1 DEF WordsBytes
  <2>2. ASSUME NEW i \in 1 .. 2 * n
        PROVE  ByteOfWord(l, syms, i) \in Int
    <3>1. (i + 1) \div 2 \in 1 .. n
      OBVIOUS
    <3>2. 2 - (i % 2) \in {1, 2}
      OBVIOUS
    <3>3. ByteOfByte(l, syms, (i + 1) \div 2) \in Int
      BY <1>2, <3>1 DEF ByteOfByte
    <3> QED
      BY <3>2, <3>3, WordBytes DEF ByteOfWord, ByteOfByte
  <2>3. [i \in 1 .. 2 * n |-> ByteOfWord(l, syms, i)] \in Seq(Int) 
        /\ Len([i \in 1 .. 2 * n |-> ByteOfWord(l, syms, i)]) = 2 * n
    <3>1. 2 * n \in Nat
      OBVIOUS
    <3> QED
      BY <2>2, <3>1
  <2>4. Size(l, at, Target(l, syms)) = 2 * n
    BY <1>1, <1>6 DEF Size
  <2> QED
    BY <2>1, <2>3, <2>4
<1>7. CASE Asm!IsInstruction(l)
  <2>1. Asm!Form(l).word \in Int /\ Asm!Form(l).operand \in OperandShape
    BY FormTyped DEF FormType
  <2>2. Asm!Form(l).word + Asm!Value(Asm!Form(l).operand, syms) \in Int
    BY <2>1, ValueType
  <2>3. Asm!Bytes(l, at, syms)
          = Asm!BigEndian(Asm!Form(l).word + Asm!Value(Asm!Form(l).operand, syms))
    BY <1>7, BytesInstruction, Zenon
  <2>4. Size(l, at, Target(l, syms)) = 2
    BY <1>7 DEF Size, Asm!IsInstruction, Asm!Directives
  <2> QED
    BY <2>2, <2>3, <2>4, WordBytes
<1> QED
  BY <1>3, <1>4, <1>5, <1>6, <1>7 DEF Asm!IsInstruction, Asm!Directives

\* The places of neighbours.
LEMMA NextPlace ==
  ASSUME Sourced, NEW i \in 1 .. Len(source), ~Asm!Malformed(source[i]), Asm!Places[i] \in Int,
         NEW syms, IntValued(syms),
         source[i].op = ".ORG" => Target(source[i], syms) = Asm!Places[i + 1]
  PROVE  Asm!Places[i + 1] = Asm!Places[i] + Size(source[i], Asm!Places[i], Target(source[i], syms))
<1>1. PICK at \in Int : at = Asm!Places[i]
  OBVIOUS
<1>2. i \in Int /\ i + 1 # 1 /\ i + 1 - 1 = i
  OBVIOUS
<1>3. Asm!Places[i + 1] = PlaceOf(Asm!Places, i + 1)
  BY PlacesSolve
<1>4. source[i] \in LineShape
  BY LineTyped
<1>5. CASE source[i].op = ".ORG"
  <2>1. Len(source[i].args) = 1
    BY <1>5 DEF Asm!Malformed
  <2>2. source[i].args[1] \in OperandShape
    BY <1>4, <2>1, LineParts
  <2>3. PICK v \in Int : v = Target(source[i], syms)
    BY <2>2, ValueType DEF Target
  <2>4. Size(source[i], at, v) = v - at
    BY <1>5 DEF Size
  <2> QED
    BY <1>1, <1>5, <2>3, <2>4
<1>6. CASE source[i].op # ".ORG"
  <2>1. Asm!Places[i + 1] = Asm!Beyond(i, at)
    BY <1>1, <1>2, <1>3, <1>6 DEF PlaceOf
  <2>2. PICK n \in Nat : n = Len(source[i].args)
    BY <1>4, LineParts
  <2>3. CASE source[i].op = ""
    <3>1. Asm!Beyond(i, at) = at
      BY <2>2, <2>3 DEF Asm!Beyond, Asm!IsInstruction, Asm!Directives
    <3>2. Size(source[i], at, Target(source[i], syms)) = 0
      BY <2>2, <2>3 DEF Size
    <3> QED
      BY <1>1, <2>1, <3>1, <3>2
  <2>4. CASE source[i].op = ".BYTE"
    <3>1. Asm!Beyond(i, at) = at + n
      BY <2>2, <2>4 DEF Asm!Beyond, Asm!IsInstruction, Asm!Directives
    <3>2. Size(source[i], at, Target(source[i], syms)) = n
      BY <2>2, <2>4 DEF Size
    <3> QED
      BY <1>1, <2>1, <3>1, <3>2
  <2>5. CASE source[i].op = ".WORD"
    <3>1. Asm!Beyond(i, at) = at + 2 * n
      BY <2>2, <2>5 DEF Asm!Beyond, Asm!IsInstruction, Asm!Directives
    <3>2. Size(source[i], at, Target(source[i], syms)) = 2 * n
      BY <2>2, <2>5 DEF Size
    <3> QED
      BY <1>1, <2>1, <3>1, <3>2
  <2>6. CASE source[i].op \notin {"", ".ORG", ".BYTE", ".WORD"}
    <3>1. Asm!Beyond(i, at) = at + 2
      BY <2>6 DEF Asm!Beyond, Asm!IsInstruction, Asm!Directives
    <3>2. Size(source[i], at, Target(source[i], syms)) = 2
      BY <2>6 DEF Size
    <3> QED
      BY <1>1, <2>1, <3>1, <3>2
  <2> QED
    BY <1>6, <2>3, <2>4, <2>5, <2>6
<1> QED
  BY <1>5, <1>6

\* Where an .ORG goes.
LEMMA OrgPlace ==
  ASSUME Sourced, NEW i \in 1 .. Len(source), source[i].op = ".ORG"
  PROVE  Asm!Places[i + 1]
           = IF source[i].args[1].t = "number" THEN source[i].args[1].v
             ELSE IF \E j \in 1 .. i : source[j].label = source[i].args[1].v
             THEN Asm!Places[Asm!DefinedAt(source[i].args[1].v)]
             ELSE 0
<1>1. i \in Int /\ i + 1 # 1 /\ i + 1 - 1 = i
  OBVIOUS
<1>2. Asm!Places[i + 1] = PlaceOf(Asm!Places, i + 1)
  BY PlacesSolve
<1> QED
  BY <1>1, <1>2 DEF PlaceOf, Asm!OrgTarget

----------------------------------------------------------------------------
\* Symbols.

\* The labels of the first n lines, and what the first pass knows after them.
Known(n) == {source[i].label : i \in 1 .. n} \ {NoLabel}
SymbolsAfter(n) == [label \in Known(n) |-> Asm!Meaning[label]]

PlacesInside(n) == \A i \in 1 .. n : Asm!Places[i] \in ENTRYPOINT .. MEMORY_SIZE

LEMMA NoLabels == Asm!NoLabel = NoLabel
  BY DEF Asm!NoLabel, NoLabel

\* The assembler's module has a copy of this operator.
LEMMA Cardinalities == \A S : Asm!Cardinality(S) = Cardinality(S)
  BY DEF Asm!Cardinality, Cardinality

LEMMA KnownLabels ==
  ASSUME Sourced
  PROVE  /\ Known(Len(source)) = Asm!Labels
         /\ \A n \in 0 .. Len(source) : Known(n) \subseteq Asm!Labels
         /\ Known(0) = {}
         /\ IsFiniteSet(Asm!Labels) /\ Cardinality(Asm!Labels) \in Nat
<1>1. Len(source) \in Nat /\ DOMAIN source = 1 .. Len(source)
  BY DEF Sourced
<1>2. Asm!Labels = {source[i].label : i \in 1 .. Len(source)} \ {NoLabel}
  BY <1>1, NoLabels, Zenon DEF Asm!Labels, Asm!Lines
<1>3. \A n \in 0 .. Len(source) : 1 .. n \subseteq 1 .. Len(source)
  BY <1>1
<1>4. Known(Len(source)) = Asm!Labels
  BY <1>2 DEF Known
<1>5. \A n \in 0 .. Len(source) : Known(n) \subseteq Asm!Labels
  BY <1>2, <1>3 DEF Known
<1>6. Known(0) = {}
  BY DEF Known
<1>7. IsFiniteSet(Asm!Labels)
  <2> DEFINE g == [i \in 1 .. Len(source) |-> source[i].label]
             T == {source[i].label : i \in 1 .. Len(source)}
  <2>1. IsFiniteSet(1 .. Len(source))
    BY <1>1, FS_Interval
  <2>2. g \in Surjection(1 .. Len(source), T)
    BY DEF Surjection
  <2>3. IsFiniteSet(T)
    <3> HIDE DEF g, T
    <3> QED
      BY <2>1, <2>2, FS_Surjection
  <2>4. Asm!Labels \in SUBSET T
    BY <1>2
  <2> HIDE DEF T
  <2> QED
    BY <2>3, <2>4, FS_Subset
<1> QED
  BY <1>4, <1>5, <1>6, <1>7, FS_CardinalityType

LEMMA MeaningAt ==
  ASSUME Sourced, NEW j \in 1 .. Len(source), source[j].label # NoLabel
  PROVE  \E d \in 1 .. j :
           /\ source[d].label = source[j].label
           /\ \A k \in 1 .. d - 1 : source[k].label # source[j].label
           /\ Asm!DefinedAt(source[j].label) = d
           /\ Asm!Meaning[source[j].label] = Asm!Places[d]
<1>1. PICK d \in 1 .. j :
        /\ Asm!DefinedAt(source[j].label) = d
        /\ source[d].label = source[j].label
        /\ \A k \in 1 .. d - 1 : source[k].label # source[j].label
  BY FirstDefined
<1>2. source[j].label \in Known(Len(source))
  BY DEF Known
<1>3. source[j].label \in Asm!Labels
  BY <1>2, KnownLabels
<1>4. Asm!Meaning[source[j].label] = Asm!Places[Asm!DefinedAt(source[j].label)]
  BY <1>3 DEF Asm!Meaning
<1> QED
  BY <1>1, <1>4

LEMMA SymbolsTyped ==
  ASSUME Sourced, NEW n \in 0 .. Len(source), PlacesInside(n)
  PROVE  /\ IntValued(SymbolsAfter(n)) /\ DOMAIN SymbolsAfter(n) = Known(n)
         /\ \A label \in Known(n) : /\ SymbolsAfter(n)[label] = Asm!Meaning[label]
                                    /\ Asm!Meaning[label] \in ENTRYPOINT .. MEMORY_SIZE
<1>1. ASSUME NEW label \in Known(n)
      PROVE  Asm!Meaning[label] \in ENTRYPOINT .. MEMORY_SIZE
  <2>1. PICK j \in 1 .. n : label = source[j].label /\ label # NoLabel
    BY DEF Known
  <2>2. j \in 1 .. Len(source)
    OBVIOUS
  <2>3. PICK d \in 1 .. j : Asm!Meaning[label] = Asm!Places[d]
    BY <2>1, <2>2, MeaningAt
  <2>4. d \in 1 .. n
    OBVIOUS
  <2> QED
    BY <2>3, <2>4 DEF PlacesInside
<1>2. DOMAIN SymbolsAfter(n) = Known(n)
  BY DEF SymbolsAfter
<1>3. \A label \in Known(n) : SymbolsAfter(n)[label] = Asm!Meaning[label]
  BY DEF SymbolsAfter
<1>4. ENTRYPOINT .. MEMORY_SIZE \subseteq Int
  BY Sizes
<1> QED
  BY <1>1, <1>2, <1>3, <1>4 DEF IntValued

LEMMA AllSymbols ==
  ASSUME Sourced
  PROVE  SymbolsAfter(Len(source)) = Asm!Meaning
<1>1. Known(Len(source)) = Asm!Labels
  BY KnownLabels
<1>2. Asm!Meaning = [label \in Asm!Labels |-> Asm!Meaning[label]]
  BY DEF Asm!Meaning
<1> QED
  BY <1>1, <1>2 DEF SymbolsAfter

\* A new label is the place of its line.
LEMMA OneMoreLine ==
  ASSUME Sourced, NEW n \in 1 .. Len(source)
  PROVE  Known(n) = (Known(n - 1) \cup {source[n].label}) \ {NoLabel}
<1>1. 1 .. n = (1 .. n - 1) \cup {n}
  OBVIOUS
<1> QED
  BY <1>1 DEF Known

LEMMA LabelPlaced ==
  ASSUME Sourced, line \in 1 .. Len(source), symbols = SymbolsAfter(line - 1),
         asm_pc = Asm!Places[line],
         source[line].label = NoLabel \/ source[line].label \notin Known(line - 1)
  PROVE  Asm!WithLabel = SymbolsAfter(line)
<1> DEFINE label == source[line].label
<1>1. Known(line) = (Known(line - 1) \cup {label}) \ {NoLabel}
  BY OneMoreLine
<1>2. DOMAIN symbols = Known(line - 1) /\ NoLabel \notin Known(line - 1)
  BY DEF SymbolsAfter, Known
<1>3. CASE label = NoLabel
  <2>1. Known(line) = Known(line - 1)
    BY <1>1, <1>2, <1>3
  <2>2. Asm!WithLabel = symbols
    BY <1>3, NoLabels DEF Asm!WithLabel, Asm!Line
  <2> QED
    BY <2>1, <2>2 DEF SymbolsAfter
<1>4. CASE label # NoLabel
  <2>1. Known(line) = Known(line - 1) \cup {label}
    BY <1>1, <1>2, <1>4
  <2>2. Asm!WithLabel = [l \in Known(line) |-> IF l = label THEN asm_pc ELSE symbols[l]]
    BY <1>2, <1>4, <2>1, NoLabels DEF Asm!WithLabel, Asm!Line
  <2>3. label \notin Known(line - 1)
    BY <1>4
  <2>4. Asm!Meaning[label] = asm_pc
    <3>1. PICK d \in 1 .. line : /\ source[d].label = label
                                 /\ Asm!Meaning[label] = Asm!Places[d]
      BY <1>4, MeaningAt
    <3>2. d \notin 1 .. line - 1
      BY <1>4, <2>3, <3>1 DEF Known
    <3>3. d = line
      BY <3>2
    <3> QED
      BY <3>1, <3>3
  <2>5. \A l \in Known(line - 1) : symbols[l] = Asm!Meaning[l] /\ l # label
    BY <2>3 DEF SymbolsAfter
  <2>6. \A l \in Known(line) :
          (IF l = label THEN asm_pc ELSE symbols[l]) = Asm!Meaning[l]
    BY <2>1, <2>4, <2>5
  <2> HIDE DEF label
  <2> QED
    BY <2>2, <2>6 DEF SymbolsAfter
<1> QED
  BY <1>3, <1>4

----------------------------------------------------------------------------
\* What the first pass has checked of a line.

Sound(i) ==
  /\ ~Asm!Malformed(source[i])
  /\ Asm!Places[i] \in ENTRYPOINT .. MEMORY_SIZE
  /\ Asm!Places[i + 1] \in Asm!Places[i] .. MEMORY_SIZE
  /\ source[i].label = NoLabel \/ source[i].label \notin Known(i - 1)
  /\ source[i].op = ".ORG" => Target(source[i], Asm!Meaning) = Asm!Places[i + 1]

SoundUpTo(n) == \A i \in 1 .. n : Sound(i)

\* An .ORG line, its operand taken apart.
LEMMA OrgLine ==
  ASSUME NEW l \in LineShape, l.op = ".ORG", ~Asm!Malformed(l), NEW at, NEW syms,
         NEW resolve \in BOOLEAN
  PROVE  /\ l.args[1] \in OperandShape
         /\ Asm!Rejects(l, at, syms, resolve) <=>
              \/ ~Asm!Admitted(Target(l, syms), l, at)
              \/ resolve /\ ~Asm!Defined(l.args[1], syms)
<1>1. Len(l.args) = 1 /\ DOMAIN l.args = 1 .. Len(l.args)
  BY LineParts DEF Asm!Malformed
<1>2. l.args[1] \in OperandShape
  BY <1>1, LineParts
<1>3. ~Asm!IsInstruction(l)
  BY DEF Asm!IsInstruction, Asm!Directives
<1>4. Asm!Values(l) = l.args
  BY <1>3 DEF Asm!Values
<1>5. \A i : i \in DOMAIN l.args <=> i = 1
  BY <1>1
<1> QED
  BY <1>2, <1>4, <1>5, Zenon DEF Asm!Rejects, Target

\* Where an .ORG goes that the first pass admits: what it takes for the
\* operand's value is the value the source means.
LEMMA OrgSame ==
  ASSUME Sourced, NEW i \in 1 .. Len(source), source[i].op = ".ORG",
         ~Asm!Malformed(source[i]), Target(source[i], SymbolsAfter(i)) # 0
  PROVE  /\ Asm!Places[i + 1] = Target(source[i], SymbolsAfter(i))
         /\ Target(source[i], Asm!Meaning) = Asm!Places[i + 1]
<1> DEFINE o == source[i].args[1]
<1>1. CASE o.t = "number"
  BY <1>1, OrgPlace DEF Target, Asm!Value
<1>2. CASE o.t # "number"
  <2>1. o.t = "name" /\ o.v \in Known(i)
    BY <1>2 DEF Target, Asm!Value, Asm!Defined, SymbolsAfter
  <2>2. PICK j \in 1 .. i : source[j].label = o.v /\ o.v # NoLabel
    BY <2>1 DEF Known
  <2>3. j \in 1 .. Len(source)
    OBVIOUS
  <2>4. o.v \in Asm!Labels
    <3>1. o.v \in Known(Len(source))
      BY <2>2, <2>3 DEF Known
    <3> QED
      BY <3>1, KnownLabels
  <2>5. Asm!Meaning[o.v] = Asm!Places[Asm!DefinedAt(o.v)] /\ DOMAIN Asm!Meaning = Asm!Labels
    BY <2>4 DEF Asm!Meaning
  <2>6. Target(source[i], Asm!Meaning) = Asm!Meaning[o.v]
    BY <1>2, <2>1, <2>4, <2>5 DEF Target, Asm!Value, Asm!Defined
  <2>7. Target(source[i], SymbolsAfter(i)) = Asm!Meaning[o.v]
    BY <1>2, <2>1 DEF Target, Asm!Value, Asm!Defined, SymbolsAfter
  <2>8. Asm!Places[i + 1] = Asm!Places[Asm!DefinedAt(o.v)]
    BY <1>2, <2>2, OrgPlace
  <2> QED
    BY <2>5, <2>6, <2>7, <2>8
<1> QED
  BY <1>1, <1>2

\* A line the first pass does not reject reaches to the place of the next.
LEMMA FirstAfter ==
  ASSUME Sourced, NEW i \in 1 .. Len(source), PlacesInside(i),
         ~Asm!Rejects(source[i], Asm!Places[i], SymbolsAfter(i), FALSE)
  PROVE  /\ ~Asm!Malformed(source[i])
         /\ Asm!Places[i + 1] \in Int /\ Asm!Places[i + 1] >= Asm!Places[i]
         /\ source[i].op = ".ORG" => Target(source[i], Asm!Meaning) = Asm!Places[i + 1]
         /\ Asm!Places[i] + Len(Asm!Bytes(source[i], Asm!Places[i], SymbolsAfter(i)))
              = Asm!Places[i + 1]
<1>1. source[i] \in LineShape
  BY LineTyped
<1>2. ~Asm!Malformed(source[i])
  BY DEF Asm!Rejects
<1>3. IntValued(SymbolsAfter(i))
  BY SymbolsTyped
<1>4. PICK at \in ENTRYPOINT .. MEMORY_SIZE : at = Asm!Places[i]
  BY DEF PlacesInside
<1>5. at \in Int /\ at > 0
  BY Sizes
<1>6. ASSUME source[i].op = ".ORG"
      PROVE  /\ Asm!Places[i + 1] = Target(source[i], SymbolsAfter(i))
             /\ Target(source[i], Asm!Meaning) = Asm!Places[i + 1]
             /\ Asm!Places[i + 1] >= at
  <2>1. Asm!Admitted(Target(source[i], SymbolsAfter(i)), source[i], at)
    BY <1>1, <1>2, <1>4, <1>6, OrgLine
  <2>2. PICK v \in Int : v = Target(source[i], SymbolsAfter(i)) /\ v >= at
    BY <1>1, <1>3, <1>6, <2>1, OrgLine, ValueType DEF Asm!Admitted, Target
  <2>3. v # 0
    BY <1>5, <2>2
  <2> QED
    BY <1>2, <1>6, <2>2, <2>3, OrgSame
<1>7. PICK n \in Nat : n = Len(Asm!Bytes(source[i], at, SymbolsAfter(i)))
                       /\ n = Size(source[i], at, Target(source[i], SymbolsAfter(i)))
  <2>1. source[i].op = ".ORG" => at <= Target(source[i], SymbolsAfter(i))
    BY <1>6
  <2>2. /\ Asm!Bytes(source[i], at, SymbolsAfter(i)) \in Seq(Int)
        /\ Len(Asm!Bytes(source[i], at, SymbolsAfter(i)))
             = Size(source[i], at, Target(source[i], SymbolsAfter(i)))
    BY <1>1, <1>2, <1>3, <1>5, <2>1, BytesAre
  <2>3. Len(Asm!Bytes(source[i], at, SymbolsAfter(i))) \in Nat
    BY <2>2
  <2> QED
    BY <2>2, <2>3
<1>8. Asm!Places[i + 1] = at + n
  BY <1>2, <1>3, <1>4, <1>5, <1>6, <1>7, NextPlace
<1> QED
  BY <1>2, <1>4, <1>5, <1>6, <1>7, <1>8

\* The second pass lays a sound line out between the same places.
LEMMA SoundBytes ==
  ASSUME Sourced, NEW i \in 1 .. Len(source), Sound(i), IntValued(Asm!Meaning)
  PROVE  /\ Asm!Bytes(source[i], Asm!Places[i], Asm!Meaning) \in Seq(Int)
         /\ Asm!Places[i] + Len(Asm!Bytes(source[i], Asm!Places[i], Asm!Meaning))
              = Asm!Places[i + 1]
<1>1. source[i] \in LineShape
  BY LineTyped
<1>2. PICK at \in Int, next \in Int :
        at = Asm!Places[i] /\ next = Asm!Places[i + 1] /\ at <= next
  BY Sizes DEF Sound
<1>3. source[i].op = ".ORG" => at <= Target(source[i], Asm!Meaning)
  BY <1>2 DEF Sound
<1>4. /\ Asm!Bytes(source[i], at, Asm!Meaning) \in Seq(Int)
      /\ Len(Asm!Bytes(source[i], at, Asm!Meaning))
           = Size(source[i], at, Target(source[i], Asm!Meaning))
  BY <1>1, <1>3, BytesAre DEF Sound
<1>5. next = at + Size(source[i], at, Target(source[i], Asm!Meaning))
  BY <1>2, NextPlace DEF Sound
<1> QED
  BY <1>2, <1>4, <1>5

----------------------------------------------------------------------------
\* The inductive invariant of the assembler.

FirstInv ==
  pass = "pass1" =>
    /\ symbols = SymbolsAfter(line - 1) /\ Cardinality(Known(line - 1)) <= MAX_SYMBOLS
    /\ asm_pc = Asm!Places[line] /\ asm_pc \in ENTRYPOINT .. MEMORY_SIZE
    /\ SoundUpTo(line - 1)
    /\ output = << >>

\* What has been written of line i, and is at its place.
Written(i) ==
  \A k \in DOMAIN Asm!Bytes(source[i], Asm!Places[i], Asm!Meaning) :
    output[Asm!Places[i] - ENTRYPOINT + k] = Asm!Bytes(source[i], Asm!Places[i], Asm!Meaning)[k]

SecondInv ==
  pass \in {"pass2", "done"} =>
    /\ symbols = Asm!Meaning /\ Cardinality(Asm!Labels) <= MAX_SYMBOLS
    /\ asm_pc = Asm!Places[line] /\ asm_pc \in ENTRYPOINT .. MEMORY_SIZE
    /\ SoundUpTo(Len(source))
    /\ pass = "done" => line = Len(source) + 1
    /\ output \in Seq(Int) /\ Len(output) = asm_pc - ENTRYPOINT
    /\ \A i \in 1 .. line - 1 :
         /\ ~Asm!Rejects(source[i], Asm!Places[i], Asm!Meaning, TRUE)
         /\ Asm!Places[i + 1] <= asm_pc
         /\ Written(i)

FailInv == pass = "failed" => ~Asm!WellFormed

AsmInv ==
  /\ pass \in {"pass1", "pass2", "done", "failed"}
  /\ Sourced
  /\ line \in 1 .. Len(source) + 1
  /\ FirstInv
  /\ SecondInv
  /\ FailInv

WaitingInv ==
  /\ source = << >> /\ line = 1 /\ asm_pc = ENTRYPOINT
  /\ symbols = [label \in {} |-> 0] /\ output = << >>

\* Places as a function of the source.
DefinedIn(src, label) ==
  CHOOSE i \in DOMAIN src : src[i].label = label /\ \A j \in 1 .. i - 1 : src[j].label # label

BeyondIn(src, i, place) ==
  IF Asm!IsInstruction(src[i]) THEN place + 2
  ELSE IF src[i].op = ".BYTE" THEN place + Len(src[i].args)
  ELSE IF src[i].op = ".WORD" THEN place + 2 * Len(src[i].args)
  ELSE place

PlacesIn(src) ==
  CHOOSE p :
    p = [i \in 1 .. Len(src) + 1 |->
           IF i = 1 THEN ENTRYPOINT
           ELSE IF src[i - 1].op # ".ORG" THEN BeyondIn(src, i - 1, p[i - 1])
           ELSE IF src[i - 1].args[1].t = "number" THEN src[i - 1].args[1].v
           ELSE IF \E j \in 1 .. i - 1 : src[j].label = src[i - 1].args[1].v
                THEN p[DefinedIn(src, src[i - 1].args[1].v)]
                ELSE 0]

LEMMA PlacesFrom == Asm!Places = PlacesIn(source) /\ Asm!Places' = PlacesIn(source')
<1>1. Asm!Places = PlacesIn(source)
  BY DEF Asm!Places, PlacesIn, Asm!Beyond, BeyondIn, Asm!OrgTarget, Asm!DefinedAt, Asm!Lines,
         DefinedIn
<1>2. Asm!Places' = PlacesIn(source')
  BY DEF Asm!Places, PlacesIn, Asm!Beyond, BeyondIn, Asm!OrgTarget, Asm!DefinedAt, Asm!Lines,
         DefinedIn
<1> QED
  BY <1>1, <1>2

\* The source stays the same, and with it what it means.
LEMMA SameSource ==
  ASSUME UNCHANGED source
  PROVE  /\ Asm!Places' = Asm!Places /\ Asm!Meaning' = Asm!Meaning /\ Asm!Labels' = Asm!Labels
         /\ Sourced' = Sourced /\ Asm!WellFormed' = Asm!WellFormed
         /\ \A n : /\ Known(n)' = Known(n) /\ SymbolsAfter(n)' = SymbolsAfter(n)
                   /\ Sound(n)' = Sound(n) /\ SoundUpTo(n)' = SoundUpTo(n)
<1>1. Asm!Lines' = Asm!Lines
  BY DEF Asm!Lines
<1>2. Asm!Labels' = Asm!Labels
  BY <1>1 DEF Asm!Labels
<1>3. \A label : Asm!DefinedAt(label)' = Asm!DefinedAt(label)
  BY <1>1 DEF Asm!DefinedAt
<1>4. Asm!Places' = Asm!Places
  BY PlacesFrom
<1>5. Asm!Meaning' = Asm!Meaning
  BY <1>2, <1>3, <1>4 DEF Asm!Meaning
<1>6. \A n : Known(n)' = Known(n)
  BY DEF Known
<1>7. \A n : SymbolsAfter(n)' = SymbolsAfter(n)
  BY <1>5, <1>6 DEF SymbolsAfter
<1>8. \A n : Sound(n)' = Sound(n)
  BY <1>4, <1>5, <1>6 DEF Sound
<1>9. \A n : SoundUpTo(n)' = SoundUpTo(n)
  BY <1>8 DEF SoundUpTo
<1>10. Sourced' = Sourced
  BY DEF Sourced
<1>11. Asm!WellFormed' = Asm!WellFormed
  BY <1>1, <1>2, <1>4, <1>5 DEF Asm!WellFormed
<1> QED
  BY <1>2, <1>4, <1>5, <1>6, <1>7, <1>8, <1>9, <1>10, <1>11

----------------------------------------------------------------------------
\* The first pass.

LEMMA SoundPlaces ==
  ASSUME Sourced, NEW n \in 0 .. Len(source), SoundUpTo(n)
  PROVE  PlacesInside(n + 1) /\ PlacesInside(n)
<1>1. n \in Nat /\ Asm!Places[1] = ENTRYPOINT /\ ENTRYPOINT \in ENTRYPOINT .. MEMORY_SIZE
  BY PlacesSolve, Sizes
<1>2. ASSUME NEW i \in 1 .. n + 1
      PROVE  Asm!Places[i] \in ENTRYPOINT .. MEMORY_SIZE
  <2>1. CASE i = 1
    BY <1>1, <2>1
  <2>2. CASE i # 1
    <3>1. PICK j \in 1 .. n : i = j + 1
      <4>1. i - 1 \in 1 .. n /\ i = (i - 1) + 1
        BY <1>1, <2>2
      <4> QED
        BY <4>1
    <3>2. PICK a \in ENTRYPOINT .. MEMORY_SIZE : a = Asm!Places[j]
      BY DEF SoundUpTo, Sound
    <3>3. Asm!Places[j + 1] \in a .. MEMORY_SIZE
      BY <3>2 DEF SoundUpTo, Sound
    <3>4. a .. MEMORY_SIZE \subseteq ENTRYPOINT .. MEMORY_SIZE
      BY Sizes
    <3> QED
      BY <3>1, <3>3, <3>4
  <2> QED
    BY <2>1, <2>2
<1>3. 1 .. n \subseteq 1 .. n + 1
  BY <1>1
<1> QED
  BY <1>2, <1>3 DEF PlacesInside

\* What FirstInv says of the line the first pass reads.
LEMMA FirstReading ==
  ASSUME AsmInv, Asm!Reading("pass1")
  PROVE  /\ pass = "pass1" /\ line \in 1 .. Len(source) /\ Len(source) \in Nat
         /\ line - 1 \in 0 .. Len(source) /\ (line - 1) + 1 = line
         /\ PlacesInside(line) /\ SoundUpTo(line - 1)
         /\ DOMAIN symbols = Known(line - 1)
         /\ symbols = SymbolsAfter(line - 1)
         /\ asm_pc = Asm!Places[line] /\ asm_pc \in ENTRYPOINT .. MEMORY_SIZE
         /\ IsFiniteSet(Known(line - 1)) /\ Cardinality(Known(line - 1)) \in Nat
         /\ Cardinality(Known(line - 1)) <= MAX_SYMBOLS
<1>1. /\ pass = "pass1" /\ line \in 1 .. Len(source) /\ Len(source) \in Nat /\ Sourced
      /\ line - 1 \in 0 .. Len(source) /\ (line - 1) + 1 = line
  BY DEF AsmInv, Asm!Reading, Sourced
<1>2. /\ symbols = SymbolsAfter(line - 1) /\ Cardinality(Known(line - 1)) <= MAX_SYMBOLS
      /\ asm_pc = Asm!Places[line] /\ asm_pc \in ENTRYPOINT .. MEMORY_SIZE
      /\ SoundUpTo(line - 1)
  BY <1>1 DEF AsmInv, FirstInv
<1>3. PlacesInside(line)
  BY <1>1, <1>2, SoundPlaces
<1>4. IsFiniteSet(Known(line - 1)) /\ Cardinality(Known(line - 1)) \in Nat
  <2>1. Known(line - 1) \in SUBSET Asm!Labels
    BY <1>1, KnownLabels
  <2> QED
    BY <1>1, <2>1, KnownLabels, FS_Subset, FS_CardinalityType
<1>5. DOMAIN symbols = Known(line - 1)
  BY <1>2 DEF SymbolsAfter
<1> QED
  BY <1>1, <1>2, <1>3, <1>4, <1>5

LEMMA FirstLayOut ==
  ASSUME AsmInv, Asm!LayOut
  PROVE  AsmInv'
<1>1. Asm!Reading("pass1") /\ ~Asm!Undefinable /\ UNCHANGED source
  BY DEF Asm!LayOut
<1>2. Sourced
  BY DEF AsmInv
<1>3. source[line].label = NoLabel \/ /\ source[line].label \notin Known(line - 1)
                                      /\ Cardinality(Known(line - 1)) # MAX_SYMBOLS
  <2>1. DOMAIN symbols = Known(line - 1)
    BY <1>1, FirstReading
  <2>2. ~(/\ source[line].label # NoLabel
          /\ \/ source[line].label \in DOMAIN symbols
             \/ Cardinality(DOMAIN symbols) = MAX_SYMBOLS)
    BY <1>1, NoLabels, Cardinalities, Zenon DEF Asm!Undefinable, Asm!Line
  <2> QED
    BY <2>1, <2>2, Zenon
<1>4. Asm!WithLabel = SymbolsAfter(line)
  BY <1>1, <1>2, <1>3, FirstReading, LabelPlaced
<1>5. ~Asm!Rejects(source[line], Asm!Places[line], SymbolsAfter(line), FALSE)
  BY <1>1, <1>4, FirstReading DEF Asm!LayOut, Asm!Line
<1>6. /\ ~Asm!Malformed(source[line])
      /\ Asm!Places[line + 1] \in Int /\ Asm!Places[line + 1] >= Asm!Places[line]
      /\ source[line].op = ".ORG" => Target(source[line], Asm!Meaning) = Asm!Places[line + 1]
      /\ Asm!Places[line] + Len(Asm!Bytes(source[line], Asm!Places[line], SymbolsAfter(line)))
           = Asm!Places[line + 1]
  BY <1>1, <1>2, <1>5, FirstReading, FirstAfter
<1>7. Asm!After = Asm!Places[line + 1]
  BY <1>1, <1>4, <1>6, FirstReading DEF Asm!After, Asm!Line
<1>8. Asm!Places[line + 1] \in Asm!Places[line] .. MEMORY_SIZE
  <2>1. PICK a \in Int, b \in Int : a = Asm!Places[line] /\ b = Asm!Places[line + 1]
    BY <1>1, <1>6, FirstReading, Sizes
  <2>2. b <= MEMORY_SIZE /\ a <= b
    BY <1>6, <1>7, <2>1 DEF Asm!LayOut
  <2> QED
    BY <2>1, <2>2, Sizes
<1>9. Sound(line)
  <2>1. Asm!Places[line] \in ENTRYPOINT .. MEMORY_SIZE
    BY <1>1, FirstReading
  <2> QED
    BY <1>3, <1>6, <1>8, <2>1 DEF Sound
<1>10. SoundUpTo(line)
  <2>1. \A i \in 1 .. line : i = line \/ i \in 1 .. line - 1
    BY <1>1, FirstReading
  <2> QED
    BY <1>1, <1>9, <2>1, FirstReading DEF SoundUpTo
<1>11. Cardinality(Known(line)) <= MAX_SYMBOLS
  <2>1. Known(line) = (Known(line - 1) \cup {source[line].label}) \ {NoLabel}
    BY <1>1, <1>2, FirstReading, OneMoreLine
  <2>2. NoLabel \notin Known(line - 1)
    BY DEF Known
  <2>3. CASE source[line].label = NoLabel
    <3>1. Known(line) = Known(line - 1)
      BY <2>1, <2>2, <2>3
    <3> QED
      BY <1>1, <3>1, FirstReading
  <2>4. CASE source[line].label # NoLabel
    <3>1. Known(line) = Known(line - 1) \cup {source[line].label}
      BY <2>1, <2>2, <2>4
    <3>2. Cardinality(Known(line)) = Cardinality(Known(line - 1)) + 1
      BY <1>1, <1>3, <2>4, <3>1, FirstReading, FS_AddElement
    <3>3. PICK k \in Nat : k = Cardinality(Known(line - 1)) /\ k <= MAX_SYMBOLS /\ k # MAX_SYMBOLS
      BY <1>1, <1>3, <2>4, FirstReading
    <3>4. k + 1 <= MAX_SYMBOLS
      BY <3>3, SymbolsAssumption
    <3> QED
      BY <3>2, <3>3, <3>4, Zenon
  <2> QED
    BY <2>3, <2>4
<1>12. /\ pass' = "pass1" /\ line' = line + 1 /\ line' - 1 = line
       /\ line' \in 1 .. Len(source) + 1
       /\ symbols' = SymbolsAfter(line) /\ asm_pc' = Asm!Places[line + 1]
       /\ output' = << >>
  BY <1>1, <1>4, <1>7, FirstReading DEF Asm!LayOut, AsmInv, FirstInv
<1>13. Asm!Places[line + 1] \in ENTRYPOINT .. MEMORY_SIZE
  BY <1>1, <1>8, FirstReading, Sizes
<1>14. FirstInv'
  BY <1>1, <1>10, <1>11, <1>12, <1>13, SameSource DEF FirstInv
<1>15. SecondInv' /\ FailInv'
  BY <1>12 DEF SecondInv, FailInv
<1> QED
  BY <1>1, <1>2, <1>12, <1>14, <1>15, SameSource DEF AsmInv

\* Where the first pass fails, the source is not well-formed.
LEMMA WellFormedLine ==
  ASSUME Asm!WellFormed, Sourced, NEW i \in 1 .. Len(source)
  PROVE  /\ ~Asm!Malformed(source[i])
         /\ ~Asm!Rejects(source[i], Asm!Places[i], Asm!Meaning, TRUE)
         /\ source[i].op = ".ORG" => Asm!Places[i + 1] >= Asm!Places[i]
         /\ Asm!Places[i + 1] <= MEMORY_SIZE
         /\ \A j \in 1 .. Len(source) :
              source[i].label = source[j].label /\ i # j => source[i].label = NoLabel
<1>1. DOMAIN source = 1 .. Len(source)
  BY DEF Sourced
<1> QED
  BY <1>1, NoLabels DEF Asm!WellFormed, Asm!Lines

LEMMA FailDefine ==
  ASSUME AsmInv, Asm!Reading("pass1"), Asm!Undefinable
  PROVE  ~Asm!WellFormed
<1> SUFFICES ASSUME Asm!WellFormed
             PROVE  FALSE
  OBVIOUS
<1> DEFINE label == source[line].label
<1>1. Sourced
  BY DEF AsmInv
<1>2. /\ label # NoLabel
      /\ label \in Known(line - 1) \/ Cardinality(Known(line - 1)) = MAX_SYMBOLS
  <2>1. DOMAIN symbols = Known(line - 1)
    BY FirstReading
  <2>2. /\ label # NoLabel
        /\ label \in DOMAIN symbols \/ Cardinality(DOMAIN symbols) = MAX_SYMBOLS
    BY NoLabels, Cardinalities, Zenon DEF Asm!Undefinable, Asm!Line
  <2> QED
    BY <2>1, <2>2, Zenon
<1>3. label \notin Known(line - 1)
  <2>1. ASSUME NEW j \in 1 .. line - 1
        PROVE  source[j].label # label
    <3>1. j \in 1 .. Len(source) /\ j # line
      BY FirstReading
    <3> QED
      BY <1>1, <1>2, <3>1, FirstReading, WellFormedLine
  <2> QED
    BY <2>1 DEF Known
<1>4. Known(line) = Known(line - 1) \cup {label}
  <2>1. Known(line) = (Known(line - 1) \cup {label}) \ {NoLabel}
    BY <1>1, FirstReading, OneMoreLine
  <2>2. NoLabel \notin Known(line - 1)
    BY DEF Known
  <2> QED
    BY <1>2, <2>1, <2>2
<1>5. Cardinality(Known(line)) = MAX_SYMBOLS + 1
  <2>1. /\ IsFiniteSet(Known(line - 1)) /\ Cardinality(Known(line - 1)) = MAX_SYMBOLS
    BY <1>2, <1>3, FirstReading
  <2> HIDE DEF label
  <2> QED
    BY <1>3, <1>4, <2>1, FS_AddElement
<1>6. Cardinality(Known(line)) <= Cardinality(Asm!Labels)
  <2>1. line \in 0 .. Len(source)
    BY FirstReading
  <2>2. Known(line) \in SUBSET Asm!Labels
    BY <1>1, <2>1, KnownLabels
  <2> QED
    BY <1>1, <2>2, KnownLabels, FS_Subset
<1>7. Cardinality(Asm!Labels) <= MAX_SYMBOLS
  BY Cardinalities, Zenon DEF Asm!WellFormed
<1> QED
  BY <1>1, <1>5, <1>6, <1>7, KnownLabels, SymbolsAssumption

\* A value the first pass takes for 0 is admitted, but for .ORG.
LEMMA ZeroAdmitted ==
  ASSUME NEW l \in LineShape, l.op # ".ORG", NEW at
  PROVE  Asm!Admitted(0, l, at)
<1>1. Asm!Form(l).max \in Nat
  BY FormTyped DEF FormType
<1>2. 0 <= Asm!Form(l).max
  BY <1>1
<1>3. 0 \in Asm!WordValues
  BY DEF Asm!WordValues
<1>4. 0 <= 255
  OBVIOUS
<1> QED
  BY <1>2, <1>3, <1>4, Zenon DEF Asm!Admitted

LEMMA ValuesRejected ==
  ASSUME NEW l, ~Asm!Malformed(l), NEW at, NEW syms, NEW resolve \in BOOLEAN
  PROVE  Asm!Rejects(l, at, syms, resolve) <=>
           \E i \in DOMAIN Asm!Values(l) :
             \/ ~Asm!Admitted(Asm!Value(Asm!Values(l)[i], syms), l, at)
             \/ resolve /\ ~Asm!Defined(Asm!Values(l)[i], syms)
  BY DEF Asm!Rejects

LEMMA FailRejected ==
  ASSUME AsmInv, Asm!Reading("pass1"), ~Asm!Undefinable,
         Asm!Rejects(source[line], asm_pc, Asm!WithLabel, FALSE)
  PROVE  ~Asm!WellFormed
<1> SUFFICES ASSUME Asm!WellFormed
             PROVE  FALSE
  OBVIOUS
<1> DEFINE l == source[line]
           at == Asm!Places[line]
<1>1. Sourced /\ l \in LineShape
  BY FirstReading, LineTyped DEF AsmInv
<1>2. source[line].label = NoLabel \/ source[line].label \notin Known(line - 1)
  <2>1. DOMAIN symbols = Known(line - 1)
    BY FirstReading
  <2>2. ~(source[line].label # NoLabel /\ source[line].label \in DOMAIN symbols)
    BY NoLabels, Cardinalities, Zenon DEF Asm!Undefinable, Asm!Line
  <2> QED
    BY <2>1, <2>2, Zenon
<1>3. Asm!WithLabel = SymbolsAfter(line)
  BY <1>1, <1>2, FirstReading, LabelPlaced
<1>4. Asm!Rejects(l, at, SymbolsAfter(line), FALSE)
  BY <1>3, FirstReading
<1>5. ~Asm!Malformed(l) /\ ~Asm!Rejects(l, at, Asm!Meaning, TRUE)
  BY <1>1, FirstReading, WellFormedLine
<1>6. PICK i \in DOMAIN Asm!Values(l) :
        ~Asm!Admitted(Asm!Value(Asm!Values(l)[i], SymbolsAfter(line)), l, at)
  BY <1>4, <1>5, ValuesRejected
<1> DEFINE o == Asm!Values(l)[i]
<1>7. Asm!Admitted(Asm!Value(o, Asm!Meaning), l, at) /\ Asm!Defined(o, Asm!Meaning)
  BY <1>5, ValuesRejected
<1> HIDE DEF o, at
<1>8. o.t = "name" /\ o.v \in Asm!Labels /\ o.v \notin Known(line)
  <2>1. Asm!Value(o, SymbolsAfter(line)) # Asm!Value(o, Asm!Meaning)
    BY <1>6, <1>7 DEF o
  <2>2. o.t # "number"
    BY <2>1 DEF Asm!Value
  <2>3. o.t = "name" /\ o.v \in Asm!Labels
    BY <1>7, <2>2 DEF Asm!Defined, Asm!Meaning
  <2>4. ASSUME o.v \in Known(line)
        PROVE  FALSE
    <3>1. Asm!Value(o, SymbolsAfter(line)) = SymbolsAfter(line)[o.v]
      BY <2>2, <2>3, <2>4 DEF Asm!Value, Asm!Defined, SymbolsAfter
    <3>2. SymbolsAfter(line)[o.v] = Asm!Meaning[o.v]
      BY <2>4 DEF SymbolsAfter
    <3>3. Asm!Value(o, Asm!Meaning) = Asm!Meaning[o.v]
      BY <1>7, <2>2 DEF Asm!Value
    <3> QED
      BY <2>1, <3>1, <3>2, <3>3
  <2> QED
    BY <2>3, <2>4
<1>9. l.op = ".ORG"
  <2>1. Asm!Value(o, SymbolsAfter(line)) = 0
    BY <1>8 DEF Asm!Value, Asm!Defined, SymbolsAfter
  <2> QED
    BY <1>1, <1>6, <2>1, ZeroAdmitted DEF o
<1>10. o = l.args[1]
  <2>1. Len(l.args) = 1 /\ DOMAIN l.args = 1 .. Len(l.args)
    BY <1>1, <1>5, <1>9, LineParts DEF Asm!Malformed
  <2>2. Asm!Values(l) = l.args
    BY <1>9 DEF Asm!Values, Asm!IsInstruction, Asm!Directives
  <2>3. i = 1
    BY <2>1, <2>2
  <2> QED
    BY <2>2, <2>3 DEF o
<1>11. Asm!Places[line + 1] = 0
  <2>1. ~ \E j \in 1 .. line : source[j].label = o.v
    <3>1. o.v # NoLabel
      BY <1>8, NoLabels DEF Asm!Labels
    <3> QED
      BY <1>8, <3>1 DEF Known
  <2> QED
    BY <1>1, <1>8, <1>9, <1>10, <2>1, FirstReading, OrgPlace
<1>12. Asm!Places[line + 1] >= Asm!Places[line]
  BY <1>1, <1>9, FirstReading, WellFormedLine
<1> QED
  BY <1>11, <1>12, FirstReading, Sizes

LEMMA FirstFail ==
  ASSUME AsmInv, Asm!FailFirst
  PROVE  AsmInv'
<1>1. Asm!Reading("pass1") /\ UNCHANGED source
  BY DEF Asm!FailFirst
<1>2. ~Asm!WellFormed
  <2>1. CASE Asm!Undefinable
    BY <1>1, <2>1, FailDefine
  <2>2. CASE ~Asm!Undefinable /\ Asm!Rejects(source[line], asm_pc, Asm!WithLabel, FALSE)
    BY <1>1, <2>2, FailRejected
  <2>3. CASE /\ ~Asm!Undefinable /\ ~Asm!Rejects(source[line], asm_pc, Asm!WithLabel, FALSE)
             /\ Asm!After > MEMORY_SIZE
    <3>1. Sourced
      BY DEF AsmInv
    <3>2. source[line].label = NoLabel \/ source[line].label \notin Known(line - 1)
      <4>1. DOMAIN symbols = Known(line - 1)
        BY <1>1, FirstReading
      <4>2. ~(source[line].label # NoLabel /\ source[line].label \in DOMAIN symbols)
        BY <2>3, NoLabels, Cardinalities, Zenon DEF Asm!Undefinable, Asm!Line
      <4> QED
        BY <4>1, <4>2, Zenon
    <3>3. Asm!WithLabel = SymbolsAfter(line)
      BY <1>1, <3>1, <3>2, FirstReading, LabelPlaced
    <3>4. /\ Asm!Places[line + 1] \in Int
          /\ Asm!Places[line] + Len(Asm!Bytes(source[line], Asm!Places[line], SymbolsAfter(line)))
               = Asm!Places[line + 1]
      BY <1>1, <2>3, <3>1, <3>3, FirstReading, FirstAfter
    <3>5. Asm!After = Asm!Places[line + 1]
      BY <1>1, <3>3, <3>4, FirstReading DEF Asm!After, Asm!Line
    <3>6. Asm!WellFormed => Asm!Places[line + 1] <= MEMORY_SIZE
      BY <1>1, <3>1, FirstReading, WellFormedLine
    <3> QED
      BY <2>3, <3>4, <3>5, <3>6, Sizes
  <2> QED
    BY <2>1, <2>2, <2>3 DEF Asm!FailFirst, Asm!Line
<1>3. pass' = "failed" /\ line' = line
  BY DEF Asm!FailFirst
<1> QED
  BY <1>1, <1>2, <1>3, SameSource DEF AsmInv, FirstInv, SecondInv, FailInv

----------------------------------------------------------------------------
\* The second pass.

LEMMA Rewound ==
  ASSUME AsmInv, Asm!Rewind
  PROVE  AsmInv'
<1>1. pass = "pass1" /\ line = Len(source) + 1 /\ line - 1 = Len(source)
  BY DEF AsmInv, Asm!Rewind, Sourced
<1>2. /\ UNCHANGED source /\ pass' = "pass2" /\ line' = 1 /\ asm_pc' = ENTRYPOINT
      /\ symbols' = symbols /\ output' = output
  BY DEF Asm!Rewind
<1>3. Sourced /\ Len(source) \in Nat /\ 1 \in 1 .. Len(source) + 1
  BY DEF AsmInv, Sourced
<1>4. symbols = Asm!Meaning /\ SoundUpTo(Len(source)) /\ output = << >>
  BY <1>1, <1>3, AllSymbols DEF AsmInv, FirstInv
<1>5. Cardinality(Asm!Labels) <= MAX_SYMBOLS
  BY <1>1, <1>3, KnownLabels DEF AsmInv, FirstInv
<1>6. asm_pc' = Asm!Places[1] /\ ENTRYPOINT \in ENTRYPOINT .. MEMORY_SIZE
  BY <1>2, <1>3, PlacesSolve, Sizes
<1>7. << >> \in Seq(Int) /\ Len(<< >>) = ENTRYPOINT - ENTRYPOINT
  BY Sizes
<1>8. SecondInv'
  <2>1. \A i : i \notin 1 .. line' - 1
    BY <1>2
  <2> QED
    BY <1>2, <1>4, <1>5, <1>6, <1>7, <2>1, SameSource DEF SecondInv
<1>9. FirstInv' /\ FailInv'
  BY <1>2 DEF FirstInv, FailInv
<1> QED
  BY <1>2, <1>3, <1>8, <1>9, SameSource DEF AsmInv

\* What SecondInv says.
LEMMA Assembled ==
  ASSUME AsmInv, pass \in {"pass2", "done"}
  PROVE  /\ Sourced /\ Len(source) \in Nat /\ line \in 1 .. Len(source) + 1
         /\ symbols = Asm!Meaning /\ Cardinality(Asm!Labels) <= MAX_SYMBOLS
         /\ asm_pc = Asm!Places[line] /\ asm_pc \in ENTRYPOINT .. MEMORY_SIZE /\ asm_pc \in Int
         /\ SoundUpTo(Len(source)) /\ PlacesInside(Len(source) + 1)
         /\ IntValued(Asm!Meaning)
         /\ output \in Seq(Int) /\ Len(output) = asm_pc - ENTRYPOINT
         /\ \A i \in 1 .. line - 1 :
              /\ ~Asm!Rejects(source[i], Asm!Places[i], Asm!Meaning, TRUE)
              /\ Asm!Places[i + 1] <= asm_pc
              /\ Written(i)
<1>1. Sourced /\ Len(source) \in Nat /\ line \in 1 .. Len(source) + 1 /\ SecondInv
  BY DEF AsmInv, Sourced
<1>2. SoundUpTo(Len(source))
  BY <1>1 DEF SecondInv
<1>3. PlacesInside(Len(source) + 1) /\ PlacesInside(Len(source))
  BY <1>1, <1>2, SoundPlaces
<1>4. IntValued(Asm!Meaning)
  BY <1>1, <1>3, SymbolsTyped, AllSymbols
<1>5. asm_pc \in Int
  <2>1. asm_pc \in ENTRYPOINT .. MEMORY_SIZE
    BY <1>1 DEF SecondInv
  <2> QED
    BY <2>1, Sizes
<1> QED
  BY <1>1, <1>2, <1>3, <1>4, <1>5 DEF SecondInv

LEMMA EarlierBytes ==
  ASSUME NEW s \in Seq(Int), NEW b \in Seq(Int)
  PROVE  /\ s \o b \in Seq(Int) /\ Len(s \o b) = Len(s) + Len(b)
         /\ \A k \in 1 .. Len(s) : (s \o b)[k] = s[k]
         /\ \A k \in 1 .. Len(b) : (s \o b)[Len(s) + k] = b[k]
<1>1. Len(s) \in Nat /\ Len(b) \in Nat
  OBVIOUS
<1>2. s \o b \in Seq(Int) /\ Len(s \o b) = Len(s) + Len(b)
  OBVIOUS
<1>3. \A k \in 1 .. Len(s) : (s \o b)[k] = s[k]
  OBVIOUS
<1>4. \A k \in 1 .. Len(b) : (s \o b)[Len(s) + k] = b[k]
  OBVIOUS
<1> QED
  BY <1>2, <1>3, <1>4

LEMMA Emitted ==
  ASSUME AsmInv, Asm!Emit
  PROVE  AsmInv'
<1> DEFINE bytes(i) == Asm!Bytes(source[i], Asm!Places[i], Asm!Meaning)
<1>1. /\ pass = "pass2" /\ line <= Len(source)
      /\ UNCHANGED source /\ pass' = "pass2" /\ line' = line + 1 /\ symbols' = symbols
  BY DEF Asm!Emit, Asm!Reading
<1>2. /\ Sourced /\ Len(source) \in Nat /\ line \in 1 .. Len(source)
      /\ symbols = Asm!Meaning /\ asm_pc = Asm!Places[line] /\ asm_pc \in Int
      /\ SoundUpTo(Len(source)) /\ PlacesInside(Len(source) + 1) /\ IntValued(Asm!Meaning)
      /\ output \in Seq(Int) /\ Len(output) = asm_pc - ENTRYPOINT
  BY <1>1, Assembled
<1>3. /\ output' = output \o bytes(line) /\ asm_pc' = asm_pc + Len(bytes(line))
      /\ ~Asm!Rejects(source[line], Asm!Places[line], Asm!Meaning, TRUE)
  BY <1>2, Zenon DEF Asm!Emit, Asm!Line
<1>4. ASSUME NEW i \in 1 .. Len(source)
      PROVE  /\ bytes(i) \in Seq(Int) /\ Len(bytes(i)) \in Nat /\ DOMAIN bytes(i) = 1 .. Len(bytes(i))
             /\ Asm!Places[i] \in Int /\ Asm!Places[i] >= ENTRYPOINT /\ Asm!Places[i + 1] \in Int
             /\ Asm!Places[i + 1] = Asm!Places[i] + Len(bytes(i))
  <2>1. Sound(i)
    BY <1>2 DEF SoundUpTo
  <2>2. bytes(i) \in Seq(Int) /\ Asm!Places[i] + Len(bytes(i)) = Asm!Places[i + 1]
    BY <1>2, <2>1, SoundBytes
  <2>3. Asm!Places[i] \in Int /\ Asm!Places[i] >= ENTRYPOINT
    BY <2>1, Sizes DEF Sound
  <2> HIDE DEF bytes
  <2>4. Len(bytes(i)) \in Nat /\ DOMAIN bytes(i) = 1 .. Len(bytes(i))
    BY <2>2
  <2> QED
    BY <2>2, <2>3, <2>4
<1> HIDE DEF bytes
<1>5. asm_pc' = Asm!Places[line + 1] /\ asm_pc' \in Int /\ asm_pc <= asm_pc'
  <2>1. PICK p \in Int, n \in Nat : p = asm_pc /\ n = Len(bytes(line))
    BY <1>2, <1>4
  <2>2. Asm!Places[line + 1] = p + n
    BY <1>2, <1>4, <2>1, Zenon
  <2>3. asm_pc' = p + n
    BY <1>3, <2>1, Zenon
  <2>4. p + n \in Int /\ p <= p + n
    OBVIOUS
  <2> QED
    BY <2>1, <2>2, <2>3, <2>4, Zenon
<1>6. asm_pc' \in ENTRYPOINT .. MEMORY_SIZE
  <2>1. line + 1 \in 1 .. Len(source) + 1
    BY <1>2
  <2> QED
    BY <1>2, <1>5, <2>1 DEF PlacesInside
<1>7. /\ output' \in Seq(Int) /\ Len(output') = Len(output) + Len(bytes(line))
      /\ \A k \in 1 .. Len(output) : output'[k] = output[k]
      /\ \A k \in 1 .. Len(bytes(line)) : output'[Len(output) + k] = bytes(line)[k]
  BY <1>2, <1>3, <1>4, EarlierBytes
<1>8. Len(output') = asm_pc' - ENTRYPOINT
  <2>1. PICK n \in Nat : n = Len(bytes(line))
    BY <1>2, <1>4
  <2>2. PICK p \in Int : p = asm_pc
    BY <1>2
  <2>3. PICK e \in Int : e = ENTRYPOINT
    BY Sizes
  <2>4. p - e + n = p + n - e
    OBVIOUS
  <2>5. asm_pc' = p + n
    BY <1>3, <2>1, <2>2, Zenon
  <2>6. Len(output) = p - e
    BY <1>2, <2>2, <2>3, Zenon
  <2>7. Len(output') = Len(output) + n
    BY <1>7, <2>1, Zenon
  <2> QED
    BY <2>3, <2>4, <2>5, <2>6, <2>7
<1>9. ASSUME NEW i \in 1 .. line' - 1
      PROVE  /\ ~Asm!Rejects(source[i], Asm!Places[i], Asm!Meaning, TRUE)
             /\ Asm!Places[i + 1] <= asm_pc'
             /\ \A k \in DOMAIN bytes(i) : output'[Asm!Places[i] - ENTRYPOINT + k] = bytes(i)[k]
  <2>1. CASE i = line
    <3>1. Asm!Places[i + 1] <= asm_pc'
      BY <1>5, <2>1
    <3>2. \A k \in DOMAIN bytes(i) : output'[Asm!Places[i] - ENTRYPOINT + k] = bytes(i)[k]
      <4>1. DOMAIN bytes(line) = 1 .. Len(bytes(line))
        BY <1>2, <1>4
      <4>2. Len(output) = Asm!Places[line] - ENTRYPOINT
        BY <1>2
      <4> QED
        BY <1>7, <2>1, <4>1, <4>2
    <3> QED
      BY <1>3, <2>1, <3>1, <3>2
  <2>2. CASE i # line
    <3>1. i \in 1 .. line - 1 /\ i \in 1 .. Len(source)
      BY <1>1, <1>2, <2>2
    <3>2. /\ ~Asm!Rejects(source[i], Asm!Places[i], Asm!Meaning, TRUE)
          /\ Asm!Places[i + 1] <= asm_pc
          /\ \A k \in DOMAIN bytes(i) : output[Asm!Places[i] - ENTRYPOINT + k] = bytes(i)[k]
      <4>1. /\ ~Asm!Rejects(source[i], Asm!Places[i], Asm!Meaning, TRUE)
            /\ Asm!Places[i + 1] <= asm_pc
            /\ Written(i)
        BY <1>1, <3>1, Assembled, Zenon
      <4>2. \A k \in DOMAIN bytes(i) : output[Asm!Places[i] - ENTRYPOINT + k] = bytes(i)[k]
        BY <4>1, Zenon DEF Written, bytes
      <4> QED
        BY <4>1, <4>2, Zenon
    <3>3. Asm!Places[i + 1] <= asm_pc'
      <4>1. PICK a \in Int, p \in Int, q \in Int : a = Asm!Places[i + 1] /\ p = asm_pc /\ q = asm_pc'
        BY <1>2, <1>4, <1>5, <3>1, Zenon
      <4>2. a <= p /\ p <= q
        BY <1>5, <3>2, <4>1, Zenon
      <4>3. a <= q
        BY <4>2
      <4> QED
        BY <4>1, <4>3, Zenon
    <3>4. ASSUME NEW k \in DOMAIN bytes(i)
          PROVE  output'[Asm!Places[i] - ENTRYPOINT + k] = bytes(i)[k]
      <4>1. PICK n \in Nat : n = Len(bytes(i)) /\ k \in 1 .. n
        BY <1>4, <3>1
      <4>2. PICK p \in Int : p = Asm!Places[i] /\ p >= ENTRYPOINT /\ p + n <= asm_pc
        BY <1>4, <3>1, <3>2, <4>1
      <4>3. p - ENTRYPOINT + k \in 1 .. Len(output)
        <5>1. PICK q \in Int, e \in Int : q = asm_pc /\ e = ENTRYPOINT
          BY <1>2, Sizes
        <5>2. p - e + k \in 1 .. q - e
          BY <4>1, <4>2, <5>1
        <5> QED
          BY <1>2, <5>1, <5>2
      <4> QED
        BY <1>7, <3>2, <4>2, <4>3
    <3> QED
      BY <3>2, <3>3, <3>4
  <2> QED
    BY <2>1, <2>2
<1>10. SecondInv'
  <2>1. \A i \in 1 .. line' - 1 : Written(i)'
    <3>1. \A i : Asm!Bytes(source[i], Asm!Places[i], Asm!Meaning)' = bytes(i)
      BY <1>1, SameSource DEF bytes
    <3>2. ASSUME NEW i \in 1 .. line' - 1
          PROVE  Written(i)'
      <4>1. \A k \in DOMAIN bytes(i) : output'[Asm!Places[i] - ENTRYPOINT + k] = bytes(i)[k]
        BY <1>9
      <4> QED
        BY <1>1, <3>1, <4>1, SameSource, Zenon DEF Written
    <3> QED
      BY <3>2
  <2>2. Cardinality(Asm!Labels) <= MAX_SYMBOLS
    BY <1>1, Assembled
  <2> QED
    BY <1>1, <1>2, <1>5, <1>6, <1>7, <1>8, <1>9, <2>1, <2>2, SameSource DEF SecondInv
<1>11. line' \in 1 .. Len(source) + 1
  BY <1>1, <1>2
<1>12. FirstInv' /\ FailInv'
  BY <1>1 DEF FirstInv, FailInv
<1> QED
  BY <1>1, <1>2, <1>10, <1>11, <1>12, SameSource DEF AsmInv

LEMMA SecondFail ==
  ASSUME AsmInv, Asm!FailSecond
  PROVE  AsmInv'
<1>1. /\ pass = "pass2" /\ line <= Len(source)
      /\ UNCHANGED source /\ pass' = "failed" /\ line' = line
  BY DEF Asm!FailSecond, Asm!Reading
<1>2. line \in 1 .. Len(source) /\ Sourced
  BY <1>1, Assembled
<1>3. Asm!Rejects(source[line], Asm!Places[line], Asm!Meaning, TRUE)
  BY <1>1, Assembled, Zenon DEF Asm!FailSecond, Asm!Line
<1>4. ~Asm!WellFormed
  BY <1>2, <1>3, WellFormedLine
<1> QED
  BY <1>1, <1>4, SameSource DEF AsmInv, FirstInv, SecondInv, FailInv

LEMMA Finished ==
  ASSUME AsmInv, Asm!Finish
  PROVE  AsmInv'
<1>1. /\ pass = "pass2" /\ line > Len(source)
      /\ UNCHANGED source /\ pass' = "done" /\ line' = line /\ asm_pc' = asm_pc
      /\ symbols' = symbols /\ output' = output
  BY DEF Asm!Finish
<1>2. line = Len(source) + 1
  BY <1>1, Assembled
<1>3. SecondInv'
  <2>1. \A i : Written(i)' = Written(i)
    BY <1>1, SameSource DEF Written
  <2>2. SecondInv
    BY DEF AsmInv
  <2> QED
    BY <1>1, <1>2, <2>1, <2>2, SameSource DEF SecondInv
<1>4. FirstInv' /\ FailInv'
  BY <1>1 DEF FirstInv, FailInv
<1> QED
  BY <1>1, <1>3, <1>4, SameSource DEF AsmInv

----------------------------------------------------------------------------
\* What chip8-disas prints is lines.

LEMMA Operands ==
  /\ \A x \in Int : /\ Reg(x) \in OperandShape /\ Num(x) \in OperandShape
                    /\ Name(x) \in OperandShape
  /\ \A w \in {"I", "[I]", "DT", "ST", "F", "B", "K"} : Special(w) \in OperandShape
<1>1. {"V", "number", "name", "I", "[I]", "DT", "ST", "F", "B", "K"} \subseteq Tags
  BY DEF Tags
<1>2. \A t \in Tags, x \in Int : [t |-> t, v |-> x] \in OperandShape
  BY DEF OperandShape
<1>3. \A x \in Int : Reg(x) \in OperandShape
  BY <1>1, <1>2 DEF Reg
<1>4. \A x \in Int : Num(x) \in OperandShape
  BY <1>1, <1>2 DEF Num
<1>5. \A x \in Int : Name(x) \in OperandShape
  BY <1>1, <1>2 DEF Name
<1>6. \A w \in {"I", "[I]", "DT", "ST", "F", "B", "K"} : Special(w) \in OperandShape
  BY <1>1, <1>2 DEF Special
<1> QED
  BY <1>3, <1>4, <1>5, <1>6

LEMMA LabelledShape ==
  ASSUME NEW label \in Int, NEW op \in Operations, NEW args \in Seq(OperandShape)
  PROVE  Labelled(label, op, args) \in LineShape
  BY DEF Labelled, LineShape

LEMMA PlainShape ==
  ASSUME NEW op \in Operations
  PROVE  /\ Plain(op, << >>) \in LineShape
         /\ \A a \in OperandShape : Plain(op, <<a>>) \in LineShape
         /\ \A a, b \in OperandShape : Plain(op, <<a, b>>) \in LineShape
         /\ \A a, b, c \in OperandShape : Plain(op, <<a, b, c>>) \in LineShape
<1>1. NoLabel \in Int
  BY DEF NoLabel
<1>2. ASSUME NEW args \in Seq(OperandShape)
      PROVE  Plain(op, args) \in LineShape
  BY <1>1, LabelledShape DEF Plain
<1>3. << >> \in Seq(OperandShape) /\ \A a \in OperandShape : <<a>> \in Seq(OperandShape)
  OBVIOUS
<1>4. \A a, b \in OperandShape : <<a, b>> \in Seq(OperandShape)
  OBVIOUS
<1>5. \A a, b, c \in OperandShape : <<a, b, c>> \in Seq(OperandShape)
  OBVIOUS
<1> QED
  BY <1>2, <1>3, <1>4, <1>5

LEMMA Mnemonics ==
  /\ {".BYTE", ".WORD", "CLS", "RET", "JP", "CALL", "SE", "SNE", "LD", "ADD", "OR", "AND", "XOR",
      "SUB", "SHR", "SUBN", "SHL", "RND", "DRW", "SKP", "SKNP"} \subseteq Operations
  /\ \A n \in 0 .. 7 \cup {14} : ArithmeticName(n) \in Operations
<1>1. {".BYTE", ".WORD", "CLS", "RET", "JP", "CALL", "SE", "SNE", "LD", "ADD", "OR", "AND", "XOR",
       "SUB", "SHR", "SUBN", "SHL", "RND", "DRW", "SKP", "SKNP"} \subseteq Operations
  BY DEF Operations
<1>2. ASSUME NEW n \in 0 .. 7 \cup {14}
      PROVE  ArithmeticName(n) \in {"LD", "OR", "AND", "XOR", "ADD", "SUB", "SHR", "SUBN", "SHL"}
  BY DEF ArithmeticName
<1> QED
  BY <1>1, <1>2

\* Parts of an opcode.
LEMMA OpcodeParts ==
  ASSUME NEW op \in Nat
  PROVE  /\ Nibble(op) \in Nat /\ Xof(op) \in 0 .. 15 /\ Yof(op) \in 0 .. 15
         /\ NNN(op) \in 0 .. MEMORY_SIZE - 1 /\ KK(op) \in 0 .. 255 /\ N(op) \in 0 .. 15
<1>1. PICK q \in Nat, r \in Nat : q = op \div 256 /\ r = op \div 16
  OBVIOUS
<1>2. q % 16 \in 0 .. 15 /\ r % 16 \in 0 .. 15
  OBVIOUS
<1>3. op \div 4096 \in Nat /\ op % 256 \in 0 .. 255 /\ op % 16 \in 0 .. 15
  OBVIOUS
<1> QED
  BY <1>1, <1>2, <1>3, TargetRange DEF Nibble, Xof, Yof, KK, N

LEMMA AddressShape ==
  ASSUME NEW a \in Int
  PROVE  Address(a) \in OperandShape
  BY Operands DEF Address

LEMMA MiscShape ==
  ASSUME NEW kk \in MiscOpcodes, NEW vx \in OperandShape
  PROVE  MiscLine(kk, vx) \in LineShape
<1>1. "LD" \in Operations /\ "ADD" \in Operations
  BY Mnemonics
<1>2. \A w \in {"DT", "K", "ST", "F", "B", "[I]"} :
        Plain("LD", <<vx, Special(w)>>) \in LineShape /\ Plain("LD", <<Special(w), vx>>) \in LineShape
  BY <1>1, Operands, PlainShape
<1>3. Plain("ADD", <<Special("I"), vx>>) \in LineShape
  BY <1>1, Operands, PlainShape
<1> QED
  BY <1>2, <1>3 DEF MiscLine, MiscOpcodes

LEMMA DecodedShape ==
  ASSUME NEW op \in Nat
  PROVE  Decoded(op) \in LineShape
<1>0. /\ Xof(op) \in Int /\ Yof(op) \in Int /\ KK(op) \in Int /\ N(op) \in Int
      /\ NNN(op) \in Int /\ op \in Int /\ 0 \in Int
  <2>1. PICK q \in Nat, r \in Nat : q = op \div 256 /\ r = op \div 16
    OBVIOUS
  <2>2. q % 16 \in Int /\ r % 16 \in Int /\ op % 256 \in Int /\ op % 16 \in Int
    OBVIOUS
  <2>3. NNN(op) \in Int
    BY OpcodeParts, Sizes
  <2> QED
    BY <2>1, <2>2, <2>3 DEF Xof, Yof, KK, N
<1>1. /\ Reg(Xof(op)) \in OperandShape /\ Reg(Yof(op)) \in OperandShape
      /\ Num(KK(op)) \in OperandShape /\ Num(N(op)) \in OperandShape
      /\ Num(NNN(op)) \in OperandShape /\ Num(op) \in OperandShape /\ Reg(0) \in OperandShape
      /\ Special("I") \in OperandShape
  <2>1. Special("I") \in OperandShape
    BY Operands
  <2> QED
    BY <1>0, <2>1, Operands, Zenon
<1>2. Address(NNN(op)) \in OperandShape
  BY <1>0, AddressShape
<1>3. /\ Plain("CLS", << >>) \in LineShape /\ Plain("RET", << >>) \in LineShape
      /\ Plain("JP", <<Address(NNN(op))>>) \in LineShape
      /\ Plain("CALL", <<Address(NNN(op))>>) \in LineShape
      /\ Plain("SKP", <<Reg(Xof(op))>>) \in LineShape
      /\ Plain("SKNP", <<Reg(Xof(op))>>) \in LineShape
      /\ Plain(".WORD", <<Num(op)>>) \in LineShape
  BY <1>1, <1>2, Mnemonics, PlainShape
<1>4. \A o \in {"SE", "SNE", "LD", "ADD", "RND"} :
        Plain(o, <<Reg(Xof(op)), Num(KK(op))>>) \in LineShape
  BY <1>1, Mnemonics, PlainShape
<1>5. \A o \in {"SE", "SNE"} : Plain(o, <<Reg(Xof(op)), Reg(Yof(op))>>) \in LineShape
  BY <1>1, Mnemonics, PlainShape
<1>6. N(op) \in 0 .. 7 \cup {14} =>
        Plain(ArithmeticName(N(op)), <<Reg(Xof(op)), Reg(Yof(op))>>) \in LineShape
  BY <1>1, Mnemonics, PlainShape
<1>7. /\ Plain("LD", <<Special("I"), Address(NNN(op))>>) \in LineShape
      /\ Plain("JP", <<Reg(0), Num(NNN(op))>>) \in LineShape
      /\ Plain("DRW", <<Reg(Xof(op)), Reg(Yof(op)), Num(N(op))>>) \in LineShape
  BY <1>1, <1>2, Mnemonics, PlainShape
<1>8. KK(op) \in MiscOpcodes => MiscLine(KK(op), Reg(Xof(op))) \in LineShape
  BY <1>1, MiscShape
<1> QED
  BY <1>3, <1>4, <1>5, <1>6, <1>7, <1>8 DEF Decoded

LEMMA LabelShape ==
  ASSUME TypeOK, NEW a \in Int
  PROVE  LabelAt(a) \in Int
  BY DEF LabelAt, NoLabel

\* A line's label does not matter to what it says.
LEMMA Relabelled ==
  ASSUME NEW l \in LineShape, NEW label \in Int
  PROVE  LET m == [l EXCEPT !.label = label]
         IN  m \in LineShape /\ m.op = l.op /\ m.args = l.args /\ m.label = label
  BY DEF LineShape

\* LineAt without its label.
LineText(a) ==
  IF decode_unreachable \/ a \in reach THEN Decoded(WordAt(a)) ELSE Plain(".WORD", <<Num(WordAt(a))>>)

LEMMA LineShaped ==
  ASSUME TypeOK, NEW a \in Int
  PROVE  /\ LineText(a) \in LineShape
         /\ LineAt(a) \in LineShape
         /\ LineAt(a).label = LabelAt(a)
         /\ LineAt(a).op = LineText(a).op /\ LineAt(a).args = LineText(a).args
<1>1. LineText(a) \in LineShape
  <2>1. WordAt(a) \in Nat
    BY WordRange
  <2>2. Plain(".WORD", <<Num(WordAt(a))>>) \in LineShape
    BY <2>1, Operands, Mnemonics, PlainShape
  <2> QED
    BY <2>1, <2>2, DecodedShape DEF LineText
<1>2. LineAt(a) = [LineText(a) EXCEPT !.label = LabelAt(a)]
  BY DEF LineAt, LineText
<1> QED
  BY <1>1, <1>2, LabelShape, Relabelled

LEMMA ListingShaped ==
  ASSUME TypeOK
  PROVE  Listing \in Seq(LineShape)
<1>1. TrailingByte \in Seq(LineShape)
  <2>1. ByteAt(End - 1) \in Int /\ LabelAt(End - 1) \in Int
    <3>1. PICK a \in Int : a = End - 1
      BY EndRange
    <3>2. PICK byte \in 0 .. 255 : byte = ByteAt(a)
      BY ByteRange
    <3>3. LabelAt(a) \in Int
      BY LabelShape
    <3> QED
      BY <3>1, <3>2, <3>3
  <2>2. ".BYTE" \in Operations
    BY Mnemonics
  <2>3. <<Num(ByteAt(End - 1))>> \in Seq(OperandShape)
    <3>1. Num(ByteAt(End - 1)) \in OperandShape
      BY <2>1, Operands
    <3> QED
      BY <3>1
  <2>4. Labelled(LabelAt(End - 1), ".BYTE", <<Num(ByteAt(End - 1))>>) \in LineShape
    BY <2>1, <2>2, <2>3, LabelledShape
  <2> QED
    BY <2>4 DEF TrailingByte
<1>2. PICK n \in Nat : n = Len(rom) \div 2
  BY DEF TypeOK
<1>3. \A i \in 1 .. n : LineAt(ENTRYPOINT + 2 * (i - 1)) \in LineShape
  BY Sizes, LineShaped
<1>4. [i \in 1 .. n |-> LineAt(ENTRYPOINT + 2 * (i - 1))] \in Seq(LineShape)
  BY <1>2, <1>3, IsASeq
<1> QED
  BY <1>1, <1>2, <1>4 DEF Listing

----------------------------------------------------------------------------
\* The tools, one after the other.

\* The assembler is given its input.
LEMMA StartInv ==
  Sourced /\ pass = "pass1" /\ line = 1 /\ asm_pc = ENTRYPOINT
    /\ symbols = [label \in {} |-> 0] /\ output = << >>
  => AsmInv
<1> SUFFICES ASSUME Sourced, pass = "pass1", line = 1, asm_pc = ENTRYPOINT,
                    symbols = [label \in {} |-> 0], output = << >>
             PROVE  AsmInv
  OBVIOUS
<1>1. Len(source) \in Nat /\ line - 1 = 0 /\ line \in 1 .. Len(source) + 1
  BY DEF Sourced
<1>2. Known(0) = {} /\ Cardinality(Known(0)) <= MAX_SYMBOLS
  <2>1. Known(0) = {}
    BY KnownLabels
  <2>2. Cardinality(Known(0)) = 0
    BY <2>1, FS_EmptySet, Zenon
  <2> QED
    BY <2>1, <2>2, SymbolsAssumption
<1>3. symbols = SymbolsAfter(0)
  BY <1>2 DEF SymbolsAfter
<1>4. asm_pc = Asm!Places[line] /\ asm_pc \in ENTRYPOINT .. MEMORY_SIZE
  BY PlacesSolve, Sizes
<1>5. SoundUpTo(0)
  BY DEF SoundUpTo
<1>6. FirstInv
  BY <1>1, <1>2, <1>3, <1>4, <1>5 DEF FirstInv
<1>7. SecondInv /\ FailInv
  BY DEF SecondInv, FailInv
<1> QED
  BY <1>1, <1>6, <1>7 DEF AsmInv

LEMMA StartInvNext ==
  (Sourced /\ pass = "pass1" /\ line = 1 /\ asm_pc = ENTRYPOINT
    /\ symbols = [label \in {} |-> 0] /\ output = << >>)'
  => AsmInv'
  BY StartInv, PTL

LEMMA AsmIdle ==
  ASSUME AsmInv, UNCHANGED asmvars
  PROVE  AsmInv'
<1>1. /\ UNCHANGED source /\ pass' = pass /\ line' = line /\ asm_pc' = asm_pc
      /\ symbols' = symbols /\ output' = output
  BY DEF asmvars
<1>2. \A i : Written(i)' = Written(i)
  BY <1>1, SameSource DEF Written
<1>3. FirstInv' = FirstInv
  BY <1>1, SameSource DEF FirstInv
<1>4. SecondInv' = SecondInv
  BY <1>1, <1>2, SameSource DEF SecondInv
<1>5. FailInv' = FailInv
  BY <1>1, SameSource DEF FailInv
<1> QED
  BY <1>1, <1>3, <1>4, <1>5, SameSource DEF AsmInv

LEMMA AsmNext ==
  ASSUME AsmInv, Asm!Next
  PROVE  AsmInv'
<1>1. CASE Asm!Halted
  BY <1>1, AsmIdle DEF Asm!Halted, Asm!vars, asmvars
<1>2. CASE Asm!LayOut
  BY <1>2, FirstLayOut
<1>3. CASE Asm!FailFirst
  BY <1>3, FirstFail
<1>4. CASE Asm!Rewind
  BY <1>4, Rewound
<1>5. CASE Asm!Emit
  BY <1>5, Emitted
<1>6. CASE Asm!FailSecond
  BY <1>6, SecondFail
<1>7. CASE Asm!Finish
  BY <1>7, Finished
<1> QED
  BY <1>1, <1>2, <1>3, <1>4, <1>5, <1>6, <1>7 DEF Asm!Next

\* The map, and the assembler once it has been started.
ToolInv ==
  /\ CourseInv
  /\ pass = "waiting" => WaitingInv
  /\ pass # "waiting" => AsmInv

LEMMA ToolInitial == ToolInit => ToolInv
  BY CourseInit DEF ToolInit, ToolInv, WaitingInv

LEMMA HandedOver ==
  ASSUME ToolInv, HandOver
  PROVE  ToolInv'
<1>1. WaitingInv /\ TypeOK
  BY DEF HandOver, ToolInv, CourseInv
<1>2. CourseInv'
  BY CourseIdle DEF ToolInv, HandOver, mapvars, engine
<1>3. Sourced'
  <2>1. source' \in Sources \cup {Listing}
    BY DEF HandOver
  <2>2. source' \in Seq(LineShape)
    BY <1>1, <2>1, SourcesSourced, ListingShaped
  <2> QED
    BY <2>2 DEF Sourced
<1>4. /\ pass' = "pass1" /\ line' = 1 /\ asm_pc' = ENTRYPOINT
      /\ symbols' = [label \in {} |-> 0] /\ output' = << >>
  BY <1>1 DEF HandOver, WaitingInv
<1>5. AsmInv'
  BY <1>3, <1>4, StartInvNext
<1> QED
  BY <1>2, <1>4, <1>5 DEF ToolInv

LEMMA ToolInductive ==
  ASSUME ToolInv, [ToolNext]_toolvars
  PROVE  ToolInv'
<1>1. CASE MapStep
  <2>1. CourseInv'
    BY <1>1, CourseNext DEF MapStep, ToolInv
  <2> QED
    BY <1>1, <2>1 DEF MapStep, ToolInv, asmvars, WaitingInv
<1>2. CASE HandOver
  BY <1>2, HandedOver
<1>3. CASE Assemble
  <2>1. CourseInv'
    BY <1>3, CourseIdle DEF ToolInv, Assemble, mapvars, engine
  <2>2. AsmInv'
    BY <1>3, AsmNext DEF ToolInv, Assemble
  <2>3. pass' # "waiting"
    BY <2>2 DEF AsmInv
  <2> QED
    BY <2>1, <2>2, <2>3 DEF ToolInv
<1>4. CASE UNCHANGED toolvars
  <2>1. CourseInv'
    BY <1>4, CourseIdle DEF ToolInv, toolvars, mapvars, engine
  <2>2. UNCHANGED asmvars /\ UNCHANGED pass
    BY <1>4 DEF toolvars, asmvars
  <2>3. pass # "waiting" => AsmInv'
    BY <2>2, AsmIdle DEF ToolInv
  <2>4. WaitingInv' = WaitingInv
    BY <2>2 DEF WaitingInv, asmvars
  <2> QED
    BY <2>1, <2>2, <2>3, <2>4 DEF ToolInv
<1> QED
  BY <1>1, <1>2, <1>3, <1>4 DEF ToolNext

LEMMA ToolInvariant == ToolSpec => []ToolInv
<1>1. ToolInv /\ [ToolNext]_toolvars => ToolInv'
  BY ToolInductive
<1> QED
  BY <1>1, ToolInitial, PTL DEF ToolSpec

----------------------------------------------------------------------------
\* What follows for the output, and for the verdict.

LEMMA InvAgrees == ToolInv => PassesAgree
<1> SUFFICES ASSUME ToolInv, pass = "pass2"
             PROVE  Asm!PassesAgree
  BY DEF PassesAgree, Asm!PassesAgree
<1>1. AsmInv
  BY DEF ToolInv
<1>2. asm_pc = Asm!Places[line] /\ symbols = Asm!Meaning /\ Sourced /\ SoundUpTo(Len(source))
  BY <1>1, Assembled
<1>3. ASSUME line <= Len(source), source[line].label # NoLabel
      PROVE  Asm!Meaning[source[line].label] = Asm!Places[line]
  <2>1. line \in 1 .. Len(source) /\ Len(source) \in Nat
    BY <1>1, <1>3, Assembled
  <2>2. PICK d \in 1 .. line : /\ source[d].label = source[line].label
                               /\ Asm!Meaning[source[line].label] = Asm!Places[d]
    BY <1>2, <1>3, <2>1, MeaningAt
  <2>3. source[line].label \notin Known(line - 1)
    BY <1>2, <1>3, <2>1 DEF SoundUpTo, Sound
  <2>4. d \notin 1 .. line - 1
    BY <1>3, <2>2, <2>3 DEF Known
  <2>5. d = line
    BY <2>1, <2>4
  <2> QED
    BY <2>2, <2>5
<1> QED
  BY <1>2, <1>3, NoLabels DEF Asm!PassesAgree, Asm!Line

LEMMA InvOutput == ToolInv => OutputRight
<1> SUFFICES ASSUME ToolInv, pass \in {"pass2", "done"}
             PROVE  Asm!OutputRight
  BY DEF OutputRight, Asm!OutputRight
<1>1. AsmInv
  BY DEF ToolInv
<1>2. Len(output) = asm_pc - ENTRYPOINT /\ \A i \in 1 .. line - 1 : Written(i)
  BY <1>1, Assembled
<1> QED
  BY <1>2 DEF Asm!OutputRight, Written

LEMMA DoneWellFormed ==
  ASSUME AsmInv, pass = "done"
  PROVE  Asm!WellFormed
<1>1. /\ Sourced /\ Len(source) \in Nat /\ DOMAIN source = 1 .. Len(source)
      /\ SoundUpTo(Len(source)) /\ Cardinality(Asm!Labels) <= MAX_SYMBOLS
  BY Assembled DEF Sourced
<1>2. line - 1 = Len(source)
  <2>1. line = Len(source) + 1
    BY DEF AsmInv, SecondInv
  <2> QED
    BY <1>1, <2>1
<1>3. \A i \in 1 .. Len(source) : ~Asm!Malformed(source[i])
  BY <1>1 DEF SoundUpTo, Sound
<1>4. \A i \in 1 .. Len(source) : ~Asm!Rejects(source[i], Asm!Places[i], Asm!Meaning, TRUE)
  BY <1>2, Assembled
<1>5. ASSUME NEW i \in 1 .. Len(source), NEW j \in 1 .. Len(source), i < j,
             source[i].label = source[j].label
      PROVE  source[i].label = NoLabel
  <2>1. source[j].label = NoLabel \/ source[j].label \notin Known(j - 1)
    BY <1>1 DEF SoundUpTo, Sound
  <2>2. i \in 1 .. j - 1
    BY <1>5
  <2> QED
    BY <1>5, <2>1, <2>2 DEF Known
<1>6. \A i, j \in 1 .. Len(source) :
        source[i].label = source[j].label /\ i # j => source[i].label = NoLabel
  <2>1. \A i, j \in 1 .. Len(source) : i # j => i < j \/ j < i
    OBVIOUS
  <2> QED
    BY <1>5, <2>1
<1>7. \A i \in 1 .. Len(source) : /\ Asm!Places[i + 1] >= Asm!Places[i]
                                  /\ Asm!Places[i + 1] <= MEMORY_SIZE
  <2> SUFFICES ASSUME NEW i \in 1 .. Len(source)
               PROVE  Asm!Places[i + 1] >= Asm!Places[i] /\ Asm!Places[i + 1] <= MEMORY_SIZE
    OBVIOUS
  <2>1. PICK a \in ENTRYPOINT .. MEMORY_SIZE : a = Asm!Places[i]
    BY <1>1 DEF SoundUpTo, Sound
  <2>2. Asm!Places[i + 1] \in a .. MEMORY_SIZE
    BY <1>1, <2>1 DEF SoundUpTo, Sound
  <2> QED
    BY <2>1, <2>2, Sizes
<1>8. Asm!Cardinality(Asm!Labels) <= MAX_SYMBOLS
  BY <1>1, Cardinalities, Zenon
<1> QED
  BY <1>1, <1>3, <1>4, <1>6, <1>7, <1>8, NoLabels, Zenon DEF Asm!WellFormed, Asm!Lines

LEMMA InvAccepts == ToolInv => AcceptsWellFormed
<1> SUFFICES ASSUME ToolInv, pass # "waiting"
             PROVE  Asm!AcceptsWellFormed
  BY DEF AcceptsWellFormed
<1>1. AsmInv
  BY DEF ToolInv
<1>2. pass = "failed" => ~Asm!WellFormed
  BY <1>1 DEF AsmInv, FailInv
<1> QED
  BY <1>1, <1>2, DoneWellFormed DEF Asm!AcceptsWellFormed

\* asm.c, both passes, for every source and every listing of a ROM: although the
\* first pass takes the symbols it does not know for 0, the second one comes to
\* every label at the address the first one has given it, and no line lies
\* beyond the memory, which only the first pass checks.
THEOREM PassesAgreeAlways == ToolSpec => []PassesAgree
<1>1. ToolInv => PassesAgree
  BY InvAgrees
<1> QED
  BY <1>1, ToolInvariant, PTL

\* asm.c, write_bytes and the .ORG padding: what is on stdout, at whatever line
\* the second pass stops, is each line before it at its place, every reference
\* at the value the whole source gives it.
THEOREM OutputRightAlways == ToolSpec => []OutputRight
<1>1. ToolInv => OutputRight
  BY InvOutput
<1> QED
  BY <1>1, ToolInvariant, PTL

\* asm.c, fail: the assembler ends with an image for every well-formed source,
\* and for no other; no line gets past the second pass that was let through
\* because a symbol was not known yet, and no forward reference is refused.
THEOREM AcceptsWellFormedAlways == ToolSpec => []AcceptsWellFormed
<1>1. ToolInv => AcceptsWellFormed
  BY InvAccepts
<1> QED
  BY <1>1, ToolInvariant, PTL

----------------------------------------------------------------------------
\* The labels of a listing.

\* Every leader is the address of a line.
LeaderInv ==
  phase # "analyze" /\ rom # << >> =>
    \A a \in leader : a % 2 = 0 /\ a >= ENTRYPOINT /\ a < End

LEMMA AnalyzedLeaders ==
  ASSUME TypeOK, Analyze
  PROVE  LeaderInv'
<1>1. rom' = rom /\ End' = End /\ End \in Nat /\ End = ENTRYPOINT + Len(rom) /\ rom \in Seq(0 .. 255)
  BY EndRange DEF Analyze, End, TypeOK
<1>2. ASSUME rom # << >>, NEW a \in leader'
      PROVE  a % 2 = 0 /\ a >= ENTRYPOINT /\ a < End
  <2>1. CASE a = ENTRYPOINT
    <3>1. Len(rom) > 0
      BY <1>1, <1>2
    <3> QED
      BY <1>1, <2>1, <3>1, Sizes
  <2>2. CASE Labelable(a) /\ a \in Targets
    <3>1. a \in Nat
      <4>1. PICK w \in Words : a = NNN(WordAt(w))
        BY <2>2 DEF Targets
      <4>2. w \in Int
        BY <4>1, <1>1, Sizes DEF Words
      <4>3. WordAt(w) \in Nat
        BY <4>2, WordRange
      <4> QED
        BY <4>1, <4>3, OpcodeParts, Sizes
    <3> QED
      BY <1>1, <2>2, <3>1 DEF Labelable
  <2>3. CASE a \in Boundaries /\ a < End
    <3>1. PICK w \in Words : a = w + 2 \/ a = w + 4
      BY <2>3 DEF Boundaries, Skips, Enders
    <3>2. w \in Int /\ w >= ENTRYPOINT /\ w % 2 = 0
      BY <1>1, <3>1, Sizes DEF Words
    <3> QED
      BY <2>3, <3>1, <3>2, Sizes
  <2> QED
    BY <1>2, <2>1, <2>2, <2>3 DEF Analyze
<1> QED
  BY <1>1, <1>2 DEF LeaderInv

LEMMA LeadersStay ==
  ASSUME LeaderInv, UNCHANGED Settings, phase # "analyze"
  PROVE  LeaderInv'
<1>1. rom' = rom /\ leader' = leader /\ End' = End
  BY DEF Settings, End
<1> QED
  BY <1>1 DEF LeaderInv

LEMMA LeadersNext ==
  ASSUME TypeOK, LeaderInv, [Next]_vars
  PROVE  LeaderInv'
<1>1. CASE Analyze
  BY <1>1, AnalyzedLeaders
<1>2. CASE Pop \/ EndPath \/ Descended \/ Classify
  <2>1. phase # "analyze" /\ UNCHANGED Settings
    BY <1>2 DEF Pop, EndPath, Descended, Classify, Settings
  <2> QED
    BY <2>1, LeadersStay
<1>3. CASE Walk
  <2>1. phase # "analyze" /\ UNCHANGED Settings
    BY <1>3 DEF Walk, WalkReturn, WalkJump, WalkCall, WalkSkip, WalkLoadAddr, WalkBranch,
                WalkDraw, WalkStore, WalkLoad, WalkPlain, Enter
  <2> QED
    BY <2>1, LeadersStay
<1>4. CASE GlueUnreachable
  <2>1. rom' = rom /\ leader' = Glued /\ phase = "glue" /\ End' = End
    BY <1>4 DEF GlueUnreachable, End
  <2>2. ASSUME rom # << >>, NEW a \in Glued
        PROVE  a % 2 = 0 /\ a >= ENTRYPOINT /\ a < End
    <3>1. CASE a \in leader
      BY <2>1, <2>2, <3>1 DEF LeaderInv
    <3>2. CASE a \in Dead /\ Labelable(a)
      <4>1. a \in ENTRYPOINT .. End - 1
        BY <3>2 DEF Dead
      <4> QED
        BY <3>2, <4>1, EndRange, Sizes DEF Labelable
    <3> QED
      BY <2>2, <3>1, <3>2 DEF Glued, RunStarts
  <2> QED
    BY <2>1, <2>2 DEF LeaderInv
<1>5. CASE UNCHANGED vars
  BY <1>5 DEF vars, LeaderInv, End
<1> QED
  BY <1>1, <1>2, <1>3, <1>4, <1>5 DEF Next, Halted

\* The listing depends on the map only.
LEMMA SameListing ==
  ASSUME UNCHANGED vars
  PROVE  Listing' = Listing
<1>1. rom' = rom /\ decode_unreachable' = decode_unreachable /\ reach' = reach /\ leader' = leader
  BY DEF vars
<1>2. End' = End
  BY <1>1 DEF End
<1>3. \A a : ByteAt(a)' = ByteAt(a)
  BY <1>1, <1>2 DEF ByteAt
<1>4. \A a : WordAt(a)' = WordAt(a)
  BY <1>3 DEF WordAt
<1>5. \A nnn : Address(nnn)' = Address(nnn)
  BY <1>1 DEF Address
<1>6. \A op : Decoded(op)' = Decoded(op)
  BY <1>5 DEF Decoded
<1>7. \A a : LabelAt(a)' = LabelAt(a)
  BY <1>1 DEF LabelAt
<1>8. \A a : LineAt(a)' = LineAt(a)
  BY <1>1, <1>4, <1>6, <1>7 DEF LineAt
<1>9. TrailingByte' = TrailingByte
  BY <1>1, <1>2, <1>3, <1>7 DEF TrailingByte
<1> QED
  BY <1>1, <1>8, <1>9 DEF Listing

----------------------------------------------------------------------------
\* The assembler reads an instruction as the disassembler has written it.

LEMMA OperandParts ==
  \A x : /\ Reg(x).t = "V" /\ Reg(x).v = x
         /\ Num(x).t = "number" /\ Num(x).v = x
         /\ Name(x).t = "name" /\ Name(x).v = x
         /\ Special(x).t = x /\ Special(x).v = 0
  BY DEF Reg, Num, Name, Special

\* Instructions on two registers.
LEMMA RegisterForms ==
  ASSUME NEW x \in Int, NEW y \in Int
  PROVE  /\ Asm!PairForm("SE", Reg(x), Reg(y)) = Asm!Fixed(20480 + 256 * x + 16 * y)
         /\ Asm!PairForm("SNE", Reg(x), Reg(y)) = Asm!Fixed(36864 + 256 * x + 16 * y)
<1>1. Asm!PairForm("SE", Reg(x), Reg(y)) = Asm!Fixed(20480 + 256 * x + 16 * y)
  BY OperandParts DEF Asm!PairForm, Asm!IsReg, Asm!ArithmeticCode
<1>2. Asm!PairForm("SNE", Reg(x), Reg(y)) = Asm!Fixed(36864 + 256 * x + 16 * y)
  BY OperandParts DEF Asm!PairForm, Asm!IsReg, Asm!ArithmeticCode
<1> QED
  BY <1>1, <1>2

ArithmeticDigits == 0 .. 7 \cup {14}
ArithmeticWord(x, y, n) == 32768 + 256 * x + 16 * y + n

LEMMA ArithmeticForms ==
  ASSUME NEW x \in Int, NEW y \in Int, NEW n \in ArithmeticDigits
  PROVE  Asm!PairForm(ArithmeticName(n), Reg(x), Reg(y)) = Asm!Fixed(ArithmeticWord(x, y, n))
<1> USE DEF ArithmeticWord
<1>1. CASE n = 0
  BY <1>1, OperandParts
     DEF Asm!PairForm, Asm!LoadForm, Asm!IsReg, Asm!ArithmeticCode, Asm!StoreCode, Asm!FetchCode,
         ArithmeticName
<1>2. CASE n = 4
  BY <1>2, OperandParts DEF Asm!PairForm, Asm!IsReg, Asm!ArithmeticCode, ArithmeticName
<1>3. CASE n \in {1, 2, 3, 5, 6, 7, 14}
  <2>1. /\ ArithmeticName(n) \in DOMAIN Asm!ArithmeticCode
        /\ Asm!ArithmeticCode[ArithmeticName(n)] = n
        /\ ArithmeticName(n) \notin {"SE", "SNE", "ADD", "RND", "JP", "LD"}
    BY <1>3 DEF Asm!ArithmeticCode, ArithmeticName
  <2> QED
    BY <2>1, OperandParts DEF Asm!PairForm, Asm!IsReg
<1> QED
  BY <1>1, <1>2, <1>3 DEF ArithmeticDigits

\* A register and a value.
LEMMA ValueForms ==
  ASSUME NEW x \in Int, NEW v, v.t \in {"number", "name"}
  PROVE  /\ Asm!PairForm("SE", Reg(x), v) = Asm!Valued(12288 + 256 * x, v, 255)
         /\ Asm!PairForm("SNE", Reg(x), v) = Asm!Valued(16384 + 256 * x, v, 255)
         /\ Asm!PairForm("LD", Reg(x), v) = Asm!Valued(24576 + 256 * x, v, 255)
         /\ Asm!PairForm("ADD", Reg(x), v) = Asm!Valued(28672 + 256 * x, v, 255)
         /\ Asm!PairForm("RND", Reg(x), v) = Asm!Valued(49152 + 256 * x, v, 255)
<1>1. Asm!PairForm("SE", Reg(x), v) = Asm!Valued(12288 + 256 * x, v, 255)
  BY OperandParts DEF Asm!PairForm, Asm!IsReg, Asm!ArithmeticCode
<1>2. Asm!PairForm("SNE", Reg(x), v) = Asm!Valued(16384 + 256 * x, v, 255)
  BY OperandParts DEF Asm!PairForm, Asm!IsReg, Asm!ArithmeticCode
<1>3. Asm!PairForm("LD", Reg(x), v) = Asm!Valued(24576 + 256 * x, v, 255)
  BY OperandParts
     DEF Asm!PairForm, Asm!LoadForm, Asm!IsReg, Asm!ArithmeticCode, Asm!StoreCode, Asm!FetchCode
<1>4. Asm!PairForm("ADD", Reg(x), v) = Asm!Valued(28672 + 256 * x, v, 255)
  BY OperandParts DEF Asm!PairForm, Asm!IsReg, Asm!ArithmeticCode
<1>5. Asm!PairForm("RND", Reg(x), v) = Asm!Valued(49152 + 256 * x, v, 255)
  BY OperandParts DEF Asm!PairForm, Asm!IsReg, Asm!ArithmeticCode
<1> QED
  BY <1>1, <1>2, <1>3, <1>4, <1>5

LEMMA AddressForms ==
  ASSUME NEW v, v.t \in {"number", "name"}
  PROVE  /\ Asm!SingleForm("JP", v) = Asm!Valued(4096, v, MEMORY_SIZE - 1)
         /\ Asm!SingleForm("CALL", v) = Asm!Valued(8192, v, MEMORY_SIZE - 1)
         /\ Asm!PairForm("JP", Reg(0), v) = Asm!Valued(45056, v, MEMORY_SIZE - 1)
         /\ Asm!PairForm("LD", Special("I"), v) = Asm!Valued(40960, v, MEMORY_SIZE - 1)
<1>1. Asm!SingleForm("JP", v) = Asm!Valued(4096, v, MEMORY_SIZE - 1)
  BY DEF Asm!SingleForm
<1>2. Asm!SingleForm("CALL", v) = Asm!Valued(8192, v, MEMORY_SIZE - 1)
  BY DEF Asm!SingleForm
<1>3. Asm!PairForm("JP", Reg(0), v) = Asm!Valued(45056, v, MEMORY_SIZE - 1)
  BY OperandParts DEF Asm!PairForm, Asm!IsReg, Asm!ArithmeticCode, Asm!Reg, Reg
<1>4. Asm!PairForm("LD", Special("I"), v) = Asm!Valued(40960, v, MEMORY_SIZE - 1)
  BY OperandParts
     DEF Asm!PairForm, Asm!LoadForm, Asm!IsReg, Asm!ArithmeticCode, Asm!StoreCode, Asm!FetchCode
<1> QED
  BY <1>1, <1>2, <1>3, <1>4

LEMMA SkipForms ==
  ASSUME NEW x \in Int
  PROVE  /\ Asm!SingleForm("SKP", Reg(x)) = Asm!Fixed(57502 + 256 * x)
         /\ Asm!SingleForm("SKNP", Reg(x)) = Asm!Fixed(57505 + 256 * x)
<1>1. Asm!SingleForm("SKP", Reg(x)) = Asm!Fixed(57502 + 256 * x)
  BY OperandParts DEF Asm!SingleForm, Asm!IsReg
<1>2. Asm!SingleForm("SKNP", Reg(x)) = Asm!Fixed(57505 + 256 * x)
  BY OperandParts DEF Asm!SingleForm, Asm!IsReg, Asm!ArithmeticCode
<1> QED
  BY <1>1, <1>2

\* What LD and ADD I do beside.
LEMMA MiscForms ==
  ASSUME NEW x \in Int, NEW kk \in MiscOpcodes
  PROVE  LET l == MiscLine(kk, Reg(x))
         IN  Len(l.args) = 2 /\ Asm!PairForm(l.op, l.args[1], l.args[2]) = Asm!Fixed(61440 + 256 * x + kk)
<1> DEFINE l == MiscLine(kk, Reg(x))
           Right == Len(l.args) = 2
                    /\ Asm!PairForm(l.op, l.args[1], l.args[2]) = Asm!Fixed(61440 + 256 * x + kk)
<1> USE DEF Asm!PairForm, Asm!LoadForm, Asm!IsReg, Asm!ArithmeticCode, Asm!StoreCode,
            Asm!FetchCode, MiscLine, Plain, Labelled
<1>1. ASSUME kk = 7 PROVE Right
  BY <1>1, OperandParts
<1>2. ASSUME kk = 10 PROVE Right
  BY <1>2, OperandParts
<1>3. ASSUME kk = 21 PROVE Right
  BY <1>3, OperandParts
<1>4. ASSUME kk = 24 PROVE Right
  BY <1>4, OperandParts
<1>5. ASSUME kk = 30 PROVE Right
  BY <1>5, OperandParts
<1>6. ASSUME kk = 41 PROVE Right
  BY <1>6, OperandParts
<1>7. ASSUME kk = 51 PROVE Right
  BY <1>7, OperandParts
<1>8. ASSUME kk = 85 PROVE Right
  BY <1>8, OperandParts
<1>9. ASSUME kk = 101 PROVE Right
  BY <1>9, OperandParts
<1> HIDE DEF Asm!PairForm, Asm!LoadForm, Asm!IsReg, Asm!ArithmeticCode, Asm!StoreCode,
            Asm!FetchCode, MiscLine, Plain, Labelled
<1>10. Right
  <2> HIDE DEF Right
  <2> QED
    BY <1>1, <1>2, <1>3, <1>4, <1>5, <1>6, <1>7, <1>8, <1>9 DEF MiscOpcodes
<1> QED
  BY <1>10

LEMMA PlainForms ==
  ASSUME NEW op, NEW a
  PROVE  Asm!Form(Plain(op, <<a>>)) = Asm!SingleForm(op, a)
  BY DEF Asm!Form, Plain, Labelled

LEMMA PlainPairs ==
  ASSUME NEW op, NEW a, NEW b
  PROVE  Asm!Form(Plain(op, <<a, b>>)) = Asm!PairForm(op, a, b)
  BY DEF Asm!Form, Plain, Labelled

LEMMA DrawForm ==
  ASSUME NEW x \in Int, NEW y \in Int, NEW v
  PROVE  Asm!Form(Plain("DRW", <<Reg(x), Reg(y), v>>)) = Asm!Valued(53248 + 256 * x + 16 * y, v, 15)
<1> DEFINE l == Plain("DRW", <<Reg(x), Reg(y), v>>)
<1>1. /\ Len(l.args) = 3 /\ l.op = "DRW" /\ l.args[1] = Reg(x) /\ l.args[2] = Reg(y)
      /\ l.args[3] = v
  BY DEF Plain, Labelled
<1>2. Asm!IsReg(Reg(x)) /\ Asm!IsReg(Reg(y)) /\ Reg(x).v = x /\ Reg(y).v = y
  BY OperandParts DEF Asm!IsReg
<1> HIDE DEF l
<1>3. Asm!Form(l) = Asm!Valued(53248 + 256 * l.args[1].v + 16 * l.args[2].v, l.args[3], 15)
  BY <1>1, <1>2 DEF Asm!Form
<1>4. Asm!Form(l) = Asm!Valued(53248 + 256 * x + 16 * y, v, 15)
  BY <1>1, <1>2, <1>3
<1> QED
  BY <1>4 DEF l

Mnemonic ==
  {"CLS", "RET", "JP", "CALL", "SE", "SNE", "LD", "ADD", "OR", "AND", "XOR", "SUB", "SHR", "SUBN",
   "SHL", "RND", "DRW", "SKP", "SKNP"}

LEMMA AreInstructions ==
  /\ \A op \in Mnemonic : \A args : Asm!IsInstruction(Plain(op, args))
  /\ \A n \in 0 .. 7 \cup {14} : ArithmeticName(n) \in Mnemonic
  /\ \A kk \in MiscOpcodes : \A vx : Asm!IsInstruction(MiscLine(kk, vx))
<1>1. ASSUME NEW op \in Mnemonic, NEW args
      PROVE  Asm!IsInstruction(Plain(op, args))
  BY DEF Mnemonic, Asm!IsInstruction, Asm!Directives, Plain, Labelled
<1>2. ASSUME NEW n \in 0 .. 7 \cup {14}
      PROVE  ArithmeticName(n) \in Mnemonic
  BY DEF ArithmeticName, Mnemonic
<1>3. ASSUME NEW kk \in MiscOpcodes, NEW vx
      PROVE  Asm!IsInstruction(MiscLine(kk, vx))
  <2>1. \E op \in Mnemonic : \E args : MiscLine(kk, vx) = Plain(op, args)
    <3>1. "LD" \in Mnemonic /\ "ADD" \in Mnemonic
      BY DEF Mnemonic
    <3> QED
      BY <3>1 DEF MiscLine, MiscOpcodes
  <2> QED
    BY <1>1, <2>1
<1> QED
  BY <1>1, <1>2, <1>3

MemorySizes == {16, 32, 64, 128, 256, 512, 1024, 2048, 4096}
Rest(p, r, m) == (4096 * p + r) % m
Behind(p, r) == (4096 * p + r) % MEMORY_SIZE

LEMMA FieldAlone ==
  ASSUME NEW p \in 0 .. 15, NEW r \in Nat, r < MEMORY_SIZE
  PROVE  Behind(p, r) = r
<1>1. \A m \in MemorySizes : r < m => Rest(p, r, m) = r
  <2>1. r < 16 => Rest(p, r, 16) = r
    BY DEF Rest
  <2>2. r < 32 => Rest(p, r, 32) = r
    BY DEF Rest
  <2>3. r < 64 => Rest(p, r, 64) = r
    BY DEF Rest
  <2>4. r < 128 => Rest(p, r, 128) = r
    BY DEF Rest
  <2>5. r < 256 => Rest(p, r, 256) = r
    BY DEF Rest
  <2>6. r < 512 => Rest(p, r, 512) = r
    BY DEF Rest
  <2>7. r < 1024 => Rest(p, r, 1024) = r
    BY DEF Rest
  <2>8. r < 2048 => Rest(p, r, 2048) = r
    BY DEF Rest
  <2>9. r < 4096 => Rest(p, r, 4096) = r
    BY DEF Rest
  <2> QED
    BY <2>1, <2>2, <2>3, <2>4, <2>5, <2>6, <2>7, <2>8, <2>9 DEF MemorySizes
<1>2. MEMORY_SIZE \in MemorySizes
  BY MemoryAssumption DEF MemorySizes
<1>3. Rest(p, r, MEMORY_SIZE) = r
  BY <1>1, <1>2, Zenon
<1> QED
  BY <1>3 DEF Rest, Behind

\* The digits of an opcode.
OfDigits(op, p, x, y, n) ==
  /\ p \in 0 .. 15 /\ x \in 0 .. 15 /\ y \in 0 .. 15 /\ n \in 0 .. 15 /\ op \in Nat
  /\ op = 4096 * p + 256 * x + 16 * y + n

Digited(op, p, x, y, n) ==
  /\ Nibble(op) = p /\ Xof(op) = x /\ Yof(op) = y /\ KK(op) = 16 * y + n /\ N(op) = n
  /\ 256 * x + 16 * y + n < MEMORY_SIZE => NNN(op) = 256 * x + 16 * y + n

LEMMA DigitsOf ==
  ASSUME NEW op, NEW p, NEW x, NEW y, NEW n, OfDigits(op, p, x, y, n)
  PROVE  Digited(op, p, x, y, n)
<1> SUFFICES ASSUME p \in 0 .. 15, x \in 0 .. 15, y \in 0 .. 15, n \in 0 .. 15, op \in Nat
             PROVE  Digited(op, p, x, y, n)
  BY DEF OfDigits
<1>0. op = 4096 * p + 256 * x + 16 * y + n
  BY DEF OfDigits
<1>1. op \div 4096 = p
  BY <1>0
<1>2. op \div 256 = 16 * p + x /\ (16 * p + x) % 16 = x
  BY <1>0
<1>3. op \div 16 = 256 * p + 16 * x + y /\ (256 * p + 16 * x + y) % 16 = y
  BY <1>0
<1>4. op % 256 = 16 * y + n /\ op % 16 = n
  BY <1>0
<1>5. ASSUME 256 * x + 16 * y + n < MEMORY_SIZE
      PROVE  op % MEMORY_SIZE = 256 * x + 16 * y + n
  <2> DEFINE r == 256 * x + 16 * y + n
  <2>1. r \in Nat /\ op = 4096 * p + r
    BY <1>0
  <2> HIDE DEF r
  <2>2. r < MEMORY_SIZE
    BY <1>5 DEF r
  <2>3. op % MEMORY_SIZE = Behind(p, r)
    <3>1. op = 4096 * p + r
      BY <2>1
    <3> QED
      BY <3>1 DEF Behind
  <2>4. op % MEMORY_SIZE = r
    BY <2>1, <2>2, <2>3, FieldAlone
  <2> QED
    BY <2>4 DEF r
<1> QED
  BY <1>1, <1>2, <1>3, <1>4, <1>5 DEF Digited, Nibble, Xof, Yof, KK, N, NNN

Readable(v) == v.t = "number" \/ (v.t = "name" /\ v.v \in leader)

Fields == {15, 255, MEMORY_SIZE - 1}

\* An instruction with an operand, that stands for the word op.
FitsValued(l, op, w, m, v) ==
  /\ Asm!Form(l) = Asm!Valued(w, v, m)
  /\ w + v.v = op /\ v.v \in 0 .. m /\ Readable(v)

\* An instruction that stands for the word op.
Fits(l, op) ==
  /\ Asm!IsInstruction(l)
  /\ \/ Asm!Form(l) = Asm!Fixed(op)
     \/ \E w \in Nat, m \in Fields, v \in OperandShape : FitsValued(l, op, w, m, v)

LEMMA ValueFits ==
  ASSUME NEW l, NEW w \in Nat, NEW m \in Fields, NEW k \in 0 .. m, NEW op,
         Asm!IsInstruction(l), Asm!Form(l) = Asm!Valued(w, Num(k), m), op = w + k
  PROVE  Fits(l, op)
<1>1. k \in Int
  BY Sizes DEF Fields
<1>2. Num(k) \in OperandShape /\ Num(k).v = k /\ Readable(Num(k))
  BY <1>1, Operands, OperandParts DEF Readable
<1>3. FitsValued(l, op, w, m, Num(k))
  BY <1>2, Zenon DEF FitsValued
<1> QED
  BY <1>2, <1>3 DEF Fits

LEMMA AddressFits ==
  ASSUME NEW l, NEW w \in Nat, NEW r \in 0 .. MEMORY_SIZE - 1, NEW op,
         Asm!IsInstruction(l), Asm!Form(l) = Asm!Valued(w, Address(r), MEMORY_SIZE - 1),
         op = w + r
  PROVE  Fits(l, op)
<1>1. r \in Int /\ MEMORY_SIZE - 1 \in Fields
  BY Sizes DEF Fields
<1>2. Address(r) \in OperandShape
  BY <1>1, AddressShape
<1>3. Address(r).v = r /\ Readable(Address(r))
  BY OperandParts DEF Readable, Address
<1>4. FitsValued(l, op, w, MEMORY_SIZE - 1, Address(r))
  BY <1>3, Zenon DEF FitsValued
<1> QED
  BY <1>1, <1>2, <1>4 DEF Fits

LEMMA FixedFits ==
  ASSUME NEW l, NEW w, NEW op, Asm!IsInstruction(l), Asm!Form(l) = Asm!Fixed(w), op = w
  PROVE  Fits(l, op)
  BY Zenon DEF Fits

\* What is known of a word the decoder takes apart.
Word(op, p) == op \in Nat /\ p \in 0 .. 15 /\ Nibble(op) = p /\ op # 224 /\ op # 238
AddressWord(op, p, r) ==
  Word(op, p) /\ op = 4096 * p + r /\ NNN(op) = r /\ r \in 0 .. MEMORY_SIZE - 1
ValueWord(op, p, x, k) ==
  /\ Word(op, p) /\ op = 4096 * p + 256 * x + k
  /\ x \in 0 .. 15 /\ Xof(op) = x /\ k \in 0 .. 255 /\ KK(op) = k
RegisterWord(op, p, x, y, n) ==
  /\ Word(op, p) /\ op = 4096 * p + 256 * x + 16 * y + n
  /\ x \in 0 .. 15 /\ Xof(op) = x /\ y \in 0 .. 15 /\ Yof(op) = y /\ n \in 0 .. 15 /\ N(op) = n

LEMMA JumpFits ==
  ASSUME NEW op, NEW p, NEW r, AddressWord(op, p, r)
  PROVE  p \in AddressNibbles => Fits(Decoded(op), op)
<1>0. op \in Nat /\ p \in 0 .. 15 /\ r \in 0 .. MEMORY_SIZE - 1
  BY DEF AddressWord, Word
<1> USE <1>0
<1> DEFINE address == Address(r)
<1>1. r \in Int /\ address.t \in {"number", "name"} /\ Num(r).t = "number"
  BY Sizes, OperandParts DEF Address
<1>2. MEMORY_SIZE - 1 \in Fields
  BY DEF Fields
<1>3. ASSUME p = 1 PROVE Fits(Decoded(op), op)
  <2>0. Nibble(op) = 1 /\ op = 4096 + r /\ NNN(op) = r /\ op # 224 /\ op # 238
    BY <1>3 DEF AddressWord, Word
  <2>1. Decoded(op) = Plain("JP", <<address>>)
    BY <2>0 DEF Decoded
  <2>2. Asm!Form(Plain("JP", <<address>>)) = Asm!Valued(4096, address, MEMORY_SIZE - 1)
    BY <1>1, PlainForms, AddressForms
  <2>3. Asm!IsInstruction(Plain("JP", <<address>>))
    BY AreInstructions DEF Mnemonic
  <2> QED
    BY <2>0, <2>1, <2>2, <2>3, AddressFits
<1>4. ASSUME p = 2 PROVE Fits(Decoded(op), op)
  <2>0. Nibble(op) = 2 /\ op = 8192 + r /\ NNN(op) = r /\ op # 224 /\ op # 238
    BY <1>4 DEF AddressWord, Word
  <2>1. Decoded(op) = Plain("CALL", <<address>>)
    BY <2>0 DEF Decoded
  <2>2. Asm!Form(Plain("CALL", <<address>>)) = Asm!Valued(8192, address, MEMORY_SIZE - 1)
    BY <1>1, PlainForms, AddressForms
  <2>3. Asm!IsInstruction(Plain("CALL", <<address>>))
    BY AreInstructions DEF Mnemonic
  <2> QED
    BY <2>0, <2>1, <2>2, <2>3, AddressFits
<1>5. ASSUME p = 10 PROVE Fits(Decoded(op), op)
  <2>0. Nibble(op) = 10 /\ op = 40960 + r /\ NNN(op) = r /\ op # 224 /\ op # 238
    BY <1>5 DEF AddressWord, Word
  <2>1. Decoded(op) = Plain("LD", <<Special("I"), address>>)
    BY <2>0 DEF Decoded
  <2>2. Asm!Form(Plain("LD", <<Special("I"), address>>)) = Asm!Valued(40960, address, MEMORY_SIZE - 1)
    BY <1>1, PlainPairs, AddressForms
  <2>3. Asm!IsInstruction(Plain("LD", <<Special("I"), address>>))
    BY AreInstructions DEF Mnemonic
  <2> QED
    BY <2>0, <2>1, <2>2, <2>3, AddressFits
<1>6. ASSUME p = 11 PROVE Fits(Decoded(op), op)
  <2>0. Nibble(op) = 11 /\ op = 45056 + r /\ NNN(op) = r /\ op # 224 /\ op # 238
    BY <1>6 DEF AddressWord, Word
  <2>1. Decoded(op) = Plain("JP", <<Reg(0), Num(r)>>)
    BY <2>0 DEF Decoded
  <2>2. Asm!Form(Plain("JP", <<Reg(0), Num(r)>>)) = Asm!Valued(45056, Num(r), MEMORY_SIZE - 1)
    BY <1>1, PlainPairs, AddressForms
  <2>3. Asm!IsInstruction(Plain("JP", <<Reg(0), Num(r)>>))
    BY AreInstructions DEF Mnemonic
  <2> QED
    BY <1>1, <1>2, <2>0, <2>1, <2>2, <2>3, ValueFits
<1> QED
  BY <1>3, <1>4, <1>5, <1>6 DEF AddressNibbles

ValueNibbles == {3, 4, 6, 7, 12}

LEMMA ValueDecoded ==
  ASSUME NEW op, NEW p, NEW x, NEW k, ValueWord(op, p, x, k)
  PROVE  p \in ValueNibbles => Fits(Decoded(op), op)
<1>0. op \in Nat /\ p \in 0 .. 15 /\ x \in 0 .. 15 /\ k \in 0 .. 255
  BY DEF ValueWord, Word
<1> USE <1>0
<1>1. x \in Int /\ Num(k).t \in {"number", "name"} /\ 255 \in Fields
  BY OperandParts DEF Fields
<1>2. ASSUME p = 3 PROVE Fits(Decoded(op), op)
  <2>0. Nibble(op) = 3 /\ op = 12288 + 256 * x + k /\ Xof(op) = x /\ KK(op) = k /\ op # 224 /\ op # 238
    BY <1>2 DEF ValueWord, Word
  <2>1. Decoded(op) = Plain("SE", <<Reg(x), Num(k)>>)
    BY <2>0 DEF Decoded
  <2>2. Asm!Form(Plain("SE", <<Reg(x), Num(k)>>)) = Asm!Valued(12288 + 256 * x, Num(k), 255)
    BY <1>1, PlainPairs, ValueForms
  <2>3. Asm!IsInstruction(Plain("SE", <<Reg(x), Num(k)>>))
    BY AreInstructions DEF Mnemonic
  <2> QED
    BY <1>1, <2>0, <2>1, <2>2, <2>3, ValueFits
<1>3. ASSUME p = 4 PROVE Fits(Decoded(op), op)
  <2>0. Nibble(op) = 4 /\ op = 16384 + 256 * x + k /\ Xof(op) = x /\ KK(op) = k /\ op # 224 /\ op # 238
    BY <1>3 DEF ValueWord, Word
  <2>1. Decoded(op) = Plain("SNE", <<Reg(x), Num(k)>>)
    BY <2>0 DEF Decoded
  <2>2. Asm!Form(Plain("SNE", <<Reg(x), Num(k)>>)) = Asm!Valued(16384 + 256 * x, Num(k), 255)
    BY <1>1, PlainPairs, ValueForms
  <2>3. Asm!IsInstruction(Plain("SNE", <<Reg(x), Num(k)>>))
    BY AreInstructions DEF Mnemonic
  <2> QED
    BY <1>1, <2>0, <2>1, <2>2, <2>3, ValueFits
<1>4. ASSUME p = 6 PROVE Fits(Decoded(op), op)
  <2>0. Nibble(op) = 6 /\ op = 24576 + 256 * x + k /\ Xof(op) = x /\ KK(op) = k /\ op # 224 /\ op # 238
    BY <1>4 DEF ValueWord, Word
  <2>1. Decoded(op) = Plain("LD", <<Reg(x), Num(k)>>)
    BY <2>0 DEF Decoded
  <2>2. Asm!Form(Plain("LD", <<Reg(x), Num(k)>>)) = Asm!Valued(24576 + 256 * x, Num(k), 255)
    BY <1>1, PlainPairs, ValueForms
  <2>3. Asm!IsInstruction(Plain("LD", <<Reg(x), Num(k)>>))
    BY AreInstructions DEF Mnemonic
  <2> QED
    BY <1>1, <2>0, <2>1, <2>2, <2>3, ValueFits
<1>5. ASSUME p = 7 PROVE Fits(Decoded(op), op)
  <2>0. Nibble(op) = 7 /\ op = 28672 + 256 * x + k /\ Xof(op) = x /\ KK(op) = k /\ op # 224 /\ op # 238
    BY <1>5 DEF ValueWord, Word
  <2>1. Decoded(op) = Plain("ADD", <<Reg(x), Num(k)>>)
    BY <2>0 DEF Decoded
  <2>2. Asm!Form(Plain("ADD", <<Reg(x), Num(k)>>)) = Asm!Valued(28672 + 256 * x, Num(k), 255)
    BY <1>1, PlainPairs, ValueForms
  <2>3. Asm!IsInstruction(Plain("ADD", <<Reg(x), Num(k)>>))
    BY AreInstructions DEF Mnemonic
  <2> QED
    BY <1>1, <2>0, <2>1, <2>2, <2>3, ValueFits
<1>6. ASSUME p = 12 PROVE Fits(Decoded(op), op)
  <2>0. Nibble(op) = 12 /\ op = 49152 + 256 * x + k /\ Xof(op) = x /\ KK(op) = k /\ op # 224 /\ op # 238
    BY <1>6 DEF ValueWord, Word
  <2>1. Decoded(op) = Plain("RND", <<Reg(x), Num(k)>>)
    BY <2>0 DEF Decoded
  <2>2. Asm!Form(Plain("RND", <<Reg(x), Num(k)>>)) = Asm!Valued(49152 + 256 * x, Num(k), 255)
    BY <1>1, PlainPairs, ValueForms
  <2>3. Asm!IsInstruction(Plain("RND", <<Reg(x), Num(k)>>))
    BY AreInstructions DEF Mnemonic
  <2> QED
    BY <1>1, <2>0, <2>1, <2>2, <2>3, ValueFits
<1> QED
  BY <1>2, <1>3, <1>4, <1>5, <1>6 DEF ValueNibbles

RegisterForm(p, n) == (p \in {5, 9} /\ n = 0) \/ (p = 8 /\ n \in ArithmeticDigits) \/ p = 13
MiscForm(p, k) == (p = 14 /\ k \in {158, 161}) \/ (p = 15 /\ k \in MiscOpcodes)

LEMMA RegisterFits ==
  ASSUME NEW op, NEW p, NEW x, NEW y, NEW n, RegisterWord(op, p, x, y, n)
  PROVE  RegisterForm(p, n) => Fits(Decoded(op), op)
<1>0. op \in Nat /\ p \in 0 .. 15 /\ x \in 0 .. 15 /\ y \in 0 .. 15 /\ n \in 0 .. 15
  BY DEF RegisterWord, Word
<1> USE <1>0
<1>1. x \in Int /\ y \in Int /\ 15 \in Fields
  BY DEF Fields
<1>2. ASSUME p = 5, n = 0 PROVE Fits(Decoded(op), op)
  <2>0. /\ Nibble(op) = 5 /\ op = 20480 + 256 * x + 16 * y
        /\ Xof(op) = x /\ Yof(op) = y /\ N(op) = n /\ op # 224 /\ op # 238
    BY <1>2 DEF RegisterWord, Word
  <2>1. Decoded(op) = Plain("SE", <<Reg(x), Reg(y)>>)
    BY <1>2, <2>0 DEF Decoded
  <2>2. Asm!Form(Plain("SE", <<Reg(x), Reg(y)>>)) = Asm!Fixed(20480 + 256 * x + 16 * y)
    BY <1>1, PlainPairs, RegisterForms
  <2>3. Asm!IsInstruction(Plain("SE", <<Reg(x), Reg(y)>>))
    BY AreInstructions DEF Mnemonic
  <2> QED
    BY <1>1, <2>0, <2>1, <2>2, <2>3, FixedFits
<1>3. ASSUME p = 9, n = 0 PROVE Fits(Decoded(op), op)
  <2>0. /\ Nibble(op) = 9 /\ op = 36864 + 256 * x + 16 * y
        /\ Xof(op) = x /\ Yof(op) = y /\ N(op) = n /\ op # 224 /\ op # 238
    BY <1>3 DEF RegisterWord, Word
  <2>1. Decoded(op) = Plain("SNE", <<Reg(x), Reg(y)>>)
    BY <1>3, <2>0 DEF Decoded
  <2>2. Asm!Form(Plain("SNE", <<Reg(x), Reg(y)>>)) = Asm!Fixed(36864 + 256 * x + 16 * y)
    BY <1>1, PlainPairs, RegisterForms
  <2>3. Asm!IsInstruction(Plain("SNE", <<Reg(x), Reg(y)>>))
    BY AreInstructions DEF Mnemonic
  <2> QED
    BY <1>1, <2>0, <2>1, <2>2, <2>3, FixedFits
<1>4. ASSUME p = 8, n \in ArithmeticDigits PROVE Fits(Decoded(op), op)
  <2> DEFINE name == ArithmeticName(n)
             w == ArithmeticWord(x, y, n)
  <2>0. /\ Nibble(op) = 8 /\ op = w
        /\ Xof(op) = x /\ Yof(op) = y /\ N(op) = n /\ op # 224 /\ op # 238
    BY <1>4 DEF RegisterWord, Word, ArithmeticWord
  <2>1. Decoded(op) = Plain(name, <<Reg(x), Reg(y)>>)
    BY <1>4, <2>0 DEF Decoded, ArithmeticDigits
  <2>2. Asm!Form(Plain(name, <<Reg(x), Reg(y)>>)) = Asm!Fixed(w)
    <3>1. Asm!PairForm(name, Reg(x), Reg(y)) = Asm!Fixed(w)
      BY <1>1, <1>4, ArithmeticForms
    <3>2. Asm!Form(Plain(name, <<Reg(x), Reg(y)>>)) = Asm!PairForm(name, Reg(x), Reg(y))
      BY PlainPairs
    <3> QED
      BY <3>1, <3>2
  <2>3. Asm!IsInstruction(Plain(name, <<Reg(x), Reg(y)>>))
    BY <1>4, AreInstructions DEF ArithmeticDigits
  <2> HIDE DEF w, name
  <2> QED
    BY <2>0, <2>1, <2>2, <2>3, FixedFits
<1>5. ASSUME p = 13 PROVE Fits(Decoded(op), op)
  <2>0. /\ Nibble(op) = 13 /\ op = 53248 + 256 * x + 16 * y + n
        /\ Xof(op) = x /\ Yof(op) = y /\ N(op) = n /\ op # 224 /\ op # 238
    BY <1>5 DEF RegisterWord, Word
  <2>1. Decoded(op) = Plain("DRW", <<Reg(x), Reg(y), Num(n)>>)
    BY <2>0 DEF Decoded
  <2>2. Asm!Form(Plain("DRW", <<Reg(x), Reg(y), Num(n)>>))
          = Asm!Valued(53248 + 256 * x + 16 * y, Num(n), 15)
    BY <1>1, DrawForm
  <2>3. Asm!IsInstruction(Plain("DRW", <<Reg(x), Reg(y), Num(n)>>))
    BY AreInstructions DEF Mnemonic
  <2> QED
    BY <1>1, <2>0, <2>1, <2>2, <2>3, ValueFits
<1> QED
  BY <1>2, <1>3, <1>4, <1>5 DEF RegisterForm

LEMMA MiscFits ==
  ASSUME NEW op, NEW p, NEW x, NEW k, ValueWord(op, p, x, k)
  PROVE  MiscForm(p, k) => Fits(Decoded(op), op)
<1>0. op \in Nat /\ p \in 0 .. 15 /\ x \in 0 .. 15 /\ k \in 0 .. 255
  BY DEF ValueWord, Word
<1> USE <1>0
<1>1. x \in Int
  OBVIOUS
<1>2. ASSUME p = 14, k = 158 PROVE Fits(Decoded(op), op)
  <2>0. Nibble(op) = 14 /\ op = 57502 + 256 * x /\ Xof(op) = x /\ KK(op) = k /\ op # 224 /\ op # 238
    BY <1>2 DEF ValueWord, Word
  <2>1. Decoded(op) = Plain("SKP", <<Reg(x)>>)
    BY <1>2, <2>0 DEF Decoded
  <2>2. Asm!Form(Plain("SKP", <<Reg(x)>>)) = Asm!Fixed(57502 + 256 * x)
    BY <1>1, PlainForms, SkipForms
  <2>3. Asm!IsInstruction(Plain("SKP", <<Reg(x)>>))
    BY AreInstructions DEF Mnemonic
  <2> QED
    BY <1>1, <2>0, <2>1, <2>2, <2>3, FixedFits
<1>3. ASSUME p = 14, k = 161 PROVE Fits(Decoded(op), op)
  <2>0. Nibble(op) = 14 /\ op = 57505 + 256 * x /\ Xof(op) = x /\ KK(op) = k /\ op # 224 /\ op # 238
    BY <1>3 DEF ValueWord, Word
  <2>1. Decoded(op) = Plain("SKNP", <<Reg(x)>>)
    BY <1>3, <2>0 DEF Decoded
  <2>2. Asm!Form(Plain("SKNP", <<Reg(x)>>)) = Asm!Fixed(57505 + 256 * x)
    BY <1>1, PlainForms, SkipForms
  <2>3. Asm!IsInstruction(Plain("SKNP", <<Reg(x)>>))
    BY AreInstructions DEF Mnemonic
  <2> QED
    BY <1>1, <2>0, <2>1, <2>2, <2>3, FixedFits
<1>4. ASSUME p = 15, k \in MiscOpcodes PROVE Fits(Decoded(op), op)
  <2> DEFINE l == MiscLine(k, Reg(x))
  <2>0. Nibble(op) = 15 /\ op = 61440 + 256 * x + k /\ Xof(op) = x /\ KK(op) = k /\ op # 224 /\ op # 238
    BY <1>4 DEF ValueWord, Word
  <2>1. Decoded(op) = l
    BY <1>4, <2>0 DEF Decoded
  <2>2. Len(l.args) = 2 /\ Asm!PairForm(l.op, l.args[1], l.args[2]) = Asm!Fixed(61440 + 256 * x + k)
    BY <1>1, <1>4, MiscForms
  <2>3. Asm!IsInstruction(l)
    BY <1>4, AreInstructions
  <2> HIDE DEF l
  <2>4. Asm!Form(l) = Asm!PairForm(l.op, l.args[1], l.args[2])
    BY <2>2 DEF Asm!Form
  <2>5. Asm!Form(l) = Asm!Fixed(61440 + 256 * x + k)
    BY <2>2, <2>4
  <2> QED
    BY <1>1, <2>0, <2>1, <2>3, <2>5, FixedFits
<1> QED
  BY <1>2, <1>3, <1>4 DEF MiscForm

Addressing(op, p) ==
  p \in AddressNibbles => \E r \in 0 .. MEMORY_SIZE - 1 : AddressWord(op, p, r)

LEMMA DecodedFits ==
  ASSUME NEW op, NEW p, NEW x, NEW y, NEW n, NEW k,
         Addressing(op, p), ValueWord(op, p, x, k), RegisterWord(op, p, x, y, n)
  PROVE  Decoded(op) = Plain(".WORD", <<Num(op)>>) \/ Fits(Decoded(op), op)
<1> DEFINE AsWord == Decoded(op) = Plain(".WORD", <<Num(op)>>)
           AsCode == Fits(Decoded(op), op)
<1>1. ASSUME p \in AddressNibbles PROVE AsCode
  <2>1. PICK r : AddressWord(op, p, r)
    BY <1>1 DEF Addressing
  <2> QED
    BY <1>1, <2>1, JumpFits, Zenon
<1>2. p \in ValueNibbles => AsCode
  BY ValueDecoded, Zenon
<1>3. RegisterForm(p, n) => AsCode
  BY RegisterFits, Zenon
<1>4. MiscForm(p, k) => AsCode
  BY MiscFits, Zenon
<1>5. p \in 0 .. 15 /\ n \in 0 .. 15 /\ k \in 0 .. 255
  BY DEF ValueWord, RegisterWord, Word
<1>6. Nibble(op) = p /\ KK(op) = k /\ N(op) = n /\ op # 224 /\ op # 238
  BY DEF ValueWord, RegisterWord, Word
<1>7. ASSUME p \notin AddressNibbles \cup ValueNibbles, ~RegisterForm(p, n), ~MiscForm(p, k)
      PROVE  AsWord
  BY <1>5, <1>6, <1>7
     DEF Decoded, AddressNibbles, ValueNibbles, RegisterForm, ArithmeticDigits, MiscForm
<1> HIDE DEF AsWord, AsCode
<1>8. AsWord \/ AsCode
  BY <1>1, <1>2, <1>3, <1>4, <1>7
<1> QED
  BY <1>8 DEF AsWord, AsCode

LEMMA FixedDecoded == Fits(Decoded(224), 224) /\ Fits(Decoded(238), 238)
<1>0. Nibble(224) = 0 /\ Nibble(238) = 0
  BY DEF Nibble
<1>1. Decoded(224) = Plain("CLS", << >>) /\ Decoded(238) = Plain("RET", << >>)
  BY <1>0 DEF Decoded
<1>2. /\ Asm!Form(Plain("CLS", << >>)) = Asm!Fixed(224)
      /\ Asm!Form(Plain("RET", << >>)) = Asm!Fixed(238)
  BY DEF Asm!Form, Plain, Labelled
<1>3. /\ Asm!IsInstruction(Plain("CLS", << >>))
      /\ Asm!IsInstruction(Plain("RET", << >>))
  BY AreInstructions DEF Mnemonic
<1> QED
  BY <1>1, <1>2, <1>3 DEF Fits

----------------------------------------------------------------------------
\* The bytes a printed line stands for.

SymbolsNamed(syms) == \A a \in leader : a \in DOMAIN syms /\ syms[a] = a

\* The assembler takes the line, and writes the word w for it.
Gives(l, at, syms, w) ==
  /\ ~Asm!Malformed(l)
  /\ ~Asm!Rejects(l, at, syms, TRUE)
  /\ Asm!Bytes(l, at, syms) = Asm!BigEndian(w)

LEMMA ReadableValue ==
  ASSUME NEW v, Readable(v), NEW syms, SymbolsNamed(syms)
  PROVE  Asm!Value(v, syms) = v.v /\ Asm!Defined(v, syms)
  BY DEF Readable, SymbolsNamed, Asm!Value, Asm!Defined

\* The operand has a value, and it fits.
InRange(l, syms) ==
  LET operand == Asm!Form(l).operand IN
  /\ Asm!Defined(operand, syms)
  /\ Asm!Value(operand, syms) \in Asm!WordValues
  /\ Asm!Value(operand, syms) <= Asm!Form(l).max

LEMMA FormGives ==
  ASSUME NEW l, NEW at, NEW syms, Asm!IsInstruction(l), Asm!Form(l) # Asm!NoForm, InRange(l, syms)
  PROVE  ~Asm!Malformed(l) /\ ~Asm!Rejects(l, at, syms, TRUE)
<1>1. l.op \notin {".ORG", ".BYTE", ".WORD"}
  BY DEF Asm!IsInstruction, Asm!Directives
<1>2. ~Asm!Malformed(l)
  BY <1>1 DEF Asm!Malformed
<1>3. Asm!Admitted(Asm!Value(Asm!Form(l).operand, syms), l, at)
  BY <1>1, Zenon DEF Asm!Admitted, InRange
<1>4. Asm!Values(l) = <<Asm!Form(l).operand>>
  BY DEF Asm!Values
<1>5. \A i \in DOMAIN Asm!Values(l) : Asm!Values(l)[i] = Asm!Form(l).operand
  BY <1>4
<1> QED
  BY <1>2, <1>3, <1>5, ValuesRejected DEF InRange

\* The words of a form.
LEMMA FixedParts ==
  ASSUME NEW w
  PROVE  /\ Asm!Fixed(w).word = w /\ 0 <= Asm!Fixed(w).max
         /\ Asm!Fixed(w).operand.t = "number" /\ Asm!Fixed(w).operand.v = 0
  BY DEF Asm!Fixed, Asm!Num

LEMMA NoWord ==
  ASSUME NEW l, NEW w \in Nat, Asm!Form(l).word = w
  PROVE  Asm!Form(l) # Asm!NoForm
<1>1. Asm!NoForm.word = -1
  BY FixedParts DEF Asm!NoForm
<1> QED
  BY <1>1

\* The widest value of all.
Widest == 65535

LEMMA SixteenBits ==
  ASSUME NEW op \in Nat, op <= Widest
  PROVE  op \in Asm!WordValues
<1>1. Widest \in Nat
  BY DEF Widest
<1>2. op \in 0 .. Widest
  BY <1>1
<1>3. Asm!WordValues = 0 .. Widest
  BY DEF Asm!WordValues, Widest
<1> QED
  BY <1>2, <1>3

LEMMA FieldWidths ==
  ASSUME NEW m \in Fields, NEW c \in 0 .. m
  PROVE  c \in Asm!WordValues /\ c <= m
<1>1. m \in Nat /\ m <= Widest
  <2>1. MEMORY_SIZE - 1 \in Nat /\ MEMORY_SIZE - 1 <= Widest
    BY MemoryAssumption DEF Widest
  <2>2. 15 <= Widest /\ 255 <= Widest
    BY DEF Widest
  <2> QED
    BY <2>1, <2>2 DEF Fields
<1>2. c \in Nat /\ c <= m /\ c <= Widest
  <2>1. Widest \in Nat
    BY DEF Widest
  <2> QED
    BY <1>1, <2>1
<1> QED
  BY <1>2, SixteenBits

LEMMA FitsGives ==
  ASSUME NEW l, NEW w \in Nat, NEW at, NEW syms, Fits(l, w), SymbolsNamed(syms)
  PROVE  Gives(l, at, syms, w)
<1>1. Asm!IsInstruction(l)
  BY DEF Fits
<1>2. Asm!Bytes(l, at, syms)
        = Asm!BigEndian(Asm!Form(l).word + Asm!Value(Asm!Form(l).operand, syms))
  BY <1>1, BytesInstruction, Zenon
<1>3. CASE Asm!Form(l) = Asm!Fixed(w)
  <2>1. /\ Asm!Form(l).word = w /\ 0 <= Asm!Form(l).max
        /\ Asm!Form(l).operand.t = "number" /\ Asm!Form(l).operand.v = 0
    BY <1>3, FixedParts, Zenon
  <2>2. Asm!Value(Asm!Form(l).operand, syms) = 0 /\ Asm!Defined(Asm!Form(l).operand, syms)
    BY <2>1 DEF Asm!Value, Asm!Defined
  <2>3. 0 \in Asm!WordValues
    BY DEF Asm!WordValues
  <2>4. InRange(l, syms)
    BY <2>1, <2>2, <2>3, Zenon DEF InRange
  <2>5. ~Asm!Malformed(l) /\ ~Asm!Rejects(l, at, syms, TRUE)
    BY <1>1, <2>1, <2>4, NoWord, FormGives
  <2>6. w + 0 = w
    OBVIOUS
  <2>7. Asm!Bytes(l, at, syms) = Asm!BigEndian(w)
    BY <1>2, <2>1, <2>2, <2>6, Zenon
  <2> QED
    BY <2>5, <2>7 DEF Gives
<1>4. CASE \E base \in Nat, m \in Fields, v \in OperandShape : FitsValued(l, w, base, m, v)
  <2>1. PICK base \in Nat, m \in Fields, v \in OperandShape : FitsValued(l, w, base, m, v)
    BY <1>4
  <2>2. /\ Asm!Form(l) = Asm!Valued(base, v, m)
        /\ base + v.v = w /\ v.v \in 0 .. m /\ Readable(v)
    BY <2>1 DEF FitsValued
  <2>0. Asm!Form(l) = Asm!Valued(base, v, m)
    BY <2>2
  <2>3. Asm!Form(l).word = base /\ Asm!Form(l).max = m /\ Asm!Form(l).operand = v
    BY <2>0 DEF Asm!Valued
  <2>4. Asm!Value(v, syms) = v.v /\ Asm!Defined(v, syms)
    BY <2>2, ReadableValue
  <2>5. v.v \in Asm!WordValues /\ v.v <= m
    BY <2>2, FieldWidths
  <2>6. InRange(l, syms)
    BY <2>3, <2>4, <2>5, Zenon DEF InRange
  <2>7. ~Asm!Malformed(l) /\ ~Asm!Rejects(l, at, syms, TRUE)
    BY <1>1, <2>3, <2>6, NoWord, FormGives
  <2>8. Asm!Bytes(l, at, syms) = Asm!BigEndian(w)
    BY <1>2, <2>2, <2>3, <2>4, Zenon
  <2> QED
    BY <2>7, <2>8 DEF Gives
<1> QED
  BY <1>3, <1>4 DEF Fits

LEMMA SameText ==
  ASSUME NEW l, NEW m, m.op = l.op, m.args = l.args, NEW w, Fits(l, w)
  PROVE  Fits(m, w)
<1>1. Asm!Form(m) = Asm!Form(l)
  BY DEF Asm!Form
<1>2. Asm!IsInstruction(m) <=> Asm!IsInstruction(l)
  BY DEF Asm!IsInstruction
<1> QED
  BY <1>1, <1>2 DEF Fits, FitsValued

LEMMA NumValue ==
  ASSUME NEW c, NEW syms
  PROVE  Asm!Value(Num(c), syms) = c /\ Asm!Defined(Num(c), syms)
  BY OperandParts DEF Asm!Value, Asm!Defined

LEMMA WordGives ==
  ASSUME NEW l, NEW w \in Asm!WordValues, l.op = ".WORD", l.args = <<Num(w)>>, NEW at, NEW syms
  PROVE  Gives(l, at, syms, w)
<1>1. ~Asm!IsInstruction(l) /\ ~Asm!Malformed(l)
  BY DEF Asm!Malformed, Asm!IsInstruction, Asm!Directives
<1>2. Asm!Values(l) = <<Num(w)>>
  BY <1>1 DEF Asm!Values
<1>3. Asm!Admitted(w, l, at)
  BY <1>1 DEF Asm!Admitted
<1>4. ~Asm!Rejects(l, at, syms, TRUE)
  <2>1. \A i \in DOMAIN Asm!Values(l) : Asm!Values(l)[i] = Num(w)
    BY <1>2
  <2>2. Asm!Value(Num(w), syms) = w /\ Asm!Defined(Num(w), syms)
    BY NumValue
  <2> QED
    BY <1>1, <1>3, <2>1, <2>2, ValuesRejected
<1>5. Asm!Bytes(l, at, syms) = WordsBytes(l, syms)
  BY BytesWord
<1>6. ByteOfWord(l, syms, 1) = Asm!BigEndian(w)[1] /\ ByteOfWord(l, syms, 2) = Asm!BigEndian(w)[2]
  <2>1. (1 + 1) \div 2 = 1 /\ (2 + 1) \div 2 = 1 /\ 2 - (1 % 2) = 1 /\ 2 - (2 % 2) = 2
    OBVIOUS
  <2>2. Asm!Value(l.args[1], syms) = w
    <3>1. l.args[1] = Num(w)
      OBVIOUS
    <3> QED
      BY <3>1, NumValue
  <2> QED
    BY <2>1, <2>2 DEF ByteOfWord
<1>7. WordsBytes(l, syms) = <<Asm!BigEndian(w)[1], Asm!BigEndian(w)[2]>>
  <2>1. Len(l.args) = 1
    OBVIOUS
  <2>2. WordsBytes(l, syms) = [i \in 1 .. 2 |-> ByteOfWord(l, syms, i)]
    BY <2>1 DEF WordsBytes
  <2>3. [i \in 1 .. 2 |-> ByteOfWord(l, syms, i)] = <<ByteOfWord(l, syms, 1), ByteOfWord(l, syms, 2)>>
    OBVIOUS
  <2> QED
    BY <1>6, <2>2, <2>3, Zenon
<1>8. Asm!BigEndian(w) = <<Asm!BigEndian(w)[1], Asm!BigEndian(w)[2]>>
  BY DEF Asm!BigEndian
<1> QED
  BY <1>1, <1>4, <1>5, <1>7, <1>8, Zenon DEF Gives

LEMMA ByteGives ==
  ASSUME NEW l, NEW byte \in 0 .. 255, l.op = ".BYTE", l.args = <<Num(byte)>>, NEW at, NEW syms
  PROVE  /\ ~Asm!Malformed(l)
         /\ ~Asm!Rejects(l, at, syms, TRUE)
         /\ Asm!Bytes(l, at, syms) = <<byte>>
<1>1. ~Asm!IsInstruction(l) /\ ~Asm!Malformed(l)
  BY DEF Asm!Malformed, Asm!IsInstruction, Asm!Directives
<1>2. Asm!Values(l) = <<Num(byte)>>
  BY <1>1 DEF Asm!Values
<1>3. Asm!Admitted(byte, l, at)
  <2>1. byte \in Asm!WordValues /\ byte <= 255
    <3>1. byte \in Nat /\ byte <= 255 /\ byte <= Widest
      BY DEF Widest
    <3> QED
      BY <3>1, SixteenBits
  <2> QED
    BY <1>1, <2>1 DEF Asm!Admitted
<1>4. ~Asm!Rejects(l, at, syms, TRUE)
  <2>1. \A i \in DOMAIN Asm!Values(l) : Asm!Values(l)[i] = Num(byte)
    BY <1>2
  <2>2. Asm!Value(Num(byte), syms) = byte /\ Asm!Defined(Num(byte), syms)
    BY NumValue
  <2> QED
    BY <1>1, <1>3, <2>1, <2>2, ValuesRejected
<1>5. Asm!Bytes(l, at, syms) = ByteBytes(l, syms)
  BY BytesByte
<1>6. ByteBytes(l, syms) = [i \in 1 .. 1 |-> ByteOfByte(l, syms, i)]
  <2>1. DOMAIN l.args = 1 .. 1
    OBVIOUS
  <2> QED
    BY <2>1 DEF ByteBytes
<1>7. ByteOfByte(l, syms, 1) = byte
  <2>1. l.args[1] = Num(byte)
    OBVIOUS
  <2> QED
    BY <2>1, NumValue DEF ByteOfByte
<1>8. [i \in 1 .. 1 |-> ByteOfByte(l, syms, i)] = <<ByteOfByte(l, syms, 1)>>
  OBVIOUS
<1>9. <<ByteOfByte(l, syms, 1)>> = <<byte>>
  BY <1>7
<1> QED
  BY <1>1, <1>4, <1>5, <1>6, <1>8, <1>9, Zenon

OfBytes(op, hi, lo) ==
  hi \in 0 .. 255 /\ lo \in 0 .. 255 /\ op \in Nat /\ op = 256 * hi + lo

LEMMA BigEndianBytes ==
  ASSUME NEW hi, NEW lo, NEW op, OfBytes(op, hi, lo)
  PROVE  op \in Asm!WordValues /\ Asm!BigEndian(op) = <<hi, lo>>
<1>0. hi \in 0 .. 255 /\ lo \in 0 .. 255 /\ op \in Nat /\ op = 256 * hi + lo
  BY DEF OfBytes
<1>1. (256 * hi + lo) \div 256 = hi
  BY <1>0
<1>2. (256 * hi + lo) % 256 = lo
  BY <1>0
<1>3. 256 * hi + lo <= Widest
  BY <1>0 DEF Widest
<1>4. op \div 256 = hi /\ op % 256 = lo /\ op <= Widest
  BY <1>0, <1>1, <1>2, <1>3
<1>5. op \in Asm!WordValues
  BY <1>0, <1>4, SixteenBits
<1>6. Asm!BigEndian(op) = <<op \div 256, op % 256>>
  BY DEF Asm!BigEndian
<1> QED
  BY <1>4, <1>5, <1>6

\* A byte is two digits.
LEMMA Digits ==
  ASSUME NEW byte \in 0 .. 255
  PROVE  \E h, l \in 0 .. 15 : h = byte \div 16 /\ l = byte % 16 /\ byte = 16 * h + l
<1>1. byte \div 16 \in 0 .. 15 /\ byte % 16 \in 0 .. 15
  OBVIOUS
<1>2. byte = 16 * (byte \div 16) + (byte % 16)
  OBVIOUS
<1>3. PICK h, l : h = byte \div 16 /\ l = byte % 16
  OBVIOUS
<1>4. h \in 0 .. 15 /\ l \in 0 .. 15 /\ byte = 16 * h + l
  BY <1>1, <1>2, <1>3
<1> QED
  BY <1>3, <1>4, Zenon

LEMMA WordFits ==
  ASSUME NEW hi, NEW lo, NEW op, OfBytes(op, hi, lo),
         hi \div 16 \in AddressNibbles => 256 * (hi % 16) + lo < MEMORY_SIZE
  PROVE  Decoded(op) = Plain(".WORD", <<Num(op)>>) \/ Fits(Decoded(op), op)
<1>0. hi \in 0 .. 255 /\ lo \in 0 .. 255 /\ op \in Nat
  BY DEF OfBytes
<1>1. PICK p \in 0 .. 15, x \in 0 .. 15 : p = hi \div 16 /\ x = hi % 16 /\ hi = 16 * p + x
  BY <1>0, Digits
<1>2. PICK y \in 0 .. 15, n \in 0 .. 15 : lo = 16 * y + n
  BY <1>0, Digits
<1>3. PICK r \in Nat : r = 256 * x + lo
  BY <1>0
<1>4. /\ op = 4096 * p + 256 * x + lo /\ op = 4096 * p + 256 * x + 16 * y + n
      /\ op = 4096 * p + r /\ r = 256 * x + 16 * y + n
  BY <1>0, <1>1, <1>2, <1>3 DEF OfBytes
<1>5. p \in AddressNibbles => r < MEMORY_SIZE
  <2>1. p \in AddressNibbles => 256 * x + lo < MEMORY_SIZE
    <3>1. p = hi \div 16 /\ x = hi % 16
      BY <1>1
    <3> QED
      BY <3>1, Zenon
  <2> QED
    BY <1>3, <2>1
<1>6. Digited(op, p, x, y, n)
  <2>1. OfDigits(op, p, x, y, n)
    BY <1>0, <1>4 DEF OfDigits
  <2> QED
    BY <2>1, DigitsOf, Zenon
<1>7. KK(op) = lo /\ (p \in AddressNibbles => NNN(op) = r /\ r \in 0 .. MEMORY_SIZE - 1)
  <2>1. KK(op) = lo
    <3>1. KK(op) = 16 * y + n
      BY <1>6 DEF Digited
    <3> QED
      BY <1>2, <3>1
  <2>2. ASSUME p \in AddressNibbles
        PROVE  NNN(op) = r /\ r \in 0 .. MEMORY_SIZE - 1
    <3>1. r < MEMORY_SIZE
      BY <1>5, <2>2
    <3>2. NNN(op) = 256 * x + 16 * y + n
      <4>1. 256 * x + 16 * y + n < MEMORY_SIZE
        BY <1>4, <3>1
      <4> QED
        BY <1>6, <4>1, Zenon DEF Digited
    <3> QED
      BY <1>4, <3>1, <3>2, Sizes
  <2> QED
    BY <2>1, <2>2
<1>8. CASE op = 224 \/ op = 238
  BY <1>0, <1>8, FixedDecoded
<1>9. CASE op # 224 /\ op # 238
  <2>1. Word(op, p)
    BY <1>0, <1>6, <1>9 DEF Word, Digited
  <2>2. ValueWord(op, p, x, lo)
    BY <1>0, <1>4, <1>6, <1>7, <2>1 DEF ValueWord, Digited
  <2>3. RegisterWord(op, p, x, y, n)
    BY <1>0, <1>4, <1>6, <2>1 DEF RegisterWord, Digited
  <2>4. Addressing(op, p)
    BY <1>4, <1>7, <2>1 DEF AddressWord, Addressing
  <2> QED
    BY <2>2, <2>3, <2>4, DecodedFits, Zenon
<1> QED
  BY <1>8, <1>9

----------------------------------------------------------------------------
\* A listing, line by line: a word of the ROM each, and the odd byte.

Rows == Len(rom) \div 2
Spot(i) == ENTRYPOINT + 2 * (i - 1)

\* The line stands for the word.
Tells(l, w) == (l.op = ".WORD" /\ l.args = <<Num(w)>>) \/ Fits(l, w)

ListingLike ==
  /\ Sourced
  /\ \A i \in 1 .. Rows : Tells(source[i], WordAt(Spot(i)))
  /\ \A i \in 1 .. Len(source) : source[i].label = LabelAt(Spot(i))
  /\ \/ Len(rom) = 2 * Rows /\ Len(source) = Rows
     \/ /\ Len(rom) = 2 * Rows + 1 /\ Len(source) = Rows + 1
        /\ source[Rows + 1].op = ".BYTE"
        /\ source[Rows + 1].args = <<Num(ByteAt(Spot(Rows + 1)))>>

LEMMA Halves ==
  ASSUME TypeOK
  PROVE  /\ Rows \in Nat
         /\ Len(rom) % 2 = 0 => Len(rom) = 2 * Rows
         /\ Len(rom) % 2 # 0 => Len(rom) = 2 * Rows + 1
<1>1. PICK n \in Nat : n = Len(rom)
  BY DEF TypeOK
<1>2. n \div 2 \in Nat /\ (n % 2 = 0 => n = 2 * (n \div 2)) /\ (n % 2 # 0 => n = 2 * (n \div 2) + 1)
  OBVIOUS
<1> QED
  BY <1>1, <1>2 DEF Rows

LEMMA Joined ==
  ASSUME NEW S, NEW s \in Seq(S), NEW t \in Seq(S)
  PROVE  /\ Len(s \o t) = Len(s) + Len(t)
         /\ \A k \in 1 .. Len(s) : (s \o t)[k] = s[k]
         /\ \A k \in 1 .. Len(t) : (s \o t)[Len(s) + k] = t[k]
  OBVIOUS

LEMMA SpotAddress ==
  ASSUME TypeOK, NEW i \in 1 .. Rows
  PROVE  Spot(i) \in Int /\ Spot(i) + 1 \in Int
<1>1. i \in Int
  BY Halves
<1> QED
  BY <1>1, Sizes DEF Spot

\* The bytes of the image at the address of a line.
LEMMA SpotBytes ==
  ASSUME TypeOK, NEW i \in 1 .. Rows
  PROVE  /\ Spot(i) \in Int
         /\ 2 * i - 1 \in 1 .. Len(rom) - 1
         /\ ByteAt(Spot(i)) = rom[2 * i - 1] /\ ByteAt(Spot(i) + 1) = rom[2 * i]
<1>1. Rows \in Nat /\ Len(rom) \in Nat /\ 2 * Rows <= Len(rom) /\ i \in Int
  <2>1. Len(rom) % 2 = 0 \/ Len(rom) % 2 # 0
    OBVIOUS
  <2> QED
    BY <2>1, Halves, EndRange
<1>2. PICK a \in Int : a = ENTRYPOINT + 2 * (i - 1)
  BY <1>1, Sizes
<1>3. a \in ENTRYPOINT .. End - 1 /\ a + 1 \in ENTRYPOINT .. End - 1
  BY <1>1, <1>2, EndRange, Sizes
<1>4. a - ENTRYPOINT + 1 = 2 * i - 1 /\ (a + 1) - ENTRYPOINT + 1 = 2 * i
  BY <1>1, <1>2, Sizes
<1>5. ByteAt(a) = rom[2 * i - 1] /\ ByteAt(a + 1) = rom[2 * i]
  BY <1>3, <1>4 DEF ByteAt
<1>6. 2 * i - 1 \in 1 .. Len(rom) - 1
  BY <1>1
<1> QED
  BY <1>2, <1>5, <1>6 DEF Spot

LEMMA LineTells ==
  ASSUME TypeOK, rom \in ROMs, NEW i \in 1 .. Rows
  PROVE  Tells(LineAt(Spot(i)), WordAt(Spot(i)))
<1> DEFINE a == Spot(i)
<1>1. a \in Int /\ a + 1 \in Int
  BY SpotAddress, Zenon
<1>2. PICK hi \in 0 .. 255, lo \in 0 .. 255 : hi = ByteAt(a) /\ lo = ByteAt(a + 1)
  BY <1>1, ByteRange, Zenon
<1>3. PICK w \in Nat : w = WordAt(a)
  BY <1>1, WordRange
<1>4. OfBytes(w, hi, lo)
  BY <1>2, <1>3 DEF OfBytes, WordAt
<1>5. hi \div 16 \in AddressNibbles => 256 * (hi % 16) + lo < MEMORY_SIZE
  <2>1. PICK k \in Int : k = 2 * i - 1
    OBVIOUS
  <2>2. k \in 1 .. Len(rom) - 1 /\ hi = rom[k] /\ lo = rom[k + 1]
    <3>1. k + 1 = 2 * i
      BY <2>1
    <3> QED
      BY <1>2, <2>1, <3>1, SpotBytes
  <2>3. k % 2 = 1
    BY <2>1
  <2> QED
    BY <2>2, <2>3, AddressesAssumption, ZenonT(30)
<1>6. Decoded(w) = Plain(".WORD", <<Num(w)>>) \/ Fits(Decoded(w), w)
  BY <1>4, <1>5, WordFits
<1>7. LineAt(a).op = LineText(a).op /\ LineAt(a).args = LineText(a).args
  BY <1>1, LineShaped
<1>8. LineText(a) = Decoded(w) \/ LineText(a) = Plain(".WORD", <<Num(w)>>)
  BY <1>3 DEF LineText
<1>9. Plain(".WORD", <<Num(w)>>).op = ".WORD" /\ Plain(".WORD", <<Num(w)>>).args = <<Num(w)>>
  BY DEF Plain, Labelled
<1>10. CASE LineText(a) = Plain(".WORD", <<Num(w)>>)
  BY <1>3, <1>7, <1>9, <1>10 DEF Tells
<1>11. CASE Fits(LineText(a), w)
  BY <1>3, <1>7, <1>11, SameText DEF Tells
<1> QED
  BY <1>6, <1>8, <1>10, <1>11

LEMMA ListingLines ==
  ASSUME TypeOK, rom \in ROMs, source = Listing
  PROVE  ListingLike
<1> DEFINE words == [i \in 1 .. Rows |-> LineAt(Spot(i))]
<1>0. Rows \in Nat /\ Len(rom) \in Nat
  BY Halves, EndRange
<1>1. \A i \in 1 .. Rows + 1 : Spot(i) \in Int
  BY <1>0, Sizes DEF Spot
<1>2. \A i \in 1 .. Rows :
        LineAt(Spot(i)) \in LineShape /\ LineAt(Spot(i)).label = LabelAt(Spot(i))
  BY <1>0, <1>1, LineShaped
<1>3. /\ words \in Seq(LineShape) /\ Len(words) = Rows
      /\ \A i \in 1 .. Rows : words[i] = LineAt(Spot(i))
  <2>1. words \in Seq(LineShape)
    BY <1>0, <1>2, IsASeq
  <2> QED
    BY <1>0, <2>1
<1>4. source = words \o TrailingByte
  BY DEF Listing, Spot, Rows
<1>5. Sourced
  BY ListingShaped DEF Sourced
<1> HIDE DEF words
<1>6. CASE Len(rom) % 2 = 0
  <2>1. Len(rom) = 2 * Rows
    BY <1>6, Halves
  <2>2. source = words
    <3>1. TrailingByte = << >>
      BY <1>6 DEF TrailingByte
    <3> QED
      BY <1>3, <1>4, <3>1
  <2>3. \A i \in 1 .. Rows : Tells(source[i], WordAt(Spot(i)))
    BY <1>3, <2>2, LineTells
  <2> QED
    BY <1>2, <1>3, <1>5, <2>1, <2>2, <2>3 DEF ListingLike
<1>7. CASE Len(rom) % 2 # 0
  <2> DEFINE last == Labelled(LabelAt(End - 1), ".BYTE", <<Num(ByteAt(End - 1))>>)
  <2>1. Len(rom) = 2 * Rows + 1
    BY <1>7, Halves
  <2>2. End - 1 = Spot(Rows + 1)
    BY <1>0, <2>1, EndRange, Sizes DEF Spot
  <2>3. TrailingByte = <<last>>
    BY <1>7 DEF TrailingByte
  <2>4. /\ last.label = LabelAt(Spot(Rows + 1)) /\ last.op = ".BYTE"
        /\ last.args = <<Num(ByteAt(Spot(Rows + 1)))>>
    BY <2>2 DEF Labelled
  <2> HIDE DEF last
  <2>5. last \in LineShape
    <3>1. ByteAt(End - 1) \in Int /\ LabelAt(End - 1) \in Int
      <4>1. Spot(Rows + 1) \in Int
        BY <1>0, <1>1
      <4>2. ByteAt(Spot(Rows + 1)) \in 0 .. 255 /\ LabelAt(Spot(Rows + 1)) \in Int
        BY <4>1, ByteRange, LabelShape
      <4> QED
        BY <2>2, <4>2
    <3>2. <<Num(ByteAt(End - 1))>> \in Seq(OperandShape)
      <4>1. Num(ByteAt(End - 1)) \in OperandShape
        BY <3>1, Operands
      <4> QED
        BY <4>1
    <3>3. ".BYTE" \in Operations
      BY Mnemonics
    <3> QED
      BY <3>1, <3>2, <3>3, LabelledShape DEF last
  <2>6. /\ Len(source) = Rows + 1 /\ source[Rows + 1] = last
        /\ \A i \in 1 .. Rows : source[i] = words[i]
    <3>1. <<last>> \in Seq(LineShape) /\ Len(<<last>>) = 1 /\ <<last>>[1] = last
      BY <2>5
    <3> QED
      BY <1>0, <1>3, <1>4, <2>3, <3>1, Joined
  <2>7. \A i \in 1 .. Rows : Tells(source[i], WordAt(Spot(i)))
    BY <1>3, <2>6, LineTells
  <2>8. \A i \in 1 .. Rows + 1 : source[i].label = LabelAt(Spot(i))
    <3>1. \A i \in 1 .. Rows + 1 : i \in 1 .. Rows \/ i = Rows + 1
      BY <1>0
    <3> QED
      BY <1>2, <1>3, <2>4, <2>6, <3>1
  <2> QED
    BY <1>5, <2>1, <2>4, <2>6, <2>7, <2>8 DEF ListingLike
<1> QED
  BY <1>6, <1>7

----------------------------------------------------------------------------
\* Every line of a listing is at its word's address, where its label says.

LEMMA TellsNext ==
  ASSUME NEW i, NEW w, Tells(source[i], w), NEW place
  PROVE  source[i].op # ".ORG" /\ Asm!Beyond(i, place) = place + 2
<1>1. CASE source[i].op = ".WORD" /\ source[i].args = <<Num(w)>>
  <2>1. Len(source[i].args) = 1 /\ 2 * 1 = 2
    BY <1>1
  <2>2. ~Asm!IsInstruction(source[i]) /\ source[i].op # ".BYTE" /\ source[i].op # ".ORG"
    BY <1>1 DEF Asm!IsInstruction, Asm!Directives
  <2> QED
    BY <1>1, <2>1, <2>2, Zenon DEF Asm!Beyond
<1>2. CASE Fits(source[i], w)
  <2>1. Asm!IsInstruction(source[i])
    BY <1>2 DEF Fits
  <2> QED
    BY <2>1 DEF Asm!Beyond, Asm!IsInstruction, Asm!Directives
<1> QED
  BY <1>1, <1>2 DEF Tells

LEMMA ListingSizes ==
  ASSUME TypeOK, ListingLike
  PROVE  /\ Sourced /\ Rows \in Nat /\ Len(source) \in Nat /\ Len(rom) \in Nat
         /\ \/ Len(rom) = 2 * Rows /\ Len(source) = Rows
            \/ Len(rom) = 2 * Rows + 1 /\ Len(source) = Rows + 1
         /\ \A i \in 1 .. Len(source) + 1 : Spot(i) \in Int
         /\ \A i \in 1 .. Len(source) : Spot(i) \in ENTRYPOINT .. End - 1 /\ Spot(i) # NoLabel
         /\ \A i \in 1 .. Rows + 1 : Spot(i) <= End
<1>1. Sourced /\ Rows \in Nat /\ Len(source) \in Nat /\ Len(rom) \in Nat
  BY Halves, EndRange DEF ListingLike, Sourced
<1>2. \/ Len(rom) = 2 * Rows /\ Len(source) = Rows
      \/ Len(rom) = 2 * Rows + 1 /\ Len(source) = Rows + 1
  BY DEF ListingLike
<1>3. \A i \in 1 .. Len(source) + 1 : Spot(i) \in Int
  BY <1>1, Sizes DEF Spot
<1>4. \A i \in 1 .. Len(source) : Spot(i) \in ENTRYPOINT .. End - 1 /\ Spot(i) # NoLabel
  BY <1>1, <1>2, EndRange, Sizes DEF Spot, NoLabel
<1>5. \A i \in 1 .. Rows + 1 : Spot(i) <= End
  BY <1>1, <1>2, EndRange, Sizes DEF Spot
<1> QED
  BY <1>1, <1>2, <1>3, <1>4, <1>5

LEMMA PlaceNext ==
  ASSUME TypeOK, ListingLike, NEW i \in 1 .. Rows, Asm!Places[i] = Spot(i)
  PROVE  Asm!Places[i + 1] = Spot(i + 1)
<1>1. i \in 1 .. Len(source) /\ i + 1 # 1 /\ (i + 1) - 1 = i
  BY ListingSizes
<1>2. Asm!Places[i + 1] = PlaceOf(Asm!Places, i + 1)
  BY <1>1, ListingSizes, PlacesSolve
<1>3. Tells(source[i], WordAt(Spot(i)))
  BY DEF ListingLike
<1>4. source[i].op # ".ORG" /\ Asm!Beyond(i, Spot(i)) = Spot(i) + 2
  BY <1>3, TellsNext
<1>5. PlaceOf(Asm!Places, i + 1) = Spot(i) + 2
  BY <1>1, <1>4, Zenon DEF PlaceOf
<1>6. Spot(i + 1) = Spot(i) + 2
  BY <1>1, Sizes DEF Spot
<1> QED
  BY <1>2, <1>5, <1>6

LEMMA ListingPlaces ==
  ASSUME TypeOK, ListingLike
  PROVE  \A i \in 1 .. Rows + 1 : Asm!Places[i] = Spot(i)
<1> DEFINE Off == {i \in 1 .. Rows + 1 : Asm!Places[i] # Spot(i)}
<1> SUFFICES ASSUME Off # {}
             PROVE  FALSE
  OBVIOUS
<1>1. Rows + 1 \in Nat /\ Off \in SUBSET (1 .. Rows + 1)
  BY ListingSizes
<1>2. PICK m \in Off : \A y \in Off : m <= y
  BY <1>1, LeastElement
<1>3. m \in 1 .. Rows + 1 /\ Asm!Places[m] # Spot(m)
  OBVIOUS
<1>4. m # 1
  <2>1. Spot(1) = ENTRYPOINT
    BY Sizes DEF Spot
  <2> QED
    BY <1>3, <2>1, ListingSizes, PlacesSolve
<1>5. m - 1 \in 1 .. Rows /\ (m - 1) + 1 = m /\ ~(m <= m - 1) /\ m - 1 \in 1 .. Rows + 1
  BY <1>1, <1>3, <1>4, ListingSizes
<1>6. Asm!Places[m - 1] = Spot(m - 1)
  BY <1>2, <1>5
<1>7. Asm!Places[m] = Spot(m)
  BY <1>5, <1>6, PlaceNext
<1> QED
  BY <1>3, <1>7

LEMMA LastPlace ==
  ASSUME TypeOK, ListingLike
  PROVE  Asm!Places[Len(source) + 1] = End
<1>1. CASE Len(rom) = 2 * Rows /\ Len(source) = Rows
  <2>1. Spot(Rows + 1) = End
    BY <1>1, ListingSizes, EndRange, Sizes DEF Spot
  <2>2. Rows + 1 \in 1 .. Rows + 1
    BY ListingSizes
  <2> QED
    BY <1>1, <2>1, <2>2, ListingPlaces
<1>2. CASE Len(rom) = 2 * Rows + 1 /\ Len(source) = Rows + 1
  <2>1. Spot(Rows + 1) + 1 = End /\ Rows + 1 \in 1 .. Rows + 1
    <3>1. Spot(Rows + 1) = ENTRYPOINT + 2 * Rows
      <4>1. (Rows + 1) - 1 = Rows
        BY ListingSizes
      <4> QED
        BY <4>1 DEF Spot
    <3>2. End = ENTRYPOINT + (2 * Rows + 1) /\ Rows \in Nat
      BY <1>2, ListingSizes, EndRange
    <3> QED
      BY <3>1, <3>2, Sizes
  <2>2. /\ source[Rows + 1].op = ".BYTE" /\ source[Rows + 1].args = <<Num(ByteAt(Spot(Rows + 1)))>>
    BY <1>2, ListingSizes DEF ListingLike
  <2>3. Len(source[Rows + 1].args) = 1
    BY <2>2
  <2>4. Asm!Beyond(Rows + 1, Spot(Rows + 1)) = Spot(Rows + 1) + 1
    BY <2>2, <2>3, Zenon DEF Asm!Beyond, Asm!IsInstruction, Asm!Directives
  <2>5. Asm!Places[Rows + 1] = Spot(Rows + 1)
    BY <2>1, ListingPlaces
  <2>6. (Rows + 1) + 1 # 1 /\ ((Rows + 1) + 1) - 1 = Rows + 1 /\ Rows + 1 \in 1 .. Len(source)
    BY <1>2, ListingSizes
  <2>7. Asm!Places[(Rows + 1) + 1] = PlaceOf(Asm!Places, (Rows + 1) + 1)
    BY <2>6, ListingSizes, PlacesSolve
  <2>8. PlaceOf(Asm!Places, (Rows + 1) + 1) = Spot(Rows + 1) + 1
    <3>1. source[Rows + 1].op # ".ORG"
      BY <2>2
    <3> QED
      BY <2>4, <2>5, <2>6, <3>1, Zenon DEF PlaceOf
  <2> QED
    BY <1>2, <2>1, <2>7, <2>8
<1> QED
  BY <1>1, <1>2, ListingSizes

\* A line with this address.
LEMMA RowOf ==
  ASSUME TypeOK, ListingLike, NEW a \in ENTRYPOINT .. End - 1, a % 2 = 0
  PROVE  \E i \in 1 .. Len(source) : Spot(i) = a
<1>1. PICK k \in Nat : a = ENTRYPOINT + 2 * k
  <2>1. (a - ENTRYPOINT) % 2 = 0 /\ a - ENTRYPOINT \in Nat
    BY Sizes
  <2>2. PICK d \in Nat : d = a - ENTRYPOINT
    BY <2>1
  <2>3. d = 2 * (d \div 2) /\ d \div 2 \in Nat
    BY <2>1, <2>2
  <2> QED
    BY <2>2, <2>3, Sizes
<1>2. k + 1 \in 1 .. Len(source) /\ Spot(k + 1) = a
  BY <1>1, ListingSizes, EndRange, Sizes DEF Spot
<1> QED
  BY <1>2

LEMMA SpotsDiffer ==
  ASSUME TypeOK, ListingLike, NEW i \in 1 .. Len(source), NEW j \in 1 .. Len(source),
         Spot(i) = Spot(j)
  PROVE  i = j
  BY ListingSizes, Sizes DEF Spot

LEMMA ListingSymbols ==
  ASSUME TypeOK, ListingLike, LeaderInv, phase # "analyze", rom # << >>
  PROVE  SymbolsNamed(Asm!Meaning)
<1> SUFFICES ASSUME NEW a \in leader
             PROVE  a \in DOMAIN Asm!Meaning /\ Asm!Meaning[a] = a
  BY DEF SymbolsNamed
<1>1. a % 2 = 0 /\ a \in ENTRYPOINT .. End - 1
  <2>1. a % 2 = 0 /\ a >= ENTRYPOINT /\ a < End /\ a \in Int
    BY Sizes DEF LeaderInv, TypeOK
  <2> QED
    BY <2>1, EndRange, Sizes
<1>2. PICK i \in 1 .. Len(source) : Spot(i) = a
  BY <1>1, RowOf
<1>3. source[i].label = a /\ a # NoLabel
  BY <1>2, ListingSizes DEF ListingLike, LabelAt
<1>4. PICK d \in 1 .. i : source[d].label = a /\ Asm!Meaning[a] = Asm!Places[d]
  <2>1. source[i].label # NoLabel /\ Sourced
    BY <1>3, ListingSizes
  <2>2. PICK d \in 1 .. i : /\ source[d].label = source[i].label
                            /\ Asm!Meaning[source[i].label] = Asm!Places[d]
    BY <2>1, MeaningAt
  <2> QED
    BY <1>3, <2>2
<1>5. d \in 1 .. Len(source)
  BY <1>2, <1>4, ListingSizes
<1>6. Spot(d) = a
  <2>1. LabelAt(Spot(d)) = a
    BY <1>4, <1>5 DEF ListingLike
  <2> QED
    BY <1>3, <2>1 DEF LabelAt
<1>7. Asm!Places[d] = Spot(d)
  BY <1>5, ListingSizes, ListingPlaces
<1>8. a \in Asm!Labels
  <2>1. i \in Asm!Lines
    BY <1>2, ListingSizes DEF Asm!Lines, Sourced
  <2> QED
    BY <1>3, <2>1, NoLabels DEF Asm!Labels
<1> QED
  BY <1>4, <1>6, <1>7, <1>8 DEF Asm!Meaning

----------------------------------------------------------------------------
\* A listing is well-formed.

LEMMA ListingLabels ==
  ASSUME TypeOK, ListingLike
  PROVE  Asm!Cardinality(Asm!Labels) <= MAX_SYMBOLS
<1> DEFINE rows == 1 .. Len(source)
           label == [i \in rows |-> source[i].label]
           image == {label[i] : i \in rows}
<1>1. Len(source) \in Nat /\ IsFiniteSet(rows) /\ Cardinality(rows) = Len(source)
  <2>1. PICK n \in Nat : n = Len(source)
    BY ListingSizes
  <2>2. IsFiniteSet(1 .. n) /\ Cardinality(1 .. n) = n
    BY FS_Interval
  <2> QED
    BY <2>1, <2>2
<1>2. Asm!Labels \in SUBSET image
  <2>1. Asm!Lines = rows
    BY ListingSizes DEF Asm!Lines, Sourced
  <2> QED
    BY <2>1 DEF Asm!Labels
<1>3. label \in Surjection(rows, image)
  BY DEF Surjection
<1> HIDE DEF rows, label, image
<1>4. IsFiniteSet(image) /\ Cardinality(image) <= Len(source) /\ Cardinality(image) \in Nat
  BY <1>1, <1>3, FS_Surjection, FS_CardinalityType
<1>5. Cardinality(Asm!Labels) <= Len(source) /\ Cardinality(Asm!Labels) \in Nat
  <2>1. Cardinality(Asm!Labels) <= Cardinality(image) /\ IsFiniteSet(Asm!Labels)
    BY <1>2, <1>4, FS_Subset
  <2>2. Cardinality(Asm!Labels) \in Nat
    BY <2>1, FS_CardinalityType
  <2> QED
    BY <1>1, <1>4, <2>1, <2>2
<1>6. Len(source) <= MAX_SYMBOLS
  <2>1. Len(rom) <= MEMORY_SIZE - ENTRYPOINT
    BY DEF TypeOK
  <2> QED
    BY <2>1, ListingSizes, Sizes, SymbolsAssumption
<1>7. Asm!Cardinality(Asm!Labels) = Cardinality(Asm!Labels)
  BY Cardinalities
<1> QED
  BY <1>1, <1>5, <1>6, <1>7, SymbolsAssumption

\* What the assembler writes for a listing.
LEMMA ListingBytes ==
  ASSUME TypeOK, ListingLike, LeaderInv, phase # "analyze", rom # << >>
  PROVE  /\ \A i \in 1 .. Rows : Gives(source[i], Spot(i), Asm!Meaning, WordAt(Spot(i)))
         /\ Len(source) = Rows + 1 =>
              /\ ~Asm!Malformed(source[Rows + 1])
              /\ ~Asm!Rejects(source[Rows + 1], Spot(Rows + 1), Asm!Meaning, TRUE)
              /\ Asm!Bytes(source[Rows + 1], Spot(Rows + 1), Asm!Meaning)
                   = <<ByteAt(Spot(Rows + 1))>>
<1>1. SymbolsNamed(Asm!Meaning)
  BY ListingSymbols
<1>2. ASSUME NEW i \in 1 .. Rows
      PROVE  Gives(source[i], Spot(i), Asm!Meaning, WordAt(Spot(i)))
  <2>1. Tells(source[i], WordAt(Spot(i)))
    BY DEF ListingLike
  <2>2. Spot(i) \in Int /\ Spot(i) + 1 \in Int
    BY SpotAddress, Zenon
  <2>3. PICK w \in Nat : w = WordAt(Spot(i))
    BY <2>2, WordRange
  <2>4. PICK hi \in 0 .. 255, lo \in 0 .. 255 : hi = ByteAt(Spot(i)) /\ lo = ByteAt(Spot(i) + 1)
    BY <2>2, ByteRange, Zenon
  <2>5. OfBytes(w, hi, lo)
    BY <2>3, <2>4 DEF OfBytes, WordAt
  <2>6. w \in Asm!WordValues
    BY <2>5, BigEndianBytes
  <2>7. CASE source[i].op = ".WORD" /\ source[i].args = <<Num(w)>>
    BY <2>3, <2>6, <2>7, WordGives
  <2>8. CASE Fits(source[i], w)
    BY <1>1, <2>3, <2>8, FitsGives
  <2> QED
    BY <2>1, <2>3, <2>7, <2>8 DEF Tells
<1>3. ASSUME Len(source) = Rows + 1
      PROVE  /\ ~Asm!Malformed(source[Rows + 1])
             /\ ~Asm!Rejects(source[Rows + 1], Spot(Rows + 1), Asm!Meaning, TRUE)
             /\ Asm!Bytes(source[Rows + 1], Spot(Rows + 1), Asm!Meaning)
                  = <<ByteAt(Spot(Rows + 1))>>
  <2>1. /\ source[Rows + 1].op = ".BYTE"
        /\ source[Rows + 1].args = <<Num(ByteAt(Spot(Rows + 1)))>>
    <3>1. Rows + 1 # Rows
      BY ListingSizes
    <3> QED
      BY <1>3, <3>1 DEF ListingLike
  <2>2. Spot(Rows + 1) \in Int
    BY <1>3, ListingSizes
  <2>3. PICK byte \in 0 .. 255 : byte = ByteAt(Spot(Rows + 1))
    BY <2>2, ByteRange, Zenon
  <2>4. PICK l : l = source[Rows + 1]
    OBVIOUS
  <2>5. l.op = ".BYTE" /\ l.args = <<Num(byte)>>
    BY <2>1, <2>3, <2>4
  <2>6. /\ ~Asm!Malformed(l)
        /\ ~Asm!Rejects(l, Spot(Rows + 1), Asm!Meaning, TRUE)
        /\ Asm!Bytes(l, Spot(Rows + 1), Asm!Meaning) = <<byte>>
    BY <2>5, ByteGives
  <2> QED
    BY <2>3, <2>4, <2>6
<1> QED
  BY <1>2, <1>3

LEMMA ListingWellFormed ==
  ASSUME TypeOK, ListingLike, LeaderInv, phase # "analyze", rom # << >>
  PROVE  Asm!WellFormed
<1>1. Asm!Lines = 1 .. Len(source)
  BY ListingSizes DEF Asm!Lines, Sourced
<1>2. \A i \in 1 .. Len(source) : i \in 1 .. Rows \/ (i = Rows + 1 /\ Len(source) = Rows + 1)
  BY ListingSizes
<1>3. \A i \in 1 .. Rows + 1 : Asm!Places[i] = Spot(i)
  BY ListingPlaces
<1>4. /\ Rows + 1 \in 1 .. Rows + 1
      /\ \A i \in 1 .. Rows : i \in 1 .. Rows + 1 /\ i + 1 \in 1 .. Rows + 1
  BY ListingSizes
<1>5. \A i \in 1 .. Len(source) : /\ ~Asm!Malformed(source[i])
                                  /\ ~Asm!Rejects(source[i], Asm!Places[i], Asm!Meaning, TRUE)
  BY <1>2, <1>3, <1>4, ListingBytes DEF Gives
<1>6. \A i \in 1 .. Len(source) : source[i].op # ".ORG"
  <2>1. \A i \in 1 .. Rows : source[i].op # ".ORG"
    BY TellsNext DEF ListingLike
  <2>2. Len(source) = Rows + 1 => source[Rows + 1].op # ".ORG"
    <3>1. Rows + 1 # Rows
      BY ListingSizes
    <3> QED
      BY <3>1 DEF ListingLike
  <2> QED
    BY <1>2, <2>1, <2>2
<1>7. \A i \in 1 .. Len(source) : Asm!Places[i + 1] <= MEMORY_SIZE
  <2>1. \A i \in 1 .. Rows : Asm!Places[i + 1] <= MEMORY_SIZE
    <3> SUFFICES ASSUME NEW i \in 1 .. Rows
                 PROVE  Asm!Places[i + 1] <= MEMORY_SIZE
      OBVIOUS
    <3>1. PICK j \in 1 .. Rows + 1 : j = i + 1
      BY <1>4
    <3>2. Asm!Places[j] = Spot(j) /\ Spot(j) <= End /\ Spot(j) \in Int
      <4>1. j \in 1 .. Len(source) + 1
        BY ListingSizes
      <4> QED
        BY <1>3, <4>1, ListingSizes
    <3>3. Spot(j) <= MEMORY_SIZE
      BY <3>2, EndRange, Sizes
    <3> QED
      BY <3>1, <3>2, <3>3
  <2>2. Asm!Places[Len(source) + 1] <= MEMORY_SIZE
    BY LastPlace, EndRange
  <2> QED
    BY <1>2, <2>1, <2>2
<1>8. \A i, j \in 1 .. Len(source) :
        source[i].label = source[j].label /\ i # j => source[i].label = NoLabel
  <2> SUFFICES ASSUME NEW i \in 1 .. Len(source), NEW j \in 1 .. Len(source),
                      source[i].label = source[j].label, source[i].label # NoLabel
               PROVE  i = j
    OBVIOUS
  <2>1. LabelAt(Spot(i)) = LabelAt(Spot(j)) /\ LabelAt(Spot(i)) # NoLabel
    BY DEF ListingLike
  <2>2. Spot(i) = Spot(j)
    BY <2>1 DEF LabelAt
  <2> QED
    BY <2>2, SpotsDiffer
<1> QED
  BY <1>1, <1>5, <1>6, <1>7, <1>8, ListingLabels, NoLabels, Zenon DEF Asm!WellFormed

----------------------------------------------------------------------------
\* What is written for a listing is the ROM.

LEMMA RowWritten ==
  ASSUME TypeOK, ListingLike, LeaderInv, phase # "analyze", rom # << >>, NEW i \in 1 .. Rows,
         Written(i)
  PROVE  output[2 * i - 1] = rom[2 * i - 1] /\ output[2 * i] = rom[2 * i]
<1> DEFINE place == Asm!Places[i]
           bytes == Asm!Bytes(source[i], Asm!Places[i], Asm!Meaning)
<1>1. Rows \in Nat /\ i \in Int
  BY ListingSizes
<1>2. place = Spot(i)
  <2>1. i \in 1 .. Rows + 1
    BY <1>1
  <2> QED
    BY <2>1, ListingPlaces
<1>3. bytes = Asm!BigEndian(WordAt(Spot(i)))
  <2>1. Gives(source[i], Spot(i), Asm!Meaning, WordAt(Spot(i)))
    BY ListingBytes
  <2> QED
    BY <1>2, <2>1 DEF Gives
<1>4. PICK hi \in 0 .. 255, lo \in 0 .. 255 : hi = ByteAt(Spot(i)) /\ lo = ByteAt(Spot(i) + 1)
  <2>1. Spot(i) \in Int /\ Spot(i) + 1 \in Int
    BY SpotAddress, Zenon
  <2> QED
    BY <2>1, ByteRange, Zenon
<1>5. Asm!BigEndian(WordAt(Spot(i))) = <<hi, lo>>
  <2>1. PICK w \in Nat : w = WordAt(Spot(i))
    BY SpotAddress, WordRange
  <2>2. OfBytes(w, hi, lo)
    BY <1>4, <2>1 DEF OfBytes, WordAt
  <2> QED
    BY <2>1, <2>2, BigEndianBytes
<1>6. bytes = <<hi, lo>>
  BY <1>3, <1>5
<1>7. \A k \in DOMAIN bytes : output[place - ENTRYPOINT + k] = bytes[k]
  BY DEF Written
<1> HIDE DEF place, bytes
<1>8. 1 \in DOMAIN bytes /\ 2 \in DOMAIN bytes /\ bytes[1] = hi /\ bytes[2] = lo
  BY <1>6
<1>9. place - ENTRYPOINT + 1 = 2 * i - 1 /\ place - ENTRYPOINT + 2 = 2 * i
  BY <1>1, <1>2, Sizes DEF Spot
<1>10. output[2 * i - 1] = hi /\ output[2 * i] = lo
  BY <1>7, <1>8, <1>9
<1> QED
  BY <1>4, <1>10, SpotBytes

LEMMA LastWritten ==
  ASSUME TypeOK, ListingLike, LeaderInv, phase # "analyze", rom # << >>,
         Len(source) = Rows + 1, Written(Rows + 1)
  PROVE  output[2 * Rows + 1] = rom[2 * Rows + 1]
<1> DEFINE place == Asm!Places[Rows + 1]
           bytes == Asm!Bytes(source[Rows + 1], Asm!Places[Rows + 1], Asm!Meaning)
<1>1. Rows \in Nat /\ Len(rom) = 2 * Rows + 1
  BY ListingSizes
<1>2. place = Spot(Rows + 1)
  <2>1. Rows + 1 \in 1 .. Rows + 1
    BY <1>1
  <2> QED
    BY <2>1, ListingPlaces
<1>3. bytes = <<ByteAt(Spot(Rows + 1))>>
  BY <1>2, ListingBytes
<1>4. Spot(Rows + 1) = ENTRYPOINT + 2 * Rows
  <2>1. (Rows + 1) - 1 = Rows
    BY <1>1
  <2> QED
    BY <2>1 DEF Spot
<1>5. ByteAt(Spot(Rows + 1)) = rom[2 * Rows + 1]
  <2>1. PICK a \in Int : a = ENTRYPOINT + 2 * Rows
    BY <1>1, Sizes
  <2>2. a \in ENTRYPOINT .. End - 1 /\ a - ENTRYPOINT + 1 = 2 * Rows + 1
    BY <1>1, <2>1, EndRange, Sizes
  <2>3. ByteAt(a) = rom[2 * Rows + 1]
    BY <2>2 DEF ByteAt
  <2> QED
    BY <1>4, <2>1, <2>3
<1>6. \A k \in DOMAIN bytes : output[place - ENTRYPOINT + k] = bytes[k]
  BY DEF Written
<1> HIDE DEF place, bytes
<1>7. 1 \in DOMAIN bytes /\ bytes[1] = ByteAt(Spot(Rows + 1))
  BY <1>3
<1>8. place - ENTRYPOINT + 1 = 2 * Rows + 1
  BY <1>1, <1>2, <1>4, Sizes
<1> QED
  BY <1>5, <1>6, <1>7, <1>8

LEMMA Rebuilt ==
  ASSUME TypeOK, ListingLike, LeaderInv, phase # "analyze", rom # << >>, AsmInv, pass = "done"
  PROVE  output = rom
<1>1. Len(source) \in Nat /\ line = Len(source) + 1 /\ line - 1 = Len(source)
  <2>1. line = Len(source) + 1 /\ Len(source) \in Nat
    BY ListingSizes DEF AsmInv, SecondInv
  <2> QED
    BY <2>1
<1>2. /\ output \in Seq(Int) /\ Len(output) = asm_pc - ENTRYPOINT /\ asm_pc = Asm!Places[line]
      /\ \A i \in 1 .. Len(source) : Written(i)
  BY <1>1, Assembled
<1>3. Len(output) = Len(rom)
  <2>1. asm_pc = End
    BY <1>1, <1>2, LastPlace
  <2> QED
    BY <1>2, <2>1, EndRange, Sizes
<1>4. Rows \in Nat /\ Rows <= Len(source)
  BY ListingSizes
<1>5. ASSUME NEW k \in 1 .. Len(rom)
      PROVE  output[k] = rom[k]
  <2>1. CASE k % 2 = 0
    <3>1. PICK i \in Int : k = 2 * i
      BY <2>1
    <3>2. i \in 1 .. Rows /\ i \in 1 .. Len(source)
      BY <1>4, <3>1, ListingSizes
    <3> QED
      BY <1>2, <3>1, <3>2, RowWritten
  <2>2. CASE k % 2 = 1
    <3>1. PICK i \in Int : k = 2 * i - 1
      <4>1. k = 2 * (k \div 2) + 1 /\ k \div 2 \in Int
        BY <2>2
      <4>2. PICK h \in Int : h = k \div 2
        BY <4>1
      <4>3. k = 2 * (h + 1) - 1 /\ h + 1 \in Int
        BY <4>1, <4>2
      <4> QED
        BY <4>3
    <3>2. CASE i \in 1 .. Rows
      <4>1. i \in 1 .. Len(source)
        BY <1>4, <3>2
      <4> QED
        BY <1>2, <3>1, <3>2, <4>1, RowWritten
    <3>3. CASE i \notin 1 .. Rows
      <4>1. k = 2 * Rows + 1 /\ Len(source) = Rows + 1
        BY <1>4, <3>1, <3>3, ListingSizes
      <4>2. Written(Rows + 1)
        BY <1>2, <1>4, <4>1
      <4> QED
        BY <4>1, <4>2, LastWritten
    <3> QED
      BY <3>2, <3>3
  <2> QED
    BY <2>1, <2>2, ListingSizes
<1>6. output \in Seq(Int) /\ rom \in Seq(Int)
  <2>1. rom \in Seq(0 .. 255) /\ 0 .. 255 \subseteq Int
    BY DEF TypeOK
  <2> QED
    BY <1>2, <2>1, WiderSeq, ZenonT(30)
<1> QED
  BY <1>3, <1>5, <1>6

----------------------------------------------------------------------------
\* The round trip.

\* The assembler reads what the map it was made from prints.
RoundInv ==
  /\ LeaderInv /\ rom \in ROMs
  /\ pass # "waiting" /\ rom # << >> => source = Listing /\ phase # "analyze"

TripInv == ToolInv /\ RoundInv

LEMMA TripInitial == ToolInit => TripInv
<1> SUFFICES ASSUME ToolInit
             PROVE  TripInv
  OBVIOUS
<1>1. rom \in ROMs /\ phase = "analyze" /\ pass = "waiting"
  BY DEF ToolInit, MapInit, Init
<1> QED
  BY <1>1, ToolInitial DEF TripInv, RoundInv, LeaderInv

LEMMA RomKept ==
  ASSUME [Next]_vars
  PROVE  rom' = rom
  BY DEF Next, vars, Analyze, Pop, EndPath, Descended, GlueUnreachable, Classify, Halted, Settings,
         Walk, WalkReturn, WalkJump, WalkCall, WalkSkip, WalkLoadAddr, WalkBranch, WalkDraw,
         WalkStore, WalkLoad, WalkPlain, Enter

LEMMA SourceKept ==
  ASSUME [Asm!Next]_asmvars, AsmInv
  PROVE  source' = source
  BY DEF Asm!Next, Asm!LayOut, Asm!FailFirst, Asm!Rewind, Asm!Emit, Asm!FailSecond, Asm!Finish,
         Asm!Halted, Asm!vars, asmvars

\* The map, and the listing, do not change once it is used.
LEMMA RoundIdle ==
  ASSUME RoundInv, UNCHANGED vars, pass # "waiting", source' = source
  PROVE  RoundInv'
<1>1. rom' = rom /\ phase' = phase /\ leader' = leader /\ End' = End
  BY DEF vars, End
<1>2. Listing' = Listing
  BY SameListing
<1> QED
  BY <1>1, <1>2 DEF RoundInv, LeaderInv

LEMMA TripInductive ==
  ASSUME TripInv, [ToolNext]_toolvars
  PROVE  TripInv'
<1>0. ToolInv /\ RoundInv /\ TypeOK /\ ToolInv'
  BY ToolInductive DEF TripInv, ToolInv, CourseInv
<1>1. CASE MapStep
  <2>1. [Next]_vars /\ pass = "waiting" /\ pass' = pass
    BY <1>1
    DEF MapStep, MapNext, Disassemble, Instruction, Failure, Ticks, Faulted, mapvars, asmvars
  <2>2. LeaderInv' /\ rom' = rom
    BY <1>0, <2>1, LeadersNext, RomKept DEF RoundInv
  <2> QED
    BY <1>0, <2>1, <2>2 DEF TripInv, RoundInv
<1>2. CASE HandOver
  <2>1. UNCHANGED vars /\ phase = "done" /\ rom' = rom /\ phase' = phase
    BY <1>2 DEF HandOver, mapvars, vars, Stopped
  <2>2. LeaderInv'
    BY <1>0, <2>1, LeadersNext DEF RoundInv
  <2>3. Listing' = Listing
    BY <2>1, SameListing
  <2>4. rom # << >> => source' = Listing
    BY <1>2 DEF HandOver, HandWritten
  <2> QED
    BY <1>0, <2>1, <2>2, <2>3, <2>4 DEF TripInv, RoundInv
<1>3. CASE Assemble
  <2>1. UNCHANGED vars /\ pass # "waiting" /\ Asm!Next
    BY <1>3 DEF Assemble, mapvars
  <2>2. source' = source
    BY <1>0, <2>1, SourceKept DEF ToolInv
  <2> QED
    BY <1>0, <2>1, <2>2, RoundIdle DEF TripInv
<1>4. CASE UNCHANGED toolvars
  <2>1. UNCHANGED vars /\ pass' = pass /\ source' = source
    BY <1>4 DEF toolvars, mapvars, asmvars
  <2>2. CASE pass # "waiting"
    BY <1>0, <2>1, <2>2, RoundIdle DEF TripInv
  <2>3. CASE pass = "waiting"
    <3>1. LeaderInv' /\ rom' = rom
      BY <1>0, <2>1, LeadersNext, RomKept DEF RoundInv
    <3> QED
      BY <1>0, <2>1, <2>3, <3>1 DEF TripInv, RoundInv
  <2> QED
    BY <2>2, <2>3
<1> QED
  BY <1>1, <1>2, <1>3, <1>4 DEF ToolNext

LEMMA TripInvariant == ToolSpec => []TripInv
<1>1. TripInv /\ [ToolNext]_toolvars => TripInv'
  BY TripInductive
<1> QED
  BY <1>1, TripInitial, PTL DEF ToolSpec

LEMMA TripAssembles == TripInv => ListingAssembles
<1> SUFFICES ASSUME TripInv, pass = "failed", ~HandWritten
             PROVE  FALSE
  BY DEF ListingAssembles
<1>1. /\ TypeOK /\ AsmInv /\ LeaderInv /\ rom \in ROMs /\ source = Listing
      /\ phase # "analyze" /\ rom # << >>
  BY DEF TripInv, ToolInv, CourseInv, RoundInv, HandWritten
<1>2. ListingLike
  BY <1>1, ListingLines
<1>3. Asm!WellFormed
  BY <1>1, <1>2, ListingWellFormed
<1> QED
  BY <1>1, <1>3 DEF AsmInv, FailInv

LEMMA TripRebuilds == TripInv => RebuildsRom
<1> SUFFICES ASSUME TripInv, pass = "done", ~HandWritten
             PROVE  output = rom
  BY DEF RebuildsRom
<1>1. /\ TypeOK /\ AsmInv /\ LeaderInv /\ rom \in ROMs /\ source = Listing
      /\ phase # "analyze" /\ rom # << >>
  BY DEF TripInv, ToolInv, CourseInv, RoundInv, HandWritten
<1>2. ListingLike
  BY <1>1, ListingLines
<1> QED
  BY <1>1, <1>2, Rebuilt

\* disas.c's assembly output read by asm.c, for every ROM: no label is missing,
\* defined twice or one too many for the table, every operand is of a form the
\* assembler knows and in its range, and the image fits; so it is not refused.
THEOREM ListingAssemblesAlways == ToolSpec => []ListingAssembles
<1>1. TripInv => ListingAssembles
  BY TripAssembles
<1> QED
  BY <1>1, TripInvariant, PTL

\* disas.c's assembly output read by asm.c, for every ROM (README.md:112): what
\* the assembler ends with is the ROM, byte for byte.  Every word disas.c takes
\* for an instruction is the encoding asm.c gives the text printed for it.
THEOREM RebuildsRomAlways == ToolSpec => []RebuildsRom
<1>1. TripInv => RebuildsRom
  BY TripRebuilds
<1> QED
  BY <1>1, TripInvariant, PTL
=============================================================================
