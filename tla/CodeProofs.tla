----------------------------- MODULE CodeProofs -----------------------------
(***************************************************************************)
(* Theorems about the modules of CodeData, for every value of their        *)
(* constants.  Of CodeHolder: whatever is emitted, bound and relocated,    *)
(* and wherever, each displacement leads to where its label is.  Of        *)
(* NamedLabels: a name finds its label, and no other, while the table of   *)
(* hashes grows.  Of StackCells: whatever registers and pieces of stack a  *)
(* function needs, and in whatever order, their places in its frame are    *)
(* apart, aligned and inside.                                              *)
(***************************************************************************)
EXTENDS CodeData, Integers, Sequences, FiniteSets, FiniteSetTheorems, SequenceTheorems,
        WellFoundedInduction, TLAPS

-----------------------------------------------------------------------------
(* The least number of a set.                                              *)

LEMMA Less == \E R : IsWellFoundedOn(R, Nat) /\ R = {p \in Nat \X Nat : p[1] < p[2]}
<1>1. OpToRel(<, Nat) = {p \in Nat \X Nat : p[1] < p[2]}
  BY DEF OpToRel
<1>2. IsWellFoundedOn(OpToRel(<, Nat), Nat)
  BY NatLessThanWellFounded
<1>3. IsWellFoundedOn({p \in Nat \X Nat : p[1] < p[2]}, Nat)
  BY <1>2 DEF OpToRel
<1>. QED  BY <1>3

\* Every set of natural numbers that is not empty has one.
LEMMA Least ==
    ASSUME NEW T \in SUBSET Nat, NEW t \in T
    PROVE  \E x \in T : \A y \in T : x <= y
<1>1. PICK R : IsWellFoundedOn(R, Nat) /\ R = {p \in Nat \X Nat : p[1] < p[2]}
  BY Less
<1>2. \E x \in T : \A y \in T : ~(<<y, x>> \in R)
  BY ONLY <1>1, T \in SUBSET Nat, t \in T, WFMin
<1>3. \A x, y \in Nat : <<y, x>> \in R <=> y < x
  BY <1>1
<1>4. PICK x \in T : \A y \in T : ~(<<y, x>> \in R)
  BY <1>2
<1>5. ASSUME NEW y \in T
      PROVE  x <= y
  <2>1. x \in Nat /\ y \in Nat /\ ~(<<y, x>> \in R)
    BY <1>4
  <2>2. ~(y < x)
    BY ONLY <1>3, <2>1
  <2>. QED  BY ONLY <2>1, <2>2
<1>. QED  BY <1>5

-----------------------------------------------------------------------------
(* StackCells: its invariant.                                              *)

VarSizes == {1, 2, 4, 8, 16, 32, 64}

Cell == [size : Nat \ {0}, alignment : VarSizes, offset : Nat, func : Nat]

CellsTypeOK ==
    /\ cells \in Seq(Cell)
    /\ memVarCells \in Seq(1..Len(cells)) /\ memStackCells \in Seq(1..Len(cells))
    /\ varsUsed \in [VarSizes -> Nat] /\ memMaxAlign \in VarSizes \cup {0}
    /\ memAllTotal \in Nat /\ cellFunc \in Nat
    /\ stage \in {"open", "vars", "stack", "resolved"}
    /\ done \in Nat /\ pos \in [VarSizes -> Nat] /\ stackPos \in Nat

\* Each cell made for the function is in one of the lists, and there once.
ListsInv ==
    /\ \A i, j \in 1..Len(memVarCells) : memVarCells[i] = memVarCells[j] => i = j
    /\ \A i, j \in 1..Len(memStackCells) : memStackCells[i] = memStackCells[j] => i = j
    /\ \A i \in 1..Len(memVarCells), j \in 1..Len(memStackCells) : memVarCells[i] # memStackCells[j]
    /\ \A c \in 1..Len(cells) :
          /\ cells[c].func <= cellFunc
          /\ cells[c].func = cellFunc =>
                \/ \E i \in 1..Len(memVarCells) : memVarCells[i] = c
                \/ \E i \in 1..Len(memStackCells) : memStackCells[i] = c

\* The registers of size s among the first n of the list.
Registers(n, s) == {c \in 1..Len(cells) : cells[c].size = s /\ \E i \in 1..n : memVarCells[i] = c}

\* They are counted by size, and the frame is aligned to the largest alignment.
CountsInv ==
    /\ \A i \in 1..Len(memVarCells) :
          /\ cells[memVarCells[i]].size \in VarSizes
          /\ cells[memVarCells[i]].alignment = cells[memVarCells[i]].size
    /\ \A s \in VarSizes : varsUsed[s] = Cardinality(Registers(Len(memVarCells), s))
    /\ \A c \in 1..Len(cells) : cells[c].func = cellFunc => cells[c].alignment <= memMaxAlign

\* How far each list has been gone through.
VarsDone  == IF stage = "open" THEN 0 ELSE IF stage = "vars" THEN done ELSE Len(memVarCells)
StackDone == IF stage \in {"stack", "resolved"} THEN done ELSE 0

DoneInv ==
    /\ stage = "vars" => done <= Len(memVarCells)
    /\ stage \in {"stack", "resolved"} => done <= Len(memStackCells)
    /\ stage = "resolved" => done = Len(memStackCells) /\ memAllTotal = stackPos

\* The cells that have their offset.
Placed ==
    {c \in 1..Len(cells) : \/ \E i \in 1..VarsDone : memVarCells[i] = c
                           \/ \E i \in 1..StackDone : memStackCells[i] = c}

CellsApart(c, d) ==
    \/ cells[c].offset + cells[c].size <= cells[d].offset
    \/ cells[d].offset + cells[d].size <= cells[c].offset

PlacedInv ==
    \A c \in Placed :
        /\ cells[c].offset % cells[c].alignment = 0
        /\ \A d \in Placed : c # d => CellsApart(c, d)

\* A register that has its offset lies in the part of its size, before the next one.
VarsInv ==
    /\ stage = "vars" =>
          \A s \in VarSizes : pos[s] = Cells!Start[s] + s * Cardinality(Registers(done, s))
    /\ \A i \in 1..VarsDone :
          LET c == memVarCells[i]  s == cells[c].size IN
          /\ Cells!Start[s] <= cells[c].offset
          /\ stage = "vars" => cells[c].offset + s <= pos[s]
          /\ cells[c].offset + s <= Cells!Start[s] + s * varsUsed[s]

\* On the stack, all that is placed lies before stackPos.
StackInv ==
    stage \in {"stack", "resolved"} =>
        \A c \in Placed : cells[c].offset + cells[c].size <= stackPos

CellsInv == CellsTypeOK /\ ListsInv /\ CountsInv /\ DoneInv /\ PlacedInv /\ VarsInv /\ StackInv

-----------------------------------------------------------------------------
(* Numbers.                                                                *)

LEMMA SizesOK == Cells!VarSizes = VarSizes
BY DEF Cells!VarSizes, VarSizes

LEMMA VarSizesNat == \A s \in VarSizes : s \in Nat /\ s > 0
BY DEF VarSizes

\* AlignTo gives the next multiple.
LEMMA AlignedTo ==
    ASSUME NEW x \in Nat, NEW a \in VarSizes
    PROVE  /\ Cells!AlignTo(x, a) \in Nat /\ Cells!AlignTo(x, a) >= x
           /\ Cells!AlignTo(x, a) % a = 0
<1>1. CASE a = 1
  BY <1>1 DEF Cells!AlignTo
<1>2. CASE a = 2
  BY <1>2 DEF Cells!AlignTo
<1>3. CASE a = 4
  BY <1>3 DEF Cells!AlignTo
<1>4. CASE a = 8
  BY <1>4 DEF Cells!AlignTo
<1>5. CASE a = 16
  BY <1>5 DEF Cells!AlignTo
<1>6. CASE a = 32
  BY <1>6 DEF Cells!AlignTo
<1>7. CASE a = 64
  BY <1>7 DEF Cells!AlignTo
<1>. QED  BY <1>1, <1>2, <1>3, <1>4, <1>5, <1>6, <1>7 DEF VarSizes

\* Behind k registers of size s.
LEMMA Behind ==
    ASSUME NEW s \in VarSizes, NEW x \in Nat, x % s = 0, NEW k \in Nat
    PROVE  /\ s * k \in Nat /\ s * (k + 1) = s * k + s /\ (x + s * k) % s = 0
           /\ \A n \in Nat : k <= n => s * k <= s * n
<1>1. CASE s = 1
  BY <1>1
<1>2. CASE s = 2
  BY <1>2
<1>3. CASE s = 4
  BY <1>3
<1>4. CASE s = 8
  BY <1>4
<1>5. CASE s = 16
  BY <1>5
<1>6. CASE s = 32
  BY <1>6
<1>7. CASE s = 64
  BY <1>7
<1>. QED  BY <1>1, <1>2, <1>3, <1>4, <1>5, <1>6, <1>7 DEF VarSizes

\* Each size has room for its registers before the next smaller one begins.
LEMMA Parts ==
    ASSUME varsUsed \in [VarSizes -> Nat]
    PROVE  /\ Cells!Start \in [VarSizes -> Nat]
           /\ \A s \in VarSizes : Cells!Start[s] % s = 0
           /\ \A s, t \in VarSizes : t < s => Cells!Start[s] + s * varsUsed[s] <= Cells!Start[t]
<1>. DEFINE n(s) == varsUsed[s]
<1>1. /\ n(1) \in Nat /\ n(2) \in Nat /\ n(4) \in Nat /\ n(8) \in Nat /\ n(16) \in Nat
      /\ n(32) \in Nat /\ n(64) \in Nat
  BY DEF VarSizes
<1>2. /\ Cells!Start = [s \in VarSizes |-> Cells!Start[s]]
      /\ Cells!Start[64] = 0
      /\ Cells!Start[32] = n(64) * 64
      /\ Cells!Start[16] = n(64) * 64 + n(32) * 32
      /\ Cells!Start[8]  = n(64) * 64 + n(32) * 32 + n(16) * 16
      /\ Cells!Start[4]  = n(64) * 64 + n(32) * 32 + n(16) * 16 + n(8) * 8
      /\ Cells!Start[2]  = n(64) * 64 + n(32) * 32 + n(16) * 16 + n(8) * 8 + n(4) * 4
      /\ Cells!Start[1]  = n(64) * 64 + n(32) * 32 + n(16) * 16 + n(8) * 8 + n(4) * 4 + n(2) * 2
  BY <1>1, SizesOK DEF Cells!Start, VarSizes
<1>. HIDE DEF n
<1>3. \A s \in VarSizes : Cells!Start[s] \in Nat /\ Cells!Start[s] % s = 0
  BY <1>1, <1>2 DEF VarSizes
<1>4. \A s, t \in VarSizes : t < s => Cells!Start[s] + s * n(s) <= Cells!Start[t]
  BY <1>1, <1>2 DEF VarSizes
<1>. QED  BY <1>2, <1>3, <1>4 DEF n

\* The alignment that _newStackCell makes of the one it is given.
LEMMA AlignmentOK ==
    ASSUME NEW size \in Nat \ {0}, NEW a, Cells!IsAlignment(a)
    PROVE  (IF a = 0 THEN Cells!DefaultAlignment(size) ELSE Cells!Min({a, 64})) \in VarSizes
<1>1. CASE a # 0
  <2>1. PICK b \in {a, 64} : b = Cells!Min({a, 64}) /\ b <= a /\ b <= 64
    <3>1. \E x \in {a, 64} : \A y \in {a, 64} : x <= y
      BY DEF Cells!IsAlignment
    <3>. QED  BY <3>1 DEF Cells!Min
  <2>. QED  BY <1>1, <2>1 DEF Cells!IsAlignment, Cells!VarSizes, VarSizes
<1>2. CASE size > 32
  BY <1>1, <1>2 DEF Cells!DefaultAlignment, VarSizes
<1>3. CASE a = 0 /\ ~ (size > 32)
  <2>. DEFINE P(x) == x >= size /\ \A b \in VarSizes : b >= size => x <= b
  <2>1. \E x \in VarSizes : P(x)
    <3>1. CASE size = 1
      <4>1. P(1)  BY <3>1 DEF VarSizes
      <4>. QED  BY <4>1 DEF VarSizes
    <3>2. CASE size = 2
      <4>1. P(2)  BY <3>2 DEF VarSizes
      <4>. QED  BY <4>1 DEF VarSizes
    <3>3. CASE size > 2 /\ size <= 4
      <4>1. P(4)  BY <3>3 DEF VarSizes
      <4>. QED  BY <4>1 DEF VarSizes
    <3>4. CASE size > 4 /\ size <= 8
      <4>1. P(8)  BY <3>4 DEF VarSizes
      <4>. QED  BY <4>1 DEF VarSizes
    <3>5. CASE size > 8 /\ size <= 16
      <4>1. P(16)  BY <3>5 DEF VarSizes
      <4>. QED  BY <4>1 DEF VarSizes
    <3>6. CASE size > 16 /\ size <= 32
      <4>1. P(32)  BY <3>6 DEF VarSizes
      <4>. QED  BY <4>1 DEF VarSizes
    <3>. QED  BY <1>3, <3>1, <3>2, <3>3, <3>4, <3>5, <3>6
  <2>2. (CHOOSE x \in VarSizes : P(x)) \in VarSizes
    BY <2>1
  <2>. QED  BY <1>3, <2>2, SizesOK DEF Cells!DefaultAlignment
<1>. QED  BY <1>1, <1>2, <1>3

LEMMA MaxOfTwo ==
    ASSUME NEW x \in VarSizes \cup {0}, NEW y \in VarSizes
    PROVE  /\ Cells!Max({x, y}) \in VarSizes
           /\ Cells!Max({x, y}) >= x /\ Cells!Max({x, y}) >= y
<1>1. x \in Nat /\ y \in Nat /\ y > 0
  BY DEF VarSizes
<1>2. \E m \in {x, y} : \A z \in {x, y} : m >= z
  BY <1>1
<1>3. PICK m \in {x, y} : m = Cells!Max({x, y}) /\ m >= x /\ m >= y
  BY <1>2 DEF Cells!Max
<1>. QED  BY <1>1, <1>3

\* A larger alignment is a multiple of a smaller one.
LEMMA Divides ==
    ASSUME NEW m \in VarSizes, NEW a \in VarSizes, a <= m
    PROVE  m % a = 0
BY DEF VarSizes

\* An element put into a sequence moves what is behind it by one.
LEMMA Inserted ==
    ASSUME NEW S, NEW q \in Seq(S), NEW x \in S, NEW j \in 1..Len(q) + 1
    PROVE  /\ Cells!InsertAt(q, j, x) \in Seq(S) /\ Len(Cells!InsertAt(q, j, x)) = Len(q) + 1
           /\ \A i \in 1..Len(q) + 1 :
                 Cells!InsertAt(q, j, x)[i] = IF i < j THEN q[i] ELSE IF i = j THEN x ELSE q[i - 1]
<1>. DEFINE a == SubSeq(q, 1, j - 1) \o <<x>>
            b == SubSeq(q, j, Len(q))
            r == Cells!InsertAt(q, j, x)
<1>1. PICK n \in Nat : Len(q) = n /\ \A i \in 1..n : q[i] \in S
  BY LenProperties
<1>2. j \in Nat /\ j >= 1 /\ j <= n + 1
  BY <1>1
<1>3. /\ SubSeq(q, 1, j - 1) \in Seq(S) /\ Len(SubSeq(q, 1, j - 1)) = j - 1
      /\ \A i \in 1..j - 1 : SubSeq(q, 1, j - 1)[i] = q[i]
  BY <1>1, <1>2, SubSeqProperties
<1>4. /\ b \in Seq(S) /\ Len(b) = n + 1 - j /\ \A i \in 1..n + 1 - j : b[i] = q[j + i - 1]
  BY <1>1, <1>2, SubSeqProperties
<1>5. r = a \o b
  BY DEF Cells!InsertAt
<1>6. /\ a \in Seq(S) /\ Len(a) = j
      /\ \A i \in 1..j : a[i] = IF i < j THEN q[i] ELSE x
  BY <1>2, <1>3
<1>. HIDE DEF a, b, r
<1>7. Len(a) + Len(b) = n + 1
  BY <1>2, <1>4, <1>6
<1>8. /\ r \in Seq(S) /\ Len(r) = n + 1
      /\ \A i \in 1..n + 1 : r[i] = IF i <= j THEN a[i] ELSE b[i - j]
  <2>1. a \in Seq(S) /\ b \in Seq(S)
    BY <1>4, <1>6
  <2>2. /\ a \o b \in Seq(S) /\ Len(a \o b) = Len(a) + Len(b)
        /\ \A i \in 1..Len(a) + Len(b) : (a \o b)[i] = IF i <= Len(a) THEN a[i] ELSE b[i - Len(a)]
    BY <2>1, ConcatProperties
  <2>3. Len(a) = j
    BY <1>6
  <2>. QED  BY <1>5, <1>7, <2>2, <2>3
<1>9. \A i \in 1..n + 1 : r[i] = IF i < j THEN q[i] ELSE IF i = j THEN x ELSE q[i - 1]
  <2>. TAKE i \in 1..n + 1
  <2>1. CASE i <= j
    BY <1>2, <1>6, <1>8, <2>1
  <2>2. CASE i > j
    <3>1. PICK w \in 1..n + 1 - j : w = i - j /\ j + w - 1 = i - 1
      BY <1>2, <2>2
    <3>2. b[w] = q[i - 1]
      BY <1>4, <3>1
    <3>3. r[i] = b[w]
      BY <1>2, <1>8, <2>2, <3>1
    <3>. QED  BY <1>2, <2>2, <3>2, <3>3
  <2>. QED  BY <1>2, <2>1, <2>2
<1>. QED  BY <1>1, <1>8, <1>9 DEF r

-----------------------------------------------------------------------------
(* StackCells: cells are made.                                             *)

LEMMA CellsInitially == Cells!Init => CellsInv
<1>. SUFFICES ASSUME Cells!Init PROVE CellsInv
  OBVIOUS
<1>1. /\ cells = << >> /\ memVarCells = << >> /\ memStackCells = << >>
      /\ varsUsed = [s \in VarSizes |-> 0] /\ pos = [s \in VarSizes |-> 0]
      /\ memMaxAlign = 0 /\ memAllTotal = 0 /\ cellFunc = 1 /\ stage = "open" /\ done = 0
      /\ stackPos = 0 /\ Len(cells) = 0 /\ Len(memVarCells) = 0 /\ Len(memStackCells) = 0
  BY SizesOK DEF Cells!Init, Cells!Zeroes
<1>2. CellsTypeOK
  BY <1>1, EmptySeq DEF CellsTypeOK
<1>3. \A n, s : Registers(n, s) = {}
  BY <1>1 DEF Registers
<1>4. CountsInv
  BY <1>1, <1>3, FS_EmptySet DEF CountsInv
<1>5. Placed = {}
  BY <1>1 DEF Placed
<1>. QED  BY <1>1, <1>2, <1>4, <1>5 DEF CellsInv, ListsInv, DoneInv, PlacedInv, VarsInv, StackInv, VarsDone

\* The lists name cells.
LEMMA InLists ==
    ASSUME CellsTypeOK
    PROVE  /\ \A i \in 1..Len(memVarCells) : memVarCells[i] \in 1..Len(cells)
           /\ \A i \in 1..Len(memStackCells) : memStackCells[i] \in 1..Len(cells)
<1>1. memVarCells \in Seq(1..Len(cells)) /\ memStackCells \in Seq(1..Len(cells))
  BY DEF CellsTypeOK
<1>2. PICK S : S = 1..Len(cells)
  OBVIOUS
<1>. QED  BY <1>1, <1>2, LenProperties

\* The registers counted are finitely many.
LEMMA CellsCounted ==
    ASSUME CellsTypeOK, NEW n \in Nat, NEW m \in Nat, n <= m, NEW s
    PROVE  /\ IsFiniteSet(Registers(m, s))
           /\ Cardinality(Registers(n, s)) \in Nat /\ Cardinality(Registers(m, s)) \in Nat
           /\ Cardinality(Registers(n, s)) <= Cardinality(Registers(m, s))
<1>1. Registers(m, s) \subseteq 1..Len(cells) /\ Registers(n, s) \subseteq Registers(m, s)
  BY DEF Registers
<1>2. PICK k \in Nat : Len(cells) = k
  BY LenProperties DEF CellsTypeOK
<1>3. IsFiniteSet(Registers(m, s))
  <2>1. IsFiniteSet(1..k)
    BY FS_Interval
  <2>. QED  BY <1>1, <1>2, <2>1, FS_Subset
<1>. QED  BY <1>1, <1>3, FS_Subset, FS_CardinalityType

\* A new cell, at the end of all.
LEMMA Appended ==
    ASSUME CellsTypeOK, NEW r \in Cell, cells' = Append(cells, r), NEW n \in Nat, Len(cells) = n
    PROVE  /\ cells' \in Seq(Cell) /\ Len(cells') = n + 1
           /\ cells'[n + 1] = r
           /\ \A c \in 1..n : cells'[c] = cells[c] /\ cells[c] \in Cell
BY AppendProperties, LenProperties DEF CellsTypeOK

\* _newVarCell for a register that is not a piece of stack.
RegisterMade(size) ==
    /\ stage = "open"
    /\ cells' = Append(cells, [size |-> size, alignment |-> size, offset |-> 0, func |-> cellFunc])
    /\ memVarCells' = <<Len(cells) + 1>> \o memVarCells
    /\ varsUsed' = [varsUsed EXCEPT ![size] = @ + 1]
    /\ memMaxAlign' = Cells!Max({memMaxAlign, size})
    /\ UNCHANGED <<memStackCells, memAllTotal, cellFunc, stage, done, pos, stackPos>>

LEMMA NewRegister ==
    ASSUME CellsInv, NEW size \in VarSizes, RegisterMade(size)
    PROVE  CellsInv'
<1>. DEFINE r == [size |-> size, alignment |-> size, offset |-> 0, func |-> cellFunc]
<1>0. /\ stage = "open" /\ stage' = "open"
      /\ UNCHANGED <<memStackCells, memAllTotal, cellFunc, done, pos, stackPos>>
  BY DEF RegisterMade
<1>1. CellsTypeOK /\ ListsInv /\ CountsInv
  BY DEF CellsInv
<1>2. PICK n \in Nat : Len(cells) = n
  BY <1>1, LenProperties DEF CellsTypeOK
<1>3. PICK k \in Nat : Len(memVarCells) = k
  BY <1>1, LenProperties DEF CellsTypeOK
<1>4. PICK m \in Nat : Len(memStackCells) = m
  BY <1>1, LenProperties DEF CellsTypeOK
<1>5. r \in Cell /\ size \in Nat \ {0}
  BY <1>1, VarSizesNat DEF Cell, CellsTypeOK
<1>6. /\ cells' \in Seq(Cell) /\ Len(cells') = n + 1
      /\ cells'[n + 1] = r /\ \A c \in 1..n : cells'[c] = cells[c] /\ cells[c] \in Cell
  BY <1>1, <1>2, <1>5, Appended DEF RegisterMade
<1>7. /\ \A i \in 1..k : memVarCells[i] \in 1..n
      /\ \A i \in 1..m : memStackCells[i] \in 1..n
  BY <1>1, <1>2, <1>3, <1>4, InLists
<1>8. /\ memVarCells' \in Seq(1..n + 1) /\ Len(memVarCells') = k + 1
      /\ memVarCells'[1] = n + 1 /\ \A i \in 1..k : memVarCells'[i + 1] = memVarCells[i]
  <2>1. memVarCells \in Seq(1..n + 1) /\ <<n + 1>> \in Seq(1..n + 1) /\ Len(<<n + 1>>) = 1
        /\ <<n + 1>>[1] = n + 1
    <3>1. 1..n \subseteq 1..n + 1
      OBVIOUS
    <3>. QED  BY <1>1, <1>2, <3>1 DEF CellsTypeOK
  <2>2. memVarCells' = <<n + 1>> \o memVarCells
    BY <1>2 DEF RegisterMade
  <2>3. \A i \in 1..k : i + 1 \in 1..1 + k /\ ~ (i + 1 <= 1) /\ (i + 1) - 1 = i
    OBVIOUS
  <2>. QED  BY <1>3, <2>1, <2>2, <2>3, ConcatProperties
<1>9. memStackCells \in Seq(1..n + 1)
  <2>1. 1..n \subseteq 1..n + 1
    OBVIOUS
  <2>. QED  BY <1>1, <1>2, <2>1 DEF CellsTypeOK
<1>10. memMaxAlign' \in VarSizes /\ memMaxAlign' >= memMaxAlign /\ memMaxAlign' >= size
  BY <1>1, MaxOfTwo DEF CellsTypeOK, RegisterMade
<1>11. CellsTypeOK'
  <2>1. varsUsed' \in [VarSizes -> Nat]
    BY <1>1 DEF CellsTypeOK, RegisterMade
  <2>. QED  BY <1>0, <1>1, <1>6, <1>8, <1>9, <1>10, <2>1 DEF CellsTypeOK
<1>12. ListsInv'
  <2>0. ASSUME NEW i \in 1..k + 1, i # 1
        PROVE  \E w \in 1..k : i = w + 1 /\ memVarCells'[i] = memVarCells[w]
    <3>1. i - 1 \in 1..k /\ i = (i - 1) + 1
      BY <2>0
    <3>2. PICK w \in 1..k : i = w + 1
      BY <3>1
    <3>. QED  BY <1>8, <3>2
  <2>1. \A i, j \in 1..k + 1 : memVarCells'[i] = memVarCells'[j] => i = j
    <3>. TAKE i, j \in 1..k + 1
    <3>. DEFINE Different == memVarCells'[i] # memVarCells'[j]
    <3>1. ASSUME i = 1, j # 1 PROVE Different
      <4>1. memVarCells'[j] \in 1..n
        BY <1>7, <2>0, <3>1
      <4>. QED  BY <1>8, <3>1, <4>1
    <3>2. ASSUME i # 1, j = 1 PROVE Different
      <4>1. memVarCells'[i] \in 1..n
        BY <1>7, <2>0, <3>2
      <4>. QED  BY <1>8, <3>2, <4>1
    <3>3. ASSUME i # 1, j # 1, i # j PROVE Different
      <4>1. PICK w \in 1..k : i = w + 1 /\ memVarCells'[i] = memVarCells[w]
        BY <2>0, <3>3
      <4>2. PICK z \in 1..k : j = z + 1 /\ memVarCells'[j] = memVarCells[z]
        BY <2>0, <3>3
      <4>3. w # z
        BY <3>3, <4>1, <4>2
      <4>. QED  BY <1>1, <1>3, <4>1, <4>2, <4>3 DEF ListsInv
    <3>. QED  BY <3>1, <3>2, <3>3
  <2>2. \A i \in 1..k + 1, j \in 1..m : memVarCells'[i] # memStackCells[j]
    <3>. TAKE i \in 1..k + 1, j \in 1..m
    <3>1. CASE i = 1
      BY <1>7, <1>8, <3>1
    <3>2. CASE i # 1
      <4>1. PICK w \in 1..k : memVarCells'[i] = memVarCells[w]
        BY <2>0, <3>2
      <4>. QED  BY <1>1, <1>3, <1>4, <4>1 DEF ListsInv
    <3>. QED  BY <3>1, <3>2
  <2>3. ASSUME NEW c \in 1..n + 1
        PROVE  /\ cells'[c].func <= cellFunc
               /\ cells'[c].func = cellFunc =>
                     \/ \E i \in 1..k + 1 : memVarCells'[i] = c
                     \/ \E i \in 1..m : memStackCells[i] = c
    <3>1. CASE c = n + 1
      <4>1. cells'[c].func = cellFunc /\ memVarCells'[1] = c /\ cellFunc <= cellFunc
        BY <1>1, <1>6, <1>8, <3>1 DEF CellsTypeOK
      <4>. QED  BY <4>1
    <3>2. CASE c \in 1..n
      <4>1. ASSUME NEW i \in 1..k, memVarCells[i] = c
            PROVE  \E j \in 1..k + 1 : memVarCells'[j] = c
        <5>1. i + 1 \in 1..k + 1 /\ memVarCells'[i + 1] = c
          BY <1>8, <4>1
        <5>. QED  BY <5>1
      <4>. QED  BY <1>1, <1>2, <1>3, <1>4, <1>6, <3>2, <4>1 DEF ListsInv
    <3>3. c \in 1..n \/ c = n + 1
      OBVIOUS
    <3>. QED  BY <3>1, <3>2, <3>3
  <2>4. \A i, j \in 1..m : memStackCells[i] = memStackCells[j] => i = j
    BY <1>1, <1>4 DEF ListsInv
  <2>5. /\ Len(memVarCells') = k + 1 /\ Len(memStackCells') = m /\ Len(cells') = n + 1
        /\ memStackCells' = memStackCells /\ cellFunc' = cellFunc
    BY <1>0, <1>4, <1>6, <1>8
  <2>. QED  BY <2>1, <2>2, <2>3, <2>4, <2>5 DEF ListsInv
<1>13. CountsInv'
  <2>1. ASSUME NEW i \in 1..k + 1
        PROVE  /\ cells'[memVarCells'[i]].size \in VarSizes
               /\ cells'[memVarCells'[i]].alignment = cells'[memVarCells'[i]].size
    <3>1. CASE i = 1
      BY <1>6, <1>8, <3>1
    <3>2. CASE i # 1
      <4>1. i - 1 \in 1..k /\ (i - 1) + 1 = i
        BY <3>2
      <4>2. memVarCells'[i] = memVarCells[i - 1] /\ memVarCells[i - 1] \in 1..n
        BY <1>7, <1>8, <4>1
      <4>. QED  BY <1>1, <1>3, <1>6, <4>1, <4>2 DEF CountsInv
    <3>. QED  BY <3>1, <3>2
  <2>2. ASSUME NEW s \in VarSizes
        PROVE  varsUsed'[s] = Cardinality(Registers(k + 1, s)')
    <3>1. Registers(k + 1, s)' =
             {c \in 1..n + 1 : cells'[c].size = s /\ \E i \in 1..k + 1 : memVarCells'[i] = c}
      BY <1>6 DEF Registers
    <3>2. Registers(k, s) = {c \in 1..n : cells[c].size = s /\ \E i \in 1..k : memVarCells[i] = c}
      BY <1>2 DEF Registers
    <3>3. ASSUME NEW c \in 1..n
          PROVE  (\E i \in 1..k + 1 : memVarCells'[i] = c) <=> (\E i \in 1..k : memVarCells[i] = c)
      <4>1. ASSUME NEW i \in 1..k + 1, memVarCells'[i] = c PROVE \E j \in 1..k : memVarCells[j] = c
        <5>1. i # 1
          BY <1>8, <4>1
        <5>2. i - 1 \in 1..k /\ (i - 1) + 1 = i
          BY <5>1
        <5>. QED  BY <1>8, <4>1, <5>2
      <4>2. ASSUME NEW i \in 1..k, memVarCells[i] = c PROVE \E j \in 1..k + 1 : memVarCells'[j] = c
        <5>1. i + 1 \in 1..k + 1 /\ memVarCells'[i + 1] = c
          BY <1>8, <4>2
        <5>. QED  BY <5>1
      <4>. QED  BY <4>1, <4>2
    <3>4. \E i \in 1..k + 1 : memVarCells'[i] = n + 1
      BY <1>8
    <3>5. Registers(k + 1, s)' = IF s = size THEN Registers(k, s) \cup {n + 1} ELSE Registers(k, s)
      <4>1. \A c \in 1..n + 1 : c \in 1..n \/ c = n + 1
        OBVIOUS
      <4>2. ASSUME NEW c \in 1..n
            PROVE  c \in Registers(k + 1, s)' <=> c \in Registers(k, s)
        <5>1. c \in 1..n + 1 /\ cells'[c] = cells[c]
          BY <1>6
        <5>. QED  BY <3>1, <3>2, <3>3, <5>1
      <4>3. n + 1 \in Registers(k + 1, s)' <=> s = size
        <5>1. n + 1 \in 1..n + 1 /\ cells'[n + 1].size = size
          BY <1>6
        <5>. QED  BY <3>1, <3>4, <5>1
      <4>4. Registers(k + 1, s)' \subseteq 1..n + 1 /\ Registers(k, s) \subseteq 1..n
        BY <3>1, <3>2
      <4>5. n + 1 \notin 1..n
        OBVIOUS
      <4>. QED  BY <4>1, <4>2, <4>3, <4>4, <4>5
    <3>6. n + 1 \notin Registers(k, s)
      BY <3>2
    <3>7. /\ IsFiniteSet(Registers(k, s)) /\ varsUsed[s] = Cardinality(Registers(k, s))
          /\ varsUsed[s] \in Nat
      BY <1>1, <1>3, CellsCounted DEF CountsInv, CellsTypeOK
    <3>8. CASE s = size
      <4>1. Cardinality(Registers(k, s) \cup {n + 1}) = Cardinality(Registers(k, s)) + 1
        BY <3>6, <3>7, FS_AddElement
      <4>. QED  BY <1>1, <3>5, <3>7, <3>8, <4>1 DEF CellsTypeOK, RegisterMade
    <3>9. CASE s # size
      BY <1>1, <3>5, <3>7, <3>9 DEF CellsTypeOK, RegisterMade
    <3>. QED  BY <3>8, <3>9
  <2>3. ASSUME NEW c \in 1..n + 1, cells'[c].func = cellFunc
        PROVE  cells'[c].alignment <= memMaxAlign'
    <3>1. CASE c = n + 1
      BY <1>6, <1>10, <3>1, VarSizesNat
    <3>2. CASE c \in 1..n
      <4>1. cells'[c] = cells[c] /\ cells[c].alignment \in Nat /\ cells[c].alignment <= memMaxAlign
        BY <1>1, <1>2, <1>6, <2>3, <3>2, VarSizesNat DEF CountsInv, Cell
      <4>2. memMaxAlign \in Nat /\ memMaxAlign' \in Nat
        BY <1>1, <1>10, VarSizesNat DEF CellsTypeOK
      <4>3. cells'[c].alignment \in Nat /\ cells'[c].alignment <= memMaxAlign
        BY <4>1
      <4>. QED  BY <1>10, <4>2, <4>3
    <3>3. c \in 1..n \/ c = n + 1
      OBVIOUS
    <3>. QED  BY <3>1, <3>2, <3>3
  <2>. QED  BY <1>0, <1>6, <1>8, <2>1, <2>2, <2>3 DEF CountsInv
<1>14. stage' = "open" /\ Placed' = {} /\ VarsDone' = 0
  BY <1>0 DEF Placed, VarsDone, StackDone
<1>. QED  BY <1>11, <1>12, <1>13, <1>14 DEF CellsInv, DoneInv, PlacedInv, VarsInv, StackInv

\* A piece of stack: _newStackCell and what its callers leave alone.
StackMade(size, alignment) ==
    /\ stage = "open"
    /\ Cells!NewStackCell(size, alignment)
    /\ UNCHANGED <<memVarCells, varsUsed, memAllTotal, cellFunc, stage, done, pos, stackPos>>

LEMMA NewPiece ==
    ASSUME CellsInv, NEW size \in Nat \ {0}, NEW alignment, Cells!IsAlignment(alignment),
           StackMade(size, alignment)
    PROVE  CellsInv'
<1>0. /\ stage = "open" /\ stage' = "open" /\ memVarCells' = memVarCells /\ cellFunc' = cellFunc
      /\ UNCHANGED <<varsUsed, memAllTotal, done, pos, stackPos>>
  BY DEF StackMade
<1>1. CellsTypeOK /\ ListsInv /\ CountsInv
  BY DEF CellsInv
<1>2. PICK n \in Nat : Len(cells) = n
  BY <1>1, LenProperties DEF CellsTypeOK
<1>3. PICK k \in Nat : Len(memVarCells) = k
  BY <1>1, LenProperties DEF CellsTypeOK
<1>4. PICK m \in Nat : Len(memStackCells) = m
  BY <1>1, LenProperties DEF CellsTypeOK
<1>5. PICK a \in VarSizes : a = IF alignment = 0 THEN Cells!DefaultAlignment(size)
                                ELSE Cells!Min({alignment, 64})
  BY AlignmentOK
<1>6. PICK b \in Nat :
        /\ b <= m
        /\ cells' = Append(cells, [size |-> Cells!AlignTo(size, a), alignment |-> a,
                                   offset |-> 0, func |-> cellFunc])
        /\ memStackCells' = Cells!InsertAt(memStackCells, b + 1, n + 1)
        /\ memMaxAlign' = Cells!Max({memMaxAlign, a})
  <2>. DEFINE A == IF alignment = 0 THEN Cells!DefaultAlignment(size) ELSE Cells!Min({alignment, 64})
              cell == [size |-> Cells!AlignTo(size, A), alignment |-> A, offset |-> 0, func |-> cellFunc]
              before == {i \in DOMAIN memStackCells :
                            \A j \in 1..i : LET cur == cells[memStackCells[j]] IN
                                \/ cur.alignment > cell.alignment
                                \/ cur.alignment = cell.alignment /\ cur.size > cell.size}
  <2>1. before \subseteq 1..m
    BY <1>1, <1>4, LenProperties DEF CellsTypeOK
  <2>2. IsFiniteSet(1..m) /\ Cardinality(1..m) = m
    BY FS_Interval
  <2>. HIDE DEF before
  <2>3. Cardinality(before) \in Nat /\ Cardinality(before) <= m
    BY <2>1, <2>2, FS_Subset, FS_CardinalityType
  <2>4. /\ cells' = Append(cells, cell)
        /\ memStackCells' = Cells!InsertAt(memStackCells, Cardinality(before) + 1, Len(cells) + 1)
        /\ memMaxAlign' = Cells!Max({memMaxAlign, A})
    BY DEF StackMade, Cells!NewStackCell, before, Cells!Cardinality, Cardinality
  <2>. QED  BY <1>2, <1>5, <2>3, <2>4
<1>7. PICK r \in Cell : r.alignment = a /\ r.func = cellFunc /\ cells' = Append(cells, r)
  <2>1. Cells!AlignTo(size, a) \in Nat \ {0}
    BY <1>5, AlignedTo
  <2>. DEFINE r == [size |-> Cells!AlignTo(size, a), alignment |-> a, offset |-> 0, func |-> cellFunc]
  <2>2. cellFunc \in Nat
    BY <1>1 DEF CellsTypeOK
  <2>3. r \in Cell
    BY <2>1, <2>2 DEF Cell
  <2>4. r.alignment = a /\ r.func = cellFunc /\ cells' = Append(cells, r)
    BY <1>6
  <2>. QED  BY <2>3, <2>4
<1>8. /\ cells' \in Seq(Cell) /\ Len(cells') = n + 1
      /\ cells'[n + 1] = r /\ \A c \in 1..n : cells'[c] = cells[c] /\ cells[c] \in Cell
  BY <1>1, <1>2, <1>7, Appended
<1>9. /\ \A i \in 1..k : memVarCells[i] \in 1..n
      /\ \A i \in 1..m : memStackCells[i] \in 1..n
  BY <1>1, <1>2, <1>3, <1>4, InLists
<1>10. /\ memStackCells' \in Seq(1..n + 1) /\ Len(memStackCells') = m + 1
       /\ \A i \in 1..m + 1 :
             memStackCells'[i] = IF i <= b THEN memStackCells[i]
                                 ELSE IF i = b + 1 THEN n + 1 ELSE memStackCells[i - 1]
  <2>1. memStackCells \in Seq(1..n + 1) /\ n + 1 \in 1..n + 1
    <3>1. memStackCells \in Seq(1..n) /\ 1..n \subseteq 1..n + 1
      BY <1>1, <1>2 DEF CellsTypeOK
    <3>. QED  BY <3>1
  <2>2. b + 1 \in 1..Len(memStackCells) + 1
    BY <1>4, <1>6
  <2>3. \A i \in 1..m + 1 : i < b + 1 <=> i <= b
    BY <1>6
  <2>4. /\ memStackCells' \in Seq(1..n + 1) /\ Len(memStackCells') = m + 1
        /\ \A i \in 1..m + 1 :
              memStackCells'[i] = IF i < b + 1 THEN memStackCells[i]
                                  ELSE IF i = b + 1 THEN n + 1 ELSE memStackCells[i - 1]
    <3>1. PICK S, x, j : S = 1..n + 1 /\ x = n + 1 /\ j = b + 1
      OBVIOUS
    <3>2. memStackCells \in Seq(S) /\ x \in S /\ j \in 1..Len(memStackCells) + 1
      BY <2>1, <2>2, <3>1
    <3>3. /\ Cells!InsertAt(memStackCells, j, x) \in Seq(S)
          /\ Len(Cells!InsertAt(memStackCells, j, x)) = Len(memStackCells) + 1
          /\ \A i \in 1..Len(memStackCells) + 1 :
                Cells!InsertAt(memStackCells, j, x)[i] =
                    IF i < j THEN memStackCells[i] ELSE IF i = j THEN x ELSE memStackCells[i - 1]
      BY <3>2, Inserted
    <3>. QED  BY <1>4, <1>6, <3>1, <3>3
  <2>. QED  BY <2>3, <2>4
<1>11. memVarCells \in Seq(1..n + 1)
  <2>1. 1..n \subseteq 1..n + 1
    OBVIOUS
  <2>. QED  BY <1>1, <1>2, <2>1 DEF CellsTypeOK
<1>12. memMaxAlign' \in VarSizes /\ memMaxAlign' >= memMaxAlign /\ memMaxAlign' >= a
  BY <1>1, <1>6, MaxOfTwo DEF CellsTypeOK
<1>13. CellsTypeOK'
  BY <1>0, <1>1, <1>8, <1>10, <1>11, <1>12 DEF CellsTypeOK
<1>14. ListsInv'
  <2>0. ASSUME NEW i \in 1..m + 1
        PROVE  \/ i = b + 1 /\ memStackCells'[i] = n + 1
               \/ \E w \in 1..m : /\ memStackCells'[i] = memStackCells[w]
                                  /\ i = (IF w <= b THEN w ELSE w + 1)
    <3>1. CASE i <= b
      <4>1. i \in 1..m
        BY <1>6, <3>1
      <4>. QED  BY <1>10, <3>1, <4>1
    <3>2. CASE i = b + 1
      BY <1>10, <3>2
    <3>3. CASE i > b + 1
      <4>1. i - 1 \in 1..m /\ ~ (i - 1 <= b) /\ i = (i - 1) + 1
        BY <3>3
      <4>2. memStackCells'[i] = memStackCells[i - 1]
        BY <1>10, <3>3
      <4>. QED  BY <4>1, <4>2
    <3>. QED  BY <3>1, <3>2, <3>3
  <2>1. \A i, j \in 1..m + 1 : memStackCells'[i] = memStackCells'[j] => i = j
    <3>. TAKE i, j \in 1..m + 1
    <3>1. CASE i = b + 1 \/ j = b + 1
      BY <1>9, <2>0, <3>1
    <3>2. CASE i # b + 1 /\ j # b + 1
      <4>1. PICK w \in 1..m : /\ memStackCells'[i] = memStackCells[w]
                              /\ i = (IF w <= b THEN w ELSE w + 1)
        BY <2>0, <3>2
      <4>2. PICK z \in 1..m : /\ memStackCells'[j] = memStackCells[z]
                              /\ j = (IF z <= b THEN z ELSE z + 1)
        BY <2>0, <3>2
      <4>3. memStackCells[w] = memStackCells[z] => w = z
        BY <1>1, <1>4 DEF ListsInv
      <4>. QED  BY <4>1, <4>2, <4>3
    <3>. QED  BY <3>1, <3>2
  <2>2. \A i \in 1..k, j \in 1..m + 1 : memVarCells[i] # memStackCells'[j]
    <3>. TAKE i \in 1..k, j \in 1..m + 1
    <3>1. CASE memStackCells'[j] = n + 1
      BY <1>9, <3>1
    <3>2. CASE \E w \in 1..m : memStackCells'[j] = memStackCells[w]
      BY <1>1, <1>3, <1>4, <3>2 DEF ListsInv
    <3>. QED  BY <2>0, <3>1, <3>2
  <2>3. ASSUME NEW c \in 1..n + 1
        PROVE  /\ cells'[c].func <= cellFunc
               /\ cells'[c].func = cellFunc =>
                     \/ \E i \in 1..k : memVarCells[i] = c
                     \/ \E i \in 1..m + 1 : memStackCells'[i] = c
    <3>1. CASE c = n + 1
      <4>1. cells'[c].func = cellFunc /\ cellFunc <= cellFunc
        BY <1>1, <1>7, <1>8, <3>1 DEF CellsTypeOK
      <4>2. b + 1 \in 1..m + 1 /\ memStackCells'[b + 1] = c
        BY <1>6, <1>10, <3>1
      <4>. QED  BY <4>1, <4>2
    <3>2. CASE c \in 1..n
      <4>1. ASSUME NEW i \in 1..m, memStackCells[i] = c
            PROVE  \E j \in 1..m + 1 : memStackCells'[j] = c
        <5>1. CASE i <= b
          <6>1. i \in 1..m + 1 /\ memStackCells'[i] = c
            BY <1>10, <4>1, <5>1
          <6>. QED  BY <6>1
        <5>2. CASE ~ (i <= b)
          <6>1. /\ i + 1 \in 1..m + 1 /\ ~ (i + 1 <= b) /\ i + 1 # b + 1 /\ (i + 1) - 1 = i
            BY <1>6, <5>2
          <6>2. memStackCells'[i + 1] = c
            BY <1>10, <4>1, <6>1
          <6>. QED  BY <6>1, <6>2
        <5>. QED  BY <5>1, <5>2
      <4>. QED  BY <1>1, <1>2, <1>3, <1>4, <1>8, <3>2, <4>1 DEF ListsInv
    <3>3. c \in 1..n \/ c = n + 1
      OBVIOUS
    <3>. QED  BY <3>1, <3>2, <3>3
  <2>4. \A i, j \in 1..k : memVarCells[i] = memVarCells[j] => i = j
    BY <1>1, <1>3 DEF ListsInv
  <2>5. /\ Len(memVarCells') = k /\ Len(memStackCells') = m + 1 /\ Len(cells') = n + 1
        /\ memVarCells' = memVarCells /\ cellFunc' = cellFunc
    BY <1>0, <1>3, <1>8, <1>10
  <2>. QED  BY <2>1, <2>2, <2>3, <2>4, <2>5 DEF ListsInv
<1>15. CountsInv'
  <2>1. \A i \in 1..k : /\ cells'[memVarCells[i]].size \in VarSizes
                        /\ cells'[memVarCells[i]].alignment = cells'[memVarCells[i]].size
    BY <1>1, <1>3, <1>8, <1>9 DEF CountsInv
  <2>2. ASSUME NEW s \in VarSizes
        PROVE  varsUsed[s] = Cardinality(Registers(k, s)')
    <3>1. Registers(k, s)' = {c \in 1..n + 1 : cells'[c].size = s /\ \E i \in 1..k : memVarCells[i] = c}
      BY <1>0, <1>8 DEF Registers
    <3>2. Registers(k, s) = {c \in 1..n : cells[c].size = s /\ \E i \in 1..k : memVarCells[i] = c}
      BY <1>2 DEF Registers
    <3>3. \A c \in 1..n + 1 : c \in Registers(k, s)' <=> c \in Registers(k, s)
      BY <1>8, <1>9, <3>1, <3>2
    <3>4. Registers(k, s)' = Registers(k, s)
      BY <3>1, <3>2, <3>3
    <3>. QED  BY <1>1, <1>3, <3>4 DEF CountsInv
  <2>3. ASSUME NEW c \in 1..n + 1, cells'[c].func = cellFunc
        PROVE  cells'[c].alignment <= memMaxAlign'
    <3>1. CASE c = n + 1
      BY <1>7, <1>8, <1>12, <3>1, VarSizesNat
    <3>2. CASE c \in 1..n
      <4>1. cells'[c] = cells[c] /\ cells[c].alignment \in Nat /\ cells[c].alignment <= memMaxAlign
        BY <1>1, <1>2, <1>8, <2>3, <3>2, VarSizesNat DEF CountsInv, Cell
      <4>2. memMaxAlign \in Nat /\ memMaxAlign' \in Nat
        BY <1>1, <1>12, VarSizesNat DEF CellsTypeOK
      <4>3. cells'[c].alignment \in Nat /\ cells'[c].alignment <= memMaxAlign
        BY <4>1
      <4>. QED  BY <1>12, <4>2, <4>3
    <3>3. c \in 1..n \/ c = n + 1
      OBVIOUS
    <3>. QED  BY <3>1, <3>2, <3>3
  <2>. QED  BY <1>0, <1>3, <1>8, <2>1, <2>2, <2>3 DEF CountsInv
<1>16. Placed' = {} /\ VarsDone' = 0
  BY <1>0 DEF Placed, VarsDone, StackDone
<1>. QED  BY <1>0, <1>13, <1>14, <1>15, <1>16 DEF CellsInv, DoneInv, PlacedInv, VarsInv, StackInv

-----------------------------------------------------------------------------
(* StackCells: cells get their offsets.                                    *)

\* Of the cells, only offsets change.
SameShape ==
    /\ cells' \in Seq(Cell) /\ Len(cells') = Len(cells)
    /\ \A c \in 1..Len(cells) : /\ cells'[c].size = cells[c].size
                                /\ cells'[c].alignment = cells[c].alignment
                                /\ cells'[c].func = cells[c].func
    /\ UNCHANGED <<memVarCells, memStackCells, varsUsed, memMaxAlign, cellFunc>>

LEMMA ShapeKept ==
    ASSUME CellsInv, SameShape
    PROVE  /\ ListsInv' /\ CountsInv' /\ Cells!Start' = Cells!Start
           /\ \A n, s : Registers(n, s)' = Registers(n, s)
<1>1. CellsTypeOK /\ ListsInv /\ CountsInv
  BY DEF CellsInv
<1>2. PICK n \in Nat : Len(cells) = n
  BY <1>1, LenProperties DEF CellsTypeOK
<1>3. PICK k \in Nat : Len(memVarCells) = k
  BY <1>1, LenProperties DEF CellsTypeOK
<1>4. /\ Len(cells') = n
      /\ \A c \in 1..n : /\ cells'[c].size = cells[c].size
                         /\ cells'[c].alignment = cells[c].alignment
                         /\ cells'[c].func = cells[c].func
      /\ memVarCells' = memVarCells /\ memStackCells' = memStackCells /\ varsUsed' = varsUsed
      /\ memMaxAlign' = memMaxAlign /\ cellFunc' = cellFunc
  BY <1>2 DEF SameShape
<1>5. \A i \in 1..k : memVarCells[i] \in 1..n
  BY <1>1, <1>2, <1>3, InLists
<1>6. \A m, s : Registers(m, s)' = Registers(m, s)
  BY <1>2, <1>4 DEF Registers
<1>7. ListsInv'
  BY <1>1, <1>2, <1>4 DEF ListsInv
<1>8. CountsInv'
  <2>1. \A i \in 1..k : /\ cells'[memVarCells[i]].size \in VarSizes
                        /\ cells'[memVarCells[i]].alignment = cells'[memVarCells[i]].size
    BY <1>1, <1>3, <1>4, <1>5 DEF CountsInv
  <2>2. \A s \in VarSizes : varsUsed[s] = Cardinality(Registers(k, s)')
    BY <1>1, <1>3, <1>6 DEF CountsInv
  <2>3. \A c \in 1..n : cells'[c].func = cellFunc => cells'[c].alignment <= memMaxAlign
    BY <1>1, <1>2, <1>4 DEF CountsInv
  <2>. QED  BY <1>3, <1>4, <2>1, <2>2, <2>3 DEF CountsInv
<1>9. Cells!Start' = Cells!Start
  BY <1>4 DEF Cells!Start
<1>. QED  BY <1>6, <1>7, <1>8, <1>9

OffsetSet(c, x) ==
    /\ cells' = [cells EXCEPT ![c].offset = x]
    /\ UNCHANGED <<memVarCells, memStackCells, varsUsed, memMaxAlign, cellFunc>>

LEMMA SetOffset ==
    ASSUME CellsTypeOK, NEW c \in 1..Len(cells), NEW x \in Nat, OffsetSet(c, x)
    PROVE  /\ SameShape
           /\ cells'[c].offset = x
           /\ \A d \in 1..Len(cells) : d # c => cells'[d] = cells[d]
<1>1. PICK n \in Nat : Len(cells) = n
  BY LenProperties DEF CellsTypeOK
<1>2. \A d \in 1..n : cells[d] \in Cell
  BY <1>1, LenProperties DEF CellsTypeOK
<1>3. [cells[c] EXCEPT !.offset = x] \in Cell
  BY <1>1, <1>2 DEF Cell
<1>4. cells' \in Seq(Cell) /\ Len(cells') = n
  BY <1>1, <1>3, LenProperties DEF CellsTypeOK, OffsetSet
<1>5. /\ cells'[c] = [cells[c] EXCEPT !.offset = x]
      /\ \A d \in 1..n : d # c => cells'[d] = cells[d]
  BY <1>1, <1>3, LenProperties DEF CellsTypeOK, OffsetSet
<1>6. /\ cells'[c].offset = x /\ cells'[c].size = cells[c].size
      /\ cells'[c].alignment = cells[c].alignment /\ cells'[c].func = cells[c].func
  BY <1>1, <1>2, <1>5 DEF Cell
<1>. QED  BY <1>1, <1>4, <1>5, <1>6 DEF SameShape, OffsetSet

LEMMA BeginStep == ASSUME CellsInv, Cells!ResolveBegin PROVE CellsInv'
<1>1. /\ stage = "open" /\ stage' = "vars" /\ done' = 0 /\ pos' = Cells!Start
      /\ UNCHANGED <<cells, memVarCells, memStackCells, varsUsed, memMaxAlign, memAllTotal,
                     cellFunc, stackPos>>
  BY DEF Cells!ResolveBegin, Cells!lists
<1>2. CellsTypeOK
  BY DEF CellsInv
<1>3. SameShape
  BY <1>1, <1>2 DEF SameShape, CellsTypeOK
<1>4. /\ ListsInv' /\ CountsInv' /\ Cells!Start' = Cells!Start
      /\ \A n, s : Registers(n, s)' = Registers(n, s)
  BY <1>3, ShapeKept
<1>5. Cells!Start \in [VarSizes -> Nat]
  BY <1>2, Parts DEF CellsTypeOK
<1>6. CellsTypeOK'
  BY <1>1, <1>2, <1>5 DEF CellsTypeOK
<1>7. Placed' = {} /\ VarsDone' = 0
  BY <1>1 DEF Placed, VarsDone, StackDone
<1>8. DoneInv'
  <2>1. Len(memVarCells) \in Nat
    BY <1>2, LenProperties DEF CellsTypeOK
  <2>. QED  BY <1>1, <2>1 DEF DoneInv
<1>9. VarsInv'
  <2>1. \A s : Registers(0, s) = {}
    BY DEF Registers
  <2>2. \A s \in VarSizes : pos'[s] = Cells!Start'[s] + s * Cardinality(Registers(0, s)')
    BY <1>1, <1>4, <1>5, <2>1, FS_EmptySet, VarSizesNat
  <2>. QED  BY <1>1, <1>7, <2>2 DEF VarsInv
<1>. QED  BY <1>1, <1>4, <1>6, <1>7, <1>8, <1>9 DEF CellsInv, PlacedInv, StackInv


\* A cell gets a place apart from all that have theirs.
LEMMA OneMorePlaced ==
    ASSUME CellsInv, NEW c \in 1..Len(cells), c \notin Placed, NEW x \in Nat, OffsetSet(c, x),
           Placed' = Placed \cup {c}, x % cells[c].alignment = 0,
           \A d \in Placed : \/ cells[d].offset + cells[d].size <= x
                             \/ x + cells[c].size <= cells[d].offset
    PROVE  PlacedInv'
<1>1. CellsTypeOK /\ PlacedInv
  BY DEF CellsInv
<1>2. PICK n \in Nat : Len(cells) = n
  BY <1>1, LenProperties DEF CellsTypeOK
<1>3. /\ cells'[c].offset = x /\ cells'[c].size = cells[c].size
      /\ cells'[c].alignment = cells[c].alignment
      /\ \A d \in 1..n : d # c => cells'[d] = cells[d]
  BY <1>1, <1>2, SetOffset DEF SameShape
<1>4. Placed \subseteq 1..n
  BY <1>2 DEF Placed
<1>5. \A d \in Placed : cells'[d] = cells[d]
  BY <1>3, <1>4
<1>6. ASSUME NEW d \in Placed'
      PROVE  cells'[d].offset % cells'[d].alignment = 0
  BY <1>1, <1>3, <1>5, <1>6 DEF PlacedInv
<1>7. ASSUME NEW d \in Placed', NEW e \in Placed', d # e
      PROVE  \/ cells'[d].offset + cells'[d].size <= cells'[e].offset
             \/ cells'[e].offset + cells'[e].size <= cells'[d].offset
  <2>1. CASE d \in Placed /\ e \in Placed
    BY <1>1, <1>5, <1>7, <2>1 DEF PlacedInv, CellsApart
  <2>2. CASE d = c /\ e \in Placed
    BY <1>3, <1>5, <2>2
  <2>3. CASE e = c /\ d \in Placed
    BY <1>3, <1>5, <2>3
  <2>. QED  BY <1>7, <2>1, <2>2, <2>3
<1>. QED  BY <1>6, <1>7 DEF PlacedInv, CellsApart

LEMMA VarStep == ASSUME CellsInv, Cells!ResolveVar PROVE CellsInv'
<1>1. CellsTypeOK /\ ListsInv /\ CountsInv /\ VarsInv /\ PlacedInv
  BY DEF CellsInv
<1>2. PICK n \in Nat : Len(cells) = n
  BY <1>1, LenProperties DEF CellsTypeOK
<1>3. PICK k \in Nat : Len(memVarCells) = k
  BY <1>1, LenProperties DEF CellsTypeOK
<1>4. PICK i0 \in Nat : done = i0
  BY <1>1 DEF CellsTypeOK
<1>5. stage = "vars" /\ stage' = "vars" /\ i0 < k /\ done' = i0 + 1 /\ i0 + 1 \in 1..k
  BY <1>3, <1>4 DEF Cells!ResolveVar
<1>6. PICK c \in 1..n : c = memVarCells[i0 + 1]
  BY <1>1, <1>2, <1>3, <1>5, InLists
<1>7. PICK s \in VarSizes : s = cells[c].size /\ s = cells[c].alignment
  BY <1>1, <1>3, <1>5, <1>6 DEF CountsInv
<1>8. PICK x \in Nat : x = pos[s]
  BY <1>1 DEF CellsTypeOK
<1>9. /\ OffsetSet(c, x)
      /\ pos' = [pos EXCEPT ![s] = @ + s]
      /\ memAllTotal' = memAllTotal /\ stackPos' = stackPos
  BY <1>4, <1>6, <1>7, <1>8 DEF Cells!ResolveVar, Cells!lists, OffsetSet
<1>10. /\ SameShape /\ cells'[c].offset = x
       /\ \A d \in 1..n : d # c => cells'[d] = cells[d]
  BY <1>1, <1>2, <1>9, SetOffset
<1>11. /\ ListsInv' /\ CountsInv' /\ Cells!Start' = Cells!Start
       /\ \A m, t : Registers(m, t)' = Registers(m, t)
  BY <1>10, ShapeKept
<1>12. /\ cells' \in Seq(Cell) /\ Len(cells') = n
       /\ \A d \in 1..n : cells'[d].size = cells[d].size
       /\ memVarCells' = memVarCells /\ memStackCells' = memStackCells
       /\ varsUsed' = varsUsed /\ memMaxAlign' = memMaxAlign /\ cellFunc' = cellFunc
  BY <1>2, <1>10 DEF SameShape
<1>13. s \in Nat /\ s > 0
  BY VarSizesNat
<1>14. /\ pos' \in [VarSizes -> Nat]
       /\ pos'[s] = x + s /\ \A t \in VarSizes : t # s => pos'[t] = pos[t]
  BY <1>1, <1>8, <1>9, <1>13 DEF CellsTypeOK
<1>15. CellsTypeOK'
  BY <1>1, <1>2, <1>5, <1>9, <1>12, <1>14 DEF CellsTypeOK
<1>16. DoneInv'
  BY <1>3, <1>5, <1>12 DEF DoneInv
<1>17. /\ \A i \in 1..i0 : memVarCells[i] \in 1..n /\ memVarCells[i] # c
       /\ \A i \in 1..i0 + 1 : i \in 1..i0 \/ i = i0 + 1
  BY <1>1, <1>2, <1>3, <1>5, <1>6, LenProperties DEF CellsTypeOK, ListsInv
<1>18. \A d \in 1..n : cells[d] \in Cell
  BY <1>1, <1>2, LenProperties DEF CellsTypeOK
<1>. DEFINE q(t) == Cardinality(Registers(i0, t))
<1>19. \A t \in VarSizes : q(t) \in Nat
  BY <1>1, CellsCounted
<1>20. \A t \in VarSizes :
          Cardinality(Registers(i0 + 1, t)) = IF t = s THEN q(s) + 1 ELSE q(t)
  <2>0. /\ \A d, t : d \in Registers(i0, t) <=>
                /\ d \in 1..n /\ cells[d].size = t /\ \E i \in 1..i0 : memVarCells[i] = d
        /\ \A d, t : d \in Registers(i0 + 1, t) <=>
                /\ d \in 1..n /\ cells[d].size = t /\ \E i \in 1..i0 + 1 : memVarCells[i] = d
    BY <1>2 DEF Registers
  <2>5. i0 + 1 \in 1..i0 + 1 /\ \A i \in 1..i0 : i \in 1..i0 + 1
    OBVIOUS
  <2>6. \A d : (\E i \in 1..i0 + 1 : memVarCells[i] = d) <=>
               d = c \/ \E i \in 1..i0 : memVarCells[i] = d
    BY <1>6, <1>17, <2>5
  <2>1. Registers(i0 + 1, s) = Registers(i0, s) \cup {c}
    <3>0. c \in Registers(i0 + 1, s)
      <4>1. \E i \in 1..i0 + 1 : memVarCells[i] = c
        BY <1>6, <2>5
      <4>2. c \in 1..n /\ cells[c].size = s
        BY <1>7
      <4>. QED  BY <2>0, <4>1, <4>2
    <3>1. \A d : d \in Registers(i0 + 1, s) <=> d \in Registers(i0, s) \/ d = c
      BY <2>0, <2>6, <3>0
    <3>2. Registers(i0 + 1, s) \subseteq 1..n /\ Registers(i0, s) \subseteq 1..n
      BY <2>0
    <3>. QED  BY <3>1, <3>2
  <2>2. c \notin Registers(i0, s) /\ IsFiniteSet(Registers(i0, s))
    <3>1. c \notin Registers(i0, s)
      BY <1>17, <2>0
    <3>2. IsFiniteSet(Registers(i0, s))
      BY <1>1, CellsCounted
    <3>. QED  BY <3>1, <3>2
  <2>3. Cardinality(Registers(i0 + 1, s)) = q(s) + 1
    BY <2>1, <2>2, FS_AddElement
  <2>4. ASSUME NEW t \in VarSizes, t # s
        PROVE  Registers(i0 + 1, t) = Registers(i0, t)
    <3>1. \A d : d \in Registers(i0 + 1, t) <=> d \in Registers(i0, t)
      BY <1>7, <2>0, <2>4, <2>6
    <3>2. Registers(i0 + 1, t) \subseteq 1..n /\ Registers(i0, t) \subseteq 1..n
      BY <2>0
    <3>. QED  BY <3>1, <3>2
  <2>. QED  BY <2>3, <2>4
<1>21. varsUsed[s] \in Nat /\ q(s) + 1 <= varsUsed[s]
  <2>1. Cardinality(Registers(i0 + 1, s)) <= Cardinality(Registers(k, s))
    BY <1>1, <1>5, CellsCounted
  <2>2. Cardinality(Registers(i0 + 1, s)) = q(s) + 1
    BY <1>20
  <2>. QED  BY <1>1, <1>3, <2>1, <2>2 DEF CountsInv, CellsTypeOK
<1>22. \A t \in VarSizes : pos[t] = Cells!Start[t] + t * q(t)
  BY <1>1, <1>4, <1>5 DEF VarsInv
<1>. HIDE DEF q
<1>23. /\ Cells!Start \in [VarSizes -> Nat]
       /\ \A t \in VarSizes : Cells!Start[t] % t = 0
       /\ \A t, u \in VarSizes : u < t => Cells!Start[t] + t * varsUsed[t] <= Cells!Start[u]
  BY <1>1, Parts DEF CellsTypeOK
<1>24. /\ Cells!Start[s] <= x /\ x % s = 0
       /\ x + s = Cells!Start[s] + s * (q(s) + 1)
       /\ x + s <= Cells!Start[s] + s * varsUsed[s]
  <2>1. PICK y \in Nat : y = Cells!Start[s] /\ y % s = 0
    BY <1>23
  <2>2. PICK z \in Nat : z = q(s)
    BY <1>19
  <2>3. /\ s * z \in Nat /\ s * (z + 1) = s * z + s /\ (y + s * z) % s = 0
    BY <2>1, <2>2, Behind
  <2>4. s * (z + 1) <= s * varsUsed[s] /\ s * varsUsed[s] \in Nat
    <3>1. PICK u \in Nat : u = varsUsed[s] /\ z + 1 <= u
      BY <1>21, <2>2
    <3>2. s * u \in Nat
      BY <2>1, Behind
    <3>3. z + 1 \in Nat
      OBVIOUS
    <3>4. s * (z + 1) <= s * u
      BY <2>1, <3>1, <3>3, Behind
    <3>. QED  BY <3>1, <3>2, <3>4
  <2>5. x = y + s * z
    BY <1>8, <1>22, <2>1, <2>2
  <2>. QED  BY <1>13, <2>1, <2>2, <2>3, <2>4, <2>5
<1>25. VarsInv'
  <2>1. ASSUME NEW t \in VarSizes
        PROVE  pos'[t] = Cells!Start[t] + t * Cardinality(Registers(i0 + 1, t))
    BY <1>14, <1>20, <1>22, <1>24
  <2>2. ASSUME NEW i \in 1..i0 + 1, NEW d, d = memVarCells[i], NEW t, t = cells[d].size
        PROVE  /\ Cells!Start[t] <= cells'[d].offset
               /\ cells'[d].offset + t <= pos'[t]
               /\ cells'[d].offset + t <= Cells!Start[t] + t * varsUsed[t]
    <3>1. CASE i = i0 + 1
      <4>1. d = c /\ t = s
        BY <1>6, <1>7, <2>2, <3>1
      <4>2. x + s <= x + s
        BY <1>13
      <4>. QED  BY <1>10, <1>14, <1>24, <4>1, <4>2
    <3>2. CASE i \in 1..i0
      <4>1. d \in 1..n /\ cells'[d] = cells[d]
        BY <1>10, <1>17, <2>2, <3>2
      <4>2. t \in VarSizes
        BY <1>1, <1>3, <1>5, <2>2, <3>2 DEF CountsInv
      <4>3. /\ Cells!Start[t] <= cells[d].offset
            /\ cells[d].offset + t <= pos[t]
            /\ cells[d].offset + t <= Cells!Start[t] + t * varsUsed[t]
        BY <1>1, <1>4, <1>5, <2>2, <3>2 DEF VarsInv, VarsDone
      <4>4. cells[d].offset \in Nat /\ t \in Nat
        BY <1>18, <4>1, <4>2, VarSizesNat DEF Cell
      <4>5. pos[t] \in Nat /\ pos'[t] \in Nat /\ pos[t] <= pos'[t]
        <5>1. pos[t] \in Nat /\ pos'[t] \in Nat
          BY <1>1, <1>14, <4>2 DEF CellsTypeOK
        <5>2. CASE t = s
          BY <1>8, <1>13, <1>14, <5>2
        <5>3. CASE t # s
          BY <1>14, <4>2, <5>1, <5>3
        <5>. QED  BY <5>1, <5>2, <5>3
      <4>. QED  BY <4>1, <4>3, <4>4, <4>5
    <3>. QED  BY <1>17, <3>1, <3>2
  <2>3. VarsDone' = i0 + 1
    BY <1>5 DEF VarsDone
  <2>4. \A i \in 1..i0 + 1 : memVarCells[i] \in 1..n
    BY <1>6, <1>17
  <2>5. \A i \in 1..i0 + 1 : cells'[memVarCells[i]].size = cells[memVarCells[i]].size
    BY <1>12, <2>4
  <2>. QED  BY <1>5, <1>11, <1>12, <2>1, <2>2, <2>3, <2>5 DEF VarsInv
<1>26. /\ \A d : d \in Placed <=> \E i \in 1..i0 : memVarCells[i] = d
       /\ \A d : d \in Placed' <=> \E i \in 1..i0 + 1 : memVarCells[i] = d
  <2>1. VarsDone = i0 /\ VarsDone' = i0 + 1 /\ StackDone = 0 /\ StackDone' = 0
    BY <1>4, <1>5 DEF VarsDone, StackDone
  <2>2. /\ \A i \in 1..i0 : memVarCells[i] \in 1..n
        /\ \A i \in 1..i0 + 1 : memVarCells[i] \in 1..n
    BY <1>6, <1>17
  <2>3. 1..0 = {}
    OBVIOUS
  <2>. QED  BY <1>2, <1>12, <2>1, <2>2, <2>3 DEF Placed
<1>27. PlacedInv'
  <2>1. c \notin Placed
    BY <1>17, <1>26
  <2>2. Placed' = Placed \cup {c}
    <3>1. i0 + 1 \in 1..i0 + 1 /\ \A i \in 1..i0 : i \in 1..i0 + 1
      OBVIOUS
    <3>2. \A d : d \in Placed' <=> d \in Placed \/ d = c
      BY <1>6, <1>17, <1>26, <3>1
    <3>. QED  BY <3>2
  <2>3. ASSUME NEW d \in Placed
        PROVE  \/ cells[d].offset + cells[d].size <= x
               \/ x + cells[c].size <= cells[d].offset
    <3>1. PICK i \in 1..i0 : memVarCells[i] = d
      BY <1>26
    <3>2. PICK t \in VarSizes : t = cells[d].size
      BY <1>1, <1>3, <1>5, <3>1 DEF CountsInv
    <3>3. /\ Cells!Start[t] <= cells[d].offset
          /\ cells[d].offset + t <= pos[t]
          /\ cells[d].offset + t <= Cells!Start[t] + t * varsUsed[t]
      BY <1>1, <1>4, <1>5, <3>1, <3>2 DEF VarsInv, VarsDone
    <3>4. PICK o \in Nat : o = cells[d].offset
      BY <1>17, <1>18, <3>1 DEF Cell
    <3>5. t \in Nat /\ Cells!Start[t] \in Nat /\ Cells!Start[s] \in Nat /\ varsUsed[t] \in Nat
      BY <1>1, <1>23, VarSizesNat DEF CellsTypeOK
    <3>6. t * varsUsed[t] \in Nat /\ s * varsUsed[s] \in Nat
      BY <1>13, <1>21, <3>5
    <3>7. CASE t = s
      BY <1>8, <3>2, <3>3, <3>7
    <3>8. CASE t > s
      <4>1. Cells!Start[t] + t * varsUsed[t] <= Cells!Start[s]
        BY <1>23, <3>8
      <4>. QED  BY <1>24, <3>2, <3>3, <3>4, <3>5, <3>6, <4>1
    <3>9. CASE t < s
      <4>1. Cells!Start[s] + s * varsUsed[s] <= Cells!Start[t]
        BY <1>23, <3>9
      <4>. QED  BY <1>7, <1>13, <1>24, <3>3, <3>4, <3>5, <3>6, <4>1
    <3>. QED  BY <1>13, <3>5, <3>7, <3>8, <3>9
  <2>. QED  BY <1>2, <1>7, <1>9, <1>24, <2>1, <2>2, <2>3, OneMorePlaced
<1>. QED  BY <1>5, <1>11, <1>15, <1>16, <1>25, <1>27 DEF CellsInv, StackInv

LEMMA VarsEndStep == ASSUME CellsInv, Cells!ResolveVarsEnd PROVE CellsInv'
<1>1. CellsTypeOK /\ ListsInv /\ CountsInv /\ VarsInv /\ PlacedInv
  BY DEF CellsInv
<1>2. PICK n \in Nat : Len(cells) = n
  BY <1>1, LenProperties DEF CellsTypeOK
<1>3. PICK k \in Nat : Len(memVarCells) = k
  BY <1>1, LenProperties DEF CellsTypeOK
<1>4. /\ stage = "vars" /\ stage' = "stack" /\ done = k /\ done' = 0
      /\ stackPos' = pos[1] + varsUsed[1]
      /\ UNCHANGED <<cells, memVarCells, memStackCells, varsUsed, memMaxAlign, memAllTotal,
                     cellFunc, pos>>
  BY <1>3 DEF Cells!ResolveVarsEnd, Cells!lists
<1>5. SameShape
  BY <1>1, <1>4 DEF SameShape, CellsTypeOK
<1>6. /\ ListsInv' /\ CountsInv' /\ Cells!Start' = Cells!Start
      /\ \A m, t : Registers(m, t)' = Registers(m, t)
  BY <1>5, ShapeKept
<1>7. 1 \in VarSizes /\ pos[1] \in Nat /\ varsUsed[1] \in Nat
  BY <1>1 DEF CellsTypeOK, VarSizes
<1>8. CellsTypeOK'
  BY <1>1, <1>4, <1>7 DEF CellsTypeOK
<1>9. DoneInv'
  <2>1. Len(memStackCells) \in Nat
    BY <1>1, LenProperties DEF CellsTypeOK
  <2>. QED  BY <1>4, <2>1 DEF DoneInv
<1>10. /\ VarsDone = k /\ VarsDone' = k
       /\ \A d \in Placed : d \in 1..n /\ \E i \in 1..k : memVarCells[i] = d
       /\ Placed' = Placed
  <2>1. VarsDone = k /\ VarsDone' = k /\ StackDone = 0 /\ StackDone' = 0
    BY <1>3, <1>4 DEF VarsDone, StackDone
  <2>. QED  BY <1>2, <1>4, <2>1 DEF Placed
<1>11. PlacedInv'
  BY <1>1, <1>4, <1>10 DEF PlacedInv, CellsApart
<1>12. VarsInv'
  BY <1>1, <1>4, <1>6, <1>10 DEF VarsInv
<1>13. ASSUME NEW d \in Placed
       PROVE  cells[d].offset + cells[d].size <= stackPos'
  <2>1. PICK i \in 1..k : memVarCells[i] = d
    BY <1>10
  <2>2. PICK t \in VarSizes : t = cells[d].size
    BY <1>1, <1>3, <2>1 DEF CountsInv
  <2>3. cells[d].offset + t <= pos[t] /\ cells[d].offset + t <= Cells!Start[t] + t * varsUsed[t]
    BY <1>1, <1>4, <1>10, <2>1, <2>2 DEF VarsInv
  <2>4. PICK o \in Nat : o = cells[d].offset
    <3>1. cells[d] \in Cell
      BY <1>1, <1>2, <1>10, LenProperties DEF CellsTypeOK
    <3>. QED  BY <3>1 DEF Cell
  <2>5. CASE t = 1
    BY <1>4, <1>7, <2>2, <2>3, <2>4, <2>5
  <2>6. CASE t > 1
    <3>1. /\ Cells!Start \in [VarSizes -> Nat]
          /\ Cells!Start[t] + t * varsUsed[t] <= Cells!Start[1]
      BY <1>1, <1>7, <2>6, Parts DEF CellsTypeOK
    <3>2. PICK p \in Nat : p = Cells!Start[1]
      BY <1>7, <3>1
    <3>3. pos[1] = p + 1 * Cardinality(Registers(k, 1))
      BY <1>1, <1>4, <1>7, <3>2 DEF VarsInv
    <3>4. Cardinality(Registers(k, 1)) \in Nat
      BY <1>1, CellsCounted
    <3>5. t \in Nat /\ Cells!Start[t] \in Nat /\ varsUsed[t] \in Nat
      BY <1>1, <3>1, VarSizesNat DEF CellsTypeOK
    <3>6. t * varsUsed[t] \in Nat
      BY <3>5
    <3>. QED  BY <1>4, <1>7, <2>2, <2>3, <2>4, <3>1, <3>2, <3>3, <3>4, <3>5, <3>6
  <2>. QED  BY <2>5, <2>6, VarSizesNat
<1>14. StackInv'
  BY <1>4, <1>10, <1>13 DEF StackInv
<1>. QED  BY <1>6, <1>8, <1>9, <1>11, <1>12, <1>14 DEF CellsInv

LEMMA StackStep == ASSUME CellsInv, Cells!ResolveStackCell PROVE CellsInv'
<1>1. CellsTypeOK /\ ListsInv /\ CountsInv /\ VarsInv /\ StackInv
  BY DEF CellsInv
<1>2. PICK n \in Nat : Len(cells) = n
  BY <1>1, LenProperties DEF CellsTypeOK
<1>3. PICK k \in Nat : Len(memVarCells) = k
  BY <1>1, LenProperties DEF CellsTypeOK
<1>4. PICK m \in Nat : Len(memStackCells) = m
  BY <1>1, LenProperties DEF CellsTypeOK
<1>5. PICK i0 \in Nat : done = i0
  BY <1>1 DEF CellsTypeOK
<1>6. stage = "stack" /\ stage' = "stack" /\ i0 < m /\ done' = i0 + 1 /\ i0 + 1 \in 1..m
  BY <1>4, <1>5 DEF Cells!ResolveStackCell
<1>7. PICK c \in 1..n : c = memStackCells[i0 + 1]
  BY <1>1, <1>2, <1>4, <1>6, InLists
<1>8. \A d \in 1..n : cells[d] \in Cell
  BY <1>1, <1>2, LenProperties DEF CellsTypeOK
<1>9. PICK a \in VarSizes : a = cells[c].alignment
  BY <1>8 DEF Cell
<1>10. PICK z \in Nat : z = cells[c].size /\ z > 0
  BY <1>8 DEF Cell
<1>11. PICK p \in Nat : p = stackPos
  BY <1>1 DEF CellsTypeOK
<1>12. PICK x \in Nat : x = Cells!AlignTo(p, a) /\ x >= p /\ x % a = 0
  BY AlignedTo
<1>13. /\ OffsetSet(c, x) /\ stackPos' = x + z
       /\ UNCHANGED <<memAllTotal, pos>>
  BY <1>5, <1>7, <1>9, <1>10, <1>11, <1>12 DEF Cells!ResolveStackCell, Cells!lists, OffsetSet
<1>14. /\ SameShape /\ cells'[c].offset = x
       /\ \A d \in 1..n : d # c => cells'[d] = cells[d]
  BY <1>1, <1>2, <1>13, SetOffset
<1>15. /\ ListsInv' /\ CountsInv' /\ Cells!Start' = Cells!Start
       /\ \A j, t : Registers(j, t)' = Registers(j, t)
  BY <1>14, ShapeKept
<1>16. /\ cells' \in Seq(Cell) /\ Len(cells') = n
       /\ \A d \in 1..n : cells'[d].size = cells[d].size
       /\ memVarCells' = memVarCells /\ memStackCells' = memStackCells
       /\ varsUsed' = varsUsed /\ memMaxAlign' = memMaxAlign /\ cellFunc' = cellFunc
  BY <1>2, <1>14 DEF SameShape
<1>17. CellsTypeOK'
  BY <1>1, <1>2, <1>6, <1>13, <1>16 DEF CellsTypeOK
<1>18. DoneInv'
  BY <1>4, <1>6, <1>16 DEF DoneInv
<1>19. /\ \A i \in 1..k : memVarCells[i] \in 1..n /\ memVarCells[i] # c
       /\ \A i \in 1..i0 : memStackCells[i] \in 1..n /\ memStackCells[i] # c
       /\ \A i \in 1..i0 + 1 : i \in 1..i0 \/ i = i0 + 1
       /\ i0 + 1 \in 1..i0 + 1 /\ \A i \in 1..i0 : i \in 1..i0 + 1
  <2>1. \A i \in 1..k : memVarCells[i] \in 1..n
    BY <1>1, <1>2, <1>3, InLists
  <2>2. \A i \in 1..m : memStackCells[i] \in 1..n
    BY <1>1, <1>2, <1>4, InLists
  <2>3. \A i \in 1..k : memVarCells[i] # c
    BY <1>1, <1>3, <1>4, <1>6, <1>7 DEF ListsInv
  <2>4. \A i \in 1..i0 : i \in 1..m /\ i # i0 + 1
    BY <1>6
  <2>5. \A i \in 1..i0 : memStackCells[i] # c
    BY <1>1, <1>4, <1>6, <1>7, <2>4 DEF ListsInv
  <2>. QED  BY <2>1, <2>2, <2>3, <2>4, <2>5
<1>20. /\ VarsDone = k /\ VarsDone' = k /\ StackDone = i0 /\ StackDone' = i0 + 1
  BY <1>3, <1>5, <1>6, <1>16 DEF VarsDone, StackDone
<1>21. c \notin Placed /\ Placed' = Placed \cup {c} /\ Placed \subseteq 1..n
  <2>1. \A d : d \in Placed <=> /\ d \in 1..n
                                /\ \/ \E i \in 1..k : memVarCells[i] = d
                                   \/ \E i \in 1..i0 : memStackCells[i] = d
    BY <1>2, <1>20 DEF Placed
  <2>2. \A d : d \in Placed' <=> /\ d \in 1..n
                                 /\ \/ \E i \in 1..k : memVarCells[i] = d
                                    \/ \E i \in 1..i0 + 1 : memStackCells[i] = d
    BY <1>16, <1>20 DEF Placed
  <2>3. \A d : (\E i \in 1..i0 + 1 : memStackCells[i] = d) <=>
               d = c \/ \E i \in 1..i0 : memStackCells[i] = d
    BY <1>7, <1>19
  <2>4. c \notin Placed
    BY <1>19, <2>1
  <2>5. \A d : d \in Placed' <=> d \in Placed \/ d = c
    BY <2>1, <2>2, <2>3
  <2>. QED  BY <2>1, <2>4, <2>5
<1>22. ASSUME NEW d \in Placed
       PROVE  cells[d].offset + cells[d].size <= p /\ cells[d].offset + cells[d].size \in Nat
  <2>1. cells[d].offset \in Nat /\ cells[d].size \in Nat
    BY <1>8, <1>21 DEF Cell
  <2>. QED  BY <1>1, <1>6, <1>11, <2>1 DEF StackInv
<1>23. PlacedInv'
  <2>1. \A d \in Placed : cells[d].offset + cells[d].size <= x
    BY <1>12, <1>22
  <2>. QED  BY <1>2, <1>9, <1>12, <1>13, <1>21, <2>1, OneMorePlaced
<1>24. VarsInv'
  <2>1. \A i \in 1..k : cells'[memVarCells[i]] = cells[memVarCells[i]]
    BY <1>14, <1>19
  <2>. QED  BY <1>1, <1>6, <1>15, <1>16, <1>20, <2>1 DEF VarsInv
<1>25. StackInv'
  <2>1. ASSUME NEW d \in Placed'
        PROVE  cells'[d].offset + cells'[d].size <= x + z
    <3>1. CASE d = c
      <4>1. cells'[d].offset = x /\ cells'[d].size = z
        BY <1>10, <1>14, <1>16, <3>1
      <4>. QED  BY <4>1
    <3>2. CASE d \in Placed
      <4>1. cells'[d] = cells[d]
        BY <1>14, <1>21, <3>2
      <4>. QED  BY <1>12, <1>22, <3>2, <4>1
    <3>. QED  BY <1>21, <2>1, <3>1, <3>2
  <2>. QED  BY <1>13, <2>1 DEF StackInv
<1>. QED  BY <1>15, <1>17, <1>18, <1>23, <1>24, <1>25 DEF CellsInv

LEMMA EndStep == ASSUME CellsInv, Cells!ResolveEnd PROVE CellsInv'
<1>1. CellsTypeOK /\ VarsInv /\ PlacedInv /\ StackInv /\ DoneInv
  BY DEF CellsInv
<1>2. PICK k \in Nat : Len(memVarCells) = k
  BY <1>1, LenProperties DEF CellsTypeOK
<1>3. /\ stage = "stack" /\ stage' = "resolved" /\ done = Len(memStackCells)
      /\ memAllTotal' = stackPos
      /\ UNCHANGED <<cells, memVarCells, memStackCells, varsUsed, memMaxAlign, cellFunc, done,
                     pos, stackPos>>
  BY DEF Cells!ResolveEnd, Cells!lists
<1>4. SameShape
  BY <1>1, <1>3 DEF SameShape, CellsTypeOK
<1>5. /\ ListsInv' /\ CountsInv' /\ Cells!Start' = Cells!Start
  BY <1>4, ShapeKept
<1>6. CellsTypeOK'
  BY <1>1, <1>3 DEF CellsTypeOK
<1>7. DoneInv'
  BY <1>1, <1>3 DEF DoneInv
<1>8. VarsDone = k /\ VarsDone' = k /\ StackDone' = StackDone
  BY <1>2, <1>3 DEF VarsDone, StackDone
<1>9. Placed' = Placed
  BY <1>3, <1>8 DEF Placed
<1>10. PlacedInv' /\ StackInv'
  BY <1>1, <1>3, <1>9 DEF PlacedInv, StackInv, CellsApart
<1>11. VarsInv'
  BY <1>1, <1>3, <1>5, <1>8 DEF VarsInv
<1>. QED  BY <1>5, <1>6, <1>7, <1>10, <1>11 DEF CellsInv

\* The cells that there are belong to the functions before the next one.
LEMMA NextFunctionStep == ASSUME CellsInv, Cells!NextFunction PROVE CellsInv'
<1>1. CellsTypeOK /\ ListsInv
  BY DEF CellsInv
<1>2. PICK n \in Nat : Len(cells) = n
  BY <1>1, LenProperties DEF CellsTypeOK
<1>3. /\ memVarCells' = << >> /\ memStackCells' = << >>
      /\ varsUsed' = [s \in VarSizes |-> 0] /\ pos' = [s \in VarSizes |-> 0]
      /\ memMaxAlign' = 0 /\ memAllTotal' = 0 /\ cellFunc' = cellFunc + 1 /\ stage' = "open"
      /\ done' = 0 /\ stackPos' = 0 /\ cells' = cells
      /\ Len(memVarCells') = 0 /\ Len(memStackCells') = 0
  BY SizesOK DEF Cells!NextFunction, Cells!Zeroes
<1>4. CellsTypeOK'
  BY <1>1, <1>3, EmptySeq DEF CellsTypeOK
<1>5. \A c \in 1..n : cells[c].func \in Nat /\ cells[c].func <= cellFunc
  <2>1. \A c \in 1..n : cells[c] \in Cell
    BY <1>1, <1>2, LenProperties DEF CellsTypeOK
  <2>2. \A c \in 1..n : cells[c].func <= cellFunc
    BY <1>1, <1>2 DEF ListsInv
  <2>. QED  BY <2>1, <2>2 DEF Cell
<1>6. \A c \in 1..n : cells[c].func <= cellFunc + 1 /\ cells[c].func # cellFunc + 1
  BY <1>1, <1>5 DEF CellsTypeOK
<1>7. ListsInv'
  BY <1>2, <1>3, <1>6 DEF ListsInv
<1>8. CountsInv'
  <2>1. \A s : Registers(0, s)' = {}
    BY DEF Registers
  <2>. QED  BY <1>2, <1>3, <1>6, <2>1, FS_EmptySet DEF CountsInv
<1>9. VarsDone' = 0 /\ Placed' = {}
  BY <1>3 DEF VarsDone, StackDone, Placed
<1>. QED  BY <1>3, <1>4, <1>7, <1>8, <1>9 DEF CellsInv, DoneInv, PlacedInv, VarsInv, StackInv

LEMMA CellsStutter == ASSUME CellsInv, UNCHANGED cellVars PROVE CellsInv'
<1>1. UNCHANGED <<cells, memVarCells, memStackCells, varsUsed, memMaxAlign, memAllTotal,
                  cellFunc, stage, done, pos, stackPos>>
  BY DEF cellVars
<1>2. Cells!Start' = Cells!Start /\ Placed' = Placed /\ VarsDone' = VarsDone
      /\ \A n, s : Registers(n, s)' = Registers(n, s)
  BY <1>1 DEF Cells!Start, Placed, VarsDone, StackDone, Registers
<1>3. CellsTypeOK' /\ ListsInv' /\ DoneInv'
  BY <1>1 DEF CellsInv, CellsTypeOK, ListsInv, DoneInv
<1>4. CountsInv' /\ PlacedInv' /\ VarsInv' /\ StackInv'
  BY <1>1, <1>2 DEF CellsInv, CountsInv, PlacedInv, VarsInv, StackInv, CellsApart
<1>. QED  BY <1>3, <1>4 DEF CellsInv

LEMMA GetVarStep ==
    ASSUME CellsInv, NEW v \in VirtRegs, Cells!GetVarCell(v)
    PROVE  CellsInv'
<1>1. /\ v.isStack \in BOOLEAN
      /\ v.isStack => v.size \in Nat \ {0} /\ Cells!IsAlignment(v.alignment)
      /\ ~ v.isStack => v.size \in VarSizes
  BY CellsAssumption, SizesOK DEF Cells!RegistersAssumption
<1>2. CASE v.isStack
  BY <1>1, <1>2, NewPiece DEF Cells!GetVarCell, StackMade, Cells!resolve
<1>3. CASE ~ v.isStack
  BY <1>1, <1>3, NewRegister DEF Cells!GetVarCell, RegisterMade, Cells!resolve
<1>. QED  BY <1>1, <1>2, <1>3


LEMMA CellsStep == CellsInv /\ [Cells!Next]_cellVars => CellsInv'
<1>. SUFFICES ASSUME CellsInv, [Cells!Next]_cellVars PROVE CellsInv'
  OBVIOUS
<1>1. ASSUME NEW v \in VirtRegs, Cells!GetVarCell(v) PROVE CellsInv'
  BY <1>1, GetVarStep
<1>2. ASSUME NEW size \in StackSizes, NEW alignment \in Alignments,
             Cells!GetStackCell(size, alignment)
      PROVE  CellsInv'
  <2>1. size \in Nat \ {0} /\ Cells!IsAlignment(alignment)
    BY CellsAssumption DEF Cells!RegistersAssumption
  <2>. QED  BY <1>2, <2>1, NewPiece DEF Cells!GetStackCell, StackMade, Cells!resolve
<1>. QED  BY <1>1, <1>2, BeginStep, VarStep, VarsEndStep, StackStep, EndStep, NextFunctionStep,
             CellsStutter DEF Cells!Next

\* When they are resolved all cells of the function have their places.
LEMMA CellsSafe == CellsInv => CellsAreDisjoint
<1>. SUFFICES ASSUME CellsInv, stage = "resolved" PROVE
        \A c \in Cells!Of(cellFunc) :
            /\ Cells!Bytes(c) \subseteq 0..(memAllTotal - 1)
            /\ cells[c].offset % cells[c].alignment = 0 /\ memMaxAlign % cells[c].alignment = 0
            /\ \A d \in Cells!Of(cellFunc) \ {c} : Cells!Bytes(c) \cap Cells!Bytes(d) = {}
  BY DEF CellsAreDisjoint, Cells!CellsAreDisjoint
<1>1. CellsTypeOK /\ ListsInv /\ CountsInv /\ DoneInv /\ PlacedInv /\ StackInv
  BY DEF CellsInv
<1>2. PICK n \in Nat : Len(cells) = n
  BY <1>1, LenProperties DEF CellsTypeOK
<1>3. memAllTotal = stackPos /\ stackPos \in Nat
  BY <1>1 DEF CellsTypeOK, DoneInv
<1>4. \A c \in Cells!Of(cellFunc) : c \in 1..n /\ cells[c].func = cellFunc /\ c \in Placed
  <2>1. Cells!Of(cellFunc) = {c \in 1..n : cells[c].func = cellFunc}
    BY <1>1, <1>2, LenProperties DEF CellsTypeOK, Cells!Of
  <2>2. VarsDone = Len(memVarCells) /\ StackDone = Len(memStackCells)
    BY <1>1 DEF VarsDone, StackDone, DoneInv
  <2>. QED  BY <1>1, <1>2, <2>1, <2>2 DEF ListsInv, Placed
<1>5. \A c \in 1..n : cells[c] \in Cell
  BY <1>1, <1>2, LenProperties DEF CellsTypeOK
<1>6. \A c \in Cells!Of(cellFunc) : /\ cells[c].size \in Nat \ {0} /\ cells[c].offset \in Nat
                                    /\ cells[c].alignment \in VarSizes
  BY <1>4, <1>5 DEF Cell
<1>7. ASSUME NEW c \in Cells!Of(cellFunc)
      PROVE  Cells!Bytes(c) \subseteq 0..(memAllTotal - 1)
  <2>1. cells[c].offset + cells[c].size <= stackPos
    BY <1>1, <1>4 DEF StackInv
  <2>. QED  BY <1>3, <1>6, <2>1 DEF Cells!Bytes
<1>8. ASSUME NEW c \in Cells!Of(cellFunc)
      PROVE  cells[c].offset % cells[c].alignment = 0 /\ memMaxAlign % cells[c].alignment = 0
  <2>1. cells[c].offset % cells[c].alignment = 0
    BY <1>1, <1>4 DEF PlacedInv
  <2>2. cells[c].alignment <= memMaxAlign /\ cells[c].alignment > 0
    BY <1>1, <1>2, <1>4, <1>6, VarSizesNat DEF CountsInv
  <2>3. memMaxAlign \in VarSizes
    BY <1>1, <1>6, <2>2, VarSizesNat DEF CellsTypeOK
  <2>. QED  BY <1>6, <2>1, <2>2, <2>3, Divides
<1>9. ASSUME NEW c \in Cells!Of(cellFunc), NEW d \in Cells!Of(cellFunc) \ {c}
      PROVE  Cells!Bytes(c) \cap Cells!Bytes(d) = {}
  <2>1. CellsApart(c, d)
    BY <1>1, <1>4, <1>9 DEF PlacedInv
  <2>. QED  BY <1>6, <2>1 DEF CellsApart, Cells!Bytes
<1>. QED  BY <1>7, <1>8, <1>9

\* Whatever registers and pieces of stack the functions of a compiler need, and in whatever
\* order, resolveCellOffsets gives the cells made for a function places in its frame that
\* share no byte, end before _memAllTotal, and are aligned if the frame is to _memMaxAlign.
THEOREM CellsCorrect == Cells!Spec => []CellsAreDisjoint
<1>2. CellsInv /\ [Cells!Next]_Cells!vars => CellsInv'
  <2>1. UNCHANGED Cells!vars => UNCHANGED cellVars
    BY DEF Cells!vars, Cells!lists, Cells!resolve, cellVars
  <2>. QED  BY <2>1, CellsStep
<1>3. Cells!Spec => []CellsInv
  BY <1>2, CellsInitially, PTL DEF Cells!Spec
<1>. QED  BY <1>3, CellsSafe, PTL

-----------------------------------------------------------------------------
(* NamedLabels: its invariant.                                             *)

LabelEntry == [name : Names \cup {""}, hVal : Nat, parent : Nat]

LabelsTypeOK ==
    /\ labels \in Seq(LabelEntry)
    /\ buckets \in Seq(Seq(Nat)) /\ newData \in Seq(Seq(Nat))
    /\ tableSize \in Nat

\* The table has one bucket or as many as a prime of the table, and grows.
TableSizes ==
    /\ Len(buckets) \in {1} \cup Labels!Range(Primes)
    /\ Labels!Rehashing =>
          Len(newData) \in Labels!Range(Primes) /\ Len(newData) > Len(buckets)

LabelsInv == LabelsTypeOK /\ TableSizes /\ Labels!InTable

\* The module's Cardinality is that of FiniteSets.
LEMMA LabelsCardinality == \A S : Labels!Cardinality(S) = Cardinality(S)
BY DEF Labels!Cardinality, Cardinality

-----------------------------------------------------------------------------
(* Sequences of labels.                                                    *)

\* A label in front of a bucket.
LEMMA Prepended ==
    ASSUME NEW s \in Seq(Nat), NEW x \in Nat
    PROVE  /\ <<x>> \o s \in Seq(Nat)
           /\ Labels!Range(<<x>> \o s) = {x} \cup Labels!Range(s)
           /\ x \notin Labels!Range(s) /\ Labels!IsInjective(s) => Labels!IsInjective(<<x>> \o s)
<1>1. PICK n \in Nat : n = Len(s)
  OBVIOUS
<1>2. PICK t : t = <<x>> \o s
  OBVIOUS
<1>3. /\ t \in Seq(Nat) /\ DOMAIN t = 1..n + 1 /\ DOMAIN s = 1..n
      /\ t[1] = x /\ \A i \in 1..n : t[i + 1] = s[i]
  BY ONLY <1>1, <1>2, s \in Seq(Nat), x \in Nat
<1>4. /\ DOMAIN t = 1..n + 1 /\ DOMAIN s = 1..n
      /\ t[1] = x /\ \A i \in 1..n : i + 1 \in 1..n + 1 /\ t[i + 1] = s[i]
  BY ONLY <1>3, n \in Nat
<1>5. \A i \in 1..n + 1 : i = 1 \/ (i - 1 \in 1..n /\ t[i] = s[i - 1])
  <2>1. ASSUME NEW i \in 1..n + 1, i # 1
        PROVE  i - 1 \in 1..n /\ t[i] = s[i - 1]
    <3>1. i - 1 \in 1..n /\ (i - 1) + 1 = i
      BY ONLY <2>1, n \in Nat, i \in 1..n + 1
    <3>. QED  BY ONLY <3>1, <1>4
  <2>. QED  BY ONLY <2>1
<1>6. Labels!Range(t) = {x} \cup Labels!Range(s)
  <2>1. ASSUME NEW y \in Labels!Range(t)
        PROVE  y \in {x} \cup Labels!Range(s)
    <3>1. PICK i \in 1..n + 1 : t[i] = y
      BY ONLY <1>4, y \in Labels!Range(t) DEF Labels!Range
    <3>. QED  BY ONLY <3>1, i \in 1..n + 1, <1>4, <1>5 DEF Labels!Range
  <2>2. x \in Labels!Range(t)
    <3>1. 1 \in 1..n + 1
      BY ONLY n \in Nat
    <3>. QED  BY ONLY <3>1, <1>4 DEF Labels!Range
  <2>3. ASSUME NEW y \in Labels!Range(s)
        PROVE  y \in Labels!Range(t)
    <3>1. PICK i \in 1..n : s[i] = y
      BY ONLY <1>4, y \in Labels!Range(s) DEF Labels!Range
    <3>. QED  BY ONLY <3>1, i \in 1..n, <1>4 DEF Labels!Range
  <2>. QED  BY <2>1, <2>2, <2>3
<1>7. ASSUME x \notin Labels!Range(s), Labels!IsInjective(s)
      PROVE  Labels!IsInjective(t)
  <2>1. ASSUME NEW i \in 1..n
        PROVE  s[i] # x
    <3>1. s[i] \in Labels!Range(s)
      BY ONLY <1>4, i \in 1..n DEF Labels!Range
    <3>. QED  BY ONLY <3>1, <1>7
  <2>2. \A i, j \in 1..n : s[i] = s[j] => i = j
    BY ONLY <1>4, <1>7 DEF Labels!IsInjective
  <2>3. ASSUME NEW i \in 1..n + 1, NEW j \in 1..n + 1, t[i] = t[j]
        PROVE  i = j
    <3>1. i = 1 \/ (i - 1 \in 1..n /\ t[i] = s[i - 1] /\ t[i] # x)
      BY ONLY i \in 1..n + 1, <1>5, <2>1
    <3>2. j = 1 \/ (j - 1 \in 1..n /\ t[j] = s[j - 1] /\ t[j] # x)
      BY ONLY j \in 1..n + 1, <1>5, <2>1
    <3>3. i = 1 \/ j = 1 \/ i - 1 = j - 1
      BY ONLY <3>1, <3>2, <2>2, <2>3
    <3>4. i = 1 <=> j = 1
      BY ONLY <3>1, <3>2, <2>3, <1>4
    <3>. QED  BY ONLY <3>3, <3>4, n \in Nat, i \in 1..n + 1, j \in 1..n + 1
  <2>. QED  BY ONLY <2>3, <1>4 DEF Labels!IsInjective
<1>. QED  BY ONLY <1>2, <1>3, <1>6, <1>7

\* A bucket without its first label.
LEMMA Beheaded ==
    ASSUME NEW s \in Seq(Nat), s # << >>, Labels!IsInjective(s)
    PROVE  /\ Head(s) \in Labels!Range(s) /\ Head(s) \in Nat /\ Tail(s) \in Seq(Nat)
           /\ Labels!Range(Tail(s)) = Labels!Range(s) \ {Head(s)}
           /\ Labels!IsInjective(Tail(s))
<1>1. PICK t : t = Tail(s)
  OBVIOUS
<1>2. PICK n \in Nat : Len(s) = n + 1
  <2>1. Len(s) \in Nat /\ Len(s) # 0
    OBVIOUS
  <2>2. Len(s) - 1 \in Nat /\ Len(s) = (Len(s) - 1) + 1
    BY ONLY <2>1
  <2>. QED  BY ONLY <2>2, Zenon
<1>3. /\ t \in Seq(Nat) /\ DOMAIN t = 1..n /\ DOMAIN s = 1..n + 1
      /\ Head(s) = s[1] /\ s[1] \in Nat /\ \A i \in 1..n : t[i] = s[i + 1]
  BY ONLY <1>1, <1>2, s \in Seq(Nat), n \in Nat, s # << >>
<1>4. /\ DOMAIN t = 1..n /\ DOMAIN s = 1..n + 1 /\ 1 \in 1..n + 1
      /\ \A i \in 1..n : i + 1 \in 1..n + 1 /\ i + 1 # 1 /\ t[i] = s[i + 1]
  BY ONLY <1>3, n \in Nat
<1>5. \A i, j \in 1..n + 1 : s[i] = s[j] => i = j
  BY ONLY <1>4, Labels!IsInjective(s) DEF Labels!IsInjective
<1>6. Labels!IsInjective(t)
  <2>1. ASSUME NEW i \in 1..n, NEW j \in 1..n, t[i] = t[j]
        PROVE  i = j
    <3>1. i + 1 = j + 1
      BY ONLY <2>1, i \in 1..n, j \in 1..n, <1>4, <1>5
    <3>. QED  BY ONLY <3>1, n \in Nat, i \in 1..n, j \in 1..n
  <2>. QED  BY ONLY <2>1, <1>4 DEF Labels!IsInjective
<1>7. ASSUME NEW y \in Labels!Range(t)
      PROVE  y \in Labels!Range(s) /\ y # s[1]
  <2>1. PICK i \in 1..n : t[i] = y
    BY ONLY <1>4, y \in Labels!Range(t) DEF Labels!Range
  <2>2. i + 1 \in 1..n + 1 /\ s[i + 1] = y /\ i + 1 # 1
    BY ONLY <2>1, i \in 1..n, <1>4
  <2>3. y # s[1]
    BY ONLY <2>2, <1>4, <1>5
  <2>. QED  BY ONLY <2>2, <2>3, <1>4 DEF Labels!Range
<1>8. ASSUME NEW y \in Labels!Range(s), y # s[1]
      PROVE  y \in Labels!Range(t)
  <2>1. PICK i \in 1..n + 1 : s[i] = y
    BY ONLY <1>4, y \in Labels!Range(s) DEF Labels!Range
  <2>2. i # 1
    BY ONLY <2>1, <1>8
  <2>3. i - 1 \in 1..n /\ (i - 1) + 1 = i
    BY ONLY <2>2, i \in 1..n + 1, n \in Nat
  <2>. QED  BY ONLY <2>1, <2>3, <1>4 DEF Labels!Range
<1>9. s[1] \in Labels!Range(s)
  BY ONLY <1>4 DEF Labels!Range
<1>10. Labels!Range(t) = Labels!Range(s) \ {s[1]}
  BY ONLY <1>7, <1>8
<1>. QED  BY ONLY <1>1, <1>3, <1>6, <1>9, <1>10

\* Where a hash value leads to.
LEMMA BucketOK ==
    ASSUME NEW h \in Nat, NEW n \in Nat, n > 0
    PROVE  Labels!Bucket(h, n) \in 1..n
BY DEF Labels!Bucket

LEMMA PushedIs ==
    ASSUME NEW table \in Seq(Seq(Nat)), NEW at \in 1..Len(table), NEW l \in Nat,
           NEW t, t = [table EXCEPT ![at] = <<l>> \o @]
    PROVE  /\ t \in Seq(Seq(Nat)) /\ Len(t) = Len(table)
           /\ t[at] = <<l>> \o table[at]
           /\ \A b \in 1..Len(table) : b # at => t[b] = table[b]
<1>1. table[at] \in Seq(Nat)
  OBVIOUS
<1>2. <<l>> \o table[at] \in Seq(Nat)
  BY <1>1
<1>. QED  BY <1>2

\* A label is put before others.
LEMMA PushedRange ==
    ASSUME NEW s \in Seq(Nat), NEW l \in Nat, NEW t, t = <<l>> \o s,
           Labels!IsInjective(s), l \notin Labels!Range(s)
    PROVE  /\ Labels!IsInjective(t)
           /\ \A x : x \in Labels!Range(t) <=> x = l \/ x \in Labels!Range(s)
<1>1. Labels!Range(t) = {l} \cup Labels!Range(s) /\ Labels!IsInjective(t)
  BY Prepended
<1>. QED  BY <1>1

\* The names of LabelsInv.
LEMMA LabelsFacts ==
    ASSUME LabelsInv
    PROVE  /\ labels \in Seq(LabelEntry) /\ Len(labels) \in Nat
           /\ buckets \in Seq(Seq(Nat)) /\ newData \in Seq(Seq(Nat)) /\ tableSize \in Nat
           /\ \A l \in Labels!Named : l \in 1..Len(labels) /\ l \in Nat /\ labels[l].hVal \in Nat
           /\ TableSizes
           /\ Labels!BucketsOf(buckets) /\ Labels!BucketsOf(newData)
           /\ \A l \in Labels!Named :
                 \/ Labels!Has(buckets, l) /\ Labels!Lacks(newData, l)
                 \/ Labels!Rehashing /\ Labels!Has(newData, l) /\ Labels!Lacks(buckets, l)
           /\ tableSize = Cardinality(Labels!Named)
<1>1. labels \in Seq(LabelEntry) /\ buckets \in Seq(Seq(Nat)) /\ newData \in Seq(Seq(Nat)) /\ tableSize \in Nat
  BY DEF LabelsInv, LabelsTypeOK
<1>2. Len(labels) \in Nat
  BY <1>1
<1>3. ASSUME NEW l \in Labels!Named
      PROVE  l \in 1..Len(labels) /\ l \in Nat /\ labels[l].hVal \in Nat
  <2>1. l \in 1..Len(labels)
    BY DEF Labels!Named
  <2>2. labels[l] \in LabelEntry
    BY <1>1, <2>1
  <2>3. labels[l].hVal \in Nat
    BY ONLY <2>2 DEF LabelEntry
  <2>. QED  BY ONLY <1>2, <2>1, <2>3
<1>4. TableSizes /\ Labels!InTable
  BY DEF LabelsInv
<1>5. /\ Labels!BucketsOf(buckets) /\ Labels!BucketsOf(newData)
      /\ \A l \in Labels!Named :
            \/ Labels!Has(buckets, l) /\ Labels!Lacks(newData, l)
            \/ Labels!Rehashing /\ Labels!Has(newData, l) /\ Labels!Lacks(buckets, l)
      /\ tableSize = Labels!Cardinality(Labels!Named)
  BY ONLY <1>4 DEF Labels!InTable
<1>. QED  BY ONLY <1>1, <1>2, <1>3, <1>4, <1>5, LabelsCardinality

LEMMA EmptyIs ==
    ASSUME NEW n \in Nat
    PROVE  /\ Labels!Empty(n) \in Seq(Seq(Nat)) /\ Len(Labels!Empty(n)) = n
           /\ Labels!BucketsOf(Labels!Empty(n)) /\ \A l : Labels!Lacks(Labels!Empty(n), l)
<1>1. << >> \in Seq(Nat)
  OBVIOUS
<1>2. /\ Labels!Empty(n) \in Seq(Seq(Nat)) /\ Len(Labels!Empty(n)) = n
      /\ \A b \in 1..n : Labels!Empty(n)[b] = << >>
  BY <1>1 DEF Labels!Empty
<1>3. Labels!Range(<< >>) = {} /\ Labels!IsInjective(<< >>)
  BY DEF Labels!Range, Labels!IsInjective
<1>. QED  BY <1>2, <1>3 DEF Labels!BucketsOf, Labels!Lacks

\* The size of a table that is to grow is larger.
LEMMA ClosestPrimeIs ==
    ASSUME Labels!HashAssumption, NEW x \in {1} \cup Labels!Range(Primes),
           Labels!ClosestPrime(x) # x
    PROVE  /\ Labels!ClosestPrime(x) \in Labels!Range(Primes) /\ Labels!ClosestPrime(x) \in Nat
           /\ Labels!ClosestPrime(x) > x /\ x \in Nat /\ x > 0
<1>. DEFINE n == Len(Primes)
            above == {i \in 1..n : Primes[i] > x}
<1>1. /\ Primes \in Seq(Nat \ {0}) /\ n \in Nat /\ n > 0 /\ DOMAIN Primes = 1..n
      /\ \A i \in 1..n : Primes[i] \in Nat \ {0}
      /\ \A i, j \in 1..n : i < j => Primes[i] < Primes[j]
  <2>1. /\ Primes \in Seq(Nat \ {0}) /\ Primes # << >>
        /\ \A i, j \in 1..n : i < j => Primes[i] < Primes[j]
    BY DEF Labels!HashAssumption
  <2>. QED  BY ONLY <2>1
<1>2. x \in Nat /\ x > 0
  BY <1>1 DEF Labels!Range
<1>3. above # {}
  <2>1. SUFFICES ASSUME above = {}
                 PROVE  FALSE
    OBVIOUS
  <2>2. Labels!ClosestPrime(x) = Primes[n]
    BY <2>1 DEF Labels!ClosestPrime
  <2>3. n \in 1..n /\ ~(Primes[n] > x)
    BY <1>1, <2>1
  <2>4. CASE x = 1
    <3>1. Primes[n] = 1
      <4>1. Primes[n] \in Nat \ {0}
        BY <1>1, <2>3
      <4>. HIDE DEF n
      <4>. QED  BY ONLY <4>1, <2>3, <2>4
    <3>. QED  BY <3>1, <2>2, <2>4
  <2>5. CASE x \in Labels!Range(Primes)
    <3>1. PICK i \in 1..n : Primes[i] = x
      BY <1>1, <2>5 DEF Labels!Range
    <3>2. i = n \/ i < n
      <4>1. n \in Nat
        BY <1>1
      <4>. HIDE DEF n
      <4>. QED  BY ONLY <4>1, i \in 1..n
    <3>3. i < n => Primes[i] < Primes[n]
      BY <1>1, <2>3
    <3>4. Primes[n] \in Nat /\ ~(Primes[n] > x)
      BY <1>1, <2>3
    <3>. HIDE DEF n
    <3>. QED  BY ONLY <3>1, <3>2, <3>3, <3>4, <1>2, <2>2, Labels!ClosestPrime(x) # x
  <2>. QED  BY <2>4, <2>5
<1>4. above \in SUBSET Nat
  OBVIOUS
<1>5. \E i \in above : \A j \in above : i <= j
  <2>. HIDE DEF above
  <2>. QED  BY <1>3, <1>4, Least
<1>6. PICK i \in above : Labels!ClosestPrime(x) = Primes[i]
  <2>1. Labels!ClosestPrime(x) = Primes[CHOOSE i \in above : \A j \in above : i <= j]
    BY <1>3 DEF Labels!ClosestPrime
  <2>. HIDE DEF above
  <2>. QED  BY <1>5, <2>1
<1>. QED  BY <1>1, <1>2, <1>6 DEF Labels!Range

-----------------------------------------------------------------------------
(* NamedLabels: every step keeps the invariant.                            *)

LEMMA LabelsInit == ASSUME Labels!HashAssumption, Labels!Init PROVE LabelsInv
<1>1. /\ labels = << >> /\ buckets = << << >> >> /\ tableSize = 0 /\ newData = << >>
  BY DEF Labels!Init
<1>2. << >> \in Seq(Nat)
  OBVIOUS
<1>3. LabelsTypeOK /\ Len(buckets) = 1 /\ buckets[1] = << >> /\ Len(newData) = 0
  BY <1>1, <1>2 DEF LabelsTypeOK
<1>4. TableSizes
  BY <1>1, <1>3 DEF TableSizes, Labels!Rehashing
<1>5. Labels!Named = {}
  BY <1>1 DEF Labels!Named
<1>6. Labels!IsInjective(<< >>) /\ Labels!Range(<< >>) = {}
  BY DEF Labels!Range, Labels!IsInjective
<1>7. Labels!BucketsOf(buckets) /\ Labels!BucketsOf(newData)
  BY <1>3, <1>6 DEF Labels!BucketsOf
<1>8. tableSize = Labels!Cardinality(Labels!Named)
  BY <1>1, <1>5, FS_EmptySet, LabelsCardinality
<1>9. Labels!InTable
  BY ONLY <1>5, <1>7, <1>8 DEF Labels!InTable
<1>. QED  BY <1>3, <1>4, <1>9 DEF LabelsInv

\* The properties of the table depend on nothing else.
LEMMA LabelsStutter == ASSUME LabelsInv, UNCHANGED labelVars PROVE LabelsInv'
<1>1. /\ labels' = labels /\ buckets' = buckets /\ tableSize' = tableSize /\ newData' = newData
  BY DEF labelVars
<1>2. LabelsTypeOK' /\ TableSizes'
  BY <1>1 DEF LabelsInv, LabelsTypeOK, TableSizes, Labels!Rehashing
<1>3. Labels!Named' = Labels!Named
  BY <1>1 DEF Labels!Named
<1>4. Labels!InTable'
  BY <1>1, <1>3 DEF LabelsInv, Labels!InTable, Labels!BucketsOf, Labels!Has, Labels!Lacks,
                    Labels!Rehashing
<1>. QED  BY <1>2, <1>4 DEF LabelsInv

LEMMA NewLabelIdStep == ASSUME LabelsInv, Labels!NewLabelId PROVE LabelsInv'
<1>. DEFINE e == [name |-> "", hVal |-> 0, parent |-> 0]
<1>1. /\ labels' = Append(labels, e) /\ buckets' = buckets /\ tableSize' = tableSize
      /\ newData' = newData
  BY DEF Labels!NewLabelId
<1>2. LabelsTypeOK
  BY DEF LabelsInv
<1>3. e \in LabelEntry /\ labels \in Seq(LabelEntry)
  BY <1>2 DEF LabelEntry, LabelsTypeOK
<1>4. /\ labels' \in Seq(LabelEntry) /\ Len(labels) \in Nat /\ Len(labels') = Len(labels) + 1
      /\ \A l \in 1..Len(labels) : labels'[l] = labels[l]
      /\ labels'[Len(labels) + 1] = e
  <2>. HIDE DEF e
  <2>. QED  BY <1>1, <1>3
<1>a. e.name = ""
  OBVIOUS
<1>. HIDE DEF e
<1>5. LabelsTypeOK' /\ TableSizes'
  BY <1>1, <1>2, <1>4 DEF LabelsInv, LabelsTypeOK, TableSizes, Labels!Rehashing
<1>6. /\ Labels!Named' = Labels!Named
      /\ \A l \in Labels!Named : labels'[l] = labels[l]
  <2>2. \A l \in 1..Len(labels) + 1 : l = Len(labels) + 1 \/ l \in 1..Len(labels)
    <3>1. Len(labels) \in Nat
      BY <1>4
    <3>. QED  BY ONLY <3>1
  <2>3. \A l : l \in Labels!Named' <=> l \in 1..Len(labels') /\ labels'[l].name # ""
    BY DEF Labels!Named
  <2>4. \A l : l \in Labels!Named <=> l \in 1..Len(labels) /\ labels[l].name # ""
    BY DEF Labels!Named
  <2>5. \A l \in 1..Len(labels) : l \in 1..Len(labels')
    BY ONLY <1>4
  <2>. QED  BY ONLY <1>4, <1>a, <2>2, <2>3, <2>4, <2>5
<1>7. Labels!InTable'
  <2>1. Labels!InTable
    BY DEF LabelsInv
  <2>2. Labels!BucketsOf(buckets)' /\ Labels!BucketsOf(newData)'
    BY ONLY <2>1, <1>1, <1>6 DEF Labels!InTable, Labels!BucketsOf
  <2>3. /\ \A l \in Labels!Named : Labels!Has(buckets, l)' <=> Labels!Has(buckets, l)
        /\ \A l \in Labels!Named : Labels!Has(newData, l)' <=> Labels!Has(newData, l)
        /\ \A l : Labels!Lacks(buckets, l)' <=> Labels!Lacks(buckets, l)
        /\ \A l : Labels!Lacks(newData, l)' <=> Labels!Lacks(newData, l)
        /\ Labels!Rehashing' <=> Labels!Rehashing
    BY ONLY <1>1, <1>6 DEF Labels!Has, Labels!Lacks, Labels!Rehashing
  <2>4. ASSUME NEW l \in Labels!Named'
        PROVE  \/ Labels!Has(buckets, l)' /\ Labels!Lacks(newData, l)'
               \/ Labels!Rehashing' /\ Labels!Has(newData, l)' /\ Labels!Lacks(buckets, l)'
    <3>1. l \in Labels!Named
      BY <1>6
    <3>2. \/ Labels!Has(buckets, l) /\ Labels!Lacks(newData, l)
          \/ Labels!Rehashing /\ Labels!Has(newData, l) /\ Labels!Lacks(buckets, l)
      BY ONLY <2>1, <3>1 DEF Labels!InTable
    <3>. QED  BY ONLY <2>3, <3>1, <3>2
  <2>5. (tableSize = Labels!Cardinality(Labels!Named))'
    BY ONLY <2>1, <1>1, <1>6 DEF Labels!InTable
  <2>. QED  BY ONLY <2>2, <2>4, <2>5 DEF Labels!InTable
<1>. QED  BY <1>5, <1>7 DEF LabelsInv

LEMMA NewNamedLabelStep ==
    ASSUME Labels!HashAssumption, LabelsInv, NEW name \in Names, NEW parent \in 0..Len(labels),
           NEW b \in 1..Len(buckets), Labels!NewNamedLabelId(name, parent, b)
    PROVE  LabelsInv'
<1>. DEFINE n == Len(labels) + 1
            e == [name |-> name, hVal |-> Hash[name, parent], parent |-> parent]
            count == Labels!ClosestPrime(Len(buckets))
<1>1. /\ labels \in Seq(LabelEntry) /\ Len(labels) \in Nat
      /\ buckets \in Seq(Seq(Nat)) /\ tableSize \in Nat
      /\ \A l \in Labels!Named : l \in 1..Len(labels) /\ l \in Nat /\ labels[l].hVal \in Nat
      /\ TableSizes /\ Labels!BucketsOf(buckets)
      /\ tableSize = Cardinality(Labels!Named)
  BY LabelsFacts
<1>2. newData = << >>
  BY DEF Labels!NewNamedLabelId, Labels!Rehashing
<1>3. /\ labels' = Append(labels, e) /\ Labels!Put(labels', Len(labels'))
  BY DEF Labels!NewNamedLabelId
<1>4. e \in LabelEntry /\ e.name = name /\ name # ""
  <2>1. Len(labels) < MaxLabels /\ MaxLabels \in Nat
    BY DEF Labels!HashAssumption, Labels!NewNamedLabelId
  <2>2. parent \in Nat /\ parent \in 0..MaxLabels
    BY <1>1, <2>1
  <2>3. Hash[name, parent] \in Nat
    BY <2>2 DEF Labels!HashAssumption
  <2>. QED  BY <2>2, <2>3 DEF LabelEntry, Labels!HashAssumption
<1>. HIDE DEF e
<1>5. /\ labels' \in Seq(LabelEntry) /\ Len(labels') = n /\ n \in Nat /\ labels'[n] = e
      /\ \A l \in 1..Len(labels) : labels'[l] = labels[l]
  <2>1. labels' = Append(labels, e) /\ e \in LabelEntry
    BY <1>3, <1>4
  <2>. QED  BY ONLY <1>1, <2>1
<1>6. PICK at : at = Labels!Bucket(e.hVal, Len(buckets))
  OBVIOUS
<1>7. /\ tableSize' = tableSize + 1
      /\ buckets' = [buckets EXCEPT ![at] = <<n>> \o @]
      /\ newData' = << >> \/ (count # Len(buckets') /\ newData' = Labels!Empty(count))
  <2>1. /\ tableSize' = tableSize + 1 /\ buckets' = Labels!Pushed(buckets, labels', n)
    BY <1>3, <1>5 DEF Labels!Put
  <2>2. buckets' = [buckets EXCEPT ![at] = <<n>> \o @]
    BY <2>1, <1>5, <1>6 DEF Labels!Pushed
  <2>3. Len(buckets') = Len(buckets)
    BY ONLY <1>1, <2>2
  <2>4. newData' = << >> \/ (Labels!ClosestPrime(Len(buckets')) # Len(buckets')
                             /\ newData' = Labels!Empty(Labels!ClosestPrime(Len(buckets'))))
    BY <1>3, <1>5, <2>1 DEF Labels!Put
  <2>. QED  BY <2>1, <2>2, <2>3, <2>4
<1>8. Len(buckets) \in Nat /\ Len(buckets) > 0 /\ at \in 1..Len(buckets)
  <2>1. Len(buckets) \in Nat
    BY <1>1
  <2>2. 1..Len(buckets) # {}
    OBVIOUS
  <2>3. Len(buckets) > 0
    BY ONLY <2>1, <2>2
  <2>4. e.hVal \in Nat
    BY ONLY <1>4 DEF LabelEntry
  <2>. QED  BY ONLY <1>6, <2>1, <2>3, <2>4, BucketOK
<1>9. \A l : l \in Labels!Named' <=> l \in Labels!Named \/ l = n
  <2>1. \A l : l \in Labels!Named' <=> l \in 1..n /\ labels'[l].name # ""
    BY <1>5 DEF Labels!Named
  <2>2. \A l : l \in Labels!Named <=> l \in 1..Len(labels) /\ labels[l].name # ""
    BY DEF Labels!Named
  <2>3. \A l : l \in 1..n <=> l \in 1..Len(labels) \/ l = n
    BY ONLY <1>1
  <2>. HIDE DEF n
  <2>. QED  BY ONLY <1>4, <1>5, <2>1, <2>2, <2>3
<1>10. n \notin Labels!Named /\ n \in Nat
  BY ONLY <1>1
<1>. HIDE DEF n
<1>11. \A c \in 1..Len(buckets) :
         Labels!IsInjective(buckets[c]) /\ Labels!Range(buckets[c]) \subseteq Labels!Named
  BY <1>1 DEF Labels!BucketsOf
<1>12. /\ buckets' \in Seq(Seq(Nat)) /\ Len(buckets') = Len(buckets)
       /\ \A c \in 1..Len(buckets) : Labels!IsInjective(buckets'[c])
       /\ \A x : x \in Labels!Range(buckets'[at]) <=> x = n \/ x \in Labels!Range(buckets[at])
       /\ \A c \in 1..Len(buckets) : c # at => Labels!Range(buckets'[c]) = Labels!Range(buckets[c])
  <2>1. \A c \in 1..Len(buckets) :
           Labels!IsInjective(buckets[c]) /\ n \notin Labels!Range(buckets[c])
    BY <1>10, <1>11
  <2>2. buckets \in Seq(Seq(Nat))
    BY <1>1
  <2>3. PICK t : t = buckets'
    OBVIOUS
  <2>4. t = [buckets EXCEPT ![at] = <<n>> \o @]
    BY <1>7, <2>3
  <2>5. /\ t \in Seq(Seq(Nat)) /\ Len(t) = Len(buckets)
        /\ \A c \in 1..Len(buckets) : Labels!IsInjective(t[c])
        /\ \A x : x \in Labels!Range(t[at]) <=> x = n \/ x \in Labels!Range(buckets[at])
        /\ \A c \in 1..Len(buckets) : c # at => Labels!Range(t[c]) = Labels!Range(buckets[c])
    <3>1. /\ t \in Seq(Seq(Nat)) /\ Len(t) = Len(buckets)
          /\ t[at] = <<n>> \o buckets[at]
          /\ \A c \in 1..Len(buckets) : c # at => t[c] = buckets[c]
      BY ONLY <1>8, <1>10, <2>2, <2>4, PushedIs
    <3>2. /\ \A c \in 1..Len(buckets) : Labels!IsInjective(t[c])
          /\ \A x : x \in Labels!Range(t[at]) <=> x = n \/ x \in Labels!Range(buckets[at])
          /\ \A c \in 1..Len(buckets) : c # at => Labels!Range(t[c]) = Labels!Range(buckets[c])
      <4>1. PICK s \in Seq(Nat) : s = buckets[at]
        BY <1>8, <2>2
      <4>2. PICK u : u = t[at]
        OBVIOUS
      <4>3. Labels!IsInjective(s) /\ n \notin Labels!Range(s) /\ u = <<n>> \o s
        BY <1>8, <2>1, <3>1, <4>1, <4>2
      <4>4. /\ Labels!IsInjective(u)
            /\ \A x : x \in Labels!Range(u) <=> x = n \/ x \in Labels!Range(s)
        BY ONLY <4>3, <1>10, s \in Seq(Nat), PushedRange
      <4>. QED  BY ONLY <4>1, <4>2, <4>4, <3>1, <2>1
    <3>. QED  BY ONLY <3>1, <3>2
  <2>. QED  BY <2>3, <2>5
<1>13. /\ newData' \in Seq(Seq(Nat)) /\ Labels!BucketsOf(newData)'
       /\ \A l : Labels!Lacks(newData', l)
       /\ TableSizes'
  <2>1. CASE newData' = << >>
    <3>1. newData' \in Seq(Seq(Nat)) /\ Len(newData') = 0
      BY <2>1
    <3>. QED  BY <3>1, <2>1, <1>1, <1>12 DEF TableSizes, Labels!Rehashing, Labels!BucketsOf, Labels!Lacks
  <2>2. CASE count # Len(buckets) /\ newData' = Labels!Empty(count)
    <3>1. Len(buckets) \in {1} \cup Labels!Range(Primes)
      BY <1>1 DEF TableSizes
    <3>2. count \in Labels!Range(Primes) /\ count \in Nat /\ count > Len(buckets)
      BY <2>2, <3>1, ClosestPrimeIs
    <3>3. /\ newData' \in Seq(Seq(Nat)) /\ Len(newData') = count
          /\ \A c \in 1..count : newData'[c] = << >>
      BY <2>2, <3>2, EmptyIs DEF Labels!Empty
    <3>4. Labels!Range(<< >>) = {} /\ Labels!IsInjective(<< >>)
      BY DEF Labels!Range, Labels!IsInjective
    <3>5. Labels!BucketsOf(newData)' /\ \A l : Labels!Lacks(newData', l)
      BY <3>3, <3>4 DEF Labels!BucketsOf, Labels!Lacks
    <3>6. TableSizes'
      BY <3>1, <3>2, <3>3, <1>12 DEF TableSizes
    <3>. QED  BY <3>3, <3>5, <3>6
  <2>. QED  BY <2>1, <2>2, <1>7, <1>12
<1>14. Labels!BucketsOf(buckets)'
  BY <1>9, <1>11, <1>12, <1>8 DEF Labels!BucketsOf
<1>15. ASSUME NEW l \in Labels!Named'
       PROVE  Labels!Has(buckets, l)'
  <2>1. CASE l = n
    BY <2>1, <1>5, <1>6, <1>8, <1>10, <1>11, <1>12 DEF Labels!Has
  <2>2. CASE l # n
    <3>1. l \in Labels!Named /\ labels'[l] = labels[l]
      BY <2>2, <1>1, <1>5, <1>9
    <3>2. Labels!Has(buckets, l)
      BY <3>1, <1>2, LabelsFacts DEF Labels!Rehashing
    <3>3. \A c \in 1..Len(buckets) :
             l \in Labels!Range(buckets'[c]) <=> l \in Labels!Range(buckets[c])
      BY <2>2, <1>12
    <3>. QED  BY ONLY <3>1, <3>2, <3>3, <1>12 DEF Labels!Has
  <2>. QED  BY <2>1, <2>2
<1>16. (tableSize = Labels!Cardinality(Labels!Named))'
  <2>1. Labels!Named' = Labels!Named \cup {n}
    BY <1>9
  <2>2. IsFiniteSet(Labels!Named)
    <3>1. IsFiniteSet(1..Len(labels))
      <4>1. 1 \in Int /\ Len(labels) \in Int
        BY <1>1
      <4>. QED  BY ONLY <4>1, FS_Interval
    <3>2. Labels!Named \subseteq 1..Len(labels)
      BY <1>1
    <3>. QED  BY <3>1, <3>2, FS_Subset
  <2>3. Cardinality(Labels!Named \cup {n}) = Cardinality(Labels!Named) + 1
    BY <1>10, <2>2, FS_AddElement
  <2>. QED  BY <1>1, <1>7, <2>1, <2>3, LabelsCardinality
<1>19. LabelsTypeOK'
  <2>1. tableSize' \in Nat
    BY <1>1, <1>7
  <2>. QED  BY ONLY <2>1, <1>5, <1>12, <1>13 DEF LabelsTypeOK
<1>20. ASSUME NEW l \in Labels!Named'
       PROVE  Labels!Lacks(newData, l)'
  BY ONLY <1>13 DEF Labels!Lacks
<1>21. Labels!InTable'
  BY ONLY <1>13, <1>14, <1>15, <1>16, <1>20 DEF Labels!InTable
<1>. QED  BY <1>13, <1>19, <1>21 DEF LabelsInv

\* The first label of the first bucket that has any goes to its new bucket.
LEMMA RehashNodeStep ==
    ASSUME LabelsInv, Labels!Rehashing, NEW b \in 1..Len(buckets), buckets[b] # << >>,
           Labels!RehashNode(b), UNCHANGED <<labels, tableSize, bucketsGrow>>
    PROVE  LabelsInv'
<1>. DEFINE l == Head(buckets[b])
<1>1. /\ labels \in Seq(LabelEntry) /\ Len(labels) \in Nat
      /\ buckets \in Seq(Seq(Nat)) /\ newData \in Seq(Seq(Nat)) /\ tableSize \in Nat
      /\ \A m \in Labels!Named : m \in 1..Len(labels) /\ m \in Nat /\ labels[m].hVal \in Nat
      /\ TableSizes
      /\ tableSize = Cardinality(Labels!Named)
  BY LabelsFacts
<1>2. /\ \A c \in 1..Len(buckets) :
            Labels!IsInjective(buckets[c]) /\ Labels!Range(buckets[c]) \subseteq Labels!Named
      /\ \A c \in 1..Len(newData) :
            Labels!IsInjective(newData[c]) /\ Labels!Range(newData[c]) \subseteq Labels!Named
  BY LabelsFacts DEF Labels!BucketsOf
<1>3. \A m \in Labels!Named :
         \/ Labels!Has(buckets, m) /\ Labels!Lacks(newData, m)
         \/ Labels!Has(newData, m) /\ Labels!Lacks(buckets, m)
  BY LabelsFacts
<1>4. /\ labels' = labels /\ tableSize' = tableSize
      /\ newData' = Labels!Pushed(newData, labels, l)
      /\ buckets' = [buckets EXCEPT ![b] = Tail(buckets[b])]
  BY DEF Labels!RehashNode
<1>5. Labels!Named' = Labels!Named
  BY <1>4 DEF Labels!Named
<1>6. /\ l \in Labels!Range(buckets[b]) /\ l \in Nat /\ Tail(buckets[b]) \in Seq(Nat)
      /\ \A x : x \in Labels!Range(Tail(buckets[b])) <=> x \in Labels!Range(buckets[b]) /\ x # l
      /\ Labels!IsInjective(Tail(buckets[b]))
  <2>1. PICK s \in Seq(Nat) : s = buckets[b]
    BY <1>1
  <2>2. s # << >> /\ Labels!IsInjective(s)
    BY <1>2, <2>1
  <2>3. /\ Head(s) \in Labels!Range(s) /\ Head(s) \in Nat /\ Tail(s) \in Seq(Nat)
        /\ Labels!Range(Tail(s)) = Labels!Range(s) \ {Head(s)}
        /\ Labels!IsInjective(Tail(s))
    BY ONLY <2>2, s \in Seq(Nat), Beheaded
  <2>. QED  BY ONLY <2>1, <2>3
<1>. HIDE DEF l
<1>7. l \in Labels!Named /\ Labels!Has(buckets, l) /\ Labels!Lacks(newData, l)
  <2>1. l \in Labels!Named
    BY <1>2, <1>6
  <2>2. ~Labels!Lacks(buckets, l)
    BY <1>6 DEF Labels!Lacks
  <2>. QED  BY <1>3, <2>1, <2>2
<1>8. /\ buckets' \in Seq(Seq(Nat)) /\ Len(buckets') = Len(buckets)
      /\ buckets'[b] = Tail(buckets[b])
      /\ \A c \in 1..Len(buckets) : c # b => buckets'[c] = buckets[c]
  BY ONLY <1>1, <1>4, <1>6, b \in 1..Len(buckets)
<1>9. PICK at : at = Labels!Bucket(labels[l].hVal, Len(newData))
  OBVIOUS
<1>10. Len(buckets) \in Nat /\ Len(newData) \in Nat /\ Len(newData) > Len(buckets)
  <2>1. Len(newData) > Len(buckets)
    BY <1>1 DEF TableSizes
  <2>2. Len(buckets) \in Nat /\ Len(newData) \in Nat
    BY <1>1
  <2>. QED  BY <2>1, <2>2
<1>11. at \in 1..Len(newData)
  <2>1. labels[l].hVal \in Nat /\ Len(newData) > 0
    BY <1>1, <1>7, <1>10
  <2>. QED  BY ONLY <1>9, <1>10, <2>1, BucketOK
<1>12. /\ newData' \in Seq(Seq(Nat)) /\ Len(newData') = Len(newData)
       /\ newData'[at] = <<l>> \o newData[at]
       /\ \A c \in 1..Len(newData) : c # at => newData'[c] = newData[c]
  <2>1. newData' = [newData EXCEPT ![at] = <<l>> \o @]
    BY <1>4, <1>9 DEF Labels!Pushed
  <2>2. newData \in Seq(Seq(Nat)) /\ l \in Nat
    BY <1>1, <1>6
  <2>3. PICK t : t = newData'
    OBVIOUS
  <2>4. t = [newData EXCEPT ![at] = <<l>> \o @]
    BY <2>1, <2>3
  <2>5. /\ t \in Seq(Seq(Nat)) /\ Len(t) = Len(newData)
        /\ t[at] = <<l>> \o newData[at]
        /\ \A c \in 1..Len(newData) : c # at => t[c] = newData[c]
    BY ONLY <1>11, <2>2, <2>4, PushedIs
  <2>. QED  BY ONLY <2>3, <2>5
<1>13. /\ \A c \in 1..Len(newData) : Labels!IsInjective(newData'[c])
       /\ \A x : x \in Labels!Range(newData'[at]) <=> x = l \/ x \in Labels!Range(newData[at])
  <2>1. PICK s \in Seq(Nat) : s = newData[at]
    BY <1>1, <1>11
  <2>2. PICK u : u = newData'[at]
    OBVIOUS
  <2>3. Labels!IsInjective(s) /\ l \notin Labels!Range(s) /\ u = <<l>> \o s
    BY <1>2, <1>7, <1>11, <1>12, <2>1, <2>2 DEF Labels!Lacks
  <2>4. /\ Labels!IsInjective(u)
        /\ \A x : x \in Labels!Range(u) <=> x = l \/ x \in Labels!Range(s)
    BY ONLY <1>6, <2>3, s \in Seq(Nat), PushedRange
  <2>. QED  BY ONLY <1>2, <1>12, <2>1, <2>2, <2>4
<1>14. Labels!BucketsOf(buckets)'
  <2>1. ASSUME NEW c \in 1..Len(buckets)
        PROVE  Labels!IsInjective(buckets'[c]) /\ Labels!Range(buckets'[c]) \subseteq Labels!Named
    <3>1. CASE c = b
      BY <3>1, <1>2, <1>6, <1>8
    <3>2. CASE c # b
      BY <3>2, <1>2, <1>8
    <3>. QED  BY <3>1, <3>2
  <2>. QED  BY ONLY <2>1, <1>5, <1>8 DEF Labels!BucketsOf
<1>15. Labels!BucketsOf(newData)'
  <2>1. ASSUME NEW c \in 1..Len(newData)
        PROVE  Labels!IsInjective(newData'[c]) /\ Labels!Range(newData'[c]) \subseteq Labels!Named
    <3>1. CASE c = at
      BY <3>1, <1>2, <1>7, <1>13
    <3>2. CASE c # at
      BY <3>2, <1>2, <1>12
    <3>. QED  BY <3>1, <3>2
  <2>. QED  BY ONLY <2>1, <1>5, <1>12 DEF Labels!BucketsOf
<1>16. ASSUME NEW m, m = l
       PROVE  Labels!Has(newData, m)' /\ Labels!Lacks(buckets, m)'
  <2>1. \A c \in 1..Len(newData) : l \in Labels!Range(newData'[c]) <=> c = at
    BY <1>7, <1>12, <1>13 DEF Labels!Lacks
  <2>2. \A c \in 1..Len(buckets) : l \in Labels!Range(buckets[c]) <=> c = b
    BY <1>6, <1>7 DEF Labels!Has
  <2>3. \A c \in 1..Len(buckets) : l \notin Labels!Range(buckets'[c])
    BY ONLY <2>2, <1>6, <1>8
  <2>4. labels'[m].hVal = labels[l].hVal
    BY <1>4, <1>16
  <2>5. Labels!Has(newData, m)'
    BY ONLY <2>1, <2>4, <1>9, <1>12, <1>16 DEF Labels!Has
  <2>6. Labels!Lacks(buckets, m)'
    BY ONLY <2>3, <1>8, <1>16 DEF Labels!Lacks
  <2>. QED  BY <2>5, <2>6
<1>17. ASSUME NEW m \in Labels!Named, m # l
       PROVE  /\ Labels!Has(buckets, m)' <=> Labels!Has(buckets, m)
              /\ Labels!Lacks(buckets, m)' <=> Labels!Lacks(buckets, m)
              /\ Labels!Has(newData, m)' <=> Labels!Has(newData, m)
              /\ Labels!Lacks(newData, m)' <=> Labels!Lacks(newData, m)
  <2>1. \A c \in 1..Len(buckets) :
           m \in Labels!Range(buckets'[c]) <=> m \in Labels!Range(buckets[c])
    BY <1>6, <1>8, <1>17
  <2>2. \A c \in 1..Len(newData) :
           m \in Labels!Range(newData'[c]) <=> m \in Labels!Range(newData[c])
    BY <1>12, <1>13, <1>17
  <2>3. labels'[m] = labels[m]
    BY <1>4
  <2>. QED  BY ONLY <2>1, <2>2, <2>3, <1>8, <1>12 DEF Labels!Has, Labels!Lacks
<1>18. Labels!Rehashing'
  BY ONLY <1>10, <1>12 DEF Labels!Rehashing
<1>19. ASSUME NEW m \in Labels!Named'
       PROVE  \/ Labels!Has(buckets, m)' /\ Labels!Lacks(newData, m)'
              \/ Labels!Rehashing' /\ Labels!Has(newData, m)' /\ Labels!Lacks(buckets, m)'
  <2>1. CASE m = l
    BY <2>1, <1>16, <1>18
  <2>2. CASE m # l
    <3>1. m \in Labels!Named
      BY <1>5
    <3>. QED  BY ONLY <2>2, <3>1, <1>3, <1>17, <1>18
  <2>. QED  BY <2>1, <2>2
<1>20. (tableSize = Labels!Cardinality(Labels!Named))'
  BY <1>1, <1>4, <1>5, LabelsCardinality
<1>22. Labels!InTable'
  BY ONLY <1>14, <1>15, <1>19, <1>20 DEF Labels!InTable
<1>23. LabelsTypeOK' /\ TableSizes'
  <2>1. LabelsTypeOK'
    BY ONLY <1>1, <1>4, <1>8, <1>12 DEF LabelsTypeOK
  <2>2. TableSizes'
    BY ONLY <1>1, <1>8, <1>12, <1>18, Labels!Rehashing DEF TableSizes
  <2>. QED  BY <2>1, <2>2
<1>. QED  BY <1>22, <1>23 DEF LabelsInv

\* Behind the last bucket the new table takes the place of the old one.
LEMMA RehashEndStep ==
    ASSUME LabelsInv, Labels!Rehashing, \A b \in 1..Len(buckets) : buckets[b] = << >>,
           buckets' = newData, newData' = << >>, UNCHANGED <<labels, tableSize>>
    PROVE  LabelsInv'
<1>1. /\ labels \in Seq(LabelEntry) /\ Len(labels) \in Nat
      /\ buckets \in Seq(Seq(Nat)) /\ newData \in Seq(Seq(Nat)) /\ tableSize \in Nat
      /\ \A m \in Labels!Named : m \in 1..Len(labels) /\ m \in Nat /\ labels[m].hVal \in Nat
      /\ TableSizes /\ Labels!BucketsOf(newData)
      /\ tableSize = Cardinality(Labels!Named)
  BY LabelsFacts
<1>2. labels' = labels /\ tableSize' = tableSize
  OBVIOUS
<1>3. Labels!Named' = Labels!Named
  BY <1>2 DEF Labels!Named
<1>4. Len(newData) > Len(buckets) /\ Len(buckets) \in {1} \cup Labels!Range(Primes)
      /\ Len(newData) \in Labels!Range(Primes)
  BY <1>1 DEF TableSizes
<1>5. Len(newData) \in Nat /\ Len(buckets) \in Nat /\ Len(buckets) > 0
  <2>1. Len(newData) \in Nat /\ Len(buckets) \in Nat
    BY <1>1
  <2>2. ASSUME Len(buckets) = 0
        PROVE  FALSE
    <3>1. 0 \in Labels!Range(Primes)
      BY ONLY <1>4, <2>2
    <3>2. Primes \in Seq(Nat \ {0})
      BY LabelsAssumption DEF Labels!HashAssumption
    <3>. QED  BY <3>1, <3>2 DEF Labels!Range
  <2>. QED  BY <2>1, <2>2
<1>6. ASSUME NEW m \in Labels!Named'
      PROVE  Labels!Has(buckets, m)' /\ Labels!Lacks(newData, m)'
  <2>1. m \in Labels!Named /\ labels[m].hVal \in Nat
    BY <1>1, <1>3
  <2>2. ~Labels!Has(buckets, m)
    <3>1. Labels!Bucket(labels[m].hVal, Len(buckets)) \in 1..Len(buckets)
      BY ONLY <2>1, <1>5, BucketOK
    <3>2. \A b \in 1..Len(buckets) : m \notin Labels!Range(buckets[b])
      BY DEF Labels!Range
    <3>. QED  BY ONLY <3>1, <3>2 DEF Labels!Has
  <2>3. Labels!Has(newData, m)
    BY <2>1, <2>2, LabelsFacts
  <2>4. labels'[m] = labels[m]
    BY <1>2
  <2>5. Labels!Has(buckets, m)'
    BY <2>3, <2>4 DEF Labels!Has
  <2>6. Labels!Lacks(newData, m)'
    BY DEF Labels!Lacks
  <2>. QED  BY <2>5, <2>6
<1>7. Labels!BucketsOf(buckets)' /\ Labels!BucketsOf(newData)'
  <2>1. Labels!BucketsOf(buckets)'
    BY <1>1, <1>3 DEF Labels!BucketsOf
  <2>2. Labels!BucketsOf(newData)'
    BY DEF Labels!BucketsOf
  <2>. QED  BY <2>1, <2>2
<1>8. (tableSize = Labels!Cardinality(Labels!Named))'
  BY <1>1, <1>2, <1>3, LabelsCardinality
<1>10. Labels!InTable'
  BY ONLY <1>6, <1>7, <1>8 DEF Labels!InTable
<1>11. LabelsTypeOK' /\ TableSizes'
  <2>1. << >> \in Seq(Seq(Nat))
    OBVIOUS
  <2>2. LabelsTypeOK'
    BY <1>1, <2>1 DEF LabelsTypeOK
  <2>3. TableSizes'
    BY <1>4 DEF TableSizes, Labels!Rehashing
  <2>. QED  BY <2>2, <2>3
<1>. QED  BY <1>10, <1>11 DEF LabelsInv

LEMMA LabelsStep == Labels!HashAssumption /\ LabelsInv /\ [Labels!Next]_labelVars => LabelsInv'
<1>1. CASE UNCHANGED labelVars /\ LabelsInv
  BY <1>1, LabelsStutter
<1>2. CASE Labels!HashAssumption /\ LabelsInv /\ Labels!Next
  <2>1. CASE Labels!NewLabelId
    BY <1>2, <2>1, NewLabelIdStep
  <2>2. ASSUME NEW name \in Names, NEW parent \in 0..Len(labels), NEW b \in 1..Len(buckets),
               Labels!NewNamedLabelId(name, parent, b)
        PROVE  LabelsInv'
    BY <1>2, <2>2, NewNamedLabelStep
  <2>3. CASE Labels!Rehash
    <3>1. Labels!Rehashing /\ UNCHANGED <<labels, tableSize>>
      BY <2>3 DEF Labels!Rehash
    <3>2. ASSUME NEW b \in 1..Len(buckets), buckets[b] # << >>, Labels!RehashNode(b), UNCHANGED bucketsGrow
          PROVE  LabelsInv'
      BY <1>2, <3>1, <3>2, RehashNodeStep
    <3>3. ASSUME \A b \in 1..Len(buckets) : buckets[b] = << >>, buckets' = newData, newData' = << >>
          PROVE  LabelsInv'
      BY <1>2, <3>1, <3>3, RehashEndStep
    <3>. QED  BY <2>3, <3>2, <3>3 DEF Labels!Rehash
  <2>. QED  BY <1>2, <2>1, <2>2, <2>3 DEF Labels!Next
<1>. QED  BY <1>1, <1>2

\* A search in the bucket of a label's hash value finds its name.
LEMMA FoundByHash ==
    ASSUME LabelsInv, ~Labels!Rehashing, NEW l \in Labels!Named, NEW at,
           at = Labels!Bucket(labels[l].hVal, Len(buckets))
    PROVE  /\ Labels!Get(labels[l].name, at) \in Labels!Named
           /\ labels[Labels!Get(labels[l].name, at)].name = labels[l].name
<1>. DEFINE name == labels[l].name
            bucket == buckets[at]
            found == {i \in 1..Len(bucket) : labels[bucket[i]].name = name}
<1>1. /\ l \in 1..Len(labels) /\ labels[l].hVal \in Nat /\ buckets \in Seq(Seq(Nat))
      /\ Labels!BucketsOf(buckets) /\ Labels!Has(buckets, l)
      /\ Len(buckets) \in {1} \cup Labels!Range(Primes)
  BY LabelsFacts DEF TableSizes
<1>2. at \in 1..Len(buckets)
  <2>1. Len(buckets) \in Nat
    BY <1>1
  <2>2. \A x \in Labels!Range(Primes) : x # 0
    <3>1. Primes \in Seq(Nat \ {0})
      BY LabelsAssumption DEF Labels!HashAssumption
    <3>. QED  BY <3>1 DEF Labels!Range
  <2>3. Len(buckets) # 0
    BY ONLY <1>1, <2>2
  <2>4. Len(buckets) > 0
    BY ONLY <2>1, <2>3
  <2>. QED  BY ONLY <1>1, <2>1, <2>4, at = Labels!Bucket(labels[l].hVal, Len(buckets)), BucketOK
<1>3. bucket \in Seq(Nat)
  BY <1>1, <1>2
<1>4. l \in Labels!Range(bucket)
  BY <1>1, <1>2 DEF Labels!Has
<1>5. PICK i \in 1..Len(bucket) : bucket[i] = l
  BY <1>3, <1>4 DEF Labels!Range
<1>6. i \in found /\ found \in SUBSET Nat
  BY <1>3, <1>5
<1>7. \E j \in found : \A k \in found : j <= k
  <2>. HIDE DEF found
  <2>. QED  BY ONLY <1>6, Least
<1>8. PICK j \in found : Labels!Get(name, at) = bucket[j]
  <2>1. found # {}
    BY <1>6
  <2>2. Labels!Get(name, at) = bucket[CHOOSE j \in found : \A k \in found : j <= k]
    BY <2>1 DEF Labels!Get
  <2>. HIDE DEF found, bucket
  <2>. QED  BY <1>7, <2>2
<1>9. j \in 1..Len(bucket) /\ labels[bucket[j]].name = name
  OBVIOUS
<1>10. bucket[j] \in Labels!Named
  BY <1>1, <1>2, <1>3, <1>9 DEF Labels!BucketsOf, Labels!Range
<1>. QED  BY <1>8, <1>9, <1>10

\* In every behaviour of the table, however its hash function spreads the names and whenever it
\* grows (ZoneHash _put and _rehash), each named label is in it once, in the bucket of its hash
\* value, where a search with that value finds it or one of its name.
THEOREM NamesCorrect == Labels!Spec => []NamesAreFound
<1>1. Labels!Init => LabelsInv
  BY LabelsInit, LabelsAssumption
<1>2. LabelsInv /\ [Labels!Next]_Labels!vars => LabelsInv'
  <2>1. UNCHANGED Labels!vars => UNCHANGED labelVars
    BY DEF Labels!vars, labelVars
  <2>. QED  BY <2>1, LabelsStep, LabelsAssumption
<1>3. LabelsInv => NamesAreFound
  BY FoundByHash DEF LabelsInv, NamesAreFound, Labels!NamesAreFound
<1>. QED  BY <1>1, <1>2, <1>3, PTL DEF Labels!Spec

-----------------------------------------------------------------------------
(* CodeHolder: bytes.                                                      *)

Byte == Int \X Nat \X Nat

\* What stands in b from offset a on.
Holds(b, a, new) == a + Len(new) <= Len(b) /\ \A k \in 1..Len(new) : b[a + k] = new[k]

\* w is b with new bytes from offset a on.
WrittenTo(w, b, a, new) ==
    /\ w \in Seq(Byte)
    /\ Len(b) <= Len(w)
    /\ a + Len(new) <= Len(b) => Len(w) = Len(b)
    /\ a + Len(new) > Len(b) => Len(w) = a + Len(new)
    /\ Holds(w, a, new)
    /\ \A i \in 1..Len(b) : i <= a \/ i > a + Len(new) => w[i] = b[i]

\* The module's Write.
LEMMA WriteWrites ==
    ASSUME NEW b \in Seq(Byte), NEW a \in Nat, a <= Len(b), NEW new \in Seq(Byte)
    PROVE  WrittenTo(Holder!Write(b, a, new), b, a, new)
<1>1. PICK m \in Nat : m = Len(b)
  OBVIOUS
<1>2. PICK n \in Nat : n = Len(new)
  OBVIOUS
<1>3. PICK t \in Nat : /\ t = Holder!Larger(m, a + n) /\ m <= t /\ a + n <= t
                       /\ (a + n <= m => t = m) /\ (a + n > m => t = a + n)
  <2>1. Holder!Larger(m, a + n) \in Nat
    BY DEF Holder!Larger
  <2>. QED  BY <2>1 DEF Holder!Larger
<1>4. PICK w : w = Holder!Write(b, a, new)
  OBVIOUS
<1>5. w = [i \in 1..t |-> IF i > a /\ i <= a + n THEN new[i - a] ELSE b[i]]
  BY ONLY <1>1, <1>2, <1>3, <1>4 DEF Holder!Write
<1>6. ASSUME NEW i \in 1..t
      PROVE  (IF i > a /\ i <= a + n THEN new[i - a] ELSE b[i]) \in Byte
  <2>1. CASE i > a /\ i <= a + n
    <3>1. i - a \in 1..n
      BY <2>1
    <3>2. new[i - a] \in Byte
      BY <3>1, <1>2
    <3>. QED  BY <2>1, <3>2
  <2>2. CASE ~(i > a /\ i <= a + n)
    <3>1. i \in 1..m
      BY <2>2, <1>3, <1>1
    <3>2. b[i] \in Byte
      BY <3>1, <1>1
    <3>. QED  BY <2>2, <3>2
  <2>. QED  BY <2>1, <2>2
<1>7. w \in [1..t -> Byte]
  BY ONLY <1>5, <1>6
<1>8. w \in Seq(Byte) /\ Len(w) = t
  BY ONLY <1>7, t \in Nat
<1>9. ASSUME NEW k \in 1..n
      PROVE  w[a + k] = new[k]
  <2>1. a + k \in 1..t /\ a + k > a /\ a + k <= a + n /\ (a + k) - a = k
    BY <1>3
  <2>. QED  BY ONLY <2>1, <1>5
<1>10. ASSUME NEW i \in 1..m, i <= a \/ i > a + n
       PROVE  w[i] = b[i]
  <2>1. i \in 1..t /\ ~(i > a /\ i <= a + n)
    BY <1>3, <1>10
  <2>. QED  BY ONLY <2>1, <1>5
<1>11. Holds(w, a, new)
  BY ONLY <1>2, <1>3, <1>8, <1>9 DEF Holds
<1>. QED  BY ONLY <1>1, <1>2, <1>3, <1>4, <1>8, <1>10, <1>11 DEF WrittenTo

\* What Bytes makes.
LEMMA BytesAre ==
    ASSUME NEW v \in Int, NEW s \in Nat
    PROVE  /\ Holder!Bytes(v, s) \in Seq(Byte) /\ Len(Holder!Bytes(v, s)) = s
           /\ \A k \in 1..s : Holder!Bytes(v, s)[k] = <<v, k, s>>
<1>1. PICK w : w = Holder!Bytes(v, s)
  OBVIOUS
<1>2. w = [k \in 1..s |-> <<v, k, s>>]
  BY <1>1 DEF Holder!Bytes
<1>3. \A k \in 1..s : <<v, k, s>> \in Byte
  BY DEF Byte
<1>4. w \in [1..s -> Byte]
  BY ONLY <1>2, <1>3
<1>5. w \in Seq(Byte) /\ Len(w) = s /\ \A k \in 1..s : w[k] = <<v, k, s>>
  BY ONLY <1>2, <1>4, s \in Nat
<1>. QED  BY ONLY <1>1, <1>5

\* And Zeroes.
LEMMA ZeroesAre ==
    ASSUME NEW s \in Nat
    PROVE  Holder!Zeroes(s) \in Seq(Byte) /\ Len(Holder!Zeroes(s)) = s
<1>1. PICK w : w = Holder!Zeroes(s)
  OBVIOUS
<1>2. w = [k \in 1..s |-> <<0, 1, 1>>]
  BY <1>1 DEF Holder!Zeroes
<1>3. <<0, 1, 1>> \in Byte
  BY DEF Byte
<1>4. w \in [1..s -> Byte]
  BY ONLY <1>2, <1>3
<1>5. w \in Seq(Byte) /\ Len(w) = s
  BY ONLY <1>4, s \in Nat
<1>. QED  BY ONLY <1>1, <1>5

\* Holds says what SubSeq would.
LEMMA HoldsSubSeq ==
    ASSUME NEW b \in Seq(Byte), NEW a \in Nat, NEW new \in Seq(Byte), Holds(b, a, new)
    PROVE  SubSeq(b, a + 1, a + Len(new)) = new
<1>1. PICK n \in Nat : n = Len(new)
  OBVIOUS
<1>2. PICK w : w = SubSeq(b, a + 1, a + n)
  OBVIOUS
<1>3. a + n <= Len(b) /\ \A k \in 1..n : b[a + k] = new[k]
  BY ONLY <1>1, Holds(b, a, new) DEF Holds
<1>4. w \in Seq(Byte) /\ Len(w) = n /\ \A k \in 1..n : w[k] = b[a + k]
  <2>1. w = [k \in 1..n |-> b[(a + 1) + k - 1]]
    <3>1. (a + n) - (a + 1) + 1 = n
      BY a \in Nat, n \in Nat
    <3>. QED  BY ONLY <1>2, <3>1, <1>3, b \in Seq(Byte), a \in Nat, n \in Nat
  <2>2. \A k \in 1..n : (a + 1) + k - 1 = a + k /\ a + k \in 1..Len(b)
    BY ONLY <1>3, a \in Nat, n \in Nat, b \in Seq(Byte)
  <2>3. \A k \in 1..n : b[a + k] \in Byte
    BY ONLY <2>2, b \in Seq(Byte), ElementOfSeq
  <2>4. w = [k \in 1..n |-> b[a + k]]
    BY ONLY <2>1, <2>2
  <2>5. w \in [1..n -> Byte]
    BY ONLY <2>3, <2>4
  <2>6. w \in Seq(Byte) /\ Len(w) = n
    BY ONLY <2>5, n \in Nat
  <2>7. \A k \in 1..n : w[k] = b[a + k]
    BY ONLY <2>4
  <2>. QED  BY ONLY <2>6, <2>7
<1>5. w = new
  <2>1. \A k \in 1..n : w[k] = new[k]
    BY <1>3, <1>4
  <2>. QED  BY ONLY <2>1, <1>1, <1>4, new \in Seq(Byte), SeqEqual
<1>. QED  BY ONLY <1>1, <1>2, <1>5

\* What still stands when bytes elsewhere are written.
LEMMA HoldsStill ==
    ASSUME NEW w, NEW b, NEW a \in Nat, NEW new \in Seq(Byte), NEW at \in Nat, NEW s \in Nat,
           Holds(b, a, new), at <= a, a + Len(new) <= at + s, Len(b) \in Nat, Len(w) \in Nat,
           Len(b) <= Len(w), \A i \in at + 1 .. at + s : w[i] = b[i]
    PROVE  Holds(w, a, new)
<1>1. PICK n \in Nat : n = Len(new)
  OBVIOUS
<1>2. a + n <= Len(b) /\ \A k \in 1..n : b[a + k] = new[k]
  BY ONLY <1>1, Holds(b, a, new) DEF Holds
<1>3. \A k \in 1..n : a + k \in at + 1 .. at + s
  BY <1>1
<1>4. \A k \in 1..n : w[a + k] = new[k]
  BY ONLY <1>2, <1>3, \A i \in at + 1 .. at + s : w[i] = b[i]
<1>5. a + n <= Len(w)
  BY <1>2
<1>. QED  BY ONLY <1>1, <1>4, <1>5 DEF Holds

-----------------------------------------------------------------------------
(* CodeHolder: its invariant.                                              *)

HolderLink  == [offset : Nat, rel : Int, relocId : Nat]
HolderEntry == [offset : Nat \cup {-1}, links : Seq(HolderLink)]
HolderReloc == [type : {"RelToAbs", "Trampoline"}, source : Nat, size : Nat, data : Int]
HolderUse   == [at : Nat, size : Nat, kind : {"address", "jump", "call"}, of : Int]

HolderTypeOK ==
    /\ data \in Seq(Byte) /\ length \in Nat /\ trampolinesSize \in Nat
    /\ holderEntries \in Seq(HolderEntry) /\ relocations \in Seq(HolderReloc)
    /\ unresolvedLabelsCount \in Int /\ bufferPtr \in Nat
    /\ attached \in BOOLEAN /\ lastError \in BOOLEAN /\ failed \in BOOLEAN
    /\ binding \in [label : Nat, links : Seq(HolderLink), err : BOOLEAN, follows : Nat]
    /\ copy \in [base : Nat, next : Nat, bytes : Seq(Byte), trampOffset : Nat]
    /\ uses \in SUBSET HolderUse

\* What was written is what counts, and only one loop runs at a time.
BufferInOrder ==
    /\ Len(data) = Holder!Synced
    /\ ~attached => bufferPtr = 0
    /\ binding.label = 0 \/ copy.base = 0
    /\ binding.label = 0 => ~binding.err
    /\ binding.label \in 0..Len(holderEntries)
    /\ binding.label # 0 =>
          /\ attached /\ holderEntries[binding.label].offset = -1
          /\ binding.follows = 0 \/ \A u \in uses : \/ u.at + u.size <= bufferPtr
                                                   \/ bufferPtr + binding.follows <= u.at

Apart(u, v) == u.at + u.size <= v.at \/ v.at + v.size <= u.at

UsesApart == \A u, v \in uses : u = v \/ Apart(u, v)

\* One of the links is for the use.
Linked(links, u) == \E i \in DOMAIN links : links[i].offset = u.at

\* The relocation is for the use.
RelocOf(re, u) ==
    \/ u.kind = "address" /\ re.type = "RelToAbs" /\ re.source = u.at /\ re.size = gpSize
    \/ /\ u.kind = "call" /\ re.type = "Trampoline" /\ re.source = u.at + 2 /\ re.size = 4
       /\ re.data = u.of

\* One relocation is.
Served(rs, u) ==
    /\ \E r \in DOMAIN rs : RelocOf(rs[r], u)
    /\ \A r, q \in DOMAIN rs : RelocOf(rs[r], u) /\ RelocOf(rs[q], u) => r = q

\* Where a label is, or is being put.
Place(l) == IF l = binding.label THEN bufferPtr ELSE holderEntries[l].offset

AddressFits(u, n, rs, links, place) ==
    /\ u.size = gpSize /\ u.of \in 1..n
    /\ Linked(links, u) \/ place # -1
    /\ Served(rs, u)
    /\ \A r \in DOMAIN rs : RelocOf(rs[r], u) => rs[r].data = IF Linked(links, u) THEN 0 ELSE place

JumpFits(u, n, b, links, place, err) ==
    /\ u.size \in {1, 4} /\ u.of \in 1..n
    /\ Linked(links, u) \/ place # -1
    /\ \/ Linked(links, u)
       \/ Holds(b, u.at, Holder!Bytes(place - (u.at + u.size), u.size))
       \/ u.size = 1 /\ err

CallFits(u, b, rs) == u.size = 6 /\ Served(rs, u) /\ b[u.at + 2] = <<232, 1, 1>>

\* The use fits what the buffer, the relocations and the links have of it.
UseFits(u, n, b, rs, links, place, err) ==
    /\ u.size >= 1 /\ u.at + u.size <= Len(b)
    /\ u.kind = "address" => AddressFits(u, n, rs, links, place)
    /\ u.kind = "jump" => JumpFits(u, n, b, links, place, err)
    /\ u.kind = "call" => CallFits(u, b, rs)

UsesFit ==
    \A u \in uses : UseFits(u, Len(holderEntries), data, relocations, Holder!LinksOf(u.of),
                            Place(u.of), failed \/ binding.err)

RelocsFit == \A r \in DOMAIN relocations : \E u \in uses : RelocOf(relocations[r], u)

LinkFits(link, u, b, rs) ==
    /\ u.at = link.offset
    /\ \/ u.kind = "address" /\ link.relocId \in DOMAIN rs /\ RelocOf(rs[link.relocId], u)
       \/ u.kind = "jump" /\ link.relocId = 0 /\ link.rel = -u.size /\ b[u.at + 1] = <<u.size, 1, 1>>

LinksFit ==
    \A l \in DOMAIN holderEntries :
        /\ \A i \in DOMAIN Holder!LinksOf(l) :
              \E u \in uses : u.of = l /\ LinkFits(Holder!LinksOf(l)[i], u, data, relocations)
        /\ \A i, j \in DOMAIN Holder!LinksOf(l) :
              Holder!LinksOf(l)[i].offset = Holder!LinksOf(l)[j].offset => i = j
        /\ holderEntries[l].offset # -1 => holderEntries[l].links = << >>

Counted == IsFiniteSet(Holder!Unresolved) /\ unresolvedLabelsCount = Cardinality(Holder!Unresolved)

\* The trampolines that may still be needed from relocation n on.
Trampolines(rs, n) == {r \in DOMAIN rs : r >= n /\ rs[r].type = "Trampoline"}

TrampolinesFit == trampolinesSize = 8 * Cardinality(Trampolines(relocations, 1))

\* As the module's CallStands.
CallHolds(u, b, base, synced) ==
    \E v \in Int :
        /\ Holds(b, u.at + 2, Holder!Bytes(v, 4))
        /\ \/ b[u.at + 2] = <<232, 1, 1>> /\ base + (u.at + 6 + v) = u.of
           \/ /\ b[u.at + 1] = <<255, 1, 1>> /\ b[u.at + 2] = <<21, 1, 1>>
              /\ u.at + 6 + v >= synced /\ Holds(b, u.at + 6 + v, Holder!Bytes(u.of, 8))

\* The copy, of whose relocations some are done.
CopyFits ==
    /\ copy.next \in 1..Len(relocations) + 1
    /\ Len(copy.bytes) = copy.trampOffset /\ Holder!Synced <= copy.trampOffset
    /\ copy.trampOffset + 8 * Cardinality(Trampolines(relocations, copy.next)) <= Holder!CodeSize
    /\ \A u \in uses : \A r \in 1..copy.next - 1 : RelocOf(relocations[r], u) =>
          /\ u.kind = "address" => Holds(copy.bytes, u.at, Holder!Bytes(relocations[r].data + copy.base, gpSize))
          /\ u.kind = "call" => CallHolds(u, copy.bytes, copy.base, Holder!Synced)
    /\ \A u \in uses : (\A r \in 1..copy.next - 1 : ~RelocOf(relocations[r], u)) =>
          \A i \in u.at + 1 .. u.at + u.size : copy.bytes[i] = data[i]

HolderInv ==
    /\ HolderTypeOK /\ BufferInOrder
    /\ UsesApart /\ UsesFit /\ RelocsFit /\ LinksFit /\ Counted /\ TrampolinesFit
    /\ copy.base # 0 => CopyFits

-----------------------------------------------------------------------------
(* CodeHolder: what a use has that nothing is done about.                  *)

\* The bytes of the use are the same.
SameBytes(b2, b, u) == Len(b) <= Len(b2) /\ \A i \in u.at + 1 .. u.at + u.size : b2[i] = b[i]

\* The relocations of the use are the same.
SameRelocs(rs2, rs, u) ==
    /\ DOMAIN rs \subseteq DOMAIN rs2
    /\ \A r \in DOMAIN rs2 : RelocOf(rs2[r], u) => r \in DOMAIN rs
    /\ \A r \in DOMAIN rs : /\ RelocOf(rs2[r], u) <=> RelocOf(rs[r], u)
                            /\ RelocOf(rs[r], u) => rs2[r].data = rs[r].data

SameLinks(links2, links, u) == Linked(links2, u) <=> Linked(links, u)

LEMMA ServedStill ==
    ASSUME NEW rs, NEW rs2, NEW u, Served(rs, u), SameRelocs(rs2, rs, u)
    PROVE  Served(rs2, u)
BY DEF Served, SameRelocs

LEMMA AddressFitsStill ==
    ASSUME NEW u \in HolderUse, NEW n \in Nat, NEW n2 \in Nat, n <= n2, NEW rs, NEW rs2,
           NEW links, NEW links2, NEW place \in Int, NEW place2 \in Int,
           AddressFits(u, n, rs, links, place), SameRelocs(rs2, rs, u),
           SameLinks(links2, links, u), place2 = place \/ place = -1
    PROVE  AddressFits(u, n2, rs2, links2, place2)
<1>1. /\ u.size = gpSize /\ u.of \in 1..n /\ (Linked(links, u) \/ place # -1) /\ Served(rs, u)
      /\ \A r \in DOMAIN rs : RelocOf(rs[r], u) => rs[r].data = IF Linked(links, u) THEN 0 ELSE place
  BY ONLY AddressFits(u, n, rs, links, place) DEF AddressFits
<1>2. Served(rs2, u)
  BY ONLY <1>1, SameRelocs(rs2, rs, u), ServedStill
<1>3. Linked(links2, u) <=> Linked(links, u)
  BY ONLY SameLinks(links2, links, u) DEF SameLinks
<1>4. Linked(links2, u) \/ place2 # -1
  BY ONLY <1>1, <1>3, place2 = place \/ place = -1
<1>5. (IF Linked(links2, u) THEN 0 ELSE place2) = IF Linked(links, u) THEN 0 ELSE place
  BY ONLY <1>1, <1>3, place2 = place \/ place = -1
<1>6. \A r \in DOMAIN rs2 : RelocOf(rs2[r], u) => rs2[r].data = IF Linked(links2, u) THEN 0 ELSE place2
  BY ONLY <1>1, <1>5, SameRelocs(rs2, rs, u) DEF SameRelocs
<1>7. u.size = gpSize /\ u.of \in 1..n
  BY ONLY AddressFits(u, n, rs, links, place), Zenon DEF AddressFits
<1>8. u.of \in 1..n2
  BY ONLY <1>7, n \in Nat, n2 \in Nat, n <= n2
<1>. QED  BY ONLY <1>2, <1>4, <1>6, <1>7, <1>8 DEF AddressFits

LEMMA JumpFitsStill ==
    ASSUME NEW u \in HolderUse, NEW n \in Nat, NEW n2 \in Nat, n <= n2, NEW b, NEW b2,
           Len(b) \in Nat, Len(b2) \in Nat,
           NEW links, NEW links2, NEW place \in Int, NEW place2 \in Int, NEW err, NEW err2,
           JumpFits(u, n, b, links, place, err), SameBytes(b2, b, u),
           SameLinks(links2, links, u), place2 = place \/ place = -1, err => err2
    PROVE  JumpFits(u, n2, b2, links2, place2, err2)
<1>1. PICK new : new = Holder!Bytes(place - (u.at + u.size), u.size)
  OBVIOUS
<1>2. /\ u.size \in {1, 4} /\ u.of \in 1..n
      /\ Linked(links, u) \/ place # -1
      /\ Linked(links, u) \/ Holds(b, u.at, new) \/ (u.size = 1 /\ err)
  BY ONLY <1>1, JumpFits(u, n, b, links, place, err) DEF JumpFits
<1>3. Linked(links2, u) <=> Linked(links, u)
  BY ONLY SameLinks(links2, links, u) DEF SameLinks
<1>4. Linked(links2, u) \/ place2 # -1
  BY ONLY <1>2, <1>3, place2 = place \/ place = -1
<1>5. u.of \in 1..n2
  BY ONLY <1>2, n \in Nat, n2 \in Nat, n <= n2
<1>6. ASSUME ~Linked(links, u), Holds(b, u.at, new)
      PROVE  place2 = place /\ Holds(b2, u.at, new)
  <2>1. place2 = place
    BY ONLY <1>2, <1>6, place2 = place \/ place = -1
  <2>2. u.at \in Nat /\ u.size \in Nat
    BY DEF HolderUse
  <2>3. new \in Seq(Byte) /\ Len(new) = u.size
    <3>1. place - (u.at + u.size) \in Int
      BY <2>2
    <3>. QED  BY ONLY <1>1, <3>1, <2>2, BytesAre
  <2>4. u.at <= u.at /\ u.at + Len(new) <= u.at + u.size
    BY <2>2, <2>3
  <2>5. Len(b) <= Len(b2) /\ \A i \in u.at + 1 .. u.at + u.size : b2[i] = b[i]
    BY ONLY SameBytes(b2, b, u) DEF SameBytes
  <2>6. Holds(b2, u.at, new)
    BY ONLY <2>2, <2>3, <2>4, <2>5, <1>6, Len(b) \in Nat, Len(b2) \in Nat, HoldsStill
  <2>. QED  BY ONLY <2>1, <2>6
<1>7. \/ Linked(links2, u)
      \/ Holds(b2, u.at, Holder!Bytes(place2 - (u.at + u.size), u.size))
      \/ u.size = 1 /\ err2
  BY ONLY <1>1, <1>2, <1>3, <1>6, err => err2
<1>. QED  BY ONLY <1>2, <1>4, <1>5, <1>7 DEF JumpFits

LEMMA CallFitsStill ==
    ASSUME NEW u \in HolderUse, NEW b, NEW b2, NEW rs, NEW rs2,
           CallFits(u, b, rs), SameBytes(b2, b, u), SameRelocs(rs2, rs, u)
    PROVE  CallFits(u, b2, rs2)
<1>1. u.size = 6 /\ Served(rs, u) /\ b[u.at + 2] = <<232, 1, 1>>
  BY ONLY CallFits(u, b, rs) DEF CallFits
<1>2. Served(rs2, u)
  BY ONLY <1>1, SameRelocs(rs2, rs, u), ServedStill
<1>3. u.at + 2 \in u.at + 1 .. u.at + u.size
  BY <1>1 DEF HolderUse
<1>4. b2[u.at + 2] = b[u.at + 2]
  BY ONLY <1>3, SameBytes(b2, b, u) DEF SameBytes
<1>. QED  BY ONLY <1>1, <1>2, <1>4 DEF CallFits

\* What stays the same of the use.
Untouched(u, n2, n, b2, b, rs2, rs, links2, links, place2, place, err2, err) ==
    /\ n \in Nat /\ n2 \in Nat /\ n <= n2
    /\ Len(b) \in Nat /\ Len(b2) \in Nat /\ SameBytes(b2, b, u) /\ SameRelocs(rs2, rs, u)
    /\ u.kind # "call" => /\ SameLinks(links2, links, u) /\ place \in Int /\ place2 \in Int
                          /\ place2 = place \/ place = -1
    /\ err => err2

LEMMA UseFitsStill ==
    ASSUME NEW u \in HolderUse, NEW n, NEW n2, NEW b, NEW b2, NEW rs, NEW rs2,
           NEW links, NEW links2, NEW place, NEW place2, NEW err, NEW err2,
           Untouched(u, n2, n, b2, b, rs2, rs, links2, links, place2, place, err2, err),
           UseFits(u, n, b, rs, links, place, err)
    PROVE  UseFits(u, n2, b2, rs2, links2, place2, err2)
<1>1. /\ n \in Nat /\ n2 \in Nat /\ n <= n2
      /\ Len(b) \in Nat /\ Len(b2) \in Nat /\ SameBytes(b2, b, u) /\ SameRelocs(rs2, rs, u)
      /\ u.kind # "call" => /\ SameLinks(links2, links, u) /\ place \in Int /\ place2 \in Int
                            /\ place2 = place \/ place = -1
      /\ err => err2
  BY ONLY Untouched(u, n2, n, b2, b, rs2, rs, links2, links, place2, place, err2, err) DEF Untouched
<1>2. /\ u.size >= 1 /\ u.at + u.size <= Len(b)
      /\ u.kind = "address" => AddressFits(u, n, rs, links, place)
      /\ u.kind = "jump" => JumpFits(u, n, b, links, place, err)
      /\ u.kind = "call" => CallFits(u, b, rs)
  BY ONLY UseFits(u, n, b, rs, links, place, err) DEF UseFits
<1>3. u.size >= 1 /\ u.at + u.size <= Len(b2)
  <2>1. Len(b) <= Len(b2)
    BY ONLY <1>1 DEF SameBytes
  <2>2. u.at \in Nat /\ u.size \in Nat
    BY DEF HolderUse
  <2>. QED  BY ONLY <2>1, <2>2, <1>1, <1>2
<1>4. ASSUME u.kind = "address" PROVE AddressFits(u, n2, rs2, links2, place2)
  <2>1. u.kind # "call"
    BY <1>4
  <2>. QED  BY ONLY <2>1, <1>1, <1>2, <1>4, u \in HolderUse, AddressFitsStill
<1>5. ASSUME u.kind = "jump" PROVE JumpFits(u, n2, b2, links2, place2, err2)
  <2>1. u.kind # "call"
    BY <1>5
  <2>. QED  BY ONLY <2>1, <1>1, <1>2, <1>5, u \in HolderUse, JumpFitsStill
<1>6. ASSUME u.kind = "call" PROVE CallFits(u, b2, rs2)
  BY ONLY <1>1, <1>2, <1>6, u \in HolderUse, CallFitsStill
<1>. QED  BY ONLY <1>3, <1>4, <1>5, <1>6 DEF UseFits

\* A link that fits still does.
LEMMA LinkFitsStill ==
    ASSUME NEW link, NEW u \in HolderUse, NEW b, NEW b2, NEW rs, NEW rs2,
           LinkFits(link, u, b, rs), u.size >= 1, SameBytes(b2, b, u), SameRelocs(rs2, rs, u)
    PROVE  LinkFits(link, u, b2, rs2)
<1>1. u.at + 1 \in u.at + 1 .. u.at + u.size
  BY DEF HolderUse
<1>2. b2[u.at + 1] = b[u.at + 1]
  BY ONLY <1>1, SameBytes(b2, b, u) DEF SameBytes
<1>3. ASSUME link.relocId \in DOMAIN rs, RelocOf(rs[link.relocId], u)
      PROVE  link.relocId \in DOMAIN rs2 /\ RelocOf(rs2[link.relocId], u)
  BY ONLY <1>3, SameRelocs(rs2, rs, u) DEF SameRelocs
<1>. QED  BY ONLY <1>2, <1>3, LinkFits(link, u, b, rs) DEF LinkFits

\* Another link in front.
LEMMA LinkInFront ==
    ASSUME NEW links \in Seq(HolderLink), NEW link \in HolderLink
    PROVE  /\ <<link>> \o links \in Seq(HolderLink)
           /\ Len(<<link>> \o links) = Len(links) + 1
           /\ (<<link>> \o links)[1] = link
           /\ \A i \in 1..Len(links) : (<<link>> \o links)[i + 1] = links[i]
<1>1. PICK n \in Nat : n = Len(links)
  OBVIOUS
<1>2. PICK t : t = <<link>> \o links
  OBVIOUS
<1>3. t \in Seq(HolderLink) /\ Len(t) = n + 1
  BY ONLY <1>1, <1>2, links \in Seq(HolderLink), link \in HolderLink
<1>4. t[1] = link /\ \A i \in 1..n : t[i + 1] = links[i]
  BY ONLY <1>1, <1>2, links \in Seq(HolderLink), link \in HolderLink
<1>. QED  BY ONLY <1>1, <1>2, <1>3, <1>4

LEMMA LinkedInFront ==
    ASSUME NEW links \in Seq(HolderLink), NEW link \in HolderLink, NEW u
    PROVE  Linked(<<link>> \o links, u) <=> (link.offset = u.at \/ Linked(links, u))
<1>1. PICK n \in Nat : n = Len(links)
  OBVIOUS
<1>2. PICK t : t = <<link>> \o links
  OBVIOUS
<1>3. /\ DOMAIN t = 1..n + 1 /\ DOMAIN links = 1..n /\ t[1] = link
      /\ \A i \in 1..n : t[i + 1] = links[i]
  <2>1. t \in Seq(HolderLink) /\ Len(t) = n + 1 /\ t[1] = link /\ \A i \in 1..n : t[i + 1] = links[i]
    BY ONLY <1>1, <1>2, links \in Seq(HolderLink), link \in HolderLink, LinkInFront
  <2>. QED  BY ONLY <2>1, <1>1, n \in Nat, links \in Seq(HolderLink)
<1>4. ASSUME NEW i \in 1..n + 1, t[i].offset = u.at
      PROVE  link.offset = u.at \/ Linked(links, u)
  <2>1. i = 1 \/ (i - 1 \in 1..n /\ (i - 1) + 1 = i)
    BY ONLY n \in Nat, i \in 1..n + 1
  <2>2. i = 1 \/ (i - 1 \in 1..n /\ t[i] = links[i - 1])
    BY ONLY <2>1, <1>3
  <2>. QED  BY ONLY <2>2, <1>3, <1>4 DEF Linked
<1>5. ASSUME link.offset = u.at PROVE Linked(t, u)
  <2>1. 1 \in 1..n + 1
    BY ONLY n \in Nat
  <2>. QED  BY ONLY <2>1, <1>3, <1>5 DEF Linked
<1>6. ASSUME NEW i \in 1..n, links[i].offset = u.at PROVE Linked(t, u)
  <2>1. i + 1 \in 1..n + 1
    BY ONLY n \in Nat, i \in 1..n
  <2>. QED  BY ONLY <2>1, <1>3, <1>6 DEF Linked
<1>7. Linked(links, u) => Linked(t, u)
  BY ONLY <1>6, <1>3 DEF Linked
<1>8. Linked(t, u) => link.offset = u.at \/ Linked(links, u)
  BY ONLY <1>4, <1>3 DEF Linked
<1>. QED  BY ONLY <1>2, <1>5, <1>7, <1>8

-----------------------------------------------------------------------------
(* CodeHolder: a step that adds to the code.                               *)

\* What it leaves as it is.
Extends ==
    /\ uses \subseteq uses'
    /\ \A u \in uses : SameBytes(data', data, u) /\ SameRelocs(relocations', relocations, u)
    /\ Len(holderEntries) <= Len(holderEntries')
    /\ \A u \in uses : u.kind # "call" =>
          /\ SameLinks(Holder!LinksOf(u.of)', Holder!LinksOf(u.of), u)
          /\ Place(u.of)' = Place(u.of) \/ Place(u.of) = -1
    /\ failed \/ binding.err => failed' \/ binding.err'

\* And what it adds to the links.
LinksGrow ==
    \A l \in DOMAIN holderEntries' :
        /\ \/ Holder!LinksOf(l)' = << >>
           \/ l \in DOMAIN holderEntries /\ Holder!LinksOf(l)' = Holder!LinksOf(l)
           \/ /\ l \in DOMAIN holderEntries
              /\ \E link \in HolderLink : \E u \in uses' :
                    /\ Holder!LinksOf(l)' = <<link>> \o Holder!LinksOf(l)
                    /\ u.of = l /\ LinkFits(link, u, data', relocations')
                    /\ \A v \in uses : v.at # u.at
        /\ holderEntries'[l].offset # -1 => holderEntries'[l].links = << >>

\* The types of what belongs to a label.
LEMMA LinksOfType ==
    ASSUME HolderTypeOK, NEW l \in DOMAIN holderEntries
    PROVE  Holder!LinksOf(l) \in Seq(HolderLink) /\ Place(l) \in Int
<1>1. holderEntries[l] \in HolderEntry
  <2>1. holderEntries \in Seq(HolderEntry)
    BY DEF HolderTypeOK
  <2>. QED  BY ONLY <2>1, l \in DOMAIN holderEntries, ElementOfSeq
<1>2. holderEntries[l].links \in Seq(HolderLink) /\ holderEntries[l].offset \in Int
  BY ONLY <1>1 DEF HolderEntry
<1>3. binding.links \in Seq(HolderLink) /\ bufferPtr \in Int
  BY DEF HolderTypeOK
<1>. QED  BY ONLY <1>2, <1>3 DEF Holder!LinksOf, Place

LEMMA LinksOfTypeNext ==
    ASSUME HolderTypeOK', NEW l \in DOMAIN holderEntries'
    PROVE  Holder!LinksOf(l)' \in Seq(HolderLink) /\ Place(l)' \in Int
<1>1. holderEntries'[l] \in HolderEntry
  <2>1. holderEntries' \in Seq(HolderEntry)
    BY DEF HolderTypeOK
  <2>. QED  BY ONLY <2>1, l \in DOMAIN holderEntries', ElementOfSeq
<1>2. holderEntries'[l].links \in Seq(HolderLink) /\ holderEntries'[l].offset \in Int
  BY ONLY <1>1 DEF HolderEntry
<1>3. binding'.links \in Seq(HolderLink) /\ bufferPtr' \in Int
  BY DEF HolderTypeOK
<1>. QED  BY ONLY <1>2, <1>3 DEF Holder!LinksOf, Place

LEMMA UseOfType ==
    ASSUME HolderTypeOK, UsesFit, NEW u \in uses
    PROVE  /\ u \in HolderUse /\ u.at \in Nat /\ u.size \in Nat /\ u.of \in Int
           /\ u.size >= 1 /\ u.at + u.size <= Len(data)
           /\ u.kind \in {"address", "jump", "call"}
           /\ u.kind # "call" => u.of \in DOMAIN holderEntries
<1>1. u \in HolderUse
  BY DEF HolderTypeOK
<1>2. /\ u.at \in Nat /\ u.size \in Nat /\ u.of \in Int
      /\ u.kind \in {"address", "jump", "call"}
  BY ONLY <1>1 DEF HolderUse
<1>3. PICK n, li, pl, er :
        n = Len(holderEntries) /\ li = Holder!LinksOf(u.of) /\ pl = Place(u.of) /\ er = (failed \/ binding.err)
  OBVIOUS
<1>4. UseFits(u, n, data, relocations, li, pl, er)
  BY ONLY <1>3, UsesFit, u \in uses DEF UsesFit
<1>5. /\ u.size >= 1 /\ u.at + u.size <= Len(data)
      /\ u.kind = "address" => AddressFits(u, n, relocations, li, pl)
      /\ u.kind = "jump" => JumpFits(u, n, data, li, pl, er)
  BY ONLY <1>4 DEF UseFits
<1>6. ASSUME u.kind # "call" PROVE u.of \in 1..n
  <2>1. ASSUME AddressFits(u, n, relocations, li, pl) PROVE u.of \in 1..n
    BY ONLY <2>1, Zenon DEF AddressFits
  <2>2. ASSUME JumpFits(u, n, data, li, pl, er) PROVE u.of \in 1..n
    BY ONLY <2>2, Zenon DEF JumpFits
  <2>. QED  BY ONLY <1>2, <1>5, <1>6, <2>1, <2>2
<1>7. DOMAIN holderEntries = 1..n
  BY <1>3 DEF HolderTypeOK
<1>. QED  BY ONLY <1>1, <1>2, <1>5, <1>6, <1>7

\* The uses that were there still fit.
LEMMA UsesStay ==
    ASSUME HolderTypeOK, HolderTypeOK', UsesFit, Extends, NEW u \in uses
    PROVE  UseFits(u, Len(holderEntries'), data', relocations', Holder!LinksOf(u.of)', Place(u.of)',
                   failed' \/ binding.err')
<1>1. PICK n, n2, b, b2, rs, rs2, li, li2, pl, pl2, er, er2 :
        /\ n = Len(holderEntries) /\ n2 = Len(holderEntries') /\ b = data /\ b2 = data'
        /\ rs = relocations /\ rs2 = relocations'
        /\ li = Holder!LinksOf(u.of) /\ li2 = Holder!LinksOf(u.of)'
        /\ pl = Place(u.of) /\ pl2 = Place(u.of)'
        /\ er = (failed \/ binding.err) /\ er2 = (failed' \/ binding.err')
  OBVIOUS
<1>2. UseFits(u, n, b, rs, li, pl, er)
  BY ONLY <1>1, UsesFit, u \in uses DEF UsesFit
<1>3. u \in HolderUse /\ (u.kind # "call" => u.of \in DOMAIN holderEntries)
  BY UseOfType
<1>4. n \in Nat /\ n2 \in Nat /\ Len(b) \in Nat /\ Len(b2) \in Nat
  <2>1. n \in Nat /\ Len(b) \in Nat
    BY ONLY <1>1, HolderTypeOK DEF HolderTypeOK
  <2>2. n2 \in Nat /\ Len(b2) \in Nat
    BY ONLY <1>1, HolderTypeOK' DEF HolderTypeOK
  <2>. QED  BY ONLY <2>1, <2>2
<1>5. n <= n2 /\ SameBytes(b2, b, u) /\ SameRelocs(rs2, rs, u) /\ (er => er2)
  BY ONLY <1>1, Extends, u \in uses DEF Extends
<1>6. ASSUME u.kind # "call"
      PROVE  SameLinks(li2, li, u) /\ pl \in Int /\ pl2 \in Int /\ (pl2 = pl \/ pl = -1)
  <2>1. SameLinks(li2, li, u) /\ (pl2 = pl \/ pl = -1)
    BY ONLY <1>1, <1>6, Extends, u \in uses DEF Extends
  <2>2. pl \in Int
    BY ONLY <1>1, <1>3, <1>6, HolderTypeOK, LinksOfType
  <2>3. u.of \in DOMAIN holderEntries'
    <3>1. DOMAIN holderEntries = 1..n /\ DOMAIN holderEntries' = 1..n2
      BY <1>1 DEF HolderTypeOK
    <3>2. u.of \in 1..n
      BY ONLY <3>1, <1>3, <1>6
    <3>3. u.of \in 1..n2
      BY ONLY <3>2, <1>4, <1>5
    <3>. QED  BY ONLY <3>1, <3>3
  <2>4. pl2 \in Int
    <3>1. Place(u.of)' \in Int
      BY ONLY <2>3, HolderTypeOK', LinksOfTypeNext
    <3>. QED  BY ONLY <3>1, <1>1
  <2>. QED  BY ONLY <2>1, <2>2, <2>4
<1>7. Untouched(u, n2, n, b2, b, rs2, rs, li2, li, pl2, pl, er2, er)
  BY ONLY <1>4, <1>5, <1>6 DEF Untouched
<1>8. UseFits(u, n2, b2, rs2, li2, pl2, er2)
  BY ONLY <1>2, <1>3, <1>7, UseFitsStill
<1>. QED  BY ONLY <1>1, <1>8

\* The links fit, those that were there and a new one.
LEMMA LinksStay ==
    ASSUME HolderTypeOK, HolderTypeOK', UsesFit, LinksFit, Extends, LinksGrow
    PROVE  LinksFit'
<1>1. \A l \in DOMAIN holderEntries : \A i \in DOMAIN Holder!LinksOf(l) :
         \E u \in uses : u.of = l /\ LinkFits(Holder!LinksOf(l)[i], u, data, relocations)
  BY ONLY LinksFit DEF LinksFit
<1>2. \A l \in DOMAIN holderEntries : \A i, j \in DOMAIN Holder!LinksOf(l) :
         Holder!LinksOf(l)[i].offset = Holder!LinksOf(l)[j].offset => i = j
  BY ONLY LinksFit DEF LinksFit
<1>3. ASSUME NEW l \in DOMAIN holderEntries, NEW i \in DOMAIN Holder!LinksOf(l)
      PROVE  \E u \in uses : /\ u \in uses' /\ u.of = l /\ Holder!LinksOf(l)[i].offset = u.at
                             /\ LinkFits(Holder!LinksOf(l)[i], u, data', relocations')
  <2>1. PICK link : link = Holder!LinksOf(l)[i]
    OBVIOUS
  <2>2. PICK u \in uses : u.of = l /\ LinkFits(link, u, data, relocations)
    BY ONLY <1>1, <2>1, l \in DOMAIN holderEntries, i \in DOMAIN Holder!LinksOf(l)
  <2>3. u \in HolderUse /\ u.size >= 1
    BY UseOfType
  <2>4. u \in uses' /\ SameBytes(data', data, u) /\ SameRelocs(relocations', relocations, u)
    BY ONLY Extends, u \in uses DEF Extends
  <2>5. PICK b, b2, rs, rs2 : b = data /\ b2 = data' /\ rs = relocations /\ rs2 = relocations'
    OBVIOUS
  <2>6. LinkFits(link, u, b2, rs2)
    BY ONLY <2>2, <2>3, <2>4, <2>5, LinkFitsStill
  <2>7. link.offset = u.at
    BY ONLY <2>2 DEF LinkFits
  <2>. QED  BY ONLY <2>1, <2>2, <2>4, <2>5, <2>6, <2>7
<1>4. ASSUME NEW l \in DOMAIN holderEntries'
      PROVE  /\ \A i \in DOMAIN Holder!LinksOf(l)' :
                   \E u \in uses' : u.of = l /\ LinkFits(Holder!LinksOf(l)'[i], u, data', relocations')
             /\ \A i, j \in DOMAIN Holder!LinksOf(l)' :
                   Holder!LinksOf(l)'[i].offset = Holder!LinksOf(l)'[j].offset => i = j
  <2>1. CASE Holder!LinksOf(l)' = << >>
    <3>1. DOMAIN Holder!LinksOf(l)' = {}
      BY <2>1
    <3>. QED  BY ONLY <3>1
  <2>2. CASE l \in DOMAIN holderEntries /\ Holder!LinksOf(l)' = Holder!LinksOf(l)
    <3>1. \A i \in DOMAIN Holder!LinksOf(l) :
             \E u \in uses' : u.of = l /\ LinkFits(Holder!LinksOf(l)[i], u, data', relocations')
      BY ONLY <1>3, <2>2
    <3>2. \A i, j \in DOMAIN Holder!LinksOf(l) :
             Holder!LinksOf(l)[i].offset = Holder!LinksOf(l)[j].offset => i = j
      BY ONLY <1>2, <2>2
    <3>. QED  BY ONLY <3>1, <3>2, <2>2
  <2>3. ASSUME l \in DOMAIN holderEntries, NEW link \in HolderLink, NEW w \in uses',
               Holder!LinksOf(l)' = <<link>> \o Holder!LinksOf(l),
               w.of = l, LinkFits(link, w, data', relocations'), \A v \in uses : v.at # w.at
        PROVE  /\ \A i \in DOMAIN Holder!LinksOf(l)' :
                     \E u \in uses' : u.of = l /\ LinkFits(Holder!LinksOf(l)'[i], u, data', relocations')
               /\ \A i, j \in DOMAIN Holder!LinksOf(l)' :
                     Holder!LinksOf(l)'[i].offset = Holder!LinksOf(l)'[j].offset => i = j
    <3>1. PICK s, t : s = Holder!LinksOf(l) /\ t = Holder!LinksOf(l)'
      OBVIOUS
    <3>2. s \in Seq(HolderLink)
      BY ONLY <3>1, <2>3, HolderTypeOK, LinksOfType
    <3>3. PICK n \in Nat : n = Len(s)
      BY ONLY <3>2
    <3>4. /\ t \in Seq(HolderLink) /\ Len(t) = n + 1 /\ t[1] = link
          /\ \A i \in 1..n : t[i + 1] = s[i]
      BY ONLY <3>1, <3>2, <3>3, <2>3, LinkInFront
    <3>5. DOMAIN t = 1..n + 1 /\ DOMAIN s = 1..n
      BY ONLY <3>2, <3>3, <3>4
    <3>6. \A i \in 1..n + 1 : i = 1 \/ (i - 1 \in 1..n /\ t[i] = s[i - 1])
      <4>1. ASSUME NEW i \in 1..n + 1, i # 1
            PROVE  i - 1 \in 1..n /\ t[i] = s[i - 1]
        <5>1. i - 1 \in 1..n /\ (i - 1) + 1 = i
          BY ONLY <4>1, n \in Nat, i \in 1..n + 1
        <5>. QED  BY ONLY <5>1, <3>4
      <4>. QED  BY ONLY <4>1
    <3>7. \A i \in 1..n : \E u \in uses : /\ u \in uses' /\ u.of = l /\ s[i].offset = u.at
                                          /\ LinkFits(s[i], u, data', relocations')
      BY ONLY <1>3, <2>3, <3>1, <3>5
    <3>8. \A i, j \in 1..n : s[i].offset = s[j].offset => i = j
      BY ONLY <1>2, <2>3, <3>1, <3>5
    <3>9. ASSUME NEW i \in 1..n + 1
          PROVE  \E u \in uses' : u.of = l /\ LinkFits(t[i], u, data', relocations')
      <4>1. CASE i = 1
        BY ONLY <4>1, <3>4, <2>3
      <4>2. CASE i # 1
        <5>1. i - 1 \in 1..n /\ t[i] = s[i - 1]
          BY ONLY <4>2, <3>6, i \in 1..n + 1
        <5>. QED  BY ONLY <5>1, <3>7
      <4>. QED  BY ONLY <4>1, <4>2
    <3>10. link.offset = w.at
      BY ONLY <2>3 DEF LinkFits
    <3>11. \A i \in 1..n : s[i].offset # link.offset
      BY ONLY <3>7, <3>10, <2>3
    <3>12. ASSUME NEW i \in 1..n + 1, NEW j \in 1..n + 1, t[i].offset = t[j].offset
           PROVE  i = j
      <4>1. i = 1 \/ (i - 1 \in 1..n /\ t[i] = s[i - 1] /\ t[i].offset # link.offset)
        BY ONLY <3>6, <3>11, i \in 1..n + 1
      <4>2. j = 1 \/ (j - 1 \in 1..n /\ t[j] = s[j - 1] /\ t[j].offset # link.offset)
        BY ONLY <3>6, <3>11, j \in 1..n + 1
      <4>3. i = 1 <=> j = 1
        BY ONLY <4>1, <4>2, <3>4, <3>12
      <4>4. i = 1 \/ i - 1 = j - 1
        BY ONLY <4>1, <4>2, <4>3, <3>8, <3>12
      <4>. QED  BY ONLY <4>3, <4>4, n \in Nat, i \in 1..n + 1, j \in 1..n + 1
    <3>. QED  BY ONLY <3>1, <3>5, <3>9, <3>12
  <2>4. \/ Holder!LinksOf(l)' = << >>
        \/ l \in DOMAIN holderEntries /\ Holder!LinksOf(l)' = Holder!LinksOf(l)
        \/ /\ l \in DOMAIN holderEntries
           /\ \E link \in HolderLink : \E u \in uses' :
                 /\ Holder!LinksOf(l)' = <<link>> \o Holder!LinksOf(l)
                 /\ u.of = l /\ LinkFits(link, u, data', relocations')
                 /\ \A v \in uses : v.at # u.at
    BY ONLY LinksGrow, l \in DOMAIN holderEntries' DEF LinksGrow
  <2>. QED  BY ONLY <2>1, <2>2, <2>3, <2>4
<1>5. \A l \in DOMAIN holderEntries' : holderEntries'[l].offset # -1 => holderEntries'[l].links = << >>
  BY ONLY LinksGrow DEF LinksGrow
<1>. QED  BY ONLY <1>4, <1>5 DEF LinksFit

\* What it adds to the uses.
UsesGrow ==
    /\ \A u \in uses' : u \in uses \/
          /\ UseFits(u, Len(holderEntries'), data', relocations', Holder!LinksOf(u.of)', Place(u.of)',
                     failed' \/ binding.err')
          /\ \A v \in uses' : u = v \/ (Apart(u, v) /\ Apart(v, u))

LEMMA UsesKept ==
    ASSUME HolderTypeOK, HolderTypeOK', UsesFit, UsesApart, Extends, UsesGrow
    PROVE  UsesFit' /\ UsesApart'
<1>1. ASSUME NEW u \in uses'
      PROVE  UseFits(u, Len(holderEntries'), data', relocations', Holder!LinksOf(u.of)', Place(u.of)',
                     failed' \/ binding.err')
  <2>1. CASE u \in uses
    BY ONLY <2>1, HolderTypeOK, HolderTypeOK', UsesFit, Extends, UsesStay
  <2>2. CASE u \notin uses
    BY ONLY <2>2, UsesGrow, u \in uses' DEF UsesGrow
  <2>. QED  BY ONLY <2>1, <2>2
<1>2. UsesFit'
  BY ONLY <1>1 DEF UsesFit
<1>3. ASSUME NEW u \in uses', NEW v \in uses', u # v
      PROVE  Apart(u, v)
  <2>1. CASE u \in uses /\ v \in uses
    BY ONLY <2>1, <1>3, UsesApart DEF UsesApart
  <2>2. CASE u \notin uses
    BY ONLY <2>2, <1>3, UsesGrow, u \in uses', v \in uses' DEF UsesGrow
  <2>3. CASE v \notin uses
    BY ONLY <2>3, <1>3, UsesGrow, u \in uses', v \in uses' DEF UsesGrow
  <2>. QED  BY ONLY <2>1, <2>2, <2>3
<1>4. UsesApart'
  BY ONLY <1>3 DEF UsesApart
<1>. QED  BY ONLY <1>2, <1>4

-----------------------------------------------------------------------------
(* CodeHolder: what is not resolved is counted.                            *)

\* The module's Cardinality is that of FiniteSets.
LEMMA HolderCardinality == \A S : Holder!Cardinality(S) = Cardinality(S)
BY DEF Holder!Cardinality, Cardinality

LEMMA UnresolvedAre ==
    ASSUME NEW p
    PROVE  p \in Holder!Unresolved <=>
              \E l \in DOMAIN holderEntries : \E i \in DOMAIN Holder!LinksOf(l) : p = <<l, i>>
BY DEF Holder!Unresolved

LEMMA UnresolvedAreNext ==
    ASSUME NEW p
    PROVE  p \in Holder!Unresolved' <=>
              \E l \in DOMAIN holderEntries' : \E i \in DOMAIN Holder!LinksOf(l)' : p = <<l, i>>
BY DEF Holder!Unresolved

\* The links are as they were; labels that are new have none.
LinksSame ==
    /\ DOMAIN holderEntries \subseteq DOMAIN holderEntries'
    /\ \A l \in DOMAIN holderEntries : Holder!LinksOf(l)' = Holder!LinksOf(l)
    /\ \A l \in DOMAIN holderEntries' : l \in DOMAIN holderEntries \/ Holder!LinksOf(l)' = << >>

LEMMA CountedStays ==
    ASSUME Counted, LinksSame, unresolvedLabelsCount' = unresolvedLabelsCount
    PROVE  Counted'
<1>1. ASSUME NEW p, p \in Holder!Unresolved PROVE p \in Holder!Unresolved'
  <2>1. PICK l \in DOMAIN holderEntries : \E i \in DOMAIN Holder!LinksOf(l) : p = <<l, i>>
    BY ONLY <1>1, UnresolvedAre
  <2>2. l \in DOMAIN holderEntries' /\ Holder!LinksOf(l)' = Holder!LinksOf(l)
    BY ONLY LinksSame, l \in DOMAIN holderEntries DEF LinksSame
  <2>3. \E i \in DOMAIN Holder!LinksOf(l)' : p = <<l, i>>
    BY ONLY <2>1, <2>2
  <2>. QED  BY ONLY <2>2, <2>3, UnresolvedAreNext
<1>2. ASSUME NEW p, p \in Holder!Unresolved' PROVE p \in Holder!Unresolved
  <2>1. PICK l \in DOMAIN holderEntries' : \E i \in DOMAIN Holder!LinksOf(l)' : p = <<l, i>>
    BY ONLY <1>2, UnresolvedAreNext
  <2>2. Holder!LinksOf(l)' # << >>
    BY ONLY <2>1
  <2>3. l \in DOMAIN holderEntries /\ Holder!LinksOf(l)' = Holder!LinksOf(l)
    BY ONLY LinksSame, <2>2, l \in DOMAIN holderEntries' DEF LinksSame
  <2>4. \E i \in DOMAIN Holder!LinksOf(l) : p = <<l, i>>
    BY ONLY <2>1, <2>3
  <2>. QED  BY ONLY <2>3, <2>4, UnresolvedAre
<1>3. Holder!Unresolved' = Holder!Unresolved
  BY ONLY <1>1, <1>2
<1>. QED  BY ONLY <1>3, Counted, unresolvedLabelsCount' = unresolvedLabelsCount DEF Counted

\* One link comes to those of label l0, or goes.
LEMMA CountedMore ==
    ASSUME HolderTypeOK, HolderTypeOK', Counted,
           DOMAIN holderEntries' = DOMAIN holderEntries, NEW l0 \in DOMAIN holderEntries,
           \A l \in DOMAIN holderEntries : l # l0 => Holder!LinksOf(l)' = Holder!LinksOf(l),
           Len(Holder!LinksOf(l0)') = Len(Holder!LinksOf(l0)) + 1,
           unresolvedLabelsCount' = unresolvedLabelsCount + 1
    PROVE  Counted'
<1>1. PICK n \in Nat : n = Len(Holder!LinksOf(l0)) /\ DOMAIN Holder!LinksOf(l0) = 1..n
  <2>1. Holder!LinksOf(l0) \in Seq(HolderLink)
    BY ONLY HolderTypeOK, LinksOfType, l0 \in DOMAIN holderEntries
  <2>. QED  BY ONLY <2>1
<1>2. DOMAIN Holder!LinksOf(l0)' = 1..n + 1
  <2>1. l0 \in DOMAIN holderEntries'
    BY DOMAIN holderEntries' = DOMAIN holderEntries
  <2>2. Holder!LinksOf(l0)' \in Seq(HolderLink)
    BY ONLY HolderTypeOK', LinksOfTypeNext, <2>1
  <2>. QED  BY ONLY <1>1, <2>2, Len(Holder!LinksOf(l0)') = Len(Holder!LinksOf(l0)) + 1
<1>3. PICK U, U2 : U = Holder!Unresolved /\ U2 = Holder!Unresolved'
  OBVIOUS
<1>4. \A p : p \in U <=> \E l \in DOMAIN holderEntries : \E i \in DOMAIN Holder!LinksOf(l) : p = <<l, i>>
  BY ONLY <1>3, UnresolvedAre
<1>5. \A p : p \in U2 <=> \E l \in DOMAIN holderEntries : \E i \in DOMAIN Holder!LinksOf(l)' : p = <<l, i>>
  BY ONLY <1>3, UnresolvedAreNext, DOMAIN holderEntries' = DOMAIN holderEntries
<1>6. \A i : i \in 1..n + 1 <=> i \in 1..n \/ i = n + 1
  BY n \in Nat
<1>7. ASSUME NEW p, p \in U2 PROVE p \in U \/ p = <<l0, n + 1>>
  <2>1. PICK l \in DOMAIN holderEntries : \E i \in DOMAIN Holder!LinksOf(l)' : p = <<l, i>>
    BY ONLY <1>5, <1>7
  <2>2. CASE l = l0
    BY ONLY <2>1, <2>2, <1>1, <1>2, <1>4, <1>6
  <2>3. CASE l # l0
    <3>1. Holder!LinksOf(l)' = Holder!LinksOf(l)
      BY ONLY <2>3, \A m \in DOMAIN holderEntries : m # l0 => Holder!LinksOf(m)' = Holder!LinksOf(m)
    <3>. QED  BY ONLY <2>1, <3>1, <1>4
  <2>. QED  BY ONLY <2>2, <2>3
<1>8. ASSUME NEW p, p \in U PROVE p \in U2
  <2>1. PICK l \in DOMAIN holderEntries : \E i \in DOMAIN Holder!LinksOf(l) : p = <<l, i>>
    BY ONLY <1>4, <1>8
  <2>2. CASE l = l0
    BY ONLY <2>1, <2>2, <1>1, <1>2, <1>5, <1>6
  <2>3. CASE l # l0
    <3>1. Holder!LinksOf(l)' = Holder!LinksOf(l)
      BY ONLY <2>3, \A m \in DOMAIN holderEntries : m # l0 => Holder!LinksOf(m)' = Holder!LinksOf(m)
    <3>. QED  BY ONLY <2>1, <3>1, <1>5
  <2>. QED  BY ONLY <2>2, <2>3
<1>9. <<l0, n + 1>> \in U2
  <2>1. n + 1 \in 1..n + 1
    BY n \in Nat
  <2>. QED  BY ONLY <2>1, <1>2, <1>5, l0 \in DOMAIN holderEntries
<1>10. <<l0, n + 1>> \notin U
  <2>1. ASSUME <<l0, n + 1>> \in U PROVE FALSE
    <3>1. PICK l \in DOMAIN holderEntries : \E i \in DOMAIN Holder!LinksOf(l) : <<l0, n + 1>> = <<l, i>>
      BY ONLY <1>4, <2>1
    <3>2. n + 1 \in 1..n
      BY ONLY <3>1, <1>1
    <3>. QED  BY ONLY <3>2, n \in Nat
  <2>. QED  BY ONLY <2>1
<1>11. U2 = U \cup {<<l0, n + 1>>}
  BY ONLY <1>7, <1>8, <1>9
<1>12. IsFiniteSet(U) /\ unresolvedLabelsCount = Cardinality(U)
  BY ONLY <1>3, Counted DEF Counted
<1>13. IsFiniteSet(U2) /\ Cardinality(U2) = Cardinality(U) + 1
  BY ONLY <1>10, <1>11, <1>12, FS_AddElement
<1>. QED  BY ONLY <1>3, <1>12, <1>13, unresolvedLabelsCount' = unresolvedLabelsCount + 1 DEF Counted

LEMMA CountedLess ==
    ASSUME HolderTypeOK, HolderTypeOK', Counted,
           DOMAIN holderEntries' = DOMAIN holderEntries, NEW l0 \in DOMAIN holderEntries,
           \A l \in DOMAIN holderEntries : l # l0 => Holder!LinksOf(l)' = Holder!LinksOf(l),
           Len(Holder!LinksOf(l0)) = Len(Holder!LinksOf(l0)') + 1,
           unresolvedLabelsCount' = unresolvedLabelsCount - 1
    PROVE  Counted'
<1>1. PICK n \in Nat : n = Len(Holder!LinksOf(l0)') /\ DOMAIN Holder!LinksOf(l0)' = 1..n
  <2>1. l0 \in DOMAIN holderEntries'
    BY DOMAIN holderEntries' = DOMAIN holderEntries
  <2>2. Holder!LinksOf(l0)' \in Seq(HolderLink)
    BY ONLY HolderTypeOK', LinksOfTypeNext, <2>1
  <2>. QED  BY ONLY <2>2
<1>2. DOMAIN Holder!LinksOf(l0) = 1..n + 1
  <2>1. Holder!LinksOf(l0) \in Seq(HolderLink)
    BY ONLY HolderTypeOK, LinksOfType, l0 \in DOMAIN holderEntries
  <2>. QED  BY ONLY <1>1, <2>1, Len(Holder!LinksOf(l0)) = Len(Holder!LinksOf(l0)') + 1
<1>3. PICK U, U2 : U = Holder!Unresolved /\ U2 = Holder!Unresolved'
  OBVIOUS
<1>4. \A p : p \in U <=> \E l \in DOMAIN holderEntries : \E i \in DOMAIN Holder!LinksOf(l) : p = <<l, i>>
  BY ONLY <1>3, UnresolvedAre
<1>5. \A p : p \in U2 <=> \E l \in DOMAIN holderEntries : \E i \in DOMAIN Holder!LinksOf(l)' : p = <<l, i>>
  BY ONLY <1>3, UnresolvedAreNext, DOMAIN holderEntries' = DOMAIN holderEntries
<1>6. \A i : i \in 1..n + 1 <=> i \in 1..n \/ i = n + 1
  BY n \in Nat
<1>7. ASSUME NEW p, p \in U PROVE p \in U2 \/ p = <<l0, n + 1>>
  <2>1. PICK l \in DOMAIN holderEntries : \E i \in DOMAIN Holder!LinksOf(l) : p = <<l, i>>
    BY ONLY <1>4, <1>7
  <2>2. CASE l = l0
    BY ONLY <2>1, <2>2, <1>1, <1>2, <1>5, <1>6
  <2>3. CASE l # l0
    <3>1. Holder!LinksOf(l)' = Holder!LinksOf(l)
      BY ONLY <2>3, \A m \in DOMAIN holderEntries : m # l0 => Holder!LinksOf(m)' = Holder!LinksOf(m)
    <3>. QED  BY ONLY <2>1, <3>1, <1>5
  <2>. QED  BY ONLY <2>2, <2>3
<1>8. ASSUME NEW p, p \in U2 PROVE p \in U /\ p # <<l0, n + 1>>
  <2>1. PICK l \in DOMAIN holderEntries : \E i \in DOMAIN Holder!LinksOf(l)' : p = <<l, i>>
    BY ONLY <1>5, <1>8
  <2>2. CASE l = l0
    <3>1. PICK i \in 1..n : p = <<l0, i>>
      BY ONLY <2>1, <2>2, <1>1
    <3>2. i # n + 1
      BY ONLY n \in Nat, i \in 1..n
    <3>. QED  BY ONLY <3>1, <3>2, <1>2, <1>4, <1>6, l0 \in DOMAIN holderEntries
  <2>3. CASE l # l0
    <3>1. Holder!LinksOf(l)' = Holder!LinksOf(l)
      BY ONLY <2>3, \A m \in DOMAIN holderEntries : m # l0 => Holder!LinksOf(m)' = Holder!LinksOf(m)
    <3>. QED  BY ONLY <2>1, <2>3, <3>1, <1>4
  <2>. QED  BY ONLY <2>2, <2>3
<1>9. <<l0, n + 1>> \in U
  <2>1. n + 1 \in 1..n + 1
    BY n \in Nat
  <2>. QED  BY ONLY <2>1, <1>2, <1>4, l0 \in DOMAIN holderEntries
<1>11. U2 = U \ {<<l0, n + 1>>}
  BY ONLY <1>7, <1>8
<1>12. IsFiniteSet(U) /\ unresolvedLabelsCount = Cardinality(U)
  BY ONLY <1>3, Counted DEF Counted
<1>13. IsFiniteSet(U2) /\ Cardinality(U2) = Cardinality(U) - 1
  BY ONLY <1>9, <1>11, <1>12, FS_RemoveElement
<1>. QED  BY ONLY <1>3, <1>12, <1>13, unresolvedLabelsCount' = unresolvedLabelsCount - 1 DEF Counted

-----------------------------------------------------------------------------
(* CodeHolder: the steps outside of the loop that copies.                  *)

RelocsGrow ==
    \A r \in DOMAIN relocations' :
        \/ r \in DOMAIN relocations /\ relocations'[r] = relocations[r]
        \/ \E u \in uses' : RelocOf(relocations'[r], u)

Grows == Extends /\ UsesGrow /\ LinksGrow /\ RelocsGrow

LEMMA GrowsKeeps ==
    ASSUME HolderInv, Grows, HolderTypeOK', BufferInOrder', Counted', TrampolinesFit', copy'.base = 0
    PROVE  HolderInv'
<1>1. HolderTypeOK /\ UsesApart /\ UsesFit /\ RelocsFit /\ LinksFit
  BY DEF HolderInv
<1>2. Extends /\ UsesGrow /\ LinksGrow /\ RelocsGrow
  BY DEF Grows
<1>3. UsesFit' /\ UsesApart'
  BY ONLY <1>1, <1>2, HolderTypeOK', UsesKept
<1>4. LinksFit'
  BY ONLY <1>1, <1>2, HolderTypeOK', LinksStay
<1>5. RelocsFit'
  <2>1. uses \subseteq uses'
    BY ONLY <1>2 DEF Extends
  <2>2. ASSUME NEW r \in DOMAIN relocations'
        PROVE  \E u \in uses' : RelocOf(relocations'[r], u)
    <3>1. CASE r \in DOMAIN relocations /\ relocations'[r] = relocations[r]
      <4>1. \E u \in uses : RelocOf(relocations[r], u)
        BY ONLY <3>1, <1>1 DEF RelocsFit
      <4>. QED  BY ONLY <4>1, <3>1, <2>1
    <3>2. CASE \E u \in uses' : RelocOf(relocations'[r], u)
      BY ONLY <3>2
    <3>. QED  BY ONLY <3>1, <3>2, <1>2, r \in DOMAIN relocations' DEF RelocsGrow
  <2>. QED  BY ONLY <2>2 DEF RelocsFit
<1>6. (copy.base # 0 => CopyFits)'
  BY copy'.base = 0
<1>. QED  BY ONLY <1>3, <1>4, <1>5, <1>6, HolderTypeOK', BufferInOrder', Counted', TrampolinesFit'
          DEF HolderInv

\* The relocations are as they were.
LEMMA RelocsUnchanged == ASSUME NEW u PROVE SameRelocs(relocations, relocations, u)
BY DEF SameRelocs

\* A step that uses no label and no address.
Quiet ==
    /\ UNCHANGED <<trampolinesSize, relocations, unresolvedLabelsCount, copy, uses>>
    /\ copy.base = 0 /\ LinksSame
    /\ \A u \in uses : SameBytes(data', data, u)
    /\ \A l \in DOMAIN holderEntries : Place(l)' = Place(l) \/ Place(l) = -1
    /\ failed \/ binding.err => failed' \/ binding.err'
    /\ \A l \in DOMAIN holderEntries' : holderEntries'[l].offset # -1 => holderEntries'[l].links = << >>

\* Such a step keeps what the uses have.
LEMMA QuietKeeps ==
    ASSUME HolderInv, Quiet, HolderTypeOK', BufferInOrder'
    PROVE  HolderInv'
<1>1. HolderTypeOK /\ UsesFit /\ Counted /\ TrampolinesFit
  BY DEF HolderInv
<1>2. /\ trampolinesSize' = trampolinesSize /\ relocations' = relocations
      /\ unresolvedLabelsCount' = unresolvedLabelsCount /\ copy' = copy /\ uses' = uses
      /\ copy.base = 0 /\ LinksSame
      /\ \A u \in uses : SameBytes(data', data, u)
      /\ \A l \in DOMAIN holderEntries : Place(l)' = Place(l) \/ Place(l) = -1
      /\ failed \/ binding.err => failed' \/ binding.err'
      /\ \A l \in DOMAIN holderEntries' : holderEntries'[l].offset # -1 => holderEntries'[l].links = << >>
  BY DEF Quiet
<1>3. /\ DOMAIN holderEntries \subseteq DOMAIN holderEntries'
      /\ \A l \in DOMAIN holderEntries : Holder!LinksOf(l)' = Holder!LinksOf(l)
      /\ \A l \in DOMAIN holderEntries' : l \in DOMAIN holderEntries \/ Holder!LinksOf(l)' = << >>
  BY ONLY <1>2 DEF LinksSame
<1>4. Len(holderEntries) <= Len(holderEntries')
  <2>1. PICK n, n2 \in Nat : /\ n = Len(holderEntries) /\ n2 = Len(holderEntries')
                             /\ DOMAIN holderEntries = 1..n /\ DOMAIN holderEntries' = 1..n2
    <3>1. holderEntries \in Seq(HolderEntry)
      BY ONLY <1>1 DEF HolderTypeOK
    <3>2. holderEntries' \in Seq(HolderEntry)
      BY ONLY HolderTypeOK' DEF HolderTypeOK
    <3>. QED  BY ONLY <3>1, <3>2
  <2>2. 1..n \subseteq 1..n2
    BY ONLY <1>3, <2>1
  <2>3. n = 0 \/ n \in 1..n2
    <3>1. n = 0 \/ n \in 1..n
      BY ONLY n \in Nat
    <3>. QED  BY ONLY <3>1, <2>2
  <2>. QED  BY ONLY <2>1, <2>3, n \in Nat, n2 \in Nat
<1>5. Extends
  <2>1. ASSUME NEW u \in uses
        PROVE  SameBytes(data', data, u) /\ SameRelocs(relocations', relocations, u)
    BY ONLY <1>2, u \in uses, RelocsUnchanged
  <2>2. ASSUME NEW u \in uses, u.kind # "call"
        PROVE  /\ SameLinks(Holder!LinksOf(u.of)', Holder!LinksOf(u.of), u)
               /\ Place(u.of)' = Place(u.of) \/ Place(u.of) = -1
    <3>1. u.of \in DOMAIN holderEntries
      BY ONLY <2>2, <1>1, UseOfType
    <3>2. Holder!LinksOf(u.of)' = Holder!LinksOf(u.of)
      BY ONLY <3>1, <1>3
    <3>3. SameLinks(Holder!LinksOf(u.of)', Holder!LinksOf(u.of), u)
      BY ONLY <3>2 DEF SameLinks
    <3>. QED  BY ONLY <3>1, <3>3, <1>2
  <2>3. uses \subseteq uses'
    BY ONLY <1>2
  <2>. QED  BY ONLY <1>2, <1>4, <2>1, <2>2, <2>3 DEF Extends
<1>6. UsesGrow
  BY ONLY <1>2 DEF UsesGrow
<1>7. LinksGrow
  BY ONLY <1>2, <1>3 DEF LinksGrow
<1>8. RelocsGrow
  BY ONLY <1>2 DEF RelocsGrow
<1>9. Counted'
  BY ONLY <1>1, <1>2, CountedStays
<1>10. TrampolinesFit'
  BY ONLY <1>1, <1>2 DEF TrampolinesFit, Trampolines
<1>11. Grows
  BY ONLY <1>5, <1>6, <1>7, <1>8 DEF Grows
<1>12. copy'.base = 0
  BY ONLY <1>2
<1>. QED  BY ONLY <1>9, <1>10, <1>11, <1>12, HolderInv, HolderTypeOK', BufferInOrder', GrowsKeeps

-----------------------------------------------------------------------------
(* CodeHolder: its steps, one by one.                                      *)

\* What HolderTypeOK says, one by one.
LEMMA HolderTypes ==
    ASSUME HolderTypeOK
    PROVE  /\ data \in Seq(Byte) /\ Len(data) \in Nat /\ length \in Nat /\ trampolinesSize \in Nat
           /\ holderEntries \in Seq(HolderEntry) /\ Len(holderEntries) \in Nat
           /\ DOMAIN holderEntries = 1..Len(holderEntries)
           /\ relocations \in Seq(HolderReloc) /\ Len(relocations) \in Nat
           /\ DOMAIN relocations = 1..Len(relocations)
           /\ unresolvedLabelsCount \in Int /\ bufferPtr \in Nat
           /\ attached \in BOOLEAN /\ lastError \in BOOLEAN /\ failed \in BOOLEAN
           /\ binding.label \in Nat /\ binding.links \in Seq(HolderLink)
           /\ binding.err \in BOOLEAN /\ binding.follows \in Nat
           /\ copy.base \in Nat /\ copy.next \in Nat /\ copy.bytes \in Seq(Byte)
           /\ copy.trampOffset \in Nat
<1>1. data \in Seq(Byte) /\ holderEntries \in Seq(HolderEntry) /\ relocations \in Seq(HolderReloc)
  BY DEF HolderTypeOK
<1>. QED  BY <1>1 DEF HolderTypeOK

LEMMA SyncedIs ==
    ASSUME NEW m \in Nat, NEW n \in Nat
    PROVE  /\ Holder!Larger(m, n) \in Nat /\ m <= Holder!Larger(m, n) /\ n <= Holder!Larger(m, n)
           /\ Holder!Larger(m, n) = m \/ Holder!Larger(m, n) = n
BY DEF Holder!Larger

\* The cursor moves.
LEMMA CursorMoves ==
    ASSUME HolderInv, Holder!Idle, HolderTypeOK', Holder!Synced' = Holder!Synced,
           ~attached' => bufferPtr' = 0, failed => failed',
           UNCHANGED <<data, trampolinesSize, holderEntries, relocations, unresolvedLabelsCount,
                       binding, copy, uses>>
    PROVE  HolderInv'
<1>1. HolderTypeOK /\ BufferInOrder /\ LinksFit
  BY DEF HolderInv
<1>2. binding.label = 0 /\ copy.base = 0
  BY DEF Holder!Idle
<1>3. /\ data' = data /\ trampolinesSize' = trampolinesSize /\ holderEntries' = holderEntries
      /\ relocations' = relocations /\ unresolvedLabelsCount' = unresolvedLabelsCount
      /\ binding' = binding /\ copy' = copy /\ uses' = uses
  OBVIOUS
<1>4. BufferInOrder'
  <2>1. /\ Len(data) = Holder!Synced
        /\ binding.label = 0 => ~binding.err
        /\ binding.label \in 0..Len(holderEntries)
    BY ONLY <1>1 DEF BufferInOrder
  <2>. QED  BY ONLY <2>1, <1>2, <1>3, Holder!Synced' = Holder!Synced, ~attached' => bufferPtr' = 0
            DEF BufferInOrder
<1>5. Quiet
  <2>1. LinksSame
    BY ONLY <1>3 DEF LinksSame, Holder!LinksOf
  <2>2. ASSUME NEW u \in uses PROVE SameBytes(data', data, u)
    <3>1. Len(data) \in Nat
      BY ONLY <1>1, HolderTypes
    <3>. QED  BY ONLY <3>1, <1>3 DEF SameBytes
  <2>3. ASSUME NEW l \in DOMAIN holderEntries PROVE Place(l)' = Place(l)
    <3>1. l # 0
      <4>1. DOMAIN holderEntries = 1..Len(holderEntries)
        BY ONLY <1>1, HolderTypes
      <4>2. Len(holderEntries) \in Nat
        BY ONLY <1>1, HolderTypes
      <4>. QED  BY ONLY <4>1, <4>2, l \in DOMAIN holderEntries
    <3>. QED  BY ONLY <3>1, <1>2, <1>3 DEF Place
  <2>4. failed \/ binding.err => failed' \/ binding.err'
    BY ONLY <1>3, failed => failed'
  <2>5. \A l \in DOMAIN holderEntries : holderEntries[l].offset # -1 => holderEntries[l].links = << >>
    BY ONLY <1>1 DEF LinksFit
  <2>. QED  BY ONLY <2>1, <2>2, <2>3, <2>4, <2>5, <1>2, <1>3 DEF Quiet
<1>. QED  BY ONLY <1>4, <1>5, HolderInv, HolderTypeOK', QuietKeeps

LEMMA AttachStep ==
    ASSUME HolderInv, Holder!Attach
    PROVE  HolderInv'
<1>1. HolderTypeOK /\ BufferInOrder
  BY DEF HolderInv
<1>2. /\ Holder!Idle /\ ~attached
      /\ attached' = TRUE /\ bufferPtr' = length /\ lastError' = FALSE
      /\ data' = data /\ length' = length /\ trampolinesSize' = trampolinesSize
      /\ holderEntries' = holderEntries /\ relocations' = relocations
      /\ unresolvedLabelsCount' = unresolvedLabelsCount
      /\ binding' = binding /\ copy' = copy /\ uses' = uses /\ failed' = failed
  BY DEF Holder!Attach
<1>3. HolderTypeOK'
  BY ONLY <1>1, <1>2 DEF HolderTypeOK
<1>4. Holder!Synced' = Holder!Synced
  <2>1. bufferPtr = 0
    BY ONLY <1>1, <1>2 DEF BufferInOrder
  <2>2. length \in Nat
    BY ONLY <1>1, HolderTypes
  <2>. QED  BY ONLY <2>1, <2>2, <1>2 DEF Holder!Synced, Holder!Larger
<1>. QED  BY ONLY <1>2, <1>3, <1>4, HolderInv, CursorMoves

LEMMA DetachStep ==
    ASSUME HolderInv, Holder!Detach
    PROVE  HolderInv'
<1>1. HolderTypeOK /\ BufferInOrder
  BY DEF HolderInv
<1>2. /\ Holder!Idle /\ length' = Holder!Synced
      /\ attached' = FALSE /\ bufferPtr' = 0 /\ lastError' = FALSE
      /\ data' = data /\ trampolinesSize' = trampolinesSize
      /\ holderEntries' = holderEntries /\ relocations' = relocations
      /\ unresolvedLabelsCount' = unresolvedLabelsCount
      /\ binding' = binding /\ copy' = copy /\ uses' = uses /\ failed' = failed
  BY DEF Holder!Detach
<1>3. Holder!Synced \in Nat
  BY ONLY <1>1, HolderTypes, SyncedIs DEF Holder!Synced
<1>4. HolderTypeOK'
  BY ONLY <1>1, <1>2, <1>3 DEF HolderTypeOK
<1>5. Holder!Synced' = Holder!Synced
  BY ONLY <1>2, <1>3 DEF Holder!Synced, Holder!Larger
<1>. QED  BY ONLY <1>2, <1>4, <1>5, HolderInv, CursorMoves

LEMMA SetOffsetStep ==
    ASSUME HolderInv, NEW offset \in Offsets, Holder!SetOffset(offset)
    PROVE  HolderInv'
<1>1. HolderTypeOK /\ BufferInOrder
  BY DEF HolderInv
<1>2. /\ Holder!Idle /\ attached /\ attached' = attached
      /\ data' = data /\ trampolinesSize' = trampolinesSize
      /\ holderEntries' = holderEntries /\ relocations' = relocations
      /\ unresolvedLabelsCount' = unresolvedLabelsCount
      /\ binding' = binding /\ copy' = copy /\ uses' = uses
  BY DEF Holder!SetOffset, Holder!Ready
<1>3. \/ /\ length' = length /\ bufferPtr' = bufferPtr /\ lastError' \in BOOLEAN /\ failed' = TRUE
      \/ /\ offset <= Holder!Synced /\ length' = Holder!Synced /\ bufferPtr' = offset
         /\ lastError' = lastError /\ failed' = failed
  <2>1. Holder!Synced \in Nat
    BY ONLY <1>1, HolderTypes, SyncedIs DEF Holder!Synced
  <2>2. offset \in Nat
    BY HolderAssumption DEF Holder!HolderAssumption
  <2>. QED  BY <2>1, <2>2 DEF Holder!SetOffset, Holder!SetLastError
<1>4. Holder!Synced \in Nat
  BY ONLY <1>1, HolderTypes, SyncedIs DEF Holder!Synced
<1>5. offset \in Nat
  BY HolderAssumption DEF Holder!HolderAssumption
<1>6. HolderTypeOK'
  BY ONLY <1>1, <1>2, <1>3, <1>4, <1>5 DEF HolderTypeOK
<1>7. Holder!Synced' = Holder!Synced
  <2>1. CASE length' = length /\ bufferPtr' = bufferPtr
    BY ONLY <2>1 DEF Holder!Synced
  <2>2. CASE offset <= Holder!Synced /\ length' = Holder!Synced /\ bufferPtr' = offset
    BY ONLY <2>2, <1>4, <1>5 DEF Holder!Synced, Holder!Larger
  <2>. QED  BY ONLY <1>3, <2>1, <2>2
<1>8. (~attached' => bufferPtr' = 0) /\ (failed => failed')
  BY ONLY <1>2, <1>3
<1>. QED  BY ONLY <1>2, <1>6, <1>7, <1>8, HolderInv, CursorMoves

LEMMA NewLabelStep ==
    ASSUME HolderInv, Holder!NewLabel
    PROVE  HolderInv'
<1>1. HolderTypeOK /\ BufferInOrder /\ LinksFit
  BY DEF HolderInv
<1>2. PICK entry : entry = [offset |-> -1, links |-> << >>]
  OBVIOUS
<1>3. /\ Holder!Idle /\ attached
      /\ holderEntries' = Append(holderEntries, entry)
      /\ data' = data /\ length' = length /\ trampolinesSize' = trampolinesSize
      /\ relocations' = relocations /\ unresolvedLabelsCount' = unresolvedLabelsCount
      /\ attached' = attached /\ bufferPtr' = bufferPtr /\ lastError' = lastError
      /\ binding' = binding /\ copy' = copy /\ uses' = uses /\ failed' = failed
  BY <1>2 DEF Holder!NewLabel, Holder!Ready, Holder!assembler
<1>4. binding.label = 0 /\ copy.base = 0
  BY ONLY <1>3 DEF Holder!Idle
<1>5. PICK n \in Nat : n = Len(holderEntries) /\ DOMAIN holderEntries = 1..n
  BY ONLY <1>1, HolderTypes
<1>6. holderEntries \in Seq(HolderEntry)
  BY ONLY <1>1, HolderTypes
<1>7. entry \in HolderEntry
  BY ONLY <1>2 DEF HolderEntry
<1>8. /\ holderEntries' \in Seq(HolderEntry) /\ Len(holderEntries') = n + 1
      /\ DOMAIN holderEntries' = 1..n + 1
      /\ holderEntries'[n + 1] = entry /\ \A l \in 1..n : holderEntries'[l] = holderEntries[l]
  BY ONLY <1>3, <1>5, <1>6, <1>7
<1>9. HolderTypeOK'
  BY ONLY <1>1, <1>3, <1>8 DEF HolderTypeOK
<1>10. BufferInOrder'
  <2>1. /\ Len(data) = Holder!Synced
        /\ ~attached => bufferPtr = 0
        /\ binding.label = 0 => ~binding.err
    BY ONLY <1>1 DEF BufferInOrder
  <2>2. Holder!Synced' = Holder!Synced
    BY ONLY <1>3 DEF Holder!Synced
  <2>3. 0 \in 0..Len(holderEntries')
    BY ONLY <1>8, n \in Nat
  <2>. QED  BY ONLY <2>1, <2>2, <2>3, <1>3, <1>4 DEF BufferInOrder
<1>11. \A l \in 1..n : l # 0 /\ l \in 1..n + 1
  BY ONLY n \in Nat
<1>12. \A l \in 1..n + 1 : l \in 1..n \/ l = n + 1
  BY ONLY n \in Nat
<1>13. LinksSame
  <2>1. ASSUME NEW l \in 1..n PROVE Holder!LinksOf(l)' = Holder!LinksOf(l)
    BY ONLY <1>3, <1>4, <1>8, <1>11, l \in 1..n DEF Holder!LinksOf
  <2>2. Holder!LinksOf(n + 1)' = << >>
    <3>1. n + 1 # 0
      BY ONLY n \in Nat
    <3>. QED  BY ONLY <3>1, <1>2, <1>3, <1>4, <1>8 DEF Holder!LinksOf
  <2>3. DOMAIN holderEntries \subseteq DOMAIN holderEntries'
    BY ONLY <1>5, <1>8, <1>11
  <2>4. ASSUME NEW l \in DOMAIN holderEntries'
        PROVE  l \in DOMAIN holderEntries \/ Holder!LinksOf(l)' = << >>
    BY ONLY <2>2, <1>5, <1>8, <1>12, l \in DOMAIN holderEntries'
  <2>. QED  BY ONLY <2>1, <2>3, <2>4, <1>5 DEF LinksSame
<1>14. Quiet
  <2>1. ASSUME NEW u \in uses PROVE SameBytes(data', data, u)
    <3>1. Len(data) \in Nat
      BY ONLY <1>1, HolderTypes
    <3>. QED  BY ONLY <3>1, <1>3 DEF SameBytes
  <2>2. ASSUME NEW l \in DOMAIN holderEntries PROVE Place(l)' = Place(l)
    BY ONLY <1>3, <1>4, <1>5, <1>8, <1>11, l \in DOMAIN holderEntries DEF Place
  <2>3. \A l \in DOMAIN holderEntries' : holderEntries'[l].offset # -1 => holderEntries'[l].links = << >>
    <3>1. \A l \in DOMAIN holderEntries : holderEntries[l].offset # -1 => holderEntries[l].links = << >>
      BY ONLY <1>1 DEF LinksFit
    <3>2. entry.links = << >>
      BY <1>2
    <3>. QED  BY ONLY <3>1, <3>2, <1>5, <1>8, <1>12
  <2>. QED  BY ONLY <2>1, <2>2, <2>3, <1>3, <1>4, <1>13 DEF Quiet
<1>. QED  BY ONLY <1>9, <1>10, <1>14, HolderInv, QuietKeeps

-----------------------------------------------------------------------------
(* CodeHolder: bind.                                                       *)

\* What bind does as far as its loop, with what may have been written in front.
LEMMA BindThenStep ==
    ASSUME HolderInv, NEW l \in DOMAIN holderEntries, NEW follows \in Nat,
           Holder!Idle, attached, lastError' \in BOOLEAN \/ lastError' = lastError,
           Holder!BindThen(l, follows), data' \in Seq(Byte), bufferPtr' \in Nat,
           Len(data') = Holder!Synced', \A u \in uses : SameBytes(data', data, u),
           \/ follows = 0 \/ ~Holder!Bindable(l)
           \/ \A u \in uses : u.at + u.size <= bufferPtr' \/ bufferPtr' + follows <= u.at,
           UNCHANGED <<length, trampolinesSize, holderEntries, relocations, unresolvedLabelsCount,
                       attached, copy, uses>>
    PROVE  HolderInv'
<1>1. HolderTypeOK /\ BufferInOrder /\ LinksFit
  BY DEF HolderInv
<1>2. binding.label = 0 /\ copy.base = 0
  BY DEF Holder!Idle
<1>3. /\ length' = length /\ trampolinesSize' = trampolinesSize /\ holderEntries' = holderEntries
      /\ relocations' = relocations /\ unresolvedLabelsCount' = unresolvedLabelsCount
      /\ attached' = attached /\ copy' = copy /\ uses' = uses
  OBVIOUS
<1>4. \/ /\ holderEntries[l].offset = -1
         /\ binding' = [label |-> l, links |-> holderEntries[l].links, err |-> FALSE, follows |-> follows]
         /\ lastError' = lastError /\ failed' = failed
      \/ ~Holder!Bindable(l) /\ binding' = binding /\ lastError' \in BOOLEAN /\ failed' = TRUE
  BY DEF Holder!BindThen, Holder!Bindable, Holder!SetLastError
<1>5. PICK n \in Nat : n = Len(holderEntries) /\ DOMAIN holderEntries = 1..n
  BY ONLY <1>1, HolderTypes
<1>6. l \in Nat /\ l # 0 /\ l \in 1..n
  BY ONLY <1>5, l \in DOMAIN holderEntries
<1>7. \A m \in 1..n : m # 0
  BY ONLY n \in Nat
<1>8. holderEntries[l].links \in Seq(HolderLink)
  <2>1. l # binding.label
    BY ONLY <1>2, <1>6
  <2>2. Holder!LinksOf(l) \in Seq(HolderLink)
    BY ONLY <1>1, LinksOfType, l \in DOMAIN holderEntries
  <2>. QED  BY ONLY <2>1, <2>2 DEF Holder!LinksOf
<1>9. HolderTypeOK'
  <2>1. binding' \in [label : Nat, links : Seq(HolderLink), err : BOOLEAN, follows : Nat]
    <3>1. binding \in [label : Nat, links : Seq(HolderLink), err : BOOLEAN, follows : Nat]
      BY ONLY <1>1 DEF HolderTypeOK
    <3>2. PICK li : li = holderEntries[l].links
      OBVIOUS
    <3>3. [label |-> l, links |-> li, err |-> FALSE, follows |-> follows]
             \in [label : Nat, links : Seq(HolderLink), err : BOOLEAN, follows : Nat]
      BY ONLY <3>2, <1>6, <1>8, follows \in Nat
    <3>. QED  BY ONLY <3>1, <3>2, <3>3, <1>4
  <2>2. lastError' \in BOOLEAN /\ failed' \in BOOLEAN
    <3>1. lastError \in BOOLEAN /\ failed \in BOOLEAN
      BY ONLY <1>1, HolderTypes
    <3>. QED  BY ONLY <3>1, <1>4
  <2>. QED  BY ONLY <2>1, <2>2, <1>1, <1>3, data' \in Seq(Byte), bufferPtr' \in Nat DEF HolderTypeOK
<1>10. BufferInOrder'
  <2>1. ~binding.err
    BY ONLY <1>1, <1>2 DEF BufferInOrder
  <2>2. CASE /\ holderEntries[l].offset = -1
             /\ binding' = [label |-> l, links |-> holderEntries[l].links, err |-> FALSE, follows |-> follows]
    <3>1. binding'.label = l /\ binding'.err = FALSE /\ binding'.follows = follows
      BY ONLY <2>2
    <3>2. l \in 0..n
      BY ONLY <1>6, n \in Nat
    <3>3. Holder!Bindable(l)
      BY ONLY <2>2 DEF Holder!Bindable
    <3>4. follows = 0 \/ \A u \in uses : u.at + u.size <= bufferPtr' \/ bufferPtr' + follows <= u.at
      BY <3>3
    <3>. QED  BY ONLY <3>1, <3>2, <3>4, <2>2, <1>2, <1>3, <1>5, <1>6, attached,
                      Len(data') = Holder!Synced' DEF BufferInOrder
  <2>3. CASE binding' = binding
    <3>1. 0 \in 0..n
      BY ONLY n \in Nat
    <3>. QED  BY ONLY <3>1, <2>1, <2>3, <1>2, <1>3, <1>5, attached, Len(data') = Holder!Synced'
              DEF BufferInOrder
  <2>. QED  BY ONLY <2>2, <2>3, <1>4
<1>11. Quiet
  <2>1. ASSUME NEW m \in 1..n PROVE Holder!LinksOf(m)' = Holder!LinksOf(m)
    <3>1. Holder!LinksOf(m) = holderEntries[m].links
      BY ONLY <1>2, <1>7, m \in 1..n DEF Holder!LinksOf
    <3>2. CASE binding' = [label |-> l, links |-> holderEntries[l].links, err |-> FALSE, follows |-> follows]
      <4>1. binding'.label = l /\ binding'.links = holderEntries[l].links
        BY ONLY <3>2
      <4>. QED  BY ONLY <4>1, <3>1, <1>3 DEF Holder!LinksOf
    <3>3. CASE binding' = binding
      BY ONLY <3>3, <1>3 DEF Holder!LinksOf
    <3>. QED  BY ONLY <3>2, <3>3, <1>4
  <2>2. LinksSame
    BY ONLY <2>1, <1>3, <1>5 DEF LinksSame
  <2>3. ASSUME NEW m \in DOMAIN holderEntries PROVE Place(m)' = Place(m) \/ Place(m) = -1
    <3>1. Place(m) = holderEntries[m].offset
      BY ONLY <1>2, <1>5, <1>7, m \in DOMAIN holderEntries DEF Place
    <3>2. CASE /\ holderEntries[l].offset = -1
               /\ binding' = [label |-> l, links |-> holderEntries[l].links, err |-> FALSE, follows |-> follows]
      <4>1. binding'.label = l
        BY ONLY <3>2
      <4>2. m = l \/ Place(m)' = holderEntries[m].offset
        BY ONLY <4>1, <1>3 DEF Place
      <4>. QED  BY ONLY <4>2, <3>1, <3>2
    <3>3. CASE binding' = binding
      <4>1. m # 0
        BY ONLY <1>5, <1>7, m \in DOMAIN holderEntries
      <4>. QED  BY ONLY <4>1, <3>1, <3>3, <1>2, <1>3 DEF Place
    <3>. QED  BY ONLY <3>2, <3>3, <1>4
  <2>4. failed \/ binding.err => failed' \/ binding'.err
    <3>1. ~binding.err
      BY ONLY <1>1, <1>2 DEF BufferInOrder
    <3>. QED  BY ONLY <3>1, <1>4
  <2>5. \A m \in DOMAIN holderEntries : holderEntries[m].offset # -1 => holderEntries[m].links = << >>
    BY ONLY <1>1 DEF LinksFit
  <2>. QED  BY ONLY <2>2, <2>3, <2>4, <2>5, <1>2, <1>3, \A u \in uses : SameBytes(data', data, u) DEF Quiet
<1>. QED  BY ONLY <1>9, <1>10, <1>11, HolderInv, QuietKeeps

LEMMA BindStep ==
    ASSUME HolderInv, NEW l \in DOMAIN holderEntries, Holder!Bind(l)
    PROVE  HolderInv'
<1>1. HolderTypeOK /\ BufferInOrder
  BY DEF HolderInv
<1>2. /\ Holder!Idle /\ attached /\ Holder!BindThen(l, 0)
      /\ length' = length /\ trampolinesSize' = trampolinesSize /\ holderEntries' = holderEntries
      /\ relocations' = relocations /\ unresolvedLabelsCount' = unresolvedLabelsCount
      /\ attached' = attached /\ copy' = copy /\ uses' = uses
      /\ data' = data /\ bufferPtr' = bufferPtr
  BY DEF Holder!Bind, Holder!Ready
<1>3. data' \in Seq(Byte) /\ bufferPtr' \in Nat /\ Len(data) \in Nat
  BY ONLY <1>1, <1>2, HolderTypes
<1>4. Len(data') = Holder!Synced'
  <2>1. Len(data) = Holder!Synced
    BY ONLY <1>1 DEF BufferInOrder
  <2>2. Holder!Synced' = Holder!Synced
    BY ONLY <1>2 DEF Holder!Synced
  <2>. QED  BY ONLY <2>1, <2>2, <1>2
<1>5. \A u \in uses : SameBytes(data', data, u)
  BY ONLY <1>2, <1>3 DEF SameBytes
<1>6. lastError' \in BOOLEAN \/ lastError' = lastError
  BY ONLY <1>2 DEF Holder!BindThen, Holder!SetLastError
<1>. QED  BY ONLY <1>2, <1>3, <1>4, <1>5, <1>6, l \in DOMAIN holderEntries, HolderInv, 0 \in Nat, BindThenStep

\* New bytes at the cursor p, of a section whose length is m.
CursorWritten(w, b, m, p, new) ==
    /\ w \in Seq(Byte) /\ Len(b) \in Nat /\ Len(w) \in Nat
    /\ Len(w) = Holder!Larger(m, p + Len(new)) /\ Holds(w, p, new)
    /\ Len(b) <= Len(w)
    /\ \A u \in HolderUse :
          u.at + u.size <= Len(b) /\ (u.at + u.size <= p \/ p + Len(new) <= u.at \/ Len(new) = 0)
             => SameBytes(w, b, u)

LEMMA CursorWrites ==
    ASSUME NEW m \in Nat, NEW p \in Nat, NEW b \in Seq(Byte), Len(b) = Holder!Larger(m, p),
           NEW new \in Seq(Byte), NEW w, w = Holder!Write(b, p, new)
    PROVE  CursorWritten(w, b, m, p, new)
<1>1. PICK n \in Nat : n = Len(new)
  OBVIOUS
<1>2. PICK k \in Nat : k = Len(b)
  OBVIOUS
<1>3. PICK j \in Nat : j = Len(w)
  <2>1. p <= Len(b)
    BY SyncedIs
  <2>2. WrittenTo(w, b, p, new)
    BY <2>1, WriteWrites
  <2>3. w \in Seq(Byte)
    BY <2>2 DEF WrittenTo
  <2>. QED  BY <2>3
<1>4. p <= k
  BY ONLY <1>2, Len(b) = Holder!Larger(m, p), m \in Nat, p \in Nat, SyncedIs
<1>5. WrittenTo(w, b, p, new)
  BY ONLY <1>2, <1>4, b \in Seq(Byte), p \in Nat, new \in Seq(Byte), w = Holder!Write(b, p, new), WriteWrites
<1>6. /\ w \in Seq(Byte) /\ k <= j
      /\ p + n <= k => j = k
      /\ p + n > k => j = p + n
      /\ Holds(w, p, new)
      /\ \A i \in 1..k : i <= p \/ i > p + n => w[i] = b[i]
  BY ONLY <1>1, <1>2, <1>3, <1>5 DEF WrittenTo
<1>7. j = Holder!Larger(m, p + n)
  <2>1. k = Holder!Larger(m, p)
    BY <1>2
  <2>2. (p + n <= k => j = k) /\ (p + n > k => j = p + n)
    BY <1>6
  <2>. QED  BY ONLY <2>1, <2>2, m \in Nat, p \in Nat, n \in Nat DEF Holder!Larger
<1>8. ASSUME NEW u \in HolderUse, u.at + u.size <= k,
             u.at + u.size <= p \/ p + n <= u.at \/ n = 0
      PROVE  SameBytes(w, b, u)
  <2>1. u.at \in Nat /\ u.size \in Nat
    BY ONLY u \in HolderUse DEF HolderUse
  <2>2. ASSUME NEW i \in u.at + 1 .. u.at + u.size PROVE w[i] = b[i]
    <3>1. i \in 1..k /\ (i <= p \/ i > p + n)
      BY ONLY <2>1, <1>8, n \in Nat, p \in Nat, k \in Nat, i \in u.at + 1 .. u.at + u.size
    <3>. QED  BY ONLY <3>1, <1>6
  <2>. QED  BY ONLY <2>2, <1>2, <1>3, <1>6 DEF SameBytes
<1>. QED  BY ONLY <1>1, <1>2, <1>3, <1>6, <1>7, <1>8 DEF CursorWritten

\* The end of bind.
LEMMA BindEndStep ==
    ASSUME HolderInv, Holder!BindEnd
    PROVE  HolderInv'
<1>1. HolderTypeOK /\ BufferInOrder /\ LinksFit /\ UsesFit
  BY DEF HolderInv
<1>2. PICK l, entry, new, p, s : /\ l = binding.label /\ entry = [offset |-> p, links |-> << >>]
                                 /\ new = Holder!Bytes(9, s) /\ p = bufferPtr /\ s = binding.follows
  <2>1. PICK p, s : p = bufferPtr /\ s = binding.follows
    OBVIOUS
  <2>. QED  BY <2>1
<1>3. /\ l # 0 /\ binding.links = << >>
      /\ holderEntries' = [holderEntries EXCEPT ![l] = entry]
      /\ binding' = Holder!NoBinding
      /\ length' = length /\ trampolinesSize' = trampolinesSize /\ relocations' = relocations
      /\ unresolvedLabelsCount' = unresolvedLabelsCount /\ attached' = attached
      /\ copy' = copy /\ uses' = uses
  BY <1>2 DEF Holder!BindEnd
<1>4. \/ /\ binding.err /\ lastError' \in BOOLEAN /\ failed' = TRUE
         /\ data' = data /\ bufferPtr' = p
      \/ /\ ~binding.err /\ lastError' = lastError /\ failed' = failed
         /\ data' = Holder!Write(data, p, new) /\ bufferPtr' = p + s
  BY <1>2 DEF Holder!BindEnd, Holder!SetLastError
<1>5. PICK n \in Nat : n = Len(holderEntries) /\ DOMAIN holderEntries = 1..n
  BY ONLY <1>1, HolderTypes
<1>6. /\ Len(data) = Holder!Larger(length, p) /\ copy.base = 0 /\ l \in 1..n /\ attached
      /\ holderEntries[l].offset = -1
      /\ s = 0 \/ \A u \in uses : u.at + u.size <= p \/ p + s <= u.at
  <2>1. /\ Len(data) = Holder!Larger(length, p) /\ copy.base = 0 /\ l \in 0..n /\ attached
        /\ holderEntries[l].offset = -1
        /\ s = 0 \/ \A u \in uses : u.at + u.size <= p \/ p + s <= u.at
    BY ONLY <1>1, <1>2, <1>3, <1>5 DEF BufferInOrder, Holder!Synced
  <2>2. l \in 1..n
    BY ONLY <2>1, <1>3, n \in Nat
  <2>. QED  BY ONLY <2>1, <2>2
<1>7. data \in Seq(Byte) /\ Len(data) \in Nat /\ p \in Nat /\ s \in Nat /\ length \in Nat
  BY ONLY <1>1, <1>2, HolderTypes
<1>8. new \in Seq(Byte) /\ Len(new) = s
  BY ONLY <1>2, <1>7, 9 \in Int, BytesAre
<1>9. ASSUME NEW u \in uses PROVE u \in HolderUse /\ u.at + u.size <= Len(data)
  BY ONLY <1>1, u \in uses, UseOfType
<1>10. /\ data' \in Seq(Byte) /\ bufferPtr' \in Nat /\ Len(data') = Holder!Synced'
       /\ \A u \in uses : SameBytes(data', data, u)
  <2>1. CASE data' = data /\ bufferPtr' = p
    <3>1. \A u \in uses : SameBytes(data', data, u)
      BY ONLY <2>1, <1>7 DEF SameBytes
    <3>. QED  BY ONLY <3>1, <2>1, <1>3, <1>6, <1>7 DEF Holder!Synced
  <2>2. CASE data' = Holder!Write(data, p, new) /\ bufferPtr' = p + s
    <3>1. PICK m, b, w : m = length /\ b = data /\ w = Holder!Write(b, p, new)
      <4>1. PICK m, b : m = length /\ b = data
        OBVIOUS
      <4>. QED  BY <4>1
    <3>2. m \in Nat /\ b \in Seq(Byte) /\ Len(b) = Holder!Larger(m, p) /\ w = Holder!Write(b, p, new)
      BY ONLY <3>1, <1>6, <1>7
    <3>10. CursorWritten(w, b, m, p, new)
      BY ONLY <3>2, <1>7, <1>8, CursorWrites
    <3>3. /\ w \in Seq(Byte) /\ Len(w) = Holder!Larger(m, p + Len(new))
          /\ \A u \in HolderUse :
                 u.at + u.size <= Len(b) /\ (u.at + u.size <= p \/ p + Len(new) <= u.at \/ Len(new) = 0)
                    => SameBytes(w, b, u)
      BY ONLY <3>10 DEF CursorWritten
    <3>4. data' = w /\ bufferPtr' = p + s /\ p + s \in Nat
      BY ONLY <3>1, <2>2, <1>7
    <3>5. Len(data') = Holder!Synced'
      BY ONLY <3>1, <3>3, <3>4, <1>3, <1>8 DEF Holder!Synced
    <3>6. ASSUME NEW u \in uses PROVE SameBytes(data', data, u)
      <4>1. u.at + u.size <= p \/ p + s <= u.at \/ s = 0
        BY ONLY <1>6, u \in uses
      <4>. QED  BY ONLY <4>1, <3>1, <3>3, <3>4, <1>8, <1>9, u \in uses
    <3>. QED  BY ONLY <3>3, <3>4, <3>5, <3>6
  <2>. QED  BY ONLY <2>1, <2>2, <1>4
<1>11. /\ holderEntries' \in Seq(HolderEntry) /\ Len(holderEntries') = n /\ DOMAIN holderEntries' = 1..n
       /\ holderEntries'[l] = entry
       /\ \A m \in 1..n : m # l => holderEntries'[m] = holderEntries[m]
  <2>1. holderEntries \in Seq(HolderEntry)
    BY ONLY <1>1, HolderTypes
  <2>2. entry \in HolderEntry
    BY ONLY <1>2, <1>7 DEF HolderEntry
  <2>3. holderEntries' \in Seq(HolderEntry) /\ Len(holderEntries') = n
    BY ONLY <2>1, <2>2, <1>3, <1>5, <1>6, ExceptSeq
  <2>4. holderEntries'[l] = entry /\ \A m \in 1..n : m # l => holderEntries'[m] = holderEntries[m]
    BY ONLY <1>3, <1>5, <1>6
  <2>. QED  BY ONLY <2>3, <2>4, <1>3, <1>5
<1>12. binding'.label = 0 /\ binding'.err = FALSE /\ binding'.follows = 0 /\ binding'.links = << >>
  BY ONLY <1>3 DEF Holder!NoBinding
<1>13. HolderTypeOK'
  <2>1. binding' \in [label : Nat, links : Seq(HolderLink), err : BOOLEAN, follows : Nat]
    BY ONLY <1>3 DEF Holder!NoBinding
  <2>2. lastError' \in BOOLEAN /\ failed' \in BOOLEAN
    <3>1. lastError \in BOOLEAN /\ failed \in BOOLEAN
      BY ONLY <1>1, HolderTypes
    <3>. QED  BY ONLY <3>1, <1>4
  <2>. QED  BY ONLY <2>1, <2>2, <1>1, <1>3, <1>10, <1>11 DEF HolderTypeOK
<1>14. BufferInOrder'
  <2>1. 0 \in 0..n
    BY ONLY n \in Nat
  <2>. QED  BY ONLY <2>1, <1>3, <1>6, <1>10, <1>11, <1>12 DEF BufferInOrder
<1>15. Quiet
  <2>1. \A m \in 1..n : m # 0
    BY ONLY n \in Nat
  <2>2. ASSUME NEW m \in 1..n
        PROVE  /\ Holder!LinksOf(m)' = Holder!LinksOf(m)
               /\ Place(m)' = Place(m) \/ Place(m) = -1
    <3>1. Holder!LinksOf(m)' = holderEntries'[m].links /\ Place(m)' = holderEntries'[m].offset
      BY ONLY <2>1, <1>12, m \in 1..n DEF Holder!LinksOf, Place
    <3>2. CASE m = l
      <4>1. entry.links = << >> /\ entry.offset = p
        BY <1>2
      <4>. QED  BY ONLY <4>1, <3>1, <3>2, <1>2, <1>3, <1>11 DEF Holder!LinksOf, Place
    <3>3. CASE m # l
      <4>1. holderEntries'[m] = holderEntries[m]
        BY ONLY <3>3, <1>11, m \in 1..n
      <4>. QED  BY ONLY <4>1, <3>1, <3>3, <1>2 DEF Holder!LinksOf, Place
    <3>. QED  BY ONLY <3>2, <3>3
  <2>3. LinksSame
    BY ONLY <2>2, <1>5, <1>11 DEF LinksSame
  <2>4. \A m \in DOMAIN holderEntries' : holderEntries'[m].offset # -1 => holderEntries'[m].links = << >>
    <3>1. \A m \in DOMAIN holderEntries : holderEntries[m].offset # -1 => holderEntries[m].links = << >>
      BY ONLY <1>1 DEF LinksFit
    <3>2. entry.links = << >>
      BY <1>2
    <3>. QED  BY ONLY <3>1, <3>2, <1>5, <1>11
  <2>5. failed \/ binding.err => failed' \/ binding'.err
    BY ONLY <1>4
  <2>. QED  BY ONLY <2>2, <2>3, <2>4, <2>5, <1>3, <1>5, <1>6, <1>10 DEF Quiet
<1>. QED  BY ONLY <1>13, <1>14, <1>15, HolderInv, QuietKeeps

-----------------------------------------------------------------------------
(* CodeHolder: a pass of bind's loop.                                      *)

LEMMA LinksTail ==
    ASSUME NEW s \in Seq(HolderLink), s # << >>
    PROVE  \E n \in Nat : /\ DOMAIN s = 1..n + 1 /\ Len(s) = n + 1 /\ Head(s) = s[1]
                          /\ Tail(s) \in Seq(HolderLink) /\ DOMAIN Tail(s) = 1..n /\ Len(Tail(s)) = n
                          /\ \A i \in 1..n : i + 1 \in 1..n + 1 /\ Tail(s)[i] = s[i + 1]
<1>1. PICK t : t = Tail(s)
  OBVIOUS
<1>2. PICK n \in Nat : Len(s) = n + 1
  <2>1. Len(s) \in Nat /\ Len(s) # 0
    OBVIOUS
  <2>2. Len(s) - 1 \in Nat /\ Len(s) = (Len(s) - 1) + 1
    BY <2>1
  <2>. QED  BY <2>2
<1>3. t \in Seq(HolderLink) /\ Len(t) = n
  BY ONLY <1>1, <1>2, s \in Seq(HolderLink), s # << >>, n \in Nat, HeadTailProperties
<1>4. DOMAIN s = 1..n + 1 /\ DOMAIN t = 1..n /\ Head(s) = s[1]
  BY ONLY <1>2, <1>3, s \in Seq(HolderLink)
<1>5. \A i \in 1..n : i + 1 \in 1..n + 1
  BY ONLY n \in Nat
<1>6. \A i \in 1..n : t[i] = s[i + 1]
  BY ONLY <1>1, <1>2, <1>3, s \in Seq(HolderLink), s # << >>, n \in Nat, HeadTailProperties
<1>. QED  BY ONLY <1>1, <1>2, <1>3, <1>4, <1>5, <1>6

\* The links without the first.
LEMMA LinkedTail ==
    ASSUME NEW s \in Seq(HolderLink), s # << >>, NEW u,
           \A i, j \in DOMAIN s : s[i].offset = s[j].offset => i = j
    PROVE  /\ Linked(Tail(s), u) <=> (Linked(s, u) /\ Head(s).offset # u.at)
           /\ Head(s).offset = u.at => Linked(s, u)
<1>1. PICK t, link : t = Tail(s) /\ link = Head(s)
  OBVIOUS
<1>2. PICK n \in Nat : /\ DOMAIN s = 1..n + 1 /\ link = s[1] /\ DOMAIN t = 1..n
                       /\ \A i \in 1..n : i + 1 \in 1..n + 1 /\ t[i] = s[i + 1]
  BY ONLY <1>1, s \in Seq(HolderLink), s # << >>, LinksTail
<1>3. 1 \in 1..n + 1 /\ \A i \in 1..n : i + 1 # 1
  BY ONLY n \in Nat
<1>4. ASSUME Linked(t, u) PROVE Linked(s, u) /\ link.offset # u.at
  <2>1. PICK i \in 1..n : t[i].offset = u.at
    BY ONLY <1>2, <1>4 DEF Linked
  <2>2. i + 1 \in 1..n + 1 /\ s[i + 1].offset = u.at /\ i + 1 # 1
    BY ONLY <1>2, <1>3, <2>1, i \in 1..n
  <2>3. link.offset # u.at
    BY ONLY <2>2, <1>2, <1>3, \A k, j \in DOMAIN s : s[k].offset = s[j].offset => k = j
  <2>. QED  BY ONLY <2>2, <2>3, <1>2 DEF Linked
<1>5. ASSUME Linked(s, u), link.offset # u.at PROVE Linked(t, u)
  <2>1. PICK i \in 1..n + 1 : s[i].offset = u.at
    BY ONLY <1>2, <1>5 DEF Linked
  <2>2. i # 1
    BY ONLY <2>1, <1>2, <1>5
  <2>3. i - 1 \in 1..n /\ (i - 1) + 1 = i
    BY ONLY <2>2, n \in Nat, i \in 1..n + 1
  <2>4. t[i - 1].offset = u.at
    BY ONLY <2>1, <2>3, <1>2
  <2>. QED  BY ONLY <2>3, <2>4, <1>2 DEF Linked
<1>6. link.offset = u.at => Linked(s, u)
  BY ONLY <1>2, <1>3 DEF Linked
<1>. QED  BY ONLY <1>1, <1>4, <1>5, <1>6

\* A link of the label that is bound is resolved, that of use w.
Resolves(w) ==
    /\ copy.base = 0 /\ binding.label # 0 /\ binding.links # << >> /\ w \in uses
    /\ w.of = binding.label /\ LinkFits(Head(binding.links), w, data, relocations)
    /\ UNCHANGED <<length, trampolinesSize, holderEntries, attached, bufferPtr, lastError,
                   copy, uses, failed>>
    /\ binding'.label = binding.label /\ binding'.links = Tail(binding.links)
    /\ binding'.follows = binding.follows /\ binding'.err \in BOOLEAN /\ (binding.err => binding'.err)
    /\ unresolvedLabelsCount' = unresolvedLabelsCount - 1
    /\ Len(data') = Len(data)
    /\ \A u \in uses : u # w =>
          SameBytes(data', data, u) /\ SameRelocs(relocations', relocations, u)
    /\ DOMAIN relocations' = DOMAIN relocations
    /\ \A r \in DOMAIN relocations : /\ relocations'[r].type = relocations[r].type
                                     /\ \A u \in uses : RelocOf(relocations[r], u) => RelocOf(relocations'[r], u)
    /\ UseFits(w, Len(holderEntries), data', relocations', Tail(binding.links), bufferPtr,
               failed \/ binding'.err)

LEMMA ResolvesKeeps ==
    ASSUME HolderInv, HolderTypeOK', NEW w, Resolves(w)
    PROVE  HolderInv'
<1>1. /\ HolderTypeOK /\ BufferInOrder /\ UsesApart /\ UsesFit /\ RelocsFit /\ LinksFit /\ Counted
      /\ TrampolinesFit
  BY DEF HolderInv
<1>2. PICK l, s, t : l = binding.label /\ s = binding.links /\ t = Tail(s)
  <2>1. PICK s : s = binding.links
    OBVIOUS
  <2>. QED  BY <2>1
<1>3. /\ copy.base = 0 /\ l # 0 /\ s # << >> /\ w \in uses
      /\ w.of = l /\ LinkFits(Head(s), w, data, relocations)
      /\ length' = length /\ trampolinesSize' = trampolinesSize /\ holderEntries' = holderEntries
      /\ attached' = attached /\ bufferPtr' = bufferPtr /\ lastError' = lastError
      /\ copy' = copy /\ uses' = uses /\ failed' = failed
      /\ binding'.label = l /\ binding'.links = t /\ binding'.follows = binding.follows
      /\ (binding.err => binding'.err)
      /\ unresolvedLabelsCount' = unresolvedLabelsCount - 1
      /\ Len(data') = Len(data)
      /\ DOMAIN relocations' = DOMAIN relocations
      /\ UseFits(w, Len(holderEntries), data', relocations', t, bufferPtr, failed \/ binding'.err)
  BY ONLY <1>2, Resolves(w) DEF Resolves
<1>4. \A u \in uses : u # w => SameBytes(data', data, u) /\ SameRelocs(relocations', relocations, u)
  BY ONLY Resolves(w) DEF Resolves
<1>5. \A r \in DOMAIN relocations :
         /\ relocations'[r].type = relocations[r].type
         /\ \A u \in uses : RelocOf(relocations[r], u) => RelocOf(relocations'[r], u)
  BY ONLY Resolves(w) DEF Resolves
<1>6. PICK n \in Nat : n = Len(holderEntries) /\ DOMAIN holderEntries = 1..n
  BY ONLY <1>1, HolderTypes
<1>7. l \in 1..n
  <2>1. l \in 0..n
    BY ONLY <1>1, <1>2, <1>6 DEF BufferInOrder
  <2>. QED  BY ONLY <2>1, <1>3, n \in Nat
<1>8. Holder!LinksOf(l) = s /\ Holder!LinksOf(l)' = t
  BY ONLY <1>2, <1>3 DEF Holder!LinksOf
<1>9. \A m : m # l => Holder!LinksOf(m)' = Holder!LinksOf(m)
  BY ONLY <1>2, <1>3 DEF Holder!LinksOf
<1>10. \A m : Place(m)' = Place(m)
  BY ONLY <1>2, <1>3 DEF Place
<1>11. s \in Seq(HolderLink)
  BY ONLY <1>1, <1>2, HolderTypes
<1>12. \A i, j \in DOMAIN s : s[i].offset = s[j].offset => i = j
  <2>1. \A i, j \in DOMAIN Holder!LinksOf(l) : Holder!LinksOf(l)[i].offset = Holder!LinksOf(l)[j].offset => i = j
    BY ONLY <1>1, <1>6, <1>7 DEF LinksFit
  <2>. QED  BY ONLY <2>1, <1>8
<1>13. Head(s).offset = w.at
  BY ONLY <1>3 DEF LinkFits
<1>14. ASSUME NEW u \in uses, u # w PROVE u.at # w.at
  <2>1. Apart(u, w)
    BY ONLY <1>1, <1>3, <1>14 DEF UsesApart
  <2>2. u.at \in Nat /\ u.size \in Nat /\ u.size >= 1 /\ w.at \in Nat /\ w.size \in Nat /\ w.size >= 1
    BY ONLY <1>1, <1>3, u \in uses, UseOfType
  <2>. QED  BY ONLY <2>1, <2>2 DEF Apart
<1>15. BufferInOrder'
  <2>1. BufferInOrder
    BY <1>1
  <2>2. /\ Len(data) = Holder!Synced /\ attached /\ l \in 0..Len(holderEntries)
        /\ holderEntries[l].offset = -1
        /\ binding.follows = 0 \/ \A u \in uses : \/ u.at + u.size <= bufferPtr
                                                  \/ bufferPtr + binding.follows <= u.at
    BY ONLY <2>1, <1>2, <1>3 DEF BufferInOrder
  <2>3. Holder!Synced' = Holder!Synced
    BY ONLY <1>3 DEF Holder!Synced
  <2>. QED  BY ONLY <2>2, <2>3, <1>3 DEF BufferInOrder
<1>16. ASSUME NEW u \in uses
       PROVE  UseFits(u, Len(holderEntries'), data', relocations', Holder!LinksOf(u.of)', Place(u.of)',
                      failed' \/ binding'.err)
  <2>1. CASE u = w
    <3>1. Holder!LinksOf(u.of)' = t
      BY ONLY <2>1, <1>3, <1>8
    <3>2. Place(u.of)' = bufferPtr
      BY ONLY <2>1, <1>2, <1>3 DEF Place
    <3>. QED  BY ONLY <3>1, <3>2, <2>1, <1>3
  <2>2. CASE u # w
    <3>1. PICK b, b2, rs, rs2, li, li2, pl, er, er2 :
            /\ b = data /\ b2 = data' /\ rs = relocations /\ rs2 = relocations'
            /\ li = Holder!LinksOf(u.of) /\ li2 = Holder!LinksOf(u.of)'
            /\ pl = Place(u.of)
            /\ er = (failed \/ binding.err) /\ er2 = (failed' \/ binding'.err)
      OBVIOUS
    <3>2. UseFits(u, n, b, rs, li, pl, er)
      BY ONLY <3>1, <1>1, <1>6, u \in uses DEF UsesFit
    <3>3. u \in HolderUse /\ (u.kind # "call" => u.of \in DOMAIN holderEntries)
      BY ONLY <1>1, u \in uses, UseOfType
    <3>4. SameBytes(b2, b, u) /\ SameRelocs(rs2, rs, u) /\ (er => er2)
      BY ONLY <3>1, <2>2, <1>3, <1>4
    <3>5. SameLinks(li2, li, u)
      <4>1. CASE u.of # l
        <5>1. li2 = li
          BY ONLY <4>1, <3>1, <1>9
        <5>. QED  BY ONLY <5>1 DEF SameLinks
      <4>2. CASE u.of = l
        <5>1. li = s /\ li2 = Tail(s)
          BY ONLY <4>2, <3>1, <1>2, <1>8
        <5>2. Head(s).offset # u.at
          BY ONLY <1>13, <1>14, <2>2, u \in uses
        <5>3. Linked(Tail(s), u) <=> (Linked(s, u) /\ Head(s).offset # u.at)
          BY ONLY <1>3, <1>11, <1>12, LinkedTail
        <5>. QED  BY ONLY <5>1, <5>2, <5>3 DEF SameLinks
      <4>. QED  BY ONLY <4>1, <4>2
    <3>6. Len(b) \in Nat /\ Len(b2) \in Nat
      <4>1. Len(data) \in Nat
        BY ONLY <1>1, HolderTypes
      <4>. QED  BY ONLY <4>1, <3>1, <1>3
    <3>7. u.kind # "call" => pl \in Int
      BY ONLY <3>1, <3>3, <1>1, LinksOfType
    <3>8. Untouched(u, n, n, b2, b, rs2, rs, li2, li, pl, pl, er2, er)
      BY ONLY <3>4, <3>5, <3>6, <3>7, n \in Nat DEF Untouched
    <3>9. UseFits(u, n, b2, rs2, li2, pl, er2)
      BY ONLY <3>2, <3>3, <3>8, UseFitsStill
    <3>10. Place(u.of)' = pl
      BY ONLY <3>1, <1>10
    <3>. QED  BY ONLY <3>1, <3>9, <3>10, <1>3, <1>6
  <2>. QED  BY ONLY <2>1, <2>2
<1>17. UsesFit'
  BY ONLY <1>3, <1>16 DEF UsesFit
<1>18. UsesApart'
  BY ONLY <1>1, <1>3 DEF UsesApart
<1>19. RelocsFit'
  BY ONLY <1>1, <1>3, <1>5 DEF RelocsFit
<1>20. TrampolinesFit'
  <2>1. Trampolines(relocations', 1) = Trampolines(relocations, 1)
    BY ONLY <1>3, <1>5 DEF Trampolines
  <2>. QED  BY ONLY <2>1, <1>1, <1>3 DEF TrampolinesFit
<1>21. Counted'
  <2>1. Len(Holder!LinksOf(l)) = Len(Holder!LinksOf(l)') + 1
    BY ONLY <1>2, <1>3, <1>8, <1>11, LinksTail
  <2>2. \A m \in DOMAIN holderEntries : m # l => Holder!LinksOf(m)' = Holder!LinksOf(m)
    BY ONLY <1>9
  <2>3. DOMAIN holderEntries' = DOMAIN holderEntries /\ l \in DOMAIN holderEntries
    BY ONLY <1>3, <1>6, <1>7
  <2>. QED  BY ONLY <2>1, <2>2, <2>3, <1>1, <1>3, HolderTypeOK', CountedLess
<1>22. LinksFit'
  <2>1. \A m \in DOMAIN holderEntries : \A i \in DOMAIN Holder!LinksOf(m) :
           \E u \in uses : u.of = m /\ LinkFits(Holder!LinksOf(m)[i], u, data, relocations)
    BY ONLY <1>1 DEF LinksFit
  <2>2. ASSUME NEW u \in uses, u # w, NEW link, LinkFits(link, u, data, relocations)
        PROVE  LinkFits(link, u, data', relocations')
    <3>1. PICK b, b2, rs, rs2 : b = data /\ b2 = data' /\ rs = relocations /\ rs2 = relocations'
      OBVIOUS
    <3>2. SameBytes(b2, b, u) /\ SameRelocs(rs2, rs, u) /\ LinkFits(link, u, b, rs)
      BY ONLY <3>1, <2>2, <1>4, u \in uses
    <3>3. u \in HolderUse /\ u.size >= 1
      BY ONLY <1>1, u \in uses, UseOfType
    <3>4. LinkFits(link, u, b2, rs2)
      BY ONLY <3>2, <3>3, LinkFitsStill
    <3>. QED  BY ONLY <3>1, <3>4
  <2>3. ASSUME NEW m \in 1..n, m # l
        PROVE  /\ \A i \in DOMAIN Holder!LinksOf(m)' :
                     \E u \in uses : u.of = m /\ LinkFits(Holder!LinksOf(m)'[i], u, data', relocations')
               /\ \A i, j \in DOMAIN Holder!LinksOf(m)' :
                     Holder!LinksOf(m)'[i].offset = Holder!LinksOf(m)'[j].offset => i = j
    <3>1. PICK li : li = Holder!LinksOf(m) /\ li = Holder!LinksOf(m)'
      BY ONLY <2>3, <1>9
    <3>2. \A i \in DOMAIN li : \E u \in uses : u.of = m /\ LinkFits(li[i], u, data, relocations)
      BY ONLY <3>1, <2>1, <1>6, m \in 1..n
    <3>3. ASSUME NEW i \in DOMAIN li
          PROVE  \E u \in uses : u.of = m /\ LinkFits(li[i], u, data', relocations')
      <4>1. PICK u \in uses : u.of = m /\ LinkFits(li[i], u, data, relocations)
        BY ONLY <3>2, i \in DOMAIN li
      <4>2. u # w
        BY ONLY <4>1, <1>3, <2>3
      <4>. QED  BY ONLY <4>1, <4>2, <2>2, u \in uses
    <3>4. \A i, j \in DOMAIN Holder!LinksOf(m) : Holder!LinksOf(m)[i].offset = Holder!LinksOf(m)[j].offset => i = j
      BY ONLY <1>1, <1>6, m \in 1..n DEF LinksFit
    <3>. QED  BY ONLY <3>1, <3>3, <3>4
  <2>4. /\ \A i \in DOMAIN t : \E u \in uses : u.of = l /\ LinkFits(t[i], u, data', relocations')
        /\ \A i, j \in DOMAIN t : t[i].offset = t[j].offset => i = j
    <3>1. PICK k \in Nat : /\ DOMAIN s = 1..k + 1 /\ Head(s) = s[1] /\ DOMAIN t = 1..k
                           /\ \A i \in 1..k : i + 1 \in 1..k + 1 /\ t[i] = s[i + 1]
      BY ONLY <1>2, <1>3, <1>11, LinksTail
    <3>2. \A i \in 1..k + 1 : \E u \in uses : u.of = l /\ LinkFits(s[i], u, data, relocations)
      BY ONLY <3>1, <2>1, <1>6, <1>7, <1>8
    <3>3. ASSUME NEW i \in 1..k
          PROVE  \E u \in uses : u.of = l /\ LinkFits(t[i], u, data', relocations')
      <4>1. i + 1 \in 1..k + 1 /\ t[i] = s[i + 1]
        BY ONLY <3>1, i \in 1..k
      <4>2. PICK u \in uses : u.of = l /\ LinkFits(s[i + 1], u, data, relocations)
        BY ONLY <4>1, <3>2
      <4>3. s[i + 1].offset = u.at
        BY ONLY <4>2 DEF LinkFits
      <4>4. 1 \in 1..k + 1 /\ i + 1 # 1
        BY ONLY k \in Nat, i \in 1..k
      <4>5. s[i + 1].offset # s[1].offset
        BY ONLY <4>1, <4>4, <3>1, <1>12
      <4>6. u # w
        BY ONLY <4>3, <4>5, <3>1, <1>13
      <4>. QED  BY ONLY <4>1, <4>2, <4>6, <2>2, u \in uses
    <3>4. ASSUME NEW i \in 1..k, NEW j \in 1..k, t[i].offset = t[j].offset PROVE i = j
      <4>1. i + 1 = j + 1
        BY ONLY <3>1, <3>4, <1>12, i \in 1..k, j \in 1..k
      <4>. QED  BY ONLY <4>1, k \in Nat, i \in 1..k, j \in 1..k
    <3>. QED  BY ONLY <3>1, <3>3, <3>4
  <2>5. ASSUME NEW m \in 1..n
        PROVE  /\ \A i \in DOMAIN Holder!LinksOf(m)' :
                     \E u \in uses : u.of = m /\ LinkFits(Holder!LinksOf(m)'[i], u, data', relocations')
               /\ \A i, j \in DOMAIN Holder!LinksOf(m)' :
                     Holder!LinksOf(m)'[i].offset = Holder!LinksOf(m)'[j].offset => i = j
    <3>1. CASE m = l
      BY ONLY <3>1, <2>4, <1>8
    <3>2. CASE m # l
      BY ONLY <3>2, <2>3, m \in 1..n
    <3>. QED  BY ONLY <3>1, <3>2
  <2>6. \A m \in 1..n : holderEntries[m].offset # -1 => holderEntries[m].links = << >>
    BY ONLY <1>1, <1>6 DEF LinksFit
  <2>. QED  BY ONLY <2>5, <2>6, <1>3, <1>6 DEF LinksFit
<1>23. (copy.base # 0 => CopyFits)'
  BY ONLY <1>3
<1>. QED  BY ONLY <1>15, <1>17, <1>18, <1>19, <1>20, <1>21, <1>22, <1>23, HolderTypeOK' DEF HolderInv

\* The relocation of an address that is embedded gets its label's place.
LEMMA AddressResolved ==
    ASSUME NEW w \in HolderUse, NEW n, NEW b, NEW rs, NEW rs2, NEW s \in Seq(HolderLink), NEW p \in Nat,
           NEW er, NEW er2, NEW r0 \in DOMAIN rs,
           w.kind = "address", RelocOf(rs[r0], w), UseFits(w, n, b, rs, s, p, er), s # << >>,
           Head(s).offset = w.at, \A i, j \in DOMAIN s : s[i].offset = s[j].offset => i = j,
           DOMAIN rs2 = DOMAIN rs, \A r \in DOMAIN rs : r # r0 => rs2[r] = rs[r],
           rs2[r0].type = rs[r0].type, rs2[r0].source = rs[r0].source, rs2[r0].size = rs[r0].size,
           rs2[r0].data = rs[r0].data + p
    PROVE  UseFits(w, n, b, rs2, Tail(s), p, er2)
<1>1. PICK t : t = Tail(s)
  OBVIOUS
<1>2. Linked(s, w) /\ ~Linked(t, w)
  BY ONLY <1>1, s \in Seq(HolderLink), s # << >>, Head(s).offset = w.at,
          \A i, j \in DOMAIN s : s[i].offset = s[j].offset => i = j, LinkedTail
<1>3. w.size >= 1 /\ w.at + w.size <= Len(b) /\ AddressFits(w, n, rs, s, p)
  BY ONLY UseFits(w, n, b, rs, s, p, er), w.kind = "address" DEF UseFits
<1>4. w.size = gpSize /\ w.of \in 1..n /\ Served(rs, w)
  BY ONLY <1>3, Zenon DEF AddressFits
<1>5. \A r \in DOMAIN rs : RelocOf(rs[r], w) => rs[r].data = 0
  BY ONLY <1>2, <1>3, Zenon DEF AddressFits
<1>6. \A r \in DOMAIN rs : RelocOf(rs2[r], w) <=> RelocOf(rs[r], w)
  <2>1. ASSUME NEW r \in DOMAIN rs
        PROVE  /\ rs2[r].type = rs[r].type /\ rs2[r].source = rs[r].source /\ rs2[r].size = rs[r].size
    BY ONLY r \in DOMAIN rs, \A q \in DOMAIN rs : q # r0 => rs2[q] = rs[q],
           rs2[r0].type = rs[r0].type, rs2[r0].source = rs[r0].source, rs2[r0].size = rs[r0].size
  <2>2. w.kind # "call"
    BY w.kind = "address"
  <2>. QED  BY ONLY <2>1, <2>2 DEF RelocOf
<1>7. Served(rs2, w)
  BY ONLY <1>4, <1>6, DOMAIN rs2 = DOMAIN rs DEF Served
<1>8. ASSUME NEW r \in DOMAIN rs2, RelocOf(rs2[r], w)
      PROVE  rs2[r].data = p
  <2>1. r \in DOMAIN rs /\ RelocOf(rs[r], w)
    BY ONLY <1>6, <1>8, DOMAIN rs2 = DOMAIN rs
  <2>2. \A q, k \in DOMAIN rs : RelocOf(rs[q], w) /\ RelocOf(rs[k], w) => q = k
    BY ONLY <1>4 DEF Served
  <2>3. r = r0
    BY ONLY <2>1, <2>2, r0 \in DOMAIN rs, RelocOf(rs[r0], w)
  <2>4. rs[r0].data = 0
    BY ONLY <1>5, r0 \in DOMAIN rs, RelocOf(rs[r0], w)
  <2>. QED  BY ONLY <2>3, <2>4, rs2[r0].data = rs[r0].data + p, p \in Nat
<1>9. p # -1
  BY p \in Nat
<1>10. (IF Linked(t, w) THEN 0 ELSE p) = p
  BY ONLY <1>2
<1>11. AddressFits(w, n, rs2, t, p)
  BY ONLY <1>4, <1>7, <1>8, <1>9, <1>10 DEF AddressFits
<1>. QED  BY ONLY <1>1, <1>3, <1>11, w.kind = "address" DEF UseFits

\* And the distance of a jump is patched, if it can be.
LEMMA JumpResolved ==
    ASSUME NEW w \in HolderUse, NEW n, NEW b \in Seq(Byte), NEW b2, NEW rs, NEW s \in Seq(HolderLink), NEW p \in Nat,
           NEW er, NEW er2, NEW new \in Seq(Byte),
           w.kind = "jump", UseFits(w, n, b, rs, s, p, er), b2 = Holder!Write(b, w.at, new),
           \/ new = Holder!Bytes(p - (w.at + w.size), w.size)
           \/ new = << >> /\ w.size # 4 /\ er2
    PROVE  /\ UseFits(w, n, b2, rs, Tail(s), p, er2)
           /\ b2 \in Seq(Byte) /\ Len(b2) = Len(b)
           /\ \A u \in HolderUse : u.at + u.size <= Len(b) /\ Apart(u, w) => SameBytes(b2, b, u)
<1>1. /\ w.at \in Nat /\ w.size \in Nat
  BY DEF HolderUse
<1>2. w.size >= 1 /\ w.at + w.size <= Len(b) /\ JumpFits(w, n, b, s, p, er)
  BY ONLY UseFits(w, n, b, rs, s, p, er), w.kind = "jump" DEF UseFits
<1>3. w.size \in {1, 4} /\ w.of \in 1..n
  BY ONLY <1>2, Zenon DEF JumpFits
<1>4. PICK good : good = Holder!Bytes(p - (w.at + w.size), w.size)
  OBVIOUS
<1>5. good \in Seq(Byte) /\ Len(good) = w.size
  <2>1. p - (w.at + w.size) \in Int
    BY <1>1
  <2>. QED  BY ONLY <2>1, <1>1, <1>4, BytesAre
<1>6. Len(new) \in Nat /\ (new = good \/ (Len(new) = 0 /\ w.size # 4 /\ er2)) /\ Len(new) <= w.size
  BY <1>1, <1>4, <1>5
<1>7. WrittenTo(b2, b, w.at, new)
  <2>1. w.at <= Len(b)
    BY <1>1, <1>2
  <2>. QED  BY ONLY <2>1, <1>1, b \in Seq(Byte), new \in Seq(Byte), b2 = Holder!Write(b, w.at, new), WriteWrites
<1>8. Len(b) \in Nat /\ w.at + Len(new) <= Len(b)
  BY <1>1, <1>2, <1>6
<1>9. /\ b2 \in Seq(Byte) /\ Len(b2) = Len(b) /\ Holds(b2, w.at, new)
      /\ \A i \in 1..Len(b) : i <= w.at \/ i > w.at + Len(new) => b2[i] = b[i]
  BY ONLY <1>7, <1>8 DEF WrittenTo
<1>10. \/ Holds(b2, w.at, Holder!Bytes(p - (w.at + w.size), w.size))
       \/ w.size = 1 /\ er2
  BY ONLY <1>3, <1>4, <1>6, <1>9
<1>11. p # -1
  BY p \in Nat
<1>12. JumpFits(w, n, b2, Tail(s), p, er2)
  BY ONLY <1>3, <1>10, <1>11 DEF JumpFits
<1>13. UseFits(w, n, b2, rs, Tail(s), p, er2)
  BY ONLY <1>2, <1>9, <1>12, w.kind = "jump" DEF UseFits
<1>14. ASSUME NEW u \in HolderUse, u.at + u.size <= Len(b), Apart(u, w)
       PROVE  SameBytes(b2, b, u)
  <2>1. u.at \in Nat /\ u.size \in Nat
    BY ONLY u \in HolderUse DEF HolderUse
  <2>2. ASSUME NEW i \in u.at + 1 .. u.at + u.size
        PROVE  b2[i] = b[i]
    <3>1. u.at + u.size <= w.at \/ w.at + w.size <= u.at
      BY ONLY <1>14 DEF Apart
    <3>3. Len(new) \in Nat /\ Len(new) <= w.size /\ Len(b) \in Nat /\ u.at + u.size <= Len(b)
      BY ONLY <1>6, <1>8, <1>14
    <3>4. i \in Int /\ u.at + 1 <= i /\ i <= u.at + u.size
      BY ONLY <2>1, i \in u.at + 1 .. u.at + u.size
    <3>5. PICK m : m = Len(b)
      OBVIOUS
    <3>6. i \in 1..m
      BY ONLY <3>3, <3>4, <3>5, <2>1
    <3>7. PICK k : k = Len(new)
      OBVIOUS
    <3>8. k \in Nat /\ k <= w.size
      BY ONLY <3>3, <3>7
    <3>9. i <= w.at \/ i > w.at + k
      <4>1. CASE u.at + u.size <= w.at
        BY ONLY <4>1, <3>4, <2>1, <1>1
      <4>2. CASE w.at + w.size <= u.at
        <5>1. w.at + k <= u.at
          BY ONLY <4>2, <3>8, <2>1, <1>1
        <5>. QED  BY ONLY <5>1, <3>4, <3>8, <2>1, <1>1
      <4>. QED  BY ONLY <3>1, <4>1, <4>2
    <3>2. i \in 1..Len(b) /\ (i <= w.at \/ i > w.at + Len(new))
      BY ONLY <3>5, <3>6, <3>7, <3>9
    <3>. QED  BY ONLY <3>2, <1>9
  <2>. QED  BY ONLY <2>2, <1>8, <1>9 DEF SameBytes
<1>. QED  BY ONLY <1>9, <1>13, <1>14

LEMMA BindNextStep ==
    ASSUME HolderInv, Holder!BindNext
    PROVE  HolderInv'
<1>1. /\ HolderTypeOK /\ BufferInOrder /\ UsesApart /\ UsesFit /\ RelocsFit /\ LinksFit
  BY DEF HolderInv
<1>2. PICK l, s, link, p, b, rs, er :
        /\ l = binding.label /\ s = binding.links /\ link = Head(s) /\ p = bufferPtr
        /\ b = data /\ rs = relocations /\ er = (failed \/ binding.err)
  <2>1. PICK s : s = binding.links
    OBVIOUS
  <2>. QED  BY <2>1
<1>3. /\ l # 0 /\ s # << >>
      /\ length' = length /\ trampolinesSize' = trampolinesSize /\ holderEntries' = holderEntries
      /\ attached' = attached /\ bufferPtr' = p /\ lastError' = lastError
      /\ copy' = copy /\ uses' = uses /\ failed' = failed
      /\ unresolvedLabelsCount' = unresolvedLabelsCount - 1
  BY <1>2 DEF Holder!BindNext, Holder!assembler
<1>4. \/ /\ link.relocId # 0
         /\ relocations' = [rs EXCEPT ![link.relocId].data = rs[link.relocId].data + p]
         /\ binding' = [binding EXCEPT !.links = Tail(s)]
         /\ data' = b
      \/ /\ link.relocId = 0
         /\ data' = Holder!Write(b, link.offset, Holder!Patched(link))
         /\ binding' = [binding EXCEPT !.links = Tail(s), !.err = binding.err \/ Holder!Patched(link) = << >>]
         /\ relocations' = rs
  BY <1>2 DEF Holder!BindNext
<1>5. PICK n \in Nat : n = Len(holderEntries) /\ DOMAIN holderEntries = 1..n
  BY ONLY <1>1, HolderTypes
<1>6. copy.base = 0 /\ l \in 1..n
  <2>1. copy.base = 0 /\ l \in 0..n
    BY ONLY <1>1, <1>2, <1>3, <1>5 DEF BufferInOrder
  <2>2. l \in 1..n
    BY ONLY <2>1, <1>3, n \in Nat
  <2>. QED  BY ONLY <2>1, <2>2
<1>7. Holder!LinksOf(l) = s /\ Place(l) = p
  BY ONLY <1>2 DEF Holder!LinksOf, Place
<1>8. /\ s \in Seq(HolderLink) /\ p \in Nat /\ b \in Seq(Byte) /\ Len(b) \in Nat /\ rs \in Seq(HolderReloc)
      /\ DOMAIN rs = 1..Len(rs) /\ Len(rs) \in Nat
  BY ONLY <1>1, <1>2, HolderTypes
<1>9. \A i, j \in DOMAIN s : s[i].offset = s[j].offset => i = j
  <2>1. \A i, j \in DOMAIN Holder!LinksOf(l) : Holder!LinksOf(l)[i].offset = Holder!LinksOf(l)[j].offset => i = j
    BY ONLY <1>1, <1>5, <1>6 DEF LinksFit
  <2>. QED  BY ONLY <2>1, <1>7
<1>10. PICK w \in uses : w.of = l /\ LinkFits(link, w, b, rs)
  <2>1. 1 \in DOMAIN s /\ link = s[1]
    <3>1. PICK k \in Nat : DOMAIN s = 1..k + 1 /\ Head(s) = s[1]
      BY ONLY <1>3, <1>8, LinksTail
    <3>. QED  BY ONLY <3>1, <1>2, k \in Nat
  <2>2. \A i \in DOMAIN Holder!LinksOf(l) :
           \E u \in uses : u.of = l /\ LinkFits(Holder!LinksOf(l)[i], u, data, relocations)
    BY ONLY <1>1, <1>5, <1>6 DEF LinksFit
  <2>3. \A i \in DOMAIN s : \E u \in uses : u.of = l /\ LinkFits(s[i], u, b, rs)
    BY ONLY <2>2, <1>2, <1>7
  <2>. QED  BY ONLY <2>1, <2>3
<1>11. /\ w \in HolderUse /\ w.at \in Nat /\ w.size \in Nat /\ w.size >= 1
  BY ONLY <1>1, w \in uses, UseOfType
<1>12. UseFits(w, n, b, rs, s, p, er)
  <2>1. UseFits(w, Len(holderEntries), data, relocations, Holder!LinksOf(w.of), Place(w.of), failed \/ binding.err)
    BY ONLY <1>1, w \in uses DEF UsesFit
  <2>. QED  BY ONLY <2>1, <1>2, <1>5, <1>7, <1>10
<1>13. Head(s).offset = w.at /\ link.offset = w.at
  BY ONLY <1>2, <1>10 DEF LinkFits
<1>14. ASSUME NEW u \in uses, u # w
       PROVE  /\ u \in HolderUse /\ u.at # w.at /\ Apart(u, w) /\ u.at + u.size <= Len(b)
  <2>1. Apart(u, w)
    BY ONLY <1>1, <1>14, w \in uses DEF UsesApart
  <2>2. /\ u \in HolderUse /\ u.at \in Nat /\ u.size \in Nat /\ u.size >= 1 /\ u.at + u.size <= Len(data)
    BY ONLY <1>1, u \in uses, UseOfType
  <2>. QED  BY ONLY <2>1, <2>2, <1>2, <1>11 DEF Apart
<1>15. binding \in [label : Nat, links : Seq(HolderLink), err : BOOLEAN, follows : Nat]
  BY ONLY <1>1 DEF HolderTypeOK
<1>16. Tail(s) \in Seq(HolderLink)
  BY ONLY <1>3, <1>8, LinksTail
<1>17. CASE link.relocId # 0
  <2>1. PICK r0 : r0 = link.relocId
    OBVIOUS
  <2>2. /\ relocations' = [rs EXCEPT ![r0].data = rs[r0].data + p]
        /\ binding' = [binding EXCEPT !.links = Tail(s)] /\ data' = b
    BY ONLY <1>4, <1>17, <2>1
  <2>3. w.kind = "address" /\ r0 \in DOMAIN rs /\ RelocOf(rs[r0], w)
    BY ONLY <1>10, <1>17, <2>1 DEF LinkFits
  <2>4. rs[r0] \in HolderReloc
    BY ONLY <2>3, <1>8, ElementOfSeq
  <2>5. PICK re : re = [rs[r0] EXCEPT !.data = rs[r0].data + p]
    OBVIOUS
  <2>6. /\ re \in HolderReloc /\ re.type = rs[r0].type /\ re.source = rs[r0].source /\ re.size = rs[r0].size
        /\ re.data = rs[r0].data + p
    <3>1. PICK old, x : old = rs[r0] /\ x = old.data + p
      <4>1. PICK old : old = rs[r0]
        OBVIOUS
      <4>. QED  BY <4>1
    <3>2. old \in HolderReloc /\ re = [old EXCEPT !.data = x]
      BY ONLY <3>1, <2>4, <2>5
    <3>3. old.data \in Int
      BY ONLY <3>2 DEF HolderReloc
    <3>4. x \in Int
      BY ONLY <3>1, <3>3, <1>8
    <3>5. /\ re \in HolderReloc /\ re.type = old.type /\ re.source = old.source /\ re.size = old.size
          /\ re.data = x
      BY ONLY <3>2, <3>4 DEF HolderReloc
    <3>. QED  BY ONLY <3>1, <3>5
  <2>7. relocations' = [rs EXCEPT ![r0] = re]
    BY ONLY <2>2, <2>5
  <2>8. PICK rs2 : /\ rs2 = relocations' /\ rs2 \in Seq(HolderReloc) /\ DOMAIN rs2 = DOMAIN rs
                   /\ rs2[r0] = re /\ \A r \in DOMAIN rs : r # r0 => rs2[r] = rs[r]
    <3>1. relocations' \in Seq(HolderReloc)
      BY ONLY <2>3, <2>6, <2>7, <1>8, ExceptSeq
    <3>. QED  BY ONLY <3>1, <2>3, <2>7
  <2>9. rs[r0].type = "RelToAbs" /\ rs[r0].source = w.at
    BY ONLY <2>3 DEF RelocOf
  <2>10. binding' \in [label : Nat, links : Seq(HolderLink), err : BOOLEAN, follows : Nat]
    BY ONLY <2>2, <1>15, <1>16
  <2>11. /\ binding'.label = binding.label /\ binding'.links = Tail(s) /\ binding'.follows = binding.follows
         /\ binding'.err = binding.err /\ binding.err \in BOOLEAN
    BY ONLY <2>2, <1>15
  <2>12. HolderTypeOK'
    <3>1. unresolvedLabelsCount' \in Int
      BY ONLY <1>1, <1>3, HolderTypes
    <3>. QED  BY ONLY <3>1, <1>1, <1>2, <1>3, <1>8, <2>2, <2>8, <2>10 DEF HolderTypeOK
  <2>13. ASSUME NEW u \in uses, u # w
         PROVE  SameBytes(data', data, u) /\ SameRelocs(relocations', relocations, u)
    <3>1. SameBytes(b, b, u)
      BY ONLY <1>8 DEF SameBytes
    <3>2. ~RelocOf(rs[r0], u) /\ ~RelocOf(re, u)
      <4>1. u.at # w.at
        BY ONLY <1>14, <2>13
      <4>. QED  BY ONLY <4>1, <2>6, <2>9 DEF RelocOf
    <3>3. ASSUME NEW r \in DOMAIN rs
          PROVE  /\ RelocOf(rs2[r], u) <=> RelocOf(rs[r], u)
                 /\ RelocOf(rs[r], u) => rs2[r].data = rs[r].data
      <4>1. CASE r = r0
        BY ONLY <4>1, <3>2, <2>8
      <4>2. CASE r # r0
        BY ONLY <4>2, <2>8, r \in DOMAIN rs
      <4>. QED  BY ONLY <4>1, <4>2
    <3>4. SameRelocs(rs2, rs, u)
      BY ONLY <3>3, <2>8 DEF SameRelocs
    <3>. QED  BY ONLY <3>1, <3>4, <1>2, <2>2, <2>8
  <2>14. ASSUME NEW r \in DOMAIN relocations
         PROVE  /\ relocations'[r].type = relocations[r].type
                /\ \A u \in uses : RelocOf(relocations[r], u) => RelocOf(relocations'[r], u)
    <3>1. CASE r = r0
      <4>1. relocations'[r] = re /\ relocations[r] = rs[r0]
        BY ONLY <3>1, <1>2, <2>8
      <4>2. \A u \in uses : RelocOf(rs[r0], u) => RelocOf(re, u)
        BY ONLY <2>6, <2>9 DEF RelocOf
      <4>. QED  BY ONLY <4>1, <4>2, <2>6
    <3>2. CASE r # r0
      <4>1. relocations'[r] = relocations[r]
        BY ONLY <3>2, <1>2, <2>8, r \in DOMAIN relocations
      <4>. QED  BY ONLY <4>1
    <3>. QED  BY ONLY <3>1, <3>2
  <2>15. UseFits(w, n, b, rs2, Tail(s), p, er)
    <3>1. /\ rs2[r0].type = rs[r0].type /\ rs2[r0].source = rs[r0].source /\ rs2[r0].size = rs[r0].size
          /\ rs2[r0].data = rs[r0].data + p
      BY ONLY <2>6, <2>8
    <3>2. DOMAIN rs2 = DOMAIN rs /\ \A r \in DOMAIN rs : r # r0 => rs2[r] = rs[r]
      BY ONLY <2>8
    <3>. QED  BY ONLY <3>1, <3>2, <1>3, <1>8, <1>9, <1>11, <1>12, <1>13, <2>3, AddressResolved
  <2>16. Resolves(w)
    <3>1. UseFits(w, Len(holderEntries), data', relocations', Tail(binding.links), bufferPtr,
                  failed \/ binding'.err)
      BY ONLY <2>15, <1>2, <1>5, <2>2, <2>8, <2>11
    <3>2. binding.label # 0 /\ binding.links # << >> /\ w.of = binding.label
          /\ LinkFits(Head(binding.links), w, data, relocations)
      BY ONLY <1>2, <1>3, <1>10
    <3>3. binding'.label = binding.label /\ binding'.links = Tail(binding.links)
          /\ binding'.follows = binding.follows /\ binding'.err \in BOOLEAN /\ (binding.err => binding'.err)
      BY ONLY <1>2, <2>11
    <3>4. Len(data') = Len(data) /\ DOMAIN relocations' = DOMAIN relocations /\ bufferPtr' = bufferPtr
      BY ONLY <1>2, <1>3, <2>2, <2>8
    <3>. QED  BY ONLY <3>1, <3>2, <3>3, <3>4, <1>3, <1>6, <2>13, <2>14, w \in uses DEF Resolves
  <2>. QED  BY ONLY <2>12, <2>16, HolderInv, ResolvesKeeps
<1>18. CASE link.relocId = 0
  <2>1. PICK new, v : new = Holder!Patched(link) /\ v = p - (w.at + w.size)
    OBVIOUS
  <2>2. /\ data' = Holder!Write(b, w.at, new)
        /\ binding' = [binding EXCEPT !.links = Tail(s), !.err = binding.err \/ new = << >>]
        /\ relocations' = rs
    BY ONLY <1>4, <1>13, <1>18, <2>1
  <2>3. w.kind = "jump" /\ link.rel = -w.size /\ b[w.at + 1] = <<w.size, 1, 1>>
    <3>1. 0 \notin DOMAIN rs
      BY ONLY <1>8
    <3>. QED  BY ONLY <3>1, <1>10, <1>18 DEF LinkFits
  <2>4. new = Holder!Bytes(v, w.size) \/ (new = << >> /\ w.size # 4)
    <3>1. bufferPtr - link.offset + link.rel = v
      <4>1. bufferPtr = p /\ link.offset = w.at /\ link.rel = -w.size
        BY ONLY <1>2, <1>13, <2>3
      <4>2. p \in Nat /\ w.at \in Nat /\ w.size \in Nat
        BY ONLY <1>8, <1>11
      <4>3. p - w.at + (-w.size) = p - (w.at + w.size)
        BY ONLY <4>2
      <4>. QED  BY ONLY <4>1, <4>3, <2>1
    <3>2. data[link.offset + 1][1] = w.size
      BY ONLY <1>2, <1>13, <2>3
    <3>3. new = IF w.size = 4 THEN Holder!Bytes(v, 4)
                ELSE IF w.size = 1 /\ v \in Int8 THEN Holder!Bytes(v, 1) ELSE << >>
      BY ONLY <2>1, <3>1, <3>2 DEF Holder!Patched
    <3>. QED  BY ONLY <3>3
  <2>5. new \in Seq(Byte)
    <3>1. v \in Int
      BY ONLY <2>1, <1>8, <1>11
    <3>2. Holder!Bytes(v, w.size) \in Seq(Byte)
      BY ONLY <3>1, <1>11, BytesAre
    <3>3. << >> \in Seq(Byte)
      OBVIOUS
    <3>. QED  BY ONLY <3>2, <3>3, <2>4
  <2>6. PICK er2 : er2 = (failed \/ binding'.err)
    OBVIOUS
  <2>7. /\ binding'.label = binding.label /\ binding'.links = Tail(s) /\ binding'.follows = binding.follows
        /\ binding'.err = (binding.err \/ new = << >>)
    BY ONLY <2>2, <1>15
  <2>8. binding' \in [label : Nat, links : Seq(HolderLink), err : BOOLEAN, follows : Nat]
    <3>1. PICK e : e = (binding.err \/ new = << >>)
      OBVIOUS
    <3>2. e \in BOOLEAN
      BY ONLY <3>1
    <3>3. binding' = [binding EXCEPT !.links = Tail(s), !.err = e]
      BY ONLY <3>1, <2>2
    <3>. QED  BY ONLY <3>2, <3>3, <1>15, <1>16
  <2>9. \/ new = Holder!Bytes(p - (w.at + w.size), w.size)
        \/ new = << >> /\ w.size # 4 /\ er2
    BY ONLY <2>1, <2>4, <2>6, <2>7
  <2>10. PICK b2 : b2 = data' /\ b2 = Holder!Write(b, w.at, new)
    BY ONLY <2>2
  <2>11. /\ UseFits(w, n, b2, rs, Tail(s), p, er2)
         /\ b2 \in Seq(Byte) /\ Len(b2) = Len(b)
         /\ \A u \in HolderUse : u.at + u.size <= Len(b) /\ Apart(u, w) => SameBytes(b2, b, u)
    BY ONLY <2>3, <2>5, <2>9, <2>10, <1>8, <1>11, <1>12, JumpResolved
  <2>12. HolderTypeOK'
    <3>1. unresolvedLabelsCount' \in Int
      BY ONLY <1>1, <1>3, HolderTypes
    <3>. QED  BY ONLY <3>1, <1>1, <1>2, <1>3, <1>8, <2>2, <2>8, <2>10, <2>11 DEF HolderTypeOK
  <2>13. ASSUME NEW u \in uses, u # w
         PROVE  SameBytes(data', data, u) /\ SameRelocs(relocations', relocations, u)
    <3>1. SameRelocs(rs, rs, u)
      BY ONLY <1>2, RelocsUnchanged
    <3>2. SameBytes(b2, b, u)
      BY ONLY <1>14, <2>11, <2>13
    <3>. QED  BY ONLY <3>1, <3>2, <1>2, <2>2, <2>10
  <2>14. Resolves(w)
    <3>1. UseFits(w, Len(holderEntries), data', relocations', Tail(binding.links), bufferPtr,
                  failed \/ binding'.err)
      BY ONLY <2>11, <1>2, <1>5, <2>2, <2>6, <2>10
    <3>2. binding.label # 0 /\ binding.links # << >> /\ w.of = binding.label
          /\ LinkFits(Head(binding.links), w, data, relocations)
      BY ONLY <1>2, <1>3, <1>10
    <3>3. binding'.label = binding.label /\ binding'.links = Tail(binding.links)
          /\ binding'.follows = binding.follows /\ binding'.err \in BOOLEAN /\ (binding.err => binding'.err)
      BY ONLY <1>2, <2>7
    <3>4. Len(data') = Len(data) /\ relocations' = relocations /\ bufferPtr' = bufferPtr
      BY ONLY <1>2, <1>3, <2>2, <2>10, <2>11
    <3>. QED  BY ONLY <3>1, <3>2, <3>3, <3>4, <1>3, <1>6, <2>13, w \in uses DEF Resolves
  <2>. QED  BY ONLY <2>12, <2>14, HolderInv, ResolvesKeeps
<1>. QED  BY ONLY <1>17, <1>18

-----------------------------------------------------------------------------
(* CodeHolder: what is written behind the cursor.                          *)

EmittedOK(new, its) ==
    /\ data' \in Seq(Byte) /\ bufferPtr' \in Nat /\ bufferPtr' = bufferPtr + Len(new)
    /\ Len(data') = Holder!Synced' /\ Len(data) <= Len(data')
    /\ \A u \in uses : SameBytes(data', data, u)
    /\ \A u \in uses : u.at + u.size <= bufferPtr \/ bufferPtr + Len(new) <= u.at
    /\ Holds(data', bufferPtr, new)
    /\ uses' = uses \cup its

LEMMA EmittedWrites ==
    ASSUME HolderTypeOK, BufferInOrder, UsesFit, NEW new \in Seq(Byte), NEW its,
           Holder!Emitted(new, its), length' = length
    PROVE  EmittedOK(new, its)
<1>1. PICK m, p, b, w : m = length /\ p = bufferPtr /\ b = data /\ w = Holder!Write(b, p, new)
  <2>1. PICK p, b : p = bufferPtr /\ b = data
    OBVIOUS
  <2>. QED  BY <2>1
<1>2. data' = w /\ bufferPtr' = p + Len(new) /\ uses' = uses \cup its
  BY <1>1 DEF Holder!Emitted
<1>3. \A u \in uses : ~Holder!Overlap(u, p, Len(new))
  BY <1>1 DEF Holder!Emitted
<1>4. m \in Nat /\ p \in Nat /\ b \in Seq(Byte)
  BY ONLY <1>1, HolderTypeOK, HolderTypes
<1>5. Len(b) = Holder!Larger(m, p)
  BY ONLY <1>1, BufferInOrder DEF BufferInOrder, Holder!Synced
<1>6. CursorWritten(w, b, m, p, new)
  BY ONLY <1>1, <1>4, <1>5, new \in Seq(Byte), CursorWrites
<1>7. /\ w \in Seq(Byte) /\ Len(w) = Holder!Larger(m, p + Len(new)) /\ Holds(w, p, new)
      /\ Len(b) <= Len(w)
      /\ \A u \in HolderUse :
            u.at + u.size <= Len(b) /\ (u.at + u.size <= p \/ p + Len(new) <= u.at \/ Len(new) = 0)
               => SameBytes(w, b, u)
  BY ONLY <1>6 DEF CursorWritten
<1>8. ASSUME NEW u \in uses
      PROVE  /\ u.at + u.size <= p \/ p + Len(new) <= u.at
             /\ SameBytes(w, b, u)
  <2>1. u \in HolderUse /\ u.at \in Nat /\ u.size \in Nat /\ u.at + u.size <= Len(b)
    BY ONLY <1>1, HolderTypeOK, UsesFit, u \in uses, UseOfType
  <2>2. PICK k : k = Len(new)
    OBVIOUS
  <2>3. k \in Nat
    BY ONLY <2>2, new \in Seq(Byte)
  <2>4. ~(u.at < p + k /\ p < u.at + u.size)
    BY ONLY <2>2, <1>3, u \in uses DEF Holder!Overlap
  <2>5. u.at + u.size <= p \/ p + k <= u.at
    BY ONLY <2>1, <2>3, <2>4, <1>4
  <2>. QED  BY ONLY <2>1, <2>2, <2>5, <1>7
<1>9. p + Len(new) \in Nat
  BY ONLY <1>4, new \in Seq(Byte)
<1>10. Len(data') = Holder!Synced'
  BY ONLY <1>1, <1>2, <1>7, length' = length DEF Holder!Synced
<1>. QED  BY ONLY <1>1, <1>2, <1>7, <1>8, <1>9, <1>10 DEF EmittedOK

\* What the cursor's use is apart from.
LEMMA NewUseApart ==
    ASSUME HolderTypeOK, UsesFit, NEW new \in Seq(Byte), NEW its, EmittedOK(new, its), NEW w \in HolderUse,
           w.at = bufferPtr, w.size = Len(new), w.size >= 1, NEW u \in uses
    PROVE  Apart(u, w) /\ Apart(w, u) /\ u.at # w.at /\ u # w
<1>1. u.at + u.size <= bufferPtr \/ bufferPtr + Len(new) <= u.at
  BY ONLY EmittedOK(new, its), u \in uses DEF EmittedOK
<1>2. u.at + u.size <= w.at \/ w.at + w.size <= u.at
  BY ONLY <1>1, w.at = bufferPtr, w.size = Len(new)
<1>3. u.at \in Nat /\ u.size \in Nat /\ u.size >= 1
  BY ONLY HolderTypeOK, UsesFit, u \in uses, UseOfType
<1>4. w.at \in Nat /\ w.size \in Nat
  BY ONLY w \in HolderUse DEF HolderUse
<1>5. u.at # w.at
  BY ONLY <1>2, <1>3, <1>4, w.size >= 1
<1>. QED  BY ONLY <1>2, <1>5 DEF Apart

LEMMA EmbedStep ==
    ASSUME HolderInv, Holder!Embed(1)
    PROVE  HolderInv'
<1>1. HolderTypeOK /\ BufferInOrder /\ UsesFit /\ LinksFit
  BY DEF HolderInv
<1>2. PICK new : new = Holder!Bytes(7, 1)
  OBVIOUS
<1>3. /\ Holder!Idle /\ attached /\ Holder!Emitted(new, {})
      /\ length' = length /\ trampolinesSize' = trampolinesSize /\ holderEntries' = holderEntries
      /\ relocations' = relocations /\ unresolvedLabelsCount' = unresolvedLabelsCount
      /\ attached' = attached /\ lastError' = lastError
      /\ binding' = binding /\ copy' = copy /\ failed' = failed
  BY <1>2 DEF Holder!Embed, Holder!Ready
<1>4. binding.label = 0 /\ copy.base = 0
  BY ONLY <1>3 DEF Holder!Idle
<1>5. new \in Seq(Byte)
  BY ONLY <1>2, 7 \in Int, 1 \in Nat, BytesAre
<1>6. EmittedOK(new, {})
  BY ONLY <1>1, <1>3, <1>5, EmittedWrites
<1>7. /\ data' \in Seq(Byte) /\ bufferPtr' \in Nat /\ Len(data') = Holder!Synced'
      /\ \A u \in uses : SameBytes(data', data, u)
      /\ uses' = uses
  BY ONLY <1>6 DEF EmittedOK
<1>8. HolderTypeOK'
  BY ONLY <1>1, <1>3, <1>7 DEF HolderTypeOK
<1>9. BufferInOrder'
  <2>1. /\ binding.label = 0 => ~binding.err
        /\ binding.label \in 0..Len(holderEntries)
    BY ONLY <1>1 DEF BufferInOrder
  <2>. QED  BY ONLY <2>1, <1>3, <1>4, <1>7 DEF BufferInOrder
<1>10. \A l \in DOMAIN holderEntries : l # 0
  <2>1. DOMAIN holderEntries = 1..Len(holderEntries) /\ Len(holderEntries) \in Nat
    BY ONLY <1>1, HolderTypes
  <2>. QED  BY ONLY <2>1
<1>11. Quiet
  <2>1. LinksSame
    BY ONLY <1>3 DEF LinksSame, Holder!LinksOf
  <2>2. \A l \in DOMAIN holderEntries : Place(l)' = Place(l)
    BY ONLY <1>3, <1>4, <1>10 DEF Place
  <2>3. \A l \in DOMAIN holderEntries : holderEntries[l].offset # -1 => holderEntries[l].links = << >>
    BY ONLY <1>1 DEF LinksFit
  <2>. QED  BY ONLY <2>1, <2>2, <2>3, <1>3, <1>4, <1>7 DEF Quiet
<1>. QED  BY ONLY <1>8, <1>9, <1>11, HolderInv, QuietKeeps

LEMMA EmbedConstPoolStep ==
    ASSUME HolderInv, NEW l \in DOMAIN holderEntries, Holder!EmbedConstPool(l, 4)
    PROVE  HolderInv'
<1>1. HolderTypeOK /\ BufferInOrder /\ UsesFit
  BY DEF HolderInv
<1>2. PICK pad, new : pad = (4 - (bufferPtr % 4)) % 4 /\ new = Holder!Zeroes(pad)
  <2>1. PICK pad : pad = (4 - (bufferPtr % 4)) % 4
    OBVIOUS
  <2>. QED  BY <2>1
<1>3. /\ Holder!Idle /\ attached /\ Holder!Emitted(new, {})
      /\ Holder!BindThen(l, 4)
      /\ length' = length /\ trampolinesSize' = trampolinesSize /\ holderEntries' = holderEntries
      /\ relocations' = relocations /\ unresolvedLabelsCount' = unresolvedLabelsCount
      /\ attached' = attached /\ copy' = copy
  BY <1>2 DEF Holder!EmbedConstPool, Holder!Ready
<1>4. Holder!Bindable(l) => \A u \in uses : ~Holder!Overlap(u, bufferPtr + pad, 4)
  BY <1>2 DEF Holder!EmbedConstPool
<1>5. bufferPtr \in Nat
  BY ONLY <1>1, HolderTypes
<1>6. pad \in Nat
  BY ONLY <1>2, <1>5
<1>7. new \in Seq(Byte) /\ Len(new) = pad
  BY ONLY <1>2, <1>6, ZeroesAre
<1>8. EmittedOK(new, {})
  BY ONLY <1>1, <1>3, <1>7, EmittedWrites
<1>9. /\ data' \in Seq(Byte) /\ bufferPtr' \in Nat /\ Len(data') = Holder!Synced'
      /\ bufferPtr' = bufferPtr + pad
      /\ \A u \in uses : SameBytes(data', data, u)
      /\ uses' = uses
  BY ONLY <1>7, <1>8 DEF EmittedOK
<1>10. ASSUME Holder!Bindable(l), NEW u \in uses
       PROVE  u.at + u.size <= bufferPtr' \/ bufferPtr' + 4 <= u.at
  <2>1. u.at \in Nat /\ u.size \in Nat
    BY ONLY <1>1, u \in uses, UseOfType
  <2>2. ~(u.at < bufferPtr' + 4 /\ bufferPtr' < u.at + u.size)
    BY ONLY <1>4, <1>9, <1>10 DEF Holder!Overlap
  <2>. QED  BY ONLY <2>1, <2>2, <1>9
<1>11. \/ 4 = 0 \/ ~Holder!Bindable(l)
       \/ \A u \in uses : u.at + u.size <= bufferPtr' \/ bufferPtr' + 4 <= u.at
  BY ONLY <1>10
<1>12. lastError' \in BOOLEAN \/ lastError' = lastError
  BY ONLY <1>3 DEF Holder!BindThen, Holder!SetLastError
<1>13. 4 \in Nat
  OBVIOUS
<1>. QED  BY ONLY <1>3, <1>9, <1>11, <1>12, <1>13, l \in DOMAIN holderEntries, HolderInv, BindThenStep

-----------------------------------------------------------------------------
(* CodeHolder: a use is emitted.                                           *)

\* Nothing else than the code, the links of label w.of and the relocations change.
Emits(w, new) ==
    /\ Holder!Idle /\ attached /\ EmittedOK(new, {w}) /\ new \in Seq(Byte)
    /\ w \in HolderUse /\ w.at = bufferPtr /\ w.size = Len(new) /\ w.size >= 1
    /\ UNCHANGED <<length, attached, lastError, binding, copy, failed>>

\* The relocations are as they were, or the use's follows.
RelocsMore(w) ==
    \/ relocations' = relocations
    \/ \E re \in HolderReloc : relocations' = Append(relocations, re) /\ RelocOf(re, w)

\* The links are as they were, or the use's, whose label is not bound, is in front of them.
LinksMore(w) ==
    \/ holderEntries' = holderEntries
    \/ \E link \in HolderLink :
          /\ w.of \in DOMAIN holderEntries /\ holderEntries[w.of].offset = -1
          /\ holderEntries' = [holderEntries EXCEPT ![w.of] =
                                  [offset |-> -1, links |-> <<link>> \o holderEntries[w.of].links]]
          /\ LinkFits(link, w, data', relocations')

LEMMA NewUseUnserved ==
    ASSUME HolderTypeOK, RelocsFit, NEW w \in HolderUse, \A u \in uses : u.at # w.at, NEW r \in DOMAIN relocations
    PROVE  ~RelocOf(relocations[r], w)
<1>1. PICK u \in uses : RelocOf(relocations[r], u)
  BY ONLY RelocsFit, r \in DOMAIN relocations DEF RelocsFit
<1>2. u \in HolderUse
  BY ONLY HolderTypeOK, u \in uses DEF HolderTypeOK
<1>3. u.at \in Nat
  BY ONLY <1>2 DEF HolderUse
<1>4. ASSUME RelocOf(relocations[r], w) PROVE FALSE
  <2>1. \/ relocations[r].source = u.at /\ relocations[r].source = w.at
        \/ relocations[r].source = u.at + 2 /\ relocations[r].source = w.at + 2
    BY ONLY <1>1, <1>4 DEF RelocOf
  <2>2. u.at # w.at
    BY u \in uses
  <2>3. w.at \in Nat
    BY DEF HolderUse
  <2>. QED  BY ONLY <2>1, <2>2, <2>3, <1>3
<1>. QED  BY ONLY <1>4

\* What that leaves of the entries.
LEMMA LinksMoreKeeps ==
    ASSUME HolderTypeOK, NEW w, LinksMore(w)
    PROVE  /\ Len(holderEntries') = Len(holderEntries) /\ DOMAIN holderEntries' = DOMAIN holderEntries
           /\ \A l \in DOMAIN holderEntries :
                 /\ holderEntries'[l].offset = holderEntries[l].offset
                 /\ \/ holderEntries'[l].links = holderEntries[l].links
                    \/ \E link \in HolderLink :
                          /\ w.of = l /\ holderEntries[l].offset = -1 /\ LinkFits(link, w, data', relocations')
                          /\ holderEntries'[l].links = <<link>> \o holderEntries[l].links
<1>1. holderEntries \in Seq(HolderEntry) /\ Len(holderEntries) \in Nat
      /\ DOMAIN holderEntries = 1..Len(holderEntries)
  BY HolderTypes
<1>2. CASE holderEntries' = holderEntries
  BY ONLY <1>2
<1>3. ASSUME NEW link \in HolderLink, w.of \in DOMAIN holderEntries, holderEntries[w.of].offset = -1,
             holderEntries' = [holderEntries EXCEPT ![w.of] =
                                  [offset |-> -1, links |-> <<link>> \o holderEntries[w.of].links]],
             LinkFits(link, w, data', relocations')
      PROVE  /\ Len(holderEntries') = Len(holderEntries) /\ DOMAIN holderEntries' = DOMAIN holderEntries
             /\ \A l \in DOMAIN holderEntries :
                   /\ holderEntries'[l].offset = holderEntries[l].offset
                   /\ \/ holderEntries'[l].links = holderEntries[l].links
                      \/ \E li \in HolderLink :
                            /\ w.of = l /\ holderEntries[l].offset = -1 /\ LinkFits(li, w, data', relocations')
                            /\ holderEntries'[l].links = <<li>> \o holderEntries[l].links
  <2>1. PICK k, old, entry : /\ k = w.of /\ old = holderEntries[k].links
                             /\ entry = [offset |-> -1, links |-> <<link>> \o old]
    <3>1. PICK k, old : k = w.of /\ old = holderEntries[k].links
      <4>1. PICK k : k = w.of
        OBVIOUS
      <4>. QED  BY <4>1
    <3>. QED  BY <3>1
  <2>2. holderEntries' = [holderEntries EXCEPT ![k] = entry] /\ k \in DOMAIN holderEntries
    BY ONLY <1>3, <2>1
  <2>3. old \in Seq(HolderLink)
    <3>1. holderEntries[k] \in HolderEntry
      BY ONLY <1>1, <2>2, ElementOfSeq
    <3>. QED  BY ONLY <3>1, <2>1 DEF HolderEntry
  <2>4. <<link>> \o old \in Seq(HolderLink)
    BY ONLY <2>3, link \in HolderLink, LinkInFront
  <2>5. entry \in HolderEntry /\ entry.offset = -1 /\ entry.links = <<link>> \o old
    BY ONLY <2>1, <2>4 DEF HolderEntry
  <2>6. holderEntries' \in Seq(HolderEntry) /\ Len(holderEntries') = Len(holderEntries)
    BY ONLY <1>1, <2>2, <2>5, ExceptSeq
  <2>7. /\ DOMAIN holderEntries' = DOMAIN holderEntries
        /\ holderEntries'[k] = entry
        /\ \A l \in DOMAIN holderEntries : l # k => holderEntries'[l] = holderEntries[l]
    BY ONLY <2>2
  <2>8. ASSUME NEW l \in DOMAIN holderEntries
        PROVE  /\ holderEntries'[l].offset = holderEntries[l].offset
               /\ \/ holderEntries'[l].links = holderEntries[l].links
                  \/ \E li \in HolderLink :
                        /\ w.of = l /\ holderEntries[l].offset = -1 /\ LinkFits(li, w, data', relocations')
                        /\ holderEntries'[l].links = <<li>> \o holderEntries[l].links
    <3>1. CASE l = k
      BY ONLY <3>1, <2>1, <2>5, <2>7, <1>3, link \in HolderLink
    <3>2. CASE l # k
      BY ONLY <3>2, <2>7, l \in DOMAIN holderEntries
    <3>. QED  BY ONLY <3>1, <3>2
  <2>. QED  BY ONLY <2>6, <2>7, <2>8
<1>. QED  BY ONLY <1>2, <1>3, LinksMore(w) DEF LinksMore

\* And of the relocations.
LEMMA RelocAppended ==
    ASSUME HolderTypeOK, RelocsFit, NEW w \in HolderUse, \A u \in uses : u.at # w.at,
           NEW re \in HolderReloc, relocations' = Append(relocations, re), RelocOf(re, w)
    PROVE  /\ \A u \in uses : SameRelocs(relocations', relocations, u)
           /\ \A r \in DOMAIN relocations' :
                 \/ r \in DOMAIN relocations /\ relocations'[r] = relocations[r]
                 \/ RelocOf(relocations'[r], w)
           /\ Served(relocations', w)
           /\ \A r \in DOMAIN relocations' : RelocOf(relocations'[r], w) => relocations'[r] = re
           /\ Len(relocations) + 1 \in DOMAIN relocations' /\ relocations'[Len(relocations) + 1] = re
<1>1. PICK n, rs, rs2 : n = Len(relocations) /\ rs = relocations /\ rs2 = relocations'
  OBVIOUS
<1>2. rs \in Seq(HolderReloc) /\ n \in Nat /\ DOMAIN rs = 1..n
  BY ONLY <1>1, HolderTypeOK, HolderTypes
<1>3. /\ DOMAIN rs2 = 1..n + 1 /\ rs2[n + 1] = re
      /\ \A r \in 1..n : rs2[r] = rs[r]
  <2>1. rs2 = Append(rs, re) /\ n = Len(rs)
    BY <1>1
  <2>. QED  BY ONLY <2>1, <1>2, re \in HolderReloc
<1>4. /\ \A r \in 1..n : r \in 1..n + 1
      /\ \A r \in 1..n + 1 : r \in 1..n \/ r = n + 1
      /\ n + 1 \in 1..n + 1 /\ n + 1 \notin 1..n
  <2>1. n \in Nat
    BY ONLY <1>2
  <2>. QED  BY ONLY <2>1
<1>5. ASSUME NEW r \in 1..n PROVE ~RelocOf(rs[r], w)
  BY ONLY <1>1, <1>2, r \in 1..n, HolderTypeOK, RelocsFit, w \in HolderUse, \A u \in uses : u.at # w.at,
          NewUseUnserved
<1>6. ASSUME NEW u \in uses PROVE ~RelocOf(re, u)
  <2>1. u \in HolderUse
    BY ONLY HolderTypeOK, u \in uses DEF HolderTypeOK
  <2>2. u.at \in Nat /\ w.at \in Nat /\ u.at # w.at
    BY <2>1 DEF HolderUse
  <2>3. ASSUME RelocOf(re, u) PROVE FALSE
    <3>1. \/ re.source = u.at /\ re.source = w.at
          \/ re.source = u.at + 2 /\ re.source = w.at + 2
      BY ONLY <2>3, RelocOf(re, w) DEF RelocOf
    <3>. QED  BY ONLY <3>1, <2>2
  <2>. QED  BY ONLY <2>3
<1>7. ASSUME NEW u \in uses PROVE SameRelocs(rs2, rs, u)
  BY ONLY <1>2, <1>3, <1>4, <1>6, u \in uses DEF SameRelocs
<1>8. \A r \in DOMAIN rs2 : (r \in DOMAIN rs /\ rs2[r] = rs[r]) \/ RelocOf(rs2[r], w)
  BY ONLY <1>2, <1>3, <1>4, RelocOf(re, w)
<1>9. \A r \in DOMAIN rs2 : RelocOf(rs2[r], w) => r = n + 1
  BY ONLY <1>2, <1>3, <1>4, <1>5
<1>10. Served(rs2, w)
  BY ONLY <1>3, <1>4, <1>9, RelocOf(re, w) DEF Served
<1>11. \A r \in DOMAIN rs2 : RelocOf(rs2[r], w) => rs2[r] = re
  BY ONLY <1>3, <1>9
<1>. QED  BY ONLY <1>1, <1>3, <1>4, <1>7, <1>8, <1>10, <1>11

LEMMA RelocsMoreKeeps ==
    ASSUME HolderTypeOK, RelocsFit, NEW w \in HolderUse, \A u \in uses : u.at # w.at, RelocsMore(w)
    PROVE  /\ \A u \in uses : SameRelocs(relocations', relocations, u)
           /\ \A r \in DOMAIN relocations' :
                 \/ r \in DOMAIN relocations /\ relocations'[r] = relocations[r]
                 \/ RelocOf(relocations'[r], w)
<1>1. CASE relocations' = relocations
  <2>1. \A u \in uses : SameRelocs(relocations', relocations, u)
    BY ONLY <1>1, RelocsUnchanged
  <2>. QED  BY ONLY <2>1, <1>1
<1>2. ASSUME NEW re \in HolderReloc, relocations' = Append(relocations, re), RelocOf(re, w)
      PROVE  /\ \A u \in uses : SameRelocs(relocations', relocations, u)
             /\ \A r \in DOMAIN relocations' :
                   \/ r \in DOMAIN relocations /\ relocations'[r] = relocations[r]
                   \/ RelocOf(relocations'[r], w)
  BY ONLY <1>2, HolderTypeOK, RelocsFit, w \in HolderUse, \A u \in uses : u.at # w.at, RelocAppended
<1>. QED  BY ONLY <1>1, <1>2, RelocsMore(w) DEF RelocsMore

LEMMA EmitsGrows ==
    ASSUME HolderInv, HolderTypeOK', NEW w, NEW new, Emits(w, new), RelocsMore(w), LinksMore(w),
           UseFits(w, Len(holderEntries'), data', relocations', Holder!LinksOf(w.of)', Place(w.of)',
                   failed' \/ binding'.err)
    PROVE  Grows /\ BufferInOrder' /\ copy'.base = 0
<1>1. /\ HolderTypeOK /\ BufferInOrder /\ UsesFit /\ RelocsFit /\ LinksFit
  BY DEF HolderInv
<1>2. /\ Holder!Idle /\ attached /\ EmittedOK(new, {w}) /\ new \in Seq(Byte)
      /\ w \in HolderUse /\ w.at = bufferPtr /\ w.size = Len(new) /\ w.size >= 1
      /\ length' = length /\ attached' = attached /\ lastError' = lastError
      /\ binding' = binding /\ copy' = copy /\ failed' = failed
  BY DEF Emits
<1>3. binding.label = 0 /\ copy.base = 0 /\ copy'.base = 0
  BY ONLY <1>2 DEF Holder!Idle
<1>4. ASSUME NEW u \in uses PROVE Apart(u, w) /\ Apart(w, u) /\ u.at # w.at /\ u # w
  BY ONLY <1>1, <1>2, u \in uses, NewUseApart
<1>5. /\ \A u \in uses : SameRelocs(relocations', relocations, u)
      /\ \A r \in DOMAIN relocations' :
            \/ r \in DOMAIN relocations /\ relocations'[r] = relocations[r]
            \/ RelocOf(relocations'[r], w)
  <2>1. \A u \in uses : u.at # w.at
    BY ONLY <1>4
  <2>. QED  BY ONLY <2>1, <1>1, <1>2, RelocsMore(w), RelocsMoreKeeps
<1>6. /\ Len(holderEntries') = Len(holderEntries) /\ DOMAIN holderEntries' = DOMAIN holderEntries
      /\ \A l \in DOMAIN holderEntries :
            /\ holderEntries'[l].offset = holderEntries[l].offset
            /\ \/ holderEntries'[l].links = holderEntries[l].links
               \/ \E link \in HolderLink :
                     /\ w.of = l /\ holderEntries[l].offset = -1 /\ LinkFits(link, w, data', relocations')
                     /\ holderEntries'[l].links = <<link>> \o holderEntries[l].links
  BY ONLY <1>1, LinksMore(w), LinksMoreKeeps
<1>7. Len(holderEntries) \in Nat /\ \A l \in DOMAIN holderEntries : l # 0
  <2>1. DOMAIN holderEntries = 1..Len(holderEntries) /\ Len(holderEntries) \in Nat
    BY ONLY <1>1, HolderTypes
  <2>. QED  BY ONLY <2>1
<1>8. ASSUME NEW l \in DOMAIN holderEntries
      PROVE  /\ Holder!LinksOf(l) = holderEntries[l].links /\ Holder!LinksOf(l)' = holderEntries'[l].links
             /\ Place(l)' = Place(l)
  <2>1. l # 0
    BY ONLY <1>7, l \in DOMAIN holderEntries
  <2>2. holderEntries'[l].offset = holderEntries[l].offset
    BY ONLY <1>6, l \in DOMAIN holderEntries
  <2>. QED  BY ONLY <2>1, <2>2, <1>2, <1>3 DEF Holder!LinksOf, Place
<1>9. /\ Len(data') = Holder!Synced' /\ uses' = uses \cup {w}
      /\ \A u \in uses : SameBytes(data', data, u)
  BY ONLY <1>2 DEF EmittedOK
<1>10. BufferInOrder'
  <2>1. /\ binding.label = 0 => ~binding.err
        /\ binding.label \in 0..Len(holderEntries)
    BY ONLY <1>1 DEF BufferInOrder
  <2>. QED  BY ONLY <2>1, <1>2, <1>3, <1>6, <1>9 DEF BufferInOrder
<1>11. ASSUME NEW u \in uses, u.kind # "call"
       PROVE  /\ SameLinks(Holder!LinksOf(u.of)', Holder!LinksOf(u.of), u)
              /\ Place(u.of)' = Place(u.of)
  <2>1. u.of \in DOMAIN holderEntries
    BY ONLY <1>1, <1>11, UseOfType
  <2>2. PICK l : l = u.of /\ l \in DOMAIN holderEntries
    BY ONLY <2>1
  <2>3. CASE holderEntries'[l].links = holderEntries[l].links
    <3>1. Holder!LinksOf(l)' = Holder!LinksOf(l)
      BY ONLY <2>2, <2>3, <1>8
    <3>. QED  BY ONLY <3>1, <2>2, <1>8 DEF SameLinks
  <2>4. ASSUME NEW link \in HolderLink, LinkFits(link, w, data', relocations'),
               holderEntries'[l].links = <<link>> \o holderEntries[l].links
        PROVE  SameLinks(Holder!LinksOf(u.of)', Holder!LinksOf(u.of), u)
    <3>1. link.offset # u.at
      <4>1. w.at = link.offset
        BY ONLY <2>4 DEF LinkFits
      <4>. QED  BY ONLY <4>1, <1>4, u \in uses
    <3>2. PICK li : li = Holder!LinksOf(l) /\ Holder!LinksOf(l)' = <<link>> \o li
      BY ONLY <2>2, <2>4, <1>8
    <3>3. li \in Seq(HolderLink)
      BY ONLY <3>2, <2>2, <1>1, LinksOfType
    <3>4. Linked(<<link>> \o li, u) <=> Linked(li, u)
      BY ONLY <3>1, <3>3, link \in HolderLink, LinkedInFront
    <3>. QED  BY ONLY <3>2, <3>4, <2>2 DEF SameLinks
  <2>. QED  BY ONLY <2>2, <2>3, <2>4, <1>6, <1>8
<1>12. Extends
  BY ONLY <1>2, <1>5, <1>6, <1>7, <1>9, <1>11 DEF Extends
<1>13. UsesGrow
  <2>1. ASSUME NEW u \in uses', u \notin uses
        PROVE  u = w
    BY ONLY <2>1, <1>9
  <2>2. ASSUME NEW v \in uses'
        PROVE  w = v \/ (Apart(w, v) /\ Apart(v, w))
    BY ONLY <2>2, <1>4, <1>9
  <2>. QED  BY ONLY <2>1, <2>2,
            UseFits(w, Len(holderEntries'), data', relocations', Holder!LinksOf(w.of)', Place(w.of)',
                    failed' \/ binding'.err) DEF UsesGrow
<1>14. LinksGrow
  <2>1. ASSUME NEW l \in DOMAIN holderEntries
        PROVE  /\ \/ Holder!LinksOf(l)' = Holder!LinksOf(l)
                  \/ \E link \in HolderLink : \E u \in uses' :
                        /\ Holder!LinksOf(l)' = <<link>> \o Holder!LinksOf(l)
                        /\ u.of = l /\ LinkFits(link, u, data', relocations')
                        /\ \A v \in uses : v.at # u.at
               /\ holderEntries'[l].offset # -1 => holderEntries'[l].links = << >>
    <3>1. holderEntries[l].offset # -1 => holderEntries[l].links = << >>
      BY ONLY <1>1, l \in DOMAIN holderEntries DEF LinksFit
    <3>2. holderEntries'[l].offset = holderEntries[l].offset
      BY ONLY <1>6, l \in DOMAIN holderEntries
    <3>3. CASE holderEntries'[l].links = holderEntries[l].links
      BY ONLY <3>1, <3>2, <3>3, <1>8, l \in DOMAIN holderEntries
    <3>4. ASSUME NEW link \in HolderLink, w.of = l, holderEntries[l].offset = -1,
                 LinkFits(link, w, data', relocations'),
                 holderEntries'[l].links = <<link>> \o holderEntries[l].links
          PROVE  /\ \E li \in HolderLink : \E u \in uses' :
                        /\ Holder!LinksOf(l)' = <<li>> \o Holder!LinksOf(l)
                        /\ u.of = l /\ LinkFits(li, u, data', relocations')
                        /\ \A v \in uses : v.at # u.at
                 /\ holderEntries'[l].offset = -1
      <4>1. Holder!LinksOf(l)' = <<link>> \o Holder!LinksOf(l)
        BY ONLY <3>4, <1>8, l \in DOMAIN holderEntries
      <4>2. w \in uses' /\ \A v \in uses : v.at # w.at
        BY ONLY <1>4, <1>9
      <4>. QED  BY ONLY <4>1, <4>2, <3>2, <3>4
    <3>. QED  BY ONLY <3>3, <3>4, <1>6, l \in DOMAIN holderEntries
  <2>2. DOMAIN holderEntries' = DOMAIN holderEntries
    BY ONLY <1>6
  <2>3. ASSUME NEW l \in DOMAIN holderEntries'
        PROVE  /\ \/ Holder!LinksOf(l)' = << >>
                  \/ l \in DOMAIN holderEntries /\ Holder!LinksOf(l)' = Holder!LinksOf(l)
                  \/ /\ l \in DOMAIN holderEntries
                     /\ \E link \in HolderLink : \E u \in uses' :
                           /\ Holder!LinksOf(l)' = <<link>> \o Holder!LinksOf(l)
                           /\ u.of = l /\ LinkFits(link, u, data', relocations')
                           /\ \A v \in uses : v.at # u.at
               /\ holderEntries'[l].offset # -1 => holderEntries'[l].links = << >>
    <3>1. l \in DOMAIN holderEntries
      BY ONLY <2>2, l \in DOMAIN holderEntries'
    <3>. QED  BY ONLY <3>1, <2>1
  <2>. QED  BY ONLY <2>3 DEF LinksGrow
<1>15. RelocsGrow
  BY ONLY <1>5, <1>9 DEF RelocsGrow
<1>. QED  BY ONLY <1>3, <1>10, <1>12, <1>13, <1>14, <1>15 DEF Grows

\* A link for the use is made.
LEMMA LinkMade ==
    ASSUME HolderTypeOK, NEW w, NEW l \in DOMAIN holderEntries, w.of = l, holderEntries[l].offset = -1,
           NEW offset \in Nat, NEW rel \in Int, NEW relocId \in Nat, Holder!Link(l, offset, rel, relocId),
           LinkFits([offset |-> offset, rel |-> rel, relocId |-> relocId], w, data', relocations'),
           Holder!Idle, binding' = binding
    PROVE  /\ LinksMore(w) /\ holderEntries' \in Seq(HolderEntry)
           /\ unresolvedLabelsCount' = unresolvedLabelsCount + 1
           /\ w.at = offset => Linked(Holder!LinksOf(l)', w)
           /\ HolderTypeOK' /\ Counted => Counted'
<1>1. PICK link, old, entry : /\ link = [offset |-> offset, rel |-> rel, relocId |-> relocId]
                              /\ old = holderEntries[l].links
                              /\ entry = [offset |-> -1, links |-> <<link>> \o old]
  <2>1. PICK link, old : /\ link = [offset |-> offset, rel |-> rel, relocId |-> relocId]
                         /\ old = holderEntries[l].links
    OBVIOUS
  <2>. QED  BY <2>1
<1>2. /\ holderEntries' = [holderEntries EXCEPT ![l].links = <<link>> \o old]
      /\ unresolvedLabelsCount' = unresolvedLabelsCount + 1
  BY <1>1 DEF Holder!Link
<1>3. holderEntries \in Seq(HolderEntry) /\ Len(holderEntries) \in Nat
      /\ DOMAIN holderEntries = 1..Len(holderEntries)
  BY ONLY HolderTypeOK, HolderTypes
<1>4. holderEntries[l] \in HolderEntry
  BY ONLY <1>3, l \in DOMAIN holderEntries, ElementOfSeq
<1>5. [holderEntries[l] EXCEPT !.links = <<link>> \o old] = entry
  <2>1. PICK e, li : e = holderEntries[l] /\ li = <<link>> \o old
    OBVIOUS
  <2>2. e = [offset |-> -1, links |-> e.links]
    BY ONLY <2>1, <1>4, holderEntries[l].offset = -1 DEF HolderEntry
  <2>3. [e EXCEPT !.links = li] = [offset |-> -1, links |-> li]
    BY ONLY <2>2
  <2>. QED  BY ONLY <2>1, <2>3, <1>1
<1>6. holderEntries' = [holderEntries EXCEPT ![l] = entry]
  BY ONLY <1>2, <1>5
<1>7. old \in Seq(HolderLink)
  BY ONLY <1>1, <1>4 DEF HolderEntry
<1>8. link \in HolderLink
  BY ONLY <1>1, offset \in Nat, rel \in Int, relocId \in Nat DEF HolderLink
<1>9. <<link>> \o old \in Seq(HolderLink) /\ Len(<<link>> \o old) = Len(old) + 1
  BY ONLY <1>7, <1>8, LinkInFront
<1>10. entry \in HolderEntry /\ entry.links = <<link>> \o old
  BY ONLY <1>1, <1>9 DEF HolderEntry
<1>11. holderEntries' \in Seq(HolderEntry)
  BY ONLY <1>3, <1>6, <1>10, l \in DOMAIN holderEntries, ExceptSeq
<1>12. LinksMore(w)
  <2>1. holderEntries' = [holderEntries EXCEPT ![w.of] = [offset |-> -1, links |-> <<link>> \o holderEntries[w.of].links]]
    BY ONLY <1>1, <1>6, w.of = l
  <2>2. w.of \in DOMAIN holderEntries /\ holderEntries[w.of].offset = -1
    BY ONLY w.of = l, l \in DOMAIN holderEntries, holderEntries[l].offset = -1
  <2>3. LinkFits(link, w, data', relocations')
    BY ONLY <1>1, LinkFits([offset |-> offset, rel |-> rel, relocId |-> relocId], w, data', relocations')
  <2>. QED  BY ONLY <2>1, <2>2, <2>3, <1>8 DEF LinksMore
<1>13. binding.label = 0 /\ binding'.label = 0
  BY ONLY Holder!Idle, binding' = binding DEF Holder!Idle
<1>14. \A m \in DOMAIN holderEntries : m # 0
  BY ONLY <1>3
<1>15. /\ DOMAIN holderEntries' = DOMAIN holderEntries
       /\ holderEntries'[l] = entry
       /\ \A m \in DOMAIN holderEntries : m # l => holderEntries'[m] = holderEntries[m]
  BY ONLY <1>6, l \in DOMAIN holderEntries
<1>16. \A m \in DOMAIN holderEntries : /\ Holder!LinksOf(m) = holderEntries[m].links
                                       /\ Holder!LinksOf(m)' = holderEntries'[m].links
  BY ONLY <1>13, <1>14 DEF Holder!LinksOf
<1>17. Holder!LinksOf(l) = old /\ Holder!LinksOf(l)' = <<link>> \o old
  BY ONLY <1>1, <1>10, <1>15, <1>16, l \in DOMAIN holderEntries
<1>18. ASSUME w.at = offset PROVE Linked(Holder!LinksOf(l)', w)
  <2>1. link.offset = w.at
    BY ONLY <1>1, <1>18
  <2>2. Linked(<<link>> \o old, w)
    BY ONLY <2>1, <1>7, <1>8, LinkedInFront
  <2>. QED  BY ONLY <2>2, <1>17
<1>19. ASSUME HolderTypeOK', Counted PROVE Counted'
  <2>1. Len(Holder!LinksOf(l)') = Len(Holder!LinksOf(l)) + 1
    BY ONLY <1>9, <1>17
  <2>2. \A m \in DOMAIN holderEntries : m # l => Holder!LinksOf(m)' = Holder!LinksOf(m)
    BY ONLY <1>15, <1>16
  <2>. QED  BY ONLY <2>1, <2>2, <1>2, <1>15, <1>19, HolderTypeOK, l \in DOMAIN holderEntries, CountedMore
<1>. QED  BY ONLY <1>2, <1>11, <1>12, <1>18, <1>19

\* A label that is bound has no links.
LEMMA BoundNotLinked ==
    ASSUME HolderTypeOK, LinksFit, Holder!Idle, NEW l \in DOMAIN holderEntries, holderEntries[l].offset # -1, NEW u,
           holderEntries' = holderEntries, binding' = binding
    PROVE  ~Linked(Holder!LinksOf(l), u) /\ ~Linked(Holder!LinksOf(l)', u)
<1>1. holderEntries[l].links = << >>
  BY ONLY LinksFit, l \in DOMAIN holderEntries, holderEntries[l].offset # -1 DEF LinksFit
<1>2. l # 0
  <2>1. DOMAIN holderEntries = 1..Len(holderEntries) /\ Len(holderEntries) \in Nat
    BY ONLY HolderTypeOK, HolderTypes
  <2>. QED  BY ONLY <2>1, l \in DOMAIN holderEntries
<1>3. Holder!LinksOf(l) = << >> /\ Holder!LinksOf(l)' = << >>
  BY ONLY <1>1, <1>2, Holder!Idle, holderEntries' = holderEntries, binding' = binding
     DEF Holder!Idle, Holder!LinksOf
<1>4. DOMAIN << >> = {}
  OBVIOUS
<1>. QED  BY ONLY <1>3, <1>4 DEF Linked

\* The trampolines that may be needed, and one more.
LEMMA TrampolinesFinite ==
    ASSUME NEW rs \in Seq(HolderReloc), NEW n
    PROVE  IsFiniteSet(Trampolines(rs, n))
<1>1. DOMAIN rs = 1..Len(rs) /\ Len(rs) \in Nat
  OBVIOUS
<1>2. IsFiniteSet(1..Len(rs))
  BY ONLY <1>1, FS_Interval, 1 \in Int, Len(rs) \in Int
<1>3. Trampolines(rs, n) \subseteq 1..Len(rs)
  BY ONLY <1>1 DEF Trampolines
<1>. QED  BY ONLY <1>2, <1>3, FS_Subset

LEMMA TrampolinesAppended ==
    ASSUME NEW rs \in Seq(HolderReloc), NEW re \in HolderReloc
    PROVE  Cardinality(Trampolines(Append(rs, re), 1)) =
              Cardinality(Trampolines(rs, 1)) + (IF re.type = "Trampoline" THEN 1 ELSE 0)
<1>1. PICK n, rs2, T, T2 : /\ n = Len(rs) /\ rs2 = Append(rs, re) /\ T = Trampolines(rs, 1)
                           /\ T2 = Trampolines(Append(rs, re), 1)
  OBVIOUS
<1>2. n \in Nat
  BY <1>1
<1>3. DOMAIN rs = 1..n /\ DOMAIN rs2 = 1..n + 1 /\ rs2[n + 1] = re /\ \A r \in 1..n : rs2[r] = rs[r]
  BY ONLY <1>1, <1>2, rs \in Seq(HolderReloc), re \in HolderReloc
<1>4. /\ \A r : r \in 1..n + 1 <=> r \in 1..n \/ r = n + 1
      /\ n + 1 \notin 1..n /\ n + 1 >= 1
  BY ONLY <1>2
<1>5. T = {r \in 1..n : r >= 1 /\ rs[r].type = "Trampoline"}
  BY ONLY <1>1, <1>3 DEF Trampolines
<1>6. T2 = {r \in 1..n + 1 : r >= 1 /\ rs2[r].type = "Trampoline"}
  BY ONLY <1>1, <1>3 DEF Trampolines
<1>7. IsFiniteSet(T) /\ Cardinality(T) \in Nat
  BY ONLY <1>1, rs \in Seq(HolderReloc), TrampolinesFinite, FS_CardinalityType
<1>8. CASE re.type = "Trampoline"
  <2>1. T2 = T \cup {n + 1} /\ n + 1 \notin T
    BY ONLY <1>3, <1>4, <1>5, <1>6, <1>8
  <2>2. Cardinality(T2) = Cardinality(T) + 1
    BY ONLY <2>1, <1>7, FS_AddElement
  <2>. QED  BY ONLY <2>2, <1>1, <1>8
<1>9. CASE re.type # "Trampoline"
  <2>1. T2 = T
    BY ONLY <1>3, <1>4, <1>5, <1>6, <1>9
  <2>. QED  BY ONLY <2>1, <1>1, <1>7, <1>9
<1>. QED  BY ONLY <1>8, <1>9

\* What a use that fits its code, its relocation and its link leaves.
LEMMA EmitsKeeps ==
    ASSUME HolderInv, HolderTypeOK', NEW w, NEW new, Emits(w, new), RelocsMore(w), LinksMore(w),
           UseFits(w, Len(holderEntries'), data', relocations', Holder!LinksOf(w.of)', Place(w.of)',
                   failed' \/ binding'.err), Counted', TrampolinesFit'
    PROVE  HolderInv'
<1>1. Grows /\ BufferInOrder' /\ copy'.base = 0
  BY ONLY HolderInv, HolderTypeOK', Emits(w, new), RelocsMore(w), LinksMore(w),
          UseFits(w, Len(holderEntries'), data', relocations', Holder!LinksOf(w.of)', Place(w.of)',
                  failed' \/ binding'.err), EmitsGrows
<1>. QED  BY ONLY <1>1, HolderInv, HolderTypeOK', Counted', TrampolinesFit', GrowsKeeps

\* The bytes of a call.
LEMMA CallBytes ==
    ASSUME NEW new, new = Holder!Zeroes(1) \o Holder!Bytes(232, 1) \o Holder!Zeroes(4)
    PROVE  new \in Seq(Byte) /\ Len(new) = 6 /\ new[2] = <<232, 1, 1>>
<1>1. PICK z, b, y : z = Holder!Zeroes(1) /\ b = Holder!Bytes(232, 1) /\ y = Holder!Zeroes(4)
  OBVIOUS
<1>2. z \in Seq(Byte) /\ Len(z) = 1 /\ y \in Seq(Byte) /\ Len(y) = 4
  BY ONLY <1>1, ZeroesAre, 1 \in Nat, 4 \in Nat
<1>3. b \in Seq(Byte) /\ Len(b) = 1 /\ b[1] = <<232, 1, 1>>
  <2>1. 232 \in Int /\ 1 \in Nat /\ 1 \in 1..1
    OBVIOUS
  <2>2. /\ Holder!Bytes(232, 1) \in Seq(Byte) /\ Len(Holder!Bytes(232, 1)) = 1
        /\ \A k \in 1..1 : Holder!Bytes(232, 1)[k] = <<232, k, 1>>
    BY ONLY <2>1, BytesAre
  <2>. QED  BY ONLY <2>1, <2>2, <1>1
<1>4. z \o b \in Seq(Byte) /\ Len(z \o b) = 2 /\ (z \o b)[2] = b[1]
  BY ONLY <1>2, <1>3, ConcatProperties
<1>5. (z \o b) \o y \in Seq(Byte) /\ Len((z \o b) \o y) = 6 /\ ((z \o b) \o y)[2] = (z \o b)[2]
  <2>1. PICK c \in Seq(Byte) : c = z \o b /\ Len(c) = 2
    BY ONLY <1>4
  <2>2. /\ c \o y \in Seq(Byte) /\ Len(c \o y) = Len(c) + Len(y)
        /\ \A i \in 1..Len(c) + Len(y) : (c \o y)[i] = IF i <= Len(c) THEN c[i] ELSE y[i - Len(c)]
    BY ONLY <1>2, ConcatProperties
  <2>3. 2 \in 1..Len(c) + Len(y) /\ 2 <= Len(c) /\ Len(c) + Len(y) = 6
    BY ONLY <2>1, <1>2
  <2>4. (c \o y)[2] = c[2]
    BY ONLY <2>2, <2>3
  <2>. QED  BY ONLY <2>1, <2>2, <2>3, <2>4
<1>. QED  BY <1>1, <1>3, <1>4, <1>5

LEMMA EmitCallStep ==
    ASSUME HolderInv, NEW target \in Targets, Holder!EmitCall(target)
    PROVE  HolderInv'
<1>1. HolderTypeOK /\ BufferInOrder /\ UsesFit /\ RelocsFit /\ LinksFit /\ Counted /\ TrampolinesFit
  BY DEF HolderInv
<1>2. PICK new, w, re : /\ new = Holder!Zeroes(1) \o Holder!Bytes(232, 1) \o Holder!Zeroes(4)
                        /\ w = Holder!Use(6, "call", target)
                        /\ re = Holder!Reloc("Trampoline", bufferPtr + 2, 4, target)
  OBVIOUS
<1>3. /\ Holder!Idle /\ attached /\ Holder!Emitted(new, {w})
      /\ relocations' = Append(relocations, re) /\ trampolinesSize' = trampolinesSize + 8
      /\ length' = length /\ holderEntries' = holderEntries
      /\ unresolvedLabelsCount' = unresolvedLabelsCount
      /\ attached' = attached /\ lastError' = lastError
      /\ binding' = binding /\ copy' = copy /\ failed' = failed
  BY <1>2 DEF Holder!EmitCall, Holder!Ready
<1>4. new \in Seq(Byte) /\ Len(new) = 6 /\ new[2] = <<232, 1, 1>>
  BY ONLY <1>2, CallBytes
<1>5. EmittedOK(new, {w})
  BY ONLY <1>1, <1>3, <1>4, EmittedWrites
<1>6. /\ data' \in Seq(Byte) /\ bufferPtr' \in Nat /\ uses' = uses \cup {w}
      /\ Len(data') = Holder!Synced' /\ Len(data) <= Len(data')
      /\ Holds(data', bufferPtr, new)
  BY ONLY <1>5 DEF EmittedOK
<1>7. target \in Int
  BY HolderAssumption DEF Holder!HolderAssumption
<1>8. /\ bufferPtr \in Nat /\ trampolinesSize \in Nat
      /\ relocations \in Seq(HolderReloc)
  BY ONLY <1>1, HolderTypes
<1>9. w \in HolderUse /\ w.at = bufferPtr /\ w.size = 6 /\ w.kind = "call" /\ w.of = target
  BY ONLY <1>2, <1>7, <1>8 DEF HolderUse, Holder!Use
<1>10. re \in HolderReloc /\ RelocOf(re, w) /\ re.type = "Trampoline"
  <2>1. re = [type |-> "Trampoline", source |-> bufferPtr + 2, size |-> 4, data |-> target]
    BY ONLY <1>2 DEF Holder!Reloc
  <2>2. bufferPtr + 2 \in Nat /\ 4 \in Nat
    BY ONLY <1>8
  <2>. QED  BY ONLY <2>1, <2>2, <1>7, <1>9 DEF HolderReloc, RelocOf
<1>11. HolderTypeOK'
  <2>1. Append(relocations, re) \in Seq(HolderReloc)
    BY ONLY <1>8, <1>10
  <2>2. uses' \in SUBSET HolderUse
    BY ONLY <1>1, <1>6, <1>9 DEF HolderTypeOK
  <2>3. trampolinesSize' \in Nat
    BY ONLY <1>3, <1>8
  <2>. QED  BY ONLY <2>1, <2>2, <2>3, <1>1, <1>3, <1>6 DEF HolderTypeOK
<1>12. Emits(w, new)
  <2>1. w.size = Len(new) /\ w.size >= 1
    BY ONLY <1>4, <1>9
  <2>. QED  BY ONLY <2>1, <1>3, <1>4, <1>5, <1>9 DEF Emits
<1>13. \A u \in uses : u.at # w.at
  <2>1. w.size = Len(new) /\ w.size >= 1
    BY ONLY <1>4, <1>9
  <2>. QED  BY ONLY <2>1, <1>1, <1>4, <1>5, <1>9, NewUseApart
<1>14. Served(relocations', w)
  BY ONLY <1>1, <1>3, <1>9, <1>10, <1>13, RelocAppended
<1>15. UseFits(w, Len(holderEntries'), data', relocations', Holder!LinksOf(w.of)', Place(w.of)',
               failed' \/ binding'.err)
  <2>1. bufferPtr + 6 <= Len(data') /\ data'[bufferPtr + 2] = <<232, 1, 1>>
    <3>1. bufferPtr + Len(new) <= Len(data') /\ \A k \in 1..Len(new) : data'[bufferPtr + k] = new[k]
      BY ONLY <1>6 DEF Holds
    <3>2. 2 \in 1..Len(new)
      BY ONLY <1>4
    <3>. QED  BY ONLY <3>1, <3>2, <1>4
  <2>2. CallFits(w, data', relocations')
    BY ONLY <2>1, <1>9, <1>14 DEF CallFits
  <2>. QED  BY ONLY <2>1, <2>2, <1>9 DEF UseFits
<1>16. Counted'
  <2>1. LinksSame
    BY ONLY <1>3 DEF LinksSame, Holder!LinksOf
  <2>. QED  BY ONLY <2>1, <1>1, <1>3, CountedStays
<1>17. TrampolinesFit'
  <2>1. PICK c, d : /\ c \in Nat /\ c = Cardinality(Trampolines(relocations, 1))
                    /\ d = Cardinality(Trampolines(relocations', 1))
    BY ONLY <1>8, TrampolinesFinite, FS_CardinalityType
  <2>2. d = c + 1
    BY ONLY <2>1, <1>3, <1>8, <1>10, TrampolinesAppended
  <2>3. trampolinesSize = 8 * c
    BY ONLY <2>1, <1>1 DEF TrampolinesFit
  <2>4. trampolinesSize' = 8 * d
    BY ONLY <2>1, <2>2, <2>3, <1>3
  <2>. QED  BY ONLY <2>1, <2>4 DEF TrampolinesFit
<1>18. RelocsMore(w) /\ LinksMore(w)
  BY ONLY <1>3, <1>10 DEF RelocsMore, LinksMore
<1>. QED  BY ONLY <1>11, <1>12, <1>15, <1>16, <1>17, <1>18, HolderInv, EmitsKeeps

\* What Emitted does for a use.
LEMMA UseEmitted ==
    ASSUME HolderInv, NEW new \in Seq(Byte), NEW w \in HolderUse, w.at = bufferPtr, w.size = Len(new), w.size >= 1,
           Holder!Idle, attached, Holder!Emitted(new, {w}),
           UNCHANGED <<length, attached, lastError, binding, copy, failed>>
    PROVE  /\ Emits(w, new) /\ \A u \in uses : u.at # w.at
           /\ data' \in Seq(Byte) /\ bufferPtr' \in Nat /\ uses' \in SUBSET HolderUse
           /\ w.at + w.size <= Len(data') /\ \A k \in 1..Len(new) : data'[w.at + k] = new[k]
<1>1. HolderTypeOK /\ BufferInOrder /\ UsesFit
  BY DEF HolderInv
<1>2. /\ length' = length /\ attached' = attached /\ lastError' = lastError
      /\ binding' = binding /\ copy' = copy /\ failed' = failed
  OBVIOUS
<1>3. EmittedOK(new, {w})
  BY ONLY <1>1, <1>2, new \in Seq(Byte), Holder!Emitted(new, {w}), EmittedWrites
<1>4. Emits(w, new)
  BY ONLY <1>2, <1>3, Holder!Idle, attached, new \in Seq(Byte), w \in HolderUse, w.at = bufferPtr,
          w.size = Len(new), w.size >= 1 DEF Emits
<1>5. \A u \in uses : u.at # w.at
  BY ONLY <1>1, <1>3, new \in Seq(Byte), w \in HolderUse, w.at = bufferPtr, w.size = Len(new), w.size >= 1,
          NewUseApart
<1>6. data' \in Seq(Byte) /\ bufferPtr' \in Nat /\ uses' = uses \cup {w} /\ Holds(data', bufferPtr, new)
  BY ONLY <1>3 DEF EmittedOK
<1>7. uses' \in SUBSET HolderUse
  BY ONLY <1>1, <1>6, w \in HolderUse DEF HolderTypeOK
<1>8. w.at + w.size <= Len(data') /\ \A k \in 1..Len(new) : data'[w.at + k] = new[k]
  BY ONLY <1>6, w.at = bufferPtr, w.size = Len(new) DEF Holds
<1>. QED  BY ONLY <1>4, <1>5, <1>6, <1>7, <1>8

LEMMA EmitJumpStep ==
    ASSUME HolderInv, NEW l \in DOMAIN holderEntries, NEW s \in {1, 4}, Holder!EmitJump(l, s)
    PROVE  HolderInv'
<1>1. HolderTypeOK /\ BufferInOrder /\ UsesFit /\ RelocsFit /\ LinksFit /\ Counted /\ TrampolinesFit
  BY DEF HolderInv
<1>2. PICK w, distance, off, mark : /\ w = Holder!Use(s, "jump", l)
                                    /\ off = holderEntries[l].offset
                                    /\ distance = holderEntries[l].offset - (bufferPtr + s)
                                    /\ mark = [k \in 1..s |-> <<s, 1, 1>>]
  OBVIOUS
<1>3. /\ Holder!Idle /\ attached
      /\ length' = length /\ trampolinesSize' = trampolinesSize /\ relocations' = relocations
      /\ attached' = attached /\ lastError' = lastError
      /\ binding' = binding /\ copy' = copy /\ failed' = failed
  BY DEF Holder!EmitJump, Holder!Ready
<1>4. \/ /\ off # -1 /\ Holder!Emitted(Holder!Bytes(distance, s), {w})
         /\ holderEntries' = holderEntries /\ unresolvedLabelsCount' = unresolvedLabelsCount
      \/ /\ off = -1 /\ Holder!Emitted(mark, {w}) /\ Holder!Link(l, bufferPtr, -s, 0)
  BY <1>2 DEF Holder!EmitJump
<1>5. /\ bufferPtr \in Nat /\ s \in Nat /\ s >= 1 /\ Len(holderEntries) \in Nat
      /\ DOMAIN holderEntries = 1..Len(holderEntries) /\ holderEntries \in Seq(HolderEntry)
  BY ONLY <1>1, s \in {1, 4}, HolderTypes
<1>6. l \in Int /\ l # 0
  BY ONLY <1>5, l \in DOMAIN holderEntries
<1>7. off \in Int
  <2>1. holderEntries[l] \in HolderEntry
    BY ONLY <1>5, l \in DOMAIN holderEntries, ElementOfSeq
  <2>. QED  BY ONLY <2>1, <1>2 DEF HolderEntry
<1>8. w \in HolderUse /\ w.at = bufferPtr /\ w.size = s /\ w.kind = "jump" /\ w.of = l
  BY ONLY <1>2, <1>5, <1>6 DEF HolderUse, Holder!Use
<1>9. binding.label = 0 /\ binding'.label = 0
  BY ONLY <1>3 DEF Holder!Idle
<1>10. CASE off # -1
  <2>1. PICK new : new = Holder!Bytes(distance, s)
    OBVIOUS
  <2>2. /\ Holder!Emitted(new, {w})
        /\ holderEntries' = holderEntries /\ unresolvedLabelsCount' = unresolvedLabelsCount
    BY ONLY <1>4, <1>10, <2>1
  <2>3. distance \in Int
    BY ONLY <1>2, <1>5, <1>7
  <2>4. new \in Seq(Byte) /\ Len(new) = s
    BY ONLY <2>1, <2>3, <1>5, BytesAre
  <2>5. /\ Emits(w, new) /\ \A u \in uses : u.at # w.at
        /\ data' \in Seq(Byte) /\ bufferPtr' \in Nat /\ uses' \in SUBSET HolderUse
        /\ w.at + w.size <= Len(data') /\ \A k \in 1..Len(new) : data'[w.at + k] = new[k]
    BY ONLY HolderInv, <1>3, <1>5, <1>8, <2>2, <2>4, UseEmitted
  <2>6. HolderTypeOK'
    BY ONLY <1>1, <1>3, <2>2, <2>5 DEF HolderTypeOK
  <2>7. Place(w.of)' = off
    BY ONLY <1>2, <1>6, <1>8, <1>9, <2>2 DEF Place
  <2>8. JumpFits(w, Len(holderEntries'), data', Holder!LinksOf(w.of)', Place(w.of)', failed' \/ binding'.err)
    <3>1. w.of \in 1..Len(holderEntries')
      BY ONLY <1>5, <1>8, <2>2, l \in DOMAIN holderEntries
    <3>2. Place(w.of)' # -1
      BY ONLY <2>7, <1>10
    <3>3. Place(w.of)' - (w.at + w.size) = distance
      BY ONLY <2>7, <1>2, <1>8
    <3>4. Holds(data', w.at, new)
      BY ONLY <2>4, <2>5, <1>8 DEF Holds
    <3>5. Holds(data', w.at, Holder!Bytes(Place(w.of)' - (w.at + w.size), w.size))
      BY ONLY <3>3, <3>4, <2>1, <1>8
    <3>6. w.size \in {1, 4}
      BY ONLY <1>8, s \in {1, 4}
    <3>. QED  BY ONLY <3>1, <3>2, <3>5, <3>6 DEF JumpFits
  <2>9. UseFits(w, Len(holderEntries'), data', relocations', Holder!LinksOf(w.of)', Place(w.of)',
                failed' \/ binding'.err)
    BY ONLY <2>5, <2>8, <1>5, <1>8 DEF UseFits
  <2>10. LinksSame
    BY ONLY <1>3, <2>2 DEF LinksSame, Holder!LinksOf
  <2>11. Counted'
    BY ONLY <2>10, <1>1, <2>2, CountedStays
  <2>12. TrampolinesFit'
    BY ONLY <1>1, <1>3 DEF TrampolinesFit, Trampolines
  <2>13. RelocsMore(w) /\ LinksMore(w)
    BY ONLY <1>3, <2>2 DEF RelocsMore, LinksMore
  <2>. QED  BY ONLY <2>5, <2>6, <2>9, <2>11, <2>12, <2>13, HolderInv, EmitsKeeps
<1>11. CASE off = -1
  <2>1. Holder!Emitted(mark, {w}) /\ Holder!Link(l, bufferPtr, -s, 0)
    BY ONLY <1>4, <1>11
  <2>2. mark \in Seq(Byte) /\ Len(mark) = s /\ 1 \in 1..Len(mark) /\ mark[1] = <<s, 1, 1>>
    <3>1. \A k \in 1..s : <<s, 1, 1>> \in Byte
      BY ONLY <1>5 DEF Byte
    <3>2. mark \in Seq(Byte) /\ Len(mark) = s
      <4>1. mark \in [1..s -> Byte]
        BY ONLY <1>2, <3>1
      <4>. QED  BY ONLY <4>1, <1>5
    <3>3. 1 \in 1..s
      BY ONLY <1>5
    <3>. QED  BY ONLY <3>2, <3>3, <1>2
  <2>3. /\ Emits(w, mark) /\ \A u \in uses : u.at # w.at
        /\ data' \in Seq(Byte) /\ bufferPtr' \in Nat /\ uses' \in SUBSET HolderUse
        /\ w.at + w.size <= Len(data') /\ \A k \in 1..Len(mark) : data'[w.at + k] = mark[k]
    BY ONLY HolderInv, <1>3, <1>5, <1>8, <2>1, <2>2, UseEmitted
  <2>4. PICK link : link = [offset |-> bufferPtr, rel |-> -s, relocId |-> 0]
    OBVIOUS
  <2>5. LinkFits([offset |-> bufferPtr, rel |-> -s, relocId |-> 0], w, data', relocations')
    <3>1. data'[w.at + 1] = <<w.size, 1, 1>>
      BY ONLY <2>2, <2>3, <1>8
    <3>2. link.offset = w.at /\ link.rel = -w.size /\ link.relocId = 0
      BY ONLY <2>4, <1>8
    <3>3. LinkFits(link, w, data', relocations')
      BY ONLY <3>1, <3>2, <1>8 DEF LinkFits
    <3>. QED  BY ONLY <3>3, <2>4
  <2>6. /\ LinksMore(w) /\ holderEntries' \in Seq(HolderEntry)
        /\ unresolvedLabelsCount' = unresolvedLabelsCount + 1
        /\ w.at = bufferPtr => Linked(Holder!LinksOf(l)', w)
        /\ HolderTypeOK' /\ Counted => Counted'
    <3>1. -s \in Int /\ 0 \in Nat
      BY ONLY <1>5
    <3>2. holderEntries[l].offset = -1
      BY ONLY <1>2, <1>11
    <3>. QED  BY ONLY <3>1, <3>2, <1>1, <1>3, <1>5, <1>8, <2>1, <2>5, l \in DOMAIN holderEntries, LinkMade
  <2>7. HolderTypeOK'
    <3>1. unresolvedLabelsCount' \in Int
      BY ONLY <2>6, <1>1, HolderTypes
    <3>. QED  BY ONLY <3>1, <1>1, <1>3, <2>3, <2>6 DEF HolderTypeOK
  <2>8. JumpFits(w, Len(holderEntries'), data', Holder!LinksOf(w.of)', Place(w.of)', failed' \/ binding'.err)
    <3>1. w.of \in 1..Len(holderEntries')
      <4>1. Len(holderEntries') = Len(holderEntries)
        BY ONLY <2>6, <1>1, LinksMoreKeeps
      <4>. QED  BY ONLY <4>1, <1>5, <1>8, l \in DOMAIN holderEntries
    <3>2. Linked(Holder!LinksOf(w.of)', w)
      BY ONLY <2>6, <1>8
    <3>3. w.size \in {1, 4}
      BY ONLY <1>8, s \in {1, 4}
    <3>. QED  BY ONLY <3>1, <3>2, <3>3 DEF JumpFits
  <2>9. UseFits(w, Len(holderEntries'), data', relocations', Holder!LinksOf(w.of)', Place(w.of)',
                failed' \/ binding'.err)
    BY ONLY <2>3, <2>8, <1>5, <1>8 DEF UseFits
  <2>10. TrampolinesFit'
    BY ONLY <1>1, <1>3 DEF TrampolinesFit, Trampolines
  <2>11. RelocsMore(w)
    BY ONLY <1>3 DEF RelocsMore
  <2>. QED  BY ONLY <1>1, <2>3, <2>6, <2>7, <2>9, <2>10, <2>11, HolderInv, EmitsKeeps
<1>. QED  BY ONLY <1>10, <1>11

LEMMA EmbedLabelStep ==
    ASSUME HolderInv, NEW l \in DOMAIN holderEntries, Holder!EmbedLabel(l)
    PROVE  HolderInv'
<1>1. HolderTypeOK /\ BufferInOrder /\ UsesFit /\ RelocsFit /\ LinksFit /\ Counted /\ TrampolinesFit
  BY DEF HolderInv
<1>2. PICK new, w, off, re, n : /\ new = Holder!Zeroes(gpSize) /\ w = Holder!Use(gpSize, "address", l)
                                /\ off = holderEntries[l].offset
                                /\ re = Holder!Reloc("RelToAbs", bufferPtr, gpSize,
                                                     IF holderEntries[l].offset = -1 THEN 0 ELSE holderEntries[l].offset)
                                /\ n = Len(relocations) + 1
  OBVIOUS
<1>3. /\ Holder!Idle /\ attached /\ Holder!Emitted(new, {w})
      /\ relocations' = Append(relocations, re)
      /\ length' = length /\ trampolinesSize' = trampolinesSize
      /\ attached' = attached /\ lastError' = lastError
      /\ binding' = binding /\ copy' = copy /\ failed' = failed
  BY <1>2 DEF Holder!EmbedLabel, Holder!Ready
<1>4. \/ off = -1 /\ Holder!Link(l, bufferPtr, 0, n)
      \/ /\ off # -1
         /\ holderEntries' = holderEntries /\ unresolvedLabelsCount' = unresolvedLabelsCount
  BY <1>2 DEF Holder!EmbedLabel
<1>5. /\ bufferPtr \in Nat /\ Len(holderEntries) \in Nat /\ relocations \in Seq(HolderReloc)
      /\ DOMAIN holderEntries = 1..Len(holderEntries) /\ holderEntries \in Seq(HolderEntry)
      /\ n \in Nat
  BY ONLY <1>1, <1>2, HolderTypes
<1>6. gpSize \in Nat /\ gpSize >= 1
  <2>1. gpSize \in Nat \ {0}
    BY HolderAssumption DEF Holder!HolderAssumption
  <2>. QED  BY ONLY <2>1
<1>7. l \in Int /\ l # 0
  BY ONLY <1>5, l \in DOMAIN holderEntries
<1>8. off \in Int
  <2>1. holderEntries[l] \in HolderEntry
    BY ONLY <1>5, l \in DOMAIN holderEntries, ElementOfSeq
  <2>. QED  BY ONLY <2>1, <1>2 DEF HolderEntry
<1>9. w \in HolderUse /\ w.at = bufferPtr /\ w.size = gpSize /\ w.kind = "address" /\ w.of = l
  BY ONLY <1>2, <1>5, <1>6, <1>7 DEF HolderUse, Holder!Use
<1>10. new \in Seq(Byte) /\ Len(new) = gpSize
  BY ONLY <1>2, <1>6, ZeroesAre
<1>11. /\ re \in HolderReloc /\ RelocOf(re, w) /\ re.type = "RelToAbs"
       /\ re.data = IF off = -1 THEN 0 ELSE off
  <2>1. PICK d \in Int : d = IF off = -1 THEN 0 ELSE off
    BY ONLY <1>8
  <2>2. re = [type |-> "RelToAbs", source |-> bufferPtr, size |-> gpSize, data |-> d]
    BY ONLY <2>1, <1>2 DEF Holder!Reloc
  <2>. QED  BY ONLY <2>1, <2>2, <1>5, <1>6, <1>9 DEF HolderReloc, RelocOf
<1>12. /\ Emits(w, new) /\ \A u \in uses : u.at # w.at
       /\ data' \in Seq(Byte) /\ bufferPtr' \in Nat /\ uses' \in SUBSET HolderUse
       /\ w.at + w.size <= Len(data')
  BY ONLY HolderInv, <1>3, <1>6, <1>9, <1>10, UseEmitted
<1>13. /\ Served(relocations', w)
       /\ \A r \in DOMAIN relocations' : RelocOf(relocations'[r], w) => relocations'[r] = re
       /\ n \in DOMAIN relocations' /\ relocations'[n] = re
  BY ONLY <1>1, <1>2, <1>3, <1>9, <1>11, <1>12, RelocAppended
<1>14. relocations' \in Seq(HolderReloc)
  BY ONLY <1>3, <1>5, <1>11
<1>15. RelocsMore(w)
  BY ONLY <1>3, <1>11 DEF RelocsMore
<1>16. binding.label = 0 /\ binding'.label = 0
  BY ONLY <1>3 DEF Holder!Idle
<1>17. TrampolinesFit'
  <2>1. PICK c, d : /\ c \in Nat /\ c = Cardinality(Trampolines(relocations, 1))
                    /\ d = Cardinality(Trampolines(relocations', 1))
    BY ONLY <1>5, TrampolinesFinite, FS_CardinalityType
  <2>2. d = c
    <3>1. d = c + 0
      BY ONLY <2>1, <1>3, <1>5, <1>11, TrampolinesAppended
    <3>. QED  BY ONLY <3>1, <2>1
  <2>3. trampolinesSize = 8 * c
    BY ONLY <2>1, <1>1 DEF TrampolinesFit
  <2>. QED  BY ONLY <2>1, <2>2, <2>3, <1>3 DEF TrampolinesFit
<1>18. CASE off # -1
  <2>1. holderEntries' = holderEntries /\ unresolvedLabelsCount' = unresolvedLabelsCount
    BY ONLY <1>4, <1>18
  <2>2. HolderTypeOK'
    BY ONLY <1>1, <1>3, <2>1, <1>12, <1>14 DEF HolderTypeOK
  <2>3. Place(w.of)' = off
    BY ONLY <1>2, <1>7, <1>9, <1>16, <2>1 DEF Place
  <2>4. ~Linked(Holder!LinksOf(l)', w)
    <3>1. holderEntries[l].offset # -1
      BY ONLY <1>2, <1>18
    <3>. QED  BY ONLY <3>1, <1>1, <1>3, <2>1, l \in DOMAIN holderEntries, BoundNotLinked
  <2>5. AddressFits(w, Len(holderEntries'), relocations', Holder!LinksOf(w.of)', Place(w.of)')
    <3>1. w.of \in 1..Len(holderEntries')
      BY ONLY <1>5, <1>9, <2>1, l \in DOMAIN holderEntries
    <3>2. Place(w.of)' # -1
      BY ONLY <2>3, <1>18
    <3>3. \A r \in DOMAIN relocations' : RelocOf(relocations'[r], w) =>
             relocations'[r].data = IF Linked(Holder!LinksOf(w.of)', w) THEN 0 ELSE Place(w.of)'
      BY ONLY <1>11, <1>13, <1>18, <2>3, <2>4, <1>9
    <3>. QED  BY ONLY <3>1, <3>2, <3>3, <1>9, <1>13 DEF AddressFits
  <2>6. UseFits(w, Len(holderEntries'), data', relocations', Holder!LinksOf(w.of)', Place(w.of)',
                failed' \/ binding'.err)
    BY ONLY <2>5, <1>6, <1>9, <1>12 DEF UseFits
  <2>7. LinksSame
    BY ONLY <1>3, <2>1 DEF LinksSame, Holder!LinksOf
  <2>8. Counted'
    BY ONLY <2>7, <1>1, <2>1, CountedStays
  <2>9. LinksMore(w)
    BY ONLY <2>1 DEF LinksMore
  <2>. QED  BY ONLY <2>2, <2>6, <2>8, <2>9, <1>12, <1>15, <1>17, HolderInv, EmitsKeeps
<1>19. CASE off = -1
  <2>1. Holder!Link(l, bufferPtr, 0, n)
    BY ONLY <1>4, <1>19
  <2>2. PICK link : link = [offset |-> bufferPtr, rel |-> 0, relocId |-> n]
    OBVIOUS
  <2>3. LinkFits([offset |-> bufferPtr, rel |-> 0, relocId |-> n], w, data', relocations')
    <3>1. link.offset = w.at /\ link.relocId = n
      BY ONLY <2>2, <1>9
    <3>2. LinkFits(link, w, data', relocations')
      BY ONLY <3>1, <1>9, <1>11, <1>13 DEF LinkFits
    <3>. QED  BY ONLY <3>2, <2>2
  <2>4. /\ LinksMore(w) /\ holderEntries' \in Seq(HolderEntry)
        /\ unresolvedLabelsCount' = unresolvedLabelsCount + 1
        /\ w.at = bufferPtr => Linked(Holder!LinksOf(l)', w)
        /\ HolderTypeOK' /\ Counted => Counted'
    <3>1. 0 \in Int
      OBVIOUS
    <3>2. holderEntries[l].offset = -1
      BY ONLY <1>2, <1>19
    <3>. QED  BY ONLY <3>1, <3>2, <1>1, <1>3, <1>5, <1>9, <2>1, <2>3, l \in DOMAIN holderEntries, LinkMade
  <2>5. HolderTypeOK'
    <3>1. unresolvedLabelsCount' \in Int
      BY ONLY <2>4, <1>1, HolderTypes
    <3>. QED  BY ONLY <3>1, <1>1, <1>3, <1>12, <1>14, <2>4 DEF HolderTypeOK
  <2>6. AddressFits(w, Len(holderEntries'), relocations', Holder!LinksOf(w.of)', Place(w.of)')
    <3>1. w.of \in 1..Len(holderEntries')
      <4>1. Len(holderEntries') = Len(holderEntries)
        BY ONLY <2>4, <1>1, LinksMoreKeeps
      <4>. QED  BY ONLY <4>1, <1>5, <1>9, l \in DOMAIN holderEntries
    <3>2. Linked(Holder!LinksOf(w.of)', w)
      BY ONLY <2>4, <1>9
    <3>3. \A r \in DOMAIN relocations' : RelocOf(relocations'[r], w) =>
             relocations'[r].data = IF Linked(Holder!LinksOf(w.of)', w) THEN 0 ELSE Place(w.of)'
      BY ONLY <1>11, <1>13, <1>19, <3>2
    <3>. QED  BY ONLY <3>1, <3>2, <3>3, <1>9, <1>13 DEF AddressFits
  <2>7. UseFits(w, Len(holderEntries'), data', relocations', Holder!LinksOf(w.of)', Place(w.of)',
                failed' \/ binding'.err)
    BY ONLY <2>6, <1>6, <1>9, <1>12 DEF UseFits
  <2>. QED  BY ONLY <2>4, <2>5, <2>7, <1>1, <1>12, <1>15, <1>17, HolderInv, EmitsKeeps
<1>. QED  BY ONLY <1>18, <1>19

-----------------------------------------------------------------------------
(* CodeHolder: the steps of the loop that copies.                          *)

LEMMA CopyMoves ==
    ASSUME HolderInv, HolderTypeOK', Holder!Synced' = Holder!Synced, binding.label = 0,
           copy'.base # 0 => CopyFits',
           UNCHANGED <<data, trampolinesSize, holderEntries, relocations, unresolvedLabelsCount,
                       attached, bufferPtr, lastError, binding, uses, failed>>
    PROVE  HolderInv'
<1>1. /\ HolderTypeOK /\ BufferInOrder /\ UsesApart /\ UsesFit /\ RelocsFit /\ LinksFit /\ Counted
      /\ TrampolinesFit
  BY DEF HolderInv
<1>2. /\ data' = data /\ trampolinesSize' = trampolinesSize /\ holderEntries' = holderEntries
      /\ relocations' = relocations /\ unresolvedLabelsCount' = unresolvedLabelsCount
      /\ attached' = attached /\ bufferPtr' = bufferPtr /\ binding' = binding /\ uses' = uses
      /\ failed' = failed
  OBVIOUS
<1>3. BufferInOrder'
  <2>1. /\ Len(data) = Holder!Synced /\ (~attached => bufferPtr = 0)
        /\ binding.label = 0 => ~binding.err
        /\ binding.label \in 0..Len(holderEntries)
    BY ONLY <1>1 DEF BufferInOrder
  <2>. QED  BY ONLY <2>1, <1>2, Holder!Synced' = Holder!Synced, binding.label = 0 DEF BufferInOrder
<1>4. UsesApart'
  BY ONLY <1>1, <1>2 DEF UsesApart
<1>5. \A l : Holder!LinksOf(l)' = Holder!LinksOf(l) /\ Place(l)' = Place(l)
  BY ONLY <1>2 DEF Holder!LinksOf, Place
<1>6. UsesFit'
  BY ONLY <1>1, <1>2, <1>5 DEF UsesFit
<1>7. RelocsFit'
  BY ONLY <1>1, <1>2 DEF RelocsFit
<1>8. LinksFit'
  BY ONLY <1>1, <1>2, <1>5 DEF LinksFit
<1>9. LinksSame
  BY ONLY <1>2, <1>5 DEF LinksSame
<1>10. Counted'
  BY ONLY <1>1, <1>2, <1>9, CountedStays
<1>11. TrampolinesFit'
  BY ONLY <1>1, <1>2 DEF TrampolinesFit, Trampolines
<1>. QED  BY ONLY <1>3, <1>4, <1>6, <1>7, <1>8, <1>10, <1>11, HolderTypeOK', copy'.base # 0 => CopyFits'
          DEF HolderInv

LEMMA RelocateStep ==
    ASSUME HolderInv, NEW base \in Bases, Holder!Relocate(base)
    PROVE  HolderInv'
<1>1. HolderTypeOK /\ BufferInOrder /\ TrampolinesFit
  BY DEF HolderInv
<1>2. PICK m, c : m = Holder!Synced
                  /\ c = [base |-> base, next |-> 1, bytes |-> SubSeq(data, 1, Holder!Synced),
                          trampOffset |-> Holder!Synced]
  OBVIOUS
<1>3. /\ Holder!Idle /\ length' = m /\ copy' = c
      /\ data' = data /\ trampolinesSize' = trampolinesSize /\ holderEntries' = holderEntries
      /\ relocations' = relocations /\ unresolvedLabelsCount' = unresolvedLabelsCount
      /\ attached' = attached /\ bufferPtr' = bufferPtr /\ lastError' = lastError
      /\ binding' = binding /\ uses' = uses /\ failed' = failed
  BY <1>2 DEF Holder!Relocate, Holder!assembler
<1>4. /\ data \in Seq(Byte) /\ length \in Nat /\ bufferPtr \in Nat /\ trampolinesSize \in Nat
      /\ relocations \in Seq(HolderReloc)
  BY ONLY <1>1, HolderTypes
<1>5. m \in Nat /\ bufferPtr <= m /\ Len(data) = m
  <2>1. m = Holder!Larger(length, bufferPtr)
    BY ONLY <1>2 DEF Holder!Synced
  <2>2. Len(data) = m
    BY ONLY <1>1, <1>2 DEF BufferInOrder
  <2>. QED  BY ONLY <2>1, <2>2, <1>4, SyncedIs
<1>6. Holder!Synced' = m
  <2>1. Holder!Larger(m, bufferPtr) = m
    BY ONLY <1>5, <1>4 DEF Holder!Larger
  <2>. QED  BY ONLY <2>1, <1>3 DEF Holder!Synced
<1>7. SubSeq(data, 1, m) = data
  BY ONLY <1>4, <1>5
<1>8. base \in Nat /\ base # 0
  <2>1. Bases \subseteq Nat \ {0}
    BY HolderAssumption DEF Holder!HolderAssumption
  <2>. QED  BY ONLY <2>1, base \in Bases
<1>9. c.base = base /\ c.next = 1 /\ c.bytes = data /\ c.trampOffset = m
  BY ONLY <1>2, <1>7
<1>10. c \in [base : Nat, next : Nat, bytes : Seq(Byte), trampOffset : Nat]
  BY ONLY <1>2, <1>4, <1>5, <1>7, <1>8
<1>11. HolderTypeOK'
  BY ONLY <1>1, <1>3, <1>5, <1>10 DEF HolderTypeOK
<1>12. CopyFits'
  <2>1. PICK k \in Nat : k = Cardinality(Trampolines(relocations, 1))
    BY ONLY <1>4, TrampolinesFinite, FS_CardinalityType
  <2>2. trampolinesSize = 8 * k
    BY ONLY <2>1, <1>1 DEF TrampolinesFit
  <2>3. m + 8 * Cardinality(Trampolines(relocations, 1)) <= m + trampolinesSize
    BY ONLY <2>1, <2>2, <1>5, k \in Nat
  <2>4. Holder!CodeSize' = m + trampolinesSize
    BY ONLY <1>3, <1>6 DEF Holder!CodeSize
  <2>5. 1 \in 1..Len(relocations) + 1
    <3>1. Len(relocations) \in Nat
      BY ONLY <1>4
    <3>. QED  BY ONLY <3>1
  <2>6. \A r \in 1..1 - 1 : FALSE
    OBVIOUS
  <2>7. m <= m
    BY ONLY <1>5
  <2>8. /\ copy'.next = 1 /\ copy'.bytes = data' /\ copy'.trampOffset = m /\ copy'.base = base
        /\ Len(copy'.bytes) = m /\ relocations' = relocations
    BY ONLY <1>3, <1>5, <1>9
  <2>. QED  BY ONLY <2>3, <2>4, <2>5, <2>6, <2>7, <2>8, <1>6 DEF CopyFits
<1>13. binding.label = 0
  BY ONLY <1>3 DEF Holder!Idle
<1>14. Holder!Synced' = Holder!Synced
  BY ONLY <1>2, <1>6
<1>. QED  BY ONLY <1>3, <1>11, <1>12, <1>13, <1>14, HolderInv, CopyMoves

LEMMA RelocateEndStep ==
    ASSUME HolderInv, Holder!RelocateEnd
    PROVE  HolderInv'
<1>1. HolderTypeOK /\ BufferInOrder
  BY DEF HolderInv
<1>2. /\ copy.base # 0 /\ copy' = Holder!NoCopy
      /\ length' = length
      /\ data' = data /\ trampolinesSize' = trampolinesSize /\ holderEntries' = holderEntries
      /\ relocations' = relocations /\ unresolvedLabelsCount' = unresolvedLabelsCount
      /\ attached' = attached /\ bufferPtr' = bufferPtr /\ lastError' = lastError
      /\ binding' = binding /\ uses' = uses /\ failed' = failed
  BY DEF Holder!RelocateEnd, Holder!assembler
<1>3. binding.label = 0
  BY ONLY <1>1, <1>2 DEF BufferInOrder
<1>4. copy'.base = 0 /\ copy' \in [base : Nat, next : Nat, bytes : Seq(Byte), trampOffset : Nat]
  <2>1. << >> \in Seq(Byte)
    OBVIOUS
  <2>. QED  BY ONLY <2>1, <1>2 DEF Holder!NoCopy
<1>5. HolderTypeOK'
  BY ONLY <1>1, <1>2, <1>4 DEF HolderTypeOK
<1>6. Holder!Synced' = Holder!Synced
  BY ONLY <1>2 DEF Holder!Synced
<1>. QED  BY ONLY <1>2, <1>3, <1>4, <1>5, <1>6, HolderInv, CopyMoves

\* The relocation that is done is none of those that are left.
LEMMA TrampolinesLess ==
    ASSUME NEW rs \in Seq(HolderReloc), NEW k \in DOMAIN rs
    PROVE  \E c \in Nat : \E d \in Nat :
              /\ c = Cardinality(Trampolines(rs, k)) /\ d = Cardinality(Trampolines(rs, k + 1))
              /\ rs[k].type = "Trampoline" => c = d + 1
              /\ rs[k].type # "Trampoline" => c = d
<1>1. PICK T, T2 : T = Trampolines(rs, k) /\ T2 = Trampolines(rs, k + 1)
  OBVIOUS
<1>2. PICK n \in Nat : DOMAIN rs = 1..n
  OBVIOUS
<1>3. /\ T = {r \in 1..n : r >= k /\ rs[r].type = "Trampoline"}
      /\ T2 = {r \in 1..n : r >= k + 1 /\ rs[r].type = "Trampoline"}
  BY ONLY <1>1, <1>2 DEF Trampolines
<1>4. k \in 1..n /\ k >= k /\ ~(k >= k + 1) /\ \A r \in 1..n : r >= k <=> (r >= k + 1 \/ r = k)
  <2>1. k \in 1..n
    BY ONLY <1>2, k \in DOMAIN rs
  <2>. QED  BY ONLY <2>1, n \in Nat
<1>5. IsFiniteSet(T2) /\ Cardinality(T2) \in Nat
  BY ONLY <1>1, rs \in Seq(HolderReloc), TrampolinesFinite, FS_CardinalityType
<1>6. IsFiniteSet(T) /\ Cardinality(T) \in Nat
  BY ONLY <1>1, rs \in Seq(HolderReloc), TrampolinesFinite, FS_CardinalityType
<1>7. ASSUME rs[k].type = "Trampoline" PROVE Cardinality(T) = Cardinality(T2) + 1
  <2>1. T = T2 \cup {k} /\ k \notin T2
    BY ONLY <1>3, <1>4, <1>7
  <2>. QED  BY ONLY <2>1, <1>5, FS_AddElement
<1>8. ASSUME rs[k].type # "Trampoline" PROVE Cardinality(T) = Cardinality(T2)
  <2>1. T = T2
    BY ONLY <1>3, <1>4, <1>8
  <2>. QED  BY ONLY <2>1
<1>. QED  BY ONLY <1>1, <1>5, <1>6, <1>7, <1>8

\* The copy b2 is b with the relocation of use u done, and t2 behind its trampolines.
CopyWritten(b2, t2, b, t, u, d, base, synced) ==
    /\ b2 \in Seq(Byte) /\ t2 \in Nat /\ Len(b2) = t2 /\ t <= t2 /\ t2 <= t + 8
    /\ u.kind = "address" => t2 = t
    /\ \A i \in 1..t : i <= u.at \/ i > u.at + u.size => b2[i] = b[i]
    /\ u.kind = "address" => Holds(b2, u.at, Holder!Bytes(d + base, u.size))
    /\ u.kind = "call" => CallHolds(u, b2, base, synced)

LEMMA AddressWritten ==
    ASSUME NEW b \in Seq(Byte), NEW t \in Nat, Len(b) = t, NEW u \in HolderUse, u.kind = "address",
           u.at + u.size <= t, NEW d \in Int, NEW base \in Nat, NEW synced
    PROVE  CopyWritten(Holder!Write(b, u.at, Holder!Bytes(d + base, u.size)), t, b, t, u, d, base, synced)
<1>1. PICK at \in Nat, s \in Nat : at = u.at /\ s = u.size
  BY DEF HolderUse
<1>2. PICK new, w : new = Holder!Bytes(d + base, s) /\ w = Holder!Write(b, at, Holder!Bytes(d + base, s))
  OBVIOUS
<1>3. new \in Seq(Byte) /\ Len(new) = s
  <2>1. d + base \in Int
    OBVIOUS
  <2>. QED  BY ONLY <2>1, <1>2, s \in Nat, BytesAre
<1>4. at + s <= t /\ at <= Len(b)
  <2>1. at + s <= t
    BY ONLY <1>1, u.at + u.size <= t
  <2>. QED  BY ONLY <2>1, Len(b) = t, at \in Nat, s \in Nat, t \in Nat
<1>5. WrittenTo(w, b, at, new)
  BY ONLY <1>2, <1>3, <1>4, b \in Seq(Byte), at \in Nat, WriteWrites
<1>6. /\ w \in Seq(Byte) /\ Len(w) = t /\ Holds(w, at, new)
      /\ \A i \in 1..t : i <= at \/ i > at + s => w[i] = b[i]
  BY ONLY <1>3, <1>4, <1>5, Len(b) = t DEF WrittenTo
<1>7. t <= t /\ t <= t + 8
  BY ONLY t \in Nat
<1>8. CopyWritten(w, t, b, t, u, d, base, synced)
  BY ONLY <1>1, <1>2, <1>6, <1>7, t \in Nat, u.kind = "address" DEF CopyWritten
<1>. QED  BY ONLY <1>1, <1>2, <1>8

LEMMA NearWritten ==
    ASSUME NEW b \in Seq(Byte), NEW t \in Nat, Len(b) = t, NEW u \in HolderUse, u.kind = "call", u.size = 6,
           u.at + u.size <= t, b[u.at + 2] = <<232, 1, 1>>,
           NEW base \in Nat, NEW synced, NEW v, v = u.of - (base + (u.at + 2) + 4)
    PROVE  CopyWritten(Holder!Write(b, u.at + 2, Holder!Bytes(v, 4)), t, b, t, u, u.of, base, synced)
<1>1. PICK at \in Nat, of \in Int : at = u.at /\ of = u.of
  BY DEF HolderUse
<1>2. v \in Int /\ base + (at + 6 + v) = of
  <2>1. v = of - (base + (at + 2) + 4)
    BY ONLY <1>1, v = u.of - (base + (u.at + 2) + 4)
  <2>. QED  BY ONLY <2>1, at \in Nat, of \in Int, base \in Nat
<1>3. PICK new, w : new = Holder!Bytes(v, 4) /\ w = Holder!Write(b, at + 2, Holder!Bytes(v, 4))
  OBVIOUS
<1>4. new \in Seq(Byte) /\ Len(new) = 4
  <2>1. 4 \in Nat
    OBVIOUS
  <2>. QED  BY ONLY <2>1, <1>2, <1>3, BytesAre
<1>5. at + 6 <= t /\ at + 2 <= Len(b) /\ at + 2 \in Nat /\ at + 2 + 4 = at + 6 /\ at + 2 \in 1..t
      /\ at + 2 <= at + 2
  <2>1. at + 6 <= t
    BY ONLY <1>1, u.at + u.size <= t, u.size = 6
  <2>. QED  BY ONLY <2>1, Len(b) = t, at \in Nat, t \in Nat
<1>6. WrittenTo(w, b, at + 2, new)
  BY ONLY <1>3, <1>4, <1>5, b \in Seq(Byte), WriteWrites
<1>7. /\ w \in Seq(Byte) /\ Len(w) = t /\ Holds(w, at + 2, new)
      /\ \A i \in 1..t : i <= at + 2 \/ i > at + 2 + 4 => w[i] = b[i]
  BY ONLY <1>4, <1>5, <1>6, Len(b) = t DEF WrittenTo
<1>8. w[at + 2] = <<232, 1, 1>>
  BY ONLY <1>1, <1>5, <1>7, b[u.at + 2] = <<232, 1, 1>>
<1>9. CallHolds(u, w, base, synced)
  BY ONLY <1>1, <1>2, <1>3, <1>7, <1>8 DEF CallHolds
<1>10. ASSUME NEW i \in 1..t, i <= at \/ i > at + 6 PROVE w[i] = b[i]
  <2>1. i <= at + 2 \/ i > at + 2 + 4
    BY ONLY <1>10, i \in 1..t, at \in Nat
  <2>. QED  BY ONLY <2>1, <1>7, i \in 1..t
<1>11. t <= t /\ t <= t + 8
  BY ONLY t \in Nat
<1>12. CopyWritten(w, t, b, t, u, u.of, base, synced)
  BY ONLY <1>1, <1>7, <1>9, <1>10, <1>11, t \in Nat, u.kind = "call", u.size = 6 DEF CopyWritten
<1>. QED  BY ONLY <1>1, <1>3, <1>12

\* The bytes of a call by way of a trampoline.
LEMMA FarBytes ==
    ASSUME NEW v \in Int
    PROVE  \E new \in Seq(Byte) :
              /\ new = Holder!Bytes(255, 1) \o Holder!Bytes(21, 1) \o Holder!Bytes(v, 4)
              /\ Len(new) = 6 /\ new[1] = <<255, 1, 1>> /\ new[2] = <<21, 1, 1>>
              /\ \A k \in 1..4 : new[2 + k] = Holder!Bytes(v, 4)[k]
<1>1. PICK x, y, z : x = Holder!Bytes(255, 1) /\ y = Holder!Bytes(21, 1) /\ z = Holder!Bytes(v, 4)
  OBVIOUS
<1>2. 255 \in Int /\ 21 \in Int /\ 1 \in Nat /\ 4 \in Nat /\ 1 \in 1..1
  OBVIOUS
<1>3. x \in Seq(Byte) /\ Len(x) = 1 /\ x[1] = <<255, 1, 1>>
  <2>1. /\ Holder!Bytes(255, 1) \in Seq(Byte) /\ Len(Holder!Bytes(255, 1)) = 1
        /\ \A k \in 1..1 : Holder!Bytes(255, 1)[k] = <<255, k, 1>>
    BY ONLY <1>2, BytesAre
  <2>. QED  BY ONLY <2>1, <1>1, <1>2
<1>4. y \in Seq(Byte) /\ Len(y) = 1 /\ y[1] = <<21, 1, 1>>
  <2>1. /\ Holder!Bytes(21, 1) \in Seq(Byte) /\ Len(Holder!Bytes(21, 1)) = 1
        /\ \A k \in 1..1 : Holder!Bytes(21, 1)[k] = <<21, k, 1>>
    BY ONLY <1>2, BytesAre
  <2>. QED  BY ONLY <2>1, <1>1, <1>2
<1>5. z \in Seq(Byte) /\ Len(z) = 4
  BY ONLY <1>1, <1>2, v \in Int, BytesAre
<1>6. PICK c \in Seq(Byte) : c = x \o y /\ Len(c) = 2 /\ c[1] = x[1] /\ c[2] = y[1]
  <2>1. /\ x \o y \in Seq(Byte) /\ Len(x \o y) = Len(x) + Len(y)
        /\ \A i \in 1..Len(x) + Len(y) : (x \o y)[i] = IF i <= Len(x) THEN x[i] ELSE y[i - Len(x)]
    BY ONLY <1>3, <1>4, ConcatProperties
  <2>2. 1 \in 1..1 + 1 /\ 2 \in 1..1 + 1 /\ 1 <= 1 /\ ~(2 <= 1) /\ 2 - 1 = 1 /\ 1 + 1 = 2
    OBVIOUS
  <2>3. Len(x \o y) = 2 /\ (x \o y)[1] = x[1] /\ (x \o y)[2] = y[1]
    BY ONLY <2>1, <2>2, <1>3, <1>4
  <2>. QED  BY ONLY <2>1, <2>3
<1>7. /\ c \o z \in Seq(Byte) /\ Len(c \o z) = Len(c) + Len(z)
      /\ \A i \in 1..Len(c) + Len(z) : (c \o z)[i] = IF i <= Len(c) THEN c[i] ELSE z[i - Len(c)]
  BY ONLY <1>5, c \in Seq(Byte), ConcatProperties
<1>8. /\ 1 \in 1..2 + 4 /\ 2 \in 1..2 + 4 /\ 1 <= 2 /\ 2 <= 2 /\ 2 + 4 = 6
      /\ \A k \in 1..4 : 2 + k \in 1..2 + 4 /\ ~(2 + k <= 2) /\ 2 + k - 2 = k
  OBVIOUS
<1>9. Len(c \o z) = 6 /\ (c \o z)[1] = x[1] /\ (c \o z)[2] = y[1]
  BY ONLY <1>5, <1>6, <1>7, <1>8
<1>10. ASSUME NEW k \in 1..4 PROVE (c \o z)[2 + k] = z[k]
  <2>1. Len(c) = 2 /\ Len(z) = 4
    BY ONLY <1>5, <1>6
  <2>2. 2 + k \in 1..Len(c) + Len(z) /\ ~(2 + k <= Len(c)) /\ 2 + k - Len(c) = k
    BY ONLY <2>1, <1>8, k \in 1..4
  <2>. QED  BY ONLY <2>2, <1>7
<1>11. c \o z = Holder!Bytes(255, 1) \o Holder!Bytes(21, 1) \o Holder!Bytes(v, 4)
  BY ONLY <1>1, <1>6
<1>12. PICK new : new = c \o z
  OBVIOUS
<1>13. new \in Seq(Byte) /\ Len(new) = 6 /\ new[1] = <<255, 1, 1>> /\ new[2] = <<21, 1, 1>>
  BY ONLY <1>3, <1>4, <1>7, <1>9, <1>12
<1>14. \A k \in 1..4 : new[2 + k] = Holder!Bytes(v, 4)[k]
  BY ONLY <1>1, <1>10, <1>12
<1>15. new = Holder!Bytes(255, 1) \o Holder!Bytes(21, 1) \o Holder!Bytes(v, 4)
  BY ONLY <1>11, <1>12
<1>. QED  BY ONLY <1>13, <1>14, <1>15

LEMMA FarWritten ==
    ASSUME NEW b \in Seq(Byte), NEW t \in Nat, Len(b) = t, NEW u \in HolderUse, u.kind = "call", u.size = 6,
           u.at + u.size <= t, NEW base, NEW synced \in Nat, synced <= t, NEW v, v = t - (u.at + 2) - 4
    PROVE  CopyWritten(Holder!Write(Holder!Write(b, u.at, Holder!Bytes(255, 1) \o Holder!Bytes(21, 1) \o Holder!Bytes(v, 4)),
                                    t, Holder!Bytes(u.of, 8)),
                       t + 8, b, t, u, u.of, base, synced)
<1>1. PICK at \in Nat, of \in Int : at = u.at /\ of = u.of
  BY DEF HolderUse
<1>2. v \in Int /\ at + 6 + v = t
  <2>1. v = t - (at + 2) - 4
    BY ONLY <1>1, v = t - (u.at + 2) - 4
  <2>. QED  BY ONLY <2>1, at \in Nat, t \in Nat
<1>3. PICK call, hold, dist : /\ call = Holder!Bytes(255, 1) \o Holder!Bytes(21, 1) \o Holder!Bytes(v, 4)
                              /\ hold = Holder!Bytes(of, 8) /\ dist = Holder!Bytes(v, 4)
  OBVIOUS
<1>4. PICK w : w = Holder!Write(b, at, call)
  OBVIOUS
<1>5. PICK w2 : w2 = Holder!Write(w, t, hold)
  OBVIOUS
<1>6. /\ call \in Seq(Byte) /\ Len(call) = 6 /\ call[1] = <<255, 1, 1>> /\ call[2] = <<21, 1, 1>>
      /\ \A k \in 1..4 : call[2 + k] = dist[k]
  <2>1. v \in Int
    BY ONLY <1>2
  <2>2. PICK new \in Seq(Byte) :
              /\ new = Holder!Bytes(255, 1) \o Holder!Bytes(21, 1) \o Holder!Bytes(v, 4)
              /\ Len(new) = 6 /\ new[1] = <<255, 1, 1>> /\ new[2] = <<21, 1, 1>>
              /\ \A k \in 1..4 : new[2 + k] = Holder!Bytes(v, 4)[k]
    BY ONLY <2>1, FarBytes
  <2>3. call = new
    BY <1>3, <2>2
  <2>4. \A k \in 1..4 : new[2 + k] = dist[k]
    BY ONLY <2>2, <1>3
  <2>. QED  BY ONLY <2>2, <2>3, <2>4, new \in Seq(Byte)
<1>7. hold \in Seq(Byte) /\ Len(hold) = 8 /\ Len(dist) = 4
  <2>1. 8 \in Nat /\ 4 \in Nat
    OBVIOUS
  <2>. QED  BY ONLY <2>1, <1>2, <1>3, of \in Int, BytesAre
<1>8. at + 6 <= t /\ at <= Len(b) /\ at + 6 = at + 2 + 4
  <2>1. at + 6 <= t
    BY ONLY <1>1, u.at + u.size <= t, u.size = 6
  <2>. QED  BY ONLY <2>1, Len(b) = t, at \in Nat, t \in Nat
<1>9. WrittenTo(w, b, at, call)
  BY ONLY <1>4, <1>6, <1>8, b \in Seq(Byte), at \in Nat, WriteWrites
<1>10. /\ w \in Seq(Byte) /\ Len(w) = t /\ \A k \in 1..6 : w[at + k] = call[k]
       /\ \A i \in 1..t : i <= at \/ i > at + 6 => w[i] = b[i]
  BY ONLY <1>6, <1>8, <1>9, Len(b) = t DEF WrittenTo, Holds
<1>11. t <= Len(w)
  BY ONLY <1>10, t \in Nat
<1>12. WrittenTo(w2, w, t, hold)
  BY ONLY <1>5, <1>7, <1>10, <1>11, t \in Nat, WriteWrites
<1>13. t + 8 > t /\ t + 8 \in Nat /\ t <= t + 8 /\ t + 8 <= t + 8
  BY ONLY t \in Nat
<1>14. /\ w2 \in Seq(Byte) /\ Len(w2) = t + 8 /\ Holds(w2, t, hold)
       /\ \A i \in 1..t : i <= t => w2[i] = w[i]
  BY ONLY <1>7, <1>10, <1>12, <1>13 DEF WrittenTo
<1>15. ASSUME NEW i \in 1..t PROVE w2[i] = w[i]
  <2>1. i <= t
    BY ONLY i \in 1..t, t \in Nat
  <2>. QED  BY ONLY <2>1, <1>14, i \in 1..t
<1>16. ASSUME NEW k \in 1..6 PROVE w2[at + k] = call[k]
  <2>1. at + k \in 1..t
    BY ONLY <1>8, k \in 1..6, at \in Nat, t \in Nat
  <2>2. w2[at + k] = w[at + k]
    BY ONLY <2>1, <1>15
  <2>. QED  BY ONLY <2>2, <1>10, k \in 1..6
<1>17. Holds(w2, at + 2, dist)
  <2>1. at + 2 + 4 <= t + 8
    BY ONLY <1>8, at \in Nat, t \in Nat
  <2>2. ASSUME NEW k \in 1..4 PROVE w2[at + 2 + k] = dist[k]
    <3>1. 2 + k \in 1..6 /\ at + (2 + k) = at + 2 + k
      BY ONLY k \in 1..4, at \in Nat
    <3>2. w2[at + (2 + k)] = call[2 + k]
      BY ONLY <3>1, <1>16
    <3>. QED  BY ONLY <3>1, <3>2, <1>6, k \in 1..4
  <2>. QED  BY ONLY <2>1, <2>2, <1>7, <1>14 DEF Holds
<1>18. w2[at + 1] = <<255, 1, 1>> /\ w2[at + 2] = <<21, 1, 1>>
  <2>1. 1 \in 1..6 /\ 2 \in 1..6
    OBVIOUS
  <2>. QED  BY ONLY <2>1, <1>6, <1>16
<1>19. CallHolds(u, w2, base, synced)
  <2>1. at + 6 + v >= synced
    BY ONLY <1>2, synced <= t, synced \in Nat, t \in Nat
  <2>2. Holds(w2, at + 6 + v, hold)
    BY ONLY <1>2, <1>14
  <2>. QED  BY ONLY <2>1, <2>2, <1>1, <1>2, <1>3, <1>17, <1>18 DEF CallHolds
<1>20. ASSUME NEW i \in 1..t, i <= u.at \/ i > u.at + u.size PROVE w2[i] = b[i]
  <2>1. i <= at \/ i > at + 6
    BY ONLY <1>1, <1>20, u.size = 6
  <2>2. w[i] = b[i]
    BY ONLY <2>1, <1>10, i \in 1..t
  <2>. QED  BY ONLY <2>2, <1>15, i \in 1..t
<1>21. CopyWritten(w2, t + 8, b, t, u, u.of, base, synced)
  BY ONLY <1>13, <1>14, <1>19, <1>20, u.kind = "call" DEF CopyWritten
<1>. QED  BY ONLY <1>1, <1>3, <1>4, <1>5, <1>21

\* A call is not disturbed by what is written elsewhere.
LEMMA CallHoldsStill ==
    ASSUME NEW u \in HolderUse, NEW x \in HolderUse, Apart(u, x), u.size = 6, NEW base, NEW synced \in Nat,
           NEW b \in Seq(Byte), NEW b2 \in Seq(Byte), Len(b) <= Len(b2),
           \A i \in 1..Len(b) : i <= x.at \/ i > x.at + x.size => b2[i] = b[i],
           x.at + x.size <= synced, u.at + u.size <= synced, synced <= Len(b), CallHolds(u, b, base, synced)
    PROVE  CallHolds(u, b2, base, synced)
<1>1. PICK at \in Nat, of \in Int : at = u.at /\ of = u.of
  BY DEF HolderUse
<1>2. PICK xa \in Nat, xs \in Nat : xa = x.at /\ xs = x.size
  BY DEF HolderUse
<1>3. PICK t \in Nat, t2 \in Nat : t = Len(b) /\ t2 = Len(b2)
  OBVIOUS
<1>4. xa + xs <= synced /\ at + 6 <= synced /\ synced <= t /\ t <= t2 /\ (at + 6 <= xa \/ xa + xs <= at)
  BY <1>1, <1>2, <1>3 DEF Apart
<1>5. ASSUME NEW i \in 1..t, i <= xa \/ i > xa + xs PROVE b2[i] = b[i]
  BY <1>2, <1>3, <1>5
<1>6. ASSUME NEW i \in at + 1 .. at + 6 PROVE b2[i] = b[i]
  <2>1. i \in 1..t /\ (i <= xa \/ i > xa + xs)
    BY ONLY <1>4, i \in at + 1 .. at + 6, at \in Nat, xa \in Nat, xs \in Nat, t \in Nat, synced \in Nat
  <2>. QED  BY ONLY <2>1, <1>5
<1>7. b2[at + 1] = b[at + 1] /\ b2[at + 2] = b[at + 2]
  <2>1. at + 1 \in at + 1 .. at + 6 /\ at + 2 \in at + 1 .. at + 6
    BY ONLY at \in Nat
  <2>. QED  BY ONLY <2>1, <1>6
<1>8. PICK v \in Int :
        /\ Holds(b, at + 2, Holder!Bytes(v, 4))
        /\ \/ b[at + 2] = <<232, 1, 1>> /\ base + (at + 6 + v) = of
           \/ /\ b[at + 1] = <<255, 1, 1>> /\ b[at + 2] = <<21, 1, 1>>
              /\ at + 6 + v >= synced /\ Holds(b, at + 6 + v, Holder!Bytes(of, 8))
  BY <1>1 DEF CallHolds
<1>9. PICK dist, hold : dist = Holder!Bytes(v, 4) /\ hold = Holder!Bytes(of, 8)
  OBVIOUS
<1>10. dist \in Seq(Byte) /\ Len(dist) = 4 /\ hold \in Seq(Byte) /\ Len(hold) = 8
  <2>1. 8 \in Nat /\ 4 \in Nat
    OBVIOUS
  <2>. QED  BY ONLY <2>1, <1>9, of \in Int, v \in Int, BytesAre
<1>11. Holds(b2, at + 2, dist)
  <2>1. Holds(b, at + 2, dist)
    BY ONLY <1>8, <1>9
  <2>2. at + 2 \in Nat /\ 6 \in Nat /\ at <= at + 2 /\ at + 2 + 4 <= at + 6
    BY ONLY at \in Nat
  <2>. QED  BY ONLY <2>1, <2>2, <1>3, <1>4, <1>6, <1>10, at \in Nat, HoldsStill
<1>12. ASSUME at + 6 + v >= synced, Holds(b, at + 6 + v, hold)
       PROVE  Holds(b2, at + 6 + v, hold)
  <2>1. PICK a \in Nat : a = at + 6 + v /\ a >= synced
    BY ONLY <1>12, at \in Nat, v \in Int, synced \in Nat
  <2>2. Holds(b, a, hold)
    BY ONLY <1>12, <2>1
  <2>3. a + 8 <= t
    BY ONLY <2>2, <1>3, <1>10 DEF Holds
  <2>4. ASSUME NEW i \in a + 1 .. a + 8 PROVE b2[i] = b[i]
    <3>1. i \in 1..t /\ i > xa + xs
      BY ONLY <2>1, <2>3, <1>4, i \in a + 1 .. a + 8, a \in Nat, xa \in Nat, xs \in Nat, t \in Nat, synced \in Nat
    <3>. QED  BY ONLY <3>1, <1>5
  <2>5. a <= a /\ a + 8 <= a + 8 /\ 8 \in Nat
    BY ONLY a \in Nat
  <2>6. Holds(b2, a, hold)
    BY ONLY <2>2, <2>4, <2>5, <1>3, <1>4, <1>10, a \in Nat, HoldsStill
  <2>. QED  BY ONLY <2>1, <2>6
<1>13. \/ b2[at + 2] = <<232, 1, 1>> /\ base + (at + 6 + v) = of
       \/ /\ b2[at + 1] = <<255, 1, 1>> /\ b2[at + 2] = <<21, 1, 1>>
          /\ at + 6 + v >= synced /\ Holds(b2, at + 6 + v, hold)
  BY ONLY <1>7, <1>8, <1>9, <1>12
<1>. QED  BY ONLY <1>1, <1>9, <1>11, <1>13, v \in Int DEF CallHolds

\* A relocation is for one use, and a use has one relocation.
LEMMA RelocOfOne ==
    ASSUME HolderTypeOK, UsesFit, UsesApart, NEW u \in uses, NEW x \in uses, NEW re, RelocOf(re, u), RelocOf(re, x)
    PROVE  u = x
<1>1. /\ u.at \in Nat /\ u.size \in Nat /\ u.size >= 1 /\ x.at \in Nat /\ x.size \in Nat /\ x.size >= 1
  BY ONLY HolderTypeOK, UsesFit, u \in uses, x \in uses, UseOfType
<1>2. u.at = x.at
  <2>1. \/ re.source = u.at /\ re.source = x.at
        \/ re.source = u.at + 2 /\ re.source = x.at + 2
    BY ONLY RelocOf(re, u), RelocOf(re, x) DEF RelocOf
  <2>. QED  BY ONLY <2>1, <1>1
<1>3. ~Apart(u, x)
  BY ONLY <1>1, <1>2 DEF Apart
<1>. QED  BY ONLY <1>3, UsesApart, u \in uses, x \in uses DEF UsesApart

LEMMA RelocsOne ==
    ASSUME UsesFit, NEW u \in uses, NEW r \in DOMAIN relocations, NEW q \in DOMAIN relocations,
           RelocOf(relocations[r], u), RelocOf(relocations[q], u)
    PROVE  r = q
<1>1. u.kind = "address" \/ u.kind = "call"
  BY ONLY RelocOf(relocations[r], u) DEF RelocOf
<1>2. UseFits(u, Len(holderEntries), data, relocations, Holder!LinksOf(u.of), Place(u.of), failed \/ binding.err)
  BY ONLY UsesFit, u \in uses DEF UsesFit
<1>3. AddressFits(u, Len(holderEntries), relocations, Holder!LinksOf(u.of), Place(u.of)) \/ CallFits(u, data, relocations)
  BY ONLY <1>1, <1>2 DEF UseFits
<1>4. Served(relocations, u)
  BY ONLY <1>3 DEF AddressFits, CallFits
<1>. QED  BY ONLY <1>4, r \in DOMAIN relocations, q \in DOMAIN relocations, RelocOf(relocations[r], u),
          RelocOf(relocations[q], u) DEF Served

\* A pass of the loop, which does the relocation of use x.
LEMMA CopyGoesOn ==
    ASSUME HolderInv, copy.base # 0, NEW k \in DOMAIN relocations, k = copy.next, NEW x \in uses,
           RelocOf(relocations[k], x), copy'.next = k + 1, copy'.base = copy.base,
           CopyWritten(copy'.bytes, copy'.trampOffset, copy.bytes, copy.trampOffset, x, relocations[k].data,
                       copy.base, Holder!Synced),
           UNCHANGED <<data, length, trampolinesSize, relocations, bufferPtr, uses>>
    PROVE  CopyFits'
<1>1. HolderTypeOK /\ BufferInOrder /\ UsesApart /\ UsesFit /\ CopyFits
  BY DEF HolderInv
<1>2. /\ data' = data /\ length' = length /\ trampolinesSize' = trampolinesSize /\ relocations' = relocations
      /\ bufferPtr' = bufferPtr /\ uses' = uses
  OBVIOUS
<1>3. PICK b, b2, t, t2, m, base, n, rs :
        /\ b = copy.bytes /\ b2 = copy'.bytes /\ t = copy.trampOffset /\ t2 = copy'.trampOffset
        /\ m = Holder!Synced /\ base = copy.base /\ n = Len(relocations) /\ rs = relocations
  OBVIOUS
<1>4. /\ b \in Seq(Byte) /\ t \in Nat /\ base \in Nat /\ n \in Nat /\ trampolinesSize \in Nat
      /\ rs \in Seq(HolderReloc) /\ DOMAIN rs = 1..n
  BY ONLY <1>1, <1>3, HolderTypes
<1>5. m \in Nat /\ Len(data) = m
  <2>1. m = Holder!Larger(length, bufferPtr)
    BY ONLY <1>3 DEF Holder!Synced
  <2>2. length \in Nat /\ bufferPtr \in Nat
    BY ONLY <1>1, HolderTypes
  <2>3. Len(data) = m
    BY ONLY <1>1, <1>3 DEF BufferInOrder
  <2>. QED  BY ONLY <2>1, <2>2, <2>3, SyncedIs
<1>6. Holder!Synced' = m /\ Holder!CodeSize' = m + trampolinesSize /\ Holder!CodeSize = m + trampolinesSize
  <2>1. Holder!Synced' = Holder!Synced
    BY ONLY <1>2 DEF Holder!Synced
  <2>. QED  BY ONLY <2>1, <1>2, <1>3 DEF Holder!CodeSize
<1>7. /\ Len(b) = t /\ m <= t
      /\ t + 8 * Cardinality(Trampolines(rs, k)) <= m + trampolinesSize
      /\ \A u \in uses : \A r \in 1..k - 1 : RelocOf(rs[r], u) =>
            /\ u.kind = "address" => Holds(b, u.at, Holder!Bytes(rs[r].data + base, gpSize))
            /\ u.kind = "call" => CallHolds(u, b, base, m)
      /\ \A u \in uses : (\A r \in 1..k - 1 : ~RelocOf(rs[r], u)) =>
            \A i \in u.at + 1 .. u.at + u.size : b[i] = data[i]
  BY ONLY <1>1, <1>3, <1>6, k = copy.next DEF CopyFits
<1>8. /\ b2 \in Seq(Byte) /\ t2 \in Nat /\ Len(b2) = t2 /\ t <= t2 /\ t2 <= t + 8
      /\ x.kind = "address" => t2 = t
      /\ \A i \in 1..t : i <= x.at \/ i > x.at + x.size => b2[i] = b[i]
      /\ x.kind = "address" => Holds(b2, x.at, Holder!Bytes(rs[k].data + base, x.size))
      /\ x.kind = "call" => CallHolds(x, b2, base, m)
  <2>1. CopyWritten(b2, t2, b, t, x, rs[k].data, base, m)
    BY ONLY <1>3, CopyWritten(copy'.bytes, copy'.trampOffset, copy.bytes, copy.trampOffset, x, relocations[k].data,
                       copy.base, Holder!Synced)
  <2>. QED  BY ONLY <2>1 DEF CopyWritten
<1>9. k \in 1..n /\ k + 1 \in 1..n + 1 /\ \A r \in 1..k : r \in DOMAIN rs /\ (r \in 1..k - 1 \/ r = k)
  <2>1. k \in 1..n
    BY ONLY <1>3, <1>4, k \in DOMAIN relocations
  <2>. QED  BY ONLY <2>1, <1>4
<1>10. \A r \in 1..k - 1 : r \in DOMAIN rs /\ r # k /\ r \in 1..k
  BY ONLY <1>4, <1>9
<1>11. m <= t2
  BY ONLY <1>4, <1>5, <1>7, <1>8
<1>12. RelocOf(rs[k], x)
  BY ONLY <1>3, RelocOf(relocations[k], x)
<1>13. t2 + 8 * Cardinality(Trampolines(rs, k + 1)) <= m + trampolinesSize
  <2>1. k \in DOMAIN rs
    BY ONLY <1>4, <1>9
  <2>2. PICK c \in Nat, d \in Nat :
              /\ c = Cardinality(Trampolines(rs, k)) /\ d = Cardinality(Trampolines(rs, k + 1))
              /\ rs[k].type = "Trampoline" => c = d + 1
              /\ rs[k].type # "Trampoline" => c = d
    BY ONLY <2>1, <1>4, TrampolinesLess
  <2>3. t + 8 * c <= m + trampolinesSize
    BY ONLY <1>7, <2>2
  <2>4. CASE rs[k].type = "Trampoline"
    <3>1. c = d + 1
      BY ONLY <2>2, <2>4
    <3>2. t2 + 8 * d <= m + trampolinesSize
      BY ONLY <3>1, <2>3, <1>4, <1>5, <1>8, c \in Nat, d \in Nat
    <3>. QED  BY ONLY <3>2, <2>2
  <2>5. CASE rs[k].type # "Trampoline"
    <3>1. x.kind = "address"
      BY ONLY <1>12, <2>5 DEF RelocOf
    <3>2. t2 = t /\ c = d
      BY ONLY <3>1, <1>8, <2>2, <2>5
    <3>. QED  BY ONLY <3>2, <2>2, <2>3
  <2>. QED  BY ONLY <2>4, <2>5
<1>14. ASSUME NEW u \in uses
       PROVE  /\ u \in HolderUse /\ u.at \in Nat /\ u.size \in Nat /\ u.at + u.size <= m
  BY ONLY <1>1, <1>5, u \in uses, UseOfType
<1>15. ASSUME NEW u \in uses, u # x
       PROVE  /\ Apart(u, x)
              /\ \A i \in u.at + 1 .. u.at + u.size : b2[i] = b[i]
  <2>1. Apart(u, x)
    BY ONLY <1>1, <1>15, x \in uses DEF UsesApart
  <2>2. PICK ua \in Nat, us \in Nat, xa \in Nat, xs \in Nat : ua = u.at /\ us = u.size /\ xa = x.at /\ xs = x.size
    BY ONLY <1>14, u \in uses, x \in uses
  <2>3. ua + us <= xa \/ xa + xs <= ua
    BY ONLY <2>1, <2>2 DEF Apart
  <2>4. ua + us <= m
    BY ONLY <2>2, <1>14, u \in uses
  <2>5. ASSUME NEW i \in ua + 1 .. ua + us PROVE b2[i] = b[i]
    <3>1. i \in 1..t /\ (i <= xa \/ i > xa + xs)
      BY ONLY <2>3, <2>4, <1>4, <1>5, <1>7, i \in ua + 1 .. ua + us, ua \in Nat, us \in Nat, xa \in Nat, xs \in Nat
    <3>. QED  BY ONLY <3>1, <2>2, <1>8
  <2>. QED  BY ONLY <2>1, <2>2, <2>5
<1>16. ASSUME NEW u \in uses, NEW r \in 1..k, RelocOf(rs[r], u)
       PROVE  /\ u.kind = "address" => Holds(b2, u.at, Holder!Bytes(rs[r].data + base, gpSize))
              /\ u.kind = "call" => CallHolds(u, b2, base, m)
  <2>1. UseFits(u, Len(holderEntries), data, relocations, Holder!LinksOf(u.of), Place(u.of), failed \/ binding.err)
    BY ONLY <1>1, u \in uses DEF UsesFit
  <2>2. /\ u.kind = "address" => u.size = gpSize
        /\ u.kind = "call" => u.size = 6
    BY ONLY <2>1 DEF UseFits, AddressFits, CallFits
  <2>3. CASE r = k
    <3>1. u = x
      BY ONLY <2>3, <1>1, <1>12, <1>16, u \in uses, x \in uses, RelocOfOne
    <3>. QED  BY ONLY <3>1, <2>2, <2>3, <1>8
  <2>4. CASE r # k
    <3>1. r \in 1..k - 1 /\ r \in DOMAIN rs /\ k \in DOMAIN rs
      BY ONLY <1>9, <1>4, <2>4, r \in 1..k
    <3>2. u # x
      <4>1. ASSUME u = x PROVE FALSE
        <5>1. RelocOf(rs[r], x)
          BY ONLY <4>1, <1>16
        <5>2. r = k
          BY ONLY <5>1, <3>1, <1>1, <1>3, <1>12, x \in uses, RelocsOne
        <5>. QED  BY ONLY <5>2, <2>4
      <4>. QED  BY ONLY <4>1
    <3>3. ASSUME u.kind = "address" PROVE Holds(b2, u.at, Holder!Bytes(rs[r].data + base, gpSize))
      <4>1. PICK new : new = Holder!Bytes(rs[r].data + base, gpSize)
        OBVIOUS
      <4>2. Holds(b, u.at, new)
        BY ONLY <3>1, <3>3, <4>1, <1>7, <1>16, u \in uses
      <4>3. new \in Seq(Byte) /\ Len(new) = gpSize
        <5>1. gpSize \in Nat
          <6>1. gpSize \in Nat \ {0}
            BY HolderAssumption DEF Holder!HolderAssumption
          <6>. QED  BY ONLY <6>1
        <5>2. rs[r] \in HolderReloc
          BY ONLY <3>1, <1>4, ElementOfSeq
        <5>3. rs[r].data + base \in Int
          <6>1. rs[r].data \in Int
            BY ONLY <5>2 DEF HolderReloc
          <6>. QED  BY ONLY <6>1, <1>4
        <5>. QED  BY ONLY <5>1, <5>3, <4>1, BytesAre
      <4>4. u.at <= u.at /\ u.at + Len(new) <= u.at + u.size
        BY ONLY <4>3, <2>2, <3>3, <1>14, u \in uses
      <4>5. Len(b) \in Nat /\ Len(b2) \in Nat /\ Len(b) <= Len(b2)
        BY ONLY <1>4, <1>7, <1>8
      <4>6. \A i \in u.at + 1 .. u.at + u.size : b2[i] = b[i]
        BY ONLY <1>15, <3>2, u \in uses
      <4>7. Holds(b2, u.at, new)
        BY ONLY <4>2, <4>3, <4>4, <4>5, <4>6, <1>14, u \in uses, HoldsStill
      <4>. QED  BY ONLY <4>1, <4>7
    <3>4. ASSUME u.kind = "call" PROVE CallHolds(u, b2, base, m)
      <4>1. CallHolds(u, b, base, m)
        BY ONLY <3>1, <3>4, <1>7, <1>16, u \in uses
      <4>2. Apart(u, x) /\ u.size = 6
        BY ONLY <1>15, <2>2, <3>2, <3>4, u \in uses
      <4>3. /\ Len(b) <= Len(b2) /\ m <= Len(b)
            /\ \A i \in 1..Len(b) : i <= x.at \/ i > x.at + x.size => b2[i] = b[i]
        BY ONLY <1>7, <1>8
      <4>4. x \in HolderUse /\ x.at + x.size <= m /\ u \in HolderUse /\ u.at + u.size <= m
        BY ONLY <1>14, u \in uses, x \in uses
      <4>. QED  BY ONLY <4>1, <4>2, <4>3, <4>4, <1>4, <1>5, <1>8, CallHoldsStill
    <3>. QED  BY ONLY <3>3, <3>4
  <2>. QED  BY ONLY <2>3, <2>4
<1>17. ASSUME NEW u \in uses, \A r \in 1..k : ~RelocOf(rs[r], u)
       PROVE  \A i \in u.at + 1 .. u.at + u.size : b2[i] = data[i]
  <2>1. k \in 1..k
    BY ONLY <1>9
  <2>2. u # x
    BY ONLY <2>1, <1>12, <1>17
  <2>3. \A r \in 1..k - 1 : ~RelocOf(rs[r], u)
    BY ONLY <1>10, <1>17
  <2>4. \A i \in u.at + 1 .. u.at + u.size : b[i] = data[i]
    BY ONLY <2>3, <1>7, u \in uses
  <2>. QED  BY ONLY <2>2, <2>4, <1>15, u \in uses
<1>18. k + 1 - 1 = k
  BY ONLY <1>9, <1>4
<1>. QED  BY ONLY <1>2, <1>3, <1>6, <1>8, <1>9, <1>11, <1>13, <1>16, <1>17, <1>18, copy'.next = k + 1,
          copy'.base = copy.base DEF CopyFits

\* What Relocated makes of the copy.
LEMMA RelocatedWrites ==
    ASSUME HolderInv, copy.base # 0, NEW k \in DOMAIN relocations, k = copy.next, NEW x \in uses,
           RelocOf(relocations[k], x), NEW c, c = Holder!Relocated(relocations[k])
    PROVE  /\ c.base = copy.base /\ c.next = copy.next
           /\ c \in [base : Nat, next : Nat, bytes : Seq(Byte), trampOffset : Nat]
           /\ CopyWritten(c.bytes, c.trampOffset, copy.bytes, copy.trampOffset, x, relocations[k].data,
                          copy.base, Holder!Synced)
<1>1. HolderTypeOK /\ BufferInOrder /\ UsesFit /\ CopyFits
  BY DEF HolderInv
<1>2. PICK b, t, m, base, rs, re, old :
        /\ b = copy.bytes /\ t = copy.trampOffset /\ m = Holder!Synced /\ base = copy.base
        /\ rs = relocations /\ re = relocations[k] /\ old = copy
  OBVIOUS
<1>3. /\ b \in Seq(Byte) /\ t \in Nat /\ base \in Nat /\ k \in Nat /\ rs \in Seq(HolderReloc)
  BY ONLY <1>1, <1>2, HolderTypes, k = copy.next
<1>4. m \in Nat /\ Len(data) = m
  <2>1. m = Holder!Larger(length, bufferPtr)
    BY ONLY <1>2 DEF Holder!Synced
  <2>2. length \in Nat /\ bufferPtr \in Nat
    BY ONLY <1>1, HolderTypes
  <2>3. Len(data) = m
    BY ONLY <1>1, <1>2 DEF BufferInOrder
  <2>. QED  BY ONLY <2>1, <2>2, <2>3, SyncedIs
<1>5. /\ Len(b) = t /\ m <= t
      /\ \A u \in uses : (\A r \in 1..k - 1 : ~RelocOf(rs[r], u)) =>
            \A i \in u.at + 1 .. u.at + u.size : b[i] = data[i]
  BY ONLY <1>1, <1>2, k = copy.next DEF CopyFits
<1>6. x \in HolderUse /\ x.at \in Nat /\ x.size \in Nat /\ x.at + x.size <= m
  BY ONLY <1>1, <1>4, x \in uses, UseOfType
<1>7. x.at + x.size <= t
  BY ONLY <1>3, <1>4, <1>5, <1>6
<1>8. re \in HolderReloc /\ re.data \in Int
  <2>1. re \in HolderReloc
    BY ONLY <1>2, <1>3, k \in DOMAIN relocations, ElementOfSeq
  <2>. QED  BY ONLY <2>1 DEF HolderReloc
<1>9. old = [base |-> base, next |-> k, bytes |-> b, trampOffset |-> t]
  <2>1. copy \in [base : Nat, next : Nat, bytes : Seq(Byte), trampOffset : Nat]
    BY ONLY <1>1 DEF HolderTypeOK
  <2>. QED  BY ONLY <2>1, <1>2, k = copy.next
<1>10. RelocOf(re, x)
  BY ONLY <1>2, RelocOf(relocations[k], x)
<1>11. UseFits(x, Len(holderEntries), data, relocations, Holder!LinksOf(x.of), Place(x.of), failed \/ binding.err)
  BY ONLY <1>1, x \in uses DEF UsesFit
<1>12. CASE re.type = "RelToAbs"
  <2>1. x.kind = "address" /\ re.source = x.at /\ re.size = gpSize
    BY ONLY <1>10, <1>12 DEF RelocOf
  <2>2. x.size = gpSize
    BY ONLY <2>1, <1>11 DEF UseFits, AddressFits
  <2>3. PICK w : w = Holder!Write(b, x.at, Holder!Bytes(re.data + base, x.size))
    OBVIOUS
  <2>4. CopyWritten(w, t, b, t, x, re.data, base, m)
    BY ONLY <2>1, <2>3, <1>3, <1>5, <1>6, <1>7, <1>8, AddressWritten
  <2>5. c = [old EXCEPT !.bytes = w]
    <3>1. c = Holder!Relocated(re)
      BY <1>2
    <3>2. c = [copy EXCEPT !.bytes = Holder!Write(@, re.source, Holder!Bytes(re.data + copy.base, re.size))]
      BY ONLY <3>1, <1>12 DEF Holder!Relocated
    <3>3. c = [copy EXCEPT !.bytes = Holder!Write(copy.bytes, re.source, Holder!Bytes(re.data + copy.base, re.size))]
      BY ONLY <3>2
    <3>4. w = Holder!Write(copy.bytes, re.source, Holder!Bytes(re.data + copy.base, re.size))
      BY ONLY <1>2, <2>1, <2>2, <2>3
    <3>. QED  BY ONLY <3>3, <3>4, <1>2
  <2>6. c = [base |-> base, next |-> k, bytes |-> w, trampOffset |-> t]
    BY ONLY <2>5, <1>9
  <2>7. w \in Seq(Byte)
    BY ONLY <2>4 DEF CopyWritten
  <2>. QED  BY ONLY <2>4, <2>6, <2>7, <1>2, <1>3, k = copy.next
<1>13. CASE re.type # "RelToAbs"
  <2>1. x.kind = "call" /\ re.source = x.at + 2 /\ re.size = 4 /\ re.data = x.of
    BY ONLY <1>10, <1>13 DEF RelocOf
  <2>2. x.size = 6 /\ data[x.at + 2] = <<232, 1, 1>>
    BY ONLY <2>1, <1>11 DEF UseFits, CallFits
  <2>3. b[x.at + 2] = <<232, 1, 1>>
    <3>1. ASSUME NEW r \in 1..k - 1 PROVE ~RelocOf(rs[r], x)
      <4>1. r \in DOMAIN rs /\ k \in DOMAIN rs /\ r # k
        <5>1. DOMAIN rs = 1..Len(rs) /\ Len(rs) \in Nat /\ k \in DOMAIN rs
          BY ONLY <1>2, <1>3, k \in DOMAIN relocations
        <5>. QED  BY ONLY <5>1, r \in 1..k - 1
      <4>2. ASSUME RelocOf(rs[r], x) PROVE FALSE
        <5>1. r = k
          BY ONLY <4>1, <4>2, <1>1, <1>2, <1>10, x \in uses, RelocsOne
        <5>. QED  BY ONLY <5>1, <4>1
      <4>. QED  BY ONLY <4>2
    <3>2. x.at + 2 \in x.at + 1 .. x.at + x.size
      BY ONLY <2>2, <1>6
    <3>. QED  BY ONLY <3>1, <3>2, <1>5, <2>2, x \in uses
  <2>4. c = Holder!Relocated(re)
    BY <1>2
  <2>5. PICK v : v = Holder!Relative(re)
    OBVIOUS
  <2>6. v = x.of - (base + (x.at + 2) + 4)
    BY ONLY <1>2, <2>1, <2>5 DEF Holder!Relative
  <2>7. CASE v \in Int32
    <3>1. PICK w : w = Holder!Write(b, x.at + 2, Holder!Bytes(v, 4))
      OBVIOUS
    <3>2. CopyWritten(w, t, b, t, x, x.of, base, m)
      BY ONLY <2>1, <2>2, <2>3, <2>6, <3>1, <1>3, <1>5, <1>6, <1>7, NearWritten
    <3>3. c = [old EXCEPT !.bytes = w]
      <4>1. c = [copy EXCEPT !.bytes = Holder!Write(@, re.source, Holder!Bytes(Holder!Relative(re), re.size))]
        BY ONLY <2>4, <2>5, <2>7, <1>13 DEF Holder!Relocated
      <4>2. c = [copy EXCEPT !.bytes = Holder!Write(copy.bytes, re.source, Holder!Bytes(Holder!Relative(re), re.size))]
        BY ONLY <4>1
      <4>3. w = Holder!Write(copy.bytes, re.source, Holder!Bytes(Holder!Relative(re), re.size))
        BY ONLY <1>2, <2>1, <2>5, <3>1
      <4>. QED  BY ONLY <4>2, <4>3, <1>2
    <3>4. c = [base |-> base, next |-> k, bytes |-> w, trampOffset |-> t]
      BY ONLY <3>3, <1>9
    <3>5. w \in Seq(Byte)
      BY ONLY <3>2 DEF CopyWritten
    <3>. QED  BY ONLY <3>2, <3>4, <3>5, <2>1, <1>2, <1>3, k = copy.next
  <2>8. CASE v \notin Int32
    <3>1. PICK far : far = t - (x.at + 2) - 4
      OBVIOUS
    <3>2. PICK call, hold : /\ call = Holder!Bytes(255, 1) \o Holder!Bytes(21, 1) \o Holder!Bytes(far, 4)
                            /\ hold = Holder!Bytes(x.of, 8)
      OBVIOUS
    <3>3. PICK w : w = Holder!Write(Holder!Write(b, x.at, call), t, hold)
      OBVIOUS
    <3>4. CopyWritten(w, t + 8, b, t, x, x.of, base, m)
      <4>1. CopyWritten(Holder!Write(Holder!Write(b, x.at, Holder!Bytes(255, 1) \o Holder!Bytes(21, 1) \o Holder!Bytes(far, 4)),
                                    t, Holder!Bytes(x.of, 8)),
                        t + 8, b, t, x, x.of, base, m)
        BY ONLY <2>1, <2>2, <3>1, <1>3, <1>4, <1>5, <1>6, <1>7, FarWritten
      <4>. QED  BY ONLY <4>1, <3>2, <3>3
    <3>5. c = [old EXCEPT !.bytes = w, !.trampOffset = t + 8]
      <4>1. c = [copy EXCEPT !.bytes = Holder!Write(Holder!Write(@, re.source - 2,
                                            Holder!Bytes(255, 1) \o Holder!Bytes(21, 1)
                                              \o Holder!Bytes(copy.trampOffset - re.source - re.size, re.size)),
                                            copy.trampOffset, Holder!Bytes(re.data, 8)),
                             !.trampOffset = @ + 8]
        BY ONLY <2>4, <2>5, <2>8, <1>13 DEF Holder!Relocated
      <4>2. re.source - 2 = x.at
        BY ONLY <2>1, <1>6
      <4>3. Holder!Bytes(copy.trampOffset - re.source - re.size, re.size) = Holder!Bytes(far, 4)
        BY ONLY <1>2, <2>1, <3>1
      <4>4. Holder!Write(Holder!Write(copy.bytes, re.source - 2,
                                            Holder!Bytes(255, 1) \o Holder!Bytes(21, 1)
                                              \o Holder!Bytes(copy.trampOffset - re.source - re.size, re.size)),
                                            copy.trampOffset, Holder!Bytes(re.data, 8)) = w
        BY ONLY <1>2, <2>1, <3>2, <3>3, <4>2, <4>3
      <4>5. c = [copy EXCEPT !.bytes = w, !.trampOffset = copy.trampOffset + 8]
        BY ONLY <4>1, <4>4
      <4>. QED  BY ONLY <4>5, <1>2
    <3>6. c = [base |-> base, next |-> k, bytes |-> w, trampOffset |-> t + 8]
      BY ONLY <3>5, <1>9
    <3>7. w \in Seq(Byte) /\ t + 8 \in Nat
      BY ONLY <3>4 DEF CopyWritten
    <3>. QED  BY ONLY <3>4, <3>6, <3>7, <2>1, <1>2, <1>3, k = copy.next
  <2>. QED  BY ONLY <2>7, <2>8
<1>. QED  BY ONLY <1>12, <1>13

LEMMA RelocateNextStep ==
    ASSUME HolderInv, Holder!RelocateNext
    PROVE  HolderInv'
<1>1. HolderTypeOK /\ BufferInOrder /\ RelocsFit
  BY DEF HolderInv
<1>2. PICK k, c : k = copy.next /\ c = Holder!Relocated(relocations[copy.next])
  OBVIOUS
<1>3. /\ copy.base # 0 /\ k <= Len(relocations)
      /\ copy' = [c EXCEPT !.next = @ + 1]
      /\ data' = data /\ length' = length /\ trampolinesSize' = trampolinesSize
      /\ holderEntries' = holderEntries
      /\ relocations' = relocations /\ unresolvedLabelsCount' = unresolvedLabelsCount
      /\ attached' = attached /\ bufferPtr' = bufferPtr /\ lastError' = lastError
      /\ binding' = binding /\ uses' = uses /\ failed' = failed
  BY <1>2 DEF Holder!RelocateNext, Holder!assembler
<1>4. binding.label = 0
  BY ONLY <1>1, <1>3 DEF BufferInOrder
<1>5. k \in DOMAIN relocations /\ k \in Nat
  <2>1. CopyFits
    BY <1>3 DEF HolderInv
  <2>2. k \in 1..Len(relocations) + 1
    BY ONLY <2>1, <1>2 DEF CopyFits
  <2>3. DOMAIN relocations = 1..Len(relocations) /\ Len(relocations) \in Nat
    BY ONLY <1>1, HolderTypes
  <2>. QED  BY ONLY <2>2, <2>3, <1>3
<1>6. PICK x \in uses : RelocOf(relocations[k], x)
  BY ONLY <1>1, <1>5 DEF RelocsFit
<1>7. /\ c.base = copy.base /\ c.next = copy.next
      /\ c \in [base : Nat, next : Nat, bytes : Seq(Byte), trampOffset : Nat]
      /\ CopyWritten(c.bytes, c.trampOffset, copy.bytes, copy.trampOffset, x, relocations[k].data,
                     copy.base, Holder!Synced)
  <2>1. c = Holder!Relocated(relocations[k])
    BY ONLY <1>2
  <2>. QED  BY ONLY <2>1, <1>2, <1>3, <1>5, <1>6, HolderInv, RelocatedWrites
<1>8. copy' = [base |-> c.base, next |-> k + 1, bytes |-> c.bytes, trampOffset |-> c.trampOffset]
  <2>1. c = [base |-> c.base, next |-> k, bytes |-> c.bytes, trampOffset |-> c.trampOffset]
    BY ONLY <1>2, <1>7
  <2>2. copy' = [c EXCEPT !.next = k + 1]
    BY ONLY <1>2, <1>3, <1>7
  <2>. QED  BY ONLY <2>1, <2>2
<1>9. /\ copy'.base = copy.base /\ copy'.next = k + 1 /\ copy'.bytes = c.bytes
      /\ copy'.trampOffset = c.trampOffset
  BY ONLY <1>7, <1>8
<1>10. copy' \in [base : Nat, next : Nat, bytes : Seq(Byte), trampOffset : Nat]
  <2>1. k + 1 \in Nat
    BY ONLY <1>5
  <2>2. c.base \in Nat /\ c.bytes \in Seq(Byte) /\ c.trampOffset \in Nat
    BY ONLY <1>7
  <2>. QED  BY ONLY <2>1, <2>2, <1>8
<1>11. HolderTypeOK'
  BY ONLY <1>1, <1>3, <1>10 DEF HolderTypeOK
<1>12. CopyWritten(copy'.bytes, copy'.trampOffset, copy.bytes, copy.trampOffset, x, relocations[k].data,
                   copy.base, Holder!Synced)
  BY ONLY <1>7, <1>9
<1>13. CopyFits'
  BY ONLY <1>2, <1>3, <1>5, <1>6, <1>9, <1>12, HolderInv, CopyGoesOn
<1>14. Holder!Synced' = Holder!Synced
  BY ONLY <1>3 DEF Holder!Synced
<1>. QED  BY ONLY <1>3, <1>4, <1>11, <1>13, <1>14, HolderInv, CopyMoves

-----------------------------------------------------------------------------
(* CodeHolder: what its invariant says of the copy.                        *)

\* What stands in the copy, as LabelsResolve says it.
LEMMA CopyShows ==
    ASSUME NEW b \in Seq(Byte), NEW at \in Nat, NEW v \in Int, NEW s \in Nat, Holds(b, at, Holder!Bytes(v, s))
    PROVE  SubSeq(b, at + 1, at + s) = Holder!Bytes(v, s)
<1>1. PICK new : new = Holder!Bytes(v, s)
  OBVIOUS
<1>2. new \in Seq(Byte) /\ Len(new) = s
  BY ONLY <1>1, v \in Int, s \in Nat, BytesAre
<1>3. Holds(b, at, new)
  BY ONLY <1>1, Holds(b, at, Holder!Bytes(v, s))
<1>4. SubSeq(b, at + 1, at + Len(new)) = new
  BY ONLY <1>2, <1>3, b \in Seq(Byte), at \in Nat, HoldsSubSeq
<1>. QED  BY ONLY <1>1, <1>2, <1>4

LEMMA CallShows ==
    ASSUME HolderTypeOK, NEW u \in HolderUse, CallHolds(u, copy.bytes, copy.base, Holder!Synced)
    PROVE  Holder!CallStands(u)
<1>1. PICK b, base, m : b = copy.bytes /\ base = copy.base /\ m = Holder!Synced
  OBVIOUS
<1>2. b \in Seq(Byte)
  BY ONLY <1>1, HolderTypeOK, HolderTypes
<1>3. PICK at \in Nat, of \in Int : at = u.at /\ of = u.of
  BY DEF HolderUse
<1>4. PICK v \in Int :
        /\ Holds(b, at + 2, Holder!Bytes(v, 4))
        /\ \/ b[at + 2] = <<232, 1, 1>> /\ base + (at + 6 + v) = of
           \/ /\ b[at + 1] = <<255, 1, 1>> /\ b[at + 2] = <<21, 1, 1>>
              /\ at + 6 + v >= m /\ Holds(b, at + 6 + v, Holder!Bytes(of, 8))
  BY <1>1, <1>3 DEF CallHolds
<1>5. SubSeq(b, at + 3, at + 6) = Holder!Bytes(v, 4)
  <2>1. PICK c \in Nat : c = at + 2
    BY ONLY at \in Nat
  <2>2. SubSeq(b, c + 1, c + 4) = Holder!Bytes(v, 4)
    <3>1. Holds(b, c, Holder!Bytes(v, 4)) /\ 4 \in Nat
      BY ONLY <2>1, <1>4
    <3>. QED  BY ONLY <3>1, <1>2, v \in Int, c \in Nat, CopyShows
  <2>3. c + 1 = at + 3 /\ c + 4 = at + 6
    BY ONLY <2>1, at \in Nat
  <2>. QED  BY ONLY <2>2, <2>3
<1>6. b[at + 3] = <<v, 1, 4>>
  <2>1. PICK dist : dist = Holder!Bytes(v, 4)
    OBVIOUS
  <2>2. 4 \in Nat /\ 1 \in 1..4 /\ at + 2 + 1 = at + 3
    BY ONLY at \in Nat
  <2>3. Len(dist) = 4 /\ dist[1] = <<v, 1, 4>>
    BY ONLY <2>1, <2>2, v \in Int, BytesAre
  <2>4. Holds(b, at + 2, dist)
    BY ONLY <2>1, <1>4
  <2>5. b[at + 2 + 1] = dist[1]
    BY ONLY <2>2, <2>3, <2>4 DEF Holds
  <2>. QED  BY ONLY <2>2, <2>3, <2>5
<1>7. b[at + 3][1] = v
  BY ONLY <1>6
<1>8. \/ b[at + 2] = <<232, 1, 1>> /\ base + (at + 6 + v) = of
      \/ /\ b[at + 1] = <<255, 1, 1>> /\ b[at + 2] = <<21, 1, 1>>
         /\ at + 6 + v >= m /\ SubSeq(b, at + 6 + v + 1, at + 6 + v + 8) = Holder!Bytes(of, 8)
  <2>1. ASSUME at + 6 + v >= m, Holds(b, at + 6 + v, Holder!Bytes(of, 8))
        PROVE  SubSeq(b, at + 6 + v + 1, at + 6 + v + 8) = Holder!Bytes(of, 8)
    <3>1. m \in Nat
      <4>1. length \in Nat /\ bufferPtr \in Nat
        BY ONLY HolderTypeOK, HolderTypes
      <4>2. m = Holder!Larger(length, bufferPtr)
        BY ONLY <1>1 DEF Holder!Synced
      <4>. QED  BY ONLY <4>1, <4>2, SyncedIs
    <3>2. PICK a \in Nat : a = at + 6 + v
      BY ONLY <2>1, <3>1, at \in Nat, v \in Int
    <3>3. 8 \in Nat
      OBVIOUS
    <3>4. SubSeq(b, a + 1, a + 8) = Holder!Bytes(of, 8)
      BY ONLY <2>1, <3>2, <3>3, <1>2, of \in Int, CopyShows
    <3>. QED  BY ONLY <3>2, <3>4
  <2>. QED  BY ONLY <2>1, <1>4
<1>. QED  BY ONLY <1>1, <1>3, <1>5, <1>7, <1>8 DEF Holder!CallStands

\* A use whose relocation is done, or that has none.
LEMMA CopyOfUse ==
    ASSUME HolderInv, copy.base # 0, copy.next > Len(relocations), NEW u \in uses
    PROVE  /\ u.kind = "address" /\ Holder!Bound(u.of) => Holder!AddressStands(u)
           /\ u.kind = "jump" /\ Holder!Bound(u.of) => Holder!JumpStands(u) \/ (failed /\ u.size = 1)
           /\ u.kind = "call" => Holder!CallStands(u)
<1>1. HolderTypeOK /\ BufferInOrder /\ UsesFit /\ LinksFit /\ CopyFits
  BY DEF HolderInv
<1>2. PICK n, b, base : /\ n \in Nat /\ n = Len(relocations) /\ b = copy.bytes /\ base = copy.base
                        /\ DOMAIN relocations = 1..n
  BY ONLY <1>1, HolderTypes
<1>3. b \in Seq(Byte) /\ base \in Nat /\ data \in Seq(Byte) /\ relocations \in Seq(HolderReloc)
  BY ONLY <1>1, <1>2, HolderTypes
<1>4. 1..copy.next - 1 = DOMAIN relocations
  <2>1. copy.next \in 1..n + 1 /\ copy.next > n
    BY ONLY <1>1, <1>2, copy.next > Len(relocations) DEF CopyFits
  <2>2. copy.next - 1 = n
    BY ONLY <2>1, <1>2
  <2>. QED  BY ONLY <2>2, <1>2
<1>5. /\ \A r \in DOMAIN relocations : RelocOf(relocations[r], u) =>
            /\ u.kind = "address" => Holds(b, u.at, Holder!Bytes(relocations[r].data + base, gpSize))
            /\ u.kind = "call" => CallHolds(u, b, base, Holder!Synced)
      /\ (\A r \in DOMAIN relocations : ~RelocOf(relocations[r], u)) =>
            \A i \in u.at + 1 .. u.at + u.size : b[i] = data[i]
  BY ONLY <1>1, <1>2, <1>4, u \in uses DEF CopyFits
<1>6. /\ u \in HolderUse /\ u.at \in Nat /\ u.size \in Nat /\ u.at + u.size <= Len(data)
      /\ u.kind # "call" => u.of \in DOMAIN holderEntries
  BY ONLY <1>1, u \in uses, UseOfType
<1>7. UseFits(u, Len(holderEntries), data, relocations, Holder!LinksOf(u.of), Place(u.of), failed \/ binding.err)
  BY ONLY <1>1, u \in uses DEF UsesFit
<1>8. binding.label = 0 /\ ~binding.err
  <2>1. binding.label = 0
    BY ONLY <1>1, copy.base # 0 DEF BufferInOrder
  <2>. QED  BY ONLY <2>1, <1>1 DEF BufferInOrder
<1>9. ASSUME u.kind # "call", Holder!Bound(u.of)
      PROVE  ~Linked(Holder!LinksOf(u.of), u) /\ Place(u.of) = holderEntries[u.of].offset
  <2>1. PICK l \in DOMAIN holderEntries : l = u.of
    BY ONLY <1>6, <1>9
  <2>2. holderEntries[l].links = << >>
    BY ONLY <2>1, <1>1, <1>9 DEF LinksFit, Holder!Bound
  <2>3. l # 0
    <3>1. DOMAIN holderEntries = 1..Len(holderEntries) /\ Len(holderEntries) \in Nat
      BY ONLY <1>1, HolderTypes
    <3>. QED  BY ONLY <3>1, l \in DOMAIN holderEntries
  <2>4. Holder!LinksOf(l) = << >> /\ Place(l) = holderEntries[l].offset
    BY ONLY <2>2, <2>3, <1>8 DEF Holder!LinksOf, Place
  <2>5. DOMAIN << >> = {}
    OBVIOUS
  <2>. QED  BY ONLY <2>1, <2>4, <2>5 DEF Linked
<1>10. ASSUME u.kind # "call" PROVE holderEntries[u.of].offset \in Int
  <2>1. holderEntries[u.of] \in HolderEntry
    <3>1. holderEntries \in Seq(HolderEntry)
      BY ONLY <1>1, HolderTypes
    <3>. QED  BY ONLY <3>1, <1>6, <1>10, ElementOfSeq
  <2>. QED  BY ONLY <2>1 DEF HolderEntry
<1>11. ASSUME u.kind = "address", Holder!Bound(u.of) PROVE Holder!AddressStands(u)
  <2>1. AddressFits(u, Len(holderEntries), relocations, Holder!LinksOf(u.of), Place(u.of))
    BY ONLY <1>7, <1>11 DEF UseFits
  <2>2. PICK off \in Int : off = holderEntries[u.of].offset
    BY ONLY <1>10, <1>11
  <2>3. ~Linked(Holder!LinksOf(u.of), u) /\ Place(u.of) = off
    BY ONLY <1>9, <1>11, <2>2
  <2>4. Served(relocations, u)
    BY ONLY <2>1, Zenon DEF AddressFits
  <2>5. u.size = gpSize
    BY ONLY <2>1, Zenon DEF AddressFits
  <2>6. \A r \in DOMAIN relocations : RelocOf(relocations[r], u) =>
           relocations[r].data = IF Linked(Holder!LinksOf(u.of), u) THEN 0 ELSE Place(u.of)
    BY ONLY <2>1, Zenon DEF AddressFits
  <2>7. PICK r \in DOMAIN relocations : RelocOf(relocations[r], u)
    BY ONLY <2>4 DEF Served
  <2>8. relocations[r].data = off
    BY ONLY <2>3, <2>6, <2>7
  <2>9. Holds(b, u.at, Holder!Bytes(off + base, gpSize))
    BY ONLY <2>7, <2>8, <1>5, <1>11
  <2>10. off + base = base + off /\ base + off \in Int
    BY ONLY off \in Int, <1>3
  <2>11. SubSeq(b, u.at + 1, u.at + gpSize) = Holder!Bytes(base + off, gpSize)
    BY ONLY <2>5, <2>9, <2>10, <1>3, <1>6, CopyShows
  <2>. QED  BY ONLY <2>2, <2>5, <2>11, <1>2 DEF Holder!AddressStands, Holder!Stands
<1>12. ASSUME u.kind = "jump", Holder!Bound(u.of) PROVE Holder!JumpStands(u) \/ (failed /\ u.size = 1)
  <2>1. JumpFits(u, Len(holderEntries), data, Holder!LinksOf(u.of), Place(u.of), failed \/ binding.err)
    BY ONLY <1>7, <1>12 DEF UseFits
  <2>2. PICK off \in Int : off = holderEntries[u.of].offset
    BY ONLY <1>10, <1>12
  <2>3. ~Linked(Holder!LinksOf(u.of), u) /\ Place(u.of) = off
    BY ONLY <1>9, <1>12, <2>2
  <2>4. \/ Linked(Holder!LinksOf(u.of), u)
        \/ Holds(data, u.at, Holder!Bytes(Place(u.of) - (u.at + u.size), u.size))
        \/ u.size = 1 /\ (failed \/ binding.err)
    BY ONLY <2>1, Zenon DEF JumpFits
  <2>5. PICK v \in Int : v = off - (u.at + u.size)
    BY ONLY <1>6, off \in Int
  <2>6. ASSUME Holds(data, u.at, Holder!Bytes(v, u.size)) PROVE Holder!JumpStands(u)
    <3>1. ASSUME NEW r \in DOMAIN relocations PROVE ~RelocOf(relocations[r], u)
      BY ONLY <1>12 DEF RelocOf
    <3>2. \A i \in u.at + 1 .. u.at + u.size : b[i] = data[i]
      BY ONLY <3>1, <1>5
    <3>3. PICK new : new = Holder!Bytes(v, u.size)
      OBVIOUS
    <3>4. new \in Seq(Byte) /\ Len(new) = u.size
      BY ONLY <3>3, v \in Int, <1>6, BytesAre
    <3>5. Len(data) \in Nat /\ Len(b) \in Nat /\ Len(data) <= Len(b)
      <4>1. Holder!Synced <= Len(b) /\ Len(data) = Holder!Synced
        BY ONLY <1>1, <1>2 DEF CopyFits, BufferInOrder
      <4>. QED  BY ONLY <4>1, <1>3
    <3>6. u.at <= u.at /\ u.at + Len(new) <= u.at + u.size
      BY ONLY <3>4, <1>6
    <3>7. Holds(data, u.at, new)
      BY ONLY <2>6, <3>3
    <3>8. Holds(b, u.at, new)
      BY ONLY <3>2, <3>4, <3>5, <3>6, <3>7, <1>6, HoldsStill
    <3>9. Holds(b, u.at, Holder!Bytes(v, u.size))
      BY ONLY <3>3, <3>8
    <3>10. SubSeq(b, u.at + 1, u.at + u.size) = Holder!Bytes(v, u.size)
      BY ONLY <3>9, <1>3, <1>6, v \in Int, CopyShows
    <3>. QED  BY ONLY <3>10, <2>2, <2>5, <1>2 DEF Holder!JumpStands, Holder!Stands
  <2>7. \/ Holds(data, u.at, Holder!Bytes(v, u.size))
        \/ u.size = 1 /\ failed
    BY ONLY <2>3, <2>4, <2>5, <1>8
  <2>. QED  BY ONLY <2>6, <2>7
<1>13. ASSUME u.kind = "call" PROVE Holder!CallStands(u)
  <2>1. CallFits(u, data, relocations)
    BY ONLY <1>7, <1>13 DEF UseFits
  <2>2. PICK r \in DOMAIN relocations : RelocOf(relocations[r], u)
    BY ONLY <2>1 DEF CallFits, Served
  <2>3. CallHolds(u, b, base, Holder!Synced)
    BY ONLY <2>2, <1>5, <1>13
  <2>. QED  BY ONLY <2>3, <1>1, <1>2, <1>6, CallShows
<1>. QED  BY ONLY <1>11, <1>12, <1>13

\* What the invariant says when relocate is done.
LEMMA HolderShows ==
    ASSUME HolderInv
    PROVE  Holder!LabelsResolve
<1>1. HolderTypeOK /\ BufferInOrder /\ UsesFit /\ RelocsFit /\ LinksFit /\ Counted
  BY DEF HolderInv
<1>2. PICK m : m = Holder!Synced
  OBVIOUS
<1>3. m \in Nat /\ trampolinesSize \in Nat /\ Len(data) = m
  <2>1. m = Holder!Larger(length, bufferPtr)
    BY ONLY <1>2 DEF Holder!Synced
  <2>2. length \in Nat /\ bufferPtr \in Nat /\ trampolinesSize \in Nat
    BY ONLY <1>1, HolderTypes
  <2>3. Len(data) = m
    BY ONLY <1>1, <1>2 DEF BufferInOrder
  <2>. QED  BY ONLY <2>1, <2>2, <2>3, SyncedIs
<1>4. Holder!CodeSize = m + trampolinesSize
  BY ONLY <1>2 DEF Holder!CodeSize
<1>5. ASSUME copy.base # 0, copy.next > Len(relocations)
      PROVE  Len(copy.bytes) = copy.trampOffset /\ copy.trampOffset <= Holder!CodeSize
  <2>1. CopyFits
    BY <1>5 DEF HolderInv
  <2>2. PICK k \in Nat : k = Cardinality(Trampolines(relocations, copy.next))
    <3>1. relocations \in Seq(HolderReloc)
      BY ONLY <1>1, HolderTypes
    <3>. QED  BY ONLY <3>1, TrampolinesFinite, FS_CardinalityType
  <2>3. Len(copy.bytes) = copy.trampOffset /\ copy.trampOffset + 8 * k <= m + trampolinesSize
    BY ONLY <2>1, <2>2, <1>4 DEF CopyFits
  <2>4. copy.trampOffset \in Nat
    BY ONLY <1>1, HolderTypes
  <2>. QED  BY ONLY <2>3, <2>4, <1>3, <1>4, k \in Nat
<1>6. ASSUME NEW r \in DOMAIN relocations
      PROVE  relocations[r].source + relocations[r].size <= Holder!CodeSize
  <2>1. PICK u \in uses : RelocOf(relocations[r], u)
    BY ONLY <1>1, r \in DOMAIN relocations DEF RelocsFit
  <2>2. UseFits(u, Len(holderEntries), data, relocations, Holder!LinksOf(u.of), Place(u.of), failed \/ binding.err)
    BY ONLY <1>1, u \in uses DEF UsesFit
  <2>3. u.at \in Nat /\ u.size \in Nat /\ u.at + u.size <= m
    BY ONLY <1>1, <1>3, u \in uses, UseOfType
  <2>4. \/ u.size = gpSize /\ relocations[r].source = u.at /\ relocations[r].size = gpSize
        \/ u.size = 6 /\ relocations[r].source = u.at + 2 /\ relocations[r].size = 4
    <3>1. CASE u.kind = "address"
      <4>1. relocations[r].source = u.at /\ relocations[r].size = gpSize
        BY ONLY <3>1, <2>1 DEF RelocOf
      <4>2. u.size = gpSize
        BY ONLY <3>1, <2>2 DEF UseFits, AddressFits
      <4>. QED  BY ONLY <4>1, <4>2
    <3>2. CASE u.kind # "address"
      <4>1. u.kind = "call" /\ relocations[r].source = u.at + 2 /\ relocations[r].size = 4
        BY ONLY <3>2, <2>1 DEF RelocOf
      <4>2. u.size = 6
        BY ONLY <4>1, <2>2 DEF UseFits, CallFits
      <4>. QED  BY ONLY <4>1, <4>2
    <3>. QED  BY ONLY <3>1, <3>2
  <2>5. relocations[r].source + relocations[r].size <= m
    <3>1. CASE u.size = gpSize /\ relocations[r].source = u.at /\ relocations[r].size = gpSize
      BY ONLY <3>1, <2>3
    <3>2. CASE u.size = 6 /\ relocations[r].source = u.at + 2 /\ relocations[r].size = 4
      <4>1. u.at + 6 <= m
        BY ONLY <3>2, <2>3
      <4>2. u.at + 2 + 4 <= m
        BY ONLY <4>1, <2>3
      <4>. QED  BY ONLY <4>2, <3>2
    <3>. QED  BY ONLY <3>1, <3>2, <2>4
  <2>6. PICK e \in Int : e = relocations[r].source + relocations[r].size
    <3>1. relocations[r] \in HolderReloc
      <4>1. relocations \in Seq(HolderReloc)
        BY ONLY <1>1, HolderTypes
      <4>. QED  BY ONLY <4>1, r \in DOMAIN relocations, ElementOfSeq
    <3>2. relocations[r].source \in Nat /\ relocations[r].size \in Nat
      BY ONLY <3>1 DEF HolderReloc
    <3>. QED  BY ONLY <3>2
  <2>7. e <= m + trampolinesSize
    BY ONLY <2>5, <2>6, <1>3, e \in Int
  <2>. QED  BY ONLY <2>6, <2>7, <1>4
<1>7. unresolvedLabelsCount = Holder!Cardinality(Holder!Unresolved)
  <2>1. unresolvedLabelsCount = Cardinality(Holder!Unresolved)
    BY ONLY <1>1 DEF Counted
  <2>. QED  BY ONLY <2>1, HolderCardinality
<1>8. \A l \in DOMAIN holderEntries : Holder!Bound(l) => holderEntries[l].links = << >>
  BY ONLY <1>1 DEF LinksFit, Holder!Bound
<1>9. ASSUME copy.base # 0, copy.next > Len(relocations), NEW u \in uses
      PROVE  /\ u.kind = "address" /\ Holder!Bound(u.of) => Holder!AddressStands(u)
             /\ u.kind = "jump" /\ Holder!Bound(u.of) => Holder!JumpStands(u) \/ (failed /\ u.size = 1)
             /\ u.kind = "call" => Holder!CallStands(u)
  BY ONLY <1>9, u \in uses, HolderInv, CopyOfUse
<1>. QED  BY ONLY <1>5, <1>6, <1>7, <1>8, <1>9 DEF Holder!LabelsResolve

-----------------------------------------------------------------------------
(* CodeHolder: its invariant holds.                                        *)

\* It holds at first, and every step keeps it.
LEMMA HolderInit ==
    ASSUME Holder!Init
    PROVE  HolderInv
<1>1. /\ data = << >> /\ length = 0 /\ trampolinesSize = 0
      /\ holderEntries = << >> /\ relocations = << >> /\ unresolvedLabelsCount = 0
      /\ attached = FALSE /\ bufferPtr = 0 /\ lastError = FALSE
      /\ binding = [label |-> 0, links |-> << >>, err |-> FALSE, follows |-> 0]
      /\ copy = [base |-> 0, next |-> 0, bytes |-> << >>, trampOffset |-> 0]
      /\ uses = {} /\ failed = FALSE
  BY DEF Holder!Init, Holder!NoBinding, Holder!NoCopy
<1>2. HolderTypeOK
  <2>1. << >> \in Seq(Byte) /\ << >> \in Seq(HolderEntry) /\ << >> \in Seq(HolderReloc) /\ << >> \in Seq(HolderLink)
    OBVIOUS
  <2>2. binding \in [label : Nat, links : Seq(HolderLink), err : BOOLEAN, follows : Nat]
    BY ONLY <1>1, <2>1
  <2>3. copy \in [base : Nat, next : Nat, bytes : Seq(Byte), trampOffset : Nat]
    BY ONLY <1>1, <2>1
  <2>4. uses \in SUBSET HolderUse
    BY ONLY <1>1
  <2>5. attached \in BOOLEAN /\ lastError \in BOOLEAN /\ failed \in BOOLEAN
    BY ONLY <1>1
  <2>. QED  BY ONLY <1>1, <2>1, <2>2, <2>3, <2>4, <2>5 DEF HolderTypeOK
<1>3. Len(<< >>) = 0 /\ DOMAIN << >> = {} /\ Holder!Larger(0, 0) = 0 /\ 0 \in 0..0
  BY DEF Holder!Larger
<1>4. BufferInOrder
  BY ONLY <1>1, <1>3 DEF BufferInOrder, Holder!Synced
<1>5. UsesApart /\ UsesFit /\ RelocsFit /\ LinksFit
  BY ONLY <1>1, <1>3 DEF UsesApart, UsesFit, RelocsFit, LinksFit
<1>6. Counted
  <2>1. ASSUME NEW p PROVE p \notin Holder!Unresolved
    BY ONLY <1>1, <1>3, UnresolvedAre
  <2>2. Holder!Unresolved = {}
    BY ONLY <2>1
  <2>. QED  BY ONLY <2>2, <1>1, FS_EmptySet DEF Counted
<1>7. TrampolinesFit
  <2>1. Trampolines(relocations, 1) = {}
    BY ONLY <1>1, <1>3 DEF Trampolines
  <2>2. Cardinality({}) = 0 /\ 8 * 0 = 0
    BY FS_EmptySet
  <2>. QED  BY ONLY <2>1, <2>2, <1>1 DEF TrampolinesFit
<1>8. copy.base = 0
  BY ONLY <1>1
<1>. QED  BY ONLY <1>2, <1>4, <1>5, <1>6, <1>7, <1>8 DEF HolderInv

LEMMA HolderStutters ==
    ASSUME HolderInv, UNCHANGED Holder!vars
    PROVE  HolderInv'
<1>1. /\ data' = data /\ length' = length /\ trampolinesSize' = trampolinesSize
      /\ holderEntries' = holderEntries
      /\ relocations' = relocations /\ unresolvedLabelsCount' = unresolvedLabelsCount
      /\ attached' = attached /\ bufferPtr' = bufferPtr /\ lastError' = lastError
      /\ binding' = binding /\ copy' = copy /\ uses' = uses /\ failed' = failed
  BY DEF Holder!vars, Holder!assembler
<1>2. HolderTypeOK' /\ BufferInOrder' /\ UsesApart' /\ RelocsFit'
  BY ONLY <1>1, HolderInv DEF HolderInv, HolderTypeOK, BufferInOrder, UsesApart, RelocsFit, Holder!Synced
<1>3. \A l : Holder!LinksOf(l)' = Holder!LinksOf(l) /\ Place(l)' = Place(l)
  BY ONLY <1>1 DEF Holder!LinksOf, Place
<1>4. UsesFit' /\ LinksFit'
  BY ONLY <1>1, <1>3, HolderInv DEF HolderInv, UsesFit, LinksFit
<1>5. Counted'
  <2>1. LinksSame
    BY ONLY <1>1, <1>3 DEF LinksSame
  <2>. QED  BY ONLY <2>1, <1>1, HolderInv, CountedStays DEF HolderInv
<1>6. TrampolinesFit'
  BY ONLY <1>1, HolderInv DEF HolderInv, TrampolinesFit, Trampolines
<1>7. ASSUME copy'.base # 0 PROVE CopyFits'
  <2>1. CopyFits
    BY ONLY <1>1, <1>7, HolderInv DEF HolderInv
  <2>2. Holder!Synced' = Holder!Synced
    BY ONLY <1>1 DEF Holder!Synced
  <2>3. Holder!CodeSize' = Holder!CodeSize
    BY ONLY <2>2, <1>1 DEF Holder!CodeSize
  <2>. QED  BY ONLY <2>1, <2>2, <2>3, <1>1 DEF CopyFits
<1>. QED  BY ONLY <1>2, <1>4, <1>5, <1>6, <1>7 DEF HolderInv

LEMMA HolderNext ==
    ASSUME HolderInv, [Holder!Next]_(Holder!vars)
    PROVE  HolderInv'
<1>1. CASE UNCHANGED Holder!vars
  BY ONLY <1>1, HolderInv, HolderStutters
<1>2. CASE Holder!Next
  <2>1. CASE Holder!Attach
    BY ONLY <2>1, HolderInv, AttachStep
  <2>2. CASE Holder!Detach
    BY ONLY <2>2, HolderInv, DetachStep
  <2>3. CASE Holder!NewLabel
    BY ONLY <2>3, HolderInv, NewLabelStep
  <2>4. CASE Holder!Embed(1)
    BY ONLY <2>4, HolderInv, EmbedStep
  <2>5. CASE Holder!BindNext
    BY ONLY <2>5, HolderInv, BindNextStep
  <2>6. CASE Holder!BindEnd
    BY ONLY <2>6, HolderInv, BindEndStep
  <2>7. ASSUME NEW offset \in Offsets, Holder!SetOffset(offset) PROVE HolderInv'
    BY ONLY <2>7, HolderInv, SetOffsetStep
  <2>8. ASSUME NEW l \in DOMAIN holderEntries, Holder!Bind(l) PROVE HolderInv'
    BY ONLY <2>8, HolderInv, BindStep
  <2>9. ASSUME NEW l \in DOMAIN holderEntries, Holder!EmbedLabel(l) PROVE HolderInv'
    BY ONLY <2>9, HolderInv, EmbedLabelStep
  <2>10. ASSUME NEW l \in DOMAIN holderEntries, Holder!EmbedConstPool(l, 4) PROVE HolderInv'
    BY ONLY <2>10, HolderInv, EmbedConstPoolStep
  <2>11. ASSUME NEW l \in DOMAIN holderEntries, Holder!EmitJump(l, 1) PROVE HolderInv'
    <3>1. 1 \in {1, 4}
      OBVIOUS
    <3>. QED  BY ONLY <3>1, <2>11, HolderInv, EmitJumpStep
  <2>12. ASSUME NEW l \in DOMAIN holderEntries, Holder!EmitJump(l, 4) PROVE HolderInv'
    <3>1. 4 \in {1, 4}
      OBVIOUS
    <3>. QED  BY ONLY <3>1, <2>12, HolderInv, EmitJumpStep
  <2>13. ASSUME NEW target \in Targets, Holder!EmitCall(target) PROVE HolderInv'
    BY ONLY <2>13, HolderInv, EmitCallStep
  <2>14. ASSUME NEW base \in Bases, Holder!Relocate(base) PROVE HolderInv'
    BY ONLY <2>14, HolderInv, RelocateStep
  <2>15. CASE Holder!RelocateNext
    BY ONLY <2>15, HolderInv, RelocateNextStep
  <2>16. CASE Holder!RelocateEnd
    BY ONLY <2>16, HolderInv, RelocateEndStep
  <2>. QED  BY ONLY <1>2, <2>1, <2>2, <2>3, <2>4, <2>5, <2>6, <2>7, <2>8, <2>9, <2>10, <2>11, <2>12, <2>13,
            <2>14, <2>15, <2>16 DEF Holder!Next
<1>. QED  BY ONLY <1>1, <1>2, [Holder!Next]_(Holder!vars)

\* In whichever order labels are made, used and bound, with the cursor set anywhere, and wherever
\* the code is copied to: what stands where an address, a jump or a call was emitted leads to its
\* label or target, the trampolines fit the room reserved for them, and what is not resolved is
\* counted at every pass of the loops of bind and relocate (assembler.cpp, codeholder.cpp).
THEOREM LabelsCorrect == Holder!Spec => []LabelsResolve
<1>1. Holder!Init => HolderInv
  BY ONLY HolderInit
<1>2. HolderInv /\ [Holder!Next]_(Holder!vars) => HolderInv'
  BY ONLY HolderNext
<1>3. HolderInv => LabelsResolve
  BY ONLY HolderShows DEF LabelsResolve
<1>. QED  BY <1>1, <1>2, <1>3, PTL DEF Holder!Spec

=============================================================================
