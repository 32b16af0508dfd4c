----------------------------- MODULE StackCells -----------------------------
(***************************************************************************)
(* Where the registers of a function live in memory (RAPass of             *)
(* asmjit/base/regalloc.cpp): a cell for each virtual register that needs  *)
(* one, and for pieces of stack; and, when all are known, their offsets.   *)
(* The functions of a CodeCompiler are compiled one after the other.       *)
(*                                                                         *)
(* When a cell is needed is decided by a backend that the repository does  *)
(* not have: at any time.                                                  *)
(***************************************************************************)
EXTENDS Naturals, Sequences, SequencesExt, FiniteSetsExt

CONSTANTS
    VirtRegs,       \* records [size, isStack, alignment, id]
    StackSizes, Alignments,     \* what _newStackCell is asked for, an alignment of 0 included
    MaxCells,       \* bound: cells
    MaxFunctions    \* bound: functions

VarSizes == {1, 2, 4, 8, 16, 32, 64}

\* No alignment is 0, and those above 64 count as 64 (_newStackCell).
IsAlignment(a) == a \in Nat /\ (a = 0 \/ a \in VarSizes \/ a > 64)

\* _newVarCell knows no other sizes of registers; isPowerOf2 is asserted of the alignment.
RegistersAssumption ==
    /\ \A v \in VirtRegs :
          /\ v.isStack \in BOOLEAN
          /\ IF v.isStack THEN v.size \in Nat \ {0} /\ IsAlignment(v.alignment)
             ELSE v.size \in VarSizes
    /\ StackSizes \subseteq Nat \ {0}
    /\ \A a \in Alignments : IsAlignment(a)

VARIABLES
    cells,          \* all RACells: [size, alignment, offset, func]
    memCell,        \* _memCell of each virtual register, 0 for nullptr
    memVarCells, memStackCells,     \* the lists, the first one first
    varsUsed,       \* _mem1ByteVarsUsed ... _mem64ByteVarsUsed
    memMaxAlign,
    memAllTotal,
    func,           \* which function is compiled
    stage,          \* "open", then "vars" and "stack" in resolveCellOffsets, then "resolved"
    done,           \* the cells of the list that have been given their offsets
    pos,            \* pos64 ... pos1, by size
    stackPos

lists   == <<memVarCells, memStackCells, varsUsed, memMaxAlign>>
resolve == <<stage, done, pos, stackPos>>
vars == <<cells, memCell, lists, memAllTotal, func, resolve>>

AlignTo(x, a) == ((x + a - 1) \div a) * a

Zeroes == [s \in VarSizes |-> 0]

Init ==
    /\ cells = << >> /\ memCell = [v \in VirtRegs |-> 0]
    /\ memVarCells = << >> /\ memStackCells = << >>
    /\ varsUsed = Zeroes /\ memMaxAlign = 0 /\ memAllTotal = 0
    /\ func = 1
    /\ stage = "open" /\ done = 0 /\ pos = Zeroes /\ stackPos = 0

-----------------------------------------------------------------------------
Of(f) == {c \in DOMAIN cells : cells[c].func = f}

\* RAGetDefaultAlignment.
DefaultAlignment(size) == IF size > 32 THEN 64 ELSE CHOOSE a \in VarSizes :
                              a >= size /\ \A b \in VarSizes : b >= size => a <= b

\* _newStackCell: the list is sorted, the largest alignment first, then the largest size.
NewStackCell(size, alignment) ==
    LET a == IF alignment = 0 THEN DefaultAlignment(size) ELSE Min({alignment, 64})
        cell == [size |-> AlignTo(size, a), alignment |-> a, offset |-> 0, func |-> func]
        before == {i \in DOMAIN memStackCells :
                      \A j \in 1..i : LET cur == cells[memStackCells[j]] IN
                          \/ cur.alignment > cell.alignment
                          \/ cur.alignment = cell.alignment /\ cur.size > cell.size}
    IN  /\ cells' = Append(cells, cell)
        /\ memStackCells' = InsertAt(memStackCells, Cardinality(before) + 1, Len(cells) + 1)
        /\ memMaxAlign' = Max({memMaxAlign, a})

\* getVarCell of a register that has none: _newVarCell.
GetVarCell(v) ==
    /\ stage = "open" /\ Len(cells) < MaxCells
    /\ memCell[v] = 0 /\ memCell' = [memCell EXCEPT ![v] = Len(cells) + 1]
    /\ \/ v.isStack /\ NewStackCell(v.size, v.alignment) /\ UNCHANGED <<memVarCells, varsUsed>>
       \/ /\ ~v.isStack
          /\ cells' = Append(cells, [size |-> v.size, alignment |-> v.size, offset |-> 0, func |-> func])
          /\ memVarCells' = <<Len(cells) + 1>> \o memVarCells
          /\ varsUsed' = [varsUsed EXCEPT ![v.size] = @ + 1]
          /\ memMaxAlign' = Max({memMaxAlign, v.size})
          /\ UNCHANGED memStackCells
    /\ UNCHANGED <<memAllTotal, func, resolve>>

\* A piece of stack of its own, for arguments.
GetStackCell(size, alignment) ==
    /\ stage = "open" /\ Len(cells) < MaxCells
    /\ NewStackCell(size, alignment)
    /\ UNCHANGED <<memCell, memVarCells, varsUsed, memAllTotal, func, resolve>>

-----------------------------------------------------------------------------
(* resolveCellOffsets.                                                     *)

\* Where the registers of each size begin: behind all larger ones.
Start ==
    LET p64 == 0
        p32 == p64 + varsUsed[64] * 64
        p16 == p32 + varsUsed[32] * 32
        p8  == p16 + varsUsed[16] * 16
        p4  == p8  + varsUsed[8]  * 8
        p2  == p4  + varsUsed[4]  * 4
        p1  == p2  + varsUsed[2]  * 2
    IN  [s \in VarSizes |-> CASE s = 64 -> p64 [] s = 32 -> p32 [] s = 16 -> p16 [] s = 8 -> p8
                              [] s = 4 -> p4 [] s = 2 -> p2 [] s = 1 -> p1]

ResolveBegin ==
    /\ stage = "open" /\ stage' = "vars"
    /\ done' = 0 /\ pos' = Start
    /\ UNCHANGED <<cells, memCell, lists, memAllTotal, func, stackPos>>

\* Those of one size follow each other as they are in the list.
ResolveVar ==
    /\ stage = "vars" /\ done < Len(memVarCells)
    /\ LET c    == memVarCells[done + 1]
           size == cells[c].size
       IN  /\ cells' = [cells EXCEPT ![c].offset = pos[size]]
           /\ pos' = [pos EXCEPT ![size] = @ + size]
    /\ done' = done + 1
    /\ UNCHANGED <<memCell, lists, memAllTotal, func, stage, stackPos>>

\* The stack begins at pos1, as it is behind the last byte, plus the number of those bytes.
ResolveVarsEnd ==
    /\ stage = "vars" /\ done = Len(memVarCells)
    /\ stage' = "stack" /\ done' = 0
    /\ stackPos' = pos[1] + varsUsed[1]
    /\ UNCHANGED <<cells, memCell, lists, memAllTotal, func, pos>>

\* Faulty variant: the position is not aligned.
ResolveStackCell_Unaligned ==
    /\ stage = "stack" /\ done < Len(memStackCells)
    /\ LET c == memStackCells[done + 1]
       IN  /\ cells' = [cells EXCEPT ![c].offset = stackPos]
           /\ stackPos' = stackPos + cells[c].size
    /\ done' = done + 1
    /\ UNCHANGED <<memCell, lists, memAllTotal, func, stage, pos>>

ResolveStackCell ==
    /\ stage = "stack" /\ done < Len(memStackCells)
    /\ LET c  == memStackCells[done + 1]
           at == AlignTo(stackPos, cells[c].alignment)
       IN  /\ cells' = [cells EXCEPT ![c].offset = at]
           /\ stackPos' = at + cells[c].size
    /\ done' = done + 1
    /\ UNCHANGED <<memCell, lists, memAllTotal, func, stage, pos>>

ResolveEnd ==
    /\ stage = "stack" /\ done = Len(memStackCells)
    /\ stage' = "resolved"
    /\ memAllTotal' = stackPos
    /\ UNCHANGED <<cells, memCell, lists, func, done, pos, stackPos>>

-----------------------------------------------------------------------------
\* cleanup, and prepare of the next function: _memCell of the registers stays.
NextFunction ==
    /\ stage = "resolved" /\ func < MaxFunctions /\ func' = func + 1
    /\ memVarCells' = << >> /\ memStackCells' = << >>
    /\ varsUsed' = Zeroes /\ memMaxAlign' = 0 /\ memAllTotal' = 0
    /\ stage' = "open" /\ done' = 0 /\ pos' = Zeroes /\ stackPos' = 0
    /\ UNCHANGED <<cells, memCell>>

Next ==
    \/ \E v \in VirtRegs : GetVarCell(v)
    \/ \E s \in StackSizes, a \in Alignments : GetStackCell(s, a)
    \/ ResolveBegin \/ ResolveVar \/ ResolveVarsEnd \/ ResolveStackCell \/ ResolveEnd
    \/ NextFunction

Spec == Init /\ [][Next]_vars

-----------------------------------------------------------------------------
Bytes(c) == cells[c].offset .. (cells[c].offset + cells[c].size - 1)

\* Once resolved, the cells that were made for a function share no byte, lie within the
\* frame it asks for, and each is aligned if the frame is.  This is not said of a register
\* that was given its cell for an earlier function: nothing takes that from it, so that
\* its offset is one of that function's frame (getVarCell, regalloc_p.h:406).
CellsAreDisjoint ==
    stage = "resolved" =>
        \A c \in Of(func) :
            /\ Bytes(c) \subseteq 0..(memAllTotal - 1)
            /\ cells[c].offset % cells[c].alignment = 0 /\ memMaxAlign % cells[c].alignment = 0
            /\ \A d \in Of(func) \ {c} : Bytes(c) \cap Bytes(d) = {}

=============================================================================
