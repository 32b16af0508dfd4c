------------------------------ MODULE CodeData ------------------------------
(***************************************************************************)
(* Of the modules about asmjit/base, those that CodeProofs is about.       *)
(* MCAsmJit puts them next to the others.                                  *)
(***************************************************************************)

CONSTANTS
    gpSize, Int8, Int32, Targets, Offsets, Bases, MaxCode, MaxUses, holderLabels,  \* of CodeHolder
    Names, Hash, Primes, MaxLabels,                             \* of NamedLabels
    VirtRegs, StackSizes, Alignments, MaxCells, MaxFunctions    \* of StackCells

VARIABLES
    data, length, trampolinesSize, holderEntries, relocations, unresolvedLabelsCount,
    attached, bufferPtr, lastError, binding, copy, uses, failed,    \* of CodeHolder
    labels, buckets, bucketsGrow, tableSize, newData,               \* of NamedLabels
    cells, memCell, memVarCells, memStackCells, varsUsed, memMaxAlign, memAllTotal,
    cellFunc, stage, done, pos, stackPos                            \* of StackCells

Holder == INSTANCE CodeHolder WITH labels <- holderEntries, MaxLabels <- holderLabels
Labels == INSTANCE NamedLabels WITH size <- tableSize
Cells  == INSTANCE StackCells WITH func <- cellFunc

ASSUME HolderAssumption == Holder!HolderAssumption
ASSUME LabelsAssumption == Labels!HashAssumption
ASSUME CellsAssumption  == Cells!RegistersAssumption

holderVars == <<data, length, trampolinesSize, holderEntries, relocations, unresolvedLabelsCount,
                attached, bufferPtr, lastError, binding, copy, uses, failed>>
labelVars  == <<labels, buckets, bucketsGrow, tableSize, newData>>
cellVars   == <<cells, memCell, memVarCells, memStackCells, varsUsed, memMaxAlign, memAllTotal,
                cellFunc, stage, done, pos, stackPos>>

\* The modules' properties, stated there.
LabelsResolve    == Holder!LabelsResolve
NamesAreFound    == Labels!NamesAreFound
CellsAreDisjoint == Cells!CellsAreDisjoint

=============================================================================
