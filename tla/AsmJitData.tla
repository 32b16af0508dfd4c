----------------------------- MODULE AsmJitData -----------------------------
(***************************************************************************)
(* Of the modules about asmjit/base, those that AsmJitProofs is about.     *)
(* MCAsmJit puts them next to the others.                                  *)
(***************************************************************************)

CONSTANTS
    blockSize, blockAlignment, MallocAt, sizeOfT, Sizes, MaxPieces,     \* of Zone
    Kinds, MaxNodes, Debug                                              \* of CodeBuilder

VARIABLES
    blocks, block, ptr, end, slots, dynamicBlocks, vector, pieces,      \* of Zone
    node, first, last, cursor, func, localConstPool, removing, walk, order,
    cutOut                                                              \* of CodeBuilder

Zones   == INSTANCE Zone
Builder == INSTANCE CodeBuilder WITH rest <- cutOut

ASSUME ZoneAssumption    == Zones!ArenaAssumption
ASSUME BuilderAssumption == Builder!BuilderAssumption

zoneVars    == <<blocks, block, ptr, end, slots, dynamicBlocks, vector, pieces>>
builderVars == <<node, first, last, cursor, order, cutOut, func, localConstPool, removing, walk>>

\* The modules' properties, stated there.
PiecesAreDisjoint == Zones!PiecesAreDisjoint
NodesInOrder      == Builder!NodesInOrder

=============================================================================
