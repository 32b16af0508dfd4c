------------------------------ MODULE MCAsmJit ------------------------------
(***************************************************************************)
(* Model checking what of asmjit/base has state or an algorithm of its     *)
(* own.  The modules share no state, and each behaviour is one of one      *)
(* module: "part".  Names that two modules use for different things have   *)
(* the module's in front here.                                             *)
(***************************************************************************)
EXTENDS AsmJitData, CodeData, Integers, Sequences, FiniteSetsExt, Bitwise

CONSTANTS
    Addresses, Page, permanentNodeSize, CodeSizes, MaxPermanent, MaxAdds,
    vmemBlockSize, vmemNodes,
    TreeAddresses, treeNodes,
    Programs,
    Constants, MaxAdded,
    WordBits, Words, Numbers

VARIABLES
    part,
    tree, root, list, optimal, vmemSize, used, largestBlock, baUsed, baCont,    \* of VMem
    allocatedBytes, usedBytes, permanent, code, beforeReset,
    heap, top,                                                                  \* of a tree alone
    program, at, point, from, bCur, live, targets, returning,                   \* of Liveness
    poolNode, poolTree, gaps, poolSize, alignment, given,                       \* of ConstPool
    word, number, op, result                                                    \* of BitUtils

Memory  == INSTANCE VMem WITH size <- vmemSize, blockSize <- vmemBlockSize, MaxNodes <- vmemNodes
Tree    == INSTANCE RbTree WITH MaxNodes <- treeNodes
Live    == INSTANCE Liveness
Pool    == INSTANCE ConstPool WITH node <- poolNode, tree <- poolTree, size <- poolSize
Bits    == INSTANCE BitUtils

memoryVars  == <<tree, root, list, optimal, vmemSize, used, largestBlock, baUsed, baCont,
                 allocatedBytes, usedBytes, permanent, code, beforeReset>>
treeVars    == <<heap, top>>
liveVars    == <<program, at, point, from, bCur, live, targets, returning>>
poolVars    == <<poolNode, poolTree, gaps, poolSize, alignment, given>>
bitVars     == <<word, number, op, result>>

allVars == <<part, memoryVars, treeVars, liveVars, poolVars, zoneVars, holderVars,
             builderVars, cellVars, labelVars, bitVars>>

-----------------------------------------------------------------------------
(* A tree of more nodes than VMem's instance has, built and taken apart.   *)

TreeInit == heap = Tree!NoTree /\ top = 0

Become(r) == heap' = r[1] /\ top' = r[2]

TreeNext ==
    LET nodes == Tree!Under(heap, top) IN
    \/ \E mem \in TreeAddresses \ {heap[n].mem : n \in nodes} :
          /\ nodes # Tree!Nodes
          /\ Become(Tree!InsertNode(heap, top, Min(Tree!Nodes \ nodes), mem))
    \/ \E n \in nodes : Become(Tree!RemoveNode(heap, top, n))

-----------------------------------------------------------------------------
(* Values of the constants.                                                *)

\* Every program of a function, four more nodes and a return, of two variables, that jumps to
\* labels.
Node(k, r, w, t) == [kind |-> k, reads |-> r, writes |-> w, to |-> t]
Body ==
    {Node("inst", {v}, {}, 0) : v \in {"x", "y"}} \cup {Node("inst", {}, {v}, 0) : v \in {"x", "y"}}
        \cup {Node("label", {}, {}, 0), Node("ret", {}, {}, 0)}
        \cup {Node(k, {}, {}, t) : k \in {"jmp", "jcc"}, t \in 2..5}
Around(b) == <<Node("func", {}, {}, 0)>> \o b \o <<Node("ret", {}, {}, 0)>>
Straight  == Around([i \in 1..4 |-> Node("inst", {"x"}, {}, 0)])
MCPrograms ==
    {p \in {Around(b) : b \in [1..4 -> Body]} :
        \A n \in DOMAIN p : p[n].kind \in {"jmp", "jcc"} => p[p[n].to].kind = "label"}

\* Constants of every size; a byte, a word of two and words of four repeated, so that
\* small ones lie within large ones.
Fours(seq) == [i \in 1..(4 * Len(seq)) |-> seq[(i - 1) \div 4 + 1]]
MCConstants ==
    {<<1>>, <<2>>, <<1, 2>>, Fours(<<1>>), Fours(<<5, 3>>), Fours(<<7, 7, 7, 6>>),
     Fours(<<8, 7, 6, 5, 1, 3, 2, 4>>)}

MCInt8  == -5..4
MCInt32 == -100..99

Reg(s, i) == [size |-> s, isStack |-> FALSE, alignment |-> 0, id |-> i]
Piece(s, a) == [size |-> s, isStack |-> TRUE, alignment |-> a, id |-> 0]
MCVirtRegs == {Reg(1, 1), Reg(1, 2), Reg(4, 1), Reg(16, 1), Piece(3, 1), Piece(20, 16)}

\* hVal ^ packId(parent) of a local label.
MCHash ==
    [p \in Names \X (0..MaxLabels) |->
        LET hVal == CASE p[1] = "a" -> 97 [] p[1] = "b" -> 98 [] p[1] = "c" -> 103
        IN  IF p[2] = 0 THEN hVal ELSE hVal ^^ (p[2] + 255)]
MCPrimes == <<3, 5>>

\* All words that have one half of a few.
MCWords == UNION {{a * 256 + b, b * 256 + a} : a \in {0, 128}, b \in 0..255}

-----------------------------------------------------------------------------
Parts == {"memory", "tree", "live", "pool", "zone", "holder", "builder", "cells", "labels", "bits"}

AsmJitInit ==
    /\ part \in Parts
    /\ Memory!Init /\ TreeInit /\ Pool!Init /\ Zones!Init /\ Holder!Init /\ Builder!Init
    /\ Cells!Init /\ Labels!Init
    /\ (part # "live" => program = Straight) /\ Live!Init
    /\ (part # "bits" => word = 0 /\ number = 1) /\ Bits!Init

LiveStep ==
    /\ part = "live" /\ Live!Next
    /\ UNCHANGED <<part, memoryVars, treeVars, poolVars, zoneVars, holderVars, builderVars, cellVars, labelVars, bitVars>>

AsmJitNext ==
    \/ LiveStep
    \/ part = "memory" /\ Memory!Next
       /\ UNCHANGED <<part, treeVars, liveVars, poolVars, zoneVars, holderVars, builderVars, cellVars, labelVars, bitVars>>
    \/ part = "tree" /\ TreeNext
       /\ UNCHANGED <<part, memoryVars, liveVars, poolVars, zoneVars, holderVars, builderVars, cellVars, labelVars, bitVars>>
    \/ part = "pool" /\ Pool!Next
       /\ UNCHANGED <<part, memoryVars, treeVars, liveVars, zoneVars, holderVars, builderVars, cellVars, labelVars, bitVars>>
    \/ part = "zone" /\ Zones!Next
       /\ UNCHANGED <<part, memoryVars, treeVars, liveVars, poolVars, holderVars, builderVars, cellVars, labelVars, bitVars>>
    \/ part = "holder" /\ Holder!Next
       /\ UNCHANGED <<part, memoryVars, treeVars, liveVars, poolVars, zoneVars, builderVars, cellVars, labelVars, bitVars>>
    \/ part = "builder" /\ Builder!Next
       /\ UNCHANGED <<part, memoryVars, treeVars, liveVars, poolVars, zoneVars, holderVars, cellVars, labelVars, bitVars>>
    \/ part = "cells" /\ Cells!Next
       /\ UNCHANGED <<part, memoryVars, treeVars, liveVars, poolVars, zoneVars, holderVars, builderVars, labelVars, bitVars>>
    \/ part = "labels" /\ Labels!Next
       /\ UNCHANGED <<part, memoryVars, treeVars, liveVars, poolVars, zoneVars, holderVars, builderVars, cellVars, bitVars>>
    \/ part = "bits" /\ Bits!Next
       /\ UNCHANGED <<part, memoryVars, treeVars, liveVars, poolVars, zoneVars, holderVars, builderVars, cellVars, labelVars>>

\* The analysis goes on until it returns.
AsmJitSpec == AsmJitInit /\ [][AsmJitNext]_allVars /\ WF_liveVars(LiveStep)

LabelsSpec  == part = "labels" /\ AsmJitInit /\ [][AsmJitNext]_allVars
BuilderSpec == part = "builder" /\ AsmJitInit /\ [][AsmJitNext]_allVars

-----------------------------------------------------------------------------
(* The modules' properties, stated there.                                  *)

Accounted         == Memory!Accounted
TreeFindsCode     == Memory!TreeFindsCode /\ Tree!ValidTree(heap, top)
LivenessIsFound   == part = "live" => Live!LivenessIsFound
ConstantsReadBack == Pool!ConstantsReadBack
NoDuplicates      == Labels!NoDuplicates
LocalsMayRepeat   == Labels!LocalsMayRepeat
BoundOnce         == Builder!BoundOnce
BitsAgree         == Bits!BitsAgree

=============================================================================
