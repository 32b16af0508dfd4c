\* memory: two regions of two blocks, or three.  tree: five nodes.  live: every program of six nodes.
\* pool: six constants of seven.  zone: 32-bit data, three regions of malloc at a time.  holder: one
\* label, two uses; the short distance is too short for some.  builder: four nodes, which are data,
\* jumps, labels and those of a function.  cells: four, in two functions.  labels: four, two rehashes.
\* bits: words of 16 bits, one half of which is 0 or 128.
CONSTANTS
    Addresses = {100, 200}
    Page = 2
    permanentNodeSize = 2
    CodeSizes = {0, 1, 5}
    MaxPermanent = 1
    MaxAdds = 3
    vmemBlockSize = 4
    vmemNodes = 2
    TreeAddresses = {1, 2, 3, 4, 5}
    treeNodes = 5
    Programs <- MCPrograms
    Constants <- MCConstants
    MaxAdded = 6
    blockSize = 200
    blockAlignment = 1
    MallocAt = {2016, 4000, 6016}
    sizeOfT = 40
    Sizes = {40}
    MaxPieces = 2
    gpSize = 4
    Int8 <- MCInt8
    Int32 <- MCInt32
    Targets = {1050}
    Offsets = {0, 5}
    Bases = {1000, 5000}
    MaxCode = 7
    MaxUses = 2
    holderLabels = 1
    Kinds = {"data"}
    MaxNodes = 4
    Debug = FALSE
    VirtRegs <- MCVirtRegs
    StackSizes = {9}
    Alignments = {0, 8}
    MaxCells = 4
    MaxFunctions = 2
    Names = {"a", "b", "c"}
    Hash <- MCHash
    Primes <- MCPrimes
    MaxLabels = 4
    WordBits = 16
    Words <- MCWords
    Numbers = {1, 3, 15}
SPECIFICATION AsmJitSpec
CHECK_DEADLOCK FALSE
INVARIANTS
    Accounted
    TreeFindsCode
    ConstantsReadBack
    PiecesAreDisjoint
    LabelsResolve
    NodesInOrder
    CellsAreDisjoint
    NamesAreFound
    BitsAgree
PROPERTY
    LivenessIsFound
