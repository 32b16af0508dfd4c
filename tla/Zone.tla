-------------------------------- MODULE Zone --------------------------------
(***************************************************************************)
(* The allocators of asmjit (asmjit/base/zone.cpp, zone.h): Zone moves a   *)
(* cursor through blocks that stay until a reset, ZoneHeap takes chunks    *)
(* from a Zone and from malloc and keeps those that are released in slots  *)
(* by size, and ZoneVector grows by allocating anew and releasing the old. *)
(* A CodeHolder and a CodeBuilder use a Zone and a ZoneHeap on it at once. *)
(*                                                                         *)
(* malloc returns any memory that is free, or nullptr.  Contents are left  *)
(* out.                                                                    *)
(***************************************************************************)
EXTENDS Naturals, Sequences, SequencesExt

CONSTANTS
    blockSize,      \* _blockSize
    blockAlignment, \* 1 << _blockAlignmentShift
    MallocAt,       \* addresses that malloc may return
    sizeOfT,        \* of the elements of the one vector
    Sizes,          \* the sizes that are asked for
    MaxPieces       \* bound: pieces in use

VARIABLES
    blocks,         \* of the Zone, from the first to the last: [data, size]
    block,          \* which one is current, 0 for the zero block
    ptr, end,       \* _ptr, _end
    slots,          \* of the ZoneHeap: the chunks in each, the next one first
    dynamicBlocks,  \* [memory, data]: what malloc returned, what the caller got
    vector,         \* of the ZoneVector: [data, capacity]; data is 0 for nullptr
    pieces          \* history: what the caller has: [at, size, of]

zone == <<blocks, block, ptr, end>>
heap == <<slots, dynamicBlocks>>
vars == <<zone, heap, vector, pieces>>

nullptr == 0

\* Of 32-bit code: sizeof(Zone::Block), offsetof(Zone::Block, data), and sizeof(DynamicBlock)
\* with that of a pointer.
sizeofBlock   == 16
offsetofData  == 12
dynamicHeader == 12

kLoGranularity  == 32
kLoMaxSize      == 128
kHiGranularity  == 64
kHiMaxSize      == 512
kBlockAlignment == 32
kAllocThreshold == 8192 * 1024

\* Every Zone of the repository is made with the default alignment, which is 1
\* (codeholder.cpp:94, codebuilder.cpp:28, codecompiler.cpp:61).
ArenaAssumption ==
    /\ blockSize \in Nat /\ blockAlignment = 1
    /\ MallocAt \subseteq Nat \ {nullptr}
    /\ sizeOfT \in Nat \ {0} /\ Sizes \subseteq Nat \ {0} /\ MaxPieces \in Nat

AlignTo(x, a) == ((x + a - 1) \div a) * a

Larger(x, y) == IF x > y THEN x ELSE y

Span(at, size) == [at |-> at, size |-> size]

Apart(x, y)  == x.at + x.size <= y.at \/ y.at + y.size <= x.at
Within(x, y) == x.at >= y.at /\ x.at + x.size <= y.at + y.size

NoVector == [data |-> nullptr, capacity |-> 0]
NoPiece  == [at |-> nullptr, size |-> 0, of |-> "none"]

\* kLoCount of up to kLoMaxSize, kHiCount of more.
Slots == 0..9

NoSlots  == [slot \in Slots |-> << >>]
NoPieces == [i \in 1..MaxPieces |-> NoPiece]

Init ==
    /\ blocks = << >> /\ block = 0 /\ ptr = 0 /\ end = 0
    /\ slots = NoSlots /\ dynamicBlocks = {}
    /\ vector = NoVector /\ pieces = NoPieces

-----------------------------------------------------------------------------
(* Zone.  Each operator is given the state of the allocators in a record;  *)
(* "at" is what malloc returns if it is called, "p" what the operator does *)
(* and "malloced" what it has got from malloc.                             *)

State == [blocks |-> blocks, block |-> block, ptr |-> ptr, end |-> end, slots |-> slots,
          dynamicBlocks |-> dynamicBlocks, p |-> nullptr, allocated |-> 0, malloced |-> Span(0, 0)]

Become(s) ==
    /\ blocks' = s.blocks /\ block' = s.block /\ ptr' = s.ptr /\ end' = s.end
    /\ slots' = s.slots /\ dynamicBlocks' = s.dynamicBlocks

\* The cursor goes to block b of s, after a piece of that size.
UseBlock(s, b, size) ==
    LET p == AlignTo(s.blocks[b].data, blockAlignment)
    IN  [s EXCEPT !.block = b, !.p = p, !.ptr = p + size,
                  !.end = s.blocks[b].data + s.blocks[b].size]

NextFits(s, size) == s.block < Len(s.blocks) /\ s.blocks[s.block + 1].size >= size

\* A block for that size comes behind the current one.
NewBlock(s, size, at) ==
    LET bytes == Larger(blockSize, size) + blockAlignment
    IN  [s EXCEPT !.blocks = InsertAt(@, s.block + 1, [data |-> at + offsetofData, size |-> bytes]),
                  !.malloced = Span(at, sizeofBlock + bytes)]

\* Zone::_alloc: into the next block if that is large enough, else into a new one before it.
AllocBlock(s, size, at) ==
    IF NextFits(s, size) THEN UseBlock(s, s.block + 1, size)
    ELSE IF at = nullptr THEN s
    ELSE UseBlock(NewBlock(s, size, at), s.block + 1, size)

\* Zone::alloc.
Alloc(s, size, at) ==
    IF s.end - s.ptr < size THEN AllocBlock(s, size, at)
    ELSE [s EXCEPT !.p = s.ptr, !.ptr = @ + size]

-----------------------------------------------------------------------------
(* ZoneHeap.                                                               *)

Slot(size) ==
    IF size <= kLoMaxSize THEN (size - 1) \div kLoGranularity
    ELSE (size - kLoMaxSize - 1) \div kHiGranularity + 4

AllocatedSize(size) ==
    AlignTo(size, IF size <= kLoMaxSize THEN kLoGranularity ELSE kHiGranularity)

\* Faulty variant: the slot is the one that a request for as much would look in.
SlotFor_Request(dist) == (dist - 1) \div kLoGranularity

\* The slot whose chunks are no larger than what remains.
SlotFor(dist) == (dist - kLoGranularity) \div kLoGranularity

\* A chunk is the first of its slot.
Pushed(s, slot, p) == [s EXCEPT !.slots[slot] = <<p>> \o @]

\* What remains of the Zone's block, from p on, goes to the slots: as many chunks of
\* kLoMaxSize as there are, the last of them in front, and then what is less.
Distributed(s, p, remain) ==
    LET n    == remain \div kLoMaxSize
        rest == remain % kLoMaxSize
        full == [s EXCEPT !.slots[SlotFor(kLoMaxSize)] = [i \in 1..n |-> p + (n - i) * kLoMaxSize] \o @,
                          !.ptr = p + n * kLoMaxSize]
    IN  IF rest < kLoGranularity THEN full
        ELSE [Pushed(full, SlotFor(rest), p + n * kLoMaxSize) EXCEPT !.ptr = p + remain]

\* ZoneHeap::_alloc, of what a slot can hold.
AllocSlot(s, size, at) ==
    LET slot   == Slot(size)
        got    == [s EXCEPT !.allocated = AllocatedSize(size)]
        p      == AlignTo(s.ptr, kBlockAlignment)
        remain == IF p <= s.end THEN s.end - p ELSE 0
    IN  IF s.slots[slot] # << >> THEN [got EXCEPT !.p = Head(s.slots[slot]), !.slots[slot] = Tail(@)]
        ELSE IF remain >= got.allocated THEN [got EXCEPT !.p = p, !.ptr = p + got.allocated]
        ELSE AllocBlock(IF remain >= kLoGranularity THEN Distributed(got, p, remain) ELSE got,
                        got.allocated, at)

\* ZoneHeap::_alloc, of more: after the DynamicBlock and a pointer to it.
AllocDynamic(s, size, at) ==
    LET data   == AlignTo(at + dynamicHeader, kBlockAlignment)
        memory == Span(at, size + dynamicHeader + kBlockAlignment)
    IN  IF at = nullptr THEN s
        ELSE [s EXCEPT !.p = data, !.allocated = size, !.malloced = memory,
                       !.dynamicBlocks = @ \cup {[memory |-> memory, data |-> data]}]

HeapAlloc(s, size, at) ==
    IF size <= kHiMaxSize THEN AllocSlot(s, size, at) ELSE AllocDynamic(s, size, at)

\* ZoneHeap::release; the size tells where p goes.
HeapRelease(s, p, size) ==
    IF size <= kHiMaxSize THEN Pushed(s, Slot(size), p)
    ELSE [s EXCEPT !.dynamicBlocks = {d \in @ : d.data # p}]

-----------------------------------------------------------------------------
(* What the users do.                                                      *)

\* The memory of malloc that is not freed.
BlockSpan(b) == Span(b.data, b.size)
Regions ==
    {Span(blocks[b].data - offsetofData, blocks[b].size + sizeofBlock) : b \in DOMAIN blocks}
        \cup {d.memory : d \in dynamicBlocks}

\* malloc: memory that nobody has.
Malloc(s) == \A r \in Regions : Apart(s.malloced, r)

FirstFree(i) == pieces[i] = NoPiece /\ \A j \in 1..i - 1 : pieces[j] # NoPiece

Got(i, s, size, of) ==
    pieces' = IF s.p = nullptr THEN pieces ELSE [pieces EXCEPT ![i] = [at |-> s.p, size |-> size, of |-> of]]

ZoneAlloc(i, size, at) ==
    LET s == Alloc(State, size, at) IN
    /\ FirstFree(i) /\ Malloc(s)
    /\ Become(s) /\ Got(i, s, size, "zone")
    /\ UNCHANGED vector

\* The caller may use all that was allocated.
Take(i, size, at) ==
    LET s == HeapAlloc(State, size, at) IN
    /\ FirstFree(i) /\ Malloc(s)
    /\ Become(s) /\ Got(i, s, s.allocated, "heap")
    /\ UNCHANGED vector

GiveBack(i) ==
    /\ pieces[i].of = "heap"
    /\ Become(HeapRelease(State, pieces[i].at, pieces[i].size))
    /\ pieces' = [pieces EXCEPT ![i] = NoPiece]
    /\ UNCHANGED vector

\* ZoneVectorBase::_grow, for one element more than the capacity.
GrownCapacity ==
    LET c == vector.capacity
        threshold == kAllocThreshold \div sizeOfT
    IN  IF c < 4 THEN 4 ELSE IF c < 8 THEN 8 ELSE IF c < 16 THEN 16 ELSE IF c < 64 THEN 64
        ELSE IF c < 256 THEN 256 ELSE IF c < threshold THEN 2 * c ELSE c + threshold

VectorBytes == vector.capacity * sizeOfT

\* ZoneVector::append to a vector that is full, with _reserve: the old data is released with
\* the size that its capacity amounts to, which may be less than what was allocated.
VectorGrow(at) ==
    LET grown == HeapAlloc(State, GrownCapacity * sizeOfT, at) IN
    /\ Malloc(grown)
    /\ Become(IF vector.data = nullptr \/ grown.p = nullptr THEN grown
              ELSE HeapRelease(grown, vector.data, VectorBytes))
    /\ vector' = IF grown.p = nullptr THEN vector
                 ELSE [data |-> grown.p, capacity |-> grown.allocated \div sizeOfT]
    /\ UNCHANGED pieces

\* ZoneVector::release.
VectorRelease ==
    /\ vector.data # nullptr
    /\ Become(HeapRelease(State, vector.data, VectorBytes))
    /\ vector' = NoVector
    /\ UNCHANGED pieces

\* ZoneHeap::reset and then Zone::reset, as CodeHolder, CodeBuilder and RAPass do: all that
\* was allocated is gone.
Reset(releaseMemory) ==
    /\ slots' = NoSlots /\ dynamicBlocks' = {}
    /\ vector' = NoVector /\ pieces' = NoPieces
    /\ IF block = 0 THEN UNCHANGED zone
       ELSE IF releaseMemory THEN blocks' = << >> /\ block' = 0 /\ ptr' = 0 /\ end' = 0
       ELSE /\ block' = 1 /\ ptr' = blocks[1].data /\ end' = blocks[1].data + blocks[1].size
            /\ UNCHANGED blocks

Next ==
    \/ \E at \in MallocAt \cup {nullptr} :
          \/ \E i \in 1..MaxPieces, size \in Sizes : ZoneAlloc(i, size, at) \/ Take(i, size, at)
          \/ VectorGrow(at)
    \/ \E i \in 1..MaxPieces : GiveBack(i)
    \/ VectorRelease
    \/ \E releaseMemory \in BOOLEAN : Reset(releaseMemory)

Spec == Init /\ [][Next]_vars

-----------------------------------------------------------------------------
\* The least that a chunk in a slot is used for.
SlotSize(slot) == IF slot < 4 THEN (slot + 1) * kLoGranularity ELSE kLoMaxSize + (slot - 3) * kHiGranularity

\* Who has memory, or will get it: what a state of the allocators keeps, pieces, the vector.
FreeOwners(s) ==
    (IF s.block = 0 THEN {} ELSE {<<"rest", 0, 0>>})
        \cup (UNION {{<<"slot", k, i>> : i \in 1..Len(s.slots[k])} : k \in Slots})
        \cup {<<"block", b, 0>> : b \in s.block + 1..Len(s.blocks)}

UserOwners ==
    {<<"piece", i, 0>> : i \in {j \in 1..MaxPieces : pieces[j] # NoPiece}}
        \cup (IF vector.data = nullptr THEN {} ELSE {<<"vector", 0, 0>>})

FreeSpan(s, o) ==
    CASE o[1] = "rest"  -> Span(s.ptr, s.end - s.ptr)
      [] o[1] = "slot"  -> Span(s.slots[o[2]][o[3]], SlotSize(o[2]))
      [] o[1] = "block" -> BlockSpan(s.blocks[o[2]])

UserSpan(o) ==
    IF o[1] = "piece" THEN Span(pieces[o[2]].at, pieces[o[2]].size)
    ELSE Span(vector.data, VectorBytes)

SpanOf(o) == IF o \in UserOwners THEN UserSpan(o) ELSE FreeSpan(State, o)

\* No byte has two owners: what is in use, the chunks in the slots, what is left of the
\* current block and the blocks after it are apart, and all are inside memory that malloc
\* has returned and that is not freed.
PiecesAreDisjoint ==
    LET owners == UserOwners \cup FreeOwners(State) IN
    /\ \A o \in owners : \E r \in Regions : Within(SpanOf(o), r)
    /\ \A o, u \in owners : o # u => Apart(SpanOf(o), SpanOf(u))

=============================================================================
