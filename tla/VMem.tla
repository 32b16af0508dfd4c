-------------------------------- MODULE VMem --------------------------------
(***************************************************************************)
(* Memory for code (asmjit/base/vmem.cpp) and the runtime that puts code   *)
(* there (runtime.cpp).  A node is a region that the operating system has  *)
(* mapped, in blocks; bit arrays say which blocks are used and which are   *)
(* continued by the next.  Nodes are in a list, in the order in which they *)
(* were made, and in a tree by address.  Permanent memory is in chunks of  *)
(* its own and is never given back.                                        *)
(*                                                                         *)
(* Sizes and addresses count 32 bytes, the alignment of every size; a      *)
(* block is two of them.  A bit array is the set of its bits that are set. *)
(* Each method but reset holds the lock of VMemMgr throughout.             *)
(***************************************************************************)
EXTENDS RbTree, Sequences, SequencesExt, FiniteSetsExt

CONSTANTS
    Addresses,      \* where the system maps a region, all of them far enough apart
    Page,           \* bytes of a page
    blockSize,      \* _blockSize, the granularity: a multiple of a page
    permanentNodeSize,
    CodeSizes,      \* what CodeHolder::getCodeSize may be, 0 included
    MaxPermanent,   \* bound: chunks of permanent memory
    MaxAdds         \* bound: pieces of code at a time

density == 2

VARIABLES
    tree,           \* the nodes' part of the tree
    root,           \* _root
    list,           \* the MemNodes from _first to _last
    optimal,        \* _optimal, 0 for nullptr
    size, used, largestBlock,   \* fields of the nodes
    baUsed, baCont,
    allocatedBytes, usedBytes,
    permanent,      \* the PermanentNodes, the newest last
    code,           \* history: the code that is being added or has been: address, size, stage
    beforeReset     \* history: the bytes of permanent memory used before the last reset

node == <<size, used, largestBlock, baUsed, baCont>>
manager == <<tree, root, list, optimal, node, allocatedBytes, usedBytes, permanent>>
vars == <<manager, code, beforeReset>>

Zeroes == [n \in Nodes |-> 0]

Init ==
    /\ tree = NoTree /\ root = 0 /\ list = << >> /\ optimal = 0
    /\ size = Zeroes /\ used = Zeroes /\ largestBlock = Zeroes
    /\ baUsed = [n \in Nodes |-> {}] /\ baCont = [n \in Nodes |-> {}]
    /\ allocatedBytes = 0 /\ usedBytes = 0
    /\ permanent = << >> /\ code = {} /\ beforeReset = 0

-----------------------------------------------------------------------------
AlignTo(x, a) == ((x + a - 1) \div a) * a

\* OSUtils::allocVirtualMemory: a region of whole pages at an address that is free.
Mapped == {tree[n].mem : n \in ToSet(list)} \cup {permanent[i].mem : i \in DOMAIN permanent}
Region(bytes) == [mem : Addresses \ Mapped, size : {AlignTo(bytes, Page)}]

Code(p, s) == [p |-> p, size |-> s, stage |-> "adding"]

-----------------------------------------------------------------------------
(* vMemMgrAllocPermanent.                                                  *)

\* The newest chunk that has room.
WithRoom(s) == {i \in DOMAIN permanent : permanent[i].size - permanent[i].used >= s}

AllocPermanent(s) ==
    /\ \/ /\ WithRoom(s) # {}
          /\ LET i == Max(WithRoom(s)) IN
             /\ code' = code \cup {Code(permanent[i].mem + permanent[i].used, s)}
             /\ permanent' = [permanent EXCEPT ![i].used = @ + s]
       \/ /\ WithRoom(s) = {} /\ Len(permanent) < MaxPermanent
          /\ \E r \in Region(Max({permanentNodeSize, s})) :
                /\ code' = code \cup {Code(r.mem, s)}
                /\ permanent' = Append(permanent, [mem |-> r.mem, size |-> r.size, used |-> s])
    /\ usedBytes' = usedBytes + s
    /\ UNCHANGED <<tree, root, list, optimal, node, allocatedBytes, beforeReset>>

-----------------------------------------------------------------------------
(* vMemMgrAllocFreeable.                                                   *)

Need(s) == (s + density - 1) \div density
Blocks(n) == size[n] \div density
Available(n) == size[n] - used[n]

Skipped(n, s) == Available(n) < s \/ (largestBlock[n] < s /\ largestBlock[n] # 0)

\* The first bit of the lowest run of "need" bits that are not set.
Fits(n, need) == {i \in 0..Blocks(n) - 1 : i + need <= Blocks(n) /\ i..i + need - 1 \cap baUsed[n] = {}}

\* The longest run that a used block ends: what is free at the end is not counted.
MaxCont(n) ==
    Max({0} \cup {j - i : <<i, j>> \in {<<i, j>> \in (0..Blocks(n)) \X baUsed[n] :
                                           i <= j /\ i..j - 1 \cap baUsed[n] = {}}})

\* From list position k on: the node found, or 0; _optimal; the largestBlocks noted.
RECURSIVE Search(_, _)
Search(s, f) ==
    IF f.k > Len(list) THEN f
    ELSE LET n == list[f.k] IN
         IF Skipped(n, s)
         THEN Search(s, [f EXCEPT
                 !.k = @ + 1,
                 !.optimal = IF Available(n) < blockSize /\ n = @ /\ f.k < Len(list)
                             THEN list[f.k + 1] ELSE @])
         ELSE IF Fits(n, Need(s)) # {} THEN [f EXCEPT !.node = n]
         ELSE Search(s, [f EXCEPT !.k = @ + 1, !.largest[n] = MaxCont(n) * density])

Found(s) ==
    Search(s, [k |-> IF optimal = 0 THEN 1 ELSE CHOOSE k \in DOMAIN list : list[k] = optimal,
               node |-> 0, optimal |-> optimal, largest |-> largestBlock])

\* Faulty variant: the last block is said to be continued.
ContinuedBits_All(i, need) == i..i + need - 1

\* What _SetBits sets in baCont.
ContinuedBits(i, need) == i..i + need - 2

Occupy(n, i, s, bitsUsed, bitsCont, nodeUsed, largest) ==
    /\ baUsed' = [bitsUsed EXCEPT ![n] = @ \cup i..i + Need(s) - 1]
    /\ baCont' = [bitsCont EXCEPT ![n] = @ \cup ContinuedBits(i, Need(s))]
    /\ used' = [nodeUsed EXCEPT ![n] = @ + Need(s) * density]
    /\ largestBlock' = [largest EXCEPT ![n] = 0]
    /\ usedBytes' = usedBytes + Need(s) * density

\* In a node that has room.
AllocExisting(s, f) ==
    /\ f.node # 0
    /\ optimal' = f.optimal
    /\ LET i == Min(Fits(f.node, Need(s))) IN
       /\ Occupy(f.node, i, s, baUsed, baCont, used, f.largest)
       /\ code' = code \cup {Code(tree[f.node].mem + i * density, s)}
    /\ UNCHANGED <<tree, root, list, size, allocatedBytes, permanent, beforeReset>>

\* vMemMgrCreateNode and vMemMgrInsertNode; the new node is the last of the list.
AllocNew(s, f) ==
    /\ f.node = 0 /\ Len(list) < MaxNodes
    /\ \E r \in Region(Max({blockSize, s})) :
          LET n == Min(Nodes \ ToSet(list))
              inserted == InsertNode(tree, root, n, r.mem)
          IN  /\ tree' = inserted[1] /\ root' = inserted[2]
              /\ list' = Append(list, n)
              /\ optimal' = IF list = << >> THEN n ELSE f.optimal
              /\ size' = [size EXCEPT ![n] = r.size]
              /\ Occupy(n, 0, s, [baUsed EXCEPT ![n] = {}], [baCont EXCEPT ![n] = {}],
                        [used EXCEPT ![n] = 0], f.largest)
              /\ allocatedBytes' = allocatedBytes + r.size
              /\ code' = code \cup {Code(r.mem, s)}
    /\ UNCHANGED <<permanent, beforeReset>>

\* No memory for the node: what the search has noted stays.
AllocFails(s, f) ==
    /\ f.node = 0
    /\ optimal' = f.optimal /\ largestBlock' = f.largest
    /\ UNCHANGED <<tree, root, list, size, used, baUsed, baCont, allocatedBytes, usedBytes,
                   permanent, code, beforeReset>>

-----------------------------------------------------------------------------
(* release and shrink.                                                     *)

\* The last block of what begins at block i.
EndOf(n, i) == Min({j \in i..Blocks(n) - 1 : j \notin baCont[n]})

\* _optimal goes back to a node that was full and comes before it.
Earlier(n) ==
    LET before(x, y) == \E i, j \in DOMAIN list : i < j /\ list[i] = x /\ list[j] = y
    IN  IF used[n] = size[n] /\ before(n, optimal) THEN n ELSE optimal

\* Blocks i..j of node n are free.
Freed(n, i, j) ==
    /\ baUsed' = [baUsed EXCEPT ![n] = @ \ i..j]
    /\ used' = [used EXCEPT ![n] = @ - (j - i + 1) * density]
    /\ largestBlock' = [largestBlock EXCEPT ![n] = Max({@, (j - i + 1) * density})]
    /\ usedBytes' = usedBytes - (j - i + 1) * density

\* Node q leaves the list, and its data move into n, if that is another.
MovedInto(n, q) ==
    LET k == CHOOSE i \in DOMAIN list : list[i] = q
        Moved(f) == [f EXCEPT ![n] = f[q], ![q] = 0]
        Moves(f) == [f EXCEPT ![n] = f[q], ![q] = {}]
    IN  /\ list' = RemoveAt(list, k)
        /\ optimal' = IF Earlier(n) # q THEN Earlier(n)
                      ELSE IF k > 1 THEN list[k - 1]
                      ELSE IF k < Len(list) THEN list[k + 1] ELSE 0
        /\ size' = Moved(size) /\ used' = Moved(used) /\ largestBlock' = Moved(largestBlock)
        /\ baUsed' = Moves(baUsed) /\ baCont' = Moves(baCont)

\* The node is empty: the tree says which node goes in its place.
Unmapped(n) ==
    LET removed == RemoveNode(tree, root, n) IN
    /\ tree' = removed[1] /\ root' = removed[2]
    /\ MovedInto(n, removed[3])
    /\ allocatedBytes' = allocatedBytes - size[n]

Release(p) ==
    LET n == FindNodeByPtr(tree, root, size, p)
        i == (p - tree[n].mem) \div density
        j == EndOf(n, i)
    IN  \/ n = 0 /\ UNCHANGED manager
        \/ /\ n # 0 /\ used[n] # (j - i + 1) * density
           /\ Freed(n, i, j)
           /\ baCont' = [baCont EXCEPT ![n] = @ \ i..j]
           /\ optimal' = Earlier(n)
           /\ UNCHANGED <<tree, root, list, size, allocatedBytes, permanent>>
        \/ /\ n # 0 /\ used[n] = (j - i + 1) * density
           /\ Unmapped(n)
           /\ usedBytes' = usedBytes - used[n]
           /\ UNCHANGED permanent

KeptEnd(n, i, j) == baCont' = [baCont EXCEPT ![n] = @ \ i..j]

\* The blocks behind the first "keep" bytes; _optimal stays.
Shrink(p, keep) ==
    LET n == FindNodeByPtr(tree, root, size, p)
        i == (p - tree[n].mem) \div density
        j == EndOf(n, i)
        last == i + Need(keep) - 1
    IN  \/ n = 0 /\ UNCHANGED manager
        \/ n # 0 /\ last >= j /\ UNCHANGED manager
        \/ /\ n # 0 /\ last < j
           /\ Freed(n, last + 1, j)
           /\ KeptEnd(n, last, j)
           /\ UNCHANGED <<tree, root, list, optimal, size, allocatedBytes, permanent>>

PermanentBytes == FoldLeft(LAMBDA s, x : s + x.used, 0, permanent)

\* vMemMgrReset: permanent memory stays, and is no longer counted.  It takes no lock: that
\* no code is being added is the caller's care.
Reset ==
    /\ \A c \in code : c.stage = "added"
    /\ tree' = NoTree /\ root' = 0 /\ list' = << >> /\ optimal' = 0
    /\ size' = Zeroes /\ used' = Zeroes /\ largestBlock' = Zeroes
    /\ baUsed' = [n \in Nodes |-> {}] /\ baCont' = [n \in Nodes |-> {}]
    /\ allocatedBytes' = 0 /\ usedBytes' = 0
    /\ beforeReset' = PermanentBytes
    /\ code' = {c \in code : \E x \in ToSet(permanent) : c.p \in x.mem..x.mem + x.size - 1}
    /\ UNCHANGED permanent

-----------------------------------------------------------------------------
(* JitRuntime.                                                             *)

\* _add allocates as much as getCodeSize says.
Add(s) ==
    /\ s # 0 /\ Cardinality(code) < MaxAdds
    /\ \/ AllocPermanent(s)
       \/ LET f == Found(s) IN AllocExisting(s, f) \/ AllocNew(s, f) \/ AllocFails(s, f)

\* Code was relocated to c.p and is no longer than that, or could not be.
Relocated(c, relocSize) ==
    /\ c.stage = "adding" /\ relocSize <= c.size
    /\ IF relocSize = 0 THEN Release(c.p)
       ELSE IF relocSize < c.size THEN Shrink(c.p, relocSize)
       ELSE UNCHANGED manager
    /\ code' = (code \ {c}) \cup
                   IF relocSize = 0 THEN {} ELSE {[p |-> c.p, size |-> relocSize, stage |-> "added"]}
    /\ UNCHANGED beforeReset

\* _release.
ReleaseCode(c) ==
    /\ c.stage = "added"
    /\ Release(c.p)
    /\ code' = code \ {c}
    /\ UNCHANGED beforeReset

Next ==
    \/ \E s \in CodeSizes : Add(s)
    \/ \E c \in code : ReleaseCode(c) \/ \E relocSize \in CodeSizes : Relocated(c, relocSize)
    \/ Reset

Spec == Init /\ [][Next]_vars

-----------------------------------------------------------------------------
Bytes(c) == c.p..c.p + c.size - 1
Inside(c, mem, bytes) == Bytes(c) \subseteq mem..mem + bytes - 1

OfNode(n) == {c \in code : Inside(c, tree[n].mem, size[n])}
BlocksOf(c, n) == LET i == (c.p - tree[n].mem) \div density IN i..i + Need(c.size) - 1

\* The longest run of free blocks.
LargestRun(n) ==
    Max({0} \cup {j - i : <<i, j>> \in {<<i, j>> \in (0..Blocks(n)) \X (0..Blocks(n)) :
                                           i <= j /\ i..j - 1 \cap baUsed[n] = {}}})

\* Whatever is added, shrunk, released and reset: no two pieces of code share a byte, each
\* is in one region, the bits of a node are those of its code, no empty node stays, the
\* numbers of bytes are what the bits say, and largestBlock never promises too much.
Accounted ==
    /\ \A c, d \in code : c # d => Bytes(c) \cap Bytes(d) = {}
    /\ \A c \in code : \/ \E n \in ToSet(list) : c \in OfNode(n)
                       \/ \E x \in ToSet(permanent) : Inside(c, x.mem, x.used)
    /\ \A n \in ToSet(list) :
          /\ baUsed[n] = UNION {BlocksOf(c, n) : c \in OfNode(n)}
          /\ baCont[n] = UNION {BlocksOf(c, n) \ {Max(BlocksOf(c, n))} : c \in OfNode(n)}
          /\ used[n] = Cardinality(baUsed[n]) * density /\ used[n] > 0
          /\ largestBlock[n] <= LargestRun(n) * density
    /\ allocatedBytes = FoldLeft(LAMBDA s, n : s + size[n], 0, list)
    /\ usedBytes + beforeReset = FoldLeft(LAMBDA s, n : s + used[n], PermanentBytes, list)

\* The tree is a balanced search tree of the nodes in the list, in which every piece of
\* code that can be released is found, though removing one node may move another's data.
TreeFindsCode ==
    /\ ValidTree(tree, root)
    /\ Under(tree, root) = ToSet(list) /\ IsInjective(list)
    /\ optimal = 0 <=> list = << >>
    /\ optimal # 0 => optimal \in ToSet(list)
    /\ \A n \in ToSet(list) : \A c \in OfNode(n) : FindNodeByPtr(tree, root, size, c.p) = n

=============================================================================
