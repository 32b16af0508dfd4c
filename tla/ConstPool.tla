----------------------------- MODULE ConstPool ------------------------------
(***************************************************************************)
(* The pool of constants that is put behind a function's code              *)
(* (asmjit/base/constpool.cpp).  A constant of 1 to 32 bytes is added once *)
(* and keeps its offset; what alignment leaves free is kept in gaps by     *)
(* size, and the halves, quarters and so on of a constant, down to four    *)
(* bytes, are constants too.  Each size has an Andersson tree of its own.  *)
(*                                                                         *)
(* Nodes are numbered as they are made and never go; 0 is nullptr.  Gap    *)
(* objects come from a pool of their own: only their places are kept.      *)
(* Memory for nodes and gaps is taken to suffice.                          *)
(***************************************************************************)
EXTENDS Naturals, Sequences, SequencesExt, FiniteSetsExt

CONSTANTS
    Constants,  \* byte sequences of 1, 2, 4, 8, 16 or 32 bytes
    MaxAdded    \* bound: constants added

VARIABLES
    node,       \* [data, link, level, shared, offset]
    tree,       \* the roots of _tree
    gaps,       \* _gaps: the offsets and lengths of the gaps, the first one first
    size,       \* _size
    alignment,  \* _alignment
    given       \* history: the constants added and the offsets returned

vars == <<node, tree, gaps, size, alignment, given>>

\* kIndex1 .. kIndex32 and the sizes they stand for.
Indices == 0..5
SizeOf == <<1, 2, 4, 8, 16, 32>>
IndexOf(s) == CHOOSE i \in Indices : SizeOf[i + 1] = s

Init ==
    /\ node = << >> /\ tree = [i \in Indices |-> 0] /\ gaps = [i \in Indices |-> << >>]
    /\ size = 0 /\ alignment = 0 /\ given = {}

-----------------------------------------------------------------------------
(* ConstPool::Tree.                                                        *)

\* memcmp(a, b) < 0, of equal lengths.
Less(a, b) == \E i \in DOMAIN a : a[i] < b[i] /\ \A j \in 1..i - 1 : a[j] = b[j]

\* Which link leads from a node towards data.
Dir(h, n, data) == IF Less(h[n].data, data) THEN 2 ELSE 1

RECURSIVE Get(_, _, _)
Get(h, n, data) ==
    IF n = 0 THEN 0 ELSE IF h[n].data = data THEN n ELSE Get(h, h[n].link[Dir(h, n, data)], data)

Level(h, n) == IF n = 0 THEN 0 ELSE h[n].level
RightOf(h, n) == IF n = 0 THEN 0 ELSE h[n].link[2]

\* Remove left horizontal links.  Nodes and the new root of the subtree.
SkewNode(h, n) ==
    LET l == h[n].link[1] IN
    IF Level(h, l) = Level(h, n)
    THEN <<[h EXCEPT ![n].link[1] = h[l].link[2], ![l].link[2] = n], l>>
    ELSE <<h, n>>

\* Remove consecutive horizontal links.
SplitNode(h, n) ==
    LET r == RightOf(h, n)
    IN  IF Level(h, RightOf(h, r)) = Level(h, n)
        THEN <<[h EXCEPT ![n].link[2] = h[r].link[1], ![r].link[1] = n, ![r].level = @ + 1], r>>
        ELSE <<h, n>>

\* Down to a free spot, and back up skewing and splitting.
RECURSIVE Put(_, _, _)
Put(h, n, new) ==
    IF n = 0 THEN <<h, new>>
    ELSE LET dir    == Dir(h, n, h[new].data)
             below  == Put(h, h[n].link[dir], new)
             skewed == SkewNode([below[1] EXCEPT ![n].link[dir] = below[2]], n)
         IN  SplitNode(skewed[1], skewed[2])

\* A new node, in the tree of its size.
NewNode(p, data, offset, shared) ==
    LET h == Append(p.node, [data |-> data, link |-> <<0, 0>>, level |-> 1, shared |-> shared,
                             offset |-> offset])
        i == IndexOf(Len(data))
        r == Put(h, p.tree[i], Len(h))
    IN  [p EXCEPT !.node = r[1], !.tree[i] = r[2]]

RECURSIVE Iterate(_, _)
Iterate(h, n) ==
    IF n = 0 THEN << >> ELSE Iterate(h, h[n].link[1]) \o <<n>> \o Iterate(h, h[n].link[2])

-----------------------------------------------------------------------------
(* ConstPool::add.                                                         *)

\* Faulty variant: pieces are as large as fits, wherever they begin.
Piece_Unaligned(offset, length) == Max({l \in {1, 2, 4, 8, 16} : l <= length})

\* The largest aligned piece at the beginning of what is free.
Piece(offset, length) == Max({l \in {1, 2, 4, 8, 16} : l <= length /\ offset % l = 0})

RECURSIVE AddGap(_, _, _)
AddGap(g, offset, length) ==
    IF length = 0 THEN g
    ELSE LET l == Piece(offset, length) IN
         AddGap([g EXCEPT ![IndexOf(l)] = <<[offset |-> offset, length |-> l]>> \o @],
                offset + l, length - l)

\* The loop looks into the gaps of one size only, once for each size that is at least as
\* large and less than 32: it takes as many gaps as that, if there are, and uses the last.
TakeGaps(g, index) ==
    LET s == SizeOf[index + 1]
        one(f, k) ==
            IF f.gaps[index] = << >> THEN f
            ELSE LET gap == Head(f.gaps[index]) IN
                 [gaps |-> AddGap([f.gaps EXCEPT ![index] = Tail(@)], gap.offset, gap.length - s),
                  offset |-> <<gap.offset>>]
    IN  FoldLeft(one, [gaps |-> g, offset |-> << >>], [k \in 1..5 - index |-> k])

\* The constants that data consists of: halves, then quarters, ..., from the first on.
Parts(data) ==
    LET ofSize(s) == [i \in 1..Len(data) \div s |->
                         [data |-> SubSeq(data, (i - 1) * s + 1, i * s), at |-> (i - 1) * s]]
    IN  FlattenSeq([k \in 1..3 |-> IF 32 \div 2^k < Len(data) /\ 32 \div 2^k >= 4
                                   THEN ofSize(32 \div 2^k) ELSE << >>])

Share(p, data, offset) ==
    FoldLeft(LAMBDA q, part :
                IF Get(q.node, q.tree[IndexOf(Len(part.data))], part.data) # 0 THEN q
                ELSE NewNode(q, part.data, offset + part.at, TRUE),
             p, Parts(data))

Add(data) ==
    /\ Cardinality(given) < MaxAdded
    /\ LET s     == Len(data)
           index == IndexOf(s)
           n     == Get(node, tree[index], data)
           took  == TakeGaps(gaps, index)
           begin == IF took.offset # << >> THEN took.offset[1] ELSE ((size + s - 1) \div s) * s
           pool  == Share(NewNode([node |-> node, tree |-> tree], data, begin, FALSE), data, begin)
       IN  IF n # 0
           THEN /\ given' = given \cup {<<data, node[n].offset>>}
                /\ UNCHANGED <<node, tree, gaps, size, alignment>>
           ELSE /\ IF took.offset # << >> THEN gaps' = took.gaps /\ UNCHANGED size
                   ELSE gaps' = AddGap(took.gaps, size, begin - size) /\ size' = begin + s
                /\ node' = pool.node /\ tree' = pool.tree
                /\ alignment' = Max({alignment, s})
                /\ given' = given \cup {<<data, begin>>}

Next == \E data \in Constants : Add(data)

Spec == Init /\ [][Next]_vars

-----------------------------------------------------------------------------
\* ConstPool::fill: gaps are cleared, and shared constants are left to those they are of.
Fill ==
    FoldLeft(LAMBDA bytes, n :
                IF node[n].shared THEN bytes
                ELSE [b \in DOMAIN bytes |->
                         IF b > node[n].offset /\ b <= node[n].offset + Len(node[n].data)
                         THEN node[n].data[b - node[n].offset] ELSE bytes[b]],
             [b \in 1..size |-> 0],
             FlattenSeq([i \in 1..6 |-> Iterate(node, tree[i - 1])]))

\* Each constant that add has returned an offset for is there when the pool is written to
\* memory, aligned to its size if the pool is to its alignment; it stays found, and a size's
\* tree stays low enough for the stack that put and iterate have.
ConstantsReadBack ==
    LET bytes == Fill IN
    /\ \A g \in given :
          LET data == g[1]  offset == g[2]  s == Len(data) IN
          /\ offset % s = 0 /\ alignment % s = 0 /\ offset + s <= size
          /\ SubSeq(bytes, offset + 1, offset + s) = data
    /\ \A n \in DOMAIN node : Get(node, tree[IndexOf(Len(node[n].data))], node[n].data) = n
    /\ \A n \in DOMAIN node :
          /\ Level(node, node[n].link[1]) = node[n].level - 1
          /\ Level(node, RightOf(node, n)) \in {node[n].level - 1, node[n].level}
          /\ Level(node, RightOf(node, RightOf(node, n))) < node[n].level

=============================================================================
