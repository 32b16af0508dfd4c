------------------------------- MODULE RbTree -------------------------------
(***************************************************************************)
(* The red-black tree of MemNodes, by address (asmjit/base/vmem.cpp:88-    *)
(* 160, 322-506): insertion and removal in one pass down the tree, which   *)
(* rotates and recolours on its way.  A tree is a heap of nodes, written   *)
(* and returned whole; node 0 is nullptr and reading it is an error.       *)
(***************************************************************************)
EXTENDS Naturals

CONSTANT MaxNodes       \* bound: nodes at any time

Nodes == 1..MaxNodes

\* The false tree root, a local variable of insertion and of removal.
FalseRoot == MaxNodes + 1

NoNode == [child |-> [d \in 0..1 |-> 0], mem |-> 0, red |-> FALSE]
NoTree == [n \in 1..FalseRoot |-> NoNode]

IsRed(h, n) == n # 0 /\ h[n].red

\* Whether the tree is valid: rbAssert, with the order of a whole search tree, of which
\* the code tests the children of each node only.
RECURSIVE BlackHeight(_, _)
BlackHeight(h, n) ==
    IF n = 0 THEN 1
    ELSE LET l == BlackHeight(h, h[n].child[0])
             r == BlackHeight(h, h[n].child[1])
             redRed == h[n].red /\ \E d \in 0..1 : IsRed(h, h[n].child[d])
         IN  IF redRed \/ l = 0 \/ l # r THEN 0
             ELSE IF h[n].red THEN l ELSE l + 1

RECURSIVE Under(_, _)
Under(h, n) == IF n = 0 THEN {} ELSE {n} \cup Under(h, h[n].child[0]) \cup Under(h, h[n].child[1])

ValidTree(h, root) ==
    /\ BlackHeight(h, root) > 0
    /\ \A n \in Under(h, root) :
          /\ \A m \in Under(h, h[n].child[0]) : h[m].mem < h[n].mem
          /\ \A m \in Under(h, h[n].child[1]) : h[m].mem > h[n].mem

-----------------------------------------------------------------------------
(* Rotations; the second component is the new root of the subtree.         *)

SetChild(h, n, d, c) == [h EXCEPT ![n].child[d] = c]
SetRed(h, n, red)    == [h EXCEPT ![n].red = red]

RotateSingle(h, root, dir) ==
    LET save == h[root].child[1 - dir]
        h1   == SetChild(SetChild(h, root, 1 - dir, h[save].child[dir]), save, dir, root)
    IN  <<SetRed(SetRed(h1, root, TRUE), save, FALSE), save>>

RotateDouble(h, root, dir) ==
    LET inner == RotateSingle(h, h[root].child[1 - dir], 1 - dir)
    IN  RotateSingle(SetChild(inner[1], root, 1 - dir, inner[2]), root, dir)

\* The rotated subtree replaces child d of node t.
Graft(rotated, t, d) == SetChild(rotated[1], t, d, rotated[2])

Side(b) == IF b THEN 1 ELSE 0

-----------------------------------------------------------------------------
(* vMemMgrInsertNode, the tree's part.                                     *)

\* Insert the node at the bottom, or flip colours.
Place(s, node) ==
    IF s.q = 0
    THEN [s EXCEPT !.h = SetChild(@, s.p, s.dir, node), !.q = node]
    ELSE LET l == s.h[s.q].child[0]  r == s.h[s.q].child[1] IN
         IF IsRed(s.h, l) /\ IsRed(s.h, r)
         THEN [s EXCEPT !.h = SetRed(SetRed(SetRed(@, s.q, TRUE), l, FALSE), r, FALSE)]
         ELSE s

\* Faulty variant: always a single rotation.
FixRed_Single(s) ==
    IF IsRed(s.h, s.q) /\ IsRed(s.h, s.p)
    THEN [s EXCEPT !.h = Graft(RotateSingle(@, s.g, 1 - s.last), s.t, Side(s.h[s.t].child[1] = s.g))]
    ELSE s

\* Fix a red violation below the grandparent g.
FixRed(s) ==
    IF IsRed(s.h, s.q) /\ IsRed(s.h, s.p)
    THEN LET rotated == IF s.q = s.h[s.p].child[s.last]
                        THEN RotateSingle(s.h, s.g, 1 - s.last)
                        ELSE RotateDouble(s.h, s.g, 1 - s.last)
         IN  [s EXCEPT !.h = Graft(rotated, s.t, Side(s.h[s.t].child[1] = s.g))]
    ELSE s

RECURSIVE SearchDown(_, _)
SearchDown(s, node) ==
    LET f == FixRed(Place(s, node)) IN
    IF f.q = node THEN f.h
    ELSE LET dir == Side(f.h[f.q].mem < f.h[node].mem) IN
         SearchDown([h |-> f.h, t |-> IF f.g # 0 THEN f.g ELSE f.t, g |-> f.p, p |-> f.q,
                     q |-> f.h[f.q].child[dir], dir |-> dir, last |-> f.dir], node)

\* The heap and the root after a new red node, at address mem, was inserted.
InsertNode(h, root, node, mem) ==
    LET h1 == [h EXCEPT ![node] = [NoNode EXCEPT !.mem = mem, !.red = TRUE],
                        ![FalseRoot] = [NoNode EXCEPT !.child[1] = root]]
        h2 == IF root = 0 THEN SetChild(h1, FalseRoot, 1, node)
              ELSE SearchDown([h |-> h1, t |-> FalseRoot, g |-> 0, p |-> 0, q |-> root,
                               dir |-> 0, last |-> 0], node)
        top == h2[FalseRoot].child[1]
    IN  <<SetRed(h2, top, FALSE), top>>

-----------------------------------------------------------------------------
(* vMemMgrRemoveNode, the tree's part.                                     *)

\* Ensure correct colouring.
Recolour(h, q, top) ==
    SetRed(SetRed(SetRed(SetRed(h, q, TRUE), top, TRUE), h[top].child[0], FALSE), h[top].child[1], FALSE)

\* Push a red node down, when q and its child in direction dir are not red.
PushRed(s) ==
    LET away == s.h[s.q].child[1 - s.dir]
        sib  == s.h[s.p].child[1 - s.last]
        side == Side(s.h[s.g].child[1] = s.p)
    IN  IF IsRed(s.h, s.q) \/ IsRed(s.h, s.h[s.q].child[s.dir]) THEN s
        ELSE IF IsRed(s.h, away)
             THEN LET r == RotateSingle(s.h, s.q, s.dir)
                  IN  [s EXCEPT !.h = Graft(r, s.p, s.last), !.p = r[2]]
        ELSE IF sib = 0 THEN s
        ELSE IF ~IsRed(s.h, s.h[sib].child[1 - s.last]) /\ ~IsRed(s.h, s.h[sib].child[s.last])
             THEN [s EXCEPT !.h = SetRed(SetRed(SetRed(@, s.p, FALSE), sib, TRUE), s.q, TRUE)]
             ELSE LET h1 == Graft(IF IsRed(s.h, s.h[sib].child[s.last])
                                  THEN RotateDouble(s.h, s.p, s.last)
                                  ELSE RotateSingle(s.h, s.p, s.last), s.g, side)
                  IN  [s EXCEPT !.h = Recolour(h1, s.q, h1[s.g].child[side])]

\* Search for the node, or the one next to it in order, pushing red down.
RECURSIVE SearchRed(_, _)
SearchRed(s, node) ==
    LET q == s.h[s.q].child[s.dir] IN
    IF q = 0 THEN s
    ELSE SearchRed(PushRed([h |-> s.h, g |-> s.p, p |-> s.q, q |-> q, last |-> s.dir,
                            dir |-> Side(s.h[q].mem < s.h[node].mem)]), node)

\* What the search leads to is taken out, and its data replace the node's.
Unlinked(s, node) ==
    LET h2 == [s.h EXCEPT ![node].mem = s.h[s.q].mem]
        h3 == SetChild(h2, s.p, Side(h2[s.p].child[1] = s.q),
                       h2[s.q].child[Side(h2[s.q].child[0] = 0)])
        top == h3[FalseRoot].child[1]
        h4 == IF top = 0 THEN h3 ELSE SetRed(h3, top, FALSE)
    IN  <<[h4 EXCEPT ![s.q] = NoNode, ![FalseRoot] = NoNode], top, s.q>>

\* The heap, the root and the node q that is taken out of the tree: its address, and in
\* VMem the rest of it, moves into "node" if that is another.
RemoveNode(h, root, node) ==
    LET h1 == [h EXCEPT ![FalseRoot] = [NoNode EXCEPT !.child[1] = root]]
    IN  Unlinked(SearchRed([h |-> h1, g |-> 0, p |-> 0, q |-> FalseRoot, dir |-> 1, last |-> 1], node),
                 node)

-----------------------------------------------------------------------------
\* vMemMgrFindNodeByPtr: the node whose memory, of size[n] from its address on, has p in it.
RECURSIVE FindNodeByPtr(_, _, _, _)
FindNodeByPtr(h, n, size, p) ==
    IF n = 0 THEN 0
    ELSE IF p < h[n].mem THEN FindNodeByPtr(h, h[n].child[0], size, p)
    ELSE IF p >= h[n].mem + size[n] THEN FindNodeByPtr(h, h[n].child[1], size, p)
    ELSE n

=============================================================================
