---------------------------- MODULE CodeBuilder -----------------------------
(***************************************************************************)
(* Code as a list of nodes (asmjit/base/codebuilder.cpp, and the functions *)
(* of codecompiler.cpp): nodes are added at a cursor, before or after      *)
(* another, and removed, one or many; a label knows the jumps that lead to *)
(* it.  Jumps are made by a backend that the repository does not have.     *)
(*                                                                         *)
(* Nodes are numbered as they are made; 0 is nullptr.                      *)
(***************************************************************************)
EXTENDS Naturals, Sequences, SequencesExt, FiniteSets, Functions

CONSTANTS
    Kinds,      \* of the nodes that are emitted, besides jumps and labels
    MaxNodes,   \* bound: nodes ever made
    Debug       \* ASMJIT_DEBUG: whether an ASMJIT_ASSERT that fails stops the program

VARIABLES
    node,       \* [kind, prev, next]; of a jump also target, jumpNext; of a label from, numRefs
    first, last,    \* _firstNode, _lastNode
    cursor,     \* _cursor
    func,       \* _func
    localConstPool,
    removing,   \* in removeNodes: [node, last, prev]; node is 0 outside
    walk,       \* in removeUnreachableCode: [node, everything]; node is 0 outside
    order,      \* history: the nodes that were added, less those removed, where they were put
    rest        \* history: the nodes that removeNodes has cut out and still to go through

list == <<node, first, last, cursor, order, rest>>
vars == <<list, func, localConstPool, removing, walk>>

BuilderAssumption == Kinds \subseteq {"inst", "data"} /\ MaxNodes \in Nat /\ Debug \in BOOLEAN

NoRemoval == [node |-> 0, last |-> 0, prev |-> 0]
NoWalk    == [node |-> 0, everything |-> FALSE]

Init ==
    /\ node = << >> /\ first = 0 /\ last = 0 /\ cursor = 0
    /\ func = 0 /\ localConstPool = 0
    /\ removing = NoRemoval /\ walk = NoWalk
    /\ order = << >> /\ rest = << >>

-----------------------------------------------------------------------------
State == [node |-> node, first |-> first, last |-> last, cursor |-> cursor, order |-> order,
          rest |-> rest]

Become(s) ==
    /\ node' = s.node /\ first' = s.first /\ last' = s.last /\ cursor' = s.cursor
    /\ order' = s.order /\ rest' = s.rest

Node(kind) == [kind |-> kind, prev |-> 0, next |-> 0, target |-> 0, jumpNext |-> 0,
               from |-> 0, numRefs |-> 0]

Linked(n) == n \in Range(order)

\* Where the node is in the list.
Place(s, n) == CHOOSE i \in 1..Len(s.order) : s.order[i] = n

\* _next of p, or _firstNode; _prev of n, or _lastNode.
SetNext(s, p, n) == IF p = 0 THEN [s EXCEPT !.first = n] ELSE [s EXCEPT !.node[p].next = n]
SetPrev(s, n, p) == IF n = 0 THEN [s EXCEPT !.last = p] ELSE [s EXCEPT !.node[n].prev = p]

\* n between p and q, which are neighbours or 0; it becomes the i-th.
Between(s, p, n, q, i) ==
    SetNext(SetPrev([s EXCEPT !.node[n].prev = p, !.node[n].next = q, !.order = InsertAt(@, i, n)],
                    q, n), p, n)

AddAfter(s, n, ref)  == Between(s, ref, n, s.node[ref].next, Place(s, ref) + 1)
AddBefore(s, n, ref) == Between(s, s.node[ref].prev, n, ref, Place(s, ref))

AddNode(s, n) ==
    LET put == IF s.cursor = 0 THEN Between(s, 0, n, s.first, 1) ELSE AddAfter(s, n, s.cursor)
    IN  [put EXCEPT !.cursor = n]

\* What a walk along a label's list of jumps meets.
Closed(s, label, S) ==
    /\ s.node[label].from # 0 => s.node[label].from \in S
    /\ \A n \in S : s.node[n].jumpNext # 0 => s.node[n].jumpNext \in S
Jumps(s) == {n \in 1..Len(s.node) : s.node[n].kind = "jump"}
Chain(s, label) == {n \in Jumps(s) : \A S \in SUBSET Jumps(s) : Closed(s, label, S) => n \in S}

\* Faulty variant: the newest jump is taken off the label, whichever is removed.
Unlink_Newest(s, jump, label) == [s EXCEPT !.node[label].from = s.node[@].jumpNext]

\* The jump is taken off the label's list: the pointer that leads to it is changed.
Unlink(s, jump, label) ==
    IF s.node[label].from = jump THEN [s EXCEPT !.node[label].from = s.node[jump].jumpNext]
    ELSE LET current == CHOOSE n \in Chain(s, label) : s.node[n].jumpNext = jump
         IN  [s EXCEPT !.node[current].jumpNext = s.node[jump].jumpNext]

NodeRemoved(s, n) ==
    LET label == s.node[n].target IN
    IF label = 0 THEN s ELSE [Unlink(s, n, label) EXCEPT !.node[label].numRefs = @ - 1]

\* The nodes from the i-th to the j-th are cut out of the list.
Cut(s, i, j) ==
    LET a == s.order[i]       b == s.order[j]
        p == s.node[a].prev   q == s.node[b].next
        t == IF s.first = a THEN [s EXCEPT !.first = q] ELSE [s EXCEPT !.node[p].next = q]
        u == IF t.last = b THEN [t EXCEPT !.last = p] ELSE [t EXCEPT !.node[q].prev = p]
    IN  [u EXCEPT !.order = SubSeq(@, 1, i - 1) \o SubSeq(@, j + 1, Len(@)),
                  !.rest = SubSeq(s.order, i, j)]

\* The first node of the rest is gone; p was before the rest.
Gone(s, n, p) ==
    NodeRemoved([s EXCEPT !.node[n].prev = 0, !.node[n].next = 0,
                          !.cursor = IF @ = n THEN p ELSE @, !.rest = Tail(@)], n)

RemoveNode(s, n) == Gone(Cut(s, Place(s, n), Place(s, n)), n, s.node[n].prev)

\* Outside of the loops of removeNodes and removeUnreachableCode.  A list that has a node
\* twice is followed no further.
Idle == removing.node = 0 /\ walk.node = 0 /\ IsInjective(order)

\* What addNode, addAfter and addBefore assert of the node they are given.
Alone(n) == node[n].prev = 0 /\ node[n].next = 0

-----------------------------------------------------------------------------
(* CodeBuilder.                                                            *)

\* embed; emitting an instruction does the same.
Emit(kind) ==
    /\ Idle /\ Len(node) < MaxNodes
    /\ Become(AddNode([State EXCEPT !.node = Append(@, Node(kind))], Len(node) + 1))
    /\ UNCHANGED <<func, localConstPool, removing, walk>>

\* The backend's jump to a label.
EmitJump(label) ==
    /\ Idle /\ Len(node) < MaxNodes
    /\ node[label].kind \in {"label", "exit"}
    /\ LET n == Len(node) + 1
           jump == [Node("jump") EXCEPT !.target = label, !.jumpNext = node[label].from]
           made == [Append(node, jump) EXCEPT ![label].from = n, ![label].numRefs = @ + 1]
       IN  Become(AddNode([State EXCEPT !.node = made], n))
    /\ UNCHANGED <<func, localConstPool, removing, walk>>

NewLabel ==
    /\ Idle /\ Len(node) < MaxNodes
    /\ node' = Append(node, Node("label"))
    /\ UNCHANGED <<first, last, cursor, order, rest, func, localConstPool, removing, walk>>

\* bind adds the label's node, be it in the list already or not.
Bind(label) ==
    /\ Idle
    /\ node[label].kind = "label"
    /\ Debug => Alone(label)
    /\ Become(AddNode(State, label))
    /\ UNCHANGED <<func, localConstPool, removing, walk>>

\* A node is put into the list again, as the passes do with one that was removed.
Again(n, ref) ==
    /\ Idle
    /\ node[n].kind \in {"inst", "data"} /\ Linked(ref)
    /\ Debug => Alone(n)
    /\ Become(AddAfter(State, n, ref)) \/ Become(AddBefore(State, n, ref))
    /\ UNCHANGED <<func, localConstPool, removing, walk>>

\* The nodes of a function's frame stay.
Free(n) == node[n].kind \in {"inst", "data", "jump", "label"}

\* removeNode, and removeNodes of those from the i-th to the j-th with the first pass of its
\* loop.
RemoveNodes(i, j) ==
    LET prev == node[order[i]].prev IN
    /\ Idle
    /\ \A k \in i..j : Free(order[k])
    /\ Become(Gone(Cut(State, i, j), order[i], prev))
    /\ removing' = IF i = j THEN NoRemoval
                   ELSE [node |-> node[order[i]].next, last |-> order[j], prev |-> prev]
    /\ UNCHANGED <<func, localConstPool, walk>>

\* Another pass.  Each asserts that there is a next node, the last of them too (428).
RemoveNext ==
    LET n == removing.node IN
    /\ n # 0
    /\ Debug => node[n].next # 0
    /\ Become(Gone(State, n, removing.prev))
    /\ removing' = IF n = removing.last THEN NoRemoval ELSE [removing EXCEPT !.node = node[n].next]
    /\ UNCHANGED <<func, localConstPool, walk>>

\* RAPass::removeUnreachableCode goes through nodes that fetch did not reach, as far as one
\* that has pass data, which may be any; those of a function's frame have.
Unreachable(n) == Free(n) \/ node[n].kind = "exit"

RemoveUnreachable(n) ==
    /\ Idle
    /\ Linked(n) /\ node[n].prev # 0 /\ Unreachable(n)
    /\ walk' = [node |-> n, everything |-> TRUE]
    /\ UNCHANGED <<list, func, localConstPool, removing>>

\* A pass of its loop: it removes all as far as the first label, then what is "removable".
RemoveUnreachableNext ==
    LET n          == walk.node
        next       == node[n].next
        removable  == node[n].kind \in {"inst", "jump"}
        everything == walk.everything /\ node[n].kind \notin {"label", "exit"}
    IN  /\ n # 0
        /\ IF removable \/ everything THEN Become(RemoveNode(State, n)) ELSE UNCHANGED list
        /\ \/ walk' = NoWalk
           \/ next # 0 /\ Unreachable(next) /\ walk' = [node |-> next, everything |-> everything]
        /\ UNCHANGED <<func, localConstPool, removing>>

SetCursor(n) ==
    /\ Idle
    /\ cursor' = n
    /\ UNCHANGED <<node, first, last, order, rest, func, localConstPool, removing, walk>>

-----------------------------------------------------------------------------
(* CodeCompiler.                                                           *)

\* newFunc and addFunc: the function's node, its exit label and its end, with the cursor
\* behind the first.
AddFunc ==
    /\ Idle /\ func = 0 /\ Len(node) + 3 <= MaxNodes
    /\ LET f == Len(node) + 1
           s == [State EXCEPT !.node = @ \o <<Node("func"), Node("exit"), Node("end")>>]
       IN  /\ Become([AddNode(AddNode(AddNode(s, f), f + 1), f + 2) EXCEPT !.cursor = f])
           /\ func' = f
    /\ UNCHANGED <<localConstPool, removing, walk>>

\* _newConst, the first in a function.
NewConst ==
    /\ Idle /\ localConstPool = 0 /\ Len(node) < MaxNodes
    /\ node' = Append(node, Node("pool")) /\ localConstPool' = Len(node')
    /\ UNCHANGED <<first, last, cursor, order, rest, func, removing, walk>>

\* endFunc; the pool goes before the end.
EndFunc ==
    LET end == func + 2
        put == AddNode([State EXCEPT !.cursor = node[end].prev], localConstPool)
    IN  /\ Idle /\ func # 0
        /\ Become([(IF localConstPool = 0 THEN State ELSE put) EXCEPT !.cursor = end])
        /\ func' = 0 /\ localConstPool' = 0
        /\ UNCHANGED <<removing, walk>>

Next ==
    \/ \E kind \in Kinds : Emit(kind)
    \/ NewLabel \/ AddFunc \/ NewConst \/ EndFunc
    \/ \E n \in DOMAIN node : \/ EmitJump(n) \/ Bind(n)
                              \/ \E ref \in DOMAIN node : Again(n, ref)
                              \/ RemoveUnreachable(n)
    \/ \E i, j \in DOMAIN order : i <= j /\ RemoveNodes(i, j)
    \/ RemoveNext \/ RemoveUnreachableNext
    \/ \E n \in {0} \cup Range(order) : SetCursor(n)

Spec == Init /\ [][Next]_vars

-----------------------------------------------------------------------------
\* From either end the list is the nodes, where they were put.
ListInOrder ==
    LET n == Len(order) IN
    /\ first = (IF n = 0 THEN 0 ELSE order[1]) /\ last = (IF n = 0 THEN 0 ELSE order[n])
    /\ \A i \in 1..n : /\ node[order[i]].prev = IF i = 1 THEN 0 ELSE order[i - 1]
                       /\ node[order[i]].next = IF i = n THEN 0 ELSE order[i + 1]

\* Those that removeNodes still has to go through.
RestInOrder ==
    LET n == Len(rest) IN
    /\ removing.node = (IF n = 0 THEN 0 ELSE rest[1])
    /\ n > 0 => removing.last = rest[n]
    /\ \A i \in 1..n - 1 : node[rest[i]].next = rest[i + 1]

\* As long as no node was put into the list that was in it already: whatever is added,
\* bound, removed, put back or cut out, from either end the list is the nodes where they
\* were put, and no others have neighbours; a label's jumps are those that are in the list,
\* each older than the one before it, and as many as it says; and the cursor is in the list.
\* What removeNodes has cut out and not come to yet still counts.
NodesInOrder ==
    LET there == Range(order) \cup Range(rest) IN
    IsInjective(order) =>
        /\ ListInOrder /\ RestInOrder
        /\ \A n \in DOMAIN node \ there : Alone(n)
        /\ cursor \in there \cup {0}
        /\ \A l \in DOMAIN node :
              LET chain == Chain(State, l) IN
              /\ chain = {n \in there : node[n].target = l} /\ node[l].numRefs = Cardinality(chain)
              /\ \A n \in chain : node[n].jumpNext < n /\ n <= node[l].from

\* "Attempt to bind the same label multiple times will return an error" (codeemitter.h:201):
\* no label is in the list twice.
BoundOnce ==
    \A i, j \in DOMAIN order : node[order[i]].kind = "label" /\ order[i] = order[j] => i = j

=============================================================================
