------------------------------ MODULE Liveness ------------------------------
(***************************************************************************)
(* RAPass::livenessAnalysis (asmjit/base/regalloc.cpp:354-533): which      *)
(* variables must keep their value at each node of a function.  It walks   *)
(* backwards from every return, node by node; where a label can be jumped  *)
(* to it goes on from each jump in turn, and where a node has been visited *)
(* it "patches" in what is new.  One action per label of the function.     *)
(*                                                                         *)
(* What fetch leaves behind, done by a backend that the repository does    *)
(* not have, is the input: a program whose nodes all are on a way from the *)
(* function's first node to a return (Sane).  A RABits is a set of         *)
(* variables.                                                              *)
(***************************************************************************)
EXTENDS Naturals, Sequences, SequencesExt

CONSTANT
    Programs    \* sequences of nodes [kind, reads, writes, to]; "to" is where a jump goes

VARIABLES
    program,
    at,             \* the label of the function that is next, or "end"
    point,          \* node
    from,
    bCur,
    live,           \* the liveness of each node, <<>> for nullptr, else <<set>>
    targets,        \* the stack of LivenessTargets, the top first
    returning       \* what is left of _returningList

vars == <<program, at, point, from, bCur, live, targets, returning>>

-----------------------------------------------------------------------------
Kind(n) == program[n].kind
Tied(n) == program[n].reads \cup program[n].writes
WriteOnly(n) == program[n].writes \ program[n].reads

\* The jumps to a label: CBLabel::_from, the newest first.
Jumps(p, label) == {n \in DOMAIN p : p[n].kind \in {"jmp", "jcc"} /\ p[n].to = label}
From(label) == SetToSortSeq(Jumps(program, label), LAMBDA a, b : a > b)

\* getJumpNext, 0 for nullptr.
JumpNext(jump) == LET later == {n \in Jumps(program, program[jump].to) : n < jump}
                  IN  IF later = {} THEN 0 ELSE CHOOSE n \in later : \A m \in later : m <= n

Successors(p, n) ==
    (IF p[n].kind \in {"jmp", "ret"} THEN {} ELSE {n + 1})
        \cup (IF p[n].kind \in {"jmp", "jcc"} THEN {p[n].to} ELSE {})

\* Nodes from which a node in S can be reached in at most k steps along nodes in through.
RECURSIVE Reaching(_, _, _, _)
Reaching(p, S, through, k) ==
    IF k = 0 THEN S
    ELSE Reaching(p, S \cup {n \in through : Successors(p, n) \cap S # {}}, through, k - 1)

\* Every node is on a way from the function to a return.
Sane(p) ==
    LET nodes == DOMAIN p
        rets  == {n \in nodes : p[n].kind = "ret"}
    IN  /\ rets # {} /\ p[Len(p)].kind \in {"ret", "jmp"}
        /\ Reaching(p, rets, nodes, Len(p)) = nodes
        /\ \A n \in nodes : 1 \in Reaching(p, {n}, nodes, Len(p))

Visited(n) == live[n] # << >>
Of(n) == live[n][1]

Init ==
    /\ program \in Programs /\ Sane(program)
    /\ returning = SelectSeq([n \in DOMAIN program |-> n], LAMBDA n : Kind(n) = "ret")
    /\ at = "Visit" /\ point = returning[1] /\ from = 0
    /\ bCur = {} /\ live = [n \in DOMAIN program |-> << >>] /\ targets = << >>

-----------------------------------------------------------------------------
\* Where Visit and Patch go on after node n.
Before(n) ==
    /\ at' = IF Kind(n) = "label" THEN "Target" ELSE IF Kind(n) = "func" THEN "Done" ELSE at
    /\ point' = IF Kind(n) \in {"label", "func"} THEN n ELSE n - 1

VisitFirst ==
    /\ at = "Visit" /\ ~Visited(point)
    /\ live' = [live EXCEPT ![point] = <<bCur \cup Tied(point)>>]
    /\ bCur' = (bCur \ WriteOnly(point)) \cup program[point].reads
    /\ Before(point)
    /\ UNCHANGED <<program, from, targets, returning>>

VisitAgain ==
    /\ at = "Visit" /\ Visited(point)
    /\ bCur' = bCur \ Of(point)
    /\ at' = IF bCur' # {} THEN "Patch" ELSE "Done"
    /\ UNCHANGED <<program, point, from, live, targets, returning>>

Patch ==
    /\ at = "Patch"
    /\ live' = [live EXCEPT ![point] = <<@[1] \cup bCur>>]
    /\ bCur' = bCur \ Of(point)
    /\ IF bCur' = {} THEN at' = "Done" /\ UNCHANGED point ELSE Before(point)
    /\ UNCHANGED <<program, from, targets, returning>>

IsTop(n) == IF targets = << >> THEN FALSE ELSE Head(targets).node = n

Target ==
    /\ at = "Target"
    /\ \/ /\ From(point) = << >>
          /\ at' = "Fall" /\ UNCHANGED <<from, targets>>
       \/ /\ From(point) # << >> /\ ~IsTop(point)
          /\ at' = "Jump" /\ from' = From(point)[1]
          /\ targets' = <<[node |-> point, from |-> 0]>> \o targets
       \/ /\ IsTop(point)
          /\ at' = "JumpNext" /\ from' = Head(targets).from
          /\ UNCHANGED targets
    /\ UNCHANGED <<program, point, bCur, live, returning>>

\* The head of the loop over the jumps.
Jump ==
    /\ at = "Jump"
    /\ targets' = [targets EXCEPT ![1].from = from]
    /\ bCur' = Of(point)
    /\ IF Visited(from) THEN at' = "JumpNext" /\ UNCHANGED point
       ELSE at' = "Visit" /\ point' = from
    /\ UNCHANGED <<program, from, live, returning>>

\* On to the next jump, or past the last.
NextJump ==
    /\ from' = JumpNext(from)
    /\ IF from' # 0 THEN at' = "Jump" /\ UNCHANGED targets
       ELSE at' = "Fall" /\ targets' = Tail(targets)

\* Faulty variant, the code before issue #25: a jump that has been visited once, and is
\* come back to, is not patched again.
AtJump_Once ==
    /\ at = "JumpNext"
    /\ bCur' = bCur \ Of(from)
    /\ NextJump
    /\ UNCHANGED <<program, point, live, returning>>

AtJump ==
    /\ at = "JumpNext"
    /\ bCur' = bCur \ Of(from)
    /\ IF bCur' # {} THEN at' = "Patch" /\ point' = from /\ UNCHANGED <<from, targets>>
       ELSE NextJump /\ UNCHANGED point
    /\ UNCHANGED <<program, live, returning>>

\* From a label to the node before it, if that one goes on to it.
Fall ==
    /\ at = "Fall"
    /\ point' = point - 1
    /\ IF Kind(point') = "jmp" THEN at' = "Done" /\ bCur' = Of(point)
       ELSE IF ~Visited(point') THEN at' = "Visit" /\ bCur' = Of(point)
       ELSE bCur' = Of(point) \ Of(point') /\ at' = IF bCur' # {} THEN "Patch" ELSE "Done"
    /\ UNCHANGED <<program, from, live, targets, returning>>

\* Back to the last target, or on to the next return, with what is in bCur.
Done ==
    /\ at = "Done"
    /\ \/ /\ targets # << >>
          /\ at' = "JumpNext" /\ point' = Head(targets).node /\ from' = Head(targets).from
          /\ UNCHANGED returning
       \/ /\ targets = << >>
          /\ returning' = Tail(returning) /\ UNCHANGED from
          /\ IF returning' = << >> THEN at' = "end" /\ UNCHANGED point
             ELSE at' = "Visit" /\ point' = returning'[1]
    /\ UNCHANGED <<program, bCur, live, targets>>

Next == VisitFirst \/ VisitAgain \/ Patch \/ Target \/ Jump \/ AtJump \/ Fall \/ Done

Spec == Init /\ [][Next]_vars /\ WF_vars(Next)

-----------------------------------------------------------------------------
(* The definition of what is live.                                         *)

\* The nodes at whose beginning v is live: it is read there or later, and not written before.
LiveIn(v) ==
    Reaching(program, {n \in DOMAIN program : v \in program[n].reads},
             {n \in DOMAIN program : v \notin WriteOnly(n)}, Len(program))

\* The analysis ends, and then each node's liveness has its own variables and all that are
\* live after it, whichever way the jumps lead: else the allocator would reuse a register
\* whose value is still needed.  (It may have more: what is in bCur when the analysis turns
\* to another jump or return is not cleared.)
LivenessIsFound ==
    <>(/\ at = "end"
       /\ \A n \in DOMAIN program :
             /\ Visited(n) /\ Tied(n) \subseteq Of(n)
             /\ \A v \in UNION {Tied(m) : m \in DOMAIN program} :
                   Successors(program, n) \cap LiveIn(v) # {} => v \in Of(n))

=============================================================================
