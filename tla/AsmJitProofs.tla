---------------------------- MODULE AsmJitProofs ----------------------------
(***************************************************************************)
(* Theorems about the modules of AsmJitData, for every value of their      *)
(* constants.  Of Zone: whatever is allocated, released and reset, and     *)
(* whatever malloc returns, no byte has two owners.  Of CodeBuilder:       *)
(* whatever is added, moved the cursor to and removed, one node or many,   *)
(* the list has its nodes in the order they were put in, both ways.        *)
(***************************************************************************)
EXTENDS AsmJitData, Integers, Sequences, FiniteSets, FiniteSetTheorems, SequenceTheorems,
        WellFoundedInduction, TLAPS

-----------------------------------------------------------------------------
(* The least number of a set.                                              *)

LEMMA Less == \E R : IsWellFoundedOn(R, Nat) /\ R = {p \in Nat \X Nat : p[1] < p[2]}
<1>1. OpToRel(<, Nat) = {p \in Nat \X Nat : p[1] < p[2]}
  BY DEF OpToRel
<1>2. IsWellFoundedOn(OpToRel(<, Nat), Nat)
  BY NatLessThanWellFounded
<1>3. IsWellFoundedOn({p \in Nat \X Nat : p[1] < p[2]}, Nat)
  BY <1>2 DEF OpToRel
<1>. QED  BY <1>3

\* Every set of natural numbers that is not empty has one.
LEMMA Least ==
    ASSUME NEW T \in SUBSET Nat, NEW t \in T
    PROVE  \E x \in T : \A y \in T : x <= y
<1>1. PICK R : IsWellFoundedOn(R, Nat) /\ R = {p \in Nat \X Nat : p[1] < p[2]}
  BY Less
<1>2. \E x \in T : \A y \in T : ~(<<y, x>> \in R)
  BY ONLY <1>1, T \in SUBSET Nat, t \in T, WFMin
<1>3. \A x, y \in Nat : <<y, x>> \in R <=> y < x
  BY <1>1
<1>4. PICK x \in T : \A y \in T : ~(<<y, x>> \in R)
  BY <1>2
<1>5. ASSUME NEW y \in T
      PROVE  x <= y
  <2>1. x \in Nat /\ y \in Nat /\ ~(<<y, x>> \in R)
    BY <1>4
  <2>2. ~(y < x)
    BY ONLY <1>3, <2>1
  <2>. QED  BY ONLY <2>1, <2>2
<1>. QED  BY <1>5

-----------------------------------------------------------------------------
(* Zone: its invariant, of a state of the allocators and what the users    *)
(* own beside it.                                                          *)

SpanSet      == [at : Nat, size : Nat]
ZoneBlock    == [data : Nat, size : Nat]
DynamicBlock == [memory : SpanSet, data : Nat]

ArenaState ==
    [blocks : Seq(ZoneBlock), block : Nat, ptr : Nat, end : Nat, slots : [Zones!Slots -> Seq(Nat)],
     dynamicBlocks : SUBSET DynamicBlock, p : Nat, allocated : Nat, malloced : SpanSet]

\* The cursor is in the current block, and the blocks are apart.
ArenaOK(s) ==
    /\ s \in ArenaState
    /\ s.block <= Len(s.blocks)
    /\ s.block = 0 => s.ptr = 0 /\ s.end = 0
    /\ s.block > 0 => /\ s.blocks[s.block].data <= s.ptr /\ s.ptr <= s.end
                      /\ s.end = s.blocks[s.block].data + s.blocks[s.block].size
    /\ \A b, c \in 1..Len(s.blocks) :
          b # c => Zones!Apart(Zones!BlockSpan(s.blocks[b]), Zones!BlockSpan(s.blocks[c]))

InBlock(s, x) == \E b \in 1..Len(s.blocks) : Zones!Within(x, Zones!BlockSpan(s.blocks[b]))

\* What nobody uses is in the blocks, and apart.
FreeOK(s) ==
    /\ \A o \in Zones!FreeOwners(s) : InBlock(s, Zones!FreeSpan(s, o))
    /\ \A o, u \in Zones!FreeOwners(s) :
          o # u => Zones!Apart(Zones!FreeSpan(s, o), Zones!FreeSpan(s, u))

\* What the users own: in a block or in dynamic memory.
Owned == [at : Nat, size : Nat \ {0}, dyn : BOOLEAN]

InDynamic(s, x) == \E d \in s.dynamicBlocks : d.data = x.at /\ Zones!Within(x, d.memory)

OwnOK(s, own) ==
    /\ own \in [DOMAIN own -> Owned]
    /\ \A o \in DOMAIN own : o[1] \notin {"rest", "slot", "block"}
    /\ \A o \in DOMAIN own : IF own[o].dyn THEN InDynamic(s, own[o]) ELSE InBlock(s, own[o])
    /\ \A o, u \in DOMAIN own : o # u => Zones!Apart(own[o], own[u])
    /\ \A o \in DOMAIN own, u \in Zones!FreeOwners(s) : Zones!Apart(own[o], Zones!FreeSpan(s, u))

Good(s, own) == ArenaOK(s) /\ FreeOK(s) /\ OwnOK(s, own)

Extend(own, o, x) == [u \in DOMAIN own \cup {o} |-> IF u = o THEN x ELSE own[u]]
Without(own, o)   == [u \in DOMAIN own \ {o} |-> own[u]]

-----------------------------------------------------------------------------
(* Owners of free memory.                                                  *)

\* An owner is the rest of the current block, a chunk in a slot or an unused block.
LEMMA FreeOwnersAre ==
    ASSUME NEW s, NEW o
    PROVE  o \in Zones!FreeOwners(s) <=>
               \/ s.block # 0 /\ o = <<"rest", 0, 0>>
               \/ \E k \in Zones!Slots : \E i \in 1..Len(s.slots[k]) : o = <<"slot", k, i>>
               \/ \E b \in s.block + 1..Len(s.blocks) : o = <<"block", b, 0>>
<1>. DEFINE rest   == IF s.block = 0 THEN {} ELSE {<<"rest", 0, 0>>}
            Of(k)  == {<<"slot", k, i>> : i \in 1..Len(s.slots[k])}
            chunks == UNION {Of(k) : k \in Zones!Slots}
            unused == {<<"block", b, 0>> : b \in s.block + 1..Len(s.blocks)}
<1>1. o \in Zones!FreeOwners(s) <=> o \in rest \/ o \in chunks \/ o \in unused
  BY DEF Zones!FreeOwners
<1>2. o \in rest <=> s.block # 0 /\ o = <<"rest", 0, 0>>
  OBVIOUS
<1>3. o \in chunks <=> \E k \in Zones!Slots : o \in Of(k)
  <2>. HIDE DEF Of
  <2>. QED  OBVIOUS
<1>4. ASSUME NEW k \in Zones!Slots
      PROVE  o \in Of(k) <=> \E i \in 1..Len(s.slots[k]) : o = <<"slot", k, i>>
  OBVIOUS
<1>5. o \in unused <=> \E b \in s.block + 1..Len(s.blocks) : o = <<"block", b, 0>>
  OBVIOUS
<1>. HIDE DEF rest, Of, chunks, unused
<1>. QED  BY <1>1, <1>2, <1>3, <1>4, <1>5

\* Their spans.
LEMMA RestSpan ==
    ASSUME NEW s
    PROVE  Zones!FreeSpan(s, <<"rest", 0, 0>>) = Zones!Span(s.ptr, s.end - s.ptr)
  BY DEF Zones!FreeSpan

LEMMA SlotSpan ==
    ASSUME NEW s, NEW k, NEW i
    PROVE  Zones!FreeSpan(s, <<"slot", k, i>>) = Zones!Span(s.slots[k][i], Zones!SlotSize(k))
  BY DEF Zones!FreeSpan

LEMMA UnusedSpan ==
    ASSUME NEW s, NEW b
    PROVE  Zones!FreeSpan(s, <<"block", b, 0>>) = Zones!BlockSpan(s.blocks[b])
  BY DEF Zones!FreeSpan

LEMMA SlotSizes ==
    \A k \in Zones!Slots : Zones!SlotSize(k) \in Nat
  BY DEF Zones!Slots, Zones!SlotSize, Zones!kLoGranularity, Zones!kLoMaxSize, Zones!kHiGranularity

LEMMA ArenaFields ==
    ASSUME NEW s, ArenaOK(s)
    PROVE  /\ s.blocks \in Seq(ZoneBlock) /\ Len(s.blocks) \in Nat
           /\ s.block \in 0..Len(s.blocks) /\ s.ptr \in Nat /\ s.end \in Nat
           /\ s.slots \in [Zones!Slots -> Seq(Nat)] /\ s.dynamicBlocks \in SUBSET DynamicBlock
           /\ \A b \in 1..Len(s.blocks) :
                 s.blocks[b] \in ZoneBlock /\ s.blocks[b].data \in Nat /\ s.blocks[b].size \in Nat
           /\ \A k \in Zones!Slots : s.slots[k] \in Seq(Nat) /\ Len(s.slots[k]) \in Nat
           /\ \A k \in Zones!Slots : \A i \in 1..Len(s.slots[k]) : s.slots[k][i] \in Nat
           /\ s.block # 0 => s.block \in 1..Len(s.blocks) /\ s.end - s.ptr \in Nat
<1>1. s \in ArenaState
  BY DEF ArenaOK
<1>2. /\ s.blocks \in Seq(ZoneBlock) /\ s.block \in Nat /\ s.ptr \in Nat /\ s.end \in Nat
      /\ s.slots \in [Zones!Slots -> Seq(Nat)] /\ s.dynamicBlocks \in SUBSET DynamicBlock
  BY <1>1 DEF ArenaState
<1>3. Len(s.blocks) \in Nat
  <2>1. s.blocks \in Seq(ZoneBlock)
    BY <1>2
  <2>. QED  BY <2>1, LenProperties
<1>4. s.block \in 0..Len(s.blocks)
  BY <1>2, <1>3 DEF ArenaOK
<1>5. \A b \in 1..Len(s.blocks) : s.blocks[b] \in ZoneBlock
  BY <1>2, ElementOfSeq
<1>6. \A b \in 1..Len(s.blocks) : s.blocks[b].data \in Nat /\ s.blocks[b].size \in Nat
  BY <1>5 DEF ZoneBlock
<1>7. \A k \in Zones!Slots : s.slots[k] \in Seq(Nat)
  BY <1>2
<1>8. ASSUME NEW k \in Zones!Slots
      PROVE  Len(s.slots[k]) \in Nat /\ \A i \in 1..Len(s.slots[k]) : s.slots[k][i] \in Nat
  <2>1. s.slots[k] \in Seq(Nat)
    BY <1>7
  <2>. QED  BY <2>1, ElementOfSeq
<1>9. s.block # 0 => s.block \in 1..Len(s.blocks) /\ s.end - s.ptr \in Nat
  <2>1. s.block > 0 => s.ptr <= s.end
    BY DEF ArenaOK
  <2>2. s.block \in Nat /\ s.ptr \in Nat /\ s.end \in Nat
    BY <1>2
  <2>. QED  BY <1>3, <1>4, <2>1, <2>2
<1>. QED  BY <1>2, <1>3, <1>4, <1>5, <1>6, <1>7, <1>8, <1>9

LEMMA FreeSpansOK ==
    ASSUME NEW s, ArenaOK(s), NEW o \in Zones!FreeOwners(s)
    PROVE  Zones!FreeSpan(s, o) \in SpanSet
<1>1. CASE s.block # 0 /\ o = <<"rest", 0, 0>>
  <2>1. s.ptr \in Nat /\ s.end - s.ptr \in Nat
    BY <1>1, ArenaFields
  <2>2. Zones!FreeSpan(s, o) = Zones!Span(s.ptr, s.end - s.ptr)
    BY <1>1, RestSpan
  <2>. QED  BY <2>1, <2>2 DEF SpanSet, Zones!Span
<1>2. ASSUME NEW k \in Zones!Slots, NEW i \in 1..Len(s.slots[k]), o = <<"slot", k, i>>
      PROVE  Zones!FreeSpan(s, o) \in SpanSet
  <2>1. s.slots[k][i] \in Nat
    BY ArenaFields
  <2>2. Zones!FreeSpan(s, o) = Zones!Span(s.slots[k][i], Zones!SlotSize(k))
    BY <1>2, SlotSpan
  <2>3. Zones!SlotSize(k) \in Nat
    BY SlotSizes
  <2>. QED  BY <2>1, <2>2, <2>3 DEF SpanSet, Zones!Span
<1>3. ASSUME NEW b \in s.block + 1..Len(s.blocks), o = <<"block", b, 0>>
      PROVE  Zones!FreeSpan(s, o) \in SpanSet
  <2>1. b \in 1..Len(s.blocks)
    BY <1>3, ArenaFields
  <2>2. s.blocks[b].data \in Nat /\ s.blocks[b].size \in Nat
    BY <2>1, ArenaFields
  <2>3. Zones!FreeSpan(s, o) = Zones!BlockSpan(s.blocks[b])
    BY <1>3, UnusedSpan
  <2>. QED  BY <2>2, <2>3 DEF SpanSet, Zones!Span, Zones!BlockSpan
<1>. QED  BY <1>1, <1>2, <1>3, FreeOwnersAre

\* What lies within things that are apart is apart.
LEMMA WithinApart ==
    ASSUME NEW x, NEW y, NEW u, NEW v,
           x.at \in Int, x.size \in Int, y.at \in Int, y.size \in Int,
           u.at \in Int, u.size \in Int, v.at \in Int, v.size \in Int,
           Zones!Within(x, u), Zones!Within(y, v), Zones!Apart(u, v)
    PROVE  Zones!Apart(x, y)
  BY DEF Zones!Within, Zones!Apart

LEMMA WithinWithin ==
    ASSUME NEW x, NEW y, NEW z,
           x.at \in Int, x.size \in Int, y.at \in Int, y.size \in Int, z.at \in Int, z.size \in Int,
           Zones!Within(x, y), Zones!Within(y, z)
    PROVE  Zones!Within(x, z)
  BY DEF Zones!Within

-----------------------------------------------------------------------------
(* What every allocator does: it cuts what was free.                       *)

\* No block and no dynamic memory goes away.
Kept(s, t) ==
    /\ \A b \in 1..Len(s.blocks) : \E c \in 1..Len(t.blocks) : t.blocks[c] = s.blocks[b]
    /\ s.dynamicBlocks \subseteq t.dynamicBlocks

\* What is free in t comes from what is free in s.
Cut(s, t, src) ==
    /\ src \in [Zones!FreeOwners(t) -> Zones!FreeOwners(s)]
    /\ \A o \in Zones!FreeOwners(t) :
          Zones!Within(Zones!FreeSpan(t, o), Zones!FreeSpan(s, src[o]))
    /\ \A o, u \in Zones!FreeOwners(t) :
          o # u /\ src[o] = src[u] => Zones!Apart(Zones!FreeSpan(t, o), Zones!FreeSpan(t, u))

\* So does what is given to a user.
GivenFrom(s, t, src, from, x) ==
    /\ from \in Zones!FreeOwners(s)
    /\ Zones!Within(x, Zones!FreeSpan(s, from))
    /\ \A o \in Zones!FreeOwners(t) : src[o] = from => Zones!Apart(x, Zones!FreeSpan(t, o))

LEMMA SpanNumbers ==
    ASSUME NEW x \in SpanSet
    PROVE  x.at \in Nat /\ x.size \in Nat
  BY DEF SpanSet

LEMMA OwnedNumbers ==
    ASSUME NEW x \in Owned
    PROVE  x.at \in Nat /\ x.size \in Nat /\ x.size > 0 /\ x.dyn \in BOOLEAN
  BY DEF Owned

LEMMA ApartSymmetric ==
    ASSUME NEW x, NEW y, Zones!Apart(x, y)
    PROVE  Zones!Apart(y, x)
  BY DEF Zones!Apart

LEMMA InBlockKept ==
    ASSUME NEW s, NEW t, Kept(s, t), NEW x, InBlock(s, x)
    PROVE  InBlock(t, x)
  BY DEF Kept, InBlock

LEMMA InBlockWithin ==
    ASSUME NEW s, ArenaOK(s), NEW x, NEW y, x.at \in Nat, x.size \in Nat, y.at \in Nat, y.size \in Nat,
           Zones!Within(x, y), InBlock(s, y)
    PROVE  InBlock(s, x)
<1>1. PICK b \in 1..Len(s.blocks) : Zones!Within(y, Zones!BlockSpan(s.blocks[b]))
  BY DEF InBlock
<1>2. s.blocks[b].data \in Nat /\ s.blocks[b].size \in Nat
  BY ArenaFields
<1>3. Zones!Within(x, Zones!BlockSpan(s.blocks[b]))
  BY <1>1, <1>2, SMTT(30) DEF Zones!Within, Zones!BlockSpan, Zones!Span
<1>. QED  BY <1>3 DEF InBlock

LEMMA FreeCut ==
    ASSUME NEW s, NEW t, NEW src, ArenaOK(s), FreeOK(s), ArenaOK(t), Kept(s, t), Cut(s, t, src)
    PROVE  FreeOK(t)
<1>1. ASSUME NEW o \in Zones!FreeOwners(t)
      PROVE  /\ src[o] \in Zones!FreeOwners(s)
             /\ Zones!Within(Zones!FreeSpan(t, o), Zones!FreeSpan(s, src[o]))
             /\ Zones!FreeSpan(t, o).at \in Nat /\ Zones!FreeSpan(t, o).size \in Nat
             /\ Zones!FreeSpan(s, src[o]).at \in Nat /\ Zones!FreeSpan(s, src[o]).size \in Nat
  <2>1. src[o] \in Zones!FreeOwners(s)
    BY DEF Cut
  <2>2. Zones!FreeSpan(t, o) \in SpanSet /\ Zones!FreeSpan(s, src[o]) \in SpanSet
    BY <2>1, FreeSpansOK
  <2>3. Zones!Within(Zones!FreeSpan(t, o), Zones!FreeSpan(s, src[o]))
    BY DEF Cut
  <2>. QED  BY <2>1, <2>2, <2>3, SpanNumbers
<1>2. ASSUME NEW o \in Zones!FreeOwners(t)
      PROVE  InBlock(t, Zones!FreeSpan(t, o))
  <2>1. InBlock(s, Zones!FreeSpan(s, src[o]))
    BY <1>1 DEF FreeOK
  <2>2. InBlock(s, Zones!FreeSpan(t, o))
    BY <1>1, <2>1, InBlockWithin
  <2>. QED  BY <2>2, InBlockKept
<1>3. ASSUME NEW o \in Zones!FreeOwners(t), NEW u \in Zones!FreeOwners(t), o # u
      PROVE  Zones!Apart(Zones!FreeSpan(t, o), Zones!FreeSpan(t, u))
  <2>1. CASE src[o] = src[u]
    BY <1>3, <2>1 DEF Cut
  <2>2. CASE src[o] # src[u]
    <3>1. Zones!Apart(Zones!FreeSpan(s, src[o]), Zones!FreeSpan(s, src[u]))
      BY <1>1, <2>2 DEF FreeOK
    <3>. QED  BY <1>1, <3>1, WithinApart
  <2>. QED  BY <2>1, <2>2
<1>. QED  BY <1>2, <1>3 DEF FreeOK

\* The users keep what they have.
LEMMA OwnCut ==
    ASSUME NEW s, NEW t, NEW src, NEW own, ArenaOK(s), OwnOK(s, own), ArenaOK(t), Kept(s, t),
           Cut(s, t, src)
    PROVE  OwnOK(t, own)
<1>1. ASSUME NEW o \in DOMAIN own
      PROVE  IF own[o].dyn THEN InDynamic(t, own[o]) ELSE InBlock(t, own[o])
  <2>1. CASE own[o].dyn
    <3>1. InDynamic(s, own[o])
      BY <2>1 DEF OwnOK
    <3>. QED  BY <2>1, <3>1 DEF InDynamic, Kept
  <2>2. CASE ~own[o].dyn
    <3>1. InBlock(s, own[o])
      BY <2>2 DEF OwnOK
    <3>. QED  BY <2>2, <3>1, InBlockKept
  <2>. QED  BY <2>1, <2>2
<1>2. ASSUME NEW o \in DOMAIN own, NEW u \in Zones!FreeOwners(t)
      PROVE  Zones!Apart(own[o], Zones!FreeSpan(t, u))
  <2>1. src[u] \in Zones!FreeOwners(s)
    BY DEF Cut
  <2>2. Zones!Within(Zones!FreeSpan(t, u), Zones!FreeSpan(s, src[u]))
    BY DEF Cut
  <2>3. Zones!FreeSpan(t, u) \in SpanSet /\ Zones!FreeSpan(s, src[u]) \in SpanSet
    BY <2>1, FreeSpansOK
  <2>4. own[o] \in Owned /\ Zones!Apart(own[o], Zones!FreeSpan(s, src[u]))
    BY <2>1 DEF OwnOK
  <2>5. /\ own[o].at \in Nat /\ own[o].size \in Nat
        /\ Zones!FreeSpan(t, u).at \in Nat /\ Zones!FreeSpan(t, u).size \in Nat
        /\ Zones!FreeSpan(s, src[u]).at \in Nat /\ Zones!FreeSpan(s, src[u]).size \in Nat
    BY <2>3, <2>4, SpanNumbers, OwnedNumbers
  <2>. QED  BY <2>2, <2>4, <2>5 DEF Zones!Within, Zones!Apart
<1>3. /\ own \in [DOMAIN own -> Owned]
      /\ \A o \in DOMAIN own : o[1] \notin {"rest", "slot", "block"}
      /\ \A o, u \in DOMAIN own : o # u => Zones!Apart(own[o], own[u])
  BY DEF OwnOK
<1>. QED  BY <1>1, <1>2, <1>3 DEF OwnOK

\* Another owner is added whose memory is apart from that of the others.
LEMMA OwnExtended ==
    ASSUME NEW s, NEW own, OwnOK(s, own), NEW new, new[1] \notin {"rest", "slot", "block"},
           new \notin DOMAIN own, NEW x \in Owned,
           IF x.dyn THEN InDynamic(s, x) ELSE InBlock(s, x),
           \A o \in DOMAIN own : Zones!Apart(own[o], x),
           \A u \in Zones!FreeOwners(s) : Zones!Apart(x, Zones!FreeSpan(s, u))
    PROVE  OwnOK(s, Extend(own, new, x))
<1>. DEFINE more == Extend(own, new, x)
<1>1. /\ DOMAIN more = DOMAIN own \cup {new}
      /\ more[new] = x /\ \A o \in DOMAIN own : more[o] = own[o]
      /\ more = [o \in DOMAIN more |-> more[o]]
  BY DEF Extend
<1>2. /\ \A o \in DOMAIN own : own[o] \in Owned
      /\ \A o \in DOMAIN own : o[1] \notin {"rest", "slot", "block"}
      /\ \A o \in DOMAIN own : IF own[o].dyn THEN InDynamic(s, own[o]) ELSE InBlock(s, own[o])
      /\ \A o, u \in DOMAIN own : o # u => Zones!Apart(own[o], own[u])
      /\ \A o \in DOMAIN own, u \in Zones!FreeOwners(s) : Zones!Apart(own[o], Zones!FreeSpan(s, u))
  BY DEF OwnOK
<1>. HIDE DEF more
<1>3. \A o \in DOMAIN more : more[o] \in Owned
  BY <1>1, <1>2
<1>4. more \in [DOMAIN more -> Owned]
  BY <1>1, <1>3
<1>5. \A o \in DOMAIN more : o[1] \notin {"rest", "slot", "block"}
  BY <1>1, <1>2
<1>6. \A o \in DOMAIN more : IF more[o].dyn THEN InDynamic(s, more[o]) ELSE InBlock(s, more[o])
  BY <1>1, <1>2
<1>7. \A o, u \in DOMAIN more : o # u => Zones!Apart(more[o], more[u])
  BY <1>1, <1>2, ApartSymmetric
<1>8. \A o \in DOMAIN more, u \in Zones!FreeOwners(s) : Zones!Apart(more[o], Zones!FreeSpan(s, u))
  BY <1>1, <1>2
<1>9. OwnOK(s, more)
  BY <1>4, <1>5, <1>6, <1>7, <1>8 DEF OwnOK
<1>. QED  BY <1>9 DEF more

\* A user gets what was free.
LEMMA OwnGiven ==
    ASSUME NEW s, NEW t, NEW src, NEW own, ArenaOK(s), FreeOK(s), OwnOK(s, own), ArenaOK(t), Kept(s, t),
           Cut(s, t, src), NEW new, new[1] \notin {"rest", "slot", "block"}, new \notin DOMAIN own,
           NEW x \in Owned, ~x.dyn, NEW from, GivenFrom(s, t, src, from, x)
    PROVE  OwnOK(t, Extend(own, new, x))
<1>1. OwnOK(t, own)
  BY OwnCut
<1>2. /\ from \in Zones!FreeOwners(s) /\ Zones!Within(x, Zones!FreeSpan(s, from))
  BY DEF GivenFrom
<1>3. /\ x.at \in Nat /\ x.size \in Nat
      /\ Zones!FreeSpan(s, from).at \in Nat /\ Zones!FreeSpan(s, from).size \in Nat
  BY <1>2, FreeSpansOK, SpanNumbers, OwnedNumbers
<1>4. InBlock(t, x)
  <2>1. InBlock(s, Zones!FreeSpan(s, from))
    BY <1>2 DEF FreeOK
  <2>2. InBlock(s, x)
    BY <1>2, <1>3, <2>1, InBlockWithin
  <2>. QED  BY <2>2, InBlockKept
<1>5. ASSUME NEW o \in DOMAIN own
      PROVE  Zones!Apart(own[o], x)
  <2>1. own[o] \in Owned /\ Zones!Apart(own[o], Zones!FreeSpan(s, from))
    BY <1>2 DEF OwnOK
  <2>2. own[o].at \in Nat /\ own[o].size \in Nat
    BY <2>1, OwnedNumbers
  <2>. QED  BY <1>2, <1>3, <2>1, <2>2 DEF Zones!Within, Zones!Apart
<1>6. ASSUME NEW u \in Zones!FreeOwners(t)
      PROVE  Zones!Apart(x, Zones!FreeSpan(t, u))
  <2>1. src[u] \in Zones!FreeOwners(s) /\ Zones!Within(Zones!FreeSpan(t, u), Zones!FreeSpan(s, src[u]))
    BY DEF Cut
  <2>2. /\ Zones!FreeSpan(t, u).at \in Nat /\ Zones!FreeSpan(t, u).size \in Nat
        /\ Zones!FreeSpan(s, src[u]).at \in Nat /\ Zones!FreeSpan(s, src[u]).size \in Nat
    BY <2>1, FreeSpansOK, SpanNumbers
  <2>3. CASE src[u] = from
    BY <2>3 DEF GivenFrom
  <2>4. CASE src[u] # from
    <3>1. Zones!Apart(Zones!FreeSpan(s, from), Zones!FreeSpan(s, src[u]))
      BY <1>2, <2>1, <2>4 DEF FreeOK
    <3>. QED  BY <1>2, <1>3, <2>1, <2>2, <3>1, WithinApart
  <2>. QED  BY <2>3, <2>4
<1>. QED  BY <1>1, <1>4, <1>5, <1>6, OwnExtended

Chunk(at, size) == [at |-> at, size |-> size, dyn |-> FALSE]

Cuts(s, t)     == ArenaOK(t) /\ Kept(s, t) /\ \E src : Cut(s, t, src)
Gives(s, t, x) == ArenaOK(t) /\ Kept(s, t) /\ \E src, from : Cut(s, t, src) /\ GivenFrom(s, t, src, from, x)

UserOwner(o) == o[1] \notin {"rest", "slot", "block"}

LEMMA GoodCut ==
    ASSUME NEW s, NEW own, Good(s, own), NEW t, Cuts(s, t)
    PROVE  Good(t, own)
<1>1. PICK src : Cut(s, t, src)
  BY DEF Cuts
<1>2. ArenaOK(s) /\ FreeOK(s) /\ OwnOK(s, own) /\ ArenaOK(t) /\ Kept(s, t)
  BY DEF Good, Cuts
<1>. QED  BY <1>1, <1>2, FreeCut, OwnCut DEF Good

LEMMA GoodGiven ==
    ASSUME NEW s, NEW own, Good(s, own), NEW t, NEW at \in Nat, NEW size \in Nat \ {0},
           Gives(s, t, Chunk(at, size)), NEW new, UserOwner(new), new \notin DOMAIN own
    PROVE  Good(t, own) /\ Good(t, Extend(own, new, Chunk(at, size)))
<1>1. PICK src, from : Cut(s, t, src) /\ GivenFrom(s, t, src, from, Chunk(at, size))
  BY DEF Gives
<1>2. ArenaOK(s) /\ FreeOK(s) /\ OwnOK(s, own) /\ ArenaOK(t) /\ Kept(s, t)
  BY DEF Good, Gives
<1>3. Chunk(at, size) \in Owned /\ ~Chunk(at, size).dyn
  BY DEF Chunk, Owned
<1>4. FreeOK(t) /\ OwnOK(t, own)
  BY <1>1, <1>2, FreeCut, OwnCut
<1>5. OwnOK(t, Extend(own, new, Chunk(at, size)))
  BY <1>1, <1>2, <1>3, OwnGiven DEF UserOwner
<1>. QED  BY <1>2, <1>4, <1>5 DEF Good

-----------------------------------------------------------------------------
(* Each allocator.                                                         *)

SameHeap(s, t) == t.slots = s.slots /\ t.dynamicBlocks = s.dynamicBlocks

\* What is given is taken from the rest of the current block.
LEMMA Advanced ==
    ASSUME NEW s, ArenaOK(s), NEW t \in ArenaState, t.blocks = s.blocks, t.block = s.block,
           t.end = s.end, SameHeap(s, t), s.block # 0,
           NEW at \in Nat, NEW size \in Nat, s.ptr <= at, t.ptr = at + size, t.ptr <= s.end
    PROVE  Gives(s, t, Chunk(at, size))
<1>. DEFINE rest == <<"rest", 0, 0>>
            src  == [o \in Zones!FreeOwners(t) |-> o]
<1>1. /\ s.ptr \in Nat /\ s.end \in Nat /\ s.block > 0 /\ s.ptr <= s.end
      /\ s.blocks[s.block].data <= s.ptr
  BY ArenaFields DEF ArenaOK
<1>2. t.ptr \in Nat
  BY DEF ArenaState
<1>3. ArenaOK(t)
  <2>1. s.blocks[s.block].data <= t.ptr
    <3>1. s.block \in 1..Len(s.blocks) /\ s.blocks[s.block].data \in Nat
      BY ONLY ArenaOK(s), s.block # 0, ArenaFields
    <3>. QED  BY ONLY <3>1, <1>1, at \in Nat, size \in Nat, s.ptr <= at, t.ptr = at + size
  <2>2. /\ s.block <= Len(s.blocks)
        /\ s.end = s.blocks[s.block].data + s.blocks[s.block].size
        /\ \A b, c \in 1..Len(s.blocks) :
              b # c => Zones!Apart(Zones!BlockSpan(s.blocks[b]), Zones!BlockSpan(s.blocks[c]))
    BY ONLY ArenaOK(s), <1>1 DEF ArenaOK
  <2>. QED
    BY ONLY <2>1, <2>2, s.block # 0, t \in ArenaState, t.blocks = s.blocks, t.block = s.block,
            t.end = s.end, t.ptr <= s.end DEF ArenaOK
<1>4. Kept(s, t)
  BY DEF Kept, SameHeap
<1>5. Zones!FreeOwners(t) = Zones!FreeOwners(s)
  BY DEF Zones!FreeOwners, SameHeap
<1>6. rest \in Zones!FreeOwners(s)
  BY FreeOwnersAre
<1>7. /\ Zones!FreeSpan(s, rest) = Zones!Span(s.ptr, s.end - s.ptr)
      /\ Zones!FreeSpan(t, rest) = Zones!Span(t.ptr, s.end - t.ptr)
  BY RestSpan
<1>8. ASSUME NEW o \in Zones!FreeOwners(s), o # rest
      PROVE  Zones!FreeSpan(t, o) = Zones!FreeSpan(s, o)
  <2>1. ASSUME NEW k \in Zones!Slots, NEW i \in 1..Len(s.slots[k]), o = <<"slot", k, i>>
        PROVE  Zones!FreeSpan(t, o) = Zones!FreeSpan(s, o)
    BY <2>1, SlotSpan DEF SameHeap
  <2>2. ASSUME NEW b \in s.block + 1..Len(s.blocks), o = <<"block", b, 0>>
        PROVE  Zones!FreeSpan(t, o) = Zones!FreeSpan(s, o)
    BY <2>2, UnusedSpan
  <2>. QED  BY <1>8, <2>1, <2>2, FreeOwnersAre
<1>9. ASSUME NEW o \in Zones!FreeOwners(s)
      PROVE  Zones!Within(Zones!FreeSpan(t, o), Zones!FreeSpan(s, o))
  <2>1. CASE o = rest
    <3>1. Zones!Within(Zones!Span(t.ptr, s.end - t.ptr), Zones!Span(s.ptr, s.end - s.ptr))
      BY <1>1, <1>2 DEF Zones!Within, Zones!Span
    <3>. QED  BY <1>7, <2>1, <3>1
  <2>2. CASE o # rest
    <3>1. Zones!FreeSpan(s, o) \in SpanSet
      BY FreeSpansOK
    <3>2. Zones!FreeSpan(s, o).at \in Nat /\ Zones!FreeSpan(s, o).size \in Nat
      BY <3>1, SpanNumbers
    <3>. QED  BY <1>8, <2>2, <3>2 DEF Zones!Within
  <2>. QED  BY <2>1, <2>2
<1>10. Cut(s, t, src)
  BY <1>5, <1>9 DEF Cut
<1>11. GivenFrom(s, t, src, rest, Chunk(at, size))
  <2>1. Zones!Within(Chunk(at, size), Zones!Span(s.ptr, s.end - s.ptr))
    BY <1>1, <1>2 DEF Zones!Within, Zones!Span, Chunk
  <2>2. Zones!Apart(Chunk(at, size), Zones!Span(t.ptr, s.end - t.ptr))
    BY <1>1, <1>2 DEF Zones!Apart, Zones!Span, Chunk
  <2>3. \A o \in Zones!FreeOwners(t) : src[o] = rest => o = rest
    OBVIOUS
  <2>. HIDE DEF rest, src
  <2>. QED  BY <1>6, <1>7, <2>1, <2>2, <2>3 DEF GivenFrom
<1>. QED  BY <1>3, <1>4, <1>10, <1>11 DEF Gives

\* What is given is the beginning of the next block.
LEMMA NextUsed ==
    ASSUME NEW s, ArenaOK(s), NEW t \in ArenaState, t.blocks = s.blocks, t.block = s.block + 1,
           t.block <= Len(s.blocks), SameHeap(s, t), NEW size \in Nat,
           size <= s.blocks[t.block].size, t.ptr = s.blocks[t.block].data + size,
           t.end = s.blocks[t.block].data + s.blocks[t.block].size
    PROVE  Gives(s, t, Chunk(s.blocks[t.block].data, size))
<1>. DEFINE rest == <<"rest", 0, 0>>
            next == <<"block", t.block, 0>>
            src  == [o \in Zones!FreeOwners(t) |-> IF o = rest THEN next ELSE o]
<1>1. /\ s.block \in Nat /\ t.block \in 1..Len(s.blocks) /\ Len(s.blocks) \in Nat
      /\ s.blocks[t.block].data \in Nat /\ s.blocks[t.block].size \in Nat
      /\ t.block > s.block
  <2>1. s.block \in Nat /\ Len(s.blocks) \in Nat /\ t.block \in Nat
    BY ArenaFields
  <2>2. t.block \in 1..Len(s.blocks)
    BY <2>1
  <2>. QED  BY <2>1, <2>2, ArenaFields
<1>2. ArenaOK(t)
  <2>1. t.block # 0 /\ s.blocks[t.block].data <= t.ptr /\ t.ptr <= t.end
    BY <1>1
  <2>2. \A b, c \in 1..Len(s.blocks) :
           b # c => Zones!Apart(Zones!BlockSpan(s.blocks[b]), Zones!BlockSpan(s.blocks[c]))
    BY DEF ArenaOK
  <2>. QED  BY <2>1, <2>2 DEF ArenaOK
<1>3. Kept(s, t)
  BY DEF Kept, SameHeap
<1>4. next \in Zones!FreeOwners(s)
  <2>1. t.block \in s.block + 1..Len(s.blocks)
    BY <1>1
  <2>. QED  BY <2>1, FreeOwnersAre
<1>5. /\ Zones!FreeSpan(s, next) = Zones!Span(s.blocks[t.block].data, s.blocks[t.block].size)
      /\ Zones!FreeSpan(t, rest) = Zones!Span(t.ptr, t.end - t.ptr)
  BY RestSpan, UnusedSpan DEF Zones!BlockSpan
<1>6. ASSUME NEW o \in Zones!FreeOwners(t), o # rest
      PROVE  /\ o \in Zones!FreeOwners(s) /\ o # next
             /\ Zones!FreeSpan(t, o) = Zones!FreeSpan(s, o)
  <2>1. ASSUME NEW k \in Zones!Slots, NEW i \in 1..Len(t.slots[k]), o = <<"slot", k, i>>
        PROVE  /\ o \in Zones!FreeOwners(s) /\ o # next
               /\ Zones!FreeSpan(t, o) = Zones!FreeSpan(s, o)
    <3>1. i \in 1..Len(s.slots[k]) /\ t.slots = s.slots
      BY DEF SameHeap
    <3>2. o \in Zones!FreeOwners(s)
      BY <2>1, <3>1, FreeOwnersAre
    <3>3. Zones!FreeSpan(t, o) = Zones!FreeSpan(s, o)
      BY <2>1, <3>1, SlotSpan
    <3>. QED  BY <2>1, <3>2, <3>3
  <2>2. ASSUME NEW b \in t.block + 1..Len(t.blocks), o = <<"block", b, 0>>
        PROVE  /\ o \in Zones!FreeOwners(s) /\ o # next
               /\ Zones!FreeSpan(t, o) = Zones!FreeSpan(s, o)
    <3>1. b \in s.block + 1..Len(s.blocks) /\ b # t.block
      BY <1>1
    <3>2. o \in Zones!FreeOwners(s)
      BY <2>2, <3>1, FreeOwnersAre
    <3>3. Zones!FreeSpan(t, o) = Zones!FreeSpan(s, o)
      BY <2>2, UnusedSpan
    <3>. QED  BY <2>2, <3>1, <3>2, <3>3
  <2>. QED  BY <1>6, <2>1, <2>2, FreeOwnersAre
<1>7. Zones!Within(Zones!FreeSpan(t, rest), Zones!FreeSpan(s, next))
  <2>1. Zones!Within(Zones!Span(t.ptr, t.end - t.ptr),
                     Zones!Span(s.blocks[t.block].data, s.blocks[t.block].size))
    BY <1>1, SMTT(30) DEF Zones!Within, Zones!Span
  <2>. QED  BY <1>5, <2>1
<1>8. Cut(s, t, src)
  <2>1. src \in [Zones!FreeOwners(t) -> Zones!FreeOwners(s)]
    BY <1>4, <1>6
  <2>2. ASSUME NEW o \in Zones!FreeOwners(t)
        PROVE  Zones!Within(Zones!FreeSpan(t, o), Zones!FreeSpan(s, src[o]))
    <3>1. CASE o = rest
      BY <1>7, <3>1
    <3>2. CASE o # rest
      <4>1. src[o] = o /\ Zones!FreeSpan(t, o) = Zones!FreeSpan(s, o)
        BY <1>6, <3>2
      <4>2. Zones!FreeSpan(s, o).at \in Nat /\ Zones!FreeSpan(s, o).size \in Nat
        BY <1>6, <3>2, FreeSpansOK, SpanNumbers
      <4>. QED  BY <4>1, <4>2 DEF Zones!Within
    <3>. QED  BY <3>1, <3>2
  <2>3. \A o, u \in Zones!FreeOwners(t) : src[o] = src[u] => o = u
    BY <1>6
  <2>. QED  BY <2>1, <2>2, <2>3 DEF Cut
<1>9. GivenFrom(s, t, src, next, Chunk(s.blocks[t.block].data, size))
  <2>1. Zones!Within(Chunk(s.blocks[t.block].data, size),
                     Zones!Span(s.blocks[t.block].data, s.blocks[t.block].size))
    BY <1>1 DEF Zones!Within, Zones!Span, Chunk
  <2>2. Zones!Apart(Chunk(s.blocks[t.block].data, size), Zones!Span(t.ptr, t.end - t.ptr))
    BY <1>1 DEF Zones!Apart, Zones!Span, Chunk
  <2>3. \A o \in Zones!FreeOwners(t) : src[o] = next => o = rest
    BY <1>6
  <2>. HIDE DEF rest, next, src
  <2>. QED  BY <1>4, <1>5, <2>1, <2>2, <2>3 DEF GivenFrom
<1>. QED  BY <1>2, <1>3, <1>8, <1>9 DEF Gives

\* What is given is the first chunk of a slot.
LEMMA Popped ==
    ASSUME NEW s, ArenaOK(s), NEW t \in ArenaState, t.blocks = s.blocks, t.block = s.block,
           t.ptr = s.ptr, t.end = s.end, t.dynamicBlocks = s.dynamicBlocks,
           NEW k \in Zones!Slots, s.slots[k] # << >>, t.slots = [s.slots EXCEPT ![k] = Tail(s.slots[k])],
           NEW size \in Nat, size <= Zones!SlotSize(k)
    PROVE  Head(s.slots[k]) \in Nat /\ Gives(s, t, Chunk(Head(s.slots[k]), size))
<1>. DEFINE from == <<"slot", k, 1>>
            src  == [o \in Zones!FreeOwners(t) |->
                        IF o[1] = "slot" /\ o[2] = k THEN <<"slot", k, o[3] + 1>> ELSE o]
<1>1. /\ s.slots[k] \in Seq(Nat) /\ Len(s.slots[k]) \in Nat
      /\ s.slots \in [Zones!Slots -> Seq(Nat)]
  BY ArenaFields
<1>2. /\ Len(s.slots[k]) >= 1 /\ Len(t.slots[k]) = Len(s.slots[k]) - 1
      /\ Head(s.slots[k]) = s.slots[k][1] /\ s.slots[k][1] \in Nat
      /\ \A i \in 1..Len(t.slots[k]) : t.slots[k][i] = s.slots[k][i + 1]
  <2>1. t.slots[k] = Tail(s.slots[k])
    BY <1>1
  <2>2. /\ Len(Tail(s.slots[k])) = Len(s.slots[k]) - 1
        /\ \A i \in 1..Len(Tail(s.slots[k])) : Tail(s.slots[k])[i] = s.slots[k][i + 1]
    BY <1>1, HeadTailProperties
  <2>3. Len(s.slots[k]) # 0
    BY <1>1, EmptySeq
  <2>4. Head(s.slots[k]) = s.slots[k][1]
    BY <1>1
  <2>5. 1 \in 1..Len(s.slots[k])
    BY <1>1, <2>3
  <2>6. s.slots[k][1] \in Nat
    BY <1>1, <2>5, ElementOfSeq
  <2>. QED  BY <1>1, <2>1, <2>2, <2>3, <2>4, <2>6
<1>3. \A l \in Zones!Slots : l # k => t.slots[l] = s.slots[l]
  BY <1>1
<1>4. ArenaOK(t)
  BY ArenaFields DEF ArenaOK
<1>5. Kept(s, t)
  BY DEF Kept
<1>6. from \in Zones!FreeOwners(s) /\ Zones!FreeSpan(s, from) = Zones!Span(s.slots[k][1], Zones!SlotSize(k))
  <2>1. 1 \in 1..Len(s.slots[k])
    BY <1>1, <1>2
  <2>. QED  BY <2>1, FreeOwnersAre, SlotSpan
<1>7. ASSUME NEW o \in Zones!FreeOwners(t)
      PROVE  /\ src[o] \in Zones!FreeOwners(s) /\ src[o] # from
             /\ Zones!FreeSpan(t, o) = Zones!FreeSpan(s, src[o])
  <2>1. CASE s.block # 0 /\ o = <<"rest", 0, 0>>
    <3>1. src[o] = o /\ o # from
      BY <2>1
    <3>2. o \in Zones!FreeOwners(s)
      BY <2>1, FreeOwnersAre
    <3>3. Zones!FreeSpan(t, o) = Zones!FreeSpan(s, o)
      BY <2>1, RestSpan
    <3>. QED  BY <3>1, <3>2, <3>3
  <2>2. ASSUME NEW i \in 1..Len(t.slots[k]), o = <<"slot", k, i>>
        PROVE  /\ src[o] \in Zones!FreeOwners(s) /\ src[o] # from
               /\ Zones!FreeSpan(t, o) = Zones!FreeSpan(s, src[o])
    <3>1. src[o] = <<"slot", k, i + 1>>
      BY <2>2
    <3>5. i + 1 # 1 /\ i + 1 \in 1..Len(s.slots[k])
      BY <1>1, <1>2, SMTT(30)
    <3>2. src[o] \in Zones!FreeOwners(s)
      BY <3>1, <3>5, FreeOwnersAre
    <3>3. t.slots[k][i] = s.slots[k][i + 1]
      BY <1>2
    <3>8. Zones!FreeSpan(t, <<"slot", k, i>>) = Zones!Span(t.slots[k][i], Zones!SlotSize(k))
      BY ONLY SlotSpan
    <3>4. Zones!FreeSpan(t, o) = Zones!Span(t.slots[k][i], Zones!SlotSize(k))
      BY <2>2, <3>8
    <3>6. Zones!FreeSpan(s, src[o]) = Zones!Span(s.slots[k][i + 1], Zones!SlotSize(k))
      BY <3>1, SlotSpan
    <3>7. src[o] # from
      BY <3>1, <3>5
    <3>. QED  BY <3>2, <3>3, <3>4, <3>6, <3>7
  <2>3. ASSUME NEW l \in Zones!Slots, NEW i \in 1..Len(t.slots[l]), o = <<"slot", l, i>>, l # k
        PROVE  /\ src[o] \in Zones!FreeOwners(s) /\ src[o] # from
               /\ Zones!FreeSpan(t, o) = Zones!FreeSpan(s, src[o])
    <3>1. src[o] = o /\ o # from
      BY <2>3
    <3>2. t.slots[l] = s.slots[l]
      BY <1>3, <2>3
    <3>3. o \in Zones!FreeOwners(s)
      BY <2>3, <3>2, FreeOwnersAre
    <3>6. Zones!FreeSpan(t, <<"slot", l, i>>) = Zones!Span(t.slots[l][i], Zones!SlotSize(l))
      BY ONLY SlotSpan
    <3>4. Zones!FreeSpan(t, o) = Zones!Span(t.slots[l][i], Zones!SlotSize(l))
      BY <2>3, <3>6
    <3>5. Zones!FreeSpan(s, o) = Zones!Span(s.slots[l][i], Zones!SlotSize(l))
      BY <2>3, SlotSpan
    <3>. QED  BY <3>1, <3>2, <3>3, <3>4, <3>5
  <2>4. ASSUME NEW b \in s.block + 1..Len(s.blocks), o = <<"block", b, 0>>
        PROVE  /\ src[o] \in Zones!FreeOwners(s) /\ src[o] # from
               /\ Zones!FreeSpan(t, o) = Zones!FreeSpan(s, src[o])
    <3>1. src[o] = o /\ o # from
      BY <2>4
    <3>2. o \in Zones!FreeOwners(s)
      BY <2>4, FreeOwnersAre
    <3>3. Zones!FreeSpan(t, o) = Zones!FreeSpan(s, o)
      BY <2>4, UnusedSpan
    <3>. QED  BY <3>1, <3>2, <3>3
  <2>. HIDE DEF src, from
  <2>5. \/ t.block # 0 /\ o = <<"rest", 0, 0>>
        \/ \E l \in Zones!Slots : \E i \in 1..Len(t.slots[l]) : o = <<"slot", l, i>>
        \/ \E b \in t.block + 1..Len(t.blocks) : o = <<"block", b, 0>>
    BY ONLY o \in Zones!FreeOwners(t), FreeOwnersAre
  <2>6. ASSUME NEW l \in Zones!Slots, NEW i \in 1..Len(t.slots[l]), o = <<"slot", l, i>>
        PROVE  /\ src[o] \in Zones!FreeOwners(s) /\ src[o] # from
               /\ Zones!FreeSpan(t, o) = Zones!FreeSpan(s, src[o])
    BY <2>2, <2>3, <2>6
  <2>. QED  BY <2>1, <2>4, <2>5, <2>6
<1>8. ASSUME NEW o \in Zones!FreeOwners(t), NEW u \in Zones!FreeOwners(t), src[o] = src[u]
      PROVE  o = u
  <2>1. ASSUME NEW v \in Zones!FreeOwners(t)
        PROVE  \/ /\ v[1] = "slot" /\ v[2] = k /\ v[3] \in Nat /\ v = <<"slot", k, v[3]>>
                  /\ src[v] = <<"slot", k, v[3] + 1>>
               \/ ~(v[1] = "slot" /\ v[2] = k) /\ src[v] = v
    <3>1. ASSUME NEW l \in Zones!Slots, NEW i \in 1..Len(t.slots[l]), v = <<"slot", l, i>>
          PROVE  v[3] \in Nat /\ v = <<"slot", v[2], v[3]>>
      BY <3>1
    <3>. QED  BY <3>1, FreeOwnersAre
  <2>. HIDE DEF src
  <2>. QED  BY <1>8, <2>1, SMTT(30)
<1>9. Cut(s, t, src)
  <2>1. src \in [Zones!FreeOwners(t) -> Zones!FreeOwners(s)]
    BY <1>7
  <2>2. ASSUME NEW o \in Zones!FreeOwners(t)
        PROVE  Zones!Within(Zones!FreeSpan(t, o), Zones!FreeSpan(s, src[o]))
    <3>1. Zones!FreeSpan(s, src[o]).at \in Nat /\ Zones!FreeSpan(s, src[o]).size \in Nat
      BY <1>7, FreeSpansOK, SpanNumbers
    <3>. QED  BY <1>7, <3>1 DEF Zones!Within
  <2>. HIDE DEF src
  <2>. QED  BY <1>8, <2>1, <2>2 DEF Cut
<1>10. GivenFrom(s, t, src, from, Chunk(Head(s.slots[k]), size))
  <2>1. Zones!SlotSize(k) \in Nat
    BY SlotSizes
  <2>2. Zones!Within(Chunk(Head(s.slots[k]), size), Zones!Span(s.slots[k][1], Zones!SlotSize(k)))
    BY <1>2, <2>1 DEF Zones!Within, Zones!Span, Chunk
  <2>. HIDE DEF src, from
  <2>. QED  BY <1>6, <1>7, <2>2 DEF GivenFrom
<1>. QED  BY <1>2, <1>4, <1>5, <1>9, <1>10 DEF Gives

\* The beginning of the rest of the current block goes to a slot, in one or more chunks.
LEMMA Carved ==
    ASSUME NEW s, ArenaOK(s), NEW t \in ArenaState, t.blocks = s.blocks, t.block = s.block,
           t.end = s.end, t.dynamicBlocks = s.dynamicBlocks, s.block # 0,
           NEW k \in Zones!Slots, NEW new \in Seq(Nat),
           t.slots = [s.slots EXCEPT ![k] = new \o s.slots[k]],
           s.ptr <= t.ptr, t.ptr <= s.end,
           \A i \in 1..Len(new) : s.ptr <= new[i] /\ new[i] + Zones!SlotSize(k) <= t.ptr,
           \A i, j \in 1..Len(new) : i # j => \/ new[i] + Zones!SlotSize(k) <= new[j]
                                              \/ new[j] + Zones!SlotSize(k) <= new[i]
    PROVE  Cuts(s, t)
<1>. DEFINE rest == <<"rest", 0, 0>>
            n    == Len(new)
            src  == [o \in Zones!FreeOwners(t) |->
                        IF o[1] = "slot" /\ o[2] = k
                        THEN IF o[3] <= n THEN rest ELSE <<"slot", k, o[3] - n>> ELSE o]
            chunk(i) == <<"slot", k, i>>
<1>1. /\ s.slots[k] \in Seq(Nat) /\ Len(s.slots[k]) \in Nat /\ n \in Nat
      /\ s.slots \in [Zones!Slots -> Seq(Nat)]
      /\ s.ptr \in Nat /\ s.end \in Nat /\ s.block > 0 /\ s.blocks[s.block].data <= s.ptr
  <2>1. n \in Nat
    BY LenProperties
  <2>2. s.block > 0 /\ s.blocks[s.block].data <= s.ptr
    BY ArenaFields DEF ArenaOK
  <2>. HIDE DEF n
  <2>. QED  BY <2>1, <2>2, ArenaFields
<1>2. t.ptr \in Nat /\ Zones!SlotSize(k) \in Nat
  BY SlotSizes DEF ArenaState
<1>3. /\ Len(t.slots[k]) = n + Len(s.slots[k])
      /\ \A i \in 1..n : t.slots[k][i] = new[i]
      /\ \A i \in n + 1..n + Len(s.slots[k]) : t.slots[k][i] = s.slots[k][i - n]
  <2>1. t.slots[k] = new \o s.slots[k]
    BY <1>1
  <2>2. /\ Len(new \o s.slots[k]) = n + Len(s.slots[k])
        /\ \A i \in 1..n + Len(s.slots[k]) :
              (new \o s.slots[k])[i] = IF i <= n THEN new[i] ELSE s.slots[k][i - n]
    BY <1>1, ConcatProperties
  <2>. HIDE DEF n
  <2>. QED  BY <1>1, <2>1, <2>2
<1>4. \A l \in Zones!Slots : l # k => t.slots[l] = s.slots[l]
  BY <1>1
<1>5. ArenaOK(t)
  <2>1. \A b, c \in 1..Len(s.blocks) :
           b # c => Zones!Apart(Zones!BlockSpan(s.blocks[b]), Zones!BlockSpan(s.blocks[c]))
    BY DEF ArenaOK
  <2>2. s.blocks[t.block].data <= t.ptr
    BY <1>1, <1>2, ArenaFields, SMTT(30)
  <2>3. s.block <= Len(s.blocks) /\ s.end = s.blocks[s.block].data + s.blocks[s.block].size
    BY <1>1 DEF ArenaOK
  <2>. QED  BY <1>1, <2>1, <2>2, <2>3 DEF ArenaOK
<1>6. Kept(s, t)
  BY DEF Kept
<1>7. /\ rest \in Zones!FreeOwners(s)
      /\ Zones!FreeSpan(s, rest) = Zones!Span(s.ptr, s.end - s.ptr)
      /\ Zones!FreeSpan(t, rest) = Zones!Span(t.ptr, s.end - t.ptr)
  BY FreeOwnersAre, RestSpan
<1>8. ASSUME NEW v \in Zones!FreeOwners(t)
      PROVE  \/ v = rest /\ src[v] = rest
             \/ \E i \in 1..n : v = chunk(i) /\ src[v] = rest
                                /\ Zones!FreeSpan(t, v) = Zones!Span(new[i], Zones!SlotSize(k))
             \/ /\ src[v] \in Zones!FreeOwners(s) /\ src[v] # rest
                /\ Zones!FreeSpan(t, v) = Zones!FreeSpan(s, src[v])
                /\ \/ \E i \in 1..Len(s.slots[k]) : v = chunk(i + n) /\ src[v] = chunk(i)
                   \/ v = src[v] /\ (v[1] # "slot" \/ v[2] # k)
  <2>1. CASE v = rest
    BY <2>1
  <2>2. ASSUME NEW i \in 1..n, v = chunk(i)
        PROVE  src[v] = rest /\ Zones!FreeSpan(t, v) = Zones!Span(new[i], Zones!SlotSize(k))
    <3>1. src[v] = rest
      BY <2>2
    <3>2. Zones!FreeSpan(t, <<"slot", k, i>>) = Zones!Span(t.slots[k][i], Zones!SlotSize(k))
      BY ONLY SlotSpan
    <3>3. t.slots[k][i] = new[i]
      BY <1>3
    <3>. QED  BY <2>2, <3>1, <3>2, <3>3
  <2>3. ASSUME NEW i \in 1..Len(s.slots[k]), v = chunk(i + n)
        PROVE  /\ src[v] \in Zones!FreeOwners(s) /\ src[v] # rest
               /\ Zones!FreeSpan(t, v) = Zones!FreeSpan(s, src[v])
               /\ src[v] = chunk(i)
    <3>. HIDE DEF n
    <3>1. ~(i + n <= n) /\ (i + n) - n = i
      BY <1>1
    <3>2. src[v] = chunk(i)
      BY <2>3, <3>1
    <3>3. Zones!FreeSpan(t, <<"slot", k, i + n>>) = Zones!Span(t.slots[k][i + n], Zones!SlotSize(k))
      BY ONLY SlotSpan
    <3>4. Zones!FreeSpan(s, <<"slot", k, i>>) = Zones!Span(s.slots[k][i], Zones!SlotSize(k))
      BY ONLY SlotSpan
    <3>5. t.slots[k][i + n] = s.slots[k][i]
      BY <1>1, <1>3, <3>1, SMTT(30)
    <3>6. chunk(i) \in Zones!FreeOwners(s)
      BY FreeOwnersAre
    <3>. QED  BY <2>3, <3>2, <3>3, <3>4, <3>5, <3>6
  <2>4. ASSUME NEW l \in Zones!Slots, NEW i \in 1..Len(t.slots[l]), v = <<"slot", l, i>>, l # k
        PROVE  /\ src[v] \in Zones!FreeOwners(s) /\ src[v] # rest
               /\ Zones!FreeSpan(t, v) = Zones!FreeSpan(s, src[v])
               /\ v = src[v] /\ v[2] # k
    <3>1. src[v] = v /\ v # rest /\ v[2] # k
      BY <2>4
    <3>2. t.slots[l] = s.slots[l]
      BY <1>4, <2>4
    <3>3. v \in Zones!FreeOwners(s)
      BY <2>4, <3>2, FreeOwnersAre
    <3>4. Zones!FreeSpan(t, <<"slot", l, i>>) = Zones!Span(t.slots[l][i], Zones!SlotSize(l))
      BY ONLY SlotSpan
    <3>5. Zones!FreeSpan(s, <<"slot", l, i>>) = Zones!Span(s.slots[l][i], Zones!SlotSize(l))
      BY ONLY SlotSpan
    <3>. QED  BY <2>4, <3>1, <3>2, <3>3, <3>4, <3>5
  <2>5. ASSUME NEW b \in s.block + 1..Len(s.blocks), v = <<"block", b, 0>>
        PROVE  /\ src[v] \in Zones!FreeOwners(s) /\ src[v] # rest
               /\ Zones!FreeSpan(t, v) = Zones!FreeSpan(s, src[v])
               /\ v = src[v] /\ v[1] # "slot"
    <3>1. src[v] = v /\ v # rest /\ v[1] # "slot"
      BY <2>5
    <3>2. v \in Zones!FreeOwners(s)
      BY <2>5, FreeOwnersAre
    <3>3. Zones!FreeSpan(t, v) = Zones!FreeSpan(s, v)
      BY <2>5, UnusedSpan
    <3>. QED  BY <3>1, <3>2, <3>3
  <2>6. \/ v = rest
        \/ \E l \in Zones!Slots : \E i \in 1..Len(t.slots[l]) : v = <<"slot", l, i>>
        \/ \E b \in s.block + 1..Len(s.blocks) : v = <<"block", b, 0>>
    <3>1. \/ t.block # 0 /\ v = <<"rest", 0, 0>>
          \/ \E l \in Zones!Slots : \E i \in 1..Len(t.slots[l]) : v = <<"slot", l, i>>
          \/ \E b \in t.block + 1..Len(t.blocks) : v = <<"block", b, 0>>
      BY ONLY v \in Zones!FreeOwners(t), FreeOwnersAre
    <3>. QED  BY ONLY <3>1, t.block = s.block, t.blocks = s.blocks
  <2>7. ASSUME NEW i \in 1..Len(t.slots[k])
        PROVE  i \in 1..n \/ \E j \in 1..Len(s.slots[k]) : i = j + n
    <3>. HIDE DEF n
    <3>1. CASE i <= n
      BY <1>1, <1>3, <3>1
    <3>2. CASE ~(i <= n)
      <4>1. i - n \in 1..Len(s.slots[k]) /\ i = (i - n) + n
        BY <1>1, <1>3, <3>2
      <4>. QED  BY <4>1
    <3>. QED  BY <3>1, <3>2
  <2>. HIDE DEF src, chunk, rest, n
  <2>8. ASSUME NEW l \in Zones!Slots, NEW i \in 1..Len(t.slots[l]), v = <<"slot", l, i>>
        PROVE  \/ l # k
               \/ \E j \in 1..n : v = chunk(j)
               \/ \E j \in 1..Len(s.slots[k]) : v = chunk(j + n)
    BY <2>7, <2>8 DEF chunk
  <2>. QED  BY <2>1, <2>2, <2>3, <2>4, <2>5, <2>6, <2>8
<1>9. /\ \A v \in Zones!FreeOwners(t) : src[v] \in Zones!FreeOwners(s)
      /\ src \in [Zones!FreeOwners(t) -> Zones!FreeOwners(s)]
  <2>1. \A v \in Zones!FreeOwners(t) : src[v] \in Zones!FreeOwners(s)
    BY <1>7, <1>8
  <2>. QED  BY <2>1
<1>10. ASSUME NEW v \in Zones!FreeOwners(t)
       PROVE  Zones!Within(Zones!FreeSpan(t, v), Zones!FreeSpan(s, src[v]))
  <2>1. CASE v = rest /\ src[v] = rest
    <3>1. Zones!Within(Zones!Span(t.ptr, s.end - t.ptr), Zones!Span(s.ptr, s.end - s.ptr))
      BY <1>1, <1>2 DEF Zones!Within, Zones!Span
    <3>. QED  BY <1>7, <2>1, <3>1
  <2>2. ASSUME NEW i \in 1..n, src[v] = rest,
               Zones!FreeSpan(t, v) = Zones!Span(new[i], Zones!SlotSize(k))
        PROVE  Zones!Within(Zones!FreeSpan(t, v), Zones!FreeSpan(s, src[v]))
    <3>1. new[i] \in Nat
      BY ElementOfSeq
    <3>2. s.ptr <= new[i] /\ new[i] + Zones!SlotSize(k) <= t.ptr
      OBVIOUS
    <3>3. Zones!Within(Zones!Span(new[i], Zones!SlotSize(k)), Zones!Span(s.ptr, s.end - s.ptr))
      BY <1>1, <1>2, <3>1, <3>2, SMTT(30) DEF Zones!Within, Zones!Span
    <3>. QED  BY <1>7, <2>2, <3>3
  <2>3. CASE Zones!FreeSpan(t, v) = Zones!FreeSpan(s, src[v])
    <3>1. Zones!FreeSpan(s, src[v]).at \in Nat /\ Zones!FreeSpan(s, src[v]).size \in Nat
      BY <1>9, FreeSpansOK, SpanNumbers
    <3>. QED  BY <2>3, <3>1 DEF Zones!Within
  <2>. HIDE DEF src, chunk, rest, n
  <2>. QED  BY <1>8, <2>1, <2>2, <2>3
<1>11. ASSUME NEW i \in 1..n
       PROVE  /\ Zones!Apart(Zones!Span(new[i], Zones!SlotSize(k)), Zones!Span(t.ptr, s.end - t.ptr))
              /\ \A j \in 1..n : i # j =>
                    Zones!Apart(Zones!Span(new[i], Zones!SlotSize(k)), Zones!Span(new[j], Zones!SlotSize(k)))
  BY DEF Zones!Apart, Zones!Span
<1>12. ASSUME NEW v \in Zones!FreeOwners(t), NEW u \in Zones!FreeOwners(t), v # u, src[v] = src[u]
       PROVE  Zones!Apart(Zones!FreeSpan(t, v), Zones!FreeSpan(t, u))
  <2>1. CASE src[v] = rest
    <3>. DEFINE IsNew(w, i) == w = chunk(i) /\ Zones!FreeSpan(t, w) = Zones!Span(new[i], Zones!SlotSize(k))
    <3>1. /\ v = rest \/ \E i \in 1..n : IsNew(v, i)
          /\ u = rest \/ \E i \in 1..n : IsNew(u, i)
      <4>. HIDE DEF src, rest, n, chunk
      <4>. QED  BY <1>8, <1>12, <2>1
    <3>2. CASE v = rest
      <4>. HIDE DEF src, rest, n, chunk
      <4>1. PICK i \in 1..n : IsNew(u, i)
        BY <1>12, <3>1, <3>2
      <4>. QED  BY <1>7, <1>11, <3>2, <4>1, ApartSymmetric
    <3>3. CASE u = rest
      <4>. HIDE DEF src, rest, n, chunk
      <4>1. PICK i \in 1..n : IsNew(v, i)
        BY <1>12, <3>1, <3>3
      <4>. QED  BY <1>7, <1>11, <3>3, <4>1
    <3>4. CASE v # rest /\ u # rest
      <4>. HIDE DEF src, rest, n, chunk
      <4>1. PICK i \in 1..n : IsNew(v, i)
        BY <3>1, <3>4
      <4>2. PICK j \in 1..n : IsNew(u, j)
        BY <3>1, <3>4
      <4>3. i # j
        BY <1>12, <4>1, <4>2
      <4>. QED  BY <1>11, <4>1, <4>2, <4>3
    <3>. QED  BY <3>2, <3>3, <3>4
  <2>2. CASE src[v] # rest
    <3>1. /\ \/ \E i \in 1..Len(s.slots[k]) : v = chunk(i + n) /\ src[v] = chunk(i)
             \/ v = src[v] /\ (v[1] # "slot" \/ v[2] # k)
          /\ \/ \E i \in 1..Len(s.slots[k]) : u = chunk(i + n) /\ src[u] = chunk(i)
             \/ u = src[u] /\ (u[1] # "slot" \/ u[2] # k)
      <4>. HIDE DEF src, rest, n, chunk
      <4>. QED  BY <1>8, <1>12, <2>2
    <3>2. \A i, j \in 1..Len(s.slots[k]) : chunk(i) = chunk(j) => i = j
      OBVIOUS
    <3>3. \A i \in 1..Len(s.slots[k]) : chunk(i)[1] = "slot" /\ chunk(i)[2] = k
      OBVIOUS
    <3>. HIDE DEF src, rest, n, chunk
    <3>. QED  BY <1>12, <3>1, <3>2, <3>3
  <2>. QED  BY <2>1, <2>2
<1>13. Cut(s, t, src)
  <2>. HIDE DEF src
  <2>. QED  BY <1>9, <1>10, <1>12 DEF Cut
<1>. QED  BY <1>5, <1>6, <1>13 DEF Cuts

-----------------------------------------------------------------------------
(* malloc, free and the slots.                                             *)

\* Memory that malloc may return.
Unused(s, m) ==
    /\ \A b \in 1..Len(s.blocks) :
          Zones!Apart(m, Zones!Span(s.blocks[b].data - Zones!offsetofData, s.blocks[b].size + Zones!sizeofBlock))
    /\ \A d \in s.dynamicBlocks : Zones!Apart(m, d.memory)

LEMMA BesideBlock ==
    ASSUME NEW data \in Nat, NEW size \in Nat, NEW xa \in Nat, NEW xs \in Nat,
           NEW ya \in Nat, NEW ys \in Nat, NEW ma \in Nat, NEW ms \in Nat,
           data <= xa, xa + xs <= data + size, ma <= ya, ya + ys <= ma + ms,
           ma + ms <= data - 12 \/ data - 12 + (size + 16) <= ma
    PROVE  xa + xs <= ya \/ ya + ys <= xa
  OBVIOUS

LEMMA InBlockUnused ==
    ASSUME NEW s, ArenaOK(s), NEW m \in SpanSet, Unused(s, m), NEW x, x.at \in Nat, x.size \in Nat,
           InBlock(s, x), NEW y, y.at \in Nat, y.size \in Nat, Zones!Within(y, m)
    PROVE  Zones!Apart(x, y) /\ Zones!Apart(y, x)
<1>1. PICK b \in 1..Len(s.blocks) : Zones!Within(x, Zones!BlockSpan(s.blocks[b]))
  BY DEF InBlock
<1>2. s.blocks[b].data \in Nat /\ s.blocks[b].size \in Nat
  BY ArenaFields
<1>3. Zones!Apart(m, Zones!Span(s.blocks[b].data - Zones!offsetofData, s.blocks[b].size + Zones!sizeofBlock))
  BY DEF Unused
<1>4. m.at \in Nat /\ m.size \in Nat
  BY SpanNumbers
<1>5. s.blocks[b].data <= x.at /\ x.at + x.size <= s.blocks[b].data + s.blocks[b].size
  BY <1>1 DEF Zones!Within, Zones!BlockSpan, Zones!Span
<1>6. \/ m.at + m.size <= s.blocks[b].data - 12
      \/ s.blocks[b].data - 12 + (s.blocks[b].size + 16) <= m.at
  BY <1>3 DEF Zones!Apart, Zones!Span, Zones!offsetofData, Zones!sizeofBlock
<1>7. m.at <= y.at /\ y.at + y.size <= m.at + m.size
  BY DEF Zones!Within
<1>8. x.at + x.size <= y.at \/ y.at + y.size <= x.at
  BY <1>2, <1>4, <1>5, <1>6, <1>7, BesideBlock
<1>. QED  BY <1>8 DEF Zones!Apart

LEMMA InDynamicUnused ==
    ASSUME NEW s, ArenaOK(s), NEW m \in SpanSet, Unused(s, m), NEW x, x.at \in Nat, x.size \in Nat,
           InDynamic(s, x), NEW y, y.at \in Nat, y.size \in Nat, Zones!Within(y, m)
    PROVE  Zones!Apart(x, y) /\ Zones!Apart(y, x)
<1>1. PICK d \in s.dynamicBlocks : Zones!Within(x, d.memory)
  BY DEF InDynamic
<1>2. d \in DynamicBlock
  BY ArenaFields
<1>3. Zones!Apart(m, d.memory) /\ d.memory \in SpanSet
  BY <1>2 DEF Unused, DynamicBlock
<1>4. m.at \in Nat /\ m.size \in Nat /\ d.memory.at \in Nat /\ d.memory.size \in Nat
  BY <1>3, SpanNumbers
<1>. QED  BY <1>1, <1>3, <1>4 DEF Zones!Apart, Zones!Within

\* What lies in memory from malloc is apart from all else.
LEMMA UnusedApart ==
    ASSUME NEW s, NEW own, Good(s, own), NEW m \in SpanSet, Unused(s, m),
           NEW y, y.at \in Nat, y.size \in Nat, Zones!Within(y, m)
    PROVE  /\ \A o \in DOMAIN own : Zones!Apart(own[o], y)
           /\ \A u \in Zones!FreeOwners(s) : Zones!Apart(y, Zones!FreeSpan(s, u)) /\ Zones!Apart(Zones!FreeSpan(s, u), y)
<1>1. ArenaOK(s) /\ FreeOK(s) /\ OwnOK(s, own)
  BY DEF Good
<1>2. ASSUME NEW o \in DOMAIN own
      PROVE  Zones!Apart(own[o], y)
  <2>1. /\ own[o] \in Owned
        /\ IF own[o].dyn THEN InDynamic(s, own[o]) ELSE InBlock(s, own[o])
    BY <1>1 DEF OwnOK
  <2>2. own[o].at \in Nat /\ own[o].size \in Nat
    BY <2>1, OwnedNumbers
  <2>. QED  BY <1>1, <2>1, <2>2, InBlockUnused, InDynamicUnused
<1>3. ASSUME NEW u \in Zones!FreeOwners(s)
      PROVE  Zones!Apart(y, Zones!FreeSpan(s, u)) /\ Zones!Apart(Zones!FreeSpan(s, u), y)
  <2>1. InBlock(s, Zones!FreeSpan(s, u))
    BY <1>1 DEF FreeOK
  <2>2. Zones!FreeSpan(s, u).at \in Nat /\ Zones!FreeSpan(s, u).size \in Nat
    BY <1>1, FreeSpansOK, SpanNumbers
  <2>. QED  BY <1>1, <2>1, <2>2, InBlockUnused
<1>. QED  BY <1>2, <1>3

\* A piece of dynamic memory.
LEMMA DynamicGiven ==
    ASSUME NEW s, NEW own, Good(s, own), NEW t \in ArenaState, t.blocks = s.blocks, t.block = s.block,
           t.ptr = s.ptr, t.end = s.end, t.slots = s.slots,
           NEW m \in SpanSet, Unused(s, m), NEW x \in Owned, x.dyn, Zones!Within(x, m),
           t.dynamicBlocks = s.dynamicBlocks \cup {[memory |-> m, data |-> x.at]},
           NEW new, UserOwner(new), new \notin DOMAIN own
    PROVE  Good(t, own) /\ Good(t, Extend(own, new, x))
<1>1. ArenaOK(s) /\ FreeOK(s) /\ OwnOK(s, own)
  BY DEF Good
<1>2. ArenaOK(t)
  BY <1>1 DEF ArenaOK
<1>3. Zones!FreeOwners(t) = Zones!FreeOwners(s)
  BY DEF Zones!FreeOwners
<1>4. \A o \in Zones!FreeOwners(s) : Zones!FreeSpan(t, o) = Zones!FreeSpan(s, o)
  BY DEF Zones!FreeSpan
<1>5. \A y : InBlock(t, y) <=> InBlock(s, y)
  BY DEF InBlock
<1>6. \A y : InDynamic(s, y) => InDynamic(t, y)
  BY DEF InDynamic
<1>7. FreeOK(t)
  BY <1>1, <1>3, <1>4, <1>5 DEF FreeOK
<1>8. OwnOK(t, own)
  BY <1>1, <1>3, <1>4, <1>5, <1>6 DEF OwnOK
<1>9. InDynamic(t, x)
  <2>. DEFINE d == [memory |-> m, data |-> x.at]
  <2>1. d \in t.dynamicBlocks /\ d.data = x.at /\ d.memory = m
    OBVIOUS
  <2>. HIDE DEF d
  <2>. QED  BY <2>1 DEF InDynamic
<1>10. x.at \in Nat /\ x.size \in Nat
  BY OwnedNumbers
<1>11. /\ \A o \in DOMAIN own : Zones!Apart(own[o], x)
       /\ \A u \in Zones!FreeOwners(t) : Zones!Apart(x, Zones!FreeSpan(t, u))
  BY <1>3, <1>4, <1>10, UnusedApart
<1>12. OwnOK(t, Extend(own, new, x))
  BY <1>8, <1>9, <1>11, OwnExtended DEF UserOwner
<1>. QED  BY <1>2, <1>7, <1>8, <1>12 DEF Good

LEMMA WithoutOne ==
    ASSUME NEW s, NEW own, OwnOK(s, own), NEW o
    PROVE  OwnOK(s, Without(own, o))
<1>. DEFINE less == Without(own, o)
<1>1. /\ DOMAIN less = DOMAIN own \ {o}
      /\ \A u \in DOMAIN less : less[u] = own[u]
      /\ less = [u \in DOMAIN less |-> less[u]]
  BY DEF Without
<1>. HIDE DEF less
<1>2. \A u \in DOMAIN less : less[u] \in Owned
  BY <1>1 DEF OwnOK
<1>3. less \in [DOMAIN less -> Owned]
  BY <1>1, <1>2
<1>4. OwnOK(s, less)
  BY <1>1, <1>3 DEF OwnOK
<1>. QED  BY <1>4 DEF less

\* Dynamic memory is freed.
LEMMA DynamicReleased ==
    ASSUME NEW s, NEW own, Good(s, own), NEW t \in ArenaState, t.blocks = s.blocks, t.block = s.block,
           t.ptr = s.ptr, t.end = s.end, t.slots = s.slots, NEW o \in DOMAIN own,
           t.dynamicBlocks = {d \in s.dynamicBlocks : d.data # own[o].at}
    PROVE  Good(t, Without(own, o))
<1>1. ArenaOK(s) /\ FreeOK(s) /\ OwnOK(s, own)
  BY DEF Good
<1>2. ArenaOK(t)
  BY <1>1 DEF ArenaOK
<1>3. Zones!FreeOwners(t) = Zones!FreeOwners(s)
  BY DEF Zones!FreeOwners
<1>4. \A u \in Zones!FreeOwners(s) : Zones!FreeSpan(t, u) = Zones!FreeSpan(s, u)
  BY DEF Zones!FreeSpan
<1>5. \A y : InBlock(t, y) <=> InBlock(s, y)
  BY DEF InBlock
<1>6. FreeOK(t)
  BY <1>1, <1>3, <1>4, <1>5 DEF FreeOK
<1>7. OwnOK(s, Without(own, o))
  BY <1>1, WithoutOne
<1>8. /\ DOMAIN Without(own, o) = DOMAIN own \ {o}
      /\ \A u \in DOMAIN own \ {o} : Without(own, o)[u] = own[u]
  BY DEF Without
<1>9. ASSUME NEW u \in DOMAIN own \ {o}, InDynamic(s, own[u])
      PROVE  InDynamic(t, own[u])
  <2>1. PICK d \in s.dynamicBlocks : d.data = own[u].at /\ Zones!Within(own[u], d.memory)
    BY <1>9 DEF InDynamic
  <2>2. own[u] \in Owned /\ own[o] \in Owned /\ Zones!Apart(own[u], own[o])
    BY <1>1 DEF OwnOK
  <2>3. own[u].at # own[o].at
    BY <2>2, OwnedNumbers DEF Zones!Apart
  <2>. QED  BY <2>1, <2>3 DEF InDynamic
<1>. DEFINE less == Without(own, o)
<1>10. \A u \in DOMAIN less : IF less[u].dyn THEN InDynamic(t, less[u]) ELSE InBlock(t, less[u])
  BY <1>1, <1>5, <1>8, <1>9 DEF OwnOK
<1>11. OwnOK(t, less)
  <2>. HIDE DEF less
  <2>1. OwnOK(s, less)
    BY <1>7 DEF less
  <2>. QED  BY <1>3, <1>4, <1>10, <2>1 DEF OwnOK
<1>. QED  BY <1>2, <1>6, <1>11 DEF Good

\* A piece goes to a slot.
LEMMA Released ==
    ASSUME NEW s, NEW own, Good(s, own), NEW t \in ArenaState, t.blocks = s.blocks, t.block = s.block,
           t.ptr = s.ptr, t.end = s.end, t.dynamicBlocks = s.dynamicBlocks,
           NEW o \in DOMAIN own, ~own[o].dyn, NEW k \in Zones!Slots, Zones!SlotSize(k) <= own[o].size,
           t.slots = [s.slots EXCEPT ![k] = <<own[o].at>> \o s.slots[k]]
    PROVE  Good(t, Without(own, o))
<1>. DEFINE chunk(i) == <<"slot", k, i>>
            src  == [v \in Zones!FreeOwners(t) |->
                        IF v[1] = "slot" /\ v[2] = k THEN <<"slot", k, v[3] - 1>> ELSE v]
            less == Without(own, o)
            given == Zones!Span(own[o].at, Zones!SlotSize(k))
<1>1. ArenaOK(s) /\ FreeOK(s) /\ OwnOK(s, own)
  BY DEF Good
<1>2. /\ s.slots[k] \in Seq(Nat) /\ Len(s.slots[k]) \in Nat
      /\ s.slots \in [Zones!Slots -> Seq(Nat)]
      /\ Zones!SlotSize(k) \in Nat
  BY <1>1, ArenaFields, SlotSizes
<1>3. /\ own[o] \in Owned /\ own[o].at \in Nat /\ own[o].size \in Nat
      /\ InBlock(s, own[o])
  <2>1. own[o] \in Owned /\ InBlock(s, own[o])
    BY <1>1 DEF OwnOK
  <2>. QED  BY <2>1, OwnedNumbers
<1>4. /\ Len(t.slots[k]) = 1 + Len(s.slots[k])
      /\ t.slots[k][1] = own[o].at
      /\ \A i \in 1..Len(s.slots[k]) : t.slots[k][i + 1] = s.slots[k][i]
  <2>1. PICK x \in Nat : x = own[o].at
    BY <1>3
  <2>2. t.slots[k] = <<x>> \o s.slots[k]
    BY <1>2, <2>1
  <2>3. <<x>> \in Seq(Nat) /\ Len(<<x>>) = 1 /\ <<x>>[1] = x
    OBVIOUS
  <2>4. PICK new : new = <<x>>
    OBVIOUS
  <2>5. /\ Len(new \o s.slots[k]) = 1 + Len(s.slots[k])
        /\ \A i \in 1..1 + Len(s.slots[k]) :
              (new \o s.slots[k])[i] = IF i <= 1 THEN new[i] ELSE s.slots[k][i - 1]
    BY <1>2, <2>3, <2>4, ConcatProperties
  <2>6. t.slots[k] = new \o s.slots[k] /\ new[1] = x
    BY <2>2, <2>3, <2>4
  <2>7. 1 \in 1..1 + Len(s.slots[k])
    BY <1>2
  <2>8. ASSUME NEW i \in 1..Len(s.slots[k])
        PROVE  t.slots[k][i + 1] = s.slots[k][i]
    <3>1. i + 1 \in 1..1 + Len(s.slots[k]) /\ ~(i + 1 <= 1) /\ (i + 1) - 1 = i
      BY <1>2
    <3>. QED  BY <2>5, <2>6, <3>1
  <2>. QED  BY <2>1, <2>5, <2>6, <2>7, <2>8
<1>5. \A l \in Zones!Slots : l # k => t.slots[l] = s.slots[l]
  BY <1>2
<1>6. ArenaOK(t)
  BY <1>1 DEF ArenaOK
<1>7. Kept(s, t)
  BY DEF Kept
<1>8. ASSUME NEW v \in Zones!FreeOwners(t)
      PROVE  \/ v = chunk(1) /\ Zones!FreeSpan(t, v) = given
             \/ /\ src[v] \in Zones!FreeOwners(s) /\ v # chunk(1)
                /\ Zones!FreeSpan(t, v) = Zones!FreeSpan(s, src[v])
                /\ \/ \E i \in 1..Len(s.slots[k]) : v = chunk(i + 1) /\ src[v] = chunk(i)
                   \/ v = src[v] /\ (v[1] # "slot" \/ v[2] # k)
  <2>1. CASE s.block # 0 /\ v = <<"rest", 0, 0>>
    <3>1. src[v] = v /\ v # chunk(1) /\ v[1] # "slot"
      BY <2>1
    <3>2. v \in Zones!FreeOwners(s)
      BY <2>1, FreeOwnersAre
    <3>3. Zones!FreeSpan(t, v) = Zones!FreeSpan(s, v)
      BY <2>1, RestSpan
    <3>. QED  BY <3>1, <3>2, <3>3
  <2>2. CASE v = chunk(1)
    <3>1. Zones!FreeSpan(t, <<"slot", k, 1>>) = Zones!Span(t.slots[k][1], Zones!SlotSize(k))
      BY ONLY SlotSpan
    <3>. QED  BY <1>4, <2>2, <3>1
  <2>3. ASSUME NEW i \in 1..Len(s.slots[k]), v = chunk(i + 1)
        PROVE  /\ src[v] \in Zones!FreeOwners(s) /\ v # chunk(1)
               /\ Zones!FreeSpan(t, v) = Zones!FreeSpan(s, src[v])
               /\ src[v] = chunk(i)
    <3>1. i + 1 # 1 /\ (i + 1) - 1 = i
      BY <1>2
    <3>2. src[v] = chunk(i)
      BY <2>3, <3>1
    <3>3. Zones!FreeSpan(t, <<"slot", k, i + 1>>) = Zones!Span(t.slots[k][i + 1], Zones!SlotSize(k))
      BY ONLY SlotSpan
    <3>4. Zones!FreeSpan(s, <<"slot", k, i>>) = Zones!Span(s.slots[k][i], Zones!SlotSize(k))
      BY ONLY SlotSpan
    <3>5. t.slots[k][i + 1] = s.slots[k][i]
      BY <1>4
    <3>6. chunk(i) \in Zones!FreeOwners(s)
      BY FreeOwnersAre
    <3>7. v # chunk(1)
      BY <2>3, <3>1
    <3>. QED  BY <2>3, <3>2, <3>3, <3>4, <3>5, <3>6, <3>7
  <2>4. ASSUME NEW l \in Zones!Slots, NEW i \in 1..Len(t.slots[l]), v = <<"slot", l, i>>, l # k
        PROVE  /\ src[v] \in Zones!FreeOwners(s) /\ v # chunk(1)
               /\ Zones!FreeSpan(t, v) = Zones!FreeSpan(s, src[v])
               /\ v = src[v] /\ v[2] # k
    <3>1. src[v] = v /\ v # chunk(1) /\ v[2] # k
      BY <2>4
    <3>2. t.slots[l] = s.slots[l]
      BY <1>5, <2>4
    <3>3. v \in Zones!FreeOwners(s)
      BY <2>4, <3>2, FreeOwnersAre
    <3>4. Zones!FreeSpan(t, <<"slot", l, i>>) = Zones!Span(t.slots[l][i], Zones!SlotSize(l))
      BY ONLY SlotSpan
    <3>5. Zones!FreeSpan(s, <<"slot", l, i>>) = Zones!Span(s.slots[l][i], Zones!SlotSize(l))
      BY ONLY SlotSpan
    <3>. QED  BY <2>4, <3>1, <3>2, <3>3, <3>4, <3>5
  <2>5. ASSUME NEW b \in s.block + 1..Len(s.blocks), v = <<"block", b, 0>>
        PROVE  /\ src[v] \in Zones!FreeOwners(s) /\ v # chunk(1)
               /\ Zones!FreeSpan(t, v) = Zones!FreeSpan(s, src[v])
               /\ v = src[v] /\ v[1] # "slot"
    <3>1. src[v] = v /\ v # chunk(1) /\ v[1] # "slot"
      BY <2>5
    <3>2. v \in Zones!FreeOwners(s)
      BY <2>5, FreeOwnersAre
    <3>3. Zones!FreeSpan(t, v) = Zones!FreeSpan(s, v)
      BY <2>5, UnusedSpan
    <3>. QED  BY <3>1, <3>2, <3>3
  <2>6. \/ s.block # 0 /\ v = <<"rest", 0, 0>>
        \/ \E l \in Zones!Slots : \E i \in 1..Len(t.slots[l]) : v = <<"slot", l, i>>
        \/ \E b \in s.block + 1..Len(s.blocks) : v = <<"block", b, 0>>
    <3>1. \/ t.block # 0 /\ v = <<"rest", 0, 0>>
          \/ \E l \in Zones!Slots : \E i \in 1..Len(t.slots[l]) : v = <<"slot", l, i>>
          \/ \E b \in t.block + 1..Len(t.blocks) : v = <<"block", b, 0>>
      BY ONLY v \in Zones!FreeOwners(t), FreeOwnersAre
    <3>. QED  BY ONLY <3>1, t.block = s.block, t.blocks = s.blocks
  <2>7. ASSUME NEW i \in 1..Len(t.slots[k])
        PROVE  i = 1 \/ \E j \in 1..Len(s.slots[k]) : i = j + 1
    <3>1. CASE i # 1
      <4>1. i - 1 \in 1..Len(s.slots[k]) /\ i = (i - 1) + 1
        BY <1>2, <1>4, <3>1
      <4>. QED  BY <4>1
    <3>. QED  BY <3>1
  <2>. HIDE DEF src, chunk, given
  <2>8. ASSUME NEW l \in Zones!Slots, NEW i \in 1..Len(t.slots[l]), v = <<"slot", l, i>>
        PROVE  \/ l # k
               \/ v = chunk(1)
               \/ \E j \in 1..Len(s.slots[k]) : v = chunk(j + 1)
    BY <2>7, <2>8 DEF chunk
  <2>. QED  BY <2>1, <2>2, <2>3, <2>4, <2>5, <2>6, <2>8
<1>9. ASSUME NEW v \in Zones!FreeOwners(t)
      PROVE  \/ Zones!FreeSpan(t, v) = given
             \/ \E u \in Zones!FreeOwners(s) : Zones!FreeSpan(t, v) = Zones!FreeSpan(s, u)
  <2>. HIDE DEF src, chunk, given
  <2>. QED  BY <1>8
<1>10. /\ Zones!Within(given, own[o]) /\ InBlock(s, given)
       /\ given.at \in Nat /\ given.size \in Nat
  <2>1. given.at \in Nat /\ given.size \in Nat /\ given.at = own[o].at /\ given.size <= own[o].size
    BY <1>2, <1>3 DEF Zones!Span
  <2>. HIDE DEF given
  <2>2. Zones!Within(given, own[o])
    BY <1>3, <2>1 DEF Zones!Within
  <2>. QED  BY <1>1, <1>3, <2>1, <2>2, InBlockWithin
<1>11. /\ \A u \in Zones!FreeOwners(s) :
             Zones!Apart(given, Zones!FreeSpan(s, u)) /\ Zones!Apart(Zones!FreeSpan(s, u), given)
       /\ \A u \in DOMAIN own \ {o} : Zones!Apart(own[u], given)
  <2>. HIDE DEF given
  <2>1. ASSUME NEW u \in Zones!FreeOwners(s)
        PROVE  Zones!Apart(given, Zones!FreeSpan(s, u)) /\ Zones!Apart(Zones!FreeSpan(s, u), given)
    <3>1. Zones!Apart(own[o], Zones!FreeSpan(s, u))
      BY <1>1 DEF OwnOK
    <3>2. Zones!FreeSpan(s, u).at \in Nat /\ Zones!FreeSpan(s, u).size \in Nat
      BY <1>1, FreeSpansOK, SpanNumbers
    <3>. QED  BY <1>3, <1>10, <3>1, <3>2 DEF Zones!Apart, Zones!Within
  <2>2. ASSUME NEW u \in DOMAIN own \ {o}
        PROVE  Zones!Apart(own[u], given)
    <3>1. own[u] \in Owned /\ Zones!Apart(own[u], own[o])
      BY <1>1 DEF OwnOK
    <3>2. own[u].at \in Nat /\ own[u].size \in Nat
      BY <3>1, OwnedNumbers
    <3>. QED  BY <1>3, <1>10, <3>1, <3>2 DEF Zones!Apart, Zones!Within
  <2>. QED  BY <2>1, <2>2
<1>12. \A x : InBlock(t, x) <=> InBlock(s, x)
  BY DEF InBlock
<1>13. FreeOK(t)
  <2>. HIDE DEF given
  <2>1. ASSUME NEW v \in Zones!FreeOwners(t)
        PROVE  InBlock(t, Zones!FreeSpan(t, v))
    BY <1>1, <1>9, <1>10, <1>12 DEF FreeOK
  <2>2. ASSUME NEW v \in Zones!FreeOwners(t), NEW u \in Zones!FreeOwners(t), v # u
        PROVE  Zones!Apart(Zones!FreeSpan(t, v), Zones!FreeSpan(t, u))
    <3>1. CASE v = chunk(1) \/ u = chunk(1)
      <4>. HIDE DEF src, chunk
      <4>1. CASE v = chunk(1)
        <5>1. Zones!FreeSpan(t, v) = given
          BY <1>8, <4>1
        <5>2. src[u] \in Zones!FreeOwners(s) /\ Zones!FreeSpan(t, u) = Zones!FreeSpan(s, src[u])
          BY <1>8, <2>2, <4>1
        <5>. QED  BY <1>11, <5>1, <5>2
      <4>2. CASE u = chunk(1)
        <5>1. Zones!FreeSpan(t, u) = given
          BY <1>8, <4>2
        <5>2. src[v] \in Zones!FreeOwners(s) /\ Zones!FreeSpan(t, v) = Zones!FreeSpan(s, src[v])
          BY <1>8, <2>2, <4>2
        <5>. QED  BY <1>11, <5>1, <5>2
      <4>. QED  BY <3>1, <4>1, <4>2
    <3>2. CASE v # chunk(1) /\ u # chunk(1)
      <4>1. \A i, j \in 1..Len(s.slots[k]) : chunk(i) = chunk(j) => i = j
        OBVIOUS
      <4>2. \A i \in 1..Len(s.slots[k]) : chunk(i)[1] = "slot" /\ chunk(i)[2] = k
        OBVIOUS
      <4>. HIDE DEF src, chunk
      <4>3. ASSUME NEW w \in Zones!FreeOwners(t), w # chunk(1)
            PROVE  /\ src[w] \in Zones!FreeOwners(s) /\ Zones!FreeSpan(t, w) = Zones!FreeSpan(s, src[w])
                   /\ \/ \E i \in 1..Len(s.slots[k]) : w = chunk(i + 1) /\ src[w] = chunk(i)
                      \/ w = src[w] /\ (w[1] # "slot" \/ w[2] # k)
        BY <1>8, <4>3
      <4>4. src[v] # src[u]
        BY <2>2, <3>2, <4>1, <4>2, <4>3
      <4>. QED  BY <1>1, <3>2, <4>3, <4>4 DEF FreeOK
    <3>. QED  BY <3>1, <3>2
  <2>. QED  BY <2>1, <2>2 DEF FreeOK
<1>14. OwnOK(t, less)
  <2>1. OwnOK(s, less)
    BY <1>1, WithoutOne
  <2>2. DOMAIN less = DOMAIN own \ {o} /\ \A u \in DOMAIN less : less[u] = own[u]
    BY DEF Without
  <2>. HIDE DEF less, given, src, chunk
  <2>3. \A x : InDynamic(t, x) <=> InDynamic(s, x)
    BY DEF InDynamic
  <2>4. ASSUME NEW u \in DOMAIN less, NEW v \in Zones!FreeOwners(t)
        PROVE  Zones!Apart(less[u], Zones!FreeSpan(t, v))
    <3>1. CASE Zones!FreeSpan(t, v) = given
      BY <1>11, <2>2, <3>1
    <3>2. ASSUME NEW w \in Zones!FreeOwners(s), Zones!FreeSpan(t, v) = Zones!FreeSpan(s, w)
          PROVE  Zones!Apart(less[u], Zones!FreeSpan(t, v))
      BY <2>1, <3>2 DEF OwnOK
    <3>. QED  BY <1>9, <3>1, <3>2
  <2>. QED  BY <1>12, <2>1, <2>3, <2>4 DEF OwnOK
<1>. QED  BY <1>6, <1>13, <1>14 DEF Good

LEMMA InsertedBlock ==
    ASSUME NEW S, NEW q \in Seq(S), NEW k \in 1..Len(q) + 1, NEW e \in S
    PROVE  LET r == Zones!InsertAt(q, k, e) IN
           /\ r \in Seq(S) /\ Len(r) = Len(q) + 1 /\ r[k] = e
           /\ \A i \in 1..k - 1 : r[i] = q[i]
           /\ \A i \in k..Len(q) : r[i + 1] = q[i]
<1>. DEFINE r == Zones!InsertAt(q, k, e)
<1>1. Len(q) \in Nat /\ k \in Nat /\ k >= 1 /\ k <= Len(q) + 1
  BY LenProperties
<1>2. PICK a : a = SubSeq(q, 1, k - 1)
  OBVIOUS
<1>3. a \in Seq(S) /\ Len(a) = k - 1 /\ \A i \in 1..k - 1 : a[i] = q[i]
  BY <1>1, <1>2, SubSeqProperties
<1>4. PICK c : c = SubSeq(q, k, Len(q))
  OBVIOUS
<1>5. c \in Seq(S) /\ Len(c) = Len(q) - k + 1 /\ \A i \in 1..Len(q) - k + 1 : c[i] = q[k + i - 1]
  BY <1>1, <1>4, SubSeqProperties
<1>6. PICK one : one = <<e>>
  OBVIOUS
<1>7. one \in Seq(S) /\ Len(one) = 1 /\ one[1] = e
  BY <1>6
<1>8. r = (a \o one) \o c
  BY <1>2, <1>4, <1>6 DEF Zones!InsertAt
<1>9. PICK ab : ab = a \o one
  OBVIOUS
<1>10. /\ ab \in Seq(S) /\ Len(ab) = k
       /\ \A i \in 1..k : ab[i] = IF i <= k - 1 THEN a[i] ELSE one[i - (k - 1)]
  <2>1. /\ ab \in Seq(S) /\ Len(ab) = Len(a) + Len(one)
        /\ \A i \in 1..Len(a) + Len(one) : ab[i] = IF i <= Len(a) THEN a[i] ELSE one[i - Len(a)]
    BY <1>3, <1>7, <1>9, ConcatProperties
  <2>2. Len(a) + Len(one) = k /\ Len(a) = k - 1
    BY <1>1, <1>3, <1>7
  <2>. QED  BY <2>1, <2>2
<1>11. /\ r \in Seq(S) /\ Len(r) = Len(q) + 1
       /\ \A i \in 1..Len(q) + 1 : r[i] = IF i <= k THEN ab[i] ELSE c[i - k]
  <2>1. /\ r \in Seq(S) /\ Len(r) = Len(ab) + Len(c)
        /\ \A i \in 1..Len(ab) + Len(c) : r[i] = IF i <= Len(ab) THEN ab[i] ELSE c[i - Len(ab)]
    <3>1. r = ab \o c
      BY <1>8, <1>9
    <3>2. ab \in Seq(S) /\ c \in Seq(S)
      BY <1>5, <1>10
    <3>. HIDE DEF r
    <3>. QED  BY <3>1, <3>2, ConcatProperties
  <2>2. Len(ab) + Len(c) = Len(q) + 1 /\ Len(ab) = k
    BY <1>1, <1>5, <1>10
  <2>. HIDE DEF r
  <2>. QED  BY <2>1, <2>2
<1>. HIDE DEF r
<1>12. r[k] = e
  <2>1. k \in 1..k /\ k \in 1..Len(q) + 1 /\ ~(k <= k - 1) /\ k - (k - 1) = 1
    BY <1>1
  <2>. QED  BY <1>7, <1>10, <1>11, <2>1
<1>13. ASSUME NEW i \in 1..k - 1
       PROVE  r[i] = q[i]
  <2>1. i \in 1..k /\ i \in 1..Len(q) + 1 /\ i <= k - 1 /\ i <= k
    BY <1>1
  <2>. QED  BY <1>3, <1>10, <1>11, <2>1
<1>14. ASSUME NEW i \in k..Len(q)
       PROVE  r[i + 1] = q[i]
  <2>1. /\ i + 1 \in 1..Len(q) + 1 /\ ~(i + 1 <= k) /\ (i + 1) - k \in 1..Len(q) - k + 1
        /\ k + ((i + 1) - k) - 1 = i
    BY <1>1
  <2>2. r[i + 1] = c[(i + 1) - k] /\ c[(i + 1) - k] = q[k + ((i + 1) - k) - 1]
    BY <1>5, <1>11, <2>1
  <2>. QED  BY <2>1, <2>2
<1>. QED  BY <1>11, <1>12, <1>13, <1>14 DEF r

\* A block comes behind the current one.
LEMMA BlockAdded ==
    ASSUME NEW s, NEW own, Good(s, own), NEW t \in ArenaState, SameHeap(s, t), t.block = s.block,
           t.ptr = s.ptr, t.end = s.end, NEW at \in Nat, NEW bytes \in Nat,
           Unused(s, Zones!Span(at, Zones!sizeofBlock + bytes)),
           t.blocks = Zones!InsertAt(s.blocks, s.block + 1,
                                     [data |-> at + Zones!offsetofData, size |-> bytes])
    PROVE  /\ Good(t, own) /\ Len(t.blocks) = Len(s.blocks) + 1
           /\ t.blocks[s.block + 1] = [data |-> at + Zones!offsetofData, size |-> bytes]
<1>. DEFINE e     == [data |-> at + Zones!offsetofData, size |-> bytes]
            k     == s.block + 1
            m     == Zones!Span(at, Zones!sizeofBlock + bytes)
            given == Zones!BlockSpan(e)
            unused(b) == <<"block", b, 0>>
            src   == [v \in Zones!FreeOwners(t) |-> IF v[1] = "block" THEN <<"block", v[2] - 1, 0>> ELSE v]
<1>1. ArenaOK(s) /\ FreeOK(s) /\ OwnOK(s, own)
  BY DEF Good
<1>2. /\ s.block \in Nat /\ k \in Nat /\ Len(s.blocks) \in Nat /\ s.block <= Len(s.blocks)
      /\ k \in 1..Len(s.blocks) + 1 /\ s.blocks \in Seq(ZoneBlock)
  BY <1>1, ArenaFields
<1>3. /\ e \in ZoneBlock /\ m \in SpanSet
      /\ given.at \in Nat /\ given.size \in Nat /\ Zones!Within(given, m)
  BY DEF ZoneBlock, SpanSet, Zones!Span, Zones!BlockSpan, Zones!Within, Zones!sizeofBlock,
         Zones!offsetofData
<1>4. /\ Len(t.blocks) = Len(s.blocks) + 1 /\ t.blocks[k] = e
      /\ \A b \in 1..s.block : t.blocks[b] = s.blocks[b]
      /\ \A b \in k..Len(s.blocks) : t.blocks[b + 1] = s.blocks[b]
  <2>1. t.blocks = Zones!InsertAt(s.blocks, k, e)
    OBVIOUS
  <2>2. k - 1 = s.block
    BY <1>2
  <2>3. PICK q \in Seq(ZoneBlock) : q = s.blocks
    BY <1>2
  <2>. HIDE DEF k, e
  <2>4. k \in 1..Len(q) + 1 /\ e \in ZoneBlock
    BY <1>2, <1>3, <2>3
  <2>5. /\ Len(Zones!InsertAt(q, k, e)) = Len(q) + 1 /\ Zones!InsertAt(q, k, e)[k] = e
        /\ \A i \in 1..k - 1 : Zones!InsertAt(q, k, e)[i] = q[i]
        /\ \A i \in k..Len(q) : Zones!InsertAt(q, k, e)[i + 1] = q[i]
    BY ONLY q \in Seq(ZoneBlock), <2>4, InsertedBlock
  <2>. QED  BY <2>1, <2>2, <2>3, <2>5
<1>. HIDE DEF e, k, m, given
\* Every block of t is that one or one of s, and those are different ones.
<1>. DEFINE was(c) == IF c < k THEN c ELSE c - 1
<1>5. ASSUME NEW c \in 1..Len(t.blocks), c # k
      PROVE  was(c) \in 1..Len(s.blocks) /\ t.blocks[c] = s.blocks[was(c)]
  <2>1. CASE c < k
    <3>1. c \in 1..s.block /\ c \in 1..Len(s.blocks)
      BY <1>2, <1>4, <2>1 DEF k
    <3>. QED  BY <1>4, <2>1, <3>1
  <2>2. CASE ~(c < k)
    <3>1. c - 1 \in k..Len(s.blocks) /\ (c - 1) + 1 = c /\ c - 1 \in 1..Len(s.blocks)
      BY <1>2, <1>4, <1>5, <2>2
    <3>2. t.blocks[(c - 1) + 1] = s.blocks[c - 1]
      BY <1>4, <3>1
    <3>. QED  BY <2>2, <3>1, <3>2
  <2>. QED  BY <2>1, <2>2
<1>6. ASSUME NEW b \in 1..Len(t.blocks), NEW c \in 1..Len(t.blocks), b # c, b # k, c # k
      PROVE  was(b) # was(c)
  BY <1>2, <1>4, <1>6
<1>7. ASSUME NEW x, x.at \in Nat, x.size \in Nat, InBlock(s, x)
      PROVE  Zones!Apart(x, given) /\ Zones!Apart(given, x)
  <2>1. Unused(s, m)
    BY DEF m
  <2>. QED  BY <1>1, <1>3, <1>7, <2>1, InBlockUnused
<1>8. ASSUME NEW b \in 1..Len(s.blocks)
      PROVE  InBlock(s, Zones!BlockSpan(s.blocks[b])) /\ Zones!BlockSpan(s.blocks[b]) \in SpanSet
  <2>1. s.blocks[b].data \in Nat /\ s.blocks[b].size \in Nat
    BY <1>1, ArenaFields
  <2>2. Zones!Within(Zones!BlockSpan(s.blocks[b]), Zones!BlockSpan(s.blocks[b]))
    BY <2>1 DEF Zones!Within, Zones!BlockSpan, Zones!Span
  <2>. QED  BY <2>1, <2>2 DEF InBlock, SpanSet, Zones!BlockSpan, Zones!Span
<1>9. ASSUME NEW b \in 1..Len(t.blocks), NEW c \in 1..Len(t.blocks), b # c
      PROVE  Zones!Apart(Zones!BlockSpan(t.blocks[b]), Zones!BlockSpan(t.blocks[c]))
  <2>. HIDE DEF was
  <2>1. CASE b = k
    <3>1. was(c) \in 1..Len(s.blocks) /\ t.blocks[c] = s.blocks[was(c)]
      BY <1>5, <1>9, <2>1
    <3>2. Zones!Apart(given, Zones!BlockSpan(s.blocks[was(c)]))
      BY <1>7, <1>8, <3>1, SpanNumbers
    <3>. QED  BY <1>4, <2>1, <3>1, <3>2 DEF given
  <2>2. CASE c = k
    <3>1. was(b) \in 1..Len(s.blocks) /\ t.blocks[b] = s.blocks[was(b)]
      BY <1>5, <1>9, <2>2
    <3>2. Zones!Apart(Zones!BlockSpan(s.blocks[was(b)]), given)
      BY <1>7, <1>8, <3>1, SpanNumbers
    <3>. QED  BY <1>4, <2>2, <3>1, <3>2 DEF given
  <2>3. CASE b # k /\ c # k
    <3>1. /\ was(b) \in 1..Len(s.blocks) /\ t.blocks[b] = s.blocks[was(b)]
          /\ was(c) \in 1..Len(s.blocks) /\ t.blocks[c] = s.blocks[was(c)]
          /\ was(b) # was(c)
      BY <1>5, <1>6, <1>9, <2>3
    <3>. QED  BY <1>1, <3>1 DEF ArenaOK
  <2>. QED  BY <2>1, <2>2, <2>3
<1>10. ArenaOK(t)
  <2>1. s.block > 0 => t.blocks[s.block] = s.blocks[s.block]
    BY <1>2, <1>4, SMTT(30)
  <2>2. t.block <= Len(t.blocks)
    BY <1>2, <1>4
  <2>3. /\ t.block = 0 => t.ptr = 0 /\ t.end = 0
        /\ t.block > 0 => /\ t.blocks[t.block].data <= t.ptr /\ t.ptr <= t.end
                          /\ t.end = t.blocks[t.block].data + t.blocks[t.block].size
    BY <1>1, <2>1 DEF ArenaOK
  <2>. QED  BY <1>9, <2>2, <2>3 DEF ArenaOK
<1>11. ASSUME NEW x, InBlock(s, x)
       PROVE  InBlock(t, x)
  <2>1. PICK b \in 1..Len(s.blocks) : Zones!Within(x, Zones!BlockSpan(s.blocks[b]))
    BY <1>11 DEF InBlock
  <2>2. CASE b < k
    <3>1. b \in 1..s.block /\ b \in 1..Len(t.blocks)
      BY <1>2, <1>4, <2>2 DEF k
    <3>2. Zones!Within(x, Zones!BlockSpan(t.blocks[b]))
      BY <1>4, <2>1, <3>1
    <3>. QED  BY <3>1, <3>2 DEF InBlock
  <2>3. CASE ~(b < k)
    <3>1. b \in k..Len(s.blocks) /\ b + 1 \in 1..Len(t.blocks)
      BY <1>2, <1>4, <2>3
    <3>2. Zones!Within(x, Zones!BlockSpan(t.blocks[b + 1]))
      BY <1>4, <2>1, <3>1
    <3>. QED  BY <3>1, <3>2 DEF InBlock
  <2>. QED  BY <2>2, <2>3
<1>12. ASSUME NEW v \in Zones!FreeOwners(t)
       PROVE  \/ v = unused(k) /\ Zones!FreeSpan(t, v) = given
              \/ /\ src[v] \in Zones!FreeOwners(s) /\ v # unused(k)
                 /\ Zones!FreeSpan(t, v) = Zones!FreeSpan(s, src[v])
                 /\ \/ v = src[v] /\ v[1] # "block"
                    \/ \E b \in k..Len(s.blocks) : v = unused(b + 1) /\ src[v] = unused(b)
  <2>1. CASE s.block # 0 /\ v = <<"rest", 0, 0>>
    <3>1. src[v] = v /\ v # unused(k) /\ v[1] # "block"
      BY <2>1
    <3>2. v \in Zones!FreeOwners(s)
      BY <2>1, FreeOwnersAre
    <3>3. Zones!FreeSpan(t, v) = Zones!FreeSpan(s, v)
      BY <2>1, RestSpan
    <3>. QED  BY <3>1, <3>2, <3>3
  <2>2. ASSUME NEW l \in Zones!Slots, NEW i \in 1..Len(t.slots[l]), v = <<"slot", l, i>>
        PROVE  /\ src[v] \in Zones!FreeOwners(s) /\ v # unused(k)
               /\ Zones!FreeSpan(t, v) = Zones!FreeSpan(s, src[v])
               /\ v = src[v] /\ v[1] # "block"
    <3>1. src[v] = v /\ v # unused(k) /\ v[1] # "block"
      BY <2>2
    <3>2. t.slots = s.slots
      BY DEF SameHeap
    <3>3. v \in Zones!FreeOwners(s)
      BY <2>2, <3>2, FreeOwnersAre
    <3>4. Zones!FreeSpan(t, <<"slot", l, i>>) = Zones!Span(t.slots[l][i], Zones!SlotSize(l))
      BY ONLY SlotSpan
    <3>5. Zones!FreeSpan(s, <<"slot", l, i>>) = Zones!Span(s.slots[l][i], Zones!SlotSize(l))
      BY ONLY SlotSpan
    <3>. QED  BY <2>2, <3>1, <3>2, <3>3, <3>4, <3>5
  <2>3. CASE v = unused(k)
    <3>1. Zones!FreeSpan(t, <<"block", k, 0>>) = Zones!BlockSpan(t.blocks[k])
      BY ONLY UnusedSpan
    <3>. QED  BY <1>4, <2>3, <3>1 DEF given
  <2>4. ASSUME NEW b \in k..Len(s.blocks), v = unused(b + 1)
        PROVE  /\ src[v] \in Zones!FreeOwners(s) /\ v # unused(k)
               /\ Zones!FreeSpan(t, v) = Zones!FreeSpan(s, src[v])
               /\ src[v] = unused(b)
    <3>1. b + 1 # k /\ (b + 1) - 1 = b
      BY <1>2
    <3>2. src[v] = unused(b) /\ v # unused(k)
      BY <2>4, <3>1
    <3>3. Zones!FreeSpan(t, <<"block", b + 1, 0>>) = Zones!BlockSpan(t.blocks[b + 1])
      BY ONLY UnusedSpan
    <3>4. Zones!FreeSpan(s, <<"block", b, 0>>) = Zones!BlockSpan(s.blocks[b])
      BY ONLY UnusedSpan
    <3>5. b \in s.block + 1..Len(s.blocks)
      BY DEF k
    <3>6. unused(b) \in Zones!FreeOwners(s)
      BY <3>5, FreeOwnersAre
    <3>7. t.blocks[b + 1] = s.blocks[b]
      BY <1>4
    <3>. QED  BY <2>4, <3>2, <3>3, <3>4, <3>6, <3>7
  <2>5. \/ s.block # 0 /\ v = <<"rest", 0, 0>>
        \/ \E l \in Zones!Slots : \E i \in 1..Len(t.slots[l]) : v = <<"slot", l, i>>
        \/ \E b \in k..Len(t.blocks) : v = unused(b)
    <3>1. \/ t.block # 0 /\ v = <<"rest", 0, 0>>
          \/ \E l \in Zones!Slots : \E i \in 1..Len(t.slots[l]) : v = <<"slot", l, i>>
          \/ \E b \in t.block + 1..Len(t.blocks) : v = <<"block", b, 0>>
      BY ONLY v \in Zones!FreeOwners(t), FreeOwnersAre
    <3>. QED  BY ONLY <3>1, t.block = s.block DEF k
  <2>6. ASSUME NEW b \in k..Len(t.blocks)
        PROVE  b = k \/ \E c \in k..Len(s.blocks) : b = c + 1
    <3>1. CASE b # k
      <4>1. b - 1 \in k..Len(s.blocks) /\ b = (b - 1) + 1
        BY <1>2, <1>4, <3>1
      <4>. QED  BY <4>1
    <3>. QED  BY <3>1
  <2>7. ASSUME NEW b \in k..Len(t.blocks), v = unused(b)
        PROVE  v = unused(k) \/ \E c \in k..Len(s.blocks) : v = unused(c + 1)
    BY <2>6, <2>7
  <2>. HIDE DEF src, unused
  <2>. QED  BY <2>1, <2>2, <2>3, <2>4, <2>5, <2>7
<1>13. ASSUME NEW v \in Zones!FreeOwners(t)
       PROVE  \/ Zones!FreeSpan(t, v) = given
              \/ \E u \in Zones!FreeOwners(s) : Zones!FreeSpan(t, v) = Zones!FreeSpan(s, u)
  <2>. HIDE DEF src, unused
  <2>. QED  BY <1>12
<1>14. InBlock(t, given)
  <2>1. k \in 1..Len(t.blocks)
    BY <1>2, <1>4
  <2>2. Zones!Within(given, Zones!BlockSpan(t.blocks[k]))
    BY <1>3, <1>4 DEF given, Zones!Within
  <2>. QED  BY <2>1, <2>2 DEF InBlock
<1>15. ASSUME NEW u \in Zones!FreeOwners(s)
       PROVE  Zones!Apart(given, Zones!FreeSpan(s, u)) /\ Zones!Apart(Zones!FreeSpan(s, u), given)
  <2>1. InBlock(s, Zones!FreeSpan(s, u))
    BY <1>1 DEF FreeOK
  <2>2. Zones!FreeSpan(s, u).at \in Nat /\ Zones!FreeSpan(s, u).size \in Nat
    BY <1>1, FreeSpansOK, SpanNumbers
  <2>. QED  BY <1>7, <2>1, <2>2
<1>16. FreeOK(t)
  <2>1. ASSUME NEW v \in Zones!FreeOwners(t)
        PROVE  InBlock(t, Zones!FreeSpan(t, v))
    BY <1>1, <1>11, <1>13, <1>14 DEF FreeOK
  <2>2. ASSUME NEW v \in Zones!FreeOwners(t), NEW u \in Zones!FreeOwners(t), v # u
        PROVE  Zones!Apart(Zones!FreeSpan(t, v), Zones!FreeSpan(t, u))
    <3>1. CASE v = unused(k)
      <4>. HIDE DEF src, unused
      <4>1. Zones!FreeSpan(t, v) = given
        BY <1>12, <3>1
      <4>2. src[u] \in Zones!FreeOwners(s) /\ Zones!FreeSpan(t, u) = Zones!FreeSpan(s, src[u])
        BY <1>12, <2>2, <3>1
      <4>. QED  BY <1>15, <4>1, <4>2
    <3>2. CASE u = unused(k)
      <4>. HIDE DEF src, unused
      <4>1. Zones!FreeSpan(t, u) = given
        BY <1>12, <3>2
      <4>2. src[v] \in Zones!FreeOwners(s) /\ Zones!FreeSpan(t, v) = Zones!FreeSpan(s, src[v])
        BY <1>12, <2>2, <3>2
      <4>. QED  BY <1>15, <4>1, <4>2
    <3>3. CASE v # unused(k) /\ u # unused(k)
      <4>1. \A b, c \in k..Len(s.blocks) : unused(b) = unused(c) => b = c
        OBVIOUS
      <4>2. \A b \in k..Len(s.blocks) : unused(b)[1] = "block"
        OBVIOUS
      <4>. HIDE DEF src, unused
      <4>3. ASSUME NEW w \in Zones!FreeOwners(t), w # unused(k)
            PROVE  /\ src[w] \in Zones!FreeOwners(s) /\ Zones!FreeSpan(t, w) = Zones!FreeSpan(s, src[w])
                   /\ \/ w = src[w] /\ w[1] # "block"
                      \/ \E b \in k..Len(s.blocks) : w = unused(b + 1) /\ src[w] = unused(b)
        BY <1>12, <4>3
      <4>4. src[v] # src[u]
        BY <2>2, <3>3, <4>1, <4>2, <4>3
      <4>. QED  BY <1>1, <3>3, <4>3, <4>4 DEF FreeOK
    <3>. QED  BY <3>1, <3>2, <3>3
  <2>. QED  BY <2>1, <2>2 DEF FreeOK
<1>17. OwnOK(t, own)
  <2>1. \A x : InDynamic(t, x) <=> InDynamic(s, x)
    BY DEF InDynamic, SameHeap
  <2>2. ASSUME NEW o \in DOMAIN own
        PROVE  Zones!Apart(own[o], given)
    <3>1. /\ own[o] \in Owned
          /\ IF own[o].dyn THEN InDynamic(s, own[o]) ELSE InBlock(s, own[o])
      BY <1>1 DEF OwnOK
    <3>2. own[o].at \in Nat /\ own[o].size \in Nat
      BY <3>1, OwnedNumbers
    <3>3. Unused(s, m)
      BY DEF m
    <3>. QED  BY <1>1, <1>3, <3>1, <3>2, <3>3, InBlockUnused, InDynamicUnused
  <2>. HIDE DEF src, unused
  <2>3. ASSUME NEW o \in DOMAIN own, NEW v \in Zones!FreeOwners(t)
        PROVE  Zones!Apart(own[o], Zones!FreeSpan(t, v))
    BY <1>1, <1>13, <2>2 DEF OwnOK
  <2>. QED  BY <1>1, <1>11, <2>1, <2>3 DEF OwnOK
<1>. QED  BY <1>4, <1>10, <1>16, <1>17 DEF Good, e, k

-----------------------------------------------------------------------------
(* Sizes.                                                                  *)

LEMMA AlignedToOne ==
    ASSUME NEW x \in Nat
    PROVE  Zones!AlignTo(x, 1) = x
  BY DEF Zones!AlignTo

LEMMA AlignedTo32 ==
    ASSUME NEW x \in Nat
    PROVE  Zones!AlignTo(x, 32) \in Nat /\ x <= Zones!AlignTo(x, 32) /\ Zones!AlignTo(x, 32) < x + 32
  BY DEF Zones!AlignTo

\* The slot that a request looks in holds chunks of what it is rounded to.
LEMMA SlotOfSize ==
    ASSUME NEW n \in Nat, 0 < n, n <= 512
    PROVE  /\ Zones!Slot(n) \in Zones!Slots
           /\ Zones!SlotSize(Zones!Slot(n)) = Zones!AllocatedSize(n)
           /\ Zones!AllocatedSize(n) \in Nat /\ n <= Zones!AllocatedSize(n)
           /\ Zones!AllocatedSize(n) <= 512
<1>1. CASE n <= 128
  <2>1. PICK q \in Nat : q = (n - 1) \div 32
    BY SMT
  <2>2. 32 * q <= n - 1 /\ n - 1 < 32 * q + 32
    BY <2>1, SMT
  <2>3. q \in 0..3
    BY <1>1, <2>2, SMT
  <2>4. (n + 32 - 1) \div 32 = q + 1
    BY <2>2, SMT
  <2>5. Zones!Slot(n) = q
    BY <1>1, <2>1 DEF Zones!Slot, Zones!kLoMaxSize, Zones!kLoGranularity
  <2>6. Zones!AllocatedSize(n) = (q + 1) * 32
    BY <1>1, <2>4 DEF Zones!AllocatedSize, Zones!AlignTo, Zones!kLoMaxSize, Zones!kLoGranularity
  <2>7. Zones!SlotSize(q) = (q + 1) * 32
    BY <2>3 DEF Zones!SlotSize, Zones!kLoGranularity
  <2>8. q \in Zones!Slots
    BY <2>3 DEF Zones!Slots
  <2>9. (q + 1) * 32 \in Nat /\ n <= (q + 1) * 32 /\ (q + 1) * 32 <= 512
    BY <2>2, <2>3, SMT
  <2>. QED  BY <2>5, <2>6, <2>7, <2>8, <2>9
<1>2. CASE ~(n <= 128)
  <2>1. PICK q \in Nat : q = (n - 128 - 1) \div 64
    BY <1>2, SMT
  <2>2. 64 * q <= n - 129 /\ n - 129 < 64 * q + 64
    BY <1>2, <2>1, SMT
  <2>3. q \in 0..5
    BY <1>2, <2>2, SMT
  <2>4. (n + 64 - 1) \div 64 = q + 3
    BY <1>2, <2>2, SMT
  <2>5. Zones!Slot(n) = q + 4
    BY <1>2, <2>1 DEF Zones!Slot, Zones!kLoMaxSize, Zones!kHiGranularity
  <2>6. Zones!AllocatedSize(n) = (q + 3) * 64
    BY <1>2, <2>4 DEF Zones!AllocatedSize, Zones!AlignTo, Zones!kLoMaxSize, Zones!kHiGranularity
  <2>7. Zones!SlotSize(q + 4) = (q + 3) * 64
    BY <2>3 DEF Zones!SlotSize, Zones!kLoGranularity, Zones!kLoMaxSize, Zones!kHiGranularity
  <2>8. q + 4 \in Zones!Slots
    BY <2>3 DEF Zones!Slots
  <2>9. (q + 3) * 64 \in Nat /\ n <= (q + 3) * 64 /\ (q + 3) * 64 <= 512
    BY <2>2, <2>3, SMT
  <2>. QED  BY <2>5, <2>6, <2>7, <2>8, <2>9
<1>. QED  BY <1>1, <1>2

\* What is rounded already stays, and rounding keeps the order.
LEMMA Rounded ==
    ASSUME NEW n \in Nat, NEW m \in Nat, 0 < m, m <= Zones!AllocatedSize(n), n <= 512, 0 < n
    PROVE  m <= 512 /\ Zones!AllocatedSize(m) <= Zones!AllocatedSize(n)
<1>1. m <= 512
  BY SlotOfSize
<1>2. CASE n <= 128
  <2>1. PICK q \in Nat : q = (n + 32 - 1) \div 32
    BY SMT
  <2>2. 32 * q <= n + 31 /\ n + 31 < 32 * q + 32
    BY <2>1, SMT
  <2>3. Zones!AllocatedSize(n) = q * 32
    BY <1>2, <2>1 DEF Zones!AllocatedSize, Zones!AlignTo, Zones!kLoMaxSize, Zones!kLoGranularity
  <2>4. m <= 128
    BY <1>2, <2>2, <2>3
  <2>5. PICK r \in Nat : r = (m + 32 - 1) \div 32
    BY SMT
  <2>6. 32 * r <= m + 31
    BY <2>5, SMT
  <2>7. Zones!AllocatedSize(m) = r * 32
    BY <2>4, <2>5 DEF Zones!AllocatedSize, Zones!AlignTo, Zones!kLoMaxSize, Zones!kLoGranularity
  <2>8. m <= q * 32
    BY <2>3
  <2>9. r <= q
    BY <2>6, <2>8, SMT
  <2>10. r * 32 <= q * 32
    BY <2>9
  <2>. QED  BY <1>1, <2>3, <2>7, <2>10
<1>3. CASE ~(n <= 128)
  <2>1. PICK q \in Nat : q = (n + 64 - 1) \div 64
    BY SMT
  <2>2. 64 * q <= n + 63 /\ n + 63 < 64 * q + 64
    BY <2>1, SMT
  <2>3. Zones!AllocatedSize(n) = q * 64
    BY <1>3, <2>1 DEF Zones!AllocatedSize, Zones!AlignTo, Zones!kLoMaxSize, Zones!kHiGranularity
  <2>4. CASE m <= 128
    <3>1. PICK r \in Nat : r = (m + 32 - 1) \div 32
      BY SMT
    <3>2. 32 * r <= m + 31
      BY <3>1, SMT
    <3>3. Zones!AllocatedSize(m) = r * 32
      BY <2>4, <3>1 DEF Zones!AllocatedSize, Zones!AlignTo, Zones!kLoMaxSize, Zones!kLoGranularity
    <3>4. r <= 4
      BY <2>4, <3>2, SMT
    <3>5. q >= 3
      BY <1>3, <2>2, SMT
    <3>. QED  BY <1>1, <2>3, <3>3, <3>4, <3>5
  <2>5. CASE ~(m <= 128)
    <3>1. PICK r \in Nat : r = (m + 64 - 1) \div 64
      BY SMT
    <3>2. 64 * r <= m + 63
      BY <3>1, SMT
    <3>3. Zones!AllocatedSize(m) = r * 64
      BY <2>5, <3>1 DEF Zones!AllocatedSize, Zones!AlignTo, Zones!kLoMaxSize, Zones!kHiGranularity
    <3>4. m <= q * 64
      BY <2>3
    <3>5. r <= q
      BY <3>2, <3>4, SMT
    <3>6. r * 64 <= q * 64
      BY <3>5
    <3>. QED  BY <1>1, <2>3, <3>3, <3>6
  <2>. QED  BY <2>4, <2>5
<1>. QED  BY <1>2, <1>3

\* What remains of a block goes to a slot whose chunks are no larger.
LEMMA SlotForRest ==
    ASSUME NEW d \in Nat, 32 <= d, d <= 128
    PROVE  Zones!SlotFor(d) \in Zones!Slots /\ Zones!SlotSize(Zones!SlotFor(d)) <= d
<1>1. PICK q \in Nat : q = (d - 32) \div 32
  BY SMT
<1>2. 32 * q <= d - 32
  BY <1>1, SMT
<1>3. q \in 0..3
  BY <1>2, SMT
<1>4. Zones!SlotFor(d) = q
  BY <1>1 DEF Zones!SlotFor, Zones!kLoGranularity
<1>5. Zones!SlotSize(q) = (q + 1) * 32
  BY <1>3 DEF Zones!SlotSize, Zones!kLoGranularity
<1>6. q \in Zones!Slots
  BY <1>3 DEF Zones!Slots
<1>7. (q + 1) * 32 <= d
  BY <1>2, SMT
<1>. QED  BY <1>4, <1>5, <1>6, <1>7

-----------------------------------------------------------------------------
(* The operators.                                                          *)

\* A new owner may have as much as that, if the operator has given something.
GivenOK(t, own, new, size) ==
    /\ Good(t, own)
    /\ t.p # Zones!nullptr => \A x \in 1..size : Good(t, Extend(own, new, Chunk(t.p, x)))

\* What else an operator is given and leaves in the record does not matter.
LEMMA GoodSame ==
    ASSUME NEW s, NEW own, Good(s, own), NEW t \in ArenaState, t.blocks = s.blocks, t.block = s.block,
           t.ptr = s.ptr, t.end = s.end, SameHeap(s, t)
    PROVE  Good(t, own)
<1>1. ArenaOK(s) /\ FreeOK(s) /\ OwnOK(s, own)
  BY DEF Good
<1>2. ArenaOK(t)
  BY <1>1 DEF ArenaOK
<1>3. Zones!FreeOwners(t) = Zones!FreeOwners(s)
  BY DEF Zones!FreeOwners, SameHeap
<1>4. \A u \in Zones!FreeOwners(s) : Zones!FreeSpan(t, u) = Zones!FreeSpan(s, u)
  BY DEF Zones!FreeSpan, SameHeap
<1>5. \A y : (InBlock(t, y) <=> InBlock(s, y)) /\ (InDynamic(t, y) <=> InDynamic(s, y))
  BY DEF InBlock, InDynamic, SameHeap
<1>6. FreeOK(t)
  BY <1>1, <1>3, <1>4, <1>5 DEF FreeOK
<1>7. OwnOK(t, own)
  BY <1>1, <1>3, <1>4, <1>5 DEF OwnOK
<1>. QED  BY <1>2, <1>6, <1>7 DEF Good

LEMMA GivesLess ==
    ASSUME NEW s, ArenaOK(s), NEW t, NEW at \in Nat, NEW size \in Nat,
           Gives(s, t, Chunk(at, size)), NEW less \in Nat, less <= size
    PROVE  Gives(s, t, Chunk(at, less))
<1>1. PICK src, from : Cut(s, t, src) /\ GivenFrom(s, t, src, from, Chunk(at, size))
  BY DEF Gives
<1>2. ArenaOK(t) /\ Kept(s, t)
  BY DEF Gives
<1>3. /\ Chunk(at, size).at = at /\ Chunk(at, size).size = size
      /\ Chunk(at, less).at = at /\ Chunk(at, less).size = less
  BY DEF Chunk
<1>4. /\ from \in Zones!FreeOwners(s)
      /\ Zones!Within(Chunk(at, size), Zones!FreeSpan(s, from))
      /\ \A o \in Zones!FreeOwners(t) : src[o] = from => Zones!Apart(Chunk(at, size), Zones!FreeSpan(t, o))
  BY <1>1 DEF GivenFrom
<1>5. Zones!FreeSpan(s, from).at \in Nat /\ Zones!FreeSpan(s, from).size \in Nat
  BY <1>4, FreeSpansOK, SpanNumbers
<1>6. Zones!Within(Chunk(at, less), Zones!FreeSpan(s, from))
  BY <1>3, <1>4, <1>5 DEF Zones!Within
<1>7. ASSUME NEW o \in Zones!FreeOwners(t), src[o] = from
      PROVE  Zones!Apart(Chunk(at, less), Zones!FreeSpan(t, o))
  <2>1. Zones!FreeSpan(t, o).at \in Nat /\ Zones!FreeSpan(t, o).size \in Nat
    BY <1>2, FreeSpansOK, SpanNumbers
  <2>2. Zones!Apart(Chunk(at, size), Zones!FreeSpan(t, o))
    BY <1>4, <1>7
  <2>. QED  BY <1>3, <2>1, <2>2 DEF Zones!Apart
<1>8. GivenFrom(s, t, src, from, Chunk(at, less))
  BY <1>4, <1>6, <1>7 DEF GivenFrom
<1>. QED  BY <1>1, <1>2, <1>8 DEF Gives

LEMMA GivesOK ==
    ASSUME NEW s, NEW own, Good(s, own), NEW t, NEW size \in Nat \ {0}, t.p \in Nat,
           Gives(s, t, Chunk(t.p, size)), NEW new, UserOwner(new), new \notin DOMAIN own
    PROVE  GivenOK(t, own, new, size)
<1>1. PICK p \in Nat : p = t.p
  OBVIOUS
<1>2. Gives(s, t, Chunk(p, size))
  BY <1>1
<1>3. Good(t, own)
  BY <1>2, GoodGiven
<1>4. ASSUME NEW x \in 1..size
      PROVE  Good(t, Extend(own, new, Chunk(p, x)))
  <2>1. x \in Nat \ {0} /\ x <= size
    OBVIOUS
  <2>2. Gives(s, t, Chunk(p, x))
    BY <1>2, <2>1, GivesLess DEF Good
  <2>. QED  BY <2>1, <2>2, GoodGiven
<1>. QED  BY <1>1, <1>3, <1>4 DEF GivenOK

\* Zone moves on to the next block.
LEMMA UseBlockOK ==
    ASSUME NEW s, NEW own, Good(s, own), blockAlignment = 1, NEW size \in Nat \ {0},
           s.block < Len(s.blocks), size <= s.blocks[s.block + 1].size,
           NEW new, UserOwner(new), new \notin DOMAIN own
    PROVE  LET t == Zones!UseBlock(s, s.block + 1, size) IN
           t \in ArenaState /\ t.allocated = s.allocated /\ GivenOK(t, own, new, size)
<1>. DEFINE t == Zones!UseBlock(s, s.block + 1, size)
<1>1. ArenaOK(s) /\ s \in ArenaState
  BY DEF Good, ArenaOK
<1>2. PICK k \in Nat : k = s.block + 1
  BY <1>1, ArenaFields
<1>3. k \in 1..Len(s.blocks) /\ s.blocks[k].data \in Nat /\ s.blocks[k].size \in Nat
  <2>1. s.block \in Nat /\ Len(s.blocks) \in Nat
    BY <1>1, ArenaFields
  <2>2. k \in 1..Len(s.blocks)
    BY <1>2, <2>1
  <2>. QED  BY <1>1, <2>2, ArenaFields
<1>4. PICK p \in Nat : p = s.blocks[k].data
  BY <1>3
<1>5. Zones!AlignTo(s.blocks[k].data, blockAlignment) = p
  BY <1>4, AlignedToOne
<1>6. t = [s EXCEPT !.block = k, !.p = p, !.ptr = p + size, !.end = s.blocks[k].data + s.blocks[k].size]
  BY <1>2, <1>5 DEF Zones!UseBlock
<1>. HIDE DEF t
<1>7. t \in ArenaState
  <2>1. PICK tail \in Nat : tail = s.blocks[k].data + s.blocks[k].size
    BY <1>3
  <2>2. p + size \in Nat
    OBVIOUS
  <2>3. t = [s EXCEPT !.block = k, !.p = p, !.ptr = p + size, !.end = tail]
    BY <1>6, <2>1
  <2>. QED  BY <1>1, <2>2, <2>3 DEF ArenaState
<1>8. /\ t.blocks = s.blocks /\ t.block = k /\ t.p = p /\ t.ptr = p + size
      /\ t.end = s.blocks[k].data + s.blocks[k].size /\ t.slots = s.slots
      /\ t.dynamicBlocks = s.dynamicBlocks /\ t.allocated = s.allocated
  BY <1>1, <1>6 DEF ArenaState
<1>9. Gives(s, t, Chunk(s.blocks[t.block].data, size))
  <2>1. t.block = s.block + 1 /\ t.block <= Len(s.blocks) /\ SameHeap(s, t) /\ size \in Nat
    BY <1>2, <1>3, <1>8 DEF SameHeap
  <2>2. size <= s.blocks[t.block].size /\ t.ptr = s.blocks[t.block].data + size
    BY <1>2, <1>4, <1>8
  <2>3. t.end = s.blocks[t.block].data + s.blocks[t.block].size
    BY <1>8
  <2>. QED  BY <1>1, <1>7, <1>8, <2>1, <2>2, <2>3, NextUsed
<1>10. Gives(s, t, Chunk(t.p, size)) /\ t.p \in Nat
  BY <1>4, <1>8, <1>9
<1>11. GivenOK(t, own, new, size)
  BY <1>10, GivesOK
<1>. QED  BY <1>7, <1>8, <1>11 DEF t

LEMMA AllocBlockOK ==
    ASSUME NEW s, NEW own, Good(s, own), s.p = Zones!nullptr, Zones!ArenaAssumption,
           NEW size \in Nat \ {0}, NEW at \in Nat,
           NEW new, UserOwner(new), new \notin DOMAIN own,
           Unused(s, Zones!AllocBlock(s, size, at).malloced)
    PROVE  LET t == Zones!AllocBlock(s, size, at) IN
           t \in ArenaState /\ t.allocated = s.allocated /\ GivenOK(t, own, new, size)
<1>. DEFINE t == Zones!AllocBlock(s, size, at)
<1>1. ArenaOK(s) /\ s \in ArenaState
  BY DEF Good, ArenaOK
<1>2. s.block \in Nat /\ Len(s.blocks) \in Nat /\ s.block <= Len(s.blocks)
  BY <1>1, ArenaFields
<1>3. blockAlignment = 1 /\ blockSize \in Nat
  BY DEF Zones!ArenaAssumption
<1>4. CASE Zones!NextFits(s, size)
  <2>1. t = Zones!UseBlock(s, s.block + 1, size)
    BY <1>4 DEF Zones!AllocBlock
  <2>2. s.block < Len(s.blocks) /\ size <= s.blocks[s.block + 1].size
    BY <1>4 DEF Zones!NextFits
  <2>. QED  BY <1>3, <2>1, <2>2, UseBlockOK
<1>5. CASE ~Zones!NextFits(s, size) /\ at = Zones!nullptr
  <2>1. t = s
    BY <1>5 DEF Zones!AllocBlock
  <2>. QED  BY <1>1, <2>1 DEF GivenOK
<1>6. CASE ~Zones!NextFits(s, size) /\ at # Zones!nullptr
  <2>. DEFINE u == Zones!NewBlock(s, size, at)
  <2>1. t = Zones!UseBlock(u, s.block + 1, size)
    BY <1>6 DEF Zones!AllocBlock
  <2>2. PICK bytes \in Nat : bytes = Zones!Larger(blockSize, size) + blockAlignment
    BY <1>3 DEF Zones!Larger
  <2>3. size <= bytes
    BY <1>3, <2>2 DEF Zones!Larger
  <2>4. PICK blks : blks = Zones!InsertAt(s.blocks, s.block + 1,
                                          [data |-> at + Zones!offsetofData, size |-> bytes])
    OBVIOUS
  <2>5. u = [s EXCEPT !.blocks = blks, !.malloced = Zones!Span(at, Zones!sizeofBlock + bytes)]
    BY <2>2, <2>4 DEF Zones!NewBlock
  <2>6. blks \in Seq(ZoneBlock) /\ [data |-> at + Zones!offsetofData, size |-> bytes] \in ZoneBlock
    <3>1. PICK e \in ZoneBlock : e = [data |-> at + Zones!offsetofData, size |-> bytes]
      <4>1. at + Zones!offsetofData \in Nat
        BY DEF Zones!offsetofData
      <4>. QED  BY <4>1 DEF ZoneBlock
    <3>2. PICK k \in 1..Len(s.blocks) + 1 : k = s.block + 1
      BY <1>2
    <3>3. PICK q \in Seq(ZoneBlock) : q = s.blocks
      BY <1>1, ArenaFields
    <3>4. Zones!InsertAt(q, k, e) \in Seq(ZoneBlock)
      BY ONLY e \in ZoneBlock, q \in Seq(ZoneBlock), <3>2, <3>3, k \in 1..Len(s.blocks) + 1, InsertedBlock
    <3>. QED  BY <2>4, <3>1, <3>2, <3>3, <3>4
  <2>. HIDE DEF u
  <2>7. u \in ArenaState
    <3>1. Zones!Span(at, Zones!sizeofBlock + bytes) \in SpanSet
      BY DEF SpanSet, Zones!Span, Zones!sizeofBlock
    <3>. QED  BY <1>1, <2>5, <2>6, <3>1 DEF ArenaState
  <2>8. /\ u.blocks = blks /\ u.block = s.block /\ u.ptr = s.ptr /\ u.end = s.end
        /\ u.slots = s.slots /\ u.dynamicBlocks = s.dynamicBlocks
        /\ u.allocated = s.allocated /\ u.p = s.p
        /\ u.malloced = Zones!Span(at, Zones!sizeofBlock + bytes)
    BY <1>1, <2>5 DEF ArenaState
  <2>9. t.malloced = u.malloced
    BY <2>1, <2>7 DEF Zones!UseBlock, ArenaState
  <2>10. Unused(s, Zones!Span(at, Zones!sizeofBlock + bytes))
    BY <2>8, <2>9
  <2>11. /\ Good(u, own) /\ Len(u.blocks) = Len(s.blocks) + 1
         /\ u.blocks[s.block + 1] = [data |-> at + Zones!offsetofData, size |-> bytes]
    BY <2>4, <2>7, <2>8, <2>10, BlockAdded DEF SameHeap
  <2>12. u.block < Len(u.blocks) /\ size <= u.blocks[u.block + 1].size
    BY <1>2, <2>3, <2>8, <2>11
  <2>. HIDE DEF t
  <2>13. t = Zones!UseBlock(u, u.block + 1, size)
    BY <2>1, <2>8
  <2>14. t \in ArenaState /\ t.allocated = u.allocated /\ GivenOK(t, own, new, size)
    BY <1>3, <2>11, <2>12, <2>13, UseBlockOK
  <2>. QED  BY <2>8, <2>14 DEF t
<1>. QED  BY <1>4, <1>5, <1>6

LEMMA AllocOK ==
    ASSUME NEW s, NEW own, Good(s, own), s.p = Zones!nullptr, Zones!ArenaAssumption,
           NEW size \in Nat \ {0}, NEW at \in Nat,
           NEW new, UserOwner(new), new \notin DOMAIN own,
           Unused(s, Zones!Alloc(s, size, at).malloced)
    PROVE  LET t == Zones!Alloc(s, size, at) IN
           t \in ArenaState /\ GivenOK(t, own, new, size)
<1>. DEFINE t == Zones!Alloc(s, size, at)
<1>1. ArenaOK(s) /\ s \in ArenaState
  BY DEF Good, ArenaOK
<1>2. s.ptr \in Nat /\ s.end \in Nat
  BY <1>1, ArenaFields
<1>3. CASE s.end - s.ptr < size
  <2>1. t = Zones!AllocBlock(s, size, at)
    BY <1>3 DEF Zones!Alloc
  <2>. HIDE DEF t
  <2>. QED  BY <2>1, AllocBlockOK DEF t
<1>4. CASE ~(s.end - s.ptr < size)
  <2>1. PICK next \in Nat : next = s.ptr + size
    BY <1>2
  <2>2. t = [s EXCEPT !.p = s.ptr, !.ptr = next]
    BY <1>4, <2>1 DEF Zones!Alloc
  <2>. HIDE DEF t
  <2>3. t \in ArenaState
    BY <1>1, <1>2, <2>2 DEF ArenaState
  <2>4. /\ t.blocks = s.blocks /\ t.block = s.block /\ t.p = s.ptr /\ t.ptr = next /\ t.end = s.end
        /\ t.slots = s.slots /\ t.dynamicBlocks = s.dynamicBlocks
    BY <1>1, <2>2 DEF ArenaState
  <2>5. s.block # 0
    BY <1>1, <1>2, <1>4 DEF ArenaOK
  <2>6. t.ptr = s.ptr + size /\ t.ptr <= s.end
    BY <1>2, <1>4, <2>1, <2>4
  <2>7. Gives(s, t, Chunk(s.ptr, size))
    BY <1>1, <1>2, <2>3, <2>4, <2>5, <2>6, Advanced DEF SameHeap
  <2>8. GivenOK(t, own, new, size)
    BY <1>2, <2>4, <2>7, GivesOK
  <2>. QED  BY <2>3, <2>8 DEF t
<1>. QED  BY <1>3, <1>4

\* What remains of the current block goes to the slots.
LEMMA DistributedOK ==
    ASSUME NEW s, NEW own, Good(s, own), s.block # 0, NEW p \in Nat, NEW remain \in Nat,
           s.ptr <= p, p + remain = s.end
    PROVE  LET t == Zones!Distributed(s, p, remain) IN
           /\ t \in ArenaState /\ Good(t, own) /\ t.blocks = s.blocks
           /\ t.dynamicBlocks = s.dynamicBlocks /\ t.p = s.p /\ t.allocated = s.allocated
<1>. DEFINE t    == Zones!Distributed(s, p, remain)
            n    == remain \div 128
            rest == remain % 128
            k    == Zones!SlotFor(128)
            l    == Zones!SlotFor(rest)
            new  == [i \in 1..n |-> p + (n - i) * 128]
            next == p + n * 128
            full == [s EXCEPT !.slots = [s.slots EXCEPT ![k] = new \o s.slots[k]], !.ptr = next]
            more == [full EXCEPT !.slots = [full.slots EXCEPT ![l] = <<next>> \o full.slots[l]]]
            u    == [more EXCEPT !.ptr = p + remain]
<1>0. t = IF rest < 32 THEN full ELSE u
  BY DEF Zones!Distributed, Zones!Pushed, Zones!kLoMaxSize, Zones!kLoGranularity
<1>1. ArenaOK(s) /\ s \in ArenaState
  BY DEF Good, ArenaOK
<1>2. n \in Nat /\ rest \in Nat /\ remain = n * 128 + rest /\ rest < 128
  BY SMT
<1>3. k \in Zones!Slots /\ Zones!SlotSize(k) <= 128
  BY SlotForRest
<1>4. \A i \in 1..n : new[i] = p + (n - i) * 128
  OBVIOUS
<1>6. next \in Nat /\ next = p + n * 128
  BY <1>2
<1>. HIDE DEF n, rest, k, l, next
<1>5. /\ new \in Seq(Nat) /\ Len(new) = n
      /\ \A i \in 1..n : new[i] = p + (n - i) * 128
  <2>1. \A i \in 1..n : p + (n - i) * 128 \in Nat
    BY <1>2
  <2>2. new \in [1..n -> Nat]
    BY <2>1
  <2>3. new \in Seq(Nat)
    BY <1>2, <2>2, SeqDef
  <2>4. Len(new) = n
    BY <1>2, <2>3, LenProperties
  <2>. QED  BY <1>4, <2>3, <2>4
<1>7. full = [s EXCEPT !.slots = [s.slots EXCEPT ![k] = new \o s.slots[k]], !.ptr = next]
  OBVIOUS
<1>. HIDE DEF new, full, u, t
<1>8. /\ s.slots \in [Zones!Slots -> Seq(Nat)] /\ s.slots[k] \in Seq(Nat)
      /\ s.ptr \in Nat /\ s.end \in Nat /\ Zones!SlotSize(k) \in Nat
  BY <1>1, <1>3, ArenaFields, SlotSizes
<1>9. full \in ArenaState
  <2>1. new \o s.slots[k] \in Seq(Nat)
    BY <1>5, <1>8, ConcatProperties
  <2>2. PICK all \in Seq(Nat) : all = new \o s.slots[k]
    BY <2>1
  <2>3. PICK new2 \in [Zones!Slots -> Seq(Nat)] : new2 = [s.slots EXCEPT ![k] = new \o s.slots[k]]
    BY <1>8, <2>2
  <2>4. full = [s EXCEPT !.slots = new2, !.ptr = next]
    BY <1>7, <2>3
  <2>. QED  BY <1>1, <1>6, <2>4, ZenonT(40) DEF ArenaState
<1>10. /\ full.blocks = s.blocks /\ full.block = s.block /\ full.ptr = next /\ full.end = s.end
       /\ full.slots = [s.slots EXCEPT ![k] = new \o s.slots[k]]
       /\ full.dynamicBlocks = s.dynamicBlocks
       /\ full.p = s.p /\ full.allocated = s.allocated
  BY <1>1, <1>7 DEF ArenaState
<1>11. Good(full, own)
  <2>1. s.ptr <= full.ptr /\ full.ptr <= s.end
    BY <1>2, <1>6, <1>8, <1>10
  <2>2. ASSUME NEW i \in 1..Len(new)
        PROVE  s.ptr <= new[i] /\ new[i] + Zones!SlotSize(k) <= full.ptr
    <3>1. i \in 1..n /\ new[i] = p + (n - i) * 128
      BY <1>5
    <3>2. p <= p + (n - i) * 128 /\ p + (n - i) * 128 + 128 <= next
      BY <1>2, <1>6, <3>1
    <3>3. new[i] >= p /\ new[i] + 128 <= next
      BY <3>1, <3>2
    <3>4. new[i] \in Nat
      BY <1>2, <3>1
    <3>. QED  BY <1>3, <1>6, <1>8, <1>10, <3>3, <3>4, SMTT(30)
  <2>3. ASSUME NEW i \in 1..Len(new), NEW j \in 1..Len(new), i # j
        PROVE  \/ new[i] + Zones!SlotSize(k) <= new[j]
               \/ new[j] + Zones!SlotSize(k) <= new[i]
    <3>1. new[i] = p + (n - i) * 128 /\ new[j] = p + (n - j) * 128
      BY <1>5
    <3>2. n \in Nat /\ i \in 1..n /\ j \in 1..n
      BY <1>2, <1>5
    <3>3. new[i] + 128 <= new[j] \/ new[j] + 128 <= new[i]
      BY <2>3, <3>1, <3>2
    <3>4. new[i] \in Nat /\ new[j] \in Nat
      BY <3>1, <3>2
    <3>. QED  BY <1>3, <1>8, <3>3, <3>4
  <2>4. Cuts(s, full)
    BY <1>1, <1>3, <1>5, <1>9, <1>10, <2>1, <2>2, <2>3, Carved
  <2>. QED  BY <2>4, GoodCut
<1>12. CASE rest < 32
  <2>1. t = full
    BY <1>0, <1>12
  <2>. QED  BY <1>9, <1>10, <1>11, <2>1 DEF t
<1>13. CASE ~(rest < 32)
  <2>1. l \in Zones!Slots /\ Zones!SlotSize(l) <= rest
    BY <1>2, <1>13, SlotForRest DEF l
  <2>2. u = [full EXCEPT !.slots = [full.slots EXCEPT ![l] = <<next>> \o full.slots[l]], !.ptr = p + remain]
    BY <1>9 DEF u, ArenaState
  <2>3. t = u
    BY <1>0, <1>13
  <2>4. /\ full.slots \in [Zones!Slots -> Seq(Nat)] /\ full.slots[l] \in Seq(Nat)
        /\ Zones!SlotSize(l) \in Nat
    BY <1>9, <2>1, SlotSizes DEF ArenaState
  <2>5. PICK one \in Seq(Nat) : one = <<next>> /\ Len(one) = 1 /\ one[1] = next
    <3>1. PICK x \in Nat : x = next
      BY <1>6
    <3>2. <<x>> \in Seq(Nat) /\ Len(<<x>>) = 1 /\ <<x>>[1] = x
      OBVIOUS
    <3>. QED  BY <3>1, <3>2
  <2>6. u \in ArenaState
    <3>1. PICK all \in Seq(Nat) : all = one \o full.slots[l]
      BY <2>4, <2>5, ConcatProperties
    <3>2. PICK new2 \in [Zones!Slots -> Seq(Nat)] : new2 = [full.slots EXCEPT ![l] = <<next>> \o full.slots[l]]
      BY <2>4, <2>5, <3>1
    <3>3. PICK tail \in Nat : tail = p + remain
      OBVIOUS
    <3>4. u = [full EXCEPT !.slots = new2, !.ptr = tail]
      BY <2>2, <3>2, <3>3
    <3>. QED  BY <1>9, <3>4 DEF ArenaState
  <2>7. /\ u.blocks = s.blocks /\ u.block = s.block /\ u.ptr = p + remain /\ u.end = s.end
        /\ u.slots = [full.slots EXCEPT ![l] = one \o full.slots[l]]
        /\ u.dynamicBlocks = s.dynamicBlocks
        /\ u.p = s.p /\ u.allocated = s.allocated
    BY <1>9, <1>10, <2>2, <2>5 DEF ArenaState
  <2>8. full.ptr <= u.ptr /\ u.ptr <= full.end
    BY <1>2, <1>6, <1>10, <2>7
  <2>9. \A i \in 1..Len(one) : full.ptr <= one[i] /\ one[i] + Zones!SlotSize(l) <= u.ptr
    BY <1>2, <1>6, <1>10, <2>1, <2>4, <2>5, <2>7
  <2>10. \A i, j \in 1..Len(one) : i # j => \/ one[i] + Zones!SlotSize(l) <= one[j]
                                            \/ one[j] + Zones!SlotSize(l) <= one[i]
    BY <2>5
  <2>11. Cuts(full, u)
    <3>1. ArenaOK(full)
      BY <1>11 DEF Good
    <3>2. /\ u.blocks = full.blocks /\ u.block = full.block /\ u.end = full.end
          /\ u.dynamicBlocks = full.dynamicBlocks /\ full.block # 0
      BY <1>10, <2>7
    <3>. QED  BY <2>6, <2>7, <2>8, <2>9, <2>10, <2>1, <2>5, <3>1, <3>2, Carved
  <2>12. Good(u, own)
    BY <1>11, <2>11, GoodCut
  <2>. QED  BY <2>3, <2>6, <2>7, <2>12 DEF t
<1>. QED  BY <1>12, <1>13

LEMMA AllocSlotOK ==
    ASSUME NEW s, NEW own, Good(s, own), s.p = Zones!nullptr, Zones!ArenaAssumption,
           NEW size \in Nat \ {0}, size <= 512, NEW at \in Nat,
           NEW new, UserOwner(new), new \notin DOMAIN own,
           Unused(s, Zones!AllocSlot(s, size, at).malloced)
    PROVE  LET t == Zones!AllocSlot(s, size, at) IN
           /\ t \in ArenaState /\ GivenOK(t, own, new, Zones!AllocatedSize(size))
           /\ t.allocated = Zones!AllocatedSize(size)
<1>. DEFINE t      == Zones!AllocSlot(s, size, at)
            slot   == Zones!Slot(size)
            bytes  == Zones!AllocatedSize(size)
            got    == [s EXCEPT !.allocated = bytes]
            p      == Zones!AlignTo(s.ptr, Zones!kBlockAlignment)
            remain == IF p <= s.end THEN s.end - p ELSE 0
            popped == [got EXCEPT !.p = Head(s.slots[slot]), !.slots[slot] = Tail(s.slots[slot])]
            moved  == [got EXCEPT !.p = p, !.ptr = p + bytes]
            before == IF remain >= 32 THEN Zones!Distributed(got, p, remain) ELSE got
<1>1. ArenaOK(s) /\ s \in ArenaState
  BY DEF Good, ArenaOK
<1>2. /\ slot \in Zones!Slots /\ Zones!SlotSize(slot) = bytes
      /\ bytes \in Nat \ {0}
  BY SlotOfSize
<1>3. /\ got \in ArenaState /\ got.blocks = s.blocks /\ got.block = s.block /\ got.ptr = s.ptr
      /\ got.end = s.end /\ SameHeap(s, got) /\ got.p = s.p /\ got.allocated = bytes
      /\ got.dynamicBlocks = s.dynamicBlocks /\ got.slots = s.slots
  BY <1>1, <1>2 DEF ArenaState, SameHeap
<1>4. Good(got, own)
  BY <1>3, GoodSame
<1>5. /\ s.ptr \in Nat /\ s.end \in Nat /\ p \in Nat /\ s.ptr <= p
      /\ s.slots \in [Zones!Slots -> Seq(Nat)] /\ s.slots[slot] \in Seq(Nat)
  <2>1. s.ptr \in Nat /\ s.end \in Nat
    BY <1>1, ArenaFields
  <2>2. p \in Nat /\ s.ptr <= p
    BY <2>1, AlignedTo32 DEF Zones!kBlockAlignment
  <2>. QED  BY <1>1, <1>2, <2>1, <2>2, ArenaFields
<1>6. t = IF s.slots[slot] # << >> THEN popped
          ELSE IF remain >= bytes THEN moved ELSE Zones!AllocBlock(before, bytes, at)
  <2>1. got.slots[slot] = s.slots[slot] /\ got.allocated = bytes
    BY <1>3
  <2>. QED  BY <1>1, <2>1 DEF Zones!AllocSlot, Zones!kLoGranularity, ArenaState
<1>. HIDE DEF slot, bytes, got, p
<1>7. remain \in Nat /\ (remain > 0 => p + remain = s.end /\ s.block # 0)
  <2>1. remain \in Nat /\ (remain > 0 => p + remain = s.end)
    BY <1>5
  <2>2. s.block = 0 => s.end = 0
    BY <1>1 DEF ArenaOK
  <2>3. remain > 0 => s.block # 0
    BY <1>5, <2>2
  <2>. QED  BY <2>1, <2>3
<1>. HIDE DEF remain
<1>8. ArenaOK(got)
  BY <1>4 DEF Good
<1>9. CASE s.slots[slot] # << >>
  <2>1. t = popped
    BY <1>6, <1>9
  <2>2. Tail(s.slots[slot]) \in Seq(Nat) /\ Head(s.slots[slot]) \in Nat
    BY <1>5, <1>9, HeadTailProperties
  <2>3. PICK left \in [Zones!Slots -> Seq(Nat)] : left = [s.slots EXCEPT ![slot] = Tail(s.slots[slot])]
    BY <1>2, <1>5, <2>2
  <2>4. PICK h \in Nat : h = Head(s.slots[slot])
    BY <2>2
  <2>5. popped = [got EXCEPT !.p = h, !.slots = left]
    BY <1>3, <2>3, <2>4 DEF ArenaState
  <2>. HIDE DEF popped
  <2>6. popped \in ArenaState
    BY <1>3, <2>5 DEF ArenaState
  <2>7. /\ popped.blocks = got.blocks /\ popped.block = got.block /\ popped.ptr = got.ptr
        /\ popped.end = got.end /\ popped.dynamicBlocks = got.dynamicBlocks
        /\ popped.slots = [got.slots EXCEPT ![slot] = Tail(got.slots[slot])]
        /\ popped.p = Head(got.slots[slot]) /\ popped.p \in Nat /\ popped.allocated = bytes
    BY <1>3, <2>3, <2>4, <2>5 DEF ArenaState
  <2>8. got.slots[slot] # << >> /\ bytes <= Zones!SlotSize(slot) /\ bytes \in Nat
    BY <1>2, <1>3, <1>9
  <2>9. Gives(got, popped, Chunk(popped.p, bytes))
    BY <1>2, <1>8, <2>6, <2>7, <2>8, Popped, SMTT(30)
  <2>10. GivenOK(popped, own, new, bytes)
    BY <1>2, <1>4, <2>7, <2>9, GivesOK
  <2>. QED  BY <2>1, <2>6, <2>7, <2>10 DEF bytes
<1>10. CASE s.slots[slot] = << >> /\ remain >= bytes
  <2>1. t = moved
    BY <1>6, <1>10
  <2>2. PICK next \in Nat : next = p + bytes
    BY <1>2, <1>5
  <2>3. moved = [got EXCEPT !.p = p, !.ptr = next]
    BY <2>2
  <2>. HIDE DEF moved
  <2>4. moved \in ArenaState
    BY <1>3, <1>5, <2>3 DEF ArenaState
  <2>5. /\ moved.blocks = got.blocks /\ moved.block = got.block /\ moved.ptr = next
        /\ moved.end = got.end /\ SameHeap(got, moved) /\ moved.p = p /\ moved.allocated = bytes
    BY <1>3, <2>3 DEF ArenaState, SameHeap
  <2>6. /\ got.block # 0 /\ got.ptr <= p /\ moved.ptr = p + bytes /\ moved.ptr <= got.end
        /\ bytes \in Nat
    BY <1>2, <1>3, <1>5, <1>7, <1>10, <2>2, <2>5
  <2>7. Gives(got, moved, Chunk(p, bytes))
    BY <1>5, <1>8, <2>4, <2>5, <2>6, Advanced
  <2>8. GivenOK(moved, own, new, bytes)
    BY <1>2, <1>4, <1>5, <2>5, <2>7, GivesOK
  <2>. QED  BY <2>1, <2>4, <2>5, <2>8 DEF bytes
<1>11. CASE s.slots[slot] = << >> /\ ~(remain >= bytes)
  <2>1. t = Zones!AllocBlock(before, bytes, at)
    BY <1>6, <1>11
  <2>2. /\ before \in ArenaState /\ Good(before, own) /\ before.blocks = s.blocks
        /\ before.dynamicBlocks = s.dynamicBlocks /\ before.p = Zones!nullptr
        /\ before.allocated = bytes
    <3>1. CASE remain >= 32
      <4>1. got.block # 0 /\ got.ptr <= p /\ p + remain = got.end
        BY <1>3, <1>5, <1>7, <3>1
      <4>2. PICK d : d = Zones!Distributed(got, p, remain)
        OBVIOUS
      <4>3. /\ d \in ArenaState /\ Good(d, own) /\ d.blocks = got.blocks
            /\ d.dynamicBlocks = got.dynamicBlocks /\ d.p = got.p /\ d.allocated = got.allocated
        BY <1>4, <1>5, <1>7, <4>1, <4>2, DistributedOK
      <4>. QED  BY <1>3, <3>1, <4>2, <4>3
    <3>2. CASE ~(remain >= 32)
      BY <1>3, <1>4, <3>2
    <3>. QED  BY <3>1, <3>2
  <2>. HIDE DEF before, t
  <2>3. Unused(before, Zones!AllocBlock(before, bytes, at).malloced)
    BY <2>1, <2>2 DEF Unused, t
  <2>4. t \in ArenaState /\ t.allocated = before.allocated /\ GivenOK(t, own, new, bytes)
    BY <1>2, <2>1, <2>2, <2>3, AllocBlockOK
  <2>. QED  BY <2>2, <2>4 DEF bytes, t
<1>. QED  BY <1>9, <1>10, <1>11

LEMMA AllocDynamicOK ==
    ASSUME NEW s, NEW own, Good(s, own), s.p = Zones!nullptr, NEW size \in Nat \ {0}, NEW at \in Nat,
           NEW new, UserOwner(new), new \notin DOMAIN own,
           Unused(s, Zones!AllocDynamic(s, size, at).malloced)
    PROVE  LET t == Zones!AllocDynamic(s, size, at) IN
           /\ t \in ArenaState /\ Good(t, own)
           /\ t.p # Zones!nullptr =>
                 t.allocated = size /\ Good(t, Extend(own, new, [at |-> t.p, size |-> size, dyn |-> TRUE]))
<1>. DEFINE t      == Zones!AllocDynamic(s, size, at)
            data   == Zones!AlignTo(at + Zones!dynamicHeader, Zones!kBlockAlignment)
            memory == Zones!Span(at, size + Zones!dynamicHeader + Zones!kBlockAlignment)
            x      == [at |-> data, size |-> size, dyn |-> TRUE]
            one    == [memory |-> memory, data |-> data]
<1>1. s \in ArenaState
  BY DEF Good, ArenaOK
<1>2. CASE at = Zones!nullptr
  <2>1. t = s
    BY <1>2 DEF Zones!AllocDynamic
  <2>. QED  BY <1>1, <2>1
<1>3. CASE at # Zones!nullptr
  <2>1. t = [s EXCEPT !.p = data, !.allocated = size, !.malloced = memory,
                      !.dynamicBlocks = s.dynamicBlocks \cup {one}]
    BY <1>3 DEF Zones!AllocDynamic
  <2>2. data \in Nat /\ at + 12 <= data /\ data < at + 12 + 32
    <3>1. at + 12 \in Nat
      OBVIOUS
    <3>. QED  BY <3>1, AlignedTo32 DEF Zones!dynamicHeader, Zones!kBlockAlignment
  <2>3. memory \in SpanSet /\ memory.at = at /\ memory.size = size + 44
    BY DEF SpanSet, Zones!Span, Zones!dynamicHeader, Zones!kBlockAlignment
  <2>. HIDE DEF t, data, memory
  <2>4. x \in Owned /\ x.dyn /\ x.at = data /\ x.size = size
    BY <2>2 DEF Owned
  <2>5. Zones!Within(x, memory)
    BY <2>2, <2>3, <2>4 DEF Zones!Within
  <2>6. one \in DynamicBlock
    BY <2>2, <2>3 DEF DynamicBlock
  <2>7. s.dynamicBlocks \cup {one} \in SUBSET DynamicBlock
    BY <1>1, <2>6 DEF ArenaState
  <2>8. t \in ArenaState
    <3>1. PICK d \in SUBSET DynamicBlock : d = s.dynamicBlocks \cup {one}
      BY <2>7
    <3>2. t = [s EXCEPT !.p = data, !.allocated = size, !.malloced = memory, !.dynamicBlocks = d]
      BY <2>1, <3>1
    <3>. QED  BY <1>1, <2>2, <2>3, <3>2 DEF ArenaState
  <2>9. /\ t.blocks = s.blocks /\ t.block = s.block /\ t.ptr = s.ptr /\ t.end = s.end
        /\ t.slots = s.slots /\ t.p = data /\ t.allocated = size /\ t.malloced = memory
        /\ t.dynamicBlocks = s.dynamicBlocks \cup {one}
    BY <1>1, <2>1 DEF ArenaState
  <2>10. Unused(s, memory)
    BY <2>9 DEF t
  <2>11. one = [memory |-> memory, data |-> x.at]
    BY <2>4
  <2>. HIDE DEF x, one
  <2>12. Good(t, own) /\ Good(t, Extend(own, new, x))
    BY <2>3, <2>4, <2>5, <2>8, <2>9, <2>10, <2>11, DynamicGiven
  <2>. QED  BY <2>8, <2>9, <2>12 DEF x, t
<1>. QED  BY <1>2, <1>3

LEMMA HeapAllocOK ==
    ASSUME NEW s, NEW own, Good(s, own), s.p = Zones!nullptr, Zones!ArenaAssumption,
           NEW size \in Nat \ {0}, NEW at \in Nat,
           NEW new, UserOwner(new), new \notin DOMAIN own,
           Unused(s, Zones!HeapAlloc(s, size, at).malloced)
    PROVE  LET t == Zones!HeapAlloc(s, size, at) IN
           /\ t \in ArenaState /\ Good(t, own)
           /\ size <= 512 => /\ t.allocated = Zones!AllocatedSize(size)
                             /\ GivenOK(t, own, new, Zones!AllocatedSize(size))
           /\ size > 512 /\ t.p # Zones!nullptr =>
                 /\ t.allocated = size
                 /\ Good(t, Extend(own, new, [at |-> t.p, size |-> size, dyn |-> TRUE]))
<1>. DEFINE t == Zones!HeapAlloc(s, size, at)
<1>1. CASE size <= 512
  <2>1. t = Zones!AllocSlot(s, size, at)
    BY <1>1 DEF Zones!HeapAlloc, Zones!kHiMaxSize
  <2>. HIDE DEF t
  <2>2. /\ t \in ArenaState /\ GivenOK(t, own, new, Zones!AllocatedSize(size))
        /\ t.allocated = Zones!AllocatedSize(size)
    BY <1>1, <2>1, AllocSlotOK DEF t
  <2>. QED  BY <1>1, <2>2 DEF t, GivenOK
<1>2. CASE ~(size <= 512)
  <2>1. t = Zones!AllocDynamic(s, size, at)
    BY <1>2 DEF Zones!HeapAlloc, Zones!kHiMaxSize
  <2>. HIDE DEF t
  <2>2. /\ t \in ArenaState /\ Good(t, own)
        /\ t.p # Zones!nullptr =>
              t.allocated = size /\ Good(t, Extend(own, new, [at |-> t.p, size |-> size, dyn |-> TRUE]))
    BY <2>1, AllocDynamicOK DEF t
  <2>. QED  BY <1>2, <2>2 DEF t
<1>. QED  BY <1>1, <1>2

LEMMA HeapReleaseOK ==
    ASSUME NEW s, NEW own, Good(s, own), NEW o \in DOMAIN own, NEW size \in Nat \ {0},
           own[o].dyn <=> size > 512, size <= 512 => Zones!AllocatedSize(size) <= own[o].size
    PROVE  LET t == Zones!HeapRelease(s, own[o].at, size) IN
           t \in ArenaState /\ Good(t, Without(own, o))
<1>. DEFINE t == Zones!HeapRelease(s, own[o].at, size)
<1>1. s \in ArenaState /\ ArenaOK(s)
  BY DEF Good, ArenaOK
<1>2. own[o] \in Owned /\ own[o].at \in Nat
  <2>1. own[o] \in Owned
    BY DEF Good, OwnOK
  <2>. QED  BY <2>1, OwnedNumbers
<1>3. CASE size <= 512
  <2>1. PICK k \in Zones!Slots : k = Zones!Slot(size) /\ Zones!SlotSize(k) = Zones!AllocatedSize(size)
    BY <1>3, SlotOfSize
  <2>2. s.slots \in [Zones!Slots -> Seq(Nat)] /\ s.slots[k] \in Seq(Nat)
    BY <1>1, ArenaFields
  <2>3. PICK one \in Seq(Nat) : one = <<own[o].at>>
    <3>1. PICK x \in Nat : x = own[o].at
      BY <1>2
    <3>2. <<x>> \in Seq(Nat)
      OBVIOUS
    <3>. QED  BY <3>1, <3>2
  <2>4. PICK more \in [Zones!Slots -> Seq(Nat)] : more = [s.slots EXCEPT ![k] = <<own[o].at>> \o s.slots[k]]
    <3>1. PICK all \in Seq(Nat) : all = one \o s.slots[k]
      BY <2>2, ConcatProperties
    <3>. QED  BY <2>2, <2>3, <3>1
  <2>5. t = [s EXCEPT !.slots = more]
    BY <1>1, <1>3, <2>1, <2>4 DEF Zones!HeapRelease, Zones!Pushed, Zones!kHiMaxSize, ArenaState
  <2>. HIDE DEF t
  <2>6. t \in ArenaState
    BY <1>1, <2>5 DEF ArenaState
  <2>7. /\ t.blocks = s.blocks /\ t.block = s.block /\ t.ptr = s.ptr /\ t.end = s.end
        /\ t.dynamicBlocks = s.dynamicBlocks /\ t.slots = more
    BY <1>1, <2>5 DEF ArenaState
  <2>8. Good(t, Without(own, o))
    <3>1. ~own[o].dyn /\ Zones!SlotSize(k) <= own[o].size
      BY <1>3, <2>1
    <3>2. t.slots = [s.slots EXCEPT ![k] = <<own[o].at>> \o s.slots[k]]
      BY <2>4, <2>7
    <3>. QED  BY <2>6, <2>7, <3>1, <3>2, Released
  <2>. QED  BY <2>6, <2>8 DEF t
<1>4. CASE ~(size <= 512)
  <2>1. PICK d \in SUBSET DynamicBlock : d = {x \in s.dynamicBlocks : x.data # own[o].at}
    BY <1>1, ArenaFields
  <2>2. t = [s EXCEPT !.dynamicBlocks = d]
    BY <1>4, <2>1 DEF Zones!HeapRelease, Zones!kHiMaxSize
  <2>. HIDE DEF t
  <2>3. t \in ArenaState
    BY <1>1, <2>2 DEF ArenaState
  <2>4. /\ t.blocks = s.blocks /\ t.block = s.block /\ t.ptr = s.ptr /\ t.end = s.end
        /\ t.slots = s.slots /\ t.dynamicBlocks = d
    BY <1>1, <2>2 DEF ArenaState
  <2>5. Good(t, Without(own, o))
    BY <2>1, <2>3, <2>4, DynamicReleased
  <2>. QED  BY <2>3, <2>5 DEF t
<1>. QED  BY <1>3, <1>4

\* Another owner takes the place of one.
LEMMA Renamed ==
    ASSUME NEW s, NEW own, NEW new, NEW x, NEW o \in DOMAIN own, new \notin DOMAIN own,
           own = [u \in DOMAIN own |-> own[u]], UserOwner(o),
           Good(s, Without(Extend(own, new, x), o))
    PROVE  Good(s, [own EXCEPT ![o] = x])
<1>. DEFINE old == Without(Extend(own, new, x), o)
            now == [own EXCEPT ![o] = x]
            was(u) == IF u = o THEN new ELSE u
<1>1. /\ DOMAIN old = (DOMAIN own \cup {new}) \ {o}
      /\ old[new] = x /\ \A u \in DOMAIN own \ {o} : old[u] = own[u]
  BY DEF Without, Extend
<1>2. /\ DOMAIN now = DOMAIN own /\ now = [u \in DOMAIN now |-> now[u]]
      /\ now[o] = x /\ \A u \in DOMAIN own \ {o} : now[u] = own[u]
  OBVIOUS
<1>3. ArenaOK(s) /\ FreeOK(s) /\ OwnOK(s, old)
  BY DEF Good
<1>. HIDE DEF old, now
<1>4. /\ \A u \in DOMAIN now : was(u) \in DOMAIN old /\ now[u] = old[was(u)]
      /\ \A u, v \in DOMAIN now : u # v => was(u) # was(v)
  BY <1>1, <1>2
<1>. HIDE DEF was
<1>5. \A u \in DOMAIN old : old[u] \in Owned
  BY <1>3 DEF OwnOK
<1>6. now \in [DOMAIN now -> Owned]
  BY <1>2, <1>4, <1>5
<1>7. ASSUME NEW u \in DOMAIN now
      PROVE  u[1] \notin {"rest", "slot", "block"}
  <2>1. CASE u = o
    BY <2>1 DEF UserOwner
  <2>2. CASE u # o
    <3>1. u \in DOMAIN old
      BY <1>1, <1>2, <2>2
    <3>. QED  BY <1>3, <3>1 DEF OwnOK
  <2>. QED  BY <2>1, <2>2
<1>8. \A u \in DOMAIN now : IF now[u].dyn THEN InDynamic(s, now[u]) ELSE InBlock(s, now[u])
  BY <1>3, <1>4 DEF OwnOK
<1>9. \A u, v \in DOMAIN now : u # v => Zones!Apart(now[u], now[v])
  BY <1>3, <1>4 DEF OwnOK
<1>10. \A u \in DOMAIN now, v \in Zones!FreeOwners(s) : Zones!Apart(now[u], Zones!FreeSpan(s, v))
  BY <1>3, <1>4 DEF OwnOK
<1>11. OwnOK(s, now)
  BY <1>6, <1>7, <1>8, <1>9, <1>10 DEF OwnOK
<1>. QED  BY <1>3, <1>11 DEF Good, now

\* Nothing but blocks: at first and after a reset.
LEMMA FreshFree ==
    ASSUME NEW s, ArenaOK(s), \A k \in Zones!Slots : s.slots[k] = << >>
    PROVE  FreeOK(s)
<1>1. /\ s.block \in Nat /\ Len(s.blocks) \in Nat /\ s.block <= Len(s.blocks)
      /\ s.ptr \in Nat /\ s.end \in Nat
  BY ArenaFields
<1>2. ASSUME NEW o \in Zones!FreeOwners(s)
      PROVE  \E b \in s.block..Len(s.blocks) :
                /\ b \in 1..Len(s.blocks)
                /\ Zones!Within(Zones!FreeSpan(s, o), Zones!BlockSpan(s.blocks[b]))
                /\ o = IF b = s.block THEN <<"rest", 0, 0>> ELSE <<"block", b, 0>>
  <2>1. CASE s.block # 0 /\ o = <<"rest", 0, 0>>
    <3>1. s.block \in 1..Len(s.blocks) /\ s.block \in s.block..Len(s.blocks)
      BY <1>1, <2>1
    <3>2. /\ s.blocks[s.block].data \in Nat /\ s.blocks[s.block].size \in Nat
          /\ s.blocks[s.block].data <= s.ptr /\ s.ptr <= s.end
          /\ s.end = s.blocks[s.block].data + s.blocks[s.block].size
      <4>1. s.blocks[s.block].data \in Nat /\ s.blocks[s.block].size \in Nat
        BY ONLY <3>1, ArenaOK(s), ArenaFields
      <4>2. s.block > 0
        BY ONLY <1>1, <2>1
      <4>3. /\ s.blocks[s.block].data <= s.ptr /\ s.ptr <= s.end
            /\ s.end = s.blocks[s.block].data + s.blocks[s.block].size
        BY ONLY <4>2, ArenaOK(s) DEF ArenaOK
      <4>. QED  BY ONLY <4>1, <4>3
    <3>3. Zones!Within(Zones!Span(s.ptr, s.end - s.ptr), Zones!BlockSpan(s.blocks[s.block]))
      BY <1>1, <3>2 DEF Zones!Within, Zones!Span, Zones!BlockSpan
    <3>4. Zones!Within(Zones!FreeSpan(s, o), Zones!BlockSpan(s.blocks[s.block]))
      BY <2>1, <3>3, RestSpan
    <3>. QED  BY <2>1, <3>1, <3>4
  <2>2. ASSUME NEW k \in Zones!Slots, NEW i \in 1..Len(s.slots[k])
        PROVE  FALSE
    BY EmptySeq
  <2>3. ASSUME NEW b \in s.block + 1..Len(s.blocks), o = <<"block", b, 0>>
        PROVE  /\ b \in s.block..Len(s.blocks) /\ b \in 1..Len(s.blocks) /\ b # s.block
               /\ Zones!Within(Zones!FreeSpan(s, o), Zones!BlockSpan(s.blocks[b]))
    <3>1. b \in s.block..Len(s.blocks) /\ b \in 1..Len(s.blocks) /\ b # s.block
      BY <1>1
    <3>2. s.blocks[b].data \in Nat /\ s.blocks[b].size \in Nat
      BY <3>1, ArenaFields
    <3>3. Zones!FreeSpan(s, o) = Zones!BlockSpan(s.blocks[b])
      BY <2>3, UnusedSpan
    <3>4. Zones!Within(Zones!BlockSpan(s.blocks[b]), Zones!BlockSpan(s.blocks[b]))
      BY <3>2 DEF Zones!Within, Zones!Span, Zones!BlockSpan
    <3>. QED  BY <3>1, <3>3, <3>4
  <2>. QED  BY <2>1, <2>2, <2>3, FreeOwnersAre
<1>3. \A o \in Zones!FreeOwners(s) : InBlock(s, Zones!FreeSpan(s, o))
  BY <1>2 DEF InBlock
<1>4. ASSUME NEW o \in Zones!FreeOwners(s), NEW u \in Zones!FreeOwners(s), o # u
      PROVE  Zones!Apart(Zones!FreeSpan(s, o), Zones!FreeSpan(s, u))
  <2>1. PICK b \in 1..Len(s.blocks) : /\ Zones!Within(Zones!FreeSpan(s, o), Zones!BlockSpan(s.blocks[b]))
                                      /\ o = IF b = s.block THEN <<"rest", 0, 0>> ELSE <<"block", b, 0>>
    BY <1>2
  <2>2. PICK c \in 1..Len(s.blocks) : /\ Zones!Within(Zones!FreeSpan(s, u), Zones!BlockSpan(s.blocks[c]))
                                      /\ u = IF c = s.block THEN <<"rest", 0, 0>> ELSE <<"block", c, 0>>
    BY <1>2
  <2>3. b # c
    BY <1>4, <2>1, <2>2
  <2>4. Zones!Apart(Zones!BlockSpan(s.blocks[b]), Zones!BlockSpan(s.blocks[c]))
    BY <2>3 DEF ArenaOK
  <2>5. \A e \in 1..Len(s.blocks) :
           Zones!BlockSpan(s.blocks[e]).at \in Nat /\ Zones!BlockSpan(s.blocks[e]).size \in Nat
    BY ArenaFields DEF Zones!BlockSpan, Zones!Span
  <2>6. /\ Zones!FreeSpan(s, o).at \in Nat /\ Zones!FreeSpan(s, o).size \in Nat
        /\ Zones!FreeSpan(s, u).at \in Nat /\ Zones!FreeSpan(s, u).size \in Nat
    BY FreeSpansOK, SpanNumbers
  <2>. QED  BY <2>1, <2>2, <2>4, <2>5, <2>6, WithinApart
<1>. QED  BY <1>3, <1>4 DEF FreeOK

-----------------------------------------------------------------------------
(* Who owns what in a state: the pieces, and the vector.                   *)

Indices == 1..MaxPieces
Piece   == [at : Nat, size : Nat, of : {"none", "zone", "heap"}]
Vector  == [data : Nat, capacity : Nat]

VectorOwner   == <<"vector", 0, 0>>
PieceOwner(i) == <<"piece", i, 0>>

\* A chunk that is released with that size goes to a slot whose chunks are as large as this.
OwnedSize(size) == IF size <= 512 THEN Zones!AllocatedSize(size) ELSE size

PieceHas(x)  == [at |-> x.at, size |-> x.size, dyn |-> x.of = "heap" /\ x.size > 512]
VectorHas(v) == [at |-> v.data, size |-> OwnedSize(v.capacity * sizeOfT), dyn |-> v.capacity * sizeOfT > 512]

Users(ps, v) == {PieceOwner(i) : i \in {j \in Indices : ps[j] # Zones!NoPiece}}
                    \cup (IF v.data = Zones!nullptr THEN {} ELSE {VectorOwner})

Owns(ps, v) == [o \in Users(ps, v) |-> IF o = VectorOwner THEN VectorHas(v) ELSE PieceHas(ps[o[2]])]

\* What is in use has a size, and what came from the heap one that the heap rounds to.
PieceOK(x) == /\ x # Zones!NoPiece => x.size > 0
              /\ x.of = "heap" => x.size > 0 /\ x # Zones!NoPiece
              /\ x.of = "heap" /\ x.size <= 512 => Zones!AllocatedSize(x.size) <= x.size

ZoneInv ==
    /\ pieces \in [Indices -> Piece] /\ \A i \in Indices : PieceOK(pieces[i])
    /\ vector \in Vector /\ (vector.data # Zones!nullptr => vector.capacity > 0)
    /\ Good(Zones!State, Owns(pieces, vector))

LEMMA UsersAre ==
    ASSUME NEW ps, NEW v, NEW o
    PROVE  o \in Users(ps, v) <=> \/ \E i \in Indices : ps[i] # Zones!NoPiece /\ o = PieceOwner(i)
                                  \/ v.data # Zones!nullptr /\ o = VectorOwner
  BY DEF Users

LEMMA OwnersDiffer ==
    /\ \A i : PieceOwner(i) # VectorOwner /\ PieceOwner(i)[2] = i /\ UserOwner(PieceOwner(i))
    /\ UserOwner(VectorOwner)
    /\ \A i, j : PieceOwner(i) = PieceOwner(j) => i = j
  BY DEF PieceOwner, VectorOwner, UserOwner

LEMMA OwnsAre ==
    ASSUME NEW ps, NEW v
    PROVE  /\ DOMAIN Owns(ps, v) = Users(ps, v)
           /\ Owns(ps, v) = [o \in Users(ps, v) |-> Owns(ps, v)[o]]
           /\ \A i \in Indices : ps[i] # Zones!NoPiece =>
                 PieceOwner(i) \in Users(ps, v) /\ Owns(ps, v)[PieceOwner(i)] = PieceHas(ps[i])
           /\ v.data # Zones!nullptr =>
                 VectorOwner \in Users(ps, v) /\ Owns(ps, v)[VectorOwner] = VectorHas(v)
<1>1. /\ DOMAIN Owns(ps, v) = Users(ps, v)
      /\ Owns(ps, v) = [o \in Users(ps, v) |-> Owns(ps, v)[o]]
  BY DEF Owns
<1>2. ASSUME NEW i \in Indices, ps[i] # Zones!NoPiece
      PROVE  PieceOwner(i) \in Users(ps, v) /\ Owns(ps, v)[PieceOwner(i)] = PieceHas(ps[i])
  <2>1. PieceOwner(i) \in Users(ps, v)
    BY <1>2, UsersAre
  <2>2. PieceOwner(i) # VectorOwner /\ PieceOwner(i)[2] = i
    BY OwnersDiffer
  <2>. QED  BY <2>1, <2>2 DEF Owns
<1>3. ASSUME v.data # Zones!nullptr
      PROVE  VectorOwner \in Users(ps, v) /\ Owns(ps, v)[VectorOwner] = VectorHas(v)
  <2>1. VectorOwner \in Users(ps, v)
    BY <1>3, UsersAre
  <2>. QED  BY <2>1 DEF Owns
<1>. QED  BY <1>1, <1>2, <1>3

LEMMA SameFunction ==
    ASSUME NEW f, NEW g, f = [x \in DOMAIN f |-> f[x]], g = [x \in DOMAIN g |-> g[x]],
           DOMAIN f = DOMAIN g, \A x \in DOMAIN f : f[x] = g[x]
    PROVE  f = g
  OBVIOUS

LEMMA PieceFree ==
    ASSUME NEW ps, NEW v, NEW i \in Indices, ps[i] = Zones!NoPiece
    PROVE  PieceOwner(i) \notin DOMAIN Owns(ps, v)
  BY UsersAre, OwnersDiffer, OwnsAre

LEMMA PieceAdded ==
    ASSUME NEW ps \in [Indices -> Piece], NEW v, NEW i \in Indices, ps[i] = Zones!NoPiece,
           NEW x, x # Zones!NoPiece
    PROVE  Owns([ps EXCEPT ![i] = x], v) = Extend(Owns(ps, v), PieceOwner(i), PieceHas(x))
<1>. DEFINE qs == [ps EXCEPT ![i] = x]
            f  == Owns(qs, v)
            g  == Extend(Owns(ps, v), PieceOwner(i), PieceHas(x))
<1>1. qs[i] = x /\ \A j \in Indices : j # i => qs[j] = ps[j]
  OBVIOUS
<1>. HIDE DEF qs
<1>2. PieceOwner(i) \notin Users(ps, v)
  BY UsersAre, OwnersDiffer
<1>3. Users(qs, v) = Users(ps, v) \cup {PieceOwner(i)}
  <2>1. ASSUME NEW o
        PROVE  o \in Users(qs, v) <=> o \in Users(ps, v) \/ o = PieceOwner(i)
    BY <1>1, UsersAre
  <2>. QED  BY <2>1
<1>4. /\ DOMAIN f = Users(qs, v) /\ f = [o \in DOMAIN f |-> f[o]]
      /\ DOMAIN g = Users(qs, v) /\ g = [o \in DOMAIN g |-> g[o]]
      /\ g[PieceOwner(i)] = PieceHas(x) /\ \A o \in Users(ps, v) : g[o] = Owns(ps, v)[o]
  <2>1. DOMAIN f = Users(qs, v) /\ f = [o \in DOMAIN f |-> f[o]]
    BY OwnsAre
  <2>2. DOMAIN Owns(ps, v) = Users(ps, v)
    BY OwnsAre
  <2>3. DOMAIN g = Users(qs, v) /\ g = [o \in DOMAIN g |-> g[o]]
    BY <1>3, <2>2 DEF Extend
  <2>4. g[PieceOwner(i)] = PieceHas(x) /\ \A o \in Users(ps, v) : g[o] = Owns(ps, v)[o]
    BY <1>2, <2>2 DEF Extend
  <2>. QED  BY <2>1, <2>3, <2>4
<1>5. ASSUME NEW o \in Users(qs, v)
      PROVE  f[o] = g[o]
  <2>1. ASSUME NEW j \in Indices, qs[j] # Zones!NoPiece, o = PieceOwner(j)
        PROVE  f[o] = g[o]
    <3>1. f[o] = PieceHas(qs[j])
      BY <2>1, OwnsAre
    <3>2. CASE j = i
      BY <1>1, <1>4, <2>1, <3>1, <3>2
    <3>3. CASE j # i
      <4>1. qs[j] = ps[j]
        BY <1>1, <3>3
      <4>2. o \in Users(ps, v) /\ Owns(ps, v)[o] = PieceHas(ps[j])
        BY <2>1, <4>1, OwnsAre
      <4>. QED  BY <1>4, <3>1, <4>1, <4>2
    <3>. QED  BY <3>2, <3>3
  <2>2. CASE v.data # Zones!nullptr /\ o = VectorOwner
    <3>1. f[o] = VectorHas(v)
      BY <2>2, OwnsAre
    <3>2. o \in Users(ps, v) /\ Owns(ps, v)[o] = VectorHas(v)
      BY <2>2, OwnsAre
    <3>. QED  BY <1>4, <3>1, <3>2
  <2>. QED  BY <2>1, <2>2, UsersAre
<1>. HIDE DEF f, g
<1>6. f = g
  BY <1>4, <1>5, SameFunction
<1>. QED  BY <1>6 DEF f, g, qs

LEMMA PieceRemoved ==
    ASSUME NEW ps \in [Indices -> Piece], NEW v, NEW i \in Indices, ps[i] # Zones!NoPiece
    PROVE  Owns([ps EXCEPT ![i] = Zones!NoPiece], v) = Without(Owns(ps, v), PieceOwner(i))
<1>. DEFINE qs == [ps EXCEPT ![i] = Zones!NoPiece]
            f  == Owns(qs, v)
            g  == Without(Owns(ps, v), PieceOwner(i))
<1>1. qs[i] = Zones!NoPiece /\ \A j \in Indices : j # i => qs[j] = ps[j]
  OBVIOUS
<1>. HIDE DEF qs
<1>2. Users(qs, v) = Users(ps, v) \ {PieceOwner(i)}
  <2>1. ASSUME NEW o
        PROVE  o \in Users(qs, v) <=> o \in Users(ps, v) /\ o # PieceOwner(i)
    BY <1>1, UsersAre, OwnersDiffer
  <2>. QED  BY <2>1
<1>3. /\ DOMAIN f = Users(qs, v) /\ f = [o \in DOMAIN f |-> f[o]]
      /\ DOMAIN g = Users(qs, v) /\ g = [o \in DOMAIN g |-> g[o]]
      /\ \A o \in Users(qs, v) : g[o] = Owns(ps, v)[o]
  <2>1. DOMAIN f = Users(qs, v) /\ f = [o \in DOMAIN f |-> f[o]]
    BY OwnsAre
  <2>2. DOMAIN Owns(ps, v) = Users(ps, v)
    BY OwnsAre
  <2>. QED  BY <1>2, <2>1, <2>2 DEF Without
<1>4. ASSUME NEW o \in Users(qs, v)
      PROVE  f[o] = g[o]
  <2>1. ASSUME NEW j \in Indices, qs[j] # Zones!NoPiece, o = PieceOwner(j)
        PROVE  f[o] = g[o]
    <3>1. f[o] = PieceHas(qs[j])
      BY <2>1, OwnsAre
    <3>2. qs[j] = ps[j]
      BY <1>1, <2>1
    <3>3. Owns(ps, v)[o] = PieceHas(ps[j])
      BY <2>1, <3>2, OwnsAre
    <3>. QED  BY <1>3, <3>1, <3>2, <3>3
  <2>2. CASE v.data # Zones!nullptr /\ o = VectorOwner
    <3>1. f[o] = VectorHas(v) /\ Owns(ps, v)[o] = VectorHas(v)
      BY <2>2, OwnsAre
    <3>. QED  BY <1>3, <3>1
  <2>. QED  BY <2>1, <2>2, UsersAre
<1>. HIDE DEF f, g
<1>5. f = g
  BY <1>3, <1>4, SameFunction
<1>. QED  BY <1>5 DEF f, g, qs

\* The vector gets data, other data, or none.
LEMMA VectorChanged ==
    ASSUME NEW ps, NEW v, NEW w
    PROVE  /\ v.data = Zones!nullptr /\ w.data # Zones!nullptr =>
                 /\ VectorOwner \notin DOMAIN Owns(ps, v)
                 /\ Owns(ps, w) = Extend(Owns(ps, v), VectorOwner, VectorHas(w))
           /\ v.data # Zones!nullptr /\ w.data # Zones!nullptr =>
                 Owns(ps, w) = [Owns(ps, v) EXCEPT ![VectorOwner] = VectorHas(w)]
           /\ v.data # Zones!nullptr /\ w.data = Zones!nullptr =>
                 Owns(ps, w) = Without(Owns(ps, v), VectorOwner)
<1>. DEFINE f == Owns(ps, v)
            g == Owns(ps, w)
<1>1. /\ DOMAIN f = Users(ps, v) /\ f = [o \in DOMAIN f |-> f[o]]
      /\ DOMAIN g = Users(ps, w) /\ g = [o \in DOMAIN g |-> g[o]]
  BY OwnsAre
<1>2. /\ VectorOwner \in Users(ps, v) <=> v.data # Zones!nullptr
      /\ VectorOwner \in Users(ps, w) <=> w.data # Zones!nullptr
  BY UsersAre, OwnersDiffer
<1>3. \A o : o # VectorOwner => (o \in Users(ps, v) <=> o \in Users(ps, w))
  BY UsersAre
<1>4. \A o \in Users(ps, v) : o # VectorOwner => g[o] = f[o]
  <2>1. ASSUME NEW o \in Users(ps, v), o # VectorOwner
        PROVE  g[o] = f[o]
    <3>1. PICK i \in Indices : ps[i] # Zones!NoPiece /\ o = PieceOwner(i)
      BY <2>1, UsersAre
    <3>. QED  BY <3>1, OwnsAre
  <2>. QED  BY <2>1
<1>5. w.data # Zones!nullptr => g[VectorOwner] = VectorHas(w)
  BY OwnsAre
<1>. HIDE DEF f, g
<1>6. ASSUME v.data = Zones!nullptr, w.data # Zones!nullptr
      PROVE  g = Extend(f, VectorOwner, VectorHas(w))
  <2>. DEFINE h == Extend(f, VectorOwner, VectorHas(w))
  <2>1. /\ DOMAIN h = DOMAIN f \cup {VectorOwner} /\ h = [o \in DOMAIN h |-> h[o]]
        /\ h[VectorOwner] = VectorHas(w) /\ \A o \in DOMAIN f : o # VectorOwner => h[o] = f[o]
    BY DEF Extend
  <2>. HIDE DEF h
  <2>2. DOMAIN h = DOMAIN g
    BY <1>1, <1>2, <1>3, <1>6, <2>1
  <2>3. \A o \in DOMAIN g : g[o] = h[o]
    BY <1>1, <1>3, <1>4, <1>5, <1>6, <2>1
  <2>4. g = h
    BY <1>1, <2>1, <2>2, <2>3, SameFunction
  <2>. QED  BY <2>4 DEF h
<1>7. ASSUME v.data # Zones!nullptr, w.data # Zones!nullptr
      PROVE  g = [f EXCEPT ![VectorOwner] = VectorHas(w)]
  <2>. DEFINE h == [f EXCEPT ![VectorOwner] = VectorHas(w)]
  <2>1. /\ DOMAIN h = DOMAIN f /\ h = [o \in DOMAIN h |-> h[o]]
        /\ h[VectorOwner] = VectorHas(w) /\ \A o \in DOMAIN f : o # VectorOwner => h[o] = f[o]
    BY <1>1, <1>2, <1>7
  <2>. HIDE DEF h
  <2>2. DOMAIN h = DOMAIN g
    <3>1. \A o : o \in Users(ps, v) <=> o \in Users(ps, w)
      BY <1>2, <1>3, <1>7
    <3>2. Users(ps, v) = Users(ps, w)
      BY <3>1
    <3>. QED  BY <1>1, <2>1, <3>2
  <2>3. \A o \in DOMAIN g : g[o] = h[o]
    BY <1>1, <1>3, <1>4, <1>5, <1>7, <2>1
  <2>4. g = h
    BY <1>1, <2>1, <2>2, <2>3, SameFunction
  <2>. QED  BY <2>4 DEF h
<1>8. ASSUME v.data # Zones!nullptr, w.data = Zones!nullptr
      PROVE  g = Without(f, VectorOwner)
  <2>. DEFINE h == Without(f, VectorOwner)
  <2>1. /\ DOMAIN h = DOMAIN f \ {VectorOwner} /\ h = [o \in DOMAIN h |-> h[o]]
        /\ \A o \in DOMAIN h : h[o] = f[o]
    BY DEF Without
  <2>. HIDE DEF h
  <2>2. DOMAIN h = DOMAIN g
    BY <1>1, <1>2, <1>3, <1>8, <2>1
  <2>3. \A o \in DOMAIN g : g[o] = h[o]
    BY <1>1, <1>3, <1>4, <2>1, <2>2
  <2>4. g = h
    BY <1>1, <2>1, <2>2, <2>3, SameFunction
  <2>. QED  BY <2>4 DEF h
<1>. QED  BY <1>1, <1>2, <1>6, <1>7, <1>8 DEF f, g

\* The vector's data is released with its capacity in bytes, which is within what it got.
LEMMA VectorSmall ==
    ASSUME NEW size \in Nat \ {0}, size <= 512, NEW T \in Nat \ {0}, T <= size,
           NEW c, c = Zones!AllocatedSize(size) \div T
    PROVE  /\ c \in Nat \ {0} /\ c * T \in Nat \ {0} /\ c * T <= 512
           /\ Zones!AllocatedSize(c * T) \in 1..Zones!AllocatedSize(size)
<1>1. PICK a \in Nat : a = Zones!AllocatedSize(size) /\ size <= a /\ a <= 512
  BY SlotOfSize
<1>2. c \in Nat /\ c * T <= a /\ c > 0
  <2>1. c = a \div T /\ T <= a
    BY <1>1
  <2>2. c \in Nat /\ T * c <= a /\ a < T * c + T
    BY <2>1, SMT
  <2>3. c # 0
    <3>1. CASE c = 0
      <4>1. T * c = 0
        BY <3>1
      <4>2. T <= a /\ a < T * c + T
        BY <2>1, <2>2
      <4>3. a < T
        BY <4>1, <4>2
      <4>. QED  BY ONLY <4>2, <4>3, a \in Nat, T \in Nat \ {0}
    <3>. QED  BY <3>1
  <2>4. T * c = c * T
    BY <2>2
  <2>. QED  BY <2>2, <2>3, <2>4
<1>3. PICK b \in Nat : b = c * T /\ b > 0
  BY <1>2
<1>4. b <= 512 /\ Zones!AllocatedSize(b) <= a
  BY <1>1, <1>2, <1>3, Rounded
<1>5. Zones!AllocatedSize(b) \in Nat /\ b <= Zones!AllocatedSize(b)
  BY <1>3, <1>4, SlotOfSize
<1>. QED  BY <1>1, <1>2, <1>3, <1>4, <1>5

LEMMA VectorLarge ==
    ASSUME NEW c \in Nat, NEW T \in Nat \ {0}
    PROVE  (c * T) \div T = c
<1>1. PICK q \in Nat : q = (c * T) \div T /\ T * q <= c * T /\ c * T < T * q + T
  BY SMT
<1>2. q <= c
  <2>1. CASE q > c
    <3>1. PICK d \in Nat : q = c + 1 + d
      <4>1. q - c - 1 \in Nat /\ q = c + 1 + (q - c - 1)
        BY <2>1
      <4>. QED  BY <4>1
    <3>2. T * q = c * T + T + T * d /\ T * d >= 0
      BY <3>1, SMT
    <3>. QED  BY <1>1, <3>2
  <2>. QED  BY <2>1
<1>3. c <= q
  <2>1. CASE c > q
    <3>1. PICK d \in Nat : c = q + 1 + d
      <4>1. c - q - 1 \in Nat /\ c = q + 1 + (c - q - 1)
        BY <2>1
      <4>. QED  BY <4>1
    <3>2. c * T = T * q + T + T * d /\ T * d >= 0
      BY <3>1, SMT
    <3>. QED  BY <1>1, <3>2
  <2>. QED  BY <2>1
<1>. QED  BY <1>1, <1>2, <1>3

-----------------------------------------------------------------------------
(* The steps.                                                              *)

LEMMA StateFields ==
    /\ Zones!State.blocks = blocks /\ Zones!State.block = block /\ Zones!State.ptr = ptr
    /\ Zones!State.end = end /\ Zones!State.slots = slots /\ Zones!State.dynamicBlocks = dynamicBlocks
    /\ Zones!State.p = Zones!nullptr
  BY DEF Zones!State

\* malloc returns memory that nobody has.
LEMMA MallocUnused ==
    ASSUME ZoneInv, NEW s, Zones!Malloc(s)
    PROVE  Unused(Zones!State, s.malloced)
<1>1. ArenaOK(Zones!State)
  BY DEF ZoneInv, Good
<1>2. blocks \in Seq(ZoneBlock)
  BY <1>1, ArenaFields, StateFields
<1>3. DOMAIN blocks = 1..Len(blocks)
  BY <1>2, LenProperties
<1>4. ASSUME NEW b \in 1..Len(blocks)
      PROVE  Zones!Apart(s.malloced, Zones!Span(blocks[b].data - Zones!offsetofData,
                                                blocks[b].size + Zones!sizeofBlock))
  <2>1. Zones!Span(blocks[b].data - Zones!offsetofData, blocks[b].size + Zones!sizeofBlock) \in Zones!Regions
    BY <1>3 DEF Zones!Regions
  <2>. QED  BY <2>1 DEF Zones!Malloc
<1>5. ASSUME NEW d \in dynamicBlocks
      PROVE  Zones!Apart(s.malloced, d.memory)
  <2>1. d.memory \in Zones!Regions
    BY DEF Zones!Regions
  <2>. QED  BY <2>1 DEF Zones!Malloc
<1>. QED  BY <1>4, <1>5, StateFields DEF Unused

LEMMA BecomeGood ==
    ASSUME NEW s, NEW own, Good(s, own), Zones!Become(s)
    PROVE  Good(Zones!State', own)
<1>1. PICK t : t = Zones!State'
  OBVIOUS
<1>2. s \in ArenaState
  BY DEF Good, ArenaOK
<1>3. /\ t.blocks = s.blocks /\ t.block = s.block /\ t.ptr = s.ptr /\ t.end = s.end
      /\ t.slots = s.slots /\ t.dynamicBlocks = s.dynamicBlocks
  BY <1>1 DEF Zones!State, Zones!Become
<1>4. t = [blocks |-> s.blocks, block |-> s.block, ptr |-> s.ptr, end |-> s.end, slots |-> s.slots,
           dynamicBlocks |-> s.dynamicBlocks, p |-> Zones!nullptr, allocated |-> 0,
           malloced |-> Zones!Span(0, 0)]
  BY <1>1 DEF Zones!State, Zones!Become
<1>5. Zones!nullptr \in Nat /\ Zones!Span(0, 0) \in SpanSet
  BY DEF Zones!nullptr, Zones!Span, SpanSet
<1>6. t \in ArenaState
  BY <1>2, <1>4, <1>5 DEF ArenaState
<1>7. Good(t, own)
  BY <1>3, <1>6, GoodSame DEF SameHeap
<1>. QED  BY <1>1, <1>7

LEMMA ZoneAllocStep ==
    ASSUME ZoneInv, Zones!ArenaAssumption, NEW i \in Indices, NEW size \in Sizes,
           NEW at \in MallocAt \cup {Zones!nullptr}, Zones!ZoneAlloc(i, size, at)
    PROVE  ZoneInv'
<1>1. PICK s : s = Zones!Alloc(Zones!State, size, at)
  OBVIOUS
<1>2. /\ Zones!FirstFree(i) /\ Zones!Malloc(s) /\ Zones!Become(s) /\ Zones!Got(i, s, size, "zone")
      /\ vector' = vector
  BY <1>1 DEF Zones!ZoneAlloc
<1>3. PICK own : own = Owns(pieces, vector)
  OBVIOUS
<1>4. PICK st : st = Zones!State
  OBVIOUS
<1>5. /\ pieces \in [Indices -> Piece] /\ \A j \in Indices : PieceOK(pieces[j])
      /\ vector \in Vector /\ (vector.data # Zones!nullptr => vector.capacity > 0)
      /\ Good(st, own)
  BY <1>3, <1>4 DEF ZoneInv
<1>6. size \in Nat \ {0} /\ at \in Nat
  BY DEF Zones!ArenaAssumption, Zones!nullptr
<1>7. Unused(st, s.malloced) /\ st.p = Zones!nullptr
  BY <1>2, <1>4, MallocUnused, StateFields
<1>8. pieces[i] = Zones!NoPiece
  BY <1>2 DEF Zones!FirstFree
<1>9. /\ PieceOwner(i) \notin DOMAIN own /\ UserOwner(PieceOwner(i))
      /\ \A x : x # Zones!NoPiece =>
            Owns([pieces EXCEPT ![i] = x], vector) = Extend(own, PieceOwner(i), PieceHas(x))
  <2>1. PieceOwner(i) \notin DOMAIN own /\ UserOwner(PieceOwner(i))
    BY <1>3, <1>8, PieceFree, OwnersDiffer
  <2>2. ASSUME NEW x, x # Zones!NoPiece
        PROVE  Owns([pieces EXCEPT ![i] = x], vector) = Extend(own, PieceOwner(i), PieceHas(x))
    <3>1. PICK ps \in [Indices -> Piece] : ps = pieces
      BY <1>5
    <3>2. PICK v : v = vector
      OBVIOUS
    <3>3. ps[i] = Zones!NoPiece
      BY <1>8, <3>1
    <3>4. Owns([ps EXCEPT ![i] = x], v) = Extend(Owns(ps, v), PieceOwner(i), PieceHas(x))
      BY <2>2, <3>3, PieceAdded
    <3>. QED  BY <1>3, <3>1, <3>2, <3>4
  <2>. QED  BY <2>1, <2>2
<1>10. s \in ArenaState /\ GivenOK(s, own, PieceOwner(i), size)
  BY <1>1, <1>4, <1>5, <1>6, <1>7, <1>9, AllocOK
<1>11. CASE s.p = Zones!nullptr
  <2>1. pieces' = pieces
    BY <1>2, <1>11 DEF Zones!Got
  <2>2. Good(Zones!State', own)
    BY <1>2, <1>10, BecomeGood DEF GivenOK
  <2>3. Owns(pieces, vector)' = own
    BY <1>2, <1>3, <2>1
  <2>. QED  BY <1>2, <1>5, <2>1, <2>2, <2>3 DEF ZoneInv
<1>12. CASE s.p # Zones!nullptr
  <2>1. PICK x : x = [at |-> s.p, size |-> size, of |-> "zone"]
    OBVIOUS
  <2>2. pieces' = [pieces EXCEPT ![i] = x]
    BY <1>2, <1>12, <2>1 DEF Zones!Got
  <2>3. s.p \in Nat
    BY <1>10 DEF ArenaState
  <2>4. x \in Piece /\ PieceOK(x) /\ x # Zones!NoPiece
    BY <1>6, <2>1, <2>3 DEF Piece, PieceOK, Zones!NoPiece
  <2>5. PieceHas(x) = Chunk(s.p, size)
    BY <2>1 DEF PieceHas, Chunk
  <2>6. Good(s, Extend(own, PieceOwner(i), PieceHas(x)))
    <3>1. size \in 1..size
      BY <1>6
    <3>. QED  BY <1>10, <1>12, <2>5, <3>1 DEF GivenOK
  <2>7. Good(Zones!State', Extend(own, PieceOwner(i), PieceHas(x)))
    BY <1>2, <2>6, BecomeGood
  <2>8. Owns(pieces, vector)' = Extend(own, PieceOwner(i), PieceHas(x))
    BY <1>2, <1>9, <2>2, <2>4
  <2>9. pieces' \in [Indices -> Piece] /\ \A j \in Indices : PieceOK(pieces'[j])
    BY <1>5, <2>2, <2>4
  <2>. QED  BY <1>2, <1>5, <2>7, <2>8, <2>9 DEF ZoneInv
<1>. QED  BY <1>11, <1>12

LEMMA TakeStep ==
    ASSUME ZoneInv, Zones!ArenaAssumption, NEW i \in Indices, NEW size \in Sizes,
           NEW at \in MallocAt \cup {Zones!nullptr}, Zones!Take(i, size, at)
    PROVE  ZoneInv'
<1>1. PICK s : s = Zones!HeapAlloc(Zones!State, size, at)
  OBVIOUS
<1>2. /\ Zones!FirstFree(i) /\ Zones!Malloc(s) /\ Zones!Become(s) /\ Zones!Got(i, s, s.allocated, "heap")
      /\ vector' = vector
  BY <1>1 DEF Zones!Take
<1>3. PICK own : own = Owns(pieces, vector)
  OBVIOUS
<1>4. PICK st : st = Zones!State
  OBVIOUS
<1>5. /\ pieces \in [Indices -> Piece] /\ \A j \in Indices : PieceOK(pieces[j])
      /\ vector \in Vector /\ (vector.data # Zones!nullptr => vector.capacity > 0)
      /\ Good(st, own)
  BY <1>3, <1>4 DEF ZoneInv
<1>6. size \in Nat \ {0} /\ at \in Nat
  BY DEF Zones!ArenaAssumption, Zones!nullptr
<1>7. Unused(st, s.malloced) /\ st.p = Zones!nullptr
  BY <1>2, <1>4, MallocUnused, StateFields
<1>8. pieces[i] = Zones!NoPiece
  BY <1>2 DEF Zones!FirstFree
<1>9. /\ PieceOwner(i) \notin DOMAIN own /\ UserOwner(PieceOwner(i))
      /\ \A x : x # Zones!NoPiece =>
            Owns([pieces EXCEPT ![i] = x], vector) = Extend(own, PieceOwner(i), PieceHas(x))
  <2>1. PieceOwner(i) \notin DOMAIN own /\ UserOwner(PieceOwner(i))
    BY <1>3, <1>8, PieceFree, OwnersDiffer
  <2>2. ASSUME NEW x, x # Zones!NoPiece
        PROVE  Owns([pieces EXCEPT ![i] = x], vector) = Extend(own, PieceOwner(i), PieceHas(x))
    <3>1. PICK ps \in [Indices -> Piece] : ps = pieces
      BY <1>5
    <3>2. PICK v : v = vector
      OBVIOUS
    <3>3. ps[i] = Zones!NoPiece
      BY <1>8, <3>1
    <3>4. Owns([ps EXCEPT ![i] = x], v) = Extend(Owns(ps, v), PieceOwner(i), PieceHas(x))
      BY <2>2, <3>3, PieceAdded
    <3>. QED  BY <1>3, <3>1, <3>2, <3>4
  <2>. QED  BY <2>1, <2>2
<1>10. /\ s \in ArenaState /\ Good(s, own)
       /\ size <= 512 => /\ s.allocated = Zones!AllocatedSize(size)
                         /\ GivenOK(s, own, PieceOwner(i), Zones!AllocatedSize(size))
       /\ size > 512 /\ s.p # Zones!nullptr =>
             /\ s.allocated = size
             /\ Good(s, Extend(own, PieceOwner(i), [at |-> s.p, size |-> size, dyn |-> TRUE]))
  BY <1>1, <1>4, <1>5, <1>6, <1>7, <1>9, HeapAllocOK
<1>11. CASE s.p = Zones!nullptr
  <2>1. pieces' = pieces
    BY <1>2, <1>11 DEF Zones!Got
  <2>2. Good(Zones!State', own)
    BY <1>2, <1>10, BecomeGood
  <2>3. Owns(pieces, vector)' = own
    BY <1>2, <1>3, <2>1
  <2>. QED  BY <1>2, <1>5, <2>1, <2>2, <2>3 DEF ZoneInv
<1>12. CASE s.p # Zones!nullptr
  <2>1. PICK x : x = [at |-> s.p, size |-> s.allocated, of |-> "heap"]
    OBVIOUS
  <2>2. pieces' = [pieces EXCEPT ![i] = x]
    BY <1>2, <1>12, <2>1 DEF Zones!Got
  <2>3. s.p \in Nat
    BY <1>10 DEF ArenaState
  <2>4. /\ x \in Piece /\ PieceOK(x) /\ x # Zones!NoPiece
        /\ Good(s, Extend(own, PieceOwner(i), PieceHas(x)))
    <3>1. CASE size <= 512
      <4>1. PICK a \in Nat : a = s.allocated /\ a = Zones!AllocatedSize(size) /\ size <= a /\ a <= 512
        BY <1>6, <1>10, <3>1, SlotOfSize
      <4>2. Zones!AllocatedSize(a) <= a
        BY <1>6, <3>1, <4>1, Rounded
      <4>3. x \in Piece /\ PieceOK(x) /\ x # Zones!NoPiece
        BY <1>6, <2>1, <2>3, <4>1, <4>2 DEF Piece, PieceOK, Zones!NoPiece
      <4>4. PieceHas(x) = Chunk(s.p, a)
        <5>1. x.at = s.p /\ x.size = a /\ ~(x.of = "heap" /\ x.size > 512)
          BY <2>1, <4>1
        <5>. QED  BY <5>1, Zenon DEF PieceHas, Chunk
      <4>5. a \in 1..a
        BY <1>6, <4>1
      <4>6. Good(s, Extend(own, PieceOwner(i), PieceHas(x)))
        BY <1>10, <1>12, <3>1, <4>1, <4>4, <4>5 DEF GivenOK
      <4>. QED  BY <4>3, <4>6
    <3>2. CASE ~(size <= 512)
      <4>1. s.allocated = size
        BY <1>6, <1>10, <1>12, <3>2
      <4>2. x \in Piece /\ PieceOK(x) /\ x # Zones!NoPiece
        BY <1>6, <2>1, <2>3, <3>2, <4>1 DEF Piece, PieceOK, Zones!NoPiece
      <4>3. PieceHas(x) = [at |-> s.p, size |-> size, dyn |-> TRUE]
        <5>1. x.at = s.p /\ x.size = size /\ x.of = "heap" /\ x.size > 512
          BY <1>6, <2>1, <3>2, <4>1
        <5>. QED  BY <5>1, Zenon DEF PieceHas
      <4>. QED  BY <1>6, <1>10, <1>12, <3>2, <4>2, <4>3
    <3>. QED  BY <3>1, <3>2
  <2>5. Good(Zones!State', Extend(own, PieceOwner(i), PieceHas(x)))
    BY <1>2, <2>4, BecomeGood
  <2>6. Owns(pieces, vector)' = Extend(own, PieceOwner(i), PieceHas(x))
    BY <1>2, <1>9, <2>2, <2>4
  <2>7. pieces' \in [Indices -> Piece] /\ \A j \in Indices : PieceOK(pieces'[j])
    BY <1>5, <2>2, <2>4
  <2>. QED  BY <1>2, <1>5, <2>5, <2>6, <2>7 DEF ZoneInv
<1>. QED  BY <1>11, <1>12

LEMMA GiveBackStep ==
    ASSUME ZoneInv, Zones!ArenaAssumption, NEW i \in Indices, Zones!GiveBack(i)
    PROVE  ZoneInv'
<1>1. PICK own : own = Owns(pieces, vector)
  OBVIOUS
<1>2. PICK st : st = Zones!State
  OBVIOUS
<1>3. /\ pieces \in [Indices -> Piece] /\ \A j \in Indices : PieceOK(pieces[j])
      /\ vector \in Vector /\ (vector.data # Zones!nullptr => vector.capacity > 0)
      /\ Good(st, own)
  BY <1>1, <1>2 DEF ZoneInv
<1>4. PICK x \in Piece : x = pieces[i]
  BY <1>3
<1>5. x.of = "heap" /\ x # Zones!NoPiece /\ x.size \in Nat \ {0} /\ PieceOK(x)
  BY <1>3, <1>4 DEF Zones!GiveBack, PieceOK, Piece
<1>6. PICK s : s = Zones!HeapRelease(st, x.at, x.size)
  OBVIOUS
<1>7. Zones!Become(s) /\ pieces' = [pieces EXCEPT ![i] = Zones!NoPiece] /\ vector' = vector
  BY <1>2, <1>4, <1>6 DEF Zones!GiveBack
<1>8. PieceOwner(i) \in DOMAIN own /\ own[PieceOwner(i)] = PieceHas(x)
  BY <1>1, <1>4, <1>5, OwnsAre
<1>9. /\ own[PieceOwner(i)].at = x.at /\ own[PieceOwner(i)].size = x.size
      /\ own[PieceOwner(i)].dyn <=> x.size > 512
  <2>1. /\ PieceHas(x).at = x.at /\ PieceHas(x).size = x.size
        /\ PieceHas(x).dyn <=> x.of = "heap" /\ x.size > 512
    BY Zenon DEF PieceHas
  <2>. QED  BY <1>5, <1>8, <2>1
<1>10. x.size <= 512 => Zones!AllocatedSize(x.size) <= own[PieceOwner(i)].size
  BY <1>5, <1>9 DEF PieceOK
<1>11. Good(s, Without(own, PieceOwner(i)))
  BY <1>3, <1>5, <1>6, <1>8, <1>9, <1>10, HeapReleaseOK
<1>12. Good(Zones!State', Without(own, PieceOwner(i)))
  BY <1>7, <1>11, BecomeGood
<1>13. Owns(pieces, vector)' = Without(own, PieceOwner(i))
  <2>1. PICK ps \in [Indices -> Piece] : ps = pieces
    BY <1>3
  <2>2. PICK v : v = vector
    OBVIOUS
  <2>3. ps[i] # Zones!NoPiece
    BY <1>4, <1>5, <2>1
  <2>4. Owns([ps EXCEPT ![i] = Zones!NoPiece], v) = Without(Owns(ps, v), PieceOwner(i))
    BY <2>3, PieceRemoved
  <2>. QED  BY <1>1, <1>7, <2>1, <2>2, <2>4
<1>14. Zones!NoPiece \in Piece /\ PieceOK(Zones!NoPiece)
  BY DEF Piece, PieceOK, Zones!NoPiece, Zones!nullptr
<1>15. pieces' \in [Indices -> Piece] /\ \A j \in Indices : PieceOK(pieces'[j])
  BY <1>3, <1>7, <1>14
<1>. QED  BY <1>3, <1>7, <1>12, <1>13, <1>15 DEF ZoneInv

\* What the vector has, as the owner of it.
LEMMA VectorBytesOK ==
    ASSUME Zones!ArenaAssumption, NEW v \in Vector, v.capacity > 0
    PROVE  /\ v.capacity * sizeOfT \in Nat \ {0} /\ VectorHas(v).at = v.data
           /\ VectorHas(v).dyn <=> v.capacity * sizeOfT > 512
           /\ v.capacity * sizeOfT <= 512 =>
                 Zones!AllocatedSize(v.capacity * sizeOfT) <= VectorHas(v).size
<1>1. PICK c \in Nat \ {0} : c = v.capacity
  BY DEF Vector
<1>2. PICK T \in Nat \ {0} : T = sizeOfT
  BY DEF Zones!ArenaAssumption
<1>3. PICK n \in Nat \ {0} : n = c * T
  OBVIOUS
<1>4. n = v.capacity * sizeOfT
  BY <1>1, <1>2, <1>3
<1>5. /\ VectorHas(v).at = v.data /\ VectorHas(v).size = OwnedSize(n)
      /\ VectorHas(v).dyn <=> n > 512
  BY <1>4 DEF VectorHas
<1>6. n <= 512 => Zones!AllocatedSize(n) \in Nat /\ OwnedSize(n) = Zones!AllocatedSize(n)
  BY SlotOfSize DEF OwnedSize
<1>. QED  BY <1>4, <1>5, <1>6

LEMMA VectorReleaseStep ==
    ASSUME ZoneInv, Zones!ArenaAssumption, Zones!VectorRelease
    PROVE  ZoneInv'
<1>1. PICK own : own = Owns(pieces, vector)
  OBVIOUS
<1>2. PICK st : st = Zones!State
  OBVIOUS
<1>3. /\ pieces \in [Indices -> Piece] /\ \A j \in Indices : PieceOK(pieces[j])
      /\ vector \in Vector /\ (vector.data # Zones!nullptr => vector.capacity > 0)
      /\ Good(st, own)
  BY <1>1, <1>2 DEF ZoneInv
<1>4. PICK v \in Vector : v = vector
  BY <1>3
<1>5. v.data # Zones!nullptr /\ v.capacity > 0
  BY <1>3, <1>4 DEF Zones!VectorRelease
<1>6. PICK n \in Nat \ {0} : n = v.capacity * sizeOfT
  BY <1>5, VectorBytesOK
<1>7. PICK s : s = Zones!HeapRelease(st, v.data, n)
  OBVIOUS
<1>8. Zones!Become(s) /\ vector' = Zones!NoVector /\ pieces' = pieces
  BY <1>2, <1>4, <1>6, <1>7 DEF Zones!VectorRelease, Zones!VectorBytes
<1>9. VectorOwner \in DOMAIN own /\ own[VectorOwner] = VectorHas(v)
  BY <1>1, <1>4, <1>5, OwnsAre
<1>10. /\ own[VectorOwner].at = v.data /\ (own[VectorOwner].dyn <=> n > 512)
       /\ n <= 512 => Zones!AllocatedSize(n) <= own[VectorOwner].size
  BY <1>5, <1>6, <1>9, VectorBytesOK
<1>11. Good(s, Without(own, VectorOwner))
  BY <1>3, <1>7, <1>9, <1>10, HeapReleaseOK
<1>12. Good(Zones!State', Without(own, VectorOwner))
  BY <1>8, <1>11, BecomeGood
<1>13. Zones!NoVector \in Vector /\ Zones!NoVector.data = Zones!nullptr
  BY DEF Vector, Zones!NoVector, Zones!nullptr
<1>14. Owns(pieces, vector)' = Without(own, VectorOwner)
  <2>1. PICK ps : ps = pieces
    OBVIOUS
  <2>2. PICK w : w = Zones!NoVector
    OBVIOUS
  <2>3. Owns(ps, w) = Without(Owns(ps, v), VectorOwner)
    BY <1>5, <1>13, <2>2, VectorChanged
  <2>. QED  BY <1>1, <1>4, <1>8, <2>1, <2>2, <2>3
<1>. QED  BY <1>3, <1>8, <1>12, <1>13, <1>14 DEF ZoneInv

LEMMA GrownSize ==
    ASSUME ZoneInv, Zones!ArenaAssumption
    PROVE  Zones!GrownCapacity \in Nat \ {0}
<1>1. PICK c \in Nat : c = vector.capacity
  BY DEF ZoneInv, Vector
<1>2. PICK T \in Nat \ {0} : T = sizeOfT
  BY DEF Zones!ArenaAssumption
<1>3. PICK threshold \in Nat : threshold = Zones!kAllocThreshold \div T
  BY DEF Zones!kAllocThreshold
<1>4. Zones!GrownCapacity =
         IF c < 4 THEN 4 ELSE IF c < 8 THEN 8 ELSE IF c < 16 THEN 16 ELSE IF c < 64 THEN 64
         ELSE IF c < 256 THEN 256 ELSE IF c < threshold THEN 2 * c ELSE c + threshold
  BY <1>1, <1>2, <1>3 DEF Zones!GrownCapacity
<1>. QED  BY <1>4

LEMMA VectorGrowStep ==
    ASSUME ZoneInv, Zones!ArenaAssumption, NEW at \in MallocAt \cup {Zones!nullptr}, Zones!VectorGrow(at)
    PROVE  ZoneInv'
<1>1. PICK own : own = Owns(pieces, vector)
  OBVIOUS
<1>2. PICK st : st = Zones!State
  OBVIOUS
<1>3. /\ pieces \in [Indices -> Piece] /\ \A j \in Indices : PieceOK(pieces[j])
      /\ vector \in Vector /\ (vector.data # Zones!nullptr => vector.capacity > 0)
      /\ Good(st, own)
  BY <1>1, <1>2 DEF ZoneInv
<1>4. PICK v \in Vector : v = vector
  BY <1>3
<1>5. PICK ps : ps = pieces
  OBVIOUS
<1>6. PICK c \in Nat \ {0} : c = Zones!GrownCapacity
  BY GrownSize
<1>7. PICK T \in Nat \ {0} : T = sizeOfT
  BY DEF Zones!ArenaAssumption
<1>8. PICK size \in Nat \ {0} : size = c * T /\ T <= size
  <2>1. c * T \in Nat \ {0} /\ T <= c * T
    <3>1. PICK d \in Nat : c = d + 1
      <4>1. c - 1 \in Nat /\ c = (c - 1) + 1
        OBVIOUS
      <4>. QED  BY <4>1
    <3>2. c * T = d * T + T /\ d * T \in Nat
      BY <3>1, SMT
    <3>. QED  BY <3>2
  <2>. QED  BY <2>1
<1>9. PICK grown : grown = Zones!HeapAlloc(st, size, at)
  OBVIOUS
<1>10. PICK w : w = [data |-> grown.p, capacity |-> grown.allocated \div T]
  OBVIOUS
<1>11. grown = Zones!HeapAlloc(Zones!State, Zones!GrownCapacity * sizeOfT, at)
  BY <1>2, <1>6, <1>7, <1>8, <1>9
<1>12. /\ Zones!Malloc(grown)
       /\ Zones!Become(IF v.data = Zones!nullptr \/ grown.p = Zones!nullptr THEN grown
                       ELSE Zones!HeapRelease(grown, v.data, v.capacity * sizeOfT))
       /\ vector' = IF grown.p = Zones!nullptr THEN v ELSE w
       /\ pieces' = ps
  BY <1>4, <1>5, <1>7, <1>10, <1>11 DEF Zones!VectorGrow, Zones!VectorBytes
<1>13. Unused(st, grown.malloced) /\ st.p = Zones!nullptr /\ at \in Nat
  <2>1. at \in Nat
    BY DEF Zones!ArenaAssumption, Zones!nullptr
  <2>. QED  BY <1>2, <1>12, <2>1, MallocUnused, StateFields
\* The new data, whoever it goes to.
<1>14. ASSUME NEW new, UserOwner(new), new \notin DOMAIN own
       PROVE  /\ grown \in ArenaState /\ Good(grown, own)
              /\ grown.p # Zones!nullptr =>
                    /\ w \in Vector /\ w.capacity > 0
                    /\ Good(grown, Extend(own, new, VectorHas(w)))
  <2>1. /\ grown \in ArenaState /\ Good(grown, own)
        /\ size <= 512 => /\ grown.allocated = Zones!AllocatedSize(size)
                          /\ GivenOK(grown, own, new, Zones!AllocatedSize(size))
        /\ size > 512 /\ grown.p # Zones!nullptr =>
              /\ grown.allocated = size
              /\ Good(grown, Extend(own, new, [at |-> grown.p, size |-> size, dyn |-> TRUE]))
    BY <1>3, <1>9, <1>13, <1>14, HeapAllocOK
  <2>2. grown.p \in Nat
    BY <2>1 DEF ArenaState
  <2>3. ASSUME grown.p # Zones!nullptr, size <= 512
        PROVE  w \in Vector /\ w.capacity > 0 /\ Good(grown, Extend(own, new, VectorHas(w)))
    <3>1. PICK d : d = Zones!AllocatedSize(size) \div T
      OBVIOUS
    <3>2. /\ d \in Nat \ {0} /\ d * T \in Nat \ {0} /\ d * T <= 512
          /\ Zones!AllocatedSize(d * T) \in 1..Zones!AllocatedSize(size)
      BY <1>8, <2>3, <3>1, VectorSmall
    <3>3. w.data = grown.p /\ w.capacity = d /\ w \in Vector
      BY <1>10, <2>1, <2>2, <2>3, <3>1, <3>2 DEF Vector
    <3>4. PICK n \in Nat \ {0} : n = w.capacity * sizeOfT /\ n = d * T
      BY <1>7, <3>2, <3>3
    <3>5. /\ ~(n > 512) /\ OwnedSize(n) = Zones!AllocatedSize(n)
          /\ Zones!AllocatedSize(n) \in 1..Zones!AllocatedSize(size)
      BY <3>2, <3>4 DEF OwnedSize
    <3>6. VectorHas(w) = Chunk(grown.p, Zones!AllocatedSize(n))
      <4>1. (w.capacity * sizeOfT > 512) = FALSE
        BY <3>4, <3>5
      <4>2. OwnedSize(w.capacity * sizeOfT) = Zones!AllocatedSize(n)
        BY <3>4, <3>5
      <4>. QED  BY <3>3, <4>1, <4>2, Zenon DEF VectorHas, Chunk
    <3>7. Good(grown, Extend(own, new, VectorHas(w)))
      BY <2>1, <2>3, <3>5, <3>6 DEF GivenOK
    <3>. QED  BY <3>2, <3>3, <3>7
  <2>4. ASSUME grown.p # Zones!nullptr, size > 512
        PROVE  w \in Vector /\ w.capacity > 0 /\ Good(grown, Extend(own, new, VectorHas(w)))
    <3>1. size \div T = c
      BY <1>8, VectorLarge
    <3>2. w.data = grown.p /\ w.capacity = c /\ w \in Vector
      BY <1>10, <2>1, <2>2, <2>4, <3>1 DEF Vector
    <3>3. w.capacity * sizeOfT = size
      BY <1>7, <1>8, <3>2
    <3>4. OwnedSize(size) = size
      BY <2>4 DEF OwnedSize
    <3>5. VectorHas(w) = [at |-> grown.p, size |-> size, dyn |-> TRUE]
      BY <2>4, <3>2, <3>3, <3>4, Zenon DEF VectorHas
    <3>. QED  BY <2>1, <2>4, <3>2, <3>5
  <2>. QED  BY <2>1, <2>3, <2>4
<1>. DEFINE spare == <<"new", 0, 0>>
<1>15. UserOwner(spare) /\ spare \notin DOMAIN own
  <2>1. spare \notin Users(pieces, vector)
    BY UsersAre DEF PieceOwner, VectorOwner
  <2>2. DOMAIN own = Users(pieces, vector)
    BY <1>1, OwnsAre
  <2>. QED  BY <2>1, <2>2 DEF UserOwner
<1>. HIDE DEF spare
<1>16. CASE grown.p = Zones!nullptr
  <2>1. Zones!Become(grown) /\ vector' = vector /\ pieces' = pieces
    BY <1>4, <1>5, <1>12, <1>16
  <2>2. Good(Zones!State', own)
    BY <1>14, <1>15, <2>1, BecomeGood
  <2>3. Owns(pieces, vector)' = own
    BY <1>1, <2>1
  <2>. QED  BY <1>3, <2>1, <2>2, <2>3 DEF ZoneInv
<1>17. CASE grown.p # Zones!nullptr
  <2>1. vector' = w /\ pieces' = pieces
    BY <1>5, <1>12, <1>17
  <2>2. w \in Vector /\ w.capacity > 0 /\ w.data # Zones!nullptr
    BY <1>10, <1>14, <1>15, <1>17
  <2>3. own = Owns(ps, v) /\ Owns(pieces, vector)' = Owns(ps, w)
    BY <1>1, <1>4, <1>5, <1>12, <2>1
  <2>4. Good(Zones!State', Owns(ps, w))
    <3>1. CASE v.data = Zones!nullptr
      <4>1. VectorOwner \notin DOMAIN own /\ Owns(ps, w) = Extend(own, VectorOwner, VectorHas(w))
        BY <2>2, <2>3, <3>1, VectorChanged
      <4>2. Good(grown, Owns(ps, w))
        BY <1>14, <1>17, <4>1, OwnersDiffer
      <4>3. Zones!Become(grown)
        BY <1>12, <3>1
      <4>. QED  BY <4>2, <4>3, BecomeGood
    <3>2. CASE v.data # Zones!nullptr
      <4>1. v.capacity > 0
        BY <1>3, <1>4, <3>2
      <4>2. PICK n \in Nat \ {0} : n = v.capacity * sizeOfT
        BY <4>1, VectorBytesOK
      <4>3. PICK more : more = Extend(own, spare, VectorHas(w))
        OBVIOUS
      <4>4. Good(grown, more)
        BY <1>14, <1>15, <1>17, <4>3
      <4>5. /\ VectorOwner \in DOMAIN own /\ own[VectorOwner] = VectorHas(v)
            /\ own = [o \in DOMAIN own |-> own[o]]
        BY <2>3, <3>2, OwnsAre
      <4>6. VectorOwner \in DOMAIN more /\ more[VectorOwner] = VectorHas(v)
        BY <1>15, <4>3, <4>5 DEF Extend
      <4>7. PICK s : s = Zones!HeapRelease(grown, v.data, n)
        OBVIOUS
      <4>8. /\ more[VectorOwner].at = v.data /\ (more[VectorOwner].dyn <=> n > 512)
            /\ n <= 512 => Zones!AllocatedSize(n) <= more[VectorOwner].size
        BY <4>1, <4>2, <4>6, VectorBytesOK
      <4>9. Good(s, Without(more, VectorOwner))
        BY <4>4, <4>6, <4>7, <4>8, HeapReleaseOK
      <4>10. Good(s, [own EXCEPT ![VectorOwner] = VectorHas(w)])
        BY <1>15, <4>3, <4>5, <4>9, OwnersDiffer, Renamed
      <4>11. Owns(ps, w) = [own EXCEPT ![VectorOwner] = VectorHas(w)]
        BY <2>2, <2>3, <3>2, VectorChanged
      <4>12. Zones!Become(s)
        BY <1>12, <1>17, <3>2, <4>2, <4>7
      <4>. QED  BY <4>10, <4>11, <4>12, BecomeGood
    <3>. QED  BY <3>1, <3>2
  <2>. QED  BY <1>3, <2>1, <2>2, <2>3, <2>4 DEF ZoneInv
<1>. QED  BY <1>16, <1>17

\* Nobody owns anything, nothing is in the slots.
LEMMA FreshGood ==
    ASSUME NEW s, ArenaOK(s), \A k \in Zones!Slots : s.slots[k] = << >>
    PROVE  Good(s, Owns(Zones!NoPieces, Zones!NoVector))
<1>. DEFINE own == Owns(Zones!NoPieces, Zones!NoVector)
<1>1. Users(Zones!NoPieces, Zones!NoVector) = {}
  <2>1. ASSUME NEW o
        PROVE  o \notin Users(Zones!NoPieces, Zones!NoVector)
    <3>1. \A i \in Indices : Zones!NoPieces[i] = Zones!NoPiece
      BY DEF Indices, Zones!NoPieces
    <3>2. Zones!NoVector.data = Zones!nullptr
      BY DEF Zones!NoVector
    <3>. QED  BY <3>1, <3>2, UsersAre
  <2>. QED  BY <2>1
<1>2. DOMAIN own = {} /\ own = [o \in DOMAIN own |-> own[o]]
  BY <1>1, OwnsAre
<1>. HIDE DEF own
<1>3. own \in [DOMAIN own -> Owned]
  BY <1>2
<1>4. OwnOK(s, own)
  BY <1>2, <1>3 DEF OwnOK
<1>. QED  BY <1>4, FreshFree DEF Good, own

LEMMA NobodyOK ==
    /\ Zones!NoPieces \in [Indices -> Piece] /\ \A i \in Indices : PieceOK(Zones!NoPieces[i])
    /\ Zones!NoVector \in Vector /\ Zones!NoVector.data = Zones!nullptr
  BY DEF Zones!NoPieces, Zones!NoPiece, Zones!NoVector, Zones!nullptr, Indices, Piece, PieceOK, Vector

LEMMA NoSlotsOK ==
    /\ Zones!NoSlots \in [Zones!Slots -> Seq(Nat)]
    /\ \A k \in Zones!Slots : Zones!NoSlots[k] = << >>
  BY DEF Zones!NoSlots

LEMMA ZoneInit ==
    ASSUME Zones!Init
    PROVE  ZoneInv
<1>1. PICK st : st = Zones!State
  OBVIOUS
<1>2. PICK none : none = Zones!NoSlots
  OBVIOUS
<1>3. st = [blocks |-> << >>, block |-> 0, ptr |-> 0, end |-> 0, slots |-> none,
            dynamicBlocks |-> {}, p |-> 0, allocated |-> 0, malloced |-> Zones!Span(0, 0)]
  BY <1>1, <1>2 DEF Zones!Init, Zones!State, Zones!nullptr
<1>4. << >> \in Seq(ZoneBlock) /\ Zones!Span(0, 0) \in SpanSet /\ none \in [Zones!Slots -> Seq(Nat)]
  BY <1>2, NoSlotsOK DEF SpanSet, Zones!Span
<1>5. st \in ArenaState
  BY <1>3, <1>4 DEF ArenaState
<1>6. /\ st.blocks = << >> /\ Len(st.blocks) = 0 /\ st.block = 0 /\ st.ptr = 0 /\ st.end = 0
      /\ st.slots = none
  BY <1>3
<1>7. ArenaOK(st)
  BY <1>5, <1>6 DEF ArenaOK
<1>8. Good(st, Owns(Zones!NoPieces, Zones!NoVector))
  BY <1>2, <1>6, <1>7, NoSlotsOK, FreshGood
<1>. QED  BY <1>1, <1>8, NobodyOK DEF ZoneInv, Zones!Init

LEMMA ResetStep ==
    ASSUME ZoneInv, NEW releaseMemory \in BOOLEAN, Zones!Reset(releaseMemory)
    PROVE  ZoneInv'
<1>1. PICK st : st = Zones!State
  OBVIOUS
<1>2. PICK t : t = Zones!State'
  OBVIOUS
<1>3. ArenaOK(st) /\ st \in ArenaState
  BY <1>1 DEF ZoneInv, Good, ArenaOK
<1>4. PICK bs : bs = blocks
  OBVIOUS
<1>5. /\ bs \in Seq(ZoneBlock) /\ Len(bs) \in Nat /\ block \in 0..Len(bs) /\ ptr \in Nat /\ end \in Nat
      /\ \A b \in 1..Len(bs) : bs[b].data \in Nat /\ bs[b].size \in Nat
      /\ \A b, c \in 1..Len(bs) :
            b # c => Zones!Apart(Zones!BlockSpan(bs[b]), Zones!BlockSpan(bs[c]))
      /\ block = 0 => ptr = 0 /\ end = 0
  <2>1. st.blocks = bs /\ st.block = block /\ st.ptr = ptr /\ st.end = end
    BY <1>1, <1>4, StateFields
  <2>2. /\ bs \in Seq(ZoneBlock) /\ Len(bs) \in Nat /\ block \in 0..Len(bs) /\ ptr \in Nat /\ end \in Nat
        /\ \A b \in 1..Len(bs) : bs[b].data \in Nat /\ bs[b].size \in Nat
    BY <1>3, <2>1, ArenaFields
  <2>. QED  BY <1>3, <2>1, <2>2 DEF ArenaOK
<1>6. PICK none : none = Zones!NoSlots
  OBVIOUS
<1>7. /\ pieces' = Zones!NoPieces /\ vector' = Zones!NoVector
      /\ slots' = none /\ dynamicBlocks' = {}
      /\ IF block = 0 THEN blocks' = bs /\ block' = block /\ ptr' = ptr /\ end' = end
         ELSE IF releaseMemory THEN blocks' = << >> /\ block' = 0 /\ ptr' = 0 /\ end' = 0
         ELSE /\ block' = 1 /\ ptr' = bs[1].data /\ end' = bs[1].data + bs[1].size
              /\ blocks' = bs
  BY <1>4, <1>6 DEF Zones!Reset, Zones!zone
<1>8. none \in [Zones!Slots -> Seq(Nat)] /\ \A k \in Zones!Slots : none[k] = << >>
  BY <1>6, NoSlotsOK
\* The Zone afterwards.
<1>9. \E bs2 \in Seq(ZoneBlock), b2 \in Nat, p2 \in Nat, e2 \in Nat :
         /\ blocks' = bs2 /\ block' = b2 /\ ptr' = p2 /\ end' = e2
         /\ b2 <= Len(bs2)
         /\ b2 = 0 => p2 = 0 /\ e2 = 0
         /\ b2 > 0 => bs2[b2].data <= p2 /\ p2 <= e2 /\ e2 = bs2[b2].data + bs2[b2].size
         /\ \A b, c \in 1..Len(bs2) :
               b # c => Zones!Apart(Zones!BlockSpan(bs2[b]), Zones!BlockSpan(bs2[c]))
  <2>1. CASE block = 0
    <3>1. blocks' = bs /\ block' = 0 /\ ptr' = 0 /\ end' = 0
      BY <1>5, <1>7, <2>1
    <3>. QED  BY <1>5, <3>1
  <2>2. CASE block # 0 /\ releaseMemory
    <3>1. blocks' = << >> /\ block' = 0 /\ ptr' = 0 /\ end' = 0
      BY <1>7, <2>2
    <3>2. PICK bs2 \in Seq(ZoneBlock) : bs2 = << >> /\ Len(bs2) = 0
      <4>1. << >> \in Seq(ZoneBlock) /\ Len(<< >>) = 0
        OBVIOUS
      <4>. QED  BY ONLY <4>1
    <3>3. \A b \in 1..Len(bs2) : FALSE
      BY <3>2
    <3>4. blocks' = bs2 /\ 0 <= Len(bs2) /\ ~(0 > 0)
      BY <3>1, <3>2
    <3>. QED  BY <3>1, <3>3, <3>4
  <2>3. CASE block # 0 /\ ~releaseMemory
    <3>1. /\ block' = 1 /\ ptr' = bs[1].data /\ end' = bs[1].data + bs[1].size /\ blocks' = bs
      BY <1>7, <2>3
    <3>2. 1 \in 1..Len(bs) /\ 1 <= Len(bs)
      BY <1>5, <2>3
    <3>3. bs[1].data \in Nat /\ bs[1].size \in Nat
      BY <1>5, <3>2
    <3>4. PICK e2 \in Nat : e2 = bs[1].data + bs[1].size /\ bs[1].data <= e2
      <4>1. bs[1].data + bs[1].size \in Nat /\ bs[1].data <= bs[1].data + bs[1].size
        BY <3>3
      <4>. QED  BY <4>1
    <3>. QED  BY <1>5, <3>1, <3>2, <3>3, <3>4, SMTT(30)
  <2>. QED  BY <2>1, <2>2, <2>3
<1>10. PICK bs2 \in Seq(ZoneBlock), b2 \in Nat, p2 \in Nat, e2 \in Nat :
          /\ blocks' = bs2 /\ block' = b2 /\ ptr' = p2 /\ end' = e2
          /\ b2 <= Len(bs2)
          /\ b2 = 0 => p2 = 0 /\ e2 = 0
          /\ b2 > 0 => bs2[b2].data <= p2 /\ p2 <= e2 /\ e2 = bs2[b2].data + bs2[b2].size
          /\ \A b, c \in 1..Len(bs2) :
                b # c => Zones!Apart(Zones!BlockSpan(bs2[b]), Zones!BlockSpan(bs2[c]))
  BY <1>9
<1>11. t = [blocks |-> bs2, block |-> b2, ptr |-> p2, end |-> e2, slots |-> none,
            dynamicBlocks |-> {}, p |-> 0, allocated |-> 0, malloced |-> Zones!Span(0, 0)]
  BY <1>2, <1>7, <1>10 DEF Zones!State, Zones!nullptr
<1>12. Zones!Span(0, 0) \in SpanSet
  BY DEF SpanSet, Zones!Span
<1>13. t \in ArenaState
  BY <1>8, <1>11, <1>12 DEF ArenaState
<1>14. /\ t.blocks = bs2 /\ t.block = b2 /\ t.ptr = p2 /\ t.end = e2 /\ t.slots = none
  BY <1>11
<1>15. ArenaOK(t)
  BY <1>10, <1>13, <1>14 DEF ArenaOK
<1>16. Good(t, Owns(Zones!NoPieces, Zones!NoVector))
  BY <1>8, <1>14, <1>15, FreshGood
<1>17. Good(Zones!State', Owns(pieces, vector)')
  BY <1>2, <1>7, <1>16
<1>. QED  BY <1>7, <1>17, NobodyOK DEF ZoneInv

LEMMA ZoneStep ==
    ASSUME ZoneInv, Zones!ArenaAssumption, [Zones!Next]_zoneVars
    PROVE  ZoneInv'
<1>1. CASE UNCHANGED zoneVars
  BY <1>1 DEF zoneVars, ZoneInv, Zones!State, Good, ArenaOK, FreeOK, OwnOK, Zones!FreeOwners
<1>2. CASE Zones!Next
  <2>1. ASSUME NEW at \in MallocAt \cup {Zones!nullptr}, NEW i \in Indices, NEW size \in Sizes,
               Zones!ZoneAlloc(i, size, at) \/ Zones!Take(i, size, at)
        PROVE  ZoneInv'
    BY <2>1, ZoneAllocStep, TakeStep
  <2>2. ASSUME NEW at \in MallocAt \cup {Zones!nullptr}, Zones!VectorGrow(at)
        PROVE  ZoneInv'
    BY <2>2, VectorGrowStep
  <2>3. ASSUME NEW i \in Indices, Zones!GiveBack(i)
        PROVE  ZoneInv'
    BY <2>3, GiveBackStep
  <2>4. CASE Zones!VectorRelease
    BY <2>4, VectorReleaseStep
  <2>5. ASSUME NEW releaseMemory \in BOOLEAN, Zones!Reset(releaseMemory)
        PROVE  ZoneInv'
    BY <2>5, ResetStep
  <2>. QED  BY <1>2, <2>1, <2>2, <2>3, <2>4, <2>5 DEF Zones!Next, Indices
<1>. QED  BY <1>1, <1>2

-----------------------------------------------------------------------------
(* What it says.                                                           *)

LEMMA InRegions ==
    ASSUME ZoneInv, NEW x, x.at \in Nat, x.size \in Nat,
           InBlock(Zones!State, x) \/ InDynamic(Zones!State, x)
    PROVE  \E r \in Zones!Regions : Zones!Within(x, r)
<1>1. ArenaOK(Zones!State)
  BY DEF ZoneInv, Good
<1>2. CASE InBlock(Zones!State, x)
  <2>1. PICK b \in 1..Len(blocks) : Zones!Within(x, Zones!BlockSpan(blocks[b]))
    BY <1>2, StateFields DEF InBlock
  <2>2. blocks \in Seq(ZoneBlock) /\ blocks[b].data \in Nat /\ blocks[b].size \in Nat
    BY <1>1, StateFields, ArenaFields
  <2>3. b \in DOMAIN blocks
    BY <2>2, LenProperties
  <2>4. PICK r \in Zones!Regions :
           r = Zones!Span(blocks[b].data - Zones!offsetofData, blocks[b].size + Zones!sizeofBlock)
    BY <2>3 DEF Zones!Regions
  <2>5. Zones!Within(x, r)
    BY <2>1, <2>2, <2>4, SMTT(30)
       DEF Zones!Within, Zones!BlockSpan, Zones!Span, Zones!offsetofData, Zones!sizeofBlock
  <2>. QED  BY <2>5
<1>3. CASE InDynamic(Zones!State, x)
  <2>1. PICK d \in dynamicBlocks : Zones!Within(x, d.memory)
    BY <1>3, StateFields DEF InDynamic
  <2>2. d.memory \in Zones!Regions
    BY DEF Zones!Regions
  <2>. QED  BY <2>1, <2>2
<1>. QED  BY <1>2, <1>3

\* What a user has is within what it owns.
LEMMA UserSpanWithin ==
    ASSUME ZoneInv, Zones!ArenaAssumption, NEW o \in Users(pieces, vector)
    PROVE  /\ Zones!Within(Zones!UserSpan(o), Owns(pieces, vector)[o])
           /\ Zones!UserSpan(o) \in SpanSet
<1>1. ASSUME NEW i \in Indices, pieces[i] # Zones!NoPiece, o = PieceOwner(i)
      PROVE  /\ Zones!Within(Zones!UserSpan(o), Owns(pieces, vector)[o])
             /\ Zones!UserSpan(o) \in SpanSet
  <2>1. pieces[i].at \in Nat /\ pieces[i].size \in Nat
    BY DEF ZoneInv, Piece
  <2>2. Owns(pieces, vector)[o] = PieceHas(pieces[i])
    BY <1>1, OwnsAre
  <2>3. Zones!UserSpan(o) = Zones!Span(pieces[i].at, pieces[i].size)
    BY <1>1 DEF Zones!UserSpan, PieceOwner
  <2>4. Zones!Within(Zones!Span(pieces[i].at, pieces[i].size), PieceHas(pieces[i]))
    BY <2>1 DEF Zones!Within, Zones!Span, PieceHas
  <2>. QED  BY <2>1, <2>2, <2>3, <2>4 DEF SpanSet, Zones!Span
<1>2. CASE vector.data # Zones!nullptr /\ o = VectorOwner
  <2>1. PICK v \in Vector : v = vector /\ v.capacity > 0
    BY <1>2 DEF ZoneInv
  <2>2. PICK n \in Nat \ {0} : n = v.capacity * sizeOfT
    BY <2>1, VectorBytesOK
  <2>3. v.data \in Nat
    BY DEF Vector
  <2>4. Owns(pieces, vector)[o] = VectorHas(v)
    BY <1>2, <2>1, OwnsAre
  <2>5. Zones!UserSpan(o) = Zones!Span(v.data, n)
    BY <1>2, <2>1, <2>2 DEF Zones!UserSpan, VectorOwner, Zones!VectorBytes
  <2>6. VectorHas(v).at = v.data /\ VectorHas(v).size = OwnedSize(n)
    BY <2>2 DEF VectorHas
  <2>7. OwnedSize(n) \in Nat /\ n <= OwnedSize(n)
    BY SlotOfSize DEF OwnedSize
  <2>8. Zones!Within(Zones!Span(v.data, n), VectorHas(v))
    BY <2>3, <2>6, <2>7 DEF Zones!Within, Zones!Span
  <2>. QED  BY <2>3, <2>4, <2>5, <2>8 DEF SpanSet, Zones!Span
<1>. QED  BY <1>1, <1>2, UsersAre

LEMMA ZoneInvImplies ==
    ASSUME ZoneInv, Zones!ArenaAssumption
    PROVE  PiecesAreDisjoint
<1>. DEFINE st  == Zones!State
            own == Owns(pieces, vector)
<1>1. ArenaOK(st) /\ FreeOK(st) /\ OwnOK(st, own)
  BY DEF ZoneInv, Good
<1>2. Zones!UserOwners = Users(pieces, vector) /\ DOMAIN own = Users(pieces, vector)
  <2>1. Zones!UserOwners = Users(pieces, vector)
    BY DEF Zones!UserOwners, Users, PieceOwner, VectorOwner, Indices
  <2>. QED  BY <2>1, OwnsAre
<1>. HIDE DEF own, st
<1>3. ASSUME NEW o \in DOMAIN own
      PROVE  /\ own[o].at \in Nat /\ own[o].size \in Nat
             /\ InBlock(st, own[o]) \/ InDynamic(st, own[o])
             /\ o[1] \notin {"rest", "slot", "block"}
  <2>1. own[o] \in Owned
    BY <1>1 DEF OwnOK
  <2>2. InBlock(st, own[o]) \/ InDynamic(st, own[o])
    BY <1>1 DEF OwnOK
  <2>3. o[1] \notin {"rest", "slot", "block"}
    BY <1>1 DEF OwnOK
  <2>. QED  BY <2>1, <2>2, <2>3, OwnedNumbers
<1>4. ASSUME NEW o \in DOMAIN own
      PROVE  /\ Zones!SpanOf(o) \in SpanSet /\ Zones!Within(Zones!SpanOf(o), own[o])
  <2>1. o \in Zones!UserOwners /\ o \in Users(pieces, vector)
    BY <1>2
  <2>. QED  BY <2>1, UserSpanWithin DEF Zones!SpanOf, own
<1>5. ASSUME NEW o \in Zones!FreeOwners(st)
      PROVE  /\ o \notin DOMAIN own /\ Zones!SpanOf(o) = Zones!FreeSpan(st, o)
             /\ Zones!FreeSpan(st, o) \in SpanSet /\ InBlock(st, Zones!FreeSpan(st, o))
  <2>1. o[1] \in {"rest", "slot", "block"}
    BY FreeOwnersAre
  <2>2. o \notin DOMAIN own
    BY <1>3, <2>1
  <2>3. Zones!SpanOf(o) = Zones!FreeSpan(st, o)
    BY <1>2, <2>2 DEF Zones!SpanOf, st
  <2>4. Zones!FreeSpan(st, o) \in SpanSet /\ InBlock(st, Zones!FreeSpan(st, o))
    BY <1>1, FreeSpansOK DEF FreeOK
  <2>. QED  BY <2>2, <2>3, <2>4
<1>6. ASSUME NEW o \in DOMAIN own \cup Zones!FreeOwners(st)
      PROVE  \E r \in Zones!Regions : Zones!Within(Zones!SpanOf(o), r)
  <2>1. CASE o \in DOMAIN own
    <3>1. PICK r \in Zones!Regions : Zones!Within(own[o], r)
      BY <1>3, <2>1, InRegions DEF st
    <3>2. /\ Zones!SpanOf(o).at \in Nat /\ Zones!SpanOf(o).size \in Nat
          /\ own[o].at \in Nat /\ own[o].size \in Nat
      BY <1>3, <1>4, <2>1, SpanNumbers
    <3>3. r.at \in Int /\ r.size \in Int
      <4>1. ASSUME NEW b \in DOMAIN blocks
            PROVE  blocks[b].data \in Nat /\ blocks[b].size \in Nat
        <5>1. blocks \in Seq(ZoneBlock)
          BY <1>1, ArenaFields, StateFields DEF st
        <5>2. b \in 1..Len(blocks)
          BY <5>1, LenProperties
        <5>. QED  BY <1>1, <5>2, ArenaFields, StateFields DEF st
      <4>2. ASSUME NEW d \in dynamicBlocks
            PROVE  d.memory.at \in Nat /\ d.memory.size \in Nat
        <5>1. d \in DynamicBlock
          BY <1>1, ArenaFields, StateFields DEF st
        <5>. QED  BY <5>1, SpanNumbers DEF DynamicBlock
      <4>. QED  BY <4>1, <4>2 DEF Zones!Regions, Zones!Span, Zones!offsetofData, Zones!sizeofBlock
    <3>4. Zones!Within(Zones!SpanOf(o), own[o])
      BY <1>4, <2>1
    <3>5. Zones!Within(Zones!SpanOf(o), r)
      BY <3>1, <3>2, <3>3, <3>4, WithinWithin
    <3>. QED  BY <3>5
  <2>2. CASE o \in Zones!FreeOwners(st)
    <3>1. Zones!FreeSpan(st, o).at \in Nat /\ Zones!FreeSpan(st, o).size \in Nat
      BY <1>5, <2>2, SpanNumbers
    <3>. QED  BY <1>5, <2>2, <3>1, InRegions DEF st
  <2>. QED  BY <2>1, <2>2
<1>7. ASSUME NEW o \in DOMAIN own, NEW u \in DOMAIN own, o # u
      PROVE  Zones!Apart(Zones!SpanOf(o), Zones!SpanOf(u))
  <2>1. Zones!Apart(own[o], own[u])
    BY <1>1, <1>7 DEF OwnOK
  <2>2. /\ Zones!SpanOf(o).at \in Nat /\ Zones!SpanOf(o).size \in Nat
        /\ Zones!SpanOf(u).at \in Nat /\ Zones!SpanOf(u).size \in Nat
    BY <1>4, SpanNumbers
  <2>. QED  BY <1>3, <1>4, <2>1, <2>2, WithinApart
<1>8. ASSUME NEW o \in DOMAIN own, NEW u \in Zones!FreeOwners(st)
      PROVE  /\ Zones!Apart(Zones!SpanOf(o), Zones!SpanOf(u))
             /\ Zones!Apart(Zones!SpanOf(u), Zones!SpanOf(o))
  <2>1. Zones!Apart(own[o], Zones!FreeSpan(st, u))
    BY <1>1 DEF OwnOK
  <2>2. /\ Zones!SpanOf(o).at \in Nat /\ Zones!SpanOf(o).size \in Nat
        /\ Zones!FreeSpan(st, u).at \in Nat /\ Zones!FreeSpan(st, u).size \in Nat
        /\ own[o].at \in Nat /\ own[o].size \in Nat
        /\ Zones!Within(Zones!SpanOf(o), own[o])
    BY <1>3, <1>4, <1>5, SpanNumbers
  <2>3. Zones!Apart(Zones!SpanOf(o), Zones!FreeSpan(st, u))
    BY <2>1, <2>2 DEF Zones!Within, Zones!Apart
  <2>. QED  BY <1>5, <2>3, ApartSymmetric
<1>9. ASSUME NEW o \in Zones!FreeOwners(st), NEW u \in Zones!FreeOwners(st), o # u
      PROVE  Zones!Apart(Zones!SpanOf(o), Zones!SpanOf(u))
  BY <1>1, <1>5, <1>9 DEF FreeOK
<1>10. Zones!UserOwners \cup Zones!FreeOwners(Zones!State) = DOMAIN own \cup Zones!FreeOwners(st)
  BY <1>2 DEF st
<1>11. Zones!PiecesAreDisjoint
  BY <1>6, <1>7, <1>8, <1>9, <1>10 DEF Zones!PiecesAreDisjoint
<1>. QED  BY <1>11 DEF PiecesAreDisjoint

\* Whatever is allocated, released and reset, and whatever malloc returns: no byte has two
\* owners, and all that is owned is in memory that malloc returned and that is not freed
\* (Zone::_alloc, ZoneHeap::_alloc and release, ZoneVector in zone.cpp).
THEOREM PiecesCorrect == Zones!Spec => []PiecesAreDisjoint
<1>1. Zones!Init => ZoneInv
  BY ZoneInit
<1>2. ZoneInv /\ [Zones!Next]_Zones!vars => ZoneInv'
  <2>1. UNCHANGED Zones!vars => UNCHANGED zoneVars
    BY DEF Zones!vars, Zones!zone, Zones!heap, zoneVars
  <2>. QED  BY <2>1, ZoneStep, ZoneAssumption
<1>3. ZoneInv => PiecesAreDisjoint
  BY ZoneInvImplies, ZoneAssumption
<1>. QED  BY <1>1, <1>2, <1>3, PTL DEF Zones!Spec

-----------------------------------------------------------------------------
(* CodeBuilder: lists with links in both directions.                       *)

\* An element put into a sequence moves what is behind it by one.
LEMMA Inserted ==
    ASSUME NEW S, NEW q \in Seq(S), NEW x \in S, NEW j \in 1..Len(q) + 1
    PROVE  /\ Builder!InsertAt(q, j, x) \in Seq(S) /\ Len(Builder!InsertAt(q, j, x)) = Len(q) + 1
           /\ \A i \in 1..Len(q) + 1 :
                 Builder!InsertAt(q, j, x)[i] = IF i < j THEN q[i] ELSE IF i = j THEN x ELSE q[i - 1]
<1>. DEFINE a == SubSeq(q, 1, j - 1) \o <<x>>
            b == SubSeq(q, j, Len(q))
            r == Builder!InsertAt(q, j, x)
<1>1. PICK n \in Nat : Len(q) = n /\ \A i \in 1..n : q[i] \in S
  BY LenProperties
<1>2. j \in Nat /\ j >= 1 /\ j <= n + 1
  BY <1>1
<1>3. /\ SubSeq(q, 1, j - 1) \in Seq(S) /\ Len(SubSeq(q, 1, j - 1)) = j - 1
      /\ \A i \in 1..j - 1 : SubSeq(q, 1, j - 1)[i] = q[i]
  BY <1>1, <1>2, SubSeqProperties
<1>4. /\ b \in Seq(S) /\ Len(b) = n + 1 - j /\ \A i \in 1..n + 1 - j : b[i] = q[j + i - 1]
  BY <1>1, <1>2, SubSeqProperties
<1>5. r = a \o b
  BY DEF Builder!InsertAt
<1>6. /\ a \in Seq(S) /\ Len(a) = j
      /\ \A i \in 1..j : a[i] = IF i < j THEN q[i] ELSE x
  BY <1>2, <1>3
<1>. HIDE DEF a, b, r
<1>7. Len(a) + Len(b) = n + 1
  BY <1>2, <1>4, <1>6
<1>8. /\ r \in Seq(S) /\ Len(r) = n + 1
      /\ \A i \in 1..n + 1 : r[i] = IF i <= j THEN a[i] ELSE b[i - j]
  <2>1. a \in Seq(S) /\ b \in Seq(S)
    BY <1>4, <1>6
  <2>2. /\ a \o b \in Seq(S) /\ Len(a \o b) = Len(a) + Len(b)
        /\ \A i \in 1..Len(a) + Len(b) : (a \o b)[i] = IF i <= Len(a) THEN a[i] ELSE b[i - Len(a)]
    BY <2>1, ConcatProperties
  <2>3. Len(a) = j
    BY <1>6
  <2>. QED  BY <1>5, <1>7, <2>2, <2>3
<1>9. \A i \in 1..n + 1 : r[i] = IF i < j THEN q[i] ELSE IF i = j THEN x ELSE q[i - 1]
  <2>. TAKE i \in 1..n + 1
  <2>1. CASE i <= j
    BY <1>2, <1>6, <1>8, <2>1
  <2>2. CASE i > j
    <3>1. PICK w \in 1..n + 1 - j : w = i - j /\ j + w - 1 = i - 1
      BY <1>2, <2>2
    <3>2. b[w] = q[i - 1]
      BY <1>4, <3>1
    <3>3. r[i] = b[w]
      BY <1>2, <1>8, <2>2, <3>1
    <3>. QED  BY <1>2, <2>2, <3>2, <3>3
  <2>. QED  BY <1>2, <2>1, <2>2
<1>. QED  BY <1>1, <1>8, <1>9 DEF r

\* The numbers of nodes.
Pos == Nat \ {0}

LEMMA PosIs == \A x : x \in Pos <=> x \in Nat /\ x # 0
BY DEF Pos

\* The k-th of a list, 0 before the first and behind the last.
At(o, k) == IF k \in 1..Len(o) THEN o[k] ELSE 0

\* Each node is in the list once.
Once(o) == \A i, j \in 1..Len(o) : o[i] = o[j] => i = j

\* What is in the list.
In(o) == {o[k] : k \in 1..Len(o)}

\* The successor and the predecessor; 0 stands for the two ends.
Nx(s, m) == IF m = 0 THEN s.first ELSE s.node[m].next
Pv(s, m) == IF m = 0 THEN s.last ELSE s.node[m].prev

\* Those of every node are its neighbours in the list.
LinkedAs(s, o) ==
    \A k \in 0..Len(o) : Nx(s, At(o, k)) = At(o, k + 1) /\ Pv(s, At(o, k + 1)) = At(o, k)

LEMMA AtIs ==
    ASSUME NEW o \in Seq(Pos)
    PROVE  /\ Len(o) \in Nat /\ At(o, 0) = 0 /\ At(o, Len(o) + 1) = 0
           /\ \A k \in 1..Len(o) : At(o, k) = o[k] /\ o[k] \in Pos /\ o[k] \in In(o)
           /\ 0 \notin In(o)
           /\ \A m \in In(o) : m \in Pos /\ \E k \in 1..Len(o) : o[k] = m
           /\ \A k : At(o, k) = 0 \/ At(o, k) \in In(o)
<1>1. Len(o) \in Nat /\ \A k \in 1..Len(o) : o[k] \in Pos
  BY ElementOfSeq
<1>2. PICK n \in Nat : n = Len(o)
  BY <1>1
<1>3. 0 \notin 1..n /\ n + 1 \notin 1..n
  OBVIOUS
<1>. QED  BY <1>1, <1>2, <1>3, PosIs DEF At, In

\* Two places have one node only if they are the same or outside.
LEMMA AtOnce ==
    ASSUME NEW o \in Seq(Pos), Once(o), NEW n \in Nat, n = Len(o),
           NEW j \in 0..n + 1, NEW k \in 0..n + 1, At(o, j) = At(o, k), j # k
    PROVE  j \in {0, n + 1} /\ k \in {0, n + 1}
<1>1. \A i \in 0..n + 1 : i \in {0, n + 1} \/ i \in 1..n
  OBVIOUS
<1>2. \A i \in {0, n + 1} : At(o, i) = 0
  BY AtIs
<1>3. \A i \in 1..n : At(o, i) = o[i] /\ o[i] # 0
  BY AtIs, PosIs
<1>. QED  BY ONLY <1>1, <1>2, <1>3, Once(o), n = Len(o), j \in 0..n + 1, k \in 0..n + 1,
              At(o, j) = At(o, k), j # k DEF Once

\* A node that is put in is the i-th.
LEMMA PutInSeq ==
    ASSUME NEW o \in Seq(Pos), NEW x \in Pos, NEW i \in 1..Len(o) + 1
    PROVE  /\ Builder!InsertAt(o, i, x) \in Seq(Pos)
           /\ Len(Builder!InsertAt(o, i, x)) = Len(o) + 1
           /\ \A k \in 1..Len(o) + 1 :
                 Builder!InsertAt(o, i, x)[k] =
                     IF k < i THEN o[k] ELSE IF k = i THEN x ELSE o[k - 1]
<1>1. PICK S : S = Pos
  OBVIOUS
<1>2. o \in Seq(S) /\ x \in S /\ i \in 1..Len(o) + 1
  BY <1>1
<1>3. /\ Builder!InsertAt(o, i, x) \in Seq(S) /\ Len(Builder!InsertAt(o, i, x)) = Len(o) + 1
      /\ \A k \in 1..Len(o) + 1 :
            Builder!InsertAt(o, i, x)[k] = IF k < i THEN o[k] ELSE IF k = i THEN x ELSE o[k - 1]
  BY ONLY <1>2, Inserted
<1>. QED  BY ONLY <1>1, <1>3

\* x is put into o at i, which makes t.
Putting(o, n, i, x, t) ==
    /\ o \in Seq(Pos) /\ n = Len(o) /\ i \in 1..n + 1 /\ x \in Pos /\ x \notin In(o) /\ Once(o)
    /\ t = Builder!InsertAt(o, i, x)

Put(o, n, i, x, t) ==
    /\ t \in Seq(Pos) /\ Len(t) = n + 1
    /\ \A k \in 0..i - 1 : At(t, k) = At(o, k)
    /\ At(t, i) = x
    /\ \A k \in i..n + 1 : At(t, k + 1) = At(o, k)
    /\ \A m : m \in In(t) <=> m = x \/ m \in In(o)
    /\ Once(t)

LEMMA PutInAt ==
    ASSUME NEW o, NEW n, NEW i, NEW x, NEW t, Putting(o, n, i, x, t)
    PROVE  Put(o, n, i, x, t)
<1>a. /\ o \in Seq(Pos) /\ n \in Nat /\ n = Len(o) /\ i \in 1..n + 1 /\ x \in Pos
      /\ x \notin In(o) /\ Once(o) /\ t = Builder!InsertAt(o, i, x)
  BY LenProperties DEF Putting
<1>b. i \in Nat /\ 1 <= i /\ i <= n + 1 /\ n \in Nat
  BY ONLY <1>a
<1>c. t \in Seq(Pos)
  BY ONLY <1>a, PutInSeq
<1>1. /\ Len(t) = n + 1
      /\ \A k \in 1..n + 1 : t[k] = IF k < i THEN o[k] ELSE IF k = i THEN x ELSE o[k - 1]
  <2>1. i \in 1..Len(o) + 1
    BY ONLY <1>a
  <2>2. /\ Len(Builder!InsertAt(o, i, x)) = Len(o) + 1
        /\ \A k \in 1..Len(o) + 1 :
              Builder!InsertAt(o, i, x)[k] =
                  IF k < i THEN o[k] ELSE IF k = i THEN x ELSE o[k - 1]
    BY ONLY <2>1, <1>a, PutInSeq
  <2>. QED  BY ONLY <2>2, <1>a
<1>2. \A k \in 0..i - 1 : At(t, k) = At(o, k)
  <2>1. \A k \in 0..i - 1 : (k = 0 /\ k \notin 1..n /\ k \notin 1..n + 1)
                            \/ (k \in 1..n /\ k \in 1..n + 1 /\ k < i)
    BY ONLY <1>b
  <2>. QED  BY ONLY <2>1, <1>1, <1>a DEF At
<1>3. At(t, i) = x
  BY ONLY <1>1, <1>a, <1>b DEF At
<1>4. \A k \in i..n + 1 : At(t, k + 1) = At(o, k)
  <2>1. \A k \in i..n + 1 : (k = n + 1 /\ k \notin 1..n /\ k + 1 \notin 1..n + 1)
                            \/ (k \in 1..n /\ k + 1 \in 1..n + 1 /\ ~(k + 1 < i) /\ k + 1 # i
                                /\ (k + 1) - 1 = k)
    BY ONLY <1>b
  <2>. QED  BY ONLY <2>1, <1>1, <1>a DEF At
<1>5. \A k \in 1..n + 1 : (k < i /\ k \in 1..n /\ t[k] = o[k]) \/ (k = i /\ t[k] = x)
                          \/ (k > i /\ k - 1 \in 1..n /\ t[k] = o[k - 1])
  <2>1. \A k \in 1..n + 1 : (k < i /\ k \in 1..n) \/ k = i \/ (k > i /\ ~(k < i) /\ k # i /\ k - 1 \in 1..n)
    BY ONLY <1>b
  <2>2. ~(i < i)
    BY ONLY <1>b
  <2>. QED  BY ONLY <2>1, <2>2, <1>1
<1>6. ASSUME NEW m
      PROVE  m \in In(t) <=> m = x \/ m \in In(o)
  <2>1. ASSUME m \in In(t)
        PROVE  m = x \/ m \in In(o)
    <3>1. PICK k \in 1..n + 1 : t[k] = m
      BY <1>1, <2>1 DEF In
    <3>. QED  BY ONLY <3>1, k \in 1..n + 1, <1>5, <1>a DEF In
  <2>2. ASSUME m = x
        PROVE  m \in In(t)
    <3>1. i \in 1..n + 1 /\ t[i] = x
      BY ONLY <1>1, <1>a, <1>b
    <3>. QED  BY ONLY <3>1, <2>2, <1>1 DEF In
  <2>3. ASSUME m \in In(o)
        PROVE  m \in In(t)
    <3>1. PICK k \in 1..n : o[k] = m
      BY ONLY <2>3, <1>a DEF In
    <3>2. CASE k < i
      <4>1. k \in 1..n + 1 /\ t[k] = m
        BY ONLY <3>1, <3>2, k \in 1..n, <1>b, <1>1
      <4>. QED  BY ONLY <4>1, <1>1 DEF In
    <3>3. CASE k >= i
      <4>1. k + 1 \in 1..n + 1 /\ ~(k + 1 < i) /\ k + 1 # i /\ (k + 1) - 1 = k
        BY ONLY <3>3, k \in 1..n, <1>a, <1>b
      <4>2. t[k + 1] = m
        BY ONLY <4>1, <3>1, <1>1
      <4>. QED  BY ONLY <4>1, <4>2, <1>1 DEF In
    <3>. QED  BY ONLY <3>2, <3>3, k \in 1..n, <1>a, <1>b
  <2>. QED  BY <2>1, <2>2, <2>3
<1>7. Once(t)
  <2>1. \A k \in 1..n : o[k] # x
    BY ONLY <1>a DEF In
  <2>2. \A j, k \in 1..n : o[j] = o[k] => j = k
    BY ONLY <1>a DEF Once
  <2>3. ASSUME NEW j \in 1..n + 1, NEW k \in 1..n + 1, t[j] = t[k]
        PROVE  j = k
    <3>1. (j < i /\ j \in 1..n /\ t[j] = o[j]) \/ (j = i /\ t[j] = x)
          \/ (j > i /\ j - 1 \in 1..n /\ t[j] = o[j - 1])
      BY ONLY <1>5, j \in 1..n + 1
    <3>2. (k < i /\ k \in 1..n /\ t[k] = o[k]) \/ (k = i /\ t[k] = x)
          \/ (k > i /\ k - 1 \in 1..n /\ t[k] = o[k - 1])
      BY ONLY <1>5, k \in 1..n + 1
    <3>3. \/ j = i /\ k = i
          \/ j < i /\ k < i /\ j = k
          \/ j > i /\ k > i /\ j - 1 = k - 1
          \/ j < i /\ k > i /\ j = k - 1
          \/ j > i /\ k < i /\ j - 1 = k
      BY ONLY <3>1, <3>2, <2>1, <2>2, <2>3
    <3>. QED  BY ONLY <3>3, j \in 1..n + 1, k \in 1..n + 1, <1>a, <1>b
  <2>. QED  BY ONLY <2>3, <1>1 DEF Once
<1>. QED  BY ONLY <1>c, <1>1, <1>2, <1>3, <1>4, <1>6, <1>7 DEF Put

\* The nodes from the i-th to the j-th, and the others.
RunOf(o, i, j)   == SubSeq(o, i, j)
WithoutRun(o, i, j) == SubSeq(o, 1, i - 1) \o SubSeq(o, j + 1, Len(o))

\* The nodes from the i-th to the j-th are cut out.
CanCut(o, i, j) == o \in Seq(Pos) /\ i \in 1..Len(o) /\ j \in i..Len(o)

CutsOut(o, i, j) ==
    /\ RunOf(o, i, j) \in Seq(Pos)
    /\ Len(RunOf(o, i, j)) = j - i + 1
    /\ \A k \in 1..j - i + 1 : RunOf(o, i, j)[k] = o[i + k - 1]
    /\ WithoutRun(o, i, j) \in Seq(Pos)
    /\ Len(WithoutRun(o, i, j)) = Len(o) - (j - i + 1)
    /\ \A k \in 1..Len(o) - (j - i + 1) :
          WithoutRun(o, i, j)[k] = IF k < i THEN o[k] ELSE o[k + (j - i + 1)]

LEMMA CutOutSeq ==
    ASSUME NEW o, NEW i, NEW j, CanCut(o, i, j)
    PROVE  CutsOut(o, i, j)
<1>a. PICK n \in Nat : n = Len(o)
  BY LenProperties DEF CanCut
<1>0. o \in Seq(Pos) /\ n = Len(o) /\ i \in 1..n /\ j \in i..n
  BY <1>a DEF CanCut
<1>1. i \in Nat /\ j \in Nat /\ 1 <= i /\ i <= j /\ j <= n
  BY <1>0
<1>2. /\ SubSeq(o, i, j) \in Seq(Pos) /\ Len(SubSeq(o, i, j)) = j - i + 1
      /\ \A k \in 1..j - i + 1 : SubSeq(o, i, j)[k] = o[i + k - 1]
  BY <1>0, <1>1, SubSeqProperties
<1>3. PICK a : a = SubSeq(o, 1, i - 1)
  OBVIOUS
<1>4. a \in Seq(Pos) /\ Len(a) = i - 1 /\ \A k \in 1..i - 1 : a[k] = o[k]
  BY <1>0, <1>1, <1>3, SubSeqProperties
<1>5. PICK c : c = SubSeq(o, j + 1, n)
  OBVIOUS
<1>6. c \in Seq(Pos) /\ Len(c) = n - j /\ \A k \in 1..n - j : c[k] = o[j + k]
  <2>1. /\ c \in Seq(Pos) /\ Len(c) = n - (j + 1) + 1
        /\ \A k \in 1..n - (j + 1) + 1 : c[k] = o[(j + 1) + k - 1]
    BY <1>0, <1>1, <1>5, SubSeqProperties
  <2>2. n - (j + 1) + 1 = n - j /\ \A k \in 1..n - j : (j + 1) + k - 1 = j + k
    BY ONLY <1>1, n \in Nat
  <2>. QED  BY ONLY <2>1, <2>2
<1>7. PICK r : r = a \o c
  OBVIOUS
<1>8. /\ r \in Seq(Pos) /\ Len(r) = n - (j - i + 1)
      /\ \A k \in 1..n - (j - i + 1) : r[k] = IF k <= i - 1 THEN a[k] ELSE c[k - (i - 1)]
  <2>1. /\ r \in Seq(Pos) /\ Len(r) = Len(a) + Len(c)
        /\ \A k \in 1..Len(a) + Len(c) : r[k] = IF k <= Len(a) THEN a[k] ELSE c[k - Len(a)]
    BY ONLY <1>4, <1>6, <1>7, ConcatProperties
  <2>2. Len(a) + Len(c) = n - (j - i + 1)
    BY ONLY <1>1, <1>4, <1>6, n \in Nat
  <2>. QED  BY ONLY <2>1, <2>2, <1>4
<1>9. ASSUME NEW k \in 1..n - (j - i + 1)
      PROVE  r[k] = IF k < i THEN o[k] ELSE o[k + (j - i + 1)]
  <2>1. CASE k < i
    <3>1. k <= i - 1 /\ k \in 1..i - 1
      BY ONLY <2>1, <1>1, n \in Nat, k \in 1..n - (j - i + 1)
    <3>. QED  BY ONLY <2>1, <3>1, <1>4, <1>8, k \in 1..n - (j - i + 1)
  <2>2. CASE ~(k < i)
    <3>1. ~(k <= i - 1) /\ k - (i - 1) \in 1..n - j /\ j + (k - (i - 1)) = k + (j - i + 1)
      BY ONLY <2>2, <1>1, n \in Nat, k \in 1..n - (j - i + 1)
    <3>2. r[k] = c[k - (i - 1)] /\ c[k - (i - 1)] = o[j + (k - (i - 1))]
      BY ONLY <3>1, <1>6, <1>8, k \in 1..n - (j - i + 1)
    <3>. QED  BY ONLY <2>2, <3>1, <3>2
  <2>. QED  BY <2>1, <2>2
<1>10. r = WithoutRun(o, i, j) /\ RunOf(o, i, j) = SubSeq(o, i, j)
  BY <1>3, <1>5, <1>7 , <1>0 DEF WithoutRun, RunOf
<1>. QED  BY ONLY <1>0, <1>2, <1>8, <1>9, <1>10 DEF CutsOut

\* c is cut out of o, t is what stays, n and d the lengths.
Cutting(o, n, i, j, t, c, d) ==
    /\ o \in Seq(Pos) /\ Once(o) /\ n = Len(o) /\ i \in 1..n /\ j \in i..n
    /\ t = WithoutRun(o, i, j) /\ c = RunOf(o, i, j) /\ d = Len(c)

CutRun(o, n, i, j, t, c, d) ==
    /\ d = j - i + 1 /\ Len(t) = n - d /\ n - d \in Nat
    /\ \A k \in 0..i - 1 : At(t, k) = At(o, k)
    /\ \A k \in i..n - d + 1 : At(t, k) = At(o, k + d)
    /\ \A m : m \in In(o) <=> m \in In(t) \/ m \in In(c)
    /\ Once(t) /\ Once(c) /\ In(t) \cap In(c) = {}
    /\ Len(c) = d /\ \A k \in 1..d : c[k] = o[i + k - 1]

LEMMA CutOutAt ==
    ASSUME NEW o, NEW n, NEW i, NEW j, NEW t, NEW c, NEW d, Cutting(o, n, i, j, t, c, d)
    PROVE  CutRun(o, n, i, j, t, c, d)
<1>a. /\ o \in Seq(Pos) /\ n \in Nat /\ Once(o) /\ n = Len(o) /\ i \in 1..n /\ j \in i..n
      /\ t = WithoutRun(o, i, j) /\ c = RunOf(o, i, j) /\ d = Len(c)
  BY LenProperties DEF Cutting
<1>1. i \in Nat /\ j \in Nat /\ 1 <= i /\ i <= j /\ j <= n
  BY ONLY <1>a
<1>b. /\ Len(RunOf(o, i, j)) = j - i + 1
      /\ \A k \in 1..j - i + 1 : RunOf(o, i, j)[k] = o[i + k - 1]
      /\ Len(WithoutRun(o, i, j)) = n - (j - i + 1)
      /\ \A k \in 1..n - (j - i + 1) : WithoutRun(o, i, j)[k] =
                                       IF k < i THEN o[k] ELSE o[k + (j - i + 1)]
  <2>1. CutsOut(o, i, j)
    BY ONLY <1>a, CutOutSeq DEF CanCut
  <2>. QED  BY ONLY <1>a, <2>1 DEF CutsOut
<1>0. d = j - i + 1
  BY ONLY <1>a, <1>b
<1>2. /\ Len(c) = d /\ \A k \in 1..d : c[k] = o[i + k - 1]
      /\ Len(t) = n - d
      /\ \A k \in 1..n - d : t[k] = IF k < i THEN o[k] ELSE o[k + d]
  <2>1. /\ Len(RunOf(o, i, j)) = d
        /\ \A k \in 1..d : RunOf(o, i, j)[k] = o[i + k - 1]
        /\ Len(WithoutRun(o, i, j)) = n - d
        /\ \A k \in 1..n - d : WithoutRun(o, i, j)[k] =
                               IF k < i THEN o[k] ELSE o[k + d]
    BY ONLY <1>b, <1>0
  <2>. QED  BY ONLY <2>1, <1>a
<1>3. d > 0 /\ d <= n /\ n - d \in Nat /\ i - 1 <= n - d
  BY ONLY <1>1, <1>0, <1>a
<1>4. \A k \in 0..i - 1 : At(t, k) = At(o, k)
  <2>1. \A k \in 0..i - 1 : (k \notin 1..n /\ k \notin 1..n - d) \/ (k \in 1..n /\ k \in 1..n - d /\ k < i)
    BY ONLY <1>1, <1>3, <1>a, <1>0
  <2>. QED  BY ONLY <2>1, <1>2, <1>a DEF At
<1>5. \A k \in i..n - d + 1 : At(t, k) = At(o, k + d)
  <2>1. \A k \in i..n - d + 1 :
           \/ k \notin 1..n - d /\ k + d \notin 1..n
           \/ k \in 1..n - d /\ k + d \in 1..n /\ ~(k < i)
    BY ONLY <1>1, <1>3, <1>a, <1>0
  <2>. QED  BY ONLY <2>1, <1>2, <1>a DEF At
<1>6. \A k \in 1..n - d : \/ k < i /\ k \in 1..n /\ t[k] = o[k]
                          \/ k >= i /\ k + d > j /\ k + d \in 1..n /\ t[k] = o[k + d]
  <2>1. \A k \in 1..n - d : (k < i /\ k \in 1..n)
                            \/ (~(k < i) /\ k >= i /\ k + d > j /\ k + d \in 1..n)
    BY ONLY <1>1, <1>3, <1>a, <1>0, <1>0
  <2>. QED  BY ONLY <2>1, <1>2
<1>7. \A k \in 1..d : i + k - 1 \in i..j /\ i + k - 1 \in 1..n /\ c[k] = o[i + k - 1]
  <2>1. \A k \in 1..d : i + k - 1 \in i..j /\ i + k - 1 \in 1..n
    BY ONLY <1>1, <1>a, <1>0
  <2>. QED  BY ONLY <2>1, <1>2
<1>8. ASSUME NEW k \in 1..n
      PROVE  (k \in 1..n - d /\ k < i) \/ (k - d \in 1..n - d /\ ~(k - d < i) /\ (k - d) + d = k)
             \/ (k - i + 1 \in 1..d /\ i + (k - i + 1) - 1 = k)
  BY ONLY <1>1, <1>3, <1>a, <1>0, k \in 1..n
<1>9. ASSUME NEW m
      PROVE  m \in In(o) <=> m \in In(t) \/ m \in In(c)
  <2>1. ASSUME m \in In(o)
        PROVE  m \in In(t) \/ m \in In(c)
    <3>1. PICK k \in 1..n : o[k] = m
      BY ONLY <2>1, <1>a DEF In
    <3>2. CASE k \in 1..n - d /\ k < i
      <4>1. t[k] = m
        BY ONLY <3>1, <3>2, <1>2
      <4>. QED  BY ONLY <4>1, <3>2, <1>2, <1>a DEF In
    <3>3. CASE k - d \in 1..n - d /\ ~(k - d < i) /\ (k - d) + d = k
      <4>1. t[k - d] = m
        BY ONLY <3>1, <3>3, <1>2
      <4>. QED  BY ONLY <4>1, <3>3, <1>2, <1>a DEF In
    <3>4. CASE k - i + 1 \in 1..d /\ i + (k - i + 1) - 1 = k
      <4>1. c[k - i + 1] = m
        BY ONLY <3>1, <3>4, <1>2
      <4>. QED  BY ONLY <4>1, <3>4, <1>2, <1>a DEF In
    <3>. QED  BY ONLY <3>2, <3>3, <3>4, <1>8, k \in 1..n
  <2>2. ASSUME m \in In(t)
        PROVE  m \in In(o)
    <3>1. PICK k \in 1..n - d : t[k] = m
      BY ONLY <2>2, <1>2, <1>a DEF In
    <3>2. (k \in 1..n /\ o[k] = m) \/ (k + d \in 1..n /\ o[k + d] = m)
      BY ONLY <3>1, <1>6, k \in 1..n - d
    <3>. QED  BY ONLY <3>2, <1>a DEF In
  <2>3. ASSUME m \in In(c)
        PROVE  m \in In(o)
    <3>1. PICK k \in 1..d : c[k] = m
      BY ONLY <2>3, <1>2, <1>a DEF In
    <3>2. i + k - 1 \in 1..n /\ o[i + k - 1] = m
      BY ONLY <3>1, <1>7, k \in 1..d
    <3>. QED  BY ONLY <3>2, <1>a DEF In
  <2>. QED  BY <2>1, <2>2, <2>3
<1>10. \A k, l \in 1..n : o[k] = o[l] => k = l
  BY ONLY <1>a DEF Once
<1>11. Once(t)
  <2>1. ASSUME NEW k \in 1..n - d, NEW l \in 1..n - d, t[k] = t[l]
        PROVE  k = l
    <3>1. \/ k < i /\ k \in 1..n /\ t[k] = o[k]
          \/ k >= i /\ k + d > j /\ k + d \in 1..n /\ t[k] = o[k + d]
      BY ONLY <1>6, k \in 1..n - d
    <3>2. \/ l < i /\ l \in 1..n /\ t[l] = o[l]
          \/ l >= i /\ l + d > j /\ l + d \in 1..n /\ t[l] = o[l + d]
      BY ONLY <1>6, l \in 1..n - d
    <3>3. \/ k = l
          \/ k < i /\ l + d > j /\ k = l + d
          \/ l < i /\ k + d > j /\ k + d = l
          \/ k + d = l + d
      BY ONLY <2>1, <3>1, <3>2, <1>10
    <3>. QED  BY ONLY <3>3, <1>1, <1>3, <1>a, <1>0, k \in 1..n - d, l \in 1..n - d
  <2>. QED  BY ONLY <2>1, <1>2 DEF Once
<1>12. Once(c)
  <2>1. ASSUME NEW k \in 1..d, NEW l \in 1..d, c[k] = c[l]
        PROVE  k = l
    <3>1. i + k - 1 = i + l - 1
      BY ONLY <2>1, <1>7, <1>10, k \in 1..d, l \in 1..d
    <3>. QED  BY ONLY <3>1, <1>1, <1>a, <1>0, k \in 1..d, l \in 1..d
  <2>. QED  BY ONLY <2>1, <1>2 DEF Once
<1>13. ASSUME NEW m \in In(t), m \in In(c)
       PROVE  FALSE
  <2>1. PICK k \in 1..n - d : t[k] = m
    BY ONLY m \in In(t), <1>2, <1>a DEF In
  <2>2. PICK l \in 1..d : c[l] = m
    BY ONLY <1>13, <1>2, <1>a DEF In
  <2>3. \/ k < i /\ k \in 1..n /\ o[k] = m
        \/ k + d > j /\ k + d \in 1..n /\ o[k + d] = m
    BY ONLY <1>6, <2>1, k \in 1..n - d
  <2>4. i + l - 1 \in i..j /\ i + l - 1 \in 1..n /\ o[i + l - 1] = m
    BY ONLY <1>7, <2>2, l \in 1..d
  <2>5. (k < i /\ k = i + l - 1) \/ (k + d > j /\ k + d = i + l - 1)
    BY ONLY <2>3, <2>4, <1>10
  <2>. QED  BY ONLY <2>4, <2>5, <1>1, <1>a, <1>0, k \in 1..n - d, l \in 1..d
<1>14. In(t) \cap In(c) = {}
  BY <1>13
<1>. QED  BY ONLY <1>0, <1>2, <1>3, <1>4, <1>5, <1>9, <1>11, <1>12, <1>14 DEF CutRun

-----------------------------------------------------------------------------
(* CodeBuilder: the links of a list that a node is put in, or cut out of.  *)

\* The links that are changed when x comes between p and q.
Inserting(s, r, o, n, i, x, t, p, q) ==
    /\ Putting(o, n, i, x, t) /\ LinkedAs(s, o) /\ p = At(o, i - 1) /\ q = At(o, i)
    /\ Nx(r, p) = x /\ Nx(r, x) = q /\ \A m \in {0} \cup In(o) : m # p => Nx(r, m) = Nx(s, m)
    /\ Pv(r, q) = x /\ Pv(r, x) = p /\ \A m \in {0} \cup In(o) : m # q => Pv(r, m) = Pv(s, m)

LEMMA InsertLinked ==
    ASSUME NEW s, NEW r, NEW o, NEW n, NEW i, NEW x, NEW t, NEW p, NEW q,
           Inserting(s, r, o, n, i, x, t, p, q)
    PROVE  LinkedAs(r, t)
<1>b. /\ Putting(o, n, i, x, t) /\ LinkedAs(s, o) /\ p = At(o, i - 1) /\ q = At(o, i)
      /\ Nx(r, p) = x /\ Nx(r, x) = q /\ \A m \in {0} \cup In(o) : m # p => Nx(r, m) = Nx(s, m)
      /\ Pv(r, q) = x /\ Pv(r, x) = p /\ \A m \in {0} \cup In(o) : m # q => Pv(r, m) = Pv(s, m)
  BY ONLY Inserting(s, r, o, n, i, x, t, p, q) DEF Inserting
<1>a. o \in Seq(Pos) /\ n \in Nat /\ n = Len(o) /\ i \in 1..n + 1 /\ Once(o)
  BY <1>b, LenProperties DEF Putting
<1>1. /\ Len(t) = n + 1
      /\ \A k \in 0..i - 1 : At(t, k) = At(o, k)
      /\ At(t, i) = x
      /\ \A k \in i..n + 1 : At(t, k + 1) = At(o, k)
  <2>1. Put(o, n, i, x, t)
    BY ONLY <1>b, PutInAt
  <2>. QED  BY ONLY <2>1 DEF Put
<1>2. i \in Nat /\ 1 <= i /\ i <= n + 1
  BY ONLY <1>a
<1>3. \A k \in 0..n : Nx(s, At(o, k)) = At(o, k + 1) /\ Pv(s, At(o, k + 1)) = At(o, k)
  BY ONLY <1>a, <1>b DEF LinkedAs
<1>4. \A k : At(o, k) \in {0} \cup In(o)
  BY <1>a, AtIs
<1>5. \A k \in 0..n : k # i - 1 => At(o, k) # p
  <2>1. ASSUME NEW k \in 0..n, k # i - 1, At(o, k) = At(o, i - 1)
        PROVE  FALSE
    <3>1. k \in 0..n + 1 /\ i - 1 \in 0..n + 1
      BY ONLY <1>2, <1>a, k \in 0..n
    <3>2. k \in {0, n + 1} /\ i - 1 \in {0, n + 1}
      BY ONLY <3>1, <2>1, AtOnce, <1>a
    <3>. QED  BY ONLY <3>2, <2>1, <1>2, <1>a, k \in 0..n
  <2>. QED  BY ONLY <2>1, <1>b
<1>6. \A k \in 1..n + 1 : k # i => At(o, k) # q
  <2>1. ASSUME NEW k \in 1..n + 1, k # i, At(o, k) = At(o, i)
        PROVE  FALSE
    <3>1. k \in 0..n + 1 /\ i \in 0..n + 1
      BY ONLY <1>2, <1>a , k \in 1..n + 1
    <3>2. k \in {0, n + 1} /\ i \in {0, n + 1}
      BY ONLY <3>1, <2>1, AtOnce, <1>a
    <3>. QED  BY ONLY <3>2, <2>1, <1>2, <1>a , k \in 1..n + 1
  <2>. QED  BY ONLY <2>1, <1>b
<1>7. ASSUME NEW k \in 0..n + 1
      PROVE  Nx(r, At(t, k)) = At(t, k + 1) /\ Pv(r, At(t, k + 1)) = At(t, k)
  <2>1. CASE k < i - 1
    <3>1. k \in 0..i - 1 /\ k + 1 \in 0..i - 1 /\ k \in 0..n /\ k + 1 \in 1..n + 1 /\ k # i - 1 /\ k + 1 # i
      BY ONLY <2>1, <1>2, <1>a, k \in 0..n + 1
    <3>2. At(t, k) = At(o, k) /\ At(t, k + 1) = At(o, k + 1)
      BY ONLY <1>1, <3>1
    <3>3. Nx(r, At(o, k)) = Nx(s, At(o, k)) /\ Pv(r, At(o, k + 1)) = Pv(s, At(o, k + 1))
      BY ONLY <3>1, <1>4, <1>5, <1>6, <1>b
    <3>. QED  BY ONLY <3>1, <3>2, <3>3, <1>3
  <2>2. CASE k = i - 1
    <3>1. i - 1 \in 0..i - 1 /\ (i - 1) + 1 = i
      BY ONLY <1>2, <1>a
    <3>2. At(t, k) = p /\ At(t, k + 1) = x
      BY <2>2, <3>1, <1>1, <1>b
    <3>. QED  BY ONLY <3>2, <1>b
  <2>3. CASE k = i
    <3>1. i \in i..n + 1
      BY ONLY <1>2, <1>a
    <3>2. At(t, k) = x /\ At(t, k + 1) = q
      BY <2>3, <3>1, <1>1, <1>b
    <3>. QED  BY ONLY <3>2, <1>b
  <2>4. CASE k > i
    <3>1. PICK l \in 0..n : k = l + 1 /\ l \in i..n + 1 /\ l + 1 \in i..n + 1 /\ l + 1 \in 1..n + 1
                            /\ l # i - 1 /\ l + 1 # i
      <4>1. k - 1 \in 0..n /\ k = (k - 1) + 1 /\ k - 1 \in i..n + 1 /\ (k - 1) + 1 \in i..n + 1
            /\ (k - 1) + 1 \in 1..n + 1 /\ k - 1 # i - 1 /\ (k - 1) + 1 # i
        BY ONLY <2>4, <1>2, <1>a, k \in 0..n + 1
      <4>. QED  BY <4>1
    <3>2. At(t, l + 1) = At(o, l) /\ At(t, (l + 1) + 1) = At(o, l + 1)
      BY ONLY <1>1, <3>1
    <3>3. Nx(r, At(o, l)) = Nx(s, At(o, l)) /\ Pv(r, At(o, l + 1)) = Pv(s, At(o, l + 1))
      BY ONLY <3>1, <1>4, <1>5, <1>6, <1>b
    <3>. QED  BY ONLY <3>1, <3>2, <3>3, <1>3, l \in 0..n
  <2>. QED  BY ONLY <2>1, <2>2, <2>3, <2>4, <1>2, <1>a, k \in 0..n + 1
<1>. QED  BY ONLY <1>1, <1>7 DEF LinkedAs

\* The links that are changed when the nodes between p and q are cut out.
Parting(s, r, o, n, i, j, t, c, d, p, q) ==
    /\ Cutting(o, n, i, j, t, c, d) /\ LinkedAs(s, o) /\ p = At(o, i - 1) /\ q = At(o, j + 1)
    /\ Nx(r, p) = q /\ \A m \in {0} \cup In(o) : m # p => Nx(r, m) = Nx(s, m)
    /\ Pv(r, q) = p /\ \A m \in {0} \cup In(o) : m # q => Pv(r, m) = Pv(s, m)

LEMMA CutLinked ==
    ASSUME NEW s, NEW r, NEW o, NEW n, NEW i, NEW j, NEW t, NEW c, NEW d, NEW p, NEW q,
           Parting(s, r, o, n, i, j, t, c, d, p, q)
    PROVE  LinkedAs(r, t)
<1>b. /\ Cutting(o, n, i, j, t, c, d) /\ LinkedAs(s, o) /\ p = At(o, i - 1) /\ q = At(o, j + 1)
      /\ Nx(r, p) = q /\ \A m \in {0} \cup In(o) : m # p => Nx(r, m) = Nx(s, m)
      /\ Pv(r, q) = p /\ \A m \in {0} \cup In(o) : m # q => Pv(r, m) = Pv(s, m)
  BY ONLY Parting(s, r, o, n, i, j, t, c, d, p, q) DEF Parting
<1>a. o \in Seq(Pos) /\ n \in Nat /\ Once(o) /\ n = Len(o) /\ i \in 1..n /\ j \in i..n
  BY <1>b, LenProperties DEF Cutting
<1>1. i \in Nat /\ j \in Nat /\ 1 <= i /\ i <= j /\ j <= n
  BY ONLY <1>a
<1>3. /\ d = j - i + 1 /\ Len(t) = n - d /\ n - d \in Nat
      /\ \A k \in 0..i - 1 : At(t, k) = At(o, k)
      /\ \A k \in i..n - d + 1 : At(t, k) = At(o, k + d)
  <2>1. CutRun(o, n, i, j, t, c, d)
    BY ONLY <1>b, CutOutAt
  <2>. QED  BY ONLY <2>1 DEF CutRun
<1>2. d = j - i + 1 /\ d \in Nat
  BY ONLY <1>1, <1>3
<1>4. \A k \in 0..n : Nx(s, At(o, k)) = At(o, k + 1) /\ Pv(s, At(o, k + 1)) = At(o, k)
  BY ONLY <1>a, <1>b DEF LinkedAs
<1>5. \A k : At(o, k) \in {0} \cup In(o)
  BY <1>a, AtIs
<1>6. \A k \in 0..n : k # i - 1 => At(o, k) # p
  <2>1. ASSUME NEW k \in 0..n, k # i - 1, At(o, k) = At(o, i - 1)
        PROVE  FALSE
    <3>1. k \in 0..n + 1 /\ i - 1 \in 0..n + 1
      BY ONLY <1>1, k \in 0..n, <1>a
    <3>2. k \in {0, n + 1} /\ i - 1 \in {0, n + 1}
      BY ONLY <3>1, <2>1, AtOnce, <1>a
    <3>. QED  BY ONLY <3>2, <2>1, <1>1, k \in 0..n, <1>a
  <2>. QED  BY ONLY <2>1, <1>b
<1>7. \A k \in 1..n + 1 : k # j + 1 => At(o, k) # q
  <2>1. ASSUME NEW k \in 1..n + 1, k # j + 1, At(o, k) = At(o, j + 1)
        PROVE  FALSE
    <3>1. k \in 0..n + 1 /\ j + 1 \in 0..n + 1
      BY ONLY <1>1, k \in 1..n + 1, <1>a
    <3>2. k \in {0, n + 1} /\ j + 1 \in {0, n + 1}
      BY ONLY <3>1, <2>1, AtOnce, <1>a
    <3>. QED  BY ONLY <3>2, <2>1, <1>1, k \in 1..n + 1, <1>a
  <2>. QED  BY ONLY <2>1, <1>b
<1>8. ASSUME NEW k \in 0..n - d
      PROVE  Nx(r, At(t, k)) = At(t, k + 1) /\ Pv(r, At(t, k + 1)) = At(t, k)
  <2>1. CASE k < i - 1
    <3>1. k \in 0..i - 1 /\ k + 1 \in 0..i - 1 /\ k \in 0..n /\ k + 1 \in 1..n + 1 /\ k # i - 1 /\ k + 1 # j + 1
      BY ONLY <2>1, <1>1, k \in 0..n - d, <1>a, <1>2, <1>3, <1>2
    <3>2. At(t, k) = At(o, k) /\ At(t, k + 1) = At(o, k + 1)
      BY ONLY <1>3, <3>1
    <3>3. Nx(r, At(o, k)) = Nx(s, At(o, k)) /\ Pv(r, At(o, k + 1)) = Pv(s, At(o, k + 1))
      BY ONLY <3>1, <1>5, <1>6, <1>7, <1>b
    <3>. QED  BY ONLY <3>1, <3>2, <3>3, <1>4
  <2>2. CASE k = i - 1
    <3>1. i - 1 \in 0..i - 1 /\ (i - 1) + 1 = i /\ i \in i..n - d + 1 /\ i + d = j + 1
      BY ONLY <1>1, <1>2, <1>a, <1>2, <1>3
    <3>2. At(t, k) = p /\ At(t, k + 1) = q
      BY <2>2, <3>1, <1>3, <1>b
    <3>. QED  BY ONLY <3>2, <1>b
  <2>3. CASE k >= i
    <3>1. PICK l \in 0..n : l = k + d /\ k \in i..n - d + 1 /\ k + 1 \in i..n - d + 1
                            /\ (k + 1) + d = l + 1 /\ l + 1 \in 1..n + 1 /\ l # i - 1 /\ l + 1 # j + 1
      <4>1. k + d \in 0..n /\ k \in i..n - d + 1 /\ k + 1 \in i..n - d + 1
            /\ (k + 1) + d = (k + d) + 1 /\ (k + d) + 1 \in 1..n + 1 /\ k + d # i - 1
            /\ (k + d) + 1 # j + 1
        BY ONLY <2>3, <1>1, <1>2, k \in 0..n - d, <1>a, <1>2, <1>3
      <4>. QED  BY <4>1
    <3>2. At(t, k) = At(o, l) /\ At(t, k + 1) = At(o, l + 1)
      BY ONLY <1>3, <3>1
    <3>3. Nx(r, At(o, l)) = Nx(s, At(o, l)) /\ Pv(r, At(o, l + 1)) = Pv(s, At(o, l + 1))
      BY ONLY <3>1, <1>5, <1>6, <1>7, <1>b
    <3>. QED  BY ONLY <3>2, <3>3, <1>4, l \in 0..n
  <2>. QED  BY ONLY <2>1, <2>2, <2>3, <1>1, k \in 0..n - d, <1>a, <1>2, <1>3
<1>. QED  BY ONLY <1>3, <1>8 DEF LinkedAs

-----------------------------------------------------------------------------
(* CodeBuilder: what its operations change.                                *)

KindNames == {"inst", "data", "jump", "label", "exit", "func", "end", "pool"}

NodeRec == [kind : KindNames, prev : Nat, next : Nat, target : Nat, jumpNext : Nat, from : Nat,
            numRefs : Int]

StateRec == [node : Seq(NodeRec), first : Nat, last : Nat, cursor : Nat, order : Seq(Pos),
             rest : Seq(Pos)]

LEMMA StateRecIs ==
    ASSUME NEW s, s \in StateRec
    PROVE  /\ s.node \in Seq(NodeRec) /\ s.first \in Nat /\ s.last \in Nat /\ s.cursor \in Nat
           /\ s.order \in Seq(Pos) /\ s.rest \in Seq(Pos) /\ Len(s.node) \in Nat
           /\ \A m \in 1..Len(s.node) : s.node[m] \in NodeRec
<1>1. /\ s.node \in Seq(NodeRec) /\ s.first \in Nat /\ s.last \in Nat /\ s.cursor \in Nat
      /\ s.order \in Seq(Pos) /\ s.rest \in Seq(Pos)
  BY ONLY s \in StateRec DEF StateRec
<1>2. PICK q \in Seq(NodeRec) : q = s.node
  BY ONLY <1>1
<1>3. Len(q) \in Nat /\ \A m \in 1..Len(q) : q[m] \in NodeRec
  BY ElementOfSeq, LenProperties
<1>. QED  BY ONLY <1>1, <1>2, <1>3

LEMMA NodeRecIs ==
    ASSUME NEW a, a \in NodeRec
    PROVE  /\ a.kind \in KindNames /\ a.prev \in Nat /\ a.next \in Nat /\ a.target \in Nat
           /\ a.jumpNext \in Nat /\ a.from \in Nat /\ a.numRefs \in Int
BY ONLY a \in NodeRec DEF NodeRec

\* What the links do not have to do with.
SameData(a, b) ==
    /\ b.kind = a.kind /\ b.target = a.target /\ b.jumpNext = a.jumpNext /\ b.from = a.from
    /\ b.numRefs = a.numRefs

\* One node of s is another, which makes r.
OneChanged(s, r, p, b) ==
    /\ r \in StateRec /\ Len(r.node) = Len(s.node)
    /\ r.node[p] = b /\ \A m \in 1..Len(s.node) : m # p => r.node[m] = s.node[m]
    /\ r.first = s.first /\ r.last = s.last /\ r.cursor = s.cursor /\ r.order = s.order
    /\ r.rest = s.rest

ChangeOne(s, r, p, b) ==
    s \in StateRec /\ p \in 1..Len(s.node) /\ b \in NodeRec /\ r = [s EXCEPT !.node[p] = b]

LEMMA NodeChanged ==
    ASSUME NEW s, NEW r, NEW p, NEW b, ChangeOne(s, r, p, b)
    PROVE  OneChanged(s, r, p, b)
<1>1. s \in StateRec /\ p \in 1..Len(s.node) /\ b \in NodeRec /\ r = [s EXCEPT !.node[p] = b]
  BY ONLY ChangeOne(s, r, p, b) DEF ChangeOne
<1>2. s.node \in Seq(NodeRec)
  BY ONLY <1>1, StateRecIs
<1>3. PICK q \in Seq(NodeRec) : q = s.node
  BY ONLY <1>2
<1>4. /\ [q EXCEPT ![p] = b] \in Seq(NodeRec) /\ Len([q EXCEPT ![p] = b]) = Len(q)
      /\ \A m \in 1..Len(q) : [q EXCEPT ![p] = b][m] = IF m = p THEN b ELSE q[m]
  BY ONLY <1>1, <1>3, ExceptSeq, q \in Seq(NodeRec)
<1>5. PICK u \in Seq(NodeRec) : u = [q EXCEPT ![p] = b]
  BY ONLY <1>4
<1>6. Len(u) = Len(q) /\ \A m \in 1..Len(q) : u[m] = IF m = p THEN b ELSE q[m]
  BY ONLY <1>4, <1>5
<1>7. r = [s EXCEPT !.node = u]
  BY ONLY <1>1, <1>3, <1>5
<1>8. /\ r \in StateRec /\ r.node = u /\ r.first = s.first /\ r.last = s.last
      /\ r.cursor = s.cursor /\ r.order = s.order /\ r.rest = s.rest
  BY ONLY <1>1, <1>7, u \in Seq(NodeRec) DEF StateRec
<1>. QED  BY ONLY <1>1, <1>3, <1>6, <1>8 DEF OneChanged

\* r is s with other links.
SameButLinks(s, r) ==
    /\ r \in StateRec /\ Len(r.node) = Len(s.node)
    /\ \A m \in 1..Len(s.node) : SameData(s.node[m], r.node[m])

SetsNext(s, r, p, n) ==
    s \in StateRec /\ p \in 0..Len(s.node) /\ n \in Nat /\ r = Builder!SetNext(s, p, n)

NextSet(s, r, p, n) ==
    /\ SameButLinks(s, r) /\ r.cursor = s.cursor /\ r.order = s.order /\ r.rest = s.rest
    /\ Nx(r, p) = n /\ \A m \in 0..Len(s.node) : m # p => Nx(r, m) = Nx(s, m)
    /\ \A m \in 0..Len(s.node) : Pv(r, m) = Pv(s, m)

LEMMA SetNextIs ==
    ASSUME NEW s, NEW r, NEW p, NEW n, SetsNext(s, r, p, n)
    PROVE  NextSet(s, r, p, n)
<1>1. s \in StateRec /\ p \in 0..Len(s.node) /\ n \in Nat /\ r = Builder!SetNext(s, p, n)
  BY ONLY SetsNext(s, r, p, n) DEF SetsNext
<1>2. Len(s.node) \in Nat
  BY ONLY <1>1, StateRecIs
<1>3. CASE p = 0
  <2>1. r = [s EXCEPT !.first = n]
    BY ONLY <1>1, <1>3 DEF Builder!SetNext
  <2>2. /\ r \in StateRec /\ r.node = s.node /\ r.first = n /\ r.last = s.last
        /\ r.cursor = s.cursor /\ r.order = s.order /\ r.rest = s.rest
    BY ONLY <1>1, <2>1 DEF StateRec
  <2>. QED  BY ONLY <1>3, <2>2 DEF NextSet, SameButLinks, SameData, Nx, Pv
<1>4. CASE p # 0
  <2>1. p \in 1..Len(s.node)
    BY ONLY <1>1, <1>2, <1>4
  <2>2. s.node[p] \in NodeRec
    BY ONLY <1>1, <2>1, StateRecIs
  <2>3. PICK a \in NodeRec : a = s.node[p]
    BY ONLY <2>2
  <2>4. PICK b : b = [a EXCEPT !.next = n]
    OBVIOUS
  <2>5. b \in NodeRec /\ b.next = n /\ b.prev = a.prev /\ SameData(a, b)
    BY ONLY <1>1, <2>4, a \in NodeRec DEF NodeRec, SameData
  <2>6. r = [s EXCEPT !.node[p] = b]
    BY ONLY <1>1, <1>4, <2>3, <2>4 DEF Builder!SetNext
  <2>7. OneChanged(s, r, p, b)
    BY ONLY <1>1, <2>1, <2>5, <2>6, NodeChanged DEF ChangeOne
  <2>8. /\ r \in StateRec /\ Len(r.node) = Len(s.node)
        /\ r.node[p] = b /\ \A m \in 1..Len(s.node) : m # p => r.node[m] = s.node[m]
        /\ r.first = s.first /\ r.last = s.last /\ r.cursor = s.cursor /\ r.order = s.order
        /\ r.rest = s.rest
    BY ONLY <2>7 DEF OneChanged
  <2>9. SameButLinks(s, r)
    <3>1. \A m \in 1..Len(s.node) : SameData(s.node[m], r.node[m])
      BY ONLY <2>3, <2>5, <2>8 DEF SameData
    <3>. QED  BY ONLY <2>8, <3>1 DEF SameButLinks
  <2>10. \A m \in 0..Len(s.node) : m # 0 => m \in 1..Len(s.node)
    BY ONLY <1>2
  <2>11. \A m \in 0..Len(s.node) : Pv(r, m) = Pv(s, m)
    BY ONLY <2>3, <2>5, <2>8, <2>10 DEF Pv
  <2>12. Nx(r, p) = n /\ \A m \in 0..Len(s.node) : m # p => Nx(r, m) = Nx(s, m)
    BY ONLY <1>4, <2>5, <2>8, <2>10 DEF Nx
  <2>. QED  BY ONLY <2>8, <2>9, <2>11, <2>12 DEF NextSet
<1>. QED  BY <1>3, <1>4

SetsPrev(s, r, n, p) ==
    s \in StateRec /\ n \in 0..Len(s.node) /\ p \in Nat /\ r = Builder!SetPrev(s, n, p)

PrevSet(s, r, n, p) ==
    /\ SameButLinks(s, r) /\ r.cursor = s.cursor /\ r.order = s.order /\ r.rest = s.rest
    /\ Pv(r, n) = p /\ \A m \in 0..Len(s.node) : m # n => Pv(r, m) = Pv(s, m)
    /\ \A m \in 0..Len(s.node) : Nx(r, m) = Nx(s, m)

LEMMA SetPrevIs ==
    ASSUME NEW s, NEW r, NEW n, NEW p, SetsPrev(s, r, n, p)
    PROVE  PrevSet(s, r, n, p)
<1>1. s \in StateRec /\ n \in 0..Len(s.node) /\ p \in Nat /\ r = Builder!SetPrev(s, n, p)
  BY ONLY SetsPrev(s, r, n, p) DEF SetsPrev
<1>2. Len(s.node) \in Nat
  BY ONLY <1>1, StateRecIs
<1>3. CASE n = 0
  <2>1. r = [s EXCEPT !.last = p]
    BY ONLY <1>1, <1>3 DEF Builder!SetPrev
  <2>2. /\ r \in StateRec /\ r.node = s.node /\ r.last = p /\ r.first = s.first
        /\ r.cursor = s.cursor /\ r.order = s.order /\ r.rest = s.rest
    BY ONLY <1>1, <2>1 DEF StateRec
  <2>. QED  BY ONLY <1>3, <2>2 DEF PrevSet, SameButLinks, SameData, Nx, Pv
<1>4. CASE n # 0
  <2>1. n \in 1..Len(s.node)
    BY ONLY <1>1, <1>2, <1>4
  <2>2. s.node[n] \in NodeRec
    BY ONLY <1>1, <2>1, StateRecIs
  <2>3. PICK a \in NodeRec : a = s.node[n]
    BY ONLY <2>2
  <2>4. PICK b : b = [a EXCEPT !.prev = p]
    OBVIOUS
  <2>5. b \in NodeRec /\ b.prev = p /\ b.next = a.next /\ SameData(a, b)
    BY ONLY <1>1, <2>4, a \in NodeRec DEF NodeRec, SameData
  <2>6. r = [s EXCEPT !.node[n] = b]
    BY ONLY <1>1, <1>4, <2>3, <2>4 DEF Builder!SetPrev
  <2>7. OneChanged(s, r, n, b)
    BY ONLY <1>1, <2>1, <2>5, <2>6, NodeChanged DEF ChangeOne
  <2>8. /\ r \in StateRec /\ Len(r.node) = Len(s.node)
        /\ r.node[n] = b /\ \A m \in 1..Len(s.node) : m # n => r.node[m] = s.node[m]
        /\ r.first = s.first /\ r.last = s.last /\ r.cursor = s.cursor /\ r.order = s.order
        /\ r.rest = s.rest
    BY ONLY <2>7 DEF OneChanged
  <2>9. SameButLinks(s, r)
    <3>1. \A m \in 1..Len(s.node) : SameData(s.node[m], r.node[m])
      BY ONLY <2>3, <2>5, <2>8 DEF SameData
    <3>. QED  BY ONLY <2>8, <3>1 DEF SameButLinks
  <2>10. \A m \in 0..Len(s.node) : m # 0 => m \in 1..Len(s.node)
    BY ONLY <1>2
  <2>11. \A m \in 0..Len(s.node) : Nx(r, m) = Nx(s, m)
    BY ONLY <2>3, <2>5, <2>8, <2>10 DEF Nx
  <2>12. Pv(r, n) = p /\ \A m \in 0..Len(s.node) : m # n => Pv(r, m) = Pv(s, m)
    BY ONLY <1>4, <2>5, <2>8, <2>10 DEF Pv
  <2>. QED  BY ONLY <2>8, <2>9, <2>11, <2>12 DEF PrevSet
<1>. QED  BY <1>3, <1>4

LEMMA SameButLinksTwice ==
    ASSUME NEW s, NEW t, NEW r, SameButLinks(s, t), SameButLinks(t, r)
    PROVE  SameButLinks(s, r)
<1>1. /\ r \in StateRec /\ Len(r.node) = Len(s.node) /\ Len(t.node) = Len(s.node)
      /\ \A m \in 1..Len(s.node) : SameData(s.node[m], t.node[m]) /\ SameData(t.node[m], r.node[m])
  BY ONLY SameButLinks(s, t), SameButLinks(t, r) DEF SameButLinks
<1>2. \A m \in 1..Len(s.node) : SameData(s.node[m], r.node[m])
  BY ONLY <1>1 DEF SameData
<1>. QED  BY ONLY <1>1, <1>2 DEF SameButLinks

PutsBetween(s, r, p, n, q, i) ==
    /\ s \in StateRec /\ n \in 1..Len(s.node) /\ p \in 0..Len(s.node) /\ q \in 0..Len(s.node)
    /\ p # n /\ q # n /\ i \in 1..Len(s.order) + 1 /\ r = Builder!Between(s, p, n, q, i)

IsBetween(s, r, p, n, q, i) ==
    /\ SameButLinks(s, r) /\ r.cursor = s.cursor /\ r.rest = s.rest
    /\ r.order = Builder!InsertAt(s.order, i, n)
    /\ Nx(r, p) = n /\ Nx(r, n) = q
    /\ \A m \in 0..Len(s.node) : m # p /\ m # n => Nx(r, m) = Nx(s, m)
    /\ Pv(r, q) = n /\ Pv(r, n) = p
    /\ \A m \in 0..Len(s.node) : m # q /\ m # n => Pv(r, m) = Pv(s, m)

LEMMA BetweenIs ==
    ASSUME NEW s, NEW r, NEW p, NEW n, NEW q, NEW i, PutsBetween(s, r, p, n, q, i)
    PROVE  IsBetween(s, r, p, n, q, i)
<1>1. /\ s \in StateRec /\ n \in 1..Len(s.node) /\ p \in 0..Len(s.node) /\ q \in 0..Len(s.node)
      /\ p # n /\ q # n /\ i \in 1..Len(s.order) + 1 /\ r = Builder!Between(s, p, n, q, i)
  BY ONLY PutsBetween(s, r, p, n, q, i) DEF PutsBetween
<1>2. Len(s.node) \in Nat /\ s.node[n] \in NodeRec /\ s.order \in Seq(Pos)
  BY ONLY <1>1, StateRecIs
<1>3. n \in Nat /\ n # 0 /\ n \in Pos /\ p \in Nat /\ q \in Nat /\ n \in 0..Len(s.node)
  <2>1. PICK w \in Nat : w = Len(s.node)
    BY ONLY <1>2
  <2>2. n \in 1..w /\ p \in 0..w /\ q \in 0..w
    BY ONLY <1>1, <2>1
  <2>3. n \in Nat /\ n # 0 /\ p \in Nat /\ q \in Nat /\ n \in 0..w
    BY ONLY <2>2, w \in Nat
  <2>4. n \in Pos
    BY ONLY <2>3, PosIs
  <2>. QED  BY ONLY <2>1, <2>3, <2>4
<1>4. PICK a \in NodeRec : a = s.node[n]
  BY ONLY <1>2
<1>5. PICK b : b = [a EXCEPT !.prev = p, !.next = q]
  OBVIOUS
<1>6. b \in NodeRec /\ b.next = q /\ b.prev = p /\ SameData(a, b)
  BY ONLY <1>3, <1>5, a \in NodeRec DEF NodeRec, SameData
<1>7. PICK t : t = [s EXCEPT !.node[n] = b]
  OBVIOUS
<1>8. OneChanged(s, t, n, b)
  BY ONLY <1>1, <1>6, <1>7, NodeChanged DEF ChangeOne
<1>9. /\ t \in StateRec /\ Len(t.node) = Len(s.node)
      /\ t.node[n] = b /\ \A m \in 1..Len(s.node) : m # n => t.node[m] = s.node[m]
      /\ t.first = s.first /\ t.last = s.last /\ t.cursor = s.cursor /\ t.order = s.order
      /\ t.rest = s.rest
  BY ONLY <1>8 DEF OneChanged
<1>10. PICK o \in Seq(Pos) : o = Builder!InsertAt(s.order, i, n)
  BY ONLY <1>1, <1>2, <1>3, PutInSeq
<1>11. PICK u : u = [t EXCEPT !.order = o]
  OBVIOUS
<1>12. /\ u \in StateRec /\ u.node = t.node /\ u.first = s.first /\ u.last = s.last
       /\ u.cursor = s.cursor /\ u.order = o /\ u.rest = s.rest
  BY ONLY <1>9, <1>11, o \in Seq(Pos) DEF StateRec
<1>13. /\ \A m \in 0..Len(s.node) : m # n => Nx(u, m) = Nx(s, m) /\ Pv(u, m) = Pv(s, m)
       /\ Nx(u, n) = q /\ Pv(u, n) = p
  <2>1. \A m \in 0..Len(s.node) : m # 0 => m \in 1..Len(s.node)
    BY ONLY <1>2
  <2>. QED  BY ONLY <2>1, <1>3, <1>6, <1>9, <1>12 DEF Nx, Pv
<1>14. SameButLinks(s, u)
  <2>1. \A m \in 1..Len(s.node) : SameData(s.node[m], u.node[m])
    BY ONLY <1>4, <1>6, <1>9, <1>12 DEF SameData
  <2>. QED  BY ONLY <2>1, <1>9, <1>12 DEF SameButLinks
<1>15. r = Builder!SetNext(Builder!SetPrev(u, q, n), p, n)
  <2>1. u = [s EXCEPT !.node[n].prev = p, !.node[n].next = q,
                      !.order = Builder!InsertAt(s.order, i, n)]
    BY ONLY <1>1, <1>4, <1>5, <1>7, <1>10, <1>11
  <2>. QED  BY ONLY <1>1, <2>1 DEF Builder!Between
<1>16. PICK v : v = Builder!SetPrev(u, q, n)
  OBVIOUS
<1>17. PrevSet(u, v, q, n)
  BY ONLY <1>1, <1>3, <1>9, <1>12, <1>16, SetPrevIs DEF SetsPrev
<1>18. /\ SameButLinks(u, v) /\ v.cursor = u.cursor /\ v.order = u.order /\ v.rest = u.rest
       /\ Pv(v, q) = n /\ \A m \in 0..Len(u.node) : m # q => Pv(v, m) = Pv(u, m)
       /\ \A m \in 0..Len(u.node) : Nx(v, m) = Nx(u, m)
  BY ONLY <1>17 DEF PrevSet
<1>19. v \in StateRec /\ Len(v.node) = Len(s.node) /\ Len(u.node) = Len(s.node)
  BY ONLY <1>9, <1>12, <1>18 DEF SameButLinks
<1>20. NextSet(v, r, p, n)
  BY ONLY <1>1, <1>3, <1>15, <1>16, <1>19, SetNextIs DEF SetsNext
<1>21. /\ SameButLinks(v, r) /\ r.cursor = v.cursor /\ r.order = v.order /\ r.rest = v.rest
       /\ Nx(r, p) = n /\ \A m \in 0..Len(v.node) : m # p => Nx(r, m) = Nx(v, m)
       /\ \A m \in 0..Len(v.node) : Pv(r, m) = Pv(v, m)
  BY ONLY <1>20 DEF NextSet
<1>22. SameButLinks(s, r)
  BY ONLY <1>14, <1>18, <1>21, SameButLinksTwice
<1>23. r.cursor = s.cursor /\ r.rest = s.rest /\ r.order = Builder!InsertAt(s.order, i, n)
  BY ONLY <1>10, <1>12, <1>18, <1>21
<1>24. /\ Nx(r, p) = n /\ Nx(r, n) = q
       /\ \A m \in 0..Len(s.node) : m # p /\ m # n => Nx(r, m) = Nx(s, m)
  BY ONLY <1>1, <1>3, <1>13, <1>18, <1>19, <1>21
<1>25. /\ Pv(r, q) = n /\ Pv(r, n) = p
       /\ \A m \in 0..Len(s.node) : m # q /\ m # n => Pv(r, m) = Pv(s, m)
  BY ONLY <1>1, <1>3, <1>13, <1>18, <1>19, <1>21
<1>. QED  BY ONLY <1>22, <1>23, <1>24, <1>25 DEF IsBetween

-----------------------------------------------------------------------------
(* CodeBuilder: nodes that are put into the list.                          *)

Loose(s, n) == n \in 1..Len(s.node) /\ n \notin In(s.order) /\ n \notin In(s.rest)

\* The list is its nodes in their order, and what was cut out is linked still.
Chained(s) ==
    /\ s \in StateRec
    /\ \A m \in In(s.order) : m \in 1..Len(s.node) /\ m \notin In(s.rest)
    /\ \A m \in In(s.rest) : m \in 1..Len(s.node)
    /\ Once(s.order) /\ Once(s.rest)
    /\ LinkedAs(s, s.order)
    /\ \A m : Loose(s, m) => Nx(s, m) = 0 /\ Pv(s, m) = 0
    /\ \A k \in 1..Len(s.rest) : k + 1 \in 1..Len(s.rest) => Nx(s, s.rest[k]) = s.rest[k + 1]

Placing(s, r, p, n, q, i) ==
    /\ Chained(s) /\ Loose(s, n) /\ i \in 1..Len(s.order) + 1
    /\ p = At(s.order, i - 1) /\ q = At(s.order, i) /\ r = Builder!Between(s, p, n, q, i)

Placed(s, r, n) ==
    /\ Chained(r) /\ SameButLinks(s, r) /\ r.rest = s.rest
    /\ \A m : m \in In(r.order) <=> m = n \/ m \in In(s.order)

LEMMA PlacingPlaces ==
    ASSUME NEW s, NEW r, NEW p, NEW n, NEW q, NEW i, Placing(s, r, p, n, q, i)
    PROVE  Placed(s, r, n) /\ r.cursor = s.cursor
<1>1. /\ Chained(s) /\ Loose(s, n) /\ i \in 1..Len(s.order) + 1
      /\ p = At(s.order, i - 1) /\ q = At(s.order, i) /\ r = Builder!Between(s, p, n, q, i)
  BY ONLY Placing(s, r, p, n, q, i) DEF Placing
<1>2. /\ s \in StateRec
      /\ \A m \in In(s.order) : m \in 1..Len(s.node) /\ m \notin In(s.rest)
      /\ \A m \in In(s.rest) : m \in 1..Len(s.node)
      /\ Once(s.order) /\ Once(s.rest)
      /\ LinkedAs(s, s.order)
      /\ \A m : Loose(s, m) => Nx(s, m) = 0 /\ Pv(s, m) = 0
      /\ \A k \in 1..Len(s.rest) : k + 1 \in 1..Len(s.rest) => Nx(s, s.rest[k]) = s.rest[k + 1]
  BY ONLY <1>1 DEF Chained
<1>3. n \in 1..Len(s.node) /\ n \notin In(s.order) /\ n \notin In(s.rest)
  BY ONLY <1>1 DEF Loose
<1>4. Len(s.node) \in Nat /\ s.order \in Seq(Pos) /\ s.rest \in Seq(Pos)
  BY ONLY <1>2, StateRecIs
<1>5. n \in Pos /\ n # 0
  <2>1. PICK N \in Nat : N = Len(s.node)
    BY ONLY <1>4
  <2>2. n \in 1..N
    BY ONLY <1>3, <2>1
  <2>3. n \in Nat /\ n # 0
    BY ONLY <2>2, N \in Nat
  <2>. QED  BY ONLY <2>3, PosIs
<1>6. \A k : At(s.order, k) = 0 \/ At(s.order, k) \in In(s.order)
  BY ONLY <1>4, AtIs
<1>7. p \in 0..Len(s.node) /\ q \in 0..Len(s.node) /\ p # n /\ q # n
  BY ONLY <1>1, <1>2, <1>3, <1>4, <1>5, <1>6
<1>8. IsBetween(s, r, p, n, q, i)
  BY ONLY <1>1, <1>2, <1>3, <1>7, BetweenIs DEF PutsBetween
<1>9. /\ SameButLinks(s, r) /\ r.cursor = s.cursor /\ r.rest = s.rest
      /\ r.order = Builder!InsertAt(s.order, i, n)
      /\ Nx(r, p) = n /\ Nx(r, n) = q
      /\ \A m \in 0..Len(s.node) : m # p /\ m # n => Nx(r, m) = Nx(s, m)
      /\ Pv(r, q) = n /\ Pv(r, n) = p
      /\ \A m \in 0..Len(s.node) : m # q /\ m # n => Pv(r, m) = Pv(s, m)
  BY ONLY <1>8 DEF IsBetween
<1>10. r \in StateRec /\ Len(r.node) = Len(s.node)
  BY ONLY <1>9 DEF SameButLinks
<1>11. PICK l \in Nat : l = Len(s.order)
  BY ONLY <1>4, LenProperties
<1>12. Putting(s.order, l, i, n, r.order)
  BY ONLY <1>1, <1>2, <1>3, <1>4, <1>5, <1>9, <1>11 DEF Putting
<1>13. Put(s.order, l, i, n, r.order)
  BY ONLY <1>12, PutInAt
<1>14. (\A m : m \in In(r.order) <=> m = n \/ m \in In(s.order)) /\ Once(r.order)
  BY ONLY <1>13 DEF Put
<1>15. \A m \in {0} \cup In(s.order) : m \in 0..Len(s.node) /\ m # n
  BY ONLY <1>2, <1>3, <1>4, <1>5
<1>16. Inserting(s, r, s.order, l, i, n, r.order, p, q)
  BY ONLY <1>1, <1>2, <1>9, <1>12, <1>15 DEF Inserting
<1>17. LinkedAs(r, r.order)
  BY ONLY <1>16, InsertLinked
<1>18. ASSUME NEW m, Loose(r, m)
       PROVE  Nx(r, m) = 0 /\ Pv(r, m) = 0
  <2>1. m \in 1..Len(s.node) /\ m \notin In(r.order) /\ m \notin In(s.rest)
    BY ONLY <1>9, <1>10, <1>18 DEF Loose
  <2>2. Loose(s, m) /\ m # n /\ m # 0 /\ m \in 0..Len(s.node)
    BY ONLY <1>14, <2>1, <1>4 DEF Loose
  <2>3. m # p /\ m # q
    BY ONLY <1>1, <1>6, <2>2 DEF Loose
  <2>. QED  BY ONLY <1>2, <1>9, <2>2, <2>3
<1>19. ASSUME NEW k \in 1..Len(s.rest), k + 1 \in 1..Len(s.rest)
       PROVE  Nx(r, s.rest[k]) = s.rest[k + 1]
  <2>1. s.rest[k] \in In(s.rest) /\ s.rest[k] # 0
    BY ONLY <1>4, k \in 1..Len(s.rest), AtIs, PosIs
  <2>2. s.rest[k] \in 0..Len(s.node) /\ s.rest[k] # n /\ s.rest[k] \notin In(s.order)
    BY ONLY <1>2, <1>3, <1>4, <2>1
  <2>3. s.rest[k] # p
    BY ONLY <1>1, <1>6, <2>1, <2>2
  <2>. QED  BY ONLY <1>2, <1>9, <1>19, <2>2, <2>3, k \in 1..Len(s.rest)
<1>20. \A m \in In(r.order) : m \in 1..Len(r.node) /\ m \notin In(r.rest)
  BY ONLY <1>2, <1>3, <1>9, <1>10, <1>14
<1>21. Chained(r)
  BY ONLY <1>2, <1>9, <1>10, <1>14, <1>17, <1>18, <1>19, <1>20 DEF Chained
<1>. QED  BY ONLY <1>9, <1>14, <1>21 DEF Placed

LEMMA PlaceIs ==
    ASSUME NEW s, NEW n, n \in In(s.order)
    PROVE  Builder!Place(s, n) \in 1..Len(s.order) /\ s.order[Builder!Place(s, n)] = n
BY ONLY n \in In(s.order) DEF In, Builder!Place

\* The neighbours of the i-th in the list.
LEMMA Neighbours ==
    ASSUME NEW s, NEW i, Chained(s), i \in 1..Len(s.order)
    PROVE  /\ s.node[s.order[i]].next = At(s.order, i + 1)
           /\ s.node[s.order[i]].prev = At(s.order, i - 1)
           /\ s.order[i] = At(s.order, i) /\ s.order[i] \in In(s.order)
           /\ s.order[i] \in 1..Len(s.node)
<1>1. s \in StateRec /\ LinkedAs(s, s.order) /\ \A m \in In(s.order) : m \in 1..Len(s.node)
  BY ONLY Chained(s) DEF Chained
<1>2. s.order \in Seq(Pos) /\ Len(s.order) \in Nat
  BY ONLY <1>1, StateRecIs, LenProperties
<1>3. s.order[i] = At(s.order, i) /\ s.order[i] # 0 /\ s.order[i] \in In(s.order)
  BY ONLY <1>2, i \in 1..Len(s.order), AtIs, PosIs
<1>4. i \in 0..Len(s.order) /\ i - 1 \in 0..Len(s.order) /\ (i - 1) + 1 = i
  BY ONLY <1>2, i \in 1..Len(s.order)
<1>5. /\ Nx(s, At(s.order, i)) = At(s.order, i + 1)
      /\ Pv(s, At(s.order, (i - 1) + 1)) = At(s.order, i - 1)
  BY ONLY <1>1, <1>4 DEF LinkedAs
<1>6. /\ Nx(s, s.order[i]) = At(s.order, i + 1)
      /\ Pv(s, s.order[i]) = At(s.order, i - 1)
  BY ONLY <1>3, <1>4, <1>5
<1>. QED  BY ONLY <1>1, <1>3, <1>6 DEF Nx, Pv

Adding(s, r, n, ref) ==
    /\ Chained(s) /\ Loose(s, n) /\ ref \in In(s.order)
    /\ r = Builder!AddAfter(s, n, ref) \/ r = Builder!AddBefore(s, n, ref)

LEMMA AddingPlaces ==
    ASSUME NEW s, NEW r, NEW n, NEW ref, Adding(s, r, n, ref)
    PROVE  Placed(s, r, n) /\ r.cursor = s.cursor
<1>1. /\ Chained(s) /\ Loose(s, n) /\ ref \in In(s.order)
      /\ r = Builder!AddAfter(s, n, ref) \/ r = Builder!AddBefore(s, n, ref)
  BY ONLY Adding(s, r, n, ref) DEF Adding
<1>2. PICK i \in 1..Len(s.order) : i = Builder!Place(s, ref) /\ s.order[i] = ref
  BY ONLY <1>1, PlaceIs
<1>3. /\ s.node[ref].next = At(s.order, i + 1) /\ s.node[ref].prev = At(s.order, i - 1)
      /\ ref = At(s.order, i)
  BY ONLY <1>1, <1>2, Neighbours, i \in 1..Len(s.order)
<1>4. s \in StateRec
  BY ONLY <1>1 DEF Chained
<1>5. Len(s.order) \in Nat
  BY ONLY <1>4, StateRecIs, LenProperties
<1>6. i \in 1..Len(s.order) + 1 /\ i + 1 \in 1..Len(s.order) + 1 /\ (i + 1) - 1 = i
  BY ONLY <1>5, i \in 1..Len(s.order)
<1>7. CASE r = Builder!AddAfter(s, n, ref)
  <2>1. r = Builder!Between(s, ref, n, s.node[ref].next, i + 1)
    BY ONLY <1>2, <1>7 DEF Builder!AddAfter
  <2>2. Placing(s, r, ref, n, s.node[ref].next, i + 1)
    BY ONLY <1>1, <1>3, <1>6, <2>1 DEF Placing
  <2>. QED  BY ONLY <2>2, PlacingPlaces
<1>8. CASE r = Builder!AddBefore(s, n, ref)
  <2>1. r = Builder!Between(s, s.node[ref].prev, n, ref, i)
    BY ONLY <1>2, <1>8 DEF Builder!AddBefore
  <2>2. Placing(s, r, s.node[ref].prev, n, ref, i)
    BY ONLY <1>1, <1>3, <1>6, <2>1 DEF Placing
  <2>. QED  BY ONLY <2>2, PlacingPlaces
<1>. QED  BY ONLY <1>1, <1>7, <1>8

\* r is s with the cursor elsewhere.
CursorMoved(s, r, n) == s \in StateRec /\ n \in Nat /\ r = [s EXCEPT !.cursor = n]

LEMMA CursorMoves ==
    ASSUME NEW s, NEW r, NEW n, CursorMoved(s, r, n)
    PROVE  /\ r \in StateRec /\ r.node = s.node /\ r.first = s.first /\ r.last = s.last
           /\ r.cursor = n /\ r.order = s.order /\ r.rest = s.rest
           /\ SameButLinks(s, r) /\ (Chained(s) => Chained(r))
<1>1. s \in StateRec /\ n \in Nat /\ r = [s EXCEPT !.cursor = n]
  BY ONLY CursorMoved(s, r, n) DEF CursorMoved
<1>2. /\ r \in StateRec /\ r.node = s.node /\ r.first = s.first /\ r.last = s.last
      /\ r.cursor = n /\ r.order = s.order /\ r.rest = s.rest
  BY ONLY <1>1 DEF StateRec
<1>3. SameButLinks(s, r)
  BY ONLY <1>2 DEF SameButLinks, SameData
<1>4. \A m : Nx(r, m) = Nx(s, m) /\ Pv(r, m) = Pv(s, m) /\ (Loose(r, m) <=> Loose(s, m))
  BY ONLY <1>2 DEF Nx, Pv, Loose
<1>5. ASSUME Chained(s)
      PROVE  Chained(r)
  <2>1. LinkedAs(r, r.order)
    BY ONLY <1>2, <1>4, <1>5 DEF Chained, LinkedAs
  <2>. QED  BY ONLY <1>2, <1>4, <1>5, <2>1 DEF Chained
<1>. QED  BY ONLY <1>2, <1>3, <1>5

AddsNode(s, r, n) ==
    Chained(s) /\ Loose(s, n) /\ s.cursor \in {0} \cup In(s.order) /\ r = Builder!AddNode(s, n)

LEMMA AddNodePlaces ==
    ASSUME NEW s, NEW r, NEW n, AddsNode(s, r, n)
    PROVE  Placed(s, r, n) /\ r.cursor = n
<1>1. /\ Chained(s) /\ Loose(s, n) /\ s.cursor \in {0} \cup In(s.order)
      /\ r = Builder!AddNode(s, n)
  BY ONLY AddsNode(s, r, n) DEF AddsNode
<1>2. s \in StateRec /\ LinkedAs(s, s.order)
  BY ONLY <1>1 DEF Chained
<1>3. s.order \in Seq(Pos) /\ Len(s.order) \in Nat /\ Len(s.node) \in Nat
  BY ONLY <1>2, StateRecIs, LenProperties
<1>4. n \in Nat
  BY ONLY <1>1, <1>3 DEF Loose
<1>5. PICK t : t = IF s.cursor = 0 THEN Builder!Between(s, 0, n, s.first, 1)
                   ELSE Builder!AddAfter(s, n, s.cursor)
  OBVIOUS
<1>6. r = [t EXCEPT !.cursor = n]
  BY ONLY <1>1, <1>5 DEF Builder!AddNode
<1>7. Placed(s, t, n)
  <2>1. CASE s.cursor = 0
    <3>1. 0 \in 0..Len(s.order) /\ 0 + 1 = 1 /\ 1 - 1 = 0 /\ 1 \in 1..Len(s.order) + 1
      BY ONLY <1>3
    <3>2. Nx(s, At(s.order, 0)) = At(s.order, 0 + 1) /\ At(s.order, 0) = 0
      BY ONLY <1>2, <1>3, <3>1, AtIs DEF LinkedAs
    <3>3. s.first = At(s.order, 1)
      BY ONLY <3>1, <3>2 DEF Nx
    <3>4. t = Builder!Between(s, 0, n, s.first, 1)
      BY ONLY <1>5, <2>1
    <3>5. Placing(s, t, 0, n, s.first, 1)
      BY ONLY <1>1, <3>1, <3>2, <3>3, <3>4 DEF Placing
    <3>. QED  BY ONLY <3>5, PlacingPlaces
  <2>2. CASE s.cursor # 0
    <3>1. Adding(s, t, n, s.cursor)
      BY ONLY <1>1, <1>5, <2>2 DEF Adding
    <3>. QED  BY ONLY <3>1, AddingPlaces
  <2>. QED  BY ONLY <2>1, <2>2
<1>8. Chained(t) /\ SameButLinks(s, t) /\ t.rest = s.rest
  BY ONLY <1>7 DEF Placed
<1>9. CursorMoved(t, r, n)
  BY ONLY <1>4, <1>6, <1>8 DEF CursorMoved, Chained
<1>10. /\ r.cursor = n /\ r.order = t.order /\ r.rest = t.rest /\ SameButLinks(t, r)
       /\ Chained(t) => Chained(r)
  BY ONLY <1>9, CursorMoves
<1>11. SameButLinks(s, r)
  BY ONLY <1>8, <1>10, SameButLinksTwice
<1>. QED  BY ONLY <1>7, <1>8, <1>10, <1>11 DEF Placed

-----------------------------------------------------------------------------
(* CodeBuilder: the jumps of a label, from the newest to the oldest.       *)

\* The greatest, 0 if there is none.
Newest(x, S) == \/ x = 0 /\ \A k : k \notin S
                \/ x \in S /\ \A k \in S : k <= x

Older(S, j) == {k \in S : k < j}

\* Those of T that lead to l.
JumpsTo(s, T, l) == {n \in T : s.node[n].target = l}

\* The label leads to its newest jump and every jump to the next older one.
Listed(s, J, l) ==
    /\ Newest(s.node[l].from, J)
    /\ \A j \in J : Newest(s.node[j].jumpNext, Older(J, j))

\* T are the jumps that count.
JumpsOK(s, T) ==
    /\ s \in StateRec
    /\ \A m \in T : m \in 1..Len(s.node)
    /\ \A m \in 1..Len(s.node) : /\ s.node[m].target \in 0..Len(s.node)
                                 /\ s.node[m].target # 0 => s.node[m].kind = "jump"
    /\ \A l \in 1..Len(s.node) : /\ Listed(s, JumpsTo(s, T, l), l)
                                 /\ s.node[l].numRefs = Cardinality(JumpsTo(s, T, l))

SameTargets(s, r, T, U) ==
    /\ JumpsOK(s, T) /\ SameButLinks(s, r) /\ \A m \in U : m \in 1..Len(s.node)
    /\ \A m \in 1..Len(s.node) : s.node[m].target # 0 => (m \in T <=> m \in U)

\* Links, and nodes that are no jumps, do not matter.
LEMMA SameJumps ==
    ASSUME NEW s, NEW r, NEW T, NEW U, SameTargets(s, r, T, U)
    PROVE  JumpsOK(r, U)
<1>1. /\ JumpsOK(s, T) /\ SameButLinks(s, r) /\ \A m \in U : m \in 1..Len(s.node)
      /\ \A m \in 1..Len(s.node) : s.node[m].target # 0 => (m \in T <=> m \in U)
  BY ONLY SameTargets(s, r, T, U) DEF SameTargets
<1>2. /\ r \in StateRec /\ Len(r.node) = Len(s.node)
      /\ \A m \in 1..Len(s.node) : SameData(s.node[m], r.node[m])
  BY ONLY <1>1 DEF SameButLinks
<1>3. /\ s \in StateRec
      /\ \A m \in T : m \in 1..Len(s.node)
      /\ \A m \in 1..Len(s.node) : /\ s.node[m].target \in 0..Len(s.node)
                                   /\ s.node[m].target # 0 => s.node[m].kind = "jump"
      /\ \A l \in 1..Len(s.node) : /\ Listed(s, JumpsTo(s, T, l), l)
                                   /\ s.node[l].numRefs = Cardinality(JumpsTo(s, T, l))
  BY ONLY <1>1 DEF JumpsOK
<1>4. \A m \in 1..Len(r.node) : /\ r.node[m].target \in 0..Len(r.node)
                                /\ r.node[m].target # 0 => r.node[m].kind = "jump"
  BY ONLY <1>2, <1>3 DEF SameData
<1>5. ASSUME NEW l \in 1..Len(s.node)
      PROVE  Listed(r, JumpsTo(r, U, l), l) /\ r.node[l].numRefs = Cardinality(JumpsTo(r, U, l))
  <2>1. Len(s.node) \in Nat
    BY ONLY <1>3, StateRecIs
  <2>2. l # 0
    BY ONLY <2>1, l \in 1..Len(s.node)
  <2>3. \A m : m \in JumpsTo(r, U, l) <=> m \in JumpsTo(s, T, l)
    BY ONLY <1>1, <1>2, <1>3, <2>2 DEF JumpsTo, SameData
  <2>4. PICK J : J = JumpsTo(s, T, l)
    OBVIOUS
  <2>5. JumpsTo(r, U, l) = J
    BY ONLY <2>3, <2>4
  <2>6. \A m \in J : m \in 1..Len(s.node)
    BY ONLY <1>3, <2>4 DEF JumpsTo
  <2>7. Listed(s, J, l) /\ s.node[l].numRefs = Cardinality(J)
    BY ONLY <1>3, <2>4, l \in 1..Len(s.node)
  <2>8. Listed(r, J, l)
    BY ONLY <1>2, <2>6, <2>7, l \in 1..Len(s.node) DEF Listed, SameData
  <2>9. r.node[l].numRefs = Cardinality(J)
    BY ONLY <1>2, <2>7, l \in 1..Len(s.node) DEF SameData
  <2>. QED  BY ONLY <2>5, <2>8, <2>9
<1>. QED  BY ONLY <1>1, <1>2, <1>4, <1>5 DEF JumpsOK

\* In a set of jumps with such links, every one but the greatest has a link that leads to it.
LEMMA LedTo ==
    ASSUME NEW s, NEW J \in SUBSET Nat, NEW l, Listed(s, J, l), NEW j \in J,
           s.node[l].from # j
    PROVE  \E i \in J : j < i /\ s.node[i].jumpNext = j
<1>1. PICK A \in SUBSET Nat : A = {i \in J : j < i}
  OBVIOUS
<1>2. PICK x \in A : \A y \in A : x <= y
  <2>1. s.node[l].from \in J /\ j <= s.node[l].from /\ s.node[l].from \in Nat /\ j \in Nat
    BY DEF Listed, Newest
  <2>2. s.node[l].from \in A
    BY <1>1, <2>1
  <2>. QED  BY ONLY A \in SUBSET Nat, <2>2, Least
<1>3. x \in J /\ j < x /\ x \in Nat /\ j \in Nat /\ j \in Older(J, x)
  BY <1>1 DEF Older
<1>4. PICK z : z = s.node[x].jumpNext
  OBVIOUS
<1>5. Newest(z, Older(J, x))
  BY <1>3, <1>4 DEF Listed
<1>6. z \in J /\ z < x /\ j <= z /\ z \in Nat
  BY <1>3, <1>5 DEF Newest, Older
<1>7. ~(j < z)
  <2>1. ASSUME j < z
        PROVE  FALSE
    <3>1. z \in A
      BY <1>1, <1>6, <2>1
    <3>2. x <= z
      BY <1>2, <3>1
    <3>. QED  BY ONLY <1>3, <1>6, <3>2
  <2>. QED  BY <2>1
<1>8. z = j
  BY ONLY <1>3, <1>6, <1>7
<1>. QED  BY ONLY <1>3, <1>4, <1>8

\* A walk along the list meets the label's jumps.
LEMMA ChainIs ==
    ASSUME NEW s, NEW T, NEW l, JumpsOK(s, T), l \in 1..Len(s.node)
    PROVE  Builder!Chain(s, l) = JumpsTo(s, T, l)
<1>1. /\ s \in StateRec
      /\ \A m \in T : m \in 1..Len(s.node)
      /\ \A m \in 1..Len(s.node) : s.node[m].target # 0 => s.node[m].kind = "jump"
      /\ Listed(s, JumpsTo(s, T, l), l)
  BY ONLY JumpsOK(s, T), l \in 1..Len(s.node) DEF JumpsOK
<1>2. PICK N \in Nat : N = Len(s.node)
  BY ONLY <1>1, StateRecIs
<1>3. PICK J : J = JumpsTo(s, T, l)
  OBVIOUS
<1>4. J \in SUBSET (1..N) /\ J \in SUBSET Nat /\ J \in SUBSET Builder!Jumps(s)
  <2>1. l # 0
    BY ONLY <1>2, l \in 1..Len(s.node)
  <2>2. \A m \in J : m \in 1..N /\ s.node[m].kind = "jump"
    BY ONLY <1>1, <1>2, <1>3, <2>1 DEF JumpsTo
  <2>. QED  BY ONLY <2>2, <1>2 DEF Builder!Jumps
<1>5. Listed(s, J, l)
  BY ONLY <1>1, <1>3
<1>6. Builder!Closed(s, l, J)
  <2>1. s.node[l].from # 0 => s.node[l].from \in J
    BY ONLY <1>5 DEF Listed, Newest
  <2>2. \A n \in J : s.node[n].jumpNext # 0 => s.node[n].jumpNext \in J
    BY ONLY <1>5 DEF Listed, Newest, Older
  <2>. QED  BY ONLY <2>1, <2>2 DEF Builder!Closed
<1>7. ASSUME NEW n \in Builder!Chain(s, l)
      PROVE  n \in J
  BY ONLY <1>4, <1>6, n \in Builder!Chain(s, l) DEF Builder!Chain
<1>8. ASSUME NEW n \in J, NEW S \in SUBSET Builder!Jumps(s), Builder!Closed(s, l, S), n \notin S
      PROVE  FALSE
  <2>1. /\ s.node[l].from # 0 => s.node[l].from \in S
        /\ \A m \in S : s.node[m].jumpNext # 0 => s.node[m].jumpNext \in S
    BY ONLY <1>8 DEF Builder!Closed
  <2>2. PICK D \in SUBSET Nat : D = {N - j : j \in {i \in J : i \notin S}}
    <3>1. \A j \in {i \in J : i \notin S} : N - j \in Nat
      BY ONLY <1>4, N \in Nat
    <3>. QED  BY <3>1
  <2>3. N - n \in D
    BY ONLY <1>8, <2>2, n \in J
  <2>4. PICK x \in D : \A y \in D : x <= y
    BY ONLY D \in SUBSET Nat, <2>3, Least
  <2>5. PICK j \in J : x = N - j /\ j \notin S
    BY <2>2
  <2>6. ASSUME NEW i \in J, j < i
        PROVE  i \in S
    <3>1. ASSUME i \notin S
          PROVE  FALSE
      <4>1. N - i \in D
        BY ONLY <2>2, <3>1, i \in J
      <4>2. N - j <= N - i
        BY ONLY <2>4, <2>5, <4>1
      <4>. QED  BY ONLY <1>4, <2>6, <4>2, N \in Nat, i \in J, j \in J
    <3>. QED  BY ONLY <3>1
  <2>7. j # 0
    BY ONLY <1>4, j \in J, N \in Nat
  <2>8. CASE s.node[l].from = j
    BY ONLY <2>1, <2>5, <2>7, <2>8
  <2>9. CASE s.node[l].from # j
    <3>1. PICK i \in J : j < i /\ s.node[i].jumpNext = j
      BY ONLY <1>4, <1>5, <2>9, LedTo, j \in J
    <3>2. i \in S
      BY ONLY <2>6, <3>1, i \in J
    <3>. QED  BY ONLY <2>1, <2>5, <2>7, <3>1, <3>2
  <2>. QED  BY ONLY <2>8, <2>9
<1>9. ASSUME NEW n \in J
      PROVE  n \in Builder!Chain(s, l)
  BY ONLY <1>4, <1>8, n \in J DEF Builder!Chain
<1>. QED  BY ONLY <1>3, <1>7, <1>9

\* The newest jump is taken off.
LEMMA DropNewest ==
    ASSUME NEW s, NEW t, NEW J \in SUBSET Nat, NEW l, Listed(s, J, l), NEW n \in J,
           s.node[l].from = n, t.node[l].from = s.node[n].jumpNext,
           \A j \in J : t.node[j].jumpNext = s.node[j].jumpNext
    PROVE  Listed(t, J \ {n}, l)
<1>1. PICK K \in SUBSET Nat : K = J \ {n}
  OBVIOUS
<1>2. PICK x : x = s.node[n].jumpNext
  OBVIOUS
<1>3. n \in Nat /\ (\A k : k \in K <=> k \in J /\ k # n) /\ \A k \in J : k \in Nat /\ k <= n
  BY <1>1 DEF Listed, Newest
<1>4. \A k \in K : k < n
  BY ONLY <1>3
<1>5. Newest(x, Older(J, n))
  BY <1>2 DEF Listed
<1>6. Newest(x, K)
  <2>1. CASE x = 0 /\ \A k : k \notin Older(J, n)
    BY ONLY <1>3, <1>4, <2>1 DEF Newest, Older
  <2>2. CASE x \in Older(J, n) /\ \A k \in Older(J, n) : k <= x
    <3>1. x \in J /\ x < n /\ x # n
      BY ONLY <1>3, <2>2 DEF Older
    <3>2. \A k \in K : k \in Older(J, n)
      BY ONLY <1>3, <1>4 DEF Older
    <3>. QED  BY ONLY <1>3, <2>2, <3>1, <3>2 DEF Newest
  <2>. QED  BY ONLY <1>5, <2>1, <2>2 DEF Newest
<1>7. ASSUME NEW j \in K
      PROVE  Newest(t.node[j].jumpNext, Older(K, j))
  <2>1. j \in J /\ j < n /\ j \in Nat
    BY ONLY <1>3, <1>4, j \in K
  <2>2. \A k \in Nat : k < j => k # n
    BY ONLY <1>3, <2>1
  <2>3. \A k : k \in Older(K, j) <=> k \in Older(J, j)
    BY ONLY <1>3, <2>2 DEF Older
  <2>4. Newest(s.node[j].jumpNext, Older(J, j)) /\ t.node[j].jumpNext = s.node[j].jumpNext
    BY <2>1 DEF Listed
  <2>. QED  BY ONLY <2>3, <2>4 DEF Newest
<1>8. Newest(t.node[l].from, K)
  BY ONLY <1>2, <1>6, t.node[l].from = s.node[n].jumpNext
<1>. QED  BY ONLY <1>1, <1>7, <1>8 DEF Listed

\* An older one is taken off: c led to it.
LEMMA DropOlder ==
    ASSUME NEW s, NEW t, NEW J \in SUBSET Nat, NEW l, Listed(s, J, l), NEW n \in J, NEW c \in J,
           s.node[l].from # n, n # 0, s.node[c].jumpNext = n,
           t.node[l].from = s.node[l].from, t.node[c].jumpNext = s.node[n].jumpNext,
           \A j \in J : j # c => t.node[j].jumpNext = s.node[j].jumpNext
    PROVE  Listed(t, J \ {n}, l)
<1>1. PICK K \in SUBSET Nat : K = J \ {n}
  OBVIOUS
<1>2. PICK x : x = s.node[n].jumpNext
  OBVIOUS
<1>3. n \in Nat /\ c \in Nat /\ (\A k : k \in K <=> k \in J /\ k # n) /\ \A k \in J : k \in Nat
  BY <1>1
<1>4. \A j \in J : Newest(s.node[j].jumpNext, Older(J, j))
  BY DEF Listed
<1>5. n < c /\ \A k \in J : k < c => k <= n
  <2>1. Newest(n, Older(J, c))
    BY <1>4
  <2>. QED  BY ONLY <2>1, n # 0 DEF Newest, Older
<1>6. Newest(t.node[l].from, K)
  <2>1. Newest(s.node[l].from, J)
    BY DEF Listed
  <2>. QED  BY ONLY <2>1, <1>3, n \in J, s.node[l].from # n, t.node[l].from = s.node[l].from DEF Newest
<1>7. ASSUME NEW j \in K
      PROVE  Newest(t.node[j].jumpNext, Older(K, j))
  <2>1. j \in J /\ j # n /\ j \in Nat
    BY ONLY <1>3, j \in K
  <2>2. CASE j = c
    <3>1. Newest(x, Older(J, n))
      BY ONLY <1>2, <1>4, n \in J
    <3>2. \A k : k \in Older(K, c) <=> k \in J /\ k < c /\ k # n
      BY ONLY <1>3 DEF Older
    <3>3. \A k : k \in Older(K, c) <=> k \in Older(J, n)
      <4>1. \A k \in J : (k < c /\ k # n) <=> k < n
        BY ONLY <1>3, <1>5
      <4>. QED  BY ONLY <3>2, <4>1 DEF Older
    <3>4. t.node[j].jumpNext = x
      BY ONLY <1>2, <2>2, t.node[c].jumpNext = s.node[n].jumpNext
    <3>. QED  BY ONLY <2>2, <3>1, <3>3, <3>4 DEF Newest
  <2>3. CASE j # c
    <3>1. PICK y : y = s.node[j].jumpNext
      OBVIOUS
    <3>2. Newest(y, Older(J, j)) /\ t.node[j].jumpNext = y
      BY <1>4, <2>1, <2>3, <3>1
    <3>3. y # n
      <4>1. ASSUME y = n
            PROVE  FALSE
        <5>1. n < j /\ \A k \in J : k < j => k <= n
          BY ONLY <3>2, <4>1, n # 0 DEF Newest, Older
        <5>2. ~(c < j) /\ ~(j < c)
          BY ONLY <1>3, <1>5, <2>1, <5>1, c \in J
        <5>. QED  BY ONLY <1>3, <2>1, <2>3, <5>2
      <4>. QED  BY ONLY <4>1
    <3>4. CASE y = 0 /\ \A k : k \notin Older(J, j)
      BY ONLY <1>3, <3>2, <3>4 DEF Newest, Older
    <3>5. CASE y \in Older(J, j) /\ \A k \in Older(J, j) : k <= y
      BY ONLY <1>3, <3>2, <3>3, <3>5 DEF Newest, Older
    <3>. QED  BY ONLY <3>2, <3>4, <3>5 DEF Newest
  <2>. QED  BY ONLY <2>2, <2>3
<1>. QED  BY ONLY <1>1, <1>6, <1>7 DEF Listed

\* r is s with other lists of jumps.
SameLinks(s, r) ==
    /\ r \in StateRec /\ Len(r.node) = Len(s.node)
    /\ r.first = s.first /\ r.last = s.last /\ r.cursor = s.cursor /\ r.order = s.order
    /\ r.rest = s.rest
    /\ \A m \in 1..Len(s.node) :
          /\ r.node[m].kind = s.node[m].kind /\ r.node[m].target = s.node[m].target
          /\ r.node[m].next = s.node[m].next /\ r.node[m].prev = s.node[m].prev

Unlinks(s, t, n, T) ==
    /\ JumpsOK(s, T) /\ n \in T /\ s.node[n].target # 0
    /\ t = Builder!Unlink(s, n, s.node[n].target)

\* The label's list is shorter by the jump, the other lists are as they were.
Unlinked(s, t, n, T) ==
    /\ SameLinks(s, t)
    /\ \A m \in 1..Len(s.node) : t.node[m].numRefs = s.node[m].numRefs
    /\ \A l \in 1..Len(s.node) : Listed(t, JumpsTo(s, T, l) \ {n}, l)

LEMMA UnlinkUnlinks ==
    ASSUME NEW s, NEW t, NEW n, NEW T, Unlinks(s, t, n, T)
    PROVE  Unlinked(s, t, n, T)
<1>1. /\ JumpsOK(s, T) /\ n \in T /\ s.node[n].target # 0
      /\ t = Builder!Unlink(s, n, s.node[n].target)
  BY ONLY Unlinks(s, t, n, T) DEF Unlinks
<1>2. /\ s \in StateRec
      /\ \A m \in T : m \in 1..Len(s.node)
      /\ \A m \in 1..Len(s.node) : s.node[m].target \in 0..Len(s.node)
      /\ \A l \in 1..Len(s.node) : Listed(s, JumpsTo(s, T, l), l)
  BY ONLY <1>1 DEF JumpsOK
<1>3. PICK N \in Nat : N = Len(s.node)
  BY ONLY <1>2, StateRecIs
<1>4. PICK l : l = s.node[n].target
  OBVIOUS
<1>5. l \in 1..N /\ n \in 1..N /\ n # 0
  BY ONLY <1>1, <1>2, <1>3, <1>4
<1>6. PICK J : J = JumpsTo(s, T, l)
  OBVIOUS
<1>7. J \in SUBSET Nat /\ n \in J /\ \A j \in J : j \in 1..N /\ s.node[j].target = l
  BY ONLY <1>1, <1>2, <1>3, <1>4, <1>6 DEF JumpsTo
<1>8. Listed(s, J, l)
  BY ONLY <1>2, <1>3, <1>5, <1>6
<1>9. s.node[n] \in NodeRec /\ s.node[l] \in NodeRec /\ \A j \in J : s.node[j] \in NodeRec
  BY ONLY <1>2, <1>3, <1>5, <1>7, StateRecIs
<1>10. PICK x \in Nat : x = s.node[n].jumpNext
  BY ONLY <1>9, NodeRecIs
<1>11. ASSUME NEW k \in 1..N, k # l, NEW c,
              \A m \in 1..N : m # c => t.node[m] = s.node[m],
              t.node[k].from = s.node[k].from, c = l \/ c \in J,
              \A m \in 1..N : s.node[m].target # l => t.node[m].jumpNext = s.node[m].jumpNext
       PROVE  Listed(t, JumpsTo(s, T, k) \ {n}, k)
  <2>1. n \notin JumpsTo(s, T, k)
    BY ONLY <1>4, <1>11 DEF JumpsTo
  <2>2. PICK I : I = JumpsTo(s, T, k)
    OBVIOUS
  <2>3. JumpsTo(s, T, k) \ {n} = I
    BY ONLY <2>1, <2>2
  <2>4. \A j \in I : j \in 1..N /\ s.node[j].target # l
    BY ONLY <1>2, <1>3, <1>11, <2>2 DEF JumpsTo
  <2>5. Listed(s, I, k)
    BY ONLY <1>2, <1>3, <2>2, k \in 1..N
  <2>6. Listed(t, I, k)
    BY ONLY <1>11, <2>4, <2>5 DEF Listed
  <2>. QED  BY ONLY <2>3, <2>6
<1>12. CASE s.node[l].from = n
  <2>1. PICK a \in NodeRec : a = s.node[l]
    BY ONLY <1>9
  <2>2. PICK b : b = [a EXCEPT !.from = x]
    OBVIOUS
  <2>3. /\ b \in NodeRec /\ b.from = x /\ b.next = a.next /\ b.prev = a.prev /\ b.kind = a.kind
        /\ b.target = a.target /\ b.jumpNext = a.jumpNext /\ b.numRefs = a.numRefs
    BY ONLY <2>2, a \in NodeRec, x \in Nat DEF NodeRec
  <2>4. t = [s EXCEPT !.node[l] = b]
    BY ONLY <1>1, <1>4, <1>10, <1>12, <2>1, <2>2 DEF Builder!Unlink
  <2>5. OneChanged(s, t, l, b)
    BY ONLY <1>2, <1>3, <1>5, <2>3, <2>4, NodeChanged DEF ChangeOne
  <2>6. /\ t \in StateRec /\ Len(t.node) = N
        /\ t.node[l] = b /\ \A m \in 1..N : m # l => t.node[m] = s.node[m]
        /\ t.first = s.first /\ t.last = s.last /\ t.cursor = s.cursor /\ t.order = s.order
        /\ t.rest = s.rest
    BY ONLY <1>3, <2>5 DEF OneChanged
  <2>7. SameLinks(s, t)
    BY ONLY <1>3, <2>1, <2>3, <2>6 DEF SameLinks
  <2>8. \A m \in 1..N : t.node[m].numRefs = s.node[m].numRefs /\ t.node[m].jumpNext = s.node[m].jumpNext
    BY ONLY <2>1, <2>3, <2>6
  <2>9. Listed(t, J \ {n}, l)
    <3>1. t.node[l].from = s.node[n].jumpNext
      BY ONLY <1>10, <2>3, <2>6
    <3>2. \A j \in J : t.node[j].jumpNext = s.node[j].jumpNext
      BY ONLY <1>7, <2>8
    <3>. QED  BY ONLY <1>7, <1>8, <1>12, <3>1, <3>2, DropNewest
  <2>10. ASSUME NEW k \in 1..N
         PROVE  Listed(t, JumpsTo(s, T, k) \ {n}, k)
    <3>1. CASE k = l
      BY ONLY <1>6, <2>9, <3>1
    <3>2. CASE k # l
      <4>1. t.node[k].from = s.node[k].from
        BY ONLY <2>6, <3>2, k \in 1..N
      <4>. QED  BY ONLY <1>11, <2>6, <2>8, <3>2, <4>1, k \in 1..N
    <3>. QED  BY ONLY <3>1, <3>2
  <2>. QED  BY ONLY <1>3, <2>7, <2>8, <2>10 DEF Unlinked
<1>13. CASE s.node[l].from # n
  <2>1. Builder!Chain(s, l) = J
    BY ONLY <1>1, <1>3, <1>5, <1>6, ChainIs
  <2>2. \E i \in J : s.node[i].jumpNext = n
    BY ONLY <1>7, <1>8, <1>13, LedTo
  <2>3. PICK c : c = CHOOSE i \in J : s.node[i].jumpNext = n
    OBVIOUS
  <2>4. c \in J /\ s.node[c].jumpNext = n
    BY ONLY <2>2, <2>3
  <2>5. PICK a \in NodeRec : a = s.node[c]
    BY ONLY <1>9, <2>4
  <2>6. PICK b : b = [a EXCEPT !.jumpNext = x]
    OBVIOUS
  <2>7. /\ b \in NodeRec /\ b.from = a.from /\ b.next = a.next /\ b.prev = a.prev /\ b.kind = a.kind
        /\ b.target = a.target /\ b.jumpNext = x /\ b.numRefs = a.numRefs
    BY ONLY <2>6, a \in NodeRec, x \in Nat DEF NodeRec
  <2>8. t = [s EXCEPT !.node[c] = b]
    BY ONLY <1>1, <1>4, <1>10, <1>13, <2>1, <2>3, <2>5, <2>6 DEF Builder!Unlink
  <2>9. c \in 1..N
    BY ONLY <1>7, <2>4
  <2>10. OneChanged(s, t, c, b)
    BY ONLY <1>2, <1>3, <2>7, <2>8, <2>9, NodeChanged DEF ChangeOne
  <2>11. /\ t \in StateRec /\ Len(t.node) = N
         /\ t.node[c] = b /\ \A m \in 1..N : m # c => t.node[m] = s.node[m]
         /\ t.first = s.first /\ t.last = s.last /\ t.cursor = s.cursor /\ t.order = s.order
         /\ t.rest = s.rest
    BY ONLY <1>3, <2>10 DEF OneChanged
  <2>12. SameLinks(s, t)
    BY ONLY <1>3, <2>5, <2>7, <2>11 DEF SameLinks
  <2>13. \A m \in 1..N : /\ t.node[m].numRefs = s.node[m].numRefs /\ t.node[m].from = s.node[m].from
                         /\ m # c => t.node[m].jumpNext = s.node[m].jumpNext
    BY ONLY <2>5, <2>7, <2>11
  <2>14. Listed(t, J \ {n}, l)
    <3>1. t.node[l].from = s.node[l].from
      BY ONLY <1>5, <2>13
    <3>2. \A j \in J : j # c => t.node[j].jumpNext = s.node[j].jumpNext
      BY ONLY <1>7, <2>13
    <3>3. t.node[c].jumpNext = s.node[n].jumpNext
      BY ONLY <1>10, <2>7, <2>11
    <3>. QED  BY ONLY <1>5, <1>7, <1>8, <1>13, <2>4, <3>1, <3>2, <3>3, DropOlder
  <2>15. ASSUME NEW k \in 1..N
         PROVE  Listed(t, JumpsTo(s, T, k) \ {n}, k)
    <3>1. CASE k = l
      BY ONLY <1>6, <2>14, <3>1
    <3>2. CASE k # l
      <4>1. t.node[k].from = s.node[k].from
        BY ONLY <2>13, k \in 1..N
      <4>2. \A m \in 1..N : s.node[m].target # l => t.node[m].jumpNext = s.node[m].jumpNext
        BY ONLY <1>7, <2>4, <2>13
      <4>. QED  BY ONLY <1>11, <2>4, <2>11, <3>2, <4>1, <4>2, k \in 1..N
    <3>. QED  BY ONLY <3>1, <3>2
  <2>. QED  BY ONLY <1>3, <2>12, <2>13, <2>15 DEF Unlinked
<1>. QED  BY ONLY <1>12, <1>13

Removes(s, r, n, T) == JumpsOK(s, T) /\ n \in T /\ r = Builder!NodeRemoved(s, n)

LEMMA RemovesJump ==
    ASSUME NEW s, NEW r, NEW n, NEW T, Removes(s, r, n, T)
    PROVE  SameLinks(s, r) /\ JumpsOK(r, T \ {n})
<1>1. JumpsOK(s, T) /\ n \in T /\ r = Builder!NodeRemoved(s, n)
  BY ONLY Removes(s, r, n, T) DEF Removes
<1>2. /\ s \in StateRec
      /\ \A m \in T : m \in 1..Len(s.node)
      /\ \A m \in 1..Len(s.node) : /\ s.node[m].target \in 0..Len(s.node)
                                   /\ s.node[m].target # 0 => s.node[m].kind = "jump"
      /\ \A l \in 1..Len(s.node) : /\ Listed(s, JumpsTo(s, T, l), l)
                                   /\ s.node[l].numRefs = Cardinality(JumpsTo(s, T, l))
  BY ONLY <1>1 DEF JumpsOK
<1>3. PICK N \in Nat : N = Len(s.node)
  BY ONLY <1>2, StateRecIs
<1>4. PICK l : l = s.node[n].target
  OBVIOUS
<1>5. CASE l = 0
  <2>1. r = s
    BY ONLY <1>1, <1>4, <1>5 DEF Builder!NodeRemoved
  <2>2. SameLinks(s, r)
    BY ONLY <1>2, <2>1 DEF SameLinks
  <2>3. SameTargets(s, r, T, T \ {n})
    BY ONLY <1>1, <1>2, <1>4, <1>5, <2>1 DEF SameTargets, SameButLinks, SameData
  <2>. QED  BY ONLY <2>2, <2>3, SameJumps
<1>6. CASE l # 0
  <2>1. PICK t : t = Builder!Unlink(s, n, l)
    OBVIOUS
  <2>2. r = [t EXCEPT !.node[l].numRefs = @ - 1]
    BY ONLY <1>1, <1>4, <1>6, <2>1 DEF Builder!NodeRemoved
  <2>3. Unlinked(s, t, n, T)
    BY ONLY <1>1, <1>4, <1>6, <2>1, UnlinkUnlinks DEF Unlinks
  <2>4. /\ SameLinks(s, t)
        /\ \A m \in 1..N : t.node[m].numRefs = s.node[m].numRefs
        /\ \A k \in 1..N : Listed(t, JumpsTo(s, T, k) \ {n}, k)
    BY ONLY <1>3, <2>3 DEF Unlinked
  <2>5. /\ t \in StateRec /\ Len(t.node) = N
        /\ t.first = s.first /\ t.last = s.last /\ t.cursor = s.cursor /\ t.order = s.order
        /\ t.rest = s.rest
        /\ \A m \in 1..N :
              /\ t.node[m].kind = s.node[m].kind /\ t.node[m].target = s.node[m].target
              /\ t.node[m].next = s.node[m].next /\ t.node[m].prev = s.node[m].prev
    BY ONLY <1>3, <2>4 DEF SameLinks
  <2>6. l \in 1..N /\ n \in 1..N
    BY ONLY <1>1, <1>2, <1>3, <1>4, <1>6
  <2>7. t.node[l] \in NodeRec
    BY ONLY <2>5, <2>6, StateRecIs
  <2>8. PICK a \in NodeRec : a = t.node[l]
    BY ONLY <2>7
  <2>9. PICK b : b = [a EXCEPT !.numRefs = @ - 1]
    OBVIOUS
  <2>10. /\ b \in NodeRec /\ b.from = a.from /\ b.next = a.next /\ b.prev = a.prev /\ b.kind = a.kind
         /\ b.target = a.target /\ b.jumpNext = a.jumpNext /\ b.numRefs = a.numRefs - 1
    BY ONLY <2>9, a \in NodeRec DEF NodeRec
  <2>11. r = [t EXCEPT !.node[l] = b]
    BY ONLY <2>2, <2>8, <2>9
  <2>12. OneChanged(t, r, l, b)
    BY ONLY <2>5, <2>6, <2>10, <2>11, NodeChanged DEF ChangeOne
  <2>13. /\ r \in StateRec /\ Len(r.node) = N
         /\ r.node[l] = b /\ \A m \in 1..N : m # l => r.node[m] = t.node[m]
         /\ r.first = s.first /\ r.last = s.last /\ r.cursor = s.cursor /\ r.order = s.order
         /\ r.rest = s.rest
    BY ONLY <2>5, <2>12 DEF OneChanged
  <2>14. \A m \in 1..N :
            /\ r.node[m].kind = s.node[m].kind /\ r.node[m].target = s.node[m].target
            /\ r.node[m].next = s.node[m].next /\ r.node[m].prev = s.node[m].prev
            /\ r.node[m].from = t.node[m].from /\ r.node[m].jumpNext = t.node[m].jumpNext
    BY ONLY <2>5, <2>8, <2>10, <2>13
  <2>15. SameLinks(s, r)
    BY ONLY <1>3, <2>13, <2>14 DEF SameLinks
  <2>16. ASSUME NEW k \in 1..N
         PROVE  /\ Listed(r, JumpsTo(r, T \ {n}, k), k)
                /\ r.node[k].numRefs = Cardinality(JumpsTo(r, T \ {n}, k))
    <3>1. PICK J : J = JumpsTo(s, T, k)
      OBVIOUS
    <3>2. J \in SUBSET (1..N) /\ \A j \in T : j \in 1..N
      BY ONLY <1>2, <1>3, <3>1 DEF JumpsTo
    <3>3. JumpsTo(r, T \ {n}, k) = J \ {n}
      BY ONLY <2>14, <3>1, <3>2 DEF JumpsTo
    <3>4. Listed(t, J \ {n}, k)
      BY ONLY <2>4, <3>1, k \in 1..N
    <3>5. Listed(r, J \ {n}, k)
      BY ONLY <2>14, <3>2, <3>4, k \in 1..N DEF Listed
    <3>6. IsFiniteSet(J) /\ s.node[k].numRefs = Cardinality(J)
      <4>1. IsFiniteSet(1..N)
        BY ONLY FS_Interval, N \in Nat
      <4>2. IsFiniteSet(J)
        BY ONLY <3>2, <4>1, FS_Subset
      <4>. QED  BY ONLY <1>2, <1>3, <3>1, <4>2, k \in 1..N
    <3>7. r.node[k].numRefs = Cardinality(J \ {n})
      <4>1. CASE k = l
        <5>1. n \in J
          BY ONLY <1>1, <1>4, <3>1, <4>1 DEF JumpsTo
        <5>2. Cardinality(J \ {n}) = Cardinality(J) - 1
          BY ONLY <3>6, <5>1, FS_RemoveElement
        <5>3. r.node[k].numRefs = s.node[k].numRefs - 1
          BY ONLY <2>4, <2>8, <2>10, <2>13, <4>1, k \in 1..N
        <5>. QED  BY ONLY <3>6, <5>2, <5>3
      <4>2. CASE k # l
        <5>1. n \notin J
          BY ONLY <1>4, <3>1, <4>2 DEF JumpsTo
        <5>2. J \ {n} = J
          BY ONLY <5>1
        <5>3. r.node[k].numRefs = s.node[k].numRefs
          BY ONLY <2>4, <2>13, <4>2, k \in 1..N
        <5>. QED  BY ONLY <3>6, <5>2, <5>3
      <4>. QED  BY ONLY <4>1, <4>2
    <3>. QED  BY ONLY <3>3, <3>5, <3>7
  <2>17. JumpsOK(r, T \ {n})
    <3>1. r \in StateRec /\ Len(r.node) = N
      BY ONLY <2>13
    <3>2. \A m \in T \ {n} : m \in 1..Len(r.node)
      BY ONLY <1>2, <1>3, <3>1
    <3>3. \A m \in 1..Len(r.node) : /\ r.node[m].target \in 0..Len(r.node)
                                    /\ r.node[m].target # 0 => r.node[m].kind = "jump"
      BY ONLY <1>2, <1>3, <2>14, <3>1
    <3>4. \A k \in 1..Len(r.node) : /\ Listed(r, JumpsTo(r, T \ {n}, k), k)
                                    /\ r.node[k].numRefs = Cardinality(JumpsTo(r, T \ {n}, k))
      BY ONLY <2>16, <3>1
    <3>. QED  BY ONLY <3>1, <3>2, <3>3, <3>4 DEF JumpsOK
  <2>. QED  BY ONLY <2>15, <2>17
<1>. QED  BY ONLY <1>5, <1>6

-----------------------------------------------------------------------------
(* CodeBuilder: nodes that are cut out, and leave.                         *)

LEMMA SameLinksChained ==
    ASSUME NEW s, NEW r, Chained(s), SameLinks(s, r)
    PROVE  Chained(r)
<1>1. /\ r \in StateRec /\ Len(r.node) = Len(s.node)
      /\ r.first = s.first /\ r.last = s.last /\ r.order = s.order /\ r.rest = s.rest
      /\ \A m \in 1..Len(s.node) :
            r.node[m].next = s.node[m].next /\ r.node[m].prev = s.node[m].prev
  BY ONLY SameLinks(s, r) DEF SameLinks
<1>2. /\ s \in StateRec
      /\ \A m \in In(s.order) : m \in 1..Len(s.node) /\ m \notin In(s.rest)
      /\ \A m \in In(s.rest) : m \in 1..Len(s.node)
      /\ Once(s.order) /\ Once(s.rest)
      /\ LinkedAs(s, s.order)
      /\ \A m : Loose(s, m) => Nx(s, m) = 0 /\ Pv(s, m) = 0
      /\ \A k \in 1..Len(s.rest) : k + 1 \in 1..Len(s.rest) => Nx(s, s.rest[k]) = s.rest[k + 1]
  BY ONLY Chained(s) DEF Chained
<1>3. \A m : m = 0 \/ m \in 1..Len(s.node) => Nx(r, m) = Nx(s, m) /\ Pv(r, m) = Pv(s, m)
  BY ONLY <1>1 DEF Nx, Pv
<1>4. \A m : Loose(r, m) <=> Loose(s, m)
  BY ONLY <1>1 DEF Loose
<1>5. s.order \in Seq(Pos) /\ s.rest \in Seq(Pos)
  BY ONLY <1>2, StateRecIs
<1>6. \A k : At(s.order, k) = 0 \/ At(s.order, k) \in 1..Len(s.node)
  BY ONLY <1>2, <1>5, AtIs
<1>7. LinkedAs(r, r.order)
  BY ONLY <1>1, <1>2, <1>3, <1>6 DEF LinkedAs
<1>8. \A m : Loose(r, m) => Nx(r, m) = 0 /\ Pv(r, m) = 0
  BY ONLY <1>2, <1>3, <1>4 DEF Loose
<1>9. \A k \in 1..Len(s.rest) : s.rest[k] \in 1..Len(s.node)
  BY ONLY <1>2, <1>5, AtIs
<1>10. \A k \in 1..Len(s.rest) : k + 1 \in 1..Len(s.rest) => Nx(r, s.rest[k]) = s.rest[k + 1]
  BY ONLY <1>2, <1>3, <1>9
<1>. QED  BY ONLY <1>1, <1>2, <1>7, <1>8, <1>10 DEF Chained

\* The first of a list leaves it.
Tailing(o, t) == o \in Seq(Pos) /\ Once(o) /\ o # << >> /\ t = Tail(o)

Tailed(o, t) ==
    /\ t \in Seq(Pos) /\ Len(t) = Len(o) - 1 /\ Len(t) \in Nat /\ 1 \in 1..Len(o)
    /\ \A k \in 1..Len(t) : t[k] = o[k + 1] /\ k + 1 \in 1..Len(o)
    /\ \A m : m \in In(t) <=> m \in In(o) /\ m # o[1]
    /\ o[1] \in In(o) /\ Once(t)

LEMMA TailIs ==
    ASSUME NEW o, NEW t, Tailing(o, t)
    PROVE  Tailed(o, t)
<1>1. o \in Seq(Pos) /\ Once(o) /\ o # << >> /\ t = Tail(o)
  BY ONLY Tailing(o, t) DEF Tailing
<1>2. PICK n \in Nat : n = Len(o) /\ n > 0
  BY ONLY <1>1, LenProperties, EmptySeq
<1>3. t \in Seq(Pos) /\ Len(t) = n - 1 /\ \A k \in 1..n - 1 : t[k] = o[k + 1]
  BY ONLY <1>1, <1>2, HeadTailProperties
<1>4. n - 1 \in Nat /\ 1 \in 1..n /\ \A k \in 1..n - 1 : k + 1 \in 1..n /\ k + 1 # 1
  BY ONLY <1>2
<1>5. \A k \in 1..n : k # 1 => k - 1 \in 1..n - 1 /\ (k - 1) + 1 = k
  BY ONLY <1>2
<1>6. \A i, j \in 1..n : o[i] = o[j] => i = j
  BY ONLY <1>1, <1>2 DEF Once
<1>7. ASSUME NEW m
      PROVE  m \in In(t) <=> m \in In(o) /\ m # o[1]
  <2>1. ASSUME m \in In(t)
        PROVE  m \in In(o) /\ m # o[1]
    <3>1. PICK k \in 1..n - 1 : t[k] = m
      BY ONLY <1>3, <2>1 DEF In
    <3>2. m = o[k + 1] /\ k + 1 \in 1..n /\ k + 1 # 1
      BY ONLY <1>3, <1>4, <3>1, k \in 1..n - 1
    <3>. QED  BY ONLY <1>2, <1>4, <1>6, <3>2 DEF In
  <2>2. ASSUME m \in In(o), m # o[1]
        PROVE  m \in In(t)
    <3>1. PICK k \in 1..n : o[k] = m
      BY ONLY <1>2, <2>2 DEF In
    <3>2. k - 1 \in 1..n - 1 /\ t[k - 1] = m
      BY ONLY <1>3, <1>5, <2>2, <3>1, k \in 1..n
    <3>. QED  BY ONLY <1>3, <3>2 DEF In
  <2>. QED  BY ONLY <2>1, <2>2
<1>8. Once(t)
  <2>1. ASSUME NEW i \in 1..n - 1, NEW j \in 1..n - 1, t[i] = t[j]
        PROVE  i = j
    <3>1. o[i + 1] = o[j + 1] /\ i + 1 \in 1..n /\ j + 1 \in 1..n
      BY ONLY <1>3, <1>4, <2>1, i \in 1..n - 1, j \in 1..n - 1
    <3>2. i + 1 = j + 1
      BY ONLY <1>6, <3>1
    <3>. QED  BY ONLY <3>2, <1>2, i \in 1..n - 1, j \in 1..n - 1
  <2>. QED  BY ONLY <1>3, <2>1 DEF Once
<1>9. o[1] \in In(o)
  BY ONLY <1>2, <1>4 DEF In
<1>. QED  BY ONLY <1>2, <1>3, <1>4, <1>7, <1>8, <1>9 DEF Tailed

\* The nodes that count.
There(s) == In(s.order) \cup In(s.rest)

SoFar(s) == Chained(s) /\ JumpsOK(s, There(s))

GoesAway(s, r, n, p) ==
    SoFar(s) /\ s.rest # << >> /\ n = s.rest[1] /\ p \in Nat /\ r = Builder!Gone(s, n, p)

WentAway(s, r, n, p) ==
    /\ SoFar(r) /\ Len(r.node) = Len(s.node) /\ r.order = s.order /\ r.rest = Tail(s.rest)
    /\ r.cursor = (IF s.cursor = n THEN p ELSE s.cursor)
    /\ \A m \in 1..Len(s.node) : r.node[m].kind = s.node[m].kind

LEMMA GoneGoes ==
    ASSUME NEW s, NEW r, NEW n, NEW p, GoesAway(s, r, n, p)
    PROVE  WentAway(s, r, n, p)
<1>1. /\ Chained(s) /\ JumpsOK(s, There(s)) /\ s.rest # << >> /\ n = s.rest[1] /\ p \in Nat
      /\ r = Builder!Gone(s, n, p)
  BY ONLY GoesAway(s, r, n, p) DEF GoesAway, SoFar
<1>2. /\ s \in StateRec
      /\ \A m \in In(s.order) : m \in 1..Len(s.node) /\ m \notin In(s.rest)
      /\ \A m \in In(s.rest) : m \in 1..Len(s.node)
      /\ Once(s.order) /\ Once(s.rest)
      /\ LinkedAs(s, s.order)
      /\ \A m : Loose(s, m) => Nx(s, m) = 0 /\ Pv(s, m) = 0
      /\ \A k \in 1..Len(s.rest) : k + 1 \in 1..Len(s.rest) => Nx(s, s.rest[k]) = s.rest[k + 1]
  BY ONLY <1>1 DEF Chained
<1>3. Len(s.node) \in Nat /\ s.order \in Seq(Pos) /\ s.rest \in Seq(Pos) /\ s.cursor \in Nat
  BY ONLY <1>2, StateRecIs
<1>4. PICK f : f = Tail(s.rest)
  OBVIOUS
<1>5. Tailed(s.rest, f)
  BY ONLY <1>1, <1>2, <1>3, <1>4, TailIs DEF Tailing
<1>6. /\ f \in Seq(Pos) /\ Len(f) = Len(s.rest) - 1 /\ Len(f) \in Nat
      /\ \A k \in 1..Len(f) : f[k] = s.rest[k + 1] /\ k + 1 \in 1..Len(s.rest)
      /\ \A m : m \in In(f) <=> m \in In(s.rest) /\ m # n
      /\ n \in In(s.rest) /\ Once(f)
  BY ONLY <1>1, <1>5 DEF Tailed
<1>7. n \in 1..Len(s.node) /\ n # 0 /\ n \notin In(s.order)
  BY ONLY <1>2, <1>3, <1>6
<1>8. s.node[n] \in NodeRec
  BY ONLY <1>2, <1>7, StateRecIs
<1>9. PICK a \in NodeRec : a = s.node[n]
  BY ONLY <1>8
<1>10. PICK b : b = [a EXCEPT !.prev = 0, !.next = 0]
  OBVIOUS
<1>11. b \in NodeRec /\ b.next = 0 /\ b.prev = 0 /\ SameData(a, b)
  BY ONLY <1>10, a \in NodeRec DEF NodeRec, SameData
<1>12. PICK u : u = [s EXCEPT !.node[n] = b]
  OBVIOUS
<1>13. OneChanged(s, u, n, b)
  BY ONLY <1>2, <1>7, <1>11, <1>12, NodeChanged DEF ChangeOne
<1>14. /\ u \in StateRec /\ Len(u.node) = Len(s.node)
       /\ u.node[n] = b /\ \A m \in 1..Len(s.node) : m # n => u.node[m] = s.node[m]
       /\ u.first = s.first /\ u.last = s.last /\ u.cursor = s.cursor /\ u.order = s.order
       /\ u.rest = s.rest
  BY ONLY <1>13 DEF OneChanged
<1>15. PICK c \in Nat : c = IF s.cursor = n THEN p ELSE s.cursor
  BY ONLY <1>1, <1>3
<1>16. PICK v : v = [u EXCEPT !.cursor = c, !.rest = f]
  OBVIOUS
<1>17. /\ v \in StateRec /\ v.node = u.node /\ v.first = s.first /\ v.last = s.last
       /\ v.cursor = c /\ v.order = s.order /\ v.rest = f
  BY ONLY <1>6, <1>14, <1>16, c \in Nat DEF StateRec
<1>18. r = Builder!NodeRemoved(v, n)
  <2>1. v = [s EXCEPT !.node[n].prev = 0, !.node[n].next = 0,
                      !.cursor = IF @ = n THEN p ELSE @, !.rest = Tail(@)]
    <3>1. u = [s EXCEPT !.node[n].prev = 0, !.node[n].next = 0]
      BY ONLY <1>9, <1>10, <1>12
    <3>2. v = [u EXCEPT !.cursor = IF @ = n THEN p ELSE @, !.rest = Tail(@)]
      BY ONLY <1>4, <1>14, <1>15, <1>16
    <3>. QED  BY ONLY <3>1, <3>2
  <2>. QED  BY ONLY <1>1, <2>1 DEF Builder!Gone
<1>19. SameButLinks(s, v)
  <2>1. \A m \in 1..Len(s.node) : SameData(s.node[m], v.node[m])
    BY ONLY <1>9, <1>11, <1>14, <1>17 DEF SameData
  <2>. QED  BY ONLY <2>1, <1>14, <1>17 DEF SameButLinks
<1>20. Chained(v)
  <2>1. /\ \A m : m = 0 \/ (m \in 1..Len(s.node) /\ m # n) => Nx(v, m) = Nx(s, m) /\ Pv(v, m) = Pv(s, m)
        /\ Nx(v, n) = 0 /\ Pv(v, n) = 0
    BY ONLY <1>7, <1>11, <1>14, <1>17 DEF Nx, Pv
  <2>2. LinkedAs(v, v.order)
    <3>1. \A k : At(s.order, k) = 0 \/ At(s.order, k) \in In(s.order)
      BY ONLY <1>3, AtIs
    <3>2. \A k : LET m == At(s.order, k) IN m = 0 \/ (m \in 1..Len(s.node) /\ m # n)
      BY ONLY <1>2, <1>7, <3>1
    <3>3. \A k \in 0..Len(s.order) :
             Nx(s, At(s.order, k)) = At(s.order, k + 1) /\ Pv(s, At(s.order, k + 1)) = At(s.order, k)
      BY ONLY <1>2 DEF LinkedAs
    <3>. QED  BY ONLY <1>17, <2>1, <3>2, <3>3 DEF LinkedAs
  <2>3. ASSUME NEW m, Loose(v, m)
        PROVE  Nx(v, m) = 0 /\ Pv(v, m) = 0
    <3>1. CASE m = n
      BY ONLY <2>1, <3>1
    <3>2. CASE m # n
      <4>1. m \in 1..Len(s.node) /\ Loose(s, m)
        BY ONLY <1>6, <1>14, <1>17, <2>3, <3>2 DEF Loose
      <4>. QED  BY ONLY <1>2, <2>1, <3>2, <4>1
    <3>. QED  BY ONLY <3>1, <3>2
  <2>4. ASSUME NEW k \in 1..Len(f), k + 1 \in 1..Len(f)
        PROVE  Nx(v, f[k]) = f[k + 1]
    <3>1. f[k] = s.rest[k + 1] /\ k + 1 \in 1..Len(s.rest) /\ f[k + 1] = s.rest[(k + 1) + 1]
          /\ (k + 1) + 1 \in 1..Len(s.rest)
      BY ONLY <1>6, <2>4, k \in 1..Len(f)
    <3>2. Nx(s, s.rest[k + 1]) = s.rest[(k + 1) + 1]
      BY ONLY <1>2, <3>1
    <3>3. f[k] \in In(f)
      BY ONLY k \in 1..Len(f) DEF In
    <3>4. f[k] \in 1..Len(s.node) /\ f[k] # n
      BY ONLY <1>2, <1>6, <3>3
    <3>. QED  BY ONLY <2>1, <3>1, <3>2, <3>4
  <2>5. /\ \A m \in In(s.order) : m \in 1..Len(s.node) /\ m \notin In(f)
        /\ \A m \in In(f) : m \in 1..Len(s.node)
    BY ONLY <1>2, <1>6
  <2>. QED  BY ONLY <1>2, <1>6, <1>14, <1>17, <2>2, <2>3, <2>4, <2>5 DEF Chained
<1>21. JumpsOK(v, There(s))
  <2>1. SameTargets(s, v, There(s), There(s))
    BY ONLY <1>1, <1>2, <1>19 DEF SameTargets, There
  <2>. QED  BY ONLY <2>1, SameJumps
<1>22. n \in There(s)
  BY ONLY <1>6 DEF There
<1>23. SameLinks(v, r) /\ JumpsOK(r, There(s) \ {n})
  BY ONLY <1>18, <1>21, <1>22, RemovesJump DEF Removes
<1>24. Chained(r)
  BY ONLY <1>20, <1>23, SameLinksChained
<1>25. /\ Len(r.node) = Len(v.node) /\ r.cursor = v.cursor /\ r.order = v.order /\ r.rest = v.rest
       /\ \A m \in 1..Len(v.node) : r.node[m].kind = v.node[m].kind
  BY ONLY <1>23 DEF SameLinks
<1>26. There(r) = There(s) \ {n}
  BY ONLY <1>6, <1>7, <1>17, <1>25 DEF There
<1>27. SoFar(r)
  BY ONLY <1>23, <1>24, <1>26 DEF SoFar
<1>28. \A m \in 1..Len(s.node) : v.node[m].kind = s.node[m].kind
  BY ONLY <1>19 DEF SameButLinks, SameData
<1>. QED  BY ONLY <1>4, <1>14, <1>15, <1>17, <1>25, <1>27, <1>28 DEF WentAway

CutsOutOf(s, r, i, j) ==
    /\ SoFar(s) /\ s.rest = << >> /\ i \in 1..Len(s.order) /\ j \in i..Len(s.order)
    /\ r = Builder!Cut(s, i, j)

WasCut(s, r, i, j) ==
    /\ SoFar(r) /\ SameButLinks(s, r) /\ r.cursor = s.cursor
    /\ \A m : m \in In(s.order) <=> m \in In(r.order) \/ m \in In(r.rest)
    /\ At(s.order, i - 1) \notin In(r.rest) /\ At(s.order, j + 1) \notin In(r.rest)
    /\ Len(r.rest) = j - i + 1 /\ \A k \in 1..j - i + 1 : r.rest[k] = s.order[i + k - 1]

LEMMA CutCuts ==
    ASSUME NEW s, NEW r, NEW i, NEW j, CutsOutOf(s, r, i, j)
    PROVE  WasCut(s, r, i, j)
<1>1. /\ Chained(s) /\ JumpsOK(s, There(s)) /\ s.rest = << >>
      /\ i \in 1..Len(s.order) /\ j \in i..Len(s.order) /\ r = Builder!Cut(s, i, j)
  BY ONLY CutsOutOf(s, r, i, j) DEF CutsOutOf, SoFar
<1>2. /\ s \in StateRec
      /\ \A m \in In(s.order) : m \in 1..Len(s.node) /\ m \notin In(s.rest)
      /\ Once(s.order) /\ LinkedAs(s, s.order)
      /\ \A m : Loose(s, m) => Nx(s, m) = 0 /\ Pv(s, m) = 0
  BY ONLY <1>1 DEF Chained
<1>3. PICK o \in Seq(Pos) : o = s.order
  BY ONLY <1>2, StateRecIs
<1>4. PICK n \in Nat : n = Len(o)
  BY ONLY o \in Seq(Pos), LenProperties
<1>5. i \in Nat /\ j \in Nat /\ i \in 1..n /\ j \in i..n /\ j \in 1..n /\ 1 <= i /\ i <= j /\ j <= n
  BY ONLY <1>1, <1>3, <1>4, n \in Nat
<1>6. PICK t, c : t = WithoutRun(o, i, j) /\ c = RunOf(o, i, j)
  OBVIOUS
<1>7. t \in Seq(Pos) /\ c \in Seq(Pos) /\ Len(c) = j - i + 1
  <2>1. CanCut(o, i, j)
    BY ONLY <1>4, <1>5, o \in Seq(Pos) DEF CanCut
  <2>2. CutsOut(o, i, j)
    BY ONLY <2>1, CutOutSeq
  <2>. QED  BY ONLY <1>6, <2>2 DEF CutsOut
<1>8. PICK d : d = Len(c)
  OBVIOUS
<1>9. Cutting(o, n, i, j, t, c, d)
  BY ONLY <1>2, <1>3, <1>4, <1>5, <1>6, <1>8, o \in Seq(Pos) DEF Cutting
<1>10. CutRun(o, n, i, j, t, c, d)
  BY ONLY <1>9, CutOutAt
<1>11. /\ d = j - i + 1
       /\ \A m : m \in In(o) <=> m \in In(t) \/ m \in In(c)
       /\ Once(t) /\ Once(c) /\ In(t) \cap In(c) = {}
       /\ Len(c) = d /\ \A k \in 1..d : c[k] = o[i + k - 1]
  BY ONLY <1>10 DEF CutRun
<1>12. PICK p, q : p = At(o, i - 1) /\ q = At(o, j + 1)
  OBVIOUS
<1>13. \A k : At(o, k) = 0 \/ At(o, k) \in In(o)
  BY ONLY o \in Seq(Pos), AtIs
<1>14. PICK N \in Nat : N = Len(s.node)
  BY ONLY <1>2, StateRecIs
<1>15. p \in 0..N /\ q \in 0..N /\ p \in Nat /\ q \in Nat
  BY ONLY <1>2, <1>3, <1>12, <1>13, <1>14
<1>16. /\ s.node[o[i]].prev = p /\ s.node[o[j]].next = q
       /\ o[i] = At(o, i) /\ o[j] = At(o, j)
  BY ONLY <1>1, <1>3, <1>4, <1>5, <1>12, Neighbours
<1>17. (s.first = o[i] <=> p = 0) /\ (s.last = o[j] <=> q = 0)
  <2>1. /\ \A k \in 1..n : At(o, k) # 0
        /\ At(o, 0) = 0 /\ At(o, n + 1) = 0
    BY ONLY <1>4, o \in Seq(Pos), AtIs, PosIs
  <2>2. s.first = At(o, 1) /\ s.last = At(o, n)
    <3>1. \A k \in 0..n : Nx(s, At(o, k)) = At(o, k + 1) /\ Pv(s, At(o, k + 1)) = At(o, k)
      BY ONLY <1>2, <1>3, <1>4 DEF LinkedAs
    <3>2. 0 \in 0..n /\ n \in 0..n /\ 0 + 1 = 1
      BY ONLY n \in Nat
    <3>3. Nx(s, 0) = At(o, 1) /\ Pv(s, 0) = At(o, n)
      BY ONLY <2>1, <3>1, <3>2
    <3>. QED  BY ONLY <3>3 DEF Nx, Pv
  <2>3. s.first = o[i] <=> i = 1
    <3>1. ASSUME At(o, 1) = At(o, i), i # 1
          PROVE  FALSE
      <4>1. 1 \in 0..n + 1 /\ i \in 0..n + 1 /\ 1 \in 1..n
        BY ONLY <1>5, n \in Nat
      <4>2. 1 \in {0, n + 1}
        BY ONLY <1>2, <1>3, <1>4, <3>1, <4>1, AtOnce, o \in Seq(Pos), n \in Nat
      <4>. QED  BY ONLY <4>1, <4>2, n \in Nat
    <3>. QED  BY ONLY <1>16, <2>2, <3>1
  <2>4. s.last = o[j] <=> j = n
    <3>1. ASSUME At(o, n) = At(o, j), j # n
          PROVE  FALSE
      <4>1. n \in 0..n + 1 /\ j \in 0..n + 1 /\ n \in 1..n
        BY ONLY <1>5, n \in Nat
      <4>2. n \in {0, n + 1}
        BY ONLY <1>2, <1>3, <1>4, <3>1, <4>1, AtOnce, o \in Seq(Pos), n \in Nat
      <4>. QED  BY ONLY <4>1, <4>2, n \in Nat
    <3>. QED  BY ONLY <1>16, <2>2, <3>1
  <2>5. p = 0 <=> i = 1
    <3>1. i - 1 = 0 \/ i - 1 \in 1..n
      BY ONLY <1>5, n \in Nat
    <3>2. i - 1 = 0 <=> i = 1
      BY ONLY <1>5
    <3>3. 0 \notin 1..n
      BY ONLY n \in Nat
    <3>. QED  BY ONLY <1>12, <2>1, <3>1, <3>2, <3>3
  <2>6. q = 0 <=> j = n
    <3>1. (j + 1 = n + 1 <=> j = n) /\ (j + 1 = n + 1 \/ j + 1 \in 1..n) /\ n + 1 \notin 1..n
      BY ONLY <1>5, n \in Nat
    <3>. QED  BY ONLY <1>12, <2>1, <3>1
  <2>. QED  BY ONLY <2>3, <2>4, <2>5, <2>6
<1>18. PICK u : u = Builder!SetNext(s, p, q)
  OBVIOUS
<1>19. NextSet(s, u, p, q)
  BY ONLY <1>2, <1>14, <1>15, <1>18, SetNextIs DEF SetsNext
<1>20. /\ SameButLinks(s, u) /\ u.cursor = s.cursor /\ u.order = s.order /\ u.rest = s.rest
       /\ Nx(u, p) = q /\ \A m \in 0..N : m # p => Nx(u, m) = Nx(s, m)
       /\ \A m \in 0..N : Pv(u, m) = Pv(s, m)
  BY ONLY <1>14, <1>19 DEF NextSet
<1>21. u \in StateRec /\ Len(u.node) = N
  BY ONLY <1>14, <1>20 DEF SameButLinks
<1>22. PICK v : v = Builder!SetPrev(u, q, p)
  OBVIOUS
<1>23. PrevSet(u, v, q, p)
  BY ONLY <1>15, <1>21, <1>22, SetPrevIs DEF SetsPrev
<1>24. /\ SameButLinks(u, v) /\ v.cursor = s.cursor /\ v.order = s.order /\ v.rest = s.rest
       /\ Pv(v, q) = p /\ \A m \in 0..N : m # q => Pv(v, m) = Pv(s, m)
       /\ \A m \in 0..N : Nx(v, m) = Nx(u, m)
  BY ONLY <1>15, <1>20, <1>21, <1>23 DEF PrevSet
<1>25. v \in StateRec /\ Len(v.node) = N
  BY ONLY <1>21, <1>24 DEF SameButLinks
<1>26. r = [v EXCEPT !.order = t, !.rest = c]
  <2>1. u = IF s.first = o[i] THEN [s EXCEPT !.first = q] ELSE [s EXCEPT !.node[p].next = q]
    BY ONLY <1>17, <1>18 DEF Builder!SetNext
  <2>2. u.last = s.last
    <3>1. Pv(u, 0) = Pv(s, 0)
      BY ONLY <1>20, N \in Nat
    <3>. QED  BY ONLY <3>1 DEF Pv
  <2>3. v = IF u.last = o[j] THEN [u EXCEPT !.last = p] ELSE [u EXCEPT !.node[q].prev = p]
    BY ONLY <1>17, <1>22, <2>2 DEF Builder!SetPrev
  <2>4. r = [v EXCEPT !.order = SubSeq(v.order, 1, i - 1) \o SubSeq(v.order, j + 1, Len(v.order)),
                      !.rest = SubSeq(s.order, i, j)]
    BY ONLY <1>1, <1>3, <1>16, <1>25, <2>1, <2>3 DEF Builder!Cut, StateRec
  <2>. QED  BY ONLY <1>3, <1>6, <1>24, <2>4 DEF WithoutRun, RunOf
<1>27. /\ r \in StateRec /\ r.node = v.node /\ r.first = v.first /\ r.last = v.last
       /\ r.cursor = s.cursor /\ r.order = t /\ r.rest = c
  BY ONLY <1>7, <1>24, <1>25, <1>26 DEF StateRec
<1>28. /\ \A m \in 0..N : m # p => Nx(r, m) = Nx(s, m)
       /\ \A m \in 0..N : m # q => Pv(r, m) = Pv(s, m)
       /\ Nx(r, p) = q /\ Pv(r, q) = p
  BY ONLY <1>15, <1>20, <1>24, <1>27 DEF Nx, Pv
<1>29. SameButLinks(s, r)
  <2>1. SameButLinks(v, r)
    BY ONLY <1>27 DEF SameButLinks, SameData
  <2>2. SameButLinks(s, v)
    BY ONLY <1>20, <1>24, SameButLinksTwice
  <2>. QED  BY ONLY <2>1, <2>2, SameButLinksTwice
<1>30. LinkedAs(r, t)
  <2>1. \A m \in {0} \cup In(o) : m \in 0..N
    BY ONLY <1>2, <1>3, <1>14
  <2>2. Parting(s, r, o, n, i, j, t, c, d, p, q)
    BY ONLY <1>2, <1>3, <1>9, <1>12, <1>28, <2>1 DEF Parting
  <2>. QED  BY ONLY <2>2, CutLinked
<1>31. In(s.rest) = {}
  BY ONLY <1>1, EmptySeq DEF In
<1>32. p \notin In(c) /\ q \notin In(c)
  <2>1. ASSUME NEW k \in 0..n + 1, k < i \/ k > j, At(o, k) \in In(c)
        PROVE  FALSE
    <3>1. PICK l \in 1..d : c[l] = At(o, k)
      BY ONLY <1>11, <2>1 DEF In
    <3>2. i + l - 1 \in 1..n /\ i + l - 1 \in i..j /\ i + l - 1 \in 0..n + 1 /\ i + l - 1 # k
      BY ONLY <1>5, <1>11, <2>1, l \in 1..d, k \in 0..n + 1, n \in Nat
    <3>3. At(o, i + l - 1) = At(o, k)
      BY ONLY <1>4, <1>11, <3>1, <3>2, l \in 1..d DEF At
    <3>4. i + l - 1 \in {0, n + 1}
      BY ONLY <1>2, <1>3, <1>4, <3>2, <3>3, AtOnce, o \in Seq(Pos), n \in Nat, k \in 0..n + 1
    <3>. QED  BY ONLY <3>2, <3>4, n \in Nat
  <2>2. i - 1 \in 0..n + 1 /\ i - 1 < i /\ j + 1 \in 0..n + 1 /\ j + 1 > j
    BY ONLY <1>5, n \in Nat
  <2>. QED  BY ONLY <1>12, <2>1, <2>2
<1>33. ASSUME NEW m, Loose(r, m)
       PROVE  Nx(r, m) = 0 /\ Pv(r, m) = 0
  <2>1. m \in 1..N /\ m \notin In(o) /\ Loose(s, m) /\ m # 0 /\ m \in 0..N
    BY ONLY <1>3, <1>11, <1>14, <1>25, <1>27, <1>31, <1>33, N \in Nat DEF Loose
  <2>2. m # p /\ m # q
    BY ONLY <1>12, <1>13, <2>1
  <2>. QED  BY ONLY <1>2, <1>28, <2>1, <2>2
<1>34. ASSUME NEW k \in 1..d, k + 1 \in 1..d
       PROVE  Nx(r, c[k]) = c[k + 1]
  <2>1. c[k] \in In(c) /\ c[k] \in 0..N
    <3>1. c[k] \in In(c)
      BY ONLY <1>11, k \in 1..d DEF In
    <3>. QED  BY ONLY <1>2, <1>3, <1>11, <1>14, <3>1
  <2>2. i + k - 1 \in 0..n /\ i + k - 1 \in 1..n /\ (i + k - 1) + 1 \in 1..n /\ i + (k + 1) - 1 = (i + k - 1) + 1
    BY ONLY <1>5, <1>11, <1>34, n \in Nat, k \in 1..d
  <2>3. c[k] = At(o, i + k - 1) /\ c[k + 1] = At(o, (i + k - 1) + 1)
    BY ONLY <1>4, <1>11, <1>34, <2>2, k \in 1..d DEF At
  <2>4. Nx(s, At(o, i + k - 1)) = At(o, (i + k - 1) + 1)
    BY ONLY <1>2, <1>3, <1>4, <2>2 DEF LinkedAs
  <2>. QED  BY ONLY <1>28, <1>32, <2>1, <2>3, <2>4
<1>35. Chained(r)
  <2>1. /\ \A m \in In(t) : m \in 1..Len(r.node) /\ m \notin In(c)
        /\ \A m \in In(c) : m \in 1..Len(r.node)
    BY ONLY <1>2, <1>3, <1>11, <1>14, <1>25, <1>27
  <2>. QED  BY ONLY <1>11, <1>27, <1>30, <1>33, <1>34, <2>1 DEF Chained
<1>36. There(r) = There(s)
  BY ONLY <1>3, <1>11, <1>27, <1>31 DEF There
<1>37. JumpsOK(r, There(r))
  <2>1. SameTargets(s, r, There(s), There(s))
    BY ONLY <1>1, <1>2, <1>29, <1>31 DEF SameTargets, There
  <2>. QED  BY ONLY <1>36, <2>1, SameJumps
<1>. QED  BY ONLY <1>3, <1>11, <1>12, <1>27, <1>29, <1>32, <1>35, <1>37 DEF WasCut, SoFar

-----------------------------------------------------------------------------
(* CodeBuilder: new nodes.                                                 *)

LinksGrown(s, r) ==
    /\ r \in StateRec /\ Len(s.node) <= Len(r.node)
    /\ r.first = s.first /\ r.last = s.last /\ r.cursor = s.cursor /\ r.order = s.order
    /\ r.rest = s.rest
    /\ \A m \in 1..Len(s.node) :
          r.node[m].next = s.node[m].next /\ r.node[m].prev = s.node[m].prev
    /\ \A m \in 1..Len(r.node) : m \notin 1..Len(s.node) => r.node[m].next = 0 /\ r.node[m].prev = 0

LEMMA GrownChained ==
    ASSUME NEW s, NEW r, Chained(s), LinksGrown(s, r)
    PROVE  /\ Chained(r)
           /\ \A m \in 1..Len(r.node) : m \notin 1..Len(s.node) => Loose(r, m)
           /\ \A m : Loose(s, m) => Loose(r, m)
<1>1. /\ r \in StateRec /\ Len(s.node) <= Len(r.node)
      /\ r.first = s.first /\ r.last = s.last /\ r.order = s.order /\ r.rest = s.rest
      /\ \A m \in 1..Len(s.node) :
            r.node[m].next = s.node[m].next /\ r.node[m].prev = s.node[m].prev
      /\ \A m \in 1..Len(r.node) : m \notin 1..Len(s.node) => r.node[m].next = 0 /\ r.node[m].prev = 0
  BY ONLY LinksGrown(s, r) DEF LinksGrown
<1>2. /\ s \in StateRec
      /\ \A m \in In(s.order) : m \in 1..Len(s.node) /\ m \notin In(s.rest)
      /\ \A m \in In(s.rest) : m \in 1..Len(s.node)
      /\ Once(s.order) /\ Once(s.rest)
      /\ LinkedAs(s, s.order)
      /\ \A m : Loose(s, m) => Nx(s, m) = 0 /\ Pv(s, m) = 0
      /\ \A k \in 1..Len(s.rest) : k + 1 \in 1..Len(s.rest) => Nx(s, s.rest[k]) = s.rest[k + 1]
  BY ONLY Chained(s) DEF Chained
<1>3. Len(s.node) \in Nat /\ Len(r.node) \in Nat /\ s.order \in Seq(Pos) /\ s.rest \in Seq(Pos)
  BY ONLY <1>1, <1>2, StateRecIs
<1>4. \A m \in 1..Len(s.node) : m \in 1..Len(r.node) /\ m # 0
  BY ONLY <1>1, <1>3
<1>5. \A m : m = 0 \/ m \in 1..Len(s.node) => Nx(r, m) = Nx(s, m) /\ Pv(r, m) = Pv(s, m)
  BY ONLY <1>1 DEF Nx, Pv
<1>6. \A k : At(s.order, k) = 0 \/ At(s.order, k) \in 1..Len(s.node)
  BY ONLY <1>2, <1>3, AtIs
<1>7. LinkedAs(r, r.order)
  BY ONLY <1>1, <1>2, <1>5, <1>6 DEF LinkedAs
<1>8. ASSUME NEW m, Loose(r, m)
      PROVE  Nx(r, m) = 0 /\ Pv(r, m) = 0
  <2>1. m \in 1..Len(r.node) /\ m # 0
    BY ONLY <1>3, <1>8 DEF Loose
  <2>2. CASE m \in 1..Len(s.node)
    BY ONLY <1>1, <1>2, <1>5, <1>8, <2>2 DEF Loose
  <2>3. CASE m \notin 1..Len(s.node)
    BY ONLY <1>1, <2>1, <2>3 DEF Nx, Pv
  <2>. QED  BY ONLY <2>2, <2>3
<1>9. \A k \in 1..Len(s.rest) : s.rest[k] \in 1..Len(s.node)
  BY ONLY <1>2, <1>3, AtIs
<1>10. \A k \in 1..Len(s.rest) : k + 1 \in 1..Len(s.rest) => Nx(r, s.rest[k]) = s.rest[k + 1]
  BY ONLY <1>2, <1>5, <1>9
<1>11. Chained(r)
  BY ONLY <1>1, <1>2, <1>4, <1>7, <1>8, <1>10 DEF Chained
<1>12. \A m \in 1..Len(r.node) : m \notin 1..Len(s.node) => Loose(r, m)
  BY ONLY <1>1, <1>2 DEF Loose
<1>13. \A m : Loose(s, m) => Loose(r, m)
  BY ONLY <1>1, <1>4 DEF Loose
<1>. QED  BY ONLY <1>11, <1>12, <1>13

\* The other nodes are as they were, and the new ones say nothing.
Grown(s, r) ==
    /\ r \in StateRec /\ Len(s.node) <= Len(r.node)
    /\ r.first = s.first /\ r.last = s.last /\ r.cursor = s.cursor /\ r.order = s.order
    /\ r.rest = s.rest
    /\ \A m \in 1..Len(s.node) : r.node[m] = s.node[m]
    /\ \A m \in 1..Len(r.node) : m \notin 1..Len(s.node) =>
          /\ r.node[m].next = 0 /\ r.node[m].prev = 0 /\ r.node[m].target = 0
          /\ r.node[m].from = 0 /\ r.node[m].numRefs = 0

LEMMA GrownSoFar ==
    ASSUME NEW s, NEW r, SoFar(s), Grown(s, r)
    PROVE  /\ SoFar(r)
           /\ \A m \in 1..Len(r.node) : m \notin 1..Len(s.node) => Loose(r, m)
           /\ \A m : Loose(s, m) => Loose(r, m)
<1>1. /\ r \in StateRec /\ Len(s.node) <= Len(r.node) /\ r.order = s.order /\ r.rest = s.rest
      /\ \A m \in 1..Len(s.node) : r.node[m] = s.node[m]
      /\ \A m \in 1..Len(r.node) : m \notin 1..Len(s.node) =>
            /\ r.node[m].target = 0 /\ r.node[m].from = 0 /\ r.node[m].numRefs = 0
  BY ONLY Grown(s, r) DEF Grown
<1>2. LinksGrown(s, r)
  BY ONLY Grown(s, r) DEF Grown, LinksGrown
<1>3. Chained(s) /\ JumpsOK(s, There(s))
  BY ONLY SoFar(s) DEF SoFar
<1>4. /\ Chained(r)
      /\ \A m \in 1..Len(r.node) : m \notin 1..Len(s.node) => Loose(r, m)
      /\ \A m : Loose(s, m) => Loose(r, m)
  BY ONLY <1>2, <1>3, GrownChained
<1>5. PICK T : T = There(s)
  OBVIOUS
<1>6. /\ s \in StateRec
      /\ \A m \in T : m \in 1..Len(s.node)
      /\ \A m \in 1..Len(s.node) : /\ s.node[m].target \in 0..Len(s.node)
                                   /\ s.node[m].target # 0 => s.node[m].kind = "jump"
      /\ \A l \in 1..Len(s.node) : /\ Listed(s, JumpsTo(s, T, l), l)
                                   /\ s.node[l].numRefs = Cardinality(JumpsTo(s, T, l))
  BY ONLY <1>3, <1>5 DEF JumpsOK
<1>7. PICK M \in Nat, N \in Nat : M = Len(s.node) /\ N = Len(r.node)
  BY ONLY <1>1, <1>6, StateRecIs
<1>8. \A m \in 1..N : /\ r.node[m].target \in 0..N
                      /\ r.node[m].target # 0 => r.node[m].kind = "jump"
  <2>1. \A x \in 0..M : x \in 0..N
    BY ONLY <1>1, <1>7, M \in Nat, N \in Nat
  <2>2. 0 \in 0..N
    BY ONLY N \in Nat
  <2>. QED  BY ONLY <1>1, <1>6, <1>7, <2>1, <2>2
<1>9. ASSUME NEW l \in 1..N
      PROVE  Listed(r, JumpsTo(r, T, l), l) /\ r.node[l].numRefs = Cardinality(JumpsTo(r, T, l))
  <2>1. CASE l \in 1..M
    <3>1. PICK J : J = JumpsTo(s, T, l)
      OBVIOUS
    <3>2. JumpsTo(r, T, l) = J /\ \A j \in J : j \in 1..M
      BY ONLY <1>1, <1>6, <1>7, <3>1 DEF JumpsTo
    <3>3. Listed(s, J, l) /\ s.node[l].numRefs = Cardinality(J)
      BY ONLY <1>6, <1>7, <2>1, <3>1
    <3>4. Listed(r, J, l)
      BY ONLY <1>1, <1>7, <2>1, <3>2, <3>3 DEF Listed
    <3>. QED  BY ONLY <1>1, <1>7, <2>1, <3>2, <3>3, <3>4
  <2>2. CASE l \notin 1..M
    <3>1. l \notin 0..M
      BY ONLY <2>2, M \in Nat, N \in Nat, l \in 1..N
    <3>2. JumpsTo(r, T, l) = {}
      BY ONLY <1>1, <1>6, <1>7, <3>1 DEF JumpsTo
    <3>3. Listed(r, {}, l)
      BY ONLY <1>1, <1>7, <2>2, l \in 1..N DEF Listed, Newest
    <3>4. Cardinality({}) = 0
      BY ONLY FS_EmptySet
    <3>. QED  BY ONLY <1>1, <1>7, <2>2, <3>2, <3>3, <3>4, l \in 1..N
  <2>. QED  BY ONLY <2>1, <2>2
<1>10. \A m \in T : m \in 1..N
  BY ONLY <1>1, <1>6, <1>7, M \in Nat, N \in Nat
<1>11. JumpsOK(r, T) /\ There(r) = T
  BY ONLY <1>1, <1>5, <1>7, <1>8, <1>9, <1>10 DEF JumpsOK, There
<1>. QED  BY ONLY <1>4, <1>11 DEF SoFar

\* A jump to l is made, which is the newest.
JumpMade(s, r, l) ==
    LET n == Len(s.node) + 1 IN
    /\ r \in StateRec /\ Len(r.node) = n /\ l \in 1..Len(s.node)
    /\ r.first = s.first /\ r.last = s.last /\ r.cursor = s.cursor /\ r.order = s.order
    /\ r.rest = s.rest
    /\ \A m \in 1..Len(s.node) :
          /\ r.node[m].kind = s.node[m].kind /\ r.node[m].target = s.node[m].target
          /\ r.node[m].next = s.node[m].next /\ r.node[m].prev = s.node[m].prev
          /\ r.node[m].jumpNext = s.node[m].jumpNext
          /\ m # l => r.node[m].from = s.node[m].from /\ r.node[m].numRefs = s.node[m].numRefs
    /\ r.node[l].from = n /\ r.node[l].numRefs = s.node[l].numRefs + 1
    /\ r.node[n].kind = "jump" /\ r.node[n].next = 0 /\ r.node[n].prev = 0
    /\ r.node[n].target = l /\ r.node[n].jumpNext = s.node[l].from
    /\ r.node[n].from = 0 /\ r.node[n].numRefs = 0

LEMMA JumpMadeOK ==
    ASSUME NEW s, NEW r, NEW l, SoFar(s), JumpMade(s, r, l)
    PROVE  /\ Chained(r) /\ Loose(r, Len(r.node)) /\ JumpsOK(r, There(s) \cup {Len(r.node)})
           /\ \A m : Loose(s, m) => Loose(r, m) /\ m # Len(r.node)
<1>1. Chained(s) /\ JumpsOK(s, There(s))
  BY ONLY SoFar(s) DEF SoFar
<1>2. PICK T : T = There(s)
  OBVIOUS
<1>3. /\ s \in StateRec
      /\ \A m \in T : m \in 1..Len(s.node)
      /\ \A m \in 1..Len(s.node) : /\ s.node[m].target \in 0..Len(s.node)
                                   /\ s.node[m].target # 0 => s.node[m].kind = "jump"
      /\ \A k \in 1..Len(s.node) : /\ Listed(s, JumpsTo(s, T, k), k)
                                   /\ s.node[k].numRefs = Cardinality(JumpsTo(s, T, k))
  BY ONLY <1>1, <1>2 DEF JumpsOK
<1>4. PICK M \in Nat : M = Len(s.node)
  BY ONLY <1>3, StateRecIs
<1>5. PICK n \in Nat : n = M + 1
  BY ONLY M \in Nat
<1>6. /\ r \in StateRec /\ Len(r.node) = n /\ l \in 1..M
      /\ r.first = s.first /\ r.last = s.last /\ r.cursor = s.cursor /\ r.order = s.order
      /\ r.rest = s.rest
      /\ \A m \in 1..M :
            /\ r.node[m].kind = s.node[m].kind /\ r.node[m].target = s.node[m].target
            /\ r.node[m].next = s.node[m].next /\ r.node[m].prev = s.node[m].prev
            /\ r.node[m].jumpNext = s.node[m].jumpNext
            /\ m # l => r.node[m].from = s.node[m].from /\ r.node[m].numRefs = s.node[m].numRefs
      /\ r.node[l].from = n /\ r.node[l].numRefs = s.node[l].numRefs + 1
      /\ r.node[n].kind = "jump" /\ r.node[n].next = 0 /\ r.node[n].prev = 0
      /\ r.node[n].target = l /\ r.node[n].jumpNext = s.node[l].from
      /\ r.node[n].from = 0 /\ r.node[n].numRefs = 0
  BY ONLY <1>4, <1>5, JumpMade(s, r, l) DEF JumpMade
<1>7. /\ \A m \in 1..n : m \in 1..M \/ m = n
      /\ \A m \in 1..M : m \in 1..n /\ m # n /\ m < n
      /\ n \in 1..n /\ n \notin 1..M /\ M <= n /\ \A x \in 0..M : x \in 0..n /\ x # n
  BY ONLY <1>5, M \in Nat, n \in Nat
<1>8. LinksGrown(s, r)
  BY ONLY <1>4, <1>6, <1>7 DEF LinksGrown
<1>9. /\ Chained(r)
      /\ \A m \in 1..Len(r.node) : m \notin 1..Len(s.node) => Loose(r, m)
      /\ \A m : Loose(s, m) => Loose(r, m)
  BY ONLY <1>1, <1>8, GrownChained
<1>10. Loose(r, n) /\ \A m : Loose(s, m) => m # n
  BY ONLY <1>4, <1>6, <1>7, <1>9 DEF Loose
<1>11. \A m \in T : m \in 1..M
  BY ONLY <1>3, <1>4
<1>12. \A m \in 1..n : /\ r.node[m].target \in 0..n
                       /\ r.node[m].target # 0 => r.node[m].kind = "jump"
  <2>1. l \in 0..n
    BY ONLY <1>6, <1>7, n \in Nat, M \in Nat
  <2>2. \A m \in 1..M : /\ s.node[m].target \in 0..M
                        /\ s.node[m].target # 0 => s.node[m].kind = "jump"
    BY ONLY <1>3, <1>4
  <2>3. ASSUME NEW m \in 1..n
        PROVE  r.node[m].target \in 0..n /\ (r.node[m].target # 0 => r.node[m].kind = "jump")
    <3>1. CASE m \in 1..M
      <4>1. r.node[m].target = s.node[m].target /\ r.node[m].kind = s.node[m].kind
        BY ONLY <1>6, <3>1
      <4>. QED  BY ONLY <1>7, <2>2, <3>1, <4>1
    <3>2. CASE m = n
      BY ONLY <1>6, <2>1, <3>2
    <3>. QED  BY ONLY <1>7, <3>1, <3>2, m \in 1..n
  <2>. QED  BY ONLY <2>3
<1>13. PICK U : U = T \cup {n}
  OBVIOUS
<1>14. ASSUME NEW k \in 1..n
       PROVE  Listed(r, JumpsTo(r, U, k), k) /\ r.node[k].numRefs = Cardinality(JumpsTo(r, U, k))
  <2>1. PICK J : J = JumpsTo(s, T, k)
    OBVIOUS
  <2>2. J \in SUBSET (1..M) /\ n \notin J
    BY ONLY <1>7, <1>11, <2>1 DEF JumpsTo
  <2>3. IsFiniteSet(J)
    <3>1. IsFiniteSet(1..M)
      BY ONLY FS_Interval, M \in Nat
    <3>. QED  BY ONLY <2>2, <3>1, FS_Subset
  <2>4. CASE k = n
    <3>1. JumpsTo(r, U, k) = {}
      BY ONLY <1>3, <1>4, <1>6, <1>7, <1>11, <1>13, <2>4 DEF JumpsTo
    <3>2. Listed(r, {}, k)
      BY ONLY <1>6, <2>4 DEF Listed, Newest
    <3>3. Cardinality({}) = 0
      BY ONLY FS_EmptySet
    <3>. QED  BY ONLY <1>6, <2>4, <3>1, <3>2, <3>3
  <2>5. CASE k \in 1..M /\ k # l
    <3>1. JumpsTo(r, U, k) = J
      BY ONLY <1>6, <1>11, <1>13, <2>1, <2>5 DEF JumpsTo
    <3>2. Listed(s, J, k) /\ s.node[k].numRefs = Cardinality(J)
      BY ONLY <1>3, <1>4, <2>1, <2>5
    <3>3. Listed(r, J, k)
      BY ONLY <1>6, <2>2, <2>5, <3>2 DEF Listed
    <3>. QED  BY ONLY <1>6, <2>5, <3>1, <3>2, <3>3
  <2>6. CASE k = l
    <3>1. JumpsTo(r, U, k) = J \cup {n}
      BY ONLY <1>6, <1>11, <1>13, <2>1, <2>6 DEF JumpsTo
    <3>2. Listed(s, J, l) /\ s.node[l].numRefs = Cardinality(J)
      BY ONLY <1>3, <1>4, <1>6, <2>1, <2>6
    <3>3. Newest(n, J \cup {n})
      <4>1. \A j \in J \cup {n} : j <= n
        BY ONLY <1>7, <2>2, n \in Nat, M \in Nat
      <4>. QED  BY ONLY <4>1 DEF Newest
    <3>4. ASSUME NEW j \in J \cup {n}
          PROVE  Newest(r.node[j].jumpNext, Older(J \cup {n}, j))
      <4>1. CASE j = n
        <5>1. Older(J \cup {n}, n) = J
          <6>1. ~(n < n) /\ \A i \in J : i < n
            BY ONLY <1>7, <2>2, n \in Nat
          <6>. QED  BY ONLY <6>1 DEF Older
        <5>2. Newest(s.node[l].from, J)
          BY ONLY <3>2 DEF Listed
        <5>. QED  BY ONLY <1>6, <4>1, <5>1, <5>2
      <4>2. CASE j \in J
        <5>1. Older(J \cup {n}, j) = Older(J, j)
          <6>1. ~(n < j)
            BY ONLY <2>2, <4>2, <1>5, M \in Nat, n \in Nat
          <6>. QED  BY ONLY <6>1 DEF Older
        <5>2. Newest(s.node[j].jumpNext, Older(J, j))
          BY ONLY <3>2, <4>2 DEF Listed
        <5>3. r.node[j].jumpNext = s.node[j].jumpNext
          BY ONLY <1>6, <2>2, <4>2
        <5>. QED  BY ONLY <5>1, <5>2, <5>3
      <4>. QED  BY ONLY <4>1, <4>2, j \in J \cup {n}
    <3>5. Listed(r, J \cup {n}, l)
      BY ONLY <1>6, <3>3, <3>4 DEF Listed
    <3>6. Cardinality(J \cup {n}) = Cardinality(J) + 1
      BY ONLY <2>2, <2>3, FS_AddElement
    <3>. QED  BY ONLY <1>6, <2>6, <3>1, <3>2, <3>5, <3>6
  <2>. QED  BY ONLY <1>7, <2>4, <2>5, <2>6, k \in 1..n
<1>15. \A m \in U : m \in 1..n
  BY ONLY <1>7, <1>11, <1>13
<1>16. JumpsOK(r, U)
  BY ONLY <1>6, <1>12, <1>14, <1>15 DEF JumpsOK
<1>. QED  BY ONLY <1>2, <1>6, <1>9, <1>10, <1>13, <1>16

-----------------------------------------------------------------------------
(* CodeBuilder: the inductive invariant.                                   *)

FuncOK(s, f) == f \in Nat /\ (f # 0 => f + 2 \in In(s.order) /\ s.node[f + 2].kind = "end")
PoolOK(s, c) == c \in Nat /\ (c # 0 => Loose(s, c) /\ s.node[c].kind = "pool")

RemovalOK(s, rm) ==
    /\ rm.node = IF s.rest = << >> THEN 0 ELSE s.rest[1]
    /\ s.rest # << >> => rm.last = s.rest[Len(s.rest)] /\ rm.prev \in {0} \cup In(s.order)

WalkOK(s, wk) ==
    /\ wk.node \in {0} \cup In(s.order)
    /\ wk.node # 0 => s.node[wk.node].kind # "end"

\* rm is the removal under way, wk the walk, f the function and c its constants.
GoodList(s, rm, wk, f, c) ==
    /\ SoFar(s) /\ s.cursor \in {0} \cup There(s)
    /\ RemovalOK(s, rm) /\ WalkOK(s, wk) /\ (rm.node = 0 \/ wk.node = 0)
    /\ FuncOK(s, f) /\ PoolOK(s, c)

LEMMA RestIsEmpty ==
    ASSUME NEW s, NEW rm, NEW wk, NEW f, NEW c, GoodList(s, rm, wk, f, c), rm.node = 0
    PROVE  /\ SoFar(s) /\ s \in StateRec /\ s.rest = << >> /\ In(s.rest) = {}
           /\ s.cursor \in {0} \cup In(s.order)
           /\ \A m \in In(s.order) : m \in 1..Len(s.node)
           /\ 0 \notin In(s.order) /\ Len(s.node) \in Nat
<1>1. SoFar(s) /\ s.cursor \in {0} \cup There(s) /\ RemovalOK(s, rm)
  BY ONLY GoodList(s, rm, wk, f, c) DEF GoodList
<1>2. s \in StateRec /\ \A m \in In(s.order) : m \in 1..Len(s.node)
  BY ONLY <1>1 DEF SoFar, Chained
<1>3. s.rest \in Seq(Pos) /\ s.order \in Seq(Pos) /\ Len(s.node) \in Nat
  BY ONLY <1>2, StateRecIs
<1>4. s.rest = << >>
  <2>1. ASSUME s.rest # << >>
        PROVE  FALSE
    <3>1. s.rest[1] = 0
      BY ONLY <1>1, <2>1, rm.node = 0 DEF RemovalOK
    <3>2. 1 \in 1..Len(s.rest)
      BY ONLY <1>3, <2>1, LenProperties, EmptySeq
    <3>3. s.rest[1] \in Pos
      BY ONLY <1>3, <3>2, AtIs
    <3>. QED  BY ONLY <3>1, <3>3, PosIs
  <2>. QED  BY ONLY <2>1
<1>5. In(s.rest) = {}
  BY ONLY <1>4, EmptySeq DEF In
<1>6. 0 \notin In(s.order)
  BY ONLY <1>3, AtIs
<1>. QED  BY ONLY <1>1, <1>2, <1>3, <1>4, <1>5, <1>6 DEF There

SameKinds(s, r) ==
    \A m \in 1..Len(s.node) : m \in 1..Len(r.node) /\ r.node[m].kind = s.node[m].kind

\* The list is at least as long as it was, and nothing is under way.
Grows(s, r, rm, wk, f, c, g, d) ==
    /\ GoodList(s, rm, wk, f, c) /\ rm.node = 0 /\ wk.node = 0
    /\ SoFar(r) /\ r.rest = s.rest /\ SameKinds(s, r)
    /\ \A m \in In(s.order) : m \in In(r.order)
    /\ r.cursor \in {0} \cup In(r.order)
    /\ g = f \/ FuncOK(r, g)
    /\ (d = c /\ (d # 0 => Loose(r, d))) \/ PoolOK(r, d)

LEMMA GrowsGood ==
    ASSUME NEW s, NEW r, NEW rm, NEW wk, NEW f, NEW c, NEW g, NEW d, Grows(s, r, rm, wk, f, c, g, d)
    PROVE  GoodList(r, rm, wk, g, d)
<1>1. /\ GoodList(s, rm, wk, f, c) /\ rm.node = 0 /\ wk.node = 0
      /\ SoFar(r) /\ r.rest = s.rest /\ SameKinds(s, r)
      /\ \A m \in In(s.order) : m \in In(r.order)
      /\ r.cursor \in {0} \cup In(r.order)
      /\ g = f \/ FuncOK(r, g)
      /\ (d = c /\ (d # 0 => Loose(r, d))) \/ PoolOK(r, d)
  BY ONLY Grows(s, r, rm, wk, f, c, g, d) DEF Grows
<1>2. s.rest = << >> /\ \A m \in In(s.order) : m \in 1..Len(s.node)
  BY ONLY <1>1, RestIsEmpty
<1>3. RemovalOK(s, rm) /\ FuncOK(s, f) /\ PoolOK(s, c)
  BY ONLY <1>1 DEF GoodList
<1>4. RemovalOK(r, rm)
  BY ONLY <1>1, <1>2, <1>3 DEF RemovalOK
<1>5. WalkOK(r, wk)
  BY ONLY <1>1 DEF WalkOK
<1>6. FuncOK(r, g)
  <2>1. CASE g = f
    BY ONLY <1>1, <1>2, <1>3, <2>1 DEF FuncOK, SameKinds
  <2>. QED  BY ONLY <1>1, <2>1
<1>7. PoolOK(r, d)
  <2>1. CASE d = c /\ (d # 0 => Loose(r, d))
    BY ONLY <1>1, <1>3, <2>1 DEF PoolOK, SameKinds, Loose
  <2>. QED  BY ONLY <1>1, <2>1
<1>. QED  BY ONLY <1>1, <1>4, <1>5, <1>6, <1>7 DEF GoodList, There

\* A node that has been put in counts.
Counts(s, r, n, T) ==
    /\ Placed(s, r, n) /\ s.rest = << >> /\ JumpsOK(s, T) /\ n \in 1..Len(s.node)
    /\ \A m \in 1..Len(s.node) : s.node[m].target # 0 => (m \in T <=> m = n \/ m \in In(s.order))

LEMMA PlacedSoFar ==
    ASSUME NEW s, NEW r, NEW n, NEW T, Counts(s, r, n, T)
    PROVE  SoFar(r)
<1>1. /\ Placed(s, r, n) /\ s.rest = << >> /\ JumpsOK(s, T) /\ n \in 1..Len(s.node)
      /\ \A m \in 1..Len(s.node) : s.node[m].target # 0 => (m \in T <=> m = n \/ m \in In(s.order))
  BY ONLY Counts(s, r, n, T) DEF Counts
<1>2. /\ Chained(r) /\ SameButLinks(s, r) /\ r.rest = s.rest
      /\ \A m : m \in In(r.order) <=> m = n \/ m \in In(s.order)
  BY ONLY <1>1 DEF Placed
<1>3. In(r.rest) = {}
  BY ONLY <1>1, <1>2, EmptySeq DEF In
<1>4. \A m \in In(r.order) : m \in 1..Len(s.node)
  BY ONLY <1>2 DEF Chained, SameButLinks
<1>5. SameTargets(s, r, T, There(r))
  BY ONLY <1>1, <1>2, <1>3, <1>4 DEF SameTargets, There
<1>. QED  BY ONLY <1>2, <1>5, SameJumps DEF SoFar

\* A node without a target is added to the list.
AddsIt(s, r, n) ==
    /\ SoFar(s) /\ s.rest = << >> /\ Loose(s, n) /\ s.node[n].target = 0
    /\ s.cursor \in {0} \cup In(s.order) /\ r = Builder!AddNode(s, n)

AddedIt(s, r, n) ==
    /\ SoFar(r) /\ r.rest = << >> /\ r.cursor = n /\ SameButLinks(s, r)
    /\ \A m : m \in In(r.order) <=> m = n \/ m \in In(s.order)
    /\ \A m : Loose(s, m) /\ m # n => Loose(r, m)

LEMMA AddNodeAdds ==
    ASSUME NEW s, NEW r, NEW n, AddsIt(s, r, n)
    PROVE  AddedIt(s, r, n)
<1>1. /\ Chained(s) /\ JumpsOK(s, There(s)) /\ s.rest = << >> /\ Loose(s, n) /\ s.node[n].target = 0
      /\ s.cursor \in {0} \cup In(s.order) /\ r = Builder!AddNode(s, n)
  BY ONLY AddsIt(s, r, n) DEF AddsIt, SoFar
<1>2. Placed(s, r, n) /\ r.cursor = n
  BY ONLY <1>1, AddNodePlaces DEF AddsNode
<1>3. /\ SameButLinks(s, r) /\ r.rest = s.rest
      /\ \A m : m \in In(r.order) <=> m = n \/ m \in In(s.order)
  BY ONLY <1>2 DEF Placed
<1>4. In(s.rest) = {}
  BY ONLY <1>1, EmptySeq DEF In
<1>5. Counts(s, r, n, There(s))
  BY ONLY <1>1, <1>2, <1>4 DEF Counts, There, Loose
<1>6. SoFar(r)
  BY ONLY <1>5, PlacedSoFar
<1>7. \A m : Loose(s, m) /\ m # n => Loose(r, m)
  BY ONLY <1>3 DEF Loose, SameButLinks
<1>. QED  BY ONLY <1>1, <1>2, <1>3, <1>6, <1>7 DEF AddedIt

LEMMA SameKindsTwice ==
    ASSUME NEW s, NEW t, NEW r, SameKinds(s, t), SameButLinks(t, r)
    PROVE  SameKinds(s, r)
BY ONLY SameKinds(s, t), SameButLinks(t, r) DEF SameKinds, SameButLinks, SameData

CutsAndGoes(s, r, i, j) ==
    /\ SoFar(s) /\ s.rest = << >> /\ s.cursor \in {0} \cup In(s.order)
    /\ i \in 1..Len(s.order) /\ j \in i..Len(s.order)
    /\ r = Builder!Gone(Builder!Cut(s, i, j), s.order[i], s.node[s.order[i]].prev)

CutAndGone(s, r, i, j) ==
    /\ SoFar(r) /\ Len(r.node) = Len(s.node) /\ SameKinds(s, r)
    /\ r.cursor \in {0} \cup There(r)
    /\ \A m \in In(s.order) : m \in In(r.order) \/ \E k \in i..j : m = s.order[k]
    /\ \A m \in There(r) : m \in In(s.order)
    /\ s.node[s.order[i]].prev \in {0} \cup In(r.order)
    /\ s.node[s.order[j]].next \in {0} \cup In(r.order)
    /\ Len(r.rest) = j - i /\ \A k \in 1..j - i : r.rest[k] = s.order[i + k]

LEMMA CutAndGo ==
    ASSUME NEW s, NEW r, NEW i, NEW j, CutsAndGoes(s, r, i, j)
    PROVE  CutAndGone(s, r, i, j)
<1>1. /\ SoFar(s) /\ s.rest = << >> /\ s.cursor \in {0} \cup In(s.order)
      /\ i \in 1..Len(s.order) /\ j \in i..Len(s.order)
      /\ r = Builder!Gone(Builder!Cut(s, i, j), s.order[i], s.node[s.order[i]].prev)
  BY ONLY CutsAndGoes(s, r, i, j) DEF CutsAndGoes
<1>2. Chained(s) /\ s \in StateRec
  BY ONLY <1>1 DEF SoFar, Chained
<1>3. s.order \in Seq(Pos)
  BY ONLY <1>2, StateRecIs
<1>4. PICK l \in Nat : l = Len(s.order)
  BY ONLY <1>3, LenProperties
<1>5. i \in Nat /\ j \in Nat /\ i \in 1..l /\ j \in 1..l /\ i <= j /\ j \in i..l
  BY ONLY <1>1, <1>4, l \in Nat
<1>6. PICK p, q, n : p = s.node[s.order[i]].prev /\ q = s.node[s.order[j]].next /\ n = s.order[i]
  OBVIOUS
<1>7. p = At(s.order, i - 1) /\ q = At(s.order, j + 1)
  BY ONLY <1>2, <1>4, <1>5, <1>6, Neighbours
<1>8. (p = 0 \/ p \in In(s.order)) /\ (q = 0 \/ q \in In(s.order)) /\ p \in Nat
  BY ONLY <1>3, <1>7, AtIs, PosIs
<1>9. PICK u : u = Builder!Cut(s, i, j)
  OBVIOUS
<1>10. WasCut(s, u, i, j)
  BY ONLY <1>1, <1>9, CutCuts DEF CutsOutOf
<1>11. /\ SoFar(u) /\ SameButLinks(s, u) /\ u.cursor = s.cursor
       /\ \A m : m \in In(s.order) <=> m \in In(u.order) \/ m \in In(u.rest)
       /\ p \notin In(u.rest) /\ q \notin In(u.rest)
       /\ Len(u.rest) = j - i + 1 /\ \A k \in 1..j - i + 1 : u.rest[k] = s.order[i + k - 1]
  BY ONLY <1>7, <1>10 DEF WasCut
<1>12. u \in StateRec /\ Once(u.rest)
  BY ONLY <1>11 DEF SoFar, Chained
<1>13. u.rest \in Seq(Pos)
  BY ONLY <1>12, StateRecIs
<1>14. /\ j - i \in Nat /\ 1 \in 1..j - i + 1 /\ i + 1 - 1 = i /\ j - i + 1 # 0
       /\ \A k \in 1..j - i + 1 : i + k - 1 \in i..j
       /\ \A k \in 1..j - i : k + 1 \in 1..j - i + 1 /\ i + (k + 1) - 1 = i + k
  BY ONLY <1>5
<1>15. u.rest # << >> /\ u.rest[1] = n
  BY ONLY <1>6, <1>11, <1>14, EmptySeq
<1>16. WentAway(u, r, n, p)
  BY ONLY <1>1, <1>6, <1>8, <1>9, <1>11, <1>15, GoneGoes DEF GoesAway
<1>17. /\ SoFar(r) /\ Len(r.node) = Len(u.node) /\ r.order = u.order /\ r.rest = Tail(u.rest)
       /\ r.cursor = (IF u.cursor = n THEN p ELSE u.cursor)
       /\ \A m \in 1..Len(u.node) : r.node[m].kind = u.node[m].kind
  BY ONLY <1>16 DEF WentAway
<1>18. Tailed(u.rest, r.rest)
  BY ONLY <1>12, <1>13, <1>15, <1>17, TailIs DEF Tailing
<1>19. /\ Len(r.rest) = Len(u.rest) - 1
       /\ \A k \in 1..Len(r.rest) : r.rest[k] = u.rest[k + 1]
       /\ \A m : m \in In(r.rest) <=> m \in In(u.rest) /\ m # n
  BY ONLY <1>15, <1>18 DEF Tailed
<1>20. Len(r.node) = Len(s.node) /\ SameKinds(s, r)
  BY ONLY <1>11, <1>17 DEF SameButLinks, SameData, SameKinds
<1>21. p \in {0} \cup In(r.order) /\ q \in {0} \cup In(r.order)
  BY ONLY <1>8, <1>11, <1>17
<1>22. r.cursor \in {0} \cup There(r)
  BY ONLY <1>1, <1>11, <1>17, <1>19, <1>21 DEF There
<1>23. Len(r.rest) = j - i /\ \A k \in 1..j - i : r.rest[k] = s.order[i + k]
  <2>1. Len(r.rest) = j - i
    BY ONLY <1>11, <1>14, <1>19, <1>5
  <2>. QED  BY ONLY <1>11, <1>14, <1>19, <2>1
<1>24. \A m \in There(r) : m \in In(s.order)
  BY ONLY <1>11, <1>17, <1>19 DEF There
<1>25. ASSUME NEW m \in In(s.order), m \notin In(r.order)
       PROVE  \E k \in i..j : m = s.order[k]
  <2>1. m \in In(u.rest)
    BY ONLY <1>11, <1>17, <1>25, m \in In(s.order)
  <2>2. PICK k \in 1..j - i + 1 : u.rest[k] = m
    BY ONLY <1>11, <2>1 DEF In
  <2>3. i + k - 1 \in i..j /\ m = s.order[i + k - 1]
    BY ONLY <1>11, <1>14, <2>2, k \in 1..j - i + 1
  <2>. QED  BY ONLY <2>3
<1>. QED  BY ONLY <1>6, <1>17, <1>20, <1>21, <1>22, <1>23, <1>24, <1>25 DEF CutAndGone

-----------------------------------------------------------------------------
(* CodeBuilder: its steps keep the invariant.                              *)

\* A node that says nothing.
Blank(a) ==
    /\ a \in NodeRec /\ a.next = 0 /\ a.prev = 0 /\ a.target = 0 /\ a.from = 0 /\ a.numRefs = 0

LEMMA NodeIsBlank ==
    ASSUME NEW k, k \in KindNames
    PROVE  Blank(Builder!Node(k)) /\ Builder!Node(k).kind = k
BY ONLY k \in KindNames DEF Blank, Builder!Node, NodeRec

\* New nodes, q, behind the others.
Lengthens(s, r, q) ==
    /\ s \in StateRec /\ q \in Seq(NodeRec) /\ \A k \in 1..Len(q) : Blank(q[k])
    /\ r = [s EXCEPT !.node = s.node \o q]

Lengthened(s, r, q) ==
    /\ Grown(s, r) /\ SameKinds(s, r) /\ Len(r.node) = Len(s.node) + Len(q)
    /\ \A k \in 1..Len(q) : r.node[Len(s.node) + k].kind = q[k].kind

LEMMA LongerIs ==
    ASSUME NEW s, NEW r, NEW q, Lengthens(s, r, q)
    PROVE  Lengthened(s, r, q)
<1>1. /\ s \in StateRec /\ q \in Seq(NodeRec) /\ \A k \in 1..Len(q) : Blank(q[k])
      /\ r = [s EXCEPT !.node = s.node \o q]
  BY ONLY Lengthens(s, r, q) DEF Lengthens
<1>2. s.node \in Seq(NodeRec)
  BY ONLY <1>1, StateRecIs
<1>3. PICK a \in Seq(NodeRec), b \in Seq(NodeRec) : a = s.node /\ b = q
  BY ONLY <1>1, <1>2
<1>4. PICK M \in Nat, K \in Nat : M = Len(a) /\ K = Len(b)
  BY ONLY a \in Seq(NodeRec), b \in Seq(NodeRec), LenProperties
<1>5. /\ a \o b \in Seq(NodeRec) /\ Len(a \o b) = M + K
      /\ \A i \in 1..M + K : (a \o b)[i] = IF i <= M THEN a[i] ELSE b[i - M]
  BY ONLY <1>4, a \in Seq(NodeRec), b \in Seq(NodeRec), ConcatProperties
<1>6. PICK u \in Seq(NodeRec) : u = a \o b
  BY ONLY <1>5
<1>7. Len(u) = M + K /\ \A i \in 1..M + K : u[i] = IF i <= M THEN a[i] ELSE b[i - M]
  BY ONLY <1>5, <1>6
<1>8. r = [s EXCEPT !.node = u]
  BY ONLY <1>1, <1>3, <1>6
<1>9. /\ r \in StateRec /\ r.node = u /\ r.first = s.first /\ r.last = s.last
      /\ r.cursor = s.cursor /\ r.order = s.order /\ r.rest = s.rest
  BY ONLY <1>1, <1>8, u \in Seq(NodeRec) DEF StateRec
<1>10. /\ \A m \in 1..M : m \in 1..M + K /\ m <= M
       /\ \A m \in 1..M + K : m \notin 1..M => m - M \in 1..K /\ ~(m <= M)
       /\ \A k \in 1..K : M + k \in 1..M + K /\ ~(M + k <= M) /\ (M + k) - M = k
       /\ M <= M + K
  BY ONLY M \in Nat, K \in Nat
<1>11. \A m \in 1..M : u[m] = a[m]
  BY ONLY <1>7, <1>10
<1>12. \A m \in 1..M + K : m \notin 1..M => Blank(u[m])
  BY ONLY <1>1, <1>3, <1>4, <1>7, <1>10
<1>13. \A k \in 1..K : u[M + k] = b[k]
  BY ONLY <1>7, <1>10
<1>14. Grown(s, r)
  BY ONLY <1>3, <1>4, <1>7, <1>9, <1>10, <1>11, <1>12 DEF Grown, Blank
<1>15. SameKinds(s, r)
  BY ONLY <1>3, <1>4, <1>7, <1>9, <1>10, <1>11 DEF SameKinds
<1>. QED  BY ONLY <1>3, <1>4, <1>7, <1>9, <1>13, <1>14, <1>15 DEF Lengthened

\* A node of a kind is made.
Makes(s, r, k) ==
    SoFar(s) /\ k \in KindNames /\ r = [s EXCEPT !.node = Append(s.node, Builder!Node(k))]

Made(s, r, k) ==
    LET n == Len(s.node) + 1 IN
    /\ SoFar(r) /\ SameKinds(s, r) /\ Len(r.node) = n /\ n \in Nat
    /\ r.node[n].kind = k /\ r.node[n].target = 0 /\ Loose(r, n)
    /\ \A m : Loose(s, m) => Loose(r, m) /\ m # n
    /\ r.order = s.order /\ r.rest = s.rest /\ r.cursor = s.cursor

LEMMA MadeIs ==
    ASSUME NEW s, NEW r, NEW k, Makes(s, r, k)
    PROVE  Made(s, r, k)
<1>1. SoFar(s) /\ k \in KindNames /\ r = [s EXCEPT !.node = Append(s.node, Builder!Node(k))]
  BY ONLY Makes(s, r, k) DEF Makes
<1>2. s \in StateRec
  BY ONLY <1>1 DEF SoFar, Chained
<1>3. PICK a \in Seq(NodeRec), M \in Nat : a = s.node /\ M = Len(a)
  BY ONLY <1>2, StateRecIs
<1>4. PICK x \in NodeRec : x = Builder!Node(k) /\ Blank(x) /\ x.kind = k
  BY ONLY <1>1, NodeIsBlank DEF Blank
<1>5. PICK q : q = <<x>>
  OBVIOUS
<1>6. /\ q \in Seq(NodeRec) /\ Len(q) = 1 /\ q[1] = x /\ \A i \in 1..Len(q) : i = 1
      /\ Append(a, x) = a \o q /\ 1 \in 1..Len(q)
  BY ONLY <1>5, x \in NodeRec, a \in Seq(NodeRec)
<1>7. Lengthens(s, r, q)
  BY ONLY <1>1, <1>2, <1>3, <1>4, <1>6 DEF Lengthens
<1>8. Lengthened(s, r, q)
  BY ONLY <1>7, LongerIs
<1>9. PICK n \in Nat : n = M + 1
  BY ONLY M \in Nat
<1>10. /\ Grown(s, r) /\ SameKinds(s, r) /\ Len(r.node) = n /\ r.node[n].kind = k
       /\ n \in 1..n /\ n \notin 1..M
  BY ONLY <1>3, <1>4, <1>6, <1>8, <1>9, M \in Nat DEF Lengthened
<1>11. r.order = s.order /\ r.rest = s.rest /\ r.cursor = s.cursor /\ r.node[n].target = 0
  BY ONLY <1>3, <1>10 DEF Grown
<1>12. /\ SoFar(r) /\ Loose(r, n) /\ \A m : Loose(s, m) => Loose(r, m)
  BY ONLY <1>1, <1>3, <1>10, GrownSoFar
<1>13. \A m : Loose(s, m) => m # n
  BY ONLY <1>3, <1>10 DEF Loose
<1>. QED  BY ONLY <1>3, <1>9, <1>10, <1>11, <1>12, <1>13 DEF Made

-----------------------------------------------------------------------------
Idles(s, rm, wk, f, c) == GoodList(s, rm, wk, f, c) /\ rm.node = 0 /\ wk.node = 0

\* t is s with new nodes perhaps, r is t with one of the nodes put in.
AddsTo(s, t, r, n, rm, wk, f, c) ==
    /\ Idles(s, rm, wk, f, c) /\ SoFar(t) /\ SameKinds(s, t)
    /\ t.order = s.order /\ t.rest = s.rest /\ t.cursor = s.cursor
    /\ Loose(t, n) /\ t.node[n].target = 0
    /\ c # 0 => Loose(t, c) /\ c # n
    /\ r = Builder!AddNode(t, n)

LEMMA AddsToGood ==
    ASSUME NEW s, NEW t, NEW r, NEW n, NEW rm, NEW wk, NEW f, NEW c,
           AddsTo(s, t, r, n, rm, wk, f, c)
    PROVE  GoodList(r, rm, wk, f, c)
<1>1. /\ GoodList(s, rm, wk, f, c) /\ rm.node = 0 /\ wk.node = 0 /\ SoFar(t) /\ SameKinds(s, t)
      /\ t.order = s.order /\ t.rest = s.rest /\ t.cursor = s.cursor
      /\ Loose(t, n) /\ t.node[n].target = 0
      /\ c # 0 => Loose(t, c) /\ c # n
      /\ r = Builder!AddNode(t, n)
  BY ONLY AddsTo(s, t, r, n, rm, wk, f, c) DEF AddsTo, Idles
<1>2. s.rest = << >> /\ s.cursor \in {0} \cup In(s.order)
  BY ONLY <1>1, RestIsEmpty
<1>3. AddsIt(t, r, n)
  BY ONLY <1>1, <1>2 DEF AddsIt
<1>4. AddedIt(t, r, n)
  BY ONLY <1>3, AddNodeAdds
<1>5. /\ SoFar(r) /\ r.rest = << >> /\ r.cursor = n /\ SameButLinks(t, r)
      /\ \A m : m \in In(r.order) <=> m = n \/ m \in In(t.order)
      /\ \A m : Loose(t, m) /\ m # n => Loose(r, m)
  BY ONLY <1>4 DEF AddedIt
<1>6. SameKinds(s, r)
  BY ONLY <1>1, <1>5, SameKindsTwice
<1>7. Grows(s, r, rm, wk, f, c, f, c)
  BY ONLY <1>1, <1>2, <1>5, <1>6 DEF Grows
<1>. QED  BY ONLY <1>7, GrowsGood

LEMMA NoKindChanges == ASSUME NEW s PROVE SameKinds(s, s)
BY DEF SameKinds

\* embed.
Emits(s, r, k, rm, wk, f, c) ==
    /\ Idles(s, rm, wk, f, c) /\ k \in KindNames
    /\ r = Builder!AddNode([s EXCEPT !.node = Append(s.node, Builder!Node(k))], Len(s.node) + 1)

LEMMA EmitGood ==
    ASSUME NEW s, NEW r, NEW k, NEW rm, NEW wk, NEW f, NEW c, Emits(s, r, k, rm, wk, f, c)
    PROVE  GoodList(r, rm, wk, f, c)
<1>1. /\ Idles(s, rm, wk, f, c) /\ k \in KindNames
      /\ r = Builder!AddNode([s EXCEPT !.node = Append(s.node, Builder!Node(k))], Len(s.node) + 1)
  BY ONLY Emits(s, r, k, rm, wk, f, c) DEF Emits
<1>2. SoFar(s) /\ PoolOK(s, c)
  BY ONLY <1>1 DEF Idles, GoodList
<1>3. PICK t : t = [s EXCEPT !.node = Append(s.node, Builder!Node(k))]
  OBVIOUS
<1>4. Made(s, t, k)
  BY ONLY <1>1, <1>2, <1>3, MadeIs DEF Makes
<1>5. AddsTo(s, t, r, Len(s.node) + 1, rm, wk, f, c)
  BY ONLY <1>1, <1>2, <1>3, <1>4 DEF Made, AddsTo, PoolOK
<1>. QED  BY ONLY <1>5, AddsToGood

\* newLabel and _newConst.
MakesOnly(s, r, k, rm, wk, f, c, d) ==
    /\ Idles(s, rm, wk, f, c) /\ k \in KindNames
    /\ r = [s EXCEPT !.node = Append(s.node, Builder!Node(k))]
    /\ d = c \/ (k = "pool" /\ d = Len(s.node) + 1)

LEMMA MakesGood ==
    ASSUME NEW s, NEW r, NEW k, NEW rm, NEW wk, NEW f, NEW c, NEW d,
           MakesOnly(s, r, k, rm, wk, f, c, d)
    PROVE  GoodList(r, rm, wk, f, d)
<1>1. /\ GoodList(s, rm, wk, f, c) /\ rm.node = 0 /\ wk.node = 0 /\ k \in KindNames
      /\ r = [s EXCEPT !.node = Append(s.node, Builder!Node(k))]
      /\ d = c \/ (k = "pool" /\ d = Len(s.node) + 1)
  BY ONLY MakesOnly(s, r, k, rm, wk, f, c, d) DEF MakesOnly, Idles
<1>2. SoFar(s) /\ PoolOK(s, c)
  BY ONLY <1>1 DEF GoodList
<1>3. Made(s, r, k)
  BY ONLY <1>1, <1>2, MadeIs DEF Makes
<1>4. LET n == Len(s.node) + 1 IN
      /\ SoFar(r) /\ SameKinds(s, r) /\ n \in Nat
      /\ r.node[n].kind = k /\ Loose(r, n) /\ \A m : Loose(s, m) => Loose(r, m)
      /\ r.order = s.order /\ r.rest = s.rest /\ r.cursor = s.cursor
  BY ONLY <1>3 DEF Made
<1>5. s.cursor \in {0} \cup In(s.order)
  BY ONLY <1>1, RestIsEmpty
<1>6. (d = c /\ (d # 0 => Loose(r, d))) \/ PoolOK(r, d)
  BY ONLY <1>1, <1>2, <1>4 DEF PoolOK
<1>7. Grows(s, r, rm, wk, f, c, f, d)
  BY ONLY <1>1, <1>4, <1>5, <1>6 DEF Grows
<1>. QED  BY ONLY <1>7, GrowsGood

\* bind.
Binds(s, r, n, rm, wk, f, c) ==
    /\ Idles(s, rm, wk, f, c) /\ n \in 1..Len(s.node) /\ n \notin In(s.order)
    /\ s.node[n].kind = "label" /\ r = Builder!AddNode(s, n)

LEMMA BindGood ==
    ASSUME NEW s, NEW r, NEW n, NEW rm, NEW wk, NEW f, NEW c, Binds(s, r, n, rm, wk, f, c)
    PROVE  GoodList(r, rm, wk, f, c)
<1>1. /\ Idles(s, rm, wk, f, c) /\ n \in 1..Len(s.node) /\ n \notin In(s.order)
      /\ s.node[n].kind = "label" /\ r = Builder!AddNode(s, n)
  BY ONLY Binds(s, r, n, rm, wk, f, c) DEF Binds
<1>2. SoFar(s) /\ PoolOK(s, c) /\ In(s.rest) = {}
  BY ONLY <1>1, RestIsEmpty DEF Idles, GoodList
<1>3. Loose(s, n)
  BY ONLY <1>1, <1>2 DEF Loose
<1>4. s.node[n].target = 0
  BY ONLY <1>1, <1>2 DEF SoFar, JumpsOK
<1>5. c # 0 => Loose(s, c) /\ c # n
  BY ONLY <1>1, <1>2 DEF PoolOK
<1>6. AddsTo(s, s, r, n, rm, wk, f, c)
  BY ONLY <1>1, <1>2, <1>3, <1>4, <1>5, NoKindChanges DEF AddsTo
<1>. QED  BY ONLY <1>6, AddsToGood

\* addAfter and addBefore of a node that was removed.
PutsBack(s, r, n, ref, rm, wk, f, c) ==
    /\ Idles(s, rm, wk, f, c) /\ n \in 1..Len(s.node) /\ n \notin In(s.order)
    /\ s.node[n].kind \in {"inst", "data"} /\ ref \in In(s.order)
    /\ r = Builder!AddAfter(s, n, ref) \/ r = Builder!AddBefore(s, n, ref)

LEMMA PutBackGood ==
    ASSUME NEW s, NEW r, NEW n, NEW ref, NEW rm, NEW wk, NEW f, NEW c,
           PutsBack(s, r, n, ref, rm, wk, f, c)
    PROVE  GoodList(r, rm, wk, f, c)
<1>1. /\ GoodList(s, rm, wk, f, c) /\ rm.node = 0 /\ wk.node = 0
      /\ n \in 1..Len(s.node) /\ n \notin In(s.order)
      /\ s.node[n].kind \in {"inst", "data"} /\ ref \in In(s.order)
      /\ r = Builder!AddAfter(s, n, ref) \/ r = Builder!AddBefore(s, n, ref)
  BY ONLY PutsBack(s, r, n, ref, rm, wk, f, c) DEF PutsBack, Idles
<1>2. /\ SoFar(s) /\ PoolOK(s, c) /\ s.rest = << >> /\ In(s.rest) = {}
      /\ s.cursor \in {0} \cup In(s.order)
  BY ONLY <1>1, RestIsEmpty DEF GoodList
<1>3. Chained(s) /\ JumpsOK(s, There(s))
  BY ONLY <1>2 DEF SoFar
<1>4. Loose(s, n)
  BY ONLY <1>1, <1>2 DEF Loose
<1>5. s.node[n].target = 0
  BY ONLY <1>1, <1>3 DEF JumpsOK
<1>6. c # 0 => Loose(s, c) /\ c # n
  BY ONLY <1>1, <1>2 DEF PoolOK
<1>7. Placed(s, r, n) /\ r.cursor = s.cursor
  BY ONLY <1>1, <1>3, <1>4, AddingPlaces DEF Adding
<1>8. Counts(s, r, n, There(s))
  BY ONLY <1>1, <1>2, <1>3, <1>5, <1>7 DEF Counts, There
<1>9. SoFar(r)
  BY ONLY <1>8, PlacedSoFar
<1>10. /\ SameButLinks(s, r) /\ r.rest = s.rest
       /\ \A m : m \in In(r.order) <=> m = n \/ m \in In(s.order)
  BY ONLY <1>7 DEF Placed
<1>11. SameKinds(s, r)
  BY ONLY <1>10, SameKindsTwice, NoKindChanges
<1>12. c # 0 => Loose(r, c)
  BY ONLY <1>6, <1>10 DEF Loose, SameButLinks
<1>13. Grows(s, r, rm, wk, f, c, f, c)
  BY ONLY <1>1, <1>2, <1>7, <1>9, <1>10, <1>11, <1>12 DEF Grows
<1>. QED  BY ONLY <1>13, GrowsGood

\* The cursor goes elsewhere.
CursorGoes(s, r, n) == SoFar(s) /\ n \in {0} \cup In(s.order) /\ r = [s EXCEPT !.cursor = n]

CursorGone(s, r, n) ==
    /\ SoFar(r) /\ SameButLinks(s, r) /\ r.node = s.node /\ r.order = s.order /\ r.rest = s.rest
    /\ r.cursor = n

LEMMA CursorWent ==
    ASSUME NEW s, NEW r, NEW n, CursorGoes(s, r, n)
    PROVE  CursorGone(s, r, n)
<1>1. SoFar(s) /\ n \in {0} \cup In(s.order) /\ r = [s EXCEPT !.cursor = n]
  BY ONLY CursorGoes(s, r, n) DEF CursorGoes
<1>2. Chained(s) /\ JumpsOK(s, There(s)) /\ s \in StateRec
  BY ONLY <1>1 DEF SoFar, Chained
<1>3. s.order \in Seq(Pos) /\ 0 \in Nat
  BY ONLY <1>2, StateRecIs
<1>4. n \in Nat
  BY ONLY <1>1, <1>3, AtIs, PosIs
<1>5. /\ r.cursor = n /\ r.order = s.order /\ r.rest = s.rest /\ r.node = s.node
      /\ SameButLinks(s, r) /\ Chained(r)
  BY ONLY <1>1, <1>2, <1>4, CursorMoves DEF CursorMoved
<1>6. SameTargets(s, r, There(s), There(r))
  BY ONLY <1>2, <1>5 DEF SameTargets, There, JumpsOK
<1>7. SoFar(r)
  BY ONLY <1>5, <1>6, SameJumps DEF SoFar
<1>. QED  BY ONLY <1>5, <1>7 DEF CursorGone

\* setCursor.
MovesCursor(s, r, n, rm, wk, f, c) ==
    Idles(s, rm, wk, f, c) /\ n \in {0} \cup In(s.order) /\ r = [s EXCEPT !.cursor = n]

LEMMA MoveGood ==
    ASSUME NEW s, NEW r, NEW n, NEW rm, NEW wk, NEW f, NEW c, MovesCursor(s, r, n, rm, wk, f, c)
    PROVE  GoodList(r, rm, wk, f, c)
<1>1. /\ GoodList(s, rm, wk, f, c) /\ rm.node = 0 /\ wk.node = 0 /\ n \in {0} \cup In(s.order)
      /\ r = [s EXCEPT !.cursor = n]
  BY ONLY MovesCursor(s, r, n, rm, wk, f, c) DEF MovesCursor, Idles
<1>2. SoFar(s) /\ PoolOK(s, c)
  BY ONLY <1>1 DEF GoodList
<1>3. CursorGone(s, r, n)
  BY ONLY <1>1, <1>2, CursorWent DEF CursorGoes
<1>5. /\ SoFar(r) /\ r.cursor = n /\ r.order = s.order /\ r.rest = s.rest /\ r.node = s.node
  BY ONLY <1>3 DEF CursorGone
<1>8. SameKinds(s, r) /\ (c # 0 => Loose(r, c))
  BY ONLY <1>2, <1>5 DEF SameKinds, PoolOK, Loose
<1>9. Grows(s, r, rm, wk, f, c, f, c)
  BY ONLY <1>1, <1>5, <1>8 DEF Grows
<1>. QED  BY ONLY <1>9, GrowsGood

\* The backend's jump: it is made the label's newest.
MakesJump(s, r, l) ==
    /\ s \in StateRec /\ l \in 1..Len(s.node)
    /\ r = [s EXCEPT !.node =
              [Append(s.node, [Builder!Node("jump") EXCEPT !.target = l, !.jumpNext = s.node[l].from])
               EXCEPT ![l].from = Len(s.node) + 1, ![l].numRefs = @ + 1]]

LEMMA MakesJumpMade ==
    ASSUME NEW s, NEW r, NEW l, MakesJump(s, r, l)
    PROVE  JumpMade(s, r, l) /\ SameKinds(s, r)
<1>1. /\ s \in StateRec /\ l \in 1..Len(s.node)
      /\ r = [s EXCEPT !.node =
              [Append(s.node, [Builder!Node("jump") EXCEPT !.target = l, !.jumpNext = s.node[l].from])
               EXCEPT ![l].from = Len(s.node) + 1, ![l].numRefs = @ + 1]]
  BY ONLY MakesJump(s, r, l) DEF MakesJump
<1>2. PICK a \in Seq(NodeRec), M \in Nat : a = s.node /\ M = Len(a)
  BY ONLY <1>1, StateRecIs
<1>3. PICK n \in Nat : n = M + 1
  BY ONLY M \in Nat
<1>4. PICK e \in NodeRec : e = a[l]
  BY ONLY <1>1, <1>2, StateRecIs
<1>5. e.from \in Nat /\ e.numRefs \in Int
  BY ONLY e \in NodeRec, NodeRecIs
<1>6. PICK j : j = [Builder!Node("jump") EXCEPT !.target = l, !.jumpNext = e.from]
  OBVIOUS
<1>7. l \in Nat
  BY ONLY <1>1, <1>2, M \in Nat
<1>8. /\ j \in NodeRec /\ j.kind = "jump" /\ j.next = 0 /\ j.prev = 0 /\ j.target = l
      /\ j.jumpNext = e.from /\ j.from = 0 /\ j.numRefs = 0
  <2>1. j = [kind |-> "jump", prev |-> 0, next |-> 0, target |-> l, jumpNext |-> e.from,
             from |-> 0, numRefs |-> 0]
    BY ONLY <1>6 DEF Builder!Node
  <2>2. /\ j.kind = "jump" /\ j.next = 0 /\ j.prev = 0 /\ j.target = l
        /\ j.jumpNext = e.from /\ j.from = 0 /\ j.numRefs = 0
    BY ONLY <2>1
  <2>3. "jump" \in KindNames
    BY DEF KindNames
  <2>5. 0 \in Nat /\ 0 \in Int
    OBVIOUS
  <2>4. j \in NodeRec
    BY ONLY <1>5, <1>7, <2>1, <2>3, <2>5 DEF NodeRec
  <2>. QED  BY ONLY <2>2, <2>4
<1>9. PICK b : b = [e EXCEPT !.from = n, !.numRefs = e.numRefs + 1]
  OBVIOUS
<1>10. /\ b \in NodeRec /\ b.from = n /\ b.numRefs = e.numRefs + 1 /\ b.kind = e.kind
       /\ b.target = e.target /\ b.next = e.next /\ b.prev = e.prev /\ b.jumpNext = e.jumpNext
  <2>1. e.numRefs + 1 \in Int
    BY ONLY <1>5
  <2>. QED  BY ONLY <1>9, <2>1, e \in NodeRec, n \in Nat DEF NodeRec
<1>11. /\ Append(a, j) \in Seq(NodeRec) /\ Len(Append(a, j)) = n
       /\ \A i \in 1..M : Append(a, j)[i] = a[i]
       /\ Append(a, j)[n] = j
  BY ONLY <1>2, <1>3, <1>8, a \in Seq(NodeRec), M \in Nat, AppendProperties
<1>12. PICK u \in Seq(NodeRec) : u = Append(a, j)
  BY ONLY <1>11
<1>13. /\ \A m \in 1..M : m \in 1..n /\ m # n
       /\ n \in 1..n /\ \A m \in 1..n : m \in 1..M \/ m = n
       /\ l \in 1..M /\ l \in 1..n /\ l # n
  <2>1. l \in 1..M
    BY ONLY <1>1, <1>2
  <2>. QED  BY ONLY <1>3, <2>1, M \in Nat
<1>14. u[l] = e /\ Len(u) = n /\ u[n] = j /\ \A i \in 1..M : u[i] = a[i]
  BY ONLY <1>4, <1>11, <1>12, <1>13
<1>15. /\ [u EXCEPT ![l] = b] \in Seq(NodeRec) /\ Len([u EXCEPT ![l] = b]) = n
       /\ \A m \in 1..n : [u EXCEPT ![l] = b][m] = IF m = l THEN b ELSE u[m]
  BY ONLY <1>10, <1>13, <1>14, u \in Seq(NodeRec), ExceptSeq
<1>16. PICK v \in Seq(NodeRec) : v = [u EXCEPT ![l] = b]
  BY ONLY <1>15
<1>17. Len(v) = n /\ \A m \in 1..n : v[m] = IF m = l THEN b ELSE u[m]
  BY ONLY <1>15, <1>16
<1>18. v[l] = b /\ v[n] = j /\ \A m \in 1..M : m # l => v[m] = a[m]
  BY ONLY <1>13, <1>14, <1>17
<1>19. r = [s EXCEPT !.node = v]
  <2>1. u = Append(s.node, [Builder!Node("jump") EXCEPT !.target = l, !.jumpNext = s.node[l].from])
    BY ONLY <1>2, <1>4, <1>6, <1>12
  <2>2. [u EXCEPT ![l].from = Len(s.node) + 1, ![l].numRefs = @ + 1] = v
    <3>1. l \in DOMAIN u
      BY ONLY <1>13, <1>14, u \in Seq(NodeRec)
    <3>2. [u EXCEPT ![l].from = n, ![l].numRefs = @ + 1] = [u EXCEPT ![l] = b]
      BY ONLY <1>9, <1>14, <3>1
    <3>. QED  BY ONLY <1>2, <1>3, <1>16, <3>2
  <2>. QED  BY ONLY <1>1, <2>1, <2>2
<1>20. /\ r \in StateRec /\ r.node = v /\ r.first = s.first /\ r.last = s.last
       /\ r.cursor = s.cursor /\ r.order = s.order /\ r.rest = s.rest
  BY ONLY <1>1, <1>19, v \in Seq(NodeRec) DEF StateRec
<1>21. \A m \in 1..M :
          /\ v[m].kind = a[m].kind /\ v[m].target = a[m].target
          /\ v[m].next = a[m].next /\ v[m].prev = a[m].prev
          /\ v[m].jumpNext = a[m].jumpNext
          /\ m # l => v[m].from = a[m].from /\ v[m].numRefs = a[m].numRefs
  BY ONLY <1>4, <1>10, <1>18
<1>22. JumpMade(s, r, l)
  BY ONLY <1>2, <1>3, <1>4, <1>8, <1>10, <1>13, <1>17, <1>18, <1>20, <1>21 DEF JumpMade
<1>23. SameKinds(s, r)
  BY ONLY <1>2, <1>13, <1>17, <1>20, <1>21 DEF SameKinds
<1>. QED  BY ONLY <1>22, <1>23

EmitsJump(s, t, r, l, rm, wk, f, c) ==
    Idles(s, rm, wk, f, c) /\ MakesJump(s, t, l) /\ r = Builder!AddNode(t, Len(s.node) + 1)

LEMMA EmitJumpGood ==
    ASSUME NEW s, NEW t, NEW r, NEW l, NEW rm, NEW wk, NEW f, NEW c,
           EmitsJump(s, t, r, l, rm, wk, f, c)
    PROVE  GoodList(r, rm, wk, f, c)
<1>1. /\ GoodList(s, rm, wk, f, c) /\ rm.node = 0 /\ wk.node = 0 /\ MakesJump(s, t, l)
      /\ r = Builder!AddNode(t, Len(s.node) + 1)
  BY ONLY EmitsJump(s, t, r, l, rm, wk, f, c) DEF EmitsJump, Idles
<1>2. /\ SoFar(s) /\ PoolOK(s, c) /\ s.rest = << >> /\ In(s.rest) = {}
      /\ s.cursor \in {0} \cup In(s.order)
  BY ONLY <1>1, RestIsEmpty DEF GoodList
<1>3. JumpMade(s, t, l) /\ SameKinds(s, t)
  BY ONLY <1>1, MakesJumpMade
<1>4. PICK n : n = Len(s.node) + 1
  OBVIOUS
<1>5. Len(t.node) = n /\ t.cursor = s.cursor /\ t.order = s.order /\ t.rest = s.rest
  BY ONLY <1>3, <1>4 DEF JumpMade
<1>6. /\ Chained(t) /\ Loose(t, n) /\ JumpsOK(t, There(s) \cup {n})
      /\ \A m : Loose(s, m) => Loose(t, m) /\ m # n
  BY ONLY <1>2, <1>3, <1>5, JumpMadeOK
<1>7. Placed(t, r, n) /\ r.cursor = n
  BY ONLY <1>1, <1>2, <1>4, <1>5, <1>6, AddNodePlaces DEF AddsNode
<1>8. /\ SameButLinks(t, r) /\ r.rest = t.rest
      /\ \A m : m \in In(r.order) <=> m = n \/ m \in In(t.order)
  BY ONLY <1>7 DEF Placed
<1>9. Counts(t, r, n, There(s) \cup {n})
  BY ONLY <1>2, <1>5, <1>6, <1>7 DEF Counts, There, Loose
<1>10. SoFar(r)
  BY ONLY <1>9, PlacedSoFar
<1>11. SameKinds(s, r)
  BY ONLY <1>3, <1>8, SameKindsTwice
<1>12. c # 0 => Loose(r, c)
  BY ONLY <1>2, <1>5, <1>6, <1>8 DEF PoolOK, Loose, SameButLinks
<1>13. Grows(s, r, rm, wk, f, c, f, c)
  BY ONLY <1>1, <1>2, <1>5, <1>7, <1>8, <1>10, <1>11, <1>12 DEF Grows
<1>. QED  BY ONLY <1>13, GrowsGood

\* newFunc's three nodes, and addFunc.
StartsFunc(s, r, rm, wk, f, c) ==
    LET n == Len(s.node) + 1
        t == [s EXCEPT !.node = s.node \o
                <<Builder!Node("func"), Builder!Node("exit"), Builder!Node("end")>>]
    IN  /\ Idles(s, rm, wk, f, c)
        /\ r = [Builder!AddNode(Builder!AddNode(Builder!AddNode(t, n), n + 1), n + 2)
                EXCEPT !.cursor = n]

LEMMA ThreeNodes ==
    ASSUME NEW q,
           q = <<Builder!Node("func"), Builder!Node("exit"), Builder!Node("end")>>
    PROVE  /\ q \in Seq(NodeRec) /\ Len(q) = 3 /\ \A k \in 1..Len(q) : Blank(q[k])
           /\ q[3].kind = "end"
<1>1. "func" \in KindNames /\ "exit" \in KindNames /\ "end" \in KindNames
  BY DEF KindNames
<1>2. PICK a, b, d : a = Builder!Node("func") /\ b = Builder!Node("exit") /\ d = Builder!Node("end")
  OBVIOUS
<1>3. Blank(a) /\ Blank(b) /\ Blank(d) /\ d.kind = "end"
  BY ONLY <1>1, <1>2, NodeIsBlank
<1>4. a \in NodeRec /\ b \in NodeRec /\ d \in NodeRec
  BY ONLY <1>3 DEF Blank
<1>5. q = <<a, b, d>>
  BY ONLY <1>2, q = <<Builder!Node("func"), Builder!Node("exit"), Builder!Node("end")>>
<1>6. q \in Seq(NodeRec) /\ Len(q) = 3 /\ q[1] = a /\ q[2] = b /\ q[3] = d
  BY ONLY <1>4, <1>5
<1>7. \A k \in 1..Len(q) : k = 1 \/ k = 2 \/ k = 3
  BY ONLY <1>6
<1>. QED  BY ONLY <1>3, <1>6, <1>7

LEMMA StartFuncGood ==
    ASSUME NEW s, NEW r, NEW rm, NEW wk, NEW f, NEW c, StartsFunc(s, r, rm, wk, f, c)
    PROVE  GoodList(r, rm, wk, Len(s.node) + 1, c)
<1>1. PICK q : q = <<Builder!Node("func"), Builder!Node("exit"), Builder!Node("end")>>
  OBVIOUS
<1>2. PICK n1 : n1 = Len(s.node) + 1
  OBVIOUS
<1>3. PICK t : t = [s EXCEPT !.node = s.node \o q]
  OBVIOUS
<1>4. PICK a : a = Builder!AddNode(t, n1)
  OBVIOUS
<1>5. PICK b : b = Builder!AddNode(a, n1 + 1)
  OBVIOUS
<1>6. PICK e : e = Builder!AddNode(b, n1 + 2)
  OBVIOUS
<1>7. Idles(s, rm, wk, f, c) /\ r = [e EXCEPT !.cursor = n1]
  BY ONLY <1>1, <1>2, <1>3, <1>4, <1>5, <1>6, StartsFunc(s, r, rm, wk, f, c) DEF StartsFunc
<1>8. /\ q \in Seq(NodeRec) /\ Len(q) = 3 /\ \A k \in 1..Len(q) : Blank(q[k])
      /\ q[3].kind = "end"
  BY ONLY <1>1, ThreeNodes
<1>9. GoodList(s, rm, wk, f, c) /\ rm.node = 0 /\ wk.node = 0
  BY ONLY <1>7 DEF Idles
<1>10. /\ SoFar(s) /\ PoolOK(s, c) /\ s.rest = << >> /\ s \in StateRec /\ Len(s.node) \in Nat
       /\ s.cursor \in {0} \cup In(s.order)
  BY ONLY <1>9, RestIsEmpty DEF GoodList
<1>11. Lengthened(s, t, q)
  BY ONLY <1>3, <1>8, <1>10, LongerIs DEF Lengthens
<1>12. PICK M \in Nat : M = Len(s.node)
  BY ONLY <1>10
<1>13. /\ n1 = M + 1 /\ n1 \in Nat /\ n1 \in 1..M + 3 /\ n1 + 1 \in 1..M + 3 /\ n1 + 2 \in 1..M + 3
       /\ n1 \notin 1..M /\ n1 + 1 \notin 1..M /\ n1 + 2 \notin 1..M /\ n1 + 2 = M + 3
       /\ n1 # n1 + 1 /\ n1 # n1 + 2 /\ n1 + 1 # n1 + 2
  BY ONLY <1>2, <1>12, M \in Nat
<1>14. Grown(s, t) /\ SameKinds(s, t) /\ Len(t.node) = M + 3 /\ t.node[n1 + 2].kind = "end"
  <2>1. 3 \in 1..3
    OBVIOUS
  <2>. QED  BY ONLY <1>8, <1>11, <1>12, <1>13, <2>1 DEF Lengthened
<1>15. /\ SoFar(t) /\ Loose(t, n1) /\ Loose(t, n1 + 1) /\ Loose(t, n1 + 2)
       /\ \A m : Loose(s, m) => Loose(t, m)
  BY ONLY <1>10, <1>12, <1>13, <1>14, GrownSoFar
<1>16. /\ t.order = s.order /\ t.rest = s.rest /\ t.cursor = s.cursor
       /\ \A m \in {n1, n1 + 1, n1 + 2} : t.node[m].target = 0
  BY ONLY <1>12, <1>13, <1>14 DEF Grown
<1>17. \A m : Loose(s, m) => m # n1 /\ m # n1 + 1 /\ m # n1 + 2
  BY ONLY <1>12, <1>13 DEF Loose
<1>18. AddedIt(t, a, n1)
  BY ONLY <1>4, <1>10, <1>15, <1>16, AddNodeAdds DEF AddsIt
<1>19. /\ SoFar(a) /\ a.rest = << >> /\ a.cursor = n1 /\ SameButLinks(t, a)
       /\ \A m : m \in In(a.order) <=> m = n1 \/ m \in In(t.order)
       /\ \A m : Loose(t, m) /\ m # n1 => Loose(a, m)
  BY ONLY <1>18 DEF AddedIt
<1>20. a.node[n1 + 1].target = 0 /\ a.node[n1 + 2].target = 0
  BY ONLY <1>13, <1>14, <1>16, <1>19 DEF SameButLinks, SameData
<1>21. AddedIt(a, b, n1 + 1)
  BY ONLY <1>5, <1>13, <1>15, <1>19, <1>20, AddNodeAdds DEF AddsIt
<1>22. /\ SoFar(b) /\ b.rest = << >> /\ b.cursor = n1 + 1 /\ SameButLinks(a, b)
       /\ \A m : m \in In(b.order) <=> m = n1 + 1 \/ m \in In(a.order)
       /\ \A m : Loose(a, m) /\ m # n1 + 1 => Loose(b, m)
  BY ONLY <1>21 DEF AddedIt
<1>23. Len(a.node) = M + 3 /\ b.node[n1 + 2].target = 0
  <2>1. Len(a.node) = M + 3
    BY ONLY <1>14, <1>19 DEF SameButLinks
  <2>. QED  BY ONLY <1>13, <1>20, <1>22, <2>1 DEF SameButLinks, SameData
<1>24. AddedIt(b, e, n1 + 2)
  BY ONLY <1>6, <1>13, <1>15, <1>19, <1>22, <1>23, AddNodeAdds DEF AddsIt
<1>25. /\ SoFar(e) /\ e.rest = << >> /\ SameButLinks(b, e)
       /\ \A m : m \in In(e.order) <=> m = n1 + 2 \/ m \in In(b.order)
       /\ \A m : Loose(b, m) /\ m # n1 + 2 => Loose(e, m)
  BY ONLY <1>24 DEF AddedIt
<1>26. n1 \in In(e.order) /\ n1 + 2 \in In(e.order)
  BY ONLY <1>19, <1>22, <1>25
<1>27. CursorGone(e, r, n1)
  BY ONLY <1>7, <1>25, <1>26, CursorWent DEF CursorGoes
<1>28. /\ SoFar(r) /\ SameButLinks(e, r) /\ r.node = e.node /\ r.order = e.order
       /\ r.rest = e.rest /\ r.cursor = n1
  BY ONLY <1>27 DEF CursorGone
<1>29. SameButLinks(t, r)
  <2>1. SameButLinks(t, b)
    BY ONLY <1>19, <1>22, SameButLinksTwice
  <2>2. SameButLinks(t, e)
    BY ONLY <2>1, <1>25, SameButLinksTwice
  <2>. QED  BY ONLY <2>2, <1>28, SameButLinksTwice
<1>30. SameKinds(s, r) /\ SameKinds(t, r)
  BY ONLY <1>14, <1>29, SameKindsTwice, NoKindChanges
<1>31. FuncOK(r, n1)
  BY ONLY <1>13, <1>14, <1>26, <1>28, <1>30 DEF FuncOK, SameKinds
<1>32. c # 0 => Loose(r, c)
  <2>1. ASSUME c # 0
        PROVE  Loose(r, c)
    <3>1. Loose(t, c) /\ c # n1 /\ c # n1 + 1 /\ c # n1 + 2
      BY ONLY <1>10, <1>15, <1>17, <2>1 DEF PoolOK
    <3>2. Loose(e, c)
      BY ONLY <1>19, <1>22, <1>25, <3>1
    <3>. QED  BY ONLY <1>28, <3>2 DEF Loose
  <2>. QED  BY ONLY <2>1
<1>33. Grows(s, r, rm, wk, f, c, n1, c)
  BY ONLY <1>9, <1>10, <1>16, <1>19, <1>22, <1>25, <1>26, <1>28, <1>30, <1>31, <1>32 DEF Grows
<1>. QED  BY ONLY <1>2, <1>33, GrowsGood

\* endFunc.
EndsFunc(s, r, rm, wk, f, c) ==
    /\ Idles(s, rm, wk, f, c) /\ f # 0
    /\ r = [(IF c = 0 THEN s
             ELSE Builder!AddNode([s EXCEPT !.cursor = s.node[f + 2].prev], c))
            EXCEPT !.cursor = f + 2]

LEMMA EndFuncGood ==
    ASSUME NEW s, NEW r, NEW rm, NEW wk, NEW f, NEW c, EndsFunc(s, r, rm, wk, f, c)
    PROVE  GoodList(r, rm, wk, 0, 0)
<1>1. PICK e : e = f + 2
  OBVIOUS
<1>2. PICK t : t = [s EXCEPT !.cursor = s.node[e].prev]
  OBVIOUS
<1>3. PICK u : u = IF c = 0 THEN s ELSE Builder!AddNode(t, c)
  OBVIOUS
<1>4. Idles(s, rm, wk, f, c) /\ f # 0 /\ r = [u EXCEPT !.cursor = e]
  BY ONLY <1>1, <1>2, <1>3, EndsFunc(s, r, rm, wk, f, c) DEF EndsFunc
<1>5. GoodList(s, rm, wk, f, c) /\ rm.node = 0 /\ wk.node = 0
  BY ONLY <1>4 DEF Idles
<1>6. /\ SoFar(s) /\ PoolOK(s, c) /\ FuncOK(s, f) /\ s.rest = << >>
      /\ s.cursor \in {0} \cup In(s.order)
  BY ONLY <1>5, RestIsEmpty DEF GoodList
<1>7. e \in In(s.order)
  BY ONLY <1>1, <1>4, <1>6 DEF FuncOK
<1>8. /\ SoFar(u) /\ SameButLinks(s, u) /\ u.rest = << >>
      /\ \A m \in In(s.order) : m \in In(u.order)
  <2>1. CASE c = 0
    <3>1. s \in StateRec
      BY ONLY <1>6 DEF SoFar, Chained
    <3>2. SameButLinks(s, s)
      BY ONLY <3>1 DEF SameButLinks, SameData
    <3>. QED  BY ONLY <1>3, <1>6, <2>1, <3>2
  <2>2. CASE c # 0
    <3>1. Chained(s) /\ JumpsOK(s, There(s)) /\ s \in StateRec
      BY ONLY <1>6 DEF SoFar, Chained
    <3>2. s.order \in Seq(Pos)
      BY ONLY <3>1, StateRecIs
    <3>3. PICK i \in 1..Len(s.order) : i = Builder!Place(s, e) /\ s.order[i] = e
      BY ONLY <1>7, PlaceIs
    <3>4. s.node[e].prev = At(s.order, i - 1)
      BY ONLY <3>1, <3>3, Neighbours
    <3>5. s.node[e].prev \in {0} \cup In(s.order)
      BY ONLY <3>2, <3>4, AtIs
    <3>6. CursorGone(s, t, s.node[e].prev)
      BY ONLY <1>2, <1>6, <3>5, CursorWent DEF CursorGoes
    <3>7. /\ SoFar(t) /\ SameButLinks(s, t) /\ t.node = s.node /\ t.order = s.order
          /\ t.rest = s.rest /\ t.cursor = s.node[e].prev
      BY ONLY <3>6 DEF CursorGone
    <3>8. Loose(t, c) /\ t.node[c].target = 0
      <4>1. Loose(s, c) /\ s.node[c].kind = "pool"
        BY ONLY <1>6, <2>2 DEF PoolOK
      <4>2. s.node[c].target = 0
        BY ONLY <3>1, <4>1 DEF JumpsOK, Loose
      <4>. QED  BY ONLY <3>7, <4>1, <4>2 DEF Loose
    <3>9. AddedIt(t, u, c)
      BY ONLY <1>3, <1>6, <2>2, <3>5, <3>7, <3>8, AddNodeAdds DEF AddsIt
    <3>10. /\ SoFar(u) /\ SameButLinks(t, u) /\ u.rest = << >>
           /\ \A m \in In(t.order) : m \in In(u.order)
      BY ONLY <3>9 DEF AddedIt
    <3>. QED  BY ONLY <3>7, <3>10, SameButLinksTwice
  <2>. QED  BY ONLY <2>1, <2>2
<1>9. CursorGone(u, r, e)
  BY ONLY <1>4, <1>7, <1>8, CursorWent DEF CursorGoes
<1>10. /\ SoFar(r) /\ SameButLinks(u, r) /\ r.order = u.order /\ r.rest = u.rest /\ r.cursor = e
  BY ONLY <1>9 DEF CursorGone
<1>11. SameButLinks(s, r)
  BY ONLY <1>8, <1>10, SameButLinksTwice
<1>12. SameKinds(s, r)
  BY ONLY <1>11, SameKindsTwice, NoKindChanges
<1>13. FuncOK(r, 0) /\ PoolOK(r, 0)
  BY DEF FuncOK, PoolOK
<1>14. Grows(s, r, rm, wk, f, c, 0, 0)
  BY ONLY <1>5, <1>6, <1>7, <1>8, <1>10, <1>12, <1>13 DEF Grows
<1>. QED  BY ONLY <1>14, GrowsGood

-----------------------------------------------------------------------------
(* CodeBuilder: the steps that remove.                                     *)

\* Nodes other than a function's end are cut out.
Shrinks(s, r, i, j, rm, wk, f, c, pm, pk) ==
    /\ GoodList(s, pm, pk, f, c) /\ CutAndGone(s, r, i, j)
    /\ \A k \in i..j : s.node[s.order[k]].kind # "end"
    /\ RemovalOK(r, rm) /\ WalkOK(r, wk) /\ (rm.node = 0 \/ wk.node = 0)

LEMMA ShrinksGood ==
    ASSUME NEW s, NEW r, NEW i, NEW j, NEW rm, NEW wk, NEW f, NEW c, NEW pm, NEW pk,
           Shrinks(s, r, i, j, rm, wk, f, c, pm, pk)
    PROVE  GoodList(r, rm, wk, f, c)
<1>1. /\ GoodList(s, pm, pk, f, c) /\ CutAndGone(s, r, i, j)
      /\ \A k \in i..j : s.node[s.order[k]].kind # "end"
      /\ RemovalOK(r, rm) /\ WalkOK(r, wk) /\ (rm.node = 0 \/ wk.node = 0)
  BY ONLY Shrinks(s, r, i, j, rm, wk, f, c, pm, pk) DEF Shrinks
<1>2. /\ SoFar(r) /\ Len(r.node) = Len(s.node) /\ SameKinds(s, r)
      /\ r.cursor \in {0} \cup There(r)
      /\ \A m \in In(s.order) : m \in In(r.order) \/ \E k \in i..j : m = s.order[k]
      /\ \A m \in There(r) : m \in In(s.order)
  BY ONLY <1>1 DEF CutAndGone
<1>3. /\ FuncOK(s, f) /\ PoolOK(s, c) /\ \A m \in In(s.order) : m \in 1..Len(s.node)
  BY ONLY <1>1 DEF GoodList, SoFar, Chained
<1>4. FuncOK(r, f)
  <2>1. ASSUME f # 0
        PROVE  f + 2 \in In(r.order) /\ r.node[f + 2].kind = "end"
    <3>1. f + 2 \in In(s.order) /\ s.node[f + 2].kind = "end"
      BY ONLY <1>3, <2>1 DEF FuncOK
    <3>2. f + 2 \in In(r.order)
      BY ONLY <1>1, <1>2, <3>1
    <3>. QED  BY ONLY <1>2, <1>3, <3>1, <3>2 DEF SameKinds
  <2>. QED  BY ONLY <1>3, <2>1 DEF FuncOK
<1>5. PoolOK(r, c)
  <2>1. ASSUME c # 0
        PROVE  Loose(r, c) /\ r.node[c].kind = "pool"
    <3>1. Loose(s, c) /\ s.node[c].kind = "pool"
      BY ONLY <1>3, <2>1 DEF PoolOK
    <3>2. c \notin There(r)
      BY ONLY <1>2, <3>1 DEF Loose
    <3>. QED  BY ONLY <1>2, <3>1, <3>2 DEF Loose, There, SameKinds
  <2>. QED  BY ONLY <1>3, <2>1 DEF PoolOK
<1>. QED  BY ONLY <1>1, <1>2, <1>4, <1>5 DEF GoodList

\* removeNodes, as far as its first pass; removeNode.
RemovesNodes(s, r, i, j, rm, wk, f, c, pm) ==
    /\ Idles(s, pm, wk, f, c)
    /\ i \in 1..Len(s.order) /\ j \in 1..Len(s.order) /\ i <= j
    /\ \A k \in i..j : s.node[s.order[k]].kind # "end"
    /\ r = Builder!Gone(Builder!Cut(s, i, j), s.order[i], s.node[s.order[i]].prev)
    /\ rm = IF i = j THEN Builder!NoRemoval
            ELSE [node |-> s.node[s.order[i]].next, last |-> s.order[j],
                  prev |-> s.node[s.order[i]].prev]

LEMMA RemoveNodesGood ==
    ASSUME NEW s, NEW r, NEW i, NEW j, NEW rm, NEW wk, NEW f, NEW c, NEW pm,
           RemovesNodes(s, r, i, j, rm, wk, f, c, pm)
    PROVE  GoodList(r, rm, wk, f, c)
<1>1. /\ GoodList(s, pm, wk, f, c) /\ pm.node = 0 /\ wk.node = 0
      /\ i \in 1..Len(s.order) /\ j \in 1..Len(s.order) /\ i <= j
      /\ \A k \in i..j : s.node[s.order[k]].kind # "end"
      /\ r = Builder!Gone(Builder!Cut(s, i, j), s.order[i], s.node[s.order[i]].prev)
      /\ rm = IF i = j THEN Builder!NoRemoval
              ELSE [node |-> s.node[s.order[i]].next, last |-> s.order[j],
                    prev |-> s.node[s.order[i]].prev]
  BY ONLY RemovesNodes(s, r, i, j, rm, wk, f, c, pm) DEF RemovesNodes, Idles
<1>2. SoFar(s) /\ s.rest = << >> /\ s.cursor \in {0} \cup In(s.order) /\ s \in StateRec
  BY ONLY <1>1, RestIsEmpty
<1>3. PICK l \in Nat : l = Len(s.order)
  BY ONLY <1>2, StateRecIs, LenProperties
<1>4. i \in Nat /\ j \in Nat /\ j \in i..l /\ (i # j => i + 1 \in 1..l)
  BY ONLY <1>1, <1>3, l \in Nat
<1>5. CutAndGone(s, r, i, j)
  BY ONLY <1>1, <1>2, <1>3, <1>4, CutAndGo DEF CutsAndGoes
<1>6. /\ s.node[s.order[i]].prev \in {0} \cup In(r.order)
      /\ Len(r.rest) = j - i /\ \A k \in 1..j - i : r.rest[k] = s.order[i + k]
      /\ SoFar(r)
  BY ONLY <1>5 DEF CutAndGone
<1>7. r.rest \in Seq(Pos)
  BY ONLY <1>6, StateRecIs DEF SoFar, Chained
<1>8. RemovalOK(r, rm)
  <2>1. CASE i = j
    <3>1. Len(r.rest) = 0
      BY ONLY <1>4, <1>6, <2>1
    <3>2. r.rest = << >>
      BY ONLY <1>7, <3>1, EmptySeq
    <3>3. rm.node = 0
      BY ONLY <1>1, <2>1 DEF Builder!NoRemoval
    <3>. QED  BY ONLY <3>2, <3>3 DEF RemovalOK
  <2>2. CASE i # j
    <3>1. 1 \in 1..j - i /\ j - i \in 1..j - i /\ i + (j - i) = j /\ j - i # 0
      BY ONLY <1>1, <1>4, <2>2
    <3>2. r.rest # << >> /\ r.rest[1] = s.order[i + 1] /\ r.rest[Len(r.rest)] = s.order[j]
      BY ONLY <1>6, <3>1, EmptySeq
    <3>3. s.node[s.order[i]].next = At(s.order, i + 1)
      BY ONLY <1>1, <1>2, Neighbours DEF SoFar
    <3>4. At(s.order, i + 1) = s.order[i + 1]
      BY ONLY <1>3, <1>4, <2>2 DEF At
    <3>5. /\ rm.node = s.node[s.order[i]].next /\ rm.last = s.order[j]
          /\ rm.prev = s.node[s.order[i]].prev
      BY ONLY <1>1, <2>2
    <3>. QED  BY ONLY <1>6, <3>2, <3>3, <3>4, <3>5 DEF RemovalOK
  <2>. QED  BY ONLY <2>1, <2>2
<1>9. WalkOK(r, wk)
  BY ONLY <1>1 DEF WalkOK
<1>10. Shrinks(s, r, i, j, rm, wk, f, c, pm, wk)
  BY ONLY <1>1, <1>5, <1>8, <1>9 DEF Shrinks
<1>. QED  BY ONLY <1>10, ShrinksGood

\* Another pass of removeNodes.
RemovesNext(s, r, rm, wk, f, c, pm) ==
    /\ GoodList(s, pm, wk, f, c) /\ pm.node # 0
    /\ r = Builder!Gone(s, pm.node, pm.prev)
    /\ rm = IF pm.node = pm.last THEN Builder!NoRemoval
            ELSE [pm EXCEPT !.node = s.node[pm.node].next]
    /\ pm \in [node : Nat, last : Nat, prev : Nat]

LEMMA RemoveNextGood ==
    ASSUME NEW s, NEW r, NEW rm, NEW wk, NEW f, NEW c, NEW pm,
           RemovesNext(s, r, rm, wk, f, c, pm)
    PROVE  GoodList(r, rm, wk, f, c)
<1>1. /\ GoodList(s, pm, wk, f, c) /\ pm.node # 0
      /\ r = Builder!Gone(s, pm.node, pm.prev)
      /\ rm = IF pm.node = pm.last THEN Builder!NoRemoval
              ELSE [pm EXCEPT !.node = s.node[pm.node].next]
      /\ pm \in [node : Nat, last : Nat, prev : Nat]
  BY ONLY RemovesNext(s, r, rm, wk, f, c, pm) DEF RemovesNext
<1>2. /\ SoFar(s) /\ s.cursor \in {0} \cup There(s) /\ RemovalOK(s, pm) /\ WalkOK(s, wk)
      /\ wk.node = 0 /\ FuncOK(s, f) /\ PoolOK(s, c)
  BY ONLY <1>1 DEF GoodList
<1>3. /\ s \in StateRec /\ Once(s.rest) /\ \A m \in In(s.order) : m \in 1..Len(s.node)
      /\ \A m \in In(s.rest) : m \in 1..Len(s.node)
      /\ \A k \in 1..Len(s.rest) : k + 1 \in 1..Len(s.rest) => Nx(s, s.rest[k]) = s.rest[k + 1]
  BY ONLY <1>2 DEF SoFar, Chained
<1>4. s.rest \in Seq(Pos) /\ pm.prev \in Nat
  BY ONLY <1>1, <1>3, StateRecIs
<1>5. s.rest # << >> /\ pm.node = s.rest[1] /\ pm.last = s.rest[Len(s.rest)]
  BY ONLY <1>1, <1>2 DEF RemovalOK
<1>6. WentAway(s, r, pm.node, pm.prev)
  BY ONLY <1>1, <1>2, <1>4, <1>5, GoneGoes DEF GoesAway
<1>7. /\ SoFar(r) /\ Len(r.node) = Len(s.node) /\ r.order = s.order /\ r.rest = Tail(s.rest)
      /\ r.cursor = (IF s.cursor = pm.node THEN pm.prev ELSE s.cursor)
      /\ \A m \in 1..Len(s.node) : r.node[m].kind = s.node[m].kind
  BY ONLY <1>6 DEF WentAway
<1>8. Tailed(s.rest, r.rest)
  BY ONLY <1>3, <1>4, <1>5, <1>7, TailIs DEF Tailing
<1>9. /\ Len(r.rest) = Len(s.rest) - 1 /\ Len(r.rest) \in Nat /\ r.rest \in Seq(Pos)
      /\ \A k \in 1..Len(r.rest) : r.rest[k] = s.rest[k + 1] /\ k + 1 \in 1..Len(s.rest)
      /\ \A m : m \in In(r.rest) <=> m \in In(s.rest) /\ m # pm.node
  BY ONLY <1>5, <1>8 DEF Tailed
<1>10. PICK K \in Nat : K = Len(r.rest)
  BY ONLY <1>9
<1>11. Len(s.rest) = K + 1
  BY ONLY <1>9, <1>10, <1>4, LenProperties
<1>12. /\ 1 \in 1..K + 1 /\ K + 1 \in 1..K + 1 /\ (K = 0 <=> 1 = K + 1)
       /\ K # 0 => 1 \in 1..K /\ K \in 1..K /\ 1 + 1 \in 1..K + 1
  BY ONLY K \in Nat
<1>13. pm.node = pm.last <=> K = 0
  BY ONLY <1>3, <1>5, <1>11, <1>12 DEF Once
<1>14. pm.prev \in {0} \cup In(r.order)
  BY ONLY <1>2, <1>5, <1>7 DEF RemovalOK
<1>15. RemovalOK(r, rm)
  <2>1. CASE K = 0
    <3>1. r.rest = << >>
      BY ONLY <1>9, <1>10, <2>1, EmptySeq
    <3>2. rm.node = 0
      BY ONLY <1>1, <1>13, <2>1 DEF Builder!NoRemoval
    <3>. QED  BY ONLY <3>1, <3>2 DEF RemovalOK
  <2>2. CASE K # 0
    <3>1. r.rest # << >> /\ r.rest[1] = s.rest[1 + 1] /\ r.rest[Len(r.rest)] = s.rest[K + 1]
      BY ONLY <1>9, <1>10, <1>12, <2>2, EmptySeq
    <3>2. rm.node = s.node[pm.node].next /\ rm.last = pm.last /\ rm.prev = pm.prev
      BY ONLY <1>1, <1>13, <2>2
    <3>3. Nx(s, s.rest[1]) = s.rest[1 + 1]
      BY ONLY <1>3, <1>11, <1>12, <2>2
    <3>4. s.node[pm.node].next = s.rest[1 + 1]
      BY ONLY <1>1, <1>5, <3>3 DEF Nx
    <3>. QED  BY ONLY <1>5, <1>11, <1>14, <3>1, <3>2, <3>4 DEF RemovalOK
  <2>. QED  BY ONLY <2>1, <2>2
<1>16. r.cursor \in {0} \cup There(r)
  BY ONLY <1>2, <1>7, <1>9, <1>14 DEF There
<1>17. WalkOK(r, wk)
  BY ONLY <1>2 DEF WalkOK
<1>18. FuncOK(r, f)
  BY ONLY <1>2, <1>3, <1>7 DEF FuncOK
<1>19. PoolOK(r, c)
  BY ONLY <1>2, <1>7, <1>9 DEF PoolOK, Loose
<1>. QED  BY ONLY <1>2, <1>7, <1>15, <1>16, <1>17, <1>18, <1>19 DEF GoodList
\* removeUnreachableCode is at a node that is not a function's end.
LEMMA WalkStarts ==
    ASSUME NEW s, NEW rm, NEW wk, NEW f, NEW c, NEW pk, Idles(s, rm, pk, f, c),
           wk.node \in In(s.order), s.node[wk.node].kind # "end"
    PROVE  GoodList(s, rm, wk, f, c)
<1>1. GoodList(s, rm, pk, f, c) /\ rm.node = 0
  BY ONLY Idles(s, rm, pk, f, c) DEF Idles
<1>2. WalkOK(s, wk)
  BY ONLY wk.node \in In(s.order), s.node[wk.node].kind # "end" DEF WalkOK
<1>. QED  BY ONLY <1>1, <1>2 DEF GoodList

\* A pass of its loop.
WalksOn(s, r, rm, wk, f, c, pk) ==
    /\ GoodList(s, rm, pk, f, c) /\ pk.node # 0
    /\ r = s \/ r = Builder!RemoveNode(s, pk.node)
    /\ \/ wk.node = 0
       \/ /\ wk.node # 0 /\ wk.node = s.node[pk.node].next
          /\ s.node[wk.node].kind # "end"

LEMMA WalkOnGood ==
    ASSUME NEW s, NEW r, NEW rm, NEW wk, NEW f, NEW c, NEW pk,
           WalksOn(s, r, rm, wk, f, c, pk)
    PROVE  GoodList(r, rm, wk, f, c)
<1>1. /\ GoodList(s, rm, pk, f, c) /\ pk.node # 0
      /\ r = s \/ r = Builder!RemoveNode(s, pk.node)
      /\ \/ wk.node = 0
         \/ /\ wk.node # 0 /\ wk.node = s.node[pk.node].next
            /\ s.node[wk.node].kind # "end"
  BY ONLY WalksOn(s, r, rm, wk, f, c, pk) DEF WalksOn
<1>2. WalkOK(s, pk) /\ rm.node = 0 /\ RemovalOK(s, rm)
  BY ONLY <1>1 DEF GoodList
<1>3. /\ SoFar(s) /\ s.rest = << >> /\ s.cursor \in {0} \cup In(s.order) /\ s \in StateRec
      /\ \A m \in In(s.order) : m \in 1..Len(s.node)
  BY ONLY <1>1, <1>2, RestIsEmpty
<1>4. PICK n : n = pk.node
  OBVIOUS
<1>5. n \in In(s.order) /\ s.node[n].kind # "end"
  BY ONLY <1>1, <1>2, <1>4 DEF WalkOK
<1>6. PICK i \in 1..Len(s.order) : i = Builder!Place(s, n) /\ s.order[i] = n
  BY ONLY <1>5, PlaceIs
<1>7. s.node[n].next = At(s.order, i + 1)
  BY ONLY <1>3, <1>6, Neighbours DEF SoFar
<1>8. s.order \in Seq(Pos)
  BY ONLY <1>3, StateRecIs
<1>9. s.node[n].next = 0 \/ s.node[n].next \in In(s.order)
  BY ONLY <1>7, <1>8, AtIs
<1>10. CASE r = s
  <2>1. WalkOK(s, wk)
    BY ONLY <1>1, <1>4, <1>9 DEF WalkOK
  <2>. QED  BY ONLY <1>1, <1>2, <1>10, <2>1 DEF GoodList
<1>11. CASE r = Builder!RemoveNode(s, n)
  <2>1. PICK l \in Nat : l = Len(s.order)
    BY ONLY <1>8, LenProperties
  <2>2. i \in i..Len(s.order) /\ i - i = 0 /\ i \in Nat /\ \A k \in i..i : k = i
    BY ONLY <2>1, i \in 1..Len(s.order), l \in Nat
  <2>3. r = Builder!Gone(Builder!Cut(s, i, i), s.order[i], s.node[s.order[i]].prev)
    BY ONLY <1>6, <1>11 DEF Builder!RemoveNode
  <2>4. CutAndGone(s, r, i, i)
    BY ONLY <1>3, <2>2, <2>3, i \in 1..Len(s.order), CutAndGo DEF CutsAndGoes
  <2>5. /\ SoFar(r) /\ SameKinds(s, r) /\ s.node[n].next \in {0} \cup In(r.order)
        /\ Len(r.rest) = 0 /\ s.node[n].prev \in {0} \cup In(r.order)
        /\ \A m \in In(s.order) : m \in In(r.order) \/ \E k \in i..i : m = s.order[k]
        /\ \A m \in There(r) : m \in In(s.order)
    BY ONLY <1>6, <2>2, <2>4 DEF CutAndGone
  <2>6. r.rest = << >>
    <3>1. r.rest \in Seq(Pos)
      BY ONLY <2>5, StateRecIs DEF SoFar, Chained
    <3>. QED  BY ONLY <2>5, <3>1, EmptySeq
  <2>7. WalkOK(r, wk)
    BY ONLY <1>1, <1>3, <1>4, <1>9, <2>5 DEF WalkOK, SameKinds
  <2>8. RemovalOK(r, rm)
    BY ONLY <1>2, <2>6 DEF RemovalOK
  <2>9. Shrinks(s, r, i, i, rm, wk, f, c, rm, pk)
    BY ONLY <1>1, <1>2, <1>5, <1>6, <2>2, <2>4, <2>7, <2>8 DEF Shrinks
  <2>. QED  BY ONLY <2>9, ShrinksGood
<1>. QED  BY ONLY <1>1, <1>4, <1>10, <1>11

-----------------------------------------------------------------------------
(* CodeBuilder: the invariant is kept.                                     *)

Removal == [node : Nat, last : Nat, prev : Nat]

BuilderOK ==
    GoodList(Builder!State, removing, walk, func, localConstPool) /\ removing \in Removal

\* A node was put into the list that was in it already: nothing is said of what follows.
Doubled == ~Builder!IsInjective(order) /\ removing.node = 0 /\ walk.node = 0

BuilderInv == BuilderOK \/ Doubled

LEMMA PutInTwice ==
    ASSUME NEW o \in Seq(Pos), NEW x \in In(o), NEW i \in 1..Len(o) + 1
    PROVE  ~Builder!IsInjective(Builder!InsertAt(o, i, x))
<1>1. PICK t : t = Builder!InsertAt(o, i, x)
  OBVIOUS
<1>2. PICK n \in Nat : n = Len(o)
  BY LenProperties
<1>3. x \in Pos /\ \E k \in 1..Len(o) : o[k] = x
  BY AtIs
<1>4. PICK k \in 1..n : o[k] = x
  BY ONLY <1>2, <1>3
<1>5. /\ t \in Seq(Pos) /\ Len(t) = n + 1
      /\ \A m \in 1..n + 1 : t[m] = IF m < i THEN o[m] ELSE IF m = i THEN x ELSE o[m - 1]
  <2>1. /\ Builder!InsertAt(o, i, x) \in Seq(Pos) /\ Len(Builder!InsertAt(o, i, x)) = Len(o) + 1
        /\ \A m \in 1..Len(o) + 1 :
              Builder!InsertAt(o, i, x)[m] = IF m < i THEN o[m] ELSE IF m = i THEN x ELSE o[m - 1]
    BY ONLY <1>3, PutInSeq, o \in Seq(Pos), i \in 1..Len(o) + 1
  <2>. QED  BY ONLY <1>1, <1>2, <2>1
<1>6. DOMAIN t = 1..n + 1
  BY ONLY <1>5
<1>7. i \in 1..n + 1 /\ ~(i < i)
  BY ONLY <1>2, i \in 1..Len(o) + 1
<1>8. \/ k \in 1..n + 1 /\ k < i /\ k # i
      \/ k + 1 \in 1..n + 1 /\ ~(k + 1 < i) /\ k + 1 # i /\ (k + 1) - 1 = k
  BY ONLY <1>7, k \in 1..n, n \in Nat
<1>9. t[i] = x
  BY ONLY <1>5, <1>7
<1>10. \E m \in 1..n + 1 : m # i /\ t[m] = x
  BY ONLY <1>4, <1>5, <1>8
<1>. QED  BY ONLY <1>1, <1>6, <1>7, <1>9, <1>10 DEF Builder!IsInjective

\* The fields that a state of the list has.
Shaped(s) ==
    \E a, b, c, d, e, g :
        s = [node |-> a, first |-> b, last |-> c, cursor |-> d, order |-> e, rest |-> g]

LEMMA NextKeepsOrder ==
    ASSUME NEW s, NEW p, NEW n, Shaped(s)
    PROVE  Shaped(Builder!SetNext(s, p, n)) /\ Builder!SetNext(s, p, n).order = s.order
<1>1. PICK a, b, c, d, e, g :
         s = [node |-> a, first |-> b, last |-> c, cursor |-> d, order |-> e, rest |-> g]
  BY ONLY Shaped(s) DEF Shaped
<1>2. PICK r : r = Builder!SetNext(s, p, n)
  OBVIOUS
<1>3. CASE p = 0
  <2>1. r = [node |-> a, first |-> n, last |-> c, cursor |-> d, order |-> e, rest |-> g]
    BY ONLY <1>1, <1>2, <1>3 DEF Builder!SetNext
  <2>2. Shaped(r)
    BY ONLY <2>1, Zenon DEF Shaped
  <2>3. r.order = s.order
    BY ONLY <1>1, <2>1
  <2>. QED  BY ONLY <1>2, <2>2, <2>3
<1>4. CASE p # 0
  <2>1. PICK h : h = [a EXCEPT ![p].next = n]
    OBVIOUS
  <2>2. r = [node |-> h, first |-> b, last |-> c, cursor |-> d, order |-> e, rest |-> g]
    BY ONLY <1>1, <1>2, <1>4, <2>1 DEF Builder!SetNext
  <2>3. Shaped(r)
    BY ONLY <2>2, Zenon DEF Shaped
  <2>4. r.order = s.order
    BY ONLY <1>1, <2>2
  <2>. QED  BY ONLY <1>2, <2>3, <2>4
<1>. QED  BY ONLY <1>3, <1>4

LEMMA PrevKeepsOrder ==
    ASSUME NEW s, NEW p, NEW n, Shaped(s)
    PROVE  Shaped(Builder!SetPrev(s, n, p)) /\ Builder!SetPrev(s, n, p).order = s.order
<1>1. PICK a, b, c, d, e, g :
         s = [node |-> a, first |-> b, last |-> c, cursor |-> d, order |-> e, rest |-> g]
  BY ONLY Shaped(s) DEF Shaped
<1>2. PICK r : r = Builder!SetPrev(s, n, p)
  OBVIOUS
<1>3. CASE n = 0
  <2>1. r = [node |-> a, first |-> b, last |-> p, cursor |-> d, order |-> e, rest |-> g]
    BY ONLY <1>1, <1>2, <1>3 DEF Builder!SetPrev
  <2>2. Shaped(r)
    BY ONLY <2>1, Zenon DEF Shaped
  <2>3. r.order = s.order
    BY ONLY <1>1, <2>1
  <2>. QED  BY ONLY <1>2, <2>2, <2>3
<1>4. CASE n # 0
  <2>1. PICK h : h = [a EXCEPT ![n].prev = p]
    OBVIOUS
  <2>2. r = [node |-> h, first |-> b, last |-> c, cursor |-> d, order |-> e, rest |-> g]
    BY ONLY <1>1, <1>2, <1>4, <2>1 DEF Builder!SetPrev
  <2>3. Shaped(r)
    BY ONLY <2>2, Zenon DEF Shaped
  <2>4. r.order = s.order
    BY ONLY <1>1, <2>2
  <2>. QED  BY ONLY <1>2, <2>3, <2>4
<1>. QED  BY ONLY <1>3, <1>4

\* Whatever the links were, the node is put at its place.
LEMMA BetweenPuts ==
    ASSUME NEW s, NEW p, NEW n, NEW q, NEW i, Shaped(s)
    PROVE  /\ Shaped(Builder!Between(s, p, n, q, i))
           /\ Builder!Between(s, p, n, q, i).order = Builder!InsertAt(s.order, i, n)
<1>1. PICK a, b, c, d, e, g :
         s = [node |-> a, first |-> b, last |-> c, cursor |-> d, order |-> e, rest |-> g]
  BY ONLY Shaped(s) DEF Shaped
<1>2. PICK h, o : h = [a EXCEPT ![n].prev = p, ![n].next = q] /\ o = Builder!InsertAt(e, i, n)
  OBVIOUS
<1>3. PICK t : t = [s EXCEPT !.node[n].prev = p, !.node[n].next = q,
                             !.order = Builder!InsertAt(@, i, n)]
  OBVIOUS
<1>4. t = [node |-> h, first |-> b, last |-> c, cursor |-> d, order |-> o, rest |-> g]
  BY ONLY <1>1, <1>2, <1>3
<1>5. Shaped(t) /\ t.order = o /\ s.order = e
  BY ONLY <1>1, <1>4 DEF Shaped
<1>6. PICK u : u = Builder!SetPrev(t, q, n)
  OBVIOUS
<1>7. Shaped(u) /\ u.order = o
  BY ONLY <1>5, <1>6, PrevKeepsOrder
<1>8. PICK r : r = Builder!SetNext(u, p, n)
  OBVIOUS
<1>9. Shaped(r) /\ r.order = o
  BY ONLY <1>7, <1>8, NextKeepsOrder
<1>10. r = Builder!Between(s, p, n, q, i)
  BY ONLY <1>3, <1>6, <1>8 DEF Builder!Between
<1>. QED  BY ONLY <1>2, <1>5, <1>9, <1>10

\* r is s with a node put at some place that is in the list already.
PutsTwice(s, r, n) ==
    /\ s \in StateRec /\ n \in In(s.order) /\ s.cursor \in {0} \cup In(s.order)
    /\ \/ r = Builder!AddNode(s, n)
       \/ \E ref \in In(s.order) : r = Builder!AddAfter(s, n, ref) \/ r = Builder!AddBefore(s, n, ref)

LEMMA PutTwice ==
    ASSUME NEW s, NEW r, NEW n, PutsTwice(s, r, n)
    PROVE  ~Builder!IsInjective(r.order)
<1>1. /\ s \in StateRec /\ n \in In(s.order) /\ s.cursor \in {0} \cup In(s.order)
      /\ \/ r = Builder!AddNode(s, n)
         \/ \E ref \in In(s.order) : r = Builder!AddAfter(s, n, ref) \/ r = Builder!AddBefore(s, n, ref)
  BY ONLY PutsTwice(s, r, n) DEF PutsTwice
<1>2. s.order \in Seq(Pos) /\ Len(s.order) \in Nat
  BY ONLY <1>1, StateRecIs, LenProperties
<1>3. Shaped(s)
  BY ONLY <1>1 DEF StateRec, Shaped
<1>4. \A ref \in In(s.order) :
         /\ Builder!Place(s, ref) \in 1..Len(s.order) + 1
         /\ Builder!Place(s, ref) + 1 \in 1..Len(s.order) + 1
  <2>. TAKE ref \in In(s.order)
  <2>1. PICK k : k = Builder!Place(s, ref)
    OBVIOUS
  <2>2. k \in 1..Len(s.order)
    BY ONLY <2>1, PlaceIs, ref \in In(s.order)
  <2>3. k \in 1..Len(s.order) + 1 /\ k + 1 \in 1..Len(s.order) + 1
    BY ONLY <1>2, <2>2
  <2>. QED  BY ONLY <2>1, <2>3
<1>5. 1 \in 1..Len(s.order) + 1
  BY ONLY <1>2
<1>6. PICK t, p, q, i : /\ i \in 1..Len(s.order) + 1 /\ t = Builder!Between(s, p, n, q, i)
                        /\ r = t \/ r = [t EXCEPT !.cursor = n]
  <2>1. CASE r = Builder!AddNode(s, n)
    <3>1. CASE s.cursor = 0
      <4>1. r = [Builder!Between(s, 0, n, s.first, 1) EXCEPT !.cursor = n]
        BY ONLY <2>1, <3>1 DEF Builder!AddNode
      <4>. QED  BY ONLY <1>5, <4>1
    <3>2. CASE s.cursor # 0
      <4>1. r = [Builder!AddAfter(s, n, s.cursor) EXCEPT !.cursor = n]
        BY ONLY <2>1, <3>2 DEF Builder!AddNode
      <4>2. r = [Builder!Between(s, s.cursor, n, s.node[s.cursor].next,
                                 Builder!Place(s, s.cursor) + 1) EXCEPT !.cursor = n]
        BY ONLY <4>1 DEF Builder!AddAfter
      <4>3. s.cursor \in In(s.order)
        BY ONLY <1>1, <3>2
      <4>. QED  BY ONLY <1>4, <4>2, <4>3
    <3>. QED  BY ONLY <3>1, <3>2
  <2>2. ASSUME NEW ref \in In(s.order), r = Builder!AddAfter(s, n, ref)
        PROVE  \E t, p, q, i : /\ i \in 1..Len(s.order) + 1 /\ t = Builder!Between(s, p, n, q, i)
                               /\ r = t \/ r = [t EXCEPT !.cursor = n]
    <3>1. r = Builder!Between(s, ref, n, s.node[ref].next, Builder!Place(s, ref) + 1)
      BY ONLY <2>2 DEF Builder!AddAfter
    <3>. QED  BY ONLY <1>4, <3>1, ref \in In(s.order)
  <2>3. ASSUME NEW ref \in In(s.order), r = Builder!AddBefore(s, n, ref)
        PROVE  \E t, p, q, i : /\ i \in 1..Len(s.order) + 1 /\ t = Builder!Between(s, p, n, q, i)
                               /\ r = t \/ r = [t EXCEPT !.cursor = n]
    <3>1. r = Builder!Between(s, s.node[ref].prev, n, ref, Builder!Place(s, ref))
      BY ONLY <2>3 DEF Builder!AddBefore
    <3>. QED  BY ONLY <1>4, <3>1, ref \in In(s.order)
  <2>. QED  BY ONLY <1>1, <2>1, <2>2, <2>3
<1>7. Shaped(t) /\ t.order = Builder!InsertAt(s.order, i, n)
  BY ONLY <1>3, <1>6, BetweenPuts
<1>8. PICK a, b, c, d, e, g :
         t = [node |-> a, first |-> b, last |-> c, cursor |-> d, order |-> e, rest |-> g]
  BY ONLY <1>7 DEF Shaped
<1>9. r.order = t.order
  BY ONLY <1>6, <1>8
<1>10. ~Builder!IsInjective(Builder!InsertAt(s.order, i, n))
  BY ONLY <1>1, <1>2, <1>6, PutInTwice
<1>. QED  BY ONLY <1>7, <1>9, <1>10

LEMMA BecomesState ==
    ASSUME NEW r, r \in StateRec, Builder!Become(r)
    PROVE  Builder!State' = r
<1>1. r = [node |-> r.node, first |-> r.first, last |-> r.last, cursor |-> r.cursor,
           order |-> r.order, rest |-> r.rest]
  BY ONLY r \in StateRec DEF StateRec
<1>2. /\ node' = r.node /\ first' = r.first /\ last' = r.last /\ cursor' = r.cursor
      /\ order' = r.order /\ cutOut' = r.rest
  BY ONLY Builder!Become(r) DEF Builder!Become
<1>3. Builder!State' = [node |-> node', first |-> first', last |-> last', cursor |-> cursor',
                        order |-> order', rest |-> cutOut']
  BY DEF Builder!State
<1>. QED  BY ONLY <1>1, <1>2, <1>3

LEMMA BecomesGood ==
    ASSUME NEW r, NEW rm, NEW wk, NEW f, NEW c, GoodList(r, rm, wk, f, c), rm \in Removal,
           removing' = rm, walk' = wk, func' = f, localConstPool' = c, Builder!Become(r)
    PROVE  BuilderInv'
<1>1. r \in StateRec
  BY ONLY GoodList(r, rm, wk, f, c) DEF GoodList, SoFar, Chained
<1>2. Builder!State' = r
  BY ONLY <1>1, Builder!Become(r), BecomesState
<1>3. GoodList(Builder!State', removing', walk', func', localConstPool')
  BY ONLY <1>2, GoodList(r, rm, wk, f, c), removing' = rm, walk' = wk, func' = f, localConstPool' = c
<1>4. removing' \in Removal
  BY ONLY rm \in Removal, removing' = rm
<1>. QED  BY ONLY <1>3, <1>4 DEF BuilderInv, BuilderOK

LEMMA BecomesDoubled ==
    ASSUME NEW r, ~Builder!IsInjective(r.order), removing.node = 0, walk.node = 0,
           removing' = removing, walk' = walk, Builder!Become(r)
    PROVE  BuilderInv'
<1>1. order' = r.order
  BY ONLY Builder!Become(r) DEF Builder!Become
<1>2. PICK o : o = order'
  OBVIOUS
<1>3. ~Builder!IsInjective(o)
  BY ONLY <1>1, <1>2, ~Builder!IsInjective(r.order)
<1>4. (~Builder!IsInjective(order))'
  BY ONLY <1>2, <1>3 DEF Builder!IsInjective
<1>. QED  BY ONLY <1>4, removing.node = 0, walk.node = 0, removing' = removing, walk' = walk
             DEF BuilderInv, Doubled

LEMMA StateIs ==
    ASSUME NEW s, s = Builder!State
    PROVE  /\ s.node = node /\ s.first = first /\ s.last = last /\ s.cursor = cursor
           /\ s.order = order /\ s.rest = cutOut
BY DEF Builder!State

LEMMA RangeIsIn == \A q : Builder!Range(q) = {q[k] : k \in DOMAIN q}
BY DEF Builder!Range

\* Nothing is done with a list that has a node twice.
LEMMA DoubledStays ==
    ASSUME Doubled, [Builder!Next]_(Builder!vars)
    PROVE  BuilderInv'
<1>1. ~Builder!Idle /\ removing.node = 0 /\ walk.node = 0
  BY ONLY Doubled DEF Doubled, Builder!Idle
<1>2. ~Builder!Next
  BY ONLY <1>1 DEF Builder!Next, Builder!Emit, Builder!NewLabel, Builder!AddFunc, Builder!NewConst,
     Builder!EndFunc, Builder!EmitJump, Builder!Bind, Builder!Again, Builder!RemoveUnreachable,
     Builder!RemoveNodes, Builder!RemoveNext, Builder!RemoveUnreachableNext, Builder!SetCursor
<1>3. order' = order /\ removing' = removing /\ walk' = walk
  BY ONLY <1>2, [Builder!Next]_(Builder!vars) DEF Builder!vars, Builder!list
<1>4. Doubled'
  BY ONLY <1>3, Doubled DEF Doubled, Builder!IsInjective
<1>. QED  BY ONLY <1>4 DEF BuilderInv

LEMMA BuilderStep ==
    ASSUME BuilderOK, [Builder!Next]_(Builder!vars)
    PROVE  BuilderInv'
<1>1. PICK s, rm, wk, f, c : /\ s = Builder!State /\ rm = removing /\ wk = walk /\ f = func
                             /\ c = localConstPool
  OBVIOUS
<1>2. GoodList(s, rm, wk, f, c) /\ rm \in Removal
  BY ONLY <1>1, BuilderOK DEF BuilderOK
<1>3. /\ s.node = node /\ s.first = first /\ s.last = last /\ s.cursor = cursor
      /\ s.order = order /\ s.rest = cutOut
  BY ONLY <1>1, StateIs
<1>4. s \in StateRec
  BY ONLY <1>2 DEF GoodList, SoFar, Chained
<1>5. s.node \in Seq(NodeRec) /\ s.order \in Seq(Pos)
  BY ONLY <1>4, StateRecIs
<1>6. /\ DOMAIN node = 1..Len(s.node) /\ Builder!Range(order) = In(s.order)
      /\ DOMAIN order = 1..Len(s.order)
  <2>1. DOMAIN node = 1..Len(s.node) /\ DOMAIN order = 1..Len(s.order)
    BY ONLY <1>3, <1>5
  <2>. QED  BY ONLY <1>3, <2>1, RangeIsIn DEF In
<1>7. Builder!Idle => Idles(s, rm, wk, f, c)
  BY ONLY <1>1, <1>2 DEF Builder!Idle, Idles
<1>25. Builder!Idle => removing.node = 0 /\ walk.node = 0 /\ s.cursor \in {0} \cup In(s.order)
  BY ONLY <1>1, <1>2, RestIsEmpty DEF Builder!Idle
<1>8. \A n : Builder!Linked(n) <=> n \in In(s.order)
  BY ONLY <1>6 DEF Builder!Linked
<1>9. \A n : Builder!Free(n) => s.node[n].kind # "end"
  BY ONLY <1>3 DEF Builder!Free
<1>10. \A n : Builder!Unreachable(n) => s.node[n].kind # "end"
  BY ONLY <1>3, <1>9 DEF Builder!Unreachable
<1>11. ASSUME NEW k \in Kinds, Builder!Emit(k)
       PROVE  BuilderInv'
  <2>1. k \in KindNames
    BY ONLY BuilderAssumption, k \in Kinds DEF Builder!BuilderAssumption, KindNames
  <2>2. PICK r : r = Builder!AddNode([s EXCEPT !.node = Append(s.node, Builder!Node(k))],
                                     Len(s.node) + 1)
    OBVIOUS
  <2>3. /\ Builder!Idle /\ Builder!Become(r)
        /\ func' = func /\ localConstPool' = localConstPool /\ removing' = removing /\ walk' = walk
    BY ONLY <1>1, <1>3, <1>11, <2>2 DEF Builder!Emit
  <2>4. GoodList(r, rm, wk, f, c)
    BY ONLY <1>7, <2>1, <2>2, <2>3, EmitGood DEF Emits
  <2>. QED  BY ONLY <1>1, <1>2, <2>3, <2>4, BecomesGood
<1>12. ASSUME Builder!NewLabel
       PROVE  BuilderInv'
  <2>1. PICK r : r = [s EXCEPT !.node = Append(s.node, Builder!Node("label"))]
    OBVIOUS
  <2>2. /\ Builder!Idle /\ node' = Append(node, Builder!Node("label"))
        /\ first' = first /\ last' = last /\ cursor' = cursor /\ order' = order /\ cutOut' = cutOut
        /\ func' = func /\ localConstPool' = localConstPool /\ removing' = removing /\ walk' = walk
    BY ONLY <1>12 DEF Builder!NewLabel
  <2>3. Builder!Become(r)
    BY ONLY <1>3, <1>4, <2>1, <2>2 DEF StateRec, Builder!Become
  <2>4. "label" \in KindNames
    BY DEF KindNames
  <2>5. PICK d : d = c
    OBVIOUS
  <2>6. GoodList(r, rm, wk, f, c)
    BY ONLY <1>7, <2>1, <2>2, <2>4, <2>5, MakesGood DEF MakesOnly
  <2>. QED  BY ONLY <1>1, <1>2, <2>2, <2>3, <2>6, BecomesGood
<1>13. ASSUME Builder!AddFunc
       PROVE  BuilderInv'
  <2>1. PICK n : n = Len(s.node) + 1
    OBVIOUS
  <2>2. PICK r : r = [Builder!AddNode(Builder!AddNode(Builder!AddNode(
                        [s EXCEPT !.node = s.node \o
                          <<Builder!Node("func"), Builder!Node("exit"), Builder!Node("end")>>],
                        n), n + 1), n + 2) EXCEPT !.cursor = n]
    OBVIOUS
  <2>3. /\ Builder!Idle /\ Builder!Become(r) /\ func' = n
        /\ localConstPool' = localConstPool /\ removing' = removing /\ walk' = walk
    BY ONLY <1>1, <1>3, <1>13, <2>1, <2>2 DEF Builder!AddFunc
  <2>4. GoodList(r, rm, wk, n, c)
    BY ONLY <1>7, <2>1, <2>2, <2>3, StartFuncGood DEF StartsFunc
  <2>. QED  BY ONLY <1>1, <1>2, <2>3, <2>4, BecomesGood
<1>14. ASSUME Builder!NewConst
       PROVE  BuilderInv'
  <2>1. PICK r : r = [s EXCEPT !.node = Append(s.node, Builder!Node("pool"))]
    OBVIOUS
  <2>2. /\ Builder!Idle /\ node' = Append(node, Builder!Node("pool"))
        /\ localConstPool' = Len(node')
        /\ first' = first /\ last' = last /\ cursor' = cursor /\ order' = order /\ cutOut' = cutOut
        /\ func' = func /\ removing' = removing /\ walk' = walk
    BY ONLY <1>14 DEF Builder!NewConst
  <2>3. Builder!Become(r)
    BY ONLY <1>3, <1>4, <2>1, <2>2 DEF StateRec, Builder!Become
  <2>4. "pool" \in KindNames
    BY DEF KindNames
  <2>5. PICK d : d = Len(s.node) + 1
    OBVIOUS
  <2>6. Builder!Node("pool") \in NodeRec
    BY ONLY <2>4, NodeIsBlank DEF Blank
  <2>7. localConstPool' = d
    <3>1. Len(Append(s.node, Builder!Node("pool"))) = Len(s.node) + 1
      BY ONLY <1>5, <2>6, AppendProperties
    <3>. QED  BY ONLY <1>3, <2>2, <2>5, <3>1
  <2>8. GoodList(r, rm, wk, f, d)
    BY ONLY <1>7, <2>1, <2>2, <2>4, <2>5, MakesGood DEF MakesOnly
  <2>. QED  BY ONLY <1>1, <1>2, <2>2, <2>3, <2>7, <2>8, BecomesGood
<1>15. ASSUME Builder!EndFunc
       PROVE  BuilderInv'
  <2>1. PICK r : r = [(IF c = 0 THEN s
                       ELSE Builder!AddNode([s EXCEPT !.cursor = s.node[f + 2].prev], c))
                      EXCEPT !.cursor = f + 2]
    OBVIOUS
  <2>2. /\ Builder!Idle /\ f # 0 /\ Builder!Become(r) /\ func' = 0 /\ localConstPool' = 0
        /\ removing' = removing /\ walk' = walk
    BY ONLY <1>1, <1>3, <1>15, <2>1 DEF Builder!EndFunc
  <2>3. GoodList(r, rm, wk, 0, 0)
    BY ONLY <1>7, <2>1, <2>2, EndFuncGood DEF EndsFunc
  <2>. QED  BY ONLY <1>1, <1>2, <2>2, <2>3, BecomesGood
<1>16. ASSUME NEW l \in DOMAIN node, Builder!EmitJump(l)
       PROVE  BuilderInv'
  <2>1. PICK t : t = [s EXCEPT !.node =
              [Append(s.node, [Builder!Node("jump") EXCEPT !.target = l, !.jumpNext = s.node[l].from])
               EXCEPT ![l].from = Len(s.node) + 1, ![l].numRefs = @ + 1]]
    OBVIOUS
  <2>2. PICK r : r = Builder!AddNode(t, Len(s.node) + 1)
    OBVIOUS
  <2>6. PICK n : n = Len(s.node) + 1
    OBVIOUS
  <2>7. PICK b : b = [Builder!Node("jump") EXCEPT !.target = l, !.jumpNext = s.node[l].from]
    OBVIOUS
  <2>8. PICK v : v = [Append(s.node, b) EXCEPT ![l].from = n, ![l].numRefs = @ + 1]
    OBVIOUS
  <2>9. t = [s EXCEPT !.node = v]
    BY ONLY <2>1, <2>6, <2>7, <2>8
  <2>10. /\ Builder!Idle
         /\ Builder!Become(Builder!AddNode([Builder!State EXCEPT !.node = v], n))
         /\ func' = func /\ localConstPool' = localConstPool /\ removing' = removing /\ walk' = walk
    BY ONLY <1>3, <1>16, <2>6, <2>7, <2>8 DEF Builder!EmitJump
  <2>3. Builder!Become(r)
    BY ONLY <1>1, <2>2, <2>6, <2>9, <2>10
  <2>4. MakesJump(s, t, l)
    BY ONLY <1>4, <1>6, <2>1, l \in DOMAIN node DEF MakesJump
  <2>5. GoodList(r, rm, wk, f, c)
    BY ONLY <1>7, <2>2, <2>4, <2>10, EmitJumpGood DEF EmitsJump
  <2>. QED  BY ONLY <1>1, <1>2, <2>3, <2>5, <2>10, BecomesGood
<1>17. ASSUME NEW n \in DOMAIN node, Builder!Bind(n)
       PROVE  BuilderInv'
  <2>1. PICK r : r = Builder!AddNode(s, n)
    OBVIOUS
  <2>2. /\ Builder!Idle /\ Builder!Become(r) /\ node[n].kind = "label"
        /\ func' = func /\ localConstPool' = localConstPool /\ removing' = removing /\ walk' = walk
    BY ONLY <1>1, <1>17, <2>1 DEF Builder!Bind
  <2>3. CASE n \notin In(s.order)
    <3>1. GoodList(r, rm, wk, f, c)
      BY ONLY <1>3, <1>6, <1>7, <2>1, <2>2, <2>3, n \in DOMAIN node, BindGood DEF Binds
    <3>. QED  BY ONLY <1>1, <1>2, <2>2, <3>1, BecomesGood
  <2>4. CASE n \in In(s.order)
    <3>1. PutsTwice(s, r, n)
      BY ONLY <1>4, <1>25, <2>1, <2>2, <2>4 DEF PutsTwice
    <3>. QED  BY ONLY <1>25, <2>2, <3>1, PutTwice, BecomesDoubled
  <2>. QED  BY ONLY <2>3, <2>4
<1>18. ASSUME NEW n \in DOMAIN node, NEW ref \in DOMAIN node, Builder!Again(n, ref)
       PROVE  BuilderInv'
  <2>1. /\ Builder!Idle /\ node[n].kind \in {"inst", "data"} /\ Builder!Linked(ref)
        /\ Builder!Become(Builder!AddAfter(s, n, ref)) \/ Builder!Become(Builder!AddBefore(s, n, ref))
        /\ func' = func /\ localConstPool' = localConstPool /\ removing' = removing /\ walk' = walk
    BY ONLY <1>1, <1>18 DEF Builder!Again
  <2>2. PICK r : /\ r = Builder!AddAfter(s, n, ref) \/ r = Builder!AddBefore(s, n, ref)
                 /\ Builder!Become(r)
    BY ONLY <2>1
  <2>3. CASE n \notin In(s.order)
    <3>1. GoodList(r, rm, wk, f, c)
      BY ONLY <1>3, <1>6, <1>7, <1>8, <2>1, <2>2, <2>3, n \in DOMAIN node, PutBackGood DEF PutsBack
    <3>. QED  BY ONLY <1>1, <1>2, <2>1, <2>2, <3>1, BecomesGood
  <2>4. CASE n \in In(s.order)
    <3>1. PutsTwice(s, r, n)
      BY ONLY <1>4, <1>8, <1>25, <2>1, <2>2, <2>4 DEF PutsTwice
    <3>. QED  BY ONLY <1>25, <2>1, <2>2, <3>1, PutTwice, BecomesDoubled
  <2>. QED  BY ONLY <2>3, <2>4
<1>19. ASSUME NEW n \in DOMAIN node, Builder!RemoveUnreachable(n)
       PROVE  BuilderInv'
  <2>1. /\ Builder!Idle /\ Builder!Linked(n) /\ Builder!Unreachable(n)
        /\ walk' = [node |-> n, everything |-> TRUE]
        /\ UNCHANGED <<node, first, last, cursor, order, cutOut>>
        /\ func' = func /\ localConstPool' = localConstPool /\ removing' = removing
    BY ONLY <1>19 DEF Builder!RemoveUnreachable, Builder!list
  <2>2. PICK pk : pk = [node |-> n, everything |-> TRUE]
    OBVIOUS
  <2>3. GoodList(s, rm, pk, f, c)
    BY ONLY <1>7, <1>8, <1>10, <2>1, <2>2, WalkStarts
  <2>4. Builder!Become(s)
    BY ONLY <1>3, <2>1 DEF Builder!Become
  <2>. QED  BY ONLY <1>1, <1>2, <2>1, <2>2, <2>3, <2>4, BecomesGood
<1>20. ASSUME NEW i \in DOMAIN order, NEW j \in DOMAIN order, i <= j, Builder!RemoveNodes(i, j)
       PROVE  BuilderInv'
  <2>1. PICK r : r = Builder!Gone(Builder!Cut(s, i, j), s.order[i], s.node[s.order[i]].prev)
    OBVIOUS
  <2>2. PICK d : d = IF i = j THEN Builder!NoRemoval
                     ELSE [node |-> s.node[s.order[i]].next, last |-> s.order[j],
                           prev |-> s.node[s.order[i]].prev]
    OBVIOUS
  <2>3. /\ Builder!Idle /\ Builder!Become(r) /\ removing' = d
        /\ \A k \in i..j : Builder!Free(order[k])
        /\ func' = func /\ localConstPool' = localConstPool /\ walk' = walk
    BY ONLY <1>1, <1>3, <1>20, <2>1, <2>2 DEF Builder!RemoveNodes
  <2>4. GoodList(r, d, wk, f, c)
    BY ONLY <1>3, <1>6, <1>7, <1>9, <1>20, <2>1, <2>2, <2>3, i \in DOMAIN order, j \in DOMAIN order,
            RemoveNodesGood DEF RemovesNodes
  <2>5. d \in Removal
    <3>1. \A k \in 1..Len(s.order) : s.order[k] \in Nat /\ s.order[k] \in 1..Len(s.node)
      BY ONLY <1>2, <1>5, AtIs, PosIs DEF GoodList, SoFar, Chained
    <3>2. s.order[j] \in Nat /\ s.node[s.order[i]] \in NodeRec
      BY ONLY <1>4, <1>6, <3>1, i \in DOMAIN order, j \in DOMAIN order, StateRecIs
    <3>3. s.node[s.order[i]].next \in Nat /\ s.node[s.order[i]].prev \in Nat
      BY ONLY <3>2, NodeRecIs
    <3>4. 0 \in Nat
      OBVIOUS
    <3>. QED  BY ONLY <2>2, <3>2, <3>3, <3>4 DEF Removal, Builder!NoRemoval
  <2>. QED  BY ONLY <1>1, <2>3, <2>4, <2>5, BecomesGood
<1>21. ASSUME Builder!RemoveNext
       PROVE  BuilderInv'
  <2>1. PICK r : r = Builder!Gone(s, rm.node, rm.prev)
    OBVIOUS
  <2>2. PICK d : d = IF rm.node = rm.last THEN Builder!NoRemoval
                     ELSE [rm EXCEPT !.node = s.node[rm.node].next]
    OBVIOUS
  <2>3. /\ rm.node # 0 /\ Builder!Become(r) /\ removing' = d
        /\ func' = func /\ localConstPool' = localConstPool /\ walk' = walk
    BY ONLY <1>1, <1>3, <1>21, <2>1, <2>2 DEF Builder!RemoveNext
  <2>4. GoodList(r, d, wk, f, c)
    BY ONLY <1>2, <2>1, <2>2, <2>3, RemoveNextGood DEF RemovesNext, Removal
  <2>5. d \in Removal
    <3>1. rm.node \in In(s.rest)
      <4>1. s.rest # << >> /\ rm.node = s.rest[1]
        BY ONLY <1>2, <2>3 DEF GoodList, RemovalOK
      <4>2. s.rest \in Seq(Pos)
        BY ONLY <1>4, StateRecIs
      <4>3. 1 \in 1..Len(s.rest)
        BY ONLY <4>1, <4>2, LenProperties, EmptySeq
      <4>. QED  BY ONLY <4>1, <4>3 DEF In
    <3>2. rm.node \in 1..Len(s.node)
      BY ONLY <1>2, <3>1 DEF GoodList, SoFar, Chained
    <3>3. s.node[rm.node].next \in Nat
      BY ONLY <1>4, <3>2, StateRecIs, NodeRecIs
    <3>4. 0 \in Nat
      OBVIOUS
    <3>. QED  BY ONLY <1>2, <2>2, <3>3, <3>4 DEF Removal, Builder!NoRemoval
  <2>. QED  BY ONLY <1>1, <2>3, <2>4, <2>5, BecomesGood
<1>22. ASSUME Builder!RemoveUnreachableNext
       PROVE  BuilderInv'
  <2>1. /\ wk.node # 0
        /\ \/ Builder!Become(Builder!RemoveNode(s, wk.node))
           \/ UNCHANGED <<node, first, last, cursor, order, cutOut>>
        /\ \/ walk' = Builder!NoWalk
           \/ /\ s.node[wk.node].next # 0 /\ Builder!Unreachable(s.node[wk.node].next)
              /\ \E e : walk' = [node |-> s.node[wk.node].next, everything |-> e]
        /\ func' = func /\ localConstPool' = localConstPool /\ removing' = removing
    BY ONLY <1>1, <1>3, <1>22 DEF Builder!RemoveUnreachableNext, Builder!list
  <2>2. PICK r : (r = s \/ r = Builder!RemoveNode(s, wk.node)) /\ Builder!Become(r)
    <3>1. CASE UNCHANGED <<node, first, last, cursor, order, cutOut>>
      <4>1. Builder!Become(s)
        BY ONLY <1>3, <3>1 DEF Builder!Become
      <4>. QED  BY ONLY <4>1
    <3>. QED  BY ONLY <2>1, <3>1
  <2>3. PICK pk : pk = walk'
    OBVIOUS
  <2>4. \/ pk.node = 0
        \/ pk.node # 0 /\ pk.node = s.node[wk.node].next /\ s.node[pk.node].kind # "end"
    BY ONLY <1>10, <2>1, <2>3 DEF Builder!NoWalk
  <2>5. GoodList(r, rm, pk, f, c)
    BY ONLY <1>2, <2>1, <2>2, <2>4, WalkOnGood DEF WalksOn
  <2>. QED  BY ONLY <1>1, <1>2, <2>1, <2>2, <2>3, <2>5, BecomesGood
<1>23. ASSUME NEW n \in {0} \cup Builder!Range(order), Builder!SetCursor(n)
       PROVE  BuilderInv'
  <2>1. PICK r : r = [s EXCEPT !.cursor = n]
    OBVIOUS
  <2>2. /\ Builder!Idle /\ cursor' = n
        /\ node' = node /\ first' = first /\ last' = last /\ order' = order /\ cutOut' = cutOut
        /\ func' = func /\ localConstPool' = localConstPool /\ removing' = removing /\ walk' = walk
    BY ONLY <1>23 DEF Builder!SetCursor
  <2>3. Builder!Become(r)
    BY ONLY <1>3, <1>4, <2>1, <2>2 DEF StateRec, Builder!Become
  <2>4. n \in {0} \cup In(s.order)
    BY ONLY <1>6, n \in {0} \cup Builder!Range(order)
  <2>5. GoodList(r, rm, wk, f, c)
    BY ONLY <1>7, <2>1, <2>2, <2>4, MoveGood DEF MovesCursor
  <2>. QED  BY ONLY <1>1, <1>2, <2>2, <2>3, <2>5, BecomesGood
<1>24. ASSUME UNCHANGED Builder!vars
       PROVE  BuilderInv'
  <2>1. /\ UNCHANGED <<node, first, last, cursor, order, cutOut>>
        /\ func' = func /\ localConstPool' = localConstPool /\ removing' = removing /\ walk' = walk
    BY ONLY <1>24 DEF Builder!vars, Builder!list
  <2>2. Builder!Become(s)
    BY ONLY <1>3, <2>1 DEF Builder!Become
  <2>. QED  BY ONLY <1>1, <1>2, <2>1, <2>2, BecomesGood
<1>. QED
  <2>1. CASE Builder!Next
    BY ONLY <2>1, <1>11, <1>12, <1>13, <1>14, <1>15, <1>16, <1>17, <1>18, <1>19, <1>20, <1>21,
            <1>22, <1>23 DEF Builder!Next
  <2>2. CASE UNCHANGED Builder!vars
    BY ONLY <2>2, <1>24
  <2>. QED  BY ONLY <2>1, <2>2, [Builder!Next]_(Builder!vars)

-----------------------------------------------------------------------------
(* CodeBuilder: the theorem.                                               *)

LEMMA BuilderInit ==
    ASSUME Builder!Init
    PROVE  BuilderInv
<1>1. PICK s : s = Builder!State
  OBVIOUS
<1>2. /\ s = [node |-> << >>, first |-> 0, last |-> 0, cursor |-> 0, order |-> << >>,
              rest |-> << >>]
      /\ func = 0 /\ localConstPool = 0 /\ removing = [node |-> 0, last |-> 0, prev |-> 0]
      /\ walk = [node |-> 0, everything |-> FALSE]
  BY ONLY <1>1, Builder!Init DEF Builder!Init, Builder!State, Builder!NoRemoval, Builder!NoWalk
<1>3. /\ s.node = << >> /\ s.first = 0 /\ s.last = 0 /\ s.cursor = 0 /\ s.order = << >>
      /\ s.rest = << >>
  BY ONLY <1>2
<1>4. << >> \in Seq(NodeRec) /\ << >> \in Seq(Pos) /\ Len(<< >>) = 0
  OBVIOUS
<1>5. 0 \in Nat
  OBVIOUS
<1>6. s \in StateRec
  BY ONLY <1>2, <1>4, <1>5 DEF StateRec
<1>7. \A k : k \notin 1..0
  OBVIOUS
<1>8. In(s.order) = {} /\ In(s.rest) = {} /\ Len(s.node) = 0 /\ There(s) = {}
  BY ONLY <1>3, <1>4, <1>7 DEF In, There
<1>9. LinkedAs(s, s.order)
  <2>1. \A k : At(s.order, k) = 0
    BY ONLY <1>3, <1>4, <1>7 DEF At
  <2>. QED  BY ONLY <1>3, <2>1 DEF LinkedAs, Nx, Pv
<1>10. Chained(s)
  BY ONLY <1>3, <1>4, <1>6, <1>7, <1>8, <1>9 DEF Chained, Once, Loose
<1>11. JumpsOK(s, There(s))
  BY ONLY <1>6, <1>7, <1>8 DEF JumpsOK
<1>12. GoodList(s, removing, walk, func, localConstPool)
  BY ONLY <1>2, <1>3, <1>5, <1>8, <1>10, <1>11
     DEF GoodList, SoFar, RemovalOK, WalkOK, FuncOK, PoolOK
<1>13. removing \in Removal
  BY ONLY <1>2, <1>5 DEF Removal
<1>. QED  BY ONLY <1>1, <1>12, <1>13 DEF BuilderInv, BuilderOK

LEMMA SameCardinality == \A S : Builder!Cardinality(S) = Cardinality(S)
BY DEF Builder!Cardinality, Cardinality

LEMMA InvIsInOrder ==
    ASSUME BuilderOK
    PROVE  NodesInOrder
<1>1. PICK s, rm, wk, f, c : /\ s = Builder!State /\ rm = removing /\ wk = walk /\ f = func
                             /\ c = localConstPool
  OBVIOUS
<1>2. GoodList(s, rm, wk, f, c)
  BY ONLY <1>1, BuilderOK DEF BuilderOK
<1>3. /\ s.node = node /\ s.first = first /\ s.last = last /\ s.cursor = cursor
      /\ s.order = order /\ s.rest = cutOut
  BY ONLY <1>1, StateIs
<1>4. /\ Chained(s) /\ JumpsOK(s, There(s)) /\ s.cursor \in {0} \cup There(s)
      /\ RemovalOK(s, rm)
  BY ONLY <1>2 DEF GoodList, SoFar
<1>5. /\ s \in StateRec
      /\ \A m \in In(s.order) : m \in 1..Len(s.node) /\ m \notin In(s.rest)
      /\ \A m \in In(s.rest) : m \in 1..Len(s.node)
      /\ Once(s.order) /\ Once(s.rest)
      /\ LinkedAs(s, s.order)
      /\ \A m : Loose(s, m) => Nx(s, m) = 0 /\ Pv(s, m) = 0
      /\ \A k \in 1..Len(s.rest) : k + 1 \in 1..Len(s.rest) => Nx(s, s.rest[k]) = s.rest[k + 1]
  BY ONLY <1>4 DEF Chained
<1>6. s.node \in Seq(NodeRec) /\ s.order \in Seq(Pos) /\ s.rest \in Seq(Pos) /\ Len(s.node) \in Nat
  BY ONLY <1>5, StateRecIs
<1>7. PICK n \in Nat, k \in Nat : n = Len(s.order) /\ k = Len(s.rest)
  BY ONLY <1>6, LenProperties
<1>8. DOMAIN node = 1..Len(s.node) /\ DOMAIN order = 1..n /\ DOMAIN cutOut = 1..k
  BY ONLY <1>3, <1>6, <1>7
<1>9. Builder!Range(order) \cup Builder!Range(cutOut) = There(s)
  BY ONLY <1>3, <1>7, <1>8, RangeIsIn DEF There, In
<1>10. Builder!ListInOrder
  <2>2. 0 \in 0..n /\ 0 + 1 = 1 /\ n \in 0..n /\ (n # 0 => 1 \in 1..n /\ n \in 1..n)
    BY ONLY n \in Nat
  <2>3. At(s.order, 0) = 0 /\ At(s.order, n + 1) = 0
    BY ONLY <1>6, <1>7, AtIs
  <2>4. first = At(s.order, 1) /\ last = At(s.order, n)
    <3>1. Nx(s, 0) = At(s.order, 1)
      BY ONLY <1>5, <1>7, <2>2, <2>3 DEF LinkedAs
    <3>2. Pv(s, 0) = At(s.order, n)
      BY ONLY <1>5, <1>7, <2>2, <2>3 DEF LinkedAs
    <3>. QED  BY ONLY <1>3, <3>1, <3>2 DEF Nx, Pv
  <2>5. \A i : At(s.order, i) = IF i \in 1..n THEN order[i] ELSE 0
    BY ONLY <1>3, <1>7 DEF At
  <2>6. first = (IF n = 0 THEN 0 ELSE order[1]) /\ last = (IF n = 0 THEN 0 ELSE order[n])
    <3>1. n = 0 => 1 \notin 1..n /\ n \notin 1..n
      OBVIOUS
    <3>. QED  BY ONLY <2>2, <2>4, <2>5, <3>1
  <2>7. ASSUME NEW i \in 1..n
        PROVE  /\ node[order[i]].prev = IF i = 1 THEN 0 ELSE order[i - 1]
               /\ node[order[i]].next = IF i = n THEN 0 ELSE order[i + 1]
    <3>1. /\ node[order[i]].next = At(s.order, i + 1)
          /\ node[order[i]].prev = At(s.order, i - 1)
      BY ONLY <1>3, <1>4, <1>7, Neighbours, i \in 1..n
    <3>2. (i = 1 <=> i - 1 \notin 1..n) /\ (i = n <=> i + 1 \notin 1..n)
      BY ONLY n \in Nat, i \in 1..n
    <3>. QED  BY ONLY <2>5, <3>1, <3>2
  <2>8. Len(order) = n
    BY ONLY <1>3, <1>7
  <2>. QED  BY ONLY <2>6, <2>7, <2>8 DEF Builder!ListInOrder
<1>11. Builder!RestInOrder
  <2>1. Len(cutOut) = k /\ (k = 0 <=> s.rest = << >>)
    BY ONLY <1>3, <1>6, <1>7, EmptySeq
  <2>2. removing.node = (IF k = 0 THEN 0 ELSE cutOut[1]) /\ (k > 0 => removing.last = cutOut[k])
    <3>1. k > 0 => k # 0
      BY ONLY k \in Nat
    <3>. QED  BY ONLY <1>1, <1>3, <1>4, <1>7, <2>1, <3>1 DEF RemovalOK
  <2>3. ASSUME NEW i \in 1..k - 1
        PROVE  node[cutOut[i]].next = cutOut[i + 1]
    <3>1. i \in 1..k /\ i + 1 \in 1..k
      BY ONLY k \in Nat, i \in 1..k - 1
    <3>2. Nx(s, s.rest[i]) = s.rest[i + 1]
      BY ONLY <1>5, <1>7, <3>1
    <3>3. s.rest[i] # 0
      BY ONLY <1>6, <1>7, <3>1, AtIs, PosIs
    <3>. QED  BY ONLY <1>3, <3>2, <3>3 DEF Nx
  <2>. QED  BY ONLY <2>1, <2>2, <2>3 DEF Builder!RestInOrder
<1>12. ASSUME NEW m \in DOMAIN node, m \notin There(s)
       PROVE  Builder!Alone(m)
  <2>1. m \in 1..Len(s.node) /\ m # 0
    BY ONLY <1>6, <1>8, m \in DOMAIN node
  <2>2. Loose(s, m)
    BY ONLY <1>12, <2>1 DEF Loose, There
  <2>. QED  BY ONLY <1>3, <1>5, <2>1, <2>2 DEF Nx, Pv, Builder!Alone
<1>13. ASSUME NEW l \in DOMAIN node
       PROVE  LET chain == Builder!Chain(Builder!State, l) IN
              /\ chain = {m \in There(s) : node[m].target = l}
              /\ node[l].numRefs = Builder!Cardinality(chain)
              /\ \A m \in chain : node[m].jumpNext < m /\ m <= node[l].from
  <2>1. l \in 1..Len(s.node)
    BY ONLY <1>8, l \in DOMAIN node
  <2>2. PICK J : J = JumpsTo(s, There(s), l)
    OBVIOUS
  <2>3. Builder!Chain(Builder!State, l) = J
    BY ONLY <1>1, <1>4, <2>1, <2>2, ChainIs
  <2>4. J = {m \in There(s) : node[m].target = l}
    BY ONLY <1>3, <2>2 DEF JumpsTo
  <2>5. /\ Listed(s, J, l) /\ s.node[l].numRefs = Cardinality(J)
        /\ \A m \in There(s) : m \in 1..Len(s.node)
    BY ONLY <1>4, <2>1, <2>2 DEF JumpsOK
  <2>6. node[l].numRefs = Builder!Cardinality(J)
    BY ONLY <1>3, <2>5, SameCardinality
  <2>7. ASSUME NEW m \in J
        PROVE  node[m].jumpNext < m /\ m <= node[l].from
    <3>1. m \in 1..Len(s.node)
      BY ONLY <2>4, <2>5, m \in J
    <3>2. PICK x : x = s.node[m].jumpNext
      OBVIOUS
    <3>3. Newest(x, Older(J, m))
      BY ONLY <2>5, <3>2, m \in J DEF Listed
    <3>4. x = 0 \/ x < m
      BY ONLY <3>3 DEF Newest, Older
    <3>5. x < m
      BY ONLY <1>6, <3>1, <3>4
    <3>6. m <= s.node[l].from
      BY ONLY <2>5, m \in J DEF Listed, Newest
    <3>. QED  BY ONLY <1>3, <3>2, <3>5, <3>6
  <2>. QED  BY ONLY <2>3, <2>4, <2>6, <2>7
<1>14. cursor \in There(s) \cup {0}
  BY ONLY <1>3, <1>4
<1>15. /\ Builder!ListInOrder /\ Builder!RestInOrder
       /\ \A m \in DOMAIN node \ There(s) : Builder!Alone(m)
       /\ cursor \in There(s) \cup {0}
       /\ \A l \in DOMAIN node :
             LET chain == Builder!Chain(Builder!State, l) IN
             /\ chain = {m \in There(s) : node[m].target = l}
             /\ node[l].numRefs = Builder!Cardinality(chain)
             /\ \A m \in chain : node[m].jumpNext < m /\ m <= node[l].from
  BY ONLY <1>10, <1>11, <1>12, <1>13, <1>14
<1>. QED  BY ONLY <1>9, <1>15 DEF NodesInOrder, Builder!NodesInOrder

\* As long as no node is put into the list that is in it already, the list of nodes is the
\* nodes where they were put, from either end, and every label's jumps are those that are in
\* it (codebuilder.cpp), whatever is emitted, bound, removed and put back, for every number
\* of nodes.
THEOREM NodesCorrect == Builder!Spec => []NodesInOrder
<1>1. Builder!Init => BuilderInv
  BY BuilderInit
<1>2. BuilderInv /\ [Builder!Next]_(Builder!vars) => BuilderInv'
  BY BuilderStep, DoubledStays DEF BuilderInv
<1>3. BuilderInv => NodesInOrder
  BY InvIsInOrder DEF BuilderInv, Doubled, NodesInOrder, Builder!NodesInOrder
<1>. QED  BY <1>1, <1>2, <1>3, PTL DEF Builder!Spec

=============================================================================
