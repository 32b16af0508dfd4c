----------------------------- MODULE CodeHolder -----------------------------
(***************************************************************************)
(* Code with labels (asmjit/base/codeholder.cpp, assembler.cpp,            *)
(* codeemitter.cpp).  An Assembler that is attached writes behind its      *)
(* cursor into the buffer of the CodeHolder's one section; the places      *)
(* where a label's address or distance belongs are links until the label   *)
(* is bound, and addresses are relocations until the code is copied to     *)
(* where it runs.  Jumps and calls are emitted by a backend that the       *)
(* repository does not have: they are modelled by what bind and relocate   *)
(* expect of it.                                                           *)
(*                                                                         *)
(* A byte is <<v, k, s>>, the k-th of the s bytes of v.  The buffer grows  *)
(* as needed.                                                              *)
(***************************************************************************)
EXTENDS Integers, Sequences, FiniteSets

CONSTANTS
    gpSize,         \* bytes of an address
    Int8, Int32,    \* the distances that a displacement of 1 and of 4 bytes can hold, scaled
    Targets,        \* absolute addresses that are called
    Offsets,        \* to which the cursor is set
    Bases,          \* addresses that the code is copied to
    MaxCode,        \* bound: bytes of code
    MaxUses,        \* bound: places where a label or an address is used
    MaxLabels       \* bound: labels

VARIABLES
    data,           \* of the section's buffer: _data, as far as it was written
    length,         \* of the section's buffer
    trampolinesSize,
    labels,         \* the LabelEntries: [offset, links], offset -1 while not bound
    relocations,    \* the RelocEntries: [type, source, size, data]
    unresolvedLabelsCount,
    attached,       \* an Assembler is
    bufferPtr,      \* its cursor
    lastError,      \* it has one: every call of it does nothing
    binding,        \* in bind: [label, links, err], and the size of what follows; label 0 outside
    copy,           \* in relocate, and what it returns: [base, next, bytes, trampOffset]; base 0 outside
    uses,           \* history: what was emitted: [at, size, kind, of]
    failed          \* history: an error was reported

assembler == <<attached, bufferPtr, lastError>>
vars == <<data, length, trampolinesSize, labels, relocations, unresolvedLabelsCount, assembler,
          binding, copy, uses, failed>>

HolderAssumption ==
    /\ gpSize \in Nat \ {0} /\ Int8 \subseteq Int /\ Int32 \subseteq Int /\ Targets \subseteq Int
    /\ Offsets \subseteq Nat /\ Bases \subseteq Nat \ {0}
    /\ MaxCode \in Nat /\ MaxUses \in Nat /\ MaxLabels \in Nat

NoBinding == [label |-> 0, links |-> << >>, err |-> FALSE, follows |-> 0]
NoCopy    == [base |-> 0, next |-> 0, bytes |-> << >>, trampOffset |-> 0]

Init ==
    /\ data = << >> /\ length = 0 /\ trampolinesSize = 0
    /\ labels = << >> /\ relocations = << >> /\ unresolvedLabelsCount = 0
    /\ attached = FALSE /\ bufferPtr = 0 /\ lastError = FALSE
    /\ binding = NoBinding /\ copy = NoCopy
    /\ uses = {} /\ failed = FALSE

-----------------------------------------------------------------------------
Bytes(v, s) == [k \in 1..s |-> <<v, k, s>>]
Zeroes(s)   == [k \in 1..s |-> <<0, 1, 1>>]

Larger(x, y) == IF x < y THEN y ELSE x

\* b with new bytes from offset on, longer if need be.
Write(b, offset, new) ==
    [i \in 1..Larger(Len(b), offset + Len(new)) |->
        IF i > offset /\ i <= offset + Len(new) THEN new[i - offset] ELSE b[i]]

\* sync: code behind the section's length counts.
Synced == Larger(length, bufferPtr)

\* setLastError: the error handler may take the error upon itself.
SetLastError == /\ lastError' \in BOOLEAN /\ failed' = TRUE

\* Outside of the loops of bind and relocate.
Idle == binding.label = 0 /\ copy.base = 0

Ready == attached /\ ~lastError /\ Idle

Overlap(use, at, s) == use.at < at + s /\ at < use.at + use.size

\* New bytes at the cursor.  That they do not overwrite what a link or a relocation will
\* still be written to is the caller's care; here only data is overwritten.
Emitted(new, its) ==
    /\ bufferPtr + Len(new) <= MaxCode
    /\ \A use \in uses : ~Overlap(use, bufferPtr, Len(new))
    /\ data' = Write(data, bufferPtr, new)
    /\ bufferPtr' = bufferPtr + Len(new)
    /\ uses' = uses \cup its /\ Cardinality(uses') <= MaxUses

Use(s, kind, of) == [at |-> bufferPtr, size |-> s, kind |-> kind, of |-> of]

-----------------------------------------------------------------------------
(* Assembler.                                                              *)

Attach ==
    /\ Idle /\ ~attached
    /\ attached' = TRUE /\ bufferPtr' = length /\ lastError' = FALSE
    /\ UNCHANGED <<data, length, trampolinesSize, labels, relocations, unresolvedLabelsCount,
                   binding, copy, uses, failed>>

\* detach, and the destructor of an Assembler that is attached.
Detach ==
    /\ Idle /\ attached
    /\ length' = Synced
    /\ attached' = FALSE /\ bufferPtr' = 0 /\ lastError' = FALSE
    /\ UNCHANGED <<data, trampolinesSize, labels, relocations, unresolvedLabelsCount,
                   binding, copy, uses, failed>>

SetOffset(offset) ==
    /\ Ready
    /\ IF offset > Synced THEN SetLastError /\ UNCHANGED <<length, bufferPtr>>
       ELSE length' = Synced /\ bufferPtr' = offset /\ UNCHANGED <<lastError, failed>>
    /\ UNCHANGED <<data, trampolinesSize, labels, relocations, unresolvedLabelsCount, attached,
                   binding, copy, uses>>

NewLabel ==
    /\ Ready /\ Len(labels) < MaxLabels
    /\ labels' = Append(labels, [offset |-> -1, links |-> << >>])
    /\ UNCHANGED <<data, length, trampolinesSize, relocations, unresolvedLabelsCount, assembler,
                   binding, copy, uses, failed>>

\* A label can be bound once.
Bindable(l) == labels[l].offset = -1

\* bind as far as its loop, and what follows the label.
BindThen(l, follows) ==
    IF Bindable(l)
    THEN /\ binding' = [label |-> l, links |-> labels[l].links, err |-> FALSE, follows |-> follows]
         /\ UNCHANGED <<lastError, failed>>
    ELSE SetLastError /\ UNCHANGED binding

Bind(l) ==
    /\ Ready
    /\ BindThen(l, 0)
    /\ UNCHANGED <<data, length, trampolinesSize, labels, relocations, unresolvedLabelsCount,
                   attached, bufferPtr, copy, uses>>

\* The displacement of a link as it is patched, << >> if it cannot be.
Patched(link) ==
    LET value == bufferPtr - link.offset + link.rel
        s     == data[link.offset + 1][1]
    IN  IF s = 4 THEN Bytes(value, 4)
        ELSE IF s = 1 /\ value \in Int8 THEN Bytes(value, 1)
        ELSE << >>

\* A pass of its loop: a link is resolved.
BindNext ==
    LET link == Head(binding.links) IN
    /\ binding.label # 0 /\ binding.links # << >>
    /\ IF link.relocId # 0
       THEN /\ relocations' = [relocations EXCEPT ![link.relocId].data = @ + bufferPtr]
            /\ binding' = [binding EXCEPT !.links = Tail(@)]
            /\ UNCHANGED data
       ELSE /\ data' = Write(data, link.offset, Patched(link))
            /\ binding' = [binding EXCEPT !.links = Tail(@), !.err = @ \/ Patched(link) = << >>]
            /\ UNCHANGED relocations
    /\ unresolvedLabelsCount' = unresolvedLabelsCount - 1
    /\ UNCHANGED <<length, trampolinesSize, labels, assembler, copy, uses, failed>>

\* And its end.  After an error, what should have followed does not.
BindEnd ==
    /\ binding.label # 0 /\ binding.links = << >>
    /\ labels' = [labels EXCEPT ![binding.label] = [offset |-> bufferPtr, links |-> << >>]]
    /\ binding' = NoBinding
    /\ IF binding.err THEN SetLastError /\ UNCHANGED <<data, bufferPtr>>
       ELSE /\ data' = Write(data, bufferPtr, Bytes(9, binding.follows))
            /\ bufferPtr' = bufferPtr + binding.follows
            /\ UNCHANGED <<lastError, failed>>
    /\ UNCHANGED <<length, trampolinesSize, relocations, unresolvedLabelsCount, attached, copy, uses>>

Embed(s) ==
    /\ Ready
    /\ Emitted(Bytes(7, s), {})
    /\ UNCHANGED <<length, trampolinesSize, labels, relocations, unresolvedLabelsCount, attached,
                   lastError, binding, copy, failed>>

Link(l, offset, rel, relocId) ==
    /\ labels' = [labels EXCEPT ![l].links =
                    <<[offset |-> offset, rel |-> rel, relocId |-> relocId]>> \o @]
    /\ unresolvedLabelsCount' = unresolvedLabelsCount + 1

Reloc(type, source, s, d) == [type |-> type, source |-> source, size |-> s, data |-> d]

EmbedLabel(l) ==
    /\ Ready
    /\ Emitted(Zeroes(gpSize), {Use(gpSize, "address", l)})
    /\ LET offset == labels[l].offset IN
       /\ relocations' = Append(relocations, Reloc("RelToAbs", bufferPtr, gpSize,
                                                   IF offset = -1 THEN 0 ELSE offset))
       /\ IF offset = -1 THEN Link(l, bufferPtr, 0, Len(relocations) + 1)
          ELSE UNCHANGED <<labels, unresolvedLabelsCount>>
    /\ UNCHANGED <<length, trampolinesSize, attached, lastError, binding, copy, failed>>

\* Aligned, the label is bound, and then the constants follow.  A pool is aligned to its size
\* here.
EmbedConstPool(l, s) ==
    LET pad == (s - (bufferPtr % s)) % s IN
    /\ Ready
    /\ Emitted(Zeroes(pad), {})
    /\ Bindable(l) => /\ bufferPtr + pad + s <= MaxCode
                      /\ \A use \in uses : ~Overlap(use, bufferPtr + pad, s)
    /\ BindThen(l, s)
    /\ UNCHANGED <<length, trampolinesSize, labels, relocations, unresolvedLabelsCount, attached, copy>>

-----------------------------------------------------------------------------
(* The backend's instructions.                                             *)

\* A jump, without its opcode: the size is left where the distance, counted from behind it,
\* will be.
EmitJump(l, s) ==
    /\ Ready
    /\ LET distance == labels[l].offset - (bufferPtr + s) IN
       IF labels[l].offset # -1
       THEN /\ s = 1 => distance \in Int8
            /\ Emitted(Bytes(distance, s), {Use(s, "jump", l)})
            /\ UNCHANGED <<labels, unresolvedLabelsCount>>
       ELSE /\ Emitted([k \in 1..s |-> <<s, 1, 1>>], {Use(s, "jump", l)})
            /\ Link(l, bufferPtr, -s, 0)
    /\ UNCHANGED <<length, trampolinesSize, relocations, attached, lastError, binding, copy, failed>>

\* A call of an absolute address: a spare byte, the opcode 0xE8 and a distance.
EmitCall(target) ==
    /\ Ready
    /\ Emitted(Zeroes(1) \o Bytes(232, 1) \o Zeroes(4), {Use(6, "call", target)})
    /\ relocations' = Append(relocations, Reloc("Trampoline", bufferPtr + 2, 4, target))
    /\ trampolinesSize' = trampolinesSize + 8
    /\ UNCHANGED <<length, labels, unresolvedLabelsCount, attached, lastError, binding, copy, failed>>

-----------------------------------------------------------------------------
(* relocate, after getCodeSize, which syncs, as JitRuntime::_add calls     *)
(* them.                                                                   *)

CodeSize == Synced + trampolinesSize

Relocate(base) ==
    /\ Idle
    /\ length' = Synced
    /\ copy' = [base |-> base, next |-> 1, bytes |-> SubSeq(data, 1, Synced), trampOffset |-> Synced]
    /\ UNCHANGED <<data, trampolinesSize, labels, relocations, unresolvedLabelsCount, assembler,
                   binding, uses, failed>>

\* Faulty variant: the distance is counted from where the displacement begins.
Relative_FromBegin(re) == re.data - (copy.base + re.source)

\* From behind the displacement.
Relative(re) == re.data - (copy.base + re.source + re.size)

\* The bytes of a relocation, and the trampoline if the target is too far away.
Relocated(re) ==
    IF re.type = "RelToAbs"
    THEN [copy EXCEPT !.bytes = Write(@, re.source, Bytes(re.data + copy.base, re.size))]
    ELSE IF Relative(re) \in Int32
    THEN [copy EXCEPT !.bytes = Write(@, re.source, Bytes(Relative(re), re.size))]
    ELSE LET far  == Bytes(copy.trampOffset - re.source - re.size, re.size)
             call == Bytes(255, 1) \o Bytes(21, 1) \o far
         IN  [copy EXCEPT !.bytes = Write(Write(@, re.source - 2, call), copy.trampOffset, Bytes(re.data, 8)),
                          !.trampOffset = @ + 8]

\* A pass of its loop.
RelocateNext ==
    /\ copy.base # 0 /\ copy.next <= Len(relocations)
    /\ copy' = [Relocated(relocations[copy.next]) EXCEPT !.next = @ + 1]
    /\ UNCHANGED <<data, length, trampolinesSize, labels, relocations, unresolvedLabelsCount,
                   assembler, binding, uses, failed>>

RelocateEnd ==
    /\ copy.base # 0 /\ copy.next > Len(relocations)
    /\ copy' = NoCopy
    /\ UNCHANGED <<data, length, trampolinesSize, labels, relocations, unresolvedLabelsCount,
                   assembler, binding, uses, failed>>

Next ==
    \/ Attach \/ Detach \/ NewLabel \/ Embed(1) \/ BindNext \/ BindEnd
    \/ \E offset \in Offsets : SetOffset(offset)
    \/ \E l \in DOMAIN labels : \/ Bind(l) \/ EmbedLabel(l) \/ EmbedConstPool(l, 4)
                                \/ EmitJump(l, 1) \/ EmitJump(l, 4)
    \/ \E target \in Targets : EmitCall(target)
    \/ \E base \in Bases : Relocate(base)
    \/ RelocateNext \/ RelocateEnd

Spec == Init /\ [][Next]_vars

-----------------------------------------------------------------------------
Bound(l) == labels[l].offset # -1

\* The links that are not resolved yet.
LinksOf(l) == IF l = binding.label THEN binding.links ELSE labels[l].links

Unresolved == UNION {{l} \X DOMAIN LinksOf(l) : l \in DOMAIN labels}

\* What stands where a label or an address is used.
Stands(use) == SubSeq(copy.bytes, use.at + 1, use.at + use.size)

AddressStands(use) == Stands(use) = Bytes(copy.base + labels[use.of].offset, gpSize)

JumpStands(use) == Stands(use) = Bytes(labels[use.of].offset - (use.at + use.size), use.size)

\* The distance of a call leads to its target or to the trampoline that holds it.
CallStands(use) ==
    LET to == use.at + 6 + copy.bytes[use.at + 3][1] IN
    /\ SubSeq(copy.bytes, use.at + 3, use.at + 6) = Bytes(copy.bytes[use.at + 3][1], 4)
    /\ \/ copy.bytes[use.at + 2] = <<232, 1, 1>> /\ copy.base + to = use.of
       \/ /\ copy.bytes[use.at + 1] = <<255, 1, 1>> /\ copy.bytes[use.at + 2] = <<21, 1, 1>>
          /\ to >= Synced /\ SubSeq(copy.bytes, to + 1, to + 8) = Bytes(use.of, 8)

\* In whichever order labels are made, used and bound, and wherever the code is copied to:
\* the address of a label that is bound is what stands where it was embedded, and the
\* distance where it is jumped to unless an error was reported; a call leads to its target,
\* or to a trampoline that holds it; the copy is as large as relocate says and no larger than
\* getCodeSize; and what is not resolved is counted.
LabelsResolve ==
    /\ copy.base # 0 /\ copy.next > Len(relocations) =>
          /\ Len(copy.bytes) = copy.trampOffset /\ copy.trampOffset <= CodeSize
          /\ \A use \in uses :
                /\ use.kind = "address" /\ Bound(use.of) => AddressStands(use)
                /\ use.kind = "jump" /\ Bound(use.of) => JumpStands(use) \/ (failed /\ use.size = 1)
                /\ use.kind = "call" => CallStands(use)
    /\ \A r \in DOMAIN relocations : relocations[r].source + relocations[r].size <= CodeSize
    /\ unresolvedLabelsCount = Cardinality(Unresolved)
    /\ \A l \in DOMAIN labels : Bound(l) => labels[l].links = << >>

=============================================================================
