------------------------------ MODULE BitUtils ------------------------------
(***************************************************************************)
(* The functions of asmjit/base/utils.h that work on bits and bytes, as    *)
(* they are written for compilers without intrinsics: each is called with  *)
(* a word and a number.  A word has WordBits bits; in memory, a byte has   *)
(* WordBits / 8, so that a word stands for a uint64_t.  Constants of the   *)
(* code that fill 32 bits are cut to the word.                             *)
(***************************************************************************)
EXTENDS Integers, Sequences, FiniteSetsExt, Bitwise

CONSTANTS
    WordBits,   \* 16
    Words,      \* the words that are tried
    Numbers     \* the numbers, from 1 on

VARIABLES word, number, op, result

vars == <<word, number, op, result>>

Init == word \in Words /\ number \in Numbers /\ op = "none" /\ result = 0

-----------------------------------------------------------------------------
Wrap(x) == x % 2^WordBits
Right(x, n) == x \div 2^n
Left(x, n)  == Wrap(x * 2^n)

BitCountSlow(x) ==
    LET x1 == x - (Right(x, 1) & 21845)                     \* 0x5555
        x2 == (x1 & 13107) + (Right(x1, 2) & 13107)         \* 0x3333
    IN  Right(Wrap(((x2 + Right(x2, 4)) & 3855) * 257), WordBits - 8)   \* 0x0F0F, 0x0101

\* Two bits at a time; -1 is 0xFFFFFFFF.
RECURSIVE FirstBitFrom(_, _)
FirstBitFrom(i, mask) ==
    IF mask = 0 THEN -1
    ELSE IF mask % 4 # 0 THEN i - (mask % 2)
    ELSE FirstBitFrom(i + 2, Right(mask, 2))

FindFirstBitSlow(mask) == FirstBitFrom(1, mask)

\* m has bit i set; from i on, nBits more are kept.
RECURSIVE KeepFrom(_, _, _)
KeepFrom(mask, i, nBits) ==
    LET left == nBits - (Right(mask, i) % 2) IN
    IF i = WordBits THEN mask
    ELSE IF left = 0 THEN mask & (2^(i + 1) - 1)
    ELSE KeepFrom(mask, i + 1, left)

KeepNOnesFromRight(mask, nBits) == KeepFrom(mask, 0, nBits)

RECURSIVE IndexFrom(_, _, _)
IndexFrom(mask, i, nBits) ==
    IF i = WordBits \/ nBits = 0 THEN << >>
    ELSE IF Right(mask, i) % 2 = 1 THEN <<i>> \o IndexFrom(mask, i + 1, nBits - 1)
    ELSE IndexFrom(mask, i + 1, nBits)

IndexNOnesFromRight(mask, nBits) == IndexFrom(mask, 0, nBits)

\* And with the complement of alignment - 1.
AlignTo(x, alignment) == Wrap(x + alignment - 1) & (2^WordBits - alignment)

\* Faulty variant: without the last step.
AlignToPowerOf2_Short(x) ==
    LET b0 == Wrap(x - 1)
        b1 == b0 | Right(b0, 1)
        b2 == b1 | Right(b1, 2)
    IN  Wrap((b2 | Right(b2, 4)) + 1)

AlignToPowerOf2(x) ==
    LET b0 == Wrap(x - 1)
        b1 == b0 | Right(b0, 1)
        b2 == b1 | Right(b1, 2)
        b4 == b2 | Right(b2, 4)
    IN  Wrap((b4 | Right(b4, 8)) + 1)

IsPowerOf2(x) == x # 0 /\ (x & (x - 1)) = 0

\* From the width of the word on, the shift is undefined and overflow replaces it.
LowBits(n) == IF n >= WordBits THEN 2^WordBits - 1 ELSE 2^n - 1

-----------------------------------------------------------------------------
(* Memory, on x86: the lowest byte first, and any alignment.               *)

Byte == 2^(WordBits \div 8)

\* The k bytes of x, and the number they are.
Stored(x, k) == [i \in 1..k |-> (x \div Byte^(i - 1)) % Byte]
Loaded(p) == MapThenSumSet(LAMBDA i : p[i] * Byte^(i - 1), DOMAIN p)

Half == Byte^4      \* a word is two of these

\* Of four bytes: the outer two change places, then the inner two.
Byteswap32(x) ==
    LET b == Stored(x, 4)
        outer == b[4] + b[1] * Byte^3
    IN  outer + b[3] * Byte + b[2] * Byte^2

WriteU16LE(x) == Stored(x, 2)
WriteU16BE(x) == <<(x \div Byte) % Byte, x % Byte>>
WriteU32LE(x) == Stored(x, 4)
WriteU32BE(x) == Stored(Byteswap32(x), 4)
WriteU64LE(x) == Stored(x, 8)
\* The lower half goes first.
WriteU64BE(x) == WriteU32BE(x % Half) \o WriteU32BE(x \div Half)

ReadU16LE(p) == Loaded(p)
ReadU16BE(p) == p[1] * Byte + p[2]
ReadU32LE(p) == Loaded(p)
ReadU32BE(p) == Byteswap32(Loaded(p))
ReadU64LE(p) == Loaded(p)
\* Each half is read with the lowest byte first.
ReadU64BE(p) == ReadU32LE(SubSeq(p, 1, 4)) * Half + ReadU32LE(SubSeq(p, 5, 8))

-----------------------------------------------------------------------------
Does(f, r) == op' = f /\ result' = r

Call ==
    \/ Does("bitCount", BitCountSlow(word))
    \/ Does("findFirstBit", FindFirstBitSlow(word))
    \/ Does("keepNOnesFromRight", KeepNOnesFromRight(word, number))
    \/ Does("indexNOnesFromRight", IndexNOnesFromRight(word, number))
    \/ Does("alignTo", AlignTo(word, 2^number))
    \/ Does("alignToPowerOf2", AlignToPowerOf2(word))
    \/ Does("isPowerOf2", IsPowerOf2(word))
    \/ Does("bits", LowBits(number))
    \/ Does("write", <<WriteU16LE(word), WriteU16BE(word), WriteU32LE(word), WriteU32BE(word),
                       WriteU64LE(word)>>)
    \/ Does("read", <<ReadU16LE(WriteU16LE(word)), ReadU16BE(WriteU16BE(word)),
                      ReadU32LE(WriteU32LE(word)), ReadU32BE(WriteU32BE(word)),
                      ReadU64LE(WriteU64LE(word)), ReadU64BE(WriteU64BE(word))>>)

Next == op = "none" /\ Call /\ UNCHANGED <<word, number>>

Spec == Init /\ [][Next]_vars

-----------------------------------------------------------------------------
(* What the functions are for.                                             *)

Ones == {i \in 0..(WordBits - 1) : Right(word, i) % 2 = 1}
Sum(S) == MapThenSumSet(LAMBDA i : 2^i, S)

\* The lowest "number" ones, or all if there are fewer.
Lowest == {i \in Ones : Cardinality({j \in Ones : j < i}) < number}

\* The least multiple of a that is not below x.
Up(x, a) == IF x % a = 0 THEN x ELSE x - (x % a) + a

Reversed(p) == [i \in DOMAIN p |-> p[Len(p) + 1 - i]]

\* Each function returns what its name says: the number of ones, the lowest one, the lowest
\* few of them; the next multiple, the next power of two (0 for 0), modulo the word; the
\* bytes in either order and, read again, the word.  Only the big-endian pair for 64 bits does not
\* agree with itself: what is read has its halves' bytes in the other order.
BitsAgree ==
    CASE op = "bitCount"            -> result = Cardinality(Ones)
      [] op = "findFirstBit"        -> result = IF Ones = {} THEN -1 ELSE Min(Ones)
      [] op = "keepNOnesFromRight"  -> result = Sum(Lowest)
      [] op = "indexNOnesFromRight" -> /\ {result[i] : i \in DOMAIN result} = Lowest
                                       /\ \A i \in 1..(Len(result) - 1) : result[i] < result[i + 1]
      [] op = "alignTo"             -> result = Wrap(Up(word, 2^number))
      [] op = "alignToPowerOf2"     -> result = IF word = 0 THEN 0
                                             ELSE Wrap(2^Min({i \in 0..WordBits : 2^i >= word}))
      [] op = "isPowerOf2"          -> result = (Cardinality(Ones) = 1)
      [] op = "bits"                -> result = Sum(0..(Min({number, WordBits}) - 1))
      [] op = "write"               -> /\ result[2] = Reversed(result[1]) /\ result[4] = Reversed(result[3])
                                       /\ Loaded(result[5]) = word
      [] op = "read"                -> /\ result[1] = word % Byte^2 /\ result[2] = result[1]
                                       /\ result[3] = word % Half /\ result[4] = result[3]
                                       /\ result[5] = word
                                       /\ result[6] = Byteswap32(word % Half) * Half + Byteswap32(word \div Half)
      [] OTHER -> TRUE

=============================================================================
